-------------------------- MODULE DirectoryProofs --------------------------
(***************************************************************************)
(* The directory's rows are consistent, and a traversal returns each       *)
(* steady party once, for every set of parties, names and page sizes.      *)
(*                                                                         *)
(* The invariant of a traversal: a steady party has been returned exactly  *)
(* when its key is not beyond the cursor.  A write keeps it because steady *)
(* parties keep their keys; a page keeps it because it is the part of what *)
(* lies beyond the old cursor that does not lie beyond the new one.  That  *)
(* rests on the order of the keys being total and on counting: in a finite *)
(* set the indices of the rows are 0, 1, 2 and so on without a gap.        *)
(***************************************************************************)
EXTENDS DirectoryProperties, FiniteSetTheorems, FunctionTheorems, TLAPS

\* The rows of parties.
Row ==
    [tenant : Tenants, name : Names, party_type : PartyTypes,
     gstin : {r.gstin : r \in Identities} \cup {Null},
     pan : {resolve_tax_identity(r).pan : r \in Identities} \cup {Null},
     state_code : {r.state_code : r \in Identities} \cup {Null}, is_active : BOOLEAN]

\* A traversal a client is at.
Traversal ==
    [open : {TRUE}, tenant : Tenants, filter : Filters, limit : PageSizes,
     cursor : (Names \X PartyIds) \cup {Null}, returned : SUBSET PartyIds]

Stored ==
    /\ IsFiniteSet(DOMAIN parties)
    /\ parties \in [DOMAIN parties -> Row]

SteadyInv ==
    /\ listing \in Traversal \cup {Closed}
    /\ listing = Closed => steady = {}
    /\ \A p \in steady :
          /\ on_list(parties[p], listing.tenant, listing.filter)
          /\ p \in listing.returned <=> ~beyond(sort_key(p), listing.cursor)

IInv ==
    /\ DirectoryTypeOK
    /\ Stored
    /\ SteadyInv

-----------------------------------------------------------------------------
(* The order of the rows. *)

before(p, q) == precedes(sort_key(p), sort_key(q))

Keys == Names \X PartyIds

LEMMA KeyOrder ==
    /\ \A a \in Keys : ~precedes(a, a)
    /\ \A a, b, c \in Keys : precedes(a, b) /\ precedes(b, c) => precedes(a, c)
    /\ \A a, b \in Keys : a # b => precedes(a, b) \/ precedes(b, a)
<1> SUFFICES ASSUME NEW a \in Keys, NEW b \in Keys, NEW c \in Keys
             PROVE  /\ ~precedes(a, a)
                    /\ precedes(a, b) /\ precedes(b, c) => precedes(a, c)
                    /\ a # b => precedes(a, b) \/ precedes(b, a)
  OBVIOUS
<1>1. /\ a = <<a[1], a[2]>> /\ b = <<b[1], b[2]>>
      /\ a[1] \in Nat /\ a[2] \in Nat /\ b[1] \in Nat /\ b[2] \in Nat
      /\ c[1] \in Nat /\ c[2] \in Nat
  <2>1. \A k \in Keys : k = <<k[1], k[2]>> /\ k[1] \in Names /\ k[2] \in PartyIds
    BY DEF Keys
  <2>2. Names \subseteq Nat /\ PartyIds \subseteq Nat
    BY OrdersAssumption
  <2> QED BY <2>1, <2>2
<1> QED BY <1>1 DEF precedes

LEMMA RowsOrdered ==
    ASSUME DirectoryTypeOK
    PROVE  /\ \A p \in DOMAIN parties : sort_key(p) \in Keys
           /\ \A p, q \in DOMAIN parties : p # q => sort_key(p) # sort_key(q)
BY DEF DirectoryTypeOK, sort_key, Keys

-----------------------------------------------------------------------------
(* The index of a row. *)

LEMMA IndexRange ==
    ASSUME DirectoryTypeOK, NEW S \in SUBSET DOMAIN parties, IsFiniteSet(S), NEW p \in S
    PROVE  index(S, p) \in 0..(Cardinality(S) - 1)
<1> DEFINE T == {q \in S : before(q, p)}
<1>1. ~before(p, p)
  BY KeyOrder, RowsOrdered DEF before
<1>2. T \in SUBSET (S \ {p})
  BY <1>1
<1>3. /\ IsFiniteSet(S \ {p}) /\ Cardinality(S \ {p}) = Cardinality(S) - 1
  BY FS_RemoveElement
<1>4. index(S, p) = Cardinality(T)
  BY DEF index, before
<1> HIDE DEF T
<1>5. IsFiniteSet(T) /\ Cardinality(T) <= Cardinality(S) - 1
  BY <1>2, <1>3, FS_Subset
<1>6. Cardinality(T) \in Nat /\ Cardinality(S) \in Nat
  BY <1>5, FS_CardinalityType
<1> QED BY <1>4, <1>5, <1>6

\* The rows before a row have lower indices.
LEMMA IndexGrows ==
    ASSUME DirectoryTypeOK, NEW S \in SUBSET DOMAIN parties, IsFiniteSet(S),
           NEW p \in DOMAIN parties, NEW q \in S, before(q, p)
    PROVE  index(S, q) < index(S, p)
<1> DEFINE T == {r \in S : before(r, p)}
           U == {r \in S : before(r, q)}
<1>1. ~before(q, q) /\ \A r \in S : before(r, q) => before(r, p)
  <2>1. /\ sort_key(q) \in Keys /\ sort_key(p) \in Keys
        /\ \A r \in S : sort_key(r) \in Keys
    BY RowsOrdered
  <2> QED BY <2>1, KeyOrder DEF before
<1>2. U \in SUBSET T /\ q \in T /\ q \notin U /\ T \in SUBSET S
  BY <1>1
<1>3. index(S, p) = Cardinality(T) /\ index(S, q) = Cardinality(U)
  BY DEF index, before
<1> HIDE DEF T, U
<1>4. IsFiniteSet(T)
  BY <1>2, FS_Subset
<1>5. IsFiniteSet(U) /\ Cardinality(U) <= Cardinality(T) /\ Cardinality(U) # Cardinality(T)
  BY <1>2, <1>4, FS_Subset
<1>6. Cardinality(T) \in Nat /\ Cardinality(U) \in Nat
  BY <1>4, <1>5, FS_CardinalityType
<1> QED BY <1>3, <1>5, <1>6

\* Every index below the number of rows is some row's.
LEMMA IndexOnto ==
    ASSUME DirectoryTypeOK, NEW S \in SUBSET DOMAIN parties, IsFiniteSet(S),
           NEW n \in 0..(Cardinality(S) - 1)
    PROVE  \E p \in S : index(S, p) = n
<1> DEFINE T == 0..(Cardinality(S) - 1)
           f == [p \in S |-> index(S, p)]
<1>1. \A p \in S : index(S, p) \in T
  BY IndexRange
<1>2. \A p, q \in S : index(S, p) = index(S, q) => p = q
  <2> SUFFICES ASSUME NEW p \in S, NEW q \in S, p # q, index(S, p) = index(S, q)
               PROVE  FALSE
    OBVIOUS
  <2>1. before(p, q) \/ before(q, p)
    BY KeyOrder, RowsOrdered DEF before
  <2>2. index(S, p) < index(S, q) \/ index(S, q) < index(S, p)
    BY <2>1, IndexGrows
  <2>3. index(S, p) \in Int /\ index(S, q) \in Int
    BY IndexRange
  <2> QED BY <2>2, <2>3
<1>3. f \in Injection(S, T)
  <2> HIDE DEF T
  <2> QED BY <1>1, <1>2 DEF Injection, IsInjective
<1>4. Cardinality(S) \in Nat
  BY FS_CardinalityType
<1>5. IsFiniteSet(T) /\ Cardinality(T) = Cardinality(S)
  BY <1>4, FS_Interval
<1>6. f \in Surjection(S, T)
  <2> HIDE DEF T, f
  <2> QED BY <1>3, <1>5, FS_Injection
<1>7. n \in T
  OBVIOUS
<1>8. \E p \in S : f[p] = n
  <2> HIDE DEF T, f
  <2> QED BY <1>6, <1>7 DEF Surjection
<1> QED BY <1>8

-----------------------------------------------------------------------------
(* A page. *)

\* What lies beyond the cursor of the traversal.
found ==
    {p \in DOMAIN parties : /\ on_list(parties[p], listing.tenant, listing.filter)
                            /\ beyond(sort_key(p), listing.cursor)}

LEMMA FirstOfFirst ==
    ASSUME DirectoryTypeOK, NEW S \in SUBSET DOMAIN parties, IsFiniteSet(S),
           NEW n \in Nat, NEW m \in Nat, m <= n
    PROVE  first(first(S, n), m) = first(S, m)
<1> DEFINE T == first(S, n)
<1>1. T \in SUBSET S
  BY DEF first
<1>2. \A p \in S : index(S, p) \in Int
  BY IndexRange
<1>3. ASSUME NEW p \in T PROVE index(T, p) = index(S, p)
  <2>1. p \in S /\ index(S, p) < n
    BY <1>3 DEF first
  <2>2. ASSUME NEW q \in S, before(q, p) PROVE q \in T
    <3>1. index(S, q) < index(S, p)
      BY <2>1, <2>2, IndexGrows
    <3> QED BY <1>2, <2>1, <3>1 DEF first
  <2>3. {q \in T : before(q, p)} = {q \in S : before(q, p)}
    BY <1>1, <2>2
  <2> HIDE DEF T
  <2> QED BY <2>3 DEF index, before
<1>4. \A p \in S : index(S, p) < m => p \in T
  BY <1>2 DEF first
<1> HIDE DEF T
<1>5. first(T, m) = first(S, m)
  BY <1>1, <1>3, <1>4 DEF first
<1> QED BY <1>5 DEF T

\* A page that is not full holds everything.
LEMMA FirstOfFew ==
    ASSUME DirectoryTypeOK, NEW S \in SUBSET DOMAIN parties, IsFiniteSet(S),
           NEW n \in Nat, Cardinality(first(S, n + 1)) <= n
    PROVE  first(S, n) = S
<1> DEFINE T == first(S, n + 1)
<1>1. Cardinality(S) \in Nat
  BY FS_CardinalityType
<1>2. ASSUME Cardinality(S) > n PROVE FALSE
  <2>1. T \in SUBSET S
    BY DEF first
  <2>2. IsFiniteSet(T)
    BY <2>1, FS_Subset
  <2>3. PICK p \in S : index(S, p) = n
    <3>1. n \in 0..(Cardinality(S) - 1)
      BY <1>1, <1>2
    <3> QED BY <3>1, IndexOnto
  <2>4. p \in T
    BY <2>3 DEF first
  <2>5. \A k \in 0..n : \E q \in T : index(S, q) = k
    <3> SUFFICES ASSUME NEW k \in 0..n PROVE \E q \in T : index(S, q) = k
      OBVIOUS
    <3>1. k \in 0..(Cardinality(S) - 1)
      BY <1>1, <1>2
    <3>2. PICK q \in S : index(S, q) = k
      BY <3>1, IndexOnto
    <3> QED BY <3>2 DEF first
  <2> DEFINE f == [q \in T |-> index(S, q)]
  <2>6. f \in Surjection(T, 0..n)
    <3>1. ASSUME NEW q \in T PROVE index(S, q) \in 0..n
      <4>1. q \in S /\ index(S, q) < n + 1
        BY DEF first
      <4>2. index(S, q) \in Nat
        BY <1>1, <4>1, IndexRange
      <4> QED BY <4>1, <4>2
    <3> HIDE DEF T
    <3> QED BY <2>5, <3>1 DEF Surjection
  <2>7. Cardinality(0..n) = n + 1
    BY FS_Interval
  <2> HIDE DEF T, f
  <2>8. Cardinality(0..n) <= Cardinality(T)
    BY <2>2, <2>6, FS_Surjection
  <2>9. Cardinality(T) \in Nat
    BY <2>2, FS_CardinalityType
  <2> QED BY <2>7, <2>8, <2>9 DEF T
<1>3. \A p \in S : index(S, p) < n
  <2> SUFFICES ASSUME NEW p \in S PROVE index(S, p) < n
    OBVIOUS
  <2>1. index(S, p) \in 0..(Cardinality(S) - 1)
    BY IndexRange
  <2> QED BY <1>1, <1>2, <2>1
<1> QED BY <1>3 DEF first

\* The cursor after a full page: the page is what does not lie beyond it.
LEMMA FirstOfMany ==
    ASSUME DirectoryTypeOK, NEW S \in SUBSET DOMAIN parties, IsFiniteSet(S),
           NEW n \in Nat \ {0}, Cardinality(first(S, n + 1)) > n
    PROVE  \E last \in S :
              /\ next_cursor(first(S, n + 1), n) = sort_key(last)
              /\ \A p \in S : p \in first(S, n) <=> ~before(last, p)
<1> DEFINE T == first(S, n + 1)
           last == CHOOSE p \in T : index(T, p) = n - 1
<1>1. T \in SUBSET S /\ T \in SUBSET DOMAIN parties
  BY DEF first
<1>2. IsFiniteSet(T)
  BY <1>1, FS_Subset
<1>3. Cardinality(T) \in Nat /\ Cardinality(T) > n
  BY <1>2, FS_CardinalityType
<1>4. last \in T /\ index(T, last) = n - 1
  <2>1. n - 1 \in 0..(Cardinality(T) - 1)
    BY <1>3
  <2> HIDE DEF T
  <2>2. \E p \in T : index(T, p) = n - 1
    BY <1>1, <1>2, <2>1, IndexOnto
  <2> QED BY <2>2
<1>5. next_cursor(T, n) = sort_key(last)
  BY <1>3 DEF next_cursor
<1> HIDE DEF last
<1>6. index(S, last) = n - 1
  <2>1. {q \in T : before(q, last)} = {q \in S : before(q, last)}
    <3> SUFFICES ASSUME NEW q \in S, before(q, last) PROVE q \in T
      BY <1>1
    <3>1. last \in S /\ index(S, last) < n + 1
      BY <1>4 DEF first
    <3>2. index(S, q) < index(S, last)
      BY <3>1, IndexGrows
    <3>3. index(S, q) \in Int /\ index(S, last) \in Int
      BY <3>1, IndexRange
    <3> QED BY <3>1, <3>2, <3>3 DEF first
  <2> HIDE DEF T
  <2> QED BY <1>4, <2>1 DEF index, before
<1>7. last \in S
  BY <1>1, <1>4
<1>8. ASSUME NEW p \in S PROVE p \in first(S, n) <=> ~before(last, p)
  <2>1. index(S, p) \in Int
    BY IndexRange
  <2>2. before(last, p) => index(S, p) > n - 1
    BY <1>6, <1>7, <2>1, IndexGrows
  <2>3. before(p, last) => index(S, p) < n - 1
    BY <1>6, <1>7, <2>1, IndexGrows
  <2>4. p = last \/ before(p, last) \/ before(last, p)
    BY <1>7, KeyOrder, RowsOrdered DEF before
  <2>5. p \in first(S, n) <=> index(S, p) < n
    BY DEF first
  <2> QED BY <1>6, <2>1, <2>2, <2>3, <2>4, <2>5
<1> QED BY <1>5, <1>7, <1>8 DEF T

-----------------------------------------------------------------------------
(* Writes. *)

LEMMA Edited ==
    ASSUME NEW row \in Row, NEW name \in Names, NEW r \in Identities
    PROVE  LET new == editable(row, name, r)
           IN  /\ new \in Row
               /\ new.tenant = row.tenant /\ new.name = name
               /\ new.is_active = row.is_active
               /\ new.gstin = r.gstin /\ new.pan = resolve_tax_identity(r).pan
               /\ new.state_code = r.state_code
<1>1. resolve_tax_identity(r).gstin = r.gstin
  BY DEF resolve_tax_identity
<1> QED BY <1>1 DEF editable, Row

\* A stored tax identity agrees with its GSTIN.
LEMMA IdentityAgrees ==
    ASSUME NEW r \in Identities, resolve_tax_identity(r).ok, r.gstin # Null
    PROVE  resolve_tax_identity(r).pan = r.gstin.pan /\ r.state_code = r.gstin.state_code
BY DEF resolve_tax_identity

\* A write leaves what has been returned of the steady parties as it is.
LEMMA WriteKeepsSteady ==
    ASSUME SteadyInv, observe_write, listing' = listing
    PROVE  SteadyInv'
<1>1. ASSUME NEW p \in steady'
      PROVE  /\ on_list(parties'[p], listing.tenant, listing.filter)
             /\ p \in listing.returned <=> ~beyond(<<parties'[p].name, p>>, listing.cursor)
  <2>1. /\ p \in steady /\ parties'[p].name = parties[p].name
        /\ on_list(parties'[p], listing.tenant, listing.filter)
    BY DEF observe_write
  <2> QED BY <2>1 DEF SteadyInv, sort_key
<1>2. listing = Closed => steady' = {}
  BY DEF SteadyInv, observe_write
<1>3. /\ listing' \in Traversal \cup {Closed}
      /\ listing' = Closed => steady' = {}
  BY <1>2 DEF SteadyInv
<1> QED BY <1>1, <1>3 DEF SteadyInv, sort_key

\* What a write must leave behind it.
consistent(row) ==
    /\ row \in Row
    /\ row.gstin # Null =>
          row.pan = row.gstin.pan /\ row.state_code = row.gstin.state_code

LEMMA WriteKeepsRows ==
    ASSUME DirectoryTypeOK, Stored, NEW id \in PartyIds, NEW row, consistent(row),
           parties' = [p \in DOMAIN parties \cup {id} |-> IF p = id THEN row ELSE parties[p]],
           gstin_free(row.tenant, row.gstin, id), observe_write
    PROVE  DirectoryTypeOK' /\ Stored'
<1>1. DOMAIN parties' = DOMAIN parties \cup {id} /\ parties'[id] = row
      /\ \A p \in DOMAIN parties \ {id} : parties'[p] = parties[p]
  OBVIOUS
<1>2. \A p \in DOMAIN parties' : consistent(parties'[p])
  BY <1>1 DEF DirectoryTypeOK, Stored, consistent
<1>3. Stored'
  <2>1. IsFiniteSet(DOMAIN parties')
    BY <1>1, FS_AddElement DEF Stored
  <2>2. parties' \in [DOMAIN parties' -> Row]
    BY <1>2 DEF consistent
  <2> QED BY <2>1, <2>2 DEF Stored
<1>4. \A p, q \in DOMAIN parties' :
         (/\ p # q /\ parties'[p].tenant = parties'[q].tenant
          /\ parties'[p].gstin # Null) => parties'[p].gstin # parties'[q].gstin
  <2> SUFFICES ASSUME NEW p \in DOMAIN parties', NEW q \in DOMAIN parties',
                      p # q, parties'[p].tenant = parties'[q].tenant,
                      parties'[p].gstin # Null
               PROVE  parties'[p].gstin # parties'[q].gstin
    OBVIOUS
  <2>1. CASE p # id /\ q # id
    BY <1>1, <2>1 DEF DirectoryTypeOK
  <2>2. CASE p = id
    BY <1>1, <2>2 DEF gstin_free
  <2>3. CASE q = id
    BY <1>1, <2>3 DEF gstin_free
  <2> QED BY <2>1, <2>2, <2>3
<1>5. ASSUME NEW p \in DOMAIN parties'
      PROVE  /\ parties'[p].tenant \in Tenants
             /\ parties'[p].name \in Names /\ parties'[p].is_active \in BOOLEAN
             /\ parties'[p].gstin # Null =>
                   /\ parties'[p].pan = parties'[p].gstin.pan
                   /\ parties'[p].state_code = parties'[p].gstin.state_code
  BY <1>2 DEF consistent, Row
<1>6. DOMAIN parties' \subseteq PartyIds /\ steady' \subseteq DOMAIN parties'
  BY <1>1 DEF DirectoryTypeOK, observe_write
<1> QED BY <1>3, <1>4, <1>5, <1>6 DEF DirectoryTypeOK

LEMMA CreateKeeps ==
    ASSUME IInv, NEW tenant \in Tenants, NEW id \in PartyIds, NEW name \in Names,
           NEW type \in PartyTypes, NEW r \in Identities,
           create_party(tenant, id, name, type, r)
    PROVE  IInv'
<1> DEFINE blank ==
               [tenant |-> tenant, name |-> name, party_type |-> type, gstin |-> Null,
                pan |-> Null, state_code |-> Null, is_active |-> TRUE]
           row == editable(blank, name, r)
<1>1. blank \in Row /\ blank.tenant = tenant
  BY DEF Row
<1> HIDE DEF blank
<1>2. /\ row \in Row /\ row.tenant = tenant
      /\ row.gstin = r.gstin /\ row.pan = resolve_tax_identity(r).pan
      /\ row.state_code = r.state_code
  BY <1>1, Edited
<1>3. /\ parties' = [p \in DOMAIN parties \cup {id} |->
                        IF p # id THEN parties[p] ELSE row]
      /\ resolve_tax_identity(r).ok /\ gstin_free(tenant, r.gstin, id)
      /\ observe_write /\ listing' = listing
  BY DEF create_party, blank
<1> HIDE DEF row
<1>4. consistent(row)
  BY <1>2, <1>3, IdentityAgrees DEF consistent
<1>5. parties' = [p \in DOMAIN parties \cup {id} |-> IF p = id THEN row ELSE parties[p]]
  BY <1>3
<1>6. DirectoryTypeOK' /\ Stored'
  BY <1>2, <1>3, <1>4, <1>5, WriteKeepsRows DEF IInv
<1>7. SteadyInv'
  BY <1>3, WriteKeepsSteady DEF IInv
<1> QED BY <1>6, <1>7 DEF IInv

LEMMA UpdateKeeps ==
    ASSUME IInv, NEW id \in PartyIds, NEW name \in Names, NEW r \in Identities,
           update_party(id, name, r)
    PROVE  IInv'
<1> DEFINE row == editable(parties[id], name, r)
<1>1. id \in DOMAIN parties /\ parties[id] \in Row
  BY DEF update_party, IInv, Stored
<1>2. /\ row \in Row /\ row.tenant = parties[id].tenant
      /\ row.gstin = r.gstin /\ row.pan = resolve_tax_identity(r).pan
      /\ row.state_code = r.state_code
  BY <1>1, Edited
<1>3. /\ parties' = [parties EXCEPT ![id] = row]
      /\ resolve_tax_identity(r).ok /\ gstin_free(parties[id].tenant, r.gstin, id)
      /\ observe_write /\ listing' = listing
  BY DEF update_party
<1> HIDE DEF row
<1>4. consistent(row)
  BY <1>2, <1>3, IdentityAgrees DEF consistent
<1>5. parties' = [p \in DOMAIN parties \cup {id} |-> IF p = id THEN row ELSE parties[p]]
  BY <1>1, <1>3
<1>6. DirectoryTypeOK' /\ Stored'
  BY <1>2, <1>3, <1>4, <1>5, WriteKeepsRows DEF IInv
<1>7. SteadyInv'
  BY <1>3, WriteKeepsSteady DEF IInv
<1> QED BY <1>6, <1>7 DEF IInv

LEMMA SetActiveKeeps ==
    ASSUME IInv, NEW id \in PartyIds, NEW is_active \in BOOLEAN, set_active(id, is_active)
    PROVE  IInv'
<1> DEFINE row == [parties[id] EXCEPT !.is_active = is_active]
<1>1. id \in DOMAIN parties /\ parties[id] \in Row /\ consistent(parties[id])
  BY DEF set_active, IInv, Stored, DirectoryTypeOK, consistent
<1>2. /\ row \in Row /\ row.tenant = parties[id].tenant
      /\ row.gstin = parties[id].gstin /\ row.pan = parties[id].pan
      /\ row.state_code = parties[id].state_code
  BY <1>1 DEF Row
<1>3. /\ parties' = [parties EXCEPT ![id] = row] /\ observe_write /\ listing' = listing
  BY DEF set_active
<1> HIDE DEF row
<1>4. consistent(row)
  BY <1>1, <1>2 DEF consistent
<1>5. gstin_free(row.tenant, row.gstin, id)
  BY <1>1, <1>2 DEF gstin_free, IInv, DirectoryTypeOK
<1>6. parties' = [p \in DOMAIN parties \cup {id} |-> IF p = id THEN row ELSE parties[p]]
  BY <1>1, <1>3
<1>7. DirectoryTypeOK' /\ Stored'
  BY <1>3, <1>4, <1>5, <1>6, WriteKeepsRows DEF IInv
<1>8. SteadyInv'
  BY <1>3, WriteKeepsSteady DEF IInv
<1> QED BY <1>7, <1>8 DEF IInv

-----------------------------------------------------------------------------
(* The traversal. *)

LEMMA StartKeeps ==
    ASSUME IInv, StartListing
    PROVE  IInv'
<1>1. PICK tenant \in Tenants, filter \in Filters, limit \in PageSizes :
          /\ listing' = [open |-> TRUE, tenant |-> tenant, filter |-> filter,
                         limit |-> limit, cursor |-> Null, returned |-> {}]
          /\ steady' = {p \in DOMAIN parties : on_list(parties[p], tenant, filter)}
  BY DEF StartListing
<1>2. parties' = parties
  BY DEF StartListing
<1>3. DirectoryTypeOK' /\ Stored'
  BY <1>1, <1>2 DEF IInv, DirectoryTypeOK, Stored
<1>4. /\ listing' \in Traversal /\ listing'.open
      /\ listing'.tenant = tenant /\ listing'.filter = filter
      /\ listing'.cursor = Null /\ listing'.returned = {}
  BY <1>1 DEF Traversal
<1>5. listing' # Closed
  BY <1>4 DEF Closed
<1>6. SteadyInv'
  BY <1>1, <1>2, <1>4, <1>5 DEF SteadyInv, beyond, sort_key
<1> QED BY <1>3, <1>6 DEF IInv

\* The facts of one page.
LEMMA Page ==
    ASSUME IInv, listing.open
    PROVE  /\ listing \in Traversal
           /\ found \in SUBSET DOMAIN parties /\ IsFiniteSet(found)
           /\ listing.limit \in Nat \ {0}
           /\ fetched = first(found, listing.limit + 1)
           /\ page = first(found, listing.limit)
           /\ page \subseteq found
<1>1. listing \in Traversal
  BY DEF IInv, SteadyInv, Closed
<1>2. found \in SUBSET DOMAIN parties
  BY DEF found
<1>3. IsFiniteSet(found)
  BY <1>2, FS_Subset DEF IInv, Stored
<1>4. listing.limit \in Nat \ {0}
  BY <1>1, PageSizesAssumption DEF Traversal
<1>5. fetched = first(found, listing.limit + 1)
  BY DEF fetched, list_page, found
<1>6. page = first(found, listing.limit)
  <2>1. listing.limit + 1 \in Nat /\ listing.limit \in Nat
        /\ listing.limit <= listing.limit + 1
    BY <1>4
  <2> HIDE DEF found
  <2> QED BY <1>2, <1>3, <1>5, <2>1, FirstOfFirst DEF page, IInv
<1>7. page \subseteq found
  BY <1>6 DEF first
<1> QED BY <1>1, <1>2, <1>3, <1>4, <1>5, <1>6, <1>7

\* The last page of a traversal, or one with a next.
LEMMA PageEnds ==
    ASSUME IInv, listing.open
    PROVE  \/ next_cursor(fetched, listing.limit) = Null /\ page = found
           \/ \E last \in found :
                 /\ next_cursor(fetched, listing.limit) = sort_key(last)
                 /\ sort_key(last) # Null
                 /\ \A p \in found : p \in page <=> ~before(last, p)
<1> DEFINE n == listing.limit
<1>1. /\ found \in SUBSET DOMAIN parties /\ IsFiniteSet(found) /\ n \in Nat \ {0}
      /\ fetched = first(found, n + 1) /\ page = first(found, n)
  BY Page
<1>2. DirectoryTypeOK
  BY DEF IInv
<1>3. Cardinality(fetched) \in Nat
  <2>1. fetched \in SUBSET found
    BY <1>1 DEF first
  <2> QED BY <1>1, <2>1, FS_Subset, FS_CardinalityType
<1> HIDE DEF n
<1>4. CASE Cardinality(fetched) > n
  <2>1. PICK last \in found :
            /\ next_cursor(fetched, n) = sort_key(last)
            /\ \A p \in found : p \in page <=> ~before(last, p)
    BY <1>1, <1>2, <1>4, FirstOfMany
  <2>2. sort_key(last) # Null
    BY <1>1, <1>2, RowsOrdered, NullAssumption DEF Keys
  <2> QED BY <2>1, <2>2 DEF n
<1>5. CASE ~(Cardinality(fetched) > n)
  <2>1. Cardinality(first(found, n + 1)) <= n /\ n \in Nat
    BY <1>1, <1>3, <1>5
  <2>2. page = found
    BY <1>1, <1>2, <2>1, FirstOfFew
  <2>3. next_cursor(fetched, n) = Null
    BY <1>5 DEF next_cursor
  <2> QED BY <2>2, <2>3 DEF n
<1> QED BY <1>4, <1>5

LEMMA FetchKeeps ==
    ASSUME IInv, FetchPage
    PROVE  IInv'
<1> DEFINE cursor == next_cursor(fetched, listing.limit)
<1>1. listing.open /\ parties' = parties
  BY DEF FetchPage
<1>2. CASE cursor = Null
  <2>1. listing' = Closed /\ steady' = {}
    BY <1>2 DEF FetchPage
  <2>2. DirectoryTypeOK' /\ Stored'
    BY <1>1, <2>1 DEF IInv, DirectoryTypeOK, Stored
  <2>3. SteadyInv'
    BY <2>1 DEF SteadyInv
  <2> QED BY <2>2, <2>3 DEF IInv
<1>3. CASE cursor # Null
  <2>1. /\ listing' = [listing EXCEPT !.returned = @ \cup page, !.cursor = cursor]
        /\ steady' = steady
    BY <1>3 DEF FetchPage
  <2>2. PICK last \in found :
            /\ cursor = sort_key(last)
            /\ \A p \in found : p \in page <=> ~before(last, p)
    BY <1>1, <1>3, PageEnds
  <2>3. /\ listing \in Traversal /\ found \in SUBSET DOMAIN parties
        /\ page \subseteq found
    BY <1>1, Page
  <2>4. DirectoryTypeOK' /\ Stored'
    BY <1>1, <2>1 DEF IInv, DirectoryTypeOK, Stored
  <2>5. cursor \in Names \X PartyIds
    BY <2>2, <2>3, RowsOrdered DEF IInv, Keys
  <2>6. DOMAIN parties \subseteq PartyIds
    BY DEF IInv, DirectoryTypeOK
  <2> HIDE DEF cursor
  <2>7. /\ listing' \in Traversal /\ listing'.open
        /\ listing'.tenant = listing.tenant /\ listing'.filter = listing.filter
        /\ listing'.cursor = cursor
        /\ listing'.returned = listing.returned \cup page
    BY <2>1, <2>3, <2>5, <2>6 DEF Traversal
  <2>8. listing' # Closed
    BY <2>7 DEF Closed
  <2>9. ASSUME NEW p \in steady
        PROVE  p \in listing.returned \cup page <=> ~beyond(sort_key(p), cursor)
    <3>1. /\ p \in DOMAIN parties
          /\ on_list(parties[p], listing.tenant, listing.filter)
          /\ p \in listing.returned <=> ~beyond(sort_key(p), listing.cursor)
      BY DEF IInv, DirectoryTypeOK, SteadyInv
    <3>2. beyond(sort_key(p), cursor) <=> before(last, p)
      BY <1>3, <2>2 DEF beyond, before, cursor
    <3>3. CASE p \in found
      BY <2>2, <3>1, <3>2, <3>3 DEF found
    <3>4. CASE p \notin found
      <4>1. p \in listing.returned /\ ~beyond(sort_key(p), listing.cursor)
        BY <3>1, <3>4 DEF found
      <4>2. listing.cursor \in Keys /\ ~precedes(listing.cursor, sort_key(p))
        BY <2>3, <4>1 DEF beyond, Traversal, Keys
      <4>3. precedes(listing.cursor, sort_key(last))
        BY <2>2, <4>1 DEF found, beyond
      <4>4. sort_key(last) \in Keys /\ sort_key(p) \in Keys
        BY <2>2, <2>3, <3>1, RowsOrdered DEF IInv
      <4>5. ~before(last, p)
        BY <4>2, <4>3, <4>4, KeyOrder DEF before
      <4> QED BY <3>2, <4>1, <4>5
    <3> QED BY <3>3, <3>4
  <2>10. SteadyInv'
    <3>1. \A p \in steady : on_list(parties[p], listing.tenant, listing.filter)
      BY DEF IInv, SteadyInv
    <3>2. \A p \in steady' :
             /\ on_list(parties'[p], listing'.tenant, listing'.filter)
             /\ p \in listing'.returned
                  <=> ~beyond(<<parties'[p].name, p>>, listing'.cursor)
      BY <1>1, <2>1, <2>7, <2>9, <3>1 DEF sort_key
    <3> QED BY <2>7, <2>8, <3>2 DEF SteadyInv, sort_key
  <2> QED BY <2>4, <2>10 DEF IInv
<1> QED BY <1>2, <1>3

LEMMA Invariance == Spec => []IInv
<1>1. Init => IInv
  <2> SUFFICES ASSUME Init PROVE IInv
    OBVIOUS
  <2>1. DOMAIN parties = {} /\ steady = {} /\ listing = Closed
    BY DEF Init
  <2>2. Stored
    BY <2>1, FS_EmptySet DEF Stored, Init
  <2> QED BY <2>1, <2>2 DEF IInv, DirectoryTypeOK, SteadyInv
<1>2. IInv /\ [Next]_vars => IInv'
  <2> SUFFICES ASSUME IInv, [Next]_vars PROVE IInv'
    OBVIOUS
  <2>1. CASE CreateParty
    BY <2>1, CreateKeeps DEF CreateParty
  <2>2. CASE UpdateParty
    BY <2>2, UpdateKeeps DEF UpdateParty
  <2>3. CASE SetActive
    BY <2>3, SetActiveKeeps DEF SetActive
  <2>4. CASE StartListing
    BY <2>4, StartKeeps
  <2>5. CASE FetchPage
    BY <2>5, FetchKeeps
  <2>6. CASE UNCHANGED vars
    <3>1. parties' = parties /\ listing' = listing /\ steady' = steady
      BY <2>6 DEF vars
    <3> QED BY <3>1 DEF IInv, DirectoryTypeOK, Stored, SteadyInv, sort_key
  <2> QED BY <2>1, <2>2, <2>3, <2>4, <2>5, <2>6 DEF Next
<1> QED BY <1>1, <1>2, PTL DEF Spec

(***************************************************************************)
(* Rows are typed, a stored GSTIN agrees with the PAN and the state stored *)
(* with it, and is one party of a tenant, whatever is written over what.   *)
(***************************************************************************)
THEOREM DirectoryCorrect == Spec => []DirectoryTypeOK
<1>1. IInv => DirectoryTypeOK
  BY DEF IInv
<1> QED BY <1>1, Invariance, PTL

(***************************************************************************)
(* A party that stays on the list under one name is on exactly one page,   *)
(* for every order of names and ids, page size and mix of writes.          *)
(***************************************************************************)
THEOREM SteadyPartiesListedOnce == Spec => SteadyListedOnce
<1>1. ASSUME IInv, FetchPage
      PROVE  /\ steady \cap listing.returned \cap page = {}
             /\ ~listing'.open => steady \subseteq listing.returned \cup page
  <2>1. listing.open
    BY <1>1 DEF FetchPage
  <2>2. listing \in Traversal /\ page \subseteq found
    BY <1>1, <2>1, Page
  <2>3. steady \cap listing.returned \cap page = {}
    BY <1>1, <2>2 DEF found, IInv, SteadyInv
  <2>4. ASSUME ~listing'.open PROVE steady \subseteq listing.returned \cup page
    <3>1. next_cursor(fetched, listing.limit) = Null
      <4> DEFINE cursor == next_cursor(fetched, listing.limit)
      <4>1. SUFFICES ASSUME cursor # Null PROVE FALSE
        OBVIOUS
      <4>2. listing' = [listing EXCEPT !.returned = @ \cup page, !.cursor = cursor]
        BY <1>1, <4>1 DEF FetchPage
      <4>3. listing'.open
        BY <2>2, <4>2 DEF Traversal
      <4> QED BY <2>4, <4>3
    <3>2. page = found
      BY <1>1, <2>1, <3>1, PageEnds
    <3>3. ASSUME NEW p \in steady PROVE p \in listing.returned \/ p \in found
      BY <1>1, <3>3 DEF found, IInv, SteadyInv, DirectoryTypeOK
    <3> QED BY <3>2, <3>3
  <2> QED BY <2>3, <2>4
<1>2. IInv /\ [Next]_vars =>
         [FetchPage =>
            /\ steady \cap listing.returned \cap page = {}
            /\ ~listing'.open => steady \subseteq listing.returned \cup page]_vars
  BY <1>1
<1> QED BY <1>2, Invariance, PTL DEF Spec, SteadyListedOnce

=============================================================================
