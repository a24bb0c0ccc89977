------------------------------ MODULE Directory ------------------------------
(***************************************************************************)
(* The customers and vendors each tenant keeps, and a client that reads    *)
(* one such list page by page while other requests add, rename, deactivate *)
(* and reactivate parties under it.                                        *)
(*                                                                         *)
(* party_service writes a party with one statement per transaction, so     *)
(* each of its handlers is one action; an INSERT or UPDATE that breaks     *)
(* uq_party_tenant_gstin is answered 409 and changes nothing.  A page is   *)
(* one SELECT.  The order of two UUIDs says nothing of their age.          *)
(***************************************************************************)
EXTENDS Integers, FiniteSets

CONSTANTS
    Tenants,
    PartyIds,       \* the UUIDs parties may be given, as numbers: they are compared
    Names,          \* party names, as numbers: they are compared
    PartyTypes,     \* subset of {"customer", "vendor"}
    Identities,     \* requested [gstin, pan, state_code]
    Filters,        \* query parameters [party_type, is_active, name_prefix]; a
                    \* prefix is the set of names that start with it
    PageSizes,      \* values of limit
    Null            \* SQL NULL, or a query parameter that is not given

ASSUME OrdersAssumption == PartyIds \subseteq Nat /\ Names \subseteq Nat
ASSUME NullAssumption == Null \notin Names \X PartyIds
ASSUME PageSizesAssumption == PageSizes \subseteq Nat \ {0}
ASSUME IdentitiesAssumption ==
    \A r \in Identities : r.gstin # Null => {"state_code", "pan"} \subseteq DOMAIN r.gstin

VARIABLES
    parties,    \* table: party id -> row
    listing,    \* the traversal a client is at, or Closed; the ids returned so
                \* far are history
    steady      \* history: parties on the list throughout the traversal, unrenamed

vars == <<parties, listing, steady>>

Closed == [open |-> FALSE]

Init ==
    /\ parties = << >>
    /\ listing = Closed
    /\ steady = {}

-----------------------------------------------------------------------------
(* party_service, party_repository: writes. *)

\* Planted fault: a GSTIN of another state is accepted.
state_unchecked(r) ==
    [ok |-> r.gstin = Null \/ r.pan \in {Null, r.gstin.pan},
     gstin |-> r.gstin, pan |-> IF r.gstin = Null THEN r.pan ELSE r.gstin.pan]

\* What is stored of a requested tax identity; the PAN is the GSTIN's.
resolve_tax_identity(r) ==
    [ok |-> \/ r.gstin = Null
            \/ r.gstin.state_code = r.state_code /\ r.pan \in {Null, r.gstin.pan},
     gstin |-> r.gstin, pan |-> IF r.gstin = Null THEN r.pan ELSE r.gstin.pan]

\* uq_party_tenant_gstin, a partial index.
gstin_free(tenant, gstin, id) ==
    gstin = Null \/ \A p \in DOMAIN parties \ {id} :
                        parties[p].tenant = tenant => parties[p].gstin # gstin

editable(row, name, r) ==
    [row EXCEPT !.name = name, !.gstin = resolve_tax_identity(r).gstin,
                !.pan = resolve_tax_identity(r).pan, !.state_code = r.state_code]

sort_key(p) == <<parties[p].name, p>>

\* WHERE clause of a list, the cursor left out.
on_list(row, tenant, filter) ==
    /\ row.tenant = tenant
    /\ filter.party_type \in {Null, row.party_type}
    /\ filter.is_active \in {Null, row.is_active}
    /\ filter.name_prefix # Null => row.name \in filter.name_prefix

\* History: a party is steady until a write renames it or takes it off the list.
observe_write ==
    steady' = {p \in steady : /\ parties'[p].name = parties[p].name
                              /\ on_list(parties'[p], listing.tenant, listing.filter)}

create_party(tenant, id, name, type, r) ==
    /\ id \notin DOMAIN parties
    /\ resolve_tax_identity(r).ok
    /\ gstin_free(tenant, r.gstin, id)
    /\ parties' = [p \in DOMAIN parties \cup {id} |->
                     IF p # id THEN parties[p]
                     ELSE editable([tenant |-> tenant, name |-> name, party_type |-> type,
                                    gstin |-> Null, pan |-> Null, state_code |-> Null,
                                    is_active |-> TRUE], name, r)]
    /\ observe_write
    /\ UNCHANGED listing

\* A full replace of what can be edited.
update_party(id, name, r) ==
    /\ id \in DOMAIN parties
    /\ resolve_tax_identity(r).ok
    /\ gstin_free(parties[id].tenant, r.gstin, id)
    /\ parties' = [parties EXCEPT ![id] = editable(parties[id], name, r)]
    /\ observe_write
    /\ UNCHANGED listing

set_active(id, is_active) ==
    /\ id \in DOMAIN parties
    /\ parties' = [parties EXCEPT ![id].is_active = is_active]
    /\ observe_write
    /\ UNCHANGED listing

-----------------------------------------------------------------------------
(* party_service.list_parties *)

\* ORDER BY name, id.
precedes(key1, key2) ==
    key1[1] < key2[1] \/ (key1[1] = key2[1] /\ key1[2] < key2[2])

\* Planted fault: rows with the cursor's name are left out, whatever their id.
later_name(key, cursor) == cursor = Null \/ cursor[1] < key[1]

\* Planted fault: >= for >.
from_cursor(key, cursor) == cursor = Null \/ ~precedes(key, cursor)

beyond(key, cursor) == cursor = Null \/ precedes(cursor, key)

\* The index of a row among those found.
index(found, p) == Cardinality({q \in found : precedes(sort_key(q), sort_key(p))})

\* LIMIT n
first(found, n) == {p \in found : index(found, p) < n}

list_page(tenant, filter, cursor, limit) ==
    first({p \in DOMAIN parties : /\ on_list(parties[p], tenant, filter)
                                  /\ beyond(sort_key(p), cursor)}, limit)

\* The last row of the page, when the extra row fetched shows there is more.
next_cursor(rows, limit) ==
    IF Cardinality(rows) > limit
    THEN sort_key(CHOOSE p \in rows : index(rows, p) = limit - 1)
    ELSE Null

StartListing ==
    /\ ~listing.open
    /\ \E tenant \in Tenants, filter \in Filters, limit \in PageSizes :
        /\ listing' = [open |-> TRUE, tenant |-> tenant, filter |-> filter, limit |-> limit,
                       cursor |-> Null, returned |-> {}]
        /\ steady' = {p \in DOMAIN parties : on_list(parties[p], tenant, filter)}
    /\ UNCHANGED parties

\* The rows the next request of the traversal fetches: one more than it returns.
fetched == list_page(listing.tenant, listing.filter, listing.cursor, listing.limit + 1)

page == first(fetched, listing.limit)

FetchPage ==
    /\ listing.open
    /\ UNCHANGED parties
    /\ LET cursor == next_cursor(fetched, listing.limit)
       IN  IF cursor = Null
           THEN /\ listing' = Closed
                /\ steady' = {}
           ELSE /\ listing' = [listing EXCEPT !.returned = @ \cup page, !.cursor = cursor]
                /\ UNCHANGED steady

-----------------------------------------------------------------------------

CreateParty ==
    \E tenant \in Tenants, id \in PartyIds, name \in Names, type \in PartyTypes,
       r \in Identities : create_party(tenant, id, name, type, r)

UpdateParty ==
    \E id \in PartyIds, name \in Names, r \in Identities : update_party(id, name, r)

SetActive == \E id \in PartyIds, is_active \in BOOLEAN : set_active(id, is_active)

Next ==
    \/ CreateParty
    \/ UpdateParty
    \/ SetActive
    \/ StartListing
    \/ FetchPage

Spec == Init /\ [][Next]_vars

\* A client that has started a list goes on asking for its next page.
FairSpec == Spec /\ WF_vars(FetchPage)

=============================================================================
