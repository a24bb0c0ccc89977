------------------------- MODULE DirectoryProperties -------------------------
(***************************************************************************)
(* What must hold of the directory.                                        *)
(***************************************************************************)
EXTENDS Directory

(***************************************************************************)
(* Every row has its columns; the CHECK constraint that ties a party's PAN *)
(* to its GSTIN never fires, nor does a stored GSTIN contradict the stored *)
(* state, whatever replaced whatever; one GSTIN is one party of a tenant.  *)
(***************************************************************************)
DirectoryTypeOK ==
    /\ DOMAIN parties \subseteq PartyIds
    /\ \A p \in DOMAIN parties :
        /\ parties[p].tenant \in Tenants
        /\ parties[p].name \in Names /\ parties[p].is_active \in BOOLEAN
        /\ parties[p].gstin # Null =>
              /\ parties[p].pan = parties[p].gstin.pan
              /\ parties[p].state_code = parties[p].gstin.state_code
    /\ \A p, q \in DOMAIN parties :
        (/\ p # q /\ parties[p].tenant = parties[q].tenant
         /\ parties[p].gstin # Null) => parties[p].gstin # parties[q].gstin
    /\ steady \subseteq DOMAIN parties

-----------------------------------------------------------------------------

(***************************************************************************)
(* A party that stays on the list under one name while a client reads it   *)
(* is on exactly one page, whatever is added, renamed or deactivated       *)
(* between two pages, also when it shares its name with others: no page    *)
(* repeats it, and after the last page none is missing.  (A party that is  *)
(* renamed meanwhile may be skipped or come twice.)                        *)
(***************************************************************************)
SteadyListedOnce ==
    [][FetchPage =>
          /\ steady \cap listing.returned \cap page = {}
          /\ ~listing'.open => steady \subseteq listing.returned \cup page]_vars

\* The step adds no party and renames none; deactivating and reactivating are free.
keys_stay ==
    \A p \in DOMAIN parties' : p \in DOMAIN parties /\ parties'[p].name = parties[p].name

(***************************************************************************)
(* Once no party is added or renamed any more, a client that keeps asking  *)
(* gets to the last page, whatever was written before and whoever goes on  *)
(* deactivating and reactivating parties: the cursor never goes back.      *)
(* (While parties are added beyond the cursor as fast as it advances, the  *)
(* last page may recede for ever; list_parties promises nothing else.)     *)
(***************************************************************************)
ListingEnds == <>[][keys_stay]_vars => (listing.open ~> ~listing.open)

=============================================================================
