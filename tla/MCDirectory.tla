----------------------------- MODULE MCDirectory -----------------------------
(* Small instances of Directory for TLC. *)
EXTENDS DirectoryProperties

Gstin(state_code, pan, entity) == [state_code |-> state_code, pan |-> pan, entity |-> entity]

\* Unregistered, registered, and registered with a state that is not its own.
ThreeIdentities ==
    {[gstin |-> Null, pan |-> Null, state_code |-> "29"],
     [gstin |-> Gstin("29", "R", 1), pan |-> Null, state_code |-> "29"],
     [gstin |-> Gstin("29", "R", 1), pan |-> Null, state_code |-> "27"]}

\* Everything; the active customers whose name starts as the second name does.
TwoFilters ==
    {[party_type |-> Null, is_active |-> Null, name_prefix |-> Null],
     [party_type |-> "customer", is_active |-> TRUE, name_prefix |-> {2}]}

=============================================================================
