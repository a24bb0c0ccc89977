--------------------------- MODULE MCRegistration ---------------------------
(* A small instance of Registration for TLC. *)
EXTENDS RegistrationProperties, TLC

AttemptSymmetry == Permutations(Attempts)

Application(state_code, pan, entity, email) ==
    [gstin |-> [state_code |-> state_code, pan |-> pan, entity |-> entity],
     state_code |-> state_code, email |-> email]

\* A business; the same PAN in another state; another entity with the e-mail
\* of the first; one that shares nothing.
FourApplications ==
    {Application("29", "P", 1, "a"), Application("27", "P", 1, "b"),
     Application("29", "Q", 1, "a"), Application("27", "R", 1, "c")}

=============================================================================
