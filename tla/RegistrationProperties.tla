----------------------- MODULE RegistrationProperties -----------------------
(***************************************************************************)
(* What must hold of registrations.                                        *)
(***************************************************************************)
EXTENDS Registration

(***************************************************************************)
(* A registration is answered truly, however many run at once: a duplicate *)
(* is only reported of something another business really has, nothing but  *)
(* a business that exists was registered, and no collision is left to end  *)
(* as an unhandled IntegrityError.                                         *)
(***************************************************************************)
RegistrationAnswersTrue ==
    \A a \in Attempts : at(a, "done") =>
        LET app == attempt[a].application
            others == {tenants[t] : t \in DOMAIN tenants \ {a}}
        IN  /\ attempt[a].answer \in DuplicateAnswers \cup {"registered", "failed"}
            /\ attempt[a].answer = "DuplicateGSTIN" =>
                  \E other \in others : other.gstin = app.gstin
            /\ attempt[a].answer = "DuplicateEmail" =>
                  \E other \in others : other.email = app.email
            /\ attempt[a].answer = "DuplicatePAN" =>
                  \E other \in others : other.gstin.pan = app.gstin.pan
            /\ attempt[a].answer = "registered" <=> a \in DOMAIN tenants

(***************************************************************************)
(* A business is registered whole or not at all: every tenant has the one  *)
(* owner who can log in with its e-mail, and a compliance profile (without *)
(* which no HSN rule can be decided), also when the request dies between   *)
(* two inserts; and no two share a GSTIN, a PAN or an e-mail.              *)
(***************************************************************************)
RegisteredWhole ==
    /\ compliances = DOMAIN tenants
    /\ DOMAIN users = {tenants[t].email : t \in DOMAIN tenants}
    /\ \A t \in DOMAIN tenants : users[tenants[t].email] = t
    /\ \A t, u \in DOMAIN tenants : t # u => broken(tenants[t], {tenants[u]}) = {}

=============================================================================
