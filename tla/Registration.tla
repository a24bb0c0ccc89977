---------------------------- MODULE Registration ----------------------------
(***************************************************************************)
(* auth_service.register: a business, its owner and its first compliance   *)
(* profile, in one transaction.  Several registrations run at once, one    *)
(* statement at a time.                                                    *)
(*                                                                         *)
(* The two SELECTs that look for a duplicate lock nothing.  What keeps two *)
(* businesses apart are three unique constraints of tenants and one of     *)
(* users: an INSERT that collides with a committed row fails, one that     *)
(* collides with the row of an open transaction waits for its end.         *)
(***************************************************************************)
EXTENDS Integers

CONSTANTS
    Attempts,       \* POST /auth/register requests; its tenant has the attempt's id
    Applications    \* what a request says: [gstin, state_code, email]

\* A GSTIN is state code, PAN and the rest; only these two parts are looked at.
ASSUME ApplicationsAssumption ==
    \A app \in Applications :
        /\ DOMAIN app = {"gstin", "state_code", "email"}
        /\ {"state_code", "pan"} \subseteq DOMAIN app.gstin

VARIABLES
    tenants,        \* table: tenant id -> application it was created from
    users,          \* table: email -> tenant id
    compliances,    \* tenants with a compliance profile
    attempt         \* attempt -> [at, application, answer]

vars == <<tenants, users, compliances, attempt>>

DuplicateAnswers == {"DuplicateGSTIN", "DuplicateEmail", "DuplicatePAN"}

Init ==
    /\ tenants = << >>
    /\ users = << >>
    /\ compliances = {}
    /\ attempt = [a \in Attempts |-> [at |-> "idle"]]

-----------------------------------------------------------------------------

at(a, statement) == attempt[a].at = statement

proceed(a, statement) ==
    /\ attempt' = [attempt EXCEPT ![a].at = statement]
    /\ UNCHANGED <<tenants, users, compliances>>

\* The transaction has ended with nothing written.
refuse(a, answer) ==
    /\ attempt' = [attempt EXCEPT ![a] =
                     [at |-> "done", application |-> @.application, answer |-> answer]]
    /\ UNCHANGED <<tenants, users, compliances>>

TenantConstraints == {"uq_tenant_email", "uq_tenant_gstin", "uq_tenant_pan"}

column(app, constraint) ==
    CASE constraint = "uq_tenant_email" -> app.email
      [] constraint = "uq_tenant_gstin" -> app.gstin
      [] constraint = "uq_tenant_pan" -> app.gstin.pan

\* Constraints a new tenant breaks with the tenants of these applications.
broken(app, others) ==
    {c \in TenantConstraints : \E other \in others : column(app, c) = column(other, c)}

committed == {tenants[t] : t \in DOMAIN tenants}

\* Rows inserted by transactions still open.
uncommitted(a) ==
    {attempt[b].application : b \in {c \in Attempts \ {a} : at(c, "create_user")}}

\* Planted fault: one tenant per PAN came later, its constraint is not routed.
answer_without_pan(constraint) ==
    CASE constraint = "uq_tenant_gstin" -> "DuplicateGSTIN"
      [] constraint \in {"uq_user_email", "uq_tenant_email"} -> "DuplicateEmail"
      [] OTHER -> "IntegrityError"

\* register's except clause: an IntegrityError is routed by constraint name.
answer_for(constraint) ==
    CASE constraint = "uq_tenant_gstin" -> "DuplicateGSTIN"
      [] constraint \in {"uq_user_email", "uq_tenant_email"} -> "DuplicateEmail"
      [] constraint = "uq_tenant_pan" -> "DuplicatePAN"
      [] OTHER -> "IntegrityError"

-----------------------------------------------------------------------------

\* The password is hashed before the transaction opens, which takes a while.
Register(a) ==
    /\ at(a, "idle")
    /\ \E app \in Applications :
        /\ app.gstin.state_code = app.state_code
        /\ attempt' = [attempt EXCEPT ![a] = [at |-> "get_by_gstin", application |-> app]]
    /\ UNCHANGED <<tenants, users, compliances>>

GetByGstin(a) ==
    /\ at(a, "get_by_gstin")
    /\ IF \E t \in DOMAIN tenants : tenants[t].gstin = attempt[a].application.gstin
       THEN refuse(a, "DuplicateGSTIN")
       ELSE proceed(a, "get_by_email")

GetByEmail(a) ==
    /\ at(a, "get_by_email")
    /\ IF attempt[a].application.email \in DOMAIN users
       THEN refuse(a, "DuplicateEmail")
       ELSE proceed(a, "create_tenant")

\* Planted fault: the repository commits the tenant it creates.
CreateTenantCommitted(a) ==
    /\ at(a, "create_tenant")
    /\ broken(attempt[a].application, committed \cup uncommitted(a)) = {}
    /\ tenants' = [t \in DOMAIN tenants \cup {a} |->
                     IF t = a THEN attempt[a].application ELSE tenants[t]]
    /\ attempt' = [attempt EXCEPT ![a].at = "create_user"]
    /\ UNCHANGED <<users, compliances>>

CreateTenant(a) ==
    /\ at(a, "create_tenant")
    /\ broken(attempt[a].application, committed \cup uncommitted(a)) = {}
    /\ proceed(a, "create_user")

\* Which of several broken constraints is named depends on index order.
TenantCollides(a) ==
    /\ at(a, "create_tenant")
    /\ \E constraint \in broken(attempt[a].application, committed) :
          refuse(a, answer_for(constraint))

\* The owner, the profile and COMMIT.  No user can have the e-mail yet: every
\* user is the owner of a tenant with it.
CreateOwner(a) ==
    /\ at(a, "create_user")
    /\ LET app == attempt[a].application
       IN  /\ app.email \notin DOMAIN users
           /\ tenants' = [t \in DOMAIN tenants \cup {a} |-> IF t = a THEN app ELSE tenants[t]]
           /\ users' = [e \in DOMAIN users \cup {app.email} |->
                          IF e = app.email THEN a ELSE users[e]]
    /\ compliances' = compliances \cup {a}
    /\ attempt' = [attempt EXCEPT ![a] =
                     [at |-> "done", application |-> @.application, answer |-> "registered"]]

\* A timeout, a lost connection or a crash, at any statement.
RollBack(a) ==
    /\ attempt[a].at \notin {"idle", "done"}
    /\ refuse(a, "failed")

Next ==
    \E a \in Attempts :
        \/ Register(a)
        \/ GetByGstin(a)
        \/ GetByEmail(a)
        \/ CreateTenant(a)
        \/ TenantCollides(a)
        \/ CreateOwner(a)
        \/ RollBack(a)

Spec == Init /\ [][Next]_vars

=============================================================================
