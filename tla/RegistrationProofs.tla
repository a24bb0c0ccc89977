------------------------- MODULE RegistrationProofs -------------------------
(***************************************************************************)
(* Registrations are answered truly and leave whole businesses, for any    *)
(* number of requests and whatever they say.                               *)
(***************************************************************************)
EXTENDS RegistrationProperties, TLAPS

Statements == {"get_by_gstin", "get_by_email", "create_tenant", "create_user"}

Answers == DuplicateAnswers \cup {"registered", "failed"}

AttemptRecords ==
    [at : {"idle"}] \cup [at : Statements, application : Applications]
      \cup [at : {"done"}, application : Applications, answer : Answers]

\* A tenant is the trace of an attempt that was answered "registered".
Committed ==
    /\ attempt \in [Attempts -> AttemptRecords]
    /\ DOMAIN tenants \subseteq Attempts
    /\ \A t \in DOMAIN tenants :
          /\ at(t, "done") /\ attempt[t].answer = "registered"
          /\ tenants[t] = attempt[t].application
    /\ \A a \in Attempts :
          (at(a, "done") /\ attempt[a].answer = "registered") => a \in DOMAIN tenants

apart(app, other) ==
    /\ app.email # other.email
    /\ app.gstin # other.gstin
    /\ app.gstin.pan # other.gstin.pan

\* What the unique indexes keep apart: rows committed and rows still open.
Apart ==
    /\ \A t, u \in DOMAIN tenants : t # u => apart(tenants[t], tenants[u])
    /\ \A a \in Attempts, t \in DOMAIN tenants :
          at(a, "create_user") => apart(attempt[a].application, tenants[t])
    /\ \A a, b \in Attempts :
          (a # b /\ at(a, "create_user") /\ at(b, "create_user")) =>
             apart(attempt[a].application, attempt[b].application)

\* Every tenant has its owner and its profile.
Owned ==
    /\ compliances = DOMAIN tenants
    /\ DOMAIN users = {tenants[t].email : t \in DOMAIN tenants}
    /\ \A t \in DOMAIN tenants : users[tenants[t].email] = t

\* A duplicate that was reported is there.
Reported ==
    \A a \in Attempts : at(a, "done") =>
        LET app == attempt[a].application
            others == DOMAIN tenants \ {a}
        IN  /\ attempt[a].answer = "DuplicateGSTIN" => \E t \in others : tenants[t].gstin = app.gstin
            /\ attempt[a].answer = "DuplicateEmail" => \E t \in others : tenants[t].email = app.email
            /\ attempt[a].answer = "DuplicatePAN" =>
                  \E t \in others : tenants[t].gstin.pan = app.gstin.pan

IInv == Committed /\ Apart /\ Owned /\ Reported

(* The unique constraints, spelled out. *)
LEMMA BrokenEmpty ==
    ASSUME NEW app, NEW others, broken(app, others) = {}
    PROVE  \A other \in others : apart(app, other)
<1>1. /\ "uq_tenant_email" \in TenantConstraints
      /\ "uq_tenant_gstin" \in TenantConstraints
      /\ "uq_tenant_pan" \in TenantConstraints
    BY DEF TenantConstraints
<1>2. SUFFICES ASSUME NEW other \in others PROVE apart(app, other)
    OBVIOUS
<1>3. \A c \in TenantConstraints : column(app, c) # column(other, c)
    BY DEF broken
<1>4. /\ column(app, "uq_tenant_email") = app.email
      /\ column(app, "uq_tenant_gstin") = app.gstin
      /\ column(app, "uq_tenant_pan") = app.gstin.pan
      /\ column(other, "uq_tenant_email") = other.email
      /\ column(other, "uq_tenant_gstin") = other.gstin
      /\ column(other, "uq_tenant_pan") = other.gstin.pan
    BY DEF column
<1> QED BY <1>1, <1>3, <1>4 DEF apart

LEMMA ApartBroken ==
    ASSUME NEW app, NEW other, apart(app, other)
    PROVE  broken(app, {other}) = {}
<1>1. SUFFICES ASSUME NEW c \in TenantConstraints, column(app, c) = column(other, c)
               PROVE  FALSE
    BY DEF broken
<1> QED BY <1>1 DEF apart, column, TenantConstraints

(* What an attempt that is not finished looks like. *)
LEMMA OpenAttempt ==
    ASSUME Committed, NEW a \in Attempts, attempt[a].at \in Statements
    PROVE  /\ attempt[a] \in [at : Statements, application : Applications]
           /\ a \notin DOMAIN tenants
<1>1. attempt[a] \in AttemptRecords BY DEF Committed
<1> QED BY <1>1 DEF AttemptRecords, Committed, Statements, at

(***************************************************************************)
(* A statement that leaves the tables alone, and whose attempt is not at   *)
(* create_user afterwards, disturbs nothing but what it is answered.       *)
(***************************************************************************)
LEMMA ProceedInv ==
    ASSUME IInv, NEW a \in Attempts, attempt[a].at \in Statements,
           NEW s \in Statements, proceed(a, s),
           s = "create_user" =>
              \A other \in committed \cup uncommitted(a) : apart(attempt[a].application, other)
    PROVE  IInv'
<1>1. attempt[a] \in [at : Statements, application : Applications]
    BY OpenAttempt DEF IInv
<1>2. attempt' = [attempt EXCEPT ![a] = [at |-> s, application |-> attempt[a].application]]
  <2>1. PICK statement \in Statements, app \in Applications :
           attempt[a] = [at |-> statement, application |-> app]
      BY <1>1
  <2>2. attempt' = [attempt EXCEPT ![a] = [attempt[a] EXCEPT !.at = s]]
      BY DEF proceed
  <2>3. [attempt[a] EXCEPT !.at = s] = [at |-> s, application |-> app]
      BY <2>1
  <2> QED BY <2>1, <2>2, <2>3
<1>3. attempt \in [Attempts -> AttemptRecords] BY DEF IInv, Committed
<1>4. \A b \in Attempts : b # a => attempt'[b] = attempt[b]
    BY <1>2, <1>3
<1>5. attempt'[a] = [at |-> s, application |-> attempt[a].application]
    BY <1>2, <1>3
<1>6. /\ tenants' = tenants /\ users' = users /\ compliances' = compliances
      /\ a \notin DOMAIN tenants
    BY OpenAttempt DEF proceed, IInv
<1>7. Committed'
  <2>1. attempt' \in [Attempts -> AttemptRecords]
      BY <1>1, <1>2, <1>3 DEF AttemptRecords
  <2> QED BY <2>1, <1>4, <1>5, <1>6 DEF IInv, Committed, at, Statements
<1>8. Apart'
  <2>1. \A t \in DOMAIN tenants : s = "create_user" => apart(attempt[a].application, tenants[t])
      BY DEF committed
  <2>2. \A b \in Attempts \ {a} : (s = "create_user" /\ at(b, "create_user")) =>
            apart(attempt[a].application, attempt[b].application)
      BY DEF uncommitted
  <2>3. \A b \in Attempts \ {a} : (s = "create_user" /\ at(b, "create_user")) =>
            apart(attempt[b].application, attempt[a].application)
      BY <2>2 DEF apart
  <2>4. \A b \in Attempts : b # a => (at(b, "create_user")' <=> at(b, "create_user"))
      BY <1>4 DEF at
  <2>5. at(a, "create_user")' => s = "create_user"
      BY <1>5 DEF at
  <2>6. \A x \in Attempts, t \in DOMAIN tenants :
            at(x, "create_user")' => apart(attempt'[x].application, tenants[t])
      BY <2>1, <2>4, <2>5, <1>4, <1>5 DEF IInv, Apart
  <2>7. \A x, y \in Attempts :
            (x # y /\ at(x, "create_user")' /\ at(y, "create_user")') =>
               apart(attempt'[x].application, attempt'[y].application)
      BY <2>2, <2>3, <2>4, <2>5, <1>4, <1>5 DEF IInv, Apart
  <2> QED BY <2>6, <2>7, <1>6 DEF IInv, Apart, apart
<1>9. Owned' BY <1>6 DEF IInv, Owned
<1>10. Reported'
  <2>1. ~at(a, "done")' BY <1>5 DEF at, Statements
  <2> QED BY <2>1, <1>4, <1>6 DEF IInv, Reported, at
<1> QED BY <1>7, <1>8, <1>9, <1>10 DEF IInv

(* A refusal keeps the invariant if what it reports is there. *)
LEMMA RefuseInv ==
    ASSUME IInv, NEW a \in Attempts, attempt[a].at \in Statements,
           NEW answer \in DuplicateAnswers \cup {"failed"}, refuse(a, answer),
           answer = "DuplicateGSTIN" =>
              \E t \in DOMAIN tenants : tenants[t].gstin = attempt[a].application.gstin,
           answer = "DuplicateEmail" =>
              \E t \in DOMAIN tenants : tenants[t].email = attempt[a].application.email,
           answer = "DuplicatePAN" =>
              \E t \in DOMAIN tenants : tenants[t].gstin.pan = attempt[a].application.gstin.pan
    PROVE  IInv'
<1>1. attempt[a] \in [at : Statements, application : Applications]
    BY OpenAttempt DEF IInv
<1>3. attempt \in [Attempts -> AttemptRecords] BY DEF IInv, Committed
<1>4. \A b \in Attempts : b # a => attempt'[b] = attempt[b]
    BY <1>3 DEF refuse
<1>5. attempt'[a] = [at |-> "done", application |-> attempt[a].application, answer |-> answer]
    BY <1>3 DEF refuse
<1>6. /\ tenants' = tenants /\ users' = users /\ compliances' = compliances
      /\ a \notin DOMAIN tenants
    BY OpenAttempt DEF refuse, IInv
<1>7. Committed'
  <2>1. attempt' \in [Attempts -> AttemptRecords]
    <3>1. [at |-> "done", application |-> attempt[a].application, answer |-> answer] \in AttemptRecords
        BY <1>1 DEF AttemptRecords, Answers
    <3> QED BY <3>1, <1>3 DEF refuse
  <2>2. answer # "registered" BY DEF DuplicateAnswers
  <2> QED BY <2>1, <2>2, <1>4, <1>5, <1>6 DEF IInv, Committed, at, Statements
<1>8. Apart'
  <2>1. \A x \in Attempts : at(x, "create_user")' => x # a /\ at(x, "create_user")
      BY <1>4, <1>5 DEF at
  <2>2. \A x \in Attempts, t \in DOMAIN tenants :
            at(x, "create_user")' => apart(attempt'[x].application, tenants[t])
      BY <2>1, <1>4 DEF IInv, Apart
  <2>3. \A x, y \in Attempts :
            (x # y /\ at(x, "create_user")' /\ at(y, "create_user")') =>
               apart(attempt'[x].application, attempt'[y].application)
      BY <2>1, <1>4 DEF IInv, Apart
  <2> QED BY <2>2, <2>3, <1>6 DEF IInv, Apart, apart
<1>9. Owned' BY <1>6 DEF IInv, Owned
<1>10. Reported' BY <1>4, <1>5, <1>6 DEF IInv, Reported, at
<1> QED BY <1>7, <1>8, <1>9, <1>10 DEF IInv

-----------------------------------------------------------------------------

LEMMA InitInv == Init => IInv
<1>1. SUFFICES ASSUME Init PROVE IInv
    OBVIOUS
<1>2. DOMAIN tenants = {} /\ DOMAIN users = {} /\ compliances = {}
    BY <1>1 DEF Init
<1>3. \A a \in Attempts : attempt[a] = [at |-> "idle"]
    BY <1>1 DEF Init
<1>4. attempt \in [Attempts -> AttemptRecords]
    BY <1>1 DEF Init, AttemptRecords
<1>5. Committed BY <1>2, <1>3, <1>4 DEF Committed, at
<1>6. Apart BY <1>2, <1>3 DEF Apart, at
<1>7. Owned BY <1>2 DEF Owned
<1>8. Reported BY <1>3 DEF Reported, at
<1> QED BY <1>5, <1>6, <1>7, <1>8 DEF IInv

LEMMA RegisterInv ==
    ASSUME IInv, NEW a \in Attempts, Register(a)
    PROVE  IInv'
<1>1. PICK app \in Applications :
         attempt' = [attempt EXCEPT ![a] = [at |-> "get_by_gstin", application |-> app]]
    BY DEF Register
<1>2. attempt \in [Attempts -> AttemptRecords] BY DEF IInv, Committed
<1>3. \A b \in Attempts : b # a => attempt'[b] = attempt[b]
    BY <1>1, <1>2
<1>4. attempt'[a] = [at |-> "get_by_gstin", application |-> app]
    BY <1>1, <1>2
<1>5. /\ tenants' = tenants /\ users' = users /\ compliances' = compliances
      /\ a \notin DOMAIN tenants
    BY DEF Register, IInv, Committed, at
<1>6. Committed'
  <2>1. attempt' \in [Attempts -> AttemptRecords]
      BY <1>1, <1>2 DEF AttemptRecords, Statements
  <2> QED BY <2>1, <1>3, <1>4, <1>5 DEF IInv, Committed, at
<1>7. Apart'
  <2>1. \A x \in Attempts : at(x, "create_user")' => x # a /\ at(x, "create_user")
      BY <1>3, <1>4 DEF at
  <2>2. \A x \in Attempts, t \in DOMAIN tenants :
            at(x, "create_user")' => apart(attempt'[x].application, tenants[t])
      BY <2>1, <1>3 DEF IInv, Apart
  <2>3. \A x, y \in Attempts :
            (x # y /\ at(x, "create_user")' /\ at(y, "create_user")') =>
               apart(attempt'[x].application, attempt'[y].application)
      BY <2>1, <1>3 DEF IInv, Apart
  <2> QED BY <2>2, <2>3, <1>5 DEF IInv, Apart, apart
<1>8. Owned' BY <1>5 DEF IInv, Owned
<1>9. Reported' BY <1>3, <1>4, <1>5 DEF IInv, Reported, at
<1> QED BY <1>6, <1>7, <1>8, <1>9 DEF IInv

LEMMA GetByGstinInv ==
    ASSUME IInv, NEW a \in Attempts, GetByGstin(a)
    PROVE  IInv'
<1>1. attempt[a].at \in Statements BY DEF GetByGstin, at, Statements
<1>2. CASE \E t \in DOMAIN tenants : tenants[t].gstin = attempt[a].application.gstin
  <2>1. refuse(a, "DuplicateGSTIN") BY <1>2 DEF GetByGstin
  <2> QED BY <1>1, <1>2, <2>1, RefuseInv DEF DuplicateAnswers
<1>3. CASE ~ \E t \in DOMAIN tenants : tenants[t].gstin = attempt[a].application.gstin
  <2>1. proceed(a, "get_by_email") BY <1>3 DEF GetByGstin
  <2> QED BY <1>1, <2>1, ProceedInv DEF Statements
<1> QED BY <1>2, <1>3

LEMMA GetByEmailInv ==
    ASSUME IInv, NEW a \in Attempts, GetByEmail(a)
    PROVE  IInv'
<1>1. attempt[a].at \in Statements BY DEF GetByEmail, at, Statements
<1>2. CASE attempt[a].application.email \in DOMAIN users
  <2>1. refuse(a, "DuplicateEmail") BY <1>2 DEF GetByEmail
  <2>2. \E t \in DOMAIN tenants : tenants[t].email = attempt[a].application.email
      BY <1>2 DEF IInv, Owned
  <2> QED BY <1>1, <2>1, <2>2, RefuseInv DEF DuplicateAnswers
<1>3. CASE attempt[a].application.email \notin DOMAIN users
  <2>1. proceed(a, "create_tenant") BY <1>3 DEF GetByEmail
  <2> QED BY <1>1, <2>1, ProceedInv DEF Statements
<1> QED BY <1>2, <1>3

LEMMA CreateTenantInv ==
    ASSUME IInv, NEW a \in Attempts, CreateTenant(a)
    PROVE  IInv'
<1>1. attempt[a].at \in Statements BY DEF CreateTenant, at, Statements
<1>2. proceed(a, "create_user") BY DEF CreateTenant
<1>3. \A other \in committed \cup uncommitted(a) : apart(attempt[a].application, other)
    BY BrokenEmpty DEF CreateTenant
<1> QED BY <1>1, <1>2, <1>3, ProceedInv DEF Statements

LEMMA TenantCollidesInv ==
    ASSUME IInv, NEW a \in Attempts, TenantCollides(a)
    PROVE  IInv'
<1>1. attempt[a].at \in Statements BY DEF TenantCollides, at, Statements
<1>2. PICK c \in broken(attempt[a].application, committed) : refuse(a, answer_for(c))
    BY DEF TenantCollides
<1>3. PICK t \in DOMAIN tenants : column(attempt[a].application, c) = column(tenants[t], c)
    BY <1>2 DEF broken, committed
<1>4. c \in TenantConstraints BY <1>2 DEF broken
<1>5. CASE c = "uq_tenant_email"
  <2>1. answer_for(c) = "DuplicateEmail" BY <1>5 DEF answer_for
  <2>2. tenants[t].email = attempt[a].application.email BY <1>3, <1>5 DEF column
  <2> QED BY <1>1, <1>2, <2>1, <2>2, RefuseInv DEF DuplicateAnswers
<1>6. CASE c = "uq_tenant_gstin"
  <2>1. answer_for(c) = "DuplicateGSTIN" BY <1>6 DEF answer_for
  <2>2. tenants[t].gstin = attempt[a].application.gstin BY <1>3, <1>6 DEF column
  <2> QED BY <1>1, <1>2, <2>1, <2>2, RefuseInv DEF DuplicateAnswers
<1>7. CASE c = "uq_tenant_pan"
  <2>1. answer_for(c) = "DuplicatePAN" BY <1>7 DEF answer_for
  <2>2. tenants[t].gstin.pan = attempt[a].application.gstin.pan BY <1>3, <1>7 DEF column
  <2> QED BY <1>1, <1>2, <2>1, <2>2, RefuseInv DEF DuplicateAnswers
<1> QED BY <1>4, <1>5, <1>6, <1>7 DEF TenantConstraints

LEMMA CreateOwnerInv ==
    ASSUME IInv, NEW a \in Attempts, CreateOwner(a)
    PROVE  IInv'
<1> DEFINE app == attempt[a].application
           record == [at |-> "done", application |-> app, answer |-> "registered"]
<1>1. /\ attempt[a] \in [at : Statements, application : Applications]
      /\ a \notin DOMAIN tenants
    BY OpenAttempt DEF IInv, CreateOwner, at, Statements
<1>2. attempt \in [Attempts -> AttemptRecords] BY DEF IInv, Committed
<1>3. /\ \A b \in Attempts : b # a => attempt'[b] = attempt[b]
      /\ attempt'[a] = record
    BY <1>2 DEF CreateOwner
<1>4. /\ DOMAIN tenants' = DOMAIN tenants \cup {a}
      /\ tenants'[a] = app
      /\ \A t \in DOMAIN tenants : tenants'[t] = tenants[t]
    BY <1>1 DEF CreateOwner
<1>5. \A t \in DOMAIN tenants : apart(app, tenants[t]) /\ apart(tenants[t], app)
    BY DEF IInv, Apart, CreateOwner, apart
<1>6. Committed'
  <2>1. record \in AttemptRecords BY <1>1 DEF AttemptRecords, Answers
  <2>2. attempt' \in [Attempts -> AttemptRecords]
      BY <2>1, <1>2 DEF CreateOwner
  <2> QED BY <2>2, <1>3, <1>4 DEF IInv, Committed, at
<1>7. Apart'
  <2>1. \A t, u \in DOMAIN tenants' : t # u => apart(tenants'[t], tenants'[u])
      BY <1>4, <1>5 DEF IInv, Apart
  <2>2. \A x \in Attempts : at(x, "create_user")' => x # a /\ at(x, "create_user")
      BY <1>3 DEF at
  <2>3. \A x \in Attempts, t \in DOMAIN tenants' :
            at(x, "create_user")' => apart(attempt'[x].application, tenants'[t])
      BY <2>2, <1>3, <1>4 DEF IInv, Apart, CreateOwner
  <2>4. \A x, y \in Attempts :
            (x # y /\ at(x, "create_user")' /\ at(y, "create_user")') =>
               apart(attempt'[x].application, attempt'[y].application)
      BY <2>2, <1>3 DEF IInv, Apart
  <2> QED BY <2>1, <2>3, <2>4 DEF Apart, apart
<1>8. Owned'
  <2>1. compliances' = DOMAIN tenants' BY <1>4 DEF IInv, Owned, CreateOwner
  <2>2. /\ DOMAIN users' = DOMAIN users \cup {app.email}
        /\ users'[app.email] = a
        /\ \A e \in DOMAIN users : e # app.email => users'[e] = users[e]
      BY DEF CreateOwner
  <2>3. DOMAIN users' = {tenants'[t].email : t \in DOMAIN tenants'}
      BY <2>2, <1>4 DEF IInv, Owned
  <2>4. \A t \in DOMAIN tenants' : users'[tenants'[t].email] = t
    <3>1. \A t \in DOMAIN tenants :
             /\ tenants[t].email \in DOMAIN users
             /\ tenants[t].email # app.email
             /\ users[tenants[t].email] = t
        BY <1>5 DEF IInv, Owned, apart
    <3> QED BY <3>1, <2>2, <1>4
  <2> QED BY <2>1, <2>3, <2>4 DEF Owned
<1>9. Reported'
  <2>1. record.answer \notin DuplicateAnswers BY DEF DuplicateAnswers
  <2>2. SUFFICES ASSUME NEW b \in Attempts, b # a, at(b, "done")
                 PROVE  /\ attempt[b].answer = "DuplicateGSTIN" =>
                             \E t \in DOMAIN tenants' \ {b} :
                                tenants'[t].gstin = attempt[b].application.gstin
                        /\ attempt[b].answer = "DuplicateEmail" =>
                             \E t \in DOMAIN tenants' \ {b} :
                                tenants'[t].email = attempt[b].application.email
                        /\ attempt[b].answer = "DuplicatePAN" =>
                             \E t \in DOMAIN tenants' \ {b} :
                                tenants'[t].gstin.pan = attempt[b].application.gstin.pan
      BY <2>1, <1>3 DEF Reported, at, DuplicateAnswers
  <2> QED BY <2>2, <1>4 DEF IInv, Reported
<1> QED BY <1>6, <1>7, <1>8, <1>9 DEF IInv

LEMMA RollBackInv ==
    ASSUME IInv, NEW a \in Attempts, RollBack(a)
    PROVE  IInv'
<1>1. attempt[a] \in AttemptRecords BY DEF IInv, Committed
<1>2. attempt[a].at \in Statements BY <1>1 DEF RollBack, AttemptRecords
<1>3. refuse(a, "failed") BY DEF RollBack
<1> QED BY <1>2, <1>3, RefuseInv

(***************************************************************************)
(* The inductive invariant: committed tenants are the answered attempts,   *)
(* rows are apart, tenants are owned and reported duplicates are there.    *)
(***************************************************************************)
THEOREM Invariance == Spec => []IInv
<1>1. IInv /\ [Next]_vars => IInv'
  <2>1. SUFFICES ASSUME IInv, [Next]_vars PROVE IInv'
      OBVIOUS
  <2>2. CASE UNCHANGED vars
      BY <2>1, <2>2 DEF vars, IInv, Committed, Apart, Owned, Reported, at, apart
  <2>3. ASSUME NEW a \in Attempts,
               \/ Register(a) \/ GetByGstin(a) \/ GetByEmail(a) \/ CreateTenant(a)
               \/ TenantCollides(a) \/ CreateOwner(a) \/ RollBack(a)
        PROVE  IInv'
      BY <2>1, <2>3, RegisterInv, GetByGstinInv, GetByEmailInv, CreateTenantInv,
         TenantCollidesInv, CreateOwnerInv, RollBackInv
  <2> QED BY <2>1, <2>2, <2>3 DEF Next
<1> QED BY <1>1, InitInv, PTL DEF Spec

(***************************************************************************)
(* A business is registered whole or not at all, with its own GSTIN, PAN   *)
(* and e-mail, whatever overlaps and whatever dies (RegisteredWhole).      *)
(***************************************************************************)
THEOREM Whole == Spec => []RegisteredWhole
<1>1. IInv => RegisteredWhole
    BY ApartBroken DEF IInv, Apart, Owned, RegisteredWhole
<1> QED BY <1>1, Invariance, PTL

(***************************************************************************)
(* Whatever register answers is true when it is answered and stays true    *)
(* (RegistrationAnswersTrue).                                              *)
(***************************************************************************)
THEOREM Truthful == Spec => []RegistrationAnswersTrue
<1>1. IInv => RegistrationAnswersTrue
  <2>1. SUFFICES ASSUME IInv, NEW a \in Attempts, at(a, "done")
                 PROVE  LET app == attempt[a].application
                            others == {tenants[t] : t \in DOMAIN tenants \ {a}}
                        IN  /\ attempt[a].answer \in DuplicateAnswers \cup {"registered", "failed"}
                            /\ attempt[a].answer = "DuplicateGSTIN" =>
                                  \E other \in others : other.gstin = app.gstin
                            /\ attempt[a].answer = "DuplicateEmail" =>
                                  \E other \in others : other.email = app.email
                            /\ attempt[a].answer = "DuplicatePAN" =>
                                  \E other \in others : other.gstin.pan = app.gstin.pan
                            /\ attempt[a].answer = "registered" <=> a \in DOMAIN tenants
      BY DEF RegistrationAnswersTrue
  <2>2. attempt[a] \in AttemptRecords BY <2>1 DEF IInv, Committed
  <2>3. attempt[a].answer \in Answers BY <2>1, <2>2 DEF AttemptRecords, at, Statements
  <2>4. attempt[a].answer = "registered" <=> a \in DOMAIN tenants
      BY <2>1 DEF IInv, Committed
  <2> QED BY <2>1, <2>3, <2>4 DEF IInv, Reported, Answers
<1> QED BY <1>1, Invariance, PTL

=============================================================================
