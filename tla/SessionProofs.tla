--------------------------- MODULE SessionProofs ---------------------------
(***************************************************************************)
(* What holds of sessions, for every set of users, tokens and attempts and *)
(* for every lifetime of the tokens.                                       *)
(*                                                                         *)
(* The properties say what an attempt's end may be; the invariant adds     *)
(* what the attempt knows on its way there, and that this stays true while *)
(* others move: a row, once stored, keeps its user and its expiry, and a   *)
(* revocation is never taken back.                                         *)
(***************************************************************************)
EXTENDS SessionProperties, TLAPS

-----------------------------------------------------------------------------
(* The inductive invariant. *)

of_kind(a, kind) == attempts[a] # Nothing /\ attempts[a].kind = kind

\* A token is given to one login, which stores its row once, and the access
\* token it hands out was signed together with it.
login_fits(x) ==
    LET t == x.token
    IN  /\ x.pc \in {"signed", "stored", "answered", "lost"}
        /\ jwts[t] # Nothing
        /\ jwts[t].user = x.user
        /\ x.stamp \in Nat
        /\ x.stamp + REFRESH_TOKEN_EXPIRE = jwts[t].exp + ACCESS_TOKEN_EXPIRE
        /\ x.pc = "signed" => refresh_tokens[t] = Nothing
        /\ x.pc \in {"stored", "answered"} => refresh_tokens[t] # Nothing

LoginsFit ==
    /\ \A a \in Attempts : of_kind(a, "login") => login_fits(attempts[a])
    /\ \A a, b \in Attempts :
          of_kind(a, "login") /\ of_kind(b, "login") /\ attempts[a].token = attempts[b].token
              => a = b

\* The clock has not been turned back since a token was signed.
SignedInThePast ==
    \A t \in Tokens : jwts[t] # Nothing => jwts[t].exp <= now + REFRESH_TOKEN_EXPIRE

revoked(row) == row.revoked_at # Nothing

RevokedOnRequest ==
    \A t \in Tokens :
        refresh_tokens[t] # Nothing /\ revoked(refresh_tokens[t]) => logout_asked(t)

\* What a refresh has read may be stale, but only about a logout that overlaps it.
refresh_fits(x) ==
    LET t == x.token
    IN  /\ x.pc \in {"decoded", "read", "granted", "refused", "lost"}
        /\ refresh_tokens[t] # Nothing
        /\ x.after_logout => revoked(refresh_tokens[t])
        /\ x.pc = "read" =>
              /\ x.row # Nothing
              /\ x.row.expires_at = refresh_tokens[t].expires_at
              /\ revoked(x.row) => logout_asked(t)
              /\ x.after_logout => revoked(x.row)
        /\ x.pc = "refused" => now > jwts[t].exp \/ logout_asked(t)
        /\ x.pc = "granted" => ~x.after_logout

RefreshesFit ==
    \A a \in Attempts : of_kind(a, "refresh") => refresh_fits(attempts[a])

\* An answered logout of the owner has revoked the row.
logout_fits(x) ==
    LET t == x.token
    IN  /\ x.pc \in {"stamped", "answered", "lost"}
        /\ refresh_tokens[t] # Nothing
        /\ x.stamp \in Nat
        /\ x.pc = "answered" /\ x.user = jwts[t].user => revoked(refresh_tokens[t])

LogoutsFit ==
    \A a \in Attempts : of_kind(a, "logout") => logout_fits(attempts[a])

IInv ==
    /\ SessionsTypeOK
    /\ LoginsFit
    /\ SignedInThePast
    /\ RevokedOnRequest
    /\ RefreshesFit
    /\ LogoutsFit
    /\ SessionBounded

-----------------------------------------------------------------------------
(* What a step never takes back. *)

Kept ==
    /\ now <= now'
    /\ \A t \in Tokens : jwts[t] # Nothing => jwts'[t] = jwts[t]
    /\ \A t \in Tokens : refresh_tokens[t] # Nothing =>
          /\ refresh_tokens'[t] # Nothing
          /\ refresh_tokens'[t].expires_at = refresh_tokens[t].expires_at
          /\ revoked(refresh_tokens[t]) => revoked(refresh_tokens'[t])
    /\ \A a \in Attempts : attempts[a] # Nothing =>
          /\ attempts'[a] # Nothing
          /\ attempts'[a].kind = attempts[a].kind
          /\ attempts'[a].user = attempts[a].user
          /\ attempts'[a].token = attempts[a].token

\* A request to log out stays one.
LEMMA AskedKept ==
    ASSUME Kept, NEW t \in Tokens, jwts[t] # Nothing, logout_asked(t)
    PROVE  logout_asked(t)'
BY DEF Kept, logout_asked

\* Whole seconds order moments as ticks do.
LEMMA WholeSeconds ==
    ASSUME NEW m \in Nat, NEW n \in Nat, ~(m \div SECOND <= n \div SECOND)
    PROVE  m > n
BY ClockAssumption

\* An attempt that moves on: what its record is, and that no other moves.
LEMMA Advanced ==
    ASSUME SessionsTypeOK, NEW a \in Attempts, NEW x \in Attempt, advance(a, x)
    PROVE  /\ attempts' \in [Attempts -> Attempt \cup {Nothing}]
           /\ attempts'[a] = x
           /\ x # Nothing
           /\ \A b \in Attempts \ {a} : attempts'[b] = attempts[b]
BY NothingAssumption DEF advance, SessionsTypeOK

LEMMA NextStatement ==
    ASSUME NEW x \in Attempt,
           NEW pc \in {"signed", "stored", "decoded", "read", "stamped",
                       "answered", "granted", "refused", "lost"}
    PROVE  /\ [x EXCEPT !.pc = pc] \in Attempt
           /\ \A field \in {"kind", "user", "token", "row", "stamp", "after_logout"} :
                 [x EXCEPT !.pc = pc][field] = x[field]
           /\ [x EXCEPT !.pc = pc].pc = pc
BY DEF Attempt

LEMMA Stamped ==
    ASSUME NEW x \in Attempt, NEW time \in Nat
    PROVE  /\ [x EXCEPT !.stamp = time] \in Attempt
           /\ \A field \in {"kind", "user", "token", "pc", "row", "after_logout"} :
                 [x EXCEPT !.stamp = time][field] = x[field]
           /\ [x EXCEPT !.stamp = time].stamp = time
BY DEF Attempt

LEMMA Reminded ==
    ASSUME NEW x \in Attempt, NEW flag \in BOOLEAN
    PROVE  /\ [x EXCEPT !.after_logout = flag] \in Attempt
           /\ \A field \in {"kind", "user", "token", "pc", "row", "stamp"} :
                 [x EXCEPT !.after_logout = flag][field] = x[field]
           /\ [x EXCEPT !.after_logout = flag].after_logout = flag
BY DEF Attempt

-----------------------------------------------------------------------------
(* Every action keeps the invariant. *)


\* An attempt that moves on, or begins, and leaves the tables alone.
LEMMA AttemptMoves ==
    ASSUME IInv, NEW a \in Attempts, NEW x \in Attempt, advance(a, x),
           UNCHANGED <<now, jwts, refresh_tokens>>,
           attempts[a] # Nothing =>
               x.kind = attempts[a].kind /\ x.user = attempts[a].user /\ x.token = attempts[a].token,
           x.kind = "login" => of_kind(a, "login") /\ login_fits(x),
           x.kind = "refresh" => refresh_fits(x),
           x.kind = "logout" => logout_fits(x),
           access \subseteq access',
           \A y \in access' \ access :
               /\ y \in [token : Tokens, exp : Nat]
               /\ refresh_tokens[y.token] # Nothing
               /\ y.exp <= refresh_tokens[y.token].expires_at + ACCESS_TOKEN_EXPIRE
    PROVE  IInv'
<1>1. /\ attempts' \in [Attempts -> Attempt \cup {Nothing}]
      /\ attempts'[a] = x
      /\ x # Nothing
      /\ \A b \in Attempts \ {a} : attempts'[b] = attempts[b]
  BY Advanced DEF IInv
<1>2. SessionsTypeOK'
  BY <1>1 DEF IInv, SessionsTypeOK
<1>3. Kept
  <2>1. now <= now'
    BY ClockAssumption DEF IInv, SessionsTypeOK
  <2> QED BY <1>1, <2>1 DEF Kept
<1>4. \A t \in Tokens : refresh_tokens[t] # Nothing /\ logout_asked(t) => logout_asked(t)'
  BY <1>3, AskedKept DEF IInv, SessionsTypeOK
<1>5. LoginsFit'
  BY <1>1 DEF IInv, LoginsFit, login_fits, of_kind
<1>6. SignedInThePast' /\ RevokedOnRequest'
  BY <1>4 DEF IInv, SignedInThePast, RevokedOnRequest
<1>7. ASSUME NEW b \in Attempts, of_kind(b, "refresh")' PROVE refresh_fits(attempts[b])'
  <2>1. refresh_fits(attempts'[b]) /\ attempts'[b].token \in Tokens
    BY <1>1, <1>7 DEF IInv, SessionsTypeOK, RefreshesFit, of_kind, Attempt
  <2> QED BY <1>4, <2>1 DEF refresh_fits
<1>8. ASSUME NEW b \in Attempts, of_kind(b, "logout")' PROVE logout_fits(attempts[b])'
  <2>1. logout_fits(attempts'[b])
    BY <1>1, <1>8 DEF IInv, LogoutsFit, of_kind
  <2> QED BY <2>1 DEF logout_fits
<1>9. SessionBounded'
  BY DEF IInv, SessionBounded
<1> QED BY <1>2, <1>5, <1>6, <1>7, <1>8, <1>9 DEF IInv, RefreshesFit, LogoutsFit

LEMMA LoginInv ==
    ASSUME IInv, NEW a \in Attempts, NEW u \in Users, NEW t \in Tokens, Login(a, u, t)
    PROVE  IInv'
<1> DEFINE x == [attempt("login", u, t, "signed")
                    EXCEPT !.stamp = _build_token(u, ACCESS_TOKEN_EXPIRE).exp]
<1>1. /\ x \in Attempt /\ x.kind = "login" /\ x.token = t /\ x.user = u /\ x.pc = "signed"
      /\ x.stamp = now + ACCESS_TOKEN_EXPIRE /\ x.row = Nothing /\ x.after_logout = FALSE
  <2>1. now + ACCESS_TOKEN_EXPIRE \in Nat
    BY ClockAssumption DEF IInv, SessionsTypeOK
  <2>2. _build_token(u, ACCESS_TOKEN_EXPIRE).exp = now + ACCESS_TOKEN_EXPIRE
    BY DEF _build_token
  <2>3. PICK fresh \in Attempt : fresh = attempt("login", u, t, "signed")
    BY DEF attempt, Attempt
  <2>4. fresh.kind = "login" /\ fresh.token = t /\ fresh.user = u /\ fresh.pc = "signed"
        /\ fresh.row = Nothing /\ fresh.after_logout = FALSE
    BY <2>3 DEF attempt
  <2>5. x = [fresh EXCEPT !.stamp = now + ACCESS_TOKEN_EXPIRE]
    BY <2>2, <2>3
  <2> HIDE DEF x
  <2> QED BY <2>1, <2>4, <2>5, Stamped DEF Attempt
<1> HIDE DEF x
<1>2. /\ attempts' \in [Attempts -> Attempt \cup {Nothing}]
      /\ attempts'[a] = x
      /\ x # Nothing
      /\ \A b \in Attempts \ {a} : attempts'[b] = attempts[b]
  BY <1>1, Advanced DEF Login, IInv, x
<1>3. /\ jwts' \in [Tokens -> Signed \cup {Nothing}]
      /\ jwts'[t] # Nothing /\ jwts'[t].user = u /\ jwts'[t].exp = now + REFRESH_TOKEN_EXPIRE
      /\ \A s \in Tokens \ {t} : jwts'[s] = jwts[s]
  BY ClockAssumption, NothingAssumption DEF Login, _build_token, Signed, IInv, SessionsTypeOK
<1>4. /\ attempts[a] = Nothing /\ jwts[t] = Nothing
      /\ UNCHANGED <<now, refresh_tokens, access>>
  BY DEF Login
<1>5. refresh_tokens[t] = Nothing
  BY <1>4 DEF IInv, SessionsTypeOK
<1>6. SessionsTypeOK'
  BY <1>2, <1>3, <1>4, <1>5 DEF IInv, SessionsTypeOK
<1>7. Kept
  BY <1>2, <1>3, <1>4 DEF Kept, IInv, SessionsTypeOK
<1>8. LoginsFit'
  BY <1>1, <1>2, <1>3, <1>4, <1>5, ClockAssumption
     DEF IInv, SessionsTypeOK, LoginsFit, login_fits, of_kind, Attempt
<1>9. SignedInThePast'
  BY <1>3, <1>4, ClockAssumption DEF IInv, SignedInThePast, SessionsTypeOK
<1>10. RevokedOnRequest'
  BY <1>4, <1>7, AskedKept DEF IInv, SessionsTypeOK, RevokedOnRequest
<1>11. RefreshesFit'
  BY <1>1, <1>2, <1>3, <1>4, <1>5, <1>7, AskedKept
     DEF IInv, SessionsTypeOK, RefreshesFit, refresh_fits, of_kind, Attempt
<1>12. LogoutsFit'
  BY <1>1, <1>2, <1>3, <1>4, <1>5 DEF IInv, SessionsTypeOK, LogoutsFit, logout_fits, of_kind, Attempt
<1>13. SessionBounded'
  BY <1>4 DEF IInv, SessionBounded
<1> QED BY <1>6, <1>8, <1>9, <1>10, <1>11, <1>12, <1>13 DEF IInv

LEMMA StoreTokenInv ==
    ASSUME IInv, NEW a \in Attempts, StoreToken(a)
    PROVE  IInv'
<1> PICK t \in Tokens : t = attempts[a].token /\ of_kind(a, "login")
  BY DEF StoreToken, at, of_kind, IInv, SessionsTypeOK, Attempt
<1>0. attempts[a] \in Attempt
  BY DEF StoreToken, at, IInv, SessionsTypeOK
<1> PICK x \in Attempt : x = [attempts[a] EXCEPT !.pc = "stored"]
  BY <1>0, NextStatement
<1>1. /\ x.kind = "login" /\ x.token = t /\ x.user = attempts[a].user /\ x.pc = "stored"
      /\ x.stamp = attempts[a].stamp
  BY <1>0 DEF of_kind, Attempt
<1>2. /\ attempts' \in [Attempts -> Attempt \cup {Nothing}]
      /\ attempts'[a] = x
      /\ x # Nothing
      /\ \A b \in Attempts \ {a} : attempts'[b] = attempts[b]
  BY Advanced DEF StoreToken, IInv
<1>3. /\ attempts[a].pc = "signed" /\ refresh_tokens[t] = Nothing
      /\ jwts[t] # Nothing /\ jwts[t].user = attempts[a].user
      /\ attempts[a].stamp + REFRESH_TOKEN_EXPIRE = jwts[t].exp + ACCESS_TOKEN_EXPIRE
      /\ UNCHANGED <<now, jwts, access>>
  BY DEF StoreToken, at, IInv, LoginsFit, login_fits
<1>4. /\ refresh_tokens' \in [Tokens -> Row \cup {Nothing}]
      /\ refresh_tokens'[t] # Nothing
      /\ refresh_tokens'[t].user = attempts[a].user
      /\ refresh_tokens'[t].expires_at = now + REFRESH_TOKEN_EXPIRE
      /\ ~revoked(refresh_tokens'[t])
      /\ \A s \in Tokens \ {t} : refresh_tokens'[s] = refresh_tokens[s]
  BY ClockAssumption, NothingAssumption
     DEF StoreToken, IInv, SessionsTypeOK, Row, Attempt, revoked, at
<1>5. SessionsTypeOK'
  BY <1>2, <1>3, <1>4 DEF IInv, SessionsTypeOK, SignedInThePast
<1>6. Kept
  <2>1. now <= now'
    BY <1>3, ClockAssumption DEF IInv, SessionsTypeOK
  <2>2. \A b \in Attempts : attempts[b] # Nothing =>
           /\ attempts'[b] # Nothing
           /\ attempts'[b].kind = attempts[b].kind
           /\ attempts'[b].user = attempts[b].user
           /\ attempts'[b].token = attempts[b].token
    BY <1>1, <1>2 DEF of_kind
  <2> QED BY <1>3, <1>4, <2>1, <2>2 DEF Kept
<1>7. LoginsFit'
  BY <1>1, <1>2, <1>3, <1>4 DEF IInv, SessionsTypeOK, LoginsFit, login_fits, of_kind, Attempt
<1>8. SignedInThePast'
  BY <1>3 DEF IInv, SignedInThePast
<1>9. RevokedOnRequest'
  BY <1>3, <1>4, <1>6, AskedKept DEF IInv, SessionsTypeOK, RevokedOnRequest
<1>10. RefreshesFit'
  BY <1>1, <1>2, <1>3, <1>4, <1>6, AskedKept
     DEF IInv, SessionsTypeOK, RefreshesFit, refresh_fits, of_kind, Attempt
<1>11. LogoutsFit'
  BY <1>1, <1>2, <1>3, <1>4 DEF IInv, SessionsTypeOK, LogoutsFit, logout_fits, of_kind, Attempt
<1>12. SessionBounded'
  BY <1>3, <1>4 DEF IInv, SessionsTypeOK, SessionBounded
<1> QED BY <1>5, <1>7, <1>8, <1>9, <1>10, <1>11, <1>12 DEF IInv

LEMMA AnswerLoginInv ==
    ASSUME IInv, NEW a \in Attempts, AnswerLogin(a)
    PROVE  IInv'
<1>1. attempts[a] \in Attempt /\ of_kind(a, "login") /\ attempts[a].pc = "stored"
  BY DEF AnswerLogin, at, of_kind, IInv, SessionsTypeOK
<1> PICK x \in Attempt : x = [attempts[a] EXCEPT !.pc = "answered"]
  BY <1>1, NextStatement
<1>2. /\ x.kind = "login" /\ x.token = attempts[a].token /\ x.user = attempts[a].user
      /\ x.pc = "answered" /\ x.stamp = attempts[a].stamp
  BY <1>1 DEF of_kind, Attempt
<1>3. login_fits(attempts[a]) /\ x.token \in Tokens
  BY <1>1, <1>2 DEF IInv, LoginsFit, Attempt
<1>4. login_fits(x)
  BY <1>1, <1>2, <1>3 DEF login_fits
<1>5. advance(a, x) /\ UNCHANGED <<now, jwts, refresh_tokens>>
  BY DEF AnswerLogin
<1> DEFINE y == [token |-> x.token, exp |-> x.stamp]
<1>6. access' = access \cup {y}
  BY <1>2 DEF AnswerLogin
<1>7. /\ y \in [token : Tokens, exp : Nat]
      /\ refresh_tokens[y.token] # Nothing
      /\ y.exp <= refresh_tokens[y.token].expires_at + ACCESS_TOKEN_EXPIRE
  <2>1. jwts[x.token] \in Signed /\ refresh_tokens[x.token] \in Row
    BY <1>2, <1>3, <1>4 DEF IInv, SessionsTypeOK, login_fits
  <2>2. jwts[x.token].exp <= refresh_tokens[x.token].expires_at
    BY <1>2, <1>3, <1>4, <2>1 DEF IInv, SessionsTypeOK, login_fits, Signed, Row
  <2> QED BY <1>2, <1>3, <1>4, <2>1, <2>2, ClockAssumption DEF login_fits, Signed, Row
<1> HIDE DEF y
<1> QED BY <1>1, <1>2, <1>4, <1>5, <1>6, <1>7, AttemptMoves DEF of_kind

\* A token that a client holds has a row.
LEMMA HeldIsStored ==
    ASSUME IInv, NEW t \in Tokens, held(t)
    PROVE  refresh_tokens[t] # Nothing /\ jwts[t] # Nothing
BY DEF held, at, IInv, SessionsTypeOK, LoginsFit, login_fits, of_kind

\* The row of a session its owner has logged out of is revoked.
LEMMA LoggedOutIsRevoked ==
    ASSUME IInv, NEW t \in Tokens, logged_out(t)
    PROVE  revoked(refresh_tokens[t])
BY DEF logged_out, at, IInv, LogoutsFit, logout_fits, of_kind

LEMMA RefreshInv ==
    ASSUME IInv, NEW a \in Attempts, NEW t \in Tokens, Refresh(a, t)
    PROVE  IInv'
<1> PICK pc \in {"decoded", "refused"} :
        pc = IF unexpired(jwts[t].exp) THEN "decoded" ELSE "refused"
  OBVIOUS
<1>1. refresh_tokens[t] # Nothing /\ jwts[t] # Nothing
  BY HeldIsStored DEF Refresh
<1>2. jwts[t] \in Signed
  BY <1>1 DEF IInv, SessionsTypeOK
<1>3. PICK fresh \in Attempt : fresh = attempt("refresh", jwts[t].user, t, pc)
  BY <1>2 DEF attempt, Attempt, Signed
<1>4. fresh.kind = "refresh" /\ fresh.token = t /\ fresh.pc = pc
  BY <1>3 DEF attempt
<1>5. logged_out(t) \in BOOLEAN
  BY DEF logged_out
<1>6. PICK x \in Attempt : x = [fresh EXCEPT !.after_logout = logged_out(t)]
  BY <1>5, Reminded
<1>7. x.kind = "refresh" /\ x.token = t /\ x.pc = pc /\ (x.after_logout <=> logged_out(t))
  BY <1>4, <1>6 DEF Attempt
<1>8. pc = "refused" => now > jwts[t].exp
  <2>1. now \in Nat /\ jwts[t].exp \in Nat
    BY <1>2, ClockAssumption DEF IInv, SessionsTypeOK, Signed
  <2> QED BY <2>1, WholeSeconds DEF unexpired
<1>9. refresh_fits(x)
  BY <1>1, <1>7, <1>8, LoggedOutIsRevoked DEF refresh_fits
<1>10. advance(a, x) /\ UNCHANGED <<now, jwts, refresh_tokens, access>> /\ attempts[a] = Nothing
  BY <1>3, <1>6 DEF Refresh
<1> QED BY <1>7, <1>9, <1>10, AttemptMoves

LEMMA ReadTokenInv ==
    ASSUME IInv, NEW a \in Attempts, ReadToken(a)
    PROVE  IInv'
<1>1. attempts[a] \in Attempt /\ of_kind(a, "refresh")
  BY DEF ReadToken, at, of_kind, IInv, SessionsTypeOK
<1> PICK t \in Tokens : t = attempts[a].token
  BY <1>1 DEF Attempt
<1>2. refresh_fits(attempts[a])
  BY <1>1 DEF IInv, RefreshesFit
<1>3. refresh_tokens[t] \in Row /\ refresh_tokens[t] # Nothing
  BY <1>2 DEF IInv, SessionsTypeOK, refresh_fits
<1> PICK x \in Attempt : x = [attempts[a] EXCEPT !.pc = "read", !.row = refresh_tokens[t]]
  BY <1>1, <1>3 DEF Attempt
<1>4. /\ x.kind = "refresh" /\ x.token = t /\ x.user = attempts[a].user /\ x.pc = "read"
      /\ x.row = refresh_tokens[t] /\ x.after_logout = attempts[a].after_logout
  BY <1>1 DEF of_kind, Attempt
<1>5. refresh_fits(x)
  BY <1>2, <1>3, <1>4 DEF refresh_fits, IInv, RevokedOnRequest
<1>6. advance(a, x) /\ UNCHANGED <<now, jwts, refresh_tokens, access>>
  BY DEF ReadToken
<1> QED BY <1>1, <1>4, <1>5, <1>6, AttemptMoves DEF of_kind

LEMMA AnswerRefreshInv ==
    ASSUME IInv, NEW a \in Attempts, AnswerRefresh(a)
    PROVE  IInv'
<1>1. attempts[a] \in Attempt /\ of_kind(a, "refresh") /\ attempts[a].pc = "read"
  BY DEF AnswerRefresh, at, of_kind, IInv, SessionsTypeOK
<1> PICK t \in Tokens : t = attempts[a].token
  BY <1>1 DEF Attempt
<1> PICK row \in Row : row = attempts[a].row
  BY <1>1 DEF Attempt, IInv, RefreshesFit, refresh_fits
<1>2. refresh_fits(attempts[a])
  BY <1>1 DEF IInv, RefreshesFit
<1>3. refresh_tokens[t] \in Row /\ jwts[t] \in Signed
  BY <1>2 DEF IInv, SessionsTypeOK, refresh_fits
<1>4. row # Nothing
  BY NothingAssumption
<1> PICK pc \in {"granted", "refused"} : pc = IF is_valid(row) THEN "granted" ELSE "refused"
  OBVIOUS
<1> PICK x \in Attempt : x = [attempts[a] EXCEPT !.pc = pc]
  BY <1>1, NextStatement
<1>5. /\ x.kind = "refresh" /\ x.token = t /\ x.user = attempts[a].user /\ x.pc = pc
      /\ x.after_logout = attempts[a].after_logout
  BY <1>1 DEF of_kind, Attempt
<1>6. pc = "refused" => now > jwts[t].exp \/ logout_asked(t)
  <2>1. jwts[t].exp <= row.expires_at
    BY <1>1, <1>2, <1>3 DEF IInv, SessionsTypeOK, refresh_fits
  <2>2. now \in Nat /\ jwts[t].exp \in Nat /\ row.expires_at \in Nat
    BY <1>3, ClockAssumption DEF IInv, SessionsTypeOK, Signed, Row
  <2>3. revoked(row) => logout_asked(t)
    BY <1>1, <1>2 DEF refresh_fits
  <2> QED BY <2>1, <2>2, <2>3 DEF is_valid, revoked
<1>7. pc = "granted" => ~attempts[a].after_logout
  BY <1>1, <1>2 DEF refresh_fits, is_valid, revoked
<1>8. refresh_fits(x)
  BY <1>1, <1>2, <1>5, <1>6, <1>7 DEF refresh_fits
<1>9. advance(a, x) /\ UNCHANGED <<now, jwts, refresh_tokens>>
  BY <1>4 DEF AnswerRefresh
<1> DEFINE y == [token |-> t, exp |-> now + ACCESS_TOKEN_EXPIRE]
<1>10. \/ access' = access
       \/ is_valid(row) /\ access' = access \cup {y}
  BY DEF AnswerRefresh, _build_token
<1>11. is_valid(row) =>
          /\ y \in [token : Tokens, exp : Nat]
          /\ refresh_tokens[y.token] # Nothing
          /\ y.exp <= refresh_tokens[y.token].expires_at + ACCESS_TOKEN_EXPIRE
  <2>1. now \in Nat /\ row.expires_at \in Nat
    BY ClockAssumption DEF IInv, SessionsTypeOK, Row
  <2>2. row.expires_at = refresh_tokens[t].expires_at /\ refresh_tokens[t] # Nothing
    BY <1>1, <1>2 DEF refresh_fits
  <2> QED BY <2>1, <2>2, ClockAssumption DEF is_valid
<1> HIDE DEF y
<1> QED BY <1>1, <1>5, <1>8, <1>9, <1>10, <1>11, AttemptMoves DEF of_kind

LEMMA LogoutInv ==
    ASSUME IInv, NEW a \in Attempts, NEW u \in Users, NEW t \in Tokens, Logout(a, u, t)
    PROVE  IInv'
<1>1. refresh_tokens[t] # Nothing
  BY HeldIsStored DEF Logout
<1>2. PICK fresh \in Attempt : fresh = attempt("logout", u, t, "stamped")
  BY DEF attempt, Attempt
<1>3. fresh.kind = "logout" /\ fresh.token = t /\ fresh.pc = "stamped"
  BY <1>2 DEF attempt
<1>4. now \in Nat
  BY ClockAssumption DEF IInv, SessionsTypeOK
<1>5. PICK x \in Attempt : x = [fresh EXCEPT !.stamp = now]
  BY <1>4, Stamped
<1>6. x.kind = "logout" /\ x.token = t /\ x.pc = "stamped" /\ x.stamp = now
  BY <1>3, <1>5 DEF Attempt
<1>7. logout_fits(x)
  BY <1>1, <1>4, <1>6 DEF logout_fits
<1>8. advance(a, x) /\ UNCHANGED <<now, jwts, refresh_tokens, access>> /\ attempts[a] = Nothing
  BY <1>2, <1>5 DEF Logout
<1> QED BY <1>6, <1>7, <1>8, AttemptMoves

LEMMA LoseInv ==
    ASSUME IInv, NEW a \in Attempts, Lose(a)
    PROVE  IInv'
<1>1. attempts[a] \in Attempt /\ attempts[a] # Nothing
  BY DEF Lose, IInv, SessionsTypeOK
<1> PICK x \in Attempt : x = [attempts[a] EXCEPT !.pc = "lost"]
  BY <1>1, NextStatement
<1>2. /\ x.kind = attempts[a].kind /\ x.token = attempts[a].token /\ x.user = attempts[a].user
      /\ x.pc = "lost" /\ x.stamp = attempts[a].stamp
      /\ x.after_logout = attempts[a].after_logout
  BY <1>1 DEF Attempt
<1>3. x.kind = "login" => of_kind(a, "login") /\ login_fits(x)
  BY <1>1, <1>2 DEF IInv, LoginsFit, login_fits, of_kind
<1>4. x.kind = "refresh" => refresh_fits(x)
  BY <1>1, <1>2 DEF IInv, RefreshesFit, refresh_fits, of_kind
<1>5. x.kind = "logout" => logout_fits(x)
  BY <1>1, <1>2 DEF IInv, LogoutsFit, logout_fits, of_kind
<1>6. advance(a, x) /\ UNCHANGED <<now, jwts, refresh_tokens, access>>
  BY DEF Lose
<1> QED BY <1>2, <1>3, <1>4, <1>5, <1>6, AttemptMoves

LEMMA RevokeTokenInv ==
    ASSUME IInv, NEW a \in Attempts, RevokeToken(a)
    PROVE  IInv'
<1>1. /\ attempts[a] \in Attempt /\ of_kind(a, "logout") /\ attempts[a].pc = "stamped"
      /\ UNCHANGED <<now, jwts, access>>
  BY DEF RevokeToken, at, of_kind, IInv, SessionsTypeOK
<1> PICK t \in Tokens : t = attempts[a].token
  BY <1>1 DEF Attempt
<1> PICK x \in Attempt : x = [attempts[a] EXCEPT !.pc = "answered"]
  BY <1>1, NextStatement
<1>2. /\ x.kind = "logout" /\ x.token = t /\ x.user = attempts[a].user
      /\ x.pc = "answered" /\ x.stamp = attempts[a].stamp
  BY <1>1 DEF of_kind, Attempt
<1>3. /\ attempts' \in [Attempts -> Attempt \cup {Nothing}]
      /\ attempts'[a] = x
      /\ x # Nothing
      /\ \A b \in Attempts \ {a} : attempts'[b] = attempts[b]
  BY Advanced DEF RevokeToken, IInv
<1>4. logout_fits(attempts[a])
  BY <1>1 DEF IInv, LogoutsFit
<1>5. PICK row \in Row : row = refresh_tokens[t]
  BY <1>4 DEF IInv, SessionsTypeOK, logout_fits
<1>6. row.user = jwts[t].user /\ jwts[t] # Nothing
  BY <1>4, <1>5 DEF IInv, SessionsTypeOK, logout_fits
<1>7. row # Nothing
  BY NothingAssumption
<1>8. PICK row_after \in Row :
         /\ refresh_tokens' = [refresh_tokens EXCEPT ![t] = row_after]
         /\ row_after.user = row.user /\ row_after.expires_at = row.expires_at
         /\ IF row.user = attempts[a].user THEN revoked(row_after) ELSE row_after = row
  <2>1. CASE row.user = attempts[a].user
    <3>1. PICK time \in Nat : time = attempts[a].stamp
      BY <1>4 DEF logout_fits
    <3>2. PICK row_after \in Row : row_after = [row EXCEPT !.revoked_at = time]
      BY DEF Row
    <3>3. /\ row_after.user = row.user /\ row_after.expires_at = row.expires_at
          /\ revoked(row_after)
      BY <3>2, NothingAssumption DEF Row, revoked
    <3>4. refresh_tokens' = [refresh_tokens EXCEPT ![t] = row_after]
      BY <1>5, <1>7, <2>1, <3>1, <3>2 DEF RevokeToken, matches, IInv, SessionsTypeOK
    <3> QED BY <2>1, <3>3, <3>4
  <2>2. CASE row.user # attempts[a].user
    <3>1. refresh_tokens' = refresh_tokens
      BY <1>5, <2>2 DEF RevokeToken, matches
    <3>2. refresh_tokens = [refresh_tokens EXCEPT ![t] = row]
      BY <1>5 DEF IInv, SessionsTypeOK
    <3> QED BY <2>2, <3>1, <3>2
  <2> QED BY <2>1, <2>2
<1>9. /\ refresh_tokens' \in [Tokens -> Row \cup {Nothing}]
      /\ refresh_tokens'[t] = row_after /\ row_after # Nothing
      /\ \A s \in Tokens \ {t} : refresh_tokens'[s] = refresh_tokens[s]
  BY <1>8, NothingAssumption DEF IInv, SessionsTypeOK
<1>10. SessionsTypeOK'
  BY <1>1, <1>3, <1>5, <1>7, <1>8, <1>9 DEF IInv, SessionsTypeOK
<1>11. Kept
  <2>1. now <= now'
    BY <1>1, ClockAssumption DEF IInv, SessionsTypeOK
  <2>2. revoked(row) => revoked(row_after)
    BY <1>8
  <2>3. \A b \in Attempts : attempts[b] # Nothing =>
           /\ attempts'[b] # Nothing
           /\ attempts'[b].kind = attempts[b].kind
           /\ attempts'[b].user = attempts[b].user
           /\ attempts'[b].token = attempts[b].token
    BY <1>1, <1>2, <1>3 DEF of_kind
  <2> QED BY <1>1, <1>5, <1>8, <1>9, <2>1, <2>2, <2>3 DEF Kept
<1>12. \A s \in Tokens : refresh_tokens[s] # Nothing /\ logout_asked(s) => logout_asked(s)'
  BY <1>11, AskedKept DEF IInv, SessionsTypeOK
<1>13. LoginsFit'
  BY <1>1, <1>2, <1>3, <1>5, <1>7, <1>9 DEF IInv, SessionsTypeOK, LoginsFit, login_fits, of_kind, Attempt
<1>14. SignedInThePast'
  BY <1>1 DEF IInv, SignedInThePast
<1>15. RevokedOnRequest'
  <2>1. revoked(row_after) => logout_asked(t)'
    <3>1. CASE row.user = attempts[a].user
      BY <1>1, <1>2, <1>3, <1>6, <3>1 DEF logout_asked
    <3>2. CASE row.user # attempts[a].user
      BY <1>5, <1>7, <1>8, <1>12, <3>2 DEF IInv, RevokedOnRequest
    <3> QED BY <3>1, <3>2
  <2> QED BY <1>9, <1>12, <2>1 DEF IInv, RevokedOnRequest
<1>16. RefreshesFit'
  BY <1>1, <1>2, <1>3, <1>11, <1>12
     DEF IInv, SessionsTypeOK, RefreshesFit, refresh_fits, of_kind, Attempt, Kept
<1>17. LogoutsFit'
  <2>1. logout_fits(attempts[a])'
    BY <1>1, <1>2, <1>3, <1>4, <1>6, <1>8, <1>9 DEF logout_fits
  <2> QED BY <1>1, <1>3, <1>11, <2>1
          DEF IInv, SessionsTypeOK, LogoutsFit, logout_fits, of_kind, Attempt, Kept
<1>18. SessionBounded'
  BY <1>1, <1>11 DEF IInv, SessionsTypeOK, SessionBounded, Kept
<1> QED BY <1>10, <1>13, <1>14, <1>15, <1>16, <1>17, <1>18 DEF IInv

LEMMA TickInv ==
    ASSUME IInv, Tick
    PROVE  IInv'
<1>1. now' \in 0..MAX_TIME /\ now' = now + 1 /\ now \in Nat
      /\ UNCHANGED <<jwts, refresh_tokens, access, attempts>>
  BY ClockAssumption DEF Tick, IInv, SessionsTypeOK
<1>2. SessionsTypeOK'
  BY <1>1 DEF IInv, SessionsTypeOK
<1>3. Kept
  BY <1>1 DEF Kept
<1>4. \A s \in Tokens : refresh_tokens[s] # Nothing /\ logout_asked(s) => logout_asked(s)'
  BY <1>3, AskedKept DEF IInv, SessionsTypeOK
<1>5. SignedInThePast'
  BY <1>1, ClockAssumption DEF IInv, SessionsTypeOK, SignedInThePast, Signed
<1>6. RefreshesFit'
  <2>1. \A s \in Tokens : refresh_tokens[s] # Nothing => jwts[s] \in Signed
    BY DEF IInv, SessionsTypeOK
  <2> QED BY <1>1, <1>4, <2>1
          DEF IInv, SessionsTypeOK, RefreshesFit, refresh_fits, of_kind, Attempt, Signed
<1>7. LoginsFit' /\ LogoutsFit' /\ SessionBounded'
  BY <1>1 DEF IInv, LoginsFit, login_fits, LogoutsFit, logout_fits, of_kind, SessionBounded
<1>8. RevokedOnRequest'
  BY <1>1, <1>4 DEF IInv, RevokedOnRequest
<1> QED BY <1>2, <1>5, <1>6, <1>7, <1>8 DEF IInv

LEMMA StepInv == IInv /\ [Next]_vars => IInv'
<1> SUFFICES ASSUME IInv, [Next]_vars PROVE IInv'
  OBVIOUS
<1>1. CASE UNCHANGED vars
  BY <1>1 DEF vars, IInv, SessionsTypeOK, LoginsFit, login_fits, SignedInThePast, RevokedOnRequest,
              RefreshesFit, refresh_fits, LogoutsFit, logout_fits, SessionBounded, of_kind,
              logout_asked
<1>2. CASE Next
  BY <1>2, TickInv, LoginInv, StoreTokenInv, AnswerLoginInv, RefreshInv, ReadTokenInv,
     AnswerRefreshInv, LogoutInv, RevokeTokenInv, LoseInv DEF Next
<1> QED BY <1>1, <1>2

-----------------------------------------------------------------------------
(* The theorems. *)

(***************************************************************************)
(* The inductive invariant holds of every reachable state.                 *)
(***************************************************************************)
THEOREM Invariance == Spec => []IInv
<1>1. Init => IInv
  BY ClockAssumption
     DEF Init, IInv, SessionsTypeOK, LoginsFit, SignedInThePast, RevokedOnRequest, RefreshesFit,
         LogoutsFit, SessionBounded, of_kind
<1> QED BY <1>1, StepInv, PTL DEF Spec

(***************************************************************************)
(* Rows and tokens are typed, and a client only ever has tokens whose row  *)
(* is stored.                                                              *)
(***************************************************************************)
THEOREM TypeCorrect == Spec => []SessionsTypeOK
<1>1. IInv => SessionsTypeOK
  BY DEF IInv
<1> QED BY <1>1, Invariance, PTL

(***************************************************************************)
(* A refresh is refused only after the token's expiry, or when the owner   *)
(* has asked for its logout.                                               *)
(***************************************************************************)
THEOREM SessionsServed == Spec => []ServedUntilLogoutOrExpiry
<1>1. IInv => ServedUntilLogoutOrExpiry
  BY DEF IInv, RefreshesFit, refresh_fits, of_kind, at, ServedUntilLogoutOrExpiry
<1> QED BY <1>1, Invariance, PTL

(***************************************************************************)
(* No refresh that begins after an answered logout is granted.             *)
(***************************************************************************)
THEOREM LogoutsFinal == Spec => []LoggedOutStaysOut
<1>1. IInv => LoggedOutStaysOut
  BY DEF IInv, RefreshesFit, refresh_fits, of_kind, at, LoggedOutStaysOut
<1> QED BY <1>1, Invariance, PTL

(***************************************************************************)
(* However a session is refreshed, every access token of it ends at most   *)
(* one access lifetime after the row of its refresh token.                 *)
(***************************************************************************)
THEOREM SessionsEnd == Spec => []SessionBounded
<1>1. IInv => SessionBounded
  BY DEF IInv
<1> QED BY <1>1, Invariance, PTL

=============================================================================
