------------------------------ MODULE Sessions ------------------------------
(***************************************************************************)
(* login, refresh and logout of app/services/auth_service.py over the      *)
(* table refresh_tokens, await by await, with a clock.  An HTTP request is *)
(* an attempt; a login hashes a password and a refresh reads its row       *)
(* before it acts, so other attempts and the clock move in between.        *)
(* Users come from register and never change here; a login with a wrong    *)
(* password changes nothing and is no step.                                *)
(***************************************************************************)
EXTENDS Integers

CONSTANTS
    Users, Attempts,
    Tokens,                 \* refresh tokens, told apart by their jti
    ACCESS_TOKEN_EXPIRE,    \* 15 minutes, in ticks of the clock
    REFRESH_TOKEN_EXPIRE,   \* 7 days
    SECOND,                 \* ticks in a second
    MAX_TIME,               \* bound of the clock
    Nothing

ASSUME ClockAssumption ==
    /\ ACCESS_TOKEN_EXPIRE \in Nat
    /\ REFRESH_TOKEN_EXPIRE \in Nat
    /\ SECOND \in Nat \ {0}
    /\ MAX_TIME \in Nat

\* A signed refresh token, a row of refresh_tokens, an attempt and how far it is.
Signed == [user : Users, exp : Nat]
Row == [user : Users, expires_at : Nat, revoked_at : Nat \cup {Nothing}]
Attempt ==
    [kind : {"login", "refresh", "logout"}, user : Users, token : Tokens,
     pc : {"signed", "stored", "decoded", "read", "stamped",
           "answered", "granted", "refused", "lost"},
     row : Row \cup {Nothing}, stamp : Nat \cup {Nothing}, after_logout : BOOLEAN]

\* None and SQL NULL are no number and no record.
ASSUME NothingAssumption ==
    /\ Nothing \notin Nat
    /\ Nothing \notin Signed
    /\ Nothing \notin Row
    /\ Nothing \notin Attempt

VARIABLES
    now,
    jwts,               \* the refresh tokens signed so far, by jti
    refresh_tokens,     \* the table, by token_hash
    access,             \* the access tokens clients have received
    attempts

vars == <<now, jwts, refresh_tokens, access, attempts>>

Init ==
    /\ now = 0
    /\ jwts = [t \in Tokens |-> Nothing]
    /\ refresh_tokens = [t \in Tokens |-> Nothing]
    /\ access = {}
    /\ attempts = [a \in Attempts |-> Nothing]

\* jose compares whole seconds, and a token is good to the end of its last one.
unexpired(exp) == now \div SECOND <= exp \div SECOND

_build_token(u, expires_delta) == [user |-> u, exp |-> now + expires_delta]

\* An attempt: what it asks, how far it is, and what it has read or computed.
attempt(kind, user, token, pc) ==
    [kind |-> kind, user |-> user, token |-> token, pc |-> pc,
     row |-> Nothing, stamp |-> Nothing, after_logout |-> FALSE]

advance(a, changes) == attempts' = [attempts EXCEPT ![a] = changes]

at(a, kind, pc) ==
    attempts[a] # Nothing /\ attempts[a].kind = kind /\ attempts[a].pc = pc

\* A client has a refresh token when its login has been answered.
held(t) == \E a \in Attempts : at(a, "login", "answered") /\ attempts[a].token = t

\* History for the properties: the owner's logout with t has been committed.
logged_out(t) ==
    \E a \in Attempts :
        at(a, "logout", "answered") /\ attempts[a].token = t /\ attempts[a].user = jwts[t].user

-----------------------------------------------------------------------------
(* login *)

\* Both tokens are signed before the transaction that stores one of them.
Login(a, u, t) ==
    /\ attempts[a] = Nothing
    /\ jwts[t] = Nothing
    /\ jwts' = [jwts EXCEPT ![t] = _build_token(u, REFRESH_TOKEN_EXPIRE)]
    /\ advance(a, [attempt("login", u, t, "signed")
                      EXCEPT !.stamp = _build_token(u, ACCESS_TOKEN_EXPIRE).exp])
    /\ UNCHANGED <<now, refresh_tokens, access>>

\* The row has an expiry of its own.
StoreToken(a) ==
    /\ at(a, "login", "signed")
    /\ refresh_tokens' =
          [refresh_tokens EXCEPT ![attempts[a].token] =
              [user |-> attempts[a].user, expires_at |-> now + REFRESH_TOKEN_EXPIRE,
               revoked_at |-> Nothing]]
    /\ advance(a, [attempts[a] EXCEPT !.pc = "stored"])
    /\ UNCHANGED <<now, jwts, access>>

\* Planted fault: the tokens are handed out while their row is still being stored.
AnswerBeforeStore(a) ==
    /\ at(a, "login", "signed")
    /\ access' = access \cup {[token |-> attempts[a].token, exp |-> attempts[a].stamp]}
    /\ advance(a, [attempts[a] EXCEPT !.pc = "answered"])
    /\ UNCHANGED <<now, jwts, refresh_tokens>>

AnswerLogin(a) ==
    /\ at(a, "login", "stored")
    /\ access' = access \cup {[token |-> attempts[a].token, exp |-> attempts[a].stamp]}
    /\ advance(a, [attempts[a] EXCEPT !.pc = "answered"])
    /\ UNCHANGED <<now, jwts, refresh_tokens>>

-----------------------------------------------------------------------------
(* refresh *)

\* decode_token, which looks at the JWT only.
Refresh(a, t) ==
    /\ attempts[a] = Nothing
    /\ held(t)
    /\ advance(a, [attempt("refresh", jwts[t].user, t,
                           IF unexpired(jwts[t].exp) THEN "decoded" ELSE "refused")
                      EXCEPT !.after_logout = logged_out(t)])
    /\ UNCHANGED <<now, jwts, refresh_tokens, access>>

ReadToken(a) ==
    /\ at(a, "refresh", "decoded")
    /\ advance(a, [attempts[a] EXCEPT !.pc = "read", !.row = refresh_tokens[attempts[a].token]])
    /\ UNCHANGED <<now, jwts, refresh_tokens, access>>

\* Planted fault: the expiry of the row is not looked at, the JWT has one.
is_not_revoked(row) == row.revoked_at = Nothing

\* Planted fault: the time of revocation is not looked at.
is_not_expired(row) == now <= row.expires_at

is_valid(row) == row.revoked_at = Nothing /\ now <= row.expires_at

AnswerRefresh(a) ==
    LET row == attempts[a].row
        granted == row # Nothing /\ is_valid(row)
    IN  /\ at(a, "refresh", "read")
        /\ access' = IF granted
                     THEN access \cup
                            {[token |-> attempts[a].token,
                              exp |-> _build_token(attempts[a].user, ACCESS_TOKEN_EXPIRE).exp]}
                     ELSE access
        /\ advance(a, [attempts[a] EXCEPT !.pc = IF granted THEN "granted" ELSE "refused"])
        /\ UNCHANGED <<now, jwts, refresh_tokens>>

-----------------------------------------------------------------------------
(* logout *)

\* The caller is the user of its access token; revoked_at is computed before the UPDATE waits.
Logout(a, u, t) ==
    /\ attempts[a] = Nothing
    /\ \E x \in access : jwts[x.token].user = u /\ unexpired(x.exp)
    /\ held(t)
    /\ advance(a, [attempt("logout", u, t, "stamped") EXCEPT !.stamp = now])
    /\ UNCHANGED <<now, jwts, refresh_tokens, access>>

\* Planted fault: the row is found by its hash alone.
matches_hash(row, user) == row # Nothing

\* The WHERE clause of revoke, once the hash has selected the row.
matches(row, user) == row # Nothing /\ row.user = user

RevokeToken(a) ==
    LET t == attempts[a].token
        row == refresh_tokens[t]
    IN  /\ at(a, "logout", "stamped")
        /\ refresh_tokens' =
              IF matches(row, attempts[a].user)
              THEN [refresh_tokens EXCEPT ![t].revoked_at = attempts[a].stamp]
              ELSE refresh_tokens
        /\ advance(a, [attempts[a] EXCEPT !.pc = "answered"])
        /\ UNCHANGED <<now, jwts, access>>

-----------------------------------------------------------------------------

\* The process dies, or the client does not get its answer.
Lose(a) ==
    /\ attempts[a] # Nothing
    /\ attempts[a].pc \in {"signed", "stored", "decoded", "read", "stamped"}
    /\ advance(a, [attempts[a] EXCEPT !.pc = "lost"])
    /\ UNCHANGED <<now, jwts, refresh_tokens, access>>

Tick ==
    /\ now < MAX_TIME
    /\ now' = now + 1
    /\ UNCHANGED <<jwts, refresh_tokens, access, attempts>>

Next ==
    \/ Tick
    \/ \E a \in Attempts :
          \/ \E u \in Users, t \in Tokens : Login(a, u, t)
          \/ StoreToken(a)
          \/ AnswerLogin(a)
          \/ \E t \in Tokens : Refresh(a, t)
          \/ ReadToken(a)
          \/ AnswerRefresh(a)
          \/ \E u \in Users, t \in Tokens : Logout(a, u, t)
          \/ RevokeToken(a)
          \/ Lose(a)

Spec == Init /\ [][Next]_vars

=============================================================================
