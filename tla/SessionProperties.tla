------------------------- MODULE SessionProperties -------------------------
(***************************************************************************)
(* What must hold of sessions, whatever overlaps.                          *)
(***************************************************************************)
EXTENDS Sessions

(***************************************************************************)
(* Every column is typed; a row, and any access token a client has, is of  *)
(* a refresh token that was signed, and a row is no older than its JWT:    *)
(* it never expires before it.                                             *)
(***************************************************************************)
SessionsTypeOK ==
    /\ now \in 0..MAX_TIME
    /\ jwts \in [Tokens -> Signed \cup {Nothing}]
    /\ refresh_tokens \in [Tokens -> Row \cup {Nothing}]
    /\ access \subseteq [token : Tokens, exp : Nat]
    /\ attempts \in [Attempts -> Attempt \cup {Nothing}]
    /\ \A t \in Tokens : refresh_tokens[t] # Nothing =>
          /\ jwts[t] # Nothing
          /\ refresh_tokens[t].user = jwts[t].user
          /\ refresh_tokens[t].expires_at >= jwts[t].exp
    /\ \A x \in access : refresh_tokens[x.token] # Nothing

\* The owner of t has asked for its logout, answered or not.
logout_asked(t) ==
    \E b \in Attempts :
        /\ attempts[b] # Nothing
        /\ attempts[b].kind = "logout"
        /\ attempts[b].token = t
        /\ attempts[b].user = jwts[t].user

(***************************************************************************)
(* refresh: a client that has been given a refresh token is served with it *)
(* until it expires, unless its own user asked to log out with it.  Seen   *)
(* from the client: no answer before the row, no early expiry, no session  *)
(* ended by somebody else.                                                 *)
(***************************************************************************)
ServedUntilLogoutOrExpiry ==
    \A a \in Attempts : at(a, "refresh", "refused") =>
        LET t == attempts[a].token
        IN  now > jwts[t].exp \/ logout_asked(t)

(***************************************************************************)
(* logout: a refresh that is asked for after the logout has been answered  *)
(* yields no access token, although one that overlaps it may.              *)
(***************************************************************************)
LoggedOutStaysOut ==
    \A a \in Attempts : at(a, "refresh", "granted") => ~attempts[a].after_logout

(***************************************************************************)
(* refresh, without rotation: however often a session is refreshed, and    *)
(* however long one refresh takes, no access token lives on for more than  *)
(* its own lifetime after the refresh token's row has expired.             *)
(***************************************************************************)
SessionBounded ==
    \A x \in access :
        x.exp <= refresh_tokens[x.token].expires_at + ACCESS_TOKEN_EXPIRE

=============================================================================
