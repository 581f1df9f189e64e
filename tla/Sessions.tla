------------------------------ MODULE Sessions ------------------------------
(***************************************************************************)
(* AuthService: accounts in PostgreSQL and refresh tokens in Redis.  A     *)
(* handler is split at its awaits.  A user row, a refresh token and a      *)
(* session carry the name of the call that made them (a fresh uuid each);  *)
(* a session is a login and the chain of refreshes that followed it.       *)
(***************************************************************************)
EXTENDS Naturals

CONSTANTS
    AuthCalls,  \* requests to the /auth endpoints
    Emails,     \* the addresses people register with
    None

ASSUME AuthNoneAssumption == None \notin AuthCalls \cup Emails

VARIABLES
    step,      \* where each call is
    op,        \* the endpoint it called
    arg,       \* the email or the refresh token it was given
    sub,       \* the account the call acts for: the sub claim of its token
    session,   \* the session that token belongs to
    users,     \* the user rows, by the call that registered them
    inactive,  \* those with is_active = FALSE
    live,      \* the tokens that have a refresh:{jti} key in Redis
    minted,    \* the tokens handed out so far
    expired,   \* those whose exp claim has passed
    raced,     \* history: sessions in which two refreshes overlapped
    ended      \* history: sessions logged out with no refresh under way

accountVars == <<users, inactive>>
tokenVars == <<sub, session, live, minted, expired, raced, ended>>
sessionsVars == <<step, op, arg, accountVars, tokenVars>>

SessionsTypeOK ==
    /\ step \in [AuthCalls -> {"idle", "checked", "got", "issue", "done"}]
    /\ op \in [AuthCalls -> {"register", "login", "refresh", "logout", None}]
    /\ arg \in [AuthCalls -> Emails \cup AuthCalls \cup {None}]
    /\ sub \in [AuthCalls -> AuthCalls \cup {None}]
    /\ session \in [AuthCalls -> AuthCalls \cup {None}]
    /\ users \subseteq AuthCalls /\ inactive \subseteq users
    /\ live \subseteq minted /\ minted \subseteq AuthCalls /\ expired \subseteq minted
    /\ raced \subseteq AuthCalls /\ ended \subseteq AuthCalls

SessionsInit ==
    /\ step = [r \in AuthCalls |-> "idle"]
    /\ op = [r \in AuthCalls |-> None]
    /\ arg = [r \in AuthCalls |-> None]
    /\ sub = [r \in AuthCalls |-> None]
    /\ session = [r \in AuthCalls |-> None]
    /\ users = {} /\ inactive = {}
    /\ live = {} /\ minted = {} /\ expired = {}
    /\ raced = {} /\ ended = {}

(* Call r enters endpoint o with argument a and gets as far as s. *)
Enter(r, o, a, s) ==
    /\ step[r] = "idle"
    /\ op' = [op EXCEPT ![r] = o]
    /\ arg' = [arg EXCEPT ![r] = a]
    /\ step' = [step EXCEPT ![r] = s]

Go(r, from, to) == step[r] = from /\ step' = [step EXCEPT ![r] = to]

-----------------------------------------------------------------------------
(* register *)

get_by_email(e) == {u \in users : arg[u] = e}

RegisterCheck(r, e) ==
    /\ Enter(r, "register", e, IF get_by_email(e) = {} THEN "checked" ELSE "done")
    /\ UNCHANGED <<accountVars, tokenVars>>

(* Mutant: email not unique, the lookup alone. *)
RegisterStoreUnchecked(r) ==
    /\ Go(r, "checked", "done")
    /\ users' = users \cup {r}
    /\ UNCHANGED <<op, arg, inactive, tokenVars>>

(* INSERT and commit.  The unique index on email refuses a second row, and
   the request ends with the IntegrityError nobody handles.                *)
RegisterStore(r) ==
    /\ Go(r, "checked", "done")
    /\ users' = IF get_by_email(arg[r]) = {} THEN users \cup {r} ELSE users
    /\ UNCHANGED <<op, arg, inactive, tokenVars>>

(* An operator clears is_active; no endpoint does. *)
Deactivate(u) ==
    /\ u \in users \ inactive
    /\ inactive' = inactive \cup {u}
    /\ UNCHANGED <<step, op, arg, users, tokenVars>>

-----------------------------------------------------------------------------
(* login, refresh and logout *)

(* The row is read and the password verified; a wrong password, an unknown
   email and a deactivated account end the request.                        *)
Login(r, e) ==
    /\ \/ \E u \in get_by_email(e) \ inactive :
            /\ Enter(r, "login", e, "issue")
            /\ sub' = [sub EXCEPT ![r] = u]
            /\ session' = [session EXCEPT ![r] = r]
       \/ /\ Enter(r, "login", e, "done")
          /\ UNCHANGED <<sub, session>>
    /\ UNCHANGED <<accountVars, live, minted, expired, raced, ended>>

(* decode_token raises for a token whose exp has passed. *)
decode_token(t) == t \notin expired

Refreshing(s, steps) == {q \in AuthCalls : session[q] = s /\ step[q] \in steps}

(* The claims, then GET refresh:{jti}: refused when the token has expired
   or its key is gone.  Two refreshes may both pass here.                  *)
RefreshGet(r, t) ==
    /\ t \in minted
    /\ LET ok == decode_token(t) /\ t \in live
       IN  /\ Enter(r, "refresh", t, IF ok THEN "got" ELSE "done")
           /\ sub' = IF ok THEN [sub EXCEPT ![r] = sub[t]] ELSE sub
           /\ session' = IF ok THEN [session EXCEPT ![r] = session[t]] ELSE session
           /\ raced' = IF ok /\ Refreshing(session[t], {"got"}) # {}
                       THEN raced \cup {session[t]} ELSE raced
    /\ UNCHANGED <<accountVars, live, minted, expired, ended>>

(* Mutant: the old token is left in place. *)
RefreshKeep(r) ==
    /\ Go(r, "got", "issue")
    /\ UNCHANGED <<op, arg, accountVars, tokenVars>>

(* DEL, whose count of deleted keys is not looked at. *)
RefreshDel(r) ==
    /\ Go(r, "got", "issue")
    /\ live' = live \ {arg[r]}
    /\ UNCHANGED <<op, arg, accountVars, sub, session, minted, expired, raced, ended>>

(* Mutants: the key named after the user; a refresh stores its old token's
   jti once more.                                                          *)
StoredForUser(r) == {sub[r]}

StoredAgain(r) == IF op[r] = "refresh" THEN {r, arg[r]} ELSE {r}

(* The keys that call r sets: refresh:{jti} of its new token. *)
Stored(r) == {r}

(* _issue_tokens: SET refresh:{jti} with its TTL, and the answer.  The old
   and the new token are two keys: a death in between leaves neither.      *)
Issue(r) ==
    /\ Go(r, "issue", "done")
    /\ live' = live \cup Stored(r)
    /\ minted' = minted \cup {r}
    /\ UNCHANGED <<op, arg, accountVars, sub, session, expired, raced, ended>>

(* Mutant: the key of the session's first token. *)
RevokedFirst(t) == {session[t]}

(* The keys that a logout with token t deletes. *)
Revoked(t) == {t}

(* DEL; nothing with an expired token. *)
Logout(r, t) ==
    /\ t \in minted
    /\ Enter(r, "logout", t, "done")
    /\ live' = IF decode_token(t) THEN live \ Revoked(t) ELSE live
    /\ ended' = IF decode_token(t) /\ t \in live /\ Refreshing(session[t], {"got", "issue"}) = {}
                   /\ session[t] \notin raced
                THEN ended \cup {session[t]} ELSE ended
    /\ UNCHANGED <<accountVars, sub, session, minted, expired, raced>>

(* The process dies, or PostgreSQL or Redis fails the call. *)
CallDies(r) ==
    /\ step[r] \in {"checked", "got", "issue"}
    /\ step' = [step EXCEPT ![r] = "done"]
    /\ UNCHANGED <<op, arg, accountVars, tokenVars>>

(* A token's exp passes; its key, set a moment later for as long, follows. *)
TokenExpire(t) ==
    /\ \/ /\ t \in minted \ expired
          /\ expired' = expired \cup {t}
          /\ UNCHANGED live
       \/ /\ t \in live \cap expired
          /\ live' = live \ {t}
          /\ UNCHANGED expired
    /\ UNCHANGED <<step, op, arg, accountVars, sub, session, minted, raced, ended>>

-----------------------------------------------------------------------------
SessionsNext ==
    \E r \in AuthCalls :
       \/ \E e \in Emails : RegisterCheck(r, e) \/ Login(r, e)
       \/ \E t \in AuthCalls : RefreshGet(r, t) \/ Logout(r, t)
       \/ RegisterStore(r) \/ RefreshDel(r) \/ Issue(r)
       \/ CallDies(r) \/ TokenExpire(r) \/ Deactivate(r)

SessionsSpec == SessionsInit /\ [][SessionsNext]_sessionsVars

-----------------------------------------------------------------------------
(* Two registrations of one address that both miss the lookup make one
   account: the unique index decides the race.                             *)
OneAccountPerEmail == \A u, v \in users : arg[u] = arg[v] => u = v

(* Of all the refreshes that were given one token, one at most gets a new one,
   in a session where no two refreshes overlapped between their GET and their
   DEL.                                                                    *)
SingleUse ==
    \A x, y \in minted :
       op[x] = "refresh" /\ op[y] = "refresh" /\ arg[x] = arg[y]
         /\ session[x] \notin raced => x = y

(* auth_service.py, refresh: "Rotate: the old token is single-use."  Nothing is
   said of refreshes that overlap: each of two that get their answer to GET
   before either sends its DEL is given a new token.                       *)
OldTokenIsSingleUse ==
    \A x, y \in minted :
       op[x] = "refresh" /\ op[y] = "refresh" /\ arg[x] = arg[y] => x = y

(* In a session without such an overlap one refresh token at most is accepted
   at any time, whatever dies or expires: rotation deletes before it stores. *)
OneTokenPerSession ==
    \A x, y \in live : session[x] = session[y] /\ session[x] \notin raced => x = y

(* A logout with the current token, while no refresh of the session is
   under way, ends the session: none of its tokens is accepted again.      *)
LogoutEndsSession ==
    \A s \in ended : \A t \in live : session[t] # s

=============================================================================
