---------------------------- MODULE SessionsProofs ----------------------------
(***************************************************************************)
(* Proofs about Sessions, for any number of calls, accounts and sessions.  *)
(***************************************************************************)
EXTENDS Sessions, TLAPS

(* A refresh that is past its DEL has used its token up. *)
Used(x) == op[x] = "refresh" /\ (x \in minted \/ step[x] = "issue")

(* A call that has not started has left no trace, and what a call was given
   and holds fits where it is.                                             *)
Started ==
    \A r \in AuthCalls :
       /\ step[r] = "idle" => r \notin users /\ r \notin minted /\ session[r] = None
       /\ r \in users \/ r \in minted => step[r] = "done"
       /\ step[r] = "got" => op[r] = "refresh"
       /\ step[r] = "got" \/ Used(r) => session[r] = session[arg[r]]
       /\ step[r] # "idle" /\ op[r] = "refresh" => arg[r] \in minted
       /\ session[r] # None => step[session[r]] # "idle"
       /\ r \in minted \/ step[r] \in {"got", "issue"} => session[r] # None
       /\ r \in ended => step[r] # "idle"

(* Who can still bring a session a token that is accepted: the token that
   has a key, and the call that is about to store one.                     *)
Holds(x) == x \in live \/ step[x] = "issue"

(* In a session where no two refreshes overlapped there is one such at most,
   and a refresh past its GET has the session for itself.                  *)
OneHolder ==
    \A x, y \in AuthCalls :
       Holds(x) /\ Holds(y) /\ session[x] = session[y] /\ session[x] \notin raced => x = y

OneRefresh ==
    \A r \in AuthCalls : step[r] = "got" /\ session[r] \notin raced =>
       /\ \A x \in AuthCalls : Holds(x) /\ session[x] = session[r] => x = arg[r]
       /\ \A q \in AuthCalls : step[q] = "got" /\ session[q] = session[r] => q = r

(* Of the refreshes given one token, one at most is past its DEL, and then
   the token is gone and nobody else is about to use it.                   *)
UsedUp ==
    \A x \in AuthCalls : Used(x) /\ session[x] \notin raced =>
       /\ arg[x] \notin live
       /\ \A q \in AuthCalls : step[q] = "got" => arg[q] # arg[x]
       /\ \A y \in AuthCalls : Used(y) /\ arg[y] = arg[x] => y = x

(* A session that was logged out is not held by anybody. *)
Over ==
    \A s \in ended : \A x \in AuthCalls :
       session[x] = s => ~Holds(x) /\ step[x] # "got"

SessionsInv ==
    /\ SessionsTypeOK /\ Started /\ OneHolder /\ OneRefresh /\ UsedUp /\ Over
    /\ OneAccountPerEmail

-----------------------------------------------------------------------------
LEMMA SessionsInitInv == SessionsInit => SessionsInv
<1> SUFFICES ASSUME SessionsInit PROVE SessionsInv
  OBVIOUS
<1> USE AuthNoneAssumption
<1>1. SessionsTypeOK /\ Started /\ OneAccountPerEmail
  BY DEF SessionsInit, SessionsTypeOK, Started, OneAccountPerEmail, Used
<1>2. OneHolder /\ OneRefresh /\ UsedUp /\ Over
  BY DEF SessionsInit, OneHolder, OneRefresh, UsedUp, Over, Holds, Used
<1> QED
  BY <1>1, <1>2 DEF SessionsInv

(* A session's name is a call's, and None is not one. *)
LEMMA SessionIsCall ==
  ASSUME SessionsInv, NEW r \in AuthCalls, session[r] # None
  PROVE  session[r] \in AuthCalls
  BY DEF SessionsInv, SessionsTypeOK

(* register, the clock on an account, and calls that end without a token:
   nothing that holds a session changes but for the worse.                 *)
LEMMA QuietInv ==
  ASSUME SessionsInv, NEW r \in AuthCalls,
         /\ UNCHANGED <<sub, session, minted, raced, ended>>
         /\ live' \subseteq live /\ expired' \subseteq minted
         /\ users' \subseteq users \cup {r} /\ inactive' \subseteq users'
         /\ \/ UNCHANGED <<step, op, arg>>
            \/ /\ step[r] = "idle"
               /\ \E o \in {"register", "login", "refresh", "logout"},
                     a \in Emails \cup AuthCalls, s \in {"checked", "done"} :
                     /\ o = "refresh" => a \in minted
                     /\ op' = [op EXCEPT ![r] = o]
                     /\ arg' = [arg EXCEPT ![r] = a]
                     /\ step' = [step EXCEPT ![r] = s]
            \/ /\ step[r] # "idle"
               /\ UNCHANGED <<op, arg>>
               /\ step' = [step EXCEPT ![r] = "done"],
         r \in users' => r \in users \/ step'[r] = "done",
         OneAccountPerEmail'
  PROVE  SessionsInv'
<1> USE AuthNoneAssumption DEF SessionsInv
<1>0. /\ \A x \in AuthCalls : x # r => step'[x] = step[x] /\ op'[x] = op[x] /\ arg'[x] = arg[x]
      /\ step'[r] \in {step[r], "checked", "done"}
      /\ step[r] # "idle" => step'[r] # "idle" /\ op'[r] = op[r] /\ arg'[r] = arg[r]
      /\ step[r] = "done" => step'[r] = "done"
      /\ op'[r] = "refresh" /\ step'[r] # "idle" => arg'[r] \in minted
  BY DEF SessionsTypeOK, Started
<1>1. SessionsTypeOK'
  BY DEF SessionsTypeOK
<1>2. Started'
  <2> SUFFICES ASSUME NEW x \in AuthCalls
               PROVE  /\ step'[x] = "idle" => x \notin users' /\ x \notin minted /\ session[x] = None
                      /\ x \in users' \/ x \in minted => step'[x] = "done"
                      /\ step'[x] = "got" => op'[x] = "refresh"
                      /\ step'[x] = "got" \/ Used(x)' => session[x] = session[arg'[x]]
                      /\ step'[x] # "idle" /\ op'[x] = "refresh" => arg'[x] \in minted
                      /\ session[x] # None => step'[session[x]] # "idle"
                      /\ x \in minted \/ step'[x] \in {"got", "issue"} => session[x] # None
                      /\ x \in ended => step'[x] # "idle"
    BY DEF Started
  <2>1. session[x] # None => step'[session[x]] # "idle"
    BY <1>0, SessionIsCall DEF Started
  <2>2. CASE x # r
    BY <2>1, <2>2, <1>0 DEF Started, Used
  <2>3. CASE x = r
    <3>1. CASE step[r] = "idle"
      BY <2>1, <2>3, <3>1, <1>0 DEF Started, Used
    <3>2. CASE step[r] # "idle"
      BY <2>1, <2>3, <3>2, <1>0 DEF Started, Used
    <3> QED
      BY <3>1, <3>2
  <2> QED
    BY <2>2, <2>3
<1>3. \A x \in AuthCalls : /\ Holds(x)' => Holds(x)
                           /\ step'[x] = "got" => step[x] = "got" /\ arg'[x] = arg[x]
                           /\ Used(x)' => Used(x) /\ arg'[x] = arg[x]
  BY <1>0 DEF Holds, Used, Started
<1>4. OneHolder' /\ Over'
  BY <1>3 DEF OneHolder, Over
<1>5. OneRefresh'
  BY <1>3 DEF OneRefresh
<1>6. UsedUp'
  BY <1>3 DEF UsedUp
<1> QED
  BY <1>1, <1>2, <1>4, <1>5, <1>6

(* Such steps keep the accounts apart when they add none. *)
LEMMA SameAccounts ==
  ASSUME SessionsInv, UNCHANGED users,
         \A u \in AuthCalls : step[u] = "done" => arg'[u] = arg[u]
  PROVE  OneAccountPerEmail'
<1>1. \A u \in users : u \in AuthCalls /\ step[u] = "done"
  BY DEF SessionsInv, SessionsTypeOK, Started
<1> QED
  BY <1>1 DEF SessionsInv, OneAccountPerEmail

LEMMA RegisterCheckInv ==
  ASSUME SessionsInv, NEW r \in AuthCalls, NEW e \in Emails, RegisterCheck(r, e)
  PROVE  SessionsInv'
<1>1. OneAccountPerEmail'
  BY SameAccounts DEF RegisterCheck, Enter, accountVars, SessionsInv, SessionsTypeOK
<1> QED
  BY <1>1, QuietInv DEF RegisterCheck, Enter, accountVars, tokenVars, SessionsInv, SessionsTypeOK, Started

LEMMA RegisterStoreInv ==
  ASSUME SessionsInv, NEW r \in AuthCalls, RegisterStore(r)
  PROVE  SessionsInv'
<1>1. OneAccountPerEmail'
  BY DEF RegisterStore, Go, get_by_email, SessionsInv, OneAccountPerEmail, SessionsTypeOK
<1>2. /\ users' \subseteq users \cup {r} /\ users \subseteq users'
      /\ UNCHANGED <<op, arg, inactive, sub, session, live, minted, expired, raced, ended>>
      /\ step[r] # "idle" /\ step' = [step EXCEPT ![r] = "done"] /\ step'[r] = "done"
  BY DEF RegisterStore, Go, tokenVars, SessionsInv, SessionsTypeOK
<1> QED
  BY <1>1, <1>2, QuietInv DEF SessionsInv, SessionsTypeOK

LEMMA DeactivateInv ==
  ASSUME SessionsInv, NEW u \in AuthCalls, Deactivate(u)
  PROVE  SessionsInv'
<1>1. OneAccountPerEmail'
  BY SameAccounts DEF Deactivate
<1> QED
  BY <1>1, QuietInv DEF Deactivate, tokenVars, SessionsInv, SessionsTypeOK

LEMMA CallDiesInv ==
  ASSUME SessionsInv, NEW r \in AuthCalls, CallDies(r)
  PROVE  SessionsInv'
<1>1. OneAccountPerEmail'
  BY SameAccounts DEF CallDies, accountVars
<1>2. /\ UNCHANGED <<op, arg, users, inactive, sub, session, live, minted, expired, raced, ended>>
      /\ step[r] # "idle" /\ step' = [step EXCEPT ![r] = "done"]
  BY DEF CallDies, accountVars, tokenVars
<1> QED
  BY <1>1, <1>2, QuietInv DEF SessionsInv, SessionsTypeOK

LEMMA TokenExpireInv ==
  ASSUME SessionsInv, NEW t \in AuthCalls, TokenExpire(t)
  PROVE  SessionsInv'
<1>1. OneAccountPerEmail'
  BY SameAccounts DEF TokenExpire, accountVars
<1>2. /\ UNCHANGED <<step, op, arg, users, inactive, sub, session, minted, raced, ended>>
      /\ live' \subseteq live /\ expired' \subseteq minted
  BY DEF TokenExpire, accountVars, SessionsInv, SessionsTypeOK
<1> QED
  BY <1>1, <1>2, QuietInv DEF SessionsInv, SessionsTypeOK

(* A login begins a session of its own. *)
LEMMA LoginInv ==
  ASSUME SessionsInv, NEW r \in AuthCalls, NEW e \in Emails, Login(r, e)
  PROVE  SessionsInv'
<1> USE AuthNoneAssumption
<1>1. OneAccountPerEmail'
  BY SameAccounts DEF Login, Enter, accountVars, SessionsInv, SessionsTypeOK
<1>2. CASE Enter(r, "login", e, "done") /\ UNCHANGED <<sub, session>>
  BY <1>1, <1>2, QuietInv DEF Login, Enter, accountVars, SessionsInv, SessionsTypeOK, Started
<1>3. ASSUME NEW u \in users,
             Enter(r, "login", e, "issue"),
             sub' = [sub EXCEPT ![r] = u], session' = [session EXCEPT ![r] = r]
      PROVE  SessionsInv'
  <2> USE DEF SessionsInv
  <2>0. /\ UNCHANGED <<users, inactive, live, minted, expired, raced, ended>>
        /\ step[r] = "idle" /\ r \notin live /\ r \notin minted /\ r \notin users /\ r \notin ended
        /\ session[r] = None /\ session'[r] = r /\ step'[r] = "issue" /\ op'[r] = "login"
        /\ \A x \in AuthCalls : x # r =>
              step'[x] = step[x] /\ op'[x] = op[x] /\ arg'[x] = arg[x] /\ session'[x] = session[x]
    BY <1>3 DEF Login, Enter, accountVars, SessionsTypeOK, Started
  <2>a. \A x \in AuthCalls : x # r => session[x] # r
    BY <2>0 DEF Started
  <2>1. SessionsTypeOK'
    BY <1>3, <2>0 DEF Enter, SessionsTypeOK
  <2>2. Started'
    <3> SUFFICES ASSUME NEW x \in AuthCalls
                 PROVE  /\ step'[x] = "idle" => x \notin users' /\ x \notin minted' /\ session'[x] = None
                        /\ x \in users' \/ x \in minted' => step'[x] = "done"
                        /\ step'[x] = "got" => op'[x] = "refresh"
                        /\ step'[x] = "got" \/ Used(x)' => session'[x] = session'[arg'[x]]
                        /\ step'[x] # "idle" /\ op'[x] = "refresh" => arg'[x] \in minted'
                        /\ session'[x] # None => step'[session'[x]] # "idle"
                        /\ x \in minted' \/ step'[x] \in {"got", "issue"} => session'[x] # None
                        /\ x \in ended' => step'[x] # "idle"
      BY DEF Started
    <3>1. CASE x = r
      BY <3>1, <2>0 DEF Used
    <3>2. CASE x # r
      <4>1. session[x] # None => session[x] \in AuthCalls /\ session[x] # r
        BY <3>2, <2>a, SessionIsCall
      <4>2. step[x] = "got" \/ Used(x) => arg[x] \in AuthCalls /\ arg[x] # r
        BY <2>0 DEF Started, SessionsTypeOK, Used
      <4> QED
        BY <3>2, <4>1, <4>2, <2>0 DEF Started, Used
    <3> QED
      BY <3>1, <3>2
  <2>3. \A x \in AuthCalls : /\ Holds(x)' => x = r \/ Holds(x)
                             /\ Used(x)' => x # r /\ Used(x)
    BY <2>0 DEF Holds, Used
  <2>4. OneHolder' /\ Over'
    BY <2>0, <2>3, <2>a DEF OneHolder, Over
  <2>5. OneRefresh'
    BY <2>0, <2>3, <2>a DEF OneRefresh
  <2>6. UsedUp'
    BY <2>0, <2>3 DEF UsedUp
  <2> QED
    BY <1>1, <2>1, <2>2, <2>4, <2>5, <2>6
<1> QED
  BY <1>2, <1>3 DEF Login, get_by_email

(* A refresh passes its GET: it has the session for itself, or it raced. *)
LEMMA RefreshGetInv ==
  ASSUME SessionsInv, NEW r \in AuthCalls, NEW t \in AuthCalls, RefreshGet(r, t)
  PROVE  SessionsInv'
<1> USE AuthNoneAssumption
<1>1. OneAccountPerEmail'
  BY SameAccounts DEF RefreshGet, decode_token, Enter, accountVars, SessionsInv, SessionsTypeOK
<1>2. CASE t \notin live \ expired
  <2>1. /\ Enter(r, "refresh", t, "done") /\ t \in minted
        /\ UNCHANGED <<users, inactive, sub, session, live, minted, expired, raced, ended>>
    BY <1>2 DEF RefreshGet, decode_token, accountVars
  <2> QED
    BY <1>1, <2>1, QuietInv DEF Enter, SessionsInv, SessionsTypeOK, Started
<1>3. CASE t \in live \ expired
  <2> USE DEF SessionsInv
  <2>0. /\ UNCHANGED <<users, inactive, live, minted, expired, ended>>
        /\ step[r] = "idle" /\ r \notin live /\ r \notin minted /\ r \notin users /\ r \notin ended
        /\ t \in live /\ t \in minted /\ t # r
        /\ step'[r] = "got" /\ op'[r] = "refresh" /\ arg'[r] = t
        /\ session'[r] = session[t] /\ session[r] = None
        /\ \A x \in AuthCalls : x # r =>
              step'[x] = step[x] /\ op'[x] = op[x] /\ arg'[x] = arg[x] /\ session'[x] = session[x]
    BY <1>3 DEF RefreshGet, decode_token, Enter, accountVars, SessionsTypeOK, Started
  <2>a. session[t] # None /\ session[t] \in AuthCalls
    BY <2>0, SessionIsCall DEF Started
  <2>b. raced \subseteq raced' /\ raced' \subseteq AuthCalls
    BY <1>3, <2>a DEF RefreshGet, decode_token, SessionsTypeOK
  <2>c. ASSUME NEW q \in AuthCalls, step[q] = "got", session[q] = session[t]
        PROVE  session[t] \in raced'
    BY <1>3, <2>c DEF RefreshGet, decode_token, Refreshing
  <2>1. SessionsTypeOK'
    <3>1. step' \in [AuthCalls -> {"idle", "checked", "got", "issue", "done"}]
      BY <1>3 DEF RefreshGet, decode_token, Enter, SessionsTypeOK
    <3>2. /\ op' \in [AuthCalls -> {"register", "login", "refresh", "logout", None}]
          /\ arg' \in [AuthCalls -> Emails \cup AuthCalls \cup {None}]
      BY DEF RefreshGet, decode_token, Enter, SessionsTypeOK
    <3>3. /\ sub' \in [AuthCalls -> AuthCalls \cup {None}]
          /\ session' \in [AuthCalls -> AuthCalls \cup {None}]
      BY <1>3 DEF RefreshGet, decode_token, SessionsTypeOK
    <3> QED
      BY <3>1, <3>2, <3>3, <2>0, <2>b DEF SessionsTypeOK
  <2>2. Started'
    <3> SUFFICES ASSUME NEW x \in AuthCalls
                 PROVE  /\ step'[x] = "idle" => x \notin users' /\ x \notin minted' /\ session'[x] = None
                        /\ x \in users' \/ x \in minted' => step'[x] = "done"
                        /\ step'[x] = "got" => op'[x] = "refresh"
                        /\ step'[x] = "got" \/ Used(x)' => session'[x] = session'[arg'[x]]
                        /\ step'[x] # "idle" /\ op'[x] = "refresh" => arg'[x] \in minted'
                        /\ session'[x] # None => step'[session'[x]] # "idle"
                        /\ x \in minted' \/ step'[x] \in {"got", "issue"} => session'[x] # None
                        /\ x \in ended' => step'[x] # "idle"
      BY DEF Started
    <3>1. session'[x] # None => step'[session'[x]] # "idle"
      <4>1. ASSUME NEW y \in AuthCalls, session[y] # None
            PROVE  step'[session[y]] # "idle"
        <5>1. session[y] \in AuthCalls /\ step[session[y]] # "idle"
          BY <4>1, SessionIsCall DEF Started
        <5> QED
          BY <5>1, <2>0
      <4> QED
        BY <4>1, <2>0, <2>a
    <3>2. CASE x = r
      BY <3>1, <3>2, <2>0, <2>a
    <3>3. CASE x # r
      <4>1. step[x] = "got" \/ Used(x) => arg[x] \in AuthCalls /\ arg[x] # r
        BY <2>0 DEF Started, SessionsTypeOK, Used
      <4> QED
        BY <3>1, <3>3, <4>1, <2>0 DEF Started, Used
    <3> QED
      BY <3>2, <3>3
  <2>3. \A x \in AuthCalls : /\ Holds(x)' => x # r /\ Holds(x)
                             /\ Used(x)' => x # r /\ Used(x)
    BY <2>0 DEF Holds, Used
  <2>4. OneHolder'
    BY <2>0, <2>3, <2>b DEF OneHolder
  <2>5. Over'
    BY <2>0, <2>3 DEF Over, Holds
  <2>6. OneRefresh'
    <3>1. ASSUME session[t] \notin raced' PROVE session[t] \notin raced
      BY <3>1, <2>b
    <3>2. ASSUME NEW x \in AuthCalls, Holds(x), session[x] = session[t], session[t] \notin raced'
          PROVE  x = t
      BY <3>1, <3>2, <2>0 DEF OneHolder, Holds
    <3>3. ASSUME NEW x \in AuthCalls, x # r, step'[x] = "got", session'[x] \notin raced'
          PROVE  session[x] # session[t]
      BY <3>3, <2>0, <2>c
    <3> QED
      BY <3>1, <3>2, <3>3, <2>0, <2>b, <2>c, <2>3 DEF OneRefresh
  <2>7. UsedUp'
    BY <2>0, <2>b, <2>3 DEF UsedUp
  <2> QED
    BY <1>1, <2>1, <2>2, <2>4, <2>5, <2>6, <2>7
<1> QED
  BY <1>2, <1>3

(* The DEL of a refresh: its token is gone, and it holds the session now. *)
LEMMA RefreshDelInv ==
  ASSUME SessionsInv, NEW r \in AuthCalls, RefreshDel(r)
  PROVE  SessionsInv'
<1> USE AuthNoneAssumption DEF SessionsInv
<1>0. /\ UNCHANGED <<op, arg, users, inactive, sub, session, minted, expired, raced, ended>>
      /\ live' = live \ {arg[r]}
      /\ step[r] = "got" /\ step'[r] = "issue" /\ op[r] = "refresh" /\ r \notin live
      /\ step' = [step EXCEPT ![r] = "issue"]
      /\ \A x \in AuthCalls : x # r => step'[x] = step[x]
  BY DEF RefreshDel, Go, accountVars, SessionsTypeOK, Started
<1>1. SessionsTypeOK'
  BY <1>0 DEF SessionsTypeOK
<1>2. Started'
  <2>1. \A x \in AuthCalls : step'[x] = "idle" <=> step[x] = "idle"
    BY <1>0
  <2>2. \A x \in AuthCalls : session[x] # None => step'[session[x]] # "idle"
    BY <2>1, SessionIsCall DEF Started
  <2> QED
    BY <1>0, <2>1, <2>2 DEF Started, Used
<1>3. OneAccountPerEmail'
  BY <1>0 DEF OneAccountPerEmail
<1>4. \A x \in AuthCalls : Holds(x)' => x = r \/ (Holds(x) /\ x # arg[r]) \/ step[x] = "issue"
  BY <1>0 DEF Holds
<1>5. \A x \in AuthCalls : step[x] = "issue" => Holds(x) /\ (session[x] = session[r] /\ session[r] \notin raced => x = arg[r])
  BY <1>0 DEF Holds, OneRefresh
<1>a. arg[r] \in minted /\ step[arg[r]] = "done"
  BY <1>0 DEF Started, SessionsTypeOK
<1>6. \A x \in AuthCalls : Holds(x)' /\ session[x] = session[r] /\ session[r] \notin raced => x = r
  BY <1>0, <1>4, <1>5, <1>a DEF OneRefresh
<1>7. OneHolder'
  BY <1>0, <1>4, <1>6, <1>5 DEF OneHolder
<1>8. OneRefresh'
  BY <1>0, <1>4, <1>5, <1>6 DEF OneRefresh
<1>9. UsedUp'
  <2>1. \A x \in AuthCalls : Used(x)' => x = r \/ Used(x)
    BY <1>0 DEF Used
  <2>2. ASSUME NEW x \in AuthCalls, x # r, Used(x), session[x] \notin raced
        PROVE  arg[x] # arg[r]
    BY <2>2, <1>0 DEF UsedUp
  <2>3. ASSUME NEW q \in AuthCalls, step'[q] = "got", arg[q] = arg[r], session[r] \notin raced
        PROVE  FALSE
    <3>1. q # r /\ step[q] = "got" /\ session[q] = session[r]
      BY <2>3, <1>0 DEF Started
    <3> QED
      BY <3>1, <2>3, <1>0 DEF OneRefresh
  <2>4. ASSUME NEW y \in AuthCalls, y # r, Used(y), arg[y] = arg[r], session[r] \notin raced
        PROVE  FALSE
    <3>1. session[y] = session[r]
      BY <2>4, <1>0 DEF Started
    <3> QED
      BY <3>1, <2>4, <1>0 DEF UsedUp
  <2> QED
    BY <1>0, <2>1, <2>2, <2>3, <2>4 DEF UsedUp
<1>10. Over'
  BY <1>0, <1>4, <1>5 DEF Over
<1> QED
  BY <1>1, <1>2, <1>3, <1>7, <1>8, <1>9, <1>10

(* SET of the new key: the call that was about to hold the session holds it
   by its token now.                                                       *)
LEMMA IssueInv ==
  ASSUME SessionsInv, NEW r \in AuthCalls, Issue(r)
  PROVE  SessionsInv'
<1> USE AuthNoneAssumption DEF SessionsInv
<1>0. /\ UNCHANGED <<op, arg, users, inactive, sub, session, expired, raced, ended>>
      /\ live' = live \cup {r} /\ minted' = minted \cup {r}
      /\ step[r] = "issue" /\ step'[r] = "done" /\ r \notin minted
      /\ step' = [step EXCEPT ![r] = "done"]
      /\ \A x \in AuthCalls : x # r => step'[x] = step[x]
  BY DEF Issue, Stored, Go, accountVars, SessionsTypeOK, Started
<1>1. SessionsTypeOK'
  BY <1>0 DEF SessionsTypeOK
<1>2. \A x \in AuthCalls : /\ Holds(x)' <=> Holds(x)
                           /\ Used(x)' <=> Used(x)
                           /\ step'[x] = "got" <=> step[x] = "got"
                           /\ step'[x] = "idle" <=> step[x] = "idle"
  BY <1>0 DEF Holds, Used
<1>3. Started'
  <2>1. \A x \in AuthCalls : session[x] # None => step'[session[x]] # "idle"
    BY <1>2, SessionIsCall DEF Started
  <2> QED
    BY <1>0, <1>2, <2>1 DEF Started
<1>4. OneAccountPerEmail'
  BY <1>0 DEF OneAccountPerEmail
<1>5. OneHolder' /\ Over'
  BY <1>0, <1>2 DEF OneHolder, Over
<1>6. OneRefresh'
  BY <1>0, <1>2 DEF OneRefresh
<1>7. UsedUp'
  <2>1. \A x \in AuthCalls : Used(x) => arg[x] \in minted /\ arg[x] # r
    BY <1>0 DEF Started, Used
  <2> QED
    BY <1>0, <1>2, <2>1 DEF UsedUp
<1> QED
  BY <1>1, <1>3, <1>4, <1>5, <1>6, <1>7

(* A logout that counts as the session's end was given the one token that
   held the session, and nobody else is about to hold it.                  *)
LEMMA LogoutInv ==
  ASSUME SessionsInv, NEW r \in AuthCalls, NEW t \in AuthCalls, Logout(r, t)
  PROVE  SessionsInv'
<1> USE AuthNoneAssumption DEF SessionsInv
<1>0. /\ UNCHANGED <<users, inactive, sub, session, minted, expired, raced>>
      /\ t \in minted /\ live' \subseteq live /\ ended \subseteq ended'
      /\ step[r] = "idle" /\ r \notin live /\ r \notin minted /\ r \notin users
      /\ step'[r] = "done" /\ op'[r] = "logout"
      /\ \A x \in AuthCalls : x # r => step'[x] = step[x] /\ op'[x] = op[x] /\ arg'[x] = arg[x]
  BY DEF Logout, decode_token, Revoked, Enter, accountVars, SessionsTypeOK, Started
<1>a. session[t] # None /\ session[t] \in AuthCalls /\ step[session[t]] # "idle"
  BY <1>0, SessionIsCall DEF Started
<1>1. SessionsTypeOK'
  <2>1. ended' \subseteq AuthCalls
    BY <1>a DEF Logout, decode_token, Revoked, SessionsTypeOK
  <2> QED
    BY <1>0, <2>1 DEF Logout, decode_token, Revoked, Enter, SessionsTypeOK
<1>2. \A x \in AuthCalls : /\ Holds(x)' => Holds(x)
                           /\ step'[x] = "got" => step[x] = "got" /\ arg'[x] = arg[x]
                           /\ Used(x)' => Used(x) /\ arg'[x] = arg[x]
                           /\ step'[x] = "idle" => step[x] = "idle"
  BY <1>0 DEF Holds, Used
<1>3. \A s \in ended' : s \in ended \/ s = session[t]
  BY DEF Logout, decode_token, Revoked
<1>4. Started'
  <2>1. \A x \in AuthCalls : session[x] # None => step'[session[x]] # "idle"
    BY <1>2, SessionIsCall DEF Started
  <2>2. \A x \in AuthCalls : x \in ended' => step'[x] # "idle"
    BY <1>2, <1>3, <1>a DEF Started
  <2> QED
    BY <1>0, <1>2, <2>1, <2>2 DEF Started
<1>5. OneAccountPerEmail'
  BY <1>0, SameAccounts
<1>6. OneHolder'
  BY <1>0, <1>2 DEF OneHolder
<1>7. OneRefresh'
  BY <1>0, <1>2 DEF OneRefresh
<1>8. UsedUp'
  BY <1>0, <1>2 DEF UsedUp
<1>9. Over'
  <2> SUFFICES ASSUME NEW s \in ended', NEW x \in AuthCalls, session[x] = s
               PROVE  ~Holds(x)' /\ step'[x] # "got"
    BY <1>0 DEF Over
  <2>1. CASE s \in ended
    BY <2>1, <1>2 DEF Over
  <2>2. CASE s \notin ended
    <3>1. /\ s = session[t] /\ t \in live /\ session[t] \notin raced
          /\ live' = live \ {t}
          /\ Refreshing(session[t], {"got", "issue"}) = {}
      BY <2>2 DEF Logout, decode_token, Revoked
    <3>2. step[x] # "got" /\ step[x] # "issue"
      BY <3>1 DEF Refreshing
    <3>3. Holds(x) => x = t
      BY <3>1 DEF OneHolder, Holds
    <3> QED
      BY <3>1, <3>2, <3>3, <1>0, <1>2 DEF Holds
  <2> QED
    BY <2>1, <2>2
<1> QED
  BY <1>1, <1>4, <1>5, <1>6, <1>7, <1>8, <1>9

LEMMA SessionsNextInv ==
  ASSUME SessionsInv, [SessionsNext]_sessionsVars
  PROVE  SessionsInv'
<1>1. CASE UNCHANGED sessionsVars
  BY <1>1 DEF sessionsVars, accountVars, tokenVars, SessionsInv, SessionsTypeOK, Started,
              OneHolder, OneRefresh, UsedUp, Over, Holds, Used, OneAccountPerEmail
<1>2. ASSUME NEW r \in AuthCalls, NEW e \in Emails, RegisterCheck(r, e) \/ Login(r, e)
      PROVE  SessionsInv'
  BY <1>2, RegisterCheckInv, LoginInv
<1>3. ASSUME NEW r \in AuthCalls, NEW t \in AuthCalls, RefreshGet(r, t) \/ Logout(r, t)
      PROVE  SessionsInv'
  BY <1>3, RefreshGetInv, LogoutInv
<1>4. ASSUME NEW r \in AuthCalls,
             RegisterStore(r) \/ RefreshDel(r) \/ Issue(r)
               \/ CallDies(r) \/ TokenExpire(r) \/ Deactivate(r)
      PROVE  SessionsInv'
  BY <1>4, RegisterStoreInv, RefreshDelInv, IssueInv, CallDiesInv, TokenExpireInv, DeactivateInv
<1> QED
  BY <1>1, <1>2, <1>3, <1>4 DEF SessionsNext

LEMMA SessionsInvariance == SessionsSpec => []SessionsInv
  BY SessionsInitInv, SessionsNextInv, PTL DEF SessionsSpec

-----------------------------------------------------------------------------
(* Calls, accounts, tokens and sessions stay well formed: a key in Redis or
   an expiry belongs to a token that was handed out.                       *)
THEOREM SessionsTypeCorrect == SessionsSpec => []SessionsTypeOK
<1>1. SessionsInv => SessionsTypeOK
  BY DEF SessionsInv
<1> QED
  BY <1>1, SessionsInvariance, PTL

(* register makes one account per address, however many requests race. *)
THEOREM OneAccountPerEmailHolds == SessionsSpec => []OneAccountPerEmail
<1>1. SessionsInv => OneAccountPerEmail
  BY DEF SessionsInv
<1> QED
  BY <1>1, SessionsInvariance, PTL

(* A refresh token buys one new token at most where no two refreshes of the
   session overlapped, whatever died, expired or logged out meanwhile.     *)
THEOREM SingleUseHolds == SessionsSpec => []SingleUse
<1>1. SessionsInv => SingleUse
  BY DEF SessionsInv, SessionsTypeOK, UsedUp, Used, SingleUse
<1> QED
  BY <1>1, SessionsInvariance, PTL

(* Such a session has one accepted refresh token at most at any time. *)
THEOREM OneTokenPerSessionHolds == SessionsSpec => []OneTokenPerSession
<1>1. SessionsInv => OneTokenPerSession
  BY DEF SessionsInv, SessionsTypeOK, OneHolder, Holds, OneTokenPerSession
<1> QED
  BY <1>1, SessionsInvariance, PTL

(* logout with the current token and no refresh under way is final. *)
THEOREM LogoutEndsSessionHolds == SessionsSpec => []LogoutEndsSession
<1>1. SessionsInv => LogoutEndsSession
  BY DEF SessionsInv, SessionsTypeOK, Over, Holds, LogoutEndsSession
<1> QED
  BY <1>1, SessionsInvariance, PTL

=============================================================================
