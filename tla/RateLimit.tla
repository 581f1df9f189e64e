------------------------------ MODULE RateLimit ------------------------------
(***************************************************************************)
(* RedisRateLimitMiddleware: a counter in Redis per client and minute.     *)
(* The clock is the window (minute) and the tick within it.  A request     *)
(* reads the clock before its INCR, so the INCR may come late, in a later  *)
(* window; the TTL of a key starts at the EXPIRE, whenever that is.        *)
(***************************************************************************)
EXTENDS Naturals, FiniteSets

CONSTANTS
    Hits,         \* requests
    Clients,      \* client addresses
    Limit,        \* limit_per_minute
    WindowTicks,  \* the length of a window, and of a key's TTL
    MaxWindow     \* bound on the clock

ASSUME LimiterAssumption ==
    /\ IsFiniteSet(Hits)
    /\ Limit \in Nat /\ WindowTicks \in Nat \ {0} /\ MaxWindow \in Nat

VARIABLES
    win, tick,  \* the clock
    stage,      \* where each request is
    client,     \* who sent it
    stamp,      \* the window in its key
    current,    \* what its INCR returned; 0 before
    late,       \* history: requests counted after their window
    counter,    \* the value of each client's key of each window; 0: no key
    ttl         \* the ticks that key has left; 0: no expiry

requestVars == <<stage, client, stamp, current, late>>
keyVars == <<counter, ttl>>
limiterVars == <<win, tick, requestVars, keyVars>>

Windows == 0..MaxWindow

LimiterTypeOK ==
    /\ win \in Windows /\ tick \in 0..(WindowTicks - 1)
    /\ stage \in [Hits -> {"idle", "stamped", "first", "admitted", "refused", "gone"}]
    /\ client \in [Hits -> Clients]
    /\ stamp \in [Hits -> Windows]
    /\ current \in [Hits -> Nat]
    /\ late \subseteq Hits
    /\ counter \in [Clients -> [Windows -> Nat]]
    /\ ttl \in [Clients -> [Windows -> 0..WindowTicks]]

LimiterInit ==
    /\ win = 0 /\ tick = 0
    /\ stage = [h \in Hits |-> "idle"]
    /\ client \in [Hits -> Clients]
    /\ stamp = [h \in Hits |-> 0]
    /\ current = [h \in Hits |-> 0]
    /\ late = {}
    /\ counter = [c \in Clients |-> [w \in Windows |-> 0]]
    /\ ttl = [c \in Clients |-> [w \in Windows |-> 0]]

(* Time passes; Redis drops the keys whose TTL is over. *)
Tick ==
    /\ \/ tick < WindowTicks - 1 /\ tick' = tick + 1 /\ win' = win
       \/ tick = WindowTicks - 1 /\ win < MaxWindow /\ tick' = 0 /\ win' = win + 1
    /\ counter' = [c \in Clients |-> [w \in Windows |->
                      IF ttl[c][w] = 1 THEN 0 ELSE counter[c][w]]]
    /\ ttl' = [c \in Clients |-> [w \in Windows |->
                      IF ttl[c][w] = 0 THEN 0 ELSE ttl[c][w] - 1]]
    /\ UNCHANGED requestVars

(* dispatch begins.  A path in _EXEMPT_PATHS goes straight to its handler;
   any other request computes its key.                                     *)
Exempt(h) ==
    /\ stage[h] = "idle"
    /\ stage' = [stage EXCEPT ![h] = "gone"]
    /\ UNCHANGED <<win, tick, client, stamp, current, late, keyVars>>

Stamp(h) ==
    /\ stage[h] = "idle"
    /\ stage' = [stage EXCEPT ![h] = "stamped"]
    /\ stamp' = [stamp EXCEPT ![h] = win]
    /\ UNCHANGED <<win, tick, client, current, late, keyVars>>

(* Mutant: the last request of the limit refused. *)
VerdictEarly(n) == IF n >= Limit THEN "refused" ELSE "admitted"

Verdict(n) == IF n > Limit THEN "refused" ELSE "admitted"

(* Mutant: the first request goes on without the EXPIRE. *)
AfterIncrOnly(n) == Verdict(n)

(* The first request of a key has an EXPIRE to do before its verdict. *)
AfterIncr(n) == IF n = 1 THEN "first" ELSE Verdict(n)

Incr(h) ==
    /\ stage[h] = "stamped"
    /\ LET n == counter[client[h]][stamp[h]] + 1
       IN  /\ counter' = [counter EXCEPT ![client[h]][stamp[h]] = n]
           /\ current' = [current EXCEPT ![h] = n]
           /\ stage' = [stage EXCEPT ![h] = AfterIncr(n)]
    /\ late' = IF win = stamp[h] THEN late ELSE late \cup {h}
    /\ UNCHANGED <<win, tick, client, stamp, ttl>>

(* Mutants: the TTL one tick longer or shorter than a window. *)
KeyTTLLong == WindowTicks + 1

KeyTTLShort == WindowTicks - 1

KeyTTL == WindowTicks

Expire(h) ==
    /\ stage[h] = "first"
    /\ ttl' = [ttl EXCEPT ![client[h]][stamp[h]] = KeyTTL]
    /\ stage' = [stage EXCEPT ![h] = Verdict(current[h])]
    /\ UNCHANGED <<win, tick, client, stamp, current, late, counter>>

(* The process dies or a Redis call fails. *)
HitDies(h) ==
    /\ stage[h] \in {"stamped", "first"}
    /\ stage' = [stage EXCEPT ![h] = "gone"]
    /\ UNCHANGED <<win, tick, client, stamp, current, late, keyVars>>

LimiterNext ==
    Tick \/ \E h \in Hits : Exempt(h) \/ Stamp(h) \/ Incr(h) \/ Expire(h) \/ HitDies(h)

LimiterSpec == LimiterInit /\ [][LimiterNext]_limiterVars

-----------------------------------------------------------------------------
(* The requests that were counted on the key of client c and window w. *)
Counted(c, w) == {h \in Hits : current[h] > 0 /\ client[h] = c /\ stamp[h] = w}

(* Of the requests counted within their window, at most Limit per client go
   on to their handler: the key never expires inside its window, although
   EXPIRE is a command of its own, sent once and at any later time.        *)
WindowLimit ==
    \A c \in Clients, w \in Windows :
       Cardinality({h \in Counted(c, w) \ late : stage[h] = "admitted"}) <= Limit

(* A client is only refused for its own requests of that window: Limit of
   them came before, however late or slow any of them is.                  *)
RefusedOnlyWhenFull ==
    \A h \in Hits : stage[h] = "refused" =>
       Cardinality({g \in Counted(client[h], stamp[h]) \ {h} : current[g] <= Limit}) >= Limit

(* A key without a TTL has its EXPIRE under way, or the request that owed
   it died: this is the only way a key can stay in Redis for good.         *)
KeysExpire ==
    \A c \in Clients, w \in Windows : counter[c][w] > 0 /\ ttl[c][w] = 0 =>
       \E h \in Counted(c, w) : current[h] = 1 /\ stage[h] \in {"first", "gone"}

=============================================================================
