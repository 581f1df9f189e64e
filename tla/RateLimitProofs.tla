--------------------------- MODULE RateLimitProofs ---------------------------
(***************************************************************************)
(* Proofs about RateLimit, for any limit, window length and number of      *)
(* requests, however late each of their commands arrives.                  *)
(***************************************************************************)
EXTENDS RateLimit, FiniteSetTheorems, TLAPS

(* Where a request is, what its INCR returned, and the clock agree. *)
Stages ==
    \A h \in Hits :
       /\ stage[h] \in {"idle", "stamped"} => current[h] = 0 /\ h \notin late
       /\ stage[h] \in {"first", "admitted", "refused"} => current[h] > 0
       /\ stage[h] = "first" => current[h] = 1
       /\ stage[h] = "admitted" => current[h] <= Limit
       /\ stage[h] = "refused" => current[h] > Limit
       /\ stage[h] = "stamped" \/ current[h] > 0 => stamp[h] <= win

(* A key outlives its window: what TTL it has reaches the window's end, and
   a window that is still to come has no key.                              *)
KeyOutlivesWindow ==
    \A c \in Clients, w \in Windows :
       /\ w = win => ttl[c][w] = 0 \/ ttl[c][w] + tick >= WindowTicks
       /\ w > win => ttl[c][w] = 0 /\ counter[c][w] = 0

(* While its window lasts, a key counts everybody who was counted on it; so
   the numbers that requests got within their window are all different.    *)
CountsKept ==
    \A h \in Hits :
       current[h] > 0 /\ h \notin late /\ stamp[h] = win
          => current[h] <= counter[client[h]][stamp[h]]

Different ==
    \A g, h \in Hits :
       /\ current[g] > 0 /\ g \notin late
       /\ current[h] > 0 /\ h \notin late
       /\ client[g] = client[h] /\ stamp[g] = stamp[h] /\ current[g] = current[h]
       => g = h

(* A number was given to somebody before a higher one was: by the key as it
   is now, and so by every request that was counted.                       *)
Somebody(c, w, n) == \E g \in Counted(c, w) : current[g] = n

NoneSkipped ==
    /\ \A c \in Clients, w \in Windows : \A n \in 1..counter[c][w] : Somebody(c, w, n)
    /\ \A h \in Hits : \A n \in 1..current[h] :
          Somebody(client[h], stamp[h], n)

LimiterInv ==
    /\ LimiterTypeOK /\ Stages /\ KeyOutlivesWindow /\ CountsKept /\ Different
    /\ NoneSkipped /\ KeysExpire

-----------------------------------------------------------------------------
LEMMA LimiterInitInv == LimiterInit => LimiterInv
<1> SUFFICES ASSUME LimiterInit PROVE LimiterInv
  OBVIOUS
<1> USE LimiterAssumption
<1>1. LimiterTypeOK /\ Stages /\ KeyOutlivesWindow
  BY DEF LimiterInit, LimiterTypeOK, Stages, KeyOutlivesWindow, Windows
<1>2. CountsKept /\ Different
  BY DEF LimiterInit, CountsKept, Different
<1>3. NoneSkipped /\ KeysExpire
  BY DEF LimiterInit, NoneSkipped, KeysExpire
<1> QED
  BY <1>1, <1>2, <1>3 DEF LimiterInv

(* Time passes: a key that is dropped is dropped after its window. *)
LEMMA TickInv ==
  ASSUME LimiterInv, Tick
  PROVE  LimiterInv'
<1> USE LimiterAssumption DEF LimiterInv
<1>1. LimiterTypeOK'
  <2>1. win' \in Windows /\ tick' \in 0..(WindowTicks - 1)
    BY DEF LimiterTypeOK, Tick, Windows
  <2>2. counter' \in [Clients -> [Windows -> Nat]]
    BY DEF LimiterTypeOK, Tick
  <2>3. ttl' \in [Clients -> [Windows -> 0..WindowTicks]]
    <3>1. ASSUME NEW c \in Clients, NEW w \in Windows
          PROVE  (IF ttl[c][w] = 0 THEN 0 ELSE ttl[c][w] - 1) \in 0..WindowTicks
      <4>1. ttl[c][w] \in 0..WindowTicks
        BY DEF LimiterTypeOK
      <4> QED
        BY <4>1
    <3> QED
      BY <3>1 DEF Tick
  <2> QED
    BY <2>1, <2>2, <2>3 DEF LimiterTypeOK, Tick, requestVars
<1>2. Stages'
  BY DEF LimiterTypeOK, Stages, Tick, requestVars, Windows
<1>3. KeyOutlivesWindow'
  BY DEF LimiterTypeOK, KeyOutlivesWindow, Tick, Windows
<1>4. CountsKept'
  <2> SUFFICES ASSUME NEW h \in Hits,
                      current[h] > 0, h \notin late, stamp[h] = win'
               PROVE  current[h] <= counter'[client[h]][stamp[h]]
    BY DEF CountsKept, Tick, requestVars
  <2>1. stamp[h] <= win /\ client[h] \in Clients /\ stamp[h] \in Windows
    BY DEF LimiterTypeOK, Stages
  <2>2. win' = win /\ tick < WindowTicks - 1
    BY <2>1 DEF Tick, LimiterTypeOK, Windows
  <2>3. ttl[client[h]][stamp[h]] # 1
    BY <2>1, <2>2 DEF KeyOutlivesWindow, LimiterTypeOK
  <2> QED
    BY <2>1, <2>2, <2>3 DEF CountsKept, Tick
<1>5. Different'
  BY DEF Different, Tick, requestVars
<1>6. NoneSkipped'
  <2>1. \A c \in Clients, w \in Windows : 1..counter'[c][w] \subseteq 1..counter[c][w]
    BY DEF LimiterTypeOK, Tick
  <2>2. \A c, w, n : Somebody(c, w, n)' <=> Somebody(c, w, n)
    BY DEF Somebody, Counted, Tick, requestVars
  <2> QED
    BY <2>1, <2>2 DEF NoneSkipped, Tick, requestVars
<1>7. KeysExpire'
  <2> SUFFICES ASSUME NEW c \in Clients, NEW w \in Windows,
                      counter'[c][w] > 0, ttl'[c][w] = 0
               PROVE  \E h \in Counted(c, w) : current[h] = 1 /\ stage[h] \in {"first", "gone"}
    BY DEF KeysExpire, Counted, Tick, requestVars
  <2>1. counter[c][w] > 0 /\ ttl[c][w] = 0
    BY DEF LimiterTypeOK, Tick
  <2> QED
    BY <2>1 DEF KeysExpire
<1> QED
  BY <1>1, <1>2, <1>3, <1>4, <1>5, <1>6, <1>7

(* INCR: the next number, which nobody else got within this window. *)
LEMMA IncrInv ==
  ASSUME LimiterInv, NEW h \in Hits, Incr(h)
  PROVE  LimiterInv'
<1> USE LimiterAssumption DEF LimiterInv
<1>k. PICK c0 \in Clients, w0 \in Windows, n0 \in Nat :
         c0 = client[h] /\ w0 = stamp[h] /\ n0 = counter[c0][w0] + 1
  BY DEF LimiterTypeOK
<1>0. n0 > 0 /\ current[h] = 0 /\ w0 <= win
  BY <1>k DEF LimiterTypeOK, Stages, Incr, AfterIncr
<1>a. /\ current' = [current EXCEPT ![h] = n0]
      /\ counter' = [counter EXCEPT ![c0][w0] = n0]
      /\ stage' = [stage EXCEPT ![h] = IF n0 = 1 THEN "first" ELSE Verdict(n0)]
      /\ late' = IF win = w0 THEN late ELSE late \cup {h}
      /\ UNCHANGED <<win, tick, client, stamp, ttl>>
  BY <1>k DEF Incr, AfterIncr
<1>b. current'[h] = n0 /\ \A g \in Hits : g # h => current'[g] = current[g] /\ stage'[g] = stage[g]
  BY <1>a DEF LimiterTypeOK
<1>c. counter'[c0][w0] = n0
      /\ \A c \in Clients, w \in Windows : c # c0 \/ w # w0 => counter'[c][w] = counter[c][w]
  BY <1>0, <1>a DEF LimiterTypeOK
<1>1. LimiterTypeOK'
  <2>1. stage' \in [Hits -> {"idle", "stamped", "first", "admitted", "refused", "gone"}]
    BY <1>a DEF LimiterTypeOK, Verdict
  <2>2. current' \in [Hits -> Nat] /\ late' \subseteq Hits
    BY <1>0, <1>a DEF LimiterTypeOK
  <2>3. counter' \in [Clients -> [Windows -> Nat]]
    BY <1>0, <1>a DEF LimiterTypeOK
  <2> QED
    BY <2>1, <2>2, <2>3, <1>a DEF LimiterTypeOK
<1>2. Stages'
  <2> SUFFICES ASSUME NEW g \in Hits
               PROVE  /\ stage'[g] \in {"idle", "stamped"} => current'[g] = 0 /\ g \notin late'
                      /\ stage'[g] \in {"first", "admitted", "refused"} => current'[g] > 0
                      /\ stage'[g] = "first" => current'[g] = 1
                      /\ stage'[g] = "admitted" => current'[g] <= Limit
                      /\ stage'[g] = "refused" => current'[g] > Limit
                      /\ stage'[g] = "stamped" \/ current'[g] > 0 => stamp'[g] <= win'
    BY DEF Stages
  <2>1. CASE g # h
    BY <2>1, <1>a, <1>b DEF Stages
  <2>2. CASE g = h
    <3>1. stage'[g] = IF n0 = 1 THEN "first" ELSE Verdict(n0)
      BY <2>2, <1>a DEF LimiterTypeOK
    <3> QED
      BY <2>2, <3>1, <1>k, <1>0, <1>a, <1>b DEF Verdict, LimiterTypeOK
  <2> QED
    BY <2>1, <2>2
<1>3. KeyOutlivesWindow'
  <2> SUFFICES ASSUME NEW c \in Clients, NEW w \in Windows, w > win
               PROVE  counter'[c][w] = 0
    BY <1>a DEF KeyOutlivesWindow
  <2>1. w # w0
    BY <1>0 DEF LimiterTypeOK, Windows
  <2> QED
    BY <2>1, <1>c DEF KeyOutlivesWindow
<1>4. CountsKept'
  <2> SUFFICES ASSUME NEW g \in Hits,
                      current'[g] > 0, g \notin late', stamp[g] = win
               PROVE  current'[g] <= counter'[client[g]][stamp[g]]
    BY <1>a DEF CountsKept
  <2>1. CASE g = h
    BY <2>1, <1>k, <1>b, <1>c
  <2>2. CASE g # h
    <3>1. current'[g] <= counter[client[g]][stamp[g]]
      BY <2>2, <1>a, <1>b DEF CountsKept
    <3>2. client[g] \in Clients /\ stamp[g] \in Windows
      BY DEF LimiterTypeOK
    <3>3. CASE client[g] = c0 /\ stamp[g] = w0
      <4>1. counter[c0][w0] \in Nat /\ current[g] \in Nat /\ counter'[c0][w0] = counter[c0][w0] + 1
        BY <1>k, <1>c DEF LimiterTypeOK
      <4> QED
        BY <3>1, <3>3, <4>1, <2>2, <1>b
    <3>4. CASE client[g] # c0 \/ stamp[g] # w0
      BY <3>1, <3>2, <3>4, <1>c
    <3> QED
      BY <3>3, <3>4
  <2> QED
    BY <2>1, <2>2
<1>5. Different'
  <2>1. ASSUME NEW g \in Hits, g # h, current[g] > 0, g \notin late', h \notin late',
               client[g] = c0, stamp[g] = w0
        PROVE  current[g] # n0
    <3>1. win = w0 /\ g \notin late
      BY <2>1, <1>a
    <3>2. current[g] <= counter[c0][w0]
      BY <2>1, <3>1 DEF CountsKept
    <3>3. current[g] \in Nat /\ counter[c0][w0] \in Nat
      BY <1>0 DEF LimiterTypeOK
    <3> QED
      BY <3>2, <3>3, <1>k
  <2> SUFFICES ASSUME NEW f \in Hits, NEW g \in Hits,
                      current'[f] > 0, f \notin late', current'[g] > 0, g \notin late',
                      client[f] = client[g], stamp[f] = stamp[g], current'[f] = current'[g]
               PROVE  f = g
    BY <1>a DEF Different
  <2>2. CASE f # h /\ g # h
    BY <2>2, <1>a, <1>b DEF Different
  <2>3. CASE f = h /\ g # h
    BY <2>1, <2>3, <1>k, <1>b
  <2>4. CASE f # h /\ g = h
    BY <2>1, <2>4, <1>k, <1>b
  <2> QED
    BY <2>2, <2>3, <2>4
<1>6. NoneSkipped'
  <2>1. \A c \in Clients, w \in Windows, n \in Nat : Somebody(c, w, n) => Somebody(c, w, n)'
    <3> SUFFICES ASSUME NEW c \in Clients, NEW w \in Windows, NEW n \in Nat,
                        NEW g \in Counted(c, w), current[g] = n
                 PROVE  Somebody(c, w, n)'
      BY DEF Somebody
    <3>1. g \in Hits /\ g # h
      BY <1>0 DEF Counted
    <3> QED
      BY <3>1, <1>a, <1>b DEF Somebody, Counted
  <2>2. Somebody(c0, w0, n0)'
    BY <1>k, <1>0, <1>a, <1>b DEF Somebody, Counted
  <2>3. \A n \in 1..n0 : Somebody(c0, w0, n)'
    <3> SUFFICES ASSUME NEW n \in 1..n0, n # n0 PROVE Somebody(c0, w0, n)'
      BY <2>2
    <3>1. n \in 1..counter[c0][w0] /\ n \in Nat
      BY <1>k DEF LimiterTypeOK
    <3> QED
      BY <3>1, <2>1 DEF NoneSkipped
  <2>4. ASSUME NEW c \in Clients, NEW w \in Windows, NEW n \in 1..counter'[c][w]
        PROVE  Somebody(c, w, n)'
    <3>1. CASE c = c0 /\ w = w0
      BY <2>3, <3>1, <1>c
    <3>2. CASE c # c0 \/ w # w0
      BY <2>1, <3>2, <1>c DEF NoneSkipped, LimiterTypeOK
    <3> QED
      BY <3>1, <3>2
  <2>5. ASSUME NEW g \in Hits, NEW n \in 1..current'[g]
        PROVE  Somebody(client[g], stamp[g], n)'
    <3>1. CASE g = h
      BY <2>3, <3>1, <1>a, <1>b, <1>k
    <3>2. CASE g # h
      <4>1. PICK c1 \in Clients, w1 \in Windows : c1 = client[g] /\ w1 = stamp[g]
        BY DEF LimiterTypeOK
      <4>2. Somebody(c1, w1, n)
        BY <3>2, <4>1, <1>b DEF NoneSkipped
      <4>3. n \in Nat
        BY <3>2, <1>b DEF LimiterTypeOK
      <4>4. Somebody(c1, w1, n)'
        BY <2>1, <4>2, <4>3
      <4> QED
        BY <4>1, <4>4, <1>a
    <3> QED
      BY <3>1, <3>2
  <2> QED
    BY <2>4, <2>5, <1>a DEF NoneSkipped
<1>7. KeysExpire'
  <2> SUFFICES ASSUME NEW c \in Clients, NEW w \in Windows,
                      counter'[c][w] > 0, ttl[c][w] = 0
               PROVE  \E g \in Counted(c, w)' : current'[g] = 1 /\ stage'[g] \in {"first", "gone"}
    BY <1>a DEF KeysExpire
  <2>1. CASE c = c0 /\ w = w0 /\ n0 = 1
    <3>1. h \in Counted(c, w)'
      BY <2>1, <1>k, <1>0, <1>a, <1>b DEF Counted
    <3>2. stage'[h] = "first"
      BY <2>1, <1>a DEF LimiterTypeOK
    <3> QED
      BY <2>1, <3>1, <3>2, <1>b
  <2>2. CASE ~(c = c0 /\ w = w0 /\ n0 = 1)
    <3>1. counter[c][w] > 0
      BY <2>2, <1>k, <1>c DEF LimiterTypeOK
    <3>2. PICK g \in Counted(c, w) : current[g] = 1 /\ stage[g] \in {"first", "gone"}
      BY <3>1 DEF KeysExpire
    <3>3. g \in Hits /\ g # h
      BY <3>2, <1>0 DEF Counted
    <3>4. g \in Counted(c, w)'
      BY <3>3, <1>a, <1>b DEF Counted
    <3> QED
      BY <3>2, <3>3, <3>4, <1>b
  <2> QED
    BY <2>1, <2>2
<1> QED
  BY <1>1, <1>2, <1>3, <1>4, <1>5, <1>6, <1>7

(* EXPIRE: the TTL starts within the window or after it, never before. *)
LEMMA ExpireInv ==
  ASSUME LimiterInv, NEW h \in Hits, Expire(h)
  PROVE  LimiterInv'
<1> USE LimiterAssumption DEF LimiterInv
<1>0. client[h] \in Clients /\ stamp[h] \in Windows /\ stamp[h] <= win /\ current[h] = 1
  BY DEF LimiterTypeOK, Stages, Expire, KeyTTL
<1>1. LimiterTypeOK'
  <2>1. ttl' \in [Clients -> [Windows -> 0..WindowTicks]]
    BY <1>0 DEF LimiterTypeOK, Expire, KeyTTL
  <2> QED
    BY <2>1 DEF LimiterTypeOK, Expire, KeyTTL, Verdict
<1>2. Stages'
  BY <1>0 DEF LimiterTypeOK, Stages, Expire, KeyTTL, Verdict
<1>3. KeyOutlivesWindow'
  <2> SUFFICES ASSUME NEW c \in Clients, NEW w \in Windows
               PROVE  /\ w = win => ttl'[c][w] = 0 \/ ttl'[c][w] + tick >= WindowTicks
                      /\ w > win => ttl'[c][w] = 0 /\ counter[c][w] = 0
    BY DEF KeyOutlivesWindow, Expire, KeyTTL
  <2>1. CASE c = client[h] /\ w = stamp[h]
    <3>1. ttl'[c][w] = WindowTicks
      BY <2>1, <1>0 DEF LimiterTypeOK, Expire, KeyTTL
    <3> QED
      BY <2>1, <3>1, <1>0 DEF LimiterTypeOK, Windows
  <2>2. CASE c # client[h] \/ w # stamp[h]
    <3>1. ttl'[c][w] = ttl[c][w]
      BY <2>2, <1>0 DEF LimiterTypeOK, Expire, KeyTTL
    <3> QED
      BY <3>1 DEF KeyOutlivesWindow
  <2> QED
    BY <2>1, <2>2
<1>4. CountsKept' /\ Different'
  BY DEF CountsKept, Different, Expire, KeyTTL
<1>5. NoneSkipped'
  BY DEF NoneSkipped, Somebody, Counted, Expire, KeyTTL
<1>6. KeysExpire'
  <2> SUFFICES ASSUME NEW c \in Clients, NEW w \in Windows,
                      counter[c][w] > 0, ttl'[c][w] = 0
               PROVE  \E g \in Counted(c, w) : current[g] = 1 /\ stage'[g] \in {"first", "gone"}
    BY DEF KeysExpire, Counted, Expire, KeyTTL
  <2>1. c # client[h] \/ w # stamp[h]
    BY <1>0 DEF LimiterTypeOK, Expire, KeyTTL
  <2>2. ttl[c][w] = 0
    BY <2>1, <1>0 DEF LimiterTypeOK, Expire, KeyTTL
  <2>3. PICK g \in Counted(c, w) : current[g] = 1 /\ stage[g] \in {"first", "gone"}
    BY <2>2 DEF KeysExpire
  <2>4. g # h
    BY <2>1, <2>3 DEF Counted
  <2> QED
    BY <2>3, <2>4 DEF Expire, KeyTTL, LimiterTypeOK, Counted
<1> QED
  BY <1>1, <1>2, <1>3, <1>4, <1>5, <1>6

(* The steps that only move a request on. *)
LEMMA OtherInv ==
  ASSUME LimiterInv, NEW h \in Hits, Exempt(h) \/ Stamp(h) \/ HitDies(h)
  PROVE  LimiterInv'
<1> USE LimiterAssumption DEF LimiterInv
<1>0. /\ UNCHANGED <<win, tick, client, current, late, counter, ttl>>
      /\ stamp' = stamp \/ stamp' = [stamp EXCEPT ![h] = win]
      /\ \E s \in {"stamped", "gone"} : stage' = [stage EXCEPT ![h] = s]
  BY DEF Exempt, Stamp, HitDies, keyVars
<1>a. current[h] > 0 => UNCHANGED stamp /\ stage[h] = "first" /\ stage'[h] = "gone"
  BY DEF Exempt, Stamp, HitDies, Stages, LimiterTypeOK
<1>b. \A g \in Hits : current[g] > 0 => stamp'[g] = stamp[g]
  BY <1>0, <1>a DEF LimiterTypeOK
<1>1. LimiterTypeOK'
  <2>1. stamp' \in [Hits -> Windows]
    BY <1>0 DEF LimiterTypeOK
  <2>2. stage' \in [Hits -> {"idle", "stamped", "first", "admitted", "refused", "gone"}]
    BY <1>0 DEF LimiterTypeOK
  <2> QED
    BY <1>0, <2>1, <2>2 DEF LimiterTypeOK
<1>2. Stages'
  <2>1. CASE Exempt(h)
    BY <2>1 DEF LimiterTypeOK, Stages, Exempt
  <2>2. CASE Stamp(h)
    BY <2>2 DEF LimiterTypeOK, Stages, Stamp, Windows
  <2>3. CASE HitDies(h)
    BY <2>3 DEF LimiterTypeOK, Stages, HitDies
  <2> QED
    BY <2>1, <2>2, <2>3
<1>3. KeyOutlivesWindow'
  BY <1>0 DEF KeyOutlivesWindow
<1>4. CountsKept'
  BY <1>0, <1>b DEF CountsKept
<1>5. Different'
  BY <1>0, <1>b DEF Different
<1>c. \A c, w : Counted(c, w)' = Counted(c, w)
  BY <1>0, <1>b DEF Counted
<1>6. NoneSkipped'
  <2>1. \A c, w, n : Somebody(c, w, n)' <=> Somebody(c, w, n)
    BY <1>0, <1>c DEF Somebody
  <2>2. ASSUME NEW g \in Hits, NEW n \in 1..current[g]
        PROVE  Somebody(client[g], stamp'[g], n)
    <3>1. current[g] > 0
      BY DEF LimiterTypeOK
    <3> QED
      BY <3>1, <1>b DEF NoneSkipped
  <2> QED
    BY <2>1, <2>2, <1>0 DEF NoneSkipped
<1>7. KeysExpire'
  <2>1. \A g \in Hits : current[g] = 1 /\ stage[g] \in {"first", "gone"}
                           => stage'[g] \in {"first", "gone"}
    BY <1>0, <1>a DEF LimiterTypeOK
  <2> QED
    BY <2>1, <1>0, <1>c DEF KeysExpire, Counted
<1> QED
  BY <1>1, <1>2, <1>3, <1>4, <1>5, <1>6, <1>7

LEMMA LimiterNextInv == LimiterInv /\ [LimiterNext]_limiterVars => LimiterInv'
<1> SUFFICES ASSUME LimiterInv, [LimiterNext]_limiterVars PROVE LimiterInv'
  OBVIOUS
<1>1. CASE UNCHANGED limiterVars
  BY <1>1 DEF LimiterInv, limiterVars, requestVars, keyVars, LimiterTypeOK, Stages,
     KeyOutlivesWindow, CountsKept, Different, NoneSkipped, Somebody, Counted, KeysExpire
<1>2. CASE Tick
  BY <1>2, TickInv
<1>3. ASSUME NEW h \in Hits, Exempt(h) \/ Stamp(h) \/ HitDies(h) PROVE LimiterInv'
  BY <1>3, OtherInv
<1>4. ASSUME NEW h \in Hits, Incr(h) PROVE LimiterInv'
  BY <1>4, IncrInv
<1>5. ASSUME NEW h \in Hits, Expire(h) PROVE LimiterInv'
  BY <1>5, ExpireInv
<1> QED
  BY <1>1, <1>2, <1>3, <1>4, <1>5 DEF LimiterNext

-----------------------------------------------------------------------------
(* Different numbers between 1 and Limit: at most Limit requests. *)
LEMMA DifferentBound == LimiterInv => WindowLimit
<1> SUFFICES ASSUME LimiterInv, NEW c \in Clients, NEW w \in Windows
             PROVE  Cardinality({h \in Counted(c, w) \ late : stage[h] = "admitted"}) <= Limit
  BY DEF WindowLimit
<1> USE LimiterAssumption
<1> DEFINE S == {h \in Counted(c, w) \ late : stage[h] = "admitted"}
           f == [h \in S |-> current[h]]
<1>1. f \in Injection(S, 1..Limit)
  <2>1. \A h \in S : h \in Hits /\ current[h] \in 1..Limit
    BY DEF Counted, LimiterInv, LimiterTypeOK, Stages
  <2>2. \A g, h \in S : f[g] = f[h] => g = h
    BY DEF Counted, LimiterInv, Different
  <2> QED
    BY <2>1, <2>2 DEF Injection, IsInjective
<1>2. IsFiniteSet(1..Limit) /\ Cardinality(1..Limit) = Limit
  <2>1. Limit \in Int /\ 1 \in Int
    OBVIOUS
  <2> QED
    BY <2>1, FS_Interval
<1> HIDE DEF f, S
<1>3. Cardinality(S) <= Cardinality(1..Limit)
  BY <1>1, <1>2, FS_Injection
<1> QED
  BY <1>2, <1>3 DEF S

(* Every number from 1 to Limit was given before a higher one. *)
LEMMA SkippedBound == LimiterInv => RefusedOnlyWhenFull
<1> SUFFICES ASSUME LimiterInv, NEW h \in Hits, stage[h] = "refused"
             PROVE  Cardinality({g \in Counted(client[h], stamp[h]) \ {h} :
                                   current[g] <= Limit}) >= Limit
  BY DEF RefusedOnlyWhenFull
<1> USE LimiterAssumption
<1> DEFINE S == {g \in Counted(client[h], stamp[h]) \ {h} : current[g] <= Limit}
           f == [n \in 1..Limit |-> CHOOSE g \in S : current[g] = n]
<1>1. current[h] > Limit /\ current[h] \in Nat
  BY DEF LimiterInv, Stages, LimiterTypeOK
<1>2. \A n \in 1..Limit : \E g \in S : current[g] = n
  BY <1>1 DEF LimiterInv, NoneSkipped, Somebody
<1>3. \A n \in 1..Limit : f[n] \in S /\ current[f[n]] = n
  BY <1>2
<1>4. IsFiniteSet(S)
  <2>1. S \in SUBSET Hits
    BY DEF Counted
  <2> QED
    BY <2>1, FS_Subset
<1>5. f \in [1..Limit -> S]
  BY <1>3
<1> HIDE DEF f, S
<1>6. f \in Injection(1..Limit, S)
  BY <1>3, <1>5 DEF Injection, IsInjective
<1>7. Cardinality(1..Limit) <= Cardinality(S)
  BY <1>4, <1>6, FS_Injection
<1>8. Cardinality(1..Limit) = Limit
  <2>1. Limit \in Int /\ 1 \in Int
    OBVIOUS
  <2> QED
    BY <2>1, FS_Interval
<1>9. Cardinality(S) \in Nat
  BY <1>4, FS_CardinalityType
<1> QED
  BY <1>7, <1>8, <1>9 DEF S

LEMMA LimiterInvariance == LimiterSpec => []LimiterInv
<1> QED
  BY LimiterInitInv, LimiterNextInv, PTL DEF LimiterSpec

(* The types of the limiter's state. *)
THEOREM LimiterTypeCorrect == LimiterSpec => []LimiterTypeOK
<1>1. LimiterInv => LimiterTypeOK
  BY DEF LimiterInv
<1> QED
  BY <1>1, LimiterInvariance, PTL

(* dispatch lets at most Limit of the requests that a client's key counted
   within a window reach their handlers, for any window length and delay.  *)
THEOREM WindowLimitHolds == LimiterSpec => []WindowLimit
  BY LimiterInvariance, DifferentBound, PTL

(* dispatch answers 429 only to a client that has used up its own window. *)
THEOREM RefusedOnlyWhenFullHolds == LimiterSpec => []RefusedOnlyWhenFull
  BY LimiterInvariance, SkippedBound, PTL

(* A key in Redis without a TTL is owed one, or its first request died. *)
THEOREM KeysExpireHolds == LimiterSpec => []KeysExpire
<1>1. LimiterInv => KeysExpire
  BY DEF LimiterInv
<1> QED
  BY <1>1, LimiterInvariance, PTL

=============================================================================
