---------------------------- MODULE BookingProofs ----------------------------
(***************************************************************************)
(* Proofs about Booking, for any number of orders, keys, requests, workers *)
(* and reapers, any capacity, with or without failures.                    *)
(***************************************************************************)
EXTENDS Booking, FiniteSetTheorems, TLAPS

-----------------------------------------------------------------------------
(* The inductive invariant.  Each part says what a process that is under way
   may count on when it resumes.                                           *)

(* Every row and every step of a process comes after the reservation. *)
Causality ==
    /\ \A o \in Orders :
         /\ book[o] \in {"idle", "looked"} => resv[o] = None
         /\ book[o] \in {"idle", "looked", "reserved"} => order[o] = None
         /\ book[o] \in {"reserved", "stored"} => resv[o] # None
         /\ order[o] # None => resv[o] # None
    /\ \A p \in Callers : job[p] # None => order[job[p].order] # None
    /\ \A w \in Reapers : \A o \in batch[w] : resv[o] # None

(* A caller has a job unless it is idle; a cancel request cancels, and a
   handler handles a message.                                              *)
AtWork ==
    /\ \A p \in Callers : job[p] = None <=> pc[p] = "idle"
    /\ \A p \in Callers : job[p] # None => (job[p].msg = "cancel" <=> p \in Cancels)

(* Two messages of one order are in one partition if both are expiries or
   neither is.                                                             *)
SameQueue(m, n) == m = "expired" <=> n = "expired"

(* The topic keeps the message that a handler has until its offset is passed,
   only one owner of the partition has it, and the payment worker has the
   charge it is about to publish.                                          *)
Owner(h) == job[h] # None /\ job[h].mode = "live"

Queued(o, msg) == IF msg = "expired" THEN expiries[o] > 0 ELSE payments[o] # <<>>

InHand ==
    /\ \A o \in Orders : charge[o] = "charged" => charged[o] # <<>>
    /\ \A h \in Handlers : Owner(h) => Queued(job[h].order, job[h].msg)
    /\ \A g, h \in Handlers :
          Owner(g) /\ Owner(h) /\ job[g].order = job[h].order
          /\ SameQueue(job[g].msg, job[h].msg) => g = h

(* Whoever is about to store CANCELLED or EXPIRED, or to report an expiry,
   has a reservation that was freed.                                       *)
WasFreed(o) == o \in Freed \cup twice

FreedFirst ==
    /\ \A p \in Callers :
          pc[p] = "answered" /\ job[p].msg # "paid" => WasFreed(job[p].order)
    /\ \A o \in Orders : expiries[o] > 0 => WasFreed(o)
    /\ \A w \in Reapers : pc[w] = "publish" => \A o \in batch[w] : WasFreed(o)

(* A message that reports a success reports a charge that was made. *)
ReportsAreTrue ==
    /\ \A o \in Orders : \A i \in 1..Len(payments[o]) : payments[o][i] => Paid(o)
    /\ \A p \in Callers : job[p] # None /\ job[p].msg = "paid" => Paid(job[p].order)

IndInv ==
    /\ TypeOK
    /\ Causality
    /\ AtWork
    /\ InHand
    /\ FreedFirst
    /\ ReportsAreTrue
    /\ OneOrderPerKey
    /\ SettledOrderHoldsNoSeat
    /\ SoldIsPaid
    /\ SeatsAddUp
    /\ taken <= Capacity


-----------------------------------------------------------------------------
(* Facts about the data. *)

(* A missing row is told from a row by its status. *)
LEMMA NoneIsNoStatus ==
  None \notin {"pending", "confirmed", "cancelled", "released", "expired"}
  BY NoneAssumption DEF OrderStatuses, ReservationStatuses

(* No process settles in two roles. *)
LEMMA Roles ==
  /\ \A x \in Cancels : x \in Callers /\ x \in Settlers /\ x \notin Handlers /\ x \notin Reapers
  /\ \A h \in Handlers : h \in Callers /\ h \in Settlers /\ h \notin Cancels /\ h \notin Reapers
  /\ \A w \in Reapers : w \in Settlers /\ w \notin Callers
  /\ \A p \in Callers : p \in Settlers /\ p \notin Reapers /\ (p \in Cancels \/ p \in Handlers)
  BY SettlersAssumption DEF Callers, Settlers

(* What a job is. *)
LEMMA JobFacts ==
  ASSUME NEW j \in Jobs
  PROVE  /\ j # None
         /\ j.order \in Orders
         /\ j.msg \in {"paid", "declined", "cancel", "expired"}
         /\ j.mode \in {"live", "revoked", "left"}
         /\ j = [order |-> j.order, msg |-> j.msg, mode |-> j.mode]
         /\ \A m \in {"live", "revoked", "left"} :
               /\ [j EXCEPT !.mode = m] = [order |-> j.order, msg |-> j.msg, mode |-> m]
               /\ [j EXCEPT !.mode = m] \in Jobs
<1>1. j # None
  BY NoneAssumption
<1> QED
  BY <1>1 DEF Jobs, Payments

(* A new job. *)
LEMMA NewJob ==
  ASSUME NEW o \in Orders, NEW msg \in {"paid", "declined", "cancel", "expired"},
         NEW mode \in {"live", "revoked", "left"}
  PROVE  /\ [order |-> o, msg |-> msg, mode |-> mode] \in Jobs
         /\ [order |-> o, msg |-> msg, mode |-> mode] # None
<1>1. [order |-> o, msg |-> msg, mode |-> mode] \in Jobs
  BY DEF Jobs, Payments
<1> QED
  BY <1>1, NoneAssumption

(* The messages that Unowned looks at. *)
LEMMA KindFacts ==
  ASSUME NEW m \in {"paid", "declined", "expired"}, NEW n \in {"paid", "declined", "expired"}
  PROVE  m \in Kind(n) <=> SameQueue(m, n)
  BY DEF Kind, SameQueue, Payments

(* The places of the sessions after a commit. *)
LEMMA OutdatedFacts ==
  ASSUME TypeOK
  PROVE  /\ Outdated \in [Settlers -> {"idle", "call", "row", "write", "stale", "answered",
                                       "stored", "publish"}]
         /\ \A p \in Settlers : /\ Outdated[p] \in {pc[p], "stale"}
                                /\ Outdated[p] = "stale" => pc[p] \in {"write", "stale"}
                                /\ Outdated[p] = "idle" <=> pc[p] = "idle"
                                /\ Outdated[p] = "answered" <=> pc[p] = "answered"
                                /\ Outdated[p] = "publish" <=> pc[p] = "publish"
  BY DEF TypeOK, Outdated

(* The head and the tail of a queue that is not empty. *)
LEMMA TailFacts ==
  ASSUME NEW s \in Seq(BOOLEAN), s # <<>>
  PROVE  /\ Tail(s) \in Seq(BOOLEAN)
         /\ Len(Tail(s)) = Len(s) - 1
         /\ \A i \in 1..Len(Tail(s)) : Tail(s)[i] = s[i + 1] /\ i + 1 \in 1..Len(s)
         /\ Head(s) = s[1] /\ 1 \in 1..Len(s)
  OBVIOUS

(* A message appended to a queue. *)
LEMMA AppendFacts ==
  ASSUME NEW s \in Seq(BOOLEAN), NEW b \in BOOLEAN
  PROVE  /\ Append(s, b) \in Seq(BOOLEAN)
         /\ Append(s, b) # <<>>
         /\ Len(Append(s, b)) = Len(s) + 1
         /\ \A i \in 1..Len(s) : Append(s, b)[i] = s[i]
         /\ Append(s, b)[Len(s) + 1] = b
  OBVIOUS

(* The last outcome on record. *)
LEMMA LastFacts ==
  ASSUME NEW s \in Seq(BOOLEAN), s # <<>>
  PROVE  Len(s) \in 1..Len(s) /\ s[Len(s)] \in BOOLEAN
  OBVIOUS

-----------------------------------------------------------------------------
(* What a step of any process may do to each part of the state. *)

(* The reservations and the counters: nothing, a seat reserved, a call's
   commit, or a sweep's.                                                   *)
TablesMove ==
    \/ UNCHANGED tables
    \/ \E o \in Orders :
         /\ book[o] = "looked" /\ book'[o] # "looked" /\ taken < Capacity
         /\ resv' = [resv EXCEPT ![o] = "pending"]
         /\ taken' = taken + 1 /\ UNCHANGED twice
    \/ \E p \in Callers :
         /\ job[p] # None /\ book' = book
         /\ resv' = [resv EXCEPT ![job[p].order] = SettledAs(job[p].msg)]
         /\ taken' = taken - SeatBack(job[p].msg)
         /\ twice' = twice \cup (Freed \cap {job[p].order})
    \/ \E w \in Reapers :
         /\ book' = book
         /\ resv' = [o \in Orders |-> IF o \in batch[w] THEN "expired" ELSE resv[o]]
         /\ taken' = taken - Cardinality(batch[w])
         /\ twice' = twice \cup (Freed \cap batch[w])

(* The orders: nothing, an INSERT, or the status that a caller stores. *)
OrderMove ==
    \/ UNCHANGED order
    \/ \E o \in Orders :
         /\ book[o] = "reserved" /\ book'[o] = "stored" /\ ~KeyTaken(o) /\ UNCHANGED key
         /\ order' = [order EXCEPT ![o] = "pending"]
    \/ \E p \in Callers, s \in {"confirmed", "cancelled", "expired"} :
         /\ pc[p] = "answered" /\ book' = book /\ UNCHANGED key
         /\ order' = [order EXCEPT ![job[p].order] = s]
         /\ s = "confirmed" <=> job[p].msg = "paid"

(* The bookings: nothing, a lookup, or a request that goes on. *)
BookMove ==
    \/ UNCHANGED bookVars
    \/ \E o \in Orders, next \in {"looked", "done"}, k \in Keys :
         /\ book[o] = "idle" /\ UNCHANGED <<order, tables>>
         /\ book' = [book EXCEPT ![o] = next] /\ key' = [key EXCEPT ![o] = k]
    \/ \E o \in Orders, next \in {"reserved", "stored", "done"} :
         /\ book[o] \notin {"idle", "done"} /\ UNCHANGED key
         /\ book' = [book EXCEPT ![o] = next]
         /\ next = "reserved" => book[o] = "looked" /\ resv'[o] = "pending"
         /\ next = "stored" => book[o] = "reserved" /\ order'[o] = "pending"

(* A caller: it rests, it goes on with its job, or it begins one. *)
Started(p) ==
    /\ pc[p] = "idle" /\ job'[p] \in Jobs /\ job'[p].mode = "live"
    /\ order[job'[p].order] # None
    /\ job'[p].msg = "cancel" <=> p \in Cancels
    /\ \/ pc'[p] = "call" /\ job'[p].msg # "expired"
       \/ pc'[p] = "answered" /\ job'[p].msg = "expired"
    /\ p \in Handlers => /\ Unowned(job'[p].order, job'[p].msg)
                         /\ Queued(job'[p].order, job'[p].msg)
                         /\ job' = [job EXCEPT ![p] = job'[p]] /\ UNCHANGED queues
                         /\ job'[p].msg = "paid" => Head(payments[job'[p].order])

WentOn(p) ==
    /\ job[p] # None /\ job'[p] \in Jobs /\ pc'[p] # "idle"
    /\ job'[p].order = job[p].order /\ job'[p].msg = job[p].msg
    /\ job'[p].mode = "live" => job[p].mode = "live"
    /\ \/ pc'[p] # "answered"
       \/ pc[p] = "answered"
       \/ job[p].msg = "paid"
       \/ job[p].order \in Freed'

CallerMove(p) ==
    \/ job'[p] = job[p] /\ pc'[p] = pc[p]
    \/ job'[p] = None /\ pc'[p] = "idle"
    \/ WentOn(p)
    \/ Started(p)

(* The steps of Next, by process. *)
LEMMA StepCases ==
  ASSUME [Next]_vars
  PROVE  \/ UNCHANGED vars
         \/ \E o \in Orders :
              \/ BookLookup(o) \/ BookReserve(o) \/ BookStore(o) \/ BookPublish(o) \/ BookFail(o)
              \/ Charge(o) \/ ChargePublish(o) \/ ChargeFail(o) \/ Notify(o) \/ NotifyFail(o)
         \/ \E x \in Cancels :
              \/ \E o \in Orders : CancelCheck(x, o)
              \/ CancelStale(x) \/ CancelStore(x) \/ CancelPublish(x) \/ CancelFail(x)
         \/ \E p \in Callers : SettleRead(p) \/ SettleCommit(p)
         \/ \E p \in Settlers : LoadRow(p)
         \/ \E h \in Handlers :
              \/ \E o \in Orders : PaymentRead(h, o) \/ ExpiredRead(h, o)
              \/ HandlerStale(h) \/ PaymentStore(h) \/ PaymentPublish(h) \/ ExpiredStore(h)
              \/ HandlerFail(h) \/ Rebalance(h)
         \/ \E w \in Reapers :
              SweepFind(w) \/ SweepCommit(w) \/ SweepStale(w) \/ ReaperPublish(w) \/ ReaperFail(w)
<1>1. CASE \E o \in Orders : Requests(o) \/ Mails(o)
  BY <1>1 DEF Requests, Mails
<1>2. CASE \E x \in Cancels : Cancelling(x)
  BY <1>2, Roles DEF Cancelling, Calls
<1>3. CASE \E h \in Handlers :
              Handling(h) \/ \E o \in Orders : PaymentRead(h, o) \/ ExpiredRead(h, o)
  BY <1>3, Roles DEF Handling, Calls
<1>4. CASE \E w \in Reapers : Sweeping(w)
  BY <1>4, Roles DEF Sweeping
<1>5. CASE Failures
  BY <1>5 DEF Failures
<1> QED
  BY <1>1, <1>2, <1>3, <1>4, <1>5 DEF Next

(* Every step is one of these, for the reservations, the orders and the
   bookings. *)
LEMMA RowMoves ==
  ASSUME TypeOK, AtWork, [Next]_vars
  PROVE  TablesMove /\ OrderMove /\ BookMove
<1>1. CASE UNCHANGED vars
  BY <1>1 DEF vars, TablesMove, OrderMove, BookMove
<1>2. ASSUME NEW o \in Orders,
             BookLookup(o) \/ BookReserve(o) \/ BookStore(o) \/ BookPublish(o) \/ BookFail(o)
      PROVE  TablesMove /\ OrderMove /\ BookMove
  <2>0. book \in [Orders -> {"idle", "looked", "reserved", "stored", "done"}]
        /\ resv \in [Orders -> ReservationStatuses \cup {None}]
        /\ order \in [Orders -> OrderStatuses \cup {None}]
    BY DEF TypeOK
  <2>1. CASE BookLookup(o)
    <3>1. TablesMove /\ OrderMove
      BY <2>1 DEF BookLookup, TablesMove, OrderMove
    <3>2. BookMove
      BY <2>0, <2>1 DEF BookLookup, BookMove
    <3> QED
      BY <3>1, <3>2
  <2>2. CASE BookReserve(o)
    <3>1. TablesMove /\ OrderMove
      BY <2>0, <2>2 DEF BookReserve, Reserve, TablesMove, OrderMove, tables
    <3>2. BookMove
      BY <2>0, <2>2 DEF BookReserve, Reserve, BookMove
    <3> QED
      BY <3>1, <3>2
  <2>3. CASE BookStore(o)
    <3>1. TablesMove /\ OrderMove
      BY <2>0, <2>3 DEF BookStore, TablesMove, OrderMove, tables
    <3>2. BookMove
      BY <2>0, <2>3 DEF BookStore, BookMove
    <3> QED
      BY <3>1, <3>2
  <2>4. CASE BookPublish(o)
    BY <2>0, <2>4 DEF BookPublish, TablesMove, OrderMove, BookMove, tables
  <2>5. CASE BookFail(o)
    <3>1. TablesMove /\ OrderMove
      BY <2>0, <2>5 DEF BookFail, Reserve, TablesMove, OrderMove, tables
    <3>2. BookMove
      BY <2>0, <2>5 DEF BookFail, Reserve, BookMove
    <3> QED
      BY <3>1, <3>2
  <2> QED
    BY <1>2, <2>1, <2>2, <2>3, <2>4, <2>5
<1>3. ASSUME NEW o \in Orders,
             Charge(o) \/ ChargePublish(o) \/ ChargeFail(o) \/ Notify(o) \/ NotifyFail(o)
      PROVE  TablesMove /\ OrderMove /\ BookMove
  BY <1>3 DEF Charge, ChargePublish, ChargeFail, Notify, NotifyFail, TablesMove, OrderMove,
     BookMove
<1>4. ASSUME NEW x \in Cancels,
             \/ \E o \in Orders : CancelCheck(x, o)
             \/ CancelStale(x) \/ CancelPublish(x) \/ CancelFail(x)
      PROVE  TablesMove /\ OrderMove /\ BookMove
  BY <1>4 DEF CancelCheck, CancelStale, CancelPublish, CancelFail, TablesMove, OrderMove,
     BookMove
<1>5. ASSUME NEW x \in Cancels, CancelStore(x)
      PROVE  TablesMove /\ OrderMove /\ BookMove
  <2>1. x \in Callers /\ x \in Settlers
    BY Roles
  <2>2. pc[x] = "answered" /\ job[x].msg = "cancel"
    BY <1>5, <2>1 DEF CancelStore, Store, AtWork
  <2>3. /\ order' = [order EXCEPT ![job[x].order] = "cancelled"]
        /\ book' = book /\ key' = key
    BY <1>5 DEF CancelStore, Store, bookVars
  <2>4. OrderMove
    BY <2>1, <2>2, <2>3 DEF OrderMove
  <2> QED
    BY <1>5, <2>4 DEF CancelStore, TablesMove, BookMove
<1>6. ASSUME NEW p \in Callers, SettleRead(p)
      PROVE  TablesMove /\ OrderMove /\ BookMove
  BY <1>6 DEF SettleRead, TablesMove, OrderMove, BookMove
<1>7. ASSUME NEW p \in Callers, SettleCommit(p)
      PROVE  TablesMove /\ OrderMove /\ BookMove
  <2>1. job[p] # None
    BY <1>7 DEF SettleCommit, AtWork
  <2>2. TablesMove
    BY <1>7, <2>1 DEF SettleCommit, TablesMove, bookVars
  <2> QED
    BY <1>7, <2>2 DEF SettleCommit, OrderMove, BookMove
<1>8. ASSUME NEW p \in Settlers, LoadRow(p)
      PROVE  TablesMove /\ OrderMove /\ BookMove
  BY <1>8 DEF LoadRow, TablesMove, OrderMove, BookMove
<1>9. ASSUME NEW h \in Handlers,
             \/ \E o \in Orders : PaymentRead(h, o) \/ ExpiredRead(h, o)
             \/ HandlerStale(h) \/ PaymentPublish(h) \/ HandlerFail(h) \/ Rebalance(h)
      PROVE  TablesMove /\ OrderMove /\ BookMove
  BY <1>9 DEF PaymentRead, ExpiredRead, HandlerStale, PaymentPublish, HandlerFail, Rebalance,
     TablesMove, OrderMove, BookMove
<1>10. ASSUME NEW h \in Handlers, PaymentStore(h) \/ ExpiredStore(h)
       PROVE  TablesMove /\ OrderMove /\ BookMove
  <2>1. h \in Callers
    BY Roles
  <2>2. OrderMove
    BY <1>10, <2>1 DEF PaymentStore, ExpiredStore, Store, OrderMove, bookVars, Payments
  <2> QED
    BY <1>10, <2>2 DEF PaymentStore, ExpiredStore, TablesMove, BookMove
<1>11. ASSUME NEW w \in Reapers,
              SweepFind(w) \/ SweepStale(w) \/ ReaperPublish(w) \/ ReaperFail(w)
       PROVE  TablesMove /\ OrderMove /\ BookMove
  BY <1>11 DEF SweepFind, SweepStale, ReaperPublish, ReaperFail, TablesMove, OrderMove,
     BookMove
<1>12. ASSUME NEW w \in Reapers, SweepCommit(w)
       PROVE  TablesMove /\ OrderMove /\ BookMove
  BY <1>12 DEF SweepCommit, TablesMove, OrderMove, BookMove, bookVars
<1> QED
  BY StepCases, <1>1, <1>2, <1>3, <1>4, <1>5, <1>6, <1>7, <1>8, <1>9, <1>10, <1>11, <1>12

(* A caller that goes back to rest. *)
LEMMA RestMove ==
  ASSUME TypeOK, NEW c \in Callers, NEW places,
         places \in {pc, Outdated}, Rest(c, places), NEW p \in Callers
  PROVE  \/ job'[p] = job[p] /\ pc'[p] = places[p]
         \/ p = c /\ job'[p] = None /\ pc'[p] = "idle"
<1>1. places \in [Settlers -> {"idle", "call", "row", "write", "stale", "answered",
                               "stored", "publish"}]
  BY OutdatedFacts DEF TypeOK
<1>2. job \in [Callers -> Jobs \cup {None}] /\ c \in Settlers /\ p \in Settlers
  BY Roles DEF TypeOK
<1> QED
  BY <1>1, <1>2 DEF Rest

(* A session that a commit has made stale goes on. *)
LEMMA OutdatedMove ==
  ASSUME TypeOK, AtWork, NEW p \in Callers, job'[p] = job[p], pc'[p] = Outdated[p]
  PROVE  CallerMove(p)
<1>1. p \in Settlers /\ job[p] \in Jobs \cup {None}
  BY Roles DEF TypeOK
<1>2. CASE pc[p] = "idle"
  <2>1. Outdated[p] = "idle"
    BY <1>1, <1>2, OutdatedFacts
  <2> QED
    BY <1>2, <2>1 DEF CallerMove
<1>3. CASE pc[p] # "idle"
  <2>1. job[p] # None /\ job[p] \in Jobs
    BY <1>1, <1>3 DEF AtWork
  <2>2. pc'[p] # "idle" /\ (pc'[p] = "answered" => pc[p] = "answered")
    BY <1>1, <1>3, OutdatedFacts
  <2>3. WentOn(p)
    BY <2>1, <2>2 DEF WentOn
  <2> QED
    BY <2>3 DEF CallerMove
<1> QED
  BY <1>2, <1>3

(* Every step is one of these for each caller. *)
LEMMA CallerMoves ==
  ASSUME TypeOK, AtWork, Causality, [Next]_vars, NEW p \in Callers
  PROVE  CallerMove(p)
<1>0. /\ pc \in [Settlers -> {"idle", "call", "row", "write", "stale", "answered",
                              "stored", "publish"}]
      /\ job \in [Callers -> Jobs \cup {None}]
      /\ p \in Settlers /\ p \notin Reapers
  BY Roles DEF TypeOK
<1>1. CASE UNCHANGED <<pc, job>>
  BY <1>1 DEF CallerMove
<1>2. ASSUME UNCHANGED job, pc' = Outdated
      PROVE  CallerMove(p)
  BY <1>2, OutdatedMove
<1>3. ASSUME NEW c \in Callers, Rest(c, pc)
      PROVE  CallerMove(p)
  BY <1>3, RestMove DEF CallerMove
<1>4. ASSUME NEW c \in Callers, Quit(c)
      PROVE  CallerMove(p)
  <2>1. CASE Rest(c, pc)
    BY <2>1, <1>3
  <2>2. CASE /\ job[c].mode # "left" /\ pc[c] # "idle"
             /\ job' = [job EXCEPT ![c].mode = "left"] /\ UNCHANGED pc
    <3>1. job[c] # None /\ job[c] \in Jobs
      BY <2>2, <1>0 DEF AtWork
    <3>2. CASE p = c
      <4>1. job'[p] = [job[p] EXCEPT !.mode = "left"]
        BY <1>0, <2>2, <3>2
      <4>2. job'[p] \in Jobs /\ job'[p] = [order |-> job[p].order, msg |-> job[p].msg, mode |-> "left"]
        BY <3>1, <3>2, <4>1, JobFacts
      <4>3. /\ job'[p].order = job[p].order /\ job'[p].msg = job[p].msg
            /\ job'[p].mode = "left"
        BY <4>2
      <4>4. pc'[p] = pc[p] /\ pc[p] # "idle"
        BY <2>2, <3>2
      <4>5. WentOn(p)
        BY <3>1, <3>2, <4>2, <4>3, <4>4 DEF WentOn
      <4> QED
        BY <4>5 DEF CallerMove
    <3>3. CASE p # c
      BY <1>0, <2>2, <3>3 DEF CallerMove
    <3> QED
      BY <3>2, <3>3
  <2> QED
    BY <1>4, <2>1, <2>2 DEF Quit
<1>5. ASSUME NEW o \in Orders,
             \/ BookLookup(o) \/ BookReserve(o) \/ BookStore(o) \/ BookPublish(o) \/ BookFail(o)
             \/ Charge(o) \/ ChargePublish(o) \/ ChargeFail(o) \/ Notify(o) \/ NotifyFail(o)
      PROVE  CallerMove(p)
  <2>1. UNCHANGED <<pc, job>> \/ (UNCHANGED job /\ pc' = Outdated)
    BY <1>5 DEF BookLookup, BookReserve, BookStore, BookPublish, BookFail, Reserve, Charge,
       ChargePublish, ChargeFail, Notify, NotifyFail
  <2> QED
    BY <2>1, <1>1, <1>2
<1>6. ASSUME NEW c \in Callers, NEW place, pc[c] # "idle", place \notin {"idle", "answered"},
             pc' = [pc EXCEPT ![c] = place], UNCHANGED job
      PROVE  CallerMove(p)
  <2>1. CASE p = c
    <3>1. job[p] # None /\ job[p] \in Jobs
      BY <1>0, <1>6, <2>1 DEF AtWork
    <3>2. WentOn(p)
      BY <1>0, <1>6, <2>1, <3>1 DEF WentOn
    <3> QED
      BY <3>2 DEF CallerMove
  <2>2. CASE p # c
    BY <1>0, <1>6, <2>2 DEF CallerMove
  <2> QED
    BY <2>1, <2>2
<1>7. ASSUME NEW c \in Callers, NEW places, places \in {pc, Outdated},
             pc[c] # "idle", Answer(c, places),
             job[c].msg = "paid" \/ job[c].order \in Freed'
      PROVE  CallerMove(p)
  <2>0. places \in [Settlers -> {"idle", "call", "row", "write", "stale", "answered",
                                 "stored", "publish"}] /\ c \in Settlers
    BY <1>7, <1>0, OutdatedFacts, Roles
  <2>1. ASSUME job'[p] = job[p], pc'[p] = places[p]
        PROVE  CallerMove(p)
    BY <1>7, <2>1, OutdatedMove DEF CallerMove
  <2>2. CASE Rest(c, places)
    BY <1>7, <2>1, <2>2, RestMove DEF CallerMove
  <2>3. CASE pc' = [places EXCEPT ![c] = "answered"] /\ UNCHANGED job
    <3>1. CASE p = c
      <4>1. job[p] # None /\ job[p] \in Jobs
        BY <1>0, <1>7, <3>1 DEF AtWork
      <4>2. pc'[p] = "answered"
        BY <2>0, <2>3, <3>1
      <4>3. WentOn(p)
        BY <1>7, <2>3, <3>1, <4>1, <4>2 DEF WentOn
      <4> QED
        BY <4>3 DEF CallerMove
    <3>2. CASE p # c
      <4>1. job'[p] = job[p] /\ pc'[p] = places[p]
        BY <1>0, <2>0, <2>3, <3>2
      <4> QED
        BY <4>1, <2>1
    <3> QED
      BY <3>1, <3>2
  <2> QED
    BY <1>7, <2>2, <2>3 DEF Answer
<1>8. ASSUME NEW c \in Callers, NEW o \in Orders, NEW place \in {"call", "answered"},
             NEW msg \in {"paid", "declined", "cancel", "expired"},
             Begin(c, o, msg, place), order[o] # None,
             msg = "cancel" <=> c \in Cancels,
             place = "answered" <=> msg = "expired",
             c \in Handlers => /\ Unowned(o, msg) /\ Queued(o, msg) /\ UNCHANGED queues
                               /\ msg = "paid" => Head(payments[o])
      PROVE  CallerMove(p)
  <2> DEFINE j == [order |-> o, msg |-> msg, mode |-> "live"]
  <2>1. j \in Jobs /\ j.order = o /\ j.msg = msg /\ j.mode = "live"
    BY NewJob
  <2>2. job' = [job EXCEPT ![c] = j] /\ pc' = [pc EXCEPT ![c] = place] /\ pc[c] = "idle"
    BY <1>8 DEF Begin
  <2>3. CASE p = c
    <3>1. job'[p] = j /\ pc'[p] = place
      BY <1>0, <2>2, <2>3
    <3> HIDE DEF j
    <3>2. Started(p)
      BY <1>8, <2>1, <2>2, <2>3, <3>1 DEF Started
    <3> QED
      BY <3>2 DEF CallerMove
  <2>4. CASE p # c
    BY <1>0, <2>2, <2>4 DEF CallerMove
  <2> QED
    BY <2>3, <2>4
<1>9. ASSUME NEW c \in Callers, SettleRead(c)
      PROVE  CallerMove(p)
  <2>1. CASE pc' = [pc EXCEPT ![c] = "row"] /\ UNCHANGED job
    BY <1>9, <2>1, <1>6 DEF SettleRead
  <2>2. CASE resv[job[c].order] \notin Settleable(job[c].msg) /\ Answer(c, pc)
    <3>1. job[c] \in Jobs /\ job[c] # None
      BY <1>0, <1>9 DEF AtWork, SettleRead
    <3>2. job[c].order \in Orders /\ resv[job[c].order] # None
      BY <3>1, JobFacts DEF Causality
    <3>3. job[c].msg = "paid" \/ job[c].order \in Freed
      BY <2>2, <3>2 DEF Settleable, Freed, TypeOK, ReservationStatuses
    <3>4. resv' = resv
      BY <1>9 DEF SettleRead, tables
    <3>5. job[c].msg = "paid" \/ job[c].order \in Freed'
      BY <3>3, <3>4 DEF Freed
    <3> QED
      BY <1>9, <2>2, <3>5, <1>7 DEF SettleRead
  <2> QED
    BY <1>9, <2>1, <2>2 DEF SettleRead
<1>10. ASSUME NEW c \in Callers, SettleCommit(c)
       PROVE  CallerMove(p)
  <2>0. job[c] \in Jobs
    BY <1>0, <1>10 DEF AtWork, SettleCommit
  <2>1. job[c].order \in Orders
    BY <2>0, JobFacts
  <2>2. resv' = [resv EXCEPT ![job[c].order] = SettledAs(job[c].msg)]
    BY <1>10 DEF SettleCommit
  <2>3. job[c].msg = "paid" \/ job[c].order \in Freed'
    BY <2>1, <2>2 DEF SettledAs, Freed, TypeOK
  <2> QED
    BY <1>10, <2>3, <1>7 DEF SettleCommit
<1>11. ASSUME NEW c \in Settlers, LoadRow(c)
       PROVE  CallerMove(p)
  <2>1. CASE c \in Callers
    BY <1>11, <2>1, <1>6 DEF LoadRow
  <2>2. CASE c \notin Callers
    BY <1>0, <1>11, <2>2 DEF LoadRow, CallerMove
  <2> QED
    BY <2>1, <2>2
<1>12. ASSUME NEW x \in Cancels,
              \/ \E o \in Orders : CancelCheck(x, o)
              \/ CancelStale(x) \/ CancelStore(x) \/ CancelPublish(x) \/ CancelFail(x)
       PROVE  CallerMove(p)
  <2>0. x \in Callers /\ x \notin Handlers
    BY Roles
  <2>1. ASSUME NEW o \in Orders, CancelCheck(x, o)
        PROVE  CallerMove(p)
    <3>1. order[o] # None /\ Begin(x, o, "cancel", "call")
      BY <2>1, NoneIsNoStatus DEF CancelCheck
    <3> QED
      BY <2>0, <3>1, <1>8
  <2>2. CASE CancelStore(x)
    BY <2>0, <2>2, <1>6 DEF CancelStore, Store
  <2>3. CASE CancelStale(x) \/ CancelPublish(x)
    BY <2>0, <2>3, <1>3 DEF CancelStale, CancelPublish
  <2>4. CASE CancelFail(x)
    BY <2>0, <2>4, <1>4 DEF CancelFail
  <2> QED
    BY <1>12, <2>1, <2>2, <2>3, <2>4
<1>13. ASSUME NEW h \in Handlers, NEW o \in Orders, PaymentRead(h, o) \/ ExpiredRead(h, o)
       PROVE  CallerMove(p)
  <2>0. h \in Callers /\ h \notin Cancels
    BY Roles
  <2>1. CASE PaymentRead(h, o) /\ order[o] = "pending"
    <3> DEFINE msg == IF Head(payments[o]) THEN "paid" ELSE "declined"
    <3>1. /\ payments[o] # <<>> /\ Unowned(o, msg) /\ Begin(h, o, msg, "call")
          /\ UNCHANGED queues
      BY <2>1 DEF PaymentRead
    <3>2. msg \in {"paid", "declined"} /\ (msg = "paid" => Head(payments[o]))
      OBVIOUS
    <3> HIDE DEF msg
    <3>3. Queued(o, msg) /\ order[o] # None /\ msg \notin {"cancel", "expired"}
      BY <2>1, <3>1, <3>2, NoneIsNoStatus DEF Queued
    <3> QED
      BY <2>0, <3>1, <3>2, <3>3, <1>8
  <2>2. CASE ExpiredRead(h, o) /\ order[o] = "pending"
    <3>1. /\ expiries[o] > 0 /\ Unowned(o, "expired") /\ Begin(h, o, "expired", "answered")
          /\ UNCHANGED queues
      BY <2>2 DEF ExpiredRead
    <3>2. Queued(o, "expired") /\ order[o] # None
      BY <2>2, <3>1, NoneIsNoStatus DEF Queued
    <3> QED
      BY <2>0, <3>1, <3>2, <1>8
  <2>3. CASE order[o] # "pending"
    BY <1>13, <2>3, <1>1 DEF PaymentRead, ExpiredRead
  <2> QED
    BY <1>13, <2>1, <2>2, <2>3
<1>14. ASSUME NEW h \in Handlers,
              \/ HandlerStale(h) \/ PaymentStore(h) \/ PaymentPublish(h) \/ ExpiredStore(h)
              \/ HandlerFail(h) \/ Rebalance(h)
       PROVE  CallerMove(p)
  <2>0. h \in Callers
    BY Roles
  <2>1. CASE HandlerStale(h) \/ PaymentPublish(h) \/ ExpiredStore(h)
    BY <2>0, <2>1, <1>3 DEF HandlerStale, PaymentPublish, ExpiredStore, Return
  <2>2. CASE PaymentStore(h)
    BY <2>0, <2>2, <1>6 DEF PaymentStore
  <2>3. CASE HandlerFail(h)
    BY <2>0, <2>3, <1>4 DEF HandlerFail
  <2>4. CASE Rebalance(h)
    <3>1. job[h] # None /\ job[h] \in Jobs
      BY <2>0, <2>4, <1>0 DEF AtWork, Rebalance
    <3>2. CASE p = h
      <4>1. job'[p] = [job[p] EXCEPT !.mode = "revoked"] /\ pc' = pc
        BY <1>0, <2>4, <3>2 DEF Rebalance
      <4>2. job'[p] \in Jobs /\ job'[p] = [order |-> job[p].order, msg |-> job[p].msg, mode |-> "revoked"]
        BY <3>1, <3>2, <4>1, JobFacts
      <4>3. /\ job'[p].order = job[p].order /\ job'[p].msg = job[p].msg
            /\ job'[p].mode = "revoked"
        BY <4>2
      <4>4. pc'[p] = pc[p] /\ pc[p] # "idle"
        BY <2>4, <3>2, <4>1 DEF Rebalance
      <4>5. WentOn(p)
        BY <3>1, <3>2, <4>2, <4>3, <4>4 DEF WentOn
      <4> QED
        BY <4>5 DEF CallerMove
    <3>3. CASE p # h
      BY <1>0, <2>4, <3>3 DEF CallerMove, Rebalance
    <3> QED
      BY <3>2, <3>3
  <2> QED
    BY <1>14, <2>1, <2>2, <2>3, <2>4
<1>15. ASSUME NEW w \in Reapers,
              SweepFind(w) \/ SweepStale(w) \/ ReaperPublish(w) \/ ReaperFail(w)
       PROVE  CallerMove(p)
  BY <1>0, <1>15 DEF SweepFind, SweepStale, ReaperPublish, ReaperFail, CallerMove
<1>16. ASSUME NEW w \in Reapers, SweepCommit(w)
       PROVE  CallerMove(p)
  <2>1. job' = job /\ pc' = [Outdated EXCEPT ![w] = "publish"]
    BY <1>16 DEF SweepCommit
  <2>2. pc'[p] = Outdated[p]
    BY <1>0, <1>16, <2>1, OutdatedFacts
  <2> QED
    BY <2>1, <2>2, OutdatedMove
<1> QED
  BY StepCases, <1>1, <1>5, <1>9, <1>10, <1>11, <1>12, <1>13, <1>14, <1>15, <1>16 DEF vars

(* The messages for the status worker: nothing, a charge reported, an expiry
   reported, or a message passed, which no owner then has.                 *)
QueueMove ==
    \/ UNCHANGED queues
    \/ \E o \in Orders :
         /\ charge[o] = "charged" /\ UNCHANGED <<charged, expiries, job>>
         /\ payments' = [payments EXCEPT ![o] = Append(@, charged[o][Len(charged[o])])]
    \/ \E w \in Reapers : \E o \in batch[w] :
         /\ pc[w] = "publish" /\ UNCHANGED <<charged, payments, job>>
         /\ expiries' = [expiries EXCEPT ![o] = @ + 1]
    \/ \E o \in Orders, msg \in {"paid", "declined", "expired"} :
         /\ Pass(o, msg) /\ Queued(o, msg) /\ UNCHANGED charged
         /\ \A g \in Handlers :
              job'[g] # None /\ job'[g].mode = "live" =>
                 job'[g] = job[g] /\ ~(job[g].order = o /\ SameQueue(job[g].msg, msg))

(* The charges: none, or one more. *)
ChargeMove ==
    \/ UNCHANGED charged /\ \A o \in Orders : charge'[o] = "charged" => charge[o] = "charged"
    \/ \E o \in Orders, success \in BOOLEAN :
         /\ charged' = [charged EXCEPT ![o] = Append(@, success)]
         /\ charge' = [charge EXCEPT ![o] = "charged"]
         /\ UNCHANGED queues

(* An owner passes its message. *)
LEMMA OwnerPasses ==
  ASSUME TypeOK, AtWork, InHand, NEW h \in Handlers, Owner(h), UNCHANGED charged,
         Pass(job[h].order, job[h].msg),
         \A g \in Handlers \ {h} : job'[g] = job[g],
         job'[h] = None \/ job'[h].mode = "left"
  PROVE  QueueMove
<1>1. h \in Callers /\ h \notin Cancels /\ job[h] \in Jobs
  BY Roles DEF TypeOK, Owner
<1>2. job[h].order \in Orders /\ job[h].msg \in {"paid", "declined", "cancel", "expired"}
  BY <1>1, JobFacts
<1>3. job[h].msg \in {"paid", "declined", "expired"}
  BY <1>1, <1>2 DEF AtWork, Owner
<1>4. Queued(job[h].order, job[h].msg)
  BY DEF InHand
<1>5. ASSUME NEW g \in Handlers, job'[g] # None /\ job'[g].mode = "live"
      PROVE  /\ job'[g] = job[g]
             /\ ~(job[g].order = job[h].order /\ SameQueue(job[g].msg, job[h].msg))
  <2>1. g # h /\ job'[g] = job[g]
    BY <1>5
  <2>2. Owner(g)
    BY <1>5, <2>1 DEF Owner
  <2> QED
    BY <2>1, <2>2 DEF InHand
<1> QED
  BY <1>2, <1>3, <1>4, <1>5 DEF QueueMove

(* A message that nobody owns is passed. *)
LEMMA UnownedPasses ==
  ASSUME TypeOK, AtWork, NEW o \in Orders, NEW msg \in {"paid", "declined", "expired"},
         Unowned(o, msg), Queued(o, msg), Pass(o, msg), UNCHANGED <<job, charged>>
  PROVE  QueueMove
<1>1. ASSUME NEW g \in Handlers, job[g] # None /\ job[g].mode = "live",
             job[g].order = o /\ SameQueue(job[g].msg, msg)
      PROVE  FALSE
  <2>1. g \in Callers /\ g \notin Cancels /\ job[g] \in Jobs
    BY <1>1, Roles DEF TypeOK
  <2>2. job[g].msg \in {"paid", "declined", "cancel", "expired"}
    BY <2>1, JobFacts
  <2>3. job[g].msg \in {"paid", "declined", "expired"}
    BY <1>1, <2>1, <2>2 DEF AtWork
  <2>4. job[g].msg \in Kind(msg)
    BY <1>1, <2>3, KindFacts
  <2> QED
    BY <1>1, <2>4 DEF Unowned
<1> QED
  BY <1>1 DEF QueueMove

(* Every step is one of these, for the messages and the charges. *)
LEMMA QueueMoves ==
  ASSUME TypeOK, AtWork, InHand, [Next]_vars
  PROVE  QueueMove /\ ChargeMove
<1>0. /\ charge \in [Orders -> {"idle", "charged"}]
      /\ job \in [Callers -> Jobs \cup {None}]
  BY DEF TypeOK
<1>1. CASE UNCHANGED <<queues, charge, charged>>
  BY <1>1 DEF QueueMove, ChargeMove
<1>2. ASSUME NEW o \in Orders, Charge(o) \/ ChargePublish(o) \/ ChargeFail(o)
      PROVE  QueueMove /\ ChargeMove
  <2>1. CASE Charge(o)
    BY <2>1 DEF Charge, QueueMove, ChargeMove
  <2>2. CASE ChargePublish(o)
    <3>1. QueueMove
      BY <2>2 DEF ChargePublish, QueueMove
    <3>2. ChargeMove
      BY <1>0, <2>2 DEF ChargePublish, ChargeMove
    <3> QED
      BY <3>1, <3>2
  <2>3. CASE ChargeFail(o)
    BY <1>0, <2>3 DEF ChargeFail, QueueMove, ChargeMove
  <2> QED
    BY <1>2, <2>1, <2>2, <2>3
<1>3. ASSUME NEW h \in Handlers, pc[h] # "idle", UNCHANGED <<charge, charged>>,
             \/ Rest(h, pc)
             \/ job' = [job EXCEPT ![h].mode = "left"],
             job[h].mode = "live" /\ Pass(job[h].order, job[h].msg)
      PROVE  QueueMove /\ ChargeMove
  <2>0. h \in Callers /\ \A g \in Handlers : g \in Callers
    BY Roles
  <2>1. job[h] # None /\ job[h] \in Jobs
    BY <1>0, <1>3, <2>0 DEF AtWork
  <2>2. \A g \in Handlers \ {h} : job'[g] = job[g]
    BY <1>0, <1>3, <2>0 DEF Rest
  <2>3. job'[h] = None \/ job'[h].mode = "left"
    <3>1. CASE Rest(h, pc)
      BY <1>0, <2>0, <3>1 DEF Rest
    <3>2. CASE job' = [job EXCEPT ![h].mode = "left"]
      <4>1. job'[h] = [job[h] EXCEPT !.mode = "left"]
        BY <1>0, <2>0, <3>2
      <4>2. job'[h] = [order |-> job[h].order, msg |-> job[h].msg, mode |-> "left"]
        BY <2>1, <4>1, JobFacts
      <4> QED
        BY <4>2
    <3> QED
      BY <1>3, <3>1, <3>2
  <2>4. Owner(h)
    BY <1>3, <2>1 DEF Owner
  <2>5. QueueMove
    BY <1>3, <2>2, <2>3, <2>4, OwnerPasses
  <2> QED
    BY <1>3, <2>5 DEF ChargeMove
<1>4. ASSUME NEW h \in Handlers, PaymentPublish(h) \/ ExpiredStore(h)
      PROVE  QueueMove /\ ChargeMove
  <2>1. Return(h) /\ pc[h] # "idle" /\ UNCHANGED <<charge, charged>>
    BY <1>4 DEF PaymentPublish, ExpiredStore, chargeVars
  <2> QED
    BY <2>1, <1>1, <1>3 DEF Return
<1>5. ASSUME NEW h \in Handlers, HandlerStale(h)
      PROVE  QueueMove /\ ChargeMove
  <2>1. Rest(h, pc) /\ Skip(h) /\ pc[h] # "idle" /\ UNCHANGED <<charge, charged>>
    BY <1>5 DEF HandlerStale, chargeVars
  <2> QED
    BY <2>1, <1>1, <1>3 DEF Skip
<1>6. ASSUME NEW h \in Handlers, HandlerFail(h)
      PROVE  QueueMove /\ ChargeMove
  <2>1. Quit(h) /\ Skip(h) /\ UNCHANGED <<charge, charged>>
    BY <1>6 DEF HandlerFail, chargeVars
  <2> QED
    BY <2>1, <1>1, <1>3 DEF Skip, Quit
<1>7. ASSUME NEW h \in Handlers, NEW o \in Orders, PaymentRead(h, o)
      PROVE  QueueMove /\ ChargeMove
  <2> DEFINE msg == IF Head(payments[o]) THEN "paid" ELSE "declined"
  <2>1. /\ payments[o] # <<>> /\ Unowned(o, msg) /\ UNCHANGED <<charge, charged>>
        /\ UNCHANGED queues \/ (Pass(o, msg) /\ UNCHANGED job)
    BY <1>7 DEF PaymentRead, chargeVars
  <2>2. msg \in {"paid", "declined", "expired"} /\ msg # "expired"
    OBVIOUS
  <2> HIDE DEF msg
  <2>3. Queued(o, msg)
    BY <2>1, <2>2 DEF Queued
  <2>4. CASE UNCHANGED queues
    BY <2>1, <2>4, <1>1
  <2>5. CASE Pass(o, msg) /\ UNCHANGED job
    BY <2>1, <2>2, <2>3, <2>5, UnownedPasses DEF ChargeMove
  <2> QED
    BY <2>1, <2>4, <2>5
<1>8. ASSUME NEW h \in Handlers, NEW o \in Orders, ExpiredRead(h, o)
      PROVE  QueueMove /\ ChargeMove
  <2>1. /\ expiries[o] > 0 /\ Unowned(o, "expired") /\ UNCHANGED <<charge, charged>>
        /\ UNCHANGED queues \/ (Pass(o, "expired") /\ UNCHANGED job)
    BY <1>8 DEF ExpiredRead, chargeVars
  <2>2. Queued(o, "expired")
    BY <2>1 DEF Queued
  <2>3. CASE UNCHANGED queues
    BY <2>1, <2>3, <1>1
  <2>4. CASE Pass(o, "expired") /\ UNCHANGED job
    BY <2>1, <2>2, <2>4, UnownedPasses DEF ChargeMove
  <2> QED
    BY <2>1, <2>3, <2>4
<1>9. ASSUME NEW w \in Reapers, ReaperPublish(w)
      PROVE  QueueMove /\ ChargeMove
  BY <1>9 DEF ReaperPublish, QueueMove, ChargeMove, chargeVars
<1>10. ASSUME NEW o \in Orders,
              \/ BookLookup(o) \/ BookReserve(o) \/ BookStore(o) \/ BookPublish(o) \/ BookFail(o)
              \/ Notify(o) \/ NotifyFail(o)
       PROVE  UNCHANGED <<queues, charge, charged>>
  BY <1>10 DEF BookLookup, BookReserve, BookStore, BookPublish, BookFail, Notify, NotifyFail,
     chargeVars
<1>11. ASSUME NEW x \in Cancels,
              \/ \E o \in Orders : CancelCheck(x, o)
              \/ CancelStale(x) \/ CancelStore(x) \/ CancelPublish(x) \/ CancelFail(x)
       PROVE  UNCHANGED <<queues, charge, charged>>
  BY <1>11 DEF CancelCheck, CancelStale, CancelStore, CancelPublish, CancelFail, chargeVars
<1>12. ASSUME NEW p \in Settlers, SettleRead(p) \/ SettleCommit(p) \/ LoadRow(p)
       PROVE  UNCHANGED <<queues, charge, charged>>
  BY <1>12 DEF SettleRead, SettleCommit, LoadRow, chargeVars
<1>13. ASSUME NEW h \in Handlers, PaymentStore(h) \/ Rebalance(h)
       PROVE  UNCHANGED <<queues, charge, charged>>
  BY <1>13 DEF PaymentStore, Rebalance, chargeVars
<1>14. ASSUME NEW w \in Reapers,
              SweepFind(w) \/ SweepCommit(w) \/ SweepStale(w) \/ ReaperFail(w)
       PROVE  UNCHANGED <<queues, charge, charged>>
  BY <1>14 DEF SweepFind, SweepCommit, SweepStale, ReaperFail, chargeVars
<1>15. UNCHANGED vars => UNCHANGED <<queues, charge, charged>>
  BY DEF vars, chargeVars
<1> QED
  BY StepCases, Roles, <1>1, <1>2, <1>4, <1>5, <1>6, <1>7, <1>8, <1>9, <1>10, <1>11, <1>12,
     <1>13, <1>14, <1>15

-----------------------------------------------------------------------------
(* Every step keeps each part of the inductive invariant. *)

(* The places, the jobs and the batches keep their types. *)
LEMMA SettlerTypes ==
  ASSUME TypeOK, AtWork, [Next]_vars
  PROVE  /\ pc' \in [Settlers -> {"idle", "call", "row", "write", "stale", "answered",
                                  "stored", "publish"}]
         /\ job' \in [Callers -> Jobs \cup {None}]
         /\ batch' \in [Reapers -> SUBSET Orders]
<1> DEFINE P == {"idle", "call", "row", "write", "stale", "answered", "stored", "publish"}
           Good == /\ pc' \in [Settlers -> P]
                   /\ job' \in [Callers -> Jobs \cup {None}]
                   /\ batch' \in [Reapers -> SUBSET Orders]
<1>0. /\ pc \in [Settlers -> P] /\ Outdated \in [Settlers -> P]
      /\ job \in [Callers -> Jobs \cup {None}]
      /\ batch \in [Reapers -> SUBSET Orders]
  BY OutdatedFacts DEF TypeOK
<1>1. ASSUME NEW c \in Callers, NEW places \in [Settlers -> P], Rest(c, places)
      PROVE  pc' \in [Settlers -> P] /\ job' \in [Callers -> Jobs \cup {None}]
  BY <1>0, <1>1 DEF Rest
<1>2. ASSUME NEW c \in Callers, NEW m \in {"live", "revoked", "left"}, pc[c] # "idle",
             job' = [job EXCEPT ![c].mode = m]
      PROVE  job' \in [Callers -> Jobs \cup {None}]
  <2>1. job[c] \in Jobs
    BY <1>0, <1>2 DEF AtWork
  <2>2. [job[c] EXCEPT !.mode = m] \in Jobs
    BY <2>1, JobFacts
  <2>3. job' = [job EXCEPT ![c] = [job[c] EXCEPT !.mode = m]]
    BY <1>2
  <2> QED
    BY <1>0, <2>2, <2>3
<1>3. ASSUME NEW c \in Callers, NEW o \in Orders, NEW place \in P,
             NEW msg \in {"paid", "declined", "cancel", "expired"}, Begin(c, o, msg, place)
      PROVE  pc' \in [Settlers -> P] /\ job' \in [Callers -> Jobs \cup {None}]
  <2>1. [order |-> o, msg |-> msg, mode |-> "live"] \in Jobs
    BY NewJob
  <2> QED
    BY <1>0, <1>3, <2>1 DEF Begin
<1>4. ASSUME NEW o \in Orders,
             \/ BookLookup(o) \/ BookReserve(o) \/ BookStore(o) \/ BookPublish(o) \/ BookFail(o)
             \/ Charge(o) \/ ChargePublish(o) \/ ChargeFail(o) \/ Notify(o) \/ NotifyFail(o)
      PROVE  Good
  <2>1. (pc' = pc \/ pc' = Outdated) /\ job' = job /\ batch' = batch
    BY <1>4 DEF BookLookup, BookReserve, BookStore, BookPublish, BookFail, Reserve, Charge,
       ChargePublish, ChargeFail, Notify, NotifyFail
  <2> QED
    BY <1>0, <2>1
<1>5. ASSUME NEW x \in Cancels,
             \/ \E o \in Orders : CancelCheck(x, o)
             \/ CancelStale(x) \/ CancelStore(x) \/ CancelPublish(x) \/ CancelFail(x)
      PROVE  Good
  <2>0. x \in Callers /\ batch' = batch
    BY <1>5, Roles DEF CancelCheck, CancelStale, CancelStore, CancelPublish, CancelFail
  <2>1. CASE \E o \in Orders : CancelCheck(x, o)
    BY <1>0, <2>0, <2>1, <1>3 DEF CancelCheck
  <2>2. CASE CancelStale(x) \/ CancelPublish(x)
    BY <1>0, <2>0, <2>2, <1>1 DEF CancelStale, CancelPublish
  <2>3. CASE CancelStore(x)
    BY <1>0, <2>0, <2>3 DEF CancelStore
  <2>4. CASE CancelFail(x)
    BY <1>0, <2>0, <2>4, <1>1, <1>2 DEF CancelFail, Quit
  <2> QED
    BY <1>5, <2>1, <2>2, <2>3, <2>4
<1>6. ASSUME NEW p \in Callers, SettleRead(p) \/ SettleCommit(p)
      PROVE  Good
  <2>1. batch' = batch
    BY <1>6 DEF SettleRead, SettleCommit
  <2>2. \/ Answer(p, pc) \/ Answer(p, Outdated)
        \/ pc' = [pc EXCEPT ![p] = "row"] /\ job' = job
    BY <1>6 DEF SettleRead, SettleCommit
  <2> QED
    BY <1>0, <2>1, <2>2, <1>1 DEF Answer
<1>7. ASSUME NEW p \in Settlers, LoadRow(p)
      PROVE  Good
  BY <1>0, <1>7 DEF LoadRow
<1>8. ASSUME NEW h \in Handlers,
             \/ \E o \in Orders : PaymentRead(h, o) \/ ExpiredRead(h, o)
             \/ HandlerStale(h) \/ PaymentStore(h) \/ PaymentPublish(h) \/ ExpiredStore(h)
             \/ HandlerFail(h) \/ Rebalance(h)
      PROVE  Good
  <2>0. h \in Callers /\ batch' = batch
    BY <1>8, Roles DEF PaymentRead, ExpiredRead, HandlerStale, PaymentStore, PaymentPublish,
       ExpiredStore, HandlerFail, Rebalance
  <2>1. ASSUME NEW o \in Orders, PaymentRead(h, o)
        PROVE  Good
    <3> DEFINE msg == IF Head(payments[o]) THEN "paid" ELSE "declined"
    <3>1. Begin(h, o, msg, "call") \/ UNCHANGED <<pc, job>>
      BY <2>1 DEF PaymentRead
    <3>2. msg \in {"paid", "declined", "cancel", "expired"}
      OBVIOUS
    <3> HIDE DEF msg
    <3> QED
      BY <1>0, <2>0, <3>1, <3>2, <1>3
  <2>2. ASSUME NEW o \in Orders, ExpiredRead(h, o)
        PROVE  Good
    <3>1. Begin(h, o, "expired", "answered") \/ UNCHANGED <<pc, job>>
      BY <2>2 DEF ExpiredRead
    <3> QED
      BY <1>0, <2>0, <3>1, <1>3
  <2>3. CASE HandlerStale(h) \/ PaymentPublish(h) \/ ExpiredStore(h)
    BY <1>0, <2>0, <2>3, <1>1 DEF HandlerStale, PaymentPublish, ExpiredStore, Return
  <2>4. CASE PaymentStore(h)
    BY <1>0, <2>0, <2>4 DEF PaymentStore
  <2>5. CASE HandlerFail(h)
    BY <1>0, <2>0, <2>5, <1>1, <1>2 DEF HandlerFail, Quit
  <2>6. CASE Rebalance(h)
    BY <1>0, <2>0, <2>6, <1>2 DEF Rebalance
  <2> QED
    BY <1>8, <2>1, <2>2, <2>3, <2>4, <2>5, <2>6
<1>9. ASSUME NEW w \in Reapers,
             SweepFind(w) \/ SweepCommit(w) \/ SweepStale(w) \/ ReaperPublish(w) \/ ReaperFail(w)
      PROVE  Good
  <2>0. w \in Settlers /\ job' = job
    BY <1>9, Roles DEF SweepFind, SweepCommit, SweepStale, ReaperPublish, ReaperFail
  <2>1. pc' \in [Settlers -> P]
    BY <1>0, <1>9, <2>0 DEF SweepFind, SweepCommit, SweepStale, ReaperPublish, ReaperFail
  <2>2. batch' \in [Reapers -> SUBSET Orders]
    BY <1>0, <1>9 DEF SweepFind, SweepCommit, SweepStale, ReaperPublish, ReaperFail, Overdue
  <2> QED
    BY <1>0, <2>0, <2>1, <2>2
<1>10. ASSUME UNCHANGED vars
       PROVE  Good
  BY <1>0, <1>10 DEF vars
<1> HIDE DEF Good
<1>11. Good
  BY StepCases, <1>4, <1>5, <1>6, <1>7, <1>8, <1>9, <1>10
<1> QED
  BY <1>11 DEF Good

(* The messages to the payment worker and the mails keep their types. *)
LEMMA MailTypes ==
  ASSUME TypeOK, [Next]_vars
  PROVE  /\ created' \in [Orders -> {"none", "queued", "gone"}]
         /\ charge' \in [Orders -> {"idle", "charged"}]
         /\ notes' \in [Orders -> SUBSET {"ticket", "cancelled"}]
         /\ emails' \in [Orders -> SUBSET {"ticket", "cancelled"}]
<1> DEFINE Good == /\ created' \in [Orders -> {"none", "queued", "gone"}]
                   /\ charge' \in [Orders -> {"idle", "charged"}]
                   /\ notes' \in [Orders -> SUBSET {"ticket", "cancelled"}]
                   /\ emails' \in [Orders -> SUBSET {"ticket", "cancelled"}]
<1>0. /\ created \in [Orders -> {"none", "queued", "gone"}]
      /\ charge \in [Orders -> {"idle", "charged"}]
      /\ notes \in [Orders -> SUBSET {"ticket", "cancelled"}]
      /\ emails \in [Orders -> SUBSET {"ticket", "cancelled"}]
  BY DEF TypeOK
<1>1. CASE UNCHANGED <<created, charge, mailVars>>
  BY <1>0, <1>1 DEF mailVars
<1>2. ASSUME NEW o \in Orders,
             BookPublish(o) \/ Charge(o) \/ ChargePublish(o) \/ ChargeFail(o)
      PROVE  Good
  BY <1>0, <1>2 DEF BookPublish, Charge, ChargePublish, ChargeFail, mailVars
<1>3. ASSUME NEW o \in Orders, Notify(o) \/ NotifyFail(o)
      PROVE  Good
  BY <1>0, <1>3 DEF Notify, NotifyFail, chargeVars
<1>4. ASSUME NEW x \in Cancels, CancelPublish(x)
      PROVE  Good
  BY <1>0, <1>4 DEF CancelPublish, chargeVars
<1>5. ASSUME NEW h \in Handlers, PaymentPublish(h)
      PROVE  Good
  BY <1>0, <1>5 DEF PaymentPublish, chargeVars
<1>6. ASSUME NEW o \in Orders, BookLookup(o) \/ BookReserve(o) \/ BookStore(o) \/ BookFail(o)
      PROVE  UNCHANGED <<created, charge, mailVars>>
  BY <1>6 DEF BookLookup, BookReserve, BookStore, BookFail, chargeVars
<1>7. ASSUME NEW x \in Cancels,
             \/ \E o \in Orders : CancelCheck(x, o)
             \/ CancelStale(x) \/ CancelStore(x) \/ CancelFail(x)
      PROVE  UNCHANGED <<created, charge, mailVars>>
  BY <1>7 DEF CancelCheck, CancelStale, CancelStore, CancelFail, chargeVars
<1>8. ASSUME NEW p \in Settlers, SettleRead(p) \/ SettleCommit(p) \/ LoadRow(p)
      PROVE  UNCHANGED <<created, charge, mailVars>>
  BY <1>8 DEF SettleRead, SettleCommit, LoadRow, chargeVars
<1>9. ASSUME NEW h \in Handlers,
             \/ \E o \in Orders : PaymentRead(h, o) \/ ExpiredRead(h, o)
             \/ HandlerStale(h) \/ PaymentStore(h) \/ ExpiredStore(h)
             \/ HandlerFail(h) \/ Rebalance(h)
      PROVE  UNCHANGED <<created, charge, mailVars>>
  BY <1>9 DEF PaymentRead, ExpiredRead, HandlerStale, PaymentStore, ExpiredStore, HandlerFail,
     Rebalance, chargeVars
<1>10. ASSUME NEW w \in Reapers,
              SweepFind(w) \/ SweepCommit(w) \/ SweepStale(w) \/ ReaperPublish(w) \/ ReaperFail(w)
       PROVE  UNCHANGED <<created, charge, mailVars>>
  BY <1>10 DEF SweepFind, SweepCommit, SweepStale, ReaperPublish, ReaperFail, chargeVars
<1>11. UNCHANGED vars => UNCHANGED <<created, charge, mailVars>>
  BY DEF vars, chargeVars
<1> HIDE DEF Good
<1>12. Good
  BY StepCases, Roles, <1>1, <1>2, <1>3, <1>4, <1>5, <1>6, <1>7, <1>8, <1>9, <1>10, <1>11 DEF Good
<1> QED
  BY <1>12 DEF Good

(* The rows keep their types. *)
LEMMA RowTypes ==
  ASSUME TypeOK, AtWork, InHand, [Next]_vars
  PROVE  /\ book' \in [Orders -> {"idle", "looked", "reserved", "stored", "done"}]
         /\ key' \in [Orders -> Keys \cup {None}]
         /\ order' \in [Orders -> OrderStatuses \cup {None}]
         /\ resv' \in [Orders -> ReservationStatuses \cup {None}]
         /\ taken' \in Int
         /\ twice' \subseteq Orders
<1>1. TablesMove /\ OrderMove /\ BookMove
  BY RowMoves
<1>2. /\ book \in [Orders -> {"idle", "looked", "reserved", "stored", "done"}]
      /\ key \in [Orders -> Keys \cup {None}]
      /\ resv \in [Orders -> ReservationStatuses \cup {None}]
  BY DEF TypeOK
<1>3. book' \in [Orders -> {"idle", "looked", "reserved", "stored", "done"}]
  BY <1>1, <1>2 DEF BookMove, bookVars
<1>4. key' \in [Orders -> Keys \cup {None}]
  BY <1>1, <1>2 DEF BookMove, bookVars
<1>5. order' \in [Orders -> OrderStatuses \cup {None}]
  BY <1>1 DEF OrderMove, TypeOK, OrderStatuses
<1>6. resv' \in [Orders -> ReservationStatuses \cup {None}]
  <2>1. \A m : SettledAs(m) \in ReservationStatuses
    BY DEF SettledAs, ReservationStatuses
  <2>2. {"pending", "expired"} \subseteq ReservationStatuses
    BY DEF ReservationStatuses
  <2>3. \A o, p : resv' = [resv EXCEPT ![o] = SettledAs(p)] =>
            resv' \in [Orders -> ReservationStatuses \cup {None}]
    BY <1>2, <2>1
  <2> QED
    BY <1>1, <1>2, <2>2, <2>3 DEF TablesMove, tables
<1>7. twice' \subseteq Orders
  BY <1>1 DEF TablesMove, TypeOK, tables, Freed
<1>8. taken' \in Int
  <2>1. \A w \in Reapers : Cardinality(batch[w]) \in Nat
    BY OrdersAssumption, FS_Subset, FS_CardinalityType DEF TypeOK
  <2> QED
    BY <1>1, <2>1 DEF TablesMove, TypeOK, tables, SeatBack
<1> QED
  BY <1>3, <1>4, <1>5, <1>6, <1>7, <1>8

(* The charges and the messages for the status worker keep their types. *)
LEMMA QueueTypes ==
  ASSUME TypeOK, AtWork, InHand, [Next]_vars
  PROVE  /\ charged' \in [Orders -> Seq(BOOLEAN)]
         /\ payments' \in [Orders -> Seq(BOOLEAN)]
         /\ expiries' \in [Orders -> Nat]
<1>0. /\ charged \in [Orders -> Seq(BOOLEAN)] /\ payments \in [Orders -> Seq(BOOLEAN)]
      /\ expiries \in [Orders -> Nat] /\ batch \in [Reapers -> SUBSET Orders]
  BY DEF TypeOK
<1>1. QueueMove /\ ChargeMove
  BY QueueMoves
<1>2. charged' \in [Orders -> Seq(BOOLEAN)]
  <2>1. ASSUME NEW o \in Orders, NEW b \in BOOLEAN,
               charged' = [charged EXCEPT ![o] = Append(@, b)]
        PROVE  charged' \in [Orders -> Seq(BOOLEAN)]
    <3>1. Append(charged[o], b) \in Seq(BOOLEAN)
      BY <1>0, AppendFacts
    <3> QED
      BY <1>0, <2>1, <3>1
  <2> QED
    BY <1>0, <1>1, <2>1 DEF ChargeMove
<1>3. ASSUME NEW o \in Orders, NEW msg, Pass(o, msg), Queued(o, msg)
      PROVE  payments' \in [Orders -> Seq(BOOLEAN)] /\ expiries' \in [Orders -> Nat]
  <2>1. CASE msg = "expired"
    BY <1>0, <1>3, <2>1 DEF Pass, Queued
  <2>2. CASE msg # "expired"
    <3>1. Tail(payments[o]) \in Seq(BOOLEAN)
      BY <1>0, <1>3, <2>2, TailFacts DEF Queued
    <3>2. payments' = [payments EXCEPT ![o] = Tail(payments[o])] /\ expiries' = expiries
      BY <1>3, <2>2 DEF Pass
    <3> QED
      BY <1>0, <3>1, <3>2
  <2> QED
    BY <2>1, <2>2
<1>4. ASSUME NEW o \in Orders, charge[o] = "charged", UNCHANGED expiries,
             payments' = [payments EXCEPT ![o] = Append(@, charged[o][Len(charged[o])])]
      PROVE  payments' \in [Orders -> Seq(BOOLEAN)] /\ expiries' \in [Orders -> Nat]
  <2>1. charged[o][Len(charged[o])] \in BOOLEAN
    BY <1>0, <1>4, LastFacts DEF InHand
  <2>2. Append(payments[o], charged[o][Len(charged[o])]) \in Seq(BOOLEAN)
    BY <1>0, <2>1, AppendFacts
  <2> QED
    BY <1>0, <1>4, <2>2
<1>5. ASSUME NEW o \in Orders, UNCHANGED payments, expiries' = [expiries EXCEPT ![o] = @ + 1]
      PROVE  payments' \in [Orders -> Seq(BOOLEAN)] /\ expiries' \in [Orders -> Nat]
  BY <1>0, <1>5
<1> QED
  BY <1>0, <1>1, <1>2, <1>3, <1>4, <1>5 DEF QueueMove, queues

(* Every step keeps the types. *)
LEMMA TypeNext == TypeOK /\ AtWork /\ InHand /\ [Next]_vars => TypeOK'
  BY SettlerTypes, MailTypes, RowTypes, QueueTypes DEF TypeOK

(* A reservation that was freed stays so, or is settled twice. *)
LEMMA FreedGrows ==
  ASSUME TypeOK, Causality, AtWork, [Next]_vars, NEW o \in Orders, WasFreed(o)
  PROVE  WasFreed(o)'
<1>0. resv \in [Orders -> ReservationStatuses \cup {None}]
  BY DEF TypeOK
<1>1. TablesMove
  BY RowMoves
<1>2. CASE UNCHANGED tables
  BY <1>2 DEF tables, WasFreed, Freed
<1>3. ASSUME NEW q \in Orders, book[q] = "looked", resv' = [resv EXCEPT ![q] = "pending"],
             UNCHANGED twice
      PROVE  WasFreed(o)'
  <2>1. resv[q] = None
    BY <1>3 DEF Causality
  <2> QED
    BY <1>0, <1>3, <2>1, NoneIsNoStatus DEF WasFreed, Freed
<1>4. ASSUME NEW q, NEW s, resv' = [resv EXCEPT ![q] = s],
             twice' = twice \cup (Freed \cap {q})
      PROVE  WasFreed(o)'
  BY <1>0, <1>4 DEF WasFreed, Freed
<1>5. ASSUME NEW w \in Reapers,
             resv' = [q \in Orders |-> IF q \in batch[w] THEN "expired" ELSE resv[q]],
             twice' = twice \cup (Freed \cap batch[w])
      PROVE  WasFreed(o)'
  BY <1>5 DEF WasFreed, Freed
<1> QED
  BY <1>1, <1>2, <1>3, <1>4, <1>5 DEF TablesMove

(* A reaper: its batch shrinks, its sweep commits, or it finds a new one. *)
BatchMove(w) ==
    \/ batch'[w] \subseteq batch[w] /\ (pc'[w] = "publish" => pc[w] = "publish")
    \/ batch'[w] = batch[w] /\ batch[w] \subseteq Freed'
    \/ batch'[w] \subseteq Overdue /\ pc'[w] # "publish"

(* Every step is one of these for each reaper. *)
LEMMA BatchMoves ==
  ASSUME TypeOK, [Next]_vars, NEW w \in Reapers
  PROVE  BatchMove(w)
<1>0. /\ pc \in [Settlers -> {"idle", "call", "row", "write", "stale", "answered",
                              "stored", "publish"}]
      /\ batch \in [Reapers -> SUBSET Orders]
      /\ w \in Settlers /\ w \notin Callers
  BY Roles DEF TypeOK
<1>1. ASSUME batch'[w] = batch[w], pc'[w] = pc[w] \/ pc'[w] = Outdated[w]
      PROVE  BatchMove(w)
  <2>1. Outdated[w] = "publish" <=> pc[w] = "publish"
    BY <1>0, OutdatedFacts
  <2> QED
    BY <1>1, <2>1 DEF BatchMove
<1>2. ASSUME NEW o \in Orders,
             \/ BookLookup(o) \/ BookReserve(o) \/ BookStore(o) \/ BookPublish(o) \/ BookFail(o)
             \/ Charge(o) \/ ChargePublish(o) \/ ChargeFail(o) \/ Notify(o) \/ NotifyFail(o)
      PROVE  BatchMove(w)
  <2>1. (pc' = pc \/ pc' = Outdated) /\ batch' = batch
    BY <1>2 DEF BookLookup, BookReserve, BookStore, BookPublish, BookFail, Reserve, Charge,
       ChargePublish, ChargeFail, Notify, NotifyFail
  <2> QED
    BY <2>1, <1>1
<1>3. ASSUME NEW c \in Callers, NEW place, NEW places, places \in {pc, Outdated},
             UNCHANGED batch,
             pc' \in {pc, Outdated, [places EXCEPT ![c] = place]}
      PROVE  BatchMove(w)
  <2>1. w # c /\ Outdated \in [Settlers -> {"idle", "call", "row", "write", "stale", "answered",
                                            "stored", "publish"}]
    BY <1>0, OutdatedFacts
  <2>2. [places EXCEPT ![c] = place][w] = places[w]
    BY <1>0, <1>3, <2>1
  <2>3. pc'[w] = pc[w] \/ pc'[w] = Outdated[w]
    BY <1>3, <2>2
  <2> QED
    BY <1>3, <2>3, <1>1
<1>4. ASSUME NEW x \in Cancels,
             \/ \E o \in Orders : CancelCheck(x, o)
             \/ CancelStale(x) \/ CancelStore(x) \/ CancelPublish(x) \/ CancelFail(x)
      PROVE  BatchMove(w)
  <2>1. \E place : pc' \in {pc, [pc EXCEPT ![x] = place]} /\ batch' = batch
    BY <1>4 DEF CancelCheck, CancelStale, CancelStore, CancelPublish, CancelFail, Begin, Rest,
       Quit
  <2> QED
    BY <2>1, <1>3, Roles
<1>5. ASSUME NEW p \in Callers, SettleRead(p) \/ SettleCommit(p)
      PROVE  BatchMove(w)
  <2>1. batch' = batch
    BY <1>5 DEF SettleRead, SettleCommit
  <2>2. \E place : pc' \in {[pc EXCEPT ![p] = place], [Outdated EXCEPT ![p] = place]}
    BY <1>5 DEF SettleRead, SettleCommit, Answer, Rest
  <2> QED
    BY <2>1, <2>2, <1>3
<1>6. ASSUME NEW p \in Settlers, LoadRow(p)
      PROVE  BatchMove(w)
  BY <1>0, <1>6 DEF LoadRow, BatchMove
<1>7. ASSUME NEW h \in Handlers,
             \/ \E o \in Orders : PaymentRead(h, o) \/ ExpiredRead(h, o)
             \/ HandlerStale(h) \/ PaymentStore(h) \/ PaymentPublish(h) \/ ExpiredStore(h)
             \/ HandlerFail(h) \/ Rebalance(h)
      PROVE  BatchMove(w)
  <2>1. batch' = batch
    BY <1>7 DEF PaymentRead, ExpiredRead, HandlerStale, PaymentStore, PaymentPublish,
       ExpiredStore, HandlerFail, Rebalance
  <2>2. ASSUME NEW o \in Orders, PaymentRead(h, o) \/ ExpiredRead(h, o)
        PROVE  \E place : pc' \in {pc, [pc EXCEPT ![h] = place]}
    BY <2>2 DEF PaymentRead, ExpiredRead, Begin
  <2>3. CASE \/ HandlerStale(h) \/ PaymentStore(h) \/ PaymentPublish(h) \/ ExpiredStore(h)
             \/ HandlerFail(h) \/ Rebalance(h)
    <3>1. \E place : pc' \in {pc, [pc EXCEPT ![h] = place]}
      BY <2>3 DEF HandlerStale, PaymentStore, PaymentPublish, ExpiredStore, HandlerFail,
         Rebalance, Return, Rest, Quit
    <3> QED
      BY <2>1, <3>1, <1>3, Roles
  <2> QED
    BY <1>7, <2>1, <2>2, <2>3, <1>3, Roles
<1>8. ASSUME NEW v \in Reapers,
             SweepFind(v) \/ SweepCommit(v) \/ SweepStale(v) \/ ReaperPublish(v) \/ ReaperFail(v)
      PROVE  BatchMove(w)
  <2>0. Outdated \in [Settlers -> {"idle", "call", "row", "write", "stale", "answered",
                                   "stored", "publish"}]
    BY OutdatedFacts
  <2>1. CASE v # w
    <3>1. batch'[w] = batch[w]
      BY <1>0, <1>8, <2>1 DEF SweepFind, SweepCommit, SweepStale, ReaperPublish, ReaperFail
    <3>2. pc'[w] = pc[w] \/ pc'[w] = Outdated[w]
      BY <1>0, <1>8, <2>0, <2>1 DEF SweepFind, SweepCommit, SweepStale, ReaperPublish, ReaperFail
    <3> QED
      BY <3>1, <3>2, <1>1
  <2>2. CASE v = w /\ SweepFind(w)
    BY <1>0, <2>2 DEF SweepFind, BatchMove
  <2>3. CASE v = w /\ SweepCommit(w)
    <3>1. resv' = [o \in Orders |-> IF o \in batch[w] THEN "expired" ELSE resv[o]]
      BY <2>3 DEF SweepCommit
    <3>2. batch[w] \subseteq Freed'
      BY <1>0, <3>1 DEF Freed
    <3> QED
      BY <2>3, <3>2 DEF SweepCommit, BatchMove
  <2>4. CASE v = w /\ (SweepStale(w) \/ ReaperFail(w))
    BY <1>0, <2>4 DEF SweepStale, ReaperFail, BatchMove
  <2>5. CASE v = w /\ ReaperPublish(w)
    BY <1>0, <2>5 DEF ReaperPublish, BatchMove
  <2> QED
    BY <1>8, <2>1, <2>2, <2>3, <2>4, <2>5
<1>9. CASE UNCHANGED vars
  BY <1>9, <1>1 DEF vars
<1> QED
  BY StepCases, <1>2, <1>4, <1>5, <1>6, <1>7, <1>8, <1>9

(* No row is ever deleted. *)
LEMMA RowsStay ==
  ASSUME TypeOK, Causality, AtWork, [Next]_vars, NEW o \in Orders
  PROVE  /\ resv[o] # None => resv'[o] # None
         /\ order[o] # None => order'[o] # None
<1>0. /\ resv \in [Orders -> ReservationStatuses \cup {None}]
      /\ order \in [Orders -> OrderStatuses \cup {None}]
  BY DEF TypeOK
<1>1. TablesMove /\ OrderMove
  BY RowMoves
<1>2. \A m : SettledAs(m) # None
  BY NoneIsNoStatus DEF SettledAs
<1>3. resv[o] # None => resv'[o] # None
  BY <1>0, <1>1, <1>2, NoneIsNoStatus DEF TablesMove, tables
<1>4. order[o] # None => order'[o] # None
  BY <1>0, <1>1, NoneIsNoStatus DEF OrderMove
<1> QED
  BY <1>3, <1>4

(* Every step keeps Causality. *)
LEMMA CausalityNext ==
  TypeOK /\ Causality /\ AtWork /\ [Next]_vars => Causality'
<1> SUFFICES ASSUME TypeOK, Causality, AtWork, [Next]_vars PROVE Causality'
  OBVIOUS
<1>0. /\ book \in [Orders -> {"idle", "looked", "reserved", "stored", "done"}]
      /\ resv \in [Orders -> ReservationStatuses \cup {None}]
      /\ order \in [Orders -> OrderStatuses \cup {None}]
      /\ job \in [Callers -> Jobs \cup {None}]
      /\ batch \in [Reapers -> SUBSET Orders]
  BY DEF TypeOK
<1>1. TablesMove /\ OrderMove /\ BookMove
  BY RowMoves
<1>2. \A o \in Orders : /\ resv[o] # None => resv'[o] # None
                        /\ order[o] # None => order'[o] # None
  BY RowsStay
<1>3. \A p \in Callers : job[p] # None => job[p].order \in Orders /\ resv[job[p].order] # None
                                          /\ order[job[p].order] # None
  <2> SUFFICES ASSUME NEW p \in Callers, job[p] # None
               PROVE  job[p].order \in Orders /\ resv[job[p].order] # None
                      /\ order[job[p].order] # None
    OBVIOUS
  <2>1. job[p] \in Jobs
    BY <1>0
  <2>2. job[p].order \in Orders
    BY <2>1, JobFacts
  <2> QED
    BY <2>2 DEF Causality
<1>4. ASSUME NEW o \in Orders, book'[o] \in {"idle", "looked"}
      PROVE  resv'[o] = None
  <2>1. book[o] \in {"idle", "looked"}
    BY <1>0, <1>1, <1>4 DEF BookMove, bookVars
  <2>2. resv[o] = None
    BY <2>1 DEF Causality
  <2>3. \A w \in Reapers : o \notin batch[w]
    BY <2>2 DEF Causality
  <2>4. \A p \in Callers : job[p] # None => job[p].order # o
    BY <1>3, <2>2
  <2>5. ASSUME NEW q \in Orders, book[q] = "looked" /\ book'[q] # "looked",
               resv' = [resv EXCEPT ![q] = "pending"]
        PROVE  resv'[o] = None
    <3>1. q # o
      BY <1>0, <1>1, <1>4, <2>5 DEF BookMove, bookVars
    <3> QED
      BY <1>0, <2>2, <2>5, <3>1
  <2> QED
    BY <1>0, <1>1, <2>2, <2>3, <2>4, <2>5 DEF TablesMove, tables
<1>5. ASSUME NEW o \in Orders, book'[o] \in {"idle", "looked", "reserved"}
      PROVE  order'[o] = None
  <2>1. book[o] \in {"idle", "looked", "reserved"}
    BY <1>0, <1>1, <1>5 DEF BookMove, bookVars
  <2>2. order[o] = None
    BY <2>1 DEF Causality
  <2>3. \A p \in Callers : pc[p] = "answered" => job[p].order # o
    BY <1>3, <2>2 DEF AtWork
  <2> QED
    BY <1>0, <1>1, <1>5, <2>2, <2>3 DEF OrderMove
<1>6. ASSUME NEW o \in Orders, book'[o] \in {"reserved", "stored"}
      PROVE  resv'[o] # None
  <2>1. \/ book[o] \in {"reserved", "stored"}
        \/ resv'[o] = "pending"
    BY <1>0, <1>1, <1>6 DEF BookMove, bookVars
  <2> QED
    BY <2>1, <1>2, NoneIsNoStatus DEF Causality
<1>7. ASSUME NEW o \in Orders, order'[o] # None
      PROVE  resv'[o] # None
  <2>1. order[o] # None \/ book[o] = "reserved"
    BY <1>0, <1>1, <1>3, <1>7 DEF OrderMove, AtWork
  <2> QED
    BY <2>1, <1>2 DEF Causality
<1>8. ASSUME NEW p \in Callers, job'[p] # None
      PROVE  order'[job'[p].order] # None
  <2>1. CallerMove(p)
    BY CallerMoves
  <2>2. CASE Started(p)
    <3>1. job'[p].order \in Orders /\ order[job'[p].order] # None
      BY <2>2, JobFacts DEF Started
    <3> QED
      BY <3>1, <1>2
  <2>3. CASE WentOn(p) \/ job'[p] = job[p]
    <3>1. job[p] # None /\ job'[p].order = job[p].order
      BY <1>8, <2>3 DEF WentOn
    <3> QED
      BY <3>1, <1>2, <1>3
  <2> QED
    BY <1>8, <2>1, <2>2, <2>3 DEF CallerMove
<1>9. ASSUME NEW w \in Reapers, NEW o \in batch'[w]
      PROVE  resv'[o] # None
  <2>1. BatchMove(w)
    BY BatchMoves
  <2>2. o \in batch[w] \/ o \in Overdue
    BY <1>9, <2>1 DEF BatchMove
  <2>3. o \in Orders /\ resv[o] # None
    BY <1>0, <2>2, NoneIsNoStatus DEF Causality, Overdue
  <2> QED
    BY <2>3, <1>2
<1> QED
  BY <1>4, <1>5, <1>6, <1>7, <1>8, <1>9 DEF Causality

(* Every step keeps AtWork. *)
LEMMA AtWorkNext == TypeOK /\ Causality /\ AtWork /\ [Next]_vars => AtWork'
<1> SUFFICES ASSUME TypeOK, Causality, AtWork, [Next]_vars, NEW p \in Callers
             PROVE  /\ job'[p] = None <=> pc'[p] = "idle"
                    /\ job'[p] # None => (job'[p].msg = "cancel" <=> p \in Cancels)
  BY DEF AtWork
<1>1. CallerMove(p)
  BY CallerMoves
<1>2. CASE Started(p)
  BY <1>2, JobFacts DEF Started
<1>3. CASE WentOn(p)
  BY <1>3, JobFacts DEF WentOn, AtWork
<1> QED
  BY <1>1, <1>2, <1>3 DEF CallerMove, AtWork

(* What is queued after the step. *)
QueuedNext(o, msg) == IF msg = "expired" THEN expiries'[o] > 0 ELSE payments'[o] # <<>>

(* Every step keeps InHand: a partition gets a new owner only when it has
   none, and a message that is passed has no owner left. *)
LEMMA InHandNext == TypeOK /\ Causality /\ AtWork /\ InHand /\ [Next]_vars => InHand'
<1> SUFFICES ASSUME TypeOK, Causality, AtWork, InHand, [Next]_vars PROVE InHand'
  OBVIOUS
<1>0. /\ charged \in [Orders -> Seq(BOOLEAN)] /\ payments \in [Orders -> Seq(BOOLEAN)]
      /\ expiries \in [Orders -> Nat] /\ batch \in [Reapers -> SUBSET Orders]
      /\ charge \in [Orders -> {"idle", "charged"}]
      /\ job \in [Callers -> Jobs \cup {None}]
  BY DEF TypeOK
<1>1. QueueMove /\ ChargeMove /\ TypeOK' /\ AtWork'
  BY QueueMoves, TypeNext, AtWorkNext
<1>2. ASSUME NEW o \in Orders, charge'[o] = "charged"
      PROVE  charged'[o] # <<>>
  <2>1. ASSUME NEW q \in Orders, NEW b \in BOOLEAN,
               charged' = [charged EXCEPT ![q] = Append(@, b)],
               charge' = [charge EXCEPT ![q] = "charged"]
        PROVE  charged'[o] # <<>>
    <3>1. Append(charged[q], b) # <<>>
      BY <1>0, AppendFacts
    <3>2. o # q => charge[o] = "charged" /\ charged'[o] = charged[o]
      BY <1>0, <1>2, <2>1
    <3>3. o = q => charged'[o] = Append(charged[q], b)
      BY <1>0, <2>1
    <3> QED
      BY <3>1, <3>2, <3>3 DEF InHand
  <2> QED
    BY <1>1, <1>2, <2>1 DEF ChargeMove, InHand
<1>3. ASSUME NEW h \in Handlers, Owner(h)'
      PROVE  /\ h \in Callers /\ job'[h] \in Jobs /\ job'[h].order \in Orders
             /\ job'[h].msg \in {"paid", "declined", "expired"}
             /\ \/ Started(h)
                \/ Owner(h) /\ job[h].order = job'[h].order /\ job[h].msg = job'[h].msg
  <2>1. h \in Callers /\ h \notin Cancels /\ job'[h] # None /\ job'[h].mode = "live"
    BY <1>3, Roles DEF Owner
  <2>2. job'[h] \in Jobs
    BY <1>1, <2>1 DEF TypeOK
  <2>3. job'[h].order \in Orders /\ job'[h].msg \in {"paid", "declined", "cancel", "expired"}
    BY <2>2, JobFacts
  <2>4. job'[h].msg # "cancel"
    BY <1>1, <2>1 DEF AtWork
  <2>5. CallerMove(h)
    BY <2>1, CallerMoves
  <2> QED
    BY <2>1, <2>2, <2>3, <2>4, <2>5 DEF CallerMove, WentOn, Owner
<1>4. ASSUME NEW h \in Handlers, Owner(h)'
      PROVE  QueuedNext(job'[h].order, job'[h].msg)
  <2> DEFINE o == job'[h].order
             m == job'[h].msg
  <2>0. o \in Orders /\ m \in {"paid", "declined", "expired"} /\ h \in Callers
    BY <1>3, <1>4
  <2>1. CASE Started(h)
    <3>1. Queued(o, m) /\ UNCHANGED queues
      BY <1>4, <2>1 DEF Started
    <3> QED
      BY <3>1 DEF Queued, QueuedNext, queues
  <2>2. CASE Owner(h) /\ job[h].order = o /\ job[h].msg = m
    <3> HIDE DEF o, m
    <3>1. Queued(o, m)
      BY <2>2 DEF InHand
    <3>2. ASSUME UNCHANGED queues
          PROVE  QueuedNext(o, m)
      BY <3>1, <3>2 DEF Queued, QueuedNext, queues
    <3>3. ASSUME NEW q \in Orders, charge[q] = "charged", UNCHANGED expiries,
                 payments' = [payments EXCEPT ![q] = Append(@, charged[q][Len(charged[q])])]
          PROVE  QueuedNext(o, m)
      <4>1. charged[q][Len(charged[q])] \in BOOLEAN
        BY <1>0, <3>3, LastFacts DEF InHand
      <4>2. Append(payments[q], charged[q][Len(charged[q])]) # <<>>
        BY <1>0, <4>1, AppendFacts
      <4>3. payments'[o] = payments[o] \/ payments'[o] # <<>>
        BY <1>0, <2>0, <3>3, <4>2
      <4> QED
        BY <3>1, <3>3, <4>3 DEF Queued, QueuedNext
    <3>4. ASSUME NEW w \in Reapers, NEW q \in batch[w], UNCHANGED payments,
                 expiries' = [expiries EXCEPT ![q] = @ + 1]
          PROVE  QueuedNext(o, m)
      <4>1. expiries'[o] >= expiries[o] /\ expiries[o] \in Nat /\ expiries'[o] \in Nat
        BY <1>0, <2>0, <3>4
      <4> QED
        BY <3>1, <3>4, <4>1 DEF Queued, QueuedNext
    <3>5. ASSUME NEW q \in Orders, NEW msg \in {"paid", "declined", "expired"}, Pass(q, msg),
                 ~(o = q /\ SameQueue(m, msg))
          PROVE  QueuedNext(o, m)
      BY <1>0, <2>0, <3>1, <3>5 DEF Queued, QueuedNext, Pass, SameQueue
    <3> QED
      BY <1>1, <1>4, <2>2, <3>2, <3>3, <3>4, <3>5 DEF QueueMove, Owner, o, m
  <2> QED
    BY <1>3, <1>4, <2>1, <2>2
<1>5. ASSUME NEW g \in Handlers, NEW h \in Handlers, g # h, Owner(g)', Owner(h)', Started(h),
             job'[g].order = job'[h].order, SameQueue(job'[g].msg, job'[h].msg)
      PROVE  FALSE
  <2>1. /\ g \in Callers /\ h \in Callers
        /\ job'[g].msg \in {"paid", "declined", "expired"}
        /\ job'[h].msg \in {"paid", "declined", "expired"}
    BY <1>3, <1>5
  <2>2. Unowned(job'[h].order, job'[h].msg) /\ job' = [job EXCEPT ![h] = job'[h]]
    BY <1>5 DEF Started
  <2>3. job'[g] = job[g]
    BY <1>0, <1>5, <2>1, <2>2
  <2>4. job[g].msg \in Kind(job'[h].msg)
    BY <1>5, <2>1, <2>3, KindFacts
  <2> QED
    BY <1>5, <2>2, <2>3, <2>4 DEF Unowned, Owner
<1>6. ASSUME NEW g \in Handlers, NEW h \in Handlers, Owner(g)', Owner(h)',
             job'[g].order = job'[h].order, SameQueue(job'[g].msg, job'[h].msg)
      PROVE  g = h
  <2>1. SameQueue(job'[h].msg, job'[g].msg)
    BY <1>6 DEF SameQueue
  <2>2. CASE Started(g) \/ Started(h)
    BY <1>5, <1>6, <2>1, <2>2
  <2>3. CASE ~Started(g) /\ ~Started(h)
    <3>1. /\ Owner(g) /\ job[g].order = job'[g].order /\ job[g].msg = job'[g].msg
          /\ Owner(h) /\ job[h].order = job'[h].order /\ job[h].msg = job'[h].msg
      BY <1>3, <1>6, <2>3
    <3>2. job[g].order = job[h].order /\ SameQueue(job[g].msg, job[h].msg)
      BY <1>6, <3>1
    <3> QED
      BY <3>1, <3>2 DEF InHand
  <2> QED
    BY <2>2, <2>3
<1> QED
  BY <1>2, <1>4, <1>6 DEF InHand, Queued, QueuedNext

(* Every step keeps FreedFirst. *)
LEMMA FreedFirstNext ==
  TypeOK /\ Causality /\ AtWork /\ InHand /\ FreedFirst /\ [Next]_vars => FreedFirst'
<1> SUFFICES ASSUME TypeOK, Causality, AtWork, InHand, FreedFirst, [Next]_vars PROVE FreedFirst'
  OBVIOUS
<1>0. /\ expiries \in [Orders -> Nat] /\ batch \in [Reapers -> SUBSET Orders]
      /\ batch' \in [Reapers -> SUBSET Orders]
  BY SettlerTypes DEF TypeOK
<1>1. \A o \in Orders : WasFreed(o) => o \in Freed' \cup twice'
  BY FreedGrows DEF WasFreed
<1>2. ASSUME NEW p \in Callers, pc'[p] = "answered" /\ job'[p].msg # "paid"
      PROVE  job'[p].order \in Freed' \cup twice'
  <2>1. CallerMove(p)
    BY CallerMoves
  <2>2. CASE Started(p)
    <3>1. /\ job'[p] \in Jobs /\ job'[p].msg = "expired" /\ p \notin Cancels
      BY <1>2, <2>2 DEF Started
    <3>2. job'[p].order \in Orders /\ p \in Handlers
      BY <3>1, JobFacts, Roles
    <3>3. expiries[job'[p].order] > 0
      BY <2>2, <3>1, <3>2 DEF Started, Queued
    <3> QED
      BY <3>2, <3>3, <1>1 DEF FreedFirst
  <2>3. CASE WentOn(p)
    <3>1. /\ job'[p] \in Jobs /\ job'[p].order = job[p].order /\ job'[p].msg = job[p].msg
          /\ pc[p] = "answered" \/ job[p].order \in Freed'
      BY <1>2, <2>3 DEF WentOn
    <3>2. job'[p].order \in Orders
      BY <3>1, JobFacts
    <3>3. CASE pc[p] = "answered"
      BY <1>1, <1>2, <3>1, <3>2, <3>3 DEF FreedFirst
    <3>4. CASE job[p].order \in Freed'
      BY <3>1, <3>4
    <3> QED
      BY <3>1, <3>3, <3>4
  <2>4. CASE job'[p] = job[p] /\ pc'[p] = pc[p]
    <3>1. job[p] # None /\ job[p] \in Jobs
      BY <1>2, <2>4 DEF AtWork, TypeOK
    <3>2. job[p].order \in Orders
      BY <3>1, JobFacts
    <3> QED
      BY <1>1, <1>2, <2>4, <3>2 DEF FreedFirst
  <2> QED
    BY <1>2, <2>1, <2>2, <2>3, <2>4 DEF CallerMove
<1>3. ASSUME NEW o \in Orders, expiries'[o] > 0
      PROVE  o \in Freed' \cup twice'
  <2>1. QueueMove
    BY QueueMoves
  <2>2. ASSUME NEW q \in Orders, NEW msg, Pass(q, msg)
        PROVE  expiries[o] > 0
    BY <1>0, <1>3, <2>2 DEF Pass
  <2>3. expiries[o] > 0 \/ \E w \in Reapers : pc[w] = "publish" /\ o \in batch[w]
    BY <1>0, <1>3, <2>1, <2>2 DEF QueueMove, queues
  <2>4. WasFreed(o)
    BY <2>3 DEF FreedFirst
  <2> QED
    BY <2>4, <1>1
<1>4. ASSUME NEW w \in Reapers, pc'[w] = "publish", NEW o \in batch'[w]
      PROVE  o \in Freed' \cup twice'
  <2>1. BatchMove(w)
    BY BatchMoves
  <2>2. (o \in batch[w] /\ pc[w] = "publish") \/ o \in Freed'
    BY <1>4, <2>1 DEF BatchMove
  <2>3. o \in Orders
    BY <1>0
  <2> QED
    BY <2>2, <2>3, <1>1 DEF FreedFirst, WasFreed
<1> QED
  BY <1>2, <1>3, <1>4 DEF FreedFirst, WasFreed

(* Every step keeps SettledOrderHoldsNoSeat. *)
LEMMA SettledNext ==
  TypeOK /\ Causality /\ AtWork /\ FreedFirst /\ SettledOrderHoldsNoSeat /\ [Next]_vars
  => SettledOrderHoldsNoSeat'
<1> SUFFICES ASSUME TypeOK, Causality, AtWork, FreedFirst, SettledOrderHoldsNoSeat, [Next]_vars,
                    NEW o \in Orders, order'[o] \in {"cancelled", "expired"}
             PROVE  WasFreed(o)'
  BY DEF SettledOrderHoldsNoSeat, WasFreed
<1>1. OrderMove /\ order \in [Orders -> OrderStatuses \cup {None}]
  BY RowMoves DEF TypeOK
<1>2. \/ order[o] \in {"cancelled", "expired"}
      \/ \E p \in Callers : pc[p] = "answered" /\ job[p].msg # "paid" /\ job[p].order = o
  BY <1>1 DEF OrderMove
<1>3. WasFreed(o)
  BY <1>2 DEF FreedFirst, SettledOrderHoldsNoSeat, WasFreed
<1> QED
  BY <1>3, FreedGrows

(* Every step keeps OneOrderPerKey. *)
LEMMA OneOrderNext ==
  TypeOK /\ Causality /\ AtWork /\ OneOrderPerKey /\ [Next]_vars => OneOrderPerKey'
<1> SUFFICES ASSUME TypeOK, Causality, AtWork, OneOrderPerKey, [Next]_vars,
                    NEW o \in Orders, NEW p \in Orders, order'[o] # None, order'[p] # None,
                    key'[o] = key'[p], key'[o] # None
             PROVE  o = p
  BY DEF OneOrderPerKey
<1>0. /\ order \in [Orders -> OrderStatuses \cup {None}] /\ key \in [Orders -> Keys \cup {None}]
  BY DEF TypeOK
<1>1. OrderMove /\ BookMove
  BY RowMoves
<1>2. CASE UNCHANGED key
  <2>1. ASSUME NEW q \in Orders, ~KeyTaken(q), order' = [order EXCEPT ![q] = "pending"]
        PROVE  o = p
    BY <1>0, <1>2, <2>1 DEF KeyTaken, OneOrderPerKey
  <2>2. ASSUME NEW c \in Callers, NEW s, pc[c] = "answered",
               order' = [order EXCEPT ![job[c].order] = s]
        PROVE  o = p
    <3>1. order[job[c].order] # None
      BY <2>2 DEF AtWork, Causality
    <3>2. order[o] # None /\ order[p] # None
      BY <1>0, <2>2, <3>1
    <3> QED
      BY <1>2, <3>2 DEF OneOrderPerKey
  <2>3. CASE UNCHANGED order
    BY <1>2, <2>3 DEF OneOrderPerKey
  <2> QED
    BY <1>1, <2>1, <2>2, <2>3 DEF OrderMove
<1>3. ASSUME NEW q \in Orders, NEW k, book[q] = "idle", UNCHANGED order,
             key' = [key EXCEPT ![q] = k]
      PROVE  o = p
  <2>1. order[q] = None
    BY <1>3 DEF Causality
  <2> QED
    BY <1>0, <1>3, <2>1 DEF OneOrderPerKey
<1> QED
  BY <1>1, <1>2, <1>3 DEF BookMove, bookVars

(* A charge that succeeded stays on record. *)
LEMMA PaidStays ==
  ASSUME TypeOK, AtWork, InHand, [Next]_vars, NEW o \in Orders, Paid(o)
  PROVE  Paid(o)'
<1>0. charged \in [Orders -> Seq(BOOLEAN)]
  BY DEF TypeOK
<1>1. ChargeMove
  BY QueueMoves
<1>2. CASE UNCHANGED charged
  BY <1>2 DEF Paid
<1>3. ASSUME NEW q \in Orders, NEW b \in BOOLEAN,
             charged' = [charged EXCEPT ![q] = Append(@, b)]
      PROVE  Paid(o)'
  <2>1. charged[q] \in Seq(BOOLEAN)
    BY <1>0
  <2>2. \A i \in 1..Len(charged[q]) :
           i \in 1..Len(charged'[q]) /\ charged'[q][i] = charged[q][i]
    BY <1>0, <1>3, <2>1, AppendFacts
  <2> QED
    BY <1>0, <1>3, <2>1, <2>2 DEF Paid
<1> QED
  BY <1>1, <1>2, <1>3 DEF ChargeMove

(* Every step keeps ReportsAreTrue. *)
LEMMA ReportsNext ==
  TypeOK /\ Causality /\ AtWork /\ InHand /\ ReportsAreTrue /\ [Next]_vars => ReportsAreTrue'
<1> SUFFICES ASSUME TypeOK, Causality, AtWork, InHand, ReportsAreTrue, [Next]_vars
             PROVE  ReportsAreTrue'
  OBVIOUS
<1>0. /\ charged \in [Orders -> Seq(BOOLEAN)] /\ payments \in [Orders -> Seq(BOOLEAN)]
  BY DEF TypeOK
<1>1. QueueMove
  BY QueueMoves
<1>2. \A o \in Orders : Paid(o) => Paid(o)'
  BY PaidStays
<1>3. ASSUME NEW o \in Orders, NEW i \in 1..Len(payments'[o]), payments'[o][i]
      PROVE  Paid(o)'
  <2>1. CASE payments'[o] = payments[o]
    BY <1>2, <1>3, <2>1 DEF ReportsAreTrue
  <2>2. ASSUME charge[o] = "charged", UNCHANGED charged,
               payments'[o] = Append(payments[o], charged[o][Len(charged[o])])
        PROVE  Paid(o)'
    <3> DEFINE b == charged[o][Len(charged[o])]
    <3>1. /\ charged[o] \in Seq(BOOLEAN) /\ charged[o] # <<>> /\ payments[o] \in Seq(BOOLEAN)
      BY <1>0, <2>2 DEF InHand
    <3>2. b \in BOOLEAN /\ Len(charged[o]) \in 1..Len(charged[o])
      BY <3>1, LastFacts
    <3>3. DOMAIN charged[o] = 1..Len(charged[o])
      BY <3>1
    <3>4. b => Paid(o)
      BY <3>2, <3>3 DEF Paid
    <3> HIDE DEF b
    <3>5. Len(payments'[o]) = Len(payments[o]) + 1 /\ Len(payments[o]) \in Nat
      BY <2>2, <3>1, <3>2, AppendFacts DEF b
    <3>6. CASE i \in 1..Len(payments[o])
      <4>1. payments'[o][i] = payments[o][i]
        BY <2>2, <3>1, <3>2, <3>6, AppendFacts DEF b
      <4> QED
        BY <1>2, <1>3, <3>6, <4>1 DEF ReportsAreTrue
    <3>7. CASE i = Len(payments[o]) + 1
      <4>1. payments'[o][i] = b
        BY <2>2, <3>1, <3>2, <3>7, AppendFacts DEF b
      <4> QED
        BY <1>2, <1>3, <3>4, <4>1
    <3> QED
      BY <1>3, <3>5, <3>6, <3>7
  <2>3. ASSUME payments[o] # <<>>, payments'[o] = Tail(payments[o])
        PROVE  Paid(o)'
    <3>1. payments[o] \in Seq(BOOLEAN)
      BY <1>0
    <3>2. payments'[o][i] = payments[o][i + 1] /\ i + 1 \in 1..Len(payments[o])
      BY <1>3, <2>3, <3>1, TailFacts
    <3>3. Paid(o)
      BY <1>3, <3>2 DEF ReportsAreTrue
    <3> QED
      BY <1>2, <3>3
  <2>4. ASSUME NEW q \in Orders, charge[q] = "charged", UNCHANGED charged,
               payments' = [payments EXCEPT ![q] = Append(@, charged[q][Len(charged[q])])]
        PROVE  Paid(o)'
    <3>1. payments'[o] = payments[o]
          \/ (q = o /\ payments'[o] = Append(payments[o], charged[o][Len(charged[o])]))
      BY <1>0, <2>4
    <3> QED
      BY <2>1, <2>2, <2>4, <3>1
  <2>5. ASSUME NEW q \in Orders, NEW msg, Pass(q, msg), Queued(q, msg)
        PROVE  Paid(o)'
    <3>1. payments'[o] = payments[o]
          \/ (q = o /\ payments[o] # <<>> /\ payments'[o] = Tail(payments[o]))
      BY <1>0, <2>5 DEF Pass, Queued
    <3> QED
      BY <2>1, <2>3, <3>1
  <2> QED
    BY <1>1, <2>1, <2>4, <2>5 DEF QueueMove, queues
<1>4. ASSUME NEW p \in Callers, job'[p] # None, job'[p].msg = "paid"
      PROVE  \E o \in Orders : o = job'[p].order /\ Paid(o)
  <2>1. CallerMove(p)
    BY CallerMoves
  <2>2. CASE Started(p)
    <3>1. job'[p].order \in Orders /\ p \in Handlers
      BY <1>4, <2>2, JobFacts, Roles DEF Started
    <3>2. payments[job'[p].order] # <<>> /\ Head(payments[job'[p].order])
      BY <1>4, <2>2, <3>1 DEF Started, Queued
    <3>3. /\ Head(payments[job'[p].order]) = payments[job'[p].order][1]
          /\ 1 \in 1..Len(payments[job'[p].order])
      BY <1>0, <3>1, <3>2, TailFacts
    <3>4. payments[job'[p].order][1]
      BY <3>2, <3>3
    <3> QED
      BY <3>1, <3>3, <3>4 DEF ReportsAreTrue
  <2>3. CASE WentOn(p) \/ job'[p] = job[p]
    <3>1. job[p] # None /\ job'[p].order = job[p].order /\ job'[p].msg = job[p].msg
      BY <1>4, <2>3 DEF WentOn
    <3>2. job[p] \in Jobs
      BY <3>1 DEF TypeOK
    <3>3. job[p].order \in Orders
      BY <3>2, JobFacts
    <3> QED
      BY <1>4, <3>1, <3>3 DEF ReportsAreTrue
  <2> QED
    BY <1>4, <2>1, <2>2, <2>3 DEF CallerMove
<1>5. ASSUME NEW p \in Callers, job'[p] # None, job'[p].msg = "paid"
      PROVE  \E i \in DOMAIN charged'[job'[p].order] : charged'[job'[p].order][i]
  BY <1>2, <1>4, <1>5 DEF Paid
<1> QED
  BY <1>3, <1>5 DEF ReportsAreTrue, Paid

(* A ticket is announced by a handler that has a successful payment. *)
LEMMA TicketMoves ==
  ASSUME TypeOK, AtWork, [Next]_vars, NEW o \in Orders, "ticket" \in notes'[o] \cup emails'[o]
  PROVE  \/ "ticket" \in notes[o] \cup emails[o]
         \/ \E h \in Callers : job[h] # None /\ job[h].msg = "paid" /\ job[h].order = o
<1> DEFINE Good == \/ "ticket" \in notes[o] \cup emails[o]
                   \/ \E h \in Callers : job[h] # None /\ job[h].msg = "paid" /\ job[h].order = o
<1>0. /\ notes \in [Orders -> SUBSET {"ticket", "cancelled"}]
      /\ emails \in [Orders -> SUBSET {"ticket", "cancelled"}]
  BY DEF TypeOK
<1>1. UNCHANGED mailVars => Good
  BY DEF mailVars
<1>2. ASSUME NEW q \in Orders, Notify(q) \/ NotifyFail(q)
      PROVE  Good
  BY <1>0, <1>2 DEF Notify, NotifyFail
<1>3. ASSUME NEW x \in Cancels, CancelPublish(x)
      PROVE  Good
  BY <1>0, <1>3 DEF CancelPublish
<1>4. ASSUME NEW h \in Handlers, PaymentPublish(h)
      PROVE  Good
  <2>1. h \in Callers /\ job[h] # None
    BY <1>4, Roles DEF AtWork, PaymentPublish
  <2>2. emails' = emails
    BY <1>4 DEF PaymentPublish
  <2>3. notes' = [notes EXCEPT ![job[h].order] =
                    @ \cup {IF job[h].msg = "paid" THEN "ticket" ELSE "cancelled"}]
    BY <1>4 DEF PaymentPublish
  <2> QED
    BY <1>0, <2>1, <2>2, <2>3
<1>5. ASSUME NEW q \in Orders,
             \/ BookLookup(q) \/ BookReserve(q) \/ BookStore(q) \/ BookPublish(q) \/ BookFail(q)
             \/ Charge(q) \/ ChargePublish(q) \/ ChargeFail(q)
      PROVE  UNCHANGED mailVars
  BY <1>5 DEF BookLookup, BookReserve, BookStore, BookPublish, BookFail, Charge, ChargePublish,
     ChargeFail
<1>6. ASSUME NEW x \in Cancels,
             \/ \E q \in Orders : CancelCheck(x, q)
             \/ CancelStale(x) \/ CancelStore(x) \/ CancelFail(x)
      PROVE  UNCHANGED mailVars
  BY <1>6 DEF CancelCheck, CancelStale, CancelStore, CancelFail
<1>7. ASSUME NEW p \in Settlers, SettleRead(p) \/ SettleCommit(p) \/ LoadRow(p)
      PROVE  UNCHANGED mailVars
  BY <1>7 DEF SettleRead, SettleCommit, LoadRow
<1>8. ASSUME NEW h \in Handlers,
             \/ \E q \in Orders : PaymentRead(h, q) \/ ExpiredRead(h, q)
             \/ HandlerStale(h) \/ PaymentStore(h) \/ ExpiredStore(h)
             \/ HandlerFail(h) \/ Rebalance(h)
      PROVE  UNCHANGED mailVars
  BY <1>8 DEF PaymentRead, ExpiredRead, HandlerStale, PaymentStore, ExpiredStore, HandlerFail,
     Rebalance
<1>9. ASSUME NEW w \in Reapers,
             SweepFind(w) \/ SweepCommit(w) \/ SweepStale(w) \/ ReaperPublish(w) \/ ReaperFail(w)
      PROVE  UNCHANGED mailVars
  BY <1>9 DEF SweepFind, SweepCommit, SweepStale, ReaperPublish, ReaperFail
<1>10. UNCHANGED vars => UNCHANGED mailVars
  BY DEF vars
<1> HIDE DEF Good
<1>11. Good
  BY StepCases, Roles, <1>1, <1>2, <1>3, <1>4, <1>5, <1>6, <1>7, <1>8, <1>9, <1>10
<1> QED
  BY <1>11 DEF Good

(* Every step keeps SoldIsPaid: each of its conclusions is drawn from a
   message that reports a success. *)
LEMMA SoldIsPaidNext ==
  TypeOK /\ Causality /\ AtWork /\ InHand /\ ReportsAreTrue /\ SoldIsPaid /\ [Next]_vars
  => SoldIsPaid'
<1> SUFFICES ASSUME TypeOK, Causality, AtWork, InHand, ReportsAreTrue, SoldIsPaid, [Next]_vars,
                    NEW o \in Orders,
                    \/ resv'[o] = "confirmed"
                    \/ order'[o] = "confirmed"
                    \/ "ticket" \in notes'[o] \cup emails'[o]
             PROVE  Paid(o)'
  BY DEF SoldIsPaid
<1>0. /\ resv \in [Orders -> ReservationStatuses \cup {None}]
      /\ order \in [Orders -> OrderStatuses \cup {None}]
  BY DEF TypeOK
<1>1. TablesMove /\ OrderMove
  BY RowMoves
<1>2. ASSUME NEW p \in Callers, job[p] # None, job[p].msg = "paid", job[p].order = o
      PROVE  Paid(o)
  BY <1>2 DEF ReportsAreTrue
<1>3. CASE resv'[o] = "confirmed"
  <2>1. \/ resv[o] = "confirmed"
        \/ \E p \in Callers : job[p] # None /\ job[p].msg = "paid" /\ job[p].order = o
    BY <1>0, <1>1, <1>3 DEF TablesMove, tables, SettledAs
  <2> QED
    BY <2>1, <1>2, PaidStays DEF SoldIsPaid
<1>4. CASE order'[o] = "confirmed"
  <2>1. \/ order[o] = "confirmed"
        \/ \E p \in Callers : job[p] # None /\ job[p].msg = "paid" /\ job[p].order = o
    BY <1>0, <1>1, <1>4 DEF OrderMove, AtWork
  <2> QED
    BY <2>1, <1>2, PaidStays DEF SoldIsPaid
<1>5. CASE "ticket" \in notes'[o] \cup emails'[o]
  BY <1>5, <1>2, TicketMoves, PaidStays DEF SoldIsPaid
<1> QED
  BY <1>3, <1>4, <1>5

(* Every step keeps the counters in line with the reservations, and within
   the capacity: a commit takes a seat out of the counters for each
   reservation it frees, and one that was freed before is recorded.        *)
LEMMA SeatsNext ==
  TypeOK /\ Causality /\ AtWork /\ SeatsAddUp /\ taken <= Capacity /\ [Next]_vars
  => SeatsAddUp' /\ taken' <= Capacity
<1> SUFFICES ASSUME TypeOK, Causality, AtWork, SeatsAddUp, taken <= Capacity, [Next]_vars
             PROVE  SeatsAddUp' /\ taken' <= Capacity
  OBVIOUS
<1>0. /\ resv \in [Orders -> ReservationStatuses \cup {None}] /\ taken \in Int
      /\ Capacity \in Nat /\ batch \in [Reapers -> SUBSET Orders]
  BY CapacityAssumption DEF TypeOK
<1>1. IsFiniteSet(Held) /\ Cardinality(Held) \in Nat
  BY OrdersAssumption, FS_Subset, FS_CardinalityType DEF Held
<1>2. TablesMove
  BY RowMoves
<1>3. CASE UNCHANGED tables
  BY <1>3 DEF tables, SeatsAddUp, Held
<1>4. ASSUME NEW o \in Orders, book[o] = "looked", taken < Capacity,
             resv' = [resv EXCEPT ![o] = "pending"], taken' = taken + 1, UNCHANGED twice
      PROVE  SeatsAddUp' /\ taken' <= Capacity
  <2>1. o \notin Held
    BY <1>4, NoneIsNoStatus DEF Causality, Held
  <2>2. Held' = Held \cup {o}
    BY <1>0, <1>4 DEF Held
  <2>3. Cardinality(Held') = Cardinality(Held) + 1
    BY <1>1, <2>1, <2>2, FS_AddElement
  <2> QED
    BY <1>0, <1>1, <1>4, <2>3 DEF SeatsAddUp
<1>5. ASSUME NEW p \in Callers, job[p] # None,
             resv' = [resv EXCEPT ![job[p].order] = SettledAs(job[p].msg)],
             taken' = taken - SeatBack(job[p].msg),
             twice' = twice \cup (Freed \cap {job[p].order})
      PROVE  SeatsAddUp' /\ taken' <= Capacity
  <2> DEFINE o == job[p].order
  <2>1. o \in Orders /\ resv[o] # None
    <3>1. job[p] \in Jobs
      BY <1>5 DEF TypeOK
    <3>2. o \in Orders
      BY <3>1, JobFacts
    <3> QED
      BY <1>5, <3>2 DEF Causality
  <2>2. o \in Held \/ o \in Freed
    BY <1>0, <2>1 DEF Held, Freed, ReservationStatuses
  <2>3. CASE job[p].msg = "paid"
    <3>1. taken' = taken /\ Held' = Held \cup {o}
      BY <1>0, <1>5, <2>1, <2>3 DEF Held, SettledAs, SeatBack
    <3>2. Cardinality(Held \cup {o}) =
             IF o \in Held THEN Cardinality(Held) ELSE Cardinality(Held) + 1
      BY <1>1, FS_AddElement
    <3>3. /\ Cardinality(Held') >= Cardinality(Held) /\ Cardinality(Held') \in Nat
          /\ o \in Held => Cardinality(Held') = Cardinality(Held)
      BY <1>1, <3>1, <3>2
    <3>4. o \in Freed => twice' # {}
      BY <1>5
    <3>5. twice' = {} => twice = {}
      BY <1>5
    <3> HIDE DEF o
    <3> QED
      BY <1>0, <1>1, <2>2, <3>1, <3>3, <3>4, <3>5 DEF SeatsAddUp
  <2>4. CASE job[p].msg # "paid"
    <3>1. taken' = taken - 1 /\ Held' = Held \ {o}
      BY <1>0, <1>5, <2>1, <2>4 DEF Held, SettledAs, SeatBack
    <3>2. /\ o \in Held => Cardinality(Held') = Cardinality(Held) - 1
          /\ o \notin Held => Cardinality(Held') = Cardinality(Held)
      BY <1>1, <3>1, FS_RemoveElement
    <3>3. o \in Freed => twice' # {}
      BY <1>5
    <3>4. twice' = {} => twice = {}
      BY <1>5
    <3> HIDE DEF o
    <3> QED
      BY <1>0, <1>1, <2>2, <3>1, <3>2, <3>3, <3>4 DEF SeatsAddUp
  <2> QED
    BY <2>3, <2>4
<1>6. ASSUME NEW w \in Reapers,
             resv' = [o \in Orders |-> IF o \in batch[w] THEN "expired" ELSE resv[o]],
             taken' = taken - Cardinality(batch[w]),
             twice' = twice \cup (Freed \cap batch[w])
      PROVE  SeatsAddUp' /\ taken' <= Capacity
  <2>1. IsFiniteSet(batch[w]) /\ Cardinality(batch[w]) \in Nat
    BY <1>0, OrdersAssumption, FS_Subset, FS_CardinalityType
  <2>2. Held' = Held \ batch[w]
    BY <1>6 DEF Held
  <2>3. Cardinality(Held') = Cardinality(Held) - Cardinality(Held \cap batch[w])
    BY <1>1, <2>2, FS_Difference
  <2>4. /\ Cardinality(Held \cap batch[w]) <= Cardinality(batch[w])
        /\ Cardinality(Held \cap batch[w]) \in Nat
    BY <2>1, FS_Subset, FS_CardinalityType
  <2>5. batch[w] \subseteq Held \cup Freed
    BY <1>0 DEF Causality, Held, Freed, ReservationStatuses
  <2>6. twice' = {} => twice = {} /\ Held \cap batch[w] = batch[w]
    BY <1>6, <2>5
  <2>7. twice' = {} => twice = {} /\ Cardinality(Held \cap batch[w]) = Cardinality(batch[w])
    BY <2>6
  <2>8. taken' <= Capacity /\ taken' <= Cardinality(Held')
    BY <1>0, <1>1, <1>6, <2>1, <2>3, <2>4 DEF SeatsAddUp
  <2>9. twice' = {} => taken' = Cardinality(Held')
    BY <1>0, <1>1, <1>6, <2>1, <2>3, <2>7 DEF SeatsAddUp
  <2> QED
    BY <2>8, <2>9 DEF SeatsAddUp
<1> QED
  BY <1>2, <1>3, <1>4, <1>5, <1>6 DEF TablesMove

-----------------------------------------------------------------------------
(* The inductive invariant holds in every reachable state, for any number of
   orders and processes and whatever fails.                                *)
THEOREM IndInvHolds == Spec => []IndInv
<1>1. Init => IndInv
  <2> SUFFICES ASSUME Init PROVE IndInv
    OBVIOUS
  <2>1. TypeOK
    BY DEF Init, TypeOK
  <2>2. Causality /\ AtWork /\ InHand /\ FreedFirst
    BY Roles DEF Init, Causality, AtWork, InHand, Owner, FreedFirst
  <2>3. ReportsAreTrue
    <3>1. \A o \in Orders : Len(payments[o]) = 0
      BY DEF Init
    <3>2. \A p \in Callers : job[p] = None
      BY DEF Init
    <3> QED
      BY <3>1, <3>2 DEF ReportsAreTrue
  <2>4. OneOrderPerKey /\ SettledOrderHoldsNoSeat /\ SoldIsPaid
    BY NoneIsNoStatus DEF Init, OneOrderPerKey, SettledOrderHoldsNoSeat, SoldIsPaid
  <2>5. SeatsAddUp /\ taken <= Capacity
    <3>1. Held = {}
      BY NoneIsNoStatus DEF Init, Held
    <3> QED
      BY <3>1, FS_EmptySet, CapacityAssumption DEF Init, SeatsAddUp
  <2> QED
    BY <2>1, <2>2, <2>3, <2>4, <2>5 DEF IndInv
<1>2. IndInv /\ [Next]_vars => IndInv'
  BY TypeNext, CausalityNext, AtWorkNext, InHandNext, FreedFirstNext, ReportsNext, OneOrderNext,
     SettledNext, SoldIsPaidNext, SeatsNext DEF IndInv
<1> QED
  BY <1>1, <1>2, PTL DEF Spec

(* The model's variables keep their types. *)
THEOREM TypeCorrect == Spec => []TypeOK
  BY IndInvHolds, PTL DEF IndInv

(* At most one order per idempotency key, for any number of racing requests. *)
THEOREM IdempotentBooking == Spec => []OneOrderPerKey
  BY IndInvHolds, PTL DEF IndInv

(* A cancelled or expired order holds no seat unless its reservation was
   settled again by a session that had read it before it was freed: cancel_order,
   the payment handler and the reaper have the seat freed before the status is
   stored.                                                                 *)
THEOREM SettledOrdersFree == Spec => []SettledOrderHoldsNoSeat
  BY IndInvHolds, PTL DEF IndInv

(* No seat, confirmed order or ticket without a charge that succeeded. *)
THEOREM NothingSoldUnpaid == Spec => []SoldIsPaid
  BY IndInvHolds, PTL DEF IndInv

(* The counters never stand for a seat that nobody holds, and are exact until
   a freed reservation is settled again, for sweeps of any size by any number
   of reapers.                                                             *)
THEOREM CountersAddUp == Spec => []SeatsAddUp
  BY IndInvHolds, PTL DEF IndInv

(* The event is overbooked only after a freed reservation was settled again:
   that race is the one way in which the order flow can sell a seat twice.  *)
THEOREM OverbookedByRaceOnly == Spec => [](twice = {} => Cardinality(Held) <= Capacity)
<1>1. IndInv => (twice = {} => Cardinality(Held) <= Capacity)
  BY DEF IndInv, SeatsAddUp
<1> QED
  BY <1>1, IndInvHolds, PTL

=============================================================================
