------------------------------- MODULE Booking -------------------------------
(***************************************************************************)
(* The life of an order: BookingService in the API, the payment, order     *)
(* status and notification workers, the reservation reaper, the settlement *)
(* calls they make to the Inventory service, and the Kafka messages        *)
(* between them.  Every await is a point where other requests and workers  *)
(* may run, so each handler is split there.                                *)
(*                                                                         *)
(* Of the Inventory service, confirm, release and the sweep are modelled   *)
(* with their SELECTs apart from their commit, as in module Inventory;     *)
(* reserve, whose version check makes it atomic, is one step.  An order,   *)
(* its booking request and its reservation share one name, the order_id    *)
(* that the request draws.  Every order is for one seat of one event.      *)
(***************************************************************************)
EXTENDS Integers, Sequences, FiniteSets

CONSTANTS
    Orders,      \* the booking requests
    Keys,        \* the idempotency keys users send; None, if some send none
    Cancels,     \* cancel requests that can be under way at a time
    Handlers,    \* runs of the order status worker's handlers, likewise
    Reapers,     \* the replicas of the reaper
    Capacity,    \* the seats of the event
    MaxCharges,  \* bound on the deliveries of one ORDER_CREATED message
    Faults,      \* whether processes and calls may fail
    None

OrderStatuses == {"pending", "confirmed", "cancelled", "expired"}
ReservationStatuses == {"pending", "confirmed", "released", "expired"}

(* Who calls ConfirmReservation or ReleaseReservation, and who settles. *)
Callers == Cancels \cup Handlers
Settlers == Callers \cup Reapers

(* What a caller is at: its order, the request or message it handles, and
   whether it still owns that message and still waits for its calls.  The
   partition of a "revoked" handler has a new owner; a call that was "left"
   goes on in the Inventory service although its caller has died or timed
   out.                                                                    *)
Payments == {"paid", "declined"}
Jobs == [order : Orders, msg : Payments \cup {"cancel", "expired"},
         mode : {"live", "revoked", "left"}]

ASSUME OrdersAssumption == IsFiniteSet(Orders)
ASSUME SettlersAssumption ==
    /\ Cancels \cap Handlers = {}
    /\ Callers \cap Reapers = {}
ASSUME NoneAssumption ==
    None \notin OrderStatuses \cup ReservationStatuses \cup Jobs
ASSUME CapacityAssumption == Capacity \in Nat \ {0} /\ MaxCharges \in Nat \ {0}
ASSUME FaultsAssumption == Faults \in BOOLEAN

VARIABLES
    book,      \* where the booking request of each order is
    key,       \* the idempotency key of each request, or None
    order,     \* the orders table: the status of each row, or None
    resv,      \* the reservations table: the status of each row, or None
    taken,     \* reserved_count + confirmed_count of the event
    twice,     \* reservations settled again by a session that saw them unsettled
    created,   \* the ORDER_CREATED message of each order
    charge,    \* where the payment worker is with each order
    charged,   \* the outcomes of the charges made for each order
    payments,  \* the PAYMENT_PROCESSED messages of each order, in order
    expiries,  \* the number of RESERVATION_EXPIRED messages of each order
    pc,        \* where each settler is
    job,       \* what each caller is at, or None
    batch,     \* the reservations in each reaper's hand
    notes,     \* the notification messages of each order
    emails     \* the mails sent about each order

bookVars == <<book, key>>
tables == <<resv, taken, twice>>
chargeVars == <<created, charge, charged>>
queues == <<payments, expiries>>
mailVars == <<notes, emails>>
vars == <<bookVars, order, tables, chargeVars, queues, pc, job, batch, mailVars>>

TypeOK ==
    /\ book \in [Orders -> {"idle", "looked", "reserved", "stored", "done"}]
    /\ key \in [Orders -> Keys \cup {None}]
    /\ order \in [Orders -> OrderStatuses \cup {None}]
    /\ resv \in [Orders -> ReservationStatuses \cup {None}]
    /\ taken \in Int
    /\ twice \subseteq Orders
    /\ created \in [Orders -> {"none", "queued", "gone"}]
    /\ charge \in [Orders -> {"idle", "charged"}]
    /\ charged \in [Orders -> Seq(BOOLEAN)]
    /\ payments \in [Orders -> Seq(BOOLEAN)]
    /\ expiries \in [Orders -> Nat]
    /\ pc \in [Settlers -> {"idle", "call", "row", "write", "stale", "answered",
                            "stored", "publish"}]
    /\ job \in [Callers -> Jobs \cup {None}]
    /\ batch \in [Reapers -> SUBSET Orders]
    /\ notes \in [Orders -> SUBSET {"ticket", "cancelled"}]
    /\ emails \in [Orders -> SUBSET {"ticket", "cancelled"}]

Init ==
    /\ book = [o \in Orders |-> "idle"]
    /\ key = [o \in Orders |-> None]
    /\ order = [o \in Orders |-> None]
    /\ resv = [o \in Orders |-> None]
    /\ taken = 0
    /\ twice = {}
    /\ created = [o \in Orders |-> "none"]
    /\ charge = [o \in Orders |-> "idle"]
    /\ charged = [o \in Orders |-> <<>>]
    /\ payments = [o \in Orders |-> <<>>]
    /\ expiries = [o \in Orders |-> 0]
    /\ pc = [p \in Settlers |-> "idle"]
    /\ job = [p \in Callers |-> None]
    /\ batch = [w \in Reapers |-> {}]
    /\ notes = [o \in Orders |-> {}]
    /\ emails = [o \in Orders |-> {}]

-----------------------------------------------------------------------------
(* The Inventory service: reservations and the row that counts them.       *)

Held == {o \in Orders : resv[o] \in {"pending", "confirmed"}}
Freed == {o \in Orders : resv[o] \in {"released", "expired"}}

(* A commit raises the version of the inventory row: every session that has
   loaded the row and not yet committed will meet StaleDataError.          *)
Outdated == [p \in Settlers |-> IF pc[p] = "write" THEN "stale" ELSE pc[p]]

(* The caller goes back to rest. *)
Rest(p, places) ==
    /\ pc' = [places EXCEPT ![p] = "idle"]
    /\ job' = [job EXCEPT ![p] = None]

(* The call returns; nobody waits for a call that was left. *)
Answer(p, places) ==
    IF job[p].mode = "left"
    THEN Rest(p, places)
    ELSE pc' = [places EXCEPT ![p] = "answered"] /\ UNCHANGED job

(* Mutant: release does nothing to a confirmed reservation. *)
SettleablePendingOnly(msg) == {"pending"}

(* The statuses that confirm, or release, does not return at once for. *)
Settleable(msg) == IF msg = "paid" THEN {"pending"} ELSE {"pending", "confirmed"}

(* Mutant: an order's status stored in the reservation. *)
SettledAsOrder(msg) == IF msg = "paid" THEN "confirmed" ELSE "cancelled"

SettledAs(msg) == IF msg = "paid" THEN "confirmed" ELSE "released"

(* Mutant: confirm gives its seat back to reserved_count, and takes none. *)
SeatBackAlways(msg) == 1

(* Seats that leave the counters: confirm moves its seat from one to the
   other.                                                                  *)
SeatBack(msg) == IF msg = "paid" THEN 0 ELSE 1

(* The SELECT of the reservation; success is answered whatever its status. *)
SettleRead(p) ==
    /\ pc[p] = "call"
    /\ \/ /\ resv[job[p].order] \in Settleable(job[p].msg)
          /\ pc' = [pc EXCEPT ![p] = "row"]
          /\ UNCHANGED job
       \/ /\ resv[job[p].order] \notin Settleable(job[p].msg)
          /\ Answer(p, pc)
    /\ UNCHANGED <<bookVars, order, tables, chargeVars, queues, batch, mailVars>>

(* The SELECT of the inventory row, by a call or by a sweep. *)
LoadRow(p) ==
    /\ pc[p] = "row"
    /\ pc' = [pc EXCEPT ![p] = "write"]
    /\ UNCHANGED <<bookVars, order, tables, chargeVars, queues, job, batch, mailVars>>

(* Flush and commit.  Only the inventory row has a version: the status of the
   reservation is overwritten, whatever it has become since it was read.   *)
SettleCommit(p) ==
    /\ pc[p] = "write"
    /\ LET o == job[p].order
       IN  /\ resv' = [resv EXCEPT ![o] = SettledAs(job[p].msg)]
           /\ twice' = twice \cup (Freed \cap {o})
    /\ taken' = taken - SeatBack(job[p].msg)
    /\ Answer(p, Outdated)
    /\ UNCHANGED <<bookVars, order, chargeVars, queues, batch, mailVars>>

-----------------------------------------------------------------------------
(* book_tickets *)

(* get_by_idempotency_key: a replay returns the order it finds.  A request
   for an event that is not there ends here too.                           *)
BookLookup(o) ==
    /\ book[o] = "idle"
    /\ \E k \in Keys :
         /\ key' = [key EXCEPT ![o] = k]
         /\ LET replay == k # None /\ \E p \in Orders : key[p] = k /\ order[p] # None
            IN  \E next \in (IF replay THEN {"done"} ELSE {"looked", "done"}) :
                   book' = [book EXCEPT ![o] = next]
    /\ UNCHANGED <<order, tables, chargeVars, queues, pc, job, batch, mailVars>>

(* reserve's effect: a seat that is free by the counters. *)
Reserve(o) ==
    /\ taken < Capacity
    /\ resv' = [resv EXCEPT ![o] = "pending"]
    /\ taken' = taken + 1
    /\ pc' = Outdated

(* ReserveSeats: granted, or refused: no seat, no turn at the lock, no luck
   in the retries.                                                         *)
BookReserve(o) ==
    /\ book[o] = "looked"
    /\ \/ /\ Reserve(o)
          /\ book' = [book EXCEPT ![o] = "reserved"]
       \/ /\ book' = [book EXCEPT ![o] = "done"]
          /\ UNCHANGED <<resv, taken, pc>>
    /\ UNCHANGED <<key, order, twice, chargeVars, queues, job, batch, mailVars>>

(* Mutant: no unique index, the lookup alone. *)
KeyNotIndexed(o) == FALSE

(* INSERT and commit; the unique index on (user_id, idempotency_key) refuses
   a second order with the key, which leaves its reservation to the reaper. *)
KeyTaken(o) ==
    key[o] # None /\ \E p \in Orders \ {o} : key[p] = key[o] /\ order[p] # None

BookStore(o) ==
    /\ book[o] = "reserved"
    /\ \/ /\ ~KeyTaken(o)
          /\ order' = [order EXCEPT ![o] = "pending"]
          /\ book' = [book EXCEPT ![o] = "stored"]
       \/ /\ KeyTaken(o)
          /\ book' = [book EXCEPT ![o] = "done"]
          /\ UNCHANGED order
    /\ UNCHANGED <<key, tables, chargeVars, queues, pc, job, batch, mailVars>>

BookPublish(o) ==
    /\ book[o] = "stored"
    /\ created' = [created EXCEPT ![o] = "queued"]
    /\ book' = [book EXCEPT ![o] = "done"]
    /\ UNCHANGED <<key, order, tables, charge, charged, queues, pc, job, batch, mailVars>>

(* The request dies: a crash, a database error, a failed publish, or a
   ReserveSeats call whose answer is lost after it took effect or before.  *)
BookFail(o) ==
    /\ Faults
    /\ book[o] \in {"looked", "reserved", "stored"}
    /\ book' = [book EXCEPT ![o] = "done"]
    /\ \/ UNCHANGED <<resv, taken, pc>>
       \/ book[o] = "looked" /\ Reserve(o)
    /\ UNCHANGED <<key, order, twice, chargeVars, queues, job, batch, mailVars>>

-----------------------------------------------------------------------------
(* cancel_order *)

Begin(p, o, msg, place) ==
    /\ pc[p] = "idle"
    /\ pc' = [pc EXCEPT ![p] = place]
    /\ job' = [job EXCEPT ![p] = [order |-> o, msg |-> msg, mode |-> "live"]]

CancelCheck(x, o) ==
    /\ order[o] \in {"pending", "confirmed"}
    /\ Begin(x, o, "cancel", "call")
    /\ UNCHANGED <<bookVars, order, tables, chargeVars, queues, batch, mailVars>>

(* The orders table has no version: the UPDATE overwrites any status. *)
Store(p, status) ==
    /\ pc[p] = "answered"
    /\ order' = [order EXCEPT ![job[p].order] = status]

CancelStore(x) ==
    /\ Store(x, "cancelled")
    /\ pc' = [pc EXCEPT ![x] = "stored"]
    /\ UNCHANGED <<bookVars, tables, chargeVars, queues, job, batch, mailVars>>

CancelPublish(x) ==
    /\ pc[x] = "stored"
    /\ notes' = [notes EXCEPT ![job[x].order] = @ \cup {"cancelled"}]
    /\ Rest(x, pc)
    /\ UNCHANGED <<bookVars, order, tables, chargeVars, queues, batch, emails>>

(* release met StaleDataError: the request fails. *)
CancelStale(x) ==
    /\ pc[x] = "stale"
    /\ Rest(x, pc)
    /\ UNCHANGED <<bookVars, order, tables, chargeVars, queues, batch, mailVars>>

(* The caller dies, or its call times out and may go on without it; or the
   call itself dies.                                                       *)
InCall(p) == pc[p] \in {"call", "row", "write", "stale"}

Quit(p) ==
    /\ pc[p] # "idle"
    /\ \/ Rest(p, pc)
       \/ /\ InCall(p) /\ job[p].mode # "left"
          /\ job' = [job EXCEPT ![p].mode = "left"]
          /\ UNCHANGED pc

CancelFail(x) ==
    /\ Faults
    /\ Quit(x)
    /\ UNCHANGED <<bookVars, order, tables, chargeVars, queues, batch, mailVars>>

-----------------------------------------------------------------------------
(* The payment worker: it charges whatever message it is given.            *)

Charge(o) ==
    /\ created[o] = "queued"
    /\ charge[o] = "idle"
    /\ Len(charged[o]) < MaxCharges
    /\ \E success \in BOOLEAN :
          charged' = [charged EXCEPT ![o] = Append(@, success)]
    /\ charge' = [charge EXCEPT ![o] = "charged"]
    /\ UNCHANGED <<bookVars, order, tables, created, queues, pc, job, batch, mailVars>>

(* Mutants: the outcome ignored; a declined charge not told. *)
ChargePublishAsSuccess(o) ==
    /\ charge[o] = "charged"
    /\ payments' = [payments EXCEPT ![o] = Append(@, TRUE)]
    /\ charge' = [charge EXCEPT ![o] = "idle"]
    /\ created' = [created EXCEPT ![o] = "gone"]
    /\ UNCHANGED <<bookVars, order, tables, charged, expiries, pc, job, batch, mailVars>>

ChargePublishSuccessOnly(o) ==
    /\ charge[o] = "charged"
    /\ payments' = [payments EXCEPT ![o] =
                       IF charged[o][Len(charged[o])] THEN Append(@, TRUE) ELSE @]
    /\ charge' = [charge EXCEPT ![o] = "idle"]
    /\ created' = [created EXCEPT ![o] = "gone"]
    /\ UNCHANGED <<bookVars, order, tables, charged, expiries, pc, job, batch, mailVars>>

(* publish, then the commit of the offset, which may be lost: the message is
   then delivered again.                                                   *)
ChargePublish(o) ==
    /\ charge[o] = "charged"
    /\ payments' = [payments EXCEPT ![o] = Append(@, charged[o][Len(charged[o])])]
    /\ charge' = [charge EXCEPT ![o] = "idle"]
    /\ \/ created' = [created EXCEPT ![o] = "gone"]
       \/ Faults /\ UNCHANGED created
    /\ UNCHANGED <<bookVars, order, tables, charged, expiries, pc, job, batch, mailVars>>

(* The worker dies or its publish fails: the message comes again, unless a
   later commit of the consumer has passed it.                             *)
ChargeFail(o) ==
    /\ Faults
    /\ charge[o] = "charged"
    /\ charge' = [charge EXCEPT ![o] = "idle"]
    /\ \/ UNCHANGED created
       \/ created' = [created EXCEPT ![o] = "gone"]
    /\ UNCHANGED <<bookVars, order, tables, charged, queues, pc, job, batch, mailVars>>

-----------------------------------------------------------------------------
(* The order status worker.  PAYMENT_PROCESSED has the order's id as key and
   RESERVATION_EXPIRED the event's, so that with two replicas messages of both
   kinds for one order are handled at a time.  A handler has its order row
   from before its call until its commit.                                  *)

Kind(msg) == IF msg = "expired" THEN {"expired"} ELSE Payments

(* A partition has one owner: no other handler that was not revoked is at a
   message of this kind for the order.                                     *)
Unowned(o, msg) ==
    \A h \in Handlers :
       job[h] # None /\ job[h].order = o /\ job[h].msg \in Kind(msg)
       => job[h].mode # "live"

(* The offset passes the message. *)
Pass(o, msg) ==
    IF msg = "expired"
    THEN expiries' = [expiries EXCEPT ![o] = @ - 1] /\ UNCHANGED payments
    ELSE payments' = [payments EXCEPT ![o] = Tail(@)] /\ UNCHANGED expiries

(* The handler returns, and commits the offset unless the partition was
   revoked; with faults that commit may be lost.                           *)
Return(h) ==
    /\ Rest(h, pc)
    /\ \/ job[h].mode = "live" /\ Pass(job[h].order, job[h].msg)
       \/ (Faults \/ job[h].mode = "revoked") /\ UNCHANGED queues

(* A message whose handler raised comes again, or is passed by the next
   commit of the consumer.                                                 *)
Skip(h) ==
    \/ job[h].mode = "live" /\ Pass(job[h].order, job[h].msg)
    \/ UNCHANGED queues

(* _handle_payment_processed: a message for an order that is not PENDING is
   dropped.                                                                *)
PaymentRead(h, o) ==
    LET msg == IF Head(payments[o]) THEN "paid" ELSE "declined"
    IN  /\ payments[o] # <<>>
        /\ Unowned(o, msg)
        /\ \/ /\ order[o] = "pending"
              /\ Begin(h, o, msg, "call")
              /\ UNCHANGED queues
           \/ /\ order[o] # "pending"
              /\ pc[h] = "idle"
              /\ Pass(o, msg)
              /\ UNCHANGED <<pc, job>>
        /\ UNCHANGED <<bookVars, order, tables, chargeVars, batch, mailVars>>

PaymentStore(h) ==
    /\ pc[h] = "answered"
    /\ job[h].msg \in Payments
    /\ Store(h, IF job[h].msg = "paid" THEN "confirmed" ELSE "cancelled")
    /\ pc' = [pc EXCEPT ![h] = "stored"]
    /\ UNCHANGED <<bookVars, tables, chargeVars, queues, job, batch, mailVars>>

PaymentPublish(h) ==
    /\ pc[h] = "stored"
    /\ notes' = [notes EXCEPT ![job[h].order] =
                   @ \cup {IF job[h].msg = "paid" THEN "ticket" ELSE "cancelled"}]
    /\ Return(h)
    /\ UNCHANGED <<bookVars, order, tables, chargeVars, batch, emails>>

(* _handle_reservation_expired: likewise, and it makes no call. *)
ExpiredRead(h, o) ==
    /\ expiries[o] > 0
    /\ Unowned(o, "expired")
    /\ \/ /\ order[o] = "pending"
          /\ Begin(h, o, "expired", "answered")
          /\ UNCHANGED queues
       \/ /\ order[o] # "pending"
          /\ pc[h] = "idle"
          /\ Pass(o, "expired")
          /\ UNCHANGED <<pc, job>>
    /\ UNCHANGED <<bookVars, order, tables, chargeVars, batch, mailVars>>

ExpiredStore(h) ==
    /\ pc[h] = "answered"
    /\ job[h].msg = "expired"
    /\ Store(h, "expired")
    /\ Return(h)
    /\ UNCHANGED <<bookVars, tables, chargeVars, batch, mailVars>>

(* The call met StaleDataError: the handler raises. *)
HandlerStale(h) ==
    /\ pc[h] = "stale"
    /\ Rest(h, pc)
    /\ Skip(h)
    /\ UNCHANGED <<bookVars, order, tables, chargeVars, batch, mailVars>>

(* The handler raises for another reason, or the worker dies. *)
HandlerFail(h) ==
    /\ Faults
    /\ Quit(h)
    /\ Skip(h)
    /\ UNCHANGED <<bookVars, order, tables, chargeVars, batch, mailVars>>

(* The partition gets a new owner while the handler runs on. *)
Rebalance(h) ==
    /\ Faults
    /\ pc[h] # "idle"
    /\ job[h].mode = "live"
    /\ job' = [job EXCEPT ![h].mode = "revoked"]
    /\ UNCHANGED <<bookVars, order, tables, chargeVars, queues, pc, batch, mailVars>>

-----------------------------------------------------------------------------
(* The reaper: find_expired_pending and release in one transaction.        *)

(* Mutant: a sweep that joins the orders. *)
OverdueOrders == {o \in Orders : resv[o] = "pending" /\ order[o] # None}

(* The TTL of a pending reservation may have passed at any time. *)
Overdue == {o \in Orders : resv[o] = "pending"}

SweepFind(w) ==
    /\ pc[w] = "idle"
    /\ \E found \in SUBSET Overdue \ {{}} : batch' = [batch EXCEPT ![w] = found]
    /\ pc' = [pc EXCEPT ![w] = "row"]
    /\ UNCHANGED <<bookVars, order, tables, chargeVars, queues, job, mailVars>>

SweepCommit(w) ==
    /\ pc[w] = "write"
    /\ resv' = [o \in Orders |-> IF o \in batch[w] THEN "expired" ELSE resv[o]]
    /\ taken' = taken - Cardinality(batch[w])
    /\ twice' = twice \cup (Freed \cap batch[w])
    /\ pc' = [Outdated EXCEPT ![w] = "publish"]
    /\ UNCHANGED <<bookVars, order, chargeVars, queues, job, batch, mailVars>>

(* StaleDataError undoes the whole sweep and ends the process; the next one
   finds the reservations again.                                           *)
SweepStale(w) ==
    /\ pc[w] = "stale"
    /\ pc' = [pc EXCEPT ![w] = "idle"]
    /\ batch' = [batch EXCEPT ![w] = {}]
    /\ UNCHANGED <<bookVars, order, tables, chargeVars, queues, job, mailVars>>

ReaperPublish(w) ==
    /\ pc[w] = "publish"
    /\ \E o \in batch[w] :
          /\ expiries' = [expiries EXCEPT ![o] = @ + 1]
          /\ batch' = [batch EXCEPT ![w] = @ \ {o}]
          /\ pc' = [pc EXCEPT ![w] = IF batch[w] = {o} THEN "idle" ELSE "publish"]
    /\ UNCHANGED <<bookVars, order, tables, chargeVars, payments, job, mailVars>>

(* The reaper dies: what it has committed and not published, nobody will. *)
ReaperFail(w) ==
    /\ Faults
    /\ pc[w] # "idle"
    /\ pc' = [pc EXCEPT ![w] = "idle"]
    /\ batch' = [batch EXCEPT ![w] = {}]
    /\ UNCHANGED <<bookVars, order, tables, chargeVars, queues, job, mailVars>>

-----------------------------------------------------------------------------
(* The notification worker.  A message that is delivered twice is mailed
   twice; mails are counted by kind only.                                  *)

(* Mutant: the status is looked at again before the mail. *)
NotifyIfConfirmed(o) ==
    \E n \in notes[o] :
       /\ notes' = [notes EXCEPT ![o] = @ \ {n}]
       /\ emails' = [emails EXCEPT ![o] = IF n = "ticket" /\ order[o] # "confirmed"
                                          THEN @ ELSE @ \cup {n}]
       /\ UNCHANGED <<bookVars, order, tables, chargeVars, queues, pc, job, batch>>

Notify(o) ==
    \E n \in notes[o] :
       /\ notes' = [notes EXCEPT ![o] = @ \ {n}]
       /\ emails' = [emails EXCEPT ![o] = IF order[o] = None THEN @ ELSE @ \cup {n}]
       /\ UNCHANGED <<bookVars, order, tables, chargeVars, queues, pc, job, batch>>

(* The worker fails on a message, and a later commit passes it. *)
NotifyFail(o) ==
    /\ Faults
    /\ \E n \in notes[o] : notes' = [notes EXCEPT ![o] = @ \ {n}]
    /\ UNCHANGED <<bookVars, order, tables, chargeVars, queues, pc, job, batch, emails>>

-----------------------------------------------------------------------------
Requests(o) == BookLookup(o) \/ BookReserve(o) \/ BookStore(o) \/ BookPublish(o)

Mails(o) == Charge(o) \/ ChargePublish(o) \/ Notify(o)

Calls(p) == SettleRead(p) \/ LoadRow(p) \/ SettleCommit(p)

Cancelling(x) ==
    \/ \E o \in Orders : CancelCheck(x, o)
    \/ Calls(x) \/ CancelStale(x) \/ CancelStore(x) \/ CancelPublish(x)

Handling(h) ==
    \/ Calls(h) \/ HandlerStale(h)
    \/ PaymentStore(h) \/ PaymentPublish(h) \/ ExpiredStore(h)

Sweeping(w) ==
    SweepFind(w) \/ LoadRow(w) \/ SweepCommit(w) \/ SweepStale(w) \/ ReaperPublish(w)

Failures ==
    \/ \E o \in Orders : BookFail(o) \/ ChargeFail(o) \/ NotifyFail(o)
    \/ \E x \in Cancels : CancelFail(x)
    \/ \E h \in Handlers : HandlerFail(h) \/ Rebalance(h)
    \/ \E w \in Reapers : ReaperFail(w)

Next ==
    \/ \E o \in Orders : Requests(o) \/ Mails(o)
    \/ \E x \in Cancels : Cancelling(x)
    \/ \E h \in Handlers :
          Handling(h) \/ \E o \in Orders : PaymentRead(h, o) \/ ExpiredRead(h, o)
    \/ \E w \in Reapers : Sweeping(w)
    \/ Failures

Spec == Init /\ [][Next]_vars

(* The reaper sweeps every few seconds, and does not die in every sweep. *)
ReaperFairness ==
    \A w \in Reapers :
       WF_vars(Sweeping(w)) /\ SF_vars(LoadRow(w)) /\ SF_vars(SweepCommit(w))

ReaperSpec == Spec /\ ReaperFairness

(* Besides, a handler that was started runs on and a topic is polled for ever;
   nobody has to book, to cancel or to fail.                               *)
Fairness ==
    /\ ReaperFairness
    /\ \A o \in Orders :
         /\ WF_vars(BookReserve(o) \/ BookStore(o) \/ BookPublish(o))
         /\ WF_vars(Charge(o) \/ ChargePublish(o))
         /\ WF_vars(\E h \in Handlers : PaymentRead(h, o))
         /\ WF_vars(\E h \in Handlers : ExpiredRead(h, o))
         /\ WF_vars(Notify(o))
    /\ \A x \in Cancels :
         WF_vars(Calls(x) \/ CancelStale(x) \/ CancelStore(x) \/ CancelPublish(x))
    /\ \A h \in Handlers : WF_vars(Handling(h))

FairSpec == Spec /\ Fairness

-----------------------------------------------------------------------------
(* Two requests with one idempotency key that both miss the lookup make one
   order: the partial unique index of the orders table decides the race.   *)
OneOrderPerKey ==
    \A o, p \in Orders :
       order[o] # None /\ order[p] # None /\ key[o] = key[p] /\ key[o] # None => o = p

(* A cancelled or expired order holds no seat, whatever raced, failed, came
   twice or came late, with one exception: a settlement that had read the
   reservation before it was freed committed afterwards.  In cancel_order, in
   the status worker and in the reaper the seat is freed before the order is
   told so.                                                                *)
SettledOrderHoldsNoSeat ==
    \A o \in Orders : order[o] \in {"cancelled", "expired"} => o \in Freed \cup twice

(* The counters of the event never stand for a seat that nobody holds, and
   until a freed reservation is settled again they are exact, whatever sweeps
   are undone, calls left or handlers run twice.                           *)
SeatsAddUp ==
    /\ taken <= Cardinality(Held)
    /\ twice = {} => taken = Cardinality(Held)

(* No seat is sold, no order confirmed and no ticket mailed without a charge
   that succeeded, however messages are repeated or handlers retried.      *)
Paid(o) == \E i \in DOMAIN charged[o] : charged[o][i]

SoldIsPaid ==
    \A o \in Orders :
       \/ resv[o] = "confirmed"
       \/ order[o] = "confirmed"
       \/ "ticket" \in notes[o] \cup emails[o]
       => Paid(o)

(* A pending reservation does not stay pending, although sweeps are undone by
   every other commit on the event, reapers die, and the request that made it
   may have died before it wrote an order.                                 *)
SeatsNotLeaked == \A o \in Orders : resv[o] = "pending" ~> resv[o] # "pending"

(* Without failures every order is decided. *)
EveryOrderDecided == \A o \in Orders : order[o] = "pending" ~> order[o] # "pending"

(* Without failures the owner of a confirmed order gets the ticket mail, even
   if the order is cancelled or expired meanwhile.                         *)
TicketMailed == \A o \in Orders : order[o] = "confirmed" ~> "ticket" \in emails[o]

(* README, "Booking flow": the reaper releases an overdue reservation "and
   tells the API to mark the order EXPIRED"; once that message is handled the
   order is not CONFIRMED.  The payment handler takes the success of
   ConfirmReservation, which an expired reservation also gets, for a seat.  *)
ToldOfExpiry(o) ==
    /\ resv[o] = "expired" /\ expiries[o] = 0
    /\ \A w \in Reapers : o \notin batch[w]

ReapedOrderNotConfirmed == \A o \in Orders : ToldOfExpiry(o) => order[o] # "confirmed"

=============================================================================
