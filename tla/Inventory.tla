------------------------------ MODULE Inventory ------------------------------
(***************************************************************************)
(* The Inventory service: the event_inventory and reservations tables, the *)
(* per-event Redis lock, and every call that reads or writes them.         *)
(*                                                                         *)
(* A call (a gRPC request, a message of the event-sync consumer, or one    *)
(* sweep of the reaper) runs as one database transaction: it reads rows    *)
(* into its session, one SELECT at a time, and then flushes and commits.   *)
(* Transactions run at READ COMMITTED, so each SELECT sees the rows last   *)
(* committed, and a row that a flush has updated stays locked until its    *)
(* transaction ends.  Hence the reads are separate steps and flush+commit  *)
(* is one step, guarded by the version check of the UPDATE statements.     *)
(*                                                                         *)
(* A reservation is named by the call that creates it.                     *)
(***************************************************************************)
EXTENDS Integers, FiniteSets

CONSTANTS
    Events,        \* events.id
    Calls,         \* the calls of a behaviour, each made once
    Ops,           \* the kinds of calls that are made
    Capacities,    \* total_seats values (schemas/event.py: total_seats > 0)
    MaxQuantity,   \* most seats in one order (schemas/order.py: le=20)
    MaxRetries,    \* settings.optimistic_retry_attempts
    LockAttempts,  \* settings.lock_retry_attempts
    SweepLimit,    \* find_expired_pending's limit
    None

AllOps == {"initialize", "adjust", "reserve", "confirm", "release", "sweep"}

(* Only adjust_capacity and reserve_seats take the event's Redis lock. *)
LockedOps == {"adjust", "reserve"}

ASSUME OpsAssumption == Ops \subseteq AllOps
ASSUME CallsAssumption == IsFiniteSet(Calls)
ASSUME CapacitiesAssumption == Capacities \subseteq Nat \ {0}
ASSUME BoundsAssumption ==
    /\ MaxQuantity \in Nat
    /\ MaxRetries \in Nat \ {0}
    /\ LockAttempts \in Nat \ {0}
    /\ SweepLimit \in Nat \ {0}
VARIABLES
    inv,      \* event_inventory: the row of each event, or None
    res,      \* reservations: the row created by each call, or None
    pastTTL,  \* the reservations whose expires_at has passed
    lock,     \* Redis key lock:event:<id>: the call whose token it holds
    req,      \* the arguments of each call
    pc,       \* where each call is
    tries,    \* failed attempts of the call's current retry loop
    rows,     \* inventory rows in the call's session (its identity map)
    seen,     \* statuses of the reservations in the call's session
    result    \* how each call ended

vars == <<inv, res, pastTTL, lock, req, pc, tries, rows, seen, result>>

Statuses == {"pending", "confirmed", "released", "expired"}

(* The lowest quantity stands for every quantity <= 0 a caller may send. *)
Quantities == 0 .. MaxQuantity

InventoryRows ==
    [total : Capacities, reserved : Int, confirmed : Int, version : Nat \ {0}]

Reservations ==
    [event : Events, quantity : 1 .. MaxQuantity, status : Statuses]

Requests ==
    [op : AllOps \cup {None}, event : Events \cup {None},
     n : Quantities \cup Capacities, target : Calls \cup {None}]

Results ==
    {"ok", "invalid", "not_found", "capacity", "conflict", "busy", "stale",
     "integrity", "error", "crashed"}

ASSUME NoneAssumption ==
    /\ None \notin Events \cup Calls \cup Capacities
    /\ None \notin InventoryRows \cup Reservations
    /\ None \notin Statuses \cup AllOps \cup Results

Request(op, e, n, r) == [op |-> op, event |-> e, n |-> n, target |-> r]

NewRow(n) == [total |-> n, reserved |-> 0, confirmed |-> 0, version |-> 1]

(* Mutant: the seats of PENDING reservations counted as free. *)
availableUnreserved(row) == row.total - row.confirmed

available(row) == row.total - row.reserved - row.confirmed

(* The seats, as <<reservation, number>> pairs, of a set of reservations. *)
SeatsOf(S) ==
    {s \in Calls \X (1 .. MaxQuantity) :
        s[1] \in S /\ s[2] <= res[s[1]].quantity}

(* The reservations of event e that are in status st. *)
InStatus(e, st) ==
    {r \in Calls : res[r] # None /\ res[r].event = e /\ res[r].status = st}

NoRows == [e \in Events |-> None]
NoneSeen == [r \in Calls |-> None]

Init ==
    /\ inv \in [Events -> {None} \cup {NewRow(n) : n \in Capacities}]
    /\ res = [r \in Calls |-> None]
    /\ pastTTL = {}
    /\ lock = [e \in Events |-> None]
    /\ req = [c \in Calls |-> Request(None, None, 0, None)]
    /\ pc = [c \in Calls |-> "idle"]
    /\ tries = [c \in Calls |-> 0]
    /\ rows = [c \in Calls |-> NoRows]
    /\ seen = [c \in Calls |-> NoneSeen]
    /\ result = [c \in Calls |-> None]

At(c, op, label) == req[c].op = op /\ pc[c] = label

-----------------------------------------------------------------------------
(* Arrival of the calls.                                                   *)

Arrive(c, op, e, n, r) ==
    /\ pc[c] = "idle"
    /\ op \in Ops
    /\ req' = [req EXCEPT ![c] = Request(op, e, n, r)]
    /\ pc' = [pc EXCEPT ![c] = IF op \in LockedOps THEN "lock" ELSE "read"]
    /\ UNCHANGED <<inv, res, pastTTL, lock, tries, rows, seen, result>>

InitializeInventory(c) ==
    \E e \in Events, n \in Capacities :
        Arrive(c, "initialize", e, n, None)

AdjustCapacity(c) ==
    \E e \in Events, n \in Capacities :
        Arrive(c, "adjust", e, n, None)

ReserveSeats(c) ==
    \E e \in Events, n \in Quantities :
        Arrive(c, "reserve", e, n, None)

(* The identifiers a caller can send: those of existing reservations, and
   one that is no reservation's (its own name: no reserve call creates it). *)
Known(c, r) == res[r] # None \/ r = c

ConfirmReservation(c) ==
    \E r \in Calls :
        Known(c, r) /\ Arrive(c, "confirm", None, 0, r)

ReleaseReservation(c) ==
    \E r \in Calls :
        Known(c, r) /\ Arrive(c, "release", None, 0, r)

SweepExpiredReservations(c) == Arrive(c, "sweep", None, 0, None)

-----------------------------------------------------------------------------
(* The session and the lock.                                               *)

(* The call leaves its session: a commit (its callers change inv and res)
   or a rollback (they do not).  A call that took the lock goes on to
   release it, whatever the outcome.                                       *)
Finish(c, outcome) ==
    /\ pc' = [pc EXCEPT ![c] =
                IF req[c].op \in LockedOps /\ pc[c] # "lock"
                THEN "unlock" ELSE "done"]
    /\ result' = [result EXCEPT ![c] = outcome]
    /\ tries' = [tries EXCEPT ![c] = 0]
    /\ rows' = [rows EXCEPT ![c] = NoRows]
    /\ seen' = [seen EXCEPT ![c] = NoneSeen]
    /\ UNCHANGED <<lock, req>>

Rollback(c, outcome) ==
    /\ Finish(c, outcome)
    /\ UNCHANGED <<inv, res, pastTTL>>

(* SELECT of the inventory row of e into the session of c. *)
LoadRow(c, e, next) ==
    /\ rows' = [rows EXCEPT ![c][e] = inv[e]]
    /\ pc' = [pc EXCEPT ![c] = next]
    /\ UNCHANGED <<inv, res, pastTTL, lock, req, tries, seen, result>>

(* Mutants: no version_id_col; a lost lock taken for a lost race. *)
CurrentUnchecked(c) == TRUE
CurrentAndLocked(c) ==
    /\ req[c].op \in LockedOps => lock[req[c].event] = c
    /\ \A e \in Events :
           rows[c][e] # None => rows[c][e].version = inv[e].version

(* UPDATE ... WHERE version = :expected finds every row the session read. *)
Current(c) ==
    \A e \in Events :
        rows[c][e] # None => rows[c][e].version = inv[e].version

(* SET key token NX PX ttl *)
AcquireLock(c) ==
    /\ pc[c] = "lock"
    /\ lock[req[c].event] = None
    /\ lock' = [lock EXCEPT ![req[c].event] = c]
    /\ pc' = [pc EXCEPT ![c] = "read"]
    /\ tries' = [tries EXCEPT ![c] = 0]
    /\ UNCHANGED <<inv, res, pastTTL, req, rows, seen, result>>

LockBusy(c) ==
    /\ pc[c] = "lock"
    /\ lock[req[c].event] # None
    /\ \/ /\ tries[c] + 1 < LockAttempts
          /\ tries' = [tries EXCEPT ![c] = @ + 1]
          /\ UNCHANGED <<inv, res, pastTTL, lock, req, pc, rows, seen, result>>
       \/ /\ tries[c] + 1 >= LockAttempts
          /\ Rollback(c, "busy")

(* The PX timeout of the key; the holder, if alive, does not notice. *)
LockExpire(e) ==
    /\ lock[e] # None
    /\ lock' = [lock EXCEPT ![e] = None]
    /\ UNCHANGED <<inv, res, pastTTL, req, pc, tries, rows, seen, result>>

(* Mutant: a plain DEL. *)
ReleasedAnyone(c, e) == None

(* The compare-and-delete script. *)
Released(c, e) == IF lock[e] = c THEN None ELSE lock[e]

(* Mutant: a release that insists on deleting its own token. *)
UnlockOwned(c) ==
    /\ pc[c] = "unlock"
    /\ lock[req[c].event] = c
    /\ lock' = [lock EXCEPT ![req[c].event] = None]
    /\ pc' = [pc EXCEPT ![c] = "done"]
    /\ UNCHANGED <<inv, res, pastTTL, req, tries, rows, seen, result>>

(* The finally block: the script runs, or its failure is logged and
   swallowed and the key is left to its timeout.                           *)
Unlock(c) ==
    /\ pc[c] = "unlock"
    /\ \E after \in {Released(c, req[c].event), lock[req[c].event]} :
          lock' = [lock EXCEPT ![req[c].event] = after]
    /\ pc' = [pc EXCEPT ![c] = "done"]
    /\ UNCHANGED <<inv, res, pastTTL, req, tries, rows, seen, result>>

-----------------------------------------------------------------------------
(* initialize_inventory *)

InitializeRead(c) ==
    /\ At(c, "initialize", "read")
    /\ \/ inv[req[c].event] # None /\ Rollback(c, "ok")
       \/ inv[req[c].event] = None /\ LoadRow(c, req[c].event, "write")

InitializeInsert(c) ==
    /\ At(c, "initialize", "write")
    /\ inv[req[c].event] = None
    /\ inv' = [inv EXCEPT ![req[c].event] = NewRow(req[c].n)]
    /\ Finish(c, "ok")
    /\ UNCHANGED <<res, pastTTL>>

(* The primary key refuses the second of two concurrent inserts. *)
InitializeDuplicate(c) ==
    /\ At(c, "initialize", "write")
    /\ inv[req[c].event] # None
    /\ Rollback(c, "integrity")

-----------------------------------------------------------------------------
(* adjust_capacity *)

AdjustRead(c) ==
    /\ At(c, "adjust", "read")
    /\ \/ inv[req[c].event] = None /\ Rollback(c, "not_found")
       \/ inv[req[c].event] # None /\ LoadRow(c, req[c].event, "write")

(* An unchanged attribute is no UPDATE, hence no version check. *)
AdjustNoChange(c) ==
    /\ At(c, "adjust", "write")
    /\ rows[c][req[c].event].total = req[c].n
    /\ Rollback(c, "ok")

AdjustCommit(c) ==
    LET e == req[c].event
    IN  /\ At(c, "adjust", "write")
        /\ rows[c][e].total # req[c].n
        /\ Current(c)
        /\ inv' = [inv EXCEPT ![e] = [@ EXCEPT !.total = req[c].n,
                                               !.version = rows[c][e].version + 1]]
        /\ Finish(c, "ok")
        /\ UNCHANGED <<res, pastTTL>>

(* StaleDataError reaches the caller: there is no retry. *)
AdjustStale(c) ==
    /\ At(c, "adjust", "write")
    /\ rows[c][req[c].event].total # req[c].n
    /\ ~Current(c)
    /\ Rollback(c, "stale")

-----------------------------------------------------------------------------
(* reserve *)

ReserveRead(c) ==
    LET e == req[c].event
        q == req[c].n
    IN  /\ At(c, "reserve", "read")
        /\ \/ q <= 0 /\ Rollback(c, "invalid")
           \/ q > 0 /\ inv[e] = None /\ Rollback(c, "not_found")
           \/ /\ q > 0 /\ inv[e] # None
              /\ available(inv[e]) < q
              /\ Rollback(c, "capacity")
           \/ /\ q > 0 /\ inv[e] # None
              /\ available(inv[e]) >= q
              /\ LoadRow(c, e, "write")

ReserveCommit(c) ==
    LET e == req[c].event
        q == req[c].n
    IN  /\ At(c, "reserve", "write")
        /\ Current(c)
        /\ inv' = [inv EXCEPT ![e] =
                     [@ EXCEPT !.reserved = rows[c][e].reserved + q,
                               !.version = rows[c][e].version + 1]]
        /\ res' = [res EXCEPT ![c] =
                     [event |-> e, quantity |-> q, status |-> "pending"]]
        /\ Finish(c, "ok")
        /\ UNCHANGED pastTTL

(* Mutant: the attempts of the retry loop not counted. *)
ReserveStaleUncounted(c) ==
    /\ At(c, "reserve", "write")
    /\ ~Current(c)
    /\ rows' = [rows EXCEPT ![c] = NoRows]
    /\ pc' = [pc EXCEPT ![c] = "read"]
    /\ UNCHANGED <<inv, res, pastTTL, lock, req, tries, seen, result>>

(* StaleDataError: roll back and read again, or give up. *)
ReserveStale(c) ==
    /\ At(c, "reserve", "write")
    /\ ~Current(c)
    /\ \/ /\ tries[c] + 1 < MaxRetries
          /\ tries' = [tries EXCEPT ![c] = @ + 1]
          /\ rows' = [rows EXCEPT ![c] = NoRows]
          /\ pc' = [pc EXCEPT ![c] = "read"]
          /\ UNCHANGED <<inv, res, pastTTL, lock, req, seen, result>>
       \/ /\ tries[c] + 1 >= MaxRetries
          /\ Rollback(c, "conflict")

-----------------------------------------------------------------------------
(* confirm, release and sweep_expired_reservations                         *)

(* Mutant: confirm and release without their status checks. *)
SettleableAny(op) == Statuses

(* The statuses that the call's operation settles; any other is returned
   as it is, with success.                                                 *)
Settleable(op) ==
    IF op = "confirm" THEN {"pending"} ELSE {"pending", "confirmed"}

(* Mutant: the enum member's name stored instead of its value. *)
SettledAsName(op) ==
    CASE op = "confirm" -> "CONFIRMED"
      [] op = "release" -> "RELEASED"
      [] op = "sweep"   -> "EXPIRED"

SettledAs(op) ==
    CASE op = "confirm" -> "confirmed"
      [] op = "release" -> "released"
      [] op = "sweep"   -> "expired"

SettleOps == {"confirm", "release", "sweep"}

(* The reservations in the session of c, of event e, read in status st. *)
Seen(c, e, st) == {r \in Calls : seen[c][r] = st /\ res[r].event = e}

SeenEvents(c) == {res[r].event : r \in {x \in Calls : seen[c][x] # None}}

(* SELECT of the reservation row, its status check and early returns. *)
SettleFind(c) ==
    LET r == req[c].target
    IN  /\ req[c].op \in {"confirm", "release"}
        /\ pc[c] = "read"
        /\ \/ res[r] = None /\ Rollback(c, "not_found")
           \/ /\ res[r] # None
              /\ res[r].status \notin Settleable(req[c].op)
              /\ Rollback(c, "ok")
           \/ /\ res[r] # None
              /\ res[r].status \in Settleable(req[c].op)
              /\ seen' = [seen EXCEPT ![c][r] = res[r].status]
              /\ pc' = [pc EXCEPT ![c] = "row"]
              /\ UNCHANGED <<inv, res, pastTTL, lock, req, tries, rows, result>>

Overdue ==
    {r \in pastTTL : res[r] # None /\ res[r].status = "pending"}

(* find_expired_pending: as many overdue reservations as the limit allows. *)
SweepFind(c) ==
    /\ At(c, "sweep", "read")
    /\ \/ Overdue = {} /\ Rollback(c, "ok")
       \/ \E S \in SUBSET Overdue :
            /\ S # {}
            /\ \/ S = Overdue /\ Cardinality(S) <= SweepLimit
               \/ Cardinality(S) = SweepLimit
            /\ seen' = [seen EXCEPT ![c] =
                          [r \in Calls |-> IF r \in S THEN "pending" ELSE None]]
            /\ pc' = [pc EXCEPT ![c] = "row"]
            /\ UNCHANGED <<inv, res, pastTTL, lock, req, tries, rows, result>>

(* get_inventory of the reservation's event; the foreign key makes sure that
   the row exists.  A sweep loads each event's row once, when it first meets
   one of its reservations.                                                *)
SettleLoad(c, e) ==
    /\ req[c].op \in SettleOps
    /\ pc[c] = "row"
    /\ e \in SeenEvents(c)
    /\ rows[c][e] = None
    /\ LoadRow(c, e, IF \A f \in SeenEvents(c) \ {e} : rows[c][f] # None
                     THEN "write" ELSE "row")

(* Mutant: release always takes its seats out of reserved_count. *)
SettledRowReservedOnly(c, e) ==
    LET S == Seen(c, e, "pending") \cup Seen(c, e, "confirmed")
        n == Cardinality(SeatsOf(S))
    IN  [rows[c][e] EXCEPT !.reserved = @ - n,
                           !.confirmed = @ + (IF req[c].op = "confirm" THEN n ELSE 0),
                           !.version = @ + Cardinality(S)]

(* Mutant: confirm leaves its seats in reserved_count. *)
SettledRowKept(c, e) ==
    LET pending   == Cardinality(SeatsOf(Seen(c, e, "pending")))
        confirmed == Cardinality(SeatsOf(Seen(c, e, "confirmed")))
        flushes   == Cardinality(Seen(c, e, "pending") \cup Seen(c, e, "confirmed"))
    IN  [rows[c][e] EXCEPT !.reserved = @ - (IF req[c].op = "confirm" THEN 0 ELSE pending),
                           !.confirmed = @ + (IF req[c].op = "confirm" THEN pending ELSE 0)
                                           - confirmed,
                           !.version = @ + flushes]

(* The inventory row of e after the settlements of c: each reservation is
   moved out of the count its status selects, as its session saw it, and
   each is one flush, hence one version.                                   *)
SettledRow(c, e) ==
    LET pending   == Cardinality(SeatsOf(Seen(c, e, "pending")))
        confirmed == Cardinality(SeatsOf(Seen(c, e, "confirmed")))
        flushes   == Cardinality(Seen(c, e, "pending") \cup Seen(c, e, "confirmed"))
        gained    == IF req[c].op = "confirm" THEN pending ELSE 0
    IN  [rows[c][e] EXCEPT !.reserved = @ - pending,
                           !.confirmed = @ + gained - confirmed,
                           !.version = @ + flushes]

(* The reservations table has no version: its UPDATE is unconditional. *)
SettleCommit(c) ==
    /\ req[c].op \in SettleOps
    /\ pc[c] = "write"
    /\ Current(c)
    /\ inv' = [e \in Events |->
                 IF rows[c][e] # None THEN SettledRow(c, e) ELSE inv[e]]
    /\ res' = [r \in Calls |->
                 IF seen[c][r] # None
                 THEN [res[r] EXCEPT !.status = SettledAs(req[c].op)]
                 ELSE res[r]]
    /\ Finish(c, "ok")
    /\ UNCHANGED pastTTL

(* StaleDataError reaches the caller; a sweep gives up all its releases. *)
SettleStale(c) ==
    /\ req[c].op \in SettleOps
    /\ ~Current(c)
    /\ Rollback(c, "stale")

-----------------------------------------------------------------------------
(* Failures and time.                                                      *)

(* A database error (a lost connection, a deadlock victim) or a cancelled
   request: session_scope rolls back, the lock is released.                *)
Abort(c) ==
    /\ pc[c] \in {"lock", "read", "row", "write"}
    /\ Rollback(c, "error")

(* The process dies: Postgres rolls back, nobody releases the lock. *)
Crash(c) ==
    /\ pc[c] \in {"lock", "read", "row", "write", "unlock"}
    /\ pc' = [pc EXCEPT ![c] = "done"]
    /\ result' = [result EXCEPT ![c] = "crashed"]
    /\ tries' = [tries EXCEPT ![c] = 0]
    /\ rows' = [rows EXCEPT ![c] = NoRows]
    /\ seen' = [seen EXCEPT ![c] = NoneSeen]
    /\ UNCHANGED <<inv, res, pastTTL, lock, req>>

(* expires_at passes; only find_expired_pending looks, at PENDING rows. *)
PassTTL(r) ==
    /\ res[r] # None
    /\ res[r].status = "pending"
    /\ r \notin pastTTL
    /\ pastTTL' = pastTTL \cup {r}
    /\ UNCHANGED <<inv, res, lock, req, pc, tries, rows, seen, result>>

-----------------------------------------------------------------------------
(* The specifications.                                                     *)

Arrivals(c) ==
    \/ InitializeInventory(c)
    \/ AdjustCapacity(c)
    \/ ReserveSeats(c)
    \/ ConfirmReservation(c)
    \/ ReleaseReservation(c)
    \/ SweepExpiredReservations(c)

(* The steps of a call that is under way and whose process is alive. *)
CallStep(c) ==
    \/ AcquireLock(c)
    \/ LockBusy(c)
    \/ Unlock(c)
    \/ InitializeRead(c)
    \/ InitializeInsert(c)
    \/ InitializeDuplicate(c)
    \/ AdjustRead(c)
    \/ AdjustNoChange(c)
    \/ AdjustCommit(c)
    \/ AdjustStale(c)
    \/ ReserveRead(c)
    \/ ReserveCommit(c)
    \/ ReserveStale(c)
    \/ SettleFind(c)
    \/ SweepFind(c)
    \/ \E e \in Events : SettleLoad(c, e)
    \/ SettleCommit(c)
    \/ SettleStale(c)

Failures(c) ==
    \/ Abort(c)
    \/ Crash(c)

Next ==
    \/ \E c \in Calls : Arrivals(c) \/ CallStep(c) \/ Failures(c)
    \/ \E e \in Events : LockExpire(e)
    \/ \E r \in Calls : PassTTL(r)

Spec == Init /\ [][Next]_vars

(* Nothing in the service keeps two settlements of one reservation apart.
   SerialSpec is the service under callers that do: no two calls under way
   have the same reservation in their sessions.                            *)
SerialSettlement ==
    \A c, d \in Calls : \A r \in Calls :
        c # d /\ seen[c][r] # None => seen[d][r] = None

SerialNext == Next /\ SerialSettlement'

SerialSpec == Init /\ [][SerialNext]_vars

(* A call under way keeps being scheduled, and Redis expires keys. *)
Fairness ==
    /\ \A c \in Calls : WF_vars(CallStep(c))
    /\ \A e \in Events : WF_vars(LockExpire(e))

FairSpec == Spec /\ Fairness

-----------------------------------------------------------------------------
(* Properties.                                                             *)

TypeOK ==
    /\ inv \in [Events -> InventoryRows \cup {None}]
    /\ res \in [Calls -> Reservations \cup {None}]
    /\ pastTTL \subseteq Calls
    /\ lock \in [Events -> Calls \cup {None}]
    /\ req \in [Calls -> Requests]
    /\ pc \in [Calls -> {"idle", "lock", "read", "row", "write", "unlock", "done"}]
    /\ tries \in [Calls -> Nat]
    /\ rows \in [Calls -> [Events -> InventoryRows \cup {None}]]
    /\ seen \in [Calls -> [Calls -> Statuses \cup {None}]]
    /\ result \in [Calls -> Results \cup {None}]

(* The version column does its work (EventInventory, reserve): a session's
   copy of an inventory row is never ahead of the table, and one that has
   the table's version is the table's row, column for column.  So an UPDATE
   that passes its version check never overwrites a change it did not see,
   whatever happens to the lock.                                           *)
VersionIdentifiesRow ==
    \A c \in Calls, e \in Events :
        rows[c][e] # None =>
            /\ inv[e] # None
            /\ rows[c][e].version <= inv[e].version
            /\ rows[c][e].version = inv[e].version => rows[c][e] = inv[e]

(* reserve's retries are never wasted on nobody: the row of a call that has
   failed in n attempts has been through at least n versions since it was
   inserted, and one whose call gave up with ConflictError through MaxRetries.
   This counts the versions of the row's whole life, and a sweep makes one for
   each reservation, so it bounds the lost races from below only.          *)
ConflictCostsCommits ==
    \A c \in Calls :
        LET e == req[c].event
        IN  /\ At(c, "reserve", "read") /\ tries[c] > 0 =>
                    inv[e] # None /\ inv[e].version > tries[c]
            /\ result[c] = "conflict" =>
                    inv[e] # None /\ inv[e].version > MaxRetries

(* A reservation is only admitted into seats that are there when it commits,
   even when the lock expired under the call (the comment in reserve_seats):
   between the check and the commit nobody took them.                      *)
AdmissionSound ==
    [][\A c \in Calls :
          res[c] = None /\ res'[c] # None =>
              LET e == res'[c].event
              IN  /\ available(inv[e]) >= res'[c].quantity
                  /\ available(inv'[e]) >= 0]_vars

(* A call keeps the event's lock until its own release or the key's timeout:
   a holder that outlived its timeout never deletes the key of the next one
   (the comment on _RELEASE_SCRIPT).                                       *)
HolderKeepsLock ==
    [][\A e \in Events :
          lock[e] # None /\ lock'[e] # lock[e] =>
              \/ pc[lock[e]] = "unlock" /\ pc'[lock[e]] = "done"
              \/ pc' = pc]_vars

(* The seats of e that reservations hold. *)
Held(e) == SeatsOf(InStatus(e, "pending") \cup InStatus(e, "confirmed"))

(* The counters never count a seat that no reservation holds, not even when
   settlements of one reservation race and its seats leave the counters
   twice: they err on one side only.  So a reservation that is refused for
   want of seats is refused because others hold them, and no race of the
   callers takes seats off the market.                                     *)
NoSeatLost ==
    \A e \in Events : inv[e] # None =>
        inv[e].reserved + inv[e].confirmed <= Cardinality(Held(e))

(* No event has more seats held than its capacity: the claim of the README
   and of EventInventory ("guarantees correctness").  Only meaningful where
   nobody cuts a capacity ("adjust" is not among Ops).                     *)
NeverOversold ==
    \A e \in Events : inv[e] # None => Cardinality(Held(e)) <= inv[e].total

(* The two counters are the reservations table, counted: reserved_count the
   seats of PENDING reservations, confirmed_count those of CONFIRMED ones. *)
LedgerExact ==
    \A e \in Events : inv[e] # None =>
        /\ inv[e].reserved = Cardinality(SeatsOf(InStatus(e, "pending")))
        /\ inv[e].confirmed = Cardinality(SeatsOf(InStatus(e, "confirmed")))

(* The most steps that a call under way can still make: a turn at the lock,
   the rounds of its retry loop, the rows that a settlement has to load.   *)
Unread(c) == Cardinality({e \in SeenEvents(c) : rows[c][e] = None})

StepsLeft(c) ==
    LET rounds == MaxRetries - tries[c]
        settled == IF req[c].op \in SettleOps THEN Cardinality(Calls) ELSE 0
    IN  CASE pc[c] = "idle"   -> 2 * MaxRetries + LockAttempts + Cardinality(Calls) + 4
          [] pc[c] = "lock"   -> 2 * MaxRetries + LockAttempts - tries[c] + 3
          [] pc[c] = "read"   -> 2 * rounds + settled + 2
          [] pc[c] = "row"    -> 2 * rounds + Unread(c) + 1
          [] pc[c] = "write"  -> 2 * rounds + 1
          [] pc[c] = "unlock" -> 1
          [] pc[c] = "done"   -> 0

CallState(c) == <<req[c], pc[c], tries[c], rows[c], seen[c], result[c]>>

(* No call goes round for ever: each of its steps, retries and failed turns
   at the lock included, leaves it fewer steps to make, and nothing that
   other calls commit, or that expires, gives it more.                     *)
CallsRunDown ==
    [][\A c \in Calls :
          IF CallState(c)' = CallState(c)
          THEN StepsLeft(c)' = StepsLeft(c)
          ELSE StepsLeft(c)' \in 0 .. StepsLeft(c) - 1]_vars

(* Every call ends: the retry loops are bounded and nobody waits for a lock
   for ever.                                                               *)
CallsEnd == \A c \in Calls : pc[c] = "lock" \/ pc[c] = "read" ~> pc[c] = "done"

=============================================================================
