--------------------------- MODULE InventoryProofs ---------------------------
(***************************************************************************)
(* Proofs about the Inventory service, for any number of events and calls. *)
(*                                                                         *)
(* IndInv is inductive for Next without any assumption on the callers;     *)
(* SerialInv adds what holds when settlements of a reservation do not      *)
(* overlap (SerialNext).                                                   *)
(***************************************************************************)
EXTENDS Inventory, FiniteSetTheorems, FunctionTheorems, TLAPS

(* What a call's arguments are, by its operation. *)
RequestOK ==
    \A c \in Calls :
        /\ pc[c] # "idle" => req[c].op \in AllOps
        /\ req[c].op \in {"initialize", "adjust", "reserve"} => req[c].event \in Events
        /\ req[c].op \in {"initialize", "adjust"} => req[c].n \in Capacities
        /\ req[c].op = "reserve" => req[c].n \in Quantities
        /\ req[c].op \in {"confirm", "release"} => req[c].target \in Calls
        /\ pc[c] = "lock" => req[c].op \in LockedOps
        /\ pc[c] = "unlock" => req[c].op \in LockedOps
        /\ pc[c] \notin {"unlock", "done"} => result[c] = None
        /\ result[c] = "conflict" => req[c].op = "reserve"

(* The statuses in which an operation goes on with a reservation. *)
Readable(op) == IF op = "release" THEN {"pending", "confirmed"} ELSE {"pending"}

(* A session is empty outside its transaction, and what a transaction has
   loaded when it is about to write.                                       *)
SessionOK ==
    \A c \in Calls :
        /\ pc[c] \notin {"row", "write"} => rows[c] = NoRows /\ seen[c] = NoneSeen
        /\ req[c].op \notin SettleOps => seen[c] = NoneSeen
        /\ \A r \in Calls : seen[c][r] # None =>
              res[r] # None /\ seen[c][r] \in Readable(req[c].op)
        /\ req[c].op \in LockedOps /\ pc[c] = "write" => rows[c][req[c].event] # None
        /\ \A e \in Events :
              rows[c][e] # None =>
                  IF req[c].op \in SettleOps THEN e \in SeenEvents(c)
                                             ELSE e = req[c].event
        /\ At(c, "reserve", "write") =>
              /\ req[c].n > 0
              /\ available(rows[c][req[c].event]) >= req[c].n
              /\ rows[c][req[c].event].version > tries[c]
        /\ pc[c] = "write" /\ req[c].op \in SettleOps =>
              \A e \in SeenEvents(c) : rows[c][e] # None

(* A reservation is the work of a call that has committed, and its event has
   an inventory row (the foreign key).                                     *)
ReservationOK ==
    \A r \in Calls : res[r] # None =>
        /\ pc[r] \in {"unlock", "done"}
        /\ inv[res[r].event] # None

IndInv ==
    /\ TypeOK
    /\ RequestOK
    /\ SessionOK
    /\ ReservationOK
    /\ VersionIdentifiesRow
    /\ ConflictCostsCommits

(* While a settlement is under way, the status it read is the current one. *)
SeenIsCurrent ==
    \A c \in Calls : \A r \in Calls :
        seen[c][r] # None => seen[c][r] = res[r].status

SerialInv ==
    /\ IndInv
    /\ SerialSettlement
    /\ SeenIsCurrent
    /\ LedgerExact

-----------------------------------------------------------------------------
(* Steps that leave the tables alone.                                      *)

(* The empty tables and idle calls satisfy the invariant. *)
LEMMA InitIndInv == Init => IndInv
<1> SUFFICES ASSUME Init PROVE IndInv
    OBVIOUS
<1> USE NoneAssumption
<1>1. TypeOK
  <2>1. inv \in [Events -> InventoryRows \cup {None}]
    BY CapacitiesAssumption DEF Init, NewRow, InventoryRows
  <2>2. req \in [Calls -> Requests]
    BY BoundsAssumption DEF Init, Request, Requests, Quantities
  <2>3. QED
    BY <2>1, <2>2 DEF Init, TypeOK, NoRows, NoneSeen
<1>2. RequestOK
  BY DEF Init, RequestOK, Request, AllOps, Results
<1>3. SessionOK
  BY DEF Init, SessionOK, NoRows, NoneSeen, At
<1>4. ReservationOK /\ VersionIdentifiesRow /\ ConflictCostsCommits
  BY DEF Init, ReservationOK, VersionIdentifiesRow, ConflictCostsCommits, NoRows,
         At, Results
<1>5. QED
  BY <1>1, <1>2, <1>3, <1>4 DEF IndInv

(* A call that leaves its session without a commit. *)
LEMMA RollbackInv ==
    ASSUME IndInv, NEW c \in Calls, NEW o \in Results, Rollback(c, o),
           pc[c] \in {"lock", "read", "row", "write"},
           o = "conflict" => /\ req[c].op = "reserve"
                             /\ inv[req[c].event] # None
                             /\ inv[req[c].event].version > MaxRetries
    PROVE  IndInv'
<1> USE NoneAssumption
<1> USE DEF IndInv, Rollback, Finish
<1>1. TypeOK'
  BY DEF TypeOK, NoRows, NoneSeen
<1>2. RequestOK'
  BY DEF TypeOK, RequestOK, LockedOps
<1>3. SessionOK'
  BY DEF TypeOK, SessionOK, NoRows, NoneSeen, At, SeenEvents
<1>4. ReservationOK'
  BY DEF TypeOK, ReservationOK
<1>5. VersionIdentifiesRow'
  BY DEF TypeOK, VersionIdentifiesRow, NoRows
<1>6. ConflictCostsCommits'
  BY DEF TypeOK, ConflictCostsCommits, At
<1>7. QED
  BY <1>1, <1>2, <1>3, <1>4, <1>5, <1>6 DEF IndInv

(* The arrival of a call with well-formed arguments. *)
LEMMA ArriveInv ==
    ASSUME IndInv, NEW c \in Calls, NEW op \in AllOps,
           NEW e \in Events \cup {None}, NEW n \in Quantities \cup Capacities,
           NEW r \in Calls \cup {None}, Arrive(c, op, e, n, r),
           op \in {"initialize", "adjust", "reserve"} => e \in Events,
           op \in {"initialize", "adjust"} => n \in Capacities,
           op = "reserve" => n \in Quantities,
           op \in {"confirm", "release"} => r \in Calls
    PROVE  IndInv'
<1> USE NoneAssumption
<1> USE DEF IndInv, Arrive, Request
<1>1. TypeOK'
  BY DEF TypeOK, Requests
<1>2. RequestOK'
  BY DEF TypeOK, RequestOK, AllOps, LockedOps, Results
<1>3. SessionOK'
  BY DEF TypeOK, SessionOK, NoRows, NoneSeen, At, SeenEvents, LockedOps
<1>4. ReservationOK'
  BY DEF TypeOK, ReservationOK
<1>5. VersionIdentifiesRow'
  BY DEF TypeOK, VersionIdentifiesRow
<1>6. ConflictCostsCommits'
  BY DEF TypeOK, RequestOK, ConflictCostsCommits, At, Results, LockedOps
<1>7. QED
  BY <1>1, <1>2, <1>3, <1>4, <1>5, <1>6 DEF IndInv

(* The arrival of any call. *)
LEMMA ArrivalsInv ==
    ASSUME IndInv, NEW c \in Calls, Arrivals(c)
    PROVE  IndInv'
<1>1. 0 \in Quantities
  BY BoundsAssumption DEF Quantities
<1>2. CASE InitializeInventory(c)
  BY <1>2, ArriveInv DEF InitializeInventory, AllOps
<1>3. CASE AdjustCapacity(c)
  BY <1>3, ArriveInv DEF AdjustCapacity, AllOps
<1>4. CASE ReserveSeats(c)
  BY <1>4, ArriveInv DEF ReserveSeats, AllOps
<1>5. CASE ConfirmReservation(c)
  BY <1>1, <1>5, ArriveInv DEF ConfirmReservation, AllOps
<1>6. CASE ReleaseReservation(c)
  BY <1>1, <1>6, ArriveInv DEF ReleaseReservation, AllOps
<1>7. CASE SweepExpiredReservations(c)
  BY <1>1, <1>7, ArriveInv DEF SweepExpiredReservations, AllOps
<1>8. QED
  BY <1>2, <1>3, <1>4, <1>5, <1>6, <1>7 DEF Arrivals

(* The lock's own steps leave sessions and tables alone. *)
LEMMA LockStepsInv ==
    ASSUME IndInv, NEW c \in Calls, AcquireLock(c) \/ LockBusy(c) \/ Unlock(c)
    PROVE  IndInv'
<1> USE NoneAssumption
<1> DEFINE e == req[c].event
<1>a. ASSUME pc[c] \in {"lock", "unlock"} PROVE e \in Events
  BY <1>a DEF IndInv, RequestOK, LockedOps
<1>b. CASE LockBusy(c) /\ Rollback(c, "busy")
  BY <1>b, RollbackInv DEF LockBusy, Results
<1>c. ASSUME /\ UNCHANGED <<inv, res, pastTTL, req, rows, seen, result>>
             /\ lock' \in [Events -> Calls \cup {None}]
             /\ tries' \in [Calls -> Nat]
             /\ pc[c] \in {"lock", "unlock"}
             /\ \E label \in {"lock", "read", "done"} :
                   /\ pc' = [pc EXCEPT ![c] = label]
                   /\ label # "done" => pc[c] = "lock"
                   /\ label = "read" => tries'[c] = 0
             /\ \A d \in Calls : d # c => tries'[d] = tries[d]
      PROVE  IndInv'
  <2> USE <1>c DEF IndInv
  <2>1. TypeOK'
    BY DEF TypeOK
  <2>2. RequestOK'
    BY DEF TypeOK, RequestOK, LockedOps
  <2>3. SessionOK'
    BY DEF TypeOK, SessionOK, NoRows, NoneSeen, At, SeenEvents, LockedOps
  <2>4. ReservationOK' /\ VersionIdentifiesRow'
    BY DEF TypeOK, ReservationOK, VersionIdentifiesRow
  <2>5. ConflictCostsCommits'
    BY DEF TypeOK, ConflictCostsCommits, At
  <2>6. QED
    BY <2>1, <2>2, <2>3, <2>4, <2>5
<1>d. CASE AcquireLock(c)
  BY <1>c, <1>d, <1>a DEF AcquireLock, IndInv, TypeOK
<1>e. CASE Unlock(c)
  BY <1>c, <1>e, <1>a DEF Unlock, Released, IndInv, TypeOK
<1>f. CASE LockBusy(c) /\ ~Rollback(c, "busy")
  <2>1. pc' = [pc EXCEPT ![c] = "lock"]
    BY <1>f DEF LockBusy, IndInv, TypeOK
  <2>a. tries' = [tries EXCEPT ![c] = @ + 1] /\ tries \in [Calls -> Nat]
    BY <1>f DEF LockBusy, IndInv, TypeOK
  <2>2. tries' \in [Calls -> Nat] /\ \A d \in Calls : d # c => tries'[d] = tries[d]
    BY <2>a
  <2>3. QED
    BY <1>c, <1>f, <2>1, <2>2 DEF LockBusy, IndInv, TypeOK
<1>g. QED
  BY <1>b, <1>d, <1>e, <1>f

(* A crash empties the session of its call and keeps everything else. *)
LEMMA CrashInv ==
    ASSUME IndInv, NEW c \in Calls, Crash(c)
    PROVE  IndInv'
<1> USE NoneAssumption
<1> USE DEF IndInv, Crash
<1>1. TypeOK'
  BY DEF TypeOK, NoRows, NoneSeen, Results
<1>2. RequestOK'
  BY DEF TypeOK, RequestOK
<1>3. SessionOK'
  BY DEF TypeOK, SessionOK, NoRows, NoneSeen, At, SeenEvents
<1>4. ReservationOK'
  BY DEF TypeOK, ReservationOK
<1>5. VersionIdentifiesRow'
  BY DEF TypeOK, VersionIdentifiesRow, NoRows
<1>6. ConflictCostsCommits'
  BY DEF TypeOK, ConflictCostsCommits, At
<1>7. QED
  BY <1>1, <1>2, <1>3, <1>4, <1>5, <1>6 DEF IndInv

(* Time: keys and reservations expire. *)
LEMMA TimeInv ==
    ASSUME IndInv,
           \/ \E e \in Events : LockExpire(e)
           \/ \E r \in Calls : PassTTL(r)
           \/ UNCHANGED vars
    PROVE  IndInv'
<1>1. /\ UNCHANGED <<inv, res, req, pc, tries, rows, seen, result>>
      /\ lock' \in [Events -> Calls \cup {None}]
      /\ pastTTL' \subseteq Calls
  BY DEF IndInv, TypeOK, LockExpire, PassTTL, vars
<1>2. TypeOK'
  BY <1>1 DEF IndInv, TypeOK
<1>3. RequestOK' /\ SessionOK' /\ ReservationOK'
  BY <1>1 DEF IndInv, RequestOK, SessionOK, ReservationOK, SeenEvents, At
<1>4. VersionIdentifiesRow' /\ ConflictCostsCommits'
  BY <1>1 DEF IndInv, VersionIdentifiesRow, ConflictCostsCommits, At
<1>5. QED
  BY <1>2, <1>3, <1>4 DEF IndInv

(* A call reads the inventory row of an event. *)
LEMMA LoadRowInv ==
    ASSUME IndInv, NEW c \in Calls, NEW e \in Events, NEW label \in {"row", "write"},
           LoadRow(c, e, label), pc[c] \in {"read", "row"},
           \/ /\ req[c].op \in SettleOps /\ pc[c] = "row" /\ e \in SeenEvents(c)
              /\ label = "write" =>
                    \A f \in SeenEvents(c) \ {e} : rows[c][f] # None
           \/ /\ req[c].op \in {"initialize", "adjust", "reserve"}
              /\ e = req[c].event /\ label = "write" /\ pc[c] = "read",
           req[c].op # "initialize" => inv[e] # None,
           req[c].op = "reserve" => req[c].n > 0 /\ available(inv[e]) >= req[c].n
    PROVE  IndInv'
<1> USE NoneAssumption
<1> USE DEF IndInv, LoadRow
<1>1. TypeOK'
  BY DEF TypeOK
<1>2. RequestOK'
  BY DEF TypeOK, RequestOK
<1>3. SessionOK'
  <2> SUFFICES ASSUME NEW d \in Calls PROVE SessionOK!(d)'
    BY DEF SessionOK
  <2>1. SeenEvents(d)' = SeenEvents(d)
    BY DEF SeenEvents
  <2>2. CASE d # c
    BY <2>1, <2>2 DEF TypeOK, SessionOK, At
  <2>3. CASE d = c
    <3>1. \A f \in Events : rows'[c][f] = IF f = e THEN inv[e] ELSE rows[c][f]
      BY DEF TypeOK
    <3>2. At(c, "reserve", "write")' =>
             /\ req[c].n > 0
             /\ available(rows'[c][req[c].event]) >= req[c].n
             /\ rows'[c][req[c].event].version > tries[c]
      <4>1. req[c].op = "reserve" => inv[e] \in InventoryRows /\ tries[c] \in Nat
        BY DEF TypeOK
      <4>2. req[c].op = "reserve" => inv[e].version > tries[c]
        BY <4>1 DEF ConflictCostsCommits, At, SettleOps, InventoryRows
      <4>3. QED
        BY <3>1, <4>2 DEF At, SettleOps, available
    <3>3. QED
      BY <2>1, <2>3, <3>1, <3>2 DEF TypeOK, SessionOK, LockedOps, SettleOps, NoRows
  <2>4. QED
    BY <2>2, <2>3
<1>4. ReservationOK'
  BY DEF TypeOK, ReservationOK
<1>5. VersionIdentifiesRow'
  BY DEF TypeOK, VersionIdentifiesRow, InventoryRows
<1>6. ConflictCostsCommits'
  BY DEF TypeOK, ConflictCostsCommits, At
<1>7. QED
  BY <1>1, <1>2, <1>3, <1>4, <1>5, <1>6 DEF IndInv

(* A settlement reads the reservations it is about. *)
LEMMA FindInv ==
    ASSUME IndInv, NEW c \in Calls, SettleFind(c) \/ SweepFind(c)
    PROVE  IndInv'
<1> USE NoneAssumption
<1> DEFINE Found ==
      /\ req[c].op \in SettleOps /\ pc[c] = "read"
      /\ pc' = [pc EXCEPT ![c] = "row"]
      /\ UNCHANGED <<inv, res, pastTTL, lock, req, tries, rows, result>>
<1>a. CASE \E o \in {"ok", "not_found"} : pc[c] = "read" /\ Rollback(c, o)
  BY <1>a, RollbackInv DEF Results
<1>c. ASSUME Found, NEW S \in SUBSET Calls,
             \A r \in S : res[r] # None /\ res[r].status \in Readable(req[c].op),
             seen' = [seen EXCEPT ![c] =
                        [r \in Calls |-> IF r \in S THEN res[r].status ELSE None]]
      PROVE  IndInv'
  <2> USE <1>c DEF IndInv
  <2>1. \A r \in Calls : seen'[c][r] = IF r \in S THEN res[r].status ELSE None
    BY DEF TypeOK
  <2>2. TypeOK'
    BY DEF TypeOK, Reservations
  <2>3. RequestOK'
    BY DEF TypeOK, RequestOK
  <2>4. SessionOK'
    <3> SUFFICES ASSUME NEW d \in Calls PROVE SessionOK!(d)'
      BY DEF SessionOK
    <3>1. CASE d # c
      BY <3>1 DEF TypeOK, SessionOK, At, SeenEvents
    <3>2. CASE d = c
      <4>1. pc'[c] = "row" /\ rows'[c] = NoRows /\ req'[c] = req[c]
        BY DEF TypeOK, SessionOK
      <4>2. \A r \in Calls : seen'[c][r] # None =>
               res'[r] # None /\ seen'[c][r] \in Readable(req[c].op)
        BY <2>1
      <4>3. QED
        BY <3>2, <4>1, <4>2 DEF At, SettleOps, NoRows
    <3>3. QED
      BY <3>1, <3>2
  <2>5. ReservationOK' /\ VersionIdentifiesRow'
    BY DEF TypeOK, ReservationOK, VersionIdentifiesRow
  <2>6. ConflictCostsCommits'
    BY DEF TypeOK, ConflictCostsCommits, At
  <2>7. QED
    BY <2>2, <2>3, <2>4, <2>5, <2>6
<1>b. CASE SettleFind(c) /\ ~\E o \in {"ok", "not_found"} : pc[c] = "read" /\ Rollback(c, o)
  <2> DEFINE r == req[c].target
  <2>1. r \in Calls
    BY <1>b DEF SettleFind, IndInv, RequestOK
  <2>2. /\ res[r] # None /\ res[r].status \in Readable(req[c].op)
        /\ seen' = [seen EXCEPT ![c][r] = res[r].status]
        /\ pc[c] = "read" /\ pc' = [pc EXCEPT ![c] = "row"]
        /\ req[c].op \in SettleOps
        /\ UNCHANGED <<inv, res, pastTTL, lock, req, tries, rows, result>>
    BY <1>b, <2>1 DEF SettleFind, SettleOps, Settleable, Readable
  <2>3. seen[c] = [x \in Calls |-> None]
    BY <2>2 DEF IndInv, SessionOK, NoneSeen
  <2>4. seen' = [seen EXCEPT ![c] =
                   [x \in Calls |-> IF x \in {r} THEN res[x].status ELSE None]]
    <3>1. [seen[c] EXCEPT ![r] = res[r].status] =
             [x \in Calls |-> IF x \in {r} THEN res[x].status ELSE None]
      BY <2>1, <2>3
    <3>2. seen' = [seen EXCEPT ![c] = [seen[c] EXCEPT ![r] = res[r].status]]
      BY <2>2
    <3>3. QED
      BY <3>1, <3>2
  <2>5. /\ Found /\ {r} \in SUBSET Calls
        /\ \A x \in {r} : res[x] # None /\ res[x].status \in Readable(req[c].op)
    BY <2>1, <2>2
  <2>6. QED
    BY <1>c, <2>4, <2>5
<1>d. CASE SweepFind(c) /\ ~\E o \in {"ok", "not_found"} : pc[c] = "read" /\ Rollback(c, o)
  <2>1. PICK S \in SUBSET Overdue :
          /\ seen' = [seen EXCEPT ![c] =
                        [r \in Calls |-> IF r \in S THEN "pending" ELSE None]]
          /\ pc' = [pc EXCEPT ![c] = "row"]
          /\ UNCHANGED <<inv, res, pastTTL, lock, req, tries, rows, result>>
    BY <1>d DEF SweepFind, At
  <2>2. S \in SUBSET Calls /\ \A r \in S : res[r] # None /\ res[r].status = "pending"
    BY DEF Overdue, IndInv, TypeOK
  <2>3. [r \in Calls |-> IF r \in S THEN "pending" ELSE None]
          = [r \in Calls |-> IF r \in S THEN res[r].status ELSE None]
    BY <2>2
  <2>4. QED
    BY <1>c, <1>d, <2>1, <2>2, <2>3 DEF SweepFind, At, SettleOps, Readable
<1>e. QED
  BY <1>a, <1>b, <1>d

-----------------------------------------------------------------------------
(* Steps that change the tables.                                           *)

(* A commit that raises the version of every inventory row it changes, and
   keeps the reservations' events, preserves the invariant.                *)
LEMMA CommitInv ==
    ASSUME IndInv, NEW c \in Calls, Finish(c, "ok"), UNCHANGED pastTTL,
           pc[c] = "write",
           inv' \in [Events -> InventoryRows \cup {None}],
           res' \in [Calls -> Reservations \cup {None}],
           \A e \in Events :
              \/ inv'[e] = inv[e]
              \/ /\ inv'[e] # None
                 /\ inv[e] # None => inv'[e].version > inv[e].version,
           \A r \in Calls : res[r] # None =>
              res'[r] # None /\ res'[r].event = res[r].event,
           \A r \in Calls : res[r] = None /\ res'[r] # None =>
              r = c /\ inv'[res'[c].event] # None
    PROVE  IndInv'
<1> USE NoneAssumption
<1> USE DEF IndInv, Finish
<1>1. TypeOK'
  BY DEF TypeOK, NoRows, NoneSeen, Results
<1>2. RequestOK'
  BY DEF TypeOK, RequestOK, LockedOps
<1>3. SessionOK'
  <2> SUFFICES ASSUME NEW d \in Calls PROVE SessionOK!(d)'
    BY DEF SessionOK
  <2>1. CASE d = c
    BY <2>1 DEF TypeOK, SessionOK, NoRows, NoneSeen, At, SeenEvents
  <2>2. CASE d # c
    <3>1. SeenEvents(d)' = SeenEvents(d)
      <4>1. seen'[d] = seen[d]
        BY <2>2 DEF TypeOK
      <4>2. \A r \in Calls : seen[d][r] # None => res'[r].event = res[r].event
        BY DEF SessionOK
      <4>3. QED
        BY <4>1, <4>2 DEF SeenEvents
    <3>2. QED
      BY <2>2, <3>1 DEF TypeOK, SessionOK, At
  <2>3. QED
    BY <2>1, <2>2
<1>4. ReservationOK'
  <2> SUFFICES ASSUME NEW r \in Calls, res'[r] # None
               PROVE  pc'[r] \in {"unlock", "done"} /\ inv'[res'[r].event] # None
    BY DEF ReservationOK
  <2>1. pc'[c] \in {"unlock", "done"}
    BY DEF TypeOK
  <2>2. CASE res[r] # None
    BY <2>1, <2>2 DEF ReservationOK, TypeOK, Reservations
  <2>3. CASE res[r] = None
    BY <2>1, <2>3
  <2>4. QED
    BY <2>2, <2>3
<1>5. VersionIdentifiesRow'
  <2> SUFFICES ASSUME NEW d \in Calls, NEW e \in Events, rows'[d][e] # None
               PROVE  /\ inv'[e] # None
                      /\ rows'[d][e].version <= inv'[e].version
                      /\ rows'[d][e].version = inv'[e].version => rows'[d][e] = inv'[e]
    BY DEF VersionIdentifiesRow
  <2>1. d # c /\ rows'[d][e] = rows[d][e]
    BY DEF TypeOK, NoRows
  <2>2. /\ inv[e] # None /\ rows[d][e].version <= inv[e].version
        /\ rows[d][e].version = inv[e].version => rows[d][e] = inv[e]
    BY <2>1 DEF VersionIdentifiesRow
  <2>3. rows[d][e].version \in Nat /\ inv[e].version \in Nat
    BY <2>1, <2>2 DEF TypeOK, InventoryRows
  <2>4. inv'[e] # None => inv'[e].version \in Nat
    BY DEF InventoryRows
  <2>5. QED
    BY <2>1, <2>2, <2>3, <2>4
<1>6. ConflictCostsCommits'
  <2> SUFFICES ASSUME NEW d \in Calls
               PROVE  ConflictCostsCommits!(d)'
    BY DEF ConflictCostsCommits
  <2>1. req'[d] = req[d] /\ (d # c => pc'[d] = pc[d] /\ tries'[d] = tries[d] /\ result'[d] = result[d])
    BY DEF TypeOK
  <2>2. pc'[c] # "read" /\ result'[c] # "conflict"
    BY DEF TypeOK
  <2>3. ASSUME NEW k \in Nat, inv[req[d].event] # None, req[d].event \in Events,
               inv[req[d].event].version > k
        PROVE  inv'[req[d].event] # None /\ inv'[req[d].event].version > k
    BY <2>3 DEF TypeOK, InventoryRows
  <2>4. QED
    BY <2>1, <2>2, <2>3, BoundsAssumption DEF ConflictCostsCommits, At, TypeOK, RequestOK
<1>7. QED
  BY <1>1, <1>2, <1>3, <1>4, <1>5, <1>6 DEF IndInv

(* initialize_inventory *)
LEMMA InitializeInv ==
    ASSUME IndInv, NEW c \in Calls,
           InitializeRead(c) \/ InitializeInsert(c) \/ InitializeDuplicate(c)
    PROVE  IndInv'
<1> DEFINE e == req[c].event
<1>1. CASE InitializeRead(c)
  <2>1. e \in Events /\ req[c].op = "initialize" /\ pc[c] = "read"
    BY <1>1 DEF InitializeRead, At, IndInv, RequestOK
  <2>2. CASE Rollback(c, "ok")
    BY <2>1, <2>2, RollbackInv DEF Results
  <2>3. CASE LoadRow(c, e, "write")
    BY <2>1, <2>3, LoadRowInv
  <2>4. QED
    BY <1>1, <2>2, <2>3 DEF InitializeRead
<1>2. CASE InitializeInsert(c)
  <2>1. e \in Events /\ req[c].n \in Capacities /\ pc[c] = "write"
    BY <1>2 DEF InitializeInsert, At, IndInv, RequestOK
  <2>2. NewRow(req[c].n) \in InventoryRows
    BY <2>1 DEF NewRow, InventoryRows
  <2>3. /\ inv' \in [Events -> InventoryRows \cup {None}]
        /\ \A f \in Events : inv'[f] = inv[f] \/ (inv[f] = None /\ inv'[f] # None)
    BY <1>2, <2>1, <2>2, NoneAssumption DEF InitializeInsert, IndInv, TypeOK
  <2>4. QED
    BY <1>2, <2>1, <2>3, CommitInv DEF InitializeInsert, IndInv, TypeOK
<1>3. CASE InitializeDuplicate(c)
  BY <1>3, RollbackInv DEF InitializeDuplicate, At, Results
<1>4. QED
  BY <1>1, <1>2, <1>3

(* adjust_capacity *)
LEMMA AdjustInv ==
    ASSUME IndInv, NEW c \in Calls,
           AdjustRead(c) \/ AdjustNoChange(c) \/ AdjustCommit(c) \/ AdjustStale(c)
    PROVE  IndInv'
<1> DEFINE e == req[c].event
<1>0. e \in Events /\ req[c].n \in Capacities /\ req[c].op = "adjust"
  BY DEF AdjustRead, AdjustNoChange, AdjustCommit, AdjustStale, At, IndInv, RequestOK
<1>1. CASE AdjustRead(c)
  <2>1. pc[c] = "read"
    BY <1>1 DEF AdjustRead, At
  <2>2. CASE Rollback(c, "not_found")
    BY <2>1, <2>2, RollbackInv DEF Results
  <2>3. CASE inv[e] # None /\ LoadRow(c, e, "write")
    BY <1>0, <2>1, <2>3, LoadRowInv
  <2>4. QED
    BY <1>1, <2>2, <2>3 DEF AdjustRead
<1>2. CASE AdjustNoChange(c)
  BY <1>2, RollbackInv DEF AdjustNoChange, At, Results
<1>3. CASE AdjustCommit(c)
  <2>1. pc[c] = "write" /\ rows[c][e] # None
    BY <1>0, <1>3 DEF AdjustCommit, At, IndInv, SessionOK, LockedOps
  <2>2. inv[e] \in InventoryRows /\ rows[c][e].version = inv[e].version
    BY <1>0, <1>3, <2>1 DEF IndInv, TypeOK, VersionIdentifiesRow, AdjustCommit, Current
  <2>3. inv' = [inv EXCEPT ![e] = [@ EXCEPT !.total = req[c].n,
                                           !.version = inv[e].version + 1]]
    BY <1>3, <2>2 DEF AdjustCommit
  <2>4. /\ inv'[e] \in InventoryRows /\ inv'[e].version > inv[e].version
        /\ inv' \in [Events -> InventoryRows \cup {None}]
    <3>1. inv'[e] = [inv[e] EXCEPT !.total = req[c].n, !.version = inv[e].version + 1]
      BY <1>0, <2>3 DEF IndInv, TypeOK
    <3>a. inv[e].version + 1 \in Nat \ {0} /\ inv[e].version + 1 > inv[e].version
      BY <2>2 DEF InventoryRows
    <3>2. inv'[e] \in InventoryRows /\ inv'[e].version > inv[e].version
      BY <1>0, <2>2, <3>1, <3>a DEF InventoryRows
    <3>3. QED
      BY <1>0, <2>3, <3>2 DEF IndInv, TypeOK
  <2>5. \A f \in Events : f # e => inv'[f] = inv[f]
    BY <2>3 DEF IndInv, TypeOK
  <2>6. QED
    BY <1>3, <2>1, <2>2, <2>4, <2>5, CommitInv, NoneAssumption
       DEF AdjustCommit, IndInv, TypeOK
<1>4. CASE AdjustStale(c)
  BY <1>4, RollbackInv DEF AdjustStale, At, Results
<1>5. QED
  BY <1>1, <1>2, <1>3, <1>4

(* What reserve holds in its session when it flushes. *)
LEMMA ReserveSession ==
    ASSUME IndInv, NEW c \in Calls, req[c].op = "reserve", pc[c] = "write"
    PROVE  LET e == req[c].event
               q == req[c].n
           IN  /\ e \in Events /\ q \in 1 .. MaxQuantity
               /\ inv[e] \in InventoryRows /\ rows[c][e] \in InventoryRows
               /\ rows[c][e].version > tries[c]
               /\ available(rows[c][e]) >= q
               /\ Current(c) => rows[c][e] = inv[e]
               /\ ~Current(c) => rows[c][e].version < inv[e].version
<1> DEFINE e == req[c].event
           q == req[c].n
<1>1. e \in Events /\ q \in Quantities
  BY DEF IndInv, RequestOK
<1>2. rows[c][e] # None /\ \A f \in Events : rows[c][f] # None => f = e
  BY DEF IndInv, SessionOK, LockedOps, SettleOps
<1>3. /\ inv[e] \in InventoryRows /\ rows[c][e] \in InventoryRows
      /\ rows[c][e].version <= inv[e].version
      /\ rows[c][e].version = inv[e].version => rows[c][e] = inv[e]
  BY <1>1, <1>2 DEF IndInv, TypeOK, VersionIdentifiesRow
<1>4. q > 0 /\ rows[c][e].version > tries[c] /\ available(rows[c][e]) >= q
  BY DEF IndInv, SessionOK, At
<1>5. q \in 1 .. MaxQuantity
  BY <1>1, <1>4, BoundsAssumption DEF Quantities
<1>6. Current(c) <=> rows[c][e].version = inv[e].version
  BY <1>1, <1>2 DEF Current
<1>7. QED
  BY <1>1, <1>3, <1>4, <1>5, <1>6 DEF InventoryRows

(* reserve *)
LEMMA ReserveInv ==
    ASSUME IndInv, NEW c \in Calls,
           ReserveRead(c) \/ ReserveCommit(c) \/ ReserveStale(c)
    PROVE  IndInv'
<1> DEFINE e == req[c].event
           q == req[c].n
<1>0. e \in Events /\ q \in Quantities /\ req[c].op = "reserve"
  BY DEF ReserveRead, ReserveCommit, ReserveStale, At, IndInv, RequestOK
<1>1. CASE ReserveRead(c)
  <2>1. pc[c] = "read"
    BY <1>1 DEF ReserveRead, At
  <2>2. CASE \E o \in {"invalid", "not_found", "capacity"} : Rollback(c, o)
    BY <2>1, <2>2, RollbackInv DEF Results
  <2>3. CASE q > 0 /\ inv[e] # None /\ available(inv[e]) >= q /\ LoadRow(c, e, "write")
    BY <1>0, <2>1, <2>3, LoadRowInv
  <2>4. QED
    BY <1>1, <2>2, <2>3 DEF ReserveRead
<1>2. ASSUME pc[c] = "write"
      PROVE  /\ q > 0 /\ inv[e] \in InventoryRows /\ rows[c][e] \in InventoryRows
             /\ rows[c][e].version > tries[c]
             /\ Current(c) => rows[c][e] = inv[e]
             /\ ~Current(c) => rows[c][e].version < inv[e].version
  BY <1>0, <1>2, ReserveSession
<1>3. CASE ReserveCommit(c)
  <2>1. pc[c] = "write" /\ Current(c)
    BY <1>3 DEF ReserveCommit, At
  <2>2. inv' = [inv EXCEPT ![e] = [@ EXCEPT !.reserved = inv[e].reserved + q,
                                           !.version = inv[e].version + 1]]
    BY <1>2, <1>3, <2>1 DEF ReserveCommit
  <2>3. res' = [res EXCEPT ![c] = [event |-> e, quantity |-> q, status |-> "pending"]]
    BY <1>3 DEF ReserveCommit
  <2>4. /\ inv'[e] \in InventoryRows /\ inv'[e].version > inv[e].version
        /\ inv' \in [Events -> InventoryRows \cup {None}]
    <3>1. inv'[e] = [inv[e] EXCEPT !.reserved = inv[e].reserved + q,
                                   !.version = inv[e].version + 1]
      BY <1>0, <2>2 DEF IndInv, TypeOK
    <3>a. q \in Int
      BY <1>0, BoundsAssumption DEF Quantities
    <3>2. /\ inv[e].version + 1 \in Nat \ {0} /\ inv[e].version + 1 > inv[e].version
          /\ inv[e].reserved + q \in Int
      BY <1>2, <2>1, <3>a DEF InventoryRows
    <3>3. inv'[e] \in InventoryRows /\ inv'[e].version > inv[e].version
      BY <1>0, <1>2, <2>1, <3>1, <3>2 DEF InventoryRows
    <3>4. QED
      BY <1>0, <2>2, <3>3 DEF IndInv, TypeOK
  <2>5. \A f \in Events : f # e => inv'[f] = inv[f]
    BY <2>2 DEF IndInv, TypeOK
  <2>6. [event |-> e, quantity |-> q, status |-> "pending"] \in Reservations
    BY <1>0, <1>2, <2>1, BoundsAssumption DEF Reservations, Quantities, Statuses
  <2>7. res' \in [Calls -> Reservations \cup {None}] /\ res[c] = None
    BY <2>1, <2>3, <2>6 DEF IndInv, TypeOK, ReservationOK
  <2>8. /\ \A r \in Calls : r # c => res'[r] = res[r]
        /\ res'[c].event = e
    BY <2>3 DEF IndInv, TypeOK
  <2>9. \A f \in Events : \/ inv'[f] = inv[f]
                          \/ inv'[f] # None /\ inv'[f].version > inv[f].version
    BY <2>4, <2>5, NoneAssumption
  <2>10. \A r \in Calls : res[r] # None => res'[r] # None /\ res'[r].event = res[r].event
    BY <2>7, <2>8
  <2>11. \A r \in Calls : res[r] = None /\ res'[r] # None =>
             r = c /\ inv'[res'[c].event] # None
    BY <2>4, <2>8, NoneAssumption
  <2>12. Finish(c, "ok") /\ UNCHANGED pastTTL
    BY <1>3 DEF ReserveCommit
  <2>13. QED
    BY <2>1, <2>4, <2>7, <2>9, <2>10, <2>11, <2>12, CommitInv
<1>4. CASE ReserveStale(c) /\ tries[c] + 1 >= MaxRetries
  <2>1. pc[c] = "write" /\ ~Current(c) /\ Rollback(c, "conflict")
    BY <1>4, BoundsAssumption DEF ReserveStale, At, IndInv, TypeOK
  <2>2. inv[e].version > MaxRetries /\ inv[e] # None
    BY <1>2, <1>4, <2>1, BoundsAssumption, NoneAssumption DEF IndInv, TypeOK, InventoryRows
  <2>3. QED
    BY <1>0, <2>1, <2>2, RollbackInv DEF Results
<1>5. CASE ReserveStale(c) /\ ~(tries[c] + 1 >= MaxRetries)
  <2>1. /\ pc[c] = "write" /\ ~Current(c)
        /\ tries' = [tries EXCEPT ![c] = @ + 1]
        /\ rows' = [rows EXCEPT ![c] = NoRows]
        /\ pc' = [pc EXCEPT ![c] = "read"]
        /\ UNCHANGED <<inv, res, pastTTL, lock, req, seen, result>>
    BY <1>5 DEF ReserveStale, At
  <2>2. inv[e] # None /\ inv[e].version > tries'[c]
    BY <1>2, <2>1, NoneAssumption DEF IndInv, TypeOK, InventoryRows
  <2>3. TypeOK'
    BY <2>1 DEF IndInv, TypeOK, NoRows
  <2>4. RequestOK'
    BY <2>1, <1>0 DEF IndInv, TypeOK, RequestOK
  <2>5. SessionOK'
    BY <2>1, <1>0, NoneAssumption
       DEF IndInv, TypeOK, SessionOK, SeenEvents, At, NoRows, SettleOps
  <2>6. ReservationOK'
    BY <2>1 DEF IndInv, TypeOK, ReservationOK
  <2>7. VersionIdentifiesRow'
    BY <2>1, NoneAssumption DEF IndInv, TypeOK, VersionIdentifiesRow, NoRows
  <2>8. ConflictCostsCommits'
    BY <2>1, <2>2 DEF IndInv, TypeOK, ConflictCostsCommits, At
  <2>9. QED
    BY <2>3, <2>4, <2>5, <2>6, <2>7, <2>8 DEF IndInv
<1>6. QED
  BY <1>1, <1>3, <1>4, <1>5

(* Sets of seats and of reservations are finite, so they can be counted. *)
LEMMA SeatsFinite ==
    ASSUME NEW S
    PROVE  IsFiniteSet(SeatsOf(S)) /\ Cardinality(SeatsOf(S)) \in Nat
<1>1. IsFiniteSet(1 .. MaxQuantity)
  BY BoundsAssumption, FS_Interval
<1>2. IsFiniteSet(Calls \X (1 .. MaxQuantity))
  BY <1>1, CallsAssumption, FS_Product
<1>3. SeatsOf(S) \subseteq Calls \X (1 .. MaxQuantity)
  BY DEF SeatsOf
<1>4. IsFiniteSet(SeatsOf(S))
  BY <1>2, <1>3, FS_Subset
<1>5. QED
  BY <1>4, FS_CardinalityType

(* A set of calls, hence of the reservations they made, is finite too. *)
LEMMA CallsFinite ==
    ASSUME NEW S \in SUBSET Calls
    PROVE  /\ IsFiniteSet(S) /\ Cardinality(S) \in Nat
           /\ S # {} => Cardinality(S) > 0
<1>1. IsFiniteSet(S)
  BY CallsAssumption, FS_Subset
<1>2. Cardinality(S) \in Nat
  BY <1>1, FS_CardinalityType
<1>3. S # {} => Cardinality(S) # 0
  BY <1>1, FS_EmptySet
<1>4. QED
  BY <1>1, <1>2, <1>3

(* What a settlement writes into an inventory row that it has loaded. *)
LEMMA SettledRowType ==
    ASSUME IndInv, NEW c \in Calls, NEW e \in Events, rows[c][e] # None,
           req[c].op \in SettleOps, Current(c)
    PROVE  /\ inv[e] \in InventoryRows
           /\ rows[c][e] = inv[e]
           /\ SettledRow(c, e) \in InventoryRows
           /\ SettledRow(c, e).version > inv[e].version
<1> DEFINE P == Seen(c, e, "pending")
           C == Seen(c, e, "confirmed")
           pending == Cardinality(SeatsOf(P))
           confirmed == Cardinality(SeatsOf(C))
           flushes == Cardinality(P \cup C)
           gained == IF req[c].op = "confirm" THEN pending ELSE 0
<1>1. inv[e] \in InventoryRows /\ rows[c][e] = inv[e]
  BY DEF IndInv, VersionIdentifiesRow, TypeOK, Current
<1>2. pending \in Nat /\ confirmed \in Nat
  BY SeatsFinite
<1>3. P \cup C \in SUBSET Calls
  BY DEF Seen
<1>4. P \cup C # {}
  <2>1. e \in SeenEvents(c)
    BY DEF IndInv, SessionOK
  <2>2. PICK r \in Calls : seen[c][r] # None /\ res[r].event = e
    BY <2>1 DEF SeenEvents
  <2>3. seen[c][r] \in {"pending", "confirmed"}
    BY <2>2 DEF IndInv, SessionOK, Readable
  <2>4. QED
    BY <2>2, <2>3 DEF Seen
<1>5. flushes \in Nat \ {0}
  BY <1>3, <1>4, CallsFinite
<1>6. SettledRow(c, e) = [inv[e] EXCEPT !.reserved = inv[e].reserved - pending,
                                        !.confirmed = inv[e].confirmed + gained - confirmed,
                                        !.version = inv[e].version + flushes]
  BY <1>1 DEF SettledRow
<1> HIDE DEF pending, confirmed, flushes
<1>7. /\ inv[e].reserved - pending \in Int
      /\ inv[e].confirmed + gained - confirmed \in Int
      /\ inv[e].version + flushes \in Nat \ {0}
      /\ inv[e].version + flushes > inv[e].version
  BY <1>1, <1>2, <1>5 DEF InventoryRows
<1>8. QED
  BY <1>1, <1>6, <1>7 DEF InventoryRows

(* confirm, release and sweep_expired_reservations *)
LEMMA SettleInv ==
    ASSUME IndInv, NEW c \in Calls,
           \/ \E e \in Events : SettleLoad(c, e)
           \/ SettleCommit(c)
           \/ SettleStale(c)
    PROVE  IndInv'
<1>1. CASE \E e \in Events : SettleLoad(c, e)
  <2>1. PICK e \in Events : SettleLoad(c, e)
    BY <1>1
  <2>2. PICK label \in {"row", "write"} :
          /\ LoadRow(c, e, label)
          /\ label = "write" => \A f \in SeenEvents(c) \ {e} : rows[c][f] # None
    BY <2>1 DEF SettleLoad
  <2>3. /\ req[c].op \in SettleOps /\ pc[c] = "row" /\ e \in SeenEvents(c)
        /\ req[c].op # "reserve"
    BY <2>1 DEF SettleLoad, SettleOps
  <2>4. inv[e] # None
    <3>1. PICK r \in Calls : seen[c][r] # None /\ res[r].event = e
      BY <2>3 DEF SeenEvents
    <3>2. QED
      BY <3>1 DEF IndInv, SessionOK, ReservationOK
  <2>5. QED
    BY <2>2, <2>3, <2>4, LoadRowInv
<1>2. CASE SettleCommit(c)
  <2>1. /\ req[c].op \in SettleOps /\ pc[c] = "write" /\ Finish(c, "ok")
        /\ UNCHANGED pastTTL /\ Current(c)
        /\ inv' = [e \in Events |->
                     IF rows[c][e] # None THEN SettledRow(c, e) ELSE inv[e]]
        /\ res' = [r \in Calls |->
                     IF seen[c][r] # None
                     THEN [res[r] EXCEPT !.status = SettledAs(req[c].op)]
                     ELSE res[r]]
    BY <1>2 DEF SettleCommit
  <2>2. \A e \in Events : rows[c][e] # None =>
          /\ inv'[e] \in InventoryRows
          /\ inv'[e].version > inv[e].version
    BY <2>1, SettledRowType
  <2>3. /\ inv' \in [Events -> InventoryRows \cup {None}]
        /\ \A e \in Events : \/ inv'[e] = inv[e]
                             \/ inv'[e] # None /\ inv'[e].version > inv[e].version
    <3>1. \A e \in Events : rows[c][e] = None => inv'[e] = inv[e]
      BY <2>1
    <3>2. \A e \in Events : inv[e] \in InventoryRows \cup {None}
      BY DEF IndInv, TypeOK
    <3>3. \A e \in Events : inv'[e] \in InventoryRows \cup {None}
      BY <2>2, <3>1, <3>2
    <3>4. inv' = [e \in Events |-> inv'[e]]
      BY <2>1
    <3>5. inv' \in [Events -> InventoryRows \cup {None}]
      BY <3>3, <3>4
    <3>6. ASSUME NEW e \in Events
          PROVE  \/ inv'[e] = inv[e]
                 \/ inv'[e] # None /\ inv'[e].version > inv[e].version
      <4>1. CASE rows[c][e] = None
        BY <3>1, <4>1
      <4>2. CASE rows[c][e] # None
        <5>1. inv'[e] \in InventoryRows /\ inv'[e].version > inv[e].version
          BY <2>2, <4>2
        <5>2. inv'[e] # None
          BY <5>1, NoneAssumption
        <5>3. QED
          BY <5>1, <5>2
      <4>3. QED
        BY <4>1, <4>2
    <3>7. QED
      BY <3>5, <3>6
  <2>4. SettledAs(req[c].op) \in Statuses
    BY <2>1 DEF SettledAs, SettleOps, Statuses
  <2>5. \A r \in Calls : seen[c][r] # None => res[r] \in Reservations
    BY DEF IndInv, TypeOK, SessionOK
  <2>6. \A r \in Calls : seen[c][r] # None =>
          /\ res'[r] \in Reservations
          /\ res'[r].event = res[r].event
    BY <2>1, <2>4, <2>5 DEF Reservations
  <2>7. /\ res' \in [Calls -> Reservations \cup {None}]
        /\ \A r \in Calls : res[r] # None =>
               res'[r] # None /\ res'[r].event = res[r].event
        /\ \A r \in Calls : res[r] = None => res'[r] = None
    BY <2>1, <2>5, <2>6, NoneAssumption DEF IndInv, TypeOK
  <2>8. QED
    BY <2>1, <2>3, <2>7, CommitInv
<1>3. CASE SettleStale(c)
  <2>1. pc[c] \in {"row", "write"}
    BY <1>3 DEF SettleStale, Current, IndInv, SessionOK, NoRows
  <2>2. QED
    BY <1>3, <2>1, RollbackInv DEF SettleStale, Results
<1>4. QED
  BY <1>1, <1>2, <1>3

-----------------------------------------------------------------------------
(* The invariant, and what follows from it without any assumption on the
   callers.                                                                *)

(* Every step of every call, of the clock and of a crash keeps the invariant. *)
LEMMA NextIndInv == IndInv /\ [Next]_vars => IndInv'
<1> SUFFICES ASSUME IndInv, [Next]_vars PROVE IndInv'
    OBVIOUS
<1>1. ASSUME NEW c \in Calls, Arrivals(c) PROVE IndInv'
  BY <1>1, ArrivalsInv
<1>2. ASSUME NEW c \in Calls, CallStep(c) PROVE IndInv'
  BY <1>2, LockStepsInv, InitializeInv, AdjustInv, ReserveInv, FindInv, SettleInv
     DEF CallStep
<1>3. ASSUME NEW c \in Calls, Failures(c) PROVE IndInv'
  <2>1. CASE Crash(c)
    BY <2>1, CrashInv
  <2>2. CASE Abort(c)
    BY <2>2, RollbackInv DEF Abort, Results
  <2>3. QED
    BY <1>3, <2>1, <2>2 DEF Failures
<1>4. QED
  BY <1>1, <1>2, <1>3, TimeInv DEF Next

(* The inductive invariant of the races between calls: types, well-formed
   requests and sessions, and rows told apart by their version. *)
THEOREM IndInvHolds == Spec => []IndInv
BY InitIndInv, NextIndInv, PTL DEF Spec

(* Every variable keeps its type: no operation, failure or race of the
   service writes a malformed row, status or session.                      *)
THEOREM TypeCorrect == Spec => []TypeOK
<1>1. IndInv => TypeOK
  BY DEF IndInv
<1>2. QED
  BY <1>1, IndInvHolds, PTL

(* The version column prevents lost updates of event_inventory rows, however
   many calls race and whatever becomes of the lock.                       *)
THEOREM NoLostUpdate == Spec => []VersionIdentifiesRow
<1>1. IndInv => VersionIdentifiesRow
  BY DEF IndInv
<1>2. QED
  BY <1>1, IndInvHolds, PTL

(* reserve only gives up after as many commits of others as it has retries. *)
THEOREM ConflictIsProgress == Spec => []ConflictCostsCommits
<1>1. IndInv => ConflictCostsCommits
  BY DEF IndInv
<1>2. QED
  BY <1>1, IndInvHolds, PTL

(* The columns of an inventory row are integers. *)
LEMMA RowType ==
    ASSUME NEW row \in InventoryRows
    PROVE  /\ row.total \in Int /\ row.reserved \in Int /\ row.confirmed \in Int
           /\ available(row) \in Int
<1>1. row.total \in Capacities /\ row.reserved \in Int /\ row.confirmed \in Int
  BY DEF InventoryRows
<1>2. row.total \in Nat
  BY <1>1, CapacitiesAssumption, Zenon
<1>3. QED
  BY <1>1, <1>2 DEF available

(* Only four steps write the tables. *)
LEMMA TableSteps ==
    ASSUME [Next]_vars
    PROVE  \/ UNCHANGED <<inv, res>>
           \/ \E c \in Calls : \/ InitializeInsert(c)
                              \/ AdjustCommit(c)
                              \/ ReserveCommit(c)
                              \/ SettleCommit(c)
<1>1. ASSUME NEW c \in Calls, Arrivals(c) PROVE UNCHANGED <<inv, res>>
  BY <1>1 DEF Arrivals, InitializeInventory, AdjustCapacity, ReserveSeats,
              ConfirmReservation, ReleaseReservation, SweepExpiredReservations, Arrive
<1>2. ASSUME NEW c \in Calls, CallStep(c),
             ~(\/ InitializeInsert(c) \/ AdjustCommit(c)
               \/ ReserveCommit(c) \/ SettleCommit(c))
      PROVE  UNCHANGED <<inv, res>>
  BY <1>2 DEF CallStep, AcquireLock, LockBusy, Unlock, InitializeRead,
              InitializeDuplicate, AdjustRead, AdjustNoChange, AdjustStale, ReserveRead,
              ReserveStale, SettleFind, SweepFind, SettleLoad, SettleStale, LoadRow,
              Rollback
<1>3. ASSUME NEW c \in Calls, Failures(c) PROVE UNCHANGED <<inv, res>>
  BY <1>3 DEF Failures, Abort, Crash, Rollback
<1>4. QED
  BY <1>1, <1>2, <1>3 DEF Next, LockExpire, PassTTL, vars

(* A reservation is admitted into seats that are free when it commits. *)
THEOREM AdmissionIsSound == Spec => AdmissionSound
<1> DEFINE Admitted(c) ==
      res[c] = None /\ res'[c] # None =>
          LET e == res'[c].event
          IN  /\ available(inv[e]) >= res'[c].quantity
              /\ available(inv'[e]) >= 0
<1>1. ASSUME IndInv, [Next]_vars, NEW d \in Calls PROVE Admitted(d)
  <2>1. CASE UNCHANGED <<inv, res>>
    BY <2>1
  <2>2. ASSUME NEW c \in Calls, InitializeInsert(c) \/ AdjustCommit(c)
        PROVE  Admitted(d)
    BY <2>2 DEF InitializeInsert, AdjustCommit
  <2>3. ASSUME NEW c \in Calls, SettleCommit(c)
        PROVE  Admitted(d)
    BY <1>1, <2>3 DEF SettleCommit, IndInv, SessionOK
  <2>4. ASSUME NEW c \in Calls, ReserveCommit(c)
        PROVE  Admitted(d)
    <3> DEFINE e == req[c].event
               q == req[c].n
    <3>1. /\ e \in Events /\ q \in 1 .. MaxQuantity
          /\ inv[e] \in InventoryRows /\ rows[c][e] = inv[e]
          /\ available(inv[e]) >= q
      BY <1>1, <2>4, ReserveSession DEF ReserveCommit, At
    <3>2. /\ inv' = [inv EXCEPT ![e] = [@ EXCEPT !.reserved = inv[e].reserved + q,
                                                 !.version = inv[e].version + 1]]
          /\ res' = [res EXCEPT ![c] =
                       [event |-> e, quantity |-> q, status |-> "pending"]]
      BY <2>4, <3>1 DEF ReserveCommit
    <3>3. inv'[e] = [inv[e] EXCEPT !.reserved = inv[e].reserved + q,
                                   !.version = inv[e].version + 1]
      BY <1>1, <3>1, <3>2 DEF IndInv, TypeOK
    <3>4. available(inv'[e]) = available(inv[e]) - q
      BY <3>1, <3>3, CapacitiesAssumption, BoundsAssumption DEF InventoryRows, available
    <3>a. available(inv[e]) \in Int /\ q \in Int
      <4>1. available(inv[e]) \in Int
        BY <3>1, RowType
      <4>2. q \in Int
        BY <3>1, BoundsAssumption
      <4>3. QED
        BY <4>1, <4>2
    <3>5. available(inv'[e]) >= 0
      BY <3>1, <3>4, <3>a
    <3>6. d # c => res'[d] = res[d]
      BY <1>1, <3>2 DEF IndInv, TypeOK
    <3>7. res'[c] = [event |-> e, quantity |-> q, status |-> "pending"]
      BY <1>1, <3>2 DEF IndInv, TypeOK
    <3>8. QED
      BY <3>1, <3>5, <3>6, <3>7
  <2>5. QED
    BY <1>1, <2>1, <2>2, <2>3, <2>4, TableSteps
<1>2. IndInv /\ [Next]_vars => [\A c \in Calls : Admitted(c)]_vars
  BY <1>1
<1>3. QED
  BY <1>2, IndInvHolds, PTL DEF Spec, AdmissionSound

(* Only three steps write the Redis keys. *)
LEMMA LockWrites ==
    ASSUME [Next]_vars
    PROVE  \/ UNCHANGED lock
           \/ \E c \in Calls : AcquireLock(c) \/ Unlock(c)
           \/ \E e \in Events : LockExpire(e)
<1>1. ASSUME NEW c \in Calls, Arrivals(c) PROVE UNCHANGED lock
  BY <1>1 DEF Arrivals, InitializeInventory, AdjustCapacity, ReserveSeats,
              ConfirmReservation, ReleaseReservation, SweepExpiredReservations, Arrive
<1>2. ASSUME NEW c \in Calls, CallStep(c), ~(AcquireLock(c) \/ Unlock(c))
      PROVE  UNCHANGED lock
  BY <1>2 DEF CallStep, LockBusy, InitializeRead, InitializeInsert,
              InitializeDuplicate, AdjustRead, AdjustNoChange, AdjustCommit, AdjustStale,
              ReserveRead, ReserveCommit, ReserveStale, SettleFind, SweepFind, SettleLoad,
              SettleCommit, SettleStale, LoadRow, Rollback, Finish
<1>3. ASSUME NEW c \in Calls, Failures(c) PROVE UNCHANGED lock
  BY <1>3 DEF Failures, Abort, Crash, Rollback, Finish
<1>4. QED
  BY <1>1, <1>2, <1>3 DEF Next, PassTTL, vars

(* A key of Redis that some call's token holds is deleted by that call's own
   release or by its timeout, by nothing else: the compare-and-delete script
   of a call that outlived its lock leaves the next holder's key alone.    *)
THEOREM HolderKeeps == Spec => HolderKeepsLock
<1> USE NoneAssumption
<1> DEFINE Kept(e) ==
      lock[e] # None /\ lock'[e] # lock[e] =>
          \/ pc[lock[e]] = "unlock" /\ pc'[lock[e]] = "done"
          \/ pc' = pc
<1>1. ASSUME IndInv, [Next]_vars, NEW e \in Events PROVE Kept(e)
  <2> SUFFICES ASSUME lock[e] # None, lock'[e] # lock[e]
               PROVE  \/ pc[lock[e]] = "unlock" /\ pc'[lock[e]] = "done"
                      \/ pc' = pc
    OBVIOUS
  <2>0. /\ lock \in [Events -> Calls \cup {None}] /\ DOMAIN pc = Calls
        /\ \A c \in Calls : pc[c] \in {"lock", "unlock"} => req[c].event \in Events
    BY <1>1 DEF IndInv, TypeOK, RequestOK, LockedOps
  <2>1. ASSUME NEW c \in Calls, AcquireLock(c) PROVE FALSE
    <3>1. e # req[c].event => lock'[e] = lock[e]
      BY <2>0, <2>1 DEF AcquireLock
    <3>2. QED
      BY <2>1, <3>1 DEF AcquireLock
  <2>2. ASSUME NEW c \in Calls, Unlock(c)
        PROVE  pc[lock[e]] = "unlock" /\ pc'[lock[e]] = "done"
    <3>1. e = req[c].event /\ lock[e] = c
      BY <2>0, <2>2 DEF Unlock, Released
    <3>2. QED
      BY <2>0, <2>2, <3>1 DEF Unlock
  <2>3. ASSUME NEW f \in Events, LockExpire(f) PROVE pc' = pc
    BY <2>3 DEF LockExpire
  <2>4. QED
    BY <1>1, <2>1, <2>2, <2>3, LockWrites
<1>2. IndInv /\ [Next]_vars => [\A e \in Events : Kept(e)]_vars
  BY <1>1
<1>3. QED
  BY <1>2, IndInvHolds, PTL DEF Spec, HolderKeepsLock

-----------------------------------------------------------------------------
(* Every call runs down.                                                   *)

(* The attempts counted in a loop are fewer than its bound. *)
TriesOK ==
    \A c \in Calls :
        /\ pc[c] = "idle" => tries[c] = 0
        /\ pc[c] = "lock" => tries[c] < LockAttempts
        /\ pc[c] \in {"read", "row", "write"} => tries[c] < MaxRetries

(* A session has reservations of no more events than there are calls. *)
LEMMA SeenEventsFinite ==
    ASSUME NEW c \in Calls
    PROVE  /\ IsFiniteSet(SeenEvents(c))
           /\ Cardinality(SeenEvents(c)) \in Nat
           /\ Cardinality(SeenEvents(c)) <= Cardinality(Calls)
           /\ Cardinality(Calls) \in Nat
<1> DEFINE X == {r \in Calls : seen[c][r] # None}
           f == [r \in X |-> res[r].event]
<1>1. IsFiniteSet(X) /\ Cardinality(X) <= Cardinality(Calls)
  BY CallsAssumption, FS_Subset
<1>2. f \in Surjection(X, SeenEvents(c))
  BY Fun_IsSurj DEF SeenEvents
<1>3. IsFiniteSet(SeenEvents(c)) /\ Cardinality(SeenEvents(c)) <= Cardinality(X)
  BY <1>1, <1>2, FS_Surjection
<1>4. /\ Cardinality(SeenEvents(c)) \in Nat /\ Cardinality(X) \in Nat
      /\ Cardinality(Calls) \in Nat
  BY <1>1, <1>3, CallsAssumption, FS_CardinalityType
<1> HIDE DEF X
<1>5. QED
  BY <1>1, <1>3, <1>4

(* Hence the rows it has still to load are no more than the calls. *)
LEMMA UnreadBounds ==
    ASSUME NEW c \in Calls
    PROVE  Unread(c) \in Nat /\ Unread(c) <= Cardinality(Calls)
<1> DEFINE U == {e \in SeenEvents(c) : rows[c][e] = None}
<1>1. IsFiniteSet(U) /\ Cardinality(U) <= Cardinality(SeenEvents(c))
  BY SeenEventsFinite, FS_Subset
<1>2. Cardinality(U) \in Nat
  BY <1>1, FS_CardinalityType
<1>3. Unread(c) = Cardinality(U)
  BY DEF Unread
<1> HIDE DEF U
<1>4. QED
  BY <1>1, <1>2, <1>3, SeenEventsFinite

(* The measure, label by label, in numbers. *)
Measured(c) ==
    /\ pc[c] = "idle" => StepsLeft(c) = 2 * MaxRetries + LockAttempts + Cardinality(Calls) + 4
    /\ pc[c] = "lock" => StepsLeft(c) = 2 * MaxRetries + LockAttempts - tries[c] + 3
    /\ pc[c] = "read" /\ req[c].op \in SettleOps =>
          StepsLeft(c) = 2 * (MaxRetries - tries[c]) + Cardinality(Calls) + 2
    /\ pc[c] = "read" /\ req[c].op \notin SettleOps =>
          StepsLeft(c) = 2 * (MaxRetries - tries[c]) + 2
    /\ pc[c] = "row" => StepsLeft(c) = 2 * (MaxRetries - tries[c]) + Unread(c) + 1
    /\ pc[c] = "write" => StepsLeft(c) = 2 * (MaxRetries - tries[c]) + 1
    /\ pc[c] = "unlock" => StepsLeft(c) = 1
    /\ pc[c] = "done" => StepsLeft(c) = 0
    /\ tries[c] \in Nat
    /\ Unread(c) \in Nat /\ Unread(c) <= Cardinality(Calls)

(* StepsLeft has these values in every state of the right types. *)
LEMMA MeasuredHolds == TypeOK => \A c \in Calls : Measured(c)
<1> SUFFICES ASSUME TypeOK, NEW c \in Calls PROVE Measured(c)
  OBVIOUS
<1>1. tries[c] \in Nat /\ Cardinality(Calls) \in Nat
  BY CallsAssumption, FS_CardinalityType DEF TypeOK
<1> HIDE DEF Unread
<1>2. /\ pc[c] = "idle" => StepsLeft(c) = 2 * MaxRetries + LockAttempts + Cardinality(Calls) + 4
      /\ pc[c] = "lock" => StepsLeft(c) = 2 * MaxRetries + LockAttempts - tries[c] + 3
      /\ pc[c] = "row" => StepsLeft(c) = 2 * (MaxRetries - tries[c]) + Unread(c) + 1
      /\ pc[c] = "write" => StepsLeft(c) = 2 * (MaxRetries - tries[c]) + 1
      /\ pc[c] = "unlock" => StepsLeft(c) = 1
      /\ pc[c] = "done" => StepsLeft(c) = 0
  BY DEF StepsLeft
<1>3. /\ pc[c] = "read" /\ req[c].op \in SettleOps =>
            StepsLeft(c) = 2 * (MaxRetries - tries[c]) + Cardinality(Calls) + 2
      /\ pc[c] = "read" /\ req[c].op \notin SettleOps =>
            StepsLeft(c) = 2 * (MaxRetries - tries[c]) + 0 + 2
  BY DEF StepsLeft
<1>4. 2 * (MaxRetries - tries[c]) + 0 + 2 = 2 * (MaxRetries - tries[c]) + 2
  BY <1>1, BoundsAssumption
<1>5. QED
  BY <1>1, <1>2, <1>3, <1>4, UnreadBounds DEF Measured

(* A step of one call leaves the others where they are. *)
LEMMA OthersWait ==
    ASSUME IndInv, NEW d \in Calls, Arrivals(d) \/ CallStep(d) \/ Failures(d),
           NEW c \in Calls, c # d
    PROVE  CallState(c)' = CallState(c)
<1> USE DEF CallState
<1>0. /\ DOMAIN req = Calls /\ DOMAIN pc = Calls /\ DOMAIN tries = Calls
      /\ DOMAIN rows = Calls /\ DOMAIN seen = Calls /\ DOMAIN result = Calls
  BY DEF IndInv, TypeOK
<1>1. ASSUME NEW o, Finish(d, o) PROVE CallState(c)' = CallState(c)
  BY <1>0, <1>1 DEF Finish
<1>2. ASSUME NEW e, NEW label, LoadRow(d, e, label) PROVE CallState(c)' = CallState(c)
  BY <1>0, <1>2 DEF LoadRow
<1>3. CASE Arrivals(d)
  BY <1>0, <1>3 DEF Arrivals, InitializeInventory, AdjustCapacity, ReserveSeats,
              ConfirmReservation, ReleaseReservation, SweepExpiredReservations, Arrive
<1>4. CASE Failures(d)
  BY <1>0, <1>1, <1>4 DEF Failures, Abort, Rollback, Crash
<1>5. CASE AcquireLock(d) \/ LockBusy(d) \/ Unlock(d)
  BY <1>0, <1>1, <1>5 DEF AcquireLock, LockBusy, Unlock, Rollback
<1>6. CASE \/ InitializeRead(d) \/ InitializeInsert(d) \/ InitializeDuplicate(d)
           \/ AdjustRead(d) \/ AdjustNoChange(d) \/ AdjustCommit(d) \/ AdjustStale(d)
  BY <1>1, <1>2, <1>6 DEF InitializeRead, InitializeInsert, InitializeDuplicate,
     AdjustRead, AdjustNoChange, AdjustCommit, AdjustStale, Rollback
<1>7. CASE ReserveRead(d) \/ ReserveCommit(d) \/ ReserveStale(d)
  BY <1>0, <1>1, <1>2, <1>7 DEF ReserveRead, ReserveCommit, ReserveStale, Rollback
<1>8. CASE SettleFind(d) \/ SweepFind(d)
  BY <1>0, <1>1, <1>8 DEF SettleFind, SweepFind, Rollback
<1>9. CASE (\E e \in Events : SettleLoad(d, e)) \/ SettleCommit(d) \/ SettleStale(d)
  BY <1>1, <1>2, <1>9 DEF SettleLoad, SettleCommit, SettleStale, Rollback
<1>10. QED
  BY <1>3, <1>4, <1>5, <1>6, <1>7, <1>8, <1>9 DEF CallStep

(* The reservations in a session keep their events, so a call that is not
   moved has as many rows to load as before. *)
LEMMA UnreadKept ==
    ASSUME IndInv, [Next]_vars, NEW c \in Calls, UNCHANGED <<seen[c], rows[c]>>
    PROVE  Unread(c)' = Unread(c)
<1> USE NoneAssumption
<1>1. ASSUME NEW r \in Calls, seen[c][r] # None PROVE res'[r].event = res[r].event
  <2>1. res[r] # None /\ res[r] \in Reservations
    BY <1>1 DEF IndInv, TypeOK, SessionOK
  <2>2. ASSUME NEW d \in Calls, ReserveCommit(d) PROVE res'[r] = res[r]
    <3>1. res[d] = None
      BY <2>2 DEF ReserveCommit, At, IndInv, ReservationOK
    <3>2. QED
      BY <2>1, <2>2, <3>1 DEF ReserveCommit, IndInv, TypeOK
  <2>3. ASSUME NEW d \in Calls, SettleCommit(d) PROVE res'[r].event = res[r].event
    BY <2>1, <2>3 DEF SettleCommit, Reservations
  <2>4. QED
    BY <2>2, <2>3, TableSteps DEF InitializeInsert, AdjustCommit
<1>2. SeenEvents(c)' = SeenEvents(c)
  BY <1>1 DEF SeenEvents
<1>3. QED
  BY <1>2 DEF Unread

(* Loading a row leaves one row fewer to load. *)
LEMMA LoadCounts ==
    ASSUME IndInv, [Next]_vars, NEW c \in Calls, NEW e \in Events, SettleLoad(c, e)
    PROVE  Unread(c)' = Unread(c) - 1
<1> USE NoneAssumption
<1>1. PICK U : U = {f \in SeenEvents(c) : rows[c][f] = None}
  OBVIOUS
<1>2. e \in U
  BY <1>1 DEF SettleLoad
<1>3. UNCHANGED <<seen, res>> /\ rows' = [rows EXCEPT ![c][e] = inv[e]]
  BY DEF SettleLoad, LoadRow
<1>4. inv[e] # None
  <2>1. PICK r \in Calls : seen[c][r] # None /\ res[r].event = e
    BY <1>1, <1>2 DEF SeenEvents
  <2>2. QED
    BY <2>1 DEF IndInv, SessionOK, ReservationOK
<1>5. SeenEvents(c)' = SeenEvents(c) /\ SeenEvents(c) \subseteq Events
  <2>1. SeenEvents(c)' = SeenEvents(c)
    BY <1>3 DEF SeenEvents
  <2>2. \A r \in Calls : seen[c][r] # None => res[r].event \in Events
    BY DEF IndInv, TypeOK, SessionOK, Reservations
  <2>3. QED
    BY <2>1, <2>2 DEF SeenEvents
<1>6. \A f \in Events : rows'[c][f] = IF f = e THEN inv[e] ELSE rows[c][f]
  BY <1>3 DEF IndInv, TypeOK
<1>7. {f \in SeenEvents(c) : rows'[c][f] = None} = U \ {e}
  BY <1>1, <1>4, <1>5, <1>6
<1>8. Unread(c)' = Cardinality(U \ {e}) /\ Unread(c) = Cardinality(U)
  BY <1>1, <1>5, <1>7 DEF Unread
<1>9. IsFiniteSet(U)
  BY <1>1, SeenEventsFinite, FS_Subset
<1>10. Cardinality(U \ {e}) = Cardinality(U) - 1
  BY <1>2, <1>9, FS_RemoveElement
<1>11. QED
  BY <1>8, <1>10

(* Where a step of its own takes a call. *)
Moved(c) ==
    \/ /\ pc[c] = "idle" /\ pc'[c] \in {"lock", "read"}
       /\ tries'[c] = tries[c]
    \/ /\ pc[c] = "lock" /\ pc'[c] = "read"
       /\ tries'[c] = 0 /\ req'[c].op \notin SettleOps
    \/ /\ pc[c] = "lock" /\ pc'[c] = "lock"
       /\ tries'[c] = tries[c] + 1 /\ tries'[c] < LockAttempts
    \/ pc[c] \in {"lock", "read", "row", "write"} /\ pc'[c] \in {"unlock", "done"}
    \/ pc[c] = "unlock" /\ pc'[c] = "done"
    \/ /\ pc[c] = "read" /\ pc'[c] = "write"
       /\ tries'[c] = tries[c]
    \/ /\ pc[c] = "write" /\ pc'[c] = "read"
       /\ tries'[c] = tries[c] + 1 /\ tries'[c] < MaxRetries
       /\ req'[c].op \notin SettleOps
    \/ /\ pc[c] = "read" /\ pc'[c] = "row"
       /\ tries'[c] = tries[c] /\ req[c].op \in SettleOps
    \/ /\ pc[c] = "row" /\ pc'[c] \in {"row", "write"}
       /\ tries'[c] = tries[c] /\ Unread(c)' = Unread(c) - 1

(* Every step of a call is one of these. *)
LEMMA CallMoves ==
    ASSUME IndInv, [Next]_vars, NEW c \in Calls, Arrivals(c) \/ CallStep(c) \/ Failures(c)
    PROVE  Moved(c)
<1>0. /\ DOMAIN req = Calls /\ pc \in [Calls -> {"idle", "lock", "read", "row", "write", "unlock", "done"}] 
      /\ tries \in [Calls -> Nat]
      /\ DOMAIN rows = Calls /\ DOMAIN seen = Calls
  BY DEF IndInv, TypeOK
<1>1. ASSUME NEW o, Finish(c, o), pc[c] \in {"lock", "read", "row", "write"}
      PROVE  Moved(c)
  <2>1. pc'[c] \in {"unlock", "done"}
    BY <1>0, <1>1 DEF Finish
  <2>2. QED
    BY <1>1, <2>1 DEF Moved
<1>2. ASSUME NEW e, LoadRow(c, e, "write"), pc[c] = "read" PROVE Moved(c)
  <2>1. pc'[c] = "write" /\ tries'[c] = tries[c]
    BY <1>0, <1>2 DEF LoadRow
  <2>2. QED
    BY <1>2, <2>1 DEF Moved
<1>3. CASE Arrivals(c)
  <2>1. ASSUME NEW op, NEW e, NEW n, NEW r, Arrive(c, op, e, n, r) PROVE Moved(c)
    <3>1. pc[c] = "idle" /\ pc'[c] \in {"lock", "read"} /\ tries'[c] = tries[c]
      BY <1>0, <2>1 DEF Arrive
    <3>2. QED
      BY <3>1 DEF Moved
  <2>2. QED
    BY <1>3, <2>1 DEF Arrivals, InitializeInventory, AdjustCapacity, ReserveSeats,
              ConfirmReservation, ReleaseReservation, SweepExpiredReservations
<1>4. CASE Failures(c)
  <2>1. CASE Abort(c)
    BY <1>1, <2>1 DEF Abort, Rollback
  <2>2. CASE Crash(c)
    <3>1. pc'[c] = "done" /\ pc[c] \in {"lock", "read", "row", "write", "unlock"}
      BY <1>0, <2>2 DEF Crash
    <3>2. QED
      BY <3>1 DEF Moved
  <2>3. QED
    BY <1>4, <2>1, <2>2 DEF Failures
<1>5. CASE AcquireLock(c)
  <2>1. pc[c] = "lock" /\ pc'[c] = "read" /\ tries'[c] = 0 /\ req' = req
    BY <1>0, <1>5 DEF AcquireLock
  <2>2. req[c].op \notin SettleOps
    BY <2>1 DEF IndInv, RequestOK, LockedOps, SettleOps
  <2>3. QED
    BY <2>1, <2>2 DEF Moved
<1>6. CASE LockBusy(c)
  <2>1. CASE Rollback(c, "busy")
    BY <1>1, <1>6, <2>1 DEF LockBusy, Rollback
  <2>2. CASE ~Rollback(c, "busy")
    <3>1. /\ pc[c] = "lock" /\ pc'[c] = "lock"
          /\ tries[c] + 1 < LockAttempts /\ tries'[c] = tries[c] + 1
      BY <1>0, <1>6, <2>2 DEF LockBusy
    <3>2. QED
      BY <3>1 DEF Moved
  <2>3. QED
    BY <2>1, <2>2
<1>7. CASE Unlock(c)
  <2>1. pc[c] = "unlock" /\ pc'[c] = "done"
    BY <1>0, <1>7 DEF Unlock
  <2>2. QED
    BY <2>1 DEF Moved
<1>8. CASE \/ InitializeRead(c) \/ InitializeInsert(c) \/ InitializeDuplicate(c)
           \/ AdjustRead(c) \/ AdjustNoChange(c) \/ AdjustCommit(c) \/ AdjustStale(c)
  BY <1>1, <1>2, <1>8 DEF InitializeRead, InitializeInsert, InitializeDuplicate,
     AdjustRead, AdjustNoChange, AdjustCommit, AdjustStale, Rollback, At
<1>9. CASE ReserveRead(c) \/ ReserveCommit(c)
  BY <1>1, <1>2, <1>9 DEF ReserveRead, ReserveCommit, Rollback, At
<1>10. CASE ReserveStale(c)
  <2>1. CASE Rollback(c, "conflict")
    BY <1>1, <1>10, <2>1 DEF ReserveStale, Rollback, At
  <2>2. CASE ~Rollback(c, "conflict")
    <3>1. /\ pc[c] = "write" /\ pc'[c] = "read" /\ req' = req /\ req[c].op = "reserve"
          /\ tries[c] + 1 < MaxRetries /\ tries'[c] = tries[c] + 1
      BY <1>0, <1>10, <2>2 DEF ReserveStale, At
    <3>2. QED
      BY <3>1 DEF Moved, SettleOps
  <2>3. QED
    BY <2>1, <2>2
<1>11. CASE SettleFind(c) \/ SweepFind(c)
  <2>1. CASE \E o : Rollback(c, o)
    BY <1>1, <1>11, <2>1 DEF SettleFind, SweepFind, Rollback, At
  <2>2. CASE ~\E o : Rollback(c, o)
    <3>1. /\ pc[c] = "read" /\ pc'[c] = "row" /\ tries'[c] = tries[c]
          /\ req[c].op \in SettleOps
      BY <1>0, <1>11, <2>2 DEF SettleFind, SweepFind, At, SettleOps
    <3>2. QED
      BY <3>1 DEF Moved
  <2>3. QED
    BY <2>1, <2>2
<1>12. CASE \E e \in Events : SettleLoad(c, e)
  <2>1. PICK e \in Events : SettleLoad(c, e)
    BY <1>12
  <2>2. pc[c] = "row" /\ pc'[c] \in {"row", "write"} /\ tries'[c] = tries[c]
    BY <1>0, <2>1 DEF SettleLoad, LoadRow
  <2>3. QED
    BY <2>1, <2>2, LoadCounts DEF Moved
<1>13. CASE SettleCommit(c)
  BY <1>1, <1>13 DEF SettleCommit
<1>14. CASE SettleStale(c)
  <2>1. pc[c] \in {"row", "write"}
    BY <1>14 DEF SettleStale, Current, IndInv, SessionOK, NoRows
  <2>2. QED
    BY <1>1, <1>14, <2>1 DEF SettleStale, Rollback
<1>15. QED
  BY <1>3, <1>4, <1>5, <1>6, <1>7, <1>8, <1>9, <1>10, <1>11, <1>12, <1>13, <1>14
     DEF CallStep

(* A call is either moved by its own step or left alone. *)
LEMMA MovedOrNot ==
    ASSUME IndInv, [Next]_vars, NEW c \in Calls
    PROVE  Moved(c) \/ CallState(c)' = CallState(c)
<1>1. CASE \E d \in Calls : Arrivals(d) \/ CallStep(d) \/ Failures(d)
  BY <1>1, CallMoves, OthersWait
<1>2. CASE UNCHANGED <<req, pc, tries, rows, seen, result>>
  BY <1>2 DEF CallState
<1>3. QED
  BY <1>1, <1>2 DEF Next, LockExpire, PassTTL, vars

(* The loops stay within their bounds. *)
LEMMA TriesOKNext == IndInv /\ TriesOK /\ [Next]_vars => TriesOK'
<1> SUFFICES ASSUME IndInv, TriesOK, [Next]_vars, NEW c \in Calls
             PROVE  TriesOK!(c)'
  BY DEF TriesOK
<1>1. /\ pc[c] = "idle" => tries[c] = 0
      /\ pc[c] = "lock" => tries[c] < LockAttempts
      /\ pc[c] \in {"read", "row", "write"} => tries[c] < MaxRetries
  BY DEF TriesOK
<1>2. CASE CallState(c)' = CallState(c)
  BY <1>1, <1>2 DEF CallState
<1>3. CASE Moved(c)
  BY <1>1, <1>3, BoundsAssumption DEF Moved
<1>4. QED
  BY <1>2, <1>3, MovedOrNot

(* Each move takes a call nearer to its end. *)
LEMMA MoveCounts ==
    ASSUME TriesOK, TriesOK', NEW c \in Calls, Measured(c), Measured(c)', Moved(c)
    PROVE  StepsLeft(c)' \in 0 .. StepsLeft(c) - 1
<1>0. PICK k, k2 : k = StepsLeft(c) /\ k2 = StepsLeft(c)'
  OBVIOUS
<1>1. PICK n \in Nat : n = Cardinality(Calls)
  BY CallsFinite
<1>2. /\ pc[c] = "idle" => tries[c] = 0
      /\ pc[c] = "lock" => tries[c] < LockAttempts
      /\ pc[c] \in {"read", "row", "write"} => tries[c] < MaxRetries
      /\ pc'[c] = "lock" => tries'[c] < LockAttempts
      /\ pc'[c] \in {"read", "row", "write"} => tries'[c] < MaxRetries
  BY DEF TriesOK
<1>3. /\ tries[c] \in Nat /\ tries'[c] \in Nat
      /\ Unread(c) \in Nat /\ Unread(c) <= n
      /\ Unread(c)' \in Nat /\ Unread(c)' <= n
  BY <1>1 DEF Measured
<1> HIDE DEF Unread, StepsLeft
<1>4. k \in Int /\ k2 \in Int /\ 0 <= k2 /\ k2 < k
  <2> USE BoundsAssumption, <1>0, <1>1, <1>2, <1>3
  <2>1. CASE pc[c] = "idle" /\ pc'[c] \in {"lock", "read"} /\ tries'[c] = tries[c]
    BY <2>1 DEF Measured
  <2>2. CASE pc[c] = "lock" /\ pc'[c] = "read" /\ tries'[c] = 0 /\ req'[c].op \notin SettleOps
    BY <2>2 DEF Measured
  <2>3. CASE /\ pc[c] = "lock" /\ pc'[c] = "lock"
             /\ tries'[c] = tries[c] + 1 /\ tries'[c] < LockAttempts
    BY <2>3 DEF Measured
  <2>4. CASE pc[c] \in {"lock", "read", "row", "write"} /\ pc'[c] \in {"unlock", "done"}
    BY <2>4 DEF Measured
  <2>5. CASE pc[c] = "unlock" /\ pc'[c] = "done"
    BY <2>5 DEF Measured
  <2>6. CASE pc[c] = "read" /\ pc'[c] = "write" /\ tries'[c] = tries[c]
    BY <2>6 DEF Measured
  <2>7. CASE /\ pc[c] = "write" /\ pc'[c] = "read"
             /\ tries'[c] = tries[c] + 1 /\ tries'[c] < MaxRetries
             /\ req'[c].op \notin SettleOps
    BY <2>7 DEF Measured
  <2>8. CASE /\ pc[c] = "read" /\ pc'[c] = "row"
             /\ tries'[c] = tries[c] /\ req[c].op \in SettleOps
    BY <2>8 DEF Measured
  <2>9. CASE /\ pc[c] = "row" /\ pc'[c] \in {"row", "write"}
             /\ tries'[c] = tries[c] /\ Unread(c)' = Unread(c) - 1
    BY <2>9 DEF Measured
  <2>10. QED
    BY <2>1, <2>2, <2>3, <2>4, <2>5, <2>6, <2>7, <2>8, <2>9 DEF Moved
<1>5. QED
  BY <1>0, <1>4

(* Whatever the interleaving, lost races, lock timeouts and failures, a call
   has a bounded number of steps in it: 2 * MaxRetries + LockAttempts + 4 and
   the rows of a sweep.  This is the half of CallsEnd that does not depend on
   scheduling.                                                             *)
THEOREM CallsRunDownHolds == Spec => CallsRunDown
<1> DEFINE Down(c) ==
      IF CallState(c)' = CallState(c)
      THEN StepsLeft(c)' = StepsLeft(c)
      ELSE StepsLeft(c)' \in 0 .. StepsLeft(c) - 1
           M == \A c \in Calls : Measured(c)
<1>1. Init => TriesOK
  BY BoundsAssumption DEF Init, TriesOK
<1>2. IndInv => M
  BY MeasuredHolds DEF IndInv
<1>3. ASSUME IndInv, TriesOK, TriesOK', M, M', [Next]_vars, NEW c \in Calls
      PROVE  Down(c)
  <2>1. Measured(c) /\ Measured(c)'
    BY <1>3
  <2>2. CASE CallState(c)' = CallState(c)
    <3>1. /\ req'[c] = req[c] /\ pc'[c] = pc[c] /\ tries'[c] = tries[c]
          /\ rows'[c] = rows[c] /\ seen'[c] = seen[c]
      BY <2>2 DEF CallState
    <3>2. Unread(c)' = Unread(c)
      BY <1>3, <3>1, UnreadKept
    <3>3. StepsLeft(c)' = StepsLeft(c)
      BY <3>1, <3>2 DEF StepsLeft
    <3>4. QED
      BY <2>2, <3>3
  <2>3. CASE CallState(c)' # CallState(c)
    BY <1>3, <2>1, <2>3, MovedOrNot, MoveCounts
  <2>4. QED
    BY <2>2, <2>3
<1>4. /\ IndInv /\ TriesOK /\ M /\ IndInv' /\ TriesOK' /\ M'
      /\ [Next]_vars
      => [\A c \in Calls : Down(c)]_vars
  BY <1>3
<1> HIDE DEF M
<1>5. QED
  BY <1>1, <1>2, <1>4, IndInvHolds, TriesOKNext, PTL DEF Spec, CallsRunDown

-----------------------------------------------------------------------------
(* Under callers that do not settle one reservation concurrently.          *)

(* How the seats of disjoint, added and removed sets of reservations add up. *)
LEMMA SeatsUnion ==
    ASSUME NEW S, NEW T
    PROVE  /\ SeatsOf(S \cup T) = SeatsOf(S) \cup SeatsOf(T)
           /\ S \cap T = {} =>
                 Cardinality(SeatsOf(S \cup T)) =
                     Cardinality(SeatsOf(S)) + Cardinality(SeatsOf(T))
<1>1. SeatsOf(S \cup T) = SeatsOf(S) \cup SeatsOf(T)
  BY DEF SeatsOf
<1>2. IsFiniteSet(SeatsOf(S)) /\ IsFiniteSet(SeatsOf(T))
  BY SeatsFinite
<1>3. Cardinality(SeatsOf(S)) \in Nat /\ Cardinality(SeatsOf(T)) \in Nat
  BY SeatsFinite
<1>4. ASSUME S \cap T = {}
      PROVE  Cardinality(SeatsOf(S \cup T)) =
                 Cardinality(SeatsOf(S)) + Cardinality(SeatsOf(T))
  <2>1. SeatsOf(S) \cap SeatsOf(T) = {}
    BY <1>4 DEF SeatsOf
  <2>2. Cardinality(SeatsOf(S) \cap SeatsOf(T)) = 0
    BY <2>1, FS_EmptySet
  <2>3. Cardinality(SeatsOf(S) \cup SeatsOf(T)) =
          Cardinality(SeatsOf(S)) + Cardinality(SeatsOf(T)) - 0
    BY <1>2, <2>2, FS_Union
  <2> DEFINE a == Cardinality(SeatsOf(S))
             b == Cardinality(SeatsOf(T))
  <2>4. Cardinality(SeatsOf(S \cup T)) = a + b - 0
    BY <1>1, <2>3
  <2>5. a \in Nat /\ b \in Nat
    BY <1>3
  <2> HIDE DEF a, b
  <2>6. Cardinality(SeatsOf(S \cup T)) = a + b
    BY <2>4, <2>5
  <2>7. QED
    BY <2>6 DEF a, b
<1>5. QED
  BY <1>1, <1>4

(* The seats that remain when reservations leave a set. *)
LEMMA SeatsDifference ==
    ASSUME NEW S, NEW T, T \subseteq S
    PROVE  Cardinality(SeatsOf(S \ T)) =
               Cardinality(SeatsOf(S)) - Cardinality(SeatsOf(T))
<1>1. S = (S \ T) \cup T /\ (S \ T) \cap T = {}
  OBVIOUS
<1>2. Cardinality(SeatsOf(S)) = Cardinality(SeatsOf(S \ T)) + Cardinality(SeatsOf(T))
  BY <1>1, SeatsUnion
<1>3. /\ Cardinality(SeatsOf(S)) \in Nat /\ Cardinality(SeatsOf(T)) \in Nat
      /\ Cardinality(SeatsOf(S \ T)) \in Nat
  BY SeatsFinite
<1>4. QED
  BY <1>2, <1>3

(* The seats of reservations whose quantities a step does not change. *)
LEMMA SeatsKept ==
    ASSUME NEW S, \A r \in S \cap Calls : res'[r].quantity = res[r].quantity
    PROVE  {s \in Calls \X (1 .. MaxQuantity) :
               s[1] \in S /\ s[2] <= res'[s[1]].quantity} = SeatsOf(S)
BY DEF SeatsOf

(* A reservation of q seats has q of them. *)
LEMMA SeatsOfOne ==
    ASSUME NEW c \in Calls, NEW q \in 1 .. MaxQuantity
    PROVE  Cardinality({s \in Calls \X (1 .. MaxQuantity) : s[1] \in {c} /\ s[2] <= q}) = q
<1>1. {s \in Calls \X (1 .. MaxQuantity) : s[1] \in {c} /\ s[2] <= q} = {c} \X (1 .. q)
  BY BoundsAssumption
<1>2. IsFiniteSet({c}) /\ Cardinality({c}) = 1
  BY FS_Singleton
<1>3. IsFiniteSet(1 .. q) /\ Cardinality(1 .. q) = q
  BY FS_Interval, BoundsAssumption
<1>4. Cardinality({c} \X (1 .. q)) = 1 * q
  BY <1>2, <1>3, FS_Product
<1>5. QED
  BY <1>1, <1>4, BoundsAssumption, SMTT(30)

(* A session's statuses stay current: other calls may not touch the
   reservations in it.                                                     *)
LEMMA SeenStaysCurrent ==
    ASSUME SerialInv, [SerialNext]_vars
    PROVE  SeenIsCurrent'
<1> USE NoneAssumption
<1>0. IndInv /\ IndInv' /\ SeenIsCurrent /\ SerialSettlement /\ [Next]_vars
  BY NextIndInv DEF SerialInv, SerialNext
<1>1. ASSUME UNCHANGED <<seen, res>> PROVE SeenIsCurrent'
  BY <1>0, <1>1 DEF SeenIsCurrent
<1>2. ASSUME NEW c \in Calls, seen' = [seen EXCEPT ![c] = NoneSeen], res' = res
      PROVE  SeenIsCurrent'
  BY <1>0, <1>2 DEF SeenIsCurrent, NoneSeen, IndInv, TypeOK
<1>3. ASSUME NEW c \in Calls, Arrivals(c) PROVE SeenIsCurrent'
  BY <1>1, <1>3 DEF Arrivals, InitializeInventory, AdjustCapacity, ReserveSeats,
              ConfirmReservation, ReleaseReservation, SweepExpiredReservations, Arrive
<1>4. ASSUME NEW c \in Calls, NEW o, Rollback(c, o) PROVE SeenIsCurrent'
  BY <1>2, <1>4 DEF Rollback, Finish
<1>5. ASSUME NEW c \in Calls, SettleFind(c) PROVE SeenIsCurrent'
  <2>1. req[c].target \in Calls
    BY <1>0, <1>5 DEF SettleFind, IndInv, RequestOK
  <2>2. CASE seen' = [seen EXCEPT ![c][req[c].target] = res[req[c].target].status] /\ res' = res
    BY <1>0, <2>1, <2>2 DEF SeenIsCurrent, IndInv, TypeOK
  <2>3. QED
    BY <1>4, <1>5, <2>2 DEF SettleFind
<1>6. ASSUME NEW c \in Calls, SweepFind(c) PROVE SeenIsCurrent'
  <2>1. ASSUME NEW S \in SUBSET Overdue, res' = res,
               seen' = [seen EXCEPT ![c] =
                          [r \in Calls |-> IF r \in S THEN "pending" ELSE None]]
        PROVE  SeenIsCurrent'
    BY <1>0, <2>1 DEF SeenIsCurrent, IndInv, TypeOK, Overdue
  <2>2. QED
    BY <1>4, <1>6, <2>1 DEF SweepFind
<1>7. ASSUME NEW c \in Calls, SettleCommit(c) PROVE SeenIsCurrent'
  <2>1. /\ res' = [r \in Calls |->
                     IF seen[c][r] # None
                     THEN [res[r] EXCEPT !.status = SettledAs(req[c].op)]
                     ELSE res[r]]
        /\ seen' = [seen EXCEPT ![c] = NoneSeen]
    BY <1>7 DEF SettleCommit, Finish
  <2>2. \A d, r \in Calls : seen'[d][r] # None =>
          d # c /\ seen'[d][r] = seen[d][r] /\ seen[c][r] = None
    BY <1>0, <2>1 DEF NoneSeen, IndInv, TypeOK, SerialSettlement
  <2>3. QED
    BY <1>0, <2>1, <2>2 DEF SeenIsCurrent
<1>8. ASSUME NEW c \in Calls, ReserveCommit(c) PROVE SeenIsCurrent'
  <2>1. /\ seen' = [seen EXCEPT ![c] = NoneSeen]
        /\ pc[c] = "write"
        /\ \A r \in Calls : r # c => res'[r] = res[r]
    BY <1>0, <1>8 DEF ReserveCommit, Finish, At, IndInv, TypeOK
  <2>2. res[c] = None
    BY <1>0, <2>1 DEF IndInv, ReservationOK
  <2>3. \A d, r \in Calls : seen'[d][r] # None =>
          seen'[d][r] = seen[d][r] /\ res[r] # None
    BY <1>0, <2>1 DEF NoneSeen, IndInv, TypeOK, SessionOK
  <2>4. QED
    BY <1>0, <2>1, <2>2, <2>3 DEF SeenIsCurrent
<1>9. ASSUME NEW c \in Calls, InitializeInsert(c) \/ AdjustCommit(c)
      PROVE  SeenIsCurrent'
  BY <1>2, <1>9 DEF InitializeInsert, AdjustCommit, Finish
<1>10. ASSUME NEW c \in Calls, CallStep(c) PROVE SeenIsCurrent'
  <2>1. ASSUME AcquireLock(c) \/ LockBusy(c) \/ Unlock(c) PROVE SeenIsCurrent'
    BY <1>1, <1>4, <2>1 DEF AcquireLock, LockBusy, Unlock
  <2>2. ASSUME \/ InitializeRead(c) \/ InitializeDuplicate(c)
               \/ AdjustRead(c) \/ AdjustNoChange(c) \/ AdjustStale(c)
        PROVE  SeenIsCurrent'
    BY <1>1, <1>4, <2>2 DEF InitializeRead, InitializeDuplicate, AdjustRead,
         AdjustNoChange, AdjustStale, LoadRow
  <2>3. ASSUME ReserveRead(c) \/ ReserveStale(c) PROVE SeenIsCurrent'
    BY <1>1, <1>4, <2>3 DEF ReserveRead, ReserveStale, LoadRow
  <2>4. ASSUME (\E e \in Events : SettleLoad(c, e)) \/ SettleStale(c)
        PROVE  SeenIsCurrent'
    BY <1>1, <1>4, <2>4 DEF SettleLoad, SettleStale, LoadRow
  <2>5. QED
    BY <1>5, <1>6, <1>7, <1>8, <1>9, <1>10, <2>1, <2>2, <2>3, <2>4 DEF CallStep
<1>11. ASSUME NEW c \in Calls, Failures(c) PROVE SeenIsCurrent'
  BY <1>2, <1>4, <1>11 DEF Failures, Abort, Crash
<1>12. QED
  BY <1>0, <1>1, <1>3, <1>10, <1>11 DEF Next, LockExpire, PassTTL, vars

(* The seats counted after a step, when the reservations of e in status st
   are S and the step changes no quantity.                                 *)
LEMMA SeatsAfter ==
    ASSUME NEW e, NEW st, NEW S, InStatus(e, st)' = S,
           \A r \in S \cap Calls : res'[r].quantity = res[r].quantity
    PROVE  SeatsOf(InStatus(e, st))' = SeatsOf(S)
BY DEF SeatsOf

(* What a commit of reserve does: a new pending reservation, its seats in the
   reserved count of the row that the session has read.                    *)
LEMMA ReserveEffects ==
    ASSUME IndInv, NEW c \in Calls, ReserveCommit(c)
    PROVE  \E e \in Events, q \in 1 .. MaxQuantity :
              /\ inv[e] \in InventoryRows /\ inv[e] # None
              /\ inv'[e].reserved = inv[e].reserved + q
              /\ inv'[e].confirmed = inv[e].confirmed
              /\ \A f \in Events : f # e => inv'[f] = inv[f]
              /\ res[c] = None
              /\ [event |-> e, quantity |-> q, status |-> "pending"] # None
              /\ \A r \in Calls :
                    res'[r] = IF r = c THEN [event |-> e, quantity |-> q, status |-> "pending"]
                                       ELSE res[r]
<1> USE NoneAssumption
<1>1. PICK e \in Events, q \in 1 .. MaxQuantity :
        /\ e = req[c].event /\ q = req[c].n
        /\ inv[e] \in InventoryRows /\ rows[c][e] = inv[e]
  BY ReserveSession DEF ReserveCommit, At
<1> DEFINE new == [event |-> e, quantity |-> q, status |-> "pending"]
<1>a. new # None
  BY DEF Reservations, Statuses
<1>2. /\ inv' = [inv EXCEPT ![e] = [@ EXCEPT !.reserved = inv[e].reserved + q,
                                             !.version = inv[e].version + 1]]
      /\ res' = [res EXCEPT ![c] = new]
  BY <1>1 DEF ReserveCommit
<1>3. res[c] = None
  BY DEF ReserveCommit, At, IndInv, ReservationOK
<1>4. /\ inv'[e].reserved = inv[e].reserved + q
      /\ inv'[e].confirmed = inv[e].confirmed
      /\ \A f \in Events : f # e => inv'[f] = inv[f]
  <2>1. inv'[e] = [inv[e] EXCEPT !.reserved = inv[e].reserved + q,
                                 !.version = inv[e].version + 1]
    BY <1>1, <1>2 DEF IndInv, TypeOK
  <2>2. QED
    BY <1>1, <1>2, <2>1 DEF IndInv, TypeOK, InventoryRows
<1>5. \A r \in Calls : res'[r] = IF r = c THEN new ELSE res[r]
  BY <1>2 DEF IndInv, TypeOK
<1> HIDE DEF new
<1>6. QED
  BY <1>a, <1>1, <1>3, <1>4, <1>5 DEF new

(* The seats of a new reservation come on top of those counted before. *)
LEMMA SeatsAdded ==
    ASSUME NEW A, IsFiniteSet(A), NEW c \in Calls, NEW q \in 1 .. MaxQuantity,
           \A s \in A : s[1] # c
    PROVE  Cardinality(A \cup {s \in Calls \X (1 .. MaxQuantity) :
                                 s[1] \in {c} /\ s[2] <= q}) = Cardinality(A) + q
<1> DEFINE B == {s \in Calls \X (1 .. MaxQuantity) : s[1] \in {c} /\ s[2] <= q}
<1>1. Cardinality(A) \in Nat
  BY FS_CardinalityType
<1>2. IsFiniteSet(B)
  <2>1. IsFiniteSet(1 .. MaxQuantity)
    BY BoundsAssumption, FS_Interval
  <2>2. IsFiniteSet(Calls \X (1 .. MaxQuantity))
    BY <2>1, CallsAssumption, FS_Product
  <2>3. QED
    BY <2>2, FS_Subset
<1>3. Cardinality(B) = q
  BY SeatsOfOne
<1>4. A \cap B = {}
  OBVIOUS
<1> HIDE DEF B
<1>5. Cardinality(A \cup B) = Cardinality(A) + q - 0
  <2>1. Cardinality(A \cap B) = 0
    BY <1>4, FS_EmptySet
  <2>2. Cardinality(A \cup B) = Cardinality(A) + Cardinality(B) - Cardinality(A \cap B)
    BY <1>2, FS_Union
  <2>3. QED
    BY <1>3, <2>1, <2>2
<1>6. Cardinality(A \cup B) = Cardinality(A) + q
  BY <1>1, <1>5, BoundsAssumption
<1>7. QED
  BY <1>6 DEF B

(* A commit of reserve adds its seats to the pending ones, and to
   reserved_count.                                                         *)
LEMMA ReserveKeepsLedger ==
    ASSUME IndInv, LedgerExact, NEW c \in Calls, ReserveCommit(c)
    PROVE  LedgerExact'
<1> USE NoneAssumption
<1>1. PICK e \in Events, q \in 1 .. MaxQuantity :
        /\ inv[e] \in InventoryRows /\ inv[e] # None
        /\ inv'[e].reserved = inv[e].reserved + q
        /\ inv'[e].confirmed = inv[e].confirmed
        /\ \A f \in Events : f # e => inv'[f] = inv[f]
        /\ res[c] = None
        /\ [event |-> e, quantity |-> q, status |-> "pending"] # None
        /\ \A r \in Calls :
              res'[r] = IF r = c THEN [event |-> e, quantity |-> q, status |-> "pending"]
                                 ELSE res[r]
  BY ReserveEffects
<1> DEFINE new == [event |-> e, quantity |-> q, status |-> "pending"]
           B == {s \in Calls \X (1 .. MaxQuantity) : s[1] \in {c} /\ s[2] <= q}
<1>a. new # None
  BY <1>1
<1>3. res[c] = None
  BY <1>1
<1>4. /\ inv'[e].reserved = inv[e].reserved + q
      /\ inv'[e].confirmed = inv[e].confirmed
      /\ \A f \in Events : f # e => inv'[f] = inv[f]
  BY <1>1
<1>5. \A r \in Calls : res'[r] = IF r = c THEN new ELSE res[r]
  BY <1>1
<1>6. \A f \in Events, st \in Statuses : ~(f = e /\ st = "pending") =>
          SeatsOf(InStatus(f, st))' = SeatsOf(InStatus(f, st))
  <2> SUFFICES ASSUME NEW f \in Events, NEW st \in Statuses, ~(f = e /\ st = "pending")
               PROVE  SeatsOf(InStatus(f, st))' = SeatsOf(InStatus(f, st))
    OBVIOUS
  <2>1. InStatus(f, st)' = InStatus(f, st)
    BY <1>3, <1>5 DEF InStatus
  <2>2. \A r \in InStatus(f, st) \cap Calls : res'[r].quantity = res[r].quantity
    BY <1>3, <1>5 DEF InStatus
  <2>3. QED
    BY <2>1, <2>2, SeatsAfter
<1>7. SeatsOf(InStatus(e, "pending"))' =
          SeatsOf(InStatus(e, "pending"))
          \cup {s \in Calls \X (1 .. MaxQuantity) : s[1] \in {c} /\ s[2] <= q}
  <2>1. InStatus(e, "pending")' = InStatus(e, "pending") \cup {c}
    BY <1>a, <1>3, <1>5 DEF InStatus
  <2>2. c \notin InStatus(e, "pending")
    BY <1>3 DEF InStatus
  <2>3. \A r \in Calls :
          res'[r].quantity = IF r = c THEN q ELSE res[r].quantity
    BY <1>5
  <2>4. QED
    BY <2>1, <2>2, <2>3 DEF SeatsOf
<1>8. Cardinality(SeatsOf(InStatus(e, "pending")))' =
          Cardinality(SeatsOf(InStatus(e, "pending"))) + q
  <2>1. IsFiniteSet(SeatsOf(InStatus(e, "pending")))
    BY SeatsFinite
  <2>2. \A s \in SeatsOf(InStatus(e, "pending")) : s[1] # c
    BY <1>3 DEF SeatsOf, InStatus
  <2>3. QED
    BY <1>7, <2>1, <2>2, SeatsAdded
<1>9. QED
  <2> SUFFICES ASSUME NEW f \in Events, inv'[f] # None
               PROVE  /\ inv'[f].reserved = Cardinality(SeatsOf(InStatus(f, "pending")))'
                      /\ inv'[f].confirmed = Cardinality(SeatsOf(InStatus(f, "confirmed")))'
    BY DEF LedgerExact
  <2>1. CASE f = e
    <3>1. inv[e] # None
      BY <1>1
    <3>2. /\ inv[e].reserved = Cardinality(SeatsOf(InStatus(e, "pending")))
          /\ inv[e].confirmed = Cardinality(SeatsOf(InStatus(e, "confirmed")))
      BY <1>1, <3>1 DEF LedgerExact
    <3>3. QED
      BY <1>1, <1>4, <1>6, <1>8, <2>1, <3>2 DEF Statuses
  <2>2. CASE f # e
    BY <1>4, <1>6, <2>2 DEF LedgerExact, Statuses
  <2>3. QED
    BY <2>1, <2>2

(* What a commit of confirm, release or a sweep finds and does: every
   reservation it has read is there, its event's row is loaded, and of its
   columns only the status changes.                                        *)
LEMMA SettleEffects ==
    ASSUME IndInv, NEW c \in Calls, SettleCommit(c), NEW op, op = req[c].op
    PROVE  /\ op \in SettleOps
           /\ inv' = [e \in Events |->
                        IF rows[c][e] # None THEN SettledRow(c, e) ELSE inv[e]]
           /\ \A r \in Calls : seen[c][r] # None =>
                 /\ res[r] \in Reservations /\ res[r] # None
                 /\ seen[c][r] \in Readable(op)
                 /\ rows[c][res[r].event] # None
           /\ \A r \in Calls :
                 /\ res'[r] = None <=> res[r] = None
                 /\ res[r] # None => /\ res'[r].event = res[r].event
                                     /\ res'[r].quantity = res[r].quantity
                 /\ seen[c][r] # None => res'[r].status = SettledAs(op)
                 /\ seen[c][r] = None => res'[r] = res[r]
<1> USE NoneAssumption
<1>1. op \in SettleOps
  BY DEF SettleCommit
<1>2. /\ pc[c] = "write"
      /\ inv' = [e \in Events |->
                   IF rows[c][e] # None THEN SettledRow(c, e) ELSE inv[e]]
      /\ res' = [r \in Calls |->
                   IF seen[c][r] # None
                   THEN [res[r] EXCEPT !.status = SettledAs(op)]
                   ELSE res[r]]
  BY DEF SettleCommit
<1>3. ASSUME NEW r \in Calls, seen[c][r] # None
      PROVE  /\ res[r] \in Reservations /\ res[r] # None
             /\ seen[c][r] \in Readable(op)
             /\ rows[c][res[r].event] # None
  <2>1. res[r] # None /\ seen[c][r] \in Readable(op) /\ res[r] \in Reservations
    BY <1>3 DEF IndInv, TypeOK, SessionOK
  <2>2. res[r].event \in SeenEvents(c)
    BY <1>3 DEF SeenEvents
  <2>3. rows[c][res[r].event] # None
    BY <1>1, <1>2, <2>2 DEF IndInv, SessionOK
  <2>4. QED
    BY <2>1, <2>3
<1>4. ASSUME NEW r \in Calls
      PROVE  /\ res'[r] = None <=> res[r] = None
             /\ res[r] # None => /\ res'[r].event = res[r].event
                                 /\ res'[r].quantity = res[r].quantity
             /\ seen[c][r] # None => res'[r].status = SettledAs(op)
             /\ seen[c][r] = None => res'[r] = res[r]
  <2>1. CASE seen[c][r] = None
    BY <1>2, <2>1
  <2>2. CASE seen[c][r] # None
    <3>1. res[r] \in Reservations /\ res'[r] = [res[r] EXCEPT !.status = SettledAs(op)]
      BY <1>2, <1>3, <2>2
    <3>2. SettledAs(op) \in Statuses
      BY <1>1 DEF SettledAs, SettleOps, Statuses
    <3>3. /\ res'[r] \in Reservations /\ res'[r].event = res[r].event
          /\ res'[r].quantity = res[r].quantity /\ res'[r].status = SettledAs(op)
      BY <3>1, <3>2 DEF Reservations
    <3>4. QED
      BY <1>3, <2>2, <3>3
  <2>3. QED
    BY <2>1, <2>2
<1>5. QED
  BY <1>1, <1>2, <1>3, <1>4

(* A commit of confirm, release or a sweep moves the seats of exactly the
   reservations it settles, because the statuses it read are current.      *)
LEMMA SettleKeepsLedger ==
    ASSUME IndInv, SeenIsCurrent, LedgerExact, NEW c \in Calls, SettleCommit(c)
    PROVE  LedgerExact'
<1> USE NoneAssumption
<1>1. PICK op \in SettleOps : op = req[c].op
  BY DEF SettleCommit
<1>2. inv' = [e \in Events |->
                IF rows[c][e] # None THEN SettledRow(c, e) ELSE inv[e]]
  BY <1>1, SettleEffects
<1>3. \A r \in Calls : seen[c][r] # None =>
        /\ res[r] \in Reservations /\ res[r] # None
        /\ seen[c][r] = res[r].status
        /\ seen[c][r] \in Readable(op)
        /\ rows[c][res[r].event] # None
  BY <1>1, SettleEffects DEF SeenIsCurrent
<1>4. \A r \in Calls :
        /\ res'[r] = None <=> res[r] = None
        /\ res[r] # None => /\ res'[r].event = res[r].event
                            /\ res'[r].quantity = res[r].quantity
        /\ seen[c][r] # None => res'[r].status = SettledAs(op)
        /\ seen[c][r] = None => res'[r] = res[r]
  BY <1>1, SettleEffects
<1> SUFFICES ASSUME NEW e \in Events, inv'[e] # None
             PROVE  /\ inv'[e].reserved = Cardinality(SeatsOf(InStatus(e, "pending")))'
                    /\ inv'[e].confirmed = Cardinality(SeatsOf(InStatus(e, "confirmed")))'
  BY DEF LedgerExact
<1> DEFINE P == InStatus(e, "pending")
           C == InStatus(e, "confirmed")
           SP == Seen(c, e, "pending")
           SC == Seen(c, e, "confirmed")
           nP == Cardinality(SeatsOf(P))
           nC == Cardinality(SeatsOf(C))
           nSP == Cardinality(SeatsOf(SP))
           nSC == Cardinality(SeatsOf(SC))
<1>a. None # "pending" /\ None # "confirmed"
  BY DEF Statuses
<1>b. \A r \in P \cup C : r \in Calls /\ res'[r].quantity = res[r].quantity
  BY <1>4 DEF InStatus
<1>5. SP \subseteq P /\ SC \subseteq C /\ SP \cap (C \ SC) = {}
  BY <1>3 DEF Seen, InStatus, Statuses
<1>6. /\ nP \in Nat /\ nC \in Nat /\ nSP \in Nat /\ nSC \in Nat
      /\ Cardinality(SeatsOf(P \ SP)) = nP - nSP
      /\ Cardinality(SeatsOf(C \ SC)) = nC - nSC
  BY <1>5, SeatsFinite, SeatsDifference
<1>7. \A r \in Calls : res[r] # None /\ res[r].event = e /\ seen[c][r] # None =>
        r \in SP \/ r \in SC
  BY <1>3 DEF Seen, Readable
<1>8. Cardinality(SeatsOf(P))' = nP - nSP
  <2>a. SettledAs(op) # "pending"
    BY DEF SettledAs, SettleOps
  <2>b. ASSUME NEW r \in Calls PROVE r \in P' <=> r \in P \ SP
    <3>1. CASE seen[c][r] = None
      BY <1>a, <1>4, <3>1 DEF InStatus, Seen
    <3>2. CASE seen[c][r] # None
      BY <1>3, <1>4, <2>a, <3>2 DEF InStatus, Seen
    <3>3. QED
      BY <3>1, <3>2
  <2>1. P' = P \ SP
    BY <2>b DEF InStatus
  <2>2. SeatsOf(P)' = SeatsOf(P \ SP)
    <3>1. \A r \in (P \ SP) \cap Calls : res'[r].quantity = res[r].quantity
      BY <1>b
    <3>2. QED
      BY <2>1, <3>1, SeatsAfter
  <2>3. QED
    BY <1>6, <2>2
<1>9. CASE rows[c][e] = None
  <2>1. SP = {} /\ SC = {}
    BY <1>a, <1>3, <1>9 DEF Seen
  <2>2. P' = P /\ C' = C
    BY <1>3, <1>4, <1>9 DEF InStatus
  <2>3. SeatsOf(P)' = SeatsOf(P) /\ SeatsOf(C)' = SeatsOf(C)
    BY <1>b, <2>2, SeatsAfter
  <2>4. inv'[e] = inv[e]
    BY <1>2, <1>9
  <2>5. QED
    BY <2>3, <2>4 DEF LedgerExact
<1>10. CASE rows[c][e] # None
  <2>1. /\ inv[e] \in InventoryRows /\ inv[e] # None /\ inv'[e] = SettledRow(c, e)
        /\ rows[c][e] = inv[e]
    BY <1>1, <1>2, <1>10, SettledRowType DEF SettleCommit
  <2>2. inv[e].reserved = nP /\ inv[e].confirmed = nC
    BY <2>1 DEF LedgerExact
  <2>3. /\ inv'[e].reserved = inv[e].reserved - nSP
        /\ inv'[e].confirmed = inv[e].confirmed + (IF op = "confirm" THEN nSP ELSE 0) - nSC
    BY <1>1, <2>1 DEF SettledRow, InventoryRows
  <2>4. CASE op = "confirm"
    <3>1. SC = {}
      BY <1>a, <1>3, <2>4 DEF Seen, Readable
    <3>2. C' = C \cup SP
      <4>a. SettledAs(op) = "confirmed"
        BY <2>4 DEF SettledAs
      <4>b. ASSUME NEW r \in Calls PROVE r \in C' <=> r \in C \cup SP
        <5>1. CASE seen[c][r] = None
          BY <1>a, <1>4, <5>1 DEF InStatus, Seen
        <5>2. CASE seen[c][r] # None
          BY <1>3, <1>4, <1>7, <3>1, <4>a, <5>2 DEF InStatus, Seen
        <5>3. QED
          BY <5>1, <5>2
      <4>c. QED
        BY <4>b DEF InStatus, Seen
    <3>3. SeatsOf(C)' = SeatsOf(C \cup SP)
      <4>1. \A r \in (C \cup SP) \cap Calls : res'[r].quantity = res[r].quantity
        BY <1>b, <1>5
      <4>2. QED
        BY <3>2, <4>1, SeatsAfter
    <3>4. Cardinality(SeatsOf(C \cup SP)) = nC + nSP
      BY <1>5, <3>1, SeatsUnion
    <3>5. nSC = 0
      <4>1. SeatsOf(SC) = {}
        BY <3>1 DEF SeatsOf
      <4>2. QED
        BY <4>1, FS_EmptySet
    <3> HIDE DEF nP, nC, nSP, nSC
    <3>6. nC + nSP - nSC = nC + nSP
      BY <1>6, <3>5
    <3>7. QED
      BY <1>8, <2>2, <2>3, <2>4, <3>3, <3>4, <3>6 DEF C
  <2>5. CASE op # "confirm"
    <3>1. C' = C \ SC
      <4>a. SettledAs(op) # "confirmed"
        BY <2>5 DEF SettledAs, SettleOps
      <4>b. ASSUME NEW r \in Calls PROVE r \in C' <=> r \in C \ SC
        <5>1. CASE seen[c][r] = None
          BY <1>a, <1>4, <5>1 DEF InStatus, Seen
        <5>2. CASE seen[c][r] # None
          BY <1>3, <1>4, <4>a, <5>2 DEF InStatus, Seen
        <5>3. QED
          BY <5>1, <5>2
      <4>c. QED
        BY <4>b DEF InStatus
    <3>2. SeatsOf(C)' = SeatsOf(C \ SC)
      <4>1. \A r \in (C \ SC) \cap Calls : res'[r].quantity = res[r].quantity
        BY <1>b
      <4>2. QED
        BY <3>1, <4>1, SeatsAfter
    <3>3. Cardinality(SeatsOf(C))' = nC - nSC
      BY <1>6, <3>2
    <3>4. inv'[e].confirmed = nC + 0 - nSC
      BY <2>2, <2>3, <2>5
    <3> HIDE DEF nP, nC, nSP, nSC
    <3>5. inv'[e].confirmed = nC - nSC
      BY <1>6, <3>4
    <3>6. QED
      BY <1>8, <2>2, <2>3, <3>3, <3>5
  <2>6. QED
    BY <2>4, <2>5
<1>11. QED
  BY <1>9, <1>10

(* The steps that create or resize an inventory row leave the counts alone. *)
LEMMA RowStepsKeepLedger ==
    ASSUME IndInv, LedgerExact, NEW c \in Calls, InitializeInsert(c) \/ AdjustCommit(c)
    PROVE  LedgerExact'
<1> USE NoneAssumption
<1>1. \A f, st : SeatsOf(InStatus(f, st))' = SeatsOf(InStatus(f, st))
  BY DEF InitializeInsert, AdjustCommit, SeatsOf, InStatus
<1>2. CASE InitializeInsert(c)
  <2>1. PICK e \in Events : e = req[c].event
    BY <1>2 DEF InitializeInsert, At, IndInv, RequestOK
  <2>2. inv[e] = None /\ inv' = [inv EXCEPT ![e] = NewRow(req[c].n)]
    BY <1>2, <2>1 DEF InitializeInsert
  <2>3. \A st : SeatsOf(InStatus(e, st)) = {}
    <3>1. \A st : InStatus(e, st) = {}
      BY <2>2 DEF InStatus, IndInv, ReservationOK
    <3>2. QED
      BY <3>1 DEF SeatsOf
  <2>4. inv'[e].reserved = 0 /\ inv'[e].confirmed = 0
    BY <2>2 DEF NewRow, IndInv, TypeOK
  <2>5. \A f \in Events : f # e => inv'[f] = inv[f]
    BY <2>2 DEF IndInv, TypeOK
  <2>6. Cardinality({}) = 0
    BY FS_EmptySet
  <2> SUFFICES ASSUME NEW f \in Events, inv'[f] # None
               PROVE  /\ inv'[f].reserved = Cardinality(SeatsOf(InStatus(f, "pending")))
                      /\ inv'[f].confirmed = Cardinality(SeatsOf(InStatus(f, "confirmed")))
    BY <1>1 DEF LedgerExact
  <2>7. CASE f = e
    BY <2>3, <2>4, <2>6, <2>7
  <2>8. CASE f # e
    BY <2>5, <2>8 DEF LedgerExact
  <2>9. QED
    BY <2>7, <2>8
<1>3. CASE AdjustCommit(c)
  <2>1. PICK e \in Events : e = req[c].event
    BY <1>3 DEF AdjustCommit, At, IndInv, RequestOK
  <2>2. inv[e] \in InventoryRows /\ inv[e] # None
    <3>1. rows[c][e] # None
      BY <1>3, <2>1 DEF AdjustCommit, At, IndInv, SessionOK, LockedOps
    <3>2. QED
      BY <3>1 DEF IndInv, TypeOK, VersionIdentifiesRow
  <2>3. inv' = [inv EXCEPT ![e] = [@ EXCEPT !.total = req[c].n,
                                           !.version = rows[c][e].version + 1]]
    BY <1>3, <2>1 DEF AdjustCommit
  <2>4. inv'[e] = [inv[e] EXCEPT !.total = req[c].n, !.version = rows[c][e].version + 1]
    BY <2>3 DEF IndInv, TypeOK
  <2>5. inv'[e].reserved = inv[e].reserved /\ inv'[e].confirmed = inv[e].confirmed
    BY <2>2, <2>4 DEF InventoryRows
  <2>6. \A f \in Events : f # e => inv'[f] = inv[f]
    BY <2>3 DEF IndInv, TypeOK
  <2> SUFFICES ASSUME NEW f \in Events, inv'[f] # None
               PROVE  /\ inv'[f].reserved = Cardinality(SeatsOf(InStatus(f, "pending")))
                      /\ inv'[f].confirmed = Cardinality(SeatsOf(InStatus(f, "confirmed")))
    BY <1>1 DEF LedgerExact
  <2>7. QED
    BY <2>2, <2>5, <2>6 DEF LedgerExact
<1>4. QED
  BY <1>2, <1>3

(* Empty tables balance. *)
LEMMA SerialInvInit == Init => SerialInv
<1> SUFFICES ASSUME Init PROVE SerialInv
    OBVIOUS
<1>1. IndInv
  BY InitIndInv
<1>2. SerialSettlement /\ SeenIsCurrent
  BY DEF Init, SerialSettlement, SeenIsCurrent, NoneSeen
<1>3. LedgerExact
  <2>1. \A e, st : SeatsOf(InStatus(e, st)) = {}
    <3>1. \A e, st : InStatus(e, st) = {}
      BY DEF Init, InStatus
    <3>2. QED
      BY <3>1 DEF SeatsOf
  <2>2. \A e \in Events : inv[e] # None => inv[e].reserved = 0 /\ inv[e].confirmed = 0
    BY DEF Init, NewRow
  <2>3. QED
    BY <2>1, <2>2, FS_EmptySet DEF LedgerExact
<1>4. QED
  BY <1>1, <1>2, <1>3 DEF SerialInv

(* Every step keeps the books balanced while no reservation is being settled
   by two calls at once. *)
LEMMA SerialInvNext == SerialInv /\ [SerialNext]_vars => SerialInv'
<1> SUFFICES ASSUME SerialInv, [SerialNext]_vars PROVE SerialInv'
    OBVIOUS
<1>1. [Next]_vars /\ IndInv /\ LedgerExact /\ SeenIsCurrent
  BY DEF SerialInv, SerialNext
<1>2. IndInv'
  BY <1>1, NextIndInv
<1>3. SerialSettlement'
  BY DEF SerialInv, SerialNext, SerialSettlement, vars
<1>4. SeenIsCurrent'
  BY SeenStaysCurrent
<1>5. LedgerExact'
  <2>1. CASE UNCHANGED <<inv, res>>
    BY <1>1, <2>1 DEF LedgerExact, SeatsOf, InStatus
  <2>2. QED
    BY <1>1, <2>1, TableSteps, RowStepsKeepLedger, ReserveKeepsLedger, SettleKeepsLedger
<1>6. QED
  BY <1>2, <1>3, <1>4, <1>5 DEF SerialInv

(* The inductive invariant under serial settlement: what a call has read of a
   reservation is still current when it commits. *)
THEOREM SerialInvHolds == SerialSpec => []SerialInv
BY SerialInvInit, SerialInvNext, PTL DEF SerialSpec

(* As long as no two callers settle one reservation at the same time, the
   counters of every event are its reservations, counted.                  *)
THEOREM LedgerIsExact == SerialSpec => []LedgerExact
<1>1. SerialInv => LedgerExact
  BY DEF SerialInv
<1>2. QED
  BY <1>1, SerialInvHolds, PTL

-----------------------------------------------------------------------------
(* No overselling where nobody cuts a capacity.                            *)

(* Calls are of the kinds that are made. *)
OpsMade == \A c \in Calls : req[c].op \in Ops \cup {None}

(* No row has fewer seats than it holds. *)
Fits == \A e \in Events : inv[e] # None => available(inv[e]) >= 0

(* A call is of the kind it was made as, from its arrival on. *)
LEMMA OpsMadeNext ==
    ASSUME IndInv, OpsMade, [Next]_vars
    PROVE  OpsMade'
<1>1. ASSUME UNCHANGED req PROVE OpsMade'
  BY <1>1 DEF OpsMade
<1>2. ASSUME NEW c \in Calls, Arrivals(c) PROVE OpsMade'
  <2>1. ASSUME NEW op, NEW e, NEW n, NEW r, Arrive(c, op, e, n, r) PROVE OpsMade'
    BY <2>1 DEF Arrive, Request, OpsMade, IndInv, TypeOK
  <2>2. QED
    BY <1>2, <2>1 DEF Arrivals, InitializeInventory, AdjustCapacity, ReserveSeats,
              ConfirmReservation, ReleaseReservation, SweepExpiredReservations
<1>3. ASSUME NEW c \in Calls, CallStep(c) PROVE UNCHANGED req
  BY <1>3 DEF CallStep, AcquireLock, LockBusy, Unlock, InitializeRead, InitializeInsert,
              InitializeDuplicate, AdjustRead, AdjustNoChange, AdjustCommit, AdjustStale,
              ReserveRead, ReserveCommit, ReserveStale, SettleFind, SweepFind, SettleLoad,
              SettleCommit, SettleStale, LoadRow, Rollback, Finish
<1>4. ASSUME NEW c \in Calls, Failures(c) PROVE UNCHANGED req
  BY <1>4 DEF Failures, Abort, Crash, Rollback, Finish
<1>5. QED
  BY <1>1, <1>2, <1>3, <1>4 DEF Next, LockExpire, PassTTL, vars

(* No call has arrived yet. *)
LEMMA OpsMadeInit == Init => OpsMade
BY DEF Init, OpsMade, Request

(* Every step keeps Fits: seats are only added by reserve, which has checked
   the very version of the row that it replaces. *)
LEMMA FitsNext ==
    ASSUME "adjust" \notin Ops, SerialInv, OpsMade, Fits, [Next]_vars
    PROVE  Fits'
<1> USE NoneAssumption
<1>0. IndInv
  BY DEF SerialInv
<1>1. CASE UNCHANGED <<inv, res>>
  BY <1>1 DEF Fits
<1>2. ASSUME NEW c \in Calls, InitializeInsert(c) PROVE Fits'
  <2>1. PICK e \in Events : e = req[c].event /\ req[c].n \in Capacities
    BY <1>0, <1>2 DEF InitializeInsert, At, IndInv, RequestOK
  <2>2. inv' = [inv EXCEPT ![e] = NewRow(req[c].n)]
    BY <1>2, <2>1 DEF InitializeInsert
  <2>3. available(NewRow(req[c].n)) >= 0
    <3>1. req[c].n \in Nat
      BY <2>1, CapacitiesAssumption, Zenon
    <3>2. QED
      BY <3>1 DEF NewRow, available
  <2>4. QED
    BY <1>0, <2>2, <2>3 DEF Fits, IndInv, TypeOK
<1>3. ASSUME NEW c \in Calls, AdjustCommit(c) PROVE Fits'
  BY <1>3, NoneAssumption DEF AdjustCommit, At, OpsMade, AllOps
<1>4. ASSUME NEW c \in Calls, ReserveCommit(c) PROVE Fits'
  <2>1. PICK e \in Events, q \in 1 .. MaxQuantity :
          /\ e = req[c].event /\ q = req[c].n
          /\ inv[e] \in InventoryRows /\ rows[c][e] = inv[e]
          /\ available(inv[e]) >= q
    BY <1>0, <1>4, ReserveSession DEF ReserveCommit, At
  <2>2. inv' = [inv EXCEPT ![e] = [@ EXCEPT !.reserved = inv[e].reserved + q,
                                           !.version = inv[e].version + 1]]
    BY <1>4, <2>1 DEF ReserveCommit
  <2>3. inv'[e] = [inv[e] EXCEPT !.reserved = inv[e].reserved + q,
                                 !.version = inv[e].version + 1]
    BY <1>0, <2>2 DEF IndInv, TypeOK
  <2>4. /\ inv'[e].total = inv[e].total /\ inv'[e].reserved = inv[e].reserved + q
        /\ inv'[e].confirmed = inv[e].confirmed
    BY <2>1, <2>3 DEF InventoryRows
  <2>5. /\ inv[e].total \in Int /\ inv[e].reserved \in Int
        /\ inv[e].confirmed \in Int /\ q \in Int
    BY <2>1, RowType, BoundsAssumption
  <2>6. available(inv'[e]) >= 0
    BY <2>1, <2>4, <2>5 DEF available
  <2>7. \A f \in Events : f # e => inv'[f] = inv[f]
    BY <1>0, <2>2 DEF IndInv, TypeOK
  <2>8. QED
    BY <2>6, <2>7 DEF Fits
<1>5. ASSUME NEW c \in Calls, SettleCommit(c) PROVE Fits'
  <2> SUFFICES ASSUME NEW e \in Events, inv'[e] # None
               PROVE  available(inv'[e]) >= 0
    BY DEF Fits
  <2>1. CASE rows[c][e] = None
    BY <1>5, <2>1 DEF SettleCommit, Fits
  <2>2. CASE rows[c][e] # None
    <3> DEFINE p == Cardinality(SeatsOf(Seen(c, e, "pending")))
               d == Cardinality(SeatsOf(Seen(c, e, "confirmed")))
               g == IF req[c].op = "confirm" THEN p ELSE 0
    <3>1. /\ inv'[e] = SettledRow(c, e) /\ inv[e] \in InventoryRows /\ inv[e] # None
          /\ rows[c][e] = inv[e]
      BY <1>0, <1>5, <2>2, SettledRowType DEF SettleCommit
    <3>2. /\ inv'[e].total = inv[e].total /\ inv'[e].reserved = inv[e].reserved - p
          /\ inv'[e].confirmed = inv[e].confirmed + g - d
      BY <3>1 DEF SettledRow, InventoryRows
    <3>3. p \in Nat /\ d \in Nat
      BY SeatsFinite
    <3>4. /\ inv[e].total \in Int /\ inv[e].reserved \in Int /\ inv[e].confirmed \in Int
          /\ available(inv[e]) >= 0
      BY <3>1, RowType DEF Fits
    <3> HIDE DEF p, d
    <3>5. QED
      BY <3>2, <3>3, <3>4 DEF available
  <2>3. QED
    BY <2>1, <2>2
<1>6. QED
  BY <1>1, <1>2, <1>3, <1>4, <1>5, TableSteps

(* With exact counters, Fits says that no event is oversold. *)
LEMMA FitsMeansNotOversold ==
    ASSUME SerialInv, Fits
    PROVE  NeverOversold
<1> SUFFICES ASSUME NEW e \in Events, inv[e] # None
             PROVE  Cardinality(Held(e)) <= inv[e].total
  BY DEF NeverOversold
<1>1. InStatus(e, "pending") \cap InStatus(e, "confirmed") = {}
  BY DEF InStatus
<1>2. Cardinality(Held(e)) = Cardinality(SeatsOf(InStatus(e, "pending")))
                               + Cardinality(SeatsOf(InStatus(e, "confirmed")))
  BY <1>1, SeatsUnion DEF Held
<1>3. Cardinality(Held(e)) = inv[e].reserved + inv[e].confirmed
  BY <1>2 DEF SerialInv, LedgerExact
<1>4. inv[e] \in InventoryRows
  BY DEF SerialInv, IndInv, TypeOK
<1>5. /\ inv[e].total \in Int /\ inv[e].reserved \in Int /\ inv[e].confirmed \in Int
      /\ inv[e].total - inv[e].reserved - inv[e].confirmed >= 0
  BY <1>4, RowType DEF Fits, available
<1>6. QED
  BY <1>3, <1>5

(* Where no capacity is cut, and no two callers settle one reservation at the
   same time, no event ever has more seats held than its capacity, for any
   number of calls, retries, lock timeouts and crashes.                    *)
THEOREM NeverOversells ==
    ASSUME "adjust" \notin Ops
    PROVE  SerialSpec => []NeverOversold
<1>1. Init => SerialInv /\ OpsMade /\ Fits
  <2>1. Init => Fits
    BY CapacitiesAssumption DEF Init, Fits, NewRow, available
  <2>2. QED
    BY <2>1, OpsMadeInit, SerialInvInit
<1>2. /\ SerialInv /\ OpsMade /\ Fits
      /\ [SerialNext]_vars
      => (SerialInv /\ OpsMade /\ Fits)'
  <2> SUFFICES ASSUME SerialInv, OpsMade, Fits, [SerialNext]_vars
               PROVE  (SerialInv /\ OpsMade /\ Fits)'
    OBVIOUS
  <2>1. [Next]_vars /\ IndInv
    BY DEF SerialNext, SerialInv
  <2>2. QED
    BY <2>1, SerialInvNext, OpsMadeNext, FitsNext
<1>3. SerialInv /\ OpsMade /\ Fits => NeverOversold
  BY FitsMeansNotOversold
<1>4. QED
  BY <1>1, <1>2, <1>3, PTL DEF SerialSpec

(* Where no reservation is confirmed, released or swept, no session holds
   one, and there is nothing for callers to keep apart: whatever is proved of
   SerialSpec holds of the service as it is.                               *)
THEOREM UnsettledIsSerial ==
    ASSUME Ops \cap SettleOps = {}
    PROVE  Spec => SerialSpec
<1>1. IndInv /\ OpsMade => SerialSettlement
  <2> SUFFICES ASSUME IndInv, OpsMade, NEW c \in Calls, NEW r \in Calls
               PROVE  seen[c][r] = None
    BY DEF SerialSettlement
  <2>1. req[c].op \notin SettleOps
    BY NoneAssumption DEF OpsMade, SettleOps, AllOps
  <2>2. QED
    BY <2>1 DEF IndInv, SessionOK, NoneSeen
<1>2. /\ IndInv /\ OpsMade
      /\ [Next]_vars
      => (IndInv /\ OpsMade)' /\ [SerialNext]_vars
  <2> SUFFICES ASSUME IndInv, OpsMade, [Next]_vars
               PROVE  (IndInv /\ OpsMade)' /\ [SerialNext]_vars
    OBVIOUS
  <2>1. (IndInv /\ OpsMade)'
    BY NextIndInv, OpsMadeNext
  <2>2. SerialSettlement'
    BY <1>1, <2>1, PTL
  <2>3. QED
    BY <2>1, <2>2 DEF SerialNext
<1>3. QED
  BY <1>2, InitIndInv, OpsMadeInit, PTL DEF Spec, SerialSpec

(* Reservations alone never oversell an event, with no assumption on the
   callers: any number of them, racing for the last seats, with locks that
   expire under their holders, retries, aborts and crashes.                *)
THEOREM ReservationsNeverOversell ==
    ASSUME Ops \cap (SettleOps \cup {"adjust"}) = {}
    PROVE  Spec => []NeverOversold
<1>1. Ops \cap SettleOps = {} /\ "adjust" \notin Ops
  OBVIOUS
<1>2. QED
  BY <1>1, UnsettledIsSerial, NeverOversells, PTL

-----------------------------------------------------------------------------
(* What races cannot do, whoever the callers are.                          *)

(* The reservations of event e that hold its seats. *)
Holders(e) == InStatus(e, "pending") \cup InStatus(e, "confirmed")

(* More reservations have no fewer seats. *)
LEMMA SeatsMonotone ==
    ASSUME NEW S, NEW T, S \subseteq T
    PROVE  Cardinality(SeatsOf(S)) <= Cardinality(SeatsOf(T))
<1>1. SeatsOf(S) \subseteq SeatsOf(T)
  BY DEF SeatsOf
<1>2. QED
  BY <1>1, SeatsFinite, FS_Subset

(* Removing reservations removes no more seats than they have. *)
LEMMA SeatsLeft ==
    ASSUME NEW S, NEW T
    PROVE  Cardinality(SeatsOf(S)) - Cardinality(SeatsOf(T)) <= Cardinality(SeatsOf(S \ T))
<1>1. S \subseteq (S \ T) \cup T /\ (S \ T) \cap T = {}
  OBVIOUS
<1>2. Cardinality(SeatsOf(S)) <= Cardinality(SeatsOf((S \ T) \cup T))
  BY <1>1, SeatsMonotone
<1>3. Cardinality(SeatsOf((S \ T) \cup T)) =
         Cardinality(SeatsOf(S \ T)) + Cardinality(SeatsOf(T))
  BY <1>1, SeatsUnion
<1>4. /\ Cardinality(SeatsOf(S)) \in Nat /\ Cardinality(SeatsOf(T)) \in Nat
      /\ Cardinality(SeatsOf(S \ T)) \in Nat
  BY SeatsFinite
<1>5. QED
  BY <1>2, <1>3, <1>4

(* The seats held after a step that keeps the quantities. *)
LEMMA HeldAfter ==
    ASSUME NEW e, NEW S, Holders(e)' = S,
           \A r \in S \cap Calls : res'[r].quantity = res[r].quantity
    PROVE  Held(e)' = SeatsOf(S)
BY DEF SeatsOf, Held, Holders

(* Creating or resizing an inventory row. *)
LEMMA RowStepsLoseNoSeat ==
    ASSUME IndInv, NoSeatLost, NEW c \in Calls, InitializeInsert(c) \/ AdjustCommit(c)
    PROVE  NoSeatLost'
<1> USE NoneAssumption
<1>1. PICK e \in Events : e = req[c].event
  BY DEF InitializeInsert, AdjustCommit, At, IndInv, RequestOK
<1>2. \A f : Held(f)' = Held(f)
  BY DEF InitializeInsert, AdjustCommit, Held, SeatsOf, InStatus
<1>3. \A f \in Events : f # e => inv'[f] = inv[f]
  BY <1>1 DEF InitializeInsert, AdjustCommit, IndInv, TypeOK
<1>4. CASE InitializeInsert(c)
  <2>1. inv'[e] = NewRow(req[c].n)
    BY <1>1, <1>4 DEF InitializeInsert, IndInv, TypeOK
  <2>2. inv'[e].reserved = 0 /\ inv'[e].confirmed = 0
    BY <2>1 DEF NewRow
  <2>3. Cardinality(Held(e)) \in Nat
    BY SeatsFinite DEF Held
  <2>4. inv'[e].reserved + inv'[e].confirmed <= Cardinality(Held(e))
    BY <2>2, <2>3
  <2>5. QED
    BY <1>2, <1>3, <2>4 DEF NoSeatLost
<1>5. CASE AdjustCommit(c)
  <2>1. inv[e] \in InventoryRows /\ inv[e] # None
    <3>1. rows[c][e] # None
      BY <1>1, <1>5 DEF AdjustCommit, At, IndInv, SessionOK, LockedOps
    <3>2. QED
      BY <3>1 DEF IndInv, TypeOK, VersionIdentifiesRow
  <2>2. inv'[e] = [inv[e] EXCEPT !.total = req[c].n, !.version = rows[c][e].version + 1]
    BY <1>1, <1>5 DEF AdjustCommit, IndInv, TypeOK
  <2>3. inv'[e].reserved = inv[e].reserved /\ inv'[e].confirmed = inv[e].confirmed
    BY <2>1, <2>2 DEF InventoryRows
  <2>4. inv'[e].reserved + inv'[e].confirmed <= Cardinality(Held(e))
    BY <2>1, <2>3 DEF NoSeatLost
  <2>5. QED
    BY <1>2, <1>3, <2>4 DEF NoSeatLost
<1>6. QED
  BY <1>4, <1>5

(* A commit of reserve counts the seats that its reservation holds. *)
LEMMA ReserveLosesNoSeat ==
    ASSUME IndInv, NoSeatLost, NEW c \in Calls, ReserveCommit(c)
    PROVE  NoSeatLost'
<1> USE NoneAssumption
<1>1. PICK e \in Events, q \in 1 .. MaxQuantity :
        /\ inv[e] \in InventoryRows /\ inv[e] # None
        /\ inv'[e].reserved = inv[e].reserved + q
        /\ inv'[e].confirmed = inv[e].confirmed
        /\ \A f \in Events : f # e => inv'[f] = inv[f]
        /\ res[c] = None
        /\ [event |-> e, quantity |-> q, status |-> "pending"] # None
        /\ \A r \in Calls :
              res'[r] = IF r = c THEN [event |-> e, quantity |-> q, status |-> "pending"]
                                 ELSE res[r]
  BY ReserveEffects
<1> DEFINE new == [event |-> e, quantity |-> q, status |-> "pending"]
           B == {s \in Calls \X (1 .. MaxQuantity) : s[1] \in {c} /\ s[2] <= q}
<1>a. new # None
  BY <1>1
<1>3. res[c] = None
  BY <1>1
<1>4. /\ inv'[e].reserved = inv[e].reserved + q
      /\ inv'[e].confirmed = inv[e].confirmed
      /\ \A f \in Events : f # e => inv'[f] = inv[f]
  BY <1>1
<1>5. \A r \in Calls : res'[r] = IF r = c THEN new ELSE res[r]
  BY <1>1
<1>6. \A f \in Events : f # e => Held(f)' = Held(f)
  <2> SUFFICES ASSUME NEW f \in Events, f # e PROVE Held(f)' = Held(f)
    OBVIOUS
  <2>1. Holders(f)' = Holders(f)
    BY <1>3, <1>5 DEF Holders, InStatus
  <2>2. \A r \in Holders(f) \cap Calls : res'[r].quantity = res[r].quantity
    BY <1>3, <1>5 DEF Holders, InStatus
  <2>3. QED
    BY <2>1, <2>2, HeldAfter DEF Held, Holders
<1>7. Held(e)' = Held(e) \cup B
  <2>1. Holders(e)' = Holders(e) \cup {c}
    BY <1>a, <1>3, <1>5 DEF Holders, InStatus
  <2>2. c \notin Holders(e)
    BY <1>3 DEF Holders, InStatus
  <2>3. \A r \in Calls : res'[r].quantity = IF r = c THEN q ELSE res[r].quantity
    BY <1>5
  <2>4. QED
    BY <2>1, <2>2, <2>3 DEF SeatsOf, Held, Holders
<1>8. Cardinality(Held(e))' =
          Cardinality(Held(e)) + q
  <2>1. IsFiniteSet(Held(e))
    BY SeatsFinite DEF Held
  <2>2. \A s \in Held(e) : s[1] # c
    BY <1>3 DEF Held, SeatsOf, InStatus
  <2>3. QED
    BY <1>7, <2>1, <2>2, SeatsAdded
<1>9. inv'[e].reserved + inv'[e].confirmed <= Cardinality(Held(e))'
  <2>1. inv[e] # None /\ inv[e].reserved + inv[e].confirmed <= Cardinality(Held(e))
    BY <1>1 DEF NoSeatLost
  <2>2. inv[e].reserved \in Int /\ inv[e].confirmed \in Int /\ q \in Int
    BY <1>1, RowType, BoundsAssumption
  <2>3. PICK n \in Nat : n = Cardinality(Held(e))
    BY SeatsFinite DEF Held
  <2>4. inv[e].reserved + q + inv[e].confirmed <= n + q
    BY <2>1, <2>2, <2>3
  <2>5. QED
    BY <1>4, <1>8, <2>3, <2>4
<1>10. QED
  BY <1>4, <1>6, <1>9 DEF NoSeatLost

(* A commit of confirm, release or a sweep takes out of the counters the seats
   of the reservations it has read.  Of these, some may have been settled
   meanwhile and hold none; none of the others lose their seats.           *)
LEMMA SettleLosesNoSeat ==
    ASSUME IndInv, NoSeatLost, NEW c \in Calls, SettleCommit(c)
    PROVE  NoSeatLost'
<1> USE NoneAssumption
<1>1. PICK op \in SettleOps : op = req[c].op
  BY DEF SettleCommit
<1>2. inv' = [e \in Events |->
                IF rows[c][e] # None THEN SettledRow(c, e) ELSE inv[e]]
  BY <1>1, SettleEffects
<1>3. \A r \in Calls : seen[c][r] # None =>
        /\ res[r] \in Reservations /\ res[r] # None
        /\ seen[c][r] \in Readable(op)
        /\ rows[c][res[r].event] # None
  BY <1>1, SettleEffects
<1>4. \A r \in Calls :
        /\ res'[r] = None <=> res[r] = None
        /\ res[r] # None => /\ res'[r].event = res[r].event
                            /\ res'[r].quantity = res[r].quantity
        /\ seen[c][r] # None => res'[r].status = SettledAs(op)
        /\ seen[c][r] = None => res'[r] = res[r]
  BY <1>1, SettleEffects
<1> SUFFICES ASSUME NEW e \in Events, inv'[e] # None
             PROVE  inv'[e].reserved + inv'[e].confirmed <= Cardinality(Held(e))'
  BY DEF NoSeatLost
<1>5. PICK H : H = Holders(e)
  OBVIOUS
<1>6. PICK SP, SC : SP = Seen(c, e, "pending") /\ SC = Seen(c, e, "confirmed")
  OBVIOUS
<1>a. None # "pending" /\ None # "confirmed"
  BY DEF Statuses
<1>7. \A r \in Calls : res[r] # None /\ res[r].event = e /\ seen[c][r] # None <=>
                         r \in SP \/ r \in SC
  BY <1>a, <1>3, <1>6 DEF Seen, Readable
<1>8. \A r \in Calls : r \in H <=> /\ res[r] # None /\ res[r].event = e
                                   /\ res[r].status \in {"pending", "confirmed"}
  BY <1>5 DEF Holders, InStatus
<1>9. /\ \A r \in Calls : r \in Holders(e)' <=>
             /\ res'[r] # None /\ res'[r].event = e
             /\ res'[r].status \in {"pending", "confirmed"}
      /\ Holders(e)' \subseteq Calls
  BY DEF Holders, InStatus
<1>10. /\ H \subseteq Calls /\ SP \subseteq Calls /\ SC \subseteq Calls /\ SP \cap SC = {}
       /\ \A r \in H \cup SP \cup SC : res'[r].quantity = res[r].quantity
  BY <1>4, <1>5, <1>6, <1>7 DEF Holders, InStatus, Seen
<1>11. Holders(e)' = IF op = "confirm" THEN H \cup SP ELSE H \ (SP \cup SC)
  <2>1. CASE op = "confirm"
    <3>1. SettledAs(op) = "confirmed" /\ SC = {}
      BY <1>a, <1>3, <1>6, <2>1 DEF SettledAs, Seen, Readable
    <3>2. ASSUME NEW r \in Calls PROVE r \in Holders(e)' <=> r \in H \cup SP
      <4>1. CASE seen[c][r] = None
        BY <1>4, <1>7, <1>8, <1>9, <4>1
      <4>2. CASE seen[c][r] # None
        BY <1>3, <1>4, <1>7, <1>8, <1>9, <3>1, <4>2
      <4>3. QED
        BY <4>1, <4>2
    <3>3. QED
      BY <1>9, <1>10, <2>1, <3>2
  <2>2. CASE op # "confirm"
    <3>1. SettledAs(op) \notin {"pending", "confirmed"}
      BY <2>2 DEF SettledAs, SettleOps
    <3>2. ASSUME NEW r \in Calls PROVE r \in Holders(e)' <=> r \in H \ (SP \cup SC)
      <4>1. CASE seen[c][r] = None
        BY <1>4, <1>7, <1>8, <1>9, <4>1
      <4>2. CASE seen[c][r] # None
        BY <1>3, <1>4, <1>7, <1>8, <1>9, <3>1, <4>2
      <4>3. QED
        BY <4>1, <4>2
    <3>3. QED
      BY <1>9, <1>10, <2>2, <3>2
  <2>3. QED
    BY <2>1, <2>2
<1>12. PICK nH \in Nat, nSP \in Nat, nSC \in Nat :
         /\ nH = Cardinality(SeatsOf(H))
         /\ nSP = Cardinality(SeatsOf(SP)) /\ nSC = Cardinality(SeatsOf(SC))
  BY SeatsFinite
<1>13. nH = Cardinality(Held(e))
  BY <1>5, <1>12 DEF Held, Holders
<1>14. CASE rows[c][e] = None
  <2>1. SP = {} /\ SC = {}
    BY <1>3, <1>7, <1>10, <1>14
  <2>2. Holders(e)' = H
    BY <1>11, <2>1
  <2>3. Held(e)' = SeatsOf(H)
    BY <1>10, <2>2, HeldAfter
  <2>4. inv'[e] = inv[e]
    BY <1>2, <1>14
  <2>5. QED
    BY <1>12, <1>13, <2>3, <2>4 DEF NoSeatLost
<1>15. CASE rows[c][e] # None
  <2>1. /\ inv[e] \in InventoryRows /\ inv[e] # None /\ inv'[e] = SettledRow(c, e)
        /\ rows[c][e] = inv[e]
    BY <1>1, <1>2, <1>15, SettledRowType DEF SettleCommit
  <2>2. /\ inv'[e].reserved = inv[e].reserved - nSP
        /\ inv'[e].confirmed = inv[e].confirmed + (IF op = "confirm" THEN nSP ELSE 0) - nSC
    BY <1>1, <1>6, <1>12, <2>1 DEF SettledRow, InventoryRows
  <2>3. /\ inv[e].reserved \in Int /\ inv[e].confirmed \in Int
        /\ inv[e].reserved + inv[e].confirmed <= nH
    BY <1>13, <2>1, RowType DEF NoSeatLost
  <2>4. CASE op = "confirm"
    <3>1. Held(e)' = SeatsOf(H \cup SP)
      <4>1. \A r \in (H \cup SP) \cap Calls : res'[r].quantity = res[r].quantity
        BY <1>10
      <4>2. QED
        BY <1>11, <2>4, <4>1, HeldAfter
    <3>2. PICK n \in Nat : n = Cardinality(SeatsOf(H \cup SP))
      BY SeatsFinite
    <3>3. nH <= n
      <4>1. H \subseteq H \cup SP
        OBVIOUS
      <4>2. QED
        BY <1>12, <3>2, <4>1, SeatsMonotone
    <3>4. inv'[e].reserved + inv'[e].confirmed <= n
      BY <2>2, <2>3, <2>4, <3>3
    <3>5. QED
      BY <3>1, <3>2, <3>4
  <2>5. CASE op # "confirm"
    <3>1. Held(e)' = SeatsOf(H \ (SP \cup SC))
      <4>1. \A r \in (H \ (SP \cup SC)) \cap Calls : res'[r].quantity = res[r].quantity
        BY <1>10
      <4>2. QED
        BY <1>11, <2>5, <4>1, HeldAfter
    <3>2. PICK n \in Nat : n = Cardinality(SeatsOf(H \ (SP \cup SC)))
      BY SeatsFinite
    <3>3. nH - (nSP + nSC) <= n
      <4>1. Cardinality(SeatsOf(SP \cup SC)) = nSP + nSC
        BY <1>10, <1>12, SeatsUnion
      <4>2. QED
        BY <1>12, <3>2, <4>1, SeatsLeft
    <3>4. inv'[e].reserved + inv'[e].confirmed <= n
      BY <2>2, <2>3, <2>5, <3>3
    <3>5. QED
      BY <3>1, <3>2, <3>4
  <2>6. QED
    BY <2>4, <2>5
<1>16. QED
  BY <1>14, <1>15

(* Whatever callers do at the same time, the counters of an event never stand
   for more seats than its reservations hold: an event that is sold out by
   its counters is sold out.                                               *)
THEOREM NoSeatIsLost == Spec => []NoSeatLost
<1>1. Init => NoSeatLost
  <2> SUFFICES ASSUME Init, NEW e \in Events, inv[e] # None
               PROVE  inv[e].reserved + inv[e].confirmed <= Cardinality(Held(e))
    BY DEF NoSeatLost
  <2>1. inv[e].reserved = 0 /\ inv[e].confirmed = 0
    BY DEF Init, NewRow
  <2>2. Cardinality(Held(e)) \in Nat
    BY SeatsFinite DEF Held
  <2>3. QED
    BY <2>1, <2>2
<1>2. IndInv /\ NoSeatLost /\ [Next]_vars => NoSeatLost'
  <2> SUFFICES ASSUME IndInv, NoSeatLost, [Next]_vars PROVE NoSeatLost'
    OBVIOUS
  <2>1. CASE UNCHANGED <<inv, res>>
    BY <2>1 DEF NoSeatLost, Held, SeatsOf, InStatus
  <2>2. QED
    BY <2>1, TableSteps, RowStepsLoseNoSeat, ReserveLosesNoSeat, SettleLosesNoSeat
<1>3. QED
  BY <1>1, <1>2, IndInvHolds, PTL DEF Spec

=============================================================================
