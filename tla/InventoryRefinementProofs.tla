----------------------- MODULE InventoryRefinementProofs -----------------------
(***************************************************************************)
(* The proof that the Inventory service, under callers that do not settle  *)
(* one reservation at the same time, implements SeatLedger: of its steps,  *)
(* the four that write the tables are steps of the ledger and all others   *)
(* leave the ledger as it is.                                              *)
(***************************************************************************)
EXTENDS InventoryRefinement, InventoryProofs

(* The capacity of an event is its row's total column, where it has a row;
   no total is None, so the ledger too tells whether there is one.         *)
LEMMA TotalsType ==
    ASSUME IndInv, NEW e \in Events
    PROVE  /\ inv[e] = None => totals[e] = None
           /\ inv[e] # None => /\ inv[e] \in InventoryRows
                               /\ totals[e] = inv[e].total
                               /\ totals[e] \in Capacities
                               /\ totals[e] # None
<1>1. inv[e] # None => inv[e] \in InventoryRows
  BY DEF IndInv, TypeOK
<1>2. QED
  BY <1>1, NoneAssumption DEF totals, InventoryRows

(* A step that keeps every row and its total column keeps the capacities. *)
LEMMA TotalsKept ==
    ASSUME \A e \in Events : /\ inv'[e] = None <=> inv[e] = None
                             /\ inv[e] # None => inv'[e].total = inv[e].total
    PROVE  UNCHANGED totals
BY DEF totals

(* A step that gives event e a row with n seats, and keeps all other rows. *)
LEMMA TotalsSet ==
    ASSUME NEW e \in Events, NEW n, inv'[e] # None, inv'[e].total = n,
           \A f \in Events : f # e => inv'[f] = inv[f]
    PROVE  totals' = [totals EXCEPT ![e] = n]
BY DEF totals

(* The ledger counts as the service does: its FiniteSets is the same. *)
LEMMA SameCardinality ==
    ASSUME NEW S
    PROVE  Ledger!Cardinality(S) = Cardinality(S)
BY Zenon DEF Cardinality, Ledger!Cardinality

(* The seats that the ledger counts as taken are those the reservations
   table holds. *)
LEMMA TakenIsHeld ==
    ASSUME NEW e \in Events
    PROVE  Ledger!Taken(e) = Held(e)
BY DEF Ledger!Taken, Held, SeatsOf, InStatus

(* With exact counters, the seats left in a row are those that nobody has. *)
LEMMA FreeSeats ==
    ASSUME SerialInv, NEW e \in Events, inv[e] # None
    PROVE  /\ Cardinality(Ledger!Taken(e)) \in Nat
           /\ Cardinality(Ledger!Taken(e)) + available(inv[e]) = inv[e].total
<1>1. InStatus(e, "pending") \cap InStatus(e, "confirmed") = {}
  BY DEF InStatus
<1>2. Cardinality(Held(e)) = Cardinality(SeatsOf(InStatus(e, "pending")))
                               + Cardinality(SeatsOf(InStatus(e, "confirmed")))
  BY <1>1, SeatsUnion DEF Held
<1>3. Cardinality(Ledger!Taken(e)) = inv[e].reserved + inv[e].confirmed
  BY <1>2, TakenIsHeld DEF SerialInv, LedgerExact
<1>4. inv[e].total \in Int /\ inv[e].reserved \in Int /\ inv[e].confirmed \in Int
  BY RowType DEF SerialInv, IndInv, TypeOK
<1>5. Cardinality(Ledger!Taken(e)) \in Nat
  BY SeatsFinite, TakenIsHeld DEF Held
<1>6. QED
  BY <1>3, <1>4, <1>5 DEF available

(* The initial tables are an initial ledger. *)
LEMMA LedgerInit == Init => Ledger!Init
<1> SUFFICES ASSUME Init PROVE Ledger!Init
  OBVIOUS
<1>1. \A e \in Events : totals[e] \in Capacities \cup {None}
  <2>1. IndInv
    BY InitIndInv
  <2>2. QED
    BY <2>1, TotalsType
<1>2. totals \in [Events -> Capacities \cup {None}]
  BY <1>1 DEF totals
<1>3. QED
  BY <1>2 DEF Init, Ledger!Init

(* The commit of initialize_inventory opens the event. *)
LEMMA InsertOpens ==
    ASSUME SerialInv, NEW c \in Calls, InitializeInsert(c)
    PROVE  Ledger!Next
<1> USE NoneAssumption
<1>1. IndInv
  BY DEF SerialInv
<1>2. PICK e \in Events, n \in Capacities : e = req[c].event /\ n = req[c].n
  BY <1>1 DEF InitializeInsert, At, IndInv, RequestOK
<1>3. inv[e] = None /\ inv' = [inv EXCEPT ![e] = NewRow(n)] /\ UNCHANGED res
  BY <1>2 DEF InitializeInsert
<1>4. NewRow(n) \in InventoryRows /\ NewRow(n).total = n
  BY DEF NewRow, InventoryRows
<1>5. /\ inv'[e] = NewRow(n)
      /\ \A f \in Events : f # e => inv'[f] = inv[f]
  BY <1>1, <1>3 DEF IndInv, TypeOK
<1>6. totals' = [totals EXCEPT ![e] = n]
  BY <1>4, <1>5, TotalsSet
<1>7. Ledger!Open(e, n)
  BY <1>1, <1>3, <1>6, TotalsType DEF Ledger!Open
<1>8. QED
  BY <1>7 DEF Ledger!Next

(* The commit of adjust_capacity resizes the event. *)
LEMMA AdjustResizes ==
    ASSUME SerialInv, NEW c \in Calls, AdjustCommit(c)
    PROVE  Ledger!Next
<1> USE NoneAssumption
<1>1. IndInv
  BY DEF SerialInv
<1>2. PICK e \in Events, n \in Capacities : e = req[c].event /\ n = req[c].n
  BY <1>1 DEF AdjustCommit, At, IndInv, RequestOK
<1>3. rows[c][e] # None
  BY <1>1, <1>2 DEF AdjustCommit, At, IndInv, SessionOK, LockedOps
<1>4. inv[e] # None /\ inv[e] \in InventoryRows /\ rows[c][e] \in InventoryRows
  BY <1>1, <1>3 DEF IndInv, TypeOK, VersionIdentifiesRow
<1>5. PICK v \in Nat \ {0} : v = rows[c][e].version + 1
  BY <1>4 DEF InventoryRows
<1>6. /\ inv' = [inv EXCEPT ![e] = [@ EXCEPT !.total = n, !.version = v]]
      /\ UNCHANGED res
  BY <1>2, <1>5 DEF AdjustCommit
<1>7. /\ inv'[e] = [inv[e] EXCEPT !.total = n, !.version = v]
      /\ \A f \in Events : f # e => inv'[f] = inv[f]
  BY <1>1, <1>6 DEF IndInv, TypeOK
<1>8. inv'[e] \in InventoryRows /\ inv'[e].total = n
  BY <1>4, <1>7 DEF InventoryRows
<1>9. totals' = [totals EXCEPT ![e] = n]
  BY <1>7, <1>8, TotalsSet
<1>10. Ledger!Resize(e, n)
  BY <1>1, <1>4, <1>6, <1>9, TotalsType DEF Ledger!Resize
<1>11. QED
  BY <1>10 DEF Ledger!Next

(* The commit of reserve grants a hold out of free seats. *)
LEMMA ReserveGrants ==
    ASSUME SerialInv, NEW c \in Calls, ReserveCommit(c)
    PROVE  Ledger!Next
<1> USE NoneAssumption
<1>1. IndInv
  BY DEF SerialInv
<1>2. PICK e \in Events, q \in 1 .. MaxQuantity :
        /\ e = req[c].event /\ q = req[c].n
        /\ inv[e] \in InventoryRows /\ rows[c][e] = inv[e]
        /\ available(inv[e]) >= q
  BY <1>1, ReserveSession DEF ReserveCommit, At
<1>3. /\ inv' = [inv EXCEPT ![e] = [@ EXCEPT !.reserved = inv[e].reserved + q,
                                             !.version = inv[e].version + 1]]
      /\ res' = [res EXCEPT ![c] =
                   [event |-> e, quantity |-> q, status |-> "pending"]]
  BY <1>2 DEF ReserveCommit
<1>4. UNCHANGED totals
  <2>1. PICK m \in Int, v \in Nat \ {0} :
          m = inv[e].reserved + q /\ v = inv[e].version + 1
    BY <1>2, BoundsAssumption DEF InventoryRows
  <2>2. /\ inv'[e] = [inv[e] EXCEPT !.reserved = m, !.version = v]
        /\ \A f \in Events : f # e => inv'[f] = inv[f]
    BY <1>1, <1>3, <2>1 DEF IndInv, TypeOK
  <2>3. inv'[e] \in InventoryRows /\ inv'[e].total = inv[e].total
    BY <1>2, <2>2 DEF InventoryRows
  <2>4. QED
    BY <1>2, <2>2, <2>3, TotalsKept
<1>5. res[c] = None
  BY <1>1 DEF ReserveCommit, At, IndInv, ReservationOK
<1>6. inv[e] # None /\ totals[e] = inv[e].total /\ totals[e] # None
  BY <1>1, <1>2, TotalsType
<1>7. Cardinality(Ledger!Taken(e)) + q <= totals[e]
  <2> DEFINE k == Cardinality(Ledger!Taken(e))
             a == available(inv[e])
  <2>1. k \in Nat /\ k + a = inv[e].total
    BY <1>6, FreeSeats
  <2>2. a \in Int /\ inv[e].total \in Int /\ q \in Int
    BY <1>2, RowType, BoundsAssumption
  <2>3. a >= q
    BY <1>2
  <2> HIDE DEF k, a
  <2>4. k + q <= inv[e].total
    BY <2>1, <2>2, <2>3
  <2>5. QED
    BY <1>6, <2>4 DEF k
<1>8. Ledger!Grant(c, e, q)
  BY <1>3, <1>4, <1>5, <1>6, <1>7, SameCardinality DEF Ledger!Grant
<1>9. QED
  BY <1>8 DEF Ledger!Next

(* The commit of confirm, release or a sweep settles the holds it has read:
   each is still in the status its session saw, so each goes through a move
   of the ledger.  The capacities are not touched.                         *)
LEMMA CommitSettles ==
    ASSUME SerialInv, NEW c \in Calls, SettleCommit(c)
    PROVE  Ledger!Next
<1> USE NoneAssumption
<1>1. IndInv
  BY DEF SerialInv
<1>2. PICK op \in SettleOps : op = req[c].op
  BY DEF SettleCommit
<1>3. PICK to \in {"confirmed", "released", "expired"} : to = SettledAs(op)
  BY DEF SettledAs, SettleOps
<1>4. /\ inv' = [e \in Events |->
                   IF rows[c][e] # None THEN SettledRow(c, e) ELSE inv[e]]
      /\ res' = [r \in Calls |->
                   IF seen[c][r] # None
                   THEN [res[r] EXCEPT !.status = to]
                   ELSE res[r]]
  BY <1>2, <1>3 DEF SettleCommit
<1>5. PICK S \in SUBSET Calls : S = {r \in Calls : seen[c][r] # None}
  OBVIOUS
<1>6. ASSUME NEW r \in S
      PROVE  res[r] # None /\ <<res[r].status, to>> \in Ledger!Moves
  <2>1. r \in Calls /\ seen[c][r] # None
    BY <1>5
  <2>2. /\ res[r] # None /\ seen[c][r] \in Readable(op)
        /\ seen[c][r] = res[r].status
    BY <1>1, <1>2, <2>1 DEF IndInv, SessionOK, SerialInv, SeenIsCurrent
  <2>3. CASE op = "release"
    BY <1>3, <2>2, <2>3 DEF Readable, SettledAs, Ledger!Moves
  <2>4. CASE op = "confirm"
    BY <1>3, <2>2, <2>4 DEF Readable, SettledAs, Ledger!Moves
  <2>5. CASE op = "sweep"
    BY <1>3, <2>2, <2>5 DEF Readable, SettledAs, Ledger!Moves
  <2>6. QED
    BY <2>3, <2>4, <2>5 DEF SettleOps
<1>7. UNCHANGED totals
  <2>1. ASSUME NEW e \in Events
        PROVE  /\ inv'[e] = None <=> inv[e] = None
               /\ inv[e] # None => inv'[e].total = inv[e].total
    <3>1. CASE rows[c][e] = None
      BY <1>4, <3>1
    <3>2. CASE rows[c][e] # None
      <4>1. /\ inv[e] \in InventoryRows /\ SettledRow(c, e) \in InventoryRows
            /\ inv'[e] = SettledRow(c, e) /\ rows[c][e] = inv[e]
        BY <1>1, <1>2, <1>4, <3>2, SettledRowType DEF SettleCommit
      <4>2. SettledRow(c, e).total = inv[e].total
        BY <4>1 DEF SettledRow, InventoryRows
      <4>3. QED
        BY <4>1, <4>2
    <3>3. QED
      BY <3>1, <3>2
  <2>2. QED
    BY <2>1, TotalsKept
<1>8. res' = [r \in Calls |-> IF r \in S THEN [res[r] EXCEPT !.status = to] ELSE res[r]]
  BY <1>4, <1>5
<1>9. Ledger!Settle(S, to)
  BY <1>6, <1>7, <1>8 DEF Ledger!Settle
<1>10. QED
  BY <1>9 DEF Ledger!Next

(* Every step of the service is one of the ledger or leaves it alone. *)
LEMMA LedgerNext == SerialInv /\ [SerialNext]_vars => [Ledger!Next]_<<totals, res>>
<1> SUFFICES ASSUME SerialInv, [SerialNext]_vars
             PROVE  [Ledger!Next]_<<totals, res>>
  OBVIOUS
<1>1. [Next]_vars
  BY DEF SerialNext
<1>2. CASE UNCHANGED <<inv, res>>
  BY <1>2 DEF totals
<1>3. QED
  BY <1>1, <1>2, TableSteps, InsertOpens, AdjustResizes, ReserveGrants, CommitSettles

(* However the SELECTs of the service's transactions interleave, and whatever
   locks, retries, aborts and crashes do, each commit is one step of the
   ledger as long as no two callers settle one reservation at the same time:
   a hold only out of free seats, settled at most once into a final status,
   no capacity changed but by initialize_inventory and adjust_capacity.    *)
THEOREM ServiceImplementsLedger == SerialSpec => ImplementsLedger
<1>1. SerialInv /\ [SerialNext]_vars => [Ledger!Next]_(Ledger!vars)
  BY LedgerNext DEF Ledger!vars
<1>2. QED
  BY <1>1, LedgerInit, SerialInvHolds, PTL
     DEF SerialSpec, ImplementsLedger, Ledger!Spec

=============================================================================
