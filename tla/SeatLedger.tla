----------------------------- MODULE SeatLedger -----------------------------
(***************************************************************************)
(* What the Inventory service promises, without versions, locks, sessions  *)
(* or counters: a table of capacities and a table of holds, changed in     *)
(* single steps.  A hold is only granted out of free seats and is settled  *)
(* at most once into a final status.                                       *)
(***************************************************************************)
EXTENDS Integers, FiniteSets

CONSTANTS Events, Holds, Capacities, MaxQuantity, None

VARIABLES
    cap,   \* the capacity of each event, or None
    hold   \* the holds: [event, quantity, status], or None

vars == <<cap, hold>>

(* The status changes a hold may go through. *)
Moves ==
    {<<"pending", "confirmed">>, <<"pending", "released">>,
     <<"pending", "expired">>, <<"confirmed", "released">>}

Taken(e) ==
    {s \in Holds \X (1 .. MaxQuantity) :
        /\ hold[s[1]] # None
        /\ hold[s[1]].event = e
        /\ hold[s[1]].status \in {"pending", "confirmed"}
        /\ s[2] <= hold[s[1]].quantity}

Init ==
    /\ cap \in [Events -> Capacities \cup {None}]
    /\ hold = [h \in Holds |-> None]

Open(e, n) ==
    /\ cap[e] = None
    /\ cap' = [cap EXCEPT ![e] = n]
    /\ UNCHANGED hold

Resize(e, n) ==
    /\ cap[e] # None
    /\ cap' = [cap EXCEPT ![e] = n]
    /\ UNCHANGED hold

Grant(h, e, q) ==
    /\ hold[h] = None
    /\ cap[e] # None
    /\ Cardinality(Taken(e)) + q <= cap[e]
    /\ hold' = [hold EXCEPT ![h] =
                  [event |-> e, quantity |-> q, status |-> "pending"]]
    /\ UNCHANGED cap

(* Several holds may be settled together: a sweep is one transaction. *)
Settle(S, to) ==
    /\ \A h \in S : hold[h] # None /\ <<hold[h].status, to>> \in Moves
    /\ hold' = [h \in Holds |->
                  IF h \in S THEN [hold[h] EXCEPT !.status = to] ELSE hold[h]]
    /\ UNCHANGED cap

Next ==
    \/ \E e \in Events, n \in Capacities : Open(e, n) \/ Resize(e, n)
    \/ \E h \in Holds, e \in Events, q \in 1 .. MaxQuantity : Grant(h, e, q)
    \/ \E S \in SUBSET Holds, to \in {"confirmed", "released", "expired"} :
          Settle(S, to)

Spec == Init /\ [][Next]_vars

=============================================================================
