------------------------- MODULE KafkaConsumerProofs -------------------------
(***************************************************************************)
(* Proofs about KafkaConsumer, for any group, any number of partitions and *)
(* any number of crashes and rebalances.                                   *)
(***************************************************************************)
EXTENDS KafkaConsumer, TLAPS

(* What the owner of a partition was given of it has been through a handler,
   but for the message in its hand; this is what commit() relies on, since
   the owner that commits has no message in a handler.                     *)
InHand(m, p, i) == state[m] = "handling" /\ message[m] = <<p, i>>

DeliveredWasHandled ==
    \A p \in Partitions :
       owner[p] # Nil =>
          /\ offset[p] <= fetched[p]
          /\ \A i \in 1..fetched[p] :
                outcome[<<p, i>>] # "new" \/ InHand(owner[p], p, i)

IndInv == ConsumerTypeOK /\ CommittedWasHandled /\ DeliveredWasHandled

-----------------------------------------------------------------------------
(* The disjuncts of Next. *)
LEMMA NextCases ==
  ASSUME ConsumerNext
  PROVE  \/ \E p \in Partitions : Produce(p) \/ Join(p) \/ Revoke(p)
         \/ \E m \in Members, p \in Partitions : Deliver(m, p)
         \/ \E m \in Members : \/ Crash(m) \/ ProcessReturns(m) \/ ProcessRaises(m)
                               \/ Commit(m) \/ CommitRefused(m)
  BY DEF ConsumerNext, Process

(* A message of a partition is a message. *)
LEMMA MessageType ==
  ASSUME NEW p \in Partitions, NEW i \in 1..MaxLog
  PROVE  <<p, i>> \in Records
  BY DEF Records

(* Every step keeps the types. *)
LEMMA TypeNext == ConsumerTypeOK /\ [ConsumerNext]_consumerVars => ConsumerTypeOK'
<1> SUFFICES ASSUME ConsumerTypeOK, [ConsumerNext]_consumerVars PROVE ConsumerTypeOK'
  OBVIOUS
<1> USE LogAssumption
<1>1. CASE UNCHANGED consumerVars
  BY <1>1 DEF ConsumerTypeOK, consumerVars
<1>2. ASSUME NEW p \in Partitions, Produce(p) PROVE ConsumerTypeOK'
  BY <1>2 DEF ConsumerTypeOK, Produce
<1>3. ASSUME NEW p \in Partitions, Join(p) PROVE ConsumerTypeOK'
  BY <1>3 DEF ConsumerTypeOK, Join
<1>4. ASSUME NEW p \in Partitions, Revoke(p) PROVE ConsumerTypeOK'
  BY <1>4 DEF ConsumerTypeOK, Revoke
<1>5. ASSUME NEW m \in Members, Crash(m) PROVE ConsumerTypeOK'
  BY <1>5 DEF ConsumerTypeOK, Crash
<1>6. ASSUME NEW m \in Members, NEW p \in Partitions, Deliver(m, p) PROVE ConsumerTypeOK'
  <2>1. fetched[p] \in 0..MaxLog /\ log[p] \in 0..MaxLog /\ fetched[p] < log[p]
    BY <1>6 DEF ConsumerTypeOK, Deliver
  <2>2. fetched[p] + 1 \in 1..MaxLog
    BY <2>1
  <2>3. <<p, fetched[p] + 1>> \in Records
    BY <2>2, MessageType
  <2> QED
    BY <1>6, <2>2, <2>3 DEF ConsumerTypeOK, Deliver
<1>7. ASSUME NEW m \in Members, ProcessReturns(m) PROVE ConsumerTypeOK'
  BY <1>7 DEF ConsumerTypeOK, ProcessReturns
<1>8. ASSUME NEW m \in Members, ProcessRaises(m) PROVE ConsumerTypeOK'
  BY <1>8 DEF ConsumerTypeOK, ProcessRaises
<1>9. ASSUME NEW m \in Members, Commit(m) PROVE ConsumerTypeOK'
  <2>1. \A p \in Partitions : CommittedTo(m, p) \in 0..MaxLog
    BY DEF ConsumerTypeOK, CommittedTo
  <2> QED
    BY <1>9, <2>1 DEF ConsumerTypeOK, Commit
<1>10. ASSUME NEW m \in Members, CommitRefused(m) PROVE ConsumerTypeOK'
  BY <1>10 DEF ConsumerTypeOK, CommitRefused
<1> QED
  BY <1>1, <1>2, <1>3, <1>4, <1>5, <1>6, <1>7, <1>8, <1>9, <1>10, NextCases

(* An outcome never goes back to "new". *)
LEMMA OutcomesStay ==
  ASSUME ConsumerTypeOK, [ConsumerNext]_consumerVars, NEW x \in Records, outcome[x] # "new"
  PROVE  outcome'[x] # "new"
<1>1. CASE UNCHANGED outcome
  BY <1>1
<1>2. ASSUME NEW m \in Members, ProcessReturns(m) PROVE outcome'[x] # "new"
  BY <1>2 DEF ConsumerTypeOK, ProcessReturns
<1>3. ASSUME NEW m \in Members, ProcessRaises(m) PROVE outcome'[x] # "new"
  BY <1>3 DEF ConsumerTypeOK, ProcessRaises
<1> QED
  BY <1>1, <1>2, <1>3, NextCases
  DEF consumerVars, Produce, Join, Revoke, Deliver, Crash, Commit, CommitRefused

(* A commit covers only messages that were handled: the member that commits
   has none in a handler.                                                  *)
LEMMA CommittedNext == IndInv /\ [ConsumerNext]_consumerVars => CommittedWasHandled'
<1> SUFFICES ASSUME IndInv, [ConsumerNext]_consumerVars,
                    NEW q \in Partitions, NEW i \in 1..offset'[q]
             PROVE  outcome'[<<q, i>>] # "new"
  BY DEF CommittedWasHandled
<1>1. offset[q] \in 0..MaxLog /\ offset'[q] \in 0..MaxLog
  BY TypeNext DEF IndInv, ConsumerTypeOK
<1>2. <<q, i>> \in Records
  BY <1>1, MessageType, LogAssumption
<1>3. CASE i \in 1..offset[q]
  BY <1>2, <1>3, OutcomesStay DEF IndInv, CommittedWasHandled
<1>4. CASE i \notin 1..offset[q]
  <2>1. offset'[q] # offset[q]
    BY <1>4
  <2>2. PICK m \in Members : Commit(m)
    BY <2>1, NextCases
    DEF consumerVars, Produce, Join, Revoke, Deliver, Crash, ProcessReturns, ProcessRaises,
        CommitRefused
  <2>3. offset'[q] = fetched[q] /\ owner[q] = m
    BY <2>1, <2>2 DEF Commit, CommittedTo
  <2>4. ~InHand(m, q, i)
    BY <2>2 DEF Commit, InHand
  <2>5. outcome[<<q, i>>] # "new"
    BY <2>3, <2>4, MembersAssumption DEF IndInv, DeliveredWasHandled
  <2> QED
    BY <1>2, <2>5, OutcomesStay DEF IndInv
<1> QED
  BY <1>3, <1>4

(* Every step keeps DeliveredWasHandled. *)
LEMMA DeliveredNext == IndInv /\ [ConsumerNext]_consumerVars => DeliveredWasHandled'
<1> DEFINE Good(q) ==
      owner[q] # Nil =>
         /\ offset[q] <= fetched[q]
         /\ \A i \in 1..fetched[q] : outcome[<<q, i>>] # "new" \/ InHand(owner[q], q, i)
<1> SUFFICES ASSUME IndInv, [ConsumerNext]_consumerVars, NEW q \in Partitions
             PROVE  Good(q)'
  BY DEF DeliveredWasHandled
<1>1. ConsumerTypeOK /\ Good(q) /\ ConsumerTypeOK'
  BY TypeNext DEF IndInv, DeliveredWasHandled
<1>2. fetched[q] \in 0..MaxLog /\ offset[q] \in 0..MaxLog /\ MaxLog \in Nat
  BY <1>1, LogAssumption DEF ConsumerTypeOK
<1>3. \A i \in 1..fetched[q] : <<q, i>> \in Records
  BY <1>2, MessageType
<1>4. CASE UNCHANGED <<outcome, offset, owner, fetched, state, message>>
  BY <1>1, <1>4 DEF InHand
<1>5. ASSUME NEW p \in Partitions, Join(p) PROVE Good(q)'
  <2>1. CASE q = p
    <3>1. fetched'[q] = offset[q] /\ offset'[q] = offset[q] /\ outcome' = outcome
      BY <1>1, <1>5, <2>1 DEF Join, ConsumerTypeOK
    <3> QED
      BY <1>2, <3>1 DEF IndInv, CommittedWasHandled
  <2>2. CASE q # p
    BY <1>1, <1>5, <2>2 DEF Join, ConsumerTypeOK, InHand
  <2> QED
    BY <2>1, <2>2
<1>6. ASSUME NEW p \in Partitions, Revoke(p) PROVE Good(q)'
  BY <1>1, <1>6 DEF Revoke, ConsumerTypeOK, InHand
<1>7. ASSUME NEW m \in Members, Crash(m) PROVE Good(q)'
  BY <1>1, <1>7 DEF Crash, ConsumerTypeOK, InHand
<1>8. ASSUME NEW m \in Members, NEW p \in Partitions, Deliver(m, p) PROVE Good(q)'
  <2>1. \A i \in 1..fetched[q] : owner[q] = m => outcome[<<q, i>>] # "new"
    BY <1>1, <1>8, MembersAssumption DEF Deliver, InHand
  <2>2. CASE q = p
    <3>1. fetched'[q] = fetched[q] + 1 /\ owner[q] = m /\ UNCHANGED <<offset, outcome, owner>>
      BY <1>1, <1>8, <2>2 DEF Deliver, ConsumerTypeOK
    <3>2. state'[m] = "handling" /\ message'[m] = <<q, fetched[q] + 1>>
      BY <1>1, <1>8, <2>2 DEF Deliver, ConsumerTypeOK
    <3>3. \A i \in 1..fetched'[q] : i \in 1..fetched[q] \/ i = fetched[q] + 1
      BY <1>2, <3>1
    <3>4. offset[q] <= fetched[q]
      BY <1>1, <3>1, MembersAssumption
    <3>5. offset'[q] <= fetched'[q]
      BY <1>2, <3>1, <3>4
    <3>6. \A i \in 1..fetched'[q] : outcome'[<<q, i>>] # "new" \/ InHand(owner[q], q, i)'
      BY <2>1, <3>1, <3>2, <3>3 DEF InHand
    <3> QED
      BY <3>5, <3>6 DEF InHand
  <2>3. CASE q # p
    <3>1. fetched'[q] = fetched[q] /\ UNCHANGED <<offset, outcome, owner>>
      BY <1>1, <1>8, <2>3 DEF Deliver, ConsumerTypeOK
    <3>2. owner[q] \in Members \ {m} => \A i : InHand(owner[q], q, i) => InHand(owner[q], q, i)'
      BY <1>1, <1>8, <3>1 DEF Deliver, ConsumerTypeOK, InHand
    <3> QED
      BY <1>1, <2>1, <3>1, <3>2 DEF InHand, ConsumerTypeOK
  <2> QED
    BY <2>2, <2>3
<1>9. ASSUME NEW m \in Members, ProcessReturns(m) \/ ProcessRaises(m) PROVE Good(q)'
  <2>1. UNCHANGED <<offset, owner, fetched>>
    BY <1>9 DEF ProcessReturns, ProcessRaises
  <2>2. \A i \in 1..fetched[q] : InHand(m, q, i) => outcome'[<<q, i>>] # "new"
    BY <1>1, <1>3, <1>9 DEF ProcessReturns, ProcessRaises, InHand, ConsumerTypeOK
  <2>3. \A i \in 1..fetched[q] : outcome[<<q, i>>] # "new" => outcome'[<<q, i>>] # "new"
    BY <1>1, <1>3, OutcomesStay
  <2>4. owner[q] \in Members \ {m} => \A i : InHand(owner[q], q, i) => InHand(owner[q], q, i)'
    BY <1>1, <1>9, <2>1 DEF ProcessReturns, ProcessRaises, ConsumerTypeOK, InHand
  <2> QED
    BY <1>1, <2>1, <2>2, <2>3, <2>4 DEF InHand, ConsumerTypeOK
<1>10. ASSUME NEW m \in Members, Commit(m) \/ CommitRefused(m) PROVE Good(q)'
  <2>1. UNCHANGED <<outcome, owner, fetched>>
    BY <1>10 DEF Commit, CommitRefused
  <2>2. offset'[q] = offset[q] \/ offset'[q] = fetched[q]
    BY <1>10 DEF Commit, CommitRefused, CommittedTo
  <2>3. owner[q] # Nil =>
          \A i : InHand(owner[q], q, i) => owner[q] # m /\ InHand(owner[q], q, i)'
    BY <1>1, <1>10, <2>1 DEF Commit, CommitRefused, ConsumerTypeOK, InHand
  <2> QED
    BY <1>1, <1>2, <2>1, <2>2, <2>3 DEF InHand
<1> QED
  BY <1>4, <1>5, <1>6, <1>7, <1>8, <1>9, <1>10, NextCases DEF consumerVars, Produce

(* The inductive invariant holds in every reachable state. *)
THEOREM IndInvHolds == ConsumerSpec => []IndInv
<1>1. ConsumerInit => IndInv
  BY LogAssumption
  DEF ConsumerInit, IndInv, ConsumerTypeOK, CommittedWasHandled, DeliveredWasHandled, Records
<1>2. IndInv /\ [ConsumerNext]_consumerVars => IndInv'
  BY TypeNext, CommittedNext, DeliveredNext DEF IndInv
<1> QED
  BY <1>1, <1>2, PTL DEF ConsumerSpec

(* The variables keep their types. *)
THEOREM TypeCorrect == ConsumerSpec => []ConsumerTypeOK
  BY IndInvHolds, PTL DEF IndInv

(* _process never commits past a message no handler has finished: delivery is
   at least once, whatever crashes and rebalances happen.                  *)
THEOREM AtLeastOnce == ConsumerSpec => []CommittedWasHandled
  BY IndInvHolds, PTL DEF IndInv

(* The committed offsets of the group never go back. *)
THEOREM CommitsAreMonotone == ConsumerSpec => CommitsMoveForward
<1>1. IndInv /\ [ConsumerNext]_consumerVars => [\A p \in Partitions : offset'[p] >= offset[p]]_consumerVars
  <2> SUFFICES ASSUME IndInv, [ConsumerNext]_consumerVars, NEW p \in Partitions
               PROVE  offset'[p] >= offset[p]
    OBVIOUS
  <2>1. offset[p] \in Int /\ fetched[p] \in Int
    BY DEF IndInv, ConsumerTypeOK
  <2>2. CASE offset' = offset
    BY <2>1, <2>2
  <2>3. ASSUME NEW m \in Members, Commit(m) PROVE offset'[p] >= offset[p]
    BY <2>1, <2>3, MembersAssumption DEF Commit, CommittedTo, IndInv, DeliveredWasHandled
  <2> QED
    BY <2>2, <2>3, NextCases
    DEF consumerVars, Produce, Join, Revoke, Deliver, Crash, ProcessReturns, ProcessRaises,
        CommitRefused
<1> QED
  BY <1>1, IndInvHolds, PTL DEF ConsumerSpec, CommitsMoveForward

=============================================================================
