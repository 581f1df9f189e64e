--------------------------- MODULE EventSyncProofs ---------------------------
(* Proofs about EventSync, for any number of requests, seats and faults. *)
EXTENDS EventSync, TLAPS

(* A request's program counter, its operation and its value belong together,
   and the event is made once, before anything else happens to it.          *)
RequestOK ==
    /\ \A r \in Requests :
         /\ pc[r] = "idle" => op[r] = None
         /\ pc[r] = "stored" => op[r] \in {"create", "update"} /\ want[r] \in stored
    /\ \A r, s \in Requests : op[r] = "create" /\ op[s] = "create" => r = s
    /\ (\A r \in Requests : op[r] # "create") =>
         row = None /\ topic = <<>> /\ \A r \in Requests : pc[r] = "idle"

(* What was announced and what was applied was committed before. *)
AnnouncedWasStored ==
    /\ \A i \in 1..Len(topic) : topic[i].seats \in stored
    /\ CapacityWasStored

(* While changes are kept apart, one request at most has something to
   announce, its value is the row's, and otherwise the last message has it. *)
TopicFollowsRow ==
    /\ \A r, s \in Requests : Announcing(r) /\ Announcing(s) => r = s
    /\ \A r \in Requests : pc[r] = "stored" =>
         /\ row # None => want[r] = row
         /\ op[r] = "create" <=> topic = <<>>
    /\ (\A r \in Requests : pc[r] # "stored") /\ row # None =>
         topic # <<>> /\ topic[Len(topic)].seats = row
    /\ \A i \in 1..Len(topic) : topic[i].type = "created" <=> i = 1

(* While no message is passed over, the consumer's capacity is that of the
   last message once it was given all of them, also when it was given some
   of them again.                                                           *)
CapacityFollowsTopic ==
    /\ topic = <<>> => capacity = None
    /\ position # 0 => capacity # None
    /\ Len(topic) = 1 /\ capacity # None => capacity = topic[1].seats
    /\ position = Len(topic) /\ topic # <<>> => capacity = topic[Len(topic)].seats

IndInv ==
    /\ TypeOK
    /\ RequestOK
    /\ AnnouncedWasStored
    /\ clean => TopicFollowsRow /\ CapacityFollowsTopic

-----------------------------------------------------------------------------
(* None is no number of seats. *)
LEMMA NoneIsNoSeats == None \notin Seats
  BY NoneAssumption DEF Seats

(* A message at the end of the topic leaves the others where they are. *)
LEMMA AppendFacts ==
  ASSUME NEW S, NEW t \in Seq(S), NEW m \in S
  PROVE  /\ Append(t, m) \in Seq(S)
         /\ Append(t, m) # <<>>
         /\ Len(Append(t, m)) = Len(t) + 1
         /\ Append(t, m)[Len(t) + 1] = m
         /\ \A i \in 1..Len(t) : Append(t, m)[i] = t[i]
  OBVIOUS

(* A topic with no message is the empty one. *)
LEMMA LengthFacts ==
  ASSUME NEW S, NEW t \in Seq(S)
  PROVE  /\ Len(t) \in Nat
         /\ t = <<>> <=> Len(t) = 0
         /\ \A i \in 1..Len(t) : t[i] \in S
  OBVIOUS

LEMMA InitInd == Init => IndInv
<1> SUFFICES ASSUME Init PROVE IndInv
  OBVIOUS
<1>1. TypeOK
  BY BoundsAssumption DEF Init, TypeOK
<1>2. RequestOK
  BY NoneAssumption DEF Init, RequestOK
<1>3. AnnouncedWasStored
  BY DEF Init, AnnouncedWasStored, CapacityWasStored
<1>4. TopicFollowsRow /\ CapacityFollowsTopic
  BY NoneAssumption DEF Init, TopicFollowsRow, CapacityFollowsTopic, Announcing
<1> QED
  BY <1>1, <1>2, <1>3, <1>4 DEF IndInv

(* Steps of requests that leave the topic and the consumer alone. *)
LEMMA QuietRequestInd ==
  ASSUME IndInv, NEW r \in Requests,
         \/ CreateStore(r) \/ UpdateLoad(r) \/ UpdateStore(r)
         \/ DeleteLoad(r) \/ DeleteStore(r) \/ RequestFails(r)
  PROVE  IndInv'
<1>0. TypeOK /\ RequestOK /\ AnnouncedWasStored /\ None \notin Seats
  BY NoneIsNoSeats DEF IndInv
<1>1. CASE CreateStore(r)
  <2>1. TypeOK'
    BY <1>0, <1>1 DEF CreateStore, consumer, TypeOK
  <2>2. RequestOK'
    BY <1>0, <1>1 DEF CreateStore, consumer, TypeOK, RequestOK
  <2>3. AnnouncedWasStored'
    BY <1>0, <1>1 DEF CreateStore, consumer, AnnouncedWasStored, CapacityWasStored
  <2>4. ASSUME clean' PROVE TopicFollowsRow'
    BY <1>0, <1>1, <2>4, NoneAssumption
       DEF CreateStore, consumer, TypeOK, RequestOK, IndInv, TopicFollowsRow, Announcing
  <2>5. ASSUME clean' PROVE CapacityFollowsTopic'
    BY <1>0, <1>1, <2>5 DEF CreateStore, consumer, IndInv, CapacityFollowsTopic
  <2> QED
    BY <2>1, <2>2, <2>3, <2>4, <2>5 DEF IndInv
<1>2. CASE UpdateLoad(r)
  <2>1. TypeOK'
    BY <1>0, <1>2 DEF UpdateLoad, consumer, TypeOK
  <2>2. RequestOK'
    BY <1>0, <1>2, NoneAssumption DEF UpdateLoad, consumer, TypeOK, RequestOK
  <2>3. AnnouncedWasStored'
    BY <1>0, <1>2 DEF UpdateLoad, consumer, AnnouncedWasStored, CapacityWasStored
  <2>4. ASSUME clean' PROVE TopicFollowsRow'
    <3>1. clean /\ TopicFollowsRow /\ \A s \in Requests : ~Announcing(s)
      BY <1>2, <2>4 DEF UpdateLoad, IndInv
    <3>2. /\ UNCHANGED <<row, topic>>
          /\ \A s \in Requests : s # r => op'[s] = op[s] /\ pc'[s] = pc[s]
          /\ pc'[r] = "loaded" /\ pc[r] = "idle"
      BY <1>0, <1>2 DEF UpdateLoad, TypeOK
    <3>3. \A s \in Requests : pc[s] # "stored" /\ pc'[s] # "stored" /\ (s # r => ~Announcing(s)')
      BY <1>0, <3>1, <3>2 DEF Announcing, RequestOK
    <3> QED
      BY <3>1, <3>2, <3>3 DEF TopicFollowsRow
  <2>5. ASSUME clean' PROVE CapacityFollowsTopic'
    BY <1>0, <1>2, <2>5 DEF UpdateLoad, consumer, IndInv, CapacityFollowsTopic
  <2> QED
    BY <2>1, <2>2, <2>3, <2>4, <2>5 DEF IndInv
<1>3. CASE UpdateStore(r)
  <2>1. TypeOK'
    BY <1>0, <1>3 DEF UpdateStore, SeatsChanged, Dirty, consumer, TypeOK
  <2>2. RequestOK'
    BY <1>0, <1>3 DEF UpdateStore, SeatsChanged, Dirty, consumer, TypeOK, RequestOK
  <2>3. AnnouncedWasStored'
    BY <1>0, <1>3 DEF UpdateStore, consumer, AnnouncedWasStored, CapacityWasStored
  <2>4. ASSUME clean' PROVE TopicFollowsRow'
    BY <1>0, <1>3, <2>4
       DEF UpdateStore, SeatsChanged, Dirty, consumer, TypeOK, RequestOK, IndInv,
           TopicFollowsRow, Announcing
  <2>5. ASSUME clean' PROVE CapacityFollowsTopic'
    BY <1>0, <1>3, <2>5 DEF UpdateStore, consumer, IndInv, CapacityFollowsTopic
  <2> QED
    BY <2>1, <2>2, <2>3, <2>4, <2>5 DEF IndInv
<1>4. CASE DeleteLoad(r)
  <2>1. TypeOK'
    BY <1>0, <1>4 DEF DeleteLoad, consumer, TypeOK
  <2>2. RequestOK'
    BY <1>0, <1>4, NoneAssumption DEF DeleteLoad, consumer, TypeOK, RequestOK
  <2>3. AnnouncedWasStored'
    BY <1>0, <1>4 DEF DeleteLoad, consumer, AnnouncedWasStored, CapacityWasStored
  <2>4. ASSUME clean' PROVE TopicFollowsRow'
    BY <1>0, <1>4, <2>4
       DEF DeleteLoad, consumer, TypeOK, RequestOK, IndInv, TopicFollowsRow, Announcing
  <2>5. ASSUME clean' PROVE CapacityFollowsTopic'
    BY <1>0, <1>4, <2>5 DEF DeleteLoad, consumer, IndInv, CapacityFollowsTopic
  <2> QED
    BY <2>1, <2>2, <2>3, <2>4, <2>5 DEF IndInv
<1>5. CASE DeleteStore(r)
  <2>1. TypeOK'
    BY <1>0, <1>5 DEF DeleteStore, consumer, TypeOK
  <2>2. RequestOK'
    BY <1>0, <1>5 DEF DeleteStore, consumer, TypeOK, RequestOK
  <2>3. AnnouncedWasStored'
    BY <1>0, <1>5 DEF DeleteStore, consumer, AnnouncedWasStored, CapacityWasStored
  <2>4. ASSUME clean' PROVE TopicFollowsRow'
    BY <1>0, <1>5, <2>4
       DEF DeleteStore, consumer, TypeOK, RequestOK, IndInv, TopicFollowsRow, Announcing
  <2>5. ASSUME clean' PROVE CapacityFollowsTopic'
    BY <1>0, <1>5, <2>5 DEF DeleteStore, consumer, IndInv, CapacityFollowsTopic
  <2> QED
    BY <2>1, <2>2, <2>3, <2>4, <2>5 DEF IndInv
<1>6. CASE RequestFails(r)
  <2>1. TypeOK'
    BY <1>0, <1>6, BoundsAssumption DEF RequestFails, consumer, TypeOK
  <2>2. RequestOK'
    BY <1>0, <1>6 DEF RequestFails, consumer, TypeOK, RequestOK
  <2>3. AnnouncedWasStored'
    BY <1>0, <1>6 DEF RequestFails, consumer, AnnouncedWasStored, CapacityWasStored
  <2>4. ASSUME clean' PROVE TopicFollowsRow'
    <3>1. clean /\ pc[r] = "loaded" /\ TopicFollowsRow
      BY <1>6, <2>4 DEF RequestFails, IndInv
    <3>2. /\ UNCHANGED <<row, op, want, topic>>
          /\ \A s \in Requests : pc'[s] = IF s = r THEN "done" ELSE pc[s]
      BY <1>0, <1>6 DEF RequestFails, TypeOK
    <3>3. \A s \in Requests : (pc'[s] = "stored" <=> pc[s] = "stored")
                              /\ (Announcing(s)' => Announcing(s))
      BY <3>1, <3>2 DEF Announcing
    <3> QED
      BY <3>1, <3>2, <3>3 DEF TopicFollowsRow
  <2>5. ASSUME clean' PROVE CapacityFollowsTopic'
    BY <1>0, <1>6, <2>5 DEF RequestFails, consumer, IndInv, CapacityFollowsTopic
  <2> QED
    BY <2>1, <2>2, <2>3, <2>4, <2>5 DEF IndInv
<1> QED
  BY <1>1, <1>2, <1>3, <1>4, <1>5, <1>6

(* Publish: the message of the one request that had something to announce. *)
LEMMA PublishInd ==
  ASSUME IndInv, NEW r \in Requests, Publish(r)
  PROVE  IndInv'
<1> DEFINE m == [type |-> IF op[r] = "create" THEN "created" ELSE "updated",
                 seats |-> want[r]]
<1>0. TypeOK /\ RequestOK /\ AnnouncedWasStored /\ None \notin Seats
  BY NoneIsNoSeats DEF IndInv
<1>1. /\ pc[r] = "stored" /\ topic' = Append(topic, m)
      /\ pc' = [pc EXCEPT ![r] = "done"]
      /\ UNCHANGED <<row, op, loaded, want, stored, position, committed, zombie,
                     capacity, faults, clean>>
  BY DEF Publish, consumer
<1>2. m \in Messages /\ m.seats \in stored /\ m.seats = want[r]
      /\ m.type = IF op[r] = "create" THEN "created" ELSE "updated"
  BY <1>0, <1>1 DEF TypeOK, RequestOK, Messages
<1> HIDE DEF m
<1>3. topic \in Seq(Messages) /\ Len(topic) \in Nat /\ (topic = <<>> <=> Len(topic) = 0)
  BY <1>0, LengthFacts DEF TypeOK
<1>4. /\ topic' \in Seq(Messages)
      /\ topic' # <<>>
      /\ Len(topic') = Len(topic) + 1
      /\ topic'[Len(topic) + 1] = m
      /\ \A i \in 1..Len(topic) : topic'[i] = topic[i]
  BY <1>1, <1>2, <1>3, AppendFacts
<1>5. TypeOK'
  <2>1. pc' \in [Requests -> {"idle", "loaded", "stored", "done"}]
    BY <1>0, <1>1 DEF TypeOK
  <2>2. position' \in 0..Len(topic') /\ committed' \in 0..position' /\ zombie' \in 0..Len(topic')
    BY <1>0, <1>1, <1>3, <1>4 DEF TypeOK
  <2> QED
    BY <1>0, <1>1, <1>4, <2>1, <2>2 DEF TypeOK
<1>6. \A s \in Requests : pc'[s] = IF s = r THEN "done" ELSE pc[s]
  BY <1>0, <1>1 DEF TypeOK
<1>7. RequestOK'
  <2>1. \E s \in Requests : op[s] = "create"
    BY <1>0, <1>1 DEF RequestOK
  <2> QED
    BY <1>0, <1>1, <1>6, <2>1 DEF RequestOK
<1>8. AnnouncedWasStored'
  <2>1. \A i \in 1..Len(topic') : i \in 1..Len(topic) \/ i = Len(topic) + 1
    BY <1>3, <1>4
  <2> QED
    BY <1>0, <1>1, <1>2, <1>4, <2>1 DEF AnnouncedWasStored, CapacityWasStored
<1>9. ASSUME clean' PROVE TopicFollowsRow' /\ CapacityFollowsTopic'
  <2>1. clean /\ TopicFollowsRow /\ CapacityFollowsTopic
    BY <1>1, <1>9 DEF IndInv
  <2>2. Announcing(r) /\ \A s \in Requests : s # r => ~Announcing(s) /\ pc[s] # "stored"
    BY <1>0, <1>1, <2>1 DEF Announcing, RequestOK, TopicFollowsRow
  <2>3. \A s \in Requests : ~Announcing(s)' /\ pc'[s] # "stored"
    BY <1>1, <1>6, <2>2 DEF Announcing
  <2>4. row # None => m.seats = row
    BY <1>1, <1>2, <2>1 DEF TopicFollowsRow
  <2>5. m.type = "created" <=> topic = <<>>
    BY <1>0, <1>1, <1>2, <2>1 DEF TopicFollowsRow
  <2>6. \A i \in 1..Len(topic') : topic'[i].type = "created" <=> i = 1
    <3> TAKE i \in 1..Len(topic')
    <3>1. CASE i \in 1..Len(topic)
      BY <1>4, <2>1, <3>1 DEF TopicFollowsRow
    <3>2. CASE i = Len(topic) + 1
      BY <1>3, <1>4, <2>5, <3>2
    <3> QED
      BY <1>3, <1>4, <3>1, <3>2
  <2>7. TopicFollowsRow'
    BY <1>1, <1>4, <2>3, <2>4, <2>6 DEF TopicFollowsRow
  <2>8. CapacityFollowsTopic'
    <3>1. position' # Len(topic')
      BY <1>0, <1>1, <1>3, <1>4 DEF TypeOK
    <3>2. Len(topic') = 1 => capacity' = None
      BY <1>1, <1>3, <1>4, <2>1 DEF CapacityFollowsTopic
    <3> QED
      BY <1>1, <1>4, <2>1, <3>1, <3>2 DEF CapacityFollowsTopic
  <2> QED
    BY <2>7, <2>8
<1> QED
  BY <1>5, <1>7, <1>8, <1>9 DEF IndInv

(* The consumer changes nothing that the requests see. *)
LEMMA ConsumerInd ==
  ASSUME IndInv, Consumer
  PROVE  IndInv'
<1>0. TypeOK /\ RequestOK /\ AnnouncedWasStored /\ None \notin Seats
  BY NoneIsNoSeats DEF IndInv
<1>1. UNCHANGED <<row, op, pc, loaded, want, stored, topic>> /\ (clean' => clean)
  BY DEF Consumer, Handle, HandleUncommitted, HandlerRaises, OtherCommit, Restart,
         Rebalance, ZombieHandles, service
<1>2. RequestOK'
  BY <1>0, <1>1 DEF RequestOK
<1>3. clean' => TopicFollowsRow'
  BY <1>1 DEF IndInv, TopicFollowsRow, Announcing
<1>4. /\ Len(topic) \in Nat /\ (topic = <<>> <=> Len(topic) = 0)
      /\ \A i \in 1..Len(topic) : topic[i] \in Messages
  BY <1>0, LengthFacts DEF TypeOK
<1>5. \A i \in 1..Len(topic) :
         /\ Applied(topic[i]) \in Seats \cup {None}
         /\ Applied(topic[i]) # None => Applied(topic[i]) \in stored
  BY <1>0, <1>4 DEF Applied, TypeOK, Messages, AnnouncedWasStored, CapacityWasStored
<1>6. ASSUME position < Len(topic), clean
      PROVE  LET c == Applied(topic[position + 1])
             IN  /\ c # None
                 /\ Len(topic) = 1 => c = topic[1].seats
                 /\ position + 1 = Len(topic) => c = topic[Len(topic)].seats
  <2>1. TopicFollowsRow /\ CapacityFollowsTopic
    BY <1>6 DEF IndInv
  <2>2. position \in Nat /\ position + 1 \in 1..Len(topic)
    BY <1>0, <1>4, <1>6 DEF TypeOK
  <2>3. /\ topic[position + 1] \in Messages
        /\ topic[position + 1].type = "created" <=> position = 0
        /\ topic[position + 1].seats # None
    BY <1>0, <1>4, <2>1, <2>2 DEF TopicFollowsRow, Messages
  <2>4. CASE position = 0
    BY <1>0, <1>4, <2>1, <2>2, <2>3, <2>4 DEF Applied, CapacityFollowsTopic
  <2>5. CASE position # 0
    <3>1. capacity # None /\ topic[position + 1].type = "updated"
      BY <2>1, <2>3, <2>5 DEF CapacityFollowsTopic, Messages
    <3> QED
      BY <2>2, <2>3, <2>5, <3>1 DEF Applied
  <2> QED
    BY <2>4, <2>5
<1>7. ASSUME position < Len(topic), position' = position + 1,
             capacity' = Applied(topic[position + 1]), clean
      PROVE  CapacityFollowsTopic'
  <2>1. position \in Nat /\ topic # <<>>
    BY <1>0, <1>4, <1>7 DEF TypeOK
  <2> QED
    BY <1>1, <1>6, <1>7, <2>1 DEF CapacityFollowsTopic
<1>8. ASSUME UNCHANGED capacity, clean, position' = position \/ position' = committed
      PROVE  CapacityFollowsTopic'
  <2>1. CapacityFollowsTopic
    BY <1>8 DEF IndInv
  <2>2. /\ position' # 0 => position # 0
        /\ position' = Len(topic) => position = Len(topic)
    BY <1>0, <1>4, <1>8 DEF TypeOK
  <2> QED
    BY <1>1, <1>8, <2>1, <2>2 DEF CapacityFollowsTopic
<1>9. TypeOK' /\ AnnouncedWasStored' /\ (clean' => CapacityFollowsTopic')
  <2> SUFFICES /\ position' \in 0..Len(topic)
               /\ committed' \in 0..position'
               /\ zombie' \in 0..Len(topic)
               /\ capacity' \in Seats \cup {None}
               /\ capacity' # None => capacity' \in stored
               /\ faults' \in 0..MaxFaults
               /\ clean' \in BOOLEAN
               /\ clean' => CapacityFollowsTopic'
    BY <1>0, <1>1 DEF TypeOK, AnnouncedWasStored, CapacityWasStored
  <2>1. CASE Handle
    BY <1>0, <1>1, <1>4, <1>5, <1>7, <2>1 DEF Handle, TypeOK
  <2>2. CASE HandleUncommitted
    BY <1>0, <1>1, <1>4, <1>5, <1>7, <2>2, BoundsAssumption DEF HandleUncommitted, TypeOK
  <2>3. CASE HandlerRaises
    <3>1. clean' = FALSE
      BY <2>3 DEF HandlerRaises
    <3>2. /\ position' \in 0..Len(topic) /\ committed' \in 0..position'
          /\ faults' \in 0..MaxFaults
          /\ zombie' \in 0..Len(topic) /\ UNCHANGED capacity
      BY <1>0, <1>4, <2>3, BoundsAssumption DEF HandlerRaises, TypeOK
    <3>3. capacity \in Seats \cup {None} /\ (capacity # None => capacity \in stored)
      BY <1>0 DEF TypeOK, AnnouncedWasStored, CapacityWasStored
    <3> QED
      BY <3>1, <3>2, <3>3
  <2>4. CASE OtherCommit
    BY <1>0, <1>1, <1>4, <1>8, <2>4 DEF OtherCommit, TypeOK, AnnouncedWasStored, CapacityWasStored
  <2>5. CASE Restart
    BY <1>0, <1>1, <1>4, <1>8, <2>5, BoundsAssumption
       DEF Restart, TypeOK, AnnouncedWasStored, CapacityWasStored
  <2>6. CASE Rebalance
    BY <1>0, <1>1, <1>4, <1>8, <2>6, BoundsAssumption
       DEF Rebalance, TypeOK, AnnouncedWasStored, CapacityWasStored
  <2>7. CASE ZombieHandles
    <3>1. clean' = FALSE
      BY <2>7 DEF ZombieHandles
    <3>2. /\ UNCHANGED <<position, committed, faults>> /\ zombie' \in 0..Len(topic)
          /\ zombie \in 1..Len(topic) /\ capacity' = Applied(topic[zombie])
      BY <1>0, <1>4, <2>7 DEF ZombieHandles, TypeOK
    <3>3. position \in 0..Len(topic) /\ committed \in 0..position /\ faults \in 0..MaxFaults
      BY <1>0 DEF TypeOK
    <3> QED
      BY <1>5, <3>1, <3>2, <3>3
  <2> QED
    BY <2>1, <2>2, <2>3, <2>4, <2>5, <2>6, <2>7 DEF Consumer
<1> QED
  BY <1>2, <1>3, <1>9 DEF IndInv

-----------------------------------------------------------------------------
(* The invariant is inductive, with every failure the module has. *)
THEOREM IndInvHolds == Spec => []IndInv
<1>1. IndInv /\ [Next]_vars => IndInv'
  <2> SUFFICES ASSUME IndInv, [Next]_vars PROVE IndInv'
    OBVIOUS
  <2>1. CASE UNCHANGED vars
    <3>1. UNCHANGED <<row, op, pc, loaded, want, stored, topic, position, committed,
                      zombie, capacity, faults, clean>>
      BY <2>1 DEF vars, service, consumer
    <3> QED
      BY <3>1 DEF IndInv, TypeOK, RequestOK, AnnouncedWasStored, CapacityWasStored,
                  TopicFollowsRow, CapacityFollowsTopic, Announcing
  <2>2. CASE Consumer
    BY <2>2, ConsumerInd
  <2>3. ASSUME NEW r \in Requests, Request(r) PROVE IndInv'
    BY <2>3, QuietRequestInd, PublishInd DEF Request
  <2> QED
    BY <2>1, <2>2, <2>3 DEF Next
<1> QED
  BY InitInd, <1>1, PTL DEF Spec

(* Values stay in their types: in particular no EVENT_UPDATED is published for
   a request whose body has no total_seats.                                 *)
THEOREM TypeCorrect == Spec => []TypeOK
<1>1. IndInv => TypeOK
  BY DEF IndInv
<1> QED
  BY <1>1, IndInvHolds, PTL

(* The event-sync consumer never sets a capacity the API did not commit. *)
THEOREM NoCapacityOutOfThinAir == Spec => []CapacityWasStored
<1>1. IndInv => CapacityWasStored
  BY DEF IndInv, AnnouncedWasStored
<1> QED
  BY <1>1, IndInvHolds, PTL

(* Changes of total_seats that do not overlap, are announced and are not passed
   over leave EventService and the Inventory service in agreement, whatever
   the consumer had to do twice.                                            *)
THEOREM AgreementWhenQuiet == Spec => []SyncedWhenQuiet
<1>1. IndInv => SyncedWhenQuiet
  <2> SUFFICES ASSUME IndInv, Quiet, clean, row # None PROVE capacity = row
    BY DEF SyncedWhenQuiet, InSync
  <2>1. TopicFollowsRow /\ CapacityFollowsTopic
    BY DEF IndInv
  <2>2. position = Len(topic) /\ \A r \in Requests : pc[r] # "stored"
    BY DEF Quiet
  <2> QED
    BY <2>1, <2>2 DEF TopicFollowsRow, CapacityFollowsTopic
<1> QED
  BY <1>1, IndInvHolds, PTL

=============================================================================
