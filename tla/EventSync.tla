------------------------------ MODULE EventSync ------------------------------
(* One event in two databases.  EventService keeps the events row, commits a
   change to it and then publishes it on the lifecycle topic; the event-sync
   consumer of the Inventory service applies the messages of the event, which
   share a key and hence a partition, to its inventory row.

   Events do not interact, but for the partition they share: a commit() made
   for another event covers this one's messages too (OtherCommit).           *)
EXTENDS Naturals, Sequences, FiniteSets

CONSTANTS
    Requests,   \* create, update and delete requests
    MaxSeats,   \* total_seats is at most this
    MaxFaults,  \* requests, handlers and commits that fail
    None

ASSUME RequestsAssumption == IsFiniteSet(Requests)
ASSUME BoundsAssumption == MaxSeats \in Nat \ {0} /\ MaxFaults \in Nat
ASSUME NoneAssumption == None \notin 1..MaxSeats /\ None \notin {"create", "update", "delete"}

VARIABLES
    row,        \* events.total_seats, or None
    op,         \* what each request does, once it is under way
    pc,         \* where each request is
    loaded,     \* total_seats as each request's session read it
    want,       \* total_seats in each request's body, or None
    topic,      \* the event's messages on EVENTS_LIFECYCLE
    position,   \* how many of them the consumer was given
    committed,  \* how many of them its group has committed
    zombie,     \* the message an owner that lost the partition still handles
    capacity,   \* event_inventory.total_capacity, or None
    faults,
    stored,     \* history: every total_seats ever committed
    clean       \* history: no two changes overlapped and none was dropped

service == <<row, op, pc, loaded, want, stored>>
consumer == <<position, committed, zombie, capacity>>
vars == <<service, topic, consumer, faults, clean>>

(* total_seats: int = Field(gt=0) *)
Seats == 1..MaxSeats

Messages == [type : {"created", "updated"}, seats : Seats]

TypeOK ==
    /\ row \in Seats \cup {None}
    /\ op \in [Requests -> {"create", "update", "delete", None}]
    /\ pc \in [Requests -> {"idle", "loaded", "stored", "done"}]
    /\ loaded \in [Requests -> Seats \cup {None}]
    /\ want \in [Requests -> Seats \cup {None}]
    /\ topic \in Seq(Messages)
    /\ position \in 0..Len(topic)
    /\ committed \in 0..position
    /\ zombie \in 0..Len(topic)
    /\ capacity \in Seats \cup {None}
    /\ faults \in 0..MaxFaults
    /\ stored \subseteq Seats
    /\ clean \in BOOLEAN

Init ==
    /\ row = None
    /\ op = [r \in Requests |-> None]
    /\ pc = [r \in Requests |-> "idle"]
    /\ loaded = [r \in Requests |-> None]
    /\ want = [r \in Requests |-> None]
    /\ topic = <<>>
    /\ position = 0
    /\ committed = 0
    /\ zombie = 0
    /\ capacity = None
    /\ faults = 0
    /\ stored = {}
    /\ clean = TRUE

-----------------------------------------------------------------------------
(* EventService.  A request for an event that is not there, or by somebody
   else than its organizer or an admin, ends without a trace.               *)

(* A request that has or may get a change of total_seats to announce. *)
Announcing(r) == op[r] \in {"create", "update"} /\ pc[r] \in {"loaded", "stored"}

(* The id is new, so one request makes the event. *)
CreateStore(r) ==
    /\ pc[r] = "idle"
    /\ \A s \in Requests : op[s] # "create"
    /\ \E n \in Seats :
         /\ row' = n
         /\ stored' = stored \cup {n}
         /\ want' = [want EXCEPT ![r] = n]
    /\ op' = [op EXCEPT ![r] = "create"]
    /\ pc' = [pc EXCEPT ![r] = "stored"]
    /\ UNCHANGED <<loaded, topic, consumer, faults, clean>>

UpdateLoad(r) ==
    /\ pc[r] = "idle"
    /\ row # None
    /\ loaded' = [loaded EXCEPT ![r] = row]
    /\ \E n \in Seats \cup {None} : want' = [want EXCEPT ![r] = n]
    /\ op' = [op EXCEPT ![r] = "update"]
    /\ pc' = [pc EXCEPT ![r] = "loaded"]
    /\ clean' = (clean /\ \A s \in Requests : ~Announcing(s))
    /\ UNCHANGED <<row, stored, topic, consumer, faults>>

(* Mutant: only more seats are worth a message. *)
SeatsGrown(r) == want[r] # None /\ want[r] > loaded[r]

(* Mutant: an absent field counts as a change. *)
SeatsChangedUnset(r) == want[r] # loaded[r]

(* seats_changed, against the value that was read, not the value in the row. *)
SeatsChanged(r) == want[r] # None /\ want[r] # loaded[r]

(* setattr marks a column for the UPDATE if it changes what was read. *)
Dirty(r) == want[r] # None /\ want[r] # loaded[r]

(* Mutant: an UPDATE that meets no row is taken for done. *)
UpdateStoreUnchecked(r) ==
    /\ op[r] = "update" /\ pc[r] = "loaded"
    /\ IF row # None /\ Dirty(r)
         THEN row' = want[r] /\ stored' = stored \cup {want[r]}
         ELSE UNCHANGED <<row, stored>>
    /\ pc' = [pc EXCEPT ![r] = IF SeatsChanged(r) THEN "stored" ELSE "done"]
    /\ UNCHANGED <<op, loaded, want, topic, consumer, faults, clean>>

(* The commit.  The events table has no version: the last one wins.  An
   UPDATE that meets no row any more raises, and the request is over.       *)
UpdateStore(r) ==
    /\ op[r] = "update" /\ pc[r] = "loaded"
    /\ IF row # None /\ Dirty(r)
         THEN row' = want[r] /\ stored' = stored \cup {want[r]}
         ELSE UNCHANGED <<row, stored>>
    /\ pc' = [pc EXCEPT ![r] = IF row # None /\ SeatsChanged(r) THEN "stored" ELSE "done"]
    /\ UNCHANGED <<op, loaded, want, topic, consumer, faults, clean>>

(* EVENT_CREATED or EVENT_UPDATED with the request's own total_seats:
   expire_on_commit is off, so the session does not read the row again.     *)
Publish(r) ==
    /\ pc[r] = "stored"
    /\ topic' = Append(topic, [type |-> IF op[r] = "create" THEN "created" ELSE "updated",
                               seats |-> want[r]])
    /\ pc' = [pc EXCEPT ![r] = "done"]
    /\ UNCHANGED <<row, op, loaded, want, stored, consumer, faults, clean>>

DeleteLoad(r) ==
    /\ pc[r] = "idle"
    /\ row # None
    /\ op' = [op EXCEPT ![r] = "delete"]
    /\ pc' = [pc EXCEPT ![r] = "loaded"]
    /\ UNCHANGED <<row, loaded, want, stored, topic, consumer, faults, clean>>

(* Orders refer to the event, and then the DELETE fails.  No message tells
   the Inventory service of a deletion.                                     *)
DeleteStore(r) ==
    /\ op[r] = "delete" /\ pc[r] = "loaded"
    /\ row' \in {row, None}
    /\ pc' = [pc EXCEPT ![r] = "done"]
    /\ UNCHANGED <<op, loaded, want, stored, topic, consumer, faults, clean>>

(* The request dies, before its commit or between commit and publish, or the
   publish raises.                                                          *)
RequestFails(r) ==
    /\ faults < MaxFaults
    /\ pc[r] \in {"loaded", "stored"}
    /\ pc' = [pc EXCEPT ![r] = "done"]
    /\ clean' = (clean /\ pc[r] # "stored")
    /\ faults' = faults + 1
    /\ UNCHANGED <<row, op, loaded, want, stored, topic, consumer>>

-----------------------------------------------------------------------------
(* run_event_sync_consumer *)

(* adjust_capacity of an event without inventory raises NotFoundError. *)
Raises(m) == m.type = "updated" /\ capacity = None

(* Mutant: EVENT_UPDATED falls through to the unknown types. *)
AppliedCreatedOnly(m) == IF capacity = None /\ m.type = "created" THEN m.seats ELSE capacity

(* _handle_message: initialize_inventory keeps what it finds, adjust_capacity
   replaces it.  Each is one transaction (module Inventory).                *)
Applied(m) ==
    IF capacity = None
      THEN IF m.type = "created" THEN m.seats ELSE None
      ELSE IF m.type = "updated" THEN m.seats ELSE capacity

(* A handler that returns is followed by a commit; one that raises is not,
   and the loop goes on with the next message.                              *)
Handle ==
    /\ position < Len(topic)
    /\ LET m == topic[position + 1]
       IN  /\ capacity' = Applied(m)
           /\ committed' = IF Raises(m) THEN committed ELSE position + 1
    /\ position' = position + 1
    /\ UNCHANGED <<service, topic, zombie, faults, clean>>

(* The transaction commits, but the offset does not. *)
HandleUncommitted ==
    /\ faults < MaxFaults
    /\ position < Len(topic)
    /\ capacity' = Applied(topic[position + 1])
    /\ position' = position + 1
    /\ faults' = faults + 1
    /\ UNCHANGED <<service, topic, committed, zombie, clean>>

(* No turn at the event's lock, or a reservation got in between: the handler
   raises, and the message is passed over.                                  *)
HandlerRaises ==
    /\ faults < MaxFaults
    /\ position < Len(topic)
    /\ position' = position + 1
    /\ faults' = faults + 1
    /\ clean' = FALSE
    /\ UNCHANGED <<service, topic, committed, zombie, capacity>>

(* commit() after a message of another event in the partition. *)
OtherCommit ==
    /\ committed' = position
    /\ UNCHANGED <<service, topic, position, zombie, capacity, faults, clean>>

(* The consumer dies and its successor starts at the committed offset. *)
Restart ==
    /\ faults < MaxFaults
    /\ position' = committed
    /\ faults' = faults + 1
    /\ UNCHANGED <<service, topic, committed, zombie, capacity, clean>>

(* The partition goes to another member while a handler is at work. *)
Rebalance ==
    /\ faults < MaxFaults
    /\ zombie = 0
    /\ position < Len(topic)
    /\ zombie' = position + 1
    /\ position' = committed
    /\ faults' = faults + 1
    /\ UNCHANGED <<service, topic, committed, capacity, clean>>

(* The former owner's handler ends; its commit no longer counts. *)
ZombieHandles ==
    /\ zombie # 0
    /\ capacity' = Applied(topic[zombie])
    /\ zombie' = 0
    /\ clean' = FALSE
    /\ UNCHANGED <<service, topic, position, committed, faults>>

-----------------------------------------------------------------------------
Request(r) ==
    \/ CreateStore(r) \/ UpdateLoad(r) \/ UpdateStore(r) \/ Publish(r)
    \/ DeleteLoad(r) \/ DeleteStore(r) \/ RequestFails(r)

Consumer ==
    \/ Handle \/ HandleUncommitted \/ HandlerRaises \/ OtherCommit
    \/ Restart \/ Rebalance \/ ZombieHandles

Next == Consumer \/ \E r \in Requests : Request(r)

Spec == Init /\ [][Next]_vars

(* A request under way goes on, and the topic is polled for ever; nobody has
   to make, change or delete an event, and nothing has to fail.             *)
Fairness ==
    /\ \A r \in Requests : WF_vars(UpdateStore(r) \/ Publish(r) \/ DeleteStore(r))
    /\ WF_vars(Handle)

FairSpec == Spec /\ Fairness

-----------------------------------------------------------------------------
(* The Inventory service never offers a capacity that the API did not commit:
   EventService publishes after its commit, and only what it committed.  In
   every interleaving of updates, deletes, failures and redeliveries.       *)
CapacityWasStored == capacity # None => capacity \in stored

(* All requests are over and all messages were given to the consumer. *)
Quiet == position = Len(topic) /\ \A r \in Requests : pc[r] \in {"idle", "done"}

InSync == row # None => capacity = row

(* Changes that do not overlap, all announced and none passed over, arrive:
   whenever all is quiet the two services agree, however often messages were
   delivered again, and whatever else a delete or a request that dies before
   its commit did meanwhile.                                                *)
SyncedWhenQuiet == Quiet /\ clean => InSync

(* And all does become quiet. *)
InSyncAtLast == <>[](clean => InSync)

(* inventory.proto: the worker consumes the two messages "to stay in sync with
   events owned by the API service".  Nothing is said of requests that overlap:
   two updates, or a create and an update, may publish in the other order than
   they committed.                                                          *)
StaysInSync == Quiet => InSync

=============================================================================
