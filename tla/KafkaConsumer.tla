---------------------------- MODULE KafkaConsumer ----------------------------
(***************************************************************************)
(* BaseKafkaConsumer (services/shared/kafka/consumer.py): the loop that    *)
(* every worker runs over a topic, one message at a time, with a manual    *)
(* commit after the handler.  The members of a consumer group share the    *)
(* partitions of the topic; the broker, the group protocol and the         *)
(* positions inside aiokafka are external.  Message i of a partition is    *)
(* the one at offset i - 1, so a committed offset of n covers 1..n.        *)
(***************************************************************************)
EXTENDS Integers

CONSTANTS
    Members,     \* the processes that run the consumer with one group_id
    Partitions,  \* the partitions of its topic
    MaxLog,      \* bound on the messages of a partition
    MaxMishaps,  \* bound on the crashes and rebalances
    Nil          \* no member, no message

ASSUME MembersAssumption == Nil \notin Members
ASSUME LogAssumption == MaxLog \in Nat \ {0} /\ MaxMishaps \in Nat

VARIABLES
    log,        \* the number of messages in each partition
    outcome,    \* what became of each message so far
    offset,     \* the committed offset of the group, per partition
    owner,      \* the member each partition is assigned to, or Nil
    fetched,    \* what the owner of a partition has been given of it
    state,      \* where each member is in _process
    message,    \* the message each member has in hand
    mishaps     \* the crashes and rebalances so far

consumerVars == <<log, outcome, offset, owner, fetched, state, message, mishaps>>

Records == Partitions \X (1..MaxLog)

ConsumerTypeOK ==
    /\ log \in [Partitions -> 0..MaxLog]
    /\ outcome \in [Records -> {"new", "failed", "handled"}]
    /\ offset \in [Partitions -> 0..MaxLog]
    /\ owner \in [Partitions -> Members \cup {Nil}]
    /\ fetched \in [Partitions -> 0..MaxLog]
    /\ state \in [Members -> {"polling", "handling", "committing"}]
    /\ message \in [Members -> Records \cup {Nil}]
    /\ mishaps \in 0..MaxMishaps
    /\ \A m \in Members : state[m] = "handling" => message[m] \in Records

ConsumerInit ==
    /\ log = [p \in Partitions |-> 0]
    /\ outcome = [x \in Records |-> "new"]
    /\ offset = [p \in Partitions |-> 0]
    /\ owner = [p \in Partitions |-> Nil]
    /\ fetched = [p \in Partitions |-> 0]
    /\ state = [m \in Members |-> "polling"]
    /\ message = [m \in Members |-> Nil]
    /\ mishaps = 0

-----------------------------------------------------------------------------
(* The broker and the group protocol. *)

Produce(p) ==
    /\ log[p] < MaxLog
    /\ log' = [log EXCEPT ![p] = @ + 1]
    /\ UNCHANGED <<outcome, offset, owner, fetched, state, message, mishaps>>

(* Mutants: read from the start again; auto_offset_reset="latest". *)
JoinAtStart(p) ==
    /\ owner[p] = Nil
    /\ \E m \in Members : owner' = [owner EXCEPT ![p] = m]
    /\ fetched' = [fetched EXCEPT ![p] = 0]
    /\ UNCHANGED <<log, outcome, offset, state, message, mishaps>>

JoinAtEnd(p) ==
    /\ owner[p] = Nil
    /\ \E m \in Members : owner' = [owner EXCEPT ![p] = m]
    /\ fetched' = [fetched EXCEPT ![p] = IF offset[p] = 0 THEN log[p] ELSE offset[p]]
    /\ UNCHANGED <<log, outcome, offset, state, message, mishaps>>

(* auto_offset_reset="earliest": a partition is read from the committed
   offset, which starts at 0.                                              *)
Join(p) ==
    /\ owner[p] = Nil
    /\ \E m \in Members : owner' = [owner EXCEPT ![p] = m]
    /\ fetched' = [fetched EXCEPT ![p] = offset[p]]
    /\ UNCHANGED <<log, outcome, offset, state, message, mishaps>>

(* A member that was too slow, or a change of the group: the partition moves
   on while its owner may still be in the handler of one of its messages.  *)
Revoke(p) ==
    /\ mishaps < MaxMishaps
    /\ owner[p] # Nil
    /\ owner' = [owner EXCEPT ![p] = Nil]
    /\ mishaps' = mishaps + 1
    /\ UNCHANGED <<log, outcome, offset, fetched, state, message>>

Crash(m) ==
    /\ mishaps < MaxMishaps
    /\ owner' = [p \in Partitions |-> IF owner[p] = m THEN Nil ELSE owner[p]]
    /\ state' = [state EXCEPT ![m] = "polling"]
    /\ message' = [message EXCEPT ![m] = Nil]
    /\ mishaps' = mishaps + 1
    /\ UNCHANGED <<log, outcome, offset, fetched>>

-----------------------------------------------------------------------------
(* Mutant: one message too many. *)
DeliverPastEnd(m, p) ==
    /\ state[m] = "polling"
    /\ owner[p] = m
    /\ fetched[p] <= log[p]
    /\ fetched' = [fetched EXCEPT ![p] = @ + 1]
    /\ message' = [message EXCEPT ![m] = <<p, fetched[p] + 1>>]
    /\ state' = [state EXCEPT ![m] = "handling"]
    /\ UNCHANGED <<log, outcome, offset, owner, mishaps>>

(* async for message in self._consumer: the next message of any partition
   the member has; its position moves past the message at once.            *)
Deliver(m, p) ==
    /\ state[m] = "polling"
    /\ owner[p] = m
    /\ fetched[p] < log[p]
    /\ fetched' = [fetched EXCEPT ![p] = @ + 1]
    /\ message' = [message EXCEPT ![m] = <<p, fetched[p] + 1>>]
    /\ state' = [state EXCEPT ![m] = "handling"]
    /\ UNCHANGED <<log, outcome, offset, owner, mishaps>>

ProcessReturns(m) ==
    /\ state[m] = "handling"
    /\ outcome' = [outcome EXCEPT ![message[m]] = "handled"]
    /\ state' = [state EXCEPT ![m] = "committing"]
    /\ UNCHANGED <<log, offset, owner, fetched, message, mishaps>>

(* The exception is logged and the loop goes on; nothing is committed. *)
ProcessRaises(m) ==
    /\ state[m] = "handling"
    /\ outcome' = [outcome EXCEPT ![message[m]] = IF @ = "handled" THEN @ ELSE "failed"]
    /\ state' = [state EXCEPT ![m] = "polling"]
    /\ message' = [message EXCEPT ![m] = Nil]
    /\ UNCHANGED <<log, offset, owner, fetched, mishaps>>

(* commit() without arguments commits the position of every partition that
   the member has now, not the offset of the message in hand.              *)
CommittedTo(m, p) == IF owner[p] = m THEN fetched[p] ELSE offset[p]

(* Mutant: the offset is committed when the message comes, as auto-commit would. *)
CommitOnDelivery(m) ==
    /\ state[m] = "handling"
    /\ offset' = [p \in Partitions |-> CommittedTo(m, p)]
    /\ UNCHANGED <<log, outcome, owner, fetched, state, message, mishaps>>

Commit(m) ==
    /\ state[m] = "committing"
    /\ offset' = [p \in Partitions |-> CommittedTo(m, p)]
    /\ state' = [state EXCEPT ![m] = "polling"]
    /\ message' = [message EXCEPT ![m] = Nil]
    /\ UNCHANGED <<log, outcome, owner, fetched, mishaps>>

(* A commit the broker refuses raises inside the same try. *)
CommitRefused(m) ==
    /\ mishaps < MaxMishaps
    /\ state[m] = "committing"
    /\ state' = [state EXCEPT ![m] = "polling"]
    /\ message' = [message EXCEPT ![m] = Nil]
    /\ mishaps' = mishaps + 1
    /\ UNCHANGED <<log, outcome, offset, owner, fetched>>

-----------------------------------------------------------------------------
Process(m) ==
    \/ \E p \in Partitions : Deliver(m, p)
    \/ ProcessReturns(m)
    \/ ProcessRaises(m)
    \/ Commit(m)
    \/ CommitRefused(m)

ConsumerNext ==
    \/ \E p \in Partitions : Produce(p) \/ Join(p) \/ Revoke(p)
    \/ \E m \in Members : Crash(m) \/ Process(m)

ConsumerSpec == ConsumerInit /\ [][ConsumerNext]_consumerVars

(* Every partition gets an owner, and a member goes on polling; no handler
   has to return and nothing has to fail.                                  *)
ConsumerFairness ==
    /\ \A p \in Partitions : WF_consumerVars(Join(p))
    /\ \A m \in Members :
         /\ WF_consumerVars(ProcessReturns(m) \/ ProcessRaises(m))
         /\ WF_consumerVars(Commit(m))
         /\ \A p \in Partitions : SF_consumerVars(Deliver(m, p))

ConsumerFairSpec == ConsumerSpec /\ ConsumerFairness

-----------------------------------------------------------------------------
(* "Offsets are only committed after the handler returns": no message is
   passed by a committed offset before a handler has run on it to its end,
   in any interleaving of crashes, rebalances and the other partitions that
   one commit() covers.                                                    *)
CommittedWasHandled ==
    \A p \in Partitions : \A i \in 1..offset[p] : outcome[<<p, i>>] # "new"

(* A committed offset never goes back. *)
CommitsMoveForward ==
    [][\A p \in Partitions : offset'[p] >= offset[p]]_consumerVars

(* Every message that is published reaches a handler. *)
EveryMessageHandled ==
    \A p \in Partitions : \A i \in 1..MaxLog :
       log[p] >= i ~> outcome[<<p, i>>] # "new"

(* "the message is skipped without committing ... retrying forever on every
   restart": a message whose handler only ever raised stays above the
   committed offset.  The next commit() passes it.                         *)
FailedIsNotCommitted ==
    \A p \in Partitions : \A i \in 1..offset[p] : outcome[<<p, i>>] # "failed"

=============================================================================
