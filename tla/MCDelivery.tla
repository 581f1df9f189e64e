------------------------------ MODULE MCDelivery ------------------------------
(***************************************************************************)
(* The consumer loop, and the synchronisation of an event over its topic,  *)
(* side by side: a behaviour is one of either, the other resting in its    *)
(* initial state, so that the states explored are the sum, not the         *)
(* product.                                                                *)
(***************************************************************************)
EXTENDS KafkaConsumer, EventSync

VARIABLE part  \* the component that moves

DeliveryInit == ConsumerInit /\ Init /\ part \in {"consumer", "eventsync"}

DeliveryNext ==
    /\ \/ part = "consumer" /\ ConsumerNext /\ UNCHANGED vars
       \/ part = "eventsync" /\ Next /\ UNCHANGED consumerVars
    /\ UNCHANGED part

(* The component that moves is as fair as its own module says. *)
DeliverySpec ==
    /\ DeliveryInit
    /\ [][DeliveryNext]_<<part, consumerVars, vars>>
    /\ \/ part = "consumer" /\ ConsumerFairness
       \/ part = "eventsync" /\ Fairness

=============================================================================
