--------------------------- MODULE MCKafkaConsumer ---------------------------
(* KafkaConsumer for TLC. *)
EXTENDS KafkaConsumer, TLC

=============================================================================
