---------------------------- MODULE MCQueueBridge ----------------------------
(* Small instances of QueueBridge. *)
EXTENDS QueueBridge

=============================================================================
