-------------------------- MODULE MCQueuedProducer --------------------------
(* Finite instances of QueuedProducer: see the .cfg files named Producer*. *)
EXTENDS QueuedProducer, TLC

(* Shards are interchangeable. *)
ShardSymmetry == Permutations(Shards)

=============================================================================
