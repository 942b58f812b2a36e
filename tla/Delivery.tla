------------------------------ MODULE Delivery ------------------------------
(***************************************************************************)
(* What a delivery path promises about the items it is given, whatever     *)
(* queues, files, retries and reports it is built from.  The agent's       *)
(* queuedProducer (QueuedProducer.tla) and the worker's conversation sink  *)
(* (ConversationSink.tla) are shown to implement it.                       *)
(*                                                                         *)
(* An item is new, held by the process, kept in a file, stored at the      *)
(* destination, or lost.  Stored and lost are final, and an item is lost   *)
(* only when the loss is declared.                                         *)
(***************************************************************************)
CONSTANTS Item

VARIABLES
  fate,     \* what has become of each item
  declared  \* the items whose loss has, or would have, a named cause

Fate == {"new", "held", "kept", "stored", "lost"}

Moves ==
  { <<"new", "held">>, <<"new", "stored">>, <<"held", "kept">>, <<"kept", "held">>,
    <<"held", "stored">>, <<"kept", "stored">> }

MayBecome(i, f) ==
  \/ f = fate[i]
  \/ <<fate[i], f>> \in Moves
  \/ f = "lost" /\ fate[i] # "stored" /\ i \in declared'

Init == fate = [i \in Item |-> "new"] /\ declared = {}

(* One step may move several items: a replay, a truncation, an exit. *)
Next ==
  /\ fate' \in [Item -> Fate] /\ \A i \in Item : MayBecome(i, fate'[i])
  /\ declared \subseteq declared'

Spec == Init /\ [][Next]_<<fate, declared>>

=============================================================================
