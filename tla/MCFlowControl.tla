--------------------------- MODULE MCFlowControl ---------------------------
(* A finite instance of FlowControl: see FlowControl.cfg. *)
EXTENDS FlowControl, TLC

(* goroutines are interchangeable *)
ShardSymmetry == Permutations(Shards)

(* a connection the process accepts, then one it opens *)
TwoConnections == <<[port |-> 5000, role |-> "inbound", both |-> TRUE],
                    [port |-> 443, role |-> "outbound", both |-> FALSE]>>

Options(targets, ignores, outbound) ==
  [targets |-> targets, ignores |-> ignores, inbound |-> TRUE, outbound |-> outbound]

(* everything; one target port and one ignored port *)
TwoConfigs == <<Options({}, {}, TRUE), Options({443}, {5000}, FALSE)>>

=============================================================================
