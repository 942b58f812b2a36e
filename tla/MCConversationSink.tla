------------------------- MODULE MCConversationSink -------------------------
(* Finite instance of ConversationSink: see ConversationSink.cfg. *)
EXTENDS ConversationSink

Blank ==
  [outputSink |-> "stdout", outputContract |-> "normalized", ingestURL |-> "", accountToken |-> "",
   backendURL |-> "", agentToken |-> "", outputTopic |-> "topic", deadLetterFile |-> FALSE]

(* every way to fill in, or leave out, the HTTP sink's URLs and tokens *)
HttpLines ==
  {[Blank EXCEPT !.outputSink = "http", !.ingestURL = i, !.accountToken = a, !.backendURL = b, !.agentToken = t]
     : i \in {"", "bad", "base"}, a \in {"", "account"}, b \in Url, t \in {"", "agent"}}

Http == [Blank EXCEPT !.outputSink = "http", !.ingestURL = "base", !.accountToken = "account"]

Lines ==
  HttpLines
    \cup {[Http EXCEPT !.deadLetterFile = TRUE], [Http EXCEPT !.outputContract = "both"]}
    \cup {[Blank EXCEPT !.outputSink = "kafka", !.deadLetterFile = d, !.outputTopic = t]
            : d \in BOOLEAN, t \in {"", "topic"}}
    \cup {Blank, [Blank EXCEPT !.outputContract = "both"], [Blank EXCEPT !.outputSink = "other"]}

=============================================================================
