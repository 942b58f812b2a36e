-------------------------- MODULE MCStreamSessions --------------------------
(* Finite instances of StreamSessions: see the .cfg files named Worker*. *)
EXTENDS StreamSessions

Plain(req, resp) == [req |-> req, resp |-> resp, eof |-> FALSE, lookalike |-> FALSE, info |-> FALSE]
UntilClose(resp) == [req |-> 0, resp |-> resp, eof |-> TRUE, lookalike |-> FALSE, info |-> FALSE]
Continued(req) == [Plain(req, 0) EXCEPT !.info = TRUE]
MethodInBody(resp) == [req |-> 0, resp |-> resp, eof |-> FALSE, lookalike |-> TRUE, info |-> FALSE]

(* keep-alive, bodies on both sides, three requests to pipeline, a response that *)
(* ends with the connection, a request that waits for 100 Continue before it     *)
(* sends its body                                                                *)
Connections == {<<Plain(1, 1), Plain(0, 1)>>, <<Plain(0, 0), Plain(0, 0), Plain(0, 0)>>,
                <<Plain(0, 0), UntilClose(2)>>, <<Continued(1), Plain(0, 1)>>}
ShortConnections == {<<Plain(0, 0), Plain(0, 0)>>, <<UntilClose(1)>>}
LongResponses == {<<Plain(0, 2)>>, <<MethodInBody(2)>>}

Faults(lose, dup, swap, cut) == [lose |-> lose, dup |-> dup, swap |-> swap, cut |-> cut]

NoFaults   == Faults(0, 0, 0, 0)
EachOnce   == Faults(1, 1, 1, 1)
OneLost    == Faults(1, 0, 0, 0)

=============================================================================
