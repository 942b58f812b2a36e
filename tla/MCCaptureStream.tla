-------------------------- MODULE MCCaptureStream --------------------------
(* Finite instances of CaptureStream: see CaptureStreams.cfg. *)
EXTENDS CaptureStream

Plain(req, resp) == [req |-> req, resp |-> resp, eof |-> FALSE, lookalike |-> FALSE]
UntilClose(resp) == [Plain(0, resp) EXCEPT !.eof = TRUE]
Lookalike(resp) == [Plain(0, resp) EXCEPT !.lookalike = TRUE]

NoFaults == [f \in Fault |-> 0]
Once(F) == [f \in Fault |-> IF f \in F THEN 1 ELSE 0]

(* a plaintext HTTP/1 connection that the kernel knows and that is wanted *)
Http(conn, b) ==
  [conn |-> conn, h2 |-> FALSE, tls |-> FALSE, probed |-> FALSE, known |-> "both", proc |-> TRUE,
   targets |-> TRUE, wanted |-> TRUE, budget |-> b]

Single == <<Plain(0, 0)>>
Bodies == <<Plain(1, 1)>>
Two == <<Plain(0, 1), Plain(0, 0)>>
Bare == <<Plain(0, 0), Plain(0, 0)>>

MisleadingStreams == [Http(<<Lookalike(2)>>, NoFaults) EXCEPT !.h2 = TRUE]

Instances ==
  { Http(Bodies, Once({"move"})),
    Http(Two, Once({"cut"})),
    Http(Bare, Once({"ring"})),
    Http(Bare, Once({"move"})),
    Http(Bare, Once({"expire", "tick"})),
    Http(Single, Once({"expire", "tick", "stop"})),
    Http(<<Lookalike(1), Plain(0, 0)>>, NoFaults),
    Http(<<UntilClose(1)>>, Once({"expire", "tick", "move"})),
    Http(<<UntilClose(1)>>, Once({"stop", "move"})),
    [Http(Bare, Once({"ttl"})) EXCEPT !.known = "none", !.proc = FALSE],
    [Http(Bare, Once({"ttl"})) EXCEPT !.known = "remote", !.targets = FALSE],
    [Http(Two, Once({"ttl"})) EXCEPT !.wanted = FALSE],
    [Http(Bare, Once({"ttl"})) EXCEPT !.wanted = FALSE, !.known = "remote"],
    [Http(Bare, Once({"move"})) EXCEPT !.h2 = TRUE],
    [Http(Bare, Once({"ring"})) EXCEPT !.h2 = TRUE],
    [Http(<<Plain(1, 0), Plain(0, 0)>>, NoFaults) EXCEPT !.h2 = TRUE],
    [Http(<<Plain(0, 2), Plain(0, 0)>>, NoFaults) EXCEPT !.h2 = TRUE],
    MisleadingStreams,
    [Http(Bare, Once({"expire", "tick"})) EXCEPT !.h2 = TRUE],
    [Http(Bare, NoFaults) EXCEPT !.tls = TRUE, !.probed = TRUE],
    [Http(Bodies, NoFaults) EXCEPT !.tls = TRUE, !.probed = TRUE],
    [Http(Single, NoFaults) EXCEPT !.tls = TRUE, !.probed = TRUE, !.h2 = TRUE],
    [Http(Single, Once({"move"})) EXCEPT !.tls = TRUE, !.probed = TRUE],
    [Http(Bare, Once({"scan"})) EXCEPT !.tls = TRUE] }

=============================================================================
