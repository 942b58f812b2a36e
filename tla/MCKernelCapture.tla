-------------------------- MODULE MCKernelCapture --------------------------
(* Finite instances of KernelCapture: see the .cfg files named Kernel*. *)
EXTENDS KernelCapture

Buf(n)    == [iov |-> FALSE, segs |-> <<n>>]
Iov(segs) == [iov |-> TRUE, segs |-> segs]

Config(read, write, targets, max) ==
  [read |-> read, write |-> write, targets |-> targets, max_payload |-> max]

Everything == {Config(TRUE, TRUE, FALSE, 0)}

(* A write longer than a chunk. *)
LongWrite ==
  [threads |-> {"t1"}, fds |-> {3}, ports |-> {5000}, ignored_ports |-> {}, target_ports |-> {},
   calls |-> {"bind", "connect", "accept", "read", "write", "close"}, buffers |-> {Buf(3)},
   overlap |-> "none", ssl |-> "off", full |-> FALSE, configs |-> Everything, ringCap |-> 2,
   maxSyscalls |-> 4, maxConns |-> 2]

(* One thread, two TLS connections, descriptors reused. *)
Serial ==
  [LongWrite EXCEPT !.fds = {3, 5}, !.calls = {"connect", "read", "close"}, !.buffers = {Buf(1)},
     !.ssl = "direct", !.ringCap = 4, !.maxSyscalls = 5]

(* A descriptor is closed and reused while a thread is blocked reading it. *)
Reuse ==
  [LongWrite EXCEPT !.threads = {"t1", "t2"}, !.ports = {5000, 443},
     !.calls = {"bind", "connect", "accept", "read", "close"}, !.buffers = {Buf(1)},
     !.overlap = "close", !.ringCap = 6]

(* Reads that only peek, and a full map of generations. *)
Peeks ==
  [LongWrite EXCEPT !.calls = {"connect", "read", "peek", "close"}, !.buffers = {Buf(1), Iov(<<1, 1>>)},
     !.full = TRUE, !.maxSyscalls = 4]

(* Filters, a full ring, and buffers at the limits: with chunks of 2 bytes, *)
(* at most 2 of them, and 2 segments: empty; more than can be captured; a   *)
(* segment longer than a chunk behind an empty one; more segments than the  *)
(* probes look at.                                                          *)
Edges ==
  [LongWrite EXCEPT !.ports = {5000, 443}, !.ignored_ports = {443}, !.target_ports = {5000},
     !.calls = {"bind", "connect", "accept", "read", "write"},
     !.buffers = {Buf(0), Buf(5), Iov(<<0, 3>>), Iov(<<1, 1, 1>>)},
     !.configs = {Config(FALSE, TRUE, FALSE, 3), Config(TRUE, FALSE, TRUE, 20)},
     !.ringCap = 1, !.maxSyscalls = 3, !.maxConns = 1]

Applications == {Serial, Reuse, Peeks, Edges}
OneLongWrite == {LongWrite}

=============================================================================
