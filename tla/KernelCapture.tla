--------------------------- MODULE KernelCapture ---------------------------
(***************************************************************************)
(* The probes of bpf/tracer.bpf.c for one traced process.  Threads make    *)
(* system calls; the probes at their entry and exit share the maps         *)
(* fd_generations, event_seqnos and socket_tuples and reserve their events *)
(* in the ring buffer of the CPU they run on.  Probes on different CPUs    *)
(* run at the same time, so every access to a shared map and every         *)
(* ring-buffer call is a step of its own.                                  *)
(*                                                                         *)
(* Bytes are abstracted to positions in the connection's stream.  What the *)
(* application and the kernel do to the sockets is external: conns says    *)
(* which connection a descriptor stands for.                               *)
(***************************************************************************)
EXTENDS Naturals, Sequences, FiniteSets, SequencesExt

CONSTANTS
  Cpus,               \* CPUs, each with its own ring buffer
  Listener,           \* the descriptor the process accepts on
  NoPort,             \* "not known"
  ListenPort,         \* the port the listener is bound to
  MAX_PAYLOAD_SIZE, MAX_PAYLOAD_CHUNKS, MAX_IOVEC_SEGMENTS,
  Workloads           \* the applications and configurations under study

(* An application: its threads and descriptors, the ports of its peers, the *)
(* calls it makes ("peek": reads with MSG_PEEK) and the buffers it passes;  *)
(* which calls on one descriptor may overlap; ssl: "off", "direct": every   *)
(* SSL_* call does a system call, "buffered"; full: other descriptors have  *)
(* filled fd_generations, whose entries are never deleted; the contents of  *)
(* the configuration maps; the events that fit in a ring buffer; and bounds *)
(* on the calls made and connections opened.                                *)
(* Descriptors 0 to 2 are left out: 0 stands for none.                      *)
IsWorkload(w) ==
  /\ w.threads # {} /\ Listener \notin w.fds /\ 0 \notin w.fds \cup {Listener}
  /\ NoPort \notin w.ports /\ w.ignored_ports \cup w.target_ports \subseteq w.ports
  /\ w.calls \subseteq {"bind", "connect", "accept", "read", "peek", "write", "close"}
  /\ w.full \in BOOLEAN /\ w.buffers \subseteq [iov : BOOLEAN, segs : Seq(Nat)]
  /\ w.overlap \in {"none", "close", "any"} /\ w.ssl \in {"off", "direct", "buffered"}
  /\ w.configs \subseteq [read : BOOLEAN, write : BOOLEAN, targets : BOOLEAN, max_payload : Nat]
  /\ w.ringCap \in Nat \ {0} /\ w.maxSyscalls \in Nat /\ w.maxConns \in Nat

ASSUME WorkloadsAssumption == Cpus # {} /\ \A w \in Workloads : IsWorkload(w)
ASSUME SizesAssumption ==
  MAX_PAYLOAD_SIZE \in Nat \ {0} /\ MAX_PAYLOAD_CHUNKS \in Nat \ {0} /\ MAX_IOVEC_SEGMENTS \in Nat \ {0}

VARIABLES
  app,             \* external: the workload, fixed
  cfg,             \* capture_config
  conns,           \* external: the connection each descriptor stands for
  opened,          \* external: the ports of every connection opened so far
  calls,           \* system calls made so far
  fd_generations,  \* 0: no entry
  event_seqnos,    \* 0: no entry, which next_seq treats alike
  socket_tuples,   \* <<fd, generation>> -> known ports
  thread_last_fd,  \* the descriptor each thread touched last
  th,              \* where each thread is
  rings,           \* the ring buffers
  got,             \* events in the order in which the agent reads them
  discarded,       \* history: sequence numbers of discarded events
  moved            \* history: finished transfers

appVars == <<conns, opened, calls>>
mapVars == <<fd_generations, event_seqnos, socket_tuples, thread_last_fd>>
outVars == <<rings, got, discarded, moved>>
vars == <<app, cfg, conns, opened, calls, fd_generations, event_seqnos, socket_tuples,
          thread_last_fd, th, rings, got, discarded, moved>>

Threads == app.threads
Fds == app.fds
Ports == app.ports
ignored_ports == app.ignored_ports
target_ports == app.target_ports
Calls == app.calls
Buffers == app.buffers
Overlap == app.overlap
SslMode == app.ssl
RingCap == app.ringCap
MaxSyscalls == app.maxSyscalls
MaxConns == app.maxConns

AllFds == Fds \cup {Listener}
NoFd == 0
NoConn == [id |-> 0, read |-> 0, write |-> 0]
NoTuple == [local |-> NoPort, remote |-> NoPort]

NoBuffer == [iov |-> FALSE, segs |-> <<>>]

(* A thread in user space.  op, sys, fd, dir, conn, buf: its system call;   *)
(* base: the stream position of its buffer; gen, cpu, plan, idx, seq:       *)
(* locals of the running probe; ctx: the generation saved in active_reads   *)
(* or active_accepts, 0 if there is no entry; lossy: a drop was counted;    *)
(* peek: MSG_PEEK; unread: the probe could not read the call's msghdr;      *)
(* ssl, sslDir: the SSL_* call it is in; touched: with a syscall inside.    *)
Idle ==
  [pc |-> "user", op |-> "none", sys |-> 0, fd |-> NoFd, dir |-> "write", conn |-> 0,
   buf |-> NoBuffer, base |-> 0, gen |-> 0, cpu |-> 0, plan |-> <<>>, idx |-> 0, seq |-> 0,
   ctx |-> 0, ret |-> 0, lossy |-> FALSE, peek |-> FALSE,
   unread |-> FALSE, ssl |-> NoFd, sslDir |-> "write", touched |-> FALSE]

Init ==
  /\ app \in Workloads /\ cfg \in app.configs
  /\ conns = [f \in Fds |-> NoConn] /\ opened = <<>> /\ calls = 0
  /\ fd_generations = [f \in AllFds |-> 0]
  /\ event_seqnos = [f \in AllFds |-> 0]
  /\ socket_tuples = [k \in {} |-> NoTuple]
  /\ thread_last_fd = [t \in Threads |-> NoFd]
  /\ th = [t \in Threads |-> Idle]
  /\ rings = [c \in Cpus |-> <<>>]
  /\ got = <<>> /\ discarded = {} /\ moved = {}

-----------------------------------------------------------------------------
(* How a buffer is cut into events *)

Smaller(a, b) == IF a < b THEN a ELSE b

(* where each segment of a vector ends, and so the next one begins *)
SegEnd(segs) ==
  LET end[i \in 0 .. Len(segs)] == IF i = 0 THEN 0 ELSE end[i - 1] + segs[i] IN end

Total(segs) == SegEnd(segs)[Len(segs)]

effective_max_payload_size ==
  LET all == MAX_PAYLOAD_SIZE * MAX_PAYLOAD_CHUNKS
  IN IF cfg.max_payload = 0 \/ cfg.max_payload > all THEN all ELSE cfg.max_payload

(* The mask with MAX_PAYLOAD_SIZE - 1 changes nothing after the clamp: the  *)
(* size is a power of two.                                                  *)
clamp_payload_len(len) == IF len >= MAX_PAYLOAD_SIZE THEN MAX_PAYLOAD_SIZE - 1 ELSE len

Chunk(off, want, original) ==
  [off |-> off, size |-> clamp_payload_len(want), original |-> original]

(* mutant: the offset does not advance *)
emit_data_event_SameOffset(count, original) ==
  LET capture == Smaller(count, effective_max_payload_size)
      chunks == Smaller((capture + MAX_PAYLOAD_SIZE - 1) \div MAX_PAYLOAD_SIZE, MAX_PAYLOAD_CHUNKS)
  IN [i \in 1 .. chunks |-> Chunk(0, Smaller(capture, MAX_PAYLOAD_SIZE), original)]

emit_data_event(count, original) ==
  LET capture == Smaller(count, effective_max_payload_size)
      chunks == Smaller((capture + MAX_PAYLOAD_SIZE - 1) \div MAX_PAYLOAD_SIZE, MAX_PAYLOAD_CHUNKS)
      Off(i) == (i - 1) * MAX_PAYLOAD_SIZE
  IN [i \in 1 .. chunks |-> Chunk(Off(i), Smaller(capture - Off(i), MAX_PAYLOAD_SIZE), original)]

(* how many of the total bytes segment i holds *)
seg_len(segs, total, i) ==
  LET off == SegEnd(segs)[i - 1] IN IF off >= total THEN 0 ELSE Smaller(segs[i], total - off)

SegChunk(segs, total, i) ==
  Chunk(SegEnd(segs)[i - 1], Smaller(seg_len(segs, total, i), MAX_PAYLOAD_SIZE), seg_len(segs, total, i))

(* emit_writev_events, emit_readv_events: one event for each segment that   *)
(* holds some of the total bytes                                            *)
iov_events(segs, total) ==
  LET capped == Smaller(Len(segs), MAX_IOVEC_SEGMENTS)
      sent[i \in 0 .. capped] ==
        IF i = 0 THEN <<>>
        ELSE IF seg_len(segs, total, i) = 0 THEN sent[i - 1]
        ELSE Append(sent[i - 1], SegChunk(segs, total, i))
  IN sent[capped]

DataEvents(buf, total) ==
  IF buf.iov THEN iov_events(buf.segs, total) ELSE emit_data_event(total, total)

ControlEvent == <<[off |-> 0, size |-> 0, original |-> 0]>>

-----------------------------------------------------------------------------
(* Tuples and filters *)

(* mutant: tuples are found by descriptor alone *)
KnownTuple_AnyGeneration(fd, gen) ==
  LET key == <<fd, fd_generations[fd]>>
  IN IF key \in DOMAIN socket_tuples THEN socket_tuples[key] ELSE NoTuple

KnownTuple(fd, gen) ==
  IF <<fd, gen>> \in DOMAIN socket_tuples THEN socket_tuples[<<fd, gen>>] ELSE NoTuple

PortsOf(tuple) == {tuple.local, tuple.remote} \ {NoPort}

socket_tuple_allowed(fd, gen) ==
  LET tuple == KnownTuple(fd, gen) IN
  /\ PortsOf(tuple) \cap ignored_ports = {}
  /\ \/ ~cfg.targets \/ NoPort \in {tuple.local, tuple.remote}
     \/ PortsOf(tuple) \cap target_ports # {}

(* the ports learnt replace the ones known; the others stay *)
update_socket_tuple(fd, gen, learnt) ==
  LET known == KnownTuple(fd, gen)
      tuple == [p \in {"local", "remote"} |-> IF learnt[p] # NoPort THEN learnt[p] ELSE known[p]]
  IN socket_tuples' = [k \in DOMAIN socket_tuples \cup {<<fd, gen>>} |->
                         IF k = <<fd, gen>> THEN tuple ELSE socket_tuples[k]]

-----------------------------------------------------------------------------
(* Entering a system call *)

(* What the application does on one descriptor at a time: "none": nothing   *)
(* overlaps; "close": a thread may close a descriptor another one is        *)
(* blocked reading; "any": anything.                                        *)
MayEnter(t, fd, op) ==
  \A u \in Threads \ {t} : fd \in {th[u].fd, th[u].ssl} =>
    \/ Overlap = "any"
    \/ /\ Overlap = "close" /\ th[u].pc = "kernel" /\ th[u].op = "read"
       /\ op = "close" \/ th[u].conn # conns[fd].id

(* thread t starts the call op on fd *)
Enter(t, op, fd) ==
  /\ op \in Calls /\ calls < MaxSyscalls
  /\ th[t].pc = "user" /\ th[t].ssl \in {NoFd, fd}
  /\ calls' = calls + 1

Started(t, op, fd, cpu) ==
  [th[t] EXCEPT !.pc = "gen", !.op = op, !.sys = calls + 1, !.fd = fd, !.cpu = cpu]

(* sys_enter of read, readv, recvfrom, recvmsg and of their counterparts;   *)
(* a disabled direction is counted and the call goes on uncaptured; flags   *)
(* are not looked at.                                                       *)
EnterData(t, dir, fd, buf, peek, cpu) ==
  /\ peek => dir = "read" /\ "peek" \in Calls
  /\ Enter(t, dir, fd) /\ conns[fd] # NoConn /\ MayEnter(t, fd, dir)
  /\ th' = [th EXCEPT ![t] = [Started(t, dir, fd, cpu) EXCEPT
                                !.pc = IF cfg[dir] THEN "gen" ELSE "kernel",
                                !.lossy = ~cfg[dir], !.dir = dir, !.buf = buf, !.peek = peek,
                                !.conn = conns[fd].id, !.base = conns[fd][dir]]]
  /\ UNCHANGED <<app, cfg, conns, opened, mapVars, outVars>>

EnterClose(t, fd, cpu) ==
  /\ Enter(t, "close", fd) /\ conns[fd] # NoConn /\ MayEnter(t, fd, "close")
  /\ th[t].ssl = NoFd
  /\ th' = [th EXCEPT ![t] = [Started(t, "close", fd, cpu) EXCEPT !.conn = conns[fd].id]]
  /\ UNCHANGED <<app, cfg, conns, opened, mapVars, outVars>>

(* socket() and the entry of connect(); with an address the probe cannot    *)
(* read, or of another family, it returns at once                           *)
EnterConnect(t, fd, port, cpu) ==
  /\ Enter(t, "connect", fd) /\ conns[fd] = NoConn /\ Len(opened) < MaxConns
  /\ MayEnter(t, fd, "connect") /\ th[t].ssl = NoFd
  /\ opened' = Append(opened, [local |-> NoPort, remote |-> port])
  /\ conns' = [conns EXCEPT ![fd].id = Len(opened) + 1]
  /\ \/ port = NoPort /\ UNCHANGED th
     \/ /\ port # NoPort
        /\ th' = [th EXCEPT ![t] = [Started(t, "connect", fd, cpu) EXCEPT !.conn = Len(opened) + 1]]
  /\ UNCHANGED <<app, cfg, mapVars, outVars>>

(* bind of the listener, unless tracing started later *)
EnterBind(t, cpu) ==
  /\ Enter(t, "bind", Listener) /\ calls = 0
  /\ th' = [th EXCEPT ![t] = Started(t, "bind", Listener, cpu)]
  /\ UNCHANGED <<app, cfg, conns, opened, mapVars, outVars>>

EnterAccept(t, cpu) ==
  /\ Enter(t, "accept", Listener) /\ th[t].ssl = NoFd
  /\ th' = [th EXCEPT ![t] = Started(t, "accept", Listener, cpu)]
  /\ UNCHANGED <<app, cfg, conns, opened, mapVars, outVars>>

-----------------------------------------------------------------------------
(* get_or_init_generation: a lookup and, without an entry, an update, whose *)
(* failure is not noticed                                                   *)

SetGeneration(fd, gen) ==
  fd_generations' = IF app.full THEN fd_generations ELSE [fd_generations EXCEPT ![fd] = gen]

Generated(t, gen) ==
  LET op == th[t].op IN
  th' = [th EXCEPT ![t].gen = gen,
                   ![t].ctx = IF op = "accept" THEN gen ELSE @,
                   ![t].pc = CASE op \in {"read", "write", "close"} -> "allowed"
                               [] op \in {"bind", "connect", "accepted"} -> "tuple"
                               [] op = "accept" -> "kernel"
                               [] op = "ssl" -> "emit"]

LookupGeneration(t) ==
  LET gen == fd_generations[th[t].fd] IN
  /\ th[t].pc = "gen"
  /\ \/ gen # 0 /\ Generated(t, gen)
     \/ gen = 0 /\ th' = [th EXCEPT ![t].pc = "initgen"]
  /\ UNCHANGED <<app, cfg, appVars, mapVars, outVars>>

InitGeneration(t) ==
  /\ th[t].pc = "initgen"
  /\ SetGeneration(th[t].fd, 1)
  /\ Generated(t, 1)
  /\ UNCHANGED <<app, cfg, appVars, event_seqnos, socket_tuples, thread_last_fd, outVars>>

InSsl(t) == th[t].ssl # NoFd

(* The filter of the entry probes.  A read saves its context, a write and a *)
(* close go on to emit; what is filtered goes on uncaptured, and so does a  *)
(* sendmsg or recvmsg whose msghdr cannot be read: the exit probe counts    *)
(* the read, nothing counts the write.                                      *)
Filter(t) ==
  LET op == th[t].op
      allowed == socket_tuple_allowed(th[t].fd, th[t].gen)
  IN
  /\ th[t].pc = "allowed"
  /\ thread_last_fd' = [thread_last_fd EXCEPT ![t] = th[t].fd]
  /\ \/ /\ allowed /\ op = "read"
        /\ th' = [th EXCEPT ![t].pc = "kernel", ![t].ctx = th[t].gen, ![t].touched = InSsl(t)]
     \/ /\ allowed /\ op = "write"
        /\ th' = [th EXCEPT ![t].pc = "emit", ![t].touched = InSsl(t),
                            ![t].plan = DataEvents(th[t].buf, Total(th[t].buf.segs))]
     \/ /\ allowed /\ op \in {"read", "write"} /\ th[t].buf.iov
        /\ th' = [th EXCEPT ![t].pc = "kernel", ![t].unread = TRUE, ![t].lossy = op = "read",
                            ![t].touched = InSsl(t)]
     \/ /\ allowed /\ op = "close"
        /\ th' = [th EXCEPT ![t].pc = "emit", ![t].plan = ControlEvent]
     \/ /\ ~allowed
        /\ th' = [th EXCEPT ![t].pc = IF op = "close" THEN "untuple" ELSE "kernel",
                            ![t].lossy = TRUE, ![t].touched = InSsl(t)]
  /\ UNCHANGED <<app, cfg, appVars, fd_generations, event_seqnos, socket_tuples, outVars>>

(* bind, connect and promote_accepted_socket.  One thread opens a socket, so *)
(* the lookup and the update of its tuple are one step.                     *)
LearnTuple(t) ==
  LET fd == th[t].fd
      ports == IF th[t].conn = 0 THEN NoTuple ELSE opened[th[t].conn]
      inherited == KnownTuple(Listener, th[t].ctx).local
  IN
  /\ th[t].pc = "tuple"
  /\ \/ /\ th[t].op = "bind"
        /\ update_socket_tuple(fd, th[t].gen, [local |-> ListenPort, remote |-> NoPort])
        /\ th' = [th EXCEPT ![t] = Idle]
     \/ /\ th[t].op = "connect"
        /\ update_socket_tuple(fd, th[t].gen, [local |-> NoPort, remote |-> ports.remote])
        /\ th' = [th EXCEPT ![t].pc = "emit", ![t].plan = ControlEvent]
     \/ /\ th[t].op = "accepted"
        /\ \E remote \in {NoPort, ports.remote} :
             update_socket_tuple(fd, th[t].gen, [local |-> inherited, remote |-> remote])
        /\ th' = [th EXCEPT ![t].pc = "emit", ![t].plan = ControlEvent, ![t].ctx = 0]
  /\ UNCHANGED <<app, cfg, appVars, fd_generations, event_seqnos, thread_last_fd, outVars>>

-----------------------------------------------------------------------------
(* emit_data_chunk, emit_control_event *)

IsData(op) == op \in {"read", "write", "ssl"}

NextChunk(t, lossy) ==
  th' = [th EXCEPT ![t].pc = "emit", ![t].plan = Tail(@), ![t].idx = @ + 1,
                   ![t].lossy = @ \/ lossy]

RingHasRoom(c) == Len(rings[c]) < RingCap

(* mutant: a full ring buffer is not counted *)
Reserve_Uncounted(t) ==
  \/ /\ RingHasRoom(th[t].cpu)
     /\ rings' = [rings EXCEPT ![th[t].cpu] =
                    Append(@, [st |-> "busy", id |-> <<th[t].sys, th[t].idx>>])]
     /\ th' = [th EXCEPT ![t].pc = "seq"]
  \/ ~RingHasRoom(th[t].cpu) /\ NextChunk(t, FALSE) /\ UNCHANGED rings

(* mutant: nothing bounds the ring buffer *)
Reserve_Unbounded(t) ==
  /\ rings' = [rings EXCEPT ![th[t].cpu] =
                 Append(@, [st |-> "busy", id |-> <<th[t].sys, th[t].idx>>])]
  /\ th' = [th EXCEPT ![t].pc = "seq"]

(* reserve_event; a full ring buffer is counted and takes no number *)
Reserve(t) ==
  \/ /\ RingHasRoom(th[t].cpu)
     /\ rings' = [rings EXCEPT ![th[t].cpu] =
                    Append(@, [st |-> "busy", id |-> <<th[t].sys, th[t].idx>>])]
     /\ th' = [th EXCEPT ![t].pc = "seq"]
  \/ ~RingHasRoom(th[t].cpu) /\ NextChunk(t, TRUE) /\ UNCHANGED rings

EmitData(t) ==
  LET allowed == socket_tuple_allowed(th[t].fd, th[t].gen) IN
  /\ th[t].pc = "emit" /\ th[t].plan # <<>> /\ IsData(th[t].op)
  /\ \/ ~cfg[th[t].dir] /\ NextChunk(t, TRUE) /\ UNCHANGED <<thread_last_fd, rings>>
     \/ /\ cfg[th[t].dir]
        /\ thread_last_fd' = [thread_last_fd EXCEPT ![t] = th[t].fd]
        /\ \/ ~allowed /\ NextChunk(t, TRUE) /\ UNCHANGED rings
           \/ allowed /\ Reserve(t)
  /\ UNCHANGED <<app, cfg, appVars, fd_generations, event_seqnos, socket_tuples, got, discarded, moved>>

EmitControl(t) ==
  /\ th[t].pc = "emit" /\ th[t].plan # <<>> /\ ~IsData(th[t].op)
  /\ Reserve(t)
  /\ UNCHANGED <<app, cfg, appVars, mapVars, got, discarded, moved>>

(* next_seq: a lookup and an update *)
LookupSeq(t) ==
  /\ th[t].pc = "seq"
  /\ th' = [th EXCEPT ![t].pc = "put", ![t].seq = event_seqnos[th[t].fd]]
  /\ UNCHANGED <<app, cfg, appVars, mapVars, outVars>>

UpdateSeq(t) ==
  /\ th[t].pc = "put"
  /\ event_seqnos' = [event_seqnos EXCEPT ![th[t].fd] = th[t].seq + 1]
  /\ th' = [th EXCEPT ![t].pc = "copy"]
  /\ UNCHANGED <<app, cfg, appVars, fd_generations, socket_tuples, thread_last_fd, outVars>>

Event(t) ==
  LET c == Head(th[t].plan)
      tuple == KnownTuple(th[t].fd, th[t].gen)
  IN [type |-> IF IsData(th[t].op) THEN "data" ELSE IF th[t].op = "close" THEN "close" ELSE "socket",
      fd |-> th[t].fd, gen |-> th[t].gen, seq |-> th[t].seq, ssl |-> th[t].op = "ssl",
      sys |-> th[t].sys, conn |-> th[t].conn, dir |-> th[t].dir,
      from |-> th[t].base + c.off, size |-> c.size, original |-> c.original,
      local |-> tuple.local, remote |-> tuple.remote]

Slot(t) == CHOOSE i \in DOMAIN rings[th[t].cpu] : rings[th[t].cpu][i].id = <<th[t].sys, th[t].idx>>

Fill(t, slot) == rings' = [rings EXCEPT ![th[t].cpu][Slot(t)] = slot]

(* fill_event_socket_metadata, the copy, and submit or discard: the copy    *)
(* fails, or the payload is a counter                                       *)
Copy(t) ==
  /\ th[t].pc = "copy"
  /\ \/ /\ Fill(t, [st |-> "ready", id |-> <<th[t].sys, th[t].idx>>, ev |-> Event(t)])
        /\ NextChunk(t, FALSE)
        /\ UNCHANGED discarded
     \/ /\ IsData(th[t].op)
        /\ Fill(t, [st |-> "discarded", id |-> <<th[t].sys, th[t].idx>>])
        /\ NextChunk(t, TRUE)
        /\ discarded' = discarded \cup {[fd |-> th[t].fd, gen |-> th[t].gen, seq |-> th[t].seq]}
  /\ UNCHANGED <<app, cfg, appVars, mapVars, got, moved>>

(* back in user space; an SSL_* call goes on *)
Returned(t) ==
  [Idle EXCEPT !.ssl = th[t].ssl, !.sslDir = th[t].sslDir, !.touched = th[t].touched]

(* history: the call is over; skipped: a vector with more segments than the *)
(* probes look at, or in a msghdr they could not read                       *)
Transfer(t, len, lossy) ==
  moved' = moved \cup {[sys |-> th[t].sys, conn |-> th[t].conn, from |-> th[t].base,
                        len |-> len, peek |-> th[t].peek, lossy |-> lossy,
                        skipped |-> th[t].unread \/ Len(th[t].buf.segs) > MAX_IOVEC_SEGMENTS]}

EmitDone(t) ==
  LET op == th[t].op IN
  /\ th[t].pc = "emit" /\ th[t].plan = <<>>
  /\ \/ op = "write" /\ th' = [th EXCEPT ![t].pc = "kernel"] /\ UNCHANGED moved
     \/ op = "close" /\ th' = [th EXCEPT ![t].pc = "untuple"] /\ UNCHANGED moved
     \/ op = "read" /\ th' = [th EXCEPT ![t] = Returned(t)] /\ Transfer(t, th[t].ret, th[t].lossy)
     \/ /\ op \in {"connect", "accepted", "ssl"}
        /\ th' = [th EXCEPT ![t] = Returned(t)] /\ UNCHANGED moved
  /\ UNCHANGED <<app, cfg, appVars, mapVars, rings, got, discarded>>

-----------------------------------------------------------------------------
(* The end of sys_enter_close: delete_socket_tuple and bump_generation *)

DeleteTuple(t) ==
  /\ th[t].pc = "untuple"
  /\ socket_tuples' = [k \in DOMAIN socket_tuples \ {<<th[t].fd, th[t].gen>>} |-> socket_tuples[k]]
  /\ th' = [th EXCEPT ![t].pc = "bump"]
  /\ UNCHANGED <<app, cfg, appVars, fd_generations, event_seqnos, thread_last_fd, outVars>>

(* mutant: a close leaves generation and sequence number alone *)
BumpGeneration_Keeps(t) ==
  /\ th[t].pc = "bump"
  /\ th' = [th EXCEPT ![t].pc = "kernel"]
  /\ UNCHANGED <<app, cfg, appVars, mapVars, outVars>>

BumpGeneration(t) ==
  /\ th[t].pc = "bump"
  /\ SetGeneration(th[t].fd, th[t].gen + 1)
  /\ th' = [th EXCEPT ![t].pc = "reset"]
  /\ UNCHANGED <<app, cfg, appVars, event_seqnos, socket_tuples, thread_last_fd, outVars>>

(* mutant: the new generation goes on counting where the old one stopped *)
ResetSeq_Keeps(t) ==
  /\ th[t].pc = "reset"
  /\ th' = [th EXCEPT ![t].pc = "kernel"]
  /\ UNCHANGED <<app, cfg, appVars, mapVars, outVars>>

ResetSeq(t) ==
  /\ th[t].pc = "reset"
  /\ event_seqnos' = [event_seqnos EXCEPT ![th[t].fd] = 0]
  /\ th' = [th EXCEPT ![t].pc = "kernel"]
  /\ UNCHANGED <<app, cfg, appVars, fd_generations, socket_tuples, thread_last_fd, outVars>>

-----------------------------------------------------------------------------
(* The kernel finishes a system call; sys_exit probes *)

(* conns after n more bytes, if the descriptor still stands for the         *)
(* connection; what is peeked at stays to be read                           *)
Moved(t, n) ==
  LET fd == th[t].fd IN
  IF conns[fd].id = th[t].conn /\ ~th[t].peek THEN [conns EXCEPT ![fd][th[t].dir] = @ + n] ELSE conns

(* a write sends its buffer or, on a non-blocking socket, a part of it *)
WriteReturn(t, n) ==
  /\ th[t].pc = "kernel" /\ th[t].op = "write"
  /\ conns' = Moved(t, n)
  /\ Transfer(t, n, th[t].lossy)
  /\ th' = [th EXCEPT ![t] = Returned(t)]
  /\ UNCHANGED <<app, cfg, opened, calls, mapVars, rings, got, discarded>>

CloseReturn(t) ==
  /\ th[t].pc = "kernel" /\ th[t].op = "close"
  /\ conns' = [conns EXCEPT ![th[t].fd] = NoConn]
  /\ th' = [th EXCEPT ![t] = Idle]
  /\ UNCHANGED <<app, cfg, opened, calls, mapVars, outVars>>

(* mutant: the generation of the moment, not the one saved at entry *)
ReadReturn_CurrentGeneration(t, n, cpu) ==
  /\ th[t].pc = "kernel" /\ th[t].op = "read"
  /\ conns' = Moved(t, n)
  /\ \/ /\ n > 0 /\ th[t].ctx # 0
        /\ th' = [th EXCEPT ![t].pc = "emit", ![t].cpu = cpu, ![t].ret = n, ![t].ctx = 0,
                            ![t].gen = fd_generations[th[t].fd],
                            ![t].plan = DataEvents(th[t].buf, n)]
        /\ UNCHANGED moved
     \/ /\ n = 0 \/ th[t].ctx = 0
        /\ th' = [th EXCEPT ![t] = Returned(t)]
        /\ Transfer(t, n, TRUE)
  /\ UNCHANGED <<app, cfg, opened, calls, mapVars, rings, got, discarded>>

(* sys_exit of read, readv, recvfrom, recvmsg.  A call without a saved      *)
(* context was filtered, and counted, at its entry; with reads enabled it   *)
(* is counted again.                                                        *)
ReadReturn(t, n, cpu) ==
  /\ th[t].pc = "kernel" /\ th[t].op = "read"
  /\ conns' = Moved(t, n)
  /\ \/ /\ n > 0 /\ th[t].ctx # 0
        /\ th' = [th EXCEPT ![t].pc = "emit", ![t].cpu = cpu, ![t].ret = n, ![t].ctx = 0,
                            ![t].gen = th[t].ctx,
                            ![t].plan = DataEvents(th[t].buf, n)]
        /\ UNCHANGED moved
     \/ /\ n = 0 \/ th[t].ctx = 0
        /\ th' = [th EXCEPT ![t] = Returned(t)]
        /\ Transfer(t, n, th[t].lossy)
  /\ UNCHANGED <<app, cfg, opened, calls, mapVars, rings, got, discarded>>

(* sys_exit of accept and accept4: a new connection on a free descriptor *)
AcceptReturn(t, fd, port, cpu) ==
  /\ th[t].pc = "kernel" /\ th[t].op = "accept"
  /\ conns[fd] = NoConn /\ Len(opened) < MaxConns /\ MayEnter(t, fd, "accept")
  /\ opened' = Append(opened, [local |-> ListenPort, remote |-> port])
  /\ conns' = [conns EXCEPT ![fd].id = Len(opened) + 1]
  /\ th' = [th EXCEPT ![t].pc = "gen", ![t].op = "accepted", ![t].fd = fd, ![t].cpu = cpu,
                      ![t].conn = Len(opened) + 1]
  /\ UNCHANGED <<app, cfg, calls, mapVars, outVars>>

(* ret < 0: the context is deleted *)
AcceptFails(t) ==
  /\ th[t].pc = "kernel" /\ th[t].op = "accept"
  /\ th' = [th EXCEPT ![t] = Idle]
  /\ UNCHANGED <<app, cfg, appVars, mapVars, outVars>>

-----------------------------------------------------------------------------
(* SSL_read, SSL_write and their _ex variants.  SslMode says whether        *)
(* OpenSSL always makes a system call on the connection's descriptor, or    *)
(* may serve a read from data it has already decrypted.                     *)

SslEnter(t, fd, dir) ==
  /\ SslMode # "off" /\ th[t].pc = "user" /\ th[t].ssl = NoFd
  /\ conns[fd] # NoConn /\ MayEnter(t, fd, dir)
  /\ th' = [th EXCEPT ![t].ssl = fd, ![t].sslDir = dir, ![t].touched = FALSE]
  /\ UNCHANGED <<app, cfg, appVars, mapVars, outVars>>

(* data came with a system call of this SSL_* call, or was read before it *)
SslHasData(t) ==
  \/ th[t].touched
  \/ SslMode = "buffered" /\ th[t].sslDir = "read" /\ conns[th[t].ssl].read > 0

(* ssl_emit_ret: the plaintext is attributed to thread_last_fd *)
SslReturn(t, n, cpu) ==
  LET fd == thread_last_fd[t] IN
  /\ th[t].pc = "user" /\ th[t].ssl # NoFd /\ calls < MaxSyscalls
  /\ SslHasData(t)
  /\ \/ /\ n > 0 /\ fd # NoFd
        /\ calls' = calls + 1
        /\ th' = [th EXCEPT ![t] = [Idle EXCEPT
                    !.pc = "gen", !.op = "ssl", !.sys = calls + 1, !.fd = fd, !.cpu = cpu,
                    !.dir = th[t].sslDir, !.conn = conns[th[t].ssl].id,
                    !.plan = emit_data_event(n, n)]]
     \/ /\ n = 0 \/ fd = NoFd
        /\ th' = [th EXCEPT ![t] = Idle]
        /\ UNCHANGED calls
  /\ UNCHANGED <<app, cfg, conns, opened, mapVars, outVars>>

-----------------------------------------------------------------------------
(* The agent's goroutine of one ring buffer: records come in the order of   *)
(* their reservation, a busy one holds up the rest.                         *)
AgentRead(c) ==
  /\ rings[c] # <<>> /\ Head(rings[c]).st # "busy"
  /\ rings' = [rings EXCEPT ![c] = Tail(@)]
  /\ got' = IF Head(rings[c]).st = "ready" THEN Append(got, Head(rings[c]).ev) ELSE got
  /\ UNCHANGED <<app, cfg, appVars, mapVars, th, discarded, moved>>

-----------------------------------------------------------------------------
AppStep(t, cpu) ==
  \/ \E dir \in {"read", "write"}, fd \in Fds, buf \in Buffers, peek \in BOOLEAN :
       EnterData(t, dir, fd, buf, peek, cpu)
  \/ \E fd \in Fds : EnterClose(t, fd, cpu)
  \/ \E fd \in Fds, port \in Ports \cup {NoPort} : EnterConnect(t, fd, port, cpu)
  \/ EnterBind(t, cpu) \/ EnterAccept(t, cpu)
  \/ \E n \in 0 .. Total(th[t].buf.segs) : ReadReturn(t, n, cpu)
  \/ \E fd \in Fds, port \in Ports : AcceptReturn(t, fd, port, cpu)
  \/ \E b \in Buffers : SslReturn(t, Total(b.segs), cpu)

ProbeStep(t) ==
  \/ LookupGeneration(t) \/ InitGeneration(t) \/ Filter(t) \/ LearnTuple(t)
  \/ EmitData(t) \/ EmitControl(t) \/ LookupSeq(t) \/ UpdateSeq(t) \/ Copy(t) \/ EmitDone(t)
  \/ DeleteTuple(t) \/ BumpGeneration(t) \/ ResetSeq(t)

KernelStep(t) ==
  \/ \E n \in 0 .. Total(th[t].buf.segs) : WriteReturn(t, n)
  \/ CloseReturn(t) \/ AcceptFails(t)
  \/ \E fd \in Fds, dir \in {"read", "write"} : SslEnter(t, fd, dir)

Next ==
  \/ \E t \in Threads : (\E cpu \in Cpus : AppStep(t, cpu)) \/ ProbeStep(t) \/ KernelStep(t)
  \/ \E c \in Cpus : AgentRead(c)

Spec == Init /\ [][Next]_vars

-----------------------------------------------------------------------------
(* Properties *)

Ready == UNION {{s.ev : s \in {r \in Range(rings[c]) : r.st = "ready"}} : c \in Cpus}
Submitted == Range(got) \cup Ready

SameFlow(e, f) == e.fd = f.fd /\ e.gen = f.gen

(* The maps and contexts have their types; a ring buffer never holds more   *)
(* than its capacity; a saved context exists only while its call is in the  *)
(* kernel; an event's payload is shorter than its buffer.                   *)
TypeOK ==
  /\ \A c \in Cpus : Len(rings[c]) <= RingCap
  /\ \A f \in AllFds : fd_generations[f] \in Nat /\ event_seqnos[f] \in Nat
  /\ \A t \in Threads :
       /\ th[t].fd \in AllFds \cup {NoFd} /\ th[t].ssl \in Fds \cup {NoFd}
       /\ th[t].ctx # 0 => th[t].pc \in {"kernel", "gen", "initgen", "tuple"}
  /\ \A k \in DOMAIN socket_tuples : k[1] \in AllFds /\ k[2] \in Nat \ {0}
  /\ \A e \in Submitted : e.size < MAX_PAYLOAD_SIZE /\ e.gen > 0

(* When system calls on a descriptor do not overlap and fd_generations is   *)
(* not full, the events of a generation are numbered from 0 without         *)
(* repetition, and every number that is missing was discarded: a gap the    *)
(* worker sees is a counted drop.                                           *)
GapsAreDiscards ==
  Overlap = "none" /\ ~app.full => \A fd \in Fds, gen \in 1 .. MaxConns + 1 :
    LET flow == {e \in Submitted : e.fd = fd /\ e.gen = gen}
        gaps == {d.seq : d \in {x \in discarded : x.fd = fd /\ x.gen = gen}}
        used == {e.seq : e \in flow}
    IN /\ Cardinality(used) = Cardinality(flow)
       /\ used \cap gaps = {}
       /\ used \cup gaps = 0 .. Cardinality(used \cup gaps) - 1

(* A close event ends its generation: when calls do not overlap, no event   *)
(* of the descriptor's next connection can reach the session it closes.     *)
CloseIsLast ==
  Overlap = "none" /\ ~app.full => \A e, f \in Submitted : SameFlow(e, f) /\ e.type = "close" /\ f # e => f.seq < e.seq

(* State and numbering together: the probes' maps stay within their types   *)
(* and limits, and each generation is one numbered sequence of events that  *)
(* its close event ends.                                                    *)
KernelInv == TypeOK /\ GapsAreDiscards /\ CloseIsLast

(* One generation of a descriptor is one connection, even when the          *)
(* descriptor is closed and used again while a thread is blocked reading    *)
(* it.  TLS plaintext is attributed to the connection it was read from.     *)
(* With fd_generations full, every connection has generation 1.             *)
GenerationIsOneConnection ==
  ~app.full => \A e, f \in Submitted : SameFlow(e, f) => e.conn = f.conn

(* The ports an event carries are those of its own connection, never of an  *)
(* earlier or later connection on the same descriptor, unless               *)
(* fd_generations is full.                                                  *)
MetadataIsOwn ==
  ~app.full => \A e \in Submitted : e.conn # 0 =>
    /\ e.local \in {NoPort, opened[e.conn].local}
    /\ e.remote \in {NoPort, opened[e.conn].remote}

(* bytes of a transfer that some event holds *)
Held(m) == UNION {e.from + 1 .. e.from + e.size : e \in {x \in Submitted : x.sys = m.sys}}
Bytes(m) == m.from + 1 .. m.from + m.len

(* Bytes of a transfer that were not captured show: a drop was counted, or  *)
(* an event of the call holds less than its original_size, from which the   *)
(* agent sets loss.truncated.  The exceptions are a vector with more        *)
(* segments than the probes look at, and one in a msghdr they cannot read.  *)
LossIsExplicit ==
  \A m \in moved :
    \/ Bytes(m) \subseteq Held(m)
    \/ m.lossy \/ m.skipped
    \/ \E e \in Submitted : e.sys = m.sys /\ e.original > e.size

(* A transfer within the configured payload size is captured completely,    *)
(* unless a drop was counted.                                               *)
ReconstructsCompletely ==
  \A m \in moved : m.len <= effective_max_payload_size /\ ~m.lossy => Bytes(m) \subseteq Held(m)

Span(e) == e.from + 1 .. e.from + e.size

(* the bytes of its stream that a call took *)
Consumed(m) == IF m.peek THEN {} ELSE Bytes(m)

(* The events of a connection hold no byte of its stream twice: chunks,     *)
(* segments and successive calls do not overlap.  The exceptions are bytes  *)
(* that a call put in an event but did not take from the stream, or put     *)
(* into it, so that a later call does: the part of its buffer that a write  *)
(* did not send, captured at its entry, and what a read only peeked at.     *)
NothingCapturedTwice ==
  \A e, f \in {x \in Submitted : x.type = "data" /\ ~x.ssl} :
    \/ e = f \/ e.conn # f.conn \/ e.dir # f.dir
    \/ \A b \in Span(e) \cap Span(f) :
         \E m \in moved : m.sys \in {e.sys, f.sys} /\ b \notin Consumed(m)

(* The events of a connection reach the agent in the order of their         *)
(* sequence numbers.                                                        *)
SequenceOrder ==
  \A i, j \in DOMAIN got : i < j /\ SameFlow(got[i], got[j]) => got[i].seq < got[j].seq

=============================================================================
