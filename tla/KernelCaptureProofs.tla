------------------------ MODULE KernelCaptureProofs ------------------------
(***************************************************************************)
(* Proofs about KernelCapture, for any number of threads, descriptors,     *)
(* connections and calls.                                                  *)
(*                                                                         *)
(* 1. Every event carries the connection it came from: IInv follows who    *)
(*    may touch a descriptor, and which connection a generation stands for.*)
(* 2. Buffers are cut into events that neither overlap nor hide a loss.    *)
(* 3. Types and limits, for every application: BInv; each thread that      *)
(*    fills an event has a slot of its own: SlotInv.                       *)
(* 4. Bytes that were not captured show: LossInv.                          *)
(* 5. No byte is captured twice: TwiceInv.                                 *)
(* 6. Each generation is one numbered sequence: SeqInv.                    *)
(***************************************************************************)
EXTENDS KernelCapture, LoopTheorems, SequenceTheorems, FiniteSetTheorems, TLAPS

(* The applications for which attribution can be expected: calls on one     *)
(* descriptor follow each other and an SSL_* call reaches the kernel; or    *)
(* descriptors are closed under blocked reads, without TLS.                 *)
Attributable ==
  \/ Overlap = "none" /\ SslMode # "buffered"
  \/ Overlap = "close" /\ SslMode = "off"

(* the generation that calls on f get from now on *)
Gen(f) == IF fd_generations[f] = 0 THEN 1 ELSE fd_generations[f]

Pcs == {"user", "gen", "initgen", "allowed", "tuple", "kernel", "emit", "seq", "put", "copy",
        "untuple", "bump", "reset"}
DataOps == {"read", "write"}
Emitting == {"emit", "seq", "put", "copy"}

(* t's probe has its generation; or t is blocked with one in active_reads *)
HasGen(t) == th[t].fd \in Fds /\ th[t].pc \in {"allowed", "tuple", "untuple", "bump"} \cup Emitting
Saved(t) == th[t].op = "read" /\ th[t].pc = "kernel" /\ th[t].ctx # 0
Claiming == {t \in Threads : HasGen(t) \/ Saved(t)}

(* who says which connection a generation stands for *)
Claims ==
  {[fd |-> th[t].fd, gen |-> th[t].gen, conn |-> th[t].conn] : t \in Claiming}
  \cup {[fd |-> e.fd, gen |-> e.gen, conn |-> e.conn] : e \in Submitted}

(* t works on its descriptor, and no other thread may; a read that has      *)
(* reached the kernel no longer keeps others away                           *)
Strong(t) ==
  /\ th[t].pc # "user" /\ th[t].fd \in Fds
  /\ th[t].op = "read" => th[t].pc \in {"gen", "initgen", "allowed"}
Holds(t, f) == (Strong(t) /\ th[t].fd = f) \/ th[t].ssl = f

(* the entry probe of close is past bump_generation *)
Closing(t, pcs) == th[t].op = "close" /\ th[t].pc \in pcs

-----------------------------------------------------------------------------
(* The inductive invariant *)

(* The thread's record: which call may be in which probe. *)
ThreadOK(t) ==
  /\ DOMAIN th[t] = DOMAIN Idle
  /\ th[t].pc \in Pcs /\ th[t].gen \in Nat /\ th[t].ctx \in Nat /\ th[t].conn \in Nat
  /\ th[t].ssl \in Fds \cup {NoFd}
  /\ th[t].dir \in DataOps /\ th[t].sslDir \in DataOps
  /\ th[t].pc # "user" => th[t].cpu \in Cpus
  /\ th[t].op \in DataOps => th[t].conn # 0
  /\ th[t].pc = "user" => th[t].fd = NoFd /\ th[t].op = "none" /\ th[t].ctx = 0
  /\ th[t].pc # "user" =>
       \/ th[t].op \in {"bind", "accept"} /\ th[t].fd = Listener
       \/ th[t].op \in {"read", "write", "close", "connect", "accepted", "ssl"} /\ th[t].fd \in Fds
  /\ th[t].pc = "allowed" => th[t].op \in {"read", "write", "close"}
  /\ th[t].pc = "tuple" => th[t].op \in {"bind", "connect", "accepted"}
  /\ th[t].pc \in Emitting => th[t].op \notin {"bind", "accept"}
  /\ th[t].pc \in {"untuple", "bump", "reset"} => th[t].op = "close"
  /\ th[t].pc = "kernel" => th[t].op \in {"read", "write", "close", "accept"}
  /\ th[t].op \notin {"accept", "accepted"} /\ th[t].pc # "kernel" => th[t].ctx = 0
  /\ Saved(t) => th[t].gen = th[t].ctx
  /\ th[t].ssl # NoFd => SslMode # "off"
  /\ th[t].ssl # NoFd /\ th[t].pc # "user" => th[t].op \in DataOps /\ th[t].fd = th[t].ssl
  /\ th[t].touched => th[t].ssl # NoFd /\ thread_last_fd[t] = th[t].ssl

(* the ring buffers, and what was read from them, are sequences *)
RingsOK ==
  /\ got \in Seq(Range(got)) /\ DOMAIN rings = Cpus
  /\ \A c \in Cpus : rings[c] \in Seq(Range(rings[c]))

StoreOK ==
  /\ fd_generations \in [AllFds -> Nat] /\ fd_generations[Listener] \in {0, 1}
  /\ opened \in Seq([local : Ports \cup {NoPort, ListenPort}, remote : Ports \cup {NoPort}])
  /\ conns \in [Fds -> [id : 0 .. Len(opened), read : Nat, write : Nat]]
  /\ \A f \in Fds : conns[f].id = 0 => conns[f] = NoConn

Shapes ==
  /\ Listener \notin Fds /\ NoFd \notin AllFds
  /\ StoreOK /\ RingsOK
  /\ DOMAIN th = Threads /\ DOMAIN thread_last_fd = Threads
  /\ \A t \in Threads : ThreadOK(t)

(* A descriptor is one thread's at a time, and the generation a probe       *)
(* looked up is still the descriptor's.                                     *)
Exclusive ==
  /\ \A t, u \in Threads, f \in Fds : Holds(t, f) /\ Holds(u, f) => t = u
  /\ \A t \in Threads, f \in Fds : Holds(t, f) => conns[f].id # 0
  /\ \A t \in Threads : Strong(t) => th[t].conn = conns[th[t].fd].id
  /\ \A t \in Threads : Strong(t) /\ HasGen(t) => th[t].gen = fd_generations[th[t].fd] /\ th[t].gen # 0
  /\ \A t \in Threads : th[t].fd \in Fds /\ th[t].pc = "initgen" => fd_generations[th[t].fd] = 0

(* The generations in use are those handed out; the one in force stands for *)
(* the descriptor's connection, an earlier one for one connection.          *)
Agree ==
  /\ \A a \in Claims :
       /\ a.fd \in Fds /\ a.gen \in 1 .. Gen(a.fd) /\ a.conn \in 1 .. Len(opened)
       /\ a.gen = Gen(a.fd) => a.conn = conns[a.fd].id
  /\ \A a, b \in Claims : a.fd = b.fd /\ a.gen = b.gen => a.conn = b.conn
  /\ \A t \in Threads : Closing(t, {"reset", "kernel"}) =>
       \A a \in Claims : a.fd = th[t].fd => a.gen # Gen(a.fd)

OwnPorts(tuple, c) ==
  /\ tuple.local \in {NoPort, opened[c].local}
  /\ tuple.remote \in {NoPort, opened[c].remote}

(* A tuple belongs to the generation in force and to its connection. *)
TuplesAreOwn ==
  /\ \A k \in DOMAIN socket_tuples :
       /\ k[1] \in AllFds
       /\ DOMAIN socket_tuples[k] = {"local", "remote"}
       /\ k[1] = Listener => socket_tuples[k].local \in {NoPort, ListenPort}
       /\ k[1] \in Fds =>
            /\ k = <<k[1], Gen(k[1])>> /\ conns[k[1]].id # 0
            /\ OwnPorts(socket_tuples[k], conns[k[1]].id)
  /\ \A t \in Threads : Closing(t, {"bump", "reset", "kernel"}) =>
       \A k \in DOMAIN socket_tuples : k[1] # th[t].fd
  /\ \A t \in Threads : th[t].op = "accepted" /\ th[t].pc \in {"gen", "initgen", "tuple"} =>
       opened[th[t].conn].local = ListenPort
  /\ \A e \in Submitted : OwnPorts(e, e.conn)

IInv == Shapes /\ Exclusive /\ Agree /\ TuplesAreOwn

AInv == app \in Workloads /\ (Attributable /\ ~app.full => IInv)

-----------------------------------------------------------------------------
(* Sequences and the events in them *)

LEMMA IsSeq ==
  ASSUME NEW S, NEW n \in Nat, NEW r, DOMAIN r = 1 .. n, r = [j \in 1 .. n |-> r[j]],
         \A j \in 1 .. n : r[j] \in S
  PROVE  r \in Seq(S)
<1>1. r \in [1 .. n -> S]
  OBVIOUS
<1> QED
  BY <1>1, SeqDef

LEMMA RangeAppend ==
  ASSUME NEW s, s \in Seq(Range(s)), NEW x
  PROVE  /\ Append(s, x) \in Seq(Range(Append(s, x)))
         /\ Range(Append(s, x)) = Range(s) \cup {x}
<1> DEFINE S == Range(s) \cup {x}
<1>1. s \in Seq(S)
  <2>1. \A i \in 1 .. Len(s) : s[i] \in S
    BY DEF Range
  <2> QED
    BY <2>1
<1>2. Append(s, x) \in Seq(S) /\ Len(Append(s, x)) = Len(s) + 1
  BY <1>1
<1>3. /\ \A i \in 1 .. Len(s) : Append(s, x)[i] = s[i]
      /\ Append(s, x)[Len(s) + 1] = x
  BY <1>1
<1>4. DOMAIN s = 1 .. Len(s) /\ DOMAIN Append(s, x) = 1 .. Len(s) + 1 /\ Len(s) \in Nat
  BY <1>1, <1>2
<1>5. Range(Append(s, x)) = S
  BY <1>3, <1>4 DEF Range
<1> QED
  BY <1>2, <1>5

LEMMA RangeTail ==
  ASSUME NEW s, s \in Seq(Range(s)), s # <<>>
  PROVE  /\ Tail(s) \in Seq(Range(Tail(s)))
         /\ Range(Tail(s)) \subseteq Range(s) /\ Head(s) \in Range(s)
<1>1. /\ Tail(s) \in Seq(Range(s)) /\ Len(Tail(s)) = Len(s) - 1 /\ Len(s) \in Nat \ {0}
      /\ \A i \in 1 .. Len(s) - 1 : Tail(s)[i] = s[i + 1]
  OBVIOUS
<1>2. DOMAIN Tail(s) = 1 .. Len(s) - 1 /\ DOMAIN s = 1 .. Len(s)
  BY <1>1
<1>3. Range(Tail(s)) \subseteq Range(s) /\ Head(s) \in Range(s)
  BY <1>1, <1>2 DEF Range
<1>4. \A i \in 1 .. Len(Tail(s)) : Tail(s)[i] \in Range(Tail(s))
  BY <1>1, <1>2 DEF Range
<1>5. Tail(s) \in Seq(Range(Tail(s)))
  <2> DEFINE r == Tail(s)  n == Len(s) - 1
  <2>1. r \in [1 .. Len(r) -> Range(s)] /\ n \in Nat /\ Len(r) = n
    BY <1>1, LenProperties
  <2>2. \A j \in 1 .. n : r[j] \in Range(r)
    BY <1>1, <1>4
  <2> HIDE DEF r, n
  <2>3. r = [j \in 1 .. n |-> r[j]]
    BY <2>1
  <2>4. r \in Seq(Range(r))
    BY <2>1, <2>2, <2>3, IsSeq
  <2> QED
    BY <2>4 DEF r
<1> QED
  BY <1>3, <1>5

LEMMA RangeExcept ==
  ASSUME NEW s, s \in Seq(Range(s)), NEW i, NEW x
  PROVE  /\ [s EXCEPT ![i] = x] \in Seq(Range([s EXCEPT ![i] = x]))
         /\ Range([s EXCEPT ![i] = x]) \subseteq Range(s) \cup {x}
<1> DEFINE r == [s EXCEPT ![i] = x]
<1>1. DOMAIN r = 1 .. Len(s) /\ DOMAIN s = 1 .. Len(s) /\ Len(s) \in Nat
  OBVIOUS
<1>2. \A j \in 1 .. Len(s) : r[j] \in Range(r) /\ r[j] \in Range(s) \cup {x}
  BY <1>1 DEF Range
<1>3. r = [j \in 1 .. Len(s) |-> r[j]]
  BY <1>1
<1>4. r \in Seq(Range(r))
  <2> HIDE DEF r
  <2> QED
    BY <1>1, <1>2, <1>3, IsSeq
<1>5. Range(r) \subseteq Range(s) \cup {x}
  BY <1>1, <1>2 DEF Range
<1> QED
  BY <1>4, <1>5

(* the events that are ready in the slots S *)
ReadyIn(S) == {s.ev : s \in {r \in S : r.st = "ready"}}

LEMMA SubmittedIs ==
  Submitted = Range(got) \cup UNION {ReadyIn(Range(rings[c])) : c \in Cpus}
BY DEF Submitted, Ready, ReadyIn

LEMMA SubmittedWithin ==
  ASSUME NEW x, got' = got, \A c \in Cpus : ReadyIn(Range(rings'[c])) \subseteq ReadyIn(Range(rings[c])) \cup {x}
  PROVE  Submitted' \subseteq Submitted \cup {x}
<1> SUFFICES ASSUME NEW e \in Submitted' PROVE e \in Submitted \cup {x}
  OBVIOUS
<1>1. Submitted' = Range(got') \cup UNION {ReadyIn(Range(rings'[c])) : c \in Cpus}
  BY DEF Submitted, Ready, ReadyIn
<1>2. CASE e \in Range(got')
  BY <1>2, SubmittedIs
<1>3. CASE \E c \in Cpus : e \in ReadyIn(Range(rings'[c]))
  <2>1. PICK c \in Cpus : e \in ReadyIn(Range(rings'[c]))
    BY <1>3
  <2> QED
    BY <2>1, SubmittedIs
<1> QED
  BY <1>1, <1>2, <1>3

(* a slot reserved holds no event yet *)
LEMMA ReserveStep ==
  ASSUME RingsOK, NEW c \in Cpus, NEW id, got' = got,
         rings' = [rings EXCEPT ![c] = Append(@, [st |-> "busy", id |-> id])]
  PROVE  RingsOK' /\ Submitted' = Submitted
<1> DEFINE s == [st |-> "busy", id |-> id]
<1>1. /\ DOMAIN rings' = Cpus /\ rings'[c] = Append(rings[c], s)
      /\ \A d \in Cpus \ {c} : rings'[d] = rings[d]
  BY DEF RingsOK
<1>2. rings'[c] \in Seq(Range(rings'[c])) /\ Range(rings'[c]) = Range(rings[c]) \cup {s}
  BY <1>1, RangeAppend DEF RingsOK
<1>3. s.st # "ready"
  OBVIOUS
<1> HIDE DEF s
<1>4. \A d \in Cpus : ReadyIn(Range(rings'[d])) = ReadyIn(Range(rings[d]))
  BY <1>1, <1>2, <1>3 DEF ReadyIn
<1>5. Submitted' = Range(got') \cup UNION {ReadyIn(Range(rings'[d])) : d \in Cpus}
  BY DEF Submitted, Ready, ReadyIn
<1>6. Submitted' = Submitted
  BY <1>4, <1>5, SubmittedIs
<1> QED
  BY <1>1, <1>2, <1>6 DEF RingsOK

(* a slot filled holds its own event or none *)
LEMMA FillStep ==
  ASSUME RingsOK, NEW c \in Cpus, NEW i, NEW s, got' = got,
         rings' = [rings EXCEPT ![c][i] = s]
  PROVE  /\ RingsOK'
         /\ s.st # "ready" => Submitted' \subseteq Submitted
         /\ Submitted' \subseteq Submitted \cup {s.ev}
<1>1. /\ DOMAIN rings' = Cpus /\ rings'[c] = [rings[c] EXCEPT ![i] = s]
      /\ \A d \in Cpus \ {c} : rings'[d] = rings[d]
  BY DEF RingsOK
<1>2. /\ [rings[c] EXCEPT ![i] = s] \in Seq(Range([rings[c] EXCEPT ![i] = s]))
      /\ Range([rings[c] EXCEPT ![i] = s]) \subseteq Range(rings[c]) \cup {s}
  BY RangeExcept DEF RingsOK
<1>3. rings'[c] \in Seq(Range(rings'[c])) /\ Range(rings'[c]) \subseteq Range(rings[c]) \cup {s}
  BY <1>1, <1>2
<1>4. RingsOK'
  BY <1>1, <1>3 DEF RingsOK
<1> DEFINE OldAndNew(A, B) == /\ ReadyIn(A) \subseteq ReadyIn(B) \cup {s.ev}
                              /\ s.st # "ready" => ReadyIn(A) \subseteq ReadyIn(B)
<1>9. \A A, B : A \subseteq B \cup {s} => OldAndNew(A, B)
  BY DEF ReadyIn
<1>10. \A d \in Cpus : OldAndNew(Range(rings'[d]), Range(rings[d]))
  <2>1. \A d \in Cpus : Range(rings'[d]) \subseteq Range(rings[d]) \cup {s}
    BY <1>1, <1>3
  <2> HIDE DEF OldAndNew
  <2> QED
    BY <1>9, <2>1
<1>5. \A d \in Cpus : ReadyIn(Range(rings'[d])) \subseteq ReadyIn(Range(rings[d])) \cup {s.ev}
  BY <1>10
<1>6. s.st # "ready" => \A d \in Cpus : ReadyIn(Range(rings'[d])) \subseteq ReadyIn(Range(rings[d]))
  BY <1>10
<1>7. s.st # "ready" => Submitted' \subseteq Submitted
  <2>1. Submitted' = Range(got') \cup UNION {ReadyIn(Range(rings'[d])) : d \in Cpus}
    BY DEF Submitted, Ready, ReadyIn
  <2> QED
    BY <1>6, <2>1, SubmittedIs
<1> QED
  BY <1>4, <1>5, <1>7, SubmittedWithin

(* the agent moves an event from a ring to got *)
LEMMA ReadStep ==
  ASSUME RingsOK, NEW c \in Cpus, AgentRead(c)
  PROVE  RingsOK' /\ Submitted' \subseteq Submitted
<1> DEFINE r == rings[c]
<1>1. /\ DOMAIN rings' = Cpus /\ rings'[c] = Tail(r)
      /\ \A d \in Cpus \ {c} : rings'[d] = rings[d]
  BY DEF RingsOK, AgentRead
<1>2. r # <<>> /\ r \in Seq(Range(r))
  BY DEF RingsOK, AgentRead
<1>3. /\ rings'[c] \in Seq(Range(rings'[c])) /\ Range(rings'[c]) \subseteq Range(r) /\ Head(r) \in Range(r)
  BY <1>1, <1>2, RangeTail
<1>4. \A d \in Cpus : ReadyIn(Range(rings'[d])) \subseteq ReadyIn(Range(rings[d]))
  BY <1>1, <1>3 DEF ReadyIn
<1>5. /\ got' \in Seq(Range(got'))
      /\ Range(got') \subseteq Range(got) \cup ReadyIn(Range(r))
  <2>1. CASE Head(r).st = "ready"
    <3>1. got' = Append(got, Head(r).ev)
      BY <2>1 DEF AgentRead
    <3>2. Head(r).ev \in ReadyIn(Range(r))
      BY <1>3, <2>1 DEF ReadyIn
    <3> QED
      BY <3>1, <3>2, RangeAppend DEF RingsOK
  <2>2. CASE Head(r).st # "ready"
    BY <2>2 DEF AgentRead, RingsOK
  <2> QED
    BY <2>1, <2>2
<1>6. Submitted' = Range(got') \cup UNION {ReadyIn(Range(rings'[d])) : d \in Cpus}
  BY DEF Submitted, Ready, ReadyIn
<1>7. Submitted' \subseteq Submitted
  BY <1>4, <1>5, <1>6, SubmittedIs
<1> QED
  BY <1>1, <1>3, <1>5, <1>7 DEF RingsOK

-----------------------------------------------------------------------------
(* Steps that hand out no descriptor and no generation *)

Claim(t) == [fd |-> th[t].fd, gen |-> th[t].gen, conn |-> th[t].conn]
ClaimOf(e) == [fd |-> e.fd, gen |-> e.gen, conn |-> e.conn]

LEMMA ClaimsAre ==
  ASSUME NEW a
  PROVE  a \in Claims <=> (\E t \in Claiming : a = Claim(t)) \/ (\E e \in Submitted : a = ClaimOf(e))
BY DEF Claims, Claim, ClaimOf

(* what only one thread's step leaves to the others *)
OnlyMoves(t) == \A u \in Threads : u # t => th'[u] = th[u]

SameStore ==
  /\ app' = app /\ fd_generations' = fd_generations /\ opened' = opened
  /\ \A f \in Fds : conns'[f].id = conns[f].id

(* t goes on with what it had, or with less *)
Proceeds(t) ==
  /\ \A f \in Fds : Holds(t, f)' => Holds(t, f)
  /\ Strong(t)' => Strong(t) /\ th'[t].fd = th[t].fd /\ th'[t].conn = th[t].conn
  /\ (HasGen(t) \/ Saved(t))' => (HasGen(t) \/ Saved(t)) /\ Claim(t)' = Claim(t)
  /\ (Strong(t) /\ HasGen(t))' => HasGen(t)
  /\ th'[t].fd \in Fds /\ th'[t].pc = "initgen" => fd_generations[th'[t].fd] = 0
  /\ Closing(t, {"reset", "kernel"})' => Closing(t, {"reset", "kernel"}) /\ th'[t].fd = th[t].fd

(* and does not come to rely on a tuple *)
Follows(t) ==
  /\ Proceeds(t)
  /\ Closing(t, {"bump", "reset", "kernel"})' =>
       Closing(t, {"bump", "reset", "kernel"}) /\ th'[t].fd = th[t].fd
  /\ th'[t].op = "accepted" /\ th'[t].pc \in {"gen", "initgen", "tuple"} =>
       th[t].op = "accepted" /\ th[t].pc \in {"gen", "initgen", "tuple"} /\ th'[t].conn = th[t].conn

(* the threads other than t keep what the invariant says of them *)
LEMMA OthersSame ==
  ASSUME app' = app, NEW t, OnlyMoves(t), NEW u \in Threads, u # t
  PROVE  /\ th'[u] = th[u] /\ Strong(u)' = Strong(u) /\ HasGen(u)' = HasGen(u) /\ Saved(u)' = Saved(u)
         /\ \A f : Holds(u, f)' = Holds(u, f)
         /\ \A pcs : (th'[u].op = "close" /\ th'[u].pc \in pcs) = Closing(u, pcs)
         /\ Claim(u)' = Claim(u)
BY DEF OnlyMoves, Strong, HasGen, Saved, Holds, Closing, Claim, Threads, Fds

LEMMA FollowsExclusive ==
  ASSUME Exclusive, SameStore, NEW t \in Threads, OnlyMoves(t), Proceeds(t)
  PROVE  Exclusive'
<1>0. Threads' = Threads /\ Fds' = Fds /\ app' = app
  BY DEF Threads, Fds, SameStore
<1>1. ASSUME NEW u \in Threads, NEW f \in Fds, Holds(u, f)'
      PROVE  Holds(u, f)
  BY <1>0, <1>1, OthersSame DEF Proceeds
<1>2. ASSUME NEW u \in Threads, NEW v \in Threads, NEW f \in Fds, Holds(u, f)', Holds(v, f)'
      PROVE  u = v
  BY <1>1, <1>2 DEF Exclusive
<1>3. ASSUME NEW u \in Threads, NEW f \in Fds, Holds(u, f)'
      PROVE  conns'[f].id # 0
  BY <1>1, <1>3 DEF Exclusive, SameStore
<1>4. ASSUME NEW u \in Threads, Strong(u)'
      PROVE  Strong(u) /\ th'[u].fd = th[u].fd /\ th'[u].conn = th[u].conn /\ th[u].fd \in Fds
  BY <1>0, <1>4, OthersSame DEF Proceeds, Strong
<1>5. ASSUME NEW u \in Threads, Strong(u)'
      PROVE  th'[u].conn = conns'[th'[u].fd].id
  BY <1>4, <1>5 DEF Exclusive, SameStore
<1>6. ASSUME NEW u \in Threads, Strong(u)', HasGen(u)'
      PROVE  th'[u].gen = fd_generations'[th'[u].fd] /\ th'[u].gen # 0
  <2>1. HasGen(u) /\ th'[u].gen = th[u].gen
    <3>1. CASE u = t
      <4>1. HasGen(t) /\ Claim(t)' = Claim(t)
        BY <1>6, <3>1 DEF Proceeds
      <4> QED
        BY <3>1, <4>1 DEF Claim
    <3>2. CASE u # t
      BY <1>0, <1>6, <3>2, OthersSame
    <3> QED
      BY <3>1, <3>2
  <2> QED
    BY <1>4, <1>6, <2>1 DEF Exclusive, SameStore
<1>7. ASSUME NEW u \in Threads, th'[u].fd \in Fds, th'[u].pc = "initgen"
      PROVE  fd_generations'[th'[u].fd] = 0
  BY <1>0, <1>7, OthersSame DEF Proceeds, Exclusive, SameStore
<1> QED
  BY <1>0, <1>2, <1>3, <1>5, <1>6, <1>7 DEF Exclusive

(* what is submitted is claimed already, with ports of its own *)
NothingNew ==
  \A e \in Submitted' : e \in Submitted \/ (ClaimOf(e) \in Claims /\ OwnPorts(e, e.conn))

LEMMA FollowsClaims ==
  ASSUME SameStore, NEW t \in Threads, OnlyMoves(t), Proceeds(t), NothingNew
  PROVE  Claims' \subseteq Claims
<1> SUFFICES ASSUME NEW a \in Claims' PROVE a \in Claims
  OBVIOUS
<1>0. Threads' = Threads /\ app' = app
  BY DEF Threads, SameStore
<1>1. (\E u \in Claiming' : a = Claim(u)') \/ (\E e \in Submitted' : a = ClaimOf(e))
  BY DEF Claims, Claim, ClaimOf
<1>2. ASSUME NEW u \in Claiming', a = Claim(u)' PROVE a \in Claims
  <2>1. u \in Threads /\ (HasGen(u) \/ Saved(u))'
    BY <1>0, <1>2 DEF Claiming
  <2>2. (HasGen(u) \/ Saved(u)) /\ Claim(u)' = Claim(u)
    BY <1>0, <2>1, OthersSame DEF Proceeds
  <2> QED
    BY <1>2, <2>1, <2>2, ClaimsAre DEF Claiming
<1>3. ASSUME NEW e \in Submitted', a = ClaimOf(e) PROVE a \in Claims
  BY <1>3, ClaimsAre DEF NothingNew
<1> QED
  BY <1>1, <1>2, <1>3

LEMMA FewerAgree ==
  ASSUME Agree, SameStore, Claims' \subseteq Claims, NEW t \in Threads, OnlyMoves(t), Proceeds(t)
  PROVE  Agree'
<1>0. /\ Threads' = Threads /\ Fds' = Fds /\ app' = app
      /\ \A f : Gen(f)' = Gen(f)
  BY DEF Threads, Fds, SameStore, Gen
<1>1. ASSUME NEW a \in Claims'
      PROVE  /\ a.fd \in Fds /\ a.gen \in 1 .. Gen(a.fd)' /\ a.conn \in 1 .. Len(opened')
             /\ a.gen = Gen(a.fd)' => a.conn = conns'[a.fd].id
  BY <1>0 DEF Agree, SameStore
<1>2. \A a, b \in Claims' : a.fd = b.fd /\ a.gen = b.gen => a.conn = b.conn
  BY DEF Agree
<1>3. ASSUME NEW u \in Threads, Closing(u, {"reset", "kernel"})', NEW a \in Claims', a.fd = th'[u].fd
      PROVE  a.gen # Gen(a.fd)'
  <2>1. Closing(u, {"reset", "kernel"}) /\ th'[u].fd = th[u].fd
    <3>1. CASE u = t
      BY <1>3, <3>1 DEF Proceeds
    <3>2. CASE u # t
      BY <1>0, <1>3, <3>2, OthersSame DEF Closing
    <3> QED
      BY <3>1, <3>2
  <2> QED
    BY <1>0, <1>3, <2>1 DEF Agree
<1> QED
  BY <1>0, <1>1, <1>2, <1>3 DEF Agree

LEMMA FollowsTuples ==
  ASSUME TuplesAreOwn, SameStore, socket_tuples' = socket_tuples,
         NEW t \in Threads, OnlyMoves(t), Follows(t),
         \A e \in Submitted' : OwnPorts(e, e.conn)'
  PROVE  TuplesAreOwn'
<1>0. /\ Threads' = Threads /\ Fds' = Fds /\ app' = app /\ AllFds' = AllFds
      /\ \A f : Gen(f)' = Gen(f)
  BY DEF Threads, Fds, AllFds, SameStore, Gen
<1>1. ASSUME NEW k \in DOMAIN socket_tuples'
      PROVE  /\ k[1] \in AllFds
             /\ DOMAIN socket_tuples'[k] = {"local", "remote"}
             /\ k[1] = Listener => socket_tuples'[k].local \in {NoPort, ListenPort}
             /\ k[1] \in Fds =>
                  /\ k = <<k[1], Gen(k[1])'>> /\ conns'[k[1]].id # 0
                  /\ socket_tuples'[k].local \in {NoPort, opened'[conns'[k[1]].id].local}
                  /\ socket_tuples'[k].remote \in {NoPort, opened'[conns'[k[1]].id].remote}
  BY <1>0 DEF TuplesAreOwn, SameStore, OwnPorts
<1>2. ASSUME NEW u \in Threads, Closing(u, {"bump", "reset", "kernel"})', NEW k \in DOMAIN socket_tuples'
      PROVE  k[1] # th'[u].fd
  <2>1. Closing(u, {"bump", "reset", "kernel"}) /\ th'[u].fd = th[u].fd
    <3>1. CASE u = t
      BY <1>2, <3>1 DEF Follows
    <3>2. CASE u # t
      BY <1>0, <1>2, <3>2, OthersSame DEF Closing
    <3> QED
      BY <3>1, <3>2
  <2> QED
    BY <2>1 DEF TuplesAreOwn
<1>3. ASSUME NEW u \in Threads, th'[u].op = "accepted", th'[u].pc \in {"gen", "initgen", "tuple"}
      PROVE  opened'[th'[u].conn].local = ListenPort
  BY <1>0, <1>3, OthersSame DEF TuplesAreOwn, Follows, SameStore
<1> QED
  BY <1>0, <1>1, <1>2, <1>3 DEF TuplesAreOwn, OwnPorts

LEMMA LocalStep ==
  ASSUME IInv, SameStore, socket_tuples' = socket_tuples, NothingNew, Shapes',
         NEW t \in Threads, OnlyMoves(t), Follows(t)
  PROVE  IInv'
<1>1. Exclusive'
  BY FollowsExclusive DEF IInv, Follows
<1>2. Agree'
  BY FollowsClaims, FewerAgree DEF IInv, Follows
<1>3. \A e \in Submitted' : OwnPorts(e, e.conn)'
  BY DEF IInv, TuplesAreOwn, OwnPorts, SameStore, NothingNew
<1> QED
  BY <1>1, <1>2, <1>3, FollowsTuples DEF IInv

-----------------------------------------------------------------------------
(* What a step does to the thread that takes it *)

Fields == {"pc", "op", "sys", "fd", "dir", "conn", "buf", "base", "gen", "cpu", "plan", "idx", "seq",
           "ctx", "ret", "lossy", "peek", "unread", "ssl", "sslDir", "touched"}

LEMMA IdleFields == DOMAIN Idle = Fields
BY DEF Idle, Fields

Only(t) ==
  /\ DOMAIN th' = DOMAIN th /\ DOMAIN th'[t] = Fields
  /\ \A u \in DOMAIN th : u # t => th'[u] = th[u]

(* t moves on within its call *)
Keeps(t) ==
  /\ th'[t].op = th[t].op /\ th'[t].fd = th[t].fd /\ th'[t].gen = th[t].gen
  /\ th'[t].conn = th[t].conn /\ th'[t].ctx = th[t].ctx /\ th'[t].cpu = th[t].cpu
  /\ th'[t].ssl = th[t].ssl /\ th'[t].touched = th[t].touched
  /\ th'[t].dir = th[t].dir /\ th'[t].sslDir = th[t].sslDir

(* t is back in user space, perhaps inside an SSL_* call *)
Returns(t) ==
  /\ Only(t) /\ th'[t].pc = "user" /\ th'[t].op = "none" /\ th'[t].fd = NoFd
  /\ th'[t].gen = 0 /\ th'[t].conn = 0 /\ th'[t].ctx = 0
  /\ th'[t].dir = "write" /\ th'[t].sslDir \in {th[t].sslDir, "write"}
  /\ \/ th'[t].ssl = th[t].ssl /\ th'[t].touched = th[t].touched
     \/ th'[t].ssl = NoFd /\ th'[t].touched = FALSE

LastFdMoves(t) ==
  /\ DOMAIN thread_last_fd' = DOMAIN thread_last_fd
  /\ \A u \in DOMAIN thread_last_fd : u # t => thread_last_fd'[u] = thread_last_fd[u]
  /\ thread_last_fd'[t] \in {thread_last_fd[t], th[t].fd}

LEMMA ShapesStep ==
  ASSUME Shapes, app' = app, NEW t \in Threads, Only(t), ThreadOK(t)', StoreOK', RingsOK', LastFdMoves(t)
  PROVE  Shapes' /\ OnlyMoves(t)
<1>0. Threads' = Threads /\ Fds' = Fds /\ AllFds' = AllFds /\ SslMode' = SslMode
  BY DEF Threads, Fds, AllFds, SslMode
<1>1. ASSUME NEW u \in Threads, u # t PROVE ThreadOK(u)'
  <2>1. th'[u] = th[u] /\ thread_last_fd'[u] = thread_last_fd[u] /\ ThreadOK(u)
    BY <1>1 DEF Shapes, Only, LastFdMoves
  <2> QED
    BY <1>0, <2>1 DEF ThreadOK, Saved
<1>2. Shapes'
  BY <1>0, <1>1 DEF Shapes, Only, LastFdMoves
<1> QED
  BY <1>2 DEF Only, OnlyMoves, Shapes

(* a thread that returns gives up everything but its SSL_* call *)
LEMMA ReturnsFollows ==
  ASSUME Shapes, app' = app, NEW t \in Threads, Returns(t), LastFdMoves(t),
         thread_last_fd'[t] = thread_last_fd[t]
  PROVE  ThreadOK(t)' /\ Follows(t)
<1>0. Threads' = Threads /\ Fds' = Fds /\ SslMode' = SslMode
  BY DEF Threads, Fds, SslMode
<1>1. ThreadOK(t) /\ NoFd \notin Fds
  BY DEF Shapes, AllFds
<1>2. ThreadOK(t)'
  BY <1>0, <1>1, IdleFields DEF ThreadOK, Returns, Only, Saved, Pcs, Emitting, DataOps, NoFd
<1>3. Follows(t)
  BY <1>0, <1>1 DEF Returns, Follows, Proceeds, Strong, HasGen, Saved, Holds, Closing, Emitting, Claim
<1> QED
  BY <1>2, <1>3

(* the order of the probes' steps after the generation is known *)
Progress(t) ==
  <<th[t].pc, th'[t].pc>> \in
    {<<"emit", "seq">>, <<"seq", "put">>, <<"put", "copy">>, <<"copy", "emit">>, <<"emit", "emit">>}
    \cup (IF th[t].op = "write" THEN {<<"emit", "kernel">>} ELSE {})
    \cup (IF th[t].op = "close" THEN {<<"emit", "untuple">>, <<"reset", "kernel">>} ELSE {})

LEMMA KeepsFollows ==
  ASSUME Shapes, app' = app, NEW t \in Threads, Only(t), Keeps(t), LastFdMoves(t), Progress(t)
  PROVE  ThreadOK(t)' /\ Follows(t)
<1>0. Threads' = Threads /\ Fds' = Fds /\ SslMode' = SslMode
  BY DEF Threads, Fds, SslMode
<1>1. ThreadOK(t) /\ NoFd \notin Fds
  BY DEF Shapes, AllFds
<1>2. ThreadOK(t)'
  <2>1. th'[t].pc \in {"emit", "seq", "put", "copy", "kernel", "untuple"} /\ th[t].pc # "user"
    BY DEF Progress
  <2>2. th'[t].touched => th'[t].ssl # NoFd /\ thread_last_fd'[t] = th'[t].ssl
    BY <1>1, <2>1 DEF ThreadOK, Keeps, LastFdMoves
  <2> QED
    BY <1>0, <1>1, <2>1, <2>2, IdleFields
    DEF ThreadOK, Keeps, Only, Saved, Pcs, Emitting, DataOps, NoFd, Progress
<1>3. Follows(t)
  BY <1>0, <1>1
  DEF Keeps, Follows, Proceeds, Strong, HasGen, Saved, Holds, Closing, Emitting, Claim, ThreadOK, Progress
<1> QED
  BY <1>2, <1>3

LEMMA StoreSame ==
  ASSUME StoreOK, app' = app, conns' = conns, opened' = opened, fd_generations' = fd_generations
  PROVE  StoreOK' /\ SameStore
BY DEF StoreOK, SameStore, AllFds, Fds, Ports

LEMMA OutSame ==
  ASSUME RingsOK, rings' = rings, got' = got
  PROVE  RingsOK' /\ NothingNew
<1>1. Submitted' = Submitted
  BY DEF Submitted, Ready
<1> QED
  BY <1>1 DEF RingsOK, NothingNew

LEMMA KeepsStep ==
  ASSUME IInv, SameStore, StoreOK', socket_tuples' = socket_tuples, NothingNew, RingsOK',
         NEW t \in Threads, Only(t), LastFdMoves(t),
         \/ Keeps(t) /\ Progress(t)
         \/ Returns(t) /\ thread_last_fd'[t] = thread_last_fd[t]
  PROVE  IInv'
<1>1. ThreadOK(t)' /\ Follows(t)
  BY KeepsFollows, ReturnsFollows DEF IInv, SameStore
<1> QED
  BY <1>1, ShapesStep, LocalStep DEF IInv, SameStore

LEMMA LastSame ==
  ASSUME NEW t, thread_last_fd' = thread_last_fd
  PROVE  LastFdMoves(t)
BY DEF LastFdMoves

LEMMA ThreadDomain ==
  ASSUME Shapes, NEW t \in Threads
  PROVE  t \in DOMAIN th /\ DOMAIN th[t] = Fields
BY IdleFields DEF Shapes, ThreadOK

-----------------------------------------------------------------------------
(* One lemma for each action *)

LEMMA LookupSeqStep ==
  ASSUME IInv, NEW t \in Threads, LookupSeq(t)
  PROVE  IInv'
<1>1. Only(t) /\ Keeps(t) /\ th'[t].pc = "put" /\ th[t].pc = "seq"
  BY ThreadDomain DEF IInv, LookupSeq, Only, Keeps, Fields
<1>2. Progress(t)
  BY <1>1 DEF Progress
<1>3. /\ app' = app /\ conns' = conns /\ opened' = opened /\ fd_generations' = fd_generations
      /\ socket_tuples' = socket_tuples /\ thread_last_fd' = thread_last_fd /\ rings' = rings /\ got' = got
  BY DEF LookupSeq, appVars, mapVars, outVars
<1> QED
  BY <1>1, <1>2, <1>3, StoreSame, OutSame, LastSame, KeepsStep DEF IInv, Shapes

LEMMA UpdateSeqStep ==
  ASSUME IInv, NEW t \in Threads, UpdateSeq(t)
  PROVE  IInv'
<1>1. Only(t) /\ Keeps(t) /\ th'[t].pc = "copy" /\ th[t].pc = "put"
  BY ThreadDomain DEF IInv, UpdateSeq, Only, Keeps, Fields
<1>2. Progress(t)
  BY <1>1 DEF Progress
<1>3. /\ app' = app /\ conns' = conns /\ opened' = opened /\ fd_generations' = fd_generations
      /\ socket_tuples' = socket_tuples /\ thread_last_fd' = thread_last_fd /\ rings' = rings /\ got' = got
  BY DEF UpdateSeq, appVars, mapVars, outVars
<1> QED
  BY <1>1, <1>2, <1>3, StoreSame, OutSame, LastSame, KeepsStep DEF IInv, Shapes

LEMMA ResetSeqStep ==
  ASSUME IInv, NEW t \in Threads, ResetSeq(t)
  PROVE  IInv'
<1>1. Only(t) /\ Keeps(t) /\ th'[t].pc = "kernel" /\ th[t].pc = "reset"
  BY ThreadDomain DEF IInv, ResetSeq, Only, Keeps, Fields
<1>2. Progress(t)
  BY <1>1 DEF Progress, IInv, Shapes, ThreadOK
<1>3. /\ app' = app /\ conns' = conns /\ opened' = opened /\ fd_generations' = fd_generations
      /\ socket_tuples' = socket_tuples /\ thread_last_fd' = thread_last_fd /\ rings' = rings /\ got' = got
  BY DEF ResetSeq, appVars, mapVars, outVars
<1> QED
  BY <1>1, <1>2, <1>3, StoreSame, OutSame, LastSame, KeepsStep DEF IInv, Shapes

LEMMA NextChunkKeeps ==
  ASSUME Shapes, NEW t \in Threads, NEW lossy, NextChunk(t, lossy), th[t].pc \in {"emit", "copy"}
  PROVE  Only(t) /\ Keeps(t) /\ Progress(t)
<1>1. Only(t) /\ Keeps(t) /\ th'[t].pc = "emit"
  BY ThreadDomain DEF NextChunk, Only, Keeps, Fields
<1> QED
  BY <1>1 DEF Progress

LEMMA ReserveKeeps ==
  ASSUME Shapes, NEW t \in Threads, Reserve(t), th[t].pc = "emit", got' = got, th[t].cpu \in Cpus
  PROVE  Only(t) /\ Keeps(t) /\ Progress(t) /\ RingsOK' /\ NothingNew
<1>1. CASE RingHasRoom(th[t].cpu)
  <2>1. /\ rings' = [rings EXCEPT ![th[t].cpu] = Append(@, [st |-> "busy", id |-> <<th[t].sys, th[t].idx>>])]
        /\ th' = [th EXCEPT ![t].pc = "seq"]
    BY <1>1 DEF Reserve
  <2>2. Only(t) /\ Keeps(t) /\ th'[t].pc = "seq"
    BY <2>1, ThreadDomain DEF Only, Keeps, Fields
  <2>3. RingsOK' /\ Submitted' = Submitted
    BY <2>1, ReserveStep DEF Shapes
  <2> QED
    BY <2>2, <2>3 DEF Progress, NothingNew
<1>2. CASE ~RingHasRoom(th[t].cpu)
  <2>1. NextChunk(t, TRUE) /\ rings' = rings
    BY <1>2 DEF Reserve
  <2> QED
    BY <2>1, NextChunkKeeps, OutSame DEF Shapes
<1> QED
  BY <1>1, <1>2

LEMMA EmitDataStep ==
  ASSUME IInv, NEW t \in Threads, EmitData(t)
  PROVE  IInv'
<1>1. Shapes /\ th[t].pc = "emit" /\ th[t].cpu \in Cpus
  BY DEF IInv, Shapes, ThreadOK, EmitData
<1>2. /\ app' = app /\ conns' = conns /\ opened' = opened /\ fd_generations' = fd_generations
      /\ socket_tuples' = socket_tuples /\ got' = got
  BY DEF EmitData, appVars
<1>3. LastFdMoves(t)
  BY DEF EmitData, LastFdMoves, IInv, Shapes
<1>4. Only(t) /\ Keeps(t) /\ Progress(t) /\ RingsOK' /\ NothingNew
  <2>1. CASE NextChunk(t, TRUE) /\ rings' = rings
    BY <1>1, <1>2, <2>1, NextChunkKeeps, OutSame DEF Shapes
  <2>2. CASE Reserve(t)
    BY <1>1, <1>2, <2>2, ReserveKeeps
  <2> QED
    BY <2>1, <2>2 DEF EmitData
<1> QED
  BY <1>1, <1>2, <1>3, <1>4, StoreSame, KeepsStep DEF Shapes

LEMMA EmitControlStep ==
  ASSUME IInv, NEW t \in Threads, EmitControl(t)
  PROVE  IInv'
<1>1. Shapes /\ th[t].pc = "emit" /\ th[t].cpu \in Cpus
  BY DEF IInv, Shapes, ThreadOK, EmitControl
<1>2. /\ app' = app /\ conns' = conns /\ opened' = opened /\ fd_generations' = fd_generations
      /\ socket_tuples' = socket_tuples /\ got' = got /\ thread_last_fd' = thread_last_fd
  BY DEF EmitControl, appVars, mapVars
<1>3. Only(t) /\ Keeps(t) /\ Progress(t) /\ RingsOK' /\ NothingNew
  BY <1>1, <1>2, ReserveKeeps DEF EmitControl
<1> QED
  BY <1>1, <1>2, <1>3, StoreSame, LastSame, KeepsStep DEF Shapes

LEMMA EmitDoneStep ==
  ASSUME IInv, NEW t \in Threads, EmitDone(t)
  PROVE  IInv'
<1>1. Shapes /\ th[t].pc = "emit"
  BY DEF IInv, EmitDone
<1>2. /\ app' = app /\ conns' = conns /\ opened' = opened /\ fd_generations' = fd_generations
      /\ socket_tuples' = socket_tuples /\ got' = got /\ thread_last_fd' = thread_last_fd /\ rings' = rings
  BY DEF EmitDone, appVars, mapVars
<1>3. Only(t) /\ ((Keeps(t) /\ Progress(t)) \/ Returns(t))
  <2>1. CASE th[t].op = "write" /\ th' = [th EXCEPT ![t].pc = "kernel"]
    BY <1>1, <2>1, ThreadDomain DEF Only, Keeps, Progress, Fields
  <2>2. CASE th[t].op = "close" /\ th' = [th EXCEPT ![t].pc = "untuple"]
    BY <1>1, <2>2, ThreadDomain DEF Only, Keeps, Progress, Fields
  <2>3. CASE th' = [th EXCEPT ![t] = Returned(t)]
    BY <1>1, <2>3, ThreadDomain DEF Only, Returns, Returned, Idle, Fields
  <2> QED
    BY <2>1, <2>2, <2>3 DEF EmitDone
<1> QED
  BY <1>1, <1>2, <1>3, StoreSame, OutSame, LastSame, KeepsStep DEF Shapes

(* the event is its thread's claim, with the ports of the tuple in force *)
LEMMA EventIsOwn ==
  ASSUME IInv, NEW t \in Threads, th[t].pc = "copy"
  PROVE  ClaimOf(Event(t)) \in Claims /\ OwnPorts(Event(t), Event(t).conn)
<1> DEFINE e == Event(t)  tuple == KnownTuple(th[t].fd, th[t].gen)
<1>1. ThreadOK(t) /\ th[t].fd \in Fds
  BY DEF IInv, Shapes, ThreadOK, Emitting
<1>2. t \in Claiming
  BY <1>1 DEF Claiming, HasGen, Emitting
<1>3. /\ e.fd = th[t].fd /\ e.gen = th[t].gen /\ e.conn = th[t].conn
      /\ e.local = tuple.local /\ e.remote = tuple.remote
  BY DEF Event
<1>4. ClaimOf(e) = Claim(t) /\ Claim(t) \in Claims
  BY <1>2, <1>3, ClaimsAre DEF ClaimOf, Claim
<1>5. th[t].gen = Gen(th[t].fd) => th[t].conn = conns[th[t].fd].id
  <2>1. Claim(t).fd = th[t].fd /\ Claim(t).gen = th[t].gen /\ Claim(t).conn = th[t].conn
    BY DEF Claim
  <2> QED
    BY <1>4, <2>1 DEF IInv, Agree
<1>6. OwnPorts(tuple, th[t].conn)
  <2>1. CASE <<th[t].fd, th[t].gen>> \in DOMAIN socket_tuples
    <3> DEFINE k == <<th[t].fd, th[t].gen>>
    <3>1. tuple = socket_tuples[k] /\ k \in DOMAIN socket_tuples /\ k[1] = th[t].fd /\ k[2] = th[t].gen
      BY <2>1 DEF KnownTuple
    <3>2. k = <<k[1], Gen(k[1])>> /\ OwnPorts(socket_tuples[k], conns[k[1]].id)
      BY <1>1, <3>1 DEF IInv, TuplesAreOwn
    <3>3. th[t].gen = Gen(th[t].fd)
      BY <3>1, <3>2
    <3> HIDE DEF k
    <3> QED
      BY <1>5, <3>1, <3>2, <3>3
  <2>2. CASE <<th[t].fd, th[t].gen>> \notin DOMAIN socket_tuples
    BY <2>2 DEF KnownTuple, NoTuple, OwnPorts
  <2> QED
    BY <2>1, <2>2
<1>7. OwnPorts(e, e.conn)
  BY <1>3, <1>6 DEF OwnPorts
<1> QED
  BY <1>4, <1>7

LEMMA CopyStep ==
  ASSUME IInv, NEW t \in Threads, Copy(t)
  PROVE  IInv'
<1>1. Shapes /\ th[t].pc = "copy" /\ th[t].cpu \in Cpus
  BY DEF IInv, Shapes, ThreadOK, Copy
<1>2. /\ app' = app /\ conns' = conns /\ opened' = opened /\ fd_generations' = fd_generations
      /\ socket_tuples' = socket_tuples /\ got' = got /\ thread_last_fd' = thread_last_fd
  BY DEF Copy, appVars, mapVars
<1>3. Only(t) /\ Keeps(t) /\ Progress(t)
  BY <1>1, NextChunkKeeps DEF Copy
<1>4. RingsOK' /\ NothingNew
  <2>1. CASE Fill(t, [st |-> "ready", id |-> <<th[t].sys, th[t].idx>>, ev |-> Event(t)])
    <3> DEFINE s == [st |-> "ready", id |-> <<th[t].sys, th[t].idx>>, ev |-> Event(t)]
    <3>1. rings' = [rings EXCEPT ![th[t].cpu][Slot(t)] = s]
      BY <2>1 DEF Fill
    <3>2. s.ev = Event(t)
      OBVIOUS
    <3> HIDE DEF s
    <3>3. RingsOK' /\ Submitted' \subseteq Submitted \cup {Event(t)}
      BY <1>1, <1>2, <3>1, <3>2, FillStep DEF Shapes
    <3> QED
      BY <1>1, <3>3, EventIsOwn DEF NothingNew
  <2>2. CASE Fill(t, [st |-> "discarded", id |-> <<th[t].sys, th[t].idx>>])
    <3> DEFINE s == [st |-> "discarded", id |-> <<th[t].sys, th[t].idx>>]
    <3>1. rings' = [rings EXCEPT ![th[t].cpu][Slot(t)] = s]
      BY <2>2 DEF Fill
    <3>2. s.st # "ready"
      OBVIOUS
    <3> HIDE DEF s
    <3>3. RingsOK' /\ Submitted' \subseteq Submitted
      BY <1>1, <1>2, <3>1, <3>2, FillStep DEF Shapes
    <3> QED
      BY <3>3 DEF NothingNew
  <2> QED
    BY <2>1, <2>2 DEF Copy
<1> QED
  BY <1>1, <1>2, <1>3, <1>4, StoreSame, LastSame, KeepsStep DEF Shapes

(* bytes move on the connection, if the descriptor still stands for it *)
LEMMA MovedSame ==
  ASSUME Shapes, app' = app, opened' = opened, fd_generations' = fd_generations,
         NEW t \in Threads, th[t].op \in DataOps, th[t].pc # "user",
         NEW n \in Nat, conns' = Moved(t, n)
  PROVE  StoreOK' /\ SameStore
<1> DEFINE fd == th[t].fd  d == th[t].dir
<1>0. Fds' = Fds /\ AllFds' = AllFds /\ Ports' = Ports
  BY DEF Fds, AllFds, Ports
<1>1. fd \in Fds /\ d \in {"read", "write"} /\ th[t].conn # 0
  BY DEF Shapes, ThreadOK, DataOps
<1>2. conns \in [Fds -> [id : 0 .. Len(opened), read : Nat, write : Nat]]
  BY DEF Shapes, StoreOK
<1>3. CASE conns[fd].id = th[t].conn /\ ~th[t].peek
  <2>1. conns' = [conns EXCEPT ![fd][d] = @ + n]
    BY <1>3 DEF Moved
  <2>2. CASE d = "read"
    <3> DEFINE r == [conns[fd] EXCEPT !.read = @ + n]
    <3>2. r \in [id : 0 .. Len(opened), read : Nat, write : Nat] /\ r.id = conns[fd].id
      BY <1>1, <1>2, SMTT(20)
    <3>3. conns' = [conns EXCEPT ![fd] = r]
      BY <2>1, <2>2
    <3> HIDE DEF r
    <3>1. /\ conns'[fd].id = conns[fd].id
          /\ conns' \in [Fds -> [id : 0 .. Len(opened), read : Nat, write : Nat]]
          /\ \A f \in Fds \ {fd} : conns'[f] = conns[f]
      BY <1>1, <1>2, <3>2, <3>3
    <3> QED
      BY <1>0, <1>1, <1>3, <3>1 DEF StoreOK, SameStore, Shapes
  <2>3. CASE d = "write"
    <3> DEFINE r == [conns[fd] EXCEPT !.write = @ + n]
    <3>2. r \in [id : 0 .. Len(opened), read : Nat, write : Nat] /\ r.id = conns[fd].id
      BY <1>1, <1>2, SMTT(20)
    <3>3. conns' = [conns EXCEPT ![fd] = r]
      BY <2>1, <2>3
    <3> HIDE DEF r
    <3>1. /\ conns'[fd].id = conns[fd].id
          /\ conns' \in [Fds -> [id : 0 .. Len(opened), read : Nat, write : Nat]]
          /\ \A f \in Fds \ {fd} : conns'[f] = conns[f]
      BY <1>1, <1>2, <3>2, <3>3
    <3> QED
      BY <1>0, <1>1, <1>3, <3>1 DEF StoreOK, SameStore, Shapes
  <2> QED
    BY <1>1, <2>2, <2>3
<1>4. CASE ~(conns[fd].id = th[t].conn /\ ~th[t].peek)
  BY <1>4, StoreSame DEF Moved, Shapes
<1> QED
  BY <1>3, <1>4

LEMMA WriteReturnStep ==
  ASSUME IInv, NEW t \in Threads, NEW n \in 0 .. Total(th[t].buf.segs), WriteReturn(t, n)
  PROVE  IInv'
<1>1. Shapes /\ th[t].pc = "kernel" /\ th[t].op = "write" /\ n \in Nat
  BY DEF IInv, WriteReturn
<1>2. /\ app' = app /\ conns' = Moved(t, n) /\ opened' = opened /\ fd_generations' = fd_generations
      /\ socket_tuples' = socket_tuples /\ got' = got /\ thread_last_fd' = thread_last_fd /\ rings' = rings
  BY DEF WriteReturn, mapVars
<1>3. StoreOK' /\ SameStore
  BY <1>1, <1>2, MovedSame DEF DataOps
<1>4. Only(t) /\ Returns(t)
  BY <1>1, ThreadDomain DEF WriteReturn, Only, Returns, Returned, Idle, Fields
<1> QED
  BY <1>1, <1>2, <1>3, <1>4, OutSame, LastSame, KeepsStep DEF Shapes

LEMMA AcceptFailsStep ==
  ASSUME IInv, NEW t \in Threads, AcceptFails(t)
  PROVE  IInv'
<1>1. Shapes
  BY DEF IInv
<1>2. /\ app' = app /\ conns' = conns /\ opened' = opened /\ fd_generations' = fd_generations
      /\ socket_tuples' = socket_tuples /\ got' = got /\ thread_last_fd' = thread_last_fd /\ rings' = rings
  BY DEF AcceptFails, mapVars, appVars, outVars
<1>3. Only(t) /\ Returns(t)
  BY <1>1, ThreadDomain DEF AcceptFails, Only, Returns, Idle, Fields
<1> QED
  BY <1>1, <1>2, <1>3, StoreSame, OutSame, LastSame, KeepsStep DEF Shapes

(* the exit probe of a read goes on with the generation saved at entry *)
LEMMA ReadReturnStep ==
  ASSUME IInv, NEW t \in Threads, NEW n \in 0 .. Total(th[t].buf.segs), NEW cpu \in Cpus, ReadReturn(t, n, cpu)
  PROVE  IInv'
<1>1. Shapes /\ ThreadOK(t) /\ th[t].pc = "kernel" /\ th[t].op = "read" /\ n \in Nat
  BY DEF IInv, Shapes, ReadReturn
<1>2. /\ app' = app /\ conns' = Moved(t, n) /\ opened' = opened /\ fd_generations' = fd_generations
      /\ socket_tuples' = socket_tuples /\ got' = got /\ thread_last_fd' = thread_last_fd /\ rings' = rings
  BY DEF ReadReturn, mapVars
<1>3. StoreOK' /\ SameStore
  BY <1>1, <1>2, MovedSame DEF DataOps
<1>4. CASE th' = [th EXCEPT ![t] = Returned(t)]
  <2>1. Only(t) /\ Returns(t)
    BY <1>1, <1>4, ThreadDomain DEF Only, Returns, Returned, Idle, Fields
  <2> QED
    BY <1>1, <1>2, <1>3, <2>1, OutSame, LastSame, KeepsStep DEF Shapes
<1>5. CASE /\ n > 0 /\ th[t].ctx # 0
           /\ th' = [th EXCEPT ![t].pc = "emit", ![t].cpu = cpu, ![t].ret = n, ![t].ctx = 0,
                               ![t].gen = th[t].ctx, ![t].plan = DataEvents(th[t].buf, n)]
  <2>1. /\ Only(t) /\ th'[t].pc = "emit" /\ th'[t].cpu = cpu /\ th'[t].ctx = 0 /\ th'[t].gen = th[t].ctx
        /\ th'[t].op = "read" /\ th'[t].fd = th[t].fd /\ th'[t].conn = th[t].conn
        /\ th'[t].ssl = th[t].ssl /\ th'[t].touched = th[t].touched
        /\ th'[t].dir = th[t].dir /\ th'[t].sslDir = th[t].sslDir
    BY <1>1, <1>5, ThreadDomain DEF Only, Fields
  <2>2. th[t].gen = th[t].ctx /\ Saved(t)
    BY <1>1, <1>5 DEF ThreadOK, Saved
  <2>0. Threads' = Threads /\ Fds' = Fds /\ SslMode' = SslMode
    BY <1>2 DEF Threads, Fds, SslMode
  <2>3. ThreadOK(t)'
    BY <1>1, <1>2, <2>0, <2>1, <2>2, IdleFields DEF ThreadOK, Saved, Pcs, Emitting, DataOps, Only
  <2>4. Follows(t)
    BY <1>1, <2>0, <2>1, <2>2 DEF Follows, Proceeds, Strong, HasGen, Saved, Holds, Closing, Emitting, Claim, ThreadOK
  <2> QED
    BY <1>1, <1>2, <1>3, <2>1, <2>3, <2>4, OutSame, LastSame, ShapesStep, LocalStep DEF Shapes
<1> QED
  BY <1>4, <1>5 DEF ReadReturn

LEMMA FilterStep ==
  ASSUME IInv, NEW t \in Threads, Filter(t)
  PROVE  IInv'
<1>1. Shapes /\ ThreadOK(t) /\ th[t].pc = "allowed" /\ th[t].op \in {"read", "write", "close"}
  BY DEF IInv, Shapes, ThreadOK, Filter
<1>2. /\ app' = app /\ conns' = conns /\ opened' = opened /\ fd_generations' = fd_generations
      /\ socket_tuples' = socket_tuples /\ got' = got /\ rings' = rings
  BY DEF Filter, appVars, outVars
<1>3. LastFdMoves(t) /\ thread_last_fd'[t] = th[t].fd
  BY <1>1 DEF Filter, LastFdMoves, Shapes
<1>0. Threads' = Threads /\ Fds' = Fds /\ SslMode' = SslMode
  BY <1>2 DEF Threads, Fds, SslMode
<1>4. /\ Only(t) /\ th'[t].cpu = th[t].cpu /\ th'[t].gen = th[t].gen
      /\ th'[t].op = th[t].op /\ th'[t].fd = th[t].fd /\ th'[t].conn = th[t].conn
      /\ th'[t].ssl = th[t].ssl /\ th'[t].touched \in {th[t].touched, InSsl(t)}
      /\ th'[t].dir = th[t].dir /\ th'[t].sslDir = th[t].sslDir
      /\ \/ th'[t].pc = "kernel" /\ th'[t].ctx = th[t].gen /\ th[t].op = "read"
         \/ th'[t].pc = "emit" /\ th'[t].ctx = th[t].ctx /\ th[t].op \in {"write", "close"}
         \/ th'[t].pc = "untuple" /\ th'[t].ctx = th[t].ctx /\ th[t].op = "close"
         \/ th'[t].pc = "kernel" /\ th'[t].ctx = th[t].ctx /\ th[t].op \in {"read", "write"}
  BY <1>1, ThreadDomain DEF Filter, Only, Fields
<1>5. th[t].ctx = 0
  BY <1>1 DEF ThreadOK
<1>6. ThreadOK(t)'
  <2>1. th'[t].touched => th'[t].ssl # NoFd /\ thread_last_fd'[t] = th'[t].ssl
    BY <1>1, <1>3, <1>4 DEF ThreadOK, InSsl
  <2> QED
    BY <1>0, <1>1, <1>4, <1>5, <2>1, IdleFields DEF ThreadOK, Saved, Pcs, Emitting, DataOps, Only
<1>7. Follows(t)
  BY <1>0, <1>1, <1>4, <1>5 DEF Follows, Proceeds, Strong, HasGen, Saved, Holds, Closing, Emitting, Claim, ThreadOK
<1> QED
  BY <1>1, <1>2, <1>3, <1>4, <1>6, <1>7, StoreSame, OutSame, ShapesStep, LocalStep DEF Shapes

(* bind and accept work on the listener, which is in nobody's way *)
LEMMA ListenerStep ==
  ASSUME IInv, NEW t \in Threads, NEW cpu \in Cpus, EnterBind(t, cpu) \/ EnterAccept(t, cpu)
  PROVE  IInv'
<1>1. Shapes /\ ThreadOK(t) /\ th[t].pc = "user" /\ NoFd \notin Fds /\ Listener \notin Fds /\ NoFd # Listener
  BY DEF IInv, Shapes, EnterBind, EnterAccept, Enter, AllFds
<1>2. /\ app' = app /\ conns' = conns /\ opened' = opened /\ fd_generations' = fd_generations
      /\ socket_tuples' = socket_tuples /\ got' = got /\ rings' = rings /\ thread_last_fd' = thread_last_fd
  BY DEF EnterBind, EnterAccept, mapVars, outVars
<1>0. Threads' = Threads /\ Fds' = Fds /\ SslMode' = SslMode
  BY <1>2 DEF Threads, Fds, SslMode
<1>3. th[t].ssl = NoFd
  BY <1>1 DEF EnterBind, EnterAccept, Enter, ThreadOK
<1>4. /\ Only(t) /\ th'[t].pc = "gen" /\ th'[t].op \in {"bind", "accept"} /\ th'[t].fd = Listener
      /\ th'[t].cpu = cpu /\ th'[t].gen = th[t].gen /\ th'[t].ctx = th[t].ctx /\ th'[t].conn = th[t].conn
      /\ th'[t].ssl = th[t].ssl /\ th'[t].touched = th[t].touched
      /\ th'[t].dir = th[t].dir /\ th'[t].sslDir = th[t].sslDir
  <2>1. PICK op \in {"bind", "accept"} : th' = [th EXCEPT ![t] = Started(t, op, Listener, cpu)]
    BY DEF EnterBind, EnterAccept
  <2> QED
    BY <1>1, <2>1, ThreadDomain DEF Started, Only, Fields
<1>5. ThreadOK(t)'
  BY <1>0, <1>1, <1>2, <1>3, <1>4, IdleFields DEF ThreadOK, Saved, Pcs, Emitting, DataOps, Only
<1>6. Follows(t)
  BY <1>0, <1>1, <1>3, <1>4 DEF Follows, Proceeds, Strong, HasGen, Saved, Holds, Closing, Emitting, Claim
<1> QED
  BY <1>1, <1>2, <1>4, <1>5, <1>6, StoreSame, OutSame, LastSame, ShapesStep, LocalStep DEF Shapes

LEMMA AgentReadStep ==
  ASSUME IInv, NEW c \in Cpus, AgentRead(c), Threads # {}
  PROVE  IInv'
<1>1. PICK t \in Threads : TRUE
  OBVIOUS
<1>2. /\ app' = app /\ conns' = conns /\ opened' = opened /\ fd_generations' = fd_generations
      /\ socket_tuples' = socket_tuples /\ thread_last_fd' = thread_last_fd /\ th' = th
  BY DEF AgentRead, appVars, mapVars
<1>0. Threads' = Threads /\ Fds' = Fds /\ SslMode' = SslMode /\ AllFds' = AllFds
  BY <1>2 DEF Threads, Fds, SslMode, AllFds
<1>3. RingsOK' /\ Submitted' \subseteq Submitted /\ NothingNew
  BY ReadStep DEF IInv, Shapes, NothingNew
<1>4. StoreOK' /\ SameStore
  BY <1>2, StoreSame DEF IInv, Shapes
<1>5. Shapes'
  BY <1>0, <1>2, <1>3, <1>4 DEF IInv, Shapes, ThreadOK, Saved
<1>6. OnlyMoves(t)
  BY <1>2 DEF OnlyMoves
<1>7. Follows(t)
  BY <1>0, <1>2 DEF Follows, Proceeds, Strong, HasGen, Saved, Holds, Closing, Emitting, Claim, IInv, Exclusive
<1> QED
  BY <1>2, <1>3, <1>4, <1>5, <1>6, <1>7, LocalStep

-----------------------------------------------------------------------------
(* A probe gets its generation *)

LEMMA GeneratedIs ==
  ASSUME Shapes, NEW t \in Threads, NEW g, Generated(t, g), th[t].pc \in {"gen", "initgen"}
  PROVE  /\ Only(t) /\ th'[t].gen = g /\ th'[t].cpu = th[t].cpu
         /\ th'[t].op = th[t].op /\ th'[t].fd = th[t].fd /\ th'[t].conn = th[t].conn
         /\ th'[t].ssl = th[t].ssl /\ th'[t].touched = th[t].touched
         /\ th'[t].dir = th[t].dir /\ th'[t].sslDir = th[t].sslDir
         /\ th'[t].ctx = (IF th[t].op = "accept" THEN g ELSE th[t].ctx)
         /\ \/ th'[t].pc = "allowed" /\ th[t].op \in {"read", "write", "close"}
            \/ th'[t].pc = "tuple" /\ th[t].op \in {"bind", "connect", "accepted"}
            \/ th'[t].pc = "kernel" /\ th[t].op = "accept"
            \/ th'[t].pc = "emit" /\ th[t].op = "ssl"
<1>1. th[t].op \in {"bind", "accept", "read", "write", "close", "connect", "accepted", "ssl"}
  BY DEF Shapes, ThreadOK
<1> QED
  BY <1>1, ThreadDomain DEF Generated, Only, Fields

(* one more claim, on the generation in force *)
LEMMA OneMoreAgrees ==
  ASSUME Agree, StoreOK, app' = app, opened' = opened, conns' = conns,
         \A f \in Fds : Gen(f)' = Gen(f),
         NEW n, Claims' \subseteq Claims \cup {n},
         n.fd \in Fds, n.gen = Gen(n.fd), n.conn = conns[n.fd].id, n.conn \in 1 .. Len(opened),
         \A u \in Threads : Closing(u, {"reset", "kernel"})' =>
           Closing(u, {"reset", "kernel"}) /\ th'[u].fd = th[u].fd /\ th[u].fd # n.fd
  PROVE  Agree'
<1>0. Threads' = Threads /\ Fds' = Fds
  BY DEF Threads, Fds
<1>1. Gen(n.fd) \in Nat \ {0}
  BY DEF StoreOK, Gen, AllFds
<1>2. ASSUME NEW a \in Claims'
      PROVE  /\ a.fd \in Fds /\ a.gen \in 1 .. Gen(a.fd)' /\ a.conn \in 1 .. Len(opened')
             /\ a.gen = Gen(a.fd)' => a.conn = conns'[a.fd].id
  <2>1. CASE a \in Claims
    BY <2>1 DEF Agree
  <2>2. CASE a = n
    BY <1>1, <2>2
  <2> QED
    BY <2>1, <2>2
<1>3. ASSUME NEW a \in Claims', NEW b \in Claims', a.fd = b.fd, a.gen = b.gen
      PROVE  a.conn = b.conn
  <2>1. \A x \in Claims : x.fd = n.fd /\ x.gen = n.gen => x.conn = n.conn
    BY DEF Agree
  <2> QED
    BY <1>3, <2>1 DEF Agree
<1>4. ASSUME NEW u \in Threads, Closing(u, {"reset", "kernel"})', NEW a \in Claims', a.fd = th'[u].fd
      PROVE  a.gen # Gen(a.fd)'
  BY <1>4 DEF Agree
<1> QED
  BY <1>0, <1>2, <1>3, <1>4 DEF Agree

(* the generation in force, or the first one, becomes the probe's *)
LEMMA GenerationStep ==
  ASSUME IInv, NEW t \in Threads, th[t].pc \in {"gen", "initgen"}, Generated(t, Gen(th[t].fd)),
         app' = app, conns' = conns, opened' = opened, socket_tuples' = socket_tuples,
         thread_last_fd' = thread_last_fd, rings' = rings, got' = got,
         fd_generations' = [fd_generations EXCEPT ![th[t].fd] = Gen(th[t].fd)]
  PROVE  IInv'
<1> DEFINE fd == th[t].fd  g == Gen(th[t].fd)
<1>0. Threads' = Threads /\ Fds' = Fds /\ AllFds' = AllFds /\ Ports' = Ports /\ SslMode' = SslMode
  BY DEF Threads, Fds, AllFds, Ports, SslMode
<1>1. Shapes /\ Exclusive /\ Agree /\ TuplesAreOwn /\ ThreadOK(t) /\ StoreOK
  BY DEF IInv, Shapes
<1>2. fd \in AllFds /\ Listener \notin Fds /\ AllFds = Fds \cup {Listener}
  BY <1>1 DEF ThreadOK, Shapes, AllFds
<1>3. g \in Nat \ {0} /\ (fd = Listener => g = 1)
  BY <1>1, <1>2 DEF StoreOK, Gen
<1>4. /\ fd_generations' \in [AllFds -> Nat] /\ fd_generations'[fd] = g
      /\ \A f \in AllFds : f # fd => fd_generations'[f] = fd_generations[f]
  BY <1>1, <1>2, <1>3 DEF StoreOK
<1>5. \A f \in AllFds : Gen(f)' = Gen(f)
  BY <1>3, <1>4 DEF Gen
<1>6. StoreOK'
  BY <1>0, <1>1, <1>2, <1>3, <1>4 DEF StoreOK
<1>7. /\ Only(t) /\ th'[t].gen = g /\ th'[t].cpu = th[t].cpu
      /\ th'[t].op = th[t].op /\ th'[t].fd = th[t].fd /\ th'[t].conn = th[t].conn
      /\ th'[t].ssl = th[t].ssl /\ th'[t].touched = th[t].touched
      /\ th'[t].dir = th[t].dir /\ th'[t].sslDir = th[t].sslDir
      /\ th'[t].ctx = (IF th[t].op = "accept" THEN g ELSE th[t].ctx)
      /\ \/ th'[t].pc = "allowed" /\ th[t].op \in {"read", "write", "close"}
         \/ th'[t].pc = "tuple" /\ th[t].op \in {"bind", "connect", "accepted"}
         \/ th'[t].pc = "kernel" /\ th[t].op = "accept"
         \/ th'[t].pc = "emit" /\ th[t].op = "ssl"
  BY <1>1, GeneratedIs
<1> HIDE DEF g
<1>8. ThreadOK(t)'
  BY <1>0, <1>1, <1>3, <1>7, IdleFields DEF ThreadOK, Saved, Pcs, Emitting, DataOps, Only
<1>9. RingsOK' /\ Submitted' = Submitted
  BY <1>1 DEF RingsOK, Shapes, Submitted, Ready
<1>10. Shapes' /\ OnlyMoves(t)
  BY <1>1, <1>6, <1>7, <1>8, <1>9, ShapesStep, LastSame
<1>11. Strong(t) <=> fd \in Fds
  BY <1>1 DEF Strong
<1>12. Strong(t)' <=> fd \in Fds
  BY <1>0, <1>1, <1>7 DEF Strong, ThreadOK
<1>13. \A u \in Threads, f \in Fds : Holds(u, f)' <=> Holds(u, f)
  BY <1>0, <1>7, <1>10, <1>11, <1>12, OthersSame DEF Holds
<1>14. \A u \in Threads : u # t /\ Strong(u) => th[u].fd # fd
  BY <1>1, <1>11 DEF Exclusive, Holds, Strong
<1>15. Exclusive'
  <2>1. ASSUME NEW u \in Threads, Strong(u)'
        PROVE  th'[u].conn = conns'[th'[u].fd].id
    BY <1>1, <1>7, <1>10, <1>11, <1>12, <2>1, OthersSame DEF Exclusive
  <2>2. ASSUME NEW u \in Threads, Strong(u)', HasGen(u)'
        PROVE  th'[u].gen = fd_generations'[th'[u].fd] /\ th'[u].gen # 0
    <3>1. CASE u = t
      BY <1>3, <1>4, <1>7, <3>1
    <3>2. CASE u # t
      <4>1. Strong(u) /\ HasGen(u) /\ th'[u] = th[u] /\ th[u].fd \in Fds
        BY <1>10, <2>2, <3>2, OthersSame DEF Strong
      <4> QED
        BY <1>1, <1>2, <1>4, <1>14, <3>2, <4>1 DEF Exclusive
    <3> QED
      BY <3>1, <3>2
  <2>3. ASSUME NEW u \in Threads, th'[u].fd \in Fds, th'[u].pc = "initgen"
        PROVE  fd_generations'[th'[u].fd] = 0
    <3>1. u # t /\ th'[u] = th[u]
      BY <1>7, <1>10, <2>3 DEF OnlyMoves
    <3>2. Strong(u)
      BY <2>3, <3>1 DEF Strong
    <3> QED
      BY <1>1, <1>2, <1>4, <1>14, <2>3, <3>1, <3>2 DEF Exclusive
  <2>4. \A u, v \in Threads, f \in Fds : Holds(u, f)' /\ Holds(v, f)' => u = v
    BY <1>1, <1>13 DEF Exclusive
  <2>5. \A u \in Threads, f \in Fds : Holds(u, f)' => conns'[f].id # 0
    BY <1>1, <1>13 DEF Exclusive
  <2> QED
    BY <1>0, <2>1, <2>2, <2>3, <2>4, <2>5 DEF Exclusive
<1>16. \A u \in Threads : /\ Closing(u, {"reset", "kernel"})' => Closing(u, {"reset", "kernel"}) /\ u # t
                          /\ Closing(u, {"bump", "reset", "kernel"})' =>
                               Closing(u, {"bump", "reset", "kernel"}) /\ u # t
  BY <1>7, <1>10 DEF Closing, OnlyMoves
<1>17. Claims' \subseteq Claims \cup {Claim(t)'} /\ (fd \notin Fds => Claims' \subseteq Claims)
  <2> SUFFICES ASSUME NEW a \in Claims' PROVE a \in Claims \/ (a = Claim(t)' /\ fd \in Fds)
    OBVIOUS
  <2>1. (\E u \in Claiming' : a = Claim(u)') \/ (\E e \in Submitted' : a = ClaimOf(e))
    BY DEF Claims, Claim, ClaimOf
  <2>2. ASSUME NEW u \in Claiming', a = Claim(u)', u # t PROVE a \in Claims
    BY <1>0, <1>10, <2>2, OthersSame, ClaimsAre DEF Claiming
  <2>3. ASSUME t \in Claiming' PROVE fd \in Fds
    BY <1>0, <1>7, <2>3 DEF Claiming, HasGen, Saved
  <2> QED
    BY <1>9, <2>1, <2>2, <2>3, ClaimsAre
<1>18. Agree'
  <2>1. CASE fd \in Fds
    <3> DEFINE n == Claim(t)'
    <3>1. n.fd = fd /\ n.gen = g /\ n.conn = th[t].conn
      BY <1>7 DEF Claim
    <3>2. th[t].conn = conns[fd].id /\ conns[fd].id # 0
      BY <1>1, <1>11, <2>1 DEF Exclusive, Holds
    <3>3. conns[fd].id \in 1 .. Len(opened)
      BY <1>1, <2>1, <3>2 DEF StoreOK
    <3>4. \A u \in Threads : Closing(u, {"reset", "kernel"})' =>
            Closing(u, {"reset", "kernel"}) /\ th'[u].fd = th[u].fd /\ th[u].fd # fd
      <4> SUFFICES ASSUME NEW u \in Threads, Closing(u, {"reset", "kernel"})'
                   PROVE  Closing(u, {"reset", "kernel"}) /\ th'[u].fd = th[u].fd /\ th[u].fd # fd
        OBVIOUS
      <4>1. Closing(u, {"reset", "kernel"}) /\ u # t /\ th'[u] = th[u]
        BY <1>10, <1>16 DEF OnlyMoves
      <4>2. Strong(u)
        BY <1>1, <4>1 DEF Closing, Strong, Shapes, ThreadOK
      <4> QED
        BY <1>14, <4>1, <4>2
    <3>5. n.gen = Gen(n.fd)
      BY <3>1 DEF g
    <3> HIDE DEF n
    <3>6. Claims' \subseteq Claims \cup {n}
      BY <1>17 DEF n
    <3> QED
      BY <1>1, <1>2, <1>5, <2>1, <3>1, <3>2, <3>3, <3>4, <3>5, <3>6, OneMoreAgrees
  <2>2. CASE fd \notin Fds
    <3>1. Claims' \subseteq Claims /\ \A f \in Fds : Gen(f)' = Gen(f)
      BY <1>2, <1>5, <1>17, <2>2
    <3>2. \A a \in Claims' : /\ a.fd \in Fds /\ a.gen \in 1 .. Gen(a.fd)' /\ a.conn \in 1 .. Len(opened')
                             /\ a.gen = Gen(a.fd)' => a.conn = conns'[a.fd].id
      BY <1>1, <3>1 DEF Agree
    <3>3. \A a, b \in Claims' : a.fd = b.fd /\ a.gen = b.gen => a.conn = b.conn
      BY <1>1, <3>1 DEF Agree
    <3>4. \A u \in Threads : Closing(u, {"reset", "kernel"})' =>
            \A a \in Claims' : a.fd = th'[u].fd => a.gen # Gen(a.fd)'
      BY <1>1, <1>10, <1>16, <3>1, <3>2 DEF Agree, OnlyMoves
    <3> QED
      BY <1>0, <3>2, <3>3, <3>4 DEF Agree
  <2> QED
    BY <2>1, <2>2
<1>19. TuplesAreOwn'
  <2>1. ASSUME NEW k \in DOMAIN socket_tuples'
        PROVE  /\ k[1] \in AllFds
               /\ DOMAIN socket_tuples'[k] = {"local", "remote"}
               /\ k[1] = Listener => socket_tuples'[k].local \in {NoPort, ListenPort}
               /\ k[1] \in Fds =>
                    /\ k = <<k[1], Gen(k[1])'>> /\ conns'[k[1]].id # 0
                    /\ socket_tuples'[k].local \in {NoPort, opened'[conns'[k[1]].id].local}
                    /\ socket_tuples'[k].remote \in {NoPort, opened'[conns'[k[1]].id].remote}
    BY <1>1, <1>5 DEF TuplesAreOwn, OwnPorts
  <2>2. ASSUME NEW u \in Threads, Closing(u, {"bump", "reset", "kernel"})', NEW k \in DOMAIN socket_tuples'
        PROVE  k[1] # th'[u].fd
    BY <1>1, <1>10, <1>16, <2>2 DEF TuplesAreOwn, OnlyMoves
  <2>3. ASSUME NEW u \in Threads, th'[u].op = "accepted", th'[u].pc \in {"gen", "initgen", "tuple"}
        PROVE  opened'[th'[u].conn].local = ListenPort
    BY <1>1, <1>7, <1>10, <2>3 DEF TuplesAreOwn, OnlyMoves
  <2>4. \A e \in Submitted' : OwnPorts(e, e.conn)'
    BY <1>1, <1>9 DEF TuplesAreOwn, OwnPorts
  <2> QED
    BY <1>0, <2>1, <2>2, <2>3, <2>4 DEF TuplesAreOwn, OwnPorts
<1> QED
  BY <1>10, <1>15, <1>18, <1>19 DEF IInv

LEMMA LookupGenerationStep ==
  ASSUME IInv, NEW t \in Threads, LookupGeneration(t)
  PROVE  IInv'
<1> DEFINE fd == th[t].fd
<1>1. Shapes /\ ThreadOK(t) /\ th[t].pc = "gen" /\ fd \in AllFds /\ StoreOK
  BY DEF IInv, Shapes, ThreadOK, LookupGeneration, AllFds
<1>2. /\ app' = app /\ conns' = conns /\ opened' = opened /\ fd_generations' = fd_generations
      /\ socket_tuples' = socket_tuples /\ got' = got /\ rings' = rings /\ thread_last_fd' = thread_last_fd
  BY DEF LookupGeneration, appVars, mapVars, outVars
<1>3. CASE fd_generations[fd] # 0 /\ Generated(t, fd_generations[fd])
  <2>1. Gen(fd) = fd_generations[fd]
    BY <1>3 DEF Gen
  <2>2. fd_generations' = [fd_generations EXCEPT ![fd] = Gen(fd)]
    BY <1>1, <1>2, <2>1 DEF StoreOK
  <2> QED
    BY <1>1, <1>2, <1>3, <2>1, <2>2, GenerationStep
<1>4. CASE fd_generations[fd] = 0 /\ th' = [th EXCEPT ![t].pc = "initgen"]
  <2>0. Threads' = Threads /\ Fds' = Fds /\ SslMode' = SslMode
    BY <1>2 DEF Threads, Fds, SslMode
  <2>1. Only(t) /\ Keeps(t) /\ th'[t].pc = "initgen"
    BY <1>1, <1>4, ThreadDomain DEF Only, Keeps, Fields
  <2>2. ThreadOK(t)'
    BY <1>1, <1>2, <2>0, <2>1, IdleFields DEF ThreadOK, Keeps, Saved, Pcs, Emitting, DataOps, Only
  <2>3. Follows(t)
    BY <1>1, <1>4, <2>0, <2>1
    DEF Follows, Proceeds, Strong, HasGen, Saved, Holds, Closing, Emitting, Claim, Keeps
  <2> QED
    BY <1>1, <1>2, <2>1, <2>2, <2>3, StoreSame, OutSame, LastSame, ShapesStep, LocalStep DEF Shapes
<1> QED
  BY <1>3, <1>4 DEF LookupGeneration

LEMMA InitGenerationStep ==
  ASSUME IInv, ~app.full, NEW t \in Threads, InitGeneration(t)
  PROVE  IInv'
<1> DEFINE fd == th[t].fd
<1>1. /\ app' = app /\ conns' = conns /\ opened' = opened /\ th[t].pc = "initgen"
      /\ socket_tuples' = socket_tuples /\ got' = got /\ rings' = rings /\ thread_last_fd' = thread_last_fd
      /\ fd_generations' = [fd_generations EXCEPT ![fd] = 1] /\ Generated(t, 1)
  BY DEF InitGeneration, SetGeneration, appVars, outVars
<1>2. Gen(fd) = 1
  <2>1. CASE fd \in Fds
    BY <1>1, <2>1 DEF IInv, Exclusive, Gen
  <2>2. CASE fd = Listener
    BY <2>2 DEF IInv, Shapes, StoreOK, Gen
  <2> QED
    BY <1>1, <2>1, <2>2 DEF IInv, Shapes, ThreadOK
<1> QED
  BY <1>1, <1>2, GenerationStep

-----------------------------------------------------------------------------
(* The tuples of a descriptor, from its connection to its close *)

(* one tuple changes, or goes *)
LEMMA TupleStep ==
  ASSUME IInv, SameStore, conns' = conns, NEW t \in Threads, OnlyMoves(t), Proceeds(t),
         NothingNew, Shapes',
         NEW key, key[1] \in AllFds,
         \A k \in DOMAIN socket_tuples' : k # key => k \in DOMAIN socket_tuples /\ socket_tuples'[k] = socket_tuples[k],
         key \in DOMAIN socket_tuples' =>
            /\ DOMAIN socket_tuples'[key] = {"local", "remote"}
            /\ key[1] = Listener => socket_tuples'[key].local \in {NoPort, ListenPort}
            /\ key[1] \in Fds =>
                 /\ key = <<key[1], Gen(key[1])>> /\ conns[key[1]].id # 0
                 /\ OwnPorts(socket_tuples'[key], conns[key[1]].id)
                 /\ \A u \in Threads \ {t} : Closing(u, {"bump", "reset", "kernel"}) => th[u].fd # key[1],
         Closing(t, {"bump", "reset", "kernel"})' => \A k \in DOMAIN socket_tuples' : k[1] # th'[t].fd,
         ~(th'[t].op = "accepted" /\ th'[t].pc \in {"gen", "initgen", "tuple"})
  PROVE  IInv'
<1>0. Threads' = Threads /\ Fds' = Fds /\ AllFds' = AllFds /\ app' = app /\ opened' = opened
  BY DEF Threads, Fds, AllFds, SameStore
<1>1. Exclusive'
  BY FollowsExclusive DEF IInv
<1>2. Agree'
  BY FollowsClaims, FewerAgree DEF IInv
<1>3. \A e \in Submitted' : OwnPorts(e, e.conn)'
  BY DEF IInv, TuplesAreOwn, OwnPorts, SameStore, NothingNew
<1>4. \A f : Gen(f)' = Gen(f)
  BY DEF Gen, SameStore
<1>5. ASSUME NEW k \in DOMAIN socket_tuples'
      PROVE  /\ k[1] \in AllFds
             /\ DOMAIN socket_tuples'[k] = {"local", "remote"}
             /\ k[1] = Listener => socket_tuples'[k].local \in {NoPort, ListenPort}
             /\ k[1] \in Fds =>
                  /\ k = <<k[1], Gen(k[1])'>> /\ conns'[k[1]].id # 0
                  /\ socket_tuples'[k].local \in {NoPort, opened'[conns'[k[1]].id].local}
                  /\ socket_tuples'[k].remote \in {NoPort, opened'[conns'[k[1]].id].remote}
  <2>1. CASE k = key
    BY <1>0, <1>4, <2>1 DEF OwnPorts
  <2>2. CASE k # key
    <3>1. k \in DOMAIN socket_tuples /\ socket_tuples'[k] = socket_tuples[k]
      BY <2>2
    <3> QED
      BY <1>0, <1>4, <3>1 DEF IInv, TuplesAreOwn, OwnPorts
  <2> QED
    BY <2>1, <2>2
<1>6. ASSUME NEW u \in Threads, Closing(u, {"bump", "reset", "kernel"})', NEW k \in DOMAIN socket_tuples'
      PROVE  k[1] # th'[u].fd
  <2>1. CASE u = t
    BY <1>6, <2>1
  <2>2. CASE u # t
    <3>1. th'[u] = th[u] /\ Closing(u, {"bump", "reset", "kernel"})
      BY <1>6, <2>2 DEF OnlyMoves, Closing
    <3>2. th[u].fd \in Fds
      BY <3>1 DEF Closing, IInv, Shapes, ThreadOK
    <3>3. CASE k = key
      BY <2>2, <3>1, <3>2, <3>3
    <3>4. CASE k # key
      BY <3>1, <3>4 DEF IInv, TuplesAreOwn
    <3> QED
      BY <3>3, <3>4
  <2> QED
    BY <2>1, <2>2
<1>7. ASSUME NEW u \in Threads, th'[u].op = "accepted", th'[u].pc \in {"gen", "initgen", "tuple"}
      PROVE  opened'[th'[u].conn].local = ListenPort
  BY <1>0, <1>7 DEF IInv, TuplesAreOwn, OnlyMoves
<1>8. TuplesAreOwn'
  BY <1>0, <1>3, <1>5, <1>6, <1>7 DEF TuplesAreOwn, OwnPorts
<1> QED
  BY <1>1, <1>2, <1>8 DEF IInv

LEMMA DeleteTupleStep ==
  ASSUME IInv, NEW t \in Threads, DeleteTuple(t)
  PROVE  IInv'
<1> DEFINE fd == th[t].fd  key == <<th[t].fd, th[t].gen>>
<1>1. Shapes /\ ThreadOK(t) /\ th[t].pc = "untuple" /\ th[t].op = "close" /\ fd \in Fds
  BY DEF IInv, Shapes, ThreadOK, DeleteTuple
<1>2. /\ app' = app /\ conns' = conns /\ opened' = opened /\ fd_generations' = fd_generations
      /\ got' = got /\ rings' = rings /\ thread_last_fd' = thread_last_fd
      /\ socket_tuples' = [k \in DOMAIN socket_tuples \ {key} |-> socket_tuples[k]]
  BY DEF DeleteTuple, appVars, outVars
<1>0. Threads' = Threads /\ Fds' = Fds /\ SslMode' = SslMode
  BY <1>2 DEF Threads, Fds, SslMode
<1>3. Only(t) /\ Keeps(t) /\ th'[t].pc = "bump"
  BY <1>1, ThreadDomain DEF DeleteTuple, Only, Keeps, Fields
<1>4. ThreadOK(t)'
  BY <1>0, <1>1, <1>2, <1>3, IdleFields DEF ThreadOK, Keeps, Saved, Pcs, Emitting, DataOps, Only
<1>5. Proceeds(t)
  BY <1>0, <1>1, <1>3 DEF Proceeds, Strong, HasGen, Saved, Holds, Closing, Emitting, Claim, Keeps
<1>6. th[t].gen = Gen(fd)
  <2>1. Strong(t) /\ HasGen(t)
    BY <1>1 DEF Strong, HasGen
  <2> QED
    BY <2>1 DEF IInv, Exclusive, Gen
<1>7. \A k \in DOMAIN socket_tuples' : k[1] # fd
  <2> SUFFICES ASSUME NEW k \in DOMAIN socket_tuples', k[1] = fd PROVE FALSE
    OBVIOUS
  <2>1. k \in DOMAIN socket_tuples /\ k # key
    BY <1>2
  <2>2. k = <<k[1], Gen(k[1])>>
    BY <1>1, <2>1 DEF IInv, TuplesAreOwn
  <2> QED
    BY <1>6, <2>1, <2>2
<1>8. /\ \A k \in DOMAIN socket_tuples' : k # key =>
             k \in DOMAIN socket_tuples /\ socket_tuples'[k] = socket_tuples[k]
      /\ key \notin DOMAIN socket_tuples' /\ key[1] \in AllFds
  BY <1>1, <1>2 DEF AllFds
<1>9. ~(th'[t].op = "accepted") /\ th'[t].fd = fd
  BY <1>1, <1>3 DEF Keeps
<1>10. StoreOK' /\ SameStore /\ RingsOK' /\ NothingNew /\ LastFdMoves(t)
  BY <1>1, <1>2, StoreSame, OutSame, LastSame DEF Shapes
<1>11. Shapes' /\ OnlyMoves(t)
  BY <1>1, <1>2, <1>3, <1>4, <1>10, ShapesStep
<1> HIDE DEF key
<1> QED
  BY <1>2, <1>5, <1>7, <1>8, <1>9, <1>10, <1>11, TupleStep, ZenonT(60)

LEMMA KnownIsOwn ==
  ASSUME IInv, NEW f \in AllFds, NEW g
  PROVE  /\ f = Listener => KnownTuple(f, g).local \in {NoPort, ListenPort}
         /\ f \in Fds => OwnPorts(KnownTuple(f, g), conns[f].id)
<1> DEFINE k == <<f, g>>
<1>1. CASE k \in DOMAIN socket_tuples
  <2>1. KnownTuple(f, g) = socket_tuples[k] /\ k[1] = f
    BY <1>1 DEF KnownTuple
  <2> HIDE DEF k
  <2> QED
    BY <1>1, <2>1 DEF IInv, TuplesAreOwn
<1>2. CASE k \notin DOMAIN socket_tuples
  BY <1>2 DEF KnownTuple, NoTuple, OwnPorts
<1> QED
  BY <1>1, <1>2

LEMMA UpdateIs ==
  ASSUME NEW f, NEW g, NEW learnt, update_socket_tuple(f, g, learnt)
  PROVE  /\ \A k \in DOMAIN socket_tuples' : k # <<f, g>> =>
              k \in DOMAIN socket_tuples /\ socket_tuples'[k] = socket_tuples[k]
         /\ <<f, g>> \in DOMAIN socket_tuples'
         /\ DOMAIN socket_tuples'[<<f, g>>] = {"local", "remote"}
         /\ socket_tuples'[<<f, g>>].local =
              (IF learnt.local # NoPort THEN learnt.local ELSE KnownTuple(f, g).local)
         /\ socket_tuples'[<<f, g>>].remote =
              (IF learnt.remote # NoPort THEN learnt.remote ELSE KnownTuple(f, g).remote)
<1> DEFINE known == KnownTuple(f, g)
           tuple == [p \in {"local", "remote"} |-> IF learnt[p] # NoPort THEN learnt[p] ELSE known[p]]
<1>1. socket_tuples' = [k \in DOMAIN socket_tuples \cup {<<f, g>>} |->
                          IF k = <<f, g>> THEN tuple ELSE socket_tuples[k]]
  BY DEF update_socket_tuple
<1>2. /\ DOMAIN tuple = {"local", "remote"}
      /\ tuple.local = (IF learnt.local # NoPort THEN learnt.local ELSE known.local)
      /\ tuple.remote = (IF learnt.remote # NoPort THEN learnt.remote ELSE known.remote)
  OBVIOUS
<1> HIDE DEF tuple, known
<1>3. socket_tuples'[<<f, g>>] = tuple
  BY <1>1
<1> QED
  BY <1>1, <1>2, <1>3 DEF known

LEMMA BindLearns ==
  ASSUME IInv, NEW t \in Threads, LearnTuple(t), th[t].op = "bind"
  PROVE  IInv'
<1> DEFINE key == <<th[t].fd, th[t].gen>>  learnt == [local |-> ListenPort, remote |-> NoPort]
<1>1. Shapes /\ ThreadOK(t) /\ th[t].fd = Listener /\ Listener \notin Fds /\ Listener \in AllFds
  BY DEF IInv, Shapes, ThreadOK, LearnTuple, AllFds
<1>2. /\ app' = app /\ conns' = conns /\ opened' = opened /\ fd_generations' = fd_generations
      /\ got' = got /\ rings' = rings /\ thread_last_fd' = thread_last_fd
  BY DEF LearnTuple, appVars, outVars
<1>3. update_socket_tuple(th[t].fd, th[t].gen, learnt) /\ th' = [th EXCEPT ![t] = Idle]
  BY DEF LearnTuple
<1>4. Only(t) /\ Returns(t)
  BY <1>1, <1>3, ThreadDomain DEF Only, Returns, Idle, Fields
<1>5. StoreOK' /\ SameStore /\ RingsOK' /\ NothingNew /\ LastFdMoves(t)
  BY <1>1, <1>2, StoreSame, OutSame, LastSame DEF Shapes
<1>6. ThreadOK(t)' /\ Follows(t)
  BY <1>1, <1>2, <1>4, <1>5, ReturnsFollows
<1>7. Shapes' /\ OnlyMoves(t)
  BY <1>1, <1>2, <1>4, <1>5, <1>6, ShapesStep
<1>8. /\ \A k \in DOMAIN socket_tuples' : k # key =>
              k \in DOMAIN socket_tuples /\ socket_tuples'[k] = socket_tuples[k]
      /\ DOMAIN socket_tuples'[key] = {"local", "remote"}
      /\ socket_tuples'[key].local = (IF ListenPort # NoPort THEN ListenPort ELSE KnownTuple(th[t].fd, th[t].gen).local)
  <2>1. learnt.local = ListenPort
    OBVIOUS
  <2> HIDE DEF learnt
  <2> QED
    BY <1>3, <2>1, UpdateIs
<1>9. KnownTuple(th[t].fd, th[t].gen).local \in {NoPort, ListenPort}
  BY <1>1, KnownIsOwn
<1>10. key[1] = Listener
  BY <1>1
<1>11. th'[t].pc = "user" /\ th'[t].op = "none"
  BY <1>4 DEF Returns
<1>12. ~Closing(t, {"bump", "reset", "kernel"})'
  BY <1>11 DEF Closing
<1> HIDE DEF key
<1>13. Proceeds(t)
  BY <1>6 DEF Follows
<1> QED
  BY <1>1, <1>2, <1>5, <1>7, <1>8, <1>9, <1>10, <1>11, <1>12, <1>13, TupleStep

(* connect and the promotion of an accepted socket: the opener alone has    *)
(* the descriptor                                                           *)
LEMMA OpenerLearns ==
  ASSUME IInv, NEW t \in Threads, LearnTuple(t), th[t].op \in {"connect", "accepted"}
  PROVE  IInv'
<1> DEFINE fd == th[t].fd  g == th[t].gen  c == th[t].conn  key == <<th[t].fd, th[t].gen>>
<1>1. /\ Shapes /\ ThreadOK(t) /\ fd \in Fds /\ fd \in AllFds /\ Listener \in AllFds
      /\ Listener \notin Fds /\ th[t].pc = "tuple"
  BY DEF IInv, Shapes, ThreadOK, LearnTuple, AllFds
<1>2. /\ app' = app /\ conns' = conns /\ opened' = opened /\ fd_generations' = fd_generations
      /\ got' = got /\ rings' = rings /\ thread_last_fd' = thread_last_fd
  BY DEF LearnTuple, appVars, outVars
<1>0. Threads' = Threads /\ Fds' = Fds /\ SslMode' = SslMode
  BY <1>2 DEF Threads, Fds, SslMode
<1>3. Strong(t) /\ HasGen(t)
  BY <1>1 DEF Strong, HasGen
<1>4. g = Gen(fd) /\ c = conns[fd].id /\ c # 0
  BY <1>3 DEF IInv, Exclusive, Gen, Holds, Strong
<1>5. /\ Only(t) /\ th'[t].pc = "emit" /\ th'[t].ctx \in {0, th[t].ctx} /\ th'[t].cpu = th[t].cpu
      /\ th'[t].op = th[t].op /\ th'[t].fd = fd /\ th'[t].gen = g /\ th'[t].conn = c
      /\ th'[t].ssl = th[t].ssl /\ th'[t].touched = th[t].touched
      /\ th'[t].dir = th[t].dir /\ th'[t].sslDir = th[t].sslDir
  BY <1>1, ThreadDomain DEF LearnTuple, Only, Fields
<1>6. PICK learnt : /\ update_socket_tuple(fd, g, learnt)
                    /\ learnt.local \in {NoPort, opened[c].local}
                    /\ learnt.remote \in {NoPort, opened[c].remote}
  <2>1. CASE th[t].op = "connect"
    <3> DEFINE l == [local |-> NoPort, remote |-> opened[c].remote]
    <3>1. update_socket_tuple(fd, g, l)
      BY <1>4, <2>1 DEF LearnTuple
    <3>2. l.local = NoPort /\ l.remote = opened[c].remote
      OBVIOUS
    <3> QED
      BY <3>1, <3>2
  <2>2. CASE th[t].op = "accepted"
    <3> DEFINE inherited == KnownTuple(Listener, th[t].ctx).local
    <3>1. PICK remote \in {NoPort, opened[c].remote} :
            update_socket_tuple(fd, g, [local |-> inherited, remote |-> remote])
      BY <1>4, <2>2 DEF LearnTuple
    <3>2. inherited \in {NoPort, ListenPort} /\ opened[c].local = ListenPort
      BY <1>1, <2>2, KnownIsOwn DEF IInv, TuplesAreOwn
    <3> DEFINE l == [local |-> inherited, remote |-> remote]
    <3>3. l.local = inherited /\ l.remote = remote
      OBVIOUS
    <3> HIDE DEF inherited
    <3> QED
      BY <3>1, <3>2, <3>3
  <2> QED
    BY <2>1, <2>2
<1>7. OwnPorts(socket_tuples'[key], c) /\ DOMAIN socket_tuples'[key] = {"local", "remote"}
  <2>1. OwnPorts(KnownTuple(fd, g), c)
    BY <1>1, <1>4, KnownIsOwn
  <2> QED
    BY <1>6, <2>1, UpdateIs DEF OwnPorts
<1>8. \A k \in DOMAIN socket_tuples' : k # key =>
              k \in DOMAIN socket_tuples /\ socket_tuples'[k] = socket_tuples[k]
  <2> HIDE DEF fd, g, c
  <2>1. update_socket_tuple(fd, g, learnt)
    BY <1>6
  <2>2. \A k \in DOMAIN socket_tuples' : k # <<fd, g>> =>
          k \in DOMAIN socket_tuples /\ socket_tuples'[k] = socket_tuples[k]
    BY ONLY <2>1, UpdateIs
  <2> QED
    BY <2>2 DEF fd, g
<1>9. \A u \in Threads \ {t} : Closing(u, {"bump", "reset", "kernel"}) => th[u].fd # fd
  <2> SUFFICES ASSUME NEW u \in Threads \ {t}, Closing(u, {"bump", "reset", "kernel"}), th[u].fd = fd
               PROVE  FALSE
    OBVIOUS
  <2>1. Strong(u)
    BY <1>1 DEF Strong, Closing
  <2> QED
    BY <1>1, <1>3, <2>1 DEF IInv, Exclusive, Holds
<1>10. ThreadOK(t)'
  BY <1>0, <1>1, <1>2, <1>5, IdleFields DEF ThreadOK, Saved, Pcs, Emitting, DataOps, Only
<1>11. Proceeds(t)
  BY <1>0, <1>1, <1>3, <1>5 DEF Proceeds, Strong, HasGen, Saved, Holds, Closing, Emitting, Claim
<1>12. StoreOK' /\ SameStore /\ RingsOK' /\ NothingNew /\ LastFdMoves(t)
  BY <1>1, <1>2, StoreSame, OutSame, LastSame DEF Shapes
<1>13. Shapes' /\ OnlyMoves(t)
  BY <1>1, <1>2, <1>5, <1>10, <1>12, ShapesStep
<1>14. key[1] = fd /\ key = <<fd, Gen(fd)>> /\ conns[fd].id # 0 /\ OwnPorts(socket_tuples'[key], conns[fd].id)
  BY <1>4, <1>7
<1>15. ~Closing(t, {"bump", "reset", "kernel"})'
  BY <1>5 DEF Closing
<1> HIDE DEF key
<1> QED
  BY <1>1, <1>2, <1>5, <1>7, <1>8, <1>9, <1>11, <1>12, <1>13, <1>14, <1>15, TupleStep

LEMMA LearnTupleStep ==
  ASSUME IInv, NEW t \in Threads, LearnTuple(t)
  PROVE  IInv'
BY BindLearns, OpenerLearns DEF LearnTuple

-----------------------------------------------------------------------------
(* The end of a connection *)

(* From bump_generation on, nobody speaks for the descriptor's new          *)
(* generation until the descriptor is used again.                           *)
LEMMA BumpGenerationStep ==
  ASSUME IInv, ~app.full, NEW t \in Threads, BumpGeneration(t)
  PROVE  IInv'
<1> DEFINE fd == th[t].fd
<1>1. /\ Shapes /\ Exclusive /\ Agree /\ TuplesAreOwn /\ ThreadOK(t) /\ StoreOK /\ RingsOK
      /\ th[t].pc = "bump" /\ th[t].op = "close" /\ fd \in Fds /\ Listener \notin Fds
      /\ AllFds = Fds \cup {Listener}
  BY DEF IInv, Shapes, ThreadOK, BumpGeneration, AllFds
<1>2. /\ app' = app /\ conns' = conns /\ opened' = opened /\ socket_tuples' = socket_tuples
      /\ got' = got /\ rings' = rings /\ thread_last_fd' = thread_last_fd
      /\ fd_generations' = [fd_generations EXCEPT ![fd] = th[t].gen + 1]
  BY DEF BumpGeneration, SetGeneration, appVars, outVars
<1>0. Threads' = Threads /\ Fds' = Fds /\ AllFds' = AllFds /\ Ports' = Ports /\ SslMode' = SslMode
  BY <1>2 DEF Threads, Fds, AllFds, Ports, SslMode
<1>3. Strong(t) /\ HasGen(t)
  BY <1>1 DEF Strong, HasGen
<1>4. th[t].gen = fd_generations[fd] /\ th[t].gen # 0 /\ th[t].gen \in Nat /\ Gen(fd) = th[t].gen
  BY <1>1, <1>3 DEF Exclusive, ThreadOK, Gen
<1>5. /\ fd_generations' \in [AllFds -> Nat] /\ fd_generations'[fd] = th[t].gen + 1
      /\ \A f \in AllFds : f # fd => fd_generations'[f] = fd_generations[f]
  BY <1>1, <1>2, <1>4 DEF StoreOK
<1>6. \A f \in AllFds : Gen(f)' = IF f = fd THEN Gen(f) + 1 ELSE Gen(f)
  BY <1>4, <1>5 DEF Gen
<1>7. StoreOK'
  BY <1>0, <1>1, <1>2, <1>5 DEF StoreOK
<1>8. Only(t) /\ Keeps(t) /\ th'[t].pc = "reset"
  BY <1>1, ThreadDomain DEF BumpGeneration, Only, Keeps, Fields
<1>9. ThreadOK(t)'
  BY <1>0, <1>1, <1>2, <1>8, IdleFields DEF ThreadOK, Keeps, Saved, Pcs, Emitting, DataOps, Only
<1>10. RingsOK' /\ Submitted' = Submitted
  BY <1>1, <1>2 DEF RingsOK, Submitted, Ready
<1>11. Shapes' /\ OnlyMoves(t)
  BY <1>1, <1>2, <1>7, <1>8, <1>9, <1>10, ShapesStep, LastSame
<1>12. \A u \in Threads : u # t /\ Strong(u) => th[u].fd # fd
  BY <1>1, <1>3 DEF Exclusive, Holds, Strong
<1>13. Strong(t)' /\ ~HasGen(t)' /\ ~Saved(t)'
  BY <1>0, <1>1, <1>8 DEF Strong, HasGen, Saved, Keeps, Emitting
<1>14. \A u \in Threads, f \in Fds : Holds(u, f)' <=> Holds(u, f)
  BY <1>2, <1>3, <1>8, <1>11, <1>13, OthersSame DEF Holds, Keeps
<1>15. Exclusive'
  <2>1. ASSUME NEW u \in Threads, Strong(u)'
        PROVE  th'[u].conn = conns'[th'[u].fd].id
    BY <1>1, <1>2, <1>3, <1>8, <1>11, <2>1, OthersSame DEF Exclusive, Keeps
  <2>2. ASSUME NEW u \in Threads, Strong(u)', HasGen(u)'
        PROVE  th'[u].gen = fd_generations'[th'[u].fd] /\ th'[u].gen # 0
    <3>1. u # t
      BY <1>13, <2>2
    <3>2. Strong(u) /\ HasGen(u) /\ th'[u] = th[u] /\ th[u].fd \in Fds
      BY <1>2, <1>11, <2>2, <3>1, OthersSame DEF Strong
    <3> QED
      BY <1>1, <1>5, <1>12, <3>1, <3>2 DEF Exclusive
  <2>3. ASSUME NEW u \in Threads, th'[u].fd \in Fds, th'[u].pc = "initgen"
        PROVE  fd_generations'[th'[u].fd] = 0
    <3>1. u # t /\ th'[u] = th[u]
      BY <1>8, <1>11, <2>3 DEF OnlyMoves
    <3>2. Strong(u)
      BY <2>3, <3>1 DEF Strong
    <3> QED
      BY <1>1, <1>5, <1>12, <2>3, <3>1, <3>2 DEF Exclusive
  <2>4. \A u, v \in Threads, f \in Fds : Holds(u, f)' /\ Holds(v, f)' => u = v
    BY <1>1, <1>14 DEF Exclusive
  <2>5. \A u \in Threads, f \in Fds : Holds(u, f)' => conns'[f].id # 0
    BY <1>1, <1>2, <1>14 DEF Exclusive
  <2> QED
    BY <1>0, <2>1, <2>2, <2>3, <2>4, <2>5 DEF Exclusive
<1>16. Claims' \subseteq Claims
  <2> SUFFICES ASSUME NEW a \in Claims' PROVE a \in Claims
    OBVIOUS
  <2>1. (\E u \in Claiming' : a = Claim(u)') \/ (\E e \in Submitted' : a = ClaimOf(e))
    BY DEF Claims, Claim, ClaimOf
  <2>2. ASSUME NEW u \in Claiming', a = Claim(u)' PROVE a \in Claims
    <3>1. u # t /\ u \in Threads
      BY <1>0, <1>13, <2>2 DEF Claiming
    <3> QED
      BY <1>0, <1>2, <1>11, <2>2, <3>1, OthersSame, ClaimsAre DEF Claiming
  <2> QED
    BY <1>10, <2>1, <2>2, ClaimsAre
<1>17. ASSUME NEW a \in Claims'
       PROVE  /\ a.fd \in Fds /\ a.gen \in 1 .. Gen(a.fd)' /\ a.conn \in 1 .. Len(opened')
              /\ a.gen = Gen(a.fd)' => a.fd # fd /\ a.conn = conns'[a.fd].id
  <2>1. /\ a.fd \in Fds /\ a.gen \in 1 .. Gen(a.fd) /\ a.conn \in 1 .. Len(opened)
        /\ a.gen = Gen(a.fd) => a.conn = conns[a.fd].id
    BY <1>1, <1>16 DEF Agree
  <2>2. CASE a.fd = fd
    <3>1. Gen(a.fd)' = Gen(a.fd) + 1 /\ Gen(a.fd) \in Nat
      BY <1>1, <1>4, <1>6, <2>2
    <3> QED
      BY <1>2, <2>1, <2>2, <3>1
  <2>3. CASE a.fd # fd
    BY <1>1, <1>2, <1>6, <2>1, <2>3
  <2> QED
    BY <2>2, <2>3
<1>18. Agree'
  <2>1. \A a, b \in Claims' : a.fd = b.fd /\ a.gen = b.gen => a.conn = b.conn
    BY <1>1, <1>16 DEF Agree
  <2>2. ASSUME NEW u \in Threads, Closing(u, {"reset", "kernel"})', NEW a \in Claims', a.fd = th'[u].fd
        PROVE  a.gen # Gen(a.fd)'
    <3>1. CASE u = t
      BY <1>8, <1>17, <2>2, <3>1 DEF Keeps
    <3>2. CASE u # t
      <4>1. th'[u] = th[u] /\ Closing(u, {"reset", "kernel"})
        BY <1>11, <2>2, <3>2 DEF OnlyMoves, Closing
      <4>2. Strong(u)
        BY <1>1, <4>1 DEF Closing, Strong, Shapes, ThreadOK
      <4>3. a.fd # fd /\ a.fd \in Fds
        BY <1>12, <1>17, <2>2, <3>2, <4>1, <4>2
      <4>4. a.gen # Gen(a.fd)
        BY <1>1, <1>16, <2>2, <4>1 DEF Agree
      <4> QED
        BY <1>1, <1>6, <4>3, <4>4
    <3> QED
      BY <3>1, <3>2
  <2> QED
    BY <1>0, <1>17, <2>1, <2>2 DEF Agree
<1>19. \A k \in DOMAIN socket_tuples : k[1] # fd
  BY <1>1 DEF TuplesAreOwn, Closing
<1>20. TuplesAreOwn'
  <2>1. ASSUME NEW k \in DOMAIN socket_tuples'
        PROVE  /\ k[1] \in AllFds
               /\ DOMAIN socket_tuples'[k] = {"local", "remote"}
               /\ k[1] = Listener => socket_tuples'[k].local \in {NoPort, ListenPort}
               /\ k[1] \in Fds =>
                    /\ k = <<k[1], Gen(k[1])'>> /\ conns'[k[1]].id # 0
                    /\ socket_tuples'[k].local \in {NoPort, opened'[conns'[k[1]].id].local}
                    /\ socket_tuples'[k].remote \in {NoPort, opened'[conns'[k[1]].id].remote}
    BY <1>1, <1>2, <1>6, <1>19 DEF TuplesAreOwn, OwnPorts
  <2>2. ASSUME NEW u \in Threads, Closing(u, {"bump", "reset", "kernel"})', NEW k \in DOMAIN socket_tuples'
        PROVE  k[1] # th'[u].fd
    <3>1. CASE u = t
      BY <1>2, <1>8, <1>19, <3>1 DEF Keeps
    <3>2. CASE u # t
      BY <1>1, <1>2, <1>11, <2>2, <3>2 DEF TuplesAreOwn, OnlyMoves, Closing
    <3> QED
      BY <3>1, <3>2
  <2>3. ASSUME NEW u \in Threads, th'[u].op = "accepted", th'[u].pc \in {"gen", "initgen", "tuple"}
        PROVE  opened'[th'[u].conn].local = ListenPort
    BY <1>1, <1>2, <1>8, <1>11, <2>3 DEF TuplesAreOwn, OnlyMoves
  <2>4. \A e \in Submitted' : OwnPorts(e, e.conn)'
    BY <1>1, <1>2, <1>10 DEF TuplesAreOwn, OwnPorts
  <2> QED
    BY <1>0, <2>1, <2>2, <2>3, <2>4 DEF TuplesAreOwn, OwnPorts
<1> QED
  BY <1>11, <1>15, <1>18, <1>20 DEF IInv

LEMMA CloseReturnStep ==
  ASSUME IInv, NEW t \in Threads, CloseReturn(t)
  PROVE  IInv'
<1> DEFINE fd == th[t].fd
<1>1. /\ Shapes /\ Exclusive /\ Agree /\ TuplesAreOwn /\ ThreadOK(t) /\ StoreOK /\ RingsOK
      /\ th[t].pc = "kernel" /\ th[t].op = "close" /\ fd \in Fds /\ NoFd \notin Fds
  BY DEF IInv, Shapes, ThreadOK, CloseReturn, AllFds
<1>2. /\ app' = app /\ opened' = opened /\ socket_tuples' = socket_tuples
      /\ fd_generations' = fd_generations
      /\ got' = got /\ rings' = rings /\ thread_last_fd' = thread_last_fd
      /\ conns' = [conns EXCEPT ![fd] = NoConn] /\ th' = [th EXCEPT ![t] = Idle]
  BY DEF CloseReturn, mapVars, outVars
<1>0. Threads' = Threads /\ Fds' = Fds /\ AllFds' = AllFds /\ Ports' = Ports /\ \A f : Gen(f)' = Gen(f)
  BY <1>2 DEF Threads, Fds, AllFds, Ports, Gen
<1>3. Only(t) /\ Returns(t) /\ th'[t].ssl = NoFd
  BY <1>1, <1>2, ThreadDomain DEF Only, Returns, Idle, Fields
<1>4. /\ conns'[fd] = NoConn /\ \A f \in Fds : f # fd => conns'[f] = conns[f]
      /\ conns' \in [Fds -> [id : 0 .. Len(opened), read : Nat, write : Nat]]
  BY <1>1, <1>2 DEF StoreOK, NoConn
<1>5. StoreOK'
  BY <1>0, <1>1, <1>2, <1>4 DEF StoreOK
<1>6. RingsOK' /\ Submitted' = Submitted
  BY <1>1, <1>2 DEF RingsOK, Submitted, Ready
<1>7. ThreadOK(t)'
  BY <1>1, <1>2, <1>3, ReturnsFollows, LastSame
<1>8. Shapes' /\ OnlyMoves(t)
  BY <1>1, <1>2, <1>3, <1>5, <1>6, <1>7, ShapesStep, LastSame
<1>9. Strong(t)
  BY <1>1 DEF Strong
<1>10. /\ \A f \in Fds : ~Holds(t, f)'
       /\ ~Strong(t)' /\ ~HasGen(t)' /\ ~Saved(t)' /\ th'[t].pc = "user" /\ th'[t].op = "none"
  BY <1>0, <1>1, <1>3 DEF Returns, Holds, Strong, HasGen, Saved, Emitting
<1>11. \A u \in Threads : u # t => ~Holds(u, fd)
  BY <1>1, <1>9 DEF Exclusive, Holds
<1>12. \A u \in Threads, f \in Fds : Holds(u, f)' => u # t /\ Holds(u, f) /\ f # fd
  BY <1>2, <1>8, <1>10, <1>11, OthersSame
<1>13. \A u \in Threads : Strong(u)' => u # t /\ Strong(u) /\ th'[u] = th[u] /\ th[u].fd # fd /\ th[u].fd \in Fds
  BY <1>2, <1>8, <1>10, <1>11, OthersSame DEF Holds, Strong
<1>14. Exclusive'
  <2>1. \A u, v \in Threads, f \in Fds : Holds(u, f)' /\ Holds(v, f)' => u = v
    BY <1>1, <1>12 DEF Exclusive
  <2>2. \A u \in Threads, f \in Fds : Holds(u, f)' => conns'[f].id # 0
    BY <1>1, <1>4, <1>12 DEF Exclusive
  <2>3. \A u \in Threads : Strong(u)' => th'[u].conn = conns'[th'[u].fd].id
    BY <1>1, <1>4, <1>13 DEF Exclusive
  <2>4. \A u \in Threads : Strong(u)' /\ HasGen(u)' =>
          th'[u].gen = fd_generations'[th'[u].fd] /\ th'[u].gen # 0
    BY <1>1, <1>2, <1>8, <1>13, OthersSame DEF Exclusive
  <2>5. \A u \in Threads : th'[u].fd \in Fds /\ th'[u].pc = "initgen" => fd_generations'[th'[u].fd] = 0
    BY <1>1, <1>2, <1>8, <1>10 DEF Exclusive, OnlyMoves
  <2> QED
    BY <1>0, <2>1, <2>2, <2>3, <2>4, <2>5 DEF Exclusive
<1>15. Claims' \subseteq Claims
  <2> SUFFICES ASSUME NEW a \in Claims' PROVE a \in Claims
    OBVIOUS
  <2>1. (\E u \in Claiming' : a = Claim(u)') \/ (\E e \in Submitted' : a = ClaimOf(e))
    BY DEF Claims, Claim, ClaimOf
  <2>2. ASSUME NEW u \in Claiming', a = Claim(u)' PROVE a \in Claims
    <3>1. u # t /\ u \in Threads
      BY <1>0, <1>10, <2>2 DEF Claiming
    <3> QED
      BY <1>0, <1>2, <1>8, <2>2, <3>1, OthersSame, ClaimsAre DEF Claiming
  <2> QED
    BY <1>6, <2>1, <2>2, ClaimsAre
<1>16. \A a \in Claims : a.fd = fd => a.gen # Gen(a.fd)
  BY <1>1 DEF Agree, Closing
<1>17. Agree'
  <2>1. \A a \in Claims' : /\ a.fd \in Fds /\ a.gen \in 1 .. Gen(a.fd)' /\ a.conn \in 1 .. Len(opened')
                           /\ a.gen = Gen(a.fd)' => a.conn = conns'[a.fd].id
    BY <1>0, <1>1, <1>2, <1>4, <1>15, <1>16 DEF Agree
  <2>2. \A a, b \in Claims' : a.fd = b.fd /\ a.gen = b.gen => a.conn = b.conn
    BY <1>1, <1>15 DEF Agree
  <2>3. \A u \in Threads : Closing(u, {"reset", "kernel"})' =>
          \A a \in Claims' : a.fd = th'[u].fd => a.gen # Gen(a.fd)'
    BY <1>0, <1>1, <1>8, <1>10, <1>15 DEF Agree, OnlyMoves, Closing
  <2> QED
    BY <1>0, <2>1, <2>2, <2>3 DEF Agree
<1>18. \A k \in DOMAIN socket_tuples : k[1] # fd
  BY <1>1 DEF TuplesAreOwn, Closing
<1>19. TuplesAreOwn'
  <2>1. ASSUME NEW k \in DOMAIN socket_tuples'
        PROVE  /\ k[1] \in AllFds
               /\ DOMAIN socket_tuples'[k] = {"local", "remote"}
               /\ k[1] = Listener => socket_tuples'[k].local \in {NoPort, ListenPort}
               /\ k[1] \in Fds =>
                    /\ k = <<k[1], Gen(k[1])'>> /\ conns'[k[1]].id # 0
                    /\ socket_tuples'[k].local \in {NoPort, opened'[conns'[k[1]].id].local}
                    /\ socket_tuples'[k].remote \in {NoPort, opened'[conns'[k[1]].id].remote}
    BY <1>0, <1>1, <1>2, <1>4, <1>18 DEF TuplesAreOwn, OwnPorts
  <2>2. ASSUME NEW u \in Threads, Closing(u, {"bump", "reset", "kernel"})', NEW k \in DOMAIN socket_tuples'
        PROVE  k[1] # th'[u].fd
    BY <1>1, <1>2, <1>8, <1>10, <2>2 DEF TuplesAreOwn, OnlyMoves, Closing
  <2>3. ASSUME NEW u \in Threads, th'[u].op = "accepted", th'[u].pc \in {"gen", "initgen", "tuple"}
        PROVE  opened'[th'[u].conn].local = ListenPort
    BY <1>1, <1>2, <1>8, <1>10, <2>3 DEF TuplesAreOwn, OnlyMoves
  <2>4. \A e \in Submitted' : OwnPorts(e, e.conn)'
    BY <1>1, <1>2, <1>6 DEF TuplesAreOwn, OwnPorts
  <2> QED
    BY <1>0, <2>1, <2>2, <2>3, <2>4 DEF TuplesAreOwn, OwnPorts
<1> QED
  BY <1>8, <1>14, <1>17, <1>19 DEF IInv

-----------------------------------------------------------------------------
(* A thread starts to work on a descriptor *)

(* t has nothing to say of any generation yet *)
Fresh(t, fd) ==
  /\ ~HasGen(t)' /\ ~Saved(t)' /\ th'[t].pc # "initgen"
  /\ \A f \in Fds : Holds(t, f)' => f = fd
  /\ ~Closing(t, {"bump", "reset", "kernel"})'

(* on a connection that is open, and that nobody else works on *)
LEMMA EnterStep ==
  ASSUME IInv, app' = app, conns' = conns, opened' = opened, fd_generations' = fd_generations,
         socket_tuples' = socket_tuples, thread_last_fd' = thread_last_fd, rings' = rings, got' = got,
         NEW t \in Threads, Only(t), ThreadOK(t)', NEW fd \in Fds, Fresh(t, fd), conns[fd].id # 0,
         \A u \in Threads : u # t => ~Holds(u, fd),
         Strong(t)' => th'[t].fd = fd /\ th'[t].conn = conns[fd].id,
         th'[t].op # "accepted"
  PROVE  IInv'
<1>0. Threads' = Threads /\ Fds' = Fds /\ AllFds' = AllFds /\ \A f : Gen(f)' = Gen(f)
  BY DEF Threads, Fds, AllFds, Gen
<1>1. Shapes /\ Exclusive /\ Agree /\ TuplesAreOwn /\ StoreOK /\ RingsOK
  BY DEF IInv, Shapes
<1>2. RingsOK' /\ Submitted' = Submitted /\ StoreOK' /\ SameStore
  BY <1>1, StoreSame DEF RingsOK, Submitted, Ready
<1>3. Shapes' /\ OnlyMoves(t)
  BY <1>1, <1>2, ShapesStep, LastSame
<1>4. \A u \in Threads, f \in Fds : Holds(u, f)' => (u = t /\ f = fd) \/ (u # t /\ Holds(u, f))
  BY <1>3, OthersSame DEF Fresh
<1>5. Exclusive'
  <2>1. \A u, v \in Threads, f \in Fds : Holds(u, f)' /\ Holds(v, f)' => u = v
    BY <1>1, <1>4 DEF Exclusive
  <2>2. \A u \in Threads, f \in Fds : Holds(u, f)' => conns'[f].id # 0
    BY <1>1, <1>4 DEF Exclusive
  <2>3. \A u \in Threads : Strong(u)' => th'[u].conn = conns'[th'[u].fd].id
    BY <1>1, <1>3, OthersSame DEF Exclusive
  <2>4. \A u \in Threads : Strong(u)' /\ HasGen(u)' =>
          th'[u].gen = fd_generations'[th'[u].fd] /\ th'[u].gen # 0
    BY <1>1, <1>3, OthersSame DEF Exclusive, Fresh
  <2>5. \A u \in Threads : th'[u].fd \in Fds /\ th'[u].pc = "initgen" => fd_generations'[th'[u].fd] = 0
    BY <1>1, <1>3 DEF Exclusive, OnlyMoves, Fresh
  <2> QED
    BY <1>0, <2>1, <2>2, <2>3, <2>4, <2>5 DEF Exclusive
<1>6. Claims' \subseteq Claims
  <2> SUFFICES ASSUME NEW a \in Claims' PROVE a \in Claims
    OBVIOUS
  <2>1. (\E u \in Claiming' : a = Claim(u)') \/ (\E e \in Submitted' : a = ClaimOf(e))
    BY DEF Claims, Claim, ClaimOf
  <2>2. ASSUME NEW u \in Claiming', a = Claim(u)' PROVE a \in Claims
    <3>1. u # t /\ u \in Threads
      BY <1>0, <2>2 DEF Claiming, Fresh
    <3> QED
      BY <1>0, <1>3, <2>2, <3>1, OthersSame, ClaimsAre DEF Claiming
  <2> QED
    BY <1>2, <2>1, <2>2, ClaimsAre
<1>7. \A u \in Threads : /\ Closing(u, {"reset", "kernel"})' => Closing(u, {"reset", "kernel"}) /\ th'[u] = th[u]
                         /\ Closing(u, {"bump", "reset", "kernel"})' =>
                              Closing(u, {"bump", "reset", "kernel"}) /\ th'[u] = th[u]
  BY <1>3 DEF OnlyMoves, Fresh, Closing
<1>8. Agree'
  <2>1. \A a \in Claims' : /\ a.fd \in Fds /\ a.gen \in 1 .. Gen(a.fd)' /\ a.conn \in 1 .. Len(opened')
                           /\ a.gen = Gen(a.fd)' => a.conn = conns'[a.fd].id
    BY <1>0, <1>1, <1>6 DEF Agree
  <2>2. \A a, b \in Claims' : a.fd = b.fd /\ a.gen = b.gen => a.conn = b.conn
    BY <1>1, <1>6 DEF Agree
  <2>3. \A u \in Threads : Closing(u, {"reset", "kernel"})' =>
          \A a \in Claims' : a.fd = th'[u].fd => a.gen # Gen(a.fd)'
    BY <1>0, <1>1, <1>6, <1>7 DEF Agree
  <2> QED
    BY <1>0, <2>1, <2>2, <2>3 DEF Agree
<1>9. TuplesAreOwn'
  <2>1. ASSUME NEW k \in DOMAIN socket_tuples'
        PROVE  /\ k[1] \in AllFds
               /\ DOMAIN socket_tuples'[k] = {"local", "remote"}
               /\ k[1] = Listener => socket_tuples'[k].local \in {NoPort, ListenPort}
               /\ k[1] \in Fds =>
                    /\ k = <<k[1], Gen(k[1])'>> /\ conns'[k[1]].id # 0
                    /\ socket_tuples'[k].local \in {NoPort, opened'[conns'[k[1]].id].local}
                    /\ socket_tuples'[k].remote \in {NoPort, opened'[conns'[k[1]].id].remote}
    BY <1>0, <1>1 DEF TuplesAreOwn, OwnPorts
  <2>2. ASSUME NEW u \in Threads, Closing(u, {"bump", "reset", "kernel"})', NEW k \in DOMAIN socket_tuples'
        PROVE  k[1] # th'[u].fd
    BY <1>1, <1>7, <2>2 DEF TuplesAreOwn
  <2>3. ASSUME NEW u \in Threads, th'[u].op = "accepted", th'[u].pc \in {"gen", "initgen", "tuple"}
        PROVE  opened'[th'[u].conn].local = ListenPort
    BY <1>1, <1>3, <2>3 DEF TuplesAreOwn, OnlyMoves
  <2>4. \A e \in Submitted' : OwnPorts(e, e.conn)'
    BY <1>1, <1>2 DEF TuplesAreOwn, OwnPorts
  <2> QED
    BY <1>0, <2>1, <2>2, <2>3, <2>4 DEF TuplesAreOwn, OwnPorts
<1> QED
  BY <1>3, <1>5, <1>8, <1>9 DEF IInv

(* the application keeps others away, but for a blocked read *)
LEMMA NobodyHolds ==
  ASSUME IInv, Attributable, NEW t \in Threads, NEW fd \in Fds, NEW op, MayEnter(t, fd, op),
         NEW u \in Threads, u # t
  PROVE  ~Holds(u, fd)
<1>1. ThreadOK(u) /\ NoFd \notin Fds
  BY DEF IInv, Shapes, AllFds
<1> QED
  BY <1>1 DEF MayEnter, Attributable, Holds, Strong, ThreadOK

LEMMA EnterDataStep ==
  ASSUME IInv, Attributable, NEW t \in Threads, NEW dir \in {"read", "write"}, NEW fd \in Fds, NEW buf,
         NEW peek, NEW cpu \in Cpus, EnterData(t, dir, fd, buf, peek, cpu)
  PROVE  IInv'
<1>1. Shapes /\ ThreadOK(t) /\ th[t].pc = "user" /\ NoFd \notin Fds /\ th[t].ssl \in {NoFd, fd}
  BY DEF IInv, Shapes, EnterData, Enter, AllFds
<1>2. /\ app' = app /\ conns' = conns /\ opened' = opened /\ fd_generations' = fd_generations
      /\ socket_tuples' = socket_tuples /\ got' = got /\ rings' = rings /\ thread_last_fd' = thread_last_fd
  BY DEF EnterData, mapVars, outVars
<1>0. Threads' = Threads /\ Fds' = Fds /\ SslMode' = SslMode
  BY <1>2 DEF Threads, Fds, SslMode
<1>3. conns[fd].id \in Nat \ {0}
  BY <1>1 DEF EnterData, Shapes, StoreOK
<1>4. /\ Only(t) /\ th'[t].pc \in {"gen", "kernel"} /\ th'[t].op = dir /\ th'[t].fd = fd
      /\ th'[t].cpu = cpu /\ th'[t].gen = th[t].gen /\ th'[t].ctx = th[t].ctx /\ th'[t].conn = conns[fd].id
      /\ th'[t].ssl = th[t].ssl /\ th'[t].touched = th[t].touched
      /\ th'[t].dir = dir /\ th'[t].sslDir = th[t].sslDir
  <2>1. th' = [th EXCEPT ![t] = [Started(t, dir, fd, cpu) EXCEPT
                                !.pc = IF cfg[dir] THEN "gen" ELSE "kernel",
                                !.lossy = ~cfg[dir], !.dir = dir, !.buf = buf, !.peek = peek,
                                !.conn = conns[fd].id, !.base = conns[fd][dir]]]
    BY DEF EnterData
  <2> DEFINE start == Started(t, dir, fd, cpu)
  <2>2. /\ t \in DOMAIN th /\ DOMAIN start = Fields /\ start.op = dir /\ start.fd = fd /\ start.cpu = cpu
        /\ start.gen = th[t].gen /\ start.ctx = th[t].ctx /\ start.ssl = th[t].ssl
        /\ start.touched = th[t].touched /\ start.sslDir = th[t].sslDir
    BY <1>1, ThreadDomain DEF Started, Fields
  <2> HIDE DEF start
  <2> DEFINE new == [start EXCEPT !.pc = IF cfg[dir] THEN "gen" ELSE "kernel", !.lossy = ~cfg[dir],
                                  !.dir = dir, !.buf = buf, !.peek = peek, !.conn = conns[fd].id,
                                  !.base = conns[fd][dir]]
  <2>3. /\ DOMAIN new = Fields /\ new.pc \in {"gen", "kernel"} /\ new.op = dir /\ new.fd = fd
        /\ new.cpu = cpu /\ new.gen = th[t].gen /\ new.ctx = th[t].ctx /\ new.conn = conns[fd].id
        /\ new.ssl = th[t].ssl /\ new.touched = th[t].touched
        /\ new.dir = dir /\ new.sslDir = th[t].sslDir
    BY <2>2 DEF Fields
  <2>4. th' = [th EXCEPT ![t] = new]
    BY <2>1 DEF start
  <2> HIDE DEF new
  <2> QED
    BY <2>2, <2>3, <2>4 DEF Only
<1>5. ThreadOK(t)'
  BY <1>0, <1>1, <1>2, <1>3, <1>4, IdleFields DEF ThreadOK, Saved, Pcs, Emitting, DataOps, Only
<1>6. Fresh(t, fd)
  BY <1>0, <1>1, <1>4 DEF Fresh, Strong, HasGen, Saved, Holds, Closing, Emitting, ThreadOK
<1>7. \A u \in Threads : u # t => ~Holds(u, fd)
  BY NobodyHolds DEF EnterData
<1>8. th'[t].op # "accepted" /\ conns[fd].id # 0
  BY <1>3, <1>4
<1> QED
  BY <1>2, <1>4, <1>5, <1>6, <1>7, <1>8, EnterStep

LEMMA EnterCloseStep ==
  ASSUME IInv, Attributable, NEW t \in Threads, NEW fd \in Fds, NEW cpu \in Cpus, EnterClose(t, fd, cpu)
  PROVE  IInv'
<1>1. Shapes /\ ThreadOK(t) /\ th[t].pc = "user" /\ NoFd \notin Fds /\ th[t].ssl = NoFd
  BY DEF IInv, Shapes, EnterClose, Enter, AllFds
<1>2. /\ app' = app /\ conns' = conns /\ opened' = opened /\ fd_generations' = fd_generations
      /\ socket_tuples' = socket_tuples /\ got' = got /\ rings' = rings /\ thread_last_fd' = thread_last_fd
  BY DEF EnterClose, mapVars, outVars
<1>0. Threads' = Threads /\ Fds' = Fds /\ SslMode' = SslMode
  BY <1>2 DEF Threads, Fds, SslMode
<1>3. conns[fd].id \in Nat \ {0}
  BY <1>1 DEF EnterClose, Shapes, StoreOK
<1>4. /\ Only(t) /\ th'[t].pc = "gen" /\ th'[t].op = "close" /\ th'[t].fd = fd
      /\ th'[t].cpu = cpu /\ th'[t].gen = th[t].gen /\ th'[t].ctx = th[t].ctx /\ th'[t].conn = conns[fd].id
      /\ th'[t].ssl = th[t].ssl /\ th'[t].touched = th[t].touched
      /\ th'[t].dir = th[t].dir /\ th'[t].sslDir = th[t].sslDir
  <2>1. th' = [th EXCEPT ![t] = [Started(t, "close", fd, cpu) EXCEPT !.conn = conns[fd].id]]
    BY DEF EnterClose
  <2> QED
    BY <1>1, <2>1, ThreadDomain DEF Started, Only, Fields
<1>5. ThreadOK(t)'
  BY <1>0, <1>1, <1>2, <1>3, <1>4, IdleFields DEF ThreadOK, Saved, Pcs, Emitting, DataOps, Only
<1>6. Fresh(t, fd)
  BY <1>0, <1>1, <1>4 DEF Fresh, Strong, HasGen, Saved, Holds, Closing, Emitting, ThreadOK
<1>7. \A u \in Threads : u # t => ~Holds(u, fd)
  BY NobodyHolds DEF EnterClose
<1>8. th'[t].op # "accepted" /\ conns[fd].id # 0
  BY <1>3, <1>4
<1> QED
  BY <1>2, <1>4, <1>5, <1>6, <1>7, <1>8, EnterStep

LEMMA SslEnterStep ==
  ASSUME IInv, Attributable, NEW t \in Threads, NEW fd \in Fds, NEW dir \in {"read", "write"}, SslEnter(t, fd, dir)
  PROVE  IInv'
<1>1. Shapes /\ ThreadOK(t) /\ th[t].pc = "user" /\ NoFd \notin Fds /\ th[t].ssl = NoFd /\ SslMode # "off"
  BY DEF IInv, Shapes, SslEnter, AllFds
<1>2. /\ app' = app /\ conns' = conns /\ opened' = opened /\ fd_generations' = fd_generations
      /\ socket_tuples' = socket_tuples /\ got' = got /\ rings' = rings /\ thread_last_fd' = thread_last_fd
  BY DEF SslEnter, appVars, mapVars, outVars
<1>0. Threads' = Threads /\ Fds' = Fds /\ SslMode' = SslMode
  BY <1>2 DEF Threads, Fds, SslMode
<1>3. conns[fd].id \in Nat \ {0}
  BY <1>1 DEF SslEnter, Shapes, StoreOK
<1>4. /\ Only(t) /\ th'[t].pc = "user" /\ th'[t].op = th[t].op /\ th'[t].fd = th[t].fd
      /\ th'[t].cpu = th[t].cpu /\ th'[t].gen = th[t].gen /\ th'[t].ctx = th[t].ctx /\ th'[t].conn = th[t].conn
      /\ th'[t].ssl = fd /\ th'[t].touched = FALSE
      /\ th'[t].dir = th[t].dir /\ th'[t].sslDir = dir
  <2>1. th' = [th EXCEPT ![t].ssl = fd, ![t].sslDir = dir, ![t].touched = FALSE]
    BY DEF SslEnter
  <2> QED
    BY <1>1, <2>1, ThreadDomain DEF Only, Fields
<1>5. ThreadOK(t)'
  BY <1>0, <1>1, <1>2, <1>4, IdleFields DEF ThreadOK, Saved, Pcs, Emitting, DataOps, Only
<1>6. Fresh(t, fd) /\ ~Strong(t)'
  BY <1>0, <1>1, <1>4 DEF Fresh, Strong, HasGen, Saved, Holds, Closing, Emitting, ThreadOK
<1>7. \A u \in Threads : u # t => ~Holds(u, fd)
  BY NobodyHolds DEF SslEnter
<1>8. th'[t].op # "accepted" /\ conns[fd].id # 0
  BY <1>1, <1>3, <1>4 DEF ThreadOK
<1> QED
  BY <1>2, <1>4, <1>5, <1>6, <1>7, <1>8, EnterStep

(* the plaintext goes to the descriptor of the SSL_* call's own system call *)
LEMMA SslReturnStep ==
  ASSUME IInv, Attributable, NEW t \in Threads, NEW n, NEW cpu \in Cpus, SslReturn(t, n, cpu)
  PROVE  IInv'
<1>1. Shapes /\ ThreadOK(t) /\ th[t].pc = "user" /\ NoFd \notin Fds /\ th[t].ssl # NoFd
  BY DEF IInv, Shapes, SslReturn, AllFds
<1>2. /\ app' = app /\ conns' = conns /\ opened' = opened /\ fd_generations' = fd_generations
      /\ socket_tuples' = socket_tuples /\ got' = got /\ rings' = rings /\ thread_last_fd' = thread_last_fd
  BY DEF SslReturn, mapVars, outVars
<1>0. Threads' = Threads /\ Fds' = Fds /\ SslMode' = SslMode
  BY <1>2 DEF Threads, Fds, SslMode
<1>3. CASE th' = [th EXCEPT ![t] = Idle]
  <2>1. Only(t) /\ Returns(t)
    BY <1>1, <1>3, ThreadDomain DEF Only, Returns, Idle, Fields
  <2> QED
    BY <1>1, <1>2, <2>1, StoreSame, OutSame, LastSame, KeepsStep DEF Shapes
<1>4. CASE th' = [th EXCEPT ![t] = [Idle EXCEPT
                    !.pc = "gen", !.op = "ssl", !.sys = calls + 1, !.fd = thread_last_fd[t], !.cpu = cpu,
                    !.dir = th[t].sslDir, !.conn = conns[th[t].ssl].id,
                    !.plan = emit_data_event(n, n)]]
  <2>1. PICK fd \in Fds : fd = th[t].ssl
    BY <1>1 DEF ThreadOK
  <2>2. thread_last_fd[t] = fd
    BY <1>1, <2>1 DEF SslReturn, SslHasData, Attributable, ThreadOK
  <2>3. Holds(t, fd)
    BY <2>1 DEF Holds
  <2>4. conns[fd].id \in Nat \ {0} /\ \A u \in Threads : u # t => ~Holds(u, fd)
    BY <1>1, <2>3 DEF IInv, Exclusive, Shapes, StoreOK
  <2>5. /\ Only(t) /\ th'[t].pc = "gen" /\ th'[t].op = "ssl" /\ th'[t].fd = fd
        /\ th'[t].cpu = cpu /\ th'[t].gen = 0 /\ th'[t].ctx = 0 /\ th'[t].conn = conns[fd].id
        /\ th'[t].ssl = NoFd /\ th'[t].touched = FALSE
        /\ th'[t].dir = th[t].sslDir /\ th'[t].sslDir = "write"
    BY <1>1, <1>4, <2>1, <2>2, ThreadDomain DEF Only, Idle, Fields
  <2>6. ThreadOK(t)'
    BY <1>0, <1>1, <1>2, <2>4, <2>5, IdleFields DEF ThreadOK, Saved, Pcs, Emitting, DataOps, Only
  <2>7. Fresh(t, fd)
    BY <1>0, <1>1, <2>5 DEF Fresh, Strong, HasGen, Saved, Holds, Closing, Emitting
  <2>8. th'[t].op # "accepted" /\ conns[fd].id # 0
    BY <2>4, <2>5
  <2> QED
    BY <1>2, <2>4, <2>5, <2>6, <2>7, <2>8, EnterStep
<1> QED
  BY <1>3, <1>4 DEF SslReturn

-----------------------------------------------------------------------------
(* A new connection *)

(* Nobody works on a descriptor without a connection, and nothing speaks    *)
(* for its generation, so the connection is the generation's only one.      *)
LEMMA OpenStep ==
  ASSUME IInv, NEW t \in Threads, NEW fd \in Fds, conns[fd] = NoConn,
         NEW r \in [local : Ports \cup {NoPort, ListenPort}, remote : Ports \cup {NoPort}],
         app' = app, opened' = Append(opened, r), conns' = [conns EXCEPT ![fd].id = Len(opened) + 1],
         fd_generations' = fd_generations, socket_tuples' = socket_tuples,
         thread_last_fd' = thread_last_fd, rings' = rings, got' = got,
         Only(t), ThreadOK(t)', Fresh(t, fd),
         \A f \in Fds : Holds(t, f)' => f = fd,
         Strong(t)' => th'[t].fd = fd /\ th'[t].conn = Len(opened) + 1,
         th'[t].op = "accepted" => th'[t].conn = Len(opened) + 1 /\ r.local = ListenPort
  PROVE  IInv'
<1> DEFINE n == Len(opened) + 1
<1>0. Threads' = Threads /\ Fds' = Fds /\ AllFds' = AllFds /\ Ports' = Ports /\ \A f : Gen(f)' = Gen(f)
  BY DEF Threads, Fds, AllFds, Ports, Gen
<1>1. Shapes /\ Exclusive /\ Agree /\ TuplesAreOwn /\ StoreOK /\ RingsOK
  BY DEF IInv, Shapes
<1>2. /\ opened' \in Seq([local : Ports \cup {NoPort, ListenPort}, remote : Ports \cup {NoPort}])
      /\ Len(opened') = n /\ Len(opened) \in Nat /\ opened'[n] = r
      /\ \A i \in 1 .. Len(opened) : opened'[i] = opened[i]
  BY <1>1 DEF StoreOK
<1>3. /\ conns'[fd].id = n /\ \A f \in Fds : f # fd => conns'[f] = conns[f]
      /\ conns' \in [Fds -> [id : 0 .. n, read : Nat, write : Nat]]
  <2>1. conns \in [Fds -> [id : 0 .. Len(opened), read : Nat, write : Nat]]
    BY <1>1 DEF StoreOK
  <2>2. conns[fd].id = 0
    BY DEF NoConn
  <2> DEFINE c == [conns[fd] EXCEPT !.id = n]
  <2>3. c \in [id : 0 .. n, read : Nat, write : Nat] /\ c.id = n
    <3>1. conns[fd] \in [id : 0 .. Len(opened), read : Nat, write : Nat] /\ n \in 0 .. n
      BY <1>2, <2>1
    <3> HIDE DEF n
    <3> QED
      BY <3>1
  <2>4. conns' = [conns EXCEPT ![fd] = c]
    OBVIOUS
  <2>5. \A f \in Fds : conns[f] \in [id : 0 .. n, read : Nat, write : Nat]
    <3> SUFFICES ASSUME NEW f \in Fds PROVE conns[f] \in [id : 0 .. n, read : Nat, write : Nat]
      OBVIOUS
    <3>1. conns[f] \in [id : 0 .. Len(opened), read : Nat, write : Nat]
      BY <2>1
    <3>2. conns[f].id \in 0 .. Len(opened)
      BY <3>1
    <3>3. conns[f].id \in 0 .. n
      BY <1>2, <3>2
    <3> HIDE DEF n
    <3> QED
      BY <3>1, <3>3
  <2> HIDE DEF c, n
  <2> QED
    BY <2>1, <2>3, <2>4, <2>5
<1>4. StoreOK'
  BY <1>0, <1>1, <1>2, <1>3 DEF StoreOK
<1>5. RingsOK' /\ Submitted' = Submitted
  BY <1>1 DEF RingsOK, Submitted, Ready
<1>6. Shapes' /\ OnlyMoves(t)
  BY <1>1, <1>4, <1>5, ShapesStep, LastSame
<1>7. conns[fd].id = 0 /\ \A u \in Threads : ~Holds(u, fd)
  BY <1>1 DEF Exclusive, NoConn
<1>8. \A u \in Threads, f \in Fds : Holds(u, f)' => (u = t /\ f = fd) \/ (u # t /\ Holds(u, f) /\ f # fd)
  BY <1>6, <1>7, OthersSame
<1>9. \A u \in Threads : u # t /\ Strong(u)' =>
        Strong(u) /\ th'[u] = th[u] /\ th[u].fd \in Fds /\ th[u].fd # fd
  BY <1>6, <1>7, OthersSame DEF Strong, Holds
<1>10. Exclusive'
  <2>1. \A u, v \in Threads, f \in Fds : Holds(u, f)' /\ Holds(v, f)' => u = v
    BY <1>1, <1>8 DEF Exclusive
  <2>2. \A u \in Threads, f \in Fds : Holds(u, f)' => conns'[f].id # 0
    BY <1>1, <1>2, <1>3, <1>8 DEF Exclusive
  <2>3. \A u \in Threads : Strong(u)' => th'[u].conn = conns'[th'[u].fd].id
    BY <1>1, <1>3, <1>9 DEF Exclusive
  <2>4. \A u \in Threads : Strong(u)' /\ HasGen(u)' =>
          th'[u].gen = fd_generations'[th'[u].fd] /\ th'[u].gen # 0
    BY <1>1, <1>6, OthersSame DEF Exclusive, Fresh
  <2>5. \A u \in Threads : th'[u].fd \in Fds /\ th'[u].pc = "initgen" => fd_generations'[th'[u].fd] = 0
    BY <1>1, <1>6 DEF Exclusive, OnlyMoves, Fresh
  <2> QED
    BY <1>0, <2>1, <2>2, <2>3, <2>4, <2>5 DEF Exclusive
<1>11. Claims' \subseteq Claims
  <2> SUFFICES ASSUME NEW a \in Claims' PROVE a \in Claims
    OBVIOUS
  <2>1. (\E u \in Claiming' : a = Claim(u)') \/ (\E e \in Submitted' : a = ClaimOf(e))
    BY DEF Claims, Claim, ClaimOf
  <2>2. ASSUME NEW u \in Claiming', a = Claim(u)' PROVE a \in Claims
    <3>1. u # t /\ u \in Threads
      BY <1>0, <2>2 DEF Claiming, Fresh
    <3> QED
      BY <1>0, <1>6, <2>2, <3>1, OthersSame, ClaimsAre DEF Claiming
  <2> QED
    BY <1>5, <2>1, <2>2, ClaimsAre
<1>12. \A a \in Claims : a.gen = Gen(a.fd) => a.fd # fd
  BY <1>1, <1>7 DEF Agree
<1>13. \A u \in Threads : /\ Closing(u, {"reset", "kernel"})' => Closing(u, {"reset", "kernel"}) /\ th'[u] = th[u]
                          /\ Closing(u, {"bump", "reset", "kernel"})' =>
                               Closing(u, {"bump", "reset", "kernel"}) /\ th'[u] = th[u]
  BY <1>6 DEF OnlyMoves, Fresh, Closing
<1>14. Agree'
  <2>1. ASSUME NEW a \in Claims'
        PROVE  /\ a.fd \in Fds /\ a.gen \in 1 .. Gen(a.fd)' /\ a.conn \in 1 .. Len(opened')
               /\ a.gen = Gen(a.fd)' => a.conn = conns'[a.fd].id
    <3>1. /\ a.fd \in Fds /\ a.gen \in 1 .. Gen(a.fd) /\ a.conn \in 1 .. Len(opened)
          /\ a.gen = Gen(a.fd) => a.conn = conns[a.fd].id
      BY <1>1, <1>11 DEF Agree
    <3>2. a.conn \in 1 .. Len(opened')
      BY <1>2, <3>1
    <3> QED
      BY <1>0, <1>3, <1>11, <1>12, <3>1, <3>2
  <2>2. \A a, b \in Claims' : a.fd = b.fd /\ a.gen = b.gen => a.conn = b.conn
    BY <1>1, <1>11 DEF Agree
  <2>3. \A u \in Threads : Closing(u, {"reset", "kernel"})' =>
          \A a \in Claims' : a.fd = th'[u].fd => a.gen # Gen(a.fd)'
    BY <1>0, <1>1, <1>11, <1>13 DEF Agree
  <2> QED
    BY <1>0, <2>1, <2>2, <2>3 DEF Agree
<1>15. \A k \in DOMAIN socket_tuples : k[1] # fd
  BY <1>1, <1>7 DEF TuplesAreOwn
<1>16. TuplesAreOwn'
  <2>1. ASSUME NEW k \in DOMAIN socket_tuples'
        PROVE  /\ k[1] \in AllFds
               /\ DOMAIN socket_tuples'[k] = {"local", "remote"}
               /\ k[1] = Listener => socket_tuples'[k].local \in {NoPort, ListenPort}
               /\ k[1] \in Fds =>
                    /\ k = <<k[1], Gen(k[1])'>> /\ conns'[k[1]].id # 0
                    /\ socket_tuples'[k].local \in {NoPort, opened'[conns'[k[1]].id].local}
                    /\ socket_tuples'[k].remote \in {NoPort, opened'[conns'[k[1]].id].remote}
    <3>1. CASE k[1] \in Fds
      <4>1. conns'[k[1]] = conns[k[1]] /\ conns[k[1]].id # 0
        BY <1>1, <1>3, <1>15, <3>1 DEF TuplesAreOwn
      <4>2. conns[k[1]].id \in 1 .. Len(opened)
        BY <1>1, <3>1, <4>1 DEF StoreOK
      <4>3. opened'[conns'[k[1]].id] = opened[conns[k[1]].id]
        BY <1>2, <4>1, <4>2
      <4> QED
        BY <1>0, <1>1, <3>1, <4>1, <4>3 DEF TuplesAreOwn, OwnPorts
    <3>2. CASE k[1] \notin Fds
      BY <1>1, <3>2 DEF TuplesAreOwn
    <3> QED
      BY <3>1, <3>2
  <2>2. ASSUME NEW u \in Threads, Closing(u, {"bump", "reset", "kernel"})', NEW k \in DOMAIN socket_tuples'
        PROVE  k[1] # th'[u].fd
    BY <1>1, <1>13, <2>2 DEF TuplesAreOwn
  <2>3. ASSUME NEW u \in Threads, th'[u].op = "accepted", th'[u].pc \in {"gen", "initgen", "tuple"}
        PROVE  opened'[th'[u].conn].local = ListenPort
    <3>1. CASE u = t
      BY <1>2, <2>3, <3>1
    <3>2. CASE u # t
      <4>1. th'[u] = th[u] /\ Strong(u) /\ th[u].fd \in Fds
        BY <1>1, <1>6, <2>3, <3>2 DEF OnlyMoves, Strong, Shapes, ThreadOK
      <4>2. th[u].conn = conns[th[u].fd].id /\ th[u].conn # 0
        BY <1>1, <4>1 DEF Exclusive, Holds
      <4>3. th[u].conn \in 1 .. Len(opened)
        BY <1>1, <4>1, <4>2 DEF StoreOK
      <4> QED
        BY <1>1, <1>2, <2>3, <4>1, <4>3 DEF TuplesAreOwn
    <3> QED
      BY <3>1, <3>2
  <2>4. ASSUME NEW e \in Submitted'
        PROVE  /\ e.local \in {NoPort, opened'[e.conn].local}
               /\ e.remote \in {NoPort, opened'[e.conn].remote}
    <3>1. ClaimOf(e) \in Claims /\ ClaimOf(e).conn = e.conn
      BY <1>5, ClaimsAre DEF ClaimOf
    <3>2. e.conn \in 1 .. Len(opened)
      BY <1>1, <3>1 DEF Agree
    <3> QED
      BY <1>1, <1>2, <1>5, <3>2 DEF TuplesAreOwn, OwnPorts
  <2> QED
    BY <1>0, <2>1, <2>2, <2>3, <2>4 DEF TuplesAreOwn, OwnPorts
<1> QED
  BY <1>6, <1>10, <1>14, <1>16 DEF IInv

LEMMA EnterConnectStep ==
  ASSUME IInv, NEW t \in Threads, NEW fd \in Fds, NEW port \in Ports \cup {NoPort}, NEW cpu \in Cpus,
         EnterConnect(t, fd, port, cpu)
  PROVE  IInv'
<1> DEFINE n == Len(opened) + 1  r == [local |-> NoPort, remote |-> port]
<1>1. Shapes /\ ThreadOK(t) /\ th[t].pc = "user" /\ NoFd \notin Fds /\ th[t].ssl = NoFd /\ n \in Nat \ {0}
  BY DEF IInv, Shapes, EnterConnect, Enter, AllFds, StoreOK
<1>2. /\ app' = app /\ opened' = Append(opened, r) /\ conns' = [conns EXCEPT ![fd].id = n]
      /\ fd_generations' = fd_generations /\ conns[fd] = NoConn
      /\ socket_tuples' = socket_tuples /\ got' = got /\ rings' = rings /\ thread_last_fd' = thread_last_fd
  BY DEF EnterConnect, mapVars, outVars
<1>0. Threads' = Threads /\ Fds' = Fds /\ SslMode' = SslMode
  BY <1>2 DEF Threads, Fds, SslMode
<1>3. r \in [local : Ports \cup {NoPort, ListenPort}, remote : Ports \cup {NoPort}]
  OBVIOUS
<1>4. CASE UNCHANGED th
  <2>1. Only(t) /\ ThreadOK(t)' /\ th'[t].op = "none" /\ th'[t].pc = "user" /\ th'[t].ssl = NoFd
    BY <1>0, <1>1, <1>2, <1>4, ThreadDomain DEF Only, ThreadOK, Saved
  <2>2. Fresh(t, fd) /\ ~Strong(t)'
    BY <1>0, <1>1, <2>1 DEF Fresh, Strong, HasGen, Saved, Holds, Closing, Emitting
  <2> HIDE DEF r
  <2> QED
    BY <1>2, <1>3, <2>1, <2>2, OpenStep DEF Fresh
<1>5. CASE th' = [th EXCEPT ![t] = [Started(t, "connect", fd, cpu) EXCEPT !.conn = n]]
  <2>1. /\ Only(t) /\ th'[t].pc = "gen" /\ th'[t].op = "connect" /\ th'[t].fd = fd
        /\ th'[t].cpu = cpu /\ th'[t].gen = th[t].gen /\ th'[t].ctx = th[t].ctx /\ th'[t].conn = n
        /\ th'[t].ssl = th[t].ssl /\ th'[t].touched = th[t].touched
        /\ th'[t].dir = th[t].dir /\ th'[t].sslDir = th[t].sslDir
    BY <1>1, <1>5, ThreadDomain DEF Started, Only, Fields
  <2>2. ThreadOK(t)'
    BY <1>0, <1>1, <1>2, <2>1, IdleFields DEF ThreadOK, Saved, Pcs, Emitting, DataOps, Only
  <2>3. Fresh(t, fd)
    BY <1>0, <1>1, <2>1 DEF Fresh, Strong, HasGen, Saved, Holds, Closing, Emitting
  <2> HIDE DEF r
  <2> QED
    BY <1>2, <1>3, <2>1, <2>2, <2>3, OpenStep DEF Fresh
<1> QED
  BY <1>4, <1>5 DEF EnterConnect

LEMMA AcceptReturnStep ==
  ASSUME IInv, NEW t \in Threads, NEW fd \in Fds, NEW port \in Ports, NEW cpu \in Cpus,
         AcceptReturn(t, fd, port, cpu)
  PROVE  IInv'
<1> DEFINE n == Len(opened) + 1  r == [local |-> ListenPort, remote |-> port]
<1>1. Shapes /\ ThreadOK(t) /\ th[t].pc = "kernel" /\ th[t].op = "accept" /\ NoFd \notin Fds /\ n \in Nat \ {0}
  BY DEF IInv, Shapes, AcceptReturn, AllFds, StoreOK
<1>2. /\ app' = app /\ opened' = Append(opened, r) /\ conns' = [conns EXCEPT ![fd].id = n]
      /\ fd_generations' = fd_generations /\ conns[fd] = NoConn
      /\ socket_tuples' = socket_tuples /\ got' = got /\ rings' = rings /\ thread_last_fd' = thread_last_fd
  BY DEF AcceptReturn, mapVars, outVars
<1>0. Threads' = Threads /\ Fds' = Fds /\ SslMode' = SslMode
  BY <1>2 DEF Threads, Fds, SslMode
<1>3. r \in [local : Ports \cup {NoPort, ListenPort}, remote : Ports \cup {NoPort}] /\ r.local = ListenPort
  OBVIOUS
<1>4. /\ Only(t) /\ th'[t].pc = "gen" /\ th'[t].op = "accepted" /\ th'[t].fd = fd
      /\ th'[t].cpu = cpu /\ th'[t].gen = th[t].gen /\ th'[t].ctx = th[t].ctx /\ th'[t].conn = n
      /\ th'[t].ssl = th[t].ssl /\ th'[t].touched = th[t].touched
      /\ th'[t].dir = th[t].dir /\ th'[t].sslDir = th[t].sslDir
  BY <1>1, ThreadDomain DEF AcceptReturn, Only, Fields
<1>5. th[t].ssl = NoFd
  BY <1>1 DEF ThreadOK, DataOps
<1>6. ThreadOK(t)'
  BY <1>0, <1>1, <1>2, <1>4, <1>5, IdleFields DEF ThreadOK, Saved, Pcs, Emitting, DataOps, Only
<1>7. Fresh(t, fd)
  BY <1>0, <1>1, <1>4, <1>5 DEF Fresh, Strong, HasGen, Saved, Holds, Closing, Emitting
<1> HIDE DEF r
<1> QED
  BY <1>2, <1>3, <1>4, <1>6, <1>7, OpenStep DEF Fresh

-----------------------------------------------------------------------------
(* The invariant and what it implies *)

LEMMA InitInv ==
  ASSUME Init
  PROVE  AInv
<1>1. app \in Workloads /\ IsWorkload(app)
  BY WorkloadsAssumption DEF Init
<1>2. Listener \notin Fds /\ NoFd \notin AllFds
  BY <1>1 DEF IsWorkload, Fds, AllFds, NoFd
<1>3. Submitted = {}
  <2>1. got = <<>> /\ Range(got) = {} /\ \A c \in Cpus : rings[c] = <<>> /\ Range(rings[c]) = {}
    BY DEF Init, Range
  <2> QED
    BY <2>1, SubmittedIs DEF ReadyIn
<1>4. \A t \in Threads : th[t] = Idle
  BY DEF Init
<1>5. /\ Idle.pc = "user" /\ Idle.op = "none" /\ Idle.fd = NoFd /\ Idle.ctx = 0 /\ Idle.gen = 0 /\ Idle.conn = 0
      /\ Idle.ssl = NoFd /\ Idle.touched = FALSE /\ Idle.dir = "write" /\ Idle.sslDir = "write"
  BY DEF Idle
<1>6. \A t \in Threads : ThreadOK(t)
  BY <1>2, <1>4, <1>5 DEF ThreadOK, Saved, Pcs, Emitting, DataOps
<1>7. StoreOK
  <2>1. fd_generations \in [AllFds -> Nat] /\ fd_generations[Listener] = 0
    BY DEF Init, AllFds
  <2>2. opened = <<>> /\ Len(opened) = 0 /\ \A f \in Fds : conns[f] = NoConn
    BY DEF Init
  <2>3. NoConn \in [id : 0 .. 0, read : Nat, write : Nat]
    BY DEF NoConn
  <2>4. conns \in [Fds -> [id : 0 .. Len(opened), read : Nat, write : Nat]]
    BY <2>2, <2>3 DEF Init
  <2> QED
    BY <2>1, <2>2, <2>4 DEF StoreOK
<1>8. RingsOK
  BY DEF Init, RingsOK
<1>9. Shapes
  BY <1>2, <1>6, <1>7, <1>8 DEF Shapes, Init
<1>10. \A t \in Threads : /\ ~Strong(t) /\ ~HasGen(t) /\ ~Saved(t) /\ th[t].pc = "user" /\ th[t].op = "none"
                          /\ \A f \in Fds : ~Holds(t, f)
  BY <1>2, <1>4, <1>5 DEF Strong, HasGen, Saved, Holds, Emitting, AllFds
<1>11. Claims = {}
  BY <1>3, <1>10 DEF Claims, Claiming
<1>12. Exclusive
  BY <1>10 DEF Exclusive
<1>13. Agree
  BY <1>10, <1>11 DEF Agree, Closing
<1>14. TuplesAreOwn
  BY <1>3, <1>10 DEF TuplesAreOwn, Closing, Init
<1> QED
  BY <1>1, <1>9, <1>12, <1>13, <1>14 DEF AInv, IInv

LEMMA WorkloadStays ==
  ASSUME Next
  PROVE  app' = app
<1>1. ASSUME NEW t, NEW cpu, AppStep(t, cpu) PROVE app' = app
  <2>1. ASSUME NEW dir, NEW fd, NEW buf, NEW peek, EnterData(t, dir, fd, buf, peek, cpu) PROVE app' = app
    BY <2>1 DEF EnterData
  <2>2. ASSUME NEW fd, EnterClose(t, fd, cpu) PROVE app' = app
    BY <2>2 DEF EnterClose
  <2>3. ASSUME NEW fd, NEW port, EnterConnect(t, fd, port, cpu) PROVE app' = app
    BY <2>3 DEF EnterConnect
  <2>4. EnterBind(t, cpu) \/ EnterAccept(t, cpu) => app' = app
    BY DEF EnterBind, EnterAccept
  <2>5. ASSUME NEW n, ReadReturn(t, n, cpu) PROVE app' = app
    BY <2>5 DEF ReadReturn
  <2>6. ASSUME NEW fd, NEW port, AcceptReturn(t, fd, port, cpu) PROVE app' = app
    BY <2>6 DEF AcceptReturn
  <2>7. ASSUME NEW n, SslReturn(t, n, cpu) PROVE app' = app
    BY <2>7 DEF SslReturn
  <2> QED
    BY <1>1, <2>1, <2>2, <2>3, <2>4, <2>5, <2>6, <2>7 DEF AppStep
<1>2. ASSUME NEW t, ProbeStep(t) PROVE app' = app
  <2>1. LookupGeneration(t) \/ InitGeneration(t) \/ Filter(t) \/ LearnTuple(t) => app' = app
    BY DEF LookupGeneration, InitGeneration, Filter, LearnTuple
  <2>2. EmitData(t) \/ EmitControl(t) \/ EmitDone(t) => app' = app
    BY DEF EmitData, EmitControl, EmitDone
  <2>3. LookupSeq(t) \/ UpdateSeq(t) \/ Copy(t) => app' = app
    BY DEF LookupSeq, UpdateSeq, Copy
  <2>4. DeleteTuple(t) \/ BumpGeneration(t) \/ ResetSeq(t) => app' = app
    BY DEF DeleteTuple, BumpGeneration, ResetSeq
  <2> QED
    BY <1>2, <2>1, <2>2, <2>3, <2>4 DEF ProbeStep
<1>3. ASSUME NEW t, KernelStep(t) PROVE app' = app
  BY <1>3 DEF KernelStep, WriteReturn, CloseReturn, AcceptFails, SslEnter
<1>4. ASSUME NEW c, AgentRead(c) PROVE app' = app
  BY <1>4 DEF AgentRead
<1> QED
  BY <1>1, <1>2, <1>3, <1>4 DEF Next

LEMMA StepInv ==
  ASSUME AInv, [Next]_vars
  PROVE  AInv'
<1>1. CASE UNCHANGED vars
  <2>1. Attributable' = Attributable /\ app' = app
    BY <1>1 DEF Attributable, Overlap, SslMode, vars
  <2>2. IInv => IInv'
    <3>1. Shapes => Shapes'
      BY <1>1 DEF Shapes, StoreOK, RingsOK, ThreadOK, Saved, vars, Fds, AllFds, Ports, Threads, SslMode
    <3>2. Exclusive => Exclusive'
      BY <1>1 DEF Exclusive, Holds, Strong, HasGen, vars, Fds, Threads
    <3>3. Claims' = Claims /\ Submitted' = Submitted /\ \A f : Gen(f)' = Gen(f)
      BY <1>1 DEF Claims, Claiming, HasGen, Saved, Submitted, Ready, Gen, vars, Fds, Threads
    <3>4. Agree => Agree'
      BY <1>1, <3>3 DEF Agree, Closing, vars, Fds, Threads
    <3>5. TuplesAreOwn => TuplesAreOwn'
      BY <1>1, <3>3 DEF TuplesAreOwn, OwnPorts, Closing, vars, Fds, AllFds, Threads, Gen
    <3> QED
      BY <3>1, <3>2, <3>4, <3>5 DEF IInv
  <2> QED
    BY <2>1, <2>2 DEF AInv
<1>2. CASE Next
  <2>1. app' = app
    BY <1>2, WorkloadStays
  <2>2. Attributable' = Attributable
    BY <2>1 DEF Attributable, Overlap, SslMode
  <2>3. ASSUME Attributable, ~app.full PROVE IInv'
    <3>1. IInv /\ Threads # {}
      BY <2>3, WorkloadsAssumption DEF AInv, IsWorkload, Threads
    <3>2. ASSUME NEW t \in Threads, NEW cpu \in Cpus, AppStep(t, cpu) PROVE IInv'
      BY <2>3, <3>1, <3>2, EnterDataStep, EnterCloseStep, EnterConnectStep, ListenerStep, ReadReturnStep,
         AcceptReturnStep, SslReturnStep DEF AppStep
    <3>3. ASSUME NEW t \in Threads, ProbeStep(t) PROVE IInv'
      BY <2>3, <3>1, <3>3, LookupGenerationStep, InitGenerationStep, FilterStep, LearnTupleStep, EmitDataStep,
         EmitControlStep, LookupSeqStep, UpdateSeqStep, CopyStep, EmitDoneStep, DeleteTupleStep,
         BumpGenerationStep, ResetSeqStep DEF ProbeStep
    <3>4. ASSUME NEW t \in Threads, KernelStep(t) PROVE IInv'
      BY <2>3, <3>1, <3>4, WriteReturnStep, CloseReturnStep, AcceptFailsStep, SslEnterStep DEF KernelStep
    <3>5. ASSUME NEW c \in Cpus, AgentRead(c) PROVE IInv'
      BY <3>1, <3>5, AgentReadStep
    <3> QED
      BY <1>2, <3>2, <3>3, <3>4, <3>5 DEF Next
  <2> QED
    BY <2>1, <2>2, <2>3 DEF AInv
<1> QED
  BY <1>1, <1>2

(* The inductive invariant holds in every reachable state. *)
THEOREM Invariance == Spec => []AInv
<1>1. Init => AInv
  BY InitInv
<1>2. AInv /\ [Next]_vars => AInv'
  BY StepInv
<1> QED
  BY <1>1, <1>2, PTL DEF Spec

(* One generation of a descriptor is one connection, for any number of      *)
(* threads, descriptors and connections: bump_generation in the close probe *)
(* and the generation a read saves at its entry keep the events of a reused *)
(* descriptor apart.                                                        *)
THEOREM GenerationsAreApart == Spec => [](Attributable => GenerationIsOneConnection)
<1>1. AInv => (Attributable => GenerationIsOneConnection)
  <2> SUFFICES ASSUME IInv, NEW e \in Submitted, NEW f \in Submitted, SameFlow(e, f) PROVE e.conn = f.conn
    BY DEF AInv, GenerationIsOneConnection
  <2>1. ClaimOf(e) \in Claims /\ ClaimOf(f) \in Claims
    BY ClaimsAre
  <2>2. /\ ClaimOf(e).fd = e.fd /\ ClaimOf(e).gen = e.gen /\ ClaimOf(e).conn = e.conn
        /\ ClaimOf(f).fd = f.fd /\ ClaimOf(f).gen = f.gen /\ ClaimOf(f).conn = f.conn
    BY DEF ClaimOf
  <2> QED
    BY <2>1, <2>2 DEF IInv, Agree, SameFlow
<1> QED
  BY <1>1, Invariance, PTL

(* The ports in an event are those of its connection: delete_socket_tuple   *)
(* and the generation in the key keep an old tuple from a new connection.   *)
THEOREM TuplesStayApart == Spec => [](Attributable => MetadataIsOwn)
<1>1. AInv => (Attributable => MetadataIsOwn)
  BY DEF AInv, IInv, TuplesAreOwn, OwnPorts, MetadataIsOwn
<1> QED
  BY <1>1, Invariance, PTL

-----------------------------------------------------------------------------
(* How buffers are cut *)

LEMMA SegEndIs ==
  ASSUME NEW segs \in Seq(Nat)
  PROVE  /\ SegEnd(segs) \in [0 .. Len(segs) -> Nat] /\ SegEnd(segs)[0] = 0
         /\ \A i \in 1 .. Len(segs) : SegEnd(segs)[i] = SegEnd(segs)[i - 1] + segs[i]
<1> DEFINE n == Len(segs)
           F == [p \in (1 .. n) \X Nat |-> p[2] + segs[p[1]]]
           end == CHOOSE f : f = [i \in 0 .. n |-> IF i = 0 THEN 0 ELSE f[i - 1] + segs[i]]
<1>1. n \in Nat /\ \A i \in 1 .. n : segs[i] \in Nat
  OBVIOUS
<1>2. F \in [(1 .. n) \X Nat -> Nat] /\ \A i \in 1 .. n, x \in Nat : F[<<i, x>>] = x + segs[i]
  <2>1. ASSUME NEW q \in (1 .. n) \X Nat PROVE q[2] + segs[q[1]] \in Nat
    <3>1. q[1] \in 1 .. n /\ q[2] \in Nat
      OBVIOUS
    <3>2. segs[q[1]] \in Nat
      BY <1>1, <3>1
    <3> QED
      BY <3>1, <3>2
  <2>2. F \in [(1 .. n) \X Nat -> Nat]
    BY <2>1
  <2>3. ASSUME NEW i \in 1 .. n, NEW x \in Nat PROVE F[<<i, x>>] = x + segs[i]
    <3>1. <<i, x>> \in (1 .. n) \X Nat /\ <<i, x>>[1] = i /\ <<i, x>>[2] = x
      OBVIOUS
    <3> QED
      BY <3>1
  <2> QED
    BY <2>2, <2>3
<1>3. SegEnd(segs) = end
  BY DEF SegEnd
<1> HIDE DEF n, F
<1>4. PICK f \in [0 .. n -> Nat] : f[0] = 0 /\ \A i \in 1 .. n : f[i] = F[<<i, f[i - 1]>>]
  <2>1. IsLoop(n, Nat, 0, F)
    BY <1>1, <1>2 DEF IsLoop
  <2>2. HasRun(n, Nat, 0, F)
    BY <2>1, CountedLoop
  <2> QED
    BY <2>2 DEF HasRun
<1>5. \A i \in 1 .. n : i - 1 \in 0 .. n /\ i # 0
  BY <1>1
<1>6. \A i \in 1 .. n : f[i] = f[i - 1] + segs[i]
  BY <1>2, <1>4, <1>5
<1>7. f = [i \in 0 .. n |-> IF i = 0 THEN 0 ELSE f[i - 1] + segs[i]]
  <2>1. ASSUME NEW i \in 0 .. n PROVE f[i] = IF i = 0 THEN 0 ELSE f[i - 1] + segs[i]
    <3>1. i = 0 \/ i \in 1 .. n
      BY <1>1
    <3> QED
      BY <1>4, <1>6, <3>1
  <2> QED
    BY <2>1
<1>8. end = [i \in 0 .. n |-> IF i = 0 THEN 0 ELSE end[i - 1] + segs[i]]
  BY <1>7
<1> HIDE DEF end
<1>9. end[0] = 0 /\ \A i \in 1 .. n : end[i] = end[i - 1] + segs[i]
  BY <1>1, <1>5, <1>8
<1> DEFINE T == {k \in 0 .. n : end[k] \in Nat}
<1>10. \A k \in 0 .. n : k \in T
  <2>1. 0 \in T
    BY <1>1, <1>9
  <2>2. ASSUME NEW k \in 0 .. n - 1, k \in T PROVE k + 1 \in T
    <3>1. k + 1 \in 1 .. n /\ (k + 1) - 1 = k /\ k + 1 \in 0 .. n
      BY <1>1
    <3>2. end[k + 1] = end[k] + segs[k + 1] /\ segs[k + 1] \in Nat /\ end[k] \in Nat
      BY <1>1, <1>9, <2>2, <3>1
    <3> QED
      BY <3>1, <3>2
  <2> HIDE DEF T
  <2> QED
    BY <1>1, <2>1, <2>2, CountingUp
<1>11. end \in [0 .. n -> Nat]
  BY <1>8, <1>10
<1> QED
  BY <1>3, <1>9, <1>11 DEF n

LEMMA TotalIs ==
  ASSUME NEW segs \in Seq(Nat)
  PROVE  Total(segs) \in Nat
BY SegEndIs DEF Total

(* the events still to be emitted: in the order of their offsets, and each  *)
(* shorter than the buffer of an event                                      *)
Chunks == [off : Nat, size : Nat, original : Nat]
PlanOK(plan) ==
  /\ plan \in Seq(Chunks)
  /\ \A i \in DOMAIN plan : plan[i].size < MAX_PAYLOAD_SIZE
  /\ \A i, j \in DOMAIN plan : i < j => plan[i].off + plan[i].size <= plan[j].off

(* they stay within n bytes; they hold all of them, or one shows that it    *)
(* does not hold what it should                                             *)
Within(plan, n) == \A i \in DOMAIN plan : plan[i].off + plan[i].size <= n
Flagged(plan) == \E i \in DOMAIN plan : plan[i].original > plan[i].size
Covers(plan, n) ==
  \A b \in 1 .. n : \E i \in DOMAIN plan : plan[i].off < b /\ b <= plan[i].off + plan[i].size

LEMMA EmptyPlan == PlanOK(<<>>) /\ Within(<<>>, 0) /\ Covers(<<>>, 0)
BY DEF PlanOK, Within, Covers

LEMMA AppendChunk ==
  ASSUME NEW q, PlanOK(q), NEW m \in Nat, Within(q, m), NEW c \in Chunks, c.size < MAX_PAYLOAD_SIZE, m <= c.off
  PROVE  /\ PlanOK(Append(q, c)) /\ Within(Append(q, c), c.off + c.size)
         /\ Flagged(q) \/ c.original > c.size => Flagged(Append(q, c))
         /\ \A n \in Nat : Covers(q, m) /\ m = c.off /\ n <= c.off + c.size => Covers(Append(q, c), n)
<1> DEFINE r == Append(q, c)
           k == Len(q)
<1>1. /\ q \in Seq(Chunks) /\ k \in Nat /\ r \in Seq(Chunks) /\ DOMAIN q = 1 .. k /\ DOMAIN r = 1 .. k + 1
      /\ r[k + 1] = c /\ \A i \in 1 .. k : r[i] = q[i] /\ q[i] \in Chunks
  BY DEF PlanOK
<1>2. c.off \in Nat /\ c.size \in Nat /\ \A i \in 1 .. k : q[i].off \in Nat /\ q[i].size \in Nat
  BY <1>1 DEF Chunks
<1> HIDE DEF r, k
<1>3. \A i \in 1 .. k + 1 : i \in 1 .. k \/ i = k + 1
  BY <1>1
<1>4. \A i \in 1 .. k : q[i].size < MAX_PAYLOAD_SIZE /\ q[i].off + q[i].size <= m
  BY <1>1 DEF PlanOK, Within
<1>5. \A i \in 1 .. k + 1 : r[i].size < MAX_PAYLOAD_SIZE
  BY <1>1, <1>3, <1>4
<1>6. ASSUME NEW i \in 1 .. k + 1, NEW j \in 1 .. k + 1, i < j
      PROVE  r[i].off + r[i].size <= r[j].off
  <2>1. i \in 1 .. k
    BY <1>1, <1>6
  <2>2. CASE j \in 1 .. k
    <3>1. q[i].off + q[i].size <= q[j].off
      BY <1>1, <1>6, <2>1, <2>2 DEF PlanOK
    <3> QED
      BY <1>1, <2>1, <2>2, <3>1
  <2>3. CASE j = k + 1
    <3>1. q[i].off + q[i].size <= m /\ r[i] = q[i] /\ r[j] = c /\ q[i].off \in Nat /\ q[i].size \in Nat
      BY <1>1, <1>2, <1>4, <2>1, <2>3
    <3> QED
      BY <1>2, <3>1
  <2> QED
    BY <1>3, <2>2, <2>3
<1>7. PlanOK(r)
  BY <1>1, <1>5, <1>6 DEF PlanOK
<1>8. Within(r, c.off + c.size)
  <2>1. ASSUME NEW i \in 1 .. k + 1 PROVE r[i].off + r[i].size <= c.off + c.size
    <3>1. CASE i \in 1 .. k
      <4>1. q[i].off + q[i].size <= m /\ r[i] = q[i] /\ q[i].off \in Nat /\ q[i].size \in Nat
        BY <1>1, <1>2, <1>4, <3>1
      <4> QED
        BY <1>2, <4>1
    <3>2. CASE i = k + 1
      BY <1>1, <1>2, <3>2
    <3> QED
      BY <1>3, <3>1, <3>2
  <2> QED
    BY <1>1, <2>1 DEF Within
<1>9. Flagged(q) \/ c.original > c.size => Flagged(r)
  <2>1. k + 1 \in 1 .. k + 1 /\ \A i \in 1 .. k : i \in 1 .. k + 1
    BY <1>1
  <2> QED
    BY <1>1, <2>1 DEF Flagged
<1>10. ASSUME NEW n \in Nat, Covers(q, m), m = c.off, n <= c.off + c.size PROVE Covers(r, n)
  <2> SUFFICES ASSUME NEW b \in 1 .. n
               PROVE  \E i \in 1 .. k + 1 : r[i].off < b /\ b <= r[i].off + r[i].size
    BY <1>1 DEF Covers
  <2>1. CASE b \in 1 .. m
    <3>1. PICK i \in 1 .. k : q[i].off < b /\ b <= q[i].off + q[i].size
      BY <1>1, <1>10, <2>1 DEF Covers
    <3>2. i \in 1 .. k + 1 /\ r[i] = q[i]
      BY <1>1
    <3> QED
      BY <3>1, <3>2
  <2>2. CASE b \notin 1 .. m
    <3>1. k + 1 \in 1 .. k + 1 /\ c.off < b /\ b <= c.off + c.size
      BY <1>1, <1>2, <1>10, <2>2
    <3> QED
      BY <1>1, <3>1
  <2> QED
    BY <2>1, <2>2
<1> QED
  BY <1>7, <1>8, <1>9, <1>10 DEF r

(* a chunk shows it when the limit has cut it *)
LEMMA ChunkIs ==
  ASSUME NEW off \in Nat, NEW want \in Nat, NEW original \in Nat, want <= original,
         NEW c, c = Chunk(off, want, original)
  PROVE  /\ c \in Chunks /\ c.off = off /\ c.original = original
         /\ c.size < MAX_PAYLOAD_SIZE /\ c.size <= want
         /\ original > c.size \/ c.size = original
BY SizesAssumption DEF Chunk, Chunks, clamp_payload_len

(* The segments: what the loop has sent after each round.                   *)
Sent(segs, total, k, q) ==
  LET end == SegEnd(segs)[k] IN
  /\ PlanOK(q) /\ Within(q, Smaller(total, end))
  /\ Flagged(q) \/ Covers(q, Smaller(total, end))

LEMMA SentNext ==
  ASSUME NEW segs \in Seq(Nat), NEW total \in Nat, NEW i \in 1 .. Len(segs), NEW q, Sent(segs, total, i - 1, q)
  PROVE  Sent(segs, total, i, IF seg_len(segs, total, i) = 0 THEN q ELSE Append(q, SegChunk(segs, total, i)))
<1> DEFINE end == SegEnd(segs)
           a == end[i - 1]
           b == end[i]
           n == segs[i]
           len == seg_len(segs, total, i)
<1>1. a \in Nat /\ n \in Nat /\ b = a + n /\ b \in Nat
  <2>1. i - 1 \in 0 .. Len(segs) /\ i \in 0 .. Len(segs)
    OBVIOUS
  <2> QED
    BY <2>1, SegEndIs
<1>2. len = IF a >= total THEN 0 ELSE Smaller(n, total - a)
  BY DEF seg_len
<1>3. PlanOK(q) /\ Within(q, Smaller(total, a)) /\ (Flagged(q) \/ Covers(q, Smaller(total, a)))
  BY DEF Sent
<1> DEFINE chunk == SegChunk(segs, total, i)
<1>4. chunk = Chunk(a, Smaller(len, MAX_PAYLOAD_SIZE), len)
  BY DEF SegChunk
<1> DEFINE Goal(r) == /\ PlanOK(r) /\ Within(r, Smaller(total, b))
                      /\ Flagged(r) \/ Covers(r, Smaller(total, b))
<1>5. \A r : Sent(segs, total, i, r) <=> Goal(r)
  BY DEF Sent
<1> HIDE DEF len, a, b, n, chunk
<1>6. CASE len = 0
  <2>1. Smaller(total, b) = Smaller(total, a)
    BY <1>1, <1>2, <1>6 DEF Smaller
  <2>2. Goal(q)
    BY <1>3, <2>1
  <2> HIDE DEF Goal
  <2> QED
    BY <1>5, <1>6, <2>2 DEF len
<1>7. CASE len # 0
  <2>1. /\ len \in Nat \ {0} /\ Smaller(total, a) = a /\ Smaller(total, b) = a + len
    BY <1>1, <1>2, <1>7 DEF Smaller
  <2>2. Smaller(len, MAX_PAYLOAD_SIZE) \in Nat /\ Smaller(len, MAX_PAYLOAD_SIZE) <= len
    BY <2>1, SizesAssumption DEF Smaller
  <2>3. /\ chunk \in Chunks /\ chunk.off = a /\ chunk.original = len
        /\ chunk.size < MAX_PAYLOAD_SIZE /\ chunk.size <= len /\ chunk.size \in Nat
        /\ len > chunk.size \/ chunk.size = len
    <3>1. /\ chunk \in Chunks /\ chunk.off = a /\ chunk.original = len
          /\ chunk.size < MAX_PAYLOAD_SIZE /\ chunk.size <= Smaller(len, MAX_PAYLOAD_SIZE)
          /\ len > chunk.size \/ chunk.size = len
      <4> DEFINE w == Smaller(len, MAX_PAYLOAD_SIZE)
      <4>1. a \in Nat /\ w \in Nat /\ len \in Nat /\ w <= len /\ chunk = Chunk(a, w, len)
        BY <1>1, <1>4, <2>1, <2>2
      <4> HIDE DEF w
      <4>2. /\ chunk \in Chunks /\ chunk.off = a /\ chunk.original = len
            /\ chunk.size < MAX_PAYLOAD_SIZE /\ chunk.size <= w
            /\ len > chunk.size \/ chunk.size = len
        BY <4>1, ChunkIs
      <4> QED
        BY <4>2 DEF w
    <3>2. chunk.size \in Nat
      BY <3>1 DEF Chunks
    <3> QED
      BY <2>1, <2>2, <3>1, <3>2, SizesAssumption DEF Smaller
  <2> DEFINE r == Append(q, chunk)
  <2>4. a <= chunk.off
    BY <1>1, <2>3
  <2>5. /\ PlanOK(r) /\ Within(r, chunk.off + chunk.size)
        /\ Flagged(q) \/ chunk.original > chunk.size => Flagged(r)
        /\ \A m \in Nat : Covers(q, a) /\ a = chunk.off /\ m <= chunk.off + chunk.size => Covers(r, m)
    <3>1. Within(q, a) /\ a \in Nat
      BY <1>1, <1>3, <2>1
    <3> QED
      BY <1>3, <2>3, <2>4, <3>1, AppendChunk
  <2> HIDE DEF r
  <2>6. Within(r, a + len)
    <3>1. \A j \in DOMAIN r : r[j].off \in Nat /\ r[j].size \in Nat
      <4>1. \A j \in DOMAIN r : r[j] \in Chunks
        BY <2>5 DEF PlanOK
      <4> QED
        BY <4>1 DEF Chunks
    <3> QED
      <4>1. chunk.off + chunk.size \in Nat /\ a + len \in Nat /\ chunk.off + chunk.size <= a + len
        BY <1>1, <2>1, <2>3
      <4>2. ASSUME NEW j \in DOMAIN r PROVE r[j].off + r[j].size <= a + len
        <5>1. r[j].off + r[j].size <= chunk.off + chunk.size
          BY <2>5 DEF Within
        <5>2. r[j].off + r[j].size \in Nat
          BY <3>1
        <5> QED
          BY <4>1, <5>1, <5>2
      <4> QED
        BY <4>2 DEF Within
  <2>7. Flagged(r) \/ Covers(r, a + len)
    <3>1. CASE Flagged(q) \/ len > chunk.size
      BY <2>3, <2>5, <3>1
    <3>2. CASE ~Flagged(q) /\ chunk.size = len
      <4>1. Covers(q, a)
        BY <1>3, <2>1, <3>2
      <4>2. a + len \in Nat /\ a + len <= chunk.off + chunk.size
        BY <1>1, <2>1, <2>3, <3>2
      <4> QED
        BY <2>3, <2>5, <4>1, <4>2
    <3> QED
      BY <2>3, <3>1, <3>2
  <2>8. Goal(r)
    BY <2>1, <2>5, <2>6, <2>7
  <2> HIDE DEF Goal
  <2> QED
    BY <1>5, <1>7, <2>8 DEF r, len, chunk
<1> QED
  BY <1>6, <1>7

LEMMA IovCuts ==
  ASSUME NEW segs \in Seq(Nat), NEW total \in 0 .. Total(segs)
  PROVE  /\ PlanOK(iov_events(segs, total)) /\ Within(iov_events(segs, total), total)
         /\ \/ Len(segs) > MAX_IOVEC_SEGMENTS \/ Flagged(iov_events(segs, total))
            \/ Covers(iov_events(segs, total), total)
<1> DEFINE n == Smaller(Len(segs), MAX_IOVEC_SEGMENTS)
           sent == CHOOSE f : f = [i \in 0 .. n |->
                     IF i = 0 THEN <<>> ELSE IF seg_len(segs, total, i) = 0 THEN f[i - 1]
                     ELSE Append(f[i - 1], SegChunk(segs, total, i))]
           F == [p \in (1 .. n) \X Seq(Chunks) |-> IF seg_len(segs, total, p[1]) = 0 THEN p[2]
                                                   ELSE Append(p[2], SegChunk(segs, total, p[1]))]
<1>1. n \in Nat /\ n <= Len(segs) /\ Len(segs) \in Nat /\ total \in Nat
  BY SizesAssumption, TotalIs DEF Smaller
<1>2. iov_events(segs, total) = sent[n]
  BY DEF iov_events
<1>3. \A i \in 1 .. n : SegChunk(segs, total, i) \in Chunks
  <2> SUFFICES ASSUME NEW i \in 1 .. n PROVE SegChunk(segs, total, i) \in Chunks
    OBVIOUS
  <2>1. i - 1 \in 0 .. Len(segs) /\ i \in 1 .. Len(segs)
    BY <1>1
  <2>2. SegEnd(segs)[i - 1] \in Nat /\ segs[i] \in Nat
    <3>1. SegEnd(segs) \in [0 .. Len(segs) -> Nat]
      BY SegEndIs
    <3>2. SegEnd(segs)[i - 1] \in Nat
      BY <2>1, <3>1
    <3>3. segs[i] \in Nat
      BY <2>1
    <3> QED
      BY <3>2, <3>3
  <2>3. seg_len(segs, total, i) \in Nat
    BY <1>1, <2>2 DEF seg_len, Smaller
  <2> DEFINE len == seg_len(segs, total, i)
             c == SegChunk(segs, total, i)
  <2>4. Smaller(len, MAX_PAYLOAD_SIZE) \in Nat /\ Smaller(len, MAX_PAYLOAD_SIZE) <= len
    BY <2>3, SizesAssumption DEF Smaller
  <2>5. c = Chunk(SegEnd(segs)[i - 1], Smaller(len, MAX_PAYLOAD_SIZE), len)
    BY DEF SegChunk
  <2> HIDE DEF len, c
  <2>6. len \in Nat
    BY <2>3 DEF len
  <2>7. c \in Chunks
    BY <2>2, <2>4, <2>5, <2>6, ChunkIs
  <2> QED
    BY <2>7 DEF c
<1>4. /\ F \in [(1 .. n) \X Seq(Chunks) -> Seq(Chunks)]
      /\ \A i \in 1 .. n, q \in Seq(Chunks) :
           F[<<i, q>>] = IF seg_len(segs, total, i) = 0 THEN q ELSE Append(q, SegChunk(segs, total, i))
  BY <1>3
<1> HIDE DEF F, n
<1>5. PICK f \in [0 .. n -> Seq(Chunks)] : f[0] = <<>> /\ \A i \in 1 .. n : f[i] = F[<<i, f[i - 1]>>]
  <2>1. IsLoop(n, Seq(Chunks), <<>>, F)
    BY <1>1, <1>4 DEF IsLoop
  <2>2. HasRun(n, Seq(Chunks), <<>>, F)
    BY <2>1, CountedLoop
  <2> QED
    BY <2>2 DEF HasRun
<1>6. \A i \in 1 .. n : i - 1 \in 0 .. n /\ i # 0
  BY <1>1
<1>7. \A i \in 1 .. n : f[i] = IF seg_len(segs, total, i) = 0 THEN f[i - 1]
                               ELSE Append(f[i - 1], SegChunk(segs, total, i))
  BY <1>4, <1>5, <1>6
<1>8. f = [i \in 0 .. n |-> IF i = 0 THEN <<>> ELSE IF seg_len(segs, total, i) = 0 THEN f[i - 1]
                            ELSE Append(f[i - 1], SegChunk(segs, total, i))]
  <2>1. ASSUME NEW i \in 0 .. n
        PROVE  f[i] = IF i = 0 THEN <<>> ELSE IF seg_len(segs, total, i) = 0 THEN f[i - 1]
                      ELSE Append(f[i - 1], SegChunk(segs, total, i))
    <3>1. i = 0 \/ i \in 1 .. n
      BY <1>1
    <3> QED
      BY <1>5, <1>7, <3>1
  <2> QED
    BY <2>1
<1>9. sent = [i \in 0 .. n |-> IF i = 0 THEN <<>> ELSE IF seg_len(segs, total, i) = 0 THEN sent[i - 1]
                               ELSE Append(sent[i - 1], SegChunk(segs, total, i))]
  BY <1>8
<1> HIDE DEF sent
<1>10. /\ sent[0] = <<>>
       /\ \A i \in 1 .. n : sent[i] = IF seg_len(segs, total, i) = 0 THEN sent[i - 1]
                                      ELSE Append(sent[i - 1], SegChunk(segs, total, i))
  <2>1. 0 \in 0 .. n /\ \A i \in 1 .. n : i \in 0 .. n /\ i # 0
    BY <1>1
  <2>2. sent[0] = <<>>
    BY <1>9, <2>1
  <2>3. ASSUME NEW i \in 1 .. n
        PROVE  sent[i] = IF seg_len(segs, total, i) = 0 THEN sent[i - 1]
                         ELSE Append(sent[i - 1], SegChunk(segs, total, i))
    BY <1>9, <2>1
  <2> QED
    BY <2>2, <2>3
<1> DEFINE T == {k \in 0 .. n : Sent(segs, total, k, sent[k])}
<1>11. 0 \in T
  <2>1. SegEnd(segs)[0] = 0 /\ Smaller(total, 0) = 0
    BY <1>1, SegEndIs DEF Smaller
  <2>2. Sent(segs, total, 0, <<>>)
    BY <2>1, EmptyPlan DEF Sent
  <2> QED
    BY <1>1, <1>10, <2>2
<1>12. ASSUME NEW k \in 0 .. n - 1, k \in T PROVE k + 1 \in T
  <2>1. k + 1 \in 1 .. n /\ k + 1 \in 1 .. Len(segs) /\ (k + 1) - 1 = k /\ k + 1 \in 0 .. n
    BY <1>1
  <2>2. Sent(segs, total, k, sent[k])
    BY <1>12
  <2>3. Sent(segs, total, k + 1, IF seg_len(segs, total, k + 1) = 0 THEN sent[k]
                                 ELSE Append(sent[k], SegChunk(segs, total, k + 1)))
    <3> DEFINE i == k + 1  q == sent[k]
    <3>1. i \in 1 .. Len(segs) /\ Sent(segs, total, i - 1, q) /\ total \in Nat
      BY <1>1, <2>1, <2>2
    <3> HIDE DEF i, q
    <3>2. Sent(segs, total, i, IF seg_len(segs, total, i) = 0 THEN q ELSE Append(q, SegChunk(segs, total, i)))
      BY <3>1, SentNext
    <3> QED
      BY <3>2 DEF i, q
  <2>4. sent[k + 1] = IF seg_len(segs, total, k + 1) = 0 THEN sent[k]
                      ELSE Append(sent[k], SegChunk(segs, total, k + 1))
    BY <1>10, <2>1
  <2> QED
    BY <2>1, <2>3, <2>4
<1>13. Sent(segs, total, n, sent[n])
  <2>1. \A k \in 0 .. n : k \in T
    <3> HIDE DEF T
    <3> QED
      BY <1>1, <1>11, <1>12, CountingUp
  <2> QED
    BY <1>1, <2>1
<1> DEFINE end == SegEnd(segs)[n]
<1>14. end \in Nat /\ (n = Len(segs) => Smaller(total, end) = total) /\ Smaller(total, end) <= total
  <2>1. end \in Nat
    BY <1>1, SegEndIs
  <2>2. n = Len(segs) => end = Total(segs)
    BY DEF Total
  <2> HIDE DEF end
  <2> QED
    BY <1>1, <2>1, <2>2, TotalIs DEF Smaller
<1>15. n = Len(segs) \/ Len(segs) > MAX_IOVEC_SEGMENTS
  BY <1>1, SizesAssumption DEF n, Smaller
<1> DEFINE q == sent[n]
<1>16. PlanOK(q) /\ Within(q, Smaller(total, end)) /\ (Flagged(q) \/ Covers(q, Smaller(total, end)))
  BY <1>13 DEF Sent
<1> HIDE DEF end, q
<1>17. Within(q, total)
  <2>1. \A j \in DOMAIN q : q[j] \in Chunks
    BY <1>16 DEF PlanOK
  <2>2. \A j \in DOMAIN q : q[j].off + q[j].size \in Nat
    BY <2>1 DEF Chunks
  <2>3. Smaller(total, end) \in Nat
    BY <1>1, <1>14 DEF Smaller
  <2> QED
    BY <1>1, <1>14, <1>16, <2>2, <2>3 DEF Within
<1> QED
  BY <1>2, <1>14, <1>15, <1>16, <1>17 DEF q

(* multiples of a chunk's size *)
LEMMA Multiples ==
  ASSUME NEW m \in Nat, NEW i \in Nat, NEW j \in Nat, i < j
  PROVE  i * m \in Nat /\ j * m \in Nat /\ i * m + m <= j * m
<1>1. PICK d \in Nat : j = (i + 1) + d
  <2>1. j - (i + 1) \in Nat
    OBVIOUS
  <2> QED
    BY <2>1
<1>2. j * m = (i + 1) * m + d * m
  BY <1>1
<1>3. (i + 1) * m = i * m + m
  OBVIOUS
<1>4. d * m \in Nat /\ i * m \in Nat
  OBVIOUS
<1> QED
  BY <1>2, <1>3, <1>4

LEMMA Rounded ==
  ASSUME NEW m \in Nat \ {0}, NEW n \in Nat, NEW i \in Nat, i < (n + m - 1) \div m
  PROVE  i * m < n
<1> DEFINE q == (n + m - 1) \div m
<1>1. q \in Nat /\ q * m <= n + m - 1
  OBVIOUS
<1> HIDE DEF q
<1>2. i < q
  BY DEF q
<1>3. i * m \in Nat /\ i * m + m <= q * m
  BY <1>1, <1>2, Multiples
<1>4. q * m \in Nat
  BY <1>1
<1> QED
  BY <1>1, <1>3, <1>4

LEMMA MaxPayload ==
  ASSUME app \in Workloads, cfg \in app.configs
  PROVE  effective_max_payload_size \in Nat \ {0}
<1>1. cfg.max_payload \in Nat
  BY WorkloadsAssumption DEF IsWorkload
<1>2. MAX_PAYLOAD_SIZE * MAX_PAYLOAD_CHUNKS \in Nat \ {0}
  BY SizesAssumption
<1> QED
  BY <1>1, <1>2 DEF effective_max_payload_size

LEMMA DataCuts ==
  ASSUME app \in Workloads, cfg \in app.configs, NEW n \in Nat
  PROVE  /\ PlanOK(emit_data_event(n, n)) /\ Within(emit_data_event(n, n), n)
         /\ Flagged(emit_data_event(n, n)) \/ Covers(emit_data_event(n, n), n)
<1> DEFINE m == MAX_PAYLOAD_SIZE
           capture == Smaller(n, effective_max_payload_size)
           all == (capture + m - 1) \div m
           chunks == Smaller(all, MAX_PAYLOAD_CHUNKS)
           plan == emit_data_event(n, n)
           Piece(i) == Chunk((i - 1) * m, Smaller(capture - (i - 1) * m, m), n)
<1>1. /\ m \in Nat \ {0} /\ capture \in Nat /\ capture <= n /\ (n # 0 => capture # 0)
  BY MaxPayload, SizesAssumption DEF Smaller
<1>2. plan = [i \in 1 .. chunks |-> Piece(i)]
  BY DEF emit_data_event
<1> HIDE DEF capture, m
<1>3. all \in Nat /\ (capture # 0 => all # 0)
  BY <1>1
<1>4. chunks \in Nat /\ chunks <= all /\ (capture # 0 => chunks # 0)
  <2> HIDE DEF all
  <2> QED
    BY <1>3, SizesAssumption DEF Smaller
<1> HIDE DEF chunks, plan, Piece
<1>5. ASSUME NEW i \in 1 .. chunks
      PROVE  /\ (i - 1) * m \in Nat /\ (i - 1) * m < capture /\ plan[i] \in Chunks
             /\ plan[i].off = (i - 1) * m /\ plan[i].original = n
             /\ plan[i].size < m /\ plan[i].size <= capture - (i - 1) * m
             /\ n > plan[i].size \/ plan[i].size = n
  <2>1. i - 1 \in Nat /\ i - 1 < all
    <3> HIDE DEF all
    <3> QED
      BY <1>3, <1>4
  <2>2. (i - 1) * m < capture /\ (i - 1) * m \in Nat
    <3> DEFINE j == i - 1
    <3>1. j \in Nat /\ j < (capture + m - 1) \div m
      BY <2>1
    <3> HIDE DEF j
    <3>2. j * m < capture
      BY <1>1, <3>1, Rounded
    <3>3. j * m \in Nat
      BY <1>1, <3>1
    <3> QED
      BY <3>2, <3>3 DEF j
  <2> HIDE DEF all
  <2> DEFINE off == (i - 1) * m
             w == Smaller(capture - off, m)
             c == plan[i]
  <2>3. off \in Nat /\ off < capture
    BY <2>2
  <2>4. c = Chunk(off, w, n)
    BY <1>2 DEF Piece
  <2> HIDE DEF off, c
  <2>5. w \in Nat /\ w <= n /\ w <= capture - off
    BY <1>1, <2>3 DEF Smaller
  <2> HIDE DEF w
  <2>6. /\ c \in Chunks /\ c.off = off /\ c.original = n /\ c.size < MAX_PAYLOAD_SIZE /\ c.size <= w
        /\ n > c.size \/ c.size = n
    BY <2>3, <2>4, <2>5, ChunkIs
  <2>7. c.size \in Nat
    BY <2>6 DEF Chunks
  <2>8. c.size <= capture - off
    BY <1>1, <2>3, <2>5, <2>6, <2>7
  <2> QED
    BY <2>2, <2>6, <2>8 DEF off, c, m
<1> HIDE DEF all
<1>6. DOMAIN plan = 1 .. chunks
  BY <1>2
<1>7. \A i \in 1 .. chunks : plan[i].size \in Nat /\ plan[i].off \in Nat
  BY <1>5 DEF Chunks
<1>8. PlanOK(plan)
  <2>1. plan \in Seq(Chunks)
    <3>1. plan \in [1 .. chunks -> Chunks]
      BY <1>2, <1>5
    <3> QED
      BY <1>4, <3>1
  <2>2. ASSUME NEW i \in 1 .. chunks, NEW j \in 1 .. chunks, i < j
        PROVE  plan[i].off + plan[i].size <= plan[j].off
    <3>1. (i - 1) * m + m <= (j - 1) * m
      <4>1. i - 1 \in Nat /\ j - 1 \in Nat /\ i - 1 < j - 1
        BY <1>4, <2>2
      <4> QED
        BY <1>1, <4>1, Multiples
    <3>2. plan[i].off = (i - 1) * m /\ plan[j].off = (j - 1) * m /\ plan[i].size < m
      BY <1>5
    <3>3. (i - 1) * m \in Nat /\ (j - 1) * m \in Nat
      BY <1>5
    <3> QED
      BY <1>1, <1>7, <3>1, <3>2, <3>3
  <2> QED
    BY <1>5, <1>6, <2>1, <2>2 DEF PlanOK, m
<1>9. Within(plan, n)
  <2>1. ASSUME NEW i \in 1 .. chunks PROVE plan[i].off + plan[i].size <= n
    <3>1. (i - 1) * m \in Nat /\ plan[i].off = (i - 1) * m /\ plan[i].size <= capture - (i - 1) * m
      BY <1>5
    <3> QED
      BY <1>1, <1>7, <3>1
  <2> QED
    BY <1>6, <2>1 DEF Within
<1>10. Flagged(plan) \/ Covers(plan, n)
  <2>1. CASE n = 0
    BY <2>1 DEF Covers
  <2>2. CASE n # 0
    <3>1. 1 \in 1 .. chunks
      BY <1>1, <1>4, <2>2
    <3>2. plan[1].off = (1 - 1) * m /\ plan[1].original = n /\ (n > plan[1].size \/ plan[1].size = n)
      BY <1>5, <3>1
    <3>3. (1 - 1) * m = 0
      BY <1>1
    <3>4. CASE n > plan[1].size
      BY <1>6, <3>1, <3>2, <3>4 DEF Flagged
    <3>5. CASE plan[1].size = n
      BY <1>6, <3>1, <3>2, <3>3, <3>5 DEF Covers
    <3> QED
      BY <3>2, <3>4, <3>5
  <2> QED
    BY <2>1, <2>2
<1> QED
  BY <1>8, <1>9, <1>10 DEF plan

(* However long a buffer is and however it is split into segments,          *)
(* emit_data_event and the loops over a vector cut its bytes into events    *)
(* that follow one another without overlap, stay within the bytes moved and *)
(* fit in an event; unless the vector has more segments than they look at,  *)
(* they hold every byte, or an original_size shows that they do not.        *)
THEOREM EventsCut ==
  ASSUME app \in Workloads, cfg \in app.configs, NEW buf, buf.segs \in Seq(Nat), NEW total \in 0 .. Total(buf.segs)
  PROVE  /\ PlanOK(DataEvents(buf, total)) /\ Within(DataEvents(buf, total), total)
         /\ \/ Len(buf.segs) > MAX_IOVEC_SEGMENTS \/ Flagged(DataEvents(buf, total))
            \/ Covers(DataEvents(buf, total), total)
<1>1. total \in Nat
  BY TotalIs
<1> QED
  BY <1>1, IovCuts, DataCuts DEF DataEvents

-----------------------------------------------------------------------------
(* What each action does to its thread, field by field *)

Same(t, F) == Only(t) /\ \A k \in Fields \ F : th'[t][k] = th[t][k]

(* a thread in user space: nothing of its last call is left *)
Blank(t) ==
  /\ th[t].pc = "user" /\ th[t].op = "none" /\ th[t].sys = 0 /\ th[t].fd = NoFd /\ th[t].dir = "write"
  /\ th[t].conn = 0 /\ th[t].buf = NoBuffer /\ th[t].base = 0 /\ th[t].gen = 0 /\ th[t].plan = <<>>
  /\ th[t].idx = 0 /\ th[t].seq = 0 /\ th[t].ctx = 0 /\ th[t].ret = 0 /\ th[t].lossy = FALSE
  /\ th[t].peek = FALSE /\ th[t].unread = FALSE

Back(t) ==
  /\ Only(t) /\ Blank(t)'
  /\ \/ th'[t].ssl = th[t].ssl /\ th'[t].sslDir = th[t].sslDir /\ th'[t].touched = th[t].touched
     \/ th'[t].ssl = NoFd /\ th'[t].sslDir = "write" /\ th'[t].touched = FALSE

SameOut == rings' = rings /\ got' = got /\ discarded' = discarded
SameMaps == fd_generations' = fd_generations /\ event_seqnos' = event_seqnos /\ socket_tuples' = socket_tuples
SameApp == conns' = conns /\ opened' = opened /\ calls' = calls
Fixed == app' = app /\ cfg' = cfg

LEMMA IdleIsBack ==
  ASSUME Shapes, NEW t \in Threads, th' = [th EXCEPT ![t] = Idle]
  PROVE  Back(t) /\ th'[t].ssl = NoFd
BY ThreadDomain DEF Back, Only, Blank, Idle, Fields

LEMMA ReturnedIsBack ==
  ASSUME Shapes, NEW t \in Threads, th' = [th EXCEPT ![t] = Returned(t)]
  PROVE  Back(t) /\ th'[t].ssl = th[t].ssl
BY ThreadDomain DEF Back, Only, Blank, Returned, Idle, Fields

LEMMA LookupSeqDoes ==
  ASSUME Shapes, NEW t \in Threads, LookupSeq(t)
  PROVE  /\ Same(t, {"pc", "seq"}) /\ th[t].pc = "seq" /\ th'[t].pc = "put" /\ th'[t].seq = event_seqnos[th[t].fd]
         /\ Fixed /\ SameApp /\ SameMaps /\ SameOut /\ moved' = moved /\ thread_last_fd' = thread_last_fd
BY ThreadDomain DEF LookupSeq, Same, Only, Fields, appVars, mapVars, outVars, Fixed, SameApp, SameMaps, SameOut

LEMMA UpdateSeqDoes ==
  ASSUME Shapes, NEW t \in Threads, UpdateSeq(t)
  PROVE  /\ Same(t, {"pc"}) /\ th[t].pc = "put" /\ th'[t].pc = "copy"
         /\ event_seqnos' = [event_seqnos EXCEPT ![th[t].fd] = th[t].seq + 1]
         /\ fd_generations' = fd_generations /\ socket_tuples' = socket_tuples
         /\ Fixed /\ SameApp /\ SameOut /\ moved' = moved /\ thread_last_fd' = thread_last_fd
BY ThreadDomain DEF UpdateSeq, Same, Only, Fields, appVars, outVars, Fixed, SameApp, SameOut

LEMMA ResetSeqDoes ==
  ASSUME Shapes, NEW t \in Threads, ResetSeq(t)
  PROVE  /\ Same(t, {"pc"}) /\ th[t].pc = "reset" /\ th'[t].pc = "kernel"
         /\ event_seqnos' = [event_seqnos EXCEPT ![th[t].fd] = 0]
         /\ fd_generations' = fd_generations /\ socket_tuples' = socket_tuples
         /\ Fixed /\ SameApp /\ SameOut /\ moved' = moved /\ thread_last_fd' = thread_last_fd
BY ThreadDomain DEF ResetSeq, Same, Only, Fields, appVars, outVars, Fixed, SameApp, SameOut

LEMMA BumpGenerationDoes ==
  ASSUME Shapes, NEW t \in Threads, BumpGeneration(t)
  PROVE  /\ Same(t, {"pc"}) /\ th[t].pc = "bump" /\ th'[t].pc = "reset"
         /\ SetGeneration(th[t].fd, th[t].gen + 1)
         /\ event_seqnos' = event_seqnos /\ socket_tuples' = socket_tuples
         /\ Fixed /\ SameApp /\ SameOut /\ moved' = moved /\ thread_last_fd' = thread_last_fd
BY ThreadDomain DEF BumpGeneration, Same, Only, Fields, appVars, outVars, Fixed, SameApp, SameOut

LEMMA DeleteTupleDoes ==
  ASSUME Shapes, NEW t \in Threads, DeleteTuple(t)
  PROVE  /\ Same(t, {"pc"}) /\ th[t].pc = "untuple" /\ th'[t].pc = "bump"
         /\ fd_generations' = fd_generations /\ event_seqnos' = event_seqnos
         /\ DOMAIN socket_tuples' \subseteq DOMAIN socket_tuples
         /\ Fixed /\ SameApp /\ SameOut /\ moved' = moved /\ thread_last_fd' = thread_last_fd
BY ThreadDomain DEF DeleteTuple, Same, Only, Fields, appVars, outVars, Fixed, SameApp, SameOut

(* the entry probe knows its generation *)
LEMMA GeneratedDoes ==
  ASSUME Shapes, NEW t \in Threads, NEW g, Generated(t, g), th[t].pc \in {"gen", "initgen"}
  PROVE  /\ Same(t, {"pc", "gen", "ctx"}) /\ th'[t].gen = g
         /\ th'[t].ctx = (IF th[t].op = "accept" THEN g ELSE th[t].ctx)
         /\ \/ th'[t].pc = "allowed" /\ th[t].op \in {"read", "write", "close"}
            \/ th'[t].pc = "tuple" /\ th[t].op \in {"bind", "connect", "accepted"}
            \/ th'[t].pc = "kernel" /\ th[t].op = "accept"
            \/ th'[t].pc = "emit" /\ th[t].op = "ssl"
<1>1. th[t].op \in {"bind", "accept", "read", "write", "close", "connect", "accepted", "ssl"}
  BY DEF Shapes, ThreadOK
<1> QED
  BY <1>1, ThreadDomain DEF Generated, Same, Only, Fields

(* A lookup finds a generation and the probe goes on; or there is none yet. *)
(* The update of the map leaves the one in force where it is.               *)
LEMMA GenerationDoes ==
  ASSUME Shapes, NEW t \in Threads, LookupGeneration(t) \/ InitGeneration(t)
  PROVE  /\ th[t].pc \in {"gen", "initgen"}
         /\ \/ /\ Same(t, {"pc"}) /\ th[t].pc = "gen" /\ th'[t].pc = "initgen"
               /\ fd_generations' = fd_generations /\ fd_generations[th[t].fd] = 0
            \/ /\ \E g \in Nat \ {0} :
                    /\ Generated(t, g)
                    /\ SetGeneration(th[t].fd, g)
                    /\ (th[t].pc = "gen" /\ fd_generations[th[t].fd] = g) \/ (th[t].pc = "initgen" /\ g = 1)
         /\ event_seqnos' = event_seqnos /\ socket_tuples' = socket_tuples
         /\ Fixed /\ SameApp /\ SameOut /\ moved' = moved /\ thread_last_fd' = thread_last_fd
<1>1. /\ event_seqnos' = event_seqnos /\ socket_tuples' = socket_tuples
      /\ Fixed /\ SameApp /\ SameOut /\ moved' = moved /\ thread_last_fd' = thread_last_fd
      /\ th[t].pc \in {"gen", "initgen"}
  BY DEF LookupGeneration, InitGeneration, appVars, mapVars, outVars, Fixed, SameApp, SameOut
<1>2. CASE InitGeneration(t)
  <2> DEFINE one == 1
  <2>1. /\ one \in Nat \ {0} /\ Generated(t, one) /\ th[t].pc = "initgen" /\ one = 1
        /\ SetGeneration(th[t].fd, one)
    BY <1>2 DEF InitGeneration
  <2> HIDE DEF one
  <2> QED
    BY <1>1, <2>1
<1>3. CASE LookupGeneration(t)
  <2> DEFINE fd == th[t].fd
  <2>1. fd \in AllFds /\ fd_generations \in [AllFds -> Nat] /\ th[t].pc = "gen" /\ fd_generations' = fd_generations
    BY <1>3 DEF LookupGeneration, mapVars, Shapes, StoreOK, ThreadOK, AllFds
  <2>2. CASE fd_generations[fd] # 0
    <3> DEFINE g == fd_generations[fd]
    <3>1. g \in Nat \ {0} /\ Generated(t, g) /\ SetGeneration(fd, g)
      BY <1>3, <2>1, <2>2 DEF LookupGeneration, SetGeneration
    <3> HIDE DEF g
    <3>2. fd_generations[fd] = g
      BY DEF g
    <3> QED
      BY <1>1, <2>1, <3>1, <3>2
  <2>3. CASE fd_generations[fd] = 0
    <3>1. th' = [th EXCEPT ![t].pc = "initgen"]
      BY <1>3, <2>3 DEF LookupGeneration
    <3>2. Same(t, {"pc"}) /\ th'[t].pc = "initgen"
      BY <3>1, ThreadDomain DEF Same, Only, Fields
    <3> QED
      BY <1>1, <2>1, <2>3, <3>2
  <2> QED
    BY <2>2, <2>3
<1> QED
  BY <1>2, <1>3

LEMMA FilterDoes ==
  ASSUME Shapes, NEW t \in Threads, Filter(t)
  PROVE  /\ Same(t, {"pc", "ctx", "touched", "plan", "lossy", "unread"}) /\ th[t].pc = "allowed"
         /\ th'[t].unread \in {th[t].unread, TRUE}
         /\ th'[t].touched \in {th[t].touched, InSsl(t)}
         /\ \/ /\ th'[t].pc = "kernel" /\ th'[t].ctx = th[t].gen /\ th[t].op = "read"
               /\ th'[t].plan = th[t].plan /\ th'[t].lossy = th[t].lossy
            \/ /\ th'[t].pc = "emit" /\ th'[t].ctx = th[t].ctx /\ th[t].op = "write"
               /\ th'[t].plan = DataEvents(th[t].buf, Total(th[t].buf.segs)) /\ th'[t].lossy = th[t].lossy
            \/ /\ th'[t].pc = "emit" /\ th'[t].ctx = th[t].ctx /\ th[t].op = "close"
               /\ th'[t].plan = ControlEvent /\ th'[t].lossy = th[t].lossy
            \/ /\ th'[t].pc = "untuple" /\ th'[t].ctx = th[t].ctx /\ th[t].op = "close"
               /\ th'[t].plan = th[t].plan /\ th'[t].lossy = TRUE
            \/ /\ th'[t].pc = "kernel" /\ th'[t].ctx = th[t].ctx /\ th[t].op \in {"read", "write"}
               /\ th'[t].plan = th[t].plan /\ th'[t].lossy \in BOOLEAN
               /\ th'[t].lossy = TRUE \/ (th[t].op = "write" /\ th'[t].unread = TRUE)
         /\ thread_last_fd' = [thread_last_fd EXCEPT ![t] = th[t].fd]
         /\ Fixed /\ SameApp /\ SameMaps /\ SameOut /\ moved' = moved
<1>1. /\ thread_last_fd' = [thread_last_fd EXCEPT ![t] = th[t].fd] /\ th[t].pc = "allowed"
      /\ Fixed /\ SameApp /\ SameMaps /\ SameOut /\ moved' = moved
  BY DEF Filter, appVars, outVars, Fixed, SameApp, SameMaps, SameOut
<1>2. th[t].op \in {"read", "write", "close"} /\ ThreadOK(t)
  BY <1>1 DEF Shapes, ThreadOK
<1>3. CASE th[t].op = "read" /\ th' = [th EXCEPT ![t].pc = "kernel", ![t].ctx = th[t].gen, ![t].touched = InSsl(t)]
  BY <1>1, <1>3, ThreadDomain DEF Same, Only, Fields
<1>4. CASE th[t].op = "write" /\ th' = [th EXCEPT ![t].pc = "emit", ![t].touched = InSsl(t),
                                           ![t].plan = DataEvents(th[t].buf, Total(th[t].buf.segs))]
  BY <1>1, <1>4, ThreadDomain DEF Same, Only, Fields
<1>5. CASE th[t].op = "close" /\ th' = [th EXCEPT ![t].pc = "emit", ![t].plan = ControlEvent]
  BY <1>1, <1>5, ThreadDomain DEF Same, Only, Fields
<1>6. CASE th' = [th EXCEPT ![t].pc = IF th[t].op = "close" THEN "untuple" ELSE "kernel",
                            ![t].lossy = TRUE, ![t].touched = InSsl(t)]
  BY <1>1, <1>2, <1>6, ThreadDomain DEF Same, Only, Fields
<1>7. CASE /\ th[t].op \in {"read", "write"}
           /\ th' = [th EXCEPT ![t].pc = "kernel", ![t].unread = TRUE, ![t].lossy = th[t].op = "read",
                               ![t].touched = InSsl(t)]
  BY <1>1, <1>7, ThreadDomain DEF Same, Only, Fields
<1> QED
  BY <1>3, <1>4, <1>5, <1>6, <1>7 DEF Filter

LEMMA LearnTupleDoes ==
  ASSUME Shapes, NEW t \in Threads, LearnTuple(t)
  PROVE  /\ th[t].pc = "tuple"
         /\ \/ th[t].op = "bind" /\ Back(t) /\ th'[t].ssl = NoFd
            \/ /\ Same(t, {"pc", "plan", "ctx"}) /\ th'[t].pc = "emit" /\ th'[t].plan = ControlEvent
               /\ \/ th[t].op = "connect" /\ th'[t].ctx = th[t].ctx
                  \/ th[t].op = "accepted" /\ th'[t].ctx = 0
         /\ DOMAIN socket_tuples' = DOMAIN socket_tuples \cup {<<th[t].fd, th[t].gen>>}
         /\ fd_generations' = fd_generations /\ event_seqnos' = event_seqnos
         /\ Fixed /\ SameApp /\ SameOut /\ moved' = moved /\ thread_last_fd' = thread_last_fd
<1>1. /\ fd_generations' = fd_generations /\ event_seqnos' = event_seqnos /\ th[t].pc = "tuple"
      /\ Fixed /\ SameApp /\ SameOut /\ moved' = moved /\ thread_last_fd' = thread_last_fd
  BY DEF LearnTuple, appVars, outVars, Fixed, SameApp, SameOut
<1>2. DOMAIN socket_tuples' = DOMAIN socket_tuples \cup {<<th[t].fd, th[t].gen>>}
  <2>1. \A l : update_socket_tuple(th[t].fd, th[t].gen, l) =>
                 DOMAIN socket_tuples' = DOMAIN socket_tuples \cup {<<th[t].fd, th[t].gen>>}
    BY DEF update_socket_tuple
  <2> QED
    BY <2>1 DEF LearnTuple
<1>3. CASE th[t].op = "bind" /\ th' = [th EXCEPT ![t] = Idle]
  BY <1>1, <1>2, <1>3, IdleIsBack
<1>4. CASE th[t].op = "connect" /\ th' = [th EXCEPT ![t].pc = "emit", ![t].plan = ControlEvent]
  BY <1>1, <1>2, <1>4, ThreadDomain DEF Same, Only, Fields
<1>5. CASE th[t].op = "accepted" /\ th' = [th EXCEPT ![t].pc = "emit", ![t].plan = ControlEvent, ![t].ctx = 0]
  BY <1>1, <1>2, <1>5, ThreadDomain DEF Same, Only, Fields
<1> QED
  BY <1>3, <1>4, <1>5 DEF LearnTuple

NextChunkFields == {"pc", "plan", "idx", "lossy"}

LEMMA NextChunkDoes ==
  ASSUME Shapes, NEW t \in Threads, NEW l, NextChunk(t, l)
  PROVE  /\ Same(t, NextChunkFields) /\ th'[t].pc = "emit" /\ th'[t].plan = Tail(th[t].plan)
         /\ th'[t].idx = th[t].idx + 1 /\ th'[t].lossy = (th[t].lossy \/ l)
BY ThreadDomain DEF NextChunk, Same, Only, Fields, NextChunkFields

(* emit_data_chunk and emit_control_event up to the reservation *)
EmitStarts(t) ==
  \/ /\ Same(t, {"pc"}) /\ th'[t].pc = "seq" /\ RingHasRoom(th[t].cpu)
     /\ rings' = [rings EXCEPT ![th[t].cpu] = Append(@, [st |-> "busy", id |-> <<th[t].sys, th[t].idx>>])]
  \/ /\ Same(t, NextChunkFields) /\ th'[t].pc = "emit" /\ th'[t].plan = Tail(th[t].plan)
     /\ th'[t].idx = th[t].idx + 1 /\ th'[t].lossy = TRUE /\ rings' = rings

LEMMA EmitDoes ==
  ASSUME Shapes, NEW t \in Threads, EmitData(t) \/ EmitControl(t)
  PROVE  /\ th[t].pc = "emit" /\ th[t].plan # <<>> /\ EmitStarts(t)
         /\ \/ thread_last_fd' = thread_last_fd
            \/ thread_last_fd' = [thread_last_fd EXCEPT ![t] = th[t].fd]
         /\ Fixed /\ SameApp /\ SameMaps /\ got' = got /\ discarded' = discarded /\ moved' = moved
<1>1. /\ th[t].pc = "emit" /\ th[t].plan # <<>>
      /\ Fixed /\ SameApp /\ SameMaps /\ got' = got /\ discarded' = discarded /\ moved' = moved
      /\ \/ thread_last_fd' = thread_last_fd
         \/ thread_last_fd' = [thread_last_fd EXCEPT ![t] = th[t].fd]
  BY DEF EmitData, EmitControl, appVars, mapVars, Fixed, SameApp, SameMaps
<1>2. ASSUME NextChunk(t, TRUE), rings' = rings PROVE EmitStarts(t)
  BY <1>2, NextChunkDoes DEF EmitStarts
<1>3. ASSUME Reserve(t) PROVE EmitStarts(t)
  <2>1. CASE NextChunk(t, TRUE) /\ rings' = rings
    BY <1>2, <2>1
  <2>2. CASE /\ RingHasRoom(th[t].cpu) /\ th' = [th EXCEPT ![t].pc = "seq"]
             /\ rings' = [rings EXCEPT ![th[t].cpu] =
                            Append(@, [st |-> "busy", id |-> <<th[t].sys, th[t].idx>>])]
    <3>1. Same(t, {"pc"}) /\ th'[t].pc = "seq"
      BY <2>2, ThreadDomain DEF Same, Only, Fields
    <3> QED
      BY <2>2, <3>1 DEF EmitStarts
  <2> QED
    BY <1>3, <2>1, <2>2 DEF Reserve
<1>4. EmitStarts(t)
  BY <1>2, <1>3 DEF EmitData, EmitControl
<1> QED
  BY <1>1, <1>4

ReadySlot(t) == [st |-> "ready", id |-> <<th[t].sys, th[t].idx>>, ev |-> Event(t)]
DiscardedSlot(t) == [st |-> "discarded", id |-> <<th[t].sys, th[t].idx>>]
TakenBy(t) == [fd |-> th[t].fd, gen |-> th[t].gen, seq |-> th[t].seq]

LEMMA CopyDoes ==
  ASSUME Shapes, NEW t \in Threads, Copy(t)
  PROVE  /\ th[t].pc = "copy" /\ Same(t, NextChunkFields) /\ th'[t].pc = "emit"
         /\ th'[t].plan = Tail(th[t].plan) /\ th'[t].idx = th[t].idx + 1
         /\ \/ Fill(t, ReadySlot(t)) /\ th'[t].lossy = (th[t].lossy \/ FALSE) /\ discarded' = discarded
            \/ /\ Fill(t, DiscardedSlot(t)) /\ th'[t].lossy = TRUE /\ IsData(th[t].op)
               /\ discarded' = discarded \cup {TakenBy(t)}
         /\ Fixed /\ SameApp /\ SameMaps /\ got' = got /\ moved' = moved /\ thread_last_fd' = thread_last_fd
<1>1. /\ th[t].pc = "copy"
      /\ Fixed /\ SameApp /\ SameMaps /\ got' = got /\ moved' = moved /\ thread_last_fd' = thread_last_fd
  BY DEF Copy, appVars, mapVars, Fixed, SameApp, SameMaps
<1>2. CASE Fill(t, ReadySlot(t)) /\ NextChunk(t, FALSE) /\ discarded' = discarded
  BY <1>1, <1>2, NextChunkDoes
<1>3. CASE /\ Fill(t, DiscardedSlot(t)) /\ NextChunk(t, TRUE) /\ IsData(th[t].op)
           /\ discarded' = discarded \cup {TakenBy(t)}
  <2>1. (th[t].lossy \/ TRUE) = TRUE
    OBVIOUS
  <2> QED
    BY <1>1, <1>3, <2>1, NextChunkDoes
<1> QED
  BY <1>2, <1>3 DEF Copy, ReadySlot, DiscardedSlot, TakenBy

LEMMA EmitDoneDoes ==
  ASSUME Shapes, NEW t \in Threads, EmitDone(t)
  PROVE  /\ th[t].pc = "emit" /\ th[t].plan = <<>>
         /\ \/ th[t].op = "write" /\ Same(t, {"pc"}) /\ th'[t].pc = "kernel" /\ moved' = moved
            \/ th[t].op = "close" /\ Same(t, {"pc"}) /\ th'[t].pc = "untuple" /\ moved' = moved
            \/ th[t].op = "read" /\ Back(t) /\ th'[t].ssl = th[t].ssl /\ Transfer(t, th[t].ret, th[t].lossy)
            \/ th[t].op \in {"connect", "accepted", "ssl"} /\ Back(t) /\ th'[t].ssl = th[t].ssl /\ moved' = moved
         /\ Fixed /\ SameApp /\ SameMaps /\ SameOut /\ thread_last_fd' = thread_last_fd
<1>1. /\ th[t].pc = "emit" /\ th[t].plan = <<>>
      /\ Fixed /\ SameApp /\ SameMaps /\ SameOut /\ thread_last_fd' = thread_last_fd
  BY DEF EmitDone, appVars, mapVars, Fixed, SameApp, SameMaps, SameOut
<1>2. CASE th[t].op = "write" /\ th' = [th EXCEPT ![t].pc = "kernel"] /\ moved' = moved
  BY <1>1, <1>2, ThreadDomain DEF Same, Only, Fields
<1>3. CASE th[t].op = "close" /\ th' = [th EXCEPT ![t].pc = "untuple"] /\ moved' = moved
  BY <1>1, <1>3, ThreadDomain DEF Same, Only, Fields
<1>4. CASE th[t].op = "read" /\ th' = [th EXCEPT ![t] = Returned(t)] /\ Transfer(t, th[t].ret, th[t].lossy)
  BY <1>1, <1>4, ReturnedIsBack
<1>5. CASE /\ th[t].op \in {"connect", "accepted", "ssl"} /\ moved' = moved
           /\ th' = [th EXCEPT ![t] = Returned(t)]
  BY <1>1, <1>5, ReturnedIsBack
<1> QED
  BY <1>2, <1>3, <1>4, <1>5 DEF EmitDone

LEMMA WriteReturnDoes ==
  ASSUME Shapes, NEW t \in Threads, NEW n, WriteReturn(t, n)
  PROVE  /\ th[t].pc = "kernel" /\ th[t].op = "write" /\ Back(t) /\ th'[t].ssl = th[t].ssl
         /\ conns' = Moved(t, n) /\ Transfer(t, n, th[t].lossy)
         /\ Fixed /\ opened' = opened /\ calls' = calls /\ SameMaps /\ SameOut /\ thread_last_fd' = thread_last_fd
BY ReturnedIsBack DEF WriteReturn, mapVars, Fixed, SameMaps, SameOut

LEMMA CloseReturnDoes ==
  ASSUME Shapes, NEW t \in Threads, CloseReturn(t)
  PROVE  /\ th[t].pc = "kernel" /\ th[t].op = "close" /\ Back(t) /\ th'[t].ssl = NoFd
         /\ conns' = [conns EXCEPT ![th[t].fd] = NoConn]
         /\ Fixed /\ opened' = opened /\ calls' = calls /\ SameMaps /\ SameOut /\ moved' = moved
         /\ thread_last_fd' = thread_last_fd
BY IdleIsBack DEF CloseReturn, mapVars, outVars, Fixed, SameMaps, SameOut

LEMMA AcceptFailsDoes ==
  ASSUME Shapes, NEW t \in Threads, AcceptFails(t)
  PROVE  /\ th[t].pc = "kernel" /\ th[t].op = "accept" /\ Back(t) /\ th'[t].ssl = NoFd
         /\ Fixed /\ SameApp /\ SameMaps /\ SameOut /\ moved' = moved /\ thread_last_fd' = thread_last_fd
BY IdleIsBack DEF AcceptFails, appVars, mapVars, outVars, Fixed, SameApp, SameMaps, SameOut

LEMMA ReadReturnDoes ==
  ASSUME Shapes, NEW t \in Threads, NEW n, NEW cpu, ReadReturn(t, n, cpu)
  PROVE  /\ th[t].pc = "kernel" /\ th[t].op = "read" /\ conns' = Moved(t, n)
         /\ \/ /\ n > 0 /\ th[t].ctx # 0 /\ Same(t, {"pc", "cpu", "ret", "ctx", "gen", "plan"})
               /\ th'[t].pc = "emit" /\ th'[t].cpu = cpu /\ th'[t].ret = n /\ th'[t].ctx = 0
               /\ th'[t].gen = th[t].ctx /\ th'[t].plan = DataEvents(th[t].buf, n) /\ moved' = moved
            \/ /\ n = 0 \/ th[t].ctx = 0
               /\ Back(t) /\ th'[t].ssl = th[t].ssl /\ Transfer(t, n, th[t].lossy)
         /\ Fixed /\ opened' = opened /\ calls' = calls /\ SameMaps /\ SameOut /\ thread_last_fd' = thread_last_fd
<1>1. /\ th[t].pc = "kernel" /\ th[t].op = "read" /\ conns' = Moved(t, n)
      /\ Fixed /\ opened' = opened /\ calls' = calls /\ SameMaps /\ SameOut /\ thread_last_fd' = thread_last_fd
  BY DEF ReadReturn, mapVars, Fixed, SameMaps, SameOut
<1>2. CASE /\ n > 0 /\ th[t].ctx # 0 /\ moved' = moved
           /\ th' = [th EXCEPT ![t].pc = "emit", ![t].cpu = cpu, ![t].ret = n, ![t].ctx = 0,
                               ![t].gen = th[t].ctx, ![t].plan = DataEvents(th[t].buf, n)]
  BY <1>1, <1>2, ThreadDomain DEF Same, Only, Fields
<1>3. CASE (n = 0 \/ th[t].ctx = 0) /\ th' = [th EXCEPT ![t] = Returned(t)] /\ Transfer(t, n, th[t].lossy)
  BY <1>1, <1>3, ReturnedIsBack
<1> QED
  BY <1>2, <1>3 DEF ReadReturn

LEMMA AcceptReturnDoes ==
  ASSUME Shapes, NEW t \in Threads, NEW fd, NEW port, NEW cpu, AcceptReturn(t, fd, port, cpu)
  PROVE  /\ th[t].pc = "kernel" /\ th[t].op = "accept" /\ Same(t, {"pc", "op", "fd", "cpu", "conn"})
         /\ th'[t].pc = "gen" /\ th'[t].op = "accepted" /\ th'[t].fd = fd /\ th'[t].cpu = cpu
         /\ th'[t].conn = Len(opened) + 1 /\ conns[fd] = NoConn /\ MayEnter(t, fd, "accept")
         /\ opened' = Append(opened, [local |-> ListenPort, remote |-> port])
         /\ conns' = [conns EXCEPT ![fd].id = Len(opened) + 1]
         /\ Fixed /\ calls' = calls /\ SameMaps /\ SameOut /\ moved' = moved /\ thread_last_fd' = thread_last_fd
BY ThreadDomain DEF AcceptReturn, Same, Only, Fields, mapVars, outVars, Fixed, SameMaps, SameOut

StartFields == {"pc", "op", "sys", "fd", "cpu"}
Starts(t, op, fd, cpu) ==
  /\ th[t].pc = "user" /\ th[t].ssl \in {NoFd, fd} /\ calls' = calls + 1
  /\ th'[t].op = op /\ th'[t].sys = calls + 1 /\ th'[t].fd = fd /\ th'[t].cpu = cpu

LEMMA EnterDataDoes ==
  ASSUME Shapes, NEW t \in Threads, NEW dir, NEW fd, NEW buf, NEW peek, NEW cpu, EnterData(t, dir, fd, buf, peek, cpu)
  PROVE  /\ Starts(t, dir, fd, cpu) /\ Same(t, StartFields \cup {"lossy", "dir", "buf", "peek", "conn", "base"})
         /\ th'[t].pc = (IF cfg[dir] THEN "gen" ELSE "kernel") /\ th'[t].lossy = ~cfg[dir]
         /\ th'[t].dir = dir /\ th'[t].buf = buf /\ th'[t].conn = conns[fd].id /\ th'[t].base = conns[fd][dir]
         /\ conns[fd] # NoConn /\ MayEnter(t, fd, dir)
         /\ Fixed /\ conns' = conns /\ opened' = opened /\ SameMaps /\ SameOut /\ moved' = moved
         /\ thread_last_fd' = thread_last_fd
BY ThreadDomain
DEF EnterData, Enter, Started, Starts, StartFields, Same, Only, Fields, mapVars, outVars, Fixed, SameMaps, SameOut

LEMMA EnterCloseDoes ==
  ASSUME Shapes, NEW t \in Threads, NEW fd, NEW cpu, EnterClose(t, fd, cpu)
  PROVE  /\ Starts(t, "close", fd, cpu) /\ Same(t, StartFields \cup {"conn"}) /\ th'[t].pc = "gen"
         /\ th'[t].conn = conns[fd].id /\ th[t].ssl = NoFd /\ conns[fd] # NoConn /\ MayEnter(t, fd, "close")
         /\ Fixed /\ conns' = conns /\ opened' = opened /\ SameMaps /\ SameOut /\ moved' = moved
         /\ thread_last_fd' = thread_last_fd
BY ThreadDomain
DEF EnterClose, Enter, Started, Starts, StartFields, Same, Only, Fields, mapVars, outVars, Fixed, SameMaps, SameOut

LEMMA EnterConnectDoes ==
  ASSUME Shapes, NEW t \in Threads, NEW fd, NEW port, NEW cpu, EnterConnect(t, fd, port, cpu)
  PROVE  /\ \/ th' = th /\ calls' = calls + 1 /\ th[t].pc = "user"
            \/ /\ Starts(t, "connect", fd, cpu) /\ Same(t, StartFields \cup {"conn"}) /\ th'[t].pc = "gen"
               /\ th'[t].conn = Len(opened) + 1
         /\ th[t].ssl = NoFd /\ conns[fd] = NoConn /\ MayEnter(t, fd, "connect")
         /\ opened' = Append(opened, [local |-> NoPort, remote |-> port])
         /\ conns' = [conns EXCEPT ![fd].id = Len(opened) + 1]
         /\ Fixed /\ SameMaps /\ SameOut /\ moved' = moved /\ thread_last_fd' = thread_last_fd
<1>1. /\ th[t].ssl = NoFd /\ conns[fd] = NoConn /\ MayEnter(t, fd, "connect")
      /\ opened' = Append(opened, [local |-> NoPort, remote |-> port])
      /\ conns' = [conns EXCEPT ![fd].id = Len(opened) + 1] /\ Enter(t, "connect", fd)
      /\ Fixed /\ SameMaps /\ SameOut /\ moved' = moved /\ thread_last_fd' = thread_last_fd
  BY DEF EnterConnect, mapVars, outVars, Fixed, SameMaps, SameOut
<1>2. CASE th' = th
  BY <1>1, <1>2 DEF Enter
<1>3. CASE th' = [th EXCEPT ![t] = [Started(t, "connect", fd, cpu) EXCEPT !.conn = Len(opened) + 1]]
  BY <1>1, <1>3, ThreadDomain DEF Enter, Started, Starts, StartFields, Same, Only, Fields
<1> QED
  BY <1>2, <1>3 DEF EnterConnect

LEMMA EnterListenerDoes ==
  ASSUME Shapes, NEW t \in Threads, NEW cpu, EnterBind(t, cpu) \/ EnterAccept(t, cpu)
  PROVE  /\ \E op \in {"bind", "accept"} : Starts(t, op, Listener, cpu)
         /\ Same(t, StartFields) /\ th'[t].pc = "gen"
         /\ Fixed /\ conns' = conns /\ opened' = opened /\ SameMaps /\ SameOut /\ moved' = moved
         /\ thread_last_fd' = thread_last_fd
<1>1. PICK op \in {"bind", "accept"} : th' = [th EXCEPT ![t] = Started(t, op, Listener, cpu)] /\ Enter(t, op, Listener)
  BY DEF EnterBind, EnterAccept
<1>2. Starts(t, op, Listener, cpu) /\ Same(t, StartFields) /\ th'[t].pc = "gen"
  BY <1>1, ThreadDomain DEF Enter, Started, Starts, StartFields, Same, Only, Fields
<1> QED
  BY <1>2 DEF EnterBind, EnterAccept, mapVars, outVars, Fixed, SameMaps, SameOut

LEMMA SslEnterDoes ==
  ASSUME Shapes, NEW t \in Threads, NEW fd, NEW dir, SslEnter(t, fd, dir)
  PROVE  /\ Same(t, {"ssl", "sslDir", "touched"}) /\ th[t].pc = "user" /\ th[t].ssl = NoFd
         /\ th'[t].ssl = fd /\ th'[t].sslDir = dir /\ th'[t].touched = FALSE
         /\ SslMode # "off" /\ conns[fd] # NoConn /\ MayEnter(t, fd, dir)
         /\ Fixed /\ SameApp /\ SameMaps /\ SameOut /\ moved' = moved /\ thread_last_fd' = thread_last_fd
BY ThreadDomain
DEF SslEnter, Same, Only, Fields, appVars, mapVars, outVars, Fixed, SameApp, SameMaps, SameOut

SslStarts(t, n, cpu) ==
  /\ thread_last_fd[t] # NoFd /\ n > 0 /\ calls' = calls + 1 /\ Only(t) /\ SslHasData(t)
  /\ th'[t].pc = "gen" /\ th'[t].op = "ssl" /\ th'[t].sys = calls + 1
  /\ th'[t].fd = thread_last_fd[t] /\ th'[t].cpu = cpu /\ th'[t].dir = th[t].sslDir
  /\ th'[t].conn = conns[th[t].ssl].id /\ th'[t].plan = emit_data_event(n, n)
  /\ th'[t].buf = NoBuffer /\ th'[t].base = 0 /\ th'[t].gen = 0 /\ th'[t].idx = 0
  /\ th'[t].seq = 0 /\ th'[t].ctx = 0 /\ th'[t].ret = 0 /\ th'[t].lossy = FALSE
  /\ th'[t].peek = FALSE /\ th'[t].unread = FALSE
  /\ th'[t].ssl = NoFd /\ th'[t].sslDir = "write" /\ th'[t].touched = FALSE

LEMMA SslReturnDoes ==
  ASSUME Shapes, NEW t \in Threads, NEW n, NEW cpu, SslReturn(t, n, cpu)
  PROVE  /\ th[t].pc = "user" /\ th[t].ssl # NoFd
         /\ \/ Back(t) /\ th'[t].ssl = NoFd /\ calls' = calls
            \/ SslStarts(t, n, cpu)
         /\ Fixed /\ conns' = conns /\ opened' = opened /\ SameMaps /\ SameOut /\ moved' = moved
         /\ thread_last_fd' = thread_last_fd
<1>1. /\ th[t].pc = "user" /\ th[t].ssl # NoFd /\ SslHasData(t)
      /\ Fixed /\ conns' = conns /\ opened' = opened /\ SameMaps /\ SameOut /\ moved' = moved
      /\ thread_last_fd' = thread_last_fd
  BY DEF SslReturn, mapVars, outVars, Fixed, SameMaps, SameOut
<1>2. CASE th' = [th EXCEPT ![t] = Idle] /\ calls' = calls
  BY <1>1, <1>2, IdleIsBack
<1>3. CASE /\ n > 0 /\ thread_last_fd[t] # NoFd /\ calls' = calls + 1
           /\ th' = [th EXCEPT ![t] = [Idle EXCEPT
                       !.pc = "gen", !.op = "ssl", !.sys = calls + 1, !.fd = thread_last_fd[t], !.cpu = cpu,
                       !.dir = th[t].sslDir, !.conn = conns[th[t].ssl].id, !.plan = emit_data_event(n, n)]]
  BY <1>1, <1>3, ThreadDomain DEF SslStarts, Only, Idle, Fields
<1> QED
  BY <1>2, <1>3 DEF SslReturn

-----------------------------------------------------------------------------
(* What holds of every application, however its calls overlap *)

Reserved == {"seq", "put", "copy"}

Typed(t) ==
  /\ th[t].sys \in 0 .. calls /\ th[t].idx \in Nat /\ th[t].seq \in Nat /\ th[t].base \in Nat
  /\ th[t].ret \in Nat /\ th[t].lossy \in BOOLEAN /\ th[t].buf.segs \in Seq(Nat)
  /\ thread_last_fd[t] \in Fds \cup {NoFd}
  /\ th[t].pc = "user" => Blank(t)
  /\ th[t].pc # "user" => th[t].sys # 0
  /\ PlanOK(th[t].plan)
  /\ th[t].pc \in Reserved => th[t].plan # <<>>
  /\ th[t].pc \in Emitting => th[t].ctx = 0
  /\ th[t].pc \in {"allowed", "tuple", "untuple", "bump", "reset"} \cup Emitting => th[t].gen # 0

EventOK(e) ==
  /\ e.size \in Nat /\ e.size < MAX_PAYLOAD_SIZE /\ e.from \in Nat /\ e.original \in Nat
  /\ e.seq \in Nat /\ e.gen \in Nat \ {0} /\ e.sys \in 1 .. calls

TuplesTyped == \A k \in DOMAIN socket_tuples : k[1] \in AllFds /\ k[2] \in Nat \ {0}
Fits == \A c \in Cpus : Len(rings[c]) <= RingCap

BInv ==
  /\ app \in Workloads /\ cfg \in app.configs /\ calls \in Nat /\ Shapes
  /\ \A t \in Threads : Typed(t)
  /\ event_seqnos \in [AllFds -> Nat] /\ TuplesTyped /\ Fits
  /\ \A e \in Submitted : EventOK(e)

LEMMA ByWorkload ==
  ASSUME BInv
  PROVE  /\ IsWorkload(app) /\ RingCap \in Nat \ {0} /\ NoFd \notin AllFds
         /\ \A b \in Buffers : b.segs \in Seq(Nat)
         /\ cfg.read \in BOOLEAN /\ cfg.write \in BOOLEAN
<1>1. IsWorkload(app)
  BY WorkloadsAssumption DEF BInv
<1>2. Buffers \subseteq [iov : BOOLEAN, segs : Seq(Nat)] /\ cfg \in [read : BOOLEAN, write : BOOLEAN, targets : BOOLEAN, max_payload : Nat]
  BY <1>1 DEF BInv, IsWorkload, Buffers
<1> QED
  BY <1>1, <1>2 DEF BInv, Shapes, IsWorkload, RingCap

LEMMA TailPlan ==
  ASSUME NEW plan, PlanOK(plan), plan # <<>>
  PROVE  /\ PlanOK(Tail(plan)) /\ Head(plan) = plan[1] /\ Head(plan) \in Chunks
         /\ Head(plan).size < MAX_PAYLOAD_SIZE
         /\ Len(plan) \in Nat \ {0} /\ DOMAIN plan = 1 .. Len(plan)
         /\ DOMAIN Tail(plan) = 1 .. Len(plan) - 1
         /\ \A i \in 1 .. Len(plan) - 1 : Tail(plan)[i] = plan[i + 1]
<1>1. /\ plan \in Seq(Chunks) /\ Len(plan) \in Nat \ {0} /\ DOMAIN plan = 1 .. Len(plan)
      /\ Tail(plan) \in Seq(Chunks) /\ Len(Tail(plan)) = Len(plan) - 1 /\ DOMAIN Tail(plan) = 1 .. Len(plan) - 1
      /\ \A i \in 1 .. Len(plan) - 1 : Tail(plan)[i] = plan[i + 1]
  BY DEF PlanOK
<1>2. Head(plan) = plan[1] /\ plan[1] \in Chunks /\ 1 \in DOMAIN plan
  BY <1>1
<1>3. \A i \in 1 .. Len(plan) - 1 : i + 1 \in DOMAIN plan /\ \A j \in 1 .. Len(plan) - 1 : i < j => i + 1 < j + 1
  BY <1>1
<1>4. PlanOK(Tail(plan))
  BY <1>1, <1>3 DEF PlanOK
<1> QED
  BY <1>1, <1>2, <1>4 DEF PlanOK

LEMMA OneChunk == PlanOK(ControlEvent) /\ ControlEvent # <<>>
BY SizesAssumption DEF ControlEvent, PlanOK, Chunks

LEMMA BStep ==
  ASSUME BInv, NEW t \in Threads, Fixed, Only(t), ThreadOK(t)', Typed(t)', StoreOK', RingsOK', LastFdMoves(t),
         calls' \in {calls, calls + 1}, event_seqnos' \in [AllFds -> Nat], TuplesTyped', Fits',
         \A e \in Submitted' : e \in Submitted \/ EventOK(e)'
  PROVE  BInv'
<1>1. Threads' = Threads /\ AllFds' = AllFds /\ Fds' = Fds /\ app' = app /\ cfg' = cfg
  BY DEF Fixed, Threads, AllFds, Fds
<1>2. Shapes' /\ OnlyMoves(t)
  BY <1>1, ShapesStep DEF BInv
<1>3. calls' \in Nat /\ calls \in Nat /\ calls <= calls'
  BY DEF BInv
<1>4. ASSUME NEW u \in Threads, u # t PROVE Typed(u)'
  <2>1. th'[u] = th[u] /\ thread_last_fd'[u] = thread_last_fd[u] /\ Typed(u)
    BY <1>2, <1>4 DEF OnlyMoves, LastFdMoves, BInv, Shapes
  <2>2. Blank(u) => Blank(u)'
    BY <2>1 DEF Blank
  <2>3. th'[u].sys \in 0 .. calls'
    BY <1>3, <2>1 DEF Typed
  <2> QED
    BY <1>1, <2>1, <2>2, <2>3 DEF Typed
<1>5. ASSUME NEW e \in Submitted PROVE EventOK(e)'
  <2>1. EventOK(e)
    BY DEF BInv
  <2> QED
    BY <1>3, <2>1 DEF EventOK
<1> QED
  BY <1>1, <1>2, <1>3, <1>4, <1>5 DEF BInv

LEMMA OutStays ==
  ASSUME BInv, SameOut, Fixed
  PROVE  RingsOK' /\ Submitted' = Submitted /\ Fits'
<1>1. Submitted' = Submitted
  BY DEF Submitted, Ready, SameOut
<1> QED
  BY <1>1 DEF BInv, Shapes, SameOut, RingsOK, Fits, Fixed, RingCap

(* a step that touches neither the rings nor the tuples *)
LEMMA QuietStep ==
  ASSUME BInv, NEW t \in Threads, Fixed, SameOut, Only(t), ThreadOK(t)', Typed(t)', StoreOK', LastFdMoves(t),
         calls' \in {calls, calls + 1}, event_seqnos' \in [AllFds -> Nat], TuplesTyped'
  PROVE  BInv'
BY OutStays, BStep

LEMMA TuplesSame ==
  ASSUME BInv, Fixed, DOMAIN socket_tuples' \subseteq DOMAIN socket_tuples
  PROVE  TuplesTyped'
BY DEF BInv, TuplesTyped, AllFds, Fds, Fixed

LEMMA KeepsTyped ==
  ASSUME BInv, NEW t \in Threads, Fixed, calls' = calls, Only(t), LastFdMoves(t),
         \A k \in {"op", "fd", "gen", "conn", "ctx", "cpu", "ssl", "touched", "dir", "sslDir", "sys", "base", "buf", "ret"} :
           th'[t][k] = th[t][k],
         Progress(t),
         th'[t].idx \in Nat, th'[t].seq \in Nat, th'[t].lossy \in BOOLEAN, PlanOK(th'[t].plan),
         th'[t].pc \in Reserved => th'[t].plan # <<>>
  PROVE  ThreadOK(t)' /\ Typed(t)'
<1>1. Keeps(t)
  BY DEF Keeps
<1>2. ThreadOK(t)'
  BY <1>1, KeepsFollows DEF BInv, Fixed
<1>3. Typed(t) /\ ThreadOK(t) /\ Fds' = Fds
  BY DEF BInv, Shapes, Fds, Fixed
<1>4. /\ th[t].pc \in Emitting \cup {"reset"}
      /\ th'[t].pc \in Emitting \cup {"kernel", "untuple"} /\ th'[t].pc # "user" /\ th[t].pc # "user"
      /\ th'[t].pc \in Emitting => th[t].pc \in Emitting
  BY DEF Progress, Emitting
<1>5. thread_last_fd'[t] \in Fds \cup {NoFd}
  BY <1>3, <1>4 DEF LastFdMoves, Typed, ThreadOK, Emitting
<1>6. /\ th'[t].sys = th[t].sys /\ th'[t].base = th[t].base /\ th'[t].buf = th[t].buf /\ th'[t].ret = th[t].ret
      /\ th'[t].gen = th[t].gen /\ th'[t].ctx = th[t].ctx
  OBVIOUS
<1> QED
  BY <1>2, <1>3, <1>4, <1>5, <1>6 DEF Typed

LEMMA LookupSeqTyped ==
  ASSUME BInv, NEW t \in Threads, LookupSeq(t)
  PROVE  BInv'
<1>1. /\ Same(t, {"pc", "seq"}) /\ th[t].pc = "seq" /\ th'[t].pc = "put" /\ th'[t].seq = event_seqnos[th[t].fd]
      /\ Fixed /\ SameApp /\ SameMaps /\ SameOut /\ thread_last_fd' = thread_last_fd
  BY LookupSeqDoes DEF BInv
<1>2. Typed(t) /\ ThreadOK(t) /\ StoreOK /\ event_seqnos \in [AllFds -> Nat]
  BY DEF BInv, Shapes
<1>3. th'[t].seq \in Nat
  BY <1>1, <1>2 DEF ThreadOK, AllFds, Emitting
<1>4. ThreadOK(t)' /\ Typed(t)'
  <2>1. th'[t].idx = th[t].idx /\ th'[t].lossy = th[t].lossy /\ th'[t].plan = th[t].plan
    BY <1>1 DEF Same, Fields
  <2>2. Progress(t) /\ LastFdMoves(t)
    BY <1>1, LastSame DEF Progress
  <2> QED
    BY <1>1, <1>2, <1>3, <2>1, <2>2, KeepsTyped DEF Same, Fields, Typed, SameApp, Reserved
<1> QED
  BY <1>1, <1>2, <1>4, QuietStep, StoreSame, TuplesSame, LastSame DEF Same, SameApp, SameMaps, Fixed

LEMMA UpdateSeqTyped ==
  ASSUME BInv, NEW t \in Threads, UpdateSeq(t)
  PROVE  BInv'
<1>1. /\ Same(t, {"pc"}) /\ th[t].pc = "put" /\ th'[t].pc = "copy"
      /\ event_seqnos' = [event_seqnos EXCEPT ![th[t].fd] = th[t].seq + 1]
      /\ fd_generations' = fd_generations /\ socket_tuples' = socket_tuples
      /\ Fixed /\ SameApp /\ SameOut /\ thread_last_fd' = thread_last_fd
  BY UpdateSeqDoes DEF BInv
<1>2. Typed(t) /\ ThreadOK(t) /\ StoreOK /\ event_seqnos \in [AllFds -> Nat]
  BY DEF BInv, Shapes
<1>3. event_seqnos' \in [AllFds -> Nat]
  <2>1. th[t].seq + 1 \in Nat
    BY <1>2 DEF Typed
  <2> QED
    BY <1>1, <1>2, <2>1
<1>4. ThreadOK(t)' /\ Typed(t)'
  <2>1. th'[t].idx = th[t].idx /\ th'[t].seq = th[t].seq /\ th'[t].lossy = th[t].lossy /\ th'[t].plan = th[t].plan
    BY <1>1 DEF Same, Fields
  <2>2. Progress(t) /\ LastFdMoves(t)
    BY <1>1, LastSame DEF Progress
  <2> QED
    BY <1>1, <1>2, <2>1, <2>2, KeepsTyped DEF Same, Fields, Typed, SameApp, Reserved
<1> QED
  BY <1>1, <1>2, <1>3, <1>4, QuietStep, StoreSame, TuplesSame, LastSame DEF Same, SameApp, Fixed

LEMMA ResetSeqTyped ==
  ASSUME BInv, NEW t \in Threads, ResetSeq(t)
  PROVE  BInv'
<1>1. /\ Same(t, {"pc"}) /\ th[t].pc = "reset" /\ th'[t].pc = "kernel"
      /\ event_seqnos' = [event_seqnos EXCEPT ![th[t].fd] = 0]
      /\ fd_generations' = fd_generations /\ socket_tuples' = socket_tuples
      /\ Fixed /\ SameApp /\ SameOut /\ thread_last_fd' = thread_last_fd
  BY ResetSeqDoes DEF BInv
<1>2. Typed(t) /\ ThreadOK(t) /\ StoreOK /\ event_seqnos \in [AllFds -> Nat] /\ th[t].op = "close"
  BY <1>1 DEF BInv, Shapes, ThreadOK
<1>3. event_seqnos' \in [AllFds -> Nat]
  BY <1>1, <1>2
<1>4. ThreadOK(t)' /\ Typed(t)'
  <2>1. th'[t].idx = th[t].idx /\ th'[t].seq = th[t].seq /\ th'[t].lossy = th[t].lossy /\ th'[t].plan = th[t].plan
    BY <1>1 DEF Same, Fields
  <2>2. Progress(t) /\ LastFdMoves(t)
    BY <1>1, <1>2, LastSame DEF Progress
  <2> QED
    BY <1>1, <1>2, <2>1, <2>2, KeepsTyped DEF Same, Fields, Typed, SameApp, Reserved
<1> QED
  BY <1>1, <1>2, <1>3, <1>4, QuietStep, StoreSame, TuplesSame, LastSame DEF Same, SameApp, Fixed

LEMMA DeleteTupleTyped ==
  ASSUME BInv, NEW t \in Threads, DeleteTuple(t)
  PROVE  BInv'
<1>1. /\ Same(t, {"pc"}) /\ th[t].pc = "untuple" /\ th'[t].pc = "bump"
      /\ fd_generations' = fd_generations /\ event_seqnos' = event_seqnos
      /\ DOMAIN socket_tuples' \subseteq DOMAIN socket_tuples
      /\ Fixed /\ SameApp /\ SameOut /\ moved' = moved /\ thread_last_fd' = thread_last_fd
  BY DeleteTupleDoes DEF BInv
<1>2. Typed(t) /\ ThreadOK(t) /\ StoreOK /\ event_seqnos \in [AllFds -> Nat] /\ Fds' = Fds /\ SslMode' = SslMode
  BY <1>1 DEF BInv, Shapes, Fixed, Fds, SslMode
<1>3. ThreadOK(t)'
  BY <1>1, <1>2, IdleFields DEF ThreadOK, Saved, Pcs, Emitting, DataOps, Same, Only, Fields
<1>4. Typed(t)'
  BY <1>1, <1>2 DEF Typed, Emitting, Reserved, Same, Fields, SameApp
<1> QED
  BY <1>1, <1>2, <1>3, <1>4, QuietStep, StoreSame, TuplesSame, LastSame DEF Same, SameApp, Fixed

LEMMA BumpGenerationTyped ==
  ASSUME BInv, NEW t \in Threads, BumpGeneration(t)
  PROVE  BInv'
<1>1. /\ Same(t, {"pc"}) /\ th[t].pc = "bump" /\ th'[t].pc = "reset"
      /\ SetGeneration(th[t].fd, th[t].gen + 1)
      /\ event_seqnos' = event_seqnos /\ socket_tuples' = socket_tuples
      /\ Fixed /\ SameApp /\ SameOut /\ moved' = moved /\ thread_last_fd' = thread_last_fd
  BY BumpGenerationDoes DEF BInv
<1>2. Typed(t) /\ ThreadOK(t) /\ StoreOK /\ event_seqnos \in [AllFds -> Nat] /\ Fds' = Fds /\ SslMode' = SslMode
  BY <1>1 DEF BInv, Shapes, Fixed, Fds, SslMode
<1>3. ThreadOK(t)'
  BY <1>1, <1>2, IdleFields DEF ThreadOK, Saved, Pcs, Emitting, DataOps, Same, Only, Fields
<1>4. Typed(t)'
  BY <1>1, <1>2 DEF Typed, Emitting, Reserved, Same, Fields, SameApp
<1>5. StoreOK'
  <2>1. th[t].fd \in Fds /\ th[t].gen + 1 \in Nat /\ Listener \notin Fds
    BY <1>1, <1>2 DEF ThreadOK, BInv, Shapes
  <2>2. fd_generations' \in [AllFds -> Nat] /\ fd_generations'[Listener] = fd_generations[Listener]
    BY <1>1, <1>2, <2>1 DEF StoreOK, AllFds, SetGeneration
  <2> QED
    BY <1>1, <1>2, <2>2 DEF StoreOK, SameApp, AllFds, Fixed, Ports
<1> QED
  BY <1>1, <1>2, <1>3, <1>4, <1>5, QuietStep, TuplesSame, LastSame DEF Same, SameApp, Fixed

LEMMA GenerationTyped ==
  ASSUME BInv, NEW t \in Threads, LookupGeneration(t) \/ InitGeneration(t)
  PROVE  BInv'
<1>1. /\ th[t].pc \in {"gen", "initgen"} /\ event_seqnos' = event_seqnos /\ socket_tuples' = socket_tuples
      /\ Fixed /\ SameApp /\ SameOut /\ moved' = moved /\ thread_last_fd' = thread_last_fd
  BY GenerationDoes DEF BInv
<1>2. Typed(t) /\ ThreadOK(t) /\ StoreOK /\ event_seqnos \in [AllFds -> Nat] /\ Fds' = Fds /\ SslMode' = SslMode
  BY <1>1 DEF BInv, Shapes, Fixed, Fds, SslMode
<1>3. CASE /\ Same(t, {"pc"}) /\ th[t].pc = "gen" /\ th'[t].pc = "initgen"
           /\ fd_generations' = fd_generations
  <2>1. ThreadOK(t)'
    BY <1>1, <1>2, <1>3, IdleFields DEF ThreadOK, Saved, Pcs, Emitting, DataOps, Same, Only, Fields
  <2>2. Typed(t)'
    BY <1>1, <1>2, <1>3 DEF Typed, Emitting, Reserved, Same, Fields, SameApp
  <2> QED
    BY <1>1, <1>2, <1>3, <2>1, <2>2, QuietStep, StoreSame, TuplesSame, LastSame DEF Same, SameApp, Fixed
<1>4. ASSUME NEW g \in Nat \ {0}, Generated(t, g), SetGeneration(th[t].fd, g),
             (th[t].pc = "gen" /\ fd_generations[th[t].fd] = g) \/ (th[t].pc = "initgen" /\ g = 1)
      PROVE  BInv'
  <2>1. /\ Same(t, {"pc", "gen", "ctx"}) /\ th'[t].gen = g
        /\ th'[t].ctx = (IF th[t].op = "accept" THEN g ELSE th[t].ctx)
        /\ \/ th'[t].pc = "allowed" /\ th[t].op \in {"read", "write", "close"}
           \/ th'[t].pc = "tuple" /\ th[t].op \in {"bind", "connect", "accepted"}
           \/ th'[t].pc = "kernel" /\ th[t].op = "accept"
           \/ th'[t].pc = "emit" /\ th[t].op = "ssl"
    BY <1>1, <1>4, GeneratedDoes DEF BInv
  <2>2. ThreadOK(t)'
    BY <1>1, <1>2, <2>1, IdleFields DEF ThreadOK, Saved, Pcs, Emitting, DataOps, Same, Only, Fields
  <2>3. Typed(t)'
    BY <1>1, <1>2, <2>1 DEF Typed, Emitting, Reserved, Same, Fields, SameApp, ThreadOK
  <2>4. StoreOK'
    <3>1. th[t].fd \in AllFds
      BY <1>1, <1>2 DEF ThreadOK, AllFds
    <3>2. fd_generations' \in [AllFds -> Nat] /\ fd_generations'[Listener] \in {0, 1}
      BY <1>2, <1>4, <3>1 DEF StoreOK, AllFds, SetGeneration
    <3> QED
      BY <1>1, <1>2, <3>2 DEF StoreOK, SameApp, AllFds, Fixed, Ports
  <2> QED
    BY <1>1, <1>2, <2>1, <2>2, <2>3, <2>4, QuietStep, TuplesSame, LastSame DEF Same, SameApp, Fixed
<1> QED
  BY <1>3, <1>4, GenerationDoes DEF BInv

LEMMA FilterTyped ==
  ASSUME BInv, NEW t \in Threads, Filter(t)
  PROVE  BInv'
<1>1. /\ Same(t, {"pc", "ctx", "touched", "plan", "lossy", "unread"}) /\ th[t].pc = "allowed"
      /\ th'[t].touched \in {th[t].touched, InSsl(t)}
      /\ thread_last_fd' = [thread_last_fd EXCEPT ![t] = th[t].fd]
      /\ Fixed /\ SameApp /\ SameMaps /\ SameOut /\ moved' = moved
  BY FilterDoes DEF BInv
<1>2. Typed(t) /\ ThreadOK(t) /\ StoreOK /\ event_seqnos \in [AllFds -> Nat] /\ Fds' = Fds /\ SslMode' = SslMode
  BY <1>1 DEF BInv, Shapes, Fixed, Fds, SslMode
<1>3. /\ thread_last_fd'[t] = th[t].fd /\ th[t].fd \in Fds /\ LastFdMoves(t) /\ th[t].ctx = 0 /\ th[t].gen # 0
      /\ th[t].op \in {"read", "write", "close"}
  BY <1>1, <1>2 DEF BInv, Shapes, ThreadOK, LastFdMoves, Typed
<1>4. \/ th'[t].pc = "kernel" /\ th'[t].ctx = th[t].gen /\ th[t].op = "read"
      \/ th'[t].pc = "emit" /\ th'[t].ctx = 0 /\ th[t].op \in {"write", "close"}
      \/ th'[t].pc = "untuple" /\ th'[t].ctx = 0 /\ th[t].op = "close"
      \/ th'[t].pc = "kernel" /\ th'[t].ctx = 0 /\ th[t].op \in {"read", "write"}
  BY <1>3, FilterDoes DEF BInv
<1>5. ThreadOK(t)'
  <2>1. th'[t].touched => th'[t].ssl # NoFd /\ thread_last_fd'[t] = th'[t].ssl
    BY <1>1, <1>2, <1>3 DEF ThreadOK, InSsl, Same, Fields
  <2> QED
    BY <1>1, <1>2, <1>3, <1>4, <2>1, IdleFields DEF ThreadOK, Saved, Pcs, Emitting, DataOps, Same, Only, Fields
<1>6. PlanOK(th'[t].plan) /\ th'[t].lossy \in BOOLEAN
  <2> DEFINE buf == th[t].buf
             n == Total(buf.segs)
             plan == DataEvents(buf, n)
  <2>1. buf.segs \in Seq(Nat) /\ PlanOK(th[t].plan) /\ th[t].lossy \in BOOLEAN
    BY <1>2 DEF Typed
  <2>2. n \in 0 .. Total(buf.segs)
    BY <2>1, TotalIs
  <2>3. PlanOK(plan)
    <3> HIDE DEF buf, n
    <3> QED
      BY <2>1, <2>2, EventsCut DEF BInv
  <2>4. th'[t].plan \in {th[t].plan, ControlEvent, plan} /\ th'[t].lossy \in {th[t].lossy, TRUE, FALSE}
    BY FilterDoes DEF BInv
  <2> HIDE DEF plan
  <2> QED
    BY <2>1, <2>3, <2>4, OneChunk
<1>7. Typed(t)'
  <2>1. /\ \A k \in {"sys", "idx", "seq", "base", "ret", "buf", "gen"} : th'[t][k] = th[t][k]
        /\ th'[t].pc \notin Reserved \cup {"user"} /\ th[t].pc # "user"
    BY <1>1, <1>4 DEF Same, Fields, Reserved
  <2> QED
    BY <1>1, <1>2, <1>3, <1>4, <1>6, <2>1 DEF Typed, SameApp, Emitting
<1> QED
  BY <1>1, <1>2, <1>3, <1>5, <1>7, QuietStep, StoreSame, TuplesSame DEF Same, SameApp, SameMaps, Fixed

(* a thread that returns is typed *)
LEMMA BackTyped ==
  ASSUME BInv, NEW t \in Threads, Fixed, Back(t), thread_last_fd' = thread_last_fd, calls' = calls
  PROVE  ThreadOK(t)' /\ Typed(t)' /\ LastFdMoves(t)
<1>1. Returns(t) /\ LastFdMoves(t)
  BY LastSame DEF Returns, Back, Blank
<1>2. ThreadOK(t)'
  BY <1>1, ReturnsFollows DEF BInv, Fixed
<1>3. Typed(t) /\ Fds' = Fds /\ calls \in Nat
  BY DEF BInv, Fixed, Fds
<1>4. NoBuffer.segs \in Seq(Nat)
  BY DEF NoBuffer
<1>5. Blank(t)'
  BY DEF Back
<1>6. /\ th'[t].pc = "user" /\ th'[t].sys = 0 /\ th'[t].buf = NoBuffer /\ th'[t].base = 0 /\ th'[t].plan = <<>>
      /\ th'[t].idx = 0 /\ th'[t].seq = 0 /\ th'[t].ret = 0 /\ th'[t].lossy = FALSE
  BY <1>5 DEF Blank
<1>7. 0 \in 0 .. calls' /\ 0 \in Nat /\ PlanOK(<<>>) /\ FALSE \in BOOLEAN /\ thread_last_fd'[t] \in Fds \cup {NoFd}
  BY <1>3, EmptyPlan DEF Typed
<1> QED
  BY <1>1, <1>2, <1>3, <1>4, <1>5, <1>6, <1>7 DEF Typed, Reserved, Emitting

LEMMA LearnTupleTyped ==
  ASSUME BInv, NEW t \in Threads, LearnTuple(t)
  PROVE  BInv'
<1>1. /\ th[t].pc = "tuple"
      /\ DOMAIN socket_tuples' = DOMAIN socket_tuples \cup {<<th[t].fd, th[t].gen>>}
      /\ fd_generations' = fd_generations /\ event_seqnos' = event_seqnos
      /\ Fixed /\ SameApp /\ SameOut /\ moved' = moved /\ thread_last_fd' = thread_last_fd
  BY LearnTupleDoes DEF BInv
<1>2. Typed(t) /\ ThreadOK(t) /\ StoreOK /\ event_seqnos \in [AllFds -> Nat] /\ Fds' = Fds /\ SslMode' = SslMode
  BY <1>1 DEF BInv, Shapes, Fixed, Fds, SslMode
<1>3. TuplesTyped'
  <2>1. th[t].fd \in AllFds /\ th[t].gen \in Nat \ {0} /\ AllFds' = AllFds
    BY <1>1, <1>2 DEF ThreadOK, Typed, AllFds
  <2> QED
    BY <1>1, <2>1 DEF BInv, TuplesTyped
<1>4. CASE Back(t)
  BY <1>1, <1>2, <1>3, <1>4, BackTyped, QuietStep, StoreSame DEF Back, SameApp, Fixed
<1>5. CASE /\ Same(t, {"pc", "plan", "ctx"}) /\ th'[t].pc = "emit" /\ th'[t].plan = ControlEvent
           /\ \/ th[t].op = "connect" /\ th'[t].ctx = th[t].ctx
              \/ th[t].op = "accepted" /\ th'[t].ctx = 0
  <2>1. ThreadOK(t)'
    BY <1>1, <1>2, <1>5, IdleFields DEF ThreadOK, Saved, Pcs, Emitting, DataOps, Same, Only, Fields
  <2>2. th'[t].ctx = 0
    BY <1>1, <1>2, <1>5 DEF ThreadOK
  <2>3. Typed(t)'
    BY <1>1, <1>2, <1>5, <2>2, OneChunk DEF Typed, Emitting, Reserved, Same, Fields, SameApp
  <2> QED
    BY <1>1, <1>2, <1>3, <1>5, <2>1, <2>3, QuietStep, StoreSame, LastSame DEF Same, SameApp, Fixed
<1> QED
  BY <1>4, <1>5, LearnTupleDoes DEF BInv

LEMMA EmitDoneTyped ==
  ASSUME BInv, NEW t \in Threads, EmitDone(t)
  PROVE  BInv'
<1>1. /\ th[t].pc = "emit" /\ th[t].plan = <<>>
      /\ Fixed /\ SameApp /\ SameMaps /\ SameOut /\ thread_last_fd' = thread_last_fd
  BY EmitDoneDoes DEF BInv
<1>2. Typed(t) /\ ThreadOK(t) /\ StoreOK /\ event_seqnos \in [AllFds -> Nat]
  BY DEF BInv, Shapes
<1>3. CASE Back(t)
  BY <1>1, <1>2, <1>3, BackTyped, QuietStep, StoreSame, TuplesSame DEF Back, SameApp, SameMaps, Fixed
<1>4. CASE /\ Same(t, {"pc"})
           /\ (th[t].op = "write" /\ th'[t].pc = "kernel") \/ (th[t].op = "close" /\ th'[t].pc = "untuple")
  <2>1. th'[t].idx = th[t].idx /\ th'[t].seq = th[t].seq /\ th'[t].lossy = th[t].lossy /\ th'[t].plan = th[t].plan
    BY <1>4 DEF Same, Fields
  <2>2. Progress(t) /\ LastFdMoves(t) /\ th'[t].pc \notin Reserved
    BY <1>1, <1>4, LastSame DEF Progress, Reserved
  <2>3. ThreadOK(t)' /\ Typed(t)'
    BY <1>1, <1>2, <1>4, <2>1, <2>2, KeepsTyped DEF Same, Fields, Typed, SameApp
  <2> QED
    BY <1>1, <1>2, <1>4, <2>2, <2>3, QuietStep, StoreSame, TuplesSame DEF Same, SameApp, SameMaps, Fixed
<1> QED
  BY <1>3, <1>4, EmitDoneDoes DEF BInv

LEMMA MovedIs ==
  ASSUME BInv, NEW t \in Threads, th[t].op \in DataOps, th[t].pc # "user",
         NEW n \in 0 .. Total(th[t].buf.segs)
  PROVE  n \in Nat /\ Total(th[t].buf.segs) \in Nat
<1>1. th[t].buf.segs \in Seq(Nat)
  BY DEF BInv, Typed
<1> QED
  BY <1>1, TotalIs

LEMMA WriteReturnTyped ==
  ASSUME BInv, NEW t \in Threads, NEW n \in 0 .. Total(th[t].buf.segs), WriteReturn(t, n)
  PROVE  BInv'
<1>1. /\ th[t].pc = "kernel" /\ th[t].op = "write" /\ Back(t) /\ conns' = Moved(t, n)
      /\ Fixed /\ opened' = opened /\ calls' = calls /\ SameMaps /\ SameOut /\ thread_last_fd' = thread_last_fd
  BY WriteReturnDoes DEF BInv
<1>2. n \in Nat
  BY <1>1, MovedIs DEF DataOps
<1>3. StoreOK'
  BY <1>1, <1>2, MovedSame DEF BInv, DataOps, Fixed, SameMaps
<1> QED
  BY <1>1, <1>3, BackTyped, QuietStep, TuplesSame DEF Back, SameMaps, BInv

LEMMA AcceptFailsTyped ==
  ASSUME BInv, NEW t \in Threads, AcceptFails(t)
  PROVE  BInv'
<1>1. /\ Back(t) /\ Fixed /\ SameApp /\ SameMaps /\ SameOut /\ thread_last_fd' = thread_last_fd
  BY AcceptFailsDoes DEF BInv
<1> QED
  BY <1>1, BackTyped, QuietStep, TuplesSame, StoreSame DEF Back, SameMaps, SameApp, BInv, Shapes, Fixed

LEMMA CloseReturnTyped ==
  ASSUME BInv, NEW t \in Threads, CloseReturn(t)
  PROVE  BInv'
<1>1. /\ th[t].pc = "kernel" /\ th[t].op = "close" /\ Back(t)
      /\ conns' = [conns EXCEPT ![th[t].fd] = NoConn]
      /\ Fixed /\ opened' = opened /\ calls' = calls /\ SameMaps /\ SameOut
      /\ thread_last_fd' = thread_last_fd
  BY CloseReturnDoes DEF BInv
<1>2. ThreadOK(t) /\ StoreOK /\ Fds' = Fds /\ Ports' = Ports /\ AllFds' = AllFds
  BY <1>1 DEF BInv, Shapes, Fixed, Fds, Ports, AllFds
<1>3. StoreOK'
  <2>1. th[t].fd \in Fds
    BY <1>1, <1>2 DEF ThreadOK
  <2>2. NoConn \in [id : 0 .. Len(opened), read : Nat, write : Nat]
    <3>1. Len(opened) \in Nat
      BY <1>2 DEF StoreOK
    <3> QED
      BY <3>1 DEF NoConn
  <2>3. /\ conns' \in [Fds -> [id : 0 .. Len(opened), read : Nat, write : Nat]] /\ conns'[th[t].fd] = NoConn
        /\ \A f \in Fds : f # th[t].fd => conns'[f] = conns[f]
    BY <1>1, <1>2, <2>1, <2>2 DEF StoreOK
  <2> QED
    BY <1>1, <1>2, <2>3 DEF StoreOK, SameMaps
<1> QED
  BY <1>1, <1>3, BackTyped, QuietStep, TuplesSame DEF Back, SameMaps, BInv

LEMMA ReadReturnTyped ==
  ASSUME BInv, NEW t \in Threads, NEW n \in 0 .. Total(th[t].buf.segs), NEW cpu \in Cpus, ReadReturn(t, n, cpu)
  PROVE  BInv'
<1>1. /\ th[t].pc = "kernel" /\ th[t].op = "read" /\ conns' = Moved(t, n)
      /\ Fixed /\ opened' = opened /\ calls' = calls /\ SameMaps /\ SameOut /\ thread_last_fd' = thread_last_fd
  BY ReadReturnDoes DEF BInv
<1>2. n \in Nat /\ Typed(t) /\ ThreadOK(t) /\ Fds' = Fds /\ SslMode' = SslMode
  BY <1>1, MovedIs DEF DataOps, BInv, Shapes, Fixed, Fds, SslMode
<1>3. StoreOK'
  BY <1>1, <1>2, MovedSame DEF BInv, DataOps, Fixed, SameMaps
<1>4. CASE Back(t)
  BY <1>1, <1>3, <1>4, BackTyped, QuietStep, TuplesSame DEF Back, SameMaps, BInv
<1>5. CASE /\ n > 0 /\ th[t].ctx # 0 /\ Same(t, {"pc", "cpu", "ret", "ctx", "gen", "plan"})
           /\ th'[t].pc = "emit" /\ th'[t].cpu = cpu /\ th'[t].ret = n /\ th'[t].ctx = 0
           /\ th'[t].gen = th[t].ctx /\ th'[t].plan = DataEvents(th[t].buf, n)
  <2>1. ThreadOK(t)'
    BY <1>1, <1>2, <1>5, IdleFields DEF ThreadOK, Saved, Pcs, Emitting, DataOps, Same, Only, Fields
  <2>2. PlanOK(th'[t].plan)
    <3> DEFINE buf == th[t].buf
    <3>1. buf.segs \in Seq(Nat) /\ n \in 0 .. Total(buf.segs) /\ th'[t].plan = DataEvents(buf, n)
      BY <1>2, <1>5 DEF Typed
    <3> HIDE DEF buf
    <3> QED
      BY <3>1, EventsCut DEF BInv
  <2>3. Typed(t)'
    BY <1>1, <1>2, <1>5, <2>2 DEF Typed, Emitting, Reserved, Same, Fields
  <2> QED
    BY <1>1, <1>3, <1>5, <2>1, <2>3, QuietStep, TuplesSame, LastSame DEF Same, SameMaps, BInv
<1> QED
  BY <1>4, <1>5, ReadReturnDoes DEF BInv

(* a new connection on a free descriptor *)
LEMMA OpenTyped ==
  ASSUME BInv, Fixed, NEW fd \in Fds, conns[fd] = NoConn, fd_generations' = fd_generations,
         NEW r \in [local : Ports \cup {NoPort, ListenPort}, remote : Ports \cup {NoPort}],
         opened' = Append(opened, r), conns' = [conns EXCEPT ![fd].id = Len(opened) + 1]
  PROVE  StoreOK' /\ Len(opened) + 1 \in Nat \ {0}
<1> DEFINE C(n) == [id : 0 .. n, read : Nat, write : Nat]
           n == Len(opened) + 1
<1>1. Fds' = Fds /\ Ports' = Ports /\ AllFds' = AllFds /\ StoreOK
  BY DEF Fixed, Fds, Ports, AllFds, BInv, Shapes
<1>2. /\ opened' \in Seq([local : Ports \cup {NoPort, ListenPort}, remote : Ports \cup {NoPort}])
      /\ Len(opened') = n /\ Len(opened) \in Nat
  BY <1>1 DEF StoreOK
<1>3. conns \in [Fds -> C(Len(opened))]
  BY <1>1 DEF StoreOK
<1>4. \A c \in C(Len(opened)) : c \in C(n)
  BY <1>2
<1> DEFINE new == [conns[fd] EXCEPT !.id = n]
<1>5. new \in C(n) /\ new.id = n
  <2>1. new = [id |-> n, read |-> 0, write |-> 0]
    BY DEF NoConn
  <2> QED
    BY <1>2, <2>1
<1>6. conns' = [conns EXCEPT ![fd] = new]
  OBVIOUS
<1>7. n # 0 /\ n \in Nat
  BY <1>2
<1> HIDE DEF new, C, n
<1>8. /\ conns' \in [Fds -> C(n)] /\ conns'[fd] = new
      /\ \A f \in Fds : f # fd => conns'[f] = conns[f]
  BY <1>3, <1>4, <1>5, <1>6
<1>9. \A f \in Fds : conns'[f].id = 0 => conns'[f] = NoConn
  BY <1>1, <1>5, <1>7, <1>8 DEF StoreOK
<1>10. conns' \in [Fds -> [id : 0 .. Len(opened'), read : Nat, write : Nat]]
  BY <1>2, <1>8 DEF C
<1> QED
  BY <1>1, <1>2, <1>7, <1>9, <1>10 DEF StoreOK, n

LEMMA AcceptReturnTyped ==
  ASSUME BInv, NEW t \in Threads, NEW fd \in Fds, NEW port \in Ports, NEW cpu \in Cpus,
         AcceptReturn(t, fd, port, cpu)
  PROVE  BInv'
<1> DEFINE r == [local |-> ListenPort, remote |-> port]
<1>1. /\ th[t].pc = "kernel" /\ th[t].op = "accept" /\ Same(t, {"pc", "op", "fd", "cpu", "conn"})
      /\ th'[t].pc = "gen" /\ th'[t].op = "accepted" /\ th'[t].fd = fd /\ th'[t].cpu = cpu
      /\ th'[t].conn = Len(opened) + 1 /\ conns[fd] = NoConn
      /\ opened' = Append(opened, r)
      /\ conns' = [conns EXCEPT ![fd].id = Len(opened) + 1]
      /\ Fixed /\ calls' = calls /\ SameMaps /\ SameOut /\ thread_last_fd' = thread_last_fd
  BY AcceptReturnDoes DEF BInv
<1>2. Typed(t) /\ ThreadOK(t) /\ StoreOK /\ Fds' = Fds /\ SslMode' = SslMode
  BY <1>1 DEF BInv, Shapes, Fixed, Fds, SslMode
<1>3. r \in [local : Ports \cup {NoPort, ListenPort}, remote : Ports \cup {NoPort}]
  OBVIOUS
<1>4. StoreOK' /\ Len(opened) + 1 \in Nat \ {0}
  <2> HIDE DEF r
  <2> QED
    BY <1>1, <1>3, OpenTyped DEF SameMaps
<1>5. ThreadOK(t)'
  <2>1. th[t].ssl = NoFd /\ ~th[t].touched
    BY <1>1, <1>2 DEF ThreadOK, DataOps
  <2> QED
    BY <1>1, <1>2, <1>4, <2>1, IdleFields DEF ThreadOK, Saved, Pcs, Emitting, DataOps, Same, Only, Fields
<1>6. Typed(t)'
  BY <1>1, <1>2 DEF Typed, Emitting, Reserved, Same, Fields
<1> QED
  BY <1>1, <1>4, <1>5, <1>6, QuietStep, TuplesSame, LastSame DEF Same, SameMaps, BInv

(* a call that begins: the thread was in user space *)
LEMMA StartTyped ==
  ASSUME BInv, NEW t \in Threads, Fixed, Only(t), th[t].pc = "user", calls' = calls + 1,
         thread_last_fd' = thread_last_fd,
         NEW F, \A k \in Fields \ F : th'[t][k] = th[t][k],
         F \subseteq {"pc", "op", "sys", "fd", "cpu", "lossy", "dir", "buf", "peek", "conn", "base"},
         th'[t].sys = calls + 1, th'[t].pc \in {"gen", "kernel"}, th'[t].base \in Nat,
         th'[t].buf.segs \in Seq(Nat), th'[t].lossy \in BOOLEAN
  PROVE  Typed(t)' /\ LastFdMoves(t)
<1>1. Typed(t) /\ Blank(t) /\ Fds' = Fds /\ calls \in Nat
  BY DEF BInv, Typed, Fixed, Fds
<1>2. \A k \in {"idx", "seq", "ret", "plan"} : th'[t][k] = th[t][k]
  BY DEF Fields
<1>3. th'[t].sys \in 0 .. calls' /\ th'[t].sys # 0
  BY <1>1
<1>4. th'[t].idx = th[t].idx /\ th'[t].seq = th[t].seq /\ th'[t].ret = th[t].ret /\ th'[t].plan = th[t].plan
  BY <1>2
<1> QED
  BY <1>1, <1>3, <1>4, LastSame DEF Typed, Emitting, Reserved

LEMMA EnterDataTyped ==
  ASSUME BInv, NEW t \in Threads, NEW dir \in {"read", "write"}, NEW fd \in Fds, NEW buf \in Buffers,
         NEW peek \in BOOLEAN, NEW cpu \in Cpus, EnterData(t, dir, fd, buf, peek, cpu)
  PROVE  BInv'
<1> DEFINE F == StartFields \cup {"lossy", "dir", "buf", "peek", "conn", "base"}
<1>1. /\ Starts(t, dir, fd, cpu) /\ Same(t, F)
      /\ th'[t].pc = (IF cfg[dir] THEN "gen" ELSE "kernel") /\ th'[t].lossy = ~cfg[dir]
      /\ th'[t].dir = dir /\ th'[t].buf = buf /\ th'[t].conn = conns[fd].id /\ th'[t].base = conns[fd][dir]
      /\ conns[fd] # NoConn
      /\ Fixed /\ conns' = conns /\ opened' = opened /\ SameMaps /\ SameOut
      /\ thread_last_fd' = thread_last_fd
  <2>1. Shapes /\ EnterData(t, dir, fd, buf, peek, cpu)
    BY DEF BInv
  <2>2. Starts(t, dir, fd, cpu) /\ Same(t, F)
    BY <2>1, EnterDataDoes
  <2>3. /\ th'[t].pc = (IF cfg[dir] THEN "gen" ELSE "kernel") /\ th'[t].lossy = ~cfg[dir]
    BY <2>1, EnterDataDoes
  <2>4. /\ th'[t].dir = dir /\ th'[t].buf = buf /\ th'[t].conn = conns[fd].id /\ th'[t].base = conns[fd][dir]
      /\ conns[fd] # NoConn
      /\ Fixed /\ conns' = conns /\ opened' = opened /\ SameMaps /\ SameOut
      /\ thread_last_fd' = thread_last_fd
    BY <2>1, EnterDataDoes
  <2> QED
    BY <2>2, <2>3, <2>4
<1>2. Typed(t) /\ Blank(t) /\ ThreadOK(t) /\ StoreOK /\ Fds' = Fds /\ SslMode' = SslMode /\ NoFd \notin Fds
  BY <1>1 DEF BInv, Shapes, Fixed, Fds, SslMode, Starts, Typed, AllFds
<1>3. conns[fd].id \in Nat \ {0} /\ conns[fd][dir] \in Nat
  BY <1>1, <1>2 DEF StoreOK
<1>4. cfg[dir] \in BOOLEAN /\ buf.segs \in Seq(Nat)
  BY ByWorkload
<1>5. Typed(t)' /\ LastFdMoves(t)
  <2>1. F \subseteq {"pc", "op", "sys", "fd", "cpu", "lossy", "dir", "buf", "peek", "conn", "base"}
    BY DEF StartFields
  <2>2. /\ th'[t].sys = calls + 1 /\ th'[t].pc \in {"gen", "kernel"} /\ th'[t].base \in Nat
        /\ th'[t].buf.segs \in Seq(Nat) /\ th'[t].lossy \in BOOLEAN /\ th[t].pc = "user" /\ calls' = calls + 1
        /\ Only(t) /\ \A k \in Fields \ F : th'[t][k] = th[t][k]
    BY <1>1, <1>3, <1>4 DEF Starts, Same
  <2> HIDE DEF F
  <2> QED
    BY <1>1, <2>1, <2>2, StartTyped
<1>6. ThreadOK(t)'
  <2>1. /\ th[t].ssl = th'[t].ssl /\ th[t].touched = th'[t].touched /\ th[t].sslDir = th'[t].sslDir
        /\ th'[t].gen = th[t].gen /\ th'[t].ctx = th[t].ctx /\ th'[t].op = dir /\ th'[t].fd = fd /\ th'[t].cpu = cpu
        /\ th[t].ssl \in {NoFd, fd}
    BY <1>1 DEF Same, Fields, StartFields, Starts
  <2>2. th[t].gen = 0 /\ th[t].ctx = 0
    BY <1>2 DEF Blank
  <2> QED
    BY <1>1, <1>2, <1>3, <2>1, <2>2, IdleFields DEF ThreadOK, Saved, Pcs, Emitting, DataOps, Same, Only
<1> QED
  BY <1>1, <1>2, <1>5, <1>6, QuietStep, TuplesSame, StoreSame DEF Same, SameMaps, BInv, Starts, Fixed

LEMMA EnterCloseTyped ==
  ASSUME BInv, NEW t \in Threads, NEW fd \in Fds, NEW cpu \in Cpus, EnterClose(t, fd, cpu)
  PROVE  BInv'
<1> DEFINE F == StartFields \cup {"conn"}
<1>1. /\ Starts(t, "close", fd, cpu) /\ Same(t, F) /\ th'[t].pc = "gen"
      /\ th'[t].conn = conns[fd].id /\ th[t].ssl = NoFd /\ conns[fd] # NoConn
      /\ Fixed /\ conns' = conns /\ opened' = opened /\ SameMaps /\ SameOut
      /\ thread_last_fd' = thread_last_fd
  BY EnterCloseDoes DEF BInv
<1>2. Typed(t) /\ Blank(t) /\ ThreadOK(t) /\ StoreOK /\ Fds' = Fds /\ SslMode' = SslMode /\ NoFd \notin Fds
  BY <1>1 DEF BInv, Shapes, Fixed, Fds, SslMode, Starts, Typed, AllFds
<1>3. conns[fd].id \in Nat
  BY <1>1, <1>2 DEF StoreOK
<1>4. \A k \in {"base", "buf", "lossy", "gen", "ctx", "ssl", "touched", "dir", "sslDir"} : th'[t][k] = th[t][k]
  BY <1>1 DEF Same, Fields, StartFields
<1>5. Typed(t)' /\ LastFdMoves(t)
  <2>1. F \subseteq {"pc", "op", "sys", "fd", "cpu", "lossy", "dir", "buf", "peek", "conn", "base"}
    BY DEF StartFields
  <2>2. /\ th'[t].sys = calls + 1 /\ th'[t].pc \in {"gen", "kernel"} /\ th'[t].base \in Nat
        /\ th'[t].buf.segs \in Seq(Nat) /\ th'[t].lossy \in BOOLEAN /\ th[t].pc = "user" /\ calls' = calls + 1
        /\ Only(t) /\ \A k \in Fields \ F : th'[t][k] = th[t][k]
    BY <1>1, <1>2, <1>4 DEF Starts, Same, Typed
  <2> HIDE DEF F
  <2> QED
    BY <1>1, <2>1, <2>2, StartTyped
<1>6. ThreadOK(t)'
  <2>1. /\ th[t].ssl = th'[t].ssl /\ th[t].touched = th'[t].touched /\ th[t].sslDir = th'[t].sslDir
        /\ th'[t].gen = th[t].gen /\ th'[t].ctx = th[t].ctx /\ th'[t].op = "close" /\ th'[t].fd = fd /\ th'[t].cpu = cpu
        /\ th'[t].dir = th[t].dir
    BY <1>1, <1>4 DEF Starts
  <2>2. th[t].gen = 0 /\ th[t].ctx = 0
    BY <1>2 DEF Blank
  <2> QED
    BY <1>1, <1>2, <1>3, <2>1, <2>2, IdleFields DEF ThreadOK, Saved, Pcs, Emitting, DataOps, Same, Only
<1> QED
  BY <1>1, <1>2, <1>5, <1>6, QuietStep, TuplesSame, StoreSame DEF Same, SameMaps, BInv, Starts, Fixed

LEMMA EnterConnectTyped ==
  ASSUME BInv, NEW t \in Threads, NEW fd \in Fds, NEW port \in Ports \cup {NoPort}, NEW cpu \in Cpus,
         EnterConnect(t, fd, port, cpu)
  PROVE  BInv'
<1> DEFINE F == StartFields \cup {"conn"}  r == [local |-> NoPort, remote |-> port]
<1>1. /\ th[t].ssl = NoFd /\ conns[fd] = NoConn
      /\ opened' = Append(opened, r)
      /\ conns' = [conns EXCEPT ![fd].id = Len(opened) + 1]
      /\ Fixed /\ SameMaps /\ SameOut /\ thread_last_fd' = thread_last_fd
      /\ th[t].pc = "user" /\ calls' = calls + 1
  BY EnterConnectDoes DEF BInv, Starts
<1>2. Typed(t) /\ Blank(t) /\ ThreadOK(t) /\ StoreOK /\ Fds' = Fds /\ SslMode' = SslMode /\ NoFd \notin Fds /\ calls \in Nat
  BY <1>1 DEF BInv, Shapes, Fixed, Fds, SslMode, Typed, AllFds
<1>3. r \in [local : Ports \cup {NoPort, ListenPort}, remote : Ports \cup {NoPort}]
  OBVIOUS
<1>4. StoreOK' /\ Len(opened) + 1 \in Nat \ {0}
  <2> HIDE DEF r
  <2> QED
    BY <1>1, <1>3, OpenTyped DEF SameMaps
<1>5. CASE th' = th
  <2>1. Only(t) /\ ThreadOK(t)'
    BY <1>1, <1>2, <1>5, ThreadDomain DEF Only, ThreadOK, Saved, BInv
  <2>2. Typed(t)'
    <3>1. th'[t].sys \in 0 .. calls'
      BY <1>1, <1>2, <1>5 DEF Typed
    <3> QED
      BY <1>1, <1>2, <1>5, <3>1 DEF Typed, Blank
  <2> QED
    BY <1>1, <1>4, <2>1, <2>2, QuietStep, TuplesSame, LastSame DEF SameMaps, BInv
<1>6. CASE /\ Starts(t, "connect", fd, cpu) /\ Same(t, F) /\ th'[t].pc = "gen"
           /\ th'[t].conn = Len(opened) + 1
  <2>4. \A k \in {"base", "buf", "lossy", "gen", "ctx", "ssl", "touched", "dir", "sslDir"} : th'[t][k] = th[t][k]
    BY <1>6 DEF Same, Fields, StartFields
  <2>5. Typed(t)' /\ LastFdMoves(t)
    <3>1. F \subseteq {"pc", "op", "sys", "fd", "cpu", "lossy", "dir", "buf", "peek", "conn", "base"}
      BY DEF StartFields
    <3>2. /\ th'[t].sys = calls + 1 /\ th'[t].pc \in {"gen", "kernel"} /\ th'[t].base \in Nat
          /\ th'[t].buf.segs \in Seq(Nat) /\ th'[t].lossy \in BOOLEAN /\ th[t].pc = "user" /\ calls' = calls + 1
          /\ Only(t) /\ \A k \in Fields \ F : th'[t][k] = th[t][k]
      BY <1>1, <1>2, <1>6, <2>4 DEF Starts, Same, Typed
    <3> HIDE DEF F
    <3> QED
      BY <1>1, <3>1, <3>2, StartTyped
  <2>6. ThreadOK(t)'
    <3>1. /\ th[t].ssl = th'[t].ssl /\ th[t].touched = th'[t].touched /\ th[t].sslDir = th'[t].sslDir
          /\ th'[t].gen = th[t].gen /\ th'[t].ctx = th[t].ctx /\ th'[t].op = "connect" /\ th'[t].fd = fd
          /\ th'[t].cpu = cpu /\ th'[t].dir = th[t].dir
      BY <1>6, <2>4 DEF Starts
    <3>2. th[t].gen = 0 /\ th[t].ctx = 0
      BY <1>2 DEF Blank
    <3> QED
      BY <1>1, <1>2, <1>4, <1>6, <3>1, <3>2, IdleFields DEF ThreadOK, Saved, Pcs, Emitting, DataOps, Same, Only
  <2> QED
    BY <1>1, <1>4, <1>6, <2>5, <2>6, QuietStep, TuplesSame DEF Same, SameMaps, BInv
<1> QED
  BY <1>5, <1>6, EnterConnectDoes DEF BInv

LEMMA EnterListenerTyped ==
  ASSUME BInv, NEW t \in Threads, NEW cpu \in Cpus, EnterBind(t, cpu) \/ EnterAccept(t, cpu)
  PROVE  BInv'
<1> DEFINE F == StartFields
<1>1. /\ Same(t, F) /\ th'[t].pc = "gen"
      /\ Fixed /\ conns' = conns /\ opened' = opened /\ SameMaps /\ SameOut
      /\ thread_last_fd' = thread_last_fd
  BY EnterListenerDoes DEF BInv
<1>2. PICK op \in {"bind", "accept"} : Starts(t, op, Listener, cpu)
  BY EnterListenerDoes DEF BInv
<1>3. Typed(t) /\ Blank(t) /\ ThreadOK(t) /\ StoreOK /\ Fds' = Fds /\ SslMode' = SslMode /\ NoFd \notin AllFds /\ Listener \notin Fds
  BY <1>1, <1>2 DEF BInv, Shapes, Fixed, Fds, SslMode, Starts, Typed
<1>4. \A k \in {"base", "buf", "lossy", "gen", "ctx", "conn", "ssl", "touched", "dir", "sslDir"} : th'[t][k] = th[t][k]
  BY <1>1 DEF Same, Fields, StartFields
<1>5. Typed(t)' /\ LastFdMoves(t)
  <2>1. F \subseteq {"pc", "op", "sys", "fd", "cpu", "lossy", "dir", "buf", "peek", "conn", "base"}
    BY DEF StartFields
  <2>2. /\ th'[t].sys = calls + 1 /\ th'[t].pc \in {"gen", "kernel"} /\ th'[t].base \in Nat
        /\ th'[t].buf.segs \in Seq(Nat) /\ th'[t].lossy \in BOOLEAN /\ th[t].pc = "user" /\ calls' = calls + 1
        /\ Only(t) /\ \A k \in Fields \ F : th'[t][k] = th[t][k]
    BY <1>1, <1>2, <1>3, <1>4 DEF Starts, Same, Typed
  <2> HIDE DEF F
  <2> QED
    BY <1>1, <2>1, <2>2, StartTyped
<1>6. ThreadOK(t)'
  <2>1. /\ th[t].ssl = th'[t].ssl /\ th[t].touched = th'[t].touched /\ th[t].sslDir = th'[t].sslDir
        /\ th'[t].gen = th[t].gen /\ th'[t].ctx = th[t].ctx /\ th'[t].op = op /\ th'[t].fd = Listener /\ th'[t].cpu = cpu
        /\ th'[t].dir = th[t].dir /\ th'[t].conn = th[t].conn /\ th[t].pc = "user"
    BY <1>2, <1>4 DEF Starts
  <2>2. th[t].gen = 0 /\ th[t].ctx = 0 /\ th[t].ssl = NoFd /\ ~th[t].touched
    <3>1. th[t].ssl \in Fds \cup {NoFd} /\ th[t].ssl \in {NoFd, Listener}
      BY <1>2, <1>3 DEF ThreadOK, Starts
    <3> QED
      BY <1>3, <3>1 DEF Blank, ThreadOK
  <2> QED
    BY <1>1, <1>3, <2>1, <2>2, IdleFields DEF ThreadOK, Saved, Pcs, Emitting, DataOps, Same, Only
<1> QED
  BY <1>1, <1>2, <1>3, <1>5, <1>6, QuietStep, TuplesSame, StoreSame DEF Same, SameMaps, BInv, Starts, Fixed

LEMMA SslEnterTyped ==
  ASSUME BInv, NEW t \in Threads, NEW fd \in Fds, NEW dir \in {"read", "write"}, SslEnter(t, fd, dir)
  PROVE  BInv'
<1>1. /\ Same(t, {"ssl", "sslDir", "touched"}) /\ th[t].pc = "user" /\ th[t].ssl = NoFd
      /\ th'[t].ssl = fd /\ th'[t].sslDir = dir /\ th'[t].touched = FALSE /\ SslMode # "off"
      /\ Fixed /\ SameApp /\ SameMaps /\ SameOut /\ thread_last_fd' = thread_last_fd
  BY SslEnterDoes DEF BInv
<1>2. Typed(t) /\ ThreadOK(t) /\ StoreOK /\ Fds' = Fds /\ SslMode' = SslMode
  BY <1>1 DEF BInv, Shapes, Fixed, Fds, SslMode
<1>3. ThreadOK(t)'
  BY <1>1, <1>2, IdleFields DEF ThreadOK, Saved, Pcs, Emitting, DataOps, Same, Only, Fields
<1>4. Typed(t)'
  <2>1. /\ th'[t].pc = th[t].pc /\ th'[t].op = th[t].op /\ th'[t].sys = th[t].sys /\ th'[t].fd = th[t].fd
        /\ th'[t].dir = th[t].dir /\ th'[t].conn = th[t].conn /\ th'[t].buf = th[t].buf /\ th'[t].base = th[t].base
        /\ th'[t].gen = th[t].gen /\ th'[t].plan = th[t].plan /\ th'[t].idx = th[t].idx /\ th'[t].seq = th[t].seq
        /\ th'[t].ctx = th[t].ctx /\ th'[t].ret = th[t].ret /\ th'[t].lossy = th[t].lossy
        /\ th'[t].peek = th[t].peek /\ th'[t].unread = th[t].unread
    BY <1>1 DEF Same, Fields
  <2>2. calls' = calls /\ thread_last_fd' = thread_last_fd /\ Fds' = Fds
    BY <1>1, <1>2 DEF SameApp
  <2>3. Blank(t) => Blank(t)'
    BY <2>1 DEF Blank
  <2> QED
    BY <1>2, <2>1, <2>2, <2>3 DEF Typed, Emitting, Reserved
<1> QED
  BY <1>1, <1>2, <1>3, <1>4, QuietStep, TuplesSame, StoreSame, LastSame DEF Same, SameMaps, SameApp, BInv, Fixed

LEMMA SslReturnTyped ==
  ASSUME BInv, NEW t \in Threads, NEW b \in Buffers, NEW cpu \in Cpus, SslReturn(t, Total(b.segs), cpu)
  PROVE  BInv'
<1> DEFINE n == Total(b.segs)
<1>0. n \in Nat /\ SslReturn(t, n, cpu)
  BY ByWorkload, TotalIs
<1> HIDE DEF n
<1>1. /\ th[t].pc = "user" /\ th[t].ssl # NoFd
      /\ Fixed /\ conns' = conns /\ opened' = opened /\ SameMaps /\ SameOut /\ thread_last_fd' = thread_last_fd
  BY <1>0, SslReturnDoes DEF BInv
<1>2. Typed(t) /\ ThreadOK(t) /\ StoreOK /\ Fds' = Fds /\ SslMode' = SslMode /\ calls \in Nat
  BY <1>1 DEF BInv, Shapes, Fixed, Fds, SslMode
<1>3. CASE Back(t) /\ calls' = calls
  BY <1>1, <1>2, <1>3, BackTyped, QuietStep, StoreSame, TuplesSame DEF Back, SameMaps, Fixed, BInv
<1>4. CASE SslStarts(t, n, cpu)
  <2>1. thread_last_fd[t] \in Fds /\ th[t].ssl \in Fds /\ conns[th[t].ssl].id \in Nat
    BY <1>1, <1>2, <1>4 DEF Typed, ThreadOK, StoreOK, SslStarts
  <2>2. ThreadOK(t)'
    BY <1>1, <1>2, <1>4, <2>1, IdleFields DEF SslStarts, ThreadOK, Saved, Pcs, Emitting, DataOps, Only
  <2>3. PlanOK(th'[t].plan)
    BY <1>0, <1>4, DataCuts DEF BInv, SslStarts
  <2>4. Typed(t)'
    <3>1. th'[t].sys \in 0 .. calls' /\ th'[t].sys # 0
      BY <1>2, <1>4 DEF SslStarts
    <3>2. NoBuffer.segs \in Seq(Nat)
      BY DEF NoBuffer
    <3>3. /\ th'[t].idx \in Nat /\ th'[t].seq \in Nat /\ th'[t].base \in Nat /\ th'[t].ret \in Nat
          /\ th'[t].buf.segs \in Seq(Nat)
          /\ th'[t].pc \notin Emitting \cup Reserved \cup {"user", "allowed", "tuple", "untuple", "bump", "reset"}
      BY <1>4, <3>2 DEF Emitting, Reserved, SslStarts
    <3>5. th'[t].lossy \in BOOLEAN
      BY <1>4 DEF SslStarts
    <3>4. thread_last_fd'[t] \in Fds \cup {NoFd}
      BY <1>1, <2>1
    <3> QED
      BY <1>2, <2>3, <3>1, <3>3, <3>4, <3>5 DEF Typed
  <2> QED
    BY <1>1, <1>2, <1>4, <2>2, <2>4, QuietStep, TuplesSame, StoreSame, LastSame DEF SameMaps, BInv, Fixed, SslStarts
<1> QED
  BY <1>0, <1>3, <1>4, SslReturnDoes DEF BInv

LEMMA EmitTyped ==
  ASSUME BInv, NEW t \in Threads, EmitData(t) \/ EmitControl(t)
  PROVE  BInv'
<1>1. /\ th[t].pc = "emit" /\ th[t].plan # <<>> /\ EmitStarts(t)
      /\ Fixed /\ SameApp /\ SameMaps /\ got' = got /\ discarded' = discarded /\ moved' = moved
  BY EmitDoes DEF BInv
<1>2. Typed(t) /\ ThreadOK(t) /\ StoreOK /\ RingsOK /\ Fits
  BY DEF BInv, Shapes
<1>3. LastFdMoves(t)
  BY EmitDoes DEF BInv, Shapes, LastFdMoves
<1>4. CASE /\ Same(t, {"pc"}) /\ th'[t].pc = "seq" /\ RingHasRoom(th[t].cpu)
           /\ rings' = [rings EXCEPT ![th[t].cpu] = Append(@, [st |-> "busy", id |-> <<th[t].sys, th[t].idx>>])]
  <2>1. th'[t].idx = th[t].idx /\ th'[t].seq = th[t].seq /\ th'[t].lossy = th[t].lossy /\ th'[t].plan = th[t].plan
    BY <1>4 DEF Same, Fields
  <2>2. Progress(t)
    BY <1>1, <1>4 DEF Progress
  <2>3. ThreadOK(t)' /\ Typed(t)'
    BY <1>1, <1>2, <1>3, <1>4, <2>1, <2>2, KeepsTyped DEF Same, Fields, Typed, SameApp
  <2>4. th[t].cpu \in Cpus
    BY <1>1, <1>2 DEF ThreadOK
  <2>5. RingsOK' /\ Submitted' = Submitted
    BY <1>1, <1>2, <1>4, <2>4, ReserveStep
  <2>6. Fits'
    <3> DEFINE c == th[t].cpu  s == [st |-> "busy", id |-> <<th[t].sys, th[t].idx>>]
    <3>1. /\ rings'[c] = Append(rings[c], s) /\ \A d \in Cpus : d # c => rings'[d] = rings[d]
      BY <1>2, <1>4, <2>4 DEF RingsOK
    <3>2. Len(rings[c]) < RingCap /\ RingCap' = RingCap /\ RingCap \in Nat
      BY <1>1, <1>4, ByWorkload DEF RingHasRoom, RingCap, Fixed
    <3>3. Len(rings'[c]) = Len(rings[c]) + 1 /\ Len(rings[c]) \in Nat
      <4> HIDE DEF s, c
      <4>1. c \in Cpus /\ rings[c] \in Seq(Range(rings[c]))
        BY <1>2, <2>4 DEF RingsOK, c
      <4>2. Len(Append(rings[c], s)) = Len(rings[c]) + 1 /\ Len(rings[c]) \in Nat
        <5> DEFINE r == rings[c]  S == Range(r) \cup {s}
        <5>1. r \in Seq(S)
          <6>1. \A i \in 1 .. Len(r) : r[i] \in S
            BY <4>1 DEF Range
          <6> QED
            BY <4>1, <6>1
        <5> HIDE DEF r
        <5>2. s \in S
          OBVIOUS
        <5> HIDE DEF S
        <5>3. Len(Append(r, s)) = Len(r) + 1 /\ Len(r) \in Nat
          BY <5>1, <5>2
        <5> QED
          BY <5>3 DEF r
      <4> QED
        BY <3>1, <4>2
    <3> QED
      BY <1>2, <3>1, <3>2, <3>3 DEF Fits
  <2> QED
    BY <1>1, <1>2, <1>3, <1>4, <2>3, <2>5, <2>6, BStep, StoreSame, TuplesSame DEF Same, SameApp, SameMaps, BInv, Fixed
<1>5. CASE /\ Same(t, NextChunkFields) /\ th'[t].pc = "emit" /\ th'[t].plan = Tail(th[t].plan)
           /\ th'[t].idx = th[t].idx + 1 /\ th'[t].lossy = TRUE /\ rings' = rings
  <2>1. th'[t].idx \in Nat /\ th'[t].seq \in Nat /\ PlanOK(th'[t].plan)
    <3>1. th'[t].seq = th[t].seq
      BY <1>5 DEF Same, Fields, NextChunkFields
    <3> QED
      BY <1>1, <1>2, <1>5, <3>1, TailPlan DEF Typed
  <2>2. Progress(t) /\ th'[t].pc \notin Reserved
    BY <1>1, <1>5 DEF Progress, Reserved
  <2>3. ThreadOK(t)' /\ Typed(t)'
    BY <1>1, <1>3, <1>5, <2>1, <2>2, KeepsTyped DEF Same, Fields, NextChunkFields, SameApp
  <2> QED
    BY <1>1, <1>2, <1>3, <1>5, <2>3, QuietStep, StoreSame, TuplesSame
    DEF Same, SameApp, SameMaps, SameOut, BInv, Fixed
<1> QED
  BY <1>1, <1>4, <1>5 DEF EmitStarts

LEMMA FillFits ==
  ASSUME BInv, NEW t \in Threads, NEW s, Fill(t, s), Fixed, th[t].pc # "user"
  PROVE  Fits'
<1>1. th[t].cpu \in Cpus /\ RingsOK /\ Fits /\ RingCap' = RingCap
  BY DEF BInv, Shapes, ThreadOK, Fixed, RingCap
<1> DEFINE c == th[t].cpu  i == Slot(t)
<1>2. /\ rings'[c] = [rings[c] EXCEPT ![i] = s] /\ \A d \in Cpus : d # c => rings'[d] = rings[d]
  BY <1>1 DEF Fill, RingsOK
<1> HIDE DEF i
<1>3. rings[c] \in Seq(Range(rings[c]))
  BY <1>1 DEF RingsOK
<1>4. Len(rings'[c]) = Len(rings[c])
  <2> DEFINE r == rings[c]  q == [r EXCEPT ![i] = s]
  <2>1. DOMAIN q = DOMAIN r /\ Len(r) \in Nat /\ DOMAIN r = 1 .. Len(r)
    BY <1>3
  <2>2. q \in Seq(Range(q))
    BY <1>3, RangeExcept
  <2> HIDE DEF q, r
  <2>3. Len(q) = Len(r)
    BY <2>1, <2>2
  <2> QED
    BY <1>2, <2>3 DEF q, r
<1> QED
  BY <1>1, <1>2, <1>4 DEF Fits

LEMMA EventTyped ==
  ASSUME BInv, NEW t \in Threads, th[t].pc = "copy", NEW e, e = Event(t)
  PROVE  EventOK(e) /\ e.sys = th[t].sys /\ e.from = th[t].base + Head(th[t].plan).off /\ e.size = Head(th[t].plan).size
<1>1. Typed(t) /\ ThreadOK(t) /\ PlanOK(th[t].plan) /\ th[t].plan # <<>> /\ th[t].gen \in Nat \ {0} /\ calls \in Nat
  BY DEF BInv, Shapes, Typed, ThreadOK, Reserved, Emitting
<1>2. Head(th[t].plan) \in Chunks /\ Head(th[t].plan).size < MAX_PAYLOAD_SIZE
  BY <1>1, TailPlan
<1>3. /\ e.sys = th[t].sys /\ e.gen = th[t].gen /\ e.seq = th[t].seq
      /\ e.from = th[t].base + Head(th[t].plan).off /\ e.size = Head(th[t].plan).size
      /\ e.original = Head(th[t].plan).original
  BY DEF Event
<1>4. th[t].sys \in 1 .. calls /\ th[t].base \in Nat /\ th[t].seq \in Nat
  BY <1>1 DEF Typed
<1> QED
  BY <1>1, <1>2, <1>3, <1>4 DEF EventOK, Chunks

LEMMA CopyTyped ==
  ASSUME BInv, NEW t \in Threads, Copy(t)
  PROVE  BInv'
<1>1. /\ th[t].pc = "copy" /\ Same(t, NextChunkFields) /\ th'[t].pc = "emit"
      /\ th'[t].plan = Tail(th[t].plan) /\ th'[t].idx = th[t].idx + 1
      /\ Fixed /\ SameApp /\ SameMaps /\ got' = got /\ moved' = moved /\ thread_last_fd' = thread_last_fd
  BY CopyDoes DEF BInv
<1>2. Typed(t) /\ ThreadOK(t) /\ StoreOK /\ RingsOK /\ th[t].plan # <<>> /\ th[t].cpu \in Cpus
  BY <1>1 DEF BInv, Shapes, ThreadOK, Typed, Reserved
<1>3. th'[t].lossy \in BOOLEAN
  BY <1>2, CopyDoes DEF BInv, Typed
<1>4. ThreadOK(t)' /\ Typed(t)' /\ LastFdMoves(t)
  <2>1. th'[t].idx \in Nat /\ th'[t].seq \in Nat /\ PlanOK(th'[t].plan)
    <3>1. th'[t].seq = th[t].seq
      BY <1>1 DEF Same, Fields, NextChunkFields
    <3> QED
      BY <1>1, <1>2, <3>1, TailPlan DEF Typed
  <2>2. Progress(t) /\ th'[t].pc \notin Reserved /\ LastFdMoves(t)
    BY <1>1, LastSame DEF Progress, Reserved
  <2> QED
    BY <1>1, <1>3, <2>1, <2>2, KeepsTyped DEF Same, Fields, NextChunkFields, SameApp
<1>5. RingsOK' /\ \A e \in Submitted' : e \in Submitted \/ e = Event(t)
  <2>1. CASE Fill(t, ReadySlot(t))
    <3>1. ReadySlot(t).ev = Event(t)
      BY DEF ReadySlot
    <3> QED
      BY <1>1, <1>2, <2>1, <3>1, FillStep DEF Fill
  <2>2. CASE Fill(t, DiscardedSlot(t))
    <3>1. DiscardedSlot(t).st # "ready"
      BY DEF DiscardedSlot
    <3> QED
      BY <1>1, <1>2, <2>2, <3>1, FillStep DEF Fill
  <2> QED
    BY <2>1, <2>2, CopyDoes DEF BInv
<1>6. Fits'
  BY <1>1, FillFits, CopyDoes DEF BInv
<1>7. ASSUME NEW e, e = Event(t) PROVE EventOK(e)'
  <2>1. EventOK(e)
    BY <1>1, <1>7, EventTyped
  <2> QED
    BY <1>1, <2>1 DEF EventOK, SameApp
<1>8. \A e \in Submitted' : e \in Submitted \/ EventOK(e)'
  BY <1>5, <1>7
<1>9. StoreOK' /\ TuplesTyped' /\ event_seqnos' \in [AllFds -> Nat] /\ calls' = calls /\ Only(t)
  BY <1>1, <1>2, StoreSame, TuplesSame DEF Same, SameApp, SameMaps, BInv, Fixed
<1> QED
  BY <1>1, <1>4, <1>5, <1>6, <1>8, <1>9, BStep

LEMMA AgentReadDoes ==
  ASSUME NEW c \in Cpus, AgentRead(c)
  PROVE  Fixed /\ SameApp /\ SameMaps /\ thread_last_fd' = thread_last_fd /\ th' = th /\ discarded' = discarded /\ moved' = moved
BY DEF AgentRead, appVars, mapVars, Fixed, SameApp, SameMaps

LEMMA AgentReadTyped ==
  ASSUME BInv, NEW c \in Cpus, AgentRead(c)
  PROVE  BInv'
<1>1. Fixed /\ SameApp /\ SameMaps /\ thread_last_fd' = thread_last_fd /\ th' = th
  BY AgentReadDoes
<1>2. RingsOK /\ StoreOK /\ Shapes
  BY DEF BInv, Shapes
<1>3. RingsOK' /\ Submitted' \subseteq Submitted
  BY <1>2, ReadStep
<1>4. PICK t \in Threads : TRUE
  BY WorkloadsAssumption DEF BInv, IsWorkload, Threads
<1>5. Only(t) /\ LastFdMoves(t)
  BY <1>1, <1>2, ThreadDomain, LastSame DEF Only
<1>6. ThreadOK(t)' /\ Typed(t)'
  <2>1. ThreadOK(t) /\ Typed(t) /\ Fds' = Fds /\ SslMode' = SslMode
    BY <1>1, <1>2 DEF BInv, Shapes, Fixed, Fds, SslMode
  <2>2. ThreadOK(t)'
    BY <1>1, <2>1 DEF ThreadOK, Saved
  <2>3. Typed(t)'
    BY <1>1, <2>1 DEF Typed, Blank, SameApp
  <2> QED
    BY <2>2, <2>3
<1>7. Fits'
  <2>1. /\ rings[c] # <<>> /\ rings'[c] = Tail(rings[c]) /\ \A d \in Cpus : d # c => rings'[d] = rings[d]
    BY <1>2 DEF AgentRead, RingsOK
  <2>2. Len(rings'[c]) = Len(rings[c]) - 1 /\ Len(rings[c]) \in Nat
    <3>1. rings[c] \in Seq(Range(rings[c]))
      BY <1>2 DEF RingsOK
    <3> QED
      BY <2>1, <3>1
  <2>3. RingCap \in Nat /\ RingCap' = RingCap /\ Fits
    BY <1>1, ByWorkload DEF BInv, RingCap, Fixed
  <2>4. Len(rings[c]) <= RingCap
    BY <2>3 DEF Fits
  <2>5. Len(rings'[c]) <= RingCap
    BY <2>2, <2>3, <2>4
  <2> QED
    BY <2>1, <2>3, <2>5 DEF Fits
<1>8. StoreOK' /\ TuplesTyped' /\ event_seqnos' \in [AllFds -> Nat] /\ calls' = calls
  BY <1>1, <1>2, StoreSame, TuplesSame DEF SameApp, SameMaps, BInv, Fixed
<1> QED
  BY <1>1, <1>3, <1>5, <1>6, <1>7, <1>8, BStep

LEMMA InitShapes ==
  ASSUME Init
  PROVE  Shapes /\ Submitted = {} /\ app \in Workloads /\ \A t \in Threads : th[t] = Idle
<1>1. app \in Workloads /\ IsWorkload(app)
  BY WorkloadsAssumption DEF Init
<1>2. Listener \notin Fds /\ NoFd \notin AllFds
  BY <1>1 DEF IsWorkload, Fds, AllFds, NoFd
<1>3. Submitted = {}
  <2>1. got = <<>> /\ Range(got) = {} /\ \A c \in Cpus : rings[c] = <<>> /\ Range(rings[c]) = {}
    BY DEF Init, Range
  <2> QED
    BY <2>1, SubmittedIs DEF ReadyIn
<1>4. \A t \in Threads : th[t] = Idle
  BY DEF Init
<1>5. /\ Idle.pc = "user" /\ Idle.op = "none" /\ Idle.fd = NoFd /\ Idle.ctx = 0 /\ Idle.gen = 0 /\ Idle.conn = 0
      /\ Idle.ssl = NoFd /\ Idle.touched = FALSE /\ Idle.dir = "write" /\ Idle.sslDir = "write"
  BY DEF Idle
<1>6. \A t \in Threads : ThreadOK(t)
  BY <1>2, <1>4, <1>5 DEF ThreadOK, Saved, Pcs, Emitting, DataOps
<1>7. StoreOK
  <2>1. fd_generations \in [AllFds -> Nat] /\ fd_generations[Listener] = 0
    BY DEF Init, AllFds
  <2>2. opened = <<>> /\ Len(opened) = 0 /\ \A f \in Fds : conns[f] = NoConn
    BY DEF Init
  <2>3. NoConn \in [id : 0 .. 0, read : Nat, write : Nat]
    BY DEF NoConn
  <2>4. conns \in [Fds -> [id : 0 .. Len(opened), read : Nat, write : Nat]]
    BY <2>2, <2>3 DEF Init
  <2> QED
    BY <2>1, <2>2, <2>4 DEF StoreOK
<1>8. RingsOK
  BY DEF Init, RingsOK
<1>9. Shapes
  BY <1>2, <1>6, <1>7, <1>8 DEF Shapes, Init
<1> QED
  BY <1>1, <1>3, <1>4, <1>9

LEMMA InitTyped ==
  ASSUME Init
  PROVE  BInv
<1>1. Shapes /\ Submitted = {} /\ app \in Workloads /\ \A t \in Threads : th[t] = Idle
  BY InitShapes
<1>2. ASSUME NEW t \in Threads PROVE Typed(t)
  <2>1. thread_last_fd[t] = NoFd /\ th[t] = Idle /\ calls = 0
    BY <1>1 DEF Init
  <2>2. Blank(t)
    BY <2>1 DEF Blank, Idle
  <2>3. NoBuffer.segs \in Seq(Nat)
    BY DEF NoBuffer
  <2>4. /\ th[t].pc = "user" /\ th[t].sys = 0 /\ th[t].buf = NoBuffer /\ th[t].base = 0 /\ th[t].plan = <<>>
        /\ th[t].idx = 0 /\ th[t].seq = 0 /\ th[t].ret = 0 /\ th[t].lossy = FALSE
    BY <2>2 DEF Blank
  <2>5. 0 \in 0 .. calls /\ 0 \in Nat /\ PlanOK(<<>>) /\ FALSE \in BOOLEAN
    BY <2>1, EmptyPlan
  <2> QED
    BY <2>1, <2>2, <2>3, <2>4, <2>5 DEF Typed, Reserved, Emitting
<1>3. calls \in Nat /\ cfg \in app.configs /\ TuplesTyped /\ event_seqnos \in [AllFds -> Nat]
  BY DEF Init, TuplesTyped
<1>4. Fits
  <2>1. RingCap \in Nat
    BY <1>1, WorkloadsAssumption DEF IsWorkload, RingCap
  <2>2. \A c \in Cpus : rings[c] = <<>> /\ Len(rings[c]) = 0
    BY DEF Init
  <2> QED
    BY <2>1, <2>2 DEF Fits
<1> QED
  BY <1>1, <1>2, <1>3, <1>4 DEF BInv

LEMMA NextTyped ==
  ASSUME BInv, Next
  PROVE  BInv'
<1>1. ASSUME NEW t \in Threads, NEW cpu \in Cpus, AppStep(t, cpu) PROVE BInv'
  BY <1>1, EnterDataTyped, EnterCloseTyped, EnterConnectTyped, EnterListenerTyped, ReadReturnTyped,
     AcceptReturnTyped, SslReturnTyped DEF AppStep
<1>2. ASSUME NEW t \in Threads, ProbeStep(t) PROVE BInv'
  BY <1>2, GenerationTyped, FilterTyped, LearnTupleTyped, EmitTyped, LookupSeqTyped, UpdateSeqTyped, CopyTyped,
     EmitDoneTyped, DeleteTupleTyped, BumpGenerationTyped, ResetSeqTyped DEF ProbeStep
<1>3. ASSUME NEW t \in Threads, KernelStep(t) PROVE BInv'
  BY <1>3, WriteReturnTyped, CloseReturnTyped, AcceptFailsTyped, SslEnterTyped DEF KernelStep
<1>4. ASSUME NEW c \in Cpus, AgentRead(c) PROVE BInv'
  BY <1>4, AgentReadTyped
<1> QED
  BY <1>1, <1>2, <1>3, <1>4 DEF Next

LEMMA StutterTyped ==
  ASSUME BInv, UNCHANGED vars
  PROVE  BInv'
<1>1. Fixed /\ SameApp /\ SameMaps /\ SameOut /\ thread_last_fd' = thread_last_fd /\ th' = th
  BY DEF vars, Fixed, SameApp, SameMaps, SameOut
<1>2. Shapes /\ StoreOK
  BY DEF BInv, Shapes
<1>4. PICK t \in Threads : TRUE
  BY WorkloadsAssumption DEF BInv, IsWorkload, Threads
<1>5. Only(t) /\ LastFdMoves(t)
  BY <1>1, <1>2, ThreadDomain, LastSame DEF Only
<1>6. ThreadOK(t)' /\ Typed(t)'
  <2>1. ThreadOK(t) /\ Typed(t) /\ Fds' = Fds /\ SslMode' = SslMode
    BY <1>1, <1>2 DEF BInv, Shapes, Fixed, Fds, SslMode
  <2>2. ThreadOK(t)'
    BY <1>1, <2>1 DEF ThreadOK, Saved
  <2>3. Typed(t)'
    BY <1>1, <2>1 DEF Typed, Blank, SameApp
  <2> QED
    BY <2>2, <2>3
<1> QED
  BY <1>1, <1>2, <1>5, <1>6, QuietStep, StoreSame, TuplesSame DEF SameApp, SameMaps, BInv, Fixed

LEMMA TypedImplies ==
  ASSUME BInv
  PROVE  TypeOK
<1>1. ASSUME NEW t \in Threads
      PROVE  /\ th[t].fd \in AllFds \cup {NoFd} /\ th[t].ssl \in Fds \cup {NoFd}
             /\ th[t].ctx # 0 => th[t].pc \in {"kernel", "gen", "initgen", "tuple"}
  <2>1. ThreadOK(t) /\ Typed(t)
    BY DEF BInv, Shapes
  <2>2. th[t].fd \in AllFds \cup {NoFd} /\ th[t].ssl \in Fds \cup {NoFd}
    BY <2>1 DEF ThreadOK, AllFds
  <2> QED
    BY <2>1, <2>2 DEF ThreadOK, Typed, Pcs, Emitting
<1>2. \A f \in AllFds : fd_generations[f] \in Nat /\ event_seqnos[f] \in Nat
  BY DEF BInv, Shapes, StoreOK
<1>3. \A e \in Submitted : e.size < MAX_PAYLOAD_SIZE /\ e.gen > 0
  BY DEF BInv, EventOK
<1> QED
  BY <1>1, <1>2, <1>3 DEF TypeOK, BInv, Fits, TuplesTyped

(* Whatever the application does and however its calls overlap, the maps    *)
(* and contexts of the probes keep their types, no ring buffer holds more   *)
(* than its capacity, and every payload is shorter than its buffer.         *)
THEOREM Typing == Spec => [](BInv /\ TypeOK)
<1>1. Init => BInv
  BY InitTyped
<1>2. BInv /\ [Next]_vars => BInv'
  BY NextTyped, StutterTyped
<1>3. BInv => TypeOK
  BY TypedImplies
<1> QED
  BY <1>1, <1>2, <1>3, PTL DEF Spec

-----------------------------------------------------------------------------
(* The slots of the ring buffers *)

OneCall == \A t, u \in Threads : th[t].pc # "user" /\ th[t].sys = th[u].sys => t = u

(* a slot is of an earlier chunk of its call, or the one being filled *)
SlotOf(t, s) ==
  s.id[1] = th[t].sys =>
    \/ s.id[2] \in 0 .. th[t].idx - 1
    \/ th[t].pc \in Reserved /\ s.id = <<th[t].sys, th[t].idx>> /\ s.st = "busy"

HasSlot(t) ==
  th[t].pc \in Reserved =>
    \E i \in DOMAIN rings[th[t].cpu] : rings[th[t].cpu][i].id = <<th[t].sys, th[t].idx>>

SlotInv ==
  /\ OneCall
  /\ \A c \in Cpus : \A s \in Range(rings[c]) : s.id[1] \in 1 .. calls
  /\ \A t \in Threads, c \in Cpus : \A s \in Range(rings[c]) : SlotOf(t, s)
  /\ \A t \in Threads : HasSlot(t)

(* t keeps its slot, moves on without one, begins or ends a call *)
SlotMoves(t) ==
  \/ /\ th'[t].sys = th[t].sys /\ th'[t].idx = th[t].idx /\ th'[t].cpu = th[t].cpu
     /\ th'[t].pc \in Reserved /\ th[t].pc \in Reserved
  \/ /\ th'[t].sys = th[t].sys /\ th'[t].pc \notin Reserved /\ th[t].pc \notin Reserved
     /\ th'[t].idx \in {th[t].idx, th[t].idx + 1} /\ (th[t].pc = "user" <=> th'[t].pc = "user")
  \/ th'[t].sys = calls + 1 /\ calls' = calls + 1 /\ th'[t].pc \notin Reserved
  \/ th'[t].sys = 0 /\ th'[t].pc = "user"

LEMMA OneCallStep ==
  ASSUME BInv, OneCall, Fixed, NEW t \in Threads, Only(t),
         \/ th'[t].sys = th[t].sys /\ (th[t].pc = "user" <=> th'[t].pc = "user")
         \/ th'[t].sys = calls + 1
         \/ th'[t].sys = 0 /\ th'[t].pc = "user"
  PROVE  OneCall'
<1>1. Threads' = Threads /\ \A u \in Threads : u # t => th'[u] = th[u]
  BY DEF Fixed, Threads, Only, BInv, Shapes
<1>2. \A u \in Threads : th[u].sys \in 0 .. calls /\ (th[u].pc # "user" => th[u].sys # 0) /\ (th[u].pc = "user" => th[u].sys = 0)
  BY DEF BInv, Typed, Blank
<1>3. calls \in Nat
  BY DEF BInv
<1>4. ASSUME NEW u \in Threads, NEW v \in Threads, th'[u].pc # "user", th'[u].sys = th'[v].sys PROVE u = v
  <2>1. CASE u # t /\ v # t
    BY <1>1, <1>4, <2>1 DEF OneCall
  <2>2. CASE u = t /\ v # t
    BY <1>1, <1>2, <1>3, <1>4, <2>2 DEF OneCall
  <2>3. CASE u # t /\ v = t
    BY <1>1, <1>2, <1>3, <1>4, <2>3 DEF OneCall
  <2> QED
    BY <2>1, <2>2, <2>3
<1> QED
  BY <1>1, <1>4 DEF OneCall

LEMMA SlotQuiet ==
  ASSUME BInv, SlotInv, Fixed, NEW t \in Threads, Only(t), rings' = rings, calls' \in {calls, calls + 1}, SlotMoves(t)
  PROVE  SlotInv'
<1>1. Threads' = Threads /\ \A u \in Threads : u # t => th'[u] = th[u]
  BY DEF Fixed, Threads, Only, BInv, Shapes
<1>2. calls \in Nat /\ th[t].idx \in Nat
  BY DEF BInv, Typed
<1>3. OneCall'
  BY OneCallStep DEF SlotInv, SlotMoves, Reserved
<1>4. \A c \in Cpus : \A s \in Range(rings'[c]) : s.id[1] \in 1 .. calls'
  BY <1>2 DEF SlotInv
<1>5. ASSUME NEW c \in Cpus, NEW s \in Range(rings[c]) PROVE SlotOf(t, s)'
  <2>1. s.id[1] \in 1 .. calls /\ SlotOf(t, s)
    BY DEF SlotInv
  <2> QED
    BY <1>2, <2>1 DEF SlotOf, SlotMoves
<1>6. ASSUME NEW u \in Threads, u # t, NEW c \in Cpus, NEW s \in Range(rings[c]) PROVE SlotOf(u, s)'
  BY <1>1, <1>6 DEF SlotInv, SlotOf
<1>7. \A u \in Threads : HasSlot(u)'
  <2>1. HasSlot(t)'
    BY DEF SlotInv, HasSlot, SlotMoves, Reserved
  <2> QED
    BY <1>1, <2>1 DEF SlotInv, HasSlot
<1> QED
  BY <1>1, <1>3, <1>4, <1>5, <1>6, <1>7 DEF SlotInv

LEMMA AppendIs ==
  ASSUME NEW r, r \in Seq(Range(r)), NEW s
  PROVE  /\ Range(Append(r, s)) = Range(r) \cup {s}
         /\ Len(r) + 1 \in DOMAIN Append(r, s) /\ Append(r, s)[Len(r) + 1] = s
         /\ \A i \in DOMAIN r : i \in DOMAIN Append(r, s) /\ Append(r, s)[i] = r[i]
<1>1. Range(Append(r, s)) = Range(r) \cup {s}
  BY RangeAppend
<1> DEFINE S == Range(r) \cup {s}
<1>2. r \in Seq(S) /\ s \in S
  <2>1. \A i \in 1 .. Len(r) : r[i] \in S
    BY DEF Range
  <2> QED
    BY <2>1
<1> HIDE DEF S
<1>3. /\ Len(r) + 1 \in DOMAIN Append(r, s) /\ Append(r, s)[Len(r) + 1] = s
      /\ \A i \in DOMAIN r : i \in DOMAIN Append(r, s) /\ Append(r, s)[i] = r[i]
  BY <1>2
<1> QED
  BY <1>1, <1>3

LEMMA ReserveSlot ==
  ASSUME BInv, SlotInv, Fixed, NEW t \in Threads, calls' = calls, th[t].pc = "emit",
         Same(t, {"pc"}), th'[t].pc = "seq",
         rings' = [rings EXCEPT ![th[t].cpu] = Append(@, [st |-> "busy", id |-> <<th[t].sys, th[t].idx>>])]
  PROVE  SlotInv'
<1> DEFINE c == th[t].cpu  s == [st |-> "busy", id |-> <<th[t].sys, th[t].idx>>]
<1>1. Threads' = Threads /\ \A u \in Threads : u # t => th'[u] = th[u]
  BY DEF Fixed, Threads, Only, BInv, Shapes, Same
<1>2. /\ th'[t].sys = th[t].sys /\ th'[t].idx = th[t].idx /\ th'[t].cpu = th[t].cpu /\ Only(t)
      /\ c \in Cpus /\ th[t].sys \in 1 .. calls /\ th[t].idx \in Nat /\ calls \in Nat
  BY DEF Same, Fields, BInv, Shapes, ThreadOK, Typed
<1>3. /\ DOMAIN rings = Cpus /\ rings[c] \in Seq(Range(rings[c]))
      /\ rings'[c] = Append(rings[c], s) /\ \A d \in Cpus : d # c => rings'[d] = rings[d]
  BY <1>2 DEF BInv, Shapes, RingsOK
<1>4. s.id = <<th[t].sys, th[t].idx>> /\ s.id[1] = th[t].sys /\ s.st = "busy"
  OBVIOUS
<1> HIDE DEF s, c
<1>5. /\ Range(rings'[c]) = Range(rings[c]) \cup {s}
      /\ Len(rings[c]) + 1 \in DOMAIN rings'[c] /\ rings'[c][Len(rings[c]) + 1] = s
      /\ \A i \in DOMAIN rings[c] : i \in DOMAIN rings'[c] /\ rings'[c][i] = rings[c][i]
  <2> DEFINE r == rings[c]
  <2>1. r \in Seq(Range(r)) /\ rings'[c] = Append(r, s)
    BY <1>3
  <2> HIDE DEF r
  <2>2. /\ Range(Append(r, s)) = Range(r) \cup {s}
        /\ Len(r) + 1 \in DOMAIN Append(r, s) /\ Append(r, s)[Len(r) + 1] = s
        /\ \A i \in DOMAIN r : i \in DOMAIN Append(r, s) /\ Append(r, s)[i] = r[i]
    BY <2>1, AppendIs
  <2> QED
    BY <2>1, <2>2 DEF r
<1>6. OneCall'
  BY <1>2, OneCallStep DEF SlotInv
<1>7. ASSUME NEW d \in Cpus, NEW r \in Range(rings'[d]) PROVE r \in Range(rings[d]) \/ r = s
  BY <1>3, <1>5, <1>7
<1>8. \A d \in Cpus : \A r \in Range(rings'[d]) : r.id[1] \in 1 .. calls'
  BY <1>2, <1>4, <1>7 DEF SlotInv
<1>9. ASSUME NEW u \in Threads, NEW d \in Cpus, NEW r \in Range(rings'[d]) PROVE SlotOf(u, r)'
  <2>1. CASE r \in Range(rings[d])
    <3>1. SlotOf(u, r)
      BY <2>1 DEF SlotInv
    <3>2. CASE u = t
      BY <1>2, <3>1, <3>2 DEF SlotOf, Reserved
    <3>3. CASE u # t
      BY <1>1, <3>1, <3>3 DEF SlotOf
    <3> QED
      BY <3>2, <3>3
  <2>2. CASE r = s
    <3>1. CASE u = t
      BY <1>2, <1>4, <2>2, <3>1 DEF SlotOf, Reserved
    <3>2. CASE u # t
      <4>1. th[u].sys # th[t].sys
        BY <3>2 DEF SlotInv, OneCall
      <4> QED
        BY <1>1, <1>4, <2>2, <3>2, <4>1 DEF SlotOf
    <3> QED
      BY <3>1, <3>2
  <2> QED
    BY <1>7, <2>1, <2>2
<1>10. ASSUME NEW u \in Threads PROVE HasSlot(u)'
  <2>1. CASE u = t
    <3>1. th'[t].cpu = c
      BY <1>2 DEF c
    <3> QED
      BY <1>2, <1>4, <1>5, <2>1, <3>1 DEF HasSlot
  <2>2. CASE u # t
    <3>1. SUFFICES ASSUME th[u].pc \in Reserved
          PROVE  \E i \in DOMAIN rings'[th[u].cpu] : rings'[th[u].cpu][i].id = <<th[u].sys, th[u].idx>>
      BY <1>1, <2>2 DEF HasSlot
    <3>2. PICK i \in DOMAIN rings[th[u].cpu] : rings[th[u].cpu][i].id = <<th[u].sys, th[u].idx>>
      BY <3>1 DEF SlotInv, HasSlot
    <3>3. th[u].cpu \in Cpus
      BY <3>1 DEF BInv, Shapes, ThreadOK, Reserved
    <3>4. i \in DOMAIN rings'[th[u].cpu] /\ rings'[th[u].cpu][i] = rings[th[u].cpu][i]
      BY <1>3, <1>5, <3>2, <3>3
    <3> QED
      BY <3>2, <3>4
  <2> QED
    BY <2>1, <2>2
<1> QED
  BY <1>1, <1>6, <1>8, <1>9, <1>10 DEF SlotInv

(* the slot that is filled was busy *)
LEMMA SlotIs ==
  ASSUME BInv, SlotInv, NEW t \in Threads, th[t].pc \in Reserved
  PROVE  /\ th[t].cpu \in Cpus /\ Slot(t) \in DOMAIN rings[th[t].cpu]
         /\ rings[th[t].cpu][Slot(t)].id = <<th[t].sys, th[t].idx>>
         /\ rings[th[t].cpu][Slot(t)].st = "busy"
<1> DEFINE c == th[t].cpu  id == <<th[t].sys, th[t].idx>>
<1>1. c \in Cpus /\ th[t].idx \in Nat
  BY DEF BInv, Shapes, ThreadOK, Typed, Reserved
<1>2. \E i \in DOMAIN rings[c] : rings[c][i].id = id
  BY DEF SlotInv, HasSlot
<1>3. Slot(t) \in DOMAIN rings[c] /\ rings[c][Slot(t)].id = id
  BY <1>2 DEF Slot
<1> DEFINE s == rings[c][Slot(t)]
<1>4. s \in Range(rings[c]) /\ s.id = id
  BY <1>3 DEF Range
<1> HIDE DEF s
<1>5. SlotOf(t, s)
  BY <1>1, <1>4 DEF SlotInv
<1>6. s.id[1] = th[t].sys /\ s.id[2] = th[t].idx
  BY <1>4
<1>7. s.st = "busy"
  BY <1>1, <1>5, <1>6 DEF SlotOf
<1> QED
  BY <1>1, <1>3, <1>7 DEF s

LEMMA FillIs ==
  ASSUME BInv, SlotInv, NEW t \in Threads, th[t].pc \in Reserved, NEW s, Fill(t, s), got' = got
  PROVE  /\ th[t].cpu \in Cpus /\ \A d \in Cpus : d # th[t].cpu => rings'[d] = rings[d]
         /\ DOMAIN rings'[th[t].cpu] = DOMAIN rings[th[t].cpu]
         /\ rings'[th[t].cpu][Slot(t)] = s
         /\ \A i \in DOMAIN rings[th[t].cpu] : i # Slot(t) => rings'[th[t].cpu][i] = rings[th[t].cpu][i]
         /\ \A d \in Cpus : \A r \in Range(rings'[d]) : r \in Range(rings[d]) \/ r = s
<1> DEFINE c == th[t].cpu  k == Slot(t)
<1>1. c \in Cpus /\ k \in DOMAIN rings[c] /\ DOMAIN rings = Cpus
  BY SlotIs DEF BInv, Shapes, RingsOK
<1>2. rings' = [rings EXCEPT ![c][k] = s]
  BY DEF Fill
<1> HIDE DEF c, k
<1>3. /\ \A d \in Cpus : d # c => rings'[d] = rings[d]
      /\ DOMAIN rings'[c] = DOMAIN rings[c] /\ rings'[c][k] = s
      /\ \A i \in DOMAIN rings[c] : i # k => rings'[c][i] = rings[c][i]
  BY <1>1, <1>2
<1>4. \A r \in Range(rings'[c]) : r \in Range(rings[c]) \/ r = s
  BY <1>3 DEF Range
<1> QED
  BY <1>1, <1>3, <1>4 DEF c, k

(* a slot filled adds its event to what was submitted, and takes none away *)
LEMMA FillSubmits ==
  ASSUME BInv, SlotInv, NEW t \in Threads, th[t].pc \in Reserved, NEW s, Fill(t, s), got' = got
  PROVE  /\ s.st = "ready" => Submitted' = Submitted \cup {s.ev}
         /\ s.st # "ready" => Submitted' = Submitted
<1> DEFINE c == th[t].cpu  k == Slot(t)
<1>1. /\ c \in Cpus /\ k \in DOMAIN rings[c] /\ rings[c][k].st = "busy"
      /\ \A d \in Cpus : d # c => rings'[d] = rings[d]
      /\ DOMAIN rings'[c] = DOMAIN rings[c] /\ rings'[c][k] = s
      /\ \A i \in DOMAIN rings[c] : i # k => rings'[c][i] = rings[c][i]
  BY SlotIs, FillIs
<1>2. /\ s.st # "ready" => Submitted' \subseteq Submitted
      /\ Submitted' \subseteq Submitted \cup {s.ev}
  <2>1. rings' = [rings EXCEPT ![c][k] = s] /\ RingsOK
    BY DEF Fill, BInv, Shapes
  <2>2. c \in Cpus /\ RingsOK /\ got' = got
    BY <1>1, <2>1
  <2> HIDE DEF c, k
  <2> QED
    BY <2>1, <2>2, FillStep
<1> HIDE DEF c, k
<1>3. Submitted' = Range(got') \cup UNION {ReadyIn(Range(rings'[d])) : d \in Cpus}
  BY DEF Submitted, Ready, ReadyIn
<1>4. s.st = "ready" => s.ev \in Submitted'
  <2>1. s \in Range(rings'[c])
    BY <1>1 DEF Range
  <2>2. s.st = "ready" => s.ev \in ReadyIn(Range(rings'[c]))
    BY <2>1 DEF ReadyIn
  <2> QED
    BY <1>1, <1>3, <2>2
<1>5. ASSUME NEW d \in Cpus, NEW e \in ReadyIn(Range(rings[d])) PROVE e \in ReadyIn(Range(rings'[d]))
  <2>1. PICK r \in Range(rings[d]) : r.st = "ready" /\ e = r.ev
    BY <1>5 DEF ReadyIn
  <2>2. r \in Range(rings'[d])
    <3>1. CASE d # c
      BY <1>1, <2>1, <3>1
    <3>2. CASE d = c
      <4>1. PICK i \in DOMAIN rings[c] : rings[c][i] = r
        BY <2>1, <3>2 DEF Range
      <4>2. i # k
        BY <1>1, <2>1, <4>1
      <4> QED
        BY <1>1, <3>2, <4>1, <4>2 DEF Range
    <3> QED
      BY <3>1, <3>2
  <2> QED
    BY <2>1, <2>2 DEF ReadyIn
<1>6. Submitted \subseteq Submitted'
  BY <1>3, <1>5, SubmittedIs
<1> QED
  BY <1>2, <1>4, <1>6

LEMMA CopySlot ==
  ASSUME BInv, SlotInv, NEW t \in Threads, Copy(t)
  PROVE  SlotInv'
<1>1. /\ th[t].pc = "copy" /\ Same(t, NextChunkFields) /\ th'[t].pc = "emit"
      /\ th'[t].idx = th[t].idx + 1 /\ Fixed /\ SameApp /\ got' = got
  BY CopyDoes DEF BInv
<1>2. PICK s : Fill(t, s) /\ s.id = <<th[t].sys, th[t].idx>>
  <2>1. ReadySlot(t).id = <<th[t].sys, th[t].idx>> /\ DiscardedSlot(t).id = <<th[t].sys, th[t].idx>>
    BY DEF ReadySlot, DiscardedSlot
  <2> QED
    BY <2>1, CopyDoes DEF BInv
<1> DEFINE c == th[t].cpu
<1>3. /\ c \in Cpus /\ \A d \in Cpus : d # c => rings'[d] = rings[d]
      /\ DOMAIN rings'[c] = DOMAIN rings[c] /\ rings'[c][Slot(t)] = s
      /\ \A i \in DOMAIN rings[c] : i # Slot(t) => rings'[c][i] = rings[c][i]
      /\ \A d \in Cpus : \A r \in Range(rings'[d]) : r \in Range(rings[d]) \/ r = s
      /\ Slot(t) \in DOMAIN rings[c] /\ rings[c][Slot(t)].id = <<th[t].sys, th[t].idx>>
  BY <1>1, <1>2, FillIs, SlotIs DEF Reserved
<1>4. /\ th'[t].sys = th[t].sys /\ Only(t) /\ th[t].sys \in 1 .. calls /\ th[t].idx \in Nat /\ calls' = calls /\ calls \in Nat
      /\ Threads' = Threads /\ \A u \in Threads : u # t => th'[u] = th[u]
  <2>1. th'[t].sys = th[t].sys /\ Only(t)
    BY <1>1 DEF Same, Fields, NextChunkFields
  <2>2. th[t].sys \in 1 .. calls /\ th[t].idx \in Nat /\ calls' = calls /\ calls \in Nat
    BY <1>1 DEF BInv, Typed, SameApp
  <2>3. Threads' = Threads /\ \A u \in Threads : u # t => th'[u] = th[u]
    BY <1>1, <2>1 DEF Fixed, Threads, Only, BInv, Shapes
  <2> QED
    BY <2>1, <2>2, <2>3
<1> HIDE DEF c
<1>5. OneCall'
  BY <1>1, <1>4, OneCallStep DEF SlotInv
<1>6. s.id[1] = th[t].sys /\ s.id[2] = th[t].idx
  BY <1>2
<1>7. \A d \in Cpus : \A r \in Range(rings'[d]) : r.id[1] \in 1 .. calls'
  BY <1>3, <1>4, <1>6 DEF SlotInv
<1>8. ASSUME NEW u \in Threads, NEW d \in Cpus, NEW r \in Range(rings'[d]) PROVE SlotOf(u, r)'
  <2>1. CASE r \in Range(rings[d])
    <3>1. SlotOf(u, r)
      BY <2>1 DEF SlotInv
    <3>2. CASE u = t
      <4>1. r.id = <<th[t].sys, th[t].idx>> => r.id[2] = th[t].idx
        OBVIOUS
      <4>2. \A n : n \in 0 .. th[t].idx - 1 \/ n = th[t].idx => n \in 0 .. th'[t].idx - 1
        BY <1>1, <1>4
      <4> QED
        BY <1>4, <3>1, <3>2, <4>1, <4>2 DEF SlotOf
    <3>3. CASE u # t
      BY <1>4, <3>1, <3>3 DEF SlotOf
    <3> QED
      BY <3>2, <3>3
  <2>2. CASE r = s
    <3>1. CASE u = t
      BY <1>1, <1>4, <1>6, <2>2, <3>1 DEF SlotOf
    <3>2. CASE u # t
      <4>1. th[u].sys # th[t].sys
        BY <1>1, <3>2 DEF SlotInv, OneCall
      <4> QED
        BY <1>4, <1>6, <2>2, <3>2, <4>1 DEF SlotOf
    <3> QED
      BY <3>1, <3>2
  <2> QED
    BY <1>3, <2>1, <2>2
<1>9. ASSUME NEW u \in Threads PROVE HasSlot(u)'
  <2>1. CASE u = t
    BY <1>1, <2>1 DEF HasSlot, Reserved
  <2>2. CASE u # t
    <3>1. SUFFICES ASSUME th[u].pc \in Reserved
          PROVE  \E i \in DOMAIN rings'[th[u].cpu] : rings'[th[u].cpu][i].id = <<th[u].sys, th[u].idx>>
      BY <1>4, <2>2 DEF HasSlot
    <3>2. PICK i \in DOMAIN rings[th[u].cpu] : rings[th[u].cpu][i].id = <<th[u].sys, th[u].idx>>
      BY <3>1 DEF SlotInv, HasSlot
    <3>3. th[u].cpu \in Cpus /\ th[u].sys # th[t].sys
      BY <1>1, <2>2, <3>1 DEF BInv, Shapes, ThreadOK, Reserved, SlotInv, OneCall
    <3>4. i \in DOMAIN rings'[th[u].cpu] /\ rings'[th[u].cpu][i] = rings[th[u].cpu][i]
      BY <1>3, <3>2, <3>3
    <3> QED
      BY <3>2, <3>4
  <2> QED
    BY <2>1, <2>2
<1> QED
  BY <1>4, <1>5, <1>7, <1>8, <1>9 DEF SlotInv

LEMMA TailIs ==
  ASSUME NEW r, r \in Seq(Range(r)), r # <<>>
  PROVE  /\ \A i \in DOMAIN r : i # 1 => i - 1 \in DOMAIN Tail(r) /\ Tail(r)[i - 1] = r[i]
         /\ Head(r) = r[1]
<1>1. /\ Len(r) \in Nat \ {0} /\ DOMAIN r = 1 .. Len(r) /\ Len(Tail(r)) = Len(r) - 1 /\ DOMAIN Tail(r) = 1 .. Len(r) - 1
      /\ \A i \in 1 .. Len(r) - 1 : Tail(r)[i] = r[i + 1]
  OBVIOUS
<1>2. \A i \in 1 .. Len(r) : i # 1 => i - 1 \in 1 .. Len(r) - 1 /\ (i - 1) + 1 = i
  BY <1>1
<1> QED
  BY <1>1, <1>2

(* the agent takes nothing away but what is no longer wanted *)
LEMMA ReadSubmits ==
  ASSUME BInv, NEW c \in Cpus, AgentRead(c)
  PROVE  Submitted' = Submitted
<1> DEFINE r == rings[c]
<1>1. RingsOK /\ r # <<>> /\ r \in Seq(Range(r))
  BY DEF BInv, Shapes, RingsOK, AgentRead
<1>2. /\ rings'[c] = Tail(r) /\ \A d \in Cpus : d # c => rings'[d] = rings[d]
  BY <1>1 DEF RingsOK, AgentRead
<1>3. Submitted' \subseteq Submitted
  BY <1>1, ReadStep
<1>4. Submitted' = Range(got') \cup UNION {ReadyIn(Range(rings'[d])) : d \in Cpus}
  BY DEF Submitted, Ready, ReadyIn
<1>5. /\ Range(got) \subseteq Range(got')
      /\ Head(r).st = "ready" => Head(r).ev \in Range(got')
  <2>1. CASE Head(r).st = "ready"
    <3>1. got' = Append(got, Head(r).ev)
      BY <2>1 DEF AgentRead
    <3> QED
      BY <1>1, <3>1, RangeAppend DEF RingsOK
  <2>2. CASE Head(r).st # "ready"
    BY <2>2 DEF AgentRead
  <2> QED
    BY <2>1, <2>2
<1>6. /\ \A i \in DOMAIN r : i # 1 => i - 1 \in DOMAIN Tail(r) /\ Tail(r)[i - 1] = r[i]
      /\ Head(r) = r[1]
  <2> HIDE DEF r
  <2> QED
    BY <1>1, TailIs
<1>7. ASSUME NEW e \in ReadyIn(Range(r)) PROVE e \in Range(got') \cup ReadyIn(Range(rings'[c]))
  <2>1. PICK s \in Range(r) : s.st = "ready" /\ e = s.ev
    BY <1>7 DEF ReadyIn
  <2>2. PICK i \in DOMAIN r : r[i] = s
    BY <2>1 DEF Range
  <2>3. CASE i = 1
    BY <1>5, <1>6, <2>1, <2>2, <2>3
  <2>4. CASE i # 1
    <3>1. s \in Range(Tail(r))
      BY <1>6, <2>2, <2>4 DEF Range
    <3> QED
      BY <1>2, <2>1, <3>1 DEF ReadyIn
  <2> QED
    BY <2>3, <2>4
<1> HIDE DEF r
<1>8. ASSUME NEW d \in Cpus, NEW e \in ReadyIn(Range(rings[d])) PROVE e \in Submitted'
  BY <1>2, <1>4, <1>7, <1>8 DEF r
<1>9. Submitted \subseteq Submitted'
  BY <1>4, <1>5, <1>8, SubmittedIs
<1> QED
  BY <1>3, <1>9

LEMMA AgentReadSlot ==
  ASSUME BInv, SlotInv, NEW c \in Cpus, AgentRead(c)
  PROVE  SlotInv'
<1> DEFINE r == rings[c]
<1>1. Fixed /\ calls' = calls /\ th' = th /\ Threads' = Threads
  BY AgentReadDoes DEF SameApp, Fixed, Threads
<1>2. RingsOK /\ r # <<>> /\ r \in Seq(Range(r)) /\ Head(r).st # "busy"
  BY DEF BInv, Shapes, RingsOK, AgentRead
<1>3. /\ rings'[c] = Tail(r) /\ \A d \in Cpus : d # c => rings'[d] = rings[d]
  BY <1>2 DEF RingsOK, AgentRead
<1>4. /\ Range(Tail(r)) \subseteq Range(r)
      /\ \A i \in DOMAIN r : i # 1 => i - 1 \in DOMAIN Tail(r) /\ Tail(r)[i - 1] = r[i]
      /\ Head(r) = r[1]
  <2> HIDE DEF r
  <2> QED
    BY <1>2, TailIs, RangeTail
<1>5. \A d \in Cpus : Range(rings'[d]) \subseteq Range(rings[d])
  BY <1>3, <1>4
<1>6. ASSUME NEW u \in Threads, th[u].pc \in Reserved
      PROVE  \E i \in DOMAIN rings'[th[u].cpu] : rings'[th[u].cpu][i].id = <<th[u].sys, th[u].idx>>
  <2> DEFINE d == th[u].cpu  k == Slot(u)
  <2>1. d \in Cpus /\ k \in DOMAIN rings[d] /\ rings[d][k].id = <<th[u].sys, th[u].idx>> /\ rings[d][k].st = "busy"
    BY <1>6, SlotIs
  <2> HIDE DEF k
  <2>2. CASE d # c
    BY <1>3, <2>1, <2>2
  <2>3. CASE d = c
    <3>1. k # 1
      BY <1>2, <1>4, <2>1, <2>3
    <3>2. k - 1 \in DOMAIN rings'[d] /\ rings'[d][k - 1].id = <<th[u].sys, th[u].idx>>
      BY <1>3, <1>4, <2>1, <2>3, <3>1
    <3> QED
      BY <3>2
  <2> QED
    BY <2>2, <2>3
<1> QED
  <2>1. OneCall'
    BY <1>1 DEF SlotInv, OneCall
  <2>2. \A d \in Cpus : \A s \in Range(rings'[d]) : s.id[1] \in 1 .. calls'
    BY <1>1, <1>5 DEF SlotInv
  <2>3. \A u \in Threads', d \in Cpus : \A s \in Range(rings'[d]) : SlotOf(u, s)'
    <3>1. \A u, s : SlotOf(u, s) => SlotOf(u, s)'
      BY <1>1 DEF SlotOf
    <3>2. \A u \in Threads, d \in Cpus : \A s \in Range(rings'[d]) : SlotOf(u, s)
      BY <1>5 DEF SlotInv
    <3> QED
      BY <1>1, <3>1, <3>2
  <2>4. \A u \in Threads' : HasSlot(u)'
    BY <1>1, <1>6 DEF HasSlot
  <2> QED
    BY <2>1, <2>2, <2>3, <2>4 DEF SlotInv

(* t goes on in its call and neither takes nor gives up a slot *)
LEMMA SlotKept ==
  ASSUME BInv, SlotInv, Fixed, SameOut, calls' = calls, NEW t \in Threads, NEW F, Same(t, F),
         "sys" \notin F, "idx" \notin F, "cpu" \notin F \/ th[t].pc \notin Reserved,
         th'[t].pc \in Reserved <=> th[t].pc \in Reserved, th'[t].pc = "user" <=> th[t].pc = "user"
  PROVE  SlotInv'
<1>1. th'[t].sys = th[t].sys /\ th'[t].idx = th[t].idx /\ (th'[t].cpu = th[t].cpu \/ th[t].pc \notin Reserved) /\ Only(t)
  BY DEF Same, Fields
<1> QED
  BY <1>1, SlotQuiet DEF SlotMoves, SameOut

LEMMA SlotBack ==
  ASSUME BInv, SlotInv, Fixed, SameOut, calls' = calls, NEW t \in Threads, Back(t)
  PROVE  SlotInv'
<1>1. Only(t) /\ th'[t].sys = 0 /\ th'[t].pc = "user"
  BY DEF Back, Blank
<1> QED
  BY <1>1, SlotQuiet DEF SlotMoves, SameOut

LEMMA SlotStart ==
  ASSUME BInv, SlotInv, Fixed, SameOut, calls' = calls + 1, NEW t \in Threads, Only(t),
         th'[t].sys = calls + 1, th'[t].pc \in {"gen", "kernel"}
  PROVE  SlotInv'
BY SlotQuiet DEF SlotMoves, SameOut, Reserved

LEMMA ProbeSlot ==
  ASSUME BInv, SlotInv, NEW t \in Threads, ProbeStep(t)
  PROVE  SlotInv'
<1>0. Shapes
  BY DEF BInv
<1>1. CASE LookupGeneration(t) \/ InitGeneration(t)
  <2>1. /\ th[t].pc \in {"gen", "initgen"} /\ Fixed /\ SameApp /\ SameOut
    BY <1>0, <1>1, GenerationDoes
  <2>2. CASE Same(t, {"pc"}) /\ th'[t].pc = "initgen"
    BY <2>1, <2>2, SlotKept DEF Reserved, SameApp
  <2>3. CASE \E g : Generated(t, g)
    <3>1. Same(t, {"pc", "gen", "ctx"}) /\ th'[t].pc \in {"allowed", "tuple", "kernel", "emit"}
      BY <1>0, <2>1, <2>3, GeneratedDoes
    <3> DEFINE F == {"pc", "gen", "ctx"}
    <3>2. "sys" \notin F /\ "idx" \notin F /\ "cpu" \notin F
      OBVIOUS
    <3> HIDE DEF F
    <3> QED
      BY <2>1, <3>1, <3>2, SlotKept DEF Reserved, SameApp, F
  <2> QED
    BY <1>0, <1>1, <2>2, <2>3, GenerationDoes
<1>2. CASE Filter(t)
  <2> DEFINE F == {"pc", "ctx", "touched", "plan", "lossy", "unread"}
  <2>1. /\ Same(t, F) /\ th[t].pc = "allowed" /\ Fixed /\ SameApp /\ SameOut
        /\ th'[t].pc \in {"kernel", "emit", "untuple"}
    BY <1>0, <1>2, FilterDoes
  <2>2. "sys" \notin F /\ "idx" \notin F /\ "cpu" \notin F
    OBVIOUS
  <2> HIDE DEF F
  <2> QED
    BY <2>1, <2>2, SlotKept DEF Reserved, SameApp
<1>3. CASE LearnTuple(t)
  <2> DEFINE F == {"pc", "plan", "ctx"}
  <2>1. th[t].pc = "tuple" /\ Fixed /\ SameApp /\ SameOut
    BY <1>0, <1>3, LearnTupleDoes
  <2>2. "sys" \notin F /\ "idx" \notin F /\ "cpu" \notin F
    OBVIOUS
  <2>3. Back(t) \/ (Same(t, F) /\ th'[t].pc = "emit")
    BY <1>0, <1>3, LearnTupleDoes
  <2> HIDE DEF F
  <2> QED
    BY <2>1, <2>2, <2>3, SlotKept, SlotBack DEF Reserved, SameApp
<1>4. CASE EmitData(t) \/ EmitControl(t)
  <2>1. /\ th[t].pc = "emit" /\ EmitStarts(t) /\ Fixed /\ calls' = calls
    BY <1>0, <1>4, EmitDoes DEF SameApp
  <2>2. CASE /\ Same(t, {"pc"}) /\ th'[t].pc = "seq"
             /\ rings' = [rings EXCEPT ![th[t].cpu] = Append(@, [st |-> "busy", id |-> <<th[t].sys, th[t].idx>>])]
    BY <2>1, <2>2, ReserveSlot
  <2>3. CASE /\ Same(t, NextChunkFields) /\ th'[t].pc = "emit" /\ th'[t].idx = th[t].idx + 1 /\ rings' = rings
    <3>1. th'[t].sys = th[t].sys /\ Only(t)
      BY <2>3 DEF Same, Fields, NextChunkFields
    <3> QED
      BY <2>1, <2>3, <3>1, SlotQuiet DEF SlotMoves, Reserved
  <2> QED
    BY <2>1, <2>2, <2>3 DEF EmitStarts
<1>5. CASE LookupSeq(t)
  <2> DEFINE F == {"pc", "seq"}
  <2>1. /\ Same(t, F) /\ th[t].pc = "seq" /\ th'[t].pc = "put" /\ Fixed /\ SameApp /\ SameOut
    BY <1>0, <1>5, LookupSeqDoes
  <2>2. "sys" \notin F /\ "idx" \notin F /\ "cpu" \notin F
    OBVIOUS
  <2> HIDE DEF F
  <2> QED
    BY <2>1, <2>2, SlotKept DEF Reserved, SameApp
<1>6. CASE UpdateSeq(t) \/ ResetSeq(t) \/ BumpGeneration(t) \/ DeleteTuple(t)
  <2> DEFINE F == {"pc"}
  <2>1. /\ Same(t, F) /\ Fixed /\ SameApp /\ SameOut
        /\ <<th[t].pc, th'[t].pc>> \in {<<"put", "copy">>, <<"reset", "kernel">>, <<"bump", "reset">>, <<"untuple", "bump">>}
    BY <1>0, <1>6, UpdateSeqDoes, ResetSeqDoes, BumpGenerationDoes, DeleteTupleDoes
  <2>2. "sys" \notin F /\ "idx" \notin F /\ "cpu" \notin F
    OBVIOUS
  <2>3. /\ th'[t].pc \in Reserved <=> th[t].pc \in Reserved
        /\ th'[t].pc = "user" <=> th[t].pc = "user"
    BY <2>1 DEF Reserved
  <2> HIDE DEF F
  <2> QED
    BY <2>1, <2>2, <2>3, SlotKept DEF SameApp
<1>7. CASE Copy(t)
  BY <1>7, CopySlot
<1>8. CASE EmitDone(t)
  <2> DEFINE F == {"pc"}
  <2>1. th[t].pc = "emit" /\ Fixed /\ SameApp /\ SameOut
    BY <1>0, <1>8, EmitDoneDoes
  <2>2. "sys" \notin F /\ "idx" \notin F /\ "cpu" \notin F
    OBVIOUS
  <2>3. Back(t) \/ (Same(t, F) /\ th'[t].pc \in {"kernel", "untuple"})
    BY <1>0, <1>8, EmitDoneDoes
  <2> HIDE DEF F
  <2> QED
    BY <2>1, <2>2, <2>3, SlotKept, SlotBack DEF Reserved, SameApp
<1> QED
  BY <1>1, <1>2, <1>3, <1>4, <1>5, <1>6, <1>7, <1>8 DEF ProbeStep

LEMMA KernelSlot ==
  ASSUME BInv, SlotInv, NEW t \in Threads, KernelStep(t)
  PROVE  SlotInv'
<1>0. Shapes
  BY DEF BInv
<1>1. ASSUME NEW n, WriteReturn(t, n) PROVE SlotInv'
  BY <1>0, <1>1, WriteReturnDoes, SlotBack
<1>2. CASE CloseReturn(t)
  BY <1>0, <1>2, CloseReturnDoes, SlotBack
<1>3. CASE AcceptFails(t)
  BY <1>0, <1>3, AcceptFailsDoes, SlotBack DEF SameApp
<1>4. ASSUME NEW fd, NEW dir, SslEnter(t, fd, dir) PROVE SlotInv'
  <2> DEFINE F == {"ssl", "sslDir", "touched"}
  <2>1. Same(t, F) /\ th[t].pc = "user" /\ Fixed /\ SameApp /\ SameOut
    BY <1>0, <1>4, SslEnterDoes
  <2>2. "sys" \notin F /\ "idx" \notin F /\ "cpu" \notin F /\ th'[t].pc = th[t].pc
    BY <2>1 DEF Same, Fields
  <2> HIDE DEF F
  <2> QED
    BY <2>1, <2>2, SlotKept DEF Reserved, SameApp
<1> QED
  BY <1>1, <1>2, <1>3, <1>4 DEF KernelStep

LEMMA AppSlot ==
  ASSUME BInv, SlotInv, NEW t \in Threads, NEW cpu \in Cpus, AppStep(t, cpu)
  PROVE  SlotInv'
<1>0. Shapes
  BY DEF BInv
<1>1. ASSUME NEW dir, NEW fd, NEW buf, NEW peek, EnterData(t, dir, fd, buf, peek, cpu) PROVE SlotInv'
  <2>1. Fixed /\ SameOut /\ Starts(t, dir, fd, cpu)
    BY <1>0, <1>1, EnterDataDoes
  <2>2. th'[t].pc = (IF cfg[dir] THEN "gen" ELSE "kernel")
    BY <1>0, <1>1, EnterDataDoes
  <2>3. Only(t)
    BY <1>0, <1>1, EnterDataDoes DEF Same
  <2> QED
    BY <2>1, <2>2, <2>3, SlotStart DEF Starts
<1>2. ASSUME NEW fd, EnterClose(t, fd, cpu) PROVE SlotInv'
  BY <1>0, <1>2, EnterCloseDoes, SlotStart DEF Starts, Same
<1>3. ASSUME NEW fd, NEW port, EnterConnect(t, fd, port, cpu) PROVE SlotInv'
  <2>1. Fixed /\ SameOut
    BY <1>0, <1>3, EnterConnectDoes
  <2>2. CASE th' = th /\ calls' = calls + 1 /\ th[t].pc = "user"
    <3>1. Only(t) /\ SlotMoves(t)
      BY <1>0, <2>2, ThreadDomain DEF Only, SlotMoves, Reserved
    <3> QED
      BY <2>1, <2>2, <3>1, SlotQuiet DEF SameOut
  <2>3. CASE Starts(t, "connect", fd, cpu) /\ Same(t, StartFields \cup {"conn"}) /\ th'[t].pc = "gen"
    BY <2>1, <2>3, SlotStart DEF Starts, Same
  <2> QED
    BY <1>0, <1>3, <2>2, <2>3, EnterConnectDoes
<1>4. CASE EnterBind(t, cpu) \/ EnterAccept(t, cpu)
  BY <1>0, <1>4, EnterListenerDoes, SlotStart DEF Starts, Same
<1>5. ASSUME NEW n, ReadReturn(t, n, cpu) PROVE SlotInv'
  <2> DEFINE F == {"pc", "cpu", "ret", "ctx", "gen", "plan"}
  <2>1. th[t].pc = "kernel" /\ Fixed /\ calls' = calls /\ SameOut
    BY <1>0, <1>5, ReadReturnDoes
  <2>2. "sys" \notin F /\ "idx" \notin F
    OBVIOUS
  <2>3. Back(t) \/ (Same(t, F) /\ th'[t].pc = "emit")
    BY <1>0, <1>5, ReadReturnDoes
  <2> HIDE DEF F
  <2> QED
    BY <2>1, <2>2, <2>3, SlotKept, SlotBack DEF Reserved
<1>6. ASSUME NEW fd, NEW port, AcceptReturn(t, fd, port, cpu) PROVE SlotInv'
  <2> DEFINE F == {"pc", "op", "fd", "cpu", "conn"}
  <2>1. th[t].pc = "kernel" /\ Fixed /\ calls' = calls /\ SameOut /\ Same(t, F) /\ th'[t].pc = "gen"
    BY <1>0, <1>6, AcceptReturnDoes
  <2>2. "sys" \notin F /\ "idx" \notin F
    OBVIOUS
  <2> HIDE DEF F
  <2> QED
    BY <2>1, <2>2, SlotKept DEF Reserved
<1>7. ASSUME NEW n, SslReturn(t, n, cpu) PROVE SlotInv'
  BY <1>0, <1>7, SslReturnDoes, SlotBack, SlotStart DEF SslStarts
<1> QED
  BY <1>1, <1>2, <1>3, <1>4, <1>5, <1>6, <1>7 DEF AppStep

LEMMA InitSlots ==
  ASSUME Init
  PROVE  SlotInv
<1>1. \A t \in Threads : th[t].pc = "user"
  BY InitShapes DEF Idle
<1>2. \A c \in Cpus : Range(rings[c]) = {}
  BY DEF Init, Range
<1> QED
  BY <1>1, <1>2 DEF SlotInv, OneCall, HasSlot, Reserved

LEMMA NextSlots ==
  ASSUME BInv, SlotInv, Next
  PROVE  SlotInv'
BY AppSlot, ProbeSlot, KernelSlot, AgentReadSlot DEF Next

LEMMA StutterSlots ==
  ASSUME SlotInv, UNCHANGED vars
  PROVE  SlotInv'
<1>1. th' = th /\ rings' = rings /\ calls' = calls /\ Threads' = Threads
  BY DEF vars, Threads
<1>2. OneCall'
  BY <1>1 DEF SlotInv, OneCall
<1>3. \A u, s : SlotOf(u, s) => SlotOf(u, s)'
  BY <1>1 DEF SlotOf
<1>4. \A u : HasSlot(u) => HasSlot(u)'
  BY <1>1 DEF HasSlot
<1> QED
  BY <1>1, <1>2, <1>3, <1>4 DEF SlotInv

-----------------------------------------------------------------------------
(* What is not captured shows *)

(* the bytes that the events of t's call are to hold *)
Want(t) == IF th[t].op = "read" THEN th[t].ret ELSE Total(th[t].buf.segs)
Planned(t) == th[t].op \in DataOps /\ (th[t].pc \in Emitting \/ (th[t].op = "write" /\ th[t].pc = "kernel"))

InEvents(sys, p) == \E e \in Submitted : e.sys = sys /\ e.from < p /\ p <= e.from + e.size
InPlan(plan, b) == \E i \in DOMAIN plan : plan[i].off < b /\ b <= plan[i].off + plan[i].size
Truncated(sys) == \E e \in Submitted : e.sys = sys /\ e.original > e.size

(* every byte is in an event or will be, or the loss shows *)
Accounted(t) ==
  \/ th[t].lossy \/ th[t].unread \/ Len(th[t].buf.segs) > MAX_IOVEC_SEGMENTS
  \/ Truncated(th[t].sys) \/ Flagged(th[t].plan)
  \/ \A b \in 1 .. Want(t) : InEvents(th[t].sys, th[t].base + b) \/ InPlan(th[t].plan, b)

LossThread(t) ==
  /\ Planned(t) => Accounted(t)
  /\ th[t].op = "read" /\ th[t].pc = "kernel" /\ th[t].ctx = 0 => th[t].lossy
  /\ th[t].pc \in {"gen", "initgen", "allowed", "kernel"} /\ th[t].op \notin {"ssl", "close"} => th[t].plan = <<>>

Shown(m) ==
  \/ Bytes(m) \subseteq Held(m)
  \/ m.lossy \/ m.skipped
  \/ \E e \in Submitted : e.sys = m.sys /\ e.original > e.size

LossInv == (\A m \in moved : Shown(m)) /\ \A t \in Threads : LossThread(t)

LEMMA ShownGrows ==
  ASSUME Submitted \subseteq Submitted', NEW m, Shown(m)
  PROVE  Shown(m)'
<1>1. Held(m) \subseteq Held(m)'
  BY DEF Held
<1> QED
  BY <1>1 DEF Shown, Bytes

AccountFields == {"lossy", "unread", "buf", "plan", "sys", "base", "op", "ret"}

LEMMA AccountedGrows ==
  ASSUME Submitted \subseteq Submitted', NEW t, \A k \in AccountFields : th'[t][k] = th[t][k], Accounted(t)
  PROVE  Accounted(t)'
<1>1. /\ th'[t].lossy = th[t].lossy /\ th'[t].buf = th[t].buf /\ th'[t].plan = th[t].plan /\ th'[t].sys = th[t].sys
      /\ th'[t].base = th[t].base /\ th'[t].op = th[t].op /\ th'[t].ret = th[t].ret
      /\ th'[t].unread = th[t].unread
  BY DEF AccountFields
<1>2. Want(t)' = Want(t)
  BY <1>1 DEF Want
<1>3. Truncated(th[t].sys) => Truncated(th[t].sys)'
  <2>1. SUFFICES ASSUME Truncated(th[t].sys) PROVE \E e \in Submitted' : e.sys = th'[t].sys /\ e.original > e.size
    BY DEF Truncated
  <2> QED
    BY <1>1, <2>1 DEF Truncated
<1>4. ASSUME NEW p, InEvents(th[t].sys, p) PROVE \E e \in Submitted' : e.sys = th'[t].sys /\ e.from < p /\ p <= e.from + e.size
  BY <1>1, <1>4 DEF InEvents
<1>5. ASSUME \A b \in 1 .. Want(t) : InEvents(th[t].sys, th[t].base + b) \/ InPlan(th[t].plan, b)
      PROVE  \A b \in 1 .. Want(t)' : InEvents(th[t].sys, th[t].base + b)' \/ InPlan(th[t].plan, b)'
  <2> SUFFICES ASSUME NEW b \in 1 .. Want(t) PROVE InEvents(th[t].sys, th[t].base + b)' \/ InPlan(th[t].plan, b)'
    BY <1>2
  <2>1. CASE InEvents(th[t].sys, th[t].base + b)
    BY <1>1, <1>4, <2>1 DEF InEvents
  <2>2. CASE InPlan(th[t].plan, b)
    BY <1>1, <2>2 DEF InPlan
  <2> QED
    BY <1>5, <2>1, <2>2
<1>6. Flagged(th[t].plan) => Flagged(th[t].plan)'
  BY <1>1 DEF Flagged
<1> QED
  BY <1>1, <1>3, <1>5, <1>6 DEF Accounted

LEMMA LossStep ==
  ASSUME BInv, LossInv, Fixed, NEW t \in Threads, Only(t), Submitted \subseteq Submitted', LossThread(t)',
         \A m \in moved' : m \in moved \/ Shown(m)'
  PROVE  LossInv'
<1>1. Threads' = Threads /\ \A u \in Threads : u # t => th'[u] = th[u]
  BY DEF Fixed, Threads, Only, BInv, Shapes
<1>2. ASSUME NEW u \in Threads, u # t PROVE LossThread(u)'
  <2>1. th'[u] = th[u] /\ LossThread(u)
    BY <1>1, <1>2 DEF LossInv
  <2>2. Planned(u)' => Planned(u)
    BY <2>1 DEF Planned
  <2>3. Accounted(u) => Accounted(u)'
    BY <2>1, AccountedGrows
  <2> QED
    BY <2>1, <2>2, <2>3 DEF LossThread
<1>3. ASSUME NEW m \in moved' PROVE Shown(m)'
  BY ShownGrows DEF LossInv
<1> QED
  BY <1>1, <1>2, <1>3 DEF LossInv

(* a plan just made accounts for all the bytes *)
LEMMA PlanAccounts ==
  ASSUME BInv, NEW t \in Threads, NEW total \in 0 .. Total(th[t].buf.segs),
         NEW plan, plan = DataEvents(th[t].buf, total)
  PROVE  /\ Len(th[t].buf.segs) > MAX_IOVEC_SEGMENTS \/ Flagged(plan) \/ \A b \in 1 .. total : InPlan(plan, b)
         /\ Within(plan, total)
<1> DEFINE buf == th[t].buf
<1>1. buf.segs \in Seq(Nat) /\ app \in Workloads /\ cfg \in app.configs /\ total \in 0 .. Total(buf.segs)
  BY DEF BInv, Typed
<1> HIDE DEF buf
<1>2. /\ Within(DataEvents(buf, total), total)
      /\ \/ Len(buf.segs) > MAX_IOVEC_SEGMENTS \/ Flagged(DataEvents(buf, total))
         \/ Covers(DataEvents(buf, total), total)
  BY <1>1, EventsCut
<1>3. plan = DataEvents(buf, total)
  BY DEF buf
<1> QED
  BY <1>2, <1>3 DEF buf, Covers, InPlan

(* the chunk that is copied is in the event *)
LEMMA CopyAccounts ==
  ASSUME BInv, SlotInv, NEW t \in Threads, th[t].pc = "copy", Accounted(t),
         \A k \in AccountFields \ {"plan", "lossy"} : th'[t][k] = th[t][k],
         th'[t].plan = Tail(th[t].plan), th'[t].lossy = th[t].lossy \/ th'[t].lossy = TRUE,
         th'[t].lossy \in BOOLEAN, th[t].lossy \in BOOLEAN,
         Submitted' = Submitted \cup {Event(t)}
  PROVE  Accounted(t)'
<1>1. /\ th'[t].buf = th[t].buf /\ th'[t].sys = th[t].sys /\ th'[t].unread = th[t].unread
      /\ th'[t].base = th[t].base /\ th'[t].op = th[t].op /\ th'[t].ret = th[t].ret
  BY DEF AccountFields
<1>2. Want(t)' = Want(t)
  BY <1>1 DEF Want
<1> DEFINE plan == th[t].plan  e == Event(t)
<1>3. /\ PlanOK(plan) /\ plan # <<>> /\ th[t].base \in Nat
  BY DEF BInv, Typed, Reserved
<1>4. /\ Len(plan) \in Nat \ {0} /\ DOMAIN plan = 1 .. Len(plan) /\ DOMAIN Tail(plan) = 1 .. Len(plan) - 1
      /\ \A i \in 1 .. Len(plan) - 1 : Tail(plan)[i] = plan[i + 1]
      /\ Head(plan) = plan[1] /\ Head(plan) \in Chunks
  BY <1>3, TailPlan
<1>5. /\ e \in Submitted' /\ Submitted \subseteq Submitted'
      /\ e.sys = th[t].sys /\ e.from = th[t].base + plan[1].off /\ e.size = plan[1].size /\ e.original = plan[1].original
      /\ plan[1].off \in Nat /\ plan[1].size \in Nat
  <2>1. /\ e.sys = th[t].sys /\ e.from = th[t].base + Head(plan).off /\ e.size = Head(plan).size /\ e.original = Head(plan).original
    BY DEF Event
  <2> QED
    BY <1>4, <2>1 DEF Chunks
<1> HIDE DEF e, plan
<1>6. \A i \in DOMAIN plan : i = 1 \/ (i - 1 \in DOMAIN Tail(plan) /\ Tail(plan)[i - 1] = plan[i])
  <2> SUFFICES ASSUME NEW i \in 1 .. Len(plan), i # 1 PROVE i - 1 \in DOMAIN Tail(plan) /\ Tail(plan)[i - 1] = plan[i]
    BY <1>4
  <2>1. i - 1 \in 1 .. Len(plan) - 1 /\ (i - 1) + 1 = i
    BY <1>4
  <2> QED
    BY <1>4, <2>1
<1>7. th'[t].plan = Tail(plan)
  BY DEF plan
<1>8. Truncated(th[t].sys) => Truncated(th[t].sys)'
  <2>1. SUFFICES ASSUME Truncated(th[t].sys) PROVE \E x \in Submitted' : x.sys = th'[t].sys /\ x.original > x.size
    BY DEF Truncated
  <2> QED
    BY <1>1, <1>5, <2>1 DEF Truncated
<1>9. ASSUME Flagged(plan) PROVE Truncated(th[t].sys)' \/ Flagged(th[t].plan)'
  <2>1. PICK i \in DOMAIN plan : plan[i].original > plan[i].size
    BY <1>9 DEF Flagged
  <2>2. CASE i = 1
    <3>1. e \in Submitted' /\ e.sys = th'[t].sys /\ e.original > e.size
      BY <1>1, <1>5, <2>1, <2>2
    <3> QED
      BY <3>1 DEF Truncated
  <2>3. CASE i # 1
    BY <1>6, <1>7, <2>1, <2>3 DEF Flagged
  <2> QED
    BY <2>2, <2>3
<1>10. ASSUME NEW b \in 1 .. Want(t), InEvents(th[t].sys, th[t].base + b) \/ InPlan(plan, b)
       PROVE  InEvents(th[t].sys, th[t].base + b)' \/ InPlan(th[t].plan, b)'
  <2>1. CASE InEvents(th[t].sys, th[t].base + b)
    BY <1>1, <1>5, <2>1 DEF InEvents
  <2>2. CASE InPlan(plan, b)
    <3>1. PICK i \in DOMAIN plan : plan[i].off < b /\ b <= plan[i].off + plan[i].size
      BY <2>2 DEF InPlan
    <3>2. CASE i = 1
      <4> DEFINE base == th[t].base  off == plan[1].off  size == plan[1].size
      <4>1. base \in Nat /\ off \in Nat /\ size \in Nat /\ b \in Int /\ off < b /\ b <= off + size
        BY <1>3, <1>5, <3>1, <3>2
      <4> HIDE DEF base, off, size
      <4>2. base + off < base + b /\ base + b <= (base + off) + size
        BY <4>1
      <4>3. e.from < base + b /\ base + b <= e.from + e.size
        BY <1>5, <4>2 DEF base, off, size
      <4> QED
        BY <1>1, <1>5, <4>3 DEF InEvents, base
    <3>3. CASE i # 1
      <4>1. InPlan(Tail(plan), b)
        BY <1>6, <3>1, <3>3 DEF InPlan
      <4> QED
        BY <1>7, <4>1 DEF InPlan
    <3> QED
      BY <3>2, <3>3
  <2> QED
    BY <1>10, <2>1, <2>2
<1>11. CASE th[t].lossy \/ th[t].unread \/ Len(th[t].buf.segs) > MAX_IOVEC_SEGMENTS
  BY <1>1, <1>11 DEF Accounted
<1>12. CASE Truncated(th[t].sys) \/ Flagged(plan)
  BY <1>8, <1>9, <1>12 DEF Accounted
<1>13. CASE \A b \in 1 .. Want(t) : InEvents(th[t].sys, th[t].base + b) \/ InPlan(plan, b)
  <2>1. \A b \in 1 .. Want(t)' : InEvents(th[t].sys, th[t].base + b)' \/ InPlan(th[t].plan, b)'
    BY <1>2, <1>10, <1>13
  <2> QED
    BY <2>1 DEF Accounted
<1> QED
  BY <1>11, <1>12, <1>13 DEF Accounted, plan

(* a call that is over, its plan done *)
LEMMA TransferShows ==
  ASSUME BInv, NEW t \in Threads, Accounted(t), th[t].plan = <<>>, Submitted' = Submitted,
         NEW len \in Nat, len <= Want(t), Want(t) \in Nat, Transfer(t, len, th[t].lossy),
         NEW m \in moved', m \notin moved
  PROVE  Shown(m)'
<1>1. /\ m.sys = th[t].sys /\ m.from = th[t].base /\ m.len = len /\ m.lossy = th[t].lossy
      /\ m.skipped = (th[t].unread \/ Len(th[t].buf.segs) > MAX_IOVEC_SEGMENTS)
  BY DEF Transfer
<1>2. CASE th[t].lossy \/ th[t].unread \/ Len(th[t].buf.segs) > MAX_IOVEC_SEGMENTS
  BY <1>1, <1>2 DEF Shown
<1>3. CASE Truncated(th[t].sys)
  BY <1>1, <1>3 DEF Shown, Truncated
<1>4. CASE \A b \in 1 .. Want(t) : InEvents(th[t].sys, th[t].base + b)
  <2>1. ASSUME NEW p \in m.from + 1 .. m.from + m.len PROVE \E e \in Submitted : e.sys = m.sys /\ p \in e.from + 1 .. e.from + e.size
    <3> DEFINE b == p - th[t].base
    <3>1. th[t].base \in Nat
      BY DEF BInv, Typed
    <3>2. b \in 1 .. Want(t) /\ th[t].base + b = p /\ p \in Int
      <4>1. p \in Int /\ th[t].base + 1 <= p /\ p <= th[t].base + len
        BY <1>1, <3>1
      <4> HIDE DEF b
      <4>2. b = p - th[t].base
        BY DEF b
      <4> QED
        BY <3>1, <4>1, <4>2
    <3> HIDE DEF b
    <3>3. PICK e \in Submitted : e.sys = th[t].sys /\ e.from < p /\ p <= e.from + e.size
      BY <1>4, <3>2 DEF InEvents
    <3>4. e.from \in Nat /\ e.size \in Nat
      BY DEF BInv, EventOK
    <3> QED
      BY <1>1, <3>2, <3>3, <3>4
  <2>2. Bytes(m) \subseteq Held(m)
    BY <2>1 DEF Bytes, Held
  <2>3. Bytes(m)' = Bytes(m) /\ Held(m)' = Held(m)
    BY DEF Bytes, Held
  <2> QED
    BY <2>2, <2>3 DEF Shown
<1>5. ~Flagged(th[t].plan) /\ \A b : ~InPlan(th[t].plan, b)
  BY DEF Flagged, InPlan
<1> QED
  BY <1>2, <1>3, <1>4, <1>5 DEF Accounted

(* the account of a thread that goes on, or has nothing to account for *)
LEMMA LossQuiet ==
  ASSUME BInv, LossInv, Fixed, SameOut, moved' = moved, NEW t \in Threads, Only(t), LossThread(t)'
  PROVE  LossInv'
BY OutStays, LossStep

LEMMA LossBack ==
  ASSUME BInv, LossInv, Fixed, SameOut, moved' = moved, NEW t \in Threads, Back(t)
  PROVE  LossInv'
<1>1. Only(t) /\ Blank(t)'
  BY DEF Back
<1>2. LossThread(t)'
  BY <1>1 DEF Blank, LossThread, Planned, DataOps
<1> QED
  BY <1>1, <1>2, LossQuiet

LEMMA LossDone ==
  ASSUME BInv, LossInv, Fixed, SameOut, NEW t \in Threads, Back(t), NEW len,
         Transfer(t, len, th[t].lossy), \A m \in moved' : m \in moved \/ Shown(m)'
  PROVE  LossInv'
<1>1. Only(t) /\ Blank(t)'
  BY DEF Back
<1>2. LossThread(t)'
  BY <1>1 DEF Blank, LossThread, Planned, DataOps
<1> QED
  BY <1>1, <1>2, LossStep, OutStays

LEMMA GenerationLoss ==
  ASSUME BInv, LossInv, NEW t \in Threads, LookupGeneration(t) \/ InitGeneration(t)
  PROVE  LossInv'
<1>0. Shapes /\ LossThread(t)
  BY DEF BInv, LossInv
<1>1. /\ th[t].pc \in {"gen", "initgen"} /\ Fixed /\ SameApp /\ SameOut /\ moved' = moved
  BY <1>0, GenerationDoes
<1>2. /\ Only(t) /\ th'[t].plan = th[t].plan /\ th'[t].op = th[t].op
      /\ th'[t].pc \in {"initgen", "allowed", "tuple", "kernel", "emit"}
      /\ th'[t].pc = "kernel" => th[t].op = "accept"
      /\ th'[t].pc = "emit" => th[t].op = "ssl"
  <2>1. CASE Same(t, {"pc"}) /\ th'[t].pc = "initgen"
    BY <2>1 DEF Same, Fields
  <2>2. CASE \E g : Generated(t, g)
    <3>1. /\ Same(t, {"pc", "gen", "ctx"})
          /\ \/ th'[t].pc = "allowed"
             \/ th'[t].pc = "tuple"
             \/ th'[t].pc = "kernel" /\ th[t].op = "accept"
             \/ th'[t].pc = "emit" /\ th[t].op = "ssl"
      BY <1>0, <1>1, <2>2, GeneratedDoes
    <3> QED
      BY <3>1 DEF Same, Fields
  <2> QED
    BY <1>0, <2>1, <2>2, GenerationDoes
<1>3. LossThread(t)'
  BY <1>0, <1>1, <1>2 DEF LossThread, Planned, DataOps, Emitting
<1> QED
  BY <1>1, <1>2, <1>3, LossQuiet

LEMMA FilterLoss ==
  ASSUME BInv, LossInv, NEW t \in Threads, Filter(t)
  PROVE  LossInv'
<1>0. Shapes /\ LossThread(t) /\ Typed(t)
  BY DEF BInv, LossInv
<1>1. /\ Same(t, {"pc", "ctx", "touched", "plan", "lossy", "unread"}) /\ th[t].pc = "allowed"
      /\ Fixed /\ SameOut /\ moved' = moved
  BY <1>0, FilterDoes
<1>2. /\ Only(t) /\ th'[t].op = th[t].op /\ th'[t].buf = th[t].buf /\ th'[t].base = th[t].base /\ th'[t].sys = th[t].sys
      /\ th'[t].ret = th[t].ret /\ th[t].gen # 0
  BY <1>0, <1>1 DEF Same, Fields, Typed
<1>3. CASE th'[t].pc = "emit" /\ th[t].op = "write" /\ th'[t].plan = DataEvents(th[t].buf, Total(th[t].buf.segs))
  <2> DEFINE n == Total(th[t].buf.segs)
  <2>1. n \in 0 .. Total(th[t].buf.segs)
    BY <1>0, TotalIs DEF Typed
  <2>2. Len(th[t].buf.segs) > MAX_IOVEC_SEGMENTS \/ Flagged(th'[t].plan) \/ \A b \in 1 .. n : InPlan(th'[t].plan, b)
    <3>1. th'[t].plan = DataEvents(th[t].buf, n)
      BY <1>3
    <3> HIDE DEF n
    <3> QED
      BY <2>1, <3>1, PlanAccounts
  <2>3. Want(t)' = n
    BY <1>2, <1>3 DEF Want
  <2> HIDE DEF n
  <2>4. Accounted(t)'
    <3>1. CASE Len(th[t].buf.segs) > MAX_IOVEC_SEGMENTS
      BY <1>2, <3>1 DEF Accounted
    <3>2. CASE Flagged(th'[t].plan)
      BY <3>2 DEF Accounted, Flagged
    <3>3. CASE \A b \in 1 .. n : InPlan(th'[t].plan, b)
      <4>1. \A b \in 1 .. Want(t)' : InPlan(th[t].plan, b)'
        BY <2>3, <3>3 DEF InPlan
      <4> QED
        BY <4>1 DEF Accounted
    <3> QED
      BY <2>2, <3>1, <3>2, <3>3
  <2>5. LossThread(t)'
    BY <1>2, <1>3, <2>4 DEF LossThread
  <2> QED
    BY <1>1, <1>2, <2>5, LossQuiet
<1>4. CASE /\ th'[t].pc = "kernel" /\ th'[t].ctx = th[t].gen /\ th[t].op = "read" /\ th'[t].plan = th[t].plan
  <2>1. LossThread(t)'
    BY <1>0, <1>1, <1>2, <1>4 DEF LossThread, Planned, DataOps, Emitting
  <2> QED
    BY <1>1, <1>2, <2>1, LossQuiet
<1>5. CASE th'[t].pc \in {"emit", "untuple"} /\ th[t].op = "close"
  <2>1. LossThread(t)'
    BY <1>2, <1>5 DEF LossThread, Planned, DataOps
  <2> QED
    BY <1>1, <1>2, <2>1, LossQuiet
<1>6. CASE /\ th'[t].pc = "kernel" /\ th[t].op \in {"read", "write"} /\ th'[t].plan = th[t].plan
           /\ th'[t].lossy = TRUE \/ (th[t].op = "write" /\ th'[t].unread = TRUE)
  <2>1. th'[t].lossy \/ (th[t].op = "write" /\ th'[t].unread)
    BY <1>6
  <2>2. LossThread(t)'
    BY <1>0, <1>1, <1>2, <1>6, <2>1 DEF LossThread, Accounted
  <2> QED
    BY <1>1, <1>2, <2>2, LossQuiet
<1> QED
  BY <1>0, <1>3, <1>4, <1>5, <1>6, FilterDoes

LEMMA LearnTupleLoss ==
  ASSUME BInv, LossInv, NEW t \in Threads, LearnTuple(t)
  PROVE  LossInv'
<1>0. Shapes /\ LossThread(t)
  BY DEF BInv, LossInv
<1>1. th[t].pc = "tuple" /\ Fixed /\ SameOut /\ moved' = moved
  BY <1>0, LearnTupleDoes
<1>2. CASE Back(t)
  BY <1>1, <1>2, LossBack
<1>3. CASE Same(t, {"pc", "plan", "ctx"}) /\ th'[t].pc = "emit" /\ th[t].op \in {"connect", "accepted"}
  <2>1. Only(t) /\ th'[t].op = th[t].op
    BY <1>3 DEF Same, Fields
  <2>2. LossThread(t)'
    BY <1>3, <2>1 DEF LossThread, Planned, DataOps
  <2> QED
    BY <1>1, <2>1, <2>2, LossQuiet
<1> QED
  BY <1>0, <1>2, <1>3, LearnTupleDoes

LEMMA EmitLoss ==
  ASSUME BInv, LossInv, NEW t \in Threads, EmitData(t) \/ EmitControl(t)
  PROVE  LossInv'
<1>0. Shapes /\ LossThread(t) /\ RingsOK
  BY DEF BInv, LossInv, Shapes
<1>1. th[t].pc = "emit" /\ EmitStarts(t) /\ Fixed /\ got' = got /\ discarded' = discarded /\ moved' = moved
  BY <1>0, EmitDoes
<1>2. CASE /\ Same(t, {"pc"}) /\ th'[t].pc = "seq"
           /\ rings' = [rings EXCEPT ![th[t].cpu] = Append(@, [st |-> "busy", id |-> <<th[t].sys, th[t].idx>>])]
  <2>1. th[t].cpu \in Cpus
    BY <1>0, <1>1 DEF Shapes, ThreadOK
  <2>2. Submitted' = Submitted
    BY <1>0, <1>1, <1>2, <2>1, ReserveStep
  <2>3. Only(t) /\ (\A k \in AccountFields : th'[t][k] = th[t][k]) /\ th'[t].op = th[t].op
    BY <1>2 DEF Same, Fields, AccountFields
  <2>4. Planned(t)' => Planned(t)
    BY <1>1, <1>2, <2>3 DEF Planned, Emitting
  <2>5. LossThread(t)'
    BY <1>0, <1>2, <2>2, <2>3, <2>4, AccountedGrows DEF LossThread
  <2> QED
    BY <1>1, <2>2, <2>3, <2>5, LossStep
<1>3. CASE Same(t, NextChunkFields) /\ th'[t].pc = "emit" /\ th'[t].lossy = TRUE /\ rings' = rings
  <2>1. Only(t) /\ th'[t].lossy
    BY <1>3 DEF Same
  <2>2. LossThread(t)'
    BY <1>3, <2>1 DEF LossThread, Accounted
  <2> QED
    BY <1>1, <1>3, <2>1, <2>2, LossQuiet DEF SameOut
<1> QED
  BY <1>1, <1>2, <1>3 DEF EmitStarts

LEMMA SeqLoss ==
  ASSUME BInv, LossInv, NEW t \in Threads,
         LookupSeq(t) \/ UpdateSeq(t) \/ ResetSeq(t) \/ BumpGeneration(t) \/ DeleteTuple(t)
  PROVE  LossInv'
<1>0. Shapes /\ LossThread(t) /\ ThreadOK(t)
  BY DEF BInv, LossInv, Shapes
<1>1. /\ Same(t, {"pc", "seq"}) /\ Fixed /\ SameOut /\ moved' = moved
      /\ <<th[t].pc, th'[t].pc>> \in
           {<<"seq", "put">>, <<"put", "copy">>, <<"reset", "kernel">>, <<"bump", "reset">>, <<"untuple", "bump">>}
  <2>1. Same(t, {"pc"}) => Same(t, {"pc", "seq"})
    BY DEF Same
  <2> QED
    BY <1>0, <2>1, LookupSeqDoes, UpdateSeqDoes, ResetSeqDoes, BumpGenerationDoes, DeleteTupleDoes
<1>2. Only(t) /\ (\A k \in AccountFields : th'[t][k] = th[t][k]) /\ th'[t].op = th[t].op /\ th'[t].plan = th[t].plan
  BY <1>1 DEF Same, Fields, AccountFields
<1>3. Submitted' = Submitted
  BY <1>1, OutStays
<1>4. CASE th[t].pc \in {"seq", "put"}
  <2>1. Planned(t)' => Planned(t)
    BY <1>1, <1>2, <1>4 DEF Planned, Emitting
  <2>2. LossThread(t)'
    BY <1>0, <1>1, <1>2, <1>3, <1>4, <2>1, AccountedGrows DEF LossThread
  <2> QED
    BY <1>1, <1>2, <2>2, LossQuiet
<1>5. CASE th[t].pc \in {"reset", "bump", "untuple"}
  <2>1. th[t].op = "close"
    BY <1>0, <1>5 DEF ThreadOK
  <2>2. LossThread(t)'
    BY <1>1, <1>2, <1>5, <2>1 DEF LossThread, Planned, DataOps
  <2> QED
    BY <1>1, <1>2, <2>2, LossQuiet
<1> QED
  BY <1>1, <1>4, <1>5

LEMMA CopyLoss ==
  ASSUME BInv, SlotInv, LossInv, NEW t \in Threads, Copy(t)
  PROVE  LossInv'
<1>0. Shapes /\ LossThread(t) /\ Typed(t)
  BY DEF BInv, LossInv
<1>1. /\ th[t].pc = "copy" /\ th[t].pc \in Reserved /\ th'[t].pc = "emit" /\ th'[t].plan = Tail(th[t].plan)
      /\ Fixed /\ got' = got /\ moved' = moved
  BY <1>0, CopyDoes DEF Reserved
<1>2. Only(t) /\ (\A k \in AccountFields \ {"plan", "lossy"} : th'[t][k] = th[t][k]) /\ th'[t].op = th[t].op
  <2>1. Same(t, NextChunkFields)
    BY <1>0, CopyDoes
  <2>2. AccountFields \ {"plan", "lossy"} \subseteq Fields \ NextChunkFields /\ "op" \in Fields \ NextChunkFields
    BY DEF Fields, AccountFields, NextChunkFields
  <2> QED
    BY <2>1, <2>2 DEF Same
<1>3. Planned(t)' => Planned(t)
  BY <1>1, <1>2 DEF Planned, Emitting
<1>4. CASE Fill(t, ReadySlot(t)) /\ th'[t].lossy = (th[t].lossy \/ FALSE)
  <2> DEFINE s == ReadySlot(t)
  <2>1. s.st = "ready" /\ s.ev = Event(t) /\ Fill(t, s)
    BY <1>4 DEF ReadySlot
  <2> HIDE DEF s
  <2>2. Submitted' = Submitted \cup {Event(t)}
    BY <1>1, <2>1, FillSubmits
  <2>3. th'[t].lossy = th[t].lossy /\ th'[t].lossy \in BOOLEAN /\ th[t].lossy \in BOOLEAN
    BY <1>0, <1>4 DEF Typed
  <2>4. Accounted(t) => Accounted(t)'
    BY <1>1, <1>2, <2>2, <2>3, CopyAccounts
  <2>5. LossThread(t)'
    BY <1>0, <1>1, <1>3, <2>4 DEF LossThread
  <2> QED
    BY <1>1, <1>2, <2>2, <2>5, LossStep
<1>5. CASE Fill(t, DiscardedSlot(t)) /\ th'[t].lossy = TRUE
  <2> DEFINE s == DiscardedSlot(t)
  <2>1. s.st # "ready" /\ Fill(t, s)
    BY <1>5 DEF DiscardedSlot
  <2> HIDE DEF s
  <2>2. Submitted' = Submitted
    BY <1>1, <2>1, FillSubmits
  <2>3. LossThread(t)'
    BY <1>1, <1>5 DEF LossThread, Accounted
  <2> QED
    BY <1>1, <1>2, <2>2, <2>3, LossStep
<1> QED
  BY <1>0, <1>4, <1>5, CopyDoes

(* the bytes a call was to move are counted *)
LEMMA WantTyped ==
  ASSUME BInv, NEW t \in Threads
  PROVE  Want(t) \in Nat /\ Total(th[t].buf.segs) \in Nat
BY TotalIs DEF BInv, Typed, Want

LEMMA EmitDoneLoss ==
  ASSUME BInv, LossInv, NEW t \in Threads, EmitDone(t)
  PROVE  LossInv'
<1>0. Shapes /\ LossThread(t) /\ Typed(t)
  BY DEF BInv, LossInv
<1>1. th[t].pc = "emit" /\ th[t].plan = <<>> /\ Fixed /\ SameOut
  BY <1>0, EmitDoneDoes
<1>2. Submitted' = Submitted
  BY <1>1, OutStays
<1>3. CASE th[t].op = "write" /\ Same(t, {"pc"}) /\ th'[t].pc = "kernel" /\ moved' = moved
  <2>1. Only(t) /\ (\A k \in AccountFields : th'[t][k] = th[t][k]) /\ th'[t].op = th[t].op /\ th'[t].plan = th[t].plan
    BY <1>3 DEF Same, Fields, AccountFields
  <2>2. Accounted(t)
    BY <1>0, <1>1, <1>3 DEF LossThread, Planned, DataOps, Emitting
  <2>3. Accounted(t)'
    BY <1>2, <2>1, <2>2, AccountedGrows
  <2>4. LossThread(t)'
    BY <1>1, <1>3, <2>1, <2>3 DEF LossThread
  <2> QED
    BY <1>1, <1>3, <2>1, <2>4, LossQuiet
<1>4. CASE th[t].op = "close" /\ Same(t, {"pc"}) /\ th'[t].pc = "untuple" /\ moved' = moved
  <2>1. Only(t) /\ th'[t].op = th[t].op
    BY <1>4 DEF Same, Fields
  <2>2. LossThread(t)'
    BY <1>4, <2>1 DEF LossThread, Planned, DataOps
  <2> QED
    BY <1>1, <1>4, <2>1, <2>2, LossQuiet
<1>5. CASE th[t].op = "read" /\ Back(t) /\ Transfer(t, th[t].ret, th[t].lossy)
  <2> DEFINE n == th[t].ret
  <2>1. Accounted(t)
    BY <1>0, <1>1, <1>5 DEF LossThread, Planned, DataOps, Emitting
  <2>2. Want(t) = n /\ Want(t) \in Nat /\ n \in Nat /\ n <= Want(t)
    BY <1>5, WantTyped DEF Want
  <2>3. Transfer(t, n, th[t].lossy)
    BY <1>5
  <2> HIDE DEF n
  <2>4. \A m \in moved' : m \in moved \/ Shown(m)'
    BY <1>1, <1>2, <2>1, <2>2, <2>3, TransferShows
  <2> QED
    BY <1>1, <1>5, <2>3, <2>4, LossDone
<1>6. CASE th[t].op \in {"connect", "accepted", "ssl"} /\ Back(t) /\ moved' = moved
  BY <1>1, <1>6, LossBack
<1> QED
  BY <1>0, <1>3, <1>4, <1>5, <1>6, EmitDoneDoes

LEMMA WriteReturnLoss ==
  ASSUME BInv, LossInv, NEW t \in Threads, NEW n \in 0 .. Total(th[t].buf.segs), WriteReturn(t, n)
  PROVE  LossInv'
<1>0. Shapes /\ LossThread(t) /\ Typed(t)
  BY DEF BInv, LossInv
<1>1. th[t].pc = "kernel" /\ th[t].op = "write" /\ Back(t) /\ Transfer(t, n, th[t].lossy) /\ Fixed /\ SameOut
  BY <1>0, WriteReturnDoes
<1>2. Submitted' = Submitted
  BY <1>1, OutStays
<1>3. Accounted(t) /\ th[t].plan = <<>>
  BY <1>0, <1>1 DEF LossThread, Planned, DataOps
<1>4. Want(t) \in Nat /\ n \in Nat /\ n <= Want(t)
  BY <1>1, WantTyped DEF Want
<1>5. \A m \in moved' : m \in moved \/ Shown(m)'
  BY <1>1, <1>2, <1>3, <1>4, TransferShows
<1> QED
  BY <1>1, <1>5, LossDone

LEMMA ReadReturnLoss ==
  ASSUME BInv, LossInv, NEW t \in Threads, NEW cpu, NEW n \in 0 .. Total(th[t].buf.segs), ReadReturn(t, n, cpu)
  PROVE  LossInv'
<1>0. Shapes /\ LossThread(t) /\ Typed(t)
  BY DEF BInv, LossInv
<1>1. th[t].pc = "kernel" /\ th[t].op = "read" /\ Fixed /\ SameOut
  BY <1>0, ReadReturnDoes
<1>2. CASE /\ Same(t, {"pc", "cpu", "ret", "ctx", "gen", "plan"}) /\ th'[t].pc = "emit" /\ th'[t].ret = n
           /\ th'[t].plan = DataEvents(th[t].buf, n) /\ moved' = moved
  <2>1. Only(t) /\ th'[t].op = th[t].op /\ th'[t].buf = th[t].buf
    BY <1>2 DEF Same, Fields
  <2>2. Len(th[t].buf.segs) > MAX_IOVEC_SEGMENTS \/ Flagged(th'[t].plan) \/ \A b \in 1 .. n : InPlan(th'[t].plan, b)
    BY <1>2, PlanAccounts
  <2>3. Want(t)' = n
    BY <1>1, <1>2, <2>1 DEF Want
  <2>4. Accounted(t)'
    <3>1. CASE Len(th[t].buf.segs) > MAX_IOVEC_SEGMENTS
      BY <2>1, <3>1 DEF Accounted
    <3>2. CASE Flagged(th'[t].plan)
      BY <3>2 DEF Accounted, Flagged
    <3>3. CASE \A b \in 1 .. n : InPlan(th'[t].plan, b)
      <4>1. \A b \in 1 .. Want(t)' : InPlan(th[t].plan, b)'
        BY <2>3, <3>3 DEF InPlan
      <4> QED
        BY <4>1 DEF Accounted
    <3> QED
      BY <2>2, <3>1, <3>2, <3>3
  <2>5. LossThread(t)'
    BY <1>2, <2>4 DEF LossThread
  <2> QED
    BY <1>1, <1>2, <2>1, <2>5, LossQuiet
<1>3. CASE (n = 0 \/ th[t].ctx = 0) /\ Back(t) /\ Transfer(t, n, th[t].lossy)
  <2>1. ASSUME NEW m \in moved', m \notin moved PROVE Shown(m)'
    <3>1. m.from = th[t].base /\ m.len = n /\ m.lossy = th[t].lossy
      BY <1>3, <2>1 DEF Transfer
    <3>2. CASE n = 0
      <4>1. th[t].base \in Nat /\ th[t].base + 1 .. th[t].base + 0 = {}
        BY <1>0 DEF Typed
      <4>2. Bytes(m)' = {}
        BY <3>1, <3>2, <4>1 DEF Bytes
      <4> QED
        BY <4>2 DEF Shown
    <3>3. CASE th[t].ctx = 0
      BY <1>0, <1>1, <3>1, <3>3 DEF Shown, LossThread
    <3> QED
      BY <1>3, <3>2, <3>3
  <2> QED
    BY <1>1, <1>3, <2>1, LossDone
<1> QED
  BY <1>0, <1>2, <1>3, ReadReturnDoes

(* a thread that enters a call has nothing planned *)
LEMMA LossStart ==
  ASSUME BInv, LossInv, Fixed, SameOut, moved' = moved, NEW t \in Threads, th[t].pc = "user", Only(t),
         th'[t].plan = th[t].plan, th'[t].pc = "gen" \/ (th'[t].pc = "kernel" /\ th'[t].lossy)
  PROVE  LossInv'
<1>1. th[t].plan = <<>>
  BY DEF BInv, Typed, Blank
<1>2. LossThread(t)'
  BY <1>1 DEF LossThread, Planned, Accounted, Emitting
<1> QED
  BY <1>2, LossQuiet

LEMMA EnterLoss ==
  ASSUME BInv, LossInv, NEW t \in Threads, NEW cpu,
         \/ \E dir \in {"read", "write"}, fd \in Fds, buf \in Buffers, peek \in BOOLEAN :
              EnterData(t, dir, fd, buf, peek, cpu)
         \/ \E fd \in Fds : EnterClose(t, fd, cpu)
         \/ \E fd \in Fds, port \in Ports \cup {NoPort} : EnterConnect(t, fd, port, cpu)
         \/ EnterBind(t, cpu) \/ EnterAccept(t, cpu)
  PROVE  LossInv'
<1>0. Shapes
  BY DEF BInv
<1>1. ASSUME NEW dir \in {"read", "write"}, NEW fd, NEW buf, NEW peek, EnterData(t, dir, fd, buf, peek, cpu) PROVE LossInv'
  <2>1. Starts(t, dir, fd, cpu) /\ Fixed /\ SameOut /\ moved' = moved
    BY <1>0, <1>1, EnterDataDoes
  <2>2. th'[t].pc = (IF cfg[dir] THEN "gen" ELSE "kernel") /\ th'[t].lossy = ~cfg[dir]
    BY <1>0, <1>1, EnterDataDoes
  <2>3. Same(t, StartFields \cup {"lossy", "dir", "buf", "peek", "conn", "base"})
    BY <1>0, <1>1, EnterDataDoes
  <2>4. Only(t) /\ th'[t].plan = th[t].plan
    BY <2>3 DEF Same, Fields, StartFields
  <2>5. th'[t].pc = "gen" \/ (th'[t].pc = "kernel" /\ th'[t].lossy)
    BY <2>2
  <2> QED
    BY <2>1, <2>4, <2>5, LossStart DEF Starts
<1>2. ASSUME NEW fd, EnterClose(t, fd, cpu) PROVE LossInv'
  <2>1. /\ Starts(t, "close", fd, cpu) /\ Fixed /\ SameOut /\ moved' = moved /\ th'[t].pc = "gen"
        /\ Same(t, StartFields \cup {"conn"})
    BY <1>0, <1>2, EnterCloseDoes
  <2>2. Only(t) /\ th'[t].plan = th[t].plan
    BY <2>1 DEF Same, Fields, StartFields
  <2> QED
    BY <2>1, <2>2, LossStart DEF Starts
<1>3. ASSUME NEW fd, NEW port, EnterConnect(t, fd, port, cpu) PROVE LossInv'
  <2>1. Fixed /\ SameOut /\ moved' = moved
    BY <1>0, <1>3, EnterConnectDoes
  <2>2. CASE th' = th /\ th[t].pc = "user"
    <3>1. Only(t)
      BY <1>0, <2>2, ThreadDomain DEF Only
    <3>2. LossThread(t)'
      <4>1. th[t].op = "none" /\ th[t].pc = "user"
        BY <2>2 DEF BInv, Typed, Blank
      <4> QED
        BY <2>2, <4>1 DEF LossThread, Planned, DataOps
    <3> QED
      BY <2>1, <3>1, <3>2, LossQuiet
  <2>3. CASE Starts(t, "connect", fd, cpu) /\ Same(t, StartFields \cup {"conn"}) /\ th'[t].pc = "gen"
    <3>1. Only(t) /\ th'[t].plan = th[t].plan
      BY <2>3 DEF Same, Fields, StartFields
    <3> QED
      BY <2>1, <2>3, <3>1, LossStart DEF Starts
  <2> QED
    BY <1>0, <1>3, <2>2, <2>3, EnterConnectDoes
<1>4. CASE EnterBind(t, cpu) \/ EnterAccept(t, cpu)
  <2>1. /\ Fixed /\ SameOut /\ moved' = moved /\ th'[t].pc = "gen" /\ Same(t, StartFields)
        /\ \E op \in {"bind", "accept"} : Starts(t, op, Listener, cpu)
    BY <1>0, <1>4, EnterListenerDoes
  <2>2. Only(t) /\ th'[t].plan = th[t].plan
    BY <2>1 DEF Same, Fields, StartFields
  <2> QED
    BY <2>1, <2>2, LossStart DEF Starts
<1> QED
  BY <1>1, <1>2, <1>3, <1>4

LEMMA SslLoss ==
  ASSUME BInv, LossInv, NEW t \in Threads,
         \/ \E n, cpu : SslReturn(t, n, cpu)
         \/ \E fd, dir : SslEnter(t, fd, dir)
  PROVE  LossInv'
<1>0. Shapes
  BY DEF BInv
<1>1. ASSUME NEW n, NEW cpu, SslReturn(t, n, cpu) PROVE LossInv'
  <2>1. Fixed /\ SameOut /\ moved' = moved
    BY <1>0, <1>1, SslReturnDoes
  <2>2. CASE Back(t)
    BY <2>1, <2>2, LossBack
  <2>3. CASE SslStarts(t, n, cpu)
    <3>1. Only(t) /\ th'[t].op = "ssl"
      BY <2>3 DEF SslStarts
    <3>2. LossThread(t)'
      BY <3>1 DEF LossThread, Planned, DataOps
    <3> QED
      BY <2>1, <3>1, <3>2, LossQuiet
  <2> QED
    BY <1>0, <1>1, <2>2, <2>3, SslReturnDoes
<1>2. ASSUME NEW fd, NEW dir, SslEnter(t, fd, dir) PROVE LossInv'
  <2>1. /\ Fixed /\ SameOut /\ moved' = moved /\ Same(t, {"ssl", "sslDir", "touched"}) /\ th[t].pc = "user"
    BY <1>0, <1>2, SslEnterDoes
  <2>2. Only(t) /\ th'[t].pc = "user" /\ th'[t].op = "none"
    BY <2>1 DEF Same, Fields, BInv, Typed, Blank
  <2>3. LossThread(t)'
    BY <2>2 DEF LossThread, Planned, DataOps
  <2> QED
    BY <2>1, <2>2, <2>3, LossQuiet
<1> QED
  BY <1>1, <1>2

LEMMA AcceptLoss ==
  ASSUME BInv, LossInv, NEW t \in Threads,
         CloseReturn(t) \/ AcceptFails(t) \/ \E fd, port, cpu : AcceptReturn(t, fd, port, cpu)
  PROVE  LossInv'
<1>0. Shapes /\ LossThread(t)
  BY DEF BInv, LossInv
<1>1. CASE CloseReturn(t) \/ AcceptFails(t)
  BY <1>0, <1>1, CloseReturnDoes, AcceptFailsDoes, LossBack
<1>2. ASSUME NEW fd, NEW port, NEW cpu, AcceptReturn(t, fd, port, cpu) PROVE LossInv'
  <2>1. /\ th[t].pc = "kernel" /\ th[t].op = "accept" /\ Same(t, {"pc", "op", "fd", "cpu", "conn"})
        /\ th'[t].pc = "gen" /\ th'[t].op = "accepted" /\ Fixed /\ SameOut /\ moved' = moved
    BY <1>0, <1>2, AcceptReturnDoes
  <2>2. Only(t) /\ th'[t].plan = <<>>
    BY <1>0, <2>1 DEF Same, Fields, LossThread
  <2>3. LossThread(t)'
    BY <2>1, <2>2 DEF LossThread, Planned, DataOps
  <2> QED
    BY <2>1, <2>2, <2>3, LossQuiet
<1> QED
  BY <1>1, <1>2

LEMMA AgentReadLoss ==
  ASSUME BInv, LossInv, NEW c \in Cpus, AgentRead(c)
  PROVE  LossInv'
<1>1. Fixed /\ th' = th /\ moved' = moved
  BY AgentReadDoes
<1>2. PICK t \in Threads : TRUE
  BY WorkloadsAssumption DEF BInv, IsWorkload, Threads
<1>3. Only(t) /\ LossThread(t) /\ \A k \in AccountFields : th'[t][k] = th[t][k]
  BY <1>1, ThreadDomain DEF Only, BInv, LossInv
<1>4. Submitted' = Submitted
  BY ReadSubmits
<1>5. LossThread(t)'
  <2>1. Accounted(t) => Accounted(t)'
    BY <1>3, <1>4, AccountedGrows
  <2> QED
    BY <1>1, <1>3, <2>1 DEF LossThread, Planned
<1> QED
  BY <1>1, <1>3, <1>4, <1>5, LossStep

LEMMA InitLoss ==
  ASSUME Init
  PROVE  LossInv
<1>1. \A t \in Threads : th[t].pc = "user" /\ th[t].op = "none"
  BY InitShapes DEF Idle
<1> QED
  BY <1>1 DEF Init, LossInv, LossThread, Planned, DataOps

LEMMA NextLoss ==
  ASSUME BInv, SlotInv, LossInv, Next
  PROVE  LossInv'
<1>1. ASSUME NEW t \in Threads, NEW cpu \in Cpus, AppStep(t, cpu) PROVE LossInv'
  BY <1>1, EnterLoss, ReadReturnLoss, AcceptLoss, SslLoss DEF AppStep
<1>2. ASSUME NEW t \in Threads, ProbeStep(t) PROVE LossInv'
  BY <1>2, GenerationLoss, FilterLoss, LearnTupleLoss, EmitLoss, SeqLoss, CopyLoss, EmitDoneLoss DEF ProbeStep
<1>3. ASSUME NEW t \in Threads, KernelStep(t) PROVE LossInv'
  BY <1>3, WriteReturnLoss, AcceptLoss, SslLoss DEF KernelStep
<1> QED
  BY <1>1, <1>2, <1>3, AgentReadLoss DEF Next

LEMMA StutterLoss ==
  ASSUME LossInv, UNCHANGED vars
  PROVE  LossInv'
<1>1. Submitted' = Submitted /\ Threads' = Threads /\ th' = th /\ moved' = moved
  BY DEF vars, Submitted, Ready, Threads
<1>2. ASSUME NEW m \in moved PROVE Shown(m)'
  BY <1>1, ShownGrows DEF LossInv
<1>3. ASSUME NEW t \in Threads PROVE LossThread(t)'
  <2>1. Accounted(t) => Accounted(t)'
    BY <1>1, AccountedGrows
  <2> QED
    BY <1>1, <2>1 DEF LossInv, LossThread, Planned
<1> QED
  BY <1>1, <1>2, <1>3 DEF LossInv

(* Whatever the application does and however its calls overlap, the bytes  *)
(* of a finished transfer are in events, or that they are not shows.       *)
THEOREM LossShows == Spec => []LossIsExplicit
<1>1. Init => BInv /\ SlotInv /\ LossInv
  BY InitTyped, InitSlots, InitLoss
<1>2. BInv /\ SlotInv /\ LossInv /\ [Next]_vars => (BInv /\ SlotInv /\ LossInv)'
  BY NextTyped, NextSlots, NextLoss, StutterTyped, StutterSlots, StutterLoss
<1>3. LossInv => LossIsExplicit
  BY DEF LossInv, LossIsExplicit, Shown
<1> QED
  BY <1>1, <1>2, <1>3, PTL DEF Spec

-----------------------------------------------------------------------------
(* Nothing is captured twice *)

Plain == {e \in Submitted : e.type = "data" /\ ~e.ssl}
Moving(t) == th[t].op \in DataOps
Landed(t) == th[t].op = "read" /\ th[t].pc \in Emitting

(* a byte that a finished call neither took from the stream nor put into it *)
Excused(sys, b) == \E m \in moved : m.sys = sys /\ b \notin Consumed(m)
(* position x of the stream is past all other bytes of an event *)
Gone(e, x) == \A b \in Span(e) : Excused(e.sys, b) \/ b <= x

(* a connection has one descriptor, and one thread that moves its data *)
Movers ==
  /\ \A t, u \in Threads : Moving(t) /\ Moving(u) /\ th[t].conn = th[u].conn => t = u
  /\ \A t \in Threads, f \in Fds : Moving(t) /\ conns[f].id = th[t].conn => f = th[t].fd
  /\ \A f, g \in Fds : conns[f].id = conns[g].id /\ conns[f].id # 0 => f = g

(* the call's buffer lies where the stream stands, and its plan within it *)
Position(t) ==
  /\ th[t].conn \in 1 .. Len(opened) /\ th[t].dir = th[t].op
  /\ conns[th[t].fd].id = th[t].conn =>
       conns[th[t].fd][th[t].dir] = IF Landed(t) /\ ~th[t].peek THEN th[t].base + th[t].ret ELSE th[t].base
  /\ Planned(t) => Within(th[t].plan, Want(t))

(* what an event holds of the call it is of, and of an earlier one *)
OfCall(t, e) ==
  /\ Planned(t) /\ e.conn = th[t].conn /\ e.dir = th[t].dir /\ th[t].base <= e.from
  /\ e.from + e.size <= th[t].base + Want(t)
  /\ \A i \in DOMAIN th[t].plan : e.from + e.size <= th[t].base + th[t].plan[i].off
Before(t, e) == e.conn = th[t].conn /\ e.dir = th[t].dir => Gone(e, th[t].base)
Beside(t, e) == IF e.sys = th[t].sys THEN OfCall(t, e) ELSE Before(t, e)

(* what it holds has been moved, or is being *)
Past(f, e) ==
  conns[f].id = e.conn =>
    \/ Gone(e, conns[f][e.dir])
    \/ \E t \in Threads : Moving(t) /\ th[t].sys = e.sys

Separate(e, f) ==
  \/ e = f \/ e.conn # f.conn \/ e.dir # f.dir
  \/ e.from + e.size <= f.from \/ f.from + f.size <= e.from
  \/ \A b \in Span(e) \cap Span(f) : Excused(e.sys, b) \/ Excused(f.sys, b)

TwiceInv ==
  /\ Movers
  /\ \A t \in Threads : Moving(t) => Position(t)
  /\ \A e \in Plain : e.conn \in 1 .. Len(opened) /\ e.dir \in DataOps
  /\ \A t \in Threads, e \in Plain : Moving(t) => Beside(t, e)
  /\ \A f \in Fds, e \in Plain : Past(f, e)
  /\ \A e, f \in Plain : Separate(e, f)

LEMMA SeparateSpans ==
  ASSUME BInv, TwiceInv
  PROVE  NothingCapturedTwice
<1> SUFFICES ASSUME NEW e \in Plain, NEW f \in Plain, e # f, e.conn = f.conn, e.dir = f.dir,
                    NEW b \in Span(e) \cap Span(f)
             PROVE  \E m \in moved : m.sys \in {e.sys, f.sys} /\ b \notin Consumed(m)
  BY DEF NothingCapturedTwice, Plain
<1>1. e.from \in Nat /\ e.size \in Nat /\ f.from \in Nat /\ f.size \in Nat
  BY DEF BInv, EventOK, Plain
<1>2. Separate(e, f)
  BY DEF TwiceInv
<1>3. ~(e.from + e.size <= f.from \/ f.from + f.size <= e.from)
  BY <1>1 DEF Span
<1>4. Excused(e.sys, b) \/ Excused(f.sys, b)
  BY <1>2, <1>3 DEF Separate
<1> QED
  BY <1>4 DEF Excused

(* t's call moves data on its own connection only *)
ConnsMove(t) ==
  /\ \A f \in Fds : conns'[f].id = conns[f].id /\ \A d \in DataOps : conns'[f][d] \in Nat /\ conns[f][d] <= conns'[f][d]
  /\ \A f \in Fds : conns'[f] = conns[f] \/ (Moving(t) /\ f = th[t].fd /\ conns[f].id = th[t].conn)

(* when t's call is over, what its events hold has been moved *)
LeavesBehind(t) ==
  \/ ~Moving(t)
  \/ Moving(t)' /\ th'[t].sys = th[t].sys
  \/ \A e \in Plain : e.sys = th[t].sys =>
       \A f \in Fds : conns[f].id = e.conn => Gone(e, conns[f][e.dir])'

NewEvent(t, e) ==
  /\ Moving(t) /\ e.conn = th[t].conn /\ e.dir = th[t].dir /\ e.sys = th[t].sys
  /\ \A f \in Plain : Separate(e, f) /\ Separate(f, e)

(* a step of t that begins no call *)
LEMMA TwiceStep ==
  ASSUME BInv, SlotInv, TwiceInv, Fixed, NEW t \in Threads, Only(t), moved \subseteq moved', opened' = opened, ConnsMove(t),
         Moving(t)' => Moving(t) /\ th'[t].conn = th[t].conn /\ th'[t].fd = th[t].fd /\ Position(t)',
         NEW ev, ~(ev \in Plain' \ Plain) \/ (NewEvent(t, ev) /\ Moving(t)' /\ th'[t].sys = th[t].sys),
         Plain \subseteq Plain', Plain' \subseteq Plain \cup {ev},
         \A e \in Plain' : Moving(t)' => Beside(t, e)',
         LeavesBehind(t)
  PROVE  TwiceInv'
<1>1. /\ Threads' = Threads /\ Fds' = Fds /\ \A u \in Threads : u # t => th'[u] = th[u]
  BY DEF Fixed, Threads, Fds, Only, BInv, Shapes
<1>2. \A u \in Threads : u # t => (Moving(u)' <=> Moving(u))
  BY <1>1 DEF Moving
<1>3. Movers'
  <2>1. Movers /\ \A f \in Fds : conns'[f].id = conns[f].id
    BY DEF TwiceInv, ConnsMove
  <2>2. \A u \in Threads : Moving(u)' => Moving(u) /\ th'[u].conn = th[u].conn /\ th'[u].fd = th[u].fd
    BY <1>1, <1>2
  <2> QED
    BY <1>1, <2>1, <2>2 DEF Movers
<1>4. ASSUME NEW u \in Threads, u # t, Moving(u) PROVE Position(u)'
  <2>1. Position(u) /\ th'[u] = th[u] /\ th[u].fd \in Fds /\ th[u].conn # 0
    BY <1>1, <1>4 DEF TwiceInv, BInv, Shapes, ThreadOK, Moving, DataOps
  <2>2. conns[th[u].fd].id = th[u].conn => conns'[th[u].fd] = conns[th[u].fd]
    BY <1>4, <2>1 DEF ConnsMove, TwiceInv, Movers
  <2>3. conns'[th[u].fd].id = conns[th[u].fd].id
    BY <2>1 DEF ConnsMove
  <2> QED
    BY <2>1, <2>2, <2>3 DEF Position, Landed, Planned, Want
<1>5. \A e \in Plain' : e.conn \in 1 .. Len(opened) /\ e.dir \in DataOps
  <2>1. NewEvent(t, ev) => ev.conn \in 1 .. Len(opened) /\ ev.dir \in DataOps
    BY DEF TwiceInv, NewEvent, Position, BInv, Shapes, ThreadOK
  <2> QED
    BY <2>1 DEF TwiceInv
<1>6. \A s, b : Excused(s, b) => Excused(s, b)'
  BY DEF Excused, Consumed, Bytes
<1>7. ASSUME NEW u \in Threads, u # t, Moving(u), NEW e \in Plain' PROVE Beside(u, e)'
  <2>1. th'[u] = th[u]
    BY <1>1, <1>7
  <2>2. CASE e \in Plain
    <3>1. Beside(u, e)
      BY <1>7, <2>2 DEF TwiceInv
    <3> QED
      BY <1>6, <2>1, <3>1 DEF Beside, OfCall, Before, Gone, Span, Planned, Want
  <2>3. CASE e \notin Plain
    <3>1. NewEvent(t, e)
      BY <2>3
    <3>2. th[u].conn # e.conn
      BY <1>7, <3>1 DEF NewEvent, TwiceInv, Movers
    <3>3. th[u].sys # e.sys
      <4>1. th[t].pc # "user"
        BY <3>1 DEF NewEvent, Moving, DataOps, BInv, Shapes, ThreadOK
      <4> QED
        BY <1>7, <3>1, <4>1 DEF NewEvent, SlotInv, OneCall
    <3> QED
      BY <2>1, <3>2, <3>3 DEF Beside, Before
  <2> QED
    BY <2>2, <2>3
<1>8. ASSUME NEW f \in Fds, NEW e \in Plain' PROVE Past(f, e)'
  <2> SUFFICES ASSUME conns[f].id = e.conn
               PROVE Gone(e, conns[f][e.dir])' \/ \E u \in Threads : Moving(u)' /\ th'[u].sys = e.sys
    BY <1>1 DEF Past, ConnsMove
  <2>1. CASE e \notin Plain
    BY <2>1 DEF NewEvent
  <2>2. CASE e \in Plain
    <3>1. Past(f, e) /\ e.dir \in DataOps
      BY <2>2 DEF TwiceInv
    <3>2. CASE Gone(e, conns[f][e.dir])
      <4>1. conns[f][e.dir] <= conns'[f][e.dir] /\ conns'[f][e.dir] \in Nat
        BY <3>1 DEF ConnsMove
      <4>2. conns[f][e.dir] \in Nat
        BY <3>1 DEF BInv, Shapes, StoreOK, DataOps
      <4>3. e.from \in Nat /\ e.size \in Nat
        BY <2>2 DEF BInv, EventOK, Plain
      <4>4. \A b \in Span(e) : b \in Nat
        BY <4>3 DEF Span
      <4>5. ASSUME NEW b \in Span(e) PROVE Excused(e.sys, b)' \/ b <= conns'[f][e.dir]
        <5>1. Excused(e.sys, b) \/ b <= conns[f][e.dir]
          BY <3>2 DEF Gone
        <5> QED
          BY <1>6, <4>1, <4>2, <4>4, <5>1
      <4> QED
        BY <4>5 DEF Gone, Span
    <3>3. CASE \E u \in Threads : Moving(u) /\ th[u].sys = e.sys
      <4>1. PICK u \in Threads : Moving(u) /\ th[u].sys = e.sys
        BY <3>3
      <4>2. CASE u # t
        BY <1>1, <1>2, <4>1, <4>2
      <4>3. CASE u = t
        BY <2>2, <4>1, <4>3 DEF LeavesBehind
      <4> QED
        BY <4>2, <4>3
    <3> QED
      BY <3>1, <3>2, <3>3 DEF Past
  <2> QED
    BY <2>1, <2>2
<1>9. ASSUME NEW e \in Plain', NEW f \in Plain' PROVE Separate(e, f)'
  <2>1. Separate(e, f)
    BY DEF TwiceInv, NewEvent, Separate
  <2> QED
    BY <1>6, <2>1 DEF Separate, Span
<1>10. \A u \in Threads : Moving(u)' => Position(u)'
  BY <1>2, <1>4
<1>11. \A u \in Threads, e \in Plain' : Moving(u)' => Beside(u, e)'
  BY <1>2, <1>7
<1> QED
  BY <1>1, <1>3, <1>5, <1>8, <1>9, <1>10, <1>11 DEF TwiceInv

LEMMA ConnsStay ==
  ASSUME BInv, NEW t, conns' = conns
  PROVE  ConnsMove(t)
<1>1. \A f \in Fds, d \in DataOps : conns[f][d] \in Nat
  BY DEF BInv, Shapes, StoreOK, DataOps
<1> QED
  BY <1>1 DEF ConnsMove

LEMMA PlainStays ==
  ASSUME Submitted' = Submitted
  PROVE  Plain' = Plain
BY DEF Plain

(* a thread that moves no data leaves the streams alone *)
LEMMA TwiceQuiet ==
  ASSUME BInv, SlotInv, TwiceInv, Fixed, NEW t \in Threads, Only(t), moved' = moved, opened' = opened, conns' = conns,
         Plain' = Plain, ~Moving(t), ~Moving(t)'
  PROVE  TwiceInv'
<1>1. LeavesBehind(t) /\ ConnsMove(t)
  BY ConnsStay DEF LeavesBehind
<1>2. PICK ev : ev \notin Plain' \ Plain
  OBVIOUS
<1> QED
  BY <1>1, <1>2, TwiceStep

CallFields == {"op", "sys", "fd", "conn", "dir", "base", "ret", "buf", "peek"}

(* what is left of a plan *)
Rest(plan, p) == plan = p \/ (p # <<>> /\ plan = Tail(p))

(* a call goes on with what is left of its plan *)
LEMMA BesideKept ==
  ASSUME BInv, SlotInv, NEW t \in Threads, Moving(t), \A k \in CallFields : th'[t][k] = th[t][k], moved' = moved,
         Planned(t) => Planned(t)' /\ Rest(th'[t].plan, th[t].plan), NEW e, Beside(t, e)
  PROVE  Beside(t, e)'
<1>1. /\ th'[t].op = th[t].op /\ th'[t].sys = th[t].sys /\ th'[t].conn = th[t].conn /\ th'[t].dir = th[t].dir
      /\ th'[t].base = th[t].base /\ th'[t].ret = th[t].ret /\ th'[t].buf = th[t].buf
  BY DEF CallFields
<1>2. Want(t)' = Want(t)
  BY <1>1 DEF Want
<1>3. CASE e.sys # th[t].sys
  BY <1>1, <1>3 DEF Beside, Before, Gone, Span, Excused, Consumed, Bytes
<1>4. CASE e.sys = th[t].sys
  <2>1. OfCall(t, e)
    BY <1>4 DEF Beside
  <2>2. Planned(t)' /\ Rest(th'[t].plan, th[t].plan)
    BY <2>1 DEF OfCall
  <2>3. \A i \in DOMAIN th'[t].plan : \E j \in DOMAIN th[t].plan : th'[t].plan[i] = th[t].plan[j]
    <3>1. CASE th'[t].plan = th[t].plan
      BY <3>1
    <3>2. CASE th[t].plan # <<>> /\ th'[t].plan = Tail(th[t].plan)
      <4> DEFINE p == th[t].plan
      <4>1. PlanOK(p) /\ p # <<>> /\ th'[t].plan = Tail(p)
        BY <3>2 DEF BInv, Typed
      <4> HIDE DEF p
      <4>2. /\ Len(p) \in Nat \ {0} /\ DOMAIN p = 1 .. Len(p) /\ DOMAIN Tail(p) = 1 .. Len(p) - 1
            /\ \A i \in 1 .. Len(p) - 1 : Tail(p)[i] = p[i + 1]
        BY <4>1, TailPlan
      <4>3. \A i \in DOMAIN Tail(p) : i + 1 \in DOMAIN p /\ Tail(p)[i] = p[i + 1]
        BY <4>2
      <4> QED
        BY <4>1, <4>3 DEF p
    <3> QED
      BY <2>2, <3>1, <3>2 DEF Rest
  <2>4. \A i \in DOMAIN th'[t].plan : e.from + e.size <= th[t].base + th'[t].plan[i].off
    BY <2>1, <2>3 DEF OfCall
  <2>5. OfCall(t, e)'
    BY <1>1, <1>2, <2>1, <2>2, <2>4 DEF OfCall
  <2> QED
    BY <1>1, <1>4, <2>5 DEF Beside
<1> QED
  BY <1>3, <1>4

LEMMA WithinRest ==
  ASSUME NEW p, PlanOK(p), NEW n, Within(p, n), NEW q, Rest(q, p)
  PROVE  Within(q, n)
<1>1. CASE q = p
  BY <1>1
<1>2. CASE p # <<>> /\ q = Tail(p)
  <2>1. /\ Len(p) \in Nat \ {0} /\ DOMAIN p = 1 .. Len(p) /\ DOMAIN Tail(p) = 1 .. Len(p) - 1
        /\ \A i \in 1 .. Len(p) - 1 : Tail(p)[i] = p[i + 1]
    BY <1>2, TailPlan
  <2>2. \A i \in DOMAIN Tail(p) : i + 1 \in DOMAIN p /\ Tail(p)[i] = p[i + 1]
    BY <2>1
  <2> QED
    BY <1>2, <2>2 DEF Within
<1> QED
  BY <1>1, <1>2 DEF Rest

LEMMA PositionKept ==
  ASSUME BInv, TwiceInv, NEW t \in Threads, Moving(t), \A k \in CallFields : th'[t][k] = th[t][k],
         opened' = opened, conns' = conns, Landed(t)' <=> Landed(t),
         Planned(t)' => Within(th'[t].plan, Want(t))
  PROVE  Position(t)'
<1>1. /\ th'[t].op = th[t].op /\ th'[t].fd = th[t].fd /\ th'[t].conn = th[t].conn /\ th'[t].dir = th[t].dir
      /\ th'[t].base = th[t].base /\ th'[t].ret = th[t].ret /\ th'[t].buf = th[t].buf /\ th'[t].peek = th[t].peek
  BY DEF CallFields
<1>2. Want(t)' = Want(t)
  BY <1>1 DEF Want
<1>3. Position(t)
  BY DEF TwiceInv
<1>4. Planned(t)' => Within(th[t].plan, Want(t))'
  BY <1>2 DEF Within
<1> QED
  BY <1>1, <1>3, <1>4 DEF Position

LEMMA TwiceKept ==
  ASSUME BInv, SlotInv, TwiceInv, Fixed, NEW t \in Threads, Only(t), Moving(t), \A k \in CallFields : th'[t][k] = th[t][k],
         moved' = moved, opened' = opened, conns' = conns, Plain' = Plain, Landed(t)' <=> Landed(t),
         Planned(t) => Planned(t)' /\ Rest(th'[t].plan, th[t].plan),
         Planned(t)' => Planned(t) \/ Within(th'[t].plan, Want(t))
  PROVE  TwiceInv'
<1>1. Moving(t)' /\ th'[t].sys = th[t].sys /\ th'[t].conn = th[t].conn /\ th'[t].fd = th[t].fd
  BY DEF CallFields, Moving
<1>2. Planned(t)' => Within(th'[t].plan, Want(t))
  <2>1. SUFFICES ASSUME Planned(t) PROVE Within(th'[t].plan, Want(t))
    OBVIOUS
  <2> DEFINE p == th[t].plan  q == th'[t].plan  n == Want(t)
  <2>2. PlanOK(p) /\ Within(p, n) /\ Rest(q, p)
    BY <2>1 DEF BInv, Typed, TwiceInv, Position
  <2> HIDE DEF p, q, n
  <2>3. Within(q, n)
    BY <2>2, WithinRest
  <2> QED
    BY <2>3 DEF q, n
<1>3. Position(t)'
  BY <1>2, PositionKept
<1>4. \A e \in Plain' : Beside(t, e)'
  BY BesideKept DEF TwiceInv
<1>5. LeavesBehind(t) /\ ConnsMove(t)
  BY <1>1, ConnsStay DEF LeavesBehind
<1>6. PICK ev : ev \notin Plain' \ Plain
  OBVIOUS
<1> QED
  BY <1>1, <1>3, <1>4, <1>5, <1>6, TwiceStep

LEMMA TwiceBack ==
  ASSUME BInv, SlotInv, TwiceInv, Fixed, NEW t \in Threads, Back(t), moved' = moved, opened' = opened, conns' = conns,
         Plain' = Plain, ~Moving(t)
  PROVE  TwiceInv'
<1>1. Only(t) /\ ~Moving(t)'
  BY DEF Back, Blank, Moving, DataOps
<1> QED
  BY <1>1, TwiceQuiet

LEMMA GenerationTwice ==
  ASSUME BInv, SlotInv, TwiceInv, NEW t \in Threads, LookupGeneration(t) \/ InitGeneration(t)
  PROVE  TwiceInv'
<1>0. Shapes
  BY DEF BInv
<1>1. /\ th[t].pc \in {"gen", "initgen"} /\ Fixed /\ SameApp /\ SameOut /\ moved' = moved
  BY <1>0, GenerationDoes
<1>2. /\ Same(t, {"pc", "gen", "ctx"})
      /\ th[t].op \in DataOps => th'[t].pc \in {"initgen", "allowed"}
  <2>1. CASE Same(t, {"pc"}) /\ th'[t].pc = "initgen"
    BY <2>1 DEF Same, Fields
  <2>2. CASE \E g : Generated(t, g)
    <3>1. /\ Same(t, {"pc", "gen", "ctx"})
          /\ \/ th'[t].pc = "allowed"
             \/ th'[t].pc = "tuple" /\ th[t].op \in {"bind", "connect", "accepted"}
             \/ th'[t].pc = "kernel" /\ th[t].op = "accept"
             \/ th'[t].pc = "emit" /\ th[t].op = "ssl"
      BY <1>0, <1>1, <2>2, GeneratedDoes
    <3> QED
      BY <3>1 DEF DataOps
  <2> QED
    BY <1>0, <2>1, <2>2, GenerationDoes
<1>3. Only(t) /\ (\A k \in CallFields : th'[t][k] = th[t][k]) /\ th'[t].op = th[t].op
  BY <1>2 DEF Same, Fields, CallFields
<1>4. Plain' = Plain
  BY <1>1, OutStays, PlainStays
<1>5. CASE Moving(t)
  <2>1. ~Planned(t) /\ ~Planned(t)' /\ ~Landed(t) /\ ~Landed(t)'
    BY <1>1, <1>2, <1>3, <1>5 DEF Planned, Landed, Moving, Emitting
  <2> QED
    BY <1>1, <1>3, <1>4, <1>5, <2>1, TwiceKept DEF SameApp
<1>6. CASE ~Moving(t)
  BY <1>1, <1>3, <1>4, <1>6, TwiceQuiet DEF SameApp, Moving
<1> QED
  BY <1>5, <1>6

LEMMA FilterTwice ==
  ASSUME BInv, SlotInv, LossInv, TwiceInv, NEW t \in Threads, Filter(t)
  PROVE  TwiceInv'
<1>0. Shapes /\ LossThread(t)
  BY DEF BInv, LossInv
<1>1. /\ Same(t, {"pc", "ctx", "touched", "plan", "lossy", "unread"}) /\ th[t].pc = "allowed" /\ Fixed /\ SameOut /\ SameApp /\ moved' = moved
  BY <1>0, FilterDoes
<1>2. Only(t) /\ (\A k \in CallFields : th'[t][k] = th[t][k]) /\ th'[t].op = th[t].op
  BY <1>1 DEF Same, Fields, CallFields
<1>3. Plain' = Plain
  BY <1>1, OutStays, PlainStays
<1>4. CASE Moving(t)
  <2>1. ~Planned(t) /\ ~Landed(t) /\ th[t].plan = <<>>
    BY <1>0, <1>1, <1>4 DEF Planned, Landed, Emitting, LossThread, Moving, DataOps
  <2>2. CASE th'[t].pc = "emit" /\ th[t].op = "write" /\ th'[t].plan = DataEvents(th[t].buf, Total(th[t].buf.segs))
    <3> DEFINE n == Total(th[t].buf.segs)
    <3>1. n \in 0 .. Total(th[t].buf.segs) /\ Want(t) = n
      BY <2>2, WantTyped DEF Want
    <3>2. th'[t].plan = DataEvents(th[t].buf, n)
      BY <2>2
    <3> HIDE DEF n
    <3>3. Within(th'[t].plan, Want(t))
      BY <3>1, <3>2, PlanAccounts
    <3>4. ~Landed(t)'
      BY <1>2, <2>2 DEF Landed
    <3> QED
      BY <1>1, <1>2, <1>3, <1>4, <2>1, <3>3, <3>4, TwiceKept DEF SameApp
  <2>3. CASE th'[t].pc = "kernel" /\ th'[t].plan = th[t].plan
    <3>1. Within(th'[t].plan, Want(t))
      BY <2>1, <2>3 DEF Within
    <3>2. ~Landed(t)'
      BY <2>3 DEF Landed, Emitting
    <3> QED
      BY <1>1, <1>2, <1>3, <1>4, <2>1, <3>1, <3>2, TwiceKept DEF SameApp
  <2> QED
    BY <1>0, <1>4, <2>2, <2>3, FilterDoes DEF Moving, DataOps
<1>5. CASE ~Moving(t)
  BY <1>1, <1>2, <1>3, <1>5, TwiceQuiet DEF SameApp, Moving
<1> QED
  BY <1>4, <1>5

LEMMA LearnTupleTwice ==
  ASSUME BInv, SlotInv, TwiceInv, NEW t \in Threads, LearnTuple(t)
  PROVE  TwiceInv'
<1>0. Shapes /\ ThreadOK(t)
  BY DEF BInv, Shapes
<1>1. th[t].pc = "tuple" /\ Fixed /\ SameOut /\ SameApp /\ moved' = moved
  BY <1>0, LearnTupleDoes
<1>2. ~Moving(t)
  BY <1>0, <1>1 DEF ThreadOK, Moving, DataOps
<1>3. Plain' = Plain
  BY <1>1, OutStays, PlainStays
<1>4. CASE Back(t)
  BY <1>1, <1>2, <1>3, <1>4, TwiceBack DEF SameApp
<1>5. CASE Same(t, {"pc", "plan", "ctx"})
  <2>1. Only(t) /\ th'[t].op = th[t].op
    BY <1>5 DEF Same, Fields
  <2> QED
    BY <1>1, <1>2, <1>3, <2>1, TwiceQuiet DEF SameApp, Moving
<1> QED
  BY <1>0, <1>4, <1>5, LearnTupleDoes

(* within a probe that emits, or past it *)
LEMMA TwiceOn ==
  ASSUME BInv, SlotInv, TwiceInv, Fixed, SameApp, moved' = moved, Plain' = Plain, NEW t \in Threads, Only(t),
         \A k \in CallFields : th'[t][k] = th[t][k], Rest(th'[t].plan, th[t].plan),
         ~Moving(t) \/ (th[t].pc \in Emitting /\ (th'[t].pc \in Emitting \/ (th[t].op = "write" /\ th'[t].pc = "kernel")))
  PROVE  TwiceInv'
<1>1. th'[t].op = th[t].op
  BY DEF CallFields
<1>2. CASE Moving(t)
  <2>1. Planned(t) /\ Planned(t)' /\ (Landed(t)' <=> Landed(t))
    BY <1>1, <1>2 DEF Planned, Landed, Moving
  <2> QED
    BY <1>2, <2>1, TwiceKept DEF SameApp
<1>3. CASE ~Moving(t)
  BY <1>1, <1>3, TwiceQuiet DEF SameApp, Moving
<1> QED
  BY <1>2, <1>3

LEMMA EmitTwice ==
  ASSUME BInv, SlotInv, TwiceInv, NEW t \in Threads, EmitData(t) \/ EmitControl(t)
  PROVE  TwiceInv'
<1>0. Shapes /\ RingsOK
  BY DEF BInv, Shapes
<1>1. th[t].pc = "emit" /\ th[t].plan # <<>> /\ EmitStarts(t) /\ Fixed /\ SameApp /\ got' = got /\ discarded' = discarded /\ moved' = moved
  BY <1>0, EmitDoes
<1>2. CASE /\ Same(t, {"pc"}) /\ th'[t].pc = "seq"
           /\ rings' = [rings EXCEPT ![th[t].cpu] = Append(@, [st |-> "busy", id |-> <<th[t].sys, th[t].idx>>])]
  <2>1. th[t].cpu \in Cpus
    BY <1>0, <1>1 DEF Shapes, ThreadOK
  <2>2. Plain' = Plain
    BY <1>0, <1>1, <1>2, <2>1, ReserveStep, PlainStays
  <2>3. Only(t) /\ (\A k \in CallFields : th'[t][k] = th[t][k]) /\ th'[t].plan = th[t].plan
    BY <1>2 DEF Same, Fields, CallFields
  <2> QED
    BY <1>1, <1>2, <2>2, <2>3, TwiceOn DEF Emitting, Rest
<1>3. CASE Same(t, NextChunkFields) /\ th'[t].pc = "emit" /\ th'[t].plan = Tail(th[t].plan) /\ rings' = rings
  <2>1. Only(t) /\ (\A k \in CallFields : th'[t][k] = th[t][k])
    BY <1>3 DEF Same, Fields, CallFields, NextChunkFields
  <2>2. Plain' = Plain
    BY <1>1, <1>3, OutStays, PlainStays DEF SameOut
  <2> QED
    BY <1>1, <1>3, <2>1, <2>2, TwiceOn DEF Emitting, Rest
<1> QED
  BY <1>1, <1>2, <1>3 DEF EmitStarts

LEMMA SeqTwice ==
  ASSUME BInv, SlotInv, TwiceInv, NEW t \in Threads,
         LookupSeq(t) \/ UpdateSeq(t) \/ ResetSeq(t) \/ BumpGeneration(t) \/ DeleteTuple(t)
  PROVE  TwiceInv'
<1>0. Shapes /\ ThreadOK(t)
  BY DEF BInv, Shapes
<1>1. /\ Same(t, {"pc", "seq"}) /\ Fixed /\ SameOut /\ SameApp /\ moved' = moved
      /\ <<th[t].pc, th'[t].pc>> \in
           {<<"seq", "put">>, <<"put", "copy">>, <<"reset", "kernel">>, <<"bump", "reset">>, <<"untuple", "bump">>}
  <2>1. Same(t, {"pc"}) => Same(t, {"pc", "seq"})
    BY DEF Same
  <2> QED
    BY <1>0, <2>1, LookupSeqDoes, UpdateSeqDoes, ResetSeqDoes, BumpGenerationDoes, DeleteTupleDoes
<1>2. Only(t) /\ (\A k \in CallFields : th'[t][k] = th[t][k]) /\ th'[t].plan = th[t].plan
  BY <1>1 DEF Same, Fields, CallFields
<1>3. Plain' = Plain
  BY <1>1, OutStays, PlainStays
<1>4. ~Moving(t) \/ (th[t].pc \in Emitting /\ th'[t].pc \in Emitting)
  BY <1>0, <1>1 DEF ThreadOK, Moving, DataOps, Emitting
<1> QED
  BY <1>1, <1>2, <1>3, <1>4, TwiceOn DEF Rest

(* the event of a chunk: where it lies in the call's buffer *)
LEMMA ChunkLies ==
  ASSUME BInv, TwiceInv, NEW t \in Threads, th[t].pc = "copy", Moving(t), NEW ev, ev = Event(t)
  PROVE  /\ ev.type = "data" /\ ~ev.ssl /\ ev.conn = th[t].conn /\ ev.dir = th[t].dir /\ ev.sys = th[t].sys
         /\ ev.from \in Nat /\ ev.size \in Nat /\ th[t].base <= ev.from /\ th[t].base \in Nat
         /\ ev.from + ev.size <= th[t].base + Want(t)
         /\ \A i \in DOMAIN Tail(th[t].plan) : ev.from + ev.size <= th[t].base + Tail(th[t].plan)[i].off
         /\ ev.from = th[t].base + th[t].plan[1].off /\ 1 \in DOMAIN th[t].plan
<1> DEFINE p == th[t].plan  base == th[t].base
<1>1. PlanOK(p) /\ p # <<>> /\ base \in Nat /\ Within(p, Want(t)) /\ Want(t) \in Nat
  BY WantTyped DEF BInv, Typed, Reserved, TwiceInv, Position, Planned, Moving, Emitting
<1>2. /\ Len(p) \in Nat \ {0} /\ DOMAIN p = 1 .. Len(p) /\ DOMAIN Tail(p) = 1 .. Len(p) - 1
      /\ \A i \in 1 .. Len(p) - 1 : Tail(p)[i] = p[i + 1]
      /\ Head(p) = p[1] /\ Head(p) \in Chunks
  BY <1>1, TailPlan
<1>3. /\ ev.type = "data" /\ ~ev.ssl /\ ev.conn = th[t].conn /\ ev.dir = th[t].dir /\ ev.sys = th[t].sys
  BY DEF Event, IsData, Moving, DataOps
<1>4. ev.from = base + Head(p).off /\ ev.size = Head(p).size
  BY DEF Event
<1> HIDE DEF p, base
<1> DEFINE off == p[1].off  size == p[1].size
<1>5. off \in Nat /\ size \in Nat /\ ev.from = base + off /\ ev.size = size /\ off + size <= Want(t)
  BY <1>1, <1>2, <1>4 DEF Chunks, Within
<1>6. ASSUME NEW i \in DOMAIN Tail(p) PROVE off + size <= Tail(p)[i].off /\ Tail(p)[i].off \in Nat
  <2>1. i + 1 \in DOMAIN p /\ 1 \in DOMAIN p /\ 1 < i + 1 /\ Tail(p)[i] = p[i + 1]
    BY <1>2, <1>6
  <2>2. p[i + 1] \in Chunks
    BY <1>1, <2>1 DEF PlanOK
  <2> QED
    BY <1>1, <2>1, <2>2 DEF PlanOK, Chunks
<1> HIDE DEF off, size
<1>7. ev.from \in Nat /\ base <= ev.from /\ ev.from + ev.size <= base + Want(t)
  BY <1>1, <1>5
<1>8. \A i \in DOMAIN Tail(p) : ev.from + ev.size <= base + Tail(p)[i].off
  <2> SUFFICES ASSUME NEW i \in DOMAIN Tail(p) PROVE ev.from + ev.size <= base + Tail(p)[i].off
    OBVIOUS
  <2> DEFINE o == Tail(p)[i].off
  <2>1. o \in Nat /\ off + size <= o
    BY <1>6
  <2> HIDE DEF o
  <2>2. (base + off) + size <= base + o
    BY <1>1, <1>5, <2>1
  <2> QED
    BY <1>5, <2>2 DEF o
<1> QED
  BY <1>1, <1>2, <1>3, <1>5, <1>7, <1>8 DEF p, base, off

LEMMA CopyTwice ==
  ASSUME BInv, SlotInv, TwiceInv, NEW t \in Threads, Copy(t)
  PROVE  TwiceInv'
<1>0. Shapes /\ ThreadOK(t)
  BY DEF BInv, Shapes
<1>1. /\ th[t].pc = "copy" /\ th[t].pc \in Reserved /\ th'[t].pc = "emit" /\ th'[t].plan = Tail(th[t].plan)
      /\ Fixed /\ SameApp /\ got' = got /\ moved' = moved
  BY <1>0, CopyDoes DEF Reserved
<1>2. Only(t) /\ (\A k \in CallFields : th'[t][k] = th[t][k]) /\ Rest(th'[t].plan, th[t].plan)
  <2>1. th[t].plan # <<>>
    BY <1>1 DEF BInv, Typed
  <2> QED
    <3>1. Same(t, NextChunkFields)
      BY <1>0, CopyDoes
    <3>2. CallFields \subseteq Fields \ NextChunkFields
      BY DEF Fields, CallFields, NextChunkFields
    <3>3. Only(t) /\ \A k \in CallFields : th'[t][k] = th[t][k]
      BY <3>1, <3>2 DEF Same
    <3>4. Rest(th'[t].plan, th[t].plan)
      BY <1>1, <2>1 DEF Rest
    <3> QED
      BY <3>3, <3>4
<1>3. CASE Fill(t, DiscardedSlot(t))
  <2> DEFINE s == DiscardedSlot(t)
  <2>1. s.st # "ready" /\ Fill(t, s)
    BY <1>3 DEF DiscardedSlot
  <2> HIDE DEF s
  <2>2. Plain' = Plain
    BY <1>1, <2>1, FillSubmits, PlainStays
  <2> QED
    BY <1>1, <1>2, <2>2, TwiceOn DEF Emitting
<1>4. CASE Fill(t, ReadySlot(t))
  <2> DEFINE s == ReadySlot(t)
  <2>1. s.st = "ready" /\ s.ev = Event(t) /\ Fill(t, s)
    BY <1>4 DEF ReadySlot
  <2> HIDE DEF s
  <2>2. Submitted' = Submitted \cup {Event(t)}
    BY <1>1, <2>1, FillSubmits
  <2>3. PICK ev : ev = Event(t)
    OBVIOUS
  <2>4. CASE ~Moving(t)
    <3>1. ~(ev.type = "data" /\ ~ev.ssl)
      BY <2>3, <2>4 DEF Event, IsData, Moving, DataOps
    <3>2. Plain' = Plain
      BY <2>2, <2>3, <3>1 DEF Plain
    <3> QED
      BY <1>1, <1>2, <2>4, <3>2, TwiceOn
  <2>5. CASE Moving(t)
    <3>1. /\ ev.type = "data" /\ ~ev.ssl /\ ev.conn = th[t].conn /\ ev.dir = th[t].dir /\ ev.sys = th[t].sys
          /\ ev.from \in Nat /\ ev.size \in Nat /\ th[t].base <= ev.from /\ th[t].base \in Nat
          /\ ev.from + ev.size <= th[t].base + Want(t)
          /\ \A i \in DOMAIN Tail(th[t].plan) : ev.from + ev.size <= th[t].base + Tail(th[t].plan)[i].off
          /\ ev.from = th[t].base + th[t].plan[1].off /\ 1 \in DOMAIN th[t].plan
      BY <1>1, <2>3, <2>5, ChunkLies
    <3>2. Plain' = Plain \cup {ev}
      BY <2>2, <2>3, <3>1 DEF Plain
    <3>3. /\ Moving(t)' /\ Planned(t) /\ Planned(t)' /\ (Landed(t)' <=> Landed(t))
          /\ th'[t].conn = th[t].conn /\ th'[t].fd = th[t].fd /\ th'[t].sys = th[t].sys /\ th'[t].dir = th[t].dir
          /\ th'[t].base = th[t].base /\ Want(t)' = Want(t)
      <4>1. /\ th'[t].op = th[t].op /\ th'[t].buf = th[t].buf /\ th'[t].ret = th[t].ret /\ th'[t].base = th[t].base
            /\ th'[t].conn = th[t].conn /\ th'[t].fd = th[t].fd /\ th'[t].sys = th[t].sys /\ th'[t].dir = th[t].dir
        BY <1>2 DEF CallFields
      <4>2. Want(t)' = Want(t)
        BY <4>1 DEF Want
      <4> QED
        BY <1>1, <2>5, <4>1, <4>2 DEF Planned, Landed, Moving, Emitting
    <3>4. Position(t)'
      <4> DEFINE p == th[t].plan  q == th'[t].plan  n == Want(t)
      <4>1. PlanOK(p) /\ Within(p, n) /\ Rest(q, p)
        BY <1>2, <2>5, <3>3 DEF BInv, Typed, TwiceInv, Position
      <4> HIDE DEF p, q, n
      <4>2. Within(q, n)
        BY <4>1, WithinRest
      <4>3. Within(th'[t].plan, Want(t))
        BY <4>2 DEF q, n
      <4> QED
        BY <1>1, <1>2, <2>5, <3>3, <4>3, PositionKept DEF SameApp
    <3>5. ASSUME NEW f \in Plain, f.conn = ev.conn, f.dir = ev.dir
          PROVE  f.from + f.size <= ev.from \/ \A b \in Span(ev) : b \in Span(f) => Excused(f.sys, b)
      <4>1. Beside(t, f) /\ f.from \in Nat /\ f.size \in Nat
        BY <2>5 DEF TwiceInv, BInv, EventOK, Plain
      <4>2. CASE f.sys = th[t].sys
        BY <3>1, <4>1, <4>2 DEF Beside, OfCall
      <4>3. CASE f.sys # th[t].sys
        <5>1. Gone(f, th[t].base)
          BY <3>1, <3>5, <4>1, <4>3 DEF Beside, Before
        <5>2. ASSUME NEW b \in Span(ev) PROVE ~(b <= th[t].base)
          BY <3>1 DEF Span
        <5> QED
          BY <5>1, <5>2 DEF Gone
      <4> QED
        BY <4>2, <4>3
    <3>6. NewEvent(t, ev)
      <4>1. ASSUME NEW f \in Plain PROVE Separate(ev, f) /\ Separate(f, ev)
        <5>1. CASE f.conn = ev.conn /\ f.dir = ev.dir
          BY <3>5, <5>1 DEF Separate
        <5>2. CASE ~(f.conn = ev.conn /\ f.dir = ev.dir)
          BY <5>2 DEF Separate
        <5> QED
          BY <5>1, <5>2
      <4> QED
        BY <2>5, <3>1, <4>1 DEF NewEvent
    <3>7. ASSUME NEW e \in Plain' PROVE Beside(t, e)'
      <4>1. CASE e \in Plain
        BY <1>1, <1>2, <2>5, <3>3, <4>1, BesideKept DEF TwiceInv
      <4>2. CASE e = ev
        <5>1. \A i \in DOMAIN th'[t].plan : e.from + e.size <= th'[t].base + th'[t].plan[i].off
          BY <1>1, <3>1, <3>3, <4>2
        <5>2. OfCall(t, e)'
          BY <3>1, <3>3, <4>2, <5>1 DEF OfCall
        <5> QED
          BY <3>1, <3>3, <4>2, <5>2 DEF Beside
      <4> QED
        BY <3>2, <4>1, <4>2
    <3>8. LeavesBehind(t) /\ ConnsMove(t)
      BY <1>1, <3>3, ConnsStay DEF LeavesBehind, SameApp
    <3> QED
      BY <1>1, <1>2, <2>5, <3>2, <3>3, <3>4, <3>6, <3>7, <3>8, TwiceStep DEF SameApp
  <2> QED
    BY <2>4, <2>5
<1> QED
  BY <1>0, <1>3, <1>4, CopyDoes

LEMMA MovedConns ==
  ASSUME BInv, NEW t \in Threads, Moving(t), NEW n \in Nat, conns' = Moved(t, n)
  PROVE  /\ ConnsMove(t)
         /\ conns[th[t].fd].id = th[t].conn /\ ~th[t].peek => conns'[th[t].fd][th[t].dir] = conns[th[t].fd][th[t].dir] + n
         /\ th[t].peek => conns' = conns
         /\ conns[th[t].fd][th[t].dir] \in Nat /\ th[t].fd \in Fds
<1> DEFINE fd == th[t].fd  dir == th[t].dir
<1>1. fd \in Fds /\ dir \in DataOps
  BY DEF BInv, Shapes, ThreadOK, Moving, DataOps
<1>2. conns \in [Fds -> [id : 0 .. Len(opened), read : Nat, write : Nat]]
  BY DEF BInv, Shapes, StoreOK
<1>3. conns[fd] \in [id : 0 .. Len(opened), read : Nat, write : Nat]
  BY <1>1, <1>2
<1> HIDE DEF fd, dir
<1>4. \A f \in Fds, d \in DataOps : conns[f][d] \in Nat
  BY <1>2 DEF DataOps
<1>5. CASE conns[fd].id = th[t].conn /\ ~th[t].peek
  <2>1. conns' = [conns EXCEPT ![fd][dir] = conns[fd][dir] + n]
    BY <1>5 DEF Moved, fd, dir
  <2>2. conns'[fd] = [conns[fd] EXCEPT ![dir] = conns[fd][dir] + n] /\ \A f \in Fds : f # fd => conns'[f] = conns[f]
    BY <1>1, <1>2, <2>1
  <2>3. conns'[fd][dir] = conns[fd][dir] + n /\ conns'[fd].id = conns[fd].id /\ \A d \in DataOps : d # dir => conns'[fd][d] = conns[fd][d]
    BY <1>1, <1>3, <2>2 DEF DataOps
  <2>4. \A d \in DataOps : conns'[fd][d] \in Nat /\ conns[fd][d] <= conns'[fd][d]
    BY <1>1, <1>4, <2>3
  <2>5. \A f \in Fds : conns'[f].id = conns[f].id /\ \A d \in DataOps : conns'[f][d] \in Nat /\ conns[f][d] <= conns'[f][d]
    <3> SUFFICES ASSUME NEW f \in Fds
                 PROVE  conns'[f].id = conns[f].id /\ \A d \in DataOps : conns'[f][d] \in Nat /\ conns[f][d] <= conns'[f][d]
      OBVIOUS
    <3>1. CASE f = fd
      BY <2>3, <2>4, <3>1
    <3>2. CASE f # fd
      <4>1. conns'[f] = conns[f] /\ \A d \in DataOps : conns[f][d] \in Nat
        BY <1>4, <2>2, <3>2
      <4> QED
        BY <4>1
    <3> QED
      BY <3>1, <3>2
  <2> QED
    BY <1>1, <1>4, <1>5, <2>2, <2>3, <2>5 DEF ConnsMove, fd, dir
<1>6. CASE ~(conns[fd].id = th[t].conn /\ ~th[t].peek)
  <2>1. conns' = conns
    BY <1>6 DEF Moved, fd
  <2> QED
    BY <1>1, <1>4, <1>6, <2>1, ConnsStay DEF fd, dir
<1> QED
  BY <1>5, <1>6

(* a call that is over leaves nothing of its events ahead of the stream *)
LEMMA TwiceDone ==
  ASSUME BInv, SlotInv, TwiceInv, Fixed, NEW t \in Threads, Back(t), moved \subseteq moved', opened' = opened,
         ConnsMove(t), Submitted' = Submitted, LeavesBehind(t)
  PROVE  TwiceInv'
<1>1. Only(t) /\ ~Moving(t)'
  BY DEF Back, Blank, Moving, DataOps
<1>2. Plain' = Plain
  BY PlainStays
<1>3. PICK ev : ev \notin Plain' \ Plain
  BY <1>2
<1> QED
  BY <1>1, <1>2, <1>3, TwiceStep

(* a finished call has consumed no byte it only peeked at, nor one beyond *)
(* its length                                                             *)
LEMMA TransferExcuses ==
  ASSUME NEW t, NEW n, NEW lossy, Transfer(t, n, lossy), NEW b, NEW s, s = th[t].sys,
         th[t].peek \/ b \notin th[t].base + 1 .. th[t].base + n
  PROVE  Excused(s, b)'
<1>1. PICK m : m = [sys |-> th[t].sys, conn |-> th[t].conn, from |-> th[t].base,
                    len |-> n, peek |-> th[t].peek, lossy |-> lossy,
                    skipped |-> th[t].unread \/ Len(th[t].buf.segs) > MAX_IOVEC_SEGMENTS]
  OBVIOUS
<1>2. m \in moved'
  BY <1>1 DEF Transfer
<1>3. m.sys = s /\ b \notin (IF m.peek THEN {} ELSE m.from + 1 .. m.from + m.len)
  BY <1>1
<1> QED
  BY <1>2, <1>3 DEF Excused, Consumed, Bytes

LEMMA EmitDoneTwice ==
  ASSUME BInv, SlotInv, TwiceInv, NEW t \in Threads, EmitDone(t)
  PROVE  TwiceInv'
<1>0. Shapes
  BY DEF BInv
<1>1. th[t].pc = "emit" /\ th[t].plan = <<>> /\ Fixed /\ SameOut /\ SameApp
  BY <1>0, EmitDoneDoes
<1>2. Submitted' = Submitted /\ Plain' = Plain
  BY <1>1, OutStays, PlainStays
<1>3. CASE /\ Same(t, {"pc"}) /\ moved' = moved
           /\ (th[t].op = "write" /\ th'[t].pc = "kernel") \/ (th[t].op = "close" /\ th'[t].pc = "untuple")
  <2>1. Only(t) /\ (\A k \in CallFields : th'[t][k] = th[t][k]) /\ th'[t].plan = th[t].plan
    BY <1>3 DEF Same, Fields, CallFields
  <2> QED
    BY <1>1, <1>2, <1>3, <2>1, TwiceOn DEF Rest, Emitting, Moving, DataOps
<1>4. CASE th[t].op = "read" /\ Back(t) /\ Transfer(t, th[t].ret, th[t].lossy)
  <2>1. Moving(t) /\ Landed(t) /\ Position(t) /\ Want(t) = th[t].ret /\ Movers
    BY <1>1, <1>4 DEF Moving, DataOps, Landed, Emitting, TwiceInv, Want
  <2>2. ASSUME NEW e \in Plain, e.sys = th[t].sys, NEW f \in Fds, conns[f].id = e.conn, NEW b \in Span(e)
        PROVE  Excused(e.sys, b)' \/ b <= conns[f][e.dir]
    <3>1. OfCall(t, e)
      BY <2>1, <2>2 DEF TwiceInv, Beside
    <3>2. f = th[t].fd /\ e.dir = th[t].dir /\ conns[th[t].fd].id = th[t].conn
      BY <2>1, <2>2, <3>1 DEF OfCall, Movers
    <3>3. CASE ~th[t].peek
      <4>1. conns[f][e.dir] = th[t].base + Want(t)
        BY <2>1, <3>2, <3>3 DEF Position
      <4>2. e.from \in Nat /\ e.size \in Nat /\ th[t].base \in Nat /\ Want(t) \in Nat
        BY WantTyped DEF BInv, EventOK, Plain, Typed
      <4> QED
        BY <3>1, <4>1, <4>2 DEF OfCall, Span
    <3>4. CASE th[t].peek
      BY <1>4, <2>2, <3>4, TransferExcuses
    <3> QED
      BY <3>3, <3>4
  <2>3. LeavesBehind(t)
    <3>1. conns' = conns
      BY <1>1 DEF SameApp
    <3> QED
      BY <2>2, <3>1 DEF LeavesBehind, Gone, Span
  <2>4. moved \subseteq moved'
    BY <1>4 DEF Transfer
  <2> QED
    BY <1>1, <1>2, <1>4, <2>3, <2>4, TwiceDone, ConnsStay DEF SameApp
<1>5. CASE th[t].op \in {"connect", "accepted", "ssl"} /\ Back(t) /\ moved' = moved
  BY <1>1, <1>2, <1>5, TwiceBack DEF SameApp, Moving, DataOps
<1> QED
  BY <1>0, <1>3, <1>4, <1>5, EmitDoneDoes

LEMMA WriteReturnTwice ==
  ASSUME BInv, SlotInv, TwiceInv, NEW t \in Threads, NEW n \in 0 .. Total(th[t].buf.segs), WriteReturn(t, n)
  PROVE  TwiceInv'
<1>0. Shapes
  BY DEF BInv
<1>1. /\ th[t].pc = "kernel" /\ th[t].op = "write" /\ Back(t) /\ conns' = Moved(t, n)
      /\ Transfer(t, n, th[t].lossy) /\ Fixed /\ SameOut /\ opened' = opened
  BY <1>0, WriteReturnDoes
<1>2. /\ Moving(t) /\ ~Landed(t) /\ Position(t) /\ Movers /\ n \in Nat /\ Want(t) = Total(th[t].buf.segs) /\ Want(t) \in Nat
      /\ n <= Want(t) /\ th[t].base \in Nat
  BY <1>1, WantTyped DEF Moving, DataOps, Landed, TwiceInv, Want, BInv, Typed
<1>3. Submitted' = Submitted
  BY <1>1, OutStays
<1>4. /\ ConnsMove(t)
      /\ conns[th[t].fd].id = th[t].conn /\ ~th[t].peek => conns'[th[t].fd][th[t].dir] = conns[th[t].fd][th[t].dir] + n
  BY <1>1, <1>2, MovedConns
<1>5. moved \subseteq moved'
  BY <1>1 DEF Transfer
<1>6. ASSUME NEW e \in Plain, e.sys = th[t].sys, NEW f \in Fds, conns[f].id = e.conn, NEW b \in Span(e)
      PROVE  Excused(e.sys, b)' \/ b <= conns'[f][e.dir]
  <2>1. OfCall(t, e)
    BY <1>2, <1>6 DEF TwiceInv, Beside
  <2>2. f = th[t].fd /\ e.dir = th[t].dir /\ conns[th[t].fd].id = th[t].conn
    BY <1>2, <1>6, <2>1 DEF OfCall, Movers
  <2>3. CASE th[t].peek \/ b \notin th[t].base + 1 .. th[t].base + n
    BY <1>1, <1>6, <2>3, TransferExcuses
  <2>4. CASE ~th[t].peek /\ b \in th[t].base + 1 .. th[t].base + n
    <3>1. conns[th[t].fd][th[t].dir] = th[t].base
      BY <1>2, <2>2 DEF Position
    <3>2. conns'[f][e.dir] = th[t].base + n
      BY <1>4, <2>2, <2>4, <3>1
    <3> QED
      BY <1>2, <2>4, <3>2
  <2> QED
    BY <2>3, <2>4
<1>7. LeavesBehind(t)
  BY <1>6 DEF LeavesBehind, Gone, Span
<1> QED
  BY <1>1, <1>3, <1>4, <1>5, <1>7, TwiceDone

LEMMA ReadReturnTwice ==
  ASSUME BInv, SlotInv, TwiceInv, NEW t \in Threads, NEW cpu, NEW n \in 0 .. Total(th[t].buf.segs), ReadReturn(t, n, cpu)
  PROVE  TwiceInv'
<1>0. Shapes
  BY DEF BInv
<1>1. /\ th[t].pc = "kernel" /\ th[t].op = "read" /\ conns' = Moved(t, n) /\ Fixed /\ SameOut /\ opened' = opened
  BY <1>0, ReadReturnDoes
<1>2. /\ Moving(t) /\ ~Landed(t) /\ ~Planned(t) /\ Position(t) /\ n \in Nat /\ th[t].base \in Nat
  BY <1>1, WantTyped DEF Moving, DataOps, Landed, Planned, Emitting, TwiceInv, BInv, Typed
<1>3. Submitted' = Submitted /\ Plain' = Plain
  BY <1>1, OutStays, PlainStays
<1>4. /\ ConnsMove(t) /\ th[t].fd \in Fds /\ (th[t].peek => conns' = conns)
      /\ conns[th[t].fd].id = th[t].conn /\ ~th[t].peek => conns'[th[t].fd][th[t].dir] = conns[th[t].fd][th[t].dir] + n
  BY <1>1, <1>2, MovedConns
<1>5. \A e \in Plain : e.sys # th[t].sys
  BY <1>2 DEF TwiceInv, Beside, OfCall
<1>6. CASE /\ Same(t, {"pc", "cpu", "ret", "ctx", "gen", "plan"}) /\ th'[t].pc = "emit" /\ th'[t].ret = n
           /\ th'[t].plan = DataEvents(th[t].buf, n) /\ moved' = moved
  <2>1. /\ Only(t) /\ th'[t].op = th[t].op /\ th'[t].sys = th[t].sys /\ th'[t].fd = th[t].fd /\ th'[t].conn = th[t].conn
        /\ th'[t].dir = th[t].dir /\ th'[t].base = th[t].base /\ th'[t].peek = th[t].peek
    BY <1>6 DEF Same, Fields
  <2>2. Moving(t)' /\ Landed(t)' /\ Want(t)' = n
    BY <1>1, <1>2, <1>6, <2>1 DEF Moving, Landed, Emitting, Want
  <2>3. Within(th'[t].plan, n)
    BY <1>6, PlanAccounts
  <2>4. conns'[th[t].fd].id = conns[th[t].fd].id
    BY <1>4 DEF ConnsMove
  <2>5. conns'[th[t].fd].id = th[t].conn =>
          conns'[th[t].fd][th[t].dir] = IF th[t].peek THEN th[t].base ELSE th[t].base + n
    BY <1>2, <1>4, <2>4 DEF Position
  <2>6. Within(th[t].plan, Want(t))'
    BY <2>2, <2>3 DEF Within
  <2>7. Position(t)'
    BY <1>1, <1>2, <1>6, <2>1, <2>2, <2>5, <2>6 DEF Position
  <2>8. ASSUME NEW e \in Plain PROVE Beside(t, e)'
    <3>1. Before(t, e) /\ e.sys # th[t].sys
      BY <1>2, <1>5 DEF TwiceInv, Beside
    <3> QED
      BY <1>6, <2>1, <3>1 DEF Beside, Before, Gone, Span, Excused, Consumed, Bytes
  <2>9. LeavesBehind(t)
    BY <2>1, <2>2 DEF LeavesBehind
  <2>10. PICK ev : ev \notin Plain' \ Plain
    BY <1>3
  <2> QED
    BY <1>1, <1>2, <1>3, <1>4, <1>6, <2>1, <2>7, <2>8, <2>9, <2>10, TwiceStep
<1>7. CASE Back(t) /\ Transfer(t, n, th[t].lossy)
  <2>1. LeavesBehind(t)
    BY <1>5 DEF LeavesBehind
  <2>2. moved \subseteq moved'
    BY <1>7 DEF Transfer
  <2> QED
    BY <1>1, <1>3, <1>4, <1>7, <2>1, <2>2, TwiceDone
<1> QED
  BY <1>0, <1>6, <1>7, ReadReturnDoes

(* a descriptor is closed or stands for a new connection *)
LEMMA TwiceConns ==
  ASSUME BInv, SlotInv, TwiceInv, Fixed, NEW t \in Threads, Only(t), moved' = moved, Plain' = Plain, ~Moving(t), ~Moving(t)',
         Len(opened') \in Nat, Len(opened) <= Len(opened'),
         NEW fd \in Fds, \A f \in Fds : f # fd => conns'[f] = conns[f], conns'[fd].id \in {0, Len(opened) + 1}
  PROVE  TwiceInv'
<1>1. /\ Threads' = Threads /\ Fds' = Fds /\ \A u \in Threads : u # t => th'[u] = th[u]
  BY DEF Fixed, Threads, Fds, Only, BInv, Shapes
<1>2. Len(opened) \in Nat /\ \A f \in Fds : conns[f].id \in 0 .. Len(opened)
  BY DEF BInv, Shapes, StoreOK
<1>3. \A u \in Threads : Moving(u)' => u # t /\ Moving(u) /\ th'[u] = th[u]
  BY <1>1 DEF Moving
<1>4. \A u \in Threads : Moving(u) => th[u].conn \in 1 .. Len(opened) /\ u # t
  BY DEF TwiceInv, Position
<1>5. \A c \in 1 .. Len(opened) : conns'[fd].id # c /\ c \in 1 .. Len(opened')
  BY <1>2
<1>6. Movers'
  <2>1. \A u, v \in Threads : Moving(u)' /\ Moving(v)' /\ th'[u].conn = th'[v].conn => u = v
    BY <1>3 DEF TwiceInv, Movers
  <2>2. \A u \in Threads, f \in Fds : Moving(u)' /\ conns'[f].id = th'[u].conn => f = th'[u].fd
    BY <1>3, <1>4, <1>5 DEF TwiceInv, Movers
  <2>3. \A f, g \in Fds : conns'[f].id = conns'[g].id /\ conns'[f].id # 0 => f = g
    BY <1>2 DEF TwiceInv, Movers
  <2> QED
    BY <1>1, <2>1, <2>2, <2>3 DEF Movers
<1>7. ASSUME NEW u \in Threads, Moving(u)' PROVE Position(u)'
  <2>1. Position(u) /\ th'[u] = th[u] /\ th[u].fd \in Fds
    BY <1>3, <1>7 DEF TwiceInv, BInv, Shapes, ThreadOK, Moving, DataOps
  <2>2. th[u].conn \in 1 .. Len(opened') /\ (conns'[th[u].fd].id = th[u].conn => conns'[th[u].fd] = conns[th[u].fd])
    BY <1>3, <1>4, <1>5, <1>7, <2>1
  <2> QED
    BY <2>1, <2>2 DEF Position, Landed, Planned, Want
<1>8. \A e \in Plain : e.conn \in 1 .. Len(opened') /\ e.dir \in DataOps /\ conns'[fd].id # e.conn
  BY <1>5 DEF TwiceInv
<1>9. ASSUME NEW u \in Threads, Moving(u)', NEW e \in Plain PROVE Beside(u, e)'
  <2>1. Beside(u, e) /\ th'[u] = th[u]
    BY <1>3, <1>9 DEF TwiceInv
  <2> QED
    BY <2>1 DEF Beside, OfCall, Before, Gone, Span, Planned, Want, Excused, Consumed, Bytes
<1>10. ASSUME NEW f \in Fds, NEW e \in Plain PROVE Past(f, e)'
  <2> SUFFICES ASSUME conns'[f].id = e.conn
               PROVE Gone(e, conns[f][e.dir])' \/ \E u \in Threads : Moving(u)' /\ th'[u].sys = e.sys
    BY <1>1 DEF Past
  <2>1. conns'[f] = conns[f] /\ Past(f, e)
    BY <1>8 DEF TwiceInv
  <2>2. \A u \in Threads : Moving(u) => Moving(u)' /\ th'[u] = th[u]
    BY <1>1, <1>4 DEF Moving
  <2> QED
    BY <2>1, <2>2 DEF Past, Gone, Span, Excused, Consumed, Bytes
<1>11. ASSUME NEW e \in Plain, NEW f \in Plain PROVE Separate(e, f)'
  <2>1. Separate(e, f)
    BY DEF TwiceInv
  <2> QED
    BY <2>1 DEF Separate, Span, Excused, Consumed, Bytes
<1> QED
  BY <1>1, <1>6, <1>7, <1>8, <1>9, <1>10, <1>11 DEF TwiceInv

LEMMA OpenTwice ==
  ASSUME BInv, SlotInv, TwiceInv, Fixed, SameOut, moved' = moved, NEW t \in Threads, Only(t), ~Moving(t), ~Moving(t)',
         NEW fd \in Fds, NEW entry, opened' = Append(opened, entry), conns' = [conns EXCEPT ![fd].id = Len(opened) + 1]
  PROVE  TwiceInv'
<1>1. Len(opened) \in Nat /\ Len(opened') = Len(opened) + 1
  BY DEF BInv, Shapes, StoreOK
<1>2. conns \in [Fds -> [id : 0 .. Len(opened), read : Nat, write : Nat]]
  BY DEF BInv, Shapes, StoreOK
<1>3. conns'[fd].id = Len(opened) + 1 /\ \A f \in Fds : f # fd => conns'[f] = conns[f]
  BY <1>2
<1>4. Plain' = Plain
  BY OutStays, PlainStays
<1> QED
  BY <1>1, <1>3, <1>4, TwiceConns

LEMMA CloseReturnTwice ==
  ASSUME BInv, SlotInv, TwiceInv, NEW t \in Threads, CloseReturn(t)
  PROVE  TwiceInv'
<1>0. Shapes
  BY DEF BInv
<1>1. /\ th[t].pc = "kernel" /\ th[t].op = "close" /\ Back(t) /\ conns' = [conns EXCEPT ![th[t].fd] = NoConn]
      /\ Fixed /\ opened' = opened /\ SameOut /\ moved' = moved
  BY <1>0, CloseReturnDoes
<1>2. Only(t) /\ ~Moving(t) /\ ~Moving(t)'
  BY <1>1 DEF Back, Blank, Moving, DataOps
<1> DEFINE fd == th[t].fd
<1>3. fd \in Fds /\ conns \in [Fds -> [id : 0 .. Len(opened), read : Nat, write : Nat]] /\ Len(opened) \in Nat
  <2>1. fd \in Fds
    BY <1>1 DEF BInv, Shapes, ThreadOK
  <2> QED
    BY <2>1 DEF BInv, Shapes, StoreOK
<1>4. conns'[fd].id = 0 /\ \A f \in Fds : f # fd => conns'[f] = conns[f]
  BY <1>1, <1>3 DEF NoConn
<1> HIDE DEF fd
<1>5. Plain' = Plain
  BY <1>1, OutStays, PlainStays
<1> QED
  BY <1>1, <1>2, <1>3, <1>4, <1>5, TwiceConns

(* nobody else moves data on the connection whose call begins *)
LEMMA NobodyMoves ==
  ASSUME BInv, TwiceInv, Overlap # "any", NEW t \in Threads, NEW fd \in Fds, NEW op, op # "close", MayEnter(t, fd, op),
         ~Moving(t), NEW u \in Threads, Moving(u)
  PROVE  th[u].conn # conns[fd].id
<1>1. ASSUME th[u].conn = conns[fd].id PROVE FALSE
  <2>1. th[u].fd = fd /\ u # t
    BY <1>1 DEF TwiceInv, Movers
  <2> QED
    BY <1>1, <2>1 DEF MayEnter
<1> QED
  BY <1>1

LEMMA EnterDataTwice ==
  ASSUME BInv, SlotInv, TwiceInv, Overlap # "any", NEW t \in Threads, NEW cpu,
         NEW dir \in DataOps, NEW fd \in Fds, NEW buf, NEW peek, EnterData(t, dir, fd, buf, peek, cpu)
  PROVE  TwiceInv'
<1>0. Shapes
  BY DEF BInv
<1>1. /\ Starts(t, dir, fd, cpu) /\ th'[t].dir = dir /\ th'[t].conn = conns[fd].id /\ th'[t].base = conns[fd][dir]
  BY <1>0, EnterDataDoes
<1>2. /\ conns[fd] # NoConn /\ MayEnter(t, fd, dir) /\ Fixed /\ conns' = conns /\ opened' = opened /\ SameOut /\ moved' = moved
  BY <1>0, EnterDataDoes
<1>3. th'[t].pc \in {"gen", "kernel"} /\ Same(t, StartFields \cup {"lossy", "dir", "buf", "peek", "conn", "base"})
  BY <1>0, EnterDataDoes
<1>4. /\ th[t].pc = "user" /\ th'[t].op = dir /\ th'[t].sys = calls + 1 /\ th'[t].fd = fd /\ Only(t)
      /\ th'[t].plan = <<>> /\ calls \in Nat /\ th[t].op = "none"
  <2>1. Only(t) /\ th'[t].plan = th[t].plan
    BY <1>3 DEF Same, Fields, StartFields
  <2>2. th[t].pc = "user" /\ th'[t].op = dir /\ th'[t].sys = calls + 1 /\ th'[t].fd = fd
    BY <1>1 DEF Starts
  <2>3. th[t].plan = <<>> /\ th[t].op = "none" /\ calls \in Nat
    BY <2>2 DEF BInv, Typed, Blank
  <2> QED
    BY <2>1, <2>2, <2>3
<1>5. ~Moving(t) /\ Moving(t)' /\ ~Landed(t)'
  BY <1>3, <1>4 DEF Moving, DataOps, Landed, Emitting
<1>6. conns[fd].id \in 1 .. Len(opened)
  BY <1>2 DEF BInv, Shapes, StoreOK
<1>7. /\ Threads' = Threads /\ Fds' = Fds /\ \A u \in Threads : u # t => th'[u] = th[u]
  BY <1>2, <1>4 DEF Fixed, Threads, Fds, Only, BInv, Shapes
<1>8. Plain' = Plain /\ dir # "close"
  BY <1>2, OutStays, PlainStays DEF DataOps
<1>9. \A u \in Threads : u # t => (Moving(u)' <=> Moving(u)) /\ (Moving(u) => th[u].conn # conns[fd].id)
  BY <1>2, <1>5, <1>7, <1>8, NobodyMoves DEF Moving
<1>10. Movers'
  <2>1. \A u, v \in Threads : Moving(u)' /\ Moving(v)' /\ th'[u].conn = th'[v].conn => u = v
    BY <1>1, <1>7, <1>9 DEF TwiceInv, Movers
  <2>2. \A f, g \in Fds : conns'[f].id = conns'[g].id /\ conns'[f].id # 0 => f = g
    BY <1>2 DEF TwiceInv, Movers
  <2>3. \A u \in Threads, f \in Fds : Moving(u)' /\ conns'[f].id = th'[u].conn => f = th'[u].fd
    <3>1. ASSUME NEW u \in Threads, NEW f \in Fds, u # t, Moving(u)', conns'[f].id = th'[u].conn PROVE f = th'[u].fd
      BY <1>2, <1>7, <1>9, <3>1 DEF TwiceInv, Movers
    <3>2. ASSUME NEW f \in Fds, conns[f].id = conns[fd].id PROVE f = fd
      BY <1>6, <3>2 DEF TwiceInv, Movers
    <3> QED
      BY <1>1, <1>2, <1>4, <3>1, <3>2
  <2> QED
    BY <1>7, <2>1, <2>2, <2>3 DEF Movers
<1>11. Position(t)'
  <2>1. Within(th[t].plan, Want(t))'
    BY <1>4 DEF Within
  <2> QED
    BY <1>1, <1>2, <1>4, <1>5, <1>6, <2>1 DEF Position
<1>12. ASSUME NEW u \in Threads, u # t, Moving(u) PROVE Position(u)'
  <2>1. Position(u) /\ th'[u] = th[u]
    BY <1>7, <1>12 DEF TwiceInv
  <2> QED
    BY <1>2, <2>1 DEF Position, Landed, Planned, Want
<1>13. ASSUME NEW e \in Plain PROVE Beside(t, e)'
  <2>1. e.sys # calls + 1
    BY <1>4 DEF BInv, EventOK, Plain
  <2>2. ASSUME e.conn = conns[fd].id, e.dir = dir PROVE Gone(e, conns[fd][dir])
    <3>1. Past(fd, e)
      BY DEF TwiceInv
    <3>2. ASSUME NEW u \in Threads, Moving(u), th[u].sys = e.sys PROVE FALSE
      <4>1. OfCall(u, e) /\ u # t
        BY <1>5, <3>2 DEF TwiceInv, Beside
      <4> QED
        BY <1>9, <2>2, <3>2, <4>1 DEF OfCall
    <3> QED
      BY <2>2, <3>1, <3>2 DEF Past
  <2> QED
    BY <1>1, <1>2, <1>4, <2>1, <2>2 DEF Beside, Before, Gone, Span, Excused, Consumed, Bytes
<1>14. ASSUME NEW u \in Threads, u # t, Moving(u), NEW e \in Plain PROVE Beside(u, e)'
  <2>1. Beside(u, e) /\ th'[u] = th[u]
    BY <1>7, <1>14 DEF TwiceInv
  <2> QED
    BY <1>2, <2>1 DEF Beside, OfCall, Before, Gone, Span, Planned, Want, Excused, Consumed, Bytes
<1>15. ASSUME NEW f \in Fds, NEW e \in Plain PROVE Past(f, e)'
  <2>1. Past(f, e)
    BY DEF TwiceInv
  <2>2. \A u \in Threads : Moving(u) => Moving(u)' /\ th'[u] = th[u]
    BY <1>5, <1>7, <1>9
  <2>3. \A s, b : Excused(s, b)' <=> Excused(s, b)
    BY <1>2 DEF Excused, Consumed, Bytes
  <2> QED
    BY <1>2, <1>7, <2>1, <2>2, <2>3 DEF Past, Gone, Span
<1>16. ASSUME NEW e \in Plain, NEW f \in Plain PROVE Separate(e, f)'
  BY <1>2 DEF TwiceInv, Separate, Span, Excused, Consumed, Bytes
<1>17. \A u \in Threads : Moving(u)' => Position(u)'
  BY <1>9, <1>11, <1>12
<1>18. \A u \in Threads, e \in Plain : Moving(u)' => Beside(u, e)'
  BY <1>9, <1>13, <1>14
<1>19. \A e \in Plain : e.conn \in 1 .. Len(opened') /\ e.dir \in DataOps
  BY <1>2 DEF TwiceInv
<1> QED
  BY <1>7, <1>8, <1>10, <1>15, <1>16, <1>17, <1>18, <1>19 DEF TwiceInv

LEMMA EnterTwice ==
  ASSUME BInv, SlotInv, TwiceInv, NEW t \in Threads, NEW cpu,
         \/ \E fd \in Fds : EnterClose(t, fd, cpu)
         \/ \E fd \in Fds, port \in Ports \cup {NoPort} : EnterConnect(t, fd, port, cpu)
         \/ EnterBind(t, cpu) \/ EnterAccept(t, cpu)
  PROVE  TwiceInv'
<1>0. Shapes
  BY DEF BInv
<1>1. th[t].pc = "user" => ~Moving(t)
  BY DEF BInv, Typed, Blank, Moving, DataOps
<1>2. ASSUME NEW fd, EnterClose(t, fd, cpu) PROVE TwiceInv'
  <2>1. /\ Starts(t, "close", fd, cpu) /\ Fixed /\ SameOut /\ moved' = moved /\ conns' = conns /\ opened' = opened
        /\ Same(t, StartFields \cup {"conn"})
    BY <1>0, <1>2, EnterCloseDoes
  <2>2. Only(t) /\ ~Moving(t) /\ ~Moving(t)'
    BY <1>1, <2>1 DEF Same, Starts, Moving, DataOps
  <2> QED
    BY <2>1, <2>2, TwiceQuiet, OutStays, PlainStays
<1>3. ASSUME NEW fd \in Fds, NEW port, EnterConnect(t, fd, port, cpu) PROVE TwiceInv'
  <2>1. /\ Fixed /\ SameOut /\ moved' = moved /\ opened' = Append(opened, [local |-> NoPort, remote |-> port])
        /\ conns' = [conns EXCEPT ![fd].id = Len(opened) + 1]
    BY <1>0, <1>3, EnterConnectDoes
  <2>2. Only(t) /\ ~Moving(t) /\ ~Moving(t)'
    <3>1. CASE th' = th /\ th[t].pc = "user"
      BY <1>0, <1>1, <3>1, ThreadDomain DEF Only, Moving
    <3>2. CASE Starts(t, "connect", fd, cpu) /\ Same(t, StartFields \cup {"conn"})
      BY <1>1, <3>2 DEF Same, Starts, Moving, DataOps
    <3> QED
      BY <1>0, <1>3, <3>1, <3>2, EnterConnectDoes
  <2>3. PICK entry : entry = [local |-> NoPort, remote |-> port]
    OBVIOUS
  <2> QED
    BY <2>1, <2>2, <2>3, OpenTwice
<1>4. CASE EnterBind(t, cpu) \/ EnterAccept(t, cpu)
  <2>1. /\ Fixed /\ SameOut /\ moved' = moved /\ conns' = conns /\ opened' = opened /\ Same(t, StartFields)
        /\ \E op \in {"bind", "accept"} : Starts(t, op, Listener, cpu)
    BY <1>0, <1>4, EnterListenerDoes
  <2>2. Only(t) /\ ~Moving(t) /\ ~Moving(t)'
    BY <1>1, <2>1 DEF Same, Starts, Moving, DataOps
  <2> QED
    BY <2>1, <2>2, TwiceQuiet, OutStays, PlainStays
<1> QED
  BY <1>2, <1>3, <1>4

LEMMA SslTwice ==
  ASSUME BInv, SlotInv, TwiceInv, NEW t \in Threads,
         \/ \E n, cpu : SslReturn(t, n, cpu)
         \/ \E fd, dir : SslEnter(t, fd, dir)
  PROVE  TwiceInv'
<1>0. Shapes
  BY DEF BInv
<1>1. th[t].pc = "user" => ~Moving(t) /\ th[t].op = "none"
  BY DEF BInv, Typed, Blank, Moving, DataOps
<1>2. ASSUME NEW n, NEW cpu, SslReturn(t, n, cpu) PROVE TwiceInv'
  <2>1. Fixed /\ SameOut /\ moved' = moved /\ conns' = conns /\ opened' = opened /\ th[t].pc = "user"
    BY <1>0, <1>2, SslReturnDoes
  <2>2. Only(t) /\ ~Moving(t)'
    <3>1. CASE Back(t)
      BY <3>1 DEF Back, Blank, Moving, DataOps
    <3>2. CASE SslStarts(t, n, cpu)
      BY <3>2 DEF SslStarts, Moving, DataOps
    <3> QED
      BY <1>0, <1>2, <3>1, <3>2, SslReturnDoes
  <2> QED
    BY <1>1, <2>1, <2>2, TwiceQuiet, OutStays, PlainStays
<1>3. ASSUME NEW fd, NEW dir, SslEnter(t, fd, dir) PROVE TwiceInv'
  <2>1. /\ Fixed /\ SameOut /\ moved' = moved /\ SameApp /\ Same(t, {"ssl", "sslDir", "touched"}) /\ th[t].pc = "user"
    BY <1>0, <1>3, SslEnterDoes
  <2>2. Only(t) /\ ~Moving(t)'
    BY <1>1, <2>1 DEF Same, Fields, Moving, DataOps
  <2> QED
    BY <1>1, <2>1, <2>2, TwiceQuiet, OutStays, PlainStays DEF SameApp
<1> QED
  BY <1>2, <1>3

LEMMA AcceptTwice ==
  ASSUME BInv, SlotInv, TwiceInv, NEW t \in Threads,
         AcceptFails(t) \/ \E fd \in Fds : \E port, cpu : AcceptReturn(t, fd, port, cpu)
  PROVE  TwiceInv'
<1>0. Shapes
  BY DEF BInv
<1>1. CASE AcceptFails(t)
  <2>1. th[t].op = "accept" /\ Back(t) /\ Fixed /\ SameApp /\ SameOut /\ moved' = moved
    BY <1>0, <1>1, AcceptFailsDoes
  <2> QED
    BY <2>1, TwiceBack, OutStays, PlainStays DEF SameApp, Moving, DataOps
<1>2. ASSUME NEW fd \in Fds, NEW port, NEW cpu, AcceptReturn(t, fd, port, cpu) PROVE TwiceInv'
  <2>1. /\ th[t].op = "accept" /\ Same(t, {"pc", "op", "fd", "cpu", "conn"}) /\ th'[t].op = "accepted"
        /\ opened' = Append(opened, [local |-> ListenPort, remote |-> port])
        /\ conns' = [conns EXCEPT ![fd].id = Len(opened) + 1] /\ Fixed /\ SameOut /\ moved' = moved
    BY <1>0, <1>2, AcceptReturnDoes
  <2>2. Only(t) /\ ~Moving(t) /\ ~Moving(t)'
    BY <2>1 DEF Same, Moving, DataOps
  <2>3. PICK entry : entry = [local |-> ListenPort, remote |-> port]
    OBVIOUS
  <2> QED
    BY <2>1, <2>2, <2>3, OpenTwice
<1> QED
  BY <1>1, <1>2

LEMMA TwiceSame ==
  ASSUME TwiceInv, app' = app, th' = th, moved' = moved, conns' = conns, opened' = opened, Plain' = Plain
  PROVE  TwiceInv'
<1>1. Threads' = Threads /\ Fds' = Fds
  BY DEF Threads, Fds
<1>2. Movers' /\ \A t \in Threads : Moving(t)' => Position(t)'
  BY <1>1 DEF TwiceInv, Movers, Moving, Position, Landed, Planned, Want
<1>3. \A t \in Threads, e \in Plain : Moving(t)' => Beside(t, e)'
  BY DEF TwiceInv, Moving, Beside, OfCall, Before, Gone, Span, Excused, Consumed, Bytes, Planned, Want
<1>4. \A f \in Fds, e \in Plain : Past(f, e)'
  BY <1>1 DEF TwiceInv, Past, Gone, Span, Excused, Consumed, Bytes, Moving
<1>5. \A e, f \in Plain : Separate(e, f)'
  BY DEF TwiceInv, Separate, Span, Excused, Consumed, Bytes
<1> QED
  BY <1>1, <1>2, <1>3, <1>4, <1>5 DEF TwiceInv

LEMMA InitTwice ==
  ASSUME Init
  PROVE  TwiceInv
<1>1. \A t \in Threads : ~Moving(t)
  BY InitShapes DEF Idle, Moving, DataOps
<1>2. Plain = {}
  BY InitShapes DEF Plain
<1>3. \A f \in Fds : conns[f].id = 0
  BY DEF Init, NoConn
<1> QED
  BY <1>1, <1>2, <1>3 DEF TwiceInv, Movers

LEMMA NextTwice ==
  ASSUME BInv, SlotInv, LossInv, TwiceInv, Overlap # "any", Next
  PROVE  TwiceInv'
<1>1. ASSUME NEW t \in Threads, NEW cpu \in Cpus, AppStep(t, cpu) PROVE TwiceInv'
  BY <1>1, EnterDataTwice, EnterTwice, ReadReturnTwice, AcceptTwice, SslTwice DEF AppStep, DataOps
<1>2. ASSUME NEW t \in Threads, ProbeStep(t) PROVE TwiceInv'
  BY <1>2, GenerationTwice, FilterTwice, LearnTupleTwice, EmitTwice, SeqTwice, CopyTwice, EmitDoneTwice DEF ProbeStep
<1>3. ASSUME NEW t \in Threads, KernelStep(t) PROVE TwiceInv'
  BY <1>3, WriteReturnTwice, CloseReturnTwice, AcceptTwice, SslTwice DEF KernelStep
<1>4. ASSUME NEW c \in Cpus, AgentRead(c) PROVE TwiceInv'
  BY <1>4, AgentReadDoes, ReadSubmits, PlainStays, TwiceSame DEF Fixed, SameApp
<1> QED
  BY <1>1, <1>2, <1>3, <1>4 DEF Next

LEMMA StutterTwice ==
  ASSUME TwiceInv, UNCHANGED vars
  PROVE  TwiceInv'
<1>1. Submitted' = Submitted
  BY DEF vars, Submitted, Ready
<1> QED
  BY <1>1, PlainStays, TwiceSame DEF vars

(* A byte of a connection's stream is in two events only if one of their    *)
(* calls put it in an event without consuming it: a write that did not send *)
(* it, or a read that only peeked at it.  This holds for every application  *)
(* that does not make overlapping calls on a descriptor, closing it under a *)
(* blocked read apart.                                                      *)
THEOREM CapturedOnce == Spec => [](Overlap # "any" => NothingCapturedTwice)
<1> DEFINE I == BInv /\ SlotInv /\ LossInv /\ (Overlap # "any" => TwiceInv)
<1>1. Init => I
  BY InitTyped, InitSlots, InitLoss, InitTwice
<1>2. I /\ [Next]_vars => I'
  <2> SUFFICES ASSUME I, [Next]_vars PROVE I'
    OBVIOUS
  <2>1. BInv' /\ SlotInv' /\ LossInv'
    BY NextTyped, NextSlots, NextLoss, StutterTyped, StutterSlots, StutterLoss
  <2>2. Overlap' = Overlap
    BY WorkloadStays DEF Overlap, vars
  <2>3. Overlap # "any" => TwiceInv'
    BY NextTwice, StutterTwice
  <2> QED
    BY <2>1, <2>2, <2>3
<1>3. I => (Overlap # "any" => NothingCapturedTwice)
  BY SeparateSpans
<1> HIDE DEF I
<1> QED
  BY <1>1, <1>2, <1>3, PTL DEF Spec

-----------------------------------------------------------------------------
(* Each generation is one numbered sequence of events *)

(* the applications for which the numbering can be expected *)
Ordered == Overlap = "none" /\ SslMode # "buffered" /\ ~app.full

(* the event that has number k in generation g of f was submitted or discarded *)
Taken(f, g, k) ==
  \/ \E e \in Submitted : e.fd = f /\ e.gen = g /\ e.seq = k
  \/ \E d \in discarded : d.fd = f /\ d.gen = g /\ d.seq = k
Numbered(f, g, n) == \A k : Taken(f, g, k) <=> k \in 0 .. n - 1

On(t) == {th[t].fd, th[t].ssl}
Alone == \A t, u \in Threads, f \in Fds : f \in On(t) /\ f \in On(u) => t = u

(* the number is with t, or the generation is new and the number an old one *)
Counting(t, f) == th[t].fd = f /\ th[t].pc \in {"copy", "reset"}
(* t's close event is submitted, and its generation still in force *)
Closed(t) == Closing(t, {"emit", "untuple", "bump"}) /\ th[t].plan = <<>>

SeqThread(t) ==
  /\ HasGen(t) \/ Saved(t) => th[t].gen = fd_generations[th[t].fd]
  /\ th[t].pc = "initgen" /\ th[t].fd \in Fds => fd_generations[th[t].fd] = 0
  /\ th[t].pc = "put" => th[t].seq = event_seqnos[th[t].fd]
  /\ th[t].pc = "copy" => event_seqnos[th[t].fd] = th[t].seq + 1 /\ Numbered(th[t].fd, th[t].gen, th[t].seq)
  /\ Closing(t, {"reset", "kernel"}) => \A k : ~Taken(th[t].fd, Gen(th[t].fd), k)
  /\ Closing(t, Emitting) => th[t].plan \in {<<>>, ControlEvent}

FdOK(f) ==
  /\ \A g, k : Taken(f, g, k) => g \in 1 .. Gen(f)
  /\ \A g \in 1 .. Gen(f) - 1 : \E n \in Nat : Numbered(f, g, n)
  /\ (\A t \in Threads : ~Counting(t, f)) => Numbered(f, Gen(f), event_seqnos[f])
  /\ \A e \in Submitted : e.type = "close" /\ e.fd = f /\ e.gen = Gen(f) =>
       \E t \in Threads : Closed(t) /\ th[t].fd = f

Distinct ==
  /\ \A e, f \in Submitted : SameFlow(e, f) /\ e.seq = f.seq => e = f
  /\ \A e \in Submitted, d \in discarded : ~(e.fd = d.fd /\ e.gen = d.gen /\ e.seq = d.seq)
  /\ \A e, f \in Submitted : SameFlow(e, f) /\ e.type = "close" /\ f # e => f.seq < e.seq

SeqInv == Alone /\ Distinct /\ (\A t \in Threads : SeqThread(t)) /\ \A f \in Fds : FdOK(f)

LEMMA TakenSame ==
  ASSUME NEW f, Submitted \subseteq Submitted', discarded \subseteq discarded',
         \A e \in Submitted' : e \in Submitted \/ e.fd # f, \A d \in discarded' : d \in discarded \/ d.fd # f
  PROVE  \A g, k : Taken(f, g, k)' <=> Taken(f, g, k)
BY DEF Taken

(* a step of t disturbs only the descriptor it works on *)
LEMMA SeqStep ==
  ASSUME BInv, SeqInv, Fixed, NEW t \in Threads, Only(t), NEW F, F = th[t].fd,
         \A f \in Fds : f # F => fd_generations'[f] = fd_generations[f] /\ event_seqnos'[f] = event_seqnos[f],
         Submitted \subseteq Submitted', discarded \subseteq discarded',
         \A e \in Submitted' : e \in Submitted \/ e.fd = F, \A d \in discarded' : d \in discarded \/ d.fd = F,
         Alone', Distinct', SeqThread(t)', F \in Fds => FdOK(F)',
         th'[t].fd = F \/ th'[t].pc \notin {"copy", "reset"}
  PROVE  SeqInv'
<1>1. /\ Threads' = Threads /\ Fds' = Fds /\ \A u \in Threads : u # t => th'[u] = th[u]
  BY DEF Fixed, Threads, Fds, Only, BInv, Shapes
<1>2. ASSUME NEW f, f # F PROVE \A g, k : Taken(f, g, k)' <=> Taken(f, g, k)
  BY <1>2, TakenSame
<1>3. ASSUME NEW f, f # F PROVE \A g, n : Numbered(f, g, n)' <=> Numbered(f, g, n)
  BY <1>2, <1>3 DEF Numbered
<1>4. ASSUME NEW f \in Fds, f # F PROVE Gen(f)' = Gen(f) /\ event_seqnos'[f] = event_seqnos[f] /\ fd_generations'[f] = fd_generations[f]
  BY <1>4 DEF Gen
<1>5. ASSUME NEW u \in Threads, u # t PROVE SeqThread(u)'
  <2>1. SeqThread(u) /\ th'[u] = th[u] /\ ThreadOK(u)
    BY <1>1, <1>5 DEF SeqInv, BInv, Shapes
  <2>2. CASE th[u].fd \in Fds
    <3>0. PICK f \in Fds : f = th[u].fd /\ f = th'[u].fd
      BY <2>1, <2>2
    <3>1. f # F
      BY <1>5, <3>0 DEF SeqInv, Alone, On
    <3>2. /\ Gen(f)' = Gen(f) /\ event_seqnos'[f] = event_seqnos[f] /\ fd_generations'[f] = fd_generations[f]
          /\ \A g, k : Taken(f, g, k)' <=> Taken(f, g, k)
          /\ \A g, n : Numbered(f, g, n)' <=> Numbered(f, g, n)
      BY <1>2, <1>3, <1>4, <3>1
    <3>3. /\ (HasGen(u) \/ Saved(u))' => th'[u].gen = fd_generations'[f]
          /\ th'[u].pc = "initgen" => fd_generations'[f] = 0
          /\ th'[u].pc = "put" => th'[u].seq = event_seqnos'[f]
          /\ Closing(u, Emitting)' => th'[u].plan \in {<<>>, ControlEvent}
      BY <1>1, <2>1, <3>0, <3>2 DEF SeqThread, HasGen, Saved, Closing
    <3>4. ASSUME th[u].pc = "copy" PROVE event_seqnos'[f] = th'[u].seq + 1 /\ Numbered(f, th[u].gen, th[u].seq)'
      <4>1. Numbered(f, th[u].gen, th[u].seq) /\ event_seqnos[f] = th[u].seq + 1
        BY <2>1, <3>0, <3>4 DEF SeqThread
      <4>2. PICK g, n : g = th[u].gen /\ n = th[u].seq
        OBVIOUS
      <4>3. Numbered(f, g, n)'
        BY <3>2, <4>1, <4>2
      <4> QED
        BY <2>1, <3>2, <4>1, <4>2, <4>3 DEF Numbered
    <3>5. ASSUME Closing(u, {"reset", "kernel"}) PROVE \A k : ~Taken(f, Gen(f), k)'
      <4>1. \A k : ~Taken(f, Gen(f), k)
        BY <2>1, <3>0, <3>5 DEF SeqThread
      <4>2. PICK g : g = Gen(f)
        OBVIOUS
      <4>3. \A k : ~Taken(f, g, k)'
        BY <3>2, <4>1, <4>2
      <4> QED
        BY <3>2, <4>2, <4>3 DEF Taken
    <3>6. Closing(u, {"reset", "kernel"})' => Closing(u, {"reset", "kernel"})
      BY <2>1 DEF Closing
    <3>7. th'[u].pc = "copy" => event_seqnos'[th'[u].fd] = th'[u].seq + 1 /\ Numbered(th[u].fd, th[u].gen, th[u].seq)'
      BY <2>1, <3>0, <3>4 DEF Numbered
    <3>8. Closing(u, {"reset", "kernel"})' => \A k : ~Taken(th[u].fd, Gen(th[u].fd), k)'
      BY <3>0, <3>5, <3>6 DEF Taken, Gen
    <3> QED
      BY <3>0, <3>3, <3>7, <3>8 DEF SeqThread
  <2>3. CASE th[u].fd \notin Fds
    <3>1. /\ ~HasGen(u) /\ ~Saved(u) /\ th[u].pc \notin {"put", "copy"} /\ th[u].op # "close"
      BY <2>1, <2>3 DEF HasGen, Saved, ThreadOK, Emitting
    <3> QED
      BY <1>1, <2>1, <2>3, <3>1 DEF SeqThread, HasGen, Saved, Closing
  <2> QED
    BY <2>2, <2>3
<1>6. ASSUME NEW f \in Fds, f # F PROVE FdOK(f)'
  <2>1. FdOK(f) /\ Gen(f)' = Gen(f) /\ event_seqnos'[f] = event_seqnos[f]
    BY <1>4, <1>6 DEF SeqInv
  <2>2. \A u \in Threads : Counting(u, f) => Counting(u, f)'
    BY <1>1, <1>6 DEF Counting
  <2>3. \A u \in Threads : Closed(u) /\ th[u].fd = f => Closed(u)' /\ th'[u].fd = f
    BY <1>1, <1>6 DEF Closed, Closing
  <2>4. \A g, k : Taken(f, g, k)' => g \in 1 .. Gen(f)'
    BY <1>2, <1>6, <2>1 DEF FdOK
  <2>5. \A g \in 1 .. Gen(f)' - 1 : \E n \in Nat : Numbered(f, g, n)'
    BY <1>3, <1>6, <2>1 DEF FdOK
  <2>6. (\A u \in Threads : ~Counting(u, f)') => Numbered(f, Gen(f), event_seqnos[f])'
    <3>1. SUFFICES ASSUME \A u \in Threads : ~Counting(u, f)' PROVE \A k : Taken(f, Gen(f), k)' <=> k \in 0 .. event_seqnos[f] - 1
      BY <2>1 DEF Numbered
    <3>2. Numbered(f, Gen(f), event_seqnos[f])
      BY <2>1, <2>2, <3>1 DEF FdOK
    <3>3. \A g, k : Taken(f, g, k)' <=> Taken(f, g, k)
      BY <1>2, <1>6
    <3> QED
      BY <2>1, <3>2, <3>3 DEF Numbered, Taken
  <2>7. \A e \in Submitted' : e.type = "close" /\ e.fd = f /\ e.gen = Gen(f)' => \E u \in Threads : Closed(u)' /\ th'[u].fd = f
    BY <1>6, <2>1, <2>3 DEF FdOK
  <2> QED
    BY <1>1, <2>4, <2>5, <2>6, <2>7 DEF FdOK
<1> QED
  BY <1>1, <1>5, <1>6 DEF SeqInv

LEMMA AloneStays ==
  ASSUME Shapes, Alone, Fixed, NEW t \in Threads, Only(t),
         \A f \in Fds : f \in {th'[t].fd, th'[t].ssl} => f \in On(t) \/ \A u \in Threads \ {t} : f \notin On(u)
  PROVE  Alone'
<1>1. Threads' = Threads /\ Fds' = Fds /\ \A u \in Threads : u # t => th'[u] = th[u]
  BY DEF Fixed, Threads, Fds, Only, Shapes
<1>2. \A u \in Threads : u # t => On(u)' = On(u)
  BY <1>1 DEF On
<1>3. On(t)' = {th'[t].fd, th'[t].ssl}
  BY DEF On
<1> QED
  BY <1>1, <1>2, <1>3 DEF Alone

LEMMA EnterAlone ==
  ASSUME NEW t, NEW fd, NEW op, MayEnter(t, fd, op), Overlap = "none"
  PROVE  \A u \in Threads \ {t} : fd \notin On(u)
BY DEF MayEnter, On

LEMMA DistinctStays ==
  ASSUME Distinct, Submitted' = Submitted, discarded' = discarded
  PROVE  Distinct'
BY DEF Distinct, SameFlow

(* a step that neither counts nor submits *)
LEMMA SeqQuiet ==
  ASSUME BInv, SeqInv, Fixed, NEW t \in Threads, Only(t),
         \A f \in Fds : Gen(f)' = Gen(f) /\ (f # th[t].fd => fd_generations'[f] = fd_generations[f]),
         event_seqnos' = event_seqnos, Submitted' = Submitted, discarded' = discarded,
         th[t].pc \notin {"copy", "reset"}, th'[t].pc \notin {"copy", "reset"},
         Closed(t) => Closed(t)' /\ th'[t].fd = th[t].fd,
         \A f \in Fds : f \in {th'[t].fd, th'[t].ssl} => f \in On(t) \/ \A u \in Threads \ {t} : f \notin On(u),
         SeqThread(t)'
  PROVE  SeqInv'
<1>0. PICK F : F = th[t].fd
  OBVIOUS
<1>1. Threads' = Threads /\ Fds' = Fds /\ \A u \in Threads : u # t => th'[u] = th[u]
  BY DEF Fixed, Threads, Fds, Only, BInv, Shapes
<1>2. Alone' /\ Distinct'
  BY AloneStays, DistinctStays DEF SeqInv, BInv
<1>3. /\ \A f, g, k : Taken(f, g, k)' <=> Taken(f, g, k)
      /\ \A f, g, n : Numbered(f, g, n)' <=> Numbered(f, g, n)
  BY DEF Taken, Numbered
<1>4. ASSUME F \in Fds PROVE FdOK(F)'
  <2>1. FdOK(F) /\ Gen(F)' = Gen(F)
    BY <1>4 DEF SeqInv
  <2>2. \A u \in Threads : u # t => th[u].fd # F
    BY <1>0, <1>4 DEF SeqInv, Alone, On
  <2>3. \A u \in Threads : ~Counting(u, F)
    BY <1>0, <2>2 DEF Counting
  <2>4. Numbered(F, Gen(F), event_seqnos[F])
    BY <2>1, <2>3 DEF FdOK
  <2>5. PICK g, n : g = Gen(F) /\ n = event_seqnos[F] /\ g = Gen(F)' /\ n = event_seqnos'[F]
    BY <2>1
  <2>6. Numbered(F, g, n)'
    BY <1>3, <2>4, <2>5
  <2>7. Numbered(F, Gen(F), event_seqnos[F])'
    BY <2>5, <2>6 DEF Numbered
  <2>8. \A u \in Threads : Closed(u) /\ th[u].fd = F => Closed(u)' /\ th'[u].fd = F
    BY <1>0, <2>2
  <2>9. /\ \A a, k : Taken(F, a, k)' => a \in 1 .. Gen(F)'
        /\ \A a \in 1 .. Gen(F)' - 1 : \E m \in Nat : Numbered(F, a, m)'
    BY <1>3, <2>1 DEF FdOK
  <2>10. \A e \in Submitted' : e.type = "close" /\ e.fd = F /\ e.gen = Gen(F)' => \E u \in Threads : Closed(u)' /\ th'[u].fd = F
    BY <2>1, <2>8 DEF FdOK
  <2> QED
    BY <1>1, <2>7, <2>9, <2>10 DEF FdOK
<1> QED
  BY <1>0, <1>2, <1>4, SeqStep

(* nothing is recorded of a thread that is entering or leaving a call *)
LEMMA SeqNone ==
  ASSUME NEW t, \/ th'[t].pc \in {"user", "gen"}
                \/ th'[t].pc = "kernel" /\ th'[t].op # "close" /\ (th'[t].op = "read" => th'[t].ctx = 0)
  PROVE  SeqThread(t)'
BY DEF SeqThread, HasGen, Saved, Closing, Emitting

LEMMA GenStays ==
  ASSUME SameMaps
  PROVE  /\ event_seqnos' = event_seqnos
         /\ \A f : Gen(f)' = Gen(f) /\ fd_generations'[f] = fd_generations[f]
BY DEF SameMaps, Gen

LEMMA SeqBack ==
  ASSUME BInv, SeqInv, Fixed, SameMaps, SameOut, NEW t \in Threads, Back(t), th[t].pc \notin {"copy", "reset"},
         ~Closed(t)
  PROVE  SeqInv'
<1>1. Only(t) /\ th'[t].pc = "user" /\ th'[t].fd = NoFd /\ th'[t].ssl \in {th[t].ssl, NoFd}
  BY DEF Back, Blank
<1>2. NoFd \notin Fds
  BY DEF BInv, Shapes, AllFds
<1>3. Submitted' = Submitted /\ discarded' = discarded
  BY OutStays DEF SameOut
<1> QED
  BY <1>1, <1>2, <1>3, SeqNone, GenStays, SeqQuiet DEF On

(* t starts a call on a descriptor that no other thread uses *)
LEMMA SeqStart ==
  ASSUME BInv, SeqInv, Overlap = "none", Fixed, SameMaps, SameOut, NEW t \in Threads, Only(t), NEW fd, NEW op,
         th[t].pc \in {"user", "kernel"}, th[t].op # "close",
         \A f \in Fds : f \in {th'[t].fd, th'[t].ssl} => f \in On(t) \/ (f = fd /\ MayEnter(t, fd, op)),
         \/ th'[t].pc \in {"user", "gen"}
         \/ th'[t].pc = "kernel" /\ th'[t].op # "close" /\ (th'[t].op = "read" => th'[t].ctx = 0)
  PROVE  SeqInv'
<1>1. Submitted' = Submitted /\ discarded' = discarded
  BY OutStays DEF SameOut
<1>2. ~Closed(t)
  BY DEF Closed, Closing
<1>3. \A f \in Fds : f \in {th'[t].fd, th'[t].ssl} => f \in On(t) \/ \A u \in Threads \ {t} : f \notin On(u)
  BY EnterAlone
<1> QED
  BY <1>1, <1>2, <1>3, SeqNone, GenStays, SeqQuiet

LEMMA EnterDataSeq ==
  ASSUME BInv, SeqInv, Overlap = "none", NEW t \in Threads, NEW dir, NEW fd, NEW buf, NEW peek, NEW cpu, EnterData(t, dir, fd, buf, peek, cpu),
         dir \in DataOps
  PROVE  SeqInv'
<1>0. Shapes /\ Typed(t)
  BY DEF BInv
<1>1. /\ Starts(t, dir, fd, cpu) /\ Same(t, StartFields \cup {"lossy", "dir", "buf", "peek", "conn", "base"}) /\ MayEnter(t, fd, dir)
      /\ th'[t].pc \in {"gen", "kernel"} /\ Fixed /\ SameMaps /\ SameOut
  BY <1>0, EnterDataDoes
<1>2. Only(t) /\ th'[t].ssl = th[t].ssl /\ th'[t].ctx = th[t].ctx /\ th'[t].fd = fd /\ th'[t].op = dir
  BY <1>1 DEF Same, Fields, StartFields, Starts
<1>3. th[t].pc = "user" /\ th[t].ctx = 0 /\ th[t].op = "none"
  BY <1>0, <1>1 DEF Starts, Typed, Blank
<1> QED
  BY <1>1, <1>2, <1>3, SeqStart DEF On, DataOps

LEMMA EnterSeq ==
  ASSUME BInv, SeqInv, Overlap = "none", NEW t \in Threads, NEW cpu,
         \/ \E fd \in Fds : EnterClose(t, fd, cpu)
         \/ \E fd \in Fds, port \in Ports \cup {NoPort} : EnterConnect(t, fd, port, cpu)
         \/ EnterBind(t, cpu) \/ EnterAccept(t, cpu)
  PROVE  SeqInv'
<1>0. Shapes /\ (th[t].pc = "user" => th[t].op = "none" /\ th[t].fd = NoFd)
  BY DEF BInv, Typed, Blank
<1>1. ASSUME NEW fd, NEW op, Starts(t, op, fd, cpu), Same(t, StartFields \cup {"conn"}), th'[t].pc = "gen",
             fd \in Fds => MayEnter(t, fd, op), Fixed, SameMaps, SameOut
      PROVE  SeqInv'
  <2>1. Only(t) /\ th'[t].ssl = th[t].ssl /\ th'[t].fd = fd
    BY <1>1 DEF Same, Fields, StartFields, Starts
  <2>2. th[t].pc = "user" /\ th[t].op = "none"
    BY <1>0, <1>1 DEF Starts
  <2> QED
    BY <1>1, <2>1, <2>2, SeqStart DEF On
<1>2. ASSUME NEW fd, EnterClose(t, fd, cpu) PROVE SeqInv'
  BY <1>0, <1>1, <1>2, EnterCloseDoes
<1>3. ASSUME NEW fd \in Fds, NEW port, EnterConnect(t, fd, port, cpu) PROVE SeqInv'
  <2>1. CASE th' = th /\ th[t].pc = "user"
    <3>1. Fixed /\ SameMaps /\ SameOut /\ MayEnter(t, fd, "connect")
      BY <1>0, <1>3, EnterConnectDoes
    <3>2. Only(t) /\ th'[t].fd = th[t].fd /\ th'[t].ssl = th[t].ssl /\ th'[t].pc = "user"
      BY <1>0, <2>1, ThreadDomain DEF Only
    <3> QED
      BY <1>0, <2>1, <3>1, <3>2, SeqStart DEF On
  <2>2. CASE Starts(t, "connect", fd, cpu) /\ Same(t, StartFields \cup {"conn"}) /\ th'[t].pc = "gen"
    BY <1>0, <1>1, <1>3, <2>2, EnterConnectDoes
  <2> QED
    BY <1>0, <1>3, <2>1, <2>2, EnterConnectDoes
<1>4. CASE EnterBind(t, cpu) \/ EnterAccept(t, cpu)
  <2>1. PICK op : Starts(t, op, Listener, cpu)
    BY <1>0, <1>4, EnterListenerDoes
  <2>2. Same(t, StartFields) /\ th'[t].pc = "gen" /\ Fixed /\ SameMaps /\ SameOut /\ Listener \notin Fds
    BY <1>0, <1>4, EnterListenerDoes DEF Shapes
  <2>3. Same(t, StartFields \cup {"conn"})
    BY <2>2 DEF Same
  <2> QED
    BY <1>1, <2>1, <2>2, <2>3
<1> QED
  BY <1>2, <1>3, <1>4

LEMMA SslSeq ==
  ASSUME BInv, SeqInv, Ordered, NEW t \in Threads,
         \/ \E n, cpu : SslReturn(t, n, cpu)
         \/ \E fd, dir : SslEnter(t, fd, dir)
  PROVE  SeqInv'
<1>0. Shapes /\ ThreadOK(t) /\ Overlap = "none" /\ SslMode # "buffered" /\ NoFd \notin Fds
  BY DEF BInv, Shapes, Ordered, AllFds
<1>1. th[t].pc = "user" => th[t].op = "none" /\ th[t].fd = NoFd
  BY DEF BInv, Typed, Blank
<1>2. ASSUME NEW n, NEW cpu, SslReturn(t, n, cpu) PROVE SeqInv'
  <2>1. Fixed /\ SameMaps /\ SameOut /\ th[t].pc = "user"
    BY <1>0, <1>2, SslReturnDoes
  <2>2. CASE Back(t)
    BY <1>1, <2>1, <2>2, SeqBack DEF Closed, Closing
  <2>3. CASE SslStarts(t, n, cpu)
    <3>1. Only(t) /\ th'[t].pc = "gen" /\ th'[t].fd = thread_last_fd[t] /\ th'[t].ssl = NoFd /\ SslHasData(t)
      BY <2>3 DEF SslStarts
    <3>2. th'[t].fd = th[t].ssl
      BY <1>0, <3>1 DEF SslHasData, ThreadOK
    <3>3. PICK fd, op : fd = th[t].ssl /\ op = "ssl"
      OBVIOUS
    <3> QED
      BY <1>0, <1>1, <2>1, <3>1, <3>2, <3>3, SeqStart DEF On
  <2> QED
    BY <1>0, <1>2, <2>2, <2>3, SslReturnDoes
<1>3. ASSUME NEW fd, NEW dir, SslEnter(t, fd, dir) PROVE SeqInv'
  <2>1. /\ Fixed /\ SameMaps /\ SameOut /\ Same(t, {"ssl", "sslDir", "touched"}) /\ th[t].pc = "user"
        /\ th'[t].ssl = fd /\ MayEnter(t, fd, dir)
    BY <1>0, <1>3, SslEnterDoes
  <2>2. Only(t) /\ th'[t].fd = th[t].fd /\ th'[t].pc = "user"
    BY <2>1 DEF Same, Fields
  <2> QED
    BY <1>0, <1>1, <2>1, <2>2, SeqStart DEF On
<1> QED
  BY <1>2, <1>3

LEMMA AcceptSeq ==
  ASSUME BInv, SeqInv, Overlap = "none", NEW t \in Threads,
         AcceptFails(t) \/ \E fd \in Fds : \E port, cpu : AcceptReturn(t, fd, port, cpu)
  PROVE  SeqInv'
<1>0. Shapes
  BY DEF BInv
<1>1. CASE AcceptFails(t)
  <2>1. th[t].op = "accept" /\ th[t].pc = "kernel" /\ Back(t) /\ Fixed /\ SameMaps /\ SameOut
    BY <1>0, <1>1, AcceptFailsDoes
  <2> QED
    BY <2>1, SeqBack DEF Closed, Closing
<1>2. ASSUME NEW fd \in Fds, NEW port, NEW cpu, AcceptReturn(t, fd, port, cpu) PROVE SeqInv'
  <2>1. /\ th[t].op = "accept" /\ th[t].pc = "kernel" /\ Same(t, {"pc", "op", "fd", "cpu", "conn"}) /\ th'[t].pc = "gen"
        /\ th'[t].fd = fd /\ MayEnter(t, fd, "accept") /\ Fixed /\ SameOut /\ SameMaps
    BY <1>0, <1>2, AcceptReturnDoes
  <2>2. Only(t) /\ th'[t].ssl = th[t].ssl
    BY <2>1 DEF Same, Fields
  <2> QED
    BY <2>1, <2>2, SeqStart DEF On
<1> QED
  BY <1>1, <1>2

LEMMA ReturnSeq ==
  ASSUME BInv, SeqInv, NEW t \in Threads, CloseReturn(t) \/ \E n : WriteReturn(t, n)
  PROVE  SeqInv'
<1>1. Shapes
  BY DEF BInv
<1>2. th[t].pc = "kernel" /\ Back(t) /\ Fixed /\ SameMaps /\ SameOut
  BY <1>1, CloseReturnDoes, WriteReturnDoes
<1> QED
  BY <1>2, SeqBack DEF Closed, Closing

(* t goes on with its call *)
LEMMA SeqOn ==
  ASSUME BInv, SeqInv, Fixed, SameMaps, Submitted' = Submitted, discarded' = discarded, NEW t \in Threads, Only(t),
         th'[t].fd = th[t].fd, th'[t].ssl = th[t].ssl,
         th[t].pc \notin {"copy", "reset"}, th'[t].pc \notin {"copy", "reset"},
         Closed(t) => Closed(t)', SeqThread(t)'
  PROVE  SeqInv'
BY GenStays, SeqQuiet DEF On

LEMMA ReadReturnSeq ==
  ASSUME BInv, SeqInv, NEW t \in Threads, NEW n, NEW cpu, ReadReturn(t, n, cpu)
  PROVE  SeqInv'
<1>0. Shapes /\ ThreadOK(t) /\ SeqThread(t)
  BY DEF BInv, Shapes, SeqInv
<1>1. th[t].pc = "kernel" /\ th[t].op = "read" /\ Fixed /\ SameMaps /\ SameOut
  BY <1>0, ReadReturnDoes
<1>2. CASE Back(t)
  BY <1>1, <1>2, SeqBack DEF Closed, Closing
<1>3. CASE /\ th[t].ctx # 0 /\ Same(t, {"pc", "cpu", "ret", "ctx", "gen", "plan"}) /\ th'[t].pc = "emit"
           /\ th'[t].gen = th[t].ctx
  <2>1. Only(t) /\ th'[t].fd = th[t].fd /\ th'[t].ssl = th[t].ssl /\ th'[t].op = th[t].op
    BY <1>3 DEF Same, Fields
  <2>2. th'[t].gen = fd_generations[th[t].fd] /\ fd_generations' = fd_generations
    BY <1>0, <1>1, <1>3 DEF ThreadOK, SeqThread, Saved, SameMaps
  <2>3. SeqThread(t)'
    BY <1>1, <1>3, <2>1, <2>2 DEF SeqThread, Closing
  <2>4. Submitted' = Submitted /\ discarded' = discarded
    BY <1>1, OutStays DEF SameOut
  <2> QED
    BY <1>1, <1>3, <2>1, <2>3, <2>4, SeqOn DEF Closed, Closing
<1> QED
  BY <1>0, <1>2, <1>3, ReadReturnDoes

LEMMA FilterSeq ==
  ASSUME BInv, SeqInv, NEW t \in Threads, Filter(t)
  PROVE  SeqInv'
<1>0. Shapes /\ ThreadOK(t) /\ SeqThread(t)
  BY DEF BInv, Shapes, SeqInv
<1>1. /\ Same(t, {"pc", "ctx", "touched", "plan", "lossy", "unread"}) /\ th[t].pc = "allowed" /\ Fixed /\ SameMaps /\ SameOut
  BY <1>0, FilterDoes
<1>2. Only(t) /\ th'[t].fd = th[t].fd /\ th'[t].ssl = th[t].ssl /\ th'[t].op = th[t].op /\ th'[t].gen = th[t].gen
  BY <1>1 DEF Same, Fields
<1>3. th[t].gen = fd_generations[th[t].fd] /\ fd_generations' = fd_generations
  BY <1>0, <1>1 DEF ThreadOK, SeqThread, HasGen, SameMaps
<1>4. /\ th'[t].pc \in {"kernel", "emit", "untuple"} /\ (th'[t].pc = "kernel" => th'[t].op # "close")
      /\ (th'[t].op = "close" /\ th'[t].pc = "emit" => th'[t].plan = ControlEvent)
  BY <1>0, <1>1, <1>2, FilterDoes
<1>5. SeqThread(t)'
  BY <1>2, <1>3, <1>4 DEF SeqThread, Closing, Emitting
<1>6. Submitted' = Submitted /\ discarded' = discarded
  BY <1>1, OutStays DEF SameOut
<1> QED
  BY <1>1, <1>2, <1>4, <1>5, <1>6, SeqOn DEF Closed, Closing

LEMMA LearnTupleSeq ==
  ASSUME BInv, SeqInv, NEW t \in Threads, LearnTuple(t)
  PROVE  SeqInv'
<1>0. Shapes /\ ThreadOK(t) /\ SeqThread(t)
  BY DEF BInv, Shapes, SeqInv
<1>1. /\ th[t].pc = "tuple" /\ fd_generations' = fd_generations /\ event_seqnos' = event_seqnos /\ Fixed /\ SameOut
  BY <1>0, LearnTupleDoes
<1>2. Submitted' = Submitted /\ discarded' = discarded
  BY <1>1, OutStays DEF SameOut
<1>3. \A f : Gen(f)' = Gen(f) /\ fd_generations'[f] = fd_generations[f]
  BY <1>1 DEF Gen
<1>4. ~Closed(t)
  BY <1>1 DEF Closed, Closing
<1>5. CASE Back(t)
  <2>1. Only(t) /\ th'[t].pc = "user" /\ th'[t].fd = NoFd /\ th'[t].ssl \in {th[t].ssl, NoFd} /\ NoFd \notin Fds
    BY <1>0, <1>5 DEF Back, Blank, Shapes, AllFds
  <2> QED
    BY <1>1, <1>2, <1>3, <1>4, <2>1, SeqNone, SeqQuiet DEF On
<1>6. CASE Same(t, {"pc", "plan", "ctx"}) /\ th'[t].pc = "emit" /\ th[t].op \in {"connect", "accepted"}
  <2>1. Only(t) /\ th'[t].fd = th[t].fd /\ th'[t].ssl = th[t].ssl /\ th'[t].op = th[t].op /\ th'[t].gen = th[t].gen
    BY <1>6 DEF Same, Fields
  <2>2. SeqThread(t)'
    BY <1>0, <1>1, <1>6, <2>1 DEF SeqThread, HasGen, Closing, Saved, Fixed, Fds
  <2> QED
    BY <1>1, <1>2, <1>3, <1>4, <1>6, <2>1, <2>2, SeqQuiet DEF On
<1> QED
  BY <1>0, <1>5, <1>6, LearnTupleDoes

LEMMA GenerationSeq ==
  ASSUME BInv, SeqInv, ~app.full, NEW t \in Threads, LookupGeneration(t) \/ InitGeneration(t)
  PROVE  SeqInv'
<1>0. Shapes /\ ThreadOK(t) /\ SeqThread(t)
  BY DEF BInv, Shapes, SeqInv
<1>1. /\ th[t].pc \in {"gen", "initgen"} /\ event_seqnos' = event_seqnos /\ Fixed /\ SameOut
  BY <1>0, GenerationDoes
<1>2. Submitted' = Submitted /\ discarded' = discarded
  BY <1>1, OutStays DEF SameOut
<1>3. ~Closed(t)
  BY <1>1 DEF Closed, Closing
<1>4. CASE /\ Same(t, {"pc"}) /\ th'[t].pc = "initgen" /\ fd_generations' = fd_generations /\ fd_generations[th[t].fd] = 0
  <2>1. Only(t) /\ th'[t].fd = th[t].fd /\ th'[t].ssl = th[t].ssl
    BY <1>4 DEF Same, Fields
  <2>2. SeqThread(t)'
    BY <1>4, <2>1 DEF SeqThread, HasGen, Saved, Closing, Emitting
  <2>3. \A f : Gen(f)' = Gen(f) /\ fd_generations'[f] = fd_generations[f]
    BY <1>4 DEF Gen
  <2> QED
    BY <1>1, <1>2, <1>3, <1>4, <2>1, <2>2, <2>3, SeqQuiet DEF On
<1>5. ASSUME NEW g \in Nat \ {0}, Generated(t, g), SetGeneration(th[t].fd, g),
             (th[t].pc = "gen" /\ fd_generations[th[t].fd] = g) \/ (th[t].pc = "initgen" /\ g = 1)
      PROVE  SeqInv'
  <2>1. /\ Same(t, {"pc", "gen", "ctx"}) /\ th'[t].gen = g /\ th'[t].pc \in {"allowed", "tuple", "kernel", "emit"}
        /\ th'[t].pc = "emit" => th[t].op = "ssl"
        /\ th'[t].pc = "kernel" => th[t].op = "accept"
    BY <1>0, <1>1, <1>5, GeneratedDoes
  <2>2. Only(t) /\ th'[t].fd = th[t].fd /\ th'[t].ssl = th[t].ssl /\ th'[t].op = th[t].op
    BY <2>1 DEF Same, Fields
  <2>3. fd_generations \in [AllFds -> Nat] /\ Fds \subseteq AllFds
    BY <1>0 DEF Shapes, StoreOK, AllFds
  <2>4. ASSUME NEW f \in Fds PROVE Gen(f)' = Gen(f) /\ (f # th[t].fd => fd_generations'[f] = fd_generations[f])
    <3>1. CASE f # th[t].fd
      BY <1>5, <2>3, <3>1 DEF Gen, SetGeneration
    <3>2. CASE f = th[t].fd
      <4>1. fd_generations'[f] = g
        BY <1>5, <2>3, <3>2 DEF SetGeneration
      <4>2. Gen(f) = g
        BY <1>0, <1>5, <3>2 DEF SeqThread, Gen
      <4> QED
        BY <3>2, <4>1, <4>2 DEF Gen
    <3> QED
      BY <3>1, <3>2
  <2>5. th[t].fd \in Fds => th'[t].gen = fd_generations'[th'[t].fd]
    BY <1>5, <2>1, <2>2, <2>3 DEF SetGeneration
  <2>6. SeqThread(t)'
    <3>1. (HasGen(t) \/ Saved(t))' => th[t].fd \in Fds
      BY <1>1, <2>1, <2>2 DEF HasGen, Saved, Fixed, Fds
    <3> QED
      BY <2>1, <2>2, <2>5, <3>1 DEF SeqThread, Closing, Emitting
  <2> QED
    BY <1>1, <1>2, <1>3, <2>1, <2>2, <2>4, <2>6, SeqQuiet DEF On
<1> QED
  BY <1>0, <1>4, <1>5, GenerationDoes

LEMMA EmptyTail == Tail(ControlEvent) = <<>>
<1>1. ControlEvent \in Seq({ControlEvent[1]}) /\ Len(ControlEvent) = 1
  BY DEF ControlEvent
<1>2. Tail(ControlEvent) \in Seq({ControlEvent[1]}) /\ Len(Tail(ControlEvent)) = 0
  BY <1>1
<1> QED
  BY <1>2, EmptySeq

LEMMA EmitSeq ==
  ASSUME BInv, SeqInv, NEW t \in Threads, EmitData(t) \/ EmitControl(t)
  PROVE  SeqInv'
<1>0. Shapes /\ RingsOK /\ ThreadOK(t) /\ SeqThread(t)
  BY DEF BInv, Shapes, SeqInv
<1>1. /\ th[t].pc = "emit" /\ th[t].plan # <<>> /\ EmitStarts(t) /\ Fixed /\ SameMaps /\ got' = got /\ discarded' = discarded
  BY <1>0, EmitDoes
<1>2. ~Closed(t) /\ th[t].gen = fd_generations[th[t].fd] /\ fd_generations' = fd_generations
  BY <1>0, <1>1 DEF Closed, ThreadOK, Emitting, SeqThread, HasGen, SameMaps
<1>3. CASE /\ Same(t, {"pc"}) /\ th'[t].pc = "seq"
           /\ rings' = [rings EXCEPT ![th[t].cpu] = Append(@, [st |-> "busy", id |-> <<th[t].sys, th[t].idx>>])]
  <2>1. th[t].cpu \in Cpus
    BY <1>0, <1>1 DEF ThreadOK
  <2>2. Submitted' = Submitted
    BY <1>0, <1>1, <1>3, <2>1, ReserveStep
  <2>3. /\ Only(t) /\ th'[t].fd = th[t].fd /\ th'[t].ssl = th[t].ssl /\ th'[t].op = th[t].op /\ th'[t].gen = th[t].gen
        /\ th'[t].plan = th[t].plan
    BY <1>3 DEF Same, Fields
  <2>4. SeqThread(t)'
    BY <1>0, <1>1, <1>2, <1>3, <2>3 DEF SeqThread, Closing, Emitting
  <2> QED
    BY <1>1, <1>2, <1>3, <2>2, <2>3, <2>4, SeqOn
<1>4. CASE Same(t, NextChunkFields) /\ th'[t].pc = "emit" /\ th'[t].plan = Tail(th[t].plan) /\ rings' = rings
  <2>1. /\ Only(t) /\ th'[t].fd = th[t].fd /\ th'[t].ssl = th[t].ssl /\ th'[t].op = th[t].op /\ th'[t].gen = th[t].gen
    BY <1>4 DEF Same, Fields, NextChunkFields
  <2>2. Submitted' = Submitted
    BY <1>1, <1>4, OutStays DEF SameOut
  <2>3. th[t].op = "close" => th'[t].plan = <<>>
    BY <1>0, <1>1, <1>4, EmptyTail DEF SeqThread, Closing, Emitting
  <2>4. SeqThread(t)'
    BY <1>2, <1>4, <2>1, <2>3 DEF SeqThread, Closing, Emitting
  <2> QED
    BY <1>1, <1>2, <1>4, <2>1, <2>2, <2>4, SeqOn
<1> QED
  BY <1>1, <1>3, <1>4 DEF EmitStarts

LEMMA LookupSeqSeq ==
  ASSUME BInv, SeqInv, NEW t \in Threads, LookupSeq(t)
  PROVE  SeqInv'
<1>0. Shapes /\ ThreadOK(t) /\ SeqThread(t)
  BY DEF BInv, Shapes, SeqInv
<1>1. /\ Same(t, {"pc", "seq"}) /\ th[t].pc = "seq" /\ th'[t].pc = "put" /\ th'[t].seq = event_seqnos[th[t].fd]
      /\ Fixed /\ SameMaps /\ SameOut
  BY <1>0, LookupSeqDoes
<1>2. /\ Only(t) /\ th'[t].fd = th[t].fd /\ th'[t].ssl = th[t].ssl /\ th'[t].op = th[t].op /\ th'[t].gen = th[t].gen
      /\ th'[t].plan = th[t].plan
  BY <1>1 DEF Same, Fields
<1>3. th[t].gen = fd_generations[th[t].fd] /\ fd_generations' = fd_generations /\ event_seqnos' = event_seqnos
  BY <1>0, <1>1 DEF ThreadOK, Emitting, SeqThread, HasGen, SameMaps
<1>4. SeqThread(t)'
  BY <1>0, <1>1, <1>2, <1>3 DEF SeqThread, Closing, Emitting
<1>5. Submitted' = Submitted /\ discarded' = discarded /\ ~Closed(t)
  BY <1>1, OutStays DEF SameOut, Closed, Closing
<1> QED
  BY <1>1, <1>2, <1>4, <1>5, SeqOn

LEMMA EmitDoneSeq ==
  ASSUME BInv, SeqInv, NEW t \in Threads, EmitDone(t)
  PROVE  SeqInv'
<1>0. Shapes /\ ThreadOK(t) /\ SeqThread(t)
  BY DEF BInv, Shapes, SeqInv
<1>1. th[t].pc = "emit" /\ th[t].plan = <<>> /\ Fixed /\ SameMaps /\ SameOut
  BY <1>0, EmitDoneDoes
<1>2. CASE th[t].op \in {"write", "close"} /\ Same(t, {"pc"}) /\ th'[t].pc = (IF th[t].op = "write" THEN "kernel" ELSE "untuple")
  <2>1. /\ Only(t) /\ th'[t].fd = th[t].fd /\ th'[t].ssl = th[t].ssl /\ th'[t].op = th[t].op /\ th'[t].gen = th[t].gen
        /\ th'[t].plan = th[t].plan
    BY <1>2 DEF Same, Fields
  <2>2. th[t].gen = fd_generations[th[t].fd] /\ fd_generations' = fd_generations
    BY <1>0, <1>1 DEF ThreadOK, Emitting, SeqThread, HasGen, SameMaps
  <2>3. SeqThread(t)'
    BY <1>2, <2>1, <2>2 DEF SeqThread, Closing, Emitting
  <2>4. Closed(t) => Closed(t)'
    BY <1>2, <2>1 DEF Closed, Closing
  <2>5. Submitted' = Submitted /\ discarded' = discarded
    BY <1>1, OutStays DEF SameOut
  <2> QED
    BY <1>1, <1>2, <2>1, <2>3, <2>4, <2>5, SeqOn
<1>3. CASE th[t].op # "close" /\ Back(t)
  BY <1>1, <1>3, SeqBack DEF Closed, Closing
<1> QED
  BY <1>0, <1>2, <1>3, EmitDoneDoes

LEMMA DeleteTupleSeq ==
  ASSUME BInv, SeqInv, NEW t \in Threads, DeleteTuple(t)
  PROVE  SeqInv'
<1>0. Shapes /\ ThreadOK(t) /\ SeqThread(t)
  BY DEF BInv, Shapes, SeqInv
<1>1. /\ Same(t, {"pc"}) /\ th[t].pc = "untuple" /\ th'[t].pc = "bump"
      /\ fd_generations' = fd_generations /\ event_seqnos' = event_seqnos /\ Fixed /\ SameOut
  BY <1>0, DeleteTupleDoes
<1>2. /\ Only(t) /\ th'[t].fd = th[t].fd /\ th'[t].ssl = th[t].ssl /\ th'[t].op = th[t].op /\ th'[t].gen = th[t].gen
      /\ th'[t].plan = th[t].plan
  BY <1>1 DEF Same, Fields
<1>3. th[t].gen = fd_generations[th[t].fd] /\ \A f : Gen(f)' = Gen(f) /\ fd_generations'[f] = fd_generations[f]
  BY <1>0, <1>1 DEF ThreadOK, SeqThread, HasGen, Gen
<1>4. SeqThread(t)'
  BY <1>1, <1>2, <1>3 DEF SeqThread, Closing, Emitting
<1>5. Submitted' = Submitted /\ discarded' = discarded /\ (Closed(t) => Closed(t)')
  BY <1>1, <1>2, OutStays DEF SameOut, Closed, Closing
<1> QED
  BY <1>1, <1>2, <1>3, <1>4, <1>5, SeqQuiet DEF On

LEMMA CountTypes ==
  ASSUME BInv, SeqInv, NEW t \in Threads, th[t].pc \in {"put", "copy", "bump", "reset"}
  PROVE  /\ Shapes /\ ThreadOK(t) /\ SeqThread(t) /\ Typed(t)
         /\ th[t].fd \in Fds /\ th[t].fd \in AllFds /\ FdOK(th[t].fd)
         /\ th[t].seq \in Nat /\ th[t].gen \in Nat \ {0} /\ Gen(th[t].fd) \in Nat \ {0}
         /\ fd_generations \in [AllFds -> Nat] /\ event_seqnos \in [AllFds -> Nat]
         /\ th[t].pc # "reset" => th[t].gen = Gen(th[t].fd) /\ th[t].gen = fd_generations[th[t].fd]
         /\ \A u \in Threads : u # t => th[u].fd # th[t].fd
         /\ \A f \in Fds : f \in AllFds
<1>1. Shapes /\ ThreadOK(t) /\ SeqThread(t) /\ Typed(t) /\ event_seqnos \in [AllFds -> Nat]
  BY DEF BInv, SeqInv, Shapes
<1>2. th[t].fd \in Fds /\ Fds \subseteq AllFds
  BY <1>1 DEF ThreadOK, Emitting, AllFds
<1>3. fd_generations \in [AllFds -> Nat]
  BY <1>1 DEF Shapes, StoreOK
<1>4. th[t].seq \in Nat /\ th[t].gen \in Nat /\ th[t].gen # 0
  BY <1>1 DEF Typed, ThreadOK, Emitting
<1>5. FdOK(th[t].fd) /\ \A u \in Threads : u # t => th[u].fd # th[t].fd
  BY <1>2 DEF SeqInv, Alone, On
<1>6. Gen(th[t].fd) \in Nat \ {0}
  BY <1>2, <1>3 DEF Gen
<1>7. th[t].pc # "reset" => th[t].gen = fd_generations[th[t].fd]
  BY <1>1, <1>2 DEF SeqThread, HasGen, Emitting
<1> QED
  BY <1>1, <1>2, <1>3, <1>4, <1>5, <1>6, <1>7 DEF Gen

LEMMA UpdateSeqSeq ==
  ASSUME BInv, SeqInv, NEW t \in Threads, UpdateSeq(t)
  PROVE  SeqInv'
<1>0. Shapes
  BY DEF BInv
<1>1. /\ Same(t, {"pc"}) /\ th[t].pc = "put" /\ th'[t].pc = "copy"
      /\ event_seqnos' = [event_seqnos EXCEPT ![th[t].fd] = th[t].seq + 1]
      /\ fd_generations' = fd_generations /\ Fixed /\ SameOut
  BY <1>0, UpdateSeqDoes
<1>2. PICK F, g, s : F = th[t].fd /\ g = th[t].gen /\ s = th[t].seq
  OBVIOUS
<1>3. /\ F \in Fds /\ F \in AllFds /\ FdOK(F) /\ SeqThread(t) /\ s \in Nat /\ g = Gen(F) /\ g = fd_generations[F]
      /\ event_seqnos \in [AllFds -> Nat] /\ \A u \in Threads : u # t => th[u].fd # F
  BY <1>1, <1>2, CountTypes
<1>4. /\ Only(t) /\ th'[t].fd = F /\ th'[t].ssl = th[t].ssl /\ th'[t].op = th[t].op /\ th'[t].gen = g /\ th'[t].seq = s
      /\ th'[t].plan = th[t].plan
  BY <1>1, <1>2 DEF Same, Fields
<1>5. Submitted' = Submitted /\ discarded' = discarded /\ ~Closed(t)
  BY <1>1, OutStays DEF SameOut, Closed, Closing
<1>6. Threads' = Threads /\ Fds' = Fds /\ \A u \in Threads : u # t => th'[u] = th[u]
  BY <1>0, <1>1, <1>4 DEF Fixed, Threads, Fds, Only, Shapes
<1>7. Alone' /\ Distinct'
  BY <1>0, <1>1, <1>2, <1>4, <1>5, AloneStays, DistinctStays DEF SeqInv, On
<1>8. /\ \A f, a, k : Taken(f, a, k)' <=> Taken(f, a, k)
      /\ \A f, a, n : Numbered(f, a, n)' <=> Numbered(f, a, n)
  BY <1>5 DEF Taken, Numbered
<1>9. \A f : Gen(f)' = Gen(f)
  BY <1>1 DEF Gen
<1>10. /\ event_seqnos'[F] = s + 1
       /\ \A f \in Fds : f # F => event_seqnos'[f] = event_seqnos[f]
  BY <1>1, <1>2, <1>3 DEF AllFds
<1>11. \A u \in Threads : ~Counting(u, F)
  BY <1>1, <1>2, <1>3 DEF Counting
<1>12. Numbered(F, g, s)
  BY <1>1, <1>2, <1>3, <1>11 DEF FdOK, SeqThread
<1>13. Numbered(F, g, s)'
  BY <1>8, <1>12
<1>14. SeqThread(t)'
  <2>1. Numbered(th[t].fd, th[t].gen, th[t].seq)'
    BY <1>4, <1>13 DEF Numbered
  <2>2. th'[t].gen = fd_generations'[th'[t].fd] /\ event_seqnos'[th'[t].fd] = th'[t].seq + 1
    BY <1>1, <1>3, <1>4, <1>10
  <2>3. Closing(t, Emitting)' => th'[t].plan \in {<<>>, ControlEvent}
    BY <1>1, <1>3, <1>4 DEF SeqThread, Closing, Emitting
  <2> QED
    BY <1>1, <2>1, <2>2, <2>3 DEF SeqThread, Closing
<1>15. FdOK(F)'
  <2>1. Counting(t, F)'
    BY <1>1, <1>4 DEF Counting
  <2>2. \A u \in Threads : ~(Closed(u) /\ th[u].fd = F)
    BY <1>3, <1>5
  <2>3. /\ \A a, k : Taken(F, a, k)' => a \in 1 .. Gen(F)'
        /\ \A a \in 1 .. Gen(F)' - 1 : \E m \in Nat : Numbered(F, a, m)'
    BY <1>3, <1>8, <1>9 DEF FdOK
  <2>4. \A e \in Submitted' : ~(e.type = "close" /\ e.fd = F /\ e.gen = Gen(F)')
    BY <1>3, <1>5, <1>9, <2>2 DEF FdOK
  <2> QED
    BY <1>6, <2>1, <2>3, <2>4 DEF FdOK
<1> QED
  BY <1>1, <1>2, <1>4, <1>5, <1>7, <1>10, <1>14, <1>15, SeqStep

LEMMA BumpGenerationSeq ==
  ASSUME BInv, SeqInv, ~app.full, NEW t \in Threads, BumpGeneration(t)
  PROVE  SeqInv'
<1>0. Shapes
  BY DEF BInv
<1>1. /\ Same(t, {"pc"}) /\ th[t].pc = "bump" /\ th'[t].pc = "reset"
      /\ fd_generations' = [fd_generations EXCEPT ![th[t].fd] = th[t].gen + 1]
      /\ event_seqnos' = event_seqnos /\ Fixed /\ SameOut
  BY <1>0, BumpGenerationDoes DEF SetGeneration
<1>2. PICK F, g : F = th[t].fd /\ g = th[t].gen
  OBVIOUS
<1>3. /\ F \in Fds /\ F \in AllFds /\ FdOK(F) /\ g \in Nat \ {0} /\ g = Gen(F) /\ event_seqnos[F] \in Nat
      /\ fd_generations \in [AllFds -> Nat] /\ \A u \in Threads : u # t => th[u].fd # F
  BY <1>1, <1>2, CountTypes
<1>4. Only(t) /\ th'[t].fd = F /\ th'[t].ssl = th[t].ssl
  BY <1>1, <1>2 DEF Same, Fields
<1>5. Submitted' = Submitted /\ discarded' = discarded
  BY <1>1, OutStays DEF SameOut
<1>6. Threads' = Threads /\ Fds' = Fds
  BY <1>1 DEF Fixed, Threads, Fds
<1>7. Alone' /\ Distinct'
  BY <1>0, <1>1, <1>2, <1>4, <1>5, AloneStays, DistinctStays DEF SeqInv, On
<1>8. /\ \A f, a, k : Taken(f, a, k)' <=> Taken(f, a, k)
      /\ \A f, a, n : Numbered(f, a, n)' <=> Numbered(f, a, n)
  BY <1>5 DEF Taken, Numbered
<1>9. /\ Gen(F)' = g + 1
      /\ \A f \in Fds : f # F => fd_generations'[f] = fd_generations[f]
  <2>1. fd_generations'[F] = g + 1 /\ g + 1 # 0
    BY <1>1, <1>2, <1>3
  <2>2. \A f \in Fds : f # F => fd_generations'[f] = fd_generations[f]
    BY <1>1, <1>2, <1>3 DEF AllFds
  <2> QED
    BY <2>1, <2>2 DEF Gen
<1>10. \A a, k : Taken(F, a, k)' => a \in 1 .. g
  BY <1>3, <1>8 DEF FdOK
<1>11. SeqThread(t)'
  <2>1. \A k : ~Taken(F, Gen(F), k)'
    <3>1. g + 1 \notin 1 .. g
      BY <1>3
    <3>2. PICK h : h = g + 1 /\ h = Gen(F)'
      BY <1>9
    <3>3. \A k : ~Taken(F, h, k)'
      BY <1>10, <3>1, <3>2
    <3> QED
      BY <3>2, <3>3 DEF Taken
  <2>2. \A k : ~Taken(th[t].fd, Gen(th[t].fd), k)'
    BY <1>4, <2>1 DEF Taken, Gen
  <2> QED
    BY <1>1, <2>2 DEF SeqThread, HasGen, Saved, Closing, Emitting
<1>12. FdOK(F)'
  <2>1. Counting(t, F)'
    BY <1>1, <1>4 DEF Counting
  <2>2. \A a, k : Taken(F, a, k)' => a \in 1 .. Gen(F)'
    BY <1>3, <1>9, <1>10
  <2>3. Numbered(F, g, event_seqnos[F])
    <3>1. \A u \in Threads : ~Counting(u, F)
      BY <1>1, <1>2, <1>3 DEF Counting
    <3> QED
      BY <1>3, <3>1 DEF FdOK
  <2>4. \A a \in 1 .. g : \E m \in Nat : Numbered(F, a, m)
    <3>1. \A a \in 1 .. g : a = g \/ a \in 1 .. g - 1
      BY <1>3
    <3> QED
      BY <1>3, <2>3, <3>1 DEF FdOK
  <2>5. \A a \in 1 .. Gen(F)' - 1 : \E m \in Nat : Numbered(F, a, m)'
    <3>1. 1 .. Gen(F)' - 1 = 1 .. g
      BY <1>3, <1>9
    <3> QED
      BY <1>8, <2>4, <3>1
  <2>6. \A e \in Submitted' : e.fd = F => e.gen # Gen(F)'
    <3>1. \A e \in Submitted' : e.fd = F => Taken(F, e.gen, e.seq)'
      BY DEF Taken
    <3>2. Gen(F)' \notin 1 .. g
      BY <1>3, <1>9
    <3>3. \A e \in Submitted' : e.fd = F => e.gen \in 1 .. g
      BY <1>10, <3>1
    <3> QED
      BY <3>2, <3>3
  <2> QED
    BY <1>6, <2>1, <2>2, <2>5, <2>6 DEF FdOK
<1> QED
  BY <1>1, <1>2, <1>4, <1>5, <1>7, <1>9, <1>11, <1>12, SeqStep

LEMMA ResetSeqSeq ==
  ASSUME BInv, SeqInv, NEW t \in Threads, ResetSeq(t)
  PROVE  SeqInv'
<1>0. Shapes
  BY DEF BInv
<1>1. /\ Same(t, {"pc"}) /\ th[t].pc = "reset" /\ th'[t].pc = "kernel"
      /\ event_seqnos' = [event_seqnos EXCEPT ![th[t].fd] = 0]
      /\ fd_generations' = fd_generations /\ Fixed /\ SameOut
  BY <1>0, ResetSeqDoes
<1>2. PICK F : F = th[t].fd
  OBVIOUS
<1>3. /\ F \in Fds /\ F \in AllFds /\ FdOK(F) /\ SeqThread(t) /\ ThreadOK(t) /\ event_seqnos \in [AllFds -> Nat]
  BY <1>1, <1>2, CountTypes
<1>4. Only(t) /\ th'[t].fd = F /\ th'[t].ssl = th[t].ssl /\ th'[t].op = "close" /\ th[t].op = "close"
  BY <1>1, <1>2, <1>3 DEF Same, Fields, ThreadOK
<1>5. Submitted' = Submitted /\ discarded' = discarded
  BY <1>1, OutStays DEF SameOut
<1>6. Threads' = Threads /\ Fds' = Fds
  BY <1>1 DEF Fixed, Threads, Fds
<1>7. Alone' /\ Distinct'
  BY <1>0, <1>1, <1>2, <1>4, <1>5, AloneStays, DistinctStays DEF SeqInv, On
<1>8. /\ \A f, a, k : Taken(f, a, k)' <=> Taken(f, a, k)
      /\ \A f, a, n : Numbered(f, a, n)' <=> Numbered(f, a, n)
  BY <1>5 DEF Taken, Numbered
<1>9. PICK g : g = Gen(F) /\ g = Gen(F)'
  BY <1>1 DEF Gen
<1>10. /\ event_seqnos'[F] = 0
       /\ \A f \in Fds : f # F => event_seqnos'[f] = event_seqnos[f]
  BY <1>1, <1>2, <1>3 DEF AllFds
<1>11. \A k : ~Taken(F, g, k)
  BY <1>1, <1>2, <1>3, <1>4, <1>9 DEF SeqThread, Closing
<1>12. \A k : ~Taken(F, g, k)'
  BY <1>8, <1>11
<1>13. SeqThread(t)'
  <2>1. \A k : ~Taken(th[t].fd, Gen(th[t].fd), k)'
    BY <1>4, <1>9, <1>12 DEF Taken, Gen
  <2> QED
    BY <1>1, <1>4, <2>1 DEF SeqThread, HasGen, Saved, Closing, Emitting
<1>14. FdOK(F)'
  <2>1. Numbered(F, Gen(F), event_seqnos[F])'
    BY <1>9, <1>10, <1>12 DEF Numbered, Taken
  <2>2. /\ \A a, k : Taken(F, a, k)' => a \in 1 .. Gen(F)'
        /\ \A a \in 1 .. Gen(F)' - 1 : \E m \in Nat : Numbered(F, a, m)'
    BY <1>3, <1>8, <1>9 DEF FdOK
  <2>3. \A e \in Submitted' : e.fd = F => e.gen # Gen(F)'
    <3>1. \A e \in Submitted' : e.fd = F => Taken(F, e.gen, e.seq)'
      BY DEF Taken
    <3> QED
      BY <1>9, <1>12, <3>1
  <2> QED
    BY <1>6, <2>1, <2>2, <2>3 DEF FdOK
<1> QED
  BY <1>1, <1>2, <1>4, <1>5, <1>7, <1>10, <1>13, <1>14, SeqStep

(* the number a copy used is taken, and it was free *)
LEMMA CopyTakes ==
  ASSUME NEW F, NEW g, NEW s, \A k : Taken(F, g, k) => k # s,
         \/ /\ discarded' = discarded
            /\ \E e : Submitted' = Submitted \cup {e} /\ e.fd = F /\ e.gen = g /\ e.seq = s
         \/ /\ Submitted' = Submitted
            /\ \E d : discarded' = discarded \cup {d} /\ d.fd = F /\ d.gen = g /\ d.seq = s
  PROVE  /\ \A a, k : Taken(F, a, k)' <=> Taken(F, a, k) \/ (a = g /\ k = s)
         /\ Submitted \subseteq Submitted' /\ discarded \subseteq discarded'
         /\ \A e \in Submitted' : e \in Submitted \/ (e.fd = F /\ e.gen = g /\ e.seq = s)
         /\ \A d \in discarded' : d \in discarded \/ (d.fd = F /\ d.gen = g /\ d.seq = s)
         /\ \A e \in Submitted, f \in Submitted' : f \in Submitted \/ ~(SameFlow(e, f) /\ e.seq = f.seq)
         /\ \A e, f \in Submitted' : e \notin Submitted /\ f \notin Submitted => e = f
         /\ \A e \in Submitted', d \in discarded' :
              e.fd = d.fd /\ e.gen = d.gen /\ e.seq = d.seq => e \in Submitted /\ d \in discarded
<1>1. \A e \in Submitted : ~(e.fd = F /\ e.gen = g /\ e.seq = s)
  BY DEF Taken
<1>2. \A d \in discarded : ~(d.fd = F /\ d.gen = g /\ d.seq = s)
  BY DEF Taken
<1>3. ASSUME discarded' = discarded, NEW e, Submitted' = Submitted \cup {e}, e.fd = F, e.gen = g, e.seq = s
      PROVE  \A a, k : Taken(F, a, k)' <=> Taken(F, a, k) \/ (a = g /\ k = s)
  BY <1>3 DEF Taken
<1>4. ASSUME Submitted' = Submitted, NEW d, discarded' = discarded \cup {d}, d.fd = F, d.gen = g, d.seq = s
      PROVE  \A a, k : Taken(F, a, k)' <=> Taken(F, a, k) \/ (a = g /\ k = s)
  BY <1>4 DEF Taken
<1>5. \A a, k : Taken(F, a, k)' <=> Taken(F, a, k) \/ (a = g /\ k = s)
  BY <1>3, <1>4
<1>6. /\ Submitted \subseteq Submitted' /\ discarded \subseteq discarded'
      /\ \A e \in Submitted' : e \in Submitted \/ (e.fd = F /\ e.gen = g /\ e.seq = s)
      /\ \A d \in discarded' : d \in discarded \/ (d.fd = F /\ d.gen = g /\ d.seq = s)
      /\ \A e, f \in Submitted' : e \notin Submitted /\ f \notin Submitted => e = f
      /\ Submitted' = Submitted \/ discarded' = discarded
  OBVIOUS
<1> QED
  BY <1>1, <1>2, <1>5, <1>6 DEF SameFlow

LEMMA CopySeq ==
  ASSUME BInv, SlotInv, SeqInv, NEW t \in Threads, Copy(t)
  PROVE  SeqInv'
<1>0. Shapes
  BY DEF BInv
<1>1. /\ th[t].pc = "copy" /\ Same(t, NextChunkFields) /\ th'[t].pc = "emit" /\ th'[t].plan = Tail(th[t].plan)
      /\ Fixed /\ SameMaps /\ got' = got
      /\ \/ Fill(t, ReadySlot(t)) /\ discarded' = discarded
         \/ Fill(t, DiscardedSlot(t)) /\ discarded' = discarded \cup {TakenBy(t)}
  BY <1>0, CopyDoes
<1>2. PICK F, g, s : F = th[t].fd /\ g = th[t].gen /\ s = th[t].seq
  OBVIOUS
<1>3. /\ F \in Fds /\ F \in AllFds /\ FdOK(F) /\ SeqThread(t) /\ s \in Nat /\ g \in Nat \ {0} /\ g = Gen(F) /\ g = fd_generations[F]
      /\ \A u \in Threads : u # t => th[u].fd # F
  BY <1>1, <1>2, CountTypes
<1>4. /\ Only(t) /\ th'[t].fd = F /\ th'[t].ssl = th[t].ssl /\ th'[t].op = th[t].op /\ th'[t].gen = g
  BY <1>1, <1>2 DEF Same, Fields, NextChunkFields
<1>5. Numbered(F, g, s) /\ event_seqnos[F] = s + 1
  BY <1>1, <1>2, <1>3 DEF SeqThread
<1>6. /\ \/ /\ discarded' = discarded
            /\ \E e : /\ Submitted' = Submitted \cup {e} /\ e.fd = F /\ e.gen = g /\ e.seq = s
                      /\ e.type = "close" => th[t].op = "close"
         \/ /\ Submitted' = Submitted
            /\ \E d : discarded' = discarded \cup {d} /\ d.fd = F /\ d.gen = g /\ d.seq = s
  <2>0. th[t].pc \in Reserved
    BY <1>1 DEF Reserved
  <2>1. CASE Fill(t, ReadySlot(t)) /\ discarded' = discarded
    <3>1. PICK r : r = ReadySlot(t)
      OBVIOUS
    <3>2. r.st = "ready" /\ r.ev = Event(t)
      BY <3>1 DEF ReadySlot
    <3>3. Submitted' = Submitted \cup {r.ev}
      BY <1>1, <2>0, <2>1, <3>1, <3>2, FillSubmits
    <3>4. Event(t).fd = F /\ Event(t).gen = g /\ Event(t).seq = s /\ (Event(t).type = "close" => th[t].op = "close")
      BY <1>2 DEF Event
    <3> QED
      BY <2>1, <3>2, <3>3, <3>4
  <2>2. CASE Fill(t, DiscardedSlot(t)) /\ discarded' = discarded \cup {TakenBy(t)}
    <3>1. PICK r : r = DiscardedSlot(t)
      OBVIOUS
    <3>2. r.st # "ready"
      BY <3>1 DEF DiscardedSlot
    <3>3. Submitted' = Submitted
      BY <1>1, <2>0, <2>2, <3>1, <3>2, FillSubmits
    <3>4. TakenBy(t).fd = F /\ TakenBy(t).gen = g /\ TakenBy(t).seq = s
      BY <1>2 DEF TakenBy
    <3> QED
      BY <2>2, <3>3, <3>4
  <2> QED
    BY <1>1, <2>1, <2>2
<1>7. \A k : Taken(F, g, k) => k \in 0 .. s - 1 /\ k # s /\ k < s
  BY <1>3, <1>5 DEF Numbered
<1>8. /\ \A a, k : Taken(F, a, k)' <=> Taken(F, a, k) \/ (a = g /\ k = s)
      /\ Submitted \subseteq Submitted' /\ discarded \subseteq discarded'
      /\ \A e \in Submitted' : e \in Submitted \/ (e.fd = F /\ e.gen = g /\ e.seq = s)
      /\ \A d \in discarded' : d \in discarded \/ (d.fd = F /\ d.gen = g /\ d.seq = s)
      /\ \A e \in Submitted, f \in Submitted' : f \in Submitted \/ ~(SameFlow(e, f) /\ e.seq = f.seq)
      /\ \A e, f \in Submitted' : e \notin Submitted /\ f \notin Submitted => e = f
      /\ \A e \in Submitted', d \in discarded' :
           e.fd = d.fd /\ e.gen = d.gen /\ e.seq = d.seq => e \in Submitted /\ d \in discarded
  BY <1>6, <1>7, CopyTakes
<1>9. \A e \in Submitted' : e \in Submitted \/ (e.type = "close" => th[t].op = "close")
  BY <1>6
<1>10. ~Closed(t) /\ \A u \in Threads : ~(Closed(u) /\ th[u].fd = F)
  BY <1>1, <1>3 DEF Closed, Closing
<1>11. \A e \in Submitted : e.fd = F /\ e.gen = g => e.type # "close" /\ e.seq < s
  <2>1. \A e \in Submitted : e.fd = F /\ e.gen = g => Taken(F, g, e.seq)
    BY DEF Taken
  <2> QED
    BY <1>3, <1>7, <1>10, <2>1 DEF FdOK
<1>12. Distinct'
  <2>1. ASSUME NEW e \in Submitted', NEW f \in Submitted', SameFlow(e, f), e.seq = f.seq PROVE e = f
    <3>1. CASE e \in Submitted /\ f \in Submitted
      BY <2>1, <3>1 DEF SeqInv, Distinct
    <3>2. CASE e \notin Submitted /\ f \notin Submitted
      BY <1>8, <3>2
    <3>3. CASE e \in Submitted /\ f \notin Submitted
      BY <1>8, <2>1, <3>3
    <3>4. CASE e \notin Submitted /\ f \in Submitted
      BY <1>8, <2>1, <3>4 DEF SameFlow
    <3> QED
      BY <3>1, <3>2, <3>3, <3>4
  <2>2. ASSUME NEW e \in Submitted', NEW d \in discarded' PROVE ~(e.fd = d.fd /\ e.gen = d.gen /\ e.seq = d.seq)
    BY <1>8 DEF SeqInv, Distinct
  <2>3. ASSUME NEW e \in Submitted', NEW f \in Submitted', SameFlow(e, f), e.type = "close", f # e PROVE f.seq < e.seq
    <3>1. CASE e \in Submitted /\ f \in Submitted
      BY <2>3, <3>1 DEF SeqInv, Distinct
    <3>2. CASE e \notin Submitted /\ f \in Submitted
      BY <1>8, <1>11, <2>3, <3>2 DEF SameFlow
    <3>3. CASE e \in Submitted /\ f \notin Submitted
      BY <1>8, <1>11, <2>3, <3>3 DEF SameFlow
    <3> QED
      BY <1>8, <2>3, <3>1, <3>2, <3>3
  <2> QED
    BY <2>1, <2>2, <2>3 DEF Distinct, SameFlow
<1>13. Threads' = Threads /\ Fds' = Fds /\ fd_generations' = fd_generations /\ event_seqnos' = event_seqnos
  BY <1>1 DEF Fixed, Threads, Fds, SameMaps
<1>14. Alone'
  BY <1>0, <1>1, <1>2, <1>4, AloneStays DEF SeqInv, On
<1>15. th[t].op = "close" => th'[t].plan = <<>>
  <2>1. th[t].plan # <<>>
    BY <1>1, <1>2, CountTypes DEF Typed, Reserved
  <2> QED
    BY <1>1, <1>3, <2>1, EmptyTail DEF SeqThread, Closing, Emitting
<1>16. SeqThread(t)'
  BY <1>1, <1>3, <1>4, <1>13, <1>15 DEF SeqThread, Closing, Emitting
<1>17. \A a : a # g => \A n : Numbered(F, a, n)' <=> Numbered(F, a, n)
  BY <1>8 DEF Numbered
<1>18. FdOK(F)'
  <2>1. Gen(F)' = g
    BY <1>3, <1>13 DEF Gen
  <2>2. \A a, k : Taken(F, a, k)' => a \in 1 .. Gen(F)'
    BY <1>3, <1>8, <2>1 DEF FdOK
  <2>3. \A a \in 1 .. Gen(F)' - 1 : \E m \in Nat : Numbered(F, a, m)'
    <3>1. \A a \in 1 .. g - 1 : a # g
      BY <1>3
    <3> QED
      BY <1>3, <1>17, <2>1, <3>1 DEF FdOK
  <2>4. Numbered(F, Gen(F), event_seqnos[F])'
    <3>1. \A k : k \in 0 .. s <=> k \in 0 .. s - 1 \/ k = s
      BY <1>3
    <3>2. \A k : Taken(F, g, k)' <=> k \in 0 .. s
      BY <1>5, <1>8, <3>1 DEF Numbered
    <3>3. 0 .. event_seqnos'[F] - 1 = 0 .. s
      BY <1>3, <1>5, <1>13
    <3>4. \A k : Taken(F, Gen(F), k)' <=> k \in 0 .. s
      BY <2>1, <3>2 DEF Taken
    <3> QED
      BY <3>3, <3>4 DEF Numbered
  <2>5. ASSUME NEW e \in Submitted', e.type = "close", e.fd = F, e.gen = Gen(F)'
        PROVE  Closed(t)' /\ th'[t].fd = F
    <3>1. th[t].op = "close"
      BY <1>9, <1>11, <2>1, <2>5
    <3> QED
      BY <1>1, <1>4, <1>15, <3>1 DEF Closed, Closing
  <2> QED
    BY <1>13, <2>2, <2>3, <2>4, <2>5 DEF FdOK
<1> QED
  BY <1>1, <1>2, <1>4, <1>8, <1>12, <1>13, <1>14, <1>16, <1>18, SeqStep

LEMMA SeqSame ==
  ASSUME SeqInv, app' = app, th' = th, fd_generations' = fd_generations, event_seqnos' = event_seqnos,
         Submitted' = Submitted, discarded' = discarded
  PROVE  SeqInv'
<1>1. Threads' = Threads /\ Fds' = Fds
  BY DEF Threads, Fds
<1>2. Distinct'
  BY DistinctStays DEF SeqInv
<1>3. Alone'
  BY <1>1 DEF SeqInv, Alone, On
<1>4. /\ \A f, a, k : Taken(f, a, k)' <=> Taken(f, a, k)
      /\ \A f, a, n : Numbered(f, a, n)' <=> Numbered(f, a, n)
      /\ \A f : Gen(f)' = Gen(f)
  BY DEF Taken, Numbered, Gen
<1>5. ASSUME NEW t \in Threads PROVE SeqThread(t)'
  <2>1. SeqThread(t)
    BY DEF SeqInv
  <2>2. PICK f, g, s : f = th[t].fd /\ g = th[t].gen /\ s = th[t].seq
    OBVIOUS
  <2>3. Numbered(th[t].fd, th[t].gen, th[t].seq)' <=> Numbered(f, g, s)'
    BY <2>2 DEF Numbered
  <2>4. PICK h : h = Gen(f) /\ h = Gen(f)'
    BY <1>4
  <2>5. \A k : Taken(th[t].fd, Gen(th[t].fd), k)' <=> Taken(f, h, k)'
    BY <2>2, <2>4 DEF Taken, Gen
  <2>6. /\ (HasGen(t) \/ Saved(t))' => th'[t].gen = fd_generations'[th'[t].fd]
        /\ th'[t].pc = "initgen" /\ th'[t].fd \in Fds' => fd_generations'[th'[t].fd] = 0
        /\ th'[t].pc = "put" => th'[t].seq = event_seqnos'[th'[t].fd]
        /\ Closing(t, Emitting)' => th'[t].plan \in {<<>>, ControlEvent}
    BY <1>1, <2>1 DEF SeqThread, HasGen, Saved, Closing
  <2>7. th'[t].pc = "copy" => event_seqnos'[th'[t].fd] = th'[t].seq + 1 /\ Numbered(th[t].fd, th[t].gen, th[t].seq)'
    BY <1>4, <2>1, <2>2, <2>3 DEF SeqThread
  <2>8. Closing(t, {"reset", "kernel"})' => \A k : ~Taken(th[t].fd, Gen(th[t].fd), k)'
    BY <1>4, <2>1, <2>2, <2>4, <2>5 DEF SeqThread, Closing
  <2> QED
    BY <2>6, <2>7, <2>8 DEF SeqThread
<1>6. ASSUME NEW f \in Fds PROVE FdOK(f)'
  <2>1. FdOK(f)
    BY DEF SeqInv
  <2>2. PICK g, n : g = Gen(f) /\ g = Gen(f)' /\ n = event_seqnos[f] /\ n = event_seqnos'[f]
    BY <1>4
  <2>3. Numbered(f, Gen(f), event_seqnos[f])' <=> Numbered(f, g, n)'
    BY <2>2 DEF Numbered
  <2>4. (\A t \in Threads : ~Counting(t, f)') => Numbered(f, Gen(f), event_seqnos[f])'
    BY <1>4, <2>1, <2>2, <2>3 DEF FdOK, Counting
  <2>5. /\ \A a, k : Taken(f, a, k)' => a \in 1 .. Gen(f)'
        /\ \A a \in 1 .. Gen(f)' - 1 : \E m \in Nat : Numbered(f, a, m)'
    BY <1>4, <2>1 DEF FdOK
  <2>6. \A e \in Submitted' : e.type = "close" /\ e.fd = f /\ e.gen = Gen(f)' => \E t \in Threads : Closed(t)' /\ th'[t].fd = f
    BY <1>4, <2>1 DEF FdOK, Closed, Closing
  <2> QED
    BY <1>1, <2>4, <2>5, <2>6 DEF FdOK
<1> QED
  BY <1>1, <1>2, <1>3, <1>5, <1>6 DEF SeqInv

LEMMA InitSeq ==
  ASSUME Init
  PROVE  SeqInv
<1>1. Submitted = {} /\ discarded = {} /\ \A t \in Threads : th[t] = Idle
  BY InitShapes DEF Init
<1>2. \A f \in Fds : Gen(f) = 1 /\ event_seqnos[f] = 0 /\ f # NoFd
  BY InitShapes DEF Init, Gen, AllFds, Shapes
<1>3. \A f, g, k : ~Taken(f, g, k)
  BY <1>1 DEF Taken
<1>4. Alone
  BY <1>1, <1>2 DEF Alone, On, Idle
<1>5. \A t \in Threads : SeqThread(t)
  BY <1>1 DEF SeqThread, HasGen, Saved, Closing, Idle, Emitting
<1>6. \A f \in Fds : FdOK(f)
  BY <1>1, <1>2, <1>3 DEF FdOK, Numbered
<1> QED
  BY <1>1, <1>4, <1>5, <1>6 DEF SeqInv, Distinct

LEMMA NextSeq ==
  ASSUME BInv, SlotInv, SeqInv, Ordered, Next
  PROVE  SeqInv'
<1>0. Overlap = "none" /\ ~app.full
  BY DEF Ordered
<1>1. ASSUME NEW t \in Threads, NEW cpu \in Cpus, AppStep(t, cpu) PROVE SeqInv'
  BY <1>0, <1>1, EnterDataSeq, EnterSeq, ReadReturnSeq, AcceptSeq, SslSeq DEF AppStep, DataOps
<1>2. ASSUME NEW t \in Threads, ProbeStep(t) PROVE SeqInv'
  BY <1>0, <1>2, GenerationSeq, FilterSeq, LearnTupleSeq, EmitSeq, LookupSeqSeq, UpdateSeqSeq, CopySeq, EmitDoneSeq,
     DeleteTupleSeq, BumpGenerationSeq, ResetSeqSeq DEF ProbeStep
<1>3. ASSUME NEW t \in Threads, KernelStep(t) PROVE SeqInv'
  BY <1>0, <1>3, ReturnSeq, AcceptSeq, SslSeq DEF KernelStep
<1>4. ASSUME NEW c \in Cpus, AgentRead(c) PROVE SeqInv'
  BY <1>4, AgentReadDoes, ReadSubmits, SeqSame DEF Fixed, SameMaps
<1> QED
  BY <1>1, <1>2, <1>3, <1>4 DEF Next

LEMMA StutterSeq ==
  ASSUME SeqInv, UNCHANGED vars
  PROVE  SeqInv'
<1>1. Submitted' = Submitted
  BY DEF vars, Submitted, Ready
<1> QED
  BY <1>1, SeqSame DEF vars

(* every generation of a descriptor is numbered from 0 without a hole *)
LEMMA AllNumbered ==
  ASSUME BInv, SeqInv, NEW f \in Fds, NEW g \in Nat \ {0}
  PROVE  \E n \in Nat : Numbered(f, g, n)
<1>1. FdOK(f) /\ f \in AllFds /\ event_seqnos \in [AllFds -> Nat] /\ fd_generations \in [AllFds -> Nat]
  BY DEF SeqInv, BInv, AllFds, Shapes, StoreOK
<1>2. Gen(f) \in Nat \ {0} /\ event_seqnos[f] \in Nat
  BY <1>1 DEF Gen
<1>3. (\A k : ~Taken(f, g, k)) => Numbered(f, g, 0)
  BY DEF Numbered
<1>4. CASE g < Gen(f)
  <2>1. g \in 1 .. Gen(f) - 1
    BY <1>2, <1>4
  <2> QED
    BY <1>1, <2>1 DEF FdOK
<1>5. CASE g > Gen(f)
  <2>1. g \notin 1 .. Gen(f)
    BY <1>2, <1>5
  <2> QED
    BY <1>1, <1>3, <2>1 DEF FdOK
<1>6. CASE g = Gen(f) /\ \A t \in Threads : ~Counting(t, f)
  BY <1>1, <1>2, <1>6 DEF FdOK
<1>7. ASSUME g = Gen(f), NEW t \in Threads, Counting(t, f) PROVE \E n \in Nat : Numbered(f, g, n)
  <2>1. th[t].fd = f /\ th[t].pc \in {"copy", "reset"}
    BY <1>7 DEF Counting
  <2>2. SeqThread(t) /\ th[t].seq \in Nat /\ ThreadOK(t) /\ (th[t].pc # "reset" => th[t].gen = g)
    BY <1>7, <2>1, CountTypes
  <2>3. CASE th[t].pc = "copy"
    BY <2>1, <2>2, <2>3 DEF SeqThread
  <2>4. CASE th[t].pc = "reset"
    BY <1>3, <1>7, <2>1, <2>2, <2>4 DEF SeqThread, Closing, ThreadOK
  <2> QED
    BY <2>1, <2>3, <2>4
<1> QED
  BY <1>2, <1>4, <1>5, <1>6, <1>7

LEMMA SameCount ==
  ASSUME NEW flow, NEW used, used = {e.seq : e \in flow}, IsFiniteSet(used),
         \A e, f \in flow : e.seq = f.seq => e = f
  PROVE  Cardinality(used) = Cardinality(flow)
<1> DEFINE pick == [k \in used |-> CHOOSE e \in flow : e.seq = k]
<1>1. \A k \in used : pick[k] \in flow /\ pick[k].seq = k
  OBVIOUS
<1>2. pick \in [used -> flow]
  BY <1>1
<1>3. \A e \in flow : e.seq \in used /\ pick[e.seq] = e
  BY <1>1
<1> HIDE DEF pick
<1>4. pick \in Bijection(used, flow)
  BY <1>1, <1>2, <1>3 DEF Bijection, Injection, Surjection, IsInjective
<1>5. ExistsBijection(used, flow)
  BY <1>4 DEF ExistsBijection
<1> QED
  BY <1>5, FS_Bijection

LEMMA SeqImplies ==
  ASSUME BInv, SeqInv
  PROVE  GapsAreDiscards /\ CloseIsLast
<1>1. CloseIsLast
  BY DEF CloseIsLast, SeqInv, Distinct
<1>2. GapsAreDiscards
  <2> SUFFICES ASSUME NEW fd \in Fds, NEW gen \in 1 .. MaxConns + 1
               PROVE  LET flow == {e \in Submitted : e.fd = fd /\ e.gen = gen}
                          gaps == {d.seq : d \in {x \in discarded : x.fd = fd /\ x.gen = gen}}
                          used == {e.seq : e \in flow}
                      IN /\ Cardinality(used) = Cardinality(flow)
                         /\ used \cap gaps = {}
                         /\ used \cup gaps = 0 .. Cardinality(used \cup gaps) - 1
    BY DEF GapsAreDiscards
  <2> DEFINE flow == {e \in Submitted : e.fd = fd /\ e.gen = gen}
             gaps == {d.seq : d \in {x \in discarded : x.fd = fd /\ x.gen = gen}}
             used == {e.seq : e \in flow}
  <2>1. MaxConns \in Nat
    BY ByWorkload DEF IsWorkload, MaxConns
  <2>2. gen \in Nat \ {0}
    BY <2>1
  <2>3. PICK n \in Nat : Numbered(fd, gen, n)
    BY <2>2, AllNumbered
  <2>4. used \cup gaps = 0 .. n - 1
    BY <2>3 DEF Numbered, Taken
  <2>5. IsFiniteSet(0 .. n - 1) /\ Cardinality(0 .. n - 1) = n
    BY FS_Interval
  <2>6. IsFiniteSet(used)
    BY <2>4, <2>5, FS_Subset
  <2>7. \A e, f \in flow : e.seq = f.seq => e = f
    BY DEF SeqInv, Distinct, SameFlow
  <2>8. used \cap gaps = {}
    BY DEF SeqInv, Distinct
  <2>9. used = {e.seq : e \in flow}
    OBVIOUS
  <2> HIDE DEF flow, gaps, used
  <2>10. Cardinality(used) = Cardinality(flow)
    BY <2>6, <2>7, <2>9, SameCount
  <2>11. used \cup gaps = 0 .. Cardinality(used \cup gaps) - 1
    BY <2>4, <2>5
  <2> QED
    BY <2>8, <2>10, <2>11 DEF flow, gaps, used
<1> QED
  BY <1>1, <1>2

(* The maps and rings keep their types, and each generation of a descriptor *)
(* is numbered from 0: a missing number is a counted discard, the close     *)
(* event is the last.  The numbering is claimed of serial applications, as  *)
(* long as fd_generations has room.  Excluded are those whose OpenSSL       *)
(* serves reads from decrypted data, where plaintext is put down to the     *)
(* descriptor the thread touched last.                                      *)
THEOREM Numbering == Spec => [](~(Overlap = "none" /\ SslMode = "buffered") => KernelInv)
<1> DEFINE I == BInv /\ SlotInv /\ (Ordered => SeqInv)
<1>1. Init => I
  BY InitTyped, InitSlots, InitSeq
<1>2. I /\ [Next]_vars => I'
  <2> SUFFICES ASSUME I, [Next]_vars PROVE I'
    OBVIOUS
  <2>1. BInv' /\ SlotInv'
    BY NextTyped, NextSlots, StutterTyped, StutterSlots
  <2>2. Ordered' = Ordered
    BY WorkloadStays DEF Ordered, Overlap, SslMode, vars
  <2>3. Ordered => SeqInv'
    BY NextSeq, StutterSeq
  <2> QED
    BY <2>1, <2>2, <2>3
<1>3. I => (~(Overlap = "none" /\ SslMode = "buffered") => KernelInv)
  <2>1. ASSUME Overlap # "none" \/ app.full PROVE GapsAreDiscards /\ CloseIsLast
    BY <2>1 DEF GapsAreDiscards, CloseIsLast
  <2> QED
    BY <2>1, TypedImplies, SeqImplies DEF Ordered, KernelInv
<1> HIDE DEF I
<1> QED
  BY <1>1, <1>2, <1>3, PTL DEF Spec

=============================================================================
