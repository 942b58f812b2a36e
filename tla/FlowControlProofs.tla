------------------------- MODULE FlowControlProofs -------------------------
(***************************************************************************)
(* Proofs about FlowControl for any number of shards, connections and      *)
(* configurations.                                                         *)
(***************************************************************************)
EXTENDS FlowControl, TLAPS

MaybeConn == Conn \cup {NoConn}

(* A connection that is taken for that of generation g has g's port.  The   *)
(* exception: the descriptor was opened again while events of g were on     *)
(* their way.                                                               *)
OfGen(g, c) == c # NoConn => c.port = Conns[g].port \/ (g \in late /\ g < live.gen)

(* An event is of the present generation, or of one that is late. *)
Timely(g) == g <= live.gen /\ (g < live.gen => g \in late)

Event ==
  {e \in [gen : Gens, kind : {"socket", "http", "body", "close"}, tuple : MaybeConn] :
     Timely(e.gen) /\ OfGen(e.gen, e.tuple)}

Locals ==
  [pc : {"read", "proc", "store", "sync", "forget", "filter", "decide", "remember"},
   ev : [gen : Gens \cup {0}, kind : {"socket", "http", "body", "close", "none"}, tuple : MaybeConn],
   conn : MaybeConn, ok : BOOLEAN, allow : BOOLEAN, via : {0} \cup Versions]

(* The types of what the shards and the probes share. *)
FlowTypes ==
  /\ live \in [gen : 0 .. Len(Conns), open : BOOLEAN] /\ (live.open => live.gen # 0)
  /\ sh \in [Shards -> Locals] /\ \A s \in Shards : sh[s].ok <=> sh[s].conn # NoConn
  /\ cache \in [Gens -> MaybeConn] /\ synced \in [Gens -> MaybeConn] /\ tuples \in [Gens -> MaybeConn]
  /\ flows \in [Gens -> [decision : {"none", "allow", "deny"}, by : {0} \cup Versions]]
  /\ filter \in Versions

(* Events in the rings and in a shard's hands are timely, and metadata is   *)
(* of its generation wherever it is: in an event, in a shard's locals, in   *)
(* the cache, in the kernel's map and in what was published.                *)
Metadata ==
  /\ ring \in [Shards -> Seq(Event)]
  /\ \A s \in Shards : sh[s].pc # "read" => sh[s].ev \in Event /\ OfGen(sh[s].ev.gen, sh[s].conn)
  /\ \A s \in Shards : sh[s].pc = "read" => sh[s].ev.gen = 0
  /\ \A g \in Gens : /\ cache[g] # NoConn => g <= live.gen /\ OfGen(g, cache[g])
                     /\ tuples[g] # NoConn => g <= live.gen /\ OfGen(g, tuples[g])
  /\ \A p \in published : p.gen \in Gens /\ OfGen(p.gen, p.conn)

(* A flow that was not disturbed is decided by one shard at a time, while   *)
(* it has no decision, and is published only while it is allowed.           *)
Whole ==
  /\ broken \subseteq Gens
  /\ \A g \in Gens \ disturbed :
       /\ \A s, t \in Deciding(g) : s = t
       /\ Deciding(g) # {} => flows[g].decision = "none"
       /\ Admitted(g) => flows[g].decision = "allow"
       /\ g \notin broken

(* The decision a shard is about to remember was made under the             *)
(* configuration in force, unless it was already in the shard's hands when  *)
(* the filter changed.                                                      *)
Current ==
  /\ DecisionsAreCurrent
  /\ \A s \in Shards : sh[s].pc = "remember" => sh[s].via \in {0, filter} \/ sh[s].ev.gen \in racing

(* The kernel's maps while a configuration is being applied: each map is    *)
(* replaced after the one before it is complete, and what was put is there. *)
Applying ==
  /\ poller \in [pc : {"wait", "capture", "targets", "ignores", "filter"}, v : {0} \cup Versions, put : SUBSET Nat]
  /\ kernel \in [on : BOOLEAN, targets : SUBSET Nat, ignores : SUBSET Nat]
  /\ backend \in Versions /\ current \in {0} \cup Versions
  /\ poller.pc # "wait" => poller.v \in Versions
  /\ current # 0 => filter = current
  /\ poller.pc = "capture" => poller.put = {}
  /\ poller.pc \in {"targets", "ignores"} => kernel.on = (Configs[poller.v].targets # {})
  /\ poller.pc = "targets" => poller.put \subseteq Configs[poller.v].targets \cap kernel.targets
  /\ poller.pc = "ignores" => /\ kernel.targets = Configs[poller.v].targets
                              /\ poller.put \subseteq Configs[poller.v].ignores \cap kernel.ignores
  /\ poller.pc = "filter" => kernel = KernelConfig(poller.v)
  /\ poller.pc = "wait" /\ current # 0 /\ ~failed => kernel = KernelConfig(current)

(* The inductive invariant. *)
IInv == FlowTypes /\ Metadata /\ Whole /\ Current /\ Applying

-----------------------------------------------------------------------------
(* Facts about the data *)

LEMMA GenConn ==
  ASSUME NEW g \in Gens
  PROVE  Conns[g] \in Conn /\ Conns[g] # NoConn /\ ProcConn(g) \in Conn /\ ProcConn(g) # NoConn
         /\ ProcConn(g).port = Conns[g].port
  <1>1. Conns[g] \in Conn BY ConnsAssumption DEF Gens
  <1>2. ProcConn(g) \in Conn BY <1>1 DEF ProcConn, Conn
  <1> QED BY <1>1, <1>2, ConnsAssumption DEF ProcConn

LEMMA VersionConfig ==
  ASSUME NEW v \in Versions
  PROVE  /\ Configs[v] \in Config
         /\ KernelConfig(v) \in [on : BOOLEAN, targets : SUBSET Nat, ignores : SUBSET Nat]
  <1>1. Configs[v] \in Config BY ConfigsAssumption DEF Versions
  <1> QED BY <1>1 DEF KernelConfig, Config

LEMMA FirstVersion == 1 \in Versions /\ Len(Configs) \in Versions
  BY ConfigsAssumption DEF Versions

LEMMA IdleType ==
  /\ Idle \in Locals /\ Idle.pc = "read" /\ Idle.ev.gen = 0 /\ Idle.conn = NoConn /\ Idle.ok = FALSE
  /\ Idle.ev = NoEvent
  <1>1. NoEvent \in [gen : Gens \cup {0}, kind : {"socket", "http", "body", "close", "none"}, tuple : MaybeConn]
    BY DEF NoEvent, MaybeConn
  <1>2. NoEvent.gen = 0 BY DEF NoEvent
  <1> HIDE DEF NoEvent
  <1> QED BY <1>1, <1>2 DEF Idle, Locals, MaybeConn

LEMMA LocalTypes ==
  ASSUME FlowTypes, NEW s \in Shards
  PROVE  /\ sh[s] \in Locals
         /\ sh[s].pc \in {"read", "proc", "store", "sync", "forget", "filter", "decide", "remember"}
         /\ sh[s].conn \in MaybeConn /\ sh[s].ok \in BOOLEAN /\ sh[s].allow \in BOOLEAN
         /\ sh[s].via \in {0} \cup Versions
  BY DEF FlowTypes, Locals

LEMMA SeqOfLarger ==
  ASSUME NEW S, NEW T, NEW q \in Seq(S), S \subseteq T
  PROVE  q \in Seq(T)
  OBVIOUS

LEMMA EventType ==
  ASSUME NEW e \in Event
  PROVE  /\ e.gen \in Gens /\ e.tuple \in MaybeConn /\ e.kind \in {"socket", "http", "body", "close"}
         /\ Timely(e.gen) /\ OfGen(e.gen, e.tuple) /\ e.gen <= live.gen
         /\ e \in [gen : Gens \cup {0}, kind : {"socket", "http", "body", "close", "none"}, tuple : MaybeConn]
  BY DEF Event, Timely

(* Neither a reopened descriptor nor a late event: the same metadata is     *)
(* good before and after.                                                   *)
LEMMA SameJudgement ==
  ASSUME UNCHANGED <<live, late>>
  PROVE  Event' = Event
  BY DEF Event, Timely, OfGen

-----------------------------------------------------------------------------
(* Frames *)

LEMMA ApplyingFrame ==
  ASSUME Applying, UNCHANGED <<pollVars, failed>>
  PROVE  Applying'
  BY DEF Applying, pollVars

LEMMA FlowFrame ==
  ASSUME IInv, Applying', UNCHANGED <<live, ring, sh, flowVars, tuples, filter, history>>
  PROVE  IInv'
  <1>1. UNCHANGED <<live, ring, sh, cache, synced, flows, tuples, filter, published, broken, late, disturbed, racing>>
    BY DEF flowVars, history
  <1>2. FlowTypes' BY <1>1 DEF IInv, FlowTypes
  <1>3. Metadata'
    <2>1. Event' = Event BY <1>1, SameJudgement
    <2> QED BY <1>1, <2>1 DEF IInv, Metadata, OfGen
  <1>4. Whole' BY <1>1 DEF IInv, Whole, Deciding, Admitted
  <1>5. Current' BY <1>1 DEF IInv, Current, DecisionsAreCurrent
  <1> QED BY <1>2, <1>3, <1>4, <1>5 DEF IInv

(* A step of a shard before and after which it is not deciding: it has an   *)
(* event in hand, and may have changed the cache and the kernel's map.      *)
LEMMA QuietShard ==
  ASSUME IInv, NEW s \in Shards,
         sh' \in [Shards -> Locals], sh'[s].ok <=> sh'[s].conn # NoConn, \A t \in Shards \ {s} : sh'[t] = sh[t],
         sh[s].pc \notin {"decide", "remember"}, sh'[s].pc \notin {"read", "decide", "remember"},
         sh'[s].ev \in Event, OfGen(sh'[s].ev.gen, sh'[s].conn),
         ring' \in [Shards -> Seq(Event)],
         cache' \in [Gens -> MaybeConn], synced' \in [Gens -> MaybeConn], tuples' \in [Gens -> MaybeConn],
         \A g \in Gens : cache'[g] # NoConn => g <= live.gen /\ OfGen(g, cache'[g]),
         \A g \in Gens : tuples'[g] # NoConn => g <= live.gen /\ OfGen(g, tuples'[g]),
         UNCHANGED <<live, flows, pollVars, history, failed>>
  PROVE  IInv'
  <1>1. UNCHANGED <<filter, published, broken, late, disturbed, racing>> BY DEF pollVars, history
  <1>2. FlowTypes' BY <1>1 DEF IInv, FlowTypes
  <1>3. Metadata'
    <2>1. Event' = Event BY <1>1, SameJudgement
    <2>2. \A t \in Shards : sh'[t].pc # "read" => sh'[t].ev \in Event /\ OfGen(sh'[t].ev.gen, sh'[t].conn)
      BY DEF IInv, Metadata
    <2>3. \A t \in Shards : sh'[t].pc = "read" => sh'[t].ev.gen = 0
      BY DEF IInv, Metadata
    <2>4. \A p \in published : p.gen \in Gens /\ OfGen(p.gen, p.conn) BY DEF IInv, Metadata
    <2> QED BY <1>1, <2>1, <2>2, <2>3, <2>4 DEF Metadata, OfGen
  <1>4. Whole'
    <2>1. \A g \in Gens : Deciding(g)' = Deciding(g) BY DEF Deciding
    <2> QED BY <1>1, <2>1 DEF IInv, Whole, Admitted
  <1>5. Current' BY <1>1 DEF IInv, Current, DecisionsAreCurrent
  <1>6. Applying' BY ApplyingFrame DEF IInv
  <1> QED BY <1>2, <1>3, <1>4, <1>5, <1>6 DEF IInv

LEMMA GotoEffect ==
  ASSUME FlowTypes, NEW s \in Shards,
         NEW pc \in {"read", "proc", "store", "sync", "forget", "filter", "decide", "remember"}, Goto(s, pc)
  PROVE  /\ sh' \in [Shards -> Locals] /\ \A t \in Shards \ {s} : sh'[t] = sh[t]
         /\ sh'[s].pc = pc /\ sh'[s].ev = sh[s].ev /\ sh'[s].conn = sh[s].conn /\ sh'[s].ok = sh[s].ok
         /\ sh'[s].allow = sh[s].allow /\ sh'[s].via = sh[s].via
  <1> DEFINE new == [sh[s] EXCEPT !.pc = pc]
  <1>1. sh \in [Shards -> Locals] /\ sh[s] \in Locals BY DEF FlowTypes
  <1>2. sh' = [sh EXCEPT ![s] = new] BY DEF Goto
  <1>3. /\ new \in Locals /\ new.pc = pc /\ new.ev = sh[s].ev /\ new.conn = sh[s].conn
        /\ new.ok = sh[s].ok /\ new.allow = sh[s].allow /\ new.via = sh[s].via
    BY <1>1 DEF Locals
  <1> HIDE DEF new
  <1> QED BY <1>1, <1>2, <1>3

(* A shard that only goes on to its next step. *)
LEMMA GoesOn ==
  ASSUME IInv, NEW s \in Shards, NEW pc \in {"store", "sync", "forget", "filter"}, Goto(s, pc),
         sh[s].pc \notin {"read", "decide", "remember"}, ring' = ring,
         cache' \in [Gens -> MaybeConn], synced' \in [Gens -> MaybeConn], tuples' \in [Gens -> MaybeConn],
         \A g \in Gens : cache'[g] # NoConn => g <= live.gen /\ OfGen(g, cache'[g]),
         \A g \in Gens : tuples'[g] # NoConn => g <= live.gen /\ OfGen(g, tuples'[g]),
         UNCHANGED <<live, flows, pollVars, history, failed>>
  PROVE  IInv'
  <1>1. /\ sh' \in [Shards -> Locals] /\ \A t \in Shards \ {s} : sh'[t] = sh[t]
        /\ sh'[s].pc = pc /\ sh'[s].ev = sh[s].ev /\ sh'[s].conn = sh[s].conn /\ sh'[s].ok = sh[s].ok
    BY GotoEffect DEF IInv
  <1>2. /\ sh[s].ev \in Event /\ OfGen(sh[s].ev.gen, sh[s].conn) /\ ring \in [Shards -> Seq(Event)]
        /\ (sh[s].ok <=> sh[s].conn # NoConn)
    BY DEF IInv, Metadata, FlowTypes
  <1>3. /\ sh'[s].ok <=> sh'[s].conn # NoConn
        /\ sh'[s].ev \in Event /\ OfGen(sh'[s].ev.gen, sh'[s].conn) /\ ring' \in [Shards -> Seq(Event)]
    BY <1>1, <1>2
  <1> QED BY <1>1, <1>3, QuietShard

-----------------------------------------------------------------------------
(* The shards, up to the filter *)

LEMMA HoldEffect ==
  ASSUME FlowTypes, NEW s \in Shards, NEW pc \in {"proc", "store", "sync", "forget", "filter"},
         NEW e \in Event, NEW c \in MaybeConn, Hold(s, pc, e, c)
  PROVE  /\ sh' \in [Shards -> Locals] /\ \A t \in Shards \ {s} : sh'[t] = sh[t]
         /\ sh'[s].pc = pc /\ sh'[s].ev = e /\ sh'[s].conn = c /\ (sh'[s].ok <=> sh'[s].conn # NoConn)
  <1> DEFINE new == [pc |-> pc, ev |-> e, conn |-> c, ok |-> c # NoConn, allow |-> FALSE, via |-> 0]
  <1>1. sh' = [sh EXCEPT ![s] = new] /\ sh \in [Shards -> Locals]
    BY DEF Hold, FlowTypes
  <1>2. e \in [gen : Gens \cup {0}, kind : {"socket", "http", "body", "close", "none"}, tuple : MaybeConn]
    BY EventType
  <1>3. new \in Locals /\ new.pc = pc /\ new.ev = e /\ new.conn = c /\ (new.ok <=> c # NoConn)
    BY <1>2 DEF Locals
  <1> HIDE DEF new
  <1> QED BY <1>1, <1>3

LEMMA ReadRecordIInv ==
  ASSUME IInv, NEW s \in Shards, ReadRecord(s)
  PROVE  IInv'
  <1> DEFINE e == Head(ring[s])
             c == cache[e.gen]
             pc == IF c # NoConn THEN "sync" ELSE "proc"
  <1>1. sh[s].pc = "read" /\ ring[s] # <<>> /\ Take(s, pc, c) BY DEF ReadRecord
  <1>2. ring[s] \in Seq(Event) /\ e \in Event /\ Tail(ring[s]) \in Seq(Event)
    BY <1>1 DEF IInv, Metadata
  <1>3. c \in MaybeConn /\ OfGen(e.gen, c)
    <2>1. e.gen \in Gens BY <1>2, EventType
    <2> QED BY <2>1 DEF IInv, FlowTypes, Metadata, OfGen
  <1>4. ring' \in [Shards -> Seq(Event)]
    <2>1. ring \in [Shards -> Seq(Event)] BY DEF IInv, Metadata
    <2>2. ring' = [ring EXCEPT ![s] = Tail(ring[s])] BY <1>1 DEF Take
    <2> QED BY <1>2, <2>1, <2>2
  <1>5. /\ sh' \in [Shards -> Locals] /\ \A t \in Shards \ {s} : sh'[t] = sh[t]
        /\ sh'[s].pc = pc /\ sh'[s].ev = e /\ sh'[s].conn = c /\ (sh'[s].ok <=> c # NoConn)
    <2>1. Hold(s, pc, e, c) /\ pc \in {"sync", "proc"} /\ FlowTypes BY <1>1 DEF Take, IInv
    <2> HIDE DEF e, c, pc
    <2> QED BY <1>2, <1>3, <2>1, HoldEffect
  <1>6. UNCHANGED <<live, tuples, cache, synced, flows, pollVars, history, failed>>
    BY <1>1 DEF Take, flowVars
  <1>7. pc \in {"sync", "proc"} OBVIOUS
  <1> HIDE DEF e, c, pc
  <1> QED BY <1>1, <1>2, <1>3, <1>4, <1>5, <1>6, <1>7, QuietShard DEF IInv, FlowTypes, Metadata

(* What the proofs of the later steps use of a shard that has an event. *)
LEMMA InHand ==
  ASSUME IInv, NEW s \in Shards, sh[s].pc # "read"
  PROVE  /\ FlowTypes /\ sh[s].ev \in Event /\ sh[s].ev.gen \in Gens /\ sh[s].conn \in MaybeConn
         /\ OfGen(sh[s].ev.gen, sh[s].conn) /\ (sh[s].ok <=> sh[s].conn # NoConn)
         /\ sh[s].ev.gen <= live.gen /\ Timely(sh[s].ev.gen)
         /\ OfGen(sh[s].ev.gen, sh[s].ev.tuple) /\ sh[s].ev.tuple \in MaybeConn
         /\ sh[s].ev.kind \in {"socket", "http", "body", "close"}
  <1>1. sh[s].ev \in Event /\ OfGen(sh[s].ev.gen, sh[s].conn) BY DEF IInv, Metadata
  <1> QED BY <1>1, EventType, LocalTypes DEF IInv, FlowTypes

LEMMA SharedMaps ==
  ASSUME IInv
  PROVE  /\ cache \in [Gens -> MaybeConn] /\ synced \in [Gens -> MaybeConn] /\ tuples \in [Gens -> MaybeConn]
         /\ \A g \in Gens : cache[g] # NoConn => g <= live.gen /\ OfGen(g, cache[g])
         /\ \A g \in Gens : tuples[g] # NoConn => g <= live.gen /\ OfGen(g, tuples[g])
         /\ ring \in [Shards -> Seq(Event)] /\ FlowTypes
  BY DEF IInv, FlowTypes, Metadata

(* /proc answers for the descriptor: for a late event it may be another     *)
(* connection, for the present generation it is the right one.              *)
LEMMA ReadProcIInv ==
  ASSUME IInv, NEW s \in Shards, ReadProc(s)
  PROVE  IInv'
  <1>1. sh[s].pc = "proc" /\ UNCHANGED <<live, ring, tuples, cache, synced, flows, pollVars, history, failed>>
    BY DEF ReadProc, flowVars
  <1>2. CASE Goto(s, "store")
    BY <1>1, <1>2, SharedMaps, GoesOn
  <1>3. CASE live.open /\ Hold(s, "store", sh[s].ev, ProcConn(live.gen))
    <2>1. sh[s].ev.gen \in Gens /\ sh[s].ev.gen <= live.gen /\ live.gen \in Gens
      BY <1>1, InHand DEF FlowTypes, Gens
    <2>2. ProcConn(live.gen) \in Conn /\ ProcConn(live.gen) # NoConn /\ ProcConn(live.gen).port = Conns[live.gen].port
      BY <2>1, GenConn
    <2>3. OfGen(sh[s].ev.gen, ProcConn(live.gen))
      <3>1. sh[s].ev.gen = live.gen \/ (sh[s].ev.gen < live.gen /\ sh[s].ev.gen \in late)
        BY <1>1, <2>1, InHand DEF Timely, Gens
      <3> QED BY <2>2, <3>1 DEF OfGen
    <2>4. /\ sh' \in [Shards -> Locals] /\ \A t \in Shards \ {s} : sh'[t] = sh[t]
          /\ sh'[s].pc = "store" /\ sh'[s].ev = sh[s].ev /\ sh'[s].conn = ProcConn(live.gen)
          /\ (sh'[s].ok <=> sh'[s].conn # NoConn)
      BY <1>1, <1>3, <2>2, InHand, HoldEffect DEF MaybeConn
    <2> QED BY <1>1, <2>3, <2>4, InHand, SharedMaps, QuietShard
  <1> QED BY <1>2, <1>3 DEF ReadProc

LEMMA CacheStoreIInv ==
  ASSUME IInv, NEW s \in Shards, CacheStore(s)
  PROVE  IInv'
  <1>1. /\ sh[s].pc = "store" /\ cache' = [cache EXCEPT ![sh[s].ev.gen] = sh[s].conn] /\ Goto(s, "sync")
        /\ UNCHANGED <<live, ring, synced, tuples, flows, pollVars, history, failed>>
    BY DEF CacheStore
  <1>2. /\ cache' \in [Gens -> MaybeConn]
        /\ \A g \in Gens : cache'[g] # NoConn => g <= live.gen /\ OfGen(g, cache'[g])
    BY <1>1, InHand, SharedMaps
  <1> QED BY <1>1, <1>2, SharedMaps, GoesOn

LEMMA SyncTupleIInv ==
  ASSUME IInv, NEW s \in Shards, SyncTuple(s)
  PROVE  IInv'
  <1>1. sh[s].pc = "sync" /\ UNCHANGED <<live, ring, cache, flows, pollVars, history, failed>>
    BY DEF SyncTuple
  <1>2. AfterMetadata(s) \in {"forget", "filter"} BY DEF AfterMetadata
  <1>3. CASE Goto(s, AfterMetadata(s)) /\ UNCHANGED <<tuples, synced>>
    BY <1>1, <1>2, <1>3, SharedMaps, GoesOn
  <1>4. CASE WriteTuple(s, sh[s].ev.gen) /\ Goto(s, AfterMetadata(s))
    <2>1. /\ tuples' \in [Gens -> MaybeConn] /\ synced' \in [Gens -> MaybeConn]
          /\ \A g \in Gens : tuples'[g] # NoConn => g <= live.gen /\ OfGen(g, tuples'[g])
      BY <1>1, <1>4, InHand, SharedMaps DEF WriteTuple
    <2> QED BY <1>1, <1>2, <1>4, <2>1, SharedMaps, GoesOn
  <1>5. CASE FromTuple(s) /\ UNCHANGED <<tuples, synced>>
    <2>1. sh[s].ev.tuple \in MaybeConn /\ OfGen(sh[s].ev.gen, sh[s].ev.tuple)
      BY <1>1, InHand
    <2>2. /\ sh' \in [Shards -> Locals] /\ \A t \in Shards \ {s} : sh'[t] = sh[t]
          /\ sh'[s].pc = AfterMetadata(s) /\ sh'[s].ev = sh[s].ev /\ sh'[s].conn = sh[s].ev.tuple
          /\ (sh'[s].ok <=> sh'[s].conn # NoConn)
      BY <1>1, <1>2, <1>5, <2>1, InHand, HoldEffect DEF FromTuple
    <2> QED BY <1>1, <1>2, <1>5, <2>1, <2>2, InHand, SharedMaps, QuietShard
  <1> QED BY <1>3, <1>4, <1>5 DEF SyncTuple

LEMMA ForgetIInv ==
  ASSUME IInv, NEW s \in Shards, Forget(s)
  PROVE  IInv'
  <1>1. /\ sh[s].pc = "forget" /\ Goto(s, "filter")
        /\ synced' = [synced EXCEPT ![sh[s].ev.gen] = NoConn] /\ cache' = [cache EXCEPT ![sh[s].ev.gen] = NoConn]
        /\ UNCHANGED <<live, ring, tuples, flows, pollVars, history, failed>>
    BY DEF Forget
  <1>2. NoConn \in MaybeConn BY DEF MaybeConn
  <1>3. /\ cache' \in [Gens -> MaybeConn] /\ synced' \in [Gens -> MaybeConn]
        /\ \A g \in Gens : cache'[g] # NoConn => g <= live.gen /\ OfGen(g, cache'[g])
    BY <1>1, <1>2, InHand, SharedMaps
  <1> QED BY <1>1, <1>3, SharedMaps, GoesOn

-----------------------------------------------------------------------------
(* The filter *)

(* A shard that looks a flow up, decides it or remembers the decision       *)
(* changes no metadata; what it publishes has the metadata in its hands.    *)
LEMMA FilterMetadata ==
  ASSUME IInv, NEW s \in Shards, sh[s].pc \in {"filter", "decide", "remember"},
         sh' \in [Shards -> Locals], \A t \in Shards \ {s} : sh'[t] = sh[t],
         \/ sh'[s] = Idle
         \/ sh'[s].pc # "read" /\ sh'[s].ev = sh[s].ev /\ sh'[s].conn = sh[s].conn /\ sh'[s].ok = sh[s].ok,
         \/ published' = published
         \/ published' = published \cup {[gen |-> sh[s].ev.gen, conn |-> sh[s].conn]},
         flows' \in [Gens -> [decision : {"none", "allow", "deny"}, by : {0} \cup Versions]],
         UNCHANGED <<live, ring, cache, synced, tuples, filter, late>>
  PROVE  FlowTypes' /\ Metadata'
  <1>1. /\ sh[s].ev \in Event /\ sh[s].ev.gen \in Gens /\ OfGen(sh[s].ev.gen, sh[s].conn)
        /\ (sh[s].ok <=> sh[s].conn # NoConn)
    BY InHand
  <1>2. FlowTypes'
    <2>1. \A t \in Shards : sh'[t].ok <=> sh'[t].conn # NoConn BY <1>1, IdleType DEF IInv, FlowTypes
    <2> QED BY <2>1 DEF IInv, FlowTypes
  <1>3. \A t \in Shards : sh'[t].pc # "read" => sh'[t].ev \in Event /\ OfGen(sh'[t].ev.gen, sh'[t].conn)
    <2>1. sh'[s].pc # "read" => sh'[s].ev \in Event /\ OfGen(sh'[s].ev.gen, sh'[s].conn) BY <1>1, IdleType
    <2> QED BY <2>1 DEF IInv, Metadata
  <1>4. \A t \in Shards : sh'[t].pc = "read" => sh'[t].ev.gen = 0 BY IdleType DEF IInv, Metadata
  <1>5. \A p \in published' : p.gen \in Gens /\ OfGen(p.gen, p.conn) BY <1>1 DEF IInv, Metadata
  <1>6. Event' = Event BY SameJudgement
  <1>7. Metadata' BY <1>3, <1>4, <1>5, <1>6, SharedMaps DEF Metadata, OfGen
  <1> QED BY <1>2, <1>7

LEMMA FinishEffect ==
  ASSUME IInv, NEW s \in Shards, sh[s].pc # "read", NEW allowed \in BOOLEAN, Finish(s, allowed)
  PROVE  LET g == sh[s].ev.gen IN
         /\ sh' \in [Shards -> Locals] /\ \A t \in Shards \ {s} : sh'[t] = sh[t]
         /\ sh'[s] = Idle /\ sh'[s].pc = "read"
         /\ published' = published \/ (allowed /\ published' = published \cup {[gen |-> g, conn |-> sh[s].conn]})
         /\ \A h \in Gens : Admitted(h)' => Admitted(h) \/ (h = g /\ allowed)
         /\ broken' = IF ~allowed /\ Admitted(g) THEN broken \cup {g} ELSE broken
         /\ \A h \in Gens : Deciding(h)' = Deciding(h) \ {s}
  <1>1. sh' = [sh EXCEPT ![s] = Idle] /\ sh \in [Shards -> Locals] BY DEF Finish, IInv, FlowTypes
  <1>2. /\ sh' \in [Shards -> Locals] /\ \A t \in Shards \ {s} : sh'[t] = sh[t] /\ sh'[s] = Idle
    BY <1>1, IdleType
  <1>3. sh'[s] = Idle /\ sh'[s].pc = "read" BY <1>1, IdleType
  <1>4. \/ published' = published
        \/ allowed /\ published' = published \cup {[gen |-> sh[s].ev.gen, conn |-> sh[s].conn]}
    BY DEF Finish
  <1>5. \A h \in Gens : Admitted(h)' => Admitted(h) \/ (h = sh[s].ev.gen /\ allowed) BY <1>4 DEF Admitted
  <1>6. broken' = IF ~allowed /\ Admitted(sh[s].ev.gen) THEN broken \cup {sh[s].ev.gen} ELSE broken BY DEF Finish
  <1>7. \A h \in Gens : Deciding(h)' = Deciding(h) \ {s} BY <1>2, <1>3 DEF Deciding
  <1> QED BY <1>2, <1>3, <1>4, <1>5, <1>6, <1>7

LEMMA FilterLookupIInv ==
  ASSUME IInv, NEW s \in Shards, FilterLookup(s)
  PROVE  IInv'
  <1> DEFINE g == sh[s].ev.gen
  <1>1. /\ sh[s].pc = "filter" /\ UNCHANGED <<live, ring, tuples, cache, synced, flows, filter, late, racing, failed>>
        /\ UNCHANGED pollVars
    BY DEF FilterLookup, flowVars, pollVars
  <1>2. g \in Gens /\ FlowTypes /\ s \notin Deciding(g) BY <1>1, InHand DEF Deciding
  <1>3. Applying' BY <1>1, ApplyingFrame DEF IInv
  <1>4. flows' \in [Gens -> [decision : {"none", "allow", "deny"}, by : {0} \cup Versions]]
    BY <1>1 DEF IInv, FlowTypes
  <1>5. CASE flows[g].decision # "none" /\ Finish(s, flows[g].decision = "allow") /\ UNCHANGED disturbed
    <2> DEFINE allowed == flows[g].decision = "allow"
    <2>1. allowed \in BOOLEAN /\ Finish(s, allowed) BY <1>5
    <2>2. /\ sh' \in [Shards -> Locals] /\ \A t \in Shards \ {s} : sh'[t] = sh[t]
          /\ sh'[s] = Idle /\ sh'[s].pc = "read"
          /\ published' = published \/ (allowed /\ published' = published \cup {[gen |-> g, conn |-> sh[s].conn]})
          /\ \A h \in Gens : Admitted(h)' => Admitted(h) \/ (h = g /\ allowed)
          /\ broken' = IF ~allowed /\ Admitted(g) THEN broken \cup {g} ELSE broken
          /\ \A h \in Gens : Deciding(h)' = Deciding(h) \ {s}
      <3> HIDE DEF allowed
      <3> QED BY <1>1, <2>1, FinishEffect
    <2>3. FlowTypes' /\ Metadata' BY <1>1, <1>4, <2>2, FilterMetadata
    <2>4. Whole'
      <3>1. broken' \subseteq Gens BY <1>2, <2>2 DEF IInv, Whole
      <3>2. ASSUME NEW h \in Gens \ disturbed'
            PROVE  /\ \A t, u \in Deciding(h)' : t = u
                   /\ Deciding(h)' # {} => flows'[h].decision = "none"
                   /\ Admitted(h)' => flows'[h].decision = "allow"
                   /\ h \notin broken'
        <4>1. h \in Gens \ disturbed BY <1>5
        <4> QED BY <1>1, <1>2, <2>2, <4>1 DEF IInv, Whole
      <3> QED BY <3>1, <3>2 DEF Whole
    <2>5. Current' BY <1>1, <2>2 DEF IInv, Current, DecisionsAreCurrent
    <2> QED BY <1>3, <2>3, <2>4, <2>5 DEF IInv
  <1>6. CASE /\ flows[g].decision = "none" /\ Goto(s, "decide") /\ UNCHANGED <<published, broken>>
             /\ disturbed' = disturbed \cup {h \in {g} : Deciding(h) # {}}
    <2>1. /\ sh' \in [Shards -> Locals] /\ \A t \in Shards \ {s} : sh'[t] = sh[t]
          /\ sh'[s].pc = "decide" /\ sh'[s].ev = sh[s].ev /\ sh'[s].conn = sh[s].conn /\ sh'[s].ok = sh[s].ok
      BY <1>2, <1>6, GotoEffect
    <2>2. FlowTypes' /\ Metadata' BY <1>1, <1>4, <1>6, <2>1, FilterMetadata
    <2>3. \A h \in Gens : Deciding(h)' = IF h = g THEN Deciding(h) \cup {s} ELSE Deciding(h)
      BY <1>1, <2>1 DEF Deciding
    <2>4. Whole'
      <3>1. broken' \subseteq Gens BY <1>6 DEF IInv, Whole
      <3>2. ASSUME NEW h \in Gens \ disturbed'
            PROVE  /\ \A t, u \in Deciding(h)' : t = u
                   /\ Deciding(h)' # {} => flows'[h].decision = "none"
                   /\ Admitted(h)' => flows'[h].decision = "allow"
                   /\ h \notin broken'
        <4>1. h \in Gens \ disturbed /\ (h = g => Deciding(h) = {}) BY <1>6
        <4>2. Admitted(h)' <=> Admitted(h) BY <1>6 DEF Admitted
        <4> QED BY <1>1, <1>6, <2>3, <4>1, <4>2 DEF IInv, Whole
      <3> QED BY <3>1, <3>2 DEF Whole
    <2>5. Current' BY <1>1, <2>1 DEF IInv, Current, DecisionsAreCurrent
    <2> QED BY <1>3, <2>2, <2>4, <2>5 DEF IInv
  <1> QED BY <1>5, <1>6 DEF FilterLookup

LEMMA DecidedEffect ==
  ASSUME FlowTypes, NEW s \in Shards, NEW allow \in BOOLEAN, NEW via \in {0} \cup Versions, Decided(s, allow, via)
  PROVE  /\ sh' \in [Shards -> Locals] /\ \A t \in Shards \ {s} : sh'[t] = sh[t]
         /\ sh'[s].pc = "remember" /\ sh'[s].ev = sh[s].ev /\ sh'[s].conn = sh[s].conn /\ sh'[s].ok = sh[s].ok
         /\ sh'[s].via = via
  <1> DEFINE new == [pc |-> "remember", ev |-> sh[s].ev, conn |-> sh[s].conn, ok |-> sh[s].ok,
                     allow |-> allow, via |-> via]
  <1>1. sh' = [sh EXCEPT ![s] = new] /\ sh \in [Shards -> Locals]
    BY DEF Decided, FlowTypes
  <1>2. /\ new \in Locals /\ new.pc = "remember" /\ new.ev = sh[s].ev /\ new.conn = sh[s].conn
        /\ new.ok = sh[s].ok /\ new.via = via
    BY <1>1 DEF Locals
  <1> HIDE DEF new
  <1> QED BY <1>1, <1>2

LEMMA DecideIInv ==
  ASSUME IInv, NEW s \in Shards, Decide(s)
  PROVE  IInv'
  <1> DEFINE g == sh[s].ev.gen
  <1>1. /\ sh[s].pc = "decide"
        /\ UNCHANGED <<live, ring, tuples, cache, synced, flows, filter, late, disturbed, racing, failed>>
        /\ UNCHANGED pollVars
    BY DEF Decide, flowVars, pollVars
  <1>2. g \in Gens /\ FlowTypes /\ s \in Deciding(g) BY <1>1, InHand DEF Deciding
  <1>3. Applying' BY <1>1, ApplyingFrame DEF IInv
  <1>4. flows' \in [Gens -> [decision : {"none", "allow", "deny"}, by : {0} \cup Versions]] /\ filter \in Versions
    BY <1>1 DEF IInv, FlowTypes
  <1>5. ASSUME NEW allow \in BOOLEAN, NEW via \in {0, filter}, Decided(s, allow, via), UNCHANGED <<published, broken>>
        PROVE  IInv'
    <2>1. /\ sh' \in [Shards -> Locals] /\ \A t \in Shards \ {s} : sh'[t] = sh[t]
          /\ sh'[s].pc = "remember" /\ sh'[s].ev = sh[s].ev /\ sh'[s].conn = sh[s].conn /\ sh'[s].ok = sh[s].ok
          /\ sh'[s].via = via
      BY <1>2, <1>4, <1>5, DecidedEffect
    <2>2. FlowTypes' /\ Metadata' BY <1>1, <1>4, <1>5, <2>1, FilterMetadata
    <2>3. \A h \in Gens : Deciding(h)' = Deciding(h) BY <1>1, <2>1 DEF Deciding
    <2>4. Whole' BY <1>1, <1>5, <2>3 DEF IInv, Whole, Admitted
    <2>5. Current' BY <1>1, <1>5, <2>1 DEF IInv, Current, DecisionsAreCurrent
    <2> QED BY <1>3, <2>2, <2>4, <2>5 DEF IInv
  <1>6. CASE Finish(s, FALSE)
    <2>1. /\ sh' \in [Shards -> Locals] /\ \A t \in Shards \ {s} : sh'[t] = sh[t]
          /\ sh'[s] = Idle /\ sh'[s].pc = "read"
          /\ published' = published
          /\ \A h \in Gens : Admitted(h)' => Admitted(h)
          /\ broken' = IF Admitted(g) THEN broken \cup {g} ELSE broken
          /\ \A h \in Gens : Deciding(h)' = Deciding(h) \ {s}
      BY <1>1, <1>6, FinishEffect
    <2>2. FlowTypes' /\ Metadata' BY <1>1, <1>4, <2>1, FilterMetadata
    <2>3. Whole'
      <3>1. broken' \subseteq Gens BY <1>2, <2>1 DEF IInv, Whole
      <3>2. ASSUME NEW h \in Gens \ disturbed'
            PROVE  /\ \A t, u \in Deciding(h)' : t = u
                   /\ Deciding(h)' # {} => flows'[h].decision = "none"
                   /\ Admitted(h)' => flows'[h].decision = "allow"
                   /\ h \notin broken'
        BY <1>1, <1>2, <2>1 DEF IInv, Whole
      <3> QED BY <3>1, <3>2 DEF Whole
    <2>4. Current' BY <1>1, <2>1 DEF IInv, Current, DecisionsAreCurrent
    <2> QED BY <1>3, <2>2, <2>3, <2>4 DEF IInv
  <1>7. CASE sh[s].ok /\ Decided(s, connectionAllowed(Configs[filter], sh[s].conn), filter) /\ UNCHANGED <<published, broken>>
    <2>1. connectionAllowed(Configs[filter], sh[s].conn) \in BOOLEAN BY DEF connectionAllowed
    <2> QED BY <1>5, <1>7, <2>1
  <1> QED BY <1>5, <1>6, <1>7 DEF Decide

(* Whoever remembers is the only one to decide an undisturbed flow, so that *)
(* nothing was published before, and what follows gets the same answer.     *)
LEMMA RememberIInv ==
  ASSUME IInv, NEW s \in Shards, Remember(s)
  PROVE  IInv'
  <1> DEFINE g == sh[s].ev.gen
             new == [decision |-> IF sh[s].allow THEN "allow" ELSE "deny", by |-> sh[s].via]
  <1>1. /\ sh[s].pc = "remember" /\ flows' = [flows EXCEPT ![g] = new] /\ Finish(s, sh[s].allow)
        /\ UNCHANGED <<live, ring, tuples, cache, synced, filter, late, disturbed, racing, failed>>
        /\ UNCHANGED pollVars
    BY DEF Remember, pollVars
  <1>2. g \in Gens /\ FlowTypes /\ s \in Deciding(g) BY <1>1, InHand DEF Deciding
  <1>3. Applying' BY <1>1, ApplyingFrame DEF IInv
  <1>4. /\ new \in [decision : {"none", "allow", "deny"}, by : {0} \cup Versions]
        /\ new.decision = (IF sh[s].allow THEN "allow" ELSE "deny") /\ new.by = sh[s].via
    BY <1>2, LocalTypes
  <1> HIDE DEF new
  <1>5. /\ flows' \in [Gens -> [decision : {"none", "allow", "deny"}, by : {0} \cup Versions]]
        /\ flows'[g] = new /\ \A h \in Gens \ {g} : flows'[h] = flows[h]
    BY <1>1, <1>2, <1>4 DEF FlowTypes
  <1>6. /\ sh' \in [Shards -> Locals] /\ \A t \in Shards \ {s} : sh'[t] = sh[t]
        /\ sh'[s] = Idle /\ sh'[s].pc = "read"
        /\ published' = published \/ (sh[s].allow /\ published' = published \cup {[gen |-> g, conn |-> sh[s].conn]})
        /\ \A h \in Gens : Admitted(h)' => Admitted(h) \/ (h = g /\ sh[s].allow)
        /\ broken' = IF ~sh[s].allow /\ Admitted(g) THEN broken \cup {g} ELSE broken
        /\ \A h \in Gens : Deciding(h)' = Deciding(h) \ {s}
    BY <1>1, <1>2, LocalTypes, FinishEffect
  <1>7. FlowTypes' /\ Metadata' BY <1>1, <1>5, <1>6, FilterMetadata
  <1>8. Whole'
    <2>1. broken' \subseteq Gens BY <1>2, <1>6 DEF IInv, Whole
    <2>2. ASSUME NEW h \in Gens \ disturbed'
          PROVE  /\ \A t, u \in Deciding(h)' : t = u
                 /\ Deciding(h)' # {} => flows'[h].decision = "none"
                 /\ Admitted(h)' => flows'[h].decision = "allow"
                 /\ h \notin broken'
      <3>1. /\ \A t, u \in Deciding(h) : t = u
            /\ Deciding(h) # {} => flows[h].decision = "none"
            /\ Admitted(h) => flows[h].decision = "allow"
            /\ h \notin broken
        BY <1>1 DEF IInv, Whole
      <3>2. CASE h = g BY <1>2, <1>4, <1>5, <1>6, <3>1, <3>2
      <3>3. CASE h # g BY <1>2, <1>5, <1>6, <3>1, <3>3
      <3> QED BY <3>2, <3>3
    <2> QED BY <2>1, <2>2 DEF Whole
  <1>9. Current'
    <2>1. sh[s].via \in {0, filter} \/ g \in racing BY <1>1 DEF IInv, Current
    <2>2. DecisionsAreCurrent' BY <1>1, <1>4, <1>5, <2>1 DEF IInv, Current, DecisionsAreCurrent
    <2> QED BY <1>1, <1>6, <2>2 DEF IInv, Current
  <1> QED BY <1>3, <1>7, <1>8, <1>9 DEF IInv

LEMMA ExpireFlowIInv ==
  ASSUME IInv, NEW g \in Gens, ExpireFlow(g)
  PROVE  IInv'
  <1>1. /\ flows' = [flows EXCEPT ![g] = NoFlow] /\ disturbed' = disturbed \cup {g}
        /\ UNCHANGED <<live, ring, sh, cache, synced, tuples, filter, published, broken, late, racing, failed>>
        /\ UNCHANGED pollVars
    BY DEF ExpireFlow, pollVars
  <1>2. NoFlow \in [decision : {"none", "allow", "deny"}, by : {0} \cup Versions] /\ NoFlow.decision = "none"
    BY DEF NoFlow
  <1>3. /\ flows' \in [Gens -> [decision : {"none", "allow", "deny"}, by : {0} \cup Versions]]
        /\ flows'[g] = NoFlow /\ \A h \in Gens \ {g} : flows'[h] = flows[h]
    BY <1>1, <1>2 DEF IInv, FlowTypes
  <1>4. FlowTypes' BY <1>1, <1>3 DEF IInv, FlowTypes
  <1>5. Metadata'
    <2>1. Event' = Event BY <1>1, SameJudgement
    <2> QED BY <1>1, <2>1 DEF IInv, Metadata, OfGen
  <1>6. Whole' BY <1>1, <1>3 DEF IInv, Whole, Deciding, Admitted
  <1>7. Current' BY <1>1, <1>2, <1>3 DEF IInv, Current, DecisionsAreCurrent
  <1>8. Applying' BY <1>1, ApplyingFrame DEF IInv
  <1> QED BY <1>4, <1>5, <1>6, <1>7, <1>8 DEF IInv

(* A step that touches none of the decisions, nor what the shards hold.     *)
LEMMA SameDecisions ==
  ASSUME IInv, UNCHANGED <<sh, flows, filter, published, broken, disturbed, racing>>
  PROVE  Whole' /\ Current'
  BY DEF IInv, Whole, Deciding, Admitted, Current, DecisionsAreCurrent

LEMMA ExpireMetadataIInv ==
  ASSUME IInv, NEW g \in Gens, ExpireMetadata(g)
  PROVE  IInv'
  <1>1. /\ cache' = [cache EXCEPT ![g] = NoConn]
        /\ UNCHANGED <<live, ring, sh, synced, tuples, flows, filter, published, broken, late, disturbed, racing, failed>>
        /\ UNCHANGED pollVars
    BY DEF ExpireMetadata, pollVars, history
  <1>2. cache' \in [Gens -> MaybeConn] /\ cache'[g] = NoConn /\ \A h \in Gens \ {g} : cache'[h] = cache[h]
    BY <1>1, SharedMaps DEF MaybeConn
  <1>3. FlowTypes' BY <1>1, <1>2 DEF IInv, FlowTypes
  <1>4. Metadata'
    <2>1. Event' = Event BY <1>1, SameJudgement
    <2>2. \A h \in Gens : cache'[h] # NoConn => h <= live.gen /\ OfGen(h, cache'[h])
      BY <1>2, SharedMaps
    <2> QED BY <1>1, <2>1, <2>2 DEF IInv, Metadata, OfGen
  <1>5. Applying' BY <1>1, ApplyingFrame DEF IInv
  <1> QED BY <1>1, <1>3, <1>4, <1>5, SameDecisions DEF IInv

-----------------------------------------------------------------------------
(* The application and the probes *)

LEMMA LiveType ==
  ASSUME FlowTypes
  PROVE  live.gen \in Nat /\ live.gen \in 0 .. Len(Conns) /\ live.open \in BOOLEAN
         /\ (live.gen # 0 => live.gen \in Gens) /\ (live.open => live.gen \in Gens) /\ Len(Conns) \in Nat
  BY ConnsAssumption DEF FlowTypes, Gens

LEMMA CaptureEffect ==
  ASSUME IInv, NEW s \in Shards, NEW e \in Event, ring' = [ring EXCEPT ![s] = Append(@, e)]
  PROVE  ring' \in [Shards -> Seq(Event)]
  <1>1. ring \in [Shards -> Seq(Event)] BY SharedMaps
  <1>2. Append(ring[s], e) \in Seq(Event) BY <1>1
  <1> QED BY <1>1, <1>2

(* An event of the open connection, with the tuple the kernel has of it.    *)
LEMMA CapturedNow ==
  ASSUME IInv, live.gen \in Gens, NEW kind \in {"socket", "http", "body", "close"}
  PROVE  [gen |-> live.gen, kind |-> kind, tuple |-> tuples[live.gen]] \in Event
  <1>1. tuples[live.gen] \in MaybeConn /\ OfGen(live.gen, tuples[live.gen]) BY SharedMaps DEF OfGen
  <1>2. Timely(live.gen) BY LiveType DEF Timely, IInv
  <1> QED BY <1>1, <1>2 DEF Event

LEMMA TransferIInv ==
  ASSUME IInv, NEW s \in Shards, NEW kind \in {"http", "body"}, Transfer(s, kind)
  PROVE  IInv'
  <1>0. live.gen \in Gens BY LiveType DEF Transfer, IInv
  <1>1. /\ ring' = [ring EXCEPT ![s] = Append(@, [gen |-> live.gen, kind |-> kind, tuple |-> tuples[live.gen]])]
        /\ UNCHANGED <<live, sh, tuples, cache, synced, flows, filter, published, broken, late, disturbed, racing, failed>>
        /\ UNCHANGED pollVars
    BY DEF Transfer, Capture, flowVars, history, pollVars
  <1>2. ring' \in [Shards -> Seq(Event)] BY <1>0, <1>1, CapturedNow, CaptureEffect
  <1>3. FlowTypes' BY <1>1 DEF IInv, FlowTypes
  <1>4. Metadata'
    <2>1. Event' = Event BY <1>1, SameJudgement
    <2> QED BY <1>1, <1>2, <2>1 DEF IInv, Metadata, OfGen
  <1>5. Applying' BY <1>1, ApplyingFrame DEF IInv
  <1> QED BY <1>1, <1>3, <1>4, <1>5, SameDecisions DEF IInv

LEMMA CloseIInv ==
  ASSUME IInv, NEW s \in Shards, Close(s)
  PROVE  IInv'
  <1>0. live.gen \in Gens BY LiveType DEF Close, IInv
  <1>1. /\ live' = [live EXCEPT !.open = FALSE] /\ tuples' = [tuples EXCEPT ![live.gen] = NoConn]
        /\ \/ ring' = [ring EXCEPT ![s] = Append(@, [gen |-> live.gen, kind |-> "close", tuple |-> tuples[live.gen]])]
           \/ ring' = ring
        /\ UNCHANGED <<sh, cache, synced, flows, filter, published, broken, late, disturbed, racing, failed>>
        /\ UNCHANGED pollVars
    BY DEF Close, Capture, flowVars, history, pollVars
  <1>2. ring' \in [Shards -> Seq(Event)] BY <1>0, <1>1, CapturedNow, CaptureEffect, SharedMaps
  <1>3. live' \in [gen : 0 .. Len(Conns), open : BOOLEAN] /\ live'.gen = live.gen /\ live'.open = FALSE
    BY <1>1 DEF IInv, FlowTypes
  <1>4. tuples' \in [Gens -> MaybeConn] /\ \A h \in Gens : tuples'[h] \in {tuples[h], NoConn}
    BY <1>1, SharedMaps DEF MaybeConn
  <1>5. FlowTypes' BY <1>1, <1>3, <1>4 DEF IInv, FlowTypes
  <1>6. Metadata'
    <2>1. Event' = Event BY <1>1, <1>3 DEF Event, Timely, OfGen
    <2>2. \A h \in Gens : tuples'[h] # NoConn => h <= live.gen /\ OfGen(h, tuples'[h])
      BY <1>4, SharedMaps
    <2> QED BY <1>1, <1>2, <1>3, <2>1, <2>2 DEF IInv, Metadata, OfGen
  <1>7. Applying' BY <1>1, ApplyingFrame DEF IInv
  <1> QED BY <1>1, <1>5, <1>6, <1>7, SameDecisions DEF IInv

(* The descriptor is opened again: everything of the old generation that is *)
(* still on its way becomes late, and nothing is known of the new one.      *)
LEMMA OpenIInv ==
  ASSUME IInv, NEW s \in Shards, Open(s)
  PROVE  IInv'
  <1>1. PICK g \in Gens :
        /\ g = live.gen + 1 /\ live' = [gen |-> g, open |-> TRUE] /\ late' = late \cup (Outstanding \ {0})
        /\ UNCHANGED <<sh, cache, synced, flows, filter, published, broken, disturbed, racing, failed>>
        /\ UNCHANGED pollVars
        /\ \/ UNCHANGED <<tuples, ring>>
           \/ /\ tuples' = [tuples EXCEPT ![g] = Conns[g]]
              /\ ring' = [ring EXCEPT ![s] = Append(@, [gen |-> g, kind |-> "socket", tuple |-> Conns[g]])]
    BY DEF Open, Capture, flowVars, pollVars
  <1>2. live.gen \in Nat /\ g \in Nat /\ g # 0 /\ live'.gen = g /\ live' \in [gen : 0 .. Len(Conns), open : BOOLEAN]
    BY <1>1, LiveType DEF IInv, Gens
  <1>3. live.gen < g /\ \A h \in Gens : h \in Nat BY <1>1, <1>2 DEF Gens
  <1>4. \A h \in Gens : \A c : h <= live.gen /\ OfGen(h, c) => OfGen(h, c)' /\ h <= live'.gen
    <2>1. ASSUME NEW h \in Gens, NEW c, h <= live.gen, OfGen(h, c)
          PROVE  OfGen(h, c)' /\ h <= live'.gen
      <3>1. h < live'.gen BY <1>2, <1>3, <2>1
      <3> QED BY <1>1, <1>2, <2>1, <3>1 DEF OfGen
    <2> QED BY <2>1
  <1>5. ASSUME NEW e \in Event, e.gen \in Outstanding
        PROVE  e \in Event'
    <2>1. e.gen \in Gens /\ e.gen <= live.gen /\ OfGen(e.gen, e.tuple) BY EventType
    <2>2. e.gen \in late' BY <1>1, <1>5, <2>1 DEF Gens
    <2>3. Timely(e.gen)'
      <3>0. e.gen \in Nat BY <1>3, <2>1
      <3>1. e.gen <= live'.gen BY <1>2, <1>3, <2>1, <3>0
      <3> QED BY <2>2, <3>1 DEF Timely
    <2>4. OfGen(e.gen, e.tuple)' BY <1>4, <2>1
    <2> QED BY <2>3, <2>4 DEF Event
  <1>6. ring \in [Shards -> Seq(Event')]
    <2>1. ASSUME NEW t \in Shards PROVE ring[t] \in Seq(Event')
      <3>1. ring[t] \in Seq(Event) BY SharedMaps
      <3>2. \A i \in 1 .. Len(ring[t]) : ring[t][i] \in Event /\ ring[t][i].gen \in Outstanding
        BY <3>1 DEF Outstanding
      <3>3. \A i \in 1 .. Len(ring[t]) : ring[t][i] \in Event' BY <1>5, <3>2
      <3> QED BY <3>1, <3>3
    <2> QED BY <2>1, SharedMaps
  <1>7. Conns[g] \in Conn /\ Conns[g] # NoConn BY <1>1, GenConn
  <1>8. ring' \in [Shards -> Seq(Event')]
    <2>1. [gen |-> g, kind |-> "socket", tuple |-> Conns[g]] \in Event'
      <3>1. Timely(g)' BY <1>2 DEF Timely
      <3>2. OfGen(g, Conns[g])' BY DEF OfGen
      <3> QED BY <1>1, <1>7, <3>1, <3>2 DEF Event, MaybeConn
    <2>2. Append(ring[s], [gen |-> g, kind |-> "socket", tuple |-> Conns[g]]) \in Seq(Event') BY <1>6, <2>1
    <2> QED BY <1>1, <1>6, <2>2
  <1>9. tuples' \in [Gens -> MaybeConn] /\ \A h \in Gens : tuples'[h] = tuples[h] \/ (h = g /\ tuples'[h] = Conns[g])
    BY <1>1, <1>7, SharedMaps DEF MaybeConn
  <1>10. FlowTypes' BY <1>1, <1>2, <1>9 DEF IInv, FlowTypes
  <1>11. Metadata'
    <2>1. ASSUME NEW t \in Shards, sh[t].pc # "read"
          PROVE  sh[t].ev \in Event' /\ OfGen(sh[t].ev.gen, sh[t].conn)'
      <3>1. sh[t].ev.gen \in Outstanding BY DEF Outstanding
      <3>2. sh[t].ev \in Event' BY <1>5, <2>1, <3>1, InHand
      <3>3. OfGen(sh[t].ev.gen, sh[t].conn)'
        <4>1. sh[t].ev.gen < live'.gen
          <5>1. sh[t].ev.gen \in Nat /\ sh[t].ev.gen <= live.gen BY <1>3, <2>1, InHand
          <5> QED BY <1>2, <1>3, <5>1
        <4> QED BY <1>1, <1>2, <2>1, <4>1, InHand DEF OfGen
      <3> QED BY <3>2, <3>3
    <2>2. ASSUME NEW h \in Gens, cache[h] # NoConn
          PROVE  h <= live'.gen /\ OfGen(h, cache[h])'
      <3>1. h <= live.gen /\ OfGen(h, cache[h]) BY <2>2, SharedMaps
      <3>2. h < live'.gen BY <1>2, <1>3, <3>1
      <3>3. h <= live'.gen BY <1>2, <1>3, <3>2
      <3>4. cache' = cache /\ late \subseteq late' BY <1>1
      <3> QED BY <3>1, <3>2, <3>3, <3>4 DEF OfGen
    <2>3. ASSUME NEW h \in Gens, tuples'[h] # NoConn
          PROVE  h <= live'.gen /\ OfGen(h, tuples[h])'
      <3>1. CASE tuples'[h] = tuples[h]
        <4>1. h <= live.gen /\ OfGen(h, tuples[h]) BY <2>3, <3>1, SharedMaps
        <4>2. h < live'.gen BY <1>2, <1>3, <4>1
        <4> QED BY <1>1, <1>2, <1>3, <3>1, <4>1, <4>2 DEF OfGen
      <3>2. CASE h = g /\ tuples'[h] = Conns[g] BY <1>2, <3>2 DEF OfGen
      <3> QED BY <1>9, <3>1, <3>2
    <2>4. ASSUME NEW p \in published
          PROVE  p.gen \in Gens /\ OfGen(p.gen, p.conn)'
      <3>1. p.gen \in Gens /\ OfGen(p.gen, p.conn) BY DEF IInv, Metadata
      <3>2. p.gen < live.gen => p.gen < live'.gen
        <4>1. p.gen \in Nat BY <1>3, <3>1
        <4> QED BY <1>2, <1>3, <4>1
      <3> QED BY <1>1, <3>1, <3>2 DEF OfGen
    <2>5. \A t \in Shards : sh'[t].pc # "read" => sh'[t].ev \in Event' /\ OfGen(sh[t].ev.gen, sh[t].conn)'
      BY <1>1, <2>1
    <2>6. \A t \in Shards : sh'[t].pc = "read" => sh'[t].ev.gen = 0 BY <1>1 DEF IInv, Metadata
    <2>7. \A h \in Gens : /\ cache'[h] # NoConn => h <= live'.gen /\ OfGen(h, cache[h])'
                          /\ tuples'[h] # NoConn => h <= live'.gen /\ OfGen(h, tuples[h])'
      BY <1>1, <2>2, <2>3
    <2>8. \A p \in published' : p.gen \in Gens /\ OfGen(p.gen, p.conn)' BY <1>1, <2>4
    <2> QED BY <1>8, <2>5, <2>6, <2>7, <2>8 DEF Metadata
  <1>12. Applying' BY <1>1, ApplyingFrame DEF IInv
  <1> QED BY <1>1, <1>10, <1>11, <1>12, SameDecisions DEF IInv

-----------------------------------------------------------------------------
(* The poller *)

LEMMA PollerTypes ==
  ASSUME Applying
  PROVE  /\ poller \in [pc : {"wait", "capture", "targets", "ignores", "filter"}, v : {0} \cup Versions, put : SUBSET Nat]
         /\ poller.pc \in {"wait", "capture", "targets", "ignores", "filter"}
         /\ poller.v \in {0} \cup Versions /\ poller.put \subseteq Nat
         /\ kernel \in [on : BOOLEAN, targets : SUBSET Nat, ignores : SUBSET Nat]
         /\ kernel.on \in BOOLEAN /\ kernel.targets \subseteq Nat /\ kernel.ignores \subseteq Nat
         /\ backend \in Versions /\ current \in {0} \cup Versions
         /\ (poller.pc # "wait" => poller.v \in Versions)
  BY DEF Applying

LEMMA BackendChangesIInv ==
  ASSUME IInv, NEW v \in Versions, BackendChanges(v)
  PROVE  IInv'
  <1>1. backend' = v /\ UNCHANGED <<filter, kernel, poller, current, failed>> BY DEF BackendChanges
  <1>2. Applying' BY <1>1 DEF IInv, Applying
  <1> QED BY <1>2, FlowFrame DEF BackendChanges

LEMMA PollIInv ==
  ASSUME IInv, Poll
  PROVE  IInv'
  <1>1. /\ poller' = [pc |-> "capture", v |-> backend, put |-> {}]
        /\ UNCHANGED <<filter, kernel, current, backend, failed>>
    BY DEF Poll
  <1>2. Applying' BY <1>1 DEF IInv, Applying
  <1> QED BY <1>2, FlowFrame DEF Poll

LEMMA SetCaptureIInv ==
  ASSUME IInv, SetCapture
  PROVE  IInv'
  <1>1. /\ poller.pc = "capture" /\ poller' = [poller EXCEPT !.pc = "targets"]
        /\ kernel' = [kernel EXCEPT !.on = Configs[poller.v].targets # {}]
        /\ UNCHANGED <<filter, current, backend, failed>>
    BY DEF SetCapture, PollerMoves, PollerTo, At
  <1>2. /\ poller.v \in Versions /\ poller.put = {} BY <1>1 DEF IInv, Applying
  <1>3. /\ poller' \in [pc : {"wait", "capture", "targets", "ignores", "filter"}, v : {0} \cup Versions, put : SUBSET Nat]
        /\ poller'.pc = "targets" /\ poller'.v = poller.v /\ poller'.put = {}
    BY <1>1, <1>2 DEF IInv, Applying
  <1>4. /\ kernel' \in [on : BOOLEAN, targets : SUBSET Nat, ignores : SUBSET Nat]
        /\ kernel'.on = (Configs[poller.v].targets # {})
    BY <1>1 DEF IInv, Applying
  <1>5. Applying' BY <1>1, <1>2, <1>3, <1>4 DEF IInv, Applying
  <1> QED BY <1>5, FlowFrame DEF SetCapture, PollerMoves

(* A map is complete when nothing old is left in it and nothing is missing. *)
LEMMA ReplaceTargetsIInv ==
  ASSUME IInv, ReplaceTargets
  PROVE  IInv'
  <1> DEFINE want == Configs[poller.v].targets
  <1>1. /\ poller.pc = "targets" /\ UNCHANGED <<filter, current, backend, failed>>
        /\ UNCHANGED <<live, ring, sh, flowVars, tuples, filter, history>>
    BY DEF ReplaceTargets, ReplacePorts, At
  <1>2. /\ poller.v \in Versions /\ poller.put \subseteq want \cap kernel.targets /\ kernel.on = (want # {})
        /\ current # 0 => filter = current
    BY <1>1 DEF IInv, Applying
  <1>3. want \subseteq Nat BY <1>2, VersionConfig DEF Config
  <1>4. \/ \E p \in kernel.targets \ poller.put : kernel' = [kernel EXCEPT !.targets = @ \ {p}] /\ UNCHANGED poller
        \/ \E p \in want \ poller.put : /\ kernel' = [kernel EXCEPT !.targets = @ \cup {p}]
                                        /\ poller' = [poller EXCEPT !.put = @ \cup {p}]
        \/ /\ kernel.targets \ poller.put = {} /\ want \ poller.put = {}
           /\ poller' = [poller EXCEPT !.pc = "ignores", !.put = {}] /\ UNCHANGED kernel
    BY DEF ReplaceTargets, ReplacePorts
  <1> HIDE DEF want
  <1>5. CASE \E p \in kernel.targets \ poller.put : kernel' = [kernel EXCEPT !.targets = @ \ {p}] /\ UNCHANGED poller
    <2>1. PICK p \in kernel.targets \ poller.put : kernel' = [kernel EXCEPT !.targets = @ \ {p}] /\ poller' = poller
      BY <1>5
    <2>2. /\ kernel' \in [on : BOOLEAN, targets : SUBSET Nat, ignores : SUBSET Nat]
          /\ kernel'.on = kernel.on /\ kernel'.targets = kernel.targets \ {p}
      BY <2>1, PollerTypes DEF IInv
    <2>3. Applying' BY <1>1, <1>2, <2>1, <2>2 DEF IInv, Applying, want
    <2> QED BY <1>1, <2>3, FlowFrame
  <1>6. CASE \E p \in want \ poller.put : /\ kernel' = [kernel EXCEPT !.targets = @ \cup {p}]
                                          /\ poller' = [poller EXCEPT !.put = @ \cup {p}]
    <2>1. PICK p \in want \ poller.put : /\ kernel' = [kernel EXCEPT !.targets = @ \cup {p}]
                                         /\ poller' = [poller EXCEPT !.put = @ \cup {p}]
      BY <1>6
    <2>2. /\ kernel' \in [on : BOOLEAN, targets : SUBSET Nat, ignores : SUBSET Nat]
          /\ kernel'.on = kernel.on /\ kernel'.targets = kernel.targets \cup {p}
      BY <1>3, <2>1, PollerTypes DEF IInv
    <2>3. /\ poller' \in [pc : {"wait", "capture", "targets", "ignores", "filter"}, v : {0} \cup Versions, put : SUBSET Nat]
          /\ poller'.pc = "targets" /\ poller'.v = poller.v /\ poller'.put = poller.put \cup {p}
      BY <1>1, <1>3, <2>1, PollerTypes DEF IInv
    <2>4. Applying' BY <1>1, <1>2, <2>1, <2>2, <2>3 DEF IInv, Applying, want
    <2> QED BY <1>1, <2>4, FlowFrame
  <1>7. CASE /\ kernel.targets \ poller.put = {} /\ want \ poller.put = {}
             /\ poller' = [poller EXCEPT !.pc = "ignores", !.put = {}] /\ UNCHANGED kernel
    <2>1. kernel.targets = want BY <1>2, <1>7
    <2>2. /\ poller' \in [pc : {"wait", "capture", "targets", "ignores", "filter"}, v : {0} \cup Versions, put : SUBSET Nat]
          /\ poller'.pc = "ignores" /\ poller'.v = poller.v /\ poller'.put = {}
      BY <1>7, PollerTypes DEF IInv
    <2>3. Applying' BY <1>1, <1>2, <1>7, <2>1, <2>2 DEF IInv, Applying, want
    <2> QED BY <1>1, <2>3, FlowFrame
  <1> QED BY <1>4, <1>5, <1>6, <1>7

LEMMA ReplaceIgnoredIInv ==
  ASSUME IInv, ReplaceIgnored
  PROVE  IInv'
  <1> DEFINE want == Configs[poller.v].ignores
  <1>1. /\ poller.pc = "ignores" /\ UNCHANGED <<filter, current, backend, failed>>
        /\ UNCHANGED <<live, ring, sh, flowVars, tuples, filter, history>>
    BY DEF ReplaceIgnored, ReplacePorts, At
  <1>2. /\ poller.v \in Versions /\ poller.put \subseteq want \cap kernel.ignores
        /\ kernel.on = (Configs[poller.v].targets # {}) /\ kernel.targets = Configs[poller.v].targets
        /\ current # 0 => filter = current
    BY <1>1 DEF IInv, Applying
  <1>3. want \subseteq Nat BY <1>2, VersionConfig DEF Config
  <1>4. \/ \E p \in kernel.ignores \ poller.put : kernel' = [kernel EXCEPT !.ignores = @ \ {p}] /\ UNCHANGED poller
        \/ \E p \in want \ poller.put : /\ kernel' = [kernel EXCEPT !.ignores = @ \cup {p}]
                                        /\ poller' = [poller EXCEPT !.put = @ \cup {p}]
        \/ /\ kernel.ignores \ poller.put = {} /\ want \ poller.put = {}
           /\ poller' = [poller EXCEPT !.pc = "filter", !.put = {}] /\ UNCHANGED kernel
    BY DEF ReplaceIgnored, ReplacePorts
  <1> HIDE DEF want
  <1>5. CASE \E p \in kernel.ignores \ poller.put : kernel' = [kernel EXCEPT !.ignores = @ \ {p}] /\ UNCHANGED poller
    <2>1. PICK p \in kernel.ignores \ poller.put : kernel' = [kernel EXCEPT !.ignores = @ \ {p}] /\ poller' = poller
      BY <1>5
    <2>2. /\ kernel' \in [on : BOOLEAN, targets : SUBSET Nat, ignores : SUBSET Nat]
          /\ kernel'.on = kernel.on /\ kernel'.targets = kernel.targets /\ kernel'.ignores = kernel.ignores \ {p}
      BY <2>1, PollerTypes DEF IInv
    <2>3. Applying' BY <1>1, <1>2, <2>1, <2>2 DEF IInv, Applying, want
    <2> QED BY <1>1, <2>3, FlowFrame
  <1>6. CASE \E p \in want \ poller.put : /\ kernel' = [kernel EXCEPT !.ignores = @ \cup {p}]
                                          /\ poller' = [poller EXCEPT !.put = @ \cup {p}]
    <2>1. PICK p \in want \ poller.put : /\ kernel' = [kernel EXCEPT !.ignores = @ \cup {p}]
                                         /\ poller' = [poller EXCEPT !.put = @ \cup {p}]
      BY <1>6
    <2>2. /\ kernel' \in [on : BOOLEAN, targets : SUBSET Nat, ignores : SUBSET Nat]
          /\ kernel'.on = kernel.on /\ kernel'.targets = kernel.targets /\ kernel'.ignores = kernel.ignores \cup {p}
      BY <1>3, <2>1, PollerTypes DEF IInv
    <2>3. /\ poller' \in [pc : {"wait", "capture", "targets", "ignores", "filter"}, v : {0} \cup Versions, put : SUBSET Nat]
          /\ poller'.pc = "ignores" /\ poller'.v = poller.v /\ poller'.put = poller.put \cup {p}
      BY <1>1, <1>3, <2>1, PollerTypes DEF IInv
    <2>4. Applying' BY <1>1, <1>2, <2>1, <2>2, <2>3 DEF IInv, Applying, want
    <2> QED BY <1>1, <2>4, FlowFrame
  <1>7. CASE /\ kernel.ignores \ poller.put = {} /\ want \ poller.put = {}
             /\ poller' = [poller EXCEPT !.pc = "filter", !.put = {}] /\ UNCHANGED kernel
    <2>1. kernel.ignores = want BY <1>2, <1>7
    <2>2. /\ poller' \in [pc : {"wait", "capture", "targets", "ignores", "filter"}, v : {0} \cup Versions, put : SUBSET Nat]
          /\ poller'.pc = "filter" /\ poller'.v = poller.v /\ poller'.put = {}
      BY <1>7, PollerTypes DEF IInv
    <2>3. kernel = KernelConfig(poller.v)
      BY <1>2, <2>1, PollerTypes DEF IInv, KernelConfig, want
    <2>4. Applying'
      <3>1. kernel' = KernelConfig(poller'.v) BY <1>7, <2>2, <2>3
      <3> QED BY <1>1, <1>2, <1>7, <2>2, <3>1, PollerTypes DEF IInv, Applying, KernelConfig
    <2> QED BY <1>1, <2>4, FlowFrame
  <1> QED BY <1>4, <1>5, <1>6, <1>7

LEMMA ApplyFailsIInv ==
  ASSUME IInv, ApplyFails
  PROVE  IInv'
  <1>1. /\ poller' = [poller EXCEPT !.pc = "wait", !.put = {}] /\ failed' = TRUE
        /\ UNCHANGED <<filter, kernel, current, backend>>
    BY DEF ApplyFails
  <1>2. /\ poller' \in [pc : {"wait", "capture", "targets", "ignores", "filter"}, v : {0} \cup Versions, put : SUBSET Nat]
        /\ poller'.pc = "wait"
    BY <1>1, PollerTypes DEF IInv
  <1>3. Applying' BY <1>1, <1>2 DEF IInv, Applying
  <1> QED BY <1>3, FlowFrame DEF ApplyFails

(* Nothing is decided any more, and the shards that had an answer in hand   *)
(* under the old configuration race with the change.                        *)
LEMMA UpdateFilterIInv ==
  ASSUME IInv, UpdateFilter
  PROVE  IInv'
  <1>1. /\ poller.pc = "filter" /\ poller' = [poller EXCEPT !.pc = "wait"]
        /\ filter' = poller.v /\ current' = poller.v /\ failed' = FALSE
        /\ flows' = [g \in Gens |-> NoFlow] /\ disturbed' = Gens
        /\ racing' = racing \cup {sh[s].ev.gen : s \in {t \in Shards : sh[t].pc = "remember"}}
        /\ UNCHANGED <<live, ring, sh, cache, synced, tuples, kernel, backend, published, broken, late>>
    BY DEF UpdateFilter, At
  <1>2. poller.v \in Versions /\ kernel = KernelConfig(poller.v) BY <1>1 DEF IInv, Applying
  <1>3. NoFlow \in [decision : {"none", "allow", "deny"}, by : {0} \cup Versions] /\ NoFlow.decision = "none"
    BY DEF NoFlow
  <1>4. FlowTypes' BY <1>1, <1>2, <1>3 DEF IInv, FlowTypes
  <1>5. Metadata'
    <2>1. Event' = Event BY <1>1, SameJudgement
    <2> QED BY <1>1, <2>1 DEF IInv, Metadata, OfGen
  <1>6. Whole' BY <1>1 DEF IInv, Whole
  <1>7. Current' BY <1>1, <1>3 DEF Current, DecisionsAreCurrent
  <1>8. Applying'
    <2>1. /\ poller' \in [pc : {"wait", "capture", "targets", "ignores", "filter"}, v : {0} \cup Versions, put : SUBSET Nat]
          /\ poller'.pc = "wait"
      BY <1>1, PollerTypes DEF IInv
    <2>2. kernel' = KernelConfig(current') BY <1>1, <1>2
    <2> QED BY <1>1, <1>2, <2>1, <2>2, PollerTypes DEF IInv, Applying, KernelConfig
  <1> QED BY <1>4, <1>5, <1>6, <1>7, <1>8 DEF IInv

-----------------------------------------------------------------------------
(* The invariant and what follows from it *)

LEMMA InitIInv == Init => IInv
  <1> SUFFICES ASSUME Init PROVE IInv OBVIOUS
  <1>0. Len(Conns) \in Nat BY ConnsAssumption
  <1>1. FlowTypes
    <2>1. live \in [gen : 0 .. Len(Conns), open : BOOLEAN] /\ ~live.open BY <1>0 DEF Init
    <2>2. sh = [s \in Shards |-> Idle] BY DEF Init
    <2>3. NoFlow \in [decision : {"none", "allow", "deny"}, by : {0} \cup Versions] BY DEF NoFlow
    <2> QED BY <2>1, <2>2, <2>3, IdleType, FirstVersion DEF Init, FlowTypes, MaybeConn
  <1>2. Metadata
    <2>1. sh = [s \in Shards |-> Idle] BY DEF Init
    <2>2. \A s \in Shards : sh[s].pc = "read" /\ sh[s].ev.gen = 0 BY <2>1, IdleType
    <2>3. ring \in [Shards -> Seq(Event)] BY DEF Init
    <2> QED BY <2>2, <2>3 DEF Init, Metadata
  <1>3. Whole /\ Current
    <2>1. sh = [s \in Shards |-> Idle] BY DEF Init
    <2>2. \A s \in Shards : sh[s].pc = "read" BY <2>1, IdleType
    <2>3. \A g \in Gens : flows[g].decision = "none" BY DEF Init, NoFlow
    <2> QED BY <2>2, <2>3 DEF Init, Whole, Current, DecisionsAreCurrent, Deciding, Admitted
  <1>4. Applying
    <2>1. kernel \in [on : BOOLEAN, targets : SUBSET Nat, ignores : SUBSET Nat] BY FirstVersion, VersionConfig DEF Init
    <2>2. poller = [pc |-> "wait", v |-> 0, put |-> {}] /\ current = 0 /\ backend = Len(Configs) BY DEF Init
    <2> QED BY <2>1, <2>2, FirstVersion DEF Applying
  <1> QED BY <1>1, <1>2, <1>3, <1>4 DEF IInv

LEMMA NextIInv == IInv /\ [Next]_vars => IInv'
  <1> SUFFICES ASSUME IInv, [Next]_vars PROVE IInv' OBVIOUS
  <1>1. ASSUME NEW s \in Shards, AppStep(s) PROVE IInv'
    BY <1>1, OpenIInv, CloseIInv, TransferIInv DEF AppStep
  <1>2. ASSUME NEW s \in Shards, ShardStep(s) PROVE IInv'
    BY <1>2, ReadRecordIInv, ReadProcIInv, CacheStoreIInv, SyncTupleIInv, ForgetIInv,
       FilterLookupIInv, DecideIInv, RememberIInv DEF ShardStep
  <1>3. ASSUME NEW g \in Gens, ExpireFlow(g) \/ ExpireMetadata(g) PROVE IInv'
    BY <1>3, ExpireFlowIInv, ExpireMetadataIInv
  <1>4. ASSUME NEW v \in Versions, BackendChanges(v) PROVE IInv'
    BY <1>4, BackendChangesIInv
  <1>5. CASE PollerStep
    BY <1>5, PollIInv, SetCaptureIInv, ReplaceTargetsIInv, ReplaceIgnoredIInv, ApplyFailsIInv,
       UpdateFilterIInv DEF PollerStep
  <1>6. CASE UNCHANGED vars
    <2>1. UNCHANGED <<pollVars, failed>> BY <1>6 DEF vars, pollVars
    <2>2. UNCHANGED <<live, ring, sh, flowVars, tuples, filter, history>> BY <1>6 DEF vars, flowVars, history
    <2> QED BY <2>1, <2>2, ApplyingFrame, FlowFrame DEF IInv
  <1> QED BY <1>1, <1>2, <1>3, <1>4, <1>5, <1>6 DEF Next

(* The inductive invariant holds in every state the shards, the probes, the *)
(* configuration poller and expiry can reach together.                      *)
THEOREM Invariance == Spec => []IInv
  BY InitIInv, NextIInv, PTL DEF Spec

(* What a shard calls its metadata is a connection exactly when metadataOK  *)
(* says so, and the cache, the synced tuples and socket_tuples hold nothing *)
(* else, whatever the shards, the probes and the poller interleave.         *)
THEOREM TypesAreKept == Spec => []TypeOK
  <1>1. IInv => TypeOK
    BY ConnsAssumption DEF IInv, FlowTypes, Locals, Applying, TypeOK, MaybeConn, Gens
  <1> QED BY <1>1, Invariance, PTL

(* resolveWithSource asks /proc for a descriptor, not for a generation;     *)
(* still no event of runAgentShardCapture is submitted with the ports of    *)
(* another connection, but for the late ones.                               *)
THEOREM NoForeignMetadata == Spec => []MetadataIsOwn
  <1>1. IInv => MetadataIsOwn BY DEF IInv, Metadata, OfGen, MetadataIsOwn
  <1> QED BY <1>1, Invariance, PTL

(* kernelTupleSyncer.remember never gives an open connection the tuple of   *)
(* another one: with the metadata of a late event it writes the entry of    *)
(* the old generation.                                                      *)
THEOREM NoForeignTuple == Spec => []KernelTupleIsOwn
  <1>1. ASSUME IInv PROVE KernelTupleIsOwn
    <2>1. SUFFICES ASSUME live.open, tuples[live.gen] # NoConn
                   PROVE  tuples[live.gen].port = Conns[live.gen].port
      BY DEF KernelTupleIsOwn
    <2>2. live.gen \in Gens /\ live.gen \in Nat BY <1>1, <2>1, LiveType DEF IInv
    <2>3. OfGen(live.gen, tuples[live.gen]) BY <1>1, <2>1, <2>2, SharedMaps
    <2>4. ~(live.gen < live.gen) BY <2>2
    <2> QED BY <2>1, <2>3, <2>4 DEF OfGen
  <1> QED BY <1>1, Invariance, PTL

(* flowFilter.allow cuts no flow short that it admitted, unless a decision  *)
(* was made twice: it expired, the filter was updated, or two goroutines    *)
(* missed it together.                                                      *)
THEOREM AdmittedFlowIsWhole == Spec => []FlowIsWhole
  <1>1. IInv => FlowIsWhole BY DEF IInv, Whole, FlowIsWhole
  <1> QED BY <1>1, Invariance, PTL

(* flowFilter.update leaves no decision of an older configuration behind,   *)
(* except the ones that goroutines were about to remember.                  *)
THEOREM NoStaleDecision == Spec => []DecisionsAreCurrent
  <1>1. IInv => DecisionsAreCurrent BY DEF IInv, Current
  <1> QED BY <1>1, Invariance, PTL

(* applyRemoteAgentConfig is all or nothing between polls: the kernel's     *)
(* port sets, its capture switch and the flow filter are of the version     *)
(* that runAgentRemoteConfig remembers, unless the last attempt failed.     *)
THEOREM ConfigurationIsWhole == Spec => []ConfigIsWhole
  <1>1. IInv => ConfigIsWhole BY DEF IInv, Applying, ConfigIsWhole, At
  <1> QED BY <1>1, Invariance, PTL
=============================================================================
