---------------------------- MODULE FlowControl ----------------------------
(***************************************************************************)
(* What the agent does with an event between the ring buffer and the       *)
(* producer's queue (runAgentShardCapture in cmd/agent/main.go, with the   *)
(* metadata resolver and the flow filter of metadata.go), while remote     *)
(* configurations are applied (control.go).  The shard goroutines and the  *)
(* configuration poller share the metadata cache, the synced tuples, the   *)
(* flow decisions and the kernel's maps; the lock sections, /proc reads    *)
(* and map calls that another can come between are steps of their own.     *)
(*                                                                         *)
(* One descriptor of one process is followed; its connections follow each  *)
(* other, so a flow key is a generation.  A connection is known by one     *)
(* port and its role.  The filter is on (-fd-filter), and the backend      *)
(* gives every configuration a version.                                    *)
(***************************************************************************)
EXTENDS Naturals, Sequences, FiniteSets

CONSTANTS
  Shards,       \* ring-buffer shards, each with its goroutine
  NoConn,       \* "no metadata"
  Conns,        \* the connections of the descriptor, one after the other
  Configs,      \* the agent's own configuration, then the backend's; the last
                \* is the one served when the agent starts
  MaxEvents,    \* bound: reads, writes and openings captured
  MaxFaults     \* bound: failures of /proc or of a map update, entries that
                \* expire and changes of the backend's configuration, together

(* both: the ports of both ends are known, as from /proc; the probes see    *)
(* only what a system call tells them                                       *)
Conn == [port : Nat, role : {"inbound", "outbound"}, both : BOOLEAN]

(* the ports and roles of a configuration *)
Config == [targets : SUBSET Nat, ignores : SUBSET Nat, inbound : BOOLEAN, outbound : BOOLEAN]

ASSUME ConnsAssumption == Conns \in Seq(Conn) /\ NoConn \notin Conn
ASSUME ConfigsAssumption == Configs \in Seq(Config) /\ Configs # <<>>
ASSUME BoundsAssumption == MaxEvents \in Nat /\ MaxFaults \in Nat

Gens == 1 .. Len(Conns)
Versions == 1 .. Len(Configs)

VARIABLES
  live,       \* external: generation of the descriptor, and whether it is open
  ring,       \* events each shard has yet to read
  sh,         \* where each shard goroutine is, and its locals
  cache,      \* metadataResolver.cache: the connections resolved
  synced,     \* kernelTupleSyncer.synced
  tuples,     \* socket_tuples
  flows,      \* flowFilter.flows: decision and what it was made from
  filter,     \* version of the ports and roles in the flow filter
  kernel,     \* capture_config, target_ports and ignored_ports
  poller,     \* where runAgentRemoteConfig is, the version it applies, ports put
  current,    \* currentVersion, 0 is ""
  backend,    \* external: the version the backend serves
  budget,     \* events and faults still to come
  published,  \* history: generation and metadata of submitted events
  broken,     \* history: flows refused after they had been admitted
  late,       \* history: flows whose events outlived the connection
  disturbed,  \* history: flows decided again
  racing,     \* history: flows being decided when the filter changed
  failed      \* history: the last attempt to apply a configuration failed

flowVars == <<cache, synced, flows>>
pollVars == <<filter, kernel, poller, current, backend>>
history  == <<published, broken, late, disturbed, racing>>
vars == <<live, ring, sh, cache, synced, tuples, flows, filter, kernel, poller, current,
          backend, budget, published, broken, late, disturbed, racing, failed>>

NoFlow == [decision |-> "none", by |-> 0]
NoEvent == [gen |-> 0, kind |-> "none", tuple |-> NoConn]

(* conn, ok: the metadata; via: the version a decision is made from, 0 for  *)
(* the payload                                                              *)
Idle == [pc |-> "read", ev |-> NoEvent, conn |-> NoConn, ok |-> FALSE, allow |-> FALSE, via |-> 0]

KernelConfig(v) ==
  [on |-> Configs[v].targets # {}, targets |-> Configs[v].targets, ignores |-> Configs[v].ignores]

Init ==
  /\ live = [gen |-> 0, open |-> FALSE]
  /\ ring = [s \in Shards |-> <<>>]
  /\ sh = [s \in Shards |-> Idle]
  /\ cache = [g \in Gens |-> NoConn]
  /\ synced = [g \in Gens |-> NoConn]
  /\ tuples = [g \in Gens |-> NoConn]
  /\ flows = [g \in Gens |-> NoFlow]
  /\ filter = 1 /\ kernel = KernelConfig(1)
  /\ poller = [pc |-> "wait", v |-> 0, put |-> {}] /\ current = 0 /\ backend = Len(Configs)
  /\ budget = [events |-> MaxEvents, faults |-> MaxFaults]
  /\ published = {} /\ broken = {} /\ late = {} /\ disturbed = {} /\ racing = {}
  /\ failed = FALSE

Spend(what) == budget[what] > 0 /\ budget' = [budget EXCEPT ![what] = @ - 1]

-----------------------------------------------------------------------------
(* The application and the probes: external here, see KernelCapture *)

(* socket_tuple_allowed *)
KernelAllows(g) ==
  tuples[g] # NoConn => /\ tuples[g].port \notin kernel.ignores
                        /\ kernel.on /\ tuples[g].both => tuples[g].port \in kernel.targets

Capture(s, g, kind, tuple) == ring' = [ring EXCEPT ![s] = Append(@, [gen |-> g, kind |-> kind, tuple |-> tuple])]

Outstanding ==
  {sh[s].ev.gen : s \in Shards} \cup UNION {{ring[s][i].gen : i \in DOMAIN ring[s]} : s \in Shards}

(* a new connection; the probes may have seen how it was opened *)
Open(s) ==
  LET g == live.gen + 1 IN
  /\ ~live.open /\ g \in Gens
  /\ live' = [gen |-> g, open |-> TRUE]
  /\ late' = late \cup (Outstanding \ {0})
  /\ \/ UNCHANGED <<tuples, ring, budget>>
     \/ /\ Spend("events")
        /\ tuples' = [tuples EXCEPT ![g] = Conns[g]]
        /\ Capture(s, g, "socket", Conns[g])
  /\ UNCHANGED <<sh, flowVars, pollVars, published, broken, disturbed, racing, failed>>

Transfer(s, kind) ==
  /\ live.open /\ Spend("events") /\ KernelAllows(live.gen)
  /\ Capture(s, live.gen, kind, tuples[live.gen])
  /\ UNCHANGED <<live, sh, tuples, flowVars, pollVars, history, failed>>

Close(s) ==
  /\ live.open
  /\ live' = [live EXCEPT !.open = FALSE]
  /\ \/ /\ KernelAllows(live.gen)
        /\ Capture(s, live.gen, "close", tuples[live.gen])
     \/ ~KernelAllows(live.gen) /\ UNCHANGED ring
  /\ tuples' = [tuples EXCEPT ![live.gen] = NoConn]
  /\ UNCHANGED <<sh, flowVars, pollVars, budget, history, failed>>

-----------------------------------------------------------------------------
(* runAgentShardCapture *)

Goto(s, pc) == sh' = [sh EXCEPT ![s].pc = pc]

(* the shard's locals with the metadata it has, if any *)
Hold(s, pc, ev, conn) ==
  sh' = [sh EXCEPT ![s] = [pc |-> pc, ev |-> ev, conn |-> conn, ok |-> conn # NoConn, allow |-> FALSE, via |-> 0]]

(* the shard takes the next event; what it does before its first shared     *)
(* access is its own                                                        *)
Take(s, pc, conn) ==
  /\ ring' = [ring EXCEPT ![s] = Tail(@)]
  /\ Hold(s, pc, Head(ring[s]), conn)
  /\ UNCHANGED <<live, tuples, flowVars, pollVars, budget, history, failed>>

(* mutant: the cache does not tell generations apart *)
ReadRecord_AnyGeneration(s) ==
  LET hits == {cache[g] : g \in Gens} \ {NoConn} IN
  /\ sh[s].pc = "read" /\ ring[s] # <<>>
  /\ \/ \E c \in hits : Take(s, "sync", c)
     \/ hits = {} /\ Take(s, "proc", NoConn)

(* rd.Read, then the cache in resolveWithSource.  A negative entry saves    *)
(* only the look at the process and its container.                          *)
ReadRecord(s) ==
  /\ sh[s].pc = "read" /\ ring[s] # <<>>
  /\ LET c == cache[Head(ring[s]).gen] IN
     Take(s, IF c # NoConn THEN "sync" ELSE "proc", c)

(* isLikelyListenOrServer: whatever has a remote end is "outbound" *)
ProcConn(g) == [port |-> Conns[g].port, role |-> "outbound", both |-> TRUE]

(* resolveConnection: the descriptor as it is now; the read may fail *)
ReadProc(s) ==
  /\ sh[s].pc = "proc"
  /\ \/ /\ live.open
        /\ Hold(s, "store", sh[s].ev, ProcConn(live.gen))
        /\ UNCHANGED budget
     \/ ~live.open /\ Goto(s, "store") /\ UNCHANGED budget
     \/ live.open /\ Spend("faults") /\ Goto(s, "store")
  /\ UNCHANGED <<live, ring, tuples, flowVars, pollVars, history, failed>>

CacheStore(s) ==
  /\ sh[s].pc = "store"
  /\ cache' = [cache EXCEPT ![sh[s].ev.gen] = sh[s].conn]
  /\ Goto(s, "sync")
  /\ UNCHANGED <<live, ring, synced, tuples, flows, pollVars, budget, history, failed>>

AfterMetadata(s) == IF sh[s].ev.kind = "close" THEN "forget" ELSE "filter"

(* mutant: the tuple of the event counts as metadata even if it is empty *)
FromTuple_Empty(s) ==
  sh' = [sh EXCEPT ![s].conn = sh[s].ev.tuple, ![s].ok = TRUE, ![s].pc = AfterMetadata(s)]

(* without metadata the tuple that the event carries is taken *)
FromTuple(s) == Hold(s, AfterMetadata(s), sh[s].ev, sh[s].ev.tuple)

(* mutant: the tuple is written for the descriptor's present generation *)
WriteTuple_Present(s, g) ==
  /\ tuples' = [tuples EXCEPT ![live.gen] = sh[s].conn]
  /\ synced' = [synced EXCEPT ![g] = sh[s].conn]

(* kernelTupleSyncer.remember writes a tuple it has not synced yet; the     *)
(* others can only see the write                                            *)
WriteTuple(s, g) ==
  /\ tuples' = [tuples EXCEPT ![g] = sh[s].conn]
  /\ synced' = [synced EXCEPT ![g] = sh[s].conn]

SyncTuple(s) ==
  LET me == sh[s]
      fresh == me.ok /\ synced[me.ev.gen] # me.conn IN
  /\ me.pc = "sync"
  /\ \/ ~me.ok /\ FromTuple(s) /\ UNCHANGED <<tuples, synced, budget>>
     \/ me.ok /\ ~fresh /\ Goto(s, AfterMetadata(s)) /\ UNCHANGED <<tuples, synced, budget>>
     \/ fresh /\ WriteTuple(s, me.ev.gen) /\ Goto(s, AfterMetadata(s)) /\ UNCHANGED budget
     \/ fresh /\ Spend("faults") /\ Goto(s, AfterMetadata(s)) /\ UNCHANGED <<tuples, synced>>
  /\ UNCHANGED <<live, ring, cache, flows, pollVars, history, failed>>

(* a close event: kernelTuples.forget, metadata.forget; nothing looks at    *)
(* both maps in between                                                     *)
Forget(s) ==
  LET g == sh[s].ev.gen IN
  /\ sh[s].pc = "forget"
  /\ synced' = [synced EXCEPT ![g] = NoConn]
  /\ cache' = [cache EXCEPT ![g] = NoConn]
  /\ Goto(s, "filter")
  /\ UNCHANGED <<live, ring, tuples, flows, pollVars, budget, history, failed>>

-----------------------------------------------------------------------------
(* flowFilter.allow, and what follows it *)

Admitted(g) == g \in {p.gen : p \in published}

(* the rest of the loop: socket events are never submitted *)
Finish(s, allowed) ==
  LET me == sh[s] IN
  /\ sh' = [sh EXCEPT ![s] = Idle]
  /\ published' = IF allowed /\ me.ev.kind # "socket"
                  THEN published \cup {[gen |-> me.ev.gen, conn |-> me.conn]} ELSE published
  /\ broken' = IF ~allowed /\ Admitted(me.ev.gen) THEN broken \cup {me.ev.gen} ELSE broken

Deciding(g) == {s \in Shards : sh[s].ev.gen = g /\ sh[s].pc \in {"decide", "remember"}}

(* lookup; two goroutines that miss decide independently *)
FilterLookup(s) ==
  LET f == flows[sh[s].ev.gen] IN
  /\ sh[s].pc = "filter"
  /\ \/ /\ f.decision # "none"
        /\ Finish(s, f.decision = "allow")
        /\ UNCHANGED disturbed
     \/ /\ f.decision = "none"
        /\ Goto(s, "decide")
        /\ disturbed' = disturbed \cup {g \in {sh[s].ev.gen} : Deciding(g) # {}}
        /\ UNCHANGED <<published, broken>>
  /\ UNCHANGED <<live, ring, tuples, flowVars, pollVars, budget, late, racing, failed>>

connectionAllowed(c, conn) ==
  /\ conn.port \notin c.ignores
  /\ conn.role = "inbound" => c.inbound
  /\ conn.role = "outbound" => c.outbound
  /\ c.targets # {} => conn.port \in c.targets

Decided(s, allow, via) ==
  sh' = [sh EXCEPT ![s] = [pc |-> "remember", ev |-> @.ev, conn |-> @.conn, ok |-> @.ok, allow |-> allow, via |-> via]]

(* mutant: an HTTP payload admits its own event only *)
Decide_PayloadOnce(s) ==
  LET me == sh[s] IN
  /\ me.pc = "decide"
  /\ \/ /\ me.ok
        /\ Decided(s, connectionAllowed(Configs[filter], me.conn), filter)
        /\ UNCHANGED <<published, broken>>
     \/ ~me.ok /\ Finish(s, me.ev.kind = "http")
  /\ UNCHANGED <<live, ring, tuples, flowVars, pollVars, budget, late, disturbed, racing, failed>>

(* with metadata the configuration decides, without it the payload; an      *)
(* event that looks like nothing is refused and nothing is remembered       *)
Decide(s) ==
  LET me == sh[s] IN
  /\ me.pc = "decide"
  /\ \/ /\ me.ok
        /\ Decided(s, connectionAllowed(Configs[filter], me.conn), filter)
        /\ UNCHANGED <<published, broken>>
     \/ /\ ~me.ok /\ me.ev.kind = "http"
        /\ Decided(s, TRUE, 0)
        /\ UNCHANGED <<published, broken>>
     \/ ~me.ok /\ me.ev.kind # "http" /\ Finish(s, FALSE)
  /\ UNCHANGED <<live, ring, tuples, flowVars, pollVars, budget, late, disturbed, racing, failed>>

Remember(s) ==
  LET me == sh[s] IN
  /\ me.pc = "remember"
  /\ flows' = [flows EXCEPT ![me.ev.gen] =
                 [decision |-> IF me.allow THEN "allow" ELSE "deny", by |-> me.via]]
  /\ Finish(s, me.allow)
  /\ UNCHANGED <<live, ring, cache, synced, tuples, pollVars, budget, late, disturbed, racing, failed>>

(* metadataTTL passes for a decision or for a cached connection *)
ExpireFlow(g) ==
  /\ flows[g] # NoFlow /\ Spend("faults")
  /\ flows' = [flows EXCEPT ![g] = NoFlow]
  /\ disturbed' = disturbed \cup {g}
  /\ UNCHANGED <<live, ring, sh, cache, synced, tuples, pollVars, published, broken, late, racing, failed>>

ExpireMetadata(g) ==
  /\ cache[g] # NoConn /\ Spend("faults")
  /\ cache' = [cache EXCEPT ![g] = NoConn]
  /\ UNCHANGED <<live, ring, sh, synced, tuples, flows, pollVars, history, failed>>

-----------------------------------------------------------------------------
(* runAgentRemoteConfig and applyRemoteAgentConfig *)

BackendChanges(v) ==
  /\ v # backend /\ Spend("faults")
  /\ backend' = v
  /\ UNCHANGED <<live, ring, sh, flowVars, tuples, filter, kernel, poller, current, history, failed>>

At(pc) == poller.pc = pc
PollerTo(pc) == poller' = [poller EXCEPT !.pc = pc]

(* a poll that fails or finds the version it knows changes nothing, nor     *)
(* does a configuration with a payload size that is not valid               *)
Poll ==
  /\ At("wait") /\ backend # current
  /\ poller' = [pc |-> "capture", v |-> backend, put |-> {}]
  /\ UNCHANGED <<live, ring, sh, flowVars, tuples, filter, kernel, current, backend, budget,
                 history, failed>>

(* one map call of the poller succeeds and leads to the next *)
PollerMoves(to, k) ==
  /\ PollerTo(to) /\ kernel' = k
  /\ UNCHANGED <<live, ring, sh, flowVars, tuples, filter, current, backend, budget, history, failed>>

(* configureKernelCapture: of its settings the one the port filter reads *)
SetCapture ==
  /\ At("capture")
  /\ PollerMoves("targets", [kernel EXCEPT !.on = Configs[poller.v].targets # {}])

(* replaceKernelPortSet: the old ports are deleted one by one, then the new *)
(* ones are put one by one; a port that stays is absent in between          *)
ReplacePorts(pc, map, next) ==
  LET old == kernel[map] \ poller.put
      missing == Configs[poller.v][map] \ poller.put IN
  /\ At(pc)
  /\ UNCHANGED <<live, ring, sh, flowVars, tuples, filter, current, backend, budget, history, failed>>
  /\ \/ \E p \in old : kernel' = [kernel EXCEPT ![map] = @ \ {p}] /\ UNCHANGED poller
     \/ /\ old = {}
        /\ \E p \in missing : /\ kernel' = [kernel EXCEPT ![map] = @ \cup {p}]
                              /\ poller' = [poller EXCEPT !.put = @ \cup {p}]
     \/ /\ old = {} /\ missing = {}
        /\ poller' = [poller EXCEPT !.pc = next, !.put = {}] /\ UNCHANGED kernel

ReplaceTargets == ReplacePorts("targets", "targets", "ignores")
ReplaceIgnored == ReplacePorts("ignores", "ignores", "filter")

(* mutant: a configuration that failed half way counts as applied *)
ApplyFails_KeepsVersion ==
  /\ poller.pc \in {"capture", "targets", "ignores"} /\ Spend("faults")
  /\ poller' = [poller EXCEPT !.pc = "wait", !.put = {}] /\ current' = poller.v
  /\ UNCHANGED <<live, ring, sh, flowVars, tuples, filter, kernel, backend, history, failed>>

(* one of them fails: the rest is left undone, currentVersion stays *)
ApplyFails ==
  /\ poller.pc \in {"capture", "targets", "ignores"} /\ Spend("faults")
  /\ poller' = [poller EXCEPT !.pc = "wait", !.put = {}]
  /\ failed' = TRUE
  /\ UNCHANGED <<live, ring, sh, flowVars, tuples, filter, kernel, current, backend, history>>

(* mutant: the decisions made before stay *)
UpdateFilter_KeepsFlows ==
  /\ At("filter") /\ poller' = [poller EXCEPT !.pc = "wait"]
  /\ filter' = poller.v /\ current' = poller.v
  /\ failed' = FALSE
  /\ disturbed' = Gens
  /\ UNCHANGED <<live, ring, sh, flowVars, tuples, kernel, backend, budget,
                 published, broken, late, racing>>

(* flowFilter.update; then the poller remembers the version *)
UpdateFilter ==
  /\ At("filter") /\ poller' = [poller EXCEPT !.pc = "wait"]
  /\ filter' = poller.v /\ current' = poller.v
  /\ flows' = [g \in Gens |-> NoFlow]
  /\ failed' = FALSE
  /\ disturbed' = Gens
  /\ racing' = racing \cup {sh[s].ev.gen : s \in {t \in Shards : sh[t].pc = "remember"}}
  /\ UNCHANGED <<live, ring, sh, cache, synced, tuples, kernel, backend, budget,
                 published, broken, late>>

-----------------------------------------------------------------------------
AppStep(s) == Open(s) \/ Close(s) \/ \E kind \in {"http", "body"} : Transfer(s, kind)

ShardStep(s) ==
  \/ ReadRecord(s) \/ ReadProc(s) \/ CacheStore(s)
  \/ SyncTuple(s) \/ Forget(s)
  \/ FilterLookup(s) \/ Decide(s) \/ Remember(s)

PollerStep ==
  \/ Poll \/ SetCapture \/ ReplaceTargets \/ ReplaceIgnored
  \/ ApplyFails \/ UpdateFilter

Next ==
  \/ \E s \in Shards : AppStep(s) \/ ShardStep(s)
  \/ \E g \in Gens : ExpireFlow(g) \/ ExpireMetadata(g)
  \/ \E v \in Versions : BackendChanges(v)
  \/ PollerStep

Spec == Init /\ [][Next]_vars

-----------------------------------------------------------------------------
(* Properties *)

(* A shard has metadata exactly when it says so (metadataOK), and the       *)
(* shared maps hold connections.                                            *)
TypeOK ==
  /\ live.gen \in 0 .. Len(Conns) /\ live.open \in BOOLEAN
  /\ \A s \in Shards : /\ sh[s].conn \in Conn \cup {NoConn} /\ sh[s].ev.gen \in {0} \cup Gens
                       /\ sh[s].ok = (sh[s].conn # NoConn)
  /\ {cache, synced, tuples} \subseteq [Gens -> Conn \cup {NoConn}]
  /\ filter \in Versions /\ current \in {0} \cup Versions

(* An event is published with the metadata of its own connection or with    *)
(* none, although /proc is asked for the descriptor and not for the         *)
(* generation.  The exception: the descriptor was opened again while events *)
(* of the old connection were still on their way.                           *)
MetadataIsOwn ==
  \A p \in published : p.conn # NoConn => p.conn.port = Conns[p.gen].port \/ p.gen \in late

(* The tuple the agent writes back into the kernel's map is never that of   *)
(* another connection for a connection that is open: the probes would       *)
(* filter it by foreign ports.                                              *)
KernelTupleIsOwn ==
  live.open /\ tuples[live.gen] # NoConn => tuples[live.gen].port = Conns[live.gen].port

(* Once events of a flow were admitted, the rest of the flow is: bodies and *)
(* the close event follow the headers.  The exceptions: the decision was    *)
(* made again because it expired, the configuration changed, or two         *)
(* goroutines met the flow at the same time.                                *)
FlowIsWhole == broken \subseteq disturbed

(* A cached decision was made under the configuration in force, or by an    *)
(* HTTP payload.  The exception: a goroutine that was deciding the flow     *)
(* when flowFilter.update cleared the cache remembers its answer after it.  *)
DecisionsAreCurrent ==
  \A g \in Gens : flows[g].decision # "none" => flows[g].by \in {0, filter} \/ g \in racing

(* Between polls the kernel's maps and the flow filter both hold the        *)
(* configuration whose version the agent remembers, unless the last attempt *)
(* to apply one failed half way.                                            *)
ConfigIsWhole ==
  At("wait") /\ current # 0 /\ ~failed => kernel = KernelConfig(current) /\ filter = current

=============================================================================
