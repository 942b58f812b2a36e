# Verification of ebpf_tracer

TLA+ models of the capture pipeline, the TLC runs that check them and the TLAPS
proofs about them. Line numbers refer to the source the modules were written from.

    bpf/tracer.bpf.c          probes: syscalls, OpenSSL        KernelCapture
          | 8 ring buffers, chosen by CPU
    cmd/agent                 target processes                 TargetManager
                              metadata, flow filter, config    FlowControl
                              queue, spool, Kafka client       QueuedProducer
          | Kafka, topic of raw events
    cmd/worker                sessions, HTTP parsing           StreamSessions
                              configuration, sink              ConversationSink
    cmd/karaxys-capture       both in one process              CaptureStream
                              its targets                      TargetManager
                              its sink                         ConversationSink

`Delivery` is the abstract specification of a delivery path; QueuedProducer and
ConversationSink are shown to implement it.

Run a model with `tlc -config <X>.cfg <MC module>` and check the proofs with
`tlapm <M>.tla` for each module `<M>Proofs` and for LoopTheorems.
`PROJECT.json` lists components, runs, hazards, mutants and, definition by definition, the source lines each stands for.

## Inventory

### Kernel probes (`bpf/tracer.bpf.c`)

State: `fd_generations`, `event_seqnos`, `socket_tuples`, `thread_last_fd`, the saved
contexts of system calls in progress (`active_reads` and others), `capture_config`,
port filters, `target_pids`, `allowed_cgroups`, eight ring buffers, drop counters.
Operations: the entry and exit probes of `bind`, `connect`, `accept`, `read`, `readv`,
`recvfrom`, `write`, `writev`, `sendto`, `close`, and of `SSL_read`, `SSL_write`.
Hard: probes of several threads run at the same time on shared maps without locks; a
descriptor is closed and reused while a call on it is still blocked; a thread changes
its CPU, hence its ring buffer; buffers meet the chunk, payload and segment limits.
Correct means: a generation stands for one connection, its events are numbered
without repetition, gaps are drops, and missing bytes are visible as missing.

### Target management (`cmd/agent/target.go`, `cmd/karaxys-capture/target.go`)

State: the processes and cgroups the agent believes it traces (`active`,
`activeGroups`) and the kernel maps `target_pids`, `allowed_cgroups`. Operations: a
refresh every few seconds: scan `/proc`, put, delete, remember. Hard: the scan is not
atomic, process numbers are reused, each map operation may fail, the map has 1024
entries. Correct means: list and map agree, and both follow the processes.

### Metadata, flow filter and remote configuration (`metadata.go`, `control.go`, `main.go`)

State: the metadata cache, the synced tuples, the flow decisions, the ports and roles
of the filter, the version last applied. Operations: one loop per ring buffer that
resolves, syncs, filters and submits an event; a poller that applies a configuration.
Hard: the loops and the poller share everything; `/proc` shows the descriptor as it is
now, the event may be older; a configuration is applied in many steps. Correct means:
metadata belongs to the event's connection, a flow is admitted as a whole, decisions
and maps reflect one configuration.

### Delivery (`producer.go`, `main.go`, `health.go`)

State: the queue (`-queue-size`), the spool file, the circuit breaker, what the Kafka
client holds, delivery reports. Operations: `submit` with its backpressure modes,
`run`, `produce`, `replaySpool`, `drain`, `close`, the report goroutine, the metrics
record, shutdown, restart. Hard: eviction, replay and the shards compete for the
queue; failures arrive late; a crash hits a spool write; main stops the parts in
order. Correct means: nothing is lost without a trace or duplicated by the spool, and
after an outage everything drains.

### Worker (`cmd/worker`)

State: the session store, per session two byte buffers, pending requests, expected
sequence number, loss flags. Operations: handle a data event, handle a close event,
expire sessions. Hard: streams cut anywhere, within a request line too, pipelining, lost, late or
repeated events, expiry racing the consumer on an object that has left the store. Correct means: each
response goes with its request, each conversation is emitted once, damage is flagged,
sessions are reclaimed.

### Conversation sink and its configuration (`cmd/worker/sink.go`, `config.go`)

State: the endpoint and token chosen from the options, the attempt each emitting
goroutine is at, what the Kafka client holds, the dead-letter file. Operations: parse
and validate, `Emit` of the stdout, HTTP and Kafka sinks, a delivery report or its
timeout, `writeDeadLetter`, `Close`, exit. Hard: the destination stores a conversation
and its answer is lost; a report comes after the timeout; a dead-letter write is cut
short; two goroutines emit; main does not wait for the cleanup goroutine. Correct means:
a conversation is stored, a readable dead letter, or lost for a reason one can name.

### Combined binary (`cmd/karaxys-capture`)

Agent and worker around a channel of 50000 events, with its own copies of the session
and target code. State: kernel tuples, flow decisions, the channel, the session store,
per session the buffers, pending requests, the streams of HTTP/2 that were emitted,
whether plaintext was seen, and the TLS libraries that were tried. Operations: one loop
per ring buffer, the processing goroutine, the cleanup goroutine, the library scan, the
target refresh, shutdown. Hard: an event that finds the channel full is dropped;
ciphertext and plaintext of the same bytes share a stream; a body may look like a
message; a full ring buffer leaves no gap; the filter decides with or
without metadata; emission, a slow post, happens under the session lock; shutdown closes
a channel others send on. Correct means what it means for the worker, and that
unwanted connections stay out and no goroutine blocks or panics another.

## Plan

1. QueuedProducer with its proofs, StreamSessions, KernelCapture: done.
2. FlowControl, TargetManager: done, their safety invariants proved.
3. ConversationSink, and Delivery with both refinements: done, checked and proved.
4. CaptureStream, and the combined binary's modes of TargetManager: done.
5. Informational responses in StreamSessions, disk faults in the liveness run: done.
6. Proofs of KernelCapture: done, for each invariant the runs check. Proofs of the
   reassembly: done are TypeOK, EmittedOnce, PairingExact, AllEmitted and DamageIsFlagged of
   StreamSessions and CaptureInv, EmittedOnce and UnwantedStaysOut of CaptureStream; left are those under
   "What is only model-checked".
7. Container metadata (`metadata.go` of both programs: the Docker cache, whose failed
   lookups are remembered as long as successful ones), the limit on one body
   (`readBodyStringComplete`), and a composition of KernelCapture's event order with
   the worker's assumption on it.

## The modules

**QueuedProducer.** One step per channel operation, spool-lock section and client call.
`shard`, `run`, `back`, `runMsg`, `batch`, `retained`, `delivMsg` are the locals of the
goroutines, `queue` is `q.queue`, `spool`, `junk`, `torn` are the readable lines, the
unreadable lines and an unfinished last line of the file, `inflight` and `reports` are
inside the Kafka client, `log` is what the brokers hold. `phase` is where `main` is.
`counted`, `wiped`, `merged`, `stranded`, `ackLost` and `detoured` are history: why an event
is gone, whether a broker stored it unnoticed, whether it went through the spool. The
client and the brokers are external; one partition stands for the messages of one key.
Spool bytes are counted in records. `fate` maps this state to Delivery.

**Delivery.** What a delivery path promises: an item is new, held in memory, kept in a
file, stored or lost; stored and lost are final, and a loss is declared. Each
implementation says which of its histories declare a loss.

**StreamSessions.** One session key. `wire` is what Kafka has yet to deliver; faults
lose, repeat, swap or cut events there. `heap` holds `StreamState` objects, because a session that
left the store may still be used; `current` is the store's entry, `expired` what
`removeExpired` handed to the cleanup goroutine. `Process` is the whole of
`processEvent` under the session's lock. Bytes are tokens: a head announces the number
of tokens that follow; `classifyPayload` and the resynchronisation look at what a token looks
like, the parser takes what the head announces. A request's head is two tokens, the method
and the line from its "HTTP/1." on, because an event may end between them: the second alone
looks like a response (`SplitHead` records it). A cut inside a response's head, or later
in a request's, leaves a rest that looks like nothing, as a body does. An exchange may begin with an
informational response, which the parser takes for a response.

**KernelCapture.** One traced process. A workload is what its application does: threads,
descriptors, calls, buffers, whether calls overlap, whether SSL calls reach the kernel. Every access to a shared map and every
ring-buffer call is a step. `th` holds where each thread is, including the contexts
that the probes save between entry and exit. Bytes are positions in the connection's
stream, so that an event knows which bytes it holds; the kernel's own view of
descriptors (`conns`, `opened`) is external. A read may be one with MSG_PEEK, which
moves nothing in the stream; the msghdr of a `sendmsg` or `recvmsg` may be unreadable; and
`full` says that other descriptors have filled `fd_generations`, so that updates fail
unnoticed. Descriptors 0 to 2 are left out, and 0 stands
for no descriptor.

**FlowControl.** One descriptor whose connections follow each other, any number of
shard goroutines, one poller. `sh` is a loop's local state; lock sections, `/proc` reads
and map calls that another can come between are separate steps. Three are merged because nobody can
see in between: the two deletions on a close event, the check, write and record of a
tuple, and the filter update with the poller's own version. Clearing and filling the
port maps goes port by port.

**TargetManager.** `proc` is the machine: processes fork, start, exit, and numbers are
reused. `ScanPid` reads one entry of `/proc`; `Resolve` is the mode's selection, where
the breadth-first walk of `discoverPIDTree` is the least set that contains the root and the
children of its members; puts
and deletions are single map operations that may fail or meet a full map. The modes
`capture-all`, `capture-pids` and `capture-tree` are the combined binary's manager, which shares
the maps' code but has no cgroups, keeps only live processes and accepts an empty
result; its checks whether the processes live are one step.

**ConversationSink.** `cfg` is a command line; `Start` is `parseConfig` with the
construction of the sink, or the fatal error. `em` is where each of the two goroutines
is inside `Emit`: an HTTP exchange, a client call, the wait for a report, a dead-letter
write are steps. `stored` is what the destination holds. The backend, the brokers and the
disk are external and answer as they like; the backoff only lets time pass. The Kafka
sink ignores an error of the dead-letter write, the HTTP sink reports it.

**CaptureStream.** One connection through the combined binary. A scenario fixes its
exchanges, the protocol (HTTP/1, HTTP/2, TLS), what kernel and `/proc` know of its ports,
what the filter wants and which faults may happen. `rings`, `shard`, `channel`, `consumer`,
`cleaner`, `main` are the goroutines and what lies between them; `heap` and `current` are
session objects and the store as in StreamSessions. Filter lookup, decision and record
are one step per event: two loops that decide on one flow at the same moment are taken
one after the other (FlowControl has that race for the agent's copy of the filter). A message is tokens as in
StreamSessions, a request's head two of them; an HTTP/2 frame is a token that announces its
payload, the last token of a body is a DATA frame of its own, and a frame out of
place stops the framer. The first token of a response's body may contain the name of a method
(`lookalike`). An event that its payload sends to the other side's buffer is recorded as
`misled`. A ring buffer that is full drops an event before it takes a number (`ring`; so that
states stay finite the connection waits for room when its budget of drops is spent). The two uprobes of a
library, which stand for eight, are attached one by one and may fail one by one. The ticker takes the store's and
the session's lock whether or not the session is stale, as often as the budget allows. The process is the server. HTTP/2 buffers are never shortened:
they are decoded from the start at each event, until they overflow.

The MC modules give constants their values. In every module a definition named
`X_Something` under a comment `mutant:` is a deliberately wrong form of `X`; it takes part in
no run and shows that a property can fail.

## What the runs show

| run | instance | states | shows |
|---|---|---|---|
| producer_safety | 2 shards, 2 events each, queue 1, spool 2, client 1, 3 modes, 1 failure | 0.6M | TypeOK, NoSilentLoss, OneCopy, UnspooledInOrder |
| producer_crash | 1 shard, 2 events, 1 metrics record, 1 crash, 1 disk fault, with and without spool and breaker | 0.2M | OneCopy, ProducerKeepsPromise (which contains NoSilentLoss) |
| producer_liveness | 2 shards, 1 event each, SIGTERM at any time, an outage, 1 disk fault | 69k | ClosedQueueIsEmpty, EventuallyDelivered, ReadinessReturns, ShutdownCompletes |
| worker_streams | 4 connections, one with 100 Continue, every cut into events of up to 4 tokens, each fault once | 6.2M | TypeOK, PairingExact, AllEmitted, DamageIsFlagged |
| worker_expiry | 2 connections, sessions expire at any time, 1 lost event | 0.4M | EmittedOnce, SessionsReclaimed |
| kernel_capture | 4 workloads: TLS calls of 1 thread on 2 reused descriptors; 2 threads, a close during a read; reads that peek, with a full `fd_generations`; buffers at every limit, filters, ring of 1 | 2.1M | KernelInv (types, GapsAreDiscards, CloseIsLast), GenerationIsOneConnection, MetadataIsOwn, LossIsExplicit, NothingCapturedTwice |
| flow_control | 2 goroutines, 2 connections, 2 configurations, 2 faults | 4.5M | TypeOK, MetadataIsOwn, KernelTupleIsOwn, FlowIsWhole, DecisionsAreCurrent, ConfigIsWhole |
| target_refresh | 3 process numbers, 3 births, map of 2, 1 failure, 7 modes | 0.8M | TargetInv (types, MapsMatch), TracesOnlyTargets, EventuallyExact |
| capture_streams | 24 scenarios, 2 ring buffers of 2, channel of 1, buffers of 5 tokens | 4.3M | CaptureInv (limits, NoSendOnClosed, NoLockCycle), PairingExact, AllEmitted, DamageIsFlagged, EmittedOnce, UnwantedStaysOut |
| conversation_sink | 3 conversations, 2 goroutines, 1 retry, 2 faults, every combination of URLs and tokens | 0.1M | SinkInv (types, RepeatsAreUnacknowledged, DeadLettersUndelivered), EndpointIsConfigured, SinkKeepsPromise, SinkNeverHangs |
| worker_responses | responses of two events | | violates AllEmitted |
| kernel_chunk_edge | a write longer than a chunk | | violates ReconstructsCompletely |

Why the bounds are enough: each capacity is 1 or 2, so that a second actor meets it
full; two shards or threads are the least that race, and the code treats further ones
alike; one failure, crash or fault separates two otherwise ordinary runs, two of them
where one only prepares the other (flow_control: a configuration fails, then changes).
In flow_control a close event stands for any later event of a flow. The scenarios of
capture_streams each combine a protocol with the faults that matter to it; two
connections in one scenario would share only the channel, whose losses one connection
already meets, and the store's lock. Five tokens hold an HTTP/2 request with its preface and
a body, and overflow when more is captured before a drain strips the preface. Chunks of 2 bytes,
2 chunks and 2 segments keep the arithmetic of the limits with every relation between
length and limit. Capping counters (`MaxEvents`, `MaxSyscalls`, `MaxBirths`, ...) only
ends behaviours.

Deadlock is not checked: in every model the application, the connection or the
machine may simply stop, and the agent may exit.

### Exceptions that the properties name

Each exception is behaviour of the code that a check or a reading found, not an assumption. Where a
hazard is itself an exception (a decision taken during an update, a configuration that failed half way, ports
unknown at first, an informational response, a partial write), the property bounds
what the hazard can do and does not exclude it:

- NoSilentLoss: an event may be lost to a counted drop, to the spool's size limit
  (`producer.go:453` truncates the whole file, no counter), to an append behind a
  torn line, or with the process.
- AllEmitted of StreamSessions: a request line cut before its "HTTP/1.". The event with its second half looks
  like a response (`processing.go:171-183`, `79-88`); neither half is parsed, and the exchange and all later ones
  of the connection are lost. With pipelining the second half may come between the head and the body of a
  response, which then has these bytes in its body, unflagged: PairingExact and DamageIsFlagged have the same
  exception.
- DamageIsFlagged: the worker cannot see that a session's first event is missing or
  late, and it does not look at a close event's sequence number (`processing.go:142`), so a
  response that ends with the connection may lose its tail unflagged; a repeated event,
  an expiry and an overflow are not flagged either.
- PairingExact and DamageIsFlagged of StreamSessions: an informational response is paired
  as if it were the final one (`processing.go:397`), so the later responses of the
  connection are paired with later requests, unflagged.
- ReadinessReturns: a spool of nothing but unreadable lines is never truncated
  (`producer.go:373`) and keeps `/readyz` at 503.
- EventuallyDelivered: events counted as evicted or failed, or merged into a torn line.
- GapsAreDiscards and CloseIsLast: only for calls that do not overlap on a descriptor.
- GapsAreDiscards, CloseIsLast, GenerationIsOneConnection and KernelCapture's MetadataIsOwn: `fd_generations` has room. It has
  32768 entries, none is ever deleted, and an update that fails is not noticed (`tracer.bpf.c:574-582`): from
  then on every connection of a new descriptor has generation 1.
- LossIsExplicit: a vector with more than `MAX_IOVEC_SEGMENTS` segments (`tracer.bpf.c:806`), and
  a `sendmsg` whose msghdr cannot be read (`tracer.bpf.c:1289`), which nothing counts.
- NothingCapturedTwice: bytes that a call put in an event without moving them. A write is captured at
  entry (`tracer.bpf.c:1200`), and what it did not send again when the application repeats the rest; a read with
  MSG_PEEK leaves the bytes to be read, and the probes do not look at flags (`tracer.bpf.c:1352-1407`).
  The exception is byte by byte: what the call did move is in no other event.
- FlowControl's MetadataIsOwn: events of a closed connection that the agent reads after
  the descriptor was reused get the new connection's addresses (`metadata.go:373`).
- DecisionsAreCurrent: a loop that is deciding while the configuration changes
  remembers the old answer (`metadata.go:190`); it stays until the TTL.
- ConfigIsWhole: a configuration that failed half way is not repaired if the backend
  returns to the version the agent remembers (`control.go:185`).
- TracesOnlyTargets: a reused process number. Besides the plain case there is one that
  the scan alone produces: a child is read, its parent exits, and the parent's number
  is taken by a child of the target before it is read.
- CaptureStream's DamageIsFlagged: as for the worker, a missing first event, an expiry, an
  overflow and a response that ends with the connection; besides, an event that a full ring buffer dropped
  (`tracer.bpf.c:656-660`: it has no number, so no gap shows) and an event that was misled.
- CaptureStream's PairingExact, AllEmitted and DamageIsFlagged: an event that starts inside a request line, or
  a body event with the name of a method, HTTP/2 or not, goes to the other side's buffer
  (`process.go:99-108`, `212-223`; the fault `misled`). Over HTTP/1 a message is not completed or takes foreign bytes;
  over HTTP/2 a response is emitted with a piece missing (TruncationIsExplicit below). PairingExact allows a TLS
  conversation to be flagged: the ciphertext that is skipped shares the sequence numbers,
  so every TLS stream shows gaps it does not have.
- UnwantedStaysOut: the kernel knew the ports. Otherwise an event that looks like HTTP is
  admitted, the decision is kept for the TTL, and `/proc` is not compared with the ports
  (`karaxys-capture/metadata.go:184`).
- SinkKeepsPromise: a conversation given up is lost if there is no dead-letter file or
  the write failed, if it was appended to a torn line (`sink.go:223`), or if the process
  ended first: main does not wait for the cleanup goroutine.
- SinkInv: a conversation that was stored without an acknowledgement, or with one that
  came after the timeout (`sink.go:147`), is stored again or dead-lettered.
- EventuallyExact: nothing left to trace (the agent takes that for a failure and keeps
  the old entries, the combined binary empties its map), and a full `target_pids`. New processes are put before old ones are
  deleted (`target.go:83`), so a refresh whose result would fit fails, and so do all later ones.

### Claims the code does not keep

Two have runs (`findings` in PROJECT.json): responses of several events (worker_responses)
and full chunks (kernel_chunk_edge). The others are definitions that no run
checks; these instances refute them:

| definition | instance | cause |
|---|---|---|
| EventLossIsCounted | ProducerSafety.cfg | spool truncated at its limit, `producer.go:453` |
| FlushedBeforeExit | 1 shard, 2 events, `strict`, MayStop, no faults | `p.Flush` precedes the drain of the queue, `main.go:964` |
| MetricsHaveTheirTopic | ProducerSafety.cfg with MaxMetrics = 1 | a spooled metrics record is replayed to the raw topic, `main.go:861` |
| OverflowIsFlagged | `<<Plain(0,2), Plain(0,0), Plain(0,0)>>`, MaxChunk 2, MaxWire 1, MaxStreamTokens 2 | an overflow clears pending requests, `processing.go:93` |
| SequenceOrder | KernelCapture.cfg with two CPUs and the workload LongWrite with buffers {Buf(1)} | a thread migrates, `tracer.bpf.c:602` |
| GapsAreDiscards without its premise | KernelCapture.cfg with the workload Reuse, overlap "any" | `next_seq` is not atomic, `tracer.bpf.c:588` |
| GenerationIsOneConnection | KernelCapture.cfg with the workload Serial, ssl "buffered" | an SSL call served from the library's buffer is attributed to the last descriptor, `tracer.bpf.c:1592` |
| TerminatedAreRemoved | Modes {"all-pids"}, CgroupFilter FALSE, MaxPids 0, MapSize 2, 2 births, no failure | full map, `target.go:87` |
| TargetsAreCaptured | CaptureStreams.cfg with the scenario Http(Bare, NoFaults), known "remote" | `karaxys-capture/main.go:316-320` turns the kernel's gate off so that a listener bound earlier is captured; the filter in user space refuses the same connection (`metadata.go:187-195`) |
| TruncationIsExplicit | CaptureStreams.cfg with the scenario MisleadingStreams | an HTTP/2 DATA frame with the name of a method goes to the request buffer (`karaxys-capture/process.go:99-108`), and the response is emitted without it and without a flag, although nothing was lost |
| FlushedOnShutdown | CaptureStreams.cfg with the scenario Http(<<UntilClose(1)>>, Once({"stop"})) | `karaxys-capture/main.go:529` announces a flush of the sessions that the consumer does not do |

Also seen while modelling: `/proc` labels every established connection "outbound"
(`metadata.go:873`), so the inbound and outbound switches do not tell them apart; in
mode pid-tree the root is never dropped, and a container that is gone keeps its last
processes. In the combined binary a TLS library whose uprobes could not be attached is
never tried again (`ssl.go:75`), and an HTTP/2 connection without a known tuple is never
admitted, because its bytes do not look like HTTP/1.

## Fairness

- AgentSpec: goroutines with something to do run (weak fairness). `select` chooses at
  random among the ready cases, so a case that is ready again and again is taken
  (strong fairness of `RunDequeue`, `ReplayTick`, `RunStop`), and blocked senders of a
  channel are served first in, first out (strong fairness of `SubmitBlocked`). Nothing
  forces a delivery; EventuallyDelivered and ReadinessReturns assume `BrokersReturn`
  explicitly, ShutdownCompletes does not. Failures are not fair and end with MaxFaults.
- LiveSpec of StreamSessions: consumer and cleanup ticker run and time passes; nothing
  is assumed of the connection or of Kafka.
- Spec of ConversationSink: the goroutines run, the HTTP client and the select time out
  (both have timeouts in the code), `Flush` returns; the backend and the brokers owe nothing.
- LiveSpec of TargetManager: the ticker fires and a refresh goes on; nothing is assumed
  of processes or failures.

## What is proved

TLAPS proves the following for every value of the constants that satisfies the ASSUMEs
of the module (types of the parameters, capacities that are natural numbers, distinct
markers such as NoMsg); there is no other assumption. Each rests on an inductive
invariant and on one lemma per action; TLC checked the invariants first, except PInv and DInv of
StreamSessions, which quantify over positions in the streams that TLC cannot enumerate.

| module | theorem | states |
|---|---|---|
| QueuedProducerProofs | TypeCorrect, CloseLeavesNothing, NothingIsLostSilently | TypeOK, ClosedQueueIsEmpty, NoSilentLoss |
| | NoDuplicates, OrderIsKept | OneCopy, UnspooledInOrder |
| | ProducerImplementsDelivery | ProducerKeepsPromise, the refinement of Delivery |
| ConversationSinkProofs | AcknowledgedIsFinal, EndpointConfigured | SinkInv, EndpointIsConfigured |
| | SinkImplementsDelivery | SinkKeepsPromise, the refinement of Delivery |
| TargetManagerProofs | MapsAgree, NoStrangerTraced | TargetInv, TracesOnlyTargets |
| FlowControlProofs | TypesAreKept, NoForeignMetadata, NoForeignTuple | TypeOK, MetadataIsOwn, KernelTupleIsOwn |
| | AdmittedFlowIsWhole, NoStaleDecision, ConfigurationIsWhole | FlowIsWhole, DecisionsAreCurrent, ConfigIsWhole |
| StreamSessionsProofs | TypeCorrect, NoRequestTwice | TypeOK, EmittedOnce |
| | PairsExactly, NothingMissing, DamageShows | PairingExact, AllEmitted, DamageIsFlagged of Regular connections, with their exception of a request line cut before its "HTTP/1." |
| CaptureStreamProofs | CaptureSafety, CaptureEmitsOnce, CaptureExcludes | CaptureInv, EmittedOnce, UnwantedStaysOut |
| KernelCaptureProofs | GenerationsAreApart, TuplesStayApart | GenerationIsOneConnection and MetadataIsOwn of Attributable workloads, while `fd_generations` has room |
| | Numbering | KernelInv, unless calls are serial and TLS reads may be served from decrypted data |
| | LossShows | LossIsExplicit, for every workload |
| | CapturedOnce | NothingCapturedTwice, unless calls on a descriptor overlap freely |
| | Typing, EventsCut | TypeOK for every workload; how a buffer of any size is cut into events |

**QueuedProducer, losses.** TypeOK alone is not inductive: an action
that moves "the message in hand" needs to know there is one. RunHands and ShardHands
say where a goroutine holds a message, RunHands also that replay's slices are empty
elsewhere, so that no action overwrites a message. ShutdownOrder says that draining begins only after the
shards have exited and that the queue is empty once the run goroutine is done; without
it a shard could still enqueue during `close()`. NoSilentLoss then follows action by action: what leaves one
place is in another or has a named reason (the Keeps lemmas), and a newly sent event is
in its shard's hands or in the queue (NewlySent).

**QueuedProducer, copies and order.** OneCopy counts copies; the invariant behind it, Lone,
says for one event that no two of the eleven places it can be in hold it together, that each
sequence holds it at one position, and that only what was published exists. For the order
it is not enough to look at `log`: Ordered says that along the whole way (log, client, the
message in hand, queue, shards) earlier events are ahead of later ones, and Origins that
what came through the spool is marked as having made the detour, which exempts it. The
refinement maps each event to its fate; the lemmas say which moves each action makes.

**ConversationSink.** Whether a repetition is excused is known only when a report
arrives or the timeout passes, so Unacknowledged and ReportsAreTrue speak of
conversations while Emit still holds them; Apart keeps the two goroutines and the Kafka
client from storing the same conversation twice; Accounted is the refinement's "held,
stored, kept or declared". EndpointIsConfigured needs only what `Start` checked.

**TargetManager.** TargetInv speaks of the moments between refreshes; PidPhases and
GroupPhases say what the maps hold at each phase of one, with a failure possible at every
operation. For TracesOnlyTargets the scan is the difficulty, because its entries are of
different moments: SeenIsCoherent says that they still form one family tree, and agree with
the processes alive now, as long as no process number was reused; the tree that is
resolved from it therefore stays inside the family (TreeIsOurs).

**FlowControl.** Metadata is wrong only for late events, which is a fact about the event,
not about the moment: Metadata carries it from the ring through the cache, a loop's locals and
the kernel's map. Whole says that one loop at a time decides on an undisturbed flow, while
it has no decision; Current covers the decision a loop has made and not yet recorded;
Applying says at each phase of a configuration which kernel maps are of the new version.

**StreamSessions.** `drainParsedConversations` is two loops, written as recursive functions,
and the prover's induction rules cannot be used. LoopTheorems does the induction with sets
instead of formulas: a set of numbers has a least member, so a loop whose rounds
shorten a buffer ends, and ends in every set that its rounds keep (LoopEnds). The sets used
are "typed, no longer than before, each request at most once and none that was not there"
(RequestRoundIs, ResponseRoundIs, DrainIs). The invariant follows one request on its way: not
yet captured, in an event on the wire, in the consumer's hand, in a session (in its
buffer or pending), emitted. OnceEach says that each place holds it at most once, OnePlace
that no two places hold it; faults only remove, and a step on a session moves a request
from the event in hand to that session or to the output (SessionKeeps), whichever goroutine
takes it and whether or not the session is still in the store.

**StreamSessions, pairing.** PairsExactly, NothingMissing and DamageShows are about the connections that
Regular describes: seen from the server, no body that looks like the beginning of a message, and a
response that ends with the connection only as the last one. Without the first the parser takes a
body for a request, without the second it cannot know where the response ends; no HTTP
connection has the second, and WorkerResponses shows what happens with the first. All connections of
WorkerStreams are regular. PInv says where the connection stands: Track relates the
session to the wire. Position a of the request stream and b of the response stream are those the
session has received (Held); the buffers are the streams between the last emitted
message and a and b, the pending requests are those parsed and not answered, and the events on the
wire carry the rest, in order and without a gap (Span). One round of a parsing loop
consumes one whole message or stops at an incomplete one (the lemmas on rounds), so a session that is
Held stays so through a drain, and the conversations emitted are the first ones, in order (Paired).
When the connection is closed and the last event is processed both streams were received whole,
so everything complete was emitted. An event that starts inside a request line is a fault here (`head`), and
Span knows only events that are routed to their side.

**StreamSessions, damage.** For DamageShows events may be lost, reordered and cut, so the wire is no
longer a span of the streams. DInv fixes instead, for each number the capture has given, the
positions P and Q of the two streams at that number (Routes); an event in whatever place
carries what lies between its number and the next, or says that it was cut (Sent). The
session either is Marked, and then all it emits is flagged (MarkedDrain), or it has
every event before some number n and none after it (Intact), and is Held as
above. An event with a number beyond n marks it, the event n extends it, and one
before n cannot come, because numbers are on the wire once. A close that overtakes
the last event leaves that event a new session, which sees one side of the connection only
and emits nothing (OneSided); a response that the close completes ends with the connection (UntilClose),
which the property excuses.

**CaptureStream.** The argument is the one of StreamSessions on a longer way, with the same
LoopTheorems: a ring buffer, a reader, the channel and two outputs that wait for the sink
(OnceOut) come in between. An exchange is followed by one of its tokens, its mark: over HTTP/1 the head of the request,
over HTTP/2 the end of the response's stream, which a session holds only in the buffer of responses if it is to
be emitted. HTTP/2 is the difference: its buffers are never shortened, so the mark of an exchange that
was emitted is still in its session. It therefore counts as live only if its stream is
not in `h2Emitted` (HasX), and OnePlace says that a live exchange is in no output, whereas InSt, which
says that the session holds its mark at all, excludes the places before it. A response's mark may be in the buffer of
requests, because a body can look like one; that the end of a request's stream is never in the buffer of
responses (Strange) needs that nothing in a request over HTTP/2 looks like a message (Loud, Calm). That a TLS
stream cannot bring a request twice, once as ciphertext and once as plaintext, is in
CapturedIs. CaptureSafety needs no such argument but types that are inductive: Bounded
sessions, because parsing must not lengthen a buffer, and readers that have ended once
the channel is closed. For UnwantedStaysOut, Excluded says that every event
of an excluded connection carries the ports the kernel knew at its beginning: the tuple is forgotten
only with the close event, after which nothing is captured, so each new decision is a
refusal like the last.

**KernelCapture.** Attributable are the workloads whose calls on a descriptor do not overlap and whose
SSL calls reach the kernel, and those without TLS where a descriptor may be closed under a
blocked read. Outside them the properties are false (see the table of claims above). A
claim is a thread or a submitted event that says which connection a generation of a
descriptor stands for; Agree says that the claims agree, with each other and, for the
generation in force, with the kernel, and that past `bump_generation` nobody claims the new
one. Exclusive says that a descriptor is one thread's at a time, except for a read that is blocked
with its generation in `active_reads`, and TuplesAreOwn that `socket_tuples` holds the
tuple of the generation in force and no other. ThreadOK lists which call can be in which probe.

**KernelCapture, bytes.** EventsCut is about the operators alone: the plan that
`emit_data_event` or the loops over a vector make has its chunks in the order of their
offsets, disjoint and within the bytes moved, and covers them or has a chunk whose
`original_size` exceeds its size. The loops are recursive functions, about
which CountedLoop of LoopTheorems does the induction with sets. BInv types the state for
every workload; SlotInv says that a thread between reservation and submission has a busy
slot of its own, because no two running calls have the same number and a slot's identity
names call and chunk. Without it a submission could overwrite another's. LossInv then says
of each call that a byte is in a submitted event, or in a chunk still planned, or that the loss
already shows (Accounted); this survives every interleaving, so LossShows has no
hypothesis. For CapturedOnce, TwiceInv relates an event to the stream: it is of a call in
progress and lies where that call's buffer lies and before what the call still plans, or, but for the bytes that its
call did not move (those a write did not send, all those a read peeked at), it lies
before the position the connection has reached. A
connection has one descriptor and at most one call that moves its data
(Movers), which MayEnter grants unless Overlap is "any".

**KernelCapture, numbers.** SeqInv is about one descriptor at a time, which is one thread's
alone (Alone). Numbered(f, g, n) says that the numbers of generation g that were
submitted or discarded are exactly those below n. For the generation in force n is `event_seqnos`, except between
`next_seq` and the submission and between `bump_generation` and the reset of the number:
there the thread's record says it (SeqThread). Earlier generations keep
their n; a close event of the generation in force exists only while its thread is between that event and
`bump_generation` (Closed), so no later event can follow it. The workloads the theorem
leaves out violate KernelInv: plaintext served from decrypted data goes to the descriptor
the thread touched last, which another thread may be reading, and two events get one
number (seen in a simulation with two threads and two connections).

## What is only model-checked

- All liveness: the prover does not handle fairness and ENABLED.
- PairingExact, AllEmitted and DamageIsFlagged of StreamSessions on connections that are
  not Regular.
- PairingExact, AllEmitted and DamageIsFlagged of CaptureStream: here too a scenario may
  put a response that ends with the connection before others.

## What is not modelled

- Probes: an entry of a user vector that cannot be read, the limits of the maps other than
  `fd_generations` (`event_seqnos` and `socket_tuples` among them), descriptors 0 to 2, a configuration or
  target list that changes while a call is in progress, descriptors closed by `dup2`,
  `close_range` or `exec`; the update of a socket tuple is one step. The numbering is checked and proved
  for calls that do not overlap, attribution of TLS calls for those that reach the kernel (see the claims above).
- Agent: start-up and flags, record decoding and JSON, process and container names, the
  counter-noise check, cache sizes, `-fd-filter=false`, the heartbeat.
- Delivery: a torn line that misses only its newline is readable in the code (`producer.go:399-409`); the
  model counts it as unreadable, so its losses include some the code does not have.
- Worker: the limit on a single body, the text of conversations, and the options that
  only set sizes and intervals; an event that ends inside the name of a method or inside "HTTP/1." (both halves look
  like nothing); a request's head or body that looks like another message. An event that a full ring buffer
  dropped takes no number and never gets onto `wire`: what `wire` loses has one (CaptureStream has such drops).
- Combined binary: start-up and flags, process and container names, informational
  responses, the limit on a single body and an event that ends inside a method's name (all as in the worker), connections the
  traced process opened; request bodies and header blocks that look like a message, and ciphertext that
  happens to; the `_ex` functions of OpenSSL. Both events of a TLS call are recorded in one step, which loses
  the second or both if the ring buffer is full.
- The TLS prototype, which no program loads, the generated bindings and the scripts.
