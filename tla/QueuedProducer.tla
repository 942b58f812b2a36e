--------------------------- MODULE QueuedProducer ---------------------------
(***************************************************************************)
(* The agent's delivery path (cmd/agent/producer.go and the parts of       *)
(* cmd/agent/main.go that drive it): shard goroutines submit events to a   *)
(* bounded queue; one run goroutine hands them to the Kafka client; what   *)
(* cannot be handed over goes to a JSONL disk spool that is replayed every *)
(* 30 seconds; a delivery-report goroutine spools failed deliveries and    *)
(* drives the broker circuit breaker; main shuts everything down.          *)
(*                                                                         *)
(* Every channel operation, spool-lock section and client call is one      *)
(* step; the goroutines interleave between them.  An event is the pair     *)
(* <<shard, n>>, the n-th event of that shard; <<Metrics, n>> is the n-th  *)
(* metrics record.  Spool bytes are counted in records.                    *)
(***************************************************************************)
EXTENDS Naturals, Sequences, FiniteSets

CONSTANTS
  Shards,         \* ring-buffer shard goroutines
  Metrics,        \* the source name of metrics records
  NoMsg,          \* "holding no message"
  MaxEvents,      \* bound: events each shard submits
  MaxMetrics,     \* bound: metrics records published
  QueueCap,       \* cap(q.queue)
  SpoolCap,       \* diskSpool.maxBytes, in records
  ClientCap,      \* queue.buffering.max.messages of the Kafka client
  Modes,          \* the -backpressure modes under study
  SpoolOptions,   \* {TRUE}: a spool is configured; FALSE stands for nil
  BreakerOptions, \* {TRUE}: circuitBreakerDuration > 0
  MaxFaults,      \* bound: failures of Kafka and its client
  MaxDiskFaults,  \* bound: failures of a spool write
  MaxCrashes,     \* bound: crashes and restarts of the agent
  MayStop,        \* whether SIGTERM may arrive
  FlushMayTimeout \* whether p.Flush(5000) may run into its timeout

ASSUME SourcesAssumption == Metrics \notin Shards

ASSUME BoundsAssumption ==
  /\ MaxEvents \in Nat /\ MaxMetrics \in Nat /\ MaxFaults \in Nat
  /\ MaxDiskFaults \in Nat /\ MaxCrashes \in Nat

ASSUME CapsAssumption ==
  QueueCap \in Nat \ {0} /\ SpoolCap \in Nat \ {0} /\ ClientCap \in Nat \ {0}

ASSUME OptionsAssumption ==
  /\ Modes \subseteq {"strict", "drop-oldest", "drop-newest", "best-effort"}
  /\ SpoolOptions \subseteq BOOLEAN /\ BreakerOptions \subseteq BOOLEAN
  /\ MayStop \in BOOLEAN /\ FlushMayTimeout \in BOOLEAN

Sources == Shards \cup {Metrics}
Msg == (Shards \X (1 .. MaxEvents)) \cup ({Metrics} \X (1 .. MaxMetrics))

ASSUME NoMsgAssumption == NoMsg \notin Msg

Topic == {"raw", "metrics"}
Err == {"none", "unavailable", "other"}

VARIABLES
  cfg,        \* the options the agent was started with
  phase,      \* where main() is
  sent,       \* events each source has published so far
  shard,      \* where each shard goroutine is, and the event it holds
  queue,      \* q.queue
  run,        \* where the run goroutine is
  back,       \* where produce returns to
  runMsg,     \* the message the run goroutine holds
  batch,      \* replaySpool: messages read and not yet enqueued
  retained,   \* replaySpool: messages that did not fit
  circuit,    \* brokerUnavailable()
  inflight,   \* messages inside the Kafka client
  reports,    \* p.Events()
  delivMsg,   \* a failed delivery the report goroutine is about to spool
  log,        \* what the brokers hold
  spool,      \* readable lines of the spool file
  junk,       \* unreadable lines of the spool file
  torn,       \* the file's last line has no newline
  budget      \* failures still to come

mainVars   == <<cfg, phase, sent>>
runVars    == <<run, back, runMsg, batch, retained>>
clientVars == <<inflight, reports, log>>
fileVars   == <<spool, junk, torn>>

VARIABLES
  counted,    \* history: losses a drop or error counter recorded
  wiped,      \* history: records erased by the spool size limit
  merged,     \* history: records appended to a torn line
  stranded,   \* history: events in memory when the process ended
  detoured,   \* history: events that went through the spool
  ackLost     \* history: stored by a broker, reported as failed

history == <<counted, wiped, merged, stranded, detoured, ackLost>>

vars == <<cfg, phase, sent, shard, queue, run, back, runMsg, batch, retained,
          circuit, inflight, reports, delivMsg, log, spool, junk, torn, budget,
          counted, wiped, merged, stranded, detoured, ackLost>>

Elems(s) == {s[i] : i \in DOMAIN s}

ShardPc == {"idle", "block", "evict", "resend", "spool", "exited"}
RunPc   == {"select", "produce", "spool", "replay", "drain", "rest", "done"}
Phase   == {"start", "up", "stopping", "flush", "closing", "exited", "crashed"}

Config     == [mode : Modes, spool : SpoolOptions, breaker : BreakerOptions]
ShardState == [pc : ShardPc, msg : Msg \cup {NoMsg}]
Record     == [msg : Msg, topic : Topic]
Report     == [msg : Msg \cup {NoMsg}, err : Err]
Faults     == [kafka : Nat, disk : Nat, crash : Nat]

MainType   == cfg \in Config /\ phase \in Phase /\ sent \in [Sources -> Nat]
ShardType  == shard \in [Shards -> ShardState]
QueueType  == queue \in Seq(Msg) /\ Len(queue) <= QueueCap
RunType    == /\ run \in RunPc /\ back \in RunPc /\ runMsg \in Msg \cup {NoMsg}
              /\ batch \in Seq(Msg) /\ retained \in Seq(Msg)
ClientType == inflight \in Seq(Record) /\ reports \in Seq(Report) /\ log \in Seq(Record)
ReportType == circuit \in BOOLEAN /\ delivMsg \in Msg \cup {NoMsg}
FileType   == spool \in Seq(Msg) /\ junk \in Nat /\ torn \in BOOLEAN
LossType   == /\ counted \in SUBSET Msg /\ wiped \in SUBSET Msg /\ merged \in SUBSET Msg
              /\ stranded \in SUBSET Msg /\ detoured \in SUBSET Msg /\ ackLost \in SUBSET Msg

(* The variables have their types, and the queue never exceeds its capacity *)
(* although shards, replay and eviction compete for its places.             *)
TypeOK ==
  /\ MainType /\ ShardType /\ QueueType /\ RunType /\ ClientType /\ ReportType /\ FileType
  /\ budget \in Faults /\ LossType

Init ==
  /\ cfg \in Config
  /\ phase = "start"
  /\ sent = [s \in Sources |-> 0]
  /\ shard = [s \in Shards |-> [pc |-> "idle", msg |-> NoMsg]]
  /\ queue = <<>>
  /\ run = "replay" /\ back = "select" /\ runMsg = NoMsg
  /\ batch = <<>> /\ retained = <<>>
  /\ circuit = FALSE
  /\ inflight = <<>> /\ reports = <<>> /\ delivMsg = NoMsg /\ log = <<>>
  /\ spool = <<>> /\ junk = 0 /\ torn = FALSE
  /\ budget = [kafka |-> MaxFaults, disk |-> MaxDiskFaults, crash |-> MaxCrashes]
  /\ counted = {} /\ wiped = {} /\ merged = {}
  /\ stranded = {} /\ detoured = {} /\ ackLost = {}

-----------------------------------------------------------------------------
(* The disk spool.  write() first applies the size limit, which truncates   *)
(* the whole file, and then appends one line.                               *)

AtLimit == Len(spool) + junk >= SpoolCap

KeptRecords == IF AtLimit THEN <<>> ELSE spool
KeptJunk    == IF AtLimit THEN 0 ELSE junk
KeptTorn    == torn /\ ~AtLimit
Erased      == IF AtLimit THEN Elems(spool) ELSE {}

(* A line appended behind a torn one is part of an unreadable line. *)
Append1(m) ==
  /\ \/ /\ ~KeptTorn
        /\ spool' = Append(KeptRecords, m)
        /\ junk' = KeptJunk
        /\ UNCHANGED merged
     \/ /\ KeptTorn
        /\ spool' = KeptRecords
        /\ junk' = KeptJunk + 1
        /\ merged' = merged \cup {m}
  /\ torn' = FALSE
  /\ wiped' = wiped \cup Erased
  /\ detoured' = detoured \cup {m}
  /\ UNCHANGED <<counted, budget>>

(* mutant: the write error is not counted *)
WriteError_Uncounted(m) ==
  /\ budget.disk > 0
  /\ budget' = [budget EXCEPT !.disk = @ - 1]
  /\ detoured' = detoured \cup {m}
  /\ UNCHANGED <<spool, junk, torn, wiped, counted, merged>>

(* Stat, truncate or open failed, or the line was written in part. *)
WriteError(m) ==
  /\ budget.disk > 0
  /\ budget' = [budget EXCEPT !.disk = @ - 1]
  /\ \/ UNCHANGED <<spool, junk, torn, wiped>>
     \/ /\ spool' = KeptRecords
        /\ junk' = KeptJunk
        /\ torn' \in {KeptTorn, TRUE}
        /\ wiped' = wiped \cup Erased
  /\ counted' = counted \cup {m}
  /\ detoured' = detoured \cup {m}
  /\ UNCHANGED merged

(* spoolMessage: without a spool the counter its caller incremented is all. *)
spoolMessage(m) ==
  /\ \/ /\ ~cfg.spool
        /\ counted' = counted \cup {m}
        /\ UNCHANGED <<spool, junk, torn, wiped, merged, detoured, budget>>
     \/ cfg.spool /\ Append1(m)
     \/ cfg.spool /\ WriteError(m)
  /\ UNCHANGED <<stranded, ackLost>>

(* mutant: the file is not truncated after it was read *)
drainAll_KeepsFile == batch' = spool /\ UNCHANGED fileVars

(* drainAll: nothing is truncated when no line is readable. *)
drainAll ==
  /\ batch' = spool
  /\ spool' = <<>>
  /\ junk' = IF spool = <<>> THEN junk ELSE 0
  /\ torn' = (torn /\ spool = <<>>)

-----------------------------------------------------------------------------
(* submit, one step per channel operation *)

QueueHasRoom == Len(queue) < QueueCap

(* mutant: no bound on the queue *)
Enqueue_Unbounded(m) == queue' = Append(queue, m)

Enqueue(m) == QueueHasRoom /\ queue' = Append(queue, m)

ShardAt(s, pc, m) == shard' = [shard EXCEPT ![s] = [pc |-> pc, msg |-> m]]

Submit(s) ==
  LET m == <<s, sent[s] + 1>> IN
  /\ phase \in {"up", "stopping"} /\ shard[s].pc = "idle" /\ sent[s] < MaxEvents
  /\ sent' = [sent EXCEPT ![s] = @ + 1]
  /\ \/ cfg.mode = "strict" /\ ShardAt(s, "block", m) /\ UNCHANGED <<queue, counted>>
     \/ /\ cfg.mode # "strict" /\ Enqueue(m)
        /\ UNCHANGED <<shard, counted>>
     \/ /\ cfg.mode = "drop-oldest" /\ ~QueueHasRoom
        /\ ShardAt(s, "evict", m) /\ UNCHANGED <<queue, counted>>
     \/ /\ cfg.mode \in {"drop-newest", "best-effort"} /\ ~QueueHasRoom
        /\ counted' = counted \cup {m}
        /\ ShardAt(s, "spool", m) /\ UNCHANGED queue
  /\ UNCHANGED <<cfg, phase, runVars, circuit, clientVars, delivMsg, fileVars, budget,
                 wiped, merged, stranded, detoured, ackLost>>

SubmitBlocked(s) ==
  /\ shard[s].pc = "block"
  /\ Enqueue(shard[s].msg)
  /\ ShardAt(s, "idle", NoMsg)
  /\ UNCHANGED <<mainVars, runVars, circuit, clientVars, delivMsg, fileVars, budget, history>>

SubmitEvict(s) ==
  /\ shard[s].pc = "evict"
  /\ ShardAt(s, "resend", shard[s].msg)
  /\ \/ /\ queue # <<>>
        /\ queue' = Tail(queue)
        /\ counted' = counted \cup {Head(queue)}
     \/ queue = <<>> /\ UNCHANGED <<queue, counted>>
  /\ UNCHANGED <<mainVars, runVars, circuit, clientVars, delivMsg, fileVars, budget,
                 wiped, merged, stranded, detoured, ackLost>>

SubmitResend(s) ==
  /\ shard[s].pc = "resend"
  /\ \/ /\ Enqueue(shard[s].msg)
        /\ ShardAt(s, "idle", NoMsg)
        /\ UNCHANGED counted
     \/ /\ ~QueueHasRoom
        /\ counted' = counted \cup {shard[s].msg}
        /\ ShardAt(s, "spool", shard[s].msg)
        /\ UNCHANGED queue
  /\ UNCHANGED <<mainVars, runVars, circuit, clientVars, delivMsg, fileVars, budget,
                 wiped, merged, stranded, detoured, ackLost>>

(* mutant: with the queue full the shard calls the client itself *)
SubmitSpool_BypassesQueue(s) ==
  /\ shard[s].pc = "spool"
  /\ inflight' = Append(inflight, [msg |-> shard[s].msg, topic |-> "raw"])
  /\ ShardAt(s, "idle", NoMsg)
  /\ UNCHANGED <<mainVars, queue, runVars, circuit, reports, log, delivMsg, fileVars, budget, history>>

SubmitSpool(s) ==
  /\ shard[s].pc = "spool"
  /\ spoolMessage(shard[s].msg)
  /\ ShardAt(s, "idle", NoMsg)
  /\ UNCHANGED <<mainVars, queue, runVars, circuit, clientVars, delivMsg>>

-----------------------------------------------------------------------------
(* the run goroutine *)

RunDequeue ==
  /\ run = "select" /\ queue # <<>>
  /\ runMsg' = Head(queue) /\ queue' = Tail(queue)
  /\ run' = "produce" /\ back' = "select"
  /\ UNCHANGED <<mainVars, shard, batch, retained, circuit, clientVars, delivMsg,
                 fileVars, budget, history>>

ClientHasRoom == Len(inflight) + Len(reports) < ClientCap

(* produce: the circuit is consulted, then the client is called. *)
RunProduce ==
  /\ run = "produce"
  /\ \/ /\ ~circuit /\ ClientHasRoom
        /\ inflight' = Append(inflight, [msg |-> runMsg, topic |-> "raw"])
        /\ run' = back /\ runMsg' = NoMsg
        /\ UNCHANGED budget
     \/ /\ circuit \/ ~ClientHasRoom
        /\ run' = "spool"
        /\ UNCHANGED <<inflight, runMsg, budget>>
     \/ /\ ~circuit /\ budget.kafka > 0
        /\ budget' = [budget EXCEPT !.kafka = @ - 1]
        /\ run' = "spool"
        /\ UNCHANGED <<inflight, runMsg>>
  /\ UNCHANGED <<mainVars, shard, queue, back, batch, retained, circuit, reports, log,
                 delivMsg, fileVars, history>>

RunSpool ==
  /\ run = "spool"
  /\ spoolMessage(runMsg)
  /\ run' = back /\ runMsg' = NoMsg
  /\ UNCHANGED <<mainVars, shard, queue, back, batch, retained, circuit, clientVars, delivMsg>>

(* replaySpool on a tick of replayTicker; without readable lines it returns. *)
ReplayTick ==
  /\ run = "select" /\ cfg.spool /\ spool # <<>>
  /\ drainAll
  /\ run' = "replay"
  /\ UNCHANGED <<mainVars, shard, queue, back, runMsg, retained, circuit, clientVars,
                 delivMsg, budget, history>>

(* mutant: messages that do not fit are not retained *)
ReplayEnqueue_DropsOverflow ==
  /\ run = "replay" /\ batch # <<>>
  /\ batch' = Tail(batch)
  /\ Enqueue(Head(batch)) \/ (~QueueHasRoom /\ UNCHANGED queue)
  /\ UNCHANGED <<mainVars, shard, run, back, runMsg, retained, circuit, clientVars, delivMsg,
                 fileVars, budget, history>>

ReplayEnqueue ==
  /\ run = "replay" /\ batch # <<>>
  /\ batch' = Tail(batch)
  /\ \/ Enqueue(Head(batch)) /\ UNCHANGED retained
     \/ /\ ~QueueHasRoom
        /\ retained' = Append(retained, Head(batch))
        /\ UNCHANGED queue
  /\ UNCHANGED <<mainVars, shard, run, back, runMsg, circuit, clientVars, delivMsg,
                 fileVars, budget, history>>

ReplayRetain ==
  /\ run = "replay" /\ batch = <<>> /\ retained # <<>>
  /\ spoolMessage(Head(retained))
  /\ retained' = Tail(retained)
  /\ UNCHANGED <<mainVars, shard, queue, run, back, runMsg, batch, circuit, clientVars, delivMsg>>

(* Replay over.  The first one is newQueuedProducer's own, before go run(). *)
ReplayDone ==
  /\ run = "replay" /\ batch = <<>> /\ retained = <<>>
  /\ run' = "select"
  /\ phase' = IF phase = "start" THEN "up" ELSE phase
  /\ UNCHANGED <<cfg, sent, shard, queue, back, runMsg, batch, retained, circuit, clientVars,
                 delivMsg, fileVars, budget, history>>

(* drain after q.stop is closed *)
RunStop ==
  /\ run = "select" /\ phase = "closing"
  /\ run' = "drain"
  /\ UNCHANGED <<mainVars, shard, queue, back, runMsg, batch, retained, circuit, clientVars,
                 delivMsg, fileVars, budget, history>>

DrainTake ==
  /\ run = "drain" /\ queue # <<>>
  /\ runMsg' = Head(queue) /\ queue' = Tail(queue)
  /\ run' = "produce" /\ back' = "drain"
  /\ UNCHANGED <<mainVars, shard, batch, retained, circuit, clientVars, delivMsg,
                 fileVars, budget, history>>

DrainTimeout ==
  /\ run = "drain" /\ queue # <<>>
  /\ counted' = counted \cup Elems(queue)
  /\ run' = "rest"
  /\ UNCHANGED <<mainVars, shard, queue, back, runMsg, batch, retained, circuit, clientVars,
                 delivMsg, fileVars, budget, wiped, merged, stranded, detoured, ackLost>>

DrainRest ==
  /\ run = "rest" /\ queue # <<>>
  /\ runMsg' = Head(queue) /\ queue' = Tail(queue)
  /\ run' = "spool" /\ back' = "rest"
  /\ UNCHANGED <<mainVars, shard, batch, retained, circuit, clientVars, delivMsg,
                 fileVars, budget, history>>

DrainDone ==
  /\ run \in {"drain", "rest"} /\ queue = <<>>
  /\ run' = "done"
  /\ UNCHANGED <<mainVars, shard, queue, back, runMsg, batch, retained, circuit, clientVars,
                 delivMsg, fileVars, budget, history>>

-----------------------------------------------------------------------------
(* publishAgentMetrics: straight to the client, with its own topic *)

Running == phase \notin {"start", "exited", "crashed"}

PublishMetrics ==
  LET m == <<Metrics, sent[Metrics] + 1>> IN
  /\ Running /\ sent[Metrics] < MaxMetrics
  /\ sent' = [sent EXCEPT ![Metrics] = @ + 1]
  /\ \/ /\ ClientHasRoom
        /\ inflight' = Append(inflight, [msg |-> m, topic |-> "metrics"])
        /\ UNCHANGED counted
     \/ /\ ~ClientHasRoom
        /\ counted' = counted \cup {m}
        /\ UNCHANGED inflight
  /\ UNCHANGED <<cfg, phase, shard, queue, runVars, circuit, reports, log, delivMsg, fileVars,
                 budget, wiped, merged, stranded, detoured, ackLost>>

-----------------------------------------------------------------------------
(* The Kafka client and the brokers.  One partition: the idempotent client  *)
(* keeps the order of the messages that share a key.                        *)

Deliver ==
  /\ Running /\ inflight # <<>>
  /\ log' = Append(log, Head(inflight))
  /\ inflight' = Tail(inflight)
  /\ reports' = Append(reports, [msg |-> Head(inflight).msg, err |-> "none"])
  /\ UNCHANGED <<mainVars, shard, queue, runVars, circuit, delivMsg, fileVars, budget, history>>

(* message.timeout.ms or a broker error; the message may be stored already. *)
DeliverFail(err, stored) ==
  LET r == Head(inflight) IN
  /\ Running /\ inflight # <<>> /\ budget.kafka > 0
  /\ budget' = [budget EXCEPT !.kafka = @ - 1]
  /\ inflight' = Tail(inflight)
  /\ reports' = Append(reports, [msg |-> r.msg, err |-> err])
  /\ log' = IF stored THEN Append(log, r) ELSE log
  /\ ackLost' = IF stored THEN ackLost \cup {r.msg} ELSE ackLost
  /\ UNCHANGED <<mainVars, shard, queue, runVars, circuit, delivMsg, fileVars,
                 counted, wiped, merged, stranded, detoured>>

(* a kafka.Error event that belongs to no message *)
ClientError(err) ==
  /\ Running /\ budget.kafka > 0
  /\ budget' = [budget EXCEPT !.kafka = @ - 1]
  /\ reports' = Append(reports, [msg |-> NoMsg, err |-> err])
  /\ UNCHANGED <<mainVars, shard, queue, runVars, circuit, inflight, log, delivMsg, fileVars, history>>

-----------------------------------------------------------------------------
(* the delivery-report goroutine and the circuit breaker *)

markBrokerUnavailable == circuit' = (circuit \/ cfg.breaker)
markBrokerAvailable   == circuit' = FALSE

(* mutant: a failed delivery is counted but not spooled *)
TakeReport_ForgetsFailure ==
  /\ Running /\ delivMsg = NoMsg /\ reports # <<>>
  /\ reports' = Tail(reports)
  /\ UNCHANGED <<mainVars, shard, queue, runVars, circuit, inflight, log, delivMsg, fileVars,
                 budget, history>>

TakeReport ==
  LET r == Head(reports) IN
  /\ Running /\ delivMsg = NoMsg /\ reports # <<>>
  /\ reports' = Tail(reports)
  /\ \/ r.err = "none" /\ markBrokerAvailable
     \/ r.err = "unavailable" /\ markBrokerUnavailable
     \/ r.err = "other" /\ UNCHANGED circuit
  /\ delivMsg' = IF r.err = "none" THEN NoMsg ELSE r.msg
  /\ UNCHANGED <<mainVars, shard, queue, runVars, inflight, log, fileVars, budget, history>>

SpoolFailedDelivery ==
  /\ delivMsg # NoMsg
  /\ spoolMessage(delivMsg)
  /\ delivMsg' = NoMsg
  /\ UNCHANGED <<mainVars, shard, queue, runVars, circuit, clientVars>>

(* mutant: only a successful delivery closes the circuit *)
CircuitExpire_Never == FALSE

(* time.Now() passes brokerDownUntil *)
CircuitExpire ==
  /\ Running /\ circuit
  /\ circuit' = FALSE
  /\ UNCHANGED <<mainVars, shard, queue, runVars, clientVars, delivMsg, fileVars, budget, history>>

-----------------------------------------------------------------------------
(* main: shutdown, crash and restart *)

MainStep(from, to) ==
  /\ phase = from /\ phase' = to
  /\ UNCHANGED <<cfg, sent, queue, runVars, circuit, clientVars, delivMsg, fileVars, budget, history>>

Signal == MayStop /\ MainStep("up", "stopping") /\ UNCHANGED shard

(* rd.Read returns ErrClosed *)
ShardExit(s) ==
  /\ shard[s].pc = "idle"
  /\ MainStep("stopping", "stopping")
  /\ ShardAt(s, "exited", NoMsg)

(* mutant: main does not wait for the shards *)
WaitDone_NoWait == MainStep("stopping", "flush") /\ UNCHANGED shard

(* wg.Wait returns: every shard goroutine is gone *)
WaitDone ==
  /\ \A s \in Shards : shard[s].pc = "exited"
  /\ MainStep("stopping", "flush")
  /\ UNCHANGED shard

(* mutant: Flush without a timeout *)
FlushReturn_NoTimeout ==
  /\ inflight = <<>> /\ reports = <<>>
  /\ MainStep("flush", "closing")
  /\ UNCHANGED shard

(* p.Flush, after it the deferred queuedProducer.close() *)
FlushReturn ==
  /\ (inflight = <<>> /\ reports = <<>>) \/ FlushMayTimeout
  /\ MainStep("flush", "closing")
  /\ UNCHANGED shard

ReportedFailures == {m \in Msg : \E r \in Elems(reports) : r.msg = m /\ r.err # "none"}

ShardHeld  == {shard[s].msg : s \in Shards}
ClientHeld == {r.msg : r \in Elems(inflight)}

(* the events that exist only in this process *)
InMemory ==
  ShardHeld \cup {runMsg, delivMsg} \cup Elems(queue) \cup Elems(batch) \cup Elems(retained)
    \cup ClientHeld \cup ReportedFailures

ProcessEnds(to) ==
  /\ phase' = to
  /\ stranded' = stranded \cup (InMemory \ {NoMsg})
  /\ shard' = [s \in Shards |-> [pc |-> "idle", msg |-> NoMsg]]
  /\ queue' = <<>>
  /\ runMsg' = NoMsg /\ batch' = <<>> /\ retained' = <<>>
  /\ inflight' = <<>> /\ reports' = <<>> /\ delivMsg' = NoMsg
  /\ run' = "done" /\ back' = "select" /\ circuit' = FALSE
  /\ UNCHANGED <<cfg, sent, log, counted, merged, detoured, ackLost>>

(* close() has returned and the deferred p.Close() drops what is left *)
Exit ==
  /\ phase = "closing" /\ run = "done"
  /\ ProcessEnds("exited")
  /\ UNCHANGED <<fileVars, budget, wiped>>

WritingSpool ==
  /\ cfg.spool
  /\ \/ \E s \in Shards : shard[s].pc = "spool"
     \/ run = "spool" \/ delivMsg # NoMsg
     \/ run = "replay" /\ batch = <<>> /\ retained # <<>>

(* the process is killed, possibly in the middle of a spool write *)
Crash ==
  /\ phase \notin {"exited", "crashed"} /\ budget.crash > 0
  /\ budget' = [budget EXCEPT !.crash = @ - 1]
  /\ ProcessEnds("crashed")
  /\ \/ UNCHANGED <<fileVars, wiped>>
     \/ /\ WritingSpool
        /\ spool' = KeptRecords /\ junk' = KeptJunk /\ torn' \in {KeptTorn, TRUE}
        /\ wiped' = wiped \cup Erased

(* newQueuedProducer of the next process *)
Restart ==
  /\ phase = "crashed"
  /\ phase' = "start"
  /\ run' = "replay"
  /\ IF cfg.spool THEN drainAll ELSE UNCHANGED <<batch, fileVars>>
  /\ UNCHANGED <<cfg, sent, shard, queue, back, runMsg, retained, circuit, clientVars,
                 delivMsg, budget, history>>

-----------------------------------------------------------------------------
ShardStep(s) ==
  \/ Submit(s) \/ SubmitBlocked(s) \/ SubmitEvict(s) \/ SubmitResend(s)
  \/ SubmitSpool(s) \/ ShardExit(s)

RunStep ==
  \/ RunDequeue \/ RunProduce \/ RunSpool \/ RunStop
  \/ ReplayTick \/ ReplayEnqueue \/ ReplayRetain \/ ReplayDone
  \/ DrainTake \/ DrainTimeout \/ DrainRest \/ DrainDone

ClientStep ==
  \/ Deliver
  \/ \E err \in Err \ {"none"}, stored \in BOOLEAN : DeliverFail(err, stored)
  \/ \E err \in Err \ {"none"} : ClientError(err)

Next ==
  \/ \E s \in Shards : ShardStep(s)
  \/ RunStep
  \/ PublishMetrics
  \/ ClientStep
  \/ TakeReport \/ SpoolFailedDelivery \/ CircuitExpire
  \/ Signal \/ WaitDone \/ FlushReturn \/ Exit
  \/ Crash \/ Restart

Spec == Init /\ [][Next]_vars

-----------------------------------------------------------------------------
(* Properties *)

Sent(m)     == m[2] <= sent[m[1]]
OnDisk      == Elems(spool)
Delivered   == {r.msg : r \in Elems(log)}

(* Every published event is held by the agent, in the spool, at the         *)
(* brokers, or was lost in one of four named ways: a counted drop, the      *)
(* spool's size limit, an append to a torn line, the end of the process.    *)
Accounted ==
  InMemory \cup OnDisk \cup Delivered \cup counted \cup wiped \cup merged \cup stranded

NoSilentLoss == \A m \in Msg : Sent(m) => m \in Accounted

fate ==
  [m \in Msg |-> CASE m \in Delivered -> "stored"
                   [] m \in InMemory \ Delivered -> "held"
                   [] m \in OnDisk \ (InMemory \cup Delivered) -> "kept"
                   [] m \notin InMemory \cup OnDisk \cup Delivered /\ Sent(m) -> "lost"
                   [] OTHER -> "new"]

Promise == INSTANCE Delivery WITH Item <- Msg, declared <- counted \cup wiped \cup merged \cup stranded

(* The agent's delivery path implements Delivery: an event is lost only     *)
(* with a named cause, what was lost or erased never comes back from the    *)
(* spool, and what the brokers stored stays stored, across replays, failed  *)
(* deliveries, crashes and restarts.                                        *)
ProducerKeepsPromise == Promise!Spec

Places(m) ==
  {<<"shard", s>> : s \in {t \in Shards : shard[t].msg = m}}
    \cup {<<"queue", i>> : i \in {j \in DOMAIN queue : queue[j] = m}}
    \cup {<<"batch", i>> : i \in {j \in DOMAIN batch : batch[j] = m}}
    \cup {<<"retained", i>> : i \in {j \in DOMAIN retained : retained[j] = m}}
    \cup {<<"inflight", i>> : i \in {j \in DOMAIN inflight : inflight[j].msg = m}}
    \cup {<<"reports", i>> : i \in {j \in DOMAIN reports :
                                       reports[j].msg = m /\ reports[j].err # "none"}}
    \cup {<<"spool", i>> : i \in {j \in DOMAIN spool : spool[j] = m}}
    \cup {<<"hand", h>> : h \in {g \in {"run", "report"} :
                                    m = IF g = "run" THEN runMsg ELSE delivMsg}}

Stored(m) == {i \in DOMAIN log : log[i].msg = m}

(* The spool, its replay and the retries never duplicate an event: it has   *)
(* one copy, in the agent or at the brokers, unless a broker stored it and  *)
(* the client reported a failure.  A crash in a replay does not change that.*)
OneCopy ==
  \A m \in Msg :
    /\ Cardinality(Places(m)) <= 1
    /\ m \notin ackLost => Cardinality(Places(m)) + Cardinality(Stored(m)) <= 1

(* Events of one shard that never went through the spool reach the brokers  *)
(* in the order in which the shard submitted them, whatever is dropped.     *)
UnspooledInOrder ==
  \A i, j \in DOMAIN log :
    /\ i < j
    /\ log[i].msg[1] = log[j].msg[1]
    /\ {log[i].msg, log[j].msg} \cap detoured = {}
    => log[i].msg[2] < log[j].msg[2]

(* When close() returns nobody can enqueue any more and nothing is left in  *)
(* the queue: wg.Wait comes before close(q.stop).                           *)
ClosedQueueIsEmpty ==
  run = "done" => queue = <<>> /\ \A s \in Shards : shard[s].msg = NoMsg

(* The next three are claims of the repository that the code does not keep; *)
(* README.md says which constants refute them.                              *)

(* Exceeding a limit loses events only with a counter to show for it.       *)
EventLossIsCounted ==
  \A m \in Msg : Sent(m) => m \in InMemory \cup OnDisk \cup Delivered \cup counted

(* An orderly shutdown with healthy brokers leaves no event behind in the   *)
(* Kafka client: the producer is flushed first.                             *)
FlushedBeforeExit ==
  [][phase' = "exited" => inflight = <<>>]_vars

(* Metrics records are published to their own topic only. *)
MetricsHaveTheirTopic ==
  \A r \in Elems(log) : r.msg[1] = Metrics => r.topic = "metrics"

-----------------------------------------------------------------------------
(* Liveness.  Goroutines run; select chooses at random among what is ready, *)
(* so no ready case is passed over for ever; a blocked channel send is      *)
(* queued first in, first out.  Nothing makes the environment fail, and     *)
(* failures end (MaxFaults).                                                *)

ShardFairness(s) ==
  /\ SF_vars(SubmitBlocked(s))
  /\ WF_vars(SubmitEvict(s) \/ SubmitResend(s) \/ SubmitSpool(s))
  /\ WF_vars(ShardExit(s))

RunFairness ==
  /\ WF_vars(RunProduce \/ RunSpool \/ ReplayEnqueue \/ ReplayRetain \/ ReplayDone
               \/ DrainTake \/ DrainTimeout \/ DrainRest \/ DrainDone)
  /\ SF_vars(RunDequeue) /\ SF_vars(ReplayTick) /\ SF_vars(RunStop)

MainFairness ==
  /\ WF_vars(WaitDone) /\ WF_vars(FlushReturn) /\ WF_vars(Exit)
  /\ WF_vars(TakeReport) /\ WF_vars(SpoolFailedDelivery) /\ WF_vars(CircuitExpire)

AgentFairness == (\A s \in Shards : ShardFairness(s)) /\ RunFairness /\ MainFairness

(* The agent alone: the brokers may be down for ever. *)
AgentSpec == Spec /\ AgentFairness

(* The brokers come back: what the client holds is delivered in the end. *)
BrokersReturn == WF_vars(Deliver)

(* When the brokers come back every event reaches them; drop-oldest gives   *)
(* up the ones it evicts, and counts them; a failed write of the spool      *)
(* takes its own event and the next one, which is appended to a torn line;  *)
(* a shutdown may cut this short.                                           *)
EventuallyDelivered ==
  BrokersReturn =>
    \A m \in Msg :
      Sent(m) ~> \/ m \in Delivered
                 \/ phase = "exited"
                 \/ /\ m \in counted \ (InMemory \cup OnDisk)
                    /\ cfg.mode = "drop-oldest" \/ budget.disk < MaxDiskFaults
                 \/ m \in merged

(* /readyz: 503 while the queue is full, the spool has bytes or the circuit *)
(* is open.                                                                 *)
Ready == QueueHasRoom /\ spool = <<>> /\ junk = 0 /\ ~torn /\ ~circuit

(* all the spool file holds is what a failed write left: no replay reads it *)
(* or truncates it                                                          *)
OnlyUnreadable == spool = <<>> /\ (junk > 0 \/ torn) /\ QueueHasRoom /\ ~circuit

(* When the brokers come back readiness returns, with an empty spool, and   *)
(* stays until the process ends.  The exception: a failed write left an     *)
(* unreadable line, and /readyz reports 503 with nothing left to replay.    *)
ReadinessReturns == BrokersReturn => <>[](Ready \/ OnlyUnreadable \/ phase = "exited")

(* A shutdown never hangs: no shard stays blocked on a full queue, whatever *)
(* the brokers do.                                                          *)
ShutdownCompletes == phase = "stopping" ~> phase = "exited"

=============================================================================
