-------------------------- MODULE ConversationSink --------------------------
(***************************************************************************)
(* The worker's output side: parseConfig's checks of the output options    *)
(* (cmd/worker/config.go), the HTTP and the Kafka conversation sink with   *)
(* their retries, timeouts and dead letters (cmd/worker/sink.go), the two  *)
(* goroutines that call emitConversation (cmd/worker/output.go), and the   *)
(* end of main (cmd/worker/main.go).  The combined binary's HTTP sink      *)
(* (cmd/karaxys-capture/sink.go) is the same code.                         *)
(*                                                                         *)
(* One step is one HTTP exchange, one call of the Kafka client, one        *)
(* delivery report or one dead-letter write; the goroutines interleave     *)
(* between them.  The backoff sleep only lets time pass.  The backend, the *)
(* brokers and the disk answer as they like.                               *)
(***************************************************************************)
EXTENDS Naturals, FiniteSets

CONSTANTS
  Conv,        \* conversations
  NoConv,      \* "holding none"
  MaxRetries,  \* -http-max-retries
  Configs,     \* the command lines under study
  MaxFaults    \* bound: failures of the Kafka client, the brokers and the disk

ASSUME SinkAssumption == NoConv \notin Conv /\ MaxRetries \in Nat /\ MaxFaults \in Nat

Emitter == {"consumer", "cleanup"}

(* A URL is absent, not an absolute http(s) URL, a base URL, or one that    *)
(* ends in /v1/ingest/conversations.                                        *)
Url      == {"", "bad", "base", "full"}
Contract == {"normalized", "legacy", "both"}

CommandLine ==
  [outputSink : {"stdout", "http", "kafka", "other"}, outputContract : Contract,
   ingestURL : Url, accountToken : {"", "account"},
   backendURL : Url, agentToken : {"", "agent"},
   outputTopic : {"", "topic"}, deadLetterFile : BOOLEAN]

ASSUME ConfigsAssumption == Configs \subseteq CommandLine

(* What the backend answers.  "none" stands for every transport error, the  *)
(* client's timeout among them; "404" for every status that is not retried. *)
Reply == {"200", "202", "404", "429", "503", "none"}

VARIABLES
  cfg,       \* the command line
  phase,     \* where main() is
  endpoint,  \* the HTTP sink's endpoint and token
  em,        \* where each emitting goroutine is in Emit
  queued,    \* messages inside the Kafka client
  stored,    \* how often the destination has stored each conversation
  letters,   \* readable lines of the dead-letter file
  torn,      \* the file's last line has no newline
  faults     \* failures still to come

VARIABLES
  given,     \* history: conversations handed to emitConversation
  unacked,   \* history: times a conversation was stored without a word of it
  unsaved,   \* history: given up without a dead letter, and logged
  merged,    \* history: dead letters appended to a torn line
  stranded   \* history: in memory when the process ended

history == <<given, unacked, unsaved, merged, stranded>>

vars == <<cfg, phase, endpoint, em, queued, stored, letters, torn, faults, history>>

Idle == [pc |-> "idle", conv |-> NoConv, attempt |-> 0, report |-> "none"]

EmitterState ==
  [pc : {"idle", "post", "wait", "dead"}, conv : Conv \cup {NoConv},
   attempt : 0 .. MaxRetries, report : {"none", "ok", "error"}]

NoEndpoint == [url |-> "", mode |-> "", token |-> ""]

(* The variables have their types; Emit never starts more than maxRetries   *)
(* attempts after the first.                                                *)
TypeOK ==
  /\ cfg \in Configs /\ phase \in {"start", "up", "closing", "closed", "exited", "fatal"}
  /\ endpoint \in [url : Url, mode : {"", "new", "legacy"}, token : {"", "account", "agent"}]
  /\ em \in [Emitter -> EmitterState]
  /\ queued \subseteq Conv /\ letters \subseteq Conv /\ torn \in BOOLEAN
  /\ stored \in [Conv -> Nat] /\ unacked \in [Conv -> Nat] /\ faults \in 0 .. MaxFaults
  /\ given \subseteq Conv /\ unsaved \subseteq Conv /\ merged \subseteq Conv /\ stranded \subseteq Conv

Init ==
  /\ cfg \in Configs /\ phase = "start" /\ endpoint = NoEndpoint
  /\ em = [g \in Emitter |-> Idle] /\ queued = {}
  /\ stored = [c \in Conv |-> 0] /\ unacked = [c \in Conv |-> 0]
  /\ letters = {} /\ torn = FALSE /\ faults = MaxFaults
  /\ given = {} /\ unsaved = {} /\ merged = {} /\ stranded = {}

-----------------------------------------------------------------------------
(* parseConfig and newConversationSink *)

absolute(url) == url \in {"base", "full"}

(* mutant: a token without its URL, or a URL without its token, is let through *)
validNewMode_EitherPart(c) == c.ingestURL # "" => absolute(c.ingestURL)

validNewMode(c) == absolute(c.ingestURL) /\ c.accountToken # ""

validLegacyMode(c) == absolute(c.backendURL) /\ c.agentToken # ""

usingNewMode(c) == c.ingestURL # "" \/ c.accountToken # ""

(* whether parseConfig returns rather than ends in log.Fatalf *)
parseConfig(c) ==
  /\ c.outputSink \in {"stdout", "http", "kafka"}
  /\ c.outputSink = "http" =>
       /\ c.outputContract = "normalized"
       /\ IF usingNewMode(c) THEN validNewMode(c) ELSE validLegacyMode(c)
  /\ c.outputSink = "kafka" => c.outputTopic # ""

backendIngestEndpoint(url) == IF absolute(url) THEN "full" ELSE url

resolveHTTPSinkAuth(c) ==
  IF c.ingestURL # "" /\ c.accountToken # ""
    THEN [url |-> c.ingestURL, mode |-> "new", token |-> c.accountToken]
    ELSE [url |-> backendIngestEndpoint(c.backendURL), mode |-> "legacy", token |-> c.agentToken]

(* newConversationSink; kafka.NewProducer may fail. *)
Start ==
  /\ phase = "start"
  /\ \/ /\ parseConfig(cfg)
        /\ phase' = "up"
        /\ endpoint' = IF cfg.outputSink = "http" THEN resolveHTTPSinkAuth(cfg) ELSE NoEndpoint
        /\ UNCHANGED faults
     \/ /\ ~parseConfig(cfg)
        /\ phase' = "fatal" /\ UNCHANGED <<endpoint, faults>>
     \/ /\ parseConfig(cfg) /\ cfg.outputSink = "kafka" /\ faults > 0
        /\ faults' = faults - 1
        /\ phase' = "fatal" /\ UNCHANGED endpoint
  /\ UNCHANGED <<cfg, em, queued, stored, letters, torn, history>>

-----------------------------------------------------------------------------
(* emitConversation and the two sinks' Emit *)

Alive == phase \in {"up", "closing", "closed"}

At(g, pc) == Alive /\ em[g].pc = pc

(* the consumer polls until it sees the signal; the cleanup goroutine may   *)
(* be inside cleanupExpired, or take its ticker, after stopCh is closed     *)
MayEmit(g) == At(g, "idle") /\ (g = "consumer" => phase = "up")

Goto(g, pc) == em' = [em EXCEPT ![g].pc = pc]
Return(g)   == em' = [em EXCEPT ![g] = Idle]

Begin(g, c, pc) == em' = [em EXCEPT ![g] = [pc |-> pc, conv |-> c, attempt |-> 0, report |-> "none"]]

(* no sink: the conversation is printed *)
EmitStdout(g, c) ==
  /\ cfg.outputSink = "stdout" /\ MayEmit(g) /\ c \notin given
  /\ given' = given \cup {c}
  /\ stored' = [stored EXCEPT ![c] = @ + 1]
  /\ UNCHANGED <<cfg, phase, endpoint, em, queued, letters, torn, faults, unacked, unsaved, merged, stranded>>

EmitHTTP(g, c) ==
  /\ cfg.outputSink = "http" /\ MayEmit(g) /\ c \notin given
  /\ given' = given \cup {c}
  /\ Begin(g, c, "post")
  /\ UNCHANGED <<cfg, phase, endpoint, queued, stored, letters, torn, faults, unacked, unsaved, merged, stranded>>

(* Produce queues the message or fails: local queue full, client closed. *)
EmitKafka(g, c) ==
  /\ cfg.outputSink = "kafka" /\ MayEmit(g) /\ c \notin given
  /\ given' = given \cup {c}
  /\ \/ /\ phase # "closed"
        /\ queued' = queued \cup {c}
        /\ Begin(g, c, "wait")
        /\ UNCHANGED faults
     \/ /\ phase = "closed"
        /\ Begin(g, c, "dead")
        /\ UNCHANGED <<queued, faults>>
     \/ /\ phase # "closed" /\ faults > 0
        /\ faults' = faults - 1
        /\ Begin(g, c, "dead")
        /\ UNCHANGED queued
  /\ UNCHANGED <<cfg, phase, endpoint, stored, letters, torn, unacked, unsaved, merged, stranded>>

(* mutant: only 200 counts as success *)
accepted_Only200(r) == r = "200"

accepted(r) == r \in {"200", "202"}

retryableSinkError(r) == r \in {"429", "503", "none"}

(* mutant: one attempt too many *)
MayRetry_OneMore(g) == em[g].attempt <= MaxRetries

MayRetry(g) == em[g].attempt < MaxRetries

(* external: an answer of success means it was stored; a 503 or silence     *)
(* may come after it was                                                    *)
BackendMay(r, isStored) ==
  /\ r \in {"200", "202"} => isStored
  /\ r \in {"404", "429"} => ~isStored

(* mutant: the loop goes on after a success *)
AfterPost_KeepsGoing(g, r) ==
  \/ MayRetry(g) /\ em' = [em EXCEPT ![g].attempt = @ + 1]
  \/ ~MayRetry(g) /\ (IF accepted(r) THEN Return(g) ELSE Goto(g, "dead"))

(* what the loop of Emit does with the outcome of post *)
AfterPost(g, r) ==
  \/ accepted(r) /\ Return(g)
  \/ /\ ~accepted(r) /\ retryableSinkError(r) /\ MayRetry(g)
     /\ em' = [em EXCEPT ![g].attempt = @ + 1]
  \/ ~accepted(r) /\ ~(retryableSinkError(r) /\ MayRetry(g)) /\ Goto(g, "dead")

(* post: one exchange with the backend *)
Post(g, r, isStored) ==
  LET c == em[g].conv IN
  /\ At(g, "post") /\ BackendMay(r, isStored)
  /\ stored' = IF isStored THEN [stored EXCEPT ![c] = @ + 1] ELSE stored
  /\ unacked' = IF isStored /\ r \notin {"200", "202"} THEN [unacked EXCEPT ![c] = @ + 1] ELSE unacked
  /\ AfterPost(g, r)
  /\ UNCHANGED <<cfg, phase, endpoint, queued, letters, torn, faults, given, unsaved, merged, stranded>>

(* The delivery channel belongs to one call of Emit: a report that comes    *)
(* after the timeout is read by nobody.                                     *)
Reported(c, report) ==
  em' = [g \in Emitter |->
           IF em[g].pc = "wait" /\ em[g].conv = c THEN [em[g] EXCEPT !.report = report] ELSE em[g]]

(* external: the brokers store a message and the client reports it *)
BrokerStores(c) ==
  /\ phase \in {"up", "closing"} /\ c \in queued
  /\ queued' = queued \ {c}
  /\ stored' = [stored EXCEPT ![c] = @ + 1]
  /\ unacked' = IF \E g \in Emitter : em[g].conv = c /\ em[g].pc = "wait"
                  THEN unacked ELSE [unacked EXCEPT ![c] = @ + 1]
  /\ Reported(c, "ok")
  /\ UNCHANGED <<cfg, phase, endpoint, letters, torn, faults, given, unsaved, merged, stranded>>

(* external: the client gives a message up, stored or not *)
BrokerFails(c, isStored) ==
  /\ phase \in {"up", "closing"} /\ c \in queued /\ faults > 0
  /\ faults' = faults - 1
  /\ queued' = queued \ {c}
  /\ stored' = IF isStored THEN [stored EXCEPT ![c] = @ + 1] ELSE stored
  /\ unacked' = IF isStored THEN [unacked EXCEPT ![c] = @ + 1] ELSE unacked
  /\ Reported(c, "error")
  /\ UNCHANGED <<cfg, phase, endpoint, letters, torn, given, unsaved, merged, stranded>>

(* mutant: the report's TopicPartition.Error is not looked at *)
DeliveryReport_Trusts(g) ==
  /\ At(g, "wait") /\ em[g].report # "none"
  /\ Return(g)
  /\ UNCHANGED <<cfg, phase, endpoint, queued, stored, letters, torn, faults, history>>

(* select: case event := <-delivery *)
DeliveryReport(g) ==
  /\ At(g, "wait") /\ em[g].report # "none"
  /\ IF em[g].report = "ok" THEN Return(g) ELSE Goto(g, "dead")
  /\ UNCHANGED <<cfg, phase, endpoint, queued, stored, letters, torn, faults, history>>

(* mutant: no timeout case in the select *)
DeliveryTimeout_Never(g) == FALSE

(* select: case <-time.After(s.timeout); a report that is ready as well may *)
(* lose the choice                                                          *)
DeliveryTimeout(g) ==
  /\ At(g, "wait")
  /\ Goto(g, "dead")
  /\ unacked' = IF em[g].report = "ok" THEN [unacked EXCEPT ![em[g].conv] = @ + 1] ELSE unacked
  /\ UNCHANGED <<cfg, phase, endpoint, queued, stored, letters, torn, faults, given, unsaved, merged, stranded>>

(* writeDeadLetter, the return of Emit's error and its log line.  A write   *)
(* may fail before or after a part of the line reached the file.            *)
WriteDeadLetter(g) ==
  LET c == em[g].conv IN
  /\ At(g, "dead")
  /\ Return(g)
  /\ \/ /\ ~cfg.deadLetterFile
        /\ unsaved' = unsaved \cup {c}
        /\ UNCHANGED <<letters, torn, merged, faults>>
     \/ /\ cfg.deadLetterFile /\ ~torn
        /\ letters' = letters \cup {c}
        /\ UNCHANGED <<torn, merged, unsaved, faults>>
     \/ /\ cfg.deadLetterFile /\ torn
        /\ torn' = FALSE /\ merged' = merged \cup {c}
        /\ UNCHANGED <<letters, unsaved, faults>>
     \/ /\ cfg.deadLetterFile /\ faults > 0
        /\ faults' = faults - 1
        /\ torn' \in {torn, TRUE} /\ unsaved' = unsaved \cup {c}
        /\ UNCHANGED <<letters, merged>>
  /\ UNCHANGED <<cfg, phase, endpoint, queued, stored, given, unacked, stranded>>

-----------------------------------------------------------------------------
(* main: the signal is seen between two polls; stopCh and the consumer are  *)
(* closed; the cleanup goroutine is not waited for                          *)
Signal ==
  /\ phase = "up" /\ em["consumer"].pc = "idle"
  /\ phase' = "closing"
  /\ UNCHANGED <<cfg, endpoint, em, queued, stored, letters, torn, faults, history>>

(* sink.Close: Flush(5000) gives up in the end; Close drops what is left *)
CloseSink ==
  /\ phase = "closing"
  /\ phase' = "closed"
  /\ queued' = {}
  /\ stranded' = stranded \cup queued
  /\ UNCHANGED <<cfg, endpoint, em, stored, letters, torn, faults, given, unacked, unsaved, merged>>

Exit ==
  /\ phase = "closed"
  /\ phase' = "exited"
  /\ stranded' = stranded \cup ({em[g].conv : g \in Emitter} \ {NoConv})
  /\ em' = [g \in Emitter |-> Idle]
  /\ UNCHANGED <<cfg, endpoint, queued, stored, letters, torn, faults, given, unacked, unsaved, merged>>

Emit(g) ==
  \/ \E r \in Reply, isStored \in BOOLEAN : Post(g, r, isStored)
  \/ DeliveryReport(g) \/ DeliveryTimeout(g) \/ WriteDeadLetter(g)

Next ==
  \/ Start \/ Signal \/ CloseSink \/ Exit
  \/ \E g \in Emitter :
       \/ \E c \in Conv : EmitStdout(g, c) \/ EmitHTTP(g, c) \/ EmitKafka(g, c)
       \/ Emit(g)
  \/ \E c \in Conv : BrokerStores(c) \/ \E isStored \in BOOLEAN : BrokerFails(c, isStored)

(* Goroutines run, http.Client and the select time out, Flush returns; the  *)
(* backend and the brokers owe nothing.                                     *)
Fairness ==
  /\ \A g \in Emitter : WF_vars(Emit(g))
  /\ WF_vars(CloseSink) /\ WF_vars(Exit)

Spec == Init /\ [][Next]_vars /\ Fairness

-----------------------------------------------------------------------------
(* Properties *)

(* What parseConfig accepts, resolveHTTPSinkAuth can use: the HTTP sink has *)
(* an absolute URL and a token, both of the same mode, the account mode     *)
(* whenever any part of it was set; and the backend gets only normalized    *)
(* conversations.                                                           *)
EndpointIsConfigured ==
  Alive /\ cfg.outputSink = "http" =>
    /\ cfg.outputContract = "normalized"
    /\ absolute(endpoint.url)
    /\ endpoint.mode = "new" <=> usingNewMode(cfg)
    /\ endpoint.token = IF endpoint.mode = "new" THEN "account" ELSE "agent"

(* A conversation is stored twice only after an attempt that stored it      *)
(* without the worker learning of it: an acknowledged one is never repeated.*)
RepeatsAreUnacknowledged == \A c \in Conv : stored[c] <= 1 + unacked[c]

(* A dead letter of a conversation that did arrive means that its           *)
(* acknowledgement was lost or came after the timeout.                      *)
DeadLettersUndelivered == \A c \in letters : stored[c] > 0 => unacked[c] > 0

(* What was acknowledged is final, neither sent again nor a dead letter,    *)
(* and Emit keeps to its number of attempts.                                *)
SinkInv == TypeOK /\ RepeatsAreUnacknowledged /\ DeadLettersUndelivered

Held == ({em[g].conv : g \in Emitter} \ {NoConv}) \cup queued

fate ==
  [c \in Conv |-> CASE stored[c] > 0 -> "stored"
                    [] stored[c] = 0 /\ c \in Held -> "held"
                    [] stored[c] = 0 /\ c \notin Held /\ c \in letters -> "kept"
                    [] stored[c] = 0 /\ c \notin Held \cup letters /\ c \in given -> "lost"
                    [] OTHER -> "new"]

Promise == INSTANCE Delivery WITH Item <- Conv, declared <- unsaved \cup merged \cup stranded

(* The sink implements Delivery: a conversation that was given to it and    *)
(* did not arrive is a readable dead letter unless the dead letter was not  *)
(* written (and that was logged), was appended to a torn line, or the       *)
(* process ended; and nothing that arrived or was given up changes again.   *)
SinkKeepsPromise == Promise!Spec

(* Emit returns whatever the backend and the brokers do, and a shutdown     *)
(* ends, even with messages stuck in the Kafka client.                      *)
SinkNeverHangs ==
  /\ \A g \in Emitter : em[g].pc # "idle" ~> em[g].pc = "idle"
  /\ phase = "closing" ~> phase = "exited"

=============================================================================
