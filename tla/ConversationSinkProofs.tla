----------------------- MODULE ConversationSinkProofs -----------------------
(***************************************************************************)
(* Proofs about ConversationSink for any set of conversations, number of   *)
(* retries, command lines and number of faults: what was acknowledged is   *)
(* final, the HTTP sink is configured as a whole, and the sink implements  *)
(* Delivery.                                                               *)
(***************************************************************************)
EXTENDS ConversationSink, TLAPS

(* An emitting goroutine has a conversation in hand exactly while it is in  *)
(* Emit.                                                                    *)
Hands == \A g \in Emitter : em[g].pc = "idle" <=> em[g].conv = NoConv

(* emitConversation is called once for each conversation: what is anywhere  *)
(* was given, and what was not given was not stored.                        *)
GivenFirst ==
  /\ \A g \in Emitter : em[g].conv # NoConv => em[g].conv \in given
  /\ queued \subseteq given /\ letters \subseteq given
  /\ \A c \in Conv : c \notin given => stored[c] = 0

(* The goroutines hold different conversations and no dead letter; a        *)
(* conversation inside the Kafka client is not being posted, and it has not *)
(* been stored.                                                             *)
Apart ==
  /\ \A g, h \in Emitter : em[g].conv = em[h].conv => g = h \/ em[g].conv = NoConv
  /\ \A g \in Emitter : em[g].conv \notin letters
  /\ \A g \in Emitter : em[g].pc = "post" => em[g].conv \notin queued
  /\ \A c \in queued : stored[c] = 0

(* While Emit may still repeat a conversation or give it up, and once it is *)
(* a dead letter, each time it was stored went without an acknowledgement.  *)
Unacknowledged ==
  /\ \A g \in Emitter :
       em[g].pc \in {"post", "dead"} \/ (em[g].pc = "wait" /\ em[g].report # "ok") =>
         stored[em[g].conv] <= unacked[em[g].conv]
  /\ \A c \in letters : stored[c] <= unacked[c]

(* A delivery report without an error means that the message was stored.    *)
ReportsAreTrue ==
  \A g \in Emitter : em[g].pc = "wait" /\ em[g].report = "ok" => stored[em[g].conv] > 0

(* A conversation that was given is stored, in a goroutine's hands, a dead  *)
(* letter, or lost for a reason; the Kafka client alone does not count.     *)
Accounted ==
  \A c \in given : \/ stored[c] > 0
                   \/ \E g \in Emitter : em[g].conv = c
                   \/ c \in letters \cup unsaved \cup merged \cup stranded

(* The inductive invariant. *)
IInv ==
  /\ TypeOK /\ Hands /\ GivenFirst /\ Apart
  /\ RepeatsAreUnacknowledged /\ Unacknowledged /\ ReportsAreTrue /\ Accounted

-----------------------------------------------------------------------------
(* Effects of the helpers *)

LEMMA EmitterTypes ==
  ASSUME TypeOK, NEW g \in Emitter
  PROVE  /\ em[g] \in EmitterState
         /\ em[g].pc \in {"idle", "post", "wait", "dead"} /\ em[g].conv \in Conv \cup {NoConv}
         /\ em[g].attempt \in 0 .. MaxRetries /\ em[g].report \in {"none", "ok", "error"}
  BY DEF TypeOK, EmitterState

LEMMA Types ==
  ASSUME TypeOK
  PROVE  /\ \A c \in Conv : stored[c] \in Nat /\ unacked[c] \in Nat
         /\ \A g \in Emitter : em[g].conv \in Conv \cup {NoConv}
         /\ stored \in [Conv -> Nat] /\ unacked \in [Conv -> Nat] /\ faults \in 0 .. MaxFaults
         /\ given \subseteq Conv /\ queued \subseteq Conv /\ letters \subseteq Conv
  BY EmitterTypes DEF TypeOK

LEMMA Increment ==
  ASSUME NEW S, NEW f \in [S -> Nat], NEW c \in S
  PROVE  /\ [f EXCEPT ![c] = @ + 1] \in [S -> Nat]
         /\ [f EXCEPT ![c] = @ + 1][c] = f[c] + 1
         /\ \A d \in S \ {c} : [f EXCEPT ![c] = @ + 1][d] = f[d]
  OBVIOUS

LEMMA IdleType == Idle \in EmitterState /\ Idle.pc = "idle" /\ Idle.conv = NoConv /\ Idle.report = "none"
  <1>1. 0 \in 0 .. MaxRetries
    BY SinkAssumption
  <1> QED
    BY <1>1 DEF Idle, EmitterState

LEMMA ReturnEffect ==
  ASSUME TypeOK, NEW g \in Emitter, Return(g)
  PROVE  /\ em' \in [Emitter -> EmitterState]
         /\ em'[g].pc = "idle" /\ em'[g].conv = NoConv
         /\ \A h \in Emitter \ {g} : em'[h] = em[h]
  BY IdleType DEF TypeOK, Return

LEMMA BeginEffect ==
  ASSUME TypeOK, NEW g \in Emitter, NEW c \in Conv, NEW pc \in {"post", "wait", "dead"}, Begin(g, c, pc)
  PROVE  /\ em' \in [Emitter -> EmitterState]
         /\ em'[g].pc = pc /\ em'[g].conv = c /\ em'[g].report = "none"
         /\ \A h \in Emitter \ {g} : em'[h] = em[h]
  <1> DEFINE begun == [pc |-> pc, conv |-> c, attempt |-> 0, report |-> "none"]
  <1>1. begun \in EmitterState /\ begun.pc = pc /\ begun.conv = c /\ begun.report = "none"
    <2>1. 0 \in 0 .. MaxRetries
      BY SinkAssumption
    <2> QED
      BY <2>1 DEF EmitterState
  <1>2. em' = [em EXCEPT ![g] = begun]
    BY DEF Begin
  <1> HIDE DEF begun
  <1> QED
    BY <1>1, <1>2 DEF TypeOK

LEMMA GotoEffect ==
  ASSUME TypeOK, NEW g \in Emitter, NEW pc \in {"post", "wait", "dead"}, Goto(g, pc)
  PROVE  /\ em' \in [Emitter -> EmitterState]
         /\ em'[g].pc = pc /\ em'[g].conv = em[g].conv /\ em'[g].report = em[g].report
         /\ \A h \in Emitter \ {g} : em'[h] = em[h]
  BY EmitterTypes DEF TypeOK, EmitterState, Goto

LEMMA ReportedEffect ==
  ASSUME TypeOK, NEW c \in Conv, NEW r \in {"ok", "error"}, Reported(c, r)
  PROVE  /\ em' \in [Emitter -> EmitterState]
         /\ \A g \in Emitter : /\ em'[g].pc = em[g].pc /\ em'[g].conv = em[g].conv
                               /\ em[g].pc = "wait" /\ em[g].conv = c => em'[g].report = r
                               /\ ~(em[g].pc = "wait" /\ em[g].conv = c) => em'[g] = em[g]
  <1>1. em' = [g \in Emitter |-> IF em[g].pc = "wait" /\ em[g].conv = c THEN [em[g] EXCEPT !.report = r] ELSE em[g]]
    BY DEF Reported
  <1>2. ASSUME NEW g \in Emitter
        PROVE  /\ em[g] \in EmitterState /\ [em[g] EXCEPT !.report = r] \in EmitterState
               /\ [em[g] EXCEPT !.report = r].pc = em[g].pc /\ [em[g] EXCEPT !.report = r].conv = em[g].conv
               /\ [em[g] EXCEPT !.report = r].report = r
    <2>1. em[g] \in EmitterState BY DEF TypeOK
    <2> QED BY <2>1 DEF EmitterState
  <1> QED BY <1>1, <1>2

-----------------------------------------------------------------------------
(* The invariant holds initially and every action preserves it *)

LEMMA InitIInv == Init => IInv
  <1> SUFFICES ASSUME Init
               PROVE  IInv
    OBVIOUS
  <1>1. MaxFaults \in 0 .. MaxFaults
    BY SinkAssumption
  <1>2. NoEndpoint \in [url : Url, mode : {"", "new", "legacy"}, token : {"", "account", "agent"}]
    BY DEF NoEndpoint, Url
  <1>3. TypeOK
    BY <1>1, <1>2, IdleType DEF Init, TypeOK
  <1>4. \A g \in Emitter : em[g] = Idle
    BY DEF Init
  <1>5. Hands /\ Apart /\ Unacknowledged /\ ReportsAreTrue
    <2>1. \A g \in Emitter : em[g].conv = NoConv /\ em[g].pc = "idle"
      BY <1>4, IdleType
    <2>2. letters = {} /\ queued = {}
      BY DEF Init
    <2>3. Hands /\ Apart
      BY <2>1, <2>2 DEF Hands, Apart
    <2> QED
      BY <2>1, <2>2, <2>3 DEF Unacknowledged, ReportsAreTrue
  <1>6. GivenFirst
    BY <1>4, IdleType DEF Init, GivenFirst
  <1>7. RepeatsAreUnacknowledged /\ Accounted
    BY DEF Init, RepeatsAreUnacknowledged, Accounted
  <1> QED
    BY <1>3, <1>5, <1>6, <1>7 DEF IInv

(* A step that leaves alone the goroutines, the client, the destination and *)
(* the files changes no part of the invariant but the types.                *)
LEMMA FrameIInv ==
  ASSUME IInv, TypeOK', UNCHANGED <<em, queued, stored, letters, given, unacked, unsaved, merged, stranded>>
  PROVE  IInv'
  BY DEF IInv, Hands, GivenFirst, Apart, RepeatsAreUnacknowledged, Unacknowledged, ReportsAreTrue, Accounted

LEMMA ResolveType ==
  ASSUME NEW c \in CommandLine
  PROVE  resolveHTTPSinkAuth(c) \in [url : Url, mode : {"", "new", "legacy"}, token : {"", "account", "agent"}]
  <1>1. c.ingestURL \in Url /\ c.backendURL \in Url /\ c.accountToken \in {"", "account"} /\ c.agentToken \in {"", "agent"}
    BY DEF CommandLine
  <1>2. backendIngestEndpoint(c.backendURL) \in Url
    BY <1>1 DEF backendIngestEndpoint, Url
  <1> QED
    BY <1>1, <1>2 DEF resolveHTTPSinkAuth

LEMMA StartIInv ==
  ASSUME IInv, Start
  PROVE  IInv'
  <1>1. TypeOK /\ cfg \in CommandLine
    BY ConfigsAssumption DEF IInv, TypeOK
  <1>2. NoEndpoint \in [url : Url, mode : {"", "new", "legacy"}, token : {"", "account", "agent"}]
    BY DEF NoEndpoint, Url
  <1>3. endpoint' \in [url : Url, mode : {"", "new", "legacy"}, token : {"", "account", "agent"}]
    BY <1>1, <1>2, ResolveType DEF TypeOK, Start
  <1>4. phase' \in {"up", "fatal"} /\ faults' \in 0 .. MaxFaults
    <2>1. phase' \in {"up", "fatal"} /\ (faults' = faults \/ (faults > 0 /\ faults' = faults - 1))
      BY DEF Start
    <2>2. faults \in 0 .. MaxFaults
      BY <1>1 DEF TypeOK
    <2> QED
      BY <2>1, <2>2, SinkAssumption
  <1>5. UNCHANGED <<cfg, em, queued, stored, letters, torn, given, unacked, unsaved, merged, stranded>>
    BY DEF Start, history
  <1>6. TypeOK'
    BY <1>1, <1>3, <1>4, <1>5 DEF TypeOK
  <1> QED
    BY <1>5, <1>6, FrameIInv

LEMMA EmitStdoutIInv ==
  ASSUME IInv, NEW g \in Emitter, NEW c \in Conv, EmitStdout(g, c)
  PROVE  IInv'
  <1>1. stored' \in [Conv -> Nat] /\ stored'[c] = stored[c] + 1 /\ \A d \in Conv \ {c} : stored'[d] = stored[d]
    <2>1. stored \in [Conv -> Nat] /\ stored' = [stored EXCEPT ![c] = @ + 1]
      BY DEF IInv, TypeOK, EmitStdout
    <2> QED
      BY <2>1, Increment
  <1>2. c \notin given /\ stored[c] = 0 /\ given' = given \cup {c}
    BY DEF IInv, GivenFirst, EmitStdout
  <1>3. UNCHANGED <<cfg, phase, endpoint, em, queued, letters, torn, faults, unacked, unsaved, merged, stranded>>
    BY DEF EmitStdout
  <1>4. /\ \A h \in Emitter : em[h].conv # c
        /\ c \notin queued /\ c \notin letters
    BY <1>2, SinkAssumption DEF IInv, GivenFirst
  <1>5. TypeOK /\ \A h \in Emitter : em[h].conv \in Conv \cup {NoConv}
    BY Types DEF IInv
  <1>6. \A d \in Conv : stored[d] \in Nat /\ unacked[d] \in Nat
    BY Types DEF IInv
  <1>7. given \subseteq Conv /\ queued \subseteq Conv /\ letters \subseteq Conv
    BY Types DEF IInv
  <1> USE <1>1, <1>2, <1>3, <1>4
  <1>8. TypeOK' BY <1>5 DEF TypeOK
  <1>9. Hands' /\ GivenFirst' BY <1>5 DEF IInv, Hands, GivenFirst
  <1>10. Apart' BY <1>5, <1>7 DEF IInv, Apart
  <1>11. RepeatsAreUnacknowledged' BY <1>6 DEF IInv, RepeatsAreUnacknowledged
  <1>12. Unacknowledged'
    <2>1. \A d \in letters : stored'[d] <= unacked'[d]
      BY <1>7 DEF IInv, Unacknowledged
    <2>2. \A h \in Emitter : em[h].conv # NoConv => stored'[em[h].conv] = stored[em[h].conv]
      BY <1>5
    <2> QED
      BY <2>1, <2>2 DEF IInv, Unacknowledged, Hands
  <1>13. ReportsAreTrue'
    <2>1. \A h \in Emitter : em[h].conv # NoConv => stored'[em[h].conv] = stored[em[h].conv]
      BY <1>5
    <2> QED
      BY <2>1 DEF IInv, ReportsAreTrue, Hands
  <1>14. Accounted' BY <1>6, <1>7 DEF IInv, Accounted
  <1> QED BY <1>8, <1>9, <1>10, <1>11, <1>12, <1>13, <1>14 DEF IInv

(* A goroutine takes a new conversation: into its loop of posts, into the   *)
(* Kafka client, or straight to the dead letters.                           *)
LEMMA BeginIInv ==
  ASSUME IInv, NEW g \in Emitter, NEW c \in Conv, NEW pc \in {"post", "wait", "dead"},
         em[g].pc = "idle", c \notin given, given' = given \cup {c}, Begin(g, c, pc),
         queued' = queued \/ (pc = "wait" /\ queued' = queued \cup {c}),
         faults' = faults \/ (faults > 0 /\ faults' = faults - 1),
         UNCHANGED <<cfg, phase, endpoint, stored, letters, torn, unacked, unsaved, merged, stranded>>
  PROVE  IInv'
  <1>1. /\ em' \in [Emitter -> EmitterState]
        /\ em'[g].pc = pc /\ em'[g].conv = c /\ em'[g].report = "none"
        /\ \A h \in Emitter \ {g} : em'[h] = em[h]
    BY BeginEffect DEF IInv
  <1>2. TypeOK /\ \A d \in Conv : stored[d] \in Nat /\ unacked[d] \in Nat
    BY Types DEF IInv
  <1>3. given \subseteq Conv /\ queued \subseteq Conv /\ letters \subseteq Conv
    BY Types DEF IInv
  <1>4. /\ \A h \in Emitter : em[h].conv # c
        /\ c \notin queued /\ c \notin letters /\ stored[c] = 0 /\ c # NoConv
    BY SinkAssumption DEF IInv, GivenFirst
  <1>5. em[g].conv = NoConv
    BY DEF IInv, Hands
  <1> USE <1>1, <1>4
  <1>6. faults' \in 0 .. MaxFaults BY Types, SinkAssumption DEF IInv
  <1>7. TypeOK' BY <1>2, <1>3, <1>6 DEF TypeOK
  <1>8. Hands' BY DEF IInv, Hands
  <1>9. GivenFirst' BY DEF IInv, GivenFirst
  <1>10. Apart'
    <2>1. \A h, k \in Emitter : em'[h].conv = em'[k].conv => h = k \/ em'[h].conv = NoConv
      BY DEF IInv, Apart
    <2>2. \A h \in Emitter : em'[h].conv \notin letters' BY DEF IInv, Apart
    <2>3. \A h \in Emitter : em'[h].pc = "post" => em'[h].conv \notin queued' BY DEF IInv, Apart
    <2>4. \A d \in queued' : stored'[d] = 0 BY DEF IInv, Apart
    <2> QED BY <2>1, <2>2, <2>3, <2>4 DEF Apart
  <1>11. RepeatsAreUnacknowledged' BY DEF IInv, RepeatsAreUnacknowledged
  <1>12. Unacknowledged' BY <1>2 DEF IInv, Unacknowledged
  <1>13. ReportsAreTrue' BY DEF IInv, ReportsAreTrue
  <1>14. Accounted'
    <2> SUFFICES ASSUME NEW d \in given'
                 PROVE  Accounted!(d)'
      BY DEF Accounted
    <2>1. CASE d = c BY <2>1
    <2>2. CASE d # c BY <2>2, <1>3, <1>5, SinkAssumption DEF IInv, Accounted
    <2> QED BY <2>1, <2>2
  <1> QED BY <1>7, <1>8, <1>9, <1>10, <1>11, <1>12, <1>13, <1>14 DEF IInv

LEMMA EmitHTTPIInv ==
  ASSUME IInv, NEW g \in Emitter, NEW c \in Conv, EmitHTTP(g, c)
  PROVE  IInv'
  <1>1. /\ em[g].pc = "idle" /\ c \notin given /\ given' = given \cup {c} /\ Begin(g, c, "post")
        /\ queued' = queued /\ faults' = faults
        /\ UNCHANGED <<cfg, phase, endpoint, stored, letters, torn, unacked, unsaved, merged, stranded>>
    BY DEF EmitHTTP, MayEmit, At
  <1> QED BY <1>1, BeginIInv

LEMMA EmitKafkaIInv ==
  ASSUME IInv, NEW g \in Emitter, NEW c \in Conv, EmitKafka(g, c)
  PROVE  IInv'
  <1>1. /\ em[g].pc = "idle" /\ c \notin given /\ given' = given \cup {c}
        /\ UNCHANGED <<cfg, phase, endpoint, stored, letters, torn, unacked, unsaved, merged, stranded>>
    BY DEF EmitKafka, MayEmit, At
  <1>2. \/ Begin(g, c, "wait") /\ queued' = queued \cup {c} /\ faults' = faults
        \/ /\ Begin(g, c, "dead") /\ queued' = queued
           /\ faults' = faults \/ (faults > 0 /\ faults' = faults - 1)
    BY DEF EmitKafka
  <1>3. CASE Begin(g, c, "wait") /\ queued' = queued \cup {c} /\ faults' = faults
    BY <1>1, <1>3, BeginIInv
  <1>4. CASE /\ Begin(g, c, "dead") /\ queued' = queued
             /\ faults' = faults \/ (faults > 0 /\ faults' = faults - 1)
    BY <1>1, <1>4, BeginIInv
  <1> QED BY <1>2, <1>3, <1>4

(* post: whatever the backend answers, the attempts that it stored and did  *)
(* not acknowledge are counted; an acknowledged one ends the loop.          *)
LEMMA PostIInv ==
  ASSUME IInv, NEW g \in Emitter, NEW r \in Reply, NEW isStored \in BOOLEAN, Post(g, r, isStored)
  PROVE  IInv'
  <1> DEFINE c == em[g].conv
  <1>1. TypeOK /\ em[g].pc = "post"
    BY DEF IInv, Post, At
  <1>2. \A d \in Conv : stored[d] \in Nat /\ unacked[d] \in Nat
    BY <1>1, Types
  <1>3. /\ c \in Conv /\ c # NoConv /\ c \in given /\ c \notin queued /\ c \notin letters
        /\ stored[c] <= unacked[c]
        /\ \A h \in Emitter \ {g} : em[h].conv # c
    BY <1>1, Types DEF IInv, Hands, GivenFirst, Apart, Unacknowledged
  <1>4. UNCHANGED <<cfg, phase, endpoint, queued, letters, torn, faults, given, unsaved, merged, stranded>>
    BY DEF Post
  <1>5. /\ stored' \in [Conv -> Nat] /\ \A d \in Conv \ {c} : stored'[d] = stored[d]
        /\ stored'[c] = IF isStored THEN stored[c] + 1 ELSE stored[c]
    <2>1. stored \in [Conv -> Nat] BY <1>1, Types
    <2>2. stored' = IF isStored THEN [stored EXCEPT ![c] = @ + 1] ELSE stored BY DEF Post
    <2> QED BY <2>1, <2>2, <1>3, Increment
  <1>6. /\ unacked' \in [Conv -> Nat] /\ \A d \in Conv \ {c} : unacked'[d] = unacked[d]
        /\ unacked'[c] = IF isStored /\ r \notin {"200", "202"} THEN unacked[c] + 1 ELSE unacked[c]
    <2>1. unacked \in [Conv -> Nat] BY <1>1, Types
    <2>2. unacked' = IF isStored /\ r \notin {"200", "202"} THEN [unacked EXCEPT ![c] = @ + 1] ELSE unacked
      BY DEF Post
    <2> QED BY <2>1, <2>2, <1>3, Increment
  <1>7. \/ accepted(r) /\ Return(g)
        \/ ~accepted(r) /\ MayRetry(g) /\ em' = [em EXCEPT ![g].attempt = @ + 1]
        \/ ~accepted(r) /\ Goto(g, "dead")
    BY DEF Post, AfterPost
  <1>8. /\ em' \in [Emitter -> EmitterState] /\ \A h \in Emitter \ {g} : em'[h] = em[h]
        /\ \/ accepted(r) /\ em'[g].pc = "idle" /\ em'[g].conv = NoConv
           \/ ~accepted(r) /\ em'[g].pc \in {"post", "dead"} /\ em'[g].conv = c
    <2>1. CASE accepted(r) /\ Return(g) BY <1>1, <2>1, ReturnEffect
    <2>2. CASE ~accepted(r) /\ Goto(g, "dead") BY <1>1, <2>2, GotoEffect
    <2>3. CASE ~accepted(r) /\ MayRetry(g) /\ em' = [em EXCEPT ![g].attempt = @ + 1]
      <3>1. em[g].attempt + 1 \in 0 .. MaxRetries
        BY <1>1, <2>3, EmitterTypes, SinkAssumption DEF MayRetry
      <3> QED BY <1>1, <2>3, <3>1, EmitterTypes DEF TypeOK, EmitterState
    <2> QED BY <1>7, <2>1, <2>2, <2>3
  <1>9. /\ stored'[c] >= stored[c] /\ stored'[c] <= 1 + unacked'[c]
        /\ ~accepted(r) => stored'[c] <= unacked'[c]
        /\ accepted(r) => stored'[c] > 0
    <2>1. accepted(r) => isStored BY DEF Post, BackendMay, accepted
    <2>2. accepted(r) <=> r \in {"200", "202"} BY DEF accepted
    <2> QED BY <2>1, <2>2, <1>2, <1>3, <1>5, <1>6
  <1> HIDE DEF c
  <1> USE <1>3, <1>4, <1>8
  <1>10. TypeOK' BY <1>1, <1>5, <1>6 DEF TypeOK
  <1>11. Hands' BY DEF IInv, Hands
  <1>12. GivenFirst' BY <1>5 DEF IInv, GivenFirst
  <1>13. Apart'
    <2>1. \A h, k \in Emitter : em'[h].conv = em'[k].conv => h = k \/ em'[h].conv = NoConv
      BY DEF IInv, Apart
    <2>2. \A h \in Emitter : em'[h].conv \notin letters'
      BY <1>1, Types, SinkAssumption DEF IInv, Apart
    <2>3. \A h \in Emitter : em'[h].pc = "post" => em'[h].conv \notin queued' BY DEF IInv, Apart
    <2>4. \A d \in queued' : stored'[d] = 0 BY <1>1, <1>5, Types DEF IInv, Apart
    <2> QED BY <2>1, <2>2, <2>3, <2>4 DEF Apart
  <1>14. RepeatsAreUnacknowledged' BY <1>5, <1>6, <1>9 DEF IInv, RepeatsAreUnacknowledged
  <1>15. \A h \in Emitter \ {g} : em[h].conv # NoConv => /\ stored'[em[h].conv] = stored[em[h].conv]
                                                         /\ unacked'[em[h].conv] = unacked[em[h].conv]
    BY <1>1, <1>5, <1>6, Types
  <1>16. Unacknowledged'
    <2>1. \A d \in letters : stored'[d] <= unacked'[d]
      BY <1>1, <1>5, <1>6, Types DEF IInv, Unacknowledged
    <2>2. ASSUME NEW h \in Emitter,
                 em'[h].pc \in {"post", "dead"} \/ (em'[h].pc = "wait" /\ em'[h].report # "ok")
          PROVE  stored'[em'[h].conv] <= unacked'[em'[h].conv]
      <3>1. CASE h = g BY <2>2, <3>1, <1>9
      <3>2. CASE h # g BY <2>2, <3>2, <1>15 DEF IInv, Unacknowledged, Hands
      <3> QED BY <3>1, <3>2
    <2> QED BY <2>1, <2>2 DEF Unacknowledged
  <1>17. ReportsAreTrue' BY <1>15 DEF IInv, ReportsAreTrue, Hands
  <1>18. Accounted'
    <2> SUFFICES ASSUME NEW d \in given'
                 PROVE  Accounted!(d)'
      BY DEF Accounted
    <2>1. CASE d = c BY <2>1, <1>9
    <2>2. CASE d # c
      <3>1. d \in Conv /\ stored'[d] = stored[d] BY <2>2, <1>1, <1>5, Types
      <3>2. \/ stored[d] > 0
            \/ \E h \in Emitter : em[h].conv = d
            \/ d \in letters \cup unsaved \cup merged \cup stranded
        BY DEF IInv, Accounted
      <3>3. ASSUME NEW h \in Emitter, em[h].conv = d PROVE em'[h].conv = d
        BY <3>3, <2>2 DEF c
      <3> QED BY <3>1, <3>2, <3>3
    <2> QED BY <2>1, <2>2
  <1> QED BY <1>10, <1>11, <1>12, <1>13, <1>14, <1>16, <1>17, <1>18 DEF IInv

(* The client is done with a message: stored or not, reported to the call   *)
(* of Emit that still waits for it or to nobody.                            *)
LEMMA BrokerIInv ==
  ASSUME IInv, NEW c \in queued, NEW r \in {"ok", "error"}, Reported(c, r), queued' = queued \ {c},
         stored' \in [Conv -> Nat], unacked' \in [Conv -> Nat],
         \A d \in Conv \ {c} : stored'[d] = stored[d] /\ unacked'[d] = unacked[d],
         stored'[c] <= 1, stored'[c] >= stored[c],
         r = "ok" => stored'[c] > 0,
         stored'[c] <= unacked'[c] \/ (r = "ok" /\ \E g \in Emitter : em[g].conv = c /\ em[g].pc = "wait"),
         faults' = faults \/ (faults > 0 /\ faults' = faults - 1),
         UNCHANGED <<cfg, phase, endpoint, letters, torn, given, unsaved, merged, stranded>>
  PROVE  IInv'
  <1>1. TypeOK /\ c \in Conv /\ c \in given /\ c # NoConv /\ stored[c] = 0
    BY Types, SinkAssumption DEF IInv, GivenFirst, Apart
  <1>2. /\ em' \in [Emitter -> EmitterState]
        /\ \A g \in Emitter : /\ em'[g].pc = em[g].pc /\ em'[g].conv = em[g].conv
                              /\ em[g].pc = "wait" /\ em[g].conv = c => em'[g].report = r
                              /\ ~(em[g].pc = "wait" /\ em[g].conv = c) => em'[g] = em[g]
    BY <1>1, ReportedEffect
  <1>3. \A d \in Conv : stored[d] \in Nat /\ unacked[d] \in Nat
    BY <1>1, Types
  <1> USE <1>1, <1>2
  <1>4. faults' \in 0 .. MaxFaults BY Types, SinkAssumption
  <1>5. TypeOK' BY <1>4 DEF TypeOK
  <1>6. Hands' BY DEF IInv, Hands
  <1>7. GivenFirst' BY DEF IInv, GivenFirst
  <1>8. Apart'
    <2>1. \A d \in queued' : stored'[d] = 0 BY Types DEF IInv, Apart
    <2> QED BY <2>1 DEF IInv, Apart
  <1>9. stored'[c] <= 1 + unacked'[c] /\ stored'[c] \in Nat /\ unacked'[c] \in Nat
    OBVIOUS
  <1>10. RepeatsAreUnacknowledged' BY <1>9 DEF IInv, RepeatsAreUnacknowledged
  <1>11. \A h \in Emitter : em[h].conv # NoConv /\ em[h].conv # c =>
                              /\ stored'[em[h].conv] = stored[em[h].conv]
                              /\ unacked'[em[h].conv] = unacked[em[h].conv]
    BY Types
  <1>12. Unacknowledged'
    <2>1. ASSUME NEW d \in letters PROVE stored'[d] <= unacked'[d]
      <3>1. CASE d = c BY <3>1 DEF IInv, Apart
      <3>2. CASE d # c BY <3>2, Types DEF IInv, Unacknowledged
      <3> QED BY <3>1, <3>2
    <2>2. ASSUME NEW h \in Emitter,
                 em'[h].pc \in {"post", "dead"} \/ (em'[h].pc = "wait" /\ em'[h].report # "ok")
          PROVE  stored'[em'[h].conv] <= unacked'[em'[h].conv]
      <3>1. CASE em[h].conv = c
        <4>1. em[h].pc = "dead" => ~ \E g \in Emitter : em[g].conv = c /\ em[g].pc = "wait"
          BY <3>1 DEF IInv, Apart
        <4>2. em[h].pc # "post"
          BY <3>1 DEF IInv, Apart
        <4> QED BY <2>2, <3>1, <4>1, <4>2
      <3>2. CASE em[h].conv # c BY <2>2, <3>2, <1>11 DEF IInv, Unacknowledged, Hands
      <3> QED BY <3>1, <3>2
    <2> QED BY <2>1, <2>2 DEF Unacknowledged
  <1>13. ReportsAreTrue' 
    <2> SUFFICES ASSUME NEW h \in Emitter, em'[h].pc = "wait", em'[h].report = "ok"
                 PROVE  stored'[em'[h].conv] > 0
      BY DEF ReportsAreTrue
    <2>1. CASE em[h].conv = c BY <2>1
    <2>2. CASE em[h].conv # c BY <2>2, <1>11 DEF IInv, ReportsAreTrue, Hands
    <2> QED BY <2>1, <2>2
  <1>14. Accounted'
    <2> SUFFICES ASSUME NEW d \in given'
                 PROVE  Accounted!(d)'
      BY DEF Accounted
    <2>1. d \in Conv /\ stored'[d] >= stored[d] /\ stored'[d] \in Nat BY <1>3, Types
    <2>2. \/ stored[d] > 0
          \/ \E h \in Emitter : em[h].conv = d
          \/ d \in letters \cup unsaved \cup merged \cup stranded
      BY DEF IInv, Accounted
    <2> QED BY <2>1, <2>2, <1>3
  <1> QED BY <1>5, <1>6, <1>7, <1>8, <1>10, <1>12, <1>13, <1>14 DEF IInv

LEMMA BrokerStoresIInv ==
  ASSUME IInv, NEW c \in Conv, BrokerStores(c)
  PROVE  IInv'
  <1>1. /\ c \in queued /\ queued' = queued \ {c} /\ Reported(c, "ok") /\ faults' = faults
        /\ UNCHANGED <<cfg, phase, endpoint, letters, torn, given, unsaved, merged, stranded>>
    BY DEF BrokerStores
  <1>2. stored \in [Conv -> Nat] /\ unacked \in [Conv -> Nat] /\ stored[c] = 0
    BY <1>1, Types DEF IInv, Apart
  <1>3. stored' \in [Conv -> Nat] /\ stored'[c] = 1 /\ \A d \in Conv \ {c} : stored'[d] = stored[d]
    BY <1>2, Increment DEF BrokerStores
  <1>4. /\ unacked' \in [Conv -> Nat] /\ \A d \in Conv \ {c} : unacked'[d] = unacked[d]
        /\ (\E g \in Emitter : em[g].conv = c /\ em[g].pc = "wait") \/ unacked'[c] = unacked[c] + 1
    BY <1>2, Increment DEF BrokerStores
  <1>5. stored'[c] <= unacked'[c] \/ \E g \in Emitter : em[g].conv = c /\ em[g].pc = "wait"
    BY <1>2, <1>3, <1>4
  <1> QED BY <1>1, <1>2, <1>3, <1>4, <1>5, BrokerIInv

LEMMA BrokerFailsIInv ==
  ASSUME IInv, NEW c \in Conv, NEW isStored \in BOOLEAN, BrokerFails(c, isStored)
  PROVE  IInv'
  <1>1. /\ c \in queued /\ queued' = queued \ {c} /\ Reported(c, "error") /\ faults > 0 /\ faults' = faults - 1
        /\ UNCHANGED <<cfg, phase, endpoint, letters, torn, given, unsaved, merged, stranded>>
    BY DEF BrokerFails
  <1>2. stored \in [Conv -> Nat] /\ unacked \in [Conv -> Nat] /\ stored[c] = 0 /\ unacked[c] \in Nat
    BY <1>1, Types DEF IInv, Apart
  <1>3. /\ stored' \in [Conv -> Nat] /\ \A d \in Conv \ {c} : stored'[d] = stored[d]
        /\ stored'[c] = IF isStored THEN 1 ELSE 0
    BY <1>2, Increment DEF BrokerFails
  <1>4. /\ unacked' \in [Conv -> Nat] /\ \A d \in Conv \ {c} : unacked'[d] = unacked[d]
        /\ unacked'[c] = IF isStored THEN unacked[c] + 1 ELSE unacked[c]
    BY <1>2, Increment DEF BrokerFails
  <1>5. stored'[c] <= unacked'[c] /\ stored'[c] <= 1 /\ stored'[c] >= stored[c]
    BY <1>2, <1>3, <1>4
  <1> QED BY <1>1, <1>2, <1>3, <1>4, <1>5, BrokerIInv

(* A call of Emit gives its conversation up for a dead letter, or returns.  *)
LEMMA GivesUpIInv ==
  ASSUME IInv, NEW g \in Emitter, NEW c \in Conv, em[g].conv = c,
         \/ Return(g) /\ (stored[c] > 0 \/ c \in letters' \cup unsaved' \cup merged')
         \/ Goto(g, "dead") /\ stored[c] <= unacked'[c] /\ letters' = letters,
         unacked' \in [Conv -> Nat], unacked'[c] >= unacked[c], \A d \in Conv \ {c} : unacked'[d] = unacked[d],
         letters' = letters \/ (letters' = letters \cup {c} /\ stored[c] <= unacked[c]),
         unsaved \subseteq unsaved', unsaved' \subseteq Conv, merged \subseteq merged', merged' \subseteq Conv,
         faults' = faults \/ (faults > 0 /\ faults' = faults - 1), torn' \in BOOLEAN,
         UNCHANGED <<cfg, phase, endpoint, queued, stored, given, stranded>>
  PROVE  IInv'
  <1>1. /\ TypeOK /\ c # NoConv /\ c \in given /\ c \notin letters
        /\ \A h \in Emitter \ {g} : em[h].conv # c
    BY SinkAssumption DEF IInv, GivenFirst, Apart
  <1>2. \A d \in Conv : stored[d] \in Nat /\ unacked[d] \in Nat /\ unacked'[d] \in Nat /\ unacked[d] <= unacked'[d]
    BY <1>1, Types
  <1>3. /\ em' \in [Emitter -> EmitterState] /\ \A h \in Emitter \ {g} : em'[h] = em[h]
        /\ \/ /\ em'[g].pc = "idle" /\ em'[g].conv = NoConv
              /\ stored[c] > 0 \/ c \in letters' \cup unsaved' \cup merged'
           \/ em'[g].pc = "dead" /\ em'[g].conv = c /\ stored[c] <= unacked'[c] /\ letters' = letters
    <2>1. CASE Return(g) /\ (stored[c] > 0 \/ c \in letters' \cup unsaved' \cup merged')
      BY <1>1, <2>1, ReturnEffect
    <2>2. CASE Goto(g, "dead") /\ stored[c] <= unacked'[c] /\ letters' = letters
      BY <1>1, <2>2, GotoEffect
    <2> QED BY <2>1, <2>2
  <1> USE <1>1, <1>3
  <1>4. faults' \in 0 .. MaxFaults BY Types, SinkAssumption
  <1>5. TypeOK' BY <1>4 DEF TypeOK
  <1>6. Hands' BY DEF IInv, Hands
  <1>7. GivenFirst' BY DEF IInv, GivenFirst
  <1>8. Apart'
    <2>1. \A h, k \in Emitter : em'[h].conv = em'[k].conv => h = k \/ em'[h].conv = NoConv
      BY DEF IInv, Apart
    <2>2. \A h \in Emitter : em'[h].conv \notin letters'
      BY Types, SinkAssumption DEF IInv, Apart
    <2>3. \A h \in Emitter : em'[h].pc = "post" => em'[h].conv \notin queued' BY DEF IInv, Apart
    <2>4. \A d \in queued' : stored'[d] = 0 BY DEF IInv, Apart
    <2> QED BY <2>1, <2>2, <2>3, <2>4 DEF Apart
  <1>9. RepeatsAreUnacknowledged' BY <1>2 DEF IInv, RepeatsAreUnacknowledged
  <1>10. Unacknowledged'
    <2>1. ASSUME NEW d \in letters' PROVE stored'[d] <= unacked'[d]
      <3>1. d \in Conv BY Types
      <3>2. stored[d] <= unacked[d] BY DEF IInv, Unacknowledged
      <3> QED BY <3>1, <3>2, <1>2
    <2>2. ASSUME NEW h \in Emitter,
                 em'[h].pc \in {"post", "dead"} \/ (em'[h].pc = "wait" /\ em'[h].report # "ok")
          PROVE  stored'[em'[h].conv] <= unacked'[em'[h].conv]
      <3>1. CASE h = g BY <2>2, <3>1
      <3>2. CASE h # g
        <4>1. em[h].conv \in Conv /\ em[h].conv # c BY <2>2, <3>2, Types DEF IInv, Hands
        <4> QED BY <2>2, <3>2, <4>1 DEF IInv, Unacknowledged
      <3> QED BY <3>1, <3>2
    <2> QED BY <2>1, <2>2 DEF Unacknowledged
  <1>11. ReportsAreTrue' BY DEF IInv, ReportsAreTrue
  <1>12. Accounted'
    <2> SUFFICES ASSUME NEW d \in given'
                 PROVE  Accounted!(d)'
      BY DEF Accounted
    <2>1. CASE d = c BY <2>1
    <2>2. CASE d # c BY <2>2 DEF IInv, Accounted
    <2> QED BY <2>1, <2>2
  <1> QED BY <1>5, <1>6, <1>7, <1>8, <1>9, <1>10, <1>11, <1>12 DEF IInv

(* A goroutine inside Emit has a conversation in hand. *)
LEMMA HandsOn ==
  ASSUME IInv, NEW g \in Emitter, em[g].pc # "idle"
  PROVE  em[g].conv \in Conv /\ em[g].conv # NoConv
  BY Types DEF IInv, Hands

LEMMA DeliveryReportIInv ==
  ASSUME IInv, NEW g \in Emitter, DeliveryReport(g)
  PROVE  IInv'
  <1>1. /\ em[g].pc = "wait" /\ em[g].report # "none"
        /\ IF em[g].report = "ok" THEN Return(g) ELSE Goto(g, "dead")
        /\ UNCHANGED <<cfg, phase, endpoint, queued, stored, letters, torn, faults,
                       given, unacked, unsaved, merged, stranded>>
    BY DEF DeliveryReport, At, history
  <1>2. em[g].conv \in Conv
    BY <1>1, HandsOn
  <1>3. /\ unacked \in [Conv -> Nat] /\ unacked[em[g].conv] \in Nat
        /\ torn \in BOOLEAN /\ unsaved \subseteq Conv /\ merged \subseteq Conv
    BY <1>2 DEF IInv, TypeOK
  <1>4. CASE em[g].report = "ok"
    <2>1. stored[em[g].conv] > 0 BY <1>1, <1>4 DEF IInv, ReportsAreTrue
    <2> QED BY <1>1, <1>2, <1>3, <1>4, <2>1, GivesUpIInv
  <1>5. CASE em[g].report # "ok"
    <2>1. stored[em[g].conv] <= unacked[em[g].conv] BY <1>1, <1>5 DEF IInv, Unacknowledged
    <2> QED BY <1>1, <1>2, <1>3, <1>5, <2>1, GivesUpIInv
  <1> QED BY <1>4, <1>5

LEMMA DeliveryTimeoutIInv ==
  ASSUME IInv, NEW g \in Emitter, DeliveryTimeout(g)
  PROVE  IInv'
  <1> DEFINE c == em[g].conv
  <1>1. /\ em[g].pc = "wait" /\ Goto(g, "dead")
        /\ unacked' = IF em[g].report = "ok" THEN [unacked EXCEPT ![c] = @ + 1] ELSE unacked
        /\ UNCHANGED <<cfg, phase, endpoint, queued, stored, letters, torn, faults,
                       given, unsaved, merged, stranded>>
    BY DEF DeliveryTimeout, At
  <1>2. c \in Conv
    BY <1>1, HandsOn
  <1>3. /\ unacked \in [Conv -> Nat] /\ unacked[c] \in Nat /\ stored[c] \in Nat
        /\ torn \in BOOLEAN /\ unsaved \subseteq Conv /\ merged \subseteq Conv
    BY <1>2 DEF IInv, TypeOK
  <1>4. /\ unacked' \in [Conv -> Nat] /\ \A d \in Conv \ {c} : unacked'[d] = unacked[d]
        /\ unacked'[c] = IF em[g].report = "ok" THEN unacked[c] + 1 ELSE unacked[c]
    <2> HIDE DEF c
    <2> QED BY <1>1, <1>2, <1>3, Increment
  <1>5. stored[c] <= unacked'[c] /\ unacked'[c] >= unacked[c]
    <2>1. CASE em[g].report = "ok"
      <3>1. stored[c] <= 1 + unacked[c] BY <1>2 DEF IInv, RepeatsAreUnacknowledged
      <3> QED BY <1>3, <1>4, <2>1, <3>1
    <2>2. CASE em[g].report # "ok"
      <3>1. stored[c] <= unacked[c] BY <1>1, <2>2 DEF IInv, Unacknowledged
      <3> QED BY <1>3, <1>4, <2>2, <3>1
    <2> QED BY <2>1, <2>2
  <1> QED BY <1>1, <1>2, <1>3, <1>4, <1>5, GivesUpIInv

LEMMA WriteDeadLetterIInv ==
  ASSUME IInv, NEW g \in Emitter, WriteDeadLetter(g)
  PROVE  IInv'
  <1> DEFINE c == em[g].conv
  <1>1. /\ em[g].pc = "dead" /\ Return(g)
        /\ UNCHANGED <<cfg, phase, endpoint, queued, stored, given, unacked, stranded>>
    BY DEF WriteDeadLetter, At
  <1>2. c \in Conv
    BY <1>1, HandsOn
  <1>3. /\ unacked \in [Conv -> Nat] /\ unacked[c] \in Nat
        /\ torn \in BOOLEAN /\ unsaved \subseteq Conv /\ merged \subseteq Conv
    BY <1>2 DEF IInv, TypeOK
  <1>4. stored[c] <= unacked[c]
    BY <1>1 DEF IInv, Unacknowledged
  <1>5. /\ letters' = letters \/ letters' = letters \cup {c}
        /\ unsaved' = unsaved \/ unsaved' = unsaved \cup {c}
        /\ merged' = merged \/ merged' = merged \cup {c}
        /\ faults' = faults \/ (faults > 0 /\ faults' = faults - 1)
        /\ torn' \in BOOLEAN
        /\ c \in letters' \cup unsaved' \cup merged'
    BY <1>3 DEF WriteDeadLetter
  <1> QED BY <1>1, <1>2, <1>3, <1>4, <1>5, GivesUpIInv

LEMMA SignalIInv ==
  ASSUME IInv, Signal
  PROVE  IInv'
  <1>1. TypeOK' BY DEF IInv, TypeOK, Signal, history
  <1> QED BY <1>1, FrameIInv DEF Signal, history

LEMMA CloseSinkIInv ==
  ASSUME IInv, CloseSink
  PROVE  IInv'
  <1>1. /\ phase' = "closed" /\ queued' = {} /\ stranded' = stranded \cup queued
        /\ UNCHANGED <<cfg, endpoint, em, stored, letters, torn, faults, given, unacked, unsaved, merged>>
    BY DEF CloseSink
  <1>2. TypeOK' BY <1>1 DEF IInv, TypeOK
  <1>3. Hands' /\ GivenFirst' /\ Apart' BY <1>1 DEF IInv, Hands, GivenFirst, Apart
  <1>4. RepeatsAreUnacknowledged' /\ Unacknowledged' BY <1>1 DEF IInv, RepeatsAreUnacknowledged, Unacknowledged
  <1>5. ReportsAreTrue' /\ Accounted' BY <1>1 DEF IInv, ReportsAreTrue, Accounted
  <1> QED BY <1>2, <1>3, <1>4, <1>5 DEF IInv

LEMMA ExitIInv ==
  ASSUME IInv, Exit
  PROVE  IInv'
  <1>1. /\ phase' = "exited" /\ stranded' = stranded \cup ({em[g].conv : g \in Emitter} \ {NoConv})
        /\ em' = [g \in Emitter |-> Idle]
        /\ UNCHANGED <<cfg, endpoint, queued, stored, letters, torn, faults, given, unacked, unsaved, merged>>
    BY DEF Exit
  <1>2. /\ em' \in [Emitter -> EmitterState]
        /\ \A g \in Emitter : em'[g].pc = "idle" /\ em'[g].conv = NoConv /\ em'[g].report = "none"
    BY <1>1, IdleType
  <1>3. TypeOK /\ stranded' \subseteq Conv
    <2>1. TypeOK /\ stranded \subseteq Conv BY DEF IInv, TypeOK
    <2>2. \A g \in Emitter : em[g].conv \in Conv \cup {NoConv} BY <2>1, EmitterTypes
    <2> QED BY <1>1, <2>1, <2>2
  <1>4. TypeOK' BY <1>1, <1>2, <1>3 DEF TypeOK
  <1>5. Hands' /\ GivenFirst' BY <1>1, <1>2 DEF IInv, Hands, GivenFirst
  <1>6. Apart' BY <1>1, <1>2, <1>3, Types, SinkAssumption DEF IInv, Apart
  <1>7. RepeatsAreUnacknowledged' BY <1>1 DEF IInv, RepeatsAreUnacknowledged
  <1>8. Unacknowledged' BY <1>1, <1>2 DEF IInv, Unacknowledged
  <1>9. ReportsAreTrue' BY <1>2 DEF ReportsAreTrue
  <1>10. Accounted'
    <2> SUFFICES ASSUME NEW d \in given'
                 PROVE  Accounted!(d)'
      BY DEF Accounted
    <2>1. d \in Conv /\ d # NoConv BY <1>1, <1>3, Types, SinkAssumption
    <2>2. \/ stored[d] > 0
          \/ \E g \in Emitter : em[g].conv = d
          \/ d \in letters \cup unsaved \cup merged \cup stranded
      BY <1>1 DEF IInv, Accounted
    <2> QED BY <1>1, <2>1, <2>2
  <1> QED BY <1>4, <1>5, <1>6, <1>7, <1>8, <1>9, <1>10 DEF IInv

LEMMA NextIInv ==
  ASSUME IInv, [Next]_vars
  PROVE  IInv'
  <1>1. CASE Start BY <1>1, StartIInv
  <1>2. CASE Signal BY <1>2, SignalIInv
  <1>3. CASE CloseSink BY <1>3, CloseSinkIInv
  <1>4. CASE Exit BY <1>4, ExitIInv
  <1>5. ASSUME NEW g \in Emitter, NEW c \in Conv, EmitStdout(g, c) \/ EmitHTTP(g, c) \/ EmitKafka(g, c)
        PROVE  IInv'
    BY <1>5, EmitStdoutIInv, EmitHTTPIInv, EmitKafkaIInv
  <1>6. ASSUME NEW g \in Emitter, Emit(g)
        PROVE  IInv'
    BY <1>6, PostIInv, DeliveryReportIInv, DeliveryTimeoutIInv, WriteDeadLetterIInv DEF Emit
  <1>7. ASSUME NEW c \in Conv, BrokerStores(c) \/ \E isStored \in BOOLEAN : BrokerFails(c, isStored)
        PROVE  IInv'
    BY <1>7, BrokerStoresIInv, BrokerFailsIInv
  <1>8. CASE UNCHANGED vars
    <2>1. TypeOK' BY <1>8 DEF IInv, TypeOK, vars, history
    <2> QED BY <1>8, <2>1, FrameIInv DEF vars, history
  <1> QED BY <1>1, <1>2, <1>3, <1>4, <1>5, <1>6, <1>7, <1>8 DEF Next

(* The inductive invariant holds in every state of the worker's sink.       *)
THEOREM Invariance == Spec => []IInv
  <1>1. Init => IInv BY InitIInv
  <1>2. IInv /\ [Next]_vars => IInv' BY NextIInv
  <1> QED BY <1>1, <1>2, PTL DEF Spec

(* For any number of conversations, retries and failures of the backend,    *)
(* the brokers and the disk: what the destination acknowledged is neither   *)
(* sent again nor written to the dead-letter file, and Emit never starts    *)
(* more than -http-max-retries attempts after the first (sink.go).          *)
THEOREM AcknowledgedIsFinal == Spec => []SinkInv
  <1>1. IInv => SinkInv
    <2>1. ASSUME IInv PROVE DeadLettersUndelivered
      <3>1. \A c \in letters : c \in Conv /\ stored[c] \in Nat /\ unacked[c] \in Nat BY <2>1, Types DEF IInv
      <3> QED BY <2>1, <3>1 DEF IInv, Unacknowledged, DeadLettersUndelivered
    <2> QED BY <2>1 DEF IInv, SinkInv
  <1> QED BY <1>1, Invariance, PTL

-----------------------------------------------------------------------------
(* The configuration *)

(* What parseConfig accepted, resolveHTTPSinkAuth turned into the endpoint. *)
Configured ==
  /\ cfg \in CommandLine
  /\ Alive /\ cfg.outputSink = "http" => parseConfig(cfg) /\ endpoint = resolveHTTPSinkAuth(cfg)

LEMMA ConfiguredEndpoint ==
  ASSUME Configured
  PROVE  EndpointIsConfigured
  <1> SUFFICES ASSUME Alive, cfg.outputSink = "http"
               PROVE  /\ cfg.outputContract = "normalized"
                      /\ absolute(endpoint.url)
                      /\ endpoint.mode = "new" <=> usingNewMode(cfg)
                      /\ endpoint.token = IF endpoint.mode = "new" THEN "account" ELSE "agent"
    BY DEF EndpointIsConfigured
  <1>1. /\ cfg.accountToken \in {"", "account"} /\ cfg.agentToken \in {"", "agent"}
        /\ parseConfig(cfg) /\ endpoint = resolveHTTPSinkAuth(cfg)
    BY DEF Configured, CommandLine
  <1>2. CASE usingNewMode(cfg)
    <2>1. cfg.outputContract = "normalized" /\ absolute(cfg.ingestURL) /\ cfg.accountToken = "account"
      BY <1>1, <1>2 DEF parseConfig, validNewMode
    <2>2. endpoint = [url |-> cfg.ingestURL, mode |-> "new", token |-> "account"]
      BY <1>1, <2>1 DEF resolveHTTPSinkAuth, absolute
    <2> QED BY <1>2, <2>1, <2>2
  <1>3. CASE ~usingNewMode(cfg)
    <2>1. cfg.outputContract = "normalized" /\ absolute(cfg.backendURL) /\ cfg.agentToken = "agent"
      BY <1>1, <1>3 DEF parseConfig, validLegacyMode
    <2>2. endpoint = [url |-> "full", mode |-> "legacy", token |-> "agent"]
      BY <1>1, <1>3, <2>1 DEF resolveHTTPSinkAuth, usingNewMode, backendIngestEndpoint
    <2> QED BY <1>3, <2>1, <2>2 DEF absolute
  <1> QED BY <1>2, <1>3

(* Whatever the command line, the HTTP sink of a running worker has an      *)
(* absolute URL and a token, both of the same mode, and the account mode    *)
(* whenever any part of it was set: parseConfig and resolveHTTPSinkAuth     *)
(* agree (config.go, sink.go).                                              *)
THEOREM EndpointConfigured == Spec => []EndpointIsConfigured
  <1>1. Init => Configured
    BY ConfigsAssumption DEF Init, Configured, Alive
  <1>2. Configured /\ [Next]_vars => Configured'
    <2> SUFFICES ASSUME Configured, [Next]_vars
                 PROVE  Configured'
      OBVIOUS
    <2>1. CASE Start BY <2>1 DEF Start, Configured, Alive
    <2>2. CASE \/ UNCHANGED <<cfg, endpoint, phase>>
               \/ phase \in {"up", "closing", "closed"} /\ UNCHANGED <<cfg, endpoint>>
      BY <2>2 DEF Configured, Alive
    <2>3. CASE Signal \/ CloseSink \/ Exit BY <2>2, <2>3 DEF Signal, CloseSink, Exit
    <2>4. ASSUME NEW g \in Emitter, NEW c \in Conv, EmitStdout(g, c) \/ EmitHTTP(g, c) \/ EmitKafka(g, c)
          PROVE  UNCHANGED <<cfg, endpoint, phase>>
      BY <2>4 DEF EmitStdout, EmitHTTP, EmitKafka
    <2>5. ASSUME NEW g \in Emitter, Emit(g)
          PROVE  UNCHANGED <<cfg, endpoint, phase>>
      BY <2>5 DEF Emit, Post, DeliveryReport, DeliveryTimeout, WriteDeadLetter
    <2>6. ASSUME NEW c \in Conv, BrokerStores(c) \/ \E isStored \in BOOLEAN : BrokerFails(c, isStored)
          PROVE  UNCHANGED <<cfg, endpoint, phase>>
      BY <2>6 DEF BrokerStores, BrokerFails
    <2>7. CASE UNCHANGED vars BY <2>2, <2>7 DEF vars
    <2> QED BY <2>1, <2>2, <2>3, <2>4, <2>5, <2>6, <2>7 DEF Next
  <1>3. Configured => EndpointIsConfigured BY ConfiguredEndpoint
  <1> QED BY <1>1, <1>2, <1>3, PTL DEF Spec

-----------------------------------------------------------------------------
(* The sink implements Delivery *)

InHand(c) == c \in queued \/ \E g \in Emitter : em[g].conv = c

(* What one step may do to the places a conversation can be in: nothing is  *)
(* unstored, ungiven, unwritten or undeclared, and only what the process    *)
(* holds, or is given now, is stored, taken in hand or written down.        *)
Orderly ==
  /\ \A c \in Conv : /\ stored'[c] >= stored[c]
                     /\ stored'[c] > stored[c] /\ c \in given => InHand(c)
                     /\ InHand(c)' => InHand(c) \/ c \notin given
                     /\ c \in letters' \ letters => InHand(c)
  /\ letters \subseteq letters' /\ given \subseteq given'
  /\ unsaved \subseteq unsaved' /\ merged \subseteq merged' /\ stranded \subseteq stranded'

LEMMA FateOf ==
  ASSUME TypeOK, NEW c \in Conv
  PROVE  /\ c \in Held <=> InHand(c)
         /\ stored[c] > 0 => fate[c] = "stored"
         /\ stored[c] = 0 /\ InHand(c) => fate[c] = "held"
         /\ stored[c] = 0 /\ ~InHand(c) /\ c \in letters => fate[c] = "kept"
         /\ stored[c] = 0 /\ ~InHand(c) /\ c \notin letters /\ c \in given => fate[c] = "lost"
         /\ stored[c] = 0 /\ ~InHand(c) /\ c \notin letters /\ c \notin given => fate[c] = "new"
  <1>1. c \in Held <=> InHand(c) BY SinkAssumption DEF Held, InHand
  <1>2. stored[c] \in Nat BY Types
  <1> QED BY <1>1, <1>2 DEF fate

LEMMA FateOfNext ==
  ASSUME TypeOK', NEW c \in Conv
  PROVE  /\ stored'[c] > 0 => fate'[c] = "stored"
         /\ stored'[c] = 0 /\ InHand(c)' => fate'[c] = "held"
         /\ stored'[c] = 0 /\ ~InHand(c)' /\ c \in letters' => fate'[c] = "kept"
         /\ stored'[c] = 0 /\ ~InHand(c)' /\ c \notin letters' /\ c \in given' => fate'[c] = "lost"
         /\ stored'[c] = 0 /\ ~InHand(c)' /\ c \notin letters' /\ c \notin given' => fate'[c] = "new"
  <1>1. c \in Held' <=> InHand(c)' BY SinkAssumption DEF Held, InHand
  <1>2. stored'[c] \in Nat BY DEF TypeOK
  <1> QED BY <1>1, <1>2 DEF fate

LEMMA InHandGiven ==
  ASSUME IInv, NEW c \in Conv, InHand(c)
  PROVE  c \in given
  BY SinkAssumption DEF InHand, IInv, GivenFirst

(* An orderly step between two states of the invariant is a step of         *)
(* Delivery: what is no longer in hand, and neither stored nor a dead       *)
(* letter, is a declared loss.                                              *)
LEMMA OrderlyStep ==
  ASSUME IInv, IInv', Orderly
  PROVE  Promise!Next
  <1> DEFINE declared == unsaved \cup merged \cup stranded
  <1>1. TypeOK /\ TypeOK' BY DEF IInv
  <1>2. declared \subseteq declared' BY DEF Orderly
  <1>3. ASSUME NEW c \in Conv
        PROVE  fate'[c] \in Promise!Fate /\ Promise!MayBecome(c, fate'[c])
    <2>1. stored[c] \in Nat /\ stored'[c] \in Nat BY <1>1 DEF TypeOK
    <2>2. /\ stored'[c] >= stored[c]
          /\ stored'[c] > stored[c] /\ c \in given => InHand(c)
          /\ InHand(c)' => InHand(c) \/ c \notin given
          /\ c \in letters' \ letters => InHand(c)
          /\ c \in letters => c \in letters'
          /\ c \in given => c \in given'
      BY DEF Orderly
    <2>3. c \in given' /\ stored'[c] = 0 /\ ~InHand(c)' /\ c \notin letters' => c \in declared'
      BY <2>1 DEF IInv, Accounted, InHand
    <2>4. InHand(c) => c \in given BY InHandGiven
    <2>5. c \in letters => c \in given BY DEF IInv, GivenFirst
    <2>6. fate'[c] \in {"stored", "held", "kept", "lost", "new"}
      BY <1>1, <2>1, FateOfNext
    <2>7. CASE stored[c] > 0
      <3>1. fate[c] = "stored" /\ fate'[c] = "stored" BY <1>1, <2>1, <2>2, <2>7, FateOf, FateOfNext
      <3> QED BY <3>1 DEF Promise!MayBecome, Promise!Fate
    <2>8. CASE stored[c] = 0 /\ InHand(c)
      <3>1. fate[c] = "held" BY <1>1, <2>8, FateOf
      <3>2. fate'[c] \in {"stored", "held", "kept"} \/ (fate'[c] = "lost" /\ c \in declared')
        BY <1>1, <2>1, <2>2, <2>3, <2>4, <2>8, FateOfNext
      <3> QED BY <2>6, <3>1, <3>2 DEF Promise!MayBecome, Promise!Moves, Promise!Fate
    <2>9. CASE stored[c] = 0 /\ ~InHand(c) /\ c \in letters
      <3>1. fate[c] = "kept" /\ fate'[c] = "kept"
        BY <1>1, <2>1, <2>2, <2>5, <2>9, FateOf, FateOfNext
      <3> QED BY <3>1 DEF Promise!MayBecome, Promise!Fate
    <2>10. CASE stored[c] = 0 /\ ~InHand(c) /\ c \notin letters /\ c \in given
      <3>1. fate[c] = "lost" /\ fate'[c] = "lost"
        BY <1>1, <2>1, <2>2, <2>10, FateOf, FateOfNext
      <3> QED BY <3>1 DEF Promise!MayBecome, Promise!Fate
    <2>11. CASE stored[c] = 0 /\ ~InHand(c) /\ c \notin letters /\ c \notin given
      <3>1. fate[c] = "new" BY <1>1, <2>11, FateOf
      <3>2. fate'[c] \in {"stored", "held", "new"} \/ (fate'[c] = "lost" /\ c \in declared')
        BY <1>1, <2>1, <2>2, <2>3, <2>11, FateOfNext
      <3> QED BY <2>6, <3>1, <3>2 DEF Promise!MayBecome, Promise!Moves, Promise!Fate
    <2> QED BY <2>1, <2>7, <2>8, <2>9, <2>10, <2>11
  <1>4. fate' \in [Conv -> Promise!Fate]
    BY <1>3 DEF fate
  <1> QED BY <1>2, <1>3, <1>4 DEF Promise!Next

(* A step that stores nothing, takes nothing in hand and writes nothing. *)
LEMMA QuietOrderly ==
  ASSUME TypeOK, UNCHANGED <<stored, letters, given, unsaved, merged>>, stranded \subseteq stranded',
         \A c \in Conv : InHand(c)' => InHand(c)
  PROVE  Orderly
  BY Types DEF Orderly

LEMMA BeginOrderly ==
  ASSUME IInv, NEW g \in Emitter, NEW c \in Conv, EmitStdout(g, c) \/ EmitHTTP(g, c) \/ EmitKafka(g, c)
  PROVE  Orderly
  <1>1. /\ TypeOK /\ c \notin given /\ given' = given \cup {c}
        /\ UNCHANGED <<letters, unsaved, merged, stranded>>
        /\ queued' = queued \/ queued' = queued \cup {c}
    BY DEF IInv, EmitStdout, EmitHTTP, EmitKafka
  <1>2. \A h \in Emitter : em'[h].conv = em[h].conv \/ em'[h].conv = c
    <2>1. em' = em \/ \E pc \in {"post", "wait", "dead"} : Begin(g, c, pc)
      BY DEF EmitStdout, EmitHTTP, EmitKafka
    <2> QED BY <1>1, <2>1, BeginEffect
  <1>3. \A d \in Conv : stored'[d] >= stored[d] /\ (stored'[d] > stored[d] => d = c)
    <2>1. stored \in [Conv -> Nat] /\ (stored' = stored \/ stored' = [stored EXCEPT ![c] = @ + 1])
      BY <1>1, Types DEF EmitStdout, EmitHTTP, EmitKafka
    <2>2. CASE stored' = stored BY <2>1, <2>2
    <2>3. CASE stored' = [stored EXCEPT ![c] = @ + 1] BY <2>1, <2>3, Increment
    <2> QED BY <2>1, <2>2, <2>3
  <1>4. \A d \in Conv \ {c} : InHand(d)' => InHand(d)
    BY <1>1, <1>2 DEF InHand
  <1> QED BY <1>1, <1>3, <1>4 DEF Orderly

LEMMA EmitOrderly ==
  ASSUME IInv, NEW g \in Emitter, Emit(g)
  PROVE  Orderly
  <1> DEFINE c == em[g].conv
  <1>1. TypeOK /\ em[g].pc # "idle" /\ UNCHANGED <<queued, given, stranded>>
    BY DEF IInv, Emit, Post, DeliveryReport, DeliveryTimeout, WriteDeadLetter, At, history
  <1>2. c \in Conv /\ InHand(c)
    BY <1>1, HandsOn DEF InHand
  <1>3. \A h \in Emitter : em'[h].conv = em[h].conv \/ em'[h].conv = NoConv
    <2>1. Return(g) \/ Goto(g, "dead") \/ em' = [em EXCEPT ![g].attempt = @ + 1]
      BY DEF Emit, Post, AfterPost, DeliveryReport, DeliveryTimeout, WriteDeadLetter
    <2>2. CASE em' = [em EXCEPT ![g].attempt = @ + 1] BY <1>1, <2>2, EmitterTypes DEF TypeOK, EmitterState
    <2> QED BY <1>1, <2>1, <2>2, ReturnEffect, GotoEffect
  <1>4. \A d \in Conv : InHand(d)' => InHand(d)
    BY <1>1, <1>3, SinkAssumption DEF InHand
  <1>5. \A d \in Conv : stored'[d] >= stored[d] /\ (stored'[d] > stored[d] => d = c)
    <2>1. stored \in [Conv -> Nat] /\ (stored' = stored \/ stored' = [stored EXCEPT ![c] = @ + 1])
      BY <1>1, Types DEF Emit, Post, DeliveryReport, DeliveryTimeout, WriteDeadLetter
    <2> HIDE DEF c
    <2>2. CASE stored' = stored BY <2>1, <2>2
    <2>3. CASE stored' = [stored EXCEPT ![c] = @ + 1] BY <1>2, <2>1, <2>3, Increment
    <2> QED BY <2>1, <2>2, <2>3
  <1>6. /\ letters' = letters \/ letters' = letters \cup {c}
        /\ unsaved \subseteq unsaved' /\ merged \subseteq merged'
    BY DEF Emit, Post, DeliveryReport, DeliveryTimeout, WriteDeadLetter, history
  <1> QED BY <1>1, <1>2, <1>4, <1>5, <1>6 DEF Orderly

LEMMA BrokerOrderly ==
  ASSUME IInv, NEW c \in Conv, BrokerStores(c) \/ \E isStored \in BOOLEAN : BrokerFails(c, isStored)
  PROVE  Orderly
  <1>1. /\ TypeOK /\ c \in queued /\ queued' = queued \ {c}
        /\ UNCHANGED <<letters, given, unsaved, merged, stranded>>
        /\ \E r \in {"ok", "error"} : Reported(c, r)
    BY DEF IInv, BrokerStores, BrokerFails
  <1>2. \A h \in Emitter : em'[h].conv = em[h].conv
    BY <1>1, ReportedEffect
  <1>3. InHand(c) /\ \A d \in Conv : InHand(d)' => InHand(d)
    BY <1>1, <1>2 DEF InHand
  <1>4. \A d \in Conv : stored'[d] >= stored[d] /\ (stored'[d] > stored[d] => d = c)
    <2>1. stored \in [Conv -> Nat] /\ (stored' = stored \/ stored' = [stored EXCEPT ![c] = @ + 1])
      BY <1>1, Types DEF BrokerStores, BrokerFails
    <2>2. CASE stored' = stored BY <2>1, <2>2
    <2>3. CASE stored' = [stored EXCEPT ![c] = @ + 1] BY <2>1, <2>3, Increment
    <2> QED BY <2>1, <2>2, <2>3
  <1> QED BY <1>1, <1>3, <1>4 DEF Orderly

LEMMA NextOrderly ==
  ASSUME IInv, [Next]_vars
  PROVE  Orderly
  <1>1. TypeOK BY DEF IInv
  <1>2. CASE Start \/ Signal BY <1>1, <1>2, QuietOrderly DEF Start, Signal, history, InHand
  <1>3. CASE CloseSink BY <1>1, <1>3, QuietOrderly DEF CloseSink, InHand
  <1>4. CASE Exit
    <2>1. \A g \in Emitter : em'[g].conv = NoConv BY <1>4, IdleType DEF Exit
    <2>2. \A c \in Conv : InHand(c)' => InHand(c) BY <1>4, <2>1, SinkAssumption DEF Exit, InHand
    <2> QED BY <1>1, <1>4, <2>2, QuietOrderly DEF Exit
  <1>5. ASSUME NEW g \in Emitter, NEW c \in Conv, EmitStdout(g, c) \/ EmitHTTP(g, c) \/ EmitKafka(g, c)
        PROVE  Orderly
    BY <1>5, BeginOrderly
  <1>6. ASSUME NEW g \in Emitter, Emit(g)
        PROVE  Orderly
    BY <1>6, EmitOrderly
  <1>7. ASSUME NEW c \in Conv, BrokerStores(c) \/ \E isStored \in BOOLEAN : BrokerFails(c, isStored)
        PROVE  Orderly
    BY <1>7, BrokerOrderly
  <1>8. CASE UNCHANGED vars BY <1>1, <1>8, QuietOrderly DEF vars, history, InHand
  <1> QED BY <1>2, <1>3, <1>4, <1>5, <1>6, <1>7, <1>8 DEF Next

(* The worker's sink implements Delivery for every set of conversations and *)
(* every number of retries and failures: a conversation given to            *)
(* emitConversation that neither arrived nor became a readable dead letter  *)
(* is one whose dead letter was not written (and that was logged), was      *)
(* appended to a torn line, or was in memory when the process ended; and    *)
(* what arrived or was given up stays so (sink.go, main.go).                *)
THEOREM SinkImplementsDelivery == Spec => SinkKeepsPromise
  <1>1. Init => Promise!Init
    <2> SUFFICES ASSUME Init
                 PROVE  Promise!Init
      OBVIOUS
    <2>1. IInv BY InitIInv
    <2>2. ASSUME NEW c \in Conv PROVE fate[c] = "new"
      <3>1. \A g \in Emitter : em[g].conv = NoConv BY IdleType DEF Init
      <3>2. ~InHand(c) BY <3>1, SinkAssumption DEF Init, InHand
      <3> QED BY <2>1, <3>2, FateOf DEF IInv, Init
    <2>3. fate = [c \in Conv |-> "new"] BY <2>2 DEF fate
    <2> QED BY <2>3 DEF Promise!Init, Init
  <1>2. IInv /\ IInv' /\ [Next]_vars => Promise!Next
    BY NextOrderly, OrderlyStep
  <1> QED BY <1>1, <1>2, Invariance, PTL DEF Spec, SinkKeepsPromise, Promise!Spec
=============================================================================
