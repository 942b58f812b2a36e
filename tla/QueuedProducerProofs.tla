------------------------ MODULE QueuedProducerProofs ------------------------
(***************************************************************************)
(* Proofs about QueuedProducer for every number of shards, every capacity  *)
(* and every bound on failures: the type invariant, that no event is lost  *)
(* silently, that close() leaves nothing in the queue, that no event has   *)
(* two copies, and that Delivery is implemented.                           *)
(***************************************************************************)
EXTENDS QueuedProducer, FiniteSetTheorems, TLAPS

(* The run goroutine holds a message exactly where the code has one in a    *)
(* local variable; replaySpool's slices are empty outside replaySpool.      *)
RunHands ==
  /\ back \in {"select", "drain", "rest"}
  /\ run \in {"produce", "spool"} => runMsg \in Msg
  /\ run \notin {"produce", "spool"} => runMsg = NoMsg
  /\ run # "replay" => batch = <<>> /\ retained = <<>>

(* So does a shard goroutine. *)
Busy == {"block", "evict", "resend", "spool"}

ShardHands ==
  \A s \in Shards : /\ shard[s].pc \in Busy => shard[s].msg \in Msg
                    /\ shard[s].pc \notin Busy => shard[s].msg = NoMsg

(* Draining begins after main has waited for the shards; a dead process     *)
(* holds nothing.                                                           *)
Draining == run \in {"drain", "rest", "done"} \/ (run \in {"produce", "spool"} /\ back # "select")

ShutdownOrder ==
  /\ phase \in {"flush", "closing"} => \A s \in Shards : shard[s].pc = "exited"
  /\ Draining => phase \in {"closing", "exited", "crashed"}
  /\ phase \in {"exited", "crashed"} => run = "done" /\ \A s \in Shards : shard[s].msg = NoMsg
  /\ run = "done" => queue = <<>>

(* The inductive invariant. *)
IInv == TypeOK /\ RunHands /\ ShardHands /\ ShutdownOrder

-----------------------------------------------------------------------------
(* Sequences *)

LEMMA ElemsEmpty == Elems(<<>>) = {}
  BY DEF Elems

LEMMA ElemsAppend ==
  ASSUME NEW S, NEW s \in Seq(S), NEW e \in S
  PROVE  Append(s, e) \in Seq(S) /\ Elems(Append(s, e)) = Elems(s) \cup {e}
  <1>1. Append(s, e) \in Seq(S) /\ Len(Append(s, e)) = Len(s) + 1
    OBVIOUS
  <1>2. DOMAIN Append(s, e) = 1 .. Len(s) + 1 /\ DOMAIN s = 1 .. Len(s) /\ Len(s) \in Nat
    OBVIOUS
  <1>3. /\ \A i \in 1 .. Len(s) : Append(s, e)[i] = s[i]
        /\ Append(s, e)[Len(s) + 1] = e
    OBVIOUS
  <1>4. ASSUME NEW x \in Elems(Append(s, e)) PROVE x \in Elems(s) \cup {e}
    <2>1. PICK i \in 1 .. Len(s) + 1 : x = Append(s, e)[i]
      BY <1>2 DEF Elems
    <2>2. CASE i = Len(s) + 1 BY <2>1, <2>2, <1>3
    <2>3. CASE i \in 1 .. Len(s) BY <2>1, <2>3, <1>2, <1>3 DEF Elems
    <2> QED BY <2>2, <2>3, <1>2
  <1>5. ASSUME NEW x \in Elems(s) \cup {e} PROVE x \in Elems(Append(s, e))
    <2>1. CASE x = e
      <3>1. Len(s) + 1 \in 1 .. Len(s) + 1 BY <1>2
      <3> QED BY <2>1, <3>1, <1>2, <1>3 DEF Elems
    <2>2. CASE x \in Elems(s)
      <3>1. PICK i \in 1 .. Len(s) : x = s[i] BY <2>2, <1>2 DEF Elems
      <3>2. i \in 1 .. Len(s) + 1 BY <1>2
      <3> QED BY <3>1, <3>2, <1>2, <1>3 DEF Elems
    <2> QED BY <1>5, <2>1, <2>2
  <1> QED BY <1>1, <1>4, <1>5

LEMMA ElemsTail ==
  ASSUME NEW S, NEW s \in Seq(S), s # <<>>
  PROVE  /\ Head(s) \in S /\ Tail(s) \in Seq(S) /\ Len(Tail(s)) = Len(s) - 1
         /\ Elems(s) = {Head(s)} \cup Elems(Tail(s))
  <1>1. /\ Head(s) \in S /\ Tail(s) \in Seq(S) /\ Len(Tail(s)) = Len(s) - 1
        /\ Len(s) \in Nat /\ Len(s) > 0 /\ Head(s) = s[1]
    OBVIOUS
  <1>2. DOMAIN s = 1 .. Len(s) /\ DOMAIN Tail(s) = 1 .. Len(s) - 1
    BY <1>1
  <1>3. \A i \in 1 .. Len(s) - 1 : Tail(s)[i] = s[i + 1]
    OBVIOUS
  <1>4. ASSUME NEW x \in Elems(s) PROVE x \in {Head(s)} \cup Elems(Tail(s))
    <2>1. PICK i \in 1 .. Len(s) : x = s[i] BY <1>2 DEF Elems
    <2>2. CASE i = 1 BY <2>1, <2>2, <1>1
    <2>3. CASE i # 1
      <3>1. i - 1 \in 1 .. Len(s) - 1 BY <2>3, <1>1
      <3>2. Tail(s)[i - 1] = s[i] BY <3>1, <1>1, <1>3
      <3> QED BY <2>1, <3>1, <3>2, <1>2 DEF Elems
    <2> QED BY <2>2, <2>3
  <1>5. ASSUME NEW x \in {Head(s)} \cup Elems(Tail(s)) PROVE x \in Elems(s)
    <2>1. CASE x = Head(s)
      <3>1. 1 \in 1 .. Len(s) BY <1>1
      <3> QED BY <2>1, <3>1, <1>1, <1>2 DEF Elems
    <2>2. CASE x \in Elems(Tail(s))
      <3>1. PICK i \in 1 .. Len(s) - 1 : x = Tail(s)[i] BY <2>2, <1>2 DEF Elems
      <3>2. i + 1 \in 1 .. Len(s) BY <1>1
      <3> QED BY <3>1, <3>2, <1>2, <1>3 DEF Elems
    <2> QED BY <1>5, <2>1, <2>2
  <1> QED BY <1>1, <1>4, <1>5

LEMMA ElemsInSet ==
  ASSUME NEW S, NEW s \in Seq(S)
  PROVE  Elems(s) \subseteq S
  BY DEF Elems

-----------------------------------------------------------------------------
(* Effects of the helpers *)

LEMMA MsgIsNotNoMsg == \A m \in Msg : m # NoMsg
  BY NoMsgAssumption

LEMMA ShardAtEffect ==
  ASSUME ShardType, NEW s \in Shards, NEW pc \in ShardPc, NEW m \in Msg \cup {NoMsg},
         ShardAt(s, pc, m)
  PROVE  /\ ShardType'
         /\ shard'[s].pc = pc /\ shard'[s].msg = m
         /\ \A t \in Shards \ {s} : shard'[t] = shard[t]
  BY DEF ShardAt, ShardState, ShardType

LEMMA EnqueueEffect ==
  ASSUME QueueType, NEW m \in Msg, Enqueue(m)
  PROVE  QueueType' /\ Elems(queue') = Elems(queue) \cup {m}
  <1>1. queue \in Seq(Msg) /\ Len(queue) < QueueCap /\ queue' = Append(queue, m)
    BY DEF QueueType, Enqueue, QueueHasRoom
  <1>2. Len(queue') = Len(queue) + 1
    BY <1>1
  <1>3. queue' \in Seq(Msg) /\ Elems(queue') = Elems(queue) \cup {m}
    BY <1>1, ElemsAppend
  <1> QED BY <1>1, <1>2, <1>3, CapsAssumption DEF QueueType

LEMMA DequeueEffect ==
  ASSUME QueueType, queue # <<>>, queue' = Tail(queue)
  PROVE  QueueType' /\ Head(queue) \in Msg /\ Elems(queue) = {Head(queue)} \cup Elems(queue')
  <1>1. /\ Head(queue) \in Msg /\ queue' \in Seq(Msg) /\ Len(queue') = Len(queue) - 1
        /\ Elems(queue) = {Head(queue)} \cup Elems(queue')
    BY ElemsTail DEF QueueType
  <1>2. Len(queue) \in Nat /\ Len(queue) <= QueueCap /\ QueueCap \in Nat
    BY CapsAssumption DEF QueueType
  <1> QED BY <1>1, <1>2 DEF QueueType

LEMMA KeptType ==
  ASSUME FileType
  PROVE  /\ KeptRecords \in Seq(Msg) /\ KeptJunk \in Nat /\ KeptTorn \in BOOLEAN
         /\ Erased \subseteq Msg
         /\ Elems(spool) \subseteq Elems(KeptRecords) \cup Erased
  <1>1. Elems(spool) \subseteq Msg
    BY ElemsInSet DEF FileType
  <1>2. Elems(spool) \subseteq Elems(KeptRecords) \cup Erased
    BY DEF KeptRecords, Erased
  <1> QED BY <1>1, <1>2 DEF FileType, KeptRecords, KeptJunk, KeptTorn, Erased

(* spoolMessage keeps the types, whether it appends, fails or has no spool. *)
LEMMA SpoolMessageType ==
  ASSUME FileType, LossType, budget \in Faults, NEW m \in Msg, spoolMessage(m)
  PROVE  FileType' /\ LossType' /\ budget' \in Faults
  <1>1. CASE ~cfg.spool
    <2>1. counted' = counted \cup {m}
          /\ UNCHANGED <<spool, junk, torn, wiped, merged, stranded, detoured, ackLost, budget>>
      BY <1>1 DEF spoolMessage
    <2> QED BY <2>1 DEF FileType, LossType
  <1>2. CASE Append1(m)
    <2>1. spool' \in Seq(Msg)
      BY <1>2, KeptType DEF Append1, KeptTorn
    <2>2. junk' \in Nat
      BY <1>2, KeptType DEF Append1, KeptTorn
    <2>3. torn' \in BOOLEAN
      BY <1>2 DEF Append1
    <2>4. LossType'
      BY <1>2, KeptType DEF spoolMessage, Append1, LossType
    <2>5. budget' \in Faults
      BY <1>2 DEF Append1
    <2> QED BY <2>1, <2>2, <2>3, <2>4, <2>5 DEF FileType
  <1>3. CASE WriteError(m)
    <2>1. FileType'
      BY <1>3, KeptType DEF WriteError, FileType
    <2>2. wiped' \in SUBSET Msg
      BY <1>3, KeptType DEF WriteError, LossType
    <2>3. LossType'
      BY <1>3, <2>2 DEF spoolMessage, WriteError, LossType
    <2>4. budget' \in Faults
      BY <1>3 DEF WriteError, Faults
    <2> QED BY <2>1, <2>3, <2>4
  <1> QED BY <1>1, <1>2, <1>3 DEF spoolMessage

(* ... and the message ends up in the file or in the loss record, where     *)
(* everything that was there before still is.                               *)
LEMMA SpoolMessageKeeps ==
  ASSUME FileType, LossType, NEW m \in Msg, spoolMessage(m)
  PROVE  Elems(spool) \cup counted \cup wiped \cup merged \cup {m}
           \subseteq Elems(spool') \cup counted' \cup wiped' \cup merged'
  <1>1. CASE ~cfg.spool
    BY <1>1 DEF spoolMessage
  <1>2. CASE Append1(m) /\ ~KeptTorn
    <2>1. spool' = Append(KeptRecords, m) /\ wiped' = wiped \cup Erased
          /\ UNCHANGED <<counted, merged>>
      BY <1>2 DEF Append1
    <2>2. Elems(spool') = Elems(KeptRecords) \cup {m}
      BY <2>1, KeptType, ElemsAppend
    <2> QED BY <2>1, <2>2, KeptType
  <1>3. CASE Append1(m) /\ KeptTorn
    <2>1. spool' = KeptRecords /\ wiped' = wiped \cup Erased /\ merged' = merged \cup {m}
          /\ UNCHANGED counted
      BY <1>3 DEF Append1
    <2> QED BY <2>1, KeptType
  <1>4. CASE WriteError(m)
    <2>1. counted' = counted \cup {m} /\ merged' = merged
          /\ \/ spool' = spool /\ wiped' = wiped
             \/ spool' = KeptRecords /\ wiped' = wiped \cup Erased
      BY <1>4 DEF WriteError
    <2> QED BY <2>1, KeptType
  <1> QED BY <1>1, <1>2, <1>3, <1>4 DEF spoolMessage

(* What a step leaves alone keeps its type and its part of the invariant.   *)
LEMMA Frame ==
  ASSUME IInv
  PROVE  /\ UNCHANGED mainVars => MainType'
         /\ UNCHANGED shard => ShardType' /\ ShardHands'
         /\ UNCHANGED queue => QueueType'
         /\ UNCHANGED runVars => RunType' /\ RunHands'
         /\ UNCHANGED clientVars => ClientType'
         /\ UNCHANGED <<circuit, delivMsg>> => ReportType'
         /\ UNCHANGED fileVars => FileType'
         /\ UNCHANGED budget => budget' \in Faults
         /\ UNCHANGED history => LossType'
         /\ UNCHANGED <<phase, shard, queue, run, back>> => ShutdownOrder'
  <1> USE DEF IInv, TypeOK
  <1>1. UNCHANGED mainVars => MainType' BY DEF mainVars, MainType
  <1>2. UNCHANGED shard => ShardType' /\ ShardHands' BY DEF ShardType, ShardHands
  <1>3. UNCHANGED queue => QueueType' BY DEF QueueType
  <1>4. UNCHANGED runVars => RunType' /\ RunHands' BY DEF runVars, RunType, RunHands
  <1>5. UNCHANGED clientVars => ClientType' BY DEF clientVars, ClientType
  <1>6. UNCHANGED <<circuit, delivMsg>> => ReportType' BY DEF ReportType
  <1>7. UNCHANGED fileVars => FileType' BY DEF fileVars, FileType
  <1>8. UNCHANGED history => LossType' BY DEF history, LossType
  <1>9. UNCHANGED <<phase, shard, queue, run, back>> => ShutdownOrder'
    BY DEF ShutdownOrder, Draining
  <1> QED BY <1>1, <1>2, <1>3, <1>4, <1>5, <1>6, <1>7, <1>8, <1>9

(* Before main has waited for the shards the shutdown order holds trivially. *)
LEMMA EarlyPhase ==
  ASSUME IInv, phase \in {"start", "up", "stopping"}, UNCHANGED <<phase, run, back>>
  PROVE  ShutdownOrder'
  BY DEF IInv, ShutdownOrder, Draining

LEMMA BusyShardIsEarly ==
  ASSUME IInv, NEW s \in Shards, shard[s].pc \in Busy
  PROVE  phase \in {"start", "up", "stopping"} /\ shard[s].msg \in Msg
  <1>1. shard[s].msg \in Msg /\ shard[s].msg # NoMsg /\ shard[s].pc # "exited"
    BY MsgIsNotNoMsg DEF IInv, ShardHands, Busy
  <1>2. phase \notin {"flush", "closing", "exited", "crashed"} /\ phase \in Phase
    BY <1>1 DEF IInv, TypeOK, MainType, ShutdownOrder
  <1> QED BY <1>1, <1>2 DEF Phase

(* A shard that moves to pc with m, if that is a legal pair. *)
LEMMA ShardMoves ==
  ASSUME IInv, NEW s \in Shards, NEW pc \in ShardPc, NEW m \in Msg \cup {NoMsg},
         ShardAt(s, pc, m), pc \in Busy => m \in Msg, pc \notin Busy => m = NoMsg
  PROVE  ShardType' /\ ShardHands'
  <1>1. /\ ShardType' /\ shard'[s].pc = pc /\ shard'[s].msg = m
        /\ \A t \in Shards \ {s} : shard'[t] = shard[t]
    BY ShardAtEffect DEF IInv, TypeOK
  <1>2. ASSUME NEW t \in Shards
        PROVE  /\ shard'[t].pc \in Busy => shard'[t].msg \in Msg
               /\ shard'[t].pc \notin Busy => shard'[t].msg = NoMsg
    <2>1. CASE t = s BY <1>1, <2>1
    <2>2. CASE t # s BY <1>1, <2>2 DEF IInv, ShardHands
    <2> QED BY <2>1, <2>2
  <1> QED BY <1>1, <1>2 DEF ShardHands

-----------------------------------------------------------------------------
(* Each action preserves the inductive invariant. *)

LEMMA InitIInv == Init => IInv
  <1> SUFFICES ASSUME Init PROVE IInv OBVIOUS
  <1>1. TypeOK
    <2>1. MainType BY DEF Init, MainType, Phase
    <2>2. ShardType BY DEF Init, ShardType, ShardState, ShardPc
    <2>3. QueueType BY CapsAssumption DEF Init, QueueType
    <2>4. RunType BY DEF Init, RunType, RunPc
    <2>5. ClientType BY DEF Init, ClientType
    <2>6. ReportType BY DEF Init, ReportType
    <2>7. FileType
      <3>1. spool \in Seq(Msg) /\ junk \in Nat BY DEF Init
      <3>2. torn \in BOOLEAN BY DEF Init
      <3> QED BY <3>1, <3>2 DEF FileType
    <2>8. budget \in Faults BY BoundsAssumption DEF Init, Faults
    <2>9. LossType BY DEF Init, LossType
    <2> QED BY <2>1, <2>2, <2>3, <2>4, <2>5, <2>6, <2>7, <2>8, <2>9 DEF TypeOK
  <1>2. RunHands BY DEF Init, RunHands
  <1>3. ShardHands BY DEF Init, ShardHands, Busy
  <1>4. ShutdownOrder BY DEF Init, ShutdownOrder, Draining
  <1> QED BY <1>1, <1>2, <1>3, <1>4 DEF IInv

LEMMA NextEvent ==
  ASSUME IInv, NEW s \in Shards, sent[s] < MaxEvents
  PROVE  /\ <<s, sent[s] + 1>> \in Msg
         /\ [sent EXCEPT ![s] = @ + 1] \in [Sources -> Nat]
  <1>1. sent \in [Sources -> Nat] /\ s \in Sources BY DEF IInv, TypeOK, MainType, Sources
  <1>2. sent[s] + 1 \in 1 .. MaxEvents BY <1>1, BoundsAssumption
  <1> QED BY <1>1, <1>2 DEF Msg

LEMMA SubmitIInv ==
  ASSUME IInv, NEW s \in Shards, Submit(s)
  PROVE  IInv'
  <1> DEFINE m == <<s, sent[s] + 1>>
  <1>1. /\ phase \in {"start", "up", "stopping"} /\ sent[s] < MaxEvents
        /\ sent' = [sent EXCEPT ![s] = @ + 1] /\ UNCHANGED <<cfg, phase>>
    BY DEF Submit
  <1>2. m \in Msg /\ MainType'
    BY <1>1, NextEvent DEF IInv, TypeOK, MainType
  <1> HIDE DEF m
  <1>3. QueueType' /\ ShardType' /\ ShardHands' /\ counted' \in {counted, counted \cup {m}}
    <2>1. CASE Enqueue(m) /\ UNCHANGED <<shard, counted>>
      BY <1>2, <2>1, EnqueueEffect, Frame DEF IInv, TypeOK
    <2>2. CASE /\ UNCHANGED queue /\ counted' \in {counted, counted \cup {m}}
               /\ \E pc \in Busy : ShardAt(s, pc, m)
      <3>1. PICK pc \in Busy : ShardAt(s, pc, m) BY <2>2
      <3>2. pc \in ShardPc BY DEF Busy, ShardPc
      <3> QED BY <1>2, <2>2, <3>1, <3>2, ShardMoves, Frame
    <2> QED BY <2>1, <2>2 DEF Submit, Busy, m
  <1>4. LossType'
    BY <1>2, <1>3 DEF IInv, TypeOK, LossType, Submit
  <1>5. ShutdownOrder'
    BY <1>1, EarlyPhase DEF Submit, runVars
  <1> QED BY <1>2, <1>3, <1>4, <1>5, Frame DEF Submit, IInv, TypeOK

LEMMA SubmitBlockedIInv ==
  ASSUME IInv, NEW s \in Shards, SubmitBlocked(s)
  PROVE  IInv'
  <1>1. shard[s].msg \in Msg /\ phase \in {"start", "up", "stopping"}
    BY BusyShardIsEarly DEF SubmitBlocked, Busy
  <1>2. QueueType'
    BY <1>1, EnqueueEffect DEF SubmitBlocked, IInv, TypeOK
  <1>3. ShardType' /\ ShardHands'
    BY ShardMoves DEF SubmitBlocked, Busy, ShardPc
  <1>4. ShutdownOrder'
    BY <1>1, EarlyPhase DEF SubmitBlocked, mainVars, runVars
  <1> QED BY <1>2, <1>3, <1>4, Frame DEF SubmitBlocked, IInv, TypeOK

LEMMA SubmitEvictIInv ==
  ASSUME IInv, NEW s \in Shards, SubmitEvict(s)
  PROVE  IInv'
  <1>1. shard[s].msg \in Msg /\ phase \in {"start", "up", "stopping"}
    BY BusyShardIsEarly DEF SubmitEvict, Busy
  <1>2. QueueType' /\ LossType'
    <2>1. CASE queue # <<>> /\ queue' = Tail(queue) /\ counted' = counted \cup {Head(queue)}
      <3>1. QueueType' /\ Head(queue) \in Msg
        BY <2>1, DequeueEffect DEF IInv, TypeOK
      <3> QED BY <2>1, <3>1 DEF SubmitEvict, IInv, TypeOK, LossType
    <2>2. CASE UNCHANGED <<queue, counted>>
      BY <2>2, Frame DEF SubmitEvict, IInv, TypeOK, LossType
    <2> QED BY <2>1, <2>2 DEF SubmitEvict
  <1>3. ShardType' /\ ShardHands'
    BY <1>1, ShardMoves DEF SubmitEvict, Busy, ShardPc
  <1>4. ShutdownOrder'
    BY <1>1, EarlyPhase DEF SubmitEvict, mainVars, runVars
  <1> QED BY <1>2, <1>3, <1>4, Frame DEF SubmitEvict, IInv, TypeOK

LEMMA SubmitResendIInv ==
  ASSUME IInv, NEW s \in Shards, SubmitResend(s)
  PROVE  IInv'
  <1>1. shard[s].msg \in Msg /\ phase \in {"start", "up", "stopping"}
    BY BusyShardIsEarly DEF SubmitResend, Busy
  <1>2. QueueType' /\ ShardType' /\ ShardHands'
    <2>1. CASE Enqueue(shard[s].msg) /\ ShardAt(s, "idle", NoMsg)
      BY <1>1, <2>1, EnqueueEffect, ShardMoves DEF IInv, TypeOK, Busy, ShardPc
    <2>2. CASE UNCHANGED queue /\ ShardAt(s, "spool", shard[s].msg)
      BY <1>1, <2>2, Frame, ShardMoves DEF Busy, ShardPc
    <2> QED BY <2>1, <2>2 DEF SubmitResend
  <1>3. LossType'
    BY <1>1 DEF SubmitResend, IInv, TypeOK, LossType
  <1>4. ShutdownOrder'
    BY <1>1, EarlyPhase DEF SubmitResend, mainVars, runVars
  <1> QED BY <1>2, <1>3, <1>4, Frame DEF SubmitResend, IInv, TypeOK

LEMMA SubmitSpoolIInv ==
  ASSUME IInv, NEW s \in Shards, SubmitSpool(s)
  PROVE  IInv'
  <1>1. shard[s].msg \in Msg /\ phase \in {"start", "up", "stopping"}
    BY BusyShardIsEarly DEF SubmitSpool, Busy
  <1>2. FileType' /\ LossType' /\ budget' \in Faults
    BY <1>1, SpoolMessageType DEF SubmitSpool, IInv, TypeOK
  <1>3. ShardType' /\ ShardHands'
    BY ShardMoves DEF SubmitSpool, Busy, ShardPc
  <1>4. ShutdownOrder'
    BY <1>1, EarlyPhase DEF SubmitSpool, mainVars, runVars
  <1> QED BY <1>2, <1>3, <1>4, Frame DEF SubmitSpool, IInv, TypeOK

LEMMA ShardExitIInv ==
  ASSUME IInv, NEW s \in Shards, ShardExit(s)
  PROVE  IInv'
  <1>1. ShardType' /\ ShardHands'
    BY ShardMoves DEF ShardExit, Busy, ShardPc
  <1>2. ShutdownOrder'
    BY EarlyPhase DEF ShardExit, MainStep, runVars
  <1> QED BY <1>1, <1>2, Frame DEF ShardExit, MainStep, mainVars, IInv, TypeOK

LEMMA RunDequeueIInv ==
  ASSUME IInv, RunDequeue \/ DrainTake \/ DrainRest
  PROVE  IInv'
  <1>1. /\ queue # <<>> /\ queue' = Tail(queue) /\ runMsg' = Head(queue)
        /\ run' \in {"produce", "spool"} /\ back' \in {"select", "drain", "rest"}
        /\ batch' = batch /\ retained' = retained /\ run # "replay" /\ run # "done"
        /\ back' # "select" => run \in {"drain", "rest"}
        /\ UNCHANGED <<phase, shard>>
    BY DEF RunDequeue, DrainTake, DrainRest, mainVars
  <1>2. QueueType' /\ Head(queue) \in Msg
    BY <1>1, DequeueEffect DEF IInv, TypeOK
  <1>3. RunType' /\ RunHands'
    BY <1>1, <1>2 DEF IInv, TypeOK, RunType, RunHands, RunPc
  <1>4. ShutdownOrder'
    BY <1>1 DEF IInv, ShutdownOrder, Draining
  <1> QED BY <1>2, <1>3, <1>4, Frame DEF RunDequeue, DrainTake, DrainRest, IInv, TypeOK

LEMMA RunProduceIInv ==
  ASSUME IInv, RunProduce
  PROVE  IInv'
  <1>1. /\ runMsg \in Msg /\ run = "produce" /\ run' \in {back, "spool"}
        /\ run' = "spool" => runMsg' = runMsg
        /\ run' # "spool" => runMsg' = NoMsg
        /\ UNCHANGED <<phase, shard, queue, back, batch, retained, reports, log>>
    BY DEF IInv, RunHands, RunProduce, mainVars
  <1>2. back \in {"select", "drain", "rest"} /\ batch = <<>> /\ retained = <<>>
    BY <1>1 DEF IInv, RunHands
  <1>3. RunType' /\ RunHands'
    BY <1>1, <1>2 DEF IInv, TypeOK, RunType, RunHands, RunPc
  <1>4. ClientType'
    <2>1. CASE UNCHANGED inflight
      BY <1>1, <2>1 DEF IInv, TypeOK, ClientType
    <2>2. CASE inflight' = Append(inflight, [msg |-> runMsg, topic |-> "raw"])
      <3>1. [msg |-> runMsg, topic |-> "raw"] \in Record
        BY <1>1 DEF Record, Topic
      <3>2. inflight' \in Seq(Record)
        BY <2>2, <3>1, ElemsAppend DEF IInv, TypeOK, ClientType
      <3> QED BY <1>1, <3>2 DEF IInv, TypeOK, ClientType
    <2> QED BY <2>1, <2>2 DEF RunProduce
  <1>5. budget' \in Faults
    BY DEF RunProduce, IInv, TypeOK, Faults
  <1>6. ShutdownOrder'
    BY <1>1, <1>2 DEF IInv, ShutdownOrder, Draining
  <1> QED BY <1>3, <1>4, <1>5, <1>6, Frame DEF RunProduce, IInv, TypeOK

LEMMA RunSpoolIInv ==
  ASSUME IInv, RunSpool
  PROVE  IInv'
  <1>1. FileType' /\ LossType' /\ budget' \in Faults
    BY SpoolMessageType DEF RunSpool, IInv, TypeOK, RunHands
  <1>2. RunType' /\ RunHands'
    BY DEF RunSpool, IInv, TypeOK, RunType, RunHands
  <1>3. ShutdownOrder'
    BY DEF RunSpool, IInv, RunHands, ShutdownOrder, Draining, mainVars
  <1> QED BY <1>1, <1>2, <1>3, Frame DEF RunSpool, IInv, TypeOK

LEMMA drainAllType ==
  ASSUME FileType, drainAll
  PROVE  batch' \in Seq(Msg) /\ FileType'
  <1>1. spool' \in Seq(Msg) /\ batch' \in Seq(Msg) BY DEF drainAll, FileType
  <1>2. junk' \in Nat BY DEF drainAll, FileType
  <1>3. torn' \in BOOLEAN BY DEF drainAll
  <1> QED BY <1>1, <1>2, <1>3 DEF FileType

LEMMA ReplayTickIInv ==
  ASSUME IInv, ReplayTick
  PROVE  IInv'
  <1>1. FileType' /\ batch' \in Seq(Msg)
    BY drainAllType DEF ReplayTick, IInv, TypeOK
  <1>2. RunType' /\ RunHands'
    BY <1>1 DEF ReplayTick, IInv, TypeOK, RunType, RunHands, RunPc
  <1>3. ShutdownOrder'
    BY DEF ReplayTick, IInv, ShutdownOrder, Draining, mainVars
  <1> QED BY <1>1, <1>2, <1>3, Frame DEF ReplayTick, IInv, TypeOK

LEMMA ReplayEnqueueIInv ==
  ASSUME IInv, ReplayEnqueue
  PROVE  IInv'
  <1>1. Head(batch) \in Msg /\ batch' \in Seq(Msg)
    BY ElemsTail DEF ReplayEnqueue, IInv, TypeOK, RunType
  <1>2. QueueType' /\ retained' \in Seq(Msg)
    <2>1. CASE Enqueue(Head(batch)) /\ UNCHANGED retained
      BY <1>1, <2>1, EnqueueEffect DEF IInv, TypeOK, RunType
    <2>2. CASE UNCHANGED queue /\ retained' = Append(retained, Head(batch))
      BY <1>1, <2>2, ElemsAppend, Frame DEF IInv, TypeOK, RunType
    <2> QED BY <2>1, <2>2 DEF ReplayEnqueue
  <1>3. UNCHANGED <<run, back, runMsg, phase, shard>> /\ run = "replay"
    BY DEF ReplayEnqueue, mainVars
  <1>4. RunType' /\ RunHands'
    BY <1>1, <1>2, <1>3 DEF IInv, TypeOK, RunType, RunHands
  <1>5. ShutdownOrder'
    BY <1>3 DEF IInv, ShutdownOrder, Draining
  <1> QED BY <1>2, <1>4, <1>5, Frame DEF ReplayEnqueue, IInv, TypeOK

LEMMA ReplayRetainIInv ==
  ASSUME IInv, ReplayRetain
  PROVE  IInv'
  <1>1. Head(retained) \in Msg /\ retained' \in Seq(Msg)
    BY ElemsTail DEF ReplayRetain, IInv, TypeOK, RunType
  <1>2. FileType' /\ LossType' /\ budget' \in Faults
    BY <1>1, SpoolMessageType DEF ReplayRetain, IInv, TypeOK
  <1>3. RunType' /\ RunHands'
    BY <1>1 DEF ReplayRetain, IInv, TypeOK, RunType, RunHands
  <1> QED BY <1>2, <1>3, Frame DEF ReplayRetain, mainVars, IInv, TypeOK

LEMMA ReplayDoneIInv ==
  ASSUME IInv, ReplayDone
  PROVE  IInv'
  <1>1. MainType'
    BY DEF ReplayDone, IInv, TypeOK, MainType, Phase
  <1>2. RunType' /\ RunHands'
    BY DEF ReplayDone, IInv, TypeOK, RunType, RunHands, RunPc
  <1>3. ShutdownOrder'
    BY DEF ReplayDone, IInv, ShutdownOrder, Draining
  <1> QED BY <1>1, <1>2, <1>3, Frame DEF ReplayDone, IInv, TypeOK

LEMMA RunStopIInv ==
  ASSUME IInv, RunStop
  PROVE  IInv'
  <1>1. RunType' /\ RunHands'
    BY DEF RunStop, IInv, TypeOK, RunType, RunHands, RunPc
  <1>2. ShutdownOrder'
    BY DEF RunStop, IInv, ShutdownOrder, Draining, mainVars
  <1> QED BY <1>1, <1>2, Frame DEF RunStop, IInv, TypeOK

LEMMA DrainTimeoutIInv ==
  ASSUME IInv, DrainTimeout
  PROVE  IInv'
  <1>1. RunType' /\ RunHands'
    BY DEF DrainTimeout, IInv, TypeOK, RunType, RunHands, RunPc
  <1>2. LossType'
    <2>1. Elems(queue) \subseteq Msg BY ElemsInSet DEF IInv, TypeOK, QueueType
    <2> QED BY <2>1 DEF DrainTimeout, IInv, TypeOK, LossType
  <1>3. ShutdownOrder'
    BY DEF DrainTimeout, IInv, ShutdownOrder, Draining, mainVars
  <1> QED BY <1>1, <1>2, <1>3, Frame DEF DrainTimeout, IInv, TypeOK

LEMMA DrainDoneIInv ==
  ASSUME IInv, DrainDone
  PROVE  IInv'
  <1>1. RunType' /\ RunHands'
    BY DEF DrainDone, IInv, TypeOK, RunType, RunHands, RunPc
  <1>2. ShutdownOrder'
    BY DEF DrainDone, IInv, ShutdownOrder, Draining, mainVars
  <1> QED BY <1>1, <1>2, Frame DEF DrainDone, IInv, TypeOK

LEMMA NextMetrics ==
  ASSUME IInv, sent[Metrics] < MaxMetrics
  PROVE  /\ <<Metrics, sent[Metrics] + 1>> \in Msg
         /\ [sent EXCEPT ![Metrics] = @ + 1] \in [Sources -> Nat]
  <1>1. sent \in [Sources -> Nat] /\ Metrics \in Sources BY DEF IInv, TypeOK, MainType, Sources
  <1>2. sent[Metrics] + 1 \in 1 .. MaxMetrics BY <1>1, BoundsAssumption
  <1> QED BY <1>1, <1>2 DEF Msg

LEMMA PublishMetricsIInv ==
  ASSUME IInv, PublishMetrics
  PROVE  IInv'
  <1> DEFINE m == <<Metrics, sent[Metrics] + 1>>
  <1>1. m \in Msg /\ MainType'
    BY NextMetrics DEF PublishMetrics, IInv, TypeOK, MainType
  <1>2. ClientType'
    <2>1. CASE UNCHANGED inflight
      BY <2>1 DEF PublishMetrics, IInv, TypeOK, ClientType
    <2>2. CASE inflight' = Append(inflight, [msg |-> m, topic |-> "metrics"])
      <3>1. [msg |-> m, topic |-> "metrics"] \in Record
        BY <1>1 DEF Record, Topic
      <3>2. inflight' \in Seq(Record)
        BY <2>2, <3>1, ElemsAppend DEF IInv, TypeOK, ClientType
      <3> QED BY <3>2 DEF PublishMetrics, IInv, TypeOK, ClientType
    <2> QED BY <2>1, <2>2 DEF PublishMetrics
  <1>3. LossType'
    <2>1. counted' \in SUBSET Msg
      BY <1>1 DEF PublishMetrics, IInv, TypeOK, LossType
    <2> QED BY <2>1 DEF PublishMetrics, IInv, TypeOK, LossType
  <1> QED BY <1>1, <1>2, <1>3, Frame DEF PublishMetrics, runVars, IInv, TypeOK

LEMMA DeliverIInv ==
  ASSUME IInv, Deliver
  PROVE  IInv'
  <1>1. Head(inflight) \in Record /\ inflight' \in Seq(Record)
    BY ElemsTail DEF Deliver, IInv, TypeOK, ClientType
  <1>2. [msg |-> Head(inflight).msg, err |-> "none"] \in Report
    BY <1>1 DEF Record, Report, Err
  <1>3. log' \in Seq(Record) /\ reports' \in Seq(Report)
    BY <1>1, <1>2, ElemsAppend DEF Deliver, IInv, TypeOK, ClientType
  <1>4. ClientType'
    BY <1>1, <1>3 DEF ClientType
  <1> QED BY <1>4, Frame DEF Deliver, mainVars, runVars, IInv, TypeOK

LEMMA DeliverFailIInv ==
  ASSUME IInv, NEW err \in Err \ {"none"}, NEW stored \in BOOLEAN, DeliverFail(err, stored)
  PROVE  IInv'
  <1>1. Head(inflight) \in Record /\ inflight' \in Seq(Record)
    BY ElemsTail DEF DeliverFail, IInv, TypeOK, ClientType
  <1>2. [msg |-> Head(inflight).msg, err |-> err] \in Report /\ Head(inflight).msg \in Msg
    BY <1>1 DEF Record, Report
  <1>3. reports' \in Seq(Report)
    BY <1>2, ElemsAppend DEF DeliverFail, IInv, TypeOK, ClientType
  <1>4. log' \in Seq(Record)
    <2>1. Append(log, Head(inflight)) \in Seq(Record)
      BY <1>1, ElemsAppend DEF IInv, TypeOK, ClientType
    <2> QED BY <2>1 DEF DeliverFail, IInv, TypeOK, ClientType
  <1>5. ClientType'
    BY <1>1, <1>3, <1>4 DEF ClientType
  <1>6. LossType'
    <2>1. ackLost' \in SUBSET Msg
      BY <1>2 DEF DeliverFail, IInv, TypeOK, LossType
    <2> QED BY <2>1 DEF DeliverFail, IInv, TypeOK, LossType
  <1>7. budget' \in Faults
    <2>1. budget.kafka > 0 /\ budget' = [budget EXCEPT !.kafka = @ - 1]
      BY DEF DeliverFail
    <2> QED BY <2>1 DEF IInv, TypeOK, Faults
  <1> QED BY <1>5, <1>6, <1>7, Frame DEF DeliverFail, mainVars, runVars, IInv, TypeOK

LEMMA ClientErrorIInv ==
  ASSUME IInv, NEW err \in Err \ {"none"}, ClientError(err)
  PROVE  IInv'
  <1>1. [msg |-> NoMsg, err |-> err] \in Report
    BY DEF Report
  <1>2. reports' \in Seq(Report)
    BY <1>1, ElemsAppend DEF ClientError, IInv, TypeOK, ClientType
  <1>3. ClientType'
    BY <1>2 DEF ClientError, IInv, TypeOK, ClientType
  <1>4. budget' \in Faults
    BY DEF ClientError, IInv, TypeOK, Faults
  <1> QED BY <1>3, <1>4, Frame DEF ClientError, mainVars, runVars, IInv, TypeOK

LEMMA TakeReportIInv ==
  ASSUME IInv, TakeReport
  PROVE  IInv'
  <1>1. Head(reports) \in Report /\ reports' \in Seq(Report)
    BY ElemsTail DEF TakeReport, IInv, TypeOK, ClientType
  <1>2. ClientType'
    BY <1>1 DEF TakeReport, IInv, TypeOK, ClientType
  <1>3. delivMsg' \in Msg \cup {NoMsg}
    BY <1>1 DEF TakeReport, Report
  <1>4. circuit' \in BOOLEAN
    BY DEF TakeReport, markBrokerAvailable, markBrokerUnavailable, IInv, TypeOK, ReportType
  <1> QED BY <1>2, <1>3, <1>4, Frame DEF TakeReport, ReportType, mainVars, runVars, IInv, TypeOK

LEMMA SpoolFailedDeliveryIInv ==
  ASSUME IInv, SpoolFailedDelivery
  PROVE  IInv'
  <1>1. delivMsg \in Msg
    BY DEF SpoolFailedDelivery, IInv, TypeOK, ReportType
  <1>2. FileType' /\ LossType' /\ budget' \in Faults
    BY <1>1, SpoolMessageType DEF SpoolFailedDelivery, IInv, TypeOK
  <1>3. ReportType'
    BY DEF SpoolFailedDelivery, IInv, TypeOK, ReportType
  <1> QED BY <1>2, <1>3, Frame DEF SpoolFailedDelivery, mainVars, runVars, IInv, TypeOK

LEMMA CircuitExpireIInv ==
  ASSUME IInv, CircuitExpire
  PROVE  IInv'
  <1>1. circuit' \in BOOLEAN BY DEF CircuitExpire
  <1>2. delivMsg' \in Msg \cup {NoMsg} BY DEF CircuitExpire, IInv, TypeOK, ReportType
  <1>3. ReportType' BY <1>1, <1>2 DEF ReportType
  <1> QED BY <1>3, Frame DEF CircuitExpire, mainVars, runVars, IInv, TypeOK

LEMMA MainIInv ==
  ASSUME IInv, Signal \/ WaitDone \/ FlushReturn
  PROVE  IInv'
  <1>1. /\ UNCHANGED <<cfg, sent, shard, queue, runVars, circuit, clientVars, delivMsg,
                       fileVars, budget, history>>
        /\ \/ phase = "up" /\ phase' = "stopping"
           \/ /\ phase = "stopping" /\ phase' = "flush"
              /\ \A s \in Shards : shard[s].pc = "exited"
           \/ phase = "flush" /\ phase' = "closing"
    BY DEF Signal, WaitDone, FlushReturn, MainStep
  <1>2. MainType'
    BY <1>1 DEF IInv, TypeOK, MainType, Phase
  <1>3. ShutdownOrder'
    BY <1>1 DEF IInv, ShutdownOrder, Draining, runVars
  <1> QED BY <1>1, <1>2, <1>3, Frame DEF IInv, TypeOK

(* The end of the process empties everything but the file. *)
LEMMA ProcessEndsEffect ==
  ASSUME IInv, NEW to \in {"exited", "crashed"}, ProcessEnds(to)
  PROVE  /\ MainType' /\ ShardType' /\ QueueType' /\ RunType' /\ ClientType' /\ ReportType'
         /\ RunHands' /\ ShardHands' /\ ShutdownOrder'
         /\ stranded' \in SUBSET Msg
  <1>1. MainType'
    BY DEF ProcessEnds, IInv, TypeOK, MainType, Phase
  <1>2. ShardType' /\ ShardHands'
    BY DEF ProcessEnds, ShardType, ShardState, ShardPc, ShardHands, Busy
  <1>3. QueueType' /\ RunType' /\ RunHands'
    BY CapsAssumption DEF ProcessEnds, QueueType, RunType, RunPc, RunHands
  <1>4. ClientType'
    BY DEF ProcessEnds, IInv, TypeOK, ClientType
  <1>5. ReportType'
    <2>1. circuit' \in BOOLEAN BY DEF ProcessEnds
    <2>2. delivMsg' = NoMsg BY DEF ProcessEnds
    <2> QED BY <2>1, <2>2 DEF ReportType
  <1>6. ShutdownOrder'
    BY DEF ProcessEnds, ShutdownOrder, Draining
  <1>7. InMemory \ {NoMsg} \subseteq Msg
    <2>1. /\ Elems(queue) \subseteq Msg /\ Elems(batch) \subseteq Msg /\ Elems(retained) \subseteq Msg
          /\ Elems(inflight) \subseteq Record
      BY ElemsInSet DEF IInv, TypeOK, QueueType, RunType, ClientType
    <2>2. ClientHeld \subseteq Msg
      BY <2>1 DEF ClientHeld, Record
    <2>3. ShardHeld \cup {runMsg, delivMsg} \subseteq Msg \cup {NoMsg}
      BY DEF ShardHeld, IInv, TypeOK, ShardType, ShardState, RunType, ReportType
    <2>4. ReportedFailures \subseteq Msg
      BY DEF ReportedFailures
    <2> QED BY <2>1, <2>2, <2>3, <2>4 DEF InMemory
  <1>8. stranded' \in SUBSET Msg
    BY <1>7 DEF ProcessEnds, IInv, TypeOK, LossType
  <1> QED BY <1>1, <1>2, <1>3, <1>4, <1>5, <1>6, <1>8

LEMMA ExitIInv ==
  ASSUME IInv, Exit
  PROVE  IInv'
  <1>1. ProcessEnds("exited") BY DEF Exit
  <1>2. LossType'
    BY <1>1, ProcessEndsEffect DEF Exit, ProcessEnds, IInv, TypeOK, LossType
  <1> QED BY <1>1, <1>2, ProcessEndsEffect, Frame DEF Exit, IInv, TypeOK

LEMMA CrashIInv ==
  ASSUME IInv, Crash
  PROVE  IInv'
  <1>1. ProcessEnds("crashed") BY DEF Crash
  <1>2. FileType' /\ wiped' \in SUBSET Msg
    <2>1. CASE UNCHANGED <<fileVars, wiped>>
      BY <2>1, Frame DEF IInv, TypeOK, LossType
    <2>2. CASE /\ spool' = KeptRecords /\ junk' = KeptJunk /\ torn' \in {KeptTorn, TRUE}
               /\ wiped' = wiped \cup Erased
      BY <2>2, KeptType DEF IInv, TypeOK, FileType, LossType
    <2> QED BY <2>1, <2>2 DEF Crash
  <1>3. LossType'
    BY <1>1, <1>2, ProcessEndsEffect DEF ProcessEnds, IInv, TypeOK, LossType
  <1>4. budget' \in Faults
    BY DEF Crash, IInv, TypeOK, Faults
  <1> QED BY <1>1, <1>2, <1>3, <1>4, ProcessEndsEffect DEF IInv, TypeOK

LEMMA RestartIInv ==
  ASSUME IInv, Restart
  PROVE  IInv'
  <1>1. FileType' /\ batch' \in Seq(Msg)
    <2>1. CASE drainAll
      BY <2>1, drainAllType DEF IInv, TypeOK
    <2>2. CASE UNCHANGED <<batch, fileVars>>
      BY <2>2, Frame DEF IInv, TypeOK, RunType
    <2> QED BY <2>1, <2>2 DEF Restart
  <1>2. RunType' /\ RunHands'
    BY <1>1 DEF Restart, IInv, TypeOK, RunType, RunHands, RunPc, ShutdownOrder
  <1>3. MainType'
    BY DEF Restart, IInv, TypeOK, MainType, Phase
  <1>4. ShutdownOrder'
    BY DEF Restart, IInv, ShutdownOrder, Draining
  <1> QED BY <1>1, <1>2, <1>3, <1>4, Frame DEF Restart, IInv, TypeOK

LEMMA NextIInv ==
  ASSUME IInv, [Next]_vars
  PROVE  IInv'
  <1>1. CASE \E s \in Shards : ShardStep(s)
    BY <1>1, SubmitIInv, SubmitBlockedIInv, SubmitEvictIInv, SubmitResendIInv, SubmitSpoolIInv,
       ShardExitIInv DEF ShardStep
  <1>2. CASE RunStep
    BY <1>2, RunDequeueIInv, RunProduceIInv, RunSpoolIInv, RunStopIInv, ReplayTickIInv,
       ReplayEnqueueIInv, ReplayRetainIInv, ReplayDoneIInv, DrainTimeoutIInv, DrainDoneIInv
       DEF RunStep
  <1>3. CASE PublishMetrics
    BY <1>3, PublishMetricsIInv
  <1>4. CASE ClientStep
    BY <1>4, DeliverIInv, DeliverFailIInv, ClientErrorIInv DEF ClientStep
  <1>5. CASE TakeReport \/ SpoolFailedDelivery \/ CircuitExpire
    BY <1>5, TakeReportIInv, SpoolFailedDeliveryIInv, CircuitExpireIInv
  <1>6. CASE Signal \/ WaitDone \/ FlushReturn \/ Exit \/ Crash \/ Restart
    BY <1>6, MainIInv, ExitIInv, CrashIInv, RestartIInv
  <1>7. CASE UNCHANGED vars
    BY <1>7, Frame DEF vars, mainVars, runVars, clientVars, fileVars, history, IInv, TypeOK
  <1> QED BY <1>1, <1>2, <1>3, <1>4, <1>5, <1>6, <1>7 DEF Next

(* The inductive invariant holds in every reachable state. *)
THEOREM Invariance == Spec => []IInv
  <1>1. Init => IInv BY InitIInv
  <1>2. IInv /\ [Next]_vars => IInv' BY NextIInv
  <1> QED BY <1>1, <1>2, PTL DEF Spec

(* Every variable keeps its type; in particular q.queue never exceeds its   *)
(* capacity, whichever goroutines send to it.                               *)
THEOREM TypeCorrect == Spec => []TypeOK
  <1>1. IInv => TypeOK BY DEF IInv
  <1> QED BY <1>1, Invariance, PTL

(* When close() has returned the queue is empty and no shard goroutine      *)
(* holds an event it could still send: main() waits for the shards first.   *)
THEOREM CloseLeavesNothing == Spec => []ClosedQueueIsEmpty
  <1>1. IInv => ClosedQueueIsEmpty
    <2> SUFFICES ASSUME IInv, run = "done"
                 PROVE  queue = <<>> /\ \A s \in Shards : shard[s].msg = NoMsg
      BY DEF ClosedQueueIsEmpty
    <2>1. queue = <<>> /\ phase \in {"closing", "exited", "crashed"}
      BY DEF IInv, ShutdownOrder, Draining
    <2>2. ASSUME NEW s \in Shards PROVE shard[s].msg = NoMsg
      BY <2>1 DEF IInv, ShutdownOrder, ShardHands, Busy
    <2> QED BY <2>1, <2>2
  <1> QED BY <1>1, Invariance, PTL

-----------------------------------------------------------------------------
(* No step forgets an event. *)

LEMMA KeepFrame ==
  /\ UNCHANGED shard => ShardHeld' = ShardHeld
  /\ UNCHANGED inflight => ClientHeld' = ClientHeld
  /\ UNCHANGED reports => ReportedFailures' = ReportedFailures
  /\ UNCHANGED log => Delivered' = Delivered
  BY DEF ShardHeld, ClientHeld, ReportedFailures, Delivered

LEMMA ShardHeldMoves ==
  ASSUME ShardType, NEW s \in Shards, NEW pc \in ShardPc, NEW m \in Msg \cup {NoMsg},
         ShardAt(s, pc, m)
  PROVE  ShardHeld \subseteq ShardHeld' \cup {shard[s].msg} /\ m \in ShardHeld'
  BY ShardAtEffect DEF ShardHeld

LEMMA ClientTakes ==
  ASSUME ClientType, NEW r \in Record, inflight' = Append(inflight, r)
  PROVE  ClientHeld' = ClientHeld \cup {r.msg}
  <1>1. Elems(inflight') = Elems(inflight) \cup {r} BY ElemsAppend DEF ClientType
  <1> QED BY <1>1 DEF ClientHeld

LEMMA ClientGives ==
  ASSUME ClientType, inflight # <<>>, inflight' = Tail(inflight)
  PROVE  ClientHeld = {Head(inflight).msg} \cup ClientHeld' /\ Head(inflight) \in Record
  <1>1. Elems(inflight) = {Head(inflight)} \cup Elems(inflight') /\ Head(inflight) \in Record
    BY ElemsTail DEF ClientType
  <1> QED BY <1>1 DEF ClientHeld

LEMMA BrokerStores ==
  ASSUME ClientType, NEW r \in Record, log' = Append(log, r)
  PROVE  Delivered' = Delivered \cup {r.msg}
  <1>1. Elems(log') = Elems(log) \cup {r} BY ElemsAppend DEF ClientType
  <1> QED BY <1>1 DEF Delivered

LEMMA ReportMade ==
  ASSUME ClientType, NEW r \in Report, reports' = Append(reports, r)
  PROVE  /\ ReportedFailures \subseteq ReportedFailures'
         /\ r.msg \in Msg /\ r.err # "none" => r.msg \in ReportedFailures'
  <1>1. Elems(reports') = Elems(reports) \cup {r} BY ElemsAppend DEF ClientType
  <1> QED BY <1>1 DEF ReportedFailures

LEMMA ReportTaken ==
  ASSUME ClientType, reports # <<>>, reports' = Tail(reports)
  PROVE  \A x \in ReportedFailures :
           x \in ReportedFailures' \/ (x = Head(reports).msg /\ Head(reports).err # "none")
  <1>1. Elems(reports) = {Head(reports)} \cup Elems(reports') BY ElemsTail DEF ClientType
  <1> QED BY <1>1 DEF ReportedFailures

(* Keeps: what was accounted for still is. *)
Keeps == \A x \in Msg : x \in Accounted => x \in Accounted'

LEMMA ShardKeeps ==
  ASSUME IInv, NEW s \in Shards, ShardStep(s)
  PROVE  Keeps /\ (Submit(s) => <<s, sent[s] + 1>> \in Accounted')
  <1> USE DEF Keeps, Accounted, InMemory, OnDisk
  <1>0. ShardType /\ QueueType /\ FileType /\ LossType BY DEF IInv, TypeOK
  <1>1. CASE Submit(s)
    <2> DEFINE m == <<s, sent[s] + 1>>
    <2>1. m \in Msg BY <1>1, NextEvent DEF Submit
    <2>2. shard[s].msg = NoMsg BY <1>1 DEF Submit, IInv, ShardHands, Busy
    <2>3. /\ counted \subseteq counted'
          /\ UNCHANGED <<runVars, clientVars, delivMsg, fileVars, wiped, merged, stranded>>
      BY <1>1 DEF Submit
    <2> HIDE DEF m
    <2>4. Elems(queue) \subseteq Elems(queue') /\ m \in ShardHeld' \cup Elems(queue')
          /\ ShardHeld \subseteq ShardHeld' \cup {NoMsg}
      <3>1. CASE Enqueue(m) /\ UNCHANGED shard
        BY <1>0, <2>1, <3>1, EnqueueEffect, KeepFrame
      <3>2. CASE UNCHANGED queue /\ \E pc \in Busy : ShardAt(s, pc, m)
        <4>1. PICK pc \in Busy : ShardAt(s, pc, m) BY <3>2
        <4>2. pc \in ShardPc BY DEF Busy, ShardPc
        <4> QED BY <1>0, <2>1, <2>2, <3>2, <4>1, <4>2, ShardHeldMoves
      <3> QED BY <1>1, <3>1, <3>2 DEF Submit, Busy, m
    <2>5. Keeps /\ m \in Accounted'
      BY <2>3, <2>4, KeepFrame, MsgIsNotNoMsg DEF runVars, clientVars, fileVars
    <2> QED BY <2>5 DEF m
  <1>2. CASE SubmitBlocked(s) \/ (SubmitResend(s) /\ QueueHasRoom)
    <2>1. shard[s].msg \in Msg BY <1>2, BusyShardIsEarly DEF SubmitBlocked, SubmitResend, Busy
    <2>2. Enqueue(shard[s].msg) /\ ShardAt(s, "idle", NoMsg) /\ counted \subseteq counted'
          /\ UNCHANGED <<runVars, clientVars, delivMsg, fileVars, wiped, merged, stranded>>
      BY <1>2 DEF SubmitBlocked, SubmitResend, history
    <2>3. Elems(queue') = Elems(queue) \cup {shard[s].msg}
      BY <1>0, <2>1, <2>2, EnqueueEffect
    <2>4. ShardHeld \subseteq ShardHeld' \cup {shard[s].msg}
      BY <1>0, <2>2, ShardHeldMoves DEF ShardPc
    <2>5. Keeps
      BY <2>2, <2>3, <2>4, KeepFrame DEF runVars, clientVars, fileVars
    <2>6. ~Submit(s) BY <1>2 DEF SubmitBlocked, SubmitResend, Submit
    <2> QED BY <2>5, <2>6
  <1>3. CASE SubmitEvict(s) \/ (SubmitResend(s) /\ ~QueueHasRoom)
    <2>1. shard[s].msg \in Msg BY <1>3, BusyShardIsEarly DEF SubmitEvict, SubmitResend, Busy
    <2>2. PICK pc \in {"resend", "spool"} : ShardAt(s, pc, shard[s].msg)
      BY <1>3 DEF SubmitEvict, SubmitResend, Enqueue
    <2>3. ShardHeld \subseteq ShardHeld'
      BY <1>0, <2>1, <2>2, ShardHeldMoves DEF ShardPc
    <2>4. Elems(queue) \subseteq Elems(queue') \cup counted' /\ counted \subseteq counted'
      <3>1. CASE queue # <<>> /\ queue' = Tail(queue) /\ counted' = counted \cup {Head(queue)}
        BY <1>0, <3>1, DequeueEffect
      <3>2. CASE UNCHANGED queue /\ counted \subseteq counted'
        BY <3>2
      <3> QED BY <1>3, <3>1, <3>2 DEF SubmitEvict, SubmitResend, Enqueue
    <2>5. UNCHANGED <<runVars, clientVars, delivMsg, fileVars, wiped, merged, stranded>>
      BY <1>3 DEF SubmitEvict, SubmitResend
    <2>6. Keeps
      BY <2>3, <2>4, <2>5, KeepFrame DEF runVars, clientVars, fileVars
    <2>7. ~Submit(s) BY <1>3 DEF SubmitEvict, SubmitResend, Submit
    <2> QED BY <2>6, <2>7
  <1>4. CASE SubmitSpool(s)
    <2>1. shard[s].msg \in Msg BY <1>4, BusyShardIsEarly DEF SubmitSpool, Busy
    <2>2. Elems(spool) \cup counted \cup wiped \cup merged \cup {shard[s].msg}
            \subseteq Elems(spool') \cup counted' \cup wiped' \cup merged'
      BY <1>0, <1>4, <2>1, SpoolMessageKeeps DEF SubmitSpool
    <2>3. ShardHeld \subseteq ShardHeld' \cup {shard[s].msg}
      BY <1>0, <1>4, ShardHeldMoves DEF SubmitSpool, ShardPc
    <2>4. UNCHANGED <<queue, runVars, clientVars, delivMsg, stranded>>
      BY <1>4 DEF SubmitSpool, spoolMessage
    <2>5. Keeps
      BY <2>2, <2>3, <2>4, KeepFrame DEF runVars, clientVars
    <2>6. ~Submit(s) BY <1>4 DEF SubmitSpool, Submit
    <2> QED BY <2>5, <2>6
  <1>5. CASE ShardExit(s)
    <2>1. shard[s].msg = NoMsg BY <1>5 DEF ShardExit, IInv, ShardHands, Busy
    <2>2. ShardHeld \subseteq ShardHeld' \cup {NoMsg}
      BY <1>0, <1>5, <2>1, ShardHeldMoves DEF ShardExit, ShardPc
    <2>3. UNCHANGED <<queue, runVars, clientVars, delivMsg, fileVars, history, sent>>
      BY <1>5 DEF ShardExit, MainStep
    <2>4. Keeps
      BY <2>2, <2>3, KeepFrame, MsgIsNotNoMsg DEF runVars, clientVars, fileVars, history
    <2>5. ASSUME Submit(s) PROVE FALSE
      <3>1. sent'[s] = sent[s] + 1 /\ sent[s] \in Nat
        BY <2>5 DEF Submit, IInv, TypeOK, MainType, Sources
      <3> QED BY <2>3, <3>1
    <2> QED BY <2>4, <2>5
  <1> QED BY <1>1, <1>2, <1>3, <1>4, <1>5 DEF ShardStep

LEMMA RunKeeps ==
  ASSUME IInv, RunStep
  PROVE  Keeps
  <1> USE DEF Keeps, Accounted, InMemory, OnDisk
  <1>0. QueueType /\ RunType /\ ClientType /\ FileType /\ LossType BY DEF IInv, TypeOK
  <1>1. CASE RunDequeue \/ DrainTake \/ DrainRest
    <2>1. /\ queue # <<>> /\ queue' = Tail(queue) /\ runMsg' = Head(queue)
          /\ run \notin {"produce", "spool"}
          /\ UNCHANGED <<shard, batch, retained, clientVars, delivMsg, fileVars, history>>
      BY <1>1 DEF RunDequeue, DrainTake, DrainRest
    <2>2. runMsg = NoMsg BY <2>1 DEF IInv, RunHands
    <2>3. Elems(queue) = {runMsg'} \cup Elems(queue')
      BY <1>0, <2>1, DequeueEffect
    <2> QED BY <2>1, <2>2, <2>3, KeepFrame, MsgIsNotNoMsg DEF clientVars, fileVars, history
  <1>2. CASE RunProduce
    <2>1. UNCHANGED <<shard, queue, batch, retained, reports, log, delivMsg, fileVars, history>>
      BY <1>2 DEF RunProduce
    <2>2. CASE UNCHANGED <<inflight, runMsg>>
      BY <2>1, <2>2, KeepFrame DEF fileVars, history
    <2>3. CASE inflight' = Append(inflight, [msg |-> runMsg, topic |-> "raw"])
      <3>1. [msg |-> runMsg, topic |-> "raw"] \in Record
        BY <1>2 DEF RunProduce, IInv, RunHands, Record, Topic
      <3>2. ClientHeld' = ClientHeld \cup {runMsg}
        BY <1>0, <2>3, <3>1, ClientTakes
      <3> QED BY <2>1, <3>2, KeepFrame DEF fileVars, history
    <2> QED BY <1>2, <2>2, <2>3 DEF RunProduce
  <1>3. CASE RunSpool
    <2>1. runMsg \in Msg BY <1>3 DEF RunSpool, IInv, RunHands
    <2>2. Elems(spool) \cup counted \cup wiped \cup merged \cup {runMsg}
            \subseteq Elems(spool') \cup counted' \cup wiped' \cup merged'
      BY <1>0, <1>3, <2>1, SpoolMessageKeeps DEF RunSpool
    <2>3. UNCHANGED <<shard, queue, batch, retained, clientVars, delivMsg, stranded>>
      BY <1>3 DEF RunSpool, spoolMessage
    <2> QED BY <2>2, <2>3, KeepFrame DEF clientVars
  <1>4. CASE ReplayTick
    <2>1. batch' = spool /\ batch = <<>>
      BY <1>4 DEF ReplayTick, drainAll, IInv, RunHands
    <2>2. UNCHANGED <<shard, queue, runMsg, retained, clientVars, delivMsg, history>>
      BY <1>4 DEF ReplayTick
    <2> QED BY <2>1, <2>2, ElemsEmpty, KeepFrame DEF clientVars, history
  <1>5. CASE ReplayEnqueue
    <2>1. Head(batch) \in Msg /\ Elems(batch) = {Head(batch)} \cup Elems(batch')
      BY <1>0, <1>5, ElemsTail DEF ReplayEnqueue, RunType
    <2>2. Elems(queue) \cup Elems(retained) \cup {Head(batch)} \subseteq Elems(queue') \cup Elems(retained')
      <3>1. CASE Enqueue(Head(batch)) /\ UNCHANGED retained
        BY <1>0, <2>1, <3>1, EnqueueEffect
      <3>2. CASE UNCHANGED queue /\ retained' = Append(retained, Head(batch))
        BY <1>0, <2>1, <3>2, ElemsAppend DEF RunType
      <3> QED BY <1>5, <3>1, <3>2 DEF ReplayEnqueue
    <2>3. UNCHANGED <<shard, runMsg, clientVars, delivMsg, fileVars, history>>
      BY <1>5 DEF ReplayEnqueue
    <2> QED BY <2>1, <2>2, <2>3, KeepFrame DEF clientVars, fileVars, history
  <1>6. CASE ReplayRetain
    <2>1. Head(retained) \in Msg /\ Elems(retained) = {Head(retained)} \cup Elems(retained')
      BY <1>0, <1>6, ElemsTail DEF ReplayRetain, RunType
    <2>2. Elems(spool) \cup counted \cup wiped \cup merged \cup {Head(retained)}
            \subseteq Elems(spool') \cup counted' \cup wiped' \cup merged'
      BY <1>0, <1>6, <2>1, SpoolMessageKeeps DEF ReplayRetain
    <2>3. UNCHANGED <<shard, queue, runMsg, batch, clientVars, delivMsg, stranded>>
      BY <1>6 DEF ReplayRetain, spoolMessage
    <2> QED BY <2>1, <2>2, <2>3, KeepFrame DEF clientVars
  <1>7. CASE ReplayDone \/ RunStop \/ DrainTimeout \/ DrainDone
    <2>1. /\ UNCHANGED <<shard, queue, runMsg, batch, retained, clientVars, delivMsg, fileVars,
                         wiped, merged, stranded>>
          /\ counted \subseteq counted'
      BY <1>7 DEF ReplayDone, RunStop, DrainTimeout, DrainDone, history
    <2> QED BY <2>1, KeepFrame DEF clientVars, fileVars
  <1> QED BY <1>1, <1>2, <1>3, <1>4, <1>5, <1>6, <1>7 DEF RunStep

LEMMA PublishMetricsKeeps ==
  ASSUME IInv, PublishMetrics
  PROVE  Keeps /\ <<Metrics, sent[Metrics] + 1>> \in Accounted'
  <1> DEFINE m == <<Metrics, sent[Metrics] + 1>>
  <1>1. m \in Msg BY NextMetrics DEF PublishMetrics
  <1>2. /\ UNCHANGED <<shard, queue, runVars, reports, log, delivMsg, fileVars, wiped, merged, stranded>>
        /\ \/ inflight' = Append(inflight, [msg |-> m, topic |-> "metrics"]) /\ counted' = counted
           \/ inflight' = inflight /\ counted' = counted \cup {m}
    BY DEF PublishMetrics
  <1> HIDE DEF m
  <1>3. [msg |-> m, topic |-> "metrics"] \in Record /\ ClientType
    BY <1>1 DEF IInv, TypeOK, Record, Topic
  <1>4. ClientHeld \cup counted \cup {m} \subseteq ClientHeld' \cup counted'
    BY <1>2, <1>3, ClientTakes, KeepFrame
  <1>5. Keeps /\ m \in Accounted'
    BY <1>2, <1>4, KeepFrame DEF Keeps, Accounted, InMemory, OnDisk, runVars, fileVars
  <1> QED BY <1>5 DEF m

LEMMA ClientKeeps ==
  ASSUME IInv, ClientStep
  PROVE  Keeps
  <1> USE DEF Keeps, Accounted, InMemory, OnDisk
  <1>0. ClientType BY DEF IInv, TypeOK
  <1>1. CASE Deliver
    <2>1. /\ inflight # <<>> /\ inflight' = Tail(inflight) /\ log' = Append(log, Head(inflight))
          /\ reports' = Append(reports, [msg |-> Head(inflight).msg, err |-> "none"])
          /\ UNCHANGED <<shard, queue, runVars, delivMsg, fileVars, history>>
      BY <1>1 DEF Deliver
    <2>2. ClientHeld = {Head(inflight).msg} \cup ClientHeld' /\ Head(inflight) \in Record
      BY <1>0, <2>1, ClientGives
    <2>3. Delivered' = Delivered \cup {Head(inflight).msg}
      BY <1>0, <2>1, <2>2, BrokerStores
    <2>4. ReportedFailures \subseteq ReportedFailures'
      <3>1. [msg |-> Head(inflight).msg, err |-> "none"] \in Report
        BY <2>2 DEF Record, Report, Err
      <3> QED BY <1>0, <2>1, <3>1, ReportMade
    <2> QED BY <2>1, <2>2, <2>3, <2>4, KeepFrame DEF runVars, fileVars, history
  <1>2. ASSUME NEW err \in Err \ {"none"}, NEW stored \in BOOLEAN, DeliverFail(err, stored)
        PROVE  Keeps
    <2> DEFINE rep == [msg |-> Head(inflight).msg, err |-> err]
    <2>1. /\ inflight # <<>> /\ inflight' = Tail(inflight) /\ reports' = Append(reports, rep)
          /\ log' \in {log, Append(log, Head(inflight))}
          /\ UNCHANGED <<shard, queue, runVars, delivMsg, fileVars, counted, wiped, merged, stranded>>
      BY <1>2 DEF DeliverFail
    <2>2. ClientHeld = {Head(inflight).msg} \cup ClientHeld' /\ Head(inflight) \in Record
      BY <1>0, <2>1, ClientGives
    <2>3. Delivered \subseteq Delivered'
      BY <1>0, <2>1, <2>2, BrokerStores, KeepFrame
    <2>4. rep \in Report /\ rep.msg \in Msg /\ rep.err # "none" /\ rep.msg = Head(inflight).msg
      BY <2>2 DEF Record, Report
    <2>5. ReportedFailures \cup {Head(inflight).msg} \subseteq ReportedFailures'
      BY <1>0, <2>1, <2>4, ReportMade
    <2> QED BY <2>1, <2>2, <2>3, <2>5, KeepFrame DEF runVars, fileVars
  <1>3. ASSUME NEW err \in Err \ {"none"}, ClientError(err)
        PROVE  Keeps
    <2>1. /\ reports' = Append(reports, [msg |-> NoMsg, err |-> err])
          /\ UNCHANGED <<shard, queue, runVars, inflight, log, delivMsg, fileVars, history>>
      BY <1>3 DEF ClientError
    <2>2. [msg |-> NoMsg, err |-> err] \in Report BY DEF Report
    <2>3. ReportedFailures \subseteq ReportedFailures'
      BY <1>0, <2>1, <2>2, ReportMade
    <2> QED BY <2>1, <2>3, KeepFrame DEF runVars, fileVars, history
  <1> QED BY <1>1, <1>2, <1>3 DEF ClientStep

LEMMA ReportKeeps ==
  ASSUME IInv, TakeReport \/ SpoolFailedDelivery \/ CircuitExpire
  PROVE  Keeps
  <1> USE DEF Keeps, Accounted, InMemory, OnDisk
  <1>0. ClientType /\ FileType /\ LossType BY DEF IInv, TypeOK
  <1>1. CASE TakeReport
    <2>1. /\ reports # <<>> /\ reports' = Tail(reports) /\ delivMsg = NoMsg
          /\ Head(reports).err # "none" => delivMsg' = Head(reports).msg
          /\ UNCHANGED <<shard, queue, runVars, inflight, log, fileVars, history>>
      BY <1>1 DEF TakeReport
    <2>2. \A x \in ReportedFailures : x \in ReportedFailures' \/ x = delivMsg'
      BY <1>0, <2>1, ReportTaken
    <2> QED BY <2>1, <2>2, KeepFrame, MsgIsNotNoMsg DEF runVars, fileVars, history
  <1>2. CASE SpoolFailedDelivery
    <2>1. delivMsg \in Msg BY <1>2 DEF SpoolFailedDelivery, IInv, TypeOK, ReportType
    <2>2. Elems(spool) \cup counted \cup wiped \cup merged \cup {delivMsg}
            \subseteq Elems(spool') \cup counted' \cup wiped' \cup merged'
      BY <1>0, <1>2, <2>1, SpoolMessageKeeps DEF SpoolFailedDelivery
    <2>3. UNCHANGED <<shard, queue, runVars, clientVars, stranded>>
      BY <1>2 DEF SpoolFailedDelivery, spoolMessage
    <2> QED BY <2>2, <2>3, KeepFrame DEF runVars, clientVars
  <1>3. CASE CircuitExpire
    <2>1. UNCHANGED <<shard, queue, runVars, clientVars, delivMsg, fileVars, history>>
      BY <1>3 DEF CircuitExpire
    <2> QED BY <2>1, KeepFrame DEF runVars, clientVars, fileVars, history
  <1> QED BY <1>1, <1>2, <1>3

LEMMA MainKeeps ==
  ASSUME IInv, Signal \/ WaitDone \/ FlushReturn \/ Exit \/ Crash \/ Restart
  PROVE  Keeps
  <1> USE DEF Keeps, Accounted, OnDisk
  <1>1. CASE Signal \/ WaitDone \/ FlushReturn
    <2>1. UNCHANGED <<shard, queue, runVars, clientVars, delivMsg, fileVars, history>>
      BY <1>1 DEF Signal, WaitDone, FlushReturn, MainStep
    <2> QED BY <2>1, KeepFrame DEF InMemory, runVars, clientVars, fileVars, history
  <1>2. CASE Exit
    <2>1. /\ stranded' = stranded \cup (InMemory \ {NoMsg})
          /\ UNCHANGED <<log, fileVars, counted, wiped, merged>>
      BY <1>2 DEF Exit, ProcessEnds
    <2> QED BY <2>1, KeepFrame, MsgIsNotNoMsg DEF fileVars
  <1>3. CASE Crash
    <2>1. /\ stranded' = stranded \cup (InMemory \ {NoMsg})
          /\ UNCHANGED <<log, counted, merged>>
          /\ \/ UNCHANGED <<fileVars, wiped>>
             \/ spool' = KeptRecords /\ wiped' = wiped \cup Erased
      BY <1>3 DEF Crash, ProcessEnds
    <2>2. Elems(spool) \cup wiped \subseteq Elems(spool') \cup wiped'
      BY <2>1, KeptType DEF IInv, TypeOK, fileVars
    <2> QED BY <2>1, <2>2, KeepFrame, MsgIsNotNoMsg
  <1>4. CASE Restart
    <2>1. batch = <<>> BY <1>4 DEF Restart, IInv, ShutdownOrder, RunHands
    <2>2. Elems(spool) \subseteq Elems(batch') \cup Elems(spool')
      BY <1>4 DEF Restart, drainAll, fileVars
    <2>3. UNCHANGED <<shard, queue, runMsg, retained, clientVars, delivMsg, history>>
      BY <1>4 DEF Restart
    <2> QED BY <2>1, <2>2, <2>3, ElemsEmpty, KeepFrame DEF InMemory, clientVars, history
  <1> QED BY <1>1, <1>2, <1>3, <1>4

LEMMA NewlySent ==
  ASSUME IInv, NEW src \in Sources, sent' = [sent EXCEPT ![src] = @ + 1],
         NEW m \in Msg, Sent(m)'
  PROVE  Sent(m) \/ m = <<src, sent[src] + 1>>
  <1>1. sent \in [Sources -> Nat] BY DEF IInv, TypeOK, MainType
  <1>2. m[1] \in Sources /\ m[2] \in Nat /\ m = <<m[1], m[2]>>
    BY BoundsAssumption DEF Msg, Sources
  <1>3. CASE m[1] = src
    BY <1>1, <1>2, <1>3 DEF Sent
  <1>4. CASE m[1] # src
    BY <1>1, <1>2, <1>4 DEF Sent
  <1> QED BY <1>3, <1>4

(* A step that publishes nothing and forgets nothing loses nothing. *)
LEMMA KeptIsNotLost ==
  ASSUME NoSilentLoss, Keeps, UNCHANGED sent
  PROVE  NoSilentLoss'
  BY DEF NoSilentLoss, Keeps, Sent

LEMMA NextNoSilentLoss ==
  ASSUME IInv, NoSilentLoss, [Next]_vars
  PROVE  NoSilentLoss'
  <1>1. ASSUME NEW s \in Shards, ShardStep(s) PROVE NoSilentLoss'
    <2>1. Keeps /\ (Submit(s) => <<s, sent[s] + 1>> \in Accounted')
      BY <1>1, ShardKeeps
    <2>2. CASE Submit(s)
      <3>1. sent' = [sent EXCEPT ![s] = @ + 1] /\ s \in Sources BY <2>2 DEF Submit, Sources
      <3>2. ASSUME NEW m \in Msg, Sent(m)' PROVE m \in Accounted'
        <4>1. Sent(m) \/ m = <<s, sent[s] + 1>> BY <3>1, <3>2, NewlySent
        <4> QED BY <2>1, <2>2, <4>1 DEF NoSilentLoss, Keeps
      <3> QED BY <3>2 DEF NoSilentLoss
    <2>3. CASE ~Submit(s)
      <3>1. UNCHANGED sent
        BY <1>1, <2>3 DEF ShardStep, SubmitBlocked, SubmitEvict, SubmitResend, SubmitSpool,
                          ShardExit, MainStep, mainVars
      <3> QED BY <2>1, <3>1, KeptIsNotLost
    <2> QED BY <2>2, <2>3
  <1>2. CASE RunStep
    <2>1. UNCHANGED sent
      BY <1>2 DEF RunStep, RunDequeue, RunProduce, RunSpool, RunStop, ReplayTick, ReplayEnqueue,
                  ReplayRetain, ReplayDone, DrainTake, DrainTimeout, DrainRest, DrainDone, mainVars
    <2> QED BY <1>2, <2>1, RunKeeps, KeptIsNotLost
  <1>3. CASE PublishMetrics
    <2>1. Keeps /\ <<Metrics, sent[Metrics] + 1>> \in Accounted'
      BY <1>3, PublishMetricsKeeps
    <2>2. sent' = [sent EXCEPT ![Metrics] = @ + 1] /\ Metrics \in Sources
      BY <1>3 DEF PublishMetrics, Sources
    <2>3. ASSUME NEW m \in Msg, Sent(m)' PROVE m \in Accounted'
      <3>1. Sent(m) \/ m = <<Metrics, sent[Metrics] + 1>> BY <2>2, <2>3, NewlySent
      <3> QED BY <2>1, <3>1 DEF NoSilentLoss, Keeps
    <2> QED BY <2>3 DEF NoSilentLoss
  <1>4. CASE ClientStep
    <2>1. UNCHANGED sent
      BY <1>4 DEF ClientStep, Deliver, DeliverFail, ClientError, mainVars
    <2> QED BY <1>4, <2>1, ClientKeeps, KeptIsNotLost
  <1>5. CASE TakeReport \/ SpoolFailedDelivery \/ CircuitExpire
    <2>1. UNCHANGED sent
      BY <1>5 DEF TakeReport, SpoolFailedDelivery, CircuitExpire, mainVars
    <2> QED BY <1>5, <2>1, ReportKeeps, KeptIsNotLost
  <1>6. CASE Signal \/ WaitDone \/ FlushReturn \/ Exit \/ Crash \/ Restart
    <2>1. UNCHANGED sent
      BY <1>6 DEF Signal, WaitDone, FlushReturn, MainStep, Exit, Crash, ProcessEnds, Restart
    <2> QED BY <1>6, <2>1, MainKeeps, KeptIsNotLost
  <1>7. CASE UNCHANGED vars
    <2>1. UNCHANGED <<shard, queue, runVars, clientVars, delivMsg, fileVars, history, sent>>
      BY <1>7 DEF vars, runVars, clientVars, fileVars, history
    <2>2. Keeps
      BY <2>1, KeepFrame DEF Keeps, Accounted, InMemory, OnDisk, runVars, clientVars, fileVars, history
    <2> QED BY <2>1, <2>2, KeptIsNotLost
  <1> QED BY <1>1, <1>2, <1>3, <1>4, <1>5, <1>6, <1>7 DEF Next

(* No event is lost silently: whatever the brokers, the client, the disk    *)
(* and the scheduler do, and wherever the process is killed, a published    *)
(* event is held, spooled, delivered, counted, or lost to one of the three  *)
(* uncounted causes the model names (size limit, torn line, process end).   *)
THEOREM NothingIsLostSilently == Spec => []NoSilentLoss
  <1>1. Init => NoSilentLoss
    <2> SUFFICES ASSUME Init, NEW m \in Msg PROVE ~Sent(m)
      BY DEF NoSilentLoss
    <2>1. m[1] \in Sources /\ m[2] \in Nat \ {0}
      BY BoundsAssumption DEF Msg, Sources
    <2> QED BY <2>1 DEF Init, Sent
  <1>2. IInv /\ NoSilentLoss /\ [Next]_vars => NoSilentLoss'
    BY NextNoSilentLoss
  <1> QED BY <1>1, <1>2, Invariance, PTL DEF Spec

-----------------------------------------------------------------------------
(* Where the copies of one event are: no event is duplicated or comes back  *)
(* once it is gone, so that QueuedProducer implements Delivery, and events  *)
(* that avoid the spool stay in order.                                      *)

(* where a sequence has members of T *)
Occ(q, T) == {j \in DOMAIN q : q[j] \in T}
Single(X) == \A a, b \in X : a = b

(* the records and the failure reports of m *)
RecordsOf(m)  == {r \in Record : r.msg = m}
FailuresOf(m) == {r \in Report : r.msg = m /\ r.err # "none"}

ShardsWith(m) == {t \in Shards : shard[t].msg = m}
QueueAt(m)    == Occ(queue, {m})
BatchAt(m)    == Occ(batch, {m})
RetainedAt(m) == Occ(retained, {m})
ClientAt(m)   == Occ(inflight, RecordsOf(m))
ReportAt(m)   == Occ(reports, FailuresOf(m))
SpoolAt(m)    == Occ(spool, {m})
StoredAt(m)   == Occ(log, RecordsOf(m))

Holds(m) ==
  \/ ShardsWith(m) # {} \/ QueueAt(m) # {} \/ BatchAt(m) # {} \/ RetainedAt(m) # {}
  \/ ClientAt(m) # {} \/ ReportAt(m) # {} \/ runMsg = m \/ delivMsg = m

Exists(m) == Holds(m) \/ SpoolAt(m) # {} \/ StoredAt(m) # {}

(* No two places hold m. *)
Apart(m) ==
  /\ ShardsWith(m) # {} => /\ QueueAt(m) = {} /\ BatchAt(m) = {} /\ RetainedAt(m) = {} /\ ClientAt(m) = {}
                           /\ ReportAt(m) = {} /\ SpoolAt(m) = {} /\ runMsg # m /\ delivMsg # m
  /\ QueueAt(m) # {} => /\ BatchAt(m) = {} /\ RetainedAt(m) = {} /\ ClientAt(m) = {}
                        /\ ReportAt(m) = {} /\ SpoolAt(m) = {} /\ runMsg # m /\ delivMsg # m
  /\ BatchAt(m) # {} => /\ RetainedAt(m) = {} /\ ClientAt(m) = {} /\ ReportAt(m) = {} /\ SpoolAt(m) = {}
                        /\ runMsg # m /\ delivMsg # m
  /\ RetainedAt(m) # {} => ClientAt(m) = {} /\ ReportAt(m) = {} /\ SpoolAt(m) = {} /\ runMsg # m /\ delivMsg # m
  /\ ClientAt(m) # {} => ReportAt(m) = {} /\ SpoolAt(m) = {} /\ runMsg # m /\ delivMsg # m
  /\ ReportAt(m) # {} => SpoolAt(m) = {} /\ runMsg # m /\ delivMsg # m
  /\ SpoolAt(m) # {} => runMsg # m /\ delivMsg # m
  /\ runMsg = m => delivMsg # m

(* Each holds it once, a delivered event is held no more unless its         *)
(* acknowledgement was lost, and only what was published exists.            *)
Lone(m) ==
  /\ Single(ShardsWith(m)) /\ Single(QueueAt(m)) /\ Single(BatchAt(m)) /\ Single(RetainedAt(m))
  /\ Single(ClientAt(m)) /\ Single(ReportAt(m)) /\ Single(SpoolAt(m))
  /\ Apart(m)
  /\ m \notin ackLost => Single(StoredAt(m)) /\ (StoredAt(m) # {} => ~Holds(m) /\ SpoolAt(m) = {})
  /\ Exists(m) => Sent(m)

AllLone == \A m \in Msg : Lone(m)

(* What a step may do with m: it stays the only copy, what is stored stays, *)
(* and m appears only when it is published, in memory or at the client.     *)
KeepsLone(m) ==
  /\ Lone(m)'
  /\ StoredAt(m) # {} => StoredAt(m)' # {}
  /\ Exists(m)' => Exists(m) \/ (~Sent(m) /\ SpoolAt(m)' = {})
  /\ Sent(m) => Sent(m)'

-----------------------------------------------------------------------------
(* Sequences *)

LEMMA OccEmpty == \A T : Occ(<<>>, T) = {}
  BY DEF Occ

LEMMA OccElems ==
  ASSUME NEW q, NEW T
  PROVE  Occ(q, T) # {} <=> \E e \in Elems(q) : e \in T
  BY DEF Occ, Elems

LEMMA OccAppend ==
  ASSUME NEW S, NEW q \in Seq(S), NEW e \in S, NEW T
  PROVE  /\ Occ(Append(q, e), T) # {} <=> Occ(q, T) # {} \/ e \in T
         /\ Single(Occ(q, T)) /\ (e \in T => Occ(q, T) = {}) => Single(Occ(Append(q, e), T))
  <1>1. /\ Len(q) \in Nat /\ DOMAIN q = 1 .. Len(q) /\ DOMAIN Append(q, e) = 1 .. Len(q) + 1
        /\ \A i \in 1 .. Len(q) : Append(q, e)[i] = q[i]
        /\ Append(q, e)[Len(q) + 1] = e
    OBVIOUS
  <1>2. Occ(q, T) \subseteq Occ(Append(q, e), T)
    <2>1. 1 .. Len(q) \subseteq 1 .. Len(q) + 1 BY <1>1
    <2> QED BY <1>1, <2>1 DEF Occ
  <1>3. Occ(Append(q, e), T) \subseteq Occ(q, T) \cup {Len(q) + 1}
    <2>1. \A i \in 1 .. Len(q) + 1 : i \in 1 .. Len(q) \/ i = Len(q) + 1 BY <1>1
    <2> QED BY <1>1, <2>1 DEF Occ
  <1>4. Len(q) + 1 \in Occ(Append(q, e), T) <=> e \in T
    <2>1. Len(q) + 1 \in 1 .. Len(q) + 1 BY <1>1
    <2> QED BY <1>1, <2>1 DEF Occ
  <1>5. CASE e \in T BY <1>2, <1>3, <1>4, <1>5 DEF Single
  <1>6. CASE e \notin T BY <1>2, <1>3, <1>4, <1>6 DEF Single
  <1> QED BY <1>5, <1>6

LEMMA OccTail ==
  ASSUME NEW S, NEW q \in Seq(S), q # <<>>, NEW T
  PROVE  /\ Head(q) \in S
         /\ Occ(q, T) # {} <=> Head(q) \in T \/ Occ(Tail(q), T) # {}
         /\ Single(Occ(q, T)) => /\ Single(Occ(Tail(q), T))
                                 /\ Head(q) \in T => Occ(Tail(q), T) = {}
  <1>1. /\ Len(q) \in Nat \ {0} /\ DOMAIN q = 1 .. Len(q) /\ Head(q) = q[1] /\ Head(q) \in S
        /\ Tail(q) \in Seq(S) /\ Len(Tail(q)) = Len(q) - 1
        /\ \A i \in 1 .. Len(q) - 1 : Tail(q)[i] = q[i + 1]
    OBVIOUS
  <1>2. DOMAIN Tail(q) = 1 .. Len(q) - 1 BY <1>1
  <1>3. \A i \in Occ(Tail(q), T) : i \in Nat /\ i # 0 /\ i + 1 \in Occ(q, T)
    <2>1. \A i \in 1 .. Len(q) - 1 : i \in Nat /\ i # 0 /\ i + 1 \in 1 .. Len(q) BY <1>1
    <2> QED BY <1>1, <1>2, <2>1 DEF Occ
  <1>4. \A i \in Occ(q, T) : i = 1 \/ (i - 1 \in Occ(Tail(q), T))
    <2>1. ASSUME NEW i \in Occ(q, T), i # 1 PROVE i - 1 \in Occ(Tail(q), T)
      <3>1. i \in 1 .. Len(q) /\ q[i] \in T BY <1>1 DEF Occ
      <3>2. i - 1 \in 1 .. Len(q) - 1 /\ (i - 1) + 1 = i BY <1>1, <2>1, <3>1
      <3>3. Tail(q)[i - 1] = q[i] BY <1>1, <3>2
      <3> QED BY <1>2, <3>1, <3>2, <3>3 DEF Occ
    <2> QED BY <2>1
  <1>5. 1 \in Occ(q, T) <=> Head(q) \in T
    <2>1. 1 \in 1 .. Len(q) BY <1>1
    <2> QED BY <1>1, <2>1 DEF Occ
  <1>6. Occ(q, T) # {} <=> Head(q) \in T \/ Occ(Tail(q), T) # {} BY <1>3, <1>4, <1>5
  <1>7. ASSUME Single(Occ(q, T))
        PROVE  Single(Occ(Tail(q), T)) /\ (Head(q) \in T => Occ(Tail(q), T) = {})
    <2>1. ASSUME NEW a \in Occ(Tail(q), T), NEW b \in Occ(Tail(q), T) PROVE a = b
      <3>1. a + 1 = b + 1 BY <1>3, <1>7 DEF Single
      <3>2. a \in Nat /\ b \in Nat BY <1>3
      <3> QED BY <3>1, <3>2
    <2>2. ASSUME Head(q) \in T, NEW a \in Occ(Tail(q), T) PROVE FALSE
      <3>1. a + 1 = 1 BY <1>3, <1>5, <1>7, <2>2 DEF Single
      <3>2. a \in Nat /\ a # 0 BY <1>3
      <3> QED BY <3>1, <3>2
    <2> QED BY <2>1, <2>2 DEF Single
  <1> QED BY <1>1, <1>6, <1>7

-----------------------------------------------------------------------------
(* Effects on the places of one event *)

LEMMA CopyFrame ==
  ASSUME NEW m
  PROVE  /\ UNCHANGED shard => ShardsWith(m)' = ShardsWith(m)
         /\ UNCHANGED queue => QueueAt(m)' = QueueAt(m)
         /\ UNCHANGED batch => BatchAt(m)' = BatchAt(m)
         /\ UNCHANGED retained => RetainedAt(m)' = RetainedAt(m)
         /\ UNCHANGED inflight => ClientAt(m)' = ClientAt(m)
         /\ UNCHANGED reports => ReportAt(m)' = ReportAt(m)
         /\ UNCHANGED spool => SpoolAt(m)' = SpoolAt(m)
         /\ UNCHANGED log => StoredAt(m)' = StoredAt(m)
         /\ UNCHANGED sent => Sent(m)' = Sent(m)
  BY DEF ShardsWith, QueueAt, BatchAt, RetainedAt, ClientAt, ReportAt, SpoolAt, StoredAt, Sent,
         RecordsOf, FailuresOf

LEMMA EnqueueCopies ==
  ASSUME QueueType, NEW n \in Msg, Enqueue(n), NEW m
  PROVE  /\ QueueAt(m)' # {} <=> QueueAt(m) # {} \/ n = m
         /\ Single(QueueAt(m)) /\ (n = m => QueueAt(m) = {}) => Single(QueueAt(m)')
  <1>1. queue \in Seq(Msg) /\ queue' = Append(queue, n) BY DEF QueueType, Enqueue
  <1>2. /\ Occ(Append(queue, n), {m}) # {} <=> Occ(queue, {m}) # {} \/ n \in {m}
        /\ Single(Occ(queue, {m})) /\ (n \in {m} => Occ(queue, {m}) = {}) => Single(Occ(Append(queue, n), {m}))
    BY <1>1, OccAppend
  <1> QED BY <1>1, <1>2 DEF QueueAt

LEMMA DequeueCopies ==
  ASSUME QueueType, queue # <<>>, queue' = Tail(queue), NEW m
  PROVE  /\ Head(queue) \in Msg
         /\ QueueAt(m) # {} <=> Head(queue) = m \/ QueueAt(m)' # {}
         /\ Single(QueueAt(m)) => Single(QueueAt(m)') /\ (Head(queue) = m => QueueAt(m)' = {})
  <1>1. queue \in Seq(Msg) BY DEF QueueType
  <1>2. /\ Head(queue) \in Msg
        /\ Occ(queue, {m}) # {} <=> Head(queue) \in {m} \/ Occ(Tail(queue), {m}) # {}
        /\ Single(Occ(queue, {m})) => /\ Single(Occ(Tail(queue), {m}))
                                      /\ Head(queue) \in {m} => Occ(Tail(queue), {m}) = {}
    BY <1>1, OccTail
  <1> QED BY <1>2 DEF QueueAt

LEMMA ShardCopies ==
  ASSUME ShardType, NEW s \in Shards, NEW pc \in ShardPc, NEW n \in Msg \cup {NoMsg},
         ShardAt(s, pc, n), NEW m \in Msg
  PROVE  /\ ShardsWith(m)' = (ShardsWith(m) \ {s}) \cup {t \in {s} : n = m}
         /\ shard[s].msg = m => s \in ShardsWith(m)
         /\ shard[s].msg # m => s \notin ShardsWith(m)
  <1>1. shard'[s].msg = n /\ \A t \in Shards \ {s} : shard'[t] = shard[t] BY ShardAtEffect
  <1> QED BY <1>1 DEF ShardsWith

LEMMA ClientTakesCopies ==
  ASSUME ClientType, NEW r \in Record, inflight' = Append(inflight, r), NEW m \in Msg
  PROVE  /\ ClientAt(m)' # {} <=> ClientAt(m) # {} \/ r.msg = m
         /\ Single(ClientAt(m)) /\ (r.msg = m => ClientAt(m) = {}) => Single(ClientAt(m)')
  <1>1. r \in RecordsOf(m) <=> r.msg = m BY DEF RecordsOf
  <1>2. inflight \in Seq(Record) BY DEF ClientType
  <1>3. /\ Occ(Append(inflight, r), RecordsOf(m)) # {} <=> Occ(inflight, RecordsOf(m)) # {} \/ r \in RecordsOf(m)
        /\ Single(Occ(inflight, RecordsOf(m))) /\ (r \in RecordsOf(m) => Occ(inflight, RecordsOf(m)) = {})
             => Single(Occ(Append(inflight, r), RecordsOf(m)))
    BY <1>2, OccAppend
  <1>4. RecordsOf(m)' = RecordsOf(m) BY DEF RecordsOf
  <1> QED BY <1>1, <1>3, <1>4 DEF ClientAt

LEMMA ClientGivesCopies ==
  ASSUME ClientType, inflight # <<>>, inflight' = Tail(inflight), NEW m \in Msg
  PROVE  /\ Head(inflight) \in Record
         /\ ClientAt(m) # {} <=> Head(inflight).msg = m \/ ClientAt(m)' # {}
         /\ Single(ClientAt(m)) => Single(ClientAt(m)') /\ (Head(inflight).msg = m => ClientAt(m)' = {})
  <1>1. inflight \in Seq(Record) BY DEF ClientType
  <1>2. /\ Head(inflight) \in Record
        /\ Occ(inflight, RecordsOf(m)) # {} <=> Head(inflight) \in RecordsOf(m) \/ Occ(Tail(inflight), RecordsOf(m)) # {}
        /\ Single(Occ(inflight, RecordsOf(m)))
             => /\ Single(Occ(Tail(inflight), RecordsOf(m)))
                /\ Head(inflight) \in RecordsOf(m) => Occ(Tail(inflight), RecordsOf(m)) = {}
    BY <1>1, OccTail
  <1>3. Head(inflight) \in RecordsOf(m) <=> Head(inflight).msg = m BY <1>2 DEF RecordsOf
  <1>4. RecordsOf(m)' = RecordsOf(m) BY DEF RecordsOf
  <1> QED BY <1>2, <1>3, <1>4 DEF ClientAt

LEMMA StoreCopies ==
  ASSUME ClientType, NEW r \in Record, log' = Append(log, r), NEW m \in Msg
  PROVE  /\ StoredAt(m)' # {} <=> StoredAt(m) # {} \/ r.msg = m
         /\ Single(StoredAt(m)) /\ (r.msg = m => StoredAt(m) = {}) => Single(StoredAt(m)')
  <1>1. r \in RecordsOf(m) <=> r.msg = m BY DEF RecordsOf
  <1>2. log \in Seq(Record) BY DEF ClientType
  <1>3. /\ Occ(Append(log, r), RecordsOf(m)) # {} <=> Occ(log, RecordsOf(m)) # {} \/ r \in RecordsOf(m)
        /\ Single(Occ(log, RecordsOf(m))) /\ (r \in RecordsOf(m) => Occ(log, RecordsOf(m)) = {})
             => Single(Occ(Append(log, r), RecordsOf(m)))
    BY <1>2, OccAppend
  <1>4. RecordsOf(m)' = RecordsOf(m) BY DEF RecordsOf
  <1> QED BY <1>1, <1>3, <1>4 DEF StoredAt

LEMMA ReportCopies ==
  ASSUME ClientType, NEW r \in Report, reports' = Append(reports, r), NEW m \in Msg
  PROVE  /\ ReportAt(m)' # {} <=> ReportAt(m) # {} \/ (r.msg = m /\ r.err # "none")
         /\ Single(ReportAt(m)) /\ (r.msg = m /\ r.err # "none" => ReportAt(m) = {}) => Single(ReportAt(m)')
  <1>1. r \in FailuresOf(m) <=> r.msg = m /\ r.err # "none" BY DEF FailuresOf
  <1>2. reports \in Seq(Report) BY DEF ClientType
  <1>3. /\ Occ(Append(reports, r), FailuresOf(m)) # {} <=> Occ(reports, FailuresOf(m)) # {} \/ r \in FailuresOf(m)
        /\ Single(Occ(reports, FailuresOf(m))) /\ (r \in FailuresOf(m) => Occ(reports, FailuresOf(m)) = {})
             => Single(Occ(Append(reports, r), FailuresOf(m)))
    BY <1>2, OccAppend
  <1>4. FailuresOf(m)' = FailuresOf(m) BY DEF FailuresOf
  <1> QED BY <1>1, <1>3, <1>4 DEF ReportAt

LEMMA ReportTakenCopies ==
  ASSUME ClientType, reports # <<>>, reports' = Tail(reports), NEW m \in Msg
  PROVE  /\ ReportAt(m) # {} <=> (Head(reports).msg = m /\ Head(reports).err # "none") \/ ReportAt(m)' # {}
         /\ Single(ReportAt(m))
              => /\ Single(ReportAt(m)')
                 /\ Head(reports).msg = m /\ Head(reports).err # "none" => ReportAt(m)' = {}
  <1>1. reports \in Seq(Report) BY DEF ClientType
  <1>2. /\ Head(reports) \in Report
        /\ Occ(reports, FailuresOf(m)) # {} <=> Head(reports) \in FailuresOf(m) \/ Occ(Tail(reports), FailuresOf(m)) # {}
        /\ Single(Occ(reports, FailuresOf(m)))
             => /\ Single(Occ(Tail(reports), FailuresOf(m)))
                /\ Head(reports) \in FailuresOf(m) => Occ(Tail(reports), FailuresOf(m)) = {}
    BY <1>1, OccTail
  <1>3. Head(reports) \in FailuresOf(m) <=> Head(reports).msg = m /\ Head(reports).err # "none"
    BY <1>2 DEF FailuresOf
  <1>4. FailuresOf(m)' = FailuresOf(m) BY DEF FailuresOf
  <1> QED BY <1>2, <1>3, <1>4 DEF ReportAt

(* The size limit erases, an append adds, a failed write does neither. *)
LEMMA SpoolCopies ==
  ASSUME FileType, NEW n \in Msg, spoolMessage(n), NEW m
  PROVE  /\ SpoolAt(m)' # {} => SpoolAt(m) # {} \/ n = m
         /\ Single(SpoolAt(m)) /\ (n = m => SpoolAt(m) = {}) => Single(SpoolAt(m)')
  <1>1. KeptRecords \in Seq(Msg) /\ (KeptRecords = spool \/ KeptRecords = <<>>)
    BY KeptType DEF KeptRecords
  <1>2. Occ(KeptRecords, {m}) = SpoolAt(m) \/ Occ(KeptRecords, {m}) = {}
    BY <1>1, OccEmpty DEF SpoolAt
  <1>3. spool' = spool \/ spool' = KeptRecords \/ spool' = Append(KeptRecords, n)
    BY DEF spoolMessage, Append1, WriteError
  <1>4. CASE spool' = spool BY <1>4, CopyFrame
  <1>5. CASE spool' = KeptRecords
    <2>1. SpoolAt(m)' = Occ(KeptRecords, {m}) BY <1>5 DEF SpoolAt
    <2> QED BY <1>2, <2>1 DEF Single
  <1>6. CASE spool' = Append(KeptRecords, n)
    <2>1. SpoolAt(m)' = Occ(Append(KeptRecords, n), {m}) BY <1>6 DEF SpoolAt
    <2>2. /\ Occ(Append(KeptRecords, n), {m}) # {} <=> Occ(KeptRecords, {m}) # {} \/ n \in {m}
          /\ Single(Occ(KeptRecords, {m})) /\ (n \in {m} => Occ(KeptRecords, {m}) = {})
               => Single(Occ(Append(KeptRecords, n), {m}))
      BY <1>1, OccAppend
    <2>3. Single({}) BY DEF Single
    <2> QED BY <1>2, <2>1, <2>2, <2>3
  <1> QED BY <1>3, <1>4, <1>5, <1>6

LEMMA NotYetSent ==
  ASSUME IInv, NEW src \in Sources, sent' = [sent EXCEPT ![src] = @ + 1], NEW m \in Msg
  PROVE  /\ Sent(m) => Sent(m)'
         /\ m = <<src, sent[src] + 1>> => ~Sent(m) /\ Sent(m)'
  <1>1. sent \in [Sources -> Nat] BY DEF IInv, TypeOK, MainType
  <1>2. m[1] \in Sources /\ m[2] \in Nat BY BoundsAssumption DEF Msg, Sources
  <1>3. sent'[src] = sent[src] + 1 /\ \A x \in Sources \ {src} : sent'[x] = sent[x] BY <1>1
  <1>4. ASSUME Sent(m) PROVE Sent(m)'
    <2>1. m[2] <= sent[m[1]] /\ sent[m[1]] \in Nat /\ sent'[m[1]] \in {sent[m[1]], sent[m[1]] + 1}
      BY <1>1, <1>2, <1>3, <1>4 DEF Sent
    <2> QED BY <1>2, <2>1 DEF Sent
  <1>5. ASSUME m = <<src, sent[src] + 1>> PROVE ~Sent(m) /\ Sent(m)'
    <2>1. m[1] = src /\ m[2] = sent[src] + 1 /\ sent[src] \in Nat BY <1>1, <1>5
    <2> QED BY <1>3, <2>1 DEF Sent
  <1> QED BY <1>4, <1>5

-----------------------------------------------------------------------------
(* Each action keeps the copies of an event apart. *)

LEMMA ShardLone ==
  ASSUME IInv, NEW s \in Shards, ShardStep(s), NEW m \in Msg, Lone(m)
  PROVE  KeepsLone(m)
  <1>0. ShardType /\ QueueType /\ FileType /\ m # NoMsg BY MsgIsNotNoMsg DEF IInv, TypeOK
  <1>1. CASE Submit(s)
    <2>1. PICK n \in Msg : n = <<s, sent[s] + 1>> BY <1>1, NextEvent DEF Submit
    <2>2. /\ UNCHANGED <<batch, retained, inflight, reports, spool, log, runMsg, delivMsg, ackLost>>
          /\ shard[s].msg = NoMsg
      BY <1>1 DEF Submit, runVars, clientVars, fileVars, IInv, ShardHands, Busy
    <2>3. (Sent(m) => Sent(m)') /\ (m = n => ~Sent(m) /\ Sent(m)')
      <3>1. sent' = [sent EXCEPT ![s] = @ + 1] /\ s \in Sources BY <1>1 DEF Submit, Sources
      <3> QED BY <2>1, <3>1, NotYetSent
    <2>4. m = n => ~Exists(m) BY <2>3 DEF Lone
    <2>5. \/ Enqueue(n) /\ UNCHANGED shard
          \/ UNCHANGED queue /\ \E pc \in Busy : ShardAt(s, pc, n)
      BY <1>1, <2>1 DEF Submit, Busy
    <2>6. CASE Enqueue(n) /\ UNCHANGED shard
      <3>1. /\ QueueAt(m)' # {} <=> QueueAt(m) # {} \/ n = m
            /\ Single(QueueAt(m)) /\ (n = m => QueueAt(m) = {}) => Single(QueueAt(m)')
        BY <1>0, <2>6, EnqueueCopies
      <3> QED BY <2>2, <2>3, <2>4, <2>6, <3>1, CopyFrame DEF KeepsLone, Lone, Apart, Exists, Holds
    <2>7. CASE UNCHANGED queue /\ \E pc \in Busy : ShardAt(s, pc, n)
      <3>1. PICK pc \in Busy : ShardAt(s, pc, n) BY <2>7
      <3>2. pc \in ShardPc BY DEF Busy, ShardPc
      <3>3. /\ ShardsWith(m)' = (ShardsWith(m) \ {s}) \cup {t \in {s} : n = m}
            /\ shard[s].msg # m => s \notin ShardsWith(m)
        BY <1>0, <3>1, <3>2, ShardCopies
      <3>4. ShardsWith(m)' = IF n = m THEN ShardsWith(m) \cup {s} ELSE ShardsWith(m)
        BY <1>0, <2>2, <3>3
      <3>5. Single({s}) BY DEF Single
      <3>6. CASE n = m
        <4>1. ShardsWith(m)' = {s} BY <2>4, <3>4, <3>6 DEF Exists, Holds
        <4> QED BY <2>2, <2>3, <2>4, <2>7, <3>5, <3>6, <4>1, CopyFrame DEF KeepsLone, Lone, Apart, Exists, Holds
      <3>7. CASE n # m
        BY <2>2, <2>3, <2>7, <3>4, <3>7, CopyFrame DEF KeepsLone, Lone, Apart, Exists, Holds
      <3> QED BY <3>6, <3>7
    <2> QED BY <2>5, <2>6, <2>7
  <1>2. CASE SubmitBlocked(s) \/ (SubmitResend(s) /\ QueueHasRoom)
    <2>1. PICK n \in Msg : n = shard[s].msg
      BY <1>2, BusyShardIsEarly DEF SubmitBlocked, SubmitResend, Busy
    <2>2. Enqueue(n) /\ ShardAt(s, "idle", NoMsg)
          /\ UNCHANGED <<batch, retained, inflight, reports, spool, log, runMsg, delivMsg, ackLost, sent>>
      BY <1>2, <2>1 DEF SubmitBlocked, SubmitResend, history, runVars, clientVars, fileVars, mainVars
    <2>3. /\ QueueAt(m)' # {} <=> QueueAt(m) # {} \/ n = m
          /\ Single(QueueAt(m)) /\ (n = m => QueueAt(m) = {}) => Single(QueueAt(m)')
      BY <1>0, <2>2, EnqueueCopies
    <2>4. /\ ShardsWith(m)' = ShardsWith(m) \ {s}
          /\ n = m <=> s \in ShardsWith(m)
      BY <1>0, <2>1, <2>2, ShardCopies DEF ShardPc
    <2>5. Single(ShardsWith(m)) => Single(ShardsWith(m)') /\ (n = m => ShardsWith(m)' = {})
      BY <2>4 DEF Single
    <2> QED BY <2>2, <2>3, <2>4, <2>5, CopyFrame DEF KeepsLone, Lone, Apart, Exists, Holds
  <1>3. CASE SubmitEvict(s) \/ (SubmitResend(s) /\ ~QueueHasRoom)
    <2>1. PICK n \in Msg : n = shard[s].msg
      BY <1>3, BusyShardIsEarly DEF SubmitEvict, SubmitResend, Busy
    <2>2. PICK pc \in {"resend", "spool"} : ShardAt(s, pc, n)
      BY <1>3, <2>1 DEF SubmitEvict, SubmitResend, Enqueue
    <2>3. ShardsWith(m)' = ShardsWith(m)
      <3>1. pc \in ShardPc BY DEF ShardPc
      <3>2. /\ ShardsWith(m)' = (ShardsWith(m) \ {s}) \cup {t \in {s} : n = m}
            /\ n = m <=> s \in ShardsWith(m)
        BY <1>0, <2>1, <2>2, <3>1, ShardCopies
      <3> QED BY <3>2
    <2>4. (QueueAt(m)' # {} => QueueAt(m) # {}) /\ (Single(QueueAt(m)) => Single(QueueAt(m)'))
      <3>1. CASE queue # <<>> /\ queue' = Tail(queue) BY <1>0, <3>1, DequeueCopies
      <3>2. CASE UNCHANGED queue BY <3>2, CopyFrame
      <3> QED BY <1>3, <3>1, <3>2 DEF SubmitEvict, SubmitResend, Enqueue
    <2>5. UNCHANGED <<batch, retained, inflight, reports, spool, log, runMsg, delivMsg, ackLost, sent>>
      BY <1>3 DEF SubmitEvict, SubmitResend, runVars, clientVars, fileVars, mainVars
    <2> QED BY <2>3, <2>4, <2>5, CopyFrame DEF KeepsLone, Lone, Apart, Exists, Holds
  <1>4. CASE SubmitSpool(s)
    <2>1. PICK n \in Msg : n = shard[s].msg BY <1>4, BusyShardIsEarly DEF SubmitSpool, Busy
    <2>2. spoolMessage(n) /\ ShardAt(s, "idle", NoMsg)
          /\ UNCHANGED <<queue, batch, retained, inflight, reports, log, runMsg, delivMsg, ackLost, sent>>
      BY <1>4, <2>1 DEF SubmitSpool, spoolMessage, runVars, clientVars, mainVars
    <2>3. /\ SpoolAt(m)' # {} => SpoolAt(m) # {} \/ n = m
          /\ Single(SpoolAt(m)) /\ (n = m => SpoolAt(m) = {}) => Single(SpoolAt(m)')
      BY <1>0, <2>2, SpoolCopies
    <2>4. /\ ShardsWith(m)' = ShardsWith(m) \ {s}
          /\ n = m <=> s \in ShardsWith(m)
      BY <1>0, <2>1, <2>2, ShardCopies DEF ShardPc
    <2>5. Single(ShardsWith(m)) => Single(ShardsWith(m)') /\ (n = m => ShardsWith(m)' = {})
      BY <2>4 DEF Single
    <2> QED BY <2>2, <2>3, <2>4, <2>5, CopyFrame DEF KeepsLone, Lone, Apart, Exists, Holds
  <1>5. CASE ShardExit(s)
    <2>1. ShardAt(s, "exited", NoMsg) /\ shard[s].msg = NoMsg
          /\ UNCHANGED <<queue, batch, retained, inflight, reports, spool, log, runMsg, delivMsg, ackLost, sent>>
      BY <1>5 DEF ShardExit, MainStep, runVars, clientVars, fileVars, history, IInv, ShardHands, Busy
    <2>2. ShardsWith(m)' = ShardsWith(m)
      <3>1. "exited" \in ShardPc BY DEF ShardPc
      <3>2. /\ ShardsWith(m)' = (ShardsWith(m) \ {s}) \cup {t \in {s} : NoMsg = m}
            /\ s \notin ShardsWith(m)
        BY <1>0, <2>1, <3>1, ShardCopies
      <3> QED BY <1>0, <3>2
    <2> QED BY <2>1, <2>2, CopyFrame DEF KeepsLone, Lone, Apart, Exists, Holds
  <1> QED BY <1>1, <1>2, <1>3, <1>4, <1>5 DEF ShardStep

LEMMA RunLone ==
  ASSUME IInv, RunStep, NEW m \in Msg, Lone(m)
  PROVE  KeepsLone(m)
  <1>0. QueueType /\ RunType /\ ClientType /\ FileType /\ m # NoMsg BY MsgIsNotNoMsg DEF IInv, TypeOK
  <1>1. CASE RunDequeue \/ DrainTake \/ DrainRest
    <2>1. /\ queue # <<>> /\ queue' = Tail(queue) /\ runMsg' = Head(queue) /\ runMsg = NoMsg
          /\ UNCHANGED <<shard, batch, retained, inflight, reports, spool, log, delivMsg, ackLost, sent>>
      BY <1>1 DEF RunDequeue, DrainTake, DrainRest, clientVars, fileVars, history, mainVars, IInv, RunHands
    <2>2. /\ QueueAt(m) # {} <=> runMsg' = m \/ QueueAt(m)' # {}
          /\ Single(QueueAt(m)) => Single(QueueAt(m)') /\ (runMsg' = m => QueueAt(m)' = {})
      BY <1>0, <2>1, DequeueCopies
    <2> QED BY <1>0, <2>1, <2>2, CopyFrame DEF KeepsLone, Lone, Apart, Exists, Holds
  <1>2. CASE RunProduce
    <2>1. UNCHANGED <<shard, queue, batch, retained, reports, spool, log, delivMsg, ackLost, sent>>
      BY <1>2 DEF RunProduce, fileVars, history, mainVars
    <2>2. CASE UNCHANGED <<inflight, runMsg>>
      BY <2>1, <2>2, CopyFrame DEF KeepsLone, Lone, Apart, Exists, Holds
    <2>3. CASE inflight' = Append(inflight, [msg |-> runMsg, topic |-> "raw"]) /\ runMsg' = NoMsg
      <3>1. PICK r \in Record : r = [msg |-> runMsg, topic |-> "raw"]
        BY <1>2 DEF RunProduce, IInv, RunHands, Record, Topic
      <3>2. r.msg = runMsg /\ inflight' = Append(inflight, r) BY <2>3, <3>1
      <3>3. /\ ClientAt(m)' # {} <=> ClientAt(m) # {} \/ runMsg = m
            /\ Single(ClientAt(m)) /\ (runMsg = m => ClientAt(m) = {}) => Single(ClientAt(m)')
        BY <1>0, <3>2, ClientTakesCopies
      <3> QED BY <1>0, <2>1, <2>3, <3>3, CopyFrame DEF KeepsLone, Lone, Apart, Exists, Holds
    <2> QED BY <1>2, <2>2, <2>3 DEF RunProduce
  <1>3. CASE RunSpool
    <2>1. /\ runMsg \in Msg /\ spoolMessage(runMsg) /\ runMsg' = NoMsg
          /\ UNCHANGED <<shard, queue, batch, retained, inflight, reports, log, delivMsg, ackLost, sent>>
      BY <1>3 DEF RunSpool, spoolMessage, clientVars, mainVars, IInv, RunHands
    <2>2. /\ SpoolAt(m)' # {} => SpoolAt(m) # {} \/ runMsg = m
          /\ Single(SpoolAt(m)) /\ (runMsg = m => SpoolAt(m) = {}) => Single(SpoolAt(m)')
      BY <1>0, <2>1, SpoolCopies
    <2> QED BY <1>0, <2>1, <2>2, CopyFrame DEF KeepsLone, Lone, Apart, Exists, Holds
  <1>4. CASE ReplayTick
    <2>1. /\ batch' = spool /\ spool' = <<>> /\ batch = <<>>
          /\ UNCHANGED <<shard, queue, runMsg, retained, inflight, reports, log, delivMsg, ackLost, sent>>
      BY <1>4 DEF ReplayTick, drainAll, clientVars, history, mainVars, IInv, RunHands
    <2>2. BatchAt(m)' = SpoolAt(m) /\ SpoolAt(m)' = {} /\ BatchAt(m) = {} /\ Single({})
      BY <2>1, OccEmpty DEF BatchAt, SpoolAt, Single
    <2> QED BY <2>1, <2>2, CopyFrame DEF KeepsLone, Lone, Apart, Exists, Holds
  <1>5. CASE ReplayEnqueue
    <2>1. /\ batch # <<>> /\ batch \in Seq(Msg) /\ retained \in Seq(Msg) /\ batch' = Tail(batch)
          /\ UNCHANGED <<shard, runMsg, inflight, reports, spool, log, delivMsg, ackLost, sent>>
      BY <1>0, <1>5 DEF ReplayEnqueue, clientVars, fileVars, history, mainVars, RunType
    <2>2. PICK n : n = Head(batch) OBVIOUS
    <2>3. /\ n \in Msg
          /\ BatchAt(m) # {} <=> n = m \/ BatchAt(m)' # {}
          /\ Single(BatchAt(m)) => Single(BatchAt(m)') /\ (n = m => BatchAt(m)' = {})
      <3>1. /\ Head(batch) \in Msg
            /\ Occ(batch, {m}) # {} <=> Head(batch) \in {m} \/ Occ(Tail(batch), {m}) # {}
            /\ Single(Occ(batch, {m})) => /\ Single(Occ(Tail(batch), {m}))
                                          /\ Head(batch) \in {m} => Occ(Tail(batch), {m}) = {}
        BY <2>1, OccTail
      <3> QED BY <2>1, <2>2, <3>1 DEF BatchAt
    <2>4. CASE Enqueue(n) /\ UNCHANGED retained
      <3>1. /\ QueueAt(m)' # {} <=> QueueAt(m) # {} \/ n = m
            /\ Single(QueueAt(m)) /\ (n = m => QueueAt(m) = {}) => Single(QueueAt(m)')
        BY <1>0, <2>3, <2>4, EnqueueCopies
      <3> QED BY <2>1, <2>3, <2>4, <3>1, CopyFrame DEF KeepsLone, Lone, Apart, Exists, Holds
    <2>5. CASE UNCHANGED queue /\ retained' = Append(retained, n)
      <3>1. /\ RetainedAt(m)' # {} <=> RetainedAt(m) # {} \/ n = m
            /\ Single(RetainedAt(m)) /\ (n = m => RetainedAt(m) = {}) => Single(RetainedAt(m)')
        <4>1. /\ Occ(Append(retained, n), {m}) # {} <=> Occ(retained, {m}) # {} \/ n \in {m}
              /\ Single(Occ(retained, {m})) /\ (n \in {m} => Occ(retained, {m}) = {})
                   => Single(Occ(Append(retained, n), {m}))
          BY <2>1, <2>3, OccAppend
        <4> QED BY <2>5, <4>1 DEF RetainedAt
      <3> QED BY <2>1, <2>3, <2>5, <3>1, CopyFrame DEF KeepsLone, Lone, Apart, Exists, Holds
    <2> QED BY <1>5, <2>2, <2>4, <2>5 DEF ReplayEnqueue
  <1>6. CASE ReplayRetain
    <2>1. /\ retained # <<>> /\ retained \in Seq(Msg) /\ retained' = Tail(retained)
          /\ UNCHANGED <<shard, queue, runMsg, batch, inflight, reports, log, delivMsg, ackLost, sent>>
      BY <1>0, <1>6 DEF ReplayRetain, spoolMessage, clientVars, mainVars, RunType
    <2>2. PICK n : n = Head(retained) OBVIOUS
    <2>3. /\ n \in Msg
          /\ RetainedAt(m) # {} <=> n = m \/ RetainedAt(m)' # {}
          /\ Single(RetainedAt(m)) => Single(RetainedAt(m)') /\ (n = m => RetainedAt(m)' = {})
      <3>1. /\ Head(retained) \in Msg
            /\ Occ(retained, {m}) # {} <=> Head(retained) \in {m} \/ Occ(Tail(retained), {m}) # {}
            /\ Single(Occ(retained, {m})) => /\ Single(Occ(Tail(retained), {m}))
                                             /\ Head(retained) \in {m} => Occ(Tail(retained), {m}) = {}
        BY <2>1, OccTail
      <3> QED BY <2>1, <2>2, <3>1 DEF RetainedAt
    <2>4. /\ SpoolAt(m)' # {} => SpoolAt(m) # {} \/ n = m
          /\ Single(SpoolAt(m)) /\ (n = m => SpoolAt(m) = {}) => Single(SpoolAt(m)')
      BY <1>0, <1>6, <2>2, <2>3, SpoolCopies DEF ReplayRetain
    <2> QED BY <2>1, <2>3, <2>4, CopyFrame DEF KeepsLone, Lone, Apart, Exists, Holds
  <1>7. CASE ReplayDone \/ RunStop \/ DrainTimeout \/ DrainDone
    <2>1. UNCHANGED <<shard, queue, runMsg, batch, retained, inflight, reports, spool, log, delivMsg, ackLost, sent>>
      BY <1>7 DEF ReplayDone, RunStop, DrainTimeout, DrainDone, history, clientVars, fileVars, mainVars
    <2> QED BY <2>1, CopyFrame DEF KeepsLone, Lone, Apart, Exists, Holds
  <1> QED BY <1>1, <1>2, <1>3, <1>4, <1>5, <1>6, <1>7 DEF RunStep

LEMMA PublishMetricsLone ==
  ASSUME IInv, PublishMetrics, NEW m \in Msg, Lone(m)
  PROVE  KeepsLone(m)
  <1>0. ClientType BY DEF IInv, TypeOK
  <1>1. PICK n \in Msg : n = <<Metrics, sent[Metrics] + 1>> BY NextMetrics DEF PublishMetrics
  <1>2. /\ UNCHANGED <<shard, queue, runMsg, batch, retained, reports, spool, log, delivMsg, ackLost>>
        /\ inflight' = Append(inflight, [msg |-> n, topic |-> "metrics"]) \/ inflight' = inflight
    BY <1>1 DEF PublishMetrics, runVars, fileVars
  <1>3. (Sent(m) => Sent(m)') /\ (m = n => ~Sent(m) /\ Sent(m)')
    <2>1. sent' = [sent EXCEPT ![Metrics] = @ + 1] /\ Metrics \in Sources BY DEF PublishMetrics, Sources
    <2> QED BY <1>1, <2>1, NotYetSent
  <1>4. m = n => ~Exists(m) BY <1>3 DEF Lone
  <1>5. /\ ClientAt(m)' # {} => ClientAt(m) # {} \/ n = m
        /\ Single(ClientAt(m)) /\ (n = m => ClientAt(m) = {}) => Single(ClientAt(m)')
    <2>1. CASE inflight' = inflight BY <2>1, CopyFrame
    <2>2. CASE inflight' = Append(inflight, [msg |-> n, topic |-> "metrics"])
      <3>1. PICK r \in Record : r = [msg |-> n, topic |-> "metrics"] BY DEF Record, Topic
      <3>2. r.msg = n /\ inflight' = Append(inflight, r) BY <2>2, <3>1
      <3> QED BY <1>0, <3>2, ClientTakesCopies
    <2> QED BY <1>2, <2>1, <2>2
  <1> QED BY <1>2, <1>3, <1>4, <1>5, CopyFrame DEF KeepsLone, Lone, Apart, Exists, Holds

LEMMA ClientLone ==
  ASSUME IInv, ClientStep, NEW m \in Msg, Lone(m)
  PROVE  KeepsLone(m)
  <1>0. ClientType /\ m # NoMsg BY MsgIsNotNoMsg DEF IInv, TypeOK
  <1>1. CASE Deliver
    <2>1. /\ inflight # <<>> /\ inflight' = Tail(inflight) /\ log' = Append(log, Head(inflight))
          /\ reports' = Append(reports, [msg |-> Head(inflight).msg, err |-> "none"])
          /\ UNCHANGED <<shard, queue, runMsg, batch, retained, spool, delivMsg, ackLost, sent>>
      BY <1>1 DEF Deliver, runVars, fileVars, history, mainVars
    <2>2. PICK r : r = Head(inflight) OBVIOUS
    <2>3. /\ r \in Record
          /\ ClientAt(m) # {} <=> r.msg = m \/ ClientAt(m)' # {}
          /\ Single(ClientAt(m)) => Single(ClientAt(m)') /\ (r.msg = m => ClientAt(m)' = {})
      BY <1>0, <2>1, <2>2, ClientGivesCopies
    <2>4. /\ StoredAt(m)' # {} <=> StoredAt(m) # {} \/ r.msg = m
          /\ Single(StoredAt(m)) /\ (r.msg = m => StoredAt(m) = {}) => Single(StoredAt(m)')
      BY <1>0, <2>1, <2>2, <2>3, StoreCopies
    <2>5. PICK rep \in Report : rep = [msg |-> r.msg, err |-> "none"] BY <2>3 DEF Record, Report, Err
    <2>6. rep.err = "none" /\ reports' = Append(reports, rep) BY <2>1, <2>2, <2>5
    <2>7. (ReportAt(m)' # {} <=> ReportAt(m) # {}) /\ (Single(ReportAt(m)) => Single(ReportAt(m)'))
      BY <1>0, <2>6, ReportCopies
    <2> QED BY <2>1, <2>3, <2>4, <2>7, CopyFrame DEF KeepsLone, Lone, Apart, Exists, Holds
  <1>2. ASSUME NEW err \in Err \ {"none"}, NEW stored \in BOOLEAN, DeliverFail(err, stored)
        PROVE  KeepsLone(m)
    <2>1. PICK r : r = Head(inflight) OBVIOUS
    <2>2. /\ inflight # <<>> /\ inflight' = Tail(inflight) /\ reports' = Append(reports, [msg |-> r.msg, err |-> err])
          /\ \/ log' = log /\ ackLost' = ackLost
             \/ log' = Append(log, r) /\ ackLost' = ackLost \cup {r.msg}
          /\ UNCHANGED <<shard, queue, runMsg, batch, retained, spool, delivMsg, sent>>
      BY <1>2, <2>1 DEF DeliverFail, runVars, fileVars, mainVars
    <2>3. /\ r \in Record
          /\ ClientAt(m) # {} <=> r.msg = m \/ ClientAt(m)' # {}
          /\ Single(ClientAt(m)) => Single(ClientAt(m)') /\ (r.msg = m => ClientAt(m)' = {})
      BY <1>0, <2>1, <2>2, ClientGivesCopies
    <2>4. PICK rep \in Report : rep = [msg |-> r.msg, err |-> err] BY <2>3 DEF Record, Report
    <2>5. rep.err # "none" /\ rep.msg = r.msg /\ reports' = Append(reports, rep) BY <2>2, <2>4
    <2>6. /\ ReportAt(m)' # {} <=> ReportAt(m) # {} \/ r.msg = m
          /\ Single(ReportAt(m)) /\ (r.msg = m => ReportAt(m) = {}) => Single(ReportAt(m)')
      BY <1>0, <2>5, ReportCopies
    <2>7. CASE log' = log /\ ackLost' = ackLost
      BY <2>2, <2>3, <2>6, <2>7, CopyFrame DEF KeepsLone, Lone, Apart, Exists, Holds
    <2>8. CASE log' = Append(log, r) /\ ackLost' = ackLost \cup {r.msg}
      <3>1. /\ StoredAt(m)' # {} <=> StoredAt(m) # {} \/ r.msg = m
            /\ Single(StoredAt(m)) /\ (r.msg = m => StoredAt(m) = {}) => Single(StoredAt(m)')
        BY <1>0, <2>3, <2>8, StoreCopies
      <3> QED BY <2>2, <2>3, <2>6, <2>8, <3>1, CopyFrame DEF KeepsLone, Lone, Apart, Exists, Holds
    <2> QED BY <2>2, <2>7, <2>8
  <1>3. ASSUME NEW err \in Err \ {"none"}, ClientError(err)
        PROVE  KeepsLone(m)
    <2>1. /\ reports' = Append(reports, [msg |-> NoMsg, err |-> err])
          /\ UNCHANGED <<shard, queue, runMsg, batch, retained, inflight, spool, log, delivMsg, ackLost, sent>>
      BY <1>3 DEF ClientError, runVars, fileVars, history, mainVars
    <2>2. PICK rep \in Report : rep = [msg |-> NoMsg, err |-> err] BY DEF Report
    <2>3. (ReportAt(m)' # {} <=> ReportAt(m) # {}) /\ (Single(ReportAt(m)) => Single(ReportAt(m)'))
      <3>1. rep.msg # m /\ reports' = Append(reports, rep) BY <1>0, <2>1, <2>2
      <3> QED BY <1>0, <3>1, ReportCopies
    <2> QED BY <2>1, <2>3, CopyFrame DEF KeepsLone, Lone, Apart, Exists, Holds
  <1> QED BY <1>1, <1>2, <1>3 DEF ClientStep

LEMMA ReportLone ==
  ASSUME IInv, TakeReport \/ SpoolFailedDelivery \/ CircuitExpire, NEW m \in Msg, Lone(m)
  PROVE  KeepsLone(m)
  <1>0. ClientType /\ FileType /\ m # NoMsg BY MsgIsNotNoMsg DEF IInv, TypeOK
  <1>1. CASE TakeReport
    <2>1. /\ reports # <<>> /\ reports' = Tail(reports) /\ delivMsg = NoMsg
          /\ delivMsg' = IF Head(reports).err = "none" THEN NoMsg ELSE Head(reports).msg
          /\ UNCHANGED <<shard, queue, runMsg, batch, retained, inflight, spool, log, ackLost, sent>>
      BY <1>1 DEF TakeReport, runVars, fileVars, history, mainVars
    <2>2. /\ ReportAt(m) # {} <=> delivMsg' = m \/ ReportAt(m)' # {}
          /\ Single(ReportAt(m)) => Single(ReportAt(m)') /\ (delivMsg' = m => ReportAt(m)' = {})
      BY <1>0, <2>1, ReportTakenCopies
    <2> QED BY <1>0, <2>1, <2>2, CopyFrame DEF KeepsLone, Lone, Apart, Exists, Holds
  <1>2. CASE SpoolFailedDelivery
    <2>1. /\ delivMsg \in Msg /\ spoolMessage(delivMsg) /\ delivMsg' = NoMsg
          /\ UNCHANGED <<shard, queue, runMsg, batch, retained, inflight, reports, log, ackLost, sent>>
      BY <1>2 DEF SpoolFailedDelivery, spoolMessage, runVars, clientVars, mainVars, IInv, TypeOK, ReportType
    <2>2. /\ SpoolAt(m)' # {} => SpoolAt(m) # {} \/ delivMsg = m
          /\ Single(SpoolAt(m)) /\ (delivMsg = m => SpoolAt(m) = {}) => Single(SpoolAt(m)')
      BY <1>0, <2>1, SpoolCopies
    <2> QED BY <1>0, <2>1, <2>2, CopyFrame DEF KeepsLone, Lone, Apart, Exists, Holds
  <1>3. CASE CircuitExpire
    <2>1. UNCHANGED <<shard, queue, runMsg, batch, retained, inflight, reports, spool, log, delivMsg, ackLost, sent>>
      BY <1>3 DEF CircuitExpire, runVars, clientVars, fileVars, history, mainVars
    <2> QED BY <2>1, CopyFrame DEF KeepsLone, Lone, Apart, Exists, Holds
  <1> QED BY <1>1, <1>2, <1>3

LEMMA MainLone ==
  ASSUME IInv, Signal \/ WaitDone \/ FlushReturn \/ Exit \/ Crash \/ Restart, NEW m \in Msg, Lone(m)
  PROVE  KeepsLone(m)
  <1>0. FileType /\ m # NoMsg BY MsgIsNotNoMsg DEF IInv, TypeOK
  <1>1. CASE Signal \/ WaitDone \/ FlushReturn
    <2>1. UNCHANGED <<shard, queue, runMsg, batch, retained, inflight, reports, spool, log, delivMsg, ackLost, sent>>
      BY <1>1 DEF Signal, WaitDone, FlushReturn, MainStep, runVars, clientVars, fileVars, history
    <2> QED BY <2>1, CopyFrame DEF KeepsLone, Lone, Apart, Exists, Holds
  <1>2. CASE Exit \/ Crash
    <2>1. /\ shard' = [s \in Shards |-> [pc |-> "idle", msg |-> NoMsg]] /\ queue' = <<>> /\ batch' = <<>>
          /\ retained' = <<>> /\ inflight' = <<>> /\ reports' = <<>> /\ runMsg' = NoMsg /\ delivMsg' = NoMsg
          /\ spool' = spool \/ spool' = KeptRecords
          /\ UNCHANGED <<log, ackLost, sent>>
      BY <1>2 DEF Exit, Crash, ProcessEnds, fileVars
    <2>2. /\ ShardsWith(m)' = {} /\ QueueAt(m)' = {} /\ BatchAt(m)' = {} /\ RetainedAt(m)' = {}
          /\ ClientAt(m)' = {} /\ ReportAt(m)' = {}
      BY <1>0, <2>1, OccEmpty DEF ShardsWith, QueueAt, BatchAt, RetainedAt, ClientAt, ReportAt
    <2>3. SpoolAt(m)' = SpoolAt(m) \/ SpoolAt(m)' = {}
      BY <2>1, OccEmpty DEF SpoolAt, KeptRecords
    <2>4. Single({}) BY DEF Single
    <2> QED BY <1>0, <2>1, <2>2, <2>3, <2>4, CopyFrame DEF KeepsLone, Lone, Apart, Exists, Holds
  <1>3. CASE Restart
    <2>1. /\ batch = <<>>
          /\ \/ batch' = spool /\ spool' = <<>>
             \/ UNCHANGED <<batch, spool>>
          /\ UNCHANGED <<shard, queue, runMsg, retained, inflight, reports, log, delivMsg, ackLost, sent>>
      BY <1>3 DEF Restart, drainAll, clientVars, fileVars, history, IInv, ShutdownOrder, RunHands
    <2>2. CASE batch' = spool /\ spool' = <<>>
      <3>1. BatchAt(m)' = SpoolAt(m) /\ SpoolAt(m)' = {} /\ BatchAt(m) = {} /\ Single({})
        BY <2>1, <2>2, OccEmpty DEF BatchAt, SpoolAt, Single
      <3> QED BY <2>1, <3>1, CopyFrame DEF KeepsLone, Lone, Apart, Exists, Holds
    <2>3. CASE UNCHANGED <<batch, spool>>
      BY <2>1, <2>3, CopyFrame DEF KeepsLone, Lone, Apart, Exists, Holds
    <2> QED BY <2>1, <2>2, <2>3
  <1> QED BY <1>1, <1>2, <1>3

LEMMA NextLone ==
  ASSUME IInv, [Next]_vars, NEW m \in Msg, Lone(m)
  PROVE  KeepsLone(m)
  <1>1. CASE UNCHANGED vars
    BY <1>1, CopyFrame DEF vars, KeepsLone, Lone, Apart, Exists, Holds
  <1> QED BY <1>1, ShardLone, RunLone, PublishMetricsLone, ClientLone, ReportLone, MainLone DEF Next

(* An event never has two copies, and only what was published has one. *)
THEOREM CopiesStayApart == Spec => []AllLone
  <1>1. Init => AllLone
    <2> SUFFICES ASSUME Init, NEW m \in Msg PROVE Lone(m) BY DEF AllLone
    <2>1. /\ ShardsWith(m) = {} /\ QueueAt(m) = {} /\ BatchAt(m) = {} /\ RetainedAt(m) = {}
          /\ ClientAt(m) = {} /\ ReportAt(m) = {} /\ SpoolAt(m) = {} /\ StoredAt(m) = {}
      BY MsgIsNotNoMsg, OccEmpty
         DEF Init, ShardsWith, QueueAt, BatchAt, RetainedAt, ClientAt, ReportAt, SpoolAt, StoredAt
    <2>2. runMsg # m /\ delivMsg # m /\ Single({}) BY MsgIsNotNoMsg DEF Init, Single
    <2> QED BY <2>1, <2>2 DEF Lone, Apart, Exists, Holds
  <1>2. IInv /\ AllLone /\ [Next]_vars => AllLone'
    BY NextLone DEF AllLone, KeepsLone
  <1> QED BY <1>1, <1>2, Invariance, PTL DEF Spec

-----------------------------------------------------------------------------
(* The copies, counted *)

LEMMA SmallCardinality ==
  ASSUME NEW X, Single(X)
  PROVE  /\ Cardinality(X) \in Nat /\ Cardinality(X) <= 1
         /\ X = {} => Cardinality(X) = 0
  <1>1. CASE X = {} BY <1>1, FS_EmptySet
  <1>2. CASE X # {}
    <2>1. PICK x : X = {x} BY <1>2 DEF Single
    <2> QED BY <1>2, <2>1, FS_Singleton
  <1> QED BY <1>1, <1>2

Tagged(tag, X) == {<<tag, x>> : x \in X}
HandsWith(m) == {g \in {"run", "report"} : m = IF g = "run" THEN runMsg ELSE delivMsg}

LEMMA TaggedOnce ==
  ASSUME NEW tag, NEW X
  PROVE  (X = {} => Tagged(tag, X) = {}) /\ (Single(X) => Single(Tagged(tag, X)))
  BY DEF Tagged, Single

LEMMA PlacesOf ==
  ASSUME IInv, NEW m \in Msg
  PROVE  /\ Places(m) = Tagged("shard", ShardsWith(m)) \cup Tagged("queue", QueueAt(m))
                          \cup Tagged("batch", BatchAt(m)) \cup Tagged("retained", RetainedAt(m))
                          \cup Tagged("inflight", ClientAt(m)) \cup Tagged("reports", ReportAt(m))
                          \cup Tagged("spool", SpoolAt(m)) \cup Tagged("hand", HandsWith(m))
         /\ Stored(m) = StoredAt(m)
  <1>1. /\ \A j \in DOMAIN inflight : inflight[j] \in Record
        /\ \A j \in DOMAIN log : log[j] \in Record
        /\ \A j \in DOMAIN reports : reports[j] \in Report
    BY DEF IInv, TypeOK, ClientType
  <1>2. {j \in DOMAIN inflight : inflight[j].msg = m} = ClientAt(m) BY <1>1 DEF ClientAt, Occ, RecordsOf
  <1>3. {j \in DOMAIN reports : reports[j].msg = m /\ reports[j].err # "none"} = ReportAt(m)
    BY <1>1 DEF ReportAt, Occ, FailuresOf
  <1>4. Stored(m) = StoredAt(m) BY <1>1 DEF Stored, StoredAt, Occ, RecordsOf
  <1>5. /\ {j \in DOMAIN queue : queue[j] = m} = QueueAt(m) /\ {j \in DOMAIN batch : batch[j] = m} = BatchAt(m)
        /\ {j \in DOMAIN retained : retained[j] = m} = RetainedAt(m)
        /\ {j \in DOMAIN spool : spool[j] = m} = SpoolAt(m)
    BY DEF QueueAt, BatchAt, RetainedAt, SpoolAt, Occ
  <1> QED BY <1>2, <1>3, <1>4, <1>5 DEF Places, Tagged, ShardsWith, HandsWith

(* The spool, its replay and the failed deliveries never duplicate an       *)
(* event, however the goroutines interleave and wherever the agent is       *)
(* killed: it has one copy, in the agent or at the brokers, unless a        *)
(* broker's acknowledgement was lost.                                       *)
THEOREM NoDuplicates == Spec => []OneCopy
  <1>1. ASSUME IInv, AllLone PROVE OneCopy
    <2> SUFFICES ASSUME NEW m \in Msg
                 PROVE  /\ Cardinality(Places(m)) <= 1
                        /\ m \notin ackLost => Cardinality(Places(m)) + Cardinality(Stored(m)) <= 1
      BY DEF OneCopy
    <2>1. Lone(m) BY <1>1 DEF AllLone
    <2>2. /\ runMsg # m /\ delivMsg # m => HandsWith(m) = {}
          /\ ~(runMsg = m /\ delivMsg = m) => Single(HandsWith(m))
          /\ HandsWith(m) # {} => runMsg = m \/ delivMsg = m
      BY DEF HandsWith, Single
    <2> DEFINE a == Tagged("shard", ShardsWith(m))
               b == Tagged("queue", QueueAt(m))
               c == Tagged("batch", BatchAt(m))
               d == Tagged("retained", RetainedAt(m))
               e == Tagged("inflight", ClientAt(m))
               f == Tagged("reports", ReportAt(m))
               g == Tagged("spool", SpoolAt(m))
               h == Tagged("hand", HandsWith(m))
    <2>3. /\ (ShardsWith(m) = {} => a = {}) /\ Single(a) /\ (QueueAt(m) = {} => b = {}) /\ Single(b)
          /\ (BatchAt(m) = {} => c = {}) /\ Single(c) /\ (RetainedAt(m) = {} => d = {}) /\ Single(d)
          /\ (ClientAt(m) = {} => e = {}) /\ Single(e) /\ (ReportAt(m) = {} => f = {}) /\ Single(f)
          /\ (SpoolAt(m) = {} => g = {}) /\ Single(g) /\ (HandsWith(m) = {} => h = {}) /\ Single(h)
      BY <2>1, <2>2, TaggedOnce DEF Lone, Apart
    <2>4. Places(m) = a \cup b \cup c \cup d \cup e \cup f \cup g \cup h /\ Stored(m) = StoredAt(m)
      BY <1>1, PlacesOf
    <2> HIDE DEF a, b, c, d, e, f, g, h
    <2>5. Single(Places(m))
      <3>1. CASE ShardsWith(m) # {}
        <4>1. Places(m) = a BY <2>1, <2>2, <2>3, <2>4, <3>1 DEF Lone, Apart
        <4> QED BY <2>3, <4>1
      <3>2. CASE QueueAt(m) # {}
        <4>1. Places(m) = b BY <2>1, <2>2, <2>3, <2>4, <3>2 DEF Lone, Apart
        <4> QED BY <2>3, <4>1
      <3>3. CASE BatchAt(m) # {}
        <4>1. Places(m) = c BY <2>1, <2>2, <2>3, <2>4, <3>3 DEF Lone, Apart
        <4> QED BY <2>3, <4>1
      <3>4. CASE RetainedAt(m) # {}
        <4>1. Places(m) = d BY <2>1, <2>2, <2>3, <2>4, <3>4 DEF Lone, Apart
        <4> QED BY <2>3, <4>1
      <3>5. CASE ClientAt(m) # {}
        <4>1. Places(m) = e BY <2>1, <2>2, <2>3, <2>4, <3>5 DEF Lone, Apart
        <4> QED BY <2>3, <4>1
      <3>6. CASE ReportAt(m) # {}
        <4>1. Places(m) = f BY <2>1, <2>2, <2>3, <2>4, <3>6 DEF Lone, Apart
        <4> QED BY <2>3, <4>1
      <3>7. CASE SpoolAt(m) # {}
        <4>1. Places(m) = g BY <2>1, <2>2, <2>3, <2>4, <3>7 DEF Lone, Apart
        <4> QED BY <2>3, <4>1
      <3>8. CASE /\ ShardsWith(m) = {} /\ QueueAt(m) = {} /\ BatchAt(m) = {} /\ RetainedAt(m) = {}
                 /\ ClientAt(m) = {} /\ ReportAt(m) = {} /\ SpoolAt(m) = {}
        <4>1. Places(m) = h BY <2>3, <2>4, <3>8
        <4> QED BY <2>3, <4>1
      <3> QED BY <3>1, <3>2, <3>3, <3>4, <3>5, <3>6, <3>7, <3>8
    <2>6. Cardinality(Places(m)) \in Nat /\ Cardinality(Places(m)) <= 1
          /\ (Places(m) = {} => Cardinality(Places(m)) = 0)
      BY <2>5, SmallCardinality
    <2>7. ASSUME m \notin ackLost PROVE Cardinality(Places(m)) + Cardinality(Stored(m)) <= 1
      <3>1. Single(Stored(m)) /\ (Stored(m) # {} => ~Holds(m) /\ SpoolAt(m) = {})
        BY <2>1, <2>4, <2>7 DEF Lone
      <3>2. Cardinality(Stored(m)) \in Nat /\ Cardinality(Stored(m)) <= 1
            /\ (Stored(m) = {} => Cardinality(Stored(m)) = 0)
        BY <3>1, SmallCardinality
      <3>3. Stored(m) # {} => Places(m) = {}
        BY <2>2, <2>3, <2>4, <3>1 DEF Holds
      <3> QED BY <2>6, <3>2, <3>3
    <2> QED BY <2>6, <2>7
  <1> QED BY <1>1, Invariance, CopiesStayApart, PTL

-----------------------------------------------------------------------------
(* QueuedProducer implements Delivery *)

(* The sets of the specification, in terms of the places. *)
LEMMA Whereabouts ==
  ASSUME IInv, NEW m \in Msg
  PROVE  /\ m \in InMemory <=> Holds(m)
         /\ m \in OnDisk <=> SpoolAt(m) # {}
         /\ m \in Delivered <=> StoredAt(m) # {}
  <1>1. m \in Delivered <=> StoredAt(m) # {}
    <2>1. Elems(log) \subseteq Record BY ElemsInSet DEF IInv, TypeOK, ClientType
    <2>2. StoredAt(m) # {} <=> \E e \in Elems(log) : e \in RecordsOf(m) BY OccElems DEF StoredAt
    <2> QED BY <2>1, <2>2 DEF Delivered, RecordsOf
  <1>2. m \in ClientHeld <=> ClientAt(m) # {}
    <2>1. Elems(inflight) \subseteq Record BY ElemsInSet DEF IInv, TypeOK, ClientType
    <2>2. ClientAt(m) # {} <=> \E e \in Elems(inflight) : e \in RecordsOf(m) BY OccElems DEF ClientAt
    <2> QED BY <2>1, <2>2 DEF ClientHeld, RecordsOf
  <1>3. m \in ReportedFailures <=> ReportAt(m) # {}
    <2>1. Elems(reports) \subseteq Report BY ElemsInSet DEF IInv, TypeOK, ClientType
    <2>2. ReportAt(m) # {} <=> \E e \in Elems(reports) : e \in FailuresOf(m) BY OccElems DEF ReportAt
    <2> QED BY <2>1, <2>2 DEF ReportedFailures, FailuresOf
  <1>4. /\ m \in Elems(queue) <=> QueueAt(m) # {}
        /\ m \in Elems(batch) <=> BatchAt(m) # {}
        /\ m \in Elems(retained) <=> RetainedAt(m) # {}
        /\ m \in Elems(spool) <=> SpoolAt(m) # {}
    BY OccElems DEF QueueAt, BatchAt, RetainedAt, SpoolAt
  <1>5. m \in ShardHeld <=> ShardsWith(m) # {} BY DEF ShardHeld, ShardsWith
  <1> QED BY <1>1, <1>2, <1>3, <1>4, <1>5 DEF InMemory, OnDisk, Holds

Declared == counted \cup wiped \cup merged \cup stranded

LEMMA spoolMessageDeclares ==
  ASSUME NEW n, spoolMessage(n)
  PROVE  counted \subseteq counted' /\ wiped \subseteq wiped' /\ merged \subseteq merged' /\ stranded \subseteq stranded'
  BY DEF spoolMessage, Append1, WriteError

(* No loss is taken back. *)
LEMMA DeclaredGrows ==
  ASSUME [Next]_vars
  PROVE  Declared \subseteq Declared'
  <1>1. ASSUME NEW s \in Shards, ShardStep(s) PROVE Declared \subseteq Declared'
    BY <1>1, spoolMessageDeclares
       DEF ShardStep, Submit, SubmitBlocked, SubmitEvict, SubmitResend, SubmitSpool, ShardExit, MainStep,
           history, Declared
  <1>2. CASE RunStep
    <2>1. CASE RunSpool \/ ReplayRetain
      BY <2>1, spoolMessageDeclares DEF RunSpool, ReplayRetain, Declared
    <2>2. CASE ~(RunSpool \/ ReplayRetain)
      BY <1>2, <2>2 DEF RunStep, RunDequeue, RunProduce, RunStop, ReplayTick, ReplayEnqueue, ReplayDone,
                        DrainTake, DrainTimeout, DrainRest, DrainDone, history, Declared
    <2> QED BY <2>1, <2>2
  <1>3. CASE PublishMetrics BY <1>3 DEF PublishMetrics, Declared
  <1>4. CASE ClientStep BY <1>4 DEF ClientStep, Deliver, DeliverFail, ClientError, history, Declared
  <1>5. CASE TakeReport \/ SpoolFailedDelivery \/ CircuitExpire
    BY <1>5, spoolMessageDeclares DEF TakeReport, SpoolFailedDelivery, CircuitExpire, history, Declared
  <1>6. CASE Signal \/ WaitDone \/ FlushReturn \/ Exit \/ Crash \/ Restart
    BY <1>6 DEF Signal, WaitDone, FlushReturn, MainStep, Exit, Crash, Restart, ProcessEnds, history, Declared
  <1>7. CASE UNCHANGED vars BY <1>7 DEF vars, Declared
  <1> QED BY <1>1, <1>2, <1>3, <1>4, <1>5, <1>6, <1>7 DEF Next

(* The fate of each event, case by case. *)
Fates ==
  IInv => \A m \in Msg :
    /\ StoredAt(m) # {} => fate[m] = "stored"
    /\ StoredAt(m) = {} /\ Holds(m) => fate[m] = "held"
    /\ StoredAt(m) = {} /\ ~Holds(m) /\ SpoolAt(m) # {} => fate[m] = "kept"
    /\ ~Exists(m) /\ Sent(m) => fate[m] = "lost"
    /\ ~Exists(m) /\ ~Sent(m) => fate[m] = "new"
    /\ NoSilentLoss /\ ~Exists(m) /\ Sent(m) => m \in Declared

LEMMA FatesHold == Fates
  <1> SUFFICES ASSUME IInv, NEW m \in Msg
               PROVE  /\ StoredAt(m) # {} => fate[m] = "stored"
                      /\ StoredAt(m) = {} /\ Holds(m) => fate[m] = "held"
                      /\ StoredAt(m) = {} /\ ~Holds(m) /\ SpoolAt(m) # {} => fate[m] = "kept"
                      /\ ~Exists(m) /\ Sent(m) => fate[m] = "lost"
                      /\ ~Exists(m) /\ ~Sent(m) => fate[m] = "new"
                      /\ NoSilentLoss /\ ~Exists(m) /\ Sent(m) => m \in Declared
    BY DEF Fates
  <1>1. /\ m \in Delivered => fate[m] = "stored"
        /\ m \notin Delivered /\ m \in InMemory => fate[m] = "held"
        /\ m \notin Delivered /\ m \notin InMemory /\ m \in OnDisk => fate[m] = "kept"
        /\ m \notin Delivered /\ m \notin InMemory /\ m \notin OnDisk /\ Sent(m) => fate[m] = "lost"
        /\ m \notin Delivered /\ m \notin InMemory /\ m \notin OnDisk /\ ~Sent(m) => fate[m] = "new"
    BY DEF fate
  <1>2. NoSilentLoss /\ Sent(m) => m \in InMemory \cup OnDisk \cup Delivered \cup Declared
    BY DEF NoSilentLoss, Accounted, Declared
  <1> QED BY <1>1, <1>2, Whereabouts DEF Exists

LEMMA FateStep ==
  ASSUME IInv, AllLone, IInv', NoSilentLoss', [Next]_vars, Fates', NEW m \in Msg
  PROVE  Promise!MayBecome(m, fate'[m]) /\ fate'[m] \in Promise!Fate
  <1>1. Lone(m) /\ KeepsLone(m) BY NextLone DEF AllLone
  <1>2. /\ StoredAt(m) # {} => fate[m] = "stored"
        /\ StoredAt(m) = {} /\ Holds(m) => fate[m] = "held"
        /\ StoredAt(m) = {} /\ ~Holds(m) /\ SpoolAt(m) # {} => fate[m] = "kept"
        /\ ~Exists(m) /\ Sent(m) => fate[m] = "lost"
        /\ ~Exists(m) /\ ~Sent(m) => fate[m] = "new"
    BY FatesHold DEF Fates
  <1>3. /\ StoredAt(m)' # {} => fate'[m] = "stored"
        /\ StoredAt(m)' = {} /\ Holds(m)' => fate'[m] = "held"
        /\ StoredAt(m)' = {} /\ ~Holds(m)' /\ SpoolAt(m)' # {} => fate'[m] = "kept"
        /\ ~Exists(m)' /\ Sent(m)' => fate'[m] = "lost" /\ m \in Declared'
        /\ ~Exists(m)' /\ ~Sent(m)' => fate'[m] = "new"
    BY DEF Fates
  <1>4. fate'[m] \in {"new", "held", "kept", "stored", "lost"} BY <1>3 DEF Exists
  <1>5. CASE StoredAt(m) # {}
    <2>1. fate'[m] = fate[m] BY <1>1, <1>2, <1>3, <1>5 DEF KeepsLone
    <2> QED BY <1>4, <2>1 DEF Promise!MayBecome, Promise!Fate
  <1>6. CASE StoredAt(m) = {} /\ (Holds(m) \/ SpoolAt(m) # {})
    <2>1. Sent(m) /\ Sent(m)' BY <1>1, <1>6 DEF KeepsLone, Lone, Exists
    <2>2. fate[m] \in {"held", "kept"} BY <1>2, <1>6
    <2>3. fate'[m] \in {"held", "kept", "stored"} \/ (fate'[m] = "lost" /\ m \in Declared')
      BY <1>3, <2>1 DEF Exists
    <2> QED BY <2>2, <2>3 DEF Promise!MayBecome, Promise!Moves, Promise!Fate, Declared
  <1>7. CASE ~Exists(m) /\ Sent(m)
    <2>1. ~Exists(m)' /\ Sent(m)' BY <1>1, <1>7 DEF KeepsLone
    <2>2. fate[m] = "lost" /\ fate'[m] = "lost" BY <1>2, <1>3, <1>7, <2>1
    <2> QED BY <2>2 DEF Promise!MayBecome, Promise!Fate
  <1>8. CASE ~Exists(m) /\ ~Sent(m)
    <2>1. fate[m] = "new" /\ SpoolAt(m) = {} BY <1>2, <1>8 DEF Exists
    <2>2. Exists(m)' => SpoolAt(m)' = {} BY <1>1, <1>8 DEF KeepsLone
    <2>3. fate'[m] \in {"new", "held", "stored"} \/ (fate'[m] = "lost" /\ m \in Declared')
      BY <1>3, <2>2 DEF Exists
    <2> QED BY <2>1, <2>3 DEF Promise!MayBecome, Promise!Moves, Promise!Fate, Declared
  <1> QED BY <1>5, <1>6, <1>7, <1>8 DEF Exists

(* The delivery path of the agent keeps the promise of Delivery for any     *)
(* number of shards, events and failures: an event is lost only with a      *)
(* named cause, what is lost or erased never comes back from the spool, and *)
(* what the brokers stored stays stored.                                    *)
THEOREM ProducerImplementsDelivery == Spec => ProducerKeepsPromise
  <1>1. Init => Promise!Init
    <2> SUFFICES ASSUME Init PROVE Promise!Init OBVIOUS
    <2>1. ASSUME NEW m \in Msg PROVE fate[m] = "new"
      <3>1. IInv BY InitIInv
      <3>2. /\ ShardsWith(m) = {} /\ QueueAt(m) = {} /\ BatchAt(m) = {} /\ RetainedAt(m) = {}
            /\ ClientAt(m) = {} /\ ReportAt(m) = {} /\ SpoolAt(m) = {} /\ StoredAt(m) = {}
        BY MsgIsNotNoMsg, OccEmpty
           DEF Init, ShardsWith, QueueAt, BatchAt, RetainedAt, ClientAt, ReportAt, SpoolAt, StoredAt
      <3>3. ~Exists(m) BY <3>2, MsgIsNotNoMsg DEF Init, Exists, Holds
      <3>4. ~Sent(m)
        <4>1. m[1] \in Sources /\ m[2] \in Nat \ {0} BY BoundsAssumption DEF Msg, Sources
        <4> QED BY <4>1 DEF Init, Sent
      <3> QED BY <3>1, <3>3, <3>4, FatesHold DEF Fates
    <2>2. fate = [m \in Msg |-> "new"] BY <2>1 DEF fate
    <2> QED BY <2>2 DEF Init, Promise!Init
  <1>2. IInv /\ AllLone /\ IInv' /\ NoSilentLoss' /\ Fates' /\ [Next]_vars
          => [Promise!Next]_<<fate, counted \cup wiped \cup merged \cup stranded>>
    <2> SUFFICES ASSUME IInv, AllLone, IInv', NoSilentLoss', Fates', [Next]_vars PROVE Promise!Next
      OBVIOUS
    <2>1. \A m \in Msg : Promise!MayBecome(m, fate'[m]) /\ fate'[m] \in Promise!Fate BY FateStep
    <2>2. fate' \in [Msg -> Promise!Fate] BY <2>1 DEF fate
    <2>3. Declared \subseteq Declared' BY DeclaredGrows
    <2> QED BY <2>1, <2>2, <2>3 DEF Promise!Next, Declared
  <1> QED BY <1>1, <1>2, FatesHold, Invariance, CopiesStayApart, NothingIsLostSilently, PTL
          DEF Spec, ProducerKeepsPromise, Promise!Spec

-----------------------------------------------------------------------------
(* The order of the events that avoid the spool *)

Precedes(a, b) == a[1] = b[1] /\ a \notin detoured /\ b \notin detoured => a[2] < b[2]

MsgPairs    == {p \in Msg \X Msg : Precedes(p[1], p[2])}
RecordPairs == {p \in Record \X Record : Precedes(p[1].msg, p[2].msg)}

SortedBy(q, rel) == \A i, j \in DOMAIN q : i < j => <<q[i], q[j]>> \in rel
Before(A, B) == \A a \in A \cap Msg, b \in B \cap Msg : <<a, b>> \in MsgPairs

(* Along the way from a shard to the brokers events are in order. *)
Ordered ==
  /\ SortedBy(log, RecordPairs) /\ SortedBy(inflight, RecordPairs) /\ SortedBy(queue, MsgPairs)
  /\ Before(Delivered, ClientHeld \cup {runMsg} \cup Elems(queue) \cup ShardHeld)
  /\ Before(ClientHeld, {runMsg} \cup Elems(queue) \cup ShardHeld)
  /\ Before({runMsg}, Elems(queue) \cup ShardHeld)
  /\ Before(Elems(queue), ShardHeld)

(* What is, or was read, from the spool made the detour; metrics records    *)
(* meet the queue only that way; a shard holds its own events.              *)
Origins ==
  /\ Elems(spool) \cup Elems(batch) \cup Elems(retained) \subseteq detoured
  /\ \A m \in (Elems(queue) \cup {runMsg}) \cap Msg : m[1] \in Shards \/ m \in detoured
  /\ \A s \in Shards : shard[s].msg \in Msg => shard[s].msg[1] = s

LineInv == Ordered /\ Origins

LEMMA SortedAppend ==
  ASSUME NEW S, NEW q \in Seq(S), NEW e \in S, NEW rel, SortedBy(q, rel),
         \A x \in Elems(q) : <<x, e>> \in rel
  PROVE  SortedBy(Append(q, e), rel)
  <1>1. /\ Len(q) \in Nat /\ DOMAIN q = 1 .. Len(q) /\ DOMAIN Append(q, e) = 1 .. Len(q) + 1
        /\ \A i \in 1 .. Len(q) : Append(q, e)[i] = q[i]
        /\ Append(q, e)[Len(q) + 1] = e
    OBVIOUS
  <1>2. ASSUME NEW i \in 1 .. Len(q) + 1, NEW j \in 1 .. Len(q) + 1, i < j
        PROVE  <<Append(q, e)[i], Append(q, e)[j]>> \in rel
    <2>1. i \in 1 .. Len(q) BY <1>1, <1>2
    <2>2. Append(q, e)[i] = q[i] /\ q[i] \in Elems(q) BY <1>1, <2>1 DEF Elems
    <2>3. CASE j \in 1 .. Len(q) BY <1>1, <1>2, <2>1, <2>2, <2>3 DEF SortedBy
    <2>4. CASE j = Len(q) + 1 BY <1>1, <2>2, <2>4
    <2> QED BY <1>1, <2>3, <2>4
  <1> QED BY <1>1, <1>2 DEF SortedBy

LEMMA SortedTail ==
  ASSUME NEW S, NEW q \in Seq(S), q # <<>>, NEW rel, SortedBy(q, rel)
  PROVE  /\ SortedBy(Tail(q), rel)
         /\ \A x \in Elems(Tail(q)) : <<Head(q), x>> \in rel
  <1>1. /\ Len(q) \in Nat \ {0} /\ DOMAIN q = 1 .. Len(q) /\ Head(q) = q[1]
        /\ Tail(q) \in Seq(S) /\ Len(Tail(q)) = Len(q) - 1
        /\ \A i \in 1 .. Len(q) - 1 : Tail(q)[i] = q[i + 1]
    OBVIOUS
  <1>2. DOMAIN Tail(q) = 1 .. Len(q) - 1 BY <1>1
  <1>3. ASSUME NEW i \in 1 .. Len(q) - 1, NEW j \in 1 .. Len(q) - 1, i < j
        PROVE  <<Tail(q)[i], Tail(q)[j]>> \in rel
    <2>1. i + 1 \in 1 .. Len(q) /\ j + 1 \in 1 .. Len(q) /\ i + 1 < j + 1 BY <1>1, <1>3
    <2>2. <<q[i + 1], q[j + 1]>> \in rel BY <1>1, <2>1 DEF SortedBy
    <2> QED BY <1>1, <2>2
  <1>4. ASSUME NEW x \in Elems(Tail(q)) PROVE <<Head(q), x>> \in rel
    <2>1. PICK i \in 1 .. Len(q) - 1 : x = Tail(q)[i] BY <1>2 DEF Elems
    <2>2. i + 1 \in 1 .. Len(q) /\ 1 \in 1 .. Len(q) /\ 1 < i + 1 BY <1>1
    <2>3. <<q[1], q[i + 1]>> \in rel BY <1>1, <2>2 DEF SortedBy
    <2> QED BY <1>1, <2>1, <2>3
  <1> QED BY <1>2, <1>3, <1>4 DEF SortedBy

LEMMA SortedMore ==
  ASSUME NEW q, NEW rel, NEW more, SortedBy(q, rel), rel \subseteq more
  PROVE  SortedBy(q, more)
  BY DEF SortedBy

LEMMA SortedEmpty == \A rel : SortedBy(<<>>, rel)
  BY DEF SortedBy

(* A detour only takes events out of the comparison. *)
LEMMA PairsGrow ==
  ASSUME detoured \subseteq detoured'
  PROVE  MsgPairs \subseteq MsgPairs' /\ RecordPairs \subseteq RecordPairs'
  BY DEF MsgPairs, RecordPairs, Precedes

LEMMA PairOf ==
  ASSUME NEW a \in Msg, NEW b \in Msg
  PROVE  <<a, b>> \in MsgPairs <=> Precedes(a, b)
  BY DEF MsgPairs

(* A step that adds nothing to any stage. *)
LEMMA OrderedFrame ==
  ASSUME Ordered, detoured \subseteq detoured',
         SortedBy(log', RecordPairs), SortedBy(inflight', RecordPairs), SortedBy(queue', MsgPairs),
         Delivered' \subseteq Delivered, ClientHeld' \subseteq ClientHeld,
         runMsg' \in {runMsg, NoMsg}, Elems(queue)' \subseteq Elems(queue), ShardHeld' \subseteq ShardHeld \cup {NoMsg}
  PROVE  Ordered'
  <1>1. MsgPairs \subseteq MsgPairs' /\ RecordPairs \subseteq RecordPairs' BY PairsGrow
  <1>2. SortedBy(log', RecordPairs') /\ SortedBy(inflight', RecordPairs') /\ SortedBy(queue', MsgPairs')
    BY <1>1, SortedMore
  <1>3. NoMsg \notin Msg BY NoMsgAssumption
  <1> HIDE DEF MsgPairs
  <1> QED BY <1>1, <1>2, <1>3 DEF Ordered, Before

(* An event that is about to be published is the last of its source. *)
LEMMA NewestLast ==
  ASSUME IInv, AllLone, NEW src \in Sources, NEW n \in Msg, n = <<src, sent[src] + 1>>,
         NEW x \in Msg, x \in InMemory \cup Delivered
  PROVE  <<x, n>> \in MsgPairs
  <1>1. Sent(x) BY Whereabouts DEF AllLone, Lone, Exists
  <1>2. sent \in [Sources -> Nat] BY DEF IInv, TypeOK, MainType
  <1>3. x[1] \in Sources /\ x[2] \in Nat BY BoundsAssumption DEF Msg, Sources
  <1>4. n[1] = src /\ n[2] = sent[src] + 1 /\ sent[src] \in Nat BY <1>2
  <1>5. x[1] = n[1] => x[2] < n[2] BY <1>1, <1>2, <1>3, <1>4 DEF Sent
  <1> QED BY <1>5, PairOf DEF Precedes

(* An event in the hands of a shard is of that shard. *)
LEMMA OtherShards ==
  ASSUME Origins, NEW s \in Shards, NEW n \in Msg, n[1] = s, NEW h \in Msg, NEW t \in Shards \ {s}, h = shard[t].msg
  PROVE  <<n, h>> \in MsgPairs
  <1>1. h[1] = t BY DEF Origins
  <1> QED BY <1>1, PairOf DEF Precedes

LEMMA DetouredPairs ==
  ASSUME NEW n \in Msg, n \in detoured, NEW x \in Msg
  PROVE  <<n, x>> \in MsgPairs /\ <<x, n>> \in MsgPairs
  BY PairOf DEF Precedes

(* n joins the queue, behind everything that is on its way. *)
LEMMA OrderedEnqueue ==
  ASSUME IInv, Ordered, NEW n \in Msg, Enqueue(n), detoured' = detoured,
         UNCHANGED <<log, inflight, runMsg>>, ShardHeld' \subseteq ShardHeld \cup {NoMsg},
         \A x \in Msg : x \in Delivered \cup ClientHeld \cup {runMsg} \cup Elems(queue) => <<x, n>> \in MsgPairs,
         \A h \in Msg : h \in ShardHeld' => <<n, h>> \in MsgPairs
  PROVE  Ordered'
  <1>1. MsgPairs' = MsgPairs /\ RecordPairs' = RecordPairs BY DEF MsgPairs, RecordPairs, Precedes
  <1>2. queue \in Seq(Msg) /\ queue' = Append(queue, n) /\ Elems(queue)' = Elems(queue) \cup {n}
    BY EnqueueEffect DEF IInv, TypeOK, QueueType, Enqueue
  <1>3. Elems(queue) \subseteq Msg BY <1>2, ElemsInSet
  <1>4. SortedBy(queue', MsgPairs) BY <1>2, <1>3, SortedAppend DEF Ordered
  <1>5. Delivered' = Delivered /\ ClientHeld' = ClientHeld BY KeepFrame
  <1>6. NoMsg \notin Msg BY NoMsgAssumption
  <1> QED BY <1>1, <1>2, <1>4, <1>5, <1>6 DEF Ordered, Before

(* The stages, as far as a step leaves them alone. *)
LEMMA OrderFrame ==
  ASSUME LineInv
  PROVE  /\ UNCHANGED log => SortedBy(log', RecordPairs) /\ Delivered' \subseteq Delivered
         /\ UNCHANGED inflight => SortedBy(inflight', RecordPairs) /\ ClientHeld' \subseteq ClientHeld
         /\ UNCHANGED queue => SortedBy(queue', MsgPairs) /\ Elems(queue)' \subseteq Elems(queue)
         /\ UNCHANGED runMsg => runMsg' \in {runMsg, NoMsg}
         /\ UNCHANGED shard => ShardHeld' \subseteq ShardHeld \cup {NoMsg}
  BY KeepFrame DEF LineInv, Ordered

(* spoolMessage: the message makes the detour if it reaches the file. *)
LEMMA SpoolDetours ==
  ASSUME FileType, NEW n \in Msg, spoolMessage(n), Elems(spool) \subseteq detoured
  PROVE  detoured \subseteq detoured' /\ Elems(spool)' \subseteq detoured'
  <1>1. KeptRecords \in Seq(Msg) /\ Elems(KeptRecords) \subseteq Elems(spool)
    BY KeptType, ElemsEmpty DEF KeptRecords
  <1>2. \/ spool' = spool /\ detoured \subseteq detoured'
        \/ spool' = KeptRecords /\ detoured \subseteq detoured'
        \/ spool' = Append(KeptRecords, n) /\ detoured' = detoured \cup {n}
    BY DEF spoolMessage, Append1, WriteError
  <1>3. Elems(Append(KeptRecords, n)) = Elems(KeptRecords) \cup {n} BY <1>1, ElemsAppend
  <1> QED BY <1>1, <1>2, <1>3

LEMMA ShardLine ==
  ASSUME IInv, AllLone, LineInv, NEW s \in Shards, ShardStep(s)
  PROVE  LineInv'
  <1>0. ShardType /\ QueueType /\ FileType /\ Ordered /\ Origins /\ NoMsg \notin Msg
    BY NoMsgAssumption DEF IInv, TypeOK, LineInv
  <1>1. CASE Submit(s)
    <2>1. PICK n \in Msg : n = <<s, sent[s] + 1>> BY <1>1, NextEvent DEF Submit
    <2>2. /\ UNCHANGED <<batch, retained, inflight, reports, spool, log, runMsg, delivMsg, detoured>>
          /\ shard[s].msg = NoMsg /\ n[1] = s /\ s \in Sources
      BY <1>1, <2>1 DEF Submit, runVars, clientVars, fileVars, IInv, ShardHands, Busy, Sources
    <2>3. \A x \in Msg : x \in InMemory \cup Delivered => <<x, n>> \in MsgPairs
      BY <2>1, <2>2, NewestLast
    <2>4. \A h \in Msg : h \in ShardHeld => <<n, h>> \in MsgPairs
      BY <1>0, <2>2, OtherShards DEF ShardHeld
    <2>5. \/ Enqueue(n) /\ UNCHANGED shard
          \/ UNCHANGED queue /\ \E pc \in Busy : ShardAt(s, pc, n)
      BY <1>1, <2>1 DEF Submit, Busy
    <2>6. CASE Enqueue(n) /\ UNCHANGED shard
      <3>1. ShardHeld' = ShardHeld BY <2>6, KeepFrame
      <3>2. Ordered' BY <1>0, <2>2, <2>3, <2>4, <2>6, <3>1, OrderedEnqueue DEF InMemory
      <3>3. Elems(queue)' = Elems(queue) \cup {n} BY <1>0, <2>6, EnqueueEffect
      <3>4. Origins' BY <1>0, <2>2, <2>6, <3>3 DEF Origins
      <3> QED BY <3>2, <3>4 DEF LineInv
    <2>7. CASE UNCHANGED queue /\ \E pc \in Busy : ShardAt(s, pc, n)
      <3>1. PICK pc \in ShardPc : ShardAt(s, pc, n) BY <2>7 DEF Busy, ShardPc
      <3>2. shard'[s].msg = n /\ \A t \in Shards \ {s} : shard'[t] = shard[t] BY <1>0, <3>1, ShardAtEffect
      <3>3. ShardHeld' \subseteq ShardHeld \cup {n} BY <3>2 DEF ShardHeld
      <3>4. MsgPairs' = MsgPairs /\ RecordPairs' = RecordPairs BY <2>2 DEF MsgPairs, RecordPairs, Precedes
      <3>5. Delivered' = Delivered /\ ClientHeld' = ClientHeld /\ queue' = queue BY <2>2, <2>7, KeepFrame
      <3>6. Ordered' BY <1>0, <2>2, <2>3, <3>3, <3>4, <3>5 DEF Ordered, Before, InMemory
      <3>7. Origins' BY <1>0, <2>2, <2>7, <3>2 DEF Origins
      <3> QED BY <3>6, <3>7 DEF LineInv
    <2> QED BY <2>5, <2>6, <2>7
  <1>2. CASE SubmitBlocked(s) \/ (SubmitResend(s) /\ QueueHasRoom)
    <2>1. PICK n \in Msg : n = shard[s].msg
      BY <1>2, BusyShardIsEarly DEF SubmitBlocked, SubmitResend, Busy
    <2>2. Enqueue(n) /\ ShardAt(s, "idle", NoMsg)
          /\ UNCHANGED <<batch, retained, inflight, reports, spool, log, runMsg, delivMsg, detoured>>
      BY <1>2, <2>1 DEF SubmitBlocked, SubmitResend, history, runVars, clientVars, fileVars, mainVars
    <2>3. shard'[s].msg = NoMsg /\ \A t \in Shards \ {s} : shard'[t] = shard[t]
      BY <1>0, <2>2, ShardAtEffect DEF ShardPc
    <2>4. n[1] = s /\ n \in ShardHeld BY <1>0, <2>1 DEF Origins, ShardHeld
    <2>5. ShardHeld' \subseteq ShardHeld \cup {NoMsg} BY <2>3 DEF ShardHeld
    <2>6. \A h \in Msg : h \in ShardHeld' => <<n, h>> \in MsgPairs
      <3>1. ASSUME NEW h \in Msg, h \in ShardHeld' PROVE \E t \in Shards \ {s} : h = shard[t].msg
        BY <1>0, <2>3, <3>1 DEF ShardHeld
      <3> QED BY <1>0, <2>4, <3>1, OtherShards
    <2>7. \A x \in Msg : x \in Delivered \cup ClientHeld \cup {runMsg} \cup Elems(queue) => <<x, n>> \in MsgPairs
      BY <1>0, <2>4 DEF Ordered, Before
    <2>8. Ordered' BY <1>0, <2>2, <2>5, <2>6, <2>7, OrderedEnqueue
    <2>9. Origins'
      <3>1. Elems(queue)' = Elems(queue) \cup {n} BY <1>0, <2>2, EnqueueEffect
      <3> QED BY <1>0, <2>2, <2>3, <2>4, <3>1 DEF Origins
    <2> QED BY <2>8, <2>9 DEF LineInv
  <1>3. CASE SubmitEvict(s) \/ (SubmitResend(s) /\ ~QueueHasRoom)
    <2>1. PICK pc \in ShardPc : ShardAt(s, pc, shard[s].msg)
      BY <1>3 DEF SubmitEvict, SubmitResend, Enqueue, ShardPc
    <2>2. shard[s].msg \in Msg BY <1>3, BusyShardIsEarly DEF SubmitEvict, SubmitResend, Busy
    <2>3. shard'[s].msg = shard[s].msg /\ \A t \in Shards \ {s} : shard'[t] = shard[t]
      BY <1>0, <2>1, <2>2, ShardAtEffect
    <2>4. UNCHANGED <<batch, retained, inflight, spool, log, runMsg, detoured>>
      BY <1>3 DEF SubmitEvict, SubmitResend, runVars, clientVars, fileVars, mainVars
    <2>5. SortedBy(queue', MsgPairs) /\ Elems(queue)' \subseteq Elems(queue)
      <3>1. CASE queue # <<>> /\ queue' = Tail(queue)
        BY <1>0, <3>1, SortedTail, DequeueEffect DEF Ordered, QueueType
      <3>2. CASE UNCHANGED queue BY <1>0, <3>2 DEF Ordered
      <3> QED BY <1>3, <3>1, <3>2 DEF SubmitEvict, SubmitResend, Enqueue
    <2>6. ShardHeld' \subseteq ShardHeld BY <2>3 DEF ShardHeld
    <2>7. Ordered' BY <1>0, <2>4, <2>5, <2>6, OrderFrame, OrderedFrame
    <2>8. Origins' BY <1>0, <2>3, <2>4, <2>5 DEF Origins
    <2> QED BY <2>7, <2>8 DEF LineInv
  <1>4. CASE SubmitSpool(s)
    <2>1. /\ shard[s].msg \in Msg /\ spoolMessage(shard[s].msg) /\ ShardAt(s, "idle", NoMsg)
          /\ UNCHANGED <<queue, batch, retained, inflight, log, runMsg>>
      BY <1>4, BusyShardIsEarly DEF SubmitSpool, runVars, clientVars, Busy
    <2>2. shard'[s].msg = NoMsg /\ \A t \in Shards \ {s} : shard'[t] = shard[t]
      BY <1>0, <2>1, ShardAtEffect DEF ShardPc
    <2>3. ShardHeld' \subseteq ShardHeld \cup {NoMsg} BY <2>2 DEF ShardHeld
    <2>4. detoured \subseteq detoured' /\ Elems(spool)' \subseteq detoured'
      BY <1>0, <2>1, SpoolDetours DEF Origins
    <2>5. Ordered' BY <1>0, <2>1, <2>3, <2>4, OrderFrame, OrderedFrame
    <2>6. Origins' BY <1>0, <2>1, <2>2, <2>4 DEF Origins
    <2> QED BY <2>5, <2>6 DEF LineInv
  <1>5. CASE ShardExit(s)
    <2>1. ShardAt(s, "exited", NoMsg)
          /\ UNCHANGED <<queue, batch, retained, inflight, spool, log, runMsg, detoured>>
      BY <1>5 DEF ShardExit, MainStep, runVars, clientVars, fileVars, history
    <2>2. shard'[s].msg = NoMsg /\ \A t \in Shards \ {s} : shard'[t] = shard[t]
      BY <1>0, <2>1, ShardAtEffect DEF ShardPc
    <2>3. ShardHeld' \subseteq ShardHeld \cup {NoMsg} BY <2>2 DEF ShardHeld
    <2>4. Ordered' BY <1>0, <2>1, <2>3, OrderFrame, OrderedFrame
    <2>5. Origins' BY <1>0, <2>1, <2>2 DEF Origins
    <2> QED BY <2>4, <2>5 DEF LineInv
  <1> QED BY <1>1, <1>2, <1>3, <1>4, <1>5 DEF ShardStep

LEMMA RunLine ==
  ASSUME IInv, LineInv, RunStep
  PROVE  LineInv'
  <1>0. /\ QueueType /\ RunType /\ ClientType /\ FileType /\ Ordered /\ Origins /\ NoMsg \notin Msg
        /\ queue \in Seq(Msg) /\ batch \in Seq(Msg) /\ retained \in Seq(Msg) /\ inflight \in Seq(Record)
    BY NoMsgAssumption DEF IInv, TypeOK, LineInv, QueueType, RunType, ClientType
  <1>1. CASE RunDequeue \/ DrainTake \/ DrainRest
    <2>1. /\ queue # <<>> /\ queue' = Tail(queue) /\ runMsg' = Head(queue) /\ runMsg = NoMsg
          /\ UNCHANGED <<shard, batch, retained, inflight, spool, log, detoured>>
      BY <1>1 DEF RunDequeue, DrainTake, DrainRest, clientVars, fileVars, history, IInv, RunHands
    <2>2. Elems(queue) = {runMsg'} \cup Elems(queue)' /\ runMsg' \in Msg
      BY <1>0, <2>1, DequeueEffect
    <2>3. SortedBy(queue', MsgPairs) /\ \A x \in Elems(queue)' : <<runMsg', x>> \in MsgPairs
      BY <1>0, <2>1, SortedTail DEF Ordered
    <2>4. MsgPairs' = MsgPairs /\ RecordPairs' = RecordPairs BY <2>1 DEF MsgPairs, RecordPairs, Precedes
    <2>5. Delivered' = Delivered /\ ClientHeld' = ClientHeld /\ ShardHeld' = ShardHeld BY <2>1, KeepFrame
    <2>6. Ordered' BY <1>0, <2>1, <2>2, <2>3, <2>4, <2>5 DEF Ordered, Before
    <2>7. Origins' BY <1>0, <2>1, <2>2 DEF Origins
    <2> QED BY <2>6, <2>7 DEF LineInv
  <1>2. CASE RunProduce
    <2>1. UNCHANGED <<shard, queue, batch, retained, spool, log, detoured>>
      BY <1>2 DEF RunProduce, fileVars, history
    <2>2. CASE UNCHANGED <<inflight, runMsg>>
      <3>1. Ordered' BY <1>0, <2>1, <2>2, OrderFrame, OrderedFrame
      <3>2. Origins' BY <1>0, <2>1, <2>2 DEF Origins
      <3> QED BY <3>1, <3>2 DEF LineInv
    <2>3. CASE inflight' = Append(inflight, [msg |-> runMsg, topic |-> "raw"]) /\ runMsg' = NoMsg
      <3>1. PICK r \in Record : r = [msg |-> runMsg, topic |-> "raw"]
        BY <1>2 DEF RunProduce, IInv, RunHands, Record, Topic
      <3>2. r.msg = runMsg /\ inflight' = Append(inflight, r) /\ runMsg \in Msg BY <2>3, <3>1 DEF Record
      <3>3. ClientHeld' = ClientHeld \cup {runMsg} BY <1>0, <3>2, ClientTakes
      <3>4. \A x \in Elems(inflight) : <<x, r>> \in RecordPairs
        <4>1. ASSUME NEW x \in Elems(inflight) PROVE <<x, r>> \in RecordPairs
          <5>0. x \in Record BY <1>0, ElemsInSet
          <5>1. x \in Record /\ x.msg \in Msg /\ x.msg \in ClientHeld
            BY <5>0 DEF Record, ClientHeld
          <5>2. Precedes(x.msg, runMsg) BY <1>0, <3>2, <5>1, PairOf DEF Ordered, Before
          <5> QED BY <3>2, <5>1, <5>2 DEF RecordPairs
        <4> QED BY <4>1
      <3>5. SortedBy(inflight', RecordPairs) BY <1>0, <3>2, <3>4, SortedAppend DEF Ordered
      <3>6. MsgPairs' = MsgPairs /\ RecordPairs' = RecordPairs BY <2>1 DEF MsgPairs, RecordPairs, Precedes
      <3>7. Delivered' = Delivered /\ ShardHeld' = ShardHeld BY <2>1, KeepFrame
      <3>8. Ordered' BY <1>0, <2>1, <2>3, <3>3, <3>5, <3>6, <3>7 DEF Ordered, Before
      <3>9. Origins' BY <1>0, <2>1, <2>3 DEF Origins
      <3> QED BY <3>8, <3>9 DEF LineInv
    <2> QED BY <1>2, <2>2, <2>3 DEF RunProduce
  <1>3. CASE RunSpool
    <2>1. /\ runMsg \in Msg /\ spoolMessage(runMsg) /\ runMsg' = NoMsg
          /\ UNCHANGED <<shard, queue, batch, retained, inflight, log>>
      BY <1>3 DEF RunSpool, clientVars, IInv, RunHands
    <2>2. detoured \subseteq detoured' /\ Elems(spool)' \subseteq detoured'
      BY <1>0, <2>1, SpoolDetours DEF Origins
    <2>3. Ordered' BY <1>0, <2>1, <2>2, OrderFrame, OrderedFrame
    <2>4. Origins' BY <1>0, <2>1, <2>2 DEF Origins
    <2> QED BY <2>3, <2>4 DEF LineInv
  <1>4. CASE ReplayTick
    <2>1. /\ batch' = spool /\ spool' = <<>>
          /\ UNCHANGED <<shard, queue, runMsg, retained, inflight, log, detoured>>
      BY <1>4 DEF ReplayTick, drainAll, clientVars, history
    <2>2. Ordered' BY <1>0, <2>1, OrderFrame, OrderedFrame
    <2>3. Origins' BY <1>0, <2>1, ElemsEmpty DEF Origins
    <2> QED BY <2>2, <2>3 DEF LineInv
  <1>5. CASE ReplayEnqueue
    <2>1. /\ batch # <<>> /\ batch' = Tail(batch)
          /\ UNCHANGED <<shard, runMsg, inflight, spool, log, detoured>>
      BY <1>5 DEF ReplayEnqueue, clientVars, fileVars, history
    <2>2. PICK n : n = Head(batch) OBVIOUS
    <2>3. n \in Msg /\ Elems(batch) = {n} \cup Elems(batch)' BY <1>0, <2>1, <2>2, ElemsTail
    <2>4. n \in detoured BY <1>0, <2>3 DEF Origins
    <2>5. CASE Enqueue(n) /\ UNCHANGED retained
      <3>1. ShardHeld' = ShardHeld BY <2>1, KeepFrame
      <3>2. Ordered' BY <1>0, <2>1, <2>3, <2>4, <2>5, <3>1, DetouredPairs, OrderedEnqueue
      <3>3. Elems(queue)' = Elems(queue) \cup {n} BY <1>0, <2>3, <2>5, EnqueueEffect
      <3>4. Origins' BY <1>0, <2>1, <2>3, <2>4, <2>5, <3>3 DEF Origins
      <3> QED BY <3>2, <3>4 DEF LineInv
    <2>6. CASE UNCHANGED queue /\ retained' = Append(retained, n)
      <3>1. Ordered' BY <1>0, <2>1, <2>6, OrderFrame, OrderedFrame
      <3>2. Elems(retained)' = Elems(retained) \cup {n} BY <1>0, <2>3, <2>6, ElemsAppend
      <3>3. Origins' BY <1>0, <2>1, <2>3, <2>4, <2>6, <3>2 DEF Origins
      <3> QED BY <3>1, <3>3 DEF LineInv
    <2> QED BY <1>5, <2>2, <2>5, <2>6 DEF ReplayEnqueue
  <1>6. CASE ReplayRetain
    <2>1. /\ retained # <<>> /\ retained' = Tail(retained) /\ spoolMessage(Head(retained))
          /\ UNCHANGED <<shard, queue, runMsg, batch, inflight, log>>
      BY <1>6 DEF ReplayRetain, clientVars
    <2>2. Head(retained) \in Msg /\ Elems(retained) = {Head(retained)} \cup Elems(retained)'
      BY <1>0, <2>1, ElemsTail
    <2>3. detoured \subseteq detoured' /\ Elems(spool)' \subseteq detoured'
      BY <1>0, <2>1, <2>2, SpoolDetours DEF Origins
    <2>4. Ordered' BY <1>0, <2>1, <2>3, OrderFrame, OrderedFrame
    <2>5. Origins' BY <1>0, <2>1, <2>2, <2>3 DEF Origins
    <2> QED BY <2>4, <2>5 DEF LineInv
  <1>7. CASE ReplayDone \/ RunStop \/ DrainTimeout \/ DrainDone
    <2>1. UNCHANGED <<shard, queue, runMsg, batch, retained, inflight, spool, log, detoured>>
      BY <1>7 DEF ReplayDone, RunStop, DrainTimeout, DrainDone, history, clientVars, fileVars
    <2>2. Ordered' BY <1>0, <2>1, OrderFrame, OrderedFrame
    <2>3. Origins' BY <1>0, <2>1 DEF Origins
    <2> QED BY <2>2, <2>3 DEF LineInv
  <1> QED BY <1>1, <1>2, <1>3, <1>4, <1>5, <1>6, <1>7 DEF RunStep

(* A metrics record overtakes whatever waits in the queue; none of that is  *)
(* a metrics record that avoided the spool.                                 *)
LEMMA PublishMetricsLine ==
  ASSUME IInv, AllLone, LineInv, PublishMetrics
  PROVE  LineInv'
  <1>0. ClientType /\ Ordered /\ Origins /\ NoMsg \notin Msg /\ inflight \in Seq(Record)
    BY NoMsgAssumption DEF IInv, TypeOK, LineInv, ClientType
  <1>1. PICK n \in Msg : n = <<Metrics, sent[Metrics] + 1>> BY NextMetrics DEF PublishMetrics
  <1>2. /\ UNCHANGED <<shard, queue, runMsg, batch, retained, spool, log, detoured>>
        /\ inflight' = Append(inflight, [msg |-> n, topic |-> "metrics"]) \/ inflight' = inflight
        /\ n[1] = Metrics /\ Metrics \in Sources
    BY <1>1 DEF PublishMetrics, runVars, fileVars, Sources
  <1>3. Origins' BY <1>0, <1>2 DEF Origins
  <1>4. CASE inflight' = inflight
    <2>1. Ordered' BY <1>0, <1>2, <1>4, OrderFrame, OrderedFrame
    <2> QED BY <1>3, <2>1 DEF LineInv
  <1>5. CASE inflight' = Append(inflight, [msg |-> n, topic |-> "metrics"])
    <2>1. PICK r \in Record : r = [msg |-> n, topic |-> "metrics"] BY DEF Record, Topic
    <2>2. r.msg = n /\ inflight' = Append(inflight, r) BY <1>5, <2>1
    <2>3. ClientHeld' = ClientHeld \cup {n} BY <1>0, <2>2, ClientTakes
    <2>4. \A x \in Msg : x \in InMemory \cup Delivered => <<x, n>> \in MsgPairs
      BY <1>1, <1>2, NewestLast
    <2>5. \A x \in Elems(inflight) : <<x, r>> \in RecordPairs
      <3>1. ASSUME NEW x \in Elems(inflight) PROVE <<x, r>> \in RecordPairs
        <4>1. x \in Record /\ x.msg \in Msg /\ x.msg \in ClientHeld
          BY <1>0, ElemsInSet DEF Record, ClientHeld
        <4>2. Precedes(x.msg, n) BY <2>4, <4>1, PairOf DEF InMemory
        <4> QED BY <2>2, <4>1, <4>2 DEF RecordPairs
      <3> QED BY <3>1
    <2>6. SortedBy(inflight', RecordPairs) BY <1>0, <2>2, <2>5, SortedAppend DEF Ordered
    <2>7. \A x \in Msg : x \in {runMsg} \cup Elems(queue) \cup ShardHeld => <<n, x>> \in MsgPairs
      <3>1. ASSUME NEW x \in Msg, x \in {runMsg} \cup Elems(queue) \cup ShardHeld
            PROVE  x[1] \in Shards \/ x \in detoured
        BY <1>0, <3>1 DEF Origins, ShardHeld
      <3>2. \A x \in Msg : x[1] \in Shards => <<n, x>> \in MsgPairs
        BY <1>2, SourcesAssumption, PairOf DEF Precedes
      <3> QED BY <3>1, <3>2, DetouredPairs
    <2>8. MsgPairs' = MsgPairs /\ RecordPairs' = RecordPairs BY <1>2 DEF MsgPairs, RecordPairs, Precedes
    <2>9. Delivered' = Delivered /\ ShardHeld' = ShardHeld BY <1>2, KeepFrame
    <2>10. Ordered' BY <1>0, <1>2, <2>3, <2>4, <2>6, <2>7, <2>8, <2>9 DEF Ordered, Before, InMemory
    <2> QED BY <1>3, <2>10 DEF LineInv
  <1> QED BY <1>2, <1>4, <1>5

LEMMA ClientLine ==
  ASSUME IInv, LineInv, ClientStep
  PROVE  LineInv'
  <1>0. ClientType /\ Ordered /\ Origins /\ NoMsg \notin Msg /\ inflight \in Seq(Record) /\ log \in Seq(Record)
    BY NoMsgAssumption DEF IInv, TypeOK, LineInv, ClientType
  <1>1. ASSUME inflight # <<>>, inflight' = Tail(inflight), log' \in {log, Append(log, Head(inflight))},
               UNCHANGED <<shard, queue, runMsg, batch, retained, spool, detoured>>
        PROVE  LineInv'
    <2>1. PICK r : r = Head(inflight) OBVIOUS
    <2>2. r \in Record /\ r.msg \in Msg /\ ClientHeld = {r.msg} \cup ClientHeld'
      BY <1>0, <1>1, <2>1, ClientGives DEF Record
    <2>3. SortedBy(inflight', RecordPairs) /\ \A x \in Elems(inflight)' : <<r, x>> \in RecordPairs
      BY <1>0, <1>1, <2>1, SortedTail DEF Ordered
    <2>4. \A x \in ClientHeld' : <<r.msg, x>> \in MsgPairs
      <3>1. ASSUME NEW x \in ClientHeld' PROVE <<r.msg, x>> \in MsgPairs
        <4>1. PICK y \in Elems(inflight)' : x = y.msg BY DEF ClientHeld
        <4>2. <<r, y>> \in RecordPairs BY <2>3
        <4>3. y \in Record /\ y.msg \in Msg /\ Precedes(r.msg, y.msg) BY <4>2 DEF RecordPairs, Record
        <4> QED BY <2>2, <4>1, <4>3, PairOf
      <3> QED BY <3>1
    <2>5. SortedBy(log', RecordPairs) /\ Delivered' \subseteq Delivered \cup {r.msg}
      <3>1. CASE log' = log BY <1>0, <3>1, KeepFrame DEF Ordered
      <3>2. CASE log' = Append(log, r)
        <4>1. ASSUME NEW x \in Elems(log) PROVE <<x, r>> \in RecordPairs
          <5>1. x \in Record /\ x.msg \in Msg /\ x.msg \in Delivered
            BY <1>0, ElemsInSet DEF Record, Delivered
          <5>2. Precedes(x.msg, r.msg) BY <1>0, <2>2, <5>1, PairOf DEF Ordered, Before
          <5> QED BY <2>2, <5>1, <5>2 DEF RecordPairs
        <4>2. SortedBy(log', RecordPairs) BY <1>0, <2>2, <3>2, <4>1, SortedAppend DEF Ordered
        <4> QED BY <1>0, <2>2, <3>2, <4>2, BrokerStores
      <3> QED BY <1>1, <2>1, <3>1, <3>2
    <2>6. MsgPairs' = MsgPairs /\ RecordPairs' = RecordPairs BY <1>1 DEF MsgPairs, RecordPairs, Precedes
    <2>7. ShardHeld' = ShardHeld BY <1>1, KeepFrame
    <2>8. Ordered' BY <1>0, <1>1, <2>2, <2>3, <2>4, <2>5, <2>6, <2>7 DEF Ordered, Before
    <2>9. Origins' BY <1>0, <1>1 DEF Origins
    <2> QED BY <2>8, <2>9 DEF LineInv
  <1>2. CASE Deliver BY <1>1, <1>2 DEF Deliver, runVars, fileVars, history
  <1>3. ASSUME NEW err \in Err \ {"none"}, NEW stored \in BOOLEAN, DeliverFail(err, stored) PROVE LineInv'
    BY <1>1, <1>3 DEF DeliverFail, runVars, fileVars
  <1>4. ASSUME NEW err \in Err \ {"none"}, ClientError(err) PROVE LineInv'
    <2>1. UNCHANGED <<shard, queue, runMsg, batch, retained, inflight, spool, log, detoured>>
      BY <1>4 DEF ClientError, runVars, fileVars, history
    <2>2. Ordered' BY <1>0, <2>1, OrderFrame, OrderedFrame
    <2>3. Origins' BY <1>0, <2>1 DEF Origins
    <2> QED BY <2>2, <2>3 DEF LineInv
  <1> QED BY <1>2, <1>3, <1>4 DEF ClientStep

LEMMA ReportLine ==
  ASSUME IInv, LineInv, TakeReport \/ SpoolFailedDelivery \/ CircuitExpire
  PROVE  LineInv'
  <1>0. FileType /\ Ordered /\ Origins BY DEF IInv, TypeOK, LineInv
  <1>1. CASE TakeReport \/ CircuitExpire
    <2>1. UNCHANGED <<shard, queue, runMsg, batch, retained, inflight, spool, log, detoured>>
      BY <1>1 DEF TakeReport, CircuitExpire, runVars, clientVars, fileVars, history
    <2>2. Ordered' BY <1>0, <2>1, OrderFrame, OrderedFrame
    <2>3. Origins' BY <1>0, <2>1 DEF Origins
    <2> QED BY <2>2, <2>3 DEF LineInv
  <1>2. CASE SpoolFailedDelivery
    <2>1. /\ delivMsg \in Msg /\ spoolMessage(delivMsg)
          /\ UNCHANGED <<shard, queue, runMsg, batch, retained, inflight, log>>
      BY <1>2 DEF SpoolFailedDelivery, runVars, clientVars, IInv, TypeOK, ReportType
    <2>2. detoured \subseteq detoured' /\ Elems(spool)' \subseteq detoured'
      BY <1>0, <2>1, SpoolDetours DEF Origins
    <2>3. Ordered' BY <1>0, <2>1, <2>2, OrderFrame, OrderedFrame
    <2>4. Origins' BY <1>0, <2>1, <2>2 DEF Origins
    <2> QED BY <2>3, <2>4 DEF LineInv
  <1> QED BY <1>1, <1>2

LEMMA MainLine ==
  ASSUME IInv, LineInv, Signal \/ WaitDone \/ FlushReturn \/ Exit \/ Crash \/ Restart
  PROVE  LineInv'
  <1>0. FileType /\ Ordered /\ Origins /\ NoMsg \notin Msg
    BY NoMsgAssumption DEF IInv, TypeOK, LineInv
  <1>1. CASE Signal \/ WaitDone \/ FlushReturn
    <2>1. UNCHANGED <<shard, queue, runMsg, batch, retained, inflight, spool, log, detoured>>
      BY <1>1 DEF Signal, WaitDone, FlushReturn, MainStep, runVars, clientVars, fileVars, history
    <2>2. Ordered' BY <1>0, <2>1, OrderFrame, OrderedFrame
    <2>3. Origins' BY <1>0, <2>1 DEF Origins
    <2> QED BY <2>2, <2>3 DEF LineInv
  <1>2. CASE Exit \/ Crash
    <2>1. /\ shard' = [s \in Shards |-> [pc |-> "idle", msg |-> NoMsg]] /\ queue' = <<>> /\ batch' = <<>>
          /\ retained' = <<>> /\ inflight' = <<>> /\ runMsg' = NoMsg
          /\ spool' = spool \/ spool' = KeptRecords
          /\ UNCHANGED <<log, detoured>>
      BY <1>2 DEF Exit, Crash, ProcessEnds, fileVars
    <2>2. ShardHeld' \subseteq {NoMsg} /\ ClientHeld' = {} /\ Elems(queue)' = {}
      BY <2>1, ElemsEmpty DEF ShardHeld, ClientHeld
    <2>3. Elems(spool)' \subseteq Elems(spool) BY <2>1, ElemsEmpty DEF KeptRecords
    <2>4. SortedBy(inflight', RecordPairs) /\ SortedBy(queue', MsgPairs) BY <2>1, SortedEmpty
    <2>5. SortedBy(log', RecordPairs) /\ Delivered' \subseteq Delivered BY <2>1, OrderFrame
    <2>6. Ordered' BY <1>0, <2>1, <2>2, <2>4, <2>5, OrderedFrame
    <2>7. Origins' BY <1>0, <2>1, <2>2, <2>3, ElemsEmpty DEF Origins
    <2> QED BY <2>6, <2>7 DEF LineInv
  <1>3. CASE Restart
    <2>1. /\ (batch' = spool /\ spool' = <<>>) \/ UNCHANGED <<batch, spool>>
          /\ UNCHANGED <<shard, queue, runMsg, retained, inflight, log, detoured>>
      BY <1>3 DEF Restart, drainAll, clientVars, fileVars, history
    <2>2. Ordered' BY <1>0, <2>1, OrderFrame, OrderedFrame
    <2>3. Origins' BY <1>0, <2>1, ElemsEmpty DEF Origins
    <2> QED BY <2>2, <2>3 DEF LineInv
  <1> QED BY <1>1, <1>2, <1>3

(* Events of one shard that avoid the spool reach the brokers in the order  *)
(* in which submit() was called, whatever is dropped, evicted, replayed or  *)
(* lost in between, and across crashes.                                     *)
THEOREM OrderIsKept == Spec => []UnspooledInOrder
  <1>1. Init => LineInv
    <2> SUFFICES ASSUME Init PROVE LineInv OBVIOUS
    <2>1. Ordered
      <3>1. SortedBy(log, RecordPairs) /\ SortedBy(inflight, RecordPairs) /\ SortedBy(queue, MsgPairs)
        BY SortedEmpty DEF Init
      <3>2. Delivered = {} /\ ClientHeld = {} /\ Elems(queue) = {} /\ {runMsg} \cap Msg = {}
        BY ElemsEmpty, NoMsgAssumption DEF Init, Delivered, ClientHeld
      <3> QED BY <3>1, <3>2 DEF Ordered, Before
    <2>2. Origins BY ElemsEmpty, NoMsgAssumption DEF Init, Origins
    <2> QED BY <2>1, <2>2 DEF LineInv
  <1>2. IInv /\ AllLone /\ LineInv /\ [Next]_vars => LineInv'
    <2> SUFFICES ASSUME IInv, AllLone, LineInv, [Next]_vars PROVE LineInv' OBVIOUS
    <2>1. CASE UNCHANGED vars
      <3>1. UNCHANGED <<shard, queue, runMsg, batch, retained, inflight, spool, log, detoured>>
        BY <2>1 DEF vars
      <3>2. Ordered' BY <3>1, OrderFrame, OrderedFrame DEF LineInv
      <3>3. Origins' BY <3>1 DEF LineInv, Origins
      <3> QED BY <3>2, <3>3 DEF LineInv
    <2> QED BY <2>1, ShardLine, RunLine, PublishMetricsLine, ClientLine, ReportLine, MainLine DEF Next
  <1>3. LineInv => UnspooledInOrder
    BY DEF LineInv, Ordered, SortedBy, RecordPairs, Precedes, UnspooledInOrder
  <1> QED BY <1>1, <1>2, <1>3, Invariance, CopiesStayApart, PTL DEF Spec

=============================================================================
