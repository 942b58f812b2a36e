--------------------------- MODULE StreamSessions ---------------------------
(***************************************************************************)
(* The worker's reassembly (cmd/worker/processing.go, store.go and the     *)
(* cleanup goroutine of output.go) for the events of one session key: the  *)
(* consumer goroutine looks a session up under the store's lock and works  *)
(* on it under the session's own lock; the cleanup goroutine removes idle  *)
(* sessions from the store and drains them afterwards.  A session that has *)
(* left the store may still be in the hands of either goroutine, so        *)
(* sessions are objects of a heap.                                         *)
(*                                                                         *)
(* Bytes are abstracted to tokens.  A message is a head token that         *)
(* announces how many tokens follow and that many tokens; the parser takes *)
(* as many tokens as the head announces, whatever they are, just as        *)
(* net/http takes Content-Length bytes.  A request's head is two tokens,   *)
(* since an event may end between them: the first holds the method, which  *)
(* the classifier looks for, the second is the line's rest from "HTTP/1."  *)
(* on, which alone looks like a response.  A cut inside a response's head, *)
(* or later in a request's, leaves a rest that looks like nothing and is   *)
(* routed as a body token is.                                              *)
(***************************************************************************)
EXTENDS Naturals, Sequences, FiniteSets, SequencesExt

CONSTANTS
  Profiles,       \* the connections under study: sequences of exchanges
  Roles,          \* "server": requests are read; "client": they are written
  MaxChunk,       \* bound: tokens of one captured event
  MaxWire,        \* bound: events on their way through Kafka
  MaxStreamTokens,\* cfg.maxStreamBytes
  MaxSessions,    \* bound: session objects
  MayExpire,      \* whether sessionTTL may pass between two events
  Budget          \* bounds: how often each fault may happen

(* An exchange: body lengths, whether the response ends with the           *)
(* connection, whether its body contains text that looks like a method, and*)
(* whether an informational response (100 Continue) precedes it.           *)
Exchange == [req : Nat, resp : Nat, eof : BOOLEAN, lookalike : BOOLEAN, info : BOOLEAN]
Fault == {"lose", "dup", "swap", "cut"}

ASSUME ProfilesAssumption == \A p \in Profiles : p \in Seq(Exchange)
ASSUME RolesAssumption == Roles \subseteq {"server", "client"}
ASSUME LimitsAssumption ==
  /\ MaxChunk \in Nat \ {0} /\ MaxWire \in Nat \ {0} /\ MaxStreamTokens \in Nat \ {0}
  /\ MaxSessions \in Nat \ {0} /\ MayExpire \in BOOLEAN /\ Budget \in [Fault -> Nat]

Tok == [kind : {"req", "line", "resp", "respEOF", "info", "body"}, side : {"req", "resp"}, x : Nat,
        n : Nat, looks : {"req", "resp", "none"}]

Body(side, x, len, looks) ==
  [i \in 1 .. len |-> [kind |-> "body", side |-> side, x |-> x, n |-> i, looks |-> looks]]

(* what a request's head announces: its line and its body *)
RequestRest(x, len) ==
  [i \in 1 .. len + 1 |-> IF i = 1
     THEN [kind |-> "line", side |-> "req", x |-> x, n |-> i, looks |-> "resp"]
     ELSE [kind |-> "body", side |-> "req", x |-> x, n |-> i, looks |-> "none"]]

RequestToks(p, x) ==
  <<[kind |-> "req", side |-> "req", x |-> x, n |-> p[x].req + 1, looks |-> "req"]>>
    \o RequestRest(x, p[x].req)

ResponseToks(p, x) ==
  (IF p[x].info
   THEN <<[kind |-> "info", side |-> "resp", x |-> x, n |-> 0, looks |-> "resp"]>> ELSE <<>>) \o
  <<[kind |-> IF p[x].eof THEN "respEOF" ELSE "resp", side |-> "resp", x |-> x,
     n |-> p[x].resp, looks |-> "resp"]>>
    \o Body("resp", x, p[x].resp, IF p[x].lookalike THEN "req" ELSE "none")

VARIABLES
  profile, role,  \* the connection under study
  left,           \* tokens the connection has yet to carry, per side
  closed,         \* close(fd) was captured
  nextSeq,        \* sequence number of the next event
  wire,           \* captured events the worker has not polled
  heap,           \* StreamState objects
  fresh,          \* session objects allocated so far
  current,        \* store.sessions[key], 0 if there is none
  consumer,       \* where the poll loop is, its event and its session
  expired,        \* sessions cleanupExpired has removed and not drained
  emitted,        \* conversations handed to the sink
  faults,         \* history: what went wrong so far, request lines cut in two included
  budget          \* faults still to come

captureVars == <<profile, role, left, closed, nextSeq>>
vars == <<profile, role, left, closed, nextSeq, wire, heap, fresh, current, consumer,
          expired, emitted, faults, budget>>

Parsed == [x : Nat, whole : BOOLEAN, gap : BOOLEAN, truncated : BOOLEAN]

Session ==
  [req : Seq(Tok), resp : Seq(Tok), pending : Seq(Parsed), hasSeq : BOOLEAN, seq : Nat,
   gap : BOOLEAN, truncated : BOOLEAN, stale : BOOLEAN]

Conv == [req : Nat, resp : Nat, whole : BOOLEAN, gap : BOOLEAN, truncated : BOOLEAN]
Result == [st : Session, out : Seq(Conv)]

NewSession ==
  [req |-> <<>>, resp |-> <<>>, pending |-> <<>>, hasSeq |-> FALSE, seq |-> 0,
   gap |-> FALSE, truncated |-> FALSE, stale |-> FALSE]

NoEvent == [type |-> "none"]
Poll == [pc |-> "poll", ev |-> NoEvent, sid |-> 0]

Init ==
  /\ profile \in Profiles /\ role \in Roles
  /\ left = [req  |-> FlattenSeq([x \in DOMAIN profile |-> RequestToks(profile, x)]),
             resp |-> FlattenSeq([x \in DOMAIN profile |-> ResponseToks(profile, x)])]
  /\ closed = FALSE /\ nextSeq = 0 /\ wire = <<>>
  /\ heap = [i \in 1 .. MaxSessions |-> NewSession]
  /\ fresh = 0 /\ current = 0
  /\ consumer = Poll
  /\ expired = {} /\ emitted = <<>> /\ faults = {} /\ budget = Budget

-----------------------------------------------------------------------------
(* The way to the worker: what the kernel captures of the connection, and   *)
(* what Kafka and the agent may do to it (external to the worker).          *)

Spend(f) ==
  /\ budget[f] > 0
  /\ budget' = [budget EXCEPT ![f] = @ - 1]

(* A response is not sent before its request was read, an informational     *)
(* one not before its head.                                                 *)
MayCarry(side, n) ==
  /\ n <= Len(left[side])
  /\ side = "resp" => \A i \in 1 .. n : \A t \in Range(left.req) :
                        t.x # left.resp[i].x \/ (left.resp[i].kind = "info" /\ t.kind = "body")

Direction(side) == IF (side = "req") = (role = "server") THEN "read" ELSE "write"

DataEvent(side, toks, cut) ==
  [type |-> "data", seq |-> nextSeq, dir |-> Direction(side), toks |-> toks, cut |-> cut]

(* The next event starts inside a request line, with its "HTTP/1.". *)
SplitHead(side) == IF left[side][1].kind = "line" THEN {"head"} ELSE {}

Capture(side, n) ==
  /\ ~closed /\ Len(wire) < MaxWire /\ MayCarry(side, n)
  /\ left' = [left EXCEPT ![side] = SubSeq(@, n + 1, Len(@))]
  /\ nextSeq' = nextSeq + 1
  /\ \/ /\ wire' = Append(wire, DataEvent(side, SubSeq(left[side], 1, n), FALSE))
        /\ faults' = faults \cup SplitHead(side)
        /\ UNCHANGED budget
     \/ /\ n > 1 /\ Spend("cut") /\ faults' = faults \cup SplitHead(side) \cup {"cut"}
        /\ wire' = Append(wire, DataEvent(side, SubSeq(left[side], 1, n - 1), TRUE))
  /\ UNCHANGED <<profile, role, closed, heap, fresh, current, consumer, expired, emitted>>

CaptureClose ==
  /\ ~closed /\ Len(wire) < MaxWire /\ left.resp = <<>>
  /\ closed' = TRUE
  /\ wire' = Append(wire, [type |-> "close", seq |-> nextSeq])
  /\ nextSeq' = nextSeq + 1
  /\ UNCHANGED <<profile, role, left, heap, fresh, current, consumer, expired, emitted,
                 faults, budget>>

(* The first event of a session is special: no gap can be seen before it. *)
Lose ==
  /\ wire # <<>> /\ Spend("lose")
  /\ faults' = faults \cup {IF current = 0 THEN "loseFirst" ELSE "lose"}
  /\ wire' = Tail(wire)
  /\ UNCHANGED <<captureVars, heap, fresh, current, consumer, expired, emitted>>

Swap ==
  /\ Len(wire) >= 2 /\ Spend("swap")
  /\ faults' = faults \cup {IF current = 0 THEN "swapFirst" ELSE "swap"}
  /\ wire' = [i \in DOMAIN wire |-> IF i = 1 THEN wire[2] ELSE IF i = 2 THEN wire[1] ELSE wire[i]]
  /\ UNCHANGED <<captureVars, heap, fresh, current, consumer, expired, emitted>>

-----------------------------------------------------------------------------
(* Parsing *)

(* the position of the first token that looks like the start of a message *)
FirstLooking(buf, look) ==
  CHOOSE i \in 1 .. Len(buf) + 1 :
    /\ i <= Len(buf) => buf[i].looks = look
    /\ \A j \in 1 .. i - 1 : buf[j].looks # look

(* syncRequestBuffer, syncResponseBuffer: what precedes the first start is  *)
(* dropped (the 16-byte probe window is shorter than a token).              *)
Sync(buf, look) == SubSeq(buf, FirstLooking(buf, look), Len(buf))

classifyPayload(toks) ==
  LET r == FirstLooking(toks, "req")
      s == FirstLooking(toks, "resp")
  IN IF r <= Len(toks) /\ r < s THEN "req" ELSE IF s <= Len(toks) THEN "resp" ELSE "none"

(* the body is the exchange's own, all of it *)
Whole(head, body) ==
  /\ head.kind # "info" /\ Len(body) = head.n
  /\ \A i \in DOMAIN body :
       body[i].kind \in {"line", "body"} /\ body[i].side = head.side /\ body[i].x = head.x /\ body[i].n = i

(* without the rest of its line a request does not parse, whatever follows *)
parseOneRequest(buf) ==
  /\ buf # <<>> /\ Head(buf).kind = "req" /\ Len(buf) > Head(buf).n
  /\ buf[2].kind = "line"

parseOneResponse(buf, allowCloseDelimited) ==
  /\ buf # <<>>
  /\ \/ Head(buf).kind \in {"resp", "info"} /\ Len(buf) > Head(buf).n
     \/ Head(buf).kind = "respEOF" /\ allowCloseDelimited

Consumed(buf) == IF Head(buf).kind = "respEOF" THEN Len(buf) ELSE Head(buf).n + 1

DropParsed(buf) == SubSeq(buf, Consumed(buf) + 1, Len(buf))

(* one round of the first loop of drainParsedConversations *)
RequestRound(st) ==
  LET buf == Sync(st.req, "req") IN
  IF ~parseOneRequest(buf) THEN [st EXCEPT !.req = buf]
  ELSE [st EXCEPT !.req = DropParsed(buf),
                  !.pending = Append(@, [x |-> Head(buf).x,
                                         whole |-> Whole(Head(buf), SubSeq(buf, 2, Consumed(buf))),
                                         gap |-> st.gap, truncated |-> st.truncated])]

Conversation(r, buf, st) ==
  [req |-> r.x, resp |-> Head(buf).x,
   whole |-> r.whole /\ Whole(Head(buf), SubSeq(buf, 2, Consumed(buf))),
   gap |-> r.gap \/ st.gap, truncated |-> r.truncated \/ st.truncated]

(* mutant: the newest pending request is answered first *)
ResponseRound_NewestFirst(res, allowCloseDelimited) ==
  LET st == res.st
      buf == Sync(st.resp, "resp")
  IN IF st.pending = <<>> THEN res
     ELSE IF ~parseOneResponse(buf, allowCloseDelimited) THEN [res EXCEPT !.st.resp = buf]
     ELSE [st |-> [st EXCEPT !.resp = DropParsed(buf), !.pending = Front(@)],
           out |-> Append(res.out, Conversation(Last(st.pending), buf, st))]

(* one round of the second loop: it only looks at responses while a request *)
(* is pending                                                               *)
ResponseRound(res, allowCloseDelimited) ==
  LET st == res.st
      buf == Sync(st.resp, "resp")
  IN IF st.pending = <<>> THEN res
     ELSE IF ~parseOneResponse(buf, allowCloseDelimited) THEN [res EXCEPT !.st.resp = buf]
     ELSE [st |-> [st EXCEPT !.resp = DropParsed(buf), !.pending = Tail(@)],
           out |-> Append(res.out, Conversation(Head(st.pending), buf, st))]

(* A round that changes nothing ends its loop. *)
RequestRounds[st \in Session] ==
  IF RequestRound(st) = st THEN st ELSE RequestRounds[RequestRound(st)]

ResponseRounds(allowCloseDelimited) ==
  LET rounds[res \in Result] ==
        IF ResponseRound(res, allowCloseDelimited) = res THEN res
        ELSE rounds[ResponseRound(res, allowCloseDelimited)]
  IN rounds

drainParsedConversations(st, allowCloseDelimited) ==
  ResponseRounds(allowCloseDelimited)[[st |-> RequestRounds[st], out |-> <<>>]]

-----------------------------------------------------------------------------
(* The consumer goroutine *)

(* store.getOrCreate, under the store's lock *)
getOrCreate(ev) ==
  IF current # 0
  THEN /\ consumer' = [pc |-> "process", ev |-> ev, sid |-> current]
       /\ UNCHANGED <<fresh, current>>
  ELSE /\ fresh < MaxSessions
       /\ fresh' = fresh + 1
       /\ current' = fresh + 1
       /\ consumer' = [pc |-> "process", ev |-> ev, sid |-> fresh + 1]

(* store.get of handleCloseEvent: a close without a session is ignored *)
Lookup(ev) ==
  /\ consumer' = IF current = 0 THEN Poll ELSE [pc |-> "close", ev |-> ev, sid |-> current]
  /\ UNCHANGED <<fresh, current>>

(* consumer.Poll; a message whose offset was not committed is polled again *)
Receive(again) ==
  LET ev == Head(wire) IN
  /\ consumer.pc = "poll" /\ wire # <<>>
  /\ IF again THEN Spend("dup") /\ faults' = faults \cup {"dup"} /\ UNCHANGED wire
              ELSE wire' = Tail(wire) /\ UNCHANGED <<budget, faults>>
  /\ \/ ev.type = "data" /\ getOrCreate(ev)
     \/ ev.type = "close" /\ Lookup(ev)
  /\ UNCHANGED <<captureVars, heap, expired, emitted>>

(* mutant: one missing event is not seen as a gap *)
Touch_MissesOne(st, ev) ==
  [st EXCEPT !.stale = FALSE,
             !.gap = @ \/ (st.hasSeq /\ ev.seq > st.seq + 2),
             !.truncated = @ \/ ev.cut,
             !.seq = IF ~st.hasSeq \/ ev.seq >= st.seq THEN ev.seq ELSE @,
             !.hasSeq = TRUE]

(* the session after the sequence check and the loss metadata of an event *)
Touch(st, ev) ==
  [st EXCEPT !.stale = FALSE,
             !.gap = @ \/ (st.hasSeq /\ ev.seq > st.seq + 1),
             !.truncated = @ \/ ev.cut,
             !.seq = IF ~st.hasSeq \/ ev.seq >= st.seq THEN ev.seq ELSE @,
             !.hasSeq = TRUE]

RouteAsRequest(ev) ==
  LET kind == classifyPayload(ev.toks)
  IN kind = "req" \/ (kind = "none" /\ ev.dir = "read")

Route(st, ev) ==
  IF RouteAsRequest(ev) THEN [st EXCEPT !.req = @ \o ev.toks]
                        ELSE [st EXCEPT !.resp = @ \o ev.toks]

(* mutant: the limit is off by one *)
Overflows_OffByOne(st) == Len(st.req) > MaxStreamTokens + 1 \/ Len(st.resp) > MaxStreamTokens + 1

Overflows(st) == Len(st.req) > MaxStreamTokens \/ Len(st.resp) > MaxStreamTokens

(* an overflow clears the buffer it hits and the pending requests *)
Overflowed(st) ==
  [st EXCEPT !.req = IF Len(@) > MaxStreamTokens THEN <<>> ELSE @,
             !.resp = IF Len(@) > MaxStreamTokens THEN <<>> ELSE @,
             !.pending = <<>>]

(* session sid becomes st, drained; its conversations go to the sink *)
Drain(sid, st, allowCloseDelimited) ==
  \E res \in {drainParsedConversations(st, allowCloseDelimited)} :
    /\ heap' = [heap EXCEPT ![sid] = res.st]
    /\ emitted' = emitted \o res.out

(* the rest of processEvent, under the session's lock *)
Process ==
  LET sid == consumer.sid
      st == Route(Touch(heap[sid], consumer.ev), consumer.ev)
  IN
  /\ consumer.pc = "process"
  /\ consumer' = Poll
  /\ \/ /\ Overflows(st)
        /\ heap' = [heap EXCEPT ![sid] = Overflowed(st)]
        /\ faults' = faults \cup {"overflow"}
        /\ UNCHANGED emitted
     \/ /\ ~Overflows(st)
        /\ Drain(sid, st, FALSE)
        /\ UNCHANGED faults
  /\ UNCHANGED <<captureVars, wire, fresh, current, expired, budget>>

(* mutant: a close does not end a close-delimited response *)
CloseDrain_NotDelimited ==
  /\ consumer.pc = "close"
  /\ Drain(consumer.sid, heap[consumer.sid], FALSE)
  /\ consumer' = [consumer EXCEPT !.pc = "remove"]
  /\ UNCHANGED <<captureVars, wire, fresh, current, expired, faults, budget>>

(* handleCloseEvent: drain under the session's lock, then store.remove *)
CloseDrain ==
  /\ consumer.pc = "close"
  /\ Drain(consumer.sid, heap[consumer.sid], TRUE)
  /\ consumer' = [consumer EXCEPT !.pc = "remove"]
  /\ UNCHANGED <<captureVars, wire, fresh, current, expired, faults, budget>>

CloseRemove ==
  /\ consumer.pc = "remove"
  /\ current' = 0
  /\ consumer' = Poll
  /\ UNCHANGED <<captureVars, wire, heap, fresh, expired, emitted, faults, budget>>

-----------------------------------------------------------------------------
(* The cleanup goroutine *)

(* sessionTTL passes without an event *)
GoesStale ==
  /\ MayExpire /\ current # 0 /\ ~heap[current].stale
  /\ heap' = [heap EXCEPT ![current].stale = TRUE]
  /\ UNCHANGED <<captureVars, wire, fresh, current, consumer, expired, emitted, faults, budget>>

(* mutant: a session with a pending request is not expired *)
Sweep_KeepsPending ==
  /\ current # 0 /\ heap[current].stale /\ heap[current].pending = <<>>
  /\ current' = 0
  /\ expired' = expired \cup {current}
  /\ faults' = faults \cup {"expire"}
  /\ UNCHANGED <<captureVars, wire, heap, fresh, consumer, emitted, budget>>

(* cleanupExpired, under the store's lock *)
Sweep ==
  /\ current # 0 /\ heap[current].stale
  /\ current' = 0
  /\ expired' = expired \cup {current}
  /\ faults' = faults \cup {"expire"}
  /\ UNCHANGED <<captureVars, wire, heap, fresh, consumer, emitted, budget>>

(* mutant: a snapshot is drained, not the session *)
DrainExpired_Snapshot(sid) ==
  /\ sid \in expired
  /\ emitted' = emitted \o drainParsedConversations(heap[sid], TRUE).out
  /\ expired' = expired \ {sid}
  /\ UNCHANGED <<captureVars, wire, heap, fresh, current, consumer, faults, budget>>

(* onExpire, after the store's lock was released *)
DrainExpired(sid) ==
  /\ sid \in expired
  /\ Drain(sid, heap[sid], TRUE)
  /\ expired' = expired \ {sid}
  /\ UNCHANGED <<captureVars, wire, fresh, current, consumer, faults, budget>>

-----------------------------------------------------------------------------
CaptureStep ==
  \/ \E side \in {"req", "resp"}, n \in 1 .. MaxChunk : Capture(side, n)
  \/ CaptureClose

ConsumerStep == Receive(FALSE) \/ Receive(TRUE) \/ Process \/ CloseDrain \/ CloseRemove

CleanupStep == GoesStale \/ Sweep \/ \E sid \in expired : DrainExpired(sid)

Next == CaptureStep \/ Lose \/ Swap \/ ConsumerStep \/ CleanupStep

Spec == Init /\ [][Next]_vars

-----------------------------------------------------------------------------
(* Properties *)

(* The variables have their types; between two events neither stream buffer *)
(* of a session exceeds maxStreamBytes, and every session in anyone's hands *)
(* has been allocated.                                                      *)
TypeOK ==
  /\ left.req \in Seq(Tok) /\ left.resp \in Seq(Tok)
  /\ current \in 0 .. fresh /\ fresh \in 0 .. MaxSessions
  /\ consumer.pc \in {"poll", "process", "close", "remove"} /\ consumer.sid \in 0 .. fresh
  /\ expired \subseteq 1 .. fresh
  /\ \A i \in 1 .. MaxSessions :
       /\ heap[i] \in Session
       /\ Len(heap[i].req) <= MaxStreamTokens /\ Len(heap[i].resp) <= MaxStreamTokens
  /\ emitted \in Seq(Conv)

Right(c) == c.req = c.resp /\ c.whole
Flagged(c) == c.gap \/ c.truncated

(* An informational response counts as the response: from the exchange it   *)
(* belongs to on, requests are paired with the response before their own.   *)
Shifted(x) == \E y \in 1 .. x : profile[y].info

(* Without faults the worker emits the connection's exchanges in order,     *)
(* each response with its own request and with complete bodies, wherever    *)
(* the bytes are cut into events except inside a request line and however   *)
(* requests are pipelined, up to the first exchange with an informational   *)
(* response.                                                                *)
PairingExact ==
  faults = {} => \A i \in DOMAIN emitted :
                   /\ emitted[i].req = i /\ ~Flagged(emitted[i])
                   /\ Right(emitted[i]) \/ (Shifted(i) /\ emitted[i].resp <= i)

Quiet == closed /\ left.req = <<>> /\ wire = <<>> /\ consumer = Poll /\ expired = {}

(* ... and once the connection is closed and handleCloseEvent has drained   *)
(* its session, none of the exchanges is missing.  A request line cut       *)
(* before its "HTTP/1." is a fault here: its second half goes to the        *)
(* response buffer (processing.go:171-183), and neither half is parsed.     *)
AllEmitted == Quiet /\ faults = {} => Len(emitted) = Len(profile)

(* A conversation with a foreign response or a damaged body carries loss    *)
(* metadata, unless the damage has one of the causes the worker cannot see: *)
(* the session's first event is missing or late, an event came twice, the   *)
(* session expired, a buffer overflowed, or half a request line got into    *)
(* the responses; or the response ends with the connection, and            *)
(* handleCloseEvent does not look at the sequence number of the close       *)
(* event; or an informational response has shifted the pairing.             *)
DamageIsFlagged ==
  faults \cap {"loseFirst", "swapFirst", "dup", "expire", "overflow", "head"} = {} =>
    \A i \in DOMAIN emitted :
      \/ Right(emitted[i]) \/ Flagged(emitted[i])
      \/ profile[emitted[i].resp].eof \/ Shifted(emitted[i].req)

(* Consumer and cleanup drain the same sessions, yet no request is reported *)
(* twice unless Kafka delivers an event twice.                              *)
EmittedOnce ==
  "dup" \notin faults =>
    \A i, j \in DOMAIN emitted : i # j => emitted[i].req # emitted[j].req

(* A stream limit that truncates a conversation shows in its loss metadata: *)
(* a claim the code does not keep (README.md gives the constants).          *)
OverflowIsFlagged ==
  faults \subseteq {"overflow"} =>
    \A i \in DOMAIN emitted : Right(emitted[i]) \/ Flagged(emitted[i])

(* Whatever is lost or reordered, a session leaves the store in the end:    *)
(* sessions without a close event expire.                                   *)
SessionsReclaimed == <>[](current = 0 /\ expired = {})

(* The consumer and the cleanup ticker run; time passes.  Nothing makes the *)
(* connection carry more bytes, nor Kafka lose any.                         *)
WorkerFairness ==
  /\ WF_vars(Receive(FALSE)) /\ WF_vars(Process \/ CloseDrain \/ CloseRemove)
  /\ WF_vars(GoesStale) /\ WF_vars(Sweep)
  /\ WF_vars(\E sid \in expired : DrainExpired(sid))

LiveSpec == Spec /\ WorkerFairness

=============================================================================
