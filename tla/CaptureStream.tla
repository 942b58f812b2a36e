--------------------------- MODULE CaptureStream ---------------------------
(***************************************************************************)
(* The combined binary (cmd/karaxys-capture), for one connection: one      *)
(* goroutine per ring buffer decodes, filters and sends its events over a  *)
(* bounded channel, the processing goroutine reassembles HTTP/1, HTTP/2    *)
(* and decrypted TLS streams and emits conversations while it holds the    *)
(* session's lock, a cleanup goroutine drains idle sessions, and main      *)
(* shuts all of them down in order.                                        *)
(*                                                                         *)
(* Bytes are abstracted to tokens of at least 64 bytes.  An HTTP/1 message *)
(* is a head token that announces how many tokens follow; a request's head *)
(* is two tokens, since an event may end before its "HTTP/1.".  An HTTP/2  *)
(* frame is a token that announces the number of its payload tokens.  The  *)
(* parsers take as many tokens as are announced, whatever they are.        *)
(***************************************************************************)
EXTENDS Naturals, Sequences, FiniteSets, SequencesExt

CONSTANTS
  Scenarios,       \* the connections under study and what befalls them
  Shards,          \* ring buffers with their reader goroutines
  MaxChunk,        \* bound: tokens of one captured event
  MaxRing,         \* bound: events waiting in one ring buffer
  ChannelSize,     \* channelBufferSize
  MaxStreamTokens, \* cfg.maxStreamBytes
  MaxSessions      \* bound: session objects

(* An exchange: body lengths, whether the response ends with the connection,*)
(* and whether the first token of its body contains the name of a method.   *)
Exchange == [req : Nat, resp : Nat, eof : BOOLEAN, lookalike : BOOLEAN]
Fault == {"move", "expire", "tick", "ttl", "cut", "ring", "stop", "scan"}

(* conn: its exchanges; h2: sent as HTTP/2 streams, answered in reverse;    *)
(* tls: only SSL_read and SSL_write see its bytes; probed: its libssl has   *)
(* its uprobes from the start; known: what the kernel knows of its tuple,   *)
(* "remote" if the listener was bound before the probes were attached; proc:*)
(* whether /proc knows it; targets: -target-ports is set; wanted: its ports *)
(* and role are the ones to capture; budget: bounds                         *)
Scenario == [conn : Seq(Exchange), h2 : BOOLEAN, tls : BOOLEAN, probed : BOOLEAN,
             known : {"none", "remote", "both"}, proc : BOOLEAN, targets : BOOLEAN,
             wanted : BOOLEAN, budget : [Fault -> Nat]]

ASSUME ScenariosAssumption == \A s \in Scenarios : s \in Scenario
ASSUME LimitsAssumption ==
  /\ MaxChunk \in Nat \ {0} /\ MaxRing \in Nat \ {0} /\ ChannelSize \in Nat \ {0}
  /\ MaxStreamTokens \in Nat \ {0} /\ MaxSessions \in Nat \ {0} /\ Shards # {}

(* end: END_STREAM; index: the header block refers to an entry that the     *)
(* direction's first header block put into the HPACK table                  *)
Tok == [kind : {"req", "line", "resp", "respEOF", "body", "preface", "headers", "data", "cipher"},
        side : {"req", "resp"}, x : Nat, n : Nat, looks : {"req", "resp", "none"},
        end : BOOLEAN, index : BOOLEAN]

Token(kind, side, x, n, looks) ==
  [kind |-> kind, side |-> side, x |-> x, n |-> n, looks |-> looks, end |-> FALSE, index |-> FALSE]

Body(side, x, len, looks) ==
  [i \in 1 .. len |-> Token("body", side, x, i, IF i = 1 THEN looks ELSE "none")]

(* what a request's head announces: its line from "HTTP/1." on and its body *)
RequestRest(x, len) ==
  [i \in 1 .. len + 1 |-> IF i = 1 THEN Token("line", "req", x, i, "resp")
                                    ELSE Token("body", "req", x, i, "none")]

Request(x, len) == <<Token("req", "req", x, len + 1, "req")>> \o RequestRest(x, len)

Response(x, len, eof, looks) ==
  <<Token(IF eof THEN "respEOF" ELSE "resp", "resp", x, len, "resp")>> \o Body("resp", x, len, looks)

DataFrame(side, x, body, end) ==
  <<[Token("data", side, x, Len(body), "none") EXCEPT !.end = end]>> \o body

(* HEADERS, then the body if there is one, its last token in a DATA frame   *)
(* of its own                                                               *)
Frames(side, x, len, first, looks) ==
  LET body == Body(side, x, len, looks) IN
  <<[Token("headers", side, x, 0, "none") EXCEPT !.end = (len = 0), !.index = ~first]>>
    \o (IF len > 1 THEN DataFrame(side, x, SubSeq(body, 1, len - 1), FALSE) ELSE <<>>)
    \o (IF len > 0 THEN DataFrame(side, x, SubSeq(body, len, len), TRUE) ELSE <<>>)

h2Preface == <<Token("preface", "req", 0, 1, "none"), Token("preface", "req", 0, 2, "none")>>

(* the tokens of one side of the connection, in the order of the wire *)
SideToks(s, side) ==
  LET c == s.conn
      n == Len(c)
      At(i) == IF side = "resp" THEN n + 1 - i ELSE i
      Len1(x) == IF side = "req" THEN c[x].req ELSE c[x].resp
      Looks(x) == IF side = "resp" /\ c[x].lookalike THEN "req" ELSE "none"
  IN IF s.h2
     THEN (IF side = "req" THEN h2Preface ELSE <<>>)
            \o FlattenSeq([i \in 1 .. n |-> Frames(side, At(i), Len1(At(i)), i = 1, Looks(At(i)))])
     ELSE FlattenSeq([x \in 1 .. n |-> IF side = "req" THEN Request(x, c[x].req)
                                       ELSE Response(x, c[x].resp, c[x].eof, Looks(x))])

VARIABLES
  scenario,    \* the connection under study
  left,        \* tokens the connection has yet to carry, per side
  closed,      \* close(fd) was captured
  nextSeq,     \* sequence number of the next event
  libssl,      \* external file: directions to be probed yet, and those that are
  tuple,       \* the ports that socket_tuples knows of the connection
  budget,      \* faults still to come
  faults,      \* history: what went wrong so far
  rings,       \* events in the ring buffers
  shard,       \* the reader goroutines
  flow,        \* flowFilter.flows[key]
  channel,     \* eventCh
  main,        \* "run", "stop": readers closed, "close": channel closed, "exit"
  heap, fresh, \* StreamState objects and how many are in use
  current,     \* store.sessions[key], 0 if there is none
  consumer,    \* the processing goroutine
  cleaner,     \* the cleanup goroutine
  emitted      \* conversations handed to the sink

appVars == <<scenario, left, closed, nextSeq>>
captureVars == <<libssl, tuple, rings, shard, flow>>
storeVars == <<heap, fresh, current>>
vars == <<scenario, left, closed, nextSeq, libssl, tuple, budget, faults, rings, shard,
          flow, channel, main, heap, fresh, current, consumer, cleaner, emitted>>

Parsed == [x : Nat, whole : BOOLEAN, gap : BOOLEAN, truncated : BOOLEAN]
Conv == [req : Nat, resp : Nat, whole : BOOLEAN, gap : BOOLEAN, truncated : BOOLEAN]

(* StreamState; stale: sessionTTL has passed since LastActive *)
Session ==
  [req : Seq(Tok), resp : Seq(Tok), pending : Seq(Parsed), hasSeq : BOOLEAN, seq : Nat,
   ssl : BOOLEAN, h2 : BOOLEAN, h2Emitted : SUBSET Nat, gap : BOOLEAN, truncated : BOOLEAN,
   stale : BOOLEAN]

Result == [st : Session, out : Seq(Conv)]

NewSession ==
  [req |-> <<>>, resp |-> <<>>, pending |-> <<>>, hasSeq |-> FALSE, seq |-> 0, ssl |-> FALSE,
   h2 |-> FALSE, h2Emitted |-> {}, gap |-> FALSE, truncated |-> FALSE, stale |-> FALSE]

(* SSL_write and SSL_read, in the order in which they are attached *)
sslProbes == <<"resp", "req">>

NoEvent == [type |-> "none"]
Reading == [pc |-> "read", ev |-> NoEvent]
Receiving == [pc |-> "receive", ev |-> NoEvent, sid |-> 0, out |-> <<>>]
Waiting == [pc |-> "tick", sid |-> 0, out |-> <<>>]

Init ==
  /\ scenario \in Scenarios
  /\ left = [side \in {"req", "resp"} |-> SideToks(scenario, side)]
  /\ closed = FALSE /\ nextSeq = 0
  /\ libssl = IF scenario.probed THEN [todo |-> <<>>, probed |-> {"req", "resp"}]
               ELSE [todo |-> sslProbes, probed |-> {}]
  /\ tuple = scenario.known
  /\ budget = scenario.budget /\ faults = {}
  /\ rings = [s \in Shards |-> <<>>]
  /\ shard = [s \in Shards |-> Reading]
  /\ flow = "none" /\ channel = <<>> /\ main = "run"
  /\ heap = [i \in 1 .. MaxSessions |-> NewSession] /\ fresh = 0 /\ current = 0
  /\ consumer = Receiving /\ cleaner = Waiting /\ emitted = <<>>

Pay(F) ==
  /\ \A f \in F : budget[f] > 0
  /\ budget' = [f \in Fault |-> IF f \in F THEN budget[f] - 1 ELSE budget[f]]

Spend(what) == Pay({what})

-----------------------------------------------------------------------------
(* The connection and the probes: external to the binary, see KernelCapture *)

(* A response is not sent before its request was read. *)
MayCarry(side, n) ==
  /\ n <= Len(left[side])
  /\ side = "resp" => \A i \in 1 .. n : \A t \in Range(left.req) : t.x # left.resp[i].x

DataEvent(seq, side, toks, ssl, cut) ==
  [type |-> "data", seq |-> seq, dir |-> IF side = "req" THEN "read" ELSE "write", toks |-> toks,
   ssl |-> ssl, known |-> tuple, cut |-> cut]

Cipher(toks) == [i \in DOMAIN toks |-> Token("cipher", toks[i].side, toks[i].x, 0, "none")]

(* the events of one read or write of n tokens: on a TLS connection the     *)
(* system call shows ciphertext, and the return of SSL_read or SSL_write    *)
(* the plaintext, with numbers of the same sequence                         *)
Captured(side, n, cut) ==
  LET toks == SubSeq(left[side], 1, n)
      kept == IF cut THEN SubSeq(toks, 1, n - 1) ELSE toks
  IN IF ~scenario.tls THEN <<DataEvent(nextSeq, side, kept, FALSE, cut)>>
     ELSE <<DataEvent(nextSeq, side, Cipher(toks), FALSE, FALSE)>>
            \o (IF side \in libssl.probed THEN <<DataEvent(nextSeq + 1, side, kept, TRUE, cut)>> ELSE <<>>)

Home == CHOOSE s \in Shards : TRUE

(* how many of the events the ring buffer of shard s has room for *)
Room(evs, s) == IF Len(rings[s]) + Len(evs) <= MaxRing THEN Len(evs) ELSE MaxRing - Len(rings[s])

Dropped(evs, s) == IF Room(evs, s) < Len(evs) THEN {"ring"} ELSE {}

(* The events go to the ring buffer of the CPU the thread runs on.  What it *)
(* has no room for is dropped before it takes a number: no gap shows.  (As  *)
(* a bound, the connection waits for room once the budget has no more.)     *)
Record(evs, s, what) ==
  /\ rings' = [rings EXCEPT ![s] = @ \o SubSeq(evs, 1, Room(evs, s))]
  /\ nextSeq' = nextSeq + Room(evs, s)
  /\ Pay(what \cup Dropped(evs, s))

(* the position of the first token that looks like the start of a message *)
FirstLooking(buf, look) ==
  CHOOSE i \in 1 .. Len(buf) + 1 :
    /\ i <= Len(buf) => buf[i].looks = look
    /\ \A j \in 1 .. i - 1 : buf[j].looks # look

classifyPayload(toks) ==
  LET r == FirstLooking(toks, "req")
      s == FirstLooking(toks, "resp")
  IN IF r <= Len(toks) /\ r < s THEN "req" ELSE IF s <= Len(toks) THEN "resp" ELSE "none"

(* An event that will be put into the other side's buffer: it starts inside *)
(* a request line, or with a body that looks like a request.                *)
Misled(evs, side) ==
  IF \E e \in Range(evs) : classifyPayload(e.toks) \notin {side, "none"} THEN {"misled"} ELSE {}

Late(side) == IF scenario.tls /\ side \notin libssl.probed THEN {"late"} ELSE {}

(* n tokens are read or written on the CPU of shard s *)
Transfer(side, n, s, what) ==
  LET evs == Captured(side, n, "cut" \in what) IN
  /\ Record(evs, s, what)
  /\ faults' = faults \cup (what \cap {"cut"}) \cup Dropped(evs, s) \cup Misled(evs, side) \cup Late(side)

Carry(side, n) ==
  /\ main # "exit" /\ ~closed /\ MayCarry(side, n)
  /\ left' = [left EXCEPT ![side] = SubSeq(@, n + 1, Len(@))]
  /\ \/ Transfer(side, n, Home, {})
     \/ \E s \in Shards \ {Home} : Transfer(side, n, s, {"move"})
     \/ n > 1 /\ Transfer(side, n, Home, {"cut"})
  /\ UNCHANGED <<scenario, closed, libssl, tuple, shard, flow, channel, main, storeVars,
                 consumer, cleaner, emitted>>

CarryClose ==
  LET evs == <<[type |-> "close", seq |-> nextSeq, known |-> tuple]>> IN
  /\ main # "exit" /\ ~closed /\ left.resp = <<>>
  /\ closed' = TRUE
  /\ Record(evs, Home, {})
  /\ faults' = faults \cup Dropped(evs, Home)
  /\ UNCHANGED <<scenario, left, libssl, tuple, shard, flow, channel, main,
                 storeVars, consumer, cleaner, emitted>>

(* scanAndAttach finds the library and attaches its probes one by one.  It  *)
(* enters seen before, so what fails is never tried again; if the file      *)
(* cannot be opened nothing is attached.                                    *)
scanAndAttach ==
  /\ main \in {"run", "stop"} /\ libssl.todo # <<>>
  /\ \/ /\ libssl' = [todo |-> Tail(libssl.todo), probed |-> libssl.probed \cup {Head(libssl.todo)}]
        /\ UNCHANGED budget
     \/ Spend("scan") /\ libssl' = [libssl EXCEPT !.todo = Tail(@)]
     \/ libssl.todo = sslProbes /\ Spend("scan") /\ libssl' = [libssl EXCEPT !.todo = <<>>]
  /\ UNCHANGED <<appVars, tuple, faults, rings, shard, flow, channel, main, storeVars,
                 consumer, cleaner, emitted>>

-----------------------------------------------------------------------------
(* runShardCapture *)

(* only the first 64 bytes are looked at *)
isLikelyHTTPPayload(toks) == classifyPayload(SubSeq(toks, 1, 1)) # "none"

(* connectionAllowed, for the ports the event carries: a remote port alone  *)
(* is an ephemeral one, which is neither ignored nor a target               *)
connectionAllowed(known) == IF known = "both" THEN scenario.wanted ELSE ~scenario.targets

(* connectionFromKernelTuple: the event carries a port *)
metadataOK(ev) == ev.known # "none"

(* mutant: the guess from the payload comes before the ports *)
allow_GuessesFirst(ev) ==
  IF flow # "none" THEN flow
  ELSE IF ev.type = "data" /\ isLikelyHTTPPayload(ev.toks) THEN "allow"
  ELSE IF metadataOK(ev) THEN (IF connectionAllowed(ev.known) THEN "allow" ELSE "deny")
  ELSE "none"

(* flowFilter.allow: the decision, and whether it is cached ("none" is a    *)
(* refusal that is not); a cached decision wins                             *)
allow(ev) ==
  IF flow # "none" THEN flow
  ELSE IF metadataOK(ev) THEN (IF connectionAllowed(ev.known) THEN "allow" ELSE "deny")
  ELSE IF ev.type = "data" /\ isLikelyHTTPPayload(ev.toks) THEN "allow" ELSE "none"

(* No gap can be seen before the first event of a stream, so it matters     *)
(* whether that one is missing or late.                                     *)
Harm(what, seqs) == (IF seqs = {} THEN {} ELSE {what}) \cup (IF 0 \in seqs THEN {"first"} ELSE {})

(* what a refusal takes away from the stream *)
Refused(ev) ==
  IF ~scenario.wanted \/ (ev.type = "data" /\ ev.toks[1].kind = "cipher") THEN {} ELSE Harm("refused", {ev.seq})

(* kernelTupleSyncer.forget *)
forget(ev) == IF ev.type = "close" THEN "none" ELSE tuple

(* /proc knows a descriptor until it is closed *)
resolveWithSource == scenario.proc /\ ~closed

(* kernelTupleSyncer.remember: both ports, as /proc gives them *)
remember(ev) == IF resolveWithSource THEN "both" ELSE forget(ev)

(* One event: a close event makes the resolver and the tuple syncer forget  *)
(* the flow; a refused event ends here; of an admitted one the tuple that   *)
(* /proc gives is written to the kernel.                                    *)
ReadEvent(s) ==
  LET ev == Head(rings[s]) IN
  /\ main = "run" /\ shard[s].pc = "read" /\ rings[s] # <<>>
  /\ rings' = [rings EXCEPT ![s] = Tail(@)]
  /\ flow' = allow(ev)
  /\ \/ /\ allow(ev) = "allow"
        /\ shard' = [shard EXCEPT ![s] = [pc |-> "send", ev |-> ev]]
        /\ tuple' = remember(ev)
        /\ UNCHANGED faults
     \/ /\ allow(ev) # "allow"
        /\ tuple' = forget(ev)
        /\ faults' = faults \cup Refused(ev)
        /\ UNCHANGED shard
  /\ UNCHANGED <<appVars, libssl, budget, channel, main, storeVars, consumer, cleaner, emitted>>

(* events that are still on their way in another shard *)
InFlight(s) == {r.seq : r \in Range(rings[s])} \cup (IF shard[s].pc = "send" THEN {shard[s].ev.seq} ELSE {})

Overtaken(s, ev) == {seq \in UNION {InFlight(r) : r \in Shards \ {s}} : seq < ev.seq}

(* the select at the end of the loop: an event the channel has no room for  *)
(* is dropped                                                               *)
SendEvent(s) ==
  LET ev == shard[s].ev IN
  /\ main # "exit" /\ shard[s].pc = "send"
  /\ shard' = [shard EXCEPT ![s] = Reading]
  /\ \/ /\ Len(channel) < ChannelSize
        /\ channel' = Append(channel, ev)
        /\ faults' = faults \cup Harm("reorder", Overtaken(s, ev))
     \/ /\ Len(channel) >= ChannelSize
        /\ faults' = faults \cup Harm("drop", {ev.seq})
        /\ UNCHANGED channel
  /\ UNCHANGED <<appVars, libssl, tuple, budget, rings, flow, main, storeVars, consumer, cleaner, emitted>>

(* ringbuf.ErrClosed *)
ReaderEnds(s) ==
  /\ main = "stop" /\ shard[s].pc = "read"
  /\ shard' = [shard EXCEPT ![s] = [pc |-> "done", ev |-> NoEvent]]
  /\ UNCHANGED <<appVars, libssl, tuple, budget, faults, rings, flow, channel, main,
                 storeVars, consumer, cleaner, emitted>>

(* metadataTTL passes: the cached decision is no longer used *)
DecisionExpires ==
  /\ main # "exit" /\ flow # "none" /\ Spend("ttl")
  /\ flow' = "none"
  /\ UNCHANGED <<appVars, libssl, tuple, faults, rings, shard, channel, main, storeVars,
                 consumer, cleaner, emitted>>

-----------------------------------------------------------------------------
(* HTTP/1 parsing (process.go) *)

(* syncRequestBuffer, syncResponseBuffer: what precedes the first start is  *)
(* dropped (the 16-byte probe window is shorter than a token)               *)
Sync(buf, look) == SubSeq(buf, FirstLooking(buf, look), Len(buf))

(* the body is the exchange's own, all of it *)
Whole(head, body) ==
  /\ Len(body) = head.n
  /\ \A i \in DOMAIN body :
       body[i].kind \in {"line", "body"} /\ body[i].side = head.side /\ body[i].x = head.x /\ body[i].n = i

(* without the rest of its line a request does not parse, whatever follows *)
parseOneRequest(buf) ==
  buf # <<>> /\ Head(buf).kind = "req" /\ Len(buf) > Head(buf).n /\ buf[2].kind = "line"

parseOneResponse(buf, allowCloseDelimited) ==
  /\ buf # <<>>
  /\ \/ Head(buf).kind = "resp" /\ Len(buf) > Head(buf).n
     \/ Head(buf).kind = "respEOF" /\ allowCloseDelimited

Consumed(buf) == IF Head(buf).kind = "respEOF" THEN Len(buf) ELSE Head(buf).n + 1
Rest(buf) == SubSeq(buf, Consumed(buf) + 1, Len(buf))
WholeMessage(buf) == Whole(Head(buf), SubSeq(buf, 2, Consumed(buf)))

(* one round of each of the two loops of drainParsedConversations *)
RequestRound(st) ==
  LET buf == Sync(st.req, "req") IN
  IF ~parseOneRequest(buf) THEN [st EXCEPT !.req = buf]
  ELSE [st EXCEPT !.req = Rest(buf),
                  !.pending = Append(@, [x |-> Head(buf).x, whole |-> WholeMessage(buf),
                                         gap |-> st.gap, truncated |-> st.truncated])]

ResponseRound(res, allowCloseDelimited) ==
  LET st == res.st
      buf == Sync(st.resp, "resp")
      r == Head(st.pending)
  IN IF st.pending = <<>> THEN res
     ELSE IF ~parseOneResponse(buf, allowCloseDelimited) THEN [res EXCEPT !.st.resp = buf]
     ELSE [st |-> [st EXCEPT !.resp = Rest(buf), !.pending = Tail(@)],
           out |-> Append(res.out, [req |-> r.x, resp |-> Head(buf).x,
                                    whole |-> r.whole /\ WholeMessage(buf),
                                    gap |-> r.gap \/ st.gap,
                                    truncated |-> r.truncated \/ st.truncated])]

(* A round that changes nothing ends its loop. *)
RequestRounds[st \in Session] ==
  IF RequestRound(st) = st THEN st ELSE RequestRounds[RequestRound(st)]

ResponseRounds(allowCloseDelimited) ==
  LET rounds[res \in Result] ==
        IF ResponseRound(res, allowCloseDelimited) = res THEN res
        ELSE rounds[ResponseRound(res, allowCloseDelimited)]
  IN rounds

drainParsedConversations(st, allowCloseDelimited) ==
  ResponseRounds(allowCloseDelimited)[[st |-> RequestRounds[st], out |-> <<>>]]

-----------------------------------------------------------------------------
(* HTTP/2 parsing (h2.go) *)

HasPreface(buf) == Len(buf) >= 2 /\ SubSeq(buf, 1, 2) = h2Preface
WithoutPreface(buf) == IF HasPreface(buf) THEN SubSeq(buf, 3, Len(buf)) ELSE buf

(* mutant: half a preface is a message like any other *)
isH2PrefaceCandidate_Never(buf) == FALSE

isH2PrefaceCandidate(buf) == HasPreface(buf) \/ buf = SubSeq(h2Preface, 1, 1)

(* what the framer has yet to read, and the frames it has read *)
FrameState == [buf : Seq(Tok), frames : Seq(Seq(Tok))]

(* framer.ReadFrame until it fails: an incomplete frame, or bytes that are  *)
(* not the start of one, end the loop                                       *)
FrameRound(r) ==
  IF r.buf = <<>> \/ Head(r.buf).kind \notin {"headers", "data"} \/ Len(r.buf) <= Head(r.buf).n THEN r
  ELSE [buf |-> Rest(r.buf), frames |-> Append(r.frames, SubSeq(r.buf, 1, Consumed(r.buf)))]

FrameRounds[r \in FrameState] ==
  IF FrameRound(r) = r THEN r ELSE FrameRounds[FrameRound(r)]

FramesOf(buf) == FrameRounds[[buf |-> buf, frames |-> <<>>]].frames

(* every drain starts with an empty HPACK table *)
Decoded(frames, i) ==
  frames[i][1].index => \E j \in 1 .. i - 1 : frames[j][1].kind = "headers" /\ ~frames[j][1].index

(* what parseHTTP2Frames makes of stream x: a header block that cannot be   *)
(* decoded is skipped, with its END_STREAM                                  *)
StreamFrames(frames, x) ==
  SelectSeq([i \in DOMAIN frames |-> [toks |-> frames[i], ok |-> Decoded(frames, i)]],
            LAMBDA f : f.ok /\ f.toks[1].x = x)

Complete(frames, x) ==
  \E i \in DOMAIN frames : frames[i][1].x = x /\ frames[i][1].end /\ Decoded(frames, i)

(* the frames are the stream's own, and their payloads its whole body *)
WholeStream(fs, side, x) ==
  LET len == IF side = "req" THEN scenario.conn[x].req ELSE scenario.conn[x].resp
  IN /\ fs # <<>> /\ fs[1].toks[1].kind = "headers"
     /\ \A i \in DOMAIN fs : fs[i].toks[1].side = side
     /\ Whole([n |-> len, side |-> side, x |-> x], FlattenSeq([i \in DOMAIN fs |-> Tail(fs[i].toks)]))

Orders(S) == {q \in [1 .. Cardinality(S) -> S] : Range(q) = S}

StreamOf(st, side, x) == StreamFrames(FramesOf(st[side]), x)

(* mutant: what was emitted is not remembered *)
ReadyStreams_Again(st) ==
  {x \in DOMAIN scenario.conn :
     Complete(FramesOf(st.req), x) /\ Complete(FramesOf(st.resp), x)}

ReadyStreams(st) ==
  {x \in DOMAIN scenario.conn \ st.h2Emitted :
     Complete(FramesOf(st.req), x) /\ Complete(FramesOf(st.resp), x)}

emitH2Conversation(st, x) ==
  [req |-> x, resp |-> x, gap |-> st.gap, truncated |-> st.truncated,
   whole |-> \A side \in {"req", "resp"} : WholeStream(StreamOf(st, side, x), side, x)]

(* The buffers are parsed from their start at every drain and are never     *)
(* shortened; a stream is emitted once, in the order of a Go map.           *)
drainH2(st) ==
  LET stripped == [st EXCEPT !.req = WithoutPreface(@), !.resp = WithoutPreface(@)]
      ready == ReadyStreams(stripped)
  IN {[st |-> [stripped EXCEPT !.h2Emitted = @ \cup ready],
       out |-> [i \in DOMAIN q |-> emitH2Conversation(stripped, q[i])]] : q \in Orders(ready)}

drainStream(st, allowCloseDelimited) ==
  IF st.h2 THEN drainH2(st)
  ELSE IF isH2PrefaceCandidate(st.req) THEN {[st |-> st, out |-> <<>>]}
  ELSE {drainParsedConversations(st, allowCloseDelimited)}

-----------------------------------------------------------------------------
(* processEvent, under the session's lock *)

(* plaintext is seen for the first time: the ciphertext is dropped *)
FirstPlaintext(st) ==
  [st EXCEPT !.req = <<>>, !.resp = <<>>, !.pending = <<>>, !.ssl = TRUE, !.h2 = FALSE,
             !.h2Emitted = {}]

(* mutant: the sequence number is updated and not compared *)
Touch_NoGap(st, ev) ==
  [st EXCEPT !.truncated = @ \/ ev.cut,
             !.seq = IF ~st.hasSeq \/ ev.seq >= st.seq THEN ev.seq ELSE @,
             !.hasSeq = TRUE]

Touch(st, ev) ==
  [st EXCEPT !.gap = @ \/ (st.hasSeq /\ ev.seq > st.seq + 1),
             !.truncated = @ \/ ev.cut,
             !.seq = IF ~st.hasSeq \/ ev.seq >= st.seq THEN ev.seq ELSE @,
             !.hasSeq = TRUE]

RouteAsRequest(ev) ==
  LET kind == classifyPayload(ev.toks)
  IN kind = "req" \/ (kind = "none" /\ ev.dir = "read")

Route(st, ev) ==
  IF RouteAsRequest(ev) THEN [st EXCEPT !.req = @ \o ev.toks]
                        ELSE [st EXCEPT !.resp = @ \o ev.toks]

(* mutant: the limit is off by one *)
Overflows_OffByOne(st) == Len(st.req) > MaxStreamTokens + 1 \/ Len(st.resp) > MaxStreamTokens + 1

Overflows(st) == Len(st.req) > MaxStreamTokens \/ Len(st.resp) > MaxStreamTokens

(* the buffer that overflows and the pending requests are cleared *)
Overflowed(st) ==
  [st EXCEPT !.req = IF Len(@) > MaxStreamTokens THEN <<>> ELSE @,
             !.resp = IF Len(@) > MaxStreamTokens THEN <<>> ELSE @,
             !.pending = <<>>]

DetectH2(st) == [st EXCEPT !.h2 = @ \/ HasPreface(st.req) \/ HasPreface(st.resp)]

(* mutant: ciphertext is still taken after plaintext was seen *)
Processed_Mixes(old, ev) ==
  LET st == [(IF ev.ssl /\ ~old.ssl THEN FirstPlaintext(old) ELSE old) EXCEPT !.stale = FALSE]
      routed == Route(Touch(st, ev), ev)
  IN IF Overflows(routed) THEN {[st |-> Overflowed(routed), out |-> <<>>, overflow |-> TRUE]}
     ELSE {[st |-> r.st, out |-> r.out, overflow |-> FALSE] : r \in drainStream(DetectH2(routed), FALSE)}

(* the outcomes of a data event for its session: ciphertext on a stream     *)
(* with plaintext only marks it active, before the sequence check           *)
Processed(old, ev) ==
  LET st == [(IF ev.ssl /\ ~old.ssl THEN FirstPlaintext(old) ELSE old) EXCEPT !.stale = FALSE]
      routed == Route(Touch(st, ev), ev)
  IN IF st.ssl # ev.ssl THEN {[st |-> st, out |-> <<>>, overflow |-> FALSE]}
     ELSE IF Overflows(routed) THEN {[st |-> Overflowed(routed), out |-> <<>>, overflow |-> TRUE]}
     ELSE {[st |-> r.st, out |-> r.out, overflow |-> FALSE] : r \in drainStream(DetectH2(routed), FALSE)}

-----------------------------------------------------------------------------
(* The two locks.  Only the cleanup goroutine keeps the store's lock over   *)
(* several steps, and a session's lock is kept while its conversations are  *)
(* emitted: Emit waits for the backend.                                     *)

StoreBusy == cleaner.pc = "check"

(* mutant: handleCloseEvent unlocks the session when it returns *)
SessionBusy_UntilReturn(sid) ==
  \/ consumer.pc \in {"emit", "remove"} /\ consumer.sid = sid
  \/ cleaner.pc = "emit" /\ cleaner.sid = sid

SessionBusy(sid) ==
  \/ consumer.pc = "emit" /\ consumer.sid = sid
  \/ cleaner.pc = "emit" /\ cleaner.sid = sid

-----------------------------------------------------------------------------
(* The processing goroutine *)

consumerFrame == <<appVars, captureVars, main>>

Receive ==
  /\ main # "exit" /\ consumer.pc = "receive"
  /\ \/ /\ channel # <<>>
        /\ consumer' = [Receiving EXCEPT !.pc = "find", !.ev = Head(channel)]
        /\ channel' = Tail(channel)
     \/ /\ channel = <<>> /\ main = "close"
        /\ consumer' = [Receiving EXCEPT !.pc = "done"]
        /\ UNCHANGED channel
  /\ UNCHANGED <<consumerFrame, budget, faults, storeVars, cleaner, emitted>>

(* getOrCreate, or get for a close event, which is ignored without session *)
Find ==
  /\ main # "exit" /\ consumer.pc = "find" /\ ~StoreBusy
  /\ \/ /\ current # 0
        /\ consumer' = [consumer EXCEPT !.pc = "lock", !.sid = current]
        /\ UNCHANGED <<fresh, current>>
     \/ /\ current = 0 /\ consumer.ev.type = "data" /\ fresh < MaxSessions
        /\ fresh' = fresh + 1 /\ current' = fresh + 1
        /\ consumer' = [consumer EXCEPT !.pc = "lock", !.sid = fresh + 1]
     \/ /\ current = 0 /\ consumer.ev.type = "close"
        /\ consumer' = Receiving
        /\ UNCHANGED <<fresh, current>>
  /\ UNCHANGED <<consumerFrame, budget, faults, channel, heap, cleaner, emitted>>

AfterUnlock == IF consumer.ev.type = "close" THEN [consumer EXCEPT !.pc = "remove", !.out = <<>>]
               ELSE Receiving

(* what is left to emit; the lock is released after the last one *)
Emitting(out) == IF out = <<>> THEN AfterUnlock ELSE [consumer EXCEPT !.pc = "emit", !.out = out]

Process ==
  LET sid == consumer.sid
      ev == consumer.ev
  IN
  /\ main # "exit" /\ consumer.pc = "lock" /\ ~SessionBusy(sid)
  /\ \/ /\ ev.type = "data"
        /\ \E r \in Processed(heap[sid], ev) :
             /\ heap' = [heap EXCEPT ![sid] = r.st]
             /\ consumer' = Emitting(r.out)
             /\ faults' = IF r.overflow THEN faults \cup {"overflow"} ELSE faults
     \/ /\ ev.type = "close"
        /\ \E r \in drainStream(heap[sid], TRUE) :
             /\ heap' = [heap EXCEPT ![sid] = r.st]
             /\ consumer' = Emitting(r.out)
        /\ UNCHANGED faults
  /\ UNCHANGED <<consumerFrame, budget, channel, fresh, current, cleaner, emitted>>

Emit ==
  /\ main # "exit" /\ consumer.pc = "emit"
  /\ emitted' = Append(emitted, Head(consumer.out))
  /\ consumer' = Emitting(Tail(consumer.out))
  /\ UNCHANGED <<consumerFrame, budget, faults, channel, storeVars, cleaner>>

(* store.remove *)
RemoveClosed ==
  /\ main # "exit" /\ consumer.pc = "remove" /\ ~StoreBusy
  /\ current' = 0
  /\ consumer' = Receiving
  /\ UNCHANGED <<consumerFrame, budget, faults, channel, heap, fresh, cleaner, emitted>>

-----------------------------------------------------------------------------
(* The cleanup goroutine *)

cleanerFrame == <<appVars, captureVars, channel, main, consumer>>

(* sessionTTL passes without an event *)
GoesStale ==
  /\ main # "exit" /\ current # 0 /\ ~heap[current].stale /\ Spend("expire")
  /\ heap' = [heap EXCEPT ![current].stale = TRUE]
  /\ UNCHANGED <<cleanerFrame, faults, fresh, current, cleaner, emitted>>

(* the ticker: cleanupExpired takes the store's lock *)
Tick ==
  /\ main # "exit" /\ cleaner.pc = "tick" /\ current # 0 /\ Spend("tick")
  /\ cleaner' = [cleaner EXCEPT !.pc = "check", !.sid = current]
  /\ UNCHANGED <<cleanerFrame, faults, storeVars, emitted>>

(* ... and looks at the session under the session's own lock *)
Check ==
  /\ main # "exit" /\ cleaner.pc = "check" /\ ~SessionBusy(cleaner.sid)
  /\ \/ /\ heap[cleaner.sid].stale
        /\ current' = 0
        /\ cleaner' = [cleaner EXCEPT !.pc = "drain"]
        /\ faults' = faults \cup {"expire"}
     \/ /\ ~heap[cleaner.sid].stale
        /\ cleaner' = Waiting
        /\ UNCHANGED <<current, faults>>
  /\ UNCHANGED <<cleanerFrame, budget, heap, fresh, emitted>>

CleanerEmitting(out) == IF out = <<>> THEN Waiting ELSE [cleaner EXCEPT !.pc = "emit", !.out = out]

(* onExpire, after the store's lock was released *)
DrainExpired ==
  /\ main # "exit" /\ cleaner.pc = "drain" /\ ~SessionBusy(cleaner.sid)
  /\ \E r \in drainStream(heap[cleaner.sid], TRUE) :
       /\ heap' = [heap EXCEPT ![cleaner.sid] = r.st]
       /\ cleaner' = CleanerEmitting(r.out)
  /\ UNCHANGED <<cleanerFrame, budget, faults, fresh, current, emitted>>

CleanerEmit ==
  /\ main # "exit" /\ cleaner.pc = "emit"
  /\ emitted' = Append(emitted, Head(cleaner.out))
  /\ cleaner' = CleanerEmitting(Tail(cleaner.out))
  /\ UNCHANGED <<cleanerFrame, budget, faults, storeVars>>

(* stopCh is closed *)
CleanerEnds ==
  /\ main = "close" /\ cleaner.pc = "tick"
  /\ cleaner' = [Waiting EXCEPT !.pc = "done"]
  /\ UNCHANGED <<cleanerFrame, budget, faults, storeVars, emitted>>

-----------------------------------------------------------------------------
(* main *)

mainFrame == <<appVars, captureVars, faults, channel, storeVars, consumer, cleaner, emitted>>

(* a signal: the ring buffer readers are closed *)
Stop ==
  /\ main = "run" /\ Spend("stop")
  /\ main' = "stop"
  /\ UNCHANGED mainFrame

(* mutant: the channel is closed without waiting for the readers *)
CloseChannel_NoWait ==
  /\ main = "stop"
  /\ main' = "close"
  /\ UNCHANGED <<mainFrame, budget>>

(* wg.Wait, close(stopCh), close(eventCh) *)
CloseChannel ==
  /\ main = "stop" /\ \A s \in Shards : shard[s].pc = "done"
  /\ main' = "close"
  /\ UNCHANGED <<mainFrame, budget>>

(* two seconds later main returns, wherever the goroutines are *)
Exit ==
  /\ main = "close"
  /\ main' = "exit"
  /\ UNCHANGED <<mainFrame, budget>>

-----------------------------------------------------------------------------
CaptureStep ==
  \/ \E side \in {"req", "resp"}, n \in 1 .. MaxChunk : Carry(side, n)
  \/ CarryClose \/ scanAndAttach

ShardStep(s) == ReadEvent(s) \/ SendEvent(s) \/ ReaderEnds(s)

ConsumerStep == Receive \/ Find \/ Process \/ Emit \/ RemoveClosed

CleanerStep == Tick \/ Check \/ DrainExpired \/ CleanerEmit \/ CleanerEnds

MainStep == Stop \/ CloseChannel \/ Exit

Next ==
  \/ CaptureStep \/ GoesStale \/ DecisionExpires
  \/ \E s \in Shards : ShardStep(s)
  \/ ConsumerStep \/ CleanerStep \/ MainStep

Spec == Init /\ [][Next]_vars

-----------------------------------------------------------------------------
(* Properties *)

(* The variables have their types; between two events no stream buffer      *)
(* exceeds maxStreamBytes, and the goroutines hold allocated sessions.      *)
TypeOK ==
  /\ left.req \in Seq(Tok) /\ left.resp \in Seq(Tok)
  /\ libssl.probed \subseteq {"req", "resp"} /\ tuple \in {"none", "remote", "both"}
  /\ flow \in {"none", "allow", "deny"} /\ main \in {"run", "stop", "close", "exit"}
  /\ Len(channel) <= ChannelSize
  /\ fresh \in 0 .. MaxSessions /\ current \in 0 .. fresh
  /\ consumer.sid \in 0 .. fresh /\ cleaner.sid \in 0 .. fresh
  /\ \A i \in 1 .. MaxSessions :
       /\ heap[i] \in Session
       /\ Len(heap[i].req) <= MaxStreamTokens /\ Len(heap[i].resp) <= MaxStreamTokens
  /\ emitted \in Seq(Conv)

Right(c) == c.req = c.resp /\ c.whole
Flagged(c) == c.gap \/ c.truncated

(* Without faults every conversation holds one exchange, whole: HTTP/1      *)
(* and HTTP/2 wherever an event ends, as long as none looks like a message  *)
(* of the other side (that is the fault "misled": an event that starts      *)
(* inside a request line, or a piece of a body with a method in it), HTTP/2 *)
(* streams answered in any order, TLS although ciphertext and plaintext of  *)
(* the same bytes arrive mixed.  Nothing is flagged, except that the        *)
(* ciphertext between two plaintext events of a TLS stream looks like a gap.*)
PairingExact ==
  faults = {} => \A i \in DOMAIN emitted :
                   Right(emitted[i]) /\ (Flagged(emitted[i]) => scenario.tls)

Quiet ==
  /\ closed /\ left.req = <<>> /\ channel = <<>> /\ main = "run"
  /\ \A s \in Shards : rings[s] = <<>> /\ shard[s] = Reading
  /\ consumer = Receiving /\ cleaner = Waiting

(* ... and once the connection is closed none of its exchanges is missing.  *)
AllEmitted ==
  Quiet /\ faults = {} /\ scenario.wanted =>
    {emitted[i].req : i \in DOMAIN emitted} = DOMAIN scenario.conn

(* A conversation with a foreign response or a damaged body carries loss    *)
(* metadata, also when uprobes come late, the channel is full, the filter   *)
(* refuses an event or a shard overtakes another, unless the damage has a   *)
(* cause the session cannot see: its first event is missing or late, a full *)
(* ring dropped an event, which then has no number, an event was put into   *)
(* the other side's buffer, the session expired, or a buffer overflowed     *)
(* (HTTP/2 buffers always do in the end); or the response ends with the     *)
(* connection: handleCloseEvent does not look at the sequence number of the *)
(* close event.                                                             *)
DamageIsFlagged ==
  faults \cap {"first", "ring", "misled", "expire", "overflow"} = {} =>
    \A i \in DOMAIN emitted :
      Right(emitted[i]) \/ Flagged(emitted[i]) \/ scenario.conn[emitted[i].resp].eof

(* "Any truncation is explicit in loss, never silent" (docs/                *)
(* ebpf_tracer_scrum_plan.md:806), on a connection where nothing is lost: a *)
(* claim the code does not keep (README.md).  The event with a method in    *)
(* the middle of a response body goes to the request buffer                 *)
(* (process.go:99-108); an HTTP/2 response is then emitted without it.      *)
TruncationIsExplicit ==
  faults \subseteq {"misled"} => \A i \in DOMAIN emitted : emitted[i].whole \/ Flagged(emitted[i])

(* No exchange is emitted twice, although HTTP/2 buffers are parsed again   *)
(* from their start at every event and two goroutines drain sessions.       *)
EmittedOnce == \A i, j \in DOMAIN emitted : i # j => emitted[i].req # emitted[j].req

(* A connection that -target-ports or -ignore-ports exclude is never        *)
(* emitted, even when decisions expire, provided that the kernel knew its   *)
(* ports before the first event: an event without a tuple passes if it      *)
(* looks like HTTP, the decision stays for metadataTTL, and what /proc says *)
(* afterwards is not compared with the ports.                               *)
UnwantedStaysOut ==
  ~scenario.wanted /\ (scenario.known = "both" \/ (scenario.known = "remote" /\ scenario.targets)) =>
    emitted = <<>>

(* The readers have all ended when the channel is closed: none sends on a   *)
(* closed channel, which would panic.                                       *)
NoSendOnClosed == main \in {"close", "exit"} => \A s \in Shards : shard[s].pc # "send"

ConsumerWaits == \/ consumer.pc \in {"find", "remove"} /\ StoreBusy
                 \/ consumer.pc = "lock" /\ SessionBusy(consumer.sid)
CleanerWaits == cleaner.pc \in {"check", "drain"} /\ SessionBusy(cleaner.sid)

(* The cleanup goroutine asks for a session's lock while it holds the       *)
(* store's, the processing goroutine needs both for a close event, and a    *)
(* session's lock is held through slow posts: they never wait for each other*)
NoLockCycle == ~(ConsumerWaits /\ CleanerWaits)

(* What the goroutines share stays within its limits and in order: buffers  *)
(* and channel are bounded, no reader sends on the closed channel, and no   *)
(* two goroutines wait for each other's locks.                              *)
CaptureInv == TypeOK /\ NoSendOnClosed /\ NoLockCycle

(* A connection to a target port is captured although its listener was      *)
(* bound before the probes were attached: the reason main.go gives for not  *)
(* using the kernel's gate, and a claim the filter does not keep.           *)
TargetsAreCaptured ==
  Quiet /\ scenario.wanted /\ faults \subseteq {"refused", "first"} => emitted # <<>>

(* "flush all remaining sessions before exiting": a claim the code does not *)
(* keep (README.md gives the constants).                                    *)
FlushedOnShutdown ==
  consumer.pc = "done" /\ faults = {} /\ current # 0 =>
    \A r \in drainStream(heap[current], TRUE) : r.out = <<>>

=============================================================================
