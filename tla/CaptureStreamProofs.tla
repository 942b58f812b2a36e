------------------------ MODULE CaptureStreamProofs ------------------------
(***************************************************************************)
(* Proofs about CaptureStream, for any connections, shards, limits and     *)
(* faults.                                                                 *)
(***************************************************************************)
EXTENDS CaptureStream, LoopTheorems, FiniteSetTheorems

(* the token without which exchange x is not emitted: in HTTP/1 the head of *)
(* its request, in the buffer of the requests; in HTTP/2 the end of its     *)
(* response's stream, in the buffer of the responses                        *)
ReqMark(x) == {t \in Tok : t.x = x /\ t.kind = "req"}
RespMark(x) == {t \in Tok : t.x = x /\ t.end /\ t.side = "resp"}
Mark(x) == ReqMark(x) \cup RespMark(x)
PendOf(x) == {p \in Parsed : p.x = x}
ConvOf(x) == {c \in Conv : c.req = x}

-----------------------------------------------------------------------------
(* HTTP/1 parsing *)

LEMMA FirstLookingIs ==
  ASSUME NEW buf \in Seq(Tok), NEW look
  PROVE  /\ FirstLooking(buf, look) \in 1 .. Len(buf) + 1
         /\ FirstLooking(buf, look) <= Len(buf) => buf[FirstLooking(buf, look)].looks = look
         /\ \A j \in 1 .. FirstLooking(buf, look) - 1 : buf[j].looks # look
  <1> DEFINE T == {i \in 1 .. Len(buf) + 1 : i <= Len(buf) => buf[i].looks = look}
  <1>1. Len(buf) \in Nat OBVIOUS
  <1>2. Len(buf) + 1 \in T BY <1>1
  <1>3. T \subseteq Nat OBVIOUS
  <1>4. PICK n \in T : \A m \in T : n <= m
    <2> HIDE DEF T
    <2> QED BY <1>2, <1>3, LeastNumber
  <1>5. n \in 1 .. Len(buf) + 1 /\ (n <= Len(buf) => buf[n].looks = look) BY <1>4
  <1>6. ASSUME NEW j \in 1 .. n - 1 PROVE buf[j].looks # look
    <2>1. j \in 1 .. Len(buf) /\ ~(n <= j) /\ j \in 1 .. Len(buf) + 1 BY <1>1, <1>5
    <2>2. j \notin T
      <3> HIDE DEF T
      <3> QED BY <1>4, <2>1
    <2> QED BY <2>1, <2>2
  <1> QED BY <1>5, <1>6 DEF FirstLooking

LEMMA SyncIs ==
  ASSUME NEW buf \in Seq(Tok), NEW look
  PROVE  /\ Sync(buf, look) \in Seq(Tok) /\ Len(Sync(buf, look)) <= Len(buf)
         /\ Sync(buf, look) = buf \/ Len(Sync(buf, look)) < Len(buf)
         /\ \A T : /\ Has(Sync(buf, look), T) => Has(buf, T)
                   /\ One(buf, T) => One(Sync(buf, look), T)
  <1> DEFINE m == FirstLooking(buf, look)
  <1>1. m \in 1 .. Len(buf) + 1 /\ Len(buf) \in m - 1 .. Len(buf) /\ Len(buf) \in Nat
    <2>1. m \in 1 .. Len(buf) + 1 BY FirstLookingIs
    <2> HIDE DEF m
    <2>2. Len(buf) \in Nat OBVIOUS
    <2> QED BY <2>1, <2>2
  <1>2. Sync(buf, look) = SubSeq(buf, m, Len(buf)) BY DEF Sync
  <1> HIDE DEF m
  <1>3. Sync(buf, look) \in Seq(Tok) /\ Len(Sync(buf, look)) = Len(buf) - m + 1 BY <1>1, <1>2, SubSeqIs
  <1>4. Sync(buf, look) = buf \/ Len(Sync(buf, look)) < Len(buf)
    <2>1. CASE m = 1 BY <1>2, <2>1, SubSeqAll
    <2>2. CASE m # 1 BY <1>1, <1>3, <2>2
    <2> QED BY <2>1, <2>2
  <1>5. ASSUME NEW T PROVE /\ Has(Sync(buf, look), T) => Has(buf, T)
                           /\ One(buf, T) => One(Sync(buf, look), T)
    BY <1>1, <1>2, HasSub
  <1>6. Len(Sync(buf, look)) <= Len(buf) BY <1>1, <1>3
  <1> QED BY <1>3, <1>4, <1>5, <1>6

(* a parsed message is taken from the front of the buffer *)
LEMMA RestIs ==
  ASSUME NEW buf \in Seq(Tok), buf # <<>>, Head(buf).kind = "respEOF" \/ Len(buf) > Head(buf).n
  PROVE  /\ Head(buf) \in Tok /\ 1 \in DOMAIN buf /\ Head(buf) = buf[1]
         /\ Consumed(buf) \in 1 .. Len(buf)
         /\ SubSeq(buf, 2, Consumed(buf)) \in Seq(Tok)
         /\ Rest(buf) \in Seq(Tok) /\ Len(Rest(buf)) < Len(buf)
         /\ \A T : /\ Has(Rest(buf), T) => Has(buf, T)
                   /\ One(buf, T) => One(Rest(buf), T)
                   /\ One(buf, T) /\ Head(buf) \in T => Has(buf, T) /\ ~Has(Rest(buf), T)
  <1>1. Len(buf) \in Nat /\ Len(buf) >= 1 /\ Head(buf) \in Tok /\ Head(buf) = buf[1] /\ 1 \in DOMAIN buf
    OBVIOUS
  <1> DEFINE c == Consumed(buf)
  <1>2. c \in 1 .. Len(buf)
    <2>1. Head(buf).n \in Nat BY <1>1 DEF Tok
    <2>2. CASE Head(buf).kind = "respEOF" BY <1>1, <2>2 DEF Consumed
    <2>3. CASE Head(buf).kind # "respEOF"
      <3>1. c = Head(buf).n + 1 /\ Len(buf) > Head(buf).n BY <2>3 DEF Consumed
      <3> HIDE DEF c
      <3> QED BY <1>1, <2>1, <3>1
    <2> QED BY <2>2, <2>3
  <1>3. Rest(buf) = SubSeq(buf, c + 1, Len(buf)) BY DEF Rest
  <1> HIDE DEF c
  <1>4. /\ c + 1 \in 1 .. Len(buf) + 1 /\ Len(buf) \in (c + 1) - 1 .. Len(buf) /\ c \in Nat
        /\ 2 \in 1 .. Len(buf) + 1 /\ c \in 2 - 1 .. Len(buf)
    BY <1>1, <1>2
  <1>5. Rest(buf) \in Seq(Tok) /\ Len(Rest(buf)) = Len(buf) - (c + 1) + 1 BY <1>3, <1>4, SubSeqIs
  <1>6. Len(Rest(buf)) < Len(buf) BY <1>1, <1>2, <1>5
  <1>7. SubSeq(buf, 2, c) \in Seq(Tok) BY <1>4, SubSeqIs
  <1>8. ASSUME NEW T
        PROVE  /\ Has(Rest(buf), T) => Has(buf, T)
               /\ One(buf, T) => One(Rest(buf), T)
    BY <1>3, <1>4, HasSub
  <1>9. ASSUME NEW T, One(buf, T), Head(buf) \in T PROVE Has(buf, T) /\ ~Has(Rest(buf), T)
    <2>1. Has(buf, T) BY <1>1, <1>9 DEF Has
    <2>2. ASSUME NEW i \in DOMAIN Rest(buf), Rest(buf)[i] \in T PROVE FALSE
      <3>1. i \in 1 .. Len(buf) - (c + 1) + 1 BY <1>5
      <3>2. Rest(buf)[i] = buf[(c + 1) + i - 1] /\ (c + 1) + i - 1 \in 1 .. Len(buf)
        BY <1>3, <1>4, <3>1, SubSeqIs
      <3>3. (c + 1) + i - 1 # 1 BY <1>2, <3>1
      <3>4. 1 = (c + 1) + i - 1 BY <1>1, <1>9, <2>2, <3>2, OneTwo
      <3> QED BY <3>3, <3>4
    <2> QED BY <2>1, <2>2 DEF Has
  <1> QED BY <1>1, <1>2, <1>5, <1>6, <1>7, <1>8, <1>9 DEF c

-----------------------------------------------------------------------------
(* The loops of drainParsedConversations and of parseHTTP2Frames *)

(* the session has the mark of x, used or not, or x itself *)
InSt(st, x) == Has(st.req, ReqMark(x)) \/ Has(st.resp, RespMark(x)) \/ Has(st.pending, PendOf(x))

(* Exchange x may yet be emitted from a session: its mark was not used, or  *)
(* its request is pending; and it is there only once.                       *)
Unparsed(st, x) == Has(st.req, ReqMark(x))
Unsent(st, x) == Has(st.resp, RespMark(x)) /\ x \notin st.h2Emitted
Pends(st, x) == Has(st.pending, PendOf(x))
HasX(st, x) == Unparsed(st, x) \/ Unsent(st, x) \/ Pends(st, x)
LoneSt(st, x) ==
  /\ One(st.req, ReqMark(x)) /\ One(st.resp, RespMark(x)) /\ One(st.pending, PendOf(x))
  /\ ~(Unparsed(st, x) /\ Unsent(st, x)) /\ ~(Unparsed(st, x) /\ Pends(st, x)) /\ ~(Unsent(st, x) /\ Pends(st, x))

HasRes(res, x) == HasX(res.st, x) \/ Has(res.out, ConvOf(x))
LoneRes(res, x) ==
  /\ LoneSt(res.st, x) /\ One(res.out, ConvOf(x))
  /\ ~(HasX(res.st, x) /\ Has(res.out, ConvOf(x)))

LEMMA RequestRoundIs ==
  ASSUME NEW st \in Session
  PROVE  /\ RequestRound(st) \in Session
         /\ RequestRound(st) = st \/ Len(RequestRound(st).req) < Len(st.req)
         /\ Len(RequestRound(st).req) <= Len(st.req) /\ RequestRound(st).resp = st.resp
         /\ RequestRound(st).h2Emitted = st.h2Emitted
         /\ \A T : Has(RequestRound(st).req, T) => Has(st.req, T)
         /\ \A x : /\ LoneSt(st, x) => LoneSt(RequestRound(st), x)
                   /\ HasX(RequestRound(st), x) => HasX(st, x)
  <1> DEFINE buf == Sync(st.req, "req")
             nx == RequestRound(st)
  <1>1. st.req \in Seq(Tok) /\ st.pending \in Seq(Parsed) /\ st.gap \in BOOLEAN /\ st.truncated \in BOOLEAN
    BY DEF Session
  <1>2. /\ buf \in Seq(Tok) /\ Len(buf) <= Len(st.req) /\ (buf = st.req \/ Len(buf) < Len(st.req))
        /\ \A T : /\ Has(buf, T) => Has(st.req, T)
                  /\ One(st.req, T) => One(buf, T)
    BY <1>1, SyncIs
  <1>3. CASE ~parseOneRequest(buf)
    <2>1. nx = [st EXCEPT !.req = buf] BY <1>3 DEF RequestRound
    <2> HIDE DEF buf, nx
    <2>2. /\ nx \in Session /\ nx.req = buf /\ nx.resp = st.resp /\ nx.pending = st.pending
          /\ nx.h2Emitted = st.h2Emitted
          /\ buf = st.req => nx = st
      BY <1>2, <2>1 DEF Session
    <2>3. ASSUME NEW x PROVE (LoneSt(st, x) => LoneSt(nx, x)) /\ (HasX(nx, x) => HasX(st, x))
      BY <1>2, <2>2 DEF LoneSt, HasX, Unparsed, Unsent, Pends
    <2>4. nx = st \/ Len(nx.req) < Len(st.req) BY <1>2, <2>2
    <2>5. \A T : Has(nx.req, T) => Has(st.req, T) BY <1>2, <2>2
    <2> QED BY <1>2, <2>2, <2>3, <2>4, <2>5 DEF nx
  <1>4. CASE parseOneRequest(buf)
    <2> DEFINE pr == [x |-> Head(buf).x, whole |-> WholeMessage(buf),
                      gap |-> st.gap, truncated |-> st.truncated]
               rest == Rest(buf)
               h == Head(buf)
    <2>1. nx = [st EXCEPT !.req = rest, !.pending = Append(@, pr)] BY <1>4 DEF RequestRound
    <2>2. h.kind = "req" /\ buf # <<>> /\ Len(buf) > Head(buf).n BY <1>4 DEF parseOneRequest
    <2>3. /\ h \in Tok /\ rest \in Seq(Tok) /\ Len(rest) < Len(buf)
          /\ \A T : /\ Has(rest, T) => Has(buf, T)
                    /\ One(buf, T) => One(rest, T)
                    /\ One(buf, T) /\ h \in T => Has(buf, T) /\ ~Has(rest, T)
      <3> HIDE DEF buf
      <3> QED BY <1>2, <2>2, RestIs
    <2>4. pr \in Parsed /\ pr.x = h.x
      <3>1. WholeMessage(buf) \in BOOLEAN BY DEF WholeMessage, Whole
      <3>2. h.x \in Nat BY <2>3 DEF Tok
      <3> QED BY <1>1, <3>1, <3>2 DEF Parsed
    <2> HIDE DEF pr, rest, h, buf, nx
    <2>5. /\ nx \in Session /\ nx.req = rest /\ nx.resp = st.resp /\ nx.pending = Append(st.pending, pr)
          /\ nx.h2Emitted = st.h2Emitted
      <3>1. Append(st.pending, pr) \in Seq(Parsed) BY <1>1, <2>4
      <3> QED BY <2>1, <2>3, <3>1 DEF Session
    <2>6. Len(nx.req) < Len(st.req)
      <3>1. Len(rest) \in Nat /\ Len(buf) \in Nat /\ Len(st.req) \in Nat BY <1>1, <1>2, <2>3
      <3> QED BY <1>2, <2>3, <2>5, <3>1
    <2>7. ASSUME NEW x PROVE (LoneSt(st, x) => LoneSt(nx, x)) /\ (HasX(nx, x) => HasX(st, x))
      <3>1. pr \in PendOf(x) <=> h \in ReqMark(x) BY <2>2, <2>3, <2>4 DEF PendOf, ReqMark
      <3>2. /\ Has(nx.pending, PendOf(x)) <=> Has(st.pending, PendOf(x)) \/ pr \in PendOf(x)
            /\ One(st.pending, PendOf(x)) /\ ~(Has(st.pending, PendOf(x)) /\ pr \in PendOf(x)) => One(nx.pending, PendOf(x))
        BY <1>1, <2>4, <2>5, HasAppend
      <3>3. h \in ReqMark(x) => Has(buf, ReqMark(x))
        <4>1. 1 \in DOMAIN buf /\ buf[1] = h BY <1>2, <2>2 DEF h
        <4> QED BY <4>1 DEF Has
      <3>4. HasX(nx, x) => HasX(st, x) BY <1>2, <2>3, <2>5, <3>1, <3>2, <3>3 DEF HasX, Unparsed, Unsent, Pends
      <3>5. LoneSt(st, x) => LoneSt(nx, x) BY <1>2, <2>3, <2>5, <3>1, <3>2, <3>3 DEF LoneSt, Unparsed, Unsent, Pends
      <3> QED BY <3>4, <3>5
    <2>8. Len(nx.req) <= Len(st.req)
      <3>1. Len(nx.req) \in Nat /\ Len(st.req) \in Nat BY <1>1, <2>3, <2>5
      <3> QED BY <2>6, <3>1
    <2>9. \A T : Has(nx.req, T) => Has(st.req, T) BY <1>2, <2>3, <2>5
    <2> QED BY <2>5, <2>6, <2>7, <2>8, <2>9 DEF nx
  <1> QED BY <1>3, <1>4

LEMMA ResponseRoundIs ==
  ASSUME NEW res \in Result, NEW delimited \in BOOLEAN
  PROVE  LET nx == ResponseRound(res, delimited) IN
         /\ nx \in Result
         /\ nx = res \/ Len(nx.st.resp) < Len(res.st.resp)
         /\ Len(nx.st.resp) <= Len(res.st.resp) /\ nx.st.req = res.st.req
         /\ nx.st.h2Emitted = res.st.h2Emitted
         /\ \A T : Has(nx.st.resp, T) => Has(res.st.resp, T)
         /\ \A x : /\ LoneRes(res, x) => LoneRes(nx, x)
                   /\ HasRes(nx, x) => HasRes(res, x)
  <1> DEFINE st == res.st
             buf == Sync(res.st.resp, "resp")
             nx == ResponseRound(res, delimited)
  <1>1. /\ st \in Session /\ res.out \in Seq(Conv) /\ res = [st |-> st, out |-> res.out]
        /\ st.resp \in Seq(Tok) /\ st.pending \in Seq(Parsed) /\ st.gap \in BOOLEAN /\ st.truncated \in BOOLEAN
        /\ st.req \in Seq(Tok)
    BY DEF Session, Result
  <1>2. /\ buf \in Seq(Tok) /\ Len(buf) <= Len(st.resp) /\ (buf = st.resp \/ Len(buf) < Len(st.resp))
        /\ \A T : /\ Has(buf, T) => Has(st.resp, T)
                  /\ One(st.resp, T) => One(buf, T)
    BY <1>1, SyncIs
  <1>3. CASE st.pending = <<>>
    <2>1. nx = res BY <1>3 DEF ResponseRound
    <2>2. Len(st.resp) <= Len(st.resp) BY <1>1
    <2> HIDE DEF nx
    <2> QED BY <2>1, <2>2 DEF nx
  <1>4. CASE st.pending # <<>> /\ ~parseOneResponse(buf, delimited)
    <2>1. nx = [res EXCEPT !.st.resp = buf] BY <1>4 DEF ResponseRound
    <2> HIDE DEF buf, nx
    <2>2. /\ nx.out = res.out /\ nx.st = [st EXCEPT !.resp = buf] /\ nx = [st |-> nx.st, out |-> nx.out]
      BY <1>1, <2>1
    <2>3. /\ nx.st \in Session /\ nx.st.resp = buf /\ nx.st.req = st.req /\ nx.st.pending = st.pending
          /\ nx.st.h2Emitted = st.h2Emitted
          /\ buf = st.resp => nx.st = st
      <3>1. nx.st \in Session /\ nx.st.resp = buf BY <1>1, <1>2, <2>2 DEF Session
      <3>2. nx.st.req = st.req /\ nx.st.pending = st.pending /\ nx.st.h2Emitted = st.h2Emitted BY <1>1, <2>2 DEF Session
      <3>3. buf = st.resp => nx.st = st BY <1>1, <2>2 DEF Session
      <3> QED BY <3>1, <3>2, <3>3
    <2>4. nx \in Result BY <1>1, <2>2, <2>3 DEF Result
    <2>5. ASSUME NEW x PROVE (LoneRes(res, x) => LoneRes(nx, x)) /\ (HasRes(nx, x) => HasRes(res, x))
      <3>1. /\ Unparsed(nx.st, x) = Unparsed(st, x) /\ Pends(nx.st, x) = Pends(st, x)
            /\ Unsent(nx.st, x) => Unsent(st, x)
            /\ One(st.resp, RespMark(x)) => One(nx.st.resp, RespMark(x))
        BY <1>2, <2>3 DEF Unparsed, Unsent, Pends
      <3>2. HasX(nx.st, x) => HasX(st, x) BY <3>1 DEF HasX
      <3>3. LoneSt(st, x) => LoneSt(nx.st, x) BY <2>3, <3>1 DEF LoneSt
      <3> QED BY <2>2, <3>2, <3>3 DEF LoneRes, HasRes
    <2>6. nx = res \/ Len(nx.st.resp) < Len(st.resp) BY <1>1, <1>2, <2>2, <2>3
    <2>7. \A T : Has(nx.st.resp, T) => Has(st.resp, T) BY <1>2, <2>3
    <2> QED BY <1>2, <2>3, <2>4, <2>5, <2>6, <2>7 DEF nx
  <1>5. CASE st.pending # <<>> /\ parseOneResponse(buf, delimited)
    <2> DEFINE cv == [req |-> Head(st.pending).x, resp |-> Head(buf).x,
                      whole |-> Head(st.pending).whole /\ WholeMessage(buf),
                      gap |-> Head(st.pending).gap \/ st.gap,
                      truncated |-> Head(st.pending).truncated \/ st.truncated]
               rest == Rest(buf)
               h == Head(st.pending)
    <2>1. nx = [st |-> [st EXCEPT !.resp = rest, !.pending = Tail(@)], out |-> Append(res.out, cv)]
      BY <1>5 DEF ResponseRound
    <2>2. buf # <<>> /\ (Head(buf).kind = "respEOF" \/ Len(buf) > Head(buf).n) BY <1>5 DEF parseOneResponse
    <2>3. /\ Head(buf) \in Tok /\ rest \in Seq(Tok) /\ Len(rest) < Len(buf)
          /\ \A T : /\ Has(rest, T) => Has(buf, T)
                    /\ One(buf, T) => One(rest, T)
      <3> HIDE DEF buf
      <3> QED BY <1>2, <2>2, RestIs
    <2>4. h \in Parsed /\ Tail(st.pending) \in Seq(Parsed) BY <1>1, <1>5
    <2>5. cv \in Conv /\ cv.req = h.x
      <3>1. WholeMessage(buf) \in BOOLEAN BY DEF WholeMessage, Whole
      <3>2. Head(buf).x \in Nat BY <2>3 DEF Tok
      <3>3. h.x \in Nat /\ h.whole \in BOOLEAN /\ h.gap \in BOOLEAN /\ h.truncated \in BOOLEAN BY <2>4 DEF Parsed
      <3> HIDE DEF buf
      <3> QED BY <1>1, <3>1, <3>2, <3>3 DEF Conv
    <2> HIDE DEF cv, rest, h, buf, nx
    <2>6. /\ nx.out = Append(res.out, cv) /\ nx.st = [st EXCEPT !.resp = rest, !.pending = Tail(@)]
          /\ nx = [st |-> nx.st, out |-> nx.out]
      BY <2>1
    <2>7. /\ nx.st \in Session /\ nx.st.resp = rest /\ nx.st.req = st.req /\ nx.st.pending = Tail(st.pending)
          /\ nx.st.h2Emitted = st.h2Emitted
      BY <1>1, <2>3, <2>4, <2>6 DEF Session
    <2>8. nx \in Result
      <3>1. nx.out \in Seq(Conv) BY <1>1, <2>5, <2>6
      <3> QED BY <2>6, <2>7, <3>1 DEF Result
    <2>9. Len(nx.st.resp) < Len(st.resp)
      <3>1. Len(rest) \in Nat /\ Len(buf) \in Nat /\ Len(st.resp) \in Nat BY <1>1, <1>2, <2>3
      <3> QED BY <1>2, <2>3, <2>7, <3>1
    <2>10. ASSUME NEW x PROVE (LoneRes(res, x) => LoneRes(nx, x)) /\ (HasRes(nx, x) => HasRes(res, x))
      <3>1. cv \in ConvOf(x) <=> h \in PendOf(x) BY <2>4, <2>5 DEF PendOf, ConvOf
      <3>2. /\ Has(nx.out, ConvOf(x)) <=> Has(res.out, ConvOf(x)) \/ cv \in ConvOf(x)
            /\ One(res.out, ConvOf(x)) /\ ~(Has(res.out, ConvOf(x)) /\ cv \in ConvOf(x)) => One(nx.out, ConvOf(x))
        BY <1>1, <2>5, <2>6, HasAppend
      <3>3. /\ Has(st.pending, PendOf(x)) <=> h \in PendOf(x) \/ Has(nx.st.pending, PendOf(x))
            /\ One(st.pending, PendOf(x)) => /\ One(nx.st.pending, PendOf(x))
                                             /\ ~(h \in PendOf(x) /\ Has(nx.st.pending, PendOf(x)))
        BY <1>1, <1>5, <2>7, HasTail DEF h
      <3>4. /\ Unparsed(nx.st, x) = Unparsed(st, x)
            /\ Pends(st, x) <=> h \in PendOf(x) \/ Pends(nx.st, x)
            /\ Unsent(nx.st, x) => Unsent(st, x)
            /\ One(st.resp, RespMark(x)) => One(nx.st.resp, RespMark(x))
            /\ nx.st.req = st.req
        BY <1>2, <2>3, <2>7, <3>3 DEF Unparsed, Unsent, Pends
      <3>5. HasRes(nx, x) => HasRes(res, x) BY <3>1, <3>2, <3>4 DEF HasX, HasRes
      <3>6. LoneSt(st, x) => LoneSt(nx.st, x) /\ ~(h \in PendOf(x) /\ HasX(nx.st, x))
        BY <3>3, <3>4 DEF HasX, LoneSt, Pends
      <3>7. HasX(st, x) <=> Unparsed(st, x) \/ Unsent(st, x) \/ Pends(st, x) BY DEF HasX
      <3>8. HasX(nx.st, x) <=> Unparsed(nx.st, x) \/ Unsent(nx.st, x) \/ Pends(nx.st, x) BY DEF HasX
      <3>9. LoneRes(res, x) => LoneRes(nx, x) BY <3>1, <3>2, <3>4, <3>6, <3>7, <3>8 DEF LoneRes
      <3> QED BY <3>5, <3>9
    <2>11. Len(nx.st.resp) <= Len(st.resp)
      <3>1. Len(nx.st.resp) \in Nat /\ Len(st.resp) \in Nat BY <1>1, <2>3, <2>7
      <3> QED BY <2>9, <3>1
    <2>12. \A T : Has(nx.st.resp, T) => Has(st.resp, T) BY <1>2, <2>3, <2>7
    <2> QED BY <2>7, <2>8, <2>9, <2>10, <2>11, <2>12 DEF nx
  <1> QED BY <1>3, <1>4, <1>5

(* The first loop ends, and keeps what its rounds keep. *)
LEMMA RequestRoundsEnd ==
  ASSUME NEW P, P \subseteq Session, \A s \in P : RequestRound(s) \in P
  PROVE  \A s \in P : RequestRounds[s] \in P /\ RequestRound(RequestRounds[s]) = RequestRounds[s]
  <1> DEFINE F == [s \in Session |-> RequestRound(s)]
             M == [s \in Session |-> Len(s.req)]
  <1>1. F \in [Session -> Session] BY RequestRoundIs
  <1>2. M \in [Session -> Nat]
    <2>1. \A s \in Session : Len(s.req) \in Nat BY DEF Session
    <2> QED BY <2>1
  <1>3. \A s \in Session : F[s] = s \/ M[F[s]] < M[s]
    <2> SUFFICES ASSUME NEW s \in Session PROVE F[s] = s \/ M[F[s]] < M[s] OBVIOUS
    <2>1. /\ RequestRound(s) \in Session
          /\ RequestRound(s) = s \/ Len(RequestRound(s).req) < Len(s.req)
      BY RequestRoundIs
    <2>2. F[s] = RequestRound(s) /\ M[s] = Len(s.req) /\ M[RequestRound(s)] = Len(RequestRound(s).req) BY <2>1
    <2> HIDE DEF F, M
    <2> QED BY <2>1, <2>2
  <1>4. \A s \in P : F[s] \in P BY <1>1
  <1>5. RequestRounds = [s \in Session |-> IF F[s] = s THEN s ELSE RequestRounds[F[s]]]
    <2> DEFINE R == CHOOSE g : g = [s \in Session |-> IF RequestRound(s) = s THEN s ELSE g[RequestRound(s)]]
    <2>1. \A s \in Session : F[s] = RequestRound(s) OBVIOUS
    <2>2. PICK g : g = [s \in Session |-> IF F[s] = s THEN s ELSE g[F[s]]]
      <3> HIDE DEF F
      <3> QED BY <1>1, LoopExists
    <2>3. g = [s \in Session |-> IF RequestRound(s) = s THEN s ELSE g[RequestRound(s)]]
      <3> HIDE DEF F
      <3> QED BY <2>1, <2>2
    <2>4. R = [s \in Session |-> IF RequestRound(s) = s THEN s ELSE R[RequestRound(s)]] BY <2>3
    <2>5. RequestRounds = R BY DEF RequestRounds
    <2> HIDE DEF R, F
    <2> QED BY <2>1, <2>4, <2>5
  <1> HIDE DEF F, M
  <1>6. \A s \in P : RequestRounds[s] \in P /\ F[RequestRounds[s]] = RequestRounds[s]
    BY <1>1, <1>2, <1>3, <1>4, <1>5, LoopEnds
  <1> QED BY <1>6 DEF F

LEMMA ResponseRoundsEnd ==
  ASSUME NEW delimited \in BOOLEAN,
         NEW P, P \subseteq Result, \A res \in P : ResponseRound(res, delimited) \in P
  PROVE  \A res \in P : /\ ResponseRounds(delimited)[res] \in P
                        /\ ResponseRound(ResponseRounds(delimited)[res], delimited) = ResponseRounds(delimited)[res]
  <1> DEFINE F == [res \in Result |-> ResponseRound(res, delimited)]
             M == [res \in Result |-> Len(res.st.resp)]
             D == ResponseRounds(delimited)
  <1>1. F \in [Result -> Result] BY ResponseRoundIs
  <1>2. M \in [Result -> Nat]
    <2>1. \A res \in Result : Len(res.st.resp) \in Nat BY DEF Session, Result
    <2> QED BY <2>1
  <1>3. \A res \in Result : F[res] = res \/ M[F[res]] < M[res]
    <2> SUFFICES ASSUME NEW res \in Result PROVE F[res] = res \/ M[F[res]] < M[res] OBVIOUS
    <2> DEFINE nx == ResponseRound(res, delimited)
    <2>1. nx \in Result /\ (nx = res \/ Len(nx.st.resp) < Len(res.st.resp)) BY ResponseRoundIs
    <2>2. F[res] = nx /\ M[res] = Len(res.st.resp) BY <2>1
    <2> HIDE DEF nx
    <2>3. M[nx] = Len(nx.st.resp) BY <2>1
    <2> HIDE DEF F, M
    <2> QED BY <2>1, <2>2, <2>3
  <1>4. \A res \in P : F[res] \in P BY <1>1
  <1>5. D = [res \in Result |-> IF F[res] = res THEN res ELSE D[F[res]]]
    <2> DEFINE R == CHOOSE g : g = [res \in Result |-> IF ResponseRound(res, delimited) = res THEN res
                                                        ELSE g[ResponseRound(res, delimited)]]
    <2>1. \A res \in Result : F[res] = ResponseRound(res, delimited) OBVIOUS
    <2>2. PICK g : g = [res \in Result |-> IF F[res] = res THEN res ELSE g[F[res]]]
      <3> HIDE DEF F
      <3> QED BY <1>1, LoopExists
    <2>3. g = [res \in Result |-> IF ResponseRound(res, delimited) = res THEN res
                                  ELSE g[ResponseRound(res, delimited)]]
      <3> HIDE DEF F
      <3> QED BY <2>1, <2>2
    <2>4. R = [res \in Result |-> IF ResponseRound(res, delimited) = res THEN res
                                  ELSE R[ResponseRound(res, delimited)]]
      BY <2>3
    <2>5. D = R BY DEF ResponseRounds
    <2> HIDE DEF R, F, D
    <2> QED BY <2>1, <2>4, <2>5
  <1> HIDE DEF F, M, D
  <1>6. \A res \in P : D[res] \in P /\ F[D[res]] = D[res] BY <1>1, <1>2, <1>3, <1>4, <1>5, LoopEnds
  <1> QED BY <1>6 DEF F, D

(* The end of a request's stream is not in the buffer of the responses (the *)
(* end of a response's stream may well be in the buffer of the requests).   *)
Strange == {t \in Tok : t.end /\ t.side # "resp"}
Sound(st) == st \in Session /\ ~Has(st.resp, Strange)

(* what a drain of st may return *)
DrainOK(st, res) ==
  /\ res \in Result /\ Sound(res.st)
  /\ Len(res.st.req) <= Len(st.req) /\ Len(res.st.resp) <= Len(st.resp)
  /\ \A T : (Has(res.st.req, T) => Has(st.req, T)) /\ (Has(res.st.resp, T) => Has(st.resp, T))
  /\ \A x : /\ LoneSt(st, x) => LoneRes(res, x)
            /\ HasRes(res, x) => HasX(st, x)

LEMMA DrainParsedIs ==
  ASSUME NEW st, Sound(st), NEW delimited \in BOOLEAN
  PROVE  DrainOK(st, drainParsedConversations(st, delimited))
  <1> DEFINE P == {s \in Session : /\ Len(s.req) <= Len(st.req) /\ s.resp = st.resp
                                   /\ \A T : Has(s.req, T) => Has(st.req, T)
                                   /\ \A x : /\ LoneSt(st, x) => LoneSt(s, x)
                                             /\ HasX(s, x) => HasX(st, x)}
             mid == RequestRounds[st]
             res0 == [st |-> mid, out |-> <<>>]
             Q == {res \in Result : /\ Len(res.st.req) <= Len(st.req) /\ Len(res.st.resp) <= Len(st.resp)
                                    /\ \A T : /\ Has(res.st.req, T) => Has(st.req, T)
                                              /\ Has(res.st.resp, T) => Has(st.resp, T)
                                    /\ \A x : /\ LoneSt(st, x) => LoneRes(res, x)
                                              /\ HasRes(res, x) => HasX(st, x)}
             res1 == drainParsedConversations(st, delimited)
  <1>0. st \in Session /\ Len(st.req) \in Nat /\ Len(st.resp) \in Nat BY DEF Sound, Session
  <1>1. \A s \in P : RequestRound(s) \in P
    <2> SUFFICES ASSUME NEW s \in P PROVE RequestRound(s) \in P OBVIOUS
    <2> DEFINE nx == RequestRound(s)
    <2>1. /\ s \in Session /\ Len(s.req) <= Len(st.req) /\ s.resp = st.resp /\ Len(s.req) \in Nat
          /\ (\A T : Has(s.req, T) => Has(st.req, T))
          /\ \A x : (LoneSt(st, x) => LoneSt(s, x)) /\ (HasX(s, x) => HasX(st, x))
      BY DEF Session
    <2>2. /\ nx \in Session /\ Len(nx.req) <= Len(s.req) /\ nx.resp = s.resp
          /\ (\A T : Has(nx.req, T) => Has(s.req, T))
          /\ \A x : (LoneSt(s, x) => LoneSt(nx, x)) /\ (HasX(nx, x) => HasX(s, x))
      BY <2>1, RequestRoundIs
    <2> HIDE DEF nx
    <2>3. Len(nx.req) \in Nat BY <2>2 DEF Session
    <2>4. Len(nx.req) <= Len(st.req) BY <1>0, <2>1, <2>2, <2>3
    <2>5. nx \in P BY <2>1, <2>2, <2>4
    <2> QED BY <2>5 DEF nx
  <1>2. st \in P BY <1>0
  <1>3. mid \in P
    <2>1. P \subseteq Session OBVIOUS
    <2> HIDE DEF P
    <2> QED BY <1>1, <1>2, <2>1, RequestRoundsEnd
  <1>4. /\ mid \in Session /\ Len(mid.req) <= Len(st.req) /\ mid.resp = st.resp
        /\ (\A T : Has(mid.req, T) => Has(st.req, T))
        /\ \A x : (LoneSt(st, x) => LoneSt(mid, x)) /\ (HasX(mid, x) => HasX(st, x))
    BY <1>3
  <1> HIDE DEF P, mid
  <1>5. res0 \in Q
    <2>1. <<>> \in Seq(Conv) /\ DOMAIN <<>> = {} OBVIOUS
    <2>2. res0 \in Result /\ res0.st = mid /\ res0.out = <<>> BY <1>4, <2>1 DEF Result
    <2>3. \A x : ~Has(<<>>, ConvOf(x)) /\ One(<<>>, ConvOf(x)) BY DEF Has, One
    <2>4. \A x : (LoneSt(st, x) => LoneRes(res0, x)) /\ (HasRes(res0, x) => HasX(st, x))
      <3> HIDE DEF res0
      <3> QED BY <1>4, <2>2, <2>3 DEF LoneRes, HasRes
    <2> HIDE DEF res0
    <2> QED BY <1>0, <1>4, <2>2, <2>4
  <1>6. \A res \in Q : ResponseRound(res, delimited) \in Q
    <2> SUFFICES ASSUME NEW res \in Q PROVE ResponseRound(res, delimited) \in Q OBVIOUS
    <2> DEFINE nx == ResponseRound(res, delimited)
    <2>1. /\ res \in Result /\ Len(res.st.req) <= Len(st.req) /\ Len(res.st.resp) <= Len(st.resp)
          /\ \A T : (Has(res.st.req, T) => Has(st.req, T)) /\ (Has(res.st.resp, T) => Has(st.resp, T))
          /\ \A x : (LoneSt(st, x) => LoneRes(res, x)) /\ (HasRes(res, x) => HasX(st, x))
      OBVIOUS
    <2>2. /\ nx \in Result /\ Len(nx.st.resp) <= Len(res.st.resp) /\ nx.st.req = res.st.req
          /\ \A T : Has(nx.st.resp, T) => Has(res.st.resp, T)
          /\ \A x : (LoneRes(res, x) => LoneRes(nx, x)) /\ (HasRes(nx, x) => HasRes(res, x))
      BY <2>1, ResponseRoundIs
    <2> HIDE DEF nx
    <2>3. Len(nx.st.resp) \in Nat /\ Len(res.st.resp) \in Nat BY <2>1, <2>2 DEF Result, Session
    <2>4. Len(nx.st.resp) <= Len(st.resp) BY <1>0, <2>1, <2>2, <2>3
    <2>5. nx \in Q BY <2>1, <2>2, <2>4
    <2> QED BY <2>5 DEF nx
  <1>7. res1 \in Q
    <2>1. Q \subseteq Result OBVIOUS
    <2>2. res1 = ResponseRounds(delimited)[res0] BY DEF drainParsedConversations, mid
    <2> HIDE DEF Q, res0, res1
    <2> QED BY <1>5, <1>6, <2>1, <2>2, ResponseRoundsEnd
  <1> HIDE DEF res1
  <1>8. /\ res1 \in Result /\ Len(res1.st.req) <= Len(st.req) /\ Len(res1.st.resp) <= Len(st.resp)
        /\ \A T : (Has(res1.st.req, T) => Has(st.req, T)) /\ (Has(res1.st.resp, T) => Has(st.resp, T))
        /\ \A x : (LoneSt(st, x) => LoneRes(res1, x)) /\ (HasRes(res1, x) => HasX(st, x))
    BY <1>7
  <1>9. Sound(res1.st)
    <2>1. res1.st \in Session BY <1>8 DEF Result
    <2> QED BY <1>8, <2>1 DEF Sound
  <1>10. DrainOK(st, res1) BY <1>8, <1>9 DEF DrainOK
  <1> QED BY <1>10 DEF res1

-----------------------------------------------------------------------------
(* HTTP/2 parsing *)

LEMMA FrameRoundIs ==
  ASSUME NEW r \in FrameState
  PROVE  /\ FrameRound(r) \in FrameState
         /\ FrameRound(r) = r \/ Len(FrameRound(r).buf) < Len(r.buf)
         /\ \A j \in DOMAIN FrameRound(r).buf : \E k \in DOMAIN r.buf : FrameRound(r).buf[j] = r.buf[k]
         /\ \A i \in DOMAIN FrameRound(r).frames :
              \/ i \in DOMAIN r.frames /\ FrameRound(r).frames[i] = r.frames[i]
              \/ \E k \in DOMAIN r.buf : FrameRound(r).frames[i][1] = r.buf[k]
  <1> DEFINE nx == FrameRound(r)
             b == r.buf
             c == Consumed(r.buf)
             f == SubSeq(r.buf, 1, Consumed(r.buf))
  <1>1. r.buf \in Seq(Tok) /\ r.frames \in Seq(Seq(Tok)) /\ r = [buf |-> r.buf, frames |-> r.frames] BY DEF FrameState
  <1>2. CASE b = <<>> \/ Head(b).kind \notin {"headers", "data"} \/ Len(b) <= Head(b).n
    <2>1. nx = r BY <1>2 DEF FrameRound
    <2> HIDE DEF nx
    <2> QED BY <2>1 DEF nx
  <1>3. CASE ~(b = <<>> \/ Head(b).kind \notin {"headers", "data"} \/ Len(b) <= Head(b).n)
    <2>1. nx = [buf |-> Rest(b), frames |-> Append(r.frames, f)] BY <1>3 DEF FrameRound
    <2>2. b # <<>> /\ ~(Len(b) <= Head(b).n) BY <1>3
    <2>3. Head(b) \in Tok /\ Head(b).n \in Nat /\ Len(b) \in Nat
      <3>1. b \in Seq(Tok) BY <1>1
      <3> HIDE DEF b
      <3>2. Head(b) \in Tok /\ Len(b) \in Nat BY <2>2, <3>1
      <3> QED BY <3>2 DEF Tok
    <2>4. Len(b) > Head(b).n BY <2>2, <2>3
    <2>5. /\ Consumed(b) \in 1 .. Len(b) /\ Rest(b) \in Seq(Tok) /\ Len(Rest(b)) < Len(b)
          /\ \A T : Has(Rest(b), T) => Has(b, T)
      <3> HIDE DEF b
      <3> QED BY <1>1, <2>2, <2>4, RestIs DEF b
    <2>6. \A j \in DOMAIN Rest(b) : \E k \in DOMAIN b : Rest(b)[j] = b[k]
      <3> SUFFICES ASSUME NEW j \in DOMAIN Rest(b) PROVE \E k \in DOMAIN b : Rest(b)[j] = b[k] OBVIOUS
      <3>1. Has(Rest(b), {Rest(b)[j]}) BY DEF Has
      <3>2. Has(b, {Rest(b)[j]}) BY <2>5, <3>1
      <3> QED BY <3>2 DEF Has
    <2>7. f \in Seq(Tok) /\ f[1] = b[1] /\ 1 \in DOMAIN b
      <3>1. 1 \in 1 .. Len(b) + 1 /\ c \in 1 - 1 .. Len(b) /\ 1 \in 1 .. c - 1 + 1 BY <2>3, <2>5
      <3>2. f \in Seq(Tok) /\ f[1] = b[1 + 1 - 1] /\ 1 + 1 - 1 \in 1 .. Len(b) BY <1>1, <3>1, SubSeqIs
      <3>3. 1 + 1 - 1 = 1 /\ DOMAIN b = 1 .. Len(b) BY <1>1
      <3> QED BY <3>2, <3>3
    <2> HIDE DEF nx, f, c
    <2>8. nx.buf = Rest(b) /\ nx.frames = Append(r.frames, f) /\ nx \in FrameState
      <3>1. Append(r.frames, f) \in Seq(Seq(Tok)) BY <1>1, <2>7
      <3> QED BY <2>1, <2>5, <3>1 DEF FrameState
    <2>9. \A i \in DOMAIN nx.frames : (i \in DOMAIN r.frames /\ nx.frames[i] = r.frames[i]) \/ nx.frames[i] = f
      BY <1>1, <2>7, <2>8
    <2> QED BY <2>5, <2>6, <2>7, <2>8, <2>9 DEF nx
  <1> QED BY <1>2, <1>3

(* The loop over the frames ends, and keeps what its rounds keep. *)
LEMMA FrameRoundsEnd ==
  ASSUME NEW P, P \subseteq FrameState, \A r \in P : FrameRound(r) \in P
  PROVE  \A r \in P : FrameRounds[r] \in P
  <1> DEFINE F == [r \in FrameState |-> FrameRound(r)]
             M == [r \in FrameState |-> Len(r.buf)]
  <1>1. F \in [FrameState -> FrameState] BY FrameRoundIs
  <1>2. M \in [FrameState -> Nat]
    <2>1. \A r \in FrameState : Len(r.buf) \in Nat BY DEF FrameState
    <2> QED BY <2>1
  <1>3. \A r \in FrameState : F[r] = r \/ M[F[r]] < M[r]
    <2> SUFFICES ASSUME NEW r \in FrameState PROVE F[r] = r \/ M[F[r]] < M[r] OBVIOUS
    <2>1. /\ FrameRound(r) \in FrameState
          /\ FrameRound(r) = r \/ Len(FrameRound(r).buf) < Len(r.buf)
      BY FrameRoundIs
    <2>2. F[r] = FrameRound(r) /\ M[r] = Len(r.buf) /\ M[FrameRound(r)] = Len(FrameRound(r).buf) BY <2>1
    <2> HIDE DEF F, M
    <2> QED BY <2>1, <2>2
  <1>4. \A r \in P : F[r] \in P BY <1>1
  <1>5. FrameRounds = [r \in FrameState |-> IF F[r] = r THEN r ELSE FrameRounds[F[r]]]
    <2> DEFINE R == CHOOSE g : g = [r \in FrameState |-> IF FrameRound(r) = r THEN r ELSE g[FrameRound(r)]]
    <2>1. \A r \in FrameState : F[r] = FrameRound(r) OBVIOUS
    <2>2. PICK g : g = [r \in FrameState |-> IF F[r] = r THEN r ELSE g[F[r]]]
      <3> HIDE DEF F
      <3> QED BY <1>1, LoopExists
    <2>3. g = [r \in FrameState |-> IF FrameRound(r) = r THEN r ELSE g[FrameRound(r)]]
      <3> HIDE DEF F
      <3> QED BY <2>1, <2>2
    <2>4. R = [r \in FrameState |-> IF FrameRound(r) = r THEN r ELSE R[FrameRound(r)]] BY <2>3
    <2>5. FrameRounds = R BY DEF FrameRounds
    <2> HIDE DEF R, F
    <2> QED BY <2>1, <2>4, <2>5
  <1> HIDE DEF F, M
  <1>6. \A r \in P : FrameRounds[r] \in P /\ F[FrameRounds[r]] = FrameRounds[r]
    BY <1>1, <1>2, <1>3, <1>4, <1>5, LoopEnds
  <1> QED BY <1>6

(* A frame begins with a token of the buffer. *)
LEMMA FramesAreOfBuffer ==
  ASSUME NEW buf \in Seq(Tok)
  PROVE  \A i \in DOMAIN FramesOf(buf) : \E k \in DOMAIN buf : FramesOf(buf)[i][1] = buf[k]
  <1> DEFINE P == {r \in FrameState : /\ \A j \in DOMAIN r.buf : \E k \in DOMAIN buf : r.buf[j] = buf[k]
                                      /\ \A i \in DOMAIN r.frames : \E k \in DOMAIN buf : r.frames[i][1] = buf[k]}
             r0 == [buf |-> buf, frames |-> <<>>]
  <1>1. \A r \in P : FrameRound(r) \in P
    <2> SUFFICES ASSUME NEW r \in P PROVE FrameRound(r) \in P OBVIOUS
    <2> DEFINE nx == FrameRound(r)
    <2>1. /\ r \in FrameState /\ \A j \in DOMAIN r.buf : \E k \in DOMAIN buf : r.buf[j] = buf[k]
          /\ \A i \in DOMAIN r.frames : \E k \in DOMAIN buf : r.frames[i][1] = buf[k]
      OBVIOUS
    <2>2. /\ nx \in FrameState
          /\ \A j \in DOMAIN nx.buf : \E k \in DOMAIN r.buf : nx.buf[j] = r.buf[k]
          /\ \A i \in DOMAIN nx.frames :
              \/ i \in DOMAIN r.frames /\ nx.frames[i] = r.frames[i]
              \/ \E k \in DOMAIN r.buf : nx.frames[i][1] = r.buf[k]
      BY <2>1, FrameRoundIs
    <2> HIDE DEF nx
    <2>3. \A j \in DOMAIN nx.buf : \E k \in DOMAIN buf : nx.buf[j] = buf[k] BY <2>1, <2>2
    <2>4. \A i \in DOMAIN nx.frames : \E k \in DOMAIN buf : nx.frames[i][1] = buf[k] BY <2>1, <2>2
    <2>5. nx \in P BY <2>2, <2>3, <2>4
    <2> QED BY <2>5 DEF nx
  <1>2. r0 \in P
    <2>1. <<>> \in Seq(Seq(Tok)) /\ DOMAIN <<>> = {} OBVIOUS
    <2>2. r0 \in FrameState /\ r0.buf = buf /\ r0.frames = <<>> BY <2>1 DEF FrameState
    <2> HIDE DEF r0
    <2> QED BY <2>2
  <1>3. P \subseteq FrameState OBVIOUS
  <1>4. FrameRounds[r0] \in P
    <2> HIDE DEF P, r0
    <2> QED BY <1>1, <1>2, <1>3, FrameRoundsEnd
  <1>5. FramesOf(buf) = FrameRounds[r0].frames BY DEF FramesOf
  <1> HIDE DEF r0
  <1> QED BY <1>4, <1>5

LEMMA WithoutPrefaceIs ==
  ASSUME NEW buf \in Seq(Tok)
  PROVE  /\ WithoutPreface(buf) \in Seq(Tok) /\ Len(WithoutPreface(buf)) <= Len(buf)
         /\ \A T : /\ Has(WithoutPreface(buf), T) => Has(buf, T)
                   /\ One(buf, T) => One(WithoutPreface(buf), T)
  <1>1. Len(buf) \in Nat OBVIOUS
  <1>2. CASE ~HasPreface(buf)
    <2>1. WithoutPreface(buf) = buf BY <1>2 DEF WithoutPreface
    <2> QED BY <1>1, <2>1
  <1>3. CASE HasPreface(buf)
    <2>1. WithoutPreface(buf) = SubSeq(buf, 3, Len(buf)) BY <1>3 DEF WithoutPreface
    <2>2. Len(buf) >= 2 BY <1>3 DEF HasPreface
    <2>3. 3 \in 1 .. Len(buf) + 1 /\ Len(buf) \in 3 - 1 .. Len(buf) BY <1>1, <2>2
    <2>4. WithoutPreface(buf) \in Seq(Tok) /\ Len(WithoutPreface(buf)) = Len(buf) - 3 + 1
      <3> DEFINE m == 3
      <3>1. m \in 1 .. Len(buf) + 1 /\ Len(buf) \in m - 1 .. Len(buf) /\ WithoutPreface(buf) = SubSeq(buf, m, Len(buf))
        BY <2>1, <2>3
      <3> HIDE DEF m
      <3>2. WithoutPreface(buf) \in Seq(Tok) /\ Len(WithoutPreface(buf)) = Len(buf) - m + 1 BY <3>1, SubSeqIs
      <3> QED BY <3>2 DEF m
    <2>5. ASSUME NEW T PROVE /\ Has(WithoutPreface(buf), T) => Has(buf, T)
                             /\ One(buf, T) => One(WithoutPreface(buf), T)
      BY <2>1, <2>3, HasSub
    <2>6. Len(WithoutPreface(buf)) <= Len(buf) BY <1>1, <2>4
    <2> QED BY <2>4, <2>5, <2>6
  <1> QED BY <1>2, <1>3

(* A list of all members of a finite set that is as long as the set has     *)
(* members names none twice.                                                *)
LEMMA OrdersAreOnce ==
  ASSUME NEW S, IsFiniteSet(S), NEW q \in Orders(S)
  PROVE  /\ Cardinality(S) \in Nat /\ q \in [1 .. Cardinality(S) -> S]
         /\ \A i, j \in 1 .. Cardinality(S) : q[i] = q[j] => i = j
  <1> DEFINE n == Cardinality(S)
  <1>1. n \in Nat BY FS_CardinalityType
  <1>2. q \in [1 .. n -> S] /\ Range(q) = S BY DEF Orders
  <1> HIDE DEF n
  <1>3. q \in Surjection(1 .. n, S)
    <2>1. \A t \in S : \E s \in 1 .. n : q[s] = t BY <1>2 DEF Range
    <2> QED BY <1>2, <2>1 DEF Surjection
  <1>4. IsFiniteSet(1 .. n) /\ Cardinality(1 .. n) = n
    <2>1. 1 \in Int /\ n \in Int BY <1>1
    <2>2. IsFiniteSet(1 .. n) /\ Cardinality(1 .. n) = IF 1 > n THEN 0 ELSE n - 1 + 1 BY <2>1, FS_Interval
    <2>3. (IF 1 > n THEN 0 ELSE n - 1 + 1) = n BY <1>1
    <2> QED BY <2>2, <2>3
  <1>5. q \in Injection(1 .. n, S)
    BY <1>3, <1>4, FS_SurjSameCardinalityImpliesInj DEF n
  <1>6. \A i, j \in 1 .. n : q[i] = q[j] => i = j BY <1>5 DEF Injection, IsInjective
  <1> QED BY <1>1, <1>2, <1>6 DEF n

(* A stream that is ready has its response's end in the buffer of the       *)
(* responses.                                                               *)
LEMMA ReadyIsMarked ==
  ASSUME NEW s \in Session, ~Has(s.resp, Strange), NEW x \in ReadyStreams(s)
  PROVE  Unsent(s, x)
  <1> DEFINE fs == FramesOf(s.resp)
  <1>1. x \notin s.h2Emitted /\ Complete(fs, x) BY DEF ReadyStreams
  <1>2. PICK i \in DOMAIN fs : fs[i][1].x = x /\ fs[i][1].end BY <1>1 DEF Complete
  <1>3. s.resp \in Seq(Tok) BY DEF Session
  <1>4. PICK k \in DOMAIN s.resp : fs[i][1] = s.resp[k] BY <1>3, FramesAreOfBuffer
  <1>5. s.resp[k] \in Tok BY <1>3
  <1>6. s.resp[k].x = x /\ s.resp[k].end BY <1>2, <1>4
  <1>7. s.resp[k].side = "resp" BY <1>5, <1>6 DEF Has, Strange
  <1>8. s.resp[k] \in RespMark(x) BY <1>5, <1>6, <1>7 DEF RespMark
  <1> QED BY <1>1, <1>8 DEF Has, Unsent

LEMMA DrainH2Is ==
  ASSUME scenario \in Scenario, NEW st, Sound(st), st.h2, NEW res \in drainH2(st)
  PROVE  DrainOK(st, res)
  <1> DEFINE mid == [st EXCEPT !.req = WithoutPreface(@), !.resp = WithoutPreface(@)]
             ready == ReadyStreams(mid)
             new == [mid EXCEPT !.h2Emitted = @ \cup ready]
             n == Cardinality(ready)
  <1>1. st \in Session /\ st.req \in Seq(Tok) /\ st.resp \in Seq(Tok) /\ ~Has(st.resp, Strange)
    BY DEF Sound, Session
  <1>2. PICK q \in Orders(ready) : res = [st |-> new, out |-> [i \in DOMAIN q |-> emitH2Conversation(mid, q[i])]]
    BY DEF drainH2
  <1>3. /\ WithoutPreface(st.req) \in Seq(Tok) /\ Len(WithoutPreface(st.req)) <= Len(st.req)
        /\ \A T : /\ Has(WithoutPreface(st.req), T) => Has(st.req, T)
                  /\ One(st.req, T) => One(WithoutPreface(st.req), T)
        /\ WithoutPreface(st.resp) \in Seq(Tok) /\ Len(WithoutPreface(st.resp)) <= Len(st.resp)
        /\ \A T : /\ Has(WithoutPreface(st.resp), T) => Has(st.resp, T)
                  /\ One(st.resp, T) => One(WithoutPreface(st.resp), T)
    BY <1>1, WithoutPrefaceIs
  <1>4. /\ mid \in Session /\ mid.req = WithoutPreface(st.req) /\ mid.resp = WithoutPreface(st.resp)
        /\ mid.h2Emitted = st.h2Emitted /\ mid.pending = st.pending /\ mid.h2 = st.h2
        /\ mid.gap \in BOOLEAN /\ mid.truncated \in BOOLEAN
    BY <1>1, <1>3 DEF Session
  <1> HIDE DEF mid
  <1>5. ~Has(mid.resp, Strange) BY <1>1, <1>3, <1>4
  <1>6. ready \subseteq 1 .. Len(scenario.conn) /\ Len(scenario.conn) \in Nat
    BY DEF ReadyStreams, Scenario
  <1>7. IsFiniteSet(ready) /\ ready \subseteq Nat
    <2> HIDE DEF ready
    <2>1. IsFiniteSet(1 .. Len(scenario.conn)) BY <1>6, FS_Interval
    <2>2. IsFiniteSet(ready)
      <3> DEFINE all == 1 .. Len(scenario.conn)
      <3>1. IsFiniteSet(all) /\ ready \in SUBSET all BY <1>6, <2>1
      <3> HIDE DEF all
      <3> QED BY <3>1, FS_Subset
    <2> QED BY <1>6, <2>2
  <1>8. \A x \in ready : Unsent(mid, x) BY <1>4, <1>5, ReadyIsMarked
  <1> HIDE DEF ready
  <1>9. n \in Nat /\ q \in [1 .. n -> ready] /\ \A i, j \in 1 .. n : q[i] = q[j] => i = j
    BY <1>7, OrdersAreOnce
  <1> HIDE DEF n
  <1>10. /\ new \in Session /\ new.req = mid.req /\ new.resp = mid.resp /\ new.pending = st.pending
         /\ new.h2Emitted = st.h2Emitted \cup ready /\ new.h2 = st.h2
    BY <1>4, <1>7 DEF Session
  <1> HIDE DEF new
  <1>11. /\ res.st = new /\ res = [st |-> res.st, out |-> res.out]
         /\ res.out = [i \in 1 .. n |-> emitH2Conversation(mid, q[i])]
    BY <1>2, <1>9
  <1>12. \A i \in 1 .. n : res.out[i] \in Conv /\ res.out[i].req = q[i] /\ q[i] \in ready
    <2> SUFFICES ASSUME NEW i \in 1 .. n
                 PROVE  res.out[i] \in Conv /\ res.out[i].req = q[i] /\ q[i] \in ready
      OBVIOUS
    <2>1. q[i] \in Nat /\ q[i] \in ready BY <1>7, <1>9
    <2>2. res.out[i] = emitH2Conversation(mid, q[i]) BY <1>11
    <2> DEFINE w == \A side \in {"req", "resp"} : WholeStream(StreamOf(mid, side, q[i]), side, q[i])
    <2>3. emitH2Conversation(mid, q[i]) = [req |-> q[i], resp |-> q[i], gap |-> mid.gap,
                                           truncated |-> mid.truncated, whole |-> w]
      BY DEF emitH2Conversation
    <2>4. w \in BOOLEAN OBVIOUS
    <2> HIDE DEF w
    <2> QED BY <1>4, <2>1, <2>2, <2>3, <2>4 DEF Conv
  <1>13. res.out \in Seq(Conv) /\ DOMAIN res.out = 1 .. n
    <2>1. DOMAIN res.out = 1 .. n /\ res.out \in [1 .. n -> Conv] BY <1>11, <1>12
    <2> QED BY <1>9, <2>1, FunctionIsSequence
  <1>14. res \in Result BY <1>10, <1>11, <1>13 DEF Result
  <1>15. Sound(res.st) BY <1>1, <1>5, <1>10, <1>11 DEF Sound
  <1>16. ASSUME NEW x PROVE (LoneSt(st, x) => LoneRes(res, x)) /\ (HasRes(res, x) => HasX(st, x))
    <2>1. One(res.out, ConvOf(x)) /\ (Has(res.out, ConvOf(x)) => x \in ready)
      <3>1. \A i \in 1 .. n : res.out[i] \in ConvOf(x) => q[i] = x BY <1>12 DEF ConvOf
      <3>2. One(res.out, ConvOf(x)) BY <1>9, <1>13, <3>1 DEF One
      <3> QED BY <1>12, <1>13, <3>1, <3>2 DEF Has
    <2>2. Unsent(mid, x) => Unsent(st, x) BY <1>3, <1>4 DEF Unsent
    <2>3. Unsent(res.st, x) <=> Unsent(mid, x) /\ x \notin ready BY <1>4, <1>10, <1>11 DEF Unsent
    <2>4. /\ One(st.req, ReqMark(x)) => One(res.st.req, ReqMark(x))
          /\ One(st.resp, RespMark(x)) => One(res.st.resp, RespMark(x))
          /\ Unparsed(res.st, x) => Unparsed(st, x)
      BY <1>3, <1>4, <1>10, <1>11 DEF Unparsed
    <2>5. res.st.pending = st.pending /\ Pends(res.st, x) = Pends(st, x) BY <1>10, <1>11 DEF Pends
    <2>6. x \in ready => Unsent(mid, x) BY <1>8
    <2>7. LoneSt(st, x) => LoneSt(res.st, x) BY <2>2, <2>3, <2>4, <2>5 DEF LoneSt
    <2>8. HasX(res.st, x) => HasX(st, x) BY <2>2, <2>3, <2>4, <2>5 DEF HasX
    <2>9. x \in ready => HasX(st, x) BY <2>2, <2>6 DEF HasX
    <2>10. LoneSt(st, x) /\ x \in ready => ~HasX(res.st, x) BY <2>2, <2>3, <2>4, <2>5, <2>6 DEF LoneSt, HasX
    <2> QED BY <2>1, <2>7, <2>8, <2>9, <2>10 DEF LoneRes, HasRes
  <1>17. \A T : (Has(res.st.req, T) => Has(st.req, T)) /\ (Has(res.st.resp, T) => Has(st.resp, T))
    BY <1>3, <1>4, <1>10, <1>11
  <1>18. Len(res.st.req) <= Len(st.req) /\ Len(res.st.resp) <= Len(st.resp) BY <1>3, <1>4, <1>10, <1>11
  <1> QED BY <1>14, <1>15, <1>16, <1>17, <1>18 DEF DrainOK

LEMMA DrainIs ==
  ASSUME scenario \in Scenario, NEW st, Sound(st), NEW delimited \in BOOLEAN, NEW res \in drainStream(st, delimited)
  PROVE  DrainOK(st, res)
  <1>1. CASE st.h2 BY <1>1, DrainH2Is DEF drainStream
  <1>2. CASE ~st.h2 /\ isH2PrefaceCandidate(st.req)
    <2>1. res = [st |-> st, out |-> <<>>] BY <1>2 DEF drainStream
    <2>2. st \in Session /\ Len(st.req) \in Nat /\ Len(st.resp) \in Nat BY DEF Sound, Session
    <2>3. <<>> \in Seq(Conv) /\ \A T : ~Has(<<>>, T) /\ One(<<>>, T)
      <3>1. DOMAIN <<>> = {} /\ <<>> \in Seq(Conv) OBVIOUS
      <3> QED BY <3>1 DEF Has, One
    <2>4. res \in Result /\ res.st = st /\ res.out = <<>> BY <2>1, <2>2, <2>3 DEF Result
    <2>5. ASSUME NEW x PROVE (LoneSt(st, x) => LoneRes(res, x)) /\ (HasRes(res, x) => HasX(st, x))
      BY <2>3, <2>4 DEF LoneRes, HasRes
    <2>6. Len(st.req) <= Len(st.req) /\ Len(st.resp) <= Len(st.resp) BY <2>2
    <2> QED BY <2>4, <2>5, <2>6 DEF DrainOK
  <1>3. CASE ~st.h2 /\ ~isH2PrefaceCandidate(st.req)
    <2>1. res = drainParsedConversations(st, delimited) BY <1>3 DEF drainStream
    <2> QED BY <1>3, <2>1, DrainParsedIs
  <1> QED BY <1>1, <1>2, <1>3

-----------------------------------------------------------------------------
(* What the connection carries *)

(* a token that one of the classifiers takes for the start of a message *)
Loud == {t \in Tok : t.looks # "none"}

LEMMA TokenIs ==
  ASSUME NEW kind \in {"req", "line", "resp", "respEOF", "body", "preface", "headers", "data", "cipher"},
         NEW side \in {"req", "resp"}, NEW x \in Nat, NEW n \in Nat, NEW looks \in {"req", "resp", "none"}
  PROVE  /\ Token(kind, side, x, n, looks) \in Tok /\ Token(kind, side, x, n, looks).kind = kind
         /\ Token(kind, side, x, n, looks).side = side /\ Token(kind, side, x, n, looks).x = x
         /\ Token(kind, side, x, n, looks).looks = looks /\ ~Token(kind, side, x, n, looks).end
  BY DEF Token, Tok

(* tokens that are neither a request's head nor the end of a stream *)
LEMMA PlainToks ==
  ASSUME NEW n \in Nat, NEW b, b = [i \in 1 .. n |-> b[i]],
         \A i \in 1 .. n : b[i] \in Tok /\ b[i].kind # "req" /\ ~b[i].end
  PROVE  /\ b \in Seq(Tok) /\ DOMAIN b = 1 .. n /\ ~Has(b, Strange)
         /\ \A y : ~Has(b, Mark(y)) /\ One(b, Mark(y))
  <1>1. b \in [1 .. n -> Tok] /\ DOMAIN b = 1 .. n OBVIOUS
  <1>2. b \in Seq(Tok) BY <1>1, FunctionIsSequence
  <1>3. ~Has(b, Strange) BY <1>1 DEF Has, Strange
  <1>4. \A y : \A i \in DOMAIN b : b[i] \notin Mark(y) BY <1>1 DEF Mark, ReqMark, RespMark
  <1> QED BY <1>1, <1>2, <1>3, <1>4 DEF Has, One

LEMMA BodyIs ==
  ASSUME NEW side \in {"req", "resp"}, NEW x \in Nat, NEW len \in Nat, NEW looks \in {"req", "resp", "none"}
  PROVE  /\ Body(side, x, len, looks) \in Seq(Tok) /\ DOMAIN Body(side, x, len, looks) = 1 .. len
         /\ ~Has(Body(side, x, len, looks), Strange)
         /\ \A y : ~Has(Body(side, x, len, looks), Mark(y)) /\ One(Body(side, x, len, looks), Mark(y))
         /\ looks = "none" => ~Has(Body(side, x, len, looks), Loud)
  <1> DEFINE b == Body(side, x, len, looks)
             look(i) == IF i = 1 THEN looks ELSE "none"
  <1>1. \A i \in 1 .. len : b[i] = Token("body", side, x, i, look(i)) BY DEF Body
  <1>2. b = [i \in 1 .. len |-> b[i]] BY DEF Body
  <1>3. \A i \in 1 .. len : b[i] \in Tok /\ b[i].kind = "body" /\ b[i].looks = look(i) /\ ~b[i].end
    <2> SUFFICES ASSUME NEW i \in 1 .. len
                 PROVE  b[i] \in Tok /\ b[i].kind = "body" /\ b[i].looks = look(i) /\ ~b[i].end
      OBVIOUS
    <2> DEFINE t == Token("body", side, x, i, look(i))
    <2>1. i \in Nat /\ look(i) \in {"req", "resp", "none"} OBVIOUS
    <2> HIDE DEF look
    <2>2. t \in Tok /\ t.kind = "body" /\ t.looks = look(i) /\ ~t.end BY <2>1 DEF Token, Tok
    <2>3. b[i] = t BY <1>1
    <2> HIDE DEF t, b
    <2> QED BY <2>2, <2>3
  <1> HIDE DEF b
  <1>4. /\ b \in Seq(Tok) /\ DOMAIN b = 1 .. len /\ ~Has(b, Strange)
        /\ \A y : ~Has(b, Mark(y)) /\ One(b, Mark(y))
    BY <1>2, <1>3, PlainToks
  <1>5. looks = "none" => ~Has(b, Loud) BY <1>3, <1>4 DEF Has, Loud
  <1> QED BY <1>4, <1>5 DEF b

LEMMA RequestRestIs ==
  ASSUME NEW x \in Nat, NEW len \in Nat
  PROVE  /\ RequestRest(x, len) \in Seq(Tok) /\ ~Has(RequestRest(x, len), Strange)
         /\ \A y : ~Has(RequestRest(x, len), Mark(y)) /\ One(RequestRest(x, len), Mark(y))
  <1> DEFINE b == RequestRest(x, len)
             n == len + 1
  <1>1. /\ b = [i \in 1 .. n |-> b[i]] /\ n \in Nat
        /\ \A i \in 1 .. n : \/ b[i] = Token("line", "req", x, i, "resp")
                             \/ b[i] = Token("body", "req", x, i, "none")
    BY DEF RequestRest
  <1>2. \A i \in 1 .. n : i \in Nat OBVIOUS
  <1> HIDE DEF b, n
  <1>3. \A i \in 1 .. n : b[i] \in Tok /\ b[i].kind # "req" /\ ~b[i].end
    <2> SUFFICES ASSUME NEW i \in 1 .. n PROVE b[i] \in Tok /\ b[i].kind # "req" /\ ~b[i].end OBVIOUS
    <2>1. i \in Nat BY <1>2
    <2>2. CASE b[i] = Token("line", "req", x, i, "resp") BY <2>1, <2>2 DEF Token, Tok
    <2>3. CASE b[i] = Token("body", "req", x, i, "none") BY <2>1, <2>3 DEF Token, Tok
    <2> QED BY <1>1, <2>2, <2>3
  <1>4. b \in Seq(Tok) /\ ~Has(b, Strange) /\ \A y : ~Has(b, Mark(y)) /\ One(b, Mark(y))
    BY <1>1, <1>3, PlainToks
  <1> QED BY <1>4 DEF b

LEMMA SingleIs ==
  ASSUME NEW t \in Tok
  PROVE  <<t>> \in Seq(Tok) /\ \A T : One(<<t>>, T) /\ (Has(<<t>>, T) <=> t \in T)
  <1>1. <<t>> \in Seq(Tok) /\ DOMAIN <<t>> = 1 .. 1 /\ <<t>>[1] = t OBVIOUS
  <1>2. \A i \in DOMAIN <<t>> : i = 1 BY <1>1
  <1>3. 1 \in DOMAIN <<t>> BY <1>1
  <1>4. \A T : One(<<t>>, T) BY <1>2 DEF One
  <1>5. \A T : Has(<<t>>, T) <=> t \in T BY <1>1, <1>2, <1>3 DEF Has
  <1> QED BY <1>1, <1>4, <1>5

(* a message or a frame: its first token, and others that are not marks *)
LEMMA HeadedIs ==
  ASSUME NEW t \in Tok, NEW b \in Seq(Tok), \A y : ~Has(b, Mark(y)) /\ One(b, Mark(y))
  PROVE  /\ <<t>> \o b \in Seq(Tok)
         /\ t \notin Strange /\ ~Has(b, Strange) => ~Has(<<t>> \o b, Strange)
         /\ t \notin Loud /\ ~Has(b, Loud) => ~Has(<<t>> \o b, Loud)
         /\ \A y : One(<<t>> \o b, Mark(y)) /\ (Has(<<t>> \o b, Mark(y)) <=> t \in Mark(y))
  <1>1. <<t>> \in Seq(Tok) /\ \A T : One(<<t>>, T) /\ (Has(<<t>>, T) <=> t \in T) BY SingleIs
  <1> DEFINE a == <<t>>
             m == a \o b
  <1>2. /\ m \in Seq(Tok)
        /\ \A T : /\ Has(m, T) <=> Has(a, T) \/ Has(b, T)
                  /\ One(a, T) /\ One(b, T) /\ ~(Has(a, T) /\ Has(b, T)) => One(m, T)
    <2>1. a \in Seq(Tok) BY <1>1
    <2> HIDE DEF a
    <2> QED BY <2>1, HasConcat
  <1>3. a \in Seq(Tok) /\ \A T : One(a, T) /\ (Has(a, T) <=> t \in T) BY <1>1
  <1> HIDE DEF a, m
  <1>4. \A y : One(m, Mark(y)) /\ (Has(m, Mark(y)) <=> t \in Mark(y)) BY <1>2, <1>3
  <1>5. (t \notin Strange /\ ~Has(b, Strange) => ~Has(m, Strange)) /\ (t \notin Loud /\ ~Has(b, Loud) => ~Has(m, Loud))
    BY <1>2, <1>3
  <1> QED BY <1>2, <1>4, <1>5 DEF m, a

LEMMA RequestIs ==
  ASSUME NEW x \in Nat, NEW len \in Nat
  PROVE  /\ Request(x, len) \in Seq(Tok) /\ ~Has(Request(x, len), Strange)
         /\ \A y : One(Request(x, len), Mark(y)) /\ (Has(Request(x, len), Mark(y)) => y = x)
  <1> DEFINE t == Token("req", "req", x, len + 1, "req")
             b == RequestRest(x, len)
             m == <<t>> \o b
  <1>1. Request(x, len) = m BY DEF Request
  <1>2. t \in Tok /\ ~t.end /\ t.x = x BY DEF Token, Tok
  <1>3. b \in Seq(Tok) /\ ~Has(b, Strange) /\ \A y : ~Has(b, Mark(y)) /\ One(b, Mark(y)) BY RequestRestIs
  <1> HIDE DEF t, b
  <1>4. t \notin Strange /\ \A y : t \in Mark(y) => y = x BY <1>2 DEF Strange, Mark, ReqMark, RespMark
  <1>5. /\ m \in Seq(Tok) /\ ~Has(m, Strange)
        /\ \A y : One(m, Mark(y)) /\ (Has(m, Mark(y)) <=> t \in Mark(y))
    BY <1>2, <1>3, <1>4, HeadedIs
  <1> HIDE DEF m
  <1> QED BY <1>1, <1>4, <1>5

LEMMA ResponseIs ==
  ASSUME NEW x \in Nat, NEW len \in Nat, NEW eof \in BOOLEAN, NEW looks \in {"req", "resp", "none"}
  PROVE  /\ Response(x, len, eof, looks) \in Seq(Tok) /\ ~Has(Response(x, len, eof, looks), Strange)
         /\ \A y : ~Has(Response(x, len, eof, looks), Mark(y))
  <1> DEFINE t == Token(IF eof THEN "respEOF" ELSE "resp", "resp", x, len, "resp")
             b == Body("resp", x, len, looks)
             m == <<t>> \o b
  <1>1. Response(x, len, eof, looks) = m BY DEF Response
  <1>2. t \in Tok /\ ~t.end /\ t.kind # "req"
    <2> DEFINE k == IF eof THEN "respEOF" ELSE "resp"
    <2>1. k \in {"respEOF", "resp"} /\ t = Token(k, "resp", x, len, "resp") OBVIOUS
    <2> HIDE DEF k
    <2> QED BY <2>1 DEF Token, Tok
  <1>3. b \in Seq(Tok) /\ ~Has(b, Strange) /\ \A y : ~Has(b, Mark(y)) /\ One(b, Mark(y)) BY BodyIs
  <1> HIDE DEF t, b
  <1>4. t \notin Strange /\ \A y : t \notin Mark(y) BY <1>2 DEF Strange, Mark, ReqMark, RespMark
  <1>5. /\ m \in Seq(Tok) /\ ~Has(m, Strange)
        /\ \A y : Has(m, Mark(y)) <=> t \in Mark(y)
    BY <1>2, <1>3, <1>4, HeadedIs
  <1> HIDE DEF m
  <1> QED BY <1>1, <1>4, <1>5

LEMMA DataFrameIs ==
  ASSUME NEW side \in {"req", "resp"}, NEW x \in Nat, NEW body \in Seq(Tok), NEW end \in BOOLEAN,
         ~Has(body, Strange), \A y : ~Has(body, Mark(y)) /\ One(body, Mark(y))
  PROVE  /\ DataFrame(side, x, body, end) \in Seq(Tok)
         /\ side = "resp" => ~Has(DataFrame(side, x, body, end), Strange)
         /\ ~Has(body, Loud) => ~Has(DataFrame(side, x, body, end), Loud)
         /\ \A y : /\ One(DataFrame(side, x, body, end), Mark(y))
                   /\ Has(DataFrame(side, x, body, end), Mark(y)) => y = x /\ side = "resp" /\ end
  <1> DEFINE t == [Token("data", side, x, Len(body), "none") EXCEPT !.end = end]
             m == <<t>> \o body
  <1>1. DataFrame(side, x, body, end) = m BY DEF DataFrame
  <1>2. t \in Tok /\ t.end = end /\ t.side = side /\ t.x = x /\ t.kind = "data" /\ t.looks = "none"
    <2>1. Len(body) \in Nat OBVIOUS
    <2> QED BY <2>1 DEF Token, Tok
  <1> HIDE DEF t
  <1>3. /\ side = "resp" => t \notin Strange
        /\ t \notin Loud
        /\ \A y : t \in Mark(y) => y = x /\ side = "resp" /\ end
    BY <1>2 DEF Strange, Loud, Mark, ReqMark, RespMark
  <1>4. /\ m \in Seq(Tok)
        /\ t \notin Strange /\ ~Has(body, Strange) => ~Has(m, Strange)
        /\ t \notin Loud /\ ~Has(body, Loud) => ~Has(m, Loud)
        /\ \A y : One(m, Mark(y)) /\ (Has(m, Mark(y)) <=> t \in Mark(y))
    BY <1>2, HeadedIs
  <1> HIDE DEF m
  <1> QED BY <1>1, <1>3, <1>4

LEMMA FramesIs ==
  ASSUME NEW side \in {"req", "resp"}, NEW x \in Nat, NEW len \in Nat, NEW first \in BOOLEAN,
         NEW looks \in {"req", "resp", "none"}
  PROVE  /\ Frames(side, x, len, first, looks) \in Seq(Tok)
         /\ looks = "none" => ~Has(Frames(side, x, len, first, looks), Loud)
         /\ side = "resp" => ~Has(Frames(side, x, len, first, looks), Strange)
         /\ \A y : /\ One(Frames(side, x, len, first, looks), Mark(y))
                   /\ Has(Frames(side, x, len, first, looks), Mark(y)) => y = x /\ side = "resp"
  <1> DEFINE b == Body(side, x, len, looks)
             h == [Token("headers", side, x, 0, "none") EXCEPT !.end = (len = 0), !.index = ~first]
             f == IF len > 1 THEN DataFrame(side, x, SubSeq(b, 1, len - 1), FALSE) ELSE <<>>
             g == IF len > 0 THEN DataFrame(side, x, SubSeq(b, len, len), TRUE) ELSE <<>>
             e == <<h>> \o f
             m == Frames(side, x, len, first, looks)
  <1>1. m = e \o g BY DEF Frames
  <1>2. /\ h \in Tok /\ h.x = x /\ h.side = side /\ h.looks = "none" /\ h.kind = "headers" /\ (h.end <=> len = 0)
    BY DEF Token, Tok
  <1>3. /\ b \in Seq(Tok) /\ DOMAIN b = 1 .. len /\ ~Has(b, Strange) /\ (looks = "none" => ~Has(b, Loud))
        /\ \A y : ~Has(b, Mark(y)) /\ One(b, Mark(y))
    BY BodyIs
  <1> HIDE DEF b
  <1>4. Len(b) = len BY <1>3
  <1>5. DOMAIN <<>> = {} /\ <<>> \in Seq(Tok) OBVIOUS
  <1>6. /\ f \in Seq(Tok) /\ (side = "resp" => ~Has(f, Strange)) /\ (looks = "none" => ~Has(f, Loud))
        /\ \A y : One(f, Mark(y)) /\ ~Has(f, Mark(y))
    <2>1. CASE ~(len > 1) BY <1>5, <2>1 DEF Has, One
    <2>2. CASE len > 1
      <3> DEFINE c == SubSeq(b, 1, len - 1)
      <3>1. 1 \in 1 .. Len(b) + 1 /\ len - 1 \in 1 - 1 .. Len(b) BY <1>4, <2>2
      <3>2. c \in Seq(Tok) BY <1>3, <3>1, SubSeqIs
      <3>3. \A T : (Has(c, T) => Has(b, T)) /\ (One(b, T) => One(c, T))
        <4> SUFFICES ASSUME NEW T PROVE (Has(c, T) => Has(b, T)) /\ (One(b, T) => One(c, T)) OBVIOUS
        <4> QED BY <1>3, <3>1, HasSub
      <3>4. f = DataFrame(side, x, c, FALSE) BY <2>2
      <3> HIDE DEF c, f
      <3>5. ~Has(c, Strange) /\ \A y : ~Has(c, Mark(y)) /\ One(c, Mark(y)) BY <1>3, <3>3
      <3> DEFINE end == FALSE
      <3>6. end \in BOOLEAN /\ ~end /\ f = DataFrame(side, x, c, end) BY <3>4
      <3> HIDE DEF end
      <3>7. /\ f \in Seq(Tok) /\ (side = "resp" => ~Has(f, Strange)) /\ (~Has(c, Loud) => ~Has(f, Loud))
            /\ \A y : One(f, Mark(y)) /\ (Has(f, Mark(y)) => end)
        BY <3>2, <3>5, <3>6, DataFrameIs
      <3> QED BY <1>3, <3>3, <3>6, <3>7
    <2> QED BY <2>1, <2>2
  <1>7. /\ g \in Seq(Tok) /\ (side = "resp" => ~Has(g, Strange)) /\ (looks = "none" => ~Has(g, Loud))
        /\ \A y : One(g, Mark(y)) /\ (Has(g, Mark(y)) => y = x /\ side = "resp" /\ len > 0)
    <2>1. CASE ~(len > 0) BY <1>5, <2>1 DEF Has, One
    <2>2. CASE len > 0
      <3> DEFINE c == SubSeq(b, len, len)
      <3>1. len \in 1 .. Len(b) + 1 /\ len \in len - 1 .. Len(b) BY <1>4, <2>2
      <3>2. c \in Seq(Tok) BY <1>3, <3>1, SubSeqIs
      <3>3. \A T : (Has(c, T) => Has(b, T)) /\ (One(b, T) => One(c, T))
        <4> SUFFICES ASSUME NEW T PROVE (Has(c, T) => Has(b, T)) /\ (One(b, T) => One(c, T)) OBVIOUS
        <4> QED BY <1>3, <3>1, HasSub
      <3>4. g = DataFrame(side, x, c, TRUE) BY <2>2
      <3> HIDE DEF c, g
      <3>5. ~Has(c, Strange) /\ \A y : ~Has(c, Mark(y)) /\ One(c, Mark(y)) BY <1>3, <3>3
      <3>6. TRUE \in BOOLEAN OBVIOUS
      <3>7. /\ g \in Seq(Tok) /\ (side = "resp" => ~Has(g, Strange)) /\ (~Has(c, Loud) => ~Has(g, Loud))
            /\ \A y : One(g, Mark(y)) /\ (Has(g, Mark(y)) => y = x /\ side = "resp")
        BY <3>2, <3>4, <3>5, <3>6, DataFrameIs
      <3> QED BY <1>3, <2>2, <3>3, <3>7
    <2> QED BY <2>1, <2>2
  <1> HIDE DEF h, f, g
  <1>8. /\ h \notin Loud
        /\ side = "resp" => h \notin Strange
        /\ \A y : h \in Mark(y) => y = x /\ side = "resp" /\ len = 0
    BY <1>2 DEF Strange, Mark, ReqMark, RespMark, Loud
  <1>9. /\ e \in Seq(Tok)
        /\ h \notin Strange /\ ~Has(f, Strange) => ~Has(e, Strange)
        /\ h \notin Loud /\ ~Has(f, Loud) => ~Has(e, Loud)
        /\ \A y : One(e, Mark(y)) /\ (Has(e, Mark(y)) <=> h \in Mark(y))
    BY <1>2, <1>6, HeadedIs
  <1> HIDE DEF e, m
  <1>10. /\ m \in Seq(Tok)
         /\ \A T : /\ Has(m, T) <=> Has(e, T) \/ Has(g, T)
                   /\ One(e, T) /\ One(g, T) /\ ~(Has(e, T) /\ Has(g, T)) => One(m, T)
    BY <1>1, <1>7, <1>9, HasConcat
  <1>11. /\ looks = "none" => ~Has(m, Loud)
         /\ side = "resp" => ~Has(m, Strange)
    BY <1>6, <1>7, <1>8, <1>9, <1>10
  <1>12. ASSUME NEW y PROVE One(m, Mark(y)) /\ (Has(m, Mark(y)) => y = x /\ side = "resp")
    <2>1. ~(len = 0 /\ len > 0) OBVIOUS
    <2> QED BY <1>7, <1>8, <1>9, <1>10, <2>1
  <1> QED BY <1>10, <1>11, <1>12 DEF m

LEMMA PrefaceIs ==
  /\ h2Preface \in Seq(Tok) /\ ~Has(h2Preface, Loud)
  /\ \A y : ~Has(h2Preface, Mark(y)) /\ One(h2Preface, Mark(y))
  <1> DEFINE a == Token("preface", "req", 0, 1, "none")
             b == Token("preface", "req", 0, 2, "none")
  <1>1. /\ a \in Tok /\ a.kind = "preface" /\ ~a.end /\ a.looks = "none"
        /\ b \in Tok /\ b.kind = "preface" /\ ~b.end /\ b.looks = "none"
    BY DEF Token, Tok
  <1>2. h2Preface = <<a, b>> BY DEF h2Preface
  <1> HIDE DEF a, b
  <1>3. h2Preface \in Seq(Tok) /\ DOMAIN h2Preface = {1, 2} /\ h2Preface[1] = a /\ h2Preface[2] = b BY <1>1, <1>2
  <1>4. a \notin Loud /\ b \notin Loud /\ \A y : a \notin Mark(y) /\ b \notin Mark(y)
    BY <1>1 DEF Loud, Mark, ReqMark, RespMark
  <1> QED BY <1>3, <1>4 DEF Has, One

(* Each exchange has at most one mark, on one of the two sides. *)
LEMMA SideToksIs ==
  ASSUME NEW s \in Scenario
  PROVE  /\ SideToks(s, "req") \in Seq(Tok) /\ SideToks(s, "resp") \in Seq(Tok)
         /\ ~(Has(SideToks(s, "req"), Strange) /\ Has(SideToks(s, "req"), Loud))
         /\ ~Has(SideToks(s, "resp"), Strange)
         /\ \A y : /\ One(SideToks(s, "req"), Mark(y)) /\ One(SideToks(s, "resp"), Mark(y))
                   /\ ~(Has(SideToks(s, "req"), Mark(y)) /\ Has(SideToks(s, "resp"), Mark(y)))
  <1> DEFINE c == s.conn
             n == Len(s.conn)
             looks(x) == IF s.conn[x].lookalike THEN "req" ELSE "none"
  <1>1. /\ c \in Seq(Exchange) /\ n \in Nat /\ s.h2 \in BOOLEAN
        /\ \A x \in 1 .. n : /\ x \in Nat /\ c[x].req \in Nat /\ c[x].resp \in Nat /\ c[x].eof \in BOOLEAN
                             /\ looks(x) \in {"req", "resp", "none"}
    <2>1. c \in Seq(Exchange) /\ s.h2 \in BOOLEAN BY DEF Scenario
    <2>2. n \in Nat /\ \A x \in 1 .. n : x \in Nat /\ c[x] \in Exchange BY <2>1
    <2> QED BY <2>1, <2>2 DEF Exchange
  <1>2. CASE ~s.h2
    <2> DEFINE rq == [x \in 1 .. n |-> Request(x, c[x].req)]
               rp == [x \in 1 .. n |-> Response(x, c[x].resp, c[x].eof, looks(x))]
    <2>1. SideToks(s, "req") = FlattenSeq(rq) /\ SideToks(s, "resp") = FlattenSeq(rp) BY <1>2 DEF SideToks
    <2>2. /\ DOMAIN rq = 1 .. n /\ DOMAIN rp = 1 .. n
          /\ \A x \in 1 .. n : /\ rq[x] \in Seq(Tok) /\ ~Has(rq[x], Strange)
                               /\ \A y : One(rq[x], Mark(y)) /\ (Has(rq[x], Mark(y)) => y = x)
                               /\ rp[x] \in Seq(Tok) /\ ~Has(rp[x], Strange) /\ \A y : ~Has(rp[x], Mark(y))
      <3> SUFFICES ASSUME NEW x \in 1 .. n
                   PROVE  /\ rq[x] \in Seq(Tok) /\ ~Has(rq[x], Strange)
                          /\ \A y : One(rq[x], Mark(y)) /\ (Has(rq[x], Mark(y)) => y = x)
                          /\ rp[x] \in Seq(Tok) /\ ~Has(rp[x], Strange) /\ \A y : ~Has(rp[x], Mark(y))
        OBVIOUS
      <3> DEFINE a == Request(x, c[x].req)
                 b == Response(x, c[x].resp, c[x].eof, looks(x))
      <3>1. rq[x] = a /\ rp[x] = b OBVIOUS
      <3> HIDE DEF looks, c, n
      <3>2. /\ x \in Nat /\ c[x].req \in Nat /\ c[x].resp \in Nat /\ c[x].eof \in BOOLEAN
            /\ looks(x) \in {"req", "resp", "none"}
        BY <1>1
      <3>3. a \in Seq(Tok) /\ ~Has(a, Strange) /\ \A y : One(a, Mark(y)) /\ (Has(a, Mark(y)) => y = x)
        BY <3>2, RequestIs
      <3>4. b \in Seq(Tok) /\ ~Has(b, Strange) /\ \A y : ~Has(b, Mark(y)) BY <3>2, ResponseIs
      <3> HIDE DEF rq, rp, a, b
      <3> QED BY <3>1, <3>3, <3>4
    <2>3. rq \in [1 .. n -> Seq(Tok)] /\ rp \in [1 .. n -> Seq(Tok)] BY <2>2
    <2> HIDE DEF rq, rp, n, c
    <2>4. rq \in Seq(Seq(Tok)) /\ rp \in Seq(Seq(Tok)) BY <1>1, <2>3, FunctionIsSequence
    <2>5. FlattenSeq(rq) \in Seq(Tok) /\ ~Has(FlattenSeq(rq), Strange) BY <2>2, <2>4, FlattenNone
    <2>6. FlattenSeq(rp) \in Seq(Tok) /\ ~Has(FlattenSeq(rp), Strange) BY <2>2, <2>4, FlattenNone
    <2>7. ASSUME NEW y PROVE One(FlattenSeq(rq), Mark(y)) /\ ~Has(FlattenSeq(rp), Mark(y)) /\ One(FlattenSeq(rp), Mark(y))
      <3>1. \A k \in DOMAIN rq : One(rq[k], Mark(y)) BY <2>2
      <3>2. \A k, l \in DOMAIN rq : Has(rq[k], Mark(y)) /\ Has(rq[l], Mark(y)) => k = l BY <2>2
      <3>3. One(FlattenSeq(rq), Mark(y)) BY <2>4, <3>1, <3>2, FlattenLone
      <3>4. \A k \in DOMAIN rp : ~Has(rp[k], Mark(y)) BY <2>2
      <3>5. ~Has(FlattenSeq(rp), Mark(y)) BY <2>4, <3>4, FlattenNone
      <3> QED BY <3>3, <3>5 DEF Has, One
    <2> QED BY <2>1, <2>5, <2>6, <2>7
  <1>3. CASE s.h2
    <2> DEFINE rq == [i \in 1 .. n |-> Frames("req", i, c[i].req, i = 1, "none")]
               rp == [i \in 1 .. n |-> Frames("resp", n + 1 - i, c[n + 1 - i].resp, i = 1, looks(n + 1 - i))]
    <2>1. SideToks(s, "req") = h2Preface \o FlattenSeq(rq) /\ SideToks(s, "resp") = <<>> \o FlattenSeq(rp)
      BY <1>3 DEF SideToks
    <2>2. /\ DOMAIN rq = 1 .. n /\ DOMAIN rp = 1 .. n
          /\ \A x \in 1 .. n : /\ rq[x] \in Seq(Tok) /\ ~Has(rq[x], Loud) /\ \A y : ~Has(rq[x], Mark(y))
                               /\ rp[x] \in Seq(Tok) /\ ~Has(rp[x], Strange)
                               /\ \A y : One(rp[x], Mark(y)) /\ (Has(rp[x], Mark(y)) => y = n + 1 - x)
      <3> SUFFICES ASSUME NEW x \in 1 .. n
                   PROVE  /\ rq[x] \in Seq(Tok) /\ ~Has(rq[x], Loud) /\ \A y : ~Has(rq[x], Mark(y))
                          /\ rp[x] \in Seq(Tok) /\ ~Has(rp[x], Strange)
                          /\ \A y : One(rp[x], Mark(y)) /\ (Has(rp[x], Mark(y)) => y = n + 1 - x)
        OBVIOUS
      <3> DEFINE z == n + 1 - x
                 first == (x = 1)
                 a == Frames("req", x, c[x].req, first, "none")
                 b == Frames("resp", z, c[z].resp, first, looks(z))
      <3>1. rq[x] = a /\ rp[x] = b OBVIOUS
      <3>2. z \in 1 .. n
        <4> HIDE DEF n
        <4> QED BY <1>1
      <3>3. first \in BOOLEAN OBVIOUS
      <3> HIDE DEF z, first, looks, c, n
      <3>4. /\ x \in Nat /\ c[x].req \in Nat /\ z \in Nat /\ c[z].resp \in Nat /\ looks(z) \in {"req", "resp", "none"}
        BY <1>1, <3>2
      <3>5. a \in Seq(Tok) /\ ~Has(a, Loud) /\ \A y : ~Has(a, Mark(y))
        <4> DEFINE side == "req"
                   none == "none"
        <4>1. /\ side \in {"req", "resp"} /\ side # "resp" /\ none \in {"req", "resp", "none"} /\ none = "none"
              /\ a = Frames(side, x, c[x].req, first, none)
          OBVIOUS
        <4> HIDE DEF side, none, a
        <4>2. /\ a \in Seq(Tok) /\ (none = "none" => ~Has(a, Loud))
              /\ \A y : Has(a, Mark(y)) => side = "resp"
          BY <3>3, <3>4, <4>1, FramesIs
        <4> QED BY <4>1, <4>2
      <3>6. b \in Seq(Tok) /\ ~Has(b, Strange) /\ \A y : One(b, Mark(y)) /\ (Has(b, Mark(y)) => y = z)
        <4> DEFINE side == "resp"
                   len == c[z].resp
                   lk == looks(z)
        <4>1. /\ side \in {"req", "resp"} /\ side = "resp" /\ len \in Nat /\ lk \in {"req", "resp", "none"}
              /\ b = Frames(side, z, len, first, lk)
          BY <3>4
        <4> HIDE DEF side, len, lk, b
        <4>2. /\ b \in Seq(Tok) /\ (side = "resp" => ~Has(b, Strange))
              /\ \A y : One(b, Mark(y)) /\ (Has(b, Mark(y)) => y = z)
          BY <3>3, <3>4, <4>1, FramesIs
        <4> QED BY <4>1, <4>2
      <3> HIDE DEF rq, rp, a, b
      <3> QED BY <3>1, <3>5, <3>6 DEF z
    <2>3. rq \in [1 .. n -> Seq(Tok)] /\ rp \in [1 .. n -> Seq(Tok)] BY <2>2
    <2> HIDE DEF rq, rp, n, c
    <2>4. rq \in Seq(Seq(Tok)) /\ rp \in Seq(Seq(Tok)) BY <1>1, <2>3, FunctionIsSequence
    <2>5. FlattenSeq(rq) \in Seq(Tok) /\ ~Has(FlattenSeq(rq), Loud) BY <2>2, <2>4, FlattenNone
    <2>6. FlattenSeq(rp) \in Seq(Tok) /\ ~Has(FlattenSeq(rp), Strange) BY <2>2, <2>4, FlattenNone
    <2>7. ASSUME NEW y PROVE ~Has(FlattenSeq(rq), Mark(y)) /\ One(FlattenSeq(rp), Mark(y))
      <3>1. \A k \in DOMAIN rp : One(rp[k], Mark(y)) BY <2>2
      <3>2. \A k, l \in DOMAIN rp : Has(rp[k], Mark(y)) /\ Has(rp[l], Mark(y)) => k = l
        <4> SUFFICES ASSUME NEW k \in 1 .. n, NEW l \in 1 .. n, Has(rp[k], Mark(y)), Has(rp[l], Mark(y)) PROVE k = l
          BY <2>2
        <4>1. y = n + 1 - k /\ y = n + 1 - l BY <2>2
        <4> QED BY <1>1, <4>1
      <3>3. One(FlattenSeq(rp), Mark(y)) BY <2>4, <3>1, <3>2, FlattenLone
      <3>4. \A k \in DOMAIN rq : ~Has(rq[k], Mark(y)) BY <2>2
      <3>5. ~Has(FlattenSeq(rq), Mark(y)) BY <2>4, <3>4, FlattenNone
      <3> QED BY <3>3, <3>5
    <2>8. SideToks(s, "resp") = FlattenSeq(rp)
      <3> DEFINE f == FlattenSeq(rp)
      <3>1. f \in Seq(Tok) /\ SideToks(s, "resp") = <<>> \o f BY <2>1, <2>6
      <3> HIDE DEF f
      <3>2. <<>> \o f = f BY <3>1
      <3> QED BY <3>1, <3>2 DEF f
    <2>9. /\ SideToks(s, "req") \in Seq(Tok) /\ ~Has(SideToks(s, "req"), Loud)
          /\ \A y : ~Has(SideToks(s, "req"), Mark(y))
      <3> DEFINE f == FlattenSeq(rq)
      <3>1. f \in Seq(Tok) /\ ~Has(f, Loud) /\ (\A y : ~Has(f, Mark(y))) /\ SideToks(s, "req") = h2Preface \o f
        BY <2>1, <2>5, <2>7
      <3> HIDE DEF f
      <3>2. /\ h2Preface \o f \in Seq(Tok)
            /\ \A T : Has(h2Preface \o f, T) <=> Has(h2Preface, T) \/ Has(f, T)
        BY <3>1, PrefaceIs, HasConcat
      <3> QED BY <3>1, <3>2, PrefaceIs
    <2>10. \A y : One(SideToks(s, "req"), Mark(y)) BY <2>9 DEF Has, One
    <2> QED BY <2>6, <2>7, <2>8, <2>9, <2>10
  <1> QED BY <1>1, <1>2, <1>3

-----------------------------------------------------------------------------
(* What an event does to its session *)

Known == {"none", "remote", "both"}
DataEvents == [type : {"data"}, seq : Nat, dir : {"read", "write"}, toks : Seq(Tok), ssl : BOOLEAN,
               known : Known, cut : BOOLEAN]
CloseEvents == [type : {"close"}, seq : Nat, known : Known]

(* The end of a request's stream is in an event that was read and that has  *)
(* nothing that looks like HTTP/1: it is routed to the requests.  And no    *)
(* mark comes twice.                                                        *)
Calm(e) ==
  /\ Has(e.toks, Strange) => e.dir = "read" /\ ~Has(e.toks, Loud)
  /\ \A x : One(e.toks, Mark(x))

Data == {e \in DataEvents : Calm(e)}
Event == Data \cup CloseEvents

(* between two events no buffer is too long *)
Bounded(st) == Sound(st) /\ Len(st.req) <= MaxStreamTokens /\ Len(st.resp) <= MaxStreamTokens

(* nothing of an exchange is new in st *)
NoMore(old, st) ==
  \A x : /\ LoneSt(old, x) => LoneSt(st, x)
         /\ HasX(st, x) => HasX(old, x)
         /\ InSt(st, x) => InSt(old, x)

LEMMA HasThenIn ==
  ASSUME NEW st, NEW x
  PROVE  HasX(st, x) => InSt(st, x)
  BY DEF HasX, InSt, Unparsed, Unsent, Pends

LEMMA ActiveIs ==
  ASSUME NEW old, Bounded(old), NEW ssl \in BOOLEAN
  PROVE  LET st == [(IF ssl /\ ~old.ssl THEN FirstPlaintext(old) ELSE old) EXCEPT !.stale = FALSE]
         IN Bounded(st) /\ NoMore(old, st)
  <1> DEFINE st == [(IF ssl /\ ~old.ssl THEN FirstPlaintext(old) ELSE old) EXCEPT !.stale = FALSE]
  <1>1. old \in Session /\ Sound(old) /\ Len(old.req) <= MaxStreamTokens /\ Len(old.resp) <= MaxStreamTokens
    BY DEF Bounded, Sound
  <1>2. CASE ~(ssl /\ ~old.ssl)
    <2>1. /\ st \in Session /\ st.req = old.req /\ st.resp = old.resp /\ st.pending = old.pending
          /\ st.h2Emitted = old.h2Emitted /\ st.h2 = old.h2
      BY <1>1, <1>2 DEF Session
    <2> HIDE DEF st
    <2>2. Bounded(st) BY <1>1, <2>1 DEF Bounded, Sound
    <2>3. NoMore(old, st) BY <2>1 DEF NoMore, LoneSt, HasX, InSt, Unparsed, Unsent, Pends
    <2> QED BY <2>2, <2>3 DEF st
  <1>3. CASE ssl /\ ~old.ssl
    <2>1. <<>> \in Seq(Tok) /\ <<>> \in Seq(Parsed) /\ DOMAIN <<>> = {} OBVIOUS
    <2>2. /\ st \in Session /\ st.req = <<>> /\ st.resp = <<>> /\ st.pending = <<>>
          /\ st.h2Emitted = {} /\ st.h2 = FALSE
      BY <1>1, <1>3, <2>1 DEF Session, FirstPlaintext
    <2> HIDE DEF st
    <2>3. \A T : ~Has(<<>>, T) /\ One(<<>>, T) BY <2>1 DEF Has, One
    <2>4. Len(<<>>) <= MaxStreamTokens BY LimitsAssumption
    <2>5. Bounded(st) BY <1>1, <2>2, <2>3, <2>4 DEF Bounded, Sound
    <2>6. NoMore(old, st) BY <2>2, <2>3 DEF NoMore, LoneSt, HasX, InSt, Unparsed, Unsent, Pends
    <2> QED BY <2>5, <2>6 DEF st
  <1> QED BY <1>2, <1>3

LEMMA TouchIs ==
  ASSUME NEW st \in Session, NEW ev \in DataEvents
  PROVE  /\ Touch(st, ev) \in Session /\ Touch(st, ev).req = st.req /\ Touch(st, ev).resp = st.resp
         /\ Touch(st, ev).pending = st.pending /\ Touch(st, ev).h2 = st.h2
         /\ Touch(st, ev).h2Emitted = st.h2Emitted
  <1>1. ev.seq \in Nat /\ ev.cut \in BOOLEAN /\ st.seq \in Nat /\ st.gap \in BOOLEAN /\ st.truncated \in BOOLEAN
    BY DEF DataEvents, Session
  <1> DEFINE g == st.gap \/ (st.hasSeq /\ ev.seq > st.seq + 1)
             t == st.truncated \/ ev.cut
             q == IF ~st.hasSeq \/ ev.seq >= st.seq THEN ev.seq ELSE st.seq
  <1>2. g \in BOOLEAN /\ t \in BOOLEAN /\ q \in Nat BY <1>1
  <1>3. Touch(st, ev) = [st EXCEPT !.gap = g, !.truncated = t, !.seq = q, !.hasSeq = TRUE] BY DEF Touch
  <1> HIDE DEF g, t, q
  <1> QED BY <1>2, <1>3 DEF Session

(* An event that is not taken for a request has no end of a request's       *)
(* stream.                                                                  *)
LEMMA RoutedIsCalm ==
  ASSUME NEW ev \in Data, ~RouteAsRequest(ev)
  PROVE  ~Has(ev.toks, Strange)
  <1>1. ev.toks \in Seq(Tok) /\ Calm(ev) BY DEF Data, DataEvents
  <1>2. SUFFICES ASSUME Has(ev.toks, Strange) PROVE FALSE OBVIOUS
  <1>3. ~Has(ev.toks, Loud) /\ ev.dir = "read" BY <1>1, <1>2 DEF Calm
  <1> DEFINE r == FirstLooking(ev.toks, "req")
             s == FirstLooking(ev.toks, "resp")
  <1>4. /\ r <= Len(ev.toks) => r \in DOMAIN ev.toks /\ ev.toks[r].looks = "req"
        /\ s <= Len(ev.toks) => s \in DOMAIN ev.toks /\ ev.toks[s].looks = "resp"
    <2>1. r \in 1 .. Len(ev.toks) + 1 /\ (r <= Len(ev.toks) => ev.toks[r].looks = "req") BY <1>1, FirstLookingIs
    <2>2. s \in 1 .. Len(ev.toks) + 1 /\ (s <= Len(ev.toks) => ev.toks[s].looks = "resp") BY <1>1, FirstLookingIs
    <2>3. DOMAIN ev.toks = 1 .. Len(ev.toks) /\ Len(ev.toks) \in Nat BY <1>1
    <2> HIDE DEF r, s
    <2> QED BY <2>1, <2>2, <2>3
  <1>5. classifyPayload(ev.toks) = IF r <= Len(ev.toks) /\ r < s THEN "req" ELSE IF s <= Len(ev.toks) THEN "resp" ELSE "none"
    BY DEF classifyPayload
  <1> HIDE DEF r, s
  <1>6. \A i \in DOMAIN ev.toks : ev.toks[i].looks = "none"
    <2>1. \A i \in DOMAIN ev.toks : ev.toks[i] \in Tok BY <1>1
    <2> QED BY <1>3, <2>1 DEF Has, Loud
  <1>7. classifyPayload(ev.toks) = "none" BY <1>4, <1>5, <1>6
  <1> QED BY <1>3, <1>7 DEF RouteAsRequest

LEMMA MarkParts ==
  ASSUME NEW toks, NEW x
  PROVE  /\ Has(toks, ReqMark(x)) => Has(toks, Mark(x))
         /\ Has(toks, RespMark(x)) => Has(toks, Mark(x))
         /\ One(toks, Mark(x)) => One(toks, ReqMark(x)) /\ One(toks, RespMark(x))
  BY DEF Has, One, Mark

(* Of x the session then has what it had, and what the event brings. *)
LEMMA RouteIs ==
  ASSUME NEW st, Sound(st), NEW ev \in Data
  PROVE  /\ Sound(Route(st, ev))
         /\ \A x : /\ LoneSt(st, x) /\ One(ev.toks, Mark(x)) /\ ~(Has(ev.toks, Mark(x)) /\ InSt(st, x))
                        => LoneSt(Route(st, ev), x)
                   /\ HasX(Route(st, ev), x) => HasX(st, x) \/ Has(ev.toks, Mark(x))
                   /\ InSt(Route(st, ev), x) => InSt(st, x) \/ Has(ev.toks, Mark(x))
  <1> DEFINE nx == Route(st, ev)
  <1>1. /\ st \in Session /\ st.req \in Seq(Tok) /\ st.resp \in Seq(Tok) /\ ~Has(st.resp, Strange)
        /\ ev.toks \in Seq(Tok)
    BY DEF Sound, Session, Data, DataEvents
  <1>2. CASE ~RouteAsRequest(ev)
    <2>1. nx = [st EXCEPT !.resp = @ \o ev.toks] BY <1>2 DEF Route
    <2>2. /\ st.resp \o ev.toks \in Seq(Tok)
          /\ \A T : /\ Has(st.resp \o ev.toks, T) <=> Has(st.resp, T) \/ Has(ev.toks, T)
                    /\ One(st.resp, T) /\ One(ev.toks, T) /\ ~(Has(st.resp, T) /\ Has(ev.toks, T))
                         => One(st.resp \o ev.toks, T)
      BY <1>1, HasConcat
    <2> HIDE DEF nx
    <2>3. /\ nx \in Session /\ nx.resp = st.resp \o ev.toks /\ nx.req = st.req /\ nx.pending = st.pending
          /\ nx.h2Emitted = st.h2Emitted
      BY <1>1, <2>1, <2>2 DEF Session
    <2>4. ~Has(ev.toks, Strange) BY <1>2, RoutedIsCalm
    <2>5. Sound(nx) BY <1>1, <2>2, <2>3, <2>4 DEF Sound
    <2>6. \A T : /\ Has(nx.resp, T) <=> Has(st.resp, T) \/ Has(ev.toks, T)
                 /\ One(st.resp, T) /\ One(ev.toks, T) /\ ~(Has(st.resp, T) /\ Has(ev.toks, T)) => One(nx.resp, T)
      BY <2>2, <2>3
    <2>7. ASSUME NEW x
          PROVE  /\ LoneSt(st, x) /\ One(ev.toks, Mark(x)) /\ ~(Has(ev.toks, Mark(x)) /\ InSt(st, x)) => LoneSt(nx, x)
                 /\ HasX(nx, x) => HasX(st, x) \/ Has(ev.toks, Mark(x))
                 /\ InSt(nx, x) => InSt(st, x) \/ Has(ev.toks, Mark(x))
      <3>1. /\ Unparsed(nx, x) = Unparsed(st, x) /\ Pends(nx, x) = Pends(st, x)
            /\ Unsent(nx, x) => Unsent(st, x) \/ Has(ev.toks, RespMark(x))
        BY <2>3, <2>6 DEF Unparsed, Unsent, Pends
      <3>2. ~InSt(st, x) => ~Unparsed(st, x) /\ ~Pends(st, x) /\ ~Has(st.resp, RespMark(x))
        BY DEF InSt, Unparsed, Pends
      <3>3. InSt(nx, x) => InSt(st, x) \/ Has(ev.toks, RespMark(x)) BY <2>3, <2>6 DEF InSt
      <3> QED BY <2>3, <2>6, <3>1, <3>2, <3>3, MarkParts DEF LoneSt, HasX
    <2> QED BY <2>5, <2>7 DEF nx
  <1>3. CASE RouteAsRequest(ev)
    <2>1. nx = [st EXCEPT !.req = @ \o ev.toks] BY <1>3 DEF Route
    <2>2. /\ st.req \o ev.toks \in Seq(Tok)
          /\ \A T : /\ Has(st.req \o ev.toks, T) <=> Has(st.req, T) \/ Has(ev.toks, T)
                    /\ One(st.req, T) /\ One(ev.toks, T) /\ ~(Has(st.req, T) /\ Has(ev.toks, T)) => One(st.req \o ev.toks, T)
      BY <1>1, HasConcat
    <2> HIDE DEF nx
    <2>3. /\ nx \in Session /\ nx.req = st.req \o ev.toks /\ nx.resp = st.resp /\ nx.pending = st.pending
          /\ nx.h2Emitted = st.h2Emitted
      BY <1>1, <2>1, <2>2 DEF Session
    <2>4. Sound(nx) BY <1>1, <2>3 DEF Sound
    <2>5. \A T : /\ Has(nx.req, T) <=> Has(st.req, T) \/ Has(ev.toks, T)
                 /\ One(st.req, T) /\ One(ev.toks, T) /\ ~(Has(st.req, T) /\ Has(ev.toks, T)) => One(nx.req, T)
      BY <2>2, <2>3
    <2>6. ASSUME NEW x
          PROVE  /\ LoneSt(st, x) /\ One(ev.toks, Mark(x)) /\ ~(Has(ev.toks, Mark(x)) /\ InSt(st, x)) => LoneSt(nx, x)
                 /\ HasX(nx, x) => HasX(st, x) \/ Has(ev.toks, Mark(x))
                 /\ InSt(nx, x) => InSt(st, x) \/ Has(ev.toks, Mark(x))
      <3>1. /\ Unsent(nx, x) = Unsent(st, x) /\ Pends(nx, x) = Pends(st, x)
            /\ Unparsed(nx, x) => Unparsed(st, x) \/ Has(ev.toks, ReqMark(x))
        BY <2>3, <2>5 DEF Unparsed, Unsent, Pends
      <3>2. ~InSt(st, x) => ~Unsent(st, x) /\ ~Pends(st, x) /\ ~Has(st.req, ReqMark(x))
        BY DEF InSt, Unsent, Pends
      <3>3. InSt(nx, x) => InSt(st, x) \/ Has(ev.toks, ReqMark(x)) BY <2>3, <2>5 DEF InSt
      <3> QED BY <2>3, <2>5, <3>1, <3>2, <3>3, MarkParts DEF LoneSt, HasX
    <2> QED BY <2>4, <2>6 DEF nx
  <1> QED BY <1>2, <1>3

LEMMA OverflowedIs ==
  ASSUME NEW st, Sound(st)
  PROVE  Bounded(Overflowed(st)) /\ NoMore(st, Overflowed(st))
  <1> DEFINE q == IF Len(st.req) > MaxStreamTokens THEN <<>> ELSE st.req
             r == IF Len(st.resp) > MaxStreamTokens THEN <<>> ELSE st.resp
             nx == Overflowed(st)
  <1>1. /\ st \in Session /\ st.req \in Seq(Tok) /\ st.resp \in Seq(Tok) /\ ~Has(st.resp, Strange)
        /\ Len(st.req) \in Nat /\ Len(st.resp) \in Nat
    BY DEF Sound, Session
  <1>2. nx = [st EXCEPT !.req = q, !.resp = r, !.pending = <<>>] BY DEF Overflowed
  <1>3. <<>> \in Seq(Tok) /\ <<>> \in Seq(Parsed) /\ Len(<<>>) = 0 /\ DOMAIN <<>> = {} OBVIOUS
  <1>4. \A T : ~Has(<<>>, T) /\ One(<<>>, T) BY <1>3 DEF Has, One
  <1>5. /\ q \in Seq(Tok) /\ r \in Seq(Tok) /\ Len(q) <= MaxStreamTokens /\ Len(r) <= MaxStreamTokens
        /\ q = st.req \/ q = <<>>
        /\ r = st.resp \/ r = <<>>
    BY <1>1, <1>3, LimitsAssumption
  <1> HIDE DEF q, r, nx
  <1>6. /\ nx \in Session /\ nx.req = q /\ nx.resp = r /\ nx.pending = <<>> /\ nx.h2Emitted = st.h2Emitted
        /\ nx.h2 = st.h2
    BY <1>1, <1>2, <1>3, <1>5 DEF Session
  <1>7. \A T : /\ (Has(q, T) => Has(st.req, T)) /\ (One(st.req, T) => One(q, T))
              /\ (Has(r, T) => Has(st.resp, T)) /\ (One(st.resp, T) => One(r, T))
    BY <1>4, <1>5
  <1>8. Bounded(nx) BY <1>1, <1>5, <1>6, <1>7 DEF Bounded, Sound
  <1>9. NoMore(st, nx) BY <1>4, <1>6, <1>7 DEF NoMore, LoneSt, HasX, InSt, Unparsed, Unsent, Pends
  <1> QED BY <1>8, <1>9 DEF nx

LEMMA DetectH2Is ==
  ASSUME NEW st, Sound(st)
  PROVE  /\ Sound(DetectH2(st)) /\ NoMore(st, DetectH2(st))
         /\ DetectH2(st).req = st.req /\ DetectH2(st).resp = st.resp
  <1> DEFINE nx == DetectH2(st)
             h == st.h2 \/ HasPreface(st.req) \/ HasPreface(st.resp)
  <1>1. st \in Session /\ ~Has(st.resp, Strange) BY DEF Sound
  <1>2. h \in BOOLEAN BY <1>1 DEF Session
  <1>3. nx = [st EXCEPT !.h2 = h] BY DEF DetectH2
  <1> HIDE DEF nx, h
  <1>4. /\ nx \in Session /\ nx.req = st.req /\ nx.resp = st.resp /\ nx.pending = st.pending
        /\ nx.h2Emitted = st.h2Emitted /\ nx.h2 = h
    BY <1>1, <1>2, <1>3 DEF Session
  <1>5. Sound(nx) BY <1>1, <1>2, <1>4 DEF Sound
  <1>6. NoMore(st, nx) BY <1>4 DEF NoMore, LoneSt, HasX, InSt, Unparsed, Unsent, Pends
  <1> QED BY <1>4, <1>5, <1>6 DEF nx

(* what a drain of a bounded session returns *)
LEMMA DrainBounded ==
  ASSUME scenario \in Scenario, NEW st, Bounded(st), NEW delimited \in BOOLEAN, NEW res \in drainStream(st, delimited)
  PROVE  Bounded(res.st) /\ DrainOK(st, res)
  <1>1. Sound(st) /\ Len(st.req) <= MaxStreamTokens /\ Len(st.resp) <= MaxStreamTokens BY DEF Bounded
  <1>2. DrainOK(st, res) BY <1>1, DrainIs
  <1>3. /\ Sound(res.st) /\ Len(res.st.req) <= Len(st.req) /\ Len(res.st.resp) <= Len(st.resp)
        /\ res.st \in Session /\ st \in Session
    BY <1>1, <1>2 DEF DrainOK, Sound
  <1>4. Len(res.st.req) \in Nat /\ Len(res.st.resp) \in Nat /\ Len(st.req) \in Nat /\ Len(st.resp) \in Nat
    BY <1>3 DEF Session
  <1>5. MaxStreamTokens \in Nat BY LimitsAssumption
  <1>6. Len(res.st.req) <= MaxStreamTokens /\ Len(res.st.resp) <= MaxStreamTokens BY <1>1, <1>3, <1>4, <1>5
  <1> QED BY <1>2, <1>3, <1>6 DEF Bounded

LEMMA DrainedIn ==
  ASSUME NEW st, NEW res, DrainOK(st, res), NEW x
  PROVE  InSt(res.st, x) => InSt(st, x)
  <1>1. /\ Has(res.st.req, ReqMark(x)) => Has(st.req, ReqMark(x))
        /\ Has(res.st.resp, RespMark(x)) => Has(st.resp, RespMark(x))
        /\ HasRes(res, x) => HasX(st, x)
    BY DEF DrainOK
  <1>2. Has(res.st.pending, PendOf(x)) => HasRes(res, x) BY DEF HasRes, HasX, Pends
  <1>3. HasX(st, x) => InSt(st, x) BY HasThenIn
  <1> QED BY <1>1, <1>2, <1>3 DEF InSt

(* what an event of its own may make of a session *)
DeliverOK(old, toks, res) ==
  /\ Bounded(res.st) /\ res.out \in Seq(Conv)
  /\ \A x : /\ LoneSt(old, x) /\ One(toks, Mark(x)) /\ ~(Has(toks, Mark(x)) /\ InSt(old, x)) => LoneRes(res, x)
            /\ HasRes(res, x) => HasX(old, x) \/ Has(toks, Mark(x))
            /\ InSt(res.st, x) => InSt(old, x) \/ Has(toks, Mark(x))

LEMMA ProcessedIs ==
  ASSUME scenario \in Scenario, NEW old, Bounded(old), NEW ev \in Data, NEW r \in Processed(old, ev)
  PROVE  DeliverOK(old, ev.toks, r)
  <1> DEFINE st == [(IF ev.ssl /\ ~old.ssl THEN FirstPlaintext(old) ELSE old) EXCEPT !.stale = FALSE]
             tc == Touch(st, ev)
             rt == Route(tc, ev)
             toks == ev.toks
  <1>1. Bounded(st) /\ NoMore(old, st)
    <2>1. ev.ssl \in BOOLEAN BY DEF Data, DataEvents
    <2> QED BY <2>1, ActiveIs
  <1>2. \/ r = [st |-> st, out |-> <<>>, overflow |-> FALSE]
        \/ Overflows(rt) /\ r = [st |-> Overflowed(rt), out |-> <<>>, overflow |-> TRUE]
        \/ ~Overflows(rt) /\ \E d \in drainStream(DetectH2(rt), FALSE) : r = [st |-> d.st, out |-> d.out, overflow |-> FALSE]
    BY DEF Processed
  <1> HIDE DEF st
  <1>3. /\ tc \in Session /\ tc.req = st.req /\ tc.resp = st.resp /\ tc.pending = st.pending /\ tc.h2 = st.h2
        /\ tc.h2Emitted = st.h2Emitted
    <2>1. st \in Session /\ ev \in DataEvents BY <1>1 DEF Bounded, Sound, Data
    <2> QED BY <2>1, TouchIs
  <1> HIDE DEF tc
  <1>4. Sound(tc) /\ NoMore(st, tc)
    <2>1. Sound(tc) BY <1>1, <1>3 DEF Bounded, Sound
    <2>2. NoMore(st, tc) BY <1>3 DEF NoMore, LoneSt, HasX, InSt, Unparsed, Unsent, Pends
    <2> QED BY <2>1, <2>2
  <1>5. /\ Sound(rt)
        /\ \A x : /\ LoneSt(tc, x) /\ One(toks, Mark(x)) /\ ~(Has(toks, Mark(x)) /\ InSt(tc, x)) => LoneSt(rt, x)
                  /\ HasX(rt, x) => HasX(tc, x) \/ Has(toks, Mark(x))
                  /\ InSt(rt, x) => InSt(tc, x) \/ Has(toks, Mark(x))
    BY <1>4, RouteIs
  <1> HIDE DEF rt
  <1>6. ASSUME NEW x
        PROVE  /\ LoneSt(old, x) /\ One(toks, Mark(x)) /\ ~(Has(toks, Mark(x)) /\ InSt(old, x)) => LoneSt(rt, x)
               /\ HasX(rt, x) => HasX(old, x) \/ Has(toks, Mark(x))
               /\ InSt(rt, x) => InSt(old, x) \/ Has(toks, Mark(x))
    <2>1. /\ LoneSt(old, x) => LoneSt(tc, x)
          /\ HasX(tc, x) => HasX(old, x)
          /\ InSt(tc, x) => InSt(old, x)
      BY <1>1, <1>4 DEF NoMore
    <2> QED BY <1>5, <2>1
  <1>7. <<>> \in Seq(Conv) /\ \A T : ~Has(<<>>, T) /\ One(<<>>, T)
    <2>1. DOMAIN <<>> = {} /\ <<>> \in Seq(Conv) OBVIOUS
    <2> QED BY <2>1 DEF Has, One
  <1>8. CASE r = [st |-> st, out |-> <<>>, overflow |-> FALSE]
    <2>1. r.st = st /\ r.out = <<>> BY <1>8
    <2>2. \A x : (LoneSt(old, x) => LoneRes(r, x)) /\ (HasRes(r, x) => HasX(old, x)) /\ (InSt(r.st, x) => InSt(old, x))
      BY <1>1, <1>7, <2>1 DEF NoMore, LoneRes, HasRes
    <2> QED BY <1>1, <1>7, <2>1, <2>2 DEF DeliverOK
  <1>9. CASE Overflows(rt) /\ r = [st |-> Overflowed(rt), out |-> <<>>, overflow |-> TRUE]
    <2> DEFINE o == Overflowed(rt)
    <2>1. Bounded(o) /\ NoMore(rt, o) BY <1>5, OverflowedIs
    <2>2. r.st = o /\ r.out = <<>> BY <1>9
    <2> HIDE DEF o
    <2>3. \A x : (LoneSt(rt, x) => LoneRes(r, x)) /\ (HasRes(r, x) => HasX(rt, x)) /\ (InSt(r.st, x) => InSt(rt, x))
      BY <1>7, <2>1, <2>2 DEF NoMore, LoneRes, HasRes
    <2> QED BY <1>6, <1>7, <2>1, <2>2, <2>3 DEF DeliverOK
  <1>10. CASE ~Overflows(rt) /\ \E d \in drainStream(DetectH2(rt), FALSE) : r = [st |-> d.st, out |-> d.out, overflow |-> FALSE]
    <2> DEFINE o == DetectH2(rt)
    <2>1. PICK d \in drainStream(o, FALSE) : r = [st |-> d.st, out |-> d.out, overflow |-> FALSE] BY <1>10
    <2>2. Sound(o) /\ NoMore(rt, o) /\ o.req = rt.req /\ o.resp = rt.resp BY <1>5, DetectH2Is
    <2>3. r.st = d.st /\ r.out = d.out BY <2>1
    <2> HIDE DEF o
    <2>4. Bounded(o)
      <3>1. rt.req \in Seq(Tok) /\ rt.resp \in Seq(Tok) BY <1>5 DEF Sound, Session
      <3>2. Len(rt.req) <= MaxStreamTokens /\ Len(rt.resp) <= MaxStreamTokens
        <4>1. Len(rt.req) \in Nat /\ Len(rt.resp) \in Nat BY <3>1
        <4>2. ~(Len(rt.req) > MaxStreamTokens) /\ ~(Len(rt.resp) > MaxStreamTokens) BY <1>10 DEF Overflows
        <4>3. MaxStreamTokens \in Nat BY LimitsAssumption
        <4> QED BY <4>1, <4>2, <4>3
      <3> QED BY <2>2, <3>2 DEF Bounded
    <2>5. Bounded(d.st) /\ DrainOK(o, d) BY <2>4, DrainBounded
    <2>6. d.out \in Seq(Conv) BY <2>5 DEF DrainOK, Result
    <2>7. \A x : InSt(d.st, x) => InSt(o, x) BY <2>5, DrainedIn
    <2>8. ASSUME NEW x
          PROVE  (LoneSt(rt, x) => LoneRes(r, x)) /\ (HasRes(r, x) => HasX(rt, x)) /\ (InSt(r.st, x) => InSt(rt, x))
      <3>1. (LoneSt(rt, x) => LoneSt(o, x)) /\ (HasX(o, x) => HasX(rt, x)) /\ (InSt(r.st, x) => InSt(rt, x))
        BY <2>2, <2>3, <2>7 DEF NoMore
      <3>2. (LoneSt(o, x) => LoneRes(d, x)) /\ (HasRes(d, x) => HasX(o, x)) BY <2>5 DEF DrainOK
      <3>3. (LoneRes(d, x) <=> LoneRes(r, x)) /\ (HasRes(d, x) <=> HasRes(r, x)) BY <2>3 DEF LoneRes, HasRes
      <3> QED BY <3>1, <3>2, <3>3
    <2> QED BY <1>6, <2>3, <2>5, <2>6, <2>7, <2>8 DEF DeliverOK
  <1> QED BY <1>2, <1>8, <1>9, <1>10

-----------------------------------------------------------------------------
(* The types of the variables *)

ConnTypes ==
  /\ scenario \in Scenarios /\ closed \in BOOLEAN /\ nextSeq \in Nat
  /\ left \in [{"req", "resp"} -> Seq(Tok)]
  /\ ~(Has(left.req, Strange) /\ Has(left.req, Loud)) /\ ~Has(left.resp, Strange)
  /\ \A x : /\ One(left.req, Mark(x)) /\ One(left.resp, Mark(x))
            /\ ~(Has(left.req, Mark(x)) /\ Has(left.resp, Mark(x)))
  /\ libssl \in [todo : Seq({"req", "resp"}), probed : SUBSET {"req", "resp"}] /\ tuple \in Known

ShardState == [pc : {"read", "send", "done"}, ev : Event \cup {NoEvent}]

PathTypes ==
  /\ flow \in {"none", "allow", "deny"} /\ main \in {"run", "stop", "close", "exit"}
  /\ rings \in [Shards -> Seq(Event)] /\ \A s \in Shards : Len(rings[s]) <= MaxRing
  /\ shard \in [Shards -> ShardState]
  /\ \A s \in Shards : /\ shard[s].pc = "send" => shard[s].ev \in Event
                       /\ main \in {"close", "exit"} => shard[s].pc = "done"
  /\ channel \in Seq(Event) /\ Len(channel) <= ChannelSize

ConsumerTypes ==
  /\ consumer \in [pc : {"receive", "find", "lock", "emit", "remove", "done"}, ev : Event \cup {NoEvent},
                   sid : 0 .. fresh, out : Seq(Conv)]
  /\ consumer.pc \in {"find", "lock", "emit", "remove"} => consumer.ev \in Event
  /\ consumer.pc \in {"lock", "emit", "remove"} => consumer.sid # 0
  /\ consumer.pc = "emit" <=> consumer.out # <<>>

CleanerTypes ==
  /\ cleaner \in [pc : {"tick", "check", "drain", "emit", "done"}, sid : 0 .. fresh, out : Seq(Conv)]
  /\ cleaner.pc \in {"check", "drain", "emit"} => cleaner.sid # 0
  /\ cleaner.pc = "emit" <=> cleaner.out # <<>>

StoreTypes ==
  /\ fresh \in 0 .. MaxSessions /\ current \in 0 .. fresh
  /\ heap \in [1 .. MaxSessions -> Session] /\ \A i \in 1 .. MaxSessions : Bounded(heap[i])
  /\ emitted \in Seq(Conv)

Types == ConnTypes /\ PathTypes /\ ConsumerTypes /\ CleanerTypes /\ StoreTypes

-----------------------------------------------------------------------------
(* Where exchange x is: not yet captured, in an event in a ring, with a      *)
(* reader, in the channel or with the consumer, in a session, or in a       *)
(* conversation.  It is in one place and there only once.                   *)
EvWith(x) == {e \in Data : Has(e.toks, Mark(x))}

InLeft(x) == Has(left.req, Mark(x)) \/ Has(left.resp, Mark(x))
InRings(x) == \E s \in Shards : Has(rings[s], EvWith(x))
Sends(s, x) == shard[s].pc = "send" /\ shard[s].ev \in EvWith(x)
InSends(x) == \E s \in Shards : Sends(s, x)
InChannel(x) == Has(channel, EvWith(x))
InHand(x) == consumer.pc \in {"find", "lock"} /\ consumer.ev \in EvWith(x)
InHeap(x) == \E i \in 1 .. MaxSessions : InSt(heap[i], x)
LiveInHeap(x) == \E i \in 1 .. MaxSessions : HasX(heap[i], x)
InOut(x) == Has(consumer.out, ConvOf(x))
InCleanerOut(x) == Has(cleaner.out, ConvOf(x))
InEmitted(x) == Has(emitted, ConvOf(x))

OncePath(x) ==
  /\ \A s \in Shards : One(rings[s], EvWith(x))
  /\ \A r, s \in Shards : Has(rings[r], EvWith(x)) /\ Has(rings[s], EvWith(x)) => r = s
  /\ \A r, s \in Shards : Sends(r, x) /\ Sends(s, x) => r = s
  /\ One(channel, EvWith(x))

OnceHeap(x) ==
  /\ \A i \in 1 .. MaxSessions : LoneSt(heap[i], x)
  /\ \A i, j \in 1 .. MaxSessions : InSt(heap[i], x) /\ InSt(heap[j], x) => i = j

OnceOut(x) == One(consumer.out, ConvOf(x)) /\ One(cleaner.out, ConvOf(x)) /\ One(emitted, ConvOf(x))

Out(x) == InOut(x) \/ InCleanerOut(x) \/ InEmitted(x)

OnePlace(x) ==
  /\ InLeft(x) => ~InRings(x) /\ ~InSends(x) /\ ~InChannel(x) /\ ~InHand(x) /\ ~InHeap(x) /\ ~Out(x)
  /\ InRings(x) => ~InSends(x) /\ ~InChannel(x) /\ ~InHand(x) /\ ~InHeap(x) /\ ~Out(x)
  /\ InSends(x) => ~InChannel(x) /\ ~InHand(x) /\ ~InHeap(x) /\ ~Out(x)
  /\ InChannel(x) => ~InHand(x) /\ ~InHeap(x) /\ ~Out(x)
  /\ InHand(x) => ~InHeap(x) /\ ~Out(x)
  /\ LiveInHeap(x) => ~Out(x)
  /\ InOut(x) => ~InCleanerOut(x) /\ ~InEmitted(x)
  /\ InCleanerOut(x) => ~InEmitted(x)

Alone(x) == OncePath(x) /\ OnceHeap(x) /\ OnceOut(x) /\ OnePlace(x)

CInv == Types /\ \A x : Alone(x)

LEMMA NothingIs == <<>> \in Seq(Tok) /\ <<>> \in Seq(Parsed) /\ <<>> \in Seq(Conv) /\ <<>> \in Seq(Event)
                   /\ Len(<<>>) = 0 /\ \A T : ~Has(<<>>, T) /\ One(<<>>, T)
  <1>1. <<>> \in Seq(Tok) /\ <<>> \in Seq(Parsed) /\ <<>> \in Seq(Conv) /\ <<>> \in Seq(Event) OBVIOUS
  <1>2. Len(<<>>) = 0 /\ DOMAIN <<>> = {} OBVIOUS
  <1>3. \A T : ~Has(<<>>, T) /\ One(<<>>, T) BY <1>2 DEF Has, One
  <1> QED BY <1>1, <1>2, <1>3

LEMMA NewSessionIs ==
  Bounded(NewSession) /\ NewSession \in Session /\ \A x : LoneSt(NewSession, x) /\ ~HasX(NewSession, x) /\ ~InSt(NewSession, x)
  <1>1. /\ NewSession \in Session /\ NewSession.req = <<>> /\ NewSession.resp = <<>> /\ NewSession.pending = <<>>
        /\ NewSession.h2Emitted = {}
    BY NothingIs DEF NewSession, Session
  <1>2. Len(<<>>) <= MaxStreamTokens BY NothingIs, LimitsAssumption
  <1> QED BY <1>1, <1>2, NothingIs DEF Bounded, Sound, LoneSt, HasX, InSt, Unparsed, Unsent, Pends

LEMMA CInvInit == Init => CInv
  <1> SUFFICES ASSUME Init PROVE CInv OBVIOUS
  <1>1. scenario \in Scenario /\ scenario \in Scenarios BY ScenariosAssumption DEF Init
  <1>2. left.req = SideToks(scenario, "req") /\ left.resp = SideToks(scenario, "resp")
        /\ left = [side \in {"req", "resp"} |-> SideToks(scenario, side)]
    BY DEF Init
  <1>3. ConnTypes
    <2>1. left \in [{"req", "resp"} -> Seq(Tok)] BY <1>1, <1>2, SideToksIs
    <2>2. /\ ~(Has(left.req, Strange) /\ Has(left.req, Loud)) /\ ~Has(left.resp, Strange)
          /\ \A x : /\ One(left.req, Mark(x)) /\ One(left.resp, Mark(x))
                    /\ ~(Has(left.req, Mark(x)) /\ Has(left.resp, Mark(x)))
      BY <1>1, <1>2, SideToksIs
    <2>3. closed \in BOOLEAN /\ nextSeq \in Nat /\ libssl \in [todo : Seq({"req", "resp"}), probed : SUBSET {"req", "resp"}]
      <3>1. sslProbes \in Seq({"req", "resp"}) /\ <<>> \in Seq({"req", "resp"}) BY DEF sslProbes
      <3> QED BY <3>1 DEF Init
    <2>4. tuple \in Known BY <1>1 DEF Init, Scenario, Known
    <2> QED BY <1>1, <2>1, <2>2, <2>3, <2>4 DEF ConnTypes
  <1>4. rings = [s \in Shards |-> <<>>] /\ shard = [s \in Shards |-> Reading] /\ channel = <<>> BY DEF Init
  <1>5. PathTypes
    <2>1. rings \in [Shards -> Seq(Event)] /\ \A s \in Shards : Len(rings[s]) <= MaxRing
      BY <1>4, NothingIs, LimitsAssumption
    <2>2. shard \in [Shards -> ShardState] /\ \A s \in Shards : shard[s].pc = "read"
      BY <1>4 DEF Reading, ShardState
    <2>3. flow = "none" /\ main = "run" BY DEF Init
    <2>4. Len(<<>>) <= ChannelSize BY NothingIs, LimitsAssumption
    <2> QED BY <1>4, <2>1, <2>2, <2>3, <2>4, NothingIs DEF PathTypes
  <1>6. /\ consumer = Receiving /\ cleaner = Waiting /\ fresh = 0 /\ current = 0 /\ emitted = <<>>
        /\ heap = [i \in 1 .. MaxSessions |-> NewSession]
    BY DEF Init
  <1>7. ConsumerTypes /\ CleanerTypes BY <1>6, NothingIs DEF ConsumerTypes, CleanerTypes, Receiving, Waiting
  <1>8. StoreTypes
    <2>1. fresh \in 0 .. MaxSessions /\ current \in 0 .. fresh BY <1>6, LimitsAssumption
    <2>2. heap \in [1 .. MaxSessions -> Session] /\ \A i \in 1 .. MaxSessions : Bounded(heap[i])
      BY <1>6, NewSessionIs
    <2> QED BY <1>6, <2>1, <2>2, NothingIs DEF StoreTypes
  <1>9. ASSUME NEW x PROVE Alone(x)
    <2>1. \A s \in Shards : rings[s] = <<>> /\ shard[s].pc = "read" BY <1>4 DEF Reading
    <2>2. \A i \in 1 .. MaxSessions : LoneSt(heap[i], x) /\ ~HasX(heap[i], x) /\ ~InSt(heap[i], x) BY <1>6, NewSessionIs
    <2>3. consumer.out = <<>> /\ cleaner.out = <<>> /\ consumer.pc = "receive" BY <1>6 DEF Receiving, Waiting
    <2>4. OncePath(x)
      <3>1. \A s \in Shards : One(rings[s], EvWith(x)) /\ ~Has(rings[s], EvWith(x)) BY <2>1, NothingIs
      <3>2. One(channel, EvWith(x)) BY <1>4, NothingIs
      <3>3. \A s \in Shards : shard[s].pc # "send" BY <2>1
      <3> QED BY <3>1, <3>2, <3>3 DEF OncePath, Sends
    <2>5. OnceHeap(x) BY <2>2 DEF OnceHeap
    <2>6. OnceOut(x) BY <1>6, <2>3, NothingIs DEF OnceOut
    <2>7. /\ ~InRings(x) /\ ~InSends(x) /\ ~InChannel(x) /\ ~InHand(x) /\ ~InHeap(x) /\ ~LiveInHeap(x)
          /\ ~InOut(x) /\ ~InCleanerOut(x) /\ ~InEmitted(x)
      BY <1>4, <1>6, <2>1, <2>2, <2>3, NothingIs
      DEF InRings, InSends, Sends, InChannel, InHand, InHeap, LiveInHeap, InOut, InCleanerOut, InEmitted
    <2>8. OnePlace(x) BY <2>7 DEF OnePlace, Out
    <2> QED BY <2>4, <2>5, <2>6, <2>8 DEF Alone
  <1> QED BY <1>3, <1>5, <1>7, <1>8, <1>9 DEF CInv, Types

-----------------------------------------------------------------------------
(* Steps that move nothing *)

LEMMA ConnFrame == ConnTypes /\ UNCHANGED <<appVars, libssl, tuple>> => ConnTypes'
  BY DEF ConnTypes, appVars

LEMMA PathFrame == PathTypes /\ UNCHANGED <<flow, main, rings, shard, channel>> => PathTypes'
  BY DEF PathTypes

LEMMA ConsumerFrame == ConsumerTypes /\ UNCHANGED <<consumer, fresh>> => ConsumerTypes'
  BY DEF ConsumerTypes

LEMMA CleanerFrame == CleanerTypes /\ UNCHANGED <<cleaner, fresh>> => CleanerTypes'
  BY DEF CleanerTypes

LEMMA StoreFrame == StoreTypes /\ UNCHANGED <<heap, fresh, current, emitted>> => StoreTypes'
  BY DEF StoreTypes

LEMMA TypesUnfold ==
  /\ CInv => ConnTypes /\ PathTypes /\ ConsumerTypes /\ CleanerTypes /\ StoreTypes
  /\ ConnTypes' /\ PathTypes' /\ ConsumerTypes' /\ CleanerTypes' /\ StoreTypes' => Types'
  BY DEF CInv, Types

LEMMA PathSame ==
  ASSUME UNCHANGED <<left, rings, channel>>, \A s \in Shards : shard'[s].pc = "send" => shard'[s] = shard[s], NEW x
  PROVE  /\ OncePath(x) => OncePath(x)'
         /\ InLeft(x)' = InLeft(x) /\ InRings(x)' = InRings(x) /\ (InSends(x)' => InSends(x)) /\ InChannel(x)' = InChannel(x)
  <1>1. \A s \in Shards : Sends(s, x)' => Sends(s, x) BY DEF Sends
  <1>2. OncePath(x) => OncePath(x)' BY <1>1 DEF OncePath
  <1>3. InSends(x)' => InSends(x) BY <1>1 DEF InSends
  <1> QED BY <1>2, <1>3 DEF InLeft, InRings, InChannel

LEMMA HeapSame ==
  ASSUME \A i \in 1 .. MaxSessions : /\ heap'[i].req = heap[i].req /\ heap'[i].resp = heap[i].resp
                                     /\ heap'[i].pending = heap[i].pending /\ heap'[i].h2Emitted = heap[i].h2Emitted,
         NEW x
  PROVE  (OnceHeap(x) => OnceHeap(x)') /\ (InHeap(x)' => InHeap(x)) /\ (LiveInHeap(x)' => LiveInHeap(x))
  <1>1. \A i \in 1 .. MaxSessions : /\ LoneSt(heap[i], x) => LoneSt(heap'[i], x)
                                    /\ InSt(heap'[i], x) => InSt(heap[i], x)
                                    /\ HasX(heap'[i], x) => HasX(heap[i], x)
    BY DEF LoneSt, HasX, InSt, Unparsed, Unsent, Pends
  <1>2. OnceHeap(x) => OnceHeap(x)' BY <1>1 DEF OnceHeap
  <1>3. InHeap(x)' => InHeap(x) BY <1>1 DEF InHeap
  <1>4. LiveInHeap(x)' => LiveInHeap(x) BY <1>1 DEF LiveInHeap
  <1> QED BY <1>2, <1>3, <1>4

LEMMA QuietKeeps ==
  ASSUME CInv, Types', UNCHANGED <<left, rings, channel, emitted>>,
         \A s \in Shards : shard'[s].pc = "send" => shard'[s] = shard[s],
         \A i \in 1 .. MaxSessions : /\ heap'[i].req = heap[i].req /\ heap'[i].resp = heap[i].resp
                                     /\ heap'[i].pending = heap[i].pending /\ heap'[i].h2Emitted = heap[i].h2Emitted,
         consumer'.out = consumer.out, cleaner'.out = cleaner.out,
         consumer'.pc \in {"find", "lock"} => consumer.pc \in {"find", "lock"} /\ consumer'.ev = consumer.ev
  PROVE  CInv'
  <1>1. ASSUME NEW x PROVE Alone(x)'
    <2>1. OncePath(x) /\ OnceHeap(x) /\ OnceOut(x) /\ OnePlace(x) BY DEF CInv, Alone
    <2>2. OncePath(x)' /\ InLeft(x)' = InLeft(x) /\ InRings(x)' = InRings(x) /\ (InSends(x)' => InSends(x)) /\ InChannel(x)' = InChannel(x)
      BY <2>1, PathSame
    <2>3. OnceHeap(x)' /\ (InHeap(x)' => InHeap(x)) /\ (LiveInHeap(x)' => LiveInHeap(x)) BY <2>1, HeapSame
    <2>4. OnceOut(x)' /\ InOut(x)' = InOut(x) /\ InCleanerOut(x)' = InCleanerOut(x) /\ InEmitted(x)' = InEmitted(x)
      BY <2>1 DEF OnceOut, InOut, InCleanerOut, InEmitted
    <2>5. InHand(x)' => InHand(x) BY DEF InHand
    <2>6. OnePlace(x)' BY <2>1, <2>2, <2>3, <2>4, <2>5 DEF OnePlace, Out
    <2> QED BY <2>2, <2>3, <2>4, <2>6 DEF Alone
  <1> QED BY <1>1 DEF CInv

LEMMA scanAndAttachKeeps ==
  ASSUME CInv, scanAndAttach
  PROVE  CInv'
  <1>1. /\ UNCHANGED <<appVars, tuple, rings, shard, flow, channel, main, heap, fresh, current, consumer, cleaner, emitted>>
    BY DEF scanAndAttach, storeVars
  <1>2. libssl' \in [todo : Seq({"req", "resp"}), probed : SUBSET {"req", "resp"}]
    <2>1. libssl \in [todo : Seq({"req", "resp"}), probed : SUBSET {"req", "resp"}] /\ libssl.todo # <<>>
      BY TypesUnfold DEF ConnTypes, scanAndAttach
    <2>2. Tail(libssl.todo) \in Seq({"req", "resp"}) /\ Head(libssl.todo) \in {"req", "resp"} /\ <<>> \in Seq({"req", "resp"})
      BY <2>1
    <2>3. \/ libssl' = [todo |-> Tail(libssl.todo), probed |-> libssl.probed \cup {Head(libssl.todo)}]
          \/ libssl' = [libssl EXCEPT !.todo = Tail(@)]
          \/ libssl' = [libssl EXCEPT !.todo = <<>>]
      BY DEF scanAndAttach
    <2>4. libssl.probed \cup {Head(libssl.todo)} \in SUBSET {"req", "resp"} BY <2>1, <2>2
    <2> DEFINE rest == Tail(libssl.todo)
               more == libssl.probed \cup {Head(libssl.todo)}
    <2>5. rest \in Seq({"req", "resp"}) /\ more \in SUBSET {"req", "resp"} BY <2>2, <2>4
    <2>6. \/ libssl' = [todo |-> rest, probed |-> more]
          \/ libssl' = [libssl EXCEPT !.todo = rest] \/ libssl' = [libssl EXCEPT !.todo = <<>>]
      BY <2>3
    <2> HIDE DEF rest, more
    <2>7. CASE libssl' = [todo |-> rest, probed |-> more] BY <2>5, <2>7
    <2>8. CASE libssl' = [libssl EXCEPT !.todo = rest] BY <2>1, <2>5, <2>8
    <2>9. CASE libssl' = [libssl EXCEPT !.todo = <<>>] BY <2>1, <2>2, <2>9
    <2> QED BY <2>6, <2>7, <2>8, <2>9
  <1>3. Types'
    <2>1. ConnTypes' BY <1>1, <1>2, TypesUnfold DEF ConnTypes, appVars
    <2> QED BY <1>1, <2>1, TypesUnfold, PathFrame, ConsumerFrame, CleanerFrame, StoreFrame
  <1> QED BY <1>1, <1>3, QuietKeeps DEF appVars

LEMMA DecisionExpiresKeeps ==
  ASSUME CInv, DecisionExpires
  PROVE  CInv'
  <1>1. /\ UNCHANGED <<appVars, libssl, tuple, rings, shard, channel, main, heap, fresh, current, consumer, cleaner, emitted>>
        /\ flow' = "none"
    BY DEF DecisionExpires, storeVars
  <1>2. Types'
    <2>1. PathTypes' BY <1>1, TypesUnfold DEF PathTypes
    <2> QED BY <1>1, <2>1, TypesUnfold, ConnFrame, ConsumerFrame, CleanerFrame, StoreFrame
  <1> QED BY <1>1, <1>2, QuietKeeps DEF appVars

LEMMA MainKeeps ==
  ASSUME CInv, MainStep
  PROVE  CInv'
  <1>1. /\ UNCHANGED <<appVars, libssl, tuple, rings, shard, flow, channel, heap, fresh, current, consumer, cleaner, emitted>>
        /\ \/ main' = "stop"
           \/ main' = "close" /\ \A s \in Shards : shard[s].pc = "done"
           \/ main' = "exit" /\ main = "close"
    BY DEF MainStep, Stop, CloseChannel, Exit, mainFrame, captureVars, storeVars
  <1>2. Types'
    <2>1. PathTypes' BY <1>1, TypesUnfold DEF PathTypes
    <2> QED BY <1>1, <2>1, TypesUnfold, ConnFrame, ConsumerFrame, CleanerFrame, StoreFrame
  <1> QED BY <1>1, <1>2, QuietKeeps DEF appVars

LEMMA ReaderEndsKeeps ==
  ASSUME CInv, NEW s \in Shards, ReaderEnds(s)
  PROVE  CInv'
  <1>1. /\ UNCHANGED <<appVars, libssl, tuple, rings, flow, channel, main, heap, fresh, current, consumer, cleaner, emitted>>
        /\ main = "stop" /\ shard' = [shard EXCEPT ![s] = [pc |-> "done", ev |-> NoEvent]]
    BY DEF ReaderEnds, storeVars
  <1>2. shard \in [Shards -> ShardState] BY TypesUnfold DEF PathTypes
  <1>3. \A r \in Shards : (r # s => shard'[r] = shard[r]) /\ shard'[s].pc = "done" BY <1>1, <1>2
  <1>4. Types'
    <2>1. shard' \in [Shards -> ShardState] BY <1>1, <1>2 DEF ShardState
    <2>2. PathTypes' BY <1>1, <1>3, <2>1, TypesUnfold DEF PathTypes
    <2> QED BY <1>1, <2>2, TypesUnfold, ConnFrame, ConsumerFrame, CleanerFrame, StoreFrame
  <1>5. \A r \in Shards : shard'[r].pc = "send" => shard'[r] = shard[r] BY <1>3
  <1> QED BY <1>1, <1>4, <1>5, QuietKeeps DEF appVars

LEMMA FindKeeps ==
  ASSUME CInv, Find
  PROVE  CInv'
  <1>1. UNCHANGED <<appVars, libssl, tuple, rings, shard, flow, channel, main, heap, cleaner, emitted>>
    BY DEF Find, consumerFrame, captureVars
  <1>2. ConsumerTypes /\ CleanerTypes /\ StoreTypes /\ consumer.pc = "find" BY TypesUnfold DEF Find
  <1>3. /\ fresh \in 0 .. MaxSessions /\ current \in 0 .. fresh /\ fresh \in Nat /\ MaxSessions \in Nat
        /\ consumer.ev \in Event /\ consumer.out = <<>>
    BY <1>2, LimitsAssumption DEF ConsumerTypes, StoreTypes
  <1>4. \/ /\ current # 0 /\ consumer' = [consumer EXCEPT !.pc = "lock", !.sid = current]
           /\ fresh' = fresh /\ current' = current
        \/ /\ fresh < MaxSessions /\ fresh' = fresh + 1 /\ current' = fresh + 1
           /\ consumer' = [consumer EXCEPT !.pc = "lock", !.sid = fresh + 1]
        \/ consumer' = Receiving /\ fresh' = fresh /\ current' = current
    BY DEF Find
  <1>5. /\ fresh' \in 0 .. MaxSessions /\ current' \in 0 .. fresh' /\ \A i \in 0 .. fresh : i \in 0 .. fresh'
    BY <1>3, <1>4
  <1>6. StoreTypes' BY <1>1, <1>2, <1>5 DEF StoreTypes
  <1>7. CleanerTypes' BY <1>1, <1>2, <1>5 DEF CleanerTypes
  <1>8. consumer' = Receiving \/ \E sid \in 1 .. fresh' : consumer' = [consumer EXCEPT !.pc = "lock", !.sid = sid]
    <2>1. CASE current # 0 /\ consumer' = [consumer EXCEPT !.pc = "lock", !.sid = current] /\ fresh' = fresh
      <3>1. current \in 1 .. fresh' BY <1>3, <2>1
      <3> QED BY <2>1, <3>1
    <2>2. CASE fresh' = fresh + 1 /\ consumer' = [consumer EXCEPT !.pc = "lock", !.sid = fresh + 1]
      <3>1. fresh + 1 \in 1 .. fresh' BY <1>3, <2>2
      <3> QED BY <2>2, <3>1
    <2> QED BY <1>4, <2>1, <2>2
  <1>9. ConsumerTypes' /\ consumer'.out = <<>> /\ (consumer'.pc = "lock" => consumer'.ev = consumer.ev) /\ consumer'.pc # "find"
    <2>1. CASE consumer' = Receiving
      <3>1. 0 \in 0 .. fresh' BY <1>5, <1>3
      <3> QED BY <2>1, <3>1, NothingIs DEF Receiving, ConsumerTypes
    <2>2. ASSUME NEW sid \in 1 .. fresh', consumer' = [consumer EXCEPT !.pc = "lock", !.sid = sid]
          PROVE  ConsumerTypes' /\ consumer'.out = <<>> /\ consumer'.pc = "lock" /\ consumer'.ev = consumer.ev
      <3>1. sid \in 0 .. fresh' /\ sid # 0 BY <1>3, <1>5
      <3>2. /\ consumer'.pc = "lock" /\ consumer'.sid = sid /\ consumer'.ev = consumer.ev /\ consumer'.out = consumer.out
            /\ consumer' = [pc |-> "lock", ev |-> consumer.ev, sid |-> sid, out |-> consumer.out]
        BY <1>2, <2>2 DEF ConsumerTypes
      <3> QED BY <1>2, <1>3, <3>1, <3>2 DEF ConsumerTypes
    <2> QED BY <1>8, <2>1, <2>2 DEF Receiving
  <1>10. Types' BY <1>1, <1>6, <1>7, <1>9, TypesUnfold, ConnFrame, PathFrame
  <1> QED BY <1>1, <1>2, <1>3, <1>9, <1>10, QuietKeeps DEF appVars

LEMMA RemoveClosedKeeps ==
  ASSUME CInv, RemoveClosed
  PROVE  CInv'
  <1>1. /\ UNCHANGED <<appVars, libssl, tuple, rings, shard, flow, channel, main, heap, fresh, cleaner, emitted>>
        /\ consumer.pc = "remove" /\ consumer' = Receiving /\ current' = 0
    BY DEF RemoveClosed, consumerFrame, captureVars
  <1>2. 0 \in 0 .. fresh /\ consumer.out = <<>> BY <1>1, TypesUnfold DEF StoreTypes, ConsumerTypes
  <1>3. ConsumerTypes' BY <1>1, <1>2, NothingIs DEF Receiving, ConsumerTypes
  <1>4. StoreTypes' BY <1>1, <1>2, TypesUnfold DEF StoreTypes
  <1>5. Types' BY <1>1, <1>3, <1>4, TypesUnfold, ConnFrame, PathFrame, CleanerFrame
  <1>6. consumer'.out = consumer.out /\ consumer'.pc = "receive" BY <1>1, <1>2 DEF Receiving
  <1> QED BY <1>1, <1>5, <1>6, QuietKeeps DEF appVars

(* the cleanup goroutine between its emissions *)
LEMMA CleanerMoves ==
  ASSUME CInv, UNCHANGED <<cleanerFrame, heap, fresh, emitted>>, current' \in {current, 0}, cleaner.pc # "emit",
         cleaner'.out = <<>>,
         cleaner' \in [pc : {"tick", "check", "drain", "done"}, sid : 0 .. fresh, out : Seq(Conv)],
         cleaner'.pc \in {"check", "drain"} => cleaner'.sid # 0
  PROVE  CInv'
  <1>1. UNCHANGED <<appVars, libssl, tuple, rings, shard, flow, channel, main, heap, fresh, consumer, emitted>>
    BY DEF cleanerFrame, captureVars
  <1>2. cleaner.out = <<>> BY TypesUnfold DEF CleanerTypes
  <1>3. CleanerTypes' BY <1>1 DEF CleanerTypes
  <1>4. StoreTypes'
    <2>1. 0 \in 0 .. fresh /\ current \in 0 .. fresh BY TypesUnfold DEF StoreTypes
    <2> QED BY <1>1, <2>1, TypesUnfold DEF StoreTypes
  <1>5. Types' BY <1>1, <1>3, <1>4, TypesUnfold, ConnFrame, PathFrame, ConsumerFrame
  <1> QED BY <1>1, <1>2, <1>5, QuietKeeps DEF appVars

LEMMA TickKeeps ==
  ASSUME CInv, Tick
  PROVE  CInv'
  <1>1. /\ UNCHANGED <<cleanerFrame, heap, fresh, current, emitted>> /\ cleaner.pc = "tick" /\ current # 0
        /\ cleaner' = [cleaner EXCEPT !.pc = "check", !.sid = current]
    BY DEF Tick, storeVars
  <1>2. /\ cleaner \in [pc : {"tick", "check", "drain", "emit", "done"}, sid : 0 .. fresh, out : Seq(Conv)]
        /\ cleaner.out = <<>> /\ current \in 0 .. fresh
    BY <1>1, TypesUnfold DEF CleanerTypes, StoreTypes
  <1>3. /\ cleaner'.out = <<>> /\ cleaner'.sid = current
        /\ cleaner' \in [pc : {"tick", "check", "drain", "done"}, sid : 0 .. fresh, out : Seq(Conv)]
    BY <1>1, <1>2
  <1> QED BY <1>1, <1>3, CleanerMoves

LEMMA CheckKeeps ==
  ASSUME CInv, Check
  PROVE  CInv'
  <1>1. /\ UNCHANGED <<cleanerFrame, heap, fresh, emitted>> /\ cleaner.pc = "check" /\ current' \in {0, current}
        /\ cleaner' = [cleaner EXCEPT !.pc = "drain"] \/ cleaner' = Waiting
    BY DEF Check
  <1>2. /\ cleaner \in [pc : {"tick", "check", "drain", "emit", "done"}, sid : 0 .. fresh, out : Seq(Conv)]
        /\ cleaner.out = <<>> /\ cleaner.sid # 0 /\ 0 \in 0 .. fresh
    BY <1>1, TypesUnfold DEF CleanerTypes, StoreTypes
  <1>3. CASE cleaner' = [cleaner EXCEPT !.pc = "drain"]
    <2>1. /\ cleaner'.out = <<>> /\ cleaner'.sid # 0
          /\ cleaner' \in [pc : {"tick", "check", "drain", "done"}, sid : 0 .. fresh, out : Seq(Conv)]
      BY <1>2, <1>3
    <2> QED BY <1>1, <2>1, CleanerMoves
  <1>4. CASE cleaner' = Waiting
    <2>1. /\ cleaner'.out = <<>> /\ cleaner'.pc = "tick"
          /\ cleaner' \in [pc : {"tick", "check", "drain", "done"}, sid : 0 .. fresh, out : Seq(Conv)]
      BY <1>2, <1>4, NothingIs DEF Waiting
    <2> QED BY <1>1, <2>1, CleanerMoves
  <1> QED BY <1>1, <1>3, <1>4

LEMMA CleanerEndsKeeps ==
  ASSUME CInv, CleanerEnds
  PROVE  CInv'
  <1>1. /\ UNCHANGED <<cleanerFrame, heap, fresh, current, emitted>> /\ cleaner.pc = "tick"
        /\ cleaner' = [pc |-> "done", sid |-> 0, out |-> <<>>]
    BY DEF CleanerEnds, storeVars, Waiting
  <1>2. 0 \in 0 .. fresh BY TypesUnfold DEF StoreTypes
  <1>3. cleaner' \in [pc : {"tick", "check", "drain", "done"}, sid : 0 .. fresh, out : Seq(Conv)]
    BY <1>1, <1>2, NothingIs
  <1> QED BY <1>1, <1>3, CleanerMoves

LEMMA GoesStaleKeeps ==
  ASSUME CInv, GoesStale
  PROVE  CInv'
  <1>1. /\ UNCHANGED <<appVars, libssl, tuple, rings, shard, flow, channel, main, fresh, current, consumer, cleaner, emitted>>
        /\ heap' = [heap EXCEPT ![current].stale = TRUE] /\ current # 0
    BY DEF GoesStale, cleanerFrame, captureVars
  <1>2. /\ heap \in [1 .. MaxSessions -> Session] /\ current \in 1 .. MaxSessions
        /\ \A i \in 1 .. MaxSessions : Bounded(heap[i])
    <2>1. MaxSessions \in Nat BY LimitsAssumption
    <2> QED BY <1>1, <2>1, TypesUnfold DEF StoreTypes
  <1> DEFINE new == [heap[current] EXCEPT !.stale = TRUE]
  <1>3. /\ new \in Session /\ new.req = heap[current].req /\ new.resp = heap[current].resp
        /\ new.pending = heap[current].pending /\ new.h2Emitted = heap[current].h2Emitted /\ new.h2 = heap[current].h2
    <2>1. heap[current] \in Session BY <1>2
    <2> QED BY <2>1 DEF Session
  <1>4. heap' = [heap EXCEPT ![current] = new] BY <1>1
  <1> HIDE DEF new
  <1>5. Bounded(new)
    <2>1. Bounded(heap[current]) BY <1>2
    <2> QED BY <1>3, <2>1 DEF Bounded, Sound
  <1>6. \A i \in 1 .. MaxSessions : heap'[i] = IF i = current THEN new ELSE heap[i] BY <1>2, <1>4
  <1>7. heap' \in [1 .. MaxSessions -> Session] BY <1>2, <1>3, <1>4
  <1>8. StoreTypes' BY <1>1, <1>2, <1>5, <1>6, <1>7, TypesUnfold DEF StoreTypes
  <1>9. Types' BY <1>1, <1>8, TypesUnfold, ConnFrame, PathFrame, ConsumerFrame, CleanerFrame
  <1>10. \A i \in 1 .. MaxSessions : /\ heap'[i].req = heap[i].req /\ heap'[i].resp = heap[i].resp
                                     /\ heap'[i].pending = heap[i].pending /\ heap'[i].h2Emitted = heap[i].h2Emitted
    BY <1>3, <1>6
  <1> QED BY <1>1, <1>9, <1>10, QuietKeeps DEF appVars

-----------------------------------------------------------------------------
(* An event on its way *)

LEMMA DataEventIs ==
  ASSUME ConnTypes, NEW side \in {"req", "resp"}, NEW seq \in Nat, NEW toks \in Seq(Tok),
         NEW ssl \in BOOLEAN, NEW cut \in BOOLEAN,
         \A x : One(toks, Mark(x)),
         Has(toks, Strange) => side = "req" /\ ~Has(toks, Loud)
  PROVE  /\ DataEvent(seq, side, toks, ssl, cut) \in Data
         /\ \A x : DataEvent(seq, side, toks, ssl, cut) \in EvWith(x) <=> Has(toks, Mark(x))
  <1> DEFINE e == DataEvent(seq, side, toks, ssl, cut)
             dir == IF side = "req" THEN "read" ELSE "write"
  <1>1. e = [type |-> "data", seq |-> seq, dir |-> dir, toks |-> toks, ssl |-> ssl, known |-> tuple, cut |-> cut]
    BY DEF DataEvent
  <1>2. dir \in {"read", "write"} /\ (side = "req" => dir = "read") /\ tuple \in Known BY DEF ConnTypes
  <1> HIDE DEF e, dir
  <1>3. e \in DataEvents /\ e.toks = toks /\ e.dir = dir BY <1>1, <1>2 DEF DataEvents
  <1>4. e \in Data BY <1>2, <1>3 DEF Data, Calm
  <1> QED BY <1>3, <1>4 DEF EvWith, e

LEMMA CipherIs ==
  ASSUME NEW toks \in Seq(Tok)
  PROVE  /\ Cipher(toks) \in Seq(Tok) /\ ~Has(Cipher(toks), Strange)
         /\ \A x : ~Has(Cipher(toks), Mark(x)) /\ One(Cipher(toks), Mark(x))
  <1> DEFINE c == Cipher(toks)
             n == Len(toks)
  <1>1. n \in Nat /\ DOMAIN toks = 1 .. n /\ \A i \in 1 .. n : toks[i] \in Tok OBVIOUS
  <1>2. DOMAIN c = 1 .. n /\ \A i \in 1 .. n : c[i] = Token("cipher", toks[i].side, toks[i].x, 0, "none")
    BY <1>1 DEF Cipher
  <1>3. c = [i \in 1 .. n |-> c[i]] BY <1>1 DEF Cipher
  <1> HIDE DEF c, n
  <1>4. \A i \in 1 .. n : c[i] \in Tok /\ c[i].kind = "cipher" /\ ~c[i].end
    <2> SUFFICES ASSUME NEW i \in 1 .. n PROVE c[i] \in Tok /\ c[i].kind = "cipher" /\ ~c[i].end OBVIOUS
    <2> DEFINE t == Token("cipher", toks[i].side, toks[i].x, 0, "none")
    <2>1. toks[i].side \in {"req", "resp"} /\ toks[i].x \in Nat BY <1>1 DEF Tok
    <2>2. t \in Tok /\ t.kind = "cipher" /\ ~t.end BY <2>1 DEF Token, Tok
    <2>3. c[i] = t BY <1>2
    <2> HIDE DEF t
    <2> QED BY <2>2, <2>3
  <1>5. \A i \in 1 .. n : c[i] \in Tok /\ c[i].kind # "req" /\ ~c[i].end BY <1>4
  <1>6. c \in Seq(Tok) /\ ~Has(c, Strange) /\ \A x : ~Has(c, Mark(x)) /\ One(c, Mark(x))
    BY <1>1, <1>3, <1>5, PlainToks
  <1> QED BY <1>6 DEF c

LEMMA SingleEvent ==
  ASSUME NEW e \in Event
  PROVE  <<e>> \in Seq(Event) /\ \A T : One(<<e>>, T) /\ (Has(<<e>>, T) <=> e \in T)
  <1>1. <<e>> \in Seq(Event) /\ DOMAIN <<e>> = 1 .. 1 /\ <<e>>[1] = e OBVIOUS
  <1>2. \A i \in DOMAIN <<e>> : i = 1 BY <1>1
  <1>3. 1 \in DOMAIN <<e>> BY <1>1
  <1>4. \A T : One(<<e>>, T) BY <1>2 DEF One
  <1>5. \A T : Has(<<e>>, T) <=> e \in T BY <1>1, <1>2, <1>3 DEF Has
  <1> QED BY <1>1, <1>4, <1>5

(* What a system call gives away: x is at most once in the events, and then *)
(* it came from what the connection had left.                               *)
LEMMA CapturedIs ==
  ASSUME ConnTypes, NEW side \in {"req", "resp"}, NEW n \in Nat \ {0}, n <= Len(left[side]), NEW cut \in BOOLEAN
  PROVE  LET evs == Captured(side, n, cut) IN
         /\ evs \in Seq(Event)
         /\ \A x : One(evs, EvWith(x)) /\ (Has(evs, EvWith(x)) => Has(SubSeq(left[side], 1, n), Mark(x)))
  <1> DEFINE q == left[side]
             toks == SubSeq(left[side], 1, n)
             kept == IF cut THEN SubSeq(toks, 1, n - 1) ELSE toks
             evs == Captured(side, n, cut)
  <1>1. /\ q \in Seq(Tok) /\ (Has(q, Strange) => side = "req" /\ ~Has(q, Loud))
        /\ \A x : One(q, Mark(x))
        /\ nextSeq \in Nat
    <2>1. /\ left \in [{"req", "resp"} -> Seq(Tok)] /\ nextSeq \in Nat
          /\ ~(Has(left.req, Strange) /\ Has(left.req, Loud)) /\ ~Has(left.resp, Strange)
          /\ \A x : One(left.req, Mark(x)) /\ One(left.resp, Mark(x))
      BY DEF ConnTypes
    <2>2. CASE side = "req" BY <2>1, <2>2
    <2>3. CASE side = "resp" BY <2>1, <2>3
    <2> QED BY <2>2, <2>3
  <1>2. 1 \in 1 .. Len(q) + 1 /\ n \in 1 - 1 .. Len(q) /\ Len(q) \in Nat
    <2>1. Len(q) \in Nat /\ n <= Len(q) BY <1>1
    <2> HIDE DEF q
    <2> QED BY <2>1
  <1>3. /\ toks \in Seq(Tok) /\ Len(toks) = n - 1 + 1
        /\ \A T : (Has(toks, T) => Has(q, T)) /\ (One(q, T) => One(toks, T))
    <2>1. toks = SubSeq(q, 1, n) OBVIOUS
    <2> HIDE DEF q, toks
    <2>2. toks \in Seq(Tok) /\ Len(toks) = n - 1 + 1 BY <1>1, <1>2, <2>1, SubSeqIs
    <2>3. ASSUME NEW T PROVE (Has(toks, T) => Has(q, T)) /\ (One(q, T) => One(toks, T))
      BY <1>1, <1>2, <2>1, HasSub
    <2> QED BY <2>2, <2>3
  <1> HIDE DEF q, toks
  <1>4. kept \in Seq(Tok) /\ \A T : (Has(kept, T) => Has(toks, T)) /\ (One(toks, T) => One(kept, T))
    <2>1. CASE ~cut BY <1>3, <2>1
    <2>2. CASE cut
      <3>1. kept = SubSeq(toks, 1, n - 1) BY <2>2
      <3>2. 1 \in 1 .. Len(toks) + 1 /\ n - 1 \in 1 - 1 .. Len(toks)
        <4>1. n - 1 + 1 = n OBVIOUS
        <4> QED BY <1>3, <4>1
      <3> HIDE DEF kept
      <3>3. kept \in Seq(Tok) BY <1>3, <3>1, <3>2, SubSeqIs
      <3>4. ASSUME NEW T PROVE (Has(kept, T) => Has(toks, T)) /\ (One(toks, T) => One(kept, T))
        BY <1>3, <3>1, <3>2, HasSub
      <3> QED BY <3>3, <3>4
    <2> QED BY <2>1, <2>2
  <1> HIDE DEF kept
  <1>5. /\ \A x : One(kept, Mark(x))
        /\ Has(kept, Strange) => side = "req" /\ ~Has(kept, Loud)
    BY <1>1, <1>3, <1>4
  <1>6. ASSUME NEW seq \in Nat, NEW ssl \in BOOLEAN, NEW e, e = DataEvent(seq, side, kept, ssl, cut)
        PROVE  e \in Event /\ \A x : e \in EvWith(x) => Has(toks, Mark(x))
    <2>1. e \in Data /\ \A x : e \in EvWith(x) <=> Has(kept, Mark(x)) BY <1>4, <1>5, <1>6, DataEventIs
    <2> QED BY <1>4, <2>1 DEF Event
  <1>7. CASE ~scenario.tls
    <2> DEFINE e == DataEvent(nextSeq, side, kept, FALSE, cut)
    <2>1. evs = <<e>> BY <1>7 DEF Captured, kept, toks
    <2>2. e \in Event /\ \A x : e \in EvWith(x) => Has(toks, Mark(x)) BY <1>1, <1>6
    <2> HIDE DEF evs, e
    <2>3. evs \in Seq(Event) /\ \A T : One(evs, T) /\ (Has(evs, T) <=> e \in T) BY <2>1, <2>2, SingleEvent
    <2> QED BY <2>2, <2>3 DEF evs, toks
  <1>8. CASE scenario.tls
    <2> DEFINE e == DataEvent(nextSeq, side, Cipher(toks), FALSE, FALSE)
               f == DataEvent(nextSeq + 1, side, kept, TRUE, cut)
    <2>1. evs = <<e>> \o (IF side \in libssl.probed THEN <<f>> ELSE <<>>) BY <1>8 DEF Captured, kept, toks
    <2>2. e \in Event /\ \A x : e \notin EvWith(x)
      <3>1. /\ Cipher(toks) \in Seq(Tok) /\ ~Has(Cipher(toks), Strange)
            /\ \A x : ~Has(Cipher(toks), Mark(x)) /\ One(Cipher(toks), Mark(x))
        BY <1>3, CipherIs
      <3>2. e \in Data /\ \A x : e \in EvWith(x) <=> Has(Cipher(toks), Mark(x)) BY <1>1, <3>1, DataEventIs
      <3> QED BY <3>1, <3>2 DEF Event
    <2>3. f \in Event /\ \A x : f \in EvWith(x) => Has(toks, Mark(x))
      <3>1. nextSeq + 1 \in Nat BY <1>1
      <3> QED BY <3>1, <1>6
    <2> HIDE DEF evs, e, f
    <2>4. <<e>> \in Seq(Event) /\ \A T : One(<<e>>, T) /\ (Has(<<e>>, T) <=> e \in T) BY <2>2, SingleEvent
    <2>5. <<f>> \in Seq(Event) /\ \A T : One(<<f>>, T) /\ (Has(<<f>>, T) <=> f \in T) BY <2>3, SingleEvent
    <2>6. CASE side \in libssl.probed
      <3>1. evs = <<e>> \o <<f>> BY <2>1, <2>6
      <3>2. evs \in Seq(Event) BY <2>4, <2>5, <3>1, HasConcat
      <3>3. ASSUME NEW x PROVE One(evs, EvWith(x)) /\ (Has(evs, EvWith(x)) => Has(toks, Mark(x)))
        <4>1. /\ Has(evs, EvWith(x)) <=> Has(<<e>>, EvWith(x)) \/ Has(<<f>>, EvWith(x))
              /\ One(<<e>>, EvWith(x)) /\ One(<<f>>, EvWith(x)) /\ ~(Has(<<e>>, EvWith(x)) /\ Has(<<f>>, EvWith(x)))
                   => One(evs, EvWith(x))
          BY <2>4, <2>5, <3>1, HasConcat
        <4> QED BY <2>2, <2>3, <2>4, <2>5, <4>1
      <3> QED BY <3>2, <3>3 DEF evs, toks
    <2>7. CASE side \notin libssl.probed
      <3>1. evs = <<e>> BY <2>1, <2>4, <2>7
      <3> QED BY <2>2, <2>4, <3>1 DEF evs, toks
    <2> QED BY <2>6, <2>7
  <1> QED BY <1>7, <1>8

(* what the ring buffer has room for is a prefix of the events *)
LEMMA RoomIs ==
  ASSUME PathTypes, NEW s \in Shards, NEW evs \in Seq(Event)
  PROVE  LET kept == SubSeq(evs, 1, Room(evs, s)) IN
         /\ Room(evs, s) \in Nat
         /\ kept \in Seq(Event) /\ Len(rings[s]) + Len(kept) <= MaxRing
         /\ \A T : (Has(kept, T) => Has(evs, T)) /\ (One(evs, T) => One(kept, T))
  <1> DEFINE k == Room(evs, s)
             l == Len(rings[s])
             n == Len(evs)
             kept == SubSeq(evs, 1, k)
  <1>1. l \in Nat /\ l <= MaxRing /\ n \in Nat /\ MaxRing \in Nat BY LimitsAssumption DEF PathTypes
  <1>2. k = IF l + n <= MaxRing THEN n ELSE MaxRing - l BY DEF Room
  <1> HIDE DEF k, l
  <1>3. k \in Nat /\ k <= n /\ l + k <= MaxRing
    <2> HIDE DEF n
    <2> QED BY <1>1, <1>2
  <1>4. 1 \in 1 .. Len(evs) + 1 /\ k \in 1 - 1 .. Len(evs) BY <1>1, <1>3
  <1>5. kept \in Seq(Event) /\ Len(kept) = k - 1 + 1 BY <1>4, SubSeqIs
  <1>6. l + Len(kept) <= MaxRing
    <2>1. k - 1 + 1 = k BY <1>3
    <2> HIDE DEF kept
    <2> QED BY <1>3, <1>5, <2>1
  <1>7. ASSUME NEW T PROVE (Has(kept, T) => Has(evs, T)) /\ (One(evs, T) => One(kept, T)) BY <1>4, HasSub
  <1> QED BY <1>3, <1>5, <1>6, <1>7 DEF k, l

LEMMA RecordKeeps ==
  ASSUME CInv, ConnTypes', NEW s \in Shards, NEW evs \in Seq(Event), NEW what, Record(evs, s, what),
         UNCHANGED <<shard, flow, channel, main, storeVars, consumer, cleaner, emitted>>,
         \A x : /\ InLeft(x)' => InLeft(x)
                /\ One(evs, EvWith(x))
                /\ Has(evs, EvWith(x)) => InLeft(x) /\ ~InLeft(x)'
  PROVE  CInv'
  <1>1. PathTypes /\ rings \in [Shards -> Seq(Event)] BY TypesUnfold DEF PathTypes
  <1> DEFINE got == SubSeq(evs, 1, Room(evs, s))
             new == rings[s] \o got
  <1>2. /\ got \in Seq(Event) /\ Len(rings[s]) + Len(got) <= MaxRing
        /\ \A T : (Has(got, T) => Has(evs, T)) /\ (One(evs, T) => One(got, T))
    BY <1>1, RoomIs
  <1>3. rings' = [rings EXCEPT ![s] = new] BY DEF Record
  <1> HIDE DEF got
  <1>4. /\ new \in Seq(Event) /\ Len(new) <= MaxRing
        /\ \A T : /\ Has(new, T) <=> Has(rings[s], T) \/ Has(got, T)
                  /\ One(rings[s], T) /\ One(got, T) /\ ~(Has(rings[s], T) /\ Has(got, T)) => One(new, T)
    <2>1. rings[s] \in Seq(Event) BY <1>1
    <2>2. Len(new) = Len(rings[s]) + Len(got) BY <1>2, <2>1
    <2>3. Len(new) <= MaxRing
      <3> HIDE DEF new
      <3> QED BY <1>2, <2>2
    <2> QED BY <1>2, <2>1, <2>3, HasConcat
  <1> HIDE DEF new
  <1>5. \A r \in Shards : rings'[r] = IF r = s THEN new ELSE rings[r] BY <1>1, <1>3
  <1>6. Types'
    <2>1. rings' \in [Shards -> Seq(Event)] BY <1>1, <1>3, <1>4
    <2>2. \A r \in Shards : Len(rings'[r]) <= MaxRing BY <1>1, <1>4, <1>5 DEF PathTypes
    <2>3. PathTypes' BY <2>1, <2>2, TypesUnfold DEF PathTypes
    <2> QED BY <2>3, TypesUnfold, ConsumerFrame, CleanerFrame, StoreFrame DEF storeVars
  <1>7. ASSUME NEW x PROVE Alone(x)'
    <2>1. OncePath(x) /\ OnceHeap(x) /\ OnceOut(x) /\ OnePlace(x) BY DEF CInv, Alone
    <2>2. /\ InLeft(x)' => InLeft(x)
          /\ One(got, EvWith(x)) /\ (Has(got, EvWith(x)) => InLeft(x) /\ ~InLeft(x)')
      BY <1>2
    <2>3. Has(got, EvWith(x)) => ~InRings(x) BY <2>1, <2>2 DEF OnePlace
    <2>4. \A r \in Shards : Has(rings'[r], EvWith(x)) <=> Has(rings[r], EvWith(x)) \/ (r = s /\ Has(got, EvWith(x)))
      BY <1>4, <1>5
    <2>5. InRings(x)' <=> InRings(x) \/ Has(got, EvWith(x)) BY <2>4 DEF InRings
    <2>6. \A r \in Shards : Has(got, EvWith(x)) => ~Has(rings[r], EvWith(x)) BY <2>3 DEF InRings
    <2>7. \A r \in Shards : One(rings'[r], EvWith(x)) BY <1>4, <1>5, <2>1, <2>2, <2>6 DEF OncePath
    <2>8. \A r, t \in Shards : Has(rings'[r], EvWith(x)) /\ Has(rings'[t], EvWith(x)) => r = t
      BY <2>1, <2>4, <2>6 DEF OncePath
    <2>9. OncePath(x)'
      <3>1. \A r \in Shards : Sends(r, x)' = Sends(r, x) BY DEF Sends
      <3>2. channel' = channel OBVIOUS
      <3> QED BY <2>1, <2>7, <2>8, <3>1, <3>2 DEF OncePath
    <2>10. /\ InSends(x)' = InSends(x) /\ InChannel(x)' = InChannel(x) /\ InHand(x)' = InHand(x) /\ InHeap(x)' = InHeap(x)
           /\ LiveInHeap(x)' = LiveInHeap(x) /\ InOut(x)' = InOut(x) /\ InCleanerOut(x)' = InCleanerOut(x)
           /\ InEmitted(x)' = InEmitted(x)
      BY DEF InSends, Sends, InChannel, InHand, InHeap, LiveInHeap, InOut, InCleanerOut, InEmitted, storeVars
    <2>11. OnceHeap(x)' /\ OnceOut(x)' BY <2>1 DEF OnceHeap, OnceOut, storeVars
    <2>12. OnePlace(x)' BY <2>1, <2>2, <2>5, <2>10 DEF OnePlace, Out
    <2> QED BY <2>9, <2>11, <2>12 DEF Alone
  <1> QED BY <1>6, <1>7 DEF CInv

LEMMA CarryKeeps ==
  ASSUME CInv, NEW side \in {"req", "resp"}, NEW n \in 1 .. MaxChunk, Carry(side, n)
  PROVE  CInv'
  <1> DEFINE q == left[side]
             rest == SubSeq(left[side], n + 1, Len(left[side]))
  <1>1. /\ n <= Len(q) /\ left' = [left EXCEPT ![side] = rest]
        /\ UNCHANGED <<scenario, closed, libssl, tuple, shard, flow, channel, main, storeVars, consumer, cleaner, emitted>>
    BY DEF Carry, MayCarry
  <1>2. PICK s \in Shards, what \in SUBSET Fault : Transfer(side, n, s, what)
    <2>1. Home \in Shards BY LimitsAssumption DEF Home
    <2> QED BY <2>1 DEF Carry, Fault
  <1> DEFINE cut == "cut" \in what
             evs == Captured(side, n, cut)
  <1>3. ConnTypes /\ n \in Nat \ {0} /\ cut \in BOOLEAN
    <2>1. MaxChunk \in Nat BY LimitsAssumption
    <2> QED BY <2>1, TypesUnfold
  <1>4. /\ evs \in Seq(Event)
        /\ \A x : One(evs, EvWith(x)) /\ (Has(evs, EvWith(x)) => Has(SubSeq(q, 1, n), Mark(x)))
    <2> HIDE DEF cut
    <2> QED BY <1>1, <1>3, CapturedIs
  <1>5. Record(evs, s, what) /\ nextSeq' = nextSeq + Room(evs, s) BY <1>2 DEF Transfer, Record
  <1> HIDE DEF evs
  <1>6. /\ left \in [{"req", "resp"} -> Seq(Tok)] /\ q \in Seq(Tok) /\ nextSeq \in Nat
        /\ ~(Has(left.req, Strange) /\ Has(left.req, Loud)) /\ ~Has(left.resp, Strange)
        /\ \A x : /\ One(left.req, Mark(x)) /\ One(left.resp, Mark(x))
                  /\ ~(Has(left.req, Mark(x)) /\ Has(left.resp, Mark(x)))
    BY <1>3 DEF ConnTypes
  <1>7. rest = SubSeq(q, n + 1, Len(q)) OBVIOUS
  <1>8. (side = "req" => q = left.req) /\ (side = "resp" => q = left.resp) OBVIOUS
  <1> HIDE DEF q, rest
  <1>9. /\ Len(q) \in Nat /\ n + 1 \in 1 .. Len(q) + 1 /\ Len(q) \in (n + 1) - 1 .. Len(q)
        /\ n \in 0 .. Len(q) /\ n + 1 \in n + 1 .. Len(q) + 1
    <2>1. Len(q) \in Nat BY <1>6
    <2> QED BY <1>1, <1>3, <2>1
  <1>10. rest \in Seq(Tok) BY <1>6, <1>7, <1>9, SubSeqIs
  <1>11. \A T : (Has(rest, T) => Has(q, T)) /\ (One(q, T) => One(rest, T))
    <2> SUFFICES ASSUME NEW T PROVE (Has(rest, T) => Has(q, T)) /\ (One(q, T) => One(rest, T)) OBVIOUS
    <2> QED BY <1>6, <1>7, <1>9, HasSub
  <1>12. \A T : One(q, T) => ~(Has(SubSeq(q, 1, n), T) /\ Has(rest, T))
    <2> SUFFICES ASSUME NEW T, One(q, T) PROVE ~(Has(SubSeq(q, 1, n), T) /\ Has(rest, T)) OBVIOUS
    <2> QED BY <1>6, <1>7, <1>9, HasParts
  <1>13. \A T : Has(SubSeq(q, 1, n), T) => Has(q, T)
    <2> SUFFICES ASSUME NEW T PROVE Has(SubSeq(q, 1, n), T) => Has(q, T) OBVIOUS
    <2>1. 1 \in 1 .. Len(q) + 1 /\ n \in 1 - 1 .. Len(q) BY <1>9
    <2> QED BY <1>6, <2>1, HasSub
  <1>14. /\ left' \in [{"req", "resp"} -> Seq(Tok)]
         /\ left'.req = IF side = "req" THEN rest ELSE left.req
         /\ left'.resp = IF side = "resp" THEN rest ELSE left.resp
    BY <1>1, <1>6, <1>10
  <1>15. /\ ~(Has(left'.req, Strange) /\ Has(left'.req, Loud)) /\ ~Has(left'.resp, Strange)
         /\ \A x : /\ One(left'.req, Mark(x)) /\ One(left'.resp, Mark(x))
                   /\ ~(Has(left'.req, Mark(x)) /\ Has(left'.resp, Mark(x)))
    <2>1. CASE side = "req" BY <1>6, <1>8, <1>11, <1>14, <2>1
    <2>2. CASE side = "resp" BY <1>6, <1>8, <1>11, <1>14, <2>2
    <2> QED BY <2>1, <2>2
  <1>16. ConnTypes'
    <2>1. nextSeq' \in Nat
      <3>1. Room(evs, s) \in Nat BY <1>4, TypesUnfold, RoomIs
      <3> QED BY <1>5, <1>6, <3>1
    <2> QED BY <1>1, <1>3, <1>14, <1>15, <2>1 DEF ConnTypes
  <1>17. ASSUME NEW x
         PROVE  /\ InLeft(x)' => InLeft(x)
                /\ One(evs, EvWith(x))
                /\ Has(evs, EvWith(x)) => InLeft(x) /\ ~InLeft(x)'
    <2>1. One(q, Mark(x)) BY <1>6, <1>8
    <2>2. One(evs, EvWith(x)) /\ (Has(evs, EvWith(x)) => Has(q, Mark(x)) /\ ~Has(rest, Mark(x)))
      BY <1>4, <1>12, <1>13, <2>1
    <2>3. Has(rest, Mark(x)) => Has(q, Mark(x)) BY <1>11
    <2>4. CASE side = "req"
      <3>1. q = left.req /\ rest = left'.req /\ left'.resp = left.resp BY <1>8, <1>14, <2>4
      <3> QED BY <1>6, <2>2, <2>3, <3>1 DEF InLeft
    <2>5. CASE side = "resp"
      <3>1. q = left.resp /\ rest = left'.resp /\ left'.req = left.req BY <1>8, <1>14, <2>5
      <3> QED BY <1>6, <2>2, <2>3, <3>1 DEF InLeft
    <2> QED BY <2>4, <2>5
  <1> QED BY <1>1, <1>4, <1>5, <1>16, <1>17, RecordKeeps

LEMMA CarryCloseKeeps ==
  ASSUME CInv, CarryClose
  PROVE  CInv'
  <1> DEFINE e == [type |-> "close", seq |-> nextSeq, known |-> tuple]
             evs == <<e>>
  <1>1. /\ Record(evs, Home, {}) /\ nextSeq' = nextSeq + Room(evs, Home) /\ closed' = TRUE
        /\ UNCHANGED <<scenario, left, libssl, tuple, shard, flow, channel, main, storeVars, consumer, cleaner, emitted>>
    BY DEF CarryClose, Record
  <1>2. Home \in Shards BY LimitsAssumption DEF Home
  <1>3. ConnTypes BY TypesUnfold
  <1>4. e \in CloseEvents BY <1>3 DEF ConnTypes, CloseEvents
  <1>5. \A x : e \notin EvWith(x) BY DEF EvWith, Data, DataEvents
  <1> HIDE DEF e
  <1>6. e \in Event BY <1>4 DEF Event
  <1>7. evs \in Seq(Event) /\ \A T : One(evs, T) /\ (Has(evs, T) <=> e \in T) BY <1>6, SingleEvent
  <1> HIDE DEF evs
  <1>8. ConnTypes'
    <2>1. nextSeq' \in Nat
      <3>1. Room(evs, Home) \in Nat BY <1>2, <1>7, TypesUnfold, RoomIs
      <3> QED BY <1>1, <1>3, <3>1 DEF ConnTypes
    <2> QED BY <1>1, <1>3, <2>1 DEF ConnTypes
  <1>9. \A x : InLeft(x)' = InLeft(x) /\ One(evs, EvWith(x)) /\ ~Has(evs, EvWith(x)) BY <1>1, <1>5, <1>7 DEF InLeft
  <1> QED BY <1>1, <1>2, <1>7, <1>8, <1>9, RecordKeeps

(* A reader takes an event: it sends it on, or refuses it. *)
LEMMA ReadEventKeeps ==
  ASSUME CInv, NEW s \in Shards, ReadEvent(s)
  PROVE  CInv'
  <1> DEFINE ev == Head(rings[s])
             q == Tail(rings[s])
  <1>1. /\ main = "run" /\ shard[s].pc = "read" /\ rings[s] # <<>> /\ rings' = [rings EXCEPT ![s] = q]
        /\ flow' = allow(ev)
        /\ \/ shard' = [shard EXCEPT ![s] = [pc |-> "send", ev |-> ev]]
           \/ shard' = shard
        /\ tuple' \in {remember(ev), forget(ev)}
        /\ UNCHANGED <<appVars, libssl, channel, main, heap, fresh, current, consumer, cleaner, emitted>>
    BY DEF ReadEvent, storeVars
  <1>2. ConnTypes /\ PathTypes BY TypesUnfold
  <1>3. rings \in [Shards -> Seq(Event)] /\ shard \in [Shards -> ShardState] /\ rings[s] \in Seq(Event) BY <1>2 DEF PathTypes
  <1>4. /\ q \in Seq(Event) /\ ev \in Event
        /\ \A T : /\ Has(rings[s], T) <=> ev \in T \/ Has(q, T)
                  /\ One(rings[s], T) => One(q, T) /\ ~(ev \in T /\ Has(q, T))
    BY <1>1, <1>3, HasTail
  <1>5. flow' \in {"none", "allow", "deny"}
    <2>1. flow \in {"none", "allow", "deny"} BY <1>2 DEF PathTypes
    <2>2. allow(ev) \in {flow, "none", "allow", "deny"} BY DEF allow
    <2> QED BY <1>1, <2>1, <2>2
  <1>6. tuple' \in Known
    <2>1. tuple \in Known BY <1>2 DEF ConnTypes
    <2>2. forget(ev) \in {"none", tuple} BY DEF forget
    <2>3. remember(ev) \in {"both", forget(ev)} BY DEF remember
    <2> QED BY <1>1, <2>1, <2>2, <2>3 DEF Known
  <1> HIDE DEF ev, q
  <1>7. \A r \in Shards : rings'[r] = IF r = s THEN q ELSE rings[r] BY <1>1, <1>3
  <1>8. /\ \A r \in Shards : r # s => shard'[r] = shard[r]
        /\ shard'[s].pc = "send" => shard'[s].ev = ev
        /\ shard'[s] \in ShardState
    <2>1. CASE shard' = shard BY <1>1, <1>3, <2>1
    <2>2. CASE shard' = [shard EXCEPT ![s] = [pc |-> "send", ev |-> ev]]
      <3>1. [pc |-> "send", ev |-> ev] \in ShardState BY <1>4 DEF ShardState
      <3>2. shard'[s] = [pc |-> "send", ev |-> ev] /\ \A r \in Shards : r # s => shard'[r] = shard[r] BY <1>3, <2>2
      <3> QED BY <3>1, <3>2
    <2> QED BY <1>1, <2>1, <2>2
  <1>9. Types'
    <2>1. rings' \in [Shards -> Seq(Event)] BY <1>1, <1>3, <1>4
    <2>2. shard' \in [Shards -> ShardState]
      <3>1. shard' = [r \in Shards |-> shard'[r]] BY <1>1, <1>3
      <3>2. \A r \in Shards : shard'[r] \in ShardState BY <1>3, <1>8
      <3> QED BY <3>1, <3>2
    <2>3. \A r \in Shards : shard'[r].pc = "send" => shard'[r].ev \in Event
      BY <1>2, <1>4, <1>8 DEF PathTypes
    <2>4. \A r \in Shards : Len(rings'[r]) <= MaxRing
      <3>1. Len(rings[s]) <= MaxRing /\ MaxRing \in Nat BY <1>2, LimitsAssumption DEF PathTypes
      <3>2. Len(q) = Len(rings[s]) - 1 /\ Len(rings[s]) \in Nat BY <1>1, <1>3 DEF q
      <3>3. Len(q) <= MaxRing BY <3>1, <3>2
      <3> QED BY <1>2, <1>7, <3>3 DEF PathTypes
    <2>5. PathTypes' BY <1>1, <1>2, <1>5, <2>1, <2>2, <2>3, <2>4 DEF PathTypes
    <2>6. ConnTypes' BY <1>1, <1>2, <1>6 DEF ConnTypes, appVars
    <2> QED BY <1>1, <2>5, <2>6, TypesUnfold, ConsumerFrame, CleanerFrame, StoreFrame
  <1>10. ASSUME NEW x PROVE Alone(x)'
    <2>1. OncePath(x) /\ OnceHeap(x) /\ OnceOut(x) /\ OnePlace(x) BY DEF CInv, Alone
    <2> DEFINE T == EvWith(x)
    <2>2. /\ Has(rings[s], T) <=> ev \in T \/ Has(q, T)
          /\ One(rings[s], T) => One(q, T) /\ ~(ev \in T /\ Has(q, T))
      BY <1>4
    <2> HIDE DEF T
    <2>3. \A r \in Shards : One(rings[r], T) BY <2>1 DEF OncePath, T
    <2>4. \A r, t \in Shards : Has(rings[r], T) /\ Has(rings[t], T) => r = t BY <2>1 DEF OncePath, T
    <2>5. \A r \in Shards : One(rings'[r], T) /\ (Has(rings'[r], T) => Has(rings[r], T)) BY <1>7, <2>2, <2>3
    <2>6. InRings(x)' => InRings(x) BY <2>5 DEF InRings, T
    <2>7. ev \in T => InRings(x) /\ ~InRings(x)'
      <3>1. ev \in T => Has(rings[s], T) BY <2>2
      <3>2. ev \in T => \A r \in Shards : ~Has(rings'[r], T) BY <1>7, <2>2, <2>3, <2>4
      <3> QED BY <3>1, <3>2 DEF InRings, T
    <2>8. \A r \in Shards : Sends(r, x)' => Sends(r, x) \/ (r = s /\ ev \in T) BY <1>8 DEF Sends, T
    <2>9. InSends(x)' => InSends(x) \/ ev \in T BY <2>8 DEF InSends
    <2>10. \A r, t \in Shards : Sends(r, x)' /\ Sends(t, x)' => r = t
      <3>1. ev \in T => ~InSends(x) BY <2>1, <2>7 DEF OnePlace
      <3>2. \A r \in Shards : ev \in T => ~Sends(r, x) BY <3>1 DEF InSends
      <3>3. \A r, t \in Shards : Sends(r, x) /\ Sends(t, x) => r = t BY <2>1 DEF OncePath
      <3> QED BY <2>8, <3>2, <3>3
    <2>11. OncePath(x)'
      <3>1. \A r \in Shards : One(rings'[r], EvWith(x)) BY <2>5 DEF T
      <3>2. \A r, t \in Shards : Has(rings'[r], EvWith(x)) /\ Has(rings'[t], EvWith(x)) => r = t BY <2>4, <2>5 DEF T
      <3>3. channel' = channel /\ One(channel, EvWith(x)) BY <1>1, <2>1 DEF OncePath
      <3> QED BY <2>10, <3>1, <3>2, <3>3 DEF OncePath
    <2>12. /\ InLeft(x)' = InLeft(x) /\ InChannel(x)' = InChannel(x) /\ InHand(x)' = InHand(x) /\ InHeap(x)' = InHeap(x)
           /\ LiveInHeap(x)' = LiveInHeap(x) /\ InOut(x)' = InOut(x) /\ InCleanerOut(x)' = InCleanerOut(x)
           /\ InEmitted(x)' = InEmitted(x)
      BY <1>1 DEF InLeft, InChannel, InHand, InHeap, LiveInHeap, InOut, InCleanerOut, InEmitted, appVars
    <2>13. OnceHeap(x)' /\ OnceOut(x)' BY <1>1, <2>1 DEF OnceHeap, OnceOut
    <2>14. OnePlace(x)' BY <2>1, <2>6, <2>7, <2>9, <2>12 DEF OnePlace, Out
    <2> QED BY <2>11, <2>13, <2>14 DEF Alone
  <1> QED BY <1>9, <1>10 DEF CInv

LEMMA SendEventKeeps ==
  ASSUME CInv, NEW s \in Shards, SendEvent(s)
  PROVE  CInv'
  <1> DEFINE ev == shard[s].ev
  <1>1. /\ main # "exit" /\ shard[s].pc = "send" /\ shard' = [shard EXCEPT ![s] = Reading]
        /\ \/ Len(channel) < ChannelSize /\ channel' = Append(channel, ev)
           \/ channel' = channel
        /\ UNCHANGED <<appVars, libssl, tuple, rings, flow, main, heap, fresh, current, consumer, cleaner, emitted>>
    BY DEF SendEvent, storeVars
  <1>2. PathTypes BY TypesUnfold
  <1>3. shard \in [Shards -> ShardState] /\ channel \in Seq(Event) /\ ev \in Event BY <1>1, <1>2 DEF PathTypes
  <1>4. main \notin {"close", "exit"} BY <1>1, <1>2 DEF PathTypes
  <1> HIDE DEF ev
  <1>5. \A r \in Shards : (r # s => shard'[r] = shard[r]) /\ shard'[s].pc = "read"
    BY <1>1, <1>3 DEF Reading
  <1>6. /\ channel' \in Seq(Event) /\ Len(channel') <= ChannelSize
        /\ \A T : /\ Has(channel', T) => Has(channel, T) \/ ev \in T
                  /\ One(channel, T) /\ ~(Has(channel, T) /\ ev \in T) => One(channel', T)
    <2>1. CASE channel' = channel BY <1>2, <1>3, <2>1 DEF PathTypes
    <2>2. CASE Len(channel) < ChannelSize /\ channel' = Append(channel, ev)
      <3>1. Len(channel') = Len(channel) + 1 /\ Len(channel) \in Nat BY <1>3, <2>2
      <3>2. Len(channel') <= ChannelSize BY <2>2, <3>1, LimitsAssumption
      <3>3. channel' \in Seq(Event) BY <1>3, <2>2, HasAppend
      <3>4. ASSUME NEW T PROVE /\ Has(channel', T) => Has(channel, T) \/ ev \in T
                               /\ One(channel, T) /\ ~(Has(channel, T) /\ ev \in T) => One(channel', T)
        BY <1>3, <2>2, HasAppend
      <3> QED BY <3>2, <3>3, <3>4
    <2> QED BY <1>1, <2>1, <2>2
  <1>7. Types'
    <2>1. shard' \in [Shards -> ShardState] BY <1>1, <1>3 DEF Reading, ShardState
    <2>2. \A r \in Shards : shard'[r].pc = "send" => shard'[r].ev \in Event BY <1>2, <1>5 DEF PathTypes
    <2>3. PathTypes' BY <1>1, <1>2, <1>4, <1>6, <2>1, <2>2 DEF PathTypes
    <2> QED BY <1>1, <2>3, TypesUnfold, ConnFrame, ConsumerFrame, CleanerFrame, StoreFrame
  <1>8. ASSUME NEW x PROVE Alone(x)'
    <2>1. OncePath(x) /\ OnceHeap(x) /\ OnceOut(x) /\ OnePlace(x) BY DEF CInv, Alone
    <2>2. ev \in EvWith(x) => Sends(s, x) BY <1>1 DEF Sends, ev
    <2>3. ev \in EvWith(x) => InSends(x) BY <2>2 DEF InSends
    <2>4. \A r \in Shards : Sends(r, x)' => Sends(r, x) /\ r # s BY <1>5 DEF Sends
    <2>5. InSends(x)' => InSends(x) BY <2>4 DEF InSends
    <2>6. \A r, t \in Shards : Sends(r, x) /\ Sends(t, x) => r = t BY <2>1 DEF OncePath
    <2>7. ev \in EvWith(x) => ~InSends(x)' BY <2>2, <2>4, <2>6 DEF InSends
    <2>8. InChannel(x)' => InChannel(x) \/ ev \in EvWith(x) BY <1>6 DEF InChannel
    <2>9. One(channel', EvWith(x))
      <3>1. One(channel, EvWith(x)) BY <2>1 DEF OncePath
      <3>2. ~(Has(channel, EvWith(x)) /\ ev \in EvWith(x)) BY <2>1, <2>3 DEF OnePlace, InChannel
      <3> QED BY <1>6, <3>1, <3>2
    <2>10. OncePath(x)' BY <1>1, <2>1, <2>4, <2>6, <2>9 DEF OncePath
    <2>11. /\ InLeft(x)' = InLeft(x) /\ InRings(x)' = InRings(x) /\ InHand(x)' = InHand(x) /\ InHeap(x)' = InHeap(x)
           /\ LiveInHeap(x)' = LiveInHeap(x) /\ InOut(x)' = InOut(x) /\ InCleanerOut(x)' = InCleanerOut(x)
           /\ InEmitted(x)' = InEmitted(x)
      BY <1>1 DEF InLeft, InRings, InHand, InHeap, LiveInHeap, InOut, InCleanerOut, InEmitted, appVars
    <2>12. OnceHeap(x)' /\ OnceOut(x)' BY <1>1, <2>1 DEF OnceHeap, OnceOut
    <2>13. OnePlace(x)' BY <2>1, <2>3, <2>5, <2>7, <2>8, <2>11 DEF OnePlace, Out
    <2> QED BY <2>10, <2>12, <2>13 DEF Alone
  <1> QED BY <1>7, <1>8 DEF CInv

LEMMA ReceiveKeeps ==
  ASSUME CInv, Receive
  PROVE  CInv'
  <1>1. /\ consumer.pc = "receive"
        /\ UNCHANGED <<appVars, libssl, tuple, rings, shard, flow, main, heap, fresh, current, cleaner, emitted>>
    BY DEF Receive, consumerFrame, captureVars, storeVars
  <1>2. ConsumerTypes /\ PathTypes /\ 0 \in 0 .. fresh /\ consumer.out = <<>>
    BY <1>1, TypesUnfold DEF StoreTypes, ConsumerTypes
  <1>3. CASE channel = <<>> /\ consumer' = [Receiving EXCEPT !.pc = "done"] /\ channel' = channel
    <2>1. consumer' = [pc |-> "done", ev |-> NoEvent, sid |-> 0, out |-> <<>>] BY <1>3 DEF Receiving
    <2>2. ConsumerTypes' BY <1>1, <1>2, <2>1, NothingIs DEF ConsumerTypes
    <2>3. Types' BY <1>1, <1>3, <2>2, TypesUnfold, ConnFrame, PathFrame, CleanerFrame, StoreFrame
    <2>4. consumer'.pc = "done" /\ consumer'.out = consumer.out BY <1>2, <2>1
    <2> QED BY <1>1, <1>3, <2>3, <2>4, QuietKeeps DEF appVars
  <1>4. CASE channel # <<>> /\ consumer' = [Receiving EXCEPT !.pc = "find", !.ev = Head(channel)] /\ channel' = Tail(channel)
    <2> DEFINE ev == Head(channel)
    <2>1. channel \in Seq(Event) /\ Len(channel) <= ChannelSize BY <1>2 DEF PathTypes
    <2>2. /\ channel' \in Seq(Event) /\ ev \in Event /\ Len(channel') < Len(channel)
          /\ \A T : /\ Has(channel, T) <=> ev \in T \/ Has(channel', T)
                    /\ One(channel, T) => One(channel', T) /\ ~(ev \in T /\ Has(channel', T))
      BY <1>4, <2>1, HasTail
    <2>3. consumer' = [pc |-> "find", ev |-> ev, sid |-> 0, out |-> <<>>] BY <1>4 DEF Receiving
    <2> HIDE DEF ev
    <2>4. Types'
      <3>1. ConsumerTypes' BY <1>1, <1>2, <2>2, <2>3, NothingIs DEF ConsumerTypes
      <3>2. Len(channel') <= ChannelSize
        <4>1. Len(channel') \in Nat /\ Len(channel) \in Nat /\ ChannelSize \in Nat BY <2>1, <2>2, LimitsAssumption
        <4> QED BY <2>1, <2>2, <4>1
      <3>3. PathTypes' BY <1>1, <1>2, <2>2, <3>2 DEF PathTypes
      <3> QED BY <1>1, <3>1, <3>3, TypesUnfold, ConnFrame, CleanerFrame, StoreFrame
    <2>5. ASSUME NEW x PROVE Alone(x)'
      <3>1. OncePath(x) /\ OnceHeap(x) /\ OnceOut(x) /\ OnePlace(x) BY DEF CInv, Alone
      <3>2. One(channel, EvWith(x)) BY <3>1 DEF OncePath
      <3>3. /\ InChannel(x)' => InChannel(x)
            /\ ev \in EvWith(x) => InChannel(x) /\ ~InChannel(x)'
            /\ One(channel', EvWith(x))
        BY <2>2, <3>2 DEF InChannel
      <3>4. InHand(x)' <=> ev \in EvWith(x) BY <2>3 DEF InHand
      <3>5. InOut(x)' = InOut(x) /\ OnceOut(x)' BY <1>1, <1>2, <2>3, <3>1 DEF InOut, OnceOut
      <3>6. /\ InLeft(x)' = InLeft(x) /\ InRings(x)' = InRings(x) /\ InSends(x)' = InSends(x) /\ InHeap(x)' = InHeap(x)
            /\ LiveInHeap(x)' = LiveInHeap(x) /\ InCleanerOut(x)' = InCleanerOut(x) /\ InEmitted(x)' = InEmitted(x)
        BY <1>1 DEF InLeft, InRings, InSends, Sends, InHeap, LiveInHeap, InCleanerOut, InEmitted, appVars
      <3>7. \A s \in Shards : Sends(s, x)' = Sends(s, x) BY <1>1 DEF Sends
      <3>8. OncePath(x)' BY <1>1, <3>1, <3>3, <3>7 DEF OncePath
      <3>9. OnceHeap(x)' BY <1>1, <3>1 DEF OnceHeap
      <3>10. OnePlace(x)' BY <3>1, <3>3, <3>4, <3>5, <3>6 DEF OnePlace, Out
      <3> QED BY <3>5, <3>8, <3>9, <3>10 DEF Alone
    <2> QED BY <2>4, <2>5 DEF CInv
  <1> QED BY <1>3, <1>4 DEF Receive

-----------------------------------------------------------------------------
(* Draining and emitting *)

LEMMA EmittingIs ==
  ASSUME ConsumerTypes, StoreTypes, consumer.pc \in {"lock", "emit"}, NEW out \in Seq(Conv), consumer' = Emitting(out), fresh' = fresh
  PROVE  ConsumerTypes' /\ consumer'.out = out /\ consumer'.pc \notin {"find", "lock"}
  <1>1. /\ consumer.ev \in Event /\ consumer.sid \in 0 .. fresh /\ consumer.sid # 0 /\ 0 \in 0 .. fresh
        /\ consumer = [pc |-> consumer.pc, ev |-> consumer.ev, sid |-> consumer.sid, out |-> consumer.out]
    BY DEF ConsumerTypes, StoreTypes
  <1>2. CASE out # <<>>
    <2>1. consumer' = [pc |-> "emit", ev |-> consumer.ev, sid |-> consumer.sid, out |-> out]
      BY <1>1, <1>2 DEF Emitting
    <2> QED BY <1>1, <1>2, <2>1 DEF ConsumerTypes
  <1>3. CASE out = <<>> /\ consumer.ev.type = "close"
    <2>1. consumer' = [pc |-> "remove", ev |-> consumer.ev, sid |-> consumer.sid, out |-> <<>>]
      BY <1>1, <1>3 DEF Emitting, AfterUnlock
    <2>2. ConsumerTypes' BY <1>1, <2>1, NothingIs DEF ConsumerTypes
    <2>3. consumer'.out = <<>> /\ consumer'.pc = "remove" BY <2>1
    <2> QED BY <1>3, <2>2, <2>3
  <1>4. CASE out = <<>> /\ consumer.ev.type # "close"
    <2>1. consumer' = [pc |-> "receive", ev |-> NoEvent, sid |-> 0, out |-> <<>>]
      BY <1>4 DEF Emitting, AfterUnlock, Receiving
    <2>2. ConsumerTypes' BY <1>1, <2>1, NothingIs DEF ConsumerTypes
    <2>3. consumer'.out = <<>> /\ consumer'.pc = "receive" BY <2>1
    <2> QED BY <1>4, <2>2, <2>3
  <1> QED BY <1>2, <1>3, <1>4

LEMMA CleanerEmittingIs ==
  ASSUME CleanerTypes, StoreTypes, cleaner.pc \in {"drain", "emit"}, NEW out \in Seq(Conv), cleaner' = CleanerEmitting(out), fresh' = fresh
  PROVE  CleanerTypes' /\ cleaner'.out = out
  <1>1. /\ cleaner.sid \in 0 .. fresh /\ cleaner.sid # 0 /\ 0 \in 0 .. fresh
        /\ cleaner = [pc |-> cleaner.pc, sid |-> cleaner.sid, out |-> cleaner.out]
    BY DEF CleanerTypes, StoreTypes
  <1>2. CASE out # <<>>
    <2>1. cleaner' = [pc |-> "emit", sid |-> cleaner.sid, out |-> out] BY <1>1, <1>2 DEF CleanerEmitting
    <2> QED BY <1>1, <1>2, <2>1 DEF CleanerTypes
  <1>3. CASE out = <<>>
    <2>1. cleaner' = [pc |-> "tick", sid |-> 0, out |-> <<>>] BY <1>3 DEF CleanerEmitting, Waiting
    <2>2. CleanerTypes' BY <1>1, <2>1, NothingIs DEF CleanerTypes
    <2>3. cleaner'.out = <<>> BY <2>1
    <2> QED BY <1>3, <2>2, <2>3
  <1> QED BY <1>2, <1>3

(* A session is drained, after the tokens of an event were added to it: what*)
(* it hands over was in it or in the event, and is there no more.           *)
LEMMA SessionKeeps ==
  ASSUME CInv, Types', NEW sid \in 1 .. MaxSessions, NEW toks, NEW r, DeliverOK(heap[sid], toks, r),
         heap' = [heap EXCEPT ![sid] = r.st], UNCHANGED <<left, rings, shard, channel, emitted>>,
         \A x : /\ One(toks, Mark(x)) /\ (Has(toks, Mark(x)) => InHand(x))
                /\ InHand(x)' => InHand(x) /\ ~Has(toks, Mark(x)),
         \/ consumer.out = <<>> /\ consumer'.out = r.out /\ cleaner'.out = cleaner.out
         \/ cleaner.out = <<>> /\ cleaner'.out = r.out /\ consumer'.out = consumer.out
  PROVE  CInv'
  <1>1. heap \in [1 .. MaxSessions -> Session] BY TypesUnfold DEF StoreTypes
  <1>2. \A i \in 1 .. MaxSessions : heap'[i] = IF i = sid THEN r.st ELSE heap[i] BY <1>1
  <1>3. ASSUME NEW x PROVE Alone(x)'
    <2> DEFINE New == Has(toks, Mark(x))
               old == heap[sid]
    <2>1. OncePath(x) /\ OnceHeap(x) /\ OnceOut(x) /\ OnePlace(x) BY DEF CInv, Alone
    <2>2. One(toks, Mark(x)) /\ (New => InHand(x)) /\ (InHand(x)' => InHand(x) /\ ~New) OBVIOUS
    <2>3. New => ~InHeap(x) /\ ~Out(x) BY <2>1, <2>2 DEF OnePlace
    <2>4. New => \A i \in 1 .. MaxSessions : ~InSt(heap[i], x) BY <2>3 DEF InHeap
    <2>5. \A i \in 1 .. MaxSessions : LoneSt(heap[i], x) BY <2>1 DEF OnceHeap
    <2>6. LoneRes(r, x) /\ (HasRes(r, x) => HasX(old, x) \/ New) /\ (InSt(r.st, x) => InSt(old, x) \/ New)
      <3>1. LoneSt(old, x) /\ ~(New /\ InSt(old, x)) BY <2>4, <2>5
      <3> QED BY <2>2, <3>1 DEF DeliverOK
    <2>7. /\ LoneSt(r.st, x) /\ One(r.out, ConvOf(x)) /\ ~(HasX(r.st, x) /\ Has(r.out, ConvOf(x)))
          /\ HasX(r.st, x) => HasX(old, x) \/ New
          /\ Has(r.out, ConvOf(x)) => HasX(old, x) \/ New
      BY <2>6 DEF LoneRes, HasRes
    <2>8. \A i \in 1 .. MaxSessions : HasX(heap[i], x) => InSt(heap[i], x) BY HasThenIn
    <2>9. InSt(r.st, x) => InSt(old, x) \/ New BY <2>6
    <2> HIDE DEF New, old
    <2>10. \A i, j \in 1 .. MaxSessions : InSt(heap[i], x) /\ InSt(heap[j], x) => i = j BY <2>1 DEF OnceHeap
    <2>11. OnceHeap(x)'
      <3>1. \A i \in 1 .. MaxSessions : LoneSt(heap'[i], x) BY <1>2, <2>5, <2>7
      <3>2. \A i, j \in 1 .. MaxSessions : InSt(heap'[i], x) /\ InSt(heap'[j], x) => i = j
        BY <1>2, <2>4, <2>9, <2>10 DEF old
      <3> QED BY <3>1, <3>2 DEF OnceHeap
    <2>12. InHeap(x)' => InHeap(x) \/ New BY <1>2, <2>9 DEF InHeap, old
    <2>13. LiveInHeap(x)' => LiveInHeap(x) \/ New BY <1>2, <2>7 DEF LiveInHeap, old
    <2>14. Has(r.out, ConvOf(x)) => LiveInHeap(x) \/ New BY <2>7 DEF LiveInHeap, old
    <2>15. Has(r.out, ConvOf(x)) => ~LiveInHeap(x)'
      <3> SUFFICES ASSUME Has(r.out, ConvOf(x)), NEW i \in 1 .. MaxSessions, HasX(heap'[i], x) PROVE FALSE
        BY DEF LiveInHeap
      <3>1. i # sid /\ HasX(heap[i], x) BY <1>2, <2>7
      <3>2. InSt(heap[i], x) BY <2>8, <3>1
      <3>3. ~New BY <2>4, <3>2
      <3>4. InSt(heap[sid], x) BY <2>7, <2>8, <3>3 DEF old
      <3> QED BY <2>10, <3>1, <3>2, <3>4
    <2>16. OncePath(x)' /\ InLeft(x)' = InLeft(x) /\ InRings(x)' = InRings(x) /\ (InSends(x)' => InSends(x)) /\ InChannel(x)' = InChannel(x)
      BY <2>1, PathSame
    <2>17. InEmitted(x)' = InEmitted(x) BY DEF InEmitted
    <2>18. /\ OnceOut(x)'
           /\ InOut(x)' => InOut(x) \/ Has(r.out, ConvOf(x))
           /\ InCleanerOut(x)' => InCleanerOut(x) \/ Has(r.out, ConvOf(x))
           /\ InOut(x)' /\ InCleanerOut(x)' /\ Has(r.out, ConvOf(x)) => Out(x)
      BY <2>1, <2>7 DEF OnceOut, InOut, InCleanerOut, Out
    <2>19. LiveInHeap(x) => InHeap(x) BY <2>8 DEF LiveInHeap, InHeap
    <2>20. OnePlace(x)'
      BY <2>1, <2>2, <2>3, <2>12, <2>13, <2>14, <2>15, <2>16, <2>17, <2>18, <2>19 DEF OnePlace, Out
    <2> QED BY <2>11, <2>16, <2>18, <2>20 DEF Alone
  <1> QED BY <1>3 DEF CInv

LEMMA HeapTypes ==
  ASSUME StoreTypes, NEW sid \in 1 .. MaxSessions, NEW st, Bounded(st), heap' = [heap EXCEPT ![sid] = st],
         UNCHANGED <<fresh, current, emitted>>
  PROVE  StoreTypes'
  <1>1. st \in Session /\ heap \in [1 .. MaxSessions -> Session] BY DEF Bounded, Sound, StoreTypes
  <1>2. \A i \in 1 .. MaxSessions : heap'[i] = IF i = sid THEN st ELSE heap[i] BY <1>1
  <1>3. heap' \in [1 .. MaxSessions -> Session] BY <1>1
  <1>4. \A i \in 1 .. MaxSessions : Bounded(heap'[i]) BY <1>2 DEF StoreTypes
  <1> QED BY <1>3, <1>4 DEF StoreTypes

(* a drain is what an event without tokens may do *)
LEMMA DrainDelivers ==
  ASSUME scenario \in Scenario, NEW st, Bounded(st), NEW delimited \in BOOLEAN, NEW res \in drainStream(st, delimited)
  PROVE  DeliverOK(st, <<>>, res)
  <1>1. Bounded(res.st) /\ DrainOK(st, res) BY DrainBounded
  <1>2. res.out \in Seq(Conv) BY <1>1 DEF DrainOK, Result
  <1>3. \A x : InSt(res.st, x) => InSt(st, x) BY <1>1, DrainedIn
  <1> QED BY <1>1, <1>2, <1>3 DEF DeliverOK, DrainOK

LEMMA ProcessKeeps ==
  ASSUME CInv, Process
  PROVE  CInv'
  <1> DEFINE sid == consumer.sid
             ev == consumer.ev
             toks == IF ev.type = "data" THEN ev.toks ELSE <<>>
  <1>1. /\ consumer.pc = "lock"
        /\ UNCHANGED <<appVars, libssl, tuple, rings, shard, flow, main, channel, fresh, current, cleaner, emitted>>
    BY DEF Process, consumerFrame, captureVars
  <1>2. ConnTypes /\ ConsumerTypes /\ CleanerTypes /\ StoreTypes BY TypesUnfold
  <1>3. sid \in 1 .. MaxSessions /\ ev \in Event /\ consumer.out = <<>> /\ Bounded(heap[sid])
    <2>1. sid \in 0 .. fresh /\ sid # 0 /\ ev \in Event /\ consumer.out = <<>> BY <1>1, <1>2 DEF ConsumerTypes
    <2>2. fresh \in 0 .. MaxSessions /\ MaxSessions \in Nat BY <1>2, LimitsAssumption DEF StoreTypes
    <2> HIDE DEF sid
    <2>3. sid \in 1 .. MaxSessions BY <2>1, <2>2
    <2> QED BY <1>2, <2>1, <2>3 DEF StoreTypes
  <1>4. scenario \in Scenario BY <1>2, ScenariosAssumption DEF ConnTypes
  <1>5. PICK r : /\ heap' = [heap EXCEPT ![sid] = r.st] /\ consumer' = Emitting(r.out)
                 /\ \/ ev.type = "data" /\ r \in Processed(heap[sid], ev)
                    \/ ev.type = "close" /\ r \in drainStream(heap[sid], TRUE)
    BY DEF Process
  <1>6. ev.type = "data" => ev \in Data BY <1>3 DEF Event, CloseEvents
  <1>7. DeliverOK(heap[sid], toks, r)
    <2>1. CASE ev.type = "data" /\ r \in Processed(heap[sid], ev)
      BY <1>3, <1>4, <1>6, <2>1, ProcessedIs
    <2>2. CASE ev.type = "close" /\ r \in drainStream(heap[sid], TRUE)
      <3>1. toks = <<>> BY <2>2
      <3>2. DeliverOK(heap[sid], <<>>, r) BY <1>3, <1>4, <2>2, DrainDelivers
      <3> QED BY <3>1, <3>2
    <2> QED BY <1>5, <2>1, <2>2
  <1>8. ASSUME NEW x PROVE One(toks, Mark(x)) /\ (Has(toks, Mark(x)) => InHand(x))
    <2>1. CASE ev.type = "data"
      <3>1. toks = ev.toks /\ One(ev.toks, Mark(x)) BY <1>6, <2>1 DEF Data, Calm
      <3> QED BY <1>1, <1>6, <2>1, <3>1 DEF InHand, EvWith
    <2>2. CASE ev.type # "data" BY <2>2, NothingIs
    <2> QED BY <2>1, <2>2
  <1> HIDE DEF toks
  <1>9. Bounded(r.st) /\ r.out \in Seq(Conv) BY <1>7 DEF DeliverOK
  <1>10. ConsumerTypes' /\ consumer'.out = r.out /\ consumer'.pc \notin {"find", "lock"}
    BY <1>1, <1>2, <1>5, <1>9, EmittingIs
  <1>11. StoreTypes' BY <1>1, <1>2, <1>3, <1>5, <1>9, HeapTypes
  <1>12. Types' BY <1>1, <1>10, <1>11, TypesUnfold, ConnFrame, PathFrame, CleanerFrame
  <1>13. \A x : ~InHand(x)' BY <1>10 DEF InHand
  <1> QED BY <1>1, <1>3, <1>5, <1>7, <1>8, <1>10, <1>12, <1>13, SessionKeeps DEF appVars

LEMMA DrainExpiredKeeps ==
  ASSUME CInv, DrainExpired
  PROVE  CInv'
  <1> DEFINE sid == cleaner.sid
  <1>1. /\ cleaner.pc = "drain"
        /\ UNCHANGED <<appVars, libssl, tuple, rings, shard, flow, main, channel, fresh, current, consumer, emitted>>
    BY DEF DrainExpired, cleanerFrame, captureVars
  <1>2. ConnTypes /\ ConsumerTypes /\ CleanerTypes /\ StoreTypes BY TypesUnfold
  <1>3. sid \in 1 .. MaxSessions /\ cleaner.out = <<>> /\ Bounded(heap[sid])
    <2>1. sid \in 0 .. fresh /\ sid # 0 /\ cleaner.out = <<>> BY <1>1, <1>2 DEF CleanerTypes
    <2>2. fresh \in 0 .. MaxSessions /\ MaxSessions \in Nat BY <1>2, LimitsAssumption DEF StoreTypes
    <2> HIDE DEF sid
    <2>3. sid \in 1 .. MaxSessions BY <2>1, <2>2
    <2> QED BY <1>2, <2>1, <2>3 DEF StoreTypes
  <1>4. scenario \in Scenario BY <1>2, ScenariosAssumption DEF ConnTypes
  <1>5. PICK r \in drainStream(heap[sid], TRUE) : heap' = [heap EXCEPT ![sid] = r.st] /\ cleaner' = CleanerEmitting(r.out)
    BY DEF DrainExpired
  <1>6. DeliverOK(heap[sid], <<>>, r) BY <1>3, <1>4, DrainDelivers
  <1>7. Bounded(r.st) /\ r.out \in Seq(Conv) BY <1>6 DEF DeliverOK
  <1>8. CleanerTypes' /\ cleaner'.out = r.out BY <1>1, <1>2, <1>5, <1>7, CleanerEmittingIs
  <1>9. StoreTypes' BY <1>1, <1>2, <1>3, <1>5, <1>7, HeapTypes
  <1>10. Types' BY <1>1, <1>8, <1>9, TypesUnfold, ConnFrame, PathFrame, ConsumerFrame
  <1>11. \A x : One(<<>>, Mark(x)) /\ ~Has(<<>>, Mark(x)) /\ (InHand(x)' => InHand(x)) BY <1>1, NothingIs DEF InHand
  <1> QED BY <1>1, <1>3, <1>5, <1>6, <1>8, <1>10, <1>11, SessionKeeps DEF appVars

(* a conversation goes from the output of one goroutine to the sink *)
LEMMA EmissionKeeps ==
  ASSUME CInv, Types', UNCHANGED <<left, rings, shard, channel, heap>>, \A x : InHand(x)' => InHand(x),
         NEW out \in Seq(Conv), out # <<>>, emitted' = Append(emitted, Head(out)),
         \/ consumer.out = out /\ consumer'.out = Tail(out) /\ cleaner'.out = cleaner.out
         \/ cleaner.out = out /\ cleaner'.out = Tail(out) /\ consumer'.out = consumer.out
  PROVE  CInv'
  <1> DEFINE c == Head(out)
             rest == Tail(out)
  <1>1. emitted \in Seq(Conv) BY TypesUnfold DEF StoreTypes
  <1>2. ASSUME NEW x PROVE Alone(x)'
    <2>1. OncePath(x) /\ OnceHeap(x) /\ OnceOut(x) /\ OnePlace(x) BY DEF CInv, Alone
    <2> DEFINE S == ConvOf(x)
    <2>2. One(out, S) BY <2>1 DEF OnceOut
    <2> HIDE DEF S
    <2>3. /\ c \in Conv /\ (Has(out, S) <=> c \in S \/ Has(rest, S))
          /\ One(rest, S) /\ ~(c \in S /\ Has(rest, S))
      BY <2>2, HasTail
    <2>4. /\ Has(emitted', S) <=> Has(emitted, S) \/ c \in S
          /\ One(emitted, S) /\ ~(Has(emitted, S) /\ c \in S) => One(emitted', S)
      BY <1>1, <2>3, HasAppend
    <2> HIDE DEF c, rest
    <2>5. /\ One(consumer.out, S) /\ One(cleaner.out, S) /\ One(emitted, S)
          /\ (Has(consumer.out, S) => ~Has(cleaner.out, S) /\ ~Has(emitted, S))
          /\ (Has(cleaner.out, S) => ~Has(emitted, S))
          /\ (LiveInHeap(x) => ~Has(consumer.out, S) /\ ~Has(cleaner.out, S) /\ ~Has(emitted, S))
      BY <2>1 DEF OnceOut, OnePlace, Out, InOut, InCleanerOut, InEmitted, S
    <2>6. /\ One(consumer'.out, S) /\ One(cleaner'.out, S) /\ One(emitted', S)
          /\ Has(consumer'.out, S) => ~Has(cleaner'.out, S) /\ ~Has(emitted', S)
          /\ Has(cleaner'.out, S) => ~Has(emitted', S)
          /\ Has(consumer'.out, S) \/ Has(cleaner'.out, S) \/ Has(emitted', S)
               => Has(consumer.out, S) \/ Has(cleaner.out, S) \/ Has(emitted, S)
      BY <2>3, <2>4, <2>5 DEF c, rest
    <2>7. /\ OnceOut(x)' /\ (Out(x)' => Out(x))
          /\ InOut(x)' => ~InCleanerOut(x)' /\ ~InEmitted(x)'
          /\ InCleanerOut(x)' => ~InEmitted(x)'
      BY <2>6 DEF OnceOut, Out, InOut, InCleanerOut, InEmitted, S
    <2>8. OncePath(x)' /\ InLeft(x)' = InLeft(x) /\ InRings(x)' = InRings(x) /\ (InSends(x)' => InSends(x)) /\ InChannel(x)' = InChannel(x)
      BY <2>1, PathSame
    <2>9. OnceHeap(x)' /\ (InHeap(x)' => InHeap(x)) /\ (LiveInHeap(x)' => LiveInHeap(x)) BY <2>1, HeapSame
    <2>10. OnePlace(x)' BY <2>1, <2>7, <2>8, <2>9 DEF OnePlace
    <2> QED BY <2>7, <2>8, <2>9, <2>10 DEF Alone
  <1> QED BY <1>2 DEF CInv

LEMMA EmittedTypes ==
  ASSUME StoreTypes, NEW out \in Seq(Conv), out # <<>>, emitted' = Append(emitted, Head(out)), UNCHANGED <<heap, fresh, current>>
  PROVE  StoreTypes' /\ Tail(out) \in Seq(Conv)
  <1>1. Head(out) \in Conv /\ Tail(out) \in Seq(Conv) BY HasTail
  <1>2. emitted' \in Seq(Conv) BY <1>1, HasAppend DEF StoreTypes
  <1> QED BY <1>1, <1>2 DEF StoreTypes

LEMMA EmitKeeps ==
  ASSUME CInv, Emit
  PROVE  CInv'
  <1> DEFINE out == consumer.out
             rest == Tail(out)
  <1>1. /\ consumer.pc = "emit" /\ emitted' = Append(emitted, Head(out)) /\ consumer' = Emitting(rest)
        /\ UNCHANGED <<appVars, libssl, tuple, rings, shard, flow, main, channel, heap, fresh, current, cleaner>>
    BY DEF Emit, consumerFrame, captureVars, storeVars
  <1>2. ConsumerTypes /\ StoreTypes BY TypesUnfold
  <1>3. out \in Seq(Conv) /\ out # <<>> BY <1>1, <1>2 DEF ConsumerTypes
  <1>4. StoreTypes' /\ rest \in Seq(Conv) BY <1>1, <1>2, <1>3, EmittedTypes
  <1> HIDE DEF rest
  <1>5. ConsumerTypes' /\ consumer'.out = rest /\ consumer'.pc \notin {"find", "lock"}
    BY <1>1, <1>2, <1>4, EmittingIs
  <1>6. Types' BY <1>1, <1>4, <1>5, TypesUnfold, ConnFrame, PathFrame, CleanerFrame
  <1>7. \A x : ~InHand(x)' BY <1>5 DEF InHand
  <1>8. consumer'.out = Tail(out) BY <1>5 DEF rest
  <1> QED BY <1>1, <1>3, <1>6, <1>7, <1>8, EmissionKeeps DEF appVars

LEMMA CleanerEmitKeeps ==
  ASSUME CInv, CleanerEmit
  PROVE  CInv'
  <1> DEFINE out == cleaner.out
             rest == Tail(out)
  <1>1. /\ cleaner.pc = "emit" /\ emitted' = Append(emitted, Head(out)) /\ cleaner' = CleanerEmitting(rest)
        /\ UNCHANGED <<appVars, libssl, tuple, rings, shard, flow, main, channel, heap, fresh, current, consumer>>
    BY DEF CleanerEmit, cleanerFrame, captureVars, storeVars
  <1>2. CleanerTypes /\ StoreTypes BY TypesUnfold
  <1>3. out \in Seq(Conv) /\ out # <<>> BY <1>1, <1>2 DEF CleanerTypes
  <1>4. StoreTypes' /\ rest \in Seq(Conv) BY <1>1, <1>2, <1>3, EmittedTypes
  <1> HIDE DEF rest
  <1>5. CleanerTypes' /\ cleaner'.out = rest BY <1>1, <1>2, <1>4, CleanerEmittingIs
  <1>6. Types' BY <1>1, <1>4, <1>5, TypesUnfold, ConnFrame, PathFrame, ConsumerFrame
  <1>7. \A x : InHand(x)' => InHand(x) BY <1>1 DEF InHand
  <1>8. cleaner'.out = Tail(out) BY <1>5 DEF rest
  <1> QED BY <1>1, <1>3, <1>6, <1>7, <1>8, EmissionKeeps DEF appVars

-----------------------------------------------------------------------------
(* The invariant *)

LEMMA CInvNext == CInv /\ [Next]_vars => CInv'
  <1> SUFFICES ASSUME CInv, [Next]_vars PROVE CInv' OBVIOUS
  <1>1. CASE CaptureStep BY <1>1, CarryKeeps, CarryCloseKeeps, scanAndAttachKeeps DEF CaptureStep
  <1>2. CASE GoesStale BY <1>2, GoesStaleKeeps
  <1>3. CASE DecisionExpires BY <1>3, DecisionExpiresKeeps
  <1>4. ASSUME NEW s \in Shards, ShardStep(s) PROVE CInv'
    BY <1>4, ReadEventKeeps, SendEventKeeps, ReaderEndsKeeps DEF ShardStep
  <1>5. CASE ConsumerStep
    BY <1>5, ReceiveKeeps, FindKeeps, ProcessKeeps, EmitKeeps, RemoveClosedKeeps DEF ConsumerStep
  <1>6. CASE CleanerStep
    BY <1>6, TickKeeps, CheckKeeps, DrainExpiredKeeps, CleanerEmitKeeps, CleanerEndsKeeps DEF CleanerStep
  <1>7. CASE MainStep BY <1>7, MainKeeps
  <1>8. CASE UNCHANGED vars
    <2>1. UNCHANGED <<appVars, libssl, tuple, rings, shard, flow, channel, main, heap, fresh, current, consumer, cleaner, emitted>>
      BY <1>8 DEF vars, appVars
    <2>2. Types' BY <2>1, TypesUnfold, ConnFrame, PathFrame, ConsumerFrame, CleanerFrame, StoreFrame
    <2> QED BY <2>1, <2>2, QuietKeeps DEF appVars
  <1> QED BY <1>1, <1>2, <1>3, <1>4, <1>5, <1>6, <1>7, <1>8 DEF Next

(* Every session and every event keeps its type and its bound, and every    *)
(* request is in one place of the way from the connection to the sink.      *)
THEOREM CaptureInvariant == Spec => []CInv
  <1>1. Init => CInv BY CInvInit
  <1>2. CInv /\ [Next]_vars => CInv' BY CInvNext
  <1> QED BY <1>1, <1>2, PTL DEF Spec

(* Buffers, channel and sessions stay within their limits, no reader sends  *)
(* on the closed channel, and the processing and the cleanup goroutine      *)
(* never wait for each other's locks (CaptureInv).                          *)
THEOREM CaptureSafety == Spec => []CaptureInv
  <1>1. CInv => CaptureInv
    <2> SUFFICES ASSUME CInv PROVE CaptureInv OBVIOUS
    <2>1. ConnTypes /\ PathTypes /\ ConsumerTypes /\ CleanerTypes /\ StoreTypes BY TypesUnfold
    <2>2. TypeOK
      <3>1. left.req \in Seq(Tok) /\ left.resp \in Seq(Tok) BY <2>1 DEF ConnTypes
      <3>2. libssl.probed \subseteq {"req", "resp"} /\ tuple \in {"none", "remote", "both"}
        BY <2>1 DEF ConnTypes, Known
      <3>3. flow \in {"none", "allow", "deny"} /\ main \in {"run", "stop", "close", "exit"} /\ Len(channel) <= ChannelSize
        BY <2>1 DEF PathTypes
      <3>4. consumer.sid \in 0 .. fresh /\ cleaner.sid \in 0 .. fresh BY <2>1 DEF ConsumerTypes, CleanerTypes
      <3>5. /\ fresh \in 0 .. MaxSessions /\ current \in 0 .. fresh /\ emitted \in Seq(Conv)
            /\ \A i \in 1 .. MaxSessions :
                 heap[i] \in Session /\ Len(heap[i].req) <= MaxStreamTokens /\ Len(heap[i].resp) <= MaxStreamTokens
        BY <2>1 DEF StoreTypes, Bounded
      <3> QED BY <3>1, <3>2, <3>3, <3>4, <3>5 DEF TypeOK
    <2>3. NoSendOnClosed BY <2>1 DEF PathTypes, NoSendOnClosed
    <2>4. NoLockCycle BY DEF NoLockCycle, ConsumerWaits, CleanerWaits, StoreBusy, SessionBusy
    <2> QED BY <2>2, <2>3, <2>4 DEF CaptureInv
  <1> QED BY <1>1, CaptureInvariant, PTL

(* No exchange is emitted twice, although HTTP/2 buffers are parsed again   *)
(* at every event and two goroutines drain sessions (EmittedOnce).          *)
THEOREM CaptureEmitsOnce == Spec => []EmittedOnce
  <1>1. CInv => EmittedOnce
    <2> SUFFICES ASSUME CInv, NEW i \in DOMAIN emitted, NEW j \in DOMAIN emitted, i # j PROVE emitted[i].req # emitted[j].req
      BY DEF EmittedOnce
    <2> DEFINE x == emitted[i].req
    <2>1. emitted[i] \in Conv /\ emitted[j] \in Conv BY TypesUnfold DEF StoreTypes
    <2>2. One(emitted, ConvOf(x)) BY DEF CInv, Alone, OnceOut
    <2> QED BY <2>1, <2>2 DEF One, ConvOf
  <1> QED BY <1>1, CaptureInvariant, PTL

-----------------------------------------------------------------------------
(* A connection that the ports exclude *)

(* every event of it carries the ports that the kernel knew at the start,   *)
(* so that the filter refuses it, whether its decision is cached or not     *)
Barred == ~scenario.wanted /\ (scenario.known = "both" \/ (scenario.known = "remote" /\ scenario.targets))

NothingSent ==
  /\ \A s \in Shards : shard[s].pc # "send"
  /\ channel = <<>> /\ current = 0 /\ emitted = <<>>
  /\ consumer.pc \in {"receive", "done"} /\ cleaner.pc \in {"tick", "done"}

Foreign == {e \in Event : e.known # scenario.known}

PortsKnown ==
  /\ ~closed => tuple = scenario.known
  /\ \A s \in Shards : ~Has(rings[s], Foreign) /\ (~closed => ~Has(rings[s], CloseEvents))

Excluded == Barred => flow # "allow" /\ NothingSent /\ PortsKnown


LEMMA ExcludedInit == Init => Excluded
  <1> SUFFICES ASSUME Init PROVE flow # "allow" /\ NothingSent /\ PortsKnown BY DEF Excluded
  <1>1. \A s \in Shards : rings[s] = <<>> /\ shard[s].pc = "read" BY DEF Init, Reading
  <1>2. flow # "allow" /\ NothingSent BY <1>1 DEF Init, NothingSent, Receiving, Waiting
  <1>3. \A s \in Shards : ~Has(rings[s], Foreign) /\ ~Has(rings[s], CloseEvents) BY <1>1, NothingIs
  <1> QED BY <1>2, <1>3 DEF Init, PortsKnown

(* the events of a read or write carry the tuple of that moment *)
LEMMA CapturedKnows ==
  ASSUME NEW side, NEW n, NEW cut, tuple = scenario.known
  PROVE  ~Has(Captured(side, n, cut), Foreign) /\ ~Has(Captured(side, n, cut), CloseEvents)
  <1> DEFINE evs == Captured(side, n, cut)
  <1>1. \A a, b, c, d : LET e == DataEvent(a, side, b, c, d) IN e.known = tuple /\ e.type = "data" BY DEF DataEvent
  <1>2. \/ \E a, b, c, d : evs = <<DataEvent(a, side, b, c, d)>>
        \/ \E a, b, c, d, f, g, h, k : evs = <<DataEvent(a, side, b, c, d)>> \o <<DataEvent(f, side, g, h, k)>>
        \/ \E a, b, c, d : evs = <<DataEvent(a, side, b, c, d)>> \o <<>>
    BY ZenonT(60) DEF Captured
  <1> HIDE DEF evs
  <1>3. ASSUME NEW T, \A e \in T : ~(e.known = tuple /\ e.type = "data") PROVE ~Has(evs, T)
    <2>1. ASSUME NEW e PROVE (Has(<<e>>, T) <=> e \in T) /\ ~Has(<<>>, T)
      <3>1. DOMAIN <<e>> = {1} /\ <<e>>[1] = e OBVIOUS
      <3> QED BY <3>1, NothingIs DEF Has
    <2>2. ASSUME NEW a, NEW b, evs = <<a>> \o <<b>>, a \notin T, b \notin T PROVE ~Has(evs, T)
      <3> DEFINE S == {a, b}
                 p == <<a>>
                 q == <<b>>
      <3>1. p \in Seq(S) /\ q \in Seq(S) OBVIOUS
      <3>2. ~Has(p, T) /\ ~Has(q, T) BY <2>1, <2>2
      <3>3. evs = p \o q BY <2>2
      <3> HIDE DEF S, p, q
      <3> QED BY <3>1, <3>2, <3>3, HasConcat
    <2>3. ASSUME NEW a, evs = <<a>> \o <<>>, a \notin T PROVE ~Has(evs, T)
      <3>1. evs = <<a>> BY <2>3
      <3> QED BY <2>1, <2>3, <3>1
    <2>4. ASSUME NEW a, evs = <<a>>, a \notin T PROVE ~Has(evs, T) BY <2>1, <2>4
    <2>5. \A a, b, c, d : DataEvent(a, side, b, c, d) \notin T BY <1>1, <1>3
    <2> QED BY <1>2, <2>2, <2>3, <2>4, <2>5
  <1>4. ~Has(evs, Foreign) BY <1>3 DEF Foreign
  <1>5. ~Has(evs, CloseEvents) BY <1>3 DEF CloseEvents
  <1> QED BY <1>4, <1>5 DEF evs

LEMMA ExcludedRecord ==
  ASSUME CInv, PortsKnown, NEW s \in Shards, NEW evs \in Seq(Event), NEW what, Record(evs, s, what),
         scenario' = scenario, tuple' = tuple, ~closed, ~Has(evs, Foreign), ~closed' => ~Has(evs, CloseEvents)
  PROVE  PortsKnown'
  <1>1. rings \in [Shards -> Seq(Event)] BY TypesUnfold DEF PathTypes
  <1> DEFINE got == SubSeq(evs, 1, Room(evs, s))
             new == rings[s] \o got
  <1>2. got \in Seq(Event) /\ \A T : Has(got, T) => Has(evs, T) BY TypesUnfold, RoomIs
  <1>3. rings' = [rings EXCEPT ![s] = new] BY DEF Record
  <1> HIDE DEF got
  <1>4. \A T : Has(new, T) => Has(rings[s], T) \/ Has(evs, T)
    <2>1. rings[s] \in Seq(Event) BY <1>1
    <2>2. \A T : Has(new, T) <=> Has(rings[s], T) \/ Has(got, T) BY <1>2, <2>1, HasConcat
    <2> QED BY <1>2, <2>2
  <1> HIDE DEF new
  <1>5. \A r \in Shards : rings'[r] = IF r = s THEN new ELSE rings[r] BY <1>1, <1>3
  <1>6. Foreign' = Foreign BY DEF Foreign
  <1>7. \A r \in Shards : ~Has(rings'[r], Foreign) /\ (~closed' => ~Has(rings'[r], CloseEvents))
    BY <1>4, <1>5 DEF PortsKnown
  <1> QED BY <1>6, <1>7 DEF PortsKnown

LEMMA ExcludedCapture ==
  ASSUME CInv, PortsKnown, CaptureStep
  PROVE  PortsKnown'
  <1>1. Home \in Shards BY LimitsAssumption DEF Home
  <1>2. ConnTypes BY TypesUnfold
  <1>3. ASSUME NEW side \in {"req", "resp"}, NEW n \in 1 .. MaxChunk, Carry(side, n)
        PROVE  PortsKnown'
    <2>1. /\ ~closed /\ n <= Len(left[side]) /\ scenario' = scenario /\ closed' = closed /\ tuple' = tuple
      BY <1>3 DEF Carry, MayCarry
    <2>2. PICK s \in Shards, what \in SUBSET Fault : Transfer(side, n, s, what)
      BY <1>1, <1>3 DEF Carry, Fault
    <2> DEFINE cut == "cut" \in what
               evs == Captured(side, n, cut)
    <2>3. n \in Nat \ {0} /\ cut \in BOOLEAN BY LimitsAssumption
    <2>4. Record(evs, s, what) BY <2>2 DEF Transfer
    <2> HIDE DEF cut
    <2>5. evs \in Seq(Event) BY <1>2, <2>1, <2>3, CapturedIs
    <2>6. tuple = scenario.known BY <2>1 DEF PortsKnown
    <2>7. ~Has(evs, Foreign) /\ ~Has(evs, CloseEvents) BY <2>6, CapturedKnows
    <2> HIDE DEF evs
    <2> QED BY <2>1, <2>4, <2>5, <2>7, ExcludedRecord
  <1>4. CASE CarryClose
    <2> DEFINE e == [type |-> "close", seq |-> nextSeq, known |-> tuple]
               evs == <<e>>
    <2>1. ~closed /\ scenario' = scenario /\ closed' = TRUE /\ tuple' = tuple /\ Record(evs, Home, {})
      BY <1>4 DEF CarryClose
    <2>2. e \in Event BY <1>2 DEF ConnTypes, CloseEvents, Event
    <2>3. e \notin Foreign BY <2>1 DEF PortsKnown, Foreign
    <2> HIDE DEF e
    <2>4. evs \in Seq(Event) /\ ~Has(evs, Foreign) BY <2>2, <2>3, SingleEvent
    <2> HIDE DEF evs
    <2> QED BY <1>1, <2>1, <2>4, ExcludedRecord
  <1>5. CASE scanAndAttach BY <1>5 DEF scanAndAttach, appVars, PortsKnown, Foreign
  <1> QED BY <1>3, <1>4, <1>5 DEF CaptureStep

(* the filter refuses every event of the connection *)
LEMMA ExcludedRead ==
  ASSUME CInv, Barred, flow # "allow", NothingSent, PortsKnown, NEW s \in Shards, ReadEvent(s)
  PROVE  flow' # "allow" /\ NothingSent' /\ PortsKnown'
  <1> DEFINE ev == Head(rings[s])
             q == Tail(rings[s])
  <1>1. /\ rings[s] # <<>> /\ rings' = [rings EXCEPT ![s] = q] /\ flow' = allow(ev)
        /\ allow(ev) # "allow" => tuple' = forget(ev) /\ shard' = shard
        /\ UNCHANGED <<appVars, channel, current, consumer, cleaner, emitted>>
    BY DEF ReadEvent, storeVars
  <1>2. rings \in [Shards -> Seq(Event)] BY TypesUnfold DEF PathTypes
  <1>3. ev \in Event /\ \A T : Has(rings[s], T) <=> ev \in T \/ Has(q, T)
    <2>1. rings[s] \in Seq(Event) BY <1>2
    <2> QED BY <1>1, <2>1, HasTail
  <1> HIDE DEF ev, q
  <1>4. ev.known = scenario.known BY <1>3 DEF PortsKnown, Foreign
  <1>5. allow(ev) # "allow" BY <1>4 DEF allow, metadataOK, connectionAllowed, Barred
  <1>6. NothingSent' BY <1>1, <1>5 DEF NothingSent
  <1>7. ~closed => tuple' = tuple
    <2>1. ~closed => ev \notin CloseEvents BY <1>3 DEF PortsKnown
    <2>2. ev \in CloseEvents \/ ev.type = "data" BY <1>3 DEF Event, Data, DataEvents
    <2> QED BY <1>1, <1>5, <2>1, <2>2 DEF forget
  <1>8. \A r \in Shards : rings'[r] = IF r = s THEN q ELSE rings[r] BY <1>1, <1>2
  <1>9. scenario' = scenario /\ closed' = closed /\ Foreign' = Foreign BY <1>1 DEF appVars, Foreign
  <1>10. \A r \in Shards : ~Has(rings'[r], Foreign) /\ (~closed => ~Has(rings'[r], CloseEvents))
    BY <1>3, <1>8 DEF PortsKnown
  <1>11. PortsKnown' BY <1>7, <1>9, <1>10 DEF PortsKnown
  <1> QED BY <1>1, <1>5, <1>6, <1>11

LEMMA ExcludedNext == CInv /\ Excluded /\ [Next]_vars => Excluded'
  <1> SUFFICES ASSUME CInv, Excluded, [Next]_vars, Barred' PROVE flow' # "allow" /\ NothingSent' /\ PortsKnown'
    BY DEF Excluded
  <1>1. scenario' = scenario
    BY DEF Next, vars, CaptureStep, Carry, CarryClose, scanAndAttach, GoesStale, DecisionExpires, ShardStep, ReadEvent,
           SendEvent, ReaderEnds, ConsumerStep, Receive, Find, Process, Emit, RemoveClosed, CleanerStep, Tick, Check,
           DrainExpired, CleanerEmit, CleanerEnds, MainStep, Stop, CloseChannel, Exit, mainFrame, consumerFrame,
           cleanerFrame, appVars
  <1>2. Barred /\ flow # "allow" /\ NothingSent /\ PortsKnown BY <1>1 DEF Barred, Excluded
  <1>3. ASSUME UNCHANGED <<closed, tuple, rings>> PROVE PortsKnown'
    <2>1. Foreign' = Foreign BY <1>1 DEF Foreign
    <2> QED BY <1>1, <1>2, <1>3, <2>1 DEF PortsKnown
  <1>4. CASE CaptureStep
    <2>1. UNCHANGED <<shard, flow, channel, current, consumer, cleaner, emitted>>
      BY <1>4 DEF CaptureStep, Carry, CarryClose, scanAndAttach, storeVars
    <2>2. PortsKnown' BY <1>2, <1>4, ExcludedCapture
    <2> QED BY <1>2, <2>1, <2>2 DEF NothingSent
  <1>5. ~GoesStale BY <1>2 DEF GoesStale, NothingSent
  <1>6. CASE DecisionExpires
    <2>1. /\ UNCHANGED <<closed, tuple, rings, shard, channel, current, consumer, cleaner, emitted>> /\ flow' = "none"
      BY <1>6 DEF DecisionExpires, appVars, storeVars
    <2> QED BY <1>2, <1>3, <2>1 DEF NothingSent
  <1>7. ASSUME NEW s \in Shards, ShardStep(s) PROVE flow' # "allow" /\ NothingSent' /\ PortsKnown'
    <2>1. CASE ReadEvent(s) BY <1>2, <2>1, ExcludedRead
    <2>2. ~SendEvent(s) BY <1>2 DEF SendEvent, NothingSent
    <2>3. CASE ReaderEnds(s)
      <3>1. /\ UNCHANGED <<closed, tuple, rings, flow, channel, current, consumer, cleaner, emitted>>
            /\ shard' = [shard EXCEPT ![s] = [pc |-> "done", ev |-> NoEvent]]
        BY <2>3 DEF ReaderEnds, appVars, storeVars
      <3>2. shard \in [Shards -> ShardState] BY TypesUnfold DEF PathTypes
      <3>3. \A r \in Shards : shard'[r] = shard[r] \/ shard'[r].pc = "done" BY <3>1, <3>2
      <3> QED BY <1>2, <1>3, <3>1, <3>3 DEF NothingSent
    <2> QED BY <1>7, <2>1, <2>2, <2>3 DEF ShardStep
  <1>8. CASE ConsumerStep
    <2>1. ~Find /\ ~Process /\ ~Emit /\ ~RemoveClosed BY <1>2 DEF NothingSent, Find, Process, Emit, RemoveClosed
    <2>2. Receive BY <1>8, <2>1 DEF ConsumerStep
    <2>3. /\ UNCHANGED <<closed, tuple, rings, shard, flow, channel, current, cleaner, emitted>>
          /\ consumer' = [Receiving EXCEPT !.pc = "done"]
      BY <1>2, <2>2 DEF Receive, NothingSent, consumerFrame, appVars, captureVars, storeVars
    <2>4. consumer'.pc = "done" BY <2>3 DEF Receiving
    <2> QED BY <1>2, <1>3, <2>3, <2>4 DEF NothingSent
  <1>9. CASE CleanerStep
    <2>1. ~Tick /\ ~Check /\ ~DrainExpired /\ ~CleanerEmit BY <1>2 DEF NothingSent, Tick, Check, DrainExpired, CleanerEmit
    <2>2. CleanerEnds BY <1>9, <2>1 DEF CleanerStep
    <2>3. /\ UNCHANGED <<closed, tuple, rings, shard, flow, channel, current, consumer, emitted>>
          /\ cleaner' = [Waiting EXCEPT !.pc = "done"]
      BY <2>2 DEF CleanerEnds, cleanerFrame, appVars, captureVars, storeVars
    <2>4. cleaner'.pc = "done" BY <2>3 DEF Waiting
    <2> QED BY <1>2, <1>3, <2>3, <2>4 DEF NothingSent
  <1>10. CASE MainStep
    <2>1. UNCHANGED <<closed, tuple, rings, shard, flow, channel, current, consumer, cleaner, emitted>>
      BY <1>10 DEF MainStep, Stop, CloseChannel, Exit, mainFrame, appVars, captureVars, storeVars
    <2> QED BY <1>2, <1>3, <2>1 DEF NothingSent
  <1>11. CASE UNCHANGED vars
    <2>1. UNCHANGED <<closed, tuple, rings, shard, flow, channel, current, consumer, cleaner, emitted>> BY <1>11 DEF vars
    <2> QED BY <1>2, <1>3, <2>1 DEF NothingSent
  <1> QED BY <1>4, <1>5, <1>6, <1>7, <1>8, <1>9, <1>10, <1>11 DEF Next

(* A connection whose ports the kernel knew from the start and the filter   *)
(* excludes is never emitted, however often the cached decision expires,    *)
(* uprobes are attached or the reader takes its close event                 *)
(* (UnwantedStaysOut).                                                      *)
THEOREM CaptureExcludes == Spec => []UnwantedStaysOut
  <1>1. Init => CInv /\ Excluded BY CInvInit, ExcludedInit
  <1>2. CInv /\ Excluded /\ [Next]_vars => (CInv /\ Excluded)' BY CInvNext, ExcludedNext
  <1>3. Excluded => UnwantedStaysOut BY DEF Excluded, Barred, NothingSent, UnwantedStaysOut
  <1> QED BY <1>1, <1>2, <1>3, PTL DEF Spec
=============================================================================
