------------------------ MODULE StreamSessionsProofs ------------------------
(***************************************************************************)
(* Proofs about StreamSessions, for any connection, any way to cut it into *)
(* events, any limits and any number of faults.                            *)
(***************************************************************************)
EXTENDS StreamSessions, LoopTheorems

ReqHead(x) == {t \in Tok : t.kind = "req" /\ t.x = x}
PendOf(x) == {p \in Parsed : p.x = x}
ConvOf(x) == {c \in Conv : c.req = x}

-----------------------------------------------------------------------------
(* Parsing *)

LEMMA FirstLookingIs ==
  ASSUME NEW buf \in Seq(Tok), NEW look
  PROVE  /\ FirstLooking(buf, look) \in 1 .. Len(buf) + 1
         /\ FirstLooking(buf, look) <= Len(buf) => buf[FirstLooking(buf, look)].looks = look
         /\ \A j \in 1 .. FirstLooking(buf, look) - 1 : buf[j].looks # look
  <1> DEFINE T == {i \in 1 .. Len(buf) + 1 : i <= Len(buf) => buf[i].looks = look}
  <1>1. Len(buf) \in Nat OBVIOUS
  <1>2. Len(buf) + 1 \in T BY <1>1
  <1>3. T \subseteq Nat OBVIOUS
  <1>4. PICK n \in T : \A m \in T : n <= m
    <2> HIDE DEF T
    <2> QED BY <1>2, <1>3, LeastNumber
  <1>5. n \in 1 .. Len(buf) + 1 /\ (n <= Len(buf) => buf[n].looks = look) BY <1>4
  <1>6. ASSUME NEW j \in 1 .. n - 1 PROVE buf[j].looks # look
    <2>1. j \in 1 .. Len(buf) /\ ~(n <= j) /\ j \in 1 .. Len(buf) + 1 BY <1>1, <1>5
    <2>2. j \notin T
      <3> HIDE DEF T
      <3> QED BY <1>4, <2>1
    <2> QED BY <2>1, <2>2
  <1> QED BY <1>5, <1>6 DEF FirstLooking

LEMMA SyncIs ==
  ASSUME NEW buf \in Seq(Tok), NEW look
  PROVE  /\ Sync(buf, look) \in Seq(Tok) /\ Len(Sync(buf, look)) <= Len(buf)
         /\ Sync(buf, look) = buf \/ Len(Sync(buf, look)) < Len(buf)
         /\ \A T : /\ Has(Sync(buf, look), T) => Has(buf, T)
                   /\ One(buf, T) => One(Sync(buf, look), T)
  <1> DEFINE m == FirstLooking(buf, look)
  <1>1. m \in 1 .. Len(buf) + 1 /\ Len(buf) \in m - 1 .. Len(buf) /\ Len(buf) \in Nat
    <2>1. m \in 1 .. Len(buf) + 1 BY FirstLookingIs
    <2> HIDE DEF m
    <2>2. Len(buf) \in Nat OBVIOUS
    <2> QED BY <2>1, <2>2
  <1>2. Sync(buf, look) = SubSeq(buf, m, Len(buf)) BY DEF Sync
  <1> HIDE DEF m
  <1>3. Sync(buf, look) \in Seq(Tok) /\ Len(Sync(buf, look)) = Len(buf) - m + 1 BY <1>1, <1>2, SubSeqIs
  <1>4. Sync(buf, look) = buf \/ Len(Sync(buf, look)) < Len(buf)
    <2>1. CASE m = 1 BY <1>2, <2>1, SubSeqAll
    <2>2. CASE m # 1 BY <1>1, <1>3, <2>2
    <2> QED BY <2>1, <2>2
  <1>5. ASSUME NEW T PROVE /\ Has(Sync(buf, look), T) => Has(buf, T)
                           /\ One(buf, T) => One(Sync(buf, look), T)
    BY <1>1, <1>2, HasSub
  <1>6. Len(Sync(buf, look)) <= Len(buf) BY <1>1, <1>3
  <1> QED BY <1>3, <1>4, <1>5, <1>6

(* a parsed message is taken from the front of the buffer *)
LEMMA DropParsedIs ==
  ASSUME NEW buf \in Seq(Tok), buf # <<>>, Head(buf).kind = "respEOF" \/ Len(buf) > Head(buf).n
  PROVE  /\ Head(buf) \in Tok /\ 1 \in DOMAIN buf /\ Head(buf) = buf[1]
         /\ Consumed(buf) \in 1 .. Len(buf)
         /\ SubSeq(buf, 2, Consumed(buf)) \in Seq(Tok)
         /\ DropParsed(buf) \in Seq(Tok) /\ Len(DropParsed(buf)) < Len(buf)
         /\ \A T : /\ Has(DropParsed(buf), T) => Has(buf, T)
                   /\ One(buf, T) => One(DropParsed(buf), T)
                   /\ One(buf, T) /\ Head(buf) \in T => Has(buf, T) /\ ~Has(DropParsed(buf), T)
  <1>1. Len(buf) \in Nat /\ Len(buf) >= 1 /\ Head(buf) \in Tok /\ Head(buf) = buf[1] /\ 1 \in DOMAIN buf
    OBVIOUS
  <1> DEFINE c == Consumed(buf)
  <1>2. c \in 1 .. Len(buf)
    <2>1. Head(buf).n \in Nat BY <1>1 DEF Tok
    <2>2. CASE Head(buf).kind = "respEOF" BY <1>1, <2>2 DEF Consumed
    <2>3. CASE Head(buf).kind # "respEOF"
      <3>1. c = Head(buf).n + 1 /\ Len(buf) > Head(buf).n BY <2>3 DEF Consumed
      <3> HIDE DEF c
      <3> QED BY <1>1, <2>1, <3>1
    <2> QED BY <2>2, <2>3
  <1>3. DropParsed(buf) = SubSeq(buf, c + 1, Len(buf)) BY DEF DropParsed
  <1> HIDE DEF c
  <1>4. /\ c + 1 \in 1 .. Len(buf) + 1 /\ Len(buf) \in (c + 1) - 1 .. Len(buf) /\ c \in Nat
        /\ 2 \in 1 .. Len(buf) + 1 /\ c \in 2 - 1 .. Len(buf)
    BY <1>1, <1>2
  <1>5. DropParsed(buf) \in Seq(Tok) /\ Len(DropParsed(buf)) = Len(buf) - (c + 1) + 1 BY <1>3, <1>4, SubSeqIs
  <1>6. Len(DropParsed(buf)) < Len(buf) BY <1>1, <1>2, <1>5
  <1>7. SubSeq(buf, 2, c) \in Seq(Tok) BY <1>4, SubSeqIs
  <1>8. ASSUME NEW T
        PROVE  /\ Has(DropParsed(buf), T) => Has(buf, T)
               /\ One(buf, T) => One(DropParsed(buf), T)
    BY <1>3, <1>4, HasSub
  <1>9. ASSUME NEW T, One(buf, T), Head(buf) \in T PROVE Has(buf, T) /\ ~Has(DropParsed(buf), T)
    <2>1. Has(buf, T) BY <1>1, <1>9 DEF Has
    <2>2. ASSUME NEW i \in DOMAIN DropParsed(buf), DropParsed(buf)[i] \in T PROVE FALSE
      <3>1. i \in 1 .. Len(buf) - (c + 1) + 1 BY <1>5
      <3>2. DropParsed(buf)[i] = buf[(c + 1) + i - 1] /\ (c + 1) + i - 1 \in 1 .. Len(buf)
        BY <1>3, <1>4, <3>1, SubSeqIs
      <3>3. (c + 1) + i - 1 # 1 BY <1>2, <3>1
      <3>4. 1 = (c + 1) + i - 1 BY <1>1, <1>9, <2>2, <3>2, OneTwo
      <3> QED BY <3>3, <3>4
    <2> QED BY <2>1, <2>2 DEF Has
  <1> QED BY <1>1, <1>2, <1>5, <1>6, <1>7, <1>8, <1>9 DEF c

-----------------------------------------------------------------------------
(* The two loops of drainParsedConversations *)

(* where request x may be in a session, and that it is there only once *)
HasX(st, x) == Has(st.req, ReqHead(x)) \/ Has(st.pending, PendOf(x))
LoneSt(st, x) ==
  /\ One(st.req, ReqHead(x)) /\ One(st.pending, PendOf(x))
  /\ ~(Has(st.req, ReqHead(x)) /\ Has(st.pending, PendOf(x)))

HasRes(res, x) == HasX(res.st, x) \/ Has(res.out, ConvOf(x))
LoneRes(res, x) ==
  /\ LoneSt(res.st, x) /\ One(res.out, ConvOf(x))
  /\ ~(HasX(res.st, x) /\ Has(res.out, ConvOf(x)))

LEMMA RequestRoundIs ==
  ASSUME NEW st \in Session
  PROVE  /\ RequestRound(st) \in Session
         /\ RequestRound(st) = st \/ Len(RequestRound(st).req) < Len(st.req)
         /\ Len(RequestRound(st).req) <= Len(st.req) /\ RequestRound(st).resp = st.resp
         /\ \A x : /\ LoneSt(st, x) => LoneSt(RequestRound(st), x)
                   /\ HasX(RequestRound(st), x) => HasX(st, x)
  <1> DEFINE buf == Sync(st.req, "req")
             nx == RequestRound(st)
  <1>1. st.req \in Seq(Tok) /\ st.pending \in Seq(Parsed) /\ st.gap \in BOOLEAN /\ st.truncated \in BOOLEAN
    BY DEF Session
  <1>2. /\ buf \in Seq(Tok) /\ Len(buf) <= Len(st.req) /\ (buf = st.req \/ Len(buf) < Len(st.req))
        /\ \A T : /\ Has(buf, T) => Has(st.req, T)
                  /\ One(st.req, T) => One(buf, T)
    BY <1>1, SyncIs
  <1>3. CASE ~parseOneRequest(buf)
    <2>1. nx = [st EXCEPT !.req = buf] BY <1>3 DEF RequestRound
    <2> HIDE DEF buf, nx
    <2>2. /\ nx \in Session /\ nx.req = buf /\ nx.resp = st.resp /\ nx.pending = st.pending
          /\ buf = st.req => nx = st
      BY <1>2, <2>1 DEF Session
    <2>3. ASSUME NEW x PROVE (LoneSt(st, x) => LoneSt(nx, x)) /\ (HasX(nx, x) => HasX(st, x))
      BY <1>2, <2>2 DEF LoneSt, HasX
    <2>4. nx = st \/ Len(nx.req) < Len(st.req) BY <1>2, <2>2
    <2> QED BY <1>2, <2>2, <2>3, <2>4 DEF nx
  <1>4. CASE parseOneRequest(buf)
    <2> DEFINE pr == [x |-> Head(buf).x, whole |-> Whole(Head(buf), SubSeq(buf, 2, Consumed(buf))),
                      gap |-> st.gap, truncated |-> st.truncated]
               rest == DropParsed(buf)
               h == Head(buf)
    <2>1. nx = [st EXCEPT !.req = rest, !.pending = Append(@, pr)] BY <1>4 DEF RequestRound
    <2>2. h.kind = "req" /\ buf # <<>> /\ Len(buf) > Head(buf).n BY <1>4 DEF parseOneRequest
    <2>3. /\ h \in Tok /\ rest \in Seq(Tok) /\ Len(rest) < Len(buf)
          /\ \A T : /\ Has(rest, T) => Has(buf, T)
                    /\ One(buf, T) => One(rest, T)
                    /\ One(buf, T) /\ h \in T => Has(buf, T) /\ ~Has(rest, T)
      <3> HIDE DEF buf
      <3> QED BY <1>2, <2>2, DropParsedIs
    <2>4. pr \in Parsed /\ pr.x = h.x
      <3>1. Whole(Head(buf), SubSeq(buf, 2, Consumed(buf))) \in BOOLEAN BY DEF Whole
      <3>2. h.x \in Nat BY <2>3 DEF Tok
      <3> QED BY <1>1, <3>1, <3>2 DEF Parsed
    <2> HIDE DEF pr, rest, h, buf, nx
    <2>5. /\ nx \in Session /\ nx.req = rest /\ nx.resp = st.resp /\ nx.pending = Append(st.pending, pr)
      <3>1. Append(st.pending, pr) \in Seq(Parsed) BY <1>1, <2>4
      <3> QED BY <2>1, <2>3, <3>1 DEF Session
    <2>6. Len(nx.req) < Len(st.req)
      <3>1. Len(rest) \in Nat /\ Len(buf) \in Nat /\ Len(st.req) \in Nat BY <1>1, <1>2, <2>3
      <3> QED BY <1>2, <2>3, <2>5, <3>1
    <2>7. ASSUME NEW x PROVE (LoneSt(st, x) => LoneSt(nx, x)) /\ (HasX(nx, x) => HasX(st, x))
      <3>1. pr \in PendOf(x) <=> h \in ReqHead(x) BY <2>2, <2>3, <2>4 DEF PendOf, ReqHead
      <3>2. /\ Has(nx.pending, PendOf(x)) <=> Has(st.pending, PendOf(x)) \/ pr \in PendOf(x)
            /\ One(st.pending, PendOf(x)) /\ ~(Has(st.pending, PendOf(x)) /\ pr \in PendOf(x)) => One(nx.pending, PendOf(x))
        BY <1>1, <2>4, <2>5, HasAppend
      <3>3. h \in ReqHead(x) => Has(buf, ReqHead(x))
        <4>1. 1 \in DOMAIN buf /\ buf[1] = h BY <1>2, <2>2 DEF h
        <4> QED BY <4>1 DEF Has
      <3>4. HasX(nx, x) => HasX(st, x) BY <1>2, <2>3, <2>5, <3>1, <3>2, <3>3 DEF HasX
      <3>5. LoneSt(st, x) => LoneSt(nx, x) BY <1>2, <2>3, <2>5, <3>1, <3>2 DEF LoneSt
      <3> QED BY <3>4, <3>5
    <2>8. Len(nx.req) <= Len(st.req)
      <3>1. Len(nx.req) \in Nat /\ Len(st.req) \in Nat BY <1>1, <2>3, <2>5
      <3> QED BY <2>6, <3>1
    <2> QED BY <2>5, <2>6, <2>7, <2>8 DEF nx
  <1> QED BY <1>3, <1>4

LEMMA ResponseRoundIs ==
  ASSUME NEW res \in Result, NEW delimited \in BOOLEAN
  PROVE  LET nx == ResponseRound(res, delimited) IN
         /\ nx \in Result
         /\ nx = res \/ Len(nx.st.resp) < Len(res.st.resp)
         /\ Len(nx.st.resp) <= Len(res.st.resp) /\ nx.st.req = res.st.req
         /\ \A x : /\ LoneRes(res, x) => LoneRes(nx, x)
                   /\ HasRes(nx, x) => HasRes(res, x)
  <1> DEFINE st == res.st
             buf == Sync(res.st.resp, "resp")
             nx == ResponseRound(res, delimited)
  <1>1. /\ st \in Session /\ res.out \in Seq(Conv) /\ res = [st |-> st, out |-> res.out]
        /\ st.resp \in Seq(Tok) /\ st.pending \in Seq(Parsed) /\ st.gap \in BOOLEAN /\ st.truncated \in BOOLEAN
        /\ st.req \in Seq(Tok)
    BY DEF Session, Result
  <1>2. /\ buf \in Seq(Tok) /\ Len(buf) <= Len(st.resp) /\ (buf = st.resp \/ Len(buf) < Len(st.resp))
    BY <1>1, SyncIs
  <1>3. CASE st.pending = <<>>
    <2>1. nx = res BY <1>3 DEF ResponseRound
    <2>2. Len(st.resp) <= Len(st.resp) BY <1>1
    <2> HIDE DEF nx
    <2> QED BY <2>1, <2>2 DEF nx
  <1>4. CASE st.pending # <<>> /\ ~parseOneResponse(buf, delimited)
    <2>1. nx = [res EXCEPT !.st.resp = buf] BY <1>4 DEF ResponseRound
    <2> HIDE DEF buf, nx
    <2>2. /\ nx.out = res.out /\ nx.st = [st EXCEPT !.resp = buf] /\ nx = [st |-> nx.st, out |-> nx.out]
      BY <1>1, <2>1
    <2>3. /\ nx.st \in Session /\ nx.st.resp = buf /\ nx.st.req = st.req /\ nx.st.pending = st.pending
          /\ buf = st.resp => nx.st = st
      BY <1>1, <1>2, <2>2 DEF Session
    <2>4. nx \in Result BY <1>1, <2>2, <2>3 DEF Result
    <2>5. ASSUME NEW x PROVE (LoneRes(res, x) => LoneRes(nx, x)) /\ (HasRes(nx, x) => HasRes(res, x))
      BY <2>2, <2>3 DEF LoneSt, HasX, LoneRes, HasRes
    <2>6. nx = res \/ Len(nx.st.resp) < Len(st.resp) BY <1>1, <1>2, <2>2, <2>3
    <2> QED BY <1>2, <2>3, <2>4, <2>5, <2>6 DEF nx
  <1>5. CASE st.pending # <<>> /\ parseOneResponse(buf, delimited)
    <2> DEFINE cv == Conversation(Head(st.pending), buf, st)
               rest == DropParsed(buf)
               h == Head(st.pending)
    <2>1. nx = [st |-> [st EXCEPT !.resp = rest, !.pending = Tail(@)], out |-> Append(res.out, cv)]
      BY <1>5 DEF ResponseRound
    <2>2. buf # <<>> /\ (Head(buf).kind = "respEOF" \/ Len(buf) > Head(buf).n) BY <1>5 DEF parseOneResponse
    <2>3. Head(buf) \in Tok /\ rest \in Seq(Tok) /\ Len(rest) < Len(buf)
      <3> HIDE DEF buf
      <3> QED BY <1>2, <2>2, DropParsedIs
    <2>4. h \in Parsed /\ Tail(st.pending) \in Seq(Parsed) BY <1>1, <1>5
    <2>5. cv \in Conv /\ cv.req = h.x
      <3>1. Whole(Head(buf), SubSeq(buf, 2, Consumed(buf))) \in BOOLEAN BY DEF Whole
      <3>2. Head(buf).x \in Nat BY <2>3 DEF Tok
      <3>3. h.x \in Nat /\ h.whole \in BOOLEAN /\ h.gap \in BOOLEAN /\ h.truncated \in BOOLEAN BY <2>4 DEF Parsed
      <3> HIDE DEF buf
      <3> QED BY <1>1, <3>1, <3>2, <3>3 DEF Conversation, Conv
    <2> HIDE DEF cv, rest, h, buf, nx
    <2>6. /\ nx.out = Append(res.out, cv) /\ nx.st = [st EXCEPT !.resp = rest, !.pending = Tail(@)]
          /\ nx = [st |-> nx.st, out |-> nx.out]
      BY <2>1
    <2>7. /\ nx.st \in Session /\ nx.st.resp = rest /\ nx.st.req = st.req /\ nx.st.pending = Tail(st.pending)
      BY <1>1, <2>3, <2>4, <2>6 DEF Session
    <2>8. nx \in Result
      <3>1. nx.out \in Seq(Conv) BY <1>1, <2>5, <2>6
      <3> QED BY <2>6, <2>7, <3>1 DEF Result
    <2>9. Len(nx.st.resp) < Len(st.resp)
      <3>1. Len(rest) \in Nat /\ Len(buf) \in Nat /\ Len(st.resp) \in Nat BY <1>1, <1>2, <2>3
      <3> QED BY <1>2, <2>3, <2>7, <3>1
    <2>10. ASSUME NEW x PROVE (LoneRes(res, x) => LoneRes(nx, x)) /\ (HasRes(nx, x) => HasRes(res, x))
      <3>1. cv \in ConvOf(x) <=> h \in PendOf(x) BY <2>4, <2>5 DEF PendOf, ConvOf
      <3>2. /\ Has(nx.out, ConvOf(x)) <=> Has(res.out, ConvOf(x)) \/ cv \in ConvOf(x)
            /\ One(res.out, ConvOf(x)) /\ ~(Has(res.out, ConvOf(x)) /\ cv \in ConvOf(x)) => One(nx.out, ConvOf(x))
        BY <1>1, <2>5, <2>6, HasAppend
      <3>3. /\ Has(st.pending, PendOf(x)) <=> h \in PendOf(x) \/ Has(nx.st.pending, PendOf(x))
            /\ One(st.pending, PendOf(x)) => /\ One(nx.st.pending, PendOf(x))
                                             /\ ~(h \in PendOf(x) /\ Has(nx.st.pending, PendOf(x)))
        BY <1>1, <1>5, <2>7, HasTail DEF h
      <3>4. HasRes(nx, x) => HasRes(res, x) BY <2>7, <3>1, <3>2, <3>3 DEF HasX, HasRes
      <3>5. LoneRes(res, x) => LoneRes(nx, x) BY <2>7, <3>1, <3>2, <3>3 DEF HasX, LoneSt, LoneRes
      <3> QED BY <3>4, <3>5
    <2>11. Len(nx.st.resp) <= Len(st.resp)
      <3>1. Len(nx.st.resp) \in Nat /\ Len(st.resp) \in Nat BY <1>1, <2>3, <2>7
      <3> QED BY <2>9, <3>1
    <2> QED BY <2>7, <2>8, <2>9, <2>10, <2>11 DEF nx
  <1> QED BY <1>3, <1>4, <1>5

(* The first loop ends, and keeps what its rounds keep. *)
LEMMA RequestRoundsEnd ==
  ASSUME NEW P, P \subseteq Session, \A s \in P : RequestRound(s) \in P
  PROVE  \A s \in P : RequestRounds[s] \in P /\ RequestRound(RequestRounds[s]) = RequestRounds[s]
  <1> DEFINE F == [s \in Session |-> RequestRound(s)]
             M == [s \in Session |-> Len(s.req)]
  <1>1. F \in [Session -> Session] BY RequestRoundIs
  <1>2. M \in [Session -> Nat]
    <2>1. \A s \in Session : Len(s.req) \in Nat BY DEF Session
    <2> QED BY <2>1
  <1>3. \A s \in Session : F[s] = s \/ M[F[s]] < M[s]
    <2> SUFFICES ASSUME NEW s \in Session PROVE F[s] = s \/ M[F[s]] < M[s] OBVIOUS
    <2>1. /\ RequestRound(s) \in Session
          /\ RequestRound(s) = s \/ Len(RequestRound(s).req) < Len(s.req)
      BY RequestRoundIs
    <2>2. F[s] = RequestRound(s) /\ M[s] = Len(s.req) /\ M[RequestRound(s)] = Len(RequestRound(s).req) BY <2>1
    <2> HIDE DEF F, M
    <2> QED BY <2>1, <2>2
  <1>4. \A s \in P : F[s] \in P BY <1>1
  <1>5. RequestRounds = [s \in Session |-> IF F[s] = s THEN s ELSE RequestRounds[F[s]]]
    <2> DEFINE R == CHOOSE g : g = [s \in Session |-> IF RequestRound(s) = s THEN s ELSE g[RequestRound(s)]]
    <2>1. \A s \in Session : F[s] = RequestRound(s) OBVIOUS
    <2>2. PICK g : g = [s \in Session |-> IF F[s] = s THEN s ELSE g[F[s]]]
      <3> HIDE DEF F
      <3> QED BY <1>1, LoopExists
    <2>3. g = [s \in Session |-> IF RequestRound(s) = s THEN s ELSE g[RequestRound(s)]]
      <3> HIDE DEF F
      <3> QED BY <2>1, <2>2
    <2>4. R = [s \in Session |-> IF RequestRound(s) = s THEN s ELSE R[RequestRound(s)]] BY <2>3
    <2>5. RequestRounds = R BY DEF RequestRounds
    <2> HIDE DEF R, F
    <2> QED BY <2>1, <2>4, <2>5
  <1> HIDE DEF F, M
  <1>6. \A s \in P : RequestRounds[s] \in P /\ F[RequestRounds[s]] = RequestRounds[s]
    BY <1>1, <1>2, <1>3, <1>4, <1>5, LoopEnds
  <1> QED BY <1>6 DEF F

LEMMA ResponseRoundsEnd ==
  ASSUME NEW delimited \in BOOLEAN,
         NEW P, P \subseteq Result, \A res \in P : ResponseRound(res, delimited) \in P
  PROVE  \A res \in P : /\ ResponseRounds(delimited)[res] \in P
                        /\ ResponseRound(ResponseRounds(delimited)[res], delimited) = ResponseRounds(delimited)[res]
  <1> DEFINE F == [res \in Result |-> ResponseRound(res, delimited)]
             M == [res \in Result |-> Len(res.st.resp)]
             D == ResponseRounds(delimited)
  <1>1. F \in [Result -> Result] BY ResponseRoundIs
  <1>2. M \in [Result -> Nat]
    <2>1. \A res \in Result : Len(res.st.resp) \in Nat BY DEF Session, Result
    <2> QED BY <2>1
  <1>3. \A res \in Result : F[res] = res \/ M[F[res]] < M[res]
    <2> SUFFICES ASSUME NEW res \in Result PROVE F[res] = res \/ M[F[res]] < M[res] OBVIOUS
    <2> DEFINE nx == ResponseRound(res, delimited)
    <2>1. nx \in Result /\ (nx = res \/ Len(nx.st.resp) < Len(res.st.resp)) BY ResponseRoundIs
    <2>2. F[res] = nx /\ M[res] = Len(res.st.resp) BY <2>1
    <2> HIDE DEF nx
    <2>3. M[nx] = Len(nx.st.resp) BY <2>1
    <2> HIDE DEF F, M
    <2> QED BY <2>1, <2>2, <2>3
  <1>4. \A res \in P : F[res] \in P BY <1>1
  <1>5. D = [res \in Result |-> IF F[res] = res THEN res ELSE D[F[res]]]
    <2> DEFINE R == CHOOSE g : g = [res \in Result |-> IF ResponseRound(res, delimited) = res THEN res
                                                        ELSE g[ResponseRound(res, delimited)]]
    <2>1. \A res \in Result : F[res] = ResponseRound(res, delimited) OBVIOUS
    <2>2. PICK g : g = [res \in Result |-> IF F[res] = res THEN res ELSE g[F[res]]]
      <3> HIDE DEF F
      <3> QED BY <1>1, LoopExists
    <2>3. g = [res \in Result |-> IF ResponseRound(res, delimited) = res THEN res
                                  ELSE g[ResponseRound(res, delimited)]]
      <3> HIDE DEF F
      <3> QED BY <2>1, <2>2
    <2>4. R = [res \in Result |-> IF ResponseRound(res, delimited) = res THEN res
                                  ELSE R[ResponseRound(res, delimited)]]
      BY <2>3
    <2>5. D = R BY DEF ResponseRounds
    <2> HIDE DEF R, F, D
    <2> QED BY <2>1, <2>4, <2>5
  <1> HIDE DEF F, M, D
  <1>6. \A res \in P : D[res] \in P /\ F[D[res]] = D[res] BY <1>1, <1>2, <1>3, <1>4, <1>5, LoopEnds
  <1> QED BY <1>6 DEF F, D

(* What a drain does to a session: its buffers do not grow, and a request   *)
(* that was in it once is afterwards still in it, or in one conversation,   *)
(* or gone.                                                                 *)
LEMMA DrainIs ==
  ASSUME NEW st \in Session, NEW delimited \in BOOLEAN
  PROVE  LET res == drainParsedConversations(st, delimited) IN
         /\ res \in Result
         /\ Len(res.st.req) <= Len(st.req) /\ Len(res.st.resp) <= Len(st.resp)
         /\ \A x : /\ LoneSt(st, x) => LoneRes(res, x)
                   /\ HasRes(res, x) => HasX(st, x)
  <1> DEFINE P == {s \in Session : /\ Len(s.req) <= Len(st.req) /\ s.resp = st.resp
                                   /\ \A x : /\ LoneSt(st, x) => LoneSt(s, x)
                                             /\ HasX(s, x) => HasX(st, x)}
             mid == RequestRounds[st]
             res0 == [st |-> mid, out |-> <<>>]
             Q == {res \in Result : /\ Len(res.st.req) <= Len(st.req) /\ Len(res.st.resp) <= Len(st.resp)
                                    /\ \A x : /\ LoneSt(st, x) => LoneRes(res, x)
                                              /\ HasRes(res, x) => HasX(st, x)}
             res1 == drainParsedConversations(st, delimited)
  <1>0. Len(st.req) \in Nat /\ Len(st.resp) \in Nat BY DEF Session
  <1>1. \A s \in P : RequestRound(s) \in P
    <2> SUFFICES ASSUME NEW s \in P PROVE RequestRound(s) \in P OBVIOUS
    <2> DEFINE nx == RequestRound(s)
    <2>1. /\ s \in Session /\ Len(s.req) <= Len(st.req) /\ s.resp = st.resp /\ Len(s.req) \in Nat
          /\ \A x : (LoneSt(st, x) => LoneSt(s, x)) /\ (HasX(s, x) => HasX(st, x))
      BY DEF Session
    <2>2. /\ nx \in Session /\ Len(nx.req) <= Len(s.req) /\ nx.resp = s.resp
          /\ \A x : (LoneSt(s, x) => LoneSt(nx, x)) /\ (HasX(nx, x) => HasX(s, x))
      BY <2>1, RequestRoundIs
    <2> HIDE DEF nx
    <2>3. Len(nx.req) \in Nat BY <2>2 DEF Session
    <2>4. Len(nx.req) <= Len(st.req) BY <1>0, <2>1, <2>2, <2>3
    <2>5. nx \in P BY <2>1, <2>2, <2>4
    <2> QED BY <2>5 DEF nx
  <1>2. st \in P BY <1>0
  <1>3. mid \in P
    <2>1. P \subseteq Session OBVIOUS
    <2> HIDE DEF P
    <2> QED BY <1>1, <1>2, <2>1, RequestRoundsEnd
  <1>4. /\ mid \in Session /\ Len(mid.req) <= Len(st.req) /\ mid.resp = st.resp
        /\ \A x : (LoneSt(st, x) => LoneSt(mid, x)) /\ (HasX(mid, x) => HasX(st, x))
    BY <1>3
  <1> HIDE DEF P, mid
  <1>5. res0 \in Q
    <2>1. <<>> \in Seq(Conv) /\ DOMAIN <<>> = {} OBVIOUS
    <2>2. res0 \in Result /\ res0.st = mid /\ res0.out = <<>> BY <1>4, <2>1 DEF Result
    <2>3. \A x : ~Has(<<>>, ConvOf(x)) /\ One(<<>>, ConvOf(x)) BY DEF Has, One
    <2>4. \A x : (LoneSt(st, x) => LoneRes(res0, x)) /\ (HasRes(res0, x) => HasX(st, x))
      <3> HIDE DEF res0
      <3> QED BY <1>4, <2>2, <2>3 DEF LoneRes, HasRes
    <2> HIDE DEF res0
    <2> QED BY <1>0, <1>4, <2>2, <2>4
  <1>6. \A res \in Q : ResponseRound(res, delimited) \in Q
    <2> SUFFICES ASSUME NEW res \in Q PROVE ResponseRound(res, delimited) \in Q OBVIOUS
    <2> DEFINE nx == ResponseRound(res, delimited)
    <2>1. /\ res \in Result /\ Len(res.st.req) <= Len(st.req) /\ Len(res.st.resp) <= Len(st.resp)
          /\ \A x : (LoneSt(st, x) => LoneRes(res, x)) /\ (HasRes(res, x) => HasX(st, x))
      OBVIOUS
    <2>2. /\ nx \in Result /\ Len(nx.st.resp) <= Len(res.st.resp) /\ nx.st.req = res.st.req
          /\ \A x : (LoneRes(res, x) => LoneRes(nx, x)) /\ (HasRes(nx, x) => HasRes(res, x))
      BY <2>1, ResponseRoundIs
    <2> HIDE DEF nx
    <2>3. Len(nx.st.resp) \in Nat /\ Len(res.st.resp) \in Nat BY <2>1, <2>2 DEF Result, Session
    <2>4. Len(nx.st.resp) <= Len(st.resp) BY <1>0, <2>1, <2>2, <2>3
    <2>5. nx \in Q BY <2>1, <2>2, <2>4
    <2> QED BY <2>5 DEF nx
  <1>7. res1 \in Q
    <2>1. Q \subseteq Result OBVIOUS
    <2>2. res1 = ResponseRounds(delimited)[res0] BY DEF drainParsedConversations, mid
    <2> HIDE DEF Q, res0, res1
    <2> QED BY <1>5, <1>6, <2>1, <2>2, ResponseRoundsEnd
  <1> HIDE DEF res1
  <1>8. /\ res1 \in Result /\ Len(res1.st.req) <= Len(st.req) /\ Len(res1.st.resp) <= Len(st.resp)
        /\ \A x : (LoneSt(st, x) => LoneRes(res1, x)) /\ (HasRes(res1, x) => HasX(st, x))
    BY <1>7
  <1> QED BY <1>8 DEF res1

-----------------------------------------------------------------------------
(* Types *)

DataEvents == [type : {"data"}, seq : Nat, dir : {"read", "write"}, toks : Seq(Tok), cut : BOOLEAN]
CloseEvents == [type : {"close"}, seq : Nat]
Event == DataEvents \cup CloseEvents

Bounded(st) ==
  /\ st \in Session /\ Len(st.req) <= MaxStreamTokens /\ Len(st.resp) <= MaxStreamTokens

CaptureTypes == left \in [req : Seq(Tok), resp : Seq(Tok)] /\ nextSeq \in Nat /\ wire \in Seq(Event)

ConsumerTypes ==
  \/ consumer = Poll
  \/ /\ consumer \in [pc : {"process"}, ev : DataEvents, sid : 1 .. fresh]
  \/ /\ consumer \in [pc : {"close", "remove"}, ev : CloseEvents, sid : 1 .. fresh]

StoreTypes ==
  /\ fresh \in 0 .. MaxSessions /\ current \in 0 .. fresh /\ expired \subseteq 1 .. fresh
  /\ heap \in [1 .. MaxSessions -> Session] /\ \A i \in 1 .. MaxSessions : Bounded(heap[i])
  /\ emitted \in Seq(Conv)

Types == CaptureTypes /\ ConsumerTypes /\ StoreTypes

LEMMA NewSessionIs ==
  /\ Bounded(NewSession) /\ \A x : LoneSt(NewSession, x) /\ ~HasX(NewSession, x)
  <1>1. <<>> \in Seq(Tok) /\ <<>> \in Seq(Parsed) OBVIOUS
  <1>2. NewSession \in Session /\ NewSession.req = <<>> /\ NewSession.resp = <<>> /\ NewSession.pending = <<>>
    BY <1>1 DEF NewSession, Session
  <1>3. Len(<<>>) <= MaxStreamTokens BY LimitsAssumption
  <1>4. \A T : ~Has(<<>>, T) /\ One(<<>>, T) BY DEF Has, One
  <1> QED BY <1>2, <1>3, <1>4 DEF Bounded, LoneSt, HasX

-----------------------------------------------------------------------------
(* The connection *)

LEMMA BodyIs ==
  ASSUME NEW side \in {"req", "resp"}, NEW x \in Nat, NEW len \in Nat, NEW looks \in {"req", "resp", "none"}
  PROVE  /\ Body(side, x, len, looks) \in Seq(Tok) /\ Len(Body(side, x, len, looks)) = len
         /\ \A y : ~Has(Body(side, x, len, looks), ReqHead(y))
  <1> DEFINE b == Body(side, x, len, looks)
  <1>1. \A i \in 1 .. len :
          [kind |-> "body", side |-> side, x |-> x, n |-> i, looks |-> looks] \in Tok
    BY DEF Tok
  <1>2. /\ DOMAIN b = 1 .. len /\ b \in [1 .. len -> Tok]
        /\ \A i \in 1 .. len : b[i] = [kind |-> "body", side |-> side, x |-> x, n |-> i, looks |-> looks]
    BY <1>1 DEF Body
  <1> HIDE DEF b
  <1>3. b \in Seq(Tok) /\ Len(b) = len BY <1>2
  <1>4. \A i \in 1 .. len : b[i].kind # "req" BY <1>2
  <1>5. \A y : ~Has(b, ReqHead(y)) BY <1>2, <1>4 DEF Has, ReqHead
  <1> QED BY <1>3, <1>5 DEF b

(* b is what follows the head of request x: the rest of its line and len    *)
(* body tokens                                                              *)
IsRest(b, x, len) ==
  /\ b \in Seq(Tok) /\ Len(b) = len + 1 /\ DOMAIN b = 1 .. len + 1 /\ b[1].kind = "line"
  /\ \A y : ~Has(b, ReqHead(y))
  /\ \A i \in 1 .. len + 1 :
       b[i].kind \in {"line", "body"} /\ b[i].side = "req" /\ b[i].x = x /\ b[i].n = i
  /\ \A i \in 1 .. len + 1 : i # 1 => b[i].looks = "none"

LEMMA RestIs ==
  ASSUME NEW x \in Nat, NEW len \in Nat
  PROVE  IsRest(RequestRest(x, len), x, len)
  <1> DEFINE b == RequestRest(x, len)
             line == [kind |-> "line", side |-> "req", x |-> x, n |-> 1, looks |-> "resp"]
             body(i) == [kind |-> "body", side |-> "req", x |-> x, n |-> i, looks |-> "none"]
  <1>1. line \in Tok /\ line.kind = "line" /\ line.side = "req" /\ line.x = x /\ line.n = 1 BY DEF Tok
  <1>2. ASSUME NEW i \in 1 .. len + 1
        PROVE  /\ body(i) \in Tok /\ body(i).kind = "body" /\ body(i).side = "req" /\ body(i).x = x
               /\ body(i).n = i /\ body(i).looks = "none"
    BY DEF Tok
  <1>3. b = [i \in 1 .. len + 1 |-> IF i = 1 THEN line ELSE body(i)]
    <2>1. ASSUME NEW i \in 1 .. len + 1
          PROVE  (IF i = 1 THEN [kind |-> "line", side |-> "req", x |-> x, n |-> i, looks |-> "resp"]
                           ELSE [kind |-> "body", side |-> "req", x |-> x, n |-> i, looks |-> "none"])
                   = IF i = 1 THEN line ELSE body(i)
      OBVIOUS
    <2> QED BY <2>1 DEF RequestRest
  <1> HIDE DEF b, line, body
  <1>4. /\ DOMAIN b = 1 .. len + 1 /\ \A i \in 1 .. len + 1 : b[i] = IF i = 1 THEN line ELSE body(i)
    BY <1>3
  <1>5. b \in [1 .. len + 1 -> Tok] BY <1>1, <1>2, <1>3
  <1>6. b \in Seq(Tok) /\ Len(b) = len + 1 BY <1>5
  <1>7. \A i \in 1 .. len + 1 :
          /\ b[i].kind \in {"line", "body"} /\ b[i].side = "req" /\ b[i].x = x /\ b[i].n = i
          /\ i # 1 => b[i].kind = "body" /\ b[i].looks = "none"
    BY <1>1, <1>2, <1>4
  <1>8. \A i \in 1 .. len + 1 : b[i].kind # "req" BY <1>7
  <1>9. \A y : ~Has(b, ReqHead(y)) BY <1>4, <1>8 DEF Has, ReqHead
  <1>10. b[1].kind = "line" BY <1>1, <1>4
  <1>11. IsRest(b, x, len) BY <1>4, <1>6, <1>7, <1>9, <1>10 DEF IsRest
  <1> QED BY <1>11 DEF b

LEMMA RequestToksIs ==
  ASSUME NEW p \in Seq(Exchange), NEW x \in DOMAIN p
  PROVE  /\ RequestToks(p, x) \in Seq(Tok)
         /\ \A y : /\ One(RequestToks(p, x), ReqHead(y))
                   /\ Has(RequestToks(p, x), ReqHead(y)) => y = x
  <1> DEFINE h == [kind |-> "req", side |-> "req", x |-> x, n |-> p[x].req + 1, looks |-> "req"]
             b == RequestRest(x, p[x].req)
  <1>0. x \in 1 .. Len(p) /\ p[x] \in Exchange OBVIOUS
  <1>1. x \in Nat /\ p[x] \in Exchange /\ p[x].req \in Nat BY <1>0 DEF Exchange
  <1>2. b \in Seq(Tok) /\ \A y : ~Has(b, ReqHead(y)) BY <1>1, RestIs DEF IsRest
  <1>3. h \in Tok /\ h.x = x BY <1>1 DEF Tok
  <1>4. RequestToks(p, x) = <<h>> \o b BY DEF RequestToks
  <1> HIDE DEF h, b
  <1>5. <<h>> \in Seq(Tok) BY <1>3
  <1>6. \A y : One(<<h>>, ReqHead(y)) /\ (Has(<<h>>, ReqHead(y)) => y = x)
    BY <1>3 DEF One, Has, ReqHead
  <1>7. \A y : One(b, ReqHead(y)) BY <1>2 DEF One, Has
  <1>8. <<h>> \o b \in Seq(Tok) BY <1>2, <1>5
  <1>9. ASSUME NEW y PROVE One(<<h>> \o b, ReqHead(y)) /\ (Has(<<h>> \o b, ReqHead(y)) => y = x)
    <2>1. /\ Has(<<h>> \o b, ReqHead(y)) <=> Has(<<h>>, ReqHead(y)) \/ Has(b, ReqHead(y))
          /\ One(<<h>>, ReqHead(y)) /\ One(b, ReqHead(y)) /\ ~(Has(<<h>>, ReqHead(y)) /\ Has(b, ReqHead(y)))
               => One(<<h>> \o b, ReqHead(y))
      BY <1>2, <1>5, HasConcat
    <2> QED BY <1>2, <1>6, <1>7, <2>1
  <1> QED BY <1>4, <1>8, <1>9

LEMMA ResponseToksIs ==
  ASSUME NEW p \in Seq(Exchange), NEW x \in DOMAIN p
  PROVE  ResponseToks(p, x) \in Seq(Tok) /\ \A y : ~Has(ResponseToks(p, x), ReqHead(y))
  <1> DEFINE i == [kind |-> "info", side |-> "resp", x |-> x, n |-> 0, looks |-> "resp"]
             h == [kind |-> IF p[x].eof THEN "respEOF" ELSE "resp", side |-> "resp", x |-> x,
                   n |-> p[x].resp, looks |-> "resp"]
             b == Body("resp", x, p[x].resp, IF p[x].lookalike THEN "req" ELSE "none")
             a == IF p[x].info THEN <<i>> ELSE <<>>
  <1>0. x \in 1 .. Len(p) /\ p[x] \in Exchange OBVIOUS
  <1>1. x \in Nat /\ p[x] \in Exchange /\ p[x].resp \in Nat BY <1>0 DEF Exchange
  <1>2. b \in Seq(Tok) /\ \A y : ~Has(b, ReqHead(y)) BY <1>1, BodyIs
  <1>3. h \in Tok /\ h.kind # "req" /\ i \in Tok /\ i.kind # "req" BY <1>1 DEF Tok
  <1>4. ResponseToks(p, x) = a \o <<h>> \o b BY DEF ResponseToks
  <1> HIDE DEF h, b, i
  <1>5. <<h>> \in Seq(Tok) /\ a \in Seq(Tok) BY <1>3
  <1>6. \A y : ~Has(<<h>>, ReqHead(y)) BY <1>3 DEF Has, ReqHead
  <1>7. \A y : ~Has(a, ReqHead(y)) BY <1>3 DEF Has, ReqHead
  <1> HIDE DEF a
  <1>8. <<h>> \o b \in Seq(Tok) /\ a \o <<h>> \in Seq(Tok) /\ a \o <<h>> \o b \in Seq(Tok) BY <1>2, <1>5
  <1>9. ASSUME NEW y PROVE ~Has(a \o <<h>> \o b, ReqHead(y))
    <2> DEFINE c == a \o <<h>>
    <2>1. c \in Seq(Tok) /\ ~Has(c, ReqHead(y)) BY <1>5, <1>6, <1>7, HasConcat
    <2> HIDE DEF c
    <2>2. ~Has(c \o b, ReqHead(y)) BY <1>2, <2>1, HasConcat
    <2> QED BY <2>2 DEF c
  <1> QED BY <1>4, <1>8, <1>9

-----------------------------------------------------------------------------
(* Where request x is: not yet captured, in an event on its way, in the     *)
(* event the consumer works on, in a session, or in a conversation.  Unless *)
(* an event came twice it is in one place and there only once.              *)
EvWith(x) == {e \in Event : e.type = "data" /\ Has(e.toks, ReqHead(x))}
StWith(x) == {st \in Session : HasX(st, x)}

InLeft(x) == Has(left.req, ReqHead(x))
InWire(x) == Has(wire, EvWith(x))
InHand(x) == consumer.pc = "process" /\ Has(consumer.ev.toks, ReqHead(x))
InHeap(x) == Has(heap, StWith(x))
InOut(x) == Has(emitted, ConvOf(x))

LoneEv(e, x) == e.type = "data" => One(e.toks, ReqHead(x))

OnceEach(x) ==
  /\ One(left.req, ReqHead(x)) /\ ~Has(left.resp, ReqHead(x))
  /\ One(wire, EvWith(x)) /\ \A i \in DOMAIN wire : LoneEv(wire[i], x)
  /\ consumer.pc = "process" => One(consumer.ev.toks, ReqHead(x))
  /\ One(heap, StWith(x)) /\ \A i \in 1 .. MaxSessions : LoneSt(heap[i], x)
  /\ One(emitted, ConvOf(x))

OnePlace(x) ==
  /\ InLeft(x) => ~InWire(x) /\ ~InHand(x) /\ ~InHeap(x) /\ ~InOut(x)
  /\ InWire(x) => ~InHand(x) /\ ~InHeap(x) /\ ~InOut(x)
  /\ InHand(x) => ~InHeap(x) /\ ~InOut(x)
  /\ InHeap(x) => ~InOut(x)

Lone == "dup" \notin faults => \A x : OnceEach(x) /\ OnePlace(x)

SInv == Types /\ Lone

LEMMA SInvInit == Init => SInv
  <1> SUFFICES ASSUME Init PROVE SInv OBVIOUS
  <1> USE DEF Init
  <1>1. profile \in Seq(Exchange) BY ProfilesAssumption
  <1> DEFINE rq == [x \in DOMAIN profile |-> RequestToks(profile, x)]
             rp == [x \in DOMAIN profile |-> ResponseToks(profile, x)]
             q == left.req
             r == left.resp
  <1>2. q = FlattenSeq(rq) /\ r = FlattenSeq(rp) /\ left = [req |-> q, resp |-> r] OBVIOUS
  <1>3. Len(profile) \in Nat /\ DOMAIN profile = 1 .. Len(profile) BY <1>1
  <1>4. q \in Seq(Tok) /\ \A y : One(q, ReqHead(y))
    <2>1. /\ DOMAIN rq = 1 .. Len(profile)
          /\ \A x \in DOMAIN rq : /\ rq[x] = RequestToks(profile, x) /\ rq[x] \in Seq(Tok)
                                  /\ \A y : One(rq[x], ReqHead(y)) /\ (Has(rq[x], ReqHead(y)) => y = x)
      BY <1>1, <1>3, RequestToksIs
    <2>2. rq \in [1 .. Len(profile) -> Seq(Tok)] BY <2>1
    <2> HIDE DEF rq, q
    <2>3. rq \in Seq(Seq(Tok)) BY <1>3, <2>2, FunctionIsSequence
    <2>4. ASSUME NEW y PROVE FlattenSeq(rq) \in Seq(Tok) /\ One(FlattenSeq(rq), ReqHead(y))
      <3>1. \A k \in DOMAIN rq : One(rq[k], ReqHead(y)) BY <2>1
      <3>2. \A k, l \in DOMAIN rq : Has(rq[k], ReqHead(y)) /\ Has(rq[l], ReqHead(y)) => k = l BY <2>1
      <3> QED BY <2>3, <3>1, <3>2, FlattenLone
    <2> QED BY <1>2, <2>4
  <1>5. r \in Seq(Tok) /\ \A y : ~Has(r, ReqHead(y))
    <2>1. /\ DOMAIN rp = 1 .. Len(profile)
          /\ \A x \in DOMAIN rp : /\ rp[x] = ResponseToks(profile, x) /\ rp[x] \in Seq(Tok)
                                  /\ \A y : ~Has(rp[x], ReqHead(y))
      BY <1>1, <1>3, ResponseToksIs
    <2>2. rp \in [1 .. Len(profile) -> Seq(Tok)] BY <2>1
    <2> HIDE DEF rp, r
    <2>3. rp \in Seq(Seq(Tok)) BY <1>3, <2>2, FunctionIsSequence
    <2>4. ASSUME NEW y PROVE FlattenSeq(rp) \in Seq(Tok) /\ ~Has(FlattenSeq(rp), ReqHead(y))
      <3>1. \A k \in DOMAIN rp : ~Has(rp[k], ReqHead(y)) BY <2>1
      <3> QED BY <2>3, <3>1, FlattenNone
    <2> QED BY <1>2, <2>4
  <1>6. CaptureTypes
    <2> HIDE DEF q, r
    <2>1. wire = <<>> /\ nextSeq = 0 OBVIOUS
    <2> QED BY <1>2, <1>4, <1>5, <2>1 DEF CaptureTypes
  <1>7. /\ fresh = 0 /\ current = 0 /\ expired = {} /\ emitted = <<>> /\ consumer = Poll /\ wire = <<>>
        /\ DOMAIN heap = 1 .. MaxSessions /\ \A i \in 1 .. MaxSessions : heap[i] = NewSession
        /\ heap = [i \in 1 .. MaxSessions |-> NewSession]
    OBVIOUS
  <1>8. ConsumerTypes BY <1>7 DEF ConsumerTypes
  <1>9. StoreTypes
    <2>1. NewSession \in Session BY NewSessionIs DEF Bounded
    <2>2. heap \in [1 .. MaxSessions -> Session] BY <1>7, <2>1
    <2>3. \A i \in 1 .. MaxSessions : Bounded(heap[i]) BY <1>7, NewSessionIs
    <2>4. fresh \in 0 .. MaxSessions /\ current \in 0 .. fresh /\ expired \subseteq 1 .. fresh
      BY <1>7, LimitsAssumption
    <2>5. emitted \in Seq(Conv) BY <1>7
    <2> QED BY <2>2, <2>3, <2>4, <2>5 DEF StoreTypes
  <1>10. ASSUME NEW x PROVE OnceEach(x) /\ OnePlace(x)
    <2>1. \A T : ~Has(<<>>, T) /\ One(<<>>, T) BY DEF Has, One
    <2>2. ~InHeap(x) /\ One(heap, StWith(x)) BY <1>7, NewSessionIs DEF Has, One, InHeap, StWith
    <2>3. consumer.pc # "process" BY <1>7 DEF Poll
    <2>4. OnceEach(x)
      <3>1. One(left.req, ReqHead(x)) /\ ~Has(left.resp, ReqHead(x)) BY <1>4, <1>5
      <3>2. One(wire, EvWith(x)) /\ One(emitted, ConvOf(x)) /\ DOMAIN wire = {} BY <1>7, <2>1
      <3>3. \A i \in 1 .. MaxSessions : LoneSt(heap[i], x) BY <1>7, NewSessionIs
      <3> QED BY <2>2, <2>3, <3>1, <3>2, <3>3 DEF OnceEach
    <2>5. OnePlace(x) BY <1>7, <2>1, <2>2, <2>3 DEF OnePlace, InWire, InHand, InOut
    <2> QED BY <2>4, <2>5
  <1> QED BY <1>6, <1>8, <1>9, <1>10 DEF SInv, Types, Lone

-----------------------------------------------------------------------------
(* The way to the worker *)

LEMMA CaptureKeeps ==
  ASSUME SInv, NEW side \in {"req", "resp"}, NEW n \in 1 .. MaxChunk, Capture(side, n)
  PROVE  SInv'
  <1>1. /\ left \in [req : Seq(Tok), resp : Seq(Tok)] /\ left[side] \in Seq(Tok) /\ wire \in Seq(Event)
        /\ nextSeq \in Nat /\ nextSeq' = nextSeq + 1
    BY DEF SInv, Types, CaptureTypes, Capture
  <1>2. PICK m \in Nat, cut \in BOOLEAN :
          /\ m <= n /\ wire' = Append(wire, DataEvent(side, SubSeq(left[side], 1, m), cut))
          /\ faults \subseteq faults'
    <2>1. n \in Nat /\ (n > 1 => n - 1 \in Nat) /\ n <= n /\ n - 1 <= n BY LimitsAssumption
    <2>2. CASE wire' = Append(wire, DataEvent(side, SubSeq(left[side], 1, n), FALSE)) /\ faults' = faults \cup SplitHead(side)
      BY <2>1, <2>2
    <2>3. CASE /\ n > 1 /\ wire' = Append(wire, DataEvent(side, SubSeq(left[side], 1, n - 1), TRUE))
               /\ faults' = faults \cup SplitHead(side) \cup {"cut"}
      BY <2>1, <2>3
    <2> QED BY <2>2, <2>3 DEF Capture
  <1> DEFINE toks == SubSeq(left[side], 1, m)
             rest == SubSeq(left[side], n + 1, Len(left[side]))
             ev == DataEvent(side, toks, cut)
  <1>3. n <= Len(left[side]) /\ n \in Nat /\ n >= 1 /\ Len(left[side]) \in Nat
    BY <1>1, LimitsAssumption DEF Capture, MayCarry
  <1>4. /\ 1 \in 1 .. Len(left[side]) + 1 /\ m \in 1 - 1 .. Len(left[side]) /\ m \in 0 .. Len(left[side])
        /\ n + 1 \in 1 .. Len(left[side]) + 1 /\ Len(left[side]) \in (n + 1) - 1 .. Len(left[side])
        /\ n + 1 \in m + 1 .. Len(left[side]) + 1
    BY <1>2, <1>3
  <1>5. toks \in Seq(Tok) /\ rest \in Seq(Tok) BY <1>1, <1>4, SubSeqIs
  <1>6. ev \in Event /\ ev.type = "data" /\ ev.toks = toks
    <2>1. Direction(side) \in {"read", "write"} BY DEF Direction
    <2>2. ev \in DataEvents /\ ev.type = "data" /\ ev.toks = toks
      <3> HIDE DEF toks
      <3> QED BY <1>1, <1>5, <2>1 DEF DataEvent, DataEvents
    <2> QED BY <2>2 DEF Event
  <1>7. wire' = Append(wire, ev) /\ left' = [left EXCEPT ![side] = rest] BY <1>2 DEF Capture
  <1>8. ASSUME NEW T PROVE /\ Has(toks, T) \/ Has(rest, T) => Has(left[side], T)
                           /\ One(left[side], T) => One(toks, T) /\ One(rest, T) /\ ~(Has(toks, T) /\ Has(rest, T))
    <2>1. One(left[side], T) => ~(Has(toks, T) /\ Has(rest, T)) BY <1>1, <1>4, HasParts
    <2>2. One(left[side], T) => One(toks, T) BY <1>1, <1>4, HasSub
    <2>3. One(left[side], T) => One(rest, T) BY <1>1, <1>4, HasSub
    <2>4. (Has(toks, T) => Has(left[side], T)) /\ (Has(rest, T) => Has(left[side], T)) BY <1>1, <1>4, HasSub
    <2> QED BY <2>1, <2>2, <2>3, <2>4
  <1> HIDE DEF toks, rest, ev
  <1>9. CaptureTypes'
    <2>1. left' \in [req : Seq(Tok), resp : Seq(Tok)] BY <1>1, <1>5, <1>7
    <2>2. wire' \in Seq(Event) BY <1>1, <1>6, <1>7
    <2>3. nextSeq' \in Nat BY <1>1
    <2> QED BY <2>1, <2>2, <2>3 DEF CaptureTypes
  <1>10. UNCHANGED <<consumer, fresh, current, expired, heap, emitted>> BY DEF Capture
  <1>11. Types' BY <1>9, <1>10 DEF SInv, Types, ConsumerTypes, StoreTypes, Bounded
  <1>12. ASSUME "dup" \notin faults', NEW x PROVE OnceEach(x)' /\ OnePlace(x)'
    <2>1. OnceEach(x) /\ OnePlace(x) BY <1>2, <1>12 DEF SInv, Lone
    <2> DEFINE T == ReqHead(x)
               E == EvWith(x)
    <2>2. ev \in E <=> Has(toks, T) BY <1>6 DEF EvWith
    <2>3. LoneEv(ev, x) <=> One(toks, T) BY <1>6 DEF LoneEv
    <2>4. /\ Has(wire', E) <=> Has(wire, E) \/ ev \in E
          /\ One(wire, E) /\ ~(Has(wire, E) /\ ev \in E) => One(wire', E)
      BY <1>1, <1>6, <1>7, HasAppend
    <2>5. /\ One(left.req, T) /\ ~Has(left.resp, T) /\ One(wire, E)
          /\ \A i \in DOMAIN wire : LoneEv(wire[i], x)
      BY <2>1 DEF OnceEach
    <2>6. Has(left.req, T) => ~Has(wire, E) /\ ~InHand(x) /\ ~InHeap(x) /\ ~InOut(x) BY <2>1 DEF OnePlace, InLeft, InWire
    <2>7. /\ One(left.req, T)' /\ ~Has(left.resp, T)' /\ (Has(left.req, T)' => Has(left.req, T))
          /\ One(toks, T) /\ (Has(toks, T) => Has(left.req, T)) /\ ~(Has(toks, T) /\ Has(left.req, T)')
      <3>1. CASE side = "req"
        <4>1. left'.req = rest /\ left'.resp = left.resp /\ left[side] = left.req BY <1>1, <1>7, <3>1
        <4> HIDE DEF T
        <4> QED BY <1>8, <2>5, <4>1
      <3>2. CASE side = "resp"
        <4>1. left'.resp = rest /\ left'.req = left.req /\ left[side] = left.resp BY <1>1, <1>7, <3>2
        <4>2. ~Has(toks, T) /\ ~Has(rest, T) BY <1>8, <2>5, <4>1
        <4>3. One(toks, T) BY <4>2 DEF One, Has
        <4> HIDE DEF T
        <4> QED BY <2>5, <4>1, <4>2, <4>3
      <3> QED BY <3>1, <3>2
    <2>8. \A i \in DOMAIN wire' : LoneEv(wire'[i], x)
      <3> SUFFICES ASSUME NEW i \in DOMAIN wire' PROVE LoneEv(wire'[i], x) OBVIOUS
      <3>1. (i \in DOMAIN wire /\ wire'[i] = wire[i]) \/ wire'[i] = ev BY <1>1, <1>6, <1>7
      <3> QED BY <2>3, <2>5, <2>7, <3>1
    <2>9. /\ InHand(x)' <=> InHand(x)
          /\ InHeap(x)' <=> InHeap(x)
          /\ InOut(x)' <=> InOut(x)
      BY <1>10 DEF InHand, InHeap, InOut
    <2> HIDE DEF T, E
    <2>10. OnePlace(x)'
      <3>1. InWire(x)' => InWire(x) \/ Has(toks, T) BY <2>2, <2>4 DEF InWire, E
      <3>2. InLeft(x)' => InLeft(x) /\ ~Has(toks, T) BY <2>7 DEF InLeft, T
      <3>3. Has(toks, T) => InLeft(x) BY <2>7 DEF InLeft, T
      <3> QED BY <2>1, <2>9, <3>1, <3>2, <3>3 DEF OnePlace
    <2>11. OnceEach(x)'
      <3>1. One(wire', E) BY <2>2, <2>4, <2>5, <2>6, <2>7
      <3> QED BY <1>10, <2>1, <2>7, <2>8, <3>1 DEF OnceEach, T, E
    <2> QED BY <2>10, <2>11
  <1> QED BY <1>11, <1>12 DEF SInv, Lone

(* steps that change no more than the wire and history variables *)
LEMMA WireKeeps ==
  ASSUME SInv, UNCHANGED <<left, consumer, fresh, current, expired, heap, emitted>>,
         nextSeq' \in Nat, wire' \in Seq(Event), "dup" \in faults => "dup" \in faults',
         \A x : /\ Has(wire', EvWith(x)) => Has(wire, EvWith(x))
                /\ One(wire, EvWith(x)) => One(wire', EvWith(x)),
         \A i \in DOMAIN wire' : wire'[i] \in CloseEvents \/ \E j \in DOMAIN wire : wire'[i] = wire[j]
  PROVE  SInv'
  <1>1. Types' BY DEF SInv, Types, CaptureTypes, ConsumerTypes, StoreTypes, Bounded
  <1>2. ASSUME "dup" \notin faults', NEW x PROVE OnceEach(x)' /\ OnePlace(x)'
    <2>1. OnceEach(x) /\ OnePlace(x) BY <1>2 DEF SInv, Lone
    <2>2. \A i \in DOMAIN wire' : LoneEv(wire'[i], x)
      <3>1. \A e \in CloseEvents : LoneEv(e, x) BY DEF LoneEv, CloseEvents
      <3>2. \A i \in DOMAIN wire : LoneEv(wire[i], x) BY <2>1 DEF OnceEach
      <3> QED BY <3>1, <3>2
    <2>3. One(wire, EvWith(x))' BY <2>1 DEF OnceEach
    <2>4. OnceEach(x)' BY <2>1, <2>2, <2>3 DEF OnceEach
    <2>5. /\ InHand(x)' <=> InHand(x)
          /\ InHeap(x)' <=> InHeap(x)
          /\ InOut(x)' <=> InOut(x)
          /\ InLeft(x)' <=> InLeft(x)
          /\ InWire(x)' => InWire(x)
      BY DEF InHand, InHeap, InOut, InLeft, InWire
    <2>6. OnePlace(x)' BY <2>1, <2>5 DEF OnePlace
    <2> QED BY <2>4, <2>6
  <1> QED BY <1>1, <1>2 DEF SInv, Lone

LEMMA CaptureCloseKeeps ==
  ASSUME SInv, CaptureClose
  PROVE  SInv'
  <1> DEFINE ev == [type |-> "close", seq |-> nextSeq]
  <1>1. wire \in Seq(Event) /\ nextSeq \in Nat BY DEF SInv, Types, CaptureTypes
  <1>2. ev \in CloseEvents /\ ev \in Event /\ ev.type = "close" BY <1>1 DEF Event, CloseEvents
  <1>3. wire' = Append(wire, ev) /\ nextSeq' = nextSeq + 1 BY DEF CaptureClose
  <1> HIDE DEF ev
  <1>4. wire' \in Seq(Event) /\ nextSeq' \in Nat BY <1>1, <1>2, <1>3
  <1>5. ASSUME NEW x PROVE /\ Has(wire', EvWith(x)) => Has(wire, EvWith(x))
                           /\ One(wire, EvWith(x)) => One(wire', EvWith(x))
    <2>1. ev \notin EvWith(x) BY <1>2 DEF EvWith
    <2> QED BY <1>1, <1>2, <1>3, <2>1, HasAppend
  <1>6. \A i \in DOMAIN wire' : wire'[i] \in CloseEvents \/ \E j \in DOMAIN wire : wire'[i] = wire[j]
    <2> SUFFICES ASSUME NEW i \in DOMAIN wire'
                 PROVE  wire'[i] \in CloseEvents \/ \E j \in DOMAIN wire : wire'[i] = wire[j]
      OBVIOUS
    <2>1. (i \in DOMAIN wire /\ wire'[i] = wire[i]) \/ wire'[i] = ev BY <1>1, <1>2, <1>3
    <2> QED BY <1>2, <2>1
  <1>7. UNCHANGED <<left, consumer, fresh, current, expired, heap, emitted, faults>> BY DEF CaptureClose
  <1> QED BY <1>4, <1>5, <1>6, <1>7, WireKeeps

LEMMA LoseKeeps ==
  ASSUME SInv, Lose
  PROVE  SInv'
  <1>1. wire \in Seq(Event) /\ nextSeq \in Nat BY DEF SInv, Types, CaptureTypes
  <1>2. /\ wire # <<>> /\ wire' = Tail(wire) /\ ("dup" \in faults => "dup" \in faults')
        /\ UNCHANGED <<left, nextSeq, consumer, fresh, current, expired, heap, emitted>>
    BY DEF Lose, captureVars
  <1>3. wire' \in Seq(Event) BY <1>1, <1>2
  <1>4. ASSUME NEW x PROVE /\ Has(wire', EvWith(x)) => Has(wire, EvWith(x))
                           /\ One(wire, EvWith(x)) => One(wire', EvWith(x))
    BY <1>1, <1>2, HasTail
  <1>5. \A i \in DOMAIN wire' : wire'[i] = wire[i + 1] /\ i + 1 \in DOMAIN wire BY <1>1, <1>2
  <1>6. nextSeq' \in Nat BY <1>1, <1>2
  <1> QED BY <1>2, <1>3, <1>4, <1>5, <1>6, WireKeeps

LEMMA SwapKeeps ==
  ASSUME SInv, Swap
  PROVE  SInv'
  <1>1. wire \in Seq(Event) /\ nextSeq \in Nat BY DEF SInv, Types, CaptureTypes
  <1>2. /\ Len(wire) >= 2 /\ ("dup" \in faults => "dup" \in faults')
        /\ wire' = [i \in DOMAIN wire |-> IF i = 1 THEN wire[2] ELSE IF i = 2 THEN wire[1] ELSE wire[i]]
        /\ UNCHANGED <<left, nextSeq, consumer, fresh, current, expired, heap, emitted>>
    BY DEF Swap, captureVars
  <1> DEFINE to == [i \in DOMAIN wire |-> IF i = 1 THEN 2 ELSE IF i = 2 THEN 1 ELSE i]
  <1>3. Len(wire) \in Nat /\ DOMAIN wire = 1 .. Len(wire) /\ 1 \in DOMAIN wire /\ 2 \in DOMAIN wire BY <1>1, <1>2
  <1>4. /\ DOMAIN to = DOMAIN wire /\ \A i \in DOMAIN wire : to[i] \in DOMAIN wire
        /\ \A i, j \in DOMAIN wire : to[i] = to[j] => i = j
    BY <1>3
  <1>5. DOMAIN wire' = DOMAIN wire /\ \A i \in DOMAIN wire : wire'[i] = wire[to[i]] BY <1>2, <1>3
  <1> HIDE DEF to
  <1>6. wire' \in Seq(Event)
    <2>1. \A i \in 1 .. Len(wire) : wire'[i] \in Event BY <1>1, <1>3, <1>4, <1>5
    <2>2. wire' = [i \in 1 .. Len(wire) |-> wire'[i]] BY <1>2, <1>3
    <2> QED BY <1>3, <2>1, <2>2
  <1>7. ASSUME NEW x PROVE /\ Has(wire', EvWith(x)) => Has(wire, EvWith(x))
                           /\ One(wire, EvWith(x)) => One(wire', EvWith(x))
    BY <1>4, <1>5 DEF Has, One
  <1>8. \A i \in DOMAIN wire' : \E j \in DOMAIN wire : wire'[i] = wire[j] BY <1>4, <1>5
  <1>9. nextSeq' \in Nat BY <1>1, <1>2
  <1> QED BY <1>2, <1>6, <1>7, <1>8, <1>9, WireKeeps

-----------------------------------------------------------------------------
(* The consumer *)

LEMMA ReceiveKeeps ==
  ASSUME SInv, NEW again \in BOOLEAN, Receive(again)
  PROVE  SInv'
  <1> DEFINE ev == Head(wire)
  <1>1. /\ wire \in Seq(Event) /\ wire # <<>> /\ consumer.pc = "poll"
        /\ UNCHANGED <<left, nextSeq, heap, expired, emitted>>
        /\ \/ ev.type = "data" /\ getOrCreate(ev)
           \/ ev.type = "close" /\ Lookup(ev)
    BY DEF SInv, Types, CaptureTypes, Receive, captureVars
  <1>2. ev \in Event /\ Tail(wire) \in Seq(Event) BY <1>1
  <1>3. /\ ev.type = "data" => ev \in DataEvents
        /\ ev.type = "close" => ev \in CloseEvents
    BY <1>2 DEF Event, DataEvents, CloseEvents
  <1>4. (again /\ wire' = wire /\ "dup" \in faults') \/ (~again /\ wire' = Tail(wire) /\ faults' = faults)
    BY DEF Receive
  <1> HIDE DEF ev
  <1>5. /\ fresh \in 0 .. MaxSessions /\ current \in 0 .. fresh /\ expired \subseteq 1 .. fresh
        /\ heap \in [1 .. MaxSessions -> Session] /\ (\A i \in 1 .. MaxSessions : Bounded(heap[i]))
        /\ emitted \in Seq(Conv)
    BY DEF SInv, Types, StoreTypes
  <1>6. fresh \in Nat /\ MaxSessions \in Nat BY <1>5, LimitsAssumption
  <1>7. /\ fresh' \in 0 .. MaxSessions /\ fresh <= fresh' /\ current' \in 0 .. fresh'
        /\ \/ consumer' = Poll
           \/ ev.type = "data" /\ \E s \in 1 .. fresh' : consumer' = [pc |-> "process", ev |-> ev, sid |-> s]
           \/ ev.type = "close" /\ \E s \in 1 .. fresh' : consumer' = [pc |-> "close", ev |-> ev, sid |-> s]
    <2>1. CASE ev.type = "data" /\ getOrCreate(ev) /\ current # 0
      <3>1. fresh' = fresh /\ current' = current /\ consumer' = [pc |-> "process", ev |-> ev, sid |-> current]
        BY <2>1 DEF getOrCreate
      <3>2. current \in 1 .. fresh /\ fresh <= fresh BY <1>5, <1>6, <2>1
      <3> QED BY <1>5, <2>1, <3>1, <3>2
    <2>2. CASE ev.type = "data" /\ getOrCreate(ev) /\ current = 0
      <3>1. /\ fresh < MaxSessions /\ fresh' = fresh + 1 /\ current' = fresh + 1
            /\ consumer' = [pc |-> "process", ev |-> ev, sid |-> fresh + 1]
        BY <2>2 DEF getOrCreate
      <3>2. fresh + 1 \in 0 .. MaxSessions /\ fresh <= fresh + 1 /\ fresh + 1 \in 1 .. fresh + 1 /\ fresh + 1 \in 0 .. fresh + 1
        BY <1>6, <3>1
      <3> QED BY <2>2, <3>1, <3>2
    <2>3. CASE ev.type = "close" /\ Lookup(ev)
      <3>1. /\ fresh' = fresh /\ current' = current /\ fresh <= fresh
            /\ consumer' = IF current = 0 THEN Poll ELSE [pc |-> "close", ev |-> ev, sid |-> current]
        BY <1>6, <2>3 DEF Lookup
      <3>2. current = 0 \/ current \in 1 .. fresh BY <1>5, <1>6
      <3> QED BY <1>5, <2>3, <3>1, <3>2
    <2> QED BY <1>1, <2>1, <2>2, <2>3
  <1>8. Types'
    <2>1. CaptureTypes'
      <3>1. wire' \in Seq(Event) BY <1>1, <1>2, <1>4
      <3> QED BY <1>1, <3>1 DEF SInv, Types, CaptureTypes
    <2>2. ConsumerTypes'
      <3>1. CASE consumer' = Poll BY <3>1 DEF ConsumerTypes
      <3>2. CASE ev.type = "data" /\ \E s \in 1 .. fresh' : consumer' = [pc |-> "process", ev |-> ev, sid |-> s]
        BY <1>3, <3>2 DEF ConsumerTypes
      <3>3. CASE ev.type = "close" /\ \E s \in 1 .. fresh' : consumer' = [pc |-> "close", ev |-> ev, sid |-> s]
        BY <1>3, <3>3 DEF ConsumerTypes
      <3> QED BY <1>7, <3>1, <3>2, <3>3
    <2>3. StoreTypes'
      <3>1. expired' \subseteq 1 .. fresh'
        <4>1. \A i \in 1 .. fresh : i \in 1 .. fresh' BY <1>6, <1>7
        <4> QED BY <1>1, <1>5, <4>1
      <3> QED BY <1>1, <1>5, <1>7, <3>1 DEF StoreTypes, Bounded
    <2> QED BY <2>1, <2>2, <2>3 DEF Types
  <1>9. ASSUME "dup" \notin faults', NEW x PROVE OnceEach(x)' /\ OnePlace(x)'
    <2>1. wire' = Tail(wire) /\ faults' = faults BY <1>4, <1>9
    <2>2. OnceEach(x) /\ OnePlace(x) BY <1>9, <2>1 DEF SInv, Lone
    <2> DEFINE E == EvWith(x)
    <2>3. /\ Has(wire, E) <=> ev \in E \/ Has(wire', E)
          /\ One(wire, E) => One(wire', E) /\ ~(ev \in E /\ Has(wire', E))
      <3> HIDE DEF E
      <3> QED BY <1>1, <2>1, HasTail DEF ev
    <2>4. InHand(x)' => ev \in E
      <3> SUFFICES ASSUME InHand(x)' PROVE ev \in E OBVIOUS
      <3>1. consumer'.pc = "process" /\ Has(consumer'.ev.toks, ReqHead(x)) BY DEF InHand
      <3>2. ev.type = "data" /\ consumer'.ev = ev BY <1>7, <3>1 DEF Poll
      <3> QED BY <1>2, <3>1, <3>2 DEF EvWith
    <2>5. ~InHand(x) BY <1>1 DEF InHand
    <2>6. consumer'.pc = "process" => One(consumer'.ev.toks, ReqHead(x))
      <3> SUFFICES ASSUME consumer'.pc = "process" PROVE One(consumer'.ev.toks, ReqHead(x)) OBVIOUS
      <3>1. ev.type = "data" /\ consumer'.ev = ev BY <1>7 DEF Poll
      <3>2. 1 \in DOMAIN wire /\ wire[1] = ev BY <1>1 DEF ev
      <3>3. LoneEv(ev, x) BY <2>2, <3>2 DEF OnceEach
      <3> QED BY <3>1, <3>3 DEF LoneEv
    <2>7. \A i \in DOMAIN wire' : LoneEv(wire'[i], x)
      <3>1. \A i \in DOMAIN wire' : wire'[i] = wire[i + 1] /\ i + 1 \in DOMAIN wire BY <1>1, <2>1
      <3> QED BY <2>2, <3>1 DEF OnceEach
    <2>8. /\ InHeap(x)' <=> InHeap(x)
          /\ InOut(x)' <=> InOut(x)
          /\ InLeft(x)' <=> InLeft(x)
          /\ InWire(x) <=> Has(wire, E)
          /\ InWire(x)' <=> Has(wire', E)
      BY <1>1 DEF InHeap, InOut, InLeft, InWire
    <2>9. One(wire, E) BY <2>2 DEF OnceEach
    <2>10. OnceEach(x)' BY <1>1, <2>2, <2>3, <2>6, <2>7, <2>9 DEF OnceEach
    <2> HIDE DEF E
    <2>11. OnePlace(x)' BY <2>2, <2>3, <2>4, <2>8, <2>9 DEF OnePlace
    <2> QED BY <2>10, <2>11
  <1> QED BY <1>8, <1>9 DEF SInv, Lone

(* A step that replaces session sid by st and emits out keeps the invariant *)
(* if what is then in st or out came from the session or from the event in  *)
(* the consumer's hand, which the step gives up.                            *)
LEMMA SessionKeeps ==
  ASSUME SInv, NEW sid \in 1 .. MaxSessions, NEW res \in Result, Bounded(res.st),
         heap' = [heap EXCEPT ![sid] = res.st], emitted' = emitted \o res.out,
         UNCHANGED <<left, nextSeq, wire, fresh, current>>, expired' \subseteq expired,
         "dup" \in faults => "dup" \in faults',
         ConsumerTypes', consumer' = consumer \/ consumer'.pc # "process",
         \A x : "dup" \notin faults /\ OnceEach(x) /\ OnePlace(x) =>
                  /\ LoneRes(res, x)
                  /\ HasRes(res, x) => HasX(heap[sid], x) \/ (InHand(x) /\ consumer'.pc # "process")
  PROVE  SInv'
  <1>1. /\ heap \in [1 .. MaxSessions -> Session] /\ emitted \in Seq(Conv) /\ expired \subseteq 1 .. fresh
        /\ \A i \in 1 .. MaxSessions : Bounded(heap[i])
        /\ res.st \in Session /\ res.out \in Seq(Conv)
    BY DEF SInv, Types, StoreTypes, Result
  <1>2. /\ heap' \in [1 .. MaxSessions -> Session] /\ heap'[sid] = res.st
        /\ \A i \in 1 .. MaxSessions : i # sid => heap'[i] = heap[i]
    BY <1>1
  <1>3. Types'
    <2>1. CaptureTypes' BY DEF SInv, Types, CaptureTypes
    <2>2. emitted' \in Seq(Conv) BY <1>1
    <2>3. \A i \in 1 .. MaxSessions : Bounded(heap'[i]) BY <1>1, <1>2
    <2>4. expired' \subseteq 1 .. fresh' BY <1>1
    <2>5. fresh' \in 0 .. MaxSessions /\ current' \in 0 .. fresh' BY DEF SInv, Types, StoreTypes
    <2>6. StoreTypes' BY <1>2, <2>2, <2>3, <2>4, <2>5 DEF StoreTypes, Bounded
    <2> QED BY <2>1, <2>6 DEF Types
  <1>4. ASSUME "dup" \notin faults', NEW x PROVE OnceEach(x)' /\ OnePlace(x)'
    <2>1. OnceEach(x) /\ OnePlace(x) /\ "dup" \notin faults BY <1>4 DEF SInv, Lone
    <2>2. /\ LoneRes(res, x)
          /\ HasRes(res, x) => HasX(heap[sid], x) \/ (InHand(x) /\ consumer'.pc # "process")
      BY <2>1
    <2> DEFINE C == ConvOf(x)
               W == StWith(x)
    <2>3. \A i \in 1 .. MaxSessions : heap[i] \in W <=> HasX(heap[i], x) BY <1>1 DEF StWith
    <2>4. \A i \in 1 .. MaxSessions : heap'[i] \in W <=> HasX(heap'[i], x) BY <1>2 DEF StWith
    <2>5. DOMAIN heap = 1 .. MaxSessions /\ DOMAIN heap' = 1 .. MaxSessions BY <1>1, <1>2
    <2>6. One(heap, W) /\ One(emitted, C) /\ \A i \in 1 .. MaxSessions : LoneSt(heap[i], x) BY <2>1 DEF OnceEach
    <2>7. LoneSt(res.st, x) /\ One(res.out, C) /\ ~(HasX(res.st, x) /\ Has(res.out, C)) BY <2>2 DEF LoneRes
    <2>8. HasX(res.st, x) \/ Has(res.out, C) => HasX(heap[sid], x) \/ (InHand(x) /\ consumer'.pc # "process")
      BY <2>2 DEF HasRes
    <2>9. /\ Has(emitted', C) <=> Has(emitted, C) \/ Has(res.out, C)
          /\ One(emitted, C) /\ One(res.out, C) /\ ~(Has(emitted, C) /\ Has(res.out, C)) => One(emitted', C)
      BY <1>1, HasConcat
    <2>10. \A i \in 1 .. MaxSessions : HasX(heap[i], x) => InHeap(x) BY <2>3, <2>5 DEF InHeap, Has
    <2> HIDE DEF C, W
    <2>11. One(heap', W)
      <3> SUFFICES ASSUME NEW i \in 1 .. MaxSessions, NEW j \in 1 .. MaxSessions, heap'[i] \in W, heap'[j] \in W
                   PROVE  i = j
        BY <2>5 DEF One
      <3>1. ASSUME NEW k \in 1 .. MaxSessions, k # sid, heap'[k] \in W, heap'[sid] \in W PROVE FALSE
        <4>1. HasX(heap[k], x) /\ HasX(res.st, x) BY <1>2, <2>4, <3>1
        <4>2. HasX(heap[sid], x) BY <2>1, <2>8, <2>10, <4>1 DEF OnePlace
        <4> QED BY <2>3, <2>5, <2>6, <3>1, <4>1, <4>2, OneTwo
      <3>2. ASSUME i # sid, j # sid PROVE i = j
        <4>1. heap[i] \in W /\ heap[j] \in W BY <1>2, <3>2
        <4> QED BY <2>5, <2>6, <4>1, OneTwo
      <3> QED BY <3>1, <3>2
    <2>12. InHeap(x)' => InHeap(x) \/ (InHand(x) /\ consumer'.pc # "process")
      <3> SUFFICES ASSUME NEW i \in 1 .. MaxSessions, heap'[i] \in W
                   PROVE  InHeap(x) \/ (InHand(x) /\ consumer'.pc # "process")
        BY <2>5 DEF InHeap, Has, W
      <3>1. CASE i = sid BY <1>2, <2>4, <2>8, <2>10, <3>1
      <3>2. CASE i # sid BY <1>2, <2>4, <2>10, <3>2
      <3> QED BY <3>1, <3>2
    <2>13. InOut(x)' <=> InOut(x) \/ Has(res.out, C) BY <2>9 DEF InOut, C
    <2>14. Has(res.out, C) => InHeap(x) \/ (InHand(x) /\ consumer'.pc # "process") BY <2>8, <2>10
    <2>15. InHeap(x)' => ~Has(res.out, C)
      <3> SUFFICES ASSUME NEW i \in 1 .. MaxSessions, heap'[i] \in W, Has(res.out, C) PROVE FALSE
        BY <2>5 DEF InHeap, Has, W
      <3>1. i # sid /\ HasX(heap[i], x) BY <1>2, <2>4, <2>7
      <3>2. HasX(heap[sid], x) BY <2>1, <2>8, <2>10, <3>1 DEF OnePlace
      <3> QED BY <2>3, <2>5, <2>6, <3>1, <3>2, OneTwo
    <2>16. /\ InLeft(x)' <=> InLeft(x)
           /\ InWire(x)' <=> InWire(x)
           /\ InHand(x)' => InHand(x) /\ consumer'.pc = "process"
      BY DEF InLeft, InWire, InHand
    <2>17. One(emitted', C) BY <2>1, <2>6, <2>7, <2>9, <2>14 DEF OnePlace, InOut, C
    <2>18. \A i \in 1 .. MaxSessions : LoneSt(heap'[i], x) BY <1>2, <2>6, <2>7
    <2>19. consumer'.pc = "process" => One(consumer'.ev.toks, ReqHead(x)) BY <2>1 DEF OnceEach
    <2>20. OnceEach(x)' BY <2>1, <2>11, <2>17, <2>18, <2>19 DEF OnceEach, C, W
    <2>21. OnePlace(x)' BY <2>1, <2>12, <2>13, <2>14, <2>15, <2>16 DEF OnePlace
    <2> QED BY <2>20, <2>21
  <1> QED BY <1>3, <1>4 DEF SInv, Lone

LEMMA DrainKeeps ==
  ASSUME SInv, NEW sid \in 1 .. MaxSessions, NEW st, Bounded(st), NEW delimited \in BOOLEAN,
         Drain(sid, st, delimited),
         UNCHANGED <<left, nextSeq, wire, fresh, current>>, expired' \subseteq expired,
         "dup" \in faults => "dup" \in faults',
         ConsumerTypes', consumer' = consumer \/ consumer'.pc # "process",
         \A x : "dup" \notin faults /\ OnceEach(x) /\ OnePlace(x) =>
                  /\ LoneSt(st, x)
                  /\ HasX(st, x) => HasX(heap[sid], x) \/ (InHand(x) /\ consumer'.pc # "process")
  PROVE  SInv'
  <1> DEFINE res == drainParsedConversations(st, delimited)
  <1>1. heap' = [heap EXCEPT ![sid] = res.st] /\ emitted' = emitted \o res.out BY DEF Drain
  <1>2. /\ st \in Session /\ Len(st.req) <= MaxStreamTokens /\ Len(st.resp) <= MaxStreamTokens
        /\ Len(st.req) \in Nat /\ Len(st.resp) \in Nat
    BY DEF Bounded, Session
  <1>3. /\ res \in Result /\ Len(res.st.req) <= Len(st.req) /\ Len(res.st.resp) <= Len(st.resp)
        /\ \A x : (LoneSt(st, x) => LoneRes(res, x)) /\ (HasRes(res, x) => HasX(st, x))
    BY <1>2, DrainIs
  <1> HIDE DEF res
  <1>4. Bounded(res.st)
    <2>1. res.st \in Session BY <1>3 DEF Result
    <2>2. Len(res.st.req) \in Nat /\ Len(res.st.resp) \in Nat BY <2>1 DEF Session
    <2>3. MaxStreamTokens \in Nat BY LimitsAssumption
    <2>4. Len(res.st.req) <= MaxStreamTokens /\ Len(res.st.resp) <= MaxStreamTokens BY <1>2, <1>3, <2>2, <2>3
    <2> QED BY <2>1, <2>4 DEF Bounded
  <1>5. \A x : "dup" \notin faults /\ OnceEach(x) /\ OnePlace(x) =>
                 /\ LoneRes(res, x)
                 /\ HasRes(res, x) => HasX(heap[sid], x) \/ (InHand(x) /\ consumer'.pc # "process")
    BY <1>3
  <1> QED BY <1>1, <1>3, <1>4, <1>5, SessionKeeps

LEMMA RoutedIs ==
  ASSUME NEW st \in Session, NEW ev \in DataEvents
  PROVE  LET nx == Route(Touch(st, ev), ev) IN
         /\ nx \in Session /\ nx.pending = st.pending
         /\ \A x : /\ HasX(nx, x) => HasX(st, x) \/ Has(ev.toks, ReqHead(x))
                   /\ LoneSt(st, x) /\ One(ev.toks, ReqHead(x)) /\ ~(HasX(st, x) /\ Has(ev.toks, ReqHead(x)))
                        => LoneSt(nx, x)
  <1> DEFINE t == Touch(st, ev)
             nx == Route(t, ev)
  <1>1. ev.toks \in Seq(Tok) /\ ev.seq \in Nat /\ ev.cut \in BOOLEAN BY DEF DataEvents
  <1>2. /\ st.req \in Seq(Tok) /\ st.resp \in Seq(Tok) /\ st.pending \in Seq(Parsed) /\ st.hasSeq \in BOOLEAN
        /\ st.seq \in Nat /\ st.gap \in BOOLEAN /\ st.truncated \in BOOLEAN
    BY DEF Session
  <1>3. t \in Session /\ t.req = st.req /\ t.resp = st.resp /\ t.pending = st.pending
    <2> DEFINE g == st.gap \/ (st.hasSeq /\ ev.seq > st.seq + 1)
               c == st.truncated \/ ev.cut
               s == IF ~st.hasSeq \/ ev.seq >= st.seq THEN ev.seq ELSE st.seq
    <2>1. t = [st EXCEPT !.stale = FALSE, !.gap = g, !.truncated = c, !.seq = s, !.hasSeq = TRUE] BY DEF Touch
    <2>2. g \in BOOLEAN /\ c \in BOOLEAN /\ s \in Nat BY <1>1, <1>2
    <2> HIDE DEF g, c, s, t
    <2> QED BY <2>1, <2>2 DEF Session
  <1> HIDE DEF t
  <1>4. CASE RouteAsRequest(ev)
    <2>1. nx = [t EXCEPT !.req = @ \o ev.toks] BY <1>4 DEF Route
    <2>2. t.req \o ev.toks \in Seq(Tok) BY <1>1, <1>2, <1>3
    <2> HIDE DEF nx
    <2>3. nx \in Session /\ nx.req = t.req \o ev.toks /\ nx.pending = t.pending BY <1>3, <2>1, <2>2 DEF Session
    <2>4. ASSUME NEW x
          PROVE  /\ Has(nx.req, ReqHead(x)) <=> Has(st.req, ReqHead(x)) \/ Has(ev.toks, ReqHead(x))
                 /\ One(st.req, ReqHead(x)) /\ One(ev.toks, ReqHead(x))
                      /\ ~(Has(st.req, ReqHead(x)) /\ Has(ev.toks, ReqHead(x))) => One(nx.req, ReqHead(x))
      BY <1>1, <1>2, <1>3, <2>3, HasConcat
    <2>5. \A x : /\ HasX(nx, x) => HasX(st, x) \/ Has(ev.toks, ReqHead(x))
                 /\ LoneSt(st, x) /\ One(ev.toks, ReqHead(x)) /\ ~(HasX(st, x) /\ Has(ev.toks, ReqHead(x)))
                      => LoneSt(nx, x)
      BY <1>3, <2>3, <2>4 DEF HasX, LoneSt
    <2> QED BY <1>3, <2>3, <2>5 DEF nx, t
  <1>5. CASE ~RouteAsRequest(ev)
    <2>1. nx = [t EXCEPT !.resp = @ \o ev.toks] BY <1>5 DEF Route
    <2>2. t.resp \o ev.toks \in Seq(Tok) BY <1>1, <1>2, <1>3
    <2> HIDE DEF nx
    <2>3. nx \in Session /\ nx.req = t.req /\ nx.pending = t.pending BY <1>3, <2>1, <2>2 DEF Session
    <2>4. \A x : /\ HasX(nx, x) => HasX(st, x) \/ Has(ev.toks, ReqHead(x))
                 /\ LoneSt(st, x) /\ One(ev.toks, ReqHead(x)) /\ ~(HasX(st, x) /\ Has(ev.toks, ReqHead(x)))
                      => LoneSt(nx, x)
      BY <1>3, <2>3 DEF HasX, LoneSt
    <2> QED BY <1>3, <2>3, <2>4 DEF nx, t
  <1> QED BY <1>4, <1>5

LEMMA OverflowedIs ==
  ASSUME NEW st \in Session
  PROVE  /\ Bounded(Overflowed(st))
         /\ \A x : (LoneSt(st, x) => LoneSt(Overflowed(st), x)) /\ (HasX(Overflowed(st), x) => HasX(st, x))
  <1> DEFINE nx == Overflowed(st)
             q == IF Len(st.req) > MaxStreamTokens THEN <<>> ELSE st.req
             r == IF Len(st.resp) > MaxStreamTokens THEN <<>> ELSE st.resp
  <1>1. st.req \in Seq(Tok) /\ st.resp \in Seq(Tok) BY DEF Session
  <1>2. q \in Seq(Tok) /\ r \in Seq(Tok) BY <1>1
  <1>3. Len(q) <= MaxStreamTokens /\ Len(r) <= MaxStreamTokens
    <2>1. Len(st.req) \in Nat /\ Len(st.resp) \in Nat /\ MaxStreamTokens \in Nat BY <1>1, LimitsAssumption
    <2>2. Len(<<>>) <= MaxStreamTokens BY <2>1
    <2> QED BY <2>1, <2>2
  <1>4. q = st.req \/ q = <<>> OBVIOUS
  <1>5. nx = [st EXCEPT !.req = q, !.resp = r, !.pending = <<>>] BY DEF Overflowed
  <1> HIDE DEF nx, q, r
  <1>6. nx \in Session /\ nx.req = q /\ nx.resp = r /\ nx.pending = <<>>
    <2>1. <<>> \in Seq(Parsed) OBVIOUS
    <2> QED BY <1>2, <1>5, <2>1 DEF Session
  <1>7. \A T : ~Has(<<>>, T) /\ One(<<>>, T) BY DEF Has, One
  <1>8. \A x : (LoneSt(st, x) => LoneSt(nx, x)) /\ (HasX(nx, x) => HasX(st, x))
    BY <1>4, <1>6, <1>7 DEF LoneSt, HasX
  <1>9. Bounded(nx) BY <1>3, <1>6 DEF Bounded
  <1> QED BY <1>8, <1>9 DEF nx

LEMMA ProcessKeeps ==
  ASSUME SInv, Process
  PROVE  SInv'
  <1> DEFINE sid == consumer.sid
             ev == consumer.ev
             st == Route(Touch(heap[sid], ev), ev)
  <1>1. /\ consumer.pc = "process" /\ consumer' = Poll
        /\ UNCHANGED <<left, nextSeq, wire, fresh, current, expired>>
        /\ \/ /\ Overflows(st) /\ heap' = [heap EXCEPT ![sid] = Overflowed(st)]
              /\ faults' = faults \cup {"overflow"} /\ emitted' = emitted
           \/ ~Overflows(st) /\ Drain(sid, st, FALSE) /\ faults' = faults
    BY DEF Process, captureVars
  <1>2. ev \in DataEvents /\ sid \in 1 .. fresh
    <2>1. consumer \in [pc : {"process"}, ev : DataEvents, sid : 1 .. fresh]
      BY <1>1 DEF SInv, Types, ConsumerTypes, Poll
    <2> QED BY <2>1
  <1>3. sid \in 1 .. MaxSessions /\ heap[sid] \in Session
    <2>1. fresh \in 0 .. MaxSessions /\ heap \in [1 .. MaxSessions -> Session] BY DEF SInv, Types, StoreTypes
    <2>2. sid \in 1 .. MaxSessions BY <1>2, <2>1, LimitsAssumption
    <2> QED BY <2>1, <2>2
  <1>4. /\ st \in Session
        /\ \A x : /\ HasX(st, x) => HasX(heap[sid], x) \/ Has(ev.toks, ReqHead(x))
                  /\ LoneSt(heap[sid], x) /\ One(ev.toks, ReqHead(x))
                       /\ ~(HasX(heap[sid], x) /\ Has(ev.toks, ReqHead(x))) => LoneSt(st, x)
    BY <1>2, <1>3, RoutedIs
  <1>5. consumer'.pc # "process" /\ ConsumerTypes' BY <1>1 DEF Poll, ConsumerTypes
  <1> HIDE DEF st
  <1>6. \A x : "dup" \notin faults /\ OnceEach(x) /\ OnePlace(x) =>
                  /\ LoneSt(st, x)
                  /\ HasX(st, x) => HasX(heap[sid], x) \/ (InHand(x) /\ consumer'.pc # "process")
    <2> SUFFICES ASSUME NEW x, OnceEach(x), OnePlace(x)
                 PROVE  /\ LoneSt(st, x)
                        /\ HasX(st, x) => HasX(heap[sid], x) \/ (InHand(x) /\ consumer'.pc # "process")
      OBVIOUS
    <2>1. Has(ev.toks, ReqHead(x)) <=> InHand(x) BY <1>1 DEF InHand
    <2>2. LoneSt(heap[sid], x) /\ One(ev.toks, ReqHead(x)) BY <1>1, <1>3 DEF OnceEach
    <2>3. HasX(heap[sid], x) => InHeap(x)
      <3>1. sid \in DOMAIN heap BY <1>3 DEF SInv, Types, StoreTypes
      <3> QED BY <1>3, <3>1 DEF InHeap, Has, StWith
    <2> HIDE DEF sid, ev
    <2>4. LoneSt(st, x) BY <1>4, <2>1, <2>2, <2>3 DEF OnePlace
    <2> QED BY <1>4, <1>5, <2>1, <2>4
  <1>7. CASE /\ Overflows(st) /\ heap' = [heap EXCEPT ![sid] = Overflowed(st)]
             /\ faults' = faults \cup {"overflow"} /\ emitted' = emitted
    <2> DEFINE res == [st |-> Overflowed(st), out |-> <<>>]
    <2>1. /\ Bounded(Overflowed(st))
          /\ \A x : (LoneSt(st, x) => LoneSt(Overflowed(st), x)) /\ (HasX(Overflowed(st), x) => HasX(st, x))
      BY <1>4, OverflowedIs
    <2>2. res.st = Overflowed(st) /\ res.out = <<>> /\ res \in Result
      <3>1. <<>> \in Seq(Conv) /\ Overflowed(st) \in Session BY <2>1 DEF Bounded
      <3> QED BY <3>1 DEF Result
    <2>3. emitted' = emitted \o res.out
      <3>1. emitted \in Seq(Conv) BY DEF SInv, Types, StoreTypes
      <3> QED BY <1>7, <2>2, <3>1
    <2> HIDE DEF res
    <2>4. \A T : ~Has(<<>>, T) /\ One(<<>>, T) BY DEF Has, One
    <2>5. \A x : "dup" \notin faults /\ OnceEach(x) /\ OnePlace(x) =>
                   /\ LoneRes(res, x)
                   /\ HasRes(res, x) => HasX(heap[sid], x) \/ (InHand(x) /\ consumer'.pc # "process")
      BY <1>6, <2>1, <2>2, <2>4 DEF LoneRes, HasRes
    <2>6. heap' = [heap EXCEPT ![sid] = res.st] /\ Bounded(res.st) BY <1>7, <2>1, <2>2
    <2>7. ("dup" \in faults => "dup" \in faults') /\ expired' \subseteq expired BY <1>1, <1>7
    <2> HIDE DEF sid
    <2> QED BY <1>1, <1>3, <1>5, <2>2, <2>3, <2>5, <2>6, <2>7, SessionKeeps
  <1>8. CASE ~Overflows(st) /\ Drain(sid, st, FALSE) /\ faults' = faults
    <2>1. Bounded(st)
      <3>1. Len(st.req) \in Nat /\ Len(st.resp) \in Nat /\ MaxStreamTokens \in Nat BY <1>4, LimitsAssumption DEF Session
      <3>2. ~(Len(st.req) > MaxStreamTokens) /\ ~(Len(st.resp) > MaxStreamTokens) BY <1>8 DEF Overflows
      <3> QED BY <1>4, <3>1, <3>2 DEF Bounded
    <2>2. ("dup" \in faults => "dup" \in faults') /\ expired' \subseteq expired BY <1>1, <1>8
    <2> HIDE DEF sid
    <2> QED BY <1>1, <1>3, <1>5, <1>6, <1>8, <2>1, <2>2, DrainKeeps
  <1> QED BY <1>1, <1>7, <1>8

(* handleCloseEvent and onExpire drain a session as it is *)
LEMMA PlainDrainKeeps ==
  ASSUME SInv, NEW sid \in 1 .. MaxSessions, Drain(sid, heap[sid], TRUE),
         UNCHANGED <<left, nextSeq, wire, fresh, current, faults>>, expired' \subseteq expired,
         ConsumerTypes', consumer' = consumer \/ consumer'.pc # "process"
  PROVE  SInv'
  <1>1. Bounded(heap[sid]) BY DEF SInv, Types, StoreTypes
  <1>2. \A x : "dup" \notin faults /\ OnceEach(x) /\ OnePlace(x) =>
                  /\ LoneSt(heap[sid], x)
                  /\ HasX(heap[sid], x) => HasX(heap[sid], x) \/ (InHand(x) /\ consumer'.pc # "process")
    BY DEF OnceEach
  <1>3. "dup" \in faults => "dup" \in faults' OBVIOUS
  <1> QED BY <1>1, <1>2, <1>3, DrainKeeps

LEMMA CloseDrainKeeps ==
  ASSUME SInv, CloseDrain
  PROVE  SInv'
  <1>1. consumer \in [pc : {"close", "remove"}, ev : CloseEvents, sid : 1 .. fresh] /\ fresh \in 0 .. MaxSessions
    BY DEF SInv, Types, ConsumerTypes, StoreTypes, CloseDrain, Poll
  <1>2. consumer.sid \in 1 .. MaxSessions BY <1>1, LimitsAssumption
  <1>3. /\ Drain(consumer.sid, heap[consumer.sid], TRUE) /\ consumer' = [consumer EXCEPT !.pc = "remove"]
        /\ UNCHANGED <<left, nextSeq, wire, fresh, current, faults, expired>>
    BY DEF CloseDrain, captureVars
  <1>4. ConsumerTypes' /\ consumer'.pc # "process"
    <2>1. consumer' \in [pc : {"close", "remove"}, ev : CloseEvents, sid : 1 .. fresh'] /\ consumer'.pc = "remove"
      BY <1>1, <1>3
    <2> QED BY <2>1 DEF ConsumerTypes
  <1>5. expired' \subseteq expired BY <1>3
  <1> QED BY <1>2, <1>3, <1>4, <1>5, PlainDrainKeeps

LEMMA DrainExpiredKeeps ==
  ASSUME SInv, NEW sid \in expired, DrainExpired(sid)
  PROVE  SInv'
  <1>1. sid \in 1 .. MaxSessions
    <2>1. expired \subseteq 1 .. fresh /\ fresh \in 0 .. MaxSessions BY DEF SInv, Types, StoreTypes
    <2> QED BY <2>1, LimitsAssumption
  <1>2. /\ Drain(sid, heap[sid], TRUE) /\ expired' \subseteq expired /\ consumer' = consumer
        /\ UNCHANGED <<left, nextSeq, wire, fresh, current, faults>>
    BY DEF DrainExpired, captureVars
  <1>3. ConsumerTypes' BY <1>2 DEF SInv, Types, ConsumerTypes
  <1> QED BY <1>1, <1>2, <1>3, PlainDrainKeeps

LEMMA CloseRemoveKeeps ==
  ASSUME SInv, CloseRemove
  PROVE  SInv'
  <1>1. /\ current' = 0 /\ consumer' = Poll
        /\ UNCHANGED <<left, nextSeq, wire, heap, fresh, expired, emitted, faults>>
    BY DEF CloseRemove, captureVars
  <1>2. current' \in 0 .. fresh'
    <2>1. fresh \in 0 .. MaxSessions BY DEF SInv, Types, StoreTypes
    <2> QED BY <1>1, <2>1
  <1>3. Types' BY <1>1, <1>2 DEF SInv, Types, CaptureTypes, ConsumerTypes, StoreTypes, Bounded
  <1>4. consumer'.pc # "process" BY <1>1 DEF Poll
  <1>5. Lone' BY <1>1, <1>4 DEF SInv, Lone, OnceEach, OnePlace, InLeft, InWire, InHand, InHeap, InOut
  <1> QED BY <1>3, <1>5 DEF SInv

-----------------------------------------------------------------------------
(* The cleanup goroutine *)

LEMMA SweepKeeps ==
  ASSUME SInv, Sweep
  PROVE  SInv'
  <1>1. /\ current # 0 /\ current' = 0 /\ expired' = expired \cup {current} /\ faults' = faults \cup {"expire"}
        /\ UNCHANGED <<left, nextSeq, wire, heap, fresh, consumer, emitted>>
    BY DEF Sweep, captureVars
  <1>2. current' \in 0 .. fresh' /\ expired' \subseteq 1 .. fresh'
    <2>1. fresh \in 0 .. MaxSessions /\ current \in 0 .. fresh /\ expired \subseteq 1 .. fresh
      BY DEF SInv, Types, StoreTypes
    <2>2. current \in 1 .. fresh /\ 0 \in 0 .. fresh BY <1>1, <2>1
    <2> QED BY <1>1, <2>1, <2>2
  <1>3. Types' BY <1>1, <1>2 DEF SInv, Types, CaptureTypes, ConsumerTypes, StoreTypes, Bounded
  <1>4. "dup" \notin faults' => "dup" \notin faults BY <1>1
  <1>5. Lone' BY <1>1, <1>4 DEF SInv, Lone, OnceEach, OnePlace, InLeft, InWire, InHand, InHeap, InOut
  <1> QED BY <1>3, <1>5 DEF SInv

LEMMA GoesStaleKeeps ==
  ASSUME SInv, GoesStale
  PROVE  SInv'
  <1> DEFINE st == [heap[current] EXCEPT !.stale = TRUE]
             res == [st |-> st, out |-> <<>>]
  <1>1. /\ current # 0 /\ heap' = [heap EXCEPT ![current].stale = TRUE]
        /\ UNCHANGED <<left, nextSeq, wire, fresh, current, consumer, expired, emitted, faults>>
    BY DEF GoesStale, captureVars
  <1>2. /\ fresh \in 0 .. MaxSessions /\ current \in 0 .. fresh /\ heap \in [1 .. MaxSessions -> Session]
        /\ \A i \in 1 .. MaxSessions : Bounded(heap[i])
    BY DEF SInv, Types, StoreTypes
  <1>3. current \in 1 .. MaxSessions BY <1>1, <1>2, LimitsAssumption
  <1>4. /\ st \in Session /\ st.req = heap[current].req /\ st.resp = heap[current].resp
        /\ st.pending = heap[current].pending
    BY <1>2, <1>3 DEF Session
  <1>5. heap' = [heap EXCEPT ![current] = st] BY <1>1, <1>2, <1>3
  <1> HIDE DEF st
  <1>6. Bounded(st) BY <1>2, <1>3, <1>4 DEF Bounded
  <1>7. res \in Result /\ res.st = st /\ res.out = <<>>
    <2>1. <<>> \in Seq(Conv) OBVIOUS
    <2> QED BY <1>4, <2>1 DEF Result
  <1> HIDE DEF res
  <1>8. emitted' = emitted \o res.out
    <2>1. emitted \in Seq(Conv) BY DEF SInv, Types, StoreTypes
    <2> QED BY <1>1, <1>7, <2>1
  <1>9. \A T : ~Has(<<>>, T) /\ One(<<>>, T) BY DEF Has, One
  <1>10. \A x : "dup" \notin faults /\ OnceEach(x) /\ OnePlace(x) =>
                   /\ LoneRes(res, x)
                   /\ HasRes(res, x) => HasX(heap[current], x) \/ (InHand(x) /\ consumer'.pc # "process")
    BY <1>3, <1>4, <1>7, <1>9 DEF OnceEach, LoneRes, HasRes, LoneSt, HasX
  <1>11. ConsumerTypes' BY <1>1 DEF SInv, Types, ConsumerTypes
  <1>12. ("dup" \in faults => "dup" \in faults') /\ expired' \subseteq expired BY <1>1
  <1> QED BY <1>1, <1>3, <1>5, <1>6, <1>7, <1>8, <1>10, <1>11, <1>12, SessionKeeps

-----------------------------------------------------------------------------
LEMMA StutterKeeps == SInv /\ UNCHANGED vars => SInv'
  BY DEF SInv, Types, CaptureTypes, ConsumerTypes, StoreTypes, Bounded, Lone, OnceEach, OnePlace,
         InLeft, InWire, InHand, InHeap, InOut, vars

LEMMA SInvNext == SInv /\ [Next]_vars => SInv'
  <1> SUFFICES ASSUME SInv, [Next]_vars PROVE SInv' OBVIOUS
  <1>1. ASSUME NEW side \in {"req", "resp"}, NEW n \in 1 .. MaxChunk, Capture(side, n) PROVE SInv'
    BY <1>1, CaptureKeeps
  <1>2. CASE CaptureClose BY <1>2, CaptureCloseKeeps
  <1>3. CASE Lose BY <1>3, LoseKeeps
  <1>4. CASE Swap BY <1>4, SwapKeeps
  <1>5. CASE Receive(FALSE) BY <1>5, ReceiveKeeps
  <1>6. CASE Receive(TRUE) BY <1>6, ReceiveKeeps
  <1>7. CASE Process BY <1>7, ProcessKeeps
  <1>8. CASE CloseDrain BY <1>8, CloseDrainKeeps
  <1>9. CASE CloseRemove BY <1>9, CloseRemoveKeeps
  <1>10. CASE GoesStale BY <1>10, GoesStaleKeeps
  <1>11. CASE Sweep BY <1>11, SweepKeeps
  <1>12. ASSUME NEW sid \in expired, DrainExpired(sid) PROVE SInv' BY <1>12, DrainExpiredKeeps
  <1>13. CASE UNCHANGED vars BY <1>13, StutterKeeps
  <1> QED
    BY <1>1, <1>2, <1>3, <1>4, <1>5, <1>6, <1>7, <1>8, <1>9, <1>10, <1>11, <1>12, <1>13
    DEF Next, CaptureStep, ConsumerStep, CleanupStep

LEMMA Invariant == Spec => []SInv
  BY SInvInit, SInvNext, PTL DEF Spec

(* The variables of the reassembly keep their types; in particular neither  *)
(* stream buffer of a session is left longer than maxStreamBytes by         *)
(* processEvent, handleCloseEvent or onExpire, and the consumer and the     *)
(* cleanup goroutine hold only allocated sessions.                          *)
THEOREM TypeCorrect == Spec => []TypeOK
  <1>1. SInv => TypeOK
    <2> SUFFICES ASSUME SInv PROVE TypeOK OBVIOUS
    <2>1. left.req \in Seq(Tok) /\ left.resp \in Seq(Tok) BY DEF SInv, Types, CaptureTypes
    <2>2. /\ current \in 0 .. fresh /\ fresh \in 0 .. MaxSessions /\ expired \subseteq 1 .. fresh
          /\ emitted \in Seq(Conv) /\ \A i \in 1 .. MaxSessions : Bounded(heap[i])
      BY DEF SInv, Types, StoreTypes
    <2>3. consumer.pc \in {"poll", "process", "close", "remove"} /\ consumer.sid \in 0 .. fresh
      <3>1. CASE consumer = Poll BY <2>2, <3>1 DEF Poll
      <3>2. CASE consumer \in [pc : {"process"}, ev : DataEvents, sid : 1 .. fresh] BY <2>2, <3>2
      <3>3. CASE consumer \in [pc : {"close", "remove"}, ev : CloseEvents, sid : 1 .. fresh] BY <2>2, <3>3
      <3> QED BY <3>1, <3>2, <3>3 DEF SInv, Types, ConsumerTypes
    <2> QED BY <2>1, <2>2, <2>3 DEF TypeOK, Bounded
  <1> QED BY <1>1, Invariant, PTL

(* However the connection is cut into events, whatever is lost, reordered   *)
(* or cut short on the way, and however expiry, close and new events        *)
(* interleave on its sessions, no request is emitted twice unless an event  *)
(* was delivered twice.                                                     *)
THEOREM NoRequestTwice == Spec => []EmittedOnce
  <1>1. SInv => EmittedOnce
    <2> SUFFICES ASSUME SInv, "dup" \notin faults, NEW i \in DOMAIN emitted, NEW j \in DOMAIN emitted,
                        emitted[i].req = emitted[j].req
                 PROVE  i = j
      BY DEF EmittedOnce
    <2> DEFINE x == emitted[i].req
    <2>1. emitted \in Seq(Conv) BY DEF SInv, Types, StoreTypes
    <2>2. emitted[i] \in ConvOf(x) /\ emitted[j] \in ConvOf(x) BY <2>1 DEF ConvOf
    <2>3. One(emitted, ConvOf(x)) BY DEF SInv, Lone, OnceEach
    <2> QED BY <2>2, <2>3, OneTwo
  <1> QED BY <1>1, Invariant, PTL

-----------------------------------------------------------------------------
(* Pieces of sequences *)

(* the members of s after the first a, up to the first b *)
Cut(s, a, b) == SubSeq(s, a + 1, b)

LEMMA CutIs ==
  ASSUME NEW S, NEW s \in Seq(S), NEW a \in Nat, NEW b \in Nat, a <= b, b <= Len(s)
  PROVE  /\ Cut(s, a, b) \in Seq(S) /\ Len(Cut(s, a, b)) = b - a
         /\ \A i \in 1 .. b - a : Cut(s, a, b)[i] = s[a + i]
  <1>1. a + 1 \in 1 .. Len(s) + 1 /\ b \in (a + 1) - 1 .. Len(s) /\ b - (a + 1) + 1 = b - a OBVIOUS
  <1>2. \A i \in 1 .. b - a : (a + 1) + i - 1 = a + i OBVIOUS
  <1> DEFINE r == SubSeq(s, a + 1, b)
  <1>3. /\ r \in Seq(S) /\ Len(r) = b - (a + 1) + 1
        /\ \A i \in 1 .. b - (a + 1) + 1 : r[i] = s[(a + 1) + i - 1]
    BY <1>1, SubSeqIs
  <1> HIDE DEF r
  <1>4. Len(r) = b - a /\ \A i \in 1 .. b - a : r[i] = s[a + i] BY <1>1, <1>2, <1>3
  <1> QED BY <1>3, <1>4 DEF r, Cut

LEMMA SameSeq ==
  ASSUME NEW S, NEW s \in Seq(S), NEW t \in Seq(S), Len(s) = Len(t), \A i \in 1 .. Len(s) : s[i] = t[i]
  PROVE  s = t
  OBVIOUS

LEMMA CutNone ==
  ASSUME NEW S, NEW s \in Seq(S), NEW a \in Nat, a <= Len(s)
  PROVE  Cut(s, a, a) = <<>>
  <1>1. Cut(s, a, a) \in Seq(S) /\ Len(Cut(s, a, a)) = a - a BY CutIs
  <1> HIDE DEF Cut
  <1> QED BY <1>1

LEMMA CutEmpty ==
  ASSUME NEW S, NEW s \in Seq(S), NEW a \in Nat, NEW b \in Nat, a <= b, b <= Len(s), Cut(s, a, b) = <<>>
  PROVE  a = b
  <1>1. Len(Cut(s, a, b)) = b - a BY CutIs
  <1>2. Len(Cut(s, a, b)) = 0 OBVIOUS
  <1> HIDE DEF Cut
  <1> QED BY <1>1, <1>2

LEMMA CutAll ==
  ASSUME NEW S, NEW s \in Seq(S)
  PROVE  Cut(s, 0, Len(s)) = s
  <1>1. Cut(s, 0, Len(s)) = SubSeq(s, 1, Len(s)) BY DEF Cut
  <1> QED BY <1>1, SubSeqAll

LEMMA CutJoin ==
  ASSUME NEW S, NEW s \in Seq(S), NEW a \in Nat, NEW b \in Nat, NEW c \in Nat, a <= b, b <= c, c <= Len(s)
  PROVE  Cut(s, a, b) \o Cut(s, b, c) = Cut(s, a, c)
  <1> DEFINE x == Cut(s, a, b)  y == Cut(s, b, c)  z == Cut(s, a, c)
  <1>0. b <= Len(s) /\ a <= c /\ b - a \in Nat /\ c - b \in Nat /\ (b - a) + (c - b) = c - a /\ c - a \in Nat
    OBVIOUS
  <1>1. /\ x \in Seq(S) /\ Len(x) = b - a /\ \A i \in 1 .. b - a : x[i] = s[a + i]
    <2>1. s \in Seq(S) /\ a \in Nat /\ b \in Nat /\ a <= b /\ b <= Len(s) BY <1>0
    <2> QED BY ONLY <2>1, CutIs
  <1>2. /\ y \in Seq(S) /\ Len(y) = c - b /\ \A i \in 1 .. c - b : y[i] = s[b + i] BY CutIs
  <1>4. /\ z \in Seq(S) /\ Len(z) = c - a /\ \A i \in 1 .. c - a : z[i] = s[a + i]
    <2>1. s \in Seq(S) /\ a \in Nat /\ c \in Nat /\ a <= c /\ c <= Len(s) BY <1>0
    <2> QED BY ONLY <2>1, CutIs
  <1> HIDE DEF x, y, z
  <1>5. x \o y \in Seq(S) /\ Len(x \o y) = c - a
    <2>1. x \o y \in Seq(S) /\ Len(x \o y) = Len(x) + Len(y)
      <3>1. x \in Seq(S) /\ y \in Seq(S) BY <1>1, <1>2
      <3> QED BY <3>1, ConcatProperties
    <2> QED BY <1>0, <1>1, <1>2, <2>1
  <1>6. ASSUME NEW i \in 1 .. c - a PROVE (x \o y)[i] = z[i]
    <2>1. CASE i <= b - a
      <3>1. i \in 1 .. b - a BY <2>1
      <3>2. (x \o y)[i] = x[i] BY <1>1, <1>2, <3>1
      <3> QED BY <1>1, <1>4, <3>1, <3>2
    <2>2. CASE i > b - a
      <3>1. i - (b - a) \in 1 .. c - b /\ b + (i - (b - a)) = a + i BY <2>2
      <3> DEFINE l == b - a  d == i - l
      <3>2. (x \o y)[i] = y[i - (b - a)]
        <4>1. x \in Seq(S) /\ y \in Seq(S) /\ Len(x) = l /\ l \in Nat /\ d \in 1 .. Len(y) /\ i = l + d
          BY <1>0, <1>1, <1>2, <3>1
        <4> HIDE DEF l, d
        <4>2. (x \o y)[Len(x) + d] = y[d] BY <4>1
        <4> QED BY <4>1, <4>2 DEF d, l
      <3> QED BY <1>2, <1>4, <3>1, <3>2
    <2>3. i <= b - a \/ i > b - a BY <1>0
    <2> QED BY <2>1, <2>2, <2>3
  <1>7. x \o y = z
    <2> DEFINE w == x \o y
    <2>1. w \in Seq(S) /\ Len(w) = Len(z) /\ \A i \in 1 .. Len(w) : w[i] = z[i] BY <1>4, <1>5, <1>6
    <2> HIDE DEF w
    <2>2. w = z BY <1>4, <2>1, SameSeq
    <2> QED BY <2>2 DEF w
  <1> QED BY <1>7 DEF x, y, z

LEMMA CutOfCut ==
  ASSUME NEW S, NEW s \in Seq(S), NEW a \in Nat, NEW b \in Nat, a <= b, b <= Len(s),
         NEW m \in Nat, NEW n \in Nat, m <= n, n <= b - a
  PROVE  Cut(Cut(s, a, b), m, n) = Cut(s, a + m, a + n)
  <1> DEFINE x == Cut(s, a, b)  y == Cut(x, m, n)  z == Cut(s, a + m, a + n)
  <1>1. /\ x \in Seq(S) /\ Len(x) = b - a /\ \A i \in 1 .. b - a : x[i] = s[a + i] BY CutIs
  <1>2. a + m \in Nat /\ a + n \in Nat /\ a + m <= a + n /\ a + n <= Len(s) /\ (a + n) - (a + m) = n - m
    OBVIOUS
  <1>3. z \in Seq(S) /\ Len(z) = (a + n) - (a + m) /\ \A i \in 1 .. (a + n) - (a + m) : z[i] = s[(a + m) + i]
    <2> DEFINE u == a + m  v == a + n
    <2>1. s \in Seq(S) /\ u \in Nat /\ v \in Nat /\ u <= v /\ v <= Len(s) BY <1>2
    <2> HIDE DEF u, v
    <2>2. Cut(s, u, v) \in Seq(S) /\ Len(Cut(s, u, v)) = v - u BY ONLY <2>1, CutIs
    <2>3. ASSUME NEW i \in 1 .. v - u PROVE Cut(s, u, v)[i] = s[u + i] BY ONLY <2>1, CutIs
    <2> QED BY <2>2, <2>3 DEF u, v
  <1> HIDE DEF x, z
  <1>4. x \in Seq(S) /\ n <= Len(x) BY <1>1
  <1>5. y \in Seq(S) /\ Len(y) = n - m /\ \A i \in 1 .. n - m : y[i] = x[m + i] BY <1>4, CutIs
  <1> HIDE DEF y
  <1>6. ASSUME NEW i \in 1 .. n - m PROVE y[i] = z[i]
    <2>1. m + i \in 1 .. b - a /\ a + (m + i) = (a + m) + i /\ i \in 1 .. (a + n) - (a + m) BY <1>2
    <2> QED BY <1>1, <1>3, <1>5, <2>1
  <1>7. Len(y) = Len(z) /\ \A i \in 1 .. Len(y) : y[i] = z[i] BY <1>2, <1>3, <1>5, <1>6
  <1>8. y = z BY <1>3, <1>5, <1>7, SameSeq
  <1> QED BY <1>8 DEF x, y, z

Begins(s, t) == Len(s) <= Len(t) /\ \A j \in 1 .. Len(s) : t[j] = s[j]

LEMMA BeginsConcat ==
  ASSUME NEW S, NEW r \in Seq(S), NEW s \in Seq(S), NEW t \in Seq(S), Begins(r, s)
  PROVE  Begins(r, s \o t)
  <1> DEFINE c == s \o t
  <1>1. /\ c \in Seq(S) /\ Len(c) = Len(s) + Len(t)
        /\ \A i \in 1 .. Len(s) + Len(t) : c[i] = IF i <= Len(s) THEN s[i] ELSE t[i - Len(s)]
    BY ConcatProperties
  <1> HIDE DEF c
  <1>2. Len(r) \in Nat /\ Len(s) \in Nat /\ Len(t) \in Nat /\ Len(r) <= Len(s) BY DEF Begins
  <1>3. ASSUME NEW j \in 1 .. Len(r) PROVE c[j] = r[j]
    <2>1. j \in 1 .. Len(s) + Len(t) /\ j <= Len(s) BY <1>2
    <2>2. s[j] = r[j] BY DEF Begins
    <2> QED BY <1>1, <2>1, <2>2
  <1>4. Len(r) <= Len(c) BY <1>1, <1>2
  <1> QED BY <1>3, <1>4 DEF Begins, c

(* where the parts of a concatenation start *)
AreStarts(A, seqs, f) ==
  /\ A \in [1 .. Len(seqs) + 1 -> Nat] /\ A[1] = 0 /\ A[Len(seqs) + 1] = Len(f)
  /\ \A i \in 1 .. Len(seqs) : /\ A[i + 1] = A[i] + Len(seqs[i]) /\ A[i + 1] <= Len(f)
                               /\ Cut(f, A[i], A[i + 1]) = seqs[i]

LEMMA FlattenStarts ==
  ASSUME NEW T, NEW seqs \in Seq(Seq(T))
  PROVE  FlattenSeq(seqs) \in Seq(T) /\ \E A : AreStarts(A, seqs, FlattenSeq(seqs))
  <1> DEFINE n == Len(seqs)
  <1>1. CASE n = 0
    <2> DEFINE A == [i \in 1 .. 1 |-> 0]
    <2>1. FlattenSeq(seqs) = <<>> /\ <<>> \in Seq(T) BY <1>1 DEF FlattenSeq
    <2>2. A \in [1 .. n + 1 -> Nat] /\ A[1] = 0 /\ A[n + 1] = 0 /\ Len(<<>>) = 0 BY <1>1
    <2>3. \A i \in 1 .. n : FALSE BY <1>1
    <2> HIDE DEF A
    <2>4. AreStarts(A, seqs, <<>>) BY <2>2, <2>3 DEF AreStarts
    <2> QED BY <2>1, <2>4
  <1>2. CASE n # 0
    <2>1. PICK g \in [1 .. n -> Seq(T)] :
            /\ g[1] = seqs[1] /\ \A i \in 2 .. n : g[i] = g[i - 1] \o seqs[i]
            /\ FlattenSeq(seqs) = g[n]
      BY <1>2, Flattened
    <2>2. n \in Nat /\ n >= 1 /\ DOMAIN seqs = 1 .. n /\ \A i \in 1 .. n : seqs[i] \in Seq(T)
      BY <1>2
    <2> HIDE DEF n
    <2> DEFINE K == {k \in Nat : k = 0 \/ \A i \in 1 .. k : Begins(g[i], g[k])}
    <2>3. \A i \in 1 .. n : g[i] \in Seq(T) /\ Len(g[i]) \in Nat /\ Len(seqs[i]) \in Nat /\ Begins(g[i], g[i])
      <3>1. ASSUME NEW i \in 1 .. n PROVE g[i] \in Seq(T) /\ Len(g[i]) \in Nat /\ Len(seqs[i]) \in Nat
        <4>1. g[i] \in Seq(T) /\ seqs[i] \in Seq(T) BY <2>1, <2>2
        <4> QED BY <4>1
      <3> QED BY <3>1 DEF Begins
    <2>4. ASSUME NEW k \in 0 .. n - 1, k \in K PROVE k + 1 \in K
      <3>0. k + 1 \in 1 .. n /\ k + 1 \in Nat /\ k \in Nat BY <2>2
      <3>1. CASE k = 0
        <4>1. \A i \in 1 .. k + 1 : i = k + 1 BY <3>1
        <4>2. \A i \in 1 .. k + 1 : Begins(g[i], g[k + 1]) BY <2>3, <3>0, <4>1
        <4> QED BY <3>0, <4>2
      <3>2. CASE k # 0
        <4>1. k + 1 \in 2 .. n /\ (k + 1) - 1 = k /\ k \in 1 .. n BY <2>2, <3>0, <3>2
        <4>2. g[k + 1] = g[k] \o seqs[k + 1] /\ g[k] \in Seq(T) /\ seqs[k + 1] \in Seq(T)
          BY <2>1, <2>2, <2>3, <3>0, <4>1
        <4>3. ASSUME NEW i \in 1 .. k + 1 PROVE Begins(g[i], g[k + 1])
          <5>1. CASE i = k + 1 BY <2>3, <3>0, <5>1
          <5>2. CASE i # k + 1
            <6>1. i \in 1 .. k /\ i \in 1 .. n
              <7>1. k \in Nat /\ n \in Nat /\ k <= n BY <2>2, <3>0, <4>1
              <7> QED BY <5>2, <7>1
            <6>2. Begins(g[i], g[k]) /\ g[i] \in Seq(T) BY <2>3, <2>4, <3>2, <6>1
            <6> QED BY <4>2, <6>2, BeginsConcat
          <5> QED BY <5>1, <5>2
        <4> QED BY <3>0, <4>3
      <3> QED BY <3>1, <3>2
    <2>5. ASSUME NEW i \in 1 .. n PROVE Begins(g[i], g[n])
      <3>1. n \in K
        <4> HIDE DEF K
        <4>1. 0 \in K BY DEF K
        <4>2. \A k \in 0 .. n : k \in K BY <2>2, <2>4, <4>1, CountingUp
        <4> QED BY <2>2, <4>2
      <3> QED BY <1>2, <3>1
    <2> HIDE DEF K
    <2> DEFINE A == [i \in 1 .. n + 1 |-> IF i = 1 THEN 0 ELSE Len(g[i - 1])]
               f == g[n]
    <2>6. A[1] = 0 /\ \A i \in 1 .. n : A[i + 1] = Len(g[i])
      <3>1. \A i \in 1 .. n : i + 1 \in 1 .. n + 1 /\ i + 1 # 1 /\ (i + 1) - 1 = i BY <2>2
      <3>2. 1 \in 1 .. n + 1 BY <2>2
      <3> QED BY <3>1, <3>2
    <2>7. A \in [1 .. n + 1 -> Nat]
      <3>1. ASSUME NEW i \in 1 .. n + 1 PROVE (IF i = 1 THEN 0 ELSE Len(g[i - 1])) \in Nat
        <4>1. CASE i = 1 BY <4>1
        <4>2. CASE i # 1
          <5>1. i - 1 \in 1 .. n BY <2>2, <4>2
          <5> QED BY <2>3, <4>2, <5>1
        <4> QED BY <4>1, <4>2
      <3> QED BY <3>1
    <2> HIDE DEF A
    <2>8. f \in Seq(T) /\ n \in 1 .. n BY <2>2, <2>3
    <2>9. ASSUME NEW i \in 1 .. n
          PROVE  /\ A[i + 1] = A[i] + Len(seqs[i]) /\ A[i + 1] <= Len(f)
                 /\ Cut(f, A[i], A[i + 1]) = seqs[i]
      <3> DEFINE a == A[i]  b == A[i + 1]  s == seqs[i]
      <3>1. s \in Seq(T) /\ g[i] \in Seq(T) /\ b = Len(g[i]) /\ b \in Nat /\ Begins(g[i], f) /\ Len(s) \in Nat /\ i + 1 \in 1 .. n + 1
        BY <2>2, <2>3, <2>5, <2>6
      <3>2. a \in Nat /\ b = a + Len(s) /\ \A j \in 1 .. Len(s) : g[i][a + j] = s[j]
        <4>1. CASE i = 1
          <5>1. a = 0 /\ g[i] = s BY <2>1, <2>6, <4>1
          <5> QED BY <3>1, <5>1
        <4>2. CASE i # 1
          <5>1. i \in 2 .. n /\ i - 1 \in 1 .. n /\ (i - 1) + 1 = i BY <2>2, <4>2
          <5> DEFINE h == g[i - 1]
          <5>2. g[i] = h \o s /\ h \in Seq(T) /\ a = Len(h) BY <2>1, <2>3, <2>6, <5>1
          <5> HIDE DEF h
          <5>3. /\ Len(h \o s) = Len(h) + Len(s)
                /\ \A k \in 1 .. Len(h) + Len(s) : (h \o s)[k] = IF k <= Len(h) THEN h[k] ELSE s[k - Len(h)]
            BY <3>1, <5>2, ConcatProperties
          <5>4. Len(h) \in Nat BY <5>2
          <5>5. ASSUME NEW j \in 1 .. Len(s) PROVE g[i][a + j] = s[j]
            <6> DEFINE k == a + j
            <6>1. k \in 1 .. Len(h) + Len(s) /\ ~(k <= Len(h)) /\ k - Len(h) = j BY <3>1, <5>2, <5>4
            <6> HIDE DEF k, s
            <6>2. g[i][k] = s[j] BY <5>2, <5>3, <6>1
            <6> QED BY <6>2 DEF k
          <5> HIDE DEF s
          <5> QED BY <3>1, <5>2, <5>3, <5>4, <5>5
        <4> QED BY <4>1, <4>2
      <3>3. b <= Len(f) /\ \A j \in 1 .. b : f[j] = g[i][j] BY <3>1 DEF Begins
      <3>4. Cut(f, a, b) = s
        <4> DEFINE c == Cut(f, a, b)
        <4> HIDE DEF a, b, s, f
        <4>1. a <= b /\ b - a = Len(s) BY <3>1, <3>2
        <4>2. c \in Seq(T) /\ Len(c) = b - a /\ \A j \in 1 .. b - a : c[j] = f[a + j]
          <5>1. f \in Seq(T) /\ a \in Nat /\ b \in Nat /\ a <= b /\ b <= Len(f)
            BY <2>8, <3>1, <3>2, <3>3, <4>1
          <5> QED BY <5>1, CutIs
        <4> HIDE DEF c
        <4>3. ASSUME NEW j \in 1 .. Len(s) PROVE c[j] = s[j]
          <5>1. a + j \in 1 .. b /\ j \in 1 .. b - a BY <3>1, <3>2, <4>1
          <5> QED BY <3>2, <3>3, <4>2, <5>1
        <4>4. Len(c) = Len(s) /\ \A j \in 1 .. Len(c) : c[j] = s[j] BY <4>1, <4>2, <4>3
        <4>5. c = s BY <3>1, <4>2, <4>4, SameSeq
        <4> QED BY <4>5 DEF c
      <3> QED BY <3>2, <3>3, <3>4
    <2>10. AreStarts(A, seqs, f)
      <3>1. A[n + 1] = Len(f) BY <2>6, <2>8
      <3> HIDE DEF f
      <3> QED BY <2>6, <2>7, <2>9, <3>1 DEF AreStarts, n
    <2> QED BY <2>1, <2>8, <2>10
  <1> QED BY <1>1, <1>2

-----------------------------------------------------------------------------
(* What a connection carries *)

(* Everything a connection carries, per side, and where its exchanges start *)
RequestsOf(p) == [x \in DOMAIN p |-> RequestToks(p, x)]
ResponsesOf(p) == [x \in DOMAIN p |-> ResponseToks(p, x)]
ReqStream(p) == FlattenSeq(RequestsOf(p))
RespStream(p) == FlattenSeq(ResponsesOf(p))
ReqAt(p) == CHOOSE A : AreStarts(A, RequestsOf(p), ReqStream(p))
RespAt(p) == CHOOSE A : AreStarts(A, ResponsesOf(p), RespStream(p))

Looking(look) == {t \in Tok : t.looks = look}

LEMMA BodyLooks ==
  ASSUME NEW side \in {"req", "resp"}, NEW x \in Nat, NEW len \in Nat, NEW looks \in {"req", "resp", "none"},
         NEW look, looks # look
  PROVE  ~Has(Body(side, x, len, looks), Looking(look))
  <1> DEFINE b == Body(side, x, len, looks)
  <1>1. DOMAIN b = 1 .. len /\ \A i \in 1 .. len : b[i].looks = looks BY DEF Body
  <1> HIDE DEF b
  <1>2. ~Has(b, Looking(look)) BY <1>1 DEF Has, Looking
  <1> QED BY <1>2 DEF b

(* in a request only its line looks like a response, and the head precedes it *)
LEMMA RequestLooks ==
  ASSUME NEW p \in Seq(Exchange), NEW x \in DOMAIN p
  PROVE  LET s == RequestToks(p, x) IN
         /\ s \in Seq(Tok) /\ Len(s) = p[x].req + 2 /\ s[1].looks = "req" /\ s[2].kind = "line"
         /\ \A i \in 1 .. Len(s) : s[i].looks = "resp" => i = 2
  <1> DEFINE h == [kind |-> "req", side |-> "req", x |-> x, n |-> p[x].req + 1, looks |-> "req"]
             n == p[x].req
             b == RequestRest(x, n)
             s == RequestToks(p, x)
  <1>0. x \in 1 .. Len(p) /\ p[x] \in Exchange OBVIOUS
  <1>1. x \in Nat /\ n \in Nat BY <1>0 DEF Exchange
  <1>2. /\ b \in Seq(Tok) /\ Len(b) = n + 1 /\ b[1].kind = "line"
        /\ \A i \in 1 .. n + 1 : i # 1 => b[i].looks = "none"
    <2>1. IsRest(b, x, n)
      <3> HIDE DEF n
      <3> QED BY <1>1, RestIs
    <2> HIDE DEF b, n
    <2> QED BY <2>1 DEF IsRest
  <1>3. h \in Tok /\ h.looks = "req" BY <1>1 DEF Tok
  <1>4. s = <<h>> \o b BY DEF RequestToks
  <1> HIDE DEF h, b, s, n
  <1>5. s \in Seq(Tok) /\ Len(s) = n + 2 BY <1>1, <1>2, <1>3, <1>4
  <1>6. s[1] = h BY <1>1, <1>2, <1>3, <1>4
  <1>7. ASSUME NEW i \in 1 .. n + 1 PROVE s[i + 1] = b[i] BY <1>1, <1>2, <1>3, <1>4
  <1>8. s[2] = b[1]
    <2>1. 1 \in 1 .. n + 1 /\ 1 + 1 = 2 BY <1>1
    <2> QED BY <1>7, <2>1
  <1>9. ASSUME NEW i \in 1 .. Len(s), s[i].looks = "resp", i # 2 PROVE FALSE
    <2>1. i # 1 BY <1>3, <1>6, <1>9
    <2> DEFINE j == i - 1
    <2>2. j \in 1 .. n + 1 /\ j # 1 /\ j + 1 = i BY <1>1, <1>5, <1>9, <2>1
    <2> HIDE DEF j
    <2>3. s[j + 1] = b[j] /\ b[j].looks = "none" BY <1>2, <1>7, <2>2
    <2> QED BY <1>9, <2>2, <2>3
  <1> QED BY <1>2, <1>3, <1>5, <1>6, <1>8, <1>9 DEF s, n

LEMMA ResponseLooks ==
  ASSUME NEW p \in Seq(Exchange), NEW x \in DOMAIN p, ~p[x].lookalike
  PROVE  ResponseToks(p, x) \in Seq(Tok) /\ ~Has(ResponseToks(p, x), Looking("req"))
  <1> DEFINE i == [kind |-> "info", side |-> "resp", x |-> x, n |-> 0, looks |-> "resp"]
             h == [kind |-> IF p[x].eof THEN "respEOF" ELSE "resp", side |-> "resp", x |-> x,
                   n |-> p[x].resp, looks |-> "resp"]
             b == Body("resp", x, p[x].resp, IF p[x].lookalike THEN "req" ELSE "none")
             a == IF p[x].info THEN <<i>> ELSE <<>>
  <1>0. x \in 1 .. Len(p) /\ p[x] \in Exchange OBVIOUS
  <1>1. x \in Nat /\ p[x].resp \in Nat BY <1>0 DEF Exchange
  <1>2. b \in Seq(Tok) /\ ~Has(b, Looking("req"))
    <2>1. b = Body("resp", x, p[x].resp, "none") OBVIOUS
    <2> HIDE DEF b
    <2> QED BY <1>1, <2>1, BodyIs, BodyLooks
  <1>3. h \in Tok /\ h.looks = "resp" /\ i \in Tok /\ i.looks = "resp" BY <1>1 DEF Tok
  <1>4. ResponseToks(p, x) = a \o <<h>> \o b BY DEF ResponseToks
  <1> HIDE DEF h, b, i
  <1>5. <<h>> \in Seq(Tok) /\ ~Has(<<h>>, Looking("req")) BY <1>3 DEF Has, Looking
  <1>6. a \in Seq(Tok) /\ ~Has(a, Looking("req"))
    <2>1. <<i>> \in Seq(Tok) /\ ~Has(<<i>>, Looking("req")) BY <1>3 DEF Has, Looking
    <2>2. <<>> \in Seq(Tok) /\ ~Has(<<>>, Looking("req")) BY DEF Has
    <2> QED BY <2>1, <2>2
  <1> HIDE DEF a
  <1> DEFINE c == a \o <<h>>
  <1>7. c \in Seq(Tok) /\ ~Has(c, Looking("req")) BY <1>5, <1>6, HasConcat
  <1> HIDE DEF c
  <1>8. c \o b \in Seq(Tok) /\ ~Has(c \o b, Looking("req")) BY <1>2, <1>7, HasConcat
  <1> QED BY <1>4, <1>8 DEF c

(* the connections whose bytes the worker can tell apart: no body looks like *)
(* a request, and a response that ends with the connection is the last one   *)
Tellable(p) ==
  /\ p \in Seq(Exchange)
  /\ \A x \in DOMAIN p : ~p[x].lookalike /\ (p[x].eof => x = Len(p))

(* a position of a concatenation is in one of its parts *)
InPart(A, seqs, f, i, k) ==
  /\ A[k] \in Nat /\ A[k] < i /\ i <= A[k] + Len(seqs[k]) /\ Len(seqs[k]) \in Nat
  /\ \A j \in 1 .. Len(seqs[k]) : f[A[k] + j] = seqs[k][j]

LEMMA PartOf ==
  ASSUME NEW S, NEW seqs \in Seq(Seq(S)), NEW f \in Seq(S), NEW A, AreStarts(A, seqs, f), NEW i \in 1 .. Len(f)
  PROVE  \E k \in 1 .. Len(seqs) : InPart(A, seqs, f, i, k)
  <1> DEFINE n == Len(seqs)
             T == {k \in 1 .. n + 1 : i <= A[k]}
  <1>1. n \in Nat /\ i \in Nat /\ i >= 1 /\ Len(f) \in Nat /\ \A k \in 1 .. n : seqs[k] \in Seq(S) OBVIOUS
  <1>2. /\ A \in [1 .. n + 1 -> Nat] /\ A[1] = 0 /\ A[n + 1] = Len(f)
        /\ \A k \in 1 .. n : /\ A[k + 1] = A[k] + Len(seqs[k]) /\ A[k + 1] <= Len(f)
                             /\ Cut(f, A[k], A[k + 1]) = seqs[k]
    BY DEF AreStarts
  <1> HIDE DEF n
  <1>3. n + 1 \in T BY <1>1, <1>2
  <1>4. T \subseteq Nat BY <1>1
  <1>5. PICK m \in T : \A k \in T : m <= k
    <2> HIDE DEF T
    <2> QED BY <1>3, <1>4, LeastNumber
  <1>6. m # 1 BY <1>1, <1>2, <1>5
  <1> DEFINE k == m - 1
  <1>7. k \in 1 .. n /\ k \in 1 .. n + 1 /\ k + 1 = m /\ ~(m <= k) BY <1>1, <1>5, <1>6
  <1> HIDE DEF k
  <1>8. k \notin T
    <2> HIDE DEF T
    <2> QED BY <1>5, <1>7
  <1>9. A[k] \in Nat /\ A[k] < i BY <1>1, <1>2, <1>7, <1>8
  <1>10. i <= A[k + 1] /\ A[k + 1] = A[k] + Len(seqs[k]) /\ A[k + 1] <= Len(f) /\ Cut(f, A[k], A[k + 1]) = seqs[k]
    BY <1>2, <1>5, <1>7
  <1>11. Len(seqs[k]) \in Nat BY <1>1, <1>7
  <1> DEFINE a == A[k]  b == A[k + 1]  q == seqs[k]
  <1>12. a \in Nat /\ b \in Nat /\ a <= b /\ b <= Len(f) /\ b = a + Len(q) /\ Len(q) \in Nat /\ Cut(f, a, b) = q
    BY <1>9, <1>10, <1>11
  <1> HIDE DEF a, b, q
  <1>13. ASSUME NEW j \in 1 .. Len(q) PROVE f[a + j] = q[j]
    <2>1. j \in 1 .. b - a BY <1>12
    <2>2. Cut(f, a, b)[j] = f[a + j] BY <1>12, <2>1, CutIs
    <2> QED BY <1>12, <2>2
  <1>14. InPart(A, seqs, f, i, k) BY <1>9, <1>10, <1>11, <1>13 DEF a, q, InPart
  <1> QED BY <1>7, <1>14 DEF n

(* before a token that looks like a response is the head of its request *)
LinesFollow(f) ==
  \A i \in 1 .. Len(f) :
    f[i].looks = "resp" => i > 1 /\ f[i].kind = "line" /\ f[i - 1].looks = "req"

LEMMA ReqStreamIs ==
  ASSUME NEW p \in Seq(Exchange)
  PROVE  /\ ReqStream(p) \in Seq(Tok) /\ LinesFollow(ReqStream(p))
         /\ AreStarts(ReqAt(p), RequestsOf(p), ReqStream(p)) /\ Len(RequestsOf(p)) = Len(p)
  <1> DEFINE s == RequestsOf(p)  f == FlattenSeq(s)
  <1>1. Len(p) \in Nat /\ DOMAIN p = 1 .. Len(p) OBVIOUS
  <1>2. /\ DOMAIN s = 1 .. Len(p) /\ s \in [1 .. Len(p) -> Seq(Tok)]
        /\ \A k \in DOMAIN s :
             /\ s[k] \in Seq(Tok) /\ s[k][1].looks = "req" /\ s[k][2].kind = "line" /\ Len(s[k]) >= 2
             /\ \A i \in 1 .. Len(s[k]) : s[k][i].looks = "resp" => i = 2
    <2>1. ASSUME NEW k \in DOMAIN p PROVE p[k].req \in Nat /\ p[k].req + 2 >= 2
      <3>1. k \in 1 .. Len(p) /\ p[k] \in Exchange OBVIOUS
      <3>2. p[k].req \in Nat BY <3>1 DEF Exchange
      <3> QED BY <3>2
    <2> QED BY <1>1, <2>1, RequestLooks DEF RequestsOf
  <1> HIDE DEF s
  <1>3. s \in Seq(Seq(Tok)) /\ Len(s) = Len(p) BY <1>1, <1>2, FunctionIsSequence
  <1>4. f \in Seq(Tok)
    <2>1. \A k \in DOMAIN s : ~Has(s[k], {}) BY DEF Has
    <2> QED BY <1>2, <1>3, <2>1, FlattenNone
  <1>5. PICK A : AreStarts(A, s, f) BY <1>3, FlattenStarts
  <1> HIDE DEF f
  <1>6. ASSUME NEW i \in 1 .. Len(f), f[i].looks = "resp"
        PROVE  i > 1 /\ f[i].kind = "line" /\ f[i - 1].looks = "req"
    <2>1. PICK k \in 1 .. Len(s) : InPart(A, s, f, i, k) BY <1>3, <1>4, <1>5, PartOf
    <2> DEFINE a == A[k]  q == s[k]  j == i - a
    <2>2. /\ a \in Nat /\ j \in 1 .. Len(q) /\ a + j = i /\ Len(q) \in Nat
          /\ \A d \in 1 .. Len(q) : f[a + d] = q[d]
      <3>1. /\ a \in Nat /\ a < i /\ i <= a + Len(q) /\ Len(q) \in Nat /\ i \in Nat
            /\ \A d \in 1 .. Len(q) : f[a + d] = q[d]
        <4>1. Len(f) \in Nat BY <1>4
        <4> QED BY <2>1, <4>1 DEF InPart
      <3> HIDE DEF a, q
      <3> QED BY <3>1
    <2>3. /\ q[1].looks = "req" /\ q[2].kind = "line" /\ Len(q) >= 2
          /\ \A d \in 1 .. Len(q) : q[d].looks = "resp" => d = 2
      BY <1>2, <1>3, <2>1
    <2> HIDE DEF a, q, j
    <2>4. j = 2 BY <1>6, <2>2, <2>3
    <2>5. i = a + 2 /\ i - 1 = a + 1 /\ i > 1 /\ 1 \in 1 .. Len(q) /\ 2 \in 1 .. Len(q) BY <2>2, <2>3, <2>4
    <2> QED BY <2>2, <2>3, <2>5
  <1>7. LinesFollow(f) BY <1>6 DEF LinesFollow
  <1>8. \E B : AreStarts(B, s, f) BY <1>5
  <1> QED BY <1>3, <1>4, <1>7, <1>8 DEF ReqStream, ReqAt, s, f

LEMMA RespStreamIs ==
  ASSUME NEW p, Tellable(p)
  PROVE  /\ RespStream(p) \in Seq(Tok) /\ ~Has(RespStream(p), Looking("req"))
         /\ AreStarts(RespAt(p), ResponsesOf(p), RespStream(p)) /\ Len(ResponsesOf(p)) = Len(p)
  <1> DEFINE s == ResponsesOf(p)
  <1>1. p \in Seq(Exchange) /\ Len(p) \in Nat /\ DOMAIN p = 1 .. Len(p) BY DEF Tellable
  <1>2. /\ DOMAIN s = 1 .. Len(p) /\ s \in [1 .. Len(p) -> Seq(Tok)]
        /\ \A k \in DOMAIN s : s[k] \in Seq(Tok) /\ ~Has(s[k], Looking("req"))
    BY <1>1, ResponseLooks DEF ResponsesOf, Tellable
  <1> HIDE DEF s
  <1>3. s \in Seq(Seq(Tok)) /\ Len(s) = Len(p) BY <1>1, <1>2, FunctionIsSequence
  <1>4. FlattenSeq(s) \in Seq(Tok) /\ ~Has(FlattenSeq(s), Looking("req")) BY <1>2, <1>3, FlattenNone
  <1>5. \E A : AreStarts(A, s, FlattenSeq(s)) BY <1>3, FlattenStarts
  <1> QED BY <1>3, <1>4, <1>5 DEF RespStream, RespAt, s

(* a head between what precedes it and its body *)
LEMMA HeadAndBody ==
  ASSUME NEW a \in Seq(Tok), NEW h \in Tok, NEW b \in Seq(Tok)
  PROVE  LET s == a \o <<h>> \o b IN
         /\ s \in Seq(Tok) /\ Len(s) = Len(a) + 1 + Len(b)
         /\ s[Len(a) + 1] = h /\ Cut(s, Len(a) + 1, Len(s)) = b
         /\ \A i \in 1 .. Len(a) : s[i] = a[i]
  <1> DEFINE c == a \o <<h>>  s == c \o b  m == Len(a)  n == Len(b)
  <1>0. <<h>> \in Seq(Tok) /\ Len(<<h>>) = 1 /\ <<h>>[1] = h /\ m \in Nat /\ n \in Nat OBVIOUS
  <1>1. c \in Seq(Tok) /\ Len(c) = m + 1 /\ \A i \in 1 .. m + 1 : c[i] = IF i <= m THEN a[i] ELSE <<h>>[i - m]
    <2>1. c \in Seq(Tok) /\ Len(c) = m + Len(<<h>>) /\ \A i \in 1 .. m + Len(<<h>>) : c[i] = IF i <= m THEN a[i] ELSE <<h>>[i - m]
      BY <1>0, ConcatProperties
    <2> HIDE DEF c, m
    <2> QED BY <1>0, <2>1
  <1> HIDE DEF c, m, n
  <1>2. s \in Seq(Tok) /\ Len(s) = Len(c) + n /\ \A i \in 1 .. Len(c) + n : s[i] = IF i <= Len(c) THEN c[i] ELSE b[i - Len(c)]
    BY <1>1, ConcatProperties DEF n
  <1> HIDE DEF s
  <1>3. Len(s) = m + 1 + n BY <1>0, <1>1, <1>2
  <1>4. s[m + 1] = h
    <2>1. m + 1 \in 1 .. Len(c) + n /\ m + 1 <= Len(c) /\ m + 1 \in 1 .. m + 1 /\ ~(m + 1 <= m) /\ (m + 1) - m = 1
      BY <1>0, <1>1
    <2>2. s[m + 1] = c[m + 1] /\ c[m + 1] = <<h>>[(m + 1) - m] BY <1>1, <1>2, <2>1
    <2> QED BY <1>0, <2>1, <2>2
  <1>5. ASSUME NEW i \in 1 .. m PROVE s[i] = a[i]
    <2>1. i \in 1 .. Len(c) + n /\ i <= Len(c) /\ i \in 1 .. m + 1 /\ i <= m BY <1>0, <1>1
    <2> QED BY <1>1, <1>2, <2>1
  <1>6. Cut(s, m + 1, Len(s)) = b
    <2> DEFINE d == Cut(s, m + 1, Len(s))
    <2>1. m + 1 \in Nat /\ Len(s) \in Nat /\ m + 1 <= Len(s) /\ Len(s) <= Len(s) /\ Len(s) - (m + 1) = n
      BY <1>0, <1>3
    <2>2. d \in Seq(Tok) /\ Len(d) = Len(s) - (m + 1) /\ \A i \in 1 .. Len(s) - (m + 1) : d[i] = s[(m + 1) + i]
      <3> DEFINE l == m + 1  r == Len(s)
      <3>1. s \in Seq(Tok) /\ l \in Nat /\ r \in Nat /\ l <= r /\ r <= Len(s) BY <1>2, <2>1
      <3> HIDE DEF l, r
      <3>2. Cut(s, l, r) \in Seq(Tok) /\ Len(Cut(s, l, r)) = r - l BY ONLY <3>1, CutIs
      <3>3. ASSUME NEW i \in 1 .. r - l PROVE Cut(s, l, r)[i] = s[l + i] BY ONLY <3>1, CutIs
      <3> QED BY <3>2, <3>3 DEF l, r
    <2> HIDE DEF d
    <2>3. ASSUME NEW i \in 1 .. n PROVE d[i] = b[i]
      <3>1. (m + 1) + i \in 1 .. Len(c) + n /\ ~((m + 1) + i <= Len(c)) /\ ((m + 1) + i) - Len(c) = i
        BY <1>0, <1>1
      <3>2. s[(m + 1) + i] = b[((m + 1) + i) - Len(c)] BY <1>2, <3>1
      <3> QED BY <2>1, <2>2, <3>1, <3>2
    <2>4. Len(d) = Len(b) /\ \A i \in 1 .. Len(d) : d[i] = b[i] BY <2>1, <2>2, <2>3 DEF n
    <2>5. d = b BY <2>2, <2>4, SameSeq
    <2> QED BY <2>5 DEF d
  <1> QED BY <1>2, <1>3, <1>4, <1>5, <1>6 DEF s, c, m, n

(* a message of stream f: its head follows position a, its body ends at c *)
Stands(f, a, c, look) ==
  /\ a \in Nat /\ c \in Nat /\ c <= Len(f) /\ f[a + 1] \in Tok
  /\ f[a + 1].looks = look /\ c = a + 1 + f[a + 1].n
Complete(f, a, c) == Whole(f[a + 1], Cut(f, a + 1, c))

LEMMA PartIs ==
  ASSUME NEW f \in Seq(Tok), NEW a \in Nat, NEW c \in Nat, a <= c, c <= Len(f)
  PROVE  \A i \in 0 .. c - a : Cut(f, a + i, c) = Cut(Cut(f, a, c), i, c - a) /\ (i < c - a => f[a + (i + 1)] = Cut(f, a, c)[i + 1])
  <1> DEFINE s == Cut(f, a, c)
  <1>1. s \in Seq(Tok) /\ Len(s) = c - a /\ \A j \in 1 .. c - a : s[j] = f[a + j] BY CutIs
  <1>2. ASSUME NEW i \in 0 .. c - a
        PROVE  Cut(f, a + i, c) = Cut(s, i, c - a) /\ (i < c - a => f[a + (i + 1)] = s[i + 1])
    <2>2. i \in Nat /\ c - a \in Nat /\ i <= c - a /\ c - a <= c - a /\ a + (c - a) = c OBVIOUS
    <2>3. Cut(Cut(f, a, c), i, c - a) = Cut(f, a + i, a + (c - a)) BY <2>2, CutOfCut
    <2>4. i < c - a => i + 1 \in 1 .. c - a BY <2>2
    <2> QED BY <1>1, <2>2, <2>3, <2>4
  <1> QED BY <1>2

LEMMA WholeBody ==
  ASSUME NEW x \in Nat, NEW side \in {"req", "resp"}, NEW n \in Nat, NEW looks, NEW h, h.kind # "info", h.n = n, h.side = side, h.x = x
  PROVE  Whole(h, Body(side, x, n, looks))
  <1> DEFINE b == Body(side, x, n, looks)
  <1>1. DOMAIN b = 1 .. n /\ \A i \in 1 .. n : b[i] = [kind |-> "body", side |-> side, x |-> x, n |-> i, looks |-> looks]
    BY DEF Body
  <1>2. Len(b) = n BY DEF Body
  <1> HIDE DEF b
  <1>3. Whole(h, b) BY <1>1, <1>2 DEF Whole
  <1> QED BY <1>3 DEF b

LEMMA RequestAt ==
  ASSUME NEW p \in Seq(Exchange), NEW x \in 1 .. Len(p)
  PROVE  LET f == ReqStream(p)
             a == ReqAt(p)[x]
             c == ReqAt(p)[x + 1]
         IN /\ Stands(f, a, c, "req") /\ f[a + 1].kind = "req" /\ f[a + 1].x = x /\ Complete(f, a, c)
            /\ f[a + 2].kind = "line" /\ a + 2 <= c
  <1> DEFINE f == ReqStream(p)
             a == ReqAt(p)[x]
             c == ReqAt(p)[x + 1]
             s == RequestToks(p, x)
             n == p[x].req + 1
             h == [kind |-> "req", side |-> "req", x |-> x, n |-> n, looks |-> "req"]
             b == RequestRest(x, p[x].req)
  <1>0. x \in DOMAIN p /\ x \in Nat /\ n \in Nat /\ n >= 1 /\ p[x].req \in Nat
    <2>1. x \in 1 .. Len(p) /\ p[x] \in Exchange OBVIOUS
    <2> QED BY <2>1 DEF Exchange
  <1>1. f \in Seq(Tok) /\ AreStarts(ReqAt(p), RequestsOf(p), f) /\ Len(RequestsOf(p)) = Len(p)
    BY ReqStreamIs
  <1>2. a \in Nat /\ c \in Nat /\ c = a + Len(s) /\ c <= Len(f) /\ Cut(f, a, c) = s
    <2>1. RequestsOf(p)[x] = s BY <1>0 DEF RequestsOf
    <2>2. x \in 1 .. Len(p) + 1 /\ x + 1 \in 1 .. Len(p) + 1 BY <1>0
    <2> HIDE DEF f, s
    <2> QED BY <1>1, <2>1, <2>2 DEF AreStarts
  <1>3. b \in Seq(Tok) /\ Len(b) = n /\ h \in Tok /\ <<h>> \in Seq(Tok) /\ h.looks = "req" /\ h.n = n /\ h.kind = "req" /\ h.x = x
    <2>1. b \in Seq(Tok) /\ Len(b) = n
      <3> DEFINE m == p[x].req
      <3>1. IsRest(b, x, m) BY <1>0, RestIs
      <3>2. n = m + 1 OBVIOUS
      <3> HIDE DEF b, m, n
      <3> QED BY <3>1, <3>2 DEF IsRest
    <2>2. h \in Tok BY <1>0 DEF Tok
    <2> QED BY <2>1, <2>2
  <1>4. Whole(h, b) /\ b[1].kind = "line"
    <2> DEFINE m == p[x].req
    <2>1. IsRest(b, x, m) BY <1>0, RestIs
    <2>2. h.kind # "info" /\ h.n = m + 1 /\ h.side = "req" /\ h.x = x OBVIOUS
    <2> HIDE DEF b, h, m
    <2> QED BY <2>1, <2>2 DEF Whole, IsRest
  <1>5. s = <<>> \o <<h>> \o b
    <2>1. s = <<h>> \o b BY DEF RequestToks
    <2> HIDE DEF h, b
    <2>2. <<>> \o <<h>> = <<h>> BY <1>3
    <2> QED BY <2>1, <2>2
  <1> HIDE DEF f, a, c, s, n, h, b
  <1>6. s \in Seq(Tok) /\ Len(s) = 1 + n /\ s[1] = h /\ Cut(s, 1, Len(s)) = b
    <2>1. <<>> \in Seq(Tok) /\ Len(<<>>) = 0 OBVIOUS
    <2> DEFINE e == <<>>
    <2>2. e \in Seq(Tok) /\ Len(e) = 0 /\ s = e \o <<h>> \o b BY <1>5, <2>1
    <2> HIDE DEF e
    <2>3. /\ s \in Seq(Tok) /\ Len(s) = Len(e) + 1 + Len(b)
          /\ s[Len(e) + 1] = h /\ Cut(s, Len(e) + 1, Len(s)) = b
      <3>1. e \in Seq(Tok) /\ h \in Tok /\ b \in Seq(Tok) BY <1>3, <2>2
      <3> DEFINE q == e \o <<h>> \o b
      <3>2. q \in Seq(Tok) /\ Len(q) = Len(e) + 1 + Len(b) /\ q[Len(e) + 1] = h /\ Cut(q, Len(e) + 1, Len(q)) = b
        BY ONLY <3>1, HeadAndBody
      <3>3. s = q BY <2>2
      <3> HIDE DEF q
      <3> QED BY <3>2, <3>3
    <2>4. Len(e) + 1 = 1 /\ Len(e) + 1 + Len(b) = 1 + n BY <1>0, <1>3, <2>2
    <2> QED BY <2>3, <2>4
  <1>7. a <= c /\ c - a = 1 + n /\ 1 \in 0 .. c - a /\ 0 \in 0 .. c - a /\ 0 < c - a
    BY <1>0, <1>2, <1>6
  <1>8. \A j \in 0 .. c - a : Cut(f, a + j, c) = Cut(s, j, c - a) /\ (j < c - a => f[a + (j + 1)] = s[j + 1])
    <2>1. f \in Seq(Tok) /\ a \in Nat /\ c \in Nat /\ a <= c /\ c <= Len(f) BY <1>1, <1>2, <1>7
    <2>2. \A i \in 0 .. c - a : Cut(f, a + i, c) = Cut(Cut(f, a, c), i, c - a) /\ (i < c - a => f[a + (i + 1)] = Cut(f, a, c)[i + 1])
      BY <2>1, PartIs
    <2>3. Cut(f, a, c) = s BY <1>2
    <2> QED BY <2>2, <2>3
  <1>9. Cut(f, a + 1, c) = Cut(s, 1, Len(s)) /\ f[a + (0 + 1)] = s[0 + 1] /\ Len(s) = c - a
    BY <1>0, <1>2, <1>6, <1>7, <1>8
  <1>10. f[a + 1] = h /\ Cut(f, a + 1, c) = b BY <1>2, <1>6, <1>9, <1>7
  <1>11. c = a + 1 + n BY <1>0, <1>2, <1>6
  <1>13. f[a + 2].kind = "line" /\ a + 2 <= c
    <2>1. 1 \in 0 .. c - a /\ 1 < c - a /\ a + (1 + 1) = a + 2 /\ a + 2 <= c BY <1>0, <1>2, <1>7
    <2>2. f[a + (1 + 1)] = s[1 + 1] BY <1>8, <2>1
    <2>3. s[2] = b[1]
      <3>1. Cut(s, 1, Len(s))[1] = s[1 + 1]
        <4> DEFINE u == Len(s)
        <4>1. s \in Seq(Tok) /\ 1 \in Nat /\ u \in Nat /\ 1 <= u /\ u <= Len(s) /\ 1 \in 1 .. u - 1
          BY <1>0, <1>6
        <4> HIDE DEF u
        <4>2. Cut(s, 1, u)[1] = s[1 + 1] BY <4>1, CutIs
        <4> QED BY <4>2 DEF u
      <3> QED BY <1>6, <3>1
    <2> QED BY <1>4, <2>1, <2>2, <2>3
  <1>12. Stands(f, a, c, "req") /\ Complete(f, a, c)
    BY <1>2, <1>3, <1>4, <1>10, <1>11 DEF Stands, Complete
  <1> QED BY <1>3, <1>10, <1>12, <1>13 DEF f, a, c

(* where the response proper of an exchange starts *)
FinalAt(p, x) == RespAt(p)[x] + (IF p[x].info THEN 1 ELSE 0)

LEMMA ResponseAt ==
  ASSUME NEW p, Tellable(p), NEW x \in 1 .. Len(p)
  PROVE  LET f == RespStream(p)
             a == RespAt(p)[x]
             d == FinalAt(p, x)
             c == RespAt(p)[x + 1]
         IN /\ Stands(f, d, c, "resp") /\ f[d + 1].x = x /\ Complete(f, d, c)
            /\ f[d + 1].kind = (IF p[x].eof THEN "respEOF" ELSE "resp")
            /\ a \in Nat /\ a < c /\ c \in Nat /\ c <= Len(f)
            /\ p[x].info => d = a + 1 /\ Stands(f, a, d, "resp") /\ f[a + 1].kind = "info" /\ f[a + 1].x = x
            /\ ~p[x].info => d = a
  <1> DEFINE f == RespStream(p)
             a == RespAt(p)[x]
             c == RespAt(p)[x + 1]
             s == ResponseToks(p, x)
             n == p[x].resp
             k == IF p[x].eof THEN "respEOF" ELSE "resp"
             i == [kind |-> "info", side |-> "resp", x |-> x, n |-> 0, looks |-> "resp"]
             h == [kind |-> k, side |-> "resp", x |-> x, n |-> n, looks |-> "resp"]
             l == IF p[x].lookalike THEN "req" ELSE "none"
             b == Body("resp", x, n, l)
             e == IF p[x].info THEN <<i>> ELSE <<>>
             m == IF p[x].info THEN 1 ELSE 0
             d == FinalAt(p, x)
  <1>0. p \in Seq(Exchange) /\ x \in DOMAIN p /\ x \in Nat /\ n \in Nat /\ m \in {0, 1} /\ d = a + m
        /\ (p[x].info => m = 1) /\ (~p[x].info => m = 0)
    <2>1. p \in Seq(Exchange) /\ x \in 1 .. Len(p) /\ p[x] \in Exchange BY DEF Tellable
    <2> QED BY <2>1 DEF Exchange, FinalAt
  <1>1. f \in Seq(Tok) /\ AreStarts(RespAt(p), ResponsesOf(p), f) /\ Len(ResponsesOf(p)) = Len(p)
    BY RespStreamIs
  <1>2. a \in Nat /\ c \in Nat /\ c = a + Len(s) /\ c <= Len(f) /\ Cut(f, a, c) = s
    <2>1. ResponsesOf(p)[x] = s BY <1>0 DEF ResponsesOf
    <2>2. x \in 1 .. Len(p) + 1 /\ x + 1 \in 1 .. Len(p) + 1 BY <1>0
    <2> HIDE DEF f, s
    <2> QED BY <1>1, <2>1, <2>2 DEF AreStarts
  <1>3. b \in Seq(Tok) /\ Len(b) = n /\ h \in Tok /\ h.looks = "resp" /\ h.n = n /\ h.kind = k /\ h.x = x
    <2>1. b \in Seq(Tok) /\ Len(b) = n BY <1>0, BodyIs
    <2>2. h \in Tok BY <1>0 DEF Tok
    <2> QED BY <2>1, <2>2
  <1>4. Whole(h, b)
    <2>1. h.kind # "info" /\ h.n = n /\ h.side = "resp" /\ h.x = x OBVIOUS
    <2> HIDE DEF h, l
    <2> QED BY <1>0, <2>1, WholeBody
  <1>5. i \in Tok /\ i.looks = "resp" /\ i.n = 0 /\ i.kind = "info" /\ i.x = x BY <1>0 DEF Tok
  <1>6. s = e \o <<h>> \o b BY DEF ResponseToks
  <1> HIDE DEF f, a, c, s, n, h, b, i, l, k, d
  <1>7. e \in Seq(Tok) /\ Len(e) = m /\ (p[x].info => e[1] = i) BY <1>5
  <1> HIDE DEF e, m
  <1>8. /\ s \in Seq(Tok) /\ Len(s) = m + 1 + n /\ s[m + 1] = h /\ Cut(s, m + 1, Len(s)) = b
        /\ p[x].info => s[1] = i
    <2>1. /\ s \in Seq(Tok) /\ Len(s) = Len(e) + 1 + Len(b)
          /\ s[Len(e) + 1] = h /\ Cut(s, Len(e) + 1, Len(s)) = b
          /\ \A j \in 1 .. Len(e) : s[j] = e[j]
      <3>1. e \in Seq(Tok) /\ h \in Tok /\ b \in Seq(Tok) BY <1>3, <1>7
      <3> QED BY <1>6, <3>1, HeadAndBody
    <2>2. p[x].info => 1 \in 1 .. Len(e) BY <1>0, <1>7
    <2> QED BY <1>0, <1>3, <1>7, <2>1, <2>2
  <1>9. /\ a <= c /\ c - a = m + 1 + n /\ m + 1 \in 0 .. c - a /\ m \in 0 .. c - a /\ m < c - a
        /\ 0 \in 0 .. c - a /\ 0 < c - a
    BY <1>0, <1>2, <1>8
  <1>10. \A j \in 0 .. c - a : Cut(f, a + j, c) = Cut(s, j, c - a) /\ (j < c - a => f[a + (j + 1)] = s[j + 1])
    <2>1. f \in Seq(Tok) /\ a \in Nat /\ c \in Nat /\ a <= c /\ c <= Len(f) BY <1>1, <1>2, <1>9
    <2>2. \A j \in 0 .. c - a : Cut(f, a + j, c) = Cut(Cut(f, a, c), j, c - a) /\ (j < c - a => f[a + (j + 1)] = Cut(f, a, c)[j + 1])
      BY <2>1, PartIs
    <2>3. Cut(f, a, c) = s BY <1>2
    <2> QED BY <2>2, <2>3
  <1>11. Cut(f, a + (m + 1), c) = Cut(s, m + 1, Len(s)) /\ f[a + (m + 1)] = s[m + 1] /\ f[a + (0 + 1)] = s[0 + 1]
    BY <1>2, <1>8, <1>9, <1>10
  <1>12. a + (m + 1) = d + 1 /\ d \in Nat /\ c = d + 1 + n BY <1>0, <1>2, <1>8
  <1>13. f[d + 1] = h /\ Cut(f, d + 1, c) = b BY <1>8, <1>11, <1>12
  <1>14. Stands(f, d, c, "resp") /\ Complete(f, d, c)
    BY <1>2, <1>3, <1>4, <1>12, <1>13 DEF Stands, Complete
  <1>15. p[x].info => d = a + 1 /\ Stands(f, a, d, "resp") /\ f[a + 1].kind = "info" /\ f[a + 1].x = x
    <2> SUFFICES ASSUME p[x].info PROVE d = a + 1 /\ Stands(f, a, d, "resp") /\ f[a + 1].kind = "info" /\ f[a + 1].x = x
      OBVIOUS
    <2>1. d = a + 1 /\ f[a + 1] = i BY <1>0, <1>2, <1>8, <1>11
    <2>2. d <= Len(f) /\ d = a + 1 + 0 BY <1>0, <1>1, <1>2, <1>12, <2>1
    <2> QED BY <1>2, <1>5, <1>12, <2>1, <2>2 DEF Stands
  <1>16. (~p[x].info => d = a) /\ a < c BY <1>0, <1>2, <1>9
  <1> QED BY <1>2, <1>3, <1>13, <1>14, <1>15, <1>16 DEF f, a, c, d, k

-----------------------------------------------------------------------------
(* Parsing what a connection carries *)

LEMMA SyncFront ==
  ASSUME NEW buf \in Seq(Tok), NEW look, buf # <<>> => buf[1].looks = look
  PROVE  Sync(buf, look) = buf
  <1> DEFINE m == FirstLooking(buf, look)
  <1>1. m \in 1 .. Len(buf) + 1 /\ \A j \in 1 .. m - 1 : buf[j].looks # look BY FirstLookingIs
  <1> HIDE DEF m
  <1>2. Len(buf) \in Nat /\ (Len(buf) # 0 => buf # <<>>) OBVIOUS
  <1>3. m = 1
    <2>1. CASE Len(buf) = 0 BY <1>1, <1>2, <2>1
    <2>2. CASE Len(buf) # 0 /\ m # 1
      <3>1. 1 \in 1 .. m - 1 BY <1>1, <1>2, <2>2
      <3> QED BY <1>1, <1>2, <2>2, <3>1
    <2> QED BY <2>1, <2>2
  <1>4. Sync(buf, look) = SubSeq(buf, 1, Len(buf)) BY <1>3 DEF Sync, m
  <1> QED BY <1>4, SubSeqAll

(* what the parser makes of a buffer that starts at a message *)
LEMMA TakeFirst ==
  ASSUME NEW f \in Seq(Tok), NEW a, NEW c, NEW look, Stands(f, a, c, look), NEW u \in Nat, a < u, u <= Len(f)
  PROVE  LET buf == Cut(f, a, u) IN
         /\ buf \in Seq(Tok) /\ buf # <<>> /\ Head(buf) = f[a + 1] /\ Len(buf) = u - a /\ Sync(buf, look) = buf
         /\ Len(buf) > Head(buf).n <=> c <= u
         /\ c <= u /\ (Head(buf).kind = "respEOF" => u = c) =>
              DropParsed(buf) = Cut(f, c, u) /\ SubSeq(buf, 2, Consumed(buf)) = Cut(f, a + 1, c)
  <1> DEFINE buf == Cut(f, a, u)  n == f[a + 1].n
  <1>1. a \in Nat /\ c \in Nat /\ c <= Len(f) /\ f[a + 1].looks = look /\ c = a + 1 + n /\ n \in Nat
    BY DEF Stands, Tok
  <1> HIDE DEF n
  <1>2. a <= u BY <1>1
  <1>3. buf \in Seq(Tok) /\ Len(buf) = u - a /\ \A i \in 1 .. u - a : buf[i] = f[a + i]
    BY <1>1, <1>2, CutIs
  <1> HIDE DEF buf
  <1>4. 1 \in 1 .. u - a /\ Len(buf) >= 1 BY <1>1, <1>3
  <1>5. buf # <<>> /\ Head(buf) = buf[1] /\ buf[1] = f[a + 1] BY <1>3, <1>4
  <1>6. Sync(buf, look) = buf BY <1>1, <1>3, <1>5, SyncFront
  <1>7. Len(buf) > n <=> c <= u BY <1>1, <1>3
  <1>8. ASSUME c <= u, Head(buf).kind = "respEOF" => u = c
        PROVE  DropParsed(buf) = Cut(f, c, u) /\ SubSeq(buf, 2, Consumed(buf)) = Cut(f, a + 1, c)
    <2>1. Consumed(buf) = c - a
      <3>1. CASE Head(buf).kind = "respEOF" BY <1>3, <1>8, <3>1 DEF Consumed
      <3>2. CASE Head(buf).kind # "respEOF"
        <4>1. Consumed(buf) = n + 1 BY <1>5, <3>2 DEF Consumed, n
        <4> QED BY <1>1, <4>1
      <3> QED BY <3>1, <3>2
    <2>2. DropParsed(buf) = Cut(buf, c - a, u - a) BY <1>3, <2>1 DEF DropParsed, Cut
    <2>3. SubSeq(buf, 2, Consumed(buf)) = Cut(buf, 1, c - a) BY <2>1 DEF Cut
    <2>4. /\ c - a \in Nat /\ u - a \in Nat /\ c - a <= u - a /\ u - a <= u - a /\ a + (c - a) = c /\ a + (u - a) = u
          /\ 1 \in Nat /\ 1 <= c - a
      BY <1>1, <1>2, <1>8
    <2> DEFINE i == c - a  j == u - a
    <2>5. a \in Nat /\ a <= u /\ i \in Nat /\ j \in Nat /\ i <= j /\ j <= u - a /\ 1 <= i
      BY <1>1, <1>2, <2>4
    <2> HIDE DEF i, j
    <2>6. Cut(Cut(f, a, u), i, j) = Cut(f, a + i, a + j) /\ Cut(Cut(f, a, u), 1, i) = Cut(f, a + 1, a + i)
      <3>1. i <= u - a BY <2>5
      <3> QED BY <2>5, <3>1, CutOfCut
    <2> QED BY <2>2, <2>3, <2>4, <2>6 DEF buf, i, j
  <1> QED BY <1>3, <1>5, <1>6, <1>7, <1>8 DEF buf, n

(* What a session holds of the connection when the worker has received its  *)
(* request bytes up to u and its response bytes up to v, and k              *)
(* conversations are out: both buffers start at a message.                  *)
ReqHeld(p, st, k, u) ==
  \E y \in 1 .. Len(p) + 1 :
    /\ ReqAt(p)[y] <= u /\ st.req = Cut(ReqStream(p), ReqAt(p)[y], u)
    /\ k + Len(st.pending) = y - 1

PendHeld(st, k) ==
  \A j \in DOMAIN st.pending :
    /\ st.pending[j].x = k + j /\ st.pending[j].whole = TRUE
    /\ st.pending[j].gap = FALSE /\ st.pending[j].truncated = FALSE

Boundary(p, b, k) ==
  \E x \in 1 .. Len(p) + 1 :
    \/ b = RespAt(p)[x] /\ x - 1 <= k /\ ((\A y \in 1 .. x - 1 : ~p[y].info) => k = x - 1)
    \/ x <= Len(p) /\ p[x].info /\ b = RespAt(p)[x] + 1 /\ x <= k

RespHeld(p, st, k, v) == \E b \in Nat : b <= v /\ st.resp = Cut(RespStream(p), b, v) /\ Boundary(p, b, k)

Unmarked(st) == st.gap = FALSE /\ st.truncated = FALSE

LEMMA StartsAre ==
  ASSUME NEW p, Tellable(p)
  PROVE  /\ p \in Seq(Exchange) /\ Len(p) \in Nat
         /\ ReqStream(p) \in Seq(Tok) /\ RespStream(p) \in Seq(Tok)
         /\ ReqAt(p)[1] = 0 /\ ReqAt(p)[Len(p) + 1] = Len(ReqStream(p))
         /\ RespAt(p)[1] = 0 /\ RespAt(p)[Len(p) + 1] = Len(RespStream(p))
         /\ \A y \in 1 .. Len(p) + 1 : ReqAt(p)[y] \in Nat /\ RespAt(p)[y] \in Nat
  <1>1. p \in Seq(Exchange) BY DEF Tellable
  <1>2. ReqStream(p) \in Seq(Tok) /\ AreStarts(ReqAt(p), RequestsOf(p), ReqStream(p)) /\ Len(RequestsOf(p)) = Len(p)
    BY <1>1, ReqStreamIs
  <1>3. RespStream(p) \in Seq(Tok) /\ AreStarts(RespAt(p), ResponsesOf(p), RespStream(p)) /\ Len(ResponsesOf(p)) = Len(p)
    BY RespStreamIs
  <1>4. Len(p) \in Nat BY <1>1
  <1>5. /\ ReqAt(p)[1] = 0 /\ ReqAt(p)[Len(p) + 1] = Len(ReqStream(p))
        /\ \A y \in 1 .. Len(p) + 1 : ReqAt(p)[y] \in Nat
    BY <1>2 DEF AreStarts
  <1>6. /\ RespAt(p)[1] = 0 /\ RespAt(p)[Len(p) + 1] = Len(RespStream(p))
        /\ \A y \in 1 .. Len(p) + 1 : RespAt(p)[y] \in Nat
    BY <1>3 DEF AreStarts
  <1> QED BY <1>1, <1>2, <1>3, <1>4, <1>5, <1>6

LEMMA RequestRoundHeld ==
  ASSUME NEW p, Tellable(p), NEW st \in Session, NEW k \in Nat, NEW u \in Nat, u <= Len(ReqStream(p)),
         ReqHeld(p, st, k, u), PendHeld(st, k), Unmarked(st)
  PROVE  LET nx == RequestRound(st) IN
         /\ ReqHeld(p, nx, k, u) /\ PendHeld(nx, k) /\ Unmarked(nx)
         /\ nx.resp = st.resp /\ nx.hasSeq = st.hasSeq /\ nx.seq = st.seq
         /\ nx = st /\ u = Len(ReqStream(p)) => st.req = <<>> /\ k + Len(st.pending) = Len(p)
  <1> DEFINE f == ReqStream(p)
             nx == RequestRound(st)
  <1>1. PICK y \in 1 .. Len(p) + 1 :
          ReqAt(p)[y] <= u /\ st.req = Cut(f, ReqAt(p)[y], u) /\ k + Len(st.pending) = y - 1
    BY DEF ReqHeld
  <1> DEFINE a == ReqAt(p)[y]
  <1>2. p \in Seq(Exchange) /\ Len(p) \in Nat /\ f \in Seq(Tok) /\ a \in Nat /\ a <= u /\ st.req = Cut(f, a, u)
    BY <1>1, StartsAre
  <1>3. st.req \in Seq(Tok) /\ st.pending \in Seq(Parsed) /\ Len(st.pending) \in Nat BY DEF Session
  <1>4. CASE a = u
    <2>1. st.req = <<>> BY <1>2, <1>4, CutNone
    <2>2. Sync(st.req, "req") = st.req BY <1>3, <2>1, SyncFront
    <2>3. nx = [st EXCEPT !.req = st.req] BY <2>1, <2>2 DEF RequestRound, parseOneRequest
    <2>4. nx = st BY <2>3 DEF Session
    <2>5. u = Len(f) => y = Len(p) + 1
      <3> SUFFICES ASSUME u = Len(f), y # Len(p) + 1 PROVE FALSE OBVIOUS
      <3>1. y \in 1 .. Len(p) BY <1>2
      <3>2. Stands(f, ReqAt(p)[y], ReqAt(p)[y + 1], "req") BY <1>2, <3>1, RequestAt
      <3>3. f[a + 1].n \in Nat BY <3>2 DEF Stands, Tok
      <3> QED BY <1>2, <1>4, <3>2, <3>3 DEF Stands
    <2>6. u = Len(f) => k + Len(st.pending) = Len(p) BY <1>1, <1>2, <2>5
    <2> HIDE DEF nx
    <2> QED BY <2>1, <2>4, <2>6 DEF nx
  <1>5. CASE a # u
    <2>1. y \in 1 .. Len(p) /\ a < u
      <3>1. a < u BY <1>2, <1>5
      <3>2. y # Len(p) + 1 BY <1>2, <3>1, StartsAre
      <3> QED BY <1>2, <3>1, <3>2
    <2> DEFINE c == ReqAt(p)[y + 1]  buf == Cut(f, a, u)
    <2>2. /\ Stands(f, a, c, "req") /\ f[a + 1].kind = "req" /\ f[a + 1].x = y /\ Complete(f, a, c)
          /\ f[a + 2].kind = "line" /\ a + 2 <= c
      BY <1>2, <2>1, RequestAt
    <2>3. /\ buf \in Seq(Tok) /\ buf # <<>> /\ Head(buf) = f[a + 1] /\ Len(buf) = u - a /\ Sync(buf, "req") = buf
          /\ Len(buf) > Head(buf).n <=> c <= u
          /\ c <= u /\ (Head(buf).kind = "respEOF" => u = c) =>
               DropParsed(buf) = Cut(f, c, u) /\ SubSeq(buf, 2, Consumed(buf)) = Cut(f, a + 1, c)
      <3>1. f \in Seq(Tok) /\ Stands(f, a, c, "req") /\ a < u /\ u <= Len(f) BY <1>2, <2>1, <2>2
      <3> HIDE DEF f, a, c
      <3> QED BY <3>1, TakeFirst
    <2>4. st.req = buf /\ Head(buf).kind = "req" /\ Head(buf).x = y BY <1>2, <2>2, <2>3
    <2>5. c \in Nat /\ c <= Len(f) BY <2>2 DEF Stands
    <2> HIDE DEF a, c, buf, f
    <2>6. CASE ~(c <= u)
      <3>1. ~parseOneRequest(buf) BY <2>3, <2>6 DEF parseOneRequest
      <3>2. nx = [st EXCEPT !.req = buf] BY <2>3, <2>4, <3>1 DEF RequestRound
      <3>3. nx = st BY <2>4, <3>2 DEF Session
      <3>4. u # Len(f) BY <2>5, <2>6
      <3> HIDE DEF nx
      <3> QED BY <3>3, <3>4 DEF nx, f
    <2>7. CASE c <= u
      <3> DEFINE pr == [x |-> Head(buf).x, whole |-> Whole(Head(buf), SubSeq(buf, 2, Consumed(buf))),
                        gap |-> st.gap, truncated |-> st.truncated]
      <3>0. buf[2].kind = "line"
        <4>1. a <= u /\ 2 \in 1 .. u - a BY <1>2, <2>1, <2>2, <2>5, <2>7
        <4>2. f \in Seq(Tok) /\ u <= Len(f) /\ a \in Nat BY <1>2 DEF f
        <4>3. Cut(f, a, u)[2] = f[a + 2] BY <4>1, <4>2, CutIs
        <4> QED BY <2>2, <4>3 DEF buf
      <3>1. parseOneRequest(buf) BY <2>3, <2>4, <2>7, <3>0 DEF parseOneRequest
      <3>2. nx = [st EXCEPT !.req = DropParsed(buf), !.pending = Append(@, pr)]
        BY <2>3, <2>4, <3>1 DEF RequestRound
      <3>3. DropParsed(buf) = Cut(f, c, u) /\ SubSeq(buf, 2, Consumed(buf)) = Cut(f, a + 1, c)
        BY <2>3, <2>4, <2>7
      <3>4. Whole(Head(buf), SubSeq(buf, 2, Consumed(buf))) = TRUE
        <4>1. Whole(Head(buf), SubSeq(buf, 2, Consumed(buf))) BY <2>2, <2>3, <3>3 DEF Complete
        <4>2. Whole(Head(buf), SubSeq(buf, 2, Consumed(buf))) \in BOOLEAN BY DEF Whole
        <4> QED BY <4>1, <4>2
      <3>5. pr = [x |-> y, whole |-> TRUE, gap |-> FALSE, truncated |-> FALSE]
        BY <2>4, <3>4 DEF Unmarked
      <3>6. pr.x = y /\ pr.whole = TRUE /\ pr.gap = FALSE /\ pr.truncated = FALSE /\ pr \in Parsed
        <4> HIDE DEF pr
        <4> QED BY <1>2, <3>5 DEF Parsed
      <3> HIDE DEF pr, nx
      <3>7. /\ nx.req = Cut(f, c, u) /\ nx.pending = Append(st.pending, pr) /\ nx.resp = st.resp
            /\ nx.hasSeq = st.hasSeq /\ nx.seq = st.seq /\ nx.gap = st.gap /\ nx.truncated = st.truncated
        BY <3>2, <3>3 DEF Session
      <3>8. Len(nx.pending) = Len(st.pending) + 1 /\ DOMAIN nx.pending = 1 .. Len(st.pending) + 1
            /\ nx.pending[Len(st.pending) + 1] = pr /\ \A j \in 1 .. Len(st.pending) : nx.pending[j] = st.pending[j]
        BY <1>3, <3>6, <3>7
      <3>9. ReqHeld(p, nx, k, u)
        <4>1. y + 1 \in 1 .. Len(p) + 1 /\ k + Len(nx.pending) = (y + 1) - 1
          <5>1. Len(p) \in Nat /\ Len(st.pending) \in Nat /\ Len(nx.pending) = Len(st.pending) + 1 /\ k + Len(st.pending) = y - 1
            BY <1>1, <1>2, <1>3, <3>8
          <5> QED BY <2>1, <5>1
        <4> QED BY <2>7, <3>7, <4>1 DEF ReqHeld, c, f
      <3>10. PendHeld(nx, k)
        <4> SUFFICES ASSUME NEW j \in DOMAIN nx.pending
                     PROVE  /\ nx.pending[j].x = k + j /\ nx.pending[j].whole = TRUE
                            /\ nx.pending[j].gap = FALSE /\ nx.pending[j].truncated = FALSE
          BY DEF PendHeld
        <4>1. CASE j = Len(st.pending) + 1
          <5>1. k + j = y BY <1>1, <1>3, <4>1
          <5> QED BY <3>6, <3>8, <4>1, <5>1
        <4>2. CASE j # Len(st.pending) + 1
          <5>1. j \in 1 .. Len(st.pending) /\ j \in DOMAIN st.pending BY <1>3, <3>8, <4>2
          <5> QED BY <3>8, <5>1 DEF PendHeld
        <4> QED BY <4>1, <4>2
      <3>11. Unmarked(nx) BY <3>7 DEF Unmarked
      <3>12. nx # st BY <1>3, <3>8
      <3> QED BY <3>7, <3>9, <3>10, <3>11, <3>12 DEF nx
    <2> QED BY <2>6, <2>7
  <1> QED BY <1>4, <1>5

(* conversation number i is what PairingExact wants it to be *)
PairOK(p, c, i) ==
  /\ c.req = i /\ c.gap = FALSE /\ c.truncated = FALSE
  /\ Right(c) \/ ((\E y \in 1 .. i : p[y].info) /\ c.resp <= i)

(* the response that starts at a boundary *)
Follows(p, b, k, c, x) ==
  LET f == RespStream(p) IN
  /\ Stands(f, b, c, "resp") /\ f[b + 1].x = x /\ x \in Nat /\ x <= k + 1 /\ Boundary(p, c, k + 1)
  /\ f[b + 1].kind \in {"resp", "info", "respEOF"} /\ (f[b + 1].kind = "respEOF" => c = Len(f) /\ p[x].eof)
  /\ (x = k + 1 /\ Complete(f, b, c)) \/ (\E y \in 1 .. k + 1 : p[y].info)

LEMMA NextResponse ==
  ASSUME NEW p, Tellable(p), NEW k \in Nat, NEW b \in Nat, Boundary(p, b, k), b < Len(RespStream(p))
  PROVE  \E c, x : Follows(p, b, k, c, x)
  <1> DEFINE f == RespStream(p)
  <1>0. /\ p \in Seq(Exchange) /\ Len(p) \in Nat /\ f \in Seq(Tok) /\ RespAt(p)[Len(p) + 1] = Len(f)
        /\ DOMAIN p = 1 .. Len(p)
    BY StartsAre
  <1>1. PICK x \in 1 .. Len(p) + 1 :
          \/ b = RespAt(p)[x] /\ x - 1 <= k /\ ((\A y \in 1 .. x - 1 : ~p[y].info) => k = x - 1)
          \/ x <= Len(p) /\ p[x].info /\ b = RespAt(p)[x] + 1 /\ x <= k
    BY DEF Boundary
  <1>2. x \in 1 .. Len(p)
    <2>1. x # Len(p) + 1 BY <1>0, <1>1
    <2> QED BY <1>0, <2>1
  <1> DEFINE a == RespAt(p)[x]  d == FinalAt(p, x)  c == RespAt(p)[x + 1]
  <1>3. /\ Stands(f, d, c, "resp") /\ f[d + 1].x = x /\ Complete(f, d, c)
        /\ f[d + 1].kind = (IF p[x].eof THEN "respEOF" ELSE "resp")
        /\ p[x].info => d = a + 1 /\ Stands(f, a, d, "resp") /\ f[a + 1].kind = "info" /\ f[a + 1].x = x
        /\ ~p[x].info => d = a
    BY <1>2, ResponseAt
  <1>4. f[d + 1].kind \in {"resp", "info", "respEOF"} /\ (f[d + 1].kind = "respEOF" => c = Len(f) /\ p[x].eof)
    <2>1. p[x].eof => x = Len(p) BY <1>0, <1>2 DEF Tellable
    <2> QED BY <1>0, <1>3, <2>1
  <1>5. x + 1 \in 1 .. Len(p) + 1 /\ x \in Nat /\ (x + 1) - 1 = x /\ x \in 1 .. Len(p) + 1 /\ x \in 1 .. x
    BY <1>0, <1>2
  <1> HIDE DEF f, a, d, c
  <1>6. CASE b = a /\ x - 1 <= k /\ ((\A y \in 1 .. x - 1 : ~p[y].info) => k = x - 1) /\ ~p[x].info
    <2>1. d = b /\ x <= k + 1 BY <1>3, <1>5, <1>6
    <2>2. (\A y \in 1 .. x : ~p[y].info) => k + 1 = x
      <3>1. \A y \in 1 .. x - 1 : y \in 1 .. x BY <1>5
      <3>2. k = x - 1 => k + 1 = x BY <1>5
      <3> QED BY <1>6, <3>1, <3>2
    <2>3. Boundary(p, c, k + 1) BY <1>5, <2>1, <2>2 DEF Boundary, c
    <2>4. (x = k + 1 /\ Complete(f, b, c)) \/ (\E y \in 1 .. k + 1 : p[y].info)
      <3>1. \A y \in 1 .. x : y \in 1 .. k + 1 BY <1>5, <2>1
      <3> QED BY <1>3, <2>1, <2>2, <3>1
    <2>5. Follows(p, b, k, c, x) BY <1>3, <1>4, <1>5, <2>1, <2>3, <2>4 DEF Follows, f
    <2> QED BY <2>5
  <1>7. CASE b = a /\ x - 1 <= k /\ p[x].info
    <2>1. d = b + 1 /\ x <= k + 1 /\ x \in 1 .. k + 1 /\ d = RespAt(p)[x] + 1
      BY <1>3, <1>5, <1>7 DEF a
    <2>2. Boundary(p, d, k + 1)
      <3>1. x <= Len(p) BY <1>0, <1>2
      <3> QED BY <1>5, <1>7, <2>1, <3>1 DEF Boundary
    <2>3. Follows(p, b, k, d, x) BY <1>3, <1>5, <1>7, <2>1, <2>2 DEF Follows, f
    <2> QED BY <2>3
  <1>8. CASE p[x].info /\ b = a + 1 /\ x <= k
    <2>1. d = b /\ x <= k + 1 /\ x \in 1 .. k + 1 BY <1>3, <1>5, <1>8
    <2>2. Boundary(p, c, k + 1) BY <1>5, <1>8, <2>1 DEF Boundary, c
    <2>3. Follows(p, b, k, c, x) BY <1>3, <1>4, <1>5, <1>8, <2>1, <2>2 DEF Follows, f
    <2> QED BY <2>3
  <1> QED BY <1>1, <1>6, <1>7, <1>8 DEF a

(* at the end of the stream every exchange has been answered *)
LEMMA AllAnswered ==
  ASSUME NEW p, Tellable(p), NEW k \in Nat, Boundary(p, Len(RespStream(p)), k)
  PROVE  k >= Len(p)
  <1> DEFINE f == RespStream(p)  b == Len(f)
  <1>0. p \in Seq(Exchange) /\ Len(p) \in Nat /\ f \in Seq(Tok) /\ b \in Nat BY StartsAre
  <1>1. PICK x \in 1 .. Len(p) + 1 :
          \/ b = RespAt(p)[x] /\ x - 1 <= k
          \/ x <= Len(p) /\ p[x].info /\ b = RespAt(p)[x] + 1 /\ x <= k
    BY DEF Boundary
  <1>2. CASE x = Len(p) + 1 BY <1>0, <1>1, <1>2
  <1>3. CASE x # Len(p) + 1
    <2>1. x \in 1 .. Len(p) BY <1>0, <1>3
    <2> DEFINE a == RespAt(p)[x]  d == FinalAt(p, x)  c == RespAt(p)[x + 1]
    <2>2. /\ Stands(f, d, c, "resp") /\ a \in Nat /\ a < c /\ c \in Nat /\ c <= Len(f)
          /\ p[x].info => d = a + 1
      BY <2>1, ResponseAt
    <2>3. d \in Nat /\ d < c
      <3>1. f[d + 1].n \in Nat /\ d \in Nat /\ c = d + 1 + f[d + 1].n BY <2>2 DEF Stands, Tok
      <3> HIDE DEF f, d, c
      <3> QED BY <3>1
    <2> QED BY <1>0, <1>1, <2>2, <2>3
  <1> QED BY <1>2, <1>3

ResHeld(p, k0, res, u, v) ==
  LET k == k0 + Len(res.out) IN
  /\ ReqHeld(p, res.st, k, u) /\ PendHeld(res.st, k) /\ RespHeld(p, res.st, k, v) /\ Unmarked(res.st)
  /\ \A i \in DOMAIN res.out : PairOK(p, res.out[i], k0 + i)

LEMMA ResponseRoundHeld ==
  ASSUME NEW p, Tellable(p), NEW res \in Result, NEW k0 \in Nat, NEW u \in Nat, NEW v \in Nat, v <= Len(RespStream(p)),
         ResHeld(p, k0, res, u, v), NEW delimited \in BOOLEAN, delimited => v = Len(RespStream(p))
  PROVE  LET nx == ResponseRound(res, delimited) IN
         /\ ResHeld(p, k0, nx, u, v)
         /\ nx.st.req = res.st.req /\ nx.st.hasSeq = res.st.hasSeq /\ nx.st.seq = res.st.seq
         /\ nx = res /\ delimited /\ res.st.pending # <<>> => k0 + Len(res.out) >= Len(p)
  <1> DEFINE f == RespStream(p)
             nx == ResponseRound(res, delimited)
             st == res.st
             k == k0 + Len(res.out)
  <1>0. /\ st \in Session /\ res.out \in Seq(Conv) /\ res = [st |-> st, out |-> res.out] /\ Len(res.out) \in Nat
        /\ st.resp \in Seq(Tok) /\ st.pending \in Seq(Parsed) /\ k \in Nat /\ Len(st.pending) \in Nat
    BY DEF Result, Session
  <1>1. CASE st.pending = <<>>
    <2>1. nx = res BY <1>1 DEF ResponseRound
    <2> HIDE DEF nx
    <2> QED BY <1>1, <2>1 DEF nx
  <1>2. CASE st.pending # <<>>
    <2>1. PICK b \in Nat : b <= v /\ st.resp = Cut(f, b, v) /\ Boundary(p, b, k)
      BY DEF ResHeld, RespHeld
    <2>2. f \in Seq(Tok) /\ Len(f) \in Nat /\ v <= Len(f) BY StartsAre
    <2>3. CASE b = v
      <3>1. st.resp = <<>> BY <2>1, <2>2, <2>3, CutNone
      <3>2. Sync(st.resp, "resp") = st.resp BY <1>0, <3>1, SyncFront
      <3>3. nx = [res EXCEPT !.st.resp = st.resp]
        BY <1>2, <3>1, <3>2 DEF ResponseRound, parseOneResponse
      <3>4. nx = res BY <1>0, <3>3 DEF Result, Session
      <3>5. delimited => k >= Len(p)
        <4> HIDE DEF k
        <4> QED BY <1>0, <2>1, <2>3, AllAnswered
      <3> HIDE DEF nx
      <3> QED BY <3>4, <3>5 DEF nx
    <2>4. CASE b # v
      <3>1. b < v /\ b < Len(f) BY <2>1, <2>2, <2>4
      <3>2. PICK c, x : Follows(p, b, k, c, x)
        <4> HIDE DEF k
        <4> QED BY <1>0, <2>1, <3>1, NextResponse
      <3> DEFINE buf == Cut(f, b, v)
      <3>3. /\ Stands(f, b, c, "resp") /\ f[b + 1].x = x /\ x \in Nat /\ x <= k + 1 /\ Boundary(p, c, k + 1)
            /\ f[b + 1].kind \in {"resp", "info", "respEOF"} /\ (f[b + 1].kind = "respEOF" => c = Len(f))
            /\ (x = k + 1 /\ Complete(f, b, c)) \/ (\E y \in 1 .. k + 1 : p[y].info)
        BY <3>2 DEF Follows
      <3>4. /\ buf \in Seq(Tok) /\ buf # <<>> /\ Head(buf) = f[b + 1] /\ Len(buf) = v - b /\ Sync(buf, "resp") = buf
            /\ Len(buf) > Head(buf).n <=> c <= v
            /\ c <= v /\ (Head(buf).kind = "respEOF" => v = c) =>
                 DropParsed(buf) = Cut(f, c, v) /\ SubSeq(buf, 2, Consumed(buf)) = Cut(f, b + 1, c)
        <4>1. f \in Seq(Tok) /\ Stands(f, b, c, "resp") /\ b < v /\ v <= Len(f) BY <2>2, <3>1, <3>3
        <4> HIDE DEF f, k
        <4>2. buf \in Seq(Tok) /\ buf # <<>> /\ Head(buf) = f[b + 1] /\ Len(buf) = v - b
          <5>1. buf \in Seq(Tok) /\ Len(buf) = v - b BY <2>1, <4>1, CutIs
          <5>2. Head(buf) = f[b + 1] BY <4>1, TakeFirst
          <5> HIDE DEF buf
          <5>3. buf # <<>> BY <3>1, <5>1
          <5> QED BY <5>1, <5>2, <5>3
        <4>5. Sync(buf, "resp") = buf BY <4>1, TakeFirst
        <4>3. Len(buf) > Head(buf).n <=> c <= v BY <4>1, TakeFirst
        <4>4. c <= v /\ (Head(buf).kind = "respEOF" => v = c) =>
                DropParsed(buf) = Cut(f, c, v) /\ SubSeq(buf, 2, Consumed(buf)) = Cut(f, b + 1, c)
          BY <4>1, TakeFirst
        <4> QED BY <4>2, <4>3, <4>4, <4>5
      <3>5. st.resp = buf /\ Sync(st.resp, "resp") = buf /\ c \in Nat /\ c <= Len(f)
        BY <2>1, <3>3, <3>4 DEF Stands
      <3> HIDE DEF buf, f, k
      <3>6. CASE ~parseOneResponse(buf, delimited)
        <4>1. nx = [res EXCEPT !.st.resp = buf] BY <1>2, <3>5, <3>6 DEF ResponseRound
        <4>2. nx = res BY <1>0, <3>5, <4>1 DEF Result, Session
        <4>3. ~delimited
          <5> SUFFICES ASSUME delimited PROVE FALSE OBVIOUS
          <5>1. c <= v BY <3>5 DEF f
          <5> QED BY <3>3, <3>4, <3>6, <5>1 DEF parseOneResponse
        <4> HIDE DEF nx
        <4> QED BY <4>2, <4>3 DEF nx
      <3>7. CASE parseOneResponse(buf, delimited)
        <4>1. c <= v /\ (Head(buf).kind = "respEOF" => v = c)
          <5>1. CASE Head(buf).kind = "respEOF"
            <6>1. delimited BY <3>7, <5>1 DEF parseOneResponse
            <6>2. c = Len(f) /\ v = Len(f) BY <3>3, <3>4, <5>1, <6>1 DEF f
            <6> QED BY <3>5, <6>2
          <5>2. CASE Head(buf).kind # "respEOF" BY <3>4, <3>7, <5>2 DEF parseOneResponse
          <5> QED BY <5>1, <5>2
        <4>2. DropParsed(buf) = Cut(f, c, v) /\ SubSeq(buf, 2, Consumed(buf)) = Cut(f, b + 1, c)
          BY <3>4, <4>1
        <4> DEFINE r == Head(st.pending)
                   cv == Conversation(r, buf, st)
                   w == Whole(Head(buf), SubSeq(buf, 2, Consumed(buf)))
        <4>3. nx = [st |-> [st EXCEPT !.resp = DropParsed(buf), !.pending = Tail(@)], out |-> Append(res.out, cv)]
          BY <1>2, <3>5, <3>7 DEF ResponseRound
        <4>4. r.x = k + 1 /\ r.whole = TRUE /\ r.gap = FALSE /\ r.truncated = FALSE
          <5>1. PendHeld(st, k) /\ 1 \in DOMAIN st.pending /\ r = st.pending[1]
            BY <1>0, <1>2 DEF ResHeld, k
          <5> HIDE DEF r
          <5> QED BY <5>1 DEF PendHeld
        <4>5. w \in BOOLEAN /\ (Complete(f, b, c) => w)
          <5>1. w \in BOOLEAN BY DEF Whole
          <5>2. Complete(f, b, c) => w BY <3>4, <4>2 DEF Complete
          <5> QED BY <5>1, <5>2
        <4> HIDE DEF w, r
        <4>6. cv = [req |-> k + 1, resp |-> x, whole |-> w, gap |-> FALSE, truncated |-> FALSE]
          <5>1. st.gap = FALSE /\ st.truncated = FALSE /\ Head(buf).x = x
            BY <3>3, <3>4 DEF ResHeld, Unmarked
          <5>2. cv = [req |-> r.x, resp |-> Head(buf).x, whole |-> r.whole /\ w, gap |-> r.gap \/ st.gap, truncated |-> r.truncated \/ st.truncated]
            BY DEF Conversation, w
          <5>3. (TRUE /\ w) = w BY <4>5
          <5> HIDE DEF cv
          <5> QED BY <4>4, <5>1, <5>2, <5>3
        <4>7. cv \in Conv /\ PairOK(p, cv, k + 1)
          <5>1. cv.req = k + 1 /\ cv.resp = x /\ cv.whole = w /\ cv.gap = FALSE /\ cv.truncated = FALSE
            <6> HIDE DEF cv
            <6> QED BY <4>6
          <5>2. cv \in Conv
            <6> HIDE DEF cv
            <6> QED BY <1>0, <3>3, <4>5, <4>6 DEF Conv, k
          <5> HIDE DEF cv
          <5>3. CASE x = k + 1 /\ Complete(f, b, c) BY <4>5, <5>1, <5>2, <5>3 DEF PairOK, Right
          <5>4. CASE \E y \in 1 .. k + 1 : p[y].info BY <3>3, <5>1, <5>2, <5>4 DEF PairOK
          <5> QED BY <3>3, <5>3, <5>4
        <4> HIDE DEF cv, nx
        <4>8. /\ nx.out = Append(res.out, cv) /\ nx.st.resp = Cut(f, c, v) /\ nx.st.pending = Tail(st.pending)
              /\ nx.st.req = st.req /\ nx.st.hasSeq = st.hasSeq /\ nx.st.seq = st.seq
              /\ nx.st.gap = st.gap /\ nx.st.truncated = st.truncated
          BY <1>0, <4>2, <4>3 DEF Session
        <4>9. Len(nx.out) = Len(res.out) + 1 /\ k0 + Len(nx.out) = k + 1 /\ DOMAIN nx.out = 1 .. Len(res.out) + 1
              /\ nx.out[Len(res.out) + 1] = cv /\ \A i \in 1 .. Len(res.out) : nx.out[i] = res.out[i]
          <5>1. Len(nx.out) = Len(res.out) + 1 /\ DOMAIN nx.out = 1 .. Len(res.out) + 1
                /\ nx.out[Len(res.out) + 1] = cv /\ \A i \in 1 .. Len(res.out) : nx.out[i] = res.out[i]
            BY <1>0, <4>7, <4>8
          <5> QED BY <1>0, <5>1 DEF k
        <4>10. /\ Len(nx.st.pending) = Len(st.pending) - 1 /\ DOMAIN nx.st.pending = 1 .. Len(st.pending) - 1
               /\ \A j \in 1 .. Len(st.pending) - 1 : nx.st.pending[j] = st.pending[j + 1] /\ j + 1 \in DOMAIN st.pending
          <5> DEFINE q == st.pending
          <5>1. q \in Seq(Parsed) /\ q # <<>> BY <1>0, <1>2
          <5> HIDE DEF q
          <5>2. /\ Len(Tail(q)) = Len(q) - 1 /\ DOMAIN Tail(q) = 1 .. Len(q) - 1
                /\ \A j \in 1 .. Len(q) - 1 : Tail(q)[j] = q[j + 1] /\ j + 1 \in DOMAIN q
            BY <5>1
          <5>3. nx.st.pending = Tail(q) BY <4>8 DEF q
          <5> QED BY <5>2, <5>3 DEF q
        <4>11. ReqHeld(p, nx.st, k + 1, u)
          <5>1. PICK y \in 1 .. Len(p) + 1 :
                  /\ ReqAt(p)[y] <= u /\ st.req = Cut(ReqStream(p), ReqAt(p)[y], u)
                  /\ k + Len(st.pending) = y - 1
            BY DEF ResHeld, ReqHeld, k
          <5>2. (k + 1) + Len(nx.st.pending) = y - 1
            <6> DEFINE l == Len(st.pending)  l1 == Len(nx.st.pending)
            <6>1. k \in Nat /\ l \in Nat /\ l1 = l - 1 /\ k + l = y - 1 BY <1>0, <4>10, <5>1 DEF k
            <6> HIDE DEF l, l1
            <6>2. (k + 1) + l1 = y - 1 BY <6>1
            <6> QED BY <6>2 DEF l1
          <5> QED BY <4>8, <5>1, <5>2 DEF ReqHeld
        <4>12. PendHeld(nx.st, k + 1)
          <5>1. \A j \in 1 .. Len(st.pending) - 1 : (k + 1) + j = k + (j + 1) BY <1>0
          <5>2. PendHeld(st, k) BY DEF ResHeld, k
          <5> QED
            <6> SUFFICES ASSUME NEW j \in DOMAIN nx.st.pending
                         PROVE  /\ nx.st.pending[j].x = (k + 1) + j /\ nx.st.pending[j].whole = TRUE
                                /\ nx.st.pending[j].gap = FALSE /\ nx.st.pending[j].truncated = FALSE
              BY DEF PendHeld
            <6>1. nx.st.pending[j] = st.pending[j + 1] /\ j + 1 \in DOMAIN st.pending /\ (k + 1) + j = k + (j + 1)
              BY <4>10, <5>1
            <6> DEFINE q == st.pending[j + 1]
            <6>2. q.x = k + (j + 1) /\ q.whole = TRUE /\ q.gap = FALSE /\ q.truncated = FALSE
              BY <5>2, <6>1 DEF PendHeld
            <6> HIDE DEF q
            <6>3. nx.st.pending[j] = q BY <6>1 DEF q
            <6> QED BY <6>1, <6>2, <6>3
        <4>13. RespHeld(p, nx.st, k + 1, v) BY <3>3, <3>5, <4>1, <4>8 DEF RespHeld, f
        <4>14. Unmarked(nx.st) BY <4>8 DEF ResHeld, Unmarked
        <4>15. ASSUME NEW i \in DOMAIN nx.out PROVE PairOK(p, nx.out[i], k0 + i)
          <5>1. CASE i = Len(res.out) + 1
            <6>1. k0 + i = k + 1 BY <1>0, <5>1 DEF k
            <6> QED BY <4>7, <4>9, <5>1, <6>1
          <5>2. CASE i # Len(res.out) + 1
            <6> DEFINE l == Len(res.out)
            <6>0. i \in 1 .. l + 1 /\ l \in Nat /\ i # l + 1 /\ DOMAIN res.out = 1 .. l
              BY <1>0, <4>9, <5>2
            <6> HIDE DEF l
            <6>a. i \in 1 .. l BY <6>0
            <6>1. i \in 1 .. Len(res.out) /\ i \in DOMAIN res.out BY <6>0, <6>a DEF l
            <6> QED BY <4>9, <6>1 DEF ResHeld
          <5> QED BY <5>1, <5>2
        <4>16. ResHeld(p, k0, nx, u, v) BY <4>9, <4>11, <4>12, <4>13, <4>14, <4>15 DEF ResHeld
        <4>17. nx # res BY <1>0, <4>9
        <4> QED BY <4>8, <4>16, <4>17 DEF nx
      <3> QED BY <3>6, <3>7
    <2> QED BY <2>3, <2>4
  <1> QED BY <1>1, <1>2

(* an empty buffer at the end of the stream: every request was parsed *)
LEMMA AllAsked ==
  ASSUME NEW p, Tellable(p), NEW st, NEW k, NEW u, u = Len(ReqStream(p)), ReqHeld(p, st, k, u), st.req = <<>>
  PROVE  k + Len(st.pending) = Len(p)
  <1> DEFINE f == ReqStream(p)
  <1>1. PICK y \in 1 .. Len(p) + 1 :
          ReqAt(p)[y] <= u /\ st.req = Cut(f, ReqAt(p)[y], u) /\ k + Len(st.pending) = y - 1
    BY DEF ReqHeld
  <1> DEFINE a == ReqAt(p)[y]
  <1>2. p \in Seq(Exchange) /\ Len(p) \in Nat /\ f \in Seq(Tok) /\ Len(f) \in Nat /\ a \in Nat
    BY StartsAre
  <1>3. a = Len(f) BY <1>1, <1>2, CutEmpty
  <1>4. y = Len(p) + 1
    <2> SUFFICES ASSUME y # Len(p) + 1 PROVE FALSE OBVIOUS
    <2>1. y \in 1 .. Len(p) BY <1>2
    <2>2. Stands(f, a, ReqAt(p)[y + 1], "req") BY <1>2, <2>1, RequestAt
    <2>3. f[a + 1].n \in Nat BY <2>2 DEF Stands, Tok
    <2> QED BY <1>2, <1>3, <2>2, <2>3 DEF Stands
  <1> QED BY <1>1, <1>2, <1>4

(* A drain leaves a session that starts at messages, and its conversations  *)
(* are the next ones; a drain at the end of the connection leaves none out. *)
LEMMA DrainHeld ==
  ASSUME NEW p, Tellable(p), NEW st \in Session, NEW k0 \in Nat, NEW u \in Nat, NEW v \in Nat,
         u <= Len(ReqStream(p)), v <= Len(RespStream(p)),
         ReqHeld(p, st, k0, u), PendHeld(st, k0), RespHeld(p, st, k0, v), Unmarked(st),
         NEW delimited \in BOOLEAN, delimited => v = Len(RespStream(p))
  PROVE  LET res == drainParsedConversations(st, delimited) IN
         /\ ResHeld(p, k0, res, u, v) /\ res.st.hasSeq = st.hasSeq /\ res.st.seq = st.seq
         /\ delimited /\ u = Len(ReqStream(p)) => k0 + Len(res.out) = Len(p)
  <1> DEFINE mid == RequestRounds[st]
             res0 == [st |-> mid, out |-> <<>>]
             res == drainParsedConversations(st, delimited)
             InP(s) == /\ ReqHeld(p, s, k0, u) /\ PendHeld(s, k0) /\ Unmarked(s) /\ s.resp = st.resp
                       /\ s.hasSeq = st.hasSeq /\ s.seq = st.seq
             P == {s \in Session : InP(s)}
             InQ(r) == ResHeld(p, k0, r, u, v) /\ r.st.req = mid.req /\ r.st.hasSeq = st.hasSeq /\ r.st.seq = st.seq
             Q == {r \in Result : InQ(r)}
  <1>1. \A s \in P : RequestRound(s) \in P
    <2> SUFFICES ASSUME NEW s \in P PROVE RequestRound(s) \in P OBVIOUS
    <2> DEFINE nx == RequestRound(s)
    <2>1. s \in Session /\ InP(s) OBVIOUS
    <2>2. nx \in Session BY <2>1, RequestRoundIs
    <2>3. /\ ReqHeld(p, nx, k0, u) /\ PendHeld(nx, k0) /\ Unmarked(nx)
          /\ nx.resp = s.resp /\ nx.hasSeq = s.hasSeq /\ nx.seq = s.seq
      BY <2>1, RequestRoundHeld
    <2> HIDE DEF nx
    <2>4. InP(nx) BY <2>1, <2>3
    <2> QED BY <2>2, <2>4 DEF nx
  <1>2. mid \in Session /\ InP(mid) /\ RequestRound(mid) = mid
    <2>1. st \in P /\ P \subseteq Session OBVIOUS
    <2>2. mid \in P /\ RequestRound(mid) = mid
      <3> HIDE DEF P
      <3> QED BY <1>1, <2>1, RequestRoundsEnd
    <2> QED BY <2>2
  <1>3. u = Len(ReqStream(p)) => mid.req = <<>>
    <2> HIDE DEF mid
    <2> QED BY <1>2, RequestRoundHeld
  <1> HIDE DEF P, mid
  <1>4. res0 \in Result /\ InQ(res0)
    <2>1. <<>> \in Seq(Conv) /\ DOMAIN <<>> = {} /\ Len(<<>>) = 0 OBVIOUS
    <2>2. res0 \in Result /\ res0.st = mid /\ res0.out = <<>> BY <1>2, <2>1 DEF Result
    <2> HIDE DEF res0
    <2>3. k0 + Len(res0.out) = k0 /\ DOMAIN res0.out = {} BY <2>1, <2>2
    <2>4. RespHeld(p, mid, k0, v) BY <1>2 DEF RespHeld
    <2>5. ResHeld(p, k0, res0, u, v) BY <1>2, <2>2, <2>3, <2>4 DEF ResHeld
    <2> QED BY <1>2, <2>2, <2>5
  <1>5. \A r \in Q : ResponseRound(r, delimited) \in Q
    <2> SUFFICES ASSUME NEW r \in Q PROVE ResponseRound(r, delimited) \in Q OBVIOUS
    <2> DEFINE nx == ResponseRound(r, delimited)
    <2>1. r \in Result /\ InQ(r) OBVIOUS
    <2>2. nx \in Result BY <2>1, ResponseRoundIs
    <2>3. /\ ResHeld(p, k0, nx, u, v)
          /\ nx.st.req = r.st.req /\ nx.st.hasSeq = r.st.hasSeq /\ nx.st.seq = r.st.seq
      BY <2>1, ResponseRoundHeld
    <2> HIDE DEF nx
    <2>4. InQ(nx) BY <2>1, <2>3
    <2> QED BY <2>2, <2>4 DEF nx
  <1>6. res \in Result /\ InQ(res) /\ ResponseRound(res, delimited) = res
    <2>1. res0 \in Q /\ Q \subseteq Result BY <1>4
    <2>2. res = ResponseRounds(delimited)[res0] BY DEF drainParsedConversations, mid
    <2>3. res \in Q /\ ResponseRound(res, delimited) = res
      <3> HIDE DEF Q, res0, res
      <3> QED BY <1>5, <2>1, <2>2, ResponseRoundsEnd
    <2> HIDE DEF res
    <2> QED BY <2>3
  <1> HIDE DEF res
  <1>7. ASSUME delimited, u = Len(ReqStream(p)) PROVE k0 + Len(res.out) = Len(p)
    <2> DEFINE k == k0 + Len(res.out)
    <2>1. ReqHeld(p, res.st, k, u) /\ res.st.req = <<>> BY <1>3, <1>6, <1>7 DEF ResHeld
    <2>2. k \in Nat /\ Len(res.st.pending) \in Nat /\ Len(p) \in Nat /\ (res.st.pending # <<>> => Len(res.st.pending) # 0)
          /\ (res.st.pending = <<>> => Len(res.st.pending) = 0)
      <3>1. res.out \in Seq(Conv) /\ res.st.pending \in Seq(Parsed) BY <1>6 DEF Result, Session
      <3> QED BY <3>1, StartsAre
    <2>3. k + Len(res.st.pending) = Len(p)
      <3> HIDE DEF k
      <3> QED BY <1>7, <2>1, AllAsked
    <2>4. res.st.pending # <<>> => k >= Len(p) BY <1>6, <1>7, ResponseRoundHeld
    <2> DEFINE l == Len(res.st.pending)  w == Len(p)
    <2>5. k \in Nat /\ l \in Nat /\ w \in Nat /\ k + l = w /\ (l # 0 => k >= w) BY <2>2, <2>3, <2>4
    <2> HIDE DEF k, l, w
    <2>6. k = w BY <2>5
    <2> QED BY <2>6 DEF k, w
  <1> QED BY <1>6, <1>7 DEF res

-----------------------------------------------------------------------------
LEMMA CutLooks ==
  ASSUME NEW f \in Seq(Tok), NEW a \in Nat, NEW b \in Nat, a <= b, b <= Len(f), NEW look, ~Has(f, Looking(look))
  PROVE  LET t == Cut(f, a, b) IN t \in Seq(Tok) /\ FirstLooking(t, look) = Len(t) + 1
  <1> DEFINE t == Cut(f, a, b)  m == FirstLooking(t, look)
  <1>1. t \in Seq(Tok) /\ Len(t) = b - a /\ \A i \in 1 .. b - a : t[i] = f[a + i] BY CutIs
  <1> HIDE DEF t
  <1>2. m \in 1 .. Len(t) + 1 /\ (m <= Len(t) => t[m].looks = look) BY <1>1, FirstLookingIs
  <1> HIDE DEF m
  <1>3. CASE m <= Len(t)
    <2>1. m \in 1 .. b - a /\ a + m \in 1 .. Len(f) BY <1>1, <1>2, <1>3
    <2>2. f[a + m] \in Tok /\ f[a + m].looks = look /\ a + m \in DOMAIN f BY <1>1, <1>2, <1>3, <2>1
    <2> QED BY <2>2 DEF Has, Looking
  <1>4. CASE ~(m <= Len(t))
    <2>1. Len(t) \in Nat BY <1>1
    <2>2. m = Len(t) + 1 BY <1>2, <1>4, <2>1
    <2>3. t \in Seq(Tok) BY <1>1
    <2> QED BY <2>2, <2>3 DEF t, m
  <1> QED BY <1>3, <1>4

(* event e, number k, carries the request bytes i .. i1 and the response    *)
(* bytes j .. j1 of the connection, and does not start inside a request line*)
Piece(p, e, k, i, i1, j, j1) ==
  /\ e.seq = k /\ i \in Nat /\ i1 \in Nat /\ j \in Nat /\ j1 \in Nat
  /\ i <= i1 /\ j <= j1 /\ i1 <= Len(ReqStream(p)) /\ j1 <= Len(RespStream(p))
  /\ \/ e.type = "data" /\ e.cut = FALSE /\ e.dir = "read" /\ j1 = j /\ e.toks = Cut(ReqStream(p), i, i1)
        /\ (i < i1 => ReqStream(p)[i + 1].kind # "line")
     \/ e.type = "data" /\ e.cut = FALSE /\ e.dir = "write" /\ i1 = i /\ e.toks = Cut(RespStream(p), j, j1)
     \/ e.type = "close" /\ i1 = i /\ j1 = j /\ j = Len(RespStream(p))

(* A run of request bytes that starts at no line's rest has the method      *)
(* before each "HTTP/1.".                                                   *)
LEMMA LinesKnown ==
  ASSUME NEW f \in Seq(Tok), LinesFollow(f), NEW a \in Nat, NEW b \in Nat, a <= b, b <= Len(f),
         a < b => f[a + 1].kind # "line"
  PROVE  classifyPayload(Cut(f, a, b)) \in {"req", "none"}
  <1> DEFINE t == Cut(f, a, b)  r == FirstLooking(t, "req")  s == FirstLooking(t, "resp")
  <1>1. t \in Seq(Tok) /\ Len(t) = b - a /\ \A i \in 1 .. b - a : t[i] = f[a + i] BY CutIs
  <1> HIDE DEF t
  <1>2. /\ s \in 1 .. Len(t) + 1 /\ (s <= Len(t) => t[s].looks = "resp")
        /\ r \in 1 .. Len(t) + 1 /\ \A i \in 1 .. r - 1 : t[i].looks # "req"
    BY <1>1, FirstLookingIs
  <1> HIDE DEF r, s
  <1>3. s <= Len(t) => r < s
    <2> SUFFICES ASSUME s <= Len(t), ~(r < s) PROVE FALSE
      OBVIOUS
    <2>1. s \in 1 .. b - a /\ a + s \in 1 .. Len(f) BY <1>1, <1>2
    <2>2. f[a + s].looks = "resp" BY <1>1, <1>2, <2>1
    <2>3. f[a + s].kind = "line" /\ f[(a + s) - 1].looks = "req" BY <2>1, <2>2 DEF LinesFollow
    <2>4. s # 1
      <3> SUFFICES ASSUME s = 1 PROVE FALSE OBVIOUS
      <3>1. a < b /\ a + s = a + 1 BY <2>1
      <3> QED BY <2>3, <3>1
    <2>5. s - 1 \in 1 .. b - a /\ a + (s - 1) = (a + s) - 1 /\ s - 1 \in 1 .. r - 1 BY <1>1, <1>2, <2>1, <2>4
    <2>6. t[s - 1].looks = "req" BY <1>1, <2>3, <2>5
    <2> QED BY <1>2, <2>5, <2>6
  <1>4. s <= Len(t) => r <= Len(t) BY <1>1, <1>2, <1>3
  <1>5. classifyPayload(t) = IF r <= Len(t) /\ r < s THEN "req" ELSE IF s <= Len(t) THEN "resp" ELSE "none"
    BY DEF classifyPayload, r, s
  <1>6. classifyPayload(t) \in {"req", "none"} BY <1>3, <1>4, <1>5
  <1> QED BY <1>6 DEF t

LEMMA PieceRouted ==
  ASSUME NEW p, Tellable(p), NEW e, NEW k, NEW i, NEW i1, NEW j, NEW j1, Piece(p, e, k, i, i1, j, j1), e.type = "data"
  PROVE  RouteAsRequest(e) <=> e.dir = "read"
  <1>1. CASE e.dir = "read" /\ e.toks = Cut(ReqStream(p), i, i1) /\ (i < i1 => ReqStream(p)[i + 1].kind # "line")
    <2> DEFINE f == ReqStream(p)
    <2>1. p \in Seq(Exchange) BY DEF Tellable
    <2>2. f \in Seq(Tok) /\ LinesFollow(f) BY <2>1, ReqStreamIs
    <2>3. i \in Nat /\ i1 \in Nat /\ i <= i1 /\ i1 <= Len(f) BY DEF Piece
    <2> HIDE DEF f
    <2>4. classifyPayload(e.toks) \in {"req", "none"} BY <1>1, <2>2, <2>3, LinesKnown DEF f
    <2> QED BY <1>1, <2>4 DEF RouteAsRequest
  <1>2. CASE e.dir = "write" /\ e.toks = Cut(RespStream(p), j, j1)
    <2>1. e.toks \in Seq(Tok) /\ FirstLooking(e.toks, "req") = Len(e.toks) + 1
      BY <1>2, RespStreamIs, CutLooks DEF Piece
    <2>2. Len(e.toks) \in Nat BY <2>1
    <2>3. classifyPayload(e.toks) \in {"resp", "none"} BY <2>1, <2>2 DEF classifyPayload
    <2> QED BY <1>2, <2>3 DEF RouteAsRequest
  <1> QED BY <1>1, <1>2 DEF Piece

(* what a session holds of the connection, and the event it expects next *)
Held(p, st, k, i, j) ==
  ReqHeld(p, st, k, i) /\ PendHeld(st, k) /\ RespHeld(p, st, k, j) /\ Unmarked(st)

Expects(st, n) == st.hasSeq => st.seq + 1 = n

(* an event that comes next is added to what the session holds *)
LEMMA RoutedHeld ==
  ASSUME NEW p, Tellable(p), NEW e \in DataEvents, NEW n \in Nat, NEW i, NEW i1, NEW j, NEW j1, Piece(p, e, n, i, i1, j, j1),
         NEW st \in Session, NEW k, Held(p, st, k, i, j), Expects(st, n)
  PROVE  LET nx == Route(Touch(st, e), e) IN
         Held(p, nx, k, i1, j1) /\ Expects(nx, n + 1)
  <1> DEFINE t == Touch(st, e)  nx == Route(t, e)  f == ReqStream(p)  g == RespStream(p)
  <1>a. ReqHeld(p, st, k, i) /\ PendHeld(st, k) /\ RespHeld(p, st, k, j) /\ Unmarked(st) BY DEF Held
  <1>0. e.type = "data" /\ e.seq = n /\ e.cut = FALSE /\ st.seq \in Nat /\ st.gap = FALSE /\ st.truncated = FALSE
    BY <1>a DEF Piece, Unmarked, Session, DataEvents
  <1>1. f \in Seq(Tok) /\ g \in Seq(Tok) /\ i \in Nat /\ i1 \in Nat /\ j \in Nat /\ j1 \in Nat
        /\ i <= i1 /\ j <= j1 /\ i1 <= Len(f) /\ j1 <= Len(g)
    BY StartsAre DEF Piece
  <1>2. /\ t.req = st.req /\ t.resp = st.resp /\ t.pending = st.pending /\ t.hasSeq = TRUE /\ t.seq = n
        /\ t.gap = FALSE /\ t.truncated = FALSE
        /\ DOMAIN t = {"req", "resp", "pending", "hasSeq", "seq", "gap", "truncated", "stale"}
    <2>1. ~(st.hasSeq /\ e.seq > st.seq + 1) BY <1>0 DEF Expects
    <2>2. (st.gap \/ (st.hasSeq /\ e.seq > st.seq + 1)) = FALSE /\ (st.truncated \/ e.cut) = FALSE
      BY <1>0, <2>1
    <2>3. (IF ~st.hasSeq \/ e.seq >= st.seq THEN e.seq ELSE st.seq) = n BY <1>0 DEF Expects
    <2> QED BY <2>2, <2>3 DEF Touch, Session
  <1> HIDE DEF t, f, g
  <1>3. CASE e.dir = "read" /\ j1 = j /\ e.toks = Cut(f, i, i1)
    <2>1. nx = [t EXCEPT !.req = @ \o e.toks] BY <1>0, <1>3, PieceRouted DEF Route
    <2>2. /\ nx.req = st.req \o e.toks /\ nx.resp = st.resp /\ nx.pending = st.pending /\ nx.hasSeq = TRUE /\ nx.seq = n
          /\ nx.gap = FALSE /\ nx.truncated = FALSE
      BY <1>2, <2>1
    <2> HIDE DEF nx
    <2>3. PICK y \in 1 .. Len(p) + 1 :
            ReqAt(p)[y] <= i /\ st.req = Cut(f, ReqAt(p)[y], i) /\ k + Len(st.pending) = y - 1
      BY <1>a DEF ReqHeld, f
    <2>4. ReqAt(p)[y] \in Nat /\ ReqAt(p)[y] <= i1
      <3>1. ReqAt(p)[y] \in Nat BY StartsAre
      <3> QED BY <1>1, <2>3, <3>1
    <2> DEFINE a == ReqAt(p)[y]
    <2>5. nx.req = Cut(f, ReqAt(p)[y], i1)
      <3>1. f \in Seq(Tok) /\ a \in Nat /\ i \in Nat /\ i1 \in Nat /\ a <= i /\ i <= i1 /\ i1 <= Len(f)
        BY <1>1, <2>3, <2>4
      <3> HIDE DEF a
      <3>2. Cut(f, a, i) \o Cut(f, i, i1) = Cut(f, a, i1) BY <3>1, CutJoin
      <3> QED BY <1>3, <2>2, <2>3, <3>2 DEF a
    <2>6. ReqHeld(p, nx, k, i1) BY <2>2, <2>3, <2>4, <2>5 DEF ReqHeld, f
    <2>7. PendHeld(nx, k) BY <1>a, <2>2 DEF PendHeld
    <2>8. RespHeld(p, nx, k, j1) BY <1>a, <1>3, <2>2 DEF RespHeld
    <2>9. Unmarked(nx) BY <2>2 DEF Unmarked
    <2> QED BY <2>2, <2>6, <2>7, <2>8, <2>9 DEF nx, t, Held, Expects
  <1>4. CASE e.dir = "write" /\ i1 = i /\ e.toks = Cut(g, j, j1)
    <2>1. nx = [t EXCEPT !.resp = @ \o e.toks] BY <1>0, <1>4, PieceRouted DEF Route
    <2>2. /\ nx.resp = st.resp \o e.toks /\ nx.req = st.req /\ nx.pending = st.pending /\ nx.hasSeq = TRUE /\ nx.seq = n
          /\ nx.gap = FALSE /\ nx.truncated = FALSE
      BY <1>2, <2>1
    <2> HIDE DEF nx
    <2>3. PICK b \in Nat : b <= j /\ st.resp = Cut(g, b, j) /\ Boundary(p, b, k)
      BY <1>a DEF RespHeld, g
    <2>4. b <= j1 /\ nx.resp = Cut(g, b, j1)
      <3>1. b <= j1 BY <1>1, <2>3
      <3> QED
        <4>1. Cut(g, b, j) \o Cut(g, j, j1) = Cut(g, b, j1) BY <1>1, <2>3, CutJoin
        <4> QED BY <1>4, <2>2, <2>3, <3>1, <4>1
    <2>5. RespHeld(p, nx, k, j1) BY <2>3, <2>4 DEF RespHeld, g
    <2>6. PendHeld(nx, k) BY <1>a, <2>2 DEF PendHeld
    <2>7. ReqHeld(p, nx, k, i1) BY <1>a, <1>4, <2>2 DEF ReqHeld
    <2>8. Unmarked(nx) BY <2>2 DEF Unmarked
    <2> QED BY <2>2, <2>5, <2>6, <2>7, <2>8 DEF nx, t, Held, Expects
  <1> QED BY <1>0, <1>3, <1>4 DEF Piece, f, g

-----------------------------------------------------------------------------
(* Events on the way to the worker *)

(* The events of w, numbered from num on, carry the request bytes i .. i1   *)
(* and the response bytes j .. j1 of the connection, one after the other.   *)
Marks(p, w, num, P, Q) ==
  /\ P \in [0 .. Len(w) -> Nat] /\ Q \in [0 .. Len(w) -> Nat]
  /\ \A m \in 1 .. Len(w) : Piece(p, w[m], num + m - 1, P[m - 1], P[m], Q[m - 1], Q[m])

Span(p, w, num, i, i1, j, j1) ==
  \E P, Q : Marks(p, w, num, P, Q) /\ P[0] = i /\ P[Len(w)] = i1 /\ Q[0] = j /\ Q[Len(w)] = j1

LEMMA SpanNone ==
  ASSUME NEW p, NEW num, NEW i \in Nat, NEW j \in Nat
  PROVE  /\ Span(p, <<>>, num, i, i, j, j)
         /\ \A i1, j1 : Span(p, <<>>, num, i, i1, j, j1) => i1 = i /\ j1 = j
  <1>1. Len(<<>>) = 0 OBVIOUS
  <1>2. Span(p, <<>>, num, i, i, j, j)
    <2> DEFINE P == [m \in 0 .. 0 |-> i]  Q == [m \in 0 .. 0 |-> j]
    <2>1. P \in [0 .. 0 -> Nat] /\ Q \in [0 .. 0 -> Nat] /\ P[0] = i /\ Q[0] = j OBVIOUS
    <2> HIDE DEF P, Q
    <2>2. Marks(p, <<>>, num, P, Q) BY <1>1, <2>1 DEF Marks
    <2> QED BY <1>1, <2>1, <2>2 DEF Span
  <1>3. \A i1, j1 : Span(p, <<>>, num, i, i1, j, j1) => i1 = i /\ j1 = j BY <1>1 DEF Span
  <1> QED BY <1>2, <1>3

(* the first of the events *)
LEMMA SpanTail ==
  ASSUME NEW p, NEW w \in Seq(Event), w # <<>>, NEW num \in Nat, NEW i, NEW i1, NEW j, NEW j1,
         Span(p, w, num, i, i1, j, j1)
  PROVE  \E a, b : Piece(p, Head(w), num, i, a, j, b) /\ Span(p, Tail(w), num + 1, a, i1, b, j1)
  <1>1. PICK P, Q : Marks(p, w, num, P, Q) /\ P[0] = i /\ P[Len(w)] = i1 /\ Q[0] = j /\ Q[Len(w)] = j1
    BY DEF Span
  <1> DEFINE t == Tail(w)  n == Len(w)
             P1 == [m \in 0 .. n - 1 |-> P[m + 1]]  Q1 == [m \in 0 .. n - 1 |-> Q[m + 1]]
  <1>2. n \in Nat /\ n >= 1 /\ Head(w) = w[1] /\ Len(t) = n - 1 /\ n - 1 \in Nat /\ \A m \in 1 .. n - 1 : t[m] = w[m + 1]
    OBVIOUS
  <1>3. P \in [0 .. n -> Nat] /\ Q \in [0 .. n -> Nat]
        /\ \A m \in 1 .. n : Piece(p, w[m], num + m - 1, P[m - 1], P[m], Q[m - 1], Q[m])
    BY <1>1 DEF Marks
  <1> HIDE DEF t, n
  <1>4. /\ P1 \in [0 .. n - 1 -> Nat] /\ Q1 \in [0 .. n - 1 -> Nat]
        /\ \A m \in 0 .. n - 1 : P1[m] = P[m + 1] /\ Q1[m] = Q[m + 1]
    <2>1. \A m \in 0 .. n - 1 : m + 1 \in 0 .. n BY <1>2
    <2>2. \A m \in 0 .. n - 1 : P[m + 1] \in Nat /\ Q[m + 1] \in Nat BY <1>3, <2>1
    <2> QED BY <2>2
  <1> HIDE DEF P1, Q1
  <1>5. Piece(p, Head(w), num, i, P[1], j, Q[1])
    <2>1. 1 \in 1 .. n /\ num + 1 - 1 = num /\ 1 - 1 = 0 BY <1>2
    <2> QED BY <1>1, <1>2, <1>3, <2>1
  <1>6. ASSUME NEW m \in 1 .. n - 1 PROVE Piece(p, t[m], (num + 1) + m - 1, P1[m - 1], P1[m], Q1[m - 1], Q1[m])
    <2>1. m + 1 \in 1 .. n /\ (num + 1) + m - 1 = num + (m + 1) - 1 /\ (m + 1) - 1 = m
          /\ m - 1 \in 0 .. n - 1 /\ m \in 0 .. n - 1 /\ (m - 1) + 1 = m
      BY <1>2
    <2>2. Piece(p, w[m + 1], num + (m + 1) - 1, P[m], P[m + 1], Q[m], Q[m + 1]) BY <1>3, <2>1
    <2> QED BY <1>2, <1>4, <2>1, <2>2
  <1>7. Marks(p, t, num + 1, P1, Q1) BY <1>2, <1>4, <1>6 DEF Marks
  <1>8. P1[0] = P[1] /\ Q1[0] = Q[1] /\ P1[Len(t)] = i1 /\ Q1[Len(t)] = j1
    <2>1. 0 \in 0 .. n - 1 /\ n - 1 \in 0 .. n - 1 /\ 0 + 1 = 1 /\ (n - 1) + 1 = n BY <1>2
    <2> QED BY <1>1, <1>2, <1>4, <2>1 DEF n
  <1>9. Span(p, t, num + 1, P[1], i1, Q[1], j1) BY <1>7, <1>8 DEF Span
  <1> QED BY <1>5, <1>9 DEF t

(* one more event *)
LEMMA SpanAppend ==
  ASSUME NEW p, NEW w \in Seq(Event), NEW e \in Event, NEW num \in Nat, NEW i, NEW i1, NEW j, NEW j1, NEW a, NEW b,
         Span(p, w, num, i, i1, j, j1), Piece(p, e, num + Len(w), i1, a, j1, b)
  PROVE  Span(p, Append(w, e), num, i, a, j, b)
  <1>1. PICK P, Q : Marks(p, w, num, P, Q) /\ P[0] = i /\ P[Len(w)] = i1 /\ Q[0] = j /\ Q[Len(w)] = j1
    BY DEF Span
  <1> DEFINE t == Append(w, e)  n == Len(w)
             P1 == [m \in 0 .. n + 1 |-> IF m = n + 1 THEN a ELSE P[m]]
             Q1 == [m \in 0 .. n + 1 |-> IF m = n + 1 THEN b ELSE Q[m]]
  <1>2. n \in Nat /\ Len(t) = n + 1 /\ t[n + 1] = e /\ \A m \in 1 .. n : t[m] = w[m] OBVIOUS
  <1>3. P \in [0 .. n -> Nat] /\ Q \in [0 .. n -> Nat] /\ a \in Nat /\ b \in Nat
        /\ \A m \in 1 .. n : Piece(p, w[m], num + m - 1, P[m - 1], P[m], Q[m - 1], Q[m])
    BY <1>1 DEF Marks, Piece
  <1> HIDE DEF t
  <1>4. Piece(p, e, num + n, i1, a, j1, b) /\ P[n] = i1 /\ Q[n] = j1 BY <1>1
  <1> HIDE DEF n
  <1>5. /\ P1 \in [0 .. n + 1 -> Nat] /\ Q1 \in [0 .. n + 1 -> Nat] /\ P1[n + 1] = a /\ Q1[n + 1] = b
        /\ \A m \in 0 .. n : P1[m] = P[m] /\ Q1[m] = Q[m]
    BY <1>2, <1>3
  <1> HIDE DEF P1, Q1
  <1>6. ASSUME NEW m \in 1 .. n + 1 PROVE Piece(p, t[m], num + m - 1, P1[m - 1], P1[m], Q1[m - 1], Q1[m])
    <2>1. CASE m = n + 1
      <3>1. num + m - 1 = num + n /\ m - 1 = n /\ n \in 0 .. n BY <1>2, <2>1
      <3> QED BY <1>2, <1>4, <1>5, <2>1, <3>1
    <2>2. CASE m # n + 1
      <3>1. m \in 1 .. n /\ m \in 0 .. n /\ m - 1 \in 0 .. n BY <1>2, <2>2
      <3> QED BY <1>2, <1>3, <1>5, <3>1
    <2> QED BY <2>1, <2>2
  <1>7. Marks(p, t, num, P1, Q1) BY <1>2, <1>5, <1>6 DEF Marks
  <1>8. P1[0] = i /\ Q1[0] = j
    <2>1. 0 \in 0 .. n BY <1>2
    <2> QED BY <1>1, <1>5, <2>1
  <1>9. Span(p, t, num, i, a, j, b) BY <1>2, <1>5, <1>7, <1>8 DEF Span
  <1> QED BY <1>9 DEF t

LEMMA NewHeld ==
  ASSUME NEW p, Tellable(p)
  PROVE  Held(p, NewSession, 0, 0, 0)
  <1>1. NewSession.req = <<>> /\ NewSession.resp = <<>> /\ NewSession.pending = <<>> /\ Unmarked(NewSession)
    BY DEF NewSession, Unmarked
  <1>2. /\ Len(p) \in Nat /\ ReqStream(p) \in Seq(Tok) /\ RespStream(p) \in Seq(Tok)
        /\ ReqAt(p)[1] = 0 /\ RespAt(p)[1] = 0
    BY StartsAre
  <1>3. Cut(ReqStream(p), 0, 0) = <<>> /\ Cut(RespStream(p), 0, 0) = <<>>
    <2>1. 0 <= Len(ReqStream(p)) /\ 0 <= Len(RespStream(p)) /\ 0 \in Nat BY <1>2
    <2> QED BY <1>2, <2>1, CutNone
  <1>4. 1 \in 1 .. Len(p) + 1 /\ 0 + Len(<<>>) = 1 - 1 /\ 1 - 1 <= 0 /\ 0 = 1 - 1 /\ 0 <= 0 /\ DOMAIN <<>> = {} /\ 0 \in Nat
    BY <1>2
  <1>5. ReqHeld(p, NewSession, 0, 0) BY <1>1, <1>2, <1>3, <1>4 DEF ReqHeld
  <1>6. Boundary(p, 0, 0) BY <1>2, <1>4 DEF Boundary
  <1>7. RespHeld(p, NewSession, 0, 0) BY <1>1, <1>3, <1>4, <1>6 DEF RespHeld
  <1>8. PendHeld(NewSession, 0) BY <1>1, <1>4 DEF PendHeld
  <1> QED BY <1>1, <1>5, <1>7, <1>8 DEF Held

-----------------------------------------------------------------------------
(* The connections for which the pairing is exact: the worker runs beside   *)
(* the server, and the messages can be told apart.                          *)
Regular == role = "server" /\ Tellable(profile)

(* The worker has polled the events before number num, which carried the    *)
(* requests up to i and the responses up to j; the capture is at i1 and j1. *)
Carrying(num, i, i1, j, j1) ==
  /\ num \in Nat /\ i \in Nat /\ i1 \in Nat /\ j \in Nat /\ j1 \in Nat
  /\ i1 <= Len(ReqStream(profile)) /\ j1 <= Len(RespStream(profile))
  /\ num + Len(wire) = nextSeq /\ Span(profile, wire, num, i, i1, j, j1)
  /\ left.req = Cut(ReqStream(profile), i1, Len(ReqStream(profile)))
  /\ left.resp = Cut(RespStream(profile), j1, Len(RespStream(profile)))
  /\ closed => j1 = Len(RespStream(profile))
  /\ \A m \in 1 .. Len(wire) : wire[m].type = "close" <=> (closed /\ m = Len(wire))

(* the one session between two events *)
Polling(num, i, j) ==
  /\ consumer = Poll /\ current = fresh /\ fresh \in {0, 1}
  /\ fresh = 0 => i = 0 /\ j = 0 /\ heap[1].hasSeq = FALSE /\ emitted = <<>>
  /\ fresh = 1 => ~(closed /\ wire = <<>>)
  /\ Held(profile, heap[1], Len(emitted), i, j) /\ Expects(heap[1], num)

(* an event was polled and not processed *)
Processing(num, i, j) ==
  /\ consumer.pc = "process" /\ consumer.sid = 1 /\ current = 1 /\ fresh = 1 /\ ~(closed /\ wire = <<>>)
  /\ \E n, a, b : /\ n \in Nat /\ n + 1 = num /\ a \in Nat /\ b \in Nat
                  /\ Piece(profile, consumer.ev, n, a, i, b, j)
                  /\ Held(profile, heap[1], Len(emitted), a, b) /\ Expects(heap[1], n)

(* the close was polled *)
Closing(i, j) ==
  /\ consumer.pc = "close" /\ consumer.sid = 1 /\ current = 1 /\ fresh = 1 /\ closed /\ wire = <<>>
  /\ Held(profile, heap[1], Len(emitted), i, j)

(* the close was handled *)
Handled ==
  /\ consumer.pc = "remove" \/ (consumer = Poll /\ current = 0)
  /\ fresh = 1 /\ closed /\ wire = <<>> /\ (left.req = <<>> => Len(emitted) = Len(profile))

Paired == \A i \in DOMAIN emitted : PairOK(profile, emitted[i], i)

At(num, i, j) == Polling(num, i, j) \/ Processing(num, i, j) \/ Closing(i, j) \/ Handled

Track ==
  /\ expired = {} /\ Paired
  /\ \E num, i, i1, j, j1 : Carrying(num, i, i1, j, j1) /\ At(num, i, j)

PInv == faults = {} /\ Regular => Track

LEMMA PInvInit == Init => PInv
  <1> SUFFICES ASSUME Init, Regular PROVE Track BY DEF PInv
  <1> USE DEF Init
  <1>1. Tellable(profile) BY DEF Regular
  <1>2. ReqStream(profile) \in Seq(Tok) /\ RespStream(profile) \in Seq(Tok) BY <1>1, StartsAre
  <1>3. left.req = ReqStream(profile) /\ left.resp = RespStream(profile)
    BY DEF ReqStream, RespStream, RequestsOf, ResponsesOf
  <1>4. left.req = Cut(ReqStream(profile), 0, Len(ReqStream(profile)))
        /\ left.resp = Cut(RespStream(profile), 0, Len(RespStream(profile)))
    BY <1>2, <1>3, CutAll
  <1>5. Span(profile, wire, 0, 0, 0, 0, 0) BY SpanNone
  <1>6. Len(wire) = 0 /\ Len(emitted) = 0 /\ DOMAIN emitted = {} /\ 1 .. Len(wire) = {} /\ 0 + Len(wire) = nextSeq
        /\ 0 <= Len(ReqStream(profile)) /\ 0 <= Len(RespStream(profile))
    BY <1>2
  <1>7. Carrying(0, 0, 0, 0, 0) BY <1>4, <1>5, <1>6 DEF Carrying
  <1>8. heap[1] = NewSession BY LimitsAssumption
  <1>9. heap[1].hasSeq = FALSE BY <1>8 DEF NewSession
  <1>10. Polling(0, 0, 0) BY <1>1, <1>6, <1>8, <1>9, NewHeld DEF Polling, Expects
  <1>11. Paired BY <1>6 DEF Paired
  <1> QED BY <1>7, <1>10, <1>11 DEF Track, At

(* What a step that only puts an event on the wire has to show. *)
LEMMA EventTracks ==
  ASSUME SInv, Track, Regular, ~closed,
         UNCHANGED <<profile, role, heap, fresh, current, consumer, expired, emitted>>,
         NEW e \in Event, e.seq = nextSeq, wire' = Append(wire, e), nextSeq' = nextSeq + 1,
         e.type = "close" <=> closed',
         \A i1 \in Nat, j1 \in Nat :
           (/\ i1 <= Len(ReqStream(profile)) /\ j1 <= Len(RespStream(profile))
            /\ left.req = Cut(ReqStream(profile), i1, Len(ReqStream(profile)))
            /\ left.resp = Cut(RespStream(profile), j1, Len(RespStream(profile))))
           => \E a, b : /\ Piece(profile, e, nextSeq, i1, a, j1, b)
                        /\ left'.req = Cut(ReqStream(profile), a, Len(ReqStream(profile)))
                        /\ left'.resp = Cut(RespStream(profile), b, Len(RespStream(profile)))
                        /\ closed' => b = Len(RespStream(profile))
  PROVE  Track'
  <1>1. PICK num, i, i1, j, j1 : Carrying(num, i, i1, j, j1) /\ At(num, i, j) BY DEF Track
  <1>2. /\ num \in Nat /\ i \in Nat /\ i1 \in Nat /\ j \in Nat /\ j1 \in Nat
        /\ i1 <= Len(ReqStream(profile)) /\ j1 <= Len(RespStream(profile))
        /\ num + Len(wire) = nextSeq /\ Span(profile, wire, num, i, i1, j, j1)
        /\ left.req = Cut(ReqStream(profile), i1, Len(ReqStream(profile)))
        /\ left.resp = Cut(RespStream(profile), j1, Len(RespStream(profile)))
        /\ \A m \in 1 .. Len(wire) : wire[m].type = "close" <=> (closed /\ m = Len(wire))
    BY <1>1 DEF Carrying
  <1>3. PICK a, b : /\ Piece(profile, e, nextSeq, i1, a, j1, b)
                    /\ left'.req = Cut(ReqStream(profile), a, Len(ReqStream(profile)))
                    /\ left'.resp = Cut(RespStream(profile), b, Len(RespStream(profile)))
                    /\ closed' => b = Len(RespStream(profile))
    BY <1>2
  <1>4. wire \in Seq(Event) BY DEF SInv, Types, CaptureTypes
  <1>5. Span(profile, wire', num, i, a, j, b)
    <2>1. Piece(profile, e, num + Len(wire), i1, a, j1, b) BY <1>2, <1>3
    <2>2. Span(profile, Append(wire, e), num, i, a, j, b) BY <1>2, <1>4, <2>1, SpanAppend
    <2> QED BY <2>2
  <1>6. Len(wire') = Len(wire) + 1 /\ wire'[Len(wire) + 1] = e /\ (\A m \in 1 .. Len(wire) : wire'[m] = wire[m])
        /\ Len(wire) \in Nat /\ wire' # <<>>
    BY <1>4
  <1>7. a \in Nat /\ b \in Nat /\ i1 <= a /\ j1 <= b /\ a <= Len(ReqStream(profile)) /\ b <= Len(RespStream(profile))
    BY <1>3 DEF Piece
  <1>9. num + Len(wire') = nextSeq' BY <1>2, <1>6
  <1>10. ASSUME NEW m \in 1 .. Len(wire') PROVE wire'[m].type = "close" <=> (closed' /\ m = Len(wire'))
    <2>1. CASE m = Len(wire) + 1 BY <1>6, <2>1
    <2>2. CASE m # Len(wire) + 1
      <3>1. m \in 1 .. Len(wire) /\ m # Len(wire') BY <1>6, <2>2
      <3> QED BY <1>2, <1>6, <3>1
    <2> QED BY <2>1, <2>2
  <1>11. Carrying(num, i, a, j, b)' BY <1>2, <1>3, <1>5, <1>7, <1>9, <1>10 DEF Carrying
  <1>12. At(num, i, j)'
    <2>1. CASE Polling(num, i, j)
      <3>1. Polling(num, i, j)' BY <1>6, <2>1 DEF Polling
      <3> QED BY <3>1 DEF At
    <2>2. CASE Processing(num, i, j)
      <3>1. Processing(num, i, j)' BY <1>6, <2>2 DEF Processing
      <3> QED BY <3>1 DEF At
    <2> QED BY <1>1, <2>1, <2>2 DEF At, Closing, Handled
  <1> QED BY <1>11, <1>12 DEF Track, Paired

(* the first n bytes of what is left of a stream *)
LEMMA CutFirst ==
  ASSUME NEW S, NEW f \in Seq(S), NEW a \in Nat, a <= Len(f), NEW n \in Nat, NEW l, l = Cut(f, a, Len(f)), n <= Len(l)
  PROVE  /\ a + n \in Nat /\ a + n <= Len(f) /\ a <= a + n
         /\ SubSeq(l, 1, n) = Cut(f, a, a + n) /\ SubSeq(l, n + 1, Len(l)) = Cut(f, a + n, Len(f))
  <1> DEFINE u == Len(f)
  <1>1. u \in Nat /\ Len(l) = u - a /\ u - a \in Nat
    <2>1. u \in Nat OBVIOUS
    <2>2. u <= Len(f) /\ l = Cut(f, a, u) /\ a <= u BY <2>1
    <2> HIDE DEF u
    <2>3. Len(Cut(f, a, u)) = u - a BY <2>1, <2>2, CutIs
    <2>4. Len(l) = u - a BY <2>2, <2>3
    <2> QED BY <2>1, <2>2, <2>4
  <1>2. a + n \in Nat /\ a + n <= u /\ a <= a + n /\ n <= u - a /\ a + (u - a) = u /\ a + 0 = a
    BY <1>1
  <1>3. SubSeq(l, 1, n) = Cut(l, 0, n) /\ SubSeq(l, n + 1, Len(l)) = Cut(l, n, u - a)
    BY <1>1 DEF Cut
  <1> HIDE DEF u
  <1>4. u <= Len(f) /\ a <= u /\ 0 \in Nat /\ 0 <= n /\ u - a <= u - a BY <1>1, <1>2 DEF u
  <1>5. Cut(Cut(f, a, u), 0, n) = Cut(f, a + 0, a + n) BY <1>1, <1>2, <1>4, CutOfCut
  <1>6. Cut(Cut(f, a, u), n, u - a) = Cut(f, a + n, a + (u - a))
    <2> DEFINE d == u - a
    <2>1. d \in Nat /\ n <= d /\ d <= u - a BY <1>1, <1>2
    <2> HIDE DEF d
    <2>2. Cut(Cut(f, a, u), n, d) = Cut(f, a + n, a + d) BY <1>1, <1>4, <2>1, CutOfCut
    <2> QED BY <2>2 DEF d
  <1> QED BY <1>2, <1>3, <1>5, <1>6 DEF u

(* the first byte that is left *)
LEMMA FirstLeft ==
  ASSUME NEW f \in Seq(Tok), NEW a \in Nat, a <= Len(f), NEW l, l = Cut(f, a, Len(f)), NEW n \in Nat \ {0}, n <= Len(l)
  PROVE  l[1] = f[a + 1]
  <1> DEFINE u == Len(f)
  <1>1. u \in Nat /\ a <= u /\ u <= Len(f) /\ l = Cut(f, a, u) OBVIOUS
  <1> HIDE DEF u
  <1>2. Len(l) = u - a /\ \A i \in 1 .. u - a : l[i] = f[a + i] BY <1>1, CutIs
  <1>3. 1 \in 1 .. u - a BY <1>1, <1>2
  <1> QED BY <1>2, <1>3

LEMMA NoHeadSplit ==
  ASSUME NEW side, NEW n, Capture(side, n), "head" \notin faults'
  PROVE  left[side][1].kind # "line"
  <1>1. SplitHead(side) \subseteq faults' BY DEF Capture
  <1> QED BY <1>1 DEF SplitHead

LEMMA CaptureTracks ==
  ASSUME SInv, Track, Regular, NEW side \in {"req", "resp"}, NEW n \in 1 .. MaxChunk, Capture(side, n), faults' = {}
  PROVE  Track'
  <1> DEFINE e == DataEvent(side, SubSeq(left[side], 1, n), FALSE)  p == profile  f == ReqStream(p)  g == RespStream(p)
  <1>1. /\ ~closed /\ closed' = closed /\ n <= Len(left[side]) /\ nextSeq' = nextSeq + 1
        /\ left' = [left EXCEPT ![side] = SubSeq(@, n + 1, Len(@))]
        /\ wire' = Append(wire, e)
        /\ UNCHANGED <<profile, role, heap, fresh, current, consumer, expired, emitted>>
    BY DEF Capture, MayCarry
  <1>2. left \in [req : Seq(Tok), resp : Seq(Tok)] /\ nextSeq \in Nat /\ n \in Nat /\ left[side] \in Seq(Tok)
    BY LimitsAssumption DEF SInv, Types, CaptureTypes
  <1>3. e = [type |-> "data", seq |-> nextSeq, dir |-> IF side = "req" THEN "read" ELSE "write",
             toks |-> SubSeq(left[side], 1, n), cut |-> FALSE]
    BY DEF DataEvent, Direction, Regular
  <1>4. f \in Seq(Tok) /\ g \in Seq(Tok) BY StartsAre DEF Regular
  <1> HIDE DEF f, g, e
  <1>5. SubSeq(left[side], 1, n) \in Seq(Tok)
    <2> DEFINE l == left[side]
    <2>1. l \in Seq(Tok) /\ n \in Nat /\ n <= Len(l) BY <1>1, <1>2
    <2> HIDE DEF l
    <2>2. SubSeq(l, 1, n) \in Seq(Tok) BY <2>1
    <2> QED BY <2>2 DEF l
  <1>6. e.type = "data" /\ e.seq = nextSeq /\ e.cut = FALSE /\ e.toks = SubSeq(left[side], 1, n)
        /\ e.dir = IF side = "req" THEN "read" ELSE "write"
    BY <1>3
  <1>7. e \in Event BY <1>2, <1>3, <1>5 DEF Event, DataEvents
  <1>8. ASSUME NEW i1 \in Nat, NEW j1 \in Nat, i1 <= Len(f), j1 <= Len(g),
               left.req = Cut(f, i1, Len(f)), left.resp = Cut(g, j1, Len(g))
        PROVE  \E a, b : /\ Piece(p, e, nextSeq, i1, a, j1, b)
                         /\ left'.req = Cut(f, a, Len(f)) /\ left'.resp = Cut(g, b, Len(g))
    <2>0. i1 <= i1 /\ j1 <= j1 OBVIOUS
    <2>1. CASE side = "req"
      <3>1. left'.req = SubSeq(left.req, n + 1, Len(left.req)) /\ left'.resp = left.resp /\ n <= Len(left.req)
        BY <1>1, <1>2, <2>1
      <3> DEFINE a == i1 + n  l == left.req
      <3>2. l = Cut(f, i1, Len(f)) /\ n <= Len(l) BY <1>8, <3>1
      <3> HIDE DEF l
      <3>3. a \in Nat /\ a <= Len(f) /\ i1 <= a /\ SubSeq(l, 1, n) = Cut(f, i1, a) /\ SubSeq(l, n + 1, Len(l)) = Cut(f, a, Len(f))
        <4>1. f \in Seq(Tok) /\ i1 \in Nat /\ i1 <= Len(f) /\ n \in Nat BY <1>2, <1>4, <1>8
        <4> QED BY <3>2, <4>1, CutFirst
      <3> HIDE DEF a
      <3>4. e.dir = "read" /\ e.toks = Cut(f, i1, a) BY <1>6, <2>1, <3>3 DEF l
      <3>6. f[i1 + 1].kind # "line"
        <4>1. f \in Seq(Tok) /\ i1 \in Nat /\ i1 <= Len(f) /\ n \in Nat \ {0} BY <1>2, <1>4, <1>8
        <4>2. l[1] = f[i1 + 1] BY <3>2, <4>1, FirstLeft
        <4>3. l[1].kind # "line" BY <2>1, NoHeadSplit DEF l
        <4> QED BY <4>2, <4>3
      <3>5. Piece(p, e, nextSeq, i1, a, j1, j1) BY <1>6, <1>8, <2>0, <3>3, <3>4, <3>6 DEF Piece, f, g
      <3> QED BY <1>8, <3>1, <3>3, <3>5 DEF l
    <2>2. CASE side = "resp"
      <3>1. left'.resp = SubSeq(left.resp, n + 1, Len(left.resp)) /\ left'.req = left.req /\ n <= Len(left.resp)
        BY <1>1, <1>2, <2>2
      <3> DEFINE b == j1 + n  l == left.resp
      <3>2. l = Cut(g, j1, Len(g)) /\ n <= Len(l) BY <1>8, <3>1
      <3> HIDE DEF l
      <3>3. b \in Nat /\ b <= Len(g) /\ j1 <= b /\ SubSeq(l, 1, n) = Cut(g, j1, b) /\ SubSeq(l, n + 1, Len(l)) = Cut(g, b, Len(g))
        <4>1. g \in Seq(Tok) /\ j1 \in Nat /\ j1 <= Len(g) /\ n \in Nat BY <1>2, <1>4, <1>8
        <4> QED BY <3>2, <4>1, CutFirst
      <3> HIDE DEF b
      <3>4. e.dir = "write" /\ e.toks = Cut(g, j1, b) BY <1>6, <2>2, <3>3 DEF l
      <3>5. Piece(p, e, nextSeq, i1, i1, j1, b) BY <1>6, <1>8, <2>0, <3>3, <3>4 DEF Piece, f, g
      <3> QED BY <1>8, <3>1, <3>3, <3>5 DEF l
    <2> QED BY <2>1, <2>2
  <1>9. ~closed' BY <1>1
  <1> QED BY <1>1, <1>6, <1>7, <1>8, <1>9, EventTracks DEF f, g

LEMMA CaptureCloseTracks ==
  ASSUME SInv, Track, Regular, CaptureClose
  PROVE  Track'
  <1> DEFINE e == [type |-> "close", seq |-> nextSeq]  p == profile  f == ReqStream(p)  g == RespStream(p)
  <1>1. /\ ~closed /\ closed' = TRUE /\ left' = left /\ left.resp = <<>> /\ nextSeq' = nextSeq + 1 /\ wire' = Append(wire, e)
        /\ UNCHANGED <<profile, role, heap, fresh, current, consumer, expired, emitted>>
    BY DEF CaptureClose
  <1>2. e \in Event /\ e.type = "close" /\ e.seq = nextSeq
    BY DEF SInv, Types, CaptureTypes, Event, CloseEvents
  <1>3. f \in Seq(Tok) /\ g \in Seq(Tok) /\ Len(g) \in Nat BY StartsAre DEF Regular
  <1> HIDE DEF f, g, e
  <1>4. ASSUME NEW i1 \in Nat, NEW j1 \in Nat, i1 <= Len(f), j1 <= Len(g),
               left.req = Cut(f, i1, Len(f)), left.resp = Cut(g, j1, Len(g))
        PROVE  /\ Piece(p, e, nextSeq, i1, i1, j1, j1)
               /\ left'.req = Cut(f, i1, Len(f)) /\ left'.resp = Cut(g, j1, Len(g)) /\ j1 = Len(g)
    <2>1. j1 = Len(g)
      <3> DEFINE u == Len(g)
      <3>1. u \in Nat /\ j1 <= u /\ u <= Len(g) /\ Cut(g, j1, u) = <<>> BY <1>1, <1>3, <1>4
      <3> HIDE DEF u
      <3>2. j1 = u BY <1>3, <3>1, CutEmpty
      <3> QED BY <3>2 DEF u
    <2>2. i1 <= i1 /\ j1 <= j1 OBVIOUS
    <2>3. Piece(p, e, nextSeq, i1, i1, j1, j1) BY <1>2, <1>4, <2>1, <2>2 DEF Piece, f, g
    <2> QED BY <1>1, <1>4, <2>1, <2>3
  <1>5. closed' BY <1>1
  <1> QED BY <1>1, <1>2, <1>4, <1>5, EventTracks DEF f, g

LEMMA ReceiveTracks ==
  ASSUME SInv, Track, Regular, Receive(FALSE)
  PROVE  Track'
  <1> DEFINE e == Head(wire)
  <1>1. /\ consumer.pc = "poll" /\ wire # <<>> /\ wire' = Tail(wire)
        /\ (e.type = "data" /\ getOrCreate(e)) \/ (e.type = "close" /\ Lookup(e))
        /\ UNCHANGED <<profile, role, left, closed, nextSeq, heap, expired, emitted>>
    BY DEF Receive, captureVars
  <1>2. PICK num, i, i1, j, j1 : Carrying(num, i, i1, j, j1) /\ At(num, i, j) BY DEF Track
  <1>3. /\ num \in Nat /\ i \in Nat /\ i1 \in Nat /\ j \in Nat /\ j1 \in Nat
        /\ i1 <= Len(ReqStream(profile)) /\ j1 <= Len(RespStream(profile))
        /\ num + Len(wire) = nextSeq /\ Span(profile, wire, num, i, i1, j, j1)
        /\ left.req = Cut(ReqStream(profile), i1, Len(ReqStream(profile)))
        /\ left.resp = Cut(RespStream(profile), j1, Len(RespStream(profile)))
        /\ closed => j1 = Len(RespStream(profile))
        /\ \A m \in 1 .. Len(wire) : wire[m].type = "close" <=> (closed /\ m = Len(wire))
    BY <1>2 DEF Carrying
  <1>4. wire \in Seq(Event) BY DEF SInv, Types, CaptureTypes
  <1>5. PICK a, b : Piece(profile, e, num, i, a, j, b) /\ Span(profile, Tail(wire), num + 1, a, i1, b, j1)
    BY <1>1, <1>3, <1>4, SpanTail
  <1>6. /\ Len(wire) \in Nat /\ Len(wire) >= 1 /\ e = wire[1] /\ Len(wire') = Len(wire) - 1
        /\ \A m \in 1 .. Len(wire) - 1 : wire'[m] = wire[m + 1]
        /\ (wire' = <<>>) <=> Len(wire) = 1
    <2>1. Len(wire) \in Nat /\ Len(wire) >= 1 /\ e = wire[1] BY <1>1, <1>4
    <2>2. wire' \in Seq(Event) /\ Len(wire') = Len(wire) - 1 /\ \A m \in 1 .. Len(wire) - 1 : wire'[m] = wire[m + 1]
      BY <1>1, <1>4
    <2>3. (wire' = <<>>) <=> Len(wire') = 0 BY <2>2
    <2>4. Len(wire') = 0 <=> Len(wire) = 1 BY <2>1, <2>2
    <2> QED BY <2>1, <2>2, <2>3, <2>4
  <1> HIDE DEF e
  <1>7. a \in Nat /\ b \in Nat BY <1>5 DEF Piece
  <1>8. num + 1 \in Nat /\ (num + 1) + Len(wire') = nextSeq'
    <2> DEFINE l == Len(wire)  l1 == Len(wire')
    <2>1. num \in Nat /\ l \in Nat /\ l1 = l - 1 /\ num + l = nextSeq /\ nextSeq' = nextSeq
      BY <1>1, <1>3, <1>6
    <2> HIDE DEF l, l1
    <2>2. num + 1 \in Nat /\ (num + 1) + l1 = nextSeq' BY <2>1
    <2> QED BY <2>2 DEF l1
  <1>9. ASSUME NEW m \in 1 .. Len(wire') PROVE wire'[m].type = "close" <=> (closed' /\ m = Len(wire'))
    <2>1. m + 1 \in 1 .. Len(wire) /\ (m + 1 = Len(wire) <=> m = Len(wire')) /\ wire'[m] = wire[m + 1]
      BY <1>6
    <2> QED BY <1>1, <1>3, <2>1
  <1>10. Carrying(num + 1, a, i1, b, j1)' BY <1>1, <1>3, <1>5, <1>7, <1>8, <1>9 DEF Carrying
  <1>11. Polling(num, i, j)
    <2>1. ~Processing(num, i, j) /\ ~Closing(i, j) /\ ~Handled
      BY <1>1 DEF Processing, Closing, Handled
    <2> QED BY <1>2, <2>1 DEF At
  <1>12. /\ current = fresh /\ fresh \in {0, 1} /\ (fresh = 0 => i = 0 /\ j = 0 /\ heap[1].hasSeq = FALSE /\ emitted = <<>>)
         /\ Held(profile, heap[1], Len(emitted), i, j) /\ Expects(heap[1], num)
    BY <1>11 DEF Polling
  <1>13. 1 \in 1 .. Len(wire) /\ (e.type = "close" <=> (closed /\ Len(wire) = 1))
    <2>1. 1 \in 1 .. Len(wire) /\ (1 = Len(wire) <=> Len(wire) = 1) BY <1>6
    <2> QED BY <1>3, <1>6, <2>1
  <1>14. CASE e.type = "data" /\ getOrCreate(e)
    <2>1. consumer' = [pc |-> "process", ev |-> e, sid |-> 1] /\ current' = 1 /\ fresh' = 1
      <3>1. CASE current # 0 BY <1>12, <1>14, <3>1 DEF getOrCreate
      <3>2. CASE current = 0
        <4>1. fresh' = fresh + 1 /\ current' = fresh + 1 /\ consumer' = [pc |-> "process", ev |-> e, sid |-> fresh + 1] /\ fresh + 1 = 1
          BY <1>12, <1>14, <3>2 DEF getOrCreate
        <4> QED BY <4>1
      <3> QED BY <3>1, <3>2
    <2>2. consumer'.pc = "process" /\ consumer'.ev = e /\ consumer'.sid = 1 BY <2>1
    <2>3. ~(closed' /\ wire' = <<>>) BY <1>1, <1>6, <1>13, <1>14
    <2>4. Processing(num + 1, a, b)' BY <1>1, <1>3, <1>5, <1>12, <2>1, <2>2, <2>3 DEF Processing
    <2>5. At(num + 1, a, b)' BY <2>4 DEF At
    <2> QED BY <1>1, <1>10, <2>5 DEF Track, Paired
  <1>15. CASE e.type = "close" /\ Lookup(e)
    <2>1. a = i /\ b = j BY <1>5, <1>15 DEF Piece
    <2>2. closed' /\ wire' = <<>> /\ fresh' = fresh /\ current' = current
      BY <1>1, <1>6, <1>13, <1>15 DEF Lookup
    <2>3. CASE current = 0
      <3>1. consumer' = Poll BY <1>15, <2>3 DEF Lookup
      <3>2. Polling(num + 1, a, b)' BY <1>1, <1>12, <2>1, <2>2, <2>3, <3>1 DEF Polling, Expects
      <3>3. At(num + 1, a, b)' BY <3>2 DEF At
      <3> QED BY <1>1, <1>10, <3>3 DEF Track, Paired
    <2>4. CASE current # 0
      <3>1. current = 1 /\ fresh = 1 /\ consumer' = [pc |-> "close", ev |-> e, sid |-> 1]
        BY <1>12, <1>15, <2>4 DEF Lookup
      <3>2. consumer'.pc = "close" /\ consumer'.sid = 1 BY <3>1
      <3>3. Closing(a, b)' BY <1>1, <1>12, <2>1, <2>2, <3>1, <3>2 DEF Closing
      <3>4. At(num + 1, a, b)' BY <3>3 DEF At
      <3> QED BY <1>1, <1>10, <3>4 DEF Track, Paired
    <2> QED BY <2>3, <2>4
  <1> QED BY <1>1, <1>14, <1>15

(* the pairs of a drain follow the ones that are out *)
LEMMA MorePaired ==
  ASSUME NEW p, NEW s \in Seq(Conv), NEW t \in Seq(Conv),
         \A i \in DOMAIN s : PairOK(p, s[i], i), \A i \in DOMAIN t : PairOK(p, t[i], Len(s) + i)
  PROVE  /\ \A i \in DOMAIN (s \o t) : PairOK(p, (s \o t)[i], i)
         /\ Len(s \o t) = Len(s) + Len(t) /\ Len(s) \in Nat /\ Len(t) \in Nat
  <1> DEFINE u == s \o t  m == Len(s)  n == Len(t)
  <1>1. /\ m \in Nat /\ n \in Nat /\ Len(u) = m + n /\ DOMAIN u = 1 .. m + n
        /\ \A i \in 1 .. m : u[i] = s[i] /\ i \in DOMAIN s
        /\ \A i \in 1 .. n : u[m + i] = t[i] /\ i \in DOMAIN t
    OBVIOUS
  <1>2. \A i \in DOMAIN t : PairOK(p, t[i], m + i) OBVIOUS
  <1> HIDE DEF u, m, n
  <1>3. ASSUME NEW i \in DOMAIN u PROVE PairOK(p, u[i], i)
    <2>1. CASE i <= m
      <3>1. i \in 1 .. m BY <1>1, <2>1
      <3> QED BY <1>1, <3>1
    <2>2. CASE ~(i <= m)
      <3> DEFINE d == i - m
      <3>1. d \in 1 .. n /\ m + d = i BY <1>1, <2>2
      <3> HIDE DEF d
      <3>2. u[m + d] = t[d] /\ PairOK(p, t[d], m + d) BY <1>1, <1>2, <3>1
      <3> QED BY <3>1, <3>2
    <2> QED BY <2>1, <2>2
  <1> QED BY <1>1, <1>3 DEF u, m, n

LEMMA ProcessTracks ==
  ASSUME SInv, Track, Regular, Process, faults' = {}
  PROVE  Track'
  <1> DEFINE e == consumer.ev  st == Route(Touch(heap[1], e), e)  k == Len(emitted)
  <1>1. PICK num, i, i1, j, j1 : Carrying(num, i, i1, j, j1) /\ At(num, i, j) BY DEF Track
  <1>2. consumer.pc = "process" BY DEF Process
  <1>3. Processing(num, i, j)
    <2>1. ~Polling(num, i, j) /\ ~Closing(i, j) /\ ~Handled
      BY <1>2 DEF Polling, Closing, Handled, Poll
    <2> QED BY <1>1, <2>1 DEF At
  <1>4. consumer.sid = 1 /\ current = 1 /\ fresh = 1 /\ ~(closed /\ wire = <<>>)
    BY <1>3 DEF Processing
  <1>5. PICK n, a, b : /\ n \in Nat /\ n + 1 = num /\ a \in Nat /\ b \in Nat
                       /\ Piece(profile, e, n, a, i, b, j)
                       /\ Held(profile, heap[1], k, a, b) /\ Expects(heap[1], n)
    BY <1>3 DEF Processing
  <1>6. e \in DataEvents BY <1>2 DEF SInv, Types, ConsumerTypes, Poll
  <1>7. heap \in [1 .. MaxSessions -> Session] /\ 1 \in 1 .. MaxSessions /\ heap[1] \in Session /\ emitted \in Seq(Conv) /\ k \in Nat
    BY LimitsAssumption DEF SInv, Types, StoreTypes
  <1> DEFINE res == drainParsedConversations(st, FALSE)
  <1>8. /\ heap' = [heap EXCEPT ![1] = res.st] /\ emitted' = emitted \o res.out /\ consumer' = Poll
        /\ UNCHANGED <<profile, role, left, closed, nextSeq, wire, fresh, current, expired>>
    BY <1>4 DEF Process, Drain, captureVars
  <1> DEFINE h == heap[1]
  <1>9. Tellable(profile) BY DEF Regular
  <1> HIDE DEF e, k, h
  <1>10. /\ ReqHeld(profile, st, k, i) /\ PendHeld(st, k) /\ RespHeld(profile, st, k, j) /\ Unmarked(st)
         /\ Expects(st, num)
    <2>1. h \in Session /\ Held(profile, h, k, a, b) /\ Expects(h, n) /\ Piece(profile, e, n, a, i, b, j) /\ n \in Nat
      BY <1>5, <1>7 DEF h
    <2>2. st = Route(Touch(h, e), e) BY DEF h
    <2> HIDE DEF st
    <2>3. Held(profile, Route(Touch(h, e), e), k, i, j) BY <1>6, <1>9, <2>1, RoutedHeld
    <2>4. Expects(Route(Touch(h, e), e), n + 1) BY <1>6, <1>9, <2>1, RoutedHeld
    <2> QED BY <1>5, <2>2, <2>3, <2>4 DEF Held
  <1>11. st \in Session
    <2>1. Route(Touch(h, e), e) \in Session BY <1>6, <1>7, RoutedIs DEF h
    <2> QED BY <2>1 DEF h
  <1>12. i \in Nat /\ j \in Nat /\ i <= Len(ReqStream(profile)) /\ j <= Len(RespStream(profile))
    BY <1>5 DEF Piece
  <1> HIDE DEF st
  <1>13. ResHeld(profile, k, res, i, j) /\ res.st.hasSeq = st.hasSeq /\ res.st.seq = st.seq
    BY <1>7, <1>9, <1>10, <1>11, <1>12, DrainHeld
  <1>14. res \in Result BY <1>11, DrainIs
  <1>15. res.st \in Session /\ res.out \in Seq(Conv) BY <1>14 DEF Result
  <1> HIDE DEF res
  <1>16. heap'[1] = res.st BY <1>7, <1>8
  <1>17. Paired' /\ Len(emitted') = k + Len(res.out)
    <2>1. \A x \in DOMAIN emitted : PairOK(profile, emitted[x], x) BY DEF Track, Paired
    <2>2. \A x \in DOMAIN res.out : PairOK(profile, res.out[x], Len(emitted) + x)
      BY <1>13 DEF ResHeld, k
    <2>3. (\A x \in DOMAIN (emitted \o res.out) : PairOK(profile, (emitted \o res.out)[x], x))
          /\ Len(emitted \o res.out) = Len(emitted) + Len(res.out)
      BY <1>7, <1>15, <2>1, <2>2, MorePaired
    <2> QED BY <1>8, <2>3 DEF Paired, k
  <1>18. Held(profile', heap'[1], Len(emitted'), i, j)
    BY <1>8, <1>13, <1>16, <1>17 DEF Held, ResHeld
  <1>19. Expects(heap'[1], num) BY <1>10, <1>13, <1>16 DEF Expects
  <1>20. Polling(num, i, j)' BY <1>4, <1>8, <1>18, <1>19 DEF Polling
  <1>21. Carrying(num, i, i1, j, j1)' BY <1>1, <1>8 DEF Carrying
  <1>22. At(num, i, j)' BY <1>20 DEF At
  <1> QED BY <1>8, <1>17, <1>21, <1>22 DEF Track

LEMMA CloseDrainTracks ==
  ASSUME SInv, Track, Regular, CloseDrain
  PROVE  Track'
  <1> DEFINE st == heap[1]  k == Len(emitted)  res == drainParsedConversations(st, TRUE)
  <1>1. PICK num, i, i1, j, j1 : Carrying(num, i, i1, j, j1) /\ At(num, i, j) BY DEF Track
  <1>2. consumer.pc = "close" BY DEF CloseDrain
  <1>3. Closing(i, j)
    <2>1. ~Polling(num, i, j) /\ ~Processing(num, i, j) /\ ~Handled
      BY <1>2 DEF Polling, Processing, Handled, Poll
    <2> QED BY <1>1, <2>1 DEF At
  <1>4. consumer.sid = 1 /\ current = 1 /\ fresh = 1 /\ closed /\ wire = <<>> /\ Held(profile, st, k, i, j)
    BY <1>3 DEF Closing
  <1>5. consumer \in [pc : {"close", "remove"}, ev : CloseEvents, sid : 1 .. fresh]
    BY <1>2 DEF SInv, Types, ConsumerTypes, Poll
  <1>6. heap \in [1 .. MaxSessions -> Session] /\ 1 \in 1 .. MaxSessions /\ st \in Session /\ emitted \in Seq(Conv) /\ k \in Nat
    BY LimitsAssumption DEF SInv, Types, StoreTypes
  <1>7. /\ heap' = [heap EXCEPT ![1] = res.st] /\ emitted' = emitted \o res.out /\ consumer' = [consumer EXCEPT !.pc = "remove"]
        /\ UNCHANGED <<profile, role, left, closed, nextSeq, wire, fresh, current, expired>>
    BY <1>4 DEF CloseDrain, Drain, captureVars
  <1>8. consumer'.pc = "remove" BY <1>5, <1>7
  <1>9. Tellable(profile) BY DEF Regular
  <1> DEFINE u == Len(ReqStream(profile))  v == Len(RespStream(profile))
  <1>10. i \in Nat /\ j \in Nat /\ i1 = i /\ j1 = j /\ i <= u /\ j = v /\ left.req = Cut(ReqStream(profile), i, u)
    <2>1. i \in Nat /\ j \in Nat /\ i1 <= u /\ Span(profile, <<>>, num, i, i1, j, j1) /\ j1 = v
          /\ left.req = Cut(ReqStream(profile), i1, u)
      BY <1>1, <1>4 DEF Carrying
    <2>2. i1 = i /\ j1 = j BY <2>1, SpanNone
    <2> QED BY <2>1, <2>2
  <1> HIDE DEF st, k, u, v
  <1>11. ResHeld(profile, k, res, i, j) /\ (i = u => k + Len(res.out) = Len(profile))
    <2>1. /\ i <= Len(ReqStream(profile)) /\ j <= Len(RespStream(profile)) /\ j = Len(RespStream(profile))
          /\ ReqHeld(profile, st, k, i) /\ PendHeld(st, k) /\ RespHeld(profile, st, k, j) /\ Unmarked(st)
      BY <1>4, <1>10 DEF Held, u, v
    <2>2. LET r == drainParsedConversations(st, TRUE) IN
          /\ ResHeld(profile, k, r, i, j)
          /\ i = Len(ReqStream(profile)) => k + Len(r.out) = Len(profile)
      BY <1>6, <1>9, <1>10, <2>1, DrainHeld
    <2> QED BY <2>2 DEF u
  <1>12. res \in Result BY <1>6, DrainIs
  <1>13. res.out \in Seq(Conv) BY <1>12 DEF Result
  <1> HIDE DEF res
  <1>14. Paired' /\ Len(emitted') = k + Len(res.out)
    <2>1. \A x \in DOMAIN emitted : PairOK(profile, emitted[x], x) BY DEF Track, Paired
    <2>2. \A x \in DOMAIN res.out : PairOK(profile, res.out[x], Len(emitted) + x)
      BY <1>11 DEF ResHeld, k
    <2>3. (\A x \in DOMAIN (emitted \o res.out) : PairOK(profile, (emitted \o res.out)[x], x))
          /\ Len(emitted \o res.out) = Len(emitted) + Len(res.out)
      BY <1>6, <1>13, <2>1, <2>2, MorePaired
    <2> QED BY <1>7, <2>3 DEF Paired, k
  <1>15. left.req = <<>> => i = u
    <2>1. ReqStream(profile) \in Seq(Tok) /\ u \in Nat /\ u <= Len(ReqStream(profile))
      BY <1>9, StartsAre DEF u
    <2> QED BY <1>10, <2>1, CutEmpty
  <1>16. Handled' BY <1>4, <1>7, <1>8, <1>11, <1>14, <1>15 DEF Handled
  <1>17. Carrying(num, i, i1, j, j1)' BY <1>1, <1>7 DEF Carrying
  <1>18. At(num, i, j)' BY <1>16 DEF At
  <1> QED BY <1>7, <1>14, <1>17, <1>18 DEF Track

LEMMA CloseRemoveTracks ==
  ASSUME SInv, Track, Regular, CloseRemove
  PROVE  Track'
  <1>1. PICK num, i, i1, j, j1 : Carrying(num, i, i1, j, j1) /\ At(num, i, j) BY DEF Track
  <1>2. /\ consumer.pc = "remove" /\ current' = 0 /\ consumer' = Poll
        /\ UNCHANGED <<profile, role, left, closed, nextSeq, wire, heap, fresh, expired, emitted>>
    BY DEF CloseRemove, captureVars
  <1>3. Handled
    <2>1. ~Polling(num, i, j) /\ ~Processing(num, i, j) /\ ~Closing(i, j)
      BY <1>2 DEF Polling, Processing, Closing, Poll
    <2> QED BY <1>1, <2>1 DEF At
  <1>4. Handled' BY <1>2, <1>3 DEF Handled
  <1>5. Carrying(num, i, i1, j, j1)' BY <1>1, <1>2 DEF Carrying
  <1>6. At(num, i, j)' BY <1>4 DEF At
  <1> QED BY <1>2, <1>5, <1>6 DEF Track, Paired

LEMMA GoesStaleTracks ==
  ASSUME SInv, Track, Regular, GoesStale
  PROVE  Track'
  <1>1. PICK num, i, i1, j, j1 : Carrying(num, i, i1, j, j1) /\ At(num, i, j) BY DEF Track
  <1>2. /\ current # 0 /\ heap' = [heap EXCEPT ![current].stale = TRUE]
        /\ UNCHANGED <<profile, role, left, closed, nextSeq, wire, fresh, current, consumer, expired, emitted>>
    BY DEF GoesStale, captureVars
  <1>3. heap \in [1 .. MaxSessions -> Session] /\ 1 \in 1 .. MaxSessions /\ heap[1] \in Session
    BY LimitsAssumption DEF SInv, Types, StoreTypes
  <1> DEFINE h == heap[1]  h1 == heap'[1]
  <1>4. /\ h1.req = h.req /\ h1.resp = h.resp /\ h1.pending = h.pending /\ h1.hasSeq = h.hasSeq /\ h1.seq = h.seq
        /\ h1.gap = h.gap /\ h1.truncated = h.truncated
    <2>1. h1 = h \/ h1 = [h EXCEPT !.stale = TRUE] BY <1>2, <1>3
    <2> HIDE DEF h1
    <2> QED BY <1>3, <2>1 DEF Session
  <1> HIDE DEF h, h1
  <1>5. ASSUME NEW p, NEW k, NEW u, NEW v, Held(p, h, k, u, v) PROVE Held(p, h1, k, u, v)
    <2>1. ReqHeld(p, h, k, u) => ReqHeld(p, h1, k, u) BY <1>4 DEF ReqHeld
    <2>2. PendHeld(h, k) => PendHeld(h1, k) BY <1>4 DEF PendHeld
    <2>3. RespHeld(p, h, k, v) => RespHeld(p, h1, k, v) BY <1>4 DEF RespHeld
    <2>4. Unmarked(h) => Unmarked(h1) BY <1>4 DEF Unmarked
    <2> QED BY <1>5, <2>1, <2>2, <2>3, <2>4 DEF Held
  <1>6. ASSUME NEW n, Expects(h, n) PROVE Expects(h1, n) BY <1>4, <1>6 DEF Expects
  <1>7. Carrying(num, i, i1, j, j1)' BY <1>1, <1>2 DEF Carrying
  <1>8. CASE Polling(num, i, j)
    <2>1. /\ consumer = Poll /\ current = fresh /\ fresh \in {0, 1} /\ (fresh = 1 => ~(closed /\ wire = <<>>))
          /\ Held(profile, h, Len(emitted), i, j) /\ Expects(h, num)
      BY <1>8 DEF Polling, h
    <2>2. fresh # 0 BY <1>2, <2>1
    <2>3. Held(profile, h1, Len(emitted), i, j) /\ Expects(h1, num) BY <1>5, <1>6, <2>1
    <2>4. Polling(num, i, j)' BY <1>2, <2>1, <2>2, <2>3 DEF Polling, h1
    <2> QED BY <1>2, <1>7, <2>4 DEF Track, Paired, At
  <1>9. CASE Processing(num, i, j)
    <2>1. consumer.pc = "process" /\ consumer.sid = 1 /\ current = 1 /\ fresh = 1 /\ ~(closed /\ wire = <<>>)
      BY <1>9 DEF Processing
    <2>2. PICK n, a, b : /\ n \in Nat /\ n + 1 = num /\ a \in Nat /\ b \in Nat
                         /\ Piece(profile, consumer.ev, n, a, i, b, j)
                         /\ Held(profile, h, Len(emitted), a, b) /\ Expects(h, n)
      BY <1>9 DEF Processing, h
    <2>3. Held(profile, h1, Len(emitted), a, b) /\ Expects(h1, n) BY <1>5, <1>6, <2>2
    <2>4. Processing(num, i, j)' BY <1>2, <2>1, <2>2, <2>3 DEF Processing, h1
    <2> QED BY <1>2, <1>7, <2>4 DEF Track, Paired, At
  <1>10. CASE Closing(i, j)
    <2>1. Held(profile, h1, Len(emitted), i, j) BY <1>5, <1>10 DEF Closing, h
    <2>2. Closing(i, j)' BY <1>2, <1>10, <2>1 DEF Closing, h1
    <2> QED BY <1>2, <1>7, <2>2 DEF Track, Paired, At
  <1>11. CASE Handled
    <2>1. Handled' BY <1>2, <1>11 DEF Handled
    <2> QED BY <1>2, <1>7, <2>1 DEF Track, Paired, At
  <1> QED BY <1>1, <1>8, <1>9, <1>10, <1>11 DEF At

LEMMA TrackStutters == Track /\ UNCHANGED vars => Track'
  <1> SUFFICES ASSUME Track, UNCHANGED vars PROVE Track' OBVIOUS
  <1>1. PICK num, i, i1, j, j1 : Carrying(num, i, i1, j, j1) /\ At(num, i, j) BY DEF Track
  <1>2. Carrying(num, i, i1, j, j1)' BY <1>1 DEF Carrying, vars
  <1>3. At(num, i, j)' BY <1>1 DEF At, Polling, Processing, Closing, Handled, vars
  <1> QED BY <1>2, <1>3 DEF Track, Paired, vars

LEMMA PInvNext == SInv /\ PInv /\ [Next]_vars => PInv'
  <1> SUFFICES ASSUME SInv, PInv, [Next]_vars, faults' = {}, Regular' PROVE Track' BY DEF PInv
  <1>0. ASSUME profile' = profile, role' = role, faults = {} PROVE Track /\ Regular
    BY <1>0 DEF PInv, Regular
  <1>1. ASSUME NEW side \in {"req", "resp"}, NEW n \in 1 .. MaxChunk, Capture(side, n) PROVE Track'
    <2>1. profile' = profile /\ role' = role /\ faults = {} BY <1>1 DEF Capture
    <2> QED BY <1>0, <1>1, <2>1, CaptureTracks
  <1>2. CASE CaptureClose
    <2>1. profile' = profile /\ role' = role /\ faults = {} BY <1>2 DEF CaptureClose
    <2> QED BY <1>0, <1>2, <2>1, CaptureCloseTracks
  <1>3. ~Lose /\ ~Swap /\ ~Receive(TRUE) /\ ~Sweep BY DEF Lose, Swap, Receive, Sweep
  <1>4. CASE Receive(FALSE)
    <2>1. profile' = profile /\ role' = role /\ faults = {} BY <1>4 DEF Receive, captureVars
    <2> QED BY <1>0, <1>4, <2>1, ReceiveTracks
  <1>5. CASE Process
    <2>1. profile' = profile /\ role' = role /\ faults = {} BY <1>5 DEF Process, captureVars
    <2> QED BY <1>0, <1>5, <2>1, ProcessTracks
  <1>6. CASE CloseDrain
    <2>1. profile' = profile /\ role' = role /\ faults = {} BY <1>6 DEF CloseDrain, captureVars
    <2> QED BY <1>0, <1>6, <2>1, CloseDrainTracks
  <1>7. CASE CloseRemove
    <2>1. profile' = profile /\ role' = role /\ faults = {} BY <1>7 DEF CloseRemove, captureVars
    <2> QED BY <1>0, <1>7, <2>1, CloseRemoveTracks
  <1>8. CASE GoesStale
    <2>1. profile' = profile /\ role' = role /\ faults = {} BY <1>8 DEF GoesStale, captureVars
    <2> QED BY <1>0, <1>8, <2>1, GoesStaleTracks
  <1>9. ASSUME NEW sid \in expired, DrainExpired(sid) PROVE FALSE
    <2>1. profile' = profile /\ role' = role /\ faults = {} BY <1>9 DEF DrainExpired, captureVars
    <2> QED BY <1>0, <1>9, <2>1 DEF Track
  <1>10. CASE UNCHANGED vars
    <2>1. profile' = profile /\ role' = role /\ faults = {} BY <1>10 DEF vars
    <2> QED BY <1>0, <1>10, <2>1, TrackStutters
  <1> QED BY <1>1, <1>2, <1>3, <1>4, <1>5, <1>6, <1>7, <1>8, <1>9, <1>10
    DEF Next, CaptureStep, ConsumerStep, CleanupStep

LEMMA Tracked == Spec => []PInv
  <1>1. SInv /\ PInv /\ [Next]_vars => PInv' BY PInvNext
  <1> QED BY PInvInit, Invariant, <1>1, PTL DEF Spec

(* On a connection captured beside the server whose messages can be told    *)
(* apart, as long as nothing goes wrong on the way, processEvent and        *)
(* handleCloseEvent emit the exchanges in order, each request with its own  *)
(* response and with complete bodies, wherever the bytes are cut into events*)
(* except inside a request line (that is the fault "head") and however      *)
(* requests are pipelined, up to the first exchange with an informational   *)
(* response.                                                                *)
THEOREM PairsExactly == Spec => [](Regular => PairingExact)
  <1>1. PInv => (Regular => PairingExact)
    <2> SUFFICES ASSUME PInv, Regular, faults = {}, NEW i \in DOMAIN emitted
                 PROVE  /\ emitted[i].req = i /\ ~Flagged(emitted[i])
                        /\ Right(emitted[i]) \/ (Shifted(i) /\ emitted[i].resp <= i)
      BY DEF PairingExact
    <2>1. PairOK(profile, emitted[i], i) BY DEF PInv, Track, Paired
    <2> QED BY <2>1 DEF PairOK, Flagged, Shifted
  <1> QED BY <1>1, Tracked, PTL

(* ... and once the connection is closed and handleCloseEvent has drained   *)
(* its session, none of the exchanges is missing, provided no request line  *)
(* was cut before its "HTTP/1.": its second half would be taken for a       *)
(* response (processing.go:171-183).                                        *)
THEOREM NothingMissing == Spec => [](Regular => AllEmitted)
  <1>1. PInv => (Regular => AllEmitted)
    <2> SUFFICES ASSUME PInv, Regular, Quiet, faults = {} PROVE Len(emitted) = Len(profile)
      BY DEF AllEmitted
    <2>1. closed /\ left.req = <<>> /\ wire = <<>> /\ consumer = Poll BY DEF Quiet
    <2>2. PICK num, i, i1, j, j1 : Carrying(num, i, i1, j, j1) /\ At(num, i, j) BY DEF PInv, Track
    <2>3. CASE Handled BY <2>1, <2>3 DEF Handled
    <2>4. CASE Polling(num, i, j)
      <3>1. fresh = 0 /\ i = 0 /\ j = 0 /\ emitted = <<>> BY <2>1, <2>4 DEF Polling
      <3> DEFINE f == ReqStream(profile)  u == Len(f)
      <3>2. Tellable(profile) /\ f \in Seq(Tok) /\ u \in Nat /\ u <= Len(f) BY StartsAre DEF Regular
      <3>3. i1 = 0
        <4>1. Span(profile, <<>>, num, i, i1, j, j1) /\ i \in Nat /\ j \in Nat
          BY <2>1, <2>2 DEF Carrying
        <4> QED BY <3>1, <4>1, SpanNone
      <3>4. Cut(f, 0, u) = <<>> /\ 0 <= u /\ 0 \in Nat BY <2>1, <2>2, <3>2, <3>3 DEF Carrying
      <3> HIDE DEF f, u
      <3>5. u = 0 BY <3>2, <3>4, CutEmpty
      <3>6. Held(profile, NewSession, 0, 0, 0) BY <3>2, NewHeld
      <3>7. ReqHeld(profile, NewSession, 0, 0) /\ NewSession.req = <<>> /\ NewSession.pending = <<>>
        BY <3>6 DEF Held, NewSession
      <3>8. 0 = Len(ReqStream(profile)) BY <3>5 DEF u, f
      <3>9. 0 + Len(NewSession.pending) = Len(profile) BY <3>2, <3>7, <3>8, AllAsked
      <3>10. Len(NewSession.pending) = 0 /\ Len(emitted) = 0 BY <3>1, <3>7
      <3> QED BY <3>9, <3>10
    <2>5. ~Processing(num, i, j) /\ ~Closing(i, j) BY <2>1 DEF Processing, Closing, Poll
    <2> QED BY <2>2, <2>3, <2>4, <2>5 DEF At
  <1> QED BY <1>1, Tracked, PTL

-----------------------------------------------------------------------------
(* What a session that has seen loss emits, and one that has not *)

(* Sets of sessions and of results that the rounds of a drain do not leave *)
LEMMA DrainStays ==
  ASSUME NEW st, NEW delimited \in BOOLEAN,
         NEW P, P \subseteq Session, st \in P, \A s \in P : RequestRound(s) \in P,
         NEW Q, Q \subseteq Result, \A s \in P : [st |-> s, out |-> <<>>] \in Q,
         \A r \in Q : ResponseRound(r, delimited) \in Q
  PROVE  drainParsedConversations(st, delimited) \in Q
  <1>1. RequestRounds[st] \in P BY RequestRoundsEnd
  <1> DEFINE r == [st |-> RequestRounds[st], out |-> <<>>]
  <1>2. r \in Q BY <1>1
  <1>3. drainParsedConversations(st, delimited) = ResponseRounds(delimited)[r]
    BY DEF drainParsedConversations
  <1> HIDE DEF r
  <1>4. ResponseRounds(delimited)[r] \in Q BY <1>2, ResponseRoundsEnd
  <1> QED BY <1>3, <1>4

(* the round that answers a request, and the one that does not *)
LEMMA ResponseRoundCases ==
  ASSUME NEW res \in Result, NEW delimited \in BOOLEAN
  PROVE  LET nx == ResponseRound(res, delimited)
             buf == Sync(res.st.resp, "resp") IN
         \/ /\ nx.out = res.out /\ nx.st.pending = res.st.pending /\ nx.st.gap = res.st.gap /\ nx.st.truncated = res.st.truncated
            /\ nx.st.resp = res.st.resp \/ nx.st.resp = buf
         \/ /\ res.st.pending # <<>> /\ parseOneResponse(buf, delimited)
            /\ nx.st.resp = DropParsed(buf) /\ nx.st.gap = res.st.gap /\ nx.st.truncated = res.st.truncated
            /\ nx.out = Append(res.out, Conversation(Head(res.st.pending), buf, res.st))
  <1> DEFINE nx == ResponseRound(res, delimited)  buf == Sync(res.st.resp, "resp")  st == res.st
  <1>0. st \in Session /\ res = [st |-> st, out |-> res.out] BY DEF Result
  <1>1. CASE st.pending = <<>>
    <2>1. nx = res BY <1>1 DEF ResponseRound
    <2> HIDE DEF nx
    <2> QED BY <2>1 DEF nx
  <1>2. CASE st.pending # <<>> /\ ~parseOneResponse(buf, delimited)
    <2>1. nx = [res EXCEPT !.st.resp = buf] BY <1>2 DEF ResponseRound
    <2> HIDE DEF nx, buf
    <2>2. /\ nx.out = res.out /\ nx.st.pending = st.pending /\ nx.st.gap = st.gap /\ nx.st.truncated = st.truncated
          /\ nx.st.resp = buf
      BY <1>0, <2>1 DEF Session
    <2> QED BY <2>2 DEF nx, buf
  <1>3. CASE st.pending # <<>> /\ parseOneResponse(buf, delimited)
    <2> DEFINE cv == Conversation(Head(st.pending), buf, st)  d == DropParsed(buf)
    <2>1. nx = [st |-> [st EXCEPT !.resp = d, !.pending = Tail(@)], out |-> Append(res.out, cv)]
      BY <1>3 DEF ResponseRound
    <2> HIDE DEF nx, cv, d
    <2>2. nx.out = Append(res.out, cv) /\ nx.st.gap = st.gap /\ nx.st.truncated = st.truncated /\ nx.st.resp = d
      BY <1>0, <2>1 DEF Session
    <2> QED BY <1>3, <2>2 DEF nx, cv, d
  <1> QED BY <1>1, <1>2, <1>3

LEMMA RequestRoundMarks ==
  ASSUME NEW st \in Session
  PROVE  LET nx == RequestRound(st) IN
         /\ nx.gap = st.gap /\ nx.truncated = st.truncated
         /\ st.req = <<>> => nx.req = <<>> /\ nx.pending = st.pending
  <1> DEFINE nx == RequestRound(st)  buf == Sync(st.req, "req")
  <1>0. st.req \in Seq(Tok) BY DEF Session
  <1>1. CASE ~parseOneRequest(buf)
    <2>1. nx = [st EXCEPT !.req = buf] BY <1>1 DEF RequestRound
    <2>2. st.req = <<>> => buf = <<>> BY <1>0, SyncFront
    <2> HIDE DEF nx, buf
    <2>3. nx.gap = st.gap /\ nx.truncated = st.truncated /\ nx.req = buf /\ nx.pending = st.pending
      BY <2>1 DEF Session
    <2> QED BY <2>2, <2>3 DEF nx
  <1>2. CASE parseOneRequest(buf)
    <2> DEFINE pr == [x |-> Head(buf).x, whole |-> Whole(Head(buf), SubSeq(buf, 2, Consumed(buf))),
                      gap |-> st.gap, truncated |-> st.truncated]
    <2>1. nx = [st EXCEPT !.req = DropParsed(buf), !.pending = Append(@, pr)]
      BY <1>2 DEF RequestRound
    <2>2. st.req # <<>>
      <3>1. st.req = <<>> => buf = <<>> BY <1>0, SyncFront
      <3> QED BY <1>2, <3>1 DEF parseOneRequest
    <2> HIDE DEF nx, pr, buf
    <2>3. nx.gap = st.gap /\ nx.truncated = st.truncated BY <2>1 DEF Session
    <2> QED BY <2>2, <2>3 DEF nx
  <1> QED BY <1>1, <1>2

-----------------------------------------------------------------------------
Marked(st) == st.gap \/ st.truncated

(* what DamageIsFlagged asks of a conversation *)
Excused(p, c) == Right(c) \/ Flagged(c) \/ p[c.resp].eof \/ \E y \in 1 .. c.req : p[y].info

AllOut(p, out) == \A i \in DOMAIN out : Excused(p, out[i])

LEMMA OneMore ==
  ASSUME NEW p, NEW out \in Seq(Conv), AllOut(p, out), NEW c, Excused(p, c)
  PROVE  AllOut(p, Append(out, c))
  <1> DEFINE t == Append(out, c)  n == Len(out)
  <1>1. n \in Nat /\ DOMAIN t = 1 .. n + 1 /\ t[n + 1] = c /\ \A i \in 1 .. n : t[i] = out[i] /\ i \in DOMAIN out
    OBVIOUS
  <1> HIDE DEF t, n
  <1>2. ASSUME NEW i \in DOMAIN t PROVE Excused(p, t[i])
    <2>1. CASE i = n + 1 BY <1>1, <2>1
    <2>2. CASE i # n + 1
      <3>1. i \in 1 .. n BY <1>1, <2>2
      <3> QED BY <1>1, <3>1 DEF AllOut
    <2> QED BY <2>1, <2>2
  <1> QED BY <1>2 DEF AllOut, t

(* a session that has seen loss marks all it emits *)
LEMMA MarkedDrain ==
  ASSUME NEW p, NEW st \in Session, Marked(st), NEW delimited \in BOOLEAN
  PROVE  LET res == drainParsedConversations(st, delimited) IN
         Marked(res.st) /\ AllOut(p, res.out)
  <1> DEFINE P == {s \in Session : Marked(s)}
             Q == {r \in Result : Marked(r.st) /\ AllOut(p, r.out)}
             res == drainParsedConversations(st, delimited)
  <1>1. \A s \in P : RequestRound(s) \in P BY RequestRoundIs, RequestRoundMarks DEF Marked
  <1>2. \A s \in P : [st |-> s, out |-> <<>>] \in Q
    <2> SUFFICES ASSUME NEW s \in Session, Marked(s) PROVE [st |-> s, out |-> <<>>] \in Q OBVIOUS
    <2> DEFINE r == [st |-> s, out |-> <<>>]
    <2>1. <<>> \in Seq(Conv) /\ DOMAIN <<>> = {} OBVIOUS
    <2>2. r \in Result /\ r.st = s /\ r.out = <<>> BY <2>1 DEF Result
    <2> HIDE DEF r
    <2>3. AllOut(p, r.out) BY <2>1, <2>2 DEF AllOut
    <2> QED BY <2>2, <2>3 DEF r
  <1>3. \A r \in Q : ResponseRound(r, delimited) \in Q
    <2> SUFFICES ASSUME NEW r \in Result, Marked(r.st), AllOut(p, r.out) PROVE ResponseRound(r, delimited) \in Q
      OBVIOUS
    <2> DEFINE nx == ResponseRound(r, delimited)  buf == Sync(r.st.resp, "resp")
               cv == Conversation(Head(r.st.pending), buf, r.st)
    <2>1. nx \in Result BY ResponseRoundIs
    <2>2. /\ nx.st.gap = r.st.gap /\ nx.st.truncated = r.st.truncated
          /\ nx.out = r.out \/ nx.out = Append(r.out, cv)
      BY ResponseRoundCases
    <2>3. Excused(p, cv)
      <3>1. cv.gap = (Head(r.st.pending).gap \/ r.st.gap) /\ cv.truncated = (Head(r.st.pending).truncated \/ r.st.truncated)
        BY DEF Conversation
      <3> HIDE DEF cv
      <3> QED BY <3>1 DEF Excused, Flagged, Marked
    <2> HIDE DEF nx, cv
    <2>4. AllOut(p, nx.out)
      <3>1. r.out \in Seq(Conv) BY DEF Result
      <3> QED BY <2>2, <2>3, <3>1, OneMore
    <2> QED BY <2>1, <2>2, <2>4 DEF Marked, nx
  <1>4. P \subseteq Session /\ st \in P /\ Q \subseteq Result OBVIOUS
  <1>5. res \in Q
    <2> HIDE DEF P, Q
    <2> QED BY <1>1, <1>2, <1>3, <1>4, DrainStays
  <1> HIDE DEF res
  <1>6. Marked(res.st) /\ AllOut(p, res.out) BY <1>5
  <1> QED BY <1>6 DEF res

(* a session that has only one side of the connection emits nothing *)
LEMMA OneSided ==
  ASSUME NEW st \in Session, st.pending = <<>>, st.req = <<>> \/ st.resp = <<>>, NEW delimited \in BOOLEAN
  PROVE  drainParsedConversations(st, delimited).out = <<>>
  <1> DEFINE Half(s) == (s.req = <<>> /\ s.pending = <<>>) \/ s.resp = <<>>
             Rest(r) == r.out = <<>> /\ (r.st.pending = <<>> \/ r.st.resp = <<>>)
             P == {s \in Session : Half(s)}
             Q == {r \in Result : Rest(r)}
             res == drainParsedConversations(st, delimited)
  <1>1. \A s \in P : RequestRound(s) \in P
    <2> SUFFICES ASSUME NEW s \in Session, Half(s) PROVE RequestRound(s) \in Session /\ Half(RequestRound(s))
      OBVIOUS
    <2>1. RequestRound(s) \in Session /\ RequestRound(s).resp = s.resp BY RequestRoundIs
    <2>2. s.req = <<>> => RequestRound(s).req = <<>> /\ RequestRound(s).pending = s.pending
      BY RequestRoundMarks
    <2> QED BY <2>1, <2>2
  <1>2. \A s \in P : [st |-> s, out |-> <<>>] \in Q
    <2> SUFFICES ASSUME NEW s \in Session, Half(s) PROVE [st |-> s, out |-> <<>>] \in Q OBVIOUS
    <2> DEFINE r == [st |-> s, out |-> <<>>]
    <2>1. <<>> \in Seq(Conv) OBVIOUS
    <2>2. r \in Result /\ r.st = s /\ r.out = <<>> BY <2>1 DEF Result
    <2> HIDE DEF r
    <2> QED BY <2>2 DEF r
  <1>3. \A r \in Q : ResponseRound(r, delimited) \in Q
    <2> SUFFICES ASSUME NEW r \in Result, Rest(r) PROVE ResponseRound(r, delimited) \in Q OBVIOUS
    <2> DEFINE nx == ResponseRound(r, delimited)  buf == Sync(r.st.resp, "resp")
    <2>1. nx \in Result BY ResponseRoundIs
    <2>2. r.st.resp = <<>> => buf = <<>>
      <3>1. r.st.resp \in Seq(Tok) BY DEF Result, Session
      <3> QED BY <3>1, SyncFront
    <2>3. ~(r.st.pending # <<>> /\ parseOneResponse(buf, delimited)) BY <2>2 DEF parseOneResponse
    <2>4. nx.out = r.out /\ nx.st.pending = r.st.pending /\ (nx.st.resp = r.st.resp \/ nx.st.resp = buf)
      BY <2>3, ResponseRoundCases
    <2> HIDE DEF nx, buf
    <2>5. Rest(nx) BY <2>2, <2>4
    <2> QED BY <2>1, <2>5 DEF nx
  <1>4. P \subseteq Session /\ st \in P /\ Q \subseteq Result OBVIOUS
  <1>5. res \in Q
    <2> HIDE DEF P, Q
    <2> QED BY <1>1, <1>2, <1>3, <1>4, DrainStays
  <1> HIDE DEF res
  <1>6. res.out = <<>> BY <1>5
  <1> QED BY <1>6 DEF res

LEMMA HeldOut ==
  ASSUME NEW p, NEW k, NEW res \in Result, NEW u, NEW v, ResHeld(p, k, res, u, v)
  PROVE  AllOut(p, res.out)
  <1>1. ASSUME NEW i \in DOMAIN res.out PROVE Excused(p, res.out[i])
    <2>1. PairOK(p, res.out[i], k + i) BY DEF ResHeld
    <2> QED BY <2>1 DEF PairOK, Excused
  <1> QED BY <1>1 DEF AllOut

(* the response at the front of a buffer that is only taken because the      *)
(* connection has ended ends with the connection                             *)
LEMMA UntilClose ==
  ASSUME NEW p, Tellable(p), NEW st \in Session, NEW k \in Nat, NEW v \in Nat, v <= Len(RespStream(p)),
         RespHeld(p, st, k, v), NEW buf, buf = Sync(st.resp, "resp"), buf # <<>>, Head(buf).kind = "respEOF"
  PROVE  p[Head(buf).x].eof
  <1> DEFINE f == RespStream(p)
  <1>1. PICK b \in Nat : b <= v /\ st.resp = Cut(f, b, v) /\ Boundary(p, b, k) BY DEF RespHeld
  <1>2. f \in Seq(Tok) /\ Len(f) \in Nat /\ v <= Len(f) /\ st.resp \in Seq(Tok)
    BY StartsAre DEF Session
  <1>3. b # v
    <2> SUFFICES ASSUME b = v PROVE FALSE OBVIOUS
    <2>1. st.resp = <<>> BY <1>1, <1>2, CutNone
    <2>2. Sync(st.resp, "resp") = st.resp BY <1>2, <2>1, SyncFront
    <2> QED BY <2>1, <2>2
  <1>4. b < v /\ b < Len(f) BY <1>1, <1>2, <1>3
  <1>5. PICK c, x : Follows(p, b, k, c, x) BY <1>1, <1>4, NextResponse
  <1>6. Stands(f, b, c, "resp") /\ f[b + 1].x = x /\ (f[b + 1].kind = "respEOF" => p[x].eof)
    BY <1>5 DEF Follows
  <1> HIDE DEF f
  <1>7. Head(Cut(f, b, v)) = f[b + 1] /\ Sync(Cut(f, b, v), "resp") = Cut(f, b, v)
    BY <1>2, <1>4, <1>6, TakeFirst
  <1>8. buf = Cut(f, b, v) BY <1>1, <1>7
  <1> QED BY <1>6, <1>7, <1>8

(* handleCloseEvent drains a session that has received all events so far; *)
(* the close may have overtaken some                                      *)
LEMMA CloseOut ==
  ASSUME NEW p, Tellable(p), NEW st \in Session, NEW k \in Nat, NEW u \in Nat, NEW v \in Nat,
         u <= Len(ReqStream(p)), v <= Len(RespStream(p)), Held(p, st, k, u, v)
  PROVE  AllOut(p, drainParsedConversations(st, TRUE).out)
  <1> DEFINE InP(s) == ReqHeld(p, s, k, u) /\ PendHeld(s, k) /\ RespHeld(p, s, k, v) /\ Unmarked(s)
             InQ(r) == AllOut(p, r.out) /\ (ResHeld(p, k, r, u, v) \/ r.st.resp = <<>>)
             P == {s \in Session : InP(s)}
             Q == {r \in Result : InQ(r)}
             res == drainParsedConversations(st, TRUE)
  <1>1. \A s \in P : RequestRound(s) \in P
    <2> SUFFICES ASSUME NEW s \in Session, InP(s) PROVE RequestRound(s) \in Session /\ InP(RequestRound(s))
      OBVIOUS
    <2> DEFINE nx == RequestRound(s)
    <2>1. nx \in Session BY RequestRoundIs
    <2>2. ReqHeld(p, nx, k, u) /\ PendHeld(nx, k) /\ Unmarked(nx) /\ nx.resp = s.resp
      BY RequestRoundHeld
    <2> HIDE DEF nx
    <2>3. RespHeld(p, nx, k, v) BY <2>2 DEF RespHeld
    <2> QED BY <2>1, <2>2, <2>3 DEF nx
  <1>2. \A s \in P : [st |-> s, out |-> <<>>] \in Q
    <2> SUFFICES ASSUME NEW s \in Session, InP(s) PROVE [st |-> s, out |-> <<>>] \in Q OBVIOUS
    <2> DEFINE r == [st |-> s, out |-> <<>>]
    <2>1. <<>> \in Seq(Conv) /\ DOMAIN <<>> = {} /\ Len(<<>>) = 0 OBVIOUS
    <2>2. r \in Result /\ r.st = s /\ r.out = <<>> BY <2>1 DEF Result
    <2> HIDE DEF r
    <2>3. k + Len(r.out) = k /\ DOMAIN r.out = {} BY <2>1, <2>2
    <2>4. ResHeld(p, k, r, u, v) BY <2>2, <2>3 DEF ResHeld
    <2>5. InQ(r) BY <2>2, <2>4, HeldOut
    <2> QED BY <2>2, <2>5 DEF r
  <1>3. \A r \in Q : ResponseRound(r, TRUE) \in Q
    <2> SUFFICES ASSUME NEW r \in Result, InQ(r) PROVE ResponseRound(r, TRUE) \in Q OBVIOUS
    <2> DEFINE nx == ResponseRound(r, TRUE)  buf == Sync(r.st.resp, "resp")
               cv == Conversation(Head(r.st.pending), buf, r.st)
    <2>0. r.st \in Session /\ r.st.resp \in Seq(Tok) /\ r.out \in Seq(Conv) BY DEF Result, Session
    <2>1. nx \in Result BY ResponseRoundIs
    <2>2. \/ nx.out = r.out /\ (nx.st.resp = r.st.resp \/ nx.st.resp = buf)
          \/ parseOneResponse(buf, TRUE) /\ nx.st.resp = DropParsed(buf) /\ nx.out = Append(r.out, cv)
      BY ResponseRoundCases
    <2>3. CASE r.st.resp = <<>>
      <3>1. buf = <<>> BY <2>0, <2>3, SyncFront
      <3>2. ~parseOneResponse(buf, TRUE) BY <3>1 DEF parseOneResponse
      <3> HIDE DEF nx, buf
      <3>3. nx.out = r.out /\ nx.st.resp = <<>> BY <2>2, <2>3, <3>1, <3>2
      <3>4. InQ(nx) BY <3>3
      <3> QED BY <2>1, <3>4 DEF nx
    <2>4. CASE ResHeld(p, k, r, u, v) /\ parseOneResponse(buf, TRUE) = parseOneResponse(buf, FALSE)
      <3>1. nx = ResponseRound(r, FALSE) BY <2>4 DEF ResponseRound
      <3>2. ResHeld(p, k, ResponseRound(r, FALSE), u, v) BY <2>4, ResponseRoundHeld
      <3> HIDE DEF nx
      <3>3. InQ(nx) BY <2>1, <3>1, <3>2, HeldOut
      <3> QED BY <2>1, <3>3 DEF nx
    <2>5. CASE ResHeld(p, k, r, u, v) /\ ~(parseOneResponse(buf, TRUE) = parseOneResponse(buf, FALSE))
      <3>1. buf # <<>> /\ Head(buf).kind = "respEOF" BY <2>5 DEF parseOneResponse
      <3> DEFINE l == k + Len(r.out)
      <3>2. RespHeld(p, r.st, l, v) /\ l \in Nat BY <2>0, <2>5 DEF ResHeld
      <3>3. p[Head(buf).x].eof
        <4> HIDE DEF l
        <4> QED BY <2>0, <3>1, <3>2, UntilClose
      <3>4. cv.resp = Head(buf).x BY DEF Conversation
      <3> HIDE DEF cv
      <3>5. Excused(p, cv) BY <3>3, <3>4 DEF Excused
      <3>6. DropParsed(buf) = <<>>
        <4>1. buf \in Seq(Tok) BY <2>0, SyncIs
        <4>2. DropParsed(buf) = SubSeq(buf, Len(buf) + 1, Len(buf)) BY <3>1 DEF DropParsed, Consumed
        <4> HIDE DEF buf
        <4>3. Len(buf) \in Nat BY <4>1
        <4>4. DropParsed(buf) = Cut(buf, Len(buf), Len(buf)) BY <4>2 DEF Cut
        <4> QED BY <4>1, <4>3, <4>4, CutNone
      <3> HIDE DEF nx
      <3>7. CASE nx.out = r.out /\ nx.st.resp # <<>>
        <4>1. r.st.pending = <<>>
          <5> SUFFICES ASSUME r.st.pending # <<>> PROVE FALSE OBVIOUS
          <5>1. parseOneResponse(buf, TRUE) BY <3>1 DEF parseOneResponse
          <5>2. nx = [st |-> [r.st EXCEPT !.resp = DropParsed(buf), !.pending = Tail(@)], out |-> Append(r.out, cv)]
            BY <5>1 DEF nx, ResponseRound, cv
          <5>3. nx.st.resp = DropParsed(buf)
            <6> DEFINE d == DropParsed(buf)
            <6>1. nx = [st |-> [r.st EXCEPT !.resp = d, !.pending = Tail(@)], out |-> Append(r.out, cv)]
              BY <5>2
            <6> HIDE DEF d
            <6>2. nx.st.resp = d BY <2>0, <6>1 DEF Session
            <6> QED BY <6>2 DEF d
          <5> QED BY <3>6, <3>7, <5>3
        <4>2. nx = r BY <4>1 DEF nx, ResponseRound
        <4> QED BY <4>2 DEF nx
      <3>8. CASE nx.st.resp = <<>> /\ (nx.out = r.out \/ nx.out = Append(r.out, cv))
        <4>1. AllOut(p, nx.out) BY <2>0, <3>5, <3>8, OneMore
        <4> QED BY <2>1, <3>8, <4>1 DEF nx
      <3> QED BY <2>2, <3>6, <3>7, <3>8 DEF nx
    <2> QED BY <2>3, <2>4, <2>5
  <1>4. P \subseteq Session /\ st \in P /\ Q \subseteq Result BY DEF Held
  <1>5. res \in Q
    <2> HIDE DEF P, Q
    <2> QED BY <1>1, <1>2, <1>3, <1>4, DrainStays
  <1> HIDE DEF res
  <1>6. AllOut(p, res.out) BY <1>5
  <1> QED BY <1>6 DEF res

-----------------------------------------------------------------------------
(* Events that are lost, overtake each other or are cut *)

(* An event whose number the capture gave it at positions P and Q of the    *)
(* two streams carries what was captured between that number and the next,  *)
(* or says that it was cut.                                                 *)
Brings(p, e, n, i, i1, j, j1) == e.type = "data" => e.cut \/ Piece(p, e, n, i, i1, j, j1)

Sent(p, e, P, Q) == Brings(p, e, e.seq, P[e.seq], P[e.seq + 1], Q[e.seq], Q[e.seq + 1])

(* events on the wire, in any order and some of them missing *)
Travels(p, w, num, P, Q) ==
  /\ \A m \in 1 .. Len(w) : w[m].seq < num /\ Sent(p, w[m], P, Q)
  /\ \A m \in 1 .. Len(w), l \in 1 .. Len(w) : w[m].seq = w[l].seq => m = l

Later(w, n) == \A m \in 1 .. Len(w) : w[m].seq >= n
Without(w, n) == \A m \in 1 .. Len(w) : w[m].seq # n

(* a swap lets the close overtake one event, the last *)
CloseAt(w, c) ==
  \A m \in 1 .. Len(w) : w[m].type = "close" => c /\ (m = Len(w) \/ (m = 1 /\ Len(w) = 2))

Part(w1, w) ==
  \E s \in [1 .. Len(w1) -> 1 .. Len(w)] :
    /\ \A m \in 1 .. Len(w1) : w1[m] = w[s[m]]
    /\ \A m \in 1 .. Len(w1), l \in 1 .. Len(w1) : s[m] = s[l] => m = l

LEMMA PartKeeps ==
  ASSUME NEW w, NEW w1, Part(w1, w)
  PROVE  /\ \A p, num, P, Q : Travels(p, w, num, P, Q) => Travels(p, w1, num, P, Q)
         /\ \A n : Later(w, n) => Later(w1, n)
         /\ \A n : Without(w, n) => Without(w1, n)
  <1>1. PICK s \in [1 .. Len(w1) -> 1 .. Len(w)] :
          /\ \A m \in 1 .. Len(w1) : w1[m] = w[s[m]]
          /\ \A m \in 1 .. Len(w1), l \in 1 .. Len(w1) : s[m] = s[l] => m = l
    BY DEF Part
  <1>2. \A m \in 1 .. Len(w1) : s[m] \in 1 .. Len(w) OBVIOUS
  <1>3. ASSUME NEW p, NEW num, NEW P, NEW Q, Travels(p, w, num, P, Q) PROVE Travels(p, w1, num, P, Q)
    <2>1. ASSUME NEW m \in 1 .. Len(w1) PROVE w1[m].seq < num /\ Sent(p, w1[m], P, Q)
      <3>1. w[s[m]].seq < num /\ Sent(p, w[s[m]], P, Q) BY <1>2, <1>3 DEF Travels
      <3> QED BY <1>1, <3>1
    <2>2. ASSUME NEW m \in 1 .. Len(w1), NEW l \in 1 .. Len(w1), w1[m].seq = w1[l].seq PROVE m = l
      <3>1. w[s[m]].seq = w[s[l]].seq BY <1>1, <2>2
      <3>2. s[m] = s[l] BY <1>2, <1>3, <3>1 DEF Travels
      <3> QED BY <1>1, <3>2
    <2> QED BY <2>1, <2>2 DEF Travels
  <1>4. ASSUME NEW n, Later(w, n) PROVE Later(w1, n) BY <1>1, <1>2, <1>4 DEF Later
  <1>5. ASSUME NEW n, Without(w, n) PROVE Without(w1, n) BY <1>1, <1>2, <1>5 DEF Without
  <1> QED BY <1>3, <1>4, <1>5

LEMMA TailIs ==
  ASSUME NEW w \in Seq(Event), w # <<>>
  PROVE  LET t == Tail(w) IN
         /\ t \in Seq(Event) /\ Len(t) \in Nat /\ Len(w) = Len(t) + 1 /\ Head(w) = w[1] /\ 1 \in 1 .. Len(w)
         /\ \A m \in 1 .. Len(t) : t[m] = w[m + 1] /\ m + 1 \in 1 .. Len(w)
         /\ Part(t, w)
         /\ \A c : CloseAt(w, c) => CloseAt(t, c)
         /\ \A p, num, P, Q : Travels(p, w, num, P, Q) => Without(t, Head(w).seq)
  <1> DEFINE t == Tail(w)
  <1>1. /\ t \in Seq(Event) /\ Len(t) \in Nat /\ Len(w) = Len(t) + 1 /\ Head(w) = w[1]
        /\ \A m \in 1 .. Len(t) : t[m] = w[m + 1]
    OBVIOUS
  <1> HIDE DEF t
  <1>2. 1 \in 1 .. Len(w) /\ \A m \in 1 .. Len(t) : m + 1 \in 1 .. Len(w) /\ m + 1 # 1 /\ (m + 1 = Len(w) => m = Len(t))
    BY <1>1
  <1>3. Part(t, w)
    <2> DEFINE s == [m \in 1 .. Len(t) |-> m + 1]
    <2>1. s \in [1 .. Len(t) -> 1 .. Len(w)] /\ \A m \in 1 .. Len(t) : s[m] = m + 1 BY <1>2
    <2> HIDE DEF s
    <2>2. \A m \in 1 .. Len(t) : t[m] = w[s[m]] BY <1>1, <2>1
    <2>3. ASSUME NEW m \in 1 .. Len(t), NEW l \in 1 .. Len(t), s[m] = s[l] PROVE m = l
      <3>1. m + 1 = l + 1 BY <2>1, <2>3
      <3> QED BY <1>1, <3>1
    <2> QED BY <2>1, <2>2, <2>3 DEF Part
  <1>4. ASSUME NEW c, CloseAt(w, c) PROVE CloseAt(t, c)
    <2> SUFFICES ASSUME NEW m \in 1 .. Len(t), t[m].type = "close" PROVE c /\ m = Len(t)
      BY DEF CloseAt
    <2>1. w[m + 1].type = "close" /\ m + 1 \in 1 .. Len(w) BY <1>1, <1>2
    <2>2. c /\ (m + 1 = Len(w) \/ m + 1 = 1) BY <1>4, <2>1 DEF CloseAt
    <2> QED BY <1>2, <2>2
  <1>5. ASSUME NEW p, NEW num, NEW P, NEW Q, Travels(p, w, num, P, Q) PROVE Without(t, Head(w).seq)
    <2> SUFFICES ASSUME NEW m \in 1 .. Len(t), t[m].seq = Head(w).seq PROVE FALSE BY DEF Without
    <2>1. w[m + 1].seq = w[1].seq BY <1>1
    <2>2. m + 1 = 1 BY <1>2, <1>5, <2>1 DEF Travels
    <2> QED BY <1>2, <2>2
  <1> QED BY <1>1, <1>2, <1>3, <1>4, <1>5 DEF t

LEMMA SwapIs ==
  ASSUME NEW w \in Seq(Event), Len(w) >= 2, NEW w1,
         w1 = [i \in DOMAIN w |-> IF i = 1 THEN w[2] ELSE IF i = 2 THEN w[1] ELSE w[i]]
  PROVE  Len(w1) = Len(w) /\ Part(w1, w) /\ \A c : CloseAt(w, c) => CloseAt(w1, c)
  <1> DEFINE N == Len(w)
             s == [m \in 1 .. N |-> IF m = 1 THEN 2 ELSE IF m = 2 THEN 1 ELSE m]
  <1>1. N \in Nat /\ N >= 2 /\ DOMAIN w = 1 .. N /\ 1 \in 1 .. N /\ 2 \in 1 .. N OBVIOUS
  <1>2. w1 \in Seq(Event) /\ Len(w1) = N /\ \A m \in 1 .. N : w1[m] = IF m = 1 THEN w[2] ELSE IF m = 2 THEN w[1] ELSE w[m]
    <2>1. \A m \in 1 .. N : w[m] \in Event OBVIOUS
    <2> HIDE DEF N
    <2>2. w1 = [i \in 1 .. N |-> IF i = 1 THEN w[2] ELSE IF i = 2 THEN w[1] ELSE w[i]] BY <1>1
    <2>3. w1 \in [1 .. N -> Event] BY <1>1, <2>1, <2>2
    <2>4. w1 \in Seq(Event) /\ Len(w1) = N BY <1>1, <2>3
    <2> QED BY <2>2, <2>4
  <1> HIDE DEF N
  <1>3. s \in [1 .. N -> 1 .. N] /\ \A m \in 1 .. N : s[m] = IF m = 1 THEN 2 ELSE IF m = 2 THEN 1 ELSE m
    BY <1>1
  <1> HIDE DEF s
  <1>4. \A m \in 1 .. N : w1[m] = w[s[m]] BY <1>2, <1>3
  <1>5. \A m \in 1 .. N, l \in 1 .. N : s[m] = s[l] => m = l BY <1>1, <1>3
  <1>6. Part(w1, w)
    <2>1. Len(w1) = N /\ Len(w) = N BY <1>2 DEF N
    <2> QED BY <1>3, <1>4, <1>5, <2>1 DEF Part
  <1>7. ASSUME NEW c, CloseAt(w, c) PROVE CloseAt(w1, c)
    <2> SUFFICES ASSUME NEW m \in 1 .. N, w1[m].type = "close" PROVE c /\ (m = N \/ (m = 1 /\ N = 2))
      BY <1>2 DEF CloseAt
    <2>1. w[s[m]].type = "close" /\ s[m] \in 1 .. N BY <1>3, <1>4
    <2>2. c /\ (s[m] = N \/ (s[m] = 1 /\ N = 2)) BY <1>7, <2>1 DEF CloseAt, N
    <2>3. s[m] = IF m = 1 THEN 2 ELSE IF m = 2 THEN 1 ELSE m BY <1>3
    <2> QED BY <1>1, <2>2, <2>3
  <1> QED BY <1>2, <1>6, <1>7 DEF N

HasNumber(e, num) == e.seq = num
Positions(P) == P \in [Nat -> Nat]

(* an event that has just been captured *)
LEMMA AppendTravels ==
  ASSUME NEW p, NEW w \in Seq(Event), NEW num \in Nat, NEW P, NEW Q, Positions(P), Positions(Q),
         Travels(p, w, num, P, Q), NEW e \in Event, HasNumber(e, num), NEW a \in Nat, NEW b \in Nat,
         Brings(p, e, num, P[num], a, Q[num], b)
  PROVE  LET P1 == [P EXCEPT ![num + 1] = a]
             Q1 == [Q EXCEPT ![num + 1] = b] IN
         /\ Positions(P1) /\ Positions(Q1) /\ P1[num + 1] = a /\ Q1[num + 1] = b
         /\ \A n \in Nat : n <= num => P1[n] = P[n] /\ Q1[n] = Q[n]
         /\ \A d \in Event : d.seq < num /\ Sent(p, d, P, Q) => Sent(p, d, P1, Q1)
         /\ Travels(p, Append(w, e), num + 1, P1, Q1)
  <1> DEFINE P1 == [P EXCEPT ![num + 1] = a]  Q1 == [Q EXCEPT ![num + 1] = b]  w1 == Append(w, e)  N == Len(w)
  <1>0. P1 \in [Nat -> Nat] /\ Q1 \in [Nat -> Nat] BY DEF Positions
  <1>1. /\ Positions(P1) /\ Positions(Q1) /\ P1[num + 1] = a /\ Q1[num + 1] = b
        /\ \A n \in Nat : n <= num => P1[n] = P[n] /\ Q1[n] = Q[n]
    <2>1. P1[num + 1] = a /\ Q1[num + 1] = b BY DEF Positions
    <2>2. ASSUME NEW n \in Nat, n <= num PROVE P1[n] = P[n] /\ Q1[n] = Q[n]
      <3>1. n # num + 1 BY <2>2
      <3> QED BY <3>1 DEF Positions
    <2> QED BY <1>0, <2>1, <2>2 DEF Positions
  <1> HIDE DEF P1, Q1
  <1>2. ASSUME NEW d \in Event, d.seq < num, Sent(p, d, P, Q) PROVE Sent(p, d, P1, Q1)
    <2>1. d.seq \in Nat BY DEF Event, DataEvents, CloseEvents
    <2>2. d.seq + 1 \in Nat /\ d.seq <= num /\ d.seq + 1 <= num BY <1>2, <2>1
    <2>3. P1[d.seq] = P[d.seq] /\ Q1[d.seq] = Q[d.seq] /\ P1[d.seq + 1] = P[d.seq + 1] /\ Q1[d.seq + 1] = Q[d.seq + 1]
      BY <1>1, <2>1, <2>2
    <2> QED BY <1>2, <2>3 DEF Sent
  <1>3. Sent(p, e, P1, Q1)
    <2>1. P1[num] = P[num] /\ Q1[num] = Q[num] BY <1>1
    <2>2. Brings(p, e, num, P1[num], P1[num + 1], Q1[num], Q1[num + 1]) BY <1>1, <2>1
    <2> QED BY <2>2 DEF Sent, HasNumber
  <1>4. N \in Nat /\ Len(w1) = N + 1 /\ w1[N + 1] = e /\ \A m \in 1 .. N : w1[m] = w[m] /\ w[m] \in Event
    OBVIOUS
  <1>5. \A m \in 1 .. N : w[m].seq < num /\ w[m].seq \in Nat /\ Sent(p, w[m], P, Q)
    BY <1>4 DEF Travels, Event, DataEvents, CloseEvents
  <1>6. \A m \in 1 .. N, l \in 1 .. N : w[m].seq = w[l].seq => m = l BY DEF Travels
  <1> HIDE DEF w1, N
  <1>7. ASSUME NEW m \in 1 .. N + 1 PROVE w1[m].seq < num + 1 /\ Sent(p, w1[m], P1, Q1)
    <2>1. CASE m = N + 1
      <3>1. w1[m] = e BY <1>4, <2>1
      <3>2. e.seq < num + 1 BY DEF HasNumber
      <3> QED BY <1>3, <3>1, <3>2
    <2>2. CASE m # N + 1
      <3>1. m \in 1 .. N BY <1>4, <2>2
      <3>2. Sent(p, w[m], P1, Q1) BY <1>2, <1>4, <1>5, <3>1
      <3>3. w[m].seq < num + 1 BY <1>5, <3>1
      <3> QED BY <1>4, <3>1, <3>2, <3>3
    <2> QED BY <2>1, <2>2
  <1>8. ASSUME NEW m \in 1 .. N + 1, NEW l \in 1 .. N + 1, w1[m].seq = w1[l].seq PROVE m = l
    <2>1. ASSUME NEW i \in 1 .. N PROVE w1[i].seq # w1[N + 1].seq
      <3>1. w1[i].seq = w[i].seq /\ w1[N + 1].seq = num BY <1>4, <2>1 DEF HasNumber
      <3>2. w[i].seq < num /\ w[i].seq \in Nat BY <1>5, <2>1
      <3> QED BY <3>1, <3>2
    <2>2. CASE m = N + 1 /\ l = N + 1 BY <2>2
    <2>3. CASE m # N + 1
      <3>1. m \in 1 .. N BY <1>4, <2>3
      <3>2. l # N + 1 BY <1>8, <2>1, <3>1
      <3>3. l \in 1 .. N BY <1>4, <3>2
      <3>4. w[m].seq = w[l].seq BY <1>4, <1>8, <3>1, <3>3
      <3> QED BY <1>6, <3>1, <3>3, <3>4
    <2>4. CASE l # N + 1
      <3>1. l \in 1 .. N BY <1>4, <2>4
      <3>2. m # N + 1 BY <1>8, <2>1, <3>1
      <3> QED BY <2>3, <3>2
    <2> QED BY <2>2, <2>3, <2>4
  <1>9. Travels(p, w1, num + 1, P1, Q1) BY <1>4, <1>7, <1>8 DEF Travels
  <1> QED BY <1>1, <1>2, <1>9 DEF P1, Q1, w1

LEMMA AppendCloseAt ==
  ASSUME NEW w \in Seq(Event), CloseAt(w, FALSE), NEW e \in Event, NEW c \in BOOLEAN, e.type = "close" => c
  PROVE  CloseAt(Append(w, e), c)
  <1> DEFINE w1 == Append(w, e)  N == Len(w)
  <1>1. N \in Nat /\ Len(w1) = N + 1 /\ w1[N + 1] = e /\ \A m \in 1 .. N : w1[m] = w[m] OBVIOUS
  <1>2. \A m \in 1 .. N : w[m].type # "close" BY DEF CloseAt
  <1> HIDE DEF w1, N
  <1> SUFFICES ASSUME NEW m \in 1 .. N + 1, w1[m].type = "close" PROVE c /\ m = N + 1
    BY <1>1 DEF CloseAt, w1
  <1>3. m = N + 1
    <2> SUFFICES ASSUME m # N + 1 PROVE FALSE OBVIOUS
    <2>1. m \in 1 .. N BY <1>1
    <2> QED BY <1>1, <1>2, <2>1
  <1> QED BY <1>1, <1>3

LEMMA RoutedMarks ==
  ASSUME NEW st \in Session, NEW e \in DataEvents
  PROVE  LET nx == Route(Touch(st, e), e) IN
         /\ nx.hasSeq = TRUE
         /\ Marked(st) \/ e.cut \/ (st.hasSeq /\ e.seq > st.seq + 1) => Marked(nx)
         /\ nx.req = st.req \/ nx.resp = st.resp
  <1> DEFINE t == Touch(st, e)  nx == Route(t, e)
  <1>1. /\ t.req = st.req /\ t.resp = st.resp /\ t.hasSeq = TRUE
        /\ t.gap = (st.gap \/ (st.hasSeq /\ e.seq > st.seq + 1)) /\ t.truncated = (st.truncated \/ e.cut)
        /\ DOMAIN t = {"req", "resp", "pending", "hasSeq", "seq", "gap", "truncated", "stale"}
    BY DEF Touch, Session
  <1> HIDE DEF t
  <1>2. nx = [t EXCEPT !.req = @ \o e.toks] \/ nx = [t EXCEPT !.resp = @ \o e.toks] BY DEF Route
  <1> HIDE DEF nx
  <1>3. nx.hasSeq = TRUE /\ nx.gap = t.gap /\ nx.truncated = t.truncated /\ (nx.req = t.req \/ nx.resp = t.resp)
    BY <1>1, <1>2
  <1>4. Marked(st) \/ e.cut \/ (st.hasSeq /\ e.seq > st.seq + 1) => t.gap \/ t.truncated
    BY <1>1 DEF Marked
  <1>5. Marked(st) \/ e.cut \/ (st.hasSeq /\ e.seq > st.seq + 1) => Marked(nx)
    BY <1>3, <1>4 DEF Marked
  <1> QED BY <1>1, <1>3, <1>5 DEF nx, t

LEMMA JoinOut ==
  ASSUME NEW p, NEW s \in Seq(Conv), NEW t \in Seq(Conv), AllOut(p, s), AllOut(p, t)
  PROVE  AllOut(p, s \o t)
  <1> DEFINE u == s \o t  m == Len(s)  n == Len(t)
  <1>1. /\ m \in Nat /\ n \in Nat /\ DOMAIN u = 1 .. m + n
        /\ \A i \in 1 .. m : u[i] = s[i] /\ i \in DOMAIN s
        /\ \A i \in 1 .. n : u[m + i] = t[i] /\ i \in DOMAIN t
    OBVIOUS
  <1> HIDE DEF u, m, n
  <1>2. ASSUME NEW i \in DOMAIN u PROVE Excused(p, u[i])
    <2>1. CASE i <= m
      <3>1. i \in 1 .. m BY <1>1, <2>1
      <3> QED BY <1>1, <3>1 DEF AllOut
    <2>2. CASE ~(i <= m)
      <3> DEFINE d == i - m
      <3>1. d \in 1 .. n /\ m + d = i BY <1>1, <2>2
      <3> HIDE DEF d
      <3>2. u[m + d] = t[d] /\ Excused(p, t[d]) BY <1>1, <3>1 DEF AllOut
      <3> QED BY <3>1, <3>2
    <2> QED BY <2>1, <2>2
  <1> QED BY <1>2 DEF AllOut, u

Unseen == {"loseFirst", "swapFirst", "dup", "expire", "overflow", "head"}

(* Event number n was captured at position P[n] of the requests and Q[n] of *)
(* the responses.                                                           *)
Routes(P, Q) ==
  /\ Positions(P) /\ Positions(Q) /\ P[0] = 0 /\ Q[0] = 0
  /\ P[nextSeq] <= Len(ReqStream(profile)) /\ Q[nextSeq] <= Len(RespStream(profile))
  /\ left.req = Cut(ReqStream(profile), P[nextSeq], Len(ReqStream(profile)))
  /\ left.resp = Cut(RespStream(profile), Q[nextSeq], Len(RespStream(profile)))
  /\ Travels(profile, wire, nextSeq, P, Q) /\ CloseAt(wire, closed)

(* the session has all events before number n *)
Intact(n, P, Q) ==
  /\ n \in Nat /\ n <= nextSeq /\ P[n] <= Len(ReqStream(profile)) /\ Q[n] <= Len(RespStream(profile))
  /\ Held(profile, heap[1], Len(emitted), P[n], Q[n]) /\ Expects(heap[1], n)
  /\ Later(wire, n)

(* no session yet: nothing was lost or reordered *)
Before ==
  /\ consumer = Poll /\ current = 0 /\ fresh = 0 /\ emitted = <<>> /\ Len(wire) = nextSeq
  /\ \A m \in 1 .. Len(wire) : wire[m].seq + 1 = m

Between(n, P, Q) ==
  /\ consumer = Poll /\ current = 1 /\ fresh = 1
  /\ Marked(heap[1]) \/ (Intact(n, P, Q) /\ heap[1].hasSeq)

Taken(n, P, Q) ==
  /\ consumer.pc = "process" /\ consumer.sid = 1 /\ current = 1 /\ fresh = 1
  /\ consumer.ev.seq < nextSeq /\ Sent(profile, consumer.ev, P, Q) /\ Without(wire, consumer.ev.seq)
  /\ \/ Marked(heap[1])
     \/ Intact(n, P, Q) /\ consumer.ev.seq >= n /\ (heap[1].hasSeq \/ consumer.ev.seq = n)

Ending(n, P, Q) ==
  /\ consumer.pc = "close" /\ consumer.sid = 1 /\ current = 1 /\ fresh = 1 /\ closed /\ Len(wire) <= 1
  /\ Marked(heap[1]) \/ Intact(n, P, Q)

Ended == consumer.pc = "remove" /\ current = 1 /\ fresh = 1 /\ closed /\ Len(wire) <= 1

(* the close was handled; one event that it overtook may be left *)
Done == consumer = Poll /\ closed /\ Len(wire) <= 1 /\ (current = 0 \/ wire = <<>>)

(* the event that was overtaken has a session of its own *)
Late ==
  /\ consumer.pc = "process" /\ consumer.sid = fresh /\ current = fresh /\ closed /\ wire = <<>>
  /\ heap[fresh].req = <<>> /\ heap[fresh].resp = <<>> /\ heap[fresh].pending = <<>>

Stage(n, P, Q) ==
  Before \/ Between(n, P, Q) \/ Taken(n, P, Q) \/ Ending(n, P, Q) \/ Ended \/ Done \/ Late

Blank == \A i \in 1 .. MaxSessions : i > fresh => heap[i] = NewSession

Follow ==
  /\ expired = {} /\ AllOut(profile, emitted) /\ Blank
  /\ \E n, P, Q : Routes(P, Q) /\ Stage(n, P, Q)

DInv == faults \cap Unseen = {} /\ Regular => Follow

LEMMA FollowInit == Init => DInv
  <1> SUFFICES ASSUME Init, Regular PROVE Follow BY DEF DInv
  <1> USE DEF Init
  <1> DEFINE P == [m \in Nat |-> 0]
  <1>1. Tellable(profile) BY DEF Regular
  <1>2. ReqStream(profile) \in Seq(Tok) /\ RespStream(profile) \in Seq(Tok) BY <1>1, StartsAre
  <1>3. left.req = ReqStream(profile) /\ left.resp = RespStream(profile)
    BY DEF ReqStream, RespStream, RequestsOf, ResponsesOf
  <1>4. left.req = Cut(ReqStream(profile), 0, Len(ReqStream(profile)))
        /\ left.resp = Cut(RespStream(profile), 0, Len(RespStream(profile)))
    BY <1>2, <1>3, CutAll
  <1>5. Len(wire) = 0 /\ DOMAIN emitted = {} /\ 1 .. Len(wire) = {} /\ Len(wire) = nextSeq
        /\ 0 <= Len(ReqStream(profile)) /\ 0 <= Len(RespStream(profile))
    BY <1>2
  <1>6. Positions(P) /\ P[0] = 0 BY DEF Positions
  <1> HIDE DEF P
  <1>7. P[nextSeq] = 0 /\ nextSeq = 0 BY <1>6
  <1>8. Travels(profile, wire, nextSeq, P, P) /\ CloseAt(wire, closed) BY <1>5 DEF Travels, CloseAt
  <1>9. Routes(P, P) BY <1>4, <1>5, <1>6, <1>7, <1>8 DEF Routes
  <1>10. Before BY <1>5 DEF Before
  <1>11. Stage(0, P, P) BY <1>10 DEF Stage
  <1>12. AllOut(profile, emitted) /\ Blank /\ expired = {} BY <1>5 DEF AllOut, Blank
  <1> QED BY <1>9, <1>11, <1>12 DEF Follow

LEMMA SentTypes ==
  ASSUME SInv
  PROVE  /\ wire \in Seq(Event) /\ nextSeq \in Nat /\ fresh \in 0 .. MaxSessions /\ fresh \in Nat
         /\ heap \in [1 .. MaxSessions -> Session] /\ 1 \in 1 .. MaxSessions /\ heap[1] \in Session
         /\ emitted \in Seq(Conv) /\ Len(emitted) \in Nat
         /\ consumer.pc = "process" => consumer.ev \in DataEvents /\ consumer.ev.seq \in Nat /\ consumer.sid \in 1 .. fresh
  <1>1. consumer.pc = "process" => consumer.ev \in DataEvents /\ consumer.sid \in 1 .. fresh
    BY DEF SInv, Types, ConsumerTypes, Poll
  <1>2. consumer.pc = "process" => consumer.ev.seq \in Nat BY <1>1 DEF DataEvents
  <1> QED BY <1>1, <1>2, LimitsAssumption DEF SInv, Types, CaptureTypes, StoreTypes

(* What a step that only puts an event on the wire has to show. *)
LEMMA EventFollowed ==
  ASSUME SInv, Follow, Regular, ~closed, closed' \in BOOLEAN,
         UNCHANGED <<profile, role, heap, fresh, current, consumer, expired, emitted>>,
         NEW e \in Event, HasNumber(e, nextSeq), wire' = Append(wire, e), nextSeq' = nextSeq + 1,
         e.type = "close" => closed',
         \A i1 \in Nat, j1 \in Nat :
           (/\ i1 <= Len(ReqStream(profile)) /\ j1 <= Len(RespStream(profile))
            /\ left.req = Cut(ReqStream(profile), i1, Len(ReqStream(profile)))
            /\ left.resp = Cut(RespStream(profile), j1, Len(RespStream(profile))))
           => \E a \in Nat, b \in Nat :
                /\ Brings(profile, e, nextSeq, i1, a, j1, b)
                /\ a <= Len(ReqStream(profile)) /\ b <= Len(RespStream(profile))
                /\ left'.req = Cut(ReqStream(profile), a, Len(ReqStream(profile)))
                /\ left'.resp = Cut(RespStream(profile), b, Len(RespStream(profile)))
  PROVE  Follow'
  <1>0. wire \in Seq(Event) /\ nextSeq \in Nat /\ (consumer.pc = "process" => consumer.ev \in DataEvents /\ consumer.ev.seq \in Nat)
    BY SentTypes
  <1>1. PICK n, P, Q : Routes(P, Q) /\ Stage(n, P, Q) BY DEF Follow
  <1>2. Positions(P) /\ Positions(Q) /\ P[0] = 0 /\ Q[0] = 0 /\ Travels(profile, wire, nextSeq, P, Q) /\ CloseAt(wire, closed)
    BY <1>1 DEF Routes
  <1>3. P[nextSeq] \in Nat /\ Q[nextSeq] \in Nat BY <1>0, <1>2 DEF Positions
  <1>4. PICK a \in Nat, b \in Nat :
          /\ Brings(profile, e, nextSeq, P[nextSeq], a, Q[nextSeq], b)
          /\ a <= Len(ReqStream(profile)) /\ b <= Len(RespStream(profile))
          /\ left'.req = Cut(ReqStream(profile), a, Len(ReqStream(profile)))
          /\ left'.resp = Cut(RespStream(profile), b, Len(RespStream(profile)))
    BY <1>1, <1>3 DEF Routes
  <1>5. PICK P1, Q1 :
          /\ Positions(P1) /\ Positions(Q1) /\ P1[nextSeq + 1] = a /\ Q1[nextSeq + 1] = b
          /\ \A m \in Nat : m <= nextSeq => P1[m] = P[m] /\ Q1[m] = Q[m]
          /\ \A d \in Event : d.seq < nextSeq /\ Sent(profile, d, P, Q) => Sent(profile, d, P1, Q1)
          /\ Travels(profile, Append(wire, e), nextSeq + 1, P1, Q1)
    <2> DEFINE R == [P EXCEPT ![nextSeq + 1] = a]  S == [Q EXCEPT ![nextSeq + 1] = b]
    <2>1. /\ Positions(R) /\ Positions(S) /\ R[nextSeq + 1] = a /\ S[nextSeq + 1] = b
          /\ \A m \in Nat : m <= nextSeq => R[m] = P[m] /\ S[m] = Q[m]
          /\ \A d \in Event : d.seq < nextSeq /\ Sent(profile, d, P, Q) => Sent(profile, d, R, S)
          /\ Travels(profile, Append(wire, e), nextSeq + 1, R, S)
      BY <1>0, <1>2, <1>4, AppendTravels
    <2> HIDE DEF R, S
    <2> QED BY <2>1
  <1>6. CloseAt(wire', closed')
    <2>1. CloseAt(wire, FALSE) BY <1>2 DEF CloseAt
    <2>2. CloseAt(Append(wire, e), closed') BY <1>0, <2>1, AppendCloseAt
    <2> QED BY <2>2
  <1>7. P1[0] = 0 /\ Q1[0] = 0
    <2>1. 0 \in Nat /\ 0 <= nextSeq BY <1>0
    <2> QED BY <1>2, <1>5, <2>1
  <1>8. Routes(P1, Q1)'
    <2>1. P1[nextSeq'] = a /\ Q1[nextSeq'] = b /\ profile' = profile BY <1>5
    <2>2. Travels(profile', wire', nextSeq', P1, Q1) BY <1>5
    <2>3. /\ P1[nextSeq'] <= Len(ReqStream(profile')) /\ Q1[nextSeq'] <= Len(RespStream(profile'))
          /\ left'.req = Cut(ReqStream(profile'), P1[nextSeq'], Len(ReqStream(profile')))
          /\ left'.resp = Cut(RespStream(profile'), Q1[nextSeq'], Len(RespStream(profile')))
      BY <1>4, <2>1
    <2>4. Positions(P1) /\ Positions(Q1) BY <1>5
    <2> QED BY ONLY <1>6, <1>7, <2>2, <2>3, <2>4 DEF Routes
  <1>9. /\ Len(wire) \in Nat /\ Len(wire') = Len(wire) + 1 /\ wire'[Len(wire) + 1] = e
        /\ \A m \in 1 .. Len(wire) : wire'[m] = wire[m]
    BY <1>0
  <1>10. ASSUME NEW m \in 1 .. Len(wire'), m \notin 1 .. Len(wire) PROVE wire'[m].seq = nextSeq /\ m = Len(wire) + 1
    <2>1. m = Len(wire) + 1 BY <1>9, <1>10
    <2> QED BY <1>9, <2>1 DEF HasNumber
  <1>11. ASSUME Intact(n, P, Q) PROVE Intact(n, P1, Q1)'
    <2>1. n \in Nat /\ n <= nextSeq /\ Later(wire, n) BY <1>11 DEF Intact
    <2>2. P1[n] = P[n] /\ Q1[n] = Q[n] /\ n <= nextSeq' BY <1>0, <1>5, <2>1
    <2>3. ASSUME NEW m \in 1 .. Len(wire') PROVE wire'[m].seq >= n
      <3>1. CASE m \in 1 .. Len(wire) BY <1>9, <2>1, <3>1 DEF Later
      <3>2. CASE m \notin 1 .. Len(wire)
        <4>1. wire'[m].seq = nextSeq BY <1>10, <3>2
        <4>2. nextSeq >= n BY <1>0, <2>1
        <4> QED BY <4>1, <4>2
      <3> QED BY <3>1, <3>2
    <2>4. Later(wire', n) BY <2>3 DEF Later
    <2>5. /\ P1[n] <= Len(ReqStream(profile')) /\ Q1[n] <= Len(RespStream(profile'))
          /\ Held(profile', heap'[1], Len(emitted'), P1[n], Q1[n]) /\ Expects(heap'[1], n)
      BY <1>11, <2>2 DEF Intact
    <2> QED BY ONLY <2>1, <2>2, <2>4, <2>5 DEF Intact
  <1>12. Stage(n, P1, Q1)'
    <2>1. CASE Before
      <3>1. Len(wire) = nextSeq /\ \A m \in 1 .. Len(wire) : wire[m].seq + 1 = m BY <2>1 DEF Before
      <3>2. ASSUME NEW m \in 1 .. Len(wire') PROVE wire'[m].seq + 1 = m
        <4>1. CASE m \in 1 .. Len(wire) BY <1>9, <3>1, <4>1
        <4>2. CASE m \notin 1 .. Len(wire)
          <5>1. wire'[m].seq = nextSeq /\ m = Len(wire) + 1 BY <1>10, <4>2
          <5> QED BY <3>1, <5>1
        <4> QED BY <4>1, <4>2
      <3>3. Len(wire') = nextSeq' BY <1>9, <3>1
      <3>4. Before' BY <2>1, <3>2, <3>3 DEF Before
      <3> QED BY <3>4 DEF Stage
    <2>2. CASE Between(n, P, Q)
      <3>1. Between(n, P1, Q1)' BY <1>11, <2>2 DEF Between
      <3> QED BY <3>1 DEF Stage
    <2>3. CASE Taken(n, P, Q)
      <3> DEFINE d == consumer.ev
      <3>1. d.seq < nextSeq /\ Sent(profile, d, P, Q) /\ Without(wire, d.seq) /\ d \in Event /\ d.seq \in Nat
        BY <1>0, <2>3 DEF Taken, Event
      <3>2. Sent(profile, d, P1, Q1) BY <1>5, <3>1
      <3>3. ASSUME NEW m \in 1 .. Len(wire') PROVE wire'[m].seq # d.seq
        <4>1. CASE m \in 1 .. Len(wire) BY <1>9, <3>1, <4>1 DEF Without
        <4>2. CASE m \notin 1 .. Len(wire)
          <5>1. wire'[m].seq = nextSeq BY <1>10, <4>2
          <5> QED BY <1>0, <3>1, <5>1
        <4> QED BY <4>1, <4>2
      <3>4. Without(wire', d.seq) BY <3>3 DEF Without
      <3>5. d.seq < nextSeq' BY <1>0, <3>1
      <3>6. \/ Marked(heap'[1])
            \/ Intact(n, P1, Q1)' /\ d.seq >= n /\ (heap'[1].hasSeq \/ d.seq = n)
        BY <1>11, <2>3 DEF Taken
      <3>7. consumer'.ev = d /\ profile' = profile OBVIOUS
      <3>8. consumer'.ev.seq < nextSeq' /\ Sent(profile', consumer'.ev, P1, Q1) /\ Without(wire', consumer'.ev.seq)
        BY <3>2, <3>4, <3>5, <3>7
      <3>9. \/ Marked(heap'[1])
            \/ Intact(n, P1, Q1)' /\ consumer'.ev.seq >= n /\ (heap'[1].hasSeq \/ consumer'.ev.seq = n)
        BY <3>6, <3>7
      <3>10. consumer'.pc = "process" /\ consumer'.sid = 1 /\ current' = 1 /\ fresh' = 1
        BY <2>3 DEF Taken
      <3>11. Taken(n, P1, Q1)' BY ONLY <3>8, <3>9, <3>10 DEF Taken
      <3> QED BY <3>11 DEF Stage
    <2>4. ~Ending(n, P, Q) /\ ~Ended /\ ~Done /\ ~Late BY DEF Ending, Ended, Done, Late
    <2> QED BY <1>1, <2>1, <2>2, <2>3, <2>4 DEF Stage
  <1>13. AllOut(profile, emitted)' /\ Blank' /\ expired' = {} BY DEF Follow, Blank
  <1> QED BY <1>8, <1>12, <1>13 DEF Follow

LEMMA CaptureFollowed ==
  ASSUME SInv, Follow, Regular, NEW side \in {"req", "resp"}, NEW n \in 1 .. MaxChunk, Capture(side, n),
         faults' \cap Unseen = {}
  PROVE  Follow'
  <1> DEFINE p == profile  f == ReqStream(p)  g == RespStream(p)
  <1>1. /\ ~closed /\ closed' = closed /\ n <= Len(left[side]) /\ nextSeq' = nextSeq + 1
        /\ left' = [left EXCEPT ![side] = SubSeq(@, n + 1, Len(@))]
        /\ UNCHANGED <<profile, role, heap, fresh, current, consumer, expired, emitted>>
    BY DEF Capture, MayCarry
  <1>2. left \in [req : Seq(Tok), resp : Seq(Tok)] /\ nextSeq \in Nat /\ n \in Nat /\ left[side] \in Seq(Tok)
    BY LimitsAssumption DEF SInv, Types, CaptureTypes
  <1>3. PICK k \in Nat, cut \in BOOLEAN :
          k <= n /\ (~cut => k = n) /\ wire' = Append(wire, DataEvent(side, SubSeq(left[side], 1, k), cut))
    <2>1. CASE wire' = Append(wire, DataEvent(side, SubSeq(left[side], 1, n), FALSE))
      <3>1. n <= n /\ n \in Nat BY <1>2
      <3> QED BY <2>1, <3>1
    <2>2. CASE n > 1 /\ wire' = Append(wire, DataEvent(side, SubSeq(left[side], 1, n - 1), TRUE))
      <3>1. n - 1 \in Nat /\ n - 1 <= n BY <1>2, <2>2
      <3> QED BY <2>2, <3>1
    <2> QED BY <2>1, <2>2 DEF Capture
  <1> DEFINE t == SubSeq(left[side], 1, k)  e == DataEvent(side, t, cut)
  <1>4. e = [type |-> "data", seq |-> nextSeq, dir |-> IF side = "req" THEN "read" ELSE "write", toks |-> t, cut |-> cut]
    BY DEF DataEvent, Direction, Regular
  <1>5. f \in Seq(Tok) /\ g \in Seq(Tok) BY StartsAre DEF Regular
  <1>6. t \in Seq(Tok)
    <2> DEFINE l == left[side]
    <2>1. l \in Seq(Tok) /\ k \in Nat /\ k <= Len(l) BY <1>1, <1>2, <1>3
    <2> HIDE DEF l
    <2>2. SubSeq(l, 1, k) \in Seq(Tok) BY <2>1
    <2> QED BY <2>2 DEF l
  <1> HIDE DEF f, g, e, t
  <1>7. e.type = "data" /\ e.seq = nextSeq /\ e.cut = cut /\ e.toks = t /\ e.dir = IF side = "req" THEN "read" ELSE "write"
    BY <1>4
  <1>8. e \in Event /\ HasNumber(e, nextSeq)
    BY <1>2, <1>4, <1>6, <1>7 DEF Event, DataEvents, HasNumber
  <1>9. ASSUME NEW i1 \in Nat, NEW j1 \in Nat, i1 <= Len(f), j1 <= Len(g),
               left.req = Cut(f, i1, Len(f)), left.resp = Cut(g, j1, Len(g))
        PROVE  \E a \in Nat, b \in Nat :
                 /\ Brings(p, e, nextSeq, i1, a, j1, b)
                 /\ a <= Len(f) /\ b <= Len(g)
                 /\ left'.req = Cut(f, a, Len(f)) /\ left'.resp = Cut(g, b, Len(g))
    <2>0. i1 <= i1 /\ j1 <= j1 OBVIOUS
    <2>1. CASE side = "req"
      <3>1. left'.req = SubSeq(left.req, n + 1, Len(left.req)) /\ left'.resp = left.resp /\ n <= Len(left.req)
        BY <1>1, <1>2, <2>1
      <3> DEFINE a == i1 + n  l == left.req
      <3>2. l = Cut(f, i1, Len(f)) /\ n <= Len(l) BY <1>9, <3>1
      <3> HIDE DEF l
      <3>3. a \in Nat /\ a <= Len(f) /\ i1 <= a /\ SubSeq(l, 1, n) = Cut(f, i1, a) /\ SubSeq(l, n + 1, Len(l)) = Cut(f, a, Len(f))
        <4>1. f \in Seq(Tok) /\ i1 \in Nat /\ i1 <= Len(f) /\ n \in Nat BY <1>2, <1>5, <1>9
        <4> QED BY <3>2, <4>1, CutFirst
      <3> HIDE DEF a
      <3>4. ~cut => e.cut = FALSE /\ e.dir = "read" /\ e.toks = Cut(f, i1, a)
        BY <1>3, <1>7, <2>1, <3>3 DEF l, t
      <3>7. f[i1 + 1].kind # "line"
        <4>1. f \in Seq(Tok) /\ i1 \in Nat /\ i1 <= Len(f) /\ n \in Nat \ {0} BY <1>2, <1>5, <1>9
        <4>2. l[1] = f[i1 + 1] BY <3>2, <4>1, FirstLeft
        <4>3. "head" \notin faults' BY DEF Unseen
        <4>4. l[1].kind # "line" BY <2>1, <4>3, NoHeadSplit DEF l
        <4> QED BY <4>2, <4>4
      <3>5. ~cut => Piece(p, e, nextSeq, i1, a, j1, j1)
        BY <1>7, <1>9, <2>0, <3>3, <3>4, <3>7 DEF Piece, f, g
      <3>6. Brings(p, e, nextSeq, i1, a, j1, j1) BY <1>7, <3>5 DEF Brings
      <3> QED BY <1>9, <3>1, <3>3, <3>6 DEF l
    <2>2. CASE side = "resp"
      <3>1. left'.resp = SubSeq(left.resp, n + 1, Len(left.resp)) /\ left'.req = left.req /\ n <= Len(left.resp)
        BY <1>1, <1>2, <2>2
      <3> DEFINE b == j1 + n  l == left.resp
      <3>2. l = Cut(g, j1, Len(g)) /\ n <= Len(l) BY <1>9, <3>1
      <3> HIDE DEF l
      <3>3. b \in Nat /\ b <= Len(g) /\ j1 <= b /\ SubSeq(l, 1, n) = Cut(g, j1, b) /\ SubSeq(l, n + 1, Len(l)) = Cut(g, b, Len(g))
        <4>1. g \in Seq(Tok) /\ j1 \in Nat /\ j1 <= Len(g) /\ n \in Nat BY <1>2, <1>5, <1>9
        <4> QED BY <3>2, <4>1, CutFirst
      <3> HIDE DEF b
      <3>4. ~cut => e.cut = FALSE /\ e.dir = "write" /\ e.toks = Cut(g, j1, b)
        BY <1>3, <1>7, <2>2, <3>3 DEF l, t
      <3>5. ~cut => Piece(p, e, nextSeq, i1, i1, j1, b)
        BY <1>7, <1>9, <2>0, <3>3, <3>4 DEF Piece, f, g
      <3>6. Brings(p, e, nextSeq, i1, i1, j1, b) BY <1>7, <3>5 DEF Brings
      <3> QED BY <1>9, <3>1, <3>3, <3>6 DEF l
    <2> QED BY <2>1, <2>2
  <1>10. closed' \in BOOLEAN /\ e.type # "close" /\ wire' = Append(wire, e)
    <2>1. closed' = FALSE BY <1>1
    <2> QED BY <1>3, <1>7, <2>1 DEF e, t
  <1> QED BY <1>1, <1>8, <1>9, <1>10, EventFollowed DEF f, g

LEMMA CaptureCloseFollowed ==
  ASSUME SInv, Follow, Regular, CaptureClose
  PROVE  Follow'
  <1> DEFINE e == [type |-> "close", seq |-> nextSeq]  p == profile  f == ReqStream(p)  g == RespStream(p)
  <1>1. /\ ~closed /\ closed' = TRUE /\ left' = left /\ nextSeq' = nextSeq + 1 /\ wire' = Append(wire, e)
        /\ UNCHANGED <<profile, role, heap, fresh, current, consumer, expired, emitted>>
    BY DEF CaptureClose
  <1>2. e \in Event /\ e.type = "close" /\ e.seq = nextSeq
    BY DEF SInv, Types, CaptureTypes, Event, CloseEvents
  <1> HIDE DEF f, g, e
  <1>3. HasNumber(e, nextSeq) BY <1>2 DEF HasNumber
  <1>4. ASSUME NEW i1 \in Nat, NEW j1 \in Nat PROVE Brings(p, e, nextSeq, i1, i1, j1, j1)
    BY <1>2 DEF Brings
  <1> QED BY <1>1, <1>2, <1>3, <1>4, EventFollowed DEF f, g

(* Events that disappear or change places on the wire of a session. *)
LEMMA ThinFollowed ==
  ASSUME SInv, Follow, Regular, current # 0, wire # <<>>, Len(wire') <= Len(wire), Len(wire') \in Nat,
         Part(wire', wire), CloseAt(wire, closed) => CloseAt(wire', closed),
         UNCHANGED <<profile, role, left, closed, nextSeq, heap, fresh, current, consumer, expired, emitted>>
  PROVE  Follow'
  <1>0. wire \in Seq(Event) BY SentTypes
  <1>1. PICK n, P, Q : Routes(P, Q) /\ Stage(n, P, Q) BY DEF Follow
  <1>2. Travels(profile, wire', nextSeq, P, Q) BY <1>1, PartKeeps DEF Routes
  <1>3. Routes(P, Q)' BY <1>1, <1>2 DEF Routes
  <1>4. ASSUME Intact(n, P, Q) PROVE Intact(n, P, Q)'
    <2>1. Later(wire, n) BY <1>4 DEF Intact
    <2>2. Later(wire', n) BY <2>1, PartKeeps
    <2> QED BY <1>4, <2>2 DEF Intact
  <1>5. Len(wire) <= 1 => Len(wire') <= 1
    <2>1. Len(wire) \in Nat BY <1>0
    <2> QED BY <2>1
  <1>6. Stage(n, P, Q)'
    <2>1. CASE Between(n, P, Q)
      <3>1. Between(n, P, Q)' BY <1>4, <2>1 DEF Between
      <3> QED BY <3>1 DEF Stage
    <2>2. CASE Taken(n, P, Q)
      <3>1. Without(wire, consumer.ev.seq) BY <2>2 DEF Taken
      <3>2. Without(wire', consumer.ev.seq) BY <3>1, PartKeeps
      <3>3. Taken(n, P, Q)' BY <1>4, <2>2, <3>2 DEF Taken
      <3> QED BY <3>3 DEF Stage
    <2>3. CASE Ending(n, P, Q)
      <3>1. Ending(n, P, Q)' BY <1>4, <1>5, <2>3 DEF Ending
      <3> QED BY <3>1 DEF Stage
    <2>4. CASE Ended
      <3>1. Ended' BY <1>5, <2>4 DEF Ended
      <3> QED BY <3>1 DEF Stage
    <2>5. ~Before /\ ~Done /\ ~Late BY DEF Before, Done, Late
    <2> QED BY <1>1, <2>1, <2>2, <2>3, <2>4, <2>5 DEF Stage
  <1>7. AllOut(profile, emitted)' /\ Blank' /\ expired' = {} BY DEF Follow, Blank
  <1> QED BY <1>3, <1>6, <1>7 DEF Follow

LEMMA LoseFollowed ==
  ASSUME SInv, Follow, Regular, Lose, faults' \cap Unseen = {}
  PROVE  Follow'
  <1>1. /\ wire # <<>> /\ wire' = Tail(wire) /\ faults' = faults \cup {IF current = 0 THEN "loseFirst" ELSE "lose"}
        /\ UNCHANGED <<profile, role, left, closed, nextSeq, heap, fresh, current, consumer, expired, emitted>>
    BY DEF Lose, captureVars
  <1>2. current # 0 BY <1>1 DEF Unseen
  <1>3. wire \in Seq(Event) BY SentTypes
  <1> DEFINE t == Tail(wire)
  <1>4. Len(t) \in Nat /\ Len(wire) = Len(t) + 1 /\ Part(t, wire) /\ (CloseAt(wire, closed) => CloseAt(t, closed))
    BY <1>1, <1>3, TailIs
  <1>5. wire' = t BY <1>1
  <1> HIDE DEF t
  <1>6. Len(t) <= Len(wire) BY <1>4
  <1> QED BY <1>1, <1>2, <1>4, <1>5, <1>6, ThinFollowed

LEMMA SwapFollowed ==
  ASSUME SInv, Follow, Regular, Swap, faults' \cap Unseen = {}
  PROVE  Follow'
  <1>1. /\ Len(wire) >= 2 /\ faults' = faults \cup {IF current = 0 THEN "swapFirst" ELSE "swap"}
        /\ wire' = [i \in DOMAIN wire |-> IF i = 1 THEN wire[2] ELSE IF i = 2 THEN wire[1] ELSE wire[i]]
        /\ UNCHANGED <<profile, role, left, closed, nextSeq, heap, fresh, current, consumer, expired, emitted>>
    BY DEF Swap, captureVars
  <1>2. current # 0 BY <1>1 DEF Unseen
  <1>3. wire \in Seq(Event) /\ Len(wire) \in Nat /\ wire # <<>>
    <2>1. wire \in Seq(Event) BY SentTypes
    <2> QED BY <1>1, <2>1
  <1>4. Len(wire') = Len(wire) /\ Part(wire', wire) /\ (CloseAt(wire, closed) => CloseAt(wire', closed))
    BY <1>1, <1>3, SwapIs
  <1>5. Len(wire') <= Len(wire) /\ Len(wire') \in Nat BY <1>3, <1>4
  <1> QED BY <1>1, <1>2, <1>3, <1>4, <1>5, ThinFollowed

LEMMA ReceiveFollowed ==
  ASSUME SInv, Follow, Regular, Receive(FALSE)
  PROVE  Follow'
  <1> DEFINE e == Head(wire)  t == Tail(wire)
  <1>1. /\ consumer.pc = "poll" /\ wire # <<>> /\ wire' = t
        /\ (e.type = "data" /\ getOrCreate(e)) \/ (e.type = "close" /\ Lookup(e))
        /\ UNCHANGED <<profile, role, left, closed, nextSeq, heap, expired, emitted>>
    BY DEF Receive, captureVars
  <1>2. wire \in Seq(Event) /\ nextSeq \in Nat /\ fresh \in 0 .. MaxSessions /\ 1 \in 1 .. MaxSessions
    BY SentTypes
  <1>3. PICK n, P, Q : Routes(P, Q) /\ Stage(n, P, Q) BY DEF Follow
  <1>4. Positions(P) /\ Positions(Q) /\ P[0] = 0 /\ Q[0] = 0 /\ Travels(profile, wire, nextSeq, P, Q) /\ CloseAt(wire, closed)
    BY <1>3 DEF Routes
  <1>5. /\ Len(t) \in Nat /\ Len(wire) = Len(t) + 1 /\ e = wire[1] /\ 1 \in 1 .. Len(wire)
        /\ Part(t, wire) /\ CloseAt(t, closed) /\ Without(t, e.seq) /\ t \in Seq(Event)
    BY <1>1, <1>2, <1>4, TailIs
  <1> HIDE DEF e, t
  <1>6. Len(t) = 0 => t = <<>> BY <1>5
  <1>7. Travels(profile, t, nextSeq, P, Q) BY <1>4, <1>5, PartKeeps
  <1>8. Routes(P, Q)' BY <1>1, <1>3, <1>5, <1>7 DEF Routes
  <1>9. e.seq < nextSeq /\ Sent(profile, e, P, Q) /\ (e.type = "close" => closed /\ Len(t) <= 1)
    <2>1. e.seq < nextSeq /\ Sent(profile, e, P, Q) BY <1>4, <1>5 DEF Travels
    <2>2. e.type = "close" => closed /\ (1 = Len(wire) \/ Len(wire) = 2) BY <1>4, <1>5 DEF CloseAt
    <2>3. 1 = Len(wire) \/ Len(wire) = 2 => Len(t) <= 1 BY <1>5
    <2> QED BY <2>1, <2>2, <2>3
  <1>10. ASSUME NEW m, Intact(m, P, Q) PROVE Intact(m, P, Q)' /\ e.seq >= m
    <2>1. Later(wire, m) BY <1>10 DEF Intact
    <2>2. Later(wire', m) BY <1>1, <1>5, <2>1, PartKeeps
    <2>3. e.seq >= m BY <1>5, <2>1 DEF Later
    <2> QED BY <1>1, <1>10, <2>2, <2>3 DEF Intact
  <1>11. AllOut(profile, emitted)' /\ expired' = {} BY <1>1 DEF Follow
  <1>12. CASE Before
    <2>1. /\ current = 0 /\ fresh = 0 /\ emitted = <<>> /\ Len(wire) = nextSeq
          /\ \A m \in 1 .. Len(wire) : wire[m].seq + 1 = m
      BY <1>12 DEF Before
    <2>2. CASE e.type = "data" /\ getOrCreate(e)
      <3>1. fresh' = 1 /\ current' = 1 /\ consumer' = [pc |-> "process", ev |-> e, sid |-> 1]
        <4>1. fresh' = fresh + 1 /\ current' = fresh + 1 /\ consumer' = [pc |-> "process", ev |-> e, sid |-> fresh + 1] /\ fresh + 1 = 1
          BY <2>1, <2>2 DEF getOrCreate
        <4> QED BY <4>1
      <3>2. consumer'.pc = "process" /\ consumer'.ev = e /\ consumer'.sid = 1 BY <3>1
      <3>3. heap[1] = NewSession BY <1>2, <2>1 DEF Follow, Blank
      <3>4. Held(profile, heap[1], Len(emitted), P[0], Q[0]) /\ Expects(heap[1], 0)
        <4>1. Held(profile, NewSession, 0, 0, 0) /\ NewSession.hasSeq = FALSE
          BY NewHeld DEF Regular, NewSession
        <4>2. Len(emitted) = 0 BY <2>1
        <4> QED BY <1>4, <3>3, <4>1, <4>2 DEF Expects
      <3>5. e.seq = 0
        <4>1. e.seq + 1 = 1 /\ e \in Event BY <1>2, <1>5, <2>1
        <4>2. e.seq \in Nat BY <4>1 DEF Event, DataEvents, CloseEvents
        <4> QED BY <4>1, <4>2
      <3>6. Later(wire, 0)
        <4>1. ASSUME NEW m \in 1 .. Len(wire) PROVE wire[m].seq >= 0
          <5>1. wire[m] \in Event BY <1>2
          <5>2. wire[m].seq \in Nat BY <5>1 DEF Event, DataEvents, CloseEvents
          <5> QED BY <5>2
        <4> QED BY <4>1 DEF Later
      <3>7. Intact(0, P, Q)
        <4>1. ReqStream(profile) \in Seq(Tok) /\ RespStream(profile) \in Seq(Tok)
          BY StartsAre DEF Regular
        <4>2. 0 \in Nat /\ 0 <= nextSeq /\ P[0] <= Len(ReqStream(profile)) /\ Q[0] <= Len(RespStream(profile))
          BY <1>2, <1>4, <4>1
        <4> QED BY <3>4, <3>6, <4>2 DEF Intact
      <3>8. Intact(0, P, Q)' /\ e.seq >= 0 BY <1>10, <3>7
      <3>9. Taken(0, P, Q)' BY <1>1, <1>5, <1>9, <3>1, <3>2, <3>5, <3>8 DEF Taken
      <3>10. Stage(0, P, Q)' BY <3>9 DEF Stage
      <3>11. Blank' BY <1>1, <2>1, <3>1 DEF Follow, Blank
      <3> QED BY <1>8, <1>11, <3>10, <3>11 DEF Follow
    <2>3. CASE e.type = "close" /\ Lookup(e)
      <3>1. consumer' = Poll /\ fresh' = fresh /\ current' = 0 BY <2>1, <2>3 DEF Lookup
      <3>2. Done' BY <1>1, <1>9, <2>3, <3>1 DEF Done
      <3>3. Stage(n, P, Q)' BY <3>2 DEF Stage
      <3>4. Blank' BY <1>1, <3>1 DEF Follow, Blank
      <3> QED BY <1>8, <1>11, <3>3, <3>4 DEF Follow
    <2> QED BY <1>1, <2>2, <2>3
  <1>13. CASE Between(n, P, Q)
    <2>1. current = 1 /\ fresh = 1 /\ (Marked(heap[1]) \/ (Intact(n, P, Q) /\ heap[1].hasSeq))
      BY <1>13 DEF Between
    <2>2. Marked(heap'[1]) \/ (Intact(n, P, Q)' /\ e.seq >= n /\ heap'[1].hasSeq)
      BY <1>1, <1>10, <2>1
    <2>3. CASE e.type = "data" /\ getOrCreate(e)
      <3>1. fresh' = 1 /\ current' = 1 /\ consumer' = [pc |-> "process", ev |-> e, sid |-> 1]
        BY <2>1, <2>3 DEF getOrCreate
      <3>2. consumer'.pc = "process" /\ consumer'.ev = e /\ consumer'.sid = 1 BY <3>1
      <3>3. Taken(n, P, Q)' BY <1>1, <1>5, <1>9, <2>2, <3>1, <3>2 DEF Taken
      <3>4. Stage(n, P, Q)' BY <3>3 DEF Stage
      <3>5. Blank' BY <1>1, <2>1, <3>1 DEF Follow, Blank
      <3> QED BY <1>8, <1>11, <3>4, <3>5 DEF Follow
    <2>4. CASE e.type = "close" /\ Lookup(e)
      <3>1. fresh' = 1 /\ current' = 1 /\ consumer' = [pc |-> "close", ev |-> e, sid |-> 1]
        BY <2>1, <2>4 DEF Lookup
      <3>2. consumer'.pc = "close" /\ consumer'.sid = 1 BY <3>1
      <3>3. Ending(n, P, Q)' BY <1>1, <1>9, <2>2, <2>4, <3>1, <3>2 DEF Ending
      <3>4. Stage(n, P, Q)' BY <3>3 DEF Stage
      <3>5. Blank' BY <1>1, <2>1, <3>1 DEF Follow, Blank
      <3> QED BY <1>8, <1>11, <3>4, <3>5 DEF Follow
    <2> QED BY <1>1, <2>3, <2>4
  <1>14. CASE Done
    <2>1. closed /\ Len(wire) <= 1 /\ current = 0 BY <1>1, <1>14 DEF Done
    <2>2. t = <<>> /\ Len(t) <= 1
      <3>1. Len(t) = 0 BY <1>5, <2>1
      <3> QED BY <1>6, <3>1
    <2>3. CASE e.type = "data" /\ getOrCreate(e)
      <3>1. /\ fresh < MaxSessions /\ fresh' = fresh + 1 /\ current' = fresh + 1
            /\ consumer' = [pc |-> "process", ev |-> e, sid |-> fresh + 1]
        BY <2>1, <2>3 DEF getOrCreate
      <3>2. consumer'.pc = "process" /\ consumer'.sid = fresh' BY <3>1
      <3>3. heap'[fresh'] = NewSession
        <4>1. fresh + 1 \in 1 .. MaxSessions /\ fresh + 1 > fresh BY <1>2, <3>1, LimitsAssumption
        <4>2. heap[fresh + 1] = NewSession BY <4>1 DEF Follow, Blank
        <4> QED BY <1>1, <3>1, <4>2
      <3>4. heap'[fresh'].req = <<>> /\ heap'[fresh'].resp = <<>> /\ heap'[fresh'].pending = <<>>
        BY <3>3 DEF NewSession
      <3>5. Late' BY <1>1, <2>1, <2>2, <3>1, <3>2, <3>4 DEF Late
      <3>6. Stage(n, P, Q)' BY <3>5 DEF Stage
      <3>7. Blank'
        <4> SUFFICES ASSUME NEW i \in 1 .. MaxSessions, i > fresh' PROVE heap'[i] = NewSession
          BY DEF Blank
        <4>1. i > fresh BY <1>2, <3>1
        <4> QED BY <1>1, <4>1 DEF Follow, Blank
      <3> QED BY <1>8, <1>11, <3>6, <3>7 DEF Follow
    <2>4. CASE e.type = "close" /\ Lookup(e)
      <3>1. consumer' = Poll /\ fresh' = fresh /\ current' = 0 BY <2>1, <2>4 DEF Lookup
      <3>2. Done' BY <1>1, <2>1, <2>2, <3>1 DEF Done
      <3>3. Stage(n, P, Q)' BY <3>2 DEF Stage
      <3>4. Blank' BY <1>1, <3>1 DEF Follow, Blank
      <3> QED BY <1>8, <1>11, <3>3, <3>4 DEF Follow
    <2> QED BY <1>1, <2>3, <2>4
  <1>15. ~Taken(n, P, Q) /\ ~Ending(n, P, Q) /\ ~Ended /\ ~Late
    BY <1>1 DEF Taken, Ending, Ended, Late
  <1> QED BY <1>3, <1>12, <1>13, <1>14, <1>15 DEF Stage

(* an event is added to a session *)
LEMMA ProcessTaken ==
  ASSUME SInv, Follow, Regular, Process, faults' \cap Unseen = {},
         NEW n, NEW P, NEW Q, Routes(P, Q), Taken(n, P, Q)
  PROVE  Follow'
  <1> DEFINE e == consumer.ev  h == heap[1]  st == Route(Touch(h, e), e)  k == Len(emitted)
             res == drainParsedConversations(st, FALSE)
  <1>1. /\ consumer.pc = "process" /\ consumer.sid = 1 /\ current = 1 /\ fresh = 1
        /\ e.seq < nextSeq /\ Sent(profile, e, P, Q) /\ Without(wire, e.seq)
        /\ \/ Marked(h)
           \/ Intact(n, P, Q) /\ e.seq >= n /\ (h.hasSeq \/ e.seq = n)
    BY DEF Taken
  <1>2. /\ heap' = [heap EXCEPT ![1] = res.st] /\ emitted' = emitted \o res.out /\ consumer' = Poll
        /\ UNCHANGED <<profile, role, left, closed, nextSeq, wire, fresh, current, expired>>
    <2>1. "overflow" \notin faults' BY DEF Unseen
    <2> QED BY <1>1, <2>1 DEF Process, Drain, captureVars
  <1>3. /\ heap \in [1 .. MaxSessions -> Session] /\ 1 \in 1 .. MaxSessions /\ h \in Session /\ wire \in Seq(Event)
        /\ emitted \in Seq(Conv) /\ k \in Nat /\ e \in DataEvents /\ e.seq \in Nat /\ nextSeq \in Nat
    BY <1>1, SentTypes
  <1>4. Tellable(profile) BY DEF Regular
  <1> HIDE DEF e, h, k
  <1>5. /\ st \in Session /\ st.hasSeq = TRUE
        /\ Marked(h) \/ e.cut \/ (h.hasSeq /\ e.seq > h.seq + 1) => Marked(st)
    BY <1>3, RoutedIs, RoutedMarks
  <1>6. ASSUME ~Marked(st)
        PROVE  /\ n \in Nat /\ Intact(n, P, Q) /\ HasNumber(e, n)
               /\ Piece(profile, e, n, P[n], P[n + 1], Q[n], Q[n + 1])
    <2>1. Intact(n, P, Q) /\ e.seq >= n /\ (h.hasSeq \/ e.seq = n) /\ ~e.cut /\ ~(h.hasSeq /\ e.seq > h.seq + 1)
      BY <1>1, <1>5, <1>6
    <2>2. n \in Nat /\ Expects(h, n) BY <2>1 DEF Intact, h
    <2>3. h.seq \in Nat BY <1>3 DEF Session
    <2>4. e.seq = n BY <1>3, <2>1, <2>2, <2>3 DEF Expects
    <2>5. e.type = "data" BY <1>3 DEF DataEvents
    <2>6. Piece(profile, e, e.seq, P[e.seq], P[e.seq + 1], Q[e.seq], Q[e.seq + 1])
      BY <1>1, <2>1, <2>5 DEF Sent, Brings
    <2>7. Piece(profile, e, n, P[n], P[n + 1], Q[n], Q[n + 1]) BY <2>4, <2>6
    <2> QED BY <2>1, <2>2, <2>4, <2>7 DEF HasNumber
  <1> HIDE DEF st
  <1>7. res \in Result BY <1>5, DrainIs
  <1>8. res.st \in Session /\ res.out \in Seq(Conv) BY <1>7 DEF Result
  <1>9. CASE Marked(st)
    <2>1. Marked(res.st) /\ AllOut(profile, res.out) BY <1>5, <1>9, MarkedDrain
    <2> HIDE DEF res
    <2>2. Marked(heap'[1]) BY <1>2, <1>3, <2>1
    <2>3. AllOut(profile', emitted')
      <3>1. AllOut(profile, emitted \o res.out) BY <1>3, <1>8, <2>1, JoinOut DEF Follow
      <3> QED BY <1>2, <3>1
    <2>4. Between(n, P, Q)' BY <1>1, <1>2, <2>2 DEF Between
    <2>5. Stage(n, P, Q)' BY <2>4 DEF Stage
    <2>6. Routes(P, Q)' BY <1>2 DEF Routes
    <2>7. Blank'
      <3> SUFFICES ASSUME NEW i \in 1 .. MaxSessions, i > fresh' PROVE heap'[i] = NewSession
        BY DEF Blank
      <3>1. i > fresh /\ i # 1 BY <1>1, <1>2
      <3> QED BY <1>2, <1>3, <3>1 DEF Follow, Blank
    <2>8. expired' = {} BY <1>2 DEF Follow
    <2> QED BY <2>3, <2>5, <2>6, <2>7, <2>8 DEF Follow
  <1>10. CASE ~Marked(st)
    <2>1. n \in Nat /\ Intact(n, P, Q) /\ HasNumber(e, n) /\ Piece(profile, e, n, P[n], P[n + 1], Q[n], Q[n + 1])
      BY <1>6, <1>10
    <2>2. Held(profile, h, k, P[n], Q[n]) /\ Expects(h, n) /\ Later(wire, n)
      BY <2>1 DEF Intact, h, k
    <2> DEFINE i == P[n]  j == Q[n]  i1 == P[n + 1]  j1 == Q[n + 1]
    <2>3. Held(profile, st, k, i1, j1) /\ Expects(st, n + 1)
      <3>1. Piece(profile, e, n, i, i1, j, j1) /\ Held(profile, h, k, i, j) BY <2>1, <2>2
      <3> HIDE DEF i, j, i1, j1
      <3>2. Held(profile, Route(Touch(h, e), e), k, i1, j1)
        BY <1>3, <1>4, <2>1, <2>2, <3>1, RoutedHeld
      <3>3. Expects(Route(Touch(h, e), e), n + 1) BY <1>3, <1>4, <2>1, <2>2, <3>1, RoutedHeld
      <3> QED BY <3>2, <3>3 DEF st
    <2>4. i1 \in Nat /\ j1 \in Nat /\ i1 <= Len(ReqStream(profile)) /\ j1 <= Len(RespStream(profile))
      BY <2>1 DEF Piece
    <2> HIDE DEF i, j, i1, j1
    <2>5. ReqHeld(profile, st, k, i1) /\ PendHeld(st, k) /\ RespHeld(profile, st, k, j1) /\ Unmarked(st)
      BY <2>3 DEF Held
    <2>6. ResHeld(profile, k, res, i1, j1) /\ res.st.hasSeq = st.hasSeq /\ res.st.seq = st.seq
      BY <1>3, <1>4, <1>5, <2>4, <2>5, DrainHeld
    <2>7. AllOut(profile, res.out) BY <1>7, <2>6, HeldOut
    <2> HIDE DEF res
    <2>8. heap'[1] = res.st BY <1>2, <1>3
    <2>9. AllOut(profile', emitted') /\ Len(emitted') = k + Len(res.out)
      <3>1. AllOut(profile, emitted \o res.out) BY <1>3, <1>8, <2>7, JoinOut DEF Follow
      <3>2. Len(emitted \o res.out) = Len(emitted) + Len(res.out) BY <1>3, <1>8
      <3> QED BY <1>2, <3>1, <3>2 DEF k
    <2>10. Held(profile', heap'[1], Len(emitted'), i1, j1)
      BY <1>2, <2>6, <2>8, <2>9 DEF Held, ResHeld
    <2>11. Expects(heap'[1], n + 1) /\ heap'[1].hasSeq BY <1>5, <2>3, <2>6, <2>8 DEF Expects
    <2>12. Later(wire', n + 1)
      <3>1. ASSUME NEW m \in 1 .. Len(wire) PROVE wire[m].seq >= n + 1
        <4>1. wire[m].seq >= n /\ wire[m].seq # n
          <5>1. wire[m].seq # e.seq BY <1>1 DEF Without
          <5> QED BY <2>1, <2>2, <5>1 DEF Later, HasNumber
        <4>2. wire[m] \in Event BY <1>3
        <4>3. wire[m].seq \in Nat BY <4>2 DEF Event, DataEvents, CloseEvents
        <4> QED BY <2>1, <4>1, <4>3
      <3> QED BY <1>2, <3>1 DEF Later
    <2>13. n + 1 \in Nat /\ n + 1 <= nextSeq'
      <3>1. n < nextSeq BY <1>1, <2>1 DEF HasNumber
      <3> QED BY <1>2, <1>3, <2>1, <3>1
    <2>14. Intact(n + 1, P, Q)'
      <3>1. /\ P[n + 1] <= Len(ReqStream(profile')) /\ Q[n + 1] <= Len(RespStream(profile'))
            /\ Held(profile', heap'[1], Len(emitted'), P[n + 1], Q[n + 1])
        BY <1>2, <2>4, <2>10 DEF i1, j1
      <3> QED BY <2>11, <2>12, <2>13, <3>1 DEF Intact
    <2>15. Between(n + 1, P, Q)' BY <1>1, <1>2, <2>11, <2>14 DEF Between
    <2>16. Stage(n + 1, P, Q)' BY <2>15 DEF Stage
    <2>17. Routes(P, Q)' BY <1>2 DEF Routes
    <2>18. Blank'
      <3> SUFFICES ASSUME NEW x \in 1 .. MaxSessions, x > fresh' PROVE heap'[x] = NewSession
        BY DEF Blank
      <3>1. x > fresh /\ x # 1 BY <1>1, <1>2
      <3> QED BY <1>2, <1>3, <3>1 DEF Follow, Blank
    <2>19. expired' = {} BY <1>2 DEF Follow
    <2> QED BY <2>9, <2>16, <2>17, <2>18, <2>19 DEF Follow
  <1> QED BY <1>9, <1>10

(* the event that the close overtook *)
LEMMA ProcessLate ==
  ASSUME SInv, Follow, Regular, Process, faults' \cap Unseen = {},
         NEW n, NEW P, NEW Q, Routes(P, Q), Late
  PROVE  Follow'
  <1> DEFINE e == consumer.ev  h == heap[fresh]  st == Route(Touch(h, e), e)
             res == drainParsedConversations(st, FALSE)
  <1>1. /\ consumer.pc = "process" /\ consumer.sid = fresh /\ closed /\ wire = <<>>
        /\ h.req = <<>> /\ h.resp = <<>> /\ h.pending = <<>>
    BY DEF Late
  <1>2. /\ heap' = [heap EXCEPT ![fresh] = res.st] /\ emitted' = emitted \o res.out /\ consumer' = Poll
        /\ UNCHANGED <<profile, role, left, closed, nextSeq, wire, fresh, current, expired>>
    <2>1. "overflow" \notin faults' BY DEF Unseen
    <2> QED BY <1>1, <2>1 DEF Process, Drain, captureVars
  <1>3. /\ heap \in [1 .. MaxSessions -> Session] /\ fresh \in 1 .. MaxSessions
        /\ emitted \in Seq(Conv) /\ e \in DataEvents
    <2>1. fresh \in 0 .. MaxSessions /\ fresh \in 1 .. fresh BY <1>1, SentTypes
    <2>2. MaxSessions \in Nat BY LimitsAssumption
    <2>3. fresh \in 1 .. MaxSessions BY <2>1, <2>2
    <2> QED BY <1>1, <2>3, SentTypes
  <1>4. h \in Session BY <1>3
  <1> HIDE DEF e, h
  <1>5. st \in Session /\ st.pending = h.pending /\ (st.req = h.req \/ st.resp = h.resp)
    BY <1>3, <1>4, RoutedIs, RoutedMarks
  <1> HIDE DEF st
  <1>6. st.pending = <<>> /\ (st.req = <<>> \/ st.resp = <<>>) BY <1>1, <1>5
  <1>7. res.out = <<>> BY <1>5, <1>6, OneSided
  <1> HIDE DEF res
  <1>8. emitted' = emitted BY <1>2, <1>3, <1>7
  <1>9. Len(wire) <= 1 BY <1>1
  <1>10. Done' BY <1>1, <1>2, <1>9 DEF Done
  <1>11. Stage(n, P, Q)' BY <1>10 DEF Stage
  <1>12. Routes(P, Q)' BY <1>2 DEF Routes
  <1>13. Blank'
    <2> SUFFICES ASSUME NEW x \in 1 .. MaxSessions, x > fresh' PROVE heap'[x] = NewSession
      BY DEF Blank
    <2>1. x > fresh /\ x # fresh BY <1>2, <1>3
    <2> QED BY <1>2, <1>3, <2>1 DEF Follow, Blank
  <1>14. AllOut(profile', emitted') /\ expired' = {} BY <1>2, <1>8 DEF Follow
  <1> QED BY <1>11, <1>12, <1>13, <1>14 DEF Follow

LEMMA ProcessFollowed ==
  ASSUME SInv, Follow, Regular, Process, faults' \cap Unseen = {}
  PROVE  Follow'
  <1>1. PICK n, P, Q : Routes(P, Q) /\ Stage(n, P, Q) BY DEF Follow
  <1>2. consumer.pc = "process" BY DEF Process
  <1>3. ~Before /\ ~Between(n, P, Q) /\ ~Ending(n, P, Q) /\ ~Ended /\ ~Done
    BY <1>2 DEF Before, Between, Ending, Ended, Done, Poll
  <1> QED BY <1>1, <1>3, ProcessTaken, ProcessLate DEF Stage

LEMMA CloseDrainFollowed ==
  ASSUME SInv, Follow, Regular, CloseDrain
  PROVE  Follow'
  <1> DEFINE h == heap[1]  k == Len(emitted)  res == drainParsedConversations(h, TRUE)
  <1>1. PICK n, P, Q : Routes(P, Q) /\ Stage(n, P, Q) BY DEF Follow
  <1>2. consumer.pc = "close" BY DEF CloseDrain
  <1>3. Ending(n, P, Q)
    <2>1. ~Before /\ ~Between(n, P, Q) /\ ~Taken(n, P, Q) /\ ~Ended /\ ~Done /\ ~Late
      BY <1>2 DEF Before, Between, Taken, Ended, Done, Late, Poll
    <2> QED BY <1>1, <2>1 DEF Stage
  <1>4. consumer.sid = 1 /\ current = 1 /\ fresh = 1 /\ closed /\ Len(wire) <= 1 /\ (Marked(h) \/ Intact(n, P, Q))
    BY <1>3 DEF Ending
  <1>5. consumer \in [pc : {"close", "remove"}, ev : CloseEvents, sid : 1 .. fresh]
    BY <1>2 DEF SInv, Types, ConsumerTypes, Poll
  <1>6. heap \in [1 .. MaxSessions -> Session] /\ 1 \in 1 .. MaxSessions /\ h \in Session /\ emitted \in Seq(Conv) /\ k \in Nat
    BY SentTypes
  <1>7. /\ heap' = [heap EXCEPT ![1] = res.st] /\ emitted' = emitted \o res.out /\ consumer' = [consumer EXCEPT !.pc = "remove"]
        /\ UNCHANGED <<profile, role, left, closed, nextSeq, wire, fresh, current, expired>>
    BY <1>4 DEF CloseDrain, Drain, captureVars
  <1>8. consumer'.pc = "remove" BY <1>5, <1>7
  <1>9. Tellable(profile) BY DEF Regular
  <1> HIDE DEF h, k
  <1>10. AllOut(profile, res.out)
    <2>1. CASE Marked(h) BY <1>6, <2>1, MarkedDrain
    <2>2. CASE Intact(n, P, Q)
      <3> DEFINE i == P[n]  j == Q[n]
      <3>1. n \in Nat /\ i <= Len(ReqStream(profile)) /\ j <= Len(RespStream(profile)) /\ Held(profile, h, k, i, j)
        BY <2>2 DEF Intact, h, k
      <3>2. i \in Nat /\ j \in Nat BY <1>1, <3>1 DEF Routes, Positions
      <3> HIDE DEF i, j
      <3> QED BY <1>6, <1>9, <3>1, <3>2, CloseOut
    <2> QED BY <1>4, <2>1, <2>2
  <1>11. res \in Result BY <1>6, DrainIs
  <1>12. res.out \in Seq(Conv) BY <1>11 DEF Result
  <1> HIDE DEF res
  <1>13. AllOut(profile', emitted')
    <2>1. AllOut(profile, emitted \o res.out) BY <1>6, <1>10, <1>12, JoinOut DEF Follow
    <2> QED BY <1>7, <2>1
  <1>14. Ended' BY <1>4, <1>7, <1>8 DEF Ended
  <1>15. Stage(n, P, Q)' BY <1>14 DEF Stage
  <1>16. Routes(P, Q)' BY <1>1, <1>7 DEF Routes
  <1>17. Blank'
    <2> SUFFICES ASSUME NEW x \in 1 .. MaxSessions, x > fresh' PROVE heap'[x] = NewSession
      BY DEF Blank
    <2>1. x > fresh /\ x # 1 BY <1>4, <1>7
    <2> QED BY <1>6, <1>7, <2>1 DEF Follow, Blank
  <1>18. expired' = {} BY <1>7 DEF Follow
  <1> QED BY <1>13, <1>15, <1>16, <1>17, <1>18 DEF Follow

LEMMA CloseRemoveFollowed ==
  ASSUME SInv, Follow, Regular, CloseRemove
  PROVE  Follow'
  <1>1. PICK n, P, Q : Routes(P, Q) /\ Stage(n, P, Q) BY DEF Follow
  <1>2. /\ consumer.pc = "remove" /\ current' = 0 /\ consumer' = Poll
        /\ UNCHANGED <<profile, role, left, closed, nextSeq, wire, heap, fresh, expired, emitted>>
    BY DEF CloseRemove, captureVars
  <1>3. Ended
    <2>1. ~Before /\ ~Between(n, P, Q) /\ ~Taken(n, P, Q) /\ ~Ending(n, P, Q) /\ ~Done /\ ~Late
      BY <1>2 DEF Before, Between, Taken, Ending, Done, Late, Poll
    <2> QED BY <1>1, <2>1 DEF Stage
  <1>4. Done' BY <1>2, <1>3 DEF Done, Ended
  <1>5. Stage(n, P, Q)' BY <1>4 DEF Stage
  <1>6. Routes(P, Q)' BY <1>1, <1>2 DEF Routes
  <1> QED BY <1>2, <1>5, <1>6 DEF Follow, Blank

LEMMA GoesStaleFollowed ==
  ASSUME SInv, Follow, Regular, GoesStale
  PROVE  Follow'
  <1>1. PICK n, P, Q : Routes(P, Q) /\ Stage(n, P, Q) BY DEF Follow
  <1>2. /\ current # 0 /\ heap' = [heap EXCEPT ![current].stale = TRUE]
        /\ UNCHANGED <<profile, role, left, closed, nextSeq, wire, fresh, current, consumer, expired, emitted>>
    BY DEF GoesStale, captureVars
  <1>3. heap \in [1 .. MaxSessions -> Session] /\ 1 \in 1 .. MaxSessions /\ fresh \in 0 .. MaxSessions
    BY SentTypes
  <1>4. ASSUME NEW x \in 1 .. MaxSessions
        PROVE  /\ heap'[x].req = heap[x].req /\ heap'[x].resp = heap[x].resp /\ heap'[x].pending = heap[x].pending
               /\ heap'[x].hasSeq = heap[x].hasSeq /\ heap'[x].seq = heap[x].seq
               /\ heap'[x].gap = heap[x].gap /\ heap'[x].truncated = heap[x].truncated
    <2> DEFINE h == heap[x]  h1 == heap'[x]
    <2>1. h1 = h \/ h1 = [h EXCEPT !.stale = TRUE] BY <1>2, <1>3
    <2>2. h \in Session BY <1>3
    <2> HIDE DEF h, h1
    <2>3. /\ h1.req = h.req /\ h1.resp = h.resp /\ h1.pending = h.pending /\ h1.hasSeq = h.hasSeq /\ h1.seq = h.seq
          /\ h1.gap = h.gap /\ h1.truncated = h.truncated
      BY <2>1, <2>2 DEF Session
    <2> QED BY <2>3 DEF h, h1
  <1> DEFINE h == heap[1]  h1 == heap'[1]
  <1>5. /\ h1.req = h.req /\ h1.resp = h.resp /\ h1.pending = h.pending /\ h1.hasSeq = h.hasSeq /\ h1.seq = h.seq
        /\ h1.gap = h.gap /\ h1.truncated = h.truncated
    BY <1>3, <1>4
  <1> HIDE DEF h, h1
  <1>6. ASSUME NEW p, NEW k, NEW u, NEW v, Held(p, h, k, u, v) PROVE Held(p, h1, k, u, v)
    <2>1. ReqHeld(p, h, k, u) => ReqHeld(p, h1, k, u) BY <1>5 DEF ReqHeld
    <2>2. PendHeld(h, k) => PendHeld(h1, k) BY <1>5 DEF PendHeld
    <2>3. RespHeld(p, h, k, v) => RespHeld(p, h1, k, v) BY <1>5 DEF RespHeld
    <2>4. Unmarked(h) => Unmarked(h1) BY <1>5 DEF Unmarked
    <2> QED BY <1>6, <2>1, <2>2, <2>3, <2>4 DEF Held
  <1>7. ASSUME NEW m, Expects(h, m) PROVE Expects(h1, m) BY <1>5, <1>7 DEF Expects
  <1>8. Marked(h) => Marked(h1) BY <1>5 DEF Marked
  <1>9. ASSUME Intact(n, P, Q) PROVE Intact(n, P, Q)'
    <2>1. Held(profile, h, Len(emitted), P[n], Q[n]) /\ Expects(h, n) BY <1>9 DEF Intact, h
    <2>2. Held(profile, h1, Len(emitted), P[n], Q[n]) /\ Expects(h1, n) BY <1>6, <1>7, <2>1
    <2> QED BY <1>2, <1>9, <2>2 DEF Intact, h1
  <1>10. Routes(P, Q)' BY <1>1, <1>2 DEF Routes
  <1>11. (Marked(heap[1]) => Marked(heap'[1])) /\ (heap[1].hasSeq => heap'[1].hasSeq)
    BY <1>5, <1>8 DEF h, h1
  <1>12. Stage(n, P, Q)'
    <2>1. CASE Between(n, P, Q)
      <3>1. Between(n, P, Q)' BY <1>2, <1>9, <1>11, <2>1 DEF Between
      <3> QED BY <3>1 DEF Stage
    <2>2. CASE Taken(n, P, Q)
      <3>1. Taken(n, P, Q)' BY <1>2, <1>9, <1>11, <2>2 DEF Taken
      <3> QED BY <3>1 DEF Stage
    <2>3. CASE Ending(n, P, Q)
      <3>1. Ending(n, P, Q)' BY <1>2, <1>9, <1>11, <2>3 DEF Ending
      <3> QED BY <3>1 DEF Stage
    <2>4. CASE Ended \/ Done
      <3>1. Ended' \/ Done' BY <1>2, <2>4 DEF Ended, Done
      <3> QED BY <3>1 DEF Stage
    <2>5. CASE Late
      <3>1. fresh \in 1 .. MaxSessions
        <4>1. fresh # 0 BY <1>2, <2>5 DEF Late
        <4>2. MaxSessions \in Nat BY LimitsAssumption
        <4> QED BY <1>3, <4>1, <4>2
      <3>2. heap'[fresh].req = heap[fresh].req /\ heap'[fresh].resp = heap[fresh].resp /\ heap'[fresh].pending = heap[fresh].pending
        BY <1>4, <3>1
      <3>3. Late' BY <1>2, <2>5, <3>2 DEF Late
      <3> QED BY <3>3 DEF Stage
    <2>6. ~Before BY <1>2 DEF Before
    <2> QED BY <1>1, <2>1, <2>2, <2>3, <2>4, <2>5, <2>6 DEF Stage
  <1>13. Blank'
    <2> SUFFICES ASSUME NEW x \in 1 .. MaxSessions, x > fresh' PROVE heap'[x] = NewSession
      BY DEF Blank
    <2>1. current \in 0 .. fresh BY DEF SInv, Types, StoreTypes
    <2>2. x > fresh /\ x # current BY <1>2, <1>3, <2>1
    <2> QED BY <1>2, <1>3, <2>2 DEF Follow, Blank
  <1>14. AllOut(profile', emitted') /\ expired' = {} BY <1>2 DEF Follow
  <1> QED BY <1>10, <1>12, <1>13, <1>14 DEF Follow

LEMMA FollowStutters == Follow /\ UNCHANGED vars => Follow'
  <1> SUFFICES ASSUME Follow, UNCHANGED vars PROVE Follow' OBVIOUS
  <1>1. PICK n, P, Q : Routes(P, Q) /\ Stage(n, P, Q) BY DEF Follow
  <1>2. Routes(P, Q)' BY <1>1 DEF Routes, vars
  <1>3. Stage(n, P, Q)'
    BY <1>1 DEF Stage, Before, Between, Taken, Ending, Ended, Done, Late, Intact, vars
  <1> QED BY <1>2, <1>3 DEF Follow, Blank, vars

LEMMA DInvNext == SInv /\ DInv /\ [Next]_vars => DInv'
  <1> SUFFICES ASSUME SInv, DInv, [Next]_vars, faults' \cap Unseen = {}, Regular' PROVE Follow'
    BY DEF DInv
  <1>0. ASSUME profile' = profile, role' = role, faults \subseteq faults' PROVE Follow /\ Regular
    BY <1>0 DEF DInv, Regular
  <1>1. ASSUME NEW side \in {"req", "resp"}, NEW n \in 1 .. MaxChunk, Capture(side, n) PROVE Follow'
    <2>1. profile' = profile /\ role' = role /\ faults \subseteq faults' BY <1>1 DEF Capture
    <2> QED BY <1>0, <1>1, <2>1, CaptureFollowed
  <1>2. CASE CaptureClose
    <2>1. profile' = profile /\ role' = role /\ faults \subseteq faults' BY <1>2 DEF CaptureClose
    <2> QED BY <1>0, <1>2, <2>1, CaptureCloseFollowed
  <1>3. CASE Lose
    <2>1. profile' = profile /\ role' = role /\ faults \subseteq faults'
      BY <1>3 DEF Lose, captureVars
    <2> QED BY <1>0, <1>3, <2>1, LoseFollowed
  <1>4. CASE Swap
    <2>1. profile' = profile /\ role' = role /\ faults \subseteq faults'
      BY <1>4 DEF Swap, captureVars
    <2> QED BY <1>0, <1>4, <2>1, SwapFollowed
  <1>5. ~Receive(TRUE) /\ ~Sweep BY DEF Receive, Sweep, Unseen
  <1>6. CASE Receive(FALSE)
    <2>1. profile' = profile /\ role' = role /\ faults \subseteq faults'
      BY <1>6 DEF Receive, captureVars
    <2> QED BY <1>0, <1>6, <2>1, ReceiveFollowed
  <1>7. CASE Process
    <2>1. profile' = profile /\ role' = role /\ faults \subseteq faults'
      BY <1>7 DEF Process, captureVars
    <2> QED BY <1>0, <1>7, <2>1, ProcessFollowed
  <1>8. CASE CloseDrain
    <2>1. profile' = profile /\ role' = role /\ faults \subseteq faults'
      BY <1>8 DEF CloseDrain, captureVars
    <2> QED BY <1>0, <1>8, <2>1, CloseDrainFollowed
  <1>9. CASE CloseRemove
    <2>1. profile' = profile /\ role' = role /\ faults \subseteq faults'
      BY <1>9 DEF CloseRemove, captureVars
    <2> QED BY <1>0, <1>9, <2>1, CloseRemoveFollowed
  <1>10. CASE GoesStale
    <2>1. profile' = profile /\ role' = role /\ faults \subseteq faults'
      BY <1>10 DEF GoesStale, captureVars
    <2> QED BY <1>0, <1>10, <2>1, GoesStaleFollowed
  <1>11. ASSUME NEW sid \in expired, DrainExpired(sid) PROVE FALSE
    <2>1. profile' = profile /\ role' = role /\ faults \subseteq faults'
      BY <1>11 DEF DrainExpired, captureVars
    <2> QED BY <1>0, <1>11, <2>1 DEF Follow
  <1>12. CASE UNCHANGED vars
    <2>1. profile' = profile /\ role' = role /\ faults \subseteq faults' BY <1>12 DEF vars
    <2> QED BY <1>0, <1>12, <2>1, FollowStutters
  <1> QED BY <1>1, <1>2, <1>3, <1>4, <1>5, <1>6, <1>7, <1>8, <1>9, <1>10, <1>11, <1>12
    DEF Next, CaptureStep, ConsumerStep, CleanupStep

(* On the same connections, whatever is lost, reordered or cut on the way   *)
(* and however often: what processEvent, handleCloseEvent and the drains    *)
(* emit is right or carries loss metadata, unless the first event of a      *)
(* session is missing or late, an event came twice, a session expired, a    *)
(* buffer overflowed or half a request line was taken for a response, or    *)
(* the response ends with the connection, or an informational response has  *)
(* shifted the pairing.                                                     *)
THEOREM DamageShows == Spec => [](Regular => DamageIsFlagged)
  <1>1. SInv /\ DInv /\ [Next]_vars => DInv' BY DInvNext
  <1>2. DInv => (Regular => DamageIsFlagged)
    <2> SUFFICES ASSUME DInv, Regular, faults \cap Unseen = {}, NEW i \in DOMAIN emitted
                 PROVE  \/ Right(emitted[i]) \/ Flagged(emitted[i])
                        \/ profile[emitted[i].resp].eof \/ Shifted(emitted[i].req)
      BY DEF DamageIsFlagged, Unseen
    <2>1. Excused(profile, emitted[i]) BY DEF DInv, Follow, AllOut
    <2> QED BY <2>1 DEF Excused, Shifted
  <1> QED BY FollowInit, Invariant, <1>1, <1>2, PTL DEF Spec

=============================================================================
