---------------------------- MODULE LoopTheorems ----------------------------
(***************************************************************************)
(* Induction without a formula as its parameter: a set of numbers has a    *)
(* least one, and a loop that repeats a step until it changes nothing      *)
(* keeps every set that its step keeps.  The parsers of the worker and of  *)
(* the combined binary are such loops.  And lemmas about sequences.        *)
(***************************************************************************)
EXTENDS Integers, Sequences, SequencesExt, SequenceTheorems, WellFoundedInduction, TLAPS

LEMMA LeastNumber ==
  ASSUME NEW T, T \subseteq Nat, T # {}
  PROVE  \E n \in T : \A m \in T : n <= m
  <1> DEFINE Less == {p \in Nat \X Nat : p[1] < p[2]}
  <1>1. OpToRel(<, Nat) = Less BY ONLY Zenon DEF OpToRel
  <1>2. IsWellFoundedOn(Less, Nat) BY <1>1, NatLessThanWellFounded, Zenon
  <1>3. PICK n \in T : \A m \in T : <<m, n>> \notin Less
    <2> HIDE DEF Less
    <2> QED BY <1>2, WFMin
  <1>4. ASSUME NEW m \in T PROVE n <= m
    <2>1. m \in Nat /\ n \in Nat OBVIOUS
    <2>2. ~(m < n) BY <1>3, <2>1
    <2> QED BY <2>1, <2>2
  <1> QED BY <1>4

(* Induction up to a bound, for a set of numbers. *)
LEMMA CountingUp ==
  ASSUME NEW n \in Nat, NEW T, 0 \in T, \A i \in 0 .. n - 1 : i \in T => i + 1 \in T
  PROVE  \A i \in 0 .. n : i \in T
  <1> DEFINE Bad == {i \in 0 .. n : i \notin T}
  <1>1. ASSUME Bad # {} PROVE FALSE
    <2>1. Bad \subseteq Nat OBVIOUS
    <2>2. PICK k \in Bad : \A m \in Bad : k <= m
      <3> HIDE DEF Bad
      <3> QED BY <1>1, <2>1, LeastNumber
    <2>3. k \in 1 .. n /\ k \notin T BY <2>2
    <2>4. k - 1 \in 0 .. n - 1 /\ (k - 1) + 1 = k BY <2>3
    <2>5. k - 1 \notin T BY <2>3, <2>4
    <2>6. k - 1 \in Bad BY <2>4, <2>5
    <2> QED BY <2>2, <2>3, <2>6
  <1> QED BY <1>1

(* The recursive definition of a loop is satisfiable, whether or not the    *)
(* loop ends: take the values that the states reachable from s end with.    *)
LEMMA LoopExists ==
  ASSUME NEW S, NEW F \in [S -> S]
  PROVE  \E R : R = [s \in S |-> IF F[s] = s THEN s ELSE R[F[s]]]
  <1> DEFINE Closed(T, s) == T \subseteq S /\ s \in T /\ \A x \in T : F[x] \in T
             Orbit(s) == {x \in S : \A T \in SUBSET S : Closed(T, s) => x \in T}
             Ends(s) == {x \in Orbit(s) : F[x] = x}
             R == [s \in S |-> CHOOSE x : x \in Ends(s)]
  <1>1. ASSUME NEW s \in S, F[s] = s PROVE Ends(s) = {s}
    <2>1. Closed({s}, s) BY <1>1
    <2>2. s \in Orbit(s) OBVIOUS
    <2> QED BY <1>1, <2>1, <2>2
  <1>2. ASSUME NEW s \in S, F[s] # s PROVE Ends(s) = Ends(F[s])
    <2>1. ASSUME NEW T \in SUBSET S, Closed(T, s) PROVE Closed(T, F[s]) BY <2>1
    <2>2. ASSUME NEW T \in SUBSET S, Closed(T, F[s]) PROVE Closed(T \cup {s}, s) BY <2>2
    <2>3. ASSUME NEW x \in Orbit(F[s]) PROVE x \in Orbit(s) BY <2>1
    <2>4. ASSUME NEW x \in Orbit(s), x # s PROVE x \in Orbit(F[s])
      <3>1. ASSUME NEW T \in SUBSET S, Closed(T, F[s]) PROVE x \in T
        <4>1. T \cup {s} \in SUBSET S /\ Closed(T \cup {s}, s) BY <2>2, <3>1
        <4> QED BY <4>1, <2>4
      <3> QED BY <3>1
    <2> HIDE DEF Orbit
    <2> QED BY <1>2, <2>3, <2>4
  <1>3. R = [s \in S |-> IF F[s] = s THEN s ELSE R[F[s]]]
    <2>1. ASSUME NEW s \in S PROVE R[s] = IF F[s] = s THEN s ELSE R[F[s]]
      <3> HIDE DEF Ends
      <3>1. CASE F[s] = s BY <3>1, <1>1
      <3>2. CASE F[s] # s
        <4>1. F[s] \in S /\ Ends(s) = Ends(F[s]) BY <3>2, <1>2
        <4> QED BY <3>2, <4>1
      <3> QED BY <3>1, <3>2
    <2> HIDE DEF R
    <2>2. R = [s \in S |-> R[s]] BY DEF R
    <2> QED BY <2>1, <2>2
  <1> HIDE DEF R
  <1> QED BY <1>3

(* If each round that changes something lowers a measure, the loop ends in  *)
(* a state that the step leaves alone, and in every set P that holds at the *)
(* start and is kept by the step.                                           *)
LEMMA LoopEnds ==
  ASSUME NEW S, NEW F \in [S -> S], NEW R, R = [s \in S |-> IF F[s] = s THEN s ELSE R[F[s]]],
         NEW M \in [S -> Nat], \A s \in S : F[s] = s \/ M[F[s]] < M[s],
         NEW P, P \subseteq S, \A s \in P : F[s] \in P
  PROVE  \A s \in P : R[s] \in P /\ F[R[s]] = R[s]
  <1> DEFINE Bad == {s \in P : ~(R[s] \in P /\ F[R[s]] = R[s])}
  <1>1. ASSUME Bad # {} PROVE FALSE
    <2> DEFINE T == {M[s] : s \in Bad}
    <2>0. \A s \in Bad : M[s] \in Nat OBVIOUS
    <2>1. T \subseteq Nat /\ T # {}
      <3>1. T \subseteq Nat BY <2>0
      <3>2. PICK s : s \in Bad BY <1>1
      <3>3. M[s] \in T BY <3>2
      <3> HIDE DEF T
      <3> QED BY <3>1, <3>3
    <2>2. PICK n \in T : \A m \in T : n <= m
      <3> HIDE DEF T
      <3> QED BY <2>1, LeastNumber
    <2>3. PICK s \in Bad : n = M[s] BY <2>2
    <2>4. F[s] # s BY <2>3
    <2>5. F[s] \in P /\ R[s] = R[F[s]] /\ M[F[s]] < M[s] BY <2>3, <2>4
    <2>6. F[s] \in Bad BY <2>3, <2>5
    <2>7. M[F[s]] \in T /\ M[F[s]] \in Nat /\ M[s] \in Nat BY <2>6
    <2> HIDE DEF T
    <2> QED BY <2>2, <2>3, <2>5, <2>7
  <1> QED BY <1>1

(* What FlattenSeq computes: the last of the prefixes it builds.            *)
LEMMA Flattened ==
  ASSUME NEW T, NEW seqs \in Seq(Seq(T)), Len(seqs) # 0
  PROVE  \E f \in [1 .. Len(seqs) -> Seq(T)] :
           /\ f[1] = seqs[1] /\ \A i \in 2 .. Len(seqs) : f[i] = f[i - 1] \o seqs[i]
           /\ FlattenSeq(seqs) = f[Len(seqs)]
  <1> DEFINE n == Len(seqs)
             Grows(f, k) == f[1] = seqs[1] /\ \A i \in 2 .. k : f[i] = f[i - 1] \o seqs[i]
             K == {k \in Nat : k = 0 \/ \E f \in [1 .. k -> Seq(T)] : Grows(f, k)}
  <1>0. n \in Nat \ {0} /\ \A i \in 1 .. n : seqs[i] \in Seq(T) OBVIOUS
  <1> HIDE DEF n
  <1>1. ASSUME NEW k \in 0 .. n - 1, k \in K PROVE k + 1 \in K
    <2>1. CASE k = 0
      <3> DEFINE g == [i \in 1 .. 1 |-> seqs[1]]
      <3>1. g \in [1 .. 1 -> Seq(T)] /\ Grows(g, 1) BY <1>0
      <3>2. 1 \in K
        <4> HIDE DEF g
        <4> QED BY <3>1
      <3>3. k + 1 = 1 BY <2>1
      <3> HIDE DEF K
      <3> QED BY <3>2, <3>3
    <2>2. CASE k # 0
      <3>1. PICK f \in [1 .. k -> Seq(T)] : Grows(f, k) BY <1>1, <2>2
      <3> DEFINE g == [i \in 1 .. k + 1 |-> IF i <= k THEN f[i] ELSE f[k] \o seqs[k + 1]]
      <3>2. k \in 1 .. k /\ k + 1 \in 1 .. n BY <1>0, <1>1, <2>2
      <3>3. f[k] \o seqs[k + 1] \in Seq(T) BY <1>0, <3>2
      <3>4. g \in [1 .. k + 1 -> Seq(T)] BY <1>1, <3>3
      <3>5. g[1] = seqs[1] BY <3>1, <3>2
      <3>6. ASSUME NEW i \in 2 .. k + 1 PROVE g[i] = g[i - 1] \o seqs[i]
        <4>1. CASE i <= k
          <5>1. i \in 2 .. k /\ i - 1 <= k /\ i \in 1 .. k + 1 /\ i - 1 \in 1 .. k + 1 BY <1>1, <4>1
          <5>2. g[i] = f[i] /\ g[i - 1] = f[i - 1] /\ f[i] = f[i - 1] \o seqs[i] BY <3>1, <4>1, <5>1
          <5> HIDE DEF g
          <5> QED BY <5>2
        <4>2. CASE i = k + 1
          <5>1. i - 1 = k /\ k <= k /\ ~(k + 1 <= k) /\ k \in 1 .. k + 1 /\ k + 1 \in 1 .. k + 1 BY <1>1, <3>2, <4>2
          <5>2. g[k + 1] = f[k] \o seqs[k + 1] /\ g[k] = f[k] BY <5>1
          <5> HIDE DEF g
          <5> QED BY <4>2, <5>1, <5>2
        <4>3. i <= k \/ i = k + 1 BY <1>0, <1>1, <3>6
        <4> QED BY <4>1, <4>2, <4>3
      <3>7. Grows(g, k + 1) BY <3>5, <3>6
      <3>8. k + 1 \in Nat BY <1>0
      <3> HIDE DEF g, Grows
      <3> QED BY <3>4, <3>7, <3>8
    <2> QED BY <2>1, <2>2
  <1>2. n \in K
    <2> HIDE DEF K
    <2>1. 0 \in K BY DEF K
    <2>2. \A i \in 0 .. n : i \in K BY <1>0, <1>1, <2>1, CountingUp
    <2> QED BY <1>0, <2>2
  <1>3. PICK f \in [1 .. n -> Seq(T)] : Grows(f, n) BY <1>0, <1>2
  <1>4. f = [i \in 1 .. n |-> IF i = 1 THEN seqs[i] ELSE f[i - 1] \o seqs[i]]
    <2>1. ASSUME NEW i \in 1 .. n PROVE f[i] = IF i = 1 THEN seqs[i] ELSE f[i - 1] \o seqs[i]
      <3>1. i = 1 \/ i \in 2 .. n BY <1>0
      <3> QED BY <1>3, <3>1
    <2> QED BY <2>1
  <1> DEFINE flatten == CHOOSE g : g = [i \in 1 .. n |-> IF i = 1 THEN seqs[i] ELSE g[i - 1] \o seqs[i]]
  <1>5. flatten = [i \in 1 .. n |-> IF i = 1 THEN seqs[i] ELSE flatten[i - 1] \o seqs[i]]
    BY <1>4
  <1>6. FlattenSeq(seqs) = flatten[n] BY <1>0 DEF FlattenSeq, n
  <1> HIDE DEF flatten
  <1>7. flatten[1] = seqs[1] /\ \A i \in 2 .. n : flatten[i] = flatten[i - 1] \o seqs[i]
    <2>1. \A i \in 1 .. n : flatten[i] = IF i = 1 THEN seqs[i] ELSE flatten[i - 1] \o seqs[i] BY <1>5
    <2>2. 1 \in 1 .. n /\ \A i \in 2 .. n : i \in 1 .. n /\ i # 1 BY <1>0
    <2> QED BY <2>1, <2>2
  <1> DEFINE J == {k \in Nat : k = 0 \/ flatten[k] \in Seq(T)}
  <1>8. ASSUME NEW k \in 0 .. n - 1, k \in J PROVE k + 1 \in J
    <2>1. CASE k = 0 BY <1>0, <1>7, <2>1
    <2>2. CASE k # 0
      <3>1. k + 1 \in 2 .. n /\ (k + 1) - 1 = k /\ k + 1 \in 1 .. n BY <1>8, <1>0, <2>2
      <3>2. flatten[k] \in Seq(T) /\ seqs[k + 1] \in Seq(T) BY <1>0, <1>8, <2>2, <3>1
      <3>3. flatten[k + 1] = flatten[k] \o seqs[k + 1] BY <1>7, <3>1
      <3>4. flatten[k] \o seqs[k + 1] \in Seq(T) BY <3>2
      <3>5. k + 1 \in Nat BY <1>0
      <3> QED BY <3>3, <3>4, <3>5
    <2> QED BY <2>1, <2>2
  <1>9. \A i \in 1 .. n : flatten[i] \in Seq(T)
    <2>1. \A i \in 0 .. n : i \in J
      <3> HIDE DEF J
      <3>1. 0 \in J BY DEF J
      <3> QED BY <1>0, <1>8, <3>1, CountingUp
    <2> QED BY <1>0, <2>1
  <1>10. flatten \in [1 .. n -> Seq(T)]
    <2>1. flatten = [i \in 1 .. n |-> flatten[i]] BY <1>5
    <2> QED BY <1>9, <2>1
  <1> QED BY <1>6, <1>7, <1>10 DEF n

-----------------------------------------------------------------------------
(* Sequences *)

(* whether a sequence has a member of T, and whether it has only one *)
Has(q, T) == \E j \in DOMAIN q : q[j] \in T
One(q, T) == \A i, j \in DOMAIN q : q[i] \in T /\ q[j] \in T => i = j

LEMMA SubSeqIs ==
  ASSUME NEW S, NEW q \in Seq(S), NEW m \in 1 .. Len(q) + 1, NEW n \in m - 1 .. Len(q)
  PROVE  /\ SubSeq(q, m, n) \in Seq(S) /\ Len(SubSeq(q, m, n)) = n - m + 1
         /\ \A i \in 1 .. n - m + 1 : SubSeq(q, m, n)[i] = q[m + i - 1] /\ m + i - 1 \in 1 .. Len(q)
  <1>1. m \in Nat /\ n \in Nat /\ Len(q) \in Nat /\ m >= 1 /\ n <= Len(q) OBVIOUS
  <1>2. \A i \in m .. n : q[i] \in S BY <1>1
  <1>3. \A i \in 1 .. n - m + 1 : m + i - 1 \in m .. n /\ m + i - 1 \in 1 .. Len(q) BY <1>1
  <1>4. SubSeq(q, m, n) \in Seq(S) BY <1>1, <1>2
  <1>5. Len(SubSeq(q, m, n)) = n - m + 1 BY <1>1
  <1>6. \A i \in 1 .. n - m + 1 : SubSeq(q, m, n)[i] = q[m + i - 1] BY <1>1
  <1> QED BY <1>3, <1>4, <1>5, <1>6

LEMMA FunctionIsSequence ==
  ASSUME NEW S, NEW n \in Nat, NEW f \in [1 .. n -> S]
  PROVE  f \in Seq(S)
  OBVIOUS

LEMMA SubSeqAll ==
  ASSUME NEW S, NEW q \in Seq(S)
  PROVE  SubSeq(q, 1, Len(q)) = q
  OBVIOUS

LEMMA HasSub ==
  ASSUME NEW S, NEW q \in Seq(S), NEW m \in 1 .. Len(q) + 1, NEW n \in m - 1 .. Len(q), NEW T
  PROVE  /\ Has(SubSeq(q, m, n), T) => Has(q, T)
         /\ One(q, T) => One(SubSeq(q, m, n), T)
  <1> DEFINE r == SubSeq(q, m, n)
  <1>1. /\ DOMAIN r = 1 .. n - m + 1
        /\ \A i \in DOMAIN r : r[i] = q[m + i - 1] /\ m + i - 1 \in DOMAIN q
    BY SubSeqIs
  <1> HIDE DEF r
  <1>2. \A i, j \in DOMAIN r : m + i - 1 = m + j - 1 => i = j BY <1>1
  <1>3. Has(r, T) => Has(q, T) BY <1>1 DEF Has
  <1>4. One(q, T) => One(r, T) BY <1>1, <1>2 DEF One
  <1> QED BY <1>3, <1>4 DEF r

(* Of two parts of a sequence that do not overlap only one has the only     *)
(* member of T.                                                             *)
LEMMA HasParts ==
  ASSUME NEW S, NEW q \in Seq(S), NEW k \in 0 .. Len(q), NEW m \in k + 1 .. Len(q) + 1, NEW T, One(q, T)
  PROVE  ~(Has(SubSeq(q, 1, k), T) /\ Has(SubSeq(q, m, Len(q)), T))
  <1> SUFFICES ASSUME NEW i \in DOMAIN SubSeq(q, 1, k), NEW j \in DOMAIN SubSeq(q, m, Len(q)),
                      SubSeq(q, 1, k)[i] \in T, SubSeq(q, m, Len(q))[j] \in T
               PROVE  FALSE
    BY DEF Has
  <1>1. i \in 1 .. k /\ SubSeq(q, 1, k)[i] = q[i] /\ i \in 1 .. Len(q)
    <2>1. 1 \in 1 .. Len(q) + 1 /\ k \in 1 - 1 .. Len(q) /\ k - 1 + 1 = k OBVIOUS
    <2>2. i \in 1 .. k /\ SubSeq(q, 1, k)[i] = q[1 + i - 1] BY <2>1, SubSeqIs
    <2> QED BY <2>2
  <1>2. j \in 1 .. Len(q) - m + 1 /\ SubSeq(q, m, Len(q))[j] = q[m + j - 1] /\ m + j - 1 \in 1 .. Len(q)
    <2>1. m \in 1 .. Len(q) + 1 /\ Len(q) \in m - 1 .. Len(q) OBVIOUS
    <2> DEFINE r == SubSeq(q, m, Len(q))
    <2>2. /\ r \in Seq(S) /\ Len(r) = Len(q) - m + 1
          /\ \A i1 \in 1 .. Len(q) - m + 1 : r[i1] = q[m + i1 - 1] /\ m + i1 - 1 \in 1 .. Len(q)
      BY <2>1, SubSeqIs
    <2>3. j \in DOMAIN r OBVIOUS
    <2> HIDE DEF r
    <2>4. j \in 1 .. Len(q) - m + 1 BY <2>2, <2>3
    <2> QED BY <2>2, <2>4 DEF r
  <1>3. i # m + j - 1 BY <1>1, <1>2
  <1> QED BY <1>1, <1>2, <1>3 DEF One

LEMMA HasConcat ==
  ASSUME NEW S, NEW a \in Seq(S), NEW b \in Seq(S), NEW T
  PROVE  /\ a \o b \in Seq(S)
         /\ Has(a \o b, T) <=> Has(a, T) \/ Has(b, T)
         /\ One(a, T) /\ One(b, T) /\ ~(Has(a, T) /\ Has(b, T)) => One(a \o b, T)
  <1> DEFINE c == a \o b
  <1>1. /\ c \in Seq(S) /\ DOMAIN c = 1 .. Len(a) + Len(b) /\ Len(a) \in Nat /\ Len(b) \in Nat
        /\ DOMAIN a = 1 .. Len(a) /\ DOMAIN b = 1 .. Len(b)
    OBVIOUS
  <1>2. \A i \in 1 .. Len(a) : c[i] = a[i] /\ i \in DOMAIN c OBVIOUS
  <1>3. \A i \in 1 .. Len(b) : c[Len(a) + i] = b[i] /\ Len(a) + i \in DOMAIN c OBVIOUS
  <1>4. \A i \in DOMAIN c : i \in 1 .. Len(a) \/ (i - Len(a) \in 1 .. Len(b) /\ i = Len(a) + (i - Len(a)))
    BY <1>1
  <1> HIDE DEF c
  <1>5. Has(c, T) <=> Has(a, T) \/ Has(b, T) BY <1>1, <1>2, <1>3, <1>4 DEF Has
  <1>6. ASSUME One(a, T), One(b, T), ~(Has(a, T) /\ Has(b, T)) PROVE One(c, T)
    <2> SUFFICES ASSUME NEW i \in DOMAIN c, NEW j \in DOMAIN c, c[i] \in T, c[j] \in T PROVE i = j
      BY DEF One
    <2>1. CASE i \in 1 .. Len(a) /\ j \in 1 .. Len(a) BY <1>1, <1>2, <1>6, <2>1 DEF One
    <2>2. CASE i - Len(a) \in 1 .. Len(b) /\ j - Len(a) \in 1 .. Len(b)
      <3>1. c[i] = b[i - Len(a)] /\ c[j] = b[j - Len(a)] BY <1>3, <1>4, <1>1, <2>2
      <3>2. i - Len(a) = j - Len(a) BY <1>1, <1>6, <2>2, <3>1 DEF One
      <3> QED BY <1>1, <3>2
    <2>3. CASE i \in 1 .. Len(a) /\ j - Len(a) \in 1 .. Len(b)
      <3>1. c[i] = a[i] /\ c[j] = b[j - Len(a)] BY <1>1, <1>2, <1>3, <1>4, <2>3
      <3> QED BY <1>1, <1>6, <2>3, <3>1 DEF Has
    <2>4. CASE j \in 1 .. Len(a) /\ i - Len(a) \in 1 .. Len(b)
      <3>1. c[j] = a[j] /\ c[i] = b[i - Len(a)] BY <1>1, <1>2, <1>3, <1>4, <2>4
      <3> QED BY <1>1, <1>6, <2>4, <3>1 DEF Has
    <2> QED BY <1>4, <2>1, <2>2, <2>3, <2>4
  <1> QED BY <1>1, <1>5, <1>6 DEF c

LEMMA OneTwo ==
  ASSUME NEW q, NEW T, One(q, T), NEW i \in DOMAIN q, NEW j \in DOMAIN q, q[i] \in T, q[j] \in T
  PROVE  i = j
  BY DEF One

LEMMA HasAppend ==
  ASSUME NEW S, NEW q \in Seq(S), NEW e \in S, NEW T
  PROVE  /\ Append(q, e) \in Seq(S)
         /\ Has(Append(q, e), T) <=> Has(q, T) \/ e \in T
         /\ One(q, T) /\ ~(Has(q, T) /\ e \in T) => One(Append(q, e), T)
  <1> DEFINE b == <<e>>
  <1>1. b \in Seq(S) /\ DOMAIN b = {1} /\ b[1] = e /\ Append(q, e) = q \o b OBVIOUS
  <1> HIDE DEF b
  <1>2. Has(b, T) <=> e \in T BY <1>1 DEF Has
  <1>3. One(b, T) BY <1>1 DEF One
  <1> QED BY <1>1, <1>2, <1>3, HasConcat

(* the head of a sequence and the rest *)
LEMMA HasTail ==
  ASSUME NEW S, NEW q \in Seq(S), q # <<>>, NEW T
  PROVE  /\ Tail(q) \in Seq(S) /\ Head(q) \in S /\ Len(Tail(q)) < Len(q)
         /\ Has(q, T) <=> Head(q) \in T \/ Has(Tail(q), T)
         /\ One(q, T) => One(Tail(q), T) /\ ~(Head(q) \in T /\ Has(Tail(q), T))
  <1>1. /\ Len(q) \in Nat /\ Len(q) >= 1 /\ Tail(q) \in Seq(S) /\ Head(q) \in S /\ Head(q) = q[1]
        /\ DOMAIN q = 1 .. Len(q) /\ DOMAIN Tail(q) = 1 .. Len(q) - 1 /\ Len(Tail(q)) = Len(q) - 1
    OBVIOUS
  <1>2. \A i \in 1 .. Len(q) - 1 : Tail(q)[i] = q[i + 1] /\ i + 1 \in 1 .. Len(q) /\ i + 1 # 1 OBVIOUS
  <1>3. \A i \in 1 .. Len(q) : i = 1 \/ (i - 1 \in 1 .. Len(q) - 1 /\ (i - 1) + 1 = i) BY <1>1
  <1> DEFINE r == Tail(q)
             h == Head(q)
  <1>4. /\ DOMAIN r = 1 .. Len(q) - 1 /\ h = q[1]
        /\ \A i \in 1 .. Len(q) - 1 : r[i] = q[i + 1] /\ i + 1 \in 1 .. Len(q) /\ i + 1 # 1
    BY <1>1, <1>2
  <1> HIDE DEF r, h
  <1>5. Has(q, T) => h \in T \/ Has(r, T)
    <2> SUFFICES ASSUME NEW i \in DOMAIN q, q[i] \in T PROVE h \in T \/ Has(r, T) BY DEF Has
    <2>1. CASE i = 1 BY <1>4, <2>1
    <2>2. CASE i # 1
      <3>1. i - 1 \in DOMAIN r /\ r[i - 1] = q[i] BY <1>1, <1>3, <1>4, <2>2
      <3> QED BY <3>1 DEF Has
    <2> QED BY <2>1, <2>2
  <1>6. h \in T \/ Has(r, T) => Has(q, T)
    <2>1. 1 \in DOMAIN q BY <1>1
    <2> QED BY <1>1, <1>4, <2>1 DEF Has
  <1>7. ASSUME One(q, T) PROVE One(r, T) /\ ~(h \in T /\ Has(r, T))
    <2>1. \A i, j \in 1 .. Len(q) - 1 : i + 1 = j + 1 => i = j BY <1>1
    <2>2. One(r, T) BY <1>1, <1>4, <1>7, <2>1 DEF One
    <2>3. 1 \in DOMAIN q BY <1>1
    <2>4. ~(h \in T /\ Has(r, T)) BY <1>1, <1>4, <1>7, <2>3 DEF One, Has
    <2> QED BY <2>2, <2>4
  <1>8. Len(Tail(q)) < Len(q) BY <1>1
  <1> QED BY <1>1, <1>5, <1>6, <1>7, <1>8 DEF r, h

(* what holds of the parts holds of their concatenation *)
LEMMA FlattenNone ==
  ASSUME NEW S, NEW seqs \in Seq(Seq(S)), NEW T, \A k \in DOMAIN seqs : ~Has(seqs[k], T)
  PROVE  FlattenSeq(seqs) \in Seq(S) /\ ~Has(FlattenSeq(seqs), T)
  <1> DEFINE n == Len(seqs)
  <1>1. CASE n = 0
    <2>1. FlattenSeq(seqs) = <<>> /\ <<>> \in Seq(S) BY <1>1 DEF FlattenSeq
    <2> QED BY <2>1 DEF Has
  <1>2. CASE n # 0
    <2>1. PICK f \in [1 .. n -> Seq(S)] :
            /\ f[1] = seqs[1] /\ \A i \in 2 .. n : f[i] = f[i - 1] \o seqs[i]
            /\ FlattenSeq(seqs) = f[n]
      BY <1>2, Flattened
    <2>2. n \in Nat /\ n >= 1 /\ DOMAIN seqs = 1 .. n /\ \A i \in 1 .. n : seqs[i] \in Seq(S) BY <1>2
    <2> HIDE DEF n
    <2> DEFINE K == {k \in Nat : k = 0 \/ ~Has(f[k], T)}
    <2>3. ASSUME NEW k \in 0 .. n - 1, k \in K PROVE k + 1 \in K
      <3>0. k + 1 \in 1 .. n /\ k + 1 \in Nat /\ k \in Nat BY <2>2, <2>3
      <3>1. CASE k = 0
        <4>0. 1 \in DOMAIN seqs BY <2>2
        <4>1. ~Has(f[1], T) BY <2>1, <2>2, <4>0
        <4> QED BY <3>1, <4>1
      <3>2. CASE k # 0
        <4>1. k + 1 \in 2 .. n /\ (k + 1) - 1 = k /\ k \in 1 .. n BY <2>2, <3>0, <3>2
        <4>2. f[k + 1] = f[k] \o seqs[k + 1] /\ f[k] \in Seq(S) /\ seqs[k + 1] \in Seq(S) BY <2>1, <2>2, <3>0, <4>1
        <4>3. ~Has(f[k], T) /\ ~Has(seqs[k + 1], T) BY <2>2, <2>3, <3>0, <3>2
        <4> HIDE DEF K
        <4>4. ~Has(f[k + 1], T) BY <4>2, <4>3, HasConcat
        <4> QED BY <3>0, <4>4 DEF K
      <3> QED BY <3>1, <3>2
    <2>4. n \in K
      <3> HIDE DEF K
      <3>1. 0 \in K BY DEF K
      <3>2. \A i \in 0 .. n : i \in K BY <2>2, <2>3, <3>1, CountingUp
      <3> QED BY <2>2, <3>2
    <2>5. ~Has(f[n], T) BY <1>2, <2>4
    <2>6. f[n] \in Seq(S) BY <2>1, <2>2
    <2> QED BY <2>1, <2>5, <2>6
  <1> QED BY <1>1, <1>2

(* ... and what only one of the parts has, once, they have once *)
LEMMA FlattenLone ==
  ASSUME NEW S, NEW seqs \in Seq(Seq(S)), NEW T,
         \A k \in DOMAIN seqs : One(seqs[k], T),
         \A k, l \in DOMAIN seqs : Has(seqs[k], T) /\ Has(seqs[l], T) => k = l
  PROVE  FlattenSeq(seqs) \in Seq(S) /\ One(FlattenSeq(seqs), T)
  <1> DEFINE n == Len(seqs)
  <1>1. CASE n = 0
    <2>1. FlattenSeq(seqs) = <<>> /\ <<>> \in Seq(S) BY <1>1 DEF FlattenSeq
    <2> QED BY <2>1 DEF One
  <1>2. CASE n # 0
    <2>1. PICK f \in [1 .. n -> Seq(S)] :
            /\ f[1] = seqs[1] /\ \A i \in 2 .. n : f[i] = f[i - 1] \o seqs[i]
            /\ FlattenSeq(seqs) = f[n]
      BY <1>2, Flattened
    <2>2. n \in Nat /\ n >= 1 /\ DOMAIN seqs = 1 .. n /\ \A i \in 1 .. n : seqs[i] \in Seq(S) BY <1>2
    <2> HIDE DEF n
    <2> DEFINE K == {k \in Nat : k = 0 \/ (One(f[k], T) /\ (Has(f[k], T) => \E l \in 1 .. k : Has(seqs[l], T)))}
    <2>3. ASSUME NEW k \in 0 .. n - 1, k \in K PROVE k + 1 \in K
      <3>0. k + 1 \in 1 .. n /\ k + 1 \in Nat /\ k \in Nat BY <2>2, <2>3
      <3>1. CASE k = 0
        <4>0. 1 \in DOMAIN seqs BY <2>2
        <4>1. One(f[1], T) /\ (Has(f[1], T) => Has(seqs[1], T)) BY <2>1, <4>0
        <4>2. 1 \in 1 .. 1 /\ k + 1 = 1 BY <3>1
        <4> QED BY <3>0, <4>1, <4>2
      <3>2. CASE k # 0
        <4>1. k + 1 \in 2 .. n /\ (k + 1) - 1 = k /\ k \in 1 .. n BY <2>2, <3>0, <3>2
        <4>2. f[k + 1] = f[k] \o seqs[k + 1] /\ f[k] \in Seq(S) /\ seqs[k + 1] \in Seq(S) BY <2>1, <2>2, <3>0, <4>1
        <4>3. One(f[k], T) /\ (Has(f[k], T) => \E l \in 1 .. k : Has(seqs[l], T)) BY <2>3, <3>2
        <4> HIDE DEF K
        <4>4. /\ Has(f[k + 1], T) <=> Has(f[k], T) \/ Has(seqs[k + 1], T)
              /\ One(f[k], T) /\ One(seqs[k + 1], T) /\ ~(Has(f[k], T) /\ Has(seqs[k + 1], T)) => One(f[k + 1], T)
          BY <4>2, HasConcat
        <4>5. One(seqs[k + 1], T) BY <2>2, <3>0
        <4>6. ~(Has(f[k], T) /\ Has(seqs[k + 1], T))
          <5> SUFFICES ASSUME Has(f[k], T), Has(seqs[k + 1], T) PROVE FALSE OBVIOUS
          <5>1. PICK l \in 1 .. k : Has(seqs[l], T) BY <4>3
          <5>2. l \in 1 .. n /\ l # k + 1 BY <2>2, <4>1, <5>1
          <5> QED BY <2>2, <3>0, <5>1, <5>2
        <4>7. \A l \in 1 .. k : l \in 1 .. k + 1 BY <3>0
        <4>8. k + 1 \in 1 .. k + 1 BY <3>0
        <4>9. Has(f[k + 1], T) => \E l \in 1 .. k + 1 : Has(seqs[l], T) BY <4>3, <4>4, <4>7, <4>8
        <4>10. One(f[k + 1], T) BY <4>3, <4>4, <4>5, <4>6
        <4> QED BY <3>0, <4>9, <4>10 DEF K
      <3> QED BY <3>1, <3>2
    <2>4. n \in K
      <3> HIDE DEF K
      <3>1. 0 \in K BY DEF K
      <3>2. \A i \in 0 .. n : i \in K BY <2>2, <2>3, <3>1, CountingUp
      <3> QED BY <2>2, <3>2
    <2>5. One(f[n], T) BY <1>2, <2>4
    <2>6. f[n] \in Seq(S) BY <2>1, <2>2
    <2> QED BY <2>1, <2>5, <2>6
  <1> QED BY <1>1, <1>2

-----------------------------------------------------------------------------
(* a loop of n rounds, each of which makes its result from the one before *)
IsLoop(n, S, a, F) == n \in Nat /\ a \in S /\ F \in [(1 .. n) \X S -> S]
HasRun(n, S, a, F) == \E f \in [0 .. n -> S] : f[0] = a /\ \A i \in 1 .. n : f[i] = F[<<i, f[i - 1]>>]

LEMMA CountedLoop ==
  ASSUME NEW n, NEW S, NEW a, NEW F, IsLoop(n, S, a, F)
  PROVE  HasRun(n, S, a, F)
<1>0. n \in Nat /\ a \in S /\ F \in [(1 .. n) \X S -> S]
  BY DEF IsLoop
<1> DEFINE Runs(f, k) == f[0] = a /\ \A i \in 1 .. k : f[i] = F[<<i, f[i - 1]>>]
           K == {k \in Nat : \E f \in [0 .. k -> S] : Runs(f, k)}
<1>1. 0 \in K
  <2> DEFINE g == [i \in 0 .. 0 |-> a]
  <2>1. g \in [0 .. 0 -> S] /\ Runs(g, 0)
    BY <1>0
  <2> HIDE DEF g
  <2> QED
    BY <2>1
<1>2. ASSUME NEW k \in 0 .. n - 1, k \in K PROVE k + 1 \in K
  <2>1. PICK f \in [0 .. k -> S] : Runs(f, k)
    BY <1>2
  <2> DEFINE x == F[<<k + 1, f[k]>>]
             g == [i \in 0 .. k + 1 |-> IF i <= k THEN f[i] ELSE x]
  <2>2. k \in Nat /\ k + 1 \in 1 .. n /\ k \in 0 .. k
    BY <1>0, <1>2
  <2>3. x \in S
    BY <1>0, <2>2
  <2>4. g \in [0 .. k + 1 -> S] /\ g[0] = a
    BY <2>1, <2>2, <2>3
  <2>5. ASSUME NEW i \in 1 .. k + 1 PROVE g[i] = F[<<i, g[i - 1]>>]
    <3>1. CASE i <= k
      <4>1. i \in 1 .. k /\ i - 1 \in 0 .. k /\ i \in 0 .. k + 1 /\ i - 1 \in 0 .. k + 1 /\ i - 1 <= k
        BY <2>2, <3>1
      <4>2. g[i] = f[i] /\ g[i - 1] = f[i - 1]
        BY <3>1, <4>1
      <4> HIDE DEF g
      <4> QED
        BY <2>1, <4>1, <4>2
    <3>2. CASE i = k + 1
      <4>1. i - 1 = k /\ k <= k /\ ~(k + 1 <= k) /\ k \in 0 .. k + 1 /\ k + 1 \in 0 .. k + 1
        BY <2>2, <3>2
      <4>2. g[k + 1] = F[<<k + 1, f[k]>>] /\ g[k] = f[k]
        BY <4>1
      <4> HIDE DEF g
      <4> QED
        BY <3>2, <4>1, <4>2
    <3> QED
      BY <2>2, <3>1, <3>2
  <2>6. Runs(g, k + 1) /\ k + 1 \in Nat
    <3> HIDE DEF g
    <3> QED
      BY <2>2, <2>4, <2>5
  <2> HIDE DEF g, Runs
  <2> QED
    BY <2>4, <2>6
<1>3. n \in K
  <2> HIDE DEF K
  <2>1. \A i \in 0 .. n : i \in K
    BY <1>0, <1>1, <1>2, CountingUp
  <2> QED
    BY <1>0, <2>1
<1> QED
  BY <1>3 DEF HasRun

=============================================================================
