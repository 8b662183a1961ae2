---------------------------- MODULE TunnelProofs ----------------------------
(***************************************************************************)
(* What a tunnel delivers, for any number of relays, bytes, chaff frames   *)
(* and faults.                                                             *)
(*                                                                         *)
(* The invariant gives every connection two positions in the sender's      *)
(* bytes, per direction: its reader has taken lo of them and its writer    *)
(* has put hi on it, and what lies in between is on the wire.  A node that *)
(* can still write has put on one connection what it took from the other,  *)
(* and as long as nothing failed every node has.                           *)
(***************************************************************************)
EXTENDS Tunnel, WellFoundedInduction, TLAPS

-----------------------------------------------------------------------------
(* Lists: what Only keeps.  Induction is for the members of a set, because *)
(* the library's rules quantify over an operator, which the provers cannot *)
(* instantiate; it follows from the existence of minimal elements (WFMin). *)

\* A set of natural numbers that is not empty has a least element.
LEMMA LeastNat ==
    ASSUME NEW T \in SUBSET Nat, T # {}
    PROVE  \E m \in T : \A k \in T : m <= k
<1> DEFINE R == {p \in Nat \X Nat : p[1] < p[2]}
<1>1. IsWellFoundedOn(R, Nat)
    BY NatLessThanWellFounded, Zenon DEF OpToRel
<1>2. \A k, m \in T : <<k, m>> \in R <=> k < m
    BY Zenon
<1> HIDE DEF R
<1>3. PICK m \in T : \A k \in T : ~ (<<k, m>> \in R)
    BY <1>1, WFMin, Zenon
<1>4. \A k \in T : ~ (k < m)
    BY <1>2, <1>3, Zenon
<1>5. \A k \in T : m <= k
    BY <1>4
<1> QED
    BY <1>5, Zenon

\* Induction over the natural numbers, for the members of a set.
LEMMA Induction ==
    ASSUME NEW T, 0 \in T, \A n \in Nat : n \in T => n + 1 \in T
    PROVE  \A n \in Nat : n \in T
<1> SUFFICES ASSUME Nat \ T # {} PROVE FALSE
    BY Zenon
<1>1. PICK m \in Nat \ T : \A k \in Nat \ T : m <= k
    BY LeastNat, Zenon
<1>2. m # 0 /\ m - 1 \in Nat
    BY <1>1
<1>3. m - 1 \in T
    BY <1>1, <1>2
<1> QED
    BY <1>1, <1>2, <1>3

\* g is the function that Only(s, S) computes, up to n.
KeptRec(s, S, n, g) == g = [i \in 0..n |->
            IF i = 0 THEN <<>>
            ELSE IF s[i] \in S THEN Append(g[i - 1], s[i]) ELSE g[i - 1]]

\* There is such a function: the recursion is well-founded.
LEMMA KeptExists ==
    ASSUME NEW s, NEW S
    PROVE  \A n \in Nat : \E g : KeptRec(s, S, n, g)
<1> DEFINE T == {n \in Nat : \E g : KeptRec(s, S, n, g)}
<1>1. 0 \in T
  <2>1. KeptRec(s, S, 0, [i \in 0..0 |-> <<>>])
    BY DEF KeptRec
  <2> QED BY <2>1, Zenon
<1>2. ASSUME NEW n \in Nat, n \in T PROVE n + 1 \in T
  <2>1. PICK g : KeptRec(s, S, n, g)
    BY <1>2, Zenon
  <2> DEFINE h == [i \in 0..n + 1 |-> IF i <= n THEN g[i] ELSE
            IF s[n + 1] \in S THEN Append(g[n], s[n + 1]) ELSE g[n]]
  <2>2. \A i \in 0..n : g[i] = IF i = 0 THEN <<>>
            ELSE IF s[i] \in S THEN Append(g[i - 1], s[i]) ELSE g[i - 1]
    BY <2>1, Zenon DEF KeptRec
  <2>3. \A i \in 0..n : h[i] = g[i]
    OBVIOUS
  <2>4. h[n + 1] = IF s[n + 1] \in S THEN Append(g[n], s[n + 1]) ELSE g[n]
    OBVIOUS
  <2>5. DOMAIN h = 0..n + 1 /\ h = [i \in 0..n + 1 |-> h[i]]
    BY Zenon
  <2> HIDE DEF h
  <2>6. ASSUME NEW i \in 0..n + 1 PROVE h[i] = IF i = 0 THEN <<>>
            ELSE IF s[i] \in S THEN Append(h[i - 1], s[i]) ELSE h[i - 1]
    <3>1. CASE i = n + 1
      BY <3>1, <2>3, <2>4
    <3>2. CASE i # n + 1
      BY <3>2, <2>2, <2>3
    <3> QED BY <3>1, <3>2, Zenon
  <2>7. KeptRec(s, S, n + 1, h)
    BY <2>5, <2>6, Zenon DEF KeptRec
  <2> QED BY <2>7
<1> HIDE DEF T
<1>3. \A n \in Nat : n \in T
    BY <1>1, <1>2, Induction, Zenon
<1> QED
    BY <1>3, Zenon DEF T

\* What Only returns is the last value of that function.
LEMMA OnlyIsRec ==
    ASSUME NEW s, NEW S, Len(s) \in Nat
    PROVE  \E g : KeptRec(s, S, Len(s), g) /\ Only(s, S) = g[Len(s)]
<1> DEFINE k == CHOOSE g : KeptRec(s, S, Len(s), g)
<1>1. Only(s, S) = k[Len(s)]
    BY Zenon DEF Only, KeptRec
<1>2. KeptRec(s, S, Len(s), k)
    BY KeptExists, Zenon
<1> QED
    BY <1>1, <1>2, Zenon

\* Induction over sequences, by appending.
LEMMA SeqInduction ==
    ASSUME NEW X, NEW P, <<>> \in P,
           \A s \in Seq(X), x \in X : s \in P => Append(s, x) \in P
    PROVE  \A s \in Seq(X) : s \in P
<1> DEFINE T == {n \in Nat : \A s \in Seq(X) : Len(s) = n => s \in P}
<1>1. 0 \in T
    BY DEF T
<1>2. ASSUME NEW n \in Nat, n \in T PROVE n + 1 \in T
  <2> SUFFICES ASSUME NEW s \in Seq(X), Len(s) = n + 1 PROVE s \in P
    OBVIOUS
  <2> DEFINE r == SubSeq(s, 1, n)
  <2>1. r \in Seq(X) /\ Len(r) = n /\ s[n + 1] \in X
    OBVIOUS
  <2>2. s = Append(r, s[n + 1])
    OBVIOUS
  <2>3. r \in P
    BY <1>2, <2>1, Zenon
  <2> HIDE DEF r
  <2> QED BY <2>1, <2>2, <2>3, Zenon
<1> HIDE DEF T
<1>3. \A n \in Nat : n \in T
    BY <1>1, <1>2, Induction, Zenon
<1> QED
    BY <1>3 DEF T

\* Only, of the empty sequence.
LEMMA OnlyEmpty == ASSUME NEW S PROVE Only(<<>>, S) = <<>>
<1>1. PICK g : KeptRec(<<>>, S, 0, g) /\ Only(<<>>, S) = g[0]
    BY OnlyIsRec
<1> QED BY <1>1 DEF KeptRec

\* Only, of a sequence with one more element.
LEMMA OnlyAppend ==
    ASSUME NEW X, NEW s \in Seq(X), NEW x \in X, NEW S
    PROVE  Only(Append(s, x), S) = IF x \in S THEN Append(Only(s, S), x) ELSE Only(s, S)
<1> DEFINE n == Len(s)
           t == Append(s, x)
<1>1. n \in Nat /\ Len(t) = n + 1 /\ t[n + 1] = x /\ \A i \in 1..n : t[i] = s[i]
    OBVIOUS
<1>2. PICK g : KeptRec(s, S, n, g) /\ Only(s, S) = g[n]
    BY <1>1, OnlyIsRec, Zenon
<1> HIDE DEF n, t
<1>3. PICK h : KeptRec(t, S, n + 1, h) /\ Only(t, S) = h[n + 1]
  <2>1. Len(t) \in Nat
    BY <1>1
  <2>2. \E h : KeptRec(t, S, Len(t), h) /\ Only(t, S) = h[Len(t)]
    BY <2>1, OnlyIsRec, Zenon
  <2> QED BY <1>1, <2>2, Zenon
<1>4. \A i \in 0..n : g[i] = IF i = 0 THEN <<>>
            ELSE IF s[i] \in S THEN Append(g[i - 1], s[i]) ELSE g[i - 1]
    BY <1>2, Zenon DEF KeptRec
<1>5. \A i \in 0..n + 1 : h[i] = IF i = 0 THEN <<>>
            ELSE IF t[i] \in S THEN Append(h[i - 1], t[i]) ELSE h[i - 1]
    BY <1>3, Zenon DEF KeptRec
<1> DEFINE T == {i \in Nat : i <= n => g[i] = h[i]}
<1>6. 0 \in T
    BY <1>1, <1>4, <1>5
<1>7. ASSUME NEW i \in Nat, i \in T PROVE i + 1 \in T
    BY <1>1, <1>4, <1>5, <1>7
<1> HIDE DEF T
<1>8. \A i \in Nat : i \in T
    BY <1>6, <1>7, Induction, Zenon
<1>9. g[n] = h[n]
    BY <1>1, <1>8 DEF T
<1>10. h[n + 1] = IF x \in S THEN Append(h[n], x) ELSE h[n]
    BY <1>1, <1>5
<1> QED
    BY <1>2, <1>3, <1>9, <1>10, Zenon DEF n, t

\* The type of Only.
LEMMA OnlyType ==
    ASSUME NEW X, NEW S, NEW Y, \A x \in X : x \in S => x \in Y
    PROVE  \A s \in Seq(X) : Only(s, S) \in Seq(Y)
<1> DEFINE P == {s \in Seq(X) : Only(s, S) \in Seq(Y)}
<1>1. <<>> \in P
  <2>1. <<>> \in Seq(X) /\ <<>> \in Seq(Y)
    OBVIOUS
  <2> QED BY <2>1, OnlyEmpty, Zenon
<1>2. ASSUME NEW s \in Seq(X), NEW x \in X, s \in P PROVE Append(s, x) \in P
  <2>1. Only(Append(s, x), S) = IF x \in S THEN Append(Only(s, S), x) ELSE Only(s, S)
    BY OnlyAppend, Zenon
  <2>2. Only(Append(s, x), S) \in Seq(Y)
    BY <1>2, <2>1
  <2> QED BY <2>2
<1> HIDE DEF P
<1>3. \A s \in Seq(X) : s \in P
    BY <1>1, <1>2, SeqInduction, Zenon
<1> QED
    BY <1>3, Zenon DEF P

\* Appending after concatenating.
LEMMA ConcatAppend ==
    ASSUME NEW X, NEW s \in Seq(X), NEW t \in Seq(X), NEW x \in X
    PROVE  s \o Append(t, x) = Append(s \o t, x) /\ s \o t \in Seq(X)
    OBVIOUS

\* Only distributes over concatenation: it may be applied piece by piece.
LEMMA OnlyConcat ==
    ASSUME NEW X, NEW S, NEW s \in Seq(X)
    PROVE  \A t \in Seq(X) : Only(s \o t, S) = Only(s, S) \o Only(t, S)
<1> DEFINE P == {t \in Seq(X) : Only(s \o t, S) = Only(s, S) \o Only(t, S)}
<1>0. Only(s, S) \in Seq(X) /\ \A t \in Seq(X) : Only(t, S) \in Seq(X)
    BY OnlyType, Zenon
<1>1. <<>> \in P
    BY <1>0, OnlyEmpty
<1>2. ASSUME NEW t \in Seq(X), NEW x \in X, t \in P PROVE Append(t, x) \in P
  <2>1. s \o Append(t, x) = Append(s \o t, x) /\ s \o t \in Seq(X)
    BY ConcatAppend, Zenon
  <2>2. Only(s \o Append(t, x), S) = IF x \in S THEN Append(Only(s \o t, S), x) ELSE Only(s \o t, S)
    BY <2>1, OnlyAppend, Zenon
  <2>3. Only(Append(t, x), S) = IF x \in S THEN Append(Only(t, S), x) ELSE Only(t, S)
    BY OnlyAppend, Zenon
  <2>4. Only(s, S) \o Append(Only(t, S), x) = Append(Only(s, S) \o Only(t, S), x)
    BY <1>0, ConcatAppend
  <2>5. Only(s \o t, S) = Only(s, S) \o Only(t, S)
    BY <1>2, Zenon
  <2>6. Only(s \o Append(t, x), S) = Only(s, S) \o Only(Append(t, x), S)
    <3>1. CASE x \in S
      BY <3>1, <2>2, <2>3, <2>4, <2>5, Zenon
    <3>2. CASE x \notin S
      BY <3>2, <2>2, <2>3, <2>5, Zenon
    <3> QED BY <3>1, <3>2, Zenon
  <2>7. Append(t, x) \in Seq(X)
    OBVIOUS
  <2> QED BY <2>6, <2>7, Zenon
<1> HIDE DEF P
<1>3. \A t \in Seq(X) : t \in P
    BY <1>1, <1>2, SeqInduction, Zenon
<1> QED
    BY <1>3, Zenon DEF P

\* Only keeps everything when everything passes the test.
LEMMA OnlyAll ==
    ASSUME NEW X, NEW S, X \subseteq S
    PROVE  \A s \in Seq(X) : Only(s, S) = s
<1> DEFINE P == {s \in Seq(X) : Only(s, S) = s}
<1>1. <<>> \in P
    BY OnlyEmpty
<1>2. ASSUME NEW s \in Seq(X), NEW x \in X, s \in P PROVE Append(s, x) \in P
    BY <1>2, OnlyAppend
<1> HIDE DEF P
<1>3. \A s \in Seq(X) : s \in P
    BY <1>1, <1>2, SeqInduction, Zenon
<1> QED
    BY <1>3, Zenon DEF P

\* Only keeps nothing when nothing passes the test.
LEMMA OnlyNone ==
    ASSUME NEW X, NEW S, X \cap S = {}
    PROVE  \A s \in Seq(X) : Only(s, S) = <<>>
<1> DEFINE P == {s \in Seq(X) : Only(s, S) = <<>>}
<1>1. <<>> \in P
    BY OnlyEmpty
<1>2. ASSUME NEW s \in Seq(X), NEW x \in X, s \in P PROVE Append(s, x) \in P
    BY <1>2, OnlyAppend
<1> HIDE DEF P
<1>3. \A s \in Seq(X) : s \in P
    BY <1>1, <1>2, SeqInduction, Zenon
<1> QED
    BY <1>3, Zenon DEF P

-----------------------------------------------------------------------------
(* The invariant.                                                          *)

OwnFrames == [type : {"chaff", "auth"}, id : Nodes]

\* What may be on connection j in direction d: payload, and on a framed connection its
\* writer's own frames, which are all that may wait for a flush.
OwnOn(j, d) == {f \in OwnFrames : j \in 1..Relays /\ f.id = (IF d = "up" THEN j - 1 ELSE j)}
Allowed(j, d) == DataFrames \cup OwnOn(j, d)
HopStreams(j, d) == [buf : Seq(OwnOn(j, d)), wire : Seq(Allowed(j, d)), fin : BOOLEAN]
Peers == [sent : Nat, got : Seq(DataFrames), closed : BOOLEAN, end : {"none", "eof", "err"}]

TunTypeOK ==
    /\ node \in [Nodes -> {"idle", "gate", "run", "ended"}]
    /\ pump \in [Nodes -> [Dirs -> {"run", "done", "err"}]]
    /\ broken \in SUBSET Conns
    /\ app \in Peers /\ backend \in Peers
    /\ chaffs \in Nat /\ faults \in Nat

StreamsOK ==
    /\ stream = [j \in Conns |-> [d \in Dirs |-> stream[j][d]]]
    /\ \A j \in Conns, d \in Dirs : stream[j][d] \in HopStreams(j, d)

\* The relays come up one after the other, and the first frame a gate reads is not payload.
GateOrder ==
    \A i \in 1..Relays :
        /\ node[i - 1] \in {"idle", "gate"} => node[i] = "idle"
        /\ node[i - 1] = "run" => node[i] # "idle"
        /\ node[i] = "idle" => stream[i]["up"].wire = <<>> /\ stream[i]["up"].buf = <<>>
        /\ node[i] = "gate" =>
              IF stream[i]["up"].wire = <<>> THEN i \in broken
              ELSE stream[i]["up"].wire[1] \in OwnFrames

\* The ends of a direction: where its bytes enter and leave, who sends and what arrived.
Src(d) == IF d = "up" THEN 0 ELSE Relays + 1
Dst(d) == IF d = "up" THEN Relays + 1 ELSE 0
Sender(d) == IF d = "up" THEN app ELSE backend
Got(d) == IF d = "up" THEN backend.got ELSE app.got
Upstream(i, d) == {k \in Nodes : IF d = "up" THEN k <= i ELSE i <= k}

\* A connection's writer has shut it down only after its own end.
FinFollowsEnd ==
    \A j \in Conns, d \in Dirs : stream[j][d].fin =>
        IF j = Src(d) THEN Sender(d).closed
        ELSE pump[IF d = "up" THEN j - 1 ELSE j][d] = "done"

\* Nothing failed so far, nor did the backend close before the request was complete.
Clean(d) == faults = 0 /\ (d = "up" => ~backend.closed)

\* Without a fault a connection breaks only after the response is complete, and the end of
\* a direction spreads from its source.
EndsInOrder ==
    /\ faults = 0 =>
          /\ broken # {} => pump[0]["down"] = "done"
          /\ \A i \in Nodes : /\ pump[i]["down"] # "err"
                              /\ pump[i]["up"] = "err" => pump[0]["down"] = "done"
    /\ \A d \in Dirs : Clean(d) =>
          \A i \in Nodes : pump[i][d] = "done" =>
              Sender(d).closed /\ \A k \in Upstream(i, d) : pump[k][d] = "done"

\* Bytes a + 1 .. b, and the payload on a connection.
Run(a, b) == [k \in 1..(b - a) |-> Data(a + k)]
Payload(j, d) == Only(stream[j][d].wire, DataFrames)

FlowOK(d, lo, hi) ==
    /\ \A j \in Conns : lo[j] <= hi[j] /\ Payload(j, d) = Run(lo[j], hi[j])
    /\ \A i \in Nodes :
          /\ Clean(d) \/ (node[i] # "ended" /\ Out(i, d) \notin broken)
                => hi[Out(i, d)] = lo[In(i, d)]
          /\ Clean(d) /\ pump[i][d] = "done"
                => lo[In(i, d)] = Sender(d).sent /\ hi[In(i, d)] = Sender(d).sent
    /\ Clean(d) \/ Src(d) \notin broken => hi[Src(d)] = Sender(d).sent
    /\ Got(d) = Numbered(lo[Dst(d)])

Flow(d) == \E lo, hi \in [Conns -> 0..Sender(d).sent] : FlowOK(d, lo, hi)
Flows == \A d \in Dirs : Flow(d)

\* The inductive invariant.
TunInv ==
    /\ TunTypeOK /\ StreamsOK /\ GateOrder
    /\ FinFollowsEnd /\ EndsInOrder /\ Flows /\ EofMeansComplete

-----------------------------------------------------------------------------
(* Connections, frames and sequences of them.                              *)

\* A node reads one connection and writes another.
LEMMA InOut ==
    ASSUME NEW i \in Nodes, NEW d \in Dirs
    PROVE  /\ In(i, d) \in Conns /\ Out(i, d) \in Conns /\ In(i, d) # Out(i, d)
           /\ In(i, d) # Dst(d) /\ Out(i, d) # Src(d)
           /\ \A k \in Nodes : (In(i, d) = In(k, d) => i = k) /\ (Out(i, d) = Out(k, d) => i = k)
    BY TunnelAssumption DEF In, Out, Nodes, Conns, Dirs, Src, Dst

\* Sequences over a smaller set.
LEMMA SeqMono ==
    ASSUME NEW S, NEW T, S \subseteq T, NEW s \in Seq(S)
    PROVE  s \in Seq(T)
    OBVIOUS

LEMMA SeqClosed ==
    ASSUME NEW S, NEW s \in Seq(S), NEW t \in Seq(S)
    PROVE  /\ s \o t \in Seq(S) /\ <<>> \in Seq(S)
           /\ s # <<>> => Tail(s) \in Seq(S)
           /\ \A x \in S : <<x>> \in Seq(S)
           /\ \A n \in 1..Len(s) : SubSeq(s, 1, n) \in Seq(S) /\ SubSeq(s, n + 1, Len(s)) \in Seq(S)
    OBVIOUS

\* The parts of a stream, and what writing and flushing make of it.
LEMMA StreamParts ==
    ASSUME NEW j \in Conns, NEW d \in Dirs, NEW s \in HopStreams(j, d)
    PROVE  /\ s.buf \in Seq(OwnOn(j, d)) /\ s.wire \in Seq(Allowed(j, d)) /\ s.fin \in BOOLEAN
           /\ s = [buf |-> s.buf, wire |-> s.wire, fin |-> s.fin]
           /\ s.buf \in Seq(Allowed(j, d))
    <1>1. OwnOn(j, d) \subseteq Allowed(j, d)
      BY Zenon DEF Allowed
    <1> QED BY <1>1, SeqMono, Zenon DEF HopStreams

LEMMA WireReplaced ==
    ASSUME NEW j \in Conns, NEW d \in Dirs, NEW s \in HopStreams(j, d), NEW w
    PROVE  [s EXCEPT !.wire = w] = [buf |-> s.buf, wire |-> w, fin |-> s.fin]
    BY DEF HopStreams

LEMMA BufReplaced ==
    ASSUME NEW j \in Conns, NEW d \in Dirs, NEW s \in HopStreams(j, d), NEW w
    PROVE  [s EXCEPT !.buf = w] = [buf |-> w, wire |-> s.wire, fin |-> s.fin]
    BY DEF HopStreams

LEMMA FinReplaced ==
    ASSUME NEW j \in Conns, NEW d \in Dirs, NEW s \in HopStreams(j, d)
    PROVE  [s EXCEPT !.fin = TRUE] = [buf |-> s.buf, wire |-> s.wire, fin |-> TRUE]
    <1>1. PICK w : w = TRUE
      BY Zenon
    <1>2. [s EXCEPT !.fin = w] = [buf |-> s.buf, wire |-> s.wire, fin |-> w]
      BY DEF HopStreams
    <1> QED BY <1>1, <1>2, Zenon

LEMMA FlushedStream ==
    ASSUME NEW j \in Conns, NEW d \in Dirs, NEW s \in HopStreams(j, d)
    PROVE  /\ Flushed(s) = [buf |-> <<>>, wire |-> s.wire \o s.buf, fin |-> s.fin]
           /\ Flushed(s) \in HopStreams(j, d)
    <1>1. Flushed(s) = [buf |-> <<>>, wire |-> s.wire \o s.buf, fin |-> s.fin]
      BY Zenon DEF Flushed
    <1>2. <<>> \in Seq(OwnOn(j, d)) /\ s.wire \o s.buf \in Seq(Allowed(j, d))
      BY StreamParts, SeqClosed, Zenon
    <1> QED BY <1>1, <1>2, StreamParts, Zenon DEF HopStreams

\* Writing own frames without a flush, and payload with one.
LEMMA WroteOwn ==
    ASSUME NEW j \in Conns, NEW d \in Dirs, NEW s \in HopStreams(j, d), NEW f \in OwnOn(j, d)
    PROVE  Wrote(s, j, <<f>>) \in HopStreams(j, d)
    <1>1. <<f>> \in Seq(OwnOn(j, d)) /\ s.buf \o <<f>> \in Seq(OwnOn(j, d))
      BY StreamParts, SeqClosed, Zenon
    <1>2. Wrote(s, j, <<f>>) = [buf |-> IF j \in broken THEN s.buf ELSE s.buf \o <<f>>,
                                wire |-> s.wire, fin |-> s.fin]
      BY Zenon DEF Wrote
    <1> QED BY <1>1, <1>2, StreamParts, SMTT(30) DEF HopStreams

LEMMA WroteAndFlushed ==
    ASSUME NEW j \in Conns, NEW d \in Dirs, NEW s \in HopStreams(j, d),
           NEW frames \in Seq(Allowed(j, d))
    PROVE  /\ Flushed(Wrote(s, j, frames)) =
                 [buf |-> <<>>, fin |-> s.fin,
                  wire |-> s.wire \o (IF j \in broken THEN s.buf ELSE s.buf \o frames)]
           /\ Flushed(Wrote(s, j, frames)) \in HopStreams(j, d)
    <1>1. Wrote(s, j, frames) = [buf |-> IF j \in broken THEN s.buf ELSE s.buf \o frames,
                                 wire |-> s.wire, fin |-> s.fin]
      BY Zenon DEF Wrote
    <1>2. Flushed(Wrote(s, j, frames)) =
                 [buf |-> <<>>, fin |-> s.fin,
                  wire |-> s.wire \o (IF j \in broken THEN s.buf ELSE s.buf \o frames)]
      BY <1>1 DEF Flushed
    <1>3. s.buf \o frames \in Seq(Allowed(j, d)) /\ s.wire \o s.buf \in Seq(Allowed(j, d))
      BY StreamParts, SeqClosed, Zenon
    <1>4. s.wire \o (s.buf \o frames) \in Seq(Allowed(j, d)) /\ <<>> \in Seq(OwnOn(j, d))
      BY <1>3, StreamParts, SeqClosed, Zenon
    <1> QED BY <1>2, <1>3, <1>4, StreamParts DEF HopStreams

-----------------------------------------------------------------------------
(* What a step makes of the streams.                                       *)

\* The streams of a step that changes none, one, or one on each side of a node.
Others(S) == \A j \in Conns, d \in Dirs : <<j, d>> \notin S => stream'[j][d] = stream[j][d]

LEMMA SetOne ==
    ASSUME StreamsOK, NEW a \in Conns, NEW d \in Dirs, NEW s \in HopStreams(a, d),
           stream' = [stream EXCEPT ![a][d] = s]
    PROVE  StreamsOK' /\ stream'[a][d] = s /\ Others({<<a, d>>})
<1>1. /\ stream' = [j \in Conns |-> [e \in Dirs |-> stream'[j][e]]]
      /\ stream'[a][d] = s
      /\ \A j \in Conns, e \in Dirs : j # a \/ e # d => stream'[j][e] = stream[j][e]
  BY Zenon DEF StreamsOK
<1>2. \A j \in Conns, e \in Dirs : stream'[j][e] \in HopStreams(j, e)
  BY <1>1 DEF StreamsOK
<1> QED BY <1>1, <1>2, Zenon DEF StreamsOK, Others, HopStreams, OwnOn, Allowed

LEMMA SetTwo ==
    ASSUME StreamsOK, NEW a \in Conns, NEW b \in Conns, a # b, NEW d \in Dirs,
           NEW r \in HopStreams(a, d), NEW s \in HopStreams(b, d),
           stream' = [stream EXCEPT ![a][d] = r, ![b][d] = s]
    PROVE  /\ StreamsOK' /\ stream'[a][d] = r /\ stream'[b][d] = s
           /\ Others({<<a, d>>, <<b, d>>})
<1>1. /\ stream' = [j \in Conns |-> [e \in Dirs |-> stream'[j][e]]]
      /\ stream'[a][d] = r /\ stream'[b][d] = s
      /\ \A j \in Conns, e \in Dirs : (j # a /\ j # b) \/ e # d => stream'[j][e] = stream[j][e]
  BY Zenon DEF StreamsOK
<1>2. ASSUME NEW j \in Conns, NEW e \in Dirs PROVE stream'[j][e] \in HopStreams(j, e)
  <2>1. CASE j = a /\ e = d  BY <2>1, <1>1, Zenon
  <2>2. CASE j = b /\ e = d  BY <2>2, <1>1, Zenon
  <2>3. CASE (j # a /\ j # b) \/ e # d  BY <2>3, <1>1, Zenon DEF StreamsOK
  <2> QED BY <2>1, <2>2, <2>3, Zenon
<1> QED BY <1>1, <1>2, Zenon DEF StreamsOK, Others, HopStreams, OwnOn, Allowed

\* The wire of a stream replaced.
LEMMA SetWire ==
    ASSUME StreamsOK, NEW a \in Conns, NEW d \in Dirs, NEW w \in Seq(Allowed(a, d)),
           stream' = [stream EXCEPT ![a][d].wire = w]
    PROVE  /\ StreamsOK' /\ Others({<<a, d>>})
           /\ stream'[a][d] = [buf |-> stream[a][d].buf, wire |-> w, fin |-> stream[a][d].fin]
<1>1. stream[a][d] \in HopStreams(a, d)
  BY Zenon DEF StreamsOK
<1>2. [stream[a][d] EXCEPT !.wire = w] = [buf |-> stream[a][d].buf, wire |-> w, fin |-> stream[a][d].fin]
  BY <1>1, WireReplaced, Zenon
<1>3. [stream[a][d] EXCEPT !.wire = w] \in HopStreams(a, d)
  BY <1>1, <1>2, StreamParts, Zenon DEF HopStreams
<1>4. stream' = [stream EXCEPT ![a][d] = [stream[a][d] EXCEPT !.wire = w]]
  BY Zenon DEF StreamsOK
<1>5. StreamsOK' /\ stream'[a][d] = [stream[a][d] EXCEPT !.wire = w] /\ Others({<<a, d>>})
  BY <1>3, <1>4, SetOne, Zenon
<1> QED BY <1>2, <1>5, Zenon
\* Own frames carry no payload, and the payload of a concatenation is that of its parts.
LEMMA PayloadFacts ==
    ASSUME NEW j \in Conns, NEW d \in Dirs
    PROVE  /\ \A x \in Seq(OwnOn(j, d)) : Only(x, DataFrames) = <<>>
           /\ \A x \in Seq(DataFrames) : Only(x, DataFrames) = x /\ x \in Seq(Allowed(j, d))
           /\ \A x \in Seq(Allowed(j, d)) : Only(x, DataFrames) \in Seq(DataFrames)
           /\ \A x, y \in Seq(Allowed(j, d)) :
                 Only(x \o y, DataFrames) = Only(x, DataFrames) \o Only(y, DataFrames)
<1>1. OwnOn(j, d) \cap DataFrames = {}
  BY Zenon DEF OwnOn, OwnFrames, DataFrames
<1>2. \A x \in Seq(OwnOn(j, d)) : Only(x, DataFrames) = <<>>
  BY <1>1, OnlyNone, Zenon
<1>3. \A x \in Seq(DataFrames) : Only(x, DataFrames) = x
  BY OnlyAll, Zenon
<1>4. \A x \in Seq(DataFrames) : x \in Seq(Allowed(j, d))
  <2>1. DataFrames \subseteq Allowed(j, d)  BY Zenon DEF Allowed
  <2> QED BY <2>1, SeqMono, Zenon
<1>5. \A x \in Seq(Allowed(j, d)) : Only(x, DataFrames) \in Seq(DataFrames)
  BY OnlyType, Zenon
<1>6. \A x, y \in Seq(Allowed(j, d)) :
         Only(x \o y, DataFrames) = Only(x, DataFrames) \o Only(y, DataFrames)
  BY OnlyConcat
<1> QED BY <1>2, <1>3, <1>4, <1>5, <1>6, Zenon

LEMMA PayloadConcat ==
    ASSUME NEW j \in Conns, NEW d \in Dirs, NEW x \in Seq(Allowed(j, d)), NEW y \in Seq(Allowed(j, d))
    PROVE  /\ Only(x \o y, DataFrames) = Only(x, DataFrames) \o Only(y, DataFrames)
           /\ Only(x, DataFrames) \in Seq(DataFrames) /\ Only(y, DataFrames) \in Seq(DataFrames)
    BY PayloadFacts, SMTT(30)

\* Stream s of connection j has become t: something was appended to its wire, with payload
\* p, and none if the connection is broken.
Extends(s, t, j, d, p) ==
    \E x \in Seq(Allowed(j, d)) :
        /\ t.wire = s.wire \o x
        /\ j \in broken => x \in Seq(OwnOn(j, d))
        /\ Only(x, DataFrames) = p

LEMMA FlushExtends ==
    ASSUME NEW j \in Conns, NEW d \in Dirs, NEW s \in HopStreams(j, d)
    PROVE  /\ Extends(s, s, j, d, <<>>)
           /\ Extends(s, Flushed(s), j, d, <<>>)
           /\ \A y : Extends(s, Wrote(s, j, y), j, d, <<>>)
<1>2. /\ s.wire \in Seq(Allowed(j, d)) /\ s.buf \in Seq(Allowed(j, d))
      /\ s.buf \in Seq(OwnOn(j, d)) /\ Only(s.buf, DataFrames) = <<>>
  BY StreamParts, PayloadFacts
<1>3. /\ <<>> \in Seq(OwnOn(j, d)) /\ <<>> \in Seq(Allowed(j, d))
      /\ Only(<<>>, DataFrames) = <<>> /\ s.wire \o <<>> = s.wire
  BY <1>2, OnlyEmpty
<1>4. Extends(s, s, j, d, <<>>)
  BY <1>3, Zenon DEF Extends
<1>5. Extends(s, Flushed(s), j, d, <<>>)
  <2>1. Flushed(s).fin = s.fin /\ Flushed(s).wire = s.wire \o s.buf
    BY Zenon DEF Flushed
  <2> QED BY <2>1, <1>2, Zenon DEF Extends
<1>6. ASSUME NEW y PROVE Extends(s, Wrote(s, j, y), j, d, <<>>)
  <2>1. Wrote(s, j, y).fin = s.fin /\ Wrote(s, j, y).wire = s.wire
    BY Zenon DEF Wrote
  <2> QED BY <2>1, <1>3, Zenon DEF Extends
<1> QED BY <1>4, <1>5, <1>6, Zenon

LEMMA WriteExtends ==
    ASSUME NEW j \in Conns, NEW d \in Dirs, NEW s \in HopStreams(j, d),
           NEW y \in Seq(Allowed(j, d))
    PROVE  Extends(s, Flushed(Wrote(s, j, y)), j, d,
                   IF j \in broken THEN <<>> ELSE Only(y, DataFrames))
<1> DEFINE P(x) == Only(x, DataFrames)
           t == Flushed(Wrote(s, j, y))
<1>2. /\ s.wire \in Seq(Allowed(j, d)) /\ s.buf \in Seq(Allowed(j, d))
      /\ s.buf \in Seq(OwnOn(j, d)) /\ P(s.buf) = <<>>
  BY StreamParts, PayloadFacts
<1>3. s.buf \o y \in Seq(Allowed(j, d))
  BY <1>2, SeqClosed, Zenon
<1>4. P(s.buf \o y) = P(s.buf) \o P(y) /\ P(y) \in Seq(DataFrames)
  BY <1>2, PayloadConcat, Zenon
<1>5. <<>> \o P(y) = P(y)
  BY <1>4
<1>6. t.fin = s.fin /\ t.wire = s.wire \o (IF j \in broken THEN s.buf ELSE s.buf \o y)
  <2>1. t = [buf |-> <<>>, fin |-> s.fin,
             wire |-> s.wire \o (IF j \in broken THEN s.buf ELSE s.buf \o y)]
    BY WroteAndFlushed, Zenon
  <2> HIDE DEF t
  <2> QED BY <2>1, Zenon
<1> HIDE DEF t
<1>7. j \in broken => Extends(s, t, j, d, <<>>)
  BY <1>2, <1>6, Zenon DEF Extends
<1>8. ASSUME j \notin broken PROVE Extends(s, t, j, d, P(y))
  <2>1. t.wire = s.wire \o (s.buf \o y)
    BY <1>6, <1>8, Zenon
  <2>2. P(s.buf \o y) = P(y)
    BY <1>2, <1>4, <1>5, Zenon
  <2> QED BY <1>6, <2>1, <2>2, <1>3, <1>8, Zenon DEF Extends
<1> QED BY <1>7, <1>8, Zenon DEF t

Appends(j, d, p) == Extends(stream[j][d], stream'[j][d], j, d, p)

LEMMA AppendsPayload ==
    ASSUME StreamsOK, NEW j \in Conns, NEW d \in Dirs, NEW p, Appends(j, d, p)
    PROVE  /\ Payload(j, d)' = Payload(j, d) \o p
           /\ p = <<>> => Payload(j, d)' = Payload(j, d)
<1> DEFINE w == stream[j][d].wire
           P(x) == Only(x, DataFrames)
<1>1. PICK x \in Seq(Allowed(j, d)) : stream'[j][d].wire = w \o x /\ P(x) = p
  BY Zenon DEF Appends, Extends
<1>2. w \in Seq(Allowed(j, d))
  BY StreamParts, Zenon DEF StreamsOK
<1> HIDE DEF w
<1>3. P(w \o x) = P(w) \o P(x) /\ P(w) \in Seq(DataFrames)
  BY <1>1, <1>2, PayloadConcat, Zenon
<1>4. P(w) \o <<>> = P(w)
  BY <1>3
<1>5. Payload(j, d)' = P(w \o x) /\ Payload(j, d) = P(w)
  BY <1>1, Zenon DEF Payload, w
<1> QED BY <1>1, <1>3, <1>4, <1>5, Zenon

\* A read of n frames splits the payload.
LEMMA ReadSplits ==
    ASSUME NEW j \in Conns, NEW d \in Dirs, NEW w \in Seq(Allowed(j, d)), NEW n \in 1..Len(w)
    PROVE  /\ SubSeq(w, 1, n) \in Seq(Allowed(j, d)) /\ SubSeq(w, n + 1, Len(w)) \in Seq(Allowed(j, d))
           /\ Only(w, DataFrames) = Only(SubSeq(w, 1, n), DataFrames)
                                        \o Only(SubSeq(w, n + 1, Len(w)), DataFrames)
           /\ Only(SubSeq(w, 1, n), DataFrames) \in Seq(DataFrames)
<1> DEFINE x == SubSeq(w, 1, n)
           y == SubSeq(w, n + 1, Len(w))
<1>1. x \in Seq(Allowed(j, d)) /\ y \in Seq(Allowed(j, d))
  BY SeqClosed, Zenon
<1>2. w = x \o y
  OBVIOUS
<1> HIDE DEF x, y
<1>3. Only(x \o y, DataFrames) = Only(x, DataFrames) \o Only(y, DataFrames)
      /\ Only(x, DataFrames) \in Seq(DataFrames)
  BY <1>1, PayloadConcat, Zenon
<1>4. Only(w, DataFrames) = Only(x, DataFrames) \o Only(y, DataFrames)
  BY <1>2, <1>3, Zenon
<1> QED BY <1>1, <1>3, <1>4, Zenon DEF x, y

SameFins == \A j \in Conns, d \in Dirs : stream'[j][d].fin = stream[j][d].fin

\* A read takes payload p off one connection and puts it on the other, if that still stands.
LEMMA PumpEffect ==
    ASSUME StreamsOK, NEW i \in Nodes, NEW d \in Dirs, Pump(i, d)
    PROVE  /\ StreamsOK' /\ Others({<<In(i, d), d>>, <<Out(i, d), d>>})
           /\ SameFins
           /\ \E p \in Seq(DataFrames) :
                 /\ Payload(In(i, d), d) = p \o Payload(In(i, d), d)'
                 /\ Appends(Out(i, d), d, IF Out(i, d) \in broken THEN <<>> ELSE p)
<1> DEFINE a == In(i, d)
           b == Out(i, d)
           r == stream[a][d]
           s == stream[b][d]
           P(x) == Only(x, DataFrames)
<1>0. a \in Conns /\ b \in Conns /\ a # b
  BY InOut, Zenon
<1>1. PICK n \in 1..Len(r.wire) :
         stream' = [stream EXCEPT
            ![a][d].wire = SubSeq(@, n + 1, Len(@)),
            ![b][d] = IF P(SubSeq(r.wire, 1, n)) = <<>> THEN @
                      ELSE Flushed(Wrote(@, b, P(SubSeq(r.wire, 1, n))))]
  BY Zenon DEF Pump
<1> DEFINE p == P(SubSeq(r.wire, 1, n))
           q == SubSeq(r.wire, n + 1, Len(r.wire))
           t == IF p = <<>> THEN s ELSE Flushed(Wrote(s, b, p))
           u == [r EXCEPT !.wire = q]
<1> HIDE DEF a, b
<1>2. r \in HopStreams(a, d) /\ s \in HopStreams(b, d)
  BY <1>0, Zenon DEF StreamsOK
<1>3. stream' = [stream EXCEPT ![a][d] = u, ![b][d] = t]
  BY <1>0, <1>1, Zenon DEF StreamsOK
<1>4. /\ q \in Seq(Allowed(a, d)) /\ P(r.wire) = p \o P(q)
      /\ p \in Seq(DataFrames)
  <2>1. r.wire \in Seq(Allowed(a, d)) /\ n \in 1..Len(r.wire)
    BY <1>0, <1>1, <1>2, StreamParts, Zenon
  <2> HIDE DEF r
  <2> QED BY <1>0, <2>1, ReadSplits, Zenon
<1>5. p \in Seq(Allowed(b, d)) /\ P(p) = p
  BY <1>0, <1>4, PayloadFacts, Zenon
<1>6. u = [buf |-> r.buf, wire |-> q, fin |-> r.fin]
  BY <1>0, <1>2, WireReplaced, Zenon
<1>7. u \in HopStreams(a, d) /\ u.wire = q /\ u.fin = r.fin
  <2> HIDE DEF u, q, r
  <2> QED BY <1>0, <1>2, <1>4, <1>6, StreamParts, Zenon DEF HopStreams
<1>8. t \in HopStreams(b, d) /\ t.fin = s.fin
  <2>1. Flushed(Wrote(s, b, p)) \in HopStreams(b, d)
    BY <1>0, <1>2, <1>5, WroteAndFlushed, Zenon
  <2>2. Flushed(Wrote(s, b, p)).fin = s.fin
    BY Zenon DEF Flushed, Wrote
  <2> QED BY <1>2, <2>1, <2>2, Zenon
<1>9. Extends(s, t, b, d, IF b \in broken THEN <<>> ELSE p)
  <2>1. CASE p = <<>>
    <3>1. Extends(s, s, b, d, <<>>)
      BY <1>0, <1>2, FlushExtends, Zenon
    <3>2. t = s /\ (IF b \in broken THEN <<>> ELSE p) = <<>>
      BY <2>1, Zenon
    <3> HIDE DEF t
    <3> QED BY <3>1, <3>2, Zenon
  <2>2. CASE p # <<>>
    <3>1. Extends(s, Flushed(Wrote(s, b, p)), b, d, IF b \in broken THEN <<>> ELSE P(p))
      BY <1>0, <1>2, <1>5, WriteExtends, Zenon
    <3>2. t = Flushed(Wrote(s, b, p))
      BY <2>2, Zenon
    <3> HIDE DEF t
    <3> QED BY <3>1, <3>2, <1>5, Zenon
  <2> QED BY <2>1, <2>2, Zenon
<1> HIDE DEF t, u, p, q
<1>10. /\ StreamsOK' /\ stream'[a][d] = u /\ stream'[b][d] = t
       /\ Others({<<a, d>>, <<b, d>>})
  BY <1>0, <1>3, <1>7, <1>8, SetTwo, Zenon
<1>11. Payload(a, d) = p \o Payload(a, d)'
  BY <1>4, <1>7, <1>10, Zenon DEF Payload
<1>12. Appends(b, d, IF b \in broken THEN <<>> ELSE p)
  BY <1>9, <1>10, Zenon DEF Appends
<1>13. SameFins
  BY <1>7, <1>8, <1>10, Zenon DEF SameFins, Others
<1> QED BY <1>4, <1>10, <1>11, <1>12, <1>13, Zenon DEF a, b

\* A flush, frames written and flushed, and an own frame left for the next flush.
LEMMA FlushEffect ==
    ASSUME StreamsOK, NEW a \in Conns, NEW d \in Dirs,
           stream' = [stream EXCEPT ![a][d] = Flushed(@)]
    PROVE  StreamsOK' /\ Others({<<a, d>>}) /\ SameFins /\ Appends(a, d, <<>>)
<1> DEFINE s == stream[a][d]
           t == Flushed(s)
<1>1. s \in HopStreams(a, d)
  BY Zenon DEF StreamsOK
<1>2. t \in HopStreams(a, d) /\ Extends(s, t, a, d, <<>>)
  BY <1>1, FlushedStream, FlushExtends, Zenon
<1>3. t.fin = s.fin
  BY Zenon DEF Flushed
<1>4. stream' = [stream EXCEPT ![a][d] = t]
  BY Zenon
<1> HIDE DEF t
<1>5. StreamsOK' /\ stream'[a][d] = t /\ Others({<<a, d>>})
  BY <1>2, <1>4, SetOne, Zenon
<1> QED BY <1>2, <1>3, <1>5, Zenon DEF Appends, SameFins, Others

LEMMA WriteEffect ==
    ASSUME StreamsOK, NEW a \in Conns, NEW d \in Dirs, NEW y \in Seq(Allowed(a, d)),
           stream' = [stream EXCEPT ![a][d] = Flushed(Wrote(@, a, y))]
    PROVE  /\ StreamsOK' /\ Others({<<a, d>>}) /\ SameFins
           /\ Appends(a, d, IF a \in broken THEN <<>> ELSE Only(y, DataFrames))
<1> DEFINE s == stream[a][d]
           t == Flushed(Wrote(s, a, y))
           p == IF a \in broken THEN <<>> ELSE Only(y, DataFrames)
<1>1. s \in HopStreams(a, d)
  BY Zenon DEF StreamsOK
<1>2. t \in HopStreams(a, d) /\ Extends(s, t, a, d, p)
  BY <1>1, WroteAndFlushed, WriteExtends, Zenon
<1>3. t.fin = s.fin
  BY Zenon DEF Flushed, Wrote
<1>4. stream' = [stream EXCEPT ![a][d] = t]
  BY Zenon
<1> HIDE DEF t, p
<1>5. StreamsOK' /\ stream'[a][d] = t /\ Others({<<a, d>>})
  BY <1>2, <1>4, SetOne, Zenon
<1>6. Appends(a, d, p)
  BY <1>2, <1>5, Zenon DEF Appends
<1> QED BY <1>3, <1>5, <1>6, Zenon DEF SameFins, Others, p

LEMMA OwnEffect ==
    ASSUME StreamsOK, NEW a \in Conns, NEW d \in Dirs, NEW f \in OwnOn(a, d),
           stream' = [stream EXCEPT ![a][d] = Wrote(@, a, <<f>>)]
    PROVE  StreamsOK' /\ Others({<<a, d>>}) /\ SameFins /\ Appends(a, d, <<>>)
<1> DEFINE s == stream[a][d]
           t == Wrote(s, a, <<f>>)
<1>1. s \in HopStreams(a, d)
  BY Zenon DEF StreamsOK
<1>2. t \in HopStreams(a, d) /\ Extends(s, t, a, d, <<>>)
  BY <1>1, WroteOwn, FlushExtends, Zenon
<1>3. t.fin = s.fin
  BY Zenon DEF Wrote
<1>4. stream' = [stream EXCEPT ![a][d] = t]
  BY Zenon
<1> HIDE DEF t
<1>5. StreamsOK' /\ stream'[a][d] = t /\ Others({<<a, d>>})
  BY <1>2, <1>4, SetOne, Zenon
<1> QED BY <1>2, <1>3, <1>5, Zenon DEF Appends, SameFins, Others

\* A shutdown flushes; a peer's close does not touch the wire.
LEMMA ShutEffect ==
    ASSUME StreamsOK, NEW a \in Conns, NEW d \in Dirs,
           \/ stream' = [stream EXCEPT ![a][d] = [Flushed(@) EXCEPT !.fin = TRUE]]
           \/ stream' = [stream EXCEPT ![a][d].fin = TRUE]
    PROVE  StreamsOK' /\ Others({<<a, d>>}) /\ Appends(a, d, <<>>)
<1> DEFINE s == stream[a][d]
           Shut(u) == [buf |-> u.buf, wire |-> u.wire, fin |-> TRUE]
<1>1. s \in HopStreams(a, d)
  BY Zenon DEF StreamsOK
<1>2. Flushed(s) \in HopStreams(a, d)
  BY <1>1, FlushedStream, Zenon
<1>3. PICK u \in HopStreams(a, d) :
         Extends(s, u, a, d, <<>>) /\ stream' = [stream EXCEPT ![a][d] = Shut(u)]
  <2>1. CASE stream' = [stream EXCEPT ![a][d] = [Flushed(@) EXCEPT !.fin = TRUE]]
    <3>1. [Flushed(s) EXCEPT !.fin = TRUE] = Shut(Flushed(s))
      BY <1>2, FinReplaced, Zenon
    <3>2. stream' = [stream EXCEPT ![a][d] = Shut(Flushed(s))]
      BY <2>1, <3>1, Zenon
    <3> QED BY <1>1, <1>2, <3>2, FlushExtends, Zenon
  <2>2. CASE stream' = [stream EXCEPT ![a][d].fin = TRUE]
    <3>1. [s EXCEPT !.fin = TRUE] = Shut(s)
      BY <1>1, FinReplaced, Zenon
    <3>2. stream' = [stream EXCEPT ![a][d] = [s EXCEPT !.fin = TRUE]]
      BY <2>2, Zenon DEF StreamsOK
    <3>3. stream' = [stream EXCEPT ![a][d] = Shut(s)]
      BY <3>1, <3>2, Zenon
    <3> QED BY <1>1, <3>3, FlushExtends, Zenon
  <2> QED BY <2>1, <2>2, Zenon
<1>4. Shut(u) \in HopStreams(a, d) /\ Shut(u).wire = u.wire
  BY <1>3, StreamParts, Zenon DEF HopStreams
<1>5. Extends(s, Shut(u), a, d, <<>>)
  BY <1>3, <1>4, Zenon DEF Extends
<1> DEFINE t == Shut(u)
<1> HIDE DEF t
<1>6. t \in HopStreams(a, d) /\ Extends(s, t, a, d, <<>>) /\ stream' = [stream EXCEPT ![a][d] = t]
  BY <1>3, <1>4, <1>5, Zenon DEF t
<1>7. StreamsOK' /\ stream'[a][d] = t /\ Others({<<a, d>>})
  BY <1>6, SetOne, Zenon
<1> QED BY <1>6, <1>7, Zenon DEF Appends

\* A dropped node takes the payload it had not read with it.
LEMMA DropEffect ==
    ASSUME StreamsOK, NEW i \in Nodes, DropStreams(i)
    PROVE  /\ StreamsOK' /\ SameFins
           /\ Others({<<i, "up">>, <<i, "down">>, <<i + 1, "up">>, <<i + 1, "down">>})
           /\ \A d \in Dirs : Payload(In(i, d), d)' = <<>>
           /\ \A j \in Conns, d \in Dirs :
                 j # In(i, d) => stream'[j][d].wire = stream[j][d].wire
<1> DEFINE W(s) == [buf |-> s.buf, wire |-> <<>>, fin |-> s.fin]
           B(s) == [buf |-> <<>>, wire |-> s.wire, fin |-> s.fin]
           NewS(j, d) == IF j = In(i, d) THEN [stream[j][d] EXCEPT !.wire = <<>>]
                         ELSE IF j = Out(i, d) THEN [stream[j][d] EXCEPT !.buf = <<>>]
                         ELSE stream[j][d]
<1>1. \A j \in Conns, d \in Dirs : stream'[j][d] = NewS(j, d)
  <2> HIDE DEF NewS
  <2>1. stream' = [j \in Conns |-> [d \in Dirs |-> NewS(j, d)]]
    BY Zenon DEF DropStreams, NewS
  <2> QED BY <2>1, Zenon
<1>2. stream' = [j \in Conns |-> [d \in Dirs |-> stream'[j][d]]]
  BY Zenon DEF DropStreams
<1>3. ASSUME NEW j \in Conns, NEW d \in Dirs
      PROVE  /\ stream'[j][d] \in HopStreams(j, d) /\ stream'[j][d].fin = stream[j][d].fin
             /\ j = In(i, d) => stream'[j][d].wire = <<>>
             /\ j # In(i, d) => stream'[j][d].wire = stream[j][d].wire
             /\ j # In(i, d) /\ j # Out(i, d) => stream'[j][d] = stream[j][d]
  <2> DEFINE s == stream[j][d]
             t == stream'[j][d]
  <2>1. s \in HopStreams(j, d)
    BY Zenon DEF StreamsOK
  <2>2. [s EXCEPT !.wire = <<>>] = W(s) /\ [s EXCEPT !.buf = <<>>] = B(s)
    BY <2>1, WireReplaced, BufReplaced, Zenon
  <2>3. t = IF j = In(i, d) THEN W(s) ELSE IF j = Out(i, d) THEN B(s) ELSE s
    BY <1>1, <2>2, Zenon
  <2>4. /\ W(s) \in HopStreams(j, d) /\ W(s).fin = s.fin /\ W(s).wire = <<>>
        /\ B(s) \in HopStreams(j, d) /\ B(s).fin = s.fin /\ B(s).wire = s.wire
    <3>1. <<>> \in Seq(OwnOn(j, d)) /\ <<>> \in Seq(Allowed(j, d))
      OBVIOUS
    <3> QED BY <2>1, <3>1, StreamParts, Zenon DEF HopStreams
  <2> HIDE DEF s, t, W, B
  <2> QED BY <2>1, <2>3, <2>4, Zenon DEF s, t
<1>4. StreamsOK'
  BY <1>2, <1>3, Zenon DEF StreamsOK, HopStreams, OwnOn, Allowed
<1>5. Others({<<i, "up">>, <<i, "down">>, <<i + 1, "up">>, <<i + 1, "down">>})
  BY <1>3, Zenon DEF Others, In, Out, Dirs
<1>6. ASSUME NEW d \in Dirs PROVE Payload(In(i, d), d)' = <<>>
  BY <1>3, InOut, OnlyEmpty, Zenon DEF Payload
<1> QED BY <1>3, <1>4, <1>5, <1>6, Zenon DEF SameFins

LEMMA GateEffect ==
    ASSUME StreamsOK, NEW i \in Nodes \ {0}, GateAndDial(i), stream[i]["up"].wire[1] \in OwnFrames
    PROVE  /\ StreamsOK' /\ SameFins
           /\ Others({<<i, "up">>, <<i, "down">>, <<i + 1, "up">>})
           /\ Payload(i, "up")' = Payload(i, "up")
           /\ Appends(i, "down", <<>>) /\ Appends(i + 1, "up", <<>>)
           /\ i < Relays => \E y \in {<<>>, <<Auth(i)>>} :
                 /\ i + 1 \notin broken => y = <<Auth(i)>>
                 /\ stream'[i + 1]["up"].wire =
                       stream[i + 1]["up"].wire \o (stream[i + 1]["up"].buf \o y)
<1>0. /\ i \in Conns /\ i + 1 \in Conns /\ i \in 1..Relays /\ i # i + 1
      /\ i \in Nat /\ Relays \in Nat /\ "up" \in Dirs /\ "down" \in Dirs
  BY TunnelAssumption DEF Nodes, Conns, Dirs
<1> DEFINE r == stream[i]["up"]
           s == stream[i]["down"]
           u == stream[i + 1]["up"]
           r1 == [r EXCEPT !.wire = Tail(r.wire)]
           s1 == IF i = Relays THEN Flushed(Wrote(s, i, <<Chaff(i)>>)) ELSE s
           u1 == IF i < Relays THEN Flushed(Wrote(u, i + 1, <<Auth(i)>>)) ELSE u
<1>1. /\ r \in HopStreams(i, "up") /\ s \in HopStreams(i, "down") /\ u \in HopStreams(i + 1, "up")
      /\ r.wire # <<>>
  BY <1>0, Zenon DEF StreamsOK, GateAndDial
<1>2. /\ stream' = [j \in Conns |-> [d \in Dirs |-> stream'[j][d]]]
      /\ stream'[i]["up"] = r1 /\ stream'[i]["down"] = s1 /\ stream'[i + 1]["up"] = u1
      /\ \A j \in Conns, d \in Dirs :
            \/ j = i
            \/ j = i + 1 /\ d = "up"
            \/ stream'[j][d] = stream[j][d]
  <2> HIDE DEF s1, u1
  <2>1. stream' = [stream EXCEPT ![i]["up"] = r1, ![i]["down"] = s1, ![i + 1]["up"] = u1]
    BY <1>0, Zenon DEF StreamsOK, GateAndDial, s1, u1
  <2> HIDE DEF r1
  <2> QED BY <1>0, <2>1, Zenon DEF StreamsOK, Dirs
<1>3. /\ Tail(r.wire) \in Seq(Allowed(i, "up"))
      /\ Only(Tail(r.wire), DataFrames) = Only(r.wire, DataFrames)
  <2> DEFINE w == r.wire
             x == <<w[1]>>
             y == Tail(w)
  <2>1. w \in Seq(Allowed(i, "up")) /\ w # <<>>
    BY <1>0, <1>1, StreamParts, Zenon
  <2> HIDE DEF r, w
  <2>2. y \in Seq(Allowed(i, "up")) /\ w = x \o y /\ w[1] \in Allowed(i, "up")
    BY <2>1
  <2>3. w[1] \in OwnOn(i, "up")
    BY <2>2, Zenon DEF Allowed, DataFrames, OwnFrames, r, w
  <2>4. x \in Seq(OwnOn(i, "up")) /\ x \in Seq(Allowed(i, "up"))
    BY <2>2, <2>3
  <2> HIDE DEF x, y
  <2>x. y \in Seq(Allowed(i, "up")) /\ x \in Seq(Allowed(i, "up")) /\ i \in Conns /\ "up" \in Dirs
    BY <1>0, <2>2, <2>4, Zenon
  <2>5. Only(x, DataFrames) = <<>>
    BY <1>0, <2>4, PayloadFacts
  <2>6. Only(x \o y, DataFrames) = Only(x, DataFrames) \o Only(y, DataFrames)
        /\ Only(y, DataFrames) \in Seq(DataFrames)
    BY <2>x, PayloadConcat, Zenon
  <2>7. <<>> \o Only(y, DataFrames) = Only(y, DataFrames)
    BY <2>6
  <2> QED BY <2>2, <2>5, <2>6, <2>7, Zenon DEF w, y
<1>4. r1 = [buf |-> r.buf, wire |-> Tail(r.wire), fin |-> r.fin]
  BY <1>0, <1>1, WireReplaced, Zenon
<1>5. r1 \in HopStreams(i, "up") /\ r1.wire = Tail(r.wire) /\ r1.fin = r.fin
  <2> HIDE DEF r1, r
  <2> QED BY <1>0, <1>1, <1>3, <1>4, StreamParts, Zenon DEF HopStreams
<1>6. s1 \in HopStreams(i, "down") /\ s1.fin = s.fin /\ Extends(s, s1, i, "down", <<>>)
  <2> DEFINE y == <<Chaff(i)>>
             t == Flushed(Wrote(s, i, y))
  <2>1. y \in Seq(OwnOn(i, "down")) /\ y \in Seq(Allowed(i, "down"))
    <3>1. Chaff(i) \in OwnOn(i, "down") /\ Chaff(i) \in Allowed(i, "down")
      BY <1>0, Zenon DEF Chaff, OwnOn, OwnFrames, Allowed, Nodes
    <3> QED BY <3>1
  <2> HIDE DEF y
  <2>2. Only(y, DataFrames) = <<>>
    BY <1>0, <2>1, PayloadFacts
  <2>3. t \in HopStreams(i, "down") /\ Extends(s, t, i, "down", <<>>)
    <3>1. Extends(s, t, i, "down", IF i \in broken THEN <<>> ELSE Only(y, DataFrames))
      BY <1>0, <1>1, <2>1, WriteExtends, Zenon
    <3>2. t \in HopStreams(i, "down")
      BY <1>0, <1>1, <2>1, WroteAndFlushed, Zenon
    <3> QED BY <2>2, <3>1, <3>2, Zenon
  <2>4. t.fin = s.fin
    BY Zenon DEF Flushed, Wrote
  <2>5. Extends(s, s, i, "down", <<>>)
    BY <1>0, <1>1, FlushExtends, Zenon
  <2>6. s1 = IF i = Relays THEN t ELSE s
    BY Zenon DEF y
  <2> HIDE DEF t, s1
  <2> QED BY <1>1, <2>3, <2>4, <2>5, <2>6, Zenon
<1>7. /\ u1 \in HopStreams(i + 1, "up") /\ u1.fin = u.fin /\ Extends(u, u1, i + 1, "up", <<>>)
      /\ i < Relays => \E y \in {<<>>, <<Auth(i)>>} :
            (i + 1 \notin broken => y = <<Auth(i)>>) /\ u1.wire = u.wire \o (u.buf \o y)
  <2> DEFINE y == <<Auth(i)>>
             t == Flushed(Wrote(u, i + 1, y))
  <2>0. Extends(u, u, i + 1, "up", <<>>)
    BY <1>0, <1>1, FlushExtends, Zenon
  <2>1. CASE i = Relays
    <3>1. u1 = u /\ ~(i < Relays)
      BY <2>1, <1>0
    <3> QED BY <1>1, <2>0, <3>1, Zenon
  <2>2. CASE i < Relays
    <3>1. y \in Seq(OwnOn(i + 1, "up")) /\ y \in Seq(Allowed(i + 1, "up"))
      <4>1. i + 1 \in 1..Relays /\ (i + 1) - 1 = i /\ i \in 0..Relays
        BY <1>0, <2>2
      <4>2. Auth(i) \in OwnOn(i + 1, "up") /\ Auth(i) \in Allowed(i + 1, "up")
        BY <4>1, Zenon DEF Auth, OwnOn, OwnFrames, Allowed, Nodes
      <4> QED BY <4>2
    <3> HIDE DEF y
    <3>2. Only(y, DataFrames) = <<>>
      BY <1>0, <3>1, PayloadFacts
    <3>3. t \in HopStreams(i + 1, "up") /\ Extends(u, t, i + 1, "up", <<>>)
      <4>1. Extends(u, t, i + 1, "up", IF i + 1 \in broken THEN <<>> ELSE Only(y, DataFrames))
        BY <1>0, <1>1, <3>1, WriteExtends, Zenon
      <4>2. t \in HopStreams(i + 1, "up")
        BY <1>0, <1>1, <3>1, WroteAndFlushed, Zenon
      <4> QED BY <3>2, <4>1, <4>2, Zenon
    <3>4. /\ t.fin = u.fin
          /\ t.wire = u.wire \o (IF i + 1 \in broken THEN u.buf ELSE u.buf \o y)
      BY Zenon DEF Flushed, Wrote
    <3>5. u.buf \o <<>> = u.buf
      BY <1>0, <1>1, StreamParts
    <3>6. u1 = t
      BY <2>2, Zenon DEF y
    <3> HIDE DEF t, u1, u
    <3>7. \E z \in {<<>>, y} : (i + 1 \notin broken => z = y) /\ t.wire = u.wire \o (u.buf \o z)
      BY <3>4, <3>5, Zenon
    <3> QED BY <3>3, <3>4, <3>6, <3>7, Zenon DEF y
  <2>3. i = Relays \/ i < Relays
    BY <1>0
  <2> QED BY <2>1, <2>2, <2>3, Zenon
<1> HIDE DEF r1, s1, u1
<1>8. StreamsOK'
  <2>1. ASSUME NEW j \in Conns, NEW d \in Dirs PROVE stream'[j][d] \in HopStreams(j, d)
    <3>1. CASE j = i /\ d = "up"  BY <3>1, <1>2, <1>5, Zenon
    <3>2. CASE j = i /\ d = "down"  BY <3>2, <1>2, <1>6, Zenon
    <3>3. CASE j = i + 1 /\ d = "up"  BY <3>3, <1>2, <1>7, Zenon
    <3>4. CASE j # i /\ ~(j = i + 1 /\ d = "up")  BY <3>4, <1>2, Zenon DEF StreamsOK
    <3> QED BY <3>1, <3>2, <3>3, <3>4, Zenon DEF Dirs
  <2> QED BY <1>2, <2>1, Zenon DEF StreamsOK, HopStreams, OwnOn, Allowed
<1>9. SameFins /\ Others({<<i, "up">>, <<i, "down">>, <<i + 1, "up">>})
  BY <1>0, <1>2, <1>5, <1>6, <1>7, Zenon DEF SameFins, Others, Dirs
<1>10. Payload(i, "up")' = Payload(i, "up")
  BY <1>2, <1>3, <1>5, Zenon DEF Payload
<1>11. Appends(i, "down", <<>>) /\ Appends(i + 1, "up", <<>>)
  BY <1>2, <1>6, <1>7, Zenon DEF Appends
<1> QED BY <1>2, <1>7, <1>8, <1>9, <1>10, <1>11, Zenon

-----------------------------------------------------------------------------
(* Runs of bytes.                                                          *)

LEMMA SeqEqual ==
    ASSUME NEW X, NEW s \in Seq(X), NEW t \in Seq(X), NEW n \in Nat, Len(s) = n, Len(t) = n,
           \A k \in 1..n : s[k] = t[k]
    PROVE  s = t
    OBVIOUS

LEMMA RunFacts ==
    ASSUME NEW a \in Nat, NEW b \in Nat, a <= b
    PROVE  /\ Run(a, b) \in Seq(DataFrames) /\ Len(Run(a, b)) = b - a
           /\ \A k \in 1..(b - a) : Run(a, b)[k] = Data(a + k)
           /\ Run(a, b) = <<>> <=> a = b
<1>1. \A k \in 1..(b - a) : Data(a + k) \in DataFrames
  BY DEF Data, DataFrames
<1>2. Run(a, b) \in Seq(DataFrames) /\ Len(Run(a, b)) = b - a
  BY <1>1 DEF Run
<1>3. \A k \in 1..(b - a) : Run(a, b)[k] = Data(a + k)
  BY Zenon DEF Run
<1>4. Run(a, b) = <<>> <=> Len(Run(a, b)) = 0
  BY <1>2
<1> QED BY <1>2, <1>3, <1>4

LEMMA RunConcat ==
    ASSUME NEW a \in Nat, NEW b \in Nat, NEW c \in Nat, a <= b, b <= c
    PROVE  Run(a, b) \o Run(b, c) = Run(a, c)
<1> DEFINE x == Run(a, b)
           y == Run(b, c)
           z == Run(a, c)
<1>a. x \in Seq(DataFrames) /\ Len(x) = b - a /\ \A k \in 1..(b - a) : x[k] = Data(a + k)
  BY RunFacts, Zenon
<1>b. y \in Seq(DataFrames) /\ Len(y) = c - b /\ \A k \in 1..(c - b) : y[k] = Data(b + k)
  BY RunFacts, Zenon
<1>c. z \in Seq(DataFrames) /\ Len(z) = c - a /\ \A k \in 1..(c - a) : z[k] = Data(a + k)
  <2>1. a <= c  OBVIOUS
  <2> QED BY <2>1, RunFacts, Zenon
<1> HIDE DEF x, y, z
<1>1. /\ x \in Seq(DataFrames) /\ Len(x) = b - a /\ \A k \in 1..(b - a) : x[k] = Data(a + k)
      /\ y \in Seq(DataFrames) /\ Len(y) = c - b /\ \A k \in 1..(c - b) : y[k] = Data(b + k)
      /\ z \in Seq(DataFrames) /\ Len(z) = c - a /\ \A k \in 1..(c - a) : z[k] = Data(a + k)
  BY <1>a, <1>b, <1>c, Zenon
<1>2. x \o y \in Seq(DataFrames) /\ Len(x \o y) = c - a
  BY <1>1
<1>3. ASSUME NEW k \in 1..(c - a) PROVE (x \o y)[k] = z[k]
  <2>1. CASE k <= b - a  BY <2>1, <1>1
  <2>2. CASE ~(k <= b - a)
    <3>0. k \in 1..(Len(x) + Len(y)) /\ k > Len(x) /\ k - Len(x) = k - (b - a)
      BY <2>2, <1>a, <1>b
    <3>1. (x \o y)[k] = y[k - (b - a)] /\ k - (b - a) \in 1..(c - b)
      BY <3>0, <1>a, <1>b, SMTT(30)
    <3>2. y[k - (b - a)] = Data(b + (k - (b - a))) /\ b + (k - (b - a)) = a + k
      BY <3>1, <1>1, SMTT(30)
    <3> QED BY <3>1, <3>2, <1>1, Zenon
  <2> QED BY <2>1, <2>2, Zenon
<1>4. x \o y = z
  <2>1. c - a \in Nat
    OBVIOUS
  <2> QED BY <1>c, <1>2, <1>3, <2>1, SeqEqual, Zenon
<1> QED BY <1>4, Zenon DEF x, y, z

\* p and q are the parts of bytes a + 1 .. b before and after some position.
Parts(p, q, a, b) == \E m \in a..b : p = Run(a, m) /\ q = Run(m, b)

LEMMA RunSplit ==
    ASSUME NEW a \in Nat, NEW b \in Nat, NEW p \in Seq(DataFrames), NEW q \in Seq(DataFrames),
           a <= b, Run(a, b) = p \o q
    PROVE  Parts(p, q, a, b)
<1> DEFINE m == a + Len(p)
           x == Run(a, m)
           y == Run(m, b)
           z == Run(a, b)
<1>1. /\ z \in Seq(DataFrames) /\ Len(z) = b - a /\ \A k \in 1..(b - a) : z[k] = Data(a + k)
  BY RunFacts, Zenon
<1>2. m \in Nat /\ m <= b /\ a <= m /\ Len(p) = m - a /\ Len(q) = b - m
  <2> HIDE DEF z
  <2>1. z = p \o q  BY Zenon DEF z
  <2>2. Len(p \o q) = Len(p) + Len(q)  OBVIOUS
  <2> QED BY <1>1, <2>1, <2>2
<1>3. /\ x \in Seq(DataFrames) /\ Len(x) = m - a /\ \A k \in 1..(m - a) : x[k] = Data(a + k)
      /\ y \in Seq(DataFrames) /\ Len(y) = b - m /\ \A k \in 1..(b - m) : y[k] = Data(m + k)
  <2> HIDE DEF m
  <2> QED BY <1>2, RunFacts, Zenon
<1>0. z = p \o q
  BY Zenon
<1> HIDE DEF x, y, z, m
<1>4. ASSUME NEW k \in 1..(m - a) PROVE p[k] = x[k]
  <2>1. (p \o q)[k] = p[k] /\ k \in 1..(b - a)
    BY <1>2
  <2> QED BY <2>1, <1>0, <1>1, <1>3, Zenon
<1>5. ASSUME NEW k \in 1..(b - m) PROVE q[k] = y[k]
  <2>1. (p \o q)[k + (m - a)] = q[k] /\ k + (m - a) \in 1..(b - a)
    BY <1>2, SMTT(30)
  <2>2. a + (k + (m - a)) = m + k
    BY <1>2
  <2>3. z[k + (m - a)] = Data(m + k)
    BY <2>1, <2>2, <1>1, Zenon
  <2> QED BY <2>1, <2>3, <1>0, <1>3, Zenon
<1>6. p = x
  BY <1>2, <1>3, <1>4
<1>7. q = y
  BY <1>2, <1>3, <1>5
<1>8. m \in a..b
  BY <1>2
<1> QED BY <1>6, <1>7, <1>8, Zenon DEF x, y, Parts

LEMMA RunOne ==
    ASSUME NEW a \in Nat
    PROVE  Run(a, a + 1) = <<Data(a + 1)>>
<1> DEFINE b == a + 1
<1>0. b \in Nat /\ a <= b /\ b - a = 1
  OBVIOUS
<1> HIDE DEF b
<1>1. Run(a, b) \in Seq(DataFrames) /\ Len(Run(a, b)) = 1 /\ Run(a, b)[1] = Data(a + 1)
  <2>1. /\ Run(a, b) \in Seq(DataFrames) /\ Len(Run(a, b)) = b - a
        /\ \A k \in 1..(b - a) : Run(a, b)[k] = Data(a + k)
    BY <1>0, RunFacts, Zenon
  <2>2. 1 \in 1..(b - a)
    BY <1>0
  <2> QED BY <1>0, <2>1, <2>2, Zenon
<1>2. Run(a, b) = <<Data(a + 1)>>
  BY <1>1
<1> QED BY <1>2, Zenon DEF b

LEMMA NumberedIsRun ==
    ASSUME NEW n \in Nat
    PROVE  Numbered(n) = Run(0, n)
    BY DEF Numbered, Run

-----------------------------------------------------------------------------
(* The positions of a direction across a step.                             *)

\* A direction whose payload stays where it is, and for which nothing gets better.
LEMMA FlowUnchanged ==
    ASSUME NEW d \in Dirs, Flow(d),
           \A j \in Conns : Payload(j, d)' = Payload(j, d),
           (Sender(d).sent)' = Sender(d).sent, Got(d)' = Got(d),
           Clean(d)' => Clean(d),
           \A i \in Nodes : node[i] = "ended" => node'[i] = "ended",
           broken \subseteq broken',
           \A i \in Nodes : Clean(d)' /\ pump'[i][d] = "done" => pump[i][d] = "done"
    PROVE  Flow(d)'
<1>1. PICK lo \in [Conns -> 0..Sender(d).sent], hi \in [Conns -> 0..Sender(d).sent] : FlowOK(d, lo, hi)
  BY Zenon DEF Flow
<1>2. FlowOK(d, lo, hi)'
  BY <1>1, InOut, Zenon DEF FlowOK
<1> QED BY <1>1, <1>2, Zenon DEF Flow

\* As long as nothing failed, a direction that goes on finds every connection standing.
LEMMA CleanRunning ==
    ASSUME TunTypeOK, EndsInOrder, NEW i \in Nodes, NEW d \in Dirs, Clean(d), pump[i][d] = "run"
    PROVE  broken = {} /\ pump[0]["down"] # "done"
<1>1. SUFFICES pump[0]["down"] # "done"
  BY Zenon DEF EndsInOrder, Clean
<1>2. ASSUME pump[0]["down"] = "done" PROVE FALSE
  <2>1. Clean("down") /\ 0 \in Nodes /\ "down" \in Dirs
    BY TunnelAssumption DEF Clean, Nodes, Dirs
  <2>2. Sender("down").closed /\ \A k \in Upstream(0, "down") : pump[k]["down"] = "done"
    BY <1>2, <2>1, Zenon DEF EndsInOrder
  <2>3. backend.closed /\ \A k \in Nodes : pump[k]["down"] = "done"
    BY <2>2, TunnelAssumption DEF Sender, Upstream, Nodes
  <2> QED BY <2>3, Zenon DEF Clean, Dirs
<1> QED BY <1>2, Zenon

\* Payload p moves across node i.
LEMMA FlowPump ==
    ASSUME TunTypeOK, EndsInOrder, NEW i \in Nodes, NEW d \in Dirs, Flow(d), Running(i, d),
           UNCHANGED <<node, pump, broken, app, backend, faults>>,
           NEW p \in Seq(DataFrames),
           Payload(In(i, d), d)' \in Seq(DataFrames),
           Payload(In(i, d), d) = p \o Payload(In(i, d), d)',
           Payload(Out(i, d), d)' = Payload(Out(i, d), d) \o (IF Out(i, d) \in broken THEN <<>> ELSE p),
           Out(i, d) \in broken => Payload(Out(i, d), d)' = Payload(Out(i, d), d),
           \A j \in Conns \ {In(i, d), Out(i, d)} : Payload(j, d)' = Payload(j, d)
    PROVE  Flow(d)'
<1> DEFINE a == In(i, d)
           b == Out(i, d)
           n == Sender(d).sent
<1>0. /\ a \in Conns /\ b \in Conns /\ a # b /\ a # Dst(d) /\ b # Src(d)
      /\ \A k \in Nodes : /\ In(k, d) \in Conns /\ Out(k, d) \in Conns
                          /\ In(k, d) = a => k = i
                          /\ Out(k, d) = b => k = i
      /\ Src(d) \in Conns /\ Dst(d) \in Conns
  BY InOut, TunnelAssumption DEF Src, Dst, Conns
<1>1. PICK lo \in [Conns -> 0..n], hi \in [Conns -> 0..n] : FlowOK(d, lo, hi)
  BY Zenon DEF Flow
<1>n. n \in Nat
  BY Zenon DEF TunTypeOK, Sender, Peers
<1> HIDE DEF n, a, b
<1>2. /\ lo[a] \in Nat /\ hi[a] \in Nat /\ lo[a] <= hi[a] /\ hi[a] <= n
      /\ lo[b] \in Nat /\ hi[b] \in Nat /\ lo[b] <= hi[b]
      /\ Payload(a, d) = Run(lo[a], hi[a]) /\ Payload(b, d) = Run(lo[b], hi[b])
  BY <1>0, <1>1, <1>n DEF FlowOK
<1>3. PICK m \in lo[a]..hi[a] : p = Run(lo[a], m) /\ Payload(a, d)' = Run(m, hi[a])
  <2>1. Run(lo[a], hi[a]) = p \o Payload(a, d)' /\ Payload(a, d)' \in Seq(DataFrames)
    BY <1>2, Zenon DEF a
  <2>2. Parts(p, Payload(a, d)', lo[a], hi[a])
    BY <1>2, <2>1, RunSplit, Zenon
  <2> QED BY <2>2, Zenon DEF Parts
<1>m. m \in Nat /\ m <= hi[a] /\ lo[a] <= m
  BY <1>2, <1>3
<1>4. b \notin broken => hi[b] = lo[a]
  BY <1>1, Zenon DEF FlowOK, Running, a, b
<1>5. Clean(d) => b \notin broken
  BY CleanRunning, Zenon DEF Running
<1>7. PICK lo1 \in [Conns -> 0..n], hi1 \in [Conns -> 0..n] :
         /\ lo1[a] = m /\ hi1[a] = hi[a] /\ lo1[b] = lo[b]
         /\ b \in broken => hi1[b] = hi[b]
         /\ b \notin broken => hi1[b] = m
         /\ \A j \in Conns : (j # a => lo1[j] = lo[j]) /\ (j # b => hi1[j] = hi[j])
  <2> DEFINE l == [lo EXCEPT ![a] = m]
             h == [hi EXCEPT ![b] = m]
  <2>0. m \in 0..n
    BY <1>2, <1>m, <1>n
  <2>1. l \in [Conns -> 0..n] /\ l[a] = m /\ \A j \in Conns : j # a => l[j] = lo[j]
    BY <2>0, <1>0, <1>1, Zenon
  <2>2. h \in [Conns -> 0..n] /\ h[b] = m /\ \A j \in Conns : j # b => h[j] = hi[j]
    BY <2>0, <1>0, <1>1, Zenon
  <2> HIDE DEF l, h
  <2>3. CASE b \in broken
    BY <2>1, <2>3, <1>0, <1>1, Zenon
  <2>4. CASE b \notin broken
    BY <2>1, <2>2, <2>4, <1>0, <1>1, Zenon
  <2> QED BY <2>3, <2>4, Zenon
<1>8. ASSUME NEW j \in Conns PROVE lo1[j] <= hi1[j] /\ Payload(j, d)' = Run(lo1[j], hi1[j])
  <2>1. CASE j = a  BY <2>1, <1>3, <1>m, <1>7, Zenon
  <2>2. CASE j = b /\ b \in broken  BY <2>2, <1>2, <1>7, Zenon DEF b
  <2>3. CASE j = b /\ b \notin broken
    <3>1. Payload(b, d)' = Run(lo[b], hi[b]) \o p
      BY <2>3, <1>2, Zenon DEF b
    <3>2. hi[b] = lo[a] /\ lo[b] <= m
      BY <2>3, <1>4, <1>2, <1>m
    <3>3. Run(lo[b], lo[a]) \o Run(lo[a], m) = Run(lo[b], m)
      BY <3>2, <1>2, <1>m, RunConcat, Zenon
    <3>4. Payload(b, d)' = Run(lo[b], m)
      BY <3>1, <3>2, <3>3, <1>3, Zenon
    <3> QED BY <2>3, <3>2, <3>4, <1>7, Zenon
  <2>4. CASE j # a /\ j # b
    BY <2>4, <1>1, <1>7, Zenon DEF FlowOK, a, b
  <2> QED BY <2>1, <2>2, <2>3, <2>4, Zenon
<1>9. (Sender(d).sent)' = n /\ Got(d)' = Got(d) /\ (Clean(d)' <=> Clean(d))
  BY Zenon DEF Sender, Got, Clean, n
<1>10. ASSUME NEW k \in Nodes
       PROVE  /\ Clean(d) \/ (node[k] # "ended" /\ Out(k, d) \notin broken)
                     => hi1[Out(k, d)] = lo1[In(k, d)]
              /\ Clean(d) /\ pump[k][d] = "done" => lo1[In(k, d)] = n /\ hi1[In(k, d)] = n
  <2>1. /\ Clean(d) \/ (node[k] # "ended" /\ Out(k, d) \notin broken)
                     => hi[Out(k, d)] = lo[In(k, d)]
        /\ Clean(d) /\ pump[k][d] = "done" => lo[In(k, d)] = n /\ hi[In(k, d)] = n
    BY <1>1, Zenon DEF FlowOK, n
  <2>2. CASE k = i
    BY <2>1, <2>2, <1>5, <1>7, Zenon DEF Running, a, b
  <2>3. CASE k # i
    <3>1. In(k, d) # a /\ Out(k, d) # b
      BY <2>3, <1>0, Zenon
    <3>2. lo1[In(k, d)] = lo[In(k, d)] /\ hi1[Out(k, d)] = hi[Out(k, d)]
      BY <3>1, <1>0, <1>7, Zenon
    <3>3. In(k, d) = b /\ Clean(d) /\ hi[b] = n => hi1[b] = n
      BY <1>2, <1>m, <1>4, <1>5, <1>7, <1>n
    <3> QED BY <2>1, <3>2, <3>3, <1>0, <1>7
  <2> QED BY <2>2, <2>3, Zenon
<1>11. /\ Clean(d) \/ Src(d) \notin broken => hi1[Src(d)] = n
       /\ Got(d) = Numbered(lo1[Dst(d)])
  BY <1>0, <1>1, <1>7, Zenon DEF FlowOK, n
<1>12. FlowOK(d, lo1, hi1)'
  BY <1>8, <1>9, <1>10, <1>11, Zenon DEF FlowOK
<1> QED BY <1>7, <1>9, <1>12, Zenon DEF Flow

\* The payload on a connection is lost, or taken by the peer at the end: position hi is
\* now the reader's too.  A node that loses some has failed, or had nothing left.
LEMMA FlowTaken ==
    ASSUME TunTypeOK, NEW d \in Dirs, Flow(d), NEW c \in Conns,
           UNCHANGED pump, (Sender(d).sent)' = Sender(d).sent,
           broken \subseteq broken', Clean(d)' => Clean(d),
           \A k \in Nodes : node[k] = "ended" => node'[k] = "ended",
           \A k \in Nodes : In(k, d) = c =>
               /\ node'[k] = "ended"
               /\ Clean(d)' => pump[k][d] = "done",
           Payload(c, d)' = <<>>,
           \A j \in Conns \ {c} : Payload(j, d)' = Payload(j, d),
           Got(d) \in Seq(DataFrames),
           Got(d)' = IF c = Dst(d) THEN Got(d) \o Payload(c, d) ELSE Got(d)
    PROVE  Flow(d)'
<1> DEFINE n == Sender(d).sent
<1>0. /\ Src(d) \in Conns /\ Dst(d) \in Conns
      /\ \A k \in Nodes : In(k, d) \in Conns /\ Out(k, d) \in Conns /\ In(k, d) # Dst(d)
  BY InOut, TunnelAssumption DEF Src, Dst, Conns
<1>1. PICK lo \in [Conns -> 0..n], hi \in [Conns -> 0..n] : FlowOK(d, lo, hi)
  BY Zenon DEF Flow
<1>n. n \in Nat
  BY Zenon DEF TunTypeOK, Sender, Peers
<1> HIDE DEF n
<1>2. /\ lo[c] \in Nat /\ hi[c] \in Nat /\ lo[c] <= hi[c] /\ hi[c] <= n
      /\ Payload(c, d) = Run(lo[c], hi[c])
  BY <1>1, <1>n DEF FlowOK
<1>3. PICK lo1 \in [Conns -> 0..n] : lo1[c] = hi[c] /\ \A j \in Conns : j # c => lo1[j] = lo[j]
  <2> DEFINE l == [lo EXCEPT ![c] = hi[c]]
  <2>1. l \in [Conns -> 0..n] /\ l[c] = hi[c] /\ \A j \in Conns : j # c => l[j] = lo[j]
    BY <1>1, Zenon
  <2> QED BY <2>1, Zenon
<1>4. ASSUME NEW j \in Conns PROVE lo1[j] <= hi[j] /\ Payload(j, d)' = Run(lo1[j], hi[j])
  <2>1. CASE j = c
    <3>0. hi[c] <= hi[c]
      BY <1>2
    <3>1. Run(hi[c], hi[c]) = <<>>
      BY <1>2, <3>0, RunFacts, Zenon
    <3> QED BY <2>1, <3>0, <3>1, <1>3, Zenon
  <2>2. CASE j # c
    BY <2>2, <1>1, <1>3, Zenon DEF FlowOK
  <2> QED BY <2>1, <2>2, Zenon
<1>5. ASSUME NEW k \in Nodes
      PROVE  /\ Clean(d)' \/ (node'[k] # "ended" /\ Out(k, d) \notin broken')
                    => hi[Out(k, d)] = lo1[In(k, d)]
             /\ Clean(d)' /\ pump'[k][d] = "done" => lo1[In(k, d)] = n /\ hi[In(k, d)] = n
  <2>1. /\ Clean(d) \/ (node[k] # "ended" /\ Out(k, d) \notin broken)
                    => hi[Out(k, d)] = lo[In(k, d)]
        /\ Clean(d) /\ pump[k][d] = "done" => lo[In(k, d)] = n /\ hi[In(k, d)] = n
    BY <1>1, Zenon DEF FlowOK, n
  <2>2. CASE In(k, d) = c
    BY <2>1, <2>2, <1>3, Zenon
  <2>3. CASE In(k, d) # c
    BY <2>1, <2>3, <1>0, <1>3, Zenon
  <2> QED BY <2>2, <2>3, Zenon
<1>6. Clean(d)' \/ Src(d) \notin broken' => hi[Src(d)] = n
  BY <1>1, Zenon DEF FlowOK, n
<1>7. Got(d)' = Numbered(lo1[Dst(d)])
  <2>1. Got(d) = Numbered(lo[Dst(d)])
    BY <1>1 DEF FlowOK
  <2>2. CASE c # Dst(d)
    BY <2>1, <2>2, <1>0, <1>3, Zenon
  <2>3. CASE c = Dst(d)
    <3>1. Got(d)' = Numbered(lo[c]) \o Run(lo[c], hi[c])
      BY <2>1, <2>3, <1>2, Zenon
    <3>2. Numbered(lo[c]) = Run(0, lo[c]) /\ Numbered(hi[c]) = Run(0, hi[c])
      BY <1>2, NumberedIsRun, Zenon
    <3>3. Run(0, lo[c]) \o Run(lo[c], hi[c]) = Run(0, hi[c])
      <4>1. 0 \in Nat /\ 0 <= lo[c]
        BY <1>2
      <4> QED BY <1>2, <4>1, RunConcat, Zenon
    <3> QED BY <2>3, <3>1, <3>2, <3>3, <1>3, Zenon
  <2> QED BY <2>2, <2>3, Zenon
<1>8. (Sender(d).sent)' = n
  BY Zenon DEF n
<1>9. FlowOK(d, lo1, hi)'
  BY <1>4, <1>5, <1>6, <1>7, <1>8, Zenon DEF FlowOK
<1> QED BY <1>1, <1>3, <1>8, <1>9, Zenon DEF Flow

\* The sender writes the next byte.
LEMMA FlowWritten ==
    ASSUME TunTypeOK, EndsInOrder, NEW d \in Dirs, Flow(d),
           UNCHANGED <<node, pump, broken, faults>>,
           ~Sender(d).closed, Src(d) \notin broken,
           (Sender(d).sent)' = Sender(d).sent + 1,
           Clean(d)' <=> Clean(d), Got(d)' = Got(d),
           Payload(Src(d), d)' = Payload(Src(d), d) \o <<Data(Sender(d).sent + 1)>>,
           \A j \in Conns \ {Src(d)} : Payload(j, d)' = Payload(j, d)
    PROVE  Flow(d)'
<1> DEFINE n == Sender(d).sent
           c == Src(d)
<1>0. /\ c \in Conns /\ Dst(d) \in Conns
      /\ \A k \in Nodes : In(k, d) \in Conns /\ Out(k, d) \in Conns /\ Out(k, d) # c
  BY InOut, TunnelAssumption DEF Src, Dst, Conns
<1>1. PICK lo \in [Conns -> 0..n], hi \in [Conns -> 0..n] : FlowOK(d, lo, hi)
  BY Zenon DEF Flow
<1>n. n \in Nat
  BY Zenon DEF TunTypeOK, Sender, Peers
<1>2. Payload(c, d)' = Payload(c, d) \o <<Data(n + 1)>> /\ (Sender(d).sent)' = n + 1
  BY Zenon
<1>3. hi[c] = n /\ lo[c] \in Nat /\ lo[c] <= n /\ Payload(c, d) = Run(lo[c], n)
  BY <1>0, <1>1, <1>n DEF FlowOK
<1>c. ASSUME NEW k \in Nodes PROVE ~(Clean(d) /\ pump[k][d] = "done")
  BY Zenon DEF EndsInOrder
<1> HIDE DEF n, c
<1>4. PICK hi1 \in [Conns -> 0..(n + 1)] : hi1[c] = n + 1 /\ \A j \in Conns : j # c => hi1[j] = hi[j]
  <2> DEFINE h == [j \in Conns |-> IF j = c THEN n + 1 ELSE hi[j]]
  <2>1. h \in [Conns -> 0..(n + 1)] /\ h[c] = n + 1 /\ \A j \in Conns : j # c => h[j] = hi[j]
    BY <1>0, <1>1, <1>n
  <2> QED BY <2>1, Zenon
<1>5. lo \in [Conns -> 0..(n + 1)]
  BY <1>1, <1>n
<1>6. ASSUME NEW j \in Conns PROVE lo[j] <= hi1[j] /\ Payload(j, d)' = Run(lo[j], hi1[j])
  <2>1. CASE j = c
    <3>1. Run(n, n + 1) = <<Data(n + 1)>>
      BY <1>n, RunOne, Zenon
    <3>2. Run(lo[c], n) \o Run(n, n + 1) = Run(lo[c], n + 1)
      <4>1. n + 1 \in Nat /\ n <= n + 1  BY <1>n
      <4> QED BY <4>1, <1>n, <1>3, RunConcat, Zenon
    <3>3. Payload(c, d)' = Run(lo[c], n + 1)
      BY <3>1, <3>2, <1>2, <1>3, Zenon
    <3>4. lo[c] <= n + 1
      BY <1>3, <1>n, SMTT(30)
    <3> QED BY <2>1, <3>3, <3>4, <1>4, Zenon
  <2>2. CASE j # c
    BY <2>2, <1>1, <1>4, Zenon DEF FlowOK, c
  <2> QED BY <2>1, <2>2, Zenon
<1>7. ASSUME NEW k \in Nodes, Clean(d) \/ (node[k] # "ended" /\ Out(k, d) \notin broken)
      PROVE  hi1[Out(k, d)] = lo[In(k, d)]
  BY <1>0, <1>1, <1>4, <1>7, Zenon DEF FlowOK
<1>8. Got(d) = Numbered(lo[Dst(d)])
  BY <1>1, Zenon DEF FlowOK
<1>9. FlowOK(d, lo, hi1)'
  BY <1>2, <1>4, <1>6, <1>7, <1>8, <1>c, Zenon DEF FlowOK, c
<1> QED BY <1>2, <1>4, <1>5, <1>9, Zenon DEF Flow

-----------------------------------------------------------------------------
(* The other conjuncts across a step.                                      *)

\* A gate waits for what is at the head of its wire, and only appending goes on there.
LEMMA GateOrderKept ==
    ASSUME TunTypeOK, StreamsOK, GateOrder, broken \subseteq broken',
           \A k \in Nodes : \/ node'[k] = node[k]
                            \/ node[k] \in {"run", "gate"} /\ node'[k] = "ended",
           \A k \in 1..Relays : node[k] = "idle" => stream'[k]["up"] = stream[k]["up"],
           \A k \in 1..Relays : node[k] = "gate" => \E p : Appends(k, "up", p)
    PROVE  GateOrder'
<1> SUFFICES ASSUME NEW i \in 1..Relays
             PROVE  /\ node'[i - 1] \in {"idle", "gate"} => node'[i] = "idle"
                    /\ node'[i - 1] = "run" => node'[i] # "idle"
                    /\ node'[i] = "idle" => stream'[i]["up"].wire = <<>> /\ stream'[i]["up"].buf = <<>>
                    /\ node'[i] = "gate" =>
                          IF stream'[i]["up"].wire = <<>> THEN i \in broken'
                          ELSE stream'[i]["up"].wire[1] \in OwnFrames
  BY Zenon DEF GateOrder, OwnFrames
<1>0. i \in Nodes /\ i - 1 \in Nodes /\ i \in Conns /\ "up" \in Dirs
  BY TunnelAssumption DEF Nodes, Conns, Dirs
<1>1. /\ node[i - 1] \in {"idle", "gate"} => node[i] = "idle"
      /\ node[i - 1] = "run" => node[i] # "idle"
      /\ node[i] = "idle" => stream[i]["up"].wire = <<>> /\ stream[i]["up"].buf = <<>>
      /\ node[i] = "gate" => IF stream[i]["up"].wire = <<>> THEN i \in broken
                             ELSE stream[i]["up"].wire[1] \in OwnFrames
  BY Zenon DEF GateOrder
<1>2. /\ node'[i - 1] \in {"idle", "gate"} => node'[i] = "idle"
      /\ node'[i - 1] = "run" => node'[i] # "idle"
  BY <1>0, <1>1, Zenon
<1>3. node'[i] = "idle" => stream'[i]["up"].wire = <<>> /\ stream'[i]["up"].buf = <<>>
  BY <1>0, <1>1
<1>4. ASSUME node'[i] = "gate"
      PROVE  IF stream'[i]["up"].wire = <<>> THEN i \in broken'
             ELSE stream'[i]["up"].wire[1] \in OwnFrames
  <2> DEFINE w == stream[i]["up"].wire
             w1 == stream'[i]["up"].wire
  <2>1. node[i] = "gate"
    BY <1>0, <1>4, Zenon
  <2>2. PICK x \in Seq(Allowed(i, "up")) : w1 = w \o x /\ (i \in broken => x \in Seq(OwnOn(i, "up")))
    BY <2>1, Zenon DEF Appends, Extends
  <2>3. w \in Seq(Allowed(i, "up"))
    BY <1>0, StreamParts, Zenon DEF StreamsOK
  <2>4. IF w = <<>> THEN i \in broken ELSE w[1] \in OwnFrames
    BY <1>1, <2>1, Zenon
  <2> HIDE DEF w, w1
  <2>5. CASE w = <<>>
    <3>1. w1 = x /\ x \in Seq(OwnOn(i, "up")) /\ i \in broken'
      BY <2>2, <2>4, <2>5
    <3>2. w1 # <<>> => w1[1] \in OwnOn(i, "up")
      BY <3>1
    <3> QED BY <3>1, <3>2, Zenon DEF OwnOn, w1
  <2>6. CASE w # <<>>
    <3>1. w1 # <<>> /\ w1[1] = w[1]
      BY <2>2, <2>3, <2>6
    <3> QED BY <3>1, <2>4, <2>6, Zenon DEF w1
  <2> QED BY <2>5, <2>6, Zenon
<1> QED BY <1>2, <1>3, <1>4, Zenon

LEMMA FinKept ==
    ASSUME FinFollowsEnd, SameFins,
           \A i \in Nodes, d \in Dirs : pump[i][d] = "done" => pump'[i][d] = "done",
           \A d \in Dirs : Sender(d).closed => (Sender(d).closed)'
    PROVE  FinFollowsEnd'
<1> SUFFICES ASSUME NEW j \in Conns, NEW d \in Dirs, stream'[j][d].fin
             PROVE  IF j = Src(d) THEN (Sender(d).closed)'
                    ELSE pump'[IF d = "up" THEN j - 1 ELSE j][d] = "done"
  BY Zenon DEF FinFollowsEnd, Src
<1>1. IF j = Src(d) THEN Sender(d).closed ELSE pump[IF d = "up" THEN j - 1 ELSE j][d] = "done"
  BY DEF FinFollowsEnd, SameFins
<1>2. j # Src(d) => (IF d = "up" THEN j - 1 ELSE j) \in Nodes
  BY TunnelAssumption DEF Src, Nodes, Conns, Dirs
<1> QED BY <1>1, <1>2, Zenon

\* Which bytes have arrived, if an end has seen EOF, depends on the peers and faults only.
LEMMA EofKept ==
    ASSUME TunTypeOK, EofMeansComplete, faults' \in Nat, faults' >= faults, UNCHANGED <<app, backend>>
    PROVE  EofMeansComplete'
    BY DEF EofMeansComplete, Numbered, Data, TunTypeOK

LEMMA OthersKept ==
    ASSUME StreamsOK, NEW S, Others(S), NEW j \in Conns, NEW d \in Dirs, <<j, d>> \notin S
    PROVE  Payload(j, d)' = Payload(j, d) /\ Appends(j, d, <<>>)
<1>1. stream'[j][d] = stream[j][d] /\ stream[j][d] \in HopStreams(j, d)
  BY Zenon DEF Others, StreamsOK
<1>2. Extends(stream[j][d], stream[j][d], j, d, <<>>)
  BY <1>1, FlushExtends, Zenon
<1> QED BY <1>1, <1>2, Zenon DEF Payload, Appends

\* A node's up stream is written by the node before it, once that one runs.
LEMMA GateOrderStep ==
    ASSUME TunTypeOK, StreamsOK, GateOrder, broken \subseteq broken',
           \A k \in Nodes : \/ node'[k] = node[k]
                            \/ node[k] \in {"run", "gate"} /\ node'[k] = "ended",
           NEW S, Others(S),
           \A k \in 1..Relays : <<k, "up">> \in S =>
               \/ node[k] = "run"
               \/ node[k - 1] = "run" /\ \E p : Appends(k, "up", p)
    PROVE  GateOrder'
<1>1. ASSUME NEW k \in 1..Relays, node[k] = "idle" PROVE stream'[k]["up"] = stream[k]["up"]
  <2>1. node[k - 1] # "run" /\ node[k] # "run"
    BY <1>1, Zenon DEF GateOrder
  <2>2. <<k, "up">> \notin S
    BY <2>1, Zenon
  <2>3. k \in Conns /\ "up" \in Dirs
    BY TunnelAssumption DEF Conns, Dirs
  <2> QED BY <2>2, <2>3, Zenon DEF Others
<1>2. ASSUME NEW k \in 1..Relays, node[k] = "gate" PROVE \E p : Appends(k, "up", p)
  <2>0. k \in Conns /\ "up" \in Dirs
    BY TunnelAssumption DEF Conns, Dirs
  <2>1. CASE <<k, "up">> \notin S
    BY <2>0, <2>1, OthersKept, Zenon
  <2>2. CASE <<k, "up">> \in S
    BY <2>2, <1>2
  <2> QED BY <2>1, <2>2, Zenon
<1> QED BY <1>1, <1>2, GateOrderKept, Zenon

LEMMA PumpKeeps ==
    ASSUME TunInv, NEW i \in Nodes, NEW d \in Dirs, Pump(i, d)
    PROVE  TunInv'
<1> DEFINE a == In(i, d)
           b == Out(i, d)
           S == {<<a, d>>, <<b, d>>}
<1>1. /\ UNCHANGED <<node, pump, broken, app, backend, chaffs, faults>>
      /\ node[i] = "run" /\ Running(i, d)
  BY Zenon DEF Pump, Running
<1>2. /\ StreamsOK' /\ Others(S) /\ SameFins
      /\ \E p \in Seq(DataFrames) :
            /\ Payload(a, d) = p \o Payload(a, d)'
            /\ Appends(b, d, IF b \in broken THEN <<>> ELSE p)
  BY PumpEffect, Zenon DEF TunInv
<1>3. PICK p \in Seq(DataFrames) :
            /\ Payload(a, d) = p \o Payload(a, d)'
            /\ Appends(b, d, IF b \in broken THEN <<>> ELSE p)
  BY <1>2, Zenon
<1>4. a \in Conns /\ b \in Conns /\ a # b
  BY InOut, Zenon
<1>5. TunTypeOK'
  BY <1>1, Zenon DEF TunInv, TunTypeOK, Peers, DataFrames, Nodes, Dirs, Conns
<1>6. GateOrder'
  <2>1. ASSUME NEW k \in 1..Relays, <<k, "up">> \in S
        PROVE  node[k] = "run" \/ (node[k - 1] = "run" /\ \E q : Appends(k, "up", q))
    <3>1. d = "up" /\ (k = i \/ (k - 1 = i /\ k = b))
      BY <2>1, TunnelAssumption, SMTT(30) DEF In, Out, Nodes
    <3> QED BY <3>1, <1>1, <1>3, Zenon
  <2> HIDE DEF S
  <2> QED BY <1>1, <1>2, <2>1, GateOrderStep, Zenon DEF TunInv
<1>7. FinFollowsEnd'
  <2>1. /\ \A k \in Nodes, e \in Dirs : pump[k][e] = "done" => pump'[k][e] = "done"
        /\ \A e \in Dirs : Sender(e).closed => (Sender(e).closed)'
    BY <1>1, Zenon DEF Sender
  <2> QED BY <1>2, <2>1, FinKept, Zenon DEF TunInv
<1>8. EndsInOrder' /\ EofMeansComplete'
  BY <1>1, SMTT(30) DEF TunInv, EndsInOrder, EofMeansComplete, Clean, Sender, Upstream, Numbered, Data, Nodes, Dirs
<1>9. ASSUME NEW e \in Dirs, e # d PROVE Flow(e)'
  <2>1. ASSUME NEW j \in Conns PROVE Payload(j, e)' = Payload(j, e)
    <3>1. <<j, e>> \notin S
      BY <1>9, Zenon
    <3> QED BY <3>1, <1>2, OthersKept, Zenon DEF TunInv
  <2>2. (Sender(e).sent)' = Sender(e).sent /\ Got(e)' = Got(e) /\ (Clean(e)' => Clean(e))
    BY <1>1 DEF Sender, Got, Clean
  <2> QED BY <1>1, <2>1, <2>2, FlowUnchanged, Zenon DEF TunInv, Flows
<1>10. Flow(d)'
  <2>1. Payload(a, d)' \in Seq(DataFrames)
    BY <1>2, <1>4, PayloadFacts, StreamParts DEF StreamsOK, Payload
  <2>2. /\ Payload(b, d)' = Payload(b, d) \o (IF b \in broken THEN <<>> ELSE p)
        /\ b \in broken => Payload(b, d)' = Payload(b, d)
    <3> DEFINE q == IF b \in broken THEN <<>> ELSE p
    <3>1. Payload(b, d)' = Payload(b, d) \o q /\ (q = <<>> => Payload(b, d)' = Payload(b, d))
      BY <1>3, <1>4, AppendsPayload, Zenon DEF TunInv
    <3> QED BY <3>1, Zenon
  <2>3. \A j \in Conns \ {a, b} : Payload(j, d)' = Payload(j, d)
    <3>1. ASSUME NEW j \in Conns \ {a, b} PROVE <<j, d>> \notin S
      BY Zenon
    <3> QED BY <3>1, <1>2, OthersKept, Zenon DEF TunInv
  <2>4. Flow(d)
    BY Zenon DEF TunInv, Flows
  <2> QED BY <1>1, <1>3, <2>1, <2>2, <2>3, <2>4, FlowPump, Zenon DEF TunInv
<1> QED BY <1>2, <1>5, <1>6, <1>7, <1>8, <1>9, <1>10, Zenon DEF TunInv, Flows, Dirs

\* A step that moves no payload and is not one of the peers.
LEMMA QuietFlows ==
    ASSUME TunInv, UNCHANGED <<app, backend>>, faults' \in Nat, faults' >= faults,
           \A j \in Conns, d \in Dirs : Payload(j, d)' = Payload(j, d),
           broken \subseteq broken',
           \A k \in Nodes : node[k] = "ended" => node'[k] = "ended",
           \A k \in Nodes, d \in Dirs : pump'[k][d] = "done" => pump[k][d] = "done"
    PROVE  Flows' /\ EofMeansComplete'
<1>1. ASSUME NEW d \in Dirs PROVE Flow(d)'
  <2>1. (Sender(d).sent)' = Sender(d).sent /\ Got(d)' = Got(d) /\ (Clean(d)' => Clean(d))
    BY DEF Sender, Got, Clean, TunInv, TunTypeOK
  <2> QED BY <2>1, FlowUnchanged, Zenon DEF TunInv, Flows
<1>2. EofMeansComplete'
  BY EofKept, Zenon DEF TunInv
<1> QED BY <1>1, <1>2, Zenon DEF Flows, Dirs

\* What one connection gets, from its writer, without payload.
LEMMA QuietWrite ==
    ASSUME TunInv, NEW a \in Conns, NEW d \in Dirs,
           StreamsOK', Others({<<a, d>>}), SameFins, Appends(a, d, <<>>),
           UNCHANGED <<node, pump, broken, app, backend, faults>>, chaffs' \in Nat,
           d = "up" /\ a \in 1..Relays => node[a - 1] = "run" \/ stream[a]["up"].buf # <<>>
    PROVE  TunInv'
<1>1. \A j \in Conns, e \in Dirs : Payload(j, e)' = Payload(j, e)
  <2>1. Payload(a, d)' = Payload(a, d)
    BY AppendsPayload, Zenon DEF TunInv
  <2>2. ASSUME NEW j \in Conns, NEW e \in Dirs, j # a \/ e # d
        PROVE  Payload(j, e)' = Payload(j, e)
    <3>1. <<j, e>> \notin {<<a, d>>}
      BY <2>2, Zenon
    <3> QED BY <3>1, OthersKept, Zenon DEF TunInv
  <2> QED BY <2>1, <2>2, Zenon
<1>2. Flows' /\ EofMeansComplete'
  <2>1. faults \in Nat /\ faults' \in Nat /\ faults' >= faults
    BY SMTT(30) DEF TunInv, TunTypeOK
  <2> QED BY <1>1, <2>1, QuietFlows, Zenon
<1>3. GateOrder'
  <2>1. ASSUME NEW k \in 1..Relays, node[k] = "idle" PROVE stream'[k]["up"] = stream[k]["up"]
    <3>1. ~(k = a /\ d = "up")
      BY <2>1, Zenon DEF TunInv, GateOrder
    <3> QED BY <3>1, TunnelAssumption, SMTT(30) DEF Others, Conns, Dirs
  <2>2. ASSUME NEW k \in 1..Relays, node[k] = "gate" PROVE \E p : Appends(k, "up", p)
    <3>0. k \in Conns /\ "up" \in Dirs
      BY TunnelAssumption DEF Conns, Dirs
    <3>1. CASE k = a /\ d = "up"
      BY <3>1, Zenon
    <3>2. CASE ~(k = a /\ d = "up")
      <4>1. <<k, "up">> \notin {<<a, d>>}
        BY <3>2, Zenon
      <4> QED BY <3>0, <4>1, OthersKept, Zenon DEF TunInv
    <3> QED BY <3>1, <3>2, Zenon
  <2> QED BY <2>1, <2>2, GateOrderKept, Zenon DEF TunInv
<1>4. FinFollowsEnd'
  <2>1. /\ \A k \in Nodes, e \in Dirs : pump[k][e] = "done" => pump'[k][e] = "done"
        /\ \A e \in Dirs : Sender(e).closed => (Sender(e).closed)'
    BY Zenon DEF Sender
  <2> QED BY <2>1, FinKept, Zenon DEF TunInv
<1>5. TunTypeOK' /\ EndsInOrder'
  BY DEF TunInv, TunTypeOK, EndsInOrder, Clean, Sender, Upstream, Peers, DataFrames, Nodes, Dirs, Conns
<1> QED BY <1>2, <1>3, <1>4, <1>5, Zenon DEF TunInv

LEMMA SpillKeeps ==
    ASSUME TunInv, NEW j \in 1..Relays, NEW d \in Dirs, Spill(j, d)
    PROVE  TunInv'
<1>1. j \in Conns
  BY TunnelAssumption DEF Conns
<1>2. StreamsOK' /\ Others({<<j, d>>}) /\ SameFins /\ Appends(j, d, <<>>)
  BY <1>1, FlushEffect, Zenon DEF Spill, TunInv
<1>3. /\ UNCHANGED <<node, pump, broken, app, backend, faults>> /\ chaffs' \in Nat
      /\ stream[j][d].buf # <<>>
  BY Zenon DEF Spill, TunInv, TunTypeOK
<1> QED BY <1>1, <1>2, <1>3, QuietWrite, Zenon

LEMMA ChaffKeeps ==
    ASSUME TunInv, NEW i \in Nodes, IdleChaff(i)
    PROVE  TunInv'
<1> DEFINE d == IF i = 0 THEN "up" ELSE "down"
           a == Out(i, d)
           f == Chaff(i)
<1>1. /\ d \in Dirs /\ a \in Conns /\ a \in 1..Relays
      /\ d = "up" => a - 1 = i
      /\ f \in OwnOn(a, d)
  BY TunnelAssumption DEF Out, Conns, Dirs, Nodes, Chaff, OwnOn, OwnFrames
<1>2. /\ UNCHANGED <<node, pump, broken, app, backend, faults>> /\ chaffs' \in Nat
      /\ node[i] = "run"
  BY DEF IdleChaff, TunInv, TunTypeOK, Running
<1>3. StreamsOK' /\ Others({<<a, d>>}) /\ SameFins /\ Appends(a, d, <<>>)
  <2>1. CASE i = 0
    <3>1. stream' = [stream EXCEPT ![a][d] = Flushed(Wrote(@, a, <<f>>))]
      BY <2>1, Zenon DEF IdleChaff
    <3> DEFINE y == <<f>>
               p == IF a \in broken THEN <<>> ELSE Only(y, DataFrames)
    <3>2. y \in Seq(OwnOn(a, d)) /\ y \in Seq(Allowed(a, d))
      <4> HIDE DEF f, a, d
      <4> QED BY <1>1, TunnelAssumption DEF Allowed
    <3> HIDE DEF f, a, d, y
    <3>3. Only(y, DataFrames) = <<>>
      BY <1>1, <3>2, PayloadFacts
    <3>4. StreamsOK' /\ Others({<<a, d>>}) /\ SameFins /\ Appends(a, d, p)
      BY <1>1, <3>1, <3>2, WriteEffect, Zenon DEF TunInv, y
    <3>5. p = <<>>
      BY <3>3, Zenon
    <3> HIDE DEF p
    <3> QED BY <3>4, <3>5, Zenon
  <2>2. CASE i # 0
    <3>1. stream' = [stream EXCEPT ![a][d] = Wrote(@, a, <<f>>)]
      BY <2>2, Zenon DEF IdleChaff
    <3> HIDE DEF f, a, d
    <3> QED BY <1>1, <3>1, OwnEffect, Zenon DEF TunInv
  <2> QED BY <2>1, <2>2, Zenon
<1> HIDE DEF a, d, f
<1> QED BY <1>1, <1>2, <1>3, QuietWrite, Zenon

LEMMA StreamsSame ==
    ASSUME StreamsOK, UNCHANGED stream
    PROVE  StreamsOK' /\ Others({}) /\ SameFins
<1>1. Others({}) /\ SameFins
  BY Zenon DEF Others, SameFins
<1>2. \A j \in Conns, d \in Dirs : stream'[j][d] \in HopStreams(j, d)
  BY Zenon DEF StreamsOK
<1>3. stream' = [j \in Conns |-> [d \in Dirs |-> stream'[j][d]]]
  BY Zenon DEF StreamsOK
<1> QED BY <1>1, <1>2, <1>3, Zenon DEF StreamsOK, HopStreams, OwnOn, Allowed

\* A connection breaks, and a node or a gate may end with it.
LEMMA BreakKeeps ==
    ASSUME TunInv, UNCHANGED <<pump, stream, app, backend, chaffs>>,
           faults' \in Nat, faults' >= faults, broken' \in SUBSET Conns, broken \subseteq broken',
           faults' = 0 => broken' = broken,
           node' \in [Nodes -> {"idle", "gate", "run", "ended"}],
           \A k \in Nodes : \/ node'[k] = node[k]
                            \/ node[k] \in {"run", "gate"} /\ node'[k] = "ended"
    PROVE  TunInv'
<1>1. StreamsOK' /\ Others({}) /\ SameFins
  BY StreamsSame, Zenon DEF TunInv
<1>2. \A j \in Conns, d \in Dirs : Payload(j, d)' = Payload(j, d)
  BY Zenon DEF Payload
<1>3. Flows' /\ EofMeansComplete'
  <2>1. /\ \A k \in Nodes : node[k] = "ended" => node'[k] = "ended"
        /\ \A k \in Nodes, d \in Dirs : pump'[k][d] = "done" => pump[k][d] = "done"
    BY Zenon
  <2> QED BY <1>2, <2>1, QuietFlows, Zenon
<1>4. GateOrder'
  <2>1. \A k \in 1..Relays : <<k, "up">> \notin {}
    BY Zenon
  <2> QED BY <1>1, <2>1, GateOrderStep, Zenon DEF TunInv
<1>5. FinFollowsEnd'
  <2>1. /\ \A k \in Nodes, e \in Dirs : pump[k][e] = "done" => pump'[k][e] = "done"
        /\ \A e \in Dirs : Sender(e).closed => (Sender(e).closed)'
    BY Zenon DEF Sender
  <2> QED BY <1>1, <2>1, FinKept, Zenon DEF TunInv
<1>6. TunTypeOK'
  BY Zenon DEF TunInv, TunTypeOK, Peers, DataFrames, Nodes, Dirs, Conns
<1>7. EndsInOrder'
  <2>1. faults' = 0 => faults = 0
    BY DEF TunInv, TunTypeOK
  <2> QED BY <2>1, Zenon DEF TunInv, EndsInOrder, Clean, Sender, Upstream, Nodes, Dirs
<1> QED BY <1>1, <1>3, <1>4, <1>5, <1>6, <1>7, Zenon DEF TunInv

LEMMA LinkKeeps ==
    ASSUME TunInv, NEW j \in Conns, LinkBreaks(j)
    PROVE  TunInv'
<1>1. /\ UNCHANGED <<pump, stream, app, backend, chaffs, node>>
      /\ faults' \in Nat /\ faults' >= faults /\ faults' # 0
      /\ broken' \in SUBSET Conns /\ broken \subseteq broken'
      /\ node \in [Nodes -> {"idle", "gate", "run", "ended"}]
  BY DEF LinkBreaks, TunInv, TunTypeOK
<1> QED BY <1>1, BreakKeeps, Zenon

LEMMA GateFailKeeps ==
    ASSUME TunInv, NEW i \in Nodes \ {0}, GateFails(i)
    PROVE  TunInv'
<1>1. /\ UNCHANGED <<pump, stream, app, backend, chaffs>>
      /\ faults' \in Nat /\ faults' >= faults
      /\ broken' \in SUBSET Conns /\ broken \subseteq broken'
      /\ faults' = 0 => broken' = broken
  BY TunnelAssumption DEF GateFails, TunInv, TunTypeOK, Nodes, Conns
<1>2. /\ node' \in [Nodes -> {"idle", "gate", "run", "ended"}]
      /\ \A k \in Nodes : \/ node'[k] = node[k]
                          \/ node[k] \in {"run", "gate"} /\ node'[k] = "ended"
  BY Zenon DEF GateFails, TunInv, TunTypeOK
<1> QED BY <1>1, <1>2, BreakKeeps, Zenon

\* A direction fails: without a fault, one that carries the request after the response.
LEMMA PumpErrKeeps ==
    ASSUME TunInv, NEW i \in Nodes, NEW d \in Dirs, PumpErr(i, d)
    PROVE  TunInv'
<1>0. /\ UNCHANGED <<node, stream, broken, app, backend, chaffs, faults>>
      /\ pump[i][d] = "run" /\ pump' = [pump EXCEPT ![i][d] = "err"]
      /\ broken # {}
  BY Zenon DEF PumpErr, Running
<1>1. /\ pump' \in [Nodes -> [Dirs -> {"run", "done", "err"}]]
      /\ pump'[i][d] = "err"
      /\ \A k \in Nodes, e \in Dirs : k # i \/ e # d => pump'[k][e] = pump[k][e]
  BY <1>0, Zenon DEF TunInv, TunTypeOK
<1>2. \A k \in Nodes, e \in Dirs : pump'[k][e] = "done" <=> pump[k][e] = "done"
  BY <1>0, <1>1, Zenon
<1>3. TunTypeOK' /\ StreamsOK' /\ SameFins
  <2>1. TunTypeOK'
    BY <1>0, <1>1, Zenon DEF TunInv, TunTypeOK, Peers, DataFrames, Conns
  <2> QED BY <1>0, <2>1, StreamsSame, Zenon DEF TunInv
<1>4. Flows' /\ EofMeansComplete'
  <2>1. /\ \A j \in Conns, e \in Dirs : Payload(j, e)' = Payload(j, e)
        /\ \A k \in Nodes : node[k] = "ended" => node'[k] = "ended"
        /\ faults \in Nat /\ faults' \in Nat /\ faults' >= faults
    BY <1>0, SMTT(30) DEF Payload, TunInv, TunTypeOK
  <2> QED BY <1>0, <1>2, <2>1, QuietFlows, Zenon
<1>5. GateOrder'
  BY <1>0, Zenon DEF TunInv, GateOrder, OwnFrames
<1>6. FinFollowsEnd'
  <2>1. \A e \in Dirs : Sender(e).closed => (Sender(e).closed)'
    BY <1>0, Zenon DEF Sender
  <2> QED BY <1>2, <1>3, <2>1, FinKept, Zenon DEF TunInv
<1>7. EndsInOrder'
  <2>0. 0 \in Nodes /\ "down" \in Dirs /\ "up" \in Dirs
    BY TunnelAssumption DEF Nodes, Dirs
  <2>1. ~Clean(d)
    BY <1>0, CleanRunning, Zenon DEF TunInv
  <2>2. faults = 0 => d = "up" /\ pump[0]["down"] = "done"
    BY <1>0, <2>1, Zenon DEF TunInv, EndsInOrder, Clean, Dirs
  <2>3. ASSUME faults = 0
        PROVE  /\ broken' # {} => pump'[0]["down"] = "done"
               /\ \A k \in Nodes : /\ pump'[k]["down"] # "err"
                                   /\ pump'[k]["up"] = "err" => pump'[0]["down"] = "done"
    BY <2>0, <2>2, <2>3, <1>0, <1>1, <1>2, SMTT(30) DEF TunInv, EndsInOrder
  <2>4. ASSUME NEW e \in Dirs, Clean(e), NEW k \in Nodes, pump'[k][e] = "done"
        PROVE  Sender(e).closed /\ \A m \in Upstream(k, e) : pump'[m][e] = "done"
    BY <2>4, <1>2, Zenon DEF TunInv, EndsInOrder, Upstream
  <2> QED BY <2>3, <2>4, <1>0, Zenon DEF EndsInOrder, Clean, Sender, Upstream, Nodes, Dirs
<1> QED BY <1>3, <1>4, <1>5, <1>6, <1>7, Zenon DEF TunInv

\* A gate opens: its frame was not payload, and the next relay's gate gets one of its own.
LEMMA GateKeeps ==
    ASSUME TunInv, NEW i \in Nodes \ {0}, GateAndDial(i)
    PROVE  TunInv'
<1>0. /\ i \in 1..Relays /\ i \in Nodes /\ i - 1 \in Nodes /\ i \in Nat /\ Relays \in Nat
      /\ i \in Conns /\ i + 1 \in Conns /\ "up" \in Dirs /\ "down" \in Dirs
  BY TunnelAssumption DEF Nodes, Conns, Dirs
<1>1. /\ UNCHANGED <<pump, broken, app, backend, chaffs, faults>>
      /\ node[i] = "gate" /\ stream[i]["up"].wire # <<>>
      /\ node' = [k \in Nodes |-> CASE k = i -> "run" [] k = i + 1 -> "gate" [] OTHER -> node[k]]
  BY Zenon DEF GateAndDial
<1>2. stream[i]["up"].wire[1] \in OwnFrames
  BY <1>0, <1>1, Zenon DEF TunInv, GateOrder
<1> DEFINE S == {<<i, "up">>, <<i, "down">>, <<i + 1, "up">>}
<1>3. /\ StreamsOK' /\ SameFins /\ Others(S) /\ Payload(i, "up")' = Payload(i, "up")
      /\ Appends(i, "down", <<>>) /\ Appends(i + 1, "up", <<>>)
      /\ i < Relays => \E y \in {<<>>, <<Auth(i)>>} :
            /\ i + 1 \notin broken => y = <<Auth(i)>>
            /\ stream'[i + 1]["up"].wire = stream[i + 1]["up"].wire \o (stream[i + 1]["up"].buf \o y)
  BY <1>2, GateEffect, Zenon DEF TunInv
<1>4. /\ node' \in [Nodes -> {"idle", "gate", "run", "ended"}]
      /\ node'[i] = "run" /\ (i < Relays => node'[i + 1] = "gate")
      /\ \A k \in Nodes : k # i /\ k # i + 1 => node'[k] = node[k]
  BY <1>0, <1>1 DEF TunInv, TunTypeOK, Nodes
<1>5. i < Relays => node[i + 1] = "idle"
  <2>1. i < Relays => i + 1 \in 1..Relays /\ (i + 1) - 1 = i
    BY <1>0
  <2> QED BY <1>1, <2>1, Zenon DEF TunInv, GateOrder
<1>6. \A j \in Conns, d \in Dirs : Payload(j, d)' = Payload(j, d)
  <2>1. Payload(i, "down")' = Payload(i, "down") /\ Payload(i + 1, "up")' = Payload(i + 1, "up")
    BY <1>0, <1>3, AppendsPayload, Zenon DEF TunInv
  <2>2. ASSUME NEW j \in Conns, NEW d \in Dirs, <<j, d>> \notin S PROVE Payload(j, d)' = Payload(j, d)
    BY <1>3, <2>2, OthersKept, Zenon DEF TunInv
  <2> QED BY <1>3, <2>1, <2>2, Zenon
<1>7. Flows' /\ EofMeansComplete'
  <2>1. /\ \A k \in Nodes : node[k] = "ended" => node'[k] = "ended"
        /\ faults \in Nat /\ faults' \in Nat /\ faults' >= faults
    BY <1>0, <1>1, <1>4, <1>5 DEF TunInv, TunTypeOK, Nodes
  <2> QED BY <1>1, <1>6, <2>1, QuietFlows, Zenon
<1>8. FinFollowsEnd'
  <2>1. /\ \A k \in Nodes, e \in Dirs : pump[k][e] = "done" => pump'[k][e] = "done"
        /\ \A e \in Dirs : Sender(e).closed => (Sender(e).closed)'
    BY <1>1, Zenon DEF Sender
  <2> QED BY <1>3, <2>1, FinKept, Zenon DEF TunInv
<1>9. TunTypeOK' /\ EndsInOrder'
  <2>1. TunTypeOK'
    BY <1>1, <1>4, Zenon DEF TunInv, TunTypeOK, Peers, DataFrames, Nodes, Dirs, Conns
  <2>2. EndsInOrder'
    BY <1>1, SMTT(30) DEF TunInv, EndsInOrder, Clean, Sender, Upstream, Nodes, Dirs
  <2> QED BY <2>1, <2>2, Zenon
<1>10. GateOrder'
  <2> SUFFICES ASSUME NEW k \in 1..Relays
               PROVE  /\ node'[k - 1] \in {"idle", "gate"} => node'[k] = "idle"
                      /\ node'[k - 1] = "run" => node'[k] # "idle"
                      /\ node'[k] = "idle" => stream'[k]["up"].wire = <<>> /\ stream'[k]["up"].buf = <<>>
                      /\ node'[k] = "gate" =>
                            IF stream'[k]["up"].wire = <<>> THEN k \in broken'
                            ELSE stream'[k]["up"].wire[1] \in OwnFrames
    BY Zenon DEF GateOrder, OwnFrames
  <2>0. k \in Nodes /\ k - 1 \in Nodes /\ k \in Conns /\ k \in Nat
    BY <1>0 DEF Nodes, Conns
  <2>1. /\ node[k - 1] \in {"idle", "gate"} => node[k] = "idle"
        /\ node[k - 1] = "run" => node[k] # "idle"
        /\ node[k] = "idle" => stream[k]["up"].wire = <<>> /\ stream[k]["up"].buf = <<>>
        /\ node[k] = "gate" => IF stream[k]["up"].wire = <<>> THEN k \in broken
                               ELSE stream[k]["up"].wire[1] \in OwnFrames
    BY Zenon DEF TunInv, GateOrder
  <2>2. CASE k = i + 1
    <3>1. node'[k] = "gate" /\ node'[k - 1] = "run" /\ node[k] = "idle" /\ i < Relays
      BY <2>2, <1>0, <1>4, <1>5
    <3>2. stream[k]["up"].wire = <<>> /\ stream[k]["up"].buf = <<>>
      BY <3>1, <2>1, Zenon
    <3>3. PICK y \in {<<>>, <<Auth(i)>>} :
             /\ k \notin broken => y = <<Auth(i)>>
             /\ stream'[k]["up"].wire = <<>> \o (<<>> \o y)
      BY <2>2, <3>1, <3>2, <1>3, Zenon
    <3>4. Auth(i) \in OwnFrames
      BY <1>0, Zenon DEF Auth, OwnFrames, Nodes
    <3>5. <<>> \o (<<>> \o y) = y /\ (y = <<Auth(i)>> => y # <<>> /\ y[1] = Auth(i))
      BY <3>3
    <3> QED BY <3>1, <3>3, <3>4, <3>5, <1>1
  <2>3. CASE k = i
    <3>1. node'[k] = "run" /\ node'[k - 1] = node[k - 1]
      BY <2>3, <1>0, <1>4
    <3>2. node[k - 1] \notin {"idle", "gate"}
      BY <2>1, <2>3, <1>1, Zenon
    <3> QED BY <3>1, <3>2, Zenon
  <2>4. CASE k # i /\ k # i + 1
    <3>1. node'[k] = node[k] /\ node'[k - 1] = (IF k - 1 = i + 1 THEN "gate" ELSE node[k - 1])
      BY <2>0, <2>4, <1>0, <1>4 DEF Nodes
    <3>2. k - 1 = i + 1 => node[k - 1] = "idle"
      BY <2>0, <1>0, <1>5
    <3>3. <<k, "up">> \notin S
      BY <2>4, Zenon
    <3>4. stream'[k]["up"] = stream[k]["up"]
      BY <2>0, <3>3, <1>0, <1>3, Zenon DEF Others
    <3> QED BY <2>1, <3>1, <3>2, <3>4, <1>1
  <2> QED BY <2>2, <2>3, <2>4, Zenon
<1> QED BY <1>3, <1>7, <1>8, <1>9, <1>10, Zenon DEF TunInv

\* A direction ends at EOF.  As long as nothing failed, its connection was shut down by a
\* writer that had ended itself, so everything sent has passed.
LEMMA PumpEofKeeps ==
    ASSUME TunInv, NEW i \in Nodes, NEW d \in Dirs, PumpEof(i, d)
    PROVE  TunInv'
<1> DEFINE a == In(i, d)
           b == Out(i, d)
           w == IF d = "up" THEN i - 1 ELSE i + 1
<1>0. /\ UNCHANGED <<node, broken, app, backend, chaffs, faults>>
      /\ node[i] = "run" /\ pump[i][d] = "run" /\ AtEof(a, d)
      /\ pump' = [pump EXCEPT ![i][d] = "done"]
      /\ stream' = [stream EXCEPT ![b][d] = [Flushed(@) EXCEPT !.fin = TRUE]]
  BY Zenon DEF PumpEof, Running
<1>1. /\ a \in Conns /\ b \in Conns /\ a # b /\ b # Src(d)
      /\ (IF d = "up" THEN b - 1 ELSE b) = i
      /\ a # Src(d) => w \in Nodes /\ Out(w, d) = a /\ w = (IF d = "up" THEN a - 1 ELSE a)
      /\ \A k \in Upstream(i, d) : k = i \/ (a # Src(d) /\ k \in Upstream(w, d))
  BY TunnelAssumption DEF In, Out, Nodes, Conns, Dirs, Src, Upstream
<1>2. /\ pump' \in [Nodes -> [Dirs -> {"run", "done", "err"}]]
      /\ pump'[i][d] = "done"
      /\ \A k \in Nodes, e \in Dirs : k # i \/ e # d => pump'[k][e] = pump[k][e]
  BY <1>0, Zenon DEF TunInv, TunTypeOK
<1>3. StreamsOK' /\ Others({<<b, d>>}) /\ Appends(b, d, <<>>)
  <2> HIDE DEF b
  <2> QED BY <1>0, <1>1, ShutEffect, Zenon DEF TunInv
<1> HIDE DEF a, b, w
<1>4. \A j \in Conns, e \in Dirs : Payload(j, e)' = Payload(j, e)
  <2>1. Payload(b, d)' = Payload(b, d)
    BY <1>1, <1>3, AppendsPayload, Zenon DEF TunInv
  <2>2. ASSUME NEW j \in Conns, NEW e \in Dirs, j # b \/ e # d
        PROVE  Payload(j, e)' = Payload(j, e)
    <3>1. <<j, e>> \notin {<<b, d>>}
      BY <2>2, Zenon
    <3> QED BY <3>1, <1>3, OthersKept, Zenon DEF TunInv
  <2> QED BY <2>1, <2>2, Zenon
<1>5. TunTypeOK'
  BY <1>0, <1>2, Zenon DEF TunInv, TunTypeOK, Peers, DataFrames, Conns
<1>6. GateOrder'
  <2>1. ASSUME NEW k \in 1..Relays, <<k, "up">> \in {<<b, d>>}
        PROVE  node[k] = "run" \/ (node[k - 1] = "run" /\ \E q : Appends(k, "up", q))
    BY <2>1, <1>0, <1>1, <1>3, Zenon
  <2> QED BY <1>0, <1>3, <2>1, GateOrderStep DEF TunInv
<1>7. FinFollowsEnd'
  <2> SUFFICES ASSUME NEW j \in Conns, NEW e \in Dirs, stream'[j][e].fin
               PROVE  IF j = Src(e) THEN (Sender(e).closed)'
                      ELSE pump'[IF e = "up" THEN j - 1 ELSE j][e] = "done"
    BY Zenon DEF FinFollowsEnd, Src
  <2>1. CASE j = b /\ e = d
    BY <2>1, <1>1, <1>2, Zenon
  <2>2. CASE ~(j = b /\ e = d)
    <3>1. stream[j][e].fin
      BY <2>2, <1>3, Zenon DEF Others
    <3>2. IF j = Src(e) THEN Sender(e).closed ELSE pump[IF e = "up" THEN j - 1 ELSE j][e] = "done"
      BY <3>1, Zenon DEF TunInv, FinFollowsEnd
    <3>3. j # Src(e) => (IF e = "up" THEN j - 1 ELSE j) \in Nodes
      BY TunnelAssumption DEF Src, Nodes, Conns, Dirs
    <3>4. Sender(e)' = Sender(e)
      BY <1>0, Zenon DEF Sender
    <3>5. \A k \in Nodes : pump[k][e] = "done" => pump'[k][e] = "done"
      BY <1>2, Zenon
    <3> QED BY <3>2, <3>3, <3>4, <3>5, Zenon
  <2> QED BY <2>1, <2>2
<1>8. EofMeansComplete'
  <2>1. faults \in Nat /\ faults' \in Nat /\ faults' >= faults
    BY <1>0, SMTT(30) DEF TunInv, TunTypeOK
  <2> QED BY <1>0, <2>1, EofKept, Zenon DEF TunInv
<1>9. Clean(d) => IF a = Src(d) THEN Sender(d).closed ELSE pump[w][d] = "done"
  <2>1. ASSUME Clean(d) PROVE stream[a][d].fin
    BY <1>0, <2>1, CleanRunning, Zenon DEF TunInv, AtEof
  <2> QED BY <2>1, <1>1 DEF TunInv, FinFollowsEnd
<1>10. EndsInOrder'
  <2>0. 0 \in Nodes /\ "down" \in Dirs /\ "up" \in Dirs
    BY TunnelAssumption DEF Nodes, Dirs
  <2>1. \A k \in Nodes, e \in Dirs : /\ pump[k][e] = "done" => pump'[k][e] = "done"
                                     /\ pump'[k][e] = "err" => pump[k][e] = "err"
    BY <1>2, Zenon
  <2>2. ASSUME faults = 0
        PROVE  /\ broken # {} => pump'[0]["down"] = "done"
               /\ \A k \in Nodes : /\ pump'[k]["down"] # "err"
                                   /\ pump'[k]["up"] = "err" => pump'[0]["down"] = "done"
    BY <2>0, <2>1, <2>2, SMTT(30) DEF TunInv, EndsInOrder
  <2>3. ASSUME NEW e \in Dirs, Clean(e), NEW k \in Nodes, pump'[k][e] = "done"
        PROVE  Sender(e).closed /\ \A m \in Upstream(k, e) : pump'[m][e] = "done"
    <3>1. CASE pump[k][e] = "done"
      BY <2>1, <2>3, <3>1, SMTT(30) DEF TunInv, EndsInOrder, Upstream
    <3>2. CASE pump[k][e] # "done"
      <4>1. k = i /\ e = d
        BY <2>3, <3>2, <1>2, Zenon
      <4>2. CASE a = Src(d)
        BY <2>3, <4>1, <4>2, <1>1, <1>2, <1>9, Zenon
      <4>3. CASE a # Src(d)
        <5>1. Sender(d).closed /\ \A m \in Upstream(w, d) : pump[m][d] = "done"
          BY <2>3, <4>1, <4>3, <1>1, <1>9, Zenon DEF TunInv, EndsInOrder
        <5>2. \A m \in Upstream(i, d) : m \in Nodes
          BY Zenon DEF Upstream
        <5> QED BY <4>1, <5>1, <5>2, <2>1, <1>1, <1>2
      <4> QED BY <4>2, <4>3, Zenon
    <3> QED BY <3>1, <3>2, Zenon
  <2> QED BY <2>2, <2>3, <1>0, SMTT(30) DEF EndsInOrder, Clean, Sender, Upstream, Nodes, Dirs
<1>11. ASSUME NEW e \in Dirs, e # d PROVE Flow(e)'
  <2>1. /\ (Sender(e).sent)' = Sender(e).sent /\ Got(e)' = Got(e) /\ (Clean(e)' => Clean(e))
        /\ \A k \in Nodes : pump'[k][e] = "done" => pump[k][e] = "done"
    BY <1>0, <1>2, <1>11, Zenon DEF Sender, Got, Clean
  <2> QED BY <1>0, <1>4, <2>1, FlowUnchanged, Zenon DEF TunInv, Flows
<1>12. Flow(d)'
  <2> DEFINE n == Sender(d).sent
  <2>1. PICK lo \in [Conns -> 0..n], hi \in [Conns -> 0..n] : FlowOK(d, lo, hi)
    BY Zenon DEF TunInv, Flows, Flow
  <2>2. Clean(d) => lo[a] = n /\ hi[a] = n
    <3>1. Payload(a, d) = <<>>
      BY <1>0, OnlyEmpty, Zenon DEF AtEof, Payload
    <3>2. /\ lo[a] \in Nat /\ hi[a] \in Nat /\ lo[a] <= hi[a]
          /\ Run(lo[a], hi[a]) = <<>>
      <4>1. a \in Conns
        BY <1>1, Zenon
      <4>2. lo[a] \in 0..n /\ hi[a] \in 0..n
        <5> HIDE DEF n
        <5> QED BY <4>1, Zenon
      <4>3. lo[a] \in Nat /\ hi[a] \in Nat
        <5> HIDE DEF n
        <5> QED BY <4>2
      <4>4. lo[a] <= hi[a] /\ Payload(a, d) = Run(lo[a], hi[a])
        BY <2>1, <4>1, Zenon DEF FlowOK
      <4> QED BY <3>1, <4>3, <4>4, Zenon
    <3>3. lo[a] = hi[a]
      BY <3>2, RunFacts, Zenon
    <3>4. ASSUME Clean(d) PROVE hi[a] = n
      <4>1. CASE a = Src(d)
        BY <2>1, <3>4, <4>1, SMTT(30) DEF FlowOK
      <4>2. CASE a # Src(d)
        <5>1. pump[w][d] = "done" /\ w \in Nodes /\ Out(w, d) = a
          BY <3>4, <4>2, <1>1, <1>9, Zenon
        <5> QED BY <2>1, <3>4, <5>1, SMTT(30) DEF FlowOK
      <4> QED BY <4>1, <4>2, Zenon
    <3> QED BY <3>3, <3>4
  <2>3. (Sender(d).sent)' = n /\ Got(d)' = Got(d) /\ (Clean(d)' <=> Clean(d))
    BY <1>0 DEF Sender, Got, Clean
  <2>4. ASSUME NEW k \in Nodes, Clean(d), pump'[k][d] = "done"
        PROVE  lo[In(k, d)] = n /\ hi[In(k, d)] = n
    <3>1. CASE k = i  BY <2>2, <2>4, <3>1, Zenon DEF a
    <3>2. CASE k # i  BY <2>1, <2>4, <3>2, <1>2, Zenon DEF FlowOK
    <3> QED BY <3>1, <3>2, Zenon
  <2> HIDE DEF n
  <2>5. FlowOK(d, lo, hi)'
    BY <2>1, <2>3, <2>4, <1>0, <1>4, Zenon DEF FlowOK, n
  <2> QED BY <2>1, <2>3, <2>5, Zenon DEF Flow
<1> QED BY <1>3, <1>5, <1>6, <1>7, <1>8, <1>10, <1>11, <1>12, Zenon DEF TunInv, Flows, Dirs

\* Node i ends.  Without a fault it had finished the directions in which nothing failed.
LEMMA DropKeeps ==
    ASSUME TunInv, NEW i \in Nodes, node[i] = "run", DropStreams(i),
           UNCHANGED <<pump, app, backend, chaffs>>, faults' \in Nat, faults' >= faults,
           faults' = 0 => broken' = broken \/ pump[0]["down"] = "done",
           \A d \in Dirs : Clean(d)' => pump[i][d] = "done"
    PROVE  TunInv'
<1> DEFINE S == {<<i, "up">>, <<i, "down">>, <<i + 1, "up">>, <<i + 1, "down">>}
<1>1. /\ StreamsOK' /\ SameFins /\ Others(S)
      /\ \A d \in Dirs : Payload(In(i, d), d)' = <<>>
      /\ \A j \in Conns, d \in Dirs :
            j # In(i, d) => stream'[j][d].wire = stream[j][d].wire
  BY DropEffect, Zenon DEF TunInv
<1>2. /\ node' \in [Nodes -> {"idle", "gate", "run", "ended"}]
      /\ node'[i] = "ended" /\ \A k \in Nodes : k # i => node'[k] = node[k]
      /\ broken \subseteq broken'
  BY Zenon DEF DropStreams, TunInv, TunTypeOK
<1>3. broken' \in SUBSET Conns
  <2>1. \A d \in Dirs : In(i, d) \in Conns /\ Out(i, d) \in Conns
    BY InOut, Zenon
  <2> QED BY <2>1, SMTT(30) DEF DropStreams, TunInv, TunTypeOK
<1>4. TunTypeOK'
  BY <1>2, <1>3, Zenon DEF TunInv, TunTypeOK, Peers, DataFrames, Nodes, Dirs, Conns
<1>5. GateOrder'
  <2>1. ASSUME NEW k \in 1..Relays, <<k, "up">> \in S
        PROVE  node[k] = "run" \/ (node[k - 1] = "run" /\ \E q : Appends(k, "up", q))
    <3>0. k \in Conns /\ "up" \in Dirs /\ (k = i \/ (k - 1 = i /\ k # In(i, "up")))
      BY <2>1, TunnelAssumption, SMTT(30) DEF Conns, Dirs, In, Nodes
    <3>1. CASE k = i
      BY <3>1, Zenon
    <3>2. CASE k - 1 = i /\ k # In(i, "up")
      <4>1. stream'[k]["up"].wire = stream[k]["up"].wire
        BY <3>0, <3>2, <1>1, Zenon
      <4>2. stream[k]["up"].wire \in Seq(Allowed(k, "up"))
        BY <3>0, StreamParts DEF StreamsOK, TunInv
      <4>3. /\ stream'[k]["up"].wire = stream[k]["up"].wire \o <<>>
            /\ <<>> \in Seq(Allowed(k, "up")) /\ <<>> \in Seq(OwnOn(k, "up"))
            /\ Only(<<>>, DataFrames) = <<>>
        BY <4>1, <4>2, OnlyEmpty
      <4>4. Appends(k, "up", <<>>)
        BY <4>3, Zenon DEF Appends, Extends
      <4> QED BY <3>2, <4>4, Zenon
    <3> QED BY <3>0, <3>1, <3>2, Zenon
  <2>2. \A k \in Nodes : \/ node'[k] = node[k]
                         \/ node[k] \in {"run", "gate"} /\ node'[k] = "ended"
    BY <1>2, SMTT(30)
  <2> HIDE DEF S
  <2> QED BY <1>1, <1>2, <2>1, <2>2, GateOrderStep, SMTT(30) DEF TunInv
<1>6. FinFollowsEnd'
  <2>1. /\ \A k \in Nodes, e \in Dirs : pump[k][e] = "done" => pump'[k][e] = "done"
        /\ \A e \in Dirs : Sender(e).closed => (Sender(e).closed)'
    BY Zenon DEF Sender
  <2> QED BY <1>1, <2>1, FinKept, Zenon DEF TunInv
<1>7. EndsInOrder'
  <2>1. faults' = 0 => faults = 0
    BY DEF TunInv, TunTypeOK
  <2> QED BY <2>1, <1>2 DEF TunInv, EndsInOrder, Clean, Sender, Upstream, Nodes, Dirs
<1>8. EofMeansComplete'
  BY EofKept, Zenon DEF TunInv
<1>9. ASSUME NEW d \in Dirs PROVE Flow(d)'
  <2> DEFINE c == In(i, d)
  <2>0. c \in Conns /\ c # Dst(d) /\ \A k \in Nodes : In(k, d) = c => k = i
    BY InOut, Zenon
  <2>1. (Sender(d).sent)' = Sender(d).sent /\ Got(d)' = Got(d) /\ (Clean(d)' => Clean(d))
    BY SMTT(30) DEF Sender, Got, Clean, TunInv, TunTypeOK
  <2>2. \A k \in Nodes : In(k, d) = c => node'[k] = "ended" /\ (Clean(d)' => pump[k][d] = "done")
    BY <2>0, <1>2, Zenon
  <2>3. \A j \in Conns \ {c} : Payload(j, d)' = Payload(j, d)
    BY <1>1, Zenon DEF Payload
  <2>4. Got(d) \in Seq(DataFrames)
    BY Zenon DEF TunInv, TunTypeOK, Peers, Got
  <2>5. Flow(d) /\ Payload(c, d)' = <<>>
    BY <1>1, Zenon DEF TunInv, Flows
  <2>6. \A k \in Nodes : node[k] = "ended" => node'[k] = "ended"
    BY <1>2, Zenon
  <2>7. Got(d)' = IF c = Dst(d) THEN Got(d) \o Payload(c, d) ELSE Got(d)
    BY <2>0, <2>1, Zenon
  <2> HIDE DEF c
  <2> QED BY <2>0, <2>1, <2>2, <2>3, <2>4, <2>5, <2>6, <2>7, <1>2, FlowTaken, Zenon DEF TunInv
<1> QED BY <1>1, <1>4, <1>5, <1>6, <1>7, <1>8, <1>9, Zenon DEF TunInv, Flows

LEMMA NodeEndsKeeps ==
    ASSUME TunInv, NEW i \in Nodes, NodeEnds(i)
    PROVE  TunInv'
<1>0. 0 \in Nodes /\ "up" \in Dirs /\ "down" \in Dirs
  BY TunnelAssumption DEF Nodes, Dirs
<1>1. /\ node[i] = "run" /\ DropStreams(i) /\ UNCHANGED <<pump, app, backend, chaffs, faults>>
      /\ IF i = 0 THEN FerryOver ELSE TunnelOver(i)
  BY Zenon DEF NodeEnds
<1>2. ASSUME faults = 0 PROVE (\A d \in Dirs : pump[i][d] = "done") \/ pump[0]["down"] = "done"
  <2>1. CASE i = 0
    BY <2>1, <1>0, <1>1, <1>2, SMTT(30) DEF FerryOver, TunInv, TunTypeOK, EndsInOrder
  <2>2. CASE i # 0
    <3>1. CASE \E d \in Dirs : pump[i][d] = "err"
      BY <3>1, <1>2, Zenon DEF TunInv, EndsInOrder, Dirs
    <3>2. CASE \A d \in Dirs : pump[i][d] = "done"
      BY <3>2, Zenon
    <3> QED BY <2>2, <3>1, <3>2, <1>1 DEF TunnelOver
  <2> QED BY <2>1, <2>2, Zenon
<1>3. pump[0]["down"] = "done" /\ faults = 0 => backend.closed /\ pump[i]["down"] = "done"
  <2>1. faults = 0 => Clean("down")
    BY Zenon DEF Clean
  <2>2. i \in Upstream(0, "down")
    BY TunnelAssumption DEF Upstream, Nodes
  <2> QED BY <2>1, <2>2, <1>0, Zenon DEF TunInv, EndsInOrder, Sender
<1>4. \A d \in Dirs : Clean(d)' => pump[i][d] = "done"
  BY <1>1, <1>2, <1>3, Zenon DEF Clean, Dirs
<1>5. faults' = 0 => broken' = broken \/ pump[0]["down"] = "done"
  <2>1. (\A d \in Dirs : pump[i][d] = "done") => broken' = broken
    BY <1>1, Zenon DEF DropStreams
  <2> QED BY <1>1, <1>2, <2>1
<1>6. faults' \in Nat /\ faults' >= faults
  BY <1>1 DEF TunInv, TunTypeOK
<1> QED BY <1>1, <1>4, <1>5, <1>6, DropKeeps

LEMMA CancelKeeps ==
    ASSUME TunInv, CancelFerry
    PROVE  TunInv'
<1>0. 0 \in Nodes
  BY TunnelAssumption DEF Nodes
<1>1. /\ node[0] = "run" /\ DropStreams(0) /\ UNCHANGED <<pump, app, backend, chaffs>>
      /\ faults' \in Nat /\ faults' >= faults /\ faults' # 0
  BY DEF CancelFerry, TunInv, TunTypeOK
<1>2. \A d \in Dirs : ~Clean(d)'
  BY <1>1, Zenon DEF Clean
<1> QED BY <1>0, <1>1, <1>2, DropKeeps, Zenon

-----------------------------------------------------------------------------
(* The peers.                                                              *)

\* The ends of a direction are raw connections.
LEMMA EndsAreRaw ==
    ASSUME NEW d \in Dirs
    PROVE  /\ Src(d) \in Conns /\ Dst(d) \in Conns /\ Src(d) \notin 1..Relays /\ Dst(d) \notin 1..Relays
           /\ Allowed(Src(d), d) = DataFrames /\ Allowed(Dst(d), d) = DataFrames
           /\ \A k \in 1..Relays : <<k, "up">> \notin {<<Src(d), d>>} /\ <<k, "up">> \notin {<<Dst(d), d>>}
<1>1. /\ Src(d) \in Conns /\ Dst(d) \in Conns /\ Src(d) \notin 1..Relays /\ Dst(d) \notin 1..Relays
  BY TunnelAssumption DEF Src, Dst, Conns
<1>2. Allowed(Src(d), d) = DataFrames /\ Allowed(Dst(d), d) = DataFrames
  BY <1>1, Zenon DEF Allowed, OwnOn
<1> QED BY <1>1, <1>2, Zenon

\* A step of a peer that is not a step of any node: what is left to show.
LEMMA PeerKeeps ==
    ASSUME TunInv, TunTypeOK', StreamsOK', NEW c \in Conns, NEW d \in Dirs, Others({<<c, d>>}),
           \A k \in 1..Relays : <<k, "up">> \notin {<<c, d>>},
           UNCHANGED <<node, pump, broken, faults>>,
           \A e \in Dirs : Sender(e).closed => (Sender(e).closed)',
           Flow(d)',
           \A e \in Dirs : e # d => (Sender(e).sent)' = Sender(e).sent /\ Got(e)' = Got(e),
           FinFollowsEnd', EofMeansComplete'
    PROVE  TunInv'
<1>1. GateOrder'
  BY GateOrderStep, Zenon DEF TunInv
<1>2. \A e \in Dirs : Clean(e)' => Clean(e)
  <2>1. "down" \in Dirs /\ Sender("down") = backend /\ (Sender("down").closed)' = backend'.closed
    BY Zenon DEF Dirs, Sender
  <2> QED BY <2>1, Zenon DEF Clean
<1>3. EndsInOrder'
  BY <1>2, Zenon DEF TunInv, EndsInOrder, Upstream, Nodes, Dirs
<1>4. ASSUME NEW e \in Dirs, e # d PROVE Flow(e)'
  <2>1. ASSUME NEW j \in Conns PROVE Payload(j, e)' = Payload(j, e)
    <3>1. <<j, e>> \notin {<<c, d>>}
      BY <1>4, Zenon
    <3> QED BY <3>1, OthersKept, Zenon DEF TunInv
  <2> QED BY <2>1, <1>2, <1>4, FlowUnchanged, Zenon DEF TunInv, Flows
<1> QED BY <1>1, <1>3, <1>4, Zenon DEF TunInv, Flows

LEMMA WriteKeeps ==
    ASSUME TunInv, TunTypeOK', EofMeansComplete', NEW d \in Dirs, Write(Sender(d), Src(d), d),
           (Sender(d).sent)' = Sender(d).sent + 1,
           \A e \in Dirs : e # d => (Sender(e).sent)' = Sender(e).sent,
           \A e \in Dirs : (Sender(e).closed)' = Sender(e).closed /\ Got(e)' = Got(e)
    PROVE  TunInv'
<1> DEFINE c == Src(d)
           n == Sender(d).sent
           y == <<Data(n + 1)>>
<1>0. /\ c \in Conns /\ Allowed(c, d) = DataFrames
      /\ \A k \in 1..Relays : <<k, "up">> \notin {<<c, d>>}
  BY EndsAreRaw, Zenon
<1>1. /\ ~Sender(d).closed /\ c \notin broken
      /\ UNCHANGED <<node, pump, broken, chaffs, faults>>
      /\ stream' = [stream EXCEPT ![c][d] = Flushed(Wrote(@, c, y))]
  BY Zenon DEF Write
<1>2. y \in Seq(DataFrames) /\ y \in Seq(Allowed(c, d))
  <2>1. Data(n + 1) \in DataFrames
    BY Zenon DEF TunInv, TunTypeOK, Peers, Sender, Data, DataFrames
  <2> QED BY <2>1, <1>0, SMTT(30)
<1> HIDE DEF c, y, n
<1>3. Only(y, DataFrames) = y
  BY <1>2, OnlyAll
<1> DEFINE q == IF c \in broken THEN <<>> ELSE Only(y, DataFrames)
<1>4. StreamsOK' /\ Others({<<c, d>>}) /\ SameFins /\ Appends(c, d, q)
  BY <1>0, <1>1, <1>2, WriteEffect, Zenon DEF TunInv
<1>5. q = y
  BY <1>1, <1>3, Zenon
<1> HIDE DEF q
<1>6. Payload(c, d)' = Payload(c, d) \o y
  BY <1>0, <1>4, <1>5, AppendsPayload, Zenon DEF TunInv
<1>7. \A j \in Conns \ {c} : Payload(j, d)' = Payload(j, d)
  <2>1. ASSUME NEW j \in Conns \ {c} PROVE Payload(j, d)' = Payload(j, d)
    <3>1. <<j, d>> \notin {<<c, d>>}
      BY Zenon
    <3> QED BY <3>1, <1>4, OthersKept, Zenon DEF TunInv
  <2> QED BY <2>1, Zenon
<1>8. Clean(d)' <=> Clean(d)
  <2>1. "down" \in Dirs /\ Sender("down") = backend /\ (Sender("down").closed)' = backend'.closed
    BY SMTT(30) DEF Dirs, Sender
  <2> QED BY <1>1, <2>1, Zenon DEF Clean
<1>9. Flow(d)'
  BY <1>1, <1>6, <1>7, <1>8, FlowWritten DEF TunInv, Flows, c, y, n
<1>10. FinFollowsEnd'
  <2>1. \A k \in Nodes, e \in Dirs : pump[k][e] = "done" => pump'[k][e] = "done"
    BY <1>1
  <2> QED BY <1>4, <2>1, FinKept, Zenon DEF TunInv
<1> QED BY <1>0, <1>1, <1>4, <1>9, <1>10, PeerKeeps

LEMMA CloseKeeps ==
    ASSUME TunInv, TunTypeOK', EofMeansComplete', NEW d \in Dirs, Close(Sender(d), Src(d), d),
           (Sender(d).closed)' = TRUE,
           \A e \in Dirs : /\ (Sender(e).sent)' = Sender(e).sent /\ Got(e)' = Got(e)
                           /\ e # d => (Sender(e).closed)' = Sender(e).closed
    PROVE  TunInv'
<1> DEFINE c == Src(d)
<1>0. /\ c \in Conns
      /\ \A k \in 1..Relays : <<k, "up">> \notin {<<c, d>>}
  BY EndsAreRaw, Zenon
<1>1. /\ UNCHANGED <<node, pump, broken, chaffs, faults>>
      /\ stream' = [stream EXCEPT ![c][d].fin = TRUE]
  BY Zenon DEF Close
<1> HIDE DEF c
<1>2. StreamsOK' /\ Others({<<c, d>>}) /\ Appends(c, d, <<>>)
  BY <1>0, <1>1, ShutEffect, Zenon DEF TunInv
<1>3. \A j \in Conns : Payload(j, d)' = Payload(j, d)
  <2>1. Payload(c, d)' = Payload(c, d)
    BY <1>0, <1>2, AppendsPayload, Zenon DEF TunInv
  <2>2. ASSUME NEW j \in Conns, j # c PROVE Payload(j, d)' = Payload(j, d)
    <3>1. <<j, d>> \notin {<<c, d>>}
      BY <2>2, Zenon
    <3> QED BY <3>1, <1>2, OthersKept, Zenon DEF TunInv
  <2> QED BY <2>1, <2>2, Zenon
<1>4. \A e \in Dirs : Sender(e).closed => (Sender(e).closed)'
  BY Zenon
<1>5. Clean(d)' => Clean(d)
  <2>1. "down" \in Dirs /\ Sender("down") = backend /\ (Sender("down").closed)' = backend'.closed
    BY Zenon DEF Dirs, Sender
  <2> QED BY <1>1, <1>4, <2>1 DEF Clean
<1>6. Flow(d)'
  BY <1>1, <1>3, <1>5, FlowUnchanged DEF TunInv, Flows
<1>7. FinFollowsEnd'
  <2> SUFFICES ASSUME NEW j \in Conns, NEW e \in Dirs, stream'[j][e].fin
               PROVE  IF j = Src(e) THEN (Sender(e).closed)'
                      ELSE pump'[IF e = "up" THEN j - 1 ELSE j][e] = "done"
    BY Zenon DEF FinFollowsEnd, Src
  <2>1. CASE j = c /\ e = d
    BY <2>1, Zenon DEF c
  <2>2. CASE ~(j = c /\ e = d)
    <3>1. stream[j][e].fin
      BY <2>2, <1>2, Zenon DEF Others
    <3>2. IF j = Src(e) THEN Sender(e).closed ELSE pump[IF e = "up" THEN j - 1 ELSE j][e] = "done"
      BY <3>1 DEF TunInv, FinFollowsEnd
    <3> QED BY <3>2, <1>1, <1>4, Zenon
  <2> QED BY <2>1, <2>2, Zenon
<1> QED BY <1>0, <1>1, <1>2, <1>4, <1>6, <1>7, PeerKeeps, Zenon

\* The peer at the end of a direction takes what has arrived.
LEMMA TakeKeeps ==
    ASSUME TunInv, TunTypeOK', EofMeansComplete', NEW d \in Dirs,
           stream' = [stream EXCEPT ![Dst(d)][d].wire = <<>>],
           Got(d)' = Got(d) \o stream[Dst(d)][d].wire,
           UNCHANGED <<node, pump, broken, chaffs, faults>>,
           \A e \in Dirs : /\ (Sender(e).sent)' = Sender(e).sent
                           /\ (Sender(e).closed)' = Sender(e).closed
                           /\ e # d => Got(e)' = Got(e)
    PROVE  TunInv'
<1> DEFINE c == Dst(d)
           s == stream[c][d]
<1>0. /\ c \in Conns /\ Allowed(c, d) = DataFrames
      /\ \A k \in 1..Relays : <<k, "up">> \notin {<<c, d>>}
  BY EndsAreRaw
<1>1. stream' = [stream EXCEPT ![c][d].wire = <<>>] /\ <<>> \in Seq(Allowed(c, d))
  BY Zenon, SMT
<1>2. s.wire \in Seq(DataFrames)
  BY <1>0, StreamParts, Zenon DEF TunInv, StreamsOK
<1> HIDE DEF c
<1>3. /\ StreamsOK' /\ Others({<<c, d>>})
      /\ stream'[c][d] = [buf |-> s.buf, wire |-> <<>>, fin |-> s.fin]
  BY <1>0, <1>1, SetWire, Zenon DEF TunInv
<1>4. stream'[c][d].wire = <<>> /\ stream'[c][d].fin = s.fin
  <2> HIDE DEF s
  <2> QED BY <1>3
<1>5. Payload(c, d)' = <<>> /\ Payload(c, d) = s.wire
  <2>1. Payload(c, d)' = <<>>
    BY <1>4, OnlyEmpty, Zenon DEF Payload
  <2>2. Only(s.wire, DataFrames) = s.wire
    <3> HIDE DEF s
    <3> QED BY <1>2, OnlyAll, Zenon
  <2> QED BY <2>1, <2>2, Zenon DEF Payload
<1>6. SameFins
  BY <1>3, <1>4 DEF SameFins, Others
<1>7. \A j \in Conns \ {c} : Payload(j, d)' = Payload(j, d)
  <2>1. ASSUME NEW j \in Conns \ {c} PROVE Payload(j, d)' = Payload(j, d)
    <3>1. <<j, d>> \notin {<<c, d>>}
      OBVIOUS
    <3> QED BY <3>1, <1>3, OthersKept, Zenon DEF TunInv
  <2> QED BY <2>1
<1>8. \A e \in Dirs : Clean(e)' <=> Clean(e)
  <2>1. "down" \in Dirs /\ Sender("down") = backend /\ (Sender("down").closed)' = backend'.closed
    BY Zenon DEF Dirs, Sender
  <2> QED BY <2>1, Zenon DEF Clean
<1>9. Flow(d)'
  <2>1. Got(d)' = IF c = Dst(d) THEN Got(d) \o Payload(c, d) ELSE Got(d)
    BY <1>5, Zenon DEF c
  <2>2. \A k \in Nodes : In(k, d) # c
    BY InOut, Zenon DEF c
  <2>3. Got(d) \in Seq(DataFrames)
    BY DEF TunInv, TunTypeOK, Peers, Got
  <2> QED BY <2>1, <2>2, <2>3, <1>0, <1>5, <1>7, <1>8, FlowTaken, Zenon DEF TunInv, Flows
<1>10. FinFollowsEnd'
  <2>1. /\ \A k \in Nodes, e \in Dirs : pump[k][e] = "done" => pump'[k][e] = "done"
        /\ \A e \in Dirs : Sender(e).closed => (Sender(e).closed)'
    BY Zenon
  <2> QED BY <1>6, <2>1, FinKept DEF TunInv
<1>11. \A e \in Dirs : Sender(e).closed => (Sender(e).closed)'
  BY Zenon
<1> QED BY <1>0, <1>3, <1>9, <1>10, <1>11, PeerKeeps, Zenon

\* An end seen: nothing moves.
LEMMA EndKeeps ==
    ASSUME TunInv, TunTypeOK', EofMeansComplete',
           UNCHANGED <<node, pump, stream, broken, chaffs, faults>>,
           \A e \in Dirs : /\ (Sender(e).sent)' = Sender(e).sent /\ Got(e)' = Got(e)
                           /\ (Sender(e).closed)' = Sender(e).closed
    PROVE  TunInv'
<1>1. StreamsOK' /\ Others({}) /\ SameFins
  BY StreamsSame, Zenon DEF TunInv
<1>2. \A e \in Dirs : Sender(e).closed => (Sender(e).closed)'
  BY Zenon
<1>3. FinFollowsEnd'
  <2>1. \A k \in Nodes, e \in Dirs : pump[k][e] = "done" => pump'[k][e] = "done"
    BY Zenon
  <2> QED BY <1>1, <1>2, <2>1, FinKept, Zenon DEF TunInv
<1>4. "up" \in Dirs /\ Src("up") \in Conns /\ Others({<<Src("up"), "up">>})
      /\ \A k \in 1..Relays : <<k, "up">> \notin {<<Src("up"), "up">>}
  <2>1. "up" \in Dirs
    BY DEF Dirs
  <2> QED BY <2>1, <1>1, EndsAreRaw, SMTT(30) DEF Others
<1>5. Flow("up")'
  <2>1. \A j \in Conns : Payload(j, "up")' = Payload(j, "up")
    BY Zenon DEF Payload
  <2>2. Clean("up")' => Clean("up")
    <3>1. "down" \in Dirs /\ Sender("down") = backend /\ (Sender("down").closed)' = backend'.closed
      BY Zenon DEF Dirs, Sender
    <3> QED BY <3>1, Zenon DEF Clean
  <2> QED BY <2>1, <2>2, <1>4, FlowUnchanged, Zenon DEF TunInv, Flows
<1> QED BY <1>1, <1>2, <1>3, <1>4, <1>5, PeerKeeps, Zenon

LEMMA AppWritesKeeps ==
    ASSUME TunInv, AppWrites
    PROVE  TunInv'
<1>1. /\ app' \in Peers /\ app'.sent = app.sent + 1 /\ app'.got = app.got
      /\ app'.closed = app.closed /\ app'.end = app.end /\ backend' = backend /\ ~app.closed
      /\ UNCHANGED <<node, pump, broken, chaffs, faults>> /\ Write(app, 0, "up")
  <2>1. Write(app, 0, "up") /\ app' = [app EXCEPT !.sent = app.sent + 1] /\ backend' = backend
    BY Zenon DEF AppWrites
  <2>2. app \in Peers
    BY DEF TunInv, TunTypeOK
  <2>3. ~app.closed /\ UNCHANGED <<node, pump, broken, chaffs, faults>>
    BY <2>1, Zenon DEF Write
  <2>4. app.sent + 1 \in Nat
    BY <2>2 DEF Peers
  <2>5. PICK n \in Nat : n = app.sent + 1
    BY <2>4
  <2>6. app' = [app EXCEPT !.sent = n]
    BY <2>1, <2>5, Zenon
  <2>7. /\ app' \in Peers /\ app'.sent = n /\ app'.got = app.got
        /\ app'.closed = app.closed /\ app'.end = app.end
    BY <2>2, <2>5, <2>6, SMTT(30) DEF Peers
  <2> QED BY <2>1, <2>3, <2>5, <2>7, Zenon
<1>2. TunTypeOK'
  BY <1>1, Zenon DEF TunInv, TunTypeOK, Nodes, Dirs, Conns, Peers, DataFrames
<1>3. EofMeansComplete'
  BY <1>1 DEF TunInv, EofMeansComplete, Numbered, Data
<1>4. /\ "up" \in Dirs /\ Sender("up") = app /\ Src("up") = 0
      /\ (Sender("up").sent)' = Sender("up").sent + 1
      /\ \A e \in Dirs : e # "up" => (Sender(e).sent)' = Sender(e).sent
      /\ \A e \in Dirs : (Sender(e).closed)' = Sender(e).closed /\ Got(e)' = Got(e)
  BY <1>1, Zenon DEF Dirs, Sender, Src, Got
<1> QED BY <1>1, <1>2, <1>3, <1>4, WriteKeeps

LEMMA BackendWritesKeeps ==
    ASSUME TunInv, BackendWrites
    PROVE  TunInv'
<1>1. /\ backend' \in Peers /\ backend'.sent = backend.sent + 1 /\ backend'.got = backend.got
      /\ backend'.closed = backend.closed /\ backend'.end = backend.end /\ app' = app
      /\ ~backend.closed
      /\ UNCHANGED <<node, pump, broken, chaffs, faults>> /\ Write(backend, Relays + 1, "down")
  <2>1. Write(backend, Relays + 1, "down") /\ backend' = [backend EXCEPT !.sent = backend.sent + 1] /\ app' = app
    BY Zenon DEF BackendWrites
  <2>2. backend \in Peers
    BY Zenon DEF TunInv, TunTypeOK
  <2>3. ~backend.closed /\ UNCHANGED <<node, pump, broken, chaffs, faults>>
    BY <2>1, Zenon DEF Write
  <2>4. backend.sent + 1 \in Nat
    BY <2>2 DEF Peers
  <2>5. PICK n \in Nat : n = backend.sent + 1
    BY <2>4, Zenon
  <2>6. backend' = [backend EXCEPT !.sent = n]
    BY <2>1, <2>5, Zenon
  <2>7. /\ backend' \in Peers /\ backend'.sent = n /\ backend'.got = backend.got
        /\ backend'.closed = backend.closed /\ backend'.end = backend.end
    BY <2>2, <2>5, <2>6, Zenon DEF Peers
  <2> QED BY <2>1, <2>3, <2>5, <2>7, Zenon
<1>2. TunTypeOK'
  BY <1>1, Zenon DEF TunInv, TunTypeOK, Nodes, Dirs, Conns, Peers, DataFrames
<1>3. EofMeansComplete'
  BY <1>1 DEF TunInv, EofMeansComplete, Numbered, Data
<1>4. /\ "down" \in Dirs /\ Sender("down") = backend /\ Src("down") = Relays + 1
      /\ (Sender("down").sent)' = Sender("down").sent + 1
      /\ \A e \in Dirs : e # "down" => (Sender(e).sent)' = Sender(e).sent
      /\ \A e \in Dirs : (Sender(e).closed)' = Sender(e).closed /\ Got(e)' = Got(e)
  BY <1>1, Zenon DEF Dirs, Sender, Src, Got
<1> QED BY <1>1, <1>2, <1>3, <1>4, WriteKeeps, Zenon

LEMMA AppClosesKeeps ==
    ASSUME TunInv, AppCloses
    PROVE  TunInv'
<1>1. /\ app' \in Peers /\ app'.sent = app.sent /\ app'.got = app.got
      /\ app'.closed = TRUE /\ app'.end = app.end /\ backend' = backend
      /\ UNCHANGED <<node, pump, broken, chaffs, faults>> /\ Close(app, 0, "up")
  BY Zenon DEF AppCloses, Close, TunInv, TunTypeOK, Peers
<1>2. TunTypeOK'
  BY <1>1, SMTT(30) DEF TunInv, TunTypeOK, Nodes, Dirs, Conns, Peers, DataFrames
<1>3. EofMeansComplete'
  BY <1>1, Zenon DEF TunInv, EofMeansComplete, Numbered, Data
<1>4. /\ "up" \in Dirs /\ Sender("up") = app /\ Src("up") = 0
      /\ (Sender("up").closed)' = TRUE
      /\ \A e \in Dirs : /\ (Sender(e).sent)' = Sender(e).sent /\ Got(e)' = Got(e)
                         /\ e # "up" => (Sender(e).closed)' = Sender(e).closed
  BY <1>1 DEF Dirs, Sender, Src, Got
<1> QED BY <1>1, <1>2, <1>3, <1>4, CloseKeeps, Zenon

LEMMA BackendClosesKeeps ==
    ASSUME TunInv, BackendCloses
    PROVE  TunInv'
<1>1. /\ backend' \in Peers /\ backend'.sent = backend.sent /\ backend'.got = backend.got
      /\ backend'.closed = TRUE /\ backend'.end = backend.end /\ app' = app
      /\ UNCHANGED <<node, pump, broken, chaffs, faults>> /\ Close(backend, Relays + 1, "down")
  BY Zenon DEF BackendCloses, Close, TunInv, TunTypeOK, Peers
<1>2. TunTypeOK'
  BY <1>1, SMTT(30) DEF TunInv, TunTypeOK, Nodes, Dirs, Conns, Peers, DataFrames
<1>3. EofMeansComplete'
  BY <1>1, Zenon DEF TunInv, EofMeansComplete, Numbered, Data
<1>4. /\ "down" \in Dirs /\ Sender("down") = backend /\ Src("down") = Relays + 1
      /\ (Sender("down").closed)' = TRUE
      /\ \A e \in Dirs : /\ (Sender(e).sent)' = Sender(e).sent /\ Got(e)' = Got(e)
                         /\ e # "down" => (Sender(e).closed)' = Sender(e).closed
  BY <1>1 DEF Dirs, Sender, Src, Got
<1> QED BY <1>1, <1>2, <1>3, <1>4, CloseKeeps, Zenon

\* The peer at the end of a direction that sees EOF, when nothing failed, has everything.
LEMMA AtEofComplete ==
    ASSUME TunInv, NEW d \in Dirs, Clean(d), AtEof(Dst(d), d)
    PROVE  Got(d) = Numbered(Sender(d).sent) /\ Sender(d).closed
<1> DEFINE c == Dst(d)
           i == IF d = "up" THEN Relays ELSE 0
           n == Sender(d).sent
<1>0. /\ c \in Conns /\ i \in Nodes /\ Out(i, d) = c /\ c # Src(d) /\ In(i, d) \in Conns
      /\ i = (IF d = "up" THEN c - 1 ELSE c) /\ 0 \in Nodes /\ "down" \in Dirs
  BY TunnelAssumption DEF Conns, Nodes, Dirs, Dst, Src, Out, In
<1>1. pump[i][d] = "done"
  <2>1. CASE stream[c][d].fin
    BY <2>1, <1>0 DEF TunInv, FinFollowsEnd
  <2>2. CASE c \in broken
    <3>1. pump[0]["down"] = "done" /\ Clean("down")
      BY <2>2, Zenon DEF TunInv, EndsInOrder, Clean
    <3>2. backend.closed
      BY <3>1, <1>0 DEF TunInv, EndsInOrder, Sender
    <3>3. d = "down"
      BY <3>2, SMTT(30) DEF Clean, Dirs
    <3> QED BY <3>1, <3>3, SMTT(30)
  <2> QED BY <2>1, <2>2, SMTT(30) DEF AtEof
<1>2. Sender(d).closed
  BY <1>0, <1>1 DEF TunInv, EndsInOrder
<1>3. PICK lo \in [Conns -> 0..n], hi \in [Conns -> 0..n] : FlowOK(d, lo, hi)
  BY DEF TunInv, Flows, Flow
<1>4. hi[c] = n
  BY <1>0, <1>1, <1>3, Zenon DEF FlowOK
<1>5. Run(lo[c], hi[c]) = <<>> /\ lo[c] <= hi[c] /\ lo[c] \in Nat /\ hi[c] \in Nat
  <2>1. Payload(c, d) = <<>>
    BY OnlyEmpty DEF AtEof, Payload
  <2> QED BY <2>1, <1>0, <1>3, SMTT(30) DEF FlowOK
<1>6. lo[c] = hi[c]
  BY <1>5, RunFacts, Zenon
<1>7. Got(d) = Numbered(lo[c])
  BY <1>3, Zenon DEF FlowOK
<1> QED BY <1>2, <1>4, <1>6, <1>7, Zenon

\* A peer's record when it has read more.
LEMMA PeerGot ==
    ASSUME NEW p \in Peers, NEW w \in Seq(DataFrames)
    PROVE  \E g \in Seq(DataFrames) : g = p.got \o w
<1>1. p.got \in Seq(DataFrames)
  BY Zenon DEF Peers
<1>2. p.got \o w \in Seq(DataFrames)
  BY <1>1, SeqClosed, Zenon
<1> QED BY <1>2, Zenon

LEMMA AppReceivesKeeps ==
    ASSUME TunInv, AppReceives
    PROVE  TunInv'
<1> DEFINE s == stream[0]["down"]
<1>1. /\ "down" \in Dirs /\ Dst("down") = 0 /\ 0 \in Conns
      /\ Got("down") = app.got /\ Got("down")' = app'.got /\ app \in Peers
      /\ Sender("down") = backend /\ s.wire \in Seq(DataFrames)
  <2>1. "down" \in Dirs /\ Dst("down") = 0 /\ app \in Peers
    BY DEF Dirs, Dst, TunInv, TunTypeOK
  <2>2. 0 \in Conns /\ Allowed(0, "down") = DataFrames
    BY <2>1, EndsAreRaw, Zenon
  <2>3. s.wire \in Seq(DataFrames)
    BY <2>1, <2>2, Zenon DEF TunInv, StreamsOK, HopStreams
  <2> QED BY <2>1, <2>2, <2>3, Zenon DEF Got, Sender
<1>2. backend' = backend /\ UNCHANGED <<node, pump, broken, chaffs, faults>> /\ app.end = "none"
  BY DEF AppReceives, Receive
<1>3. CASE /\ app' = [app EXCEPT !.got = @ \o s.wire]
           /\ stream' = [stream EXCEPT ![0]["down"].wire = <<>>]
  <2>1. PICK g \in Seq(DataFrames) : g = app.got \o s.wire
    BY <1>1, PeerGot, Zenon
  <2>2. app' = [app EXCEPT !.got = g]
    BY <1>3, <2>1, Zenon
  <2>3. /\ app' \in Peers /\ app'.sent = app.sent /\ app'.got = g
        /\ app'.closed = app.closed /\ app'.end = app.end
    <3>1. app \in Peers /\ g \in Seq(DataFrames)
      BY <1>1, <2>1, Zenon
    <3> QED BY <2>2, <3>1, SMTT(30) DEF Peers
  <2>4. TunTypeOK'
    BY <1>2, <2>3, Zenon DEF TunInv, TunTypeOK, Nodes, Dirs, Conns, Peers, DataFrames
  <2>5. EofMeansComplete'
    BY <1>2, <2>3 DEF TunInv, EofMeansComplete, Numbered, Data
  <2>6. Got("down")' = Got("down") \o stream[Dst("down")]["down"].wire
    BY <1>1, <2>1, <2>3, Zenon
  <2>7. stream' = [stream EXCEPT ![Dst("down")]["down"].wire = <<>>]
    BY <1>1, <1>3, Zenon
  <2>8. \A e \in Dirs : /\ (Sender(e).sent)' = Sender(e).sent
                        /\ (Sender(e).closed)' = Sender(e).closed
                        /\ e # "down" => Got(e)' = Got(e)
    BY <1>2, <2>3 DEF Dirs, Sender, Got
  <2> QED BY <1>1, <1>2, <2>4, <2>5, <2>6, <2>7, <2>8, TakeKeeps, Zenon
<1>4. CASE AtEof(0, "down") /\ app' = [app EXCEPT !.end = "eof"] /\ UNCHANGED stream
  <2>1. /\ app' \in Peers /\ app'.sent = app.sent /\ app'.got = app.got
        /\ app'.closed = app.closed /\ app'.end = "eof"
    BY <1>1, <1>4, SMTT(30) DEF Peers
  <2>2. TunTypeOK'
    BY <1>2, <2>1 DEF TunInv, TunTypeOK, Nodes, Dirs, Conns, Peers, DataFrames
  <2>3. Clean("down") => app.got = Numbered(backend.sent) /\ backend.closed
    BY <1>1, <1>4, AtEofComplete, Zenon
  <2>4. EofMeansComplete'
    BY <1>2, <2>1, <2>3, SMTT(30) DEF TunInv, EofMeansComplete, Numbered, Data, Clean
  <2>5. \A e \in Dirs : /\ (Sender(e).sent)' = Sender(e).sent /\ Got(e)' = Got(e)
                        /\ (Sender(e).closed)' = Sender(e).closed
    BY <1>2, <2>1 DEF Dirs, Sender, Got
  <2> QED BY <1>2, <1>4, <2>2, <2>4, <2>5, EndKeeps, SMTT(30)
<1>5. CASE app' = [app EXCEPT !.end = "err"] /\ UNCHANGED stream
  <2>1. /\ app' \in Peers /\ app'.sent = app.sent /\ app'.got = app.got
        /\ app'.closed = app.closed /\ app'.end = "err"
    BY <1>1, <1>5, SMTT(30) DEF Peers
  <2>2. TunTypeOK'
    BY <1>2, <2>1, SMTT(30) DEF TunInv, TunTypeOK, Nodes, Dirs, Conns, Peers, DataFrames
  <2>3. EofMeansComplete'
    BY <1>2, <2>1, Zenon DEF TunInv, EofMeansComplete, Numbered, Data
  <2>4. \A e \in Dirs : /\ (Sender(e).sent)' = Sender(e).sent /\ Got(e)' = Got(e)
                        /\ (Sender(e).closed)' = Sender(e).closed
    BY <1>2, <2>1 DEF Dirs, Sender, Got
  <2> QED BY <1>2, <1>5, <2>2, <2>3, <2>4, EndKeeps, SMTT(30)
<1> QED BY <1>3, <1>4, <1>5, Zenon DEF AppReceives, Receive

LEMMA BackendReceivesKeeps ==
    ASSUME TunInv, BackendReceives
    PROVE  TunInv'
<1> DEFINE s == stream[(Relays + 1)]["up"]
<1>1. /\ "up" \in Dirs /\ Dst("up") = (Relays + 1) /\ (Relays + 1) \in Conns
      /\ Got("up") = backend.got /\ Got("up")' = backend'.got /\ backend \in Peers
      /\ Sender("up") = app /\ s.wire \in Seq(DataFrames)
  <2>1. "up" \in Dirs /\ Dst("up") = (Relays + 1) /\ backend \in Peers
    BY DEF Dirs, Dst, TunInv, TunTypeOK
  <2>2. (Relays + 1) \in Conns /\ Allowed((Relays + 1), "up") = DataFrames
    BY <2>1, EndsAreRaw, Zenon
  <2>3. s.wire \in Seq(DataFrames)
    BY <2>1, <2>2, Zenon DEF TunInv, StreamsOK, HopStreams
  <2> QED BY <2>1, <2>2, <2>3, Zenon DEF Got, Sender
<1>2. app' = app /\ UNCHANGED <<node, pump, broken, chaffs, faults>> /\ backend.end = "none"
  BY DEF BackendReceives, Receive
<1>3. CASE /\ backend' = [backend EXCEPT !.got = @ \o s.wire]
           /\ stream' = [stream EXCEPT ![(Relays + 1)]["up"].wire = <<>>]
  <2>1. PICK g \in Seq(DataFrames) : g = backend.got \o s.wire
    BY <1>1, PeerGot, Zenon
  <2>2. backend' = [backend EXCEPT !.got = g]
    BY <1>3, <2>1, Zenon
  <2>3. /\ backend' \in Peers /\ backend'.sent = backend.sent /\ backend'.got = g
        /\ backend'.closed = backend.closed /\ backend'.end = backend.end
    <3>1. backend \in Peers /\ g \in Seq(DataFrames)
      BY <1>1, <2>1, SMTT(30)
    <3> QED BY <2>2, <3>1, Zenon DEF Peers
  <2>4. TunTypeOK'
    BY <1>2, <2>3, SMTT(30) DEF TunInv, TunTypeOK, Nodes, Dirs, Conns, Peers, DataFrames
  <2>5. EofMeansComplete'
    BY <1>2, <2>3 DEF TunInv, EofMeansComplete, Numbered, Data
  <2>6. Got("up")' = Got("up") \o stream[Dst("up")]["up"].wire
    BY <1>1, <2>1, <2>3, Zenon
  <2>7. stream' = [stream EXCEPT ![Dst("up")]["up"].wire = <<>>]
    BY <1>1, <1>3, Zenon
  <2>8. \A e \in Dirs : /\ (Sender(e).sent)' = Sender(e).sent
                        /\ (Sender(e).closed)' = Sender(e).closed
                        /\ e # "up" => Got(e)' = Got(e)
    BY <1>2, <2>3 DEF Dirs, Sender, Got
  <2> QED BY <1>1, <1>2, <2>4, <2>5, <2>6, <2>7, <2>8, TakeKeeps, Zenon
<1>4. CASE AtEof((Relays + 1), "up") /\ backend' = [backend EXCEPT !.end = "eof"] /\ UNCHANGED stream
  <2>1. /\ backend' \in Peers /\ backend'.sent = backend.sent /\ backend'.got = backend.got
        /\ backend'.closed = backend.closed /\ backend'.end = "eof"
    BY <1>1, <1>4, Zenon DEF Peers
  <2>2. TunTypeOK'
    BY <1>2, <2>1 DEF TunInv, TunTypeOK, Nodes, Dirs, Conns, Peers, DataFrames
  <2>3. Clean("up") => backend.got = Numbered(app.sent) /\ app.closed
    BY <1>1, <1>4, AtEofComplete, Zenon
  <2>4. EofMeansComplete'
    BY <1>2, <2>1, <2>3, SMTT(30) DEF TunInv, EofMeansComplete, Numbered, Data, Clean
  <2>5. \A e \in Dirs : /\ (Sender(e).sent)' = Sender(e).sent /\ Got(e)' = Got(e)
                        /\ (Sender(e).closed)' = Sender(e).closed
    BY <1>2, <2>1, SMTT(30) DEF Dirs, Sender, Got
  <2> QED BY <1>2, <1>4, <2>2, <2>4, <2>5, EndKeeps, SMTT(30)
<1>5. CASE backend' = [backend EXCEPT !.end = "err"] /\ UNCHANGED stream
  <2>1. /\ backend' \in Peers /\ backend'.sent = backend.sent /\ backend'.got = backend.got
        /\ backend'.closed = backend.closed /\ backend'.end = "err"
    BY <1>1, <1>5, SMTT(30) DEF Peers
  <2>2. TunTypeOK'
    BY <1>2, <2>1, SMTT(30) DEF TunInv, TunTypeOK, Nodes, Dirs, Conns, Peers, DataFrames
  <2>3. EofMeansComplete'
    BY <1>2, <2>1, SMTT(30) DEF TunInv, EofMeansComplete, Numbered, Data
  <2>4. \A e \in Dirs : /\ (Sender(e).sent)' = Sender(e).sent /\ Got(e)' = Got(e)
                        /\ (Sender(e).closed)' = Sender(e).closed
    BY <1>2, <2>1, Zenon DEF Dirs, Sender, Got
  <2> QED BY <1>2, <1>5, <2>2, <2>3, <2>4, EndKeeps, Zenon
<1> QED BY <1>3, <1>4, <1>5, Zenon DEF BackendReceives, Receive

-----------------------------------------------------------------------------
(* The theorems.                                                           *)

\* The tunnel starts with the client's AUTH on the first connection and nothing else.
LEMMA TunInitOK == TunInit => TunInv
<1> SUFFICES ASSUME TunInit PROVE TunInv
  BY Zenon
<1>0. /\ Relays \in Nat /\ Relays >= 1 /\ 0 \in Nodes /\ 1 \in Nodes /\ 1 \in Conns
      /\ "up" \in Dirs /\ "down" \in Dirs /\ broken = {} /\ faults = 0
  BY TunnelAssumption DEF TunInit, Nodes, Conns, Dirs
<1>1. TunTypeOK
  <2>1. NewPeer \in Peers
    BY DEF NewPeer, Peers
  <2>2. node \in [Nodes -> {"idle", "gate", "run", "ended"}]
    BY Zenon DEF TunInit
  <2> QED BY <2>1, <2>2, SMTT(30) DEF TunTypeOK, TunInit
<1> DEFINE w == <<Auth(0)>>
           s(j, d) == IF j = 1 /\ d = "up" THEN w ELSE <<>>
<1>2. ASSUME NEW j \in Conns, NEW d \in Dirs
      PROVE  /\ stream[j][d] = [buf |-> <<>>, wire |-> s(j, d), fin |-> FALSE]
             /\ stream[j][d].wire = s(j, d) /\ ~stream[j][d].fin
  <2>1. stream[j][d] = [buf |-> <<>>, wire |-> s(j, d), fin |-> FALSE]
    BY DEF TunInit, NewStream
  <2> HIDE DEF s
  <2> QED BY <2>1
<1>3. Auth(0) \in OwnFrames /\ Auth(0).id = 0 /\ 0 = 1 - 1 /\ 1 \in 1..Relays
  BY <1>0 DEF Auth, OwnFrames
<1>4. StreamsOK
  <2>1. stream = [j \in Conns |-> [d \in Dirs |-> stream[j][d]]]
    BY Zenon DEF TunInit
  <2>2. ASSUME NEW j \in Conns, NEW d \in Dirs PROVE stream[j][d] \in HopStreams(j, d)
    <3>1. j = 1 /\ d = "up" => Auth(0) \in Allowed(j, d)
      BY <1>3, Zenon DEF Allowed, OwnOn
    <3>2. s(j, d) \in Seq(Allowed(j, d)) /\ <<>> \in Seq(OwnOn(j, d))
      BY <3>1, SMTT(30)
    <3> HIDE DEF s
    <3>3. [buf |-> <<>>, wire |-> s(j, d), fin |-> FALSE] \in HopStreams(j, d)
      BY <3>2 DEF HopStreams
    <3> QED BY <1>2, <3>3
  <2> QED BY <2>1, <2>2 DEF StreamsOK
<1>5. GateOrder
  <2> SUFFICES ASSUME NEW i \in 1..Relays
               PROVE  /\ node[i - 1] \in {"idle", "gate"} => node[i] = "idle"
                      /\ node[i - 1] = "run" => node[i] # "idle"
                      /\ node[i] = "idle" => stream[i]["up"].wire = <<>> /\ stream[i]["up"].buf = <<>>
                      /\ node[i] = "gate" => stream[i]["up"].wire # <<>> /\ stream[i]["up"].wire[1] \in OwnFrames
    BY Zenon DEF GateOrder
  <2>1. /\ i \in Nodes /\ i - 1 \in Nodes /\ i \in Conns /\ i # 0
    BY <1>0 DEF Nodes, Conns
  <2>2. /\ node[i] = (IF i = 1 THEN "gate" ELSE "idle")
        /\ node[i - 1] = (IF i = 1 THEN "run" ELSE IF i = 2 THEN "gate" ELSE "idle")
    BY <2>1, SMTT(30) DEF TunInit
  <2>3. /\ stream[i]["up"].buf = <<>>
        /\ stream[i]["up"].wire = (IF i = 1 THEN w ELSE <<>>)
    <3>1. stream[i]["up"] = [buf |-> <<>>, wire |-> s(i, "up"), fin |-> FALSE]
      BY <1>0, <1>2, <2>1
    <3> HIDE DEF w
    <3> QED BY <3>1, SMTT(30)
  <2> QED BY <1>3, <2>2, <2>3, SMTT(30)
<1>6. FinFollowsEnd
  <2>1. ASSUME NEW j \in Conns, NEW d \in Dirs PROVE ~stream[j][d].fin
    <3> HIDE DEF s
    <3> QED BY <1>2, Zenon
  <2> QED BY <2>1, Zenon DEF FinFollowsEnd
<1>7. \A i \in Nodes, d \in Dirs : pump[i][d] = "run"
  BY Zenon DEF TunInit
<1>8. EndsInOrder
  BY <1>0, <1>7 DEF EndsInOrder
<1>9. Flows
  <2> SUFFICES ASSUME NEW d \in Dirs PROVE Flow(d)
    BY Zenon DEF Flows
  <2>1. Sender(d).sent = 0 /\ Got(d) = <<>>
    BY DEF Sender, Got, TunInit, NewPeer
  <2>2. PICK z \in [Conns -> 0..Sender(d).sent] : \A j \in Conns : z[j] = 0
    <3> DEFINE o == [j \in Conns |-> 0]
    <3>1. o \in [Conns -> 0..Sender(d).sent] /\ \A j \in Conns : o[j] = 0
      BY <2>1
    <3> HIDE DEF o
    <3> QED BY <3>1, Zenon
  <2>3. Run(0, 0) = <<>> /\ Numbered(0) = <<>>
    BY DEF Run, Numbered
  <2>4. ASSUME NEW j \in Conns PROVE Payload(j, d) = <<>>
    <3>1. OwnFrames \cap DataFrames = {}
      BY Zenon DEF OwnFrames, DataFrames
    <3>2. s(j, d) \in Seq(OwnFrames)
      BY <1>3
    <3>3. stream[j][d].wire = s(j, d)
      <4> HIDE DEF s
      <4> QED BY <1>2, Zenon
    <3>4. \A v \in Seq(OwnFrames) : Only(v, DataFrames) = <<>>
      BY <3>1, OnlyNone, Zenon
    <3> HIDE DEF s
    <3> QED BY <3>2, <3>3, <3>4 DEF Payload
  <2>5. \A i \in Nodes : In(i, d) \in Conns /\ Out(i, d) \in Conns
    BY InOut
  <2>6. Src(d) \in Conns /\ Dst(d) \in Conns
    BY EndsAreRaw, SMTT(30)
  <2>7. FlowOK(d, z, z)
    <3>1. 0 <= 0 /\ "run" # "done"
      OBVIOUS
    <3>2. \A j \in Conns : z[j] <= z[j] /\ Payload(j, d) = Run(z[j], z[j])
      BY <2>2, <2>3, <2>4, <3>1, Zenon
    <3>3. \A i \in Nodes : z[Out(i, d)] = z[In(i, d)] /\ pump[i][d] # "done"
      BY <1>7, <2>2, <2>5, <3>1, Zenon
    <3>4. z[Src(d)] = Sender(d).sent /\ Got(d) = Numbered(z[Dst(d)])
      BY <2>1, <2>2, <2>3, <2>6, Zenon
    <3> QED BY <3>2, <3>3, <3>4, Zenon DEF FlowOK
  <2> QED BY <2>2, <2>7 DEF Flow
<1>10. EofMeansComplete
  BY DEF EofMeansComplete, TunInit, NewPeer
<1> QED BY <1>1, <1>4, <1>5, <1>6, <1>8, <1>9, <1>10, SMTT(30) DEF TunInv

\* Every step of a node, a link or a peer keeps the invariant.
LEMMA TunStep ==
    ASSUME TunInv, [TunNext]_tunVars
    PROVE  TunInv'
<1>1. ASSUME NEW i \in Nodes, Steps(i) \/ IdleChaff(i) PROVE TunInv'
  BY <1>1, PumpKeeps, PumpEofKeeps, PumpErrKeeps, NodeEndsKeeps, ChaffKeeps, Zenon DEF Steps
<1>2. ASSUME NEW i \in Nodes \ {0}, Gates(i) PROVE TunInv'
  BY <1>2, GateKeeps, GateFailKeeps, Zenon DEF Gates
<1>3. ASSUME NEW j \in 1..Relays, NEW d \in Dirs, Spill(j, d) PROVE TunInv'
  BY <1>3, SpillKeeps, Zenon
<1>4. ASSUME NEW j \in Conns, LinkBreaks(j) PROVE TunInv'
  BY <1>4, LinkKeeps, Zenon
<1>5. CASE \/ CancelFerry \/ AppWrites \/ AppCloses \/ AppReceives
           \/ BackendWrites \/ BackendCloses \/ BackendReceives
  BY <1>5, CancelKeeps, AppWritesKeeps, AppClosesKeeps, AppReceivesKeeps,
     BackendWritesKeeps, BackendClosesKeeps, BackendReceivesKeeps, Zenon
<1>6. CASE UNCHANGED tunVars
  <2>1. /\ UNCHANGED <<node, pump, stream, broken, chaffs, faults>> /\ app' = app /\ backend' = backend
    BY <1>6, SMTT(30) DEF tunVars
  <2>2. TunTypeOK'
    BY <2>1, SMTT(30) DEF TunInv, TunTypeOK, Nodes, Dirs, Conns, Peers, DataFrames
  <2>3. EofMeansComplete'
    BY <2>1, Zenon DEF TunInv, EofMeansComplete, Numbered, Data
  <2>4. \A e \in Dirs : /\ (Sender(e).sent)' = Sender(e).sent /\ Got(e)' = Got(e)
                        /\ (Sender(e).closed)' = Sender(e).closed
    BY <2>1 DEF Sender, Got
  <2> QED BY <2>1, <2>2, <2>3, <2>4, EndKeeps, Zenon
<1> QED BY <1>1, <1>2, <1>3, <1>4, <1>5, <1>6, Zenon DEF TunNext

\* The inductive invariant holds throughout a tunnel's life.
THEOREM TunnelInvariant == TunSpec => []TunInv
<1>1. TunInit => TunInv
  BY TunInitOK, Zenon
<1>2. TunInv /\ [TunNext]_tunVars => TunInv'
  BY TunStep
<1> QED BY <1>1, <1>2, PTL DEF TunSpec

\* AUTH and CHAFF frames stay on the connection their writer put them on, through the
\* decoding and re-framing of every relay (pump_up, pump_down, chaff frames of run_ferry).
THEOREM HopIsolationHolds == TunSpec => []HopIsolation
<1>1. ASSUME TunInv PROVE HopIsolation
  <2> SUFFICES ASSUME NEW j \in Conns, NEW d \in Dirs,
                      NEW f \in Range(stream[j][d].wire) \cup Range(stream[j][d].buf),
                      f.type # "data"
               PROVE  j \in 1..Relays /\ f.id = (IF d = "up" THEN j - 1 ELSE j)
    BY DEF HopIsolation
  <2>1. /\ stream[j][d].wire \in Seq(Allowed(j, d)) /\ stream[j][d].buf \in Seq(OwnOn(j, d))
    BY <1>1, SMTT(30) DEF TunInv, StreamsOK, HopStreams
  <2>2. f \in Allowed(j, d)
    BY <2>1 DEF Range, Allowed
  <2>3. f \notin DataFrames
    BY SMTT(30) DEF DataFrames
  <2> QED BY <2>2, <2>3, Zenon DEF Allowed, OwnOn
<1> QED BY <1>1, TunnelInvariant, PTL

\* Whatever breaks, an end has received a prefix of what the other end sent: the ferry loops
\* lose, repeat and reorder nothing before the point of the break.
THEOREM DeliveredIsPrefixHolds == TunSpec => []DeliveredIsPrefix
<1>1. ASSUME TunInv PROVE DeliveredIsPrefix
  <2>1. ASSUME NEW d \in Dirs PROVE \E n \in 0..Sender(d).sent : Got(d) = Numbered(n)
    <3>1. PICK lo \in [Conns -> 0..Sender(d).sent], hi \in [Conns -> 0..Sender(d).sent] : FlowOK(d, lo, hi)
      BY <1>1, SMTT(30) DEF TunInv, Flows, Flow
    <3>2. Dst(d) \in Conns
      BY EndsAreRaw, Zenon
    <3> QED BY <3>1, <3>2, Zenon DEF FlowOK
  <2>2. "up" \in Dirs /\ "down" \in Dirs
    BY DEF Dirs
  <2> QED BY <2>1, <2>2, Zenon DEF DeliveredIsPrefix, Sender, Got
<1> QED BY <1>1, TunnelInvariant, PTL

\* EOF means completeness: an application that sees EOF, when no connection broke by itself
\* and no ferry was cancelled, has the whole response (run_ferry's asymmetric half-close).
THEOREM EofMeansCompleteHolds == TunSpec => []EofMeansComplete
<1>1. TunInv => EofMeansComplete
  BY Zenon DEF TunInv
<1> QED BY <1>1, TunnelInvariant, PTL
=============================================================================
