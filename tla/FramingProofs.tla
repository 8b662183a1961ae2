---------------------------- MODULE FramingProofs ----------------------------
(***************************************************************************)
(* The frame codec, for every base, length limit and stream.               *)
(*                                                                         *)
(* Its recursions are shown to have the solution their CHOOSE takes, which *)
(* gives what encode_varint writes and what Value reads.  From that: every *)
(* buffer is incomplete, malformed, or begins with one header and its      *)
(* payload; a frame as the encoder writes it is read back whatever         *)
(* follows, and any part of it is incomplete.  The invariant of the reader *)
(* then says that what it has decoded, holds and awaits is the stream.     *)
(***************************************************************************)
EXTENDS Framing, WellFoundedInduction, TLAPS

-----------------------------------------------------------------------------
(* Induction, for sets: the library's rules quantify over an operator,     *)
(* which the provers cannot instantiate.                                   *)

\* A set of natural numbers that is not empty has a least element.
LEMMA LeastNat ==
    ASSUME NEW T \in SUBSET Nat, T # {}
    PROVE  \E m \in T : \A k \in T : m <= k
<1> DEFINE R == {p \in Nat \X Nat : p[1] < p[2]}
<1>1. IsWellFoundedOn(R, Nat)
    BY NatLessThanWellFounded, Zenon DEF OpToRel
<1>2. \A k, m \in T : <<k, m>> \in R <=> k < m
    BY Zenon
<1> HIDE DEF R
<1>3. PICK m \in T : \A k \in T : ~ (<<k, m>> \in R)
    BY <1>1, WFMin, Zenon
<1>4. \A k \in T : ~ (k < m)
    BY <1>2, <1>3, Zenon
<1>5. \A k \in T : m <= k
    BY <1>4
<1> QED
    BY <1>5, Zenon

\* Induction over the natural numbers, for the members of a set.
LEMMA Induction ==
    ASSUME NEW T, 0 \in T, \A n \in Nat : n \in T => n + 1 \in T
    PROVE  \A n \in Nat : n \in T
<1> SUFFICES ASSUME Nat \ T # {} PROVE FALSE
    BY Zenon
<1>1. PICK m \in Nat \ T : \A k \in Nat \ T : m <= k
    BY LeastNat, Zenon
<1>2. m # 0 /\ m - 1 \in Nat
    BY <1>1
<1>3. m - 1 \in T
    BY <1>1, <1>2
<1> QED
    BY <1>1, <1>2, <1>3

\* Sequences of one length with the same elements.
LEMMA SameSeq ==
    ASSUME NEW X, NEW s \in Seq(X), NEW t \in Seq(X), Len(s) = Len(t),
           \A i \in 1..Len(s) : s[i] = t[i]
    PROVE  s = t
    OBVIOUS


-----------------------------------------------------------------------------
(* Numbers.                                                                *)

\* A set that holds n as soon as it holds every smaller number holds all of them.
LEMMA StrongInduction ==
    ASSUME NEW T, \A n \in Nat : (\A m \in Nat : m < n => m \in T) => n \in T
    PROVE  \A n \in Nat : n \in T
<1> SUFFICES ASSUME Nat \ T # {} PROVE FALSE
  BY Zenon
<1>1. PICK n \in Nat \ T : \A k \in Nat \ T : n <= k
  BY LeastNat, Zenon
<1>2. \A m \in Nat : m < n => m \in T
  BY <1>1
<1> QED BY <1>1, <1>2, Zenon

LEMMA BaseIsNat == Base \in Nat /\ Base > 1
BY FramingAssumption, Zenon

\* A digit put below a number is its remainder, and the number its quotient.
LEMMA OneMoreDigit ==
    ASSUME NEW v \in Nat, NEW d \in 0..Base - 1
    PROVE  /\ d + Base * v \in Nat /\ (d + Base * v) % Base = d
           /\ (d + Base * v) \div Base = v /\ (v >= 1 => d + Base * v >= Base)
<1>1. d + Base * v \in Nat /\ (d + Base * v) % Base = d
  BY BaseIsNat
<1>2. (d + Base * v) \div Base = v
  BY BaseIsNat
<1>3. v >= 1 => d + Base * v >= Base
  BY BaseIsNat
<1> QED BY <1>1, <1>2, <1>3, Zenon

\* A number of more than one digit has a smaller quotient, and is made of it and its lowest digit.
LEMMA OneDigitLess ==
    ASSUME NEW v \in Nat, v >= Base
    PROVE  /\ v \div Base \in Nat /\ v \div Base < v /\ v \div Base >= 1
           /\ v % Base \in 0..Base - 1 /\ v = (v % Base) + Base * (v \div Base)
<1>1. v \div Base \in Nat /\ v % Base \in 0..Base - 1 /\ v = (v % Base) + Base * (v \div Base)
  BY BaseIsNat
<1>2. v \div Base < v /\ v \div Base >= 1
  BY BaseIsNat
<1> QED BY <1>1, <1>2, Zenon

\* The digit of a byte, with and without the continuation bit.
LEMMA DigitOf ==
    ASSUME NEW b \in Byte
    PROVE  /\ b \in Nat /\ Digit(b) \in 0..Base - 1 /\ Digit(b) \in Nat
           /\ b < Base => Digit(b) = b
           /\ b >= Base => Digit(b) = b - Base
BY BaseIsNat DEF Byte, Digit

\* A sequence with one element put before it.
LEMMA ConsFacts ==
    ASSUME NEW X, NEW s \in Seq(X), NEW b \in X
    PROVE  /\ <<b>> \o s \in Seq(X) /\ Len(s) \in Nat /\ Len(<<b>> \o s) = Len(s) + 1
           /\ (<<b>> \o s)[1] = b /\ \A i \in 1..Len(s) : (<<b>> \o s)[i + 1] = s[i]
<1>1. <<b>> \o s \in Seq(X) /\ Len(s) \in Nat /\ Len(<<b>> \o s) = Len(s) + 1
  OBVIOUS
<1>2. (<<b>> \o s)[1] = b /\ \A i \in 1..Len(s) : (<<b>> \o s)[i + 1] = s[i]
  OBVIOUS
<1> QED BY <1>1, <1>2, Zenon

-----------------------------------------------------------------------------
(* The value of a list of digits.                                          *)

\* g is the function that Value(s) computes, up to n.
ValueRec(s, n, g) == g = [k \in 0..n |->
    IF k = 0 THEN 0 ELSE Digit(s[Len(s) + 1 - k]) + Base * g[k - 1]]

\* The recursion of Value has a solution.
LEMMA ValueExists ==
    ASSUME NEW s PROVE \A n \in Nat : \E g : ValueRec(s, n, g)
<1> DEFINE T == {n \in Nat : \E g : ValueRec(s, n, g)}
<1>1. 0 \in T
  <2>1. ValueRec(s, 0, [k \in 0..0 |-> 0])
    BY DEF ValueRec
  <2> QED BY <2>1, Zenon
<1>2. ASSUME NEW n \in Nat, n \in T PROVE n + 1 \in T
  <2>1. PICK g : ValueRec(s, n, g)
    BY <1>2, Zenon
  <2>2. PICK last : last = Digit(s[Len(s) + 1 - (n + 1)]) + Base * g[n]
    BY Zenon
  <2> DEFINE h == [k \in 0..n + 1 |-> IF k <= n THEN g[k] ELSE last]
  <2>3. \A k \in 0..n : g[k] = IF k = 0 THEN 0 ELSE Digit(s[Len(s) + 1 - k]) + Base * g[k - 1]
    BY <2>1, Zenon DEF ValueRec
  <2>4. /\ \A k \in 0..n : h[k] = g[k]
        /\ h[n + 1] = last
    OBVIOUS
  <2>5. h = [k \in 0..n + 1 |-> h[k]]
    BY Zenon
  <2> HIDE DEF h
  <2>6. ASSUME NEW k \in 0..n + 1
        PROVE  h[k] = IF k = 0 THEN 0 ELSE Digit(s[Len(s) + 1 - k]) + Base * h[k - 1]
    <3>1. CASE k = n + 1
      <4>1. k # 0 /\ k - 1 = n /\ n \in 0..n
        BY <3>1
      <4> QED BY <2>2, <2>4, <3>1, <4>1, Zenon
    <3>2. CASE k # n + 1
      <4>1. k \in 0..n /\ (k # 0 => k - 1 \in 0..n)
        BY <3>2
      <4> QED BY <2>3, <2>4, <4>1, Zenon
    <3> QED BY <3>1, <3>2, Zenon
  <2>7. ValueRec(s, n + 1, h)
    BY <2>5, <2>6, Zenon DEF ValueRec
  <2> QED BY <2>7
<1> HIDE DEF T
<1>3. \A n \in Nat : n \in T
  BY <1>1, <1>2, Induction, Zenon
<1> QED BY <1>3, Zenon DEF T

\* Value takes it.
LEMMA ValueIs ==
    ASSUME NEW s, Len(s) \in Nat
    PROVE  \E g : ValueRec(s, Len(s), g) /\ Value(s) = g[Len(s)]
<1> DEFINE v == CHOOSE g : ValueRec(s, Len(s), g)
<1>1. Value(s) = v[Len(s)]
  BY Zenon DEF Value, ValueRec
<1>2. ValueRec(s, Len(s), v)
  BY ValueExists, Zenon
<1> QED BY <1>1, <1>2, Zenon

\* The lowest digit.
LEMMA ValueOfCons ==
    ASSUME NEW s \in Seq(Byte), NEW b \in Byte
    PROVE  Value(<<b>> \o s) = Digit(b) + Base * Value(s)
<1>1. PICK t \in Seq(Byte), n \in Nat :
         /\ t = <<b>> \o s /\ n = Len(s) /\ Len(t) = n + 1
         /\ t[1] = b /\ \A k \in 1..n : t[(n + 1) + 1 - k] = s[n + 1 - k]
  <2>1. PICK t \in Seq(Byte), n \in Nat : t = <<b>> \o s /\ n = Len(s)
    BY ConsFacts, Zenon
  <2>2. Len(t) = n + 1 /\ t[1] = b /\ \A i \in 1..n : t[i + 1] = s[i]
    BY <2>1
  <2>3. ASSUME NEW k \in 1..n PROVE t[(n + 1) + 1 - k] = s[n + 1 - k]
    <3>1. n + 1 - k \in 1..n /\ (n + 1) + 1 - k = (n + 1 - k) + 1
      OBVIOUS
    <3> QED BY <2>2, <3>1, Zenon
  <2> QED BY <2>1, <2>2, <2>3, Zenon
<1>2. PICK g : ValueRec(s, n, g) /\ Value(s) = g[n]
  BY <1>1, ValueIs, Zenon
<1>3. PICK h : ValueRec(t, n + 1, h) /\ Value(t) = h[n + 1]
  <2>1. n + 1 \in Nat /\ Len(t) = n + 1
    BY <1>1
  <2> QED BY <2>1, ValueIs, Zenon
<1>4. \A k \in 0..n : g[k] = IF k = 0 THEN 0 ELSE Digit(s[n + 1 - k]) + Base * g[k - 1]
  BY <1>1, <1>2, Zenon DEF ValueRec
<1>5. \A k \in 0..n + 1 : h[k] = IF k = 0 THEN 0 ELSE Digit(t[(n + 1) + 1 - k]) + Base * h[k - 1]
  BY <1>1, <1>3, Zenon DEF ValueRec
<1> DEFINE T == {k \in Nat : k \in 0..n => h[k] = g[k]}
<1>6. 0 \in T
  BY <1>4, <1>5
<1>7. ASSUME NEW k \in Nat, k \in T PROVE k + 1 \in T
  <2> SUFFICES ASSUME k + 1 \in 0..n PROVE h[k + 1] = g[k + 1]
    OBVIOUS
  <2>1. k \in 0..n /\ k + 1 \in 0..n + 1 /\ k + 1 # 0 /\ (k + 1) - 1 = k /\ k + 1 \in 1..n
    OBVIOUS
  <2>2. h[k] = g[k]
    BY <1>7, <2>1, Zenon
  <2>3. t[(n + 1) + 1 - (k + 1)] = s[n + 1 - (k + 1)]
    BY <1>1, <2>1, Zenon
  <2>4. h[k + 1] = Digit(t[(n + 1) + 1 - (k + 1)]) + Base * h[k]
    BY <1>5, <2>1, Zenon
  <2>5. g[k + 1] = Digit(s[n + 1 - (k + 1)]) + Base * g[k]
    BY <1>4, <2>1, Zenon
  <2> QED BY <2>2, <2>3, <2>4, <2>5, Zenon
<1>8. \A k \in Nat : k \in T
  <2> HIDE DEF T
  <2> QED BY <1>6, <1>7, Induction, Zenon
<1>9. h[n] = g[n]
  BY <1>8
<1>10. h[n + 1] = Digit(b) + Base * h[n]
  <2>1. n + 1 \in 0..n + 1 /\ n + 1 # 0 /\ (n + 1) - 1 = n /\ (n + 1) + 1 - (n + 1) = 1
    OBVIOUS
  <2> QED BY <1>1, <1>5, <2>1, Zenon
<1> QED BY <1>1, <1>2, <1>3, <1>9, <1>10, Zenon

\* Of a single byte.
LEMMA ValueOfOne == ASSUME NEW b \in Byte PROVE Value(<<b>>) = Digit(b)
<1>1. PICK g : ValueRec(<<b>>, 1, g) /\ Value(<<b>>) = g[1]
  <2>1. Len(<<b>>) = 1
    BY Zenon
  <2> QED BY <2>1, ValueIs, Zenon
<1>2. g[0] = 0 /\ g[1] = Digit(<<b>>[1]) + Base * g[0]
  BY <1>1 DEF ValueRec
<1>3. g[1] = Digit(b)
  BY <1>2, BaseIsNat, DigitOf
<1> QED BY <1>1, <1>3, Zenon

-----------------------------------------------------------------------------
(* The encoding of a number.                                               *)

\* The value of the recursion at v, and g is the function EncodeVarint up to n.
EncodeStep(g, v) == IF v < Base THEN <<v>> ELSE <<(v % Base) + Base>> \o g[v \div Base]
EncodeRec(n, g) == g = [v \in 0..n |-> EncodeStep(g, v)]

\* The recursion only looks at smaller numbers.
LEMMA EncodeSame ==
    ASSUME NEW g, NEW h, NEW v \in Nat, \A m \in Nat : m < v => g[m] = h[m]
    PROVE  EncodeStep(g, v) = EncodeStep(h, v)
<1>1. CASE v < Base
  BY <1>1, Zenon DEF EncodeStep
<1>2. CASE ~(v < Base)
  <2>1. v \div Base \in Nat /\ v \div Base < v
    BY <1>2, OneDigitLess, BaseIsNat
  <2> QED BY <2>1, Zenon DEF EncodeStep
<1> QED BY <1>1, <1>2, Zenon

\* The recursion of EncodeVarint has a solution up to every n,
LEMMA EncodeExists == \A n \in Nat : \E g : EncodeRec(n, g)
<1> DEFINE T == {n \in Nat : \E g : EncodeRec(n, g)}
<1>1. 0 \in T
  <2> DEFINE g == [v \in 0..0 |-> <<v>>]
  <2>1. \A v \in 0..0 : g[v] = EncodeStep(g, v)
    BY BaseIsNat DEF EncodeStep
  <2>2. g = [v \in 0..0 |-> g[v]]
    BY Zenon
  <2> HIDE DEF g
  <2>3. EncodeRec(0, g)
    BY <2>1, <2>2, Zenon DEF EncodeRec
  <2> QED BY <2>3, Zenon
<1>2. ASSUME NEW n \in Nat, n \in T PROVE n + 1 \in T
  <2>1. PICK g : EncodeRec(n, g)
    BY <1>2, Zenon
  <2>2. PICK last : last = EncodeStep(g, n + 1)
    BY Zenon
  <2> DEFINE h == [v \in 0..n + 1 |-> IF v <= n THEN g[v] ELSE last]
  <2>3. \A v \in 0..n : g[v] = EncodeStep(g, v)
    BY <2>1, Zenon DEF EncodeRec
  <2>4. /\ \A v \in 0..n : h[v] = g[v]
        /\ h[n + 1] = last /\ h = [v \in 0..n + 1 |-> h[v]]
    OBVIOUS
  <2> HIDE DEF h
  <2>5. ASSUME NEW v \in 0..n + 1 PROVE h[v] = EncodeStep(h, v)
    <3>1. v \in Nat /\ \A m \in Nat : m < v => m \in 0..n
      OBVIOUS
    <3>2. EncodeStep(g, v) = EncodeStep(h, v)
      BY <2>4, <3>1, EncodeSame, Zenon
    <3>3. CASE v = n + 1
      BY <2>2, <2>4, <3>2, <3>3, Zenon
    <3>4. CASE v # n + 1
      <4>1. v \in 0..n
        BY <3>4
      <4> QED BY <2>3, <2>4, <3>2, <4>1, Zenon
    <3> QED BY <3>3, <3>4, Zenon
  <2>6. EncodeRec(n + 1, h)
    BY <2>4, <2>5, Zenon DEF EncodeRec
  <2> QED BY <2>6
<1> HIDE DEF T
<1>3. \A n \in Nat : n \in T
  BY <1>1, <1>2, Induction, Zenon
<1> QED BY <1>3, Zenon DEF T

Agree(g, n, h, m) == \A v \in Nat : v <= n /\ v <= m => g[v] = h[v]

\* and two of them agree where both are defined.
LEMMA EncodeAgrees ==
    ASSUME NEW n \in Nat, NEW m \in Nat, NEW g, NEW h, EncodeRec(n, g), EncodeRec(m, h)
    PROVE  Agree(g, n, h, m)
<1> DEFINE T == {v \in Nat : v <= n /\ v <= m => g[v] = h[v]}
<1>1. /\ \A v \in 0..n : g[v] = EncodeStep(g, v)
      /\ \A v \in 0..m : h[v] = EncodeStep(h, v)
  BY Zenon DEF EncodeRec
<1>2. ASSUME NEW v \in Nat, \A u \in Nat : u < v => u \in T PROVE v \in T
  <2> SUFFICES ASSUME v <= n, v <= m PROVE g[v] = h[v]
    BY Zenon
  <2>1. v \in 0..n /\ v \in 0..m /\ \A u \in Nat : u < v => u <= n /\ u <= m
    OBVIOUS
  <2>2. \A u \in Nat : u < v => g[u] = h[u]
    BY <1>2, <2>1, Zenon
  <2>3. EncodeStep(g, v) = EncodeStep(h, v)
    BY <2>2, EncodeSame, Zenon
  <2> QED BY <1>1, <2>1, <2>3, Zenon
<1> HIDE DEF T
<1>3. \A v \in Nat : v \in T
  BY <1>2, StrongInduction, Zenon
<1>4. Agree(g, n, h, m)
  BY <1>3, Zenon DEF T, Agree
<1> QED BY <1>4, Zenon

\* So EncodeVarint satisfies its recursion.
LEMMA EncodeIs == \A v \in Nat : EncodeVarint[v] = EncodeStep(EncodeVarint, v)
<1> DEFINE F(f) == f = [v \in Nat |-> EncodeStep(f, v)]
           G(n) == CHOOSE g : EncodeRec(n, g)
           e == [v \in Nat |-> G(v)[v]]
<1>1. \A n \in Nat : EncodeRec(n, G(n))
  BY EncodeExists, Zenon
<1>2. \A v \in Nat : e[v] = G(v)[v]
  BY Zenon
<1>3. e = [v \in Nat |-> e[v]]
  OBVIOUS
<1> HIDE DEF e, G
<1>4. ASSUME NEW v \in Nat PROVE e[v] = EncodeStep(e, v)
  <2>1. ASSUME NEW m \in Nat, m < v PROVE G(v)[m] = e[m]
    <3>1. m <= v /\ m <= m
      BY <2>1
    <3>2. EncodeRec(v, G(v)) /\ EncodeRec(m, G(m))
      BY <1>1, Zenon
    <3>3. PICK g, h : g = G(v) /\ h = G(m)
      BY Zenon
    <3>4. g[m] = h[m]
      <4>1. EncodeRec(v, g) /\ EncodeRec(m, h)
        BY <3>2, <3>3, Zenon
      <4>2. Agree(g, v, h, m)
        BY <4>1, EncodeAgrees, Zenon
      <4> QED BY <3>1, <4>2, Zenon DEF Agree
    <3> QED BY <1>2, <3>3, <3>4, Zenon
  <2>2. G(v)[v] = EncodeStep(G(v), v)
    <3>1. v \in 0..v
      OBVIOUS
    <3>2. EncodeRec(v, G(v))
      BY <1>1, Zenon
    <3> QED BY <3>1, <3>2, Zenon DEF EncodeRec
  <2>3. EncodeStep(G(v), v) = EncodeStep(e, v)
    <3>1. PICK g : g = G(v)
      BY Zenon
    <3>2. \A m \in Nat : m < v => g[m] = e[m]
      BY <2>1, <3>1, Zenon
    <3> QED BY <3>1, <3>2, EncodeSame, Zenon
  <2> QED BY <1>2, <2>2, <2>3, Zenon
<1>5. F(e)
  BY <1>3, <1>4, Zenon
<1>6. EncodeVarint = CHOOSE f : F(f)
  BY Zenon DEF EncodeVarint, EncodeStep
<1>7. F(EncodeVarint)
  <2> HIDE DEF F
  <2> QED BY <1>5, <1>6, Zenon
<1>8. EncodeVarint = [v \in Nat |-> EncodeStep(EncodeVarint, v)]
  BY <1>7, Zenon
<1> QED BY <1>8, Zenon

\* One digit.
LEMMA EncodeSmall == ASSUME NEW v \in Nat, v < Base PROVE EncodeVarint[v] = <<v>>
BY EncodeIs, Zenon DEF EncodeStep

\* More than one.
LEMMA EncodeLarge ==
    ASSUME NEW v \in Nat, ~(v < Base)
    PROVE  EncodeVarint[v] = <<(v % Base) + Base>> \o EncodeVarint[v \div Base]
BY EncodeIs, Zenon DEF EncodeStep

\* A whole varint: all bytes but the last have the continuation bit, and no longer one has
\* the same value.
Whole(s) ==
    /\ s \in Seq(Byte) /\ Len(s) >= 1
    /\ s[Len(s)] < Base /\ \A i \in 1..Len(s) - 1 : s[i] >= Base
    /\ Len(s) > 1 => s[Len(s)] # 0

\* A varint of one byte.
LEMMA WholeOne ==
    ASSUME NEW v \in Nat, v < Base PROVE Whole(<<v>>) /\ Value(<<v>>) = v
<1>1. v \in Byte /\ Digit(v) = v
  BY BaseIsNat DEF Byte, Digit
<1>2. Whole(<<v>>)
  BY <1>1 DEF Whole
<1> QED BY <1>1, <1>2, ValueOfOne, Zenon

LEMMA AtMostOne == ASSUME NEW n \in Nat, n >= 1, ~(n > 1) PROVE n = 1
OBVIOUS

\* One byte more in front.
LEMMA WholeMore ==
    ASSUME NEW s, Whole(s), NEW d \in 0..Base - 1, s # << 0 >>
    PROVE  Whole(<<d + Base>> \o s) /\ Value(<<d + Base>> \o s) = d + Base * Value(s)
<1>1. d + Base \in Byte /\ Digit(d + Base) = d
  BY BaseIsNat DEF Byte, Digit
<1>2. PICK b \in Byte : b = d + Base /\ Digit(b) = d /\ b >= Base
  <2>1. d + Base >= Base
    BY BaseIsNat
  <2> QED BY <1>1, <2>1, Zenon
<1>3. s \in Seq(Byte) /\ Len(s) \in Nat /\ Len(s) >= 1
  BY DEF Whole
<1>4. PICK t \in Seq(Byte) : t = <<b>> \o s
  BY <1>2, <1>3, ConsFacts, Zenon
<1>5. Len(t) = Len(s) + 1 /\ t[1] = b /\ \A i \in 1..Len(s) : t[i + 1] = s[i]
  BY <1>3, <1>4
<1>6. t[Len(t)] = s[Len(s)]
  <2>1. Len(s) \in 1..Len(s)
    BY <1>3
  <2> QED BY <1>5, <2>1, Zenon
<1>7. ASSUME NEW i \in 1..Len(t) - 1 PROVE t[i] >= Base
  <2>1. CASE i = 1
    BY <1>2, <1>5, <2>1, Zenon
  <2>2. CASE i # 1
    <3>1. i - 1 \in 1..Len(s) - 1 /\ i - 1 \in 1..Len(s) /\ (i - 1) + 1 = i
      BY <1>3, <1>5, <2>2
    <3>2. t[i] = s[i - 1] /\ s[i - 1] >= Base
      BY <1>5, <3>1, Zenon DEF Whole
    <3> QED BY <3>2, Zenon
  <2> QED BY <2>1, <2>2, Zenon
<1>8. s[Len(s)] # 0
  <2>1. CASE Len(s) > 1
    BY <2>1, Zenon DEF Whole
  <2>2. CASE ~(Len(s) > 1)
    <3>1. Len(s) = 1
      BY <1>3, <2>2, AtMostOne, Zenon
    <3>2. s[1] = 0 => s = <<0>>
      BY <1>3, <3>1
    <3> QED BY <3>1, <3>2, Zenon
  <2> QED BY <2>1, <2>2, Zenon
<1>9. Whole(t)
  <2>1. Len(t) >= 1
    BY <1>3, <1>5
  <2>2. s[Len(s)] < Base
    BY Zenon DEF Whole
  <2> QED BY <1>6, <1>7, <1>8, <2>1, <2>2, Zenon DEF Whole
<1>10. Value(t) = d + Base * Value(s)
  BY <1>2, <1>3, <1>4, ValueOfCons, Zenon
<1> QED BY <1>2, <1>4, <1>9, <1>10, Zenon

\* What is encoded is a whole varint, of the value that was encoded.
LEMMA EncodeIsWhole ==
    \A v \in Nat : Whole(EncodeVarint[v]) /\ Value(EncodeVarint[v]) = v
<1> DEFINE T == {v \in Nat : Whole(EncodeVarint[v]) /\ Value(EncodeVarint[v]) = v}
<1>1. ASSUME NEW v \in Nat, \A m \in Nat : m < v => m \in T PROVE v \in T
  <2> SUFFICES Whole(EncodeVarint[v]) /\ Value(EncodeVarint[v]) = v
    BY Zenon
  <2>1. CASE v < Base
    BY <2>1, EncodeSmall, WholeOne, Zenon
  <2>2. CASE ~(v < Base)
    <3>0. v >= Base
      BY <2>2, BaseIsNat
    <3>1. PICK d \in 0..Base - 1, q \in Nat :
             /\ d = v % Base /\ q = v \div Base /\ q < v /\ q >= 1 /\ v = d + Base * q
      BY <3>0, OneDigitLess, Zenon
    <3>2. PICK s : s = EncodeVarint[q] /\ Whole(s) /\ Value(s) = q
      BY <1>1, <3>1, Zenon
    <3>3. s # <<0>>
      <4>1. 0 \in Nat /\ 0 < Base /\ q # 0
        BY <3>1, BaseIsNat
      <4>2. Value(<<0>>) = 0
        BY <4>1, WholeOne, Zenon
      <4> QED BY <3>2, <4>1, <4>2, Zenon
    <3>4. Whole(<<d + Base>> \o s) /\ Value(<<d + Base>> \o s) = d + Base * q
      BY <3>2, <3>3, WholeMore, Zenon
    <3> QED BY <2>2, <3>1, <3>2, <3>4, EncodeLarge, Zenon
  <2> QED BY <2>1, <2>2, Zenon
<1> HIDE DEF T
<1>2. \A v \in Nat : v \in T
  BY <1>1, StrongInduction, Zenon
<1> QED BY <1>2, Zenon DEF T

\* A whole varint is the encoding of its value: one number has one encoding.
LEMMA WholeIsEncode ==
    \A s \in Seq(Byte) : Whole(s) =>
        /\ Value(s) \in Nat /\ EncodeVarint[Value(s)] = s
        /\ s # <<0>> => Value(s) >= 1
<1> DEFINE P(s) == Whole(s) => /\ Value(s) \in Nat /\ EncodeVarint[Value(s)] = s
                               /\ s # <<0>> => Value(s) >= 1
           T == {n \in Nat : \A s \in Seq(Byte) : Len(s) = n => P(s)}
<1>1. ASSUME NEW n \in Nat, \A m \in Nat : m < n => m \in T PROVE n \in T
  <2> SUFFICES ASSUME NEW s \in Seq(Byte), Len(s) = n, Whole(s)
               PROVE  /\ Value(s) \in Nat /\ EncodeVarint[Value(s)] = s
                      /\ s # <<0>> => Value(s) >= 1
    BY Zenon
  <2>1. n >= 1 /\ s[n] < Base
    BY Zenon DEF Whole
  <2>2. CASE n = 1
    <3>1. PICK b \in Byte : s = <<b>> /\ b < Base
      BY <2>1, <2>2
    <3>2. b \in Nat
      BY DigitOf, Zenon
    <3>3. Value(s) = b /\ EncodeVarint[b] = s
      BY <3>1, <3>2, WholeOne, EncodeSmall, Zenon
    <3>4. s # <<0>> => b >= 1
      BY <3>1, <3>2
    <3> QED BY <3>2, <3>3, <3>4, Zenon
  <2>3. CASE n # 1
    <3>1. PICK b \in Byte, t \in Seq(Byte) :
             /\ s = <<b>> \o t /\ Len(t) = n - 1 /\ s[1] = b
             /\ \A i \in 1..n - 1 : t[i] = s[i + 1]
      <4>1. s[1] \in Byte /\ Tail(s) \in Seq(Byte) /\ Len(Tail(s)) = n - 1
        BY <2>1, <2>3
      <4>2. \A i \in 1..n - 1 : Tail(s)[i] = s[i + 1]
        BY <2>1, <2>3
      <4>3. s = <<s[1]>> \o Tail(s)
        BY <2>1, <2>3
      <4> QED BY <4>1, <4>2, <4>3, Zenon
    <3>2. n - 1 \in Nat /\ n - 1 >= 1 /\ n - 1 < n /\ n > 1
      BY <2>1, <2>3
    <3>3. t[n - 1] = s[n] /\ s[n] # 0
      <4>1. n - 1 \in 1..n - 1 /\ (n - 1) + 1 = n
        BY <3>2
      <4> QED BY <3>1, <3>2, <4>1, Zenon DEF Whole
    <3>4. Whole(t) /\ t # <<0>>
      <4>1. ASSUME NEW i \in 1..Len(t) - 1 PROVE t[i] >= Base
        <5>1. i \in 1..n - 1 /\ i + 1 \in 1..n - 1
          BY <3>1, <3>2
        <5> QED BY <3>1, <5>1, Zenon DEF Whole
      <4>2. t # <<0>>
        <5>1. t = <<0>> => Len(t) = 1 /\ t[1] = 0
          OBVIOUS
        <5> QED BY <3>1, <3>3, <5>1, Zenon
      <4> QED BY <2>1, <3>1, <3>2, <3>3, <4>1, <4>2, Zenon DEF Whole
    <3>5. PICK v \in Nat : v = Value(t) /\ EncodeVarint[v] = t /\ v >= 1
      BY <1>1, <3>1, <3>2, <3>4, Zenon
    <3>6. PICK d \in 0..Base - 1 : d = Digit(b) /\ b = d + Base
      <4>1. b >= Base
        <5>1. 1 \in 1..n - 1
          BY <3>2
        <5> QED BY <3>1, <5>1, Zenon DEF Whole
      <4>2. Digit(b) \in 0..Base - 1 /\ Digit(b) = b - Base /\ b \in Nat
        BY <4>1, DigitOf, Zenon
      <4>3. b = Digit(b) + Base
        BY <4>2, BaseIsNat
      <4> QED BY <4>2, <4>3, Zenon
    <3>7. Value(s) = d + Base * v
      BY <3>1, <3>5, <3>6, ValueOfCons, Zenon
    <3>8. /\ d + Base * v \in Nat /\ (d + Base * v) % Base = d
          /\ (d + Base * v) \div Base = v /\ d + Base * v >= Base
      BY <3>5, OneMoreDigit, Zenon
    <3>9. ~(d + Base * v < Base) /\ d + Base * v >= 1
      BY <3>8, BaseIsNat
    <3>10. EncodeVarint[d + Base * v] = <<d + Base>> \o t
      BY <3>5, <3>8, <3>9, EncodeLarge, Zenon
    <3> QED BY <3>1, <3>6, <3>7, <3>8, <3>9, <3>10, Zenon
  <2> QED BY <2>2, <2>3, Zenon
<1> HIDE DEF T
<1>2. \A n \in Nat : n \in T
  BY <1>1, StrongInduction, Zenon
<1>3. ASSUME NEW s \in Seq(Byte) PROVE P(s)
  <2>1. Len(s) \in Nat
    OBVIOUS
  <2> HIDE DEF P
  <2> QED BY <1>2, <2>1, Zenon DEF T
<1> QED BY <1>3, Zenon

-----------------------------------------------------------------------------
(* Cutting and joining sequences.                                          *)

\* A concatenation, its type and its length.
LEMMA ConcatType ==
    ASSUME NEW X, NEW s \in Seq(X), NEW t \in Seq(X)
    PROVE  s \o t \in Seq(X) /\ Len(s \o t) = Len(s) + Len(t) /\ Len(s) \in Nat /\ Len(t) \in Nat
OBVIOUS

\* Its elements.
LEMMA ConcatAt ==
    ASSUME NEW X, NEW s \in Seq(X), NEW t \in Seq(X)
    PROVE  /\ \A i \in 1..Len(s) : (s \o t)[i] = s[i]
           /\ \A i \in 1..Len(t) : (s \o t)[Len(s) + i] = t[i]
OBVIOUS

Assoc(s, t, u) == (s \o t) \o u = s \o (t \o u)

LEMMA ConcatThree ==
    ASSUME NEW X, NEW s \in Seq(X), NEW t \in Seq(X), NEW u \in Seq(X)
    PROVE  Assoc(s, t, u)
BY DEF Assoc

LEMMA NotEmpty == ASSUME NEW X, NEW s \in Seq(X), s # <<>> PROVE Len(s) \in Nat /\ Len(s) >= 1
OBVIOUS

LEMMA PairIs == ASSUME NEW X, NEW s \in Seq(X), Len(s) = 2 PROVE s[2] \in X /\ s = <<s[1], s[2]>>
<1>1. PICK x \in X, y \in X : x = s[1] /\ y = s[2]
  OBVIOUS
<1>2. <<x, y>> \in Seq(X) /\ Len(<<x, y>>) = 2 /\ <<x, y>>[1] = x /\ <<x, y>>[2] = y
  OBVIOUS
<1>3. \A i \in 1..2 : i = 1 \/ i = 2
  OBVIOUS
<1>4. \A i \in 1..2 : s[i] = <<x, y>>[i]
  BY <1>1, <1>2, <1>3, Zenon
<1>5. s = <<x, y>>
  BY <1>2, <1>4, SameSeq, Zenon
<1> QED BY <1>1, <1>5, Zenon

\* The elements of a part.
LEMMA SubSeqAt ==
    ASSUME NEW X, NEW s \in Seq(X), NEW a \in Nat, NEW m \in Nat, a + m <= Len(s), NEW i \in 1..m
    PROVE  SubSeq(s, a + 1, a + m)[i] = s[a + i]
<1>1. PICK x \in Nat, y \in Nat : x = a + 1 /\ y = a + m /\ x >= 1 /\ y <= Len(s)
  OBVIOUS
<1>2. i \in 1..y - x + 1 /\ x + i - 1 = a + i
  BY <1>1
<1>3. SubSeq(s, x, y)[i] = s[x + i - 1]
  <2>1. \A k \in 1..y - x + 1 : SubSeq(s, x, y)[k] = s[x + k - 1]
    BY <1>1
  <2> QED BY <1>2, <2>1, Zenon
<1> QED BY <1>1, <1>2, <1>3, Zenon

LEMMA ConcatNone ==
    ASSUME NEW X, NEW s \in Seq(X) PROVE s \o <<>> = s /\ <<>> \o s = s
OBVIOUS

\* A part of the first sequence is that part of the concatenation.
LEMMA SubSeqJoined ==
    ASSUME NEW X, NEW r \in Seq(X), NEW x \in Seq(X), NEW m \in Nat, m <= Len(r)
    PROVE  SubSeq(r \o x, 1, m) = SubSeq(r, 1, m)
<1>1. PICK y \in Seq(X) : y = r \o x /\ Len(y) = Len(r) + Len(x) /\ Len(r) \in Nat /\ Len(x) \in Nat
  BY ConcatType, Zenon
<1>2. \A i \in 1..Len(r) : y[i] = r[i]
  BY <1>1, ConcatAt, Zenon
<1>3. m <= Len(y) /\ \A i \in 1..m : i \in 1..Len(r)
  BY <1>1
<1>4. /\ SubSeq(y, 1, m) \in Seq(X) /\ Len(SubSeq(y, 1, m)) = m
      /\ \A i \in 1..m : SubSeq(y, 1, m)[i] = y[i]
  BY <1>3
<1>5. /\ SubSeq(r, 1, m) \in Seq(X) /\ Len(SubSeq(r, 1, m)) = m
      /\ \A i \in 1..m : SubSeq(r, 1, m)[i] = r[i]
  OBVIOUS
<1>6. \A i \in 1..m : SubSeq(y, 1, m)[i] = SubSeq(r, 1, m)[i]
  BY <1>2, <1>3, <1>4, <1>5, Zenon
<1>7. SubSeq(y, 1, m) = SubSeq(r, 1, m)
  BY <1>4, <1>5, <1>6, SameSeq, Zenon
<1> QED BY <1>1, <1>7, Zenon

\* The two parts of a sequence that is cut after n elements.
Parts(X, s, n, t, u) == t \in Seq(X) /\ u \in Seq(X) /\ Len(t) = n /\ s = t \o u

\* A sequence cut after n elements is the concatenation of the parts.
LEMMA CutAt ==
    ASSUME NEW X, NEW s \in Seq(X), NEW n \in Nat, n <= Len(s)
    PROVE  Parts(X, s, n, SubSeq(s, 1, n), SubSeq(s, n + 1, Len(s)))
<1>1. /\ SubSeq(s, 1, n) \in Seq(X) /\ Len(SubSeq(s, 1, n)) = n
      /\ \A i \in 1..n : SubSeq(s, 1, n)[i] = s[i]
  OBVIOUS
<1>2. /\ SubSeq(s, n + 1, Len(s)) \in Seq(X) /\ Len(SubSeq(s, n + 1, Len(s))) = Len(s) - n
      /\ \A i \in 1..Len(s) - n : SubSeq(s, n + 1, Len(s))[i] = s[n + i]
  OBVIOUS
<1>3. PICK t \in Seq(X), u \in Seq(X) :
         t = SubSeq(s, 1, n) /\ u = SubSeq(s, n + 1, Len(s)) /\ Len(t) = n /\ Len(u) = Len(s) - n
         /\ (\A i \in 1..n : t[i] = s[i]) /\ \A i \in 1..Len(s) - n : u[i] = s[n + i]
  BY <1>1, <1>2, Zenon
<1>4. s = t \o u
  <2>1. t \o u \in Seq(X) /\ Len(t \o u) = Len(t) + Len(u) /\ Len(s) \in Nat
    BY ConcatType, Zenon
  <2>2. Len(s) = Len(t \o u)
    <3>1. Len(t \o u) = n + (Len(s) - n)
      BY <1>3, <2>1, Zenon
    <3> QED BY <2>1, <3>1
  <2>3. \A i \in 1..Len(t) : (t \o u)[i] = t[i]
    BY ConcatAt, Zenon
  <2>4. \A i \in 1..Len(u) : (t \o u)[Len(t) + i] = u[i]
    OBVIOUS
  <2>5. ASSUME NEW i \in 1..Len(s) PROVE s[i] = (t \o u)[i]
    <3>1. CASE i <= n
      <4>1. i \in 1..n
        BY <3>1
      <4> QED BY <1>3, <2>3, <4>1, Zenon
    <3>2. CASE ~(i <= n)
      <4>1. i - n \in 1..Len(s) - n /\ n + (i - n) = i
        BY <2>1, <3>2
      <4>2. (t \o u)[n + (i - n)] = u[i - n] /\ u[i - n] = s[n + (i - n)]
        BY <1>3, <2>4, <4>1, Zenon
      <4> QED BY <4>1, <4>2, Zenon
    <3> QED BY <3>1, <3>2, Zenon
  <2> QED BY <2>1, <2>2, <2>5, SameSeq, Zenon
<1> QED BY <1>3, <1>4, Zenon DEF Parts

\* A concatenation cut where it was joined.
LEMMA CutBack ==
    ASSUME NEW X, NEW t \in Seq(X), NEW u \in Seq(X)
    PROVE  SubSeq(t \o u, 1, Len(t)) = t /\ SubSeq(t \o u, Len(t) + 1, Len(t \o u)) = u
<1>1. SubSeq(t \o u, 1, Len(t)) = t
  OBVIOUS
<1>2. SubSeq(t \o u, Len(t) + 1, Len(t \o u)) = u
  OBVIOUS
<1> QED BY <1>1, <1>2, Zenon

\* What follows the same sequence is the same.
LEMMA Cancel ==
    ASSUME NEW X, NEW s \in Seq(X), NEW t \in Seq(X), NEW u \in Seq(X), s \o t = s \o u
    PROVE  t = u
<1>1. SubSeq(s \o t, Len(s) + 1, Len(s \o t)) = t /\ SubSeq(s \o u, Len(s) + 1, Len(s \o u)) = u
  BY CutBack, Zenon
<1> QED BY <1>1, Zenon

\* Two concatenations that are equal and cut at the same place.
LEMMA SameCut ==
    ASSUME NEW X, NEW s \in Seq(X), NEW t \in Seq(X), NEW u \in Seq(X), NEW w \in Seq(X),
           s \o t = u \o w, Len(s) = Len(u)
    PROVE  s = u /\ t = w
<1>1. SubSeq(s \o t, 1, Len(s)) = s /\ SubSeq(u \o w, 1, Len(u)) = u
  BY CutBack, Zenon
<1>2. s = u
  BY <1>1, Zenon
<1> QED BY <1>2, Cancel, Zenon

\* u \o w, with u cut after n elements.
Longer(X, n, u, w) ==
    \E p \in Seq(X), r \in Seq(X) :
        Len(p) = n /\ u = p \o r /\ u \o w = p \o (r \o w) /\ r \o w \in Seq(X)

LEMMA CutLonger ==
    ASSUME NEW X, NEW n \in Nat, NEW u \in Seq(X), NEW w \in Seq(X), n <= Len(u)
    PROVE  Longer(X, n, u, w)
<1>1. PICK p, r : p = SubSeq(u, 1, n) /\ r = SubSeq(u, n + 1, Len(u))
  BY Zenon
<1>2. Parts(X, u, n, p, r)
  BY <1>1, CutAt, Zenon
<1>3. p \in Seq(X) /\ r \in Seq(X) /\ Len(p) = n /\ u = p \o r
  BY <1>2, Zenon DEF Parts
<1>4. (p \o r) \o w = p \o (r \o w)
  <2>1. Assoc(p, r, w)
    BY <1>3, ConcatThree, Zenon
  <2> QED BY <2>1, Zenon DEF Assoc
<1>5. r \o w \in Seq(X)
  BY <1>3, ConcatType, Zenon
<1> QED BY <1>3, <1>4, <1>5, Zenon DEF Longer

\* Two ways of cutting one sequence: one of the first parts is a prefix of the other.
Shorter(X, s, u, rest) == rest \in Seq(X) /\ rest # <<>> /\ u = s \o rest

Cuts(X, s, t, u, w) ==
    \/ \E r : Shorter(X, s, u, r)
    \/ \E r \in Seq(X) : s = u \o r /\ w = r \o t

LEMMA TwoCuts ==
    ASSUME NEW X, NEW s \in Seq(X), NEW t \in Seq(X), NEW u \in Seq(X), NEW w \in Seq(X),
           s \o t = u \o w
    PROVE  Cuts(X, s, t, u, w)
<1>1. Len(s) \in Nat /\ Len(u) \in Nat
  OBVIOUS
<1>2. CASE Len(s) < Len(u)
  <2>1. PICK p \in Seq(X), r \in Seq(X) :
           Len(p) = Len(s) /\ u = p \o r /\ u \o w = p \o (r \o w) /\ r \o w \in Seq(X)
    <3>1. Len(s) <= Len(u)
      BY <1>1, <1>2
    <3>2. Longer(X, Len(s), u, w)
      BY <1>1, <3>1, CutLonger, Zenon
    <3> QED BY <3>2, Zenon DEF Longer
  <2>2. s = p
    <3>1. PICK v \in Seq(X) : v = r \o w
      BY <2>1, Zenon
    <3>2. s \o t = p \o v /\ Len(s) = Len(p)
      BY <2>1, <3>1, Zenon
    <3> QED BY <3>2, SameCut, Zenon
  <2>3. r # <<>>
    <3>1. r = <<>> => p \o r = p
      BY ConcatNone, Zenon
    <3>2. u # p
      BY <1>1, <1>2, <2>1
    <3> QED BY <2>1, <3>1, <3>2, Zenon
  <2> QED BY <2>1, <2>2, <2>3, Zenon DEF Shorter, Cuts
<1>3. CASE ~(Len(s) < Len(u))
  <2>1. PICK p \in Seq(X), r \in Seq(X) :
           Len(p) = Len(u) /\ s = p \o r /\ s \o t = p \o (r \o t) /\ r \o t \in Seq(X)
    <3>1. Len(u) <= Len(s)
      BY <1>1, <1>3
    <3>2. Longer(X, Len(u), s, t)
      BY <1>1, <3>1, CutLonger, Zenon
    <3> QED BY <3>2, Zenon DEF Longer
  <2>2. u = p /\ w = r \o t
    <3>1. PICK v \in Seq(X) : v = r \o t
      BY <2>1, Zenon
    <3>2. u \o w = p \o v /\ Len(u) = Len(p)
      BY <2>1, <3>1, Zenon
    <3>3. u = p /\ w = v
      BY <3>2, SameCut, Zenon
    <3> QED BY <3>1, <3>3, Zenon
  <2> QED BY <2>1, <2>2, Zenon DEF Cuts
<1> QED BY <1>2, <1>3, Zenon

-----------------------------------------------------------------------------
(* What decode_varint_checked makes of a buffer.                           *)

Malformed == [is |-> "malformed"]
Incomplete == [is |-> "incomplete"]
Ends(b, k) == b[k] < Base /\ \A i \in 1..k - 1 : b[i] >= Base
Seen(b) == IF Len(b) < VarintMaxBytes THEN Len(b) ELSE VarintMaxBytes

LEMMA LimitsAreNat == VarintMaxBytes \in Nat /\ VarintMaxBytes > 0 /\ TopDigit \in Nat /\ MaxPayload \in Nat
BY FramingAssumption, Zenon

\* The bytes decode_varint_checked looks at.
LEMMA SeenIs ==
    ASSUME NEW b \in Seq(Byte)
    PROVE  /\ Seen(b) \in Nat /\ Seen(b) <= Len(b) /\ Seen(b) <= VarintMaxBytes
           /\ \A k \in 1..Len(b) : k <= VarintMaxBytes => k \in 1..Seen(b)
           /\ \A k \in 1..Seen(b) : k \in 1..Len(b) /\ k <= VarintMaxBytes
           /\ (Seen(b) # VarintMaxBytes => Len(b) < VarintMaxBytes)
           /\ (Len(b) < VarintMaxBytes => Seen(b) # VarintMaxBytes)
BY LimitsAreNat DEF Seen

\* At most one byte ends a varint.
LEMMA EndsOnce ==
    ASSUME NEW b \in Seq(Byte), NEW j \in 1..Len(b), NEW k \in 1..Len(b), Ends(b, j), Ends(b, k)
    PROVE  j = k
<1>1. \A i \in 1..Len(b) : b[i] < Base => ~(b[i] >= Base)
  <2>1. \A i \in 1..Len(b) : b[i] \in Byte
    OBVIOUS
  <2>2. \A c \in Byte : c < Base => ~(c >= Base)
    BY BaseIsNat DEF Byte
  <2> QED BY <2>1, <2>2, Zenon
<1>2. ~(j \in 1..k - 1) /\ ~(k \in 1..j - 1)
  BY <1>1, Zenon DEF Ends
<1> QED BY <1>2

\* No byte that is looked at ends the varint.
LEMMA DecodeOpen ==
    ASSUME NEW b \in Seq(Byte), \A k \in 1..Seen(b) : ~Ends(b, k)
    PROVE  DecodeVarint(b) = IF Len(b) < VarintMaxBytes THEN Incomplete ELSE Malformed
<1>1. {k \in 1..Seen(b) : b[k] < Base /\ \A i \in 1..k - 1 : b[i] >= Base} = {}
  BY Zenon DEF Ends
<1>2. DecodeVarint(b) = [is |-> IF Seen(b) = VarintMaxBytes THEN "malformed" ELSE "incomplete"]
  BY <1>1, Zenon DEF DecodeVarint, Seen
<1> QED BY <1>2, SeenIs, Zenon DEF Malformed, Incomplete

DecodedAt(b, n) ==
    IF \/ n = VarintMaxBytes /\ Digit(b[n]) > TopDigit
       \/ n > 1 /\ Digit(b[n]) = 0
    THEN Malformed
    ELSE [is |-> "value", v |-> Value(SubSeq(b, 1, n)), n |-> n]

\* Byte n ends it.
LEMMA DecodeEnds ==
    ASSUME NEW b \in Seq(Byte), NEW n \in 1..Seen(b), Ends(b, n)
    PROVE  DecodeVarint(b) = DecodedAt(b, n)
<1> DEFINE last == {k \in 1..Seen(b) : b[k] < Base /\ \A i \in 1..k - 1 : b[i] >= Base}
<1>1. \A k \in last : k = n
  <2>1. ASSUME NEW k \in last PROVE k = n
    <3>1. k \in 1..Seen(b) /\ Ends(b, k)
      BY Zenon DEF Ends
    <3>2. k \in 1..Len(b) /\ n \in 1..Len(b)
      BY <3>1, SeenIs, Zenon
    <3> QED BY <3>1, <3>2, EndsOnce, Zenon
  <2> QED BY <2>1, Zenon
<1>2. n \in last
  BY Zenon DEF Ends
<1>3. last # {} /\ (CHOOSE k \in last : TRUE) = n
  BY <1>1, <1>2, Zenon
<1>4. DecodeVarint(b) = IF last = {} THEN [is |-> IF Seen(b) = VarintMaxBytes THEN "malformed" ELSE "incomplete"]
                        ELSE DecodedAt(b, CHOOSE k \in last : TRUE)
  BY Zenon DEF DecodeVarint, Seen, DecodedAt, Malformed
<1> HIDE DEF last
<1> QED BY <1>3, <1>4, Zenon

\* A varint that decode_varint_checked takes.
Fits(w) == Len(w) <= VarintMaxBytes /\ (Len(w) = VarintMaxBytes => w[Len(w)] <= TopDigit)
Taken(w) == Whole(w) /\ Fits(w)
ValueOf(w) == [is |-> "value", v |-> Value(w), n |-> Len(w)]

\* A canonical varint ends at its last byte, whatever follows.
LEMMA WholeEnds ==
    ASSUME NEW w, Whole(w), NEW x \in Seq(Byte)
    PROVE  /\ w \in Seq(Byte) /\ w \o x \in Seq(Byte) /\ Len(w) \in 1..Len(w \o x)
           /\ Ends(w \o x, Len(w)) /\ (w \o x)[Len(w)] = w[Len(w)] /\ w[Len(w)] \in Byte
           /\ w[Len(w)] < Base
<1>1. w \in Seq(Byte) /\ Len(w) >= 1 /\ w[Len(w)] < Base /\ \A i \in 1..Len(w) - 1 : w[i] >= Base
  BY Zenon DEF Whole
<1>2. w \o x \in Seq(Byte) /\ Len(w \o x) = Len(w) + Len(x) /\ Len(w) \in Nat /\ Len(x) \in Nat
  BY <1>1, ConcatType, Zenon
<1>3. \A i \in 1..Len(w) : (w \o x)[i] = w[i]
  BY <1>1, ConcatAt, Zenon
<1>4. Len(w) \in 1..Len(w) /\ Len(w) \in 1..Len(w \o x) /\ \A i \in 1..Len(w) - 1 : i \in 1..Len(w)
  BY <1>1, <1>2
<1>5. w[Len(w)] \in Byte
  BY <1>1, <1>4
<1>6. Ends(w \o x, Len(w))
  BY <1>1, <1>3, <1>4, Zenon DEF Ends
<1> QED BY <1>1, <1>2, <1>3, <1>4, <1>5, <1>6, Zenon

\* A varint in the buffer is read as its value, whatever follows.
LEMMA ReadWhole ==
    ASSUME NEW w, Taken(w), NEW x \in Seq(Byte)
    PROVE  DecodeVarint(w \o x) = ValueOf(w)
<1>1. PICK b \in Seq(Byte), n \in Nat, z \in Byte :
         /\ b = w \o x /\ n = Len(w) /\ n \in 1..Len(b) /\ Ends(b, n) /\ b[n] = z /\ w[n] = z
         /\ w \in Seq(Byte) /\ z < Base
  <2>1. Whole(w) /\ (w \in Seq(Byte) => Len(w) \in Nat)
    BY DEF Taken
  <2> QED BY <2>1, WholeEnds, Zenon
<1>2. n <= VarintMaxBytes /\ (n = VarintMaxBytes => z <= TopDigit)
  BY <1>1, Zenon DEF Taken, Fits
<1>3. n > 1 => z # 0
  BY <1>1, Zenon DEF Taken, Whole
<1>4. Digit(z) = z /\ z \in Nat
  BY <1>1, DigitOf, Zenon
<1>5. n \in 1..Seen(b)
  BY <1>1, <1>2, SeenIs, Zenon
<1>6. SubSeq(b, 1, n) = w
  BY <1>1, CutBack, Zenon
<1>7. ~(n = VarintMaxBytes /\ z > TopDigit)
  BY <1>2, <1>4, LimitsAreNat
<1>8. DecodeVarint(b) = DecodedAt(b, n)
  BY <1>1, <1>5, DecodeEnds, Zenon
<1>9. DecodedAt(b, n) = ValueOf(w)
  BY <1>1, <1>3, <1>4, <1>6, <1>7, Zenon DEF DecodedAt, ValueOf
<1> QED BY <1>1, <1>8, <1>9, Zenon

\* A part of it is incomplete.
LEMMA ReadPart ==
    ASSUME NEW p \in Seq(Byte), NEW r \in Seq(Byte), r # <<>>, Taken(p \o r)
    PROVE  DecodeVarint(p) = Incomplete
<1>1. PICK w \in Seq(Byte) : w = p \o r /\ Whole(w) /\ Len(w) <= VarintMaxBytes
  BY Zenon DEF Taken, Fits, Whole
<1>2. Len(w) = Len(p) + Len(r) /\ Len(p) \in Nat /\ Len(r) \in Nat
  BY <1>1, ConcatType, Zenon
<1>3. Len(r) # 0
  OBVIOUS
<1>4. Len(p) < VarintMaxBytes /\ Len(p) <= Len(w) - 1
  BY <1>1, <1>2, <1>3, LimitsAreNat
<1>5. ASSUME NEW k \in 1..Seen(p) PROVE ~Ends(p, k)
  <2>1. k \in 1..Len(p)
    BY SeenIs, Zenon
  <2>2. k \in 1..Len(w) - 1
    BY <1>2, <1>4, <2>1
  <2>3. p[k] = w[k]
    BY <1>1, <2>1, ConcatAt, Zenon
  <2>4. p[k] >= Base /\ p[k] \in Byte
    <3>1. p[k] \in Byte
      BY <2>1
    <3> QED BY <1>1, <2>2, <2>3, <3>1, Zenon DEF Whole
  <2>5. ~(p[k] < Base)
    BY <2>4, BaseIsNat DEF Byte
  <2> QED BY <2>5, Zenon DEF Ends
<1> QED BY <1>4, <1>5, DecodeOpen, Zenon

\* Whatever the bytes are.
ReadTo(b, w, x) == Taken(w) /\ x \in Seq(Byte) /\ b = w \o x

\* There is no third case: what is neither incomplete nor malformed begins with a varint.
LEMMA ReadCases ==
    ASSUME NEW b \in Seq(Byte)
    PROVE  \/ DecodeVarint(b) = Malformed
           \/ DecodeVarint(b) = Incomplete /\ Len(b) < VarintMaxBytes
           \/ \E w, x : ReadTo(b, w, x)
<1>1. CASE \A k \in 1..Seen(b) : ~Ends(b, k)
  BY <1>1, DecodeOpen, Zenon
<1>2. CASE \E k \in 1..Seen(b) : Ends(b, k)
  <2>1. PICK n \in 1..Seen(b) : Ends(b, n)
    BY <1>2, Zenon
  <2>2. DecodeVarint(b) = DecodedAt(b, n)
    BY <2>1, DecodeEnds, Zenon
  <2>3. SUFFICES ASSUME ~(n = VarintMaxBytes /\ Digit(b[n]) > TopDigit), ~(n > 1 /\ Digit(b[n]) = 0)
                 PROVE  \E w, x : ReadTo(b, w, x)
    BY <2>2, Zenon DEF DecodedAt
  <2>4. n \in 1..Len(b) /\ n <= VarintMaxBytes /\ n \in Nat /\ n >= 1 /\ n <= Len(b)
    <3>1. n \in 1..Len(b) /\ n <= VarintMaxBytes
      BY SeenIs, Zenon
    <3> QED BY <3>1
  <2>5. PICK w, x : w = SubSeq(b, 1, n) /\ x = SubSeq(b, n + 1, Len(b))
    BY Zenon
  <2>6. w \in Seq(Byte) /\ x \in Seq(Byte) /\ Len(w) = n /\ b = w \o x
    <3>1. Parts(Byte, b, n, w, x)
      BY <2>4, <2>5, CutAt, Zenon
    <3> QED BY <3>1, Zenon DEF Parts
  <2>7. \A i \in 1..n : b[i] = w[i]
    BY <2>6, ConcatAt, Zenon
  <2>8. n \in 1..n /\ \A i \in 1..n - 1 : i \in 1..n
    BY <2>4
  <2>9. w[n] \in Byte
    BY <2>6, <2>8
  <2>10. w[n] < Base /\ \A i \in 1..n - 1 : w[i] >= Base
    BY <2>1, <2>7, <2>8, Zenon DEF Ends
  <2>11. Digit(b[n]) = w[n] /\ w[n] \in Nat
    BY <2>7, <2>8, <2>9, <2>10, DigitOf, Zenon
  <2>12. Whole(w)
    BY <2>3, <2>4, <2>6, <2>10, <2>11, Zenon DEF Whole
  <2>13. n = VarintMaxBytes => w[n] <= TopDigit
    BY <2>3, <2>11, LimitsAreNat
  <2>14. Taken(w)
    BY <2>4, <2>6, <2>12, <2>13, Zenon DEF Taken, Fits
  <2> QED BY <2>6, <2>14, Zenon DEF ReadTo
<1> QED BY <1>1, <1>2, Zenon

-----------------------------------------------------------------------------
(* What Decoder::decode makes of a buffer.                                 *)

\* A varint of a length that bounded_len lets through.
Lengthy(w) == Taken(w) /\ Value(w) <= MaxPayload

\* What is known of a varint that is taken.
LEMMA TakenIs ==
    ASSUME NEW w, Taken(w)
    PROVE  /\ w \in Seq(Byte) /\ Value(w) \in Nat /\ EncodeVarint[Value(w)] = w
           /\ Len(w) \in Nat /\ Len(w) >= 1 /\ Len(w) <= VarintMaxBytes
<1>1. w \in Seq(Byte) /\ Whole(w) /\ Len(w) >= 1 /\ Len(w) <= VarintMaxBytes
  BY Zenon DEF Taken, Fits, Whole
<1>2. Len(w) \in Nat
  BY <1>1
<1>3. Value(w) \in Nat /\ EncodeVarint[Value(w)] = w
  BY <1>1, WholeIsEncode, Zenon
<1> QED BY <1>1, <1>2, <1>3, Zenon

Bounded(d) ==
    IF d.is # "value" THEN d
    ELSE IF BoundedLen(d.v) = TooLarge THEN Malformed
    ELSE [d EXCEPT !.v = BoundedLen(d.v)]

\* A length field is a varint that is compared with max_payload.
LEMMA LengthOf ==
    ASSUME NEW h \in Seq(Byte), NEW c \in Seq(Byte), NEW d, d = DecodeVarint(c)
    PROVE  LengthAt(h \o c, Len(h) + 1) = Bounded(d)
<1>1. SubSeq(h \o c, Len(h) + 1, Len(h \o c)) = c
  BY CutBack, Zenon
<1> QED BY <1>1, Zenon DEF LengthAt, Malformed, Bounded

\* A length field in the buffer, whatever follows.
LEMMA LengthIs ==
    ASSUME NEW h \in Seq(Byte), NEW w, Lengthy(w), NEW x \in Seq(Byte)
    PROVE  LengthAt(h \o (w \o x), Len(h) + 1) = ValueOf(w)
<1>1. w \in Seq(Byte) /\ Value(w) \in Nat /\ Taken(w) /\ Value(w) <= MaxPayload
  BY TakenIs, Zenon DEF Lengthy
<1>2. PICK c \in Seq(Byte) : c = w \o x
  BY <1>1, ConcatType, Zenon
<1>3. PICK d : d = DecodeVarint(c)
  BY Zenon
<1>4. d = ValueOf(w)
  BY <1>1, <1>2, <1>3, ReadWhole, Zenon
<1>5. BoundedLen(Value(w)) = Value(w) /\ Value(w) # TooLarge
  BY <1>1 DEF BoundedLen, TooLarge
<1>6. d.is = "value" /\ d.v = Value(w) /\ [d EXCEPT !.v = Value(w)] = d
  BY <1>4 DEF ValueOf
<1>7. LengthAt(h \o c, Len(h) + 1) = d
  <2>1. LengthAt(h \o c, Len(h) + 1) = Bounded(d)
    BY <1>3, LengthOf, Zenon
  <2> QED BY <1>5, <1>6, <2>1, Zenon DEF Bounded
<1> QED BY <1>2, <1>4, <1>7, Zenon

\* A part of a length field.
LEMMA LengthPart ==
    ASSUME NEW h \in Seq(Byte), NEW p \in Seq(Byte), DecodeVarint(p) = Incomplete
    PROVE  LengthAt(h \o p, Len(h) + 1) = Incomplete
<1>1. PICK d : d = DecodeVarint(p) /\ d = Incomplete
  BY Zenon
<1>2. d.is # "value"
  BY <1>1 DEF Incomplete
<1>3. LengthAt(h \o p, Len(h) + 1) = Bounded(d)
  BY <1>1, LengthOf, Zenon
<1> QED BY <1>1, <1>2, <1>3, Zenon DEF Bounded

LengthTo(c, w, x) == Lengthy(w) /\ x \in Seq(Byte) /\ c = w \o x

\* What is neither incomplete nor malformed begins with a length field.
LEMMA LengthCases ==
    ASSUME NEW h \in Seq(Byte), NEW c \in Seq(Byte)
    PROVE  \/ LengthAt(h \o c, Len(h) + 1) = Malformed
           \/ LengthAt(h \o c, Len(h) + 1) = Incomplete /\ Len(c) < VarintMaxBytes
           \/ \E w, x : LengthTo(c, w, x)
<1>1. PICK d : d = DecodeVarint(c)
  BY Zenon
<1>2. LengthAt(h \o c, Len(h) + 1) = Bounded(d)
  BY <1>1, LengthOf, Zenon
<1>3. CASE d = Malformed
  <2>1. d.is # "value"
    BY <1>3, Zenon DEF Malformed
  <2> QED BY <1>2, <1>3, <2>1, Zenon DEF Bounded
<1>4. CASE d = Incomplete /\ Len(c) < VarintMaxBytes
  <2>1. d.is # "value"
    BY <1>4 DEF Incomplete
  <2> QED BY <1>2, <1>4, <2>1, Zenon DEF Bounded
<1>5. CASE \E w, x : ReadTo(c, w, x)
  <2>1. PICK w, x : Taken(w) /\ x \in Seq(Byte) /\ c = w \o x
    BY <1>5, Zenon DEF ReadTo
  <2>2. CASE Value(w) <= MaxPayload
    BY <2>1, <2>2, Zenon DEF LengthTo, Lengthy
  <2>3. CASE ~(Value(w) <= MaxPayload)
    <3>1. d = ValueOf(w)
      BY <1>1, <2>1, ReadWhole, Zenon
    <3>2. d.is = "value" /\ d.v = Value(w)
      BY <3>1, Zenon DEF ValueOf
    <3>3. BoundedLen(d.v) = TooLarge
      BY <2>3, <3>2, Zenon DEF BoundedLen
    <3> QED BY <1>2, <3>2, <3>3, Zenon DEF Bounded
  <2> QED BY <2>2, <2>3, Zenon
<1> QED BY <1>1, <1>3, <1>4, <1>5, ReadCases, Zenon

-----------------------------------------------------------------------------
\* A buffer that holds both lengths.
Header(b, ty, u, w, r) ==
    /\ ty \in Byte /\ Lengthy(u) /\ Lengthy(w) /\ r \in Seq(Byte)
    /\ b = <<WireVer, ty>> \o (u \o (w \o r))

LEMMA PrefixOf ==
    ASSUME NEW ty \in Byte
    PROVE  <<WireVer, ty>> \in Seq(Byte) /\ Len(<<WireVer, ty>>) = 2 /\ WireVer \in Byte
<1>1. WireVer \in Byte
  BY BaseIsNat DEF WireVer, Byte
<1> QED BY <1>1

PrefixFacts(b, ty, c) ==
    /\ b \in Seq(Byte) /\ b # <<>> /\ Len(b) = 2 + Len(c) /\ Len(c) \in Nat
    /\ b[1] = WireVer /\ b[2] = ty /\ Len(b) # 1

\* The bytes after the version and the type.
LEMMA PrefixAt ==
    ASSUME NEW ty \in Byte, NEW c \in Seq(Byte), NEW b, b = <<WireVer, ty>> \o c
    PROVE  PrefixFacts(b, ty, c)
<1>1. <<WireVer, ty>> \in Seq(Byte)
  BY PrefixOf, Zenon
<1>2. PICK x : x = WireVer
  BY Zenon
<1>3. <<x, ty>> \in Seq(Byte)
  BY <1>1, <1>2, Zenon
<1>4. /\ <<x, ty>> \o c \in Seq(Byte) /\ Len(<<x, ty>> \o c) = 2 + Len(c) /\ Len(c) \in Nat
  BY <1>3
<1>5. (<<x, ty>> \o c)[1] = x /\ (<<x, ty>> \o c)[2] = ty
  BY <1>3
<1>6. 2 + Len(c) # 1 /\ 2 + Len(c) # 0
  BY <1>4
<1>7. Len(<<>>) = 0
  BY Zenon
<1>8. b # <<>>
  BY <1>2, <1>4, <1>6, <1>7, Zenon
<1> QED BY <1>2, <1>4, <1>5, <1>6, <1>8, Zenon DEF PrefixFacts

\* Decode, once the version is right and the type is there.
DecodeLengths(b, payload, pad) ==
    LET header == 2 + payload.n + pad.n
        total == header + payload.v + pad.v
    IN  IF payload.is # "value" THEN payload
        ELSE IF pad.is # "value" THEN pad
        ELSE IF Len(b) < total THEN Incomplete
        ELSE [is |-> "frame", n |-> total,
              frame |-> [type |-> b[2], payload |-> SubSeq(b, header + 1, header + payload.v)]]

\* Decode in terms of the two length fields.
LEMMA DecodeOf ==
    ASSUME NEW b, b # <<>>, b[1] = WireVer, Len(b) # 1
    PROVE  Decode(b) = DecodeLengths(b, LengthAt(b, 3), LengthAt(b, 3 + LengthAt(b, 3).n))
BY Zenon DEF Decode, DecodeLengths, Incomplete

\* The first length.
LEMMA FirstLength ==
    ASSUME NEW ty \in Byte, NEW c \in Seq(Byte), NEW b, b = <<WireVer, ty>> \o c
    PROVE  /\ c \in Seq(Byte) /\ LengthAt(b, 3) = LengthAt(<<WireVer, ty>> \o c, Len(<<WireVer, ty>>) + 1)
<1>1. Len(<<WireVer, ty>>) + 1 = 3
  BY PrefixOf
<1> QED BY <1>1, Zenon

\* The second.
Second(b, u, c) ==
    \E h \in Seq(Byte) : /\ Len(h) = 2 + Len(u) /\ b = h \o c
                         /\ LengthAt(b, 3 + Len(u)) = LengthAt(h \o c, Len(h) + 1)

\* The second.
LEMMA SecondLength ==
    ASSUME NEW ty \in Byte, NEW u \in Seq(Byte), NEW c \in Seq(Byte), NEW b,
           b = <<WireVer, ty>> \o (u \o c)
    PROVE  Second(b, u, c)
<1>1. PICK g \in Seq(Byte) : g = <<WireVer, ty>> /\ Len(g) = 2
  BY PrefixOf, Zenon
<1>2. PICK h \in Seq(Byte) : h = g \o u /\ Len(h) = Len(g) + Len(u) /\ Len(u) \in Nat
  BY ConcatType, Zenon
<1>3. (g \o u) \o c = g \o (u \o c)
  <2>1. Assoc(g, u, c)
    BY ConcatThree, Zenon
  <2> QED BY <2>1, Zenon DEF Assoc
<1>4. b = h \o c
  BY <1>1, <1>2, <1>3, Zenon
<1>5. Len(h) = 2 + Len(u)
  BY <1>1, <1>2, Zenon
<1>6. Len(h) + 1 = 3 + Len(u)
  BY <1>2, <1>5
<1> QED BY <1>4, <1>5, <1>6, Zenon DEF Second

\* A complete header.
HeaderFacts(b, ty, u, w, r) ==
    /\ b \in Seq(Byte) /\ u \in Seq(Byte) /\ w \in Seq(Byte) /\ r \in Seq(Byte)
    /\ b # <<>> /\ b[1] = WireVer /\ b[2] = ty /\ Len(b) # 1
    /\ LengthAt(b, 3) = ValueOf(u) /\ LengthAt(b, 3 + Len(u)) = ValueOf(w)
    /\ Len(b) = 2 + Len(u) + Len(w) + Len(r)

\* The parts of a header and where they are.
LEMMA HeaderIs ==
    ASSUME NEW b, NEW ty, NEW u, NEW w, NEW r, Header(b, ty, u, w, r)
    PROVE  HeaderFacts(b, ty, u, w, r)
<1>1. /\ ty \in Byte /\ Lengthy(u) /\ Lengthy(w) /\ r \in Seq(Byte)
      /\ b = <<WireVer, ty>> \o (u \o (w \o r)) /\ Taken(u) /\ Taken(w)
  BY Zenon DEF Header, Lengthy
<1>2. u \in Seq(Byte) /\ w \in Seq(Byte)
  BY <1>1, TakenIs, Zenon
<1>3. PICK x \in Seq(Byte) : x = w \o r /\ Len(x) = Len(w) + Len(r)
  BY <1>1, <1>2, ConcatType, Zenon
<1>4. PICK c \in Seq(Byte) : c = u \o x /\ Len(c) = Len(u) + Len(x)
  BY <1>2, ConcatType, Zenon
<1>5. b = <<WireVer, ty>> \o c
  BY <1>1, <1>3, <1>4, Zenon
<1>6. /\ b \in Seq(Byte) /\ b # <<>> /\ Len(b) = 2 + Len(c) /\ Len(c) \in Nat
      /\ b[1] = WireVer /\ b[2] = ty /\ Len(b) # 1
  <2>1. PrefixFacts(b, ty, c)
    BY <1>1, <1>5, PrefixAt, Zenon
  <2> QED BY <2>1, Zenon DEF PrefixFacts
<1>7. LengthAt(b, 3) = ValueOf(u)
  <2>1. PICK g \in Seq(Byte) : g = <<WireVer, ty>>
    BY <1>1, PrefixOf, Zenon
  <2>2. LengthAt(b, 3) = LengthAt(<<WireVer, ty>> \o c, Len(<<WireVer, ty>>) + 1)
    BY <1>1, <1>5, FirstLength, Zenon
  <2>3. LengthAt(g \o (u \o x), Len(g) + 1) = ValueOf(u)
    BY <1>1, LengthIs, Zenon
  <2> QED BY <1>4, <2>1, <2>2, <2>3, Zenon
<1>8. LengthAt(b, 3 + Len(u)) = ValueOf(w)
  <2>1. b = <<WireVer, ty>> \o (u \o x)
    BY <1>4, <1>5, Zenon
  <2>2. PICK h \in Seq(Byte) : LengthAt(b, 3 + Len(u)) = LengthAt(h \o x, Len(h) + 1)
    <3>1. Second(b, u, x)
      BY <1>1, <1>2, <2>1, SecondLength, Zenon
    <3> QED BY <3>1, Zenon DEF Second
  <2>3. LengthAt(h \o (w \o r), Len(h) + 1) = ValueOf(w)
    BY <1>1, LengthIs, Zenon
  <2> QED BY <1>3, <2>2, <2>3, Zenon
<1>9. Len(b) = 2 + Len(u) + Len(w) + Len(r)
  <2>1. Len(u) \in Nat /\ Len(w) \in Nat /\ Len(r) \in Nat
    BY <1>1, <1>2
  <2>2. Len(b) = 2 + (Len(u) + (Len(w) + Len(r)))
    BY <1>3, <1>4, <1>6, Zenon
  <2> QED BY <2>1, <2>2
<1> QED BY <1>1, <1>2, <1>6, <1>7, <1>8, <1>9, Zenon DEF HeaderFacts

\* The payload of a complete frame follows the header.
LEMMA AfterHeader ==
    ASSUME NEW h \in Seq(Byte), NEW r \in Seq(Byte), NEW m \in Nat, m <= Len(r)
    PROVE  SubSeq(h \o r, Len(h) + 1, Len(h) + m) = SubSeq(r, 1, m)
<1>1. Len(SubSeq(h \o r, Len(h) + 1, Len(h) + m)) = m
  OBVIOUS
<1>2. Len(SubSeq(r, 1, m)) = m
  OBVIOUS
<1>3. \A i \in 1..m : SubSeq(h \o r, Len(h) + 1, Len(h) + m)[i] = SubSeq(r, 1, m)[i]
  <2>1. ASSUME NEW i \in 1..m PROVE SubSeq(h \o r, Len(h) + 1, Len(h) + m)[i] = (h \o r)[Len(h) + i]
    <3>1. PICK s \in Seq(Byte), a \in Nat : s = h \o r /\ a = Len(h) /\ Len(s) = a + Len(r)
      <4>1. h \o r \in Seq(Byte) /\ Len(h \o r) = Len(h) + Len(r) /\ Len(h) \in Nat
        BY ConcatType, Zenon
      <4> QED BY <4>1, Zenon
    <3>2. a + m <= Len(s)
      BY <3>1
    <3> QED BY <3>1, <3>2, SubSeqAt, Zenon
  <2>2. ASSUME NEW i \in 1..m PROVE SubSeq(r, 1, m)[i] = r[i]
    OBVIOUS
  <2>3. ASSUME NEW i \in 1..m PROVE (h \o r)[Len(h) + i] = r[i]
    OBVIOUS
  <2> QED BY <2>1, <2>2, <2>3, Zenon
<1>4. SubSeq(h \o r, Len(h) + 1, Len(h) + m) \in Seq(Byte) /\ SubSeq(r, 1, m) \in Seq(Byte)
  OBVIOUS
<1> QED BY <1>1, <1>2, <1>3, <1>4, SameSeq, Zenon

\* What decode returns then.
FrameOf(ty, u, w, r) ==
    [is |-> "frame", n |-> 2 + Len(u) + Len(w) + Value(u) + Value(w),
     frame |-> [type |-> ty, payload |-> SubSeq(r, 1, Value(u))]]

\* With a complete header, decode waits for the payload and the pad, and returns the frame.
LEMMA DecodeHeader ==
    ASSUME NEW b, NEW ty, NEW u, NEW w, NEW r, Header(b, ty, u, w, r)
    PROVE  /\ LengthsKnown(b)
           /\ Decode(b) = IF Len(r) < Value(u) + Value(w) THEN Incomplete ELSE FrameOf(ty, u, w, r)
<1>1. /\ b \in Seq(Byte) /\ u \in Seq(Byte) /\ w \in Seq(Byte) /\ r \in Seq(Byte)
      /\ b # <<>> /\ b[1] = WireVer /\ b[2] = ty /\ Len(b) # 1
      /\ LengthAt(b, 3) = ValueOf(u) /\ LengthAt(b, 3 + Len(u)) = ValueOf(w)
      /\ Len(b) = 2 + Len(u) + Len(w) + Len(r)
  <2>1. HeaderFacts(b, ty, u, w, r)
    BY HeaderIs, Zenon
  <2> QED BY <2>1, Zenon DEF HeaderFacts
<1>2. PICK m \in Nat, k \in Nat, p \in Nat, q \in Nat, l \in Nat :
         m = Value(u) /\ k = Value(w) /\ p = Len(u) /\ q = Len(w) /\ l = Len(r)
  <2>1. Value(u) \in Nat /\ Value(w) \in Nat
    BY TakenIs, Zenon DEF Header, Lengthy
  <2>2. Len(u) \in Nat /\ Len(w) \in Nat /\ Len(r) \in Nat
    BY <1>1
  <2> QED BY <2>1, <2>2, Zenon
<1>3. LengthAt(b, 3).is = "value" /\ LengthAt(b, 3).v = m /\ LengthAt(b, 3).n = p
  BY <1>1, <1>2 DEF ValueOf
<1>4. LengthAt(b, 3 + p).is = "value" /\ LengthAt(b, 3 + p).v = k /\ LengthAt(b, 3 + p).n = q
  BY <1>1, <1>2 DEF ValueOf
<1>5. LengthsKnown(b)
  BY <1>3, <1>4, Zenon DEF LengthsKnown
<1>6. Decode(b) = DecodeLengths(b, LengthAt(b, 3), LengthAt(b, 3 + p))
  BY <1>1, <1>3, DecodeOf, Zenon
<1>7. Decode(b) = IF Len(b) < 2 + p + q + m + k THEN Incomplete
                  ELSE [is |-> "frame", n |-> 2 + p + q + m + k,
                        frame |-> [type |-> ty, payload |-> SubSeq(b, 2 + p + q + 1, 2 + p + q + m)]]
  BY <1>1, <1>3, <1>4, <1>6, Zenon DEF DecodeLengths
<1>8. CASE l < m + k
  <2>1. Len(b) < 2 + p + q + m + k
    <3>1. Len(b) = 2 + p + q + l
      BY <1>1, <1>2, Zenon
    <3> QED BY <1>8, <3>1
  <2> QED BY <1>2, <1>5, <1>7, <1>8, <2>1, Zenon
<1>9. CASE ~(l < m + k)
  <2>1. ~(Len(b) < 2 + p + q + m + k)
    <3>1. Len(b) = 2 + p + q + l
      BY <1>1, <1>2, Zenon
    <3> QED BY <1>9, <3>1
  <2>2. SubSeq(b, 2 + p + q + 1, 2 + p + q + m) = SubSeq(r, 1, m)
    <3>1. PICK x \in Seq(Byte) : x = w \o r
      BY <1>1, ConcatType, Zenon
    <3>2. ty \in Byte /\ b = <<WireVer, ty>> \o (u \o x)
      BY <3>1, Zenon DEF Header
    <3>3. PICK h \in Seq(Byte) : Len(h) = 2 + Len(u) /\ b = h \o x
      <4>1. Second(b, u, x)
        BY <1>1, <3>2, SecondLength, Zenon
      <4> QED BY <4>1, Zenon DEF Second
    <3>4. PICK g \in Seq(Byte) : g = h \o w /\ Len(g) = Len(h) + Len(w)
      BY <1>1, ConcatType, Zenon
    <3>5. (h \o w) \o r = h \o (w \o r)
      <4>1. Assoc(h, w, r)
        BY <1>1, ConcatThree, Zenon
      <4> QED BY <4>1, Zenon DEF Assoc
    <3>6. b = g \o r /\ Len(g) = 2 + p + q
      BY <1>2, <3>1, <3>3, <3>4, <3>5, Zenon
    <3>7. m <= Len(r)
      BY <1>2, <1>9
    <3>8. SubSeq(g \o r, Len(g) + 1, Len(g) + m) = SubSeq(r, 1, m)
      BY <1>1, <3>7, AfterHeader, Zenon
    <3> QED BY <3>6, <3>8, Zenon
  <2> QED BY <1>2, <1>5, <1>7, <1>9, <2>1, <2>2, Zenon DEF FrameOf
<1> QED BY <1>8, <1>9, Zenon

\* Whatever the bytes are.
LEMMA DecodeCases ==
    ASSUME NEW b \in Seq(Byte)
    PROVE  \/ Decode(b) = Malformed
           \/ Decode(b) = Incomplete /\ Len(b) < 2 + 2 * VarintMaxBytes
           \/ \E ty, u, w, r : Header(b, ty, u, w, r)
<1>1. CASE b = <<>>
  <2>1. Decode(b) = Incomplete
    BY <1>1, Zenon DEF Decode, Incomplete
  <2>2. Len(b) < 2 + 2 * VarintMaxBytes
    BY <1>1, LimitsAreNat
  <2> QED BY <2>1, <2>2, Zenon
<1>2. CASE b # <<>> /\ b[1] # WireVer
  BY <1>2, Zenon DEF Decode, Malformed
<1>3. CASE b # <<>> /\ b[1] = WireVer /\ Len(b) = 1
  <2>1. Decode(b) = Incomplete
    BY <1>3, Zenon DEF Decode, Incomplete
  <2>2. Len(b) < 2 + 2 * VarintMaxBytes
    BY <1>3, LimitsAreNat
  <2> QED BY <2>1, <2>2, Zenon
<1>4. CASE b # <<>> /\ b[1] = WireVer /\ Len(b) # 1
  <2>1. PICK ty \in Byte, c \in Seq(Byte) : b = <<WireVer, ty>> \o c
    <3>1. Len(b) \in Nat /\ Len(b) >= 2
      <4>1. PICK n \in Nat : n = Len(b) /\ n >= 1 /\ n # 1
        BY <1>4, NotEmpty, Zenon
      <4>2. n >= 2
        BY <4>1
      <4> QED BY <4>1, <4>2, Zenon
    <3>2. PICK g, c : g = SubSeq(b, 1, 2) /\ c = SubSeq(b, 2 + 1, Len(b))
      BY Zenon
    <3>3. Parts(Byte, b, 2, g, c)
      <4>1. 2 \in Nat /\ 2 <= Len(b)
        BY <3>1, Zenon
      <4> QED BY <3>2, <4>1, CutAt, Zenon
    <3>4. g \in Seq(Byte) /\ c \in Seq(Byte) /\ Len(g) = 2 /\ b = g \o c
      BY <3>3, Zenon DEF Parts
    <3>5. 1 \in 1..2 /\ 2 \in 1..2
      OBVIOUS
    <3>6. b[1] = g[1]
      <4>1. \A i \in 1..Len(g) : (g \o c)[i] = g[i]
        BY <3>4, ConcatAt, Zenon
      <4>2. \A i \in 1..2 : b[i] = g[i]
        BY <3>4, <4>1, Zenon
      <4> QED BY <3>5, <4>2, Zenon
    <3>7. g[2] \in Byte /\ g = <<g[1], g[2]>>
      BY <3>4, PairIs, Zenon
    <3> QED BY <1>4, <3>4, <3>6, <3>7, Zenon
  <2>2. Len(b) = 2 + Len(c) /\ Len(c) \in Nat
    <3>1. PrefixFacts(b, ty, c)
      BY <2>1, PrefixAt, Zenon
    <3> QED BY <3>1, Zenon DEF PrefixFacts
  <2>3. PICK payload : payload = LengthAt(b, 3)
    BY Zenon
  <2>4. Decode(b) = DecodeLengths(b, payload, LengthAt(b, 3 + payload.n))
    BY <1>4, <2>3, DecodeOf, Zenon
  <2>5. \/ payload = Malformed
        \/ payload = Incomplete /\ Len(c) < VarintMaxBytes
        \/ \E u, x : LengthTo(c, u, x)
    <3>1. PICK g \in Seq(Byte) : g = <<WireVer, ty>>
      BY PrefixOf, Zenon
    <3>2. payload = LengthAt(g \o c, Len(g) + 1)
      BY <2>1, <2>3, <3>1, FirstLength, Zenon
    <3> QED BY <3>2, LengthCases, Zenon
  <2>6. CASE payload = Malformed
    <3>1. payload.is # "value"
      BY <2>6, Zenon DEF Malformed
    <3> QED BY <2>4, <2>6, <3>1, Zenon DEF DecodeLengths
  <2>7. CASE payload = Incomplete /\ Len(c) < VarintMaxBytes
    <3>1. payload.is # "value"
      BY <2>7, Zenon DEF Incomplete
    <3>2. Len(b) < 2 + 2 * VarintMaxBytes
      BY <2>2, <2>7, LimitsAreNat
    <3> QED BY <2>4, <2>7, <3>1, <3>2, Zenon DEF DecodeLengths
  <2>8. CASE \E u, x : LengthTo(c, u, x)
    <3>1. PICK u, x : Lengthy(u) /\ x \in Seq(Byte) /\ c = u \o x
      BY <2>8, Zenon DEF LengthTo
    <3>2. u \in Seq(Byte) /\ Len(u) \in Nat /\ Len(u) <= VarintMaxBytes
      BY <3>1, TakenIs, Zenon DEF Lengthy
    <3>3. payload = ValueOf(u)
      <4>1. PICK g \in Seq(Byte) : g = <<WireVer, ty>>
        BY PrefixOf, Zenon
      <4>2. payload = LengthAt(g \o c, Len(g) + 1)
        BY <2>1, <2>3, <4>1, FirstLength, Zenon
      <4>3. LengthAt(g \o (u \o x), Len(g) + 1) = ValueOf(u)
        BY <3>1, LengthIs, Zenon
      <4> QED BY <3>1, <4>2, <4>3, Zenon
    <3>4. payload.is = "value" /\ payload.n = Len(u)
      BY <3>3, Zenon DEF ValueOf
    <3>5. PICK pad : pad = LengthAt(b, 3 + Len(u))
      BY Zenon
    <3>6. PICK h \in Seq(Byte) : pad = LengthAt(h \o x, Len(h) + 1)
      <4>1. b = <<WireVer, ty>> \o (u \o x)
        BY <2>1, <3>1, Zenon
      <4>2. Second(b, u, x)
        BY <3>1, <3>2, <4>1, SecondLength, Zenon
      <4> QED BY <3>5, <4>2, Zenon DEF Second
    <3>7. Decode(b) = DecodeLengths(b, payload, pad)
      BY <2>4, <3>4, <3>5, Zenon
    <3>8. \/ pad = Malformed
          \/ pad = Incomplete /\ Len(x) < VarintMaxBytes
          \/ \E w, r : LengthTo(x, w, r)
      BY <3>1, <3>6, LengthCases, Zenon
    <3>9. CASE pad = Malformed
      <4>1. pad.is # "value"
        BY <3>9 DEF Malformed
      <4> QED BY <3>4, <3>7, <3>9, <4>1, Zenon DEF DecodeLengths
    <3>10. CASE pad = Incomplete /\ Len(x) < VarintMaxBytes
      <4>1. pad.is # "value"
        BY <3>10 DEF Incomplete
      <4>2. Len(c) = Len(u) + Len(x) /\ Len(x) \in Nat
        BY <3>1, <3>2, ConcatType, Zenon
      <4>3. Len(b) < 2 + 2 * VarintMaxBytes
        BY <2>2, <3>2, <3>10, <4>2, LimitsAreNat
      <4> QED BY <3>4, <3>7, <3>10, <4>1, <4>3, Zenon DEF DecodeLengths
    <3>11. CASE \E w, r : LengthTo(x, w, r)
      <4>1. PICK w, r : Lengthy(w) /\ r \in Seq(Byte) /\ x = w \o r
        BY <3>11, Zenon DEF LengthTo
      <4>2. Header(b, ty, u, w, r)
        BY <2>1, <3>1, <4>1, Zenon DEF Header
      <4> QED BY <4>2, Zenon
    <3> QED BY <3>8, <3>9, <3>10, <3>11, Zenon
  <2> QED BY <2>5, <2>6, <2>7, <2>8, Zenon
<1> QED BY <1>1, <1>2, <1>3, <1>4, Zenon

-----------------------------------------------------------------------------
(* What Encoder::encode writes.                                            *)

\* Every length up to max_payload is encoded as a length field of that value.
LEMMA LengthFits == ASSUME NEW v \in 0..MaxPayload PROVE Lengthy(EncodeVarint[v]) /\ Value(EncodeVarint[v]) = v
<1>1. v \in Nat /\ v <= MaxPayload
  BY LimitsAreNat
<1>2. Whole(EncodeVarint[v]) /\ Value(EncodeVarint[v]) = v
  BY <1>1, EncodeIsWhole, Zenon
<1>3. Fits(EncodeVarint[v])
  BY LengthsAssumption, Zenon DEF Fits
<1> QED BY <1>1, <1>2, <1>3, Zenon DEF Lengthy, Taken

\* pick_bucket returns the length or a bucket.
LEMMA BucketIs == ASSUME NEW n \in 0..MaxPayload PROVE PickBucket(n) \in 0..MaxPayload
<1> DEFINE fit == {i \in 1..Len(Buckets) : Buckets[i] >= n}
           first == CHOOSE i \in fit : \A k \in fit : i <= k
<1>1. CASE fit = {}
  BY <1>1, Zenon DEF PickBucket
<1>2. CASE fit # {}
  <2>1. Len(Buckets) \in Nat /\ \A i \in 1..Len(Buckets) : Buckets[i] \in Nat /\ Buckets[i] <= MaxPayload
    BY FramingAssumption, LengthsAssumption, SMTT(30)
  <2>2. fit \subseteq Nat
    OBVIOUS
  <2>3. \E i \in fit : \A k \in fit : i <= k
    <3> HIDE DEF fit
    <3> QED BY <1>2, <2>2, LeastNat, Zenon
  <2>4. first \in fit
    <3> HIDE DEF fit
    <3> QED BY <2>3, Zenon
  <2>5. Buckets[first] \in 0..MaxPayload
    <3>1. first \in 1..Len(Buckets)
      BY <2>4, Zenon
    <3> HIDE DEF first
    <3> QED BY <2>1, <3>1, LimitsAreNat
  <2>6. PickBucket(n) = Buckets[first]
    BY <1>2, Zenon DEF PickBucket
  <2> QED BY <2>5, <2>6, Zenon
<1> QED BY <1>1, <1>2, Zenon

\* A frame on the wire: a header, and exactly the payload and the pad.
OnWire(e, f, u, w, r) ==
    Header(e, f.type, u, w, r) /\ Len(r) = Value(u) + Value(w) /\ SubSeq(r, 1, Value(u)) = f.payload

LEMMA ZerosAre == ASSUME NEW n \in Nat PROVE Zeros(n) \in Seq(Byte) /\ Len(Zeros(n)) = n
<1>1. 0 \in Byte
  BY BaseIsNat DEF Byte
<1> QED BY <1>1 DEF Zeros

LEMMA PayloadIs == ASSUME NEW n \in Nat PROVE Payload(n) \in Seq(Byte) /\ Len(Payload(n)) = n
<1>1. \A i \in 1..n : (i + 1) % (2 * Base) \in Byte
  BY BaseIsNat DEF Byte
<1> QED BY <1>1 DEF Payload

LEMMA FrameIs ==
    ASSUME NEW f \in Frames
    PROVE  /\ f.type \in Byte /\ f.payload \in Seq(Byte) /\ Len(f.payload) \in 0..MaxPayload
           /\ f = [type |-> f.type, payload |-> f.payload]
<1>1. f.type \in {DataType, ChaffType} /\ f = [type |-> f.type, payload |-> f.payload]
  BY Zenon DEF Frames
<1>2. PICK n \in FrameLens : f.payload = Payload(n)
  BY Zenon DEF Frames
<1>3. n \in 0..MaxPayload /\ n \in Nat
  BY FramingAssumption
<1>4. f.type \in Byte
  BY <1>1, BaseIsNat DEF Byte, DataType, ChaffType
<1> QED BY <1>1, <1>2, <1>3, <1>4, PayloadIs, Zenon

\* The encoding of a frame, once its pad is known.
Encoded(f, pad) ==
    <<WireVer, f.type>> \o EncodeVarint[Len(f.payload)] \o EncodeVarint[pad] \o f.payload \o Zeros(pad)

LEMMA PadIs ==
    ASSUME NEW f \in Frames, NEW bucketed \in BOOLEAN
    PROVE  \E pad \in 0..MaxPayload : Encode(f, bucketed) = Encoded(f, pad)
<1>1. PICK len \in 0..MaxPayload : len = Len(f.payload)
  BY FrameIs, Zenon
<1>2. PICK bucket \in 0..MaxPayload : bucket = IF bucketed THEN PickBucket(len) ELSE len
  BY BucketIs, Zenon
<1>3. PICK pad : pad = IF bucket > len THEN bucket - len ELSE 0
  BY Zenon
<1>4. pad \in 0..MaxPayload
  BY <1>3, LimitsAreNat
<1>5. Encode(f, bucketed) = Encoded(f, pad)
  BY <1>1, <1>2, <1>3, Zenon DEF Encode, Encoded
<1> QED BY <1>4, <1>5, Zenon

Five(a, b, c, d, e) == (((a \o b) \o c) \o d) \o e = a \o (b \o (c \o (d \o e)))

LEMMA FiveParts ==
    ASSUME NEW a \in Seq(Byte), NEW b \in Seq(Byte), NEW c \in Seq(Byte), NEW d \in Seq(Byte),
           NEW e \in Seq(Byte)
    PROVE  Five(a, b, c, d, e)
<1>1. PICK ab \in Seq(Byte), de \in Seq(Byte) : ab = a \o b /\ de = d \o e
  BY ConcatType, Zenon
<1>2. PICK abc \in Seq(Byte), cde \in Seq(Byte) : abc = ab \o c /\ cde = c \o de
  BY ConcatType, Zenon
<1>3. Assoc(abc, d, e)
  BY ConcatThree, Zenon
<1>4. Assoc(ab, c, de)
  BY ConcatThree, Zenon
<1>5. Assoc(a, b, cde)
  BY ConcatThree, Zenon
<1>6. (((a \o b) \o c) \o d) \o e = a \o (b \o (c \o (d \o e)))
  BY <1>1, <1>2, <1>3, <1>4, <1>5, Zenon DEF Assoc
<1> QED BY <1>6, Zenon DEF Five

\* What the encoder writes has a header, and after it the payload and the pad.
LEMMA EncodeOnWire ==
    ASSUME NEW f \in Frames, NEW bucketed \in BOOLEAN
    PROVE  \E u, w, r : OnWire(Encode(f, bucketed), f, u, w, r)
<1>1. PICK pad \in 0..MaxPayload : Encode(f, bucketed) = Encoded(f, pad)
  BY PadIs, Zenon
<1>2. PICK len \in 0..MaxPayload, p \in Seq(Byte), z \in Seq(Byte), ty \in Byte :
         len = Len(f.payload) /\ p = f.payload /\ z = Zeros(pad) /\ ty = f.type /\ Len(z) = pad
  <2>1. pad \in Nat
    BY LimitsAreNat
  <2> QED BY <2>1, FrameIs, ZerosAre, Zenon
<1>3. PICK u, w : /\ u = EncodeVarint[len] /\ w = EncodeVarint[pad] /\ Lengthy(u) /\ Lengthy(w)
                  /\ Value(u) = len /\ Value(w) = pad
  BY LengthFits, Zenon
<1>4. u \in Seq(Byte) /\ w \in Seq(Byte)
  BY <1>3, TakenIs, Zenon DEF Lengthy
<1>5. PICK r \in Seq(Byte) : r = p \o z /\ Len(r) = Len(p) + Len(z)
  BY ConcatType, Zenon
<1>6. PICK a \in Seq(Byte) : a = <<WireVer, ty>>
  BY PrefixOf, Zenon
<1>7. Encoded(f, pad) = (((a \o u) \o w) \o p) \o z
  BY <1>2, <1>3, <1>6, Zenon DEF Encoded
<1>8. (((a \o u) \o w) \o p) \o z = a \o (u \o (w \o (p \o z)))
  <2>1. Five(a, u, w, p, z)
    BY <1>4, FiveParts, Zenon
  <2> QED BY <2>1, Zenon DEF Five
<1>9. Header(Encode(f, bucketed), f.type, u, w, r)
  BY <1>1, <1>2, <1>3, <1>5, <1>6, <1>7, <1>8, Zenon DEF Header
<1>10. Len(r) = Value(u) + Value(w)
  BY <1>2, <1>3, <1>5, Zenon
<1>11. SubSeq(r, 1, Value(u)) = f.payload
  <2>1. SubSeq(p \o z, 1, Len(p)) = p
    BY CutBack, Zenon
  <2> QED BY <1>2, <1>3, <1>5, <2>1, Zenon
<1> QED BY <1>9, <1>10, <1>11, Zenon DEF OnWire

-----------------------------------------------------------------------------
(* Frames and parts of frames.                                             *)

\* A whole frame is decoded as what was encoded, whatever follows.
LEMMA DecodeWhole ==
    ASSUME NEW f \in Frames, NEW e, NEW u, NEW w, NEW r, OnWire(e, f, u, w, r), NEW x \in Seq(Byte)
    PROVE  Decode(e \o x) = [is |-> "frame", n |-> Len(e), frame |-> f]
<1>1. PICK ty \in Byte : ty = f.type /\ f = [type |-> ty, payload |-> f.payload]
  BY FrameIs, Zenon
<1>2. Header(e, ty, u, w, r) /\ Len(r) = Value(u) + Value(w) /\ SubSeq(r, 1, Value(u)) = f.payload
  BY <1>1, Zenon DEF OnWire
<1>3. HeaderFacts(e, ty, u, w, r)
  BY <1>2, HeaderIs, Zenon
<1>4. /\ u \in Seq(Byte) /\ w \in Seq(Byte) /\ r \in Seq(Byte)
      /\ Len(e) = 2 + Len(u) + Len(w) + Len(r)
  BY <1>3, Zenon DEF HeaderFacts
<1>5. Lengthy(u) /\ Lengthy(w) /\ e = <<WireVer, ty>> \o (u \o (w \o r))
  BY <1>2, Zenon DEF Header
<1>6. PICK m \in Nat, k \in Nat : m = Value(u) /\ k = Value(w)
  BY <1>5, TakenIs, Zenon DEF Lengthy
<1>7. PICK g \in Seq(Byte), y \in Seq(Byte) :
         g = <<WireVer, ty>> /\ y = r \o x /\ Len(y) = Len(r) + Len(x) /\ Len(r) \in Nat /\ Len(x) \in Nat
  BY <1>4, PrefixOf, ConcatType, Zenon
<1>8. PICK c \in Seq(Byte) : c = w \o r
  BY <1>4, ConcatType, Zenon
<1>9. PICK a \in Seq(Byte) : a = u \o c
  BY <1>4, ConcatType, Zenon
<1>10. e \o x = g \o (u \o (w \o y))
  <2>1. Assoc(g, a, x)
    BY ConcatThree, Zenon
  <2>2. Assoc(u, c, x)
    BY <1>4, ConcatThree, Zenon
  <2>3. Assoc(w, r, x)
    BY <1>4, ConcatThree, Zenon
  <2> QED BY <1>5, <1>7, <1>8, <1>9, <2>1, <2>2, <2>3, Zenon DEF Assoc
<1>11. Header(e \o x, ty, u, w, y)
  BY <1>5, <1>7, <1>10, Zenon DEF Header
<1>12. ~(Len(y) < m + k) /\ m <= Len(r)
  <2>1. Len(r) = m + k
    BY <1>2, <1>6, Zenon
  <2> QED BY <1>7, <2>1
<1>13. Decode(e \o x) = FrameOf(ty, u, w, y)
  BY <1>6, <1>11, <1>12, DecodeHeader, Zenon
<1>14. SubSeq(y, 1, m) = f.payload
  <2>1. SubSeq(r \o x, 1, m) = SubSeq(r, 1, m)
    BY <1>4, <1>12, SubSeqJoined, Zenon
  <2> QED BY <1>2, <1>6, <1>7, <2>1, Zenon
<1>15. 2 + Len(u) + Len(w) + m + k = Len(e)
  <2>1. PICK i \in Nat, j \in Nat, l \in Nat : i = Len(u) /\ j = Len(w) /\ l = Len(r)
    BY <1>4
  <2>2. Len(e) = 2 + i + j + l /\ l = m + k
    BY <1>2, <1>4, <1>6, <2>1, Zenon
  <2>3. 2 + i + j + m + k = Len(e)
    BY <2>2
  <2> QED BY <2>1, <2>3, Zenon
<1> QED BY <1>1, <1>6, <1>13, <1>14, <1>15, Zenon DEF FrameOf

\* A part of a frame is incomplete.
LEMMA DecodePart ==
    ASSUME NEW f \in Frames, NEW e, NEW u, NEW w, NEW r, OnWire(e, f, u, w, r),
           NEW p \in Seq(Byte), NEW q \in Seq(Byte), q # <<>>, e = p \o q
    PROVE  Decode(p) = Incomplete
<1>1. PICK ty \in Byte : ty = f.type
  BY FrameIs, Zenon
<1>2. Header(e, ty, u, w, r) /\ Len(r) = Value(u) + Value(w)
  BY <1>1, Zenon DEF OnWire
<1>3. Lengthy(u) /\ Lengthy(w) /\ r \in Seq(Byte) /\ e = <<WireVer, ty>> \o (u \o (w \o r)) /\ Taken(u) /\ Taken(w)
  BY <1>2, Zenon DEF Header, Lengthy
<1>4. u \in Seq(Byte) /\ w \in Seq(Byte)
  BY <1>3, TakenIs, Zenon
<1>5. PICK g \in Seq(Byte) : g = <<WireVer, ty>> /\ Len(g) = 2 /\ g[1] = WireVer
  <2>1. <<WireVer, ty>>[1] = WireVer
    BY Zenon
  <2> QED BY <2>1, PrefixOf, Zenon
<1>6. PICK c \in Seq(Byte) : c = w \o r
  BY <1>3, <1>4, ConcatType, Zenon
<1>7. PICK a \in Seq(Byte) : a = u \o c
  BY <1>4, ConcatType, Zenon
<1>8. p \o q = g \o a
  BY <1>3, <1>5, <1>6, <1>7, Zenon
<1>9. \/ \E s : Shorter(Byte, p, g, s)
      \/ \E s \in Seq(Byte) : p = g \o s /\ a = s \o q
  <2>1. Cuts(Byte, p, q, g, a)
    BY <1>8, TwoCuts, Zenon
  <2> QED BY <2>1, Zenon DEF Cuts
<1>10. CASE \E s : Shorter(Byte, p, g, s)
  <2>1. PICK s \in Seq(Byte) : s # <<>> /\ g = p \o s
    BY <1>10, Zenon DEF Shorter
  <2>2. Len(g) = Len(p) + Len(s) /\ Len(p) \in Nat
    BY <2>1, ConcatType, Zenon
  <2>3. Len(s) \in Nat /\ Len(s) >= 1
    BY <2>1, NotEmpty, Zenon
  <2>4. Len(p) < 2
    BY <1>5, <2>2, <2>3
  <2>5. CASE p = <<>>
    BY <2>5, Zenon DEF Decode, Incomplete
  <2>6. CASE p # <<>>
    <3>1. PICK n \in Nat : n = Len(p) /\ n >= 1 /\ n < 2
      BY <2>4, <2>6, NotEmpty, Zenon
    <3>2. n = 1 /\ 1 \in 1..1
      BY <3>1
    <3>3. \A i \in 1..Len(p) : (p \o s)[i] = p[i]
      BY ConcatAt, Zenon
    <3>4. p[1] = WireVer /\ Len(p) = 1
      BY <1>5, <2>1, <3>1, <3>2, <3>3, Zenon
    <3> QED BY <2>6, <3>4, Zenon DEF Decode, Incomplete
  <2> QED BY <2>5, <2>6, Zenon
<1>11. CASE \E s \in Seq(Byte) : p = g \o s /\ a = s \o q
  <2>1. PICK p1 \in Seq(Byte) : p = g \o p1 /\ a = p1 \o q
    BY <1>11, Zenon
  <2>2. p = <<WireVer, ty>> \o p1
    BY <1>5, <2>1, Zenon
  <2>3. p # <<>> /\ p[1] = WireVer /\ Len(p) # 1
    <3>1. PrefixFacts(p, ty, p1)
      BY <2>2, PrefixAt, Zenon
    <3> QED BY <3>1, Zenon DEF PrefixFacts
  <2>4. Decode(p) = DecodeLengths(p, LengthAt(p, 3), LengthAt(p, 3 + LengthAt(p, 3).n))
    BY <2>3, DecodeOf, Zenon
  <2>5. LengthAt(p, 3) = LengthAt(g \o p1, Len(g) + 1)
    BY <1>5, <2>2, FirstLength, Zenon
  <2>6. Incomplete.is # "value" /\ Incomplete = Incomplete
    BY Zenon DEF Incomplete
  <2>7. p1 \o q = u \o c
    BY <1>7, <2>1, Zenon
  <2>8. \/ \E s : Shorter(Byte, p1, u, s)
        \/ \E s \in Seq(Byte) : p1 = u \o s /\ c = s \o q
    <3>1. Cuts(Byte, p1, q, u, c)
      BY <1>4, <2>7, TwoCuts, Zenon
    <3> QED BY <3>1, Zenon DEF Cuts
  <2>9. CASE \E s : Shorter(Byte, p1, u, s)
    <3>1. PICK s \in Seq(Byte) : s # <<>> /\ u = p1 \o s
      BY <2>9, Zenon DEF Shorter
    <3>2. DecodeVarint(p1) = Incomplete
      BY <1>3, <3>1, ReadPart, Zenon
    <3>3. LengthAt(p, 3) = Incomplete
      BY <2>5, <3>2, LengthPart, Zenon
    <3> QED BY <2>4, <2>6, <3>3, Zenon DEF DecodeLengths
  <2>10. CASE \E s \in Seq(Byte) : p1 = u \o s /\ c = s \o q
    <3>1. PICK p2 \in Seq(Byte) : p1 = u \o p2 /\ c = p2 \o q
      BY <2>10, Zenon
    <3>2. LengthAt(p, 3) = ValueOf(u)
      <4>1. LengthAt(g \o (u \o p2), Len(g) + 1) = ValueOf(u)
        BY <1>3, LengthIs, Zenon
      <4> QED BY <2>5, <3>1, <4>1, Zenon
    <3>3. LengthAt(p, 3).is = "value" /\ LengthAt(p, 3).n = Len(u)
      BY <3>2 DEF ValueOf
    <3>4. p2 \o q = w \o r
      BY <1>6, <3>1, Zenon
    <3>5. \/ \E s : Shorter(Byte, p2, w, s)
          \/ \E s \in Seq(Byte) : p2 = w \o s /\ r = s \o q
      <4>1. Cuts(Byte, p2, q, w, r)
        BY <1>3, <1>4, <3>4, TwoCuts, Zenon
      <4> QED BY <4>1, Zenon DEF Cuts
    <3>6. CASE \E s : Shorter(Byte, p2, w, s)
      <4>1. PICK s \in Seq(Byte) : s # <<>> /\ w = p2 \o s
        BY <3>6, Zenon DEF Shorter
      <4>2. DecodeVarint(p2) = Incomplete
        BY <1>3, <4>1, ReadPart, Zenon
      <4>3. PICK h \in Seq(Byte) : LengthAt(p, 3 + Len(u)) = LengthAt(h \o p2, Len(h) + 1)
        <5>1. p = <<WireVer, ty>> \o (u \o p2)
          BY <2>2, <3>1, Zenon
        <5>2. Second(p, u, p2)
          BY <1>4, <5>1, SecondLength, Zenon
        <5> QED BY <5>2, Zenon DEF Second
      <4>4. LengthAt(p, 3 + Len(u)) = Incomplete
        BY <4>2, <4>3, LengthPart, Zenon
      <4> QED BY <2>4, <2>6, <3>3, <4>4, Zenon DEF DecodeLengths
    <3>7. CASE \E s \in Seq(Byte) : p2 = w \o s /\ r = s \o q
      <4>1. PICK p3 \in Seq(Byte) : p2 = w \o p3 /\ r = p3 \o q
        BY <3>7, Zenon
      <4>2. Header(p, ty, u, w, p3)
        BY <1>3, <2>2, <3>1, <4>1, Zenon DEF Header
      <4>3. Len(r) = Len(p3) + Len(q) /\ Len(p3) \in Nat
        BY <4>1, ConcatType, Zenon
      <4>4. Len(q) \in Nat /\ Len(q) >= 1
        BY NotEmpty, Zenon
      <4>5. Len(p3) < Len(r)
        BY <4>3, <4>4
      <4>6. Len(p3) < Value(u) + Value(w)
        BY <1>2, <4>5, Zenon
      <4> QED BY <4>2, <4>6, DecodeHeader, Zenon
    <3> QED BY <3>5, <3>6, <3>7, Zenon
  <2> QED BY <2>8, <2>9, <2>10, Zenon
<1> QED BY <1>9, <1>10, <1>11, Zenon

-----------------------------------------------------------------------------
(* The reader.                                                             *)

AnyFrame == [type : Byte, payload : Seq(Byte)]

\* What decode makes of a buffer: it holds nothing that can become a frame, it holds the
\* beginning of one, or a whole one comes first.
Complete(b, ty, u, w, r) == Header(b, ty, u, w, r) /\ ~(Len(r) < Value(u) + Value(w))

Outcome(b) ==
    \/ Decode(b) = Malformed
    \/ Decode(b) = Incomplete
    \/ \E ty, u, w, r : Complete(b, ty, u, w, r) /\ Decode(b) = FrameOf(ty, u, w, r)

\* There is no other outcome.
LEMMA OneOutcome == ASSUME NEW b \in Seq(Byte) PROVE Outcome(b)
<1>1. CASE \E ty, u, w, r : Header(b, ty, u, w, r)
  <2>1. PICK ty, u, w, r : Header(b, ty, u, w, r)
    BY <1>1, Zenon
  <2>2. Decode(b) = IF Len(r) < Value(u) + Value(w) THEN Incomplete ELSE FrameOf(ty, u, w, r)
    BY <2>1, DecodeHeader, Zenon
  <2> QED BY <2>1, <2>2, Zenon DEF Complete, Outcome
<1> QED BY <1>1, DecodeCases, Zenon DEF Outcome

\* A buffer that is waited on.
Short(b) ==
    /\ Len(b) < 2 + 2 * VarintMaxBytes + 2 * MaxPayload
    /\ Len(b) >= 2 + 2 * VarintMaxBytes => LengthsKnown(b)

\* What is waited on is less than the largest frame.
LEMMA WaitingIsShort ==
    ASSUME NEW b \in Seq(Byte), Decode(b) = Incomplete PROVE Short(b)
<1>1. Len(b) \in Nat
  OBVIOUS
<1>2. CASE Len(b) < 2 + 2 * VarintMaxBytes
  <2>1. ~(Len(b) >= 2 + 2 * VarintMaxBytes) /\ Len(b) < 2 + 2 * VarintMaxBytes + 2 * MaxPayload
    BY <1>1, <1>2, LimitsAreNat
  <2> QED BY <2>1, Zenon DEF Short
<1>3. CASE \E ty, u, w, r : Header(b, ty, u, w, r)
  <2>1. PICK ty, u, w, r : Header(b, ty, u, w, r)
    BY <1>3, Zenon
  <2>2. LengthsKnown(b) /\ Decode(b) = IF Len(r) < Value(u) + Value(w) THEN Incomplete ELSE FrameOf(ty, u, w, r)
    BY <2>1, DecodeHeader, Zenon
  <2>3. Len(r) < Value(u) + Value(w)
    <3>1. FrameOf(ty, u, w, r).is = "frame" /\ Incomplete.is = "incomplete"
      BY Zenon DEF FrameOf, Incomplete
    <3>2. "frame" # "incomplete"
      BY Zenon
    <3> QED BY <2>2, <3>1, <3>2, Zenon
  <2>4. Lengthy(u) /\ Lengthy(w) /\ Taken(u) /\ Taken(w) /\ r \in Seq(Byte)
    BY <2>1, Zenon DEF Header, Lengthy
  <2>5. PICK m \in Nat, k \in Nat, p \in Nat, q \in Nat :
           /\ m = Value(u) /\ k = Value(w) /\ p = Len(u) /\ q = Len(w)
           /\ p <= VarintMaxBytes /\ q <= VarintMaxBytes /\ m <= MaxPayload /\ k <= MaxPayload
    BY <2>4, TakenIs, Zenon DEF Lengthy
  <2>6. PICK l \in Nat : l = Len(r)
    BY <2>4
  <2>7. Len(b) = 2 + p + q + l
    <3>1. HeaderFacts(b, ty, u, w, r)
      BY <2>1, HeaderIs, Zenon
    <3> QED BY <2>5, <2>6, <3>1, Zenon DEF HeaderFacts
  <2>8. l < m + k
    BY <2>3, <2>5, <2>6, Zenon
  <2>9. Len(b) < 2 + 2 * VarintMaxBytes + 2 * MaxPayload
    BY <2>5, <2>7, <2>8, LimitsAreNat, SMTT(30)
  <2> QED BY <2>2, <2>9, Zenon DEF Short
<1>4. Decode(b) # Malformed
  BY DEF Malformed, Incomplete
<1> QED BY <1>2, <1>3, <1>4, DecodeCases, Zenon

\* The bytes t of a frame f: what AcceptsOnlyCanonical says of the last one.
Canonical(f, t) ==
    LET len == Len(f.payload)
    IN  /\ len <= MaxPayload
        /\ \E pad \in 0..MaxPayload :
              LET head == <<WireVer, f.type>> \o EncodeVarint[len] \o EncodeVarint[pad] IN
              /\ Len(t) = Len(head) + len + pad
              /\ SubSeq(t, 1, Len(head) + len) = head \o f.payload

\* A complete frame and what follows it.
FrameTaken(b, d) ==
    /\ d.is = "frame" /\ d.frame \in AnyFrame /\ Canonical(d.frame, SubSeq(b, 1, d.n))
    /\ SubSeq(b, d.n + 1, Len(b)) \in Seq(Byte)

\* A frame that is returned was encoded canonically.
LEMMA CompleteIsTaken ==
    ASSUME NEW b, NEW ty, NEW u, NEW w, NEW r, Complete(b, ty, u, w, r)
    PROVE  FrameTaken(b, FrameOf(ty, u, w, r))
<1>1. Header(b, ty, u, w, r) /\ ~(Len(r) < Value(u) + Value(w))
  BY Zenon DEF Complete
<1>2. HeaderFacts(b, ty, u, w, r)
  BY <1>1, HeaderIs, Zenon
<1>3. /\ b \in Seq(Byte) /\ u \in Seq(Byte) /\ w \in Seq(Byte) /\ r \in Seq(Byte)
      /\ Len(b) = 2 + Len(u) + Len(w) + Len(r)
  BY <1>2, Zenon DEF HeaderFacts
<1>4. /\ ty \in Byte /\ Lengthy(u) /\ Lengthy(w) /\ b = <<WireVer, ty>> \o (u \o (w \o r))
      /\ Taken(u) /\ Taken(w)
  BY <1>1, Zenon DEF Header, Lengthy
<1>5. PICK m \in Nat, k \in Nat, i \in Nat, j \in Nat, l \in Nat :
         /\ m = Value(u) /\ k = Value(w) /\ i = Len(u) /\ j = Len(w) /\ l = Len(r)
         /\ m <= MaxPayload /\ k <= MaxPayload /\ EncodeVarint[m] = u /\ EncodeVarint[k] = w
  <2>1. Len(r) \in Nat
    BY <1>3
  <2> QED BY <1>4, <2>1, TakenIs, Zenon DEF Lengthy
<1>6. ~(l < m + k) /\ Len(b) = 2 + i + j + l
  BY <1>1, <1>3, <1>5, Zenon
<1>7. m <= Len(r) /\ m <= l
  BY <1>5, <1>6
<1>8. PICK p \in Seq(Byte), y \in Seq(Byte) : p = SubSeq(r, 1, m) /\ Len(p) = m /\ r = p \o y
  <2>1. Parts(Byte, r, m, SubSeq(r, 1, m), SubSeq(r, m + 1, Len(r)))
    BY <1>3, <1>7, CutAt, Zenon
  <2> QED BY <2>1, Zenon DEF Parts
<1>9. Len(r) = Len(p) + Len(y) /\ Len(y) \in Nat
  BY <1>8, ConcatType, Zenon
<1>10. k <= Len(y)
  <2>1. l = m + Len(y)
    BY <1>5, <1>8, <1>9, Zenon
  <2> QED BY <1>6, <1>9, <2>1
<1>11. PICK z \in Seq(Byte), x \in Seq(Byte) : Len(z) = k /\ y = z \o x
  <2>1. Parts(Byte, y, k, SubSeq(y, 1, k), SubSeq(y, k + 1, Len(y)))
    BY <1>10, CutAt, Zenon
  <2> QED BY <2>1, Zenon DEF Parts
<1>12. PICK g \in Seq(Byte) : g = <<WireVer, ty>> /\ Len(g) = 2
  BY <1>4, PrefixOf, Zenon
<1>13. PICK gu \in Seq(Byte) : gu = g \o u /\ Len(gu) = Len(g) + Len(u)
  BY <1>3, ConcatType, Zenon
<1>14. PICK head \in Seq(Byte) : head = gu \o w /\ Len(head) = Len(gu) + Len(w)
  BY <1>3, ConcatType, Zenon
<1>15. PICK hp \in Seq(Byte) : hp = head \o p /\ Len(hp) = Len(head) + Len(p)
  BY ConcatType, Zenon
<1>16. PICK t \in Seq(Byte) : t = hp \o z /\ Len(t) = Len(hp) + Len(z)
  BY ConcatType, Zenon
<1>17. b = t \o x
  <2>1. PICK py \in Seq(Byte) : py = p \o y
    BY <1>3, <1>8, Zenon
  <2>2. PICK wpy \in Seq(Byte) : wpy = w \o py
    BY <1>3, ConcatType, Zenon
  <2>3. Assoc(g, u, wpy)
    BY <1>3, ConcatThree, Zenon
  <2>4. Assoc(gu, w, py)
    BY <1>3, ConcatThree, Zenon
  <2>5. Assoc(head, p, y)
    BY ConcatThree, Zenon
  <2>6. Assoc(hp, z, x)
    BY ConcatThree, Zenon
  <2>7. b = g \o (u \o (w \o (p \o y)))
    BY <1>4, <1>8, <1>12, Zenon
  <2>8. b = gu \o (w \o (p \o y))
    BY <1>13, <2>1, <2>2, <2>3, <2>7, Zenon DEF Assoc
  <2>9. b = head \o (p \o y)
    BY <1>14, <2>1, <2>4, <2>8, Zenon DEF Assoc
  <2>10. b = hp \o (z \o x)
    BY <1>11, <1>15, <2>5, <2>9, Zenon DEF Assoc
  <2> QED BY <1>16, <2>6, <2>10, Zenon DEF Assoc
<1>18. PICK n \in Nat : n = Len(t) /\ n = 2 + i + j + m + k /\ n = Len(head) + m + k
  <2>1. Len(head) = 2 + i + j
    BY <1>5, <1>12, <1>13, <1>14, Zenon
  <2>2. Len(t) = (2 + i + j + m) + k
    BY <1>8, <1>11, <1>15, <1>16, <2>1, Zenon
  <2>3. Len(t) \in Nat
    BY <2>2
  <2> QED BY <2>1, <2>2, <2>3, Zenon
<1>19. SubSeq(b, 1, n) = t /\ SubSeq(b, n + 1, Len(b)) = x
  <2>1. SubSeq(t \o x, 1, Len(t)) = t /\ SubSeq(t \o x, Len(t) + 1, Len(t \o x)) = x
    BY CutBack, Zenon
  <2> QED BY <1>17, <1>18, <2>1, Zenon
<1>20. PICK f : f = [type |-> ty, payload |-> p]
  BY Zenon
<1>21. f.type = ty /\ f.payload = p /\ f \in AnyFrame
  BY <1>4, <1>20 DEF AnyFrame
<1>22. Canonical(f, t)
  <2>1. k \in 0..MaxPayload
    BY <1>5, LimitsAreNat
  <2>2. <<WireVer, f.type>> \o EncodeVarint[Len(f.payload)] \o EncodeVarint[k] = head
    BY <1>5, <1>8, <1>12, <1>13, <1>14, <1>21, Zenon
  <2>3. SubSeq(t, 1, Len(head) + Len(f.payload)) = hp
    <3>1. SubSeq(hp \o z, 1, Len(hp)) = hp
      BY CutBack, Zenon
    <3> QED BY <1>15, <1>16, <1>21, <3>1, Zenon
  <2>4. Len(t) = Len(head) + Len(f.payload) + k
    BY <1>8, <1>18, <1>21, Zenon
  <2> QED BY <1>5, <1>8, <1>15, <1>21, <2>1, <2>2, <2>3, <2>4, Zenon DEF Canonical
<1>23. PICK d : d = FrameOf(ty, u, w, r)
  BY Zenon
<1>24. d.is = "frame" /\ d.n = n /\ d.frame = f
  BY <1>5, <1>8, <1>18, <1>20, <1>23, Zenon DEF FrameOf
<1> QED BY <1>19, <1>21, <1>22, <1>23, <1>24, Zenon DEF FrameTaken

-----------------------------------------------------------------------------
(* The bytes of a stream of frames.                                        *)

\* g is the function that Wire(fs, bucketed) computes, up to n.
WireRec(fs, bucketed, n, g) == g = [k \in 0..n |->
    IF k = 0 THEN <<>> ELSE g[k - 1] \o Encode(fs[k], bucketed)]

\* The recursion of Wire has a solution.
LEMMA WireExists ==
    ASSUME NEW fs, NEW bucketed PROVE \A n \in Nat : \E g : WireRec(fs, bucketed, n, g)
<1> DEFINE T == {n \in Nat : \E g : WireRec(fs, bucketed, n, g)}
<1>1. 0 \in T
  <2>1. PICK g : g = [k \in 0..0 |-> <<>>]
    BY Zenon
  <2>2. WireRec(fs, bucketed, 0, g)
    BY <2>1 DEF WireRec
  <2> QED BY <2>2, Zenon
<1>2. ASSUME NEW n \in Nat, n \in T PROVE n + 1 \in T
  <2>1. PICK g : WireRec(fs, bucketed, n, g)
    BY <1>2, Zenon
  <2>2. PICK last : last = g[n] \o Encode(fs[n + 1], bucketed)
    BY Zenon
  <2> DEFINE h == [k \in 0..n + 1 |-> IF k <= n THEN g[k] ELSE last]
  <2>3. \A k \in 0..n : g[k] = IF k = 0 THEN <<>> ELSE g[k - 1] \o Encode(fs[k], bucketed)
    BY <2>1, Zenon DEF WireRec
  <2>4. /\ \A k \in 0..n : h[k] = g[k]
        /\ h[n + 1] = last
    OBVIOUS
  <2>5. h = [k \in 0..n + 1 |-> h[k]]
    BY Zenon
  <2> HIDE DEF h
  <2>6. ASSUME NEW k \in 0..n + 1
        PROVE  h[k] = IF k = 0 THEN <<>> ELSE h[k - 1] \o Encode(fs[k], bucketed)
    <3>1. CASE k = n + 1
      <4>1. k # 0 /\ k - 1 = n /\ n \in 0..n
        BY <3>1
      <4> QED BY <2>2, <2>4, <3>1, <4>1, Zenon
    <3>2. CASE k # n + 1
      <4>1. k \in 0..n /\ (k # 0 => k - 1 \in 0..n)
        BY <3>2
      <4> QED BY <2>3, <2>4, <4>1, Zenon
    <3> QED BY <3>1, <3>2, Zenon
  <2>7. WireRec(fs, bucketed, n + 1, h)
    BY <2>5, <2>6, Zenon DEF WireRec
  <2> QED BY <2>7
<1> HIDE DEF T
<1>3. \A n \in Nat : n \in T
  BY <1>1, <1>2, Induction, Zenon
<1> QED BY <1>3, Zenon DEF T

LEMMA EncodeType ==
    ASSUME NEW f \in Frames, NEW bucketed \in BOOLEAN PROVE Encode(f, bucketed) \in Seq(Byte)
<1>1. PICK u, w, r : OnWire(Encode(f, bucketed), f, u, w, r)
  BY EncodeOnWire, Zenon
<1>2. HeaderFacts(Encode(f, bucketed), f.type, u, w, r)
  BY <1>1, HeaderIs, Zenon DEF OnWire
<1> QED BY <1>2, Zenon DEF HeaderFacts

\* pre[k] is what the first k frames are encoded as.
Sums(fs, bucketed, pre) ==
    pre[0] = <<>> /\ \A k \in 1..Len(fs) : pre[k] = pre[k - 1] \o Encode(fs[k], bucketed)

\* The bytes of a stream, frame by frame.
LEMMA SumsExist ==
    ASSUME NEW fs, NEW bucketed, Len(fs) \in Nat
    PROVE  \E pre : Sums(fs, bucketed, pre) /\ pre[Len(fs)] = Wire(fs, bucketed)
<1> DEFINE v == CHOOSE g : WireRec(fs, bucketed, Len(fs), g)
<1>1. Wire(fs, bucketed) = v[Len(fs)]
  BY Zenon DEF Wire, WireRec
<1>2. WireRec(fs, bucketed, Len(fs), v)
  BY WireExists, Zenon
<1> HIDE DEF v
<1>3. Sums(fs, bucketed, v)
  <2>1. 0 \in 0..Len(fs) /\ \A k \in 1..Len(fs) : k \in 0..Len(fs) /\ k # 0
    OBVIOUS
  <2> QED BY <1>2, <2>1, Zenon DEF Sums, WireRec
<1> QED BY <1>1, <1>3, Zenon

LEMMA SumsType ==
    ASSUME NEW fs \in Seq(Frames), NEW bucketed \in BOOLEAN, NEW pre, Sums(fs, bucketed, pre)
    PROVE  \A k \in Nat : k <= Len(fs) => pre[k] \in Seq(Byte)
<1> DEFINE T == {k \in Nat : k <= Len(fs) => pre[k] \in Seq(Byte)}
<1>1. 0 \in T
  <2>1. <<>> \in Seq(Byte) /\ 0 \in Nat
    OBVIOUS
  <2>2. pre[0] \in Seq(Byte)
    BY <2>1, Zenon DEF Sums
  <2> QED BY <2>1, <2>2, Zenon
<1>2. ASSUME NEW k \in Nat, k \in T PROVE k + 1 \in T
  <2> SUFFICES ASSUME k + 1 <= Len(fs) PROVE pre[k + 1] \in Seq(Byte)
    OBVIOUS
  <2>1. k + 1 \in 1..Len(fs) /\ (k + 1) - 1 = k /\ k <= Len(fs) /\ fs[k + 1] \in Frames
    OBVIOUS
  <2>2. pre[k] \in Seq(Byte)
    BY <1>2, <2>1, Zenon
  <2>3. pre[k + 1] = pre[k] \o Encode(fs[k + 1], bucketed)
    BY <2>1, Zenon DEF Sums
  <2>4. Encode(fs[k + 1], bucketed) \in Seq(Byte)
    BY <2>1, EncodeType, Zenon
  <2> QED BY <2>2, <2>3, <2>4, ConcatType, Zenon
<1> HIDE DEF T
<1>3. \A k \in Nat : k \in T
  BY <1>1, <1>2, Induction, SMTT(30)
<1> QED BY <1>3, Zenon DEF T

\* What follows the first j frames.
Rest(fs, pre, j) == \E y \in Seq(Byte) : pre[Len(fs)] = pre[j] \o y

\* The bytes after the first j frames.
LEMMA SumsRest ==
    ASSUME NEW fs \in Seq(Frames), NEW bucketed \in BOOLEAN, NEW pre, Sums(fs, bucketed, pre),
           NEW j \in Nat, j <= Len(fs)
    PROVE  Rest(fs, pre, j)
<1> DEFINE T == {m \in Nat : j + m <= Len(fs) => \E y \in Seq(Byte) : pre[j + m] = pre[j] \o y}
<1>0. pre[j] \in Seq(Byte) /\ Len(fs) \in Nat
  BY SumsType
<1>1. 0 \in T
  <2>1. pre[j] = pre[j] \o <<>> /\ <<>> \in Seq(Byte) /\ j + 0 = j
    BY <1>0
  <2> QED BY <2>1, Zenon
<1>2. ASSUME NEW m \in Nat, m \in T PROVE m + 1 \in T
  <2> SUFFICES ASSUME j + (m + 1) <= Len(fs) PROVE \E y \in Seq(Byte) : pre[j + (m + 1)] = pre[j] \o y
    OBVIOUS
  <2>1. PICK i \in Nat : i = j + (m + 1) /\ i \in 1..Len(fs) /\ i - 1 = j + m /\ j + m <= Len(fs)
    BY <1>0
  <2>2. PICK y \in Seq(Byte) : pre[j + m] = pre[j] \o y
    BY <1>2, <2>1, Zenon
  <2>3. PICK e \in Seq(Byte) : e = Encode(fs[i], bucketed)
    <3>1. fs[i] \in Frames
      BY <2>1
    <3> QED BY <3>1, EncodeType, Zenon
  <2>4. pre[i] = pre[i - 1] \o e
    BY <2>1, <2>3, Zenon DEF Sums
  <2>5. PICK p \in Seq(Byte) : p = pre[j]
    BY <1>0, Zenon
  <2>6. Assoc(p, y, e)
    BY ConcatThree, Zenon
  <2>7. pre[i] = p \o (y \o e) /\ y \o e \in Seq(Byte)
    <3>1. y \o e \in Seq(Byte)
      BY ConcatType, Zenon
    <3> QED BY <2>1, <2>2, <2>4, <2>5, <2>6, <3>1, Zenon DEF Assoc
  <2> QED BY <2>1, <2>5, <2>7, Zenon
<1> HIDE DEF T
<1>3. \A m \in Nat : m \in T
  BY <1>1, <1>2, Induction, Zenon
<1>4. Len(fs) - j \in Nat /\ j + (Len(fs) - j) = Len(fs)
  BY <1>0
<1>5. Len(fs) - j \in T
  BY <1>3, <1>4, Zenon
<1>6. j + (Len(fs) - j) <= Len(fs)
  BY <1>0, <1>4
<1> QED BY <1>4, <1>5, <1>6, Zenon DEF T, Rest

-----------------------------------------------------------------------------
(* A reader of a stream: dec are the frames it has, b and p the bytes in   *)
(* its buffer and on the way.                                              *)

Streams(fs, bucketed, pre, dec, b, p) ==
    /\ fs \in Seq(Frames) /\ Sums(fs, bucketed, pre)
    /\ Len(dec) <= Len(fs) /\ \A i \in 1..Len(dec) : dec[i] = fs[i]
    /\ pre[Len(dec)] \o (b \o p) = pre[Len(fs)]

LEMMA JoinedEmpty ==
    ASSUME NEW s \in Seq(Byte), NEW t \in Seq(Byte), s \o t = <<>> PROVE s = <<>> /\ t = <<>>
<1>1. Len(s) + Len(t) = 0 /\ Len(s) \in Nat /\ Len(t) \in Nat
  <2>1. Len(s \o t) = Len(s) + Len(t) /\ Len(s) \in Nat /\ Len(t) \in Nat
    BY ConcatType, Zenon
  <2>2. Len(<<>>) = 0
    BY Zenon
  <2> QED BY <2>1, <2>2, Zenon
<1>2. Len(s) = 0 /\ Len(t) = 0
  BY <1>1
<1>3. 0 >= 1 => FALSE
  OBVIOUS
<1> QED BY <1>2, <1>3, NotEmpty, Zenon

\* After the last frame nothing is left.
LEMMA StreamEnds ==
    ASSUME NEW bucketed \in BOOLEAN, NEW fs, NEW pre, NEW dec, NEW b \in Seq(Byte), NEW p \in Seq(Byte),
           Streams(fs, bucketed, pre, dec, b, p), Len(dec) = Len(fs)
    PROVE  b = <<>> /\ p = <<>>
<1>1. PICK x \in Seq(Byte) : x = pre[Len(fs)]
  <2>1. fs \in Seq(Frames) /\ Sums(fs, bucketed, pre)
    BY Zenon DEF Streams
  <2>2. Len(fs) \in Nat /\ Len(fs) <= Len(fs)
    BY <2>1
  <2>3. \A k \in Nat : k <= Len(fs) => pre[k] \in Seq(Byte)
    BY <2>1, SumsType, Zenon
  <2> QED BY <2>2, <2>3, Zenon
<1>2. PICK y \in Seq(Byte) : y = b \o p
  BY ConcatType, Zenon
<1>3. x \o y = x
  BY <1>1, <1>2, Zenon DEF Streams
<1>4. x \o <<>> = x /\ <<>> \in Seq(Byte)
  <2>1. <<>> \in Seq(Byte)
    OBVIOUS
  <2> QED BY <2>1, ConcatNone, Zenon
<1>5. y = <<>>
  <2>1. x \o y = x \o <<>>
    BY <1>3, <1>4, Zenon
  <2> QED BY <1>4, <2>1, Cancel, Zenon
<1> QED BY <1>2, <1>5, JoinedEmpty, Zenon

\* Before it, the next frame comes first.
NextIs(e, b, p) == e \in Seq(Byte) /\ \E y \in Seq(Byte) : b \o p = e \o y

LEMMA StreamGoesOn ==
    ASSUME NEW bucketed \in BOOLEAN, NEW fs, NEW pre, NEW dec, NEW b \in Seq(Byte), NEW p \in Seq(Byte),
           Streams(fs, bucketed, pre, dec, b, p), Len(dec) \in Nat, Len(dec) # Len(fs)
    PROVE  /\ Len(dec) + 1 \in 1..Len(fs) /\ fs[Len(dec) + 1] \in Frames
           /\ NextIs(Encode(fs[Len(dec) + 1], bucketed), b, p)
<1>1. fs \in Seq(Frames) /\ Sums(fs, bucketed, pre) /\ Len(dec) <= Len(fs)
  BY Zenon DEF Streams
<1>2. PICK n \in Nat, k \in Nat : n = Len(fs) /\ k = Len(dec)
  <2>1. Len(fs) \in Nat
    BY <1>1
  <2> QED BY <2>1, Zenon
<1>3. k + 1 \in 1..n /\ (k + 1) - 1 = k /\ k + 1 \in Nat /\ k + 1 <= n /\ k <= n
  BY <1>1, <1>2
<1>4. fs[k + 1] \in Frames
  BY <1>1, <1>2, <1>3
<1>5. PICK e \in Seq(Byte) : e = Encode(fs[k + 1], bucketed)
  BY <1>4, EncodeType, Zenon
<1>6. PICK x \in Seq(Byte) : x = pre[k]
  <2>1. \A i \in Nat : i <= Len(fs) => pre[i] \in Seq(Byte)
    BY <1>1, SumsType, Zenon
  <2> QED BY <1>2, <1>3, <2>1, Zenon
<1>7. pre[k + 1] = x \o e
  BY <1>1, <1>2, <1>3, <1>5, <1>6, Zenon DEF Sums
<1>8. PICK y \in Seq(Byte) : pre[n] = pre[k + 1] \o y
  <2>1. Rest(fs, pre, k + 1)
    BY <1>1, <1>2, <1>3, SumsRest, Zenon
  <2> QED BY <1>2, <2>1, Zenon DEF Rest
<1>9. PICK z \in Seq(Byte), ey \in Seq(Byte) : z = b \o p /\ ey = e \o y
  BY ConcatType, Zenon
<1>10. x \o z = x \o ey
  <2>1. x \o z = pre[n]
    BY <1>2, <1>6, <1>9, Zenon DEF Streams
  <2>2. Assoc(x, e, y)
    BY ConcatThree, Zenon
  <2> QED BY <1>7, <1>8, <1>9, <2>1, <2>2, Zenon DEF Assoc
<1>11. z = ey
  BY <1>10, Cancel, Zenon
<1>12. NextIs(e, b, p)
  BY <1>9, <1>11, Zenon DEF NextIs
<1> QED BY <1>2, <1>3, <1>4, <1>5, <1>12, Zenon

\* What decode makes of the buffer.
FirstIs(f, e, b) ==
    /\ Decode(b) = [is |-> "frame", n |-> Len(e), frame |-> f]
    /\ \E x \in Seq(Byte) : b = e \o x

LEMMA StreamDecodes ==
    ASSUME NEW f \in Frames, NEW bucketed \in BOOLEAN, NEW b \in Seq(Byte), NEW p \in Seq(Byte),
           NextIs(Encode(f, bucketed), b, p)
    PROVE  /\ Decode(b) = Incomplete \/ FirstIs(f, Encode(f, bucketed), b)
           /\ p = <<>> => FirstIs(f, Encode(f, bucketed), b)
<1>1. PICK e \in Seq(Byte), y \in Seq(Byte) : e = Encode(f, bucketed) /\ b \o p = e \o y
  BY Zenon DEF NextIs
<1>2. PICK u, w, r : OnWire(e, f, u, w, r)
  BY <1>1, EncodeOnWire, Zenon
<1>3. ASSUME NEW x \in Seq(Byte), b = e \o x PROVE FirstIs(f, e, b)
  <2>1. Decode(e \o x) = [is |-> "frame", n |-> Len(e), frame |-> f]
    BY <1>2, DecodeWhole, Zenon
  <2> QED BY <1>3, <2>1, Zenon DEF FirstIs
<1>4. p = <<>> => b = e \o y
  BY <1>1, ConcatNone, Zenon
<1>5. CASE \E s : Shorter(Byte, b, e, s)
  <2>1. PICK s \in Seq(Byte) : s # <<>> /\ e = b \o s
    BY <1>5, Zenon DEF Shorter
  <2>2. Decode(b) = Incomplete
    BY <1>2, <2>1, DecodePart, Zenon
  <2> QED BY <1>1, <1>3, <1>4, <2>2, Zenon
<1>6. CASE \E x \in Seq(Byte) : b = e \o x
  BY <1>1, <1>3, <1>6, Zenon
<1>7. Cuts(Byte, b, p, e, y)
  BY <1>1, TwoCuts, Zenon
<1> QED BY <1>5, <1>6, <1>7, Zenon DEF Cuts

\* Equal elements make a prefix.
LEMMA PrefixFrom ==
    ASSUME NEW X, NEW s \in Seq(X), NEW t \in Seq(X), Len(s) <= Len(t), \A i \in 1..Len(s) : s[i] = t[i]
    PROVE  s = SubSeq(t, 1, Len(s))
<1>1. SubSeq(t, 1, Len(s)) \in Seq(X) /\ Len(SubSeq(t, 1, Len(s))) = Len(s)
  OBVIOUS
<1>2. \A i \in 1..Len(s) : SubSeq(t, 1, Len(s))[i] = s[i]
  OBVIOUS
<1> QED BY <1>1, <1>2, SameSeq, Zenon

-----------------------------------------------------------------------------
(* The inductive invariant: a reader that waits has found its buffer       *)
(* incomplete, and what it has decoded, holds and has not read yet is the  *)
(* stream.                                                                 *)

StreamInv ==
    from = "encoder" =>
        /\ state # "error"
        /\ \E bucketed \in BOOLEAN : \E pre : Streams(sent, bucketed, pre, decoded, buf, pending)

CodecInv ==
    /\ buf \in Seq(Byte) /\ pending \in Seq(Byte) /\ decoded \in Seq(AnyFrame)
    /\ state = "read" => Decode(buf) = Incomplete
    /\ AcceptsOnlyCanonical
    /\ StreamInv

\* The frames of a sender are frames a reader may get.
LEMMA FramesAreFrames == Frames \subseteq AnyFrame
<1>1. ASSUME NEW f \in Frames PROVE f \in AnyFrame
  BY FrameIs DEF AnyFrame
<1> QED BY <1>1, Zenon

LEMMA EmptyIncomplete == Decode(<<>>) = Incomplete /\ <<>> \in Seq(Byte) /\ <<>> \in Seq(AnyFrame)
<1>1. <<>> \in Seq(Byte) /\ <<>> \in Seq(AnyFrame)
  OBVIOUS
<1>2. Decode(<<>>) = Incomplete
  BY Zenon DEF Decode, Incomplete
<1> QED BY <1>1, <1>2, Zenon

\* The reader starts with nothing, and all of the stream on its way.
LEMMA CodecInvInit == FrInit => CodecInv
<1> SUFFICES ASSUME FrInit PROVE CodecInv
  BY Zenon
<1>1. buf = <<>> /\ taken = <<>> /\ decoded = <<>> /\ state = "read"
  BY Zenon DEF FrInit
<1>2. AcceptsOnlyCanonical
  BY <1>1, Zenon DEF AcceptsOnlyCanonical
<1>3. CASE from = "any" /\ sent = <<>> /\ pending = <<>>
  <2>1. "any" # "encoder"
    BY Zenon
  <2>2. StreamInv
    BY <1>3, <2>1, Zenon DEF StreamInv
  <2> QED BY <1>1, <1>2, <1>3, <2>2, EmptyIncomplete, Zenon DEF CodecInv
<1>4. CASE /\ from = "encoder"
           /\ \E n \in 0..MaxFrames : sent \in [1..n -> Frames]
           /\ \E bucketed \in BOOLEAN : pending = Wire(sent, bucketed)
  <2>1. PICK bucketed \in BOOLEAN : pending = Wire(sent, bucketed)
    BY <1>4, Zenon
  <2>2. sent \in Seq(Frames)
    <3>1. PICK n \in 0..MaxFrames : sent \in [1..n -> Frames]
      BY <1>4, Zenon
    <3>2. n \in Nat
      BY FramingAssumption
    <3> QED BY <3>1, <3>2
  <2>3. PICK pre : Sums(sent, bucketed, pre) /\ pre[Len(sent)] = pending
    <3>1. Len(sent) \in Nat
      BY <2>2
    <3> QED BY <2>1, <3>1, SumsExist, Zenon
  <2>4. Len(sent) \in Nat /\ Len(sent) <= Len(sent) /\ 0 <= Len(sent) /\ Len(<<>>) = 0 /\ ~\E i \in 1..0 : TRUE
    BY <2>2
  <2>5. pending \in Seq(Byte)
    <3>1. \A k \in Nat : k <= Len(sent) => pre[k] \in Seq(Byte)
      BY <2>2, <2>3, SumsType, Zenon
    <3> QED BY <2>3, <2>4, <3>1, Zenon
  <2>6. pre[0] \o (buf \o pending) = pre[Len(sent)]
    <3>1. <<>> \o pending = pending
      BY <2>5, ConcatNone, Zenon
    <3>2. pre[0] = <<>>
      BY <2>3, Zenon DEF Sums
    <3> QED BY <1>1, <2>3, <3>1, <3>2, Zenon
  <2>7. Streams(sent, bucketed, pre, decoded, buf, pending)
    BY <1>1, <2>2, <2>3, <2>4, <2>6, Zenon DEF Streams
  <2>8. "read" # "error"
    BY Zenon
  <2>9. StreamInv
    BY <1>1, <2>7, <2>8, Zenon DEF StreamInv
  <2> QED BY <1>1, <1>2, <2>5, <2>9, EmptyIncomplete, Zenon DEF CodecInv
<1> QED BY <1>3, <1>4, Zenon DEF FrInit

\* A read moves bytes from the way into the buffer.
LEMMA StepArrive == ASSUME CodecInv, Arrive PROVE CodecInv'
<1>1. PICK n \in 1..Len(pending) :
         buf' = buf \o SubSeq(pending, 1, n) /\ pending' = SubSeq(pending, n + 1, Len(pending))
  BY Zenon DEF Arrive
<1>2. state' = "drain" /\ from' = from /\ sent' = sent /\ taken' = taken /\ decoded' = decoded
  BY DEF Arrive
<1>3. buf \in Seq(Byte) /\ pending \in Seq(Byte) /\ decoded \in Seq(AnyFrame) /\ AcceptsOnlyCanonical
  BY Zenon DEF CodecInv
<1>4. PICK p1 \in Seq(Byte), p2 \in Seq(Byte) :
         p1 = SubSeq(pending, 1, n) /\ p2 = SubSeq(pending, n + 1, Len(pending)) /\ pending = p1 \o p2
  <2>1. n \in Nat /\ n <= Len(pending)
    BY <1>3
  <2>2. Parts(Byte, pending, n, SubSeq(pending, 1, n), SubSeq(pending, n + 1, Len(pending)))
    BY <1>3, <2>1, CutAt, Zenon
  <2> QED BY <2>2, Zenon DEF Parts
<1>5. buf' = buf \o p1 /\ pending' = p2 /\ buf' \in Seq(Byte)
  <2>1. buf \o p1 \in Seq(Byte)
    BY <1>3, ConcatType, Zenon
  <2> QED BY <1>1, <1>4, <2>1, Zenon
<1>6. buf' \o pending' = buf \o pending
  <2>1. Assoc(buf, p1, p2)
    BY <1>3, ConcatThree, Zenon
  <2> QED BY <1>4, <1>5, <2>1, Zenon DEF Assoc
<1>7. StreamInv'
  <2> SUFFICES ASSUME from = "encoder"
               PROVE  \E bucketed \in BOOLEAN : \E pre : Streams(sent, bucketed, pre, decoded, buf', pending')
    BY <1>2, Zenon DEF StreamInv
  <2>0. PICK bucketed \in BOOLEAN : \E pre : Streams(sent, bucketed, pre, decoded, buf, pending)
    BY Zenon DEF CodecInv, StreamInv
  <2>1. PICK pre : Streams(sent, bucketed, pre, decoded, buf, pending)
    BY <2>0, Zenon
  <2>2. Streams(sent, bucketed, pre, decoded, buf', pending')
    BY <1>6, <2>1, Zenon DEF Streams
  <2> QED BY <2>2, Zenon
<1>8. AcceptsOnlyCanonical'
  BY <1>2, <1>3, Zenon DEF AcceptsOnlyCanonical
<1>9. "drain" # "read"
  OBVIOUS
<1> QED BY <1>2, <1>3, <1>5, <1>7, <1>8, <1>9, Zenon DEF CodecInv

\* A byte of any peer.
LEMMA StepAnyByte == ASSUME CodecInv, AnyByte PROVE CodecInv'
<1>1. /\ from' = from /\ sent' = sent /\ pending' = pending /\ taken' = taken /\ decoded' = decoded
      /\ state' = "drain" /\ from = "any"
  BY DEF AnyByte
<1>2. PICK b \in Byte : buf' = Append(buf, b)
  <2>1. PICK b \in IF LengthsKnown(buf) THEN {0} ELSE Byte : buf' = Append(buf, b)
    BY Zenon DEF AnyByte
  <2>2. 0 \in Byte
    BY BaseIsNat DEF Byte
  <2> QED BY <2>1, <2>2, Zenon
<1>3. /\ buf \in Seq(Byte) /\ pending \in Seq(Byte) /\ decoded \in Seq(AnyFrame)
      /\ AcceptsOnlyCanonical
  BY Zenon DEF CodecInv
<1>4. buf' \in Seq(Byte)
  BY <1>2, <1>3
<1>5. "any" # "encoder" /\ "drain" # "read"
  BY Zenon
<1>6. StreamInv'
  BY <1>1, <1>5, Zenon DEF StreamInv
<1>7. AcceptsOnlyCanonical'
  BY <1>1, <1>3, Zenon DEF AcceptsOnlyCanonical
<1> QED BY <1>1, <1>3, <1>4, <1>5, <1>6, <1>7, Zenon DEF CodecInv

\* What holds of the stream, with the frame that comes next if it is not at its end.
LEMMA StreamAt ==
    ASSUME CodecInv, from = "encoder"
    PROVE  \E bucketed \in BOOLEAN : \E pre : Streams(sent, bucketed, pre, decoded, buf, pending)
BY Zenon DEF CodecInv, StreamInv

LEMMA ListLength == ASSUME NEW X, NEW s \in Seq(X) PROVE Len(s) \in Nat
OBVIOUS

Appended(X, s, x, t) ==
    /\ t \in Seq(X) /\ Len(t) = Len(s) + 1 /\ Len(s) \in Nat
    /\ t[Len(s) + 1] = x /\ \A i \in 1..Len(s) : t[i] = s[i]

LEMMA AppendIs ==
    ASSUME NEW X, NEW s \in Seq(X), NEW x \in X PROVE Appended(X, s, x, Append(s, x))
BY DEF Appended

\* The next frame of the stream is decoded.
LEMMA StreamStep ==
    ASSUME NEW bucketed \in BOOLEAN, NEW fs, NEW pre, NEW dec \in Seq(AnyFrame),
           NEW b \in Seq(Byte), NEW p \in Seq(Byte), NEW x \in Seq(Byte), NEW k \in Nat, NEW f, NEW e \in Seq(Byte),
           Streams(fs, bucketed, pre, dec, b, p), k = Len(dec), k + 1 \in 1..Len(fs),
           f = fs[k + 1], f \in AnyFrame, e = Encode(f, bucketed), b = e \o x
    PROVE  Streams(fs, bucketed, pre, Append(dec, f), x, p)
<1>1. /\ fs \in Seq(Frames) /\ Sums(fs, bucketed, pre)
      /\ \A i \in 1..k : dec[i] = fs[i]
      /\ pre[k] \o (b \o p) = pre[Len(fs)]
  BY Zenon DEF Streams
<1>2. PICK d \in Seq(AnyFrame) : d = Append(dec, f) /\ Len(d) = k + 1 /\ d[k + 1] = f /\ \A i \in 1..k : d[i] = dec[i]
  <2>1. Appended(AnyFrame, dec, f, Append(dec, f))
    BY AppendIs, Zenon
  <2> QED BY <2>1, Zenon DEF Appended
<1>3. Len(d) <= Len(fs) /\ k <= Len(fs)
  BY <1>1, <1>2
<1>4. \A i \in 1..Len(d) : d[i] = fs[i]
  <2>1. ASSUME NEW i \in 1..k + 1 PROVE i = k + 1 \/ i \in 1..k
    OBVIOUS
  <2> QED BY <1>1, <1>2, <2>1, Zenon
<1>5. PICK q \in Seq(Byte) : q = pre[k]
  <2>1. \A i \in Nat : i <= Len(fs) => pre[i] \in Seq(Byte)
    BY <1>1, SumsType, Zenon
  <2> QED BY <1>3, <2>1, Zenon
<1>6. pre[k + 1] = q \o e
  <2>1. (k + 1) - 1 = k
    OBVIOUS
  <2> QED BY <1>1, <1>5, <2>1, Zenon DEF Sums
<1>7. (q \o e) \o (x \o p) = q \o (b \o p)
  <2>1. PICK xp \in Seq(Byte) : xp = x \o p
    BY ConcatType, Zenon
  <2>2. Assoc(q, e, xp) /\ Assoc(e, x, p)
    BY ConcatThree, Zenon
  <2> QED BY <2>1, <2>2, Zenon DEF Assoc
<1>8. pre[Len(d)] \o (x \o p) = pre[Len(fs)]
  BY <1>1, <1>2, <1>5, <1>6, <1>7, Zenon
<1> QED BY <1>1, <1>2, <1>3, <1>4, <1>8, Zenon DEF Streams

\* The tags of an outcome.
LEMMA Tags ==
    /\ Malformed.is = "malformed" /\ Incomplete.is = "incomplete"
    /\ \A ty, u, w, r : FrameOf(ty, u, w, r).is = "frame"
    /\ "malformed" # "incomplete" /\ "malformed" # "frame" /\ "incomplete" # "frame"
    /\ "drain" # "read" /\ "drain" # "error" /\ "read" # "error"
BY Zenon DEF Malformed, Incomplete, FrameOf

\* A stream is never malformed, and a frame decoded from it is the next one.
LEMMA StreamSafe ==
    ASSUME CodecInv, NEW bucketed \in BOOLEAN, NEW pre,
           Streams(sent, bucketed, pre, decoded, buf, pending)
    PROVE  /\ Decode(buf) # Malformed
           /\ Decode(buf).is = "frame" =>
                /\ Len(decoded) + 1 \in 1..Len(sent) /\ sent[Len(decoded) + 1] \in Frames
                /\ FirstIs(sent[Len(decoded) + 1], Encode(sent[Len(decoded) + 1], bucketed), buf)
<1>1. buf \in Seq(Byte) /\ pending \in Seq(Byte) /\ decoded \in Seq(AnyFrame)
  BY Zenon DEF CodecInv
<1>2. Len(decoded) \in Nat
  BY <1>1, ListLength, Zenon
<1>3. CASE Len(decoded) = Len(sent)
  <2>1. buf = <<>>
    BY <1>1, <1>3, StreamEnds, Zenon
  <2>2. Decode(buf) = Incomplete
    BY <2>1, EmptyIncomplete, Zenon
  <2> QED BY <2>2, Tags, Zenon
<1>4. CASE Len(decoded) # Len(sent)
  <2>1. /\ Len(decoded) + 1 \in 1..Len(sent) /\ sent[Len(decoded) + 1] \in Frames
        /\ NextIs(Encode(sent[Len(decoded) + 1], bucketed), buf, pending)
    BY <1>1, <1>2, <1>4, StreamGoesOn, Zenon
  <2>2. PICK f \in Frames : f = sent[Len(decoded) + 1]
    BY <2>1, Zenon
  <2>3. Decode(buf) = Incomplete \/ FirstIs(f, Encode(f, bucketed), buf)
    BY <1>1, <2>1, <2>2, StreamDecodes, Zenon
  <2>4. FirstIs(f, Encode(f, bucketed), buf) => Decode(buf).is = "frame"
    BY DEF FirstIs
  <2> QED BY <2>1, <2>2, <2>3, <2>4, Tags, Zenon
<1> QED BY <1>3, <1>4, Zenon

\* A turn of the loop takes the next frame of the stream, or waits.
LEMMA StepDecodeNext == ASSUME CodecInv, DecodeNext PROVE CodecInv'
<1>1. from' = from /\ sent' = sent /\ pending' = pending /\ state = "drain"
  BY Zenon DEF DecodeNext
<1>2. /\ buf \in Seq(Byte) /\ pending \in Seq(Byte) /\ decoded \in Seq(AnyFrame)
      /\ AcceptsOnlyCanonical /\ StreamInv
  BY Zenon DEF CodecInv
<1>3. PICK d : d = Decode(buf)
  BY Zenon
<1>0. Outcome(buf)
  BY <1>2, OneOutcome, Zenon
<1>4. CASE d.is = "incomplete" /\ state' = "read" /\ buf' = buf /\ taken' = taken /\ decoded' = decoded
  <2>1. Decode(buf) = Incomplete
    BY <1>0, <1>3, <1>4, Tags, Zenon DEF Outcome
  <2>2. AcceptsOnlyCanonical'
    BY <1>2, <1>4, Zenon DEF AcceptsOnlyCanonical
  <2>3. StreamInv'
    BY <1>1, <1>2, <1>4, Tags, Zenon DEF StreamInv
  <2>4. (Decode(buf) = Incomplete)'
    BY <1>4, <2>1, Zenon
  <2> QED BY <1>1, <1>2, <1>4, <2>2, <2>3, <2>4, Zenon DEF CodecInv
<1>5. CASE d.is = "malformed" /\ state' = "error" /\ buf' = buf /\ taken' = taken /\ decoded' = decoded
  <2>1. Decode(buf) = Malformed
    BY <1>0, <1>3, <1>5, Tags, Zenon DEF Outcome
  <2>2. from # "encoder"
    <3> SUFFICES ASSUME from = "encoder" PROVE FALSE
      BY Zenon
    <3>1. PICK bucketed \in BOOLEAN : \E pre : Streams(sent, bucketed, pre, decoded, buf, pending)
      BY StreamAt, Zenon
    <3>2. PICK pre : Streams(sent, bucketed, pre, decoded, buf, pending)
      BY <3>1, Zenon
    <3> QED BY <2>1, <3>2, StreamSafe, Zenon
  <2>3. AcceptsOnlyCanonical'
    BY <1>2, <1>5, Zenon DEF AcceptsOnlyCanonical
  <2>4. StreamInv'
    BY <1>1, <2>2, Zenon DEF StreamInv
  <2> QED BY <1>1, <1>2, <1>5, <2>3, <2>4, Tags, Zenon DEF CodecInv
<1>6. CASE /\ d.is = "frame" /\ taken' = SubSeq(buf, 1, d.n) /\ buf' = SubSeq(buf, d.n + 1, Len(buf))
           /\ decoded' = Append(decoded, d.frame) /\ state' = state
  <2>1. PICK ty, u, w, r : Complete(buf, ty, u, w, r) /\ d = FrameOf(ty, u, w, r)
    BY <1>0, <1>3, <1>6, Tags, Zenon DEF Outcome
  <2>2. FrameTaken(buf, d)
    BY <2>1, CompleteIsTaken, Zenon
  <2>3. d.frame \in AnyFrame /\ Canonical(d.frame, taken') /\ buf' \in Seq(Byte)
    BY <1>6, <2>2, Zenon DEF FrameTaken
  <2>4. /\ decoded' \in Seq(AnyFrame) /\ Len(decoded') = Len(decoded) + 1
        /\ decoded'[Len(decoded) + 1] = d.frame
    <3>1. Appended(AnyFrame, decoded, d.frame, decoded')
      BY <1>2, <1>6, <2>3, AppendIs, Zenon
    <3> QED BY <3>1, Zenon DEF Appended
  <2>5. AcceptsOnlyCanonical'
    <3>1. decoded'[Len(decoded')] = d.frame
      BY <2>4, Zenon
    <3>2. Canonical(decoded'[Len(decoded')], taken')
      BY <2>3, <3>1, Zenon
    <3> QED BY <3>2, Zenon DEF AcceptsOnlyCanonical, Canonical
  <2>6. StreamInv'
    <3> SUFFICES ASSUME from = "encoder"
                 PROVE  \E bucketed \in BOOLEAN : \E pre : Streams(sent, bucketed, pre, decoded', buf', pending)
      BY <1>1, <1>6, Tags, Zenon DEF StreamInv
    <3>1. PICK bucketed \in BOOLEAN : \E pre : Streams(sent, bucketed, pre, decoded, buf, pending)
      BY StreamAt, Zenon
    <3>2. PICK pre : Streams(sent, bucketed, pre, decoded, buf, pending)
      BY <3>1, Zenon
    <3>3. PICK k \in Nat : k = Len(decoded)
      BY <1>2, ListLength, Zenon
    <3>4. /\ k + 1 \in 1..Len(sent) /\ sent[k + 1] \in Frames
          /\ FirstIs(sent[k + 1], Encode(sent[k + 1], bucketed), buf)
      BY <1>3, <1>6, <3>2, <3>3, StreamSafe, Zenon
    <3>5. PICK f \in Frames, e \in Seq(Byte) : f = sent[k + 1] /\ e = Encode(f, bucketed)
      BY <3>4, EncodeType, Zenon
    <3>6. PICK x \in Seq(Byte) : buf = e \o x /\ d = [is |-> "frame", n |-> Len(e), frame |-> f]
      BY <1>3, <3>4, <3>5, Zenon DEF FirstIs
    <3>7. d.n = Len(e) /\ d.frame = f
      BY <3>6
    <3>8. buf' = x
      BY <1>6, <3>6, <3>7, CutBack, Zenon
    <3>9. f \in AnyFrame
      BY FramesAreFrames, Zenon
    <3>10. Streams(sent, bucketed, pre, Append(decoded, f), x, pending)
      BY <1>2, <3>2, <3>3, <3>4, <3>5, <3>6, <3>9, StreamStep, Zenon
    <3> QED BY <1>6, <3>7, <3>8, <3>10, Zenon
  <2> QED BY <1>1, <1>2, <1>6, <2>3, <2>4, <2>5, <2>6, Tags, Zenon DEF CodecInv
<1> QED BY <1>3, <1>4, <1>5, <1>6, Zenon DEF DecodeNext

\* Every step keeps the invariant.
LEMMA CodecInvNext == CodecInv /\ [FrNext]_frVars => CodecInv'
<1>1. ASSUME CodecInv, UNCHANGED frVars PROVE CodecInv'
  <2>1. /\ from' = from /\ sent' = sent /\ pending' = pending /\ buf' = buf /\ taken' = taken
        /\ decoded' = decoded /\ state' = state
    BY <1>1, SMTT(30) DEF frVars
  <2>2. AcceptsOnlyCanonical'
    BY <1>1, <2>1, Zenon DEF AcceptsOnlyCanonical, CodecInv
  <2>3. StreamInv'
    BY <1>1, <2>1, Zenon DEF StreamInv, CodecInv
  <2>4. (state = "read" => Decode(buf) = Incomplete)'
    BY <1>1, <2>1, Zenon DEF CodecInv
  <2> QED BY <1>1, <2>1, <2>2, <2>3, <2>4, Zenon DEF CodecInv
<1> QED BY <1>1, StepArrive, StepAnyByte, StepDecodeNext, Zenon DEF FrNext

\* The invariant holds of every state of the reader.
LEMMA CodecInvHolds == FrSpec => []CodecInv
BY CodecInvInit, CodecInvNext, PTL DEF FrSpec

\* A reader that waits has found its buffer incomplete, so it holds less than the header and
\* the payload it waits for: for every limit on a varint and on a payload, whatever the
\* peer sends.
THEOREM BufferIsBoundedHolds == FrSpec => []BufferIsBounded
<1>1. CodecInv => BufferIsBounded
  <2> SUFFICES ASSUME CodecInv, state = "read" PROVE Short(buf)
    BY Zenon DEF BufferIsBounded, Short
  <2> QED BY WaitingIsShort, Zenon DEF CodecInv
<1> QED BY <1>1, CodecInvHolds, PTL

\* Whatever bytes a peer sends, a frame that Decoder::decode returns was taken off the buffer
\* with the one header an encoder writes for its length and its pad.
THEOREM AcceptsOnlyCanonicalHolds == FrSpec => []AcceptsOnlyCanonical
<1>1. CodecInv => AcceptsOnlyCanonical
  BY Zenon DEF CodecInv
<1> QED BY <1>1, CodecInvHolds, PTL

\* Encoder::encode and Decoder::decode agree, for every stream, every list of buckets and
\* every way of cutting the stream into reads.
THEOREM StreamRoundTripsHolds == FrSpec => []StreamRoundTrips
<1>1. CodecInv => StreamRoundTrips
  <2> SUFFICES ASSUME CodecInv, from = "encoder"
               PROVE  /\ state # "error"
                      /\ Len(decoded) <= Len(sent) /\ decoded = SubSeq(sent, 1, Len(decoded))
                      /\ pending = <<>> /\ state = "read" => decoded = sent /\ buf = <<>>
    BY Zenon DEF StreamRoundTrips
  <2>1. /\ buf \in Seq(Byte) /\ pending \in Seq(Byte) /\ decoded \in Seq(AnyFrame)
        /\ state = "read" => Decode(buf) = Incomplete
        /\ state # "error"
    BY Zenon DEF CodecInv, StreamInv
  <2>2. PICK bucketed \in BOOLEAN : \E pre : Streams(sent, bucketed, pre, decoded, buf, pending)
    BY StreamAt, Zenon
  <2>3. PICK pre : Streams(sent, bucketed, pre, decoded, buf, pending)
    BY <2>2, Zenon
  <2>4. /\ sent \in Seq(Frames) /\ Len(decoded) <= Len(sent)
        /\ \A i \in 1..Len(decoded) : decoded[i] = sent[i]
    BY <2>3, Zenon DEF Streams
  <2>5. sent \in Seq(AnyFrame) /\ Len(decoded) \in Nat
    BY <2>1, <2>4, FramesAreFrames
  <2>6. decoded = SubSeq(sent, 1, Len(decoded))
    BY <2>1, <2>4, <2>5, PrefixFrom, Zenon
  <2>7. ASSUME pending = <<>>, state = "read" PROVE decoded = sent /\ buf = <<>>
    <3>1. Len(decoded) = Len(sent)
      <4> SUFFICES ASSUME Len(decoded) # Len(sent) PROVE FALSE
        BY Zenon
      <4>1. /\ sent[Len(decoded) + 1] \in Frames
            /\ NextIs(Encode(sent[Len(decoded) + 1], bucketed), buf, pending)
        BY <2>1, <2>3, <2>5, StreamGoesOn, Zenon
      <4>2. PICK f \in Frames : f = sent[Len(decoded) + 1]
        BY <4>1, Zenon
      <4>3. FirstIs(f, Encode(f, bucketed), buf)
        BY <2>1, <2>7, <4>1, <4>2, StreamDecodes, Zenon
      <4>4. Decode(buf).is = "frame"
        BY <4>3 DEF FirstIs
      <4> QED BY <2>1, <2>7, <4>4, Tags, Zenon
    <3>2. decoded = sent
      BY <2>1, <2>4, <2>5, <3>1, SameSeq, Zenon
    <3>3. buf = <<>>
      BY <2>1, <2>3, <3>1, StreamEnds, Zenon
    <3> QED BY <3>2, <3>3, Zenon
  <2> QED BY <2>1, <2>4, <2>6, <2>7, Zenon
<1> QED BY <1>1, CodecInvHolds, PTL

=============================================================================
