------------------------------ MODULE EndProofs ------------------------------
(***************************************************************************)
(* Proofs about both ends of a tunnel: the connections a relay admits, the *)
(* counters of its summary line and the limiter of its warnings; and the   *)
(* loop that paces what a client sends up.                                 *)
(***************************************************************************)
EXTENDS Relay, WarnLimiter, FrontUp, FiniteSetTheorems, TLAPS

-----------------------------------------------------------------------------
(***************************************************************************)
(* The up direction of a client tunnel, for any cooldown, tick, window,    *)
(* queue length and number of bytes.                                       *)
(***************************************************************************)

Pcs == {"decide", "read", "emit"} \cup Over

Schedulers == [start : NotYet..FrontWindow, payload : 0..Cooldown,
               index : 0..MaxChaffQueue, closed : BOOLEAN, chaff : Nat]

UpTypeOK ==
    /\ local \in Seq(Nat) /\ sent \in Seq(Nat) /\ written \in Nat
    /\ phase \in Pcs
    /\ timer \in NoTimer..IdleTick
    /\ sched \in Schedulers

\* At most one frame is queued, and only between a read and the emit that follows it.
OneFrame ==
    /\ queue = <<>> \/ \E frame \in Seq(Nat) : queue = <<frame>>
    /\ phase \in {"decide", "read", "closed"} => queue = <<>>

\* A read without a timeout was begun when the scheduler was done.
QuietIsDone == phase = "read" /\ timer = NoTimer => IsDone(sched)

\* An emit without a payload comes from a read that timed out.
EmitAfterTick == phase = "emit" /\ queue = <<>> => timer = 0

\* The time that has surely passed since the scheduler was last polled.
Waited ==
    IF phase = "read" /\ timer # NoTimer THEN IdleTick - timer
    ELSE IF phase = "emit" /\ queue = <<>> THEN IdleTick
    ELSE 0

\* The window is at least as old as the ticks its chaff took; its index counts that chaff up
\* to the queue's length; and chaff beyond the queue was sent inside the window.
Paced ==
    /\ sched.chaff > 0 =>
          sched.start = FrontWindow \/ sched.start >= (sched.chaff - 1) * IdleTick + Waited
    /\ sched.index = IF sched.chaff < MaxChaffQueue THEN sched.chaff ELSE MaxChaffQueue
    /\ sched.chaff > MaxChaffQueue => (sched.chaff - 1) * IdleTick < FrontWindow

\* What was sent and what is still to be read are the bytes written, in order.
InOrder == sent \o Queued \o local = Iota(written)

\* The inductive invariant.
UpInv == UpTypeOK /\ OneFrame /\ QuietIsDone /\ EmitAfterTick /\ Paced /\ InOrder

-----------------------------------------------------------------------------
\* The constants, one by one.
LEMMA Positive ==
    /\ Cooldown \in Nat \ {0} /\ IdleTick \in Nat \ {0} /\ FrontWindow \in Nat \ {0}
    /\ MaxChaffQueue \in Nat \ {0}
BY FrontAssumption, Zenon

(* Sequences.                                                              *)

\* The frame that waits is a sequence of bytes.
LEMMA QueuedBytes ==
    ASSUME OneFrame
    PROVE  /\ Queued \in Seq(Nat)
           /\ \A frame \in Seq(Nat) : queue = <<frame>> => Queued = frame
BY DEF OneFrame, Queued

\* Concatenation of byte sequences is associative.
LEMMA Associative ==
    \A s, t, u \in Seq(Nat) : (s \o t) \o u = s \o (t \o u)
BY SMTT(30)

\* Splitting a sequence and putting the parts together again.
LEMMA SplitJoin ==
    ASSUME NEW s \in Seq(Nat), NEW t \in Seq(Nat), NEW n \in 1..Len(t)
    PROVE  LET a == SubSeq(t, 1, n)
               b == SubSeq(t, n + 1, Len(t))
           IN  a \in Seq(Nat) /\ b \in Seq(Nat) /\ (s \o a) \o b = s \o t
<1> DEFINE a == SubSeq(t, 1, n)
           b == SubSeq(t, n + 1, Len(t))
<1>1. a \in Seq(Nat) /\ b \in Seq(Nat)
  OBVIOUS
<1>2. a \o b = t
  OBVIOUS
<1>3. (s \o a) \o b = s \o (a \o b)
  BY <1>1, Associative, Zenon
<1>4. QED
  BY <1>1, <1>2, <1>3, Zenon

\* A byte appended to the second of two sequences is appended to both together.
LEMMA AppendLater ==
    \A s, t \in Seq(Nat), x \in Nat : s \o Append(t, x) = Append(s \o t, x)
OBVIOUS

\* One more byte at the end.
LEMMA AppendByte ==
    ASSUME NEW s \in Seq(Nat), NEW t \in Seq(Nat), NEW n \in Nat, s \o t = Iota(n)
    PROVE  s \o Append(t, n + 1) = Iota(n + 1)
<1>1. Append(Iota(n), n + 1) = Iota(n + 1)
  BY DEF Iota
<1>2. n + 1 \in Nat
  OBVIOUS
<1>3. s \o Append(t, n + 1) = Append(s \o t, n + 1)
  BY <1>2, AppendLater, Zenon
<1>4. QED
  BY <1>1, <1>3, Zenon

-----------------------------------------------------------------------------
(* The scheduler.                                                          *)

\* Chaff frames a tick apart that all fall inside the window are at most its ticks.
LEMMA TicksInWindow ==
    ASSUME NEW W \in Nat, NEW T \in Nat \ {0}, NEW c \in Nat \ {0}, (c - 1) * T < W
    PROVE  c <= (W + T - 1) \div T
<1> DEFINE q == (W + T - 1) \div T
<1>1. q \in Nat /\ W + T - 1 < T * (q + 1)
  OBVIOUS
<1> HIDE DEF q
<1>2. c * T <= W + T - 1
  OBVIOUS
<1>3. SUFFICES ASSUME c >= q + 1 PROVE FALSE
  BY <1>1 DEF q
<1>4. c * T >= (q + 1) * T
  BY <1>1, <1>3
<1>5. QED
  BY <1>1, <1>2, <1>4

\* The ranges of the scheduler's fields.
LEMMA SchedulerFields ==
    ASSUME NEW s \in Schedulers
    PROVE  /\ s.start \in NotYet..FrontWindow /\ s.payload \in 0..Cooldown
           /\ s.index \in 0..MaxChaffQueue /\ s.chaff \in Nat /\ s.closed \in BOOLEAN
BY Zenon DEF Schedulers

\* When poll_chaff has a frame.
Begun(s) == IF s.start = NotYet THEN 0 ELSE s.start
Shut(s) == s.closed \/ Begun(s) >= FrontWindow
Due(s) == s.payload >= Cooldown /\ (Shut(s) => s.index < MaxChaffQueue)

\* What poll_chaff does to the scheduler.
LEMMA PollEffect ==
    ASSUME NEW s \in Schedulers
    PROVE  /\ PollChaff(s) \in Schedulers
           /\ PollChaff(s).start = Begun(s) /\ Begun(s) \in 0..FrontWindow
           /\ Due(s) => /\ PollChaff(s).chaff = s.chaff + 1
                        /\ PollChaff(s).index = IF s.index < MaxChaffQueue THEN s.index + 1
                                                                           ELSE s.index
           /\ ~Due(s) => PollChaff(s).chaff = s.chaff /\ PollChaff(s).index = s.index
<1> DEFINE t == [s EXCEPT !.start = Begun(s), !.closed = Shut(s)]
           r == PollChaff(s)
<1>1. Begun(s) \in 0..FrontWindow /\ Begun(s) \in NotYet..FrontWindow /\ Shut(s) \in BOOLEAN
  BY Positive, SchedulerFields DEF NotYet, Begun, Shut
<1>2. t \in Schedulers /\ t.start = Begun(s) /\ t.payload = s.payload /\ t.index = s.index
      /\ t.chaff = s.chaff /\ t.closed = Shut(s)
  BY <1>1, Zenon DEF Schedulers
<1>3. r = IF t.payload >= Cooldown /\ (t.closed => t.index < MaxChaffQueue)
          THEN [t EXCEPT !.index = IF t.index < MaxChaffQueue THEN t.index + 1 ELSE t.index,
                         !.chaff = t.chaff + 1]
          ELSE t
  BY Zenon DEF PollChaff, ShouldInjectChaff, Begun, Shut
<1> HIDE DEF t, r
<1>4. CASE Due(s)
  <2> DEFINE i == IF t.index < MaxChaffQueue THEN t.index + 1 ELSE t.index
  <2>1. r = [t EXCEPT !.index = i, !.chaff = t.chaff + 1]
    BY <1>2, <1>3, <1>4, Zenon DEF Due
  <2>2. i \in 0..MaxChaffQueue /\ t.chaff + 1 \in Nat
    BY <1>2, Positive, SchedulerFields
  <2>3. r \in Schedulers /\ r.start = t.start /\ r.chaff = t.chaff + 1 /\ r.index = i
    BY <1>2, <2>1, <2>2, Zenon DEF Schedulers
  <2>4. QED
    BY <1>1, <1>2, <1>4, <2>3 DEF r
<1>5. CASE ~Due(s)
  <2>1. r = t
    BY <1>2, <1>3, <1>5, Zenon DEF Due
  <2>2. QED
    BY <1>1, <1>2, <1>5, <2>1, Zenon DEF r
<1>6. QED
  BY <1>4, <1>5, Zenon

\* What the passing of time does to it.
LEMMA TickEffect ==
    ASSUME sched \in Schedulers, Tick
    PROVE  /\ sched' \in Schedulers
           /\ sched'.chaff = sched.chaff /\ sched'.index = sched.index
           /\ sched'.closed = sched.closed
           /\ sched'.start = IF sched.start = NotYet THEN sched.start
                             ELSE Older(sched.start, FrontWindow)
<1> DEFINE p == Older(sched.payload, Cooldown)
           b == IF sched.start = NotYet THEN sched.start ELSE Older(sched.start, FrontWindow)
<1>1. p \in 0..Cooldown /\ b \in NotYet..FrontWindow
  BY Positive, SchedulerFields DEF Older, NotYet
<1>2. sched' = [sched EXCEPT !.payload = p, !.start = b]
  BY Zenon DEF Tick
<1>3. /\ sched' \in Schedulers
      /\ sched'.chaff = sched.chaff /\ sched'.index = sched.index
      /\ sched'.closed = sched.closed /\ sched'.start = b
  <2> HIDE DEF p, b
  <2>1. QED
    BY <1>1, <1>2, Zenon DEF Schedulers
<1>4. QED
  BY <1>3, Zenon

\* A scheduler that is done has no chaff, whatever time it is asked.
LEMMA DoneStaysDone ==
    ASSUME NEW s \in Schedulers, IsDone(s),
           NEW start \in s.start..FrontWindow, NEW payload \in s.payload..Cooldown
    PROVE  PollChaff([s EXCEPT !.start = start, !.payload = payload]).chaff = s.chaff
<1> DEFINE t == [s EXCEPT !.start = start, !.payload = payload]
<1>1. start \in NotYet..FrontWindow /\ payload \in 0..Cooldown
  BY SchedulerFields, Positive DEF NotYet
<1>2. /\ t \in Schedulers /\ t.index = s.index /\ t.chaff = s.chaff
      /\ t.closed = s.closed /\ t.start = start
  BY <1>1, Zenon DEF Schedulers
<1> HIDE DEF t
<1>3. t.closed \/ t.start = FrontWindow
  BY <1>1, <1>2, SchedulerFields, Positive, SMTT(30) DEF IsDone, NotYet
<1>4. ~Due(t)
  BY <1>2, <1>3, SchedulerFields, Positive, SMTT(30) DEF IsDone, NotYet, Due, Shut, Begun
<1>5. PollChaff(t).chaff = t.chaff
  BY <1>2, <1>4, PollEffect, Zenon
<1>6. QED
  BY <1>2, <1>5, Zenon DEF t

\* What the invariant says of the properties.
LEMMA UpInvImplies == UpInv => NothingLeftBehind /\ ChaffIsExact
<1> SUFFICES ASSUME UpInv PROVE NothingLeftBehind /\ ChaffIsExact
  BY Zenon
<1> USE Positive DEF UpInv
<1>1. NothingLeftBehind
  BY Zenon DEF NothingLeftBehind, InOrder, OneFrame
<1>2. QuietMeansNothingDue
  <2> SUFFICES ASSUME phase = "read", timer = NoTimer,
                      NEW start \in sched.start..FrontWindow,
                      NEW payload \in sched.payload..Cooldown
               PROVE  /\ queue = <<>>
                      /\ PollChaff([sched EXCEPT !.start = start, !.payload = payload]).chaff
                            = sched.chaff
    BY Zenon DEF QuietMeansNothingDue, OneFrame
  <2>1. sched \in Schedulers /\ IsDone(sched) /\ queue = <<>>
    BY Zenon DEF UpTypeOK, QuietIsDone, OneFrame
  <2>2. QED
    BY <2>1, DoneStaysDone, Zenon
<1>3. ChaffIsBudgeted
  <2>0. sched.chaff \in Nat
    BY SchedulerFields, Zenon DEF UpTypeOK
  <2>1. CASE sched.chaff <= MaxChaffQueue
    <3>1. (FrontWindow + IdleTick - 1) \div IdleTick \in Int
      OBVIOUS
    <3>2. QED
      BY <2>0, <2>1, <3>1 DEF ChaffIsBudgeted
  <2>2. CASE sched.chaff > MaxChaffQueue
    <3>1. sched.chaff <= (FrontWindow + IdleTick - 1) \div IdleTick
      <4>1. sched.chaff \in Nat \ {0} /\ FrontWindow \in Nat /\ IdleTick \in Nat \ {0}
        BY <2>0, <2>2
      <4>2. QED
        BY <2>2, <4>1, TicksInWindow, Zenon DEF Paced
    <3>2. QED
      BY <2>0, <2>2, <3>1, SMTT(30) DEF ChaffIsBudgeted
  <2>3. QED
    BY <2>0, <2>1, <2>2
<1>4. QED
  BY <1>1, <1>2, <1>3, Zenon DEF ChaffIsExact
-----------------------------------------------------------------------------
(* The invariant is inductive.                                             *)

\* The invariant holds before the first read.
LEMMA UpInvInit == UpInit => UpInv
<1> SUFFICES ASSUME UpInit PROVE UpInv
  OBVIOUS
<1> USE Positive DEF UpInit
<1>1. UpTypeOK
  <2>1. sched \in Schedulers
    BY DEF Schedulers, NotYet
  <2>2. local \in Seq(Nat) /\ sent \in Seq(Nat)
    OBVIOUS
  <2>3. timer \in NoTimer..IdleTick
    BY DEF NoTimer
  <2>4. QED
    BY <2>1, <2>2, <2>3, SMTT(30) DEF UpTypeOK, Pcs
<1>2. OneFrame /\ QuietIsDone /\ EmitAfterTick
  BY Zenon DEF OneFrame, QuietIsDone, EmitAfterTick
<1>3. Paced
  BY DEF Paced
<1>4. InOrder
  <2>1. Iota(0) = <<>>
    BY DEF Iota
  <2>2. QED
    BY <2>1, SMTT(30) DEF InOrder, Queued
<1>5. QED
  BY <1>1, <1>2, <1>3, <1>4, Zenon DEF UpInv

\* A step that neither polls the scheduler nor goes on waiting leaves the pace as it was.
LEMMA StaysPaced ==
    ASSUME UpInv, sched'.chaff = sched.chaff, sched'.index = sched.index,
           sched'.start = sched.start, Waited' = 0
    PROVE  Paced'
<1>1. sched.chaff \in Nat /\ sched.start \in NotYet..FrontWindow
  BY SchedulerFields, Zenon DEF UpInv, UpTypeOK
<1>2. Waited \in Nat
  BY Positive DEF Waited, UpInv, UpTypeOK, NoTimer
<1>3. ASSUME sched.chaff > 0 PROVE (sched.chaff - 1) * IdleTick \in Nat
  BY <1>1, <1>3, Positive
<1>4. sched.chaff > 0 =>
         sched.start = FrontWindow \/ sched.start >= (sched.chaff - 1) * IdleTick + 0
  BY <1>1, <1>2, <1>3 DEF UpInv, Paced, NotYet
<1>5. QED
  BY <1>4, Zenon DEF UpInv, Paced

\* A read moves bytes from the local stream to the empty queue.
LEMMA StepReadBytes == ASSUME UpInv, ReadBytes PROVE UpInv'
<1> USE Positive DEF UpInv
<1>1. PICK n \in 1..Len(local) :
         /\ queue' = Append(queue, SubSeq(local, 1, n))
         /\ local' = SubSeq(local, n + 1, Len(local))
  BY Zenon DEF ReadBytes
<1>2. queue = <<>> /\ queue' = <<SubSeq(local, 1, n)>>
  BY <1>1 DEF ReadBytes, OneFrame
<1>3. /\ SubSeq(local, 1, n) \in Seq(Nat) /\ local' \in Seq(Nat)
      /\ (sent \o SubSeq(local, 1, n)) \o local' = sent \o local
  BY <1>1, SplitJoin, Zenon DEF UpTypeOK
<1>4. UpTypeOK' /\ OneFrame' /\ QuietIsDone' /\ EmitAfterTick'
  BY <1>2, <1>3, Zenon DEF ReadBytes, UpTypeOK, OneFrame, QuietIsDone, EmitAfterTick, Pcs
<1>5. Paced'
  <2>1. Waited' = 0 /\ sched' = sched
    BY <1>2 DEF ReadBytes, Waited
  <2>2. QED
    BY <2>1, StaysPaced
<1>6. InOrder'
  <2>1. Queued' = SubSeq(local, 1, n) /\ Queued = <<>>
    BY <1>2 DEF Queued
  <2>2. sent \o <<>> = sent
    BY DEF UpTypeOK
  <2>3. QED
    BY <1>3, <2>1, <2>2, Zenon DEF InOrder, ReadBytes
<1>7. QED
  BY <1>4, <1>5, <1>6, SMTT(30)

\* An emit writes the one frame there is, or polls a scheduler that a whole tick has passed over.
LEMMA StepNextFrame == ASSUME UpInv, NextFrame PROVE UpInv'
<1> USE Positive DEF UpInv
<1>1. CASE queue # <<>>
  <2>1. PICK frame \in Seq(Nat) : queue = <<frame>>
    BY <1>1 DEF OneFrame
  <2>2. queue' = <<>> /\ sent' = sent \o frame /\ sent' \in Seq(Nat)
    <3>1. Head(<<frame>>) = frame /\ Tail(<<frame>>) = <<>>
      OBVIOUS
    <3>2. sent \o frame \in Seq(Nat)
      BY DEF UpTypeOK
    <3>3. QED
      BY <1>1, <2>1, <3>1, <3>2, Zenon DEF NextFrame
  <2>3. /\ sched' \in Schedulers /\ sched'.chaff = sched.chaff
        /\ sched'.index = sched.index /\ sched'.start = sched.start
    <3>1. sched' = [sched EXCEPT !.payload = 0]
      BY <1>1, Zenon DEF NextFrame
    <3>2. QED
      <4>1. 0 \in 0..Cooldown
        OBVIOUS
      <4>2. QED
        BY <3>1, <4>1, Zenon DEF UpTypeOK, Schedulers
  <2>4. UpTypeOK' /\ OneFrame' /\ QuietIsDone' /\ EmitAfterTick'
    BY <2>2, <2>3, Zenon DEF NextFrame, UpTypeOK, OneFrame, QuietIsDone, EmitAfterTick, Pcs
  <2>5. Paced'
    <3>1. Waited' = 0
      BY DEF NextFrame, Waited
    <3>2. QED
      BY <2>3, <3>1, StaysPaced, Zenon
  <2>6. InOrder'
    <3>1. Queued' = <<>> /\ Queued = frame
      BY <2>1, <2>2 DEF Queued
    <3>2. sent' \o <<>> = sent'
      BY <2>2
    <3>3. QED
      BY <2>2, <3>1, <3>2 DEF InOrder, NextFrame
  <2>7. QED
    BY <2>4, <2>5, <2>6, Zenon
<1>2. CASE queue = <<>>
  <2>1. sched' = PollChaff(sched) /\ UNCHANGED <<queue, sent, local, written, eof, timer>>
        /\ phase = "emit" /\ phase' = "decide"
    BY <1>2, SMTT(30) DEF NextFrame
  <2>2. /\ sched' \in Schedulers
        /\ sched'.start = Begun(sched) /\ Begun(sched) \in 0..FrontWindow
        /\ Due(sched) => /\ sched'.chaff = sched.chaff + 1
                         /\ sched'.index = IF sched.index < MaxChaffQueue THEN sched.index + 1
                                                                          ELSE sched.index
        /\ ~Due(sched) => sched'.chaff = sched.chaff /\ sched'.index = sched.index
    BY <2>1, PollEffect, Zenon DEF UpTypeOK
  <2>3. UpTypeOK' /\ OneFrame' /\ QuietIsDone' /\ EmitAfterTick'
    BY <1>2, <2>1, <2>2, SMTT(30) DEF UpTypeOK, OneFrame, QuietIsDone, EmitAfterTick, Pcs
  <2>4. InOrder'
    BY <2>1, Zenon DEF InOrder, Queued
  <2>5. Waited = IdleTick /\ Waited' = 0
    BY <1>2, <2>1, Zenon DEF Waited
  <2>6. sched.chaff \in Nat /\ sched.start \in NotYet..FrontWindow /\ sched.index \in 0..MaxChaffQueue
    BY SchedulerFields, SMTT(30) DEF UpTypeOK
  <2>7. CASE Due(sched)
    <3>1. (sched'.chaff - 1) * IdleTick = (sched.chaff - 1) * IdleTick + IdleTick
      <4>1. sched'.chaff - 1 = (sched.chaff - 1) + 1
        BY <2>2, <2>6, <2>7
      <4>2. QED
        BY <2>6, <4>1
    <3>2. sched'.chaff > 0 =>
             sched'.start = FrontWindow \/ sched'.start >= (sched'.chaff - 1) * IdleTick
      <4>1. CASE sched.chaff = 0
        BY <2>2, <2>7, <4>1, SMTT(30)
      <4>2. CASE sched.chaff > 0
        BY <2>2, <2>5, <2>6, <2>7, <3>1, <4>2, SMTT(30) DEF Paced, NotYet, Begun
      <4>3. QED
        BY <4>1, <4>2, <2>6
    <3>3. sched'.index = IF sched'.chaff < MaxChaffQueue THEN sched'.chaff ELSE MaxChaffQueue
      BY <2>2, <2>6, <2>7 DEF Paced
    <3>4. ASSUME sched'.chaff > MaxChaffQueue PROVE (sched'.chaff - 1) * IdleTick < FrontWindow
      <4>1. sched.chaff >= MaxChaffQueue /\ sched.index = MaxChaffQueue /\ sched.chaff > 0
        BY <2>2, <2>6, <2>7, <3>4, SMTT(30) DEF Paced
      <4>2. Begun(sched) < FrontWindow
        BY <2>2, <2>7, <4>1 DEF Due, Shut
      <4>3. QED
        <5>1. sched'.chaff > 0 /\ sched'.start # FrontWindow
          BY <2>2, <2>6, <2>7, <4>2, Positive
        <5>2. sched'.start >= (sched'.chaff - 1) * IdleTick
          BY <3>2, <5>1, Zenon
        <5>3. (sched'.chaff - 1) * IdleTick \in Int
          BY <2>2, <2>6, <2>7, SMTT(30)
        <5>4. QED
          BY <2>2, <4>2, <5>2, <5>3, SMTT(30)
    <3>5. QED
      BY <2>2, <2>3, <2>4, <2>5, <2>6, <2>7, <3>2, <3>3, <3>4, SMTT(30) DEF Paced
  <2>8. CASE ~Due(sched)
    <3>1. Paced'
      <4>1. ASSUME sched.chaff > 0
            PROVE  sched'.start = FrontWindow \/ sched'.start >= (sched'.chaff - 1) * IdleTick
        <5>1. (sched.chaff - 1) * IdleTick \in Nat
          BY <2>6, <4>1
        <5>2. QED
          BY <2>2, <2>5, <2>6, <2>8, <4>1, <5>1, SMTT(30) DEF Paced, NotYet, Begun
      <4>2. QED
        BY <2>2, <2>5, <2>6, <2>8, <4>1, SMTT(30) DEF Paced
    <3>2. QED
      BY <2>3, <2>4, <3>1, Zenon
  <2>9. QED
    BY <2>7, <2>8, Zenon
<1>3. QED
  BY <1>1, <1>2, Zenon

\* Time ages the window as fast as it uses up the read's timeout.
LEMMA StepTick == ASSUME UpInv, Tick PROVE UpInv'
<1> USE Positive DEF UpInv
<1>1. UpTypeOK'
  <2>1. timer' \in NoTimer..IdleTick
    BY DEF Tick, UpTypeOK, NoTimer
  <2>2. sched' \in Schedulers
    BY TickEffect, Zenon DEF UpTypeOK
  <2>3. QED
    BY <2>1, <2>2, Zenon DEF Tick, UpTypeOK
<1>2. OneFrame' /\ InOrder' /\ EmitAfterTick'
  BY DEF Tick, OneFrame, InOrder, Queued, EmitAfterTick
<1>3. QuietIsDone'
  <2>1. phase' = "read" /\ timer' = NoTimer => phase = "read" /\ timer = NoTimer
    BY DEF Tick, UpTypeOK, NoTimer
  <2>2. IsDone(sched) => IsDone(sched')
    BY TickEffect, SchedulerFields DEF UpTypeOK, IsDone, Older, NotYet
  <2>3. QED
    BY <2>1, <2>2, Zenon DEF QuietIsDone
<1>4. Paced'
  <2>1. sched'.chaff = sched.chaff /\ sched'.index = sched.index /\ sched.chaff \in Nat
        /\ sched.start \in NotYet..FrontWindow
    BY TickEffect, SchedulerFields, Zenon DEF UpTypeOK
  <2>2. Waited' <= Waited + 1 /\ Waited \in Int /\ Waited' \in Int
    <3>1. timer \in Int /\ IdleTick \in Nat
      BY DEF UpTypeOK, NoTimer
    <3>2. /\ phase' = phase /\ queue' = queue
          /\ timer' = timer \/ (timer > 0 /\ timer' = timer - 1)
      BY Zenon DEF Tick
    <3>3. CASE phase = "read" /\ timer # NoTimer
      BY <3>1, <3>2, <3>3 DEF Waited, NoTimer
    <3>4. CASE ~(phase = "read" /\ timer # NoTimer)
      BY <3>1, <3>2, <3>4 DEF Waited, NoTimer
    <3>5. QED
      BY <3>3, <3>4, Zenon
  <2>3. ASSUME sched.chaff > 0
        PROVE  sched'.start = FrontWindow
               \/ sched'.start >= (sched.chaff - 1) * IdleTick + Waited'
    <3>1. (sched.chaff - 1) * IdleTick \in Nat
      BY <2>1, <2>3
    <3>2. Waited >= 0
      BY DEF Waited, UpTypeOK, NoTimer
    <3>3. sched.start # NotYet
      BY <2>3, <3>1, <3>2, <2>2, SMTT(30) DEF Paced, NotYet
    <3>4. sched'.start = Older(sched.start, FrontWindow)
      BY <3>3, TickEffect, Zenon DEF UpTypeOK
    <3>5. QED
      <4>1. sched.start = FrontWindow \/ sched.start >= (sched.chaff - 1) * IdleTick + Waited
        BY <2>3, Zenon DEF Paced
      <4>2. sched.start \in 0..FrontWindow
        BY <2>1, <3>3 DEF NotYet
      <4> DEFINE m == (sched.chaff - 1) * IdleTick
      <4> HIDE DEF m
      <4>3. m \in Nat /\ (sched.start = FrontWindow \/ sched.start >= m + Waited)
        BY <3>1, <4>1 DEF m
      <4>4. sched'.start = FrontWindow \/ sched'.start >= m + Waited'
        BY <2>2, <3>4, <4>2, <4>3, SMTT(30) DEF Older
      <4>5. QED
        BY <4>4, Zenon DEF m
  <2>4. QED
    BY <2>1, <2>3, Zenon DEF Paced
<1>5. QED
  BY <1>1, <1>2, <1>3, <1>4

\* The client writes the next byte.
LEMMA StepClientWrites == ASSUME UpInv, ClientWrites PROVE UpInv'
<1> USE Positive DEF UpInv
<1>1. UpTypeOK' /\ OneFrame' /\ QuietIsDone' /\ EmitAfterTick'
  BY SMTT(30) DEF ClientWrites, UpTypeOK, OneFrame, QuietIsDone, EmitAfterTick
<1>2. Paced'
  BY Zenon DEF ClientWrites, Paced, Waited
<1>3. InOrder'
  <2>1. sent \o Queued \in Seq(Nat) /\ Queued' = Queued
    BY QueuedBytes DEF UpTypeOK, ClientWrites, Queued
  <2>2. QED
    BY <2>1, AppendByte, Zenon DEF ClientWrites, UpTypeOK, InOrder
<1>4. QED
  BY <1>1, <1>2, <1>3, SMTT(30)

\* Every step of the loop, the client and time keeps the invariant.
LEMMA UpInvNext == UpInv /\ [UpNext]_upVars => UpInv'
<1> SUFFICES ASSUME UpInv, [UpNext]_upVars PROVE UpInv'
  BY Zenon
<1> USE Positive
<1>1. CASE Decide
  <2>1. UpTypeOK' /\ OneFrame' /\ EmitAfterTick' /\ InOrder'
    BY <1>1 DEF Decide, UpInv, UpTypeOK, OneFrame, EmitAfterTick, InOrder, Queued, Pcs, NoTimer
  <2>2. QuietIsDone'
    BY <1>1 DEF Decide, UpInv, QuietIsDone, WaitsForPayload, NoTimer, IsDone
  <2>3. Waited = 0 /\ Waited' = 0
    BY <1>1, SMTT(30) DEF Decide, Waited, NoTimer
  <2>4. Paced'
    BY <1>1, <2>3, Zenon DEF Decide, UpInv, Paced
  <2>5. QED
    BY <2>1, <2>2, <2>4, SMTT(30) DEF UpInv
<1>2. CASE ReadBytes
  BY <1>2, StepReadBytes, Zenon
<1>3. CASE ReadEof \/ UpEnds
  <2>1. /\ UNCHANGED <<local, written, eof, timer, queue, sched, sent>>
        /\ phase' \in Over /\ (phase' = "closed" => phase = "read")
    BY <1>3, Zenon DEF ReadEof, UpEnds, Over
  <2>2. UpTypeOK' /\ OneFrame' /\ QuietIsDone' /\ EmitAfterTick' /\ InOrder'
    BY <2>1, Zenon DEF UpInv, UpTypeOK, OneFrame, QuietIsDone, EmitAfterTick, InOrder, Queued, Pcs, Over
  <2>3. Waited' = 0
    BY <2>1 DEF Waited, Over
  <2>5. Paced'
    BY <2>1, <2>3, StaysPaced, SMTT(30)
  <2>6. QED
    BY <2>2, <2>5 DEF UpInv
<1>4. CASE ReadTimeout
  <2>1. UpTypeOK' /\ OneFrame' /\ QuietIsDone' /\ EmitAfterTick' /\ InOrder'
    BY <1>4, Zenon DEF ReadTimeout, UpInv, UpTypeOK, OneFrame, QuietIsDone, EmitAfterTick, InOrder, Queued, Pcs
  <2>2. Waited' = Waited
    BY <1>4 DEF ReadTimeout, UpInv, OneFrame, Waited, NoTimer
  <2>3. Paced'
    BY <1>4, <2>2, SMTT(30) DEF ReadTimeout, UpInv, Paced
  <2>4. QED
    BY <2>1, <2>3, Zenon DEF UpInv
<1>5. CASE NextFrame
  BY <1>5, StepNextFrame, Zenon
<1>6. CASE ClientWrites
  BY <1>6, StepClientWrites, Zenon
<1>7. CASE ClientCloses
  BY <1>7, Zenon DEF ClientCloses, UpInv, UpTypeOK, OneFrame, QuietIsDone, EmitAfterTick, Paced,
              Waited, InOrder, Queued
<1>8. CASE Tick
  BY <1>8, StepTick, Zenon
<1>9. CASE UNCHANGED upVars
  BY <1>9 DEF upVars, UpInv, UpTypeOK, OneFrame, QuietIsDone, EmitAfterTick, Paced, Waited,
              InOrder, Queued
<1>10. QED
  BY <1>1, <1>2, <1>3, <1>4, <1>5, <1>6, <1>7, <1>8, <1>9, SMTT(30) DEF UpNext, Loop

-----------------------------------------------------------------------------
(* The results.                                                            *)

\* The invariant always holds.
LEMMA UpInvAlways == UpSpec => []UpInv
BY UpInvInit, UpInvNext, PTL DEF UpSpec

\* However reads, ticks and ends interleave, the bytes of the local client reach the relay in
\* order, and none is queued when run_ferry's loop breaks at EOF.
THEOREM BytesInOrder == UpSpec => []NothingLeftBehind
BY UpInvAlways, UpInvImplies, PTL

\* For every window, tick and queue: a tunnel that waits without a timeout owes no chaff and
\* never will, and the chaff of a tunnel stays within its budget.
THEOREM ChaffExact == UpSpec => []ChaffIsExact
BY UpInvAlways, UpInvImplies, PTL
-----------------------------------------------------------------------------
(***************************************************************************)
(* For any set of connections, addresses and limits: the per_ip map and    *)
(* the semaphore count exactly what is live.  The conjunction of the type  *)
(* invariant and the two exactness invariants is inductive; the proof      *)
(* follows how a step moves one connection in or out of the counted sets.  *)
(***************************************************************************)

AdmInv == AdmTypeOK /\ PerIpIsExact /\ PermitsAreExact

\* The limits are positive: Admission::new clamps both.
LEMMA LimitsPositive == MaxHandshakes \in Nat \ {0} /\ MaxPerIp \in Nat \ {0}
  BY AdmissionAssumption DEF MaxHandshakes, MaxPerIp, AtLeastOne

\* The counted sets are finite, so that their cardinalities are numbers.
LEMMA CountsAreNat ==
  /\ IsFiniteSet(Holders) /\ Cardinality(Holders) \in Nat
  /\ \A b \in Buckets : IsFiniteSet(LiveIn(b)) /\ Cardinality(LiveIn(b)) \in Nat
<1>1. Holders \subseteq Conns /\ \A b \in Buckets : LiveIn(b) \subseteq Conns
  BY Zenon DEF Holders, LiveIn
<1>2. IsFiniteSet(Conns)
  BY AdmissionAssumption, Zenon
<1>3. \A b \in Buckets : IsFiniteSet(LiveIn(b))
  BY <1>1, <1>2, FS_Subset
<1>4. IsFiniteSet(Holders)
  BY <1>1, <1>2, FS_Subset, Zenon
<1> QED
  BY <1>3, <1>4, FS_CardinalityType, Zenon

\* A task that becomes live adds one to its own bucket (admit_ip).
LEMMA LiveEnters ==
  ASSUME AdmTypeOK, NEW c \in Conns, NEW s \in Counted, MoveTo(c, s), addr' = addr,
         pc[c] \notin Counted, NEW b \in Buckets
  PROVE  Cardinality(LiveIn(b)') =
            Cardinality(LiveIn(b)) + (IF b = Bucket[addr[c]] THEN 1 ELSE 0)
<1>1. CASE b = Bucket[addr[c]]
  <2>1. LiveIn(b)' = LiveIn(b) \cup {c}
    BY <1>1, Zenon DEF AdmTypeOK, LiveIn, MoveTo
  <2>2. c \notin LiveIn(b)
    BY Zenon DEF LiveIn
  <2> QED
    BY <1>1, <2>1, <2>2, CountsAreNat, FS_AddElement, Zenon
<1>2. CASE b # Bucket[addr[c]]
  <2>1. LiveIn(b)' = LiveIn(b)
    BY <1>2, Zenon DEF AdmTypeOK, LiveIn, MoveTo
  <2> QED
    BY <1>2, <2>1, CountsAreNat
<1> QED
  BY <1>1, <1>2, Zenon

\* A task that ends takes one from its own bucket (the drop of its IpGuard).
LEMMA LiveLeaves ==
  ASSUME AdmTypeOK, NEW c \in Conns, NEW s \in ConnStates, s \notin Counted,
         MoveTo(c, s), addr' = addr, pc[c] \in Counted, NEW b \in Buckets
  PROVE  /\ Cardinality(LiveIn(b)') =
                Cardinality(LiveIn(b)) - (IF b = Bucket[addr[c]] THEN 1 ELSE 0)
         /\ b = Bucket[addr[c]] => Cardinality(LiveIn(b)) >= 1
<1>1. CASE b = Bucket[addr[c]]
  <2>1. LiveIn(b)' = LiveIn(b) \ {c}
    BY <1>1, Zenon DEF AdmTypeOK, LiveIn, MoveTo
  <2>2. c \in LiveIn(b)
    BY <1>1, Zenon DEF LiveIn
  <2>3. Cardinality(LiveIn(b)') = Cardinality(LiveIn(b)) - 1
    BY <2>1, <2>2, CountsAreNat, FS_RemoveElement, Zenon
  <2>4. Cardinality(LiveIn(b)) # 0
    BY <2>2, CountsAreNat, FS_EmptySet
  <2> QED
    BY <1>1, <2>3, <2>4, CountsAreNat
<1>2. CASE b # Bucket[addr[c]]
  <2>1. LiveIn(b)' = LiveIn(b)
    BY <1>2, Zenon DEF AdmTypeOK, LiveIn, MoveTo
  <2> QED
    BY <1>2, <2>1, CountsAreNat
<1> QED
  BY <1>1, <1>2, Zenon

\* A move between two states on the same side of Counted changes no bucket.
LEMMA LiveStays ==
  ASSUME AdmTypeOK, NEW c \in Conns, NEW s \in ConnStates, MoveTo(c, s),
         s \in Counted <=> pc[c] \in Counted,
         \A d \in Conns : pc[d] \in Counted => addr'[d] = addr[d], NEW b \in Buckets
  PROVE  LiveIn(b)' = LiveIn(b)
  BY Zenon DEF AdmTypeOK, LiveIn, MoveTo

\* What a move does to the number of permits held.
LEMMA HoldersAfter ==
  ASSUME AdmTypeOK, NEW c \in Conns, NEW s \in ConnStates, MoveTo(c, s)
  PROVE  /\ pc[c] \in HoldsPermit /\ s \notin HoldsPermit
              => Cardinality(Holders') = Cardinality(Holders) - 1
         /\ pc[c] \notin HoldsPermit /\ s \in HoldsPermit
              => Cardinality(Holders') = Cardinality(Holders) + 1
         /\ (pc[c] \in HoldsPermit <=> s \in HoldsPermit) => Holders' = Holders
<1>1. ASSUME pc[c] \in HoldsPermit, s \notin HoldsPermit
      PROVE  Cardinality(Holders') = Cardinality(Holders) - 1
  <2>1. Holders' = Holders \ {c} /\ c \in Holders
    BY <1>1 DEF AdmTypeOK, Holders, MoveTo
  <2> QED
    BY <2>1, CountsAreNat, FS_RemoveElement, Zenon
<1>2. ASSUME pc[c] \notin HoldsPermit, s \in HoldsPermit
      PROVE  Cardinality(Holders') = Cardinality(Holders) + 1
  <2>1. Holders' = Holders \cup {c} /\ c \notin Holders
    BY <1>2 DEF AdmTypeOK, Holders, MoveTo
  <2> QED
    BY <2>1, CountsAreNat, FS_AddElement, Zenon
<1>3. ASSUME pc[c] \in HoldsPermit <=> s \in HoldsPermit
      PROVE  Holders' = Holders
  BY <1>3, Zenon DEF AdmTypeOK, Holders, MoveTo
<1> QED
  BY <1>1, <1>2, <1>3, Zenon

\* A set of connections is empty exactly when it counts zero.
LEMMA ZeroIsEmpty ==
  ASSUME NEW S \in SUBSET Conns
  PROVE  Cardinality(S) \in Nat /\ (S = {} <=> Cardinality(S) = 0)
<1>1. IsFiniteSet(S)
  BY AdmissionAssumption, FS_Subset
<1> QED
  BY <1>1, FS_CardinalityType, FS_EmptySet, Zenon

\* The map's entries in terms of cardinalities.
LEMMA ExactByCount ==
  /\ PerIpIsExact <=>
        \A b \in Buckets : perIp[b] = IF Cardinality(LiveIn(b)) = 0 THEN Absent
                                     ELSE Cardinality(LiveIn(b))
  /\ PerIpIsExact' <=>
        \A b \in Buckets : perIp'[b] = IF Cardinality(LiveIn(b)') = 0 THEN Absent
                                      ELSE Cardinality(LiveIn(b)')
<1>1. \A b \in Buckets : LiveIn(b) \in SUBSET Conns /\ LiveIn(b)' \in SUBSET Conns
  BY Zenon DEF LiveIn
<1>2. \A b \in Buckets : /\ LiveIn(b) = {} <=> Cardinality(LiveIn(b)) = 0
                         /\ LiveIn(b)' = {} <=> Cardinality(LiveIn(b)') = 0
  BY <1>1, ZeroIsEmpty
<1> QED
  BY <1>2, Zenon DEF PerIpIsExact

\* Drop for IpGuard keeps the map exact when a live task ends.
LEMMA ExactAfterDrop ==
  ASSUME AdmInv, NEW c \in Conns, NEW s \in ConnStates, s \notin Counted,
         pc[c] \in Counted, MoveTo(c, s), addr' = addr, DropIpGuard(c)
  PROVE  PerIpIsExact' /\ perIp' \in [Buckets -> {Absent} \cup (1..MaxPerIp)]
<1> DEFINE own == Bucket[addr[c]]
<1>1. own \in Buckets
  BY Zenon DEF AdmInv, AdmTypeOK, Buckets
<1>2. \A b \in Buckets :
        /\ Cardinality(LiveIn(b)) \in Nat
        /\ perIp[b] = IF Cardinality(LiveIn(b)) = 0 THEN Absent ELSE Cardinality(LiveIn(b))
  BY CountsAreNat, ExactByCount DEF AdmInv
<1>3. \A b \in Buckets :
        /\ Cardinality(LiveIn(b)') = Cardinality(LiveIn(b)) - (IF b = own THEN 1 ELSE 0)
        /\ b = own => Cardinality(LiveIn(b)) >= 1
  BY LiveLeaves, Zenon DEF AdmInv
<1>4. perIp \in [Buckets -> {Absent} \cup (1..MaxPerIp)]
  BY Zenon DEF AdmInv, AdmTypeOK
<1>5. perIp[own] = Cardinality(LiveIn(own)) /\ perIp[own] \in 1..MaxPerIp /\ perIp[own] # Absent
  BY <1>1, <1>2, <1>3, <1>4, LimitsPositive DEF Absent
<1>6. perIp' = [perIp EXCEPT ![own] = IF perIp[own] - 1 = 0 THEN Absent ELSE perIp[own] - 1]
  BY <1>5, Zenon DEF DropIpGuard
<1>7. perIp' \in [Buckets -> {Absent} \cup (1..MaxPerIp)]
  BY <1>1, <1>4, <1>5, <1>6, LimitsPositive
<1>8. \A b \in Buckets : perIp'[b] = IF Cardinality(LiveIn(b)') = 0 THEN Absent
                                     ELSE Cardinality(LiveIn(b)')
  <2> SUFFICES ASSUME NEW b \in Buckets
               PROVE  perIp'[b] = IF Cardinality(LiveIn(b)') = 0 THEN Absent
                                  ELSE Cardinality(LiveIn(b)')
    BY Zenon
  <2>1. CASE b = own
    <3>1. perIp'[b] = IF perIp[own] - 1 = 0 THEN Absent ELSE perIp[own] - 1
      BY <2>1, <1>4, <1>6, Zenon
    <3> QED
      BY <2>1, <3>1, <1>3, <1>5, Zenon
  <2>2. CASE b # own
    <3>1. perIp'[b] = perIp[b]
      BY <2>2, <1>4, <1>6, Zenon
    <3>2. Cardinality(LiveIn(b)') = Cardinality(LiveIn(b))
      BY <2>2, <1>2, <1>3
    <3> QED
      BY <3>1, <3>2, <1>2, Zenon
  <2> QED
    BY <2>1, <2>2, Zenon
<1> QED
  BY <1>7, <1>8, ExactByCount, Zenon

\* A step that keeps the map, and every task on its side of Counted, keeps it exact.
LEMMA ExactAfterStay ==
  ASSUME AdmInv, NEW c \in Conns, NEW s \in ConnStates, MoveTo(c, s),
         s \in Counted <=> pc[c] \in Counted,
         \A d \in Conns : pc[d] \in Counted => addr'[d] = addr[d], perIp' = perIp
  PROVE  PerIpIsExact' /\ perIp' \in [Buckets -> {Absent} \cup (1..MaxPerIp)]
<1>1. \A b \in Buckets : LiveIn(b)' = LiveIn(b)
  BY LiveStays, Zenon DEF AdmInv
<1> QED
  BY <1>1, Zenon DEF AdmInv, PerIpIsExact, AdmTypeOK

\* admit_ip keeps the map exact, and within the cap.
LEMMA ExactAfterAdmit ==
  ASSUME AdmInv, NEW c \in Conns, AdmitIp(c)
  PROVE  PerIpIsExact' /\ perIp' \in [Buckets -> {Absent} \cup (1..MaxPerIp)]
<1> DEFINE own == Bucket[addr[c]]
<1>1. own \in Buckets
  BY Zenon DEF AdmInv, AdmTypeOK, Buckets
<1>2. \A b \in Buckets : /\ Cardinality(LiveIn(b)) \in Nat
                         /\ perIp[b] = IF Cardinality(LiveIn(b)) = 0 THEN Absent
                                       ELSE Cardinality(LiveIn(b))
  BY CountsAreNat, ExactByCount, Zenon DEF AdmInv
<1>3. \A b \in Buckets :
        Cardinality(LiveIn(b)') = Cardinality(LiveIn(b)) + (IF b = own THEN 1 ELSE 0)
  <2>1. MoveTo(c, "handshake") /\ "handshake" \in Counted /\ pc[c] \notin Counted /\ addr' = addr
    BY Zenon DEF AdmitIp, Counted
  <2> QED
    BY <2>1, LiveEnters, Zenon DEF AdmInv
<1>4. perIp \in [Buckets -> {Absent} \cup (1..MaxPerIp)]
  BY Zenon DEF AdmInv, AdmTypeOK
<1>5. CountOf(own) = Cardinality(LiveIn(own)) /\ CountOf(own) < MaxPerIp
  BY <1>1, <1>2 DEF AdmitIp, CountOf, Absent
<1>6. perIp' = [perIp EXCEPT ![own] = CountOf(own) + 1]
  BY Zenon DEF AdmitIp
<1>7. perIp' \in [Buckets -> {Absent} \cup (1..MaxPerIp)]
  BY <1>1, <1>2, <1>4, <1>5, <1>6, LimitsPositive
<1>8. \A b \in Buckets : perIp'[b] = IF Cardinality(LiveIn(b)') = 0 THEN Absent
                                     ELSE Cardinality(LiveIn(b)')
  <2> SUFFICES ASSUME NEW b \in Buckets
               PROVE  perIp'[b] = IF Cardinality(LiveIn(b)') = 0 THEN Absent
                                  ELSE Cardinality(LiveIn(b)')
    BY Zenon
  <2>1. CASE b = own
    <3>1. perIp'[b] = Cardinality(LiveIn(own)) + 1
      BY <2>1, <1>4, <1>5, <1>6, Zenon
    <3> QED
      BY <2>1, <3>1, <1>1, <1>2, <1>3
  <2>2. CASE b # own
    <3>1. perIp'[b] = perIp[b]
      BY <2>2, <1>4, <1>6, Zenon
    <3>2. Cardinality(LiveIn(b)') = Cardinality(LiveIn(b))
      BY <2>2, <1>2, <1>3
    <3> QED
      BY <3>1, <3>2, <1>2, Zenon
  <2> QED
    BY <2>1, <2>2, Zenon
<1> QED
  BY <1>7, <1>8, ExactByCount, Zenon

\* The semaphore after a move that changes `permits` as the held permits say.
LEMMA PermitsAfter ==
  ASSUME AdmInv, NEW c \in Conns, NEW s \in ConnStates, MoveTo(c, s),
         \/ /\ pc[c] \in HoldsPermit /\ s \notin HoldsPermit /\ permits' = permits + 1
         \/ /\ pc[c] \notin HoldsPermit /\ s \in HoldsPermit
            /\ permits > 0 /\ permits' = permits - 1
         \/ (pc[c] \in HoldsPermit <=> s \in HoldsPermit) /\ permits' = permits
  PROVE  PermitsAreExact' /\ permits' \in 0..MaxHandshakes
<1>1. permits \in Nat /\ permits + Cardinality(Holders) = MaxHandshakes
  BY LimitsPositive DEF AdmInv, AdmTypeOK, PermitsAreExact
<1>2. Cardinality(Holders) \in Nat /\ Cardinality(Holders') \in Nat
  <2>1. Holders' \in SUBSET Conns
    BY Zenon DEF Holders
  <2> QED
    BY <2>1, CountsAreNat, ZeroIsEmpty, Zenon
<1>3. permits' + Cardinality(Holders') = MaxHandshakes
  BY <1>1, <1>2, HoldersAfter DEF AdmInv
<1>4. permits' \in Nat
  BY <1>1
<1> QED
  BY <1>2, <1>3, <1>4, LimitsPositive DEF PermitsAreExact

\* Init: nothing is live and every permit is free.
LEMMA AdmInvInitially == AdmInit => AdmInv
<1> SUFFICES ASSUME AdmInit PROVE AdmInv
  BY Zenon
<1>1. AdmTypeOK
  BY LimitsPositive DEF AdmInit, AdmTypeOK, ConnStates
<1>2. PerIpIsExact
  BY Zenon DEF AdmInit, PerIpIsExact, LiveIn, Counted
<1>3. Holders = {}
  BY DEF AdmInit, Holders, HoldsPermit
<1>4. PermitsAreExact
  BY <1>3, FS_EmptySet, LimitsPositive DEF AdmInit, PermitsAreExact
<1> QED
  BY <1>1, <1>2, <1>4 DEF AdmInv

\* A task's end by any path that drops only the guard.
LEMMA InvAfterEndTask ==
  ASSUME AdmInv, NEW c \in Conns, EndTask(c), pc[c] \in Counted, pc[c] \notin HoldsPermit
  PROVE  AdmInv'
<1>1. MoveTo(c, "closed") /\ "closed" \in ConnStates /\ "closed" \notin Counted
      /\ "closed" \notin HoldsPermit /\ DropIpGuard(c) /\ addr' = addr /\ permits' = permits
  BY DEF EndTask, ConnStates, Counted, HoldsPermit
<1>2. PerIpIsExact' /\ perIp' \in [Buckets -> {Absent} \cup (1..MaxPerIp)]
  BY <1>1, ExactAfterDrop
<1>3. PermitsAreExact' /\ permits' \in 0..MaxHandshakes
  BY <1>1, PermitsAfter
<1> QED
  BY <1>1, <1>2, <1>3, Zenon DEF AdmInv, AdmTypeOK, MoveTo

\* Moves of a live task that touch neither the map nor the semaphore.
LEMMA InvAfterMove ==
  ASSUME AdmInv, NEW c \in Conns, NEW s \in Counted \ HoldsPermit, MoveTo(c, s),
         pc[c] \in Counted \ HoldsPermit, UNCHANGED <<addr, permits, perIp>>
  PROVE  AdmInv'
<1>1. s \in ConnStates
  BY DEF ConnStates
<1>2. PerIpIsExact' /\ perIp' \in [Buckets -> {Absent} \cup (1..MaxPerIp)]
  BY <1>1, ExactAfterStay
<1>3. PermitsAreExact' /\ permits' \in 0..MaxHandshakes
  BY <1>1, PermitsAfter, Zenon
<1> QED
  BY <1>1, <1>2, <1>3 DEF AdmInv, AdmTypeOK, MoveTo

\* One step per action of the relay.
LEMMA AdmInvInductive == AdmInv /\ [AdmNext]_admVars => AdmInv'
<1> SUFFICES ASSUME AdmInv, [AdmNext]_admVars PROVE AdmInv'
  BY Zenon
<1>1. ASSUME NEW c \in Conns, NEW a \in Addrs, Accept(c, a) PROVE AdmInv'
  <2>1. /\ MoveTo(c, "admit") /\ "admit" \in ConnStates /\ "admit" \notin Counted
        /\ "admit" \in HoldsPermit /\ pc[c] \notin Counted /\ pc[c] \notin HoldsPermit
        /\ perIp' = perIp /\ permits > 0 /\ permits' = permits - 1
    BY <1>1 DEF Accept, ConnStates, Counted, HoldsPermit
  <2>2. addr' \in [Conns -> Addrs] /\ \A d \in Conns : pc[d] \in Counted => addr'[d] = addr[d]
    BY <1>1, <2>1 DEF Accept, AdmInv, AdmTypeOK
  <2>3. PerIpIsExact' /\ perIp' \in [Buckets -> {Absent} \cup (1..MaxPerIp)]
    BY <2>1, <2>2, ExactAfterStay
  <2>4. PermitsAreExact' /\ permits' \in 0..MaxHandshakes
    BY <2>1, PermitsAfter
  <2> QED
    BY <2>1, <2>2, <2>3, <2>4, Zenon DEF AdmInv, AdmTypeOK, MoveTo
<1>2. ASSUME NEW c \in Conns, ShedPerIp(c) PROVE AdmInv'
  <2>1. /\ MoveTo(c, "closed") /\ "closed" \in ConnStates /\ "closed" \notin Counted
        /\ "closed" \notin HoldsPermit /\ pc[c] \notin Counted /\ pc[c] \in HoldsPermit
        /\ addr' = addr /\ permits' = permits + 1
    BY <1>2, Zenon DEF ShedPerIp, ConnStates, Counted, HoldsPermit
  <2>2. perIp' = perIp
    BY <1>2, LimitsPositive DEF ShedPerIp, CountOf, AdmInv, AdmTypeOK, Buckets
  <2>3. PerIpIsExact' /\ perIp' \in [Buckets -> {Absent} \cup (1..MaxPerIp)]
    BY <2>1, <2>2, ExactAfterStay
  <2>4. PermitsAreExact' /\ permits' \in 0..MaxHandshakes
    BY <2>1, PermitsAfter, Zenon
  <2> QED
    BY <2>1, <2>3, <2>4 DEF AdmInv, AdmTypeOK, MoveTo
<1>3. ASSUME NEW c \in Conns, AdmitIp(c) PROVE AdmInv'
  <2>1. /\ MoveTo(c, "handshake") /\ "handshake" \in ConnStates /\ "handshake" \in HoldsPermit
        /\ pc[c] \in HoldsPermit /\ addr' = addr /\ permits' = permits
    BY <1>3, Zenon DEF AdmitIp, ConnStates, HoldsPermit
  <2>2. PerIpIsExact' /\ perIp' \in [Buckets -> {Absent} \cup (1..MaxPerIp)]
    BY <1>3, ExactAfterAdmit
  <2>3. PermitsAreExact' /\ permits' \in 0..MaxHandshakes
    BY <2>1, PermitsAfter, Zenon
  <2> QED
    BY <2>1, <2>2, <2>3 DEF AdmInv, AdmTypeOK, MoveTo
<1>4. ASSUME NEW c \in Conns, HandshakeEnds(c) PROVE AdmInv'
  <2>1. /\ MoveTo(c, "unwinding") /\ "unwinding" \in ConnStates /\ "unwinding" \notin Counted
        /\ "unwinding" \in HoldsPermit /\ pc[c] \in Counted /\ pc[c] \in HoldsPermit
        /\ DropIpGuard(c) /\ addr' = addr /\ permits' = permits
    BY <1>4, Zenon DEF HandshakeEnds, ConnStates, Counted, HoldsPermit
  <2>2. PerIpIsExact' /\ perIp' \in [Buckets -> {Absent} \cup (1..MaxPerIp)]
    BY <2>1, ExactAfterDrop
  <2>3. PermitsAreExact' /\ permits' \in 0..MaxHandshakes
    BY <2>1, PermitsAfter, Zenon
  <2> QED
    BY <2>1, <2>2, <2>3 DEF AdmInv, AdmTypeOK, MoveTo
<1>5. ASSUME NEW c \in Conns, DropPermit(c) \/ HandshakeDone(c) PROVE AdmInv'
  <2>1. PICK s \in ConnStates \ HoldsPermit :
           /\ MoveTo(c, s) /\ (s \in Counted <=> pc[c] \in Counted) /\ pc[c] \in HoldsPermit
           /\ addr' = addr /\ perIp' = perIp /\ permits' = permits + 1
    BY <1>5 DEF DropPermit, HandshakeDone, ConnStates, Counted, HoldsPermit
  <2>2. PerIpIsExact' /\ perIp' \in [Buckets -> {Absent} \cup (1..MaxPerIp)]
    BY <2>1, ExactAfterStay, Zenon
  <2>3. PermitsAreExact' /\ permits' \in 0..MaxHandshakes
    BY <2>1, PermitsAfter
  <2> QED
    BY <2>1, <2>2, <2>3 DEF AdmInv, AdmTypeOK, MoveTo
<1>6. ASSUME NEW c \in Conns, FirstRead(c) \/ SecondRead(c) \/ DialDone(c) PROVE AdmInv'
  <2>1. PICK s \in Counted \ HoldsPermit :
           MoveTo(c, s) /\ pc[c] \in Counted \ HoldsPermit /\ UNCHANGED <<addr, permits, perIp>>
    BY <1>6, Zenon DEF FirstRead, SecondRead, DialDone, Counted, HoldsPermit
  <2> QED
    BY <2>1, InvAfterMove
<1>7. ASSUME NEW c \in Conns, NothingToRead(c) \/ DialFails(c) \/ ForwardEnds(c) PROVE AdmInv'
  <2>1. EndTask(c) /\ pc[c] \in Counted /\ pc[c] \notin HoldsPermit
    BY <1>7, Zenon DEF NothingToRead, DialFails, ForwardEnds, Counted, HoldsPermit
  <2> QED
    BY <2>1, InvAfterEndTask
<1>8. CASE UNCHANGED admVars
  BY <1>8, Zenon DEF admVars, AdmInv, AdmTypeOK, PerIpIsExact, PermitsAreExact, LiveIn, Holders
<1>9. CASE ShedGlobal
  BY <1>8, <1>9 DEF ShedGlobal
<1> QED
  BY <1>1, <1>2, <1>3, <1>4, <1>5, <1>6, <1>7, <1>8, <1>9, Zenon DEF AdmNext, ConnTask

\* AdmInv holds in every state the relay reaches.
THEOREM AdmInvHolds == AdmSpec => []AdmInv
<1>1. AdmInv /\ [AdmNext]_admVars => AdmInv'
  BY AdmInvInductive, Zenon
<1> QED
  BY <1>1, AdmInvInitially, PTL DEF AdmSpec

\* The types, with a map that never holds a zero entry and a semaphore that never
\* exceeds --max-handshakes.
THEOREM AdmTypeCorrect == AdmSpec => []AdmTypeOK
<1>1. AdmInv => AdmTypeOK
  BY Zenon DEF AdmInv
<1> QED
  BY <1>1, AdmInvHolds, PTL

\* Exact counts are within the cap, which admit_ip compares them with.
LEMMA InvIsAccounted == AdmInv => AdmissionIsAccounted
<1> SUFFICES ASSUME AdmInv, NEW b \in Buckets PROVE Cardinality(LiveIn(b)) <= MaxPerIp
  BY Zenon DEF AdmInv, AdmissionIsAccounted, PerIpIsBounded
<1>1. perIp[b] = IF Cardinality(LiveIn(b)) = 0 THEN Absent ELSE Cardinality(LiveIn(b))
  BY ExactByCount, Zenon DEF AdmInv
<1>2. perIp[b] \in {Absent} \cup (1..MaxPerIp)
  BY DEF AdmInv, AdmTypeOK
<1> QED
  BY <1>1, <1>2, LimitsPositive, CountsAreNat DEF Absent

\* --max-conns-per-ip is a bound on what one bucket holds.
THEOREM PerIpBounded == AdmSpec => []PerIpIsBounded
<1>1. AdmInv => PerIpIsBounded
  BY InvIsAccounted, Zenon DEF AdmissionIsAccounted
<1> QED
  BY <1>1, AdmInvHolds, PTL

\* No path through a connection's task loses a handshake permit or returns it twice, and the
\* per-address counts are exact and within the cap.
THEOREM AdmissionAccounted == AdmSpec => []AdmissionIsAccounted
  BY InvIsAccounted, AdmInvHolds, PTL

-----------------------------------------------------------------------------
(***************************************************************************)
(* Proofs about the relay's counters, for any set of connections, limits   *)
(* and number of accepted connections: whichever counters a flush has      *)
(* swapped when a task counts, the summary lines add up to what happened.  *)
(* A counter is compared with the number of connections that are where it  *)
(* was, or is about to be, counted.                                        *)
(***************************************************************************)

\* Connections by what they have still to count.
Pending == {c \in Conns : pc[c] \in {"admit", "handshake"}}
Reading == {c \in Conns : pc[c] \in {"gate", "gate2"} /\ owed[c] = {}}
InTunnel == {c \in Conns : pc[c] \in {"dial", "tunnel"}}
Owers(k) == {c \in Conns : k \in owed[c]}

\* The shape of the counters, and where the flush is: what it has not swapped yet is not in
\* the line.
FlushShape ==
    /\ stats \in [CounterNames -> Nat]
    /\ line \in [CounterNames -> Nat]
    /\ reported \in [CounterNames -> Nat]
    /\ accepted \in Nat
    /\ step \in 0..9
    /\ \A i \in 1..8 : step = 0 \/ i >= step => line[Counters[i]] = 0

\* A task owes `completed` when it enters the gate, `tunnels` when the second read sent it
\* to the dial, and nothing elsewhere.
OwedFits ==
    /\ owed \in [Conns -> SUBSET {"completed", "tunnels"}]
    /\ \A c \in Conns : \/ owed[c] = {}
                        \/ owed[c] = {"completed"} /\ pc[c] = "gate"
                        \/ owed[c] = {"tunnels"} /\ pc[c] = "dial"

Tunnels == Total("tunnels") + Cardinality(Owers("tunnels"))

\* A connection in a tunnel has not had its error yet, one that is read from has been
\* completed and has no tunnel yet.
RoomLeft ==
    /\ Total("auth_after_second_read") <= Tunnels
    /\ Total("handler_error") + Cardinality(InTunnel) <= Tunnels
    /\ Tunnels + Cardinality(Reading) <= Total("completed")

AllCounted ==
    accepted = Total("completed") + Cardinality(Owers("completed"))
               + Total("handshake_timeout") + Total("handshake_failed")
               + Total("shed_global") + Total("shed_per_ip")
               + Cardinality(Pending)

\* The inductive invariant.
RelayInv == AdmInv /\ FlushShape /\ OwedFits /\ AllCounted /\ RoomLeft

-----------------------------------------------------------------------------
(* Counters.                                                               *)

LEMMA Names ==
    /\ CounterNames = {"completed", "handshake_timeout", "handshake_failed", "handler_error",
                       "shed_global", "shed_per_ip", "tunnels", "auth_after_second_read"}
    /\ \A i \in 1..8 : Counters[i] \in CounterNames
    /\ \A i, j \in 1..8 : Counters[i] = Counters[j] => i = j
    /\ DOMAIN Counters = 1..8 /\ Len(Counters) = 8
BY DEF CounterNames, Counters, Range

\* The eight names, one by one.
LEMMA EachName ==
    /\ "completed" \in CounterNames /\ "handshake_timeout" \in CounterNames
    /\ "handshake_failed" \in CounterNames /\ "handler_error" \in CounterNames
    /\ "shed_global" \in CounterNames /\ "shed_per_ip" \in CounterNames
    /\ "tunnels" \in CounterNames /\ "auth_after_second_read" \in CounterNames
BY Names, Zenon

\* What has been counted is a number.
LEMMA TotalsAreNat ==
    ASSUME FlushShape
    PROVE  \A k \in CounterNames : Total(k) \in Nat
BY DEF FlushShape, Total

\* fetch_add adds one to its counter, emitted or not, and to no other.
LEMMA CountsOne ==
    ASSUME FlushShape, NEW k \in CounterNames, stats' = [stats EXCEPT ![k] = @ + 1],
           UNCHANGED flushVars
    PROVE  /\ Total(k)' = Total(k) + 1
           /\ \A n \in CounterNames : n # k => Total(n)' = Total(n)
           /\ accepted' \in Nat => FlushShape'
BY DEF FlushShape, Total, flushVars

\* A step that counts nothing.
LEMMA CountsNone ==
    ASSUME FlushShape, UNCHANGED <<stats, flushVars>>
    PROVE  /\ \A n \in CounterNames : Total(n)' = Total(n)
           /\ accepted' \in Nat => FlushShape'
BY DEF FlushShape, Total, flushVars

\* The flush moves what was counted and changes no total.
LEMMA FlushKeepsTotals ==
    ASSUME FlushShape, FlushBegins \/ Swap \/ Emit
    PROVE  FlushShape' /\ \A n \in CounterNames : Total(n)' = Total(n)
<1>1. CASE FlushBegins
  BY <1>1 DEF FlushBegins, FlushShape, Total
<1>2. CASE Swap
  <2> DEFINE k == Counters[step]
  <2>1. step \in 1..8 /\ k \in CounterNames /\ line[k] = 0 /\ step' = step + 1
    BY <1>2, Names DEF Swap, FlushShape
  <2>2. /\ line' = [line EXCEPT ![k] = stats[k]] /\ stats' = [stats EXCEPT ![k] = 0]
        /\ UNCHANGED <<reported, accepted>>
    BY <1>2, Zenon DEF Swap
  <2>3. \A i \in 1..8 : i >= step + 1 => Counters[i] # k /\ Counters[i] \in CounterNames
    BY <2>1, Names
  <2> HIDE DEF k
  <2>4. \A n \in CounterNames : Total(n)' = Total(n)
    BY <2>1, <2>2 DEF FlushShape, Total
  <2>5. \A i \in 1..8 : step' = 0 \/ i >= step' => line'[Counters[i]] = 0
    BY <2>1, <2>2, <2>3 DEF FlushShape
  <2>6. /\ stats' \in [CounterNames -> Nat] /\ line' \in [CounterNames -> Nat]
        /\ reported' \in [CounterNames -> Nat] /\ accepted' \in Nat /\ step' \in 0..9
    BY <2>1, <2>2 DEF FlushShape
  <2>7. QED
    BY <2>4, <2>5, <2>6, Zenon DEF FlushShape
<1>3. CASE Emit
  <2>1. \A n \in CounterNames : reported'[n] = reported[n] + line[n] /\ line'[n] = 0
    BY <1>3 DEF Emit, FlushShape, Zero
  <2>2. reported' \in [CounterNames -> Nat] /\ line' \in [CounterNames -> Nat]
    <3>1. line' = [k \in CounterNames |-> 0]
      BY <1>3 DEF Emit, Zero
    <3>2. reported' = reported \/ reported' = [k \in CounterNames |-> reported[k] + line[k]]
      BY <1>3 DEF Emit
    <3>3. \A k \in CounterNames : reported[k] + line[k] \in Nat
      BY DEF FlushShape
    <3>4. reported \in [CounterNames -> Nat]
      BY Zenon DEF FlushShape
    <3>5. QED
      BY <3>1, <3>2, <3>3, <3>4, Zenon
  <2>3. stats' = stats /\ accepted' = accepted /\ step' = 0
    BY <1>3, Zenon DEF Emit
  <2>4. QED
    BY <2>1, <2>2, <2>3, Names DEF FlushShape, Total
<1>4. QED
  BY <1>1, <1>2, <1>3, Zenon

-----------------------------------------------------------------------------
(* Connections.                                                            *)

Bit(b) == IF b THEN 1 ELSE 0

\* A set of connections that changes in one of them at most.
LEMMA OneChanges ==
    ASSUME NEW S \in SUBSET Conns, NEW T \in SUBSET Conns, NEW c \in Conns,
           \A d \in Conns : d # c => (d \in S <=> d \in T)
    PROVE  /\ Cardinality(S) \in Nat /\ Cardinality(T) \in Nat
           /\ Cardinality(T) + Bit(c \in S) = Cardinality(S) + Bit(c \in T)
<1>1. /\ Cardinality(S) \in Nat /\ Cardinality(T) \in Nat
      /\ IsFiniteSet(S) /\ IsFiniteSet(T)
  BY ZeroIsEmpty, AdmissionAssumption, FS_Subset
<1>2. CASE c \in S /\ c \notin T
  <2>1. T = S \ {c}
    BY <1>2, Zenon
  <2>2. QED
    BY <1>1, <1>2, <2>1, FS_RemoveElement DEF Bit
<1>3. CASE c \notin S /\ c \in T
  <2>1. T = S \cup {c}
    BY <1>3, Zenon
  <2>2. QED
    BY <1>1, <1>3, <2>1, FS_AddElement DEF Bit
<1>4. CASE c \in S <=> c \in T
  <2>1. T = S
    BY <1>4
  <2>2. QED
    BY <1>1, <1>4, <2>1 DEF Bit
<1>5. QED
  BY <1>2, <1>3, <1>4

\* Where a step that touches only connection c leaves the numbers of connections.
OnlyMoves(c) ==
    /\ pc' \in [Conns -> ConnStates] /\ owed' \in [Conns -> SUBSET {"completed", "tunnels"}]
    /\ \A d \in Conns : d # c => pc'[d] = pc[d] /\ owed'[d] = owed[d]

LEMMA OneMoves ==
    ASSUME NEW c \in Conns, OnlyMoves(c)
    PROVE  /\ Cardinality(Pending)' + Bit(c \in Pending)
                = Cardinality(Pending) + Bit((c \in Pending)')
           /\ Cardinality(Reading)' + Bit(c \in Reading)
                = Cardinality(Reading) + Bit((c \in Reading)')
           /\ Cardinality(InTunnel)' + Bit(c \in InTunnel)
                = Cardinality(InTunnel) + Bit((c \in InTunnel)')
           /\ \A k \in {"completed", "tunnels"} :
                Cardinality(Owers(k))' + Bit(c \in Owers(k))
                  = Cardinality(Owers(k)) + Bit((c \in Owers(k))')
<1>1. /\ Pending \in SUBSET Conns /\ Pending' \in SUBSET Conns
      /\ \A d \in Conns : d # c => (d \in Pending <=> d \in Pending')
  BY DEF Pending, OnlyMoves
<1>2. /\ Reading \in SUBSET Conns /\ Reading' \in SUBSET Conns
      /\ \A d \in Conns : d # c => (d \in Reading <=> d \in Reading')
  BY Zenon DEF Reading, OnlyMoves
<1>3. /\ InTunnel \in SUBSET Conns /\ InTunnel' \in SUBSET Conns
      /\ \A d \in Conns : d # c => (d \in InTunnel <=> d \in InTunnel')
  BY DEF InTunnel, OnlyMoves
<1>4. ASSUME NEW k \in {"completed", "tunnels"}
      PROVE  /\ Owers(k) \in SUBSET Conns /\ Owers(k)' \in SUBSET Conns
             /\ \A d \in Conns : d # c => (d \in Owers(k) <=> d \in Owers(k)')
  BY DEF Owers, OnlyMoves
<1>5. ASSUME NEW k \in {"completed", "tunnels"}
      PROVE  Cardinality(Owers(k))' + Bit(c \in Owers(k))
                  = Cardinality(Owers(k)) + Bit((c \in Owers(k))')
  BY <1>4, OneChanges
<1>6. Cardinality(Pending)' + Bit(c \in Pending) = Cardinality(Pending) + Bit((c \in Pending)')
  BY <1>1, OneChanges
<1>7. Cardinality(Reading)' + Bit(c \in Reading) = Cardinality(Reading) + Bit((c \in Reading)')
  BY <1>2, OneChanges
<1>8. Cardinality(InTunnel)' + Bit(c \in InTunnel)
        = Cardinality(InTunnel) + Bit((c \in InTunnel)')
  BY <1>3, OneChanges, Zenon
<1>9. QED
  BY <1>5, <1>6, <1>7, <1>8, Zenon

\* Numbers of connections are numbers, before and after a step.
Numbers ==
    /\ Cardinality(Pending) \in Nat /\ Cardinality(Reading) \in Nat
    /\ Cardinality(InTunnel) \in Nat
    /\ Cardinality(Owers("completed")) \in Nat /\ Cardinality(Owers("tunnels")) \in Nat

LEMMA NumbersAreNat == Numbers /\ Numbers'
<1>1. /\ Pending \in SUBSET Conns /\ Reading \in SUBSET Conns /\ InTunnel \in SUBSET Conns
      /\ \A k : Owers(k) \in SUBSET Conns
  BY DEF Pending, Reading, InTunnel, Owers
<1>2. /\ Pending' \in SUBSET Conns /\ Reading' \in SUBSET Conns /\ InTunnel' \in SUBSET Conns
      /\ \A k : Owers(k)' \in SUBSET Conns
  BY DEF Pending, Reading, InTunnel, Owers
<1>3. QED
  BY <1>1, <1>2, ZeroIsEmpty DEF Numbers

-----------------------------------------------------------------------------
(* Steps.                                                                  *)

\* The relay is its admission control with counters.
LEMMA IsAdmStep ==
    ASSUME [RelayNext]_relayVars
    PROVE  [AdmNext]_admVars
<1>1. CASE AcceptOne
  BY <1>1 DEF AcceptOne, AdmNext
<1>2. ASSUME NEW c \in Conns, AdmitOne(c) PROVE AdmNext
  BY <1>2, Zenon DEF AdmitOne, AdmNext
<1>3. ASSUME NEW c \in Conns, Task(c) PROVE AdmNext \/ UNCHANGED admVars
  <2>1. CASE CountOwed(c)
    BY <2>1 DEF CountOwed
  <2>2. CASE Handshake(c)
    BY <2>2 DEF Handshake, AdmNext, ConnTask
  <2>3. CASE Gate(c)
    BY <2>3, Zenon DEF Gate, AdmNext, ConnTask
  <2>4. CASE Dial(c) \/ Forward(c)
    BY <2>4 DEF Dial, Forward, AdmNext, ConnTask
  <2>5. QED
    BY <1>3, <2>1, <2>2, <2>3, <2>4, Zenon DEF Task, TimedTask
<1>4. CASE FlushBegins \/ Swap \/ Emit \/ UNCHANGED relayVars
  BY <1>4, Zenon DEF FlushBegins, Swap, Emit, relayVars
<1>5. QED
  BY <1>1, <1>2, <1>3, <1>4 DEF RelayNext

\* A step that moves connection c, and what its task owes.
Moves(c, from, to, owedBefore, owedAfter) ==
    /\ pc[c] = from /\ pc' = [pc EXCEPT ![c] = to]
    /\ owed[c] = owedBefore /\ owed' = [owed EXCEPT ![c] = owedAfter]

\* The numbers of connections after it.
Shift(from, to, before, after) ==
    /\ Cardinality(Pending)' + Bit(from \in {"admit", "handshake"})
         = Cardinality(Pending) + Bit(to \in {"admit", "handshake"})
    /\ Cardinality(Reading)' + Bit(from \in {"gate", "gate2"} /\ before = {})
         = Cardinality(Reading) + Bit(to \in {"gate", "gate2"} /\ after = {})
    /\ Cardinality(InTunnel)' + Bit(from \in {"dial", "tunnel"})
         = Cardinality(InTunnel) + Bit(to \in {"dial", "tunnel"})
    /\ Cardinality(Owers("completed"))' + Bit("completed" \in before)
         = Cardinality(Owers("completed")) + Bit("completed" \in after)
    /\ Cardinality(Owers("tunnels"))' + Bit("tunnels" \in before)
         = Cardinality(Owers("tunnels")) + Bit("tunnels" \in after)

\* It is so, and what is owed still fits.
LEMMA MovesEffect ==
    ASSUME AdmInv, OwedFits, AdmInv', NEW c \in Conns, NEW from, NEW to, NEW before, NEW after,
           Moves(c, from, to, before, after),
           \/ after = {}
           \/ after = {"completed"} /\ to = "gate"
           \/ after = {"tunnels"} /\ to = "dial"
    PROVE  OwedFits' /\ Shift(from, to, before, after)
<1>1. /\ pc'[c] = to /\ owed'[c] = after
      /\ \A d \in Conns : d # c => pc'[d] = pc[d] /\ owed'[d] = owed[d]
  BY Zenon DEF Moves, AdmInv, AdmTypeOK, OwedFits
<1>2. OnlyMoves(c)
  BY <1>1 DEF OnlyMoves, Moves, AdmInv, AdmTypeOK, OwedFits
<1>3. OwedFits'
  BY <1>1, <1>2 DEF OwedFits, OnlyMoves
<1>4. /\ c \in Pending <=> from \in {"admit", "handshake"}
      /\ (c \in Pending)' <=> to \in {"admit", "handshake"}
  BY <1>1 DEF Moves, Pending
<1>5. /\ c \in Reading <=> from \in {"gate", "gate2"} /\ before = {}
      /\ (c \in Reading)' <=> to \in {"gate", "gate2"} /\ after = {}
  BY <1>1, Zenon DEF Moves, Reading
<1>6. /\ c \in InTunnel <=> from \in {"dial", "tunnel"}
      /\ (c \in InTunnel)' <=> to \in {"dial", "tunnel"}
  BY <1>1 DEF Moves, InTunnel
<1>7. ASSUME NEW k
      PROVE  (c \in Owers(k) <=> k \in before) /\ ((c \in Owers(k))' <=> k \in after)
  BY <1>1 DEF Moves, Owers
<1>8. QED
  BY <1>2, <1>3, <1>4, <1>5, <1>6, <1>7, OneMoves, Zenon DEF Shift, Bit

\* A step that counts k, and one that counts nothing.
Counts(k) == stats' = [stats EXCEPT ![k] = @ + 1] /\ UNCHANGED flushVars
Silent == UNCHANGED <<stats, flushVars>>

\* A move that counts nothing: it ends a handshake as the task begins to owe `completed`, goes
\* on or ends without a tunnel.
LEMMA SilentMove ==
    ASSUME RelayInv, AdmInv', NEW c \in Conns, NEW from, NEW to, NEW after,
           Moves(c, from, to, {}, after), Silent, accepted' = accepted,
           \/ from = "handshake" /\ to = "gate" /\ after = {"completed"}
           \/ /\ after = {}
              /\ <<from, to>> \in {<<"admit", "handshake">>, <<"unwinding", "closed">>,
                                   <<"gate", "gate2">>, <<"gate", "site">>,
                                   <<"gate", "closed">>, <<"gate2", "site">>,
                                   <<"dial", "tunnel">>, <<"tunnel", "closed">>,
                                   <<"site", "closed">>}
    PROVE  RelayInv'
<1>1. /\ FlushShape' /\ \A n \in CounterNames : Total(n)' = Total(n) /\ Total(n) \in Nat
  BY CountsNone, TotalsAreNat DEF RelayInv, Silent, FlushShape
<1>2. OwedFits' /\ Shift(from, to, {}, after)
  BY MovesEffect, Zenon DEF RelayInv
<1>3. /\ Cardinality(Pending)' + Cardinality(Owers("completed"))'
           = Cardinality(Pending) + Cardinality(Owers("completed"))
      /\ Cardinality(Owers("tunnels"))' = Cardinality(Owers("tunnels"))
      /\ Cardinality(Reading)' <= Cardinality(Reading)
      /\ Cardinality(InTunnel)' <= Cardinality(InTunnel)
  BY <1>2, NumbersAreNat DEF Shift, Bit, Numbers
<1>4. AllCounted'
  BY <1>1, <1>3, EachName, NumbersAreNat, SMTT(30) DEF RelayInv, AllCounted, Numbers
<1>5. RoomLeft'
  BY <1>1, <1>3, EachName, NumbersAreNat DEF RelayInv, RoomLeft, Tunnels, Numbers
<1>6. QED
  BY <1>1, <1>2, <1>4, <1>5, Zenon DEF RelayInv

\* What fetch_add does to the totals of a relay that accepts nothing meanwhile.
LEMMA CountsKept ==
    ASSUME FlushShape, NEW k \in CounterNames, Counts(k), accepted' = accepted
    PROVE  /\ FlushShape' /\ Total(k)' = Total(k) + 1
           /\ \A n \in CounterNames : n # k => Total(n)' = Total(n)
           /\ \A n \in CounterNames : Total(n) \in Nat
<1>1. accepted' \in Nat
  BY DEF FlushShape
<1>2. QED
  BY <1>1, CountsOne, TotalsAreNat, Zenon DEF Counts

\* A connection is shed at its address's cap.
LEMMA CountsShed ==
    ASSUME RelayInv, AdmInv', NEW c \in Conns,
           Moves(c, "admit", "closed", {}, {}), Counts("shed_per_ip"), accepted' = accepted
    PROVE  RelayInv'
<1>1. /\ FlushShape' /\ Total("shed_per_ip")' = Total("shed_per_ip") + 1
      /\ \A n \in CounterNames : n # "shed_per_ip" => Total(n)' = Total(n)
      /\ \A n \in CounterNames : Total(n) \in Nat
  BY EachName, CountsKept, Zenon DEF RelayInv
<1>2. OwedFits' /\ Shift("admit", "closed", {}, {})
  BY MovesEffect, Zenon DEF RelayInv
<1>3. /\ Cardinality(Pending)' = Cardinality(Pending) - 1
      /\ Cardinality(Reading)' = Cardinality(Reading)
      /\ Cardinality(InTunnel)' = Cardinality(InTunnel)
      /\ Cardinality(Owers("completed"))' = Cardinality(Owers("completed"))
      /\ Cardinality(Owers("tunnels"))' = Cardinality(Owers("tunnels"))
  BY <1>2, NumbersAreNat, SMTT(30) DEF Shift, Bit, Numbers
<1>4. AllCounted'
  BY <1>1, <1>3, EachName, NumbersAreNat, SMTT(30) DEF RelayInv, AllCounted, Numbers
<1>5. RoomLeft'
  BY <1>1, <1>3, EachName, NumbersAreNat, Zenon DEF RelayInv, RoomLeft, Tunnels, Numbers
<1>6. QED
  BY <1>1, <1>2, <1>4, <1>5 DEF RelayInv

\* A handshake that fails or times out.
LEMMA CountsHandshake ==
    ASSUME RelayInv, AdmInv', NEW c \in Conns,
           NEW k \in {"handshake_failed", "handshake_timeout"},
           Moves(c, "handshake", "unwinding", {}, {}), Counts(k), accepted' = accepted
    PROVE  RelayInv'
<1>1. /\ FlushShape' /\ Total(k)' = Total(k) + 1
      /\ \A n \in CounterNames : n # k => Total(n)' = Total(n)
      /\ \A n \in CounterNames : Total(n) \in Nat
  BY EachName, CountsKept DEF RelayInv
<1>2. OwedFits' /\ Shift("handshake", "unwinding", {}, {})
  BY MovesEffect, Zenon DEF RelayInv
<1>3. /\ Cardinality(Pending)' = Cardinality(Pending) - 1
      /\ Cardinality(Reading)' = Cardinality(Reading)
      /\ Cardinality(InTunnel)' = Cardinality(InTunnel)
      /\ Cardinality(Owers("completed"))' = Cardinality(Owers("completed"))
      /\ Cardinality(Owers("tunnels"))' = Cardinality(Owers("tunnels"))
  BY <1>2, NumbersAreNat, SMTT(30) DEF Shift, Bit, Numbers
<1>4. AllCounted'
  BY <1>1, <1>3, EachName, NumbersAreNat, SMTT(30) DEF RelayInv, AllCounted, Numbers
<1>5. RoomLeft'
  BY <1>1, <1>3, EachName, NumbersAreNat DEF RelayInv, RoomLeft, Tunnels, Numbers
<1>6. QED
  BY <1>1, <1>2, <1>4, <1>5, Zenon DEF RelayInv

\* A completed connection is counted, and read from.
LEMMA CountsCompleted ==
    ASSUME RelayInv, AdmInv', NEW c \in Conns,
           Moves(c, "gate", "gate", {"completed"}, {}), Counts("completed"), accepted' = accepted
    PROVE  RelayInv'
<1>1. /\ FlushShape' /\ Total("completed")' = Total("completed") + 1
      /\ \A n \in CounterNames : n # "completed" => Total(n)' = Total(n)
      /\ \A n \in CounterNames : Total(n) \in Nat
  BY EachName, CountsKept DEF RelayInv
<1>2. OwedFits' /\ Shift("gate", "gate", {"completed"}, {})
  BY MovesEffect, Zenon DEF RelayInv
<1>3. /\ Cardinality(Pending)' = Cardinality(Pending)
      /\ Cardinality(Reading)' = Cardinality(Reading) + 1
      /\ Cardinality(InTunnel)' = Cardinality(InTunnel)
      /\ Cardinality(Owers("completed"))' = Cardinality(Owers("completed")) - 1
      /\ Cardinality(Owers("tunnels"))' = Cardinality(Owers("tunnels"))
  BY <1>2, NumbersAreNat DEF Shift, Bit, Numbers
<1>4. AllCounted'
  BY <1>1, <1>3, EachName, NumbersAreNat, SMTT(30) DEF RelayInv, AllCounted, Numbers
<1>5. RoomLeft'
  BY <1>1, <1>3, EachName, NumbersAreNat DEF RelayInv, RoomLeft, Tunnels, Numbers
<1>6. QED
  BY <1>1, <1>2, <1>4, <1>5, Zenon DEF RelayInv

\* The first read makes a tunnel.
LEMMA CountsTunnel ==
    ASSUME RelayInv, AdmInv', NEW c \in Conns,
           Moves(c, "gate", "dial", {}, {}), Counts("tunnels"), accepted' = accepted
    PROVE  RelayInv'
<1>1. /\ FlushShape' /\ Total("tunnels")' = Total("tunnels") + 1
      /\ \A n \in CounterNames : n # "tunnels" => Total(n)' = Total(n)
      /\ \A n \in CounterNames : Total(n) \in Nat
  BY EachName, CountsKept DEF RelayInv
<1>2. OwedFits' /\ Shift("gate", "dial", {}, {})
  BY MovesEffect, Zenon DEF RelayInv
<1>3. /\ Cardinality(Pending)' = Cardinality(Pending)
      /\ Cardinality(Reading)' = Cardinality(Reading) - 1
      /\ Cardinality(InTunnel)' = Cardinality(InTunnel) + 1
      /\ Cardinality(Owers("completed"))' = Cardinality(Owers("completed"))
      /\ Cardinality(Owers("tunnels"))' = Cardinality(Owers("tunnels"))
  BY <1>2, NumbersAreNat, SMTT(30) DEF Shift, Bit, Numbers
<1>4. AllCounted'
  BY <1>1, <1>3, EachName, NumbersAreNat, Zenon DEF RelayInv, AllCounted, Numbers
<1>5. RoomLeft'
  BY <1>1, <1>3, EachName, NumbersAreNat DEF RelayInv, RoomLeft, Tunnels, Numbers
<1>6. QED
  BY <1>1, <1>2, <1>4, <1>5, Zenon DEF RelayInv

\* The second read makes a tunnel and counts itself first.
LEMMA CountsSecond ==
    ASSUME RelayInv, AdmInv', NEW c \in Conns,
           Moves(c, "gate2", "dial", {}, {"tunnels"}), Counts("auth_after_second_read"), accepted' = accepted
    PROVE  RelayInv'
<1>1. /\ FlushShape' /\ Total("auth_after_second_read")' = Total("auth_after_second_read") + 1
      /\ \A n \in CounterNames : n # "auth_after_second_read" => Total(n)' = Total(n)
      /\ \A n \in CounterNames : Total(n) \in Nat
  BY EachName, CountsKept, Zenon DEF RelayInv
<1>2. OwedFits' /\ Shift("gate2", "dial", {}, {"tunnels"})
  BY MovesEffect, Zenon DEF RelayInv
<1>3. /\ Cardinality(Pending)' = Cardinality(Pending)
      /\ Cardinality(Reading)' = Cardinality(Reading) - 1
      /\ Cardinality(InTunnel)' = Cardinality(InTunnel) + 1
      /\ Cardinality(Owers("completed"))' = Cardinality(Owers("completed"))
      /\ Cardinality(Owers("tunnels"))' = Cardinality(Owers("tunnels")) + 1
  BY <1>2, NumbersAreNat, SMTT(30) DEF Shift, Bit, Numbers
<1>4. AllCounted'
  BY <1>1, <1>3, EachName, NumbersAreNat, Zenon DEF RelayInv, AllCounted, Numbers
<1>5. RoomLeft'
  BY <1>1, <1>3, EachName, NumbersAreNat DEF RelayInv, RoomLeft, Tunnels, Numbers
<1>6. QED
  BY <1>1, <1>2, <1>4, <1>5 DEF RelayInv

\* The tunnel of a second read is counted.
LEMMA CountsOwedTunnel ==
    ASSUME RelayInv, AdmInv', NEW c \in Conns,
           Moves(c, "dial", "dial", {"tunnels"}, {}), Counts("tunnels"), accepted' = accepted
    PROVE  RelayInv'
<1>1. /\ FlushShape' /\ Total("tunnels")' = Total("tunnels") + 1
      /\ \A n \in CounterNames : n # "tunnels" => Total(n)' = Total(n)
      /\ \A n \in CounterNames : Total(n) \in Nat
  BY EachName, CountsKept, Zenon DEF RelayInv
<1>2. OwedFits' /\ Shift("dial", "dial", {"tunnels"}, {})
  BY MovesEffect, Zenon DEF RelayInv
<1>3. /\ Cardinality(Pending)' = Cardinality(Pending)
      /\ Cardinality(Reading)' = Cardinality(Reading)
      /\ Cardinality(InTunnel)' = Cardinality(InTunnel)
      /\ Cardinality(Owers("completed"))' = Cardinality(Owers("completed"))
      /\ Cardinality(Owers("tunnels"))' = Cardinality(Owers("tunnels")) - 1
  BY <1>2, NumbersAreNat, SMTT(30) DEF Shift, Bit, Numbers
<1>4. AllCounted'
  BY <1>1, <1>3, EachName, NumbersAreNat, Zenon DEF RelayInv, AllCounted, Numbers
<1>5. RoomLeft'
  BY <1>1, <1>3, EachName, NumbersAreNat DEF RelayInv, RoomLeft, Tunnels, Numbers
<1>6. QED
  BY <1>1, <1>2, <1>4, <1>5, SMTT(30) DEF RelayInv

\* A dial or a tunnel ends with an error.
LEMMA CountsError ==
    ASSUME RelayInv, AdmInv', NEW c \in Conns,
           NEW from \in {"dial", "tunnel"},
           Moves(c, from, "closed", {}, {}), Counts("handler_error"), accepted' = accepted
    PROVE  RelayInv'
<1>1. /\ FlushShape' /\ Total("handler_error")' = Total("handler_error") + 1
      /\ \A n \in CounterNames : n # "handler_error" => Total(n)' = Total(n)
      /\ \A n \in CounterNames : Total(n) \in Nat
  BY EachName, CountsKept DEF RelayInv
<1>2. OwedFits' /\ Shift(from, "closed", {}, {})
  BY MovesEffect, Zenon DEF RelayInv
<1>3. /\ Cardinality(Pending)' = Cardinality(Pending)
      /\ Cardinality(Reading)' = Cardinality(Reading)
      /\ Cardinality(InTunnel)' = Cardinality(InTunnel) - 1
      /\ Cardinality(Owers("completed"))' = Cardinality(Owers("completed"))
      /\ Cardinality(Owers("tunnels"))' = Cardinality(Owers("tunnels"))
  BY <1>2, NumbersAreNat, SMTT(30) DEF Shift, Bit, Numbers
<1>4. AllCounted'
  BY <1>1, <1>3, EachName, NumbersAreNat, Zenon DEF RelayInv, AllCounted, Numbers
<1>5. RoomLeft'
  BY <1>1, <1>3, EachName, NumbersAreNat DEF RelayInv, RoomLeft, Tunnels, Numbers
<1>6. QED
  BY <1>1, <1>2, <1>4, <1>5, Zenon DEF RelayInv

\* A move of a task that owes nothing and comes to owe nothing.
LEMMA PlainMove ==
    ASSUME OwedFits, NEW c \in Conns, NEW to, MoveTo(c, to), owed[c] = {}, owed' = owed
    PROVE  Moves(c, pc[c], to, {}, {})
BY Zenon DEF OwedFits, Moves, MoveTo

\* The accept loop.
LEMMA AcceptKeeps ==
    ASSUME RelayInv, AdmInv', AcceptOne
    PROVE  RelayInv'
<1>0. accepted' = accepted + 1 /\ owed' = owed /\ UNCHANGED flushVars /\ accepted \in Nat
  BY DEF AcceptOne, RelayInv, FlushShape
<1>1. CASE ShedGlobal /\ stats' = [stats EXCEPT !["shed_global"] = @ + 1]
  <2>1. /\ FlushShape' /\ Total("shed_global")' = Total("shed_global") + 1
        /\ \A n \in CounterNames : n # "shed_global" => Total(n)' = Total(n)
        /\ \A n \in CounterNames : Total(n) \in Nat
    <3>1. accepted' \in Nat /\ FlushShape /\ "shed_global" \in CounterNames
      BY <1>0, EachName DEF RelayInv
    <3>2. QED
      BY <1>0, <1>1, <3>1, CountsOne, TotalsAreNat, Zenon
  <2>2. pc' = pc
    BY <1>1, Zenon DEF ShedGlobal, admVars
  <2>3. /\ Pending' = Pending /\ Reading' = Reading /\ InTunnel' = InTunnel
        /\ \A k : Owers(k)' = Owers(k)
    BY <1>0, <2>2 DEF Pending, Reading, InTunnel, Owers
  <2>4. OwedFits'
    BY <1>0, <2>2, Zenon DEF RelayInv, OwedFits
  <2>5. AllCounted'
    BY <1>0, <2>1, <2>3, EachName, NumbersAreNat, SMTT(30) DEF RelayInv, AllCounted, Numbers
  <2>6. RoomLeft'
    BY <2>1, <2>3, EachName DEF RelayInv, RoomLeft, Tunnels
  <2>7. QED
    BY <2>1, <2>4, <2>5, <2>6 DEF RelayInv
<1>2. ASSUME NEW c \in Conns, NEW a \in Addrs, Accept(c, a), stats' = stats
      PROVE  RelayInv'
  <2>1. /\ FlushShape' /\ \A n \in CounterNames : Total(n)' = Total(n) /\ Total(n) \in Nat
    BY <1>0, <1>2, CountsNone, TotalsAreNat, SMTT(30) DEF RelayInv
  <2>2. Moves(c, "closed", "admit", {}, {})
    <3>1. pc[c] = "closed" /\ MoveTo(c, "admit")
      BY <1>2 DEF Accept
    <3>2. owed[c] = {}
      BY <3>1, Zenon DEF RelayInv, OwedFits
    <3>3. QED
      BY <1>0, <3>1, <3>2, PlainMove DEF RelayInv
  <2>3. OwedFits' /\ Shift("closed", "admit", {}, {})
    BY <2>2, MovesEffect, Zenon DEF RelayInv
  <2>4. /\ Cardinality(Pending)' = Cardinality(Pending) + 1
        /\ Cardinality(Reading)' = Cardinality(Reading)
        /\ Cardinality(InTunnel)' = Cardinality(InTunnel)
        /\ Cardinality(Owers("completed"))' = Cardinality(Owers("completed"))
        /\ Cardinality(Owers("tunnels"))' = Cardinality(Owers("tunnels"))
    BY <2>3, NumbersAreNat, SMTT(30) DEF Shift, Bit, Numbers
  <2>5. AllCounted'
    BY <1>0, <2>1, <2>4, EachName, NumbersAreNat, SMTT(30) DEF RelayInv, AllCounted, Numbers
  <2>6. RoomLeft'
    BY <2>1, <2>4, EachName, Zenon DEF RelayInv, RoomLeft, Tunnels
  <2>7. QED
    BY <2>1, <2>3, <2>5, <2>6, Zenon DEF RelayInv
<1>3. QED
  BY <1>1, <1>2 DEF AcceptOne

LEMMA AdmitKeeps ==
    ASSUME RelayInv, AdmInv', NEW c \in Conns, AdmitOne(c)
    PROVE  RelayInv'
<1>0. pc[c] = "admit" /\ owed[c] = {} /\ owed' = owed /\ accepted' = accepted
  BY SMTT(30) DEF AdmitOne, ShedPerIp, AdmitIp, Count, statVars, RelayInv, OwedFits
<1>1. CASE ShedPerIp(c) /\ Count("shed_per_ip")
  <2>1. Moves(c, "admit", "closed", {}, {}) /\ Counts("shed_per_ip")
    BY <1>0, <1>1, PlainMove, Zenon DEF ShedPerIp, Count, Counts, RelayInv
  <2>2. QED
    BY <1>0, <2>1, CountsShed, Zenon
<1>2. CASE AdmitIp(c) /\ UNCHANGED statVars
  <2>1. Moves(c, "admit", "handshake", {}, {}) /\ Silent
    BY <1>0, <1>2, PlainMove, Zenon DEF AdmitIp, statVars, Silent, RelayInv
  <2>2. QED
    BY <1>0, <2>1, SilentMove, SMTT(30)
<1>3. QED
  BY <1>1, <1>2, Zenon DEF AdmitOne

\* The increments a task makes between two of its other steps.
LEMMA CountOwedKeeps ==
    ASSUME RelayInv, AdmInv', NEW c \in Conns, CountOwed(c)
    PROVE  RelayInv'
<1>1. PICK k \in owed[c] : /\ stats' = [stats EXCEPT ![k] = @ + 1]
                           /\ owed' = [owed EXCEPT ![c] = @ \ {k}]
                           /\ UNCHANGED <<admVars, accepted, flushVars>>
  BY Zenon DEF CountOwed
<1>2. \/ owed[c] = {"completed"} /\ pc[c] = "gate" /\ k = "completed"
      \/ owed[c] = {"tunnels"} /\ pc[c] = "dial" /\ k = "tunnels"
  BY <1>1, Zenon DEF RelayInv, OwedFits
<1>3. pc' = [pc EXCEPT ![c] = pc[c]] /\ owed' = [owed EXCEPT ![c] = {}]
  BY <1>1, <1>2, Zenon DEF admVars, RelayInv, AdmInv, AdmTypeOK
<1>4. Moves(c, pc[c], pc[c], owed[c], {}) /\ Counts(k) /\ accepted' = accepted
  BY <1>1, <1>3, Zenon DEF Moves, Counts
<1>5. QED
  BY <1>2, <1>4, CountsCompleted, CountsOwedTunnel

\* The other steps of a task, which owes nothing when it takes one.
LEMMA HandshakeKeeps ==
    ASSUME RelayInv, AdmInv', NEW c \in Conns, owed[c] = {}, Handshake(c)
    PROVE  RelayInv'
<1>1. ASSUME NEW k \in {"handshake_failed", "handshake_timeout"}, HandshakeEnds(c), Count(k)
      PROVE  RelayInv'
  <2>1. /\ Moves(c, "handshake", "unwinding", {}, {}) /\ Counts(k)
        /\ accepted' = accepted
    BY <1>1, PlainMove, Zenon DEF HandshakeEnds, Count, Counts, RelayInv
  <2>2. QED
    BY <1>1, <2>1, CountsHandshake, Zenon
<1>2. CASE DropPermit(c) /\ UNCHANGED statVars
  <2>1. Moves(c, "unwinding", "closed", {}, {}) /\ Silent /\ accepted' = accepted
    BY <1>2, PlainMove, Zenon DEF DropPermit, statVars, Silent, RelayInv
  <2>2. QED
    BY <2>1, SilentMove, Zenon
<1>3. CASE /\ HandshakeDone(c)
           /\ owed' = [owed EXCEPT ![c] = {"completed"}]
           /\ UNCHANGED <<stats, accepted, flushVars>>
  <2>1. Moves(c, "handshake", "gate", {}, {"completed"}) /\ Silent /\ accepted' = accepted
    BY <1>3, Zenon DEF HandshakeDone, MoveTo, Moves, Silent
  <2>2. QED
    BY <2>1, SilentMove
<1>4. QED
  BY <1>1, <1>2, <1>3, Zenon DEF Handshake

LEMMA GateKeeps ==
    ASSUME RelayInv, AdmInv', NEW c \in Conns, owed[c] = {}, Gate(c)
    PROVE  RelayInv'
<1>0. \A to : MoveTo(c, to) => pc'[c] = to
  BY Zenon DEF MoveTo, RelayInv, AdmInv, AdmTypeOK
<1>1. ASSUME FirstRead(c), IF pc'[c] = "dial" THEN Count("tunnels") ELSE UNCHANGED statVars
      PROVE  RelayInv'
  <2>1. PICK to \in {"dial", "site", "gate2"} : MoveTo(c, to)
    BY <1>1, Zenon DEF FirstRead
  <2>2. pc[c] = "gate" /\ owed' = owed /\ accepted' = accepted
    BY <1>1, Zenon DEF FirstRead, Count, statVars
  <2>3. Moves(c, "gate", to, {}, {})
    BY <2>1, <2>2, PlainMove, Zenon DEF RelayInv
  <2>4. CASE to = "dial"
    <3>1. Counts("tunnels")
      BY <1>0, <1>1, <2>1, <2>4, Zenon DEF Count, Counts
    <3>2. QED
      BY <2>2, <2>3, <2>4, <3>1, CountsTunnel, Zenon
  <2>5. CASE to # "dial"
    <3>1. Silent
      BY <1>0, <1>1, <2>1, <2>5, Zenon DEF statVars, Silent
    <3>2. QED
      BY <2>1, <2>2, <2>3, <2>5, <3>1, SilentMove, Zenon
  <2>6. QED
    BY <2>4, <2>5, Zenon
<1>2. ASSUME SecondRead(c), pc'[c] = "dial",
             stats' = [stats EXCEPT !["auth_after_second_read"] = @ + 1],
             owed' = [owed EXCEPT ![c] = {"tunnels"}], UNCHANGED <<accepted, flushVars>>
      PROVE  RelayInv'
  <2>1. pc[c] = "gate2" /\ MoveTo(c, "dial")
    BY <1>0, <1>2, Zenon DEF SecondRead
  <2>2. Moves(c, "gate2", "dial", {}, {"tunnels"}) /\ Counts("auth_after_second_read")
    BY <1>2, <2>1, SMTT(30) DEF Moves, MoveTo, Counts
  <2>3. QED
    BY <1>2, <2>2, CountsSecond, Zenon
<1>3. ASSUME SecondRead(c), pc'[c] # "dial", UNCHANGED statVars
      PROVE  RelayInv'
  <2>1. pc[c] = "gate2" /\ MoveTo(c, "site")
    BY <1>0, <1>3 DEF SecondRead
  <2>2. Moves(c, "gate2", "site", {}, {}) /\ Silent /\ accepted' = accepted
    BY <1>3, <2>1, PlainMove, Zenon DEF statVars, Silent, RelayInv
  <2>3. QED
    BY <2>2, SilentMove, Zenon
<1>4. CASE NothingToRead(c) /\ UNCHANGED statVars
  <2>1. Moves(c, "gate", "closed", {}, {}) /\ Silent /\ accepted' = accepted
    BY <1>4, PlainMove, Zenon DEF NothingToRead, EndTask, statVars, Silent, RelayInv
  <2>2. QED
    BY <2>1, SilentMove, Zenon
<1>5. QED
  BY <1>1, <1>2, <1>3, <1>4, Zenon DEF Gate

LEMMA ForwardKeeps ==
    ASSUME RelayInv, AdmInv', NEW c \in Conns, owed[c] = {}, Dial(c) \/ Forward(c)
    PROVE  RelayInv'
<1>1. CASE DialDone(c) /\ UNCHANGED statVars
  <2>1. Moves(c, "dial", "tunnel", {}, {}) /\ Silent /\ accepted' = accepted
    BY <1>1, PlainMove, Zenon DEF DialDone, statVars, Silent, RelayInv
  <2>2. QED
    BY <2>1, SilentMove, Zenon
<1>2. CASE ForwardEnds(c) /\ UNCHANGED statVars
  <2>1. /\ Moves(c, pc[c], "closed", {}, {}) /\ Silent /\ accepted' = accepted
        /\ pc[c] \in {"tunnel", "site"}
    BY <1>2, PlainMove, Zenon DEF ForwardEnds, EndTask, statVars, Silent, RelayInv
  <2>2. QED
    BY <2>1, SilentMove, Zenon
<1>3. ASSUME pc[c] \in {"dial", "tunnel"}, EndTask(c), Count("handler_error")
      PROVE  RelayInv'
  <2>1. Moves(c, pc[c], "closed", {}, {}) /\ Counts("handler_error") /\ accepted' = accepted
    BY <1>3, PlainMove, Zenon DEF EndTask, Count, Counts, RelayInv
  <2>2. QED
    BY <1>3, <2>1, CountsError, Zenon
<1>4. QED
  BY <1>1, <1>2, <1>3, SMTT(30) DEF Dial, Forward, DialFails, ForwardEnds

\* A flush, or a step of something else, leaves the totals and the connections alone.
LEMMA StillKeeps ==
    ASSUME RelayInv, AdmInv', FlushShape', \A n \in CounterNames : Total(n)' = Total(n),
           UNCHANGED <<pc, owed, accepted>>
    PROVE  RelayInv'
<1>1. /\ Pending' = Pending /\ Reading' = Reading /\ InTunnel' = InTunnel
      /\ \A k : Owers(k)' = Owers(k)
  BY Zenon DEF Pending, Reading, InTunnel, Owers
<1>2. OwedFits'
  BY Zenon DEF RelayInv, OwedFits
<1>3. AllCounted'
  BY <1>1, EachName, Zenon DEF RelayInv, AllCounted
<1>4. RoomLeft'
  BY <1>1, EachName DEF RelayInv, RoomLeft, Tunnels
<1>5. QED
  BY <1>2, <1>3, <1>4 DEF RelayInv

-----------------------------------------------------------------------------
(* The results.                                                            *)

LEMMA RelayInvInit == RelayInit => RelayInv
<1> SUFFICES ASSUME RelayInit PROVE RelayInv
  BY Zenon
<1>1. AdmInv
  BY AdmInvInitially, Zenon DEF RelayInit
<1>2. FlushShape /\ \A k \in CounterNames : Total(k) = 0
  <2>1. stats = Zero /\ line = Zero /\ reported = Zero /\ accepted = 0 /\ step = 0
    BY Zenon DEF RelayInit
  <2>2. Zero \in [CounterNames -> Nat] /\ \A k \in CounterNames : Zero[k] = 0
    BY Zenon DEF Zero
  <2>3. \A i \in 1..8 : Counters[i] \in CounterNames
    BY Names, Zenon
  <2>4. QED
    BY <2>1, <2>2, <2>3 DEF FlushShape, Total
<1>3. OwedFits
  BY Zenon DEF RelayInit, OwedFits
<1>4. Pending = {} /\ Reading = {} /\ InTunnel = {} /\ \A k : Owers(k) = {}
  BY DEF RelayInit, AdmInit, Pending, Reading, InTunnel, Owers
<1>5. Cardinality({}) = 0
  BY FS_EmptySet, Zenon
<1>6. AllCounted /\ RoomLeft
  BY <1>2, <1>4, <1>5, EachName DEF RelayInit, AllCounted, RoomLeft, Tunnels
<1>7. QED
  BY <1>1, <1>2, <1>3, <1>6, Zenon DEF RelayInv

LEMMA RelayInvInductive == RelayInv /\ [RelayNext]_relayVars => RelayInv'
<1> SUFFICES ASSUME RelayInv, [RelayNext]_relayVars PROVE RelayInv'
  BY Zenon
<1>0. AdmInv'
  BY IsAdmStep, AdmInvInductive, Zenon DEF RelayInv
<1>1. CASE AcceptOne
  BY <1>0, <1>1, AcceptKeeps, Zenon
<1>2. ASSUME NEW c \in Conns, AdmitOne(c) PROVE RelayInv'
  BY <1>0, <1>2, AdmitKeeps, Zenon
<1>3. ASSUME NEW c \in Conns, Task(c) PROVE RelayInv'
  BY <1>0, <1>3, CountOwedKeeps, HandshakeKeeps, GateKeeps, ForwardKeeps, Zenon DEF Task, TimedTask
<1>4. CASE FlushBegins \/ Swap \/ Emit
  <2>1. UNCHANGED <<pc, owed, accepted>>
    BY <1>4, SMTT(30) DEF FlushBegins, Swap, Emit, admVars
  <2>2. QED
    BY <1>0, <1>4, <2>1, FlushKeepsTotals, StillKeeps, Zenon DEF RelayInv
<1>5. CASE UNCHANGED relayVars
  <2>1. UNCHANGED <<pc, owed, accepted, stats, flushVars>>
    BY <1>5 DEF relayVars, admVars, statVars
  <2>2. QED
    BY <1>0, <2>1, CountsNone, StillKeeps, Zenon DEF RelayInv, FlushShape
<1>6. QED
  BY <1>1, <1>2, <1>3, <1>4, <1>5, Zenon DEF RelayNext

LEMMA RelayInvHolds == RelaySpec => []RelayInv
BY RelayInvInit, RelayInvInductive, PTL DEF RelaySpec

\* The summary lines of ConnStats account for every connection once and keep errors, tunnels and
\* completed connections in order, whenever the ticker flushes.
THEOREM SummariesAddUp == RelaySpec => []SummaryAddsUp
<1>1. RelayInv => SummaryAddsUp
  <2> SUFFICES ASSUME RelayInv PROVE SummaryAddsUp
    BY SMTT(30)
  <2>1. EveryConnectionIsCounted
    BY Zenon DEF RelayInv, AllCounted, EveryConnectionIsCounted, Owing, Owers, Pending
  <2>2. /\ Total("tunnels") + Owing("tunnels") = Tunnels
        /\ Owing("tunnels") \in Nat
    BY NumbersAreNat, Zenon DEF Owing, Owers, Tunnels, Numbers
  <2>3. CountersAreOrdered
    <3>1. /\ Total("tunnels") \in Nat /\ Total("handler_error") \in Nat
          /\ Total("completed") \in Nat
          /\ Cardinality(InTunnel) \in Nat /\ Cardinality(Reading) \in Nat
      BY EachName, TotalsAreNat, NumbersAreNat DEF RelayInv, Numbers
    <3>2. RoomLeft /\ Tunnels \in Nat
      BY <2>2, <3>1 DEF RelayInv
    <3>3. /\ Total("auth_after_second_read") <= Tunnels
          /\ Total("handler_error") <= Tunnels /\ Tunnels <= Total("completed")
      BY <3>1, <3>2 DEF RoomLeft
    <3>4. QED
      BY <2>2, <3>3, Zenon DEF CountersAreOrdered
  <2>4. QED
    BY <2>1, <2>3, Zenon DEF SummaryAddsUp
<1>2. QED
  BY <1>1, RelayInvHolds, PTL

\* With counters and flushes, too, permits and per-address counts stay exact and in bounds.
THEOREM RelayAccounted == RelaySpec => []AdmissionIsAccounted
<1>1. RelayInv => AdmissionIsAccounted
  BY InvIsAccounted DEF RelayInv
<1>2. QED
  BY <1>1, RelayInvHolds, PTL

-----------------------------------------------------------------------------
(***************************************************************************)
(* The limiter's two promises for any number of connections and frames and *)
(* any window.                                                             *)
(***************************************************************************)

\* A task about to exchange found the window of the value it loaded over.
ExchangeIsDue == \A c \in Callers : at[c] = "exchange" => MayWarn(seen[c], now[c])

\* The inductive invariant.
WarnInv == WarnTypeOK /\ NoFrameIsForgotten /\ ExchangeIsDue

\* Only finitely many tasks are inside admit().
LEMMA InsideIsFinite == WarnTypeOK => IsFiniteSet(Inside) /\ Cardinality(Inside) \in Nat
<1>1. Inside \subseteq Callers  BY Zenon DEF Inside
<1>. QED  BY <1>1, WarnAssumption, FS_Subset, FS_CardinalityType, Zenon

\* InvalidFrame puts one more task inside admit().
LEMMA OneEnters ==
    ASSUME WarnTypeOK, NEW c \in Callers, NEW s \in Steps \ {"out"},
           at[c] = "out", at' = [at EXCEPT ![c] = s]
    PROVE  Cardinality(Inside') = Cardinality(Inside) + 1
<1>1. Inside' = Inside \cup {c} /\ c \notin Inside
  BY Zenon DEF WarnTypeOK, Inside, Steps
<1>. QED  BY <1>1, InsideIsFinite, FS_AddElement, Zenon

\* Suppress and TakeCount let one task out of admit().
LEMMA OneLeaves ==
    ASSUME WarnTypeOK, NEW c \in Callers,
           at[c] # "out", at' = [at EXCEPT ![c] = "out"]
    PROVE  Cardinality(Inside') = Cardinality(Inside) - 1
<1>1. Inside' = Inside \ {c} /\ c \in Inside
  BY DEF WarnTypeOK, Inside
<1>. QED  BY <1>1, InsideIsFinite, FS_RemoveElement, Zenon

\* Load and Exchange move a task from one step inside admit() to another.
LEMMA NobodyMoves ==
    ASSUME WarnTypeOK, NEW c \in Callers, NEW s \in Steps \ {"out"},
           at[c] # "out", at' = [at EXCEPT ![c] = s]
    PROVE  Inside' = Inside
BY DEF WarnTypeOK, Inside, Steps

\* The limiter starts with nothing logged, counted or under way.
LEMMA WarnInvInitially == WarnInit => WarnInv
<1>. SUFFICES ASSUME WarnInit PROVE WarnInv
  BY Zenon
<1>1. WarnTypeOK
  BY WarnAssumption DEF WarnInit, WarnTypeOK, Times, Steps
<1>2. Inside = {}
  BY DEF WarnInit, Inside
<1>3. NoFrameIsForgotten
  BY <1>2, FS_EmptySet DEF WarnInit, NoFrameIsForgotten
<1>4. ExchangeIsDue
  BY Zenon DEF WarnInit, ExchangeIsDue
<1>. QED  BY <1>1, <1>3, <1>4, Zenon DEF WarnInv

\* Every step of admit(), and a change of the clock, preserves WarnInv.
LEMMA WarnInvInductive == WarnInv /\ [WarnNext]_warnVars => WarnInv'
<1>. SUFFICES ASSUME WarnInv, [WarnNext]_warnVars PROVE WarnInv'
  BY Zenon
<1>. USE DEF WarnInv
<1>0. Cardinality(Inside) \in Nat
  BY InsideIsFinite
<1>1. ASSUME at' = at, UNCHANGED <<limiter, now, seen, frames, logged>>, clock' \in Times
      PROVE  WarnInv'
  BY <1>1, Zenon DEF WarnTypeOK, NoFrameIsForgotten, ExchangeIsDue, MayWarn, Since, Inside,
              limiter, logged
<1>2. ASSUME NEW c \in Callers, InvalidFrame(c)
      PROVE  WarnInv'
  <2>1. WarnTypeOK'
    BY <1>2 DEF InvalidFrame, WarnTypeOK, Times, Steps, limiter, logged
  <2>2. Cardinality(Inside') = Cardinality(Inside) + 1
    BY <1>2, OneEnters, Zenon DEF InvalidFrame, Steps
  <2>3. NoFrameIsForgotten'
    BY <1>0, <1>2, <2>2 DEF InvalidFrame, NoFrameIsForgotten, WarnTypeOK, limiter, logged
  <2>4. ExchangeIsDue'
    BY <1>2, Zenon DEF InvalidFrame, ExchangeIsDue, WarnTypeOK, MayWarn, Since
  <2>. QED  BY <2>1, <2>3, <2>4, Zenon
<1>3. ASSUME NEW c \in Callers, Load(c)
      PROVE  WarnInv'
  <2>1. PICK v \in held :
           /\ seen' = [seen EXCEPT ![c] = v]
           /\ at' = [at EXCEPT ![c] = IF MayWarn(v, now[c]) THEN "exchange" ELSE "suppress"]
    BY <1>3, Zenon DEF Load
  <2>2. WarnTypeOK'
    BY <1>3, <2>1, Zenon DEF Load, WarnTypeOK, Steps, limiter, logged
  <2>3. Inside' = Inside
    BY <1>3, <2>1, NobodyMoves, Zenon DEF Load, Steps
  <2>4. NoFrameIsForgotten'
    BY <1>3, <2>3, Zenon DEF Load, NoFrameIsForgotten, limiter, logged
  <2>5. ExchangeIsDue'
    BY <1>3, <2>1 DEF Load, ExchangeIsDue, WarnTypeOK, MayWarn, Since
  <2>. QED  BY <2>2, <2>4, <2>5, Zenon
<1>4. ASSUME NEW c \in Callers, Exchange(c)
      PROVE  WarnInv'
  <2>1. PICK s \in {"swap", "suppress"} : at' = [at EXCEPT ![c] = s]
    BY <1>4, Zenon DEF Exchange
  <2>a. NonZero(now[c]) \in Nat
    BY DEF WarnTypeOK, NonZero
  <2>b. last' \in Nat /\ held' \in SUBSET Nat
    BY <1>4, <2>a, Zenon DEF Exchange, WarnTypeOK
  <2>2. WarnTypeOK'
    BY <1>4, <2>1, <2>b DEF Exchange, WarnTypeOK, Steps, logged
  <2>3. Inside' = Inside
    BY <1>4, <2>1, NobodyMoves, Zenon DEF Exchange, Steps
  <2>4. NoFrameIsForgotten'
    BY <1>4, <2>3, Zenon DEF Exchange, NoFrameIsForgotten, logged
  <2>5. ExchangeIsDue'
    BY <1>4, <2>1, Zenon DEF Exchange, ExchangeIsDue, WarnTypeOK, MayWarn, Since
  <2>. QED  BY <2>2, <2>4, <2>5, Zenon
<1>5. ASSUME NEW c \in Callers, Suppress(c) \/ TakeCount(c)
      PROVE  WarnInv'
  <2>a. suppressed' \in Nat /\ lines' \in Nat /\ told' \in Nat
    BY <1>5 DEF Suppress, TakeCount, WarnTypeOK, logged
  <2>b. at' \in [Callers -> Steps]
    BY <1>5, Zenon DEF Suppress, TakeCount, WarnTypeOK, Steps
  <2>1. WarnTypeOK'
    BY <1>5, <2>a, <2>b, Zenon DEF Suppress, TakeCount, WarnTypeOK
  <2>2. Cardinality(Inside') = Cardinality(Inside) - 1
    BY <1>5, OneLeaves, Zenon DEF Suppress, TakeCount
  <2>3. NoFrameIsForgotten'
    BY <1>0, <1>5, <2>2, SMTT(30) DEF Suppress, TakeCount, NoFrameIsForgotten, WarnTypeOK, logged
  <2>4. ExchangeIsDue'
    BY <1>5, Zenon DEF Suppress, TakeCount, ExchangeIsDue, WarnTypeOK, MayWarn, Since
  <2>. QED  BY <2>1, <2>3, <2>4, Zenon
<1>6. CASE SetClock
  BY <1>1, <1>6, Zenon DEF SetClock
<1>7. CASE UNCHANGED warnVars
  BY <1>1, <1>7 DEF warnVars, WarnTypeOK
<1>. QED  BY <1>2, <1>3, <1>4, <1>5, <1>6, <1>7, Zenon DEF WarnNext

\* The inductive invariant holds in every run of the limiter.
THEOREM WarnInvHolds == WarnSpec => []WarnInv
BY WarnInvInitially, WarnInvInductive, PTL DEF WarnSpec

\* No invalid frame is forgotten or told twice by admit(), for any number of tasks.
THEOREM NoFrameForgotten == WarnSpec => []NoFrameIsForgotten
<1>1. WarnInv => NoFrameIsForgotten  BY DEF WarnInv
<1>. QED  BY <1>1, WarnInvHolds, PTL

\* Two warnings of admit() are at least INVALID_AUTH_WARN_EVERY apart, for any window.
THEOREM WarningsSpaced == WarnSpec => WarningsAreSpaced
<1>1. WarnInv /\ [WarnNext]_warnVars
        => [last' # last => last = 0 \/ last' >= last + Every]_warnVars
  <2>. SUFFICES ASSUME WarnInv, WarnNext, last' # last
                PROVE  last = 0 \/ last' >= last + Every
    BY Zenon DEF warnVars, limiter
  <2>1. PICK c \in Callers : Exchange(c)
    BY Zenon DEF WarnNext, SetClock, InvalidFrame, Load, Suppress, TakeCount, limiter
  <2>2. last = seen[c] /\ last' = NonZero(now[c]) /\ MayWarn(last, now[c])
    BY <2>1, Zenon DEF Exchange, WarnInv, ExchangeIsDue
  <2>. QED
    BY <2>1, <2>2, WarnAssumption DEF WarnInv, WarnTypeOK, MayWarn, Since, NonZero
<1>. QED  BY <1>1, WarnInvHolds, PTL DEF WarnSpec, WarningsAreSpaced

=============================================================================
