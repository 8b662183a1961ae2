-------------------------- MODULE ScoreStoreProofs --------------------------
(***************************************************************************)
(* Blocks, scores, selection and pruning, for any number of networks,      *)
(* methods and overlapping record() calls, and any times.                  *)
(***************************************************************************)
EXTENDS ScoreStore, FiniteSetTheorems, TLAPS

-----------------------------------------------------------------------------
(* Induction over the natural numbers, for the members of a set.           *)

\* A set of natural numbers that is not empty has a least element.
LEMMA LeastNat ==
    ASSUME NEW T \in SUBSET Nat, T # {}
    PROVE  \E m \in T : \A k \in T : m <= k
<1> DEFINE R == {p \in Nat \X Nat : p[1] < p[2]}
<1>1. IsWellFoundedOn(R, Nat)
    BY NatLessThanWellFounded, Zenon DEF OpToRel
<1>2. \A k, m \in T : <<k, m>> \in R <=> k < m
    BY Zenon
<1> HIDE DEF R
<1>3. PICK m \in T : \A k \in T : ~ (<<k, m>> \in R)
    BY <1>1, WFMin, Zenon
<1>4. \A k \in T : ~ (k < m)
    BY <1>2, <1>3, Zenon
<1>5. \A k \in T : m <= k
    BY <1>4
<1> QED
    BY <1>5, Zenon

\* Induction over the natural numbers, for the members of a set.
LEMMA Induction ==
    ASSUME NEW T, 0 \in T, \A n \in Nat : n \in T => n + 1 \in T
    PROVE  \A n \in Nat : n \in T
<1> SUFFICES ASSUME Nat \ T # {} PROVE FALSE
    BY Zenon
<1>1. PICK m \in Nat \ T : \A k \in Nat \ T : m <= k
    BY LeastNat, Zenon
<1>2. m # 0 /\ m - 1 \in Nat
    BY <1>1
<1>3. m - 1 \in T
    BY <1>1, <1>2
<1> QED
    BY <1>1, <1>2, <1>3


Steps == {"read", "upsert", "count", "delete"}
Calls == [pc : Steps, f : Fingerprints, m : Methods, outcome : Outcomes, median : Nat,
          stamp : Nat, time : Nat, over : Int, alone : BOOLEAN]
Histories == [failures : Nat, hardAt : Times]

Idle(r) == rec[r].pc = "idle"

StoreTypeOK ==
    /\ clock \in Nat /\ records \in Nat
    /\ rows \in [Fingerprints -> [Methods -> ScoreEntry]]
    /\ past \in [Fingerprints -> [Methods -> Histories]]
    /\ rec \in [Recorders -> {IdleRec} \cup Calls]

\* A row counts its failures since a success and keeps the hour of the last hard one.
Tells(e, p) ==
    /\ e.consecutive_failures = p.failures
    /\ e.blocked_at = Never <=> p.hardAt = Never
    /\ e.blocked_at <= p.hardAt
    /\ p.hardAt < e.blocked_at + Hour

RowsTellHistory == \A f \in Fingerprints, m \in Methods : Tells(rows[f][m], past[f][m])

\* The stamp of a call is the hour of its time, which has passed.
StampsAreCoarse ==
    \A r \in Recorders : ~Idle(r) =>
        /\ rec[r].stamp <= rec[r].time /\ rec[r].time < rec[r].stamp + Hour
        /\ rec[r].time <= clock /\ rec[r].stamp <= CoarseNow
        /\ rec[r].pc = "read" => rec[r].outcome.ok

NoLaterThan(t) == \A f \in Fingerprints, m \in Methods : rows[f][m].last_failure_at <= t

\* No failure is of the future, unless the table is only read.
FailuresArePast ==
    \/ records = MaxRecords /\ \A r \in Recorders : Idle(r)
    \/ NoLaterThan(CoarseNow)

\* Nothing changes the table under a call that runs alone.
AloneIsAlone ==
    \A r \in Recorders : ~Idle(r) /\ rec[r].alone =>
        /\ \A q \in Recorders \ {r} : Idle(q)
        /\ rec[r].pc = "upsert" /\ ~rec[r].outcome.ok => NoLaterThan(rec[r].stamp)
        /\ rec[r].pc = "delete" => rec[r].over = Cardinality(Stored) - MaxFingerprints

\* The inductive invariant.
StoreInv ==
    /\ StoreTypeOK /\ RowsTellHistory /\ StampsAreCoarse /\ FailuresArePast /\ AloneIsAlone

-----------------------------------------------------------------------------
(* Times and records.                                                      *)

Coarse(t) == (t \div Hour) * Hour

\* Rounding to the hour: not later, less than an hour earlier, in the same order.
LEMMA CoarseFacts ==
    ASSUME NEW t \in Nat
    PROVE  /\ Coarse(t) \in Nat /\ Coarse(t) <= t /\ t < Coarse(t) + Hour
           /\ Coarse(t) <= Coarse(t + 1)
<1>0. Hour \in Nat \ {0}
  BY ScoringAssumption, Zenon
<1>1. ASSUME NEW u \in Nat PROVE /\ u \div Hour \in Nat /\ u % Hour \in 0..Hour - 1
                               /\ u = Hour * (u \div Hour) + (u % Hour)
  BY <1>0
<1>2. ASSUME NEW u \in Nat PROVE Coarse(u) \in Nat /\ Coarse(u) <= u /\ u < Coarse(u) + Hour
  BY <1>0, <1>1 DEF Coarse
<1>3. t \div Hour <= (t + 1) \div Hour
  BY <1>0, <1>1
<1>4. ASSUME NEW a \in Nat, NEW b \in Nat, a <= b PROVE a * Hour <= b * Hour
  BY <1>0, <1>4
<1> QED BY <1>1, <1>2, <1>3, <1>4, SMTT(30) DEF Coarse

\* The fields of a record one of whose fields is replaced.
LEMMA AloneSet ==
    ASSUME NEW c \in Calls, NEW x \in BOOLEAN
    PROVE  [c EXCEPT !.alone = x] =
              [pc |-> c.pc, f |-> c.f, m |-> c.m, outcome |-> c.outcome, median |-> c.median,
               stamp |-> c.stamp, time |-> c.time, over |-> c.over, alone |-> x]
BY DEF Calls

LEMMA PcSet ==
    ASSUME NEW c \in Calls, NEW x \in Steps
    PROVE  [c EXCEPT !.pc = x] =
              [pc |-> x, f |-> c.f, m |-> c.m, outcome |-> c.outcome, median |-> c.median,
               stamp |-> c.stamp, time |-> c.time, over |-> c.over, alone |-> c.alone]
BY DEF Calls

-----------------------------------------------------------------------------
(* The steps of a record().                                                *)

\* A call under way is a call.
LEMMA CallOf ==
    ASSUME StoreTypeOK, NEW r \in Recorders, ~Idle(r)
    PROVE  /\ rec[r] \in Calls /\ rec[r].pc \in Steps /\ rec[r].f \in Fingerprints /\ rec[r].m \in Methods
           /\ rec[r].outcome \in Outcomes /\ rec[r].stamp \in Nat /\ rec[r].time \in Nat /\ rec[r].median \in Nat
BY DEF StoreTypeOK, Idle, IdleRec, Calls

\* What a call that goes on, or ends, must keep when the table stays.
Follows(c, r) ==
    /\ c.pc = "idle" \/ c \in Calls
    /\ c.pc # "idle" =>
          /\ c.stamp <= c.time /\ c.time < c.stamp + Hour
          /\ c.time <= clock /\ c.stamp <= CoarseNow /\ c.pc # "read"
          /\ c.alone => rec[r].alone
          /\ c.pc = "upsert" => c.outcome.ok
          /\ c.pc = "delete" => c.over = Cardinality(Stored) - MaxFingerprints

LEMMA CallMoves ==
    ASSUME StoreInv, NEW r \in Recorders, ~Idle(r), NEW c, c \in {IdleRec} \cup Calls, Follows(c, r),
           rec' = [rec EXCEPT ![r] = c], UNCHANGED <<clock, rows, records, past>>
    PROVE  StoreInv'
<1>1. /\ rec'[r] = c /\ \A q \in Recorders : q # r => rec'[q] = rec[q]
      /\ rec' \in [Recorders -> {IdleRec} \cup Calls]
  BY Zenon DEF StoreInv, StoreTypeOK
<1>2. StoreTypeOK'
  BY <1>1, Zenon DEF StoreInv, StoreTypeOK
<1>3. RowsTellHistory'
  BY Zenon DEF StoreInv, RowsTellHistory, Tells
<1>4. CoarseNow' = CoarseNow /\ Stored' = Stored
  BY Zenon DEF CoarseNow, Stored, Known
<1>5. StampsAreCoarse'
  BY <1>1, <1>4, Zenon DEF StoreInv, StampsAreCoarse, Follows, Idle
<1>6. FailuresArePast'
  BY <1>1, <1>4, Zenon DEF StoreInv, FailuresArePast, NoLaterThan, Idle
<1>7. AloneIsAlone'
  <2> SUFFICES ASSUME NEW q \in Recorders, ~Idle(q)', rec'[q].alone
               PROVE  /\ \A p \in Recorders \ {q} : Idle(p)'
                      /\ rec'[q].pc = "upsert" /\ ~rec'[q].outcome.ok => NoLaterThan(rec[q].stamp)' \/ q = r
                      /\ rec'[q].pc = "upsert" /\ ~rec'[q].outcome.ok => q # r
                      /\ rec'[q].pc = "delete" => rec'[q].over = Cardinality(Stored) - MaxFingerprints
    BY <1>1, <1>4, Zenon DEF AloneIsAlone, NoLaterThan
  <2>1. CASE q = r
    BY <1>1, <2>1, SMTT(30) DEF StoreInv, AloneIsAlone, Follows, Idle
  <2>2. CASE q # r
    BY <1>1, <2>2 DEF StoreInv, AloneIsAlone, NoLaterThan, Idle
  <2> QED BY <2>1, <2>2, SMTT(30)
<1> QED BY <1>2, <1>3, <1>5, <1>6, <1>7, Zenon DEF StoreInv

LEMMA FailsKeeps ==
    ASSUME StoreInv, NEW r \in Recorders, StatementFails(r)
    PROVE  StoreInv'
<1>1. Follows(IdleRec, r)
  BY Zenon DEF Follows, IdleRec
<1> QED BY <1>1, CallMoves, Zenon DEF StatementFails, Idle

\* prune goes on to the DELETE with what the COUNT found too many.
LEMMA ToDelete ==
    ASSUME StoreTypeOK, NEW r \in Recorders, ~Idle(r),
           rec' = [rec EXCEPT ![r].pc = "delete", ![r].over = Cardinality(Stored) - MaxFingerprints]
    PROVE  \E c \in Calls : /\ rec' = [rec EXCEPT ![r] = c] /\ rec'[r] = c
                            /\ c.pc = "delete" /\ c.over = Cardinality(Stored) - MaxFingerprints
                            /\ c.alone = rec[r].alone /\ c.stamp = rec[r].stamp /\ c.time = rec[r].time
<1>1. rec[r] \in Calls
  BY CallOf, Zenon
<1>2. PICK n \in Int : n = Cardinality(Stored) - MaxFingerprints
  <2>1. Cardinality(Stored) \in Nat
    BY StoreAssumption, FS_Subset, FS_CardinalityType, Zenon DEF Stored
  <2> QED BY <2>1, StoreAssumption
<1>3. PICK b : b = [rec[r] EXCEPT !.pc = "delete"]
  BY Zenon
<1>4. PICK c : c = [b EXCEPT !.over = n]
  BY Zenon
<1>5. b = [pc |-> "delete", f |-> rec[r].f, m |-> rec[r].m, outcome |-> rec[r].outcome,
           median |-> rec[r].median, stamp |-> rec[r].stamp, time |-> rec[r].time,
           over |-> rec[r].over, alone |-> rec[r].alone]
  BY <1>1, <1>3, PcSet, Zenon DEF Steps
<1>6. c \in Calls /\ c.pc = "delete" /\ c.over = n /\ c.alone = rec[r].alone
      /\ c.stamp = rec[r].stamp /\ c.time = rec[r].time
  BY <1>1, <1>2, <1>4, <1>5, SMTT(30) DEF Calls, Steps
<1>7. rec' = [rec EXCEPT ![r] = c] /\ rec'[r] = c
  BY <1>2, <1>3, <1>4, Zenon DEF StoreTypeOK
<1> QED BY <1>2, <1>6, <1>7, Zenon

LEMMA CountKeeps ==
    ASSUME StoreInv, NEW r \in Recorders, Count(r)
    PROVE  StoreInv'
<1>0. ~Idle(r) /\ UNCHANGED <<clock, rows, records, past>> /\ rec[r].pc = "count"
  BY DEF Idle, Count
<1>1. CASE rec' = [rec EXCEPT ![r] = IdleRec]
  <2>1. Follows(IdleRec, r)
    BY Zenon DEF Follows, IdleRec
  <2> QED BY <1>0, <1>1, <2>1, CallMoves, Zenon
<1>2. CASE rec' = [rec EXCEPT ![r].pc = "delete", ![r].over = Cardinality(Stored) - MaxFingerprints]
  <2>1. PICK c \in Calls : /\ rec' = [rec EXCEPT ![r] = c]
                           /\ c.pc = "delete" /\ c.over = Cardinality(Stored) - MaxFingerprints
                           /\ c.alone = rec[r].alone /\ c.stamp = rec[r].stamp /\ c.time = rec[r].time
    BY <1>0, <1>2, ToDelete, Zenon DEF StoreInv
  <2>2. Follows(c, r)
    BY <1>0, <2>1 DEF StoreInv, StampsAreCoarse, Follows
  <2> QED BY <1>0, <2>1, <2>2, CallMoves, Zenon
<1> QED BY <1>1, <1>2, Zenon DEF Count

LEMMA ReadKeeps ==
    ASSUME StoreInv, NEW r \in Recorders, ReadLatency(r)
    PROVE  StoreInv'
<1> DEFINE x == Ewma(rows[rec[r].f][rec[r].m].median_latency_ms, rec[r].outcome.latency)
<1>0. ~Idle(r) /\ UNCHANGED <<clock, rows, records, past>> /\ rec[r].pc = "read"
  BY DEF Idle, ReadLatency
<1>1. /\ rec[r] \in Calls /\ rec[r].outcome.ok /\ clock \in Nat
      /\ rec[r].f \in Fingerprints /\ rec[r].m \in Methods /\ rec[r].outcome \in Outcomes
  BY <1>0, CallOf DEF StoreInv, StampsAreCoarse, StoreTypeOK
<1>2. PICK n \in Nat : n = x
  <2>1. rec[r].outcome.latency \in Nat
    BY <1>1, StoreAssumption, Zenon DEF Outcomes
  <2>2. rows[rec[r].f][rec[r].m].median_latency_ms \in Nat
    BY <1>1, Zenon DEF StoreInv, StoreTypeOK, ScoreEntry
  <2>3. ASSUME NEW a \in Nat, NEW b \in Nat PROVE Ewma(a, b) \in Nat
    BY DEF Ewma
  <2> QED BY <2>1, <2>2, <2>3, Zenon
<1>3. PICK s \in Nat : s = CoarseNow /\ s <= clock /\ clock < s + Hour
  BY <1>1, CoarseFacts, Zenon DEF CoarseNow, Coarse
<1>4. PICK b : b = [rec[r] EXCEPT !.pc = "upsert"]
  BY Zenon
<1>5. PICK c1 : c1 = [b EXCEPT !.stamp = s]
  BY Zenon
<1>6. PICK c2 : c2 = [c1 EXCEPT !.time = clock]
  BY Zenon
<1>7. PICK c : c = [c2 EXCEPT !.median = n]
  BY Zenon
<1>8. b = [pc |-> "upsert", f |-> rec[r].f, m |-> rec[r].m, outcome |-> rec[r].outcome,
           median |-> rec[r].median, stamp |-> rec[r].stamp, time |-> rec[r].time,
           over |-> rec[r].over, alone |-> rec[r].alone]
  BY <1>1, <1>4, PcSet, Zenon DEF Steps
<1>9. c1 \in Calls /\ c1.pc = "upsert" /\ c1.alone = rec[r].alone /\ c1.stamp = s
      /\ c1.outcome = rec[r].outcome
  BY <1>1, <1>3, <1>5, <1>8, SMTT(30) DEF Calls, Steps
<1>10. c2 \in Calls /\ c2.pc = "upsert" /\ c2.alone = rec[r].alone /\ c2.stamp = s
       /\ c2.outcome = rec[r].outcome /\ c2.time = clock
  BY <1>1, <1>6, <1>9, Zenon DEF Calls
<1>11. c \in Calls /\ c.pc = "upsert" /\ c.alone = rec[r].alone /\ c.stamp = s
       /\ c.outcome = rec[r].outcome /\ c.time = clock
  BY <1>2, <1>7, <1>10, Zenon DEF Calls
<1>12. rec' = [rec EXCEPT ![r] = c]
  <2> HIDE DEF x
  <2>1. rec' = [rec EXCEPT ![r].pc = "upsert", ![r].stamp = s, ![r].time = clock, ![r].median = n]
    BY <1>2, <1>3, Zenon DEF ReadLatency, x
  <2> QED BY <2>1, <1>4, <1>5, <1>6, <1>7, Zenon DEF StoreInv, StoreTypeOK
<1>13. Follows(c, r)
  BY <1>1, <1>3, <1>11, SMTT(30) DEF Follows
<1> QED BY <1>0, <1>11, <1>12, <1>13, CallMoves, Zenon

LEMMA RecordKeeps ==
    ASSUME StoreInv, NEW r \in Recorders, NEW f \in Fingerprints, NEW m \in Recorded, NEW o \in Outcomes,
           Record(r, f, m, o)
    PROVE  StoreInv'
<1> DEFINE step == IF o.ok THEN "read" ELSE "upsert"
           none == \A q \in Recorders : rec[q].pc = "idle"
           call == [pc |-> step, f |-> f, m |-> m, outcome |-> o, median |-> 0, stamp |-> CoarseNow,
                    time |-> clock, over |-> 0, alone |-> none]
<1>0. /\ Idle(r) /\ records < MaxRecords /\ records' = records + 1 /\ UNCHANGED <<clock, rows, past>>
      /\ rec' = [q \in Recorders |-> IF q = r THEN call ELSE Overlapped(q)]
  BY Zenon DEF Idle, Record
<1>1. /\ clock \in Nat /\ CoarseNow \in Nat /\ CoarseNow <= clock /\ clock < CoarseNow + Hour
      /\ CoarseNow' = CoarseNow /\ Stored' = Stored /\ m \in Methods
  <2>1. clock \in Nat /\ m \in Methods
    BY StoreAssumption, Zenon DEF StoreInv, StoreTypeOK
  <2>2. CoarseNow' = CoarseNow /\ Stored' = Stored
    BY <1>0, Zenon DEF CoarseNow, Stored, Known
  <2> QED BY <2>1, <2>2, CoarseFacts, Zenon DEF CoarseNow, Coarse
<1>2. /\ call \in Calls /\ call.pc = step /\ call.pc # "idle" /\ call.outcome = o /\ call.stamp = CoarseNow
      /\ call.time = clock /\ call.alone = none
  <2>1. step \in Steps /\ step # "idle" /\ none \in BOOLEAN
    BY Zenon DEF Steps
  <2> HIDE DEF step, none
  <2> QED BY <1>1, <2>1 DEF Calls
<1> HIDE DEF call
<1>3. ASSUME NEW q \in Recorders, q # r
      PROVE  /\ rec'[q] \in {IdleRec} \cup Calls /\ (Idle(q)' <=> Idle(q))
             /\ ~Idle(q) => /\ rec'[q].alone = FALSE /\ rec'[q].pc = rec[q].pc
                            /\ rec'[q].stamp = rec[q].stamp /\ rec'[q].time = rec[q].time
                            /\ rec'[q].outcome = rec[q].outcome
  <2>1. rec'[q] = Overlapped(q)
    BY <1>0, <1>3, Zenon
  <2>2. CASE Idle(q)
    BY <2>1, <2>2, SMTT(30) DEF Overlapped, Idle, StoreInv, StoreTypeOK
  <2>3. CASE ~Idle(q)
    <3>1. rec[q] \in Calls
      BY <2>3, CallOf, Zenon DEF StoreInv
    <3>2. rec'[q] = [rec[q] EXCEPT !.alone = FALSE]
      BY <2>1, <2>3 DEF Overlapped, Idle
    <3>3. rec'[q] = [pc |-> rec[q].pc, f |-> rec[q].f, m |-> rec[q].m, outcome |-> rec[q].outcome,
                     median |-> rec[q].median, stamp |-> rec[q].stamp, time |-> rec[q].time,
                     over |-> rec[q].over, alone |-> FALSE]
      BY <3>1, <3>2, AloneSet, Zenon
    <3> QED BY <2>3, <3>1, <3>3, SMTT(30) DEF Calls, Idle
  <2> QED BY <2>2, <2>3, Zenon
<1>4. rec'[r] = call /\ ~Idle(r)'
  BY <1>0, <1>2, Zenon DEF Idle
<1>5. StoreTypeOK'
  <2>1. rec' = [q \in Recorders |-> rec'[q]]
    BY <1>0, Zenon
  <2>2. ASSUME NEW q \in Recorders PROVE rec'[q] \in {IdleRec} \cup Calls
    <3>1. CASE q = r
      BY <1>2, <1>4, <3>1, Zenon
    <3>2. CASE q # r
      BY <1>3, <3>2, Zenon
    <3> QED BY <3>1, <3>2, Zenon
  <2>3. rec' \in [Recorders -> {IdleRec} \cup Calls]
    BY <2>1, <2>2, Zenon
  <2> QED BY <1>0, <2>3, SMTT(30) DEF StoreInv, StoreTypeOK
<1>6. RowsTellHistory'
  BY <1>0, Zenon DEF StoreInv, RowsTellHistory, Tells
<1>7. StampsAreCoarse'
  <2> SUFFICES ASSUME NEW q \in Recorders, ~Idle(q)'
               PROVE  /\ rec'[q].stamp <= rec'[q].time /\ rec'[q].time < rec'[q].stamp + Hour
                      /\ rec'[q].time <= clock /\ rec'[q].stamp <= CoarseNow
                      /\ rec'[q].pc = "read" => rec'[q].outcome.ok
    BY <1>0, <1>1, Zenon DEF StampsAreCoarse
  <2>1. CASE q = r
    BY <1>1, <1>2, <1>4, <2>1, SMTT(30)
  <2>2. CASE q # r
    BY <1>3, <2>2, Zenon DEF StoreInv, StampsAreCoarse
  <2> QED BY <2>1, <2>2, Zenon
<1>8. NoLaterThan(CoarseNow)
  <2>1. records # MaxRecords
    BY <1>0, StoreAssumption, SMTT(30) DEF StoreInv, StoreTypeOK
  <2> QED BY <2>1, Zenon DEF StoreInv, FailuresArePast
<1>9. FailuresArePast'
  BY <1>0, <1>1, <1>8, Zenon DEF FailuresArePast, NoLaterThan
<1>10. AloneIsAlone'
  <2> SUFFICES ASSUME NEW q \in Recorders, ~Idle(q)', rec'[q].alone
               PROVE  /\ \A p \in Recorders \ {q} : Idle(p)'
                      /\ rec'[q].pc = "upsert" /\ ~rec'[q].outcome.ok => NoLaterThan(rec[q].stamp)'
                      /\ rec'[q].pc # "delete"
    BY <1>1 DEF AloneIsAlone
  <2>1. q = r
    BY <1>3, Zenon
  <2>2. none
    BY <1>2, <1>4, <2>1, Zenon
  <2>3. \A p \in Recorders \ {q} : Idle(p)'
    BY <1>3, <2>1, <2>2, Zenon DEF Idle
  <2>4. NoLaterThan(rec[q].stamp)'
    BY <1>0, <1>2, <1>4, <1>8, <2>1, SMTT(30) DEF NoLaterThan
  <2> QED BY <1>2, <1>4, <2>1, <2>3, <2>4, SMTT(30)
<1> QED BY <1>5, <1>6, <1>7, <1>9, <1>10, Zenon DEF StoreInv

\* A statement that writes one row and its history.
LEMMA UpsertKeeps ==
    ASSUME StoreInv, NEW r \in Recorders, ~Idle(r), NEW e \in ScoreEntry, NEW p \in Histories,
           Tells(e, p), e.last_failure_at <= CoarseNow, Goto(r, "count"), UNCHANGED <<clock, records>>,
           rows' = [rows EXCEPT ![rec[r].f][rec[r].m] = e],
           past' = [past EXCEPT ![rec[r].f][rec[r].m] = p]
    PROVE  StoreInv'
<1> DEFINE f == rec[r].f
           m == rec[r].m
<1>0. rec[r] \in Calls /\ f \in Fingerprints /\ m \in Methods
  BY CallOf, Zenon DEF StoreInv
<1>1. /\ rows' \in [Fingerprints -> [Methods -> ScoreEntry]]
      /\ \A g \in Fingerprints, n \in Methods : rows'[g][n] = IF g = f /\ n = m THEN e ELSE rows[g][n]
  BY <1>0, Zenon DEF StoreInv, StoreTypeOK
<1>2. /\ past' \in [Fingerprints -> [Methods -> Histories]]
      /\ \A g \in Fingerprints, n \in Methods : past'[g][n] = IF g = f /\ n = m THEN p ELSE past[g][n]
  BY <1>0, Zenon DEF StoreInv, StoreTypeOK
<1>3. PICK c : c = [rec[r] EXCEPT !.pc = "count"]
  BY Zenon
<1>4. c = [pc |-> "count", f |-> rec[r].f, m |-> rec[r].m, outcome |-> rec[r].outcome,
           median |-> rec[r].median, stamp |-> rec[r].stamp, time |-> rec[r].time,
           over |-> rec[r].over, alone |-> rec[r].alone]
  BY <1>0, <1>3, PcSet, Zenon DEF Steps
<1>5. c \in Calls /\ c.pc = "count" /\ c.alone = rec[r].alone /\ c.stamp = rec[r].stamp /\ c.time = rec[r].time
  BY <1>0, <1>4, Zenon DEF Calls, Steps
<1>6. /\ rec' \in [Recorders -> {IdleRec} \cup Calls] /\ rec'[r] = c
      /\ \A q \in Recorders : q # r => rec'[q] = rec[q]
  BY <1>3, <1>5, SMTT(30) DEF Goto, StoreInv, StoreTypeOK
<1>7. StoreTypeOK'
  BY <1>1, <1>2, <1>6, Zenon DEF StoreInv, StoreTypeOK
<1>8. RowsTellHistory'
  <2> SUFFICES ASSUME NEW g \in Fingerprints, NEW n \in Methods PROVE Tells(rows'[g][n], past'[g][n])
    BY Zenon DEF RowsTellHistory, Tells
  <2>1. CASE g = f /\ n = m
    BY <1>1, <1>2, <2>1, Zenon
  <2>2. CASE ~(g = f /\ n = m)
    BY <1>1, <1>2, <2>2, Zenon DEF StoreInv, RowsTellHistory
  <2> QED BY <2>1, <2>2, Zenon
<1>9. CoarseNow' = CoarseNow
  BY Zenon DEF CoarseNow
<1>10. StampsAreCoarse'
  BY <1>5, <1>6, <1>9, SMTT(30) DEF StoreInv, StampsAreCoarse, Idle
<1>11. FailuresArePast'
  <2>1. NoLaterThan(CoarseNow)
    BY Zenon DEF StoreInv, FailuresArePast
  <2> QED BY <1>1, <1>9, <2>1, SMTT(30) DEF FailuresArePast, NoLaterThan
<1>12. AloneIsAlone'
  <2> SUFFICES ASSUME NEW q \in Recorders, ~Idle(q)', rec'[q].alone
               PROVE  (\A u \in Recorders \ {q} : Idle(u)') /\ rec'[q].pc = "count"
    BY Zenon DEF AloneIsAlone
  <2>1. q = r
    BY <1>6, Zenon DEF StoreInv, AloneIsAlone, Idle
  <2> QED BY <1>5, <1>6, <2>1, SMTT(30) DEF StoreInv, AloneIsAlone, Idle
<1> QED BY <1>7, <1>8, <1>10, <1>11, <1>12, Zenon DEF StoreInv

\* The rows that the statements leave.
LEMMA SucceededRow ==
    ASSUME NEW e \in ScoreEntry, NEW s \in Nat, NEW x \in Nat, NEW n, n = Succeeded(e, s, x)
    PROVE  /\ n \in ScoreEntry /\ n.last_failure_at = e.last_failure_at
           /\ n.consecutive_failures = 0 /\ n.blocked_at = Never
<1>1. s \in Times /\ Never \in Times /\ e.successes + 1 \in Nat
  BY DEF Times, ScoreEntry
<1> QED BY <1>1, Zenon DEF ScoreEntry, Succeeded

LEMMA HardOutcome ==
    ASSUME NEW o \in Outcomes, ~o.ok
    PROVE  o.hard \in BOOLEAN
<1>1. o \notin [ok : {TRUE}, latency : Latencies]
  BY Zenon
<1>2. o \in [ok : {FALSE}, hard : BOOLEAN]
  BY <1>1, Zenon DEF Outcomes
<1> QED BY <1>2, Zenon

LEMMA FailedRow ==
    ASSUME NEW e \in ScoreEntry, NEW s \in Nat, NEW b \in Times, NEW n, n = Failed(e, s, b)
    PROVE  /\ n \in ScoreEntry /\ n.last_failure_at = s /\ n.blocked_at = b
           /\ n.successes = e.successes /\ n.failures = e.failures + 1
           /\ n.last_success_at = e.last_success_at /\ n.median_latency_ms = e.median_latency_ms
           /\ n.consecutive_failures = e.consecutive_failures + 1
<1>1. s \in Times /\ e.failures + 1 \in Nat /\ e.consecutive_failures + 1 \in Nat
  BY DEF Times, ScoreEntry
<1> QED BY <1>1, Zenon DEF ScoreEntry, Failed

LEMMA SuccessKeeps ==
    ASSUME StoreInv, NEW r \in Recorders, UpsertSuccess(r)
    PROVE  StoreInv'
<1>0. /\ ~Idle(r) /\ Goto(r, "count") /\ UNCHANGED <<clock, records>>
      /\ past' = [past EXCEPT ![rec[r].f][rec[r].m] = NoPast]
  BY Zenon DEF UpsertSuccess, Idle
<1>1. rec[r].f \in Fingerprints /\ rec[r].m \in Methods /\ rec[r].stamp \in Nat /\ rec[r].median \in Nat
  BY <1>0, CallOf, Zenon DEF StoreInv
<1>2. PICK row \in ScoreEntry, s \in Nat, x \in Nat :
          row = rows[rec[r].f][rec[r].m] /\ s = rec[r].stamp /\ x = rec[r].median
  BY <1>1, Zenon DEF StoreInv, StoreTypeOK
<1>3. PICK e : e = Succeeded(row, s, x)
  BY Zenon
<1>4. /\ e \in ScoreEntry /\ e.last_failure_at = row.last_failure_at
      /\ e.consecutive_failures = 0 /\ e.blocked_at = Never
  BY <1>3, SucceededRow, SMTT(30)
<1>5. e.last_failure_at <= CoarseNow
  BY <1>0, <1>1, <1>2, <1>4, Zenon DEF StoreInv, FailuresArePast, NoLaterThan
<1>6. NoPast \in Histories /\ Tells(e, NoPast)
  BY <1>4, ScoringAssumption, SMTT(30) DEF NoPast, Histories, Tells, Times, Never
<1>7. rows' = [rows EXCEPT ![rec[r].f][rec[r].m] = e]
  BY <1>2, <1>3, Zenon DEF UpsertSuccess
<1> QED BY <1>0, <1>4, <1>5, <1>6, <1>7, UpsertKeeps, Zenon

LEMMA FailureKeeps ==
    ASSUME StoreInv, NEW r \in Recorders, UpsertFailure(r)
    PROVE  StoreInv'
<1>0. ~Idle(r) /\ Goto(r, "count") /\ UNCHANGED <<clock, records>> /\ ~rec[r].outcome.ok
  BY Zenon DEF UpsertFailure, Idle
<1>1. /\ rec[r].f \in Fingerprints /\ rec[r].m \in Methods
      /\ rec[r].stamp \in Nat /\ rec[r].time \in Nat /\ rec[r].outcome \in Outcomes
  BY <1>0, CallOf, Zenon DEF StoreInv
<1>2. PICK row \in ScoreEntry, s \in Nat, u \in Nat, hist \in Histories :
          /\ row = rows[rec[r].f][rec[r].m] /\ s = rec[r].stamp /\ u = rec[r].time
          /\ hist = past[rec[r].f][rec[r].m]
  BY <1>1, Zenon DEF StoreInv, StoreTypeOK
<1>3. Tells(row, hist) /\ s <= u /\ u < s + Hour /\ s <= CoarseNow
  BY <1>0, <1>1, <1>2, Zenon DEF StoreInv, RowsTellHistory, StampsAreCoarse
<1>4. PICK a \in Times, b \in Times :
          /\ a = IF rec[r].outcome.hard THEN s ELSE row.blocked_at
          /\ b = IF rec[r].outcome.hard THEN u ELSE hist.hardAt
          /\ (a = s /\ b = u) \/ (a = row.blocked_at /\ b = hist.hardAt)
  <2>1. s \in Times /\ u \in Times /\ row.blocked_at \in Times /\ hist.hardAt \in Times
    BY <1>2, Zenon DEF ScoreEntry, Histories, Times
  <2>2. rec[r].outcome.hard \in BOOLEAN
    BY <1>0, <1>1, HardOutcome, Zenon
  <2>3. CASE rec[r].outcome.hard
    BY <2>1, <2>3, Zenon
  <2>4. CASE ~rec[r].outcome.hard
    BY <2>1, <2>4, Zenon
  <2> QED BY <2>3, <2>4, Zenon
<1>5. PICK e : e = Failed(row, s, a)
  BY Zenon
<1>6. PICK p : p = [failures |-> hist.failures + 1, hardAt |-> b]
  BY Zenon
<1>7. /\ e \in ScoreEntry /\ e.last_failure_at = s /\ e.consecutive_failures = row.consecutive_failures + 1
      /\ e.blocked_at = a
  <2>1. row \in ScoreEntry /\ s \in Nat /\ a \in Times
    BY <1>2, <1>4, Zenon
  <2> QED BY <1>5, <2>1, FailedRow, SMTT(30)
<1>8. p \in Histories /\ p.failures = hist.failures + 1 /\ p.hardAt = b
  <2>1. b \in Times
    BY <1>4, Zenon
  <2>2. hist.failures + 1 \in Nat
    BY <1>2 DEF Histories
  <2> QED BY <1>6, <2>1, <2>2, Zenon DEF Histories
<1>9. (a = s /\ b = u /\ s # Never /\ u # Never) \/ (a = row.blocked_at /\ b = hist.hardAt)
  <2>1. s # Never /\ u # Never
    BY <1>2, SMTT(30) DEF Never
  <2> QED BY <1>4, <2>1, Zenon
<1>10. Tells(e, p)
  BY <1>3, <1>7, <1>8, <1>9, Zenon DEF Tells
<1>11. rows' = [rows EXCEPT ![rec[r].f][rec[r].m] = e]
  BY <1>2, <1>4, <1>5, Zenon DEF UpsertFailure
<1>12. past' = [past EXCEPT ![rec[r].f][rec[r].m] = p]
  BY <1>2, <1>4, <1>6, Zenon DEF UpsertFailure
<1>13. e.last_failure_at <= CoarseNow
  BY <1>3, <1>7, SMTT(30)
<1> QED BY <1>0, <1>7, <1>8, <1>10, <1>11, <1>12, <1>13, UpsertKeeps, Zenon

\* A row that is deleted.
LEMMA NoRow ==
    /\ NoEntry \in ScoreEntry /\ NoPast \in Histories /\ Tells(NoEntry, NoPast)
    /\ NoEntry.last_failure_at = Never
<1>1. Never \in Times
  BY Zenon DEF Times
<1>2. NoEntry \in ScoreEntry /\ NoPast \in Histories
  BY <1>1, Zenon DEF ScoreEntry, NoEntry, NoPast, Histories
<1> QED BY <1>2, ScoringAssumption DEF Tells, NoEntry, NoPast, Never

\* Rows only go away, and no other call is under way that runs alone.
LEMMA DeletedKeeps ==
    ASSUME StoreInv, UNCHANGED <<clock, records>>,
           rec' \in [Recorders -> {IdleRec} \cup Calls],
           \A q \in Recorders : Idle(q)' \/ (rec'[q] = rec[q] /\ ~rec[q].alone),
           rows' \in [Fingerprints -> [Methods -> ScoreEntry]],
           past' \in [Fingerprints -> [Methods -> Histories]],
           \A g \in Fingerprints, n \in Methods :
               \/ rows'[g][n] = NoEntry /\ past'[g][n] = NoPast
               \/ rows'[g][n] = rows[g][n] /\ past'[g][n] = past[g][n]
    PROVE  StoreInv'
<1>1. StoreTypeOK'
  BY Zenon DEF StoreInv, StoreTypeOK
<1>2. RowsTellHistory'
  <2> SUFFICES ASSUME NEW g \in Fingerprints, NEW n \in Methods PROVE Tells(rows'[g][n], past'[g][n])
    BY Zenon DEF RowsTellHistory, Tells
  <2> QED BY NoRow, Zenon DEF StoreInv, RowsTellHistory
<1>3. CoarseNow' = CoarseNow /\ CoarseNow \in Nat
  BY CoarseFacts, Zenon DEF CoarseNow, Coarse, StoreInv, StoreTypeOK
<1>4. StampsAreCoarse'
  BY <1>3, SMTT(30) DEF StoreInv, StampsAreCoarse, Idle
<1>5. FailuresArePast'
  <2>1. CASE records = MaxRecords /\ \A q \in Recorders : Idle(q)
    BY <2>1, Zenon DEF FailuresArePast, Idle
  <2>2. CASE NoLaterThan(CoarseNow)
    <3>1. Never <= CoarseNow
      BY <1>3 DEF Never
    <3> QED BY <1>3, <2>2, <3>1, NoRow, SMTT(30) DEF FailuresArePast, NoLaterThan
  <2> QED BY <2>1, <2>2, Zenon DEF StoreInv, FailuresArePast
<1>6. AloneIsAlone'
  BY Zenon DEF AloneIsAlone
<1> QED BY <1>1, <1>2, <1>4, <1>5, <1>6, Zenon DEF StoreInv

LEMMA DeleteKeeps ==
    ASSUME StoreInv, NEW r \in Recorders, DeleteOldest(r)
    PROVE  StoreInv'
<1> DEFINE none == [m \in Methods |-> NoEntry]
           clean == [m \in Methods |-> NoPast]
<1>1. PICK D \in Prunable(rec[r].over) :
          /\ rows' = [f \in Fingerprints |-> IF f \in D THEN none ELSE rows[f]]
          /\ past' = [f \in Fingerprints |-> IF f \in D THEN clean ELSE past[f]]
  BY Zenon DEF DeleteOldest
<1>2. /\ rec[r].pc = "delete" /\ UNCHANGED <<clock, records>> /\ rec' = [rec EXCEPT ![r] = IdleRec]
  BY Zenon DEF DeleteOldest
<1>3. /\ none \in [Methods -> ScoreEntry] /\ clean \in [Methods -> Histories]
      /\ \A m \in Methods : none[m] = NoEntry /\ clean[m] = NoPast
  BY NoRow, Zenon
<1> HIDE DEF none, clean
<1>4. /\ rows' \in [Fingerprints -> [Methods -> ScoreEntry]] /\ past' \in [Fingerprints -> [Methods -> Histories]]
  BY <1>1, <1>3, Zenon DEF StoreInv, StoreTypeOK
<1>5. \A g \in Fingerprints, n \in Methods :
          \/ rows'[g][n] = NoEntry /\ past'[g][n] = NoPast
          \/ rows'[g][n] = rows[g][n] /\ past'[g][n] = past[g][n]
  BY <1>1, <1>3, SMTT(30)
<1>6. rec' \in [Recorders -> {IdleRec} \cup Calls]
  BY <1>2, Zenon DEF StoreInv, StoreTypeOK
<1>7. \A q \in Recorders : Idle(q)' \/ (rec'[q] = rec[q] /\ ~rec[q].alone)
  <2>1. Idle(r)' /\ \A q \in Recorders : q # r => rec'[q] = rec[q]
    BY <1>2, Zenon DEF Idle, IdleRec, StoreInv, StoreTypeOK
  <2> QED BY <1>2, <2>1, SMTT(30) DEF StoreInv, AloneIsAlone, Idle
<1> QED BY <1>2, <1>4, <1>5, <1>6, <1>7, DeletedKeeps, SMTT(30)

LEMMA ReopenKeeps ==
    ASSUME StoreInv, Reopen
    PROVE  StoreInv'
<1>1. UNCHANGED <<clock, records>> /\ rec' = [r \in Recorders |-> IdleRec]
  BY DEF Reopen
<1>2. /\ rec' \in [Recorders -> {IdleRec} \cup Calls]
      /\ \A q \in Recorders : Idle(q)' \/ (rec'[q] = rec[q] /\ ~rec[q].alone)
  BY <1>1, SMTT(30) DEF Idle, IdleRec
<1>3. CASE UNCHANGED <<rows, past>>
  BY <1>1, <1>2, <1>3, DeletedKeeps, Zenon DEF StoreInv, StoreTypeOK
<1>4. CASE /\ rows' = EmptyTable
           /\ past' = [f \in Fingerprints |-> [m \in Methods |-> NoPast]]
  <2>1. /\ rows' \in [Fingerprints -> [Methods -> ScoreEntry]] /\ past' \in [Fingerprints -> [Methods -> Histories]]
        /\ \A g \in Fingerprints, n \in Methods : rows'[g][n] = NoEntry /\ past'[g][n] = NoPast
    BY <1>4, NoRow, SMTT(30) DEF EmptyTable
  <2> QED BY <1>1, <1>2, <2>1, DeletedKeeps, Zenon
<1> QED BY <1>3, <1>4, Zenon DEF Reopen

LEMMA TickKeeps ==
    ASSUME StoreInv, Tick
    PROVE  StoreInv'
<1>0. clock' = clock + 1 /\ UNCHANGED <<rows, rec, records, past>>
  BY DEF Tick
<1>1. CoarseNow \in Nat /\ CoarseNow' \in Nat /\ CoarseNow <= CoarseNow' /\ clock \in Nat
  <2>1. clock \in Nat
    BY Zenon DEF StoreInv, StoreTypeOK
  <2>2. Coarse(clock) \in Nat /\ Coarse(clock + 1) \in Nat /\ Coarse(clock) <= Coarse(clock + 1)
    BY <2>1, CoarseFacts, SMTT(30)
  <2>3. CoarseNow = Coarse(clock) /\ CoarseNow' = Coarse(clock + 1)
    BY <1>0, Zenon DEF CoarseNow, Coarse
  <2> QED BY <2>1, <2>2, <2>3, Zenon
<1>2. StoreTypeOK'
  BY <1>0, <1>1, SMTT(30) DEF StoreInv, StoreTypeOK
<1>3. RowsTellHistory'
  BY <1>0, SMTT(30) DEF StoreInv, RowsTellHistory, Tells
<1>4. StampsAreCoarse'
  <2> SUFFICES ASSUME NEW r \in Recorders, ~Idle(r)
               PROVE  /\ rec[r].stamp <= rec[r].time /\ rec[r].time < rec[r].stamp + Hour
                      /\ rec[r].time <= clock + 1 /\ rec[r].stamp <= CoarseNow'
                      /\ rec[r].pc = "read" => rec[r].outcome.ok
    BY <1>0, Zenon DEF StampsAreCoarse, Idle
  <2>1. rec[r].stamp \in Nat /\ rec[r].time \in Nat
    BY CallOf, Zenon DEF StoreInv
  <2>2. /\ rec[r].stamp <= rec[r].time /\ rec[r].time < rec[r].stamp + Hour
        /\ rec[r].time <= clock /\ rec[r].stamp <= CoarseNow
        /\ rec[r].pc = "read" => rec[r].outcome.ok
    BY Zenon DEF StoreInv, StampsAreCoarse
  <2> QED BY <1>1, <2>1, <2>2, SMTT(30)
<1>5. FailuresArePast'
  <2>1. CASE NoLaterThan(CoarseNow)
    <3>1. \A f \in Fingerprints, m \in Methods : rows[f][m].last_failure_at \in Int
      BY DEF StoreInv, StoreTypeOK, ScoreEntry, Times, Never
    <3>2. \A f \in Fingerprints, m \in Methods : rows[f][m].last_failure_at <= CoarseNow'
      BY <1>1, <2>1, <3>1, SMTT(30) DEF NoLaterThan
    <3> QED BY <1>0, <3>2, Zenon DEF FailuresArePast, NoLaterThan
  <2>2. CASE records = MaxRecords /\ \A r \in Recorders : Idle(r)
    BY <1>0, <2>2, Zenon DEF FailuresArePast, Idle
  <2> QED BY <2>1, <2>2, Zenon DEF StoreInv, FailuresArePast
<1>6. AloneIsAlone'
  <2>1. Stored' = Stored
    BY <1>0, Zenon DEF Stored, Known
  <2> QED BY <1>0, <2>1, Zenon DEF StoreInv, AloneIsAlone, NoLaterThan, Idle
<1> QED BY <1>2, <1>3, <1>4, <1>5, <1>6, Zenon DEF StoreInv

LEMMA StoreInitOK == StoreInit => StoreInv
<1> SUFFICES ASSUME StoreInit PROVE StoreInv
  BY Zenon
<1>1. clock = 0 /\ \A r \in Recorders : rec[r] = IdleRec /\ Idle(r)
  BY Zenon DEF StoreInit, Idle, IdleRec
<1>2. /\ rows \in [Fingerprints -> [Methods -> ScoreEntry]] /\ records \in Nat
      /\ records = MaxRecords \/ NoLaterThan(Never)
  <2>1. EmptyTable \in [Fingerprints -> [Methods -> ScoreEntry]]
    BY NoRow, Zenon DEF EmptyTable
  <2>2. CASE rows = EmptyTable /\ records = 0
    <3>1. \A f \in Fingerprints, m \in Methods : rows[f][m] = NoEntry
      BY <2>2, Zenon DEF EmptyTable
    <3>2. NoLaterThan(Never)
      BY <3>1, NoRow, SMTT(30) DEF NoLaterThan, Never
    <3> QED BY <2>1, <2>2, <3>2, Zenon
  <2>3. CASE /\ \E f \in Fingerprints, u \in [Methods -> Entries] : rows = [EmptyTable EXCEPT ![f] = u]
             /\ records = MaxRecords
    <3>1. PICK f \in Fingerprints, u \in [Methods -> Entries] : rows = [EmptyTable EXCEPT ![f] = u]
      BY <2>3, Zenon
    <3>2. u \in [Methods -> ScoreEntry] /\ MaxRecords \in Nat
      BY StoreAssumption, Zenon
    <3> HIDE DEF EmptyTable
    <3> QED BY <2>1, <2>3, <3>1, <3>2, Zenon
  <2> QED BY <2>2, <2>3, Zenon DEF StoreInit
<1>3. past = [f \in Fingerprints |-> [m \in Methods |->
                 [failures |-> rows[f][m].consecutive_failures, hardAt |-> rows[f][m].blocked_at]]]
  BY Zenon DEF StoreInit
<1>4. ASSUME NEW f \in Fingerprints, NEW m \in Methods
      PROVE  past[f][m] \in Histories /\ Tells(rows[f][m], past[f][m])
  <2>1. PICK e \in ScoreEntry : e = rows[f][m]
    BY <1>2, Zenon
  <2>2. PICK p : p = [failures |-> e.consecutive_failures, hardAt |-> e.blocked_at]
    BY Zenon
  <2>3. p \in Histories /\ p.failures = e.consecutive_failures /\ p.hardAt = e.blocked_at
    BY <2>1, <2>2, Zenon DEF ScoreEntry, Histories
  <2>4. Tells(e, p)
    BY <2>1, <2>3, ScoringAssumption, SMTT(30) DEF Tells, ScoreEntry, Times, Never
  <2>5. past[f][m] = p
    BY <1>3, <2>1, <2>2, Zenon
  <2> QED BY <2>1, <2>3, <2>4, <2>5, Zenon
<1>5. past \in [Fingerprints -> [Methods -> Histories]]
  <2>1. past = [f \in Fingerprints |-> [m \in Methods |-> past[f][m]]]
    BY <1>3, SMTT(30)
  <2> QED BY <1>4, <2>1, Zenon
<1>6. StoreTypeOK
  BY <1>1, <1>2, <1>5, SMTT(30) DEF StoreTypeOK, StoreInit
<1>7. RowsTellHistory
  BY <1>4, Zenon DEF RowsTellHistory
<1>8. StampsAreCoarse /\ AloneIsAlone
  BY <1>1, Zenon DEF StampsAreCoarse, AloneIsAlone
<1>9. FailuresArePast
  <2>1. CASE NoLaterThan(Never)
    <3>1. CoarseNow \in Nat
      BY <1>1, CoarseFacts, Zenon DEF CoarseNow, Coarse
    <3> QED BY <1>2, <2>1, <3>1, SMTT(30) DEF FailuresArePast, NoLaterThan, ScoreEntry, Times, Never
  <2>2. CASE records = MaxRecords
    BY <1>1, <2>2, Zenon DEF FailuresArePast
  <2> QED BY <1>2, <2>1, <2>2, Zenon
<1> QED BY <1>6, <1>7, <1>8, <1>9, Zenon DEF StoreInv

\* Every statement, failure, restart and tick keeps the invariant.
LEMMA StoreStep ==
    ASSUME StoreInv, [StoreNext]_storeVars
    PROVE  StoreInv'
<1>1. ASSUME NEW r \in Recorders, RecordStep(r) PROVE StoreInv'
  BY <1>1, RecordKeeps, ReadKeeps, SuccessKeeps, FailureKeeps, CountKeeps, DeleteKeeps, FailsKeeps, Zenon
     DEF RecordStep
<1>2. CASE UNCHANGED storeVars
  <2>1. UNCHANGED <<clock, rows, rec, records, past>>
    BY <1>2, Zenon DEF storeVars
  <2>2. StoreTypeOK' /\ RowsTellHistory'
    BY <2>1, Zenon DEF StoreInv, StoreTypeOK, RowsTellHistory, Tells
  <2>3. CoarseNow' = CoarseNow /\ Stored' = Stored
    BY <2>1, Zenon DEF CoarseNow, Stored, Known
  <2>4. StampsAreCoarse' /\ FailuresArePast'
    BY <2>1, <2>3, Zenon DEF StoreInv, StampsAreCoarse, FailuresArePast, NoLaterThan, Idle
  <2>5. AloneIsAlone'
    BY <2>1, <2>3, Zenon DEF StoreInv, AloneIsAlone, NoLaterThan, Idle
  <2> QED BY <2>2, <2>4, <2>5, Zenon DEF StoreInv
<1> QED BY <1>1, <1>2, ReopenKeeps, TickKeeps, Zenon DEF StoreNext

\* The inductive invariant holds whatever overlaps, fails or restarts.
THEOREM StoreInvariant == StoreSpec => []StoreInv
<1>1. StoreInit => StoreInv
  BY StoreInitOK
<1>2. StoreInv /\ [StoreNext]_storeVars => StoreInv'
  BY StoreStep, Zenon
<1> QED BY <1>1, <1>2, PTL DEF StoreSpec

-----------------------------------------------------------------------------
(* Blocks.                                                                 *)

\* get_all_for_fingerprint changes nothing of a row but the count, which it clamps.
Clamped(row) == [row EXCEPT !.consecutive_failures = AsU8(@)]

LEMMA ClampedIs ==
    ASSUME NEW row \in ScoreEntry
    PROVE  \E e \in ScoreEntry :
              /\ e = Clamped(row) /\ e.successes = row.successes /\ e.failures = row.failures
              /\ e.last_success_at = row.last_success_at /\ e.last_failure_at = row.last_failure_at
              /\ e.median_latency_ms = row.median_latency_ms /\ e.blocked_at = row.blocked_at
              /\ e.consecutive_failures = AsU8(row.consecutive_failures)
<1>1. PICK n \in Nat : n = AsU8(row.consecutive_failures)
  BY StoreAssumption, Zenon DEF AsU8, ScoreEntry
<1>2. PICK e : e = [row EXCEPT !.consecutive_failures = n]
  BY Zenon
<1>3. e = Clamped(row)
  BY <1>1, <1>2, Zenon DEF Clamped
<1>4. /\ e \in ScoreEntry /\ e.successes = row.successes /\ e.failures = row.failures
      /\ e.last_success_at = row.last_success_at /\ e.last_failure_at = row.last_failure_at
      /\ e.median_latency_ms = row.median_latency_ms /\ e.blocked_at = row.blocked_at
      /\ e.consecutive_failures = n
  BY <1>1, <1>2, SMTT(30) DEF ScoreEntry
<1> QED BY <1>1, <1>3, <1>4, Zenon

LEMMA LookupIs ==
    ASSUME StoreTypeOK, NEW f \in Fingerprints, NEW m \in Methods
    PROVE  rows[f][m] \in ScoreEntry /\ Lookup(f)[m] = Clamped(rows[f][m])
<1>1. rows[f][m] \in ScoreEntry
  BY Zenon DEF StoreTypeOK
<1>2. Lookup(f)[m] = Clamped(rows[f][m])
  BY Zenon DEF Lookup, Clamped
<1> QED BY <1>1, <1>2, Zenon

\* A method is blocked exactly when its failures since the last success earned it: record,
\* the clamp of get_all_for_fingerprint and blocked_for agree, and the rounding of
\* coarse_now ends a block at most an hour early.
THEOREM BlockFollowsHistoryHolds == StoreSpec => []BlockFollowsHistory
<1>1. ASSUME StoreInv PROVE BlockFollowsHistory
  <2> SUFFICES ASSUME NEW f \in Fingerprints, NEW m \in Methods
               PROVE  LET p == past[f][m]
                          blocked == BlockedFor(Lookup(f)[m], clock)
                      IN  /\ blocked => /\ p.failures >= BlockAfter
                                        /\ p.hardAt # Never /\ clock - p.hardAt <= BlockTtl
                          /\ /\ p.failures >= BlockAfter
                             /\ p.hardAt # Never /\ clock >= p.hardAt
                             /\ clock - p.hardAt <= BlockTtl - Hour
                             => blocked
    BY DEF BlockFollowsHistory
  <2>1. PICK e \in ScoreEntry, row \in ScoreEntry :
            /\ Lookup(f)[m] = e /\ rows[f][m] = row /\ e.blocked_at = row.blocked_at
            /\ e.consecutive_failures = AsU8(row.consecutive_failures)
    <3>1. rows[f][m] \in ScoreEntry /\ Lookup(f)[m] = Clamped(rows[f][m])
      BY <1>1, LookupIs, Zenon DEF StoreInv
    <3>2. PICK row \in ScoreEntry : row = rows[f][m]
      BY <3>1
    <3>3. PICK e \in ScoreEntry :
              /\ e = Clamped(row) /\ e.blocked_at = row.blocked_at
              /\ e.consecutive_failures = AsU8(row.consecutive_failures)
      BY <3>2, ClampedIs, Zenon
    <3> QED BY <3>1, <3>2, <3>3, Zenon
  <2>2. PICK p \in Histories : p = past[f][m]
    BY <1>1, Zenon DEF StoreInv, StoreTypeOK
  <2>3. Tells(row, p) /\ clock \in Nat
    BY <1>1, <2>1, <2>2, SMTT(30) DEF StoreInv, StoreTypeOK, RowsTellHistory
  <2>4. e.consecutive_failures >= BlockAfter <=> p.failures >= BlockAfter
    BY <2>1, <2>3, StoreAssumption, ScoringAssumption, SMTT(30) DEF AsU8, Tells, ScoreEntry
  <2>5. /\ e.blocked_at = Never <=> p.hardAt = Never
        /\ e.blocked_at <= p.hardAt /\ p.hardAt < e.blocked_at + Hour
    BY <2>1, <2>3, Zenon DEF Tells
  <2>6. e.blocked_at \in Int /\ p.hardAt \in Int /\ Hour \in Int /\ BlockTtl \in Int
    BY <2>1, <2>2, ScoringAssumption, SMTT(30) DEF ScoreEntry, Histories, Times, Never
  <2>7. BlockedFor(e, clock) => /\ p.failures >= BlockAfter
                                /\ p.hardAt # Never /\ clock - p.hardAt <= BlockTtl
    BY <2>3, <2>4, <2>5, <2>6, SMTT(30) DEF BlockedFor
  <2>8. /\ p.failures >= BlockAfter /\ p.hardAt # Never /\ clock >= p.hardAt
        /\ clock - p.hardAt <= BlockTtl - Hour
        => BlockedFor(e, clock)
    BY <2>3, <2>4, <2>5, <2>6, SMTT(30) DEF BlockedFor
  <2> QED BY <2>1, <2>2, <2>7, <2>8, Zenon
<1> QED BY <1>1, StoreInvariant, PTL

-----------------------------------------------------------------------------
(* Pruning.                                                                *)

\* A record() that ran alone to its end leaves at most max_fingerprints networks: what the
\* DELETE of prune removes is still what its COUNT found too many.
THEOREM PruneCatchesUpHolds == StoreSpec => PruneCatchesUp
<1>1. ASSUME StoreInv, NEW r \in Recorders, ~Idle(r), rec[r].alone, Count(r)
      PROVE  rec'[r].pc = "delete" \/ Cardinality(Stored') <= MaxFingerprints
  <2>1. CASE Cardinality(Stored) <= MaxFingerprints
    <3>1. Stored' = Stored
      BY <1>1, Zenon DEF Count, Stored, Known
    <3> QED BY <2>1, <3>1, Zenon
  <2>2. CASE ~(Cardinality(Stored) <= MaxFingerprints)
    <3>1. rec' = [rec EXCEPT ![r].pc = "delete", ![r].over = Cardinality(Stored) - MaxFingerprints]
      BY <1>1, <2>2, Zenon DEF Count
    <3> QED BY <1>1, <3>1, ToDelete, Zenon DEF StoreInv
  <2> QED BY <2>1, <2>2, Zenon
<1>2. ASSUME StoreInv, NEW r \in Recorders, ~Idle(r), rec[r].alone, DeleteOldest(r)
      PROVE  Cardinality(Stored') <= MaxFingerprints
  <2>1. rec[r].pc = "delete" /\ rec[r].over = Cardinality(Stored) - MaxFingerprints
    BY <1>2, Zenon DEF DeleteOldest, StoreInv, AloneIsAlone
  <2>2. PICK D \in Prunable(rec[r].over) :
            rows' = [f \in Fingerprints |-> IF f \in D THEN [m \in Methods |-> NoEntry] ELSE rows[f]]
    BY <1>2, Zenon DEF DeleteOldest
  <2>3. /\ D \subseteq Stored
        /\ Cardinality(D) = (IF rec[r].over < Cardinality(Stored) THEN rec[r].over ELSE Cardinality(Stored))
    BY <2>2, Zenon DEF Prunable
  <2>4. IsFiniteSet(Stored) /\ Cardinality(Stored) \in Nat
    BY StoreAssumption, FS_Subset, FS_CardinalityType, Zenon DEF Stored
  <2>5. Stored' \subseteq Stored \ D
    <3> SUFFICES ASSUME NEW f \in Fingerprints, NEW m \in Methods, rows'[f][m] # NoEntry
                 PROVE  f \in Stored \ D
      BY Zenon DEF Stored, Known
    <3>1. f \notin D
      BY <2>2, Zenon
    <3>2. rows'[f] = rows[f]
      BY <2>2, <3>1
    <3> QED BY <3>1, <3>2, SMTT(30) DEF Stored, Known
  <2>6. IsFiniteSet(Stored \ D) /\ Cardinality(Stored \ D) = Cardinality(Stored) - Cardinality(Stored \cap D)
    BY <2>4, FS_Difference, Zenon
  <2>7. Stored \cap D = D
    BY <2>3, Zenon
  <2>8. Cardinality(Stored') <= Cardinality(Stored \ D) /\ Cardinality(Stored') \in Nat
    BY <2>5, <2>6, FS_Subset, FS_CardinalityType, SMTT(30)
  <2>9. MaxFingerprints \in Nat
    BY StoreAssumption, Zenon
  <2>10. PICK s, x, d, o : /\ s = Cardinality(Stored) /\ x = Cardinality(Stored')
                           /\ d = Cardinality(D) /\ o = rec[r].over
    BY Zenon
  <2>11. s \in Nat /\ x \in Nat /\ o = s - MaxFingerprints /\ d = (IF o < s THEN o ELSE s)
    BY <2>1, <2>3, <2>4, <2>8, <2>10, Zenon
  <2>12. x <= s - d
    BY <2>6, <2>7, <2>8, <2>10, Zenon
  <2>13. x <= MaxFingerprints
    BY <2>9, <2>11, <2>12, SMTT(30)
  <2> QED BY <2>10, <2>13, Zenon
<1>3. ASSUME StoreInv, [StoreNext]_storeVars, NEW r \in Recorders,
             rec[r].pc # "idle" /\ rec[r].alone /\ (Count(r) \/ DeleteOldest(r))
      PROVE  rec'[r].pc = "delete" \/ Cardinality(Stored') <= MaxFingerprints
  BY <1>1, <1>2, <1>3, Zenon DEF Idle
<1>4. StoreInv /\ [StoreNext]_storeVars =>
      [\A r \in Recorders :
          rec[r].pc # "idle" /\ rec[r].alone /\ (Count(r) \/ DeleteOldest(r))
          => rec'[r].pc = "delete" \/ Cardinality(Stored') <= MaxFingerprints]_storeVars
  BY <1>3, Zenon
<1> QED BY <1>4, StoreInvariant, PTL DEF StoreSpec, PruneCatchesUp

-----------------------------------------------------------------------------
(* A failure never helps.                                                  *)

\* Products of integers keep an order.
LEMMA TimesKeepsOrder ==
    ASSUME NEW a \in Int, NEW b \in Int, NEW c \in Nat, a <= b
    PROVE  a * c <= b * c /\ c * a <= c * b
OBVIOUS

LEMMA TimesBothKeepOrder ==
    ASSUME NEW a \in Nat, NEW b \in Nat, NEW c \in Nat, NEW d \in Nat, a <= b, c <= d
    PROVE  a * c <= b * d /\ a * c \in Nat /\ b * d \in Nat
<1>1. a * c <= b * c /\ b * c <= b * d
  BY TimesKeepsOrder
<1>2. a * c \in Nat /\ b * c \in Nat /\ b * d \in Nat
  OBVIOUS
<1> QED BY <1>1, <1>2

\* The successes (A) shared among one try more, at a penalty that is no smaller.
LEMMA OneTryMore ==
    ASSUME NEW A \in Nat, NEW T \in Nat, NEW q \in Nat, NEW K \in Int, NEW J \in Int, K <= J
    PROVE  (A - (T + 1) * J) * (q * T) <= (A - T * K) * (q * (T + 1))
<1>1. PICK M \in Nat : M = T * (T + 1)
  OBVIOUS
<1>2. M * K <= M * J
  BY TimesKeepsOrder, Zenon
<1>3. (A - (T + 1) * J) * T = A * T - M * J
  BY <1>1
<1>4. (A - T * K) * (T + 1) = A * T + A - M * K
  BY <1>1
<1>5. PICK x \in Int : x = (A - (T + 1) * J) * T
  OBVIOUS
<1>6. PICK y \in Int : y = (A - T * K) * (T + 1)
  OBVIOUS
<1>7. x <= y
  BY <1>2, <1>3, <1>4, <1>5, <1>6, SMTT(30)
<1>8. x * q <= y * q
  BY <1>7, TimesKeepsOrder, Zenon
<1>9. (A - (T + 1) * J) * (q * T) = x * q
  BY <1>5
<1>10. (A - T * K) * (q * (T + 1)) = y * q
  BY <1>6, SMTT(30)
<1> QED BY <1>8, <1>9, <1>10, SMTT(30)

LEMMA DecayFacts ==
    ASSUME NEW a \in Nat, NEW b \in Nat, a <= b
    PROVE  Decay(a) \in Nat /\ Decay(b) \in Nat /\ Decay(b) <= Decay(a)
BY ScoringAssumption, SMTT(30) DEF Decay

\* What the score of an entry is made of.
LEMMA ScoreParts ==
    ASSUME NEW e \in ScoreEntry, NEW now \in Nat
    PROVE  /\ RecentFailurePenalty(e, now) \in Nat /\ LatencyPenalty(e) \in Nat
           /\ RecencyBonus(e, now) \in 0..5 /\ Hour - FiveMinutes \in Nat \ {0}
           /\ e.successes \in Nat /\ e.failures \in Nat /\ e.consecutive_failures \in Nat
           /\ e.last_failure_at \in Times
<1>1. e.consecutive_failures \in Nat /\ e.last_failure_at \in Times /\ e.last_success_at \in Times
      /\ e.median_latency_ms \in Nat /\ e.successes \in Nat /\ e.failures \in Nat
  BY Zenon DEF ScoreEntry
<1>2. Hour - FiveMinutes \in Nat \ {0}
  BY ScoringAssumption, SMTT(30)
<1>3. ASSUME NEW x \in Int PROVE Decay(x) \in Nat
  BY ScoringAssumption DEF Decay
<1>4. RecentFailurePenalty(e, now) \in Nat
  <2>1. CASE e.last_failure_at = Never
    BY <2>1, Zenon DEF RecentFailurePenalty
  <2>2. CASE e.last_failure_at # Never
    <3>1. now - e.last_failure_at \in Int
      BY <1>1, <2>2, SMTT(30) DEF Times
    <3>2. PICK d \in Nat : d = Decay(now - e.last_failure_at)
      BY <1>3, <3>1, SMTT(30)
    <3>3. 20 * e.consecutive_failures * d \in Nat
      BY <1>1, SMTT(30)
    <3> QED BY <2>2, <3>2, <3>3, Zenon DEF RecentFailurePenalty
  <2> QED BY <2>1, <2>2, Zenon
<1>5. LatencyPenalty(e) \in Nat
  BY <1>1, SMTT(30) DEF LatencyPenalty
<1>6. RecencyBonus(e, now) \in 0..5
  BY DEF RecencyBonus
<1> QED BY <1>1, <1>2, <1>4, <1>5, <1>6, Zenon

\* The parts of Weigh.
Share(S, w) == 10000 * S * w
Scale(w) == 100 * w
Penalty(w, R, L, B) == 100 * R + w * L - 100 * w * B

Weighs(s, S, T, w, R, L, B) ==
    /\ s.num \in Int /\ s.den \in Nat \ {0}
    /\ s.num = Share(S, w) - T * Penalty(w, R, L, B) /\ s.den = Scale(w) * T

\* A score is a fraction with a positive denominator.
LEMMA WeighIs ==
    ASSUME NEW S \in Nat, NEW T \in Nat \ {0}, NEW w \in Nat \ {0}, NEW R \in Nat, NEW L \in Nat,
           NEW B \in 0..5
    PROVE  Weighs(Weigh(S, T, w, R, L, B), S, T, w, R, L, B)
<1>0. PICK s : s = Weigh(S, T, w, R, L, B)
  BY Zenon
<1>1. PICK x \in Int : x = w * T
  OBVIOUS
<1>2. x # 0 /\ x \in Nat
  BY <1>1, SMTT(30)
<1>3. s.den = 100 * x
  BY <1>0, <1>1 DEF Weigh
<1>4. 100 * w * T = 100 * x
  BY <1>1
<1>5. PICK K \in Int : K = 100 * R + w * L - 100 * w * B
  OBVIOUS
<1>6. 10000 * S * w - 100 * T * R - T * w * L + 100 * T * w * B = 10000 * S * w - T * K
  <2>1. T * K = T * (100 * R) + T * (w * L) - T * (100 * w * B)
    BY <1>5
  <2> QED BY <2>1
<1>7. s.num = 10000 * S * w - T * K
  BY <1>0, <1>6 DEF Weigh
<1>8. s.num \in Int /\ s.den \in Nat \ {0}
  BY <1>2, <1>3, <1>7
<1>9. s.num = Share(S, w) - T * Penalty(w, R, L, B) /\ s.den = Scale(w) * T
  BY <1>3, <1>4, <1>5, <1>7 DEF Share, Scale, Penalty
<1> QED BY <1>0, <1>8, <1>9, Zenon DEF Weighs

LEMMA ScoreIs ==
    ASSUME NEW e \in ScoreEntry, NEW now \in Nat
    PROVE  ComputeScore(e, now).num \in Int /\ ComputeScore(e, now).den \in Nat \ {0}
<1>1. PICK R \in Nat, L \in Nat, B \in 0..5, w \in Nat \ {0}, S \in Nat, F \in Nat :
         /\ R = RecentFailurePenalty(e, now) /\ L = LatencyPenalty(e)
         /\ B = RecencyBonus(e, now) /\ w = Hour - FiveMinutes
         /\ S = e.successes /\ F = e.failures
  BY ScoreParts, Zenon
<1>2. CASE S + F = 0
  BY <1>1, <1>2 DEF ComputeScore, NoHistoryScore
<1>3. CASE S + F # 0
  <2>1. PICK T \in Nat \ {0} : T = S + F
    BY <1>3
  <2>2. ComputeScore(e, now) = Weigh(S, T, w, R, L, B)
    BY <1>1, <1>3, <2>1, Zenon DEF ComputeScore
  <2>3. Weighs(Weigh(S, T, w, R, L, B), S, T, w, R, L, B)
    BY <1>1, <2>1, WeighIs, Zenon
  <2> QED BY <2>2, <2>3, Zenon DEF Weighs
<1> QED BY <1>2, <1>3

\* One failure more, at a recent-failure penalty that is no smaller.
LEMMA WeighOneMore ==
    ASSUME NEW S \in Nat, NEW T \in Nat, NEW w \in Nat \ {0}, NEW R \in Nat, NEW Q \in Nat,
           NEW L \in Nat, NEW B \in 0..5, R <= Q, S <= T,
           NEW a, NEW b, a = Weigh(S, T + 1, w, Q, L, B),
           b = IF T = 0 THEN NoHistoryScore ELSE Weigh(S, T, w, R, L, B)
    PROVE  ~Higher(a, b)
<1>1. PICK K \in Int : K = 100 * R + w * L - 100 * w * B
  OBVIOUS
<1>2. PICK J \in Int : J = 100 * Q + w * L - 100 * w * B /\ K <= J
  <2>1. PICK x \in Int : x = w * L
    OBVIOUS
  <2>2. PICK y \in Int : y = 100 * w * B
    OBVIOUS
  <2> QED BY <1>1, <2>1, <2>2
<1>3. PICK A \in Nat : A = 10000 * S * w
  OBVIOUS
<1>4. PICK U \in Nat \ {0} : U = T + 1
  OBVIOUS
<1>5. PICK q \in Nat : q = 100 * w
  OBVIOUS
<1>6. K = Penalty(w, R, L, B) /\ J = Penalty(w, Q, L, B) /\ A = Share(S, w) /\ q = Scale(w)
  BY <1>1, <1>2, <1>3, <1>5 DEF Penalty, Share, Scale
<1>7. a.num = A - U * J /\ a.den = q * U
  <2>1. a = Weigh(S, U, w, Q, L, B)
    BY <1>4, Zenon
  <2>2. Weighs(Weigh(S, U, w, Q, L, B), S, U, w, Q, L, B)
    BY <1>4, WeighIs, Zenon
  <2>3. Weighs(a, S, U, w, Q, L, B)
    BY <2>1, <2>2, Zenon
  <2> QED BY <1>6, <2>3, Zenon DEF Weighs
<1>8. CASE T = 0
  <2>1. b.num = 50 /\ b.den = 1
    BY <1>8 DEF NoHistoryScore
  <2>2. A = 0 /\ U = 1
    BY <1>3, <1>4, <1>8
  <2>3. a.num = 0 - J /\ a.den = 100 * w
    BY <1>5, <1>7, <2>2
  <2>4. w * B <= w * 5
    BY TimesKeepsOrder
  <2>5. w * L \in Nat
    OBVIOUS
  <2>6. 0 - J <= 500 * w
    <3>1. PICK x \in Nat : x = w * L
      BY <2>5, Zenon
    <3>2. PICK y \in Int : y = w * B
      OBVIOUS
    <3>3. 100 * w * B = 100 * y
      BY <3>2
    <3> QED BY <1>2, <2>4, <3>1, <3>2, <3>3
  <2> QED BY <2>1, <2>3, <2>6 DEF Higher
<1>9. CASE T # 0
  <2>1. b = Weigh(S, T, w, R, L, B) /\ T \in Nat \ {0}
    BY <1>9, Zenon
  <2>2. b.num = A - T * K /\ b.den = q * T
    <3>1. Weighs(Weigh(S, T, w, R, L, B), S, T, w, R, L, B)
      BY <2>1, WeighIs, Zenon
    <3>2. Weighs(b, S, T, w, R, L, B)
      BY <2>1, <3>1, Zenon
    <3> QED BY <1>6, <3>2, Zenon DEF Weighs
  <2>3. (A - (T + 1) * J) * (q * T) <= (A - T * K) * (q * (T + 1))
    BY <1>2, OneTryMore, Zenon
  <2>4. PICK x \in Int : x = A - U * J
    OBVIOUS
  <2>5. PICK y \in Int : y = A - T * K
    OBVIOUS
  <2>6. x * (q * T) <= y * (q * U)
    BY <1>4, <2>3, <2>4, <2>5, Zenon
  <2>7. a.num * b.den = x * (q * T) /\ b.num * a.den = y * (q * U)
    BY <1>7, <2>2, <2>4, <2>5
  <2>8. PICK u \in Int : u = x * (q * T)
    OBVIOUS
  <2>9. PICK v \in Int : v = y * (q * U)
    OBVIOUS
  <2> QED BY <2>6, <2>7, <2>8, <2>9 DEF Higher
<1> QED BY <1>8, <1>9, Zenon

\* An entry with one failure more, that is as late as any and not of the future.
LEMMA OneFailureMore ==
    ASSUME NEW e \in ScoreEntry, NEW n \in ScoreEntry, NEW now \in Nat, NEW s \in Nat,
           n.successes = e.successes, n.failures = e.failures + 1,
           n.last_success_at = e.last_success_at, n.median_latency_ms = e.median_latency_ms,
           n.last_failure_at = s, s <= now, e.last_failure_at <= s,
           e.consecutive_failures <= n.consecutive_failures
    PROVE  ~Higher(ComputeScore(n, now), ComputeScore(e, now))
<1>1. PICK R \in Nat, L \in Nat, B \in 0..5, w \in Nat \ {0}, S \in Nat, F \in Nat :
         /\ R = RecentFailurePenalty(e, now) /\ L = LatencyPenalty(e)
         /\ B = RecencyBonus(e, now) /\ w = Hour - FiveMinutes
         /\ S = e.successes /\ F = e.failures
  BY ScoreParts, Zenon
<1>2. PICK Q \in Nat : Q = RecentFailurePenalty(n, now)
  BY ScoreParts
<1>3. LatencyPenalty(n) = L /\ RecencyBonus(n, now) = B
  BY <1>1 DEF LatencyPenalty, RecencyBonus
<1>4. R <= Q
  <2>1. CASE e.last_failure_at = Never
    BY <1>1, <1>2, <2>1 DEF RecentFailurePenalty
  <2>2. CASE e.last_failure_at # Never
    <3>1. PICK l \in Nat : l = e.last_failure_at
      BY <2>2, Zenon DEF Times, ScoreEntry
    <3>2. now - l \in Nat /\ now - s \in Nat /\ now - s <= now - l
      BY <3>1
    <3>3. PICK x \in Nat, y \in Nat : y = now - e.last_failure_at /\ x = now - s /\ x <= y
      BY <3>1, <3>2, Zenon
    <3>4. e.consecutive_failures \in Nat /\ n.consecutive_failures \in Nat
      BY Zenon DEF ScoreEntry
    <3>5. Decay(y) \in Nat /\ Decay(x) \in Nat /\ Decay(y) <= Decay(x)
      BY <3>3, DecayFacts
    <3>6. PICK c \in Nat, d \in Nat, a \in Nat, b \in Nat :
             /\ c = e.consecutive_failures /\ d = n.consecutive_failures /\ c <= d
             /\ a = Decay(y) /\ b = Decay(x) /\ a <= b
      BY <3>4, <3>5, Zenon
    <3>7. n.last_failure_at # Never
      BY DEF Never
    <3>8. R = 20 * c * a /\ Q = 20 * d * b
      BY <1>1, <1>2, <2>2, <3>3, <3>6, <3>7, Zenon DEF RecentFailurePenalty
    <3>9. c * a <= d * b
      BY <3>6, TimesBothKeepOrder, Zenon
    <3>10. PICK u \in Nat : u = c * a
      OBVIOUS
    <3>11. PICK v \in Nat : v = d * b
      OBVIOUS
    <3>12. R = 20 * u /\ Q = 20 * v
      BY <3>8, <3>10, <3>11
    <3> QED BY <3>9, <3>10, <3>11, <3>12
  <2> QED BY <2>1, <2>2
<1>5. PICK T \in Nat : T = S + F /\ S <= T
  OBVIOUS
<1>6. n.successes + n.failures = T + 1 /\ T + 1 # 0 /\ e.successes + e.failures = T
  BY <1>1, <1>5
<1>7. ComputeScore(n, now) = Weigh(S, T + 1, w, Q, L, B)
  BY <1>1, <1>2, <1>3, <1>6, Zenon DEF ComputeScore
<1>8. ComputeScore(e, now) = IF T = 0 THEN NoHistoryScore ELSE Weigh(S, T, w, R, L, B)
  BY <1>1, <1>6, Zenon DEF ComputeScore
<1> QED BY <1>4, <1>5, <1>7, <1>8, WeighOneMore, Zenon

\* Recording a failure never raises the score its method has at that time, however late the
\* statement of record() runs, unless another record() overlaps: the failure is one more, at
\* least as late as any before it, and not of the future.
THEOREM FailureNeverHelpsHolds == StoreSpec => FailureNeverHelps
<1>1. ASSUME StoreInv, NEW r \in Recorders, rec[r].pc = "upsert", rec[r].alone, UpsertFailure(r)
      PROVE  ~Higher(ComputeScore(Lookup(rec[r].f)'[rec[r].m], clock),
                     ComputeScore(Lookup(rec[r].f)[rec[r].m], clock))
  <2>0. ~Idle(r) /\ StoreTypeOK /\ StoreInv'
    BY <1>1, FailureKeeps, Zenon DEF Idle, StoreInv
  <2>1. PICK f \in Fingerprints, m \in Methods, s \in Nat :
           f = rec[r].f /\ m = rec[r].m /\ s = rec[r].stamp
    BY <2>0, CallOf, Zenon
  <2>2. s <= clock /\ NoLaterThan(s)
    <3>1. rec[r].stamp <= rec[r].time /\ rec[r].time <= clock
      BY <1>1, <2>0, Zenon DEF StoreInv, StampsAreCoarse
    <3>2. rec[r].time \in Nat /\ clock \in Nat
      BY <2>0, CallOf, Zenon DEF StoreTypeOK
    <3>3. NoLaterThan(rec[r].stamp)
      BY <1>1, <2>0, Zenon DEF StoreInv, AloneIsAlone, UpsertFailure
    <3> QED BY <2>1, <3>1, <3>2, <3>3, SMTT(30)
  <2>3. PICK row \in ScoreEntry : row = rows[f][m] /\ Lookup(f)[m] = Clamped(row)
    BY <2>0, <2>1, LookupIs, Zenon
  <2>4. PICK a : rows'[f][m] = Failed(row, s, a) /\ a \in Times
    <3>1. rows' = [rows EXCEPT ![f][m] =
                     Failed(rows[f][m], s, IF rec[r].outcome.hard THEN s ELSE rows[f][m].blocked_at)]
      BY <1>1, <2>1, Zenon DEF UpsertFailure
    <3>2. PICK a : a = IF rec[r].outcome.hard THEN s ELSE rows[f][m].blocked_at
      BY Zenon
    <3>3. a \in Times
      BY <2>1, <2>3, <3>2 DEF Times, ScoreEntry
    <3>4. PICK n : n = Failed(row, s, a)
      BY Zenon
    <3>5. rows' = [rows EXCEPT ![f][m] = n]
      BY <2>3, <3>1, <3>2, <3>4, Zenon
    <3>6. rows'[f][m] = n
      BY <2>0, <2>1, <3>5 DEF StoreTypeOK
    <3> QED BY <3>3, <3>4, <3>6, Zenon
  <2>5. PICK new \in ScoreEntry : /\ new = rows'[f][m] /\ new = Failed(row, s, a)
                                  /\ Lookup(f)'[m] = Clamped(new)
    <3>1. rows'[f][m] \in ScoreEntry
      BY <2>0, <2>1 DEF StoreInv, StoreTypeOK
    <3>2. Lookup(f)'[m] = Clamped(rows'[f][m])
      BY <2>1, Zenon DEF Lookup, Clamped
    <3> QED BY <2>4, <3>1, <3>2, Zenon
  <2>6. PICK e \in ScoreEntry :
           /\ e = Clamped(row) /\ e.successes = row.successes /\ e.failures = row.failures
           /\ e.last_success_at = row.last_success_at /\ e.last_failure_at = row.last_failure_at
           /\ e.median_latency_ms = row.median_latency_ms
           /\ e.consecutive_failures = AsU8(row.consecutive_failures)
    BY <2>3, ClampedIs
  <2>7. PICK n \in ScoreEntry :
           /\ n = Clamped(new) /\ n.successes = new.successes /\ n.failures = new.failures
           /\ n.last_success_at = new.last_success_at /\ n.last_failure_at = new.last_failure_at
           /\ n.median_latency_ms = new.median_latency_ms
           /\ n.consecutive_failures = AsU8(new.consecutive_failures)
    BY <2>5, ClampedIs, Zenon
  <2>8. /\ new.last_failure_at = s /\ new.successes = row.successes /\ new.failures = row.failures + 1
        /\ new.last_success_at = row.last_success_at /\ new.median_latency_ms = row.median_latency_ms
        /\ new.consecutive_failures = row.consecutive_failures + 1
    <3>1. new = Failed(row, s, a)
      BY <2>5
    <3> QED BY <3>1, SMTT(30) DEF Failed
  <2>9. e.consecutive_failures <= n.consecutive_failures
    <3>1. PICK c \in Nat : c = row.consecutive_failures
      BY <2>3 DEF ScoreEntry
    <3>2. AsU8(c) <= AsU8(c + 1)
      BY StoreAssumption DEF AsU8
    <3> QED BY <2>6, <2>7, <2>8, <3>1, <3>2, Zenon
  <2>10. e.last_failure_at <= s
    <3>1. rows[f][m].last_failure_at <= s
      BY <2>1, <2>2, Zenon DEF NoLaterThan
    <3> QED BY <2>3, <2>6, <3>1, Zenon
  <2>11. clock \in Nat
    BY <2>0, Zenon DEF StoreTypeOK
  <2>12. ~Higher(ComputeScore(n, clock), ComputeScore(e, clock))
    BY <2>1, <2>2, <2>6, <2>7, <2>8, <2>9, <2>10, <2>11, OneFailureMore, Zenon
  <2>13. rec'[r].f = f
    <3>1. rec' = [rec EXCEPT ![r].pc = "count"]
      BY <1>1, Zenon DEF UpsertFailure, Goto
    <3>2. rec[r] \in Calls /\ rec \in [Recorders -> {IdleRec} \cup Calls]
      BY <2>0, CallOf DEF StoreTypeOK
    <3> QED BY <2>1, <3>1, <3>2, SMTT(30) DEF Calls
  <2>14. /\ Lookup(rec[r].f)'[rec[r].m] = n
         /\ Lookup(rec[r].f)[rec[r].m] = e
    <3>1. Lookup(rec[r].f)'[rec[r].m] = Clamped(rows'[f][m])
      BY <2>1, <2>13, Zenon DEF Lookup, Clamped
    <3> QED BY <2>1, <2>3, <2>5, <2>6, <2>7, <3>1, Zenon
  <2> QED BY <2>12, <2>14, Zenon
<1>2. ASSUME StoreInv, NEW r \in Recorders
      PROVE  rec[r].pc = "upsert" /\ rec[r].alone /\ UpsertFailure(r)
             => LET f == rec[r].f  m == rec[r].m IN
                ~Higher(ComputeScore(Lookup(f)'[m], clock), ComputeScore(Lookup(f)[m], clock))
  BY <1>1, <1>2, Zenon
<1>3. StoreInv /\ [StoreNext]_storeVars =>
      [\A r \in Recorders :
          rec[r].pc = "upsert" /\ rec[r].alone /\ UpsertFailure(r)
          => LET f == rec[r].f  m == rec[r].m IN
             ~Higher(ComputeScore(Lookup(f)'[m], clock), ComputeScore(Lookup(f)[m], clock))
      ]_storeVars
  BY <1>2, Zenon
<1> QED BY <1>3, StoreInvariant, PTL DEF StoreSpec, FailureNeverHelps

-----------------------------------------------------------------------------
(* The order of the probes.                                                *)

Fractions == [num : Int, den : Nat \ {0}]

LEMMA CancelFactor ==
    ASSUME NEW a \in Int, NEW b \in Int, NEW c \in Nat \ {0}, a * c <= b * c
    PROVE  a <= b
<1> SUFFICES ASSUME b + 1 <= a PROVE FALSE
  OBVIOUS
<1>1. (b + 1) * c <= a * c
  BY TimesKeepsOrder
<1>2. (b + 1) * c = b * c + c
  OBVIOUS
<1>3. PICK x \in Int : x = b * c
  OBVIOUS
<1>4. PICK y \in Int : y = a * c
  OBVIOUS
<1> QED BY <1>1, <1>2, <1>3, <1>4

\* "Not lower" orders the scores.
LEMMA NotLowerIsTransitive ==
    ASSUME NEW a \in Fractions, NEW b \in Fractions, NEW c \in Fractions,
           ~Higher(b, a), ~Higher(c, b)
    PROVE  ~Higher(c, a)
<1>1. PICK an \in Int, ad \in Nat \ {0}, bn \in Int, bd \in Nat \ {0}, cn \in Int, cd \in Nat \ {0} :
         an = a.num /\ ad = a.den /\ bn = b.num /\ bd = b.den /\ cn = c.num /\ cd = c.den
  BY Zenon DEF Fractions
<1>2. PICK p \in Int : p = bn * ad
  OBVIOUS
<1>3. PICK q \in Int : q = an * bd
  OBVIOUS
<1>4. PICK u \in Int : u = cn * bd
  OBVIOUS
<1>5. PICK v \in Int : v = bn * cd
  OBVIOUS
<1>6. p <= q
  BY <1>1, <1>2, <1>3 DEF Higher
<1>7. u <= v
  BY <1>1, <1>4, <1>5 DEF Higher
<1>8. p * cd <= q * cd
  BY <1>1, <1>6, TimesKeepsOrder, Zenon
<1>9. u * ad <= v * ad
  BY <1>1, <1>7, TimesKeepsOrder
<1>10. PICK x \in Int : x = cn * ad
  BY <1>1
<1>11. PICK y \in Int : y = an * cd
  BY <1>1
<1>12. x * bd = u * ad
  BY <1>1, <1>4, <1>10
<1>13. y * bd = q * cd
  BY <1>1, <1>3, <1>11
<1>14. p * cd = v * ad
  BY <1>1, <1>2, <1>5
<1>15. x * bd <= y * bd
  <2>1. PICK i \in Int : i = x * bd
    BY <1>1
  <2>2. PICK j \in Int : j = y * bd
    BY <1>1
  <2>3. PICK k \in Int : k = p * cd
    BY <1>1
  <2> QED BY <1>8, <1>9, <1>12, <1>13, <1>14, <2>1, <2>2, <2>3
<1>16. x <= y
  BY <1>1, <1>15, CancelFactor
<1> QED BY <1>1, <1>10, <1>11, <1>16 DEF Higher

LEMMA HigherIsStrict ==
    ASSUME NEW a \in Fractions, NEW b \in Fractions
    PROVE  ~Higher(a, a) /\ ~(Higher(a, b) /\ Higher(b, a))
<1>1. PICK x \in Int : x = a.num * b.den
  BY DEF Fractions
<1>2. PICK y \in Int : y = b.num * a.den
  BY DEF Fractions
<1>3. PICK z \in Int : z = a.num * a.den
  BY DEF Fractions
<1> QED BY <1>1, <1>2, <1>3 DEF Higher

\* The pairs of methods, the first of which is probed before the second.
Rank(entries, now) == {p \in Methods \X Methods : RanksBefore(entries, now, p[1], p[2])}

IsOrder(R, S) ==
    /\ \A x \in S : <<x, x>> \notin R
    /\ \A x, y \in S : x # y => <<x, y>> \in R \/ <<y, x>> \in R
    /\ \A x, y, z \in S : <<x, y>> \in R /\ <<y, z>> \in R => <<x, z>> \in R

LEMMA RankIsOrder ==
    ASSUME NEW entries \in [Methods -> ScoreEntry], NEW now \in Nat
    PROVE  IsOrder(Rank(entries, now), Methods)
<1> DEFINE sc(m) == ComputeScore(entries[m], now)
           R == Rank(entries, now)
<1>1. PICK f \in [Methods -> Fractions] : \A m \in Methods : f[m].num = sc(m).num /\ f[m].den = sc(m).den
  <2>1. \A m \in Methods : sc(m).num \in Int /\ sc(m).den \in Nat \ {0}
    BY ScoreIs, Zenon
  <2>2. PICK f : f = [m \in Methods |-> [num |-> sc(m).num, den |-> sc(m).den]]
    BY Zenon
  <2>3. f \in [Methods -> Fractions]
    BY <2>1, <2>2 DEF Fractions
  <2>4. \A m \in Methods : f[m].num = sc(m).num /\ f[m].den = sc(m).den
    BY <2>2, Zenon
  <2> QED BY <2>3, <2>4
<1>2. \A m, n \in Methods : Higher(sc(m), sc(n)) <=> Higher(f[m], f[n])
  BY <1>1, Zenon DEF Higher
<1>3. \A m, n \in Methods : <<m, n>> \in R <=>
         \/ Higher(f[m], f[n])
         \/ ~Higher(f[n], f[m]) /\ m < n
  BY <1>2 DEF Rank, RanksBefore
<1> HIDE DEF R
<1>4. Methods \subseteq Nat
  BY StoreAssumption
<1>5. \A x \in Methods : <<x, x>> \notin R
  BY <1>1, <1>3, <1>4, HigherIsStrict
<1>6. \A x, y \in Methods : x # y => <<x, y>> \in R \/ <<y, x>> \in R
  BY <1>3, <1>4
<1>7. ASSUME NEW x \in Methods, NEW y \in Methods, NEW z \in Methods,
             <<x, y>> \in R, <<y, z>> \in R
      PROVE  <<x, z>> \in R
  <2>1. f[x] \in Fractions /\ f[y] \in Fractions /\ f[z] \in Fractions
    BY <1>1
  <2>2. ~Higher(f[y], f[x]) /\ ~Higher(f[z], f[y])
    BY <1>3, <1>7, <2>1, HigherIsStrict, Zenon
  <2>3. ~Higher(f[z], f[x])
    BY <2>1, <2>2, NotLowerIsTransitive, Zenon
  <2>4. CASE Higher(f[x], f[z])
    BY <1>3, <2>4, Zenon
  <2>5. CASE ~Higher(f[x], f[z])
    <3>1. ~Higher(f[y], f[z])
      BY <2>1, <2>2, <2>5, NotLowerIsTransitive, Zenon
    <3>2. ~Higher(f[x], f[y])
      BY <2>1, <2>2, <2>5, NotLowerIsTransitive
    <3>3. x < y /\ y < z
      BY <1>3, <1>7, <3>1, <3>2, Zenon
    <3>4. x < z
      BY <1>4, <3>3
    <3> QED BY <1>3, <2>3, <3>4
  <2> QED BY <2>4, <2>5, Zenon
<1>8. \A x, y, z \in Methods : <<x, y>> \in R /\ <<y, z>> \in R => <<x, z>> \in R
  BY <1>7, Zenon
<1>9. IsOrder(R, Methods)
  BY <1>5, <1>6, <1>8, Zenon DEF IsOrder
<1> QED BY <1>9, Zenon DEF R

\* A finite set has a last element in any order.
LEMMA LastExists ==
    ASSUME NEW M, NEW R, IsOrder(R, M), NEW S \in SUBSET M, IsFiniteSet(S), S # {}
    PROVE  \E x \in S : \A y \in S \ {x} : <<y, x>> \in R
<1> DEFINE HasLast(X) == \E x \in X : \A y \in X \ {x} : <<y, x>> \in R
           T == {n \in Nat : \A X \in SUBSET M :
                    IsFiniteSet(X) /\ Cardinality(X) = n /\ X # {} => HasLast(X)}
<1>1. 0 \in T
  BY FS_EmptySet, Zenon
<1>2. ASSUME NEW n \in Nat, n \in T PROVE n + 1 \in T
  <2> SUFFICES ASSUME NEW X \in SUBSET M, IsFiniteSet(X), Cardinality(X) = n + 1, X # {}
               PROVE  HasLast(X)
    BY <1>2
  <2>1. PICK a \in X : TRUE
    BY Zenon
  <2>2. PICK Y : Y = X \ {a}
    BY Zenon
  <2>3. Y \in SUBSET M /\ IsFiniteSet(Y) /\ Cardinality(Y) = n
    <3>1. IsFiniteSet(Y) /\ Cardinality(Y) = Cardinality(X) - 1
      BY <2>1, <2>2, FS_RemoveElement, Zenon
    <3>2. PICK x : x = Cardinality(Y)
      BY Zenon
    <3>3. x = (n + 1) - 1
      BY <3>1, <3>2, Zenon
    <3>4. x = n
      BY <3>3
    <3> QED BY <2>2, <3>1, <3>2, <3>4, Zenon
  <2>4. CASE Y = {}
    BY <2>1, <2>2, <2>4, Zenon
  <2>5. CASE Y # {}
    <3>1. PICK b \in Y : \A y \in Y \ {b} : <<y, b>> \in R
      BY <1>2, <2>3, <2>5
    <3>2. CASE <<a, b>> \in R
      <4>1. b \in X /\ \A y \in X \ {b} : <<y, b>> \in R
        BY <2>1, <2>2, <3>1, <3>2
      <4> QED BY <4>1, Zenon
    <3>3. CASE <<a, b>> \notin R
      <4>1. <<b, a>> \in R /\ a # b /\ a \in M /\ b \in M
        BY <2>1, <2>2, <3>1, <3>3 DEF IsOrder
      <4>2. ASSUME NEW y \in X \ {a} PROVE <<y, a>> \in R
        <5>1. y = b \/ <<y, b>> \in R
          BY <2>2, <3>1
        <5> QED BY <4>1, <5>1, Zenon DEF IsOrder
      <4> QED BY <2>1, <4>2, Zenon
    <3> QED BY <3>2, <3>3, Zenon
  <2> QED BY <2>4, <2>5, Zenon
<1>3. \A n \in Nat : n \in T
  <2> HIDE DEF T
  <2> QED BY <1>1, <1>2, Induction, Zenon
<1>4. Cardinality(S) \in T
  BY <1>3, FS_CardinalityType, Zenon
<1> QED BY <1>4, Zenon

\* A finite set can be sorted.
Sorts(c, R, k) == \A i, j \in 1..k : i < j => <<c[i], c[j]>> \in R

LEMMA SortExists ==
    ASSUME NEW M, NEW R, IsOrder(R, M)
    PROVE  \A n \in Nat : \A S \in SUBSET M :
              IsFiniteSet(S) /\ Cardinality(S) = n => \E c \in [1..n -> S] : Sorts(c, R, n)
<1> DEFINE T == {n \in Nat : \A S \in SUBSET M :
              IsFiniteSet(S) /\ Cardinality(S) = n => \E c \in [1..n -> S] : Sorts(c, R, n)}
<1>1. 0 \in T
  <2> SUFFICES ASSUME NEW S \in SUBSET M PROVE \E c \in [1..0 -> S] : Sorts(c, R, 0)
    BY Zenon
  <2>1. 1..0 = {}
    OBVIOUS
  <2>2. PICK c : c = [i \in 1..0 |-> i]
    BY Zenon
  <2>3. c \in [1..0 -> S]
    BY <2>1, <2>2, Zenon
  <2>4. Sorts(c, R, 0)
    BY <2>1, Zenon DEF Sorts
  <2> QED BY <2>3, <2>4, Zenon
<1>2. ASSUME NEW n \in Nat, n \in T PROVE n + 1 \in T
  <2> SUFFICES ASSUME NEW S \in SUBSET M, IsFiniteSet(S), Cardinality(S) = n + 1
               PROVE  \E c \in [1..n + 1 -> S] : Sorts(c, R, n + 1)
    OBVIOUS
  <2>0. S # {}
    BY FS_EmptySet
  <2>1. PICK a \in S : \A y \in S \ {a} : <<y, a>> \in R
    BY <2>0, LastExists
  <2>2. PICK Y : Y = S \ {a}
    BY Zenon
  <2>3. Y \in SUBSET M /\ IsFiniteSet(Y) /\ Cardinality(Y) = n
    <3>1. IsFiniteSet(Y) /\ Cardinality(Y) = Cardinality(S) - 1
      BY <2>1, <2>2, FS_RemoveElement, Zenon
    <3>2. PICK x : x = Cardinality(Y)
      BY Zenon
    <3>3. x = (n + 1) - 1
      BY <3>1, <3>2, Zenon
    <3>4. x = n
      BY <3>3
    <3> QED BY <2>2, <3>1, <3>2, <3>4, Zenon
  <2>4. PICK d \in [1..n -> Y] : Sorts(d, R, n)
    BY <1>2, <2>3, Zenon
  <2>5. PICK c : c = [i \in 1..n + 1 |-> IF i = n + 1 THEN a ELSE d[i]]
    BY Zenon
  <2>6. \A i \in 1..n : i \in 1..n + 1 /\ c[i] = d[i] /\ d[i] \in Y
    BY <2>4, <2>5
  <2>7. n + 1 \in 1..n + 1 /\ c[n + 1] = a
    BY <2>5
  <2>8. \A i \in 1..n + 1 : i \in 1..n \/ i = n + 1
    OBVIOUS
  <2>9. c \in [1..n + 1 -> S]
    BY <2>1, <2>2, <2>5, <2>6, <2>7, <2>8, Zenon
  <2>10. ASSUME NEW i \in 1..n + 1, NEW j \in 1..n + 1, i < j PROVE <<c[i], c[j]>> \in R
    <3>1. i \in 1..n
      BY <2>10
    <3>2. CASE j \in 1..n
      BY <2>4, <2>6, <2>10, <3>1, <3>2, Zenon DEF Sorts
    <3>3. CASE j = n + 1
      BY <2>1, <2>2, <2>6, <2>7, <3>1, <3>3
    <3> QED BY <2>8, <3>2, <3>3, Zenon
  <2> QED BY <2>9, <2>10, Zenon DEF Sorts
<1> HIDE DEF T
<1>3. \A n \in Nat : n \in T
  BY <1>1, <1>2, Induction
<1> QED BY <1>3, Zenon DEF T

\* The stable sort of select_probe_candidates: every method once, in order.
IsRanking(c, entries, now, S) ==
    \E k \in Nat :
        /\ k = Cardinality(S) /\ c \in [1..k -> S]
        /\ Sorts(c, Rank(entries, now), k)
        /\ \A i, j \in 1..k : c[i] = c[j] => i = j
        /\ \A m \in S : \E i \in 1..k : c[i] = m

LEMMA RankedIs ==
    ASSUME NEW entries \in [Methods -> ScoreEntry], NEW now \in Nat, NEW S \in SUBSET Methods
    PROVE  IsRanking(Ranked(entries, S, now), entries, now, S)
<1>0. IsFiniteSet(Methods)
  BY StoreAssumption
<1>1. IsFiniteSet(S)
  BY <1>0, FS_Subset, Zenon
<1>2. PICK k \in Nat : k = Cardinality(S)
  BY <1>1, FS_CardinalityType
<1>3. IsOrder(Rank(entries, now), Methods)
  BY RankIsOrder
<1>4. \E c \in [1..k -> S] : Sorts(c, Rank(entries, now), k)
  BY <1>1, <1>2, <1>3, SortExists
<1> DEFINE good(d) == \A i, j \in 1..k : i < j => RanksBefore(entries, now, d[i], d[j])
<1>5. ASSUME NEW d \in [1..k -> S] PROVE Sorts(d, Rank(entries, now), k) <=> good(d)
  <2>1. ASSUME NEW i \in 1..k, NEW j \in 1..k
        PROVE  <<d[i], d[j]>> \in Rank(entries, now) <=> RanksBefore(entries, now, d[i], d[j])
    BY <1>5, Zenon DEF Rank
  <2> QED BY <2>1, Zenon DEF Sorts
<1>6. \E d \in [1..k -> S] : good(d)
  BY <1>4, <1>5, Zenon
<1>7. PICK c : c = Ranked(entries, S, now)
  BY Zenon
<1>8. c = CHOOSE d \in [1..k -> S] : good(d)
  BY <1>2, <1>7, Zenon DEF Ranked
<1>9. c \in [1..k -> S] /\ good(c)
  BY <1>6, <1>8, Zenon
<1>10. Sorts(c, Rank(entries, now), k)
  BY <1>5, <1>9
<1>11. ASSUME NEW i \in 1..k, NEW j \in 1..k, c[i] = c[j] PROVE i = j
  <2>1. c[i] \in Methods
    BY <1>9, Zenon
  <2>2. <<c[i], c[i]>> \notin Rank(entries, now)
    BY <1>3, <2>1, Zenon DEF IsOrder
  <2>3. ~(i < j) /\ ~(j < i)
    BY <1>10, <1>11, <2>2, Zenon DEF Sorts
  <2> QED BY <2>3
<1>12. c \in Injection(1..k, S)
  BY <1>9, <1>11 DEF Injection, IsInjective
<1>13. IsFiniteSet(1..k) /\ Cardinality(1..k) = k
  BY <1>2, FS_Interval
<1>14. c \in Surjection(1..k, S)
  BY <1>1, <1>2, <1>12, <1>13, FS_Injection
<1>15. \A m \in S : \E i \in 1..k : c[i] = m
  BY <1>14, Zenon DEF Surjection
<1>16. \A i, j \in 1..k : c[i] = c[j] => i = j
  BY <1>11
<1>17. IsRanking(c, entries, now, S)
  BY <1>2, <1>9, <1>10, <1>15, <1>16, Zenon DEF IsRanking
<1> QED BY <1>7, <1>17, Zenon

\* A method probed before another has no lower score.
LEMMA EarlierIsNotLower ==
    ASSUME NEW entries \in [Methods -> ScoreEntry], NEW now \in Nat,
           NEW m, NEW n, <<m, n>> \in Rank(entries, now)
    PROVE  ~Higher(ComputeScore(entries[n], now), ComputeScore(entries[m], now))
<1>1. m \in Methods /\ n \in Methods /\ RanksBefore(entries, now, m, n)
  BY Zenon DEF Rank
<1>2. PICK s, t : s = ComputeScore(entries[m], now) /\ t = ComputeScore(entries[n], now)
  BY Zenon
<1>3. s.num \in Int /\ s.den \in Nat \ {0} /\ t.num \in Int /\ t.den \in Nat \ {0}
  BY <1>1, <1>2, ScoreIs, Zenon
<1>4. PICK x \in Int : x = s.num * t.den
  BY <1>3
<1>5. PICK y \in Int : y = t.num * s.den
  BY <1>3
<1>6. Higher(s, t) \/ ~Higher(t, s)
  BY <1>1, <1>2, Zenon DEF RanksBefore
<1>7. ~Higher(t, s)
  BY <1>4, <1>5, <1>6 DEF Higher
<1> QED BY <1>2, <1>7, Zenon

\* The cut to top_k_probes.
IsCut(t, c, k) ==
    \E z \in 1..k : /\ z <= TopKProbes /\ (z < k => z = TopKProbes)
                    /\ t = [i \in 1..z |-> c[i]] /\ Len(t) = z

LEMMA TopKIs ==
    ASSUME NEW k \in Nat, k # 0, NEW S, NEW c \in [1..k -> S]
    PROVE  IsCut(TopK(c), c, k)
<1>1. Len(c) = k
  OBVIOUS
<1>2. PICK z \in 1..k : z = IF TopKProbes < k THEN TopKProbes ELSE k
  BY ScoringAssumption
<1>3. TopK(c) = [i \in 1..z |-> c[i]]
  BY <1>1, <1>2, Zenon DEF TopK
<1>4. z <= TopKProbes /\ (z < k => z = TopKProbes)
  BY <1>2, ScoringAssumption
<1>5. Len([i \in 1..z |-> c[i]]) = z
  BY <1>2
<1> QED BY <1>2, <1>3, <1>4, <1>5, Zenon DEF IsCut

\* When some allowed method is open.
LEMMA OpenSelection ==
    ASSUME NEW entries \in [Methods -> ScoreEntry], clock \in Nat, NEW allowed \in SUBSET Methods,
           Open(entries, allowed) # {},
           NEW c, c = SelectProbeCandidates(entries, allowed, clock)
    PROVE  /\ AlwaysSomethingToProbe(allowed, c)
           /\ BlockedOnlyAsLastResort(entries, allowed, c)
           /\ BestFirst(entries, allowed, c)
<1>1. PICK S : S = Open(entries, allowed) /\ S # {} /\ S \in SUBSET Methods /\ S \subseteq allowed
  <2>1. PICK S : S = Open(entries, allowed)
    BY Zenon
  <2>2. S \subseteq allowed
    BY <2>1, Zenon DEF Open
  <2> QED BY <2>1, <2>2, Zenon
<1>2. PICK r : r = Ranked(entries, S, clock) /\ IsRanking(r, entries, clock, S)
  BY <1>1, RankedIs, Zenon
<1>3. PICK k \in Nat :
         /\ k = Cardinality(S) /\ r \in [1..k -> S]
         /\ Sorts(r, Rank(entries, clock), k)
         /\ \A i, j \in 1..k : r[i] = r[j] => i = j
         /\ \A m \in S : \E i \in 1..k : r[i] = m
  BY <1>2, Zenon DEF IsRanking
<1>4. k # 0
  BY <1>1, <1>3
<1>5. PICK z \in 1..k : /\ z <= TopKProbes /\ (z < k => z = TopKProbes)
                        /\ c = [i \in 1..z |-> r[i]] /\ Len(c) = z
  <2>1. c = TopK(r)
    BY <1>1, <1>2, Zenon DEF SelectProbeCandidates, Open
  <2>2. IsCut(TopK(r), r, k)
    BY <1>3, <1>4, TopKIs, Zenon
  <2>3. IsCut(c, r, k)
    BY <2>1, <2>2, Zenon
  <2> QED BY <2>3, Zenon DEF IsCut
<1>6. DOMAIN c = 1..z /\ \A i \in 1..z : i \in 1..k /\ c[i] = r[i] /\ r[i] \in S
  BY <1>3, <1>5
<1>7. Range(c) \subseteq S
  BY <1>6, Zenon DEF Range
<1>8. AlwaysSomethingToProbe(allowed, c)
  <2>1. Range(c) \subseteq allowed /\ allowed # {}
    BY <1>1, <1>7, Zenon
  <2>2. c # <<>>
    <3>1. Len(c) = z /\ z # 0
      BY <1>3, <1>5
    <3>2. Len(<<>>) = 0
      BY Zenon
    <3> QED BY <3>1, <3>2, Zenon
  <2>3. IsInjective(c)
    BY <1>3, <1>6 DEF IsInjective
  <2> QED BY <1>5, <2>1, <2>2, <2>3 DEF AlwaysSomethingToProbe
<1>9. BlockedOnlyAsLastResort(entries, allowed, c)
  BY <1>1, <1>7, Zenon DEF BlockedOnlyAsLastResort
<1>10. BestFirst(entries, allowed, c)
  <2> DEFINE sc(m) == ComputeScore(entries[m], clock)
  <2>1. ASSUME NEW i \in 1..z, NEW j \in 1..k, i < j
        PROVE  ~Higher(sc(r[j]), sc(r[i]))
    <3>1. <<r[i], r[j]>> \in Rank(entries, clock)
      BY <1>3, <1>6, <2>1 DEF Sorts
    <3> QED BY <3>1, EarlierIsNotLower
  <2>2. ASSUME NEW i \in 1..Len(c) - 1
        PROVE  ~Higher([m \in allowed |-> sc(m)][c[i + 1]], [m \in allowed |-> sc(m)][c[i]])
    <3>1. i \in 1..z /\ i + 1 \in 1..z /\ i < i + 1
      BY <1>5, SMTT(30)
    <3>2. i + 1 \in 1..k
      BY <1>6, <3>1
    <3>3. ~Higher(sc(r[i + 1]), sc(r[i]))
      BY <2>1, <3>1, <3>2, Zenon
    <3>4. c[i] = r[i] /\ c[i + 1] = r[i + 1] /\ c[i] \in allowed /\ c[i + 1] \in allowed
      BY <1>1, <1>6, <3>1
    <3> QED BY <3>3, <3>4, Zenon
  <2>3. ASSUME NEW m \in Open(entries, allowed) \ Range(c)
        PROVE  /\ Len(c) = TopKProbes
               /\ \A i \in 1..Len(c) :
                     ~Higher([x \in allowed |-> sc(x)][m], [x \in allowed |-> sc(x)][c[i]])
    <3>1. PICK j \in 1..k : r[j] = m
      BY <1>1, <1>3, Zenon
    <3>2. j \notin 1..z
      BY <1>6, <2>3, <3>1, SMTT(30) DEF Range
    <3>3. z < j /\ z < k
      BY <1>3, <1>5, <3>1, <3>2, SMTT(30)
    <3>4. Len(c) = TopKProbes
      BY <1>5, <3>3
    <3>5. ASSUME NEW i \in 1..Len(c)
          PROVE  ~Higher([x \in allowed |-> sc(x)][m], [x \in allowed |-> sc(x)][c[i]])
      <4>1. i \in 1..z /\ i < j
        BY <1>3, <1>5, <3>1, <3>3, SMTT(30)
      <4>2. ~Higher(sc(r[j]), sc(r[i]))
        BY <2>1, <3>1, <4>1, Zenon
      <4>3. c[i] = r[i] /\ c[i] \in allowed /\ m \in allowed
        BY <1>1, <1>6, <2>3, <4>1, Zenon
      <4> QED BY <3>1, <4>2, <4>3, Zenon
    <3> QED BY <3>4, <3>5, Zenon
  <2> QED BY <2>2, <2>3, Zenon DEF BestFirst
<1> QED BY <1>8, <1>9, <1>10, Zenon

\* When every allowed method is blocked.
Newer(entries) == {p \in Methods \X Methods :
                     \/ entries[p[2]].blocked_at < entries[p[1]].blocked_at
                     \/ entries[p[1]].blocked_at = entries[p[2]].blocked_at /\ p[2] < p[1]}

LEMMA LeastRecentlyBlockedIs ==
    ASSUME NEW entries \in [Methods -> ScoreEntry], NEW allowed \in SUBSET Methods, allowed # {},
           NEW l, l = LeastRecentlyBlocked(entries, allowed)
    PROVE  l \in allowed /\ \A n \in allowed : entries[l].blocked_at <= entries[n].blocked_at
<1>1. \A m \in Methods : m \in Nat /\ entries[m].blocked_at \in Int
  BY StoreAssumption DEF ScoreEntry, Times, Never
<1>2. \A x, y \in Methods : <<x, y>> \in Newer(entries) <=>
         \/ entries[y].blocked_at < entries[x].blocked_at
         \/ entries[x].blocked_at = entries[y].blocked_at /\ y < x
  BY Zenon DEF Newer
<1>3. IsOrder(Newer(entries), Methods)
  <2>1. \A x \in Methods : <<x, x>> \notin Newer(entries)
    BY <1>1, <1>2
  <2>2. \A x, y \in Methods : x # y => <<x, y>> \in Newer(entries) \/ <<y, x>> \in Newer(entries)
    BY <1>1, <1>2
  <2>3. \A x, y, z \in Methods : <<x, y>> \in Newer(entries) /\ <<y, z>> \in Newer(entries)
                                 => <<x, z>> \in Newer(entries)
    BY <1>1, <1>2
  <2> QED BY <2>1, <2>2, <2>3, Zenon DEF IsOrder
<1>4. IsFiniteSet(allowed)
  <2>1. IsFiniteSet(Methods)
    BY StoreAssumption
  <2> QED BY <2>1, FS_Subset, Zenon
<1>5. PICK x \in allowed : \A y \in allowed \ {x} : <<y, x>> \in Newer(entries)
  BY <1>3, <1>4, LastExists, SMTT(30)
<1> DEFINE oldest(m) == \A n \in allowed :
              \/ entries[m].blocked_at < entries[n].blocked_at
              \/ entries[m].blocked_at = entries[n].blocked_at /\ m <= n
<1>6. oldest(x)
  <2> SUFFICES ASSUME NEW n \in allowed
               PROVE  \/ entries[x].blocked_at < entries[n].blocked_at
                      \/ entries[x].blocked_at = entries[n].blocked_at /\ x <= n
    BY Zenon
  <2>1. CASE n = x
    BY <1>1, <1>5, <2>1
  <2>2. CASE n # x
    <3>1. <<n, x>> \in Newer(entries)
      BY <1>5, <2>2, Zenon
    <3> QED BY <1>1, <1>2, <1>5, <3>1
  <2> QED BY <2>1, <2>2
<1>7. l \in allowed /\ oldest(l)
  BY <1>5, <1>6, Zenon DEF LeastRecentlyBlocked
<1> QED BY <1>1, <1>7

LEMMA BlockedSelection ==
    ASSUME NEW entries \in [Methods -> ScoreEntry], NEW allowed \in SUBSET Methods,
           Open(entries, allowed) = {},
           NEW c, c = SelectProbeCandidates(entries, allowed, clock)
    PROVE  /\ AlwaysSomethingToProbe(allowed, c)
           /\ allowed # {} => BlockedOnlyAsLastResort(entries, allowed, c)
<1>1. TopKProbes \in Nat \ {0}
  BY ScoringAssumption
<1>2. CASE allowed = {}
  <2>1. c = <<>>
    BY <1>2, Zenon DEF SelectProbeCandidates, Open
  <2>2. Len(c) = 0 /\ DOMAIN c = {}
    BY <2>1
  <2>3. Range(c) = {} /\ IsInjective(c)
    BY <2>2 DEF Range, IsInjective
  <2> QED BY <1>1, <1>2, <2>1, <2>2, <2>3 DEF AlwaysSomethingToProbe
<1>3. CASE allowed # {}
  <2>1. PICK l : l = LeastRecentlyBlocked(entries, allowed)
    BY Zenon
  <2>2. c = <<l>>
    BY <1>3, <2>1, Zenon DEF SelectProbeCandidates, Open
  <2>3. Len(c) = 1 /\ DOMAIN c = {1} /\ c[1] = l /\ c # <<>>
    BY <2>2
  <2>4. l \in allowed /\ \A n \in allowed : entries[l].blocked_at <= entries[n].blocked_at
    BY <1>3, <2>1, LeastRecentlyBlockedIs
  <2>5. Range(c) \subseteq allowed /\ IsInjective(c)
    BY <2>3, <2>4, Zenon DEF Range, IsInjective
  <2>6. AlwaysSomethingToProbe(allowed, c)
    BY <1>1, <1>3, <2>3, <2>5 DEF AlwaysSomethingToProbe
  <2>7. BlockedOnlyAsLastResort(entries, allowed, c)
    BY <2>3, <2>4, Zenon DEF BlockedOnlyAsLastResort
  <2> QED BY <2>6, <2>7
<1> QED BY <1>2, <1>3, SMTT(30)

\* Whatever was recorded, by however many calls and whatever died or failed in between, a
\* start probes the best open methods, best first, or else the one method blocked the
\* longest: select_probe_candidates on what get_all_for_fingerprint returns.
THEOREM SelectionIsSoundHolds == StoreSpec => []SelectionIsSound
<1>1. ASSUME StoreInv, NEW f \in Fingerprints, NEW allowed \in SUBSET Methods
      PROVE  LET entries == Lookup(f)
                 c == SelectProbeCandidates(entries, allowed, clock)
             IN  /\ AlwaysSomethingToProbe(allowed, c)
                 /\ allowed # {} => BlockedOnlyAsLastResort(entries, allowed, c)
                 /\ Open(entries, allowed) # {} => BestFirst(entries, allowed, c)
  <2>1. StoreTypeOK /\ clock \in Nat
    BY <1>1 DEF StoreInv, StoreTypeOK
  <2>2. PICK e : e = Lookup(f)
    BY Zenon
  <2>3. e \in [Methods -> ScoreEntry]
    <3>1. \A m \in Methods : e[m] \in ScoreEntry
      BY <2>1, <2>2, LookupIs, ClampedIs
    <3>2. e = [m \in Methods |-> e[m]]
      BY <2>2 DEF Lookup
    <3> QED BY <3>1, <3>2
  <2>4. PICK c : c = SelectProbeCandidates(e, allowed, clock)
    BY Zenon
  <2>5. /\ AlwaysSomethingToProbe(allowed, c)
        /\ allowed # {} => BlockedOnlyAsLastResort(e, allowed, c)
        /\ Open(e, allowed) # {} => BestFirst(e, allowed, c)
    <3>1. CASE Open(e, allowed) # {}
      BY <2>1, <2>3, <2>4, <3>1, OpenSelection, Zenon
    <3>2. CASE Open(e, allowed) = {}
      BY <2>3, <2>4, <3>2, BlockedSelection, Zenon
    <3> QED BY <3>1, <3>2, Zenon
  <2> QED BY <2>2, <2>4, <2>5, Zenon
<1>2. StoreInv => SelectionIsSound
  BY <1>1, Zenon DEF SelectionIsSound
<1> QED BY <1>2, StoreInvariant, PTL
=============================================================================
