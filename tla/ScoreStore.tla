----------------------------- MODULE ScoreStore -----------------------------
(***************************************************************************)
(* PersistentScores (src/veil/scoring.rs): the SQLite table of scores, the *)
(* statements a record() issues one after the other, overlapping starts    *)
(* that record at the same time, and a process that dies between two of    *)
(* the statements.                                                         *)
(*                                                                         *)
(* A statement is atomic and durable; any of them may fail, which ends its *)
(* record().  A fingerprint's hash is the fingerprint.  A row that is not  *)
(* in the table is NoEntry.  The clock runs forward here, but the table of *)
(* an earlier process may hold times in the future: the clock was set back *)
(* in between.  Nothing is recorded on such a table, it is only read.      *)
(***************************************************************************)
EXTENDS Scoring

CONSTANTS
    Fingerprints,       \* networks
    Methods,            \* method numbers
    Recorded,           \* the ones record() is called for
    Entries,            \* rows an earlier process may have left
    Recorders,          \* calls of record() that may overlap
    Latencies,          \* latency_ms of a success
    MaxFingerprints,    \* PersistentScores::max_fingerprints
    U8Max,              \* u8::MAX
    MaxTime,            \* bound on the clock
    MaxRecords          \* bound on the calls of record()

\* MethodId is an enum; a block takes no more failures than the column of the entry holds.
ASSUME StoreAssumption ==
    /\ IsFiniteSet(Fingerprints) /\ IsFiniteSet(Methods)
    /\ Methods \subseteq Nat /\ Recorded \subseteq Methods /\ Latencies \subseteq Nat
    /\ {MaxFingerprints, U8Max, MaxTime, MaxRecords} \subseteq Nat
    /\ BlockAfter <= U8Max
    /\ Entries \subseteq ScoreEntry

Outcomes == [ok : {TRUE}, latency : Latencies] \cup [ok : {FALSE}, hard : BOOLEAN]

VARIABLES
    clock,      \* SystemTime::now()
    rows,       \* rows[f][m]: the row of method m on network f
    rec,        \* rec[r]: the record() under way at r
    records,    \* calls of record() so far
    past        \* past[f][m]: failures since the last success of a row, and when the last was hard

storeVars == <<clock, rows, rec, records, past>>

IdleRec == [pc |-> "idle"]
NoPast == [failures |-> 0, hardAt |-> Never]

EmptyTable == [f \in Fingerprints |-> [m \in Methods |-> NoEntry]]

\* An empty table, or what an earlier process recorded of one network.
StoreInit ==
    /\ clock = 0
    /\ rec = [r \in Recorders |-> IdleRec]
    /\ \/ rows = EmptyTable /\ records = 0
       \/ /\ \E f \in Fingerprints, t \in [Methods -> Entries] :
                rows = [EmptyTable EXCEPT ![f] = t]
          /\ records = MaxRecords
    /\ past = [f \in Fingerprints |-> [m \in Methods |->
                 [failures |-> rows[f][m].consecutive_failures,
                  hardAt   |-> rows[f][m].blocked_at]]]

CoarseNow == (clock \div Hour) * Hour

Known(f) == {m \in Methods : rows[f][m] # NoEntry}
Stored == {f \in Fingerprints : Known(f) # {}}

\* get_all_for_fingerprint: the column is unbounded, the entry's field a u8.
\* (Fault: `as u8` wraps.)
LookupWrapping(f) ==
    [m \in Methods |-> [rows[f][m] EXCEPT !.consecutive_failures = @ % (U8Max + 1)]]

AsU8(n) == IF n > U8Max THEN U8Max ELSE n
Lookup(f) == [m \in Methods |-> [rows[f][m] EXCEPT !.consecutive_failures = AsU8(@)]]

Ewma(current, latency) ==
    IF current = 0 THEN latency ELSE (7 * current + 3 * latency + 5) \div 10

Goto(r, step) == rec' = [rec EXCEPT ![r].pc = step]

\* Whoever overlaps another record() at any time does not run alone.
Overlapped(q) == IF rec[q].pc = "idle" THEN rec[q] ELSE [rec[q] EXCEPT !.alone = FALSE]

\* record() is called; a failure takes its time stamp at once.
Record(r, f, m, o) ==
    /\ rec[r].pc = "idle"
    /\ records < MaxRecords
    /\ records' = records + 1
    /\ LET call == [pc |-> IF o.ok THEN "read" ELSE "upsert", f |-> f, m |-> m, outcome |-> o,
                    median |-> 0, stamp |-> CoarseNow, time |-> clock, over |-> 0,
                    alone |-> \A q \in Recorders : rec[q].pc = "idle"]
       IN  rec' = [q \in Recorders |-> IF q = r THEN call ELSE Overlapped(q)]
    /\ UNCHANGED <<clock, rows, past>>

\* A success reads the latency of its row and takes its time stamp.
ReadLatency(r) ==
    /\ rec[r].pc = "read"
    /\ rec' = [rec EXCEPT ![r].pc = "upsert", ![r].stamp = CoarseNow, ![r].time = clock,
                 ![r].median = Ewma(rows[rec[r].f][rec[r].m].median_latency_ms,
                                    rec[r].outcome.latency)]
    /\ UNCHANGED <<clock, rows, records, past>>

\* What a success and a failure make of a row.
Succeeded(e, stamp, median) ==
    [successes |-> e.successes + 1, failures |-> e.failures, last_success_at |-> stamp,
     last_failure_at |-> e.last_failure_at, median_latency_ms |-> median,
     blocked_at |-> Never, consecutive_failures |-> 0]
Failed(e, stamp, blocked) ==
    [successes |-> e.successes, failures |-> e.failures + 1,
     last_success_at |-> e.last_success_at, last_failure_at |-> stamp,
     median_latency_ms |-> e.median_latency_ms,
     blocked_at |-> blocked, consecutive_failures |-> e.consecutive_failures + 1]

\* INSERT ... ON CONFLICT DO UPDATE of a success.
UpsertSuccess(r) ==
    /\ rec[r].pc = "upsert" /\ rec[r].outcome.ok
    /\ rows' = [rows EXCEPT ![rec[r].f][rec[r].m] =
                  Succeeded(@, rec[r].stamp, rec[r].median)]
    /\ past' = [past EXCEPT ![rec[r].f][rec[r].m] = NoPast]
    /\ Goto(r, "count")
    /\ UNCHANGED <<clock, records>>

\* The same of a failure; a hard block also sets blocked_at.
UpsertFailure(r) ==
    /\ rec[r].pc = "upsert" /\ ~rec[r].outcome.ok
    /\ rows' = [rows EXCEPT ![rec[r].f][rec[r].m] =
                  Failed(@, rec[r].stamp,
                         IF rec[r].outcome.hard THEN rec[r].stamp ELSE @.blocked_at)]
    /\ past' = [past EXCEPT ![rec[r].f][rec[r].m] =
                  [failures |-> @.failures + 1,
                   hardAt |-> IF rec[r].outcome.hard THEN rec[r].time ELSE @.hardAt]]
    /\ Goto(r, "count")
    /\ UNCHANGED <<clock, records>>

\* prune counts the fingerprints.
Count(r) ==
    /\ rec[r].pc = "count"
    /\ IF Cardinality(Stored) <= MaxFingerprints
       THEN rec' = [rec EXCEPT ![r] = IdleRec]
       ELSE rec' = [rec EXCEPT ![r].pc = "delete",
                               ![r].over = Cardinality(Stored) - MaxFingerprints]
    /\ UNCHANGED <<clock, rows, records, past>>

Age(e) == IF e.last_success_at > e.last_failure_at THEN e.last_success_at
          ELSE e.last_failure_at

\* What the DELETE may remove.  MAX of two arguments is a scalar function in SQLite:
\* it takes its columns from an arbitrary row of the GROUP BY, not the newest.
Prunable(n) ==
    {D \in SUBSET Stored :
        /\ Cardinality(D) = (IF n < Cardinality(Stored) THEN n ELSE Cardinality(Stored))
        /\ \E row \in [Stored -> Methods] :
              /\ \A f \in Stored : row[f] \in Known(f)
              /\ \A d \in D, k \in Stored \ D :
                    Age(rows[d][row[d]]) <= Age(rows[k][row[k]])}

\* (Fault: one fingerprint too few.)
DeleteOldestLess(r) ==
    /\ rec[r].pc = "delete"
    /\ \E D \in Prunable(rec[r].over - 1) :
          /\ rows' = [f \in Fingerprints |-> IF f \in D THEN [m \in Methods |-> NoEntry]
                                             ELSE rows[f]]
          /\ past' = [f \in Fingerprints |-> IF f \in D THEN [m \in Methods |-> NoPast]
                                             ELSE past[f]]
    /\ rec' = [rec EXCEPT ![r] = IdleRec]
    /\ UNCHANGED <<clock, records>>

DeleteOldest(r) ==
    /\ rec[r].pc = "delete"
    /\ \E D \in Prunable(rec[r].over) :
          /\ rows' = [f \in Fingerprints |-> IF f \in D THEN [m \in Methods |-> NoEntry]
                                             ELSE rows[f]]
          /\ past' = [f \in Fingerprints |-> IF f \in D THEN [m \in Methods |-> NoPast]
                                             ELSE past[f]]
    /\ rec' = [rec EXCEPT ![r] = IdleRec]
    /\ UNCHANGED <<clock, records>>

\* A statement fails (locked, disk full): the rest of record() is skipped.
StatementFails(r) ==
    /\ rec[r].pc # "idle"
    /\ rec' = [rec EXCEPT ![r] = IdleRec]
    /\ UNCHANGED <<clock, rows, records, past>>

\* The process dies and opens the store again; an unusable file is recreated.
Reopen ==
    /\ rec' = [r \in Recorders |-> IdleRec]
    /\ \/ UNCHANGED <<rows, past>>
       \/ /\ rows' = EmptyTable
          /\ past' = [f \in Fingerprints |-> [m \in Methods |-> NoPast]]
    /\ UNCHANGED <<clock, records>>

Tick ==
    /\ clock < MaxTime
    /\ clock' = clock + 1
    /\ UNCHANGED <<rows, rec, records, past>>

RecordStep(r) ==
    \/ \E f \in Fingerprints, m \in Recorded, o \in Outcomes : Record(r, f, m, o)
    \/ ReadLatency(r)
    \/ UpsertSuccess(r)
    \/ UpsertFailure(r)
    \/ Count(r)
    \/ DeleteOldest(r)
    \/ StatementFails(r)

StoreNext ==
    \/ \E r \in Recorders : RecordStep(r)
    \/ Reopen
    \/ Tick

StoreSpec == StoreInit /\ [][StoreNext]_storeVars

-----------------------------------------------------------------------------
(* Properties.                                                             *)

\* A method is blocked exactly when it failed BlockAfter times in a row, once of them as
\* FingerprintBlocked within the TTL: a block is earned by failures since the last success
\* (record, get_all_for_fingerprint's clamp and blocked_for together), and rounding
\* to the hour ends it at most an hour early.
BlockFollowsHistory ==
    \A f \in Fingerprints, m \in Methods :
        LET p == past[f][m]
            blocked == BlockedFor(Lookup(f)[m], clock)
        IN  /\ blocked => /\ p.failures >= BlockAfter
                          /\ p.hardAt # Never /\ clock - p.hardAt <= BlockTtl
            /\ /\ p.failures >= BlockAfter
               /\ p.hardAt # Never /\ clock >= p.hardAt
               /\ clock - p.hardAt <= BlockTtl - Hour
               => blocked

\* Recording a failure never raises the score its method has at that time, however late the
\* statement runs, unless another record() overlaps: one with a later time stamp may
\* have run in between, and the older stamp would put last_failure_at back.
FailureNeverHelps ==
    [][\A r \in Recorders :
          rec[r].pc = "upsert" /\ rec[r].alone /\ UpsertFailure(r)
          => LET f == rec[r].f  m == rec[r].m IN
             ~Higher(ComputeScore(Lookup(f)'[m], clock), ComputeScore(Lookup(f)[m], clock))
      ]_storeVars

\* A record() that ran alone and to its end leaves at most max_fingerprints networks,
\* whatever earlier ones left behind when they failed or the process died.
PruneCatchesUp ==
    [][\A r \in Recorders :
          rec[r].pc # "idle" /\ rec[r].alone /\ (Count(r) \/ DeleteOldest(r))
          => rec'[r].pc = "delete" \/ Cardinality(Stored') <= MaxFingerprints
      ]_storeVars

-----------------------------------------------------------------------------
(* What a selection is, without its algorithm: the entries of a network,   *)
(* the methods the policy allows, the candidates that were chosen.         *)

Open(entries, allowed) == {m \in allowed : ~BlockedFor(entries[m], clock)}

\* There is something to probe unless the policy allows nothing, never more than
\* top_k_probes, and no method twice.
AlwaysSomethingToProbe(allowed, c) ==
    /\ Range(c) \subseteq allowed
    /\ (c = <<>>) <=> (allowed = {})
    /\ Len(c) <= TopKProbes
    /\ IsInjective(c)

\* Blocked methods are candidates only when every allowed one is blocked; then there is one,
\* and no method has been blocked longer.
BlockedOnlyAsLastResort(entries, allowed, c) ==
    IF Open(entries, allowed) # {} THEN Range(c) \subseteq Open(entries, allowed)
    ELSE /\ Len(c) = 1
         /\ \A m \in allowed : entries[c[1]].blocked_at <= entries[m].blocked_at

\* The candidates are the best of the open methods, best first: a method left out for
\* another has no higher score than it, and there is no free place.
BestFirst(entries, allowed, c) ==
    LET score == [m \in allowed |-> ComputeScore(entries[m], clock)]
    IN  /\ \A i \in 1..Len(c) - 1 : ~Higher(score[c[i + 1]], score[c[i]])
        /\ \A m \in Open(entries, allowed) \ Range(c) :
              /\ Len(c) = TopKProbes
              /\ \A i \in 1..Len(c) : ~Higher(score[m], score[c[i]])

\* A start at any moment, on any network and under any policy, probes the best open methods,
\* best first, or else the one method blocked the longest (select_probe_candidates on
\* what the store returns): history orders the probes and never leaves none.  Stated
\* when no record() is under way: Reopen can follow every step and keeps the rows.
SelectionIsSound ==
    (\A r \in Recorders : rec[r].pc = "idle") =>
    \A f \in Fingerprints, allowed \in SUBSET Methods :
        LET entries == Lookup(f)
            c == SelectProbeCandidates(entries, allowed, clock)
        IN  /\ AlwaysSomethingToProbe(allowed, c)
            /\ allowed # {} => BlockedOnlyAsLastResort(entries, allowed, c)
            /\ Open(entries, allowed) # {} => BestFirst(entries, allowed, c)

=============================================================================
