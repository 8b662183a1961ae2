------------------------------- MODULE Scoring -------------------------------
(***************************************************************************)
(* Scores of obfuscation methods (src/veil/fsm/scoring.rs and the cached   *)
(* lookup of src/veil/scoring.rs), as operators: what a stored entry is    *)
(* worth at a time, whether it blocks its method, and the candidates a     *)
(* start probes.                                                           *)
(*                                                                         *)
(* A method is its number, which is also the order of iter_allowed().      *)
(* Times are in units of FiveMinutes and Hour; scores, floats in the code, *)
(* are exact fractions.                                                    *)
(***************************************************************************)
EXTENDS Integers, FiniteSets, Functions, Lists

CONSTANTS
    Hour,           \* 3600 s
    FiveMinutes,    \* 300 s
    BlockTtl,       \* VeilConfig::block_ttl
    BlockAfter,     \* consecutive failures that make a block permanent: 5
    TopKProbes      \* VeilConfig::top_k_probes

ASSUME ScoringAssumption ==
    /\ {FiveMinutes, Hour, BlockTtl, BlockAfter, TopKProbes} \subseteq Nat \ {0}
    /\ FiveMinutes < Hour

Never == -1         \* None, of an Option<SystemTime>
Times == Nat \cup {Never}
ScoreEntry == [successes : Nat, failures : Nat, last_success_at : Times,
               last_failure_at : Times, median_latency_ms : Nat,
               blocked_at : Times, consecutive_failures : Nat]
NoEntry == [successes |-> 0, failures |-> 0, last_success_at |-> Never,
            last_failure_at |-> Never, median_latency_ms |-> 0,
            blocked_at |-> Never, consecutive_failures |-> 0]

\* CachedScoreLookup::blocked_for.  A block of the future counts as expired.
BlockedFor(e, now) ==
    /\ e.blocked_at # Never
    /\ now >= e.blocked_at /\ now - e.blocked_at <= BlockTtl
    /\ e.consecutive_failures >= BlockAfter

\* The share, in units of 1 / (Hour - FiveMinutes), of the penalty of a failure
\* that is `elapsed` old: all of it for five minutes, then less until it is an hour old.
Decay(elapsed) ==
    IF elapsed < 0 \/ elapsed > Hour THEN 0
    ELSE IF elapsed <= FiveMinutes THEN Hour - FiveMinutes
    ELSE Hour - elapsed

\* compute_recent_failure_penalty, times (Hour - FiveMinutes).
RecentFailurePenalty(e, now) ==
    IF e.last_failure_at = Never THEN 0
    ELSE 20 * e.consecutive_failures * Decay(now - e.last_failure_at)

\* min(20, (median - 1000) / 100), times 100.
LatencyPenalty(e) ==
    IF e.median_latency_ms <= 1000 THEN 0
    ELSE IF e.median_latency_ms > 3000 THEN 2000 ELSE e.median_latency_ms - 1000

RecencyBonus(e, now) ==
    IF e.last_success_at # Never /\ now >= e.last_success_at
                                 /\ now - e.last_success_at < Hour
    THEN 5 ELSE 0

\* 100 times the share of successes, less the penalties, plus the bonus: as numerator and
\* denominator.  (Fault: the penalty is added.)
WeighFlipped(successes, total, span, recent, latency, bonus) ==
    [num |-> 10000 * successes * span + 100 * total * recent
             - total * span * latency + 100 * total * span * bonus,
     den |-> 100 * total * span]

Weigh(successes, total, span, recent, latency, bonus) ==
    [num |-> 10000 * successes * span - 100 * total * recent
             - total * span * latency + 100 * total * span * bonus,
     den |-> 100 * total * span]

NoHistoryScore == [num |-> 50, den |-> 1]

\* compute_score
ComputeScore(e, now) ==
    IF e.successes + e.failures = 0 THEN NoHistoryScore
    ELSE Weigh(e.successes, e.successes + e.failures, Hour - FiveMinutes,
               RecentFailurePenalty(e, now), LatencyPenalty(e), RecencyBonus(e, now))

Higher(s, t) == s.num * t.den > t.num * s.den

\* m comes before n in the stable sort by descending score.
RanksBefore(entries, now, m, n) ==
    LET s == ComputeScore(entries[m], now)
        t == ComputeScore(entries[n], now)
    IN  Higher(s, t) \/ (~Higher(t, s) /\ m < n)

\* The stable sort of some methods: each place in the order has one method.
Ranked(entries, methods, now) ==
    LET places == 1..Cardinality(methods)
    IN  CHOOSE c \in [places -> methods] :
            \A i, j \in places : i < j => RanksBefore(entries, now, c[i], c[j])

TopK(c) == [i \in 1..(IF TopKProbes < Len(c) THEN TopKProbes ELSE Len(c)) |-> c[i]]

\* The first of the methods blocked the longest; Never is not a time here, since
\* a blocked method has a blocked_at.
LeastRecentlyBlocked(entries, allowed) ==
    CHOOSE m \in allowed : \A n \in allowed :
        \/ entries[m].blocked_at < entries[n].blocked_at
        \/ entries[m].blocked_at = entries[n].blocked_at /\ m <= n

\* select_probe_candidates
\* (Fault: blocked methods are only skipped after the cut to top-k.)
SelectProbeCandidatesLate(entries, allowed, now) ==
    LET open == Only(TopK(Ranked(entries, allowed, now)),
                     {m \in allowed : ~BlockedFor(entries[m], now)})
    IN  IF open # <<>> \/ allowed = {} THEN open
        ELSE <<LeastRecentlyBlocked(entries, allowed)>>

SelectProbeCandidates(entries, allowed, now) ==
    LET open == {m \in allowed : ~BlockedFor(entries[m], now)}
    IN  IF open # {} THEN TopK(Ranked(entries, open, now))
        ELSE IF allowed = {} THEN <<>>
        ELSE <<LeastRecentlyBlocked(entries, allowed)>>
=============================================================================
