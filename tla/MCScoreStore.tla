---------------------------- MODULE MCScoreStore ----------------------------
(* Rows and symmetry for ScoreStore: see MCScoreStore.cfg.                 *)
EXTENDS ScoreStore, TLC

MCSymmetry == Permutations(Recorders) \cup Permutations(Fingerprints)

\* Histories on both sides of every threshold of the formula and of a block: s earlier
\* successes, the last failure at l, c failures since a success, the last hard one at b.
MCEntries ==
    {NoEntry, [NoEntry EXCEPT !.successes = 3, !.last_success_at = 0, !.median_latency_ms = 2500]}
    \cup
    {[NoEntry EXCEPT !.successes = s, !.failures = IF s = 0 THEN c ELSE 3,
                     !.last_success_at = IF s = 0 THEN Never ELSE 0,
                     !.median_latency_ms = IF s = 0 THEN 0 ELSE 2500,
                     !.last_failure_at = t[1], !.consecutive_failures = c, !.blocked_at = t[2]] :
        s \in {0, 3}, c \in {1, 2}, t \in {u \in {0, 3} \X {Never, 0, 3} : u[2] <= u[1]}}
=============================================================================
