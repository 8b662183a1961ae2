---------------------------- MODULE MCWarnLimiter ----------------------------
(* Model values for WarnLimiter: see MCWarnLimiter.cfg.                     *)
EXTENDS WarnLimiter, TLC

MCSymmetry == Permutations(Callers)
=============================================================================
