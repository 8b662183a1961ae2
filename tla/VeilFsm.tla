------------------------------- MODULE VeilFsm -------------------------------
(***************************************************************************)
(* The reducer driven by every event in every state, in any order, the way *)
(* a host that owns the loop may call it.  The start loop of the           *)
(* coordinator (module Coordinator) only uses the path Idle, Probing,      *)
(* Active or Cooldown; Degraded, Stop and CooldownElapsed exist for such a *)
(* host.                                                                   *)
(*                                                                         *)
(* Besides the state the module keeps what the effects ask of the caller:  *)
(* whether a proxy runs (from ProbeSucceeded to StopActive), and which     *)
(* methods of the probing round were scored.                               *)
(***************************************************************************)
EXTENDS VeilReducer

CONSTANTS
    Reasons,    \* failure reasons that occur (ProbeFailureReason)
    Ports       \* ports of local listeners

VARIABLES
    st,         \* VeilState
    proxy,      \* a proxy is running
    seen,       \* transport failures of the running proxy, not counting cert problems
    round,      \* candidates of the latest Start
    scored,     \* methods scored since then, in order
    gaveUp      \* the round ended with AllProbesFailed

fsmVars == <<st, proxy, seen, round, scored, gaveUp>>

FsmStates ==
    {Idle, Cooldown}
    \cup {Probing(C) : C \in SUBSET Methods \ {{}}}
    \cup {Active(m, p, n) : m \in Methods, p \in Ports, n \in 0..U8Max}
    \cup {Degraded(m, p, n) : m \in Methods, p \in Ports, n \in 0..U8Max}

\* What the variables hold.
FsmTypeOK ==
    /\ st \in FsmStates
    /\ proxy \in BOOLEAN
    /\ seen \in Nat
    /\ round \in SUBSET Methods
    /\ \A i \in DOMAIN scored : scored[i] \in Methods
    /\ gaveUp \in BOOLEAN

FsmInit ==
    /\ st = Idle
    /\ proxy = FALSE
    /\ seen = 0
    /\ round = {}
    /\ scored = <<>>
    /\ gaveUp = FALSE

Has(effects, tag) == \E i \in DOMAIN effects : effects[i].tag = tag

Scores(effects) ==
    LET recs == ScoreEffects(effects)
    IN  [i \in DOMAIN recs |-> recs[i].method]

\* One call of reduce, and what a caller makes of the effects.
Feed(ev) ==
    LET out == Reduce(st, ev)
        begins == st.tag = "Idle" /\ ev.tag = "Start"
    IN
    /\ st' = out.state
    /\ proxy' = ((proxy \/ out.state.tag = "Active") /\ ~Has(out.effects, "StopActive"))
    /\ seen' = IF ~proxy' THEN 0
               ELSE IF ev.tag = "TransportFailure" /\ ev.kind # "TlsCertProblem"
               THEN seen + 1 ELSE seen
    /\ round' = IF begins THEN Range(ev.candidates) ELSE round
    /\ scored' = (IF begins THEN <<>> ELSE scored) \o Scores(out.effects)
    /\ gaveUp' = IF begins THEN FALSE
                 ELSE gaveUp \/ (st.tag = "Probing" /\ ev.tag = "AllProbesFailed")

\* Candidate lists select_probe_candidates can return: distinct methods, or none.
StartLists == UNION {Injection(1..k, Methods) : k \in 0..Cardinality(Methods)}

Start == \E seq \in StartLists : Feed(StartEvent(seq))
Stop == Feed(StopEvent)
ProbeWins == \E m \in Methods, p \in Ports : Feed(ProbeSucceeded(m, p))
ProbeLoses == \E m \in Methods, r \in Reasons : Feed(ProbeFailed(m, r))
GiveUp == Feed(AllProbesFailed)
TransportFails == \E k \in TransportFailureKinds : Feed(TransportFailure(k))
CooldownTimer == \E due \in BOOLEAN : Feed(CooldownElapsed(due))

FsmNext ==
    \/ Start
    \/ Stop
    \/ ProbeWins
    \/ ProbeLoses
    \/ GiveUp
    \/ TransportFails
    \/ CooldownTimer

FsmSpec == FsmInit /\ [][FsmNext]_fsmVars

-----------------------------------------------------------------------------
(* Properties.                                                             *)

\* The proxy runs exactly while the machine is Active or Degraded: every way out
\* of these states emits StopActive, whatever sequence of events led there.
ProxyMatchesState == proxy <=> st.tag \in {"Active", "Degraded"}

\* A transport is given up after at most threshold + 1 failures: a session that
\* is still Active or Degraded has seen no more than the threshold (or one, when
\* the threshold is zero), and the u8 counter never wraps back under it.
BoundedTolerance ==
    st.tag \in {"Active", "Degraded"} =>
        seen <= (IF DegradedThreshold = 0 THEN 1 ELSE DegradedThreshold)

\* Each candidate of a round is scored at most once, a candidate still in the
\* race not at all, and a round that ends because its last candidate failed
\* leaves no candidate unscored.
RoundIsAccounted ==
    /\ \A i, j \in DOMAIN scored : scored[i] = scored[j] => i = j
    /\ st.tag = "Probing" => Range(scored) = round \ st.candidates
    /\ st.tag = "Cooldown" /\ ~gaveUp => Range(scored) = round

=============================================================================
