----------------------------- MODULE VeilReducer -----------------------------
(***************************************************************************)
(* The pure session reducer (src/veil/fsm/reducer.rs and types.rs):        *)
(*      Reduce(state, event) = [state |-> ..., effects |-> <<...>>]        *)
(*                                                                         *)
(* Instants are abstracted: Cooldown forgets `until`, and CooldownElapsed  *)
(* says whether it came in time.  Start carries the result of              *)
(* select_probe_candidates, because that is all the reducer uses of the    *)
(* scores.  `attempts` and `started_at` are written and never read.        *)
(***************************************************************************)
EXTENDS Naturals, Sequences, FiniteSets, Functions, Lists

CONSTANTS
    Methods,            \* obfuscation methods (MethodId)
    U8Max,              \* u8::MAX, 255 in the code
    DegradedThreshold   \* VeilConfig::degraded_threshold

ASSUME ReducerAssumption ==
    /\ U8Max \in Nat
    /\ DegradedThreshold \in 0..U8Max

\* u8::saturating_add(1)
SaturatingInc(n) == IF n < U8Max THEN n + 1 ELSE U8Max

-----------------------------------------------------------------------------
(* States, events and effects.                                             *)

Idle == [tag |-> "Idle"]
Probing(C) == [tag |-> "Probing", candidates |-> C]
Active(m, p, n) == [tag |-> "Active", method |-> m, port |-> p, fails |-> n]
Degraded(m, p, n) == [tag |-> "Degraded", method |-> m, port |-> p, fails |-> n]
Cooldown == [tag |-> "Cooldown"]

StartEvent(seq) == [tag |-> "Start", candidates |-> seq]
ProbeSucceeded(m, p) == [tag |-> "ProbeSucceeded", method |-> m, port |-> p]
ProbeFailed(m, r) == [tag |-> "ProbeFailed", method |-> m, reason |-> r]
TransportFailure(k) == [tag |-> "TransportFailure", kind |-> k]
CooldownElapsed(due) == [tag |-> "CooldownElapsed", due |-> due]
StopEvent == [tag |-> "Stop"]
AllProbesFailed == [tag |-> "AllProbesFailed"]

TransportFailureKinds ==
    {"FingerprintBlocked", "TlsCertProblem", "StreamTimeout", "Unknown"}

StartProbes(seq) == [tag |-> "StartProbes", methods |-> seq]
CancelOtherProbes(m) == [tag |-> "CancelOtherProbes", winner |-> m]
RecordScore(m, o) == [tag |-> "RecordScore", method |-> m, outcome |-> o]
ScheduleCooldown == [tag |-> "ScheduleCooldown"]
StopActive == [tag |-> "StopActive"]

\* The effects that are scores to be written.
ScoreEffects(effects) == Only(effects, {e \in Range(effects) : e.tag = "RecordScore"})

-----------------------------------------------------------------------------
(* One operator per state.                                                 *)

To(st, effects) == [state |-> st, effects |-> effects]

ReduceIdle(st, ev) ==
    IF ev.tag # "Start" THEN To(st, <<>>)
    ELSE IF ev.candidates = <<>> THEN To(Cooldown, <<ScheduleCooldown>>)
    ELSE To(Probing(Range(ev.candidates)), <<StartProbes(ev.candidates)>>)

\* A candidate failed.  The last one is scored like every other one.
\* (Fault: as before 2026-10-22, the last failure is not scored.)
CandidateFailedUnscored(C, ev) ==
    IF C = {ev.method} THEN To(Cooldown, <<ScheduleCooldown>>)
    ELSE To(Probing(C \ {ev.method}), <<RecordScore(ev.method, ev.reason)>>)

CandidateFailed(C, ev) ==
    IF C = {ev.method}
    THEN To(Cooldown, <<RecordScore(ev.method, ev.reason), ScheduleCooldown>>)
    ELSE To(Probing(C \ {ev.method}), <<RecordScore(ev.method, ev.reason)>>)

ReduceProbing(st, ev) ==
    CASE ev.tag = "ProbeSucceeded" /\ ev.method \in st.candidates ->
            To(Active(ev.method, ev.port, 0),
               <<CancelOtherProbes(ev.method), RecordScore(ev.method, "Success")>>)
      [] ev.tag = "ProbeFailed" /\ ev.method \in st.candidates ->
            CandidateFailed(st.candidates, ev)
      [] ev.tag = "AllProbesFailed" -> To(Cooldown, <<ScheduleCooldown>>)
      [] ev.tag = "Stop" -> To(Idle, <<StopActive>>)
      [] OTHER -> To(st, <<>>)

\* A failure of the active transport: a DPI verdict degrades at once, a
\* certificate problem is not the method's fault, anything else is counted.
ActiveFailed(st, kind) ==
    LET n == IF kind = "FingerprintBlocked" THEN U8Max ELSE SaturatingInc(st.fails)
    IN  CASE kind = "TlsCertProblem" -> st
          [] kind # "TlsCertProblem" /\ n >= DegradedThreshold ->
                Degraded(st.method, st.port, n)
          [] OTHER -> Active(st.method, st.port, n)

ReduceActive(st, ev) ==
    CASE ev.tag = "TransportFailure" -> To(ActiveFailed(st, ev.kind), <<>>)
      [] ev.tag = "Stop" -> To(Idle, <<StopActive>>)
      [] OTHER -> To(st, <<>>)

\* (Faults: the degraded session is abandoned without StopActive; the count is
\* compared after the increment with a strict inequality.)
ReduceDegradedLeaky(st, ev) ==
    CASE ev.tag = "TransportFailure" /\ ev.kind # "TlsCertProblem" -> To(Idle, <<>>)
      [] ev.tag = "Stop" -> To(Idle, <<StopActive>>)
      [] OTHER -> To(st, <<>>)

ReduceDegradedLate(st, ev) ==
    CASE ev.tag = "TransportFailure" /\ ev.kind # "TlsCertProblem" ->
            IF st.fails > DegradedThreshold
            THEN To(Idle, <<StopActive>>)
            ELSE To(Degraded(st.method, st.port, SaturatingInc(st.fails)), <<>>)
      [] ev.tag = "Stop" -> To(Idle, <<StopActive>>)
      [] OTHER -> To(st, <<>>)

ReduceDegraded(st, ev) ==
    CASE ev.tag = "TransportFailure" /\ ev.kind # "TlsCertProblem" ->
            IF st.fails >= DegradedThreshold
            THEN To(Idle, <<StopActive>>)
            ELSE To(Degraded(st.method, st.port, SaturatingInc(st.fails)), <<>>)
      [] ev.tag = "Stop" -> To(Idle, <<StopActive>>)
      [] OTHER -> To(st, <<>>)

ReduceCooldown(st, ev) ==
    IF ev.tag = "Stop" \/ (ev.tag = "CooldownElapsed" /\ ev.due)
    THEN To(Idle, <<>>)
    ELSE To(st, <<>>)

Reduce(st, ev) ==
    CASE st.tag = "Idle"     -> ReduceIdle(st, ev)
      [] st.tag = "Probing"  -> ReduceProbing(st, ev)
      [] st.tag = "Active"   -> ReduceActive(st, ev)
      [] st.tag = "Degraded" -> ReduceDegraded(st, ev)
      [] st.tag = "Cooldown" -> ReduceCooldown(st, ev)

=============================================================================
