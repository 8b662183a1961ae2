----------------------------- MODULE WarnLimiter -----------------------------
(***************************************************************************)
(* WarnLimiter::admit (crates/construct-veil-relay/src/gate.rs): the       *)
(* lock-free limiter of the invalid-AUTH warning, called by every          *)
(* connection task whose AUTH frame is well formed and does not verify.    *)
(*                                                                         *)
(* Each atomic operation is a step.  They are Relaxed: a load may return   *)
(* any value `last` has held, a read-modify-write acts on the newest one.  *)
(* now_unix() is the wall clock, which may be set to any value at any time.*)
(***************************************************************************)
EXTENDS Integers, FiniteSets

CONSTANTS
    Callers,          \* connection tasks
    Every,          \* INVALID_AUTH_WARN_EVERY, in ticks
    MaxTime,        \* bound on the clock
    MaxFrames       \* bound on the frames that fail validation

ASSUME WarnAssumption ==
    /\ IsFiniteSet(Callers)
    /\ Every \in Nat \ {0}
    /\ MaxTime \in Nat
    /\ MaxFrames \in Nat

Times == 0..MaxTime

VARIABLES
    clock,          \* now_unix()
    last,           \* WarnLimiter::last
    suppressed,     \* WarnLimiter::suppressed
    held,           \* every value `last` has had
    at,             \* at[c]: the step of admit() the task of c is at
    now,            \* now[c]: its argument now_secs
    seen,           \* seen[c]: the value it loaded
    frames,         \* calls of admit() so far
    lines,          \* warnings logged
    told            \* sum of the `suppressed` fields logged

limiter == <<last, suppressed, held>>
logged == <<lines, told>>
warnVars == <<clock, limiter, at, now, seen, frames, logged>>

Steps == {"out", "load", "exchange", "suppress", "swap"}

WarnInit ==
    /\ clock \in Times
    /\ last = 0 /\ suppressed = 0 /\ held = {0}
    /\ at = [c \in Callers |-> "out"]
    /\ now = [c \in Callers |-> 0]
    /\ seen = [c \in Callers |-> 0]
    /\ frames = 0 /\ lines = 0 /\ told = 0

\* saturating_sub
Since(t, u) == IF t > u THEN t - u ELSE 0
NonZero(t) == IF t > 1 THEN t ELSE 1

SetClock ==
    /\ clock' \in Times \ {clock}
    /\ UNCHANGED <<limiter, at, now, seen, frames, logged>>

\* try_decode_auth: a well-formed AUTH frame fails validation.
InvalidFrame(c) ==
    /\ at[c] = "out"
    /\ frames < MaxFrames
    /\ frames' = frames + 1
    /\ now' = [now EXCEPT ![c] = clock]
    /\ at' = [at EXCEPT ![c] = "load"]
    /\ UNCHANGED <<clock, limiter, seen, logged>>

\* Whether the window that began at v is over at time t.
MayWarn(v, t) == v = 0 \/ Since(t, v) >= Every

Load(c) ==
    /\ at[c] = "load"
    /\ \E v \in held :
          /\ seen' = [seen EXCEPT ![c] = v]
          /\ at' = [at EXCEPT ![c] = IF MayWarn(v, now[c]) THEN "exchange" ELSE "suppress"]
    /\ UNCHANGED <<clock, limiter, now, frames, logged>>

\* (Fault: a plain store in place of the compare-exchange.)
ExchangeBlind(c) ==
    /\ at[c] = "exchange"
    /\ last' = NonZero(now[c])
    /\ held' = held \cup {last'}
    /\ at' = [at EXCEPT ![c] = "swap"]
    /\ UNCHANGED <<clock, suppressed, now, seen, frames, logged>>

Exchange(c) ==
    /\ at[c] = "exchange"
    /\ IF last = seen[c]
       THEN /\ last' = NonZero(now[c])
            /\ held' = held \cup {last'}
            /\ at' = [at EXCEPT ![c] = "swap"]
       ELSE /\ at' = [at EXCEPT ![c] = "suppress"]
            /\ UNCHANGED <<last, held>>
    /\ UNCHANGED <<clock, suppressed, now, seen, frames, logged>>

\* fetch_add, then None: the frame gets a debug line only.
Suppress(c) ==
    /\ at[c] = "suppress"
    /\ suppressed' = suppressed + 1
    /\ at' = [at EXCEPT ![c] = "out"]
    /\ UNCHANGED <<clock, last, held, now, seen, frames, logged>>

\* (Fault: the counter is read and reset to one, for the frame being logged.)
TakeCountOne(c) ==
    /\ at[c] = "swap"
    /\ suppressed' = 1
    /\ lines' = lines + 1
    /\ told' = told + suppressed
    /\ at' = [at EXCEPT ![c] = "out"]
    /\ UNCHANGED <<clock, last, held, now, seen, frames>>

TakeCount(c) ==
    /\ at[c] = "swap"
    /\ suppressed' = 0
    /\ lines' = lines + 1
    /\ told' = told + suppressed
    /\ at' = [at EXCEPT ![c] = "out"]
    /\ UNCHANGED <<clock, last, held, now, seen, frames>>

WarnNext ==
    \/ SetClock
    \/ \E c \in Callers : InvalidFrame(c) \/ Load(c) \/ Exchange(c) \/ Suppress(c) \/ TakeCount(c)

WarnSpec == WarnInit /\ [][WarnNext]_warnVars

-----------------------------------------------------------------------------
(* Properties.                                                             *)

WarnTypeOK ==
    /\ clock \in Times
    /\ last \in Nat /\ suppressed \in Nat /\ frames \in Nat /\ lines \in Nat /\ told \in Nat
    /\ held \in SUBSET Nat
    /\ at \in [Callers -> Steps]
    /\ now \in [Callers -> Nat]
    /\ seen \in [Callers -> Nat]

Inside == {c \in Callers : at[c] # "out"}

\* Every invalid frame is a warning line, is counted in the `suppressed` field of
\* one, waits in the counter for the next one, or is still inside admit(): none is
\* forgotten or told twice, whatever the interleaving of load, exchange and swap.
NoFrameIsForgotten == frames = lines + told + suppressed + Cardinality(Inside)

\* "One line a minute": the slot moves from one warning to the next only when a whole
\* window lies between their times, also when several tasks loaded the same value
\* and when the clock is set back.
WarningsAreSpaced ==
    [][last' # last => last = 0 \/ last' >= last + Every]_warnVars
=============================================================================
