----------------------------- MODULE Coordinator -----------------------------
(***************************************************************************)
(* The client's control plane: a start call from the host, through the     *)
(* probe race of src/veil/coordinator.rs, to the session it installs in    *)
(* the slot (module SessionSlot); stops from the host at any time; and the *)
(* FFI around them (src/ffi.rs, src/veil/diag.rs).                         *)
(*                                                                         *)
(* A start call is its number.  With Ffi the calls are veil_start: one at  *)
(* a time under the START mutex, each stopping the previous session first. *)
(* Without it they are start_session_with_params on a shared coordinator,  *)
(* which may overlap.                                                      *)
(*                                                                         *)
(* Left out: logging; latencies; a panic of the calling thread (ffi_guard);*)
(* the failed write of a score, which changes nothing here because every   *)
(* caller that can reach one ignores it; and the branch for a candidate    *)
(* without an obfuscator, which the restriction of the allowed set makes   *)
(* unreachable.                                                            *)
(***************************************************************************)
EXTENDS SessionSlot, VeilReducer

CONSTANTS
    Starts,         \* start calls, numbered 1, 2, ...; a start binds the port of its number
    Registered,     \* methods with an obfuscator in this build
    TopK,           \* VeilConfig::top_k_probes
    Errors,         \* obfuscator errors that occur
    Ffi             \* the host calls veil_start / veil_stop

\* "" stands for no method.
ASSUME MethodsAssumption == "" \notin Methods /\ Ffi \in BOOLEAN

VARIABLES
    call,       \* call[a]: the local state of start call a
    probe,      \* probe[a][m]: the probe task of method m spawned by a
    token,      \* token[a][m]: its CancellationToken is cancelled
    coord,      \* COORDINATOR has been set
    diag,       \* LAST_ERROR: what it says, and which call or whose probe recorded it
    latest      \* history: the veil_start that took START last

raceVars == <<probe, token>>
ffiVars == <<coord, diag, latest>>
vars == <<call, raceVars, ffiVars, slotVars>>

\* classify_obfuscator_error
Classify(e) ==
    CASE e = "FingerprintBlocked" -> "FingerprintBlocked"
      [] e = "CertProblem" -> "TlsCertProblem"
      [] e = "Timeout" -> "Timeout"
      [] e = "Unknown" -> "Unknown"
      [] OTHER -> "ConnectionFailed"  \* Cancelled, ConnectionRefused, Handshake, Tls, Io

\* Where a start call is; "out" is before the call, "returned" after it.
CallStates == {"out", "entered", "create", "select", "single", "collect", "cancel", "bind",
               "fetch", "install", "settle", "returned"}

\* diag::clear and diag::record.  A text is "generic" (the coordinator's error) or the
\* method that a probe error names.
NoError == [text |-> "", by |-> None]
Error(text, a) == [text |-> text, by |-> a]

\* How a call ended.
Outcomes == {"", "Ok", "BadRequest", "ScoresOpen", "NoMethods", "Io",
             "AllProbesFailed", "Stopped", "unreachable!"}

\* A probe task waits its stagger, starts, and runs once it dials.  It ends with its
\* outcome, or "cancelled" (its token fired after it had started), "skipped" (the token
\* was cancelled before) or "died" (it panicked: no result).
ProbeOutcomes == {"Success", "FingerprintBlocked", "TlsCertProblem",
                  "ConnectionFailed", "Timeout", "Unknown"}
ProbeStates == {"none", "stagger", "starting", "running", "cancelled", "skipped", "died"}
                  \cup ProbeOutcomes

Init ==
    /\ SlotInit
    /\ call = [a \in Starts |-> [pc |-> "out", fsm |-> Idle, chan |-> <<>>,
                                 failures |-> <<>>, winner |-> "", recorded |-> <<>>,
                                 sid |-> None, result |-> ""]]
    /\ probe = [a \in Starts |-> [m \in Methods |-> "none"]]
    /\ token = [a \in Starts |-> [m \in Methods |-> FALSE]]
    /\ coord = ~Ffi
    /\ diag = NoError
    /\ latest = None

Goto(a, new) == call' = [call EXCEPT ![a] = new]

\* The call returns.  veil_start records the coordinator's error only when no
\* more specific one was recorded.
Return(a, new, res) ==
    /\ Goto(a, [new EXCEPT !.pc = "returned", !.result = res])
    /\ diag' = IF Ffi /\ res # "Ok" /\ diag.text = "" THEN Error("generic", a) ELSE diag

-----------------------------------------------------------------------------
(* veil_start, up to the coordinator.                                      *)

InProgress(a) == call[a].pc \notin {"out", "returned"}

\* The START mutex is taken and the last error cleared; a request that cannot be
\* read ends the call.
\* (Fault: the last error is not cleared.)
EnterKeepingError(a) ==
    /\ Ffi
    /\ call[a].pc = "out"
    /\ \A b \in Starts : ~InProgress(b)
    /\ latest' = a
    /\ Goto(a, [call[a] EXCEPT !.pc = "entered"])
    /\ UNCHANGED <<raceVars, coord, diag, slotVars>>

Enter(a) ==
    /\ Ffi
    /\ call[a].pc = "out"
    /\ \A b \in Starts : ~InProgress(b)
    /\ latest' = a
    /\ \/ /\ Goto(a, [call[a] EXCEPT !.pc = "entered"])
          /\ diag' = NoError
       \/ /\ Goto(a, [call[a] EXCEPT !.pc = "returned", !.result = "BadRequest"])
          /\ diag' = Error("generic", a)
    /\ UNCHANGED <<raceVars, coord, slotVars>>

\* Stop any existing session first.
StopExisting(a) ==
    /\ call[a].pc = "entered"
    /\ IF slot # None THEN StopSession ELSE UNCHANGED slotVars
    /\ Goto(a, [call[a] EXCEPT !.pc = "create"])
    /\ UNCHANGED <<raceVars, ffiVars>>

\* Build or reuse the coordinator; the first call opens the scores store, and
\* fails when it cannot.
CreateCoordinator(a) ==
    /\ call[a].pc = "create"
    /\ \/ /\ coord' = TRUE
          /\ Goto(a, [call[a] EXCEPT !.pc = "select"])
          /\ UNCHANGED diag
       \/ /\ ~coord
          /\ Return(a, call[a], "ScoresOpen")
          /\ UNCHANGED coord
    /\ UNCHANGED <<raceVars, latest, slotVars>>

-----------------------------------------------------------------------------
(* start_session_with_params.                                              *)

\* Lists select_probe_candidates can return for an allowed set, over all scores:
\* at most TopK distinct allowed methods, and at least one.
CandidateLists(allowed) == UNION {Injection(1..k, allowed) : k \in 1..TopK}

\* execute_effect(StartProbes): one candidate is probed in place, several by a
\* task each.
ExecuteStartProbes(a, seq, st) ==
    IF Len(seq) = 1
    THEN /\ Goto(a, [call[a] EXCEPT !.pc = "single", !.fsm = st])
         /\ UNCHANGED probe
    ELSE /\ Goto(a, [call[a] EXCEPT !.pc = "collect", !.fsm = st])
         /\ probe' = [probe EXCEPT ![a] =
                        [m \in Methods |-> IF m \in Range(seq) THEN "stagger" ELSE "none"]]

\* Restrict the allowed set to the registered methods, pick the candidates, feed
\* Start, and execute its effect.
Select(a) ==
    /\ IF Ffi THEN call[a].pc = "select" ELSE call[a].pc = "out"
    /\ \E hostAllows \in SUBSET Methods :
          LET allowed == hostAllows \cap Registered IN
          \/ /\ allowed = {}
             /\ Return(a, call[a], "NoMethods")
             /\ UNCHANGED probe
          \/ \E seq \in CandidateLists(allowed) :
                /\ ExecuteStartProbes(a, seq, Reduce(Idle, StartEvent(seq)).state)
                /\ UNCHANGED diag
    /\ UNCHANGED <<token, coord, latest, slotVars>>

\* The calls of PersistentScores::record that a list of effects causes.
ScoresIn(effects) ==
    LET recs == ScoreEffects(effects)
    IN  [i \in DOMAIN recs |-> <<recs[i].method, recs[i].outcome>>]

\* handle_probe_success, as far as the reducer and the scores
ProbeSuccess(c, m, port) ==
    LET out == Reduce(c.fsm, ProbeSucceeded(m, port))
    IN  [c EXCEPT !.fsm = out.state, !.recorded = @ \o ScoresIn(out.effects)]

\* handle_probe_failure
ProbeFailure(c, f) ==
    LET out == Reduce(c.fsm, ProbeFailed(f[1], f[2]))
    IN  [c EXCEPT !.fsm = out.state, !.recorded = @ \o ScoresIn(out.effects)]

\* handle_all_probes_failed
AllFailed(c) ==
    IF c.fsm.tag = "Probing" THEN [c EXCEPT !.fsm = Reduce(c.fsm, AllProbesFailed).state]
    ELSE c

\* What the start loop returns for the state the probes left.
ResultOf(fsm) ==
    CASE fsm.tag = "Active" -> "Ok"
      [] fsm.tag = "Cooldown" -> "AllProbesFailed"
      [] fsm.tag = "Idle" -> "Stopped"
      [] OTHER -> "unreachable!"

\* How execute_probe_with_params can fail, within probe_timeout.
ProbeReasons == {Classify(e) : e \in Errors \cup {"Timeout"}}

\* The one probe of run_sequential_probes.
SingleProbe(a) ==
    /\ call[a].pc = "single"
    /\ \E m \in call[a].fsm.candidates :
          \/ /\ Goto(a, [call[a] EXCEPT !.pc = "bind", !.winner = m])
             /\ UNCHANGED diag
          \/ \E reason \in ProbeReasons :
                LET c == AllFailed(ProbeFailure(call[a], <<m, reason>>))
                IN  Return(a, c, ResultOf(c.fsm))
    /\ UNCHANGED <<raceVars, coord, latest, slotVars>>

-----------------------------------------------------------------------------
(* run_parallel_probes: the probe tasks.                                   *)

\* A result reaches the collector only while it is listening.
Send(a, m, outcome) ==
    call' = IF call[a].pc = "collect"
            THEN [call EXCEPT ![a].chan = Append(@, <<m, outcome>>)]
            ELSE call

\* The stagger is over: a probe that was cancelled meanwhile returns at once.
ProbeWakes(a, m) ==
    /\ probe[a][m] = "stagger"
    /\ probe' = [probe EXCEPT ![a][m] = IF token[a][m] THEN "skipped" ELSE "starting"]
    /\ UNCHANGED <<call, token, ffiVars, slotVars>>

\* start() returned and the handle is polled for the first time: the probe dials.  The
\* token is not read again; the select! of the adapter polls its branches in any order,
\* so a probe whose token was cancelled since may dial too.
ProbeDials(a, m) ==
    /\ probe[a][m] = "starting"
    /\ probe' = [probe EXCEPT ![a][m] = "running"]
    /\ UNCHANGED <<call, token, ffiVars, slotVars>>

\* The first byte arrived.
ProbeSucceeds(a, m) ==
    /\ probe[a][m] = "running"
    /\ probe' = [probe EXCEPT ![a][m] = "Success"]
    /\ Send(a, m, "Success")
    /\ UNCHANGED <<token, ffiVars, slotVars>>

\* start() or first_byte returned an error.
ProbeErrs(a, m) ==
    /\ probe[a][m] \in {"starting", "running"}
    /\ \E e \in Errors :
          /\ probe' = [probe EXCEPT ![a][m] = Classify(e)]
          /\ Send(a, m, Classify(e))
    /\ diag' = Error(m, a)
    /\ UNCHANGED <<token, coord, latest, slotVars>>

\* probe_timeout elapsed: the task cancels its own token.
ProbeTimesOut(a, m) ==
    /\ probe[a][m] = "running"
    /\ probe' = [probe EXCEPT ![a][m] = "Timeout"]
    /\ token' = [token EXCEPT ![a][m] = TRUE]
    /\ Send(a, m, "Timeout")
    /\ diag' = Error(m, a)
    /\ UNCHANGED <<coord, latest, slotVars>>

\* The token fired after the check: an error like any other.
ProbeCancelled(a, m) ==
    /\ probe[a][m] \in {"starting", "running"}
    /\ token[a][m]
    /\ probe' = [probe EXCEPT ![a][m] = "cancelled"]
    /\ Send(a, m, Classify("Cancelled"))
    /\ diag' = Error(m, a)
    /\ UNCHANGED <<token, coord, latest, slotVars>>

\* The task panicked: tokio drops it, and its sender with it.
ProbeDies(a, m) ==
    /\ probe[a][m] \in {"starting", "running"}
    /\ probe' = [probe EXCEPT ![a][m] = "died"]
    /\ UNCHANGED <<call, token, ffiVars, slotVars>>

ProbeTask(a, m) ==
    \/ ProbeWakes(a, m)
    \/ ProbeDials(a, m)
    \/ ProbeSucceeds(a, m)
    \/ ProbeErrs(a, m)
    \/ ProbeTimesOut(a, m)
    \/ ProbeCancelled(a, m)
    \/ ProbeDies(a, m)

-----------------------------------------------------------------------------
(* run_parallel_probes: the collector.                                     *)

\* rx.recv() returned a result: a failure is remembered, a success decides.
Collect(a) ==
    /\ call[a].pc = "collect"
    /\ call[a].chan # <<>>
    /\ LET res == Head(call[a].chan)
           c == [call[a] EXCEPT !.chan = Tail(@)]
       IN  IF res[2] = "Success"
           THEN Goto(a, [c EXCEPT !.pc = "cancel", !.winner = res[1]])
           ELSE Goto(a, [c EXCEPT !.failures = Append(@, res)])
    /\ UNCHANGED <<raceVars, ffiVars, slotVars>>

\* The tokens that the loop over cancel_tokens has not come to, or that nobody cancelled.
\* (Fault: a probe has no token until it starts.)
UncancelledStarted(a) ==
    {m \in Methods : probe[a][m] \notin {"none", "stagger"} /\ ~token[a][m]}

Uncancelled(a) == {m \in Methods : probe[a][m] # "none" /\ ~token[a][m]}

\* The winner and the losers are cancelled, one token after the other and in any order,
\* while the probe tasks go on.
CancelNext(a) ==
    /\ call[a].pc = "cancel"
    /\ \E m \in Uncancelled(a) : token' = [token EXCEPT ![a][m] = TRUE]
    /\ UNCHANGED <<call, probe, ffiVars, slotVars>>

CancelsDone(a) ==
    /\ call[a].pc = "cancel"
    /\ Uncancelled(a) = {}
    /\ Goto(a, [call[a] EXCEPT !.pc = "bind"])
    /\ UNCHANGED <<raceVars, ffiVars, slotVars>>

\* Feed and score the failures in the order they came, then give the round up.
FeedFailures(c) ==
    LET fails == c.failures
        Failed(st, f) == Reduce(st, ProbeFailed(f[1], f[2]))
        fsm[i \in 0..Len(fails)] ==
            IF i = 0 THEN c.fsm ELSE Failed(fsm[i - 1], fails[i]).state
        recorded[i \in 0..Len(fails)] ==
            IF i = 0 THEN c.recorded
            ELSE recorded[i - 1] \o ScoresIn(Failed(fsm[i - 1], fails[i]).effects)
    IN  AllFailed([c EXCEPT !.fsm = fsm[Len(fails)], !.recorded = recorded[Len(fails)]])

\* The same loop when no task is left to see it: in one step.
CancelAll(a) ==
    token' = [token EXCEPT ![a] = [m \in Methods |-> probe[a][m] # "none"]]

\* Every sender is gone and no probe succeeded.
\* (Fault: the collector's own sender is not dropped, and the channel stays open.)
RaceLostNever(a) ==
    /\ call[a].pc = "collect"
    /\ FALSE
    /\ UNCHANGED vars

RaceLost(a) ==
    /\ call[a].pc = "collect"
    /\ call[a].chan = <<>>
    /\ \A m \in Methods : probe[a][m] \notin {"stagger", "starting", "running"}
    /\ CancelAll(a)
    /\ LET c == FeedFailures(call[a])
       IN  Return(a, [call[a] EXCEPT !.fsm = c.fsm, !.recorded = c.recorded], ResultOf(c.fsm))
    /\ UNCHANGED <<probe, coord, latest, slotVars>>

\* There is a winner: bind the proxy's listener, feed ProbeSucceeded, score the
\* winner and the failures received before it.  Without a listener nothing is
\* fed or scored.
\* (Faults: the scores are written before the listener is bound; the losers that
\* the race cancelled are scored too.)
BindAfterScoring(a) ==
    /\ call[a].pc = "bind"
    /\ LET c == [ProbeSuccess(call[a], call[a].winner, a) EXCEPT
                    !.recorded = @ \o call[a].failures]
       IN  \/ Goto(a, [c EXCEPT !.pc = "fetch"]) /\ UNCHANGED diag
           \/ Return(a, c, "Io")
    /\ UNCHANGED <<raceVars, coord, latest, slotVars>>

BindScoringLosers(a) ==
    /\ call[a].pc = "bind"
    /\ LET losers == {m \in Methods : probe[a][m] \in {"starting", "running", "cancelled"}}
           order == CHOOSE seq \in Bijection(1..Cardinality(losers), losers) : TRUE
           cancels == [i \in DOMAIN order |-> <<order[i], Classify("Cancelled")>>]
       IN  Goto(a, [ProbeSuccess(call[a], call[a].winner, a) EXCEPT
                       !.pc = "fetch", !.recorded = @ \o call[a].failures \o cancels])
    /\ UNCHANGED <<raceVars, ffiVars, slotVars>>

Bind(a) ==
    /\ call[a].pc = "bind"
    /\ \/ /\ Goto(a, [ProbeSuccess(call[a], call[a].winner, a) EXCEPT
                         !.pc = "fetch", !.recorded = @ \o call[a].failures])
          /\ UNCHANGED diag
       \/ Return(a, call[a], "Io")
    /\ UNCHANGED <<raceVars, coord, latest, slotVars>>

FetchSessionId(a) ==
    /\ call[a].pc = "fetch"
    /\ FetchId
    /\ Goto(a, [call[a] EXCEPT !.pc = "install", !.sid = nextId + 1])
    /\ UNCHANGED <<raceVars, ffiVars>>

InstallSession(a) ==
    /\ call[a].pc = "install"
    /\ Install(call[a].sid)
    /\ Goto(a, [call[a] EXCEPT !.pc = "settle"])
    /\ UNCHANGED <<raceVars, ffiVars>>

\* The 50 ms wait is over; the port is returned whether or not the session is
\* still there.
Settle(a) ==
    /\ call[a].pc = "settle"
    /\ Return(a, call[a], ResultOf(call[a].fsm))
    /\ UNCHANGED <<raceVars, coord, latest, slotVars>>

-----------------------------------------------------------------------------
\* veil_stop / stop() from any thread, START mutex or not.  With an empty slot it
\* reports failure and changes nothing.
HostStop ==
    /\ StopSession
    /\ UNCHANGED <<call, raceVars, ffiVars>>

Tasks ==
    /\ Background
    /\ UNCHANGED <<call, raceVars, ffiVars>>

\* The steps of a call that has begun.
CallStep(a) ==
    \/ StopExisting(a)
    \/ CreateCoordinator(a)
    \/ Ffi /\ Select(a)
    \/ SingleProbe(a)
    \/ Collect(a)
    \/ CancelNext(a)
    \/ CancelsDone(a)
    \/ RaceLost(a)
    \/ Bind(a)
    \/ FetchSessionId(a)
    \/ InstallSession(a)
    \/ Settle(a)

Next ==
    \/ \E a \in Starts : Enter(a) \/ Select(a) \/ CallStep(a)
    \/ \E a \in Starts, m \in Methods : ProbeTask(a, m)
    \/ HostStop
    \/ Tasks

\* The host need not call anything.  A call that has begun, and a probe task,
\* which is bounded by probe_timeout, make progress.
Spec ==
    /\ Init /\ [][Next]_vars
    /\ \A a \in Starts : WF_vars(CallStep(a))
    /\ \A a \in Starts, m \in Methods : WF_vars(ProbeTask(a, m))
    /\ SlotFairness

-----------------------------------------------------------------------------
(* Properties.                                                             *)

FsmLocalStates ==
    {Idle, Cooldown} \cup {Probing(C) : C \in SUBSET Methods \ {{}}}
                     \cup {Active(m, a, 0) : m \in Methods, a \in Starts}

TypeOK ==
    /\ SlotTypeOK
    /\ \A a \in Starts :
          /\ DOMAIN call[a] = {"pc", "fsm", "chan", "failures", "winner", "recorded",
                               "sid", "result"}
          /\ call[a].pc \in CallStates
          /\ call[a].fsm \in FsmLocalStates
          /\ \A list \in {call[a].chan, call[a].failures, call[a].recorded} :
                \A i \in DOMAIN list : list[i] \in Methods \X ProbeOutcomes
          /\ call[a].winner \in Methods \cup {""}
          /\ call[a].sid \in Sessions \cup {None}
          /\ call[a].result \in Outcomes
    /\ probe \in [Starts -> [Methods -> ProbeStates]]
    /\ token \in [Starts -> [Methods -> BOOLEAN]]
    /\ coord \in BOOLEAN
    /\ diag \in [text : {"", "generic"} \cup Methods, by : Starts \cup {None}]
    /\ latest \in Starts \cup {None}

\* What a start writes to the scores is what its probes reported before the race
\* was decided: one record per method, and never the "cancelled" of a loser,
\* which the error classification would turn into a connection failure.
ScoresAreHonest ==
    \A a \in Starts : LET rec == call[a].recorded IN
        /\ \A i, j \in DOMAIN rec : rec[i][1] = rec[j][1] => i = j
        /\ \A i \in DOMAIN rec : probe[a][rec[i][1]] \in {rec[i][2], "none"}

\* A start whose probes all failed has scored each of them that reported, and
\* none as a success.
FailedStartIsScored ==
    \A a \in Starts : call[a].result = "AllProbesFailed" =>
        LET rec == call[a].recorded IN
        /\ rec # <<>> \/ \E m \in Methods : probe[a][m] = "died"
        /\ \A i \in DOMAIN rec : rec[i][2] # "Success"
        /\ \A m \in Methods : probe[a][m] \notin {"none", "died"} =>
              \E i \in DOMAIN rec : rec[i][1] = m

\* The history says what the probes saw, of a start that wins and of one that fails.
\* (start_session_with_params and its RecordScore effects.)
ScoresFollowProbes == ScoresAreHonest /\ FailedStartIsScored

\* A start scores a success and owns a session if and only if it returns Ok, and
\* the port it returns is the one of the listener it bound: one step of several
\* failing leaves nothing behind.
StartIsAllOrNothing ==
    \A a \in Starts : call[a].pc = "returned" =>
        LET success == \E i \in DOMAIN call[a].recorded : call[a].recorded[i][2] = "Success"
        IN  /\ (call[a].result = "Ok") = success
            /\ (call[a].result = "Ok") = (call[a].sid # None)
            /\ call[a].result = "Ok" => call[a].fsm = Active(call[a].winner, a, 0)

\* The race of a is over, its losers cancelled included, or was never run.
Decided(a) == call[a].pc \notin {"collect", "cancel"}

\* "The first probe to succeed wins; all others are cancelled": once a start goes on from
\* its race every probe it spawned has been cancelled, and a loser still in its stagger
\* delay never starts.  A loser that had read its token before the loop came to it may
\* dial all the same; it ends as "cancelled", or with a result nobody receives.
\* (run_parallel_probes.)
LosersAreCancelled ==
    [][\A a \in Starts, m \in Methods :
          Decided(a) /\ probe[a][m] # "none" =>
              /\ token[a][m]
              /\ probe[a][m] = "stagger" => probe'[a][m] \notin {"starting", "running"}]_vars

\* Through the FFI a session is never replaced while it serves: the START mutex
\* and the stop at the head of veil_start leave the slot empty for the new one.
FfiInstallsIntoEmptySlot ==
    Ffi => \A a \in Starts : call[a].pc \in {"create", "select", "single", "collect", "cancel",
                                             "bind", "fetch", "install"} => slot = None

\* A veil_start replaces the session whole: it finds the slot empty and leaves all of the new
\* session or nothing of it.  (veil_start, start_session_with_params, install_session.)
StartReplacesWhole == StartIsAllOrNothing /\ FfiInstallsIntoEmptySlot

\* One transport is registered, as veil_start does it: a start never runs a race.
OneTransport == \A m, n \in Registered : m = n

\* Until the next veil_start begins, the last error explains the failure of the latest one:
\* there is a reason, and it is this call's, not a stale one (veil_start, diag::clear).
\* With several transports a cancelled loser of an earlier race may still overwrite it.
FailureIsExplained ==
    Ffi => \A a \in Starts :
        latest = a /\ call[a].pc = "returned" /\ call[a].result # "Ok" =>
            /\ diag.text # ""
            /\ OneTransport => diag.by = a

\* A start call that has begun returns, with a port or with an error.
EveryStartReturns ==
    \A a \in Starts : InProgress(a) ~> call[a].pc = "returned"

=============================================================================
