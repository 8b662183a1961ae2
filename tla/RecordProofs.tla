---------------------------- MODULE RecordProofs ----------------------------
(***************************************************************************)
(* What a start records, and what it leaves behind, for any number of      *)
(* starts, methods and failures.  The invariant says, for each place a     *)
(* call may be in, what its record holds of its probes.                    *)
(***************************************************************************)
EXTENDS CoordinatorProofs

\* The methods of a list of results are distinct, and each is what its probe task ended with
\* (a single candidate is probed in place, without a task).
Honest(list, p) ==
    /\ \A i, j \in DOMAIN list : list[i][1] = list[j][1] => i = j
    /\ \A i \in DOMAIN list : p[list[i][1]] \in {list[i][2], "none"}

\* Nothing has come of the call yet.
Blank(c) == c.recorded = <<>> /\ c.sid = None /\ c.result = ""

Fresh(c, p, t) ==
    /\ Blank(c) /\ c.fsm = Idle /\ c.chan = <<>> /\ c.failures = <<>>
    /\ \A m \in Methods : p[m] = "none" /\ ~t[m]

InPlace(c, p) ==
    /\ Blank(c) /\ c.failures = <<>>
    /\ \E C \in SUBSET Methods : c.fsm = Probing(C)
    /\ \A m \in Methods : p[m] = "none"

\* While the results of a race come in: what was taken from the channel and what is still in
\* it are the results of the probe tasks that ended, one each; no task was cancelled.
Racing(c, p, t) ==
    /\ Blank(c)
    /\ c.failures \in Seq(Failures) /\ c.chan \in Seq(Reports)
    /\ c.fsm = Probing({m \in Methods : p[m] # "none"})
    /\ \E m \in Methods : p[m] # "none"
    /\ LET results == c.failures \o c.chan IN
          /\ Honest(results, p)
          /\ \A i \in DOMAIN results : p[results[i][1]] = results[i][2]
          /\ \A m \in Methods : p[m] \in ProbeOutcomes =>
                \E i \in DOMAIN results : results[i][1] = m
    /\ \A m \in Methods : p[m] \in {"stagger", "starting", "running"} => ~t[m]
    /\ \A m \in Methods : p[m] \notin {"cancelled", "skipped"}

\* What the winner and the failures before it come to.
Scored(c) == <<<<c.winner, "Success">>>> \o c.failures

\* The race is decided.
Won(c, p) ==
    /\ Blank(c) /\ c.winner \in Methods /\ c.failures \in Seq(Failures)
    /\ \E C \in SUBSET Methods : c.fsm = Probing(C) /\ c.winner \in C
    /\ Honest(Scored(c), p)

\* The winner's listener is bound.
Served(a, c, p) ==
    /\ c.winner \in Methods /\ c.failures \in Seq(Failures)
    /\ c.recorded = Scored(c) /\ Honest(c.recorded, p)
    /\ c.fsm = Active(c.winner, a, 0) /\ c.result = ""
    /\ c.pc # "fetch" => c.sid # None

\* The call has returned.
Done(a, c, p) ==
    /\ c.recorded \in Seq(Reports) /\ Honest(c.recorded, p)
    /\ c.result = "Ok" <=> \E i \in DOMAIN c.recorded : c.recorded[i][2] = "Success"
    /\ c.result = "Ok" <=> c.sid # None
    /\ c.result = "Ok" => c.fsm = Active(c.winner, a, 0)
    /\ c.result = "AllProbesFailed" =>
          /\ c.recorded # <<>> \/ \E m \in Methods : p[m] = "died"
          /\ \A m \in Methods : p[m] \notin {"none", "died"} =>
                \E i \in DOMAIN c.recorded : c.recorded[i][1] = m
          /\ \A m \in Methods : p[m] \notin {"stagger", "starting", "running"}

CallSound(a, c, p, t) ==
    \/ c.pc \in {"out", "entered", "create", "select"} /\ Fresh(c, p, t)
    \/ c.pc = "single" /\ InPlace(c, p)
    \/ c.pc = "collect" /\ Racing(c, p, t)
    \/ c.pc \in {"cancel", "bind"} /\ Won(c, p)
    \/ c.pc \in {"fetch", "install", "settle"} /\ Served(a, c, p)
    \/ c.pc = "returned" /\ Done(a, c, p)

RecordsInv == \A a \in Starts : CallSound(a, call[a], probe[a], token[a])

-----------------------------------------------------------------------------
(* The steps that begin and end a call.                                    *)

\* A call, field by field.
Fields(d, pc, fsm, chan, failures, winner, recorded, sid, result) ==
    /\ IsCall(d) /\ d.pc = pc /\ d.fsm = fsm /\ d.chan = chan /\ d.failures = failures
    /\ d.winner = winner /\ d.recorded = recorded /\ d.sid = sid /\ d.result = result

\* The updates of a call that the steps make.
LEMMA PcFields ==
    ASSUME NEW c, IsCall(c), NEW x
    PROVE  Fields([c EXCEPT !.pc = x],
                  x, c.fsm, c.chan, c.failures, c.winner, c.recorded, c.sid, c.result)
BY DEF Fields, IsCall, CallFields

LEMMA ReturnedFields ==
    ASSUME NEW c, IsCall(c), NEW x
    PROVE  Fields(Returned(c, x),
                  "returned", c.fsm, c.chan, c.failures, c.winner, c.recorded, c.sid, x)
BY Zenon DEF Fields, IsCall, CallFields, Returned

LEMMA FsmFields ==
    ASSUME NEW c, IsCall(c), NEW x, NEW y
    PROVE  Fields([c EXCEPT !.pc = x, !.fsm = y],
                  x, y, c.chan, c.failures, c.winner, c.recorded, c.sid, c.result)
BY Zenon DEF Fields, IsCall, CallFields

LEMMA WinnerFields ==
    ASSUME NEW c, IsCall(c), NEW x, NEW y
    PROVE  Fields([c EXCEPT !.pc = x, !.winner = y],
                  x, c.fsm, c.chan, c.failures, y, c.recorded, c.sid, c.result)
BY Zenon DEF Fields, IsCall, CallFields

LEMMA SidFields ==
    ASSUME NEW c, IsCall(c), NEW x, NEW y
    PROVE  Fields([c EXCEPT !.pc = x, !.sid = y],
                  x, c.fsm, c.chan, c.failures, c.winner, c.recorded, y, c.result)
BY Zenon DEF Fields, IsCall, CallFields

LEMMA ScoredFields ==
    ASSUME NEW c, IsCall(c), NEW x, NEW y
    PROVE  Fields([c EXCEPT !.fsm = x, !.recorded = y],
                  c.pc, x, c.chan, c.failures, c.winner, y, c.sid, c.result)
BY Zenon DEF Fields, IsCall, CallFields

\* What the invariant says of a call, by where it is.
LEMMA SoundHere ==
    ASSUME RecordsInv, NEW a \in Starts
    PROVE  LET c == call[a] IN
           /\ c.pc \in {"out", "entered", "create", "select"} => Fresh(c, probe[a], token[a])
           /\ c.pc = "single" => InPlace(c, probe[a])
           /\ c.pc = "collect" => Racing(c, probe[a], token[a])
           /\ c.pc \in {"cancel", "bind"} => Won(c, probe[a])
           /\ c.pc \in {"fetch", "install", "settle"} => Served(a, c, probe[a])
           /\ c.pc = "returned" => Done(a, c, probe[a])
BY DEF RecordsInv, CallSound

\* A step of one call, which leaves the probes of the others alone.
LEMMA RecordsStep ==
    ASSUME CallShape, RecordsInv, NEW a \in Starts, NEW new, IsCall(new), Goto(a, new),
           \A b \in Starts : b # a => probe'[b] = probe[b] /\ token'[b] = token[b],
           CallSound(a, new, probe'[a], token'[a])
    PROVE  RecordsInv'
<1>1. call'[a] = new /\ \A b \in Starts : b # a => call'[b] = call[b]
  BY GotoEffect, Zenon
<1>2. ASSUME NEW b \in Starts PROVE CallSound(b, call'[b], probe'[b], token'[b])
  <2>1. CASE b = a
    BY <1>1, <2>1
  <2>2. CASE b # a
    BY <1>1, <2>2 DEF RecordsInv
  <2> QED BY <2>1, <2>2
<1> QED BY <1>2 DEF RecordsInv

\* A call that returns early has recorded nothing and owns nothing.
LEMMA BlankReturns ==
    ASSUME CallShape, RecordsInv, NEW a \in Starts, Blank(call[a]),
           NEW res, res \notin {"Ok", "AllProbesFailed"},
           Goto(a, Returned(call[a], res)), UNCHANGED raceVars
    PROVE  RecordsInv'
<1>1. IsCall(call[a])
  BY Zenon DEF CallShape
<1>2. PICK new : new = Returned(call[a], res)
  BY Zenon
<1>3. IsCall(new) /\ new.pc = "returned" /\ new.recorded = <<>> /\ new.sid = None /\ new.result = res
  <2>1. /\ IsCall(new) /\ new.pc = "returned" /\ new.recorded = call[a].recorded
        /\ new.sid = call[a].sid /\ new.result = res
    BY <1>1, <1>2, ReturnedFields DEF Fields
  <2> QED BY <2>1, Zenon DEF Blank
<1>4. Done(a, new, probe'[a])
  BY <1>3 DEF Done, Honest
<1>5. CallSound(a, new, probe'[a], token'[a])
  BY <1>3, <1>4, Zenon DEF CallSound
<1>6. Goto(a, new)
  BY <1>2
<1>7. \A b \in Starts : b # a => probe'[b] = probe[b] /\ token'[b] = token[b]
  BY Zenon DEF raceVars
<1> QED BY <1>3, <1>5, <1>6, <1>7, RecordsStep

\* A call that moves on before its race.
LEMMA FreshMoves ==
    ASSUME CallShape, RecordsInv, NEW a \in Starts, Fresh(call[a], probe[a], token[a]),
           NEW x \in {"entered", "create", "select"},
           Goto(a, [call[a] EXCEPT !.pc = x]), UNCHANGED raceVars
    PROVE  RecordsInv'
<1>1. IsCall(call[a])
  BY Zenon DEF CallShape
<1>2. PICK new : new = [call[a] EXCEPT !.pc = x]
  OBVIOUS
<1>3. /\ IsCall(new) /\ new.pc = x /\ new.fsm = call[a].fsm /\ new.chan = call[a].chan
      /\ new.failures = call[a].failures
      /\ new.recorded = call[a].recorded /\ new.sid = call[a].sid /\ new.result = call[a].result
  BY <1>1, <1>2, PcFields DEF Fields
<1>4. Fresh(new, probe'[a], token'[a])
  BY <1>3, Zenon DEF Fresh, Blank, raceVars
<1>5. CallSound(a, new, probe'[a], token'[a])
  BY <1>3, <1>4 DEF CallSound
<1>6. Goto(a, new)
  BY <1>2, Zenon
<1>7. \A b \in Starts : b # a => probe'[b] = probe[b] /\ token'[b] = token[b]
  BY DEF raceVars
<1> QED BY <1>3, <1>5, <1>6, <1>7, RecordsStep

LEMMA RecEnter == ASSUME CallShape, RecordsInv, NEW a \in Starts, Enter(a) PROVE RecordsInv'
<1>1. Fresh(call[a], probe[a], token[a]) /\ UNCHANGED raceVars
  BY SoundHere, Zenon DEF Enter
<1>2. CASE Goto(a, [call[a] EXCEPT !.pc = "entered"])
  BY <1>1, <1>2, FreshMoves, Zenon
<1>3. CASE Goto(a, [call[a] EXCEPT !.pc = "returned", !.result = "BadRequest"])
  <2>1. Goto(a, Returned(call[a], "BadRequest"))
    BY <1>3 DEF Returned
  <2>2. Blank(call[a])
    BY <1>1, Zenon DEF Fresh
  <2> QED BY <1>1, <2>1, <2>2, BlankReturns, SMTT(30)
<1> QED BY <1>2, <1>3, Zenon DEF Enter

LEMMA RecStopExisting ==
    ASSUME CallShape, RecordsInv, NEW a \in Starts, StopExisting(a) PROVE RecordsInv'
<1>1. Fresh(call[a], probe[a], token[a]) /\ UNCHANGED raceVars
  BY SoundHere DEF StopExisting
<1> QED BY <1>1, FreshMoves, Zenon DEF StopExisting

LEMMA RecCreate ==
    ASSUME CallShape, RecordsInv, NEW a \in Starts, CreateCoordinator(a) PROVE RecordsInv'
<1>1. Fresh(call[a], probe[a], token[a]) /\ UNCHANGED raceVars
  BY SoundHere DEF CreateCoordinator
<1>2. CASE Goto(a, [call[a] EXCEPT !.pc = "select"])
  BY <1>1, <1>2, FreshMoves, Zenon
<1>3. CASE Return(a, call[a], "ScoresOpen")
  <2>1. Goto(a, Returned(call[a], "ScoresOpen"))
    BY <1>3, Zenon DEF Return, Returned
  <2>2. Blank(call[a])
    BY <1>1, Zenon DEF Fresh
  <2> QED BY <1>1, <2>1, <2>2, BlankReturns
<1> QED BY <1>2, <1>3 DEF CreateCoordinator

-----------------------------------------------------------------------------
(* The steps of the race.                                                  *)

\* Candidates that were selected are probed: there is one at least.
LEMMA StartOut ==
    ASSUME NEW allowed, NEW seq \in CandidateLists(allowed)
    PROVE  /\ Reduce(Idle, StartEvent(seq)).state = Probing(Range(seq))
           /\ Range(seq) \subseteq allowed /\ Range(seq) # {}
<1>1. PICK k \in 1..TopK : seq \in [1..k -> allowed]
  BY DEF CandidateLists, Injection
<1>2. 1 \in DOMAIN seq /\ DOMAIN seq = 1..k
  BY <1>1
<1>3. seq # <<>>
  <2>1. 1 \notin DOMAIN <<>>
    OBVIOUS
  <2> QED BY <1>2, <2>1, Zenon
<1>4. Range(seq) \subseteq allowed /\ Range(seq) # {}
  BY <1>1, <1>2, Zenon DEF Range
<1>5. PICK ev : ev = StartEvent(seq) /\ ev.tag = "Start" /\ ev.candidates = seq
  <2>1. StartEvent(seq).tag = "Start" /\ StartEvent(seq).candidates = seq
    BY Zenon DEF StartEvent
  <2> QED BY <2>1, Zenon
<1>6. Reduce(Idle, ev) = ReduceIdle(Idle, ev)
  BY Zenon DEF Reduce, Idle
<1>7. ReduceIdle(Idle, ev) = To(Probing(Range(seq)), <<StartProbes(seq)>>)
  BY <1>3, <1>5, Zenon DEF ReduceIdle
<1> QED BY <1>4, <1>5, <1>6, <1>7 DEF To

LEMMA RecSelect ==
    ASSUME CallsInv, RecordsInv, NEW a \in Starts, Select(a) PROVE RecordsInv'
<1>1. /\ Fresh(call[a], probe[a], token[a]) /\ UNCHANGED token
      /\ IsCall(call[a]) /\ CallShape /\ RaceShape
  BY SoundHere DEF Select, CallsInv, CallShape
<1>2. Blank(call[a])
  BY <1>1, Zenon DEF Fresh
<1>3. CASE Return(a, call[a], "NoMethods") /\ UNCHANGED probe
  <2>1. Goto(a, Returned(call[a], "NoMethods")) /\ UNCHANGED raceVars
    BY <1>1, <1>3, Zenon DEF Return, Returned, raceVars
  <2> QED BY <1>1, <1>2, <2>1, BlankReturns
<1>4. ASSUME NEW allowed \in SUBSET Methods, NEW seq \in CandidateLists(allowed),
             ExecuteStartProbes(a, seq, Reduce(Idle, StartEvent(seq)).state)
      PROVE  RecordsInv'
  <2>1. PICK C \in SUBSET Methods : /\ C = Range(seq) /\ C # {}
                                    /\ Reduce(Idle, StartEvent(seq)).state = Probing(C)
    BY StartOut
  <2>2. CASE Len(seq) = 1
    <3>1. PICK new : new = [call[a] EXCEPT !.pc = "single", !.fsm = Probing(C)]
      OBVIOUS
    <3>2. Goto(a, new) /\ UNCHANGED probe
      BY <1>4, <2>1, <2>2, <3>1, Zenon DEF ExecuteStartProbes
    <3>3. /\ IsCall(new) /\ new.pc = "single" /\ new.fsm = Probing(C)
          /\ new.failures = call[a].failures /\ new.recorded = call[a].recorded
          /\ new.sid = call[a].sid /\ new.result = call[a].result
      <4>1. PICK x : x = Probing(C)
        OBVIOUS
      <4>2. Fields(new, "single", x, call[a].chan, call[a].failures, call[a].winner,
                   call[a].recorded, call[a].sid, call[a].result)
        BY <1>1, <3>1, <4>1, FsmFields, Zenon
      <4> QED BY <4>1, <4>2 DEF Fields
    <3>4. InPlace(new, probe'[a])
      BY <1>1, <2>1, <3>2, <3>3, Zenon DEF Fresh, Blank, InPlace
    <3>5. CallSound(a, new, probe'[a], token'[a])
      BY <3>3, <3>4 DEF CallSound
    <3> QED BY <1>1, <3>2, <3>3, <3>5, RecordsStep, Zenon
  <2>3. CASE Len(seq) # 1
    <3>1. PICK new : new = [call[a] EXCEPT !.pc = "collect", !.fsm = Probing(C)]
      BY Zenon
    <3>2. PICK row : row = [m \in Methods |-> IF m \in C THEN "stagger" ELSE "none"]
      BY Zenon
    <3>3. Goto(a, new) /\ probe' = [probe EXCEPT ![a] = row]
      BY <1>4, <2>1, <2>3, <3>1, <3>2, Zenon DEF ExecuteStartProbes
    <3>4. /\ IsCall(new) /\ new.pc = "collect" /\ new.fsm = Probing(C)
          /\ new.chan = call[a].chan
          /\ new.failures = call[a].failures /\ new.recorded = call[a].recorded
          /\ new.sid = call[a].sid /\ new.result = call[a].result
      <4>1. PICK x : x = Probing(C)
        BY Zenon
      <4>2. Fields(new, "collect", x, call[a].chan, call[a].failures, call[a].winner,
                   call[a].recorded, call[a].sid, call[a].result)
        BY <1>1, <3>1, <4>1, FsmFields, Zenon
      <4> QED BY <4>1, <4>2 DEF Fields
    <3>5. probe'[a] = row /\ \A b \in Starts : b # a => probe'[b] = probe[b]
      BY <1>1, <3>3 DEF RaceShape
    <3>6. \A m \in Methods : row[m] = IF m \in C THEN "stagger" ELSE "none"
      BY <3>2
    <3>7. {m \in Methods : row[m] # "none"} = C
      BY <2>1, <3>6
    <3>8. /\ Blank(new) /\ new.failures = <<>> /\ new.chan = <<>>
          /\ \A m \in Methods : ~token[a][m]
      BY <1>1, <3>4, Zenon DEF Fresh, Blank
    <3>9. <<>> \o <<>> = <<>> /\ <<>> \in Seq(Failures) /\ <<>> \in Seq(Reports)
      OBVIOUS
    <3>10. Honest(<<>>, row) /\ DOMAIN <<>> = {}
      BY DEF Honest
    <3>11. Racing(new, row, token[a])
      <4>1. \E m \in Methods : row[m] # "none"
        BY <2>1, <3>7
      <4>2. \A m \in Methods : row[m] \notin ProbeOutcomes /\ row[m] \notin {"cancelled", "skipped"}
        BY <3>6 DEF ProbeOutcomes
      <4> QED BY <3>4, <3>7, <3>8, <3>9, <3>10, <4>1, <4>2, Zenon DEF Racing
    <3>12. CallSound(a, new, probe'[a], token'[a])
      BY <1>1, <3>4, <3>5, <3>11, Zenon DEF CallSound
    <3> QED BY <1>1, <3>3, <3>4, <3>5, <3>12, RecordsStep, Zenon
  <2> QED BY <2>2, <2>3, Zenon
<1>5. ASSUME NEW h \in SUBSET Methods PROVE h \cap Registered \in SUBSET Methods
  OBVIOUS
<1> QED BY <1>3, <1>4, <1>5, Zenon DEF Select

\* What a probe that fails in place comes to.
LEMMA SingleFails ==
    ASSUME NEW c, IsCall(c), NEW C, NEW m \in C, NEW r, c.fsm = Probing(C), c.recorded = <<>>
    PROVE  LET d == AllFailed(ProbeFailure(c, <<m, r>>)) IN
           Fields(d, c.pc, Cooldown, c.chan, c.failures, c.winner, <<<<m, r>>>>, c.sid, c.result)
<1>1. PICK out : out = Reduce(c.fsm, ProbeFailed(m, r))
  BY Zenon
<1>2. /\ out.state = IF C = {m} THEN Cooldown ELSE Probing(C \ {m})
      /\ ScoresIn(out.effects) = <<<<m, r>>>>
  <2>1. LET o == Reduce(Probing(C), ProbeFailed(m, r)) IN
        /\ o.state = IF C = {m} THEN Cooldown ELSE Probing(C \ {m})
        /\ ScoresIn(o.effects) = <<<<m, r>>>>
    BY FailedOut, Zenon
  <2> QED BY <1>1, <2>1, Zenon
<1>3. PICK x, y : x = out.state /\ y = c.recorded \o ScoresIn(out.effects)
  BY Zenon
<1>4. y = <<<<m, r>>>>
  BY <1>2, <1>3
<1>5. PICK e : e = [c EXCEPT !.fsm = x, !.recorded = y]
  BY Zenon
<1>6. ProbeFailure(c, <<m, r>>) = e
  BY <1>1, <1>3, <1>5 DEF ProbeFailure
<1>7. /\ IsCall(e) /\ e.pc = c.pc /\ e.fsm = x /\ e.chan = c.chan /\ e.failures = c.failures
      /\ e.winner = c.winner /\ e.recorded = y /\ e.sid = c.sid /\ e.result = c.result
  <2>1. Fields(e, c.pc, x, c.chan, c.failures, c.winner, y, c.sid, c.result)
    BY <1>5, ScoredFields, Zenon
  <2> QED BY <2>1, Zenon DEF Fields
<1>8. CASE x = Cooldown
  <2>1. AllFailed(e) = e
    BY <1>7, <1>8 DEF AllFailed, Cooldown
  <2> QED BY <1>4, <1>6, <1>7, <1>8, <2>1, Zenon DEF Fields
<1>9. CASE x = Probing(C \ {m})
  <2>1. e.fsm.tag = "Probing"
    BY <1>7, <1>9 DEF Probing
  <2>2. PICK s : s = e.fsm /\ s.tag = "Probing"
    BY <2>1, Zenon
  <2>3. PICK ev : ev = AllProbesFailed /\ ev.tag = "AllProbesFailed"
    <3>1. AllProbesFailed.tag = "AllProbesFailed"
      BY DEF AllProbesFailed
    <3> QED BY <3>1, Zenon
  <2>4. Reduce(s, ev) = To(Cooldown, <<ScheduleCooldown>>)
    BY <2>2, <2>3, Zenon DEF Reduce, ReduceProbing
  <2>5. Reduce(e.fsm, AllProbesFailed).state = Cooldown
    BY <2>2, <2>3, <2>4 DEF To
  <2>6. AllFailed(e) = [e EXCEPT !.fsm = Cooldown]
    BY <2>1, <2>5, Zenon DEF AllFailed
  <2>7. PICK d : d = AllFailed(e)
    BY Zenon
  <2>8. /\ IsCall(d) /\ d.pc = e.pc /\ d.fsm = Cooldown /\ d.chan = e.chan
        /\ d.failures = e.failures /\ d.winner = e.winner /\ d.recorded = e.recorded
        /\ d.sid = e.sid /\ d.result = e.result
    BY <1>7, <2>6, <2>7 DEF IsCall, CallFields
  <2> QED BY <1>4, <1>6, <1>7, <2>7, <2>8, Zenon DEF Fields
<1> QED BY <1>2, <1>3, <1>8, <1>9, Zenon

\* The classification of an error is a failure.
LEMMA ReasonIsFailure ==
    ASSUME NEW e PROVE Classify(e) \in ProbeOutcomes \ {"Success"}
BY Zenon DEF Classify, ProbeOutcomes

\* A start whose probes failed returns with the record of their failures.
LEMMA FailedReturns ==
    ASSUME CallShape, RecordsInv, NEW a \in Starts, NEW d,
           IsCall(d), d.sid = None, d.recorded \in Seq(Failures), d.fsm = Cooldown,
           Return(a, d, ResultOf(d.fsm)), probe' = probe,
           \A b \in Starts : b # a => token'[b] = token[b],
           Honest(d.recorded, probe[a]),
           d.recorded # <<>> \/ \E m \in Methods : probe[a][m] = "died",
           \A m \in Methods : probe[a][m] \notin {"none", "died"} =>
               \E i \in DOMAIN d.recorded : d.recorded[i][1] = m,
           \A m \in Methods : probe[a][m] \notin {"stagger", "starting", "running"}
    PROVE  RecordsInv'
<1>1. ResultOf(d.fsm) = "AllProbesFailed"
  BY DEF ResultOf, Cooldown
<1>2. PICK new : new = Returned(d, "AllProbesFailed")
  BY Zenon
<1>3. Goto(a, new)
  BY <1>1, <1>2, Zenon DEF Return, Returned
<1>4. /\ IsCall(new) /\ new.pc = "returned" /\ new.recorded = d.recorded /\ new.sid = None
      /\ new.result = "AllProbesFailed"
  <2>1. /\ IsCall(new) /\ new.pc = "returned" /\ new.recorded = d.recorded /\ new.sid = d.sid
        /\ new.result = "AllProbesFailed"
    BY <1>2, ReturnedFields DEF Fields
  <2> QED BY <2>1, Zenon
<1>5. \A i \in DOMAIN d.recorded : d.recorded[i][2] # "Success"
  BY DEF Failures
<1>6. d.recorded \in Seq(Reports)
  <2>1. Failures \subseteq Reports
    BY Zenon DEF Failures, Reports
  <2> QED BY <2>1
<1>7. Done(a, new, probe'[a])
  BY <1>4, <1>5, <1>6, SMTT(30) DEF Done
<1>8. CallSound(a, new, probe'[a], token'[a])
  BY <1>4, <1>7 DEF CallSound
<1> QED BY <1>3, <1>4, <1>8, RecordsStep, Zenon

\* The one probe wins or fails.
LEMMA RecSingleProbe ==
    ASSUME CallsInv, RecordsInv, NEW a \in Starts, SingleProbe(a) PROVE RecordsInv'
<1>1. /\ InPlace(call[a], probe[a]) /\ UNCHANGED raceVars
      /\ IsCall(call[a]) /\ CallShape
  BY SoundHere, SMTT(30) DEF SingleProbe, CallsInv, CallShape
<1>2. PICK C \in SUBSET Methods : call[a].fsm = Probing(C)
  BY <1>1, SMTT(30) DEF InPlace
<1>3. call[a].fsm.candidates = C
  BY <1>2 DEF Probing
<1>4. \A b \in Starts : b # a => probe'[b] = probe[b] /\ token'[b] = token[b]
  BY <1>1 DEF raceVars
<1>5. ASSUME NEW m \in C, Goto(a, [call[a] EXCEPT !.pc = "bind", !.winner = m])
      PROVE  RecordsInv'
  <2>1. PICK new : new = [call[a] EXCEPT !.pc = "bind", !.winner = m]
    OBVIOUS
  <2>2. /\ IsCall(new) /\ new.pc = "bind" /\ new.fsm = Probing(C) /\ new.winner = m
        /\ new.failures = call[a].failures /\ new.recorded = call[a].recorded
        /\ new.sid = call[a].sid /\ new.result = call[a].result
    <3>1. Fields(new, "bind", call[a].fsm, call[a].chan, call[a].failures, m,
                 call[a].recorded, call[a].sid, call[a].result)
      BY <1>1, <2>1, WinnerFields, Zenon
    <3> QED BY <1>2, <3>1 DEF Fields
  <2>3. Blank(new) /\ new.failures = <<>>
    BY <1>1, <2>2, Zenon DEF InPlace, Blank
  <2>4. Scored(new) = <<<<m, "Success">>>>
    BY <2>2, <2>3 DEF Scored
  <2>5. probe'[a] = probe[a] /\ probe[a][m] = "none"
    BY <1>1, <1>2, Zenon DEF InPlace, raceVars
  <2>6. Honest(Scored(new), probe'[a])
    BY <2>4, <2>5 DEF Honest
  <2>7. Won(new, probe'[a])
    BY <1>2, <2>2, <2>3, <2>6, SMTT(30) DEF Won
  <2>8. CallSound(a, new, probe'[a], token'[a])
    BY <2>2, <2>7 DEF CallSound
  <2> QED BY <1>1, <1>4, <1>5, <2>1, <2>2, <2>8, RecordsStep, Zenon
<1>6. ASSUME NEW m \in C, NEW r \in ProbeReasons,
             LET c == AllFailed(ProbeFailure(call[a], <<m, r>>))
             IN  Return(a, c, ResultOf(c.fsm))
      PROVE  RecordsInv'
  <2>1. PICK d : d = AllFailed(ProbeFailure(call[a], <<m, r>>))
    OBVIOUS
  <2>2. Return(a, d, ResultOf(d.fsm))
    BY <1>6, <2>1
  <2>3. Blank(call[a]) /\ \A n \in Methods : probe[a][n] = "none"
    BY <1>1 DEF InPlace
  <2>4. IsCall(d) /\ d.fsm = Cooldown /\ d.recorded = <<<<m, r>>>> /\ d.sid = call[a].sid
    <3>1. call[a].recorded = <<>>
      BY <2>3, Zenon DEF Blank
    <3>2. Fields(d, call[a].pc, Cooldown, call[a].chan, call[a].failures, call[a].winner,
                 <<<<m, r>>>>, call[a].sid, call[a].result)
      BY <1>1, <1>2, <2>1, <3>1, SingleFails, Zenon
    <3> QED BY <3>2 DEF Fields
  <2>5. r \in ProbeOutcomes \ {"Success"} /\ m \in Methods
    BY <1>2, ReasonIsFailure DEF ProbeReasons
  <2>6. PICK f \in Failures : f = <<m, r>> /\ f[1] = m /\ f[2] = r
    <3>1. <<m, r>> \in Failures /\ <<m, r>>[1] = m /\ <<m, r>>[2] = r
      BY <2>5 DEF Failures
    <3> QED BY <3>1, Zenon
  <2>7. d.recorded = <<f>> /\ d.recorded \in Seq(Failures) /\ d.recorded # <<>>
    BY <2>4, <2>6
  <2>8. Honest(d.recorded, probe[a])
    BY <2>3, <2>5, <2>6, <2>7 DEF Honest
  <2>9. d.sid = None
    BY <2>3, <2>4, Zenon DEF Blank
  <2>10. UNCHANGED <<probe, token>>
    BY <1>1, Zenon DEF raceVars
  <2> QED BY <1>1, <2>2, <2>3, <2>4, <2>7, <2>8, <2>9, <2>10, FailedReturns, Zenon
<1> QED BY <1>3, <1>5, <1>6, Zenon DEF SingleProbe

\* Lists of one length with the same elements.
LEMMA SameSeq ==
    ASSUME NEW X, NEW s \in Seq(X), NEW t \in Seq(X), Len(s) = Len(t),
           \A i \in 1..Len(s) : s[i] = t[i]
    PROVE  s = t
OBVIOUS

\* Taking the first result from the channel keeps the results in their order.
LEMMA ResultMoves ==
    ASSUME NEW X, NEW s \in Seq(X), NEW u \in Seq(X), u # <<>>
    PROVE  /\ Head(u) \in X /\ Tail(u) \in Seq(X)
           /\ Append(s, Head(u)) \o Tail(u) = s \o u
           /\ Len(s) + 1 \in DOMAIN (s \o u) /\ (s \o u)[Len(s) + 1] = Head(u)
           /\ \A i \in 1..Len(s) : i \in DOMAIN (s \o u) /\ (s \o u)[i] = s[i]
<1>1. Len(u) \in Nat \ {0} /\ Head(u) = u[1] /\ Head(u) \in X /\ Tail(u) \in Seq(X)
      /\ Len(Tail(u)) = Len(u) - 1 /\ \A i \in 1..(Len(u) - 1) : Tail(u)[i] = u[i + 1]
  OBVIOUS
<1>2. PICK h \in X, w \in Seq(X) : h = Head(u) /\ w = Tail(u)
  BY <1>1, Zenon
<1>3. /\ Append(s, h) \in Seq(X) /\ Len(Append(s, h)) = Len(s) + 1
      /\ Append(s, h)[Len(s) + 1] = h /\ \A i \in 1..Len(s) : Append(s, h)[i] = s[i]
  BY <1>2
<1>4. PICK v \in Seq(X) : v = Append(s, h)
  BY <1>3, Zenon
<1>5. /\ v \o w \in Seq(X) /\ Len(v \o w) = Len(v) + Len(w)
      /\ \A i \in 1..(Len(v) + Len(w)) : (v \o w)[i] = IF i <= Len(v) THEN v[i] ELSE w[i - Len(v)]
  BY <1>2, <1>4
<1>6. /\ s \o u \in Seq(X) /\ Len(s \o u) = Len(s) + Len(u)
      /\ \A i \in 1..(Len(s) + Len(u)) : (s \o u)[i] = IF i <= Len(s) THEN s[i] ELSE u[i - Len(s)]
  OBVIOUS
<1>7. PICK x \in Seq(X), y \in Seq(X) : x = v \o w /\ y = s \o u
  BY <1>5, <1>6, Zenon
<1>8. Len(x) = Len(y)
  BY <1>1, <1>2, <1>3, <1>4, <1>5, <1>6, <1>7, SMTT(30)
<1>9. ASSUME NEW i \in 1..Len(x) PROVE x[i] = y[i]
  <2>1. i \in 1..(Len(s) + Len(u)) /\ Len(s) \in Nat
    BY <1>6, <1>7, <1>8
  <2>2. CASE i <= Len(s)
    BY <1>1, <1>2, <1>3, <1>4, <1>5, <1>6, <1>7, <2>1, <2>2, SMTT(30)
  <2>3. CASE i = Len(s) + 1
    BY <1>1, <1>2, <1>3, <1>4, <1>5, <1>6, <1>7, <2>1, <2>3, SMTT(30)
  <2>4. CASE i > Len(s) + 1
    BY <1>1, <1>2, <1>3, <1>4, <1>5, <1>6, <1>7, <2>1, <2>4, SMTT(30)
  <2> QED BY <2>1, <2>2, <2>3, <2>4
<1>10. x = y
  BY <1>8, <1>9, SameSeq, Zenon
<1> QED BY <1>1, <1>2, <1>4, <1>6, <1>7, <1>10, SMTT(30)

\* A result is taken from the channel: a failure is remembered, a success decides the race.
LEMMA RecCollect ==
    ASSUME CallsInv, RecordsInv, NEW a \in Starts, Collect(a) PROVE RecordsInv'
<1>1. /\ IsCall(call[a]) /\ CallShape /\ RaceShape /\ UNCHANGED <<probe, token>>
      /\ call[a].chan # <<>> /\ Racing(call[a], probe[a], token[a])
  BY SoundHere, Zenon DEF Collect, CallsInv, CallShape, raceVars
<1>2. PICK p, fs, ch : p = probe[a] /\ fs = call[a].failures /\ ch = call[a].chan
  OBVIOUS
<1>3. /\ fs \in Seq(Failures) /\ ch \in Seq(Reports) /\ ch # <<>>
      /\ call[a].fsm = Probing({m \in Methods : p[m] # "none"})
      /\ Blank(call[a]) /\ Honest(fs \o ch, p)
      /\ \A i \in DOMAIN (fs \o ch) : p[(fs \o ch)[i][1]] = (fs \o ch)[i][2]
  BY <1>1, <1>2, Zenon DEF Racing
<1>4. fs \in Seq(Reports)
  <2>1. Failures \subseteq Reports
    BY DEF Failures, Reports
  <2> QED BY <1>3, <2>1
<1>5. PICK res \in Reports, rest \in Seq(Reports) : res = Head(ch) /\ rest = Tail(ch)
  <2>1. Head(ch) \in Reports /\ Tail(ch) \in Seq(Reports)
    BY <1>3, <1>4, ResultMoves, Zenon
  <2> QED BY <2>1, Zenon
<1>6. /\ Append(fs, res) \o rest = fs \o ch
      /\ Len(fs) + 1 \in DOMAIN (fs \o ch) /\ (fs \o ch)[Len(fs) + 1] = res
      /\ \A i \in 1..Len(fs) : i \in DOMAIN (fs \o ch) /\ (fs \o ch)[i] = fs[i]
  BY <1>3, <1>4, <1>5, ResultMoves
<1>7. PICK c : c = [call[a] EXCEPT !.chan = Tail(@)]
  BY Zenon
<1>8. Fields(c, "collect", call[a].fsm, rest, fs, call[a].winner, call[a].recorded,
             call[a].sid, call[a].result)
  <2>1. call[a].pc = "collect"
    BY DEF Collect
  <2>2. c = [call[a] EXCEPT !.chan = rest]
    BY <1>2, <1>5, <1>7, Zenon
  <2> QED BY <1>1, <1>2, <2>1, <2>2, Zenon DEF Fields, IsCall, CallFields
<1>9. IF res[2] = "Success"
      THEN Goto(a, [c EXCEPT !.pc = "cancel", !.winner = res[1]])
      ELSE Goto(a, [c EXCEPT !.failures = Append(@, res)])
  BY <1>2, <1>5, <1>7, Zenon DEF Collect
<1>10. CASE res[2] = "Success"
  <2>1. PICK w \in Methods : w = res[1] /\ res = <<w, "Success">>
    BY <1>5, <1>10 DEF Reports
  <2>2. PICK new : new = [c EXCEPT !.pc = "cancel", !.winner = w]
    OBVIOUS
  <2>3. Goto(a, new)
    BY <1>9, <1>10, <2>1, <2>2, Zenon
  <2>4. /\ IsCall(new) /\ new.pc = "cancel" /\ new.fsm = call[a].fsm /\ new.winner = w
        /\ new.failures = fs /\ Blank(new)
    <3>1. IsCall(c)
      BY <1>8 DEF Fields
    <3>2. Fields(new, "cancel", c.fsm, c.chan, c.failures, w, c.recorded, c.sid, c.result)
      BY <2>2, <3>1, WinnerFields, Zenon
    <3> QED BY <1>3, <1>8, <3>2, Zenon DEF Fields, Blank
  <2>5. p[w] = "Success"
    <3>1. p[res[1]] = res[2]
      BY <1>3, <1>6, Zenon
    <3> QED BY <1>10, <2>1, <3>1
  <2>6. PICK sc : sc = Scored(new)
    OBVIOUS
  <2>7. /\ Len(fs) \in Nat /\ DOMAIN sc = 1..(Len(fs) + 1)
        /\ sc[1] = res /\ \A i \in 1..Len(fs) : sc[i + 1] = fs[i]
    <3>1. sc = <<res>> \o fs
      BY <2>1, <2>4, <2>6, Zenon DEF Scored
    <3> QED BY <1>4, <1>5, <3>1
  <2>8. PICK at \in [1..(Len(fs) + 1) -> 1..(Len(fs) + 1)] :
            /\ \A i \in 1..(Len(fs) + 1) : at[i] = IF i = 1 THEN Len(fs) + 1 ELSE i - 1
            /\ \A i, j \in 1..(Len(fs) + 1) : at[i] = at[j] => i = j
    <3> DEFINE f == [i \in 1..(Len(fs) + 1) |-> IF i = 1 THEN Len(fs) + 1 ELSE i - 1]
    <3>1. f \in [1..(Len(fs) + 1) -> 1..(Len(fs) + 1)]
      BY <2>7
    <3>2. \A i, j \in 1..(Len(fs) + 1) : f[i] = f[j] => i = j
      BY <2>7
    <3> QED BY <3>1, <3>2, Zenon
  <2>9. \A i \in DOMAIN sc : at[i] \in DOMAIN (fs \o ch) /\ sc[i] = (fs \o ch)[at[i]]
    <3> SUFFICES ASSUME NEW i \in DOMAIN sc
                 PROVE  at[i] \in DOMAIN (fs \o ch) /\ sc[i] = (fs \o ch)[at[i]]
      BY Zenon
    <3>1. CASE i = 1
      BY <1>6, <2>7, <2>8, <3>1, Zenon
    <3>2. CASE i # 1
      <4>1. PICK j \in 1..Len(fs) : i = j + 1 /\ at[i] = j
        BY <2>7, <2>8, <3>2
      <4> QED BY <1>6, <2>7, <4>1
    <3> QED BY <3>1, <3>2, Zenon
  <2>10. Honest(sc, p)
    <3>1. ASSUME NEW i \in DOMAIN sc, NEW j \in DOMAIN sc, sc[i][1] = sc[j][1] PROVE i = j
      <4>1. (fs \o ch)[at[i]][1] = (fs \o ch)[at[j]][1]
        BY <2>9, <3>1, Zenon
      <4>2. at[i] = at[j]
        BY <1>3, <2>9, <4>1, Zenon DEF Honest
      <4> QED BY <2>7, <2>8, <4>2
    <3>2. ASSUME NEW i \in DOMAIN sc PROVE p[sc[i][1]] \in {sc[i][2], "none"}
      BY <1>3, <2>9, Zenon
    <3> QED BY <3>1, <3>2 DEF Honest
  <2>11. Won(new, p)
    <3>1. w \in {m \in Methods : p[m] # "none"}
      BY <2>5, Zenon
    <3> QED BY <1>3, <2>4, <2>6, <2>10, <3>1, Zenon DEF Won
  <2>12. CallSound(a, new, probe'[a], token'[a])
    BY <1>1, <1>2, <2>4, <2>11, Zenon DEF CallSound
  <2> QED BY <1>1, <2>3, <2>4, <2>12, RecordsStep, Zenon
<1>11. CASE res[2] # "Success"
  <2>1. PICK more : more = Append(fs, res)
    BY Zenon
  <2>2. more \in Seq(Failures)
    <3>1. res \in Failures
      BY <1>5, <1>11 DEF Reports, Failures
    <3> QED BY <1>3, <2>1, <3>1
  <2>3. PICK new : new = [c EXCEPT !.failures = more]
    BY Zenon
  <2>4. Goto(a, new)
    BY <1>8, <1>9, <1>11, <2>1, <2>3, Zenon DEF Fields
  <2>5. /\ IsCall(new) /\ new.pc = "collect" /\ new.fsm = call[a].fsm
        /\ new.failures = more /\ new.chan = rest /\ Blank(new)
    <3>1. /\ IsCall(new) /\ new.pc = c.pc /\ new.fsm = c.fsm /\ new.failures = more
          /\ new.chan = c.chan /\ new.recorded = c.recorded /\ new.sid = c.sid
          /\ new.result = c.result
      BY <1>8, <2>3 DEF Fields, IsCall, CallFields
    <3> QED BY <1>3, <1>8, <3>1, Zenon DEF Fields, Blank
  <2>6. new.failures \o new.chan = call[a].failures \o call[a].chan
    BY <1>2, <1>6, <2>1, <2>5, Zenon
  <2>7. Racing(new, probe[a], token[a])
    BY <1>1, <1>5, <2>2, <2>5, <2>6, Zenon DEF Racing
  <2>8. CallSound(a, new, probe'[a], token'[a])
    BY <1>1, <2>4, <2>5, <2>7 DEF CallSound
  <2> QED BY <1>1, <2>4, <2>5, <2>8, RecordsStep, Zenon
<1> QED BY <1>10, <1>11

\* The winner stands while the losers are cancelled, and after.
LEMMA RecCancelNext ==
    ASSUME CallsInv, RecordsInv, NEW a \in Starts, CancelNext(a) PROVE RecordsInv'
<1>1. RaceShape /\ UNCHANGED <<call, probe>> /\ call[a].pc = "cancel" /\ Won(call[a], probe[a])
  BY SoundHere, Zenon DEF CancelNext, CallsInv
<1>2. PICK m : token' = [token EXCEPT ![a][m] = TRUE]
  BY Zenon DEF CancelNext
<1>3. ASSUME NEW b \in Starts PROVE CallSound(b, call'[b], probe'[b], token'[b])
  <2>1. CASE b = a
    BY <1>1, <2>1, Zenon DEF CallSound
  <2>2. CASE b # a
    <3>1. token'[b] = token[b]
      BY <1>1, <1>2, <2>2, Zenon DEF RaceShape
    <3> QED BY <1>1, <3>1, Zenon DEF RecordsInv
  <2> QED BY <2>1, <2>2, Zenon
<1> QED BY <1>3, Zenon DEF RecordsInv

LEMMA RecCancelsDone ==
    ASSUME CallsInv, RecordsInv, NEW a \in Starts, CancelsDone(a) PROVE RecordsInv'
<1>1. /\ IsCall(call[a]) /\ CallShape /\ UNCHANGED raceVars /\ Won(call[a], probe[a])
      /\ Goto(a, [call[a] EXCEPT !.pc = "bind"])
  BY SoundHere, Zenon DEF CancelsDone, CallsInv, CallShape
<1>2. PICK new : new = [call[a] EXCEPT !.pc = "bind"]
  BY Zenon
<1>3. /\ IsCall(new) /\ new.pc = "bind" /\ new.fsm = call[a].fsm
      /\ new.failures = call[a].failures /\ new.winner = call[a].winner
      /\ new.recorded = call[a].recorded /\ new.sid = call[a].sid /\ new.result = call[a].result
  BY <1>1, <1>2, PcFields DEF Fields
<1>4. Scored(new) = Scored(call[a])
  BY <1>3, Zenon DEF Scored
<1>5. Won(new, probe'[a])
  BY <1>1, <1>3, <1>4, Zenon DEF Won, Blank, raceVars
<1>6. CallSound(a, new, probe'[a], token'[a])
  BY <1>3, <1>5, Zenon DEF CallSound
<1>7. Goto(a, new) /\ \A b \in Starts : b # a => probe'[b] = probe[b] /\ token'[b] = token[b]
  BY <1>1, <1>2, Zenon DEF raceVars
<1> QED BY <1>1, <1>3, <1>6, <1>7, RecordsStep, Zenon

\* Every task is done and none succeeded: the failures are fed and scored.
LEMMA RecRaceLost ==
    ASSUME CallsInv, RecordsInv, NEW a \in Starts, RaceLost(a) PROVE RecordsInv'
<1>1. /\ IsCall(call[a]) /\ CallShape /\ RaceShape /\ UNCHANGED probe /\ CancelAll(a)
      /\ call[a].chan = <<>> /\ Racing(call[a], probe[a], token[a])
      /\ \A m \in Methods : probe[a][m] \notin {"stagger", "starting", "running"}
  BY SoundHere DEF RaceLost, CallsInv, CallShape
<1>2. PICK p, fs, C : /\ p = probe[a] /\ fs = call[a].failures
                      /\ C = {m \in Methods : p[m] # "none"}
  BY Zenon
<1>3. fs \in Seq(Failures) /\ fs \o call[a].chan = fs
  BY <1>1, <1>2, SMTT(30) DEF Racing
<1>4. /\ Blank(call[a]) /\ call[a].fsm = Probing(C) /\ C # {}
      /\ Honest(fs, p) /\ \A i \in DOMAIN fs : p[fs[i][1]] = fs[i][2]
      /\ \A m \in Methods : p[m] \in ProbeOutcomes => \E i \in DOMAIN fs : fs[i][1] = m
      /\ \A m \in Methods : p[m] \notin {"cancelled", "skipped"}
  BY <1>1, <1>2, <1>3 DEF Racing
<1>5. \A j \in 1..Len(fs) : fs[j][1] \in C
  <2> SUFFICES ASSUME NEW j \in 1..Len(fs) PROVE fs[j][1] \in C
    OBVIOUS
  <2>1. fs[j] \in Failures /\ j \in DOMAIN fs
    BY <1>3
  <2>2. fs[j][1] \in Methods /\ fs[j][2] # "none"
    BY <2>1, Zenon DEF Failures, ProbeOutcomes
  <2> QED BY <1>2, <1>4, <2>1, <2>2, Zenon
<1>6. Distinct(fs)
  BY <1>3, <1>4 DEF Honest, Distinct
<1>7. PICK c : c = FeedFailures(call[a])
  OBVIOUS
<1>8. c.fsm = Cooldown /\ c.recorded = fs
  <2>1. /\ call[a].failures \in Seq(Failures) /\ Distinct(call[a].failures)
        /\ \A j \in 1..Len(call[a].failures) : call[a].failures[j][1] \in C
        /\ call[a].recorded = <<>>
    BY <1>2, <1>3, <1>4, <1>5, <1>6, Zenon DEF Blank
  <2>2. FeedFailures(call[a]).fsm = Cooldown /\ FeedFailures(call[a]).recorded = call[a].failures
    BY <1>1, <1>4, <2>1, FedFailures, Zenon
  <2> QED BY <1>2, <1>7, <2>2
<1>9. PICK d : d = [call[a] EXCEPT !.fsm = c.fsm, !.recorded = c.recorded]
  OBVIOUS
<1>10. Return(a, d, ResultOf(d.fsm)) /\ IsCall(d) /\ d.sid = None
       /\ d.fsm = Cooldown /\ d.recorded = fs
  <2>1. Fields(d, call[a].pc, c.fsm, call[a].chan, call[a].failures, call[a].winner,
               c.recorded, call[a].sid, call[a].result)
    BY <1>1, <1>9, ScoredFields, Zenon
  <2>2. Return(a, d, ResultOf(c.fsm))
    BY <1>7, <1>9 DEF RaceLost
  <2> QED BY <1>4, <1>8, <2>1, <2>2, Zenon DEF Fields, Blank
<1>11. \A m \in Methods : probe[a][m] \notin {"none", "died"} =>
           \E i \in DOMAIN d.recorded : d.recorded[i][1] = m
  <2> SUFFICES ASSUME NEW m \in Methods, p[m] \notin {"none", "died"}
               PROVE  \E i \in DOMAIN fs : fs[i][1] = m
    BY <1>2, <1>10
  <2>1. p[m] \in ProbeStates
    BY <1>1, <1>2, Zenon DEF RaceShape
  <2>2. p[m] \in ProbeOutcomes
    BY <1>1, <1>2, <1>4, <2>1, Zenon DEF ProbeStates
  <2> QED BY <1>4, <2>2, Zenon
<1>12. d.recorded # <<>> \/ \E m \in Methods : probe[a][m] = "died"
  <2> SUFFICES ASSUME \A m \in Methods : p[m] # "died" PROVE fs # <<>>
    BY <1>2, <1>10, Zenon
  <2>1. PICK m \in Methods : p[m] # "none"
    BY <1>2, <1>4, Zenon
  <2>2. \E i \in DOMAIN fs : fs[i][1] = m
    BY <1>2, <1>10, <1>11, <2>1, Zenon
  <2> QED BY <2>2, SMTT(30)
<1>13. \A b \in Starts : b # a => token'[b] = token[b]
  BY <1>1, CancelAllEffect, Zenon
<1>14. Honest(d.recorded, probe[a]) /\ d.recorded \in Seq(Failures)
  BY <1>2, <1>3, <1>4, <1>10, Zenon
<1> QED BY <1>1, <1>10, <1>11, <1>12, <1>13, <1>14, FailedReturns, Zenon

\* The winner's listener is bound and the results are scored, or nothing comes of the call.
LEMMA RecBind ==
    ASSUME CallsInv, RecordsInv, NEW a \in Starts, Bind(a) PROVE RecordsInv'
<1>1. /\ IsCall(call[a]) /\ CallShape /\ UNCHANGED raceVars /\ Won(call[a], probe[a])
  BY SoundHere, Zenon DEF Bind, CallsInv, CallShape
<1>2. PICK c, w : c = call[a] /\ w = call[a].winner
  OBVIOUS
<1>3. PICK C : c.fsm = Probing(C) /\ w \in C /\ w \in Methods
  BY <1>1, <1>2, Zenon DEF Won
<1>4. CASE Return(a, call[a], "Io")
  <2>1. Goto(a, Returned(call[a], "Io"))
    BY <1>4, Zenon DEF Return, Returned
  <2>2. Blank(call[a])
    BY <1>1, SMTT(30) DEF Won
  <2> QED BY <1>1, <2>1, <2>2, BlankReturns, SMTT(30)
<1>5. CASE Goto(a, [ProbeSuccess(c, w, a) EXCEPT !.pc = "fetch", !.recorded = @ \o c.failures])
  <2>1. PICK out : out = Reduce(c.fsm, ProbeSucceeded(w, a))
    OBVIOUS
  <2>2. out.state = Active(w, a, 0) /\ ScoresIn(out.effects) = <<<<w, "Success">>>>
    <3>1. LET o == Reduce(Probing(C), ProbeSucceeded(w, a)) IN
          o.state = Active(w, a, 0) /\ ScoresIn(o.effects) = <<<<w, "Success">>>>
      BY <1>3, SucceededOut, Zenon
    <3> QED BY <1>3, <2>1, <3>1
  <2>3. PICK s, next : s = c.recorded \o ScoresIn(out.effects) /\ next = out.state
    BY Zenon
  <2>4. s = <<<<w, "Success">>>>
    <3>1. PICK x : x = <<w, "Success">>
      BY Zenon
    <3>2. c.recorded = <<>> /\ ScoresIn(out.effects) = <<x>>
      BY <1>1, <1>2, <2>2, <3>1, Zenon DEF Won, Blank
    <3> QED BY <2>3, <3>1, <3>2
  <2>5. PICK d : d = ProbeSuccess(c, w, a)
    OBVIOUS
  <2>6. d = [c EXCEPT !.fsm = next, !.recorded = s]
    BY <2>1, <2>3, <2>5, Zenon DEF ProbeSuccess
  <2>7. Fields(d, c.pc, next, c.chan, c.failures, c.winner, s, c.sid, c.result)
    BY <1>1, <1>2, <2>6, ScoredFields, Zenon
  <2>8. PICK new : new = [d EXCEPT !.pc = "fetch", !.recorded = @ \o c.failures]
    OBVIOUS
  <2>9. /\ IsCall(new) /\ new.pc = "fetch" /\ new.fsm = d.fsm /\ new.winner = d.winner
        /\ new.recorded = d.recorded \o c.failures /\ new.failures = d.failures
        /\ new.result = d.result
    BY <2>7, <2>8, Zenon DEF Fields, IsCall, CallFields
  <2>10. /\ new.winner = w /\ new.failures = c.failures /\ new.fsm = Active(w, a, 0)
         /\ new.recorded = <<<<w, "Success">>>> \o c.failures /\ new.result = ""
    BY <1>1, <1>2, <2>2, <2>3, <2>4, <2>7, <2>9, Zenon DEF Fields, Won, Blank
  <2>11. new.recorded = Scored(new) /\ new.recorded = Scored(c)
    BY <1>2, <2>10, Zenon DEF Scored
  <2>12. Served(a, new, probe'[a])
    BY <1>1, <1>2, <1>3, <2>9, <2>10, <2>11, Zenon DEF Served, Won, raceVars
  <2>13. CallSound(a, new, probe'[a], token'[a])
    BY <2>9, <2>12 DEF CallSound
  <2>14. Goto(a, new)
    BY <1>5, <2>5, <2>8, Zenon
  <2> QED BY <1>1, <2>9, <2>13, <2>14, RecordsStep, Zenon DEF raceVars
<1> QED BY <1>2, <1>4, <1>5 DEF Bind

\* A call that serves moves on with its session.
LEMMA ServedMoves ==
    ASSUME CallShape, RecordsInv, NEW a \in Starts, Served(a, call[a], probe[a]),
           UNCHANGED raceVars, NEW new, NEW x \in {"install", "settle"}, NEW y, y # None,
           Goto(a, new),
           Fields(new, x, call[a].fsm, call[a].chan, call[a].failures, call[a].winner,
                  call[a].recorded, y, call[a].result)
    PROVE  RecordsInv'
<1>1. Scored(new) = Scored(call[a])
  BY DEF Fields, Scored
<1>2. IsCall(new) /\ new.pc = x /\ Served(a, new, probe[a])
  BY <1>1, Zenon DEF Fields, Served
<1>3. CallSound(a, new, probe'[a], token'[a])
  BY <1>2, Zenon DEF CallSound, raceVars
<1> QED BY <1>2, <1>3, RecordsStep, Zenon DEF raceVars

LEMMA RecFetch ==
    ASSUME CallsInv, SlotTypeOK, RecordsInv, NEW a \in Starts, FetchSessionId(a)
    PROVE  RecordsInv'
<1>1. /\ CallShape /\ IsCall(call[a]) /\ Served(a, call[a], probe[a]) /\ UNCHANGED raceVars
      /\ Goto(a, [call[a] EXCEPT !.pc = "install", !.sid = nextId + 1])
  BY SoundHere DEF FetchSessionId, CallsInv, CallShape
<1>2. nextId + 1 # None
  BY SlotAssumption DEF SlotTypeOK, None
<1>3. PICK y, new : /\ y = nextId + 1
                    /\ new = [call[a] EXCEPT !.pc = "install", !.sid = y]
  BY Zenon
<1>4. Fields(new, "install", call[a].fsm, call[a].chan, call[a].failures, call[a].winner,
             call[a].recorded, y, call[a].result)
  BY <1>1, <1>3, SidFields, Zenon
<1>5. Goto(a, new) /\ y # None
  BY <1>1, <1>2, <1>3
<1> QED BY <1>1, <1>4, <1>5, ServedMoves, Zenon

LEMMA RecInstall ==
    ASSUME CallsInv, RecordsInv, NEW a \in Starts, InstallSession(a) PROVE RecordsInv'
<1>1. /\ CallShape /\ IsCall(call[a]) /\ Served(a, call[a], probe[a]) /\ UNCHANGED raceVars
      /\ Goto(a, [call[a] EXCEPT !.pc = "settle"]) /\ call[a].pc = "install"
  BY SoundHere DEF InstallSession, CallsInv, CallShape
<1>2. PICK new : new = [call[a] EXCEPT !.pc = "settle"]
  BY Zenon
<1>3. Fields(new, "settle", call[a].fsm, call[a].chan, call[a].failures, call[a].winner,
             call[a].recorded, call[a].sid, call[a].result)
  BY <1>1, <1>2, PcFields, Zenon
<1>4. Goto(a, new) /\ call[a].sid # None
  BY <1>1, <1>2, Zenon DEF Served
<1> QED BY <1>1, <1>3, <1>4, ServedMoves, Zenon

LEMMA RecSettle ==
    ASSUME CallsInv, RecordsInv, NEW a \in Starts, Settle(a) PROVE RecordsInv'
<1>1. /\ CallShape /\ IsCall(call[a]) /\ Served(a, call[a], probe[a]) /\ UNCHANGED raceVars
      /\ Return(a, call[a], ResultOf(call[a].fsm)) /\ call[a].pc = "settle"
  BY SoundHere DEF Settle, CallsInv, CallShape
<1>2. ResultOf(call[a].fsm) = "Ok"
  <2>1. call[a].fsm.tag = "Active"
    <3>1. PICK w : call[a].fsm = Active(w, a, 0)
      BY <1>1, Zenon DEF Served
    <3>2. Active(w, a, 0).tag = "Active"
      BY DEF Active
    <3> QED BY <3>1, <3>2
  <2> QED BY <2>1 DEF ResultOf
<1>3. PICK new : new = Returned(call[a], "Ok")
  OBVIOUS
<1>4. Goto(a, new)
  BY <1>1, <1>2, <1>3, Zenon DEF Return, Returned
<1>5. Fields(new, "returned", call[a].fsm, call[a].chan, call[a].failures, call[a].winner,
             call[a].recorded, call[a].sid, "Ok")
  BY <1>1, <1>3, ReturnedFields, Zenon
<1>6. PICK rec, w, fs : rec = call[a].recorded /\ w = call[a].winner /\ fs = call[a].failures
  OBVIOUS
<1>7. rec \in Seq(Reports) /\ 1 \in DOMAIN rec /\ rec[1][2] = "Success"
  <2>1. w \in Methods /\ fs \in Seq(Failures) /\ rec = <<<<w, "Success">>>> \o fs
    BY <1>1, <1>6, Zenon DEF Served, Scored
  <2>2. PICK res \in Reports : res = <<w, "Success">> /\ res[2] = "Success"
    <3>1. <<w, "Success">> \in Reports /\ <<w, "Success">>[2] = "Success"
      BY <2>1 DEF Reports, ProbeOutcomes
    <3> QED BY <3>1, Zenon
  <2>3. Failures \subseteq Reports
    BY DEF Failures, Reports
  <2>4. fs \in Seq(Reports) /\ <<res>> \in Seq(Reports)
    BY <2>1, <2>3
  <2>5. rec = <<res>> \o fs
    BY <2>1, <2>2, Zenon
  <2> QED BY <2>2, <2>4, <2>5
<1>8. Done(a, new, probe[a])
  <2>1. /\ new.result = "Ok" /\ new.sid = call[a].sid /\ new.recorded = rec
        /\ new.fsm = call[a].fsm /\ new.winner = w /\ IsCall(new) /\ new.pc = "returned"
    BY <1>5, <1>6 DEF Fields
  <2> QED BY <1>1, <1>6, <1>7, <2>1, Zenon DEF Served, Done
<1>9. IsCall(new) /\ CallSound(a, new, probe'[a], token'[a])
  BY <1>1, <1>5, <1>8, Zenon DEF CallSound, Fields, raceVars
<1> QED BY <1>1, <1>4, <1>9, RecordsStep, Zenon DEF raceVars

-----------------------------------------------------------------------------
(* The probe tasks, and the record.                                        *)

\* What is recorded of other probes stays true while probe m goes on.
LEMMA HonestStays ==
    ASSUME NEW list \in Seq(Reports), NEW p, NEW q, NEW m \in Methods, Honest(list, p),
           p[m] \in {"stagger", "starting", "running"}, \A n \in Methods : n # m => q[n] = p[n]
    PROVE  /\ Honest(list, q)
           /\ \A i \in DOMAIN list : list[i][1] # m
<1>1. ASSUME NEW i \in DOMAIN list
      PROVE  list[i][1] \in Methods /\ list[i][1] # m
  <2>1. list[i] \in Reports
    OBVIOUS
  <2>2. list[i][1] \in Methods /\ list[i][2] \in ProbeOutcomes
    BY <2>1 DEF Reports
  <2>3. p[list[i][1]] \in {list[i][2], "none"}
    BY DEF Honest
  <2> QED BY <2>2, <2>3, Zenon DEF ProbeOutcomes
<1> QED BY <1>1, Zenon DEF Honest

\* A loser's task ends after the race: the call has what it recorded.
LEMMA RecLoser ==
    ASSUME CallShape, RecordsInv, NEW a \in Starts, NEW m \in Methods,
           call[a].pc # "collect", UNCHANGED call,
           probe[a][m] \in {"stagger", "starting", "running"},
           \A n \in Methods : n # m => probe'[a][n] = probe[a][n],
           \A b \in Starts : b # a => probe'[b] = probe[b] /\ token'[b] = token[b]
    PROVE  RecordsInv'
<1>1. PICK c, p, q : c = call[a] /\ p = probe[a] /\ q = probe'[a]
  BY Zenon
<1>2. p[m] \in {"stagger", "starting", "running"} /\ \A n \in Methods : n # m => q[n] = p[n]
  BY <1>1, Zenon
<1>3. ~Fresh(c, p, token[a]) /\ ~InPlace(c, p)
  BY <1>2, Zenon DEF Fresh, InPlace
<1>4. Failures \subseteq Reports
  BY DEF Failures, Reports
<1>5. c.winner \in Methods /\ c.failures \in Seq(Failures) => Scored(c) \in Seq(Reports)
  <2> SUFFICES ASSUME c.winner \in Methods, c.failures \in Seq(Failures)
               PROVE  Scored(c) \in Seq(Reports)
    OBVIOUS
  <2>1. PICK res \in Reports : res = <<c.winner, "Success">>
    <3>1. <<c.winner, "Success">> \in Reports
      BY DEF Reports, ProbeOutcomes
    <3> QED BY <3>1, Zenon
  <2>2. c.failures \in Seq(Reports) /\ <<res>> \in Seq(Reports)
    BY <1>4
  <2>3. Scored(c) = <<res>> \o c.failures
    BY <2>1, Zenon DEF Scored
  <2> QED BY <2>2, <2>3, SMTT(30)
<1>6. Won(c, p) => Won(c, q)
  BY <1>2, <1>5, HonestStays DEF Won
<1>7. Served(a, c, p) => Served(a, c, q)
  <2> SUFFICES ASSUME Served(a, c, p) PROVE Served(a, c, q)
    OBVIOUS
  <2>1. c.recorded \in Seq(Reports) /\ Honest(c.recorded, p)
    BY <1>5, Zenon DEF Served
  <2>2. Honest(c.recorded, q)
    BY <1>2, <2>1, HonestStays, SMTT(30)
  <2> QED BY <2>2, Zenon DEF Served
<1>8. Done(a, c, p) => Done(a, c, q)
  <2> SUFFICES ASSUME Done(a, c, p) PROVE Done(a, c, q)
    BY Zenon
  <2>1. c.recorded \in Seq(Reports) /\ Honest(c.recorded, p)
    BY Zenon DEF Done
  <2>2. Honest(c.recorded, q)
    BY <1>2, <2>1, HonestStays, SMTT(30)
  <2>3. c.result # "AllProbesFailed"
    BY <1>2, Zenon DEF Done
  <2> QED BY <2>2, <2>3, Zenon DEF Done
<1>9. CallSound(a, c, p, token[a])
  BY <1>1, Zenon DEF RecordsInv
<1>10. CallSound(a, c, q, token'[a])
  BY <1>1, <1>3, <1>6, <1>7, <1>8, <1>9, Zenon DEF CallSound
<1>11. ASSUME NEW b \in Starts PROVE CallSound(b, call'[b], probe'[b], token'[b])
  <2>1. CASE b = a
    BY <1>1, <1>10, <2>1, SMTT(30)
  <2>2. CASE b # a
    BY <2>2 DEF RecordsInv
  <2> QED BY <2>1, <2>2, Zenon
<1> QED BY <1>11 DEF RecordsInv

\* During the race a task begins to dial, or dies without a result.
LEMMA RacingOn ==
    ASSUME NEW c, NEW p, NEW q, NEW t, NEW u, NEW m \in Methods, Racing(c, p, t),
           p[m] \in {"stagger", "starting", "running"}, q[m] \in {"starting", "running", "died"},
           \A n \in Methods : n # m => q[n] = p[n], u = t
    PROVE  Racing(c, q, u)
<1>1. PICK list : list = c.failures \o c.chan
  BY Zenon
<1>2. list \in Seq(Reports) /\ Honest(list, p)
  <2>1. Failures \subseteq Reports
    BY DEF Failures, Reports
  <2> QED BY <1>1, <2>1 DEF Racing
<1>3. Honest(list, q) /\ \A i \in DOMAIN list : list[i][1] # m
  BY <1>2, HonestStays
<1>4. {n \in Methods : q[n] # "none"} = {n \in Methods : p[n] # "none"}
  OBVIOUS
<1>5. ASSUME NEW i \in DOMAIN list PROVE q[list[i][1]] = list[i][2]
  <2>1. list[i] \in Reports
    BY <1>2
  <2>2. list[i][1] \in Methods
    BY <2>1 DEF Reports
  <2>3. p[list[i][1]] = list[i][2]
    BY <1>1, Zenon DEF Racing
  <2> QED BY <1>3, <2>2, <2>3, Zenon
<1>6. ASSUME NEW n \in Methods, q[n] \in ProbeOutcomes
      PROVE  \E i \in DOMAIN list : list[i][1] = n
  <2>1. n # m
    BY <1>6 DEF ProbeOutcomes
  <2> QED BY <1>1, <1>6, <2>1, Zenon DEF Racing
<1>7. /\ \A n \in Methods : q[n] \in {"stagger", "starting", "running"} => ~u[n]
      /\ \A n \in Methods : q[n] \notin {"cancelled", "skipped"}
      /\ \E n \in Methods : q[n] # "none"
  BY Zenon DEF Racing
<1> QED BY <1>1, <1>3, <1>4, <1>5, <1>6, <1>7, Zenon DEF Racing

\* During the race a task ends with its outcome, which it sends.
LEMMA RacingReports ==
    ASSUME NEW c, NEW d, NEW p, NEW q, NEW t, NEW u, NEW m \in Methods, NEW o \in ProbeOutcomes,
           Racing(c, p, t), p[m] \in {"stagger", "starting", "running"}, q[m] = o,
           \A n \in Methods : n # m => q[n] = p[n] /\ u[n] = t[n],
           d.chan = Append(c.chan, <<m, o>>), d.failures = c.failures, d.fsm = c.fsm,
           d.recorded = c.recorded, d.sid = c.sid, d.result = c.result
    PROVE  Racing(d, q, u)
<1>1. PICK fs, ch : fs = c.failures /\ ch = c.chan
  OBVIOUS
<1>2. PICK res \in Reports : res = <<m, o>> /\ res[1] = m /\ res[2] = o
  <2>1. <<m, o>> \in Reports /\ <<m, o>>[1] = m /\ <<m, o>>[2] = o
    BY Zenon DEF Reports
  <2> QED BY <2>1, Zenon
<1>3. fs \in Seq(Reports) /\ ch \in Seq(Reports) /\ fs \in Seq(Failures)
  <2>1. Failures \subseteq Reports
    BY DEF Failures, Reports
  <2> QED BY <1>1, <2>1, SMTT(30) DEF Racing
<1>4. PICK list \in Seq(Reports) : list = fs \o ch
  <2>1. fs \o ch \in Seq(Reports)
    BY <1>3
  <2> QED BY <2>1, Zenon
<1>5. PICK more : more = fs \o Append(ch, res)
  BY Zenon
<1>6. /\ Append(ch, res) \in Seq(Reports) /\ Len(list) \in Nat /\ DOMAIN list = 1..Len(list)
      /\ DOMAIN more = 1..(Len(list) + 1)
      /\ more[Len(list) + 1] = res /\ \A i \in 1..Len(list) : more[i] = list[i]
  BY <1>3, <1>4, <1>5
<1>7. Honest(list, p)
  BY <1>1, <1>4, Zenon DEF Racing
<1>8. Honest(list, q) /\ \A i \in DOMAIN list : list[i][1] # m
  BY <1>7, HonestStays, SMTT(30)
<1>9. d.chan = Append(ch, res) /\ d.failures = fs /\ d.failures \o d.chan = more
  BY <1>1, <1>2, <1>5, Zenon
<1>10. {n \in Methods : q[n] # "none"} = {n \in Methods : p[n] # "none"}
  BY DEF ProbeOutcomes
<1>11. ASSUME NEW i \in DOMAIN more PROVE q[more[i][1]] = more[i][2]
  <2>1. CASE i = Len(list) + 1
    BY <1>2, <1>6, <2>1, SMTT(30)
  <2>2. CASE i # Len(list) + 1
    <3>1. i \in DOMAIN list /\ more[i] = list[i] /\ list[i] \in Reports
      BY <1>6, <2>2, SMTT(30)
    <3>2. list[i][1] \in Methods /\ list[i][1] # m
      BY <1>8, <3>1 DEF Reports
    <3>3. p[list[i][1]] = list[i][2]
      BY <1>1, <1>4, <3>1, Zenon DEF Racing
    <3> QED BY <3>1, <3>2, <3>3, Zenon
  <2> QED BY <2>1, <2>2, Zenon
<1>12. ASSUME NEW i \in DOMAIN more, NEW j \in DOMAIN more, more[i][1] = more[j][1] PROVE i = j
  <2>1. ASSUME NEW k \in DOMAIN more, k # Len(list) + 1
        PROVE  k \in DOMAIN list /\ more[k] = list[k] /\ list[k][1] # m
    BY <1>6, <1>8, <2>1, SMTT(30)
  <2>2. CASE i = Len(list) + 1 \/ j = Len(list) + 1
    BY <1>2, <1>6, <1>12, <2>1, <2>2, SMTT(30)
  <2>3. CASE i # Len(list) + 1 /\ j # Len(list) + 1
    BY <1>8, <1>12, <2>1, <2>3, SMTT(30) DEF Honest
  <2> QED BY <2>2, <2>3, Zenon
<1>13. Honest(more, q)
  BY <1>11, <1>12, Zenon DEF Honest
<1>14. ASSUME NEW n \in Methods, q[n] \in ProbeOutcomes
       PROVE  \E i \in DOMAIN more : more[i][1] = n
  <2>1. CASE n = m
    BY <1>2, <1>6, <2>1, SMTT(30)
  <2>2. CASE n # m
    <3>1. PICK i \in DOMAIN list : list[i][1] = n
      BY <1>1, <1>4, <1>14, <2>2, Zenon DEF Racing
    <3>2. i \in DOMAIN more /\ more[i] = list[i]
      BY <1>6, <3>1
    <3> QED BY <3>1, <3>2
  <2> QED BY <2>1, <2>2, Zenon
<1>15. /\ \A n \in Methods : q[n] \in {"stagger", "starting", "running"} => ~u[n]
       /\ \A n \in Methods : q[n] \notin {"cancelled", "skipped"}
       /\ \E n \in Methods : q[n] # "none"
  BY Zenon DEF Racing, ProbeOutcomes
<1>16. Blank(d) /\ d.fsm = Probing({n \in Methods : q[n] # "none"})
  BY <1>10, Zenon DEF Racing, Blank
<1>17. d.failures \in Seq(Failures) /\ d.chan \in Seq(Reports)
  BY <1>3, <1>6, <1>9, Zenon
<1>18. /\ Honest(d.failures \o d.chan, q)
       /\ \A i \in DOMAIN (d.failures \o d.chan) :
             q[(d.failures \o d.chan)[i][1]] = (d.failures \o d.chan)[i][2]
       /\ \A n \in Methods : q[n] \in ProbeOutcomes =>
             \E i \in DOMAIN (d.failures \o d.chan) : (d.failures \o d.chan)[i][1] = n
  BY <1>9, <1>11, <1>13, <1>14, Zenon
<1> QED BY <1>15, <1>16, <1>17, <1>18, Zenon DEF Racing

\* A result that is sent while the collector listens is the last in its channel.
LEMMA SentFields ==
    ASSUME CallShape, NEW a \in Starts, NEW m, NEW o, Send(a, m, o), call[a].pc = "collect"
    PROVE  \E new : Goto(a, new) /\ Fields(new, "collect", call[a].fsm,
               Append(call[a].chan, <<m, o>>), call[a].failures, call[a].winner,
               call[a].recorded, call[a].sid, call[a].result)
<1>1. PICK c, ch : c = call[a] /\ ch = Append(call[a].chan, <<m, o>>)
  BY Zenon
<1>2. PICK new : new = [c EXCEPT !.chan = ch]
  BY Zenon
<1>3. IsCall(c) /\ c.pc = "collect"
  BY <1>1 DEF CallShape
<1>4. Fields(new, "collect", c.fsm, ch, c.failures, c.winner, c.recorded, c.sid, c.result)
  BY <1>2, <1>3, Zenon DEF Fields, IsCall, CallFields
<1>5. Goto(a, new)
  BY <1>1, <1>2, Zenon DEF Send, Goto
<1> QED BY <1>1, <1>4, <1>5, Zenon

\* A task that ends with outcome o, during the race or after it.
LEMMA RecReport ==
    ASSUME CallsInv, RecordsInv, NEW a \in Starts, NEW m \in Methods, NEW o \in ProbeOutcomes,
           probe[a][m] \in {"starting", "running"}, probe' = [probe EXCEPT ![a][m] = o],
           token' = token \/ token' = [token EXCEPT ![a][m] = TRUE], Send(a, m, o)
    PROVE  RecordsInv'
<1>1. CallShape /\ RaceShape
  BY DEF CallsInv
<1>2. /\ probe'[a][m] = o /\ \A n \in Methods : n # m => probe'[a][n] = probe[a][n]
      /\ \A b \in Starts : b # a => probe'[b] = probe[b]
  BY <1>1, Zenon DEF RaceShape
<1>3. /\ \A n \in Methods : n # m => token'[a][n] = token[a][n]
      /\ \A b \in Starts : b # a => token'[b] = token[b]
  <2>1. CASE token' = token
    BY <2>1
  <2>2. CASE token' = [token EXCEPT ![a][m] = TRUE]
    BY <1>1, <2>2, Zenon DEF RaceShape
  <2> QED BY <2>1, <2>2, Zenon
<1>4. CASE call[a].pc # "collect"
  <2>1. UNCHANGED call
    BY <1>4 DEF Send
  <2> QED BY <1>1, <1>2, <1>3, <1>4, <2>1, RecLoser, SMTT(30)
<1>5. CASE call[a].pc = "collect"
  <2>1. PICK new : Goto(a, new) /\ Fields(new, "collect", call[a].fsm,
                 Append(call[a].chan, <<m, o>>), call[a].failures, call[a].winner,
                 call[a].recorded, call[a].sid, call[a].result)
    BY <1>1, <1>5, SentFields, Zenon
  <2>2. PICK p, q, t, u, c : /\ p = probe[a] /\ q = probe'[a] /\ t = token[a] /\ u = token'[a]
                             /\ c = call[a]
    BY SMTT(30)
  <2>3. /\ Racing(c, p, t) /\ p[m] \in {"stagger", "starting", "running"} /\ q[m] = o
        /\ \A n \in Methods : n # m => q[n] = p[n] /\ u[n] = t[n]
    BY <1>2, <1>3, <1>5, <2>2, SoundHere, Zenon
  <2>4. /\ new.chan = Append(c.chan, <<m, o>>) /\ new.failures = c.failures
        /\ new.fsm = c.fsm /\ new.recorded = c.recorded /\ new.sid = c.sid
        /\ new.result = c.result /\ new.pc = "collect" /\ IsCall(new)
    BY <2>1, <2>2, Zenon DEF Fields
  <2>5. Racing(new, q, u)
    BY <2>3, <2>4, RacingReports, SMTT(30)
  <2>6. CallSound(a, new, probe'[a], token'[a])
    BY <2>2, <2>4, <2>5, Zenon DEF CallSound
  <2> QED BY <1>1, <1>2, <1>3, <2>1, <2>4, <2>6, RecordsStep, Zenon
<1> QED BY <1>4, <1>5, Zenon

\* A task that begins to dial or dies, or that gives up after the race.
LEMMA RecSilent ==
    ASSUME CallsInv, RecordsInv, NEW a \in Starts, NEW m \in Methods, NEW o \in ProbeStates,
           probe[a][m] \in {"stagger", "starting", "running"}, probe' = [probe EXCEPT ![a][m] = o],
           call' = call, token' = token,
           call[a].pc = "collect" => o \in {"starting", "running", "died"}
    PROVE  RecordsInv'
<1>1. CallShape /\ RaceShape
  BY Zenon DEF CallsInv
<1>2. /\ probe'[a][m] = o /\ \A n \in Methods : n # m => probe'[a][n] = probe[a][n]
      /\ \A b \in Starts : b # a => probe'[b] = probe[b]
  BY <1>1, Zenon DEF RaceShape
<1>3. CASE call[a].pc # "collect"
  BY <1>1, <1>2, <1>3, RecLoser, Zenon
<1>4. CASE call[a].pc = "collect"
  <2>1. PICK p, q, t, c : p = probe[a] /\ q = probe'[a] /\ t = token[a] /\ c = call[a]
    BY SMTT(30)
  <2>2. /\ Racing(c, p, t)
        /\ p[m] \in {"stagger", "starting", "running"} /\ q[m] \in {"starting", "running", "died"}
        /\ \A n \in Methods : n # m => q[n] = p[n]
    BY <1>2, <1>4, <2>1, SoundHere, Zenon
  <2>3. Racing(c, q, t)
    BY <2>2, RacingOn, SMTT(30)
  <2>4. CallSound(a, call'[a], probe'[a], token'[a])
    BY <1>4, <2>1, <2>3, Zenon DEF CallSound
  <2>5. \A b \in Starts : b # a => CallSound(b, call'[b], probe'[b], token'[b])
    BY <1>2, Zenon DEF RecordsInv
  <2> QED BY <2>4, <2>5, SMTT(30) DEF RecordsInv
<1> QED BY <1>3, <1>4, Zenon

LEMMA RecProbe ==
    ASSUME CallsInv, RecordsInv, NEW a \in Starts, NEW m \in Methods, ProbeTask(a, m)
    PROVE  RecordsInv'
<1>1. call[a].pc = "collect" /\ probe[a][m] \in {"stagger", "starting", "running"} => ~token[a][m]
  BY SoundHere, Zenon DEF Racing
<1>2. CASE ProbeWakes(a, m)
  <2>1. PICK o \in ProbeStates : o = IF token[a][m] THEN "skipped" ELSE "starting"
    BY DEF ProbeStates
  <2>2. /\ probe' = [probe EXCEPT ![a][m] = o] /\ call' = call /\ token' = token
        /\ probe[a][m] \in {"stagger", "starting", "running"}
    BY <1>2, <2>1, Zenon DEF ProbeWakes
  <2>3. call[a].pc = "collect" => o \in {"starting", "running", "died"}
    BY <1>1, <2>1, <2>2, Zenon
  <2> QED BY <2>1, <2>2, <2>3, RecSilent, Zenon
<1>3. CASE ProbeSucceeds(a, m)
  <2>1. "Success" \in ProbeOutcomes
    BY DEF ProbeOutcomes
  <2> QED BY <1>3, <2>1, RecReport, Zenon DEF ProbeSucceeds
<1>4. CASE ProbeErrs(a, m)
  <2>1. PICK e \in Errors : /\ probe' = [probe EXCEPT ![a][m] = Classify(e)]
                            /\ Send(a, m, Classify(e))
    BY <1>4, Zenon DEF ProbeErrs
  <2>2. Classify(e) \in ProbeOutcomes
    BY ReasonIsFailure
  <2>3. probe[a][m] \in {"starting", "running"} /\ token' = token
    BY <1>4 DEF ProbeErrs
  <2> QED BY <2>1, <2>2, <2>3, RecReport, Zenon
<1>5. CASE ProbeTimesOut(a, m)
  <2>1. "Timeout" \in ProbeOutcomes
    BY DEF ProbeOutcomes
  <2> QED BY <1>5, <2>1, RecReport, Zenon DEF ProbeTimesOut
<1>6. CASE ProbeCancelled(a, m)
  <2>1. /\ probe[a][m] \in {"stagger", "starting", "running"} /\ token[a][m] /\ token' = token
        /\ probe' = [probe EXCEPT ![a][m] = "cancelled"] /\ Send(a, m, Classify("Cancelled"))
    BY <1>6, Zenon DEF ProbeCancelled
  <2>2. call[a].pc # "collect"
    BY <1>1, <2>1
  <2>3. call' = call
    BY <2>1, <2>2 DEF Send
  <2>4. "cancelled" \in ProbeStates
    BY Zenon DEF ProbeStates
  <2> QED BY <2>1, <2>2, <2>3, <2>4, RecSilent, Zenon
<1>7. CASE ProbeDies(a, m)
  <2>1. /\ probe' = [probe EXCEPT ![a][m] = "died"] /\ call' = call /\ token' = token
        /\ probe[a][m] \in {"stagger", "starting", "running"}
    BY <1>7 DEF ProbeDies
  <2>2. "died" \in ProbeStates
    BY DEF ProbeStates
  <2> QED BY <2>1, <2>2, RecSilent, Zenon
<1>8. CASE ProbeDials(a, m)
  <2>1. /\ probe' = [probe EXCEPT ![a][m] = "running"] /\ call' = call /\ token' = token
        /\ probe[a][m] \in {"stagger", "starting", "running"}
    BY <1>8, Zenon DEF ProbeDials
  <2>2. "running" \in ProbeStates
    BY Zenon DEF ProbeStates
  <2> QED BY <2>1, <2>2, RecSilent, Zenon
<1> QED BY <1>2, <1>3, <1>4, <1>5, <1>6, <1>7, <1>8, Zenon DEF ProbeTask

-----------------------------------------------------------------------------
(* The record, always.                                                     *)

LEMMA RecordsInit == Init => RecordsInv
<1> SUFFICES ASSUME Init, NEW a \in Starts
             PROVE  CallSound(a, call[a], probe[a], token[a])
  BY DEF RecordsInv
<1>1. /\ call[a].pc = "out" /\ call[a].fsm = Idle /\ call[a].chan = <<>>
      /\ call[a].failures = <<>> /\ Blank(call[a])
  BY Zenon DEF Init, Blank
<1>2. \A m \in Methods : probe[a][m] = "none" /\ ~token[a][m]
  BY Zenon DEF Init
<1> QED BY <1>1, <1>2, Zenon DEF CallSound, Fresh

LEMMA RecordsNext == CoordInv /\ RecordsInv /\ [Next]_vars => RecordsInv'
<1> SUFFICES ASSUME CoordInv, RecordsInv, [Next]_vars PROVE RecordsInv'
  OBVIOUS
<1>1. CallsInv /\ CallShape /\ SlotTypeOK
  BY Zenon DEF CoordInv, CallsInv, SlotInv
<1>2. ASSUME NEW a \in Starts, Enter(a) \/ Select(a) \/ CallStep(a) PROVE RecordsInv'
  BY <1>1, <1>2, RecEnter, RecSelect, RecStopExisting, RecCreate, RecSingleProbe, RecCollect,
     RecCancelNext, RecCancelsDone, RecRaceLost, RecBind, RecFetch, RecInstall, RecSettle, Zenon
     DEF CallStep
<1>3. ASSUME NEW a \in Starts, NEW m \in Methods, ProbeTask(a, m) PROVE RecordsInv'
  BY <1>1, <1>3, RecProbe, Zenon
<1>4. CASE HostStop \/ Tasks \/ UNCHANGED vars
  <2>1. UNCHANGED <<call, probe, token>>
    BY <1>4 DEF HostStop, Tasks, raceVars, vars
  <2> QED BY <2>1, Zenon DEF RecordsInv
<1> QED BY <1>2, <1>3, <1>4, Zenon DEF Next

LEMMA RecordsAlways == Spec => []RecordsInv
<1>1. Init => RecordsInv
  BY RecordsInit
<1>2. CoordInv /\ RecordsInv /\ [Next]_vars => RecordsInv'
  BY RecordsNext
<1> QED BY <1>1, <1>2, CoordInvAlways, PTL DEF Spec

\* What a start writes to the scores is what its probes reported before the race was decided,
\* one record per method and none for a loser it cancelled, and a start whose probes all failed
\* has scored every one that reported: start_session_with_params and its RecordScore effects,
\* for any number of starts, methods and failures.
THEOREM ScoresFollowProbesHolds == Spec => []ScoresFollowProbes
<1>1. RecordsInv => ScoresFollowProbes
  <2> SUFFICES ASSUME RecordsInv, NEW a \in Starts
               PROVE  /\ Honest(call[a].recorded, probe[a])
                      /\ call[a].result = "AllProbesFailed" =>
                            Done(a, call[a], probe[a]) /\ call[a].result # "Ok"
    BY Zenon DEF ScoresFollowProbes, ScoresAreHonest, FailedStartIsScored, Honest, Done
  <2>1. CallSound(a, call[a], probe[a], token[a])
    BY DEF RecordsInv
  <2>2. Blank(call[a]) => Honest(call[a].recorded, probe[a]) /\ call[a].result = ""
    <3>1. Honest(<<>>, probe[a])
      BY DEF Honest
    <3> QED BY <3>1, Zenon DEF Blank
  <2> QED BY <2>1, <2>2, Zenon DEF CallSound, Fresh, InPlace, Racing, Won, Served, Done
<1> QED BY <1>1, RecordsAlways, PTL

\* A start leaves all of a session or nothing of it (a success in the scores, a session id and
\* Ok go together, and the port returned is the one it bound), and through the FFI it finds the
\* slot empty: veil_start, start_session_with_params and install_session, for any number of
\* starts, sessions and methods.
THEOREM StartReplacesWholeHolds == Spec => []StartReplacesWhole
<1>1. RecordsInv => StartIsAllOrNothing
  <2> SUFFICES ASSUME RecordsInv, NEW a \in Starts, call[a].pc = "returned"
               PROVE  Done(a, call[a], probe[a])
    BY Zenon DEF StartIsAllOrNothing, Done
  <2> QED BY SoundHere, Zenon
<1>2. RecordsInv /\ FfiInstallsIntoEmptySlot => StartReplacesWhole
  BY <1>1, Zenon DEF StartReplacesWhole
<1> QED BY <1>2, RecordsAlways, FfiEmptySlot, PTL
=============================================================================
