-------------------------- MODULE CoordinatorProofs --------------------------
(***************************************************************************)
(* Proofs about the control plane: the session slot, the session reducer,  *)
(* then the coordinator that drives both.                                  *)
(***************************************************************************)
EXTENDS Coordinator, VeilFsm, WellFoundedInduction, TLAPS

-----------------------------------------------------------------------------
(* Induction, for the members of a set: the library's rules quantify over  *)
(* an operator, which the provers cannot instantiate.                      *)

\* A set of natural numbers that is not empty has a least element.
LEMMA LeastNat ==
    ASSUME NEW T \in SUBSET Nat, T # {}
    PROVE  \E m \in T : \A k \in T : m <= k
<1> DEFINE R == {p \in Nat \X Nat : p[1] < p[2]}
<1>1. IsWellFoundedOn(R, Nat)
    BY NatLessThanWellFounded, Zenon DEF OpToRel
<1>2. \A k, m \in T : <<k, m>> \in R <=> k < m
    BY Zenon
<1> HIDE DEF R
<1>3. PICK m \in T : \A k \in T : ~ (<<k, m>> \in R)
    BY <1>1, WFMin, Zenon
<1>4. \A k \in T : ~ (k < m)
    BY <1>2, <1>3, Zenon
<1>5. \A k \in T : m <= k
    BY <1>4
<1> QED
    BY <1>5, Zenon

\* Induction over the natural numbers, for the members of a set.
LEMMA Induction ==
    ASSUME NEW T, 0 \in T, \A n \in Nat : n \in T => n + 1 \in T
    PROVE  \A n \in Nat : n \in T
<1> SUFFICES ASSUME Nat \ T # {} PROVE FALSE
    BY Zenon
<1>1. PICK m \in Nat \ T : \A k \in Nat \ T : m <= k
    BY LeastNat, Zenon
<1>2. m # 0 /\ m - 1 \in Nat
    BY <1>1
<1>3. m - 1 \in T
    BY <1>1, <1>2
<1> QED
    BY <1>1, <1>2, <1>3

-----------------------------------------------------------------------------
(* Only, of the short lists of effects that reduce returns.                *)

\* g is the function that Only(s, S) computes.
KeptRec(s, S, g) == g = [i \in 0..Len(s) |->
            IF i = 0 THEN <<>>
            ELSE IF s[i] \in S THEN Append(g[i - 1], s[i]) ELSE g[i - 1]]

\* What Only returns is the last value of such a function, if there is one.
LEMMA OnlyIsRec ==
    ASSUME NEW s, NEW S, NEW h, KeptRec(s, S, h)
    PROVE  \E g : KeptRec(s, S, g) /\ Only(s, S) = g[Len(s)]
<1> DEFINE k == CHOOSE g : KeptRec(s, S, g)
<1>1. Only(s, S) = k[Len(s)]
  BY Zenon DEF Only, KeptRec
<1>2. KeptRec(s, S, k)
  BY Zenon
<1> QED BY <1>1, <1>2, Zenon

LEMMA OnlyEmpty == ASSUME NEW S PROVE Only(<<>>, S) = <<>>
<1>1. KeptRec(<<>>, S, [i \in 0..0 |-> <<>>])
  BY DEF KeptRec
<1>2. PICK g : KeptRec(<<>>, S, g) /\ Only(<<>>, S) = g[Len(<<>>)]
  BY <1>1, OnlyIsRec, Zenon
<1> QED BY <1>2 DEF KeptRec

\* The list that is left of a, and of a and b.
OneKept(a, S) == IF a \in S THEN <<a>> ELSE <<>>
TwoKept(a, b, S) == IF b \in S THEN Append(OneKept(a, S), b) ELSE OneKept(a, S)

LEMMA OnlyOfOne ==
    ASSUME NEW a, NEW S
    PROVE  Only(<<a>>, S) = IF a \in S THEN <<a>> ELSE <<>>
<1>1. KeptRec(<<a>>, S, [i \in 0..1 |-> IF i = 0 THEN <<>> ELSE OneKept(a, S)])
  BY DEF KeptRec, OneKept
<1>2. PICK g : KeptRec(<<a>>, S, g) /\ Only(<<a>>, S) = g[Len(<<a>>)]
  BY <1>1, OnlyIsRec, Zenon
<1> QED BY <1>2 DEF KeptRec

LEMMA OnlyOfTwo ==
    ASSUME NEW a, NEW b, NEW S
    PROVE  Only(<<a, b>>, S) = IF b \in S THEN Append(Only(<<a>>, S), b) ELSE Only(<<a>>, S)
<1>1. KeptRec(<<a, b>>, S, [i \in 0..2 |-> IF i = 0 THEN <<>>
                                          ELSE IF i = 1 THEN OneKept(a, S) ELSE TwoKept(a, b, S)])
  BY DEF KeptRec, OneKept, TwoKept
<1>2. PICK g : KeptRec(<<a, b>>, S, g) /\ Only(<<a, b>>, S) = g[Len(<<a, b>>)]
  BY <1>1, OnlyIsRec, Zenon
<1>3. Only(<<a>>, S) = OneKept(a, S)
  BY OnlyOfOne, Zenon DEF OneKept
<1>4. g[2] = TwoKept(a, b, S) /\ Only(<<a, b>>, S) = g[2]
  BY <1>2 DEF KeptRec, OneKept, TwoKept
<1> QED BY <1>3, <1>4, Zenon DEF TwoKept

-----------------------------------------------------------------------------
(***************************************************************************)
(* The safety properties of SessionSlot for every number of sessions and   *)
(* every set of connections, and the refinement of SessionService.         *)
(***************************************************************************)

\* An id that was not handed out has no task.
UnusedIds == \A s \in Sessions : s > nextId => loop[s] = "none"

\* Only a session that has been in the slot is told to end or cancelled, and
\* whatever was told to end, or has left its loop, is cancelled.
SignalsFollowInstall ==
    \A s \in Sessions :
        /\ signalled[s] \/ cancelled[s] => loop[s] \notin {"none", "claimed"}
        /\ signalled[s] => cancelled[s]
        /\ loop[s] \in {"clearing", "done"} => cancelled[s]

\* The inductive invariant.
SlotInv ==
    /\ SlotTypeOK
    /\ UnusedIds
    /\ SignalsFollowInstall
    /\ LiveListenerIsReachable
    /\ SlotIsNotStale

\* SlotInv is inductive: every operation of the host, the proxy tasks and the
\* tunnel tasks preserves it.
LEMMA SlotInvInductive == SlotInv /\ [SlotNext]_slotVars => SlotInv'
<1>. SUFFICES ASSUME SlotInv, [SlotNext]_slotVars
              PROVE  SlotInv'
  BY Zenon
<1>. USE DEF SlotInv
<1>1. CASE FetchId
  <2>. USE <1>1 DEF FetchId
  <2>1. nextId + 1 \in Sessions /\ loop[nextId + 1] = "none"
    BY SlotAssumption DEF SlotTypeOK, UnusedIds, Sessions
  <2>2. SlotTypeOK'  BY <2>1 DEF SlotTypeOK, LoopStates, Sessions
  <2>3. UnusedIds'  BY <2>1 DEF SlotTypeOK, UnusedIds, Sessions
  <2>4. SignalsFollowInstall'  BY <2>1, Zenon DEF SlotTypeOK, SignalsFollowInstall
  <2>5. LiveListenerIsReachable'  BY <2>1, Zenon DEF SlotTypeOK, LiveListenerIsReachable
  <2>6. SlotIsNotStale'  BY <2>1, Zenon DEF SlotTypeOK, SlotIsNotStale, None
  <2>. QED  BY <2>2, <2>3, <2>4, <2>5, <2>6, Zenon
<1>2. ASSUME NEW s \in Sessions, Install(s)
      PROVE  SlotInv'
  <2>. USE <1>2 DEF Install, ShutDown
  <2>1. SlotTypeOK'  BY Zenon DEF SlotTypeOK, LoopStates
  <2>2. UnusedIds'  BY Zenon DEF SlotTypeOK, UnusedIds
  <2>3. SignalsFollowInstall'
    BY SlotAssumption DEF SlotTypeOK, SignalsFollowInstall, SlotIsNotStale, Sessions, None
  <2>4. LiveListenerIsReachable'  BY Zenon DEF SlotTypeOK, LiveListenerIsReachable
  <2>5. SlotIsNotStale'
    BY SlotAssumption, Zenon DEF SlotTypeOK, SignalsFollowInstall, SlotIsNotStale, Sessions, None
  <2>. QED  BY <2>1, <2>2, <2>3, <2>4, <2>5, Zenon
<1>3. CASE StopSession
  <2>. USE <1>3 DEF StopSession, ShutDown
  <2>1. SlotTypeOK'  BY Zenon DEF SlotTypeOK
  <2>2. UnusedIds'  BY Zenon DEF UnusedIds
  <2>3. SignalsFollowInstall'  BY Zenon DEF SlotTypeOK, SignalsFollowInstall, SlotIsNotStale
  <2>4. LiveListenerIsReachable'  BY Zenon DEF SlotTypeOK, LiveListenerIsReachable
  <2>5. SlotIsNotStale'  BY Zenon DEF SlotIsNotStale
  <2>. QED  BY <2>1, <2>2, <2>3, <2>4, <2>5, Zenon
<1>4. ASSUME NEW s \in Sessions, AcceptExhausted(s) \/ RetryAccept(s)
      PROVE  SlotInv'
  <2>. USE <1>4 DEF AcceptExhausted, RetryAccept
  <2>1. SlotTypeOK'  BY Zenon DEF SlotTypeOK, LoopStates
  <2>2. UnusedIds'  BY Zenon DEF SlotTypeOK, UnusedIds
  <2>3. SignalsFollowInstall'  BY DEF SlotTypeOK, SignalsFollowInstall
  <2>4. LiveListenerIsReachable'  BY Zenon DEF SlotTypeOK, LiveListenerIsReachable
  <2>5. SlotIsNotStale'  BY DEF SlotTypeOK, SlotIsNotStale
  <2>. QED  BY <2>1, <2>2, <2>3, <2>4, <2>5
<1>5. ASSUME NEW s \in Sessions, ListenerBroken(s) \/ ObserveShutdown(s)
      PROVE  SlotInv'
  <2>. USE <1>5 DEF ListenerBroken, ObserveShutdown, LeaveLoop
  <2>1. SlotTypeOK'  BY Zenon DEF SlotTypeOK, LoopStates
  <2>2. UnusedIds'  BY DEF SlotTypeOK, UnusedIds
  <2>3. SignalsFollowInstall'  BY DEF SlotTypeOK, SignalsFollowInstall
  <2>4. LiveListenerIsReachable'  BY Zenon DEF SlotTypeOK, LiveListenerIsReachable
  <2>5. SlotIsNotStale'  BY DEF SlotTypeOK, SlotIsNotStale
  <2>. QED  BY <2>1, <2>2, <2>3, <2>4, <2>5, Zenon
<1>6. ASSUME NEW s \in Sessions, ClearSlot(s)
      PROVE  SlotInv'
  <2>. USE <1>6 DEF ClearSlot
  <2>1. SlotTypeOK'  BY Zenon DEF SlotTypeOK, LoopStates
  <2>2. UnusedIds'  BY Zenon DEF SlotTypeOK, UnusedIds
  <2>3. SignalsFollowInstall'  BY Zenon DEF SlotTypeOK, SignalsFollowInstall
  <2>4. LiveListenerIsReachable'  BY Zenon DEF SlotTypeOK, LiveListenerIsReachable
  <2>5. SlotIsNotStale'  BY Zenon DEF SlotTypeOK, SlotIsNotStale
  <2>. QED  BY <2>1, <2>2, <2>3, <2>4, <2>5
<1>7. ASSUME UNCHANGED <<nextId, slot, loop, signalled, cancelled>>,
             tunnel' \in [Conns -> Sessions \cup {None}]
      PROVE  SlotInv'
  <2>. USE <1>7
  <2>1. SlotTypeOK'  BY Zenon DEF SlotTypeOK
  <2>2. UnusedIds'  BY Zenon DEF UnusedIds
  <2>3. SignalsFollowInstall'  BY Zenon DEF SignalsFollowInstall
  <2>4. LiveListenerIsReachable'  BY Zenon DEF LiveListenerIsReachable
  <2>5. SlotIsNotStale'  BY DEF SlotIsNotStale
  <2>. QED  BY <2>1, <2>2, <2>3, <2>4, <2>5
<1>8. ASSUME NEW s \in Sessions, NEW c \in Conns, Accept(s, c)
      PROVE  SlotInv'
  BY <1>7, <1>8 DEF Accept, SlotTypeOK
<1>9. ASSUME NEW c \in Conns, TunnelEnds(c)
      PROVE  SlotInv'
  BY <1>7, <1>9, Zenon DEF TunnelEnds, SlotTypeOK
<1>10. ASSUME NEW c \in Conns, TunnelCancelled(c)
       PROVE  SlotInv'
  BY <1>7, <1>10 DEF TunnelCancelled, SlotTypeOK
<1>11. CASE UNCHANGED slotVars
  BY <1>7, <1>11 DEF slotVars, SlotTypeOK
<1>. QED
  BY <1>1, <1>2, <1>3, <1>4, <1>5, <1>6, <1>8, <1>9, <1>10, <1>11, Zenon
     DEF SlotNext, Background

\* The initial state, with an empty slot and no task, satisfies SlotInv.
LEMMA SlotInvInitially == SlotInit => SlotInv
BY SlotAssumption DEF SlotInit, SlotInv, SlotTypeOK, UnusedIds, SignalsFollowInstall,
       LiveListenerIsReachable, SlotIsNotStale, Sessions, None, LoopStates

\* SlotInv holds in every reachable state.
THEOREM SlotInvHolds == SlotSpec => []SlotInv
BY SlotInvInitially, SlotInvInductive, PTL DEF SlotSpec

\* The variables of the slot keep their types: in particular the slot only ever
\* holds an id that next_session_id can produce.
THEOREM SlotTypeCorrect == SlotSpec => []SlotTypeOK
<1>1. SlotInv => SlotTypeOK  BY Zenon DEF SlotInv
<1>. QED  BY <1>1, SlotInvHolds, PTL

\* A listener nobody told to end is the one in the slot, and the slot never names a session
\* that was told to end or whose task is over, however installs, stops and the clean-up of
\* older proxy tasks interleave.
THEOREM SlotNamesListener == SlotSpec => []SlotNamesTheListener
<1>1. SlotInv => SlotNamesTheListener  BY DEF SlotInv, SlotNamesTheListener
<1>. QED  BY <1>1, SlotInvHolds, PTL

\* No tunnel outlives its listener without being cancelled.
THEOREM TunnelsFollow == SlotSpec => []TunnelsFollowListener
<1>1. SlotInv => TunnelsFollowListener
  BY Zenon DEF SlotInv, SlotTypeOK, SignalsFollowInstall, TunnelsFollowListener, None
<1>. QED  BY <1>1, SlotInvHolds, PTL

-----------------------------------------------------------------------------
(* Refinement of SessionService.                                           *)

\* A step of the slot is a step of the service or leaves it alone.
LEMMA SlotStepRefines ==
    SlotInv /\ SlotInv' /\ [SlotNext]_slotVars => [Service!Next]_Service!vars
<1>. SUFFICES ASSUME SlotInv, SlotInv', [SlotNext]_slotVars
              PROVE  [Service!Next]_Service!vars
  BY Zenon
<1>. DEFINE status == [s \in Sessions |-> StatusOf(s)]
<1>. Service!Sessions = Sessions
  BY Zenon DEF Service!Sessions, Sessions
<1>0. /\ slot \in Sessions \cup {0}
      /\ loop \in [Sessions -> LoopStates]
      /\ signalled \in [Sessions -> BOOLEAN]
  BY Zenon DEF SlotInv, SlotTypeOK, None
<1>1. CASE FetchId
  <2>1. nextId + 1 \in Sessions /\ loop[nextId + 1] = "none"
    BY <1>1, SlotAssumption DEF FetchId, SlotInv, SlotTypeOK, UnusedIds, Sessions
  <2>2. \A s \in Sessions : StatusOf(s)' = StatusOf(s)
    BY <1>0, <1>1, <2>1, Zenon DEF FetchId, StatusOf
  <2>. QED  BY <1>1, <2>2 DEF FetchId, Service!vars
<1>2. ASSUME NEW s \in Sessions, Install(s)
      PROVE  Service!Begin(s)
  <2>1. StatusOf(s) = "fresh"  BY <1>2 DEF Install, StatusOf
  <2>2. StatusOf(s)' = "serving"
    <3>1. s # None  BY SlotAssumption DEF Sessions, None
    <3>2. ~signalled'[s]  BY <1>2, <3>1, Zenon DEF Install, SlotInv, SlotIsNotStale
    <3>. QED  BY <1>0, <1>2, <3>2 DEF Install, StatusOf
  <2>3. ASSUME NEW t \in Sessions, t # s
        PROVE  StatusOf(t)' = IF StatusOf(t) = "serving" THEN "ended" ELSE StatusOf(t)
    BY <1>0, <1>2, <2>3, Zenon
       DEF Install, ShutDown, StatusOf, SlotInv, SlotIsNotStale, LiveListenerIsReachable
  <2>. QED  BY <1>2, <2>1, <2>2, <2>3 DEF Install, Service!Begin
<1>3. CASE StopSession
  <2>1. \A t \in Sessions : StatusOf(t)' = IF t = slot THEN "ended" ELSE StatusOf(t)
    BY <1>0, <1>3, Zenon DEF StopSession, ShutDown, StatusOf, SlotInv, SlotIsNotStale
  <2>2. status' = [status EXCEPT ![slot] = "ended"]
    BY <2>1, Zenon
  <2>3. slot # 0 /\ slot' = 0
    BY <1>3, Zenon DEF StopSession, None
  <2>4. Service!Stop
    BY <2>2, <2>3, Zenon DEF Service!Stop
  <2>. QED  BY <2>4, Zenon DEF Service!Next
<1>4. ASSUME NEW s \in Sessions, AcceptExhausted(s) \/ RetryAccept(s)
      PROVE  UNCHANGED Service!vars
  <2>1. \A t \in Sessions : StatusOf(t)' = StatusOf(t)
    BY <1>0, <1>4 DEF AcceptExhausted, RetryAccept, StatusOf
  <2>. QED  BY <1>4, <2>1, Zenon DEF AcceptExhausted, RetryAccept, Service!vars
<1>5. ASSUME NEW s \in Sessions, ListenerBroken(s) \/ ObserveShutdown(s)
      PROVE  [Service!Next]_Service!vars
  <2>1. \A t \in Sessions : StatusOf(t)' = IF t = s THEN "ended" ELSE StatusOf(t)
    BY <1>0, <1>5, Zenon DEF ListenerBroken, ObserveShutdown, LeaveLoop, StatusOf
  <2>2. slot' = slot
    BY <1>5, Zenon DEF ListenerBroken, ObserveShutdown
  <2>3. StatusOf(s) \in {"serving", "ended"}
    BY <1>5, Zenon DEF ListenerBroken, ObserveShutdown, StatusOf
  <2>4. CASE StatusOf(s) = "serving"
    <3>1. status' = [status EXCEPT ![s] = "ended"]  BY <2>1, Zenon
    <3>2. Service!Die(s)  BY <2>2, <2>4, <3>1, Zenon DEF Service!Die
    <3>. QED  BY <3>2, Zenon DEF Service!Next
  <2>5. CASE StatusOf(s) = "ended"
    BY <2>1, <2>2, <2>5, Zenon DEF Service!vars
  <2>. QED  BY <2>3, <2>4, <2>5, Zenon
<1>6. ASSUME NEW s \in Sessions, ClearSlot(s)
      PROVE  [Service!Next]_Service!vars
  <2>1. \A t \in Sessions : StatusOf(t)' = StatusOf(t)
    BY <1>0, <1>6, Zenon DEF ClearSlot, StatusOf
  <2>2. CASE slot = s
    <3>1. StatusOf(s) = "ended"  BY <1>6 DEF ClearSlot, StatusOf
    <3>2. slot # 0  BY <2>2, SlotAssumption DEF Sessions
    <3>3. slot' = 0 /\ status' = status  BY <1>6, <2>1, <2>2, Zenon DEF ClearSlot, None
    <3>4. Service!Forget  BY <2>2, <3>1, <3>2, <3>3 DEF Service!Forget
    <3>. QED  BY <3>4, Zenon DEF Service!Next
  <2>3. CASE slot # s
    BY <1>6, <2>1, <2>3, Zenon DEF ClearSlot, Service!vars
  <2>. QED  BY <2>2, <2>3, Zenon
<1>7. ASSUME slot' = slot, loop' = loop, signalled' = signalled
      PROVE  UNCHANGED Service!vars
  BY <1>7, Zenon DEF StatusOf, Service!vars
<1>. QED
  BY <1>1, <1>2, <1>3, <1>4, <1>5, <1>6, <1>7
     DEF SlotNext, Background, Accept, TunnelEnds, TunnelCancelled, slotVars, Service!Next

\* The slot implements the safety part of SessionService: one session serves at
\* a time, an ended session never serves again, and what the host is told about
\* is the serving session or one that ended by itself.
THEOREM SlotRefinesService == SlotSpec => Service!SafetySpec
<1>1. SlotInit => Service!Init
  BY Zenon DEF SlotInit, Service!Init, Service!Sessions, Sessions, StatusOf, None
<1>. QED
  BY <1>1, SlotInvHolds, SlotStepRefines, PTL DEF SlotSpec, Service!SafetySpec

-----------------------------------------------------------------------------
(***************************************************************************)
(* Proofs about the session reducer, for any methods, ports, thresholds    *)
(* and sequence of events.                                                 *)
(***************************************************************************)

Tags == {"Idle", "Probing", "Active", "Degraded", "Cooldown"}

Limit == IF DegradedThreshold = 0 THEN 1 ELSE DegradedThreshold

\* While Active the counter is the number of failures seen, and it has not reached the
\* threshold; Degraded is entered with a counter that has, so the next failure ends it.
CounterIsExact ==
    /\ st.tag = "Active" => /\ st.fails \in 0..U8Max
                            /\ seen = st.fails
                            /\ st.fails = 0 \/ st.fails < DegradedThreshold
    /\ st.tag = "Degraded" => /\ st.fails \in Nat
                              /\ st.fails >= DegradedThreshold
                              /\ seen <= Limit

\* The inductive invariant.
FsmInv ==
    /\ st.tag \in Tags
    /\ proxy \in BOOLEAN
    /\ seen \in Nat
    /\ ~proxy => seen = 0
    /\ ProxyMatchesState
    /\ CounterIsExact

-----------------------------------------------------------------------------
(* What one call of reduce returns, state by state.                        *)

\* Out of Idle and Cooldown nothing becomes Active, and nothing is stopped.
LEMMA RestOut ==
    ASSUME NEW s, NEW ev, s.tag \in {"Idle", "Cooldown"}
    PROVE  Reduce(s, ev).state.tag \in {"Idle", "Cooldown", "Probing"}
<1>1. CASE s.tag = "Idle"
  <2>1. Reduce(s, ev) = ReduceIdle(s, ev)
    BY <1>1, Zenon DEF Reduce
  <2>2. QED
    BY <1>1, <2>1 DEF ReduceIdle, To, Cooldown, Probing
<1>2. CASE s.tag = "Cooldown"
  <2>1. Reduce(s, ev) = ReduceCooldown(s, ev)
    BY <1>2, Zenon DEF Reduce
  <2>2. QED
    BY <1>2, <2>1 DEF ReduceCooldown, To, Idle
<1>3. QED
  BY <1>1, <1>2, Zenon

\* A probing round goes on, is won with a fresh counter, or is over; a win stops nothing.
LEMMA ProbingOut ==
    ASSUME NEW s, NEW ev, s.tag = "Probing"
    PROVE  LET out == Reduce(s, ev) IN
           \/ out.state.tag \in {"Probing", "Cooldown", "Idle"}
           \/ /\ out.state.tag = "Active" /\ out.state.fails = 0
              /\ ~Has(out.effects, "StopActive")
              /\ ev.tag = "ProbeSucceeded"
<1>1. Reduce(s, ev) = ReduceProbing(s, ev)
  BY Zenon DEF Reduce
<1>2. CASE ev.tag = "ProbeSucceeded" /\ ev.method \in s.candidates
  <2>1. ReduceProbing(s, ev) = To(Active(ev.method, ev.port, 0),
               <<CancelOtherProbes(ev.method), RecordScore(ev.method, "Success")>>)
    BY <1>2, Zenon DEF ReduceProbing
  <2>2. ~Has(<<CancelOtherProbes(ev.method), RecordScore(ev.method, "Success")>>, "StopActive")
    BY DEF Has, CancelOtherProbes, RecordScore
  <2>3. QED
    BY <1>1, <1>2, <2>1, <2>2 DEF To, Active
<1>3. CASE ev.tag = "ProbeFailed" /\ ev.method \in s.candidates
  <2>1. ReduceProbing(s, ev) = CandidateFailed(s.candidates, ev)
    BY <1>3, Zenon DEF ReduceProbing
  <2>2. QED
    BY <1>1, <2>1 DEF CandidateFailed, To, Cooldown, Probing
<1>4. CASE /\ ~(ev.tag = "ProbeSucceeded" /\ ev.method \in s.candidates)
           /\ ~(ev.tag = "ProbeFailed" /\ ev.method \in s.candidates)
  BY <1>1, <1>4 DEF ReduceProbing, To, Cooldown, Idle
<1>5. QED
  BY <1>2, <1>3, <1>4, Zenon

\* An active session stays, is degraded, or is stopped.
LEMMA ActiveOut ==
    ASSUME NEW s, NEW ev, s.tag = "Active"
    PROVE  LET out == Reduce(s, ev) IN
           \/ /\ ev.tag # "TransportFailure" /\ out.state = s
              /\ ~Has(out.effects, "StopActive")
           \/ /\ ev.tag = "TransportFailure" /\ out.state = ActiveFailed(s, ev.kind)
              /\ ~Has(out.effects, "StopActive")
           \/ /\ out.state.tag = "Idle" /\ Has(out.effects, "StopActive")
<1>1. Reduce(s, ev) = ReduceActive(s, ev)
  BY Zenon DEF Reduce
<1>2. ~Has(<<>>, "StopActive") /\ Has(<<StopActive>>, "StopActive")
  BY DEF Has, StopActive
<1>3. QED
  BY <1>1, <1>2 DEF ReduceActive, To, Idle

\* A degraded session at the threshold stays as it is, or is stopped; any failure stops it
\* but a certificate problem.
LEMMA DegradedOut ==
    ASSUME NEW s, NEW ev, s.tag = "Degraded", s.fails >= DegradedThreshold
    PROVE  LET out == Reduce(s, ev) IN
           \/ /\ ~(ev.tag = "TransportFailure" /\ ev.kind # "TlsCertProblem")
              /\ out.state = s /\ ~Has(out.effects, "StopActive")
           \/ /\ out.state.tag = "Idle" /\ Has(out.effects, "StopActive")
<1>1. Reduce(s, ev) = ReduceDegraded(s, ev)
  BY Zenon DEF Reduce
<1>2. ~Has(<<>>, "StopActive") /\ Has(<<StopActive>>, "StopActive")
  BY DEF Has, StopActive
<1>3. QED
  BY <1>1, <1>2 DEF ReduceDegraded, To, Idle

-----------------------------------------------------------------------------
(* The invariant is inductive.                                             *)

\* One call of reduce, by the state it is made in.
LEMMA FeedPreserves ==
    ASSUME FsmInv, NEW ev, Feed(ev)
    PROVE  FsmInv'
<1> DEFINE out == Reduce(st, ev)
<1>0. /\ st' = out.state
      /\ proxy' = ((proxy \/ out.state.tag = "Active") /\ ~Has(out.effects, "StopActive"))
      /\ seen' = IF ~proxy' THEN 0
                 ELSE IF ev.tag = "TransportFailure" /\ ev.kind # "TlsCertProblem"
                 THEN seen + 1 ELSE seen
  BY Zenon DEF Feed
<1>1. proxy' \in BOOLEAN /\ seen' \in Nat
  BY <1>0 DEF FsmInv
<1>2. CASE st.tag \in {"Idle", "Cooldown"}
  <2>1. out.state.tag \in {"Idle", "Cooldown", "Probing"}
    BY <1>2, RestOut
  <2>2. ~proxy
    BY <1>2, Zenon DEF FsmInv, ProxyMatchesState
  <2>3. QED
    BY <1>0, <1>1, <2>1, <2>2, Zenon DEF FsmInv, ProxyMatchesState, CounterIsExact, Tags
<1>3. CASE st.tag = "Probing"
  <2>1. ~proxy
    BY <1>3, Zenon DEF FsmInv, ProxyMatchesState
  <2>2. CASE out.state.tag \in {"Probing", "Cooldown", "Idle"}
    BY <1>0, <1>1, <2>1, <2>2 DEF FsmInv, ProxyMatchesState, CounterIsExact, Tags
  <2>3. CASE /\ out.state.tag = "Active" /\ out.state.fails = 0
             /\ ~Has(out.effects, "StopActive")
             /\ ev.tag = "ProbeSucceeded"
    <3>1. proxy' /\ st'.tag = "Active" /\ st'.fails = 0
      BY <1>0, <2>3, Zenon
    <3>2. seen' = 0
      BY <1>0, <2>1, <2>3, <3>1, Zenon DEF FsmInv
    <3>3. QED
      BY <1>1, <3>1, <3>2, ReducerAssumption DEF FsmInv, ProxyMatchesState, CounterIsExact, Tags
  <2>4. QED
    BY <1>3, <2>2, <2>3, ProbingOut, Zenon
<1>4. CASE st.tag = "Active"
  <2>1. proxy
    BY <1>4, Zenon DEF FsmInv, ProxyMatchesState
  <2>2. CASE /\ ev.tag # "TransportFailure" /\ out.state = st
             /\ ~Has(out.effects, "StopActive")
    <3>1. proxy' /\ st' = st /\ seen' = seen
      BY <1>0, <2>1, <2>2, Zenon
    <3>2. QED
      BY <1>1, <1>4, <3>1, Zenon DEF FsmInv, ProxyMatchesState, CounterIsExact
  <2>3. CASE /\ ev.tag = "TransportFailure" /\ out.state = ActiveFailed(st, ev.kind)
             /\ ~Has(out.effects, "StopActive")
    <3>1. proxy'
      BY <1>0, <2>1, <2>3, Zenon
    <3>2. CASE ev.kind = "TlsCertProblem"
      <4>1. st' = st /\ seen' = seen
        BY <1>0, <2>3, <3>1, <3>2 DEF ActiveFailed
      <4>2. QED
        BY <1>1, <1>4, <3>1, <4>1, Zenon DEF FsmInv, ProxyMatchesState, CounterIsExact
    <3>3. CASE ev.kind # "TlsCertProblem"
      <4> DEFINE n == IF ev.kind = "FingerprintBlocked" THEN U8Max
                      ELSE SaturatingInc(st.fails)
      <4>1. seen' = seen + 1
        BY <1>0, <2>3, <3>1, <3>3, Zenon
      <4>2. /\ st.fails \in 0..U8Max /\ seen = st.fails
            /\ st.fails = 0 \/ st.fails < DegradedThreshold
        BY <1>4, Zenon DEF FsmInv, CounterIsExact
      <4>3. /\ n \in 0..U8Max
            /\ n < DegradedThreshold => n = st.fails + 1
        BY <4>2, ReducerAssumption DEF SaturatingInc
      <4>4. CASE n >= DegradedThreshold
        <5>1. st'.tag = "Degraded" /\ st'.fails = n
          BY <1>0, <2>3, <3>3, <4>4 DEF ActiveFailed, Degraded
        <5>2. seen' <= Limit
          BY <4>1, <4>2, ReducerAssumption DEF Limit
        <5>3. QED
          BY <1>1, <3>1, <4>3, <4>4, <5>1, <5>2, ReducerAssumption
          DEF FsmInv, ProxyMatchesState, CounterIsExact, Tags, Limit
      <4>5. CASE ~(n >= DegradedThreshold)
        <5>1. st'.tag = "Active" /\ st'.fails = n
          BY <1>0, <2>3, <3>3, <4>5 DEF ActiveFailed, Active
        <5>2. n < DegradedThreshold /\ seen' = n
          BY <4>1, <4>2, <4>3, <4>5, ReducerAssumption
        <5> HIDE DEF n
        <5>3. QED
          BY <1>1, <3>1, <4>3, <5>1, <5>2, Zenon
          DEF FsmInv, ProxyMatchesState, CounterIsExact, Tags
      <4>6. QED
        BY <4>4, <4>5, Zenon
    <3>4. QED
      BY <3>2, <3>3, Zenon
  <2>4. CASE out.state.tag = "Idle" /\ Has(out.effects, "StopActive")
    BY <1>0, <1>1, <2>4, Zenon DEF FsmInv, ProxyMatchesState, CounterIsExact, Tags
  <2>5. QED
    BY <1>4, <2>2, <2>3, <2>4, ActiveOut, Zenon
<1>5. CASE st.tag = "Degraded"
  <2>1. proxy /\ st.fails >= DegradedThreshold
    BY <1>5, Zenon DEF FsmInv, ProxyMatchesState, CounterIsExact
  <2>2. CASE /\ ~(ev.tag = "TransportFailure" /\ ev.kind # "TlsCertProblem")
             /\ out.state = st /\ ~Has(out.effects, "StopActive")
    <3>1. proxy' /\ st' = st /\ seen' = seen
      BY <1>0, <2>1, <2>2, Zenon
    <3>2. QED
      BY <1>1, <1>5, <3>1 DEF FsmInv, ProxyMatchesState, CounterIsExact, Limit
  <2>3. CASE out.state.tag = "Idle" /\ Has(out.effects, "StopActive")
    BY <1>0, <1>1, <2>3, Zenon DEF FsmInv, ProxyMatchesState, CounterIsExact, Tags
  <2>4. QED
    BY <1>5, <2>1, <2>2, <2>3, DegradedOut, Zenon
<1>6. QED
  BY <1>2, <1>3, <1>4, <1>5, Zenon DEF FsmInv, Tags

\* Every event the host may feed keeps the invariant.
LEMMA FsmInvInductive == FsmInv /\ [FsmNext]_fsmVars => FsmInv'
<1> SUFFICES ASSUME FsmInv, [FsmNext]_fsmVars
             PROVE  FsmInv'
  BY Zenon
<1>1. CASE FsmNext
  <2>1. PICK ev : Feed(ev)
    BY <1>1, Zenon DEF FsmNext, Start, Stop, ProbeWins, ProbeLoses, GiveUp, TransportFails,
                CooldownTimer
  <2>2. QED
    BY <2>1, FeedPreserves, Zenon
<1>2. CASE UNCHANGED fsmVars
  BY <1>2, Zenon DEF fsmVars, FsmInv, ProxyMatchesState, CounterIsExact
<1>3. QED
  BY <1>1, <1>2, Zenon

\* It holds in Idle, where the machine begins, so it always holds.
LEMMA FsmInvHolds == FsmSpec => []FsmInv
<1>1. ASSUME FsmInit PROVE FsmInv
  <2>1. st.tag = "Idle" /\ ~proxy /\ proxy \in BOOLEAN /\ seen = 0
    BY <1>1, Zenon DEF FsmInit, Idle
  <2>2. QED
    BY <2>1, Zenon DEF FsmInv, Tags, ProxyMatchesState, CounterIsExact
<1>2. QED
  BY <1>1, FsmInvInductive, PTL DEF FsmSpec

\* The caller's proxy runs exactly while reduce is in Active or Degraded, for any sequence of
\* events: no way out of the two states forgets StopActive.
THEOREM ProxyFollowsState == FsmSpec => []ProxyMatchesState
<1>1. FsmInv => ProxyMatchesState
  BY Zenon DEF FsmInv
<1>2. QED
  BY <1>1, FsmInvHolds, PTL

\* reduce gives a transport up after at most threshold + 1 failures, for every threshold the
\* u8 counter can hold: saturating_add never brings the count back under the threshold.
THEOREM ToleranceIsBounded == FsmSpec => []BoundedTolerance
<1>1. FsmInv => BoundedTolerance
  <2>1. ASSUME FsmInv, st.tag = "Active" PROVE seen <= Limit
    BY <2>1, ReducerAssumption DEF FsmInv, CounterIsExact, Limit
  <2>2. ASSUME FsmInv, st.tag = "Degraded" PROVE seen <= Limit
    BY <2>2, Zenon DEF FsmInv, CounterIsExact
  <2>3. QED
    BY <2>1, <2>2, Zenon DEF BoundedTolerance, Limit
<1>2. QED
  BY <1>1, FsmInvHolds, PTL


-----------------------------------------------------------------------------
(* Scores.                                                                 *)

\* The scores in the lists of effects that reduce returns.
LEMMA NoScoreEffect ==
    ASSUME NEW e, e.tag # "RecordScore"
    PROVE  ScoreEffects(<<>>) = <<>> /\ ScoreEffects(<<e>>) = <<>>
BY OnlyEmpty, OnlyOfOne, Zenon DEF ScoreEffects

LEMMA OneScoreEffect ==
    ASSUME NEW e, e.tag # "RecordScore", NEW s, s.tag = "RecordScore"
    PROVE  /\ ScoreEffects(<<s>>) = <<s>>
           /\ ScoreEffects(<<s, e>>) = <<s>>
           /\ ScoreEffects(<<e, s>>) = <<s>>
<1>1. ScoreEffects(<<s>>) = <<s>>
  <2>1. s \in {x \in Range(<<s>>) : x.tag = "RecordScore"}
    BY DEF Range
  <2> QED BY <2>1, OnlyOfOne, Zenon DEF ScoreEffects
<1>2. ScoreEffects(<<s, e>>) = <<s>>
  <2> DEFINE S == {x \in Range(<<s, e>>) : x.tag = "RecordScore"}
  <2>1. s \in S /\ e \notin S
    BY DEF Range
  <2> HIDE DEF S
  <2>2. Only(<<s>>, S) = <<s>>
    BY <2>1, OnlyOfOne, Zenon
  <2>3. Only(<<s, e>>, S) = <<s>>
    BY <2>1, <2>2, OnlyOfTwo, Zenon
  <2> QED BY <2>3, Zenon DEF ScoreEffects, S
<1>3. ScoreEffects(<<e, s>>) = <<s>>
  <2> DEFINE S == {x \in Range(<<e, s>>) : x.tag = "RecordScore"}
  <2>1. s \in S /\ e \notin S
    BY DEF Range
  <2> HIDE DEF S
  <2>2. Only(<<e>>, S) = <<>>
    BY <2>1, OnlyOfOne, Zenon
  <2>3. Only(<<e, s>>, S) = Append(<<>>, s)
    BY <2>1, <2>2, OnlyOfTwo, Zenon
  <2>4. Append(<<>>, s) = <<s>>
    OBVIOUS
  <2> QED BY <2>3, <2>4, Zenon DEF ScoreEffects, S
<1> QED BY <1>1, <1>2, <1>3, Zenon

LEMMA NoScore ==
    ASSUME NEW e, e.tag # "RecordScore"
    PROVE  Scores(<<>>) = <<>> /\ Scores(<<e>>) = <<>>
<1>1. ASSUME NEW x, ScoreEffects(x) = <<>> PROVE Scores(x) = <<>>
  BY <1>1 DEF Scores
<1> QED BY <1>1, NoScoreEffect, Zenon

LEMMA OneScore ==
    ASSUME NEW e, e.tag # "RecordScore", NEW m, NEW o
    PROVE  /\ Scores(<<RecordScore(m, o)>>) = <<m>>
           /\ Scores(<<RecordScore(m, o), e>>) = <<m>>
           /\ Scores(<<e, RecordScore(m, o)>>) = <<m>>
<1>0. RecordScore(m, o).tag = "RecordScore" /\ RecordScore(m, o).method = m
  BY Zenon DEF RecordScore
<1>1. PICK s : s = RecordScore(m, o) /\ s.tag = "RecordScore" /\ s.method = m
  BY <1>0, Zenon
<1>2. ASSUME NEW x, ScoreEffects(x) = <<s>> PROVE Scores(x) = <<m>>
  BY <1>1, <1>2 DEF Scores
<1> QED BY <1>1, <1>2, OneScoreEffect, Zenon

\* The inductive invariant: what RoundIsAccounted says, of candidates of the round.
RoundInv ==
    /\ scored \in Seq(round)
    /\ st.tag = "Probing" => st.candidates \subseteq round
    /\ RoundIsAccounted

\* Only a probing round is scored, one candidate at a time, which leaves the race.
LEMMA ScoreStep ==
    ASSUME NEW s, NEW ev, s.tag \in Tags
    PROVE  LET out == Reduce(s, ev) IN
           \/ /\ s.tag = "Idle" /\ ev.tag = "Start"
              /\ Scores(out.effects) = <<>>
              /\ \/ out.state = Cooldown /\ Range(ev.candidates) = {}
                 \/ out.state = Probing(Range(ev.candidates))
           \/ /\ s.tag = "Probing" /\ ev.tag = "AllProbesFailed"
              /\ Scores(out.effects) = <<>> /\ out.state = Cooldown
           \/ /\ s.tag = "Probing" /\ ev.tag \in {"ProbeSucceeded", "ProbeFailed"}
              /\ ev.method \in s.candidates /\ Scores(out.effects) = <<ev.method>>
              /\ \/ out.state.tag = "Active"
                 \/ out.state = Cooldown /\ s.candidates = {ev.method}
                 \/ out.state = Probing(s.candidates \ {ev.method})
           \/ /\ ~(s.tag = "Idle" /\ ev.tag = "Start") /\ Scores(out.effects) = <<>>
              /\ out.state = s \/ out.state.tag \in {"Idle", "Active", "Degraded"}
<1> DEFINE out == Reduce(s, ev)
<1>0. Scores(<<>>) = <<>> /\ Scores(<<ScheduleCooldown>>) = <<>> /\ Scores(<<StopActive>>) = <<>>
      /\ \A q : Scores(<<StartProbes(q)>>) = <<>>
  BY NoScore DEF ScheduleCooldown, StopActive, StartProbes
<1>1. CASE s.tag = "Idle"
  <2>1. out = ReduceIdle(s, ev)
    BY <1>1, Zenon DEF Reduce
  <2>2. CASE ev.tag # "Start"
    BY <1>0, <1>1, <2>1, <2>2, SMTT(30) DEF ReduceIdle, To
  <2>3. CASE ev.tag = "Start" /\ ev.candidates = <<>>
    BY <1>0, <1>1, <2>1, <2>3, SMTT(30) DEF ReduceIdle, To, Range
  <2>4. CASE ev.tag = "Start" /\ ev.candidates # <<>>
    BY <1>0, <1>1, <2>1, <2>4 DEF ReduceIdle, To
  <2> QED BY <2>2, <2>3, <2>4, Zenon
<1>2. CASE s.tag = "Probing"
  <2>1. out = ReduceProbing(s, ev)
    BY <1>2, Zenon DEF Reduce
  <2>2. CASE ev.tag = "ProbeSucceeded" /\ ev.method \in s.candidates
    <3>1. out = To(Active(ev.method, ev.port, 0),
               <<CancelOtherProbes(ev.method), RecordScore(ev.method, "Success")>>)
      BY <2>1, <2>2, Zenon DEF ReduceProbing
    <3>2. Scores(<<CancelOtherProbes(ev.method), RecordScore(ev.method, "Success")>>) = <<ev.method>>
      <4>1. PICK e, m : e = CancelOtherProbes(ev.method) /\ e.tag # "RecordScore" /\ m = ev.method
        <5>1. CancelOtherProbes(ev.method).tag # "RecordScore"
          BY Zenon DEF CancelOtherProbes
        <5> QED BY <5>1, Zenon
      <4> QED BY <4>1, OneScore, Zenon
    <3> QED BY <1>2, <2>2, <3>1, <3>2 DEF To, Active
  <2>3. CASE ev.tag = "ProbeFailed" /\ ev.method \in s.candidates
    <3>1. out = CandidateFailed(s.candidates, ev)
      BY <2>1, <2>3, Zenon DEF ReduceProbing
    <3>2. /\ Scores(<<RecordScore(ev.method, ev.reason)>>) = <<ev.method>>
          /\ Scores(<<RecordScore(ev.method, ev.reason), ScheduleCooldown>>) = <<ev.method>>
      <4>1. PICK e, m, o : /\ e = ScheduleCooldown /\ e.tag # "RecordScore"
                           /\ m = ev.method /\ o = ev.reason
        <5>1. ScheduleCooldown.tag # "RecordScore"
          BY DEF ScheduleCooldown
        <5> QED BY <5>1, Zenon
      <4> QED BY <4>1, OneScore, Zenon
    <3> QED BY <1>2, <2>3, <3>1, <3>2 DEF CandidateFailed, To
  <2>4. CASE /\ ~(ev.tag = "ProbeSucceeded" /\ ev.method \in s.candidates)
             /\ ~(ev.tag = "ProbeFailed" /\ ev.method \in s.candidates)
    BY <1>0, <1>2, <2>1, <2>4 DEF ReduceProbing, To, Idle
  <2> QED BY <2>2, <2>3, <2>4, Zenon
<1>3. CASE s.tag = "Active"
  <2>1. out = ReduceActive(s, ev)
    BY <1>3, Zenon DEF Reduce
  <2>2. \A k : ActiveFailed(s, k) = s \/ ActiveFailed(s, k).tag \in {"Active", "Degraded"}
    BY Zenon DEF ActiveFailed, Active, Degraded
  <2> QED BY <1>0, <1>3, <2>1, <2>2 DEF ReduceActive, To, Idle
<1>4. CASE s.tag = "Degraded"
  <2>1. out = ReduceDegraded(s, ev)
    BY <1>4, Zenon DEF Reduce
  <2> QED BY <1>0, <1>4, <2>1 DEF ReduceDegraded, To, Idle, Degraded
<1>5. CASE s.tag = "Cooldown"
  <2>1. out = ReduceCooldown(s, ev)
    BY <1>5, Zenon DEF Reduce
  <2> QED BY <1>0, <1>5, <2>1 DEF ReduceCooldown, To, Idle
<1> QED BY <1>1, <1>2, <1>3, <1>4, <1>5, Zenon DEF Tags

\* A score that is added to the list of scores.
LEMMA OneMoreScore ==
    ASSUME NEW R, NEW s \in Seq(R), NEW m \in R, m \notin Range(s),
           \A i, j \in DOMAIN s : s[i] = s[j] => i = j
    PROVE  /\ s \o <<m>> \in Seq(R)
           /\ Range(s \o <<m>>) = Range(s) \cup {m}
           /\ \A i, j \in DOMAIN (s \o <<m>>) : (s \o <<m>>)[i] = (s \o <<m>>)[j] => i = j
<1>1. PICK t \in Seq(R) : t = s \o <<m>>
  <2>1. s \o <<m>> \in Seq(R)
    OBVIOUS
  <2> QED BY <2>1, Zenon
<1>2. /\ DOMAIN s = 1..Len(s) /\ DOMAIN t = 1..(Len(s) + 1) /\ Len(s) \in Nat
      /\ \A i \in 1..Len(s) : t[i] = s[i]
      /\ t[Len(s) + 1] = m
  BY <1>1
<1>3. \A i \in DOMAIN s : s[i] # m
  BY Zenon DEF Range
<1>4. Range(t) = Range(s) \cup {m}
  <2>1. \A i \in DOMAIN t : t[i] \in Range(s) \cup {m}
    BY <1>2 DEF Range
  <2>2. \A i \in DOMAIN s : s[i] \in Range(t)
    BY <1>2 DEF Range
  <2>3. m \in Range(t)
    BY <1>2 DEF Range
  <2> QED BY <2>1, <2>2, <2>3 DEF Range
<1>5. ASSUME NEW i \in DOMAIN t, NEW j \in DOMAIN t, t[i] = t[j]
      PROVE  i = j
  BY <1>2, <1>3, <1>5
<1> QED BY <1>1, <1>4, <1>5, Zenon

\* One call of reduce keeps the account of the round.
LEMMA FeedAccounts ==
    ASSUME FsmInv, RoundInv, NEW ev, Feed(ev)
    PROVE  RoundInv'
<1> DEFINE begins == st.tag = "Idle" /\ ev.tag = "Start"
<1>1. PICK out : out = Reduce(st, ev)
  BY Zenon
<1>2. /\ st' = out.state
      /\ round' = IF begins THEN Range(ev.candidates) ELSE round
      /\ scored' = (IF begins THEN <<>> ELSE scored) \o Scores(out.effects)
      /\ gaveUp' = IF begins THEN FALSE
                    ELSE gaveUp \/ (st.tag = "Probing" /\ ev.tag = "AllProbesFailed")
  BY <1>1, Zenon DEF Feed
<1>3. st.tag \in Tags
  BY Zenon DEF FsmInv
<1>4. /\ scored \in Seq(round) /\ (st.tag = "Probing" => st.candidates \subseteq round)
      /\ \A i, j \in DOMAIN scored : scored[i] = scored[j] => i = j
      /\ st.tag = "Probing" => Range(scored) = round \ st.candidates
      /\ st.tag = "Cooldown" /\ ~gaveUp => Range(scored) = round
  BY Zenon DEF RoundInv, RoundIsAccounted
<1>5. CASE /\ begins /\ Scores(out.effects) = <<>>
           /\ \/ out.state = Cooldown /\ Range(ev.candidates) = {}
              \/ out.state = Probing(Range(ev.candidates))
  <2>1. scored' = <<>> /\ round' = Range(ev.candidates)
    BY <1>2, <1>5
  <2>2. Range(scored') = {} /\ scored' \in Seq(round') /\ DOMAIN scored' = {}
    BY <2>1 DEF Range
  <2>3. \/ st'.tag = "Cooldown" /\ round' = {}
        \/ st'.tag = "Probing" /\ st'.candidates = round'
    BY <1>2, <1>5, <2>1 DEF Cooldown, Probing
  <2>4. round' \ round' = {}
    OBVIOUS
  <2> QED BY <2>2, <2>3, <2>4, Zenon DEF RoundInv, RoundIsAccounted
<1>6. CASE /\ st.tag = "Probing" /\ ev.tag = "AllProbesFailed"
           /\ Scores(out.effects) = <<>> /\ out.state = Cooldown
  <2>0. gaveUp' /\ round' = round
    BY <1>2, <1>6, Zenon
  <2>1. scored' = scored /\ round' = round /\ gaveUp'
    BY <1>2, <1>4, <1>6, <2>0
  <2> QED BY <1>2, <1>4, <1>6, <2>1 DEF RoundInv, RoundIsAccounted, Cooldown
<1>7. CASE /\ st.tag = "Probing" /\ ev.tag \in {"ProbeSucceeded", "ProbeFailed"}
           /\ ev.method \in st.candidates /\ Scores(out.effects) = <<ev.method>>
           /\ \/ out.state.tag = "Active"
              \/ out.state = Cooldown /\ st.candidates = {ev.method}
              \/ out.state = Probing(st.candidates \ {ev.method})
  <2>1. PICK m : m = ev.method
    BY Zenon
  <2>2. scored' = scored \o <<m>> /\ round' = round
    BY <1>2, <1>7, <2>1
  <2>3. m \in round /\ m \notin Range(scored)
    BY <1>4, <1>7, <2>1, Zenon
  <2>4. /\ scored' \in Seq(round)
        /\ Range(scored') = Range(scored) \cup {m}
        /\ \A i, j \in DOMAIN scored' : scored'[i] = scored'[j] => i = j
    BY <1>4, <2>2, <2>3, OneMoreScore
  <2>5. CASE out.state.tag = "Active"
    <3>1. st'.tag = "Active"
      BY <1>2, <2>5, Zenon
    <3> QED BY <2>2, <2>4, <3>1, Zenon DEF RoundInv, RoundIsAccounted
  <2>6. CASE out.state = Cooldown /\ st.candidates = {ev.method}
    <3>1. Range(scored') = round
      BY <1>4, <1>7, <2>1, <2>3, <2>4, <2>6, Zenon
    <3>2. st'.tag = "Cooldown"
      BY <1>2, <2>6 DEF Cooldown
    <3> QED BY <2>2, <2>4, <3>1, <3>2, Zenon DEF RoundInv, RoundIsAccounted
  <2>7. CASE out.state = Probing(st.candidates \ {ev.method})
    <3>1. Range(scored') = round \ (st.candidates \ {m}) /\ st.candidates \ {m} \subseteq round
      BY <1>4, <1>7, <2>1, <2>3, <2>4
    <3>2. st'.tag = "Probing" /\ st'.candidates = st.candidates \ {m}
      BY <1>2, <2>1, <2>7, SMTT(30) DEF Probing
    <3> QED BY <2>2, <2>4, <3>1, <3>2 DEF RoundInv, RoundIsAccounted
  <2> QED BY <1>7, <2>5, <2>6, <2>7, Zenon
<1>8. CASE /\ ~begins /\ Scores(out.effects) = <<>>
           /\ out.state = st \/ out.state.tag \in {"Idle", "Active", "Degraded"}
  <2>0. round' = round /\ (~gaveUp' => ~gaveUp)
    BY <1>2, <1>8, Zenon
  <2>1. scored' = scored /\ round' = round /\ (~gaveUp' => ~gaveUp)
    BY <1>2, <1>4, <1>8, <2>0
  <2> QED BY <1>2, <1>4, <1>8, <2>1 DEF RoundInv, RoundIsAccounted
<1> QED BY <1>1, <1>3, <1>5, <1>6, <1>7, <1>8, ScoreStep, Zenon

\* Every round is accounted for: each candidate is scored at most once, one still in the
\* race not at all, and a round whose last candidate failed leaves none unscored
\* (reducer.rs, reduce_probing), for any methods, thresholds and sequence of events.
THEOREM RoundIsAccountedHolds == FsmSpec => []RoundIsAccounted
<1>1. FsmInit => RoundInv
  BY DEF FsmInit, RoundInv, RoundIsAccounted, Idle
<1>2. FsmInv /\ RoundInv /\ [FsmNext]_fsmVars => RoundInv'
  <2> SUFFICES ASSUME FsmInv, RoundInv, [FsmNext]_fsmVars PROVE RoundInv'
    BY Zenon
  <2>1. CASE FsmNext
    <3>1. PICK ev : Feed(ev)
      BY <2>1, Zenon DEF FsmNext, Start, Stop, ProbeWins, ProbeLoses, GiveUp, TransportFails,
                  CooldownTimer
    <3> QED BY <3>1, FeedAccounts
  <2>2. CASE UNCHANGED fsmVars
    BY <2>2, Zenon DEF fsmVars, RoundInv, RoundIsAccounted
  <2> QED BY <2>1, <2>2
<1>3. RoundInv => RoundIsAccounted
  BY Zenon DEF RoundInv
<1> QED BY <1>1, <1>2, <1>3, FsmInvHolds, PTL DEF FsmSpec

-----------------------------------------------------------------------------
(***************************************************************************)
(* Proofs about the control plane, for any number of starts, methods,      *)
(* sessions and connections, with the FFI or without it.                   *)
(***************************************************************************)

\* The local state of a call has these fields and no others.
CallFields == {"pc", "fsm", "chan", "failures", "winner", "recorded", "sid", "result"}
IsCall(c) == DOMAIN c = CallFields /\ c = [f \in CallFields |-> c[f]]

\* The shape of the variables, as far as the steps below look at them.
CallShape ==
    /\ DOMAIN call = Starts /\ call = [a \in Starts |-> call[a]]
    /\ \A a \in Starts : IsCall(call[a])

RaceShape ==
    /\ probe \in [Starts -> [Methods -> ProbeStates]]
    /\ token \in [Starts -> [Methods -> BOOLEAN]]

\* A probe belongs to a race that goes on, or was cancelled.
ProbesAreCancelled ==
    \A a \in Starts, m \in Methods : Decided(a) /\ probe[a][m] # "none" => token[a][m]

\* An id is fetched before it is installed.
FetchedBeforeInstall ==
    \A a \in Starts : call[a].pc = "install" => call[a].sid \in Sessions

\* The START mutex: the call in progress is the one that took it last.
LatestIsCurrent == Ffi => \A a \in Starts : InProgress(a) => latest = a

\* The failure of the latest call has a reason, its own or another.
FailureHasReason ==
    Ffi => \A a \in Starts :
        latest = a /\ call[a].pc = "returned" /\ call[a].result # "Ok" => diag.text # ""

\* What the calls keep to; with SlotInv, what the slot keeps to, it is inductive.
CallsInv ==
    /\ CallShape /\ RaceShape
    /\ ProbesAreCancelled /\ FetchedBeforeInstall /\ LatestIsCurrent
    /\ FfiInstallsIntoEmptySlot /\ FailureHasReason

CoordInv == CallsInv /\ SlotInv

-----------------------------------------------------------------------------
(* Steps in general.                                                       *)

\* What goto leaves behind.
LEMMA GotoEffect ==
    ASSUME CallShape, NEW a \in Starts, NEW new, IsCall(new), Goto(a, new)
    PROVE  /\ CallShape'
           /\ call'[a] = new
           /\ \A b \in Starts : b # a => call'[b] = call[b]
BY DEF CallShape, Goto, IsCall

\* What was recorded, and by whom.
LEMMA ErrorFields == ASSUME NEW x, NEW y PROVE Error(x, y).text = x /\ Error(x, y).by = y
BY DEF Error

EmptyAt == {"create", "select", "single", "collect", "cancel", "bind", "fetch", "install"}

\* A step of call a keeps the invariant if, with the FFI, no other call is in progress; if
\* it leaves the probes of other calls alone; and if what it makes of its own call is right.
LEMMA StepOfCall ==
    ASSUME CallsInv, NEW a \in Starts, NEW new, IsCall(new), Goto(a, new), RaceShape',
           Ffi => latest' = a /\ \A b \in Starts : b # a => ~InProgress(b),
           \A b \in Starts : b # a => probe'[b] = probe[b] /\ token'[b] = token[b],
           \A m \in Methods :
               probe'[a][m] # "none" /\ new.pc \notin {"collect", "cancel"} => token'[a][m],
           new.pc # "out",
           new.pc = "install" => new.sid \in Sessions,
           Ffi /\ new.pc \in EmptyAt => slot' = None,
           Ffi /\ new.pc = "returned" /\ diag'.text = "" => new.result = "Ok"
    PROVE  CallsInv'
<1>1. /\ CallShape' /\ call'[a] = new
      /\ \A b \in Starts : b # a => call'[b] = call[b]
  BY GotoEffect, Zenon DEF CallsInv
<1>2. ProbesAreCancelled'
  <2> SUFFICES ASSUME NEW b \in Starts, NEW m \in Methods,
                      probe'[b][m] # "none", call'[b].pc \notin {"collect", "cancel"}
               PROVE  token'[b][m]
    BY Zenon DEF ProbesAreCancelled, Decided
  <2>1. CASE b = a
    BY <1>1, <2>1, Zenon
  <2>2. CASE b # a
    <3>1. probe[b][m] # "none" /\ Decided(b)
      BY <1>1, <2>2, Zenon DEF Decided
    <3>2. token[b][m] /\ token'[b] = token[b]
      BY <2>2, <3>1, Zenon DEF CallsInv, ProbesAreCancelled
    <3>3. QED
      BY <3>2, Zenon
  <2>3. QED
    BY <2>1, <2>2, Zenon
<1>3. FetchedBeforeInstall'
  BY <1>1, Zenon DEF CallsInv, FetchedBeforeInstall, Sessions
<1>4. LatestIsCurrent'
  <2>1. Ffi => \A b \in Starts : b # a => ~InProgress(b)'
    BY <1>1, Zenon DEF InProgress
  <2>2. QED
    BY <2>1, Zenon DEF LatestIsCurrent
<1>5. FfiInstallsIntoEmptySlot'
  BY <1>1, Zenon DEF FfiInstallsIntoEmptySlot, InProgress, EmptyAt
<1>6. FailureHasReason'
  BY <1>1, Zenon DEF FailureHasReason
<1>7. QED
  BY <1>1, <1>2, <1>3, <1>4, <1>5, <1>6, Zenon DEF CallsInv

\* A call in progress is the only one.
LEMMA OnlyOne ==
    ASSUME CallsInv, NEW a \in Starts, Ffi => InProgress(a)
    PROVE  Ffi => latest = a /\ \A b \in Starts : b # a => ~InProgress(b)
BY DEF CallsInv, LatestIsCurrent

\* A step that leaves every call where it is, and no slot filled.
LEMMA StepAround ==
    ASSUME CallsInv, CallShape', RaceShape',
           \A a \in Starts : /\ call'[a].pc = call[a].pc /\ call'[a].sid = call[a].sid
                             /\ call'[a].result = call[a].result,
           \A a \in Starts, m \in Methods :
               /\ probe'[a][m] # "none" => probe[a][m] # "none"
               /\ token[a][m] => token'[a][m],
           slot' = slot \/ slot' = None, latest' = latest,
           diag'.text = "" => diag.text = ""
    PROVE  CallsInv'
<1>1. ProbesAreCancelled'
  BY Zenon DEF CallsInv, ProbesAreCancelled, Decided
<1>2. FetchedBeforeInstall'
  BY Zenon DEF CallsInv, FetchedBeforeInstall, Sessions
<1>3. LatestIsCurrent'
  BY Zenon DEF CallsInv, LatestIsCurrent, InProgress
<1>4. FfiInstallsIntoEmptySlot'
  BY Zenon DEF CallsInv, FfiInstallsIntoEmptySlot
<1>5. FailureHasReason'
  BY Zenon DEF CallsInv, FailureHasReason
<1>6. QED
  BY <1>1, <1>2, <1>3, <1>4, <1>5, Zenon DEF CallsInv

-----------------------------------------------------------------------------
(* The steps of a call.                                                    *)

\* A call that moves on, in its record and in nothing of the race.
LEMMA Moves ==
    ASSUME CallsInv, NEW a \in Starts, Ffi => InProgress(a), UNCHANGED raceVars,
           latest' = latest, NEW new, IsCall(new), Goto(a, new),
           new.pc \notin {"out", "install"},
           Decided(a),
           Ffi /\ new.pc \in EmptyAt => slot' = None,
           Ffi /\ new.pc = "returned" /\ diag'.text = "" => new.result = "Ok"
    PROVE  CallsInv'
<1>1. RaceShape' /\ \A b \in Starts : b # a => probe'[b] = probe[b] /\ token'[b] = token[b]
  BY Zenon DEF CallsInv, RaceShape, raceVars
<1>2. \A m \in Methods : probe'[a][m] # "none" => token'[a][m]
  BY Zenon DEF CallsInv, ProbesAreCancelled, raceVars
<1>3. QED
  BY <1>1, <1>2, OnlyOne, StepOfCall, Zenon

\* What return makes of a call and of the last error.
Returned(c, res) == [c EXCEPT !.pc = "returned", !.result = res]

\* A call that returns is at its end, and with the FFI its failure has a reason.
LEMMA ReturnEffect ==
    ASSUME NEW a \in Starts, NEW c, IsCall(c), NEW res, Return(a, c, res)
    PROVE  /\ IsCall(Returned(c, res)) /\ Goto(a, Returned(c, res))
           /\ Returned(c, res).pc = "returned"
           /\ Ffi /\ diag'.text = "" => Returned(c, res).result = "Ok"
<1>1. IsCall(Returned(c, res)) /\ Returned(c, res).pc = "returned"
      /\ Returned(c, res).result = res
  BY Zenon DEF Returned, IsCall, CallFields
<1>2. Goto(a, Returned(c, res))
  BY Zenon DEF Return, Returned
<1>3. Ffi /\ diag'.text = "" => res = "Ok"
  BY DEF Return, Error
<1>4. QED
  BY <1>1, <1>2, <1>3, Zenon

\* A call that only moves on is still a call.
LEMMA WithPc ==
    ASSUME NEW c, IsCall(c), NEW p
    PROVE  IsCall([c EXCEPT !.pc = p]) /\ [c EXCEPT !.pc = p].pc = p
BY Zenon DEF IsCall, CallFields

\* A call returns from where it ran no race.
LEMMA Returns ==
    ASSUME CallsInv, NEW a \in Starts, Ffi => InProgress(a), UNCHANGED raceVars,
           latest' = latest, Decided(a), NEW c, IsCall(c), NEW res, Return(a, c, res)
    PROVE  CallsInv'
<1> DEFINE new == Returned(c, res)
<1> HIDE DEF new
<1>1. /\ IsCall(new) /\ Goto(a, new)
      /\ new.pc = "returned"
      /\ Ffi /\ diag'.text = "" => new.result = "Ok"
  BY ReturnEffect, Zenon DEF new
<1>2. new.pc \notin {"out", "install"} /\ new.pc \notin EmptyAt
  BY <1>1, Zenon DEF EmptyAt
<1>3. QED
  BY <1>1, <1>2, Moves, Zenon

\* veil_start begins: nobody else is in progress.
LEMMA StepEnter == ASSUME CallsInv, NEW a \in Starts, Enter(a) PROVE CallsInv'
<1>1. IsCall(call[a])
  BY Zenon DEF CallsInv, CallShape
<1>2. /\ RaceShape' /\ \A b \in Starts : b # a => probe'[b] = probe[b] /\ token'[b] = token[b]
      /\ \A m \in Methods : probe'[a][m] # "none" => token'[a][m]
  BY Zenon DEF Enter, CallsInv, RaceShape, ProbesAreCancelled, Decided, raceVars
<1>3. Ffi => latest' = a /\ \A b \in Starts : b # a => ~InProgress(b)
  BY Zenon DEF Enter
<1>4. PICK new : /\ IsCall(new) /\ Goto(a, new)
                 /\ new.pc \in {"entered", "returned"}
                 /\ new.pc = "returned" => diag' = Error("generic", a)
  <2>1. CASE Goto(a, [call[a] EXCEPT !.pc = "entered"])
    <3> DEFINE new == [call[a] EXCEPT !.pc = "entered"]
    <3>1. IsCall(new) /\ new.pc = "entered"
      BY <1>1, WithPc, Zenon
    <3> HIDE DEF new
    <3>2. QED
      BY <2>1, <3>1, Zenon DEF new
  <2>2. CASE Goto(a, [call[a] EXCEPT !.pc = "returned", !.result = "BadRequest"])
             /\ diag' = Error("generic", a)
    <3> DEFINE new == [call[a] EXCEPT !.pc = "returned", !.result = "BadRequest"]
    <3>1. IsCall(new) /\ new.pc = "returned"
      BY <1>1, Zenon DEF IsCall, CallFields
    <3> HIDE DEF new
    <3>2. QED
      BY <2>2, <3>1, Zenon DEF new
  <2>3. QED
    BY <2>1, <2>2, Zenon DEF Enter
<1>5. /\ new.pc # "out" /\ new.pc # "install" /\ new.pc \notin EmptyAt
      /\ new.pc = "returned" => diag'.text # ""
  <2>1. Error("generic", a).text = "generic"
    BY ErrorFields, Zenon
  <2>2. new.pc = "returned" => diag'.text # ""
    BY <1>4, <2>1
  <2>3. QED
    BY <1>4, <2>2, Zenon DEF EmptyAt
<1>6. QED
  BY <1>2, <1>3, <1>4, <1>5, StepOfCall, Zenon

\* The previous session is stopped.
LEMMA StepStopExisting == ASSUME CallsInv, NEW a \in Starts, StopExisting(a) PROVE CallsInv'
<1> DEFINE new == [call[a] EXCEPT !.pc = "create"]
<1>1. IsCall(new) /\ new.pc = "create" /\ Goto(a, new)
  BY WithPc, Zenon DEF CallsInv, CallShape, StopExisting
<1>2. slot' = None /\ UNCHANGED <<raceVars, latest>> /\ InProgress(a) /\ Decided(a)
  BY DEF StopExisting, StopSession, slotVars, ffiVars, InProgress, Decided
<1> HIDE DEF new
<1>3. QED
  BY <1>1, <1>2, Moves, Zenon

\* The coordinator is there, or the scores could not be opened.
LEMMA StepCreate == ASSUME CallsInv, NEW a \in Starts, CreateCoordinator(a) PROVE CallsInv'
<1>1. /\ IsCall(call[a]) /\ InProgress(a) /\ Decided(a) /\ UNCHANGED <<raceVars, latest>>
      /\ Ffi => slot' = None
  BY Zenon DEF CallsInv, CallShape, CreateCoordinator, InProgress, Decided, slotVars,
     FfiInstallsIntoEmptySlot
<1>2. CASE Goto(a, [call[a] EXCEPT !.pc = "select"])
  <2> DEFINE new == [call[a] EXCEPT !.pc = "select"]
  <2>1. IsCall(new) /\ new.pc = "select" /\ Goto(a, new)
    BY <1>1, <1>2, WithPc
  <2> HIDE DEF new
  <2>2. QED
    BY <1>1, <2>1, Moves, Zenon
<1>3. CASE Return(a, call[a], "ScoresOpen")
  BY <1>1, <1>3, Returns, Zenon
<1>4. QED
  BY <1>2, <1>3, Zenon DEF CreateCoordinator

\* The candidates are chosen, and one is probed in place or a task started for each.
LEMMA StepSelect == ASSUME CallsInv, NEW a \in Starts, Select(a) PROVE CallsInv'
<1>1. /\ IsCall(call[a]) /\ Decided(a) /\ UNCHANGED <<token, slot, latest>>
      /\ Ffi => call[a].pc = "select" /\ InProgress(a) /\ slot' = None
  BY Zenon DEF CallsInv, CallShape, Select, InProgress, Decided, slotVars, FfiInstallsIntoEmptySlot
<1>2. CASE Return(a, call[a], "NoMethods") /\ UNCHANGED probe
  BY <1>1, <1>2, Returns, Zenon DEF raceVars
<1>3. ASSUME NEW seq, NEW st1, ExecuteStartProbes(a, seq, st1) PROVE CallsInv'
  <2>1. CASE Goto(a, [call[a] EXCEPT !.pc = "single", !.fsm = st1]) /\ UNCHANGED probe
    <3> DEFINE new == [call[a] EXCEPT !.pc = "single", !.fsm = st1]
    <3>1. IsCall(new) /\ new.pc = "single"
      BY <1>1, Zenon DEF IsCall, CallFields
    <3>2. Goto(a, new)
      BY <2>1
    <3> HIDE DEF new
    <3>3. UNCHANGED raceVars
      BY <1>1, <2>1 DEF raceVars
    <3>4. QED
      BY <1>1, <3>1, <3>2, <3>3, Moves, Zenon
  <2>2. CASE /\ Goto(a, [call[a] EXCEPT !.pc = "collect", !.fsm = st1])
             /\ probe' = [probe EXCEPT ![a] =
                   [m \in Methods |-> IF m \in Range(seq) THEN "stagger" ELSE "none"]]
    <3> DEFINE new == [call[a] EXCEPT !.pc = "collect", !.fsm = st1]
    <3>1. IsCall(new) /\ new.pc = "collect"
      BY <1>1, Zenon DEF IsCall, CallFields
    <3>2. Goto(a, new)
      BY <2>2
    <3> HIDE DEF new
    <3>3. /\ RaceShape'
          /\ \A b \in Starts : b # a => probe'[b] = probe[b] /\ token'[b] = token[b]
      <4> DEFINE row == [m \in Methods |-> IF m \in Range(seq) THEN "stagger" ELSE "none"]
      <4>1. row \in [Methods -> ProbeStates]
        BY DEF ProbeStates
      <4> HIDE DEF row
      <4>2. probe' = [probe EXCEPT ![a] = row]
        BY <2>2, Zenon DEF row
      <4>3. QED
        BY <1>1, <4>1, <4>2, Zenon DEF CallsInv, RaceShape
    <3>4. Ffi => latest' = a /\ \A b \in Starts : b # a => ~InProgress(b)
      BY <1>1, OnlyOne, Zenon
    <3>5. QED
      BY <1>1, <3>1, <3>2, <3>3, <3>4, StepOfCall, Zenon
  <2>3. QED
    BY <1>3, <2>1, <2>2 DEF ExecuteStartProbes
<1>4. QED
  BY <1>2, <1>3 DEF Select

\* Failures keep a call's fields.
LEMMA FailureIsCall ==
    ASSUME NEW c, IsCall(c), NEW f
    PROVE  IsCall(AllFailed(ProbeFailure(c, f)))
<1>1. IsCall(ProbeFailure(c, f))
  BY Zenon DEF ProbeFailure, IsCall, CallFields
<1>2. ASSUME NEW d, IsCall(d) PROVE IsCall(AllFailed(d))
  BY <1>2 DEF AllFailed, IsCall, CallFields
<1>3. QED
  BY <1>1, <1>2, Zenon

\* The one probe wins or fails.
LEMMA StepSingleProbe == ASSUME CallsInv, NEW a \in Starts, SingleProbe(a) PROVE CallsInv'
<1>1. /\ IsCall(call[a]) /\ Decided(a) /\ InProgress(a) /\ UNCHANGED <<raceVars, latest>>
      /\ Ffi => slot' = None
  BY DEF CallsInv, CallShape, SingleProbe, InProgress, Decided, slotVars, FfiInstallsIntoEmptySlot
<1>2. ASSUME NEW m, Goto(a, [call[a] EXCEPT !.pc = "bind", !.winner = m]) PROVE CallsInv'
  <2> DEFINE new == [call[a] EXCEPT !.pc = "bind", !.winner = m]
  <2>1. IsCall(new) /\ new.pc = "bind"
    BY <1>1, Zenon DEF IsCall, CallFields
  <2>2. Goto(a, new)
    BY <1>2
  <2> HIDE DEF new
  <2>3. QED
    BY <1>1, <2>1, <2>2, Moves, Zenon
<1>3. ASSUME NEW m, NEW reason,
             LET c == AllFailed(ProbeFailure(call[a], <<m, reason>>))
             IN  Return(a, c, ResultOf(c.fsm))
      PROVE  CallsInv'
  <2> DEFINE c == AllFailed(ProbeFailure(call[a], <<m, reason>>))
  <2>1. IsCall(c) /\ Return(a, c, ResultOf(c.fsm))
    BY <1>1, <1>3, FailureIsCall, Zenon
  <2> HIDE DEF c
  <2>2. QED
    BY <1>1, <2>1, Returns, SMTT(30)
<1>4. QED
  BY <1>2, <1>3, Zenon DEF SingleProbe

\* All of a race is cancelled.
LEMMA CancelAllEffect ==
    ASSUME RaceShape, NEW a \in Starts, CancelAll(a)
    PROVE  /\ token' \in [Starts -> [Methods -> BOOLEAN]]
           /\ \A b \in Starts : b # a => token'[b] = token[b]
           /\ \A m \in Methods : probe[a][m] # "none" => token'[a][m]
<1> DEFINE row == [m \in Methods |-> probe[a][m] # "none"]
<1>1. row \in [Methods -> BOOLEAN] /\ \A m \in Methods : probe[a][m] # "none" => row[m]
  BY Zenon
<1>2. token' = [token EXCEPT ![a] = row]
  BY Zenon DEF CancelAll
<1> HIDE DEF row
<1>3. token' \in [Starts -> [Methods -> BOOLEAN]] /\ token'[a] = row
      /\ \A b \in Starts : b # a => token'[b] = token[b]
  BY <1>1, <1>2 DEF RaceShape
<1>4. QED
  BY <1>1, <1>3, Zenon

\* A result is taken from the channel, and the race goes on or its losers are cancelled.
LEMMA StepCollect == ASSUME CallsInv, NEW a \in Starts, Collect(a) PROVE CallsInv'
<1> DEFINE res == Head(call[a].chan)
           c == [call[a] EXCEPT !.chan = Tail(@)]
<1>1. /\ IsCall(call[a]) /\ UNCHANGED <<probe, token, slot, latest>> /\ InProgress(a)
      /\ Ffi => slot' = None
  BY Zenon DEF CallsInv, CallShape, Collect, InProgress, raceVars, ffiVars, slotVars,
     FfiInstallsIntoEmptySlot
<1>2. IsCall(c) /\ c.pc = "collect"
  BY <1>1, Zenon DEF Collect, IsCall, CallFields
<1>3. \/ Goto(a, [c EXCEPT !.pc = "cancel", !.winner = res[1]])
      \/ Goto(a, [c EXCEPT !.failures = Append(@, res)])
  BY Zenon DEF Collect
<1> HIDE DEF c, res
<1>4. PICK new : IsCall(new) /\ Goto(a, new) /\ new.pc \in {"collect", "cancel"}
  <2>1. IsCall([c EXCEPT !.pc = "cancel", !.winner = res[1]])
        /\ [c EXCEPT !.pc = "cancel", !.winner = res[1]].pc = "cancel"
    BY <1>2, Zenon DEF IsCall, CallFields
  <2>2. IsCall([c EXCEPT !.failures = Append(@, res)])
        /\ [c EXCEPT !.failures = Append(@, res)].pc = "collect"
    BY <1>2, Zenon DEF IsCall, CallFields
  <2>3. QED
    BY <1>3, <2>1, <2>2, Zenon
<1>5. /\ RaceShape'
      /\ \A b \in Starts : b # a => probe'[b] = probe[b] /\ token'[b] = token[b]
  BY <1>1, Zenon DEF CallsInv, RaceShape
<1>6. Ffi => latest' = a /\ \A b \in Starts : b # a => ~InProgress(b)
  BY <1>1, OnlyOne, Zenon
<1>7. new.pc # "out" /\ new.pc # "install" /\ new.pc # "returned"
  BY <1>4, Zenon
<1>8. QED
  BY <1>1, <1>4, <1>5, <1>6, <1>7, StepOfCall, Zenon

\* One more token is cancelled.
LEMMA StepCancelNext == ASSUME CallsInv, NEW a \in Starts, CancelNext(a) PROVE CallsInv'
<1>1. UNCHANGED <<call, probe, slot, diag, latest>> /\ CallShape /\ RaceShape
  BY Zenon DEF CallsInv, CancelNext, ffiVars, slotVars
<1>2. PICK m \in Methods : token' = [token EXCEPT ![a][m] = TRUE]
  BY Zenon DEF CancelNext, Uncancelled
<1>3. /\ token' \in [Starts -> [Methods -> BOOLEAN]]
      /\ \A b \in Starts, n \in Methods : token[b][n] => token'[b][n]
  BY <1>1, <1>2 DEF RaceShape
<1>4. CallShape' /\ RaceShape'
  BY <1>1, <1>3, Zenon DEF CallShape, RaceShape, IsCall
<1>5. QED
  BY <1>1, <1>3, <1>4, StepAround, Zenon

\* Every token is cancelled: the race is decided.
LEMMA StepCancelsDone == ASSUME CallsInv, NEW a \in Starts, CancelsDone(a) PROVE CallsInv'
<1> DEFINE new == [call[a] EXCEPT !.pc = "bind"]
<1>1. IsCall(new) /\ new.pc = "bind" /\ Goto(a, new)
  BY WithPc, Zenon DEF CallsInv, CallShape, CancelsDone
<1> HIDE DEF new
<1>2. /\ UNCHANGED <<probe, token, slot, latest>> /\ InProgress(a)
      /\ Ffi => slot' = None
  BY Zenon DEF CallsInv, CancelsDone, InProgress, raceVars, ffiVars, slotVars,
     FfiInstallsIntoEmptySlot
<1>3. /\ RaceShape'
      /\ \A b \in Starts : b # a => probe'[b] = probe[b] /\ token'[b] = token[b]
  BY <1>2, Zenon DEF CallsInv, RaceShape
<1>4. \A m \in Methods : probe'[a][m] # "none" => token'[a][m]
  BY <1>2 DEF CancelsDone, Uncancelled
<1>5. Ffi => latest' = a /\ \A b \in Starts : b # a => ~InProgress(b)
  BY <1>2, OnlyOne, Zenon
<1>6. new.pc # "out" /\ new.pc # "install" /\ new.pc # "returned"
  BY <1>1, Zenon
<1>7. QED
  BY <1>1, <1>2, <1>3, <1>4, <1>5, <1>6, StepOfCall, Zenon

\* No probe is left and none succeeded.
LEMMA StepRaceLost == ASSUME CallsInv, NEW a \in Starts, RaceLost(a) PROVE CallsInv'
<1>1. IsCall(call[a]) /\ UNCHANGED <<probe, latest>> /\ InProgress(a) /\ CancelAll(a)
  BY DEF CallsInv, CallShape, RaceLost, InProgress
<1>2. PICK c : Return(a, [call[a] EXCEPT !.fsm = c.fsm, !.recorded = c.recorded],
                      ResultOf(c.fsm))
  BY Zenon DEF RaceLost
<1> DEFINE d == [call[a] EXCEPT !.fsm = c.fsm, !.recorded = c.recorded]
<1>3. IsCall(d)
  BY <1>1, Zenon DEF IsCall, CallFields
<1>4. Return(a, d, ResultOf(c.fsm))
  BY <1>2
<1> HIDE DEF d
<1> DEFINE new == Returned(d, ResultOf(c.fsm))
<1> HIDE DEF new
<1>5. /\ IsCall(new) /\ Goto(a, new)
      /\ new.pc = "returned"
      /\ Ffi /\ diag'.text = "" => new.result = "Ok"
  BY <1>3, <1>4, ReturnEffect, Zenon DEF new
<1>6. /\ RaceShape'
      /\ \A b \in Starts : b # a => probe'[b] = probe[b] /\ token'[b] = token[b]
      /\ \A m \in Methods : probe'[a][m] # "none" => token'[a][m]
  BY <1>1, CancelAllEffect, Zenon DEF CallsInv, RaceShape
<1>7. new.pc # "out" /\ new.pc # "install" /\ new.pc \notin EmptyAt
  BY <1>5, Zenon DEF EmptyAt
<1>8. Ffi => latest' = a /\ \A b \in Starts : b # a => ~InProgress(b)
  BY <1>1, OnlyOne, Zenon
<1>9. QED
  BY <1>1, <1>5, <1>6, <1>7, <1>8, StepOfCall, Zenon

\* The winner's listener is bound, or cannot be.
LEMMA StepBind == ASSUME CallsInv, NEW a \in Starts, Bind(a) PROVE CallsInv'
<1>1. /\ IsCall(call[a]) /\ Decided(a) /\ InProgress(a) /\ UNCHANGED <<raceVars, latest>>
      /\ Ffi => slot' = None
  BY Zenon DEF CallsInv, CallShape, Bind, InProgress, Decided, slotVars, FfiInstallsIntoEmptySlot
<1>2. CASE Return(a, call[a], "Io")
  BY <1>1, <1>2, Returns
<1>3. CASE Goto(a, [ProbeSuccess(call[a], call[a].winner, a) EXCEPT
                       !.pc = "fetch", !.recorded = @ \o call[a].failures])
  <2> DEFINE c == ProbeSuccess(call[a], call[a].winner, a)
             new == [c EXCEPT !.pc = "fetch", !.recorded = @ \o call[a].failures]
  <2>1. IsCall(c)
    BY <1>1, Zenon DEF ProbeSuccess, IsCall, CallFields
  <2>2. Goto(a, new)
    BY <1>3
  <2> HIDE DEF c
  <2>3. IsCall(new) /\ new.pc = "fetch"
    BY <2>1, Zenon DEF IsCall, CallFields
  <2> HIDE DEF new
  <2>4. QED
    BY <1>1, <2>2, <2>3, Moves, Zenon
<1>4. QED
  BY <1>2, <1>3, Zenon DEF Bind

\* The session gets its id, which is one of Sessions.
LEMMA StepFetch ==
    ASSUME CallsInv, SlotTypeOK, NEW a \in Starts, FetchSessionId(a)
    PROVE  CallsInv'
<1> DEFINE new == [call[a] EXCEPT !.pc = "install", !.sid = nextId + 1]
<1>1. /\ IsCall(call[a]) /\ Decided(a) /\ InProgress(a) /\ UNCHANGED <<raceVars, latest>>
      /\ Ffi => slot' = None
  BY DEF CallsInv, CallShape, FetchSessionId, FetchId, InProgress, Decided, ffiVars,
     FfiInstallsIntoEmptySlot
<1>2. nextId + 1 \in Sessions
  BY SlotAssumption DEF FetchSessionId, FetchId, SlotTypeOK, Sessions
<1>3. IsCall(new) /\ new.pc = "install" /\ new.sid = nextId + 1
  BY <1>1, Zenon DEF IsCall, CallFields
<1>4. Goto(a, new)
  BY Zenon DEF FetchSessionId
<1> HIDE DEF new
<1>5. /\ RaceShape' /\ \A b \in Starts : b # a => probe'[b] = probe[b] /\ token'[b] = token[b]
      /\ \A m \in Methods : probe'[a][m] # "none" => token'[a][m]
  BY <1>1, Zenon DEF CallsInv, RaceShape, ProbesAreCancelled, raceVars
<1>6. Ffi => latest' = a /\ \A b \in Starts : b # a => ~InProgress(b)
  BY <1>1, OnlyOne, Zenon
<1>7. QED
  BY <1>1, <1>2, <1>3, <1>4, <1>5, <1>6, StepOfCall, Zenon

\* The session is put in the slot; with the FFI nobody else is in progress.
LEMMA StepInstall == ASSUME CallsInv, NEW a \in Starts, InstallSession(a) PROVE CallsInv'
<1> DEFINE new == [call[a] EXCEPT !.pc = "settle"]
<1>1. IsCall(new) /\ new.pc = "settle" /\ Goto(a, new)
  BY WithPc, Zenon DEF CallsInv, CallShape, InstallSession
<1>2. UNCHANGED <<raceVars, latest>> /\ InProgress(a) /\ Decided(a)
  BY Zenon DEF InstallSession, InProgress, Decided, ffiVars
<1> HIDE DEF new
<1>3. new.pc \notin {"out", "install"} /\ new.pc \notin EmptyAt /\ new.pc # "returned"
  BY <1>1, Zenon DEF EmptyAt
<1>4. QED
  BY <1>1, <1>2, <1>3, Moves, Zenon

\* The port is returned.
LEMMA StepSettle == ASSUME CallsInv, NEW a \in Starts, Settle(a) PROVE CallsInv'
<1>1. /\ IsCall(call[a]) /\ Decided(a) /\ InProgress(a) /\ UNCHANGED <<raceVars, latest>>
      /\ Return(a, call[a], ResultOf(call[a].fsm))
  BY Zenon DEF CallsInv, CallShape, Settle, InProgress, Decided
<1>2. QED
  BY <1>1, Returns, Zenon

-----------------------------------------------------------------------------
(* The probe tasks.                                                        *)

\* A result sent to the collector changes nothing but its channel.
LEMMA SendEffect ==
    ASSUME CallShape, NEW a \in Starts, NEW m, NEW outcome, Send(a, m, outcome)
    PROVE  /\ CallShape'
           /\ \A b \in Starts : /\ call'[b].pc = call[b].pc /\ call'[b].sid = call[b].sid
                                /\ call'[b].result = call[b].result
<1>1. CASE call' = call
  BY <1>1, Zenon DEF CallShape, IsCall
<1>2. CASE call' = [call EXCEPT ![a].chan = Append(@, <<m, outcome>>)]
  <2> DEFINE new == [call[a] EXCEPT !.chan = Append(@, <<m, outcome>>)]
  <2>1. IsCall(new) /\ new.pc = call[a].pc /\ new.sid = call[a].sid /\ new.result = call[a].result
    BY Zenon DEF CallShape, IsCall, CallFields
  <2>2. Goto(a, new)
    BY <1>2, Zenon DEF Goto
  <2> HIDE DEF new
  <2>3. QED
    BY <2>1, <2>2, GotoEffect
<1>3. QED
  BY <1>1, <1>2 DEF Send

\* A probe task goes on or ends, and may report to the collector and to the last error:
\* no task appears, and no token is taken back.
LEMMA StepOfProbe ==
    ASSUME CallsInv, NEW a \in Starts, NEW m \in Methods, probe[a][m] # "none",
           NEW o \in ProbeStates, probe' = [probe EXCEPT ![a][m] = o],
           token' = token \/ token' = [token EXCEPT ![a][m] = TRUE],
           call' = call \/ \E r : Send(a, m, r),
           slot' = slot, latest' = latest, diag' = diag \/ diag' = Error(m, a)
    PROVE  CallsInv'
<1>1. /\ CallShape'
      /\ \A b \in Starts : /\ call'[b].pc = call[b].pc /\ call'[b].sid = call[b].sid
                           /\ call'[b].result = call[b].result
  <2>1. CASE call' = call
    BY <2>1, Zenon DEF CallsInv, CallShape, IsCall
  <2>2. CASE \E r : Send(a, m, r)
    BY <2>2, SendEffect, Zenon DEF CallsInv
  <2>3. QED
    BY <2>1, <2>2, Zenon
<1>2. /\ probe' \in [Starts -> [Methods -> ProbeStates]]
      /\ \A b \in Starts, n \in Methods : probe'[b][n] # "none" => probe[b][n] # "none"
  BY Zenon DEF CallsInv, RaceShape
<1>3. /\ token' \in [Starts -> [Methods -> BOOLEAN]]
      /\ \A b \in Starts, n \in Methods : token[b][n] => token'[b][n]
  <2>1. CASE token' = token
    BY <2>1 DEF CallsInv, RaceShape
  <2>2. CASE token' = [token EXCEPT ![a][m] = TRUE]
    BY <2>2 DEF CallsInv, RaceShape
  <2>3. QED
    BY <2>1, <2>2, Zenon
<1>4. diag'.text = "" => diag.text = ""
  <2>1. Error(m, a).text = m
    BY ErrorFields, Zenon
  <2>2. QED
    BY <2>1, MethodsAssumption
<1>5. QED
  BY <1>1, <1>2, <1>3, <1>4, StepAround, Zenon DEF RaceShape

\* What an error is classified as is an outcome.
LEMMA ClassifyOutcome == ASSUME NEW e PROVE Classify(e) \in ProbeStates
<1>1. Classify(e) \in {"FingerprintBlocked", "TlsCertProblem", "Timeout", "Unknown",
                       "ConnectionFailed"}
  BY DEF Classify
<1>2. QED
  BY <1>1 DEF ProbeStates, ProbeOutcomes

\* Every step of a probe task is one of those.
LEMMA StepProbe ==
    ASSUME CallsInv, NEW a \in Starts, NEW m \in Methods, ProbeTask(a, m)
    PROVE  CallsInv'
<1>0. {"skipped", "starting", "running", "Success", "Timeout", "cancelled", "died"}
          \subseteq ProbeStates
  BY DEF ProbeStates, ProbeOutcomes
<1>1. CASE ProbeWakes(a, m)
  <2> DEFINE o == IF token[a][m] THEN "skipped" ELSE "starting"
  <2>1. o \in ProbeStates
    BY <1>0, Zenon
  <2>2. /\ probe' = [probe EXCEPT ![a][m] = o] /\ UNCHANGED <<call, token, slot, diag, latest>>
        /\ probe[a][m] # "none"
    BY <1>1 DEF ProbeWakes, ffiVars, slotVars
  <2> HIDE DEF o
  <2>3. QED
    BY <2>1, <2>2, StepOfProbe, Zenon
<1>2. CASE ProbeSucceeds(a, m)
  BY <1>0, <1>2, StepOfProbe, Zenon DEF ProbeSucceeds, ffiVars, slotVars
<1>3. CASE ProbeErrs(a, m)
  <2>1. PICK e \in Errors : /\ probe' = [probe EXCEPT ![a][m] = Classify(e)]
                            /\ Send(a, m, Classify(e))
    BY <1>3, Zenon DEF ProbeErrs
  <2>2. Classify(e) \in ProbeStates
    BY ClassifyOutcome, Zenon
  <2>3. UNCHANGED <<token, slot, latest>> /\ diag' = Error(m, a) /\ probe[a][m] # "none"
    BY <1>3, Zenon DEF ProbeErrs, slotVars
  <2>4. QED
    BY <2>1, <2>2, <2>3, StepOfProbe, Zenon
<1>4. CASE ProbeTimesOut(a, m)
  BY <1>0, <1>4, StepOfProbe, Zenon DEF ProbeTimesOut, slotVars
<1>5. CASE ProbeCancelled(a, m)
  BY <1>0, <1>5, StepOfProbe, Zenon DEF ProbeCancelled, slotVars
<1>6. CASE ProbeDies(a, m)
  BY <1>0, <1>6, StepOfProbe, Zenon DEF ProbeDies, ffiVars, slotVars
<1>7. CASE ProbeDials(a, m)
  BY <1>0, <1>7, StepOfProbe, Zenon DEF ProbeDials, ffiVars, slotVars
<1>8. QED
  BY <1>1, <1>2, <1>3, <1>4, <1>5, <1>6, <1>7 DEF ProbeTask

-----------------------------------------------------------------------------
(* The invariant is inductive.                                             *)

\* Whatever the coordinator does is, for the slot, a step of SessionSlot or none.
LEMMA IsSlotStep == CallsInv /\ [Next]_vars => [SlotNext]_slotVars
<1> SUFFICES ASSUME CallsInv, [Next]_vars PROVE [SlotNext]_slotVars
  OBVIOUS
<1>1. ASSUME NEW a \in Starts, Enter(a) \/ Select(a) \/ CallStep(a) PROVE [SlotNext]_slotVars
  <2>1. CASE StopExisting(a)
    BY <2>1 DEF StopExisting, SlotNext
  <2>2. CASE FetchSessionId(a)
    BY <2>2, Zenon DEF FetchSessionId, SlotNext
  <2>3. CASE InstallSession(a)
    <3>1. call[a].sid \in Sessions /\ Install(call[a].sid)
      BY <2>3 DEF InstallSession, CallsInv, FetchedBeforeInstall
    <3>2. QED
      BY <3>1, Zenon DEF SlotNext
  <2>4. CASE UNCHANGED slotVars
    BY <2>4, Zenon
  <2>5. QED
    BY <1>1, <2>1, <2>2, <2>3, <2>4, Zenon DEF CallStep, Enter, Select, CreateCoordinator, SingleProbe,
       Collect, CancelNext, CancelsDone, RaceLost, Bind, Settle
<1>2. ASSUME NEW a \in Starts, NEW m \in Methods, ProbeTask(a, m) PROVE [SlotNext]_slotVars
  BY <1>2, Zenon DEF ProbeTask, ProbeWakes, ProbeDials, ProbeSucceeds, ProbeErrs, ProbeTimesOut,
     ProbeCancelled, ProbeDies
<1>3. CASE HostStop \/ Tasks
  BY <1>3 DEF HostStop, Tasks, SlotNext
<1>4. CASE UNCHANGED vars
  BY <1>4 DEF vars
<1>5. QED
  BY <1>1, <1>2, <1>3, <1>4 DEF Next

\* Before the first call.
LEMMA CallsInvInit == Init => CallsInv
<1> SUFFICES ASSUME Init PROVE CallsInv
  BY Zenon
<1>1. CallShape
  BY Zenon DEF Init, CallShape, IsCall, CallFields
<1>2. RaceShape
  BY Zenon DEF Init, RaceShape, ProbeStates
<1>3. \A a \in Starts : call[a].pc = "out"
  BY Zenon DEF Init
<1>4. ProbesAreCancelled
  BY Zenon DEF Init, ProbesAreCancelled
<1>5. QED
  BY <1>1, <1>2, <1>3, <1>4, Zenon DEF CallsInv, FetchedBeforeInstall, LatestIsCurrent,
     InProgress, FfiInstallsIntoEmptySlot, FailureHasReason

\* Every step keeps the invariant.
LEMMA CallsInvNext == CallsInv /\ SlotTypeOK /\ [Next]_vars => CallsInv'
<1> SUFFICES ASSUME CallsInv, SlotTypeOK, [Next]_vars PROVE CallsInv'
  OBVIOUS
<1>1. ASSUME NEW a \in Starts, Enter(a) \/ Select(a) \/ CallStep(a) PROVE CallsInv'
  BY <1>1, StepEnter, StepSelect, StepStopExisting, StepCreate, StepSingleProbe, StepCollect,
     StepCancelNext, StepCancelsDone, StepRaceLost, StepBind, StepFetch, StepInstall, StepSettle,
     Zenon DEF CallStep
<1>2. ASSUME NEW a \in Starts, NEW m \in Methods, ProbeTask(a, m) PROVE CallsInv'
  BY <1>2, StepProbe, Zenon
<1>3. CASE HostStop \/ Tasks
  <2>1. UNCHANGED <<call, probe, token, diag, latest>> /\ (slot' = slot \/ slot' = None)
    BY <1>3, Zenon DEF HostStop, Tasks, raceVars, ffiVars, StopSession, Background, AcceptExhausted,
       RetryAccept, ListenerBroken, ObserveShutdown, ClearSlot, Accept, TunnelEnds,
       TunnelCancelled
  <2>2. CallShape' /\ RaceShape'
    BY <2>1, Zenon DEF CallsInv, CallShape, RaceShape, IsCall
  <2>3. QED
    BY <2>1, <2>2, StepAround, Zenon
<1>4. CASE UNCHANGED vars
  <2>1. UNCHANGED <<call, probe, token, diag, latest, slot>>
    BY <1>4, Zenon DEF vars, raceVars, ffiVars, slotVars
  <2>2. CallShape' /\ RaceShape'
    BY <2>1, Zenon DEF CallsInv, CallShape, RaceShape, IsCall
  <2>3. QED
    BY <2>1, <2>2, StepAround, Zenon
<1>5. QED
  BY <1>1, <1>2, <1>3, <1>4, Zenon DEF Next

\* The invariant always holds.
LEMMA CoordInvAlways == Spec => []CoordInv
<1>1. Init => CoordInv
  BY CallsInvInit, SlotInvInitially, Zenon DEF Init, CoordInv
<1>2. CoordInv /\ [Next]_vars => CoordInv'
  BY CallsInvNext, IsSlotStep, SlotInvInductive, Zenon DEF CoordInv, SlotInv
<1>3. QED
  BY <1>1, <1>2, PTL DEF Spec

-----------------------------------------------------------------------------
(* The results.                                                            *)

\* The coordinator is a SessionSlot: start_session_with_params, veil_start, veil_stop and the
\* tasks touch the slot only in the ways SessionSlot has, so all that is proved of it holds.
THEOREM CoordinatorIsSlot == Spec => SlotSpec
<1>1. Init => SlotInit
  BY Zenon DEF Init
<1>2. CoordInv /\ [Next]_vars => [SlotNext]_slotVars
  BY IsSlotStep, Zenon DEF CoordInv
<1>3. QED
  BY <1>1, <1>2, CoordInvAlways, PTL DEF Spec, SlotSpec

\* Whatever host calls, races and failures interleave, the session in the slot is the one
\* that serves (install_session, stop).
THEOREM CoordinatorSlot == Spec => []SlotNamesTheListener
BY CoordinatorIsSlot, SlotNamesListener, PTL

\* Once a start goes on from its race every probe it spawned has been cancelled, and a loser
\* still in its stagger delay never starts, whatever the tasks do while run_parallel_probes
\* cancels one after the other, for any number of methods.
THEOREM LosersAreCancelledHolds == Spec => LosersAreCancelled
<1>1. ASSUME CoordInv, [Next]_vars, NEW a \in Starts, NEW m \in Methods,
             token[a][m], probe[a][m] = "stagger"
      PROVE  probe'[a][m] \notin {"starting", "running"}
  <2> SUFFICES ASSUME probe'[a][m] \in {"starting", "running"} PROVE FALSE
    BY Zenon
  <2>1. RaceShape
    BY <1>1, Zenon DEF CoordInv, CallsInv
  <2>2. ASSUME NEW b \in Starts, NEW n \in Methods, ProbeTask(b, n) PROVE FALSE
    <3>1. CASE ProbeWakes(b, n)
      BY <1>1, <2>1, <3>1 DEF ProbeWakes, RaceShape
    <3>2. ASSUME NEW o, probe[b][n] = "starting" \/ probe[b][n] = "running",
                 probe' = [probe EXCEPT ![b][n] = o]
          PROVE  FALSE
      BY <1>1, <2>1, <3>2 DEF RaceShape
    <3>3. QED
      BY <2>2, <3>1, <3>2, Zenon DEF ProbeTask, ProbeDials, ProbeSucceeds, ProbeErrs,
         ProbeTimesOut, ProbeCancelled, ProbeDies
  <2>3. ASSUME NEW b \in Starts, Select(b) PROVE FALSE
    <3>1. ASSUME NEW row \in [Methods -> {"stagger", "none"}],
                 probe' = [probe EXCEPT ![b] = row]
          PROVE  FALSE
      BY <1>1, <2>1, <3>1 DEF RaceShape
    <3>2. ASSUME NEW seq, NEW st1, ExecuteStartProbes(b, seq, st1) PROVE FALSE
      <4> DEFINE row == [k \in Methods |-> IF k \in Range(seq) THEN "stagger" ELSE "none"]
      <4>1. row \in [Methods -> {"stagger", "none"}]
        BY Zenon
      <4>2. UNCHANGED probe \/ probe' = [probe EXCEPT ![b] = row]
        BY <3>2 DEF ExecuteStartProbes
      <4> HIDE DEF row
      <4>3. QED
        BY <1>1, <3>1, <4>1, <4>2
    <3>3. QED
      BY <1>1, <2>3, <3>2, Zenon DEF Select
  <2>4. CASE UNCHANGED probe
    BY <1>1, <2>4
  <2>5. QED
    BY <1>1, <2>2, <2>3, <2>4, Zenon DEF Next, CallStep, Enter, StopExisting, CreateCoordinator,
       SingleProbe, Collect, CancelNext, CancelsDone, RaceLost, Bind, FetchSessionId,
       InstallSession, Settle, HostStop, Tasks, vars, raceVars
<1>2. ASSUME CoordInv, [Next]_vars, NEW a \in Starts, NEW m \in Methods,
             Decided(a), probe[a][m] # "none"
      PROVE  /\ token[a][m]
             /\ probe[a][m] = "stagger" => probe'[a][m] \notin {"starting", "running"}
  <2>1. token[a][m]
    BY <1>2, Zenon DEF CoordInv, CallsInv, ProbesAreCancelled
  <2>2. QED
    BY <1>1, <1>2, <2>1, Zenon
<1>3. CoordInv /\ [Next]_vars =>
         [\A a \in Starts, m \in Methods :
             Decided(a) /\ probe[a][m] # "none" =>
                 /\ token[a][m]
                 /\ probe[a][m] = "stagger" =>
                        probe'[a][m] \notin {"starting", "running"}]_vars
  BY <1>2, Zenon
<1>4. QED
  BY <1>3, CoordInvAlways, PTL DEF Spec, LosersAreCancelled

\* Through the FFI a veil_start that installs a session finds the slot empty: the START mutex
\* and the stop at its head leave nothing to replace.
THEOREM FfiEmptySlot == Spec => []FfiInstallsIntoEmptySlot
<1>1. CoordInv => FfiInstallsIntoEmptySlot
  BY DEF CoordInv, CallsInv
<1>2. QED
  BY <1>1, CoordInvAlways, PTL

\* With one transport no probe task is ever spawned, and what the last error says was
\* recorded by the latest veil_start.
Alone ==
    OneTransport =>
        /\ \A a \in Starts, m \in Methods : probe[a][m] = "none"
        /\ Ffi => diag.text = "" \/ diag.by = latest

\* A list of candidates from one transport has one element.
LEMMA OneCandidate ==
    ASSUME OneTransport, NEW h, NEW seq \in CandidateLists(h \cap Registered)
    PROVE  Len(seq) = 1
<1>1. PICK k \in 1..TopK : seq \in Injection(1..k, h \cap Registered)
  BY DEF CandidateLists
<1>2. /\ seq \in [1..k -> h \cap Registered]
      /\ \A i, j \in 1..k : seq[i] = seq[j] => i = j
  BY <1>1 DEF Injection, IsInjective
<1>3. \A i, j \in 1..k : i = j
  <2> SUFFICES ASSUME NEW i \in 1..k, NEW j \in 1..k PROVE i = j
    BY Zenon
  <2>1. seq[i] \in Registered /\ seq[j] \in Registered
    BY <1>2
  <2>2. seq[i] = seq[j]
    BY <2>1, Zenon DEF OneTransport
  <2>3. QED
    BY <1>2, <2>2, Zenon
<1>4. k = 1
  BY <1>3
<1>5. QED
  BY <1>2, <1>4

\* Alone is kept by a call that records nothing or returns.
LEMMA AloneCall ==
    ASSUME CallsInv, Alone, NEW a \in Starts, Ffi => InProgress(a), latest' = latest,
           OneTransport => UNCHANGED probe, diag' = diag \/ diag' = Error("generic", a)
    PROVE  Alone'
<1>1. Ffi => latest = a
  BY Zenon DEF CallsInv, LatestIsCurrent
<1>2. Error("generic", a).by = a
  BY ErrorFields, Zenon
<1>3. CASE diag' = diag
  BY <1>3, Zenon DEF Alone
<1>4. CASE diag' = Error("generic", a)
  BY <1>1, <1>2, <1>4, Zenon DEF Alone
<1>5. QED
  BY <1>3, <1>4, Zenon

LEMMA AloneNext == CallsInv /\ Alone /\ [Next]_vars => Alone'
<1> SUFFICES ASSUME CallsInv, Alone, [Next]_vars PROVE Alone'
  BY Zenon
<1>1. ASSUME NEW a \in Starts, Enter(a) PROVE Alone'
  <2>1. NoError.text = "" /\ Error("generic", a).by = a
    BY ErrorFields DEF NoError
  <2>2. latest' = a /\ UNCHANGED probe /\ (diag' = NoError \/ diag' = Error("generic", a))
    BY <1>1, Zenon DEF Enter, raceVars
  <2>3. QED
    BY <2>1, <2>2, Zenon DEF Alone
<1>2. ASSUME NEW a \in Starts, NEW c, NEW res, Return(a, c, res)
      PROVE  diag' = diag \/ diag' = Error("generic", a)
  BY <1>2, Zenon DEF Return
<1>3. ASSUME NEW a \in Starts, Select(a) PROVE Alone'
  <2>1. /\ Ffi => InProgress(a)
        /\ latest' = latest
    BY <1>3, Zenon DEF Select, InProgress
  <2>2. ASSUME NEW h, NEW seq \in CandidateLists(h \cap Registered), NEW st1,
               ExecuteStartProbes(a, seq, st1), OneTransport
        PROVE  UNCHANGED probe
    BY <2>2, OneCandidate, Zenon DEF ExecuteStartProbes
  <2>3. OneTransport => UNCHANGED probe
    BY <1>3, <2>2, Zenon DEF Select
  <2>4. diag' = diag \/ diag' = Error("generic", a)
    BY <1>2, <1>3, Zenon DEF Select
  <2>5. QED
    BY <2>1, <2>3, <2>4, AloneCall, Zenon
<1>4. ASSUME NEW a \in Starts, CallStep(a), ~Select(a) PROVE Alone'
  <2>1. InProgress(a) /\ latest' = latest /\ UNCHANGED probe
    BY <1>4, Zenon DEF CallStep, StopExisting, CreateCoordinator, SingleProbe, Collect,
       CancelNext, CancelsDone, RaceLost, Bind, FetchSessionId, InstallSession, Settle,
       InProgress, raceVars, ffiVars
  <2>2. diag' = diag \/ diag' = Error("generic", a)
    BY <1>2, <1>4, Zenon DEF CallStep, StopExisting, CreateCoordinator, SingleProbe, Collect,
       CancelNext, CancelsDone, RaceLost, Bind, FetchSessionId, InstallSession, Settle, ffiVars
  <2>3. QED
    BY <2>1, <2>2, AloneCall, Zenon
<1>5. ASSUME NEW a \in Starts, NEW m \in Methods, ProbeTask(a, m) PROVE Alone'
  <2>1. probe[a][m] # "none"
    BY <1>5, Zenon DEF ProbeTask, ProbeWakes, ProbeDials, ProbeSucceeds, ProbeErrs,
       ProbeTimesOut, ProbeCancelled, ProbeDies
  <2>2. QED
    BY <2>1, Zenon DEF Alone, OneTransport
<1>6. CASE HostStop \/ Tasks \/ UNCHANGED vars
  <2>1. UNCHANGED <<probe, diag, latest>>
    BY <1>6, Zenon DEF HostStop, Tasks, vars, raceVars, ffiVars
  <2>2. QED
    BY <2>1, Zenon DEF Alone
<1>7. QED
  BY <1>1, <1>3, <1>4, <1>5, <1>6, Zenon DEF Next

\* Through the FFI the failure of the latest veil_start has a reason for veil_last_error, and
\* with the one transport that veil_start registers it is that call's own, never a stale one,
\* for any number of calls.
THEOREM FailureExplained == Spec => []FailureIsExplained
<1>1. Init => Alone
  <2>1. NoError.text = ""
    BY DEF NoError
  <2>2. Init => diag = NoError
    BY Zenon DEF Init
  <2>3. ASSUME Init, NEW a \in Starts, NEW m \in Methods PROVE probe[a][m] = "none"
    BY <2>3, Zenon DEF Init
  <2>4. QED
    BY <2>1, <2>2, <2>3 DEF Alone
<1>2. CoordInv /\ Alone /\ [Next]_vars => Alone'
  BY AloneNext, Zenon DEF CoordInv
<1>3. CoordInv /\ Alone => FailureIsExplained
  BY Zenon DEF CoordInv, CallsInv, FailureHasReason, Alone, FailureIsExplained
<1>4. QED
  BY <1>1, <1>2, <1>3, CoordInvAlways, PTL DEF Spec

-----------------------------------------------------------------------------
(* What the reducer makes of the results of the probes.                    *)

Reports == Methods \X ProbeOutcomes
Failures == Methods \X (ProbeOutcomes \ {"Success"})

\* The record that a score effect causes, alone, before and after another effect.
LEMMA RecordIsScore ==
    ASSUME NEW m, NEW o, NEW x, ScoreEffects(x) = <<RecordScore(m, o)>>
    PROVE  ScoresIn(x) = <<<<m, o>>>>
<1>1. RecordScore(m, o).method = m /\ RecordScore(m, o).outcome = o
  BY Zenon DEF RecordScore
<1>2. PICK s : s = RecordScore(m, o) /\ s.method = m /\ s.outcome = o
  BY <1>1, Zenon
<1>3. ScoreEffects(x) = <<s>>
  BY <1>2, Zenon
<1> QED BY <1>2, <1>3 DEF ScoresIn

LEMMA RecordAlone ==
    ASSUME NEW m, NEW o
    PROVE  ScoresIn(<<RecordScore(m, o)>>) = <<<<m, o>>>>
<1>1. RecordScore(m, o).tag = "RecordScore" /\ StopActive.tag # "RecordScore"
  BY DEF RecordScore, StopActive
<1>2. ScoreEffects(<<RecordScore(m, o)>>) = <<RecordScore(m, o)>>
  BY <1>1, OneScoreEffect, Zenon
<1> QED BY <1>2, RecordIsScore, Zenon

LEMMA RecordFirst ==
    ASSUME NEW m, NEW o, NEW e, e.tag # "RecordScore"
    PROVE  ScoresIn(<<RecordScore(m, o), e>>) = <<<<m, o>>>>
<1>1. RecordScore(m, o).tag = "RecordScore"
  BY DEF RecordScore
<1>2. ScoreEffects(<<RecordScore(m, o), e>>) = <<RecordScore(m, o)>>
  BY <1>1, OneScoreEffect, Zenon
<1> QED BY <1>2, RecordIsScore, Zenon

LEMMA RecordSecond ==
    ASSUME NEW m, NEW o, NEW e, e.tag # "RecordScore"
    PROVE  ScoresIn(<<e, RecordScore(m, o)>>) = <<<<m, o>>>>
<1>1. RecordScore(m, o).tag = "RecordScore"
  BY DEF RecordScore
<1>2. ScoreEffects(<<e, RecordScore(m, o)>>) = <<RecordScore(m, o)>>
  BY <1>1, OneScoreEffect, Zenon
<1> QED BY <1>2, RecordIsScore, Zenon

\* A candidate that failed is scored and leaves the race, or ends it.
LEMMA FailedOut ==
    ASSUME NEW C, NEW m \in C, NEW r
    PROVE  LET out == Reduce(Probing(C), ProbeFailed(m, r)) IN
           /\ out.state = IF C = {m} THEN Cooldown ELSE Probing(C \ {m})
           /\ ScoresIn(out.effects) = <<<<m, r>>>>
<1> DEFINE out == Reduce(Probing(C), ProbeFailed(m, r))
<1>1. PICK s : s = Probing(C) /\ s.tag = "Probing" /\ s.candidates = C
  <2>1. Probing(C).tag = "Probing" /\ Probing(C).candidates = C
    BY Zenon DEF Probing
  <2> QED BY <2>1, Zenon
<1>2. PICK ev : /\ ev = ProbeFailed(m, r) /\ ev.tag = "ProbeFailed"
                /\ ev.method = m /\ ev.reason = r
  <2>1. /\ ProbeFailed(m, r).tag = "ProbeFailed" /\ ProbeFailed(m, r).method = m
        /\ ProbeFailed(m, r).reason = r
    BY DEF ProbeFailed
  <2> QED BY <2>1, Zenon
<1>3. Reduce(s, ev) = CandidateFailed(C, ev)
  BY <1>1, <1>2 DEF Reduce, ReduceProbing
<1>4. ScheduleCooldown.tag # "RecordScore"
  BY Zenon DEF ScheduleCooldown
<1>5. ScoresIn(<<RecordScore(m, r)>>) = <<<<m, r>>>>
      /\ ScoresIn(<<RecordScore(m, r), ScheduleCooldown>>) = <<<<m, r>>>>
  BY <1>4, RecordAlone, RecordFirst, Zenon
<1>6. out = IF C = {m} THEN To(Cooldown, <<RecordScore(m, r), ScheduleCooldown>>)
            ELSE To(Probing(C \ {m}), <<RecordScore(m, r)>>)
  BY <1>1, <1>2, <1>3, Zenon DEF CandidateFailed
<1>7. \A x, y : To(x, y).state = x /\ To(x, y).effects = y
  BY Zenon DEF To
<1> HIDE DEF out
<1>8. out.state = IF C = {m} THEN Cooldown ELSE Probing(C \ {m})
  BY <1>6, <1>7, Zenon
<1>9. ScoresIn(out.effects) = <<<<m, r>>>>
  BY <1>5, <1>6, <1>7, Zenon
<1> QED BY <1>8, <1>9, Zenon DEF out

\* The winner is scored and becomes the transport.
LEMMA SucceededOut ==
    ASSUME NEW C, NEW m \in C, NEW port
    PROVE  LET out == Reduce(Probing(C), ProbeSucceeded(m, port)) IN
           /\ out.state = Active(m, port, 0)
           /\ ScoresIn(out.effects) = <<<<m, "Success">>>>
<1> DEFINE out == Reduce(Probing(C), ProbeSucceeded(m, port))
<1>1. PICK s : s = Probing(C) /\ s.tag = "Probing" /\ s.candidates = C
  <2>1. Probing(C).tag = "Probing" /\ Probing(C).candidates = C
    BY Zenon DEF Probing
  <2> QED BY <2>1, Zenon
<1>2. PICK ev : /\ ev = ProbeSucceeded(m, port) /\ ev.tag = "ProbeSucceeded"
                /\ ev.method = m /\ ev.port = port
  <2>1. /\ ProbeSucceeded(m, port).tag = "ProbeSucceeded" /\ ProbeSucceeded(m, port).method = m
        /\ ProbeSucceeded(m, port).port = port
    BY Zenon DEF ProbeSucceeded
  <2> QED BY <2>1, Zenon
<1>3. Reduce(s, ev) = To(Active(m, port, 0), <<CancelOtherProbes(m), RecordScore(m, "Success")>>)
  BY <1>1, <1>2, Zenon DEF Reduce, ReduceProbing
<1>4. CancelOtherProbes(m).tag # "RecordScore"
  BY DEF CancelOtherProbes
<1>5. ScoresIn(<<CancelOtherProbes(m), RecordScore(m, "Success")>>) = <<<<m, "Success">>>>
  BY <1>4, RecordSecond, Zenon
<1>7. \A x, y : To(x, y).state = x /\ To(x, y).effects = y
  BY Zenon DEF To
<1>8. out = To(Active(m, port, 0), <<CancelOtherProbes(m), RecordScore(m, "Success")>>)
  BY <1>1, <1>2, <1>3, Zenon
<1> HIDE DEF out
<1>9. out.state = Active(m, port, 0)
      /\ out.effects = <<CancelOtherProbes(m), RecordScore(m, "Success")>>
  BY <1>7, <1>8, Zenon
<1> QED BY <1>5, <1>9, Zenon DEF out

\* The two functions that FeedFailures computes.
FsmRec(c, g) == g = [i \in 0..Len(c.failures) |->
    IF i = 0 THEN c.fsm
    ELSE Reduce(g[i - 1], ProbeFailed(c.failures[i][1], c.failures[i][2])).state]

RecordedRec(c, k, g) == g = [i \in 0..Len(c.failures) |->
    IF i = 0 THEN c.recorded
    ELSE g[i - 1] \o ScoresIn(
            Reduce(k[i - 1], ProbeFailed(c.failures[i][1], c.failures[i][2])).effects)]

\* After i failures of distinct candidates: the candidates left, and the state.
Left(C, fails, i) == C \ {fails[j][1] : j \in 1..i}
StateAfter(C, fails, i) ==
    IF Left(C, fails, i) = {} THEN Cooldown ELSE Probing(Left(C, fails, i))

Distinct(fails) == \A j, k \in 1..Len(fails) : fails[j][1] = fails[k][1] => j = k

OneGone(C, fails, i) ==
    /\ fails[i][1] \in Left(C, fails, i - 1)
    /\ Left(C, fails, i) = Left(C, fails, i - 1) \ {fails[i][1]}

\* One more failure.
LEMMA LeftStep ==
    ASSUME NEW C, NEW X, NEW fails \in Seq(X), NEW i \in 1..Len(fails),
           \A j \in 1..Len(fails) : fails[j][1] \in C,
           Distinct(fails)
    PROVE  OneGone(C, fails, i)
<1>1. Len(fails) \in Nat /\ i - 1 \in Nat /\ \A j \in 1..(i - 1) : j \in 1..Len(fails) /\ j # i
  OBVIOUS
<1>2. fails[i][1] \in Left(C, fails, i - 1)
  BY <1>1, Zenon DEF Left, Distinct
<1>3. 1..i = (1..(i - 1)) \cup {i}
  BY <1>1
<1>4. {fails[j][1] : j \in 1..i} = {fails[j][1] : j \in 1..(i - 1)} \cup {fails[i][1]}
  BY <1>3, Zenon
<1> QED BY <1>2, <1>4, Zenon DEF Left, OneGone

\* The states the failures lead through.
LEMMA FsmAfter ==
    ASSUME NEW c, NEW X, c.failures \in Seq(X), NEW C, C # {}, c.fsm = Probing(C),
           \A j \in 1..Len(c.failures) : c.failures[j][1] \in C,
           Distinct(c.failures),
           NEW g, FsmRec(c, g)
    PROVE  \A i \in 0..Len(c.failures) : g[i] = StateAfter(C, c.failures, i)
<1>1. PICK fails \in Seq(X) : fails = c.failures
  BY Zenon
<1>2. PICK n \in Nat : n = Len(fails)
  BY SMTT(30)
<1>3. /\ \A i \in 0..n : g[i] = IF i = 0 THEN c.fsm
                             ELSE Reduce(g[i - 1], ProbeFailed(fails[i][1], fails[i][2])).state
      /\ \A j \in 1..Len(fails) : fails[j][1] \in C
      /\ Distinct(fails)
  BY <1>1, <1>2, Zenon DEF FsmRec
<1>3a. ASSUME NEW k \in 1..Len(fails)
       PROVE  OneGone(C, fails, k)
  BY <1>3, LeftStep, Zenon
<1> DEFINE T == {i \in Nat : i <= n => g[i] = StateAfter(C, fails, i)}
<1>4. 0 \in T
  <2>1. Left(C, fails, 0) = C
    <3>1. 1..0 = {}
      OBVIOUS
    <3> QED BY <3>1, Zenon DEF Left
  <2>2. g[0] = Probing(C)
    BY <1>3
  <2> QED BY <2>1, <2>2, Zenon DEF StateAfter
<1>5. ASSUME NEW i \in Nat, i \in T PROVE i + 1 \in T
  <2> SUFFICES ASSUME i + 1 <= n PROVE g[i + 1] = StateAfter(C, fails, i + 1)
    OBVIOUS
  <2>1. i + 1 \in 1..n /\ i + 1 \in 0..n /\ i + 1 - 1 = i /\ i <= n /\ i + 1 # 0
    OBVIOUS
  <2>2. PICK m, r, L : m = fails[i + 1][1] /\ r = fails[i + 1][2] /\ L = Left(C, fails, i)
    BY Zenon
  <2>3. PICK k \in 1..Len(fails) : k = i + 1
    BY <1>2, <2>1, Zenon
  <2>4. fails[k][1] \in Left(C, fails, k - 1)
        /\ Left(C, fails, k) = Left(C, fails, k - 1) \ {fails[k][1]}
    BY <1>3a, <2>3, Zenon DEF OneGone
  <2>5. m \in L /\ Left(C, fails, i + 1) = L \ {m}
    BY <2>1, <2>2, <2>3, <2>4, SMTT(30)
  <2>6. g[i] = Probing(L)
    BY <1>5, <2>1, <2>2, <2>5, ZenonT(30) DEF StateAfter
  <2>7. g[i + 1] = Reduce(g[i], ProbeFailed(m, r)).state
    <3>1. PICK j \in 0..n : j = i + 1 /\ j # 0 /\ j - 1 = i
      BY <2>1
    <3>2. g[j] = IF j = 0 THEN c.fsm ELSE Reduce(g[j - 1], ProbeFailed(fails[j][1], fails[j][2])).state
      BY <1>3, Zenon
    <3> QED BY <2>2, <3>1, <3>2, Zenon
  <2>8. g[i + 1] = IF L = {m} THEN Cooldown ELSE Probing(L \ {m})
    <3>1. Reduce(Probing(L), ProbeFailed(m, r)).state
              = IF L = {m} THEN Cooldown ELSE Probing(L \ {m})
      BY <2>5, FailedOut, Zenon
    <3> QED BY <2>6, <2>7, <3>1, Zenon
  <2>9. L = {m} <=> L \ {m} = {}
    BY <2>5
  <2> QED BY <2>5, <2>8, <2>9, Zenon DEF StateAfter
<1> HIDE DEF T
<1>6. \A i \in Nat : i \in T
  BY <1>4, <1>5, Induction, Zenon
<1> QED BY <1>1, <1>2, <1>6, SMTT(30) DEF T

\* There is such a function.
LEMMA FsmRecExists ==
    ASSUME NEW c, NEW X, c.failures \in Seq(X), NEW C, C # {}, c.fsm = Probing(C),
           \A j \in 1..Len(c.failures) : c.failures[j][1] \in C,
           Distinct(c.failures)
    PROVE  \E g : FsmRec(c, g)
<1>1. PICK fails \in Seq(X) : fails = c.failures
  BY Zenon
<1>2. PICK n \in Nat : n = Len(fails)
  OBVIOUS
<1> DEFINE h == [i \in 0..n |-> StateAfter(C, fails, i)]
<1>3. h[0] = c.fsm
  <2>1. Left(C, fails, 0) = C
    <3>1. 1..0 = {}
      OBVIOUS
    <3> QED BY <3>1, Zenon DEF Left
  <2> QED BY <2>1 DEF StateAfter
<1>4. ASSUME NEW i \in 1..n
      PROVE  h[i] = Reduce(h[i - 1], ProbeFailed(fails[i][1], fails[i][2])).state
  <2>1. PICK m, r, L : m = fails[i][1] /\ r = fails[i][2] /\ L = Left(C, fails, i - 1)
    BY Zenon
  <2>2. m \in L /\ Left(C, fails, i) = L \ {m}
    <3>1. PICK k \in 1..Len(fails) : k = i
      BY <1>2, Zenon
    <3>2. OneGone(C, fails, k)
      BY <1>1, LeftStep, Zenon
    <3> QED BY <2>1, <3>1, <3>2, Zenon DEF OneGone
  <2>3. h[i - 1] = Probing(L)
    BY <2>1, <2>2 DEF StateAfter
  <2>4. Reduce(Probing(L), ProbeFailed(m, r)).state
            = IF L = {m} THEN Cooldown ELSE Probing(L \ {m})
    BY <2>2, FailedOut, Zenon
  <2>5. L = {m} <=> L \ {m} = {}
    BY <2>2
  <2>6. h[i] = IF L = {m} THEN Cooldown ELSE Probing(L \ {m})
    <3>1. h[i] = StateAfter(C, fails, i)
      OBVIOUS
    <3> QED BY <2>2, <2>5, <3>1, Zenon DEF StateAfter
  <2> QED BY <2>1, <2>3, <2>4, <2>6
<1>5. h = [i \in 0..n |-> h[i]]
  BY Zenon
<1> HIDE DEF h
<1>6. \A i \in 0..n : h[i] = IF i = 0 THEN c.fsm
            ELSE Reduce(h[i - 1], ProbeFailed(fails[i][1], fails[i][2])).state
  BY <1>3, <1>4
<1>7. FsmRec(c, h)
  BY <1>1, <1>2, <1>5, <1>6, Zenon DEF FsmRec
<1> QED BY <1>7, Zenon

\* Each failure is scored as it was reported.
LEMMA FailureScored ==
    ASSUME NEW c, c.failures \in Seq(Failures), NEW C, C # {}, c.fsm = Probing(C),
           \A j \in 1..Len(c.failures) : c.failures[j][1] \in C,
           Distinct(c.failures),
           NEW k, FsmRec(c, k), NEW i \in 1..Len(c.failures)
    PROVE  ScoresIn(Reduce(k[i - 1], ProbeFailed(c.failures[i][1], c.failures[i][2])).effects)
               = <<c.failures[i]>>
<1>1. PICK fails \in Seq(Failures) : fails = c.failures
  OBVIOUS
<1>2. PICK m, r, L : m = fails[i][1] /\ r = fails[i][2] /\ L = Left(C, fails, i - 1)
  BY Zenon
<1>3. fails[i] = <<m, r>>
  <2>1. fails[i] \in Failures
    BY <1>1
  <2> QED BY <1>2, <2>1 DEF Failures
<1>4. m \in L
  <2>1. OneGone(C, fails, i)
    BY <1>1, LeftStep, Zenon
  <2> QED BY <1>2, <2>1, Zenon DEF OneGone
<1>5. k[i - 1] = StateAfter(C, fails, i - 1)
  <2>1. \A j \in 0..Len(c.failures) : k[j] = StateAfter(C, c.failures, j)
    BY FsmAfter
  <2>2. i - 1 \in 0..Len(c.failures)
    BY <1>1, SMTT(30)
  <2> QED BY <1>1, <2>1, <2>2, Zenon
<1>6. k[i - 1] = Probing(L)
  BY <1>2, <1>4, <1>5 DEF StateAfter
<1>7. ScoresIn(Reduce(Probing(L), ProbeFailed(m, r)).effects) = <<<<m, r>>>>
  BY <1>4, FailedOut, Zenon
<1> QED BY <1>1, <1>2, <1>3, <1>6, <1>7, Zenon

Prefix(fails, i) == [j \in 1..i |-> fails[j]]

LEMMA PrefixStep ==
    ASSUME NEW X, NEW fails \in Seq(X), NEW i \in 1..Len(fails)
    PROVE  /\ Prefix(fails, 0) = <<>> /\ Prefix(fails, Len(fails)) = fails
           /\ Prefix(fails, i) = Prefix(fails, i - 1) \o <<fails[i]>>
<1>1. PICK n \in Nat : n = i - 1 /\ n + 1 = i
  OBVIOUS
<1>2. PICK p \in Seq(X) : p = Prefix(fails, n) /\ Len(p) = n /\ \A j \in 1..n : p[j] = fails[j]
  <2>1. Prefix(fails, n) \in Seq(X)
    BY <1>1 DEF Prefix
  <2>2. Len(Prefix(fails, n)) = n /\ \A j \in 1..n : Prefix(fails, n)[j] = fails[j]
    BY <1>1, <2>1 DEF Prefix
  <2> QED BY <2>1, <2>2
<1>3. PICK q \in Seq(X) : /\ q = p \o <<fails[i]>> /\ Len(q) = n + 1
                          /\ \A j \in 1..n : q[j] = p[j]
                          /\ q[n + 1] = fails[i]
  <2>1. fails[i] \in X
    OBVIOUS
  <2>2. p \o <<fails[i]>> \in Seq(X)
    BY <1>2, <2>1
  <2>3. PICK q \in Seq(X), x \in X : q = p \o <<x>> /\ x = fails[i]
    BY <2>1, <2>2, Zenon
  <2>4. Len(q) = n + 1 /\ (\A j \in 1..n : q[j] = p[j]) /\ q[n + 1] = x
    BY <1>1, <1>2, <2>3
  <2> QED BY <2>3, <2>4, Zenon
<1>4. q = [j \in 1..(n + 1) |-> q[j]]
  BY <1>3
<1>5. \A j \in 1..(n + 1) : q[j] = fails[j]
  BY <1>1, <1>2, <1>3
<1>6. q = Prefix(fails, i)
  BY <1>1, <1>4, <1>5 DEF Prefix
<1>7. Prefix(fails, 0) = <<>> /\ Prefix(fails, Len(fails)) = fails
  BY DEF Prefix
<1> QED BY <1>1, <1>2, <1>3, <1>6, <1>7, Zenon

\* A list of failures of distinct candidates is recorded as it is, and ends the round.
LEMMA FedFailures ==
    ASSUME NEW c, IsCall(c), c.failures \in Seq(Failures), NEW C, C # {}, c.fsm = Probing(C),
           \A j \in 1..Len(c.failures) : c.failures[j][1] \in C,
           Distinct(c.failures), c.recorded = <<>>
    PROVE  FeedFailures(c).fsm = Cooldown /\ FeedFailures(c).recorded = c.failures
<1>1. PICK fails \in Seq(Failures) : fails = c.failures
  BY Zenon
<1>2. PICK n \in Nat : n = Len(fails)
  OBVIOUS
<1> DEFINE k == CHOOSE g : FsmRec(c, g)
           l == CHOOSE g : RecordedRec(c, k, g)
<1>3. FsmRec(c, k)
  <2>1. \E g : FsmRec(c, g)
    BY FsmRecExists
  <2> QED BY <2>1, Zenon
<1>4. FeedFailures(c) = AllFailed([c EXCEPT !.fsm = k[Len(c.failures)],
                                            !.recorded = l[Len(c.failures)]])
  BY Zenon DEF FeedFailures, FsmRec, RecordedRec
<1> HIDE DEF k
<1>5. \A i \in 1..n : ScoresIn(Reduce(k[i - 1], ProbeFailed(fails[i][1], fails[i][2])).effects)
                        = <<fails[i]>>
  <2>1. ASSUME NEW i \in 1..Len(c.failures)
        PROVE  ScoresIn(Reduce(k[i - 1], ProbeFailed(c.failures[i][1], c.failures[i][2])).effects)
               = <<c.failures[i]>>
    BY <1>3, FailureScored, Zenon
  <2> QED BY <1>1, <1>2, <2>1, Zenon
<1>6. /\ Prefix(fails, 0) = <<>> /\ Prefix(fails, n) = fails
      /\ \A i \in 1..n : Prefix(fails, i) = Prefix(fails, i - 1) \o <<fails[i]>>
  <2>1. CASE n = 0
    <3>0. ASSUME NEW X, NEW s \in Seq(X), Len(s) = 0 PROVE s = <<>>
      BY <3>0
    <3>1. fails = <<>> /\ 1..n = {}
      <4>1. Len(fails) = 0
        BY <1>2, <2>1, Zenon
      <4>2. fails = <<>>
        BY <1>1, <3>0, <4>1, Zenon
      <4> QED BY <2>1, <4>2
    <3>2. Prefix(fails, 0) = <<>>
      BY DEF Prefix
    <3> QED BY <2>1, <3>1, <3>2, Zenon
  <2>2. CASE n # 0
    <3>1. 1 \in 1..Len(fails)
      BY <1>2, <2>2
    <3>2. Prefix(fails, 0) = <<>> /\ Prefix(fails, Len(fails)) = fails
      BY <1>1, <3>1, PrefixStep, Zenon
    <3>3. \A i \in 1..Len(fails) : Prefix(fails, i) = Prefix(fails, i - 1) \o <<fails[i]>>
      BY <1>1, PrefixStep
    <3> QED BY <1>2, <3>2, <3>3, Zenon
  <2> QED BY <2>1, <2>2
<1>7. RecordedRec(c, k, l)
  <2> DEFINE h == [i \in 0..n |-> Prefix(fails, i)]
  <2>1. h = [i \in 0..n |-> h[i]] /\ \A i \in 0..n : h[i] = Prefix(fails, i)
    BY Zenon
  <2> HIDE DEF h
  <2>2. ASSUME NEW i \in 0..n
        PROVE  h[i] = IF i = 0 THEN c.recorded ELSE h[i - 1] \o ScoresIn(
                          Reduce(k[i - 1], ProbeFailed(fails[i][1], fails[i][2])).effects)
    <3>1. CASE i = 0
      BY <1>6, <2>1, <3>1, Zenon
    <3>2. CASE i # 0
      <4>1. i \in 1..n /\ i - 1 \in 0..n
        BY <3>2
      <4>2. h[i] = h[i - 1] \o <<fails[i]>>
        BY <1>6, <2>1, <4>1, Zenon
      <4> QED BY <1>5, <3>2, <4>1, <4>2, Zenon
    <3> QED BY <3>1, <3>2
  <2>3. RecordedRec(c, k, h)
    BY <1>1, <1>2, <2>1, <2>2, Zenon DEF RecordedRec
  <2> QED BY <2>3, Zenon
<1> HIDE DEF l
<1>8. l[n] = fails
  <2>1. \A i \in 0..n : l[i] = IF i = 0 THEN <<>> ELSE l[i - 1] \o ScoresIn(
                          Reduce(k[i - 1], ProbeFailed(fails[i][1], fails[i][2])).effects)
    BY <1>1, <1>2, <1>7, Zenon DEF RecordedRec
  <2> DEFINE T == {i \in Nat : i <= n => l[i] = Prefix(fails, i)}
  <2>2. 0 \in T
    BY <1>6, <2>1, SMTT(30)
  <2>3. ASSUME NEW i \in Nat, i \in T PROVE i + 1 \in T
    <3> SUFFICES ASSUME i + 1 <= n PROVE l[i + 1] = Prefix(fails, i + 1)
      OBVIOUS
    <3>1. i + 1 \in 1..n /\ i + 1 \in 0..n /\ i + 1 - 1 = i /\ i + 1 # 0 /\ i <= n
      OBVIOUS
    <3>2. l[i] = Prefix(fails, i)
      BY <2>3, <3>1, Zenon
    <3>3. l[i + 1] = l[i] \o <<fails[i + 1]>>
      <4>1. PICK j \in 1..n : j = i + 1 /\ j - 1 = i /\ j # 0 /\ j \in 0..n
        BY <3>1
      <4>2. l[j] = l[j - 1] \o ScoresIn(
                      Reduce(k[j - 1], ProbeFailed(fails[j][1], fails[j][2])).effects)
        BY <2>1, <4>1, Zenon
      <4>3. l[j] = l[j - 1] \o <<fails[j]>>
        BY <1>5, <4>1, <4>2, Zenon
      <4> QED BY <4>1, <4>3, SMTT(30)
    <3>4. Prefix(fails, i + 1) = Prefix(fails, i) \o <<fails[i + 1]>>
      BY <1>6, <3>1, SMTT(30)
    <3> QED BY <3>2, <3>3, <3>4, Zenon
  <2> HIDE DEF T
  <2>4. \A i \in Nat : i \in T
    BY <2>2, <2>3, Induction, Zenon
  <2> QED BY <1>6, <2>4 DEF T
<1>9. k[n] = Cooldown \/ k[n] = Probing(Left(C, fails, n))
  <2>1. \A j \in 0..Len(c.failures) : k[j] = StateAfter(C, c.failures, j)
    BY <1>3, FsmAfter, Zenon
  <2>2. k[n] = StateAfter(C, fails, n)
    BY <1>1, <1>2, <2>1
  <2> QED BY <2>2, Zenon DEF StateAfter
<1>10. PICK d : /\ IsCall(d) /\ d.fsm = k[n] /\ d.recorded = fails
                /\ d = [c EXCEPT !.fsm = k[Len(c.failures)], !.recorded = l[Len(c.failures)]]
  <2>1. PICK x, y : x = k[Len(c.failures)] /\ y = l[Len(c.failures)] /\ x = k[n] /\ y = fails
    BY <1>1, <1>2, <1>8
  <2>2. PICK d : d = [c EXCEPT !.fsm = x, !.recorded = y]
    BY Zenon
  <2>3. IsCall(d) /\ d.fsm = x /\ d.recorded = y
    BY <2>2, Zenon DEF IsCall, CallFields
  <2> QED BY <2>1, <2>2, <2>3, Zenon
<1>11. FeedFailures(c) = AllFailed(d)
  BY <1>4, <1>10, Zenon
<1>12. AllFailed(d).fsm = Cooldown /\ AllFailed(d).recorded = d.recorded
  <2>1. CASE d.fsm = Cooldown
    BY <2>1 DEF AllFailed, Cooldown
  <2>2. CASE d.fsm = Probing(Left(C, fails, n))
    <3>1. d.fsm.tag = "Probing"
      BY <2>2 DEF Probing
    <3>2. PICK s : s = d.fsm /\ s.tag = "Probing"
      BY <3>1, Zenon
    <3>3. PICK ev : ev = AllProbesFailed /\ ev.tag = "AllProbesFailed"
      <4>1. AllProbesFailed.tag = "AllProbesFailed"
        BY DEF AllProbesFailed
      <4> QED BY <4>1, Zenon
    <3>4. Reduce(s, ev) = To(Cooldown, <<ScheduleCooldown>>)
      BY <3>2, <3>3, Zenon DEF Reduce, ReduceProbing
    <3>5. Reduce(d.fsm, AllProbesFailed).state = Cooldown
      BY <3>2, <3>3, <3>4 DEF To
    <3>6. AllFailed(d) = [d EXCEPT !.fsm = Cooldown]
      BY <3>1, <3>5, Zenon DEF AllFailed
    <3> QED BY <1>10, <3>6, Zenon DEF IsCall, CallFields
  <2> QED BY <1>9, <1>10, <2>1, <2>2
<1> QED BY <1>1, <1>10, <1>11, <1>12, Zenon

=============================================================================
