----------------------------- MODULE SessionSlot -----------------------------
(***************************************************************************)
(* The coordinator's session slot (src/veil/coordinator.rs): the           *)
(* Mutex<Option<ActiveSession>>, the proxy task each session spawns, and   *)
(* the tunnels that task accepts.                                          *)
(*                                                                         *)
(* Every critical section of the slot's mutex runs without an await, so it *)
(* is one action; between fetching an id and taking the lock, and between  *)
(* the end of the accept loop and taking the lock, other tasks may run, so *)
(* those are separate actions.  A session is its id: 1, 2, ...             *)
(***************************************************************************)
EXTENDS Naturals

CONSTANTS
    MaxSessions,    \* bound on next_session_id
    Conns           \* local connections that may be open at the same time

ASSUME SlotAssumption == MaxSessions \in Nat \ {0}

Sessions == 1..MaxSessions
None == 0

VARIABLES
    nextId,     \* next_session_id
    slot,       \* the id in `active`, or None
    loop,       \* the proxy task of each session
    signalled,  \* shutdown_tx has been sent (or dropped)
    cancelled,  \* the session's `tunnels` token is cancelled
    tunnel      \* tunnel[c]: the session that serves connection c, or None

slotVars == <<nextId, slot, loop, signalled, cancelled, tunnel>>

LoopStates == {"none", "claimed", "accepting", "retrying", "clearing", "done"}

SlotTypeOK ==
    /\ nextId \in 0..MaxSessions
    /\ slot \in Sessions \cup {None}
    /\ loop \in [Sessions -> LoopStates]
    /\ signalled \in [Sessions -> BOOLEAN]
    /\ cancelled \in [Sessions -> BOOLEAN]
    /\ tunnel \in [Conns -> Sessions \cup {None}]

SlotInit ==
    /\ nextId = 0
    /\ slot = None
    /\ loop = [s \in Sessions |-> "none"]
    /\ signalled = [s \in Sessions |-> FALSE]
    /\ cancelled = [s \in Sessions |-> FALSE]
    /\ tunnel = [c \in Conns |-> None]

-----------------------------------------------------------------------------
(* Operations on the slot.                                                 *)

\* ActiveSession::shut_down: tell the accept loop to end, cancel the tunnels.
\* (Fault: only one of the two, as before 2026-10-22: the tunnels keep flowing.)
ShutDownListenerOnly(s) ==
    /\ signalled' = [t \in Sessions |-> signalled[t] \/ t = s]
    /\ UNCHANGED cancelled

ShutDown(s) ==
    /\ signalled' = [t \in Sessions |-> signalled[t] \/ t = s]
    /\ cancelled' = [t \in Sessions |-> cancelled[t] \/ t = s]

\* install_session, first half: take the next id.
FetchId ==
    /\ nextId < MaxSessions
    /\ nextId' = nextId + 1
    /\ loop' = [loop EXCEPT ![nextId + 1] = "claimed"]
    /\ UNCHANGED <<slot, signalled, cancelled, tunnel>>

\* install_session, second half: under the lock, shut down the session still in
\* the slot and put this one there; then spawn its proxy task.
\* (Fault: the old session is overwritten without being told.)
InstallOverOld(s) ==
    /\ loop[s] = "claimed"
    /\ slot' = s
    /\ loop' = [loop EXCEPT ![s] = "accepting"]
    /\ UNCHANGED <<nextId, signalled, cancelled, tunnel>>

Install(s) ==
    /\ loop[s] = "claimed"
    /\ ShutDown(slot)
    /\ slot' = s
    /\ loop' = [loop EXCEPT ![s] = "accepting"]
    /\ UNCHANGED <<nextId, tunnel>>

\* stop(), and the StopActive effect: take the session and shut it down.
StopSession ==
    /\ slot # None
    /\ ShutDown(slot)
    /\ slot' = None
    /\ UNCHANGED <<nextId, loop, tunnel>>

-----------------------------------------------------------------------------
(* The proxy task.                                                         *)

\* The loop is left: the listener is dropped and the tunnels are cancelled.
LeaveLoop(s) ==
    /\ loop' = [loop EXCEPT ![s] = "clearing"]
    /\ cancelled' = [cancelled EXCEPT ![s] = TRUE]

\* accept() returned a connection.  select! may choose this branch even when
\* shutdown_rx is ready too.
Accept(s, c) ==
    /\ loop[s] = "accepting"
    /\ tunnel[c] = None
    /\ tunnel' = [tunnel EXCEPT ![c] = s]
    /\ UNCHANGED <<nextId, slot, loop, signalled, cancelled>>

\* accept() failed for want of descriptors or memory: sleep, then accept again.
\* (A failure that is retried at once leaves every variable as it is.)
AcceptExhausted(s) ==
    /\ loop[s] = "accepting"
    /\ loop' = [loop EXCEPT ![s] = "retrying"]
    /\ UNCHANGED <<nextId, slot, signalled, cancelled, tunnel>>

\* (Fault: while descriptors are short the loop sleeps again, without a look at
\* shutdown_rx.)
RetryAcceptBlind(s) ==
    /\ loop[s] = "retrying"
    /\ UNCHANGED slotVars

RetryAccept(s) ==
    /\ loop[s] = "retrying"
    /\ loop' = [loop EXCEPT ![s] = "accepting"]
    /\ UNCHANGED <<nextId, slot, signalled, cancelled, tunnel>>

\* accept() failed because the listener itself is broken: the loop ends.
ListenerBroken(s) ==
    /\ loop[s] = "accepting"
    /\ LeaveLoop(s)
    /\ UNCHANGED <<nextId, slot, signalled, tunnel>>

\* shutdown_rx resolved: the loop ends.
ObserveShutdown(s) ==
    /\ loop[s] = "accepting"
    /\ signalled[s]
    /\ LeaveLoop(s)
    /\ UNCHANGED <<nextId, slot, signalled, tunnel>>

\* The task's last act: clear the slot if it still holds this session.
\* (Fault: clear it whatever it holds, as before 2026-10-22.)
ClearSlotAlways(s) ==
    /\ loop[s] = "clearing"
    /\ slot' = None
    /\ loop' = [loop EXCEPT ![s] = "done"]
    /\ UNCHANGED <<nextId, signalled, cancelled, tunnel>>

ClearSlot(s) ==
    /\ loop[s] = "clearing"
    /\ slot' = IF slot = s THEN None ELSE slot
    /\ loop' = [loop EXCEPT ![s] = "done"]
    /\ UNCHANGED <<nextId, signalled, cancelled, tunnel>>

-----------------------------------------------------------------------------
(* The tunnel tasks.                                                       *)

\* The ferry of connection c ended by itself (a peer closed, the dial failed).
TunnelEnds(c) ==
    /\ tunnel[c] # None
    /\ tunnel' = [tunnel EXCEPT ![c] = None]
    /\ UNCHANGED <<nextId, slot, loop, signalled, cancelled>>

\* The ferry of connection c is dropped because its session's token fired.
TunnelCancelled(c) ==
    /\ tunnel[c] # None
    /\ cancelled[tunnel[c]]
    /\ tunnel' = [tunnel EXCEPT ![c] = None]
    /\ UNCHANGED <<nextId, slot, loop, signalled, cancelled>>

-----------------------------------------------------------------------------
\* What the runtime does without being asked by the host.
Background ==
    \/ \E s \in Sessions :
          \/ AcceptExhausted(s)
          \/ RetryAccept(s)
          \/ ListenerBroken(s)
          \/ ObserveShutdown(s)
          \/ ClearSlot(s)
    \/ \E s \in Sessions, c \in Conns : Accept(s, c)
    \/ \E c \in Conns : TunnelEnds(c) \/ TunnelCancelled(c)

SlotNext ==
    \/ FetchId
    \/ \E s \in Sessions : Install(s)
    \/ StopSession
    \/ Background

\* A spawned task is polled again when its timer, token or lock is ready.
\* ObserveShutdown needs strong fairness: select! polls its branches in random
\* order, and a loop that sleeps after an accept error looks at shutdown_rx only
\* between two sleeps.
SlotFairness ==
    /\ \A s \in Sessions : /\ SF_slotVars(ObserveShutdown(s))
                           /\ WF_slotVars(RetryAccept(s))
                           /\ WF_slotVars(ClearSlot(s))
    /\ \A c \in Conns : WF_slotVars(TunnelCancelled(c))

SlotSpec == SlotInit /\ [][SlotNext]_slotVars /\ SlotFairness

-----------------------------------------------------------------------------
(* Properties.                                                             *)

\* A listener that nobody has told to end is the one in the slot: stop() can
\* always reach it, is_alive() and port() know it, and there is at most one.
\* (install_session, stop and the proxy task's clean-up together.)
LiveListenerIsReachable ==
    \A s \in Sessions :
        loop[s] \in {"accepting", "retrying"} /\ ~signalled[s] => slot = s

\* The slot never names a session that was told to end or whose task is over:
\* is_alive() is wrong at most between the end of an accept loop that broke and
\* the task's own clean-up.
SlotIsNotStale ==
    slot # None => /\ loop[slot] \in {"accepting", "retrying", "clearing"}
                   /\ ~signalled[slot]

\* The slot is what the host can rely on: the listener that serves is in it, and what is in it
\* has not been told to end.  (install_session, stop, is_alive and the task's clean-up.)
SlotNamesTheListener == LiveListenerIsReachable /\ SlotIsNotStale

\* A tunnel never outlives the listener that accepted it without being
\* cancelled: run_proxy_loop cancels the token on every way out.
TunnelsFollowListener ==
    \A c \in Conns : tunnel[c] # None =>
        LET s == tunnel[c] IN
        /\ signalled[s] => cancelled[s]
        /\ loop[s] \in {"clearing", "done"} => cancelled[s]

\* A session told to end (by stop or by its successor) does end: its proxy task
\* finishes, whatever accept() returns meanwhile.
ShutdownTakesEffect ==
    \A s \in Sessions : signalled[s] ~> loop[s] = "done"

\* After a session is cancelled there is a time from which it serves nothing,
\* although its loop may still accept connections for a while.
TunnelsEnd ==
    \A s \in Sessions :
        <>cancelled[s] => <>[](\A c \in Conns : tunnel[c] # s)

\* What is told to end comes to an end: the listener of a session (shut_down, run_proxy_loop)
\* and every tunnel it accepted, before or after it was told.
SessionsEnd == ShutdownTakesEffect /\ TunnelsEnd

\* The abstract service.  A session serves from the moment it is in the slot
\* until it is told to end or its loop is left.
StatusOf(s) ==
    IF loop[s] \in {"none", "claimed"} THEN "fresh"
    ELSE IF loop[s] \in {"accepting", "retrying"} /\ ~signalled[s] THEN "serving"
    ELSE "ended"

Service == INSTANCE SessionService
               WITH status   <- [s \in Sessions |-> StatusOf(s)],
                    reported <- slot

\* The slot implements SessionService: one session serves at a time, an ended
\* session never serves again, and the host is never told about a session that
\* has been superseded.
ImplementsService == Service!Spec

=============================================================================
