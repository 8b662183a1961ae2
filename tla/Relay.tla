-------------------------------- MODULE Relay --------------------------------
(***************************************************************************)
(* The relay process: the accept loop and connection tasks of Admission    *)
(* with the counters each of them increments (ConnStats and the gate's two *)
(* counters), and the ticker task that flushes the counters into one       *)
(* "connection summary" line per window.  The counters are separate        *)
(* atomics: the flush swaps them one after the other while connections go  *)
(* on counting.                                                            *)
(***************************************************************************)
EXTENDS Admission, Sequences, Functions

CONSTANT MaxAccepts     \* bound on the connections accept() returns

\* In the order ConnStats::flush swaps them.
Counters == <<"completed", "handshake_timeout", "handshake_failed", "handler_error",
              "shed_global", "shed_per_ip", "tunnels", "auth_after_second_read">>
CounterNames == Range(Counters)

VARIABLES
    stats,      \* the atomics
    owed,       \* owed[c]: what the task of c increments before anything else
    step,       \* the next counter the flush swaps, or 0 between two ticks
    line,       \* the values swapped so far in this flush
    reported,   \* the sum of all emitted lines
    accepted    \* connections accept() has returned

flushVars == <<step, line, reported>>
statVars == <<stats, owed, accepted, flushVars>>
relayVars == <<admVars, statVars>>

Zero == [k \in CounterNames |-> 0]

RelayInit ==
    /\ AdmInit
    /\ stats = Zero
    /\ owed = [c \in Conns |-> {}]
    /\ step = 0
    /\ line = Zero
    /\ reported = Zero
    /\ accepted = 0

\* fetch_add(1).
Count(k) ==
    /\ stats' = [stats EXCEPT ![k] = @ + 1]
    /\ UNCHANGED <<owed, accepted, flushVars>>

\* The accept loop.
AcceptOne ==
    /\ accepted < MaxAccepts
    /\ accepted' = accepted + 1
    /\ \/ /\ ShedGlobal
          /\ stats' = [stats EXCEPT !["shed_global"] = @ + 1]
       \/ /\ \E c \in Conns, a \in Addrs : Accept(c, a)
          /\ UNCHANGED stats
    /\ UNCHANGED <<owed, flushVars>>

AdmitOne(c) ==
    \/ ShedPerIp(c) /\ Count("shed_per_ip")
    \/ AdmitIp(c) /\ UNCHANGED statVars

\* A connection's task.  `completed` is counted after the permit is released.
Handshake(c) ==
    \/ HandshakeEnds(c) /\ \E k \in {"handshake_failed", "handshake_timeout"} : Count(k)
    \/ DropPermit(c) /\ UNCHANGED statVars
    \/ /\ HandshakeDone(c)
       /\ owed' = [owed EXCEPT ![c] = {"completed"}]
       /\ UNCHANGED <<stats, accepted, flushVars>>

\* The gate counts a tunnel in consume(), after the second read has counted it
\* as its own.
Gate(c) ==
    \/ FirstRead(c) /\ IF pc'[c] = "dial" THEN Count("tunnels") ELSE UNCHANGED statVars
    \/ /\ SecondRead(c)
       /\ IF pc'[c] = "dial"
          THEN /\ stats' = [stats EXCEPT !["auth_after_second_read"] = @ + 1]
               /\ owed' = [owed EXCEPT ![c] = {"tunnels"}]
               /\ UNCHANGED <<accepted, flushVars>>
          ELSE UNCHANGED statVars
    \/ NothingToRead(c) /\ UNCHANGED statVars

Dial(c) ==
    \/ DialDone(c) /\ UNCHANGED statVars
    \/ DialFails(c) /\ Count("handler_error")

\* Only the tunnel's errors reach the caller: those of the site are logged.
Forward(c) ==
    \/ ForwardEnds(c) /\ UNCHANGED statVars
    \/ ForwardEnds(c) /\ pc[c] = "tunnel" /\ Count("handler_error")

CountOwed(c) ==
    \E k \in owed[c] :
        /\ stats' = [stats EXCEPT ![k] = @ + 1]
        /\ owed' = [owed EXCEPT ![c] = @ \ {k}]
        /\ UNCHANGED <<admVars, accepted, flushVars>>

\* Up to the tunnel or the site visit every wait of the task has a timer.
TimedTask(c) == CountOwed(c) \/ (owed[c] = {} /\ (Handshake(c) \/ Gate(c) \/ Dial(c)))

Task(c) == TimedTask(c) \/ (owed[c] = {} /\ Forward(c))

-----------------------------------------------------------------------------
(* The ticker's task.                                                      *)

\* The ticker fires.
FlushBegins ==
    /\ step = 0
    /\ step' = 1
    /\ UNCHANGED <<admVars, stats, owed, accepted, line, reported>>

\* swap(0) of the next counter.
Swap ==
    /\ step \in DOMAIN Counters
    /\ LET k == Counters[step] IN
       /\ line' = [line EXCEPT ![k] = stats[k]]
       /\ stats' = [stats EXCEPT ![k] = 0]
    /\ step' = step + 1
    /\ UNCHANGED <<admVars, owed, reported, accepted>>

\* The line is emitted, unless every value is zero.
\* (Fault: the test for "nothing happened" forgets a counter.)
EmitUnlessIdle ==
    /\ step = Len(Counters) + 1
    /\ reported' = IF \A k \in CounterNames \ {"shed_per_ip"} : line[k] = 0 THEN reported
                   ELSE [k \in CounterNames |-> reported[k] + line[k]]
    /\ line' = Zero
    /\ step' = 0
    /\ UNCHANGED <<admVars, stats, owed, accepted>>

Emit ==
    /\ step = Len(Counters) + 1
    /\ reported' = IF \A k \in CounterNames : line[k] = 0 THEN reported
                   ELSE [k \in CounterNames |-> reported[k] + line[k]]
    /\ line' = Zero
    /\ step' = 0
    /\ UNCHANGED <<admVars, stats, owed, accepted>>

RelayNext ==
    \/ AcceptOne
    \/ \E c \in Conns : AdmitOne(c) \/ Task(c)
    \/ FlushBegins
    \/ Swap
    \/ Emit

\* The accept loop goes on and timers expire.  Nothing bounds a tunnel or a site visit.
RelaySpec ==
    /\ RelayInit /\ [][RelayNext]_relayVars
    /\ \A c \in Conns : WF_relayVars(AdmitOne(c)) /\ WF_relayVars(TimedTask(c))

-----------------------------------------------------------------------------
(* Properties.                                                             *)

\* What has been counted so far, emitted or not.
Total(k) == stats[k] + line[k] + reported[k]

Owing(k) == Cardinality({c \in Conns : k \in owed[c]})

RelayTypeOK ==
    /\ stats \in [CounterNames -> 0..MaxAccepts]
    /\ owed \in [Conns -> SUBSET {"completed", "tunnels"}]
    /\ line \in [CounterNames -> 0..MaxAccepts]
    /\ reported \in [CounterNames -> 0..MaxAccepts]
    /\ step \in 0..(Len(Counters) + 1)
    /\ accepted \in 0..MaxAccepts

\* Every connection accept() returned is counted exactly once, in one of five
\* counters, unless its handshake is still pending: no flush loses or repeats
\* what a connection counts while the flush swaps the other counters, and one
\* that stays silent had nothing to say.
EveryConnectionIsCounted ==
    accepted = Total("completed") + Owing("completed")
               + Total("handshake_timeout") + Total("handshake_failed")
               + Total("shed_global") + Total("shed_per_ip")
               + Cardinality({c \in Conns : pc[c] \in {"admit", "handshake"}})

\* A handler error belongs to a tunnel (a failed site visit is none), a tunnel to
\* a completed connection, and a second-read tunnel is a tunnel; no task counts
\* one of them twice.
CountersAreOrdered ==
    LET tunnels == Total("tunnels") + Owing("tunnels") IN
    /\ Total("auth_after_second_read") <= tunnels
    /\ Total("handler_error") <= tunnels
    /\ tunnels <= Total("completed")

\* The summary lines add up to what happened, whichever counters a flush has swapped when a
\* task counts.  (ConnStats::emit and every fetch_add of a connection's task.)
SummaryAddsUp == EveryConnectionIsCounted /\ CountersAreOrdered

=============================================================================
