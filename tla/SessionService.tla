--------------------------- MODULE SessionService ---------------------------
(***************************************************************************)
(* What the client promises about sessions, without locks, listeners or    *)
(* tasks.  A session is fresh, then serving, then ended, never anything    *)
(* else; at most one session serves at a time; and the session the host is *)
(* told about (veil_is_alive, veil_port) is the serving one, or one that   *)
(* has just ended by itself and is about to be forgotten.                  *)
(*                                                                         *)
(* SessionSlot implements this module: see SessionSlot!Service.            *)
(***************************************************************************)
EXTENDS Naturals

CONSTANT MaxSessions     \* bound on the number of sessions of one process

Sessions == 1..MaxSessions

VARIABLES
    status,     \* status[s]: "fresh" | "serving" | "ended"
    reported    \* the session the host is told about, 0 for none

vars == <<status, reported>>

Serving == {s \in Sessions : status[s] = "serving"}

Init ==
    /\ status = [s \in Sessions |-> "fresh"]
    /\ reported = 0

\* A new session begins to serve; whatever served before has ended.
Begin(s) ==
    /\ status[s] = "fresh"
    /\ status' = [t \in Sessions |-> IF t = s THEN "serving"
                                     ELSE IF status[t] = "serving" THEN "ended"
                                     ELSE status[t]]
    /\ reported' = s

\* The host stops the session it is told about.
Stop ==
    /\ reported # 0
    /\ status' = [status EXCEPT ![reported] = "ended"]
    /\ reported' = 0

\* A session ends without being asked to: its listener broke.
Die(s) ==
    /\ status[s] = "serving"
    /\ status' = [status EXCEPT ![s] = "ended"]
    /\ UNCHANGED reported

\* A session that ended by itself is no longer reported.
Forget ==
    /\ reported # 0
    /\ status[reported] = "ended"
    /\ reported' = 0
    /\ UNCHANGED status

Next ==
    \/ \E s \in Sessions : Begin(s) \/ Die(s)
    \/ Stop
    \/ Forget

SafetySpec == Init /\ [][Next]_vars

Spec == SafetySpec /\ WF_vars(Forget)

=============================================================================
