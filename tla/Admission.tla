------------------------------ MODULE Admission ------------------------------
(***************************************************************************)
(* The relay's accept loop and the life of a connection                    *)
(* (crates/construct-veil-relay/src/main.rs, gate.rs, site.rs): the        *)
(* semaphore of handshake permits, the live-connection count per source    *)
(* address, and the task of each connection from the TLS handshake to the  *)
(* end of its tunnel or site forwarding.  Module Relay adds the counters.  *)
(*                                                                         *)
(* The bytes a connection carries are left out: what the gate reads is a   *)
(* choice of its verdicts, what the tunnel and the site do a choice of how *)
(* they end.  accept() failing changes nothing: the loop goes on.          *)
(***************************************************************************)
EXTENDS Integers, FiniteSets

CONSTANTS
    Conns,              \* connections that may exist at the same time
    Addrs,              \* source addresses
    Bucket,             \* per_ip_bucket: the key an address is counted under
    MaxHandshakesArg,   \* --max-handshakes
    MaxPerIpArg         \* --max-conns-per-ip

ASSUME AdmissionAssumption ==
    /\ IsFiniteSet(Conns)
    /\ MaxHandshakesArg \in Nat
    /\ MaxPerIpArg \in Nat
    /\ DOMAIN Bucket = Addrs

Buckets == {Bucket[a] : a \in Addrs}

VARIABLES
    pc,         \* pc[c]: where the task of connection c is
    addr,       \* addr[c]: its peer address
    permits,    \* free permits of the `handshakes` semaphore
    perIp       \* perIp[b]: the entry of the per_ip map, or Absent

admVars == <<pc, addr, permits, perIp>>

Absent == -1

\* Admission::new: both limits are at least one.
AtLeastOne(n) == IF n < 1 THEN 1 ELSE n
MaxHandshakes == AtLeastOne(MaxHandshakesArg)
MaxPerIp == AtLeastOne(MaxPerIpArg)

\* "admit": accepted, holds a permit, not yet counted.  "handshake" to "site": a
\* running task.  "unwinding": the handshake failed, the address is released and
\* the permit not yet.
Counted == {"handshake", "gate", "gate2", "dial", "tunnel", "site"}
HoldsPermit == {"admit", "handshake", "unwinding"}
ConnStates == {"closed"} \cup Counted \cup HoldsPermit

AdmInit ==
    /\ pc = [c \in Conns |-> "closed"]
    /\ addr \in [Conns -> Addrs]
    /\ permits = MaxHandshakes
    /\ perIp = [b \in Buckets |-> Absent]

MoveTo(c, state) == pc' = [pc EXCEPT ![c] = state]

-----------------------------------------------------------------------------
(* The accept loop: one task, so at most one connection is in "admit".     *)

\* accept() returned a connection and there is no permit: it is dropped.
ShedGlobal ==
    /\ \A d \in Conns : pc[d] # "admit"
    /\ permits = 0
    /\ UNCHANGED admVars

\* accept() returned a connection and a permit was taken.
Accept(c, a) ==
    /\ \A d \in Conns : pc[d] # "admit"
    /\ pc[c] = "closed"
    /\ permits > 0
    /\ permits' = permits - 1
    /\ addr' = [addr EXCEPT ![c] = a]
    /\ MoveTo(c, "admit")
    /\ UNCHANGED perIp

\* map.entry(ip).or_insert(0)
CountOf(b) == IF perIp[b] = Absent THEN 0 ELSE perIp[b]

\* admit_ip: the address is at its cap.  The connection and its permit are
\* dropped; the entry that or_insert made stays.
ShedPerIp(c) ==
    LET b == Bucket[addr[c]] IN
    /\ pc[c] = "admit"
    /\ CountOf(b) >= MaxPerIp
    /\ perIp' = [perIp EXCEPT ![b] = CountOf(b)]
    /\ permits' = permits + 1
    /\ MoveTo(c, "closed")
    /\ UNCHANGED addr

\* admit_ip: the address is counted, and the connection's task is spawned.
AdmitIp(c) ==
    LET b == Bucket[addr[c]] IN
    /\ pc[c] = "admit"
    /\ CountOf(b) < MaxPerIp
    /\ perIp' = [perIp EXCEPT ![b] = CountOf(b) + 1]
    /\ MoveTo(c, "handshake")
    /\ UNCHANGED <<addr, permits>>

-----------------------------------------------------------------------------
(* The connection's task.                                                  *)

\* Drop for IpGuard.
DropIpGuard(c) ==
    LET b == Bucket[addr[c]] IN
    perIp' = IF perIp[b] = Absent THEN perIp
             ELSE [perIp EXCEPT ![b] = IF @ - 1 = 0 THEN Absent ELSE @ - 1]

\* The task ends and drops what it holds: the guard, the socket.
EndTask(c) ==
    /\ DropIpGuard(c)
    /\ MoveTo(c, "closed")
    /\ UNCHANGED <<addr, permits>>

\* The handshake failed or timed out: the task's guard is dropped first, then
\* the permit it captured.
\* (Fault: the permit is forgotten.)
HandshakeEndsLeaky(c) ==
    /\ pc[c] = "handshake"
    /\ DropIpGuard(c)
    /\ MoveTo(c, "closed")
    /\ UNCHANGED <<addr, permits>>

HandshakeEnds(c) ==
    /\ pc[c] = "handshake"
    /\ DropIpGuard(c)
    /\ MoveTo(c, "unwinding")
    /\ UNCHANGED <<addr, permits>>

DropPermit(c) ==
    /\ pc[c] = "unwinding"
    /\ permits' = permits + 1
    /\ MoveTo(c, "closed")
    /\ UNCHANGED <<addr, perIp>>

\* TLS is up: the permit is released, the address stays counted.
HandshakeDone(c) ==
    /\ pc[c] = "handshake"
    /\ permits' = permits + 1
    /\ MoveTo(c, "gate")
    /\ UNCHANGED <<addr, perIp>>

\* The gate's first read brought bytes: a complete AUTH frame is a tunnel or
\* site traffic, an incomplete one needs the second read.
FirstRead(c) ==
    /\ pc[c] = "gate"
    /\ \E next \in {"dial", "site", "gate2"} : MoveTo(c, next)
    /\ UNCHANGED <<addr, permits, perIp>>

\* No exporter, a read error, EOF, or silence until the first-byte timeout: the
\* connection is closed.
NothingToRead(c) ==
    /\ pc[c] = "gate"
    /\ EndTask(c)

\* The second read, at most GATE_READ_TIMEOUT: whatever it brings, it decides.
\* (Fault: the gate reads on until the frame is complete.)
SecondReadLoops(c) ==
    /\ pc[c] = "gate2"
    /\ \E next \in {"dial", "site", "gate"} : MoveTo(c, next)
    /\ UNCHANGED <<addr, permits, perIp>>

SecondRead(c) ==
    /\ pc[c] = "gate2"
    /\ \E next \in {"dial", "site"} : MoveTo(c, next)
    /\ UNCHANGED <<addr, permits, perIp>>

\* open_backend or dial_upstream_within succeeded.
DialDone(c) ==
    /\ pc[c] = "dial"
    /\ MoveTo(c, "tunnel")
    /\ UNCHANGED <<addr, permits, perIp>>

\* It failed or timed out.
DialFails(c) ==
    /\ pc[c] = "dial"
    /\ EndTask(c)

\* forward_tunnel / forward_chain / forward_to_site returned, with or without an
\* error.
ForwardEnds(c) ==
    /\ pc[c] \in {"tunnel", "site"}
    /\ EndTask(c)

-----------------------------------------------------------------------------
ConnTask(c) ==
    \/ HandshakeEnds(c)
    \/ DropPermit(c)
    \/ HandshakeDone(c)
    \/ FirstRead(c)
    \/ NothingToRead(c)
    \/ SecondRead(c)
    \/ DialDone(c)
    \/ DialFails(c)
    \/ ForwardEnds(c)

AdmNext ==
    \/ ShedGlobal
    \/ \E c \in Conns, a \in Addrs : Accept(c, a)
    \/ \E c \in Conns : ShedPerIp(c) \/ AdmitIp(c) \/ ConnTask(c)

\* The accept loop goes on; handshake, both reads and the dial are bounded by
\* timers.  Nothing bounds a tunnel or a site visit.
AdmSpec ==
    /\ AdmInit /\ [][AdmNext]_admVars
    /\ \A c \in Conns :
          /\ WF_admVars(ShedPerIp(c) \/ AdmitIp(c))
          /\ WF_admVars(HandshakeEnds(c) \/ HandshakeDone(c))
          /\ WF_admVars(DropPermit(c))
          /\ WF_admVars(FirstRead(c) \/ NothingToRead(c))
          /\ WF_admVars(SecondRead(c))
          /\ WF_admVars(DialDone(c) \/ DialFails(c))

-----------------------------------------------------------------------------
(* Properties.                                                             *)

AdmTypeOK ==
    /\ pc \in [Conns -> ConnStates]
    /\ addr \in [Conns -> Addrs]
    /\ permits \in 0..MaxHandshakes
    /\ perIp \in [Buckets -> {Absent} \cup (1..MaxPerIp)]

LiveIn(b) == {c \in Conns : pc[c] \in Counted /\ Bucket[addr[c]] = b}
Holders == {c \in Conns : pc[c] \in HoldsPermit}

\* The per_ip map counts the live connections of each bucket, exactly, and has an
\* entry only for a bucket with a live connection, on every path a task can end.
PerIpIsExact ==
    \A b \in Buckets :
        perIp[b] = IF LiveIn(b) = {} THEN Absent ELSE Cardinality(LiveIn(b))

\* No bucket ever has more live connections than the cap.
PerIpIsBounded == \A b \in Buckets : Cardinality(LiveIn(b)) <= MaxPerIp

\* Every permit is either free or held by a connection that has not finished its
\* handshake: none is lost when a handshake fails, times out or is shed.
PermitsAreExact == permits + Cardinality(Holders) = MaxHandshakes

\* What limits the relay is accounted for: on every path a task can take, both limits are
\* exact and kept.  (admit_ip, the drops of IpGuard and of the permit.)
AdmissionIsAccounted == PerIpIsExact /\ PerIpIsBounded /\ PermitsAreExact

\* A peer that goes silent before its tunnel or site visit is up does not keep
\* its task, its permit and its per-address slot.
SilentPeerIsDropped ==
    \A c \in Conns :
        pc[c] \in {"admit", "handshake", "unwinding", "gate", "gate2", "dial"}
            ~> pc[c] \in {"closed", "tunnel", "site"}

=============================================================================
