--------------------------- MODULE EstablishProofs ---------------------------
(***************************************************************************)
(* Proofs about the provisioning of a chain relay and about the client's   *)
(* side of a session, for any seeds, command lines, configurations and     *)
(* clocks.                                                                 *)
(***************************************************************************)
EXTENDS Establish, WellFoundedInduction, TLAPS

-----------------------------------------------------------------------------
(* Lists.  The recursion of Only is followed with the least number where   *)
(* it could differ from what it should be: the library's induction rules   *)
(* quantify over an operator, which the provers cannot instantiate.        *)

\* A set of natural numbers that is not empty has a least element.
LEMMA LeastNat ==
    ASSUME NEW T \in SUBSET Nat, T # {}
    PROVE  \E m \in T : \A k \in T : m <= k
<1> DEFINE R == {p \in Nat \X Nat : p[1] < p[2]}
<1>1. IsWellFoundedOn(R, Nat)
    BY NatLessThanWellFounded, Zenon DEF OpToRel
<1>2. \A k, m \in T : <<k, m>> \in R <=> k < m
    BY Zenon
<1> HIDE DEF R
<1>3. PICK m \in T : \A k \in T : ~ (<<k, m>> \in R)
    BY <1>1, WFMin, Zenon
<1>4. \A k \in T : ~ (k < m)
    BY <1>2, <1>3, Zenon
<1>5. \A k \in T : m <= k
    BY <1>4
<1> QED
    BY <1>5, Zenon

\* Sequences with the same elements are the same.
LEMMA SameSeq ==
    ASSUME NEW X, NEW x \in Seq(X), NEW y \in Seq(X), Len(x) = Len(y),
           \A i \in 1..Len(x) : x[i] = y[i]
    PROVE  x = y
OBVIOUS

\* A sequence of one element.
LEMMA OneIs == ASSUME NEW X, NEW s \in Seq(X), Len(s) = 1 PROVE s[1] \in X /\ s = <<s[1]>>
<1>1. PICK x \in X : x = s[1]
    OBVIOUS
<1>2. <<x>> \in Seq(X) /\ Len(<<x>>) = 1 /\ <<x>>[1] = x
    OBVIOUS
<1>3. \A i \in 1..1 : i = 1
    OBVIOUS
<1>4. \A i \in 1..1 : s[i] = <<x>>[i]
    BY <1>1, <1>2, <1>3, Zenon
<1>5. s = <<x>>
    BY <1>2, <1>4, SameSeq, Zenon
<1> QED BY <1>1, <1>5, Zenon

\* g is the function that Only(s, S) computes.
KeptStep(s, S, g, i) ==
    IF i = 0 THEN <<>> ELSE IF s[i] \in S THEN Append(g[i - 1], s[i]) ELSE g[i - 1]
KeptRec(s, S, g) == g = [i \in 0..Len(s) |-> KeptStep(s, S, g, i)]

\* Only returns the last value of every such function.
LEMMA OnlyIs ==
    ASSUME NEW X, NEW s \in Seq(X), NEW S, NEW h, KeptRec(s, S, h)
    PROVE  Only(s, S) = h[Len(s)]
<1> DEFINE k == CHOOSE g : KeptRec(s, S, g)
<1>1. Only(s, S) = k[Len(s)]
  BY Zenon DEF Only, KeptRec, KeptStep
<1>2. KeptRec(s, S, k)
  BY Zenon
<1> HIDE DEF k
<1>3. PICK n \in Nat : n = Len(s)
  OBVIOUS
<1>4. \A i \in 0..n : k[i] = KeptStep(s, S, k, i) /\ h[i] = KeptStep(s, S, h, i)
  BY <1>2, <1>3, Zenon DEF KeptRec
<1> DEFINE T == {i \in 0..n : k[i] # h[i]}
<1>5. T = {}
  <2> SUFFICES ASSUME T # {} PROVE FALSE
    BY Zenon
  <2>1. PICK m \in T : \A i \in T : m <= i
    <3>1. T \in SUBSET Nat
      OBVIOUS
    <3> HIDE DEF T
    <3> QED BY <3>1, LeastNat, Zenon
  <2>2. m \in 0..n /\ k[m] # h[m]
    BY Zenon
  <2>3. m # 0 => m - 1 \in 0..n /\ ~(m <= m - 1)
    BY <2>2
  <2>4. m # 0 => k[m - 1] = h[m - 1]
    BY <2>1, <2>3, Zenon
  <2>5. k[m] = h[m]
    BY <1>4, <2>2, <2>4, Zenon DEF KeptStep
  <2> QED BY <2>2, <2>5, Zenon
<1>6. n \in 0..n
  OBVIOUS
<1>7. k[n] = h[n]
  BY <1>5, <1>6, Zenon
<1> QED BY <1>1, <1>3, <1>7, Zenon

\* Only keeps a list whose elements pass the test,
LEMMA OnlyAll ==
    ASSUME NEW S, NEW d \in Seq(S)
    PROVE  Only(d, S) = d
<1> DEFINE h == [i \in 0..Len(d) |-> SubSeq(d, 1, i)]
<1>1. PICK n \in Nat : n = Len(d)
  OBVIOUS
<1>2. ASSUME NEW i \in 0..n PROVE h[i] = KeptStep(d, S, h, i)
  <2>1. CASE i = 0
    BY <1>1, <2>1 DEF KeptStep
  <2>2. CASE i # 0
    <3>1. i \in 1..n /\ i - 1 \in 0..n /\ d[i] \in S
      BY <1>1, <2>2
    <3>2. h[i] = SubSeq(d, 1, i) /\ h[i - 1] = SubSeq(d, 1, i - 1)
      BY <1>1, <3>1, Zenon
    <3>3. SubSeq(d, 1, i) = Append(SubSeq(d, 1, i - 1), d[i])
      BY <1>1, <3>1
    <3> QED BY <2>2, <3>1, <3>2, <3>3, Zenon DEF KeptStep
  <2> QED BY <2>1, <2>2, Zenon
<1>3. KeptRec(d, S, h)
  BY <1>1, <1>2, Zenon DEF KeptRec
<1>4. h[n] = d
  BY <1>1
<1> HIDE DEF h
<1> QED BY <1>1, <1>3, <1>4, OnlyIs, Zenon

\* and drops an element before it that does not.
LEMMA OnlyRest ==
    ASSUME NEW X, NEW S, NEW c \in X, c \notin S, NEW d \in Seq(S), d \in Seq(X)
    PROVE  Only(<<c>> \o d, S) = d
<1>1. PICK n \in Nat, b \in Seq(X) :
         /\ n = Len(d) /\ b = <<c>> \o d /\ Len(b) = n + 1 /\ b[1] = c
         /\ \A i \in 2..n + 1 : b[i] = d[i - 1]
  <2>0. Len(d) \in Nat /\ <<c>> \o d \in Seq(X)
    OBVIOUS
  <2>1. PICK n \in Nat, b \in Seq(X) : n = Len(d) /\ b = <<c>> \o d
    BY <2>0, Zenon
  <2>2. Len(b) = n + 1 /\ b[1] = c /\ \A i \in 2..n + 1 : b[i] = d[i - 1]
    BY <2>1
  <2> QED BY <2>1, <2>2, Zenon
<1> DEFINE h == [i \in 0..n + 1 |-> IF i = 0 THEN <<>> ELSE SubSeq(d, 1, i - 1)]
<1>2. ASSUME NEW i \in 0..n + 1 PROVE h[i] = KeptStep(b, S, h, i)
  <2>1. CASE i = 0
    BY <2>1, Zenon DEF KeptStep
  <2>2. CASE i = 1
    <3>1. h[1] = <<>> /\ h[0] = <<>> /\ i - 1 = 0 /\ i # 0 /\ b[i] \notin S
      BY <1>1, <2>2
    <3> QED BY <2>2, <3>1, Zenon DEF KeptStep
  <2>3. CASE i > 1
    <3>1. i \in 2..n + 1 /\ i # 0 /\ i - 1 # 0 /\ i - 1 \in 1..n /\ i - 1 \in 0..n + 1
      BY <2>3
    <3>2. h[i] = SubSeq(d, 1, i - 1) /\ h[i - 1] = SubSeq(d, 1, i - 1 - 1)
      BY <3>1, Zenon
    <3>3. SubSeq(d, 1, i - 1) = Append(SubSeq(d, 1, i - 1 - 1), d[i - 1]) /\ d[i - 1] \in S
      BY <1>1, <3>1
    <3>4. b[i] = d[i - 1]
      BY <1>1, <3>1, Zenon
    <3> QED BY <3>1, <3>2, <3>3, <3>4, Zenon DEF KeptStep
  <2> QED BY <2>1, <2>2, <2>3
<1>3. KeptRec(b, S, h)
  BY <1>1, <1>2, Zenon DEF KeptRec
<1>4. h[n + 1] = d
  BY <1>1
<1> HIDE DEF h
<1> QED BY <1>1, <1>3, <1>4, OnlyIs, Zenon

-----------------------------------------------------------------------------
(* Provisioning.                                                           *)

\* Where the generation of a key pair is, the file holds nothing, a torn seed, or the seed of
\* this generation.
KeygenIsWhole ==
    \/ keygen = IdleKeygen
    \/ \E s \in used : keygen = [at |-> "write", seed |-> s] /\ seedFile = "torn"
    \/ \E s \in used : keygen = [at |-> "print", seed |-> s] /\ seedFile = s

\* The capability in the file was issued for a key that was printed.
CapFileIsBound ==
    capFile # NoCapability => \E s \in published : capFile.veil_pk = PublicKey(s)

\* The inductive invariant of the provisioning.
ProvInv ==
    /\ published \subseteq used
    /\ used \subseteq Seeds
    /\ KeygenIsWhole
    /\ IdentityIsKept
    /\ CapFileIsBound
    /\ relayRun.is = "chain" => capFile # NoCapability
    /\ ChainIsWhole

\* sign_v2 keeps the key the capability is for.
LEMMA SignKeepsKey ==
    ASSUME NEW c, "veil_pk" \in DOMAIN c, NEW seed, SignCapabilityV2(c, seed) # NoCapability
    PROVE  SignCapabilityV2(c, seed).veil_pk = c.veil_pk
<1>1. SignCapabilityV2(c, seed) = WithSignature(c, Signature(seed, CapV2Message(c)))
  BY Zenon DEF SignCapabilityV2
<1>2. QED
  BY <1>1, Zenon DEF WithSignature

LEMMA ProvInvInit ==
    ASSUME ProvInit
    PROVE  ProvInv
<1>1. relayRun.is = "down"
  BY Zenon DEF ProvInit, NotRunning
<1>2. QED
  BY <1>1, Zenon
  DEF ProvInit, ProvInv, KeygenIsWhole, IdentityIsKept, CapFileIsBound, ChainIsWhole

\* Every step of the operator, the issuer and the relay process keeps it.
LEMMA RelayProvisionPreserves ==
    ASSUME ProvInv, RelayProvision
    PROVE  ProvInv'
<1>1. ASSUME NEW s \in Seeds, KeygenOpen(s) PROVE ProvInv'
  <2>1. published = {}
    BY <1>1, SeedAssumption, Zenon DEF KeygenOpen, ProvInv, IdentityIsKept
  <2>2. relayRun.is # "chain" /\ capFile = NoCapability
    BY <2>1, Zenon DEF ProvInv, ChainIsWhole, CapFileIsBound
  <2>3. KeygenIsWhole'
    BY <1>1, Zenon DEF KeygenOpen, KeygenIsWhole
  <2>4. QED
    BY <1>1, <2>1, <2>2, <2>3, Zenon
    DEF KeygenOpen, ProvInv, IdentityIsKept, CapFileIsBound, ChainIsWhole
<1>2. CASE KeygenWrite
  <2>1. PICK s \in used : keygen = [at |-> "write", seed |-> s] /\ seedFile = "torn"
    BY <1>2 DEF KeygenWrite, ProvInv, KeygenIsWhole, IdleKeygen
  <2>2. published = {}
    BY <2>1, SeedAssumption, Zenon DEF ProvInv, IdentityIsKept
  <2>3. KeygenIsWhole'
    <3>1. seedFile' = s /\ keygen' = [at |-> "print", seed |-> s] /\ used' = used
      BY <1>2, <2>1, Zenon DEF KeygenWrite
    <3>2. QED
      BY <3>1, Zenon DEF KeygenIsWhole
  <2>4. relayRun.is # "chain" /\ capFile = NoCapability
    BY <2>2, Zenon DEF ProvInv, ChainIsWhole, CapFileIsBound
  <2>5. QED
    BY <1>2, <2>2, <2>3, <2>4, Zenon
    DEF KeygenWrite, ProvInv, IdentityIsKept, CapFileIsBound, ChainIsWhole
<1>3. CASE KeygenPrint
  <2>1. PICK s \in used : keygen = [at |-> "print", seed |-> s] /\ seedFile = s
    BY <1>3 DEF KeygenPrint, ProvInv, KeygenIsWhole, IdleKeygen
  <2>2. published' = published \cup {s} /\ keygen' = IdleKeygen
    BY <1>3, <2>1, Zenon DEF KeygenPrint
  <2>3. QED
    BY <1>3, <2>1, <2>2, Zenon
    DEF KeygenPrint, ProvInv, KeygenIsWhole, IdentityIsKept, CapFileIsBound, ChainIsWhole
<1>4. CASE KeygenDies
  BY <1>4, Zenon
  DEF KeygenDies, ProvInv, KeygenIsWhole, IdentityIsKept, CapFileIsBound, ChainIsWhole
<1>5. CASE RemoveSeedFile
  <2>1. published = {}
    BY <1>5, Zenon DEF RemoveSeedFile, ProvInv, IdentityIsKept
  <2>2. QED
    BY <1>5, <2>1, Zenon
    DEF RemoveSeedFile, ProvInv, KeygenIsWhole, IdentityIsKept, CapFileIsBound, ChainIsWhole
<1>6. CASE IssueRelayCapability
  <2> DEFINE cap(s) == [kind |-> "B1", ticket_id |-> "chain", veil_pk |-> PublicKey(s),
                        role |-> RoleRelay, not_before |-> ChainWindow[1],
                        not_after |-> ChainWindow[2], suite_id |-> SuiteClassicV1,
                        scope |-> ""]
  <2>1. PICK s \in published : capFile' = SignCapabilityV2(cap(s), ChainIssuer)
    BY <1>6, Zenon DEF IssueRelayCapability
  <2>2. CapFileIsBound'
    <3> SUFFICES ASSUME capFile' # NoCapability
                 PROVE  capFile'.veil_pk = PublicKey(s)
      BY <1>6, Zenon DEF IssueRelayCapability, CapFileIsBound
    <3>1. "veil_pk" \in DOMAIN cap(s) /\ cap(s).veil_pk = PublicKey(s)
      BY Zenon
    <3> HIDE DEF cap
    <3>2. QED
      BY <2>1, <3>1, SignKeepsKey, Zenon
  <2>3. relayRun.is # "chain"
    BY <1>6, Zenon DEF IssueRelayCapability, ProvInv
  <2>4. QED
    BY <1>6, <2>2, <2>3, Zenon
    DEF IssueRelayCapability, ProvInv, KeygenIsWhole, IdentityIsKept, ChainIsWhole
<1>7. ASSUME NEW a \in Starts, StartRelay(a) PROVE ProvInv'
  <2>1. \/ relayRun' = ChainConfig(a.chain)
        \/ relayRun' = [is |-> "failed", flags |-> a.chain, seed |-> ""]
    BY <1>7, Zenon DEF StartRelay
  <2>2. CASE relayRun' = [is |-> "local", flags |-> "none", seed |-> ""]
    <3>1. relayRun'.is = "local" /\ relayRun'.flags = "none"
      BY <2>2, Zenon
    <3>2. QED
      BY <1>7, <3>1, Zenon
      DEF StartRelay, ProvInv, KeygenIsWhole, IdentityIsKept, CapFileIsBound, ChainIsWhole
  <2>3. CASE /\ capFile # NoCapability
             /\ relayRun' = [is |-> "chain", flags |-> a.chain, seed |-> seedFile]
    <3>1. relayRun'.is = "chain" /\ relayRun'.seed = seedFile
      BY <2>3, Zenon
    <3>2. seedFile \in published /\ capFile.veil_pk = PublicKey(seedFile)
      BY <2>3, Zenon DEF ProvInv, CapFileIsBound, IdentityIsKept
    <3>3. QED
      BY <1>7, <2>3, <3>1, <3>2, Zenon
      DEF StartRelay, ProvInv, KeygenIsWhole, IdentityIsKept, CapFileIsBound, ChainIsWhole
  <2>4. CASE relayRun' = [is |-> "failed", flags |-> a.chain, seed |-> ""]
    <3>1. relayRun'.is = "failed"
      BY <2>4, Zenon
    <3>2. QED
      BY <1>7, <3>1, Zenon
      DEF StartRelay, ProvInv, KeygenIsWhole, IdentityIsKept, CapFileIsBound, ChainIsWhole
  <2>5. QED
    BY <2>1, <2>2, <2>3, <2>4, Zenon DEF ChainConfig
<1>8. CASE StopRelay
  BY <1>8, Zenon
  DEF StopRelay, NotRunning, ProvInv, KeygenIsWhole, IdentityIsKept, CapFileIsBound,
      ChainIsWhole
<1>9. QED
  BY <1>1, <1>2, <1>3, <1>4, <1>5, <1>6, <1>7, <1>8, Zenon DEF RelayProvision

\* make-config-link touches nothing of the relay.
LEMMA LinkProvisionPreserves ==
    ASSUME ProvInv, LinkProvision
    PROVE  ProvInv'
BY Zenon DEF LinkProvision, MakeConfigLink, ProvInv, KeygenIsWhole, IdentityIsKept, CapFileIsBound,
       ChainIsWhole

\* No step of a session changes what was provisioned.
LEMMA SessionLeavesProvision ==
    ASSUME Next, ~Provisioning
    PROVE  UNCHANGED provVars
<1>1. CASE ClientStep
  BY <1>1, Zenon
  DEF ClientStep, TcpConnect, TlsConnect, DialTimesOut, ExporterFails, Authenticate,
      SendPreface, ProbeRead, ProbeReadEnds
<1>2. CASE GateStep
  BY <1>2, Zenon DEF GateStep, GateExporter, GateRead, GateReadEnds, OpenBackend
<1>3. CASE CancelProbe \/ FerrySends \/ FerryEnds \/ FerryFd \/ Visit \/ VisitEnds
  BY <1>3, Zenon DEF CancelProbe, FerrySends, FerryEnds, FerryFd, Visit, VisitEnds
<1>4. CASE ChainDial \/ OpenLink
  BY <1>4, Zenon DEF ChainDial, OpenLink
<1>5. CASE ForwardToSite \/ RelayPump \/ RelayChaff \/ Reply \/ RelayEnds
  BY <1>5, Zenon DEF ForwardToSite, RelayPump, RelayChaff, Reply, RelayEnds
<1>6. QED
  BY <1>1, <1>2, <1>3, <1>4, <1>5 DEF Next

LEMMA ProvInvHolds == Spec => []ProvInv
<1>1. Init => ProvInv
  BY ProvInvInit, Zenon DEF Init
<1>2. ProvInv /\ [Next]_vars => ProvInv'
  <2> SUFFICES ASSUME ProvInv, [Next]_vars
               PROVE  ProvInv'
    BY Zenon
  <2>1. CASE Provisioning
    BY <2>1, RelayProvisionPreserves, LinkProvisionPreserves, Zenon DEF Provisioning
  <2>2. CASE ~Provisioning
    <3>1. UNCHANGED provVars
      BY <2>2, SessionLeavesProvision, Zenon DEF vars
    <3>2. QED
      BY <3>1, Zenon
      DEF provVars, ProvInv, KeygenIsWhole, IdentityIsKept, CapFileIsBound, ChainIsWhole
  <2>3. QED
    BY <2>1, <2>2, Zenon
<1>3. QED
  BY <1>1, <1>2, PTL DEF Spec

\* write_secret_file and the order of the steps of --generate-relay-keypair keep the seed of
\* every printed key, whenever a generation is interrupted and repeated.
THEOREM IdentityKept == Spec => []IdentityIsKept
<1>1. ProvInv => IdentityIsKept
  BY Zenon DEF ProvInv
<1>2. QED
  BY <1>1, ProvInvHolds, PTL

\* A relay's main enters chain mode only with the seed its capability was issued for, and
\* leaves it out only when no chain flag was given.
THEOREM ChainWhole == Spec => []ChainIsWhole
<1>1. ProvInv => ChainIsWhole
  BY Zenon DEF ProvInv
<1>2. QED
  BY <1>1, ProvInvHolds, PTL

-----------------------------------------------------------------------------
(* The client.                                                             *)

Dialers == {"probe", "ferry", "chain"}

\* The parts of the records that the argument is about.
ClientShape ==
    /\ {"kind", "peer", "pin", "fds"} \subseteq DOMAIN cfg
    /\ cfg.fds \in [DOMAIN cfg.fds -> {-1, 0}]
    /\ "pc" \in DOMAIN cl /\ "result" \in DOMAIN cl
    /\ "sent" \in DOMAIN up
    /\ DOMAIN fds = DOMAIN cfg.fds

\* A dialer has pinned its peer from the handshake on, and has sent nothing before.
PinnedFromHandshake ==
    /\ cl.pc \in {"off", "tcp", "tls"} => up.sent = <<>>
    /\ cl.pc \in {"auth", "send", "read", "run"} /\ cfg.kind \in Dialers =>
           cfg.peer.holds = cfg.pin
    /\ cl.pc = "call" => cfg.kind = "host"
    /\ cl.pc \in {"visit", "visiting"} => cfg.kind = "visitor"

\* The inductive invariant of the client.
ClientInv ==
    /\ ClientShape
    /\ PinnedFromHandshake
    /\ PinnedPeerOnly
    /\ FdsAreClosedOnce

\* Whoever passes the verifiers holds the pinned key.
LEMMA HandshakePins ==
    ASSUME NEW c, DialUtls(c) = "" \/ DialUpstreamTls(c) = ""
    PROVE  c.peer.holds = c.pin
<1>1. ASSUME NEW ok, Handshake(c.peer, ok) = "ok" PROVE ok
  BY <1>1, Zenon DEF Handshake
<1>2. CASE DialUtls(c) = ""
  <2>1. Handshake(c.peer, AcceptsPinned(c.peer, c.pin)) = "ok"
    BY <1>2, Zenon DEF DialUtls, FromTlsConnect
  <2>2. QED
    BY <1>1, <2>1, Zenon DEF AcceptsPinned
<1>3. CASE DialUpstreamTls(c) = ""
  <2>1. Handshake(c.peer, AcceptsUpstream(c.peer, c.pin)) = "ok"
    BY <1>3, Zenon DEF DialUpstreamTls
  <2>2. QED
    BY <1>1, <2>1, Zenon DEF AcceptsUpstream
<1>4. QED
  BY <1>2, <1>3, Zenon

\* A client that ends closes each descriptor of its host, whatever it had sent.
LEMMA FinishPreserves ==
    ASSUME ClientInv, NEW r, Finish(r), cl.pc # "done", UNCHANGED cfg,
           "sent" \in DOMAIN up',
           cfg.kind \in Dialers /\ up'.sent # <<>> => cfg.peer.holds = cfg.pin
    PROVE  ClientInv'
<1>1. cl'.pc = "done" /\ "pc" \in DOMAIN cl' /\ "result" \in DOMAIN cl'
  BY Zenon DEF Finish, ClientInv, ClientShape
<1>2. PinnedFromHandshake' /\ PinnedPeerOnly'
  BY <1>1, Zenon DEF PinnedFromHandshake, PinnedPeerOnly, Dialers
<1>3. DOMAIN fds' = DOMAIN fds
  BY Zenon DEF Finish, CloseFds
<1>4. FdsAreClosedOnce'
  <2> SUFFICES ASSUME cfg.kind = "host", NEW f \in DOMAIN fds, cfg.fds[f] >= 0
               PROVE  fds'[f] = 1
    BY <1>1, <1>3, Zenon DEF FdsAreClosedOnce
  <2>1. fds[f] = 0
    BY Zenon DEF ClientInv, FdsAreClosedOnce
  <2>2. fds'[f] = fds[f] + 1
    BY Zenon DEF Finish, CloseFds
  <2>3. QED
    BY <2>1, <2>2
<1>5. QED
  BY <1>1, <1>2, <1>3, <1>4, Zenon DEF ClientInv, ClientShape

\* A client that goes on keeps its descriptors open.
LEMMA GoOnPreserves ==
    ASSUME ClientInv, NEW pc, UNCHANGED <<cfg, fds>>, cl.pc # "done", pc # "done",
           cl' = [cl EXCEPT !.pc = pc],
           "sent" \in DOMAIN up', PinnedFromHandshake',
           cfg.kind \in Dialers /\ up'.sent # <<>> => cfg.peer.holds = cfg.pin
    PROVE  ClientInv'
<1>1. cl'.pc = pc /\ "pc" \in DOMAIN cl' /\ "result" \in DOMAIN cl'
  BY Zenon DEF ClientInv, ClientShape
<1>2. PinnedPeerOnly'
  BY Zenon DEF PinnedPeerOnly, Dialers
<1>3. FdsAreClosedOnce'
  BY <1>1, Zenon DEF ClientInv, FdsAreClosedOnce
<1>4. QED
  BY <1>1, <1>2, <1>3, Zenon DEF ClientInv, ClientShape

\* The steps of a dial.
LEMMA ClientStepPreserves ==
    ASSUME ClientInv, ClientStep
    PROVE  ClientInv'
<1>0. /\ "sent" \in DOMAIN up /\ "pc" \in DOMAIN cl
      /\ cfg.kind \in Dialers /\ up.sent # <<>> => cfg.peer.holds = cfg.pin
  BY Zenon DEF ClientInv, ClientShape, PinnedPeerOnly, Dialers
<1>1. ASSUME NEW r, Finish(r), cl.pc # "done", UNCHANGED cfg,
             up' = up \/ up' = [up EXCEPT !.fin = TRUE]
      PROVE  ClientInv'
  <2>1. "sent" \in DOMAIN up' /\ up'.sent = up.sent
    BY <1>0, <1>1
  <2>2. QED
    BY <1>0, <1>1, <2>1, FinishPreserves, Zenon
<1>2. CASE TcpConnect
  <2>1. CASE \E r : Finish(r)
    BY <1>1, <1>2, <2>1, Zenon DEF TcpConnect
  <2>2. CASE cl' = [cl EXCEPT !.pc = "tls"] /\ UNCHANGED fds
    <3>1. up.sent = <<>> /\ UNCHANGED <<cfg, up>> /\ cl.pc # "done"
      BY <1>2, Zenon DEF TcpConnect, ClientInv, PinnedFromHandshake
    <3>2. PinnedFromHandshake'
      BY <1>0, <2>2, <3>1, Zenon DEF PinnedFromHandshake
    <3>3. QED
      BY <1>0, <2>2, <3>1, <3>2, GoOnPreserves
  <2>3. QED
    BY <1>2, <2>1, <2>2 DEF TcpConnect
<1>3. CASE TlsConnect
  <2> DEFINE e == IF cfg.kind = "chain" THEN DialUpstreamTls(cfg) ELSE DialUtls(cfg)
  <2>0. cl.pc = "tls" /\ UNCHANGED <<cfg, up>>
    BY <1>3, Zenon DEF TlsConnect
  <2>1. CASE e # ""
    <3>1. Finish(e)
      BY <1>3, <2>1, Zenon DEF TlsConnect
    <3>2. QED
      BY <1>1, <2>0, <3>1, Zenon
  <2>2. CASE e = ""
    <3>1. cl' = [cl EXCEPT !.pc = "auth"] /\ UNCHANGED fds
      BY <1>3, <2>2, Zenon DEF TlsConnect
    <3>2. cfg.peer.holds = cfg.pin
      BY <2>2, HandshakePins, Zenon
    <3>3. PinnedFromHandshake'
      BY <1>0, <2>0, <3>1, <3>2, Zenon DEF PinnedFromHandshake
    <3>4. QED
      BY <1>0, <2>0, <3>1, <3>3, GoOnPreserves
  <2>3. QED
    BY <2>1, <2>2, Zenon
<1>4. CASE DialTimesOut \/ ExporterFails \/ ProbeReadEnds
  BY <1>1, <1>4, Zenon DEF DialTimesOut, ExporterFails, ProbeReadEnds
<1>5. CASE Authenticate
  <2>0. /\ cl.pc = "auth" /\ UNCHANGED cfg
        /\ cfg.kind \in Dialers => cfg.peer.holds = cfg.pin
    BY <1>5, Zenon DEF Authenticate, ClientInv, PinnedFromHandshake
  <2>1. \/ \E r : Finish(r) /\ up' = [up EXCEPT !.fin = TRUE]
        \/ \E n : /\ Finish("Io")
                  /\ up' = [up EXCEPT !.sent = SubSeq(Frame("auth"), 1, n), !.fin = TRUE]
        \/ /\ up' = [up EXCEPT !.sent = Frame("auth")]
           /\ cl' = [cl EXCEPT !.pc = IF cfg.kind = "probe" THEN "send" ELSE "run"]
           /\ UNCHANGED fds
    BY <1>5, Zenon DEF Authenticate
  <2>2. CASE \E r : Finish(r) /\ up' = [up EXCEPT !.fin = TRUE]
    BY <1>1, <2>0, <2>2
  <2>3. ASSUME NEW n, Finish("Io"),
               up' = [up EXCEPT !.sent = SubSeq(Frame("auth"), 1, n), !.fin = TRUE]
        PROVE  ClientInv'
    <3>1. "sent" \in DOMAIN up'
      BY <1>0, <2>3, Zenon
    <3>2. QED
      BY <2>0, <2>3, <3>1, FinishPreserves, Zenon
  <2>4. CASE /\ up' = [up EXCEPT !.sent = Frame("auth")]
             /\ cl' = [cl EXCEPT !.pc = IF cfg.kind = "probe" THEN "send" ELSE "run"]
             /\ UNCHANGED fds
    <3> DEFINE pc == IF cfg.kind = "probe" THEN "send" ELSE "run"
    <3>1. "sent" \in DOMAIN up'
      BY <1>0, <2>4, Zenon
    <3>2. PinnedFromHandshake'
      BY <1>0, <2>0, <2>4, Zenon DEF PinnedFromHandshake
    <3>3. cl' = [cl EXCEPT !.pc = pc] /\ pc # "done"
      BY <2>4, Zenon
    <3> HIDE DEF pc
    <3>4. QED
      BY <2>0, <2>4, <3>1, <3>2, <3>3, GoOnPreserves, Zenon
  <2>5. QED
    BY <2>1, <2>2, <2>3, <2>4, Zenon
<1>6. CASE SendPreface
  <2>0. /\ cl.pc = "send" /\ UNCHANGED cfg
        /\ cfg.kind \in Dialers => cfg.peer.holds = cfg.pin
    BY <1>6, Zenon DEF SendPreface, ClientInv, PinnedFromHandshake
  <2>1. CASE Finish("Io") /\ up' = [up EXCEPT !.fin = TRUE]
    BY <1>1, <2>0, <2>1
  <2>2. CASE /\ up' = [up EXCEPT !.sent = @ \o Frame("data")]
             /\ cl' = [cl EXCEPT !.pc = "read"]
             /\ UNCHANGED fds
    <3>1. "sent" \in DOMAIN up'
      BY <1>0, <2>2, Zenon
    <3>2. PinnedFromHandshake'
      BY <1>0, <2>0, <2>2 DEF PinnedFromHandshake
    <3>3. QED
      BY <2>0, <2>2, <3>1, <3>2, GoOnPreserves, Zenon
  <2>3. QED
    BY <1>6, <2>1, <2>2, Zenon DEF SendPreface
<1>7. CASE ProbeRead
  <2>0. cl.pc = "read" /\ UNCHANGED cfg
    BY <1>7, Zenon DEF ProbeRead
  <2>1. \/ \E r : Finish(r) /\ up' = [up EXCEPT !.fin = TRUE]
        \/ /\ \E x, t : cl' = [cl EXCEPT !.rx = x, !.total = t]
           /\ UNCHANGED <<up, fds>>
    BY <1>7, Zenon DEF ProbeRead
  <2>2. CASE \E r : Finish(r) /\ up' = [up EXCEPT !.fin = TRUE]
    BY <1>1, <2>0, <2>2, Zenon
  <2>3. ASSUME NEW x, NEW t, cl' = [cl EXCEPT !.rx = x, !.total = t], UNCHANGED <<up, fds>>
        PROVE  ClientInv'
    <3>1. cl'.pc = cl.pc /\ DOMAIN cl' = DOMAIN cl
      BY <1>0, <2>3
    <3>2. QED
      BY <2>0, <2>3, <3>1, Zenon
      DEF ClientInv, ClientShape, PinnedFromHandshake, PinnedPeerOnly, FdsAreClosedOnce
  <2>4. QED
    BY <2>1, <2>2, <2>3, Zenon
<1>8. QED
  BY <1>2, <1>3, <1>4, <1>5, <1>6, <1>7 DEF ClientStep

\* The steps of those that do not dial, and of a tunnel.
LEMMA OthersPreserve ==
    ASSUME ClientInv,
           \/ CancelProbe \/ FerrySends \/ FerryEnds \/ FerryFd \/ Visit \/ VisitEnds
           \/ ChainDial \/ OpenLink
    PROVE  ClientInv'
<1>0. /\ "sent" \in DOMAIN up /\ "pc" \in DOMAIN cl
      /\ cfg.kind \in Dialers /\ up.sent # <<>> => cfg.peer.holds = cfg.pin
  BY Zenon DEF ClientInv, ClientShape, PinnedPeerOnly, Dialers
<1>1. CASE CancelProbe \/ FerryEnds
  <2>1. PICK r : Finish(r)
    BY <1>1, Zenon DEF CancelProbe, FerryEnds
  <2>2. cl.pc # "done" /\ UNCHANGED cfg /\ up' = [up EXCEPT !.fin = TRUE]
    BY <1>1, Zenon DEF CancelProbe, FerryEnds
  <2>3. "sent" \in DOMAIN up' /\ up'.sent = up.sent
    BY <1>0, <2>2, Zenon
  <2>4. QED
    BY <1>0, <2>1, <2>2, <2>3, FinishPreserves
<1>2. CASE FerrySends
  <2>1. /\ UNCHANGED <<cfg, cl, fds>> /\ "sent" \in DOMAIN up' /\ cl.pc = "run"
    BY <1>0, <1>2, Zenon DEF FerrySends
  <2>2. QED
    BY <2>1, Zenon
    DEF ClientInv, ClientShape, PinnedFromHandshake, PinnedPeerOnly, FdsAreClosedOnce, Dialers
<1>3. CASE FerryFd
  <2>0. cl.pc = "call" /\ cfg.kind = "host" /\ UNCHANGED <<cfg, up>>
    BY <1>3, Zenon DEF FerryFd, ClientInv, PinnedFromHandshake
  <2>1. CASE cl' = [cl EXCEPT !.pc = "done", !.ret = -1] /\ CloseFds
    <3>1. cl'.pc = "done" /\ DOMAIN cl' = DOMAIN cl
      BY <1>0, <2>1, Zenon
    <3>2. DOMAIN fds' = DOMAIN fds
      BY <2>1, Zenon DEF CloseFds
    <3>3. FdsAreClosedOnce'
      <4> SUFFICES ASSUME NEW f \in DOMAIN fds, cfg.fds[f] >= 0
                   PROVE  fds'[f] = 1
        BY <2>0, <3>1, <3>2, Zenon DEF FdsAreClosedOnce
      <4>1. fds[f] = 0
        BY <2>0, Zenon DEF ClientInv, FdsAreClosedOnce
      <4>2. fds'[f] = fds[f] + 1
        BY <2>1 DEF CloseFds
      <4>3. QED
        BY <4>1, <4>2
    <3>4. QED
      BY <2>0, <3>1, <3>2, <3>3, Zenon
      DEF ClientInv, ClientShape, PinnedFromHandshake, PinnedPeerOnly
  <2>2. CASE cl' = [cl EXCEPT !.pc = "auth", !.ret = 0] /\ UNCHANGED fds
    <3>1. cl'.pc = "auth" /\ DOMAIN cl' = DOMAIN cl
      BY <1>0, <2>2, Zenon
    <3>2. QED
      BY <2>0, <2>2, <3>1, Zenon
      DEF ClientInv, ClientShape, PinnedFromHandshake, PinnedPeerOnly, FdsAreClosedOnce, Dialers
  <2>3. QED
    BY <1>3, <2>1, <2>2 DEF FerryFd
<1>4. CASE Visit \/ VisitEnds
  <2>0. cfg.kind = "visitor" /\ UNCHANGED <<cfg, fds>>
    BY <1>4, Zenon DEF Visit, VisitEnds, ClientInv, PinnedFromHandshake
  <2>1. /\ cl'.pc \in {"visiting", "done"} /\ DOMAIN cl' = DOMAIN cl
        /\ "sent" \in DOMAIN up'
    BY <1>0, <1>4, Zenon DEF Visit, VisitEnds
  <2>2. QED
    BY <2>0, <2>1
    DEF ClientInv, ClientShape, PinnedFromHandshake, PinnedPeerOnly, FdsAreClosedOnce, Dialers
<1>5. CASE ChainDial \/ OpenLink
  <2>1. /\ cl.pc = "off" /\ up.sent = <<>> /\ UNCHANGED <<up, fds>>
        /\ cl' = [cl EXCEPT !.pc = "tcp"]
    BY <1>5, Zenon DEF ChainDial, OpenLink, ClientInv, PinnedFromHandshake
  <2>2. cl'.pc = "tcp" /\ DOMAIN cl' = DOMAIN cl
    BY <1>0, <2>1, Zenon
  <2>3. {"kind", "peer", "pin", "fds"} \subseteq DOMAIN cfg
    BY Zenon DEF ClientInv, ClientShape
  <2>4. DOMAIN cfg' = DOMAIN cfg /\ cfg'.kind = cfg.kind /\ cfg'.fds = cfg.fds
    <3>1. CASE ChainDial
      BY <2>3, <3>1, Zenon DEF ChainDial
    <3>2. CASE OpenLink
      BY <2>3, <3>2, Zenon DEF OpenLink
    <3>3. QED
      BY <1>5, <3>1, <3>2, Zenon
  <2>5. QED
    BY <2>1, <2>2, <2>3, <2>4
    DEF ClientInv, ClientShape, PinnedFromHandshake, PinnedPeerOnly, FdsAreClosedOnce
<1>6. QED
  BY <1>1, <1>2, <1>3, <1>4, <1>5, Zenon

\* The relay's steps, and those before the dial, change nothing the client has done.
LEMMA RelayLeavesClient ==
    ASSUME ClientInv,
           \/ GateStep \/ ForwardToSite \/ RelayPump \/ RelayChaff \/ Reply \/ RelayEnds
           \/ Provisioning \/ UNCHANGED vars
    PROVE  ClientInv'
<1>1. "sent" \in DOMAIN up
  BY Zenon DEF ClientInv, ClientShape
<1>2. UNCHANGED <<cfg, cl, fds>>
  BY Zenon DEF GateStep, GateExporter, GateRead, GateReadEnds, OpenBackend, ForwardToSite,
         RelayPump, RelayChaff, Reply, RelayEnds, Provisioning, vars, sessionVars
<1>3. "sent" \in DOMAIN up' /\ up'.sent = up.sent
  <2>1. CASE UNCHANGED up
    BY <1>1, <2>1, Zenon
  <2>2. CASE \E n : up' = [up EXCEPT !.read = @ + n]
    BY <1>1, <2>2
  <2>3. QED
    BY <2>1, <2>2, Zenon
    DEF GateStep, GateExporter, GateRead, GateReadEnds, OpenBackend, ForwardToSite,
        RelayPump, RelayChaff, Reply, RelayEnds, Provisioning, vars, sessionVars
<1>4. QED
  BY <1>2, <1>3, Zenon
  DEF ClientInv, ClientShape, PinnedFromHandshake, PinnedPeerOnly, FdsAreClosedOnce

LEMMA ClientInvHolds == Spec => []ClientInv
<1>1. ASSUME Init PROVE ClientInv
  <2>1. cfg \in Configs /\ fds = cfg.fds /\ up.sent = <<>> /\ "sent" \in DOMAIN up
    BY <1>1, Zenon DEF Init, EmptyStream
  <2>2. /\ {"kind", "peer", "pin", "fds"} \subseteq DOMAIN cfg
        /\ cfg.fds \in [DOMAIN cfg.fds -> {-1, 0}]
    BY <2>1, ConfigsAssumption, Zenon
  <2>3. PICK pc : cl = [pc |-> pc, result |-> "", ret |-> 1, rx |-> <<>>, total |-> 0]
    BY <1>1, Zenon DEF Init
  <2>4. /\ cl.pc \in {"off", "tcp", "call", "visit"}
        /\ cl.pc = "call" => cfg.kind = "host"
        /\ cl.pc = "visit" => cfg.kind = "visitor"
    <3> DEFINE first == CASE cfg.kind = "chain" \/ cfg.linked -> "off"
                          [] cfg.kind = "host" -> "call"
                          [] cfg.kind = "visitor" -> "visit"
                          [] OTHER -> "tcp"
    <3>1. cl.pc = first
      <4> HIDE DEF first
      <4>1. cl = [pc |-> first, result |-> "", ret |-> 1, rx |-> <<>>, total |-> 0]
        BY <1>1, Zenon DEF Init, first
      <4>2. QED
        BY <4>1, Zenon
    <3>2. QED
      BY <3>1, Zenon
  <2>5. "pc" \in DOMAIN cl /\ "result" \in DOMAIN cl
    BY <2>3, Zenon
  <2>6. FdsAreClosedOnce
    BY <2>1, <2>2, <2>4 DEF FdsAreClosedOnce
  <2>7. QED
    BY <2>1, <2>2, <2>4, <2>5, <2>6, Zenon
    DEF ClientInv, ClientShape, PinnedFromHandshake, PinnedPeerOnly
<1>2. ClientInv /\ [Next]_vars => ClientInv'
  BY ClientStepPreserves, OthersPreserve, RelayLeavesClient, Zenon DEF Next
<1>3. QED
  BY <1>1, <1>2, PTL DEF Spec

\* PinnedSpkiVerifier and SpkiPinVerifier: AUTH goes to nobody but the holder of the pinned
\* key, for every peer, pin and configuration.
THEOREM PinnedPeer == Spec => []PinnedPeerOnly
<1>1. ClientInv => PinnedPeerOnly
  BY Zenon DEF ClientInv
<1>2. QED
  BY <1>1, ClientInvHolds, PTL

\* veil_front_ferry_fd closes each descriptor it was given exactly once, on every path.
THEOREM FdsClosedOnce == Spec => []FdsAreClosedOnce
<1>1. ClientInv => FdsAreClosedOnce
  BY Zenon DEF ClientInv
<1>2. QED
  BY <1>1, ClientInvHolds, PTL

-----------------------------------------------------------------------------
(***************************************************************************)
(* The bytes of a session, and the probe's verdict.  The stream to the     *)
(* relay is one of a few: a cut AUTH frame, an AUTH frame, or one with     *)
(* DATA behind it, perhaps after CHAFF; or what a visitor sends.  The      *)
(* invariant says what the gate and the tunnel hold of it.                 *)
(***************************************************************************)

Piece == [frame : {"auth", "data", "http", "chaff"}, part : Nat \ {0}]

AuthFrame == Frame("auth")
DataFrame == Frame("data")
ChaffFrame == Frame("chaff")

\* What may be behind the AUTH frame.
Tails == {<<>>, DataFrame, ChaffFrame \o DataFrame}
Whole == {AuthFrame \o t : t \in Tails}

\* The parts of the records, and their lists.
SessionShape ==
    /\ DOMAIN up = {"sent", "read", "fin"} /\ DOMAIN down = {"sent", "read", "fin"}
    /\ DOMAIN cl = {"pc", "result", "ret", "rx", "total"}
    /\ DOMAIN gate = {"pc", "out", "buf", "at", "seen"}
    /\ up.sent \in Seq(Piece) /\ up.read \in 0..Len(up.sent)
    /\ down.sent \in Seq(Piece) /\ down.read \in 0..Len(down.sent)
    /\ cl.rx \in Seq(Piece) /\ gate.buf \in Seq(Piece) /\ got \in Seq(Piece)

\* What was sent, by where the client is.
SentOK(s, pc, gpc) ==
    /\ pc \in {"off", "tcp", "tls", "auth", "call", "visit"} => s = <<>>
    /\ pc \in {"off", "tcp", "tls", "call", "visit"} => gpc = "idle"
    /\ pc = "send" => s = AuthFrame
    /\ pc = "run" => s \in Whole
    /\ Len(s) >= AuthParts /\ s[1].frame = "auth" => s \in Whole

Behind(s, r) == SubSeq(s, AuthParts + 1, r)

\* What the gate, the tunnel and the cover site have of the r parts read.
GateOK(s, r, g, x) ==
    /\ g.pc \in {"idle", "exporter"} => g.buf = <<>> /\ r = 0
    /\ g.pc \in {"idle", "exporter", "first", "second", "dial", "site"} => x = <<>>
    /\ g.pc \in {"dial", "tunnel"} =>
          g.out = "tunnel" /\ r >= AuthParts /\ s[1].frame = "auth"
    /\ g.out = "tunnel" => g.pc \in {"dial", "tunnel", "closed"}
    /\ g.pc \in {"first", "second", "site"} => g.buf = SubSeq(s, 1, r)
    /\ g.pc = "forward" => x = SubSeq(s, 1, r)
    /\ g.pc = "dial" => g.buf = Behind(s, r)
    /\ g.pc = "tunnel" =>
          \/ x = <<>> /\ g.buf = NotChaff(Behind(s, r)) /\ Len(g.buf) < DataParts
          \/ x = DataFrame /\ g.buf = <<>> /\ NotChaff(Behind(s, r)) = DataFrame

HasData(s) == \E i \in DOMAIN s : s[i].frame = "data"

\* The preface reached the backend.
Answered(g, x) == g.out = "tunnel" /\ x = DataFrame

\* The relay's answers, and what the client makes of them.
AnswerOK(d, c, s, g, x) ==
    /\ HasData(d) \/ HasData(c.rx) \/ c.result = "Ok" => Answered(g, x)
    /\ c.result # "" => c.pc = "done"
    /\ c.result = "CertProblem" => s = <<>>
    /\ Decode(DropChaff(c.rx)) = "incomplete"

\* A probe looks at the validity of its capability before it sends.
ProbeIsValid ==
    cfg.kind = "probe" /\ up.sent # <<>> =>
        auth.cap.not_before <= auth.at /\ auth.at <= auth.cap.not_after

ProbeDialsOnly == cfg.kind = "probe" => cl.pc \notin {"visit", "run"}

\* The inductive invariant of the bytes.
BytesInv ==
    /\ SessionShape
    /\ SentOK(up.sent, cl.pc, gate.pc)
    /\ GateOK(up.sent, up.read, gate, got)
    /\ AnswerOK(down.sent, cl, up.sent, gate, got)
    /\ ProbeIsValid /\ ProbeDialsOnly

-----------------------------------------------------------------------------
(* Frames and streams.                                                     *)

\* The elements of a concatenation.
Joined(s, t, u) ==
    /\ Len(s) \in Nat /\ Len(t) \in Nat /\ Len(u) = Len(s) + Len(t)
    /\ \A i \in 1..Len(s) : u[i] = s[i]
    /\ \A i \in 1..Len(t) : u[i + Len(s)] = t[i]

LEMMA ConcatSeq ==
    ASSUME NEW X, NEW s \in Seq(X), NEW t \in Seq(X)
    PROVE  s \o t \in Seq(X) /\ Joined(s, t, s \o t)
<1>1. Len(s) \in Nat /\ Len(t) \in Nat /\ s \o t \in Seq(X) /\ Len(s \o t) = Len(s) + Len(t)
  OBVIOUS
<1>2. \A i \in 1..(Len(s) + Len(t)) :
          (s \o t)[i] = IF i <= Len(s) THEN s[i] ELSE t[i - Len(s)]
  OBVIOUS
<1>3. ASSUME NEW i \in 1..Len(t) PROVE (s \o t)[i + Len(s)] = t[i]
  <2>1. PICK j \in 1..(Len(s) + Len(t)) : j = i + Len(s) /\ ~(j <= Len(s)) /\ j - Len(s) = i
    BY <1>1
  <2>2. (s \o t)[j] = t[j - Len(s)]
    BY <1>2, <2>1, Zenon
  <2> QED BY <2>1, <2>2, Zenon
<1>4. ASSUME NEW i \in 1..Len(s) PROVE (s \o t)[i] = s[i]
  BY <1>1, <1>2
<1> QED BY <1>1, <1>3, <1>4, Zenon DEF Joined

\* What a frame is, whoever sends it.
LEMMA AnyFrame ==
    ASSUME NEW f \in {"auth", "data", "http", "chaff"}
    PROVE  /\ Frame(f) \in Seq(Piece) /\ Frame(f) # <<>> /\ Len(Frame(f)) = Parts(f)
           /\ \A i \in DOMAIN Frame(f) : Frame(f)[i].frame = f
<1>1. PICK n \in Nat \ {0} : n = Parts(f)
  BY EstablishAssumption DEF Parts
<1>2. PICK s : s = Frame(f)
  BY Zenon
<1>3. s = [i \in 1..n |-> [frame |-> f, part |-> i]]
  BY <1>1, <1>2, Zenon DEF Frame
<1>4. \A i \in 1..n : [frame |-> f, part |-> i] \in Piece
  BY DEF Piece
<1>5. s \in [1..n -> Piece] /\ \A i \in 1..n : s[i].frame = f
  BY <1>3, <1>4, Zenon
<1>6. s \in Seq(Piece) /\ Len(s) = n /\ DOMAIN s = 1..n
  BY <1>5
<1>7. s # <<>>
  BY <1>6, Zenon
<1> QED BY <1>1, <1>2, <1>5, <1>6, <1>7, Zenon

LEMMA FrameFacts ==
    /\ AuthFrame \in Seq(Piece) /\ DataFrame \in Seq(Piece) /\ ChaffFrame \in Seq(Piece)
    /\ Len(AuthFrame) = AuthParts /\ Len(DataFrame) = DataParts /\ Len(ChaffFrame) = 1
    /\ AuthParts \in Nat \ {0} /\ DataParts \in Nat \ {0} /\ HttpParts \in Nat \ {0}
    /\ \A i \in 1..AuthParts : AuthFrame[i].frame = "auth"
    /\ \A i \in 1..DataParts : DataFrame[i].frame = "data"
    /\ ChaffFrame[1].frame = "chaff"
<1>1. AuthParts \in Nat \ {0} /\ DataParts \in Nat \ {0} /\ HttpParts \in Nat \ {0}
  BY EstablishAssumption, Zenon
<1>2. Parts("auth") = AuthParts /\ Parts("data") = DataParts /\ Parts("chaff") = 1
  BY Zenon DEF Parts
<1>3. /\ AuthFrame \in Seq(Piece) /\ Len(AuthFrame) = AuthParts
      /\ \A i \in DOMAIN AuthFrame : AuthFrame[i].frame = "auth"
  BY <1>2, AnyFrame, Zenon DEF AuthFrame
<1>4. /\ DataFrame \in Seq(Piece) /\ Len(DataFrame) = DataParts
      /\ \A i \in DOMAIN DataFrame : DataFrame[i].frame = "data"
  BY <1>2, AnyFrame, Zenon DEF DataFrame
<1>5. /\ ChaffFrame \in Seq(Piece) /\ Len(ChaffFrame) = 1
      /\ \A i \in DOMAIN ChaffFrame : ChaffFrame[i].frame = "chaff"
  BY <1>2, AnyFrame, Zenon DEF ChaffFrame
<1>6. ChaffFrame[1].frame = "chaff"
  BY <1>5
<1>7. /\ \A i \in 1..AuthParts : AuthFrame[i].frame = "auth"
      /\ \A i \in 1..DataParts : DataFrame[i].frame = "data"
  BY <1>1, <1>3, <1>4
<1> QED BY <1>1, <1>3, <1>4, <1>5, <1>6, <1>7

\* What was read does not change when more is sent.
LEMMA ReadStays ==
    ASSUME NEW s \in Seq(Piece), NEW t \in Seq(Piece), NEW a \in Nat \ {0}, NEW r \in 0..Len(s)
    PROVE  SubSeq(s \o t, a, r) = SubSeq(s, a, r)
<1>1. PICK u \in Seq(Piece) : u = s \o t
  <2>1. s \o t \in Seq(Piece)
    OBVIOUS
  <2> QED BY <2>1, Zenon
<1>2. Len(s) \in Nat /\ Len(u) >= Len(s) /\ \A i \in 1..Len(s) : u[i] = s[i]
  BY <1>1
<1>3. PICK x \in Seq(Piece), y \in Seq(Piece) : x = SubSeq(u, a, r) /\ y = SubSeq(s, a, r)
  <2>1. SubSeq(u, a, r) \in Seq(Piece) /\ SubSeq(s, a, r) \in Seq(Piece)
    BY <1>2
  <2> QED BY <2>1, Zenon
<1>4. /\ Len(x) = Len(y) /\ Len(x) = (IF a <= r THEN r - a + 1 ELSE 0)
      /\ \A i \in 1..Len(x) : x[i] = u[i + a - 1] /\ y[i] = s[i + a - 1] /\ i + a - 1 \in 1..Len(s)
  BY <1>2, <1>3
<1>5. \A i \in 1..Len(x) : x[i] = y[i]
  BY <1>2, <1>4, Zenon
<1>6. x = y
  <2>1. Len(x) = Len(y)
    BY <1>4, Zenon
  <2> QED BY <1>3, <1>5, <2>1, SameSeq, Zenon
<1> QED BY <1>1, <1>3, <1>6, Zenon

\* One more read.
LEMMA ReadOn ==
    ASSUME NEW s \in Seq(Piece), NEW a \in Nat \ {0}, NEW r \in Nat, NEW n \in Nat,
           a <= r + 1, r + n <= Len(s)
    PROVE  SubSeq(s, a, r) \o SubSeq(s, r + 1, r + n) = SubSeq(s, a, r + n)
<1>1. Len(s) \in Nat
  OBVIOUS
<1>2. PICK x \in Seq(Piece), y \in Seq(Piece), z \in Seq(Piece) :
          x = SubSeq(s, a, r) /\ y = SubSeq(s, r + 1, r + n) /\ z = SubSeq(s, a, r + n)
  <2>1. /\ SubSeq(s, a, r) \in Seq(Piece) /\ SubSeq(s, r + 1, r + n) \in Seq(Piece)
        /\ SubSeq(s, a, r + n) \in Seq(Piece)
    BY <1>1
  <2> QED BY <2>1, Zenon
<1>3. /\ Len(x) = r - a + 1 /\ Len(y) = n /\ Len(z) = r + n - a + 1
      /\ \A i \in 1..Len(x) : x[i] = s[i + a - 1]
      /\ \A i \in 1..Len(y) : y[i] = s[i + r]
      /\ \A i \in 1..Len(z) : z[i] = s[i + a - 1]
  BY <1>1, <1>2
<1>4. PICK w \in Seq(Piece) : w = x \o y
  <2>1. x \o y \in Seq(Piece)
    BY <1>2
  <2> QED BY <2>1, Zenon
<1>5. /\ Len(w) = Len(x) + Len(y)
      /\ \A i \in 1..Len(w) : w[i] = IF i <= Len(x) THEN x[i] ELSE y[i - Len(x)]
  BY <1>2, <1>4
<1>6. ASSUME NEW i \in 1..Len(w) PROVE w[i] = z[i]
  <2>1. Len(x) = r - a + 1 /\ Len(y) = n /\ Len(z) = r + n - a + 1 /\ Len(w) = Len(x) + Len(y)
    BY <1>3, <1>5, Zenon
  <2>2. w[i] = IF i <= Len(x) THEN x[i] ELSE y[i - Len(x)]
    BY <1>5, Zenon
  <2>3. z[i] = s[i + a - 1]
    <3>1. i \in 1..Len(z)
      BY <2>1
    <3> QED BY <1>3, <3>1, Zenon
  <2>4. CASE i <= Len(x)
    <3>1. i \in 1..Len(x)
      BY <2>1, <2>4
    <3> QED BY <1>3, <2>2, <2>3, <2>4, <3>1, Zenon
  <2>5. CASE ~(i <= Len(x))
    <3>1. PICK j \in 1..Len(y) : j = i - Len(x)
      <4>1. i - Len(x) \in 1..Len(y)
        BY <2>1, <2>5
      <4> QED BY <4>1, Zenon
    <3>2. j + r = i + a - 1
      BY <2>1, <3>1
    <3> QED BY <1>3, <2>2, <2>3, <2>5, <3>1, <3>2, Zenon
  <2> QED BY <2>4, <2>5, Zenon
<1>7. Len(w) = Len(z)
  BY <1>3, <1>5
<1>8. w = z
  BY <1>2, <1>4, <1>6, <1>7, SameSeq, Zenon
<1> QED BY <1>2, <1>4, <1>8, Zenon

-----------------------------------------------------------------------------
(* Dropping CHAFF.                                                         *)

LEMMA DropChaffFacts ==
    ASSUME NEW b \in Seq(Piece)
    PROVE  /\ DropChaff(b) \in Seq(Piece)
           /\ \A j \in DOMAIN DropChaff(b) : \E i \in DOMAIN b : DropChaff(b)[j] = b[i]
           /\ DropChaff(b) # <<>> => DropChaff(b)[1].frame # "chaff"
           /\ b # <<>> /\ b[1].frame # "chaff" => DropChaff(b) = b
<1>0. Len(b) \in Nat /\ DOMAIN b = 1..Len(b)
  OBVIOUS
<1>1. CASE \A i \in DOMAIN b : b[i].frame = "chaff"
  <2>1. DropChaff(b) = <<>>
    BY <1>1, Zenon DEF DropChaff
  <2>2. b # <<>> => b[1].frame = "chaff"
    BY <1>0, <1>1
  <2> QED BY <2>1, <2>2
<1>2. CASE ~\A i \in DOMAIN b : b[i].frame = "chaff"
  <2> DEFINE First(i) == b[i].frame # "chaff" /\ \A j \in 1..i-1 : b[j].frame = "chaff"
  <2>1. \E i \in DOMAIN b : First(i)
    <3> DEFINE T == {i \in 1..Len(b) : b[i].frame # "chaff"}
    <3>1. T \in SUBSET Nat /\ T # {}
      BY <1>0, <1>2
    <3> HIDE DEF T
    <3>2. PICK m \in T : \A k \in T : m <= k
      BY <3>1, LeastNat
    <3>3. m \in 1..Len(b) /\ b[m].frame # "chaff"
      BY <3>2 DEF T
    <3>4. \A j \in 1..m-1 : b[j].frame = "chaff"
      BY <1>0, <3>2, <3>3 DEF T
    <3> QED BY <1>0, <3>3, <3>4
  <2>2. PICK i \in DOMAIN b : First(i) /\ i = CHOOSE k \in DOMAIN b : First(k)
    BY <2>1, Zenon
  <2>3. DropChaff(b) = SubSeq(b, i, Len(b))
    BY <1>2, <2>2, Zenon DEF DropChaff
  <2>4. PICK d : d = SubSeq(b, i, Len(b))
    BY Zenon
  <2>5. /\ d \in Seq(Piece) /\ Len(d) = Len(b) - i + 1 /\ DOMAIN d = 1..Len(d)
        /\ \A j \in 1..Len(d) : d[j] = b[j + i - 1] /\ j + i - 1 \in DOMAIN b
    BY <1>0, <2>4
  <2>6. d[1] = b[i]
    BY <1>0, <2>5
  <2>7. b[1].frame # "chaff" => i = 1
    BY <1>0, <2>2
  <2>8. i = 1 => d = b
    BY <1>0, <2>4
  <2>9. \A j \in DOMAIN d : \E n \in DOMAIN b : d[j] = b[n]
    BY <2>5
  <2>10. d[1].frame # "chaff" /\ (b # <<>> /\ b[1].frame # "chaff" => d = b)
    BY <2>2, <2>6, <2>7, <2>8
  <2>11. d \in Seq(Piece) /\ DropChaff(b) = d
    BY <2>3, <2>4, <2>5
  <2> QED BY <2>9, <2>10, <2>11, Zenon
<1> QED BY <1>1, <1>2

\* The DATA parts that are behind the AUTH frame: the first k of them.
DataRead(k) == SubSeq(DataFrame, 1, k)

LEMMA DataReadFacts ==
    ASSUME NEW k \in 0..DataParts
    PROVE  /\ DataRead(k) \in Seq(Piece) /\ Len(DataRead(k)) = k
           /\ \A i \in 1..k : DataRead(k)[i] = DataFrame[i] /\ DataRead(k)[i].frame = "data"
           /\ k = DataParts => DataRead(k) = DataFrame
<1>1. DataParts \in Nat /\ Len(DataFrame) = DataParts /\ DataFrame \in Seq(Piece)
      /\ \A i \in 1..DataParts : DataFrame[i].frame = "data"
  BY FrameFacts, Zenon
<1>2. PICK d : d = DataRead(k)
  OBVIOUS
<1>3. d \in Seq(Piece) /\ Len(d) = k /\ \A i \in 1..k : d[i] = DataFrame[i]
  BY <1>1, <1>2 DEF DataRead
<1>4. k = DataParts => d = DataFrame
  BY <1>1, <1>3
<1> QED BY <1>1, <1>2, <1>3, <1>4

\* CHAFF before DATA is dropped, one way or the other.
LEMMA ChaffGoes ==
    ASSUME NEW k \in 0..DataParts, NEW b,
           b = DataRead(k) \/ b = ChaffFrame \o DataRead(k)
    PROVE  b \in Seq(Piece) /\ DropChaff(b) = DataRead(k) /\ NotChaff(b) = DataRead(k)
<1>1. PICK d \in Seq(Piece) : d = DataRead(k)
  BY DataReadFacts, Zenon
<1>2. /\ k \in Nat /\ Len(d) = k /\ DOMAIN d = 1..k /\ \A i \in 1..k : d[i].frame = "data"
  BY <1>1, DataReadFacts, FrameFacts
<1>3. PICK c \in Piece : ChaffFrame = <<c>> /\ c.frame = "chaff"
  <2>1. ChaffFrame \in Seq(Piece) /\ Len(ChaffFrame) = 1 /\ ChaffFrame[1].frame = "chaff"
    BY FrameFacts
  <2>2. ChaffFrame[1] \in Piece /\ ChaffFrame = <<ChaffFrame[1]>>
    BY <2>1, OneIs, Zenon
  <2> QED BY <2>1, <2>2, Zenon
<1>4. CASE b = d
  <2>1. DropChaff(b) = d
    <3>1. CASE d = <<>>
      BY <1>4, <3>1 DEF DropChaff
    <3>2. CASE d # <<>>
      <4>1. d[1].frame # "chaff"
        BY <1>2, <3>2
      <4> QED BY <1>4, <3>2, <4>1, DropChaffFacts
    <3> QED BY <3>1, <3>2
  <2>2. NotChaff(b) = d
    <3>1. PICK X : X = {p \in {b[i] : i \in DOMAIN b} : p.frame # "chaff"}
      BY Zenon
    <3>2. \A i \in 1..k : d[i] \in X
      BY <1>2, <1>4, <3>1
    <3>3. d \in Seq(X)
      BY <1>1, <1>2, <3>2
    <3>4. Only(d, X) = d
      BY <3>3, OnlyAll, Zenon
    <3> QED BY <1>4, <3>1, <3>4 DEF NotChaff
  <2> QED BY <1>1, <1>4, <2>1, <2>2
<1>5. CASE b = <<c>> \o d
  <2>1. /\ b \in Seq(Piece) /\ Len(b) = k + 1 /\ DOMAIN b = 1..(k + 1) /\ b[1] = c
        /\ \A i \in 1..k : b[i + 1] = d[i]
    BY <1>1, <1>2, <1>3, <1>5
  <2>2. DropChaff(b) = d
    <3>1. CASE k = 0
      <4>1. \A i \in DOMAIN b : b[i].frame = "chaff"
        BY <1>3, <2>1, <3>1
      <4>2. d = <<>>
        BY <1>2, <3>1
      <4> QED BY <4>1, <4>2 DEF DropChaff
    <3>2. CASE k # 0
      <4>1. b[2].frame = "data" /\ 2 \in DOMAIN b
        BY <1>2, <2>1, <3>2
      <4>2. ~\A i \in DOMAIN b : b[i].frame = "chaff"
        BY <4>1, Zenon
      <4> DEFINE First(i) == b[i].frame # "chaff" /\ \A j \in 1..i-1 : b[j].frame = "chaff"
      <4>3. First(2)
        BY <1>3, <2>1, <4>1
      <4>4. \A i \in DOMAIN b : First(i) => i = 2
        <5> SUFFICES ASSUME NEW i \in DOMAIN b, First(i) PROVE i = 2
          BY Zenon
        <5>1. i # 1
          BY <1>3, <2>1
        <5>2. i > 2 => 2 \in 1..i-1
          BY <2>1
        <5> QED BY <1>2, <2>1, <4>1, <5>1, <5>2
      <4>5. (CHOOSE i \in DOMAIN b : First(i)) = 2
        BY <4>1, <4>3, <4>4, Zenon
      <4>6. DropChaff(b) = SubSeq(b, 2, Len(b))
        BY <4>2, <4>5, Zenon DEF DropChaff
      <4>7. PICK e : e = SubSeq(b, 2, k + 1)
        BY Zenon
      <4>8. e \in Seq(Piece) /\ Len(e) = k /\ \A i \in 1..k : e[i] = b[i + 1]
        BY <1>2, <2>1, <3>2, <4>7
      <4>9. e = d
        BY <1>1, <1>2, <2>1, <4>8
      <4> QED BY <2>1, <4>6, <4>7, <4>9
    <3> QED BY <3>1, <3>2
  <2>3. NotChaff(b) = d
    <3>1. PICK X : X = {p \in {b[i] : i \in DOMAIN b} : p.frame # "chaff"}
      BY Zenon
    <3>2. ASSUME NEW i \in 1..k PROVE d[i] \in X
      <4>1. i + 1 \in DOMAIN b /\ b[i + 1] = d[i] /\ d[i].frame # "chaff"
        BY <1>2, <2>1
      <4> QED BY <3>1, <4>1
    <3>3. d \in Seq(X)
      BY <1>1, <1>2, <3>2
    <3>4. c \notin X
      BY <1>3, <3>1
    <3>5. Only(b, X) = d
      BY <1>1, <1>3, <1>5, <3>3, <3>4, OnlyRest, Zenon
    <3> QED BY <3>1, <3>5 DEF NotChaff
  <2> QED BY <1>1, <2>1, <2>2, <2>3
<1> QED BY <1>1, <1>3, <1>4, <1>5

-----------------------------------------------------------------------------
(* What is behind the AUTH frame.                                          *)

LEMMA BehindIsTail ==
    ASSUME NEW t \in Seq(Piece), NEW m \in 0..Len(t)
    PROVE  Behind(AuthFrame \o t, AuthParts + m) = SubSeq(t, 1, m)
<1>1. AuthFrame \in Seq(Piece) /\ Len(AuthFrame) = AuthParts /\ AuthParts \in Nat \ {0}
  BY FrameFacts
<1>2. PICK f \in Seq(Piece), a \in Nat \ {0} : f = AuthFrame /\ a = AuthParts /\ Len(f) = a
  BY <1>1, Zenon
<1>3. PICK s \in Seq(Piece) : s = f \o t
  <2>1. f \o t \in Seq(Piece)
    OBVIOUS
  <2> QED BY <2>1, Zenon
<1>4. Len(t) \in Nat /\ Len(s) = a + Len(t) /\ \A i \in 1..Len(t) : s[i + a] = t[i]
  <2>0. f \in Seq(Piece) /\ t \in Seq(Piece)
    BY <1>2
  <2>1. Joined(f, t, f \o t)
    BY <2>0, ConcatSeq, Zenon
  <2> QED BY <1>2, <1>3, <2>1, Zenon DEF Joined
<1>5. PICK x \in Seq(Piece), y \in Seq(Piece) : x = SubSeq(s, a + 1, a + m) /\ y = SubSeq(t, 1, m)
  <2>1. SubSeq(s, a + 1, a + m) \in Seq(Piece) /\ SubSeq(t, 1, m) \in Seq(Piece)
    BY <1>4
  <2> QED BY <2>1, Zenon
<1>6. /\ Len(x) = m /\ Len(y) = m
      /\ \A i \in 1..m : x[i] = s[i + a] /\ y[i] = t[i]
  BY <1>4, <1>5
<1>7. \A i \in 1..Len(x) : x[i] = y[i]
  <2>1. \A i \in 1..m : i \in 1..Len(t)
    BY <1>4
  <2> QED BY <1>4, <1>6, <2>1, Zenon
<1>8. x = y
  BY <1>5, <1>6, <1>7, SameSeq, Zenon
<1> QED BY <1>2, <1>3, <1>5, <1>8 DEF Behind

\* The parts read behind the AUTH frame are DATA, perhaps after CHAFF.
LEMMA BehindIsData ==
    ASSUME NEW s \in Whole, NEW r \in Nat, AuthParts <= r, r <= Len(s)
    PROVE  \E k \in 0..DataParts :
               /\ Behind(s, r) = DataRead(k) \/ Behind(s, r) = ChaffFrame \o DataRead(k)
               /\ k = DataParts => r = Len(s)
<1>1. PICK t \in Tails : s = AuthFrame \o t
  BY DEF Whole
<1>2. /\ AuthFrame \in Seq(Piece) /\ Len(AuthFrame) = AuthParts /\ AuthParts \in Nat \ {0}
      /\ DataFrame \in Seq(Piece) /\ Len(DataFrame) = DataParts /\ DataParts \in Nat \ {0}
      /\ ChaffFrame \in Seq(Piece) /\ Len(ChaffFrame) = 1
  BY FrameFacts
<1>3. PICK cd \in Seq(Piece) : cd = ChaffFrame \o DataFrame
  <2>1. ChaffFrame \o DataFrame \in Seq(Piece)
    BY <1>2
  <2> QED BY <2>1, Zenon
<1>4. /\ Len(cd) = DataParts + 1 /\ cd[1] = ChaffFrame[1]
      /\ \A i \in 1..DataParts : cd[i + 1] = DataFrame[i]
  <2>1. /\ Len(cd) = 1 + DataParts
        /\ \A i \in 1..1 : cd[i] = ChaffFrame[i]
        /\ \A i \in 1..DataParts : cd[i + 1] = DataFrame[i]
    <3>0. ChaffFrame \in Seq(Piece) /\ DataFrame \in Seq(Piece)
      BY <1>2
    <3>1. Joined(ChaffFrame, DataFrame, ChaffFrame \o DataFrame)
      BY <3>0, ConcatSeq, Zenon
    <3> QED BY <1>2, <1>3, <3>1 DEF Joined
  <2> QED BY <1>2, <2>1
<1>5. t \in Seq(Piece) /\ Len(s) = AuthParts + Len(t) /\ Len(t) \in Nat
  <2>1. t \in Seq(Piece)
    <3>1. <<>> \in Seq(Piece)
      OBVIOUS
    <3> QED BY <1>1, <1>2, <1>3, <3>1, Zenon DEF Tails
  <2>2. Joined(AuthFrame, t, AuthFrame \o t)
    BY <1>2, <2>1, ConcatSeq, Zenon
  <2> QED BY <1>1, <1>2, <2>1, <2>2, Zenon DEF Joined
<1>6. PICK m \in 0..Len(t) : r = AuthParts + m
  <2>1. r - AuthParts \in 0..Len(t) /\ r = AuthParts + (r - AuthParts)
    BY <1>2, <1>5
  <2> QED BY <2>1
<1>7. Behind(s, r) = SubSeq(t, 1, m)
  BY <1>1, <1>5, <1>6, BehindIsTail, Zenon
<1>8. CASE t = <<>>
  <2>1. m = 0 /\ SubSeq(t, 1, m) = <<>>
    BY <1>6, <1>8
  <2>2. DataRead(0) = <<>>
    BY <1>2 DEF DataRead
  <2>3. 0 \in 0..DataParts /\ 0 # DataParts
    BY <1>2
  <2> QED BY <1>7, <2>1, <2>2, <2>3, Zenon
<1>9. CASE t = DataFrame
  <2>1. m \in 0..DataParts /\ SubSeq(t, 1, m) = DataRead(m)
    BY <1>2, <1>6, <1>9 DEF DataRead
  <2>2. m = DataParts => r = Len(s)
    BY <1>2, <1>5, <1>6, <1>9, Zenon
  <2> QED BY <1>7, <2>1, <2>2
<1>10. CASE t = cd
  <2>1. CASE m = 0
    <3>1. SubSeq(t, 1, m) = <<>>
      BY <1>5, <2>1
    <3>2. DataRead(0) = <<>>
      BY <1>2 DEF DataRead
    <3>3. 0 \in 0..DataParts /\ 0 # DataParts
      BY <1>2
    <3> QED BY <1>7, <3>1, <3>2, <3>3, Zenon
  <2>2. CASE m # 0
    <3>1. PICK k \in 0..DataParts : m = k + 1
      <4>1. m - 1 \in 0..DataParts /\ m = (m - 1) + 1
        BY <1>2, <1>4, <1>6, <1>10, <2>2
      <4> QED BY <4>1, Zenon
    <3>2. PICK d \in Seq(Piece) : d = DataRead(k)
      BY DataReadFacts, Zenon
    <3>3. Len(d) = k /\ \A i \in 1..k : d[i] = DataFrame[i]
      BY <3>2, DataReadFacts
    <3>4. PICK x \in Seq(Piece), y \in Seq(Piece) : x = SubSeq(cd, 1, k + 1) /\ y = ChaffFrame \o d
      <4>1. SubSeq(cd, 1, k + 1) \in Seq(Piece) /\ ChaffFrame \o d \in Seq(Piece)
        BY <1>2, <1>4
      <4> QED BY <4>1, Zenon
    <3>5. Len(x) = k + 1 /\ \A i \in 1..(k + 1) : x[i] = cd[i]
      BY <1>2, <1>4, <3>4
    <3>6. Len(y) = k + 1 /\ y[1] = ChaffFrame[1] /\ \A i \in 1..k : y[i + 1] = d[i]
      <4>1. /\ Len(y) = 1 + k
            /\ \A i \in 1..1 : y[i] = ChaffFrame[i]
            /\ \A i \in 1..k : y[i + 1] = d[i]
        <5>0. ChaffFrame \in Seq(Piece) /\ d \in Seq(Piece)
          BY <1>2, <3>2
        <5>1. Joined(ChaffFrame, d, ChaffFrame \o d)
          BY <5>0, ConcatSeq, Zenon
        <5> QED BY <1>2, <3>3, <3>4, <5>1, Zenon DEF Joined
      <4> QED BY <1>2, <4>1
    <3>7. ASSUME NEW i \in 1..Len(x) PROVE x[i] = y[i]
      <4>1. CASE i = 1
        BY <1>4, <3>5, <3>6, <4>1
      <4>2. CASE i # 1
        <5>1. PICK j \in 1..k : i = j + 1
          <6>1. i - 1 \in 1..k /\ i = (i - 1) + 1
            BY <3>5, <4>2
          <6> QED BY <6>1
        <5>2. j \in 1..DataParts
          BY <1>2
        <5> QED BY <1>4, <3>3, <3>5, <3>6, <5>1, <5>2, ZenonT(30)
      <4> QED BY <4>1, <4>2
    <3>8. x = y
      BY <3>4, <3>5, <3>6, <3>7, SameSeq, Zenon
    <3>9. k = DataParts => r = Len(s)
      BY <1>4, <1>5, <1>6, <1>10, <3>1
    <3>10. Behind(s, r) = ChaffFrame \o DataRead(k)
      BY <1>7, <1>10, <3>1, <3>2, <3>4, <3>8, Zenon
    <3> QED BY <3>9, <3>10, Zenon
  <2> QED BY <2>1, <2>2, Zenon
<1> QED BY <1>1, <1>3, <1>8, <1>9, <1>10, Zenon DEF Tails

\* What the tunnel holds and what it reads next, without the CHAFF, is what was read.
LEMMA PumpReads ==
    ASSUME NEW s \in Seq(Piece), s \in Whole, NEW r \in Nat, AuthParts <= r, NEW n \in Nat,
           r + n <= Len(s)
    PROVE  \E k \in 0..DataParts :
               /\ DropChaff(NotChaff(Behind(s, r)) \o SubSeq(s, r + 1, r + n)) = DataRead(k)
               /\ NotChaff(Behind(s, r + n)) = DataRead(k)
<1>0. AuthParts \in Nat \ {0} /\ DataParts \in Nat \ {0} /\ Len(s) \in Nat
  BY FrameFacts
<1>1. PICK j \in 0..DataParts :
          Behind(s, r) = DataRead(j) \/ Behind(s, r) = ChaffFrame \o DataRead(j)
  <2>1. r <= Len(s)
    BY <1>0
  <2> QED BY <2>1, BehindIsData
<1>2. PICK k \in 0..DataParts :
          Behind(s, r + n) = DataRead(k) \/ Behind(s, r + n) = ChaffFrame \o DataRead(k)
  <2>1. r + n \in Nat /\ AuthParts <= r + n
    BY <1>0
  <2> QED BY <2>1, BehindIsData, Zenon
<1>3. PICK b, c, dj, dk, new : /\ b = Behind(s, r) /\ c = Behind(s, r + n)
                               /\ dj = DataRead(j) /\ dk = DataRead(k)
                               /\ new = SubSeq(s, r + 1, r + n)
  BY Zenon
<1>4. /\ NotChaff(b) = dj /\ NotChaff(c) = dk /\ DropChaff(c) = dk /\ DropChaff(dk) = dk
      /\ b \in Seq(Piece) /\ c \in Seq(Piece)
  BY <1>1, <1>2, <1>3, ChaffGoes, Zenon
<1>5. dj \in Seq(Piece) /\ dk \in Seq(Piece)
  BY <1>3, DataReadFacts
<1>6. new \in Seq(Piece) /\ c = b \o new
  <2>1. SubSeq(s, AuthParts + 1, r) \o SubSeq(s, r + 1, r + n) = SubSeq(s, AuthParts + 1, r + n)
    <3>1. PICK a \in Nat \ {0} : a = AuthParts + 1 /\ a <= r + 1
      <4>1. AuthParts + 1 \in Nat \ {0} /\ AuthParts + 1 <= r + 1
        BY <1>0
      <4> QED BY <4>1, Zenon
    <3>2. SubSeq(s, a, r) \o SubSeq(s, r + 1, r + n) = SubSeq(s, a, r + n)
      BY <3>1, ReadOn, Zenon
    <3> QED BY <3>1, <3>2, Zenon
  <2>2. SubSeq(s, r + 1, r + n) \in Seq(Piece)
    BY <1>0
  <2> QED BY <1>3, <2>1, <2>2, Zenon DEF Behind
<1>7. CASE b = dj
  BY <1>3, <1>4, <1>6, <1>7, Zenon
<1>8. CASE b = ChaffFrame \o dj
  <2>1. PICK h \in Piece : ChaffFrame = <<h>> /\ h.frame = "chaff"
    <3>1. ChaffFrame \in Seq(Piece) /\ Len(ChaffFrame) = 1 /\ ChaffFrame[1].frame = "chaff"
      BY FrameFacts
    <3>2. ChaffFrame[1] \in Piece /\ ChaffFrame = <<ChaffFrame[1]>>
      BY <3>1
    <3> QED BY <3>1, <3>2, Zenon
  <2>2. PICK u \in Seq(Piece) : u = dj \o new
    <3>1. dj \o new \in Seq(Piece)
      BY <1>5, <1>6
    <3> QED BY <3>1, Zenon
  <2>3. c = <<h>> \o u
    BY <1>5, <1>6, <1>8, <2>1, <2>2, SMTT(30)
  <2>4. c[1] = h
    BY <2>1, <2>2, <2>3
  <2>5. c # dk
    <3>1. c # <<>>
      BY <2>1, <2>2, <2>3
    <3>2. dk # <<>> => dk[1].frame = "data"
      BY <1>0, <1>3, <1>5, DataReadFacts
    <3> QED BY <2>1, <2>4, <3>1, <3>2, Zenon
  <2>6. c = <<h>> \o dk
    BY <1>2, <1>3, <2>1, <2>5
  <2>7. u = dk
    <3>1. Len(c) = 1 + Len(u) /\ \A i \in 1..Len(u) : c[i + 1] = u[i]
      BY <2>1, <2>2, <2>3
    <3>2. Len(c) = 1 + Len(dk) /\ \A i \in 1..Len(dk) : c[i + 1] = dk[i]
      BY <1>5, <2>1, <2>6
    <3>3. Len(u) = Len(dk)
      BY <1>5, <2>2, <3>1, <3>2
    <3>4. \A i \in 1..Len(u) : u[i] = dk[i]
      BY <3>1, <3>2, <3>3, Zenon
    <3> QED BY <1>5, <2>2, <3>3, <3>4, SameSeq, Zenon
  <2> QED BY <1>3, <1>4, <2>2, <2>7, Zenon
<1> QED BY <1>1, <1>3, <1>7, <1>8

-----------------------------------------------------------------------------
(* The gate's state, step by step.                                         *)

LEMMA DecodeData ==
    ASSUME NEW k \in 0..DataParts
    PROVE  Decode(DataRead(k)) = IF k = DataParts THEN "data" ELSE "incomplete"
<1>1. PICK d \in Seq(Piece) : d = DataRead(k)
  BY DataReadFacts, Zenon
<1>2. Len(d) = k /\ DataParts \in Nat \ {0} /\ \A i \in 1..k : d[i].frame = "data"
  BY <1>1, DataReadFacts, FrameFacts
<1>3. CASE k = 0
  <2>1. d = <<>> /\ k # DataParts
    BY <1>2, <1>3
  <2> QED BY <1>1, <2>1 DEF Decode
<1>4. CASE k # 0
  <2>1. d # <<>> /\ d[1].frame = "data"
    BY <1>2, <1>4
  <2>2. Parts("data") = DataParts
    BY DEF Parts
  <2>3. Decode(d) = IF Len(d) < DataParts THEN "incomplete" ELSE "data"
    BY <2>1, <2>2, Zenon DEF Decode
  <2> QED BY <1>1, <1>2, <2>3
<1> QED BY <1>3, <1>4, Zenon

GateShape(g) == DOMAIN g = {"pc", "out", "buf", "at", "seen"}

LEMMA GateGrows ==
    ASSUME NEW s \in Seq(Piece), NEW t \in Seq(Piece), NEW r \in 0..Len(s), NEW g, NEW x,
           GateOK(s, r, g, x)
    PROVE  GateOK(s \o t, r, g, x)
<1>1. AuthParts \in Nat \ {0}
  BY FrameFacts
<1>2. SubSeq(s \o t, 1, r) = SubSeq(s, 1, r)
  BY ReadStays
<1>3. Behind(s \o t, r) = Behind(s, r)
  <2>1. PICK a \in Nat \ {0} : a = AuthParts + 1
    BY <1>1
  <2>2. SubSeq(s \o t, a, r) = SubSeq(s, a, r)
    BY ReadStays
  <2> QED BY <2>1, <2>2, Zenon DEF Behind
<1>4. r >= AuthParts => (s \o t)[1] = s[1]
  <2>1. Joined(s, t, s \o t)
    BY ConcatSeq, Zenon
  <2> QED BY <1>1, <2>1 DEF Joined
<1> QED BY <1>2, <1>3, <1>4, Zenon DEF GateOK

LEMMA GateStarts ==
    ASSUME NEW s, NEW r, NEW g, NEW x, GateShape(g), GateOK(s, r, g, x), g.pc = "idle"
    PROVE  /\ GateShape([g EXCEPT !.pc = "exporter"])
           /\ GateOK(s, r, [g EXCEPT !.pc = "exporter"], x)
<1>1. PICK h : h = [g EXCEPT !.pc = "exporter"]
  BY Zenon
<1>2. GateShape(h) /\ h.pc = "exporter" /\ h.buf = g.buf /\ h.out = g.out
  BY <1>1 DEF GateShape
<1>3. g.buf = <<>> /\ r = 0 /\ x = <<>> /\ g.out # "tunnel"
  BY DEF GateOK
<1>4. GateOK(s, r, h, x)
  BY <1>2, <1>3, SMTT(30) DEF GateOK
<1> QED BY <1>1, <1>2, <1>4

\* What PumpUp makes of a buffer when nothing went to the backend yet.
Pumped(g, buf, h, x) ==
    IF Decode(DropChaff(buf)) = "data"
    THEN /\ x = <<>> \o SubSeq(DropChaff(buf), 1, DataParts)
         /\ h = [g EXCEPT !.pc = "tunnel",
                          !.buf = SubSeq(DropChaff(buf), DataParts + 1, Len(DropChaff(buf)))]
    ELSE x = <<>> /\ h = [g EXCEPT !.pc = "tunnel", !.buf = DropChaff(buf)]

\* The tunnel's pump, on what is behind the AUTH frame.
LEMMA PumpKeeps ==
    ASSUME NEW s, NEW r \in Nat, NEW g, GateShape(g), g.out = "tunnel",
           AuthParts <= r, s[1].frame = "auth", NEW k \in 0..DataParts,
           NotChaff(Behind(s, r)) = DataRead(k), NEW buf, DropChaff(buf) = DataRead(k),
           NEW h, NEW x, Pumped(g, buf, h, x)
    PROVE  GateShape(h) /\ GateOK(s, r, h, x) /\ h.pc = "tunnel" /\ h.out = "tunnel"
           /\ h.buf \in Seq(Piece) /\ x \in Seq(Piece)
<1>1. PICK d \in Seq(Piece) : d = DataRead(k)
  BY DataReadFacts, Zenon
<1>2. /\ Len(d) = k /\ DataParts \in Nat \ {0} /\ AuthParts \in Nat \ {0} /\ DropChaff(buf) = d
      /\ NotChaff(Behind(s, r)) = d /\ DataFrame \in Seq(Piece)
      /\ k = DataParts => d = DataFrame
  BY <1>1, DataReadFacts, FrameFacts, Zenon
<1>3. CASE k = DataParts
  <2>1. Decode(DropChaff(buf)) = "data" /\ d = DataFrame
    BY <1>2, <1>3, DecodeData, Zenon
  <2>2. /\ x = <<>> \o SubSeq(d, 1, DataParts)
        /\ h = [g EXCEPT !.pc = "tunnel", !.buf = SubSeq(d, DataParts + 1, Len(d))]
    BY <1>2, <2>1, Zenon DEF Pumped
  <2>3. SubSeq(d, DataParts + 1, Len(d)) = <<>>
    BY <1>1, <1>2, <1>3, SMTT(30)
  <2>4. SubSeq(d, 1, DataParts) = d
    BY <1>1, <1>2, <1>3
  <2>5. x = DataFrame
    BY <1>1, <2>1, <2>2, <2>4
  <2>6. h = [g EXCEPT !.pc = "tunnel", !.buf = <<>>]
    BY <2>2, <2>3, Zenon
  <2>7. GateShape(h) /\ h.pc = "tunnel" /\ h.out = "tunnel" /\ h.buf = <<>>
    BY <2>6, Zenon DEF GateShape
  <2> QED BY <1>2, <2>1, <2>5, <2>7 DEF GateOK
<1>4. CASE k # DataParts
  <2>1. Decode(DropChaff(buf)) # "data"
    BY <1>4, DecodeData
  <2>2. x = <<>> /\ h = [g EXCEPT !.pc = "tunnel", !.buf = d]
    BY <1>2, <2>1 DEF Pumped
  <2>3. GateShape(h) /\ h.pc = "tunnel" /\ h.out = "tunnel" /\ h.buf = d
    BY <2>2 DEF GateShape
  <2>4. Len(d) < DataParts
    BY <1>2, <1>4
  <2>5. x \in Seq(Piece)
    BY <2>2
  <2> QED BY <1>1, <1>2, <2>2, <2>3, <2>4, <2>5, Zenon DEF GateOK
<1> QED BY <1>3, <1>4, Zenon

-----------------------------------------------------------------------------
(* The client's steps.                                                     *)

\* More of anything keeps what there was.
LEMMA DataInConcat ==
    ASSUME NEW s \in Seq(Piece), NEW t \in Seq(Piece)
    PROVE  HasData(s \o t) <=> HasData(s) \/ HasData(t)
<1>1. PICK u \in Seq(Piece) : u = s \o t
  <2>1. s \o t \in Seq(Piece)
    OBVIOUS
  <2> QED BY <2>1, Zenon
<1>2. Joined(s, t, u)
  <2>1. Joined(s, t, s \o t)
    BY ConcatSeq, Zenon
  <2> QED BY <1>1, <2>1
<1>3. DOMAIN s = 1..Len(s) /\ DOMAIN t = 1..Len(t) /\ DOMAIN u = 1..Len(u)
  BY <1>1
<1>4. HasData(s) => HasData(u)
  BY <1>2, <1>3 DEF HasData, Joined
<1>5. HasData(t) => HasData(u)
  <2> SUFFICES ASSUME NEW i \in 1..Len(t), t[i].frame = "data" PROVE HasData(u)
    BY <1>3, Zenon DEF HasData
  <2>1. i + Len(s) \in DOMAIN u /\ u[i + Len(s)] = t[i]
    BY <1>2, <1>3 DEF Joined
  <2> QED BY <2>1 DEF HasData
<1>6. ASSUME NEW i \in DOMAIN u, u[i].frame = "data" PROVE HasData(s) \/ HasData(t)
  <2>1. CASE i <= Len(s)
    BY <1>2, <1>3, <1>6, <2>1 DEF HasData, Joined
  <2>2. CASE i > Len(s)
    <3>1. PICK j \in 1..Len(t) : i = j + Len(s)
      <4>1. i - Len(s) \in 1..Len(t) /\ i = (i - Len(s)) + Len(s)
        BY <1>2, <1>3, <2>2 DEF Joined
      <4> QED BY <4>1
    <3>2. t[j].frame = "data"
      BY <1>2, <1>6, <3>1 DEF Joined
    <3> QED BY <1>3, <3>2, Zenon DEF HasData
  <2> QED BY <1>2, <1>3, <2>1, <2>2 DEF Joined
<1> QED BY <1>1, <1>4, <1>5, <1>6, Zenon DEF HasData

LEMMA Longer ==
    ASSUME NEW s \in Seq(Piece), NEW t \in Seq(Piece)
    PROVE  s \o t \in Seq(Piece) /\ \A r \in 0..Len(s) : r \in 0..Len(s \o t)
OBVIOUS

LEMMA EmptyConcat ==
    ASSUME NEW s \in Seq(Piece)
    PROVE  <<>> \in Seq(Piece) /\ s \o <<>> = s /\ <<>> \o s = s
OBVIOUS

\* A step of the client that may send, and does not read.
LEMMA ClientMoves ==
    ASSUME BytesInv, UNCHANGED <<down, got>>,
           gate' = gate \/ (gate.pc = "idle" /\ gate' = [gate EXCEPT !.pc = "exporter"]),
           DOMAIN up' = DOMAIN up, up'.read = up.read,
           NEW t \in Seq(Piece), up'.sent = up.sent \o t,
           DOMAIN cl' = DOMAIN cl, cl'.rx = cl.rx,
           SentOK(up'.sent, cl'.pc, gate'.pc),
           cl'.result # "" => cl'.pc = "done",
           cl'.result = "Ok" => cl.result = "Ok",
           cl'.result = "CertProblem" => up'.sent = <<>>,
           ProbeIsValid', ProbeDialsOnly'
    PROVE  BytesInv'
<1>1. /\ SessionShape /\ GateOK(up.sent, up.read, gate, got)
      /\ AnswerOK(down.sent, cl, up.sent, gate, got)
  BY Zenon DEF BytesInv
<1>2. PICK s \in Seq(Piece) : s = up.sent
  BY <1>1, Zenon DEF SessionShape
<1>r. PICK r \in 0..Len(s) : r = up.read
  BY <1>1, <1>2, Zenon DEF SessionShape
<1>3. PICK g : g = gate /\ GateShape(g) /\ GateOK(s, r, g, got)
  BY <1>1, <1>2, <1>r, Zenon DEF SessionShape, GateShape
<1>4. PICK u \in Seq(Piece) : u = s \o t /\ r \in 0..Len(u)
  <2>1. s \o t \in Seq(Piece) /\ r \in 0..Len(s \o t)
    BY <1>2, <1>r, Longer, Zenon
  <2> QED BY <2>1, Zenon
<1>5. GateOK(u, r, g, got)
  <2>1. GateOK(s \o t, r, g, got)
    BY <1>2, <1>r, <1>3, GateGrows, Zenon
  <2> QED BY <1>4, <2>1, Zenon
<1>6. /\ GateShape(gate') /\ GateOK(u, r, gate', got)
      /\ gate'.buf = g.buf /\ gate'.out = g.out
  <2>1. CASE gate' = gate
    BY <1>3, <1>5, <2>1, Zenon
  <2>2. CASE gate.pc = "idle" /\ gate' = [gate EXCEPT !.pc = "exporter"]
    <3>1. PICK h : h = [g EXCEPT !.pc = "exporter"]
      BY Zenon
    <3>2. GateShape(h) /\ GateOK(u, r, h, got)
      BY <1>3, <1>5, <2>2, <3>1, GateStarts, Zenon
    <3>3. h.buf = g.buf /\ h.out = g.out
      BY <1>3, <3>1, Zenon DEF GateShape
    <3> QED BY <1>3, <2>2, <3>1, <3>2, <3>3, Zenon
  <2> QED BY <2>1, <2>2, Zenon
<1>7. u = up'.sent /\ r = up'.read /\ r \in 0..Len(u)
  BY <1>2, <1>r, <1>4, Zenon
<1>8. SessionShape'
  BY <1>1, <1>3, <1>6, <1>7, Zenon DEF SessionShape, GateShape
<1>9. AnswerOK(down'.sent, cl', up'.sent, gate', got')
  BY <1>1, <1>3, <1>6, Zenon DEF AnswerOK, Answered
<1>10. GateOK(up'.sent, up'.read, gate', got')
  BY <1>6, <1>7, Zenon
<1> QED BY <1>8, <1>9, <1>10, Zenon DEF BytesInv

\* A client that ends without a success, and sends nothing more.
LEMMA FinishKeepsBytes ==
    ASSUME BytesInv, NEW r, Finish(r), r \notin {"Ok", "CertProblem"} \/ (r = "CertProblem" /\ up.sent = <<>>),
           up' = up \/ up' = [up EXCEPT !.fin = TRUE],
           UNCHANGED <<cfg, auth, down, gate, got>>
    PROVE  BytesInv'
<1>1. /\ SessionShape /\ SentOK(up.sent, cl.pc, gate.pc)
      /\ ProbeIsValid /\ ProbeDialsOnly
  BY Zenon DEF BytesInv
<1>2. cl'.pc = "done" /\ cl'.result = r /\ cl'.rx = cl.rx /\ DOMAIN cl' = DOMAIN cl
  BY <1>1, Zenon DEF Finish, SessionShape
<1>3. DOMAIN up' = DOMAIN up /\ up'.read = up.read /\ up'.sent = up.sent
  BY <1>1 DEF SessionShape
<1>4. <<>> \in Seq(Piece) /\ up'.sent = up.sent \o <<>>
  BY <1>1, <1>3 DEF SessionShape
<1>5. SentOK(up'.sent, cl'.pc, gate'.pc)
  BY <1>1, <1>2, <1>3 DEF SentOK
<1>6. ProbeIsValid' /\ ProbeDialsOnly'
  BY <1>1, <1>2, <1>3, Zenon DEF ProbeIsValid, ProbeDialsOnly
<1> QED BY <1>2, <1>3, <1>4, <1>5, <1>6, ClientMoves, Zenon

\* The session's configuration keeps what it says of the client.
CfgOK ==
    /\ {"kind", "v2", "v3", "sk", "first", "linked"} \subseteq DOMAIN cfg
    /\ cfg.first \in {"", "auth", "data", "http", "chaff"}
    /\ cfg.first # "" => cfg.kind = "visitor"

LEMMA DialKeepsBytes ==
    ASSUME BytesInv, TcpConnect \/ TlsConnect \/ DialTimesOut \/ ExporterFails \/ ProbeReadEnds
                     \/ CancelProbe \/ FerryEnds
    PROVE  BytesInv'
<1>0. /\ SessionShape /\ SentOK(up.sent, cl.pc, gate.pc) /\ ProbeIsValid /\ ProbeDialsOnly
      /\ cl.result # "" => cl.pc = "done"
      /\ cl.result = "CertProblem" => up.sent = <<>>
  BY Zenon DEF BytesInv, AnswerOK
<1>1. <<>> \in Seq(Piece) /\ up.sent = up.sent \o <<>>
  <2>1. up.sent \in Seq(Piece)
    BY <1>0, Zenon DEF SessionShape
  <2> QED BY <2>1, EmptyConcat, Zenon
<1>2. CASE TcpConnect
  <2>1. UNCHANGED <<cfg, auth, up, down, gate, got>> /\ cl.pc = "tcp"
    BY <1>2 DEF TcpConnect
  <2>2. CASE cl' = [cl EXCEPT !.pc = "tls"]
    <3>1. cl'.pc = "tls" /\ cl'.result = cl.result /\ cl'.rx = cl.rx /\ DOMAIN cl' = DOMAIN cl
      BY <1>0, <2>2, Zenon DEF SessionShape
    <3>2. SentOK(up'.sent, cl'.pc, gate'.pc)
      BY <1>0, <2>1, <3>1, Zenon DEF SentOK
    <3>3. ProbeIsValid' /\ ProbeDialsOnly'
      BY <1>0, <2>1, <3>1, Zenon DEF ProbeIsValid, ProbeDialsOnly
    <3>4. cl'.result = ""
      BY <1>0, <2>1, <3>1, Zenon
    <3> QED BY <1>1, <2>1, <3>1, <3>2, <3>3, <3>4, ClientMoves, Zenon
  <2>3. CASE \E r \in {"Capability", "Timeout", "ConnectionRefused", "Io"} : Finish(r)
    BY <2>1, <2>3, FinishKeepsBytes
  <2> QED BY <1>2, <2>2, <2>3 DEF TcpConnect
<1>3. CASE TlsConnect
  <2>1. UNCHANGED <<cfg, auth, up, down, got>> /\ cl.pc = "tls" /\ up.sent = <<>> /\ gate.pc = "idle"
    BY <1>0, <1>3, Zenon DEF TlsConnect, SentOK
  <2>2. CASE cl' = [cl EXCEPT !.pc = "auth"] /\ gate' = [gate EXCEPT !.pc = "exporter"]
    <3>1. cl'.pc = "auth" /\ cl'.result = cl.result /\ cl'.rx = cl.rx /\ DOMAIN cl' = DOMAIN cl
      BY <1>0, <2>2, Zenon DEF SessionShape
    <3>2. SentOK(up'.sent, cl'.pc, gate'.pc)
      <4>1. Len(up.sent) >= AuthParts => FALSE
        BY <2>1, FrameFacts
      <4> QED BY <2>1, <3>1, <4>1 DEF SentOK
    <3>3. ProbeIsValid' /\ ProbeDialsOnly'
      BY <1>0, <2>1, <3>1, Zenon DEF ProbeIsValid, ProbeDialsOnly
    <3>4. cl'.result = ""
      BY <1>0, <2>1, <3>1, Zenon
    <3> QED BY <1>1, <2>1, <2>2, <3>1, <3>2, <3>3, <3>4, ClientMoves, Zenon
  <2>3. ASSUME NEW r, r \in {"FingerprintBlocked", "CertProblem", "Tls"}, Finish(r), UNCHANGED gate
        PROVE  BytesInv'
    BY <2>1, <2>3, FinishKeepsBytes
  <2>4. PICK e : e = IF cfg.kind = "chain" THEN DialUpstreamTls(cfg) ELSE DialUtls(cfg)
    OBVIOUS
  <2>5. e \in {"", "FingerprintBlocked", "CertProblem", "Tls"}
    BY <2>4, Zenon DEF DialUpstreamTls, DialUtls, FromTlsConnect
  <2>6. IF e # "" THEN Finish(e) /\ UNCHANGED gate
        ELSE cl' = [cl EXCEPT !.pc = "auth"] /\ gate' = [gate EXCEPT !.pc = "exporter"]
    BY <1>3, <2>4, Zenon DEF TlsConnect
  <2> QED BY <2>2, <2>3, <2>5, <2>6, Zenon
<1>4. ASSUME NEW r \in {"Io", "Timeout", "Tls", "Handshake", "Cancelled", "ended"}, Finish(r),
             up' = [up EXCEPT !.fin = TRUE], UNCHANGED <<cfg, auth, down, gate, got>>
      PROVE  BytesInv'
  BY <1>4, FinishKeepsBytes, Zenon
<1>5. CASE DialTimesOut
  BY <1>4, <1>5 DEF DialTimesOut
<1>6. CASE ExporterFails
  BY <1>4, <1>6 DEF ExporterFails
<1>7. CASE ProbeReadEnds
  BY <1>4, <1>7 DEF ProbeReadEnds
<1>8. CASE CancelProbe
  BY <1>4, <1>8 DEF CancelProbe
<1>9. CASE FerryEnds
  BY <1>4, <1>9 DEF FerryEnds
<1> QED BY <1>2, <1>3, <1>5, <1>6, <1>7, <1>8, <1>9

\* AUTH is written whole or cut, and only a probe whose capability is valid writes it.
LEMMA AuthenticateKeepsBytes ==
    ASSUME BytesInv, Authenticate
    PROVE  BytesInv'
<1>0. /\ SessionShape /\ SentOK(up.sent, cl.pc, gate.pc) /\ ProbeIsValid /\ ProbeDialsOnly
      /\ cl.result # "" => cl.pc = "done"
  BY Zenon DEF BytesInv, AnswerOK
<1>1. cl.pc = "auth" /\ up.sent = <<>> /\ cl.result = "" /\ UNCHANGED <<cfg, down, gate, got>>
  BY <1>0, Zenon DEF Authenticate, SentOK
<1>2. PICK e : e = IF cfg.kind = "chain" THEN "" ELSE AuthError(cfg)
  BY Zenon
<1>3. PICK ex : ex = IF cfg.kind = "host" THEN cfg.exporter ELSE "this"
  OBVIOUS
<1>4. IF e # ""
      THEN Finish(e) /\ up' = [up EXCEPT !.fin = TRUE] /\ UNCHANGED auth
      ELSE /\ auth' = MadeAuth(ex)
           /\ \/ /\ up' = [up EXCEPT !.sent = AuthFrame]
                 /\ cl' = [cl EXCEPT !.pc = IF cfg.kind = "probe" THEN "send" ELSE "run"]
              \/ \E n \in 0..AuthParts-1 :
                    /\ up' = [up EXCEPT !.sent = SubSeq(AuthFrame, 1, n), !.fin = TRUE]
                    /\ Finish("Io")
  BY <1>2, <1>3, Zenon DEF Authenticate, AuthFrame
<1>5. e \in {"", "Handshake", "CertProblem"}
  BY <1>2, Zenon DEF AuthError
<1>6. CASE e # ""
  BY <1>1, <1>4, <1>5, <1>6, FinishKeepsBytes, Zenon
<1>7. CASE e = ""
  <2>1. cfg.kind = "probe" => auth'.cap.not_before <= auth'.at /\ auth'.at <= auth'.cap.not_after
    <3>1. CASE cfg.kind = "probe"
      <4>1. AuthError(cfg) = ""
        BY <1>2, <1>7, <3>1, Zenon
      <4>2. PICK cap : cap = IF UsesV3(cfg) THEN ParseCapabilityV2(cfg.v3) ELSE ParseCapability(cfg.v2)
        OBVIOUS
      <4>3. EnsureValidNow(cap)
        BY <4>1, <4>2 DEF AuthError
      <4>4. auth'.cap = cap /\ auth'.at = now.client
        <5>1. auth' = MadeAuth(ex)
          BY <1>4, <1>7, Zenon
        <5>2. CASE UsesV3(cfg)
          BY <4>2, <5>1, <5>2 DEF MadeAuth
        <5>3. CASE ~UsesV3(cfg)
          BY <3>1, <4>2, <5>1, <5>3, Zenon DEF MadeAuth
        <5> QED BY <5>2, <5>3
      <4> QED BY <4>3, <4>4 DEF EnsureValidNow
    <3> QED BY <3>1
  <2>2. AuthFrame \in Seq(Piece) /\ Len(AuthFrame) = AuthParts /\ AuthParts \in Nat \ {0}
    BY FrameFacts
  <2>3. CASE /\ up' = [up EXCEPT !.sent = AuthFrame]
             /\ cl' = [cl EXCEPT !.pc = IF cfg.kind = "probe" THEN "send" ELSE "run"]
    <3>1. PICK pc \in {"send", "run"} : pc = IF cfg.kind = "probe" THEN "send" ELSE "run"
      OBVIOUS
    <3>2. cl' = [cl EXCEPT !.pc = pc]
      BY <2>3, <3>1
    <3>3. cl'.pc = pc /\ cl'.result = cl.result /\ cl'.rx = cl.rx /\ DOMAIN cl' = DOMAIN cl
      BY <1>0, <3>2, Zenon DEF SessionShape
    <3>4. up'.sent = AuthFrame /\ up'.read = up.read /\ DOMAIN up' = DOMAIN up
      BY <1>0, <2>3, Zenon DEF SessionShape
    <3>5. AuthFrame \in Whole
      <4>1. AuthFrame \o <<>> \in Whole
        BY Zenon DEF Whole, Tails
      <4> QED BY <2>2, <4>1
    <3>6. SentOK(up'.sent, cl'.pc, gate'.pc)
      BY <3>1, <3>3, <3>4, <3>5 DEF SentOK
    <3>7. ProbeIsValid' /\ ProbeDialsOnly'
      BY <1>1, <2>1, <3>1, <3>3, Zenon DEF ProbeIsValid, ProbeDialsOnly
    <3>8. up'.sent = up.sent \o AuthFrame
      BY <1>1, <2>2, <3>4, EmptyConcat, Zenon
    <3> QED BY <1>1, <2>2, <3>3, <3>4, <3>6, <3>7, <3>8, ClientMoves, Zenon
  <2>4. ASSUME NEW n \in 0..AuthParts-1,
               up' = [up EXCEPT !.sent = SubSeq(AuthFrame, 1, n), !.fin = TRUE], Finish("Io")
        PROVE  BytesInv'
    <3>1. PICK t \in Seq(Piece) : t = SubSeq(AuthFrame, 1, n) /\ Len(t) = n
      <4>1. SubSeq(AuthFrame, 1, n) \in Seq(Piece) /\ Len(SubSeq(AuthFrame, 1, n)) = n
        BY <2>2
      <4> QED BY <4>1, Zenon
    <3>2. up' = [up EXCEPT !.sent = t, !.fin = TRUE]
      BY <2>4, <3>1
    <3>3. up'.sent = t /\ up'.read = up.read /\ DOMAIN up' = DOMAIN up
      BY <1>0, <3>2, Zenon DEF SessionShape
    <3>4. cl'.pc = "done" /\ cl'.result = "Io" /\ cl'.rx = cl.rx /\ DOMAIN cl' = DOMAIN cl
      BY <1>0, <2>4, Zenon DEF Finish, SessionShape
    <3>5. SentOK(up'.sent, cl'.pc, gate'.pc)
      <4>1. ~(Len(t) >= AuthParts)
        BY <2>2, <3>1
      <4> QED BY <3>3, <3>4, <4>1 DEF SentOK
    <3>6. ProbeIsValid' /\ ProbeDialsOnly'
      BY <1>1, <2>1, <3>4, Zenon DEF ProbeIsValid, ProbeDialsOnly
    <3>7. up'.sent = up.sent \o t
      BY <1>1, <3>1, <3>3, EmptyConcat, Zenon
    <3> QED BY <1>1, <3>3, <3>4, <3>5, <3>6, <3>7, ClientMoves, Zenon
  <2> QED BY <1>4, <1>7, <2>3, <2>4, Zenon
<1> QED BY <1>6, <1>7, Zenon

LEMMA ConcatAssoc ==
    ASSUME NEW a \in Seq(Piece), NEW b \in Seq(Piece), NEW c \in Seq(Piece)
    PROVE  (a \o b) \o c = a \o (b \o c)
<1>1. PICK ab \in Seq(Piece) : ab = a \o b
  BY Longer, Zenon
<1>2. PICK bc \in Seq(Piece) : bc = b \o c
  BY Longer, Zenon
<1>3. PICK x \in Seq(Piece) : x = ab \o c
  BY Longer, Zenon
<1>4. PICK y \in Seq(Piece) : y = a \o bc
  BY Longer, Zenon
<1>5. Joined(a, b, ab) /\ Joined(b, c, bc) /\ Joined(ab, c, x) /\ Joined(a, bc, y)
  BY <1>1, <1>2, <1>3, <1>4, ConcatSeq, Zenon
<1>6. Len(a) \in Nat /\ Len(b) \in Nat /\ Len(c) \in Nat
  OBVIOUS
<1>7. Len(x) = Len(a) + Len(b) + Len(c) /\ Len(y) = Len(x) /\ Len(ab) = Len(a) + Len(b)
      /\ Len(bc) = Len(b) + Len(c)
  BY <1>5, <1>6 DEF Joined
<1>8. ASSUME NEW i \in 1..Len(x) PROVE x[i] = y[i]
  <2>1. CASE i <= Len(a)
    BY <1>5, <1>6, <1>7, <2>1, SMTT(30) DEF Joined
  <2>2. CASE i > Len(a) /\ i <= Len(ab)
    <3>1. PICK j \in 1..Len(b) : i = j + Len(a)
      <4>1. i - Len(a) \in 1..Len(b) /\ i = (i - Len(a)) + Len(a)
        BY <1>6, <1>7, <2>2, SMTT(30)
      <4> QED BY <4>1, Zenon
    <3>2. x[i] = ab[i] /\ ab[i] = b[j] /\ y[i] = bc[j] /\ bc[j] = b[j]
      BY <1>5, <1>6, <1>7, <2>2, <3>1, SMTT(30) DEF Joined
    <3> QED BY <3>2
  <2>3. CASE i > Len(ab)
    <3>1. PICK j \in 1..Len(c) : i = j + Len(ab)
      <4>1. i - Len(ab) \in 1..Len(c) /\ i = (i - Len(ab)) + Len(ab)
        BY <1>6, <1>7, <2>3
      <4> QED BY <4>1, Zenon
    <3>2. j + Len(b) \in 1..Len(bc) /\ i = (j + Len(b)) + Len(a)
      BY <1>6, <1>7, <3>1, SMTT(30)
    <3>3. x[i] = c[j] /\ y[i] = bc[j + Len(b)] /\ bc[j + Len(b)] = c[j]
      BY <1>5, <3>1, <3>2, SMTT(30) DEF Joined
    <3> QED BY <3>3, Zenon
  <2> QED BY <1>6, <1>7, <2>1, <2>2, <2>3, SMTT(30)
<1>9. x = y
  BY <1>3, <1>4, <1>7, <1>8, SameSeq, Zenon
<1> QED BY <1>1, <1>2, <1>3, <1>4, <1>9, Zenon

\* The preface of a probe, or the DATA of a ferry, behind the AUTH frame.
LEMMA SendKeepsBytes ==
    ASSUME BytesInv, SendPreface \/ FerrySends
    PROVE  BytesInv'
<1>0. /\ SessionShape /\ SentOK(up.sent, cl.pc, gate.pc) /\ ProbeIsValid /\ ProbeDialsOnly
      /\ cl.result # "" => cl.pc = "done"
  BY Zenon DEF BytesInv, AnswerOK
<1>1. /\ AuthFrame \in Seq(Piece) /\ DataFrame \in Seq(Piece) /\ ChaffFrame \in Seq(Piece)
      /\ Len(AuthFrame) = AuthParts /\ Len(DataFrame) = DataParts /\ Len(ChaffFrame) = 1
      /\ AuthParts \in Nat \ {0} /\ DataParts \in Nat \ {0} /\ AuthFrame # <<>>
  <2>1. /\ AuthFrame \in Seq(Piece) /\ DataFrame \in Seq(Piece) /\ ChaffFrame \in Seq(Piece)
        /\ Len(AuthFrame) = AuthParts /\ Len(DataFrame) = DataParts /\ Len(ChaffFrame) = 1
        /\ AuthParts \in Nat \ {0} /\ DataParts \in Nat \ {0}
    BY FrameFacts
  <2> QED BY <2>1
<1>2. ASSUME NEW t \in {DataFrame, ChaffFrame \o DataFrame}, t \in Seq(Piece),
             up.sent = AuthFrame,
             up' = [up EXCEPT !.sent = AuthFrame \o t],
             NEW pc \in {"read", "run"}, DOMAIN cl' = DOMAIN cl, cl'.pc = pc, cl'.rx = cl.rx,
             cl'.result = cl.result, cl.result = "", cfg.kind = "probe" => pc = "read",
             UNCHANGED <<cfg, auth, down, gate, got>>
      PROVE  BytesInv'
  <2>1. PICK w : w = AuthFrame \o t /\ w \in Whole
    <3>1. AuthFrame \o t \in Whole
      BY <1>2, Zenon DEF Whole, Tails
    <3> QED BY <3>1, Zenon
  <2>2. up' = [up EXCEPT !.sent = w]
    BY <1>2, <2>1, Zenon
  <2>3. up'.sent = w /\ up'.read = up.read /\ DOMAIN up' = DOMAIN up
    BY <1>0, <2>2, Zenon DEF SessionShape
  <2>4. SentOK(up'.sent, cl'.pc, gate'.pc)
    BY <1>2, <2>1, <2>3, Zenon DEF SentOK
  <2>5. ProbeIsValid' /\ ProbeDialsOnly'
    BY <1>0, <1>1, <1>2, Zenon DEF ProbeIsValid, ProbeDialsOnly
  <2>6. up'.sent = up.sent \o t
    BY <1>2, <2>1, <2>3, Zenon
  <2>7. cl'.result = ""
    BY <1>2, Zenon
  <2> QED BY <1>2, <2>3, <2>4, <2>5, <2>6, <2>7, ClientMoves, Zenon
<1>3. CASE SendPreface
  <2>1. cl.pc = "send" /\ up.sent = AuthFrame /\ cl.result = "" /\ UNCHANGED <<cfg, auth, down, gate, got>>
    BY <1>0, <1>3, Zenon DEF SendPreface, SentOK
  <2>2. CASE up' = [up EXCEPT !.sent = @ \o Frame("data")] /\ cl' = [cl EXCEPT !.pc = "read"]
    <3>1. up' = [up EXCEPT !.sent = AuthFrame \o DataFrame]
      BY <2>1, <2>2, Zenon DEF DataFrame
    <3>2. cl'.pc = "read" /\ cl'.result = cl.result /\ cl'.rx = cl.rx /\ DOMAIN cl' = DOMAIN cl
      BY <1>0, <2>2, Zenon DEF SessionShape
    <3> QED BY <1>1, <1>2, <2>1, <3>1, <3>2, Zenon
  <2>3. CASE up' = [up EXCEPT !.fin = TRUE] /\ Finish("Io")
    BY <2>1, <2>3, FinishKeepsBytes, Zenon
  <2> QED BY <1>3, <2>2, <2>3 DEF SendPreface
<1>4. CASE FerrySends
  <2>1. /\ cl.pc = "run" /\ up.sent \in Whole /\ Len(up.sent) = AuthParts /\ cl.result = ""
        /\ UNCHANGED <<cfg, cl, auth, down, gate, got>> /\ cfg.kind # "probe"
    BY <1>0, <1>4, Zenon DEF FerrySends, SentOK, ProbeDialsOnly
  <2>2. PICK t \in Tails : up.sent = AuthFrame \o t
    BY <2>1, Zenon DEF Whole
  <2>3. t = <<>>
    <3>0. ASSUME NEW z \in Seq(Piece), up.sent = AuthFrame \o z PROVE Len(z) = 0
      <4>1. Joined(AuthFrame, z, AuthFrame \o z)
        BY <1>1, <3>0, ConcatSeq, Zenon
      <4>2. Len(AuthFrame \o z) = Len(AuthFrame) + Len(z) /\ Len(z) \in Nat
        BY <4>1, <3>0 DEF Joined
      <4>3. AuthParts = AuthParts + Len(z)
        BY <1>1, <2>1, <3>0, <4>2, Zenon
      <4> QED BY <1>1, <4>2, <4>3
    <3>1. CASE t = DataFrame
      BY <1>1, <2>2, <3>0, <3>1, Zenon
    <3>2. CASE t = ChaffFrame \o DataFrame
      <4>1. PICK u \in Seq(Piece) : u = ChaffFrame \o DataFrame
        BY <1>1, Longer, Zenon
      <4>2. Joined(ChaffFrame, DataFrame, u)
        BY <1>1, <4>1, ConcatSeq, Zenon
      <4>3. Len(u) = 1 + DataParts
        BY <1>1, <4>2, Zenon DEF Joined
      <4>4. Len(u) = 0
        BY <2>2, <3>0, <3>2, <4>1, Zenon
      <4> QED BY <1>1, <4>3, <4>4
    <3> QED BY <3>1, <3>2 DEF Tails
  <2>4. up.sent = AuthFrame
    BY <1>1, <2>2, <2>3, EmptyConcat, Zenon
  <2>5. PICK cover \in {<<>>, ChaffFrame} : up' = [up EXCEPT !.sent = @ \o cover \o DataFrame]
    BY <1>4, Zenon DEF FerrySends, ChaffFrame, DataFrame
  <2>6. up' = [up EXCEPT !.sent = (AuthFrame \o cover) \o DataFrame]
    BY <2>4, <2>5
  <2>7. PICK d \in Seq(Piece) : d = cover \o DataFrame /\ (AuthFrame \o cover) \o DataFrame = AuthFrame \o d
    <3>1. cover \in Seq(Piece)
      <4>1. <<>> \in Seq(Piece)
        OBVIOUS
      <4> QED BY <1>1, <2>5, <4>1, Zenon
    <3>2. (AuthFrame \o cover) \o DataFrame = AuthFrame \o (cover \o DataFrame)
      BY <1>1, <3>1, ConcatAssoc, Zenon
    <3>3. cover \o DataFrame \in Seq(Piece)
      BY <1>1, <3>1, Longer, Zenon
    <3> QED BY <3>2, <3>3, Zenon
  <2>8. d \in {DataFrame, ChaffFrame \o DataFrame}
    <3>1. <<>> \o DataFrame = DataFrame
      BY <1>1, EmptyConcat, Zenon
    <3> QED BY <2>7, <3>1, Zenon
  <2>9. up' = [up EXCEPT !.sent = AuthFrame \o d]
    BY <2>6, <2>7
  <2> QED BY <1>2, <2>1, <2>4, <2>7, <2>8, <2>9, Zenon
<1> QED BY <1>3, <1>4

\* The client's first steps, and the steps of those that do not dial.
LEMMA OthersKeepBytes ==
    ASSUME BytesInv, CfgOK, ClientInv, FerryFd \/ Visit \/ VisitEnds \/ ChainDial \/ OpenLink
    PROVE  BytesInv'
<1>0. /\ SessionShape /\ SentOK(up.sent, cl.pc, gate.pc) /\ ProbeIsValid /\ ProbeDialsOnly
      /\ cl.result # "" => cl.pc = "done"
      /\ cl.result = "CertProblem" => up.sent = <<>>
  BY Zenon DEF BytesInv, AnswerOK
<1>1. <<>> \in Seq(Piece) /\ up.sent = up.sent \o <<>> /\ up.sent \in Seq(Piece)
  <2>1. up.sent \in Seq(Piece)
    BY <1>0, Zenon DEF SessionShape
  <2> QED BY <2>1, EmptyConcat, Zenon
<1>2. ~(Len(<<>>) >= AuthParts)
  BY FrameFacts
<1>3. CASE FerryFd
  <2>1. /\ cl.pc = "call" /\ up.sent = <<>> /\ gate.pc = "idle" /\ cl.result = ""
        /\ UNCHANGED <<cfg, auth, up, down, got>>
    BY <1>0, <1>3, Zenon DEF FerryFd, SentOK
  <2>2. cfg.kind = "host"
    BY <2>1, Zenon DEF ClientInv, PinnedFromHandshake
  <2>3. \/ cl' = [cl EXCEPT !.pc = "done", !.ret = -1] /\ UNCHANGED gate
        \/ cl' = [cl EXCEPT !.pc = "auth", !.ret = 0] /\ gate' = [gate EXCEPT !.pc = "exporter"]
    BY <1>3 DEF FerryFd
  <2>4. /\ cl'.pc \in {"done", "auth"} /\ cl'.result = cl.result /\ cl'.rx = cl.rx
        /\ DOMAIN cl' = DOMAIN cl
    BY <1>0, <2>3, Zenon DEF SessionShape
  <2>5. SentOK(up'.sent, cl'.pc, gate'.pc)
    BY <1>2, <2>1, <2>4, Zenon DEF SentOK
  <2>6. ProbeIsValid' /\ ProbeDialsOnly'
    BY <2>1, <2>2, Zenon DEF ProbeIsValid, ProbeDialsOnly
  <2> QED BY <1>1, <2>1, <2>3, <2>4, <2>5, <2>6, ClientMoves, Zenon
<1>4. CASE Visit
  <2>1. /\ cl.pc = "visit" /\ up.sent = <<>> /\ gate.pc = "idle" /\ cl.result = ""
        /\ UNCHANGED <<cfg, down, got>> /\ cfg.kind = "visitor"
        /\ gate' = [gate EXCEPT !.pc = "exporter"] /\ cl' = [cl EXCEPT !.pc = "visiting"]
    BY <1>0, <1>4, Zenon DEF Visit, SentOK, ClientInv, PinnedFromHandshake
  <2>2. PICK t : t = IF cfg.first = "" THEN <<>> ELSE Frame(cfg.first)
    BY Zenon
  <2>3. up' = [up EXCEPT !.sent = t]
    BY <1>4, <2>2, Zenon DEF Visit
  <2>4. /\ t \in Seq(Piece)
        /\ Len(t) >= AuthParts /\ t[1].frame = "auth" => t \in Whole
    <3>1. CASE cfg.first = ""
      BY <1>1, <1>2, <2>2, <3>1, Zenon
    <3>2. CASE cfg.first # ""
      <4>1. PICK f \in {"auth", "data", "http", "chaff"} : f = cfg.first
        BY <3>2, Zenon DEF CfgOK
      <4>2. t = Frame(f)
        BY <2>2, <3>2, <4>1, Zenon
      <4>3. t \in Seq(Piece) /\ t # <<>> /\ \A i \in DOMAIN t : t[i].frame = f
        BY <4>2, AnyFrame, SMTT(30)
      <4>4. t[1].frame = f
        BY <4>3
      <4>5. f = "auth" => t \in Whole
        <5>1. AuthFrame \o <<>> \in Whole
          BY DEF Whole, Tails
        <5>2. AuthFrame \o <<>> = AuthFrame
          BY FrameFacts, EmptyConcat, Zenon
        <5> QED BY <4>2, <5>1, <5>2, Zenon DEF AuthFrame
      <4> QED BY <4>3, <4>4, <4>5
    <3> QED BY <3>1, <3>2, Zenon
  <2>5. up'.sent = t /\ up'.read = up.read /\ DOMAIN up' = DOMAIN up
    BY <1>0, <2>3, Zenon DEF SessionShape
  <2>6. cl'.pc = "visiting" /\ cl'.result = cl.result /\ cl'.rx = cl.rx /\ DOMAIN cl' = DOMAIN cl
    BY <1>0, <2>1, Zenon DEF SessionShape
  <2>7. SentOK(up'.sent, cl'.pc, gate'.pc)
    BY <2>4, <2>5, <2>6 DEF SentOK
  <2>8. ProbeIsValid' /\ ProbeDialsOnly'
    BY <2>1, Zenon DEF ProbeIsValid, ProbeDialsOnly
  <2>9. up'.sent = up.sent \o t
    BY <2>1, <2>4, <2>5, EmptyConcat, Zenon
  <2> QED BY <2>1, <2>4, <2>5, <2>6, <2>7, <2>8, <2>9, ClientMoves, Zenon
<1>5. CASE VisitEnds
  <2>1. /\ cl.pc = "visiting" /\ cl.result = "" /\ UNCHANGED <<cfg, auth, down, gate, got>>
        /\ cl' = [cl EXCEPT !.pc = "done"] /\ up' = [up EXCEPT !.fin = TRUE]
    BY <1>0, <1>5, Zenon DEF VisitEnds
  <2>2. cl'.pc = "done" /\ cl'.result = cl.result /\ cl'.rx = cl.rx /\ DOMAIN cl' = DOMAIN cl
    BY <1>0, <2>1, Zenon DEF SessionShape
  <2>3. up'.sent = up.sent /\ up'.read = up.read /\ DOMAIN up' = DOMAIN up
    BY <1>0, <2>1, Zenon DEF SessionShape
  <2>4. SentOK(up'.sent, cl'.pc, gate'.pc)
    BY <1>0, <2>2, <2>3, Zenon DEF SentOK
  <2>5. ProbeIsValid' /\ ProbeDialsOnly'
    BY <1>0, <2>1, <2>2, <2>3, Zenon DEF ProbeIsValid, ProbeDialsOnly
  <2>6. cl'.result = ""
    BY <2>1, <2>2, Zenon
  <2> QED BY <1>1, <2>1, <2>2, <2>3, <2>4, <2>5, <2>6, ClientMoves, Zenon
<1>6. CASE ChainDial \/ OpenLink
  <2>1. /\ cl.pc = "off" /\ up.sent = <<>> /\ gate.pc = "idle" /\ cl.result = ""
        /\ UNCHANGED <<auth, up, down, gate, got>> /\ cl' = [cl EXCEPT !.pc = "tcp"]
    BY <1>0, <1>6, Zenon DEF ChainDial, OpenLink, SentOK
  <2>2. cl'.pc = "tcp" /\ cl'.result = cl.result /\ cl'.rx = cl.rx /\ DOMAIN cl' = DOMAIN cl
    BY <1>0, <2>1, Zenon DEF SessionShape
  <2>3. SentOK(up'.sent, cl'.pc, gate'.pc)
    BY <1>2, <2>1, <2>2, Zenon DEF SentOK
  <2>4. ProbeIsValid' /\ ProbeDialsOnly'
    BY <2>1, <2>2, Zenon DEF ProbeIsValid, ProbeDialsOnly
  <2>5. cl'.result = ""
    BY <2>1, <2>2, Zenon
  <2> QED BY <1>1, <2>1, <2>2, <2>3, <2>4, <2>5, ClientMoves, Zenon
<1> QED BY <1>3, <1>4, <1>5, <1>6, Zenon

\* The parts of one read.
PartsOf(new, s, r, n) ==
    /\ new \in Seq(Piece) /\ Len(new) = n
    /\ \A i \in 1..n : new[i] = s[i + r] /\ i + r \in 1..Len(s)

LEMMA PartsRead ==
    ASSUME NEW s \in Seq(Piece), NEW r \in 0..Len(s), NEW n \in 1..Len(s) - r
    PROVE  /\ PartsOf(SubSeq(s, r + 1, r + n), s, r, n)
           /\ r + n \in 0..Len(s) /\ n \in Nat /\ r \in Nat /\ r + n <= Len(s) /\ n >= 1
<1>1. r \in Nat /\ n \in Nat /\ n >= 1 /\ r + n <= Len(s) /\ Len(s) \in Nat /\ r + n \in Nat
  OBVIOUS
<1>2. SubSeq(s, r + 1, r + n) \in Seq(Piece) /\ Len(SubSeq(s, r + 1, r + n)) = n
  BY <1>1
<1>3. \A i \in 1..n : SubSeq(s, r + 1, r + n)[i] = s[i + r] /\ i + r \in 1..Len(s)
  BY <1>1
<1>4. PartsOf(SubSeq(s, r + 1, r + n), s, r, n)
  BY <1>2, <1>3, Zenon DEF PartsOf
<1>5. r + n \in 0..Len(s)
  BY <1>1
<1> QED BY <1>1, <1>4, <1>5, Zenon

\* One read of the probe: what it keeps is no answer, and an answer went through the tunnel.
LEMMA ProbeReadKeepsBytes ==
    ASSUME BytesInv, ProbeRead
    PROVE  BytesInv'
<1>0. /\ SessionShape /\ SentOK(up.sent, cl.pc, gate.pc) /\ ProbeIsValid /\ ProbeDialsOnly
      /\ GateOK(up.sent, up.read, gate, got) /\ AnswerOK(down.sent, cl, up.sent, gate, got)
  BY DEF BytesInv
<1>1. cl.pc = "read" /\ UNCHANGED <<cfg, auth, gate, got>> /\ cl.result = ""
  BY <1>0, Zenon DEF ProbeRead, AnswerOK
<1>2. PICK d \in Seq(Piece), c \in Seq(Piece) : d = down.sent /\ c = cl.rx
  BY <1>0 DEF SessionShape
<1>3. PICK r \in 0..Len(d) : r = down.read
  BY <1>0, <1>2 DEF SessionShape
<1>4. PICK n \in 1..Len(d) - r :
          LET rx == c \o SubSeq(d, r + 1, r + n)
              total == cl.total + n
              verdict == IF ProbeVerdict(rx) # "" THEN ProbeVerdict(rx)
                         ELSE IF total > ReadLimit THEN "Handshake" ELSE "" IN
          /\ down' = [down EXCEPT !.read = @ + n]
          /\ IF verdict = ""
             THEN cl' = [cl EXCEPT !.rx = DropChaff(rx), !.total = total] /\ UNCHANGED <<up, fds>>
             ELSE Finish(verdict) /\ up' = [up EXCEPT !.fin = TRUE]
  BY <1>2, <1>3, Zenon DEF ProbeRead
<1>5. PICK new \in Seq(Piece) : /\ new = SubSeq(d, r + 1, r + n) /\ Len(new) = n
                                /\ \A i \in 1..n : new[i] = d[i + r] /\ i + r \in 1..Len(d)
  <2>1. PartsOf(SubSeq(d, r + 1, r + n), d, r, n)
    BY <1>3, <1>4, PartsRead, Zenon
  <2> QED BY <2>1, Zenon DEF PartsOf
<1>6. PICK rx \in Seq(Piece) : rx = c \o new
  BY Longer, Zenon
<1>7. HasData(rx) => Answered(gate, got)
  <2>1. HasData(rx) <=> HasData(c) \/ HasData(new)
    BY <1>6, DataInConcat
  <2>2. HasData(new) => HasData(d)
    BY <1>5 DEF HasData
  <2> QED BY <1>0, <1>2, <2>1, <2>2, Zenon DEF AnswerOK
<1>8. PICK k \in Seq(Piece) : k = DropChaff(rx)
  BY DropChaffFacts, Zenon
<1>9. /\ \A j \in DOMAIN k : \E i \in DOMAIN rx : k[j] = rx[i]
      /\ k # <<>> => k[1].frame # "chaff"
  BY <1>8, DropChaffFacts, Zenon
<1>10. HasData(k) => HasData(rx)
  BY <1>9 DEF HasData
<1>11. Decode(k) = "data" => HasData(k)
  <2>1. k # <<>> => 1 \in DOMAIN k
    OBVIOUS
  <2> QED BY <2>1, Zenon DEF Decode, HasData
<1>12. DropChaff(k) = k
  <2>1. k = <<>> => DropChaff(k) = k
    BY DEF DropChaff
  <2> QED BY <1>9, <2>1, DropChaffFacts
<1>13. PICK v : v = ProbeVerdict(rx)
  OBVIOUS
<1>14. /\ v \in {"Ok", "", "Handshake"} /\ (v = "Ok" => Decode(k) = "data")
       /\ (v = "" => Decode(k) = "incomplete")
  BY <1>8, <1>13, Zenon DEF ProbeVerdict
<1>15. PICK m : m = cl.total + n
  OBVIOUS
<1>16. PICK w : w = IF v # "" THEN v ELSE IF m > ReadLimit THEN "Handshake" ELSE ""
  BY Zenon
<1>17. /\ down' = [down EXCEPT !.read = @ + n]
       /\ IF w = "" THEN cl' = [cl EXCEPT !.rx = k, !.total = m] /\ UNCHANGED up
          ELSE Finish(w) /\ up' = [up EXCEPT !.fin = TRUE]
  BY <1>4, <1>5, <1>6, <1>8, <1>13, <1>15, <1>16, Zenon
<1>18. w \in {"Ok", "", "Handshake"} /\ (w = "Ok" => v = "Ok") /\ (w = "" => v = "")
  BY <1>14, <1>16, Zenon
<1>19. down'.sent = d /\ down'.read \in 0..Len(d) /\ DOMAIN down' = DOMAIN down
  <2>1. down' = [down EXCEPT !.read = r + n]
    BY <1>3, <1>17, Zenon
  <2>2. down'.sent = d /\ down'.read = r + n /\ DOMAIN down' = DOMAIN down
    BY <1>0, <1>2, <2>1 DEF SessionShape
  <2>3. r + n \in 0..Len(d)
    BY <1>3, <1>4, PartsRead, Zenon
  <2> QED BY <2>2, <2>3, Zenon
<1>20. up'.sent = up.sent /\ up'.read = up.read /\ DOMAIN up' = DOMAIN up
  <2>1. up' = up \/ up' = [up EXCEPT !.fin = TRUE]
    BY <1>17, Zenon
  <2> QED BY <1>0, <2>1, Zenon DEF SessionShape
<1>21. GateOK(up'.sent, up'.read, gate', got')
  BY <1>0, <1>1, <1>20, Zenon
<1>22. CASE w = ""
  <2>1. /\ cl'.rx = k /\ cl'.pc = "read" /\ cl'.result = "" /\ DOMAIN cl' = DOMAIN cl
    BY <1>0, <1>1, <1>17, <1>22, Zenon DEF SessionShape
  <2>2. SessionShape'
    BY <1>0, <1>1, <1>2, <1>19, <1>20, <2>1, Zenon DEF SessionShape
  <2>3. SentOK(up'.sent, cl'.pc, gate'.pc) /\ ProbeIsValid' /\ ProbeDialsOnly'
    BY <1>0, <1>1, <1>20, <2>1, Zenon DEF SentOK, ProbeIsValid, ProbeDialsOnly
  <2>4. Decode(DropChaff(cl'.rx)) = "incomplete"
    BY <1>12, <1>14, <1>18, <1>22, <2>1, Zenon
  <2>5. AnswerOK(down'.sent, cl', up'.sent, gate', got')
    BY <1>0, <1>1, <1>2, <1>7, <1>10, <1>19, <2>1, <2>4, Zenon DEF AnswerOK, Answered
  <2> QED BY <1>21, <2>2, <2>3, <2>5, Zenon DEF BytesInv
<1>23. CASE w # ""
  <2>0. Finish(w)
    BY <1>17, <1>23, Zenon
  <2>1. /\ cl'.rx = cl.rx /\ cl'.pc = "done" /\ cl'.result = w /\ DOMAIN cl' = DOMAIN cl
    BY <1>0, <2>0 DEF SessionShape, Finish
  <2>2. SessionShape'
    BY <1>0, <1>1, <1>2, <1>19, <1>20, <2>1, Zenon DEF SessionShape
  <2>3. SentOK(up'.sent, cl'.pc, gate'.pc) /\ ProbeIsValid' /\ ProbeDialsOnly'
    BY <1>0, <1>1, <1>20, <2>1, Zenon DEF SentOK, ProbeIsValid, ProbeDialsOnly
  <2>4. w = "Ok" => Answered(gate, got)
    BY <1>7, <1>10, <1>11, <1>14, <1>18, SMTT(30)
  <2>5. AnswerOK(down'.sent, cl', up'.sent, gate', got')
    BY <1>0, <1>1, <1>2, <1>18, <1>19, <2>1, <2>4, Zenon DEF AnswerOK, Answered
  <2> QED BY <1>21, <2>2, <2>3, <2>5, Zenon DEF BytesInv
<1> QED BY <1>22, <1>23, Zenon

-----------------------------------------------------------------------------
(* The relay's steps.                                                      *)

\* A step of the relay that may read, route, pump and answer.
LEMMA RelayMoves ==
    ASSUME BytesInv, UNCHANGED <<cfg, cl, auth>>,
           DOMAIN up' = DOMAIN up, up'.sent = up.sent, up'.read \in 0..Len(up.sent),
           DOMAIN down' = DOMAIN down, down'.read = down.read,
           NEW t \in Seq(Piece), down'.sent = down.sent \o t,
           HasData(t) => Answered(gate', got'),
           GateShape(gate'), gate'.buf \in Seq(Piece), got' \in Seq(Piece),
           gate.pc # "idle", GateOK(up.sent, up'.read, gate', got'),
           Answered(gate, got) => Answered(gate', got')
    PROVE  BytesInv'
<1>0. /\ SessionShape /\ SentOK(up.sent, cl.pc, gate.pc) /\ ProbeIsValid /\ ProbeDialsOnly
      /\ AnswerOK(down.sent, cl, up.sent, gate, got)
  BY Zenon DEF BytesInv
<1>1. PICK d \in Seq(Piece) : d = down.sent
  BY <1>0, Zenon DEF SessionShape
<1>2. PICK r \in 0..Len(d) : r = down.read
  BY <1>0, <1>1, Zenon DEF SessionShape
<1>3. PICK e \in Seq(Piece) : e = d \o t /\ r \in 0..Len(e)
  <2>1. d \o t \in Seq(Piece) /\ r \in 0..Len(d \o t)
    BY <1>1, <1>2, Longer, Zenon
  <2> QED BY <2>1, Zenon
<1>4. down'.sent = e /\ down'.read = r
  BY <1>1, <1>2, <1>3, Zenon
<1>5. SessionShape'
  BY <1>0, <1>3, <1>4, Zenon DEF SessionShape, GateShape
<1>6. SentOK(up'.sent, cl'.pc, gate'.pc)
  BY <1>0, Zenon DEF SentOK
<1>7. HasData(e) => HasData(d) \/ HasData(t)
  BY <1>3, DataInConcat
<1>8. AnswerOK(down'.sent, cl', up'.sent, gate', got')
  BY <1>0, <1>1, <1>4, <1>7, Zenon DEF AnswerOK
<1>9. ProbeIsValid' /\ ProbeDialsOnly'
  BY <1>0, Zenon DEF ProbeIsValid, ProbeDialsOnly
<1> QED BY <1>5, <1>6, <1>8, <1>9, Zenon DEF BytesInv

\* A connection that is closed keeps the answers that were given.
LEMMA CloseKeepsBytes ==
    ASSUME BytesInv, gate.pc \notin {"idle"}, UNCHANGED <<cfg, cl, auth, up, got>>,
           \/ CloseConnection(gate) /\ gate.pc \notin {"exporter", "first", "second"}
           \/ CloseConnection([gate EXCEPT !.out = "site"]) /\ gate.pc \in {"exporter", "first"}
    PROVE  BytesInv'
<1>0. /\ SessionShape /\ GateOK(up.sent, up.read, gate, got)
  BY Zenon DEF BytesInv
<1>1. PICK g : g = gate /\ GateShape(g) /\ GateOK(up.sent, up.read, g, got)
  BY <1>0, Zenon DEF SessionShape, GateShape
<1>2. \/ gate' = [g EXCEPT !.pc = "closed"] /\ g.pc \notin {"exporter", "first", "second"}
      \/ gate' = [[g EXCEPT !.out = "site"] EXCEPT !.pc = "closed"] /\ g.pc \in {"exporter", "first"}
  BY <1>1 DEF CloseConnection
<1>3. GateShape(gate') /\ gate'.pc = "closed" /\ gate'.buf = g.buf
      /\ (g.out = gate'.out \/ (g.pc \in {"exporter", "first"} /\ gate'.out = "site"))
  BY <1>1, <1>2, Zenon DEF GateShape
<1>4. down' = [down EXCEPT !.fin = TRUE]
  BY Zenon DEF CloseConnection
<1>5. down'.sent = down.sent /\ down'.read = down.read /\ DOMAIN down' = DOMAIN down
  BY <1>0, <1>4 DEF SessionShape
<1>6. <<>> \in Seq(Piece) /\ down'.sent = down.sent \o <<>>
  <2>1. down.sent \in Seq(Piece)
    BY <1>0, Zenon DEF SessionShape
  <2> QED BY <1>5, <2>1, EmptyConcat, Zenon
<1>7. GateOK(up.sent, up'.read, gate', got')
  BY <1>3 DEF GateOK
<1>8. Answered(gate, got) => Answered(gate', got')
  BY <1>1, <1>3, Zenon DEF Answered, GateOK
<1>9. ~HasData(<<>>)
  BY DEF HasData
<1>10. gate'.buf \in Seq(Piece) /\ got' \in Seq(Piece) /\ up'.read \in 0..Len(up.sent)
  BY <1>0, <1>1, <1>3 DEF SessionShape
<1> QED BY <1>3, <1>5, <1>6, <1>7, <1>8, <1>9, <1>10, RelayMoves, Zenon

\* What consume leaves is what was read behind the AUTH frame.
LEMMA LeftOver ==
    ASSUME NEW s \in Seq(Piece), NEW q \in 1..Len(s), AuthParts <= q
    PROVE  /\ SubSeq(SubSeq(s, 1, q), AuthParts + 1, q) = Behind(s, q)
           /\ Behind(s, q) \in Seq(Piece)
<1>1. AuthParts \in Nat \ {0} /\ Len(s) \in Nat /\ q \in Nat /\ q <= Len(s)
  BY FrameFacts
<1>2. PICK a \in 1..q : a = AuthParts
  BY <1>1
<1>3. PICK b \in Seq(Piece) : b = SubSeq(s, 1, q) /\ Len(b) = q /\ \A i \in 1..q : b[i] = s[i]
  <2>1. SubSeq(s, 1, q) \in Seq(Piece) /\ Len(SubSeq(s, 1, q)) = q
    BY <1>1
  <2>2. \A i \in 1..q : SubSeq(s, 1, q)[i] = s[i]
    BY <1>1
  <2> QED BY <2>1, <2>2, Zenon
<1>4. PICK x \in Seq(Piece) : x = SubSeq(b, a + 1, q)
  <2>1. SubSeq(b, a + 1, q) \in Seq(Piece)
    BY <1>1, <1>3
  <2> QED BY <2>1, Zenon
<1>5. PICK y \in Seq(Piece) : y = SubSeq(s, a + 1, q)
  <2>1. SubSeq(s, a + 1, q) \in Seq(Piece)
    BY <1>1
  <2> QED BY <2>1, Zenon
<1>6. Len(x) = q - a /\ \A i \in 1..q - a : x[i] = b[i + a] /\ i + a \in 1..q
  BY <1>1, <1>3, <1>4
<1>7. Len(y) = q - a /\ \A i \in 1..q - a : y[i] = s[i + a]
  BY <1>1, <1>5, SMTT(30)
<1>8. \A i \in 1..Len(x) : x[i] = y[i]
  BY <1>3, <1>6, <1>7, SMTT(30)
<1>9. x = y
  BY <1>4, <1>5, <1>6, <1>7, <1>8, SameSeq, Zenon
<1> QED BY <1>2, <1>3, <1>4, <1>5, <1>9, SMTT(30) DEF Behind

\* The gate reads and decides.
LEMMA GateKeepsBytes ==
    ASSUME BytesInv, GateRead
    PROVE  BytesInv'
<1>0. /\ SessionShape /\ GateOK(up.sent, up.read, gate, got)
  BY Zenon DEF BytesInv
<1>1. PICK g : g = gate /\ GateShape(g) /\ GateOK(up.sent, up.read, g, got)
  BY <1>0, Zenon DEF SessionShape, GateShape
<1>2. PICK s \in Seq(Piece) : s = up.sent
  BY <1>0 DEF SessionShape
<1>3. PICK r \in 0..Len(s) : r = up.read
  BY <1>0, <1>2 DEF SessionShape
<1>4. g.pc \in {"first", "second"} /\ UNCHANGED <<cfg, cl, auth, down, got>>
  BY <1>1, Zenon DEF GateRead
<1>5. g.buf = SubSeq(s, 1, r) /\ got = <<>> /\ g.out # "tunnel"
  BY <1>1, <1>2, <1>3, <1>4 DEF GateOK
<1>6. PICK n \in 1..Len(s) - r :
          LET buf == g.buf \o SubSeq(s, r + 1, r + n)
              decision == TryDecodeAuth(buf) IN
          /\ up' = [up EXCEPT !.read = @ + n]
          /\ IF decision # "" THEN Consume(buf, decision)
             ELSE IF gate.pc = "first" THEN gate' = [gate EXCEPT !.pc = "second", !.buf = buf]
             ELSE Consume(buf, "site")
  BY <1>1, <1>2, <1>3, Zenon DEF GateRead
<1>7. r + n \in 0..Len(s) /\ n \in Nat /\ r \in Nat /\ r + n <= Len(s) /\ n >= 1
  BY <1>3, <1>6, PartsRead, Zenon
<1>8. PICK q \in 1..Len(s) : q = r + n
  BY <1>7
<1>9. PICK buf \in Seq(Piece) : /\ buf = g.buf \o SubSeq(s, r + 1, r + n) /\ buf = SubSeq(s, 1, q)
                                /\ Len(buf) = q /\ buf # <<>> /\ buf[1] = s[1]
  <2>1. g.buf \o SubSeq(s, r + 1, r + n) = SubSeq(s, 1, r + n)
    <3>1. SubSeq(s, 1, r) \o SubSeq(s, r + 1, r + n) = SubSeq(s, 1, r + n)
      BY <1>7, ReadOn
    <3> QED BY <1>5, <3>1, Zenon
  <2>2. SubSeq(s, 1, q) \in Seq(Piece) /\ Len(SubSeq(s, 1, q)) = q /\ SubSeq(s, 1, q)[1] = s[1]
    BY <1>8
  <2>3. SubSeq(s, 1, q) # <<>>
    BY <1>8, <2>2
  <2> QED BY <1>8, <2>1, <2>2, <2>3, Zenon
<1>10. PICK dec : dec = TryDecodeAuth(buf)
  BY Zenon
<1>11. PICK d2 : d2 = IF dec # "" THEN dec ELSE "site"
  BY Zenon
<1>12. \/ Consume(buf, d2)
       \/ gate' = [gate EXCEPT !.pc = "second", !.buf = buf]
  BY <1>6, <1>9, <1>10, <1>11, Zenon
<1>13. up'.sent = s /\ up'.read = q /\ DOMAIN up' = DOMAIN up
  <2>1. up' = [up EXCEPT !.read = q]
    BY <1>3, <1>6, <1>8, Zenon
  <2> QED BY <1>0, <1>2, <2>1 DEF SessionShape
<1>14. d2 \in {"tunnel", "site"}
  BY <1>10, <1>11, Zenon DEF TryDecodeAuth, TryAuthV2, TryAuthV3
<1>15. d2 = "tunnel" => buf[1].frame = "auth" /\ AuthParts <= q
  <2>1. d2 = "tunnel" => Decode(buf) = "auth"
    BY <1>10, <1>11, Zenon DEF TryDecodeAuth
  <2>2. Decode(buf) = "auth" => buf[1].frame = "auth" /\ ~(Len(buf) < AuthParts)
    BY <1>9, Zenon DEF Decode, Parts
  <2>3. ~(Len(buf) < AuthParts) => AuthParts <= q
    <3>1. AuthParts \in Nat /\ Len(buf) = q /\ q \in Nat
      BY <1>8, <1>9, FrameFacts
    <3> QED BY <3>1, SMTT(30)
  <2> QED BY <2>1, <2>2, <2>3, Zenon
<1>16. GateShape(gate') /\ gate'.buf \in Seq(Piece) /\ GateOK(s, q, gate', got)
  <2>1. CASE gate' = [gate EXCEPT !.pc = "second", !.buf = buf]
    <3>1. GateShape(gate') /\ gate'.pc = "second" /\ gate'.buf = buf /\ gate'.out = g.out
      BY <1>1, <2>1, SMTT(30) DEF GateShape
    <3> QED BY <1>5, <1>9, <3>1, Zenon DEF GateOK
  <2>2. CASE Consume(buf, d2) /\ d2 = "site"
    <3>1. gate' = [g EXCEPT !.pc = "site", !.out = "site", !.at = now.relay, !.seen = Len(buf),
                            !.buf = buf]
      BY <1>1, <2>2 DEF Consume
    <3>2. GateShape(gate') /\ gate'.pc = "site" /\ gate'.buf = buf /\ gate'.out = "site"
      BY <1>1, <3>1, Zenon DEF GateShape
    <3> QED BY <1>5, <1>9, <3>2, Zenon DEF GateOK
  <2>3. CASE Consume(buf, d2) /\ d2 = "tunnel"
    <3>0. AuthParts \in Nat \ {0} /\ AuthParts <= q /\ q \in Nat
      BY <1>15, <2>3, FrameFacts, <1>8
    <3>1. PICK b \in Seq(Piece) : b = Behind(s, q)
      BY <1>8, <3>0, LeftOver, Zenon
    <3>2. b = SubSeq(buf, AuthParts + 1, Len(buf))
      BY <1>8, <1>9, <3>0, <3>1, LeftOver, Zenon
    <3>3. gate' = [g EXCEPT !.pc = "dial", !.out = "tunnel", !.at = now.relay, !.seen = Len(buf),
                            !.buf = b]
      BY <1>1, <2>3, <3>2 DEF Consume
    <3>4. GateShape(gate') /\ gate'.pc = "dial" /\ gate'.buf = b /\ gate'.out = "tunnel"
      BY <1>1, <3>3 DEF GateShape
    <3>5. s[1].frame = "auth" /\ q >= AuthParts
      BY <1>9, <1>15, <2>3, <3>0, Zenon
    <3> QED BY <1>5, <3>1, <3>4, <3>5, SMTT(30) DEF GateOK
  <2> QED BY <1>12, <1>14, <2>1, <2>2, <2>3, SMTT(30)
<1>17. <<>> \in Seq(Piece) /\ down'.sent = down.sent \o <<>> /\ got' \in Seq(Piece)
  <2>1. down.sent \in Seq(Piece) /\ got \in Seq(Piece)
    BY <1>0, Zenon DEF SessionShape
  <2> QED BY <1>4, <2>1, EmptyConcat, Zenon
<1>18. ~HasData(<<>>)
  BY DEF HasData
<1>19. ~Answered(gate, got)
  BY <1>1, <1>5, Zenon DEF Answered
<1>20. up'.read \in 0..Len(up.sent) /\ up'.sent = up.sent /\ gate.pc # "idle"
       /\ GateOK(up.sent, up'.read, gate', got')
  BY <1>1, <1>2, <1>4, <1>7, <1>8, <1>13, <1>16, SMTT(30)
<1> QED BY <1>4, <1>13, <1>16, <1>17, <1>18, <1>19, <1>20, RelayMoves, Zenon

\* A step of the gate that reads nothing and writes nothing.
LEMMA RouteKeepsBytes ==
    ASSUME BytesInv, GateExporter \/ GateReadEnds \/ ForwardToSite \/ RelayEnds
    PROVE  BytesInv'
<1>0. /\ SessionShape /\ GateOK(up.sent, up.read, gate, got)
  BY Zenon DEF BytesInv
<1>1. PICK g : g = gate /\ GateShape(g) /\ GateOK(up.sent, up.read, g, got)
  BY <1>0, Zenon DEF SessionShape, GateShape
<1>2. UNCHANGED <<cfg, cl, auth, up>>
  BY Zenon DEF GateExporter, GateReadEnds, ForwardToSite, RelayEnds
<1>3. g.buf \in Seq(Piece) /\ got \in Seq(Piece) /\ up.read \in 0..Len(up.sent)
  BY <1>0, <1>1 DEF SessionShape
<1>4. ASSUME UNCHANGED down, GateShape(gate'), gate'.buf \in Seq(Piece), got' \in Seq(Piece),
             g.pc # "idle", g.out # "tunnel", GateOK(up.sent, up.read, gate', got')
      PROVE  BytesInv'
  <2>1. <<>> \in Seq(Piece) /\ down'.sent = down.sent \o <<>>
    <3>1. down.sent \in Seq(Piece)
      BY <1>0 DEF SessionShape
    <3> QED BY <1>4, <3>1, EmptyConcat, Zenon
  <2>2. ~HasData(<<>>)
    BY DEF HasData
  <2>3. ~Answered(gate, got)
    BY <1>1, <1>4, Zenon DEF Answered
  <2> QED BY <1>1, <1>2, <1>3, <1>4, <2>1, <2>2, <2>3, RelayMoves, Zenon
<1>5. CASE GateExporter
  <2>1. gate.pc = "exporter" /\ UNCHANGED got
    BY <1>5, Zenon DEF GateExporter
  <2>2. CASE gate' = [gate EXCEPT !.pc = "first"] /\ UNCHANGED down
    <3>1. GateShape(gate') /\ gate'.pc = "first" /\ gate'.buf = g.buf /\ gate'.out = g.out
      BY <1>1, <2>2, SMTT(30) DEF GateShape
    <3>2. g.buf = <<>> /\ up.read = 0 /\ got = <<>> /\ g.out # "tunnel"
      BY <1>1, <2>1, Zenon DEF GateOK
    <3>3. SubSeq(up.sent, 1, 0) = <<>>
      OBVIOUS
    <3>4. GateOK(up.sent, up.read, gate', got')
      BY <2>1, <3>1, <3>2, <3>3 DEF GateOK
    <3> QED BY <1>1, <1>3, <1>4, <2>1, <2>2, <3>1, <3>2, <3>4, Zenon
  <2>3. CASE CloseConnection([gate EXCEPT !.out = "site"])
    BY <1>2, <2>1, <2>3, CloseKeepsBytes
  <2> QED BY <1>5, <2>2, <2>3 DEF GateExporter
<1>6. CASE GateReadEnds
  <2>1. CASE gate.pc = "first" /\ CloseConnection([gate EXCEPT !.out = "site"])
    <3>1. UNCHANGED got
      BY <1>6, SMTT(30) DEF GateReadEnds
    <3> QED BY <1>2, <2>1, <3>1, CloseKeepsBytes
  <2>2. CASE gate.pc = "second" /\ Consume(gate.buf, "site") /\ UNCHANGED down
    <3>1. gate' = [g EXCEPT !.pc = "site", !.out = "site", !.at = now.relay, !.seen = Len(g.buf),
                            !.buf = g.buf]
      BY <1>1, <2>2 DEF Consume
    <3>2. GateShape(gate') /\ gate'.pc = "site" /\ gate'.buf = g.buf /\ gate'.out = "site"
      BY <1>1, <3>1 DEF GateShape
    <3>3. UNCHANGED got
      BY <1>6, Zenon DEF GateReadEnds
    <3>4. GateOK(up.sent, up.read, gate', got') /\ g.out # "tunnel" /\ g.pc # "idle"
      BY <1>1, <2>2, <3>2, <3>3, Zenon DEF GateOK
    <3> QED BY <1>3, <1>4, <2>2, <3>2, <3>3, <3>4
  <2> QED BY <1>6, <2>1, <2>2, Zenon DEF GateReadEnds
<1>7. CASE ForwardToSite
  <2>1. CASE got' = gate.buf /\ gate' = [gate EXCEPT !.pc = "forward", !.buf = <<>>] /\ UNCHANGED down
    <3>1. GateShape(gate') /\ gate'.pc = "forward" /\ gate'.buf = <<>> /\ gate'.out = g.out
      BY <1>1, <2>1, Zenon DEF GateShape
    <3>2. g.pc = "site"
      BY <1>1, <1>7 DEF ForwardToSite
    <3>3. GateOK(up.sent, up.read, gate', got') /\ g.out # "tunnel"
      BY <1>1, <2>1, <3>1, <3>2 DEF GateOK
    <3>4. <<>> \in Seq(Piece)
      OBVIOUS
    <3> QED BY <1>1, <1>3, <1>4, <2>1, <3>1, <3>2, <3>3, <3>4, SMTT(30)
  <2>2. CASE CloseConnection(gate) /\ UNCHANGED got
    <3>1. gate.pc = "site"
      BY <1>7, Zenon DEF ForwardToSite
    <3> QED BY <1>2, <2>2, <3>1, CloseKeepsBytes
  <2> QED BY <1>7, <2>1, <2>2 DEF ForwardToSite
<1>8. CASE RelayEnds
  <2>1. gate.pc \in {"tunnel", "forward"} /\ CloseConnection(gate) /\ UNCHANGED got
    BY <1>8, SMTT(30) DEF RelayEnds
  <2> QED BY <1>2, <2>1, CloseKeepsBytes
<1> QED BY <1>5, <1>6, <1>7, <1>8, Zenon

\* A connection that was admitted has sent an AUTH frame whole.
LEMMA AdmittedIsWhole ==
    ASSUME BytesInv, gate.pc \in {"dial", "tunnel"}
    PROVE  /\ up.sent \in Whole /\ AuthParts <= up.read /\ up.read <= Len(up.sent)
           /\ up.sent[1].frame = "auth" /\ gate.out = "tunnel" /\ up.read \in Nat
<1>1. gate.out = "tunnel" /\ up.read >= AuthParts /\ up.sent[1].frame = "auth"
  BY DEF BytesInv, GateOK
<1>2. up.read \in Nat /\ up.read <= Len(up.sent) /\ Len(up.sent) \in Nat /\ AuthParts \in Nat
  <2>1. up.sent \in Seq(Piece) /\ up.read \in 0..Len(up.sent)
    BY Zenon DEF BytesInv, SessionShape
  <2>2. AuthParts \in Nat
    BY EstablishAssumption
  <2> QED BY <2>1, <2>2
<1>3. Len(up.sent) >= AuthParts
  BY <1>1, <1>2
<1> QED BY <1>1, <1>2, <1>3, Zenon DEF BytesInv, SentOK

\* The backend is open: the leftover is pumped.
LEMMA OpenKeepsBytes ==
    ASSUME BytesInv, OpenBackend
    PROVE  BytesInv'
<1>0. /\ SessionShape /\ GateOK(up.sent, up.read, gate, got)
  BY Zenon DEF BytesInv
<1>1. PICK g : g = gate /\ GateShape(g) /\ GateOK(up.sent, up.read, g, got)
  BY <1>0, Zenon DEF SessionShape, GateShape
<1>2. g.pc = "dial" /\ UNCHANGED <<cfg, cl, auth, up>>
  BY <1>1, Zenon DEF OpenBackend
<1>3. /\ up.sent \in Whole /\ AuthParts <= up.read /\ up.read <= Len(up.sent)
      /\ up.sent[1].frame = "auth" /\ g.out = "tunnel" /\ up.read \in Nat
  BY <1>1, <1>2, AdmittedIsWhole, SMTT(30)
<1>4. got = <<>> /\ g.buf = Behind(up.sent, up.read)
  BY <1>1, <1>2 DEF GateOK
<1>5. PICK s, r : s = up.sent /\ r = up.read /\ r \in Nat
  BY <1>3, Zenon
<1>6. PICK k \in 0..DataParts : Behind(s, r) = DataRead(k) \/ Behind(s, r) = ChaffFrame \o DataRead(k)
  BY <1>3, <1>5, BehindIsData, Zenon
<1>7. PICK b : b = Behind(s, r) /\ DropChaff(b) = DataRead(k) /\ NotChaff(b) = DataRead(k)
  BY <1>6, ChaffGoes
<1>8. CASE PumpUp(gate.buf) /\ down' = [down EXCEPT !.sent = @ \o Frame("chaff")]
  <2>1. Pumped(g, b, gate', got')
    BY <1>1, <1>4, <1>5, <1>7, <1>8, Zenon DEF PumpUp, Pumped
  <2>2. /\ GateShape(gate') /\ GateOK(s, r, gate', got') /\ gate'.buf \in Seq(Piece)
        /\ got' \in Seq(Piece)
    <3>1. NotChaff(Behind(s, r)) = DataRead(k)
      BY <1>7
    <3> QED BY <1>1, <1>3, <1>5, <1>6, <1>7, <2>1, <3>1, PumpKeeps, Zenon
  <2>3. down'.sent = down.sent \o ChaffFrame /\ down'.read = down.read /\ DOMAIN down' = DOMAIN down
    BY <1>0, <1>8, Zenon DEF SessionShape, ChaffFrame
  <2>4. ChaffFrame \in Seq(Piece) /\ ~HasData(ChaffFrame)
    <3>1. ChaffFrame \in Seq(Piece) /\ Len(ChaffFrame) = 1 /\ ChaffFrame[1].frame = "chaff"
      BY FrameFacts
    <3> QED BY <3>1 DEF HasData
  <2>5. ~Answered(gate, got)
    <3>1. DataFrame # <<>>
      BY FrameFacts
    <3> QED BY <1>4, <3>1, Zenon DEF Answered
  <2>6. up'.read \in 0..Len(up.sent) /\ gate.pc # "idle"
    BY <1>0, <1>1, <1>2, Zenon DEF SessionShape
  <2> QED BY <1>2, <1>5, <2>2, <2>3, <2>4, <2>5, <2>6, RelayMoves, Zenon
<1>9. CASE CloseConnection(gate) /\ UNCHANGED got
  BY <1>1, <1>2, <1>9, CloseKeepsBytes, SMTT(30)
<1> QED BY <1>8, <1>9 DEF OpenBackend

\* The tunnel pumps what it reads, the cover site gets it as it is.
LEMMA PumpKeepsBytes ==
    ASSUME BytesInv, RelayPump
    PROVE  BytesInv'
<1>0. /\ SessionShape /\ GateOK(up.sent, up.read, gate, got)
  BY Zenon DEF BytesInv
<1>1. PICK g : g = gate /\ GateShape(g) /\ GateOK(up.sent, up.read, g, got)
  BY <1>0, Zenon DEF SessionShape, GateShape
<1>2. g.pc \in {"tunnel", "forward"} /\ UNCHANGED <<cfg, cl, auth, down>>
  BY <1>1, Zenon DEF RelayPump
<1>3. PICK s \in Seq(Piece) : s = up.sent
  BY <1>0, Zenon DEF SessionShape
<1>4. PICK r \in 0..Len(s) : r = up.read
  BY <1>0, <1>3, Zenon DEF SessionShape
<1>5. PICK n \in 1..Len(s) - r :
          /\ up' = [up EXCEPT !.read = @ + n]
          /\ IF g.pc = "tunnel" THEN PumpUp(g.buf \o SubSeq(s, r + 1, r + n))
             ELSE got' = got \o SubSeq(s, r + 1, r + n) /\ UNCHANGED gate
  BY <1>1, <1>3, <1>4, Zenon DEF RelayPump
<1>6. r + n \in 0..Len(s) /\ n \in Nat /\ r \in Nat /\ r + n <= Len(s) /\ n >= 1
  BY <1>4, <1>5, PartsRead, Zenon
<1>7. PICK q \in Nat : q = r + n /\ q \in 0..Len(s) /\ q <= Len(s) /\ q > r /\ r <= Len(s)
  BY <1>6
<1>8. up'.sent = s /\ up'.read = q /\ DOMAIN up' = DOMAIN up
  <2>1. up' = [up EXCEPT !.read = q]
    BY <1>4, <1>5, <1>7, Zenon
  <2> QED BY <1>0, <1>3, <2>1 DEF SessionShape
<1>9. <<>> \in Seq(Piece) /\ down'.sent = down.sent \o <<>>
  <2>1. down.sent \in Seq(Piece)
    BY <1>0, Zenon DEF SessionShape
  <2> QED BY <1>2, <2>1, EmptyConcat, ZenonT(30)
<1>10. ~HasData(<<>>)
  BY DEF HasData
<1>11. ASSUME GateShape(gate'), gate'.buf \in Seq(Piece), got' \in Seq(Piece),
              GateOK(s, q, gate', got'), ~Answered(gate, got)
       PROVE  BytesInv'
  <2>1. up'.read \in 0..Len(up.sent) /\ up'.sent = up.sent /\ gate.pc # "idle"
    BY <1>1, <1>2, <1>3, <1>7, <1>8, Zenon
  <2>2. GateOK(up.sent, up'.read, gate', got')
    BY <1>3, <1>8, <1>11, Zenon
  <2> QED BY <1>2, <1>8, <1>9, <1>10, <1>11, <2>1, <2>2, RelayMoves, Zenon
<1>12. CASE g.pc = "forward"
  <2>1. got' = got \o SubSeq(s, r + 1, r + n) /\ gate' = g /\ got = SubSeq(s, 1, r) /\ g.out # "tunnel"
    BY <1>1, <1>3, <1>4, <1>5, <1>12, Zenon DEF GateOK
  <2>2. got' = SubSeq(s, 1, q)
    <3>1. SubSeq(s, 1, r) \o SubSeq(s, r + 1, r + n) = SubSeq(s, 1, r + n)
      BY <1>6, ReadOn
    <3> QED BY <1>7, <2>1, <3>1
  <2>3. SubSeq(s, 1, q) \in Seq(Piece)
    BY <1>7, SMTT(30)
  <2>4. GateOK(s, q, gate', got')
    BY <1>12, <2>1, <2>2, Zenon DEF GateOK
  <2>5. g.buf \in Seq(Piece) /\ ~Answered(gate, got)
    BY <1>0, <1>1, <2>1, SMTT(30) DEF SessionShape, Answered
  <2> QED BY <1>1, <1>11, <2>1, <2>2, <2>3, <2>4, <2>5, Zenon
<1>13. CASE g.pc = "tunnel"
  <2>1. s \in Whole /\ AuthParts <= r /\ s[1].frame = "auth" /\ g.out = "tunnel"
    BY <1>1, <1>3, <1>4, <1>13, AdmittedIsWhole, Zenon
  <2>2. got # DataFrame
    <3>1. SUFFICES ASSUME got = DataFrame PROVE FALSE
      BY Zenon
    <3>2. DataFrame # <<>> /\ Len(DataFrame) = DataParts
      BY FrameFacts, Zenon
    <3>3. NotChaff(Behind(s, r)) = DataFrame
      BY <1>1, <1>3, <1>4, <1>13, <3>1, <3>2, Zenon DEF GateOK
    <3>4. PICK k \in 0..DataParts :
              /\ Behind(s, r) = DataRead(k) \/ Behind(s, r) = ChaffFrame \o DataRead(k)
              /\ k = DataParts => r = Len(s)
      BY <1>6, <1>7, <2>1, BehindIsData, Zenon
    <3>5. NotChaff(Behind(s, r)) = DataRead(k) /\ Len(DataRead(k)) = k
      BY <3>4, ChaffGoes, DataReadFacts
    <3>6. k = DataParts
      BY <3>2, <3>3, <3>5, Zenon
    <3> QED BY <1>7, <3>4, <3>6
  <2>3. got = <<>> /\ g.buf = NotChaff(Behind(s, r))
    BY <1>1, <1>3, <1>4, <1>13, <2>2, Zenon DEF GateOK
  <2>4. PICK k \in 0..DataParts :
            /\ DropChaff(NotChaff(Behind(s, r)) \o SubSeq(s, r + 1, r + n)) = DataRead(k)
            /\ NotChaff(Behind(s, r + n)) = DataRead(k)
    BY <1>6, <2>1, PumpReads, Zenon
  <2>5. PICK b : b = g.buf \o SubSeq(s, r + 1, r + n) /\ DropChaff(b) = DataRead(k)
                 /\ NotChaff(Behind(s, q)) = DataRead(k)
    BY <1>7, <2>3, <2>4, Zenon
  <2>6. Pumped(g, b, gate', got')
    BY <1>1, <1>5, <1>13, <2>3, <2>5, Zenon DEF PumpUp, Pumped
  <2>7. AuthParts <= q
    <3>1. AuthParts \in Nat
      BY FrameFacts
    <3> QED BY <1>6, <1>7, <2>1, <3>1, SMTT(30)
  <2>8. /\ GateShape(gate') /\ GateOK(s, q, gate', got') /\ gate'.buf \in Seq(Piece)
        /\ got' \in Seq(Piece)
    BY <1>1, <1>7, <2>1, <2>4, <2>5, <2>6, <2>7, PumpKeeps, Zenon
  <2>9. ~Answered(gate, got)
    BY <2>2, Zenon DEF Answered
  <2> QED BY <1>11, <2>8, <2>9, Zenon
<1> QED BY <1>2, <1>12, <1>13, SMTT(30)

\* CHAFF is no answer; DATA is one that the backend gives to the preface.
LEMMA AnswerKeepsBytes ==
    ASSUME BytesInv, RelayChaff \/ Reply
    PROVE  BytesInv'
<1>0. /\ SessionShape /\ GateOK(up.sent, up.read, gate, got)
  BY Zenon DEF BytesInv
<1>1. PICK f \in {"chaff", "data", "http"} : /\ down' = [down EXCEPT !.sent = @ \o Frame(f)]
                                             /\ f = "data" => gate.pc = "tunnel" /\ got # <<>>
  BY Zenon DEF RelayChaff, Reply
<1>2. gate.pc \in {"tunnel", "forward"} /\ UNCHANGED <<cfg, cl, auth, up, gate, got>>
  BY Zenon DEF RelayChaff, Reply
<1>3. PICK t \in Seq(Piece) : t = Frame(f) /\ \A i \in DOMAIN t : t[i].frame = f
  BY AnyFrame
<1>4. down'.sent = down.sent \o t /\ down'.read = down.read /\ DOMAIN down' = DOMAIN down
  BY <1>0, <1>1, <1>3, Zenon DEF SessionShape
<1>5. HasData(t) => Answered(gate', got')
  <2>1. HasData(t) => f = "data"
    BY <1>3, Zenon DEF HasData
  <2>2. gate.pc = "tunnel" /\ got # <<>> => Answered(gate, got)
    BY <1>0 DEF GateOK, Answered
  <2> QED BY <1>1, <1>2, <2>1, <2>2 DEF Answered
<1>6. /\ GateShape(gate') /\ gate'.buf \in Seq(Piece) /\ got' \in Seq(Piece)
      /\ up'.read \in 0..Len(up.sent) /\ gate.pc # "idle"
  BY <1>0, <1>2 DEF SessionShape, GateShape
<1>7. GateOK(up.sent, up'.read, gate', got') /\ (Answered(gate, got) => Answered(gate', got'))
  BY <1>0, <1>2, Zenon
<1> QED BY <1>2, <1>4, <1>5, <1>6, <1>7, RelayMoves, Zenon

-----------------------------------------------------------------------------
(* The invariant of the bytes, and what follows.                           *)

LEMMA BytesInit ==
    ASSUME Init PROVE BytesInv /\ CfgOK
<1>1. CfgOK
  BY ConfigsAssumption, Zenon DEF Init, CfgOK
<1>2. PICK pc \in {"off", "call", "visit", "tcp"} :
          cl = [pc |-> pc, result |-> "", ret |-> 1, rx |-> <<>>, total |-> 0]
  <2> DEFINE first == CASE cfg.kind = "chain" \/ cfg.linked -> "off"
                        [] cfg.kind = "host" -> "call"
                        [] cfg.kind = "visitor" -> "visit"
                        [] OTHER -> "tcp"
  <2>1. first \in {"off", "call", "visit", "tcp"}
    OBVIOUS
  <2>2. cl = [pc |-> first, result |-> "", ret |-> 1, rx |-> <<>>, total |-> 0]
    BY Zenon DEF Init
  <2> HIDE DEF first
  <2> QED BY <2>1, <2>2, Zenon
<1>3. /\ up = EmptyStream /\ down = EmptyStream /\ got = <<>>
      /\ gate = [pc |-> "idle", out |-> "", buf |-> <<>>, at |-> 0, seen |-> 0]
  BY Zenon DEF Init
<1>4. cfg.kind = "probe" => pc # "visit"
  <2>1. cl.pc = "visit" => cfg.kind = "visitor"
    BY Zenon DEF Init
  <2> QED BY <1>2, <2>1, Zenon
<1>5. SessionShape
  <2>1. <<>> \in Seq(Piece) /\ 0 \in 0..Len(<<>>)
    OBVIOUS
  <2> QED BY <1>2, <1>3, <2>1, Zenon DEF SessionShape, EmptyStream
<1>6. SentOK(up.sent, cl.pc, gate.pc)
  <2>1. ~(Len(<<>>) >= AuthParts)
    BY FrameFacts
  <2> QED BY <1>2, <1>3, <2>1, Zenon DEF SentOK, EmptyStream
<1>7. GateOK(up.sent, up.read, gate, got)
  BY <1>3, Zenon DEF GateOK, EmptyStream
<1>8. AnswerOK(down.sent, cl, up.sent, gate, got)
  <2>1. ~HasData(<<>>)
    BY DEF HasData
  <2>2. Decode(DropChaff(<<>>)) = "incomplete"
    BY DEF DropChaff, Decode
  <2> QED BY <1>2, <1>3, <2>1, <2>2, Zenon DEF AnswerOK, EmptyStream
<1>9. ProbeIsValid /\ ProbeDialsOnly
  BY <1>2, <1>3, <1>4, Zenon DEF ProbeIsValid, ProbeDialsOnly, EmptyStream
<1> QED BY <1>1, <1>5, <1>6, <1>7, <1>8, <1>9 DEF BytesInv

LEMMA CfgNext ==
    ASSUME CfgOK, [Next]_vars PROVE CfgOK'
<1>1. CASE ChainDial
  <2>1. PICK sk, v3 : cfg' = [cfg EXCEPT !.sk = sk, !.v3 = v3]
    BY <1>1, Zenon DEF ChainDial
  <2> QED BY <2>1, Zenon DEF CfgOK
<1>2. CASE OpenLink
  <2>1. PICK sni, pin, v2 : cfg' = [cfg EXCEPT !.sni = sni, !.pin = pin, !.v2 = v2]
    BY <1>2, Zenon DEF OpenLink
  <2> QED BY <2>1, Zenon DEF CfgOK
<1>3. CASE UNCHANGED cfg
  BY <1>3, Zenon DEF CfgOK
<1>4. ClientStep => UNCHANGED cfg
  BY Zenon DEF ClientStep, TcpConnect, TlsConnect, DialTimesOut, ExporterFails, Authenticate,
         SendPreface, ProbeRead, ProbeReadEnds
<1>5. GateStep => UNCHANGED cfg
  BY Zenon DEF GateStep, GateExporter, GateRead, GateReadEnds, OpenBackend
<1>6. CancelProbe \/ FerrySends \/ FerryEnds \/ FerryFd \/ Visit \/ VisitEnds => UNCHANGED cfg
  BY Zenon DEF CancelProbe, FerrySends, FerryEnds, FerryFd, Visit, VisitEnds
<1>7. ForwardToSite \/ RelayPump \/ RelayChaff \/ Reply \/ RelayEnds => UNCHANGED cfg
  BY Zenon DEF ForwardToSite, RelayPump, RelayChaff, Reply, RelayEnds
<1>8. Provisioning \/ UNCHANGED vars => UNCHANGED cfg
  BY DEF Provisioning, vars, sessionVars
<1> QED BY <1>1, <1>2, <1>3, <1>4, <1>5, <1>6, <1>7, <1>8, Zenon DEF Next

LEMMA BytesNext ==
    ASSUME BytesInv, CfgOK, ClientInv, [Next]_vars
    PROVE  BytesInv'
<1>1. CASE TcpConnect \/ TlsConnect \/ DialTimesOut \/ ExporterFails \/ ProbeReadEnds
           \/ CancelProbe \/ FerryEnds
  BY <1>1, DialKeepsBytes
<1>2. CASE Authenticate
  BY <1>2, AuthenticateKeepsBytes
<1>3. CASE SendPreface \/ FerrySends
  BY <1>3, SendKeepsBytes, Zenon
<1>4. CASE FerryFd \/ Visit \/ VisitEnds \/ ChainDial \/ OpenLink
  BY <1>4, OthersKeepBytes
<1>5. CASE ProbeRead
  BY <1>5, ProbeReadKeepsBytes, Zenon
<1>6. CASE GateRead
  BY <1>6, GateKeepsBytes, Zenon
<1>7. CASE GateExporter \/ GateReadEnds \/ ForwardToSite \/ RelayEnds
  BY <1>7, RouteKeepsBytes, Zenon
<1>8. CASE OpenBackend
  BY <1>8, OpenKeepsBytes, Zenon
<1>9. CASE RelayPump
  BY <1>9, PumpKeepsBytes, Zenon
<1>10. CASE RelayChaff \/ Reply
  BY <1>10, AnswerKeepsBytes, Zenon
<1>11. CASE Provisioning \/ UNCHANGED vars
  <2>1. UNCHANGED <<cfg, cl, auth, up, down, gate, got>>
    BY <1>11 DEF Provisioning, vars, sessionVars
  <2> QED BY <2>1, Zenon DEF BytesInv, SessionShape, ProbeIsValid, ProbeDialsOnly
<1> QED BY <1>1, <1>2, <1>3, <1>4, <1>5, <1>6, <1>7, <1>8, <1>9, <1>10, <1>11, Zenon
        DEF Next, ClientStep, GateStep

LEMMA BytesAlways == Spec => [](BytesInv /\ CfgOK)
<1>1. Init => BytesInv /\ CfgOK
  BY BytesInit
<1>2. ClientInv /\ (BytesInv /\ CfgOK) /\ [Next]_vars => (BytesInv /\ CfgOK)'
  BY BytesNext, CfgNext
<1> QED BY <1>1, <1>2, ClientInvHolds, PTL DEF Spec

\* No byte the gate of a relay has read is lost, doubled or reordered, for frames of any
\* length and reads that end anywhere: the cover site has the stream from its first byte, and
\* the backend the DATA behind the AUTH frame (gate_stream, GateDecision::consume,
\* dispatch_gate_result, forward_to_site, forward_tunnel).
THEOREM BytesAreConservedHolds == Spec => []BytesAreConserved
<1>1. BytesInv => BytesAreConserved
  <2> SUFFICES ASSUME BytesInv PROVE BytesAreConserved
    BY Zenon
  <2>1. GateOK(up.sent, up.read, gate, got) /\ got \in Seq(Piece) /\ gate.buf \in Seq(Piece)
    BY Zenon DEF BytesInv, SessionShape
  <2>2. gate.pc = "tunnel" => got \o gate.buf = NotChaff(Behind(up.sent, up.read))
    <3>1. \A s \in Seq(Piece) : s \o <<>> = s /\ <<>> \o s = s
      BY EmptyConcat, Zenon
    <3> QED BY <2>1, <3>1, SMTT(30) DEF GateOK
  <2> QED BY <2>1, <2>2 DEF BytesAreConserved, GateOK, Behind
<1> QED BY <1>1, BytesAlways, PTL

\* A probe says Ok only after its preface went through a tunnel to the backend and an answer
\* came back, a CertProblem only before a byte was sent; it never sends an AUTH its own clock
\* finds out of date, and never waits with an answer in its buffer (probe_veil_front,
\* probe_verdict, ensure_valid_now).
THEOREM VerdictIsTrueHolds == Spec => []VerdictIsTrue
<1>1. BytesInv => VerdictIsTrue
  BY Zenon DEF BytesInv, AnswerOK, Answered, ProbeIsValid, VerdictIsTrue, DataFrame
<1> QED BY <1>1, BytesAlways, PTL

=============================================================================
