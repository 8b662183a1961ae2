------------------------------ MODULE Establish ------------------------------
(***************************************************************************)
(* How one veil-front session comes about: the client's dial, pinned TLS   *)
(* and AUTH (veil_front_adapter.rs, tls_pinned.rs, obfuscator.rs), or the  *)
(* same by a chain relay (chain.rs, upstream_tls.rs), or the AUTH alone    *)
(* over a host's TLS (veil_front_ferry_fd in ffi.rs); the relay's gate,    *)
(* which routes the connection to a tunnel or to the cover site (gate.rs,  *)
(* main.rs, site.rs); and the probe's verdict on what comes back.          *)
(*                                                                         *)
(* A frame travels in parts, and a read returns any number of the parts    *)
(* written and not yet read.  The client and the relay have clocks of      *)
(* their own; a session reads each of them once, at a time that is chosen  *)
(* at the start.  TLS is symbolic: the relay's exporter is "this" one.     *)
(* What an established tunnel does is in Tunnel.                           *)
(***************************************************************************)
EXTENDS Provision, FiniteSets, Lists

CONSTANTS
    Configs,        \* the configurations a session may have, see `cfg`
    Issued,         \* capabilities the relay's issuer signed
    Issuer,         \* seed of the relay's issuer; its public key is --issuer-pubkey
    AuthParts, DataParts, HttpParts,    \* parts of a frame or of a request
    ReadLimit,      \* 65536 bytes of the probe, in parts
    MaxChaff,       \* bound on the CHAFF frames of the relay
    MaxTime         \* bound on the clocks

ASSUME EstablishAssumption ==
    /\ {AuthParts, DataParts, HttpParts} \subseteq Nat \ {0}
    /\ ReadLimit \in Nat /\ MaxChaff \in Nat /\ MaxTime \in Nat

\* A descriptor is negative, or open and not closed yet.  Only a visitor sends something else
\* than a client does, and only a client has a link.
ASSUME ConfigsAssumption ==
    \A c \in Configs :
        /\ {"kind", "peer", "pin", "v2", "v3", "sk", "fds", "first", "linked"} \subseteq DOMAIN c
        /\ c.fds \in [DOMAIN c.fds -> {-1, 0}]
        /\ c.first \in {"", "auth", "data", "http", "chaff"}
        /\ c.first # "" => c.kind = "visitor"
        /\ c.linked \in BOOLEAN /\ (c.linked => c.kind \in {"probe", "ferry"})

VARIABLES
    cfg,    \* kind: who connects (probe, ferry, host, chain, visitor); peer: who answers;
            \* pin, sni, addr, v2, v3, sk: the client's parameters, or linked ones; scope: the
            \* relay's; exporter, register, fds: of a host's call; first: what a visitor sends
    now,    \* the client's and the relay's clock when they are read
    cl,     \* the client: where it is, its result, its probe's rx_buf and total_read
    auth,   \* its AUTH frame; and its capability, who made it, for which session and when
    fds,    \* the host's descriptors: negative, or how often closed
    up,     \* the stream to the relay: parts sent, parts read, and whether it has ended
    down,   \* the stream to the client
    gate,   \* the relay's side: where it is, its decision, when, after how many parts
    got     \* what the backend or the cover site received

sessionVars == <<cfg, now, cl, auth, fds, up, down, gate, got>>
vars == <<sessionVars, provVars>>

NoAuth == [ver |-> 0, payload |-> <<>>, cap |-> NoCapability, by |-> "", session |-> "",
           at |-> 0]
EmptyStream == [sent |-> <<>>, read |-> 0, fin |-> FALSE]

Init ==
    /\ ProvInit
    /\ cfg \in Configs
    /\ now \in [client : 0..MaxTime, relay : 0..MaxTime]
    /\ cl = [pc |-> CASE cfg.kind = "chain" \/ cfg.linked -> "off"
                      [] cfg.kind = "host" -> "call"
                      [] cfg.kind = "visitor" -> "visit"
                      [] OTHER -> "tcp",
             result |-> "", ret |-> 1, rx |-> <<>>, total |-> 0]
    /\ auth = NoAuth
    /\ fds = cfg.fds
    /\ up = EmptyStream /\ down = EmptyStream
    /\ gate = [pc |-> "idle", out |-> "", buf |-> <<>>, at |-> 0, seen |-> 0]
    /\ got = <<>>

-----------------------------------------------------------------------------
(* Frames in parts.                                                        *)

Parts(frame) == CASE frame = "auth" -> AuthParts
                  [] frame = "data" -> DataParts
                  [] frame = "http" -> HttpParts
                  [] OTHER -> 1

Frame(f) == [i \in 1..Parts(f) |-> [frame |-> f, part |-> i]]

\* VeilFrontCodec::decode at a frame boundary: an error, a frame, or nothing yet.
Decode(buf) ==
    IF buf = <<>> THEN "incomplete"
    ELSE IF buf[1].frame = "http" THEN "error"
    ELSE IF Len(buf) < Parts(buf[1].frame) THEN "incomplete"
    ELSE buf[1].frame

\* What a loop over decode leaves once the complete CHAFF frames are dropped.
DropChaff(buf) ==
    IF \A i \in DOMAIN buf : buf[i].frame = "chaff" THEN <<>>
    ELSE SubSeq(buf, CHOOSE i \in DOMAIN buf :
                        /\ buf[i].frame # "chaff"
                        /\ \A j \in 1..i-1 : buf[j].frame = "chaff", Len(buf))

NotChaff(buf) == Only(buf, {p \in {buf[i] : i \in DOMAIN buf} : p.frame # "chaff"})

-----------------------------------------------------------------------------
(* The TLS handshake of a client that pins.  The hash of a key stands for  *)
(* the key.                                                                *)

\* What rustls makes of the handshake with a verifier: who is accepted, by certificate and by
\* the signature that shows the peer holds its key.
Handshake(peer, accepted) ==
    CASE peer.hello = "ok" /\ accepted -> "ok"
      [] peer.hello = "ok" /\ ~accepted -> "InvalidCertificate"
      [] peer.hello = "alert40" -> "HandshakeFailure"
      [] OTHER -> "Other"

ParseSpkiPin(pin) == pin \notin {"", "malformed"}

\* PinnedSpkiVerifier: verify_server_cert and verify_tls13_signature
\* (Fault: the handshake signature is asserted, not verified.)
AcceptsCertificateOnly(peer, pin) == peer.cert = pin

AcceptsPinned(peer, pin) ==
    /\ peer.cert # "unparsable"
    /\ peer.cert = pin
    /\ peer.holds = peer.cert

\* The name is given, or an IP address stands for it.
ResolveServerName(sni, addr) == sni = "name" \/ (sni = "" /\ addr = "ip")

BuildConnector(c) == ParseSpkiPin(c.pin) /\ ResolveServerName(c.sni, c.addr)

FromTlsConnect(outcome) ==
    CASE outcome = "HandshakeFailure" -> "FingerprintBlocked"
      [] outcome = "InvalidCertificate" -> "CertProblem"
      [] OTHER -> "Tls"

\* dial_utls_tcp: "" when the handshake completes.
DialUtls(c) ==
    LET outcome == Handshake(c.peer, AcceptsPinned(c.peer, c.pin)) IN
    IF ~BuildConnector(c) THEN "Tls"
    ELSE IF outcome = "ok" THEN "" ELSE FromTlsConnect(outcome)

\* The verifier, the pin and the connector of a chain relay.
AcceptsUpstream(peer, pin) ==
    /\ peer.cert # "unparsable"
    /\ peer.cert = pin
    /\ peer.holds = peer.cert

ParsePin(pin) == pin \notin {"", "malformed"}

BuildUpstreamConnector(c) == ParsePin(c.pin) /\ c.sni = "name"

DialUpstreamTls(c) ==
    IF BuildUpstreamConnector(c) /\ Handshake(c.peer, AcceptsUpstream(c.peer, c.pin)) = "ok"
    THEN "" ELSE "Tls"

-----------------------------------------------------------------------------
(* The client.                                                             *)

\* Bytes behind the signature are ignored; an empty parameter is an error too.
ParseCapability(b64) == IF b64.ok THEN DecodeCapability(b64.raw) ELSE NoCapability
ParseCapabilityV2(b64) == IF b64.ok THEN DecodeCapabilityV2(b64.raw) ELSE NoCapability
ParseVeilSk(hex) == hex # "malformed"

\* Nobody signs for the issuer: what it issued carries its signature, and a capability a
\* client is given carries one only if it was issued.
ASSUME IssuedAssumption ==
    /\ \A c \in Issued :
          \/ c.kind = "B2" /\ VerifyCapability(c, PublicKey(Issuer))
          \/ c.kind = "B1" /\ VerifyCapabilityV2(c, PublicKey(Issuer))
    /\ \A c \in Configs :
          LET v2 == ParseCapability(c.v2)
              v3 == ParseCapabilityV2(c.v3) IN
          /\ v2 = NoCapability \/ v2 \in Issued \/ ~VerifyCapability(v2, PublicKey(Issuer))
          /\ v3 = NoCapability \/ v3 \in Issued \/ ~VerifyCapabilityV2(v3, PublicKey(Issuer))

\* The stream is dropped, with the descriptors a ferry of the host owns.
CloseFds ==
    fds' = [f \in DOMAIN fds |-> IF cfg.fds[f] >= 0 THEN fds[f] + 1 ELSE fds[f]]

Finish(result) ==
    /\ cl' = [cl EXCEPT !.pc = "done", !.result = result]
    /\ IF cfg.kind = "host" THEN CloseFds ELSE UNCHANGED fds

\* TcpStream::connect within 5 s.  A chain relay parses its capability before.
TcpConnect ==
    /\ cl.pc = "tcp"
    /\ IF cfg.kind = "chain" /\ ParseCapabilityV2(cfg.v3) = NoCapability
       THEN Finish("Capability")
       ELSE \/ cl' = [cl EXCEPT !.pc = "tls"] /\ UNCHANGED fds
            \/ \E e \in {"Timeout", "ConnectionRefused", "Io"} :
                  Finish(IF cfg.kind = "chain" THEN "Io" ELSE e)
    /\ UNCHANGED <<cfg, now, auth, up, down, gate, got, provVars>>

\* The handshake.  The peer that completes it and holds the pinned key is the relay: its
\* gate starts.  A peer may also stay silent.
TlsConnect ==
    /\ cl.pc = "tls"
    /\ IF cfg.kind = "chain" THEN BuildUpstreamConnector(cfg) => cfg.peer.hello # "silent"
       ELSE BuildConnector(cfg) => cfg.peer.hello # "silent"
    /\ LET e == IF cfg.kind = "chain" THEN DialUpstreamTls(cfg) ELSE DialUtls(cfg) IN
       IF e # "" THEN Finish(e) /\ UNCHANGED gate
       ELSE /\ cl' = [cl EXCEPT !.pc = "auth"]
            /\ gate' = [gate EXCEPT !.pc = "exporter"]
            /\ UNCHANGED fds
    /\ UNCHANGED <<cfg, now, auth, up, down, got, provVars>>

\* TLS_AND_AUTH_TIMEOUT, or the dial_timeout of a chain relay.
\* (Fault: it covers the write of AUTH only; until 2026-10-22 it covered nothing.)
DialTimesOutInAuth ==
    /\ cl.pc = "auth" /\ cfg.kind # "host"
    /\ Finish(IF cfg.kind = "chain" THEN "Io" ELSE "Timeout")
    /\ up' = [up EXCEPT !.fin = TRUE]
    /\ UNCHANGED <<cfg, now, auth, down, gate, got, provVars>>

DialTimesOut ==
    /\ cl.pc \in {"tls", "auth"} /\ cfg.kind # "host"
    /\ Finish(IF cfg.kind = "chain" THEN "Io" ELSE "Timeout")
    /\ up' = [up EXCEPT !.fin = TRUE]
    /\ UNCHANGED <<cfg, now, auth, down, gate, got, provVars>>

\* derive_exporter fails.
ExporterFails ==
    /\ cl.pc = "auth" /\ cfg.kind # "host"
    /\ Finish("Tls")
    /\ up' = [up EXCEPT !.fin = TRUE]
    /\ UNCHANGED <<cfg, now, auth, down, gate, got, provVars>>

\* AUTH v3 is used when both of its parameters are given.
UsesV3(c) == c.v3 # Base64(<<>>) /\ c.sk # ""

EnsureValidNow(cap) == cap.not_before <= now.client /\ now.client <= cap.not_after

\* authenticate_over before it writes; "" when all is well.
AuthError(c) ==
    LET cap == IF UsesV3(c) THEN ParseCapabilityV2(c.v3) ELSE ParseCapability(c.v2) IN
    IF cap = NoCapability THEN "Handshake"
    ELSE IF ~EnsureValidNow(cap) THEN "CertProblem"
    ELSE IF UsesV3(c) /\ ~ParseVeilSk(c.sk) THEN "Handshake"
    ELSE ""

MadeAuth(exporter) ==
    IF cfg.kind = "chain" \/ UsesV3(cfg)
    THEN LET cap == ParseCapabilityV2(cfg.v3) IN
         [ver |-> 3, payload |-> EncodeAuthV3(AuthRecordV3(cap, cfg.sk, exporter)), cap |-> cap,
          by |-> cfg.sk, session |-> exporter, at |-> now.client]
    ELSE LET cap == ParseCapability(cfg.v2) IN
         [ver |-> 2, payload |-> EncodeAuthV2(AuthRecordV2(cap, exporter)), cap |-> cap,
          by |-> "", session |-> exporter, at |-> now.client]

\* authenticate_over, and its twin in dial_upstream_unbounded, which does not look at the
\* validity.  write_all may stop after any part; the connection is then dropped.
Authenticate ==
    /\ cl.pc = "auth"
    /\ LET e == IF cfg.kind = "chain" THEN "" ELSE AuthError(cfg)
           exporter == IF cfg.kind = "host" THEN cfg.exporter ELSE "this" IN
       IF e # ""
       THEN /\ Finish(e)
            /\ up' = [up EXCEPT !.fin = TRUE]
            /\ UNCHANGED auth
       ELSE /\ auth' = MadeAuth(exporter)
            /\ \/ /\ up' = [up EXCEPT !.sent = Frame("auth")]
                  /\ cl' = [cl EXCEPT !.pc = IF cfg.kind = "probe" THEN "send" ELSE "run"]
                  /\ UNCHANGED fds
               \/ \E n \in 0..AuthParts-1 :
                     /\ up' = [up EXCEPT !.sent = SubSeq(Frame("auth"), 1, n), !.fin = TRUE]
                     /\ Finish("Io")
    /\ UNCHANGED <<cfg, now, down, gate, got, provVars>>

\* probe_veil_front: the HTTP/2 preface in a DATA frame.
SendPreface ==
    /\ cl.pc = "send"
    /\ \/ /\ up' = [up EXCEPT !.sent = @ \o Frame("data")]
          /\ cl' = [cl EXCEPT !.pc = "read"]
          /\ UNCHANGED fds
       \/ /\ up' = [up EXCEPT !.fin = TRUE]
          /\ Finish("Io")
    /\ UNCHANGED <<cfg, now, auth, down, gate, got, provVars>>

\* probe_verdict over all that is buffered: "" when more is needed.
\* (Fault: one frame for each read; CHAFF is skipped and the frame behind it left in the
\* buffer, as before 2026-10-22.)
VerdictOnFirstFrame(rx) ==
    CASE Decode(rx) = "data" -> "Ok"
      [] Decode(rx) \in {"incomplete", "chaff"} -> ""
      [] OTHER -> "Handshake"

ProbeVerdict(rx) ==
    CASE Decode(DropChaff(rx)) = "data" -> "Ok"
      [] Decode(DropChaff(rx)) = "incomplete" -> ""
      [] OTHER -> "Handshake"

\* One round of the probe's read loop.
ProbeRead ==
    /\ cl.pc = "read"
    /\ \E n \in 1..Len(down.sent) - down.read :
          LET rx == cl.rx \o SubSeq(down.sent, down.read + 1, down.read + n)
              total == cl.total + n
              verdict == IF ProbeVerdict(rx) # "" THEN ProbeVerdict(rx)
                         ELSE IF total > ReadLimit THEN "Handshake" ELSE "" IN
          /\ down' = [down EXCEPT !.read = @ + n]
          /\ IF verdict = ""
             THEN cl' = [cl EXCEPT !.rx = DropChaff(rx), !.total = total] /\ UNCHANGED <<up, fds>>
             ELSE Finish(verdict) /\ up' = [up EXCEPT !.fin = TRUE]
    /\ UNCHANGED <<cfg, now, auth, gate, got, provVars>>

\* The relay closed, a read failed, or 7 s went by.
ProbeReadEnds ==
    /\ cl.pc = "read"
    /\ \/ down.fin /\ down.read = Len(down.sent) /\ Finish("Handshake")
       \/ Finish("Io")
       \/ Finish("Timeout")
    /\ up' = [up EXCEPT !.fin = TRUE]
    /\ UNCHANGED <<cfg, now, auth, down, gate, got, provVars>>

\* start: select! drops the probe when it is cancelled.
CancelProbe ==
    /\ cfg.kind = "probe" /\ cl.pc \notin {"done"}
    /\ Finish("Cancelled")
    /\ up' = [up EXCEPT !.fin = TRUE]
    /\ UNCHANGED <<cfg, now, auth, down, gate, got, provVars>>

\* run_ferry and forward_chain: DATA from the local side, perhaps after CHAFF, until they end.
FerrySends ==
    /\ cl.pc = "run"
    /\ Len(up.sent) = AuthParts
    /\ \E cover \in {<<>>, Frame("chaff")} : up' = [up EXCEPT !.sent = @ \o cover \o Frame("data")]
    /\ UNCHANGED <<cfg, now, cl, auth, fds, down, gate, got, provVars>>

FerryEnds ==
    /\ cl.pc = "run"
    /\ Finish("ended")
    /\ up' = [up EXCEPT !.fin = TRUE]
    /\ UNCHANGED <<cfg, now, auth, down, gate, got, provVars>>

-----------------------------------------------------------------------------
(* Those that do not dial.                                                 *)

\* veil_front_ferry_fd: a descriptor that is not negative is closed on every path.  The
\* exporter may be of the wrong length, a socket may refuse to be registered.
\* (Fault: a negative descriptor ends the call before the other is adopted.)
FerryFdEarlyReturn ==
    /\ cl.pc = "call"
    /\ \/ /\ \E f \in DOMAIN fds : fds[f] < 0
          /\ cl' = [cl EXCEPT !.pc = "done", !.ret = -1]
          /\ UNCHANGED <<fds, gate>>
       \/ /\ \A f \in DOMAIN fds : fds[f] >= 0
          /\ cl' = [cl EXCEPT !.pc = "auth", !.ret = 0]
          /\ gate' = [gate EXCEPT !.pc = "exporter"]
          /\ UNCHANGED fds
    /\ UNCHANGED <<cfg, now, auth, up, down, got, provVars>>

FerryFd ==
    /\ cl.pc = "call"
    /\ \/ /\ (\E f \in DOMAIN fds : fds[f] < 0) \/ cfg.exporter = "malformed" \/ cfg.register = "fails"
          /\ cl' = [cl EXCEPT !.pc = "done", !.ret = -1]
          /\ CloseFds
          /\ UNCHANGED gate
       \/ /\ \A f \in DOMAIN fds : fds[f] >= 0
          /\ cfg.exporter # "malformed" /\ cfg.register # "fails"
          /\ cl' = [cl EXCEPT !.pc = "auth", !.ret = 0]
          /\ gate' = [gate EXCEPT !.pc = "exporter"]
          /\ UNCHANGED fds
    /\ UNCHANGED <<cfg, now, auth, up, down, got, provVars>>

\* Another program connects and sends a request, a frame that is not AUTH, or an AUTH frame
\* whose payload another version of the protocol wrote.
Visit ==
    /\ cl.pc = "visit"
    /\ cl' = [cl EXCEPT !.pc = "visiting"]
    /\ gate' = [gate EXCEPT !.pc = "exporter"]
    /\ up' = [up EXCEPT !.sent = IF cfg.first = "" THEN <<>> ELSE Frame(cfg.first)]
    /\ auth' = IF cfg.first # "auth" THEN auth
               ELSE LET made == MadeAuth("this") IN [made EXCEPT !.payload = Append(@, "more")]
    /\ UNCHANGED <<cfg, now, fds, down, got, provVars>>

VisitEnds ==
    /\ cl.pc = "visiting"
    /\ cl' = [cl EXCEPT !.pc = "done"]
    /\ up' = [up EXCEPT !.fin = TRUE]
    /\ UNCHANGED <<cfg, now, auth, fds, down, gate, got, provVars>>

\* A chain relay that is running has admitted a tunnel and dials for it.
ChainDial ==
    /\ cfg.kind = "chain"
    /\ cl.pc = "off" /\ relayRun.is = "chain"
    /\ cl' = [cl EXCEPT !.pc = "tcp"]
    /\ cfg' = [cfg EXCEPT !.sk = relayRun.seed,
                          !.v3 = IF cfg.capIntact THEN Base64(EncodeCapabilityV2(capFile)) ELSE @]
    /\ UNCHANGED <<now, auth, fds, up, down, gate, got, provVars>>

\* The application opens a link its issuer signed, and dials with what it says.
OpenLink ==
    /\ cfg.linked
    /\ cl.pc = "off" /\ link # NoLink
    /\ link.signature = Signature(Issuer, link.fields)
    /\ cl' = [cl EXCEPT !.pc = "tcp"]
    /\ cfg' = [cfg EXCEPT !.sni = link.fields.sni, !.pin = link.fields.spki,
                          !.v2 = link.fields.capability]
    /\ UNCHANGED <<now, auth, fds, up, down, gate, got, provVars>>

-----------------------------------------------------------------------------
(* The relay.                                                              *)

CloseConnection(g) ==
    /\ gate' = [g EXCEPT !.pc = "closed"]
    /\ down' = [down EXCEPT !.fin = TRUE]

\* gate_with_exporter: no exporter, no gate: Site without bytes, which dispatch closes.
GateExporter ==
    /\ gate.pc = "exporter"
    /\ \/ gate' = [gate EXCEPT !.pc = "first"] /\ UNCHANGED down
       \/ CloseConnection([gate EXCEPT !.out = "site"])
    /\ UNCHANGED <<cfg, now, cl, auth, fds, up, got, provVars>>

\* The arms of try_decode_auth.  Both roles are accepted.
TryAuthV2(scope) ==
    LET r == DecodeAuthV2(auth.payload) IN
    IF r # NoRecord /\ VerifyAuthV2(r, PublicKey(Issuer), scope, "this", now.relay)
    THEN "tunnel" ELSE "site"

TryAuthV3(scope) ==
    LET r == DecodeAuthV3(auth.payload) IN
    IF /\ r # NoRecord
       /\ r.capability.role \in {RoleUser, RoleRelay}
       /\ VerifyAuthV3(r, PublicKey(Issuer), scope, r.capability.role, "this", now.relay)
    THEN "tunnel" ELSE "site"

\* try_decode_auth: "" when the frame is incomplete.
TryDecodeAuth(buf) ==
    CASE Decode(buf) = "incomplete" -> ""
      [] Decode(buf) = "auth" /\ auth.ver = 2 -> TryAuthV2(cfg.scope)
      [] Decode(buf) = "auth" /\ auth.ver = 3 -> TryAuthV3(cfg.scope)
      [] OTHER -> "site"

\* GateDecision::consume, and the arms of dispatch_gate_result.
\* (Fault: the bytes behind AUTH in the same read are dropped.)
ConsumeNoLeftover(buf, decision) ==
    gate' = [gate EXCEPT !.pc = IF decision = "tunnel" THEN "dial" ELSE "site",
                         !.out = decision, !.at = now.relay, !.seen = Len(buf),
                         !.buf = IF decision = "tunnel" THEN <<>> ELSE buf]

Consume(buf, decision) ==
    gate' = [gate EXCEPT !.pc = IF decision = "tunnel" THEN "dial" ELSE "site",
                         !.out = decision, !.at = now.relay, !.seen = Len(buf),
                         !.buf = IF decision = "tunnel" THEN SubSeq(buf, AuthParts + 1, Len(buf))
                                 ELSE buf]

\* gate_stream: the first read, and one more when it ended inside a frame.
GateRead ==
    /\ gate.pc \in {"first", "second"}
    /\ \E n \in 1..Len(up.sent) - up.read :
          LET buf == gate.buf \o SubSeq(up.sent, up.read + 1, up.read + n)
              decision == TryDecodeAuth(buf) IN
          /\ up' = [up EXCEPT !.read = @ + n]
          /\ IF decision # "" THEN Consume(buf, decision)
             ELSE IF gate.pc = "first" THEN gate' = [gate EXCEPT !.pc = "second", !.buf = buf]
             ELSE Consume(buf, "site")
    /\ UNCHANGED <<cfg, now, cl, auth, fds, down, got, provVars>>

\* The first read times out, fails or is empty: nothing to forward.  The second: what the
\* first one read goes to the cover site.
GateReadEnds ==
    /\ \/ gate.pc = "first" /\ CloseConnection([gate EXCEPT !.out = "site"])
       \/ gate.pc = "second" /\ Consume(gate.buf, "site") /\ UNCHANGED down
    /\ UNCHANGED <<cfg, now, cl, auth, fds, up, got, provVars>>

\* What the tunnel's up pump does with its buffer: DATA goes to the backend.
PumpUp(buf) ==
    LET rest == DropChaff(buf) IN
    IF Decode(rest) = "data"
    THEN /\ got' = got \o SubSeq(rest, 1, DataParts)
         /\ gate' = [gate EXCEPT !.pc = "tunnel", !.buf = SubSeq(rest, DataParts + 1, Len(rest))]
    ELSE /\ gate' = [gate EXCEPT !.pc = "tunnel", !.buf = rest]
         /\ UNCHANGED got

\* open_backend within dial_timeout, then forward_tunnel, which writes a CHAFF frame to the
\* client and pumps the leftover.
OpenBackend ==
    /\ gate.pc = "dial"
    /\ \/ PumpUp(gate.buf) /\ down' = [down EXCEPT !.sent = @ \o Frame("chaff")]
       \/ CloseConnection(gate) /\ UNCHANGED got
    /\ UNCHANGED <<cfg, now, cl, auth, fds, up, provVars>>

\* forward_to_site: connect, then the bytes already read.
ForwardToSite ==
    /\ gate.pc = "site"
    /\ \/ /\ got' = gate.buf
          /\ gate' = [gate EXCEPT !.pc = "forward", !.buf = <<>>]
          /\ UNCHANGED down
       \/ CloseConnection(gate) /\ UNCHANGED got
    /\ UNCHANGED <<cfg, now, cl, auth, fds, up, provVars>>

\* The rest of the stream: frames to the backend, bytes to the cover site.
RelayPump ==
    /\ gate.pc \in {"tunnel", "forward"}
    /\ \E n \in 1..Len(up.sent) - up.read :
          LET read == SubSeq(up.sent, up.read + 1, up.read + n) IN
          /\ up' = [up EXCEPT !.read = @ + n]
          /\ IF gate.pc = "tunnel" THEN PumpUp(gate.buf \o read)
             ELSE got' = got \o read /\ UNCHANGED gate
    /\ UNCHANGED <<cfg, now, cl, auth, fds, down, provVars>>

\* CHAFF of a tunnel that is idle.
RelayChaff ==
    /\ gate.pc = "tunnel"
    /\ Cardinality({i \in DOMAIN down.sent : down.sent[i].frame = "chaff"}) < MaxChaff
    /\ down' = [down EXCEPT !.sent = @ \o Frame("chaff")]
    /\ UNCHANGED <<cfg, now, cl, auth, fds, up, gate, got, provVars>>

\* The backend answers the preface with its SETTINGS, the cover site a request.
Reply ==
    LET answer == IF gate.pc = "tunnel" THEN "data" ELSE "http" IN
    /\ gate.pc \in {"tunnel", "forward"}
    /\ got # <<>>
    /\ \A i \in DOMAIN down.sent : down.sent[i].frame = "chaff"
    /\ down' = [down EXCEPT !.sent = @ \o Frame(answer)]
    /\ UNCHANGED <<cfg, now, cl, auth, fds, up, gate, got, provVars>>

\* The backend, the cover site or the client closes.
RelayEnds ==
    /\ gate.pc \in {"tunnel", "forward"}
    /\ CloseConnection(gate)
    /\ UNCHANGED <<cfg, now, cl, auth, fds, up, got, provVars>>

-----------------------------------------------------------------------------
\* A chain relay and a linked client are provisioned before they dial.
Provisioning ==
    /\ cl.pc = "off"
    /\ \/ cfg.kind = "chain" /\ RelayProvision
       \/ cfg.linked /\ LinkProvision
    /\ UNCHANGED sessionVars

ClientStep ==
    \/ TcpConnect
    \/ TlsConnect
    \/ DialTimesOut
    \/ ExporterFails
    \/ Authenticate
    \/ SendPreface
    \/ ProbeRead
    \/ ProbeReadEnds

GateStep == GateExporter \/ GateRead \/ GateReadEnds \/ OpenBackend

Next ==
    \/ ClientStep
    \/ GateStep
    \/ CancelProbe
    \/ FerrySends \/ FerryEnds
    \/ FerryFd
    \/ Visit \/ VisitEnds
    \/ ChainDial
    \/ OpenLink
    \/ ForwardToSite
    \/ RelayPump \/ RelayChaff \/ Reply \/ RelayEnds
    \/ Provisioning

\* Every wait of the client and of the gate has a timer, so each of them goes on.  Nothing is
\* assumed of the peer, of the backend's answer, or of the connection to the cover site,
\* which has no limit.
Spec == Init /\ [][Next]_vars /\ WF_vars(ClientStep) /\ WF_vars(GateStep)

-----------------------------------------------------------------------------
(* Properties.                                                             *)

\* What entitles a connection to a tunnel, said without the code: the issuer issued this very
\* capability, for this relay and this time, and its holder made the record for this session.
ChainCapability == IF ChainIssuer = Issuer THEN {capFile} ELSE {}

LinkCapability ==
    IF link # NoLink /\ link.signature.by = PublicKey(Issuer)
    THEN {DecodeCapability(link.fields.capability.raw)} ELSE {}

Entitled(t) ==
    LET c == auth.cap IN
    /\ c \in Issued \cup ChainCapability \cup LinkCapability
    /\ Len(auth.payload) = IF auth.ver = 2 THEN 8 ELSE 9
    /\ c.not_before <= t /\ t <= c.not_after
    /\ c.suite_id = SuiteClassicV1
    /\ "" \in {c.scope, cfg.scope} \/ c.scope = cfg.scope
    /\ auth.session = "this"
    /\ auth.ver = 3 => /\ c.veil_pk = PublicKey(auth.by)
                       /\ c.role \in {RoleUser, RoleRelay}

\* The gate admits a connection to the tunnel only when its AUTH record entitles it to one,
\* and always then once it has read the whole frame within its two reads, wherever the first
\* read ended and whatever the client's clock says.  An entitled record that takes a third
\* read, or whose second read times out, goes to the cover site.
\* (gate_stream, try_decode_auth, with AuthRecordV2::verify and AuthRecordV3::verify.)
AdmissionIsExact ==
    /\ gate.out = "tunnel" => /\ cfg.first # "data" /\ cfg.first # "http"
                              /\ Entitled(gate.at)
    /\ gate.out = "site" /\ gate.seen >= AuthParts /\ up.sent[1].frame = "auth" =>
          ~Entitled(gate.at)

\* No byte the gate read is lost or doubled: the cover site gets the stream from its first
\* byte, the backend all the DATA behind the AUTH frame, wherever a read ended.
\* (gate_stream, consume, dispatch_gate_result, forward_to_site, forward_tunnel.)
BytesAreConserved ==
    LET read == SubSeq(up.sent, 1, up.read)
        behind == SubSeq(up.sent, AuthParts + 1, up.read) IN
    /\ gate.pc \in {"first", "second", "site"} => gate.buf = read
    /\ gate.pc = "forward" => got = read
    /\ gate.pc = "dial" => gate.buf = behind
    /\ gate.pc = "tunnel" => got \o gate.buf = NotChaff(behind)

\* A probe reports Ok only when its preface went through a tunnel to the backend and came
\* back; it never takes the relay's cover traffic or the cover site for an answer.  A
\* CertProblem is reported before a byte was sent, and a capability that is out of date by
\* the client's clock is one: the relay never sees it.  Nor does the probe wait for the relay
\* with an answer in its buffer: what it has kept is the start of a frame at most.
\* (probe_veil_front, probe_verdict, ensure_valid_now.)
VerdictIsTrue ==
    cfg.kind = "probe" =>
        /\ cl.result = "Ok" => gate.out = "tunnel" /\ got = Frame("data")
        /\ cl.result = "CertProblem" => up.sent = <<>>
        /\ up.sent # <<>> => auth.cap.not_before <= auth.at /\ auth.at <= auth.cap.not_after
        /\ cl.pc = "read" => Decode(DropChaff(cl.rx)) = "incomplete"

\* A client that dials sends AUTH only to the holder of the key it pins; neither a
\* certificate copied from the relay nor a rotated key gets a credential.
\* (PinnedSpkiVerifier, SpkiPinVerifier.)
PinnedPeerOnly ==
    cfg.kind \in {"probe", "ferry", "chain"} /\ up.sent # <<>> =>
        cfg.peer.holds = cfg.pin

\* veil_front_ferry_fd owns the descriptors from the call on: each valid one is closed
\* exactly once, when the call has failed or the ferry is over, and not before.
FdsAreClosedOnce ==
    cfg.kind = "host" =>
        \A f \in DOMAIN fds : cfg.fds[f] >= 0 => fds[f] = IF cl.pc = "done" THEN 1 ELSE 0

\* Every dial ends, with a tunnel or with an error, and every connection the relay has
\* accepted is routed, although the other side may stay silent at any point.
\* (The 5 s, 7 s, TLS_AND_AUTH_TIMEOUT, first-byte and dial timeouts.)
EveryDialEnds ==
    /\ cl.pc \in {"tcp", "tls", "send", "read"} ~> cl.pc \in {"auth", "run", "done"}
    /\ cl.pc = "auth" /\ cfg.kind # "host" ~> cl.pc \in {"run", "done", "send"}
    /\ gate.pc \in {"exporter", "first", "second", "dial"} ~>
           gate.pc \in {"tunnel", "site", "forward", "closed"}

=============================================================================
