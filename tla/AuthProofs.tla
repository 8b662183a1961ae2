----------------------------- MODULE AuthProofs -----------------------------
(***************************************************************************)
(* Admission to the tunnel is exact, for every set of capabilities and     *)
(* configurations.  What the gate decides on is the record the client made *)
(* of its capability; the invariant follows the capability from the issuer *)
(* to the client and into the record, and the decision from the read that  *)
(* brought it about.                                                       *)
(***************************************************************************)
EXTENDS EstablishProofs

\* The capability of a chain relay, and the one in a link, carry their issuer's signature.
CapFileOK ==
    capFile # NoCapability =>
        /\ capFile = DecodeCapabilityV2(EncodeCapabilityV2(capFile))
        /\ VerifyCapabilityV2(capFile, PublicKey(ChainIssuer))

LinkOK ==
    link # NoLink =>
        VerifyCapability(DecodeCapability(link.fields.capability.raw), link.signature.by)

\* A capability the client was given and that verifies is one of the issuer's.
HeldV2(cap) ==
    cap # NoCapability /\ VerifyCapability(cap, PublicKey(Issuer)) =>
        cap \in Issued \cup LinkCapability
HeldV3(cap) ==
    cap # NoCapability /\ VerifyCapabilityV2(cap, PublicKey(Issuer)) =>
        cap \in Issued \cup ChainCapability

HeldOK == HeldV2(ParseCapability(cfg.v2)) /\ HeldV3(ParseCapabilityV2(cfg.v3))

\* The whole capabilities, field by field.
WholeB2(c) ==
    c = [kind |-> "B2", ticket_id |-> c.ticket_id, auth_key |-> c.auth_key,
         not_before |-> c.not_before, not_after |-> c.not_after, suite_id |-> c.suite_id,
         scope |-> c.scope, sig |-> c.sig]
WholeB1(c) ==
    c = [kind |-> "B1", ticket_id |-> c.ticket_id, veil_pk |-> c.veil_pk, role |-> c.role,
         not_before |-> c.not_before, not_after |-> c.not_after, suite_id |-> c.suite_id,
         scope |-> c.scope, sig |-> c.sig]

\* decode gives a whole capability or none.
LEMMA DecodeWhole ==
    ASSUME NEW raw, NEW c, c = DecodeCapability(raw)
    PROVE  c = NoCapability \/ WholeB2(c)
BY Zenon DEF DecodeCapability, WholeB2

LEMMA DecodeV2Whole ==
    ASSUME NEW raw, NEW c, c = DecodeCapabilityV2(raw)
    PROVE  c = NoCapability \/ WholeB1(c)
BY Zenon DEF DecodeCapabilityV2, WholeB1

\* What an appended sequence holds.
Appended(u, s, x) ==
    /\ Len(u) = Len(s) + 1 /\ u[Len(s) + 1] = x
    /\ \A i \in 1..Len(s) : u[i] = s[i]

LEMMA AppendReads ==
    ASSUME NEW S, NEW s \in Seq(S), NEW x \in S
    PROVE  Appended(Append(s, x), s, x) /\ Append(s, x) \in Seq(S)
BY DEF Appended

\* A sequence of seven, or of eight, with one more behind it.
LEMMA AppendSeven ==
    ASSUME NEW a1, NEW a2, NEW a3, NEW a4, NEW a5, NEW a6, NEW a7, NEW x,
           NEW s, s = Append(<<a1, a2, a3, a4, a5, a6, a7>>, x)
    PROVE  /\ Len(s) = 8 /\ s[8] = x
           /\ s[1] = a1 /\ s[2] = a2 /\ s[3] = a3 /\ s[4] = a4
           /\ s[5] = a5 /\ s[6] = a6 /\ s[7] = a7
<1>0. PICK S : S = {a1, a2, a3, a4, a5, a6, a7, x} /\ x \in S
  <2>1. x \in {a1, a2, a3, a4, a5, a6, a7, x}
    BY Zenon
  <2> QED BY <2>1, Zenon
<1>1. PICK t : t = <<a1, a2, a3, a4, a5, a6, a7>>
  BY Zenon
<1>2. /\ t \in Seq(S) /\ Len(t) = 7
      /\ t[1] = a1 /\ t[2] = a2 /\ t[3] = a3 /\ t[4] = a4
      /\ t[5] = a5 /\ t[6] = a6 /\ t[7] = a7
  BY <1>0, <1>1
<1>3. Appended(s, t, x)
  BY <1>0, <1>1, <1>2, AppendReads, Zenon
<1> QED BY <1>2, <1>3 DEF Appended

LEMMA AppendEight ==
    ASSUME NEW a1, NEW a2, NEW a3, NEW a4, NEW a5, NEW a6, NEW a7, NEW a8, NEW x,
           NEW s, s = Append(<<a1, a2, a3, a4, a5, a6, a7, a8>>, x)
    PROVE  /\ Len(s) = 9 /\ s[9] = x
           /\ s[1] = a1 /\ s[2] = a2 /\ s[3] = a3 /\ s[4] = a4
           /\ s[5] = a5 /\ s[6] = a6 /\ s[7] = a7 /\ s[8] = a8
<1>0. PICK S : S = {a1, a2, a3, a4, a5, a6, a7, a8, x} /\ x \in S
  <2>1. x \in {a1, a2, a3, a4, a5, a6, a7, a8, x}
    BY Zenon
  <2> QED BY <2>1, Zenon
<1>1. PICK t : t = <<a1, a2, a3, a4, a5, a6, a7, a8>>
  BY Zenon
<1>2. /\ t \in Seq(S) /\ Len(t) = 8
      /\ t[1] = a1 /\ t[2] = a2 /\ t[3] = a3 /\ t[4] = a4
      /\ t[5] = a5 /\ t[6] = a6 /\ t[7] = a7 /\ t[8] = a8
  BY <1>0, <1>1
<1>3. Appended(s, t, x)
  BY <1>0, <1>1, <1>2, AppendReads, Zenon
<1> QED BY <1>2, <1>3 DEF Appended

\* What the relay decodes is the record the client made (encode_payload, decode_payload).
LEMMA AuthV2RoundTrips ==
    ASSUME NEW c, WholeB2(c), NEW e, NEW raw, raw = EncodeAuthV2(AuthRecordV2(c, e))
    PROVE  /\ Len(raw) = 8
           /\ DecodeAuthV2(raw) = [capability |-> c, auth |-> AuthCode(c, e)]
<1>1. PICK m : m = AuthCode(c, e)
  BY Zenon
<1>2. raw = Append(<<c.ticket_id, c.auth_key, c.not_before, c.not_after, c.suite_id, c.scope,
                     c.sig>>, m)
  BY <1>1 DEF EncodeAuthV2, AuthRecordV2, EncodeCapability
<1>3. /\ Len(raw) = 8 /\ raw[8] = m
      /\ raw[1] = c.ticket_id /\ raw[2] = c.auth_key /\ raw[3] = c.not_before
      /\ raw[4] = c.not_after
      /\ raw[5] = c.suite_id /\ raw[6] = c.scope /\ raw[7] = c.sig
  BY <1>2, AppendSeven
<1>4. DecodeCapability(raw) = c
  BY <1>3 DEF DecodeCapability, WholeB2
<1> QED BY <1>1, <1>3, <1>4 DEF DecodeAuthV2

LEMMA AuthV3RoundTrips ==
    ASSUME NEW c, WholeB1(c), NEW sk, NEW e, NEW raw, raw = EncodeAuthV3(AuthRecordV3(c, sk, e))
    PROVE  /\ Len(raw) = 9
           /\ DecodeAuthV3(raw)
                = [capability |-> c, sig |-> Signature(sk, AuthV3Message(c, e))]
<1>1. PICK m : m = Signature(sk, AuthV3Message(c, e))
  BY Zenon
<1>2. raw = Append(<<c.ticket_id, c.veil_pk, c.role, c.not_before, c.not_after, c.suite_id,
                     c.scope, c.sig>>, m)
  BY <1>1, Zenon DEF EncodeAuthV3, AuthRecordV3, EncodeCapabilityV2
<1>3. /\ Len(raw) = 9 /\ raw[9] = m
      /\ raw[1] = c.ticket_id /\ raw[2] = c.veil_pk /\ raw[3] = c.role
      /\ raw[4] = c.not_before
      /\ raw[5] = c.not_after /\ raw[6] = c.suite_id /\ raw[7] = c.scope /\ raw[8] = c.sig
  BY <1>2, AppendEight
<1>4. DecodeCapabilityV2(raw) = c
  BY <1>3 DEF DecodeCapabilityV2, WholeB1
<1> QED BY <1>1, <1>3, <1>4, Zenon DEF DecodeAuthV3

\* How the client made its record: from the capability of its parameters, or, as a visitor,
\* with a field more.
Made ==
    \/ /\ auth.ver = 2 /\ auth.cap = ParseCapability(cfg.v2) /\ auth.cap # NoCapability
       /\ auth.payload = EncodeAuthV2(AuthRecordV2(auth.cap, auth.session))
    \/ /\ auth.ver = 3 /\ auth.cap = ParseCapabilityV2(cfg.v3) /\ auth.cap # NoCapability
       /\ auth.payload = EncodeAuthV3(AuthRecordV3(auth.cap, auth.by, auth.session))
    \/ auth.ver = 2 /\ Len(auth.payload) = 9
    \/ auth.ver = 3 /\ Len(auth.payload) = 10

\* A bearer capability verifies exactly when the issuer issued it, and so does a bound one.
LEMMA BearerIsGenuine ==
    ASSUME CapFileOK, LinkOK, NEW c, WholeB2(c), HeldV2(c)
    PROVE  VerifyCapability(c, PublicKey(Issuer))
              <=> c \in Issued \cup ChainCapability \cup LinkCapability
<1>0. c.kind = "B2" /\ c # NoCapability
  BY DEF WholeB2, NoCapability
<1>1. VerifyCapability(c, PublicKey(Issuer)) => c \in Issued \cup LinkCapability
  BY <1>0, Zenon DEF HeldV2
<1>2. c \in Issued => VerifyCapability(c, PublicKey(Issuer))
  BY <1>0, IssuedAssumption, Zenon
<1>3. c \notin ChainCapability
  <2>1. capFile # NoCapability => capFile.kind = "B1"
    BY DecodeV2Whole DEF CapFileOK, WholeB1
  <2> QED BY <1>0, <2>1, Zenon DEF ChainCapability
<1>4. c \in LinkCapability => VerifyCapability(c, PublicKey(Issuer))
  BY Zenon DEF LinkCapability, LinkOK
<1> QED BY <1>1, <1>2, <1>3, <1>4, Zenon

LEMMA BoundIsGenuine ==
    ASSUME CapFileOK, NEW c, WholeB1(c), HeldV3(c)
    PROVE  VerifyCapabilityV2(c, PublicKey(Issuer))
              <=> c \in Issued \cup ChainCapability \cup LinkCapability
<1>0. c.kind = "B1" /\ c # NoCapability
  BY DEF WholeB1, NoCapability
<1>1. VerifyCapabilityV2(c, PublicKey(Issuer)) => c \in Issued \cup ChainCapability
  BY <1>0 DEF HeldV3
<1>2. c \in Issued => VerifyCapabilityV2(c, PublicKey(Issuer))
  BY <1>0, IssuedAssumption
<1>3. c \notin LinkCapability
  <2>1. PICK d : d = DecodeCapability(link.fields.capability.raw)
    OBVIOUS
  <2>2. d.kind # "B1"
    BY <2>1, DecodeWhole DEF NoCapability, WholeB2
  <2> QED BY <1>0, <2>1, <2>2 DEF LinkCapability
<1>4. c \in ChainCapability => VerifyCapabilityV2(c, PublicKey(Issuer))
  BY <1>0, Zenon DEF ChainCapability, CapFileOK
<1> QED BY <1>1, <1>2, <1>3, <1>4

\* verify of an AUTH record made over c for session e, said on the fields.
SaysV2(r, c, e, scope, t) ==
    VerifyAuthV2(r, PublicKey(Issuer), scope, "this", t)
       <=> /\ c.not_before <= t /\ t <= c.not_after
           /\ c.suite_id = SuiteClassicV1
           /\ "" \in {c.scope, scope} \/ c.scope = scope
           /\ VerifyCapability(c, PublicKey(Issuer))
           /\ e = "this"

SaysV3(r, c, sk, e, scope, t) ==
    VerifyAuthV3(r, PublicKey(Issuer), scope, r.capability.role, "this", t)
       <=> /\ c.not_before <= t /\ t <= c.not_after
           /\ c.suite_id = SuiteClassicV1
           /\ "" \in {c.scope, scope} \/ c.scope = scope
           /\ VerifyCapabilityV2(c, PublicKey(Issuer))
           /\ e = "this" /\ c.veil_pk = PublicKey(sk)

LEMMA VerifyV2Says ==
    ASSUME NEW c, NEW e, NEW r, r = [capability |-> c, auth |-> AuthCode(c, e)],
           NEW scope, NEW t
    PROVE  SaysV2(r, c, e, scope, t)
<1>1. AuthCode(c, e) = AuthCode(c, "this") <=> e = "this"
  BY Zenon DEF AuthCode, Mac
<1>2. TicketIsValidAt(c, t) <=> c.not_before <= t /\ t <= c.not_after
  BY DEF TicketIsValidAt
<1>3. ScopeMatches(c.scope, scope) <=> "" \in {c.scope, scope} \/ c.scope = scope
  BY Zenon DEF ScopeMatches
<1>4. r.capability = c /\ r.auth = AuthCode(c, e)
  BY Zenon
<1> QED BY <1>1, <1>2, <1>3, <1>4, Zenon DEF SaysV2, VerifyAuthV2

LEMMA VerifyV3Says ==
    ASSUME NEW c, NEW sk, NEW e, NEW r, NEW scope, NEW t,
           r = [capability |-> c, sig |-> Signature(sk, AuthV3Message(c, e))]
    PROVE  SaysV3(r, c, sk, e, scope, t)
<1>1. Signature(sk, AuthV3Message(c, e)) = [by |-> c.veil_pk, over |-> AuthV3Message(c, "this")]
         <=> e = "this" /\ c.veil_pk = PublicKey(sk)
  BY Zenon DEF Signature, AuthV3Message
<1>2. CapV2IsValidAt(c, t) <=> c.not_before <= t /\ t <= c.not_after
  BY DEF CapV2IsValidAt
<1>3. ScopeMatches(c.scope, scope) <=> "" \in {c.scope, scope} \/ c.scope = scope
  BY Zenon DEF ScopeMatches
<1>4. r.capability = c /\ r.sig = Signature(sk, AuthV3Message(c, e))
  BY Zenon
<1> QED BY <1>1, <1>2, <1>3, <1>4, Zenon DEF SaysV3, VerifyAuthV3

\* What the gate makes of a complete AUTH frame: a tunnel exactly for who is entitled to one.
LEMMA DecisionIsExact ==
    ASSUME CapFileOK, LinkOK, HeldOK, Made
    PROVE  /\ auth.ver = 2 =>
                 TryAuthV2(cfg.scope) = IF Entitled(now.relay) THEN "tunnel" ELSE "site"
           /\ auth.ver = 3 =>
                 TryAuthV3(cfg.scope) = IF Entitled(now.relay) THEN "tunnel" ELSE "site"
<1>0. PICK c, e, sk, p, scope, t : /\ c = auth.cap /\ e = auth.session /\ sk = auth.by
                                   /\ p = auth.payload /\ scope = cfg.scope /\ t = now.relay
  BY Zenon
<1>1. CASE /\ auth.ver = 2 /\ c = ParseCapability(cfg.v2) /\ c # NoCapability
           /\ p = EncodeAuthV2(AuthRecordV2(c, e))
  <2>1. WholeB2(c) /\ HeldV2(c)
    <3>1. c = DecodeCapability(cfg.v2.raw)
      BY <1>1 DEF ParseCapability
    <3>2. WholeB2(c)
      BY <1>1, <3>1, DecodeWhole, Zenon
    <3> QED BY <1>1, <3>2, Zenon DEF HeldOK
  <2>2. PICK r : r = [capability |-> c, auth |-> AuthCode(c, e)]
    BY Zenon
  <2>3. Len(p) = 8 /\ DecodeAuthV2(p) = r /\ r # NoRecord
    <3>1. Len(p) = 8 /\ DecodeAuthV2(p) = r
      BY <1>1, <2>1, <2>2, AuthV2RoundTrips, Zenon
    <3>2. r # NoRecord
      BY <2>2, Zenon DEF NoRecord
    <3> QED BY <3>1, <3>2
  <2>4. VerifyCapability(c, PublicKey(Issuer))
           <=> c \in Issued \cup ChainCapability \cup LinkCapability
    BY <2>1, BearerIsGenuine, Zenon
  <2>5. VerifyAuthV2(r, PublicKey(Issuer), scope, "this", t) <=> Entitled(t)
    <3>1. SaysV2(r, c, e, scope, t)
      BY <2>2, VerifyV2Says, Zenon
    <3>2. auth.ver # 3
      BY <1>1
    <3>3. Len(p) = IF auth.ver = 2 THEN 8 ELSE 9
      BY <1>1, <2>3, Zenon
    <3> QED BY <1>0, <2>4, <3>1, <3>2, <3>3, Zenon DEF Entitled, SaysV2
  <2>6. TryAuthV2(scope) = IF Entitled(t) THEN "tunnel" ELSE "site"
    BY <1>0, <2>3, <2>5, Zenon DEF TryAuthV2
  <2> QED BY <1>0, <1>1, <2>6
<1>2. CASE /\ auth.ver = 3 /\ c = ParseCapabilityV2(cfg.v3) /\ c # NoCapability
           /\ p = EncodeAuthV3(AuthRecordV3(c, sk, e))
  <2>1. WholeB1(c) /\ HeldV3(c)
    <3>1. c = DecodeCapabilityV2(cfg.v3.raw)
      BY <1>2, Zenon DEF ParseCapabilityV2
    <3>2. WholeB1(c)
      BY <1>2, <3>1, DecodeV2Whole, Zenon
    <3> QED BY <1>2, <3>2 DEF HeldOK
  <2>2. PICK r : r = [capability |-> c, sig |-> Signature(sk, AuthV3Message(c, e))]
    BY Zenon
  <2>3. Len(p) = 9 /\ DecodeAuthV3(p) = r /\ r # NoRecord /\ r.capability.role = c.role
    <3>1. Len(p) = 9 /\ DecodeAuthV3(p) = r
      BY <1>2, <2>1, <2>2, AuthV3RoundTrips, Zenon
    <3>2. r # NoRecord /\ r.capability.role = c.role
      BY <2>2 DEF NoRecord
    <3> QED BY <3>1, <3>2
  <2>4. VerifyCapabilityV2(c, PublicKey(Issuer))
           <=> c \in Issued \cup ChainCapability \cup LinkCapability
    BY <2>1, BoundIsGenuine, Zenon
  <2>5. /\ c.role \in {RoleUser, RoleRelay}
        /\ VerifyAuthV3(r, PublicKey(Issuer), scope, r.capability.role, "this", t)
        <=> Entitled(t)
    <3>1. SaysV3(r, c, sk, e, scope, t)
      BY <2>2, VerifyV3Says, Zenon
    <3>2. auth.ver = 3
      BY <1>2
    <3>3. Len(p) = IF auth.ver = 2 THEN 8 ELSE 9
      BY <1>2, <2>3, Zenon
    <3> QED BY <1>0, <2>4, <3>1, <3>2, <3>3, Zenon DEF Entitled, SaysV3
  <2>6. TryAuthV3(scope) = IF Entitled(t) THEN "tunnel" ELSE "site"
    BY <1>0, <2>3, <2>5, Zenon DEF TryAuthV3
  <2> QED BY <1>0, <1>2, <2>6
<1>3. CASE auth.ver = 2 /\ Len(p) = 9
  <2>1. TryAuthV2(scope) = "site"
    BY <1>0, <1>3 DEF TryAuthV2, DecodeAuthV2
  <2>2. ~Entitled(t)
    BY <1>0, <1>3 DEF Entitled
  <2> QED BY <1>0, <1>3, <2>1, <2>2
<1>4. CASE auth.ver = 3 /\ Len(p) = 10
  <2>1. TryAuthV3(scope) = "site"
    BY <1>0, <1>4 DEF TryAuthV3, DecodeAuthV3
  <2>2. ~Entitled(t)
    BY <1>0, <1>4 DEF Entitled
  <2> QED BY <1>0, <1>4, <2>1, <2>2
<1> QED BY <1>0, <1>1, <1>2, <1>3, <1>4, Zenon DEF Made

-----------------------------------------------------------------------------
\* A chain relay dials with a capability it could parse; a visitor does not dial.
ChainHolds ==
    cfg.kind = "chain" /\ cl.pc \in {"tls", "auth"} => ParseCapabilityV2(cfg.v3) # NoCapability

VisitorVisits == cfg.first # "" => cl.pc \in {"visit", "visiting", "done"}

PathOK == ChainHolds /\ VisitorVisits

\* What is sent first, and how the record in it was made.
FirstOK == up.sent # <<>> => cfg.first \in {"", up.sent[1].frame}
AuthOK == up.sent # <<>> /\ up.sent[1].frame = "auth" => Made

\* How far the gate is with its r parts.
GateSeen(g, r) ==
    /\ g.pc \in {"idle", "exporter", "first", "second"} => g.out = "" /\ g.seen = 0
    /\ g.pc = "second" => Decode(g.buf) = "incomplete"
    /\ g.seen \in 0..r

Decided(g, s) ==
    /\ g.out = "tunnel" => g.seen >= AuthParts /\ s[1].frame = "auth" /\ Entitled(g.at)
    /\ g.out = "site" /\ g.seen >= AuthParts /\ s[1].frame = "auth" => ~Entitled(g.at)

\* The inductive invariant of the admission.
AuthInv ==
    /\ CapFileOK /\ LinkOK /\ HeldOK /\ PathOK /\ FirstOK /\ AuthOK
    /\ GateSeen(gate, up.read) /\ Decided(gate, up.sent)

\* A step that leaves the decision alone, what it was made on, and what was sent.
Quiet ==
    /\ UNCHANGED <<cfg, auth, capFile, link>>
    /\ up'.sent = up.sent /\ GateSeen(gate', up'.read)
    /\ gate'.out = gate.out /\ gate'.seen = gate.seen /\ gate'.at = gate.at

LEMMA SourcesStay ==
    ASSUME CapFileOK, LinkOK, HeldOK, UNCHANGED <<cfg, capFile, link>>
    PROVE  CapFileOK' /\ LinkOK' /\ HeldOK'
<1>1. CapFileOK' /\ LinkOK'
  BY DEF CapFileOK, LinkOK
<1>2. HeldOK'
  BY DEF HeldOK, HeldV2, HeldV3, LinkCapability, ChainCapability
<1> QED BY <1>1, <1>2, Zenon

LEMMA DecidedStays ==
    ASSUME Decided(gate, up.sent), UNCHANGED <<cfg, auth, capFile, link>>,
           gate'.out = gate.out, gate'.seen = gate.seen, gate'.at = gate.at,
           up'.sent[1] = up.sent[1]
    PROVE  Decided(gate, up.sent)'
<1>1. (Entitled(gate.at))' <=> Entitled(gate.at)
  BY DEF Entitled, LinkCapability, ChainCapability
<1> QED BY <1>1, Zenon DEF Decided

LEMMA QuietKeeps ==
    ASSUME AuthInv, Quiet, PathOK'
    PROVE  AuthInv'
<1>1. CapFileOK' /\ LinkOK' /\ HeldOK'
  BY SourcesStay, Zenon DEF AuthInv, Quiet
<1>2. FirstOK' /\ AuthOK'
  BY Zenon DEF AuthInv, Quiet, FirstOK, AuthOK, Made
<1>3. Decided(gate, up.sent)'
  <2>1. up'.sent[1] = up.sent[1]
    BY Zenon DEF Quiet
  <2> QED BY <2>1, DecidedStays, Zenon DEF AuthInv, Quiet
<1> QED BY <1>1, <1>2, <1>3, Zenon DEF AuthInv, Quiet

\* The gate of a connection that has just been accepted, or whose routing is decided.
LEMMA SeenStarts ==
    ASSUME NEW g, GateShape(g), NEW r, GateSeen(g, r), g.pc = "idle",
           NEW h, h = [g EXCEPT !.pc = "exporter"]
    PROVE  GateSeen(h, r) /\ h.out = g.out /\ h.seen = g.seen /\ h.at = g.at
BY Zenon DEF GateShape, GateSeen

LEMMA SeenGoesOn ==
    ASSUME NEW g, NEW r \in Nat, GateSeen(g, r), NEW q \in Nat, r <= q, NEW h,
           h.seen = g.seen, h.pc \notin {"idle", "exporter", "first", "second"}
    PROVE  GateSeen(h, q)
<1>1. g.seen \in 0..r
  BY Zenon DEF GateSeen
<1>2. h.seen \in 0..q
  BY <1>1
<1> QED BY <1>2, Zenon DEF GateSeen

\* The steps of the client that send nothing.
LEMMA DialIsQuiet ==
    ASSUME AuthInv, BytesInv, ClientInv,
           \/ TcpConnect \/ TlsConnect \/ DialTimesOut \/ ExporterFails \/ ProbeRead
           \/ ProbeReadEnds \/ CancelProbe \/ FerryEnds \/ FerryFd \/ VisitEnds
    PROVE  AuthInv'
<1>0. /\ GateShape(gate) /\ SentOK(up.sent, cl.pc, gate.pc)
      /\ DOMAIN up = {"sent", "read", "fin"} /\ "pc" \in DOMAIN cl
  BY DEF BytesInv, SessionShape, GateShape
<1>1. UNCHANGED <<cfg, auth, capFile, link>>
  BY Zenon DEF TcpConnect, TlsConnect, DialTimesOut, ExporterFails, ProbeRead, ProbeReadEnds,
               CancelProbe, FerryEnds, FerryFd, VisitEnds, provVars
<1>2. up' = up \/ up' = [up EXCEPT !.fin = TRUE]
  BY Zenon DEF TcpConnect, TlsConnect, DialTimesOut, ExporterFails, ProbeRead, ProbeReadEnds,
               CancelProbe, FerryEnds, FerryFd, VisitEnds
<1>3. up'.sent = up.sent /\ up'.read = up.read
  BY <1>0, <1>2
<1>4. gate' = gate \/ (gate.pc = "idle" /\ gate' = [gate EXCEPT !.pc = "exporter"])
  <2>1. CASE TlsConnect
    BY <1>0, <2>1, Zenon DEF TlsConnect, SentOK
  <2>2. CASE FerryFd
    BY <1>0, <2>2, Zenon DEF FerryFd, SentOK
  <2>3. CASE ~TlsConnect /\ ~FerryFd
    BY <2>3, Zenon DEF TcpConnect, DialTimesOut, ExporterFails, ProbeRead, ProbeReadEnds,
                       CancelProbe, FerryEnds, VisitEnds
  <2> QED BY <2>1, <2>2, <2>3, Zenon
<1>5. /\ GateSeen(gate', up'.read)
      /\ gate'.out = gate.out /\ gate'.seen = gate.seen /\ gate'.at = gate.at
  <2>1. GateSeen(gate, up'.read)
    BY <1>3, Zenon DEF AuthInv
  <2>2. PICK g, h, r : g = gate /\ h = gate' /\ r = up'.read
    BY Zenon
  <2> QED BY <1>0, <1>4, <2>1, <2>2, SeenStarts, Zenon
<1>6. ChainHolds'
  <2>1. cl'.pc \in {"tls", "auth"} => \/ cl.pc \in {"tls", "auth"} \/ cfg.kind = "host"
                                      \/ cfg.kind # "chain"
                                      \/ ParseCapabilityV2(cfg.v3) # NoCapability
    <3>1. CASE TcpConnect
      BY <1>0, <3>1, Zenon DEF TcpConnect, Finish
    <3>2. CASE TlsConnect
      BY <1>0, <3>2, Zenon DEF TlsConnect, Finish
    <3>3. CASE FerryFd
      BY <3>3 DEF FerryFd, ClientInv, PinnedFromHandshake
    <3>4. CASE ProbeRead
      <4>1. cl.pc = "read" /\ (cl'.pc = cl.pc \/ cl'.pc = "done")
        BY <1>0, <3>4, Zenon DEF ProbeRead, Finish
      <4> QED BY <4>1, Zenon
    <3>5. CASE \/ DialTimesOut \/ ExporterFails \/ ProbeReadEnds \/ CancelProbe \/ FerryEnds
               \/ VisitEnds
      <4>1. cl'.pc = "done"
        BY <1>0, <3>5, Zenon DEF DialTimesOut, ExporterFails, ProbeReadEnds, CancelProbe, FerryEnds,
                          VisitEnds, Finish
      <4> QED BY <4>1
    <3> QED BY <3>1, <3>2, <3>3, <3>4, <3>5, Zenon
  <2>2. cfg.kind = "chain" => cfg.kind # "host"
    OBVIOUS
  <2>3. cfg.kind = "chain" /\ cl'.pc \in {"tls", "auth"} =>
           ParseCapabilityV2(cfg.v3) # NoCapability
    BY <2>1, <2>2, Zenon DEF AuthInv, PathOK, ChainHolds
  <2> QED BY <1>1, <2>3 DEF ChainHolds
<1>7. VisitorVisits'
  <2>1. cl.pc \in {"visit", "visiting", "done"} => cl'.pc = "done"
    <3>1. /\ ~TcpConnect \/ cl.pc = "tcp"
          /\ ~TlsConnect \/ cl.pc = "tls"
          /\ ~FerryFd \/ cl.pc = "call"
          /\ ~ProbeRead \/ cl.pc = "read"
      BY Zenon DEF TcpConnect, TlsConnect, FerryFd, ProbeRead
    <3>2. DialTimesOut \/ ExporterFails \/ ProbeReadEnds \/ CancelProbe \/ FerryEnds \/ VisitEnds
             => cl'.pc = "done"
      BY <1>0, Zenon DEF DialTimesOut, ExporterFails, ProbeReadEnds, CancelProbe, FerryEnds,
                         VisitEnds, Finish
    <3> QED BY <3>1, <3>2
  <2> QED BY <1>1, <2>1, Zenon DEF AuthInv, PathOK, VisitorVisits
<1> QED BY <1>1, <1>3, <1>5, <1>6, <1>7, QuietKeeps, Zenon DEF Quiet, PathOK

\* The steps of the relay behind the gate.
LEMMA RelayIsQuiet ==
    ASSUME AuthInv, BytesInv,
           OpenBackend \/ ForwardToSite \/ RelayPump \/ RelayChaff \/ Reply \/ RelayEnds
    PROVE  AuthInv'
<1>0. /\ GateShape(gate) /\ DOMAIN up = {"sent", "read", "fin"}
      /\ up.sent \in Seq(Piece) /\ up.read \in 0..Len(up.sent)
  BY Zenon DEF BytesInv, SessionShape, GateShape
<1>1. UNCHANGED <<cfg, cl, auth, capFile, link>>
  BY Zenon DEF OpenBackend, ForwardToSite, RelayPump, RelayChaff, Reply, RelayEnds, provVars
<1>2. up'.sent = up.sent /\ up'.read \in Nat /\ up.read \in Nat /\ up.read <= up'.read
  <2>1. CASE RelayPump
    <3>1. PICK n \in 1..Len(up.sent) - up.read : up' = [up EXCEPT !.read = @ + n]
      BY <2>1, Zenon DEF RelayPump
    <3> QED BY <1>0, <3>1
  <2>2. CASE ~RelayPump
    <3>1. up' = up
      BY <2>2, Zenon DEF OpenBackend, ForwardToSite, RelayChaff, Reply, RelayEnds
    <3> QED BY <1>0, <3>1
  <2> QED BY <2>1, <2>2
<1>3. gate.pc \notin {"idle", "exporter", "first", "second"}
  BY Zenon DEF OpenBackend, ForwardToSite, RelayPump, RelayChaff, Reply, RelayEnds
<1>4. \/ gate' = gate
      \/ \E pc \in {"tunnel", "forward", "closed"} : \E buf :
            gate' = [gate EXCEPT !.pc = pc, !.buf = buf]
  <2>1. gate.buf = gate["buf"]
    OBVIOUS
  <2>2. CASE CloseConnection(gate)
    <3>1. gate' = [gate EXCEPT !.pc = "closed", !.buf = gate.buf]
      BY <1>0, <2>2, Zenon DEF CloseConnection, GateShape
    <3> QED BY <3>1, Zenon
  <2>3. ASSUME NEW buf, PumpUp(buf)
        PROVE  \E b : gate' = [gate EXCEPT !.pc = "tunnel", !.buf = b]
    BY <2>3, Zenon DEF PumpUp
  <2>4. OpenBackend => CloseConnection(gate) \/ \E buf : PumpUp(buf)
    BY Zenon DEF OpenBackend
  <2>5. ForwardToSite => CloseConnection(gate)
                         \/ gate' = [gate EXCEPT !.pc = "forward", !.buf = <<>>]
    BY Zenon DEF ForwardToSite
  <2>6. RelayPump => gate' = gate \/ \E buf : PumpUp(buf)
    BY Zenon DEF RelayPump
  <2>7. RelayChaff \/ Reply => gate' = gate
    BY Zenon DEF RelayChaff, Reply
  <2>8. RelayEnds => CloseConnection(gate)
    BY Zenon DEF RelayEnds
  <2> QED BY <2>2, <2>3, <2>4, <2>5, <2>6, <2>7, <2>8, Zenon
<1>5. /\ gate'.pc \notin {"idle", "exporter", "first", "second"}
      /\ gate'.out = gate.out /\ gate'.seen = gate.seen /\ gate'.at = gate.at
  <2>1. CASE gate' = gate
    BY <1>3, <2>1
  <2>2. ASSUME NEW pc \in {"tunnel", "forward", "closed"}, NEW buf,
               gate' = [gate EXCEPT !.pc = pc, !.buf = buf]
        PROVE  /\ gate'.pc \notin {"idle", "exporter", "first", "second"}
               /\ gate'.out = gate.out /\ gate'.seen = gate.seen /\ gate'.at = gate.at
    BY <1>0, <2>2, Zenon DEF GateShape
  <2> QED BY <1>4, <2>1, <2>2, Zenon
<1>6. GateSeen(gate', up'.read)
  <2>1. PICK g, h, r, q : g = gate /\ h = gate' /\ r = up.read /\ q = up'.read
    BY Zenon
  <2>2. GateSeen(g, r)
    BY <2>1, Zenon DEF AuthInv
  <2> QED BY <1>2, <1>5, <2>1, <2>2, SeenGoesOn, Zenon
<1>7. PathOK'
  BY <1>1, Zenon DEF AuthInv, PathOK, ChainHolds, VisitorVisits
<1> QED BY <1>1, <1>2, <1>5, <1>6, <1>7, QuietKeeps, Zenon DEF Quiet

\* A connection over which nothing was sent is undecided, or was turned away unread.
LEMMA NothingSeen ==
    ASSUME AuthInv, BytesInv, up.sent = <<>>
    PROVE  gate.seen = 0 /\ gate.out # "tunnel"
<1>1. up.read = 0
  BY DEF BytesInv, SessionShape
<1>2. gate.seen = 0
  <2>1. gate.seen \in 0..up.read
    BY Zenon DEF AuthInv, GateSeen
  <2> QED BY <1>1, <2>1
<1> QED BY <1>2, EstablishAssumption DEF AuthInv, Decided

LEMMA Undecided ==
    ASSUME gate'.seen = 0, gate'.out # "tunnel"
    PROVE  Decided(gate, up.sent)'
BY EstablishAssumption DEF Decided

\* An AUTH record, field by field.
AuthHas(a, v, p, c, b, e) ==
    a.ver = v /\ a.payload = p /\ a.cap = c /\ a.by = b /\ a.session = e

LEMMA AuthFields ==
    ASSUME NEW v, NEW p, NEW c, NEW b, NEW e, NEW t, NEW a,
           a = [ver |-> v, payload |-> p, cap |-> c, by |-> b, session |-> e, at |-> t]
    PROVE  AuthHas(a, v, p, c, b, e)
BY Zenon DEF AuthHas

\* What authenticate_over makes is a record of the client's capability.
LEMMA AuthIsMade ==
    ASSUME NEW e, auth' = MadeAuth(e), UNCHANGED cfg,
           cfg.kind = "chain" => ParseCapabilityV2(cfg.v3) # NoCapability,
           cfg.kind # "chain" => AuthError(cfg) = ""
    PROVE  Made'
<1>1. CASE cfg.kind = "chain" \/ UsesV3(cfg)
  <2>1. PICK cap, sk : cap = ParseCapabilityV2(cfg.v3) /\ sk = cfg.sk
    BY Zenon
  <2>2. cap # NoCapability
    BY <1>1, <2>1 DEF AuthError
  <2>3. auth' = [ver |-> 3, payload |-> EncodeAuthV3(AuthRecordV3(cap, sk, e)), cap |-> cap,
                 by |-> sk, session |-> e, at |-> now.client]
    BY <1>1, <2>1, Zenon DEF MadeAuth
  <2>4. AuthHas(auth', 3, EncodeAuthV3(AuthRecordV3(cap, sk, e)), cap, sk, e)
    BY <2>3, AuthFields, Zenon
  <2> QED BY <2>1, <2>2, <2>4, Zenon DEF Made, AuthHas
<1>2. CASE ~(cfg.kind = "chain" \/ UsesV3(cfg))
  <2>1. PICK cap : cap = ParseCapability(cfg.v2)
    BY Zenon
  <2>2. cap # NoCapability
    BY <1>2, <2>1 DEF AuthError
  <2>3. auth' = [ver |-> 2, payload |-> EncodeAuthV2(AuthRecordV2(cap, e)), cap |-> cap,
                 by |-> "", session |-> e, at |-> now.client]
    BY <1>2, <2>1, Zenon DEF MadeAuth
  <2>4. AuthHas(auth', 2, EncodeAuthV2(AuthRecordV2(cap, e)), cap, "", e)
    BY <2>3, AuthFields, Zenon
  <2> QED BY <2>1, <2>2, <2>4, Zenon DEF Made, AuthHas
<1> QED BY <1>1, <1>2, Zenon

LEMMA AuthenticateKeeps ==
    ASSUME AuthInv, BytesInv, Authenticate
    PROVE  AuthInv'
<1>0. /\ DOMAIN up = {"sent", "read", "fin"} /\ "pc" \in DOMAIN cl
      /\ cl.pc = "auth" /\ up.sent = <<>>
  BY Zenon DEF BytesInv, SessionShape, SentOK, Authenticate
<1>1. UNCHANGED <<cfg, gate, capFile, link>>
  BY Zenon DEF Authenticate, provVars
<1>2. up'.read = up.read
  BY <1>0, Zenon DEF Authenticate
<1>3. cl'.pc \in {"send", "run", "done"} /\ cfg.first = ""
  <2>1. cl'.pc \in {"send", "run", "done"}
    BY <1>0, Zenon DEF Authenticate, Finish
  <2>2. cfg.first = ""
    BY <1>0, Zenon DEF AuthInv, PathOK, VisitorVisits
  <2> QED BY <2>1, <2>2, Zenon
<1>4. PathOK'
  BY <1>1, <1>3, Zenon DEF PathOK, ChainHolds, VisitorVisits
<1>5. FirstOK'
  BY <1>1, <1>3, Zenon DEF FirstOK
<1>6. AuthOK'
  <2>1. CASE UNCHANGED auth /\ up' = [up EXCEPT !.fin = TRUE]
    BY <1>0, <2>1 DEF AuthOK
  <2>2. ASSUME NEW e, auth' = MadeAuth(e), cfg.kind # "chain" => AuthError(cfg) = ""
        PROVE  AuthOK'
    <3>1. cfg.kind = "chain" => ParseCapabilityV2(cfg.v3) # NoCapability
      BY <1>0, Zenon DEF AuthInv, PathOK, ChainHolds
    <3>2. Made'
      BY <1>1, <2>2, <3>1, AuthIsMade, Zenon
    <3> QED BY <3>2, Zenon DEF AuthOK
  <2>3. \/ UNCHANGED auth /\ up' = [up EXCEPT !.fin = TRUE]
        \/ \E e : auth' = MadeAuth(e) /\ (cfg.kind # "chain" => AuthError(cfg) = "")
    BY Zenon DEF Authenticate
  <2> QED BY <2>1, <2>2, <2>3, Zenon
<1>7. GateSeen(gate, up.read)'
  BY <1>1, <1>2, Zenon DEF AuthInv, GateSeen
<1>8. Decided(gate, up.sent)'
  <2>1. gate'.seen = 0 /\ gate'.out # "tunnel"
    BY <1>0, <1>1, NothingSeen
  <2> QED BY <2>1, Undecided, Zenon
<1>9. CapFileOK' /\ LinkOK' /\ HeldOK'
  BY <1>1, SourcesStay, Zenon DEF AuthInv
<1> QED BY <1>4, <1>5, <1>6, <1>7, <1>8, <1>9, Zenon DEF AuthInv

\* A record with one field more is no record of either version.
LEMMA OneMore ==
    ASSUME NEW cap, NEW sk, NEW e
    PROVE  /\ Len(Append(EncodeAuthV2(AuthRecordV2(cap, e)), "more")) = 9
           /\ Len(Append(EncodeAuthV3(AuthRecordV3(cap, sk, e)), "more")) = 10
<1>1. ASSUME NEW S, NEW s \in Seq(S), NEW x \in S, NEW y \in S
      PROVE  Len(Append(Append(s, x), y)) = Len(s) + 2
  <2>1. Append(s, x) \in Seq(S) /\ Appended(Append(s, x), s, x)
    BY <1>1, AppendReads, Zenon
  <2>2. PICK u \in Seq(S) : u = Append(s, x) /\ Appended(u, s, x)
    BY <2>1, Zenon
  <2>3. Appended(Append(u, y), u, y)
    BY <1>1, AppendReads, Zenon
  <2>4. Len(s) \in Nat
    BY <1>1
  <2> QED BY <2>2, <2>3, <2>4 DEF Appended
<1>2. Len(Append(EncodeAuthV2(AuthRecordV2(cap, e)), "more")) = 9
  <2>1. PICK t, m : t = EncodeCapability(cap) /\ m = AuthCode(cap, e)
    BY Zenon
  <2>2. PICK S : S = {t[1], t[2], t[3], t[4], t[5], t[6], t[7], m, "more"}
    BY Zenon
  <2>3. t \in Seq(S) /\ Len(t) = 7
    BY <2>1, <2>2 DEF EncodeCapability
  <2>4. m \in S /\ "more" \in S
    BY <2>2, Zenon
  <2>5. EncodeAuthV2(AuthRecordV2(cap, e)) = Append(t, m)
    BY <2>1 DEF EncodeAuthV2, AuthRecordV2
  <2>6. Len(Append(Append(t, m), "more")) = Len(t) + 2
    BY <1>1, <2>3, <2>4, Zenon
  <2> QED BY <2>3, <2>5, <2>6
<1>3. Len(Append(EncodeAuthV3(AuthRecordV3(cap, sk, e)), "more")) = 10
  <2>1. PICK t, m : t = EncodeCapabilityV2(cap) /\ m = Signature(sk, AuthV3Message(cap, e))
    BY Zenon
  <2>2. PICK S : S = {t[1], t[2], t[3], t[4], t[5], t[6], t[7], t[8], m, "more"}
    BY Zenon
  <2>3. t \in Seq(S) /\ Len(t) = 8
    BY <2>1, <2>2 DEF EncodeCapabilityV2
  <2>4. m \in S /\ "more" \in S
    BY <2>2
  <2>5. EncodeAuthV3(AuthRecordV3(cap, sk, e)) = Append(t, m)
    BY <2>1, Zenon DEF EncodeAuthV3, AuthRecordV3
  <2>6. Len(Append(Append(t, m), "more")) = Len(t) + 2
    BY <1>1, <2>3, <2>4, Zenon
  <2> QED BY <2>3, <2>5, <2>6
<1> QED BY <1>2, <1>3

LEMMA VisitKeeps ==
    ASSUME AuthInv, BytesInv, CfgOK, Visit
    PROVE  AuthInv'
<1>0. /\ DOMAIN up = {"sent", "read", "fin"} /\ "pc" \in DOMAIN cl /\ GateShape(gate)
      /\ up.sent = <<>> /\ gate.pc = "idle"
  BY Zenon DEF BytesInv, SessionShape, SentOK, Visit, GateShape
<1>1. UNCHANGED <<cfg, capFile, link>>
  BY Zenon DEF Visit, provVars
<1>2. /\ up'.read = up.read /\ cl'.pc = "visiting"
      /\ up'.sent = IF cfg.first = "" THEN <<>> ELSE Frame(cfg.first)
  BY <1>0, Zenon DEF Visit
<1>3. PathOK'
  BY <1>1, <1>2, Zenon DEF PathOK, ChainHolds, VisitorVisits
<1>4. up'.sent # <<>> => cfg.first # "" /\ up'.sent[1].frame = cfg.first
  <2>1. CASE cfg.first # ""
    <3>1. PICK f \in {"auth", "data", "http", "chaff"} : f = cfg.first
      BY <2>1, Zenon DEF CfgOK
    <3>2. PICK s : s = Frame(f)
      BY Zenon
    <3>3. s \in Seq(Piece) /\ s # <<>> /\ \A i \in DOMAIN s : s[i].frame = f
      BY <3>2, AnyFrame, Zenon
    <3>4. s[1].frame = f
      BY <3>3
    <3> QED BY <1>2, <2>1, <3>1, <3>2, <3>4, Zenon
  <2> QED BY <1>2, <2>1, Zenon
<1>5. FirstOK'
  BY <1>1, <1>4, Zenon DEF FirstOK
<1>6. AuthOK'
  <2>1. SUFFICES ASSUME cfg.first = "auth" PROVE Made'
    BY <1>4, Zenon DEF AuthOK
  <2>2. PICK made : made = MadeAuth("this") /\ auth' = [made EXCEPT !.payload = Append(@, "more")]
    BY <2>1, Zenon DEF Visit
  <2>3. PICK cap, sk, t :
           \/ made = [ver |-> 3, payload |-> EncodeAuthV3(AuthRecordV3(cap, sk, "this")),
                      cap |-> cap, by |-> sk, session |-> "this", at |-> t]
           \/ made = [ver |-> 2, payload |-> EncodeAuthV2(AuthRecordV2(cap, "this")),
                      cap |-> cap, by |-> "", session |-> "this", at |-> t]
    BY <2>2, Zenon DEF MadeAuth
  <2>4. PICK p2, p3 : /\ p2 = EncodeAuthV2(AuthRecordV2(cap, "this"))
                      /\ p3 = EncodeAuthV3(AuthRecordV3(cap, sk, "this"))
                      /\ Len(Append(p2, "more")) = 9 /\ Len(Append(p3, "more")) = 10
    BY OneMore, Zenon
  <2>5. ASSUME NEW ver, NEW p, NEW by,
               made = [ver |-> ver, payload |-> p, cap |-> cap, by |-> by, session |-> "this",
                       at |-> t]
        PROVE  auth'.ver = ver /\ auth'.payload = Append(p, "more")
    BY <2>2, <2>5
  <2>6. \/ auth'.ver = 3 /\ auth'.payload = Append(p3, "more")
        \/ auth'.ver = 2 /\ auth'.payload = Append(p2, "more")
    BY <2>3, <2>4, <2>5, Zenon
  <2> QED BY <2>4, <2>6, Zenon DEF Made
<1>7. GateSeen(gate, up.read)' /\ gate'.seen = gate.seen /\ gate'.out = gate.out
  <2>1. PICK g, h, r : g = gate /\ h = gate' /\ r = up.read
    BY Zenon
  <2>2. GateSeen(g, r) /\ h = [g EXCEPT !.pc = "exporter"]
    BY <2>1, Zenon DEF AuthInv, Visit
  <2>3. GateSeen(h, r) /\ h.out = g.out /\ h.seen = g.seen
    BY <1>0, <2>1, <2>2, SeenStarts, Zenon
  <2> QED BY <1>2, <2>1, <2>3, Zenon
<1>8. Decided(gate, up.sent)'
  <2>1. gate'.seen = 0 /\ gate'.out # "tunnel"
    BY <1>0, <1>7, NothingSeen
  <2> QED BY <2>1, Undecided, Zenon
<1>9. CapFileOK' /\ LinkOK' /\ HeldOK'
  BY <1>1, SourcesStay, Zenon DEF AuthInv
<1> QED BY <1>3, <1>5, <1>6, <1>7, <1>8, <1>9, Zenon DEF AuthInv

\* Sending on keeps what was sent first.
LEMMA FirstStays ==
    ASSUME NEW s \in Seq(Piece), s # <<>>, NEW t \in Seq(Piece)
    PROVE  s \o t # <<>> /\ (s \o t)[1] = s[1]
<1>1. Len(s) \in Nat /\ Len(s) # 0 /\ Len(t) \in Nat
  OBVIOUS
<1>2. (s \o t)[1] = s[1] /\ Len(s \o t) = Len(s) + Len(t)
  BY <1>1
<1> QED BY <1>1, <1>2

LEMMA SendKeeps ==
    ASSUME AuthInv, BytesInv, SendPreface \/ FerrySends
    PROVE  AuthInv'
<1>0. /\ DOMAIN up = {"sent", "read", "fin"} /\ "pc" \in DOMAIN cl
      /\ up.sent \in Seq(Piece) /\ cl.pc \in {"send", "run"}
  BY Zenon DEF BytesInv, SessionShape, SendPreface, FerrySends
<1>1. up.sent # <<>>
  <2>1. CASE SendPreface
    <3>1. up.sent = AuthFrame
      BY <2>1, Zenon DEF BytesInv, SentOK, SendPreface
    <3>2. AuthFrame # <<>>
      BY AnyFrame, Zenon DEF AuthFrame
    <3> QED BY <3>1, <3>2
  <2>2. CASE FerrySends
    <3>1. Len(up.sent) = AuthParts
      BY <2>2, Zenon DEF FerrySends
    <3> QED BY <1>0, <3>1, EstablishAssumption, Zenon
  <2> QED BY <2>1, <2>2, Zenon
<1>2. UNCHANGED <<cfg, gate, auth, capFile, link>>
  BY Zenon DEF SendPreface, FerrySends, provVars
<1>3. PICK t \in Seq(Piece) : up'.sent = up.sent \o t /\ up'.read = up.read
  <2>0. DataFrame \in Seq(Piece) /\ ChaffFrame \in Seq(Piece)
    BY FrameFacts, Zenon
  <2>1. ASSUME NEW t \in Seq(Piece), up' = [up EXCEPT !.sent = @ \o t]
        PROVE  up'.sent = up.sent \o t /\ up'.read = up.read
    BY <1>0, <2>1
  <2>2. CASE SendPreface
    <3>1. CASE up' = [up EXCEPT !.sent = @ \o Frame("data")]
      BY <2>0, <2>1, <3>1, Zenon DEF DataFrame
    <3>2. CASE up' = [up EXCEPT !.fin = TRUE]
      <4>1. up'.sent = up.sent /\ up'.read = up.read
        BY <1>0, <3>2
      <4>2. up.sent \o <<>> = up.sent /\ <<>> \in Seq(Piece)
        BY <1>0
      <4> QED BY <4>1, <4>2, Zenon
    <3> QED BY <2>2, <3>1, <3>2, Zenon DEF SendPreface
  <2>3. CASE FerrySends
    <3>1. PICK cover \in {<<>>, ChaffFrame} :
             up' = [up EXCEPT !.sent = @ \o cover \o DataFrame]
      BY <2>3, Zenon DEF FerrySends, ChaffFrame, DataFrame
    <3>2. cover \in Seq(Piece)
      <4>1. <<>> \in Seq(Piece)
        OBVIOUS
      <4> QED BY <2>0, <3>1, <4>1, Zenon
    <3>3. /\ cover \o DataFrame \in Seq(Piece)
          /\ (up.sent \o cover) \o DataFrame = up.sent \o (cover \o DataFrame)
      BY <1>0, <2>0, <3>2, ConcatAssoc, SMTT(30)
    <3>4. up'.sent = up.sent \o (cover \o DataFrame) /\ up'.read = up.read
      BY <1>0, <3>1, <3>3, Zenon
    <3> QED BY <3>3, <3>4, Zenon
  <2> QED BY <2>2, <2>3, Zenon
<1>4. up'.sent # <<>> /\ up'.sent[1] = up.sent[1]
  BY <1>0, <1>1, <1>3, FirstStays, SMTT(30)
<1>5. FirstOK' /\ AuthOK'
  BY <1>1, <1>2, <1>4, Zenon DEF AuthInv, FirstOK, AuthOK, Made
<1>6. PathOK'
  <2>1. cl'.pc \in {"read", "run", "done"}
    BY <1>0, Zenon DEF SendPreface, FerrySends, Finish
  <2>2. cfg.first = ""
    BY <1>0, Zenon DEF AuthInv, PathOK, VisitorVisits
  <2> QED BY <1>2, <2>1, <2>2, Zenon DEF PathOK, ChainHolds, VisitorVisits
<1>7. GateSeen(gate, up.read)'
  BY <1>2, <1>3, Zenon DEF AuthInv, GateSeen
<1>8. Decided(gate, up.sent)'
  BY <1>2, <1>4, DecidedStays, Zenon DEF AuthInv
<1>9. CapFileOK' /\ LinkOK' /\ HeldOK'
  BY <1>2, SourcesStay, Zenon DEF AuthInv
<1> QED BY <1>5, <1>6, <1>7, <1>8, <1>9, Zenon DEF AuthInv

\* What the gate has read, and when its first frame is a whole AUTH frame.
StartOf(buf, s, r) == buf \in Seq(Piece) /\ Len(buf) = r /\ (r >= 1 => buf[1] = s[1])

LEMMA ReadSoFar ==
    ASSUME NEW s \in Seq(Piece), NEW r \in 0..Len(s)
    PROVE  StartOf(SubSeq(s, 1, r), s, r)
<1>1. r \in Nat /\ Len(s) \in Nat /\ r <= Len(s)
  OBVIOUS
<1>2. SubSeq(s, 1, r) \in Seq(Piece) /\ Len(SubSeq(s, 1, r)) = r
  BY <1>1
<1>3. r >= 1 => SubSeq(s, 1, r)[1] = s[1]
  BY <1>1
<1> QED BY <1>2, <1>3, Zenon DEF StartOf

LEMMA WholeAuthDecodes ==
    ASSUME NEW buf \in Seq(Piece)
    PROVE  Decode(buf) = "auth" <=> Len(buf) >= AuthParts /\ buf[1].frame = "auth"
<1>1. AuthParts \in Nat \ {0} /\ Len(buf) \in Nat /\ Parts("auth") = AuthParts
  BY EstablishAssumption DEF Parts
<1>2. CASE buf = <<>>
  BY <1>1, <1>2 DEF Decode
<1>3. CASE buf # <<>> /\ buf[1].frame = "auth"
  BY <1>1, <1>3 DEF Decode
<1>4. CASE buf # <<>> /\ buf[1].frame # "auth"
  <2>1. Decode(buf) \in {"error", "incomplete", buf[1].frame}
    BY <1>4 DEF Decode
  <2> QED BY <1>4, <2>1
<1> QED BY <1>2, <1>3, <1>4

\* The decision of this read.
LEMMA DecidedNow ==
    ASSUME UNCHANGED <<cfg, auth, capFile, link>>, up'.sent = up.sent, gate'.at = now.relay,
           gate'.out = "tunnel" =>
               gate'.seen >= AuthParts /\ up.sent[1].frame = "auth" /\ Entitled(now.relay),
           gate'.out = "site" /\ gate'.seen >= AuthParts /\ up.sent[1].frame = "auth" =>
               ~Entitled(now.relay)
    PROVE  Decided(gate, up.sent)'
<1>1. (Entitled(gate.at))' <=> Entitled(now.relay)
  BY Zenon DEF Entitled, LinkCapability, ChainCapability
<1> QED BY <1>1, Zenon DEF Decided

\* A record that came in whole is decided on as its maker is entitled.
LEMMA DecodeDecides ==
    ASSUME AuthInv, NEW buf \in Seq(Piece), buf[1] = up.sent[1], up.sent # <<>>
    PROVE  /\ TryDecodeAuth(buf) \in {"", "tunnel", "site"}
           /\ TryDecodeAuth(buf) = "" => Decode(buf) = "incomplete"
           /\ TryDecodeAuth(buf) = "tunnel" =>
                 Len(buf) >= AuthParts /\ up.sent[1].frame = "auth" /\ Entitled(now.relay)
           /\ Len(buf) >= AuthParts /\ up.sent[1].frame = "auth" =>
                 TryDecodeAuth(buf) = IF Entitled(now.relay) THEN "tunnel" ELSE "site"
<1>1. Decode(buf) = "auth" <=> Len(buf) >= AuthParts /\ up.sent[1].frame = "auth"
  BY WholeAuthDecodes, Zenon
<1>2. CASE Decode(buf) = "auth"
  <2>1. Made
    BY <1>1, <1>2, Zenon DEF AuthInv, AuthOK
  <2>2. auth.ver \in {2, 3}
    BY <2>1, Zenon DEF Made
  <2>3. TryDecodeAuth(buf) = IF auth.ver = 2 THEN TryAuthV2(cfg.scope) ELSE TryAuthV3(cfg.scope)
    BY <1>2, <2>2 DEF TryDecodeAuth
  <2>4. /\ auth.ver = 2 =>
              TryAuthV2(cfg.scope) = IF Entitled(now.relay) THEN "tunnel" ELSE "site"
        /\ auth.ver = 3 =>
              TryAuthV3(cfg.scope) = IF Entitled(now.relay) THEN "tunnel" ELSE "site"
    BY <2>1, DecisionIsExact, Zenon DEF AuthInv
  <2>5. TryDecodeAuth(buf) = IF Entitled(now.relay) THEN "tunnel" ELSE "site"
    BY <2>2, <2>3, <2>4, Zenon
  <2>6. /\ TryDecodeAuth(buf) \in {"tunnel", "site"}
        /\ TryDecodeAuth(buf) = "tunnel" => Entitled(now.relay)
    BY <2>5
  <2> QED BY <1>1, <1>2, <2>5, <2>6, Zenon
<1>3. CASE Decode(buf) # "auth"
  <2>1. /\ TryDecodeAuth(buf) \in {"", "site"}
        /\ TryDecodeAuth(buf) = "" => Decode(buf) = "incomplete"
    BY <1>3, Zenon DEF TryDecodeAuth
  <2> QED BY <1>1, <1>3, <2>1, Zenon
<1> QED BY <1>2, <1>3, Zenon

\* The gate's own steps.
LEMMA GateKeeps ==
    ASSUME AuthInv, BytesInv, GateExporter \/ GateRead \/ GateReadEnds
    PROVE  AuthInv'
<1>0. /\ GateShape(gate) /\ DOMAIN up = {"sent", "read", "fin"}
      /\ up.sent \in Seq(Piece) /\ up.read \in 0..Len(up.sent)
      /\ gate.pc \in {"first", "second"} => gate.buf = SubSeq(up.sent, 1, up.read)
  BY Zenon DEF BytesInv, SessionShape, GateShape, GateOK
<1>1. UNCHANGED <<cfg, cl, auth, capFile, link>>
  BY Zenon DEF GateExporter, GateRead, GateReadEnds, provVars
<1>2. CapFileOK' /\ LinkOK' /\ HeldOK'
  BY <1>1, SourcesStay, Zenon DEF AuthInv
<1>3. PathOK'
  BY <1>1, Zenon DEF AuthInv, PathOK, ChainHolds, VisitorVisits
<1>4. gate.pc \in {"exporter", "first", "second"} /\ gate.out = "" /\ gate.seen = 0
  BY Zenon DEF GateExporter, GateRead, GateReadEnds, AuthInv, GateSeen
<1>5. SUFFICES up'.sent = up.sent /\ GateSeen(gate', up'.read) /\ Decided(gate, up.sent)'
  <2>1. up'.sent = up.sent => FirstOK' /\ AuthOK'
    BY <1>1, Zenon DEF AuthInv, FirstOK, AuthOK, Made
  <2> QED BY <1>2, <1>3, <2>1, Zenon DEF AuthInv
<1>6. ASSUME up' = up, \/ CloseConnection([gate EXCEPT !.out = "site"])
                       \/ gate.pc = "exporter" /\ gate' = [gate EXCEPT !.pc = "first"]
      PROVE  up'.sent = up.sent /\ GateSeen(gate', up'.read) /\ Decided(gate, up.sent)'
  <2>1. /\ gate'.seen = 0
        /\ \/ gate'.pc = "closed" /\ gate'.out = "site"
           \/ gate'.pc = "first" /\ gate'.out = ""
    BY <1>0, <1>4, <1>6, Zenon DEF CloseConnection, GateShape
  <2>2. Decided(gate, up.sent)'
    BY <2>1, Undecided, Zenon
  <2>3. 0 \in 0..up.read
    BY <1>0
  <2>4. GateSeen(gate', up'.read)
    BY <1>6, <2>1, <2>3, Zenon DEF GateSeen
  <2> QED BY <1>6, <2>2, <2>4, Zenon
<1>7. CASE GateExporter
  BY <1>6, <1>7, Zenon DEF GateExporter
<1>8. ASSUME NEW buf \in Seq(Piece), NEW d \in {"tunnel", "site"}, Consume(buf, d),
             up'.sent = up.sent, up'.read = Len(buf),
             d = "tunnel" => /\ Len(buf) >= AuthParts /\ up.sent[1].frame = "auth"
                             /\ Entitled(now.relay),
             d = "site" /\ Len(buf) >= AuthParts /\ up.sent[1].frame = "auth" =>
                 ~Entitled(now.relay)
      PROVE  GateSeen(gate', up'.read) /\ Decided(gate, up.sent)'
  <2>1. /\ gate'.pc \in {"dial", "site"} /\ gate'.out = d /\ gate'.at = now.relay
        /\ gate'.seen = Len(buf)
    BY <1>0, <1>8 DEF Consume, GateShape
  <2>2. Len(buf) \in 0..Len(buf)
    BY <1>8
  <2>3. GateSeen(gate', up'.read)
    BY <1>8, <2>1, <2>2, Zenon DEF GateSeen
  <2>4. Decided(gate, up.sent)'
    BY <1>1, <1>8, <2>1, DecidedNow, Zenon
  <2> QED BY <2>3, <2>4
<1>9. CASE GateReadEnds
  <2>1. up' = up
    BY <1>9, Zenon DEF GateReadEnds
  <2>2. CASE gate.pc = "first" /\ CloseConnection([gate EXCEPT !.out = "site"])
    BY <1>6, <2>1, <2>2, Zenon
  <2>3. CASE gate.pc = "second" /\ Consume(gate.buf, "site")
    <3>0. StartOf(gate.buf, up.sent, up.read)
      BY <1>0, <2>3, ReadSoFar, Zenon
    <3>1. PICK buf \in Seq(Piece) : buf = gate.buf /\ Len(buf) = up.read
      BY <3>0, Zenon DEF StartOf
    <3>2. up.read >= 1 => buf[1] = up.sent[1]
      BY <3>0, <3>1, Zenon DEF StartOf
    <3>3. ~(Len(buf) >= AuthParts /\ up.sent[1].frame = "auth")
      <4>1. Decode(buf) # "auth"
        BY <2>3, <3>1, Zenon DEF AuthInv, GateSeen
      <4>2. Len(buf) >= AuthParts => up.read >= 1
        BY <3>1, EstablishAssumption
      <4> QED BY <3>2, <4>1, <4>2, WholeAuthDecodes, Zenon
    <3> QED BY <1>8, <2>1, <2>3, <3>1, <3>3, Zenon
  <2> QED BY <1>9, <2>2, <2>3, Zenon DEF GateReadEnds
<1>10. CASE GateRead
  <2>1. PICK n \in 1..Len(up.sent) - up.read :
           LET buf == gate.buf \o SubSeq(up.sent, up.read + 1, up.read + n)
               decision == TryDecodeAuth(buf) IN
           /\ up' = [up EXCEPT !.read = @ + n]
           /\ IF decision # "" THEN Consume(buf, decision)
              ELSE IF gate.pc = "first" THEN gate' = [gate EXCEPT !.pc = "second", !.buf = buf]
              ELSE Consume(buf, "site")
    BY <1>10, Zenon DEF GateRead
  <2>2. /\ n \in Nat /\ n >= 1 /\ up.read \in Nat /\ up.read + n \in 0..Len(up.sent)
        /\ up.read + n <= Len(up.sent) /\ up.read + n >= 1
    <3>1. /\ n \in Nat /\ n >= 1 /\ up.read \in Nat /\ up.read + n \in 0..Len(up.sent)
          /\ up.read + n <= Len(up.sent)
      BY <1>0, <2>1, PartsRead, Zenon
    <3>2. up.read + n >= 1
      BY <3>1
    <3> QED BY <3>1, <3>2, Zenon
  <2>3. up'.sent = up.sent /\ up'.read = up.read + n
    BY <1>0, <2>1, Zenon
  <2>4. PICK buf : /\ buf = gate.buf \o SubSeq(up.sent, up.read + 1, up.read + n)
                   /\ buf = SubSeq(up.sent, 1, up.read + n)
    <3>1. gate.buf = SubSeq(up.sent, 1, up.read)
      BY <1>0, <1>10, Zenon DEF GateRead
    <3>2. 1 \in Nat \ {0} /\ 1 <= up.read + 1
      BY <2>2
    <3>3. SubSeq(up.sent, 1, up.read) \o SubSeq(up.sent, up.read + 1, up.read + n)
             = SubSeq(up.sent, 1, up.read + n)
      BY <1>0, <2>2, <3>2, ReadOn, Zenon
    <3> QED BY <3>1, <3>3, Zenon
  <2>5. buf \in Seq(Piece) /\ Len(buf) = up.read + n /\ buf[1] = up.sent[1]
    <3>1. StartOf(buf, up.sent, up.read + n)
      BY <1>0, <2>2, <2>4, ReadSoFar, Zenon
    <3> QED BY <2>2, <3>1, Zenon DEF StartOf
  <2>6. up.sent # <<>>
    BY <1>0, <2>2
  <2>7. PICK d : d = TryDecodeAuth(buf)
    BY Zenon
  <2>8. /\ d \in {"", "tunnel", "site"}
        /\ d = "" => Decode(buf) = "incomplete"
        /\ d = "tunnel" =>
              Len(buf) >= AuthParts /\ up.sent[1].frame = "auth" /\ Entitled(now.relay)
        /\ Len(buf) >= AuthParts /\ up.sent[1].frame = "auth" =>
              d = IF Entitled(now.relay) THEN "tunnel" ELSE "site"
    BY <2>5, <2>6, <2>7, DecodeDecides, Zenon
  <2>9. up'.read = Len(buf)
    BY <2>3, <2>5
  <2>10. CASE d # "" /\ Consume(buf, d)
    <3>1. d = "site" /\ Len(buf) >= AuthParts /\ up.sent[1].frame = "auth" => ~Entitled(now.relay)
      BY <2>8
    <3> QED BY <1>8, <2>3, <2>5, <2>8, <2>9, <2>10, <3>1, Zenon
  <2>11. CASE d = "" /\ Consume(buf, "site")
    <3>1. ~(Len(buf) >= AuthParts /\ up.sent[1].frame = "auth")
      BY <2>8, <2>11, Zenon
    <3> QED BY <1>8, <2>3, <2>5, <2>9, <2>11, <3>1, Zenon
  <2>12. CASE d = "" /\ gate' = [gate EXCEPT !.pc = "second", !.buf = buf]
    <3>1. gate'.pc = "second" /\ gate'.buf = buf /\ gate'.out = "" /\ gate'.seen = 0
      BY <1>0, <1>4, <2>12, Zenon DEF GateShape
    <3>2. Decided(gate, up.sent)'
      BY <3>1, Undecided, Zenon
    <3>3. 0 \in 0..up'.read
      BY <2>2, <2>3
    <3>4. GateSeen(gate', up'.read)
      BY <2>8, <2>12, <3>1, <3>3, Zenon DEF GateSeen
    <3> QED BY <2>3, <3>2, <3>4, Zenon
  <2> QED BY <2>1, <2>4, <2>7, <2>10, <2>11, <2>12, Zenon
<1> QED BY <1>7, <1>9, <1>10, Zenon

\* Signing adds the signature, and what is encoded is decoded again.
UnsignedB1(b) ==
    b = [kind |-> "B1", ticket_id |-> b.ticket_id, veil_pk |-> b.veil_pk, role |-> b.role,
         not_before |-> b.not_before, not_after |-> b.not_after, suite_id |-> b.suite_id,
         scope |-> b.scope]

SoundB1(c, seed) ==
    c # NoCapability => /\ c = DecodeCapabilityV2(EncodeCapabilityV2(c))
                        /\ VerifyCapabilityV2(c, PublicKey(seed))

LEMMA SignedBound ==
    ASSUME NEW seed, NEW b, UnsignedB1(b)
    PROVE  SoundB1(SignCapabilityV2(b, seed), seed)
<1>0. PICK c : c = SignCapabilityV2(b, seed)
  BY Zenon
<1> SUFFICES ASSUME c # NoCapability
             PROVE  /\ c = DecodeCapabilityV2(EncodeCapabilityV2(c))
                    /\ VerifyCapabilityV2(c, PublicKey(seed))
  BY <1>0, Zenon DEF SoundB1
<1>1. PICK id, pk, role, nb, na, suite, scope :
          b = [kind |-> "B1", ticket_id |-> id, veil_pk |-> pk, role |-> role,
               not_before |-> nb, not_after |-> na, suite_id |-> suite, scope |-> scope]
  BY Zenon DEF UnsignedB1
<1>2. PICK s : s = Signature(seed, CapV2Message(b))
  BY Zenon
<1>3. c = WithSignature(b, s)
  BY <1>0, <1>2 DEF SignCapabilityV2
<1>4. c = [kind |-> "B1", ticket_id |-> id, veil_pk |-> pk, role |-> role, not_before |-> nb,
           not_after |-> na, suite_id |-> suite, scope |-> scope, sig |-> s]
  BY <1>1, <1>3, Zenon DEF WithSignature
<1>5. EncodeCapabilityV2(c) = <<id, pk, role, nb, na, suite, scope, s>>
  BY <1>4, Zenon DEF EncodeCapabilityV2
<1>6. c = DecodeCapabilityV2(EncodeCapabilityV2(c))
  BY <1>4, <1>5 DEF DecodeCapabilityV2
<1>7. CapV2Message(c) = CapV2Message(b)
  BY <1>1, <1>4 DEF CapV2Message
<1>8. VerifyCapabilityV2(c, PublicKey(seed))
  <2>1. c.sig = s
    BY <1>4
  <2> QED BY <1>2, <1>7, <2>1, Zenon DEF VerifyCapabilityV2, Signature
<1> QED BY <1>6, <1>8, Zenon

LEMMA SignedBearer ==
    ASSUME NEW id, NEW key, NEW nb, NEW na, NEW suite, NEW scope, NEW seed, NEW b, NEW c,
           b = [kind |-> "B2", ticket_id |-> id, auth_key |-> key, not_before |-> nb,
                not_after |-> na, suite_id |-> suite, scope |-> scope],
           c = SignCapability(b, seed), c # NoCapability
    PROVE  VerifyCapability(DecodeCapability(EncodeCapability(c)), PublicKey(seed))
<1>1. b = [kind |-> "B2", ticket_id |-> id, auth_key |-> key, not_before |-> nb,
           not_after |-> na, suite_id |-> suite, scope |-> scope]
  BY Zenon
<1>2. PICK s : s = Signature(seed, CapMessage(b))
  BY Zenon
<1>3. c = WithSignature(b, s)
  BY <1>1, <1>2, Zenon DEF SignCapability
<1>4. c = [kind |-> "B2", ticket_id |-> id, auth_key |-> key, not_before |-> nb,
           not_after |-> na, suite_id |-> suite, scope |-> scope, sig |-> s]
  BY <1>1, <1>3, SMTT(30) DEF WithSignature
<1>5. EncodeCapability(c) = <<id, key, nb, na, suite, scope, s>>
  BY <1>4, SMTT(30) DEF EncodeCapability
<1>6. c = DecodeCapability(EncodeCapability(c))
  BY <1>4, <1>5, SMTT(30) DEF DecodeCapability
<1>7. CapMessage(c) = CapMessage(b)
  BY <1>1, <1>4 DEF CapMessage
<1>8. VerifyCapability(c, PublicKey(seed))
  <2>1. c.sig = s
    BY <1>4
  <2> QED BY <1>2, <1>7, <2>1, Zenon DEF VerifyCapability, Signature
<1> QED BY <1>6, <1>8, Zenon

\* While the client is off, whatever is provisioned, nothing is decided.
LEMMA OffIsIdle ==
    ASSUME AuthInv, BytesInv, cl.pc = "off", UNCHANGED <<auth, up, gate>>,
           cfg'.first = cfg.first, cl'.pc \in {"off", "tcp"}
    PROVE  /\ FirstOK' /\ AuthOK' /\ PathOK'
           /\ GateSeen(gate, up.read)' /\ Decided(gate, up.sent)'
<1>1. up.sent = <<>>
  BY Zenon DEF BytesInv, SentOK
<1>2. FirstOK' /\ AuthOK'
  BY <1>1, Zenon DEF FirstOK, AuthOK
<1>3. PathOK'
  BY Zenon DEF AuthInv, PathOK, ChainHolds, VisitorVisits
<1>4. GateSeen(gate, up.read)'
  BY Zenon DEF AuthInv, GateSeen
<1>5. Decided(gate, up.sent)'
  <2>1. gate.seen = 0 /\ gate.out # "tunnel"
    BY <1>1, NothingSeen
  <2> QED BY <2>1, Undecided, Zenon
<1> QED BY <1>2, <1>3, <1>4, <1>5, Zenon

LEMMA ChainDialKeeps ==
    ASSUME AuthInv, BytesInv, CfgOK, ProvInv, ChainDial
    PROVE  AuthInv'
<1>1. /\ cl.pc = "off" /\ relayRun.is = "chain" /\ UNCHANGED <<auth, up, gate, capFile, link>>
      /\ cl' = [cl EXCEPT !.pc = "tcp"]
  BY Zenon DEF ChainDial, provVars
<1>2. PICK sk, v3 : /\ cfg' = [cfg EXCEPT !.sk = sk, !.v3 = v3]
                    /\ v3 = cfg.v3 \/ v3 = Base64(EncodeCapabilityV2(capFile))
  BY Zenon DEF ChainDial
<1>3. cfg'.first = cfg.first /\ cfg'.v2 = cfg.v2 /\ cfg'.v3 = v3
  BY <1>2, Zenon DEF CfgOK
<1>4. cl'.pc = "tcp"
  BY <1>1, Zenon DEF BytesInv, SessionShape
<1>5. CapFileOK' /\ LinkOK'
  BY <1>1 DEF AuthInv, CapFileOK, LinkOK
<1>6. /\ CapFileOK /\ capFile # NoCapability
      /\ HeldV2(ParseCapability(cfg.v2)) /\ HeldV3(ParseCapabilityV2(cfg.v3))
  BY <1>1, Zenon DEF AuthInv, ProvInv, HeldOK
<1>7. HeldV3(capFile)
  <2>1. SUFFICES ASSUME VerifyCapabilityV2(capFile, PublicKey(Issuer))
                 PROVE  capFile \in ChainCapability
    BY Zenon DEF HeldV3
  <2>2. PublicKey(Issuer) = PublicKey(ChainIssuer)
    <3>1. PICK m, i, j : m = CapV2Message(capFile) /\ i = PublicKey(Issuer) /\ j = PublicKey(ChainIssuer)
      BY Zenon
    <3>2. [by |-> i, over |-> m] = [by |-> j, over |-> m]
      BY <1>6, <2>1, <3>1, Zenon DEF CapFileOK, VerifyCapabilityV2
    <3>3. i = j
      BY <3>2
    <3> QED BY <3>1, <3>3
  <2>3. ChainIssuer = Issuer
    BY <2>2, Zenon DEF PublicKey
  <2> QED BY <2>3, Zenon DEF ChainCapability
<1>8. HeldV3(ParseCapabilityV2(v3))
  <2>1. CASE v3 = cfg.v3
    BY <1>6, <2>1, Zenon
  <2>2. CASE v3 = Base64(EncodeCapabilityV2(capFile))
    <3>1. ParseCapabilityV2(v3) = DecodeCapabilityV2(EncodeCapabilityV2(capFile))
      BY <2>2 DEF Base64, ParseCapabilityV2
    <3>2. ParseCapabilityV2(v3) = capFile
      BY <1>6, <3>1, Zenon DEF CapFileOK
    <3> QED BY <1>7, <3>2, Zenon
  <2> QED BY <1>2, <2>1, <2>2, Zenon
<1>9. HeldOK'
  BY <1>1, <1>3, <1>6, <1>8, Zenon DEF HeldOK, HeldV2, HeldV3, ChainCapability, LinkCapability
<1>10. /\ FirstOK' /\ AuthOK' /\ PathOK'
       /\ GateSeen(gate, up.read)' /\ Decided(gate, up.sent)'
  BY <1>1, <1>3, <1>4, OffIsIdle, Zenon
<1> QED BY <1>5, <1>9, <1>10, Zenon DEF AuthInv

LEMMA OpenLinkKeeps ==
    ASSUME AuthInv, BytesInv, CfgOK, OpenLink
    PROVE  AuthInv'
<1>1. /\ cl.pc = "off" /\ link # NoLink /\ link.signature = Signature(Issuer, link.fields)
      /\ UNCHANGED <<auth, up, gate, capFile, link>> /\ cl' = [cl EXCEPT !.pc = "tcp"]
  BY Zenon DEF OpenLink, provVars
<1>2. PICK sni, pin, v2 : /\ cfg' = [cfg EXCEPT !.sni = sni, !.pin = pin, !.v2 = v2]
                          /\ v2 = link.fields.capability
  BY Zenon DEF OpenLink
<1>3. cfg'.first = cfg.first /\ cfg'.v2 = v2 /\ cfg'.v3 = cfg.v3
  BY <1>2, Zenon DEF CfgOK
<1>4. cl'.pc = "tcp"
  BY <1>1 DEF BytesInv, SessionShape
<1>5. CapFileOK' /\ LinkOK'
  BY <1>1, Zenon DEF AuthInv, CapFileOK, LinkOK
<1>6. HeldV2(ParseCapability(v2))
  <2>1. link.signature.by = PublicKey(Issuer)
    BY <1>1 DEF Signature
  <2>2. LinkCapability = {DecodeCapability(v2.raw)}
    BY <1>1, <1>2, <2>1, Zenon DEF LinkCapability
  <2>3. ParseCapability(v2) \in {NoCapability, DecodeCapability(v2.raw)}
    BY Zenon DEF ParseCapability
  <2> QED BY <2>2, <2>3 DEF HeldV2
<1>7. HeldOK'
  BY <1>1, <1>3, <1>6, Zenon DEF AuthInv, HeldOK, HeldV2, HeldV3, ChainCapability, LinkCapability
<1>8. /\ FirstOK' /\ AuthOK' /\ PathOK'
      /\ GateSeen(gate, up.read)' /\ Decided(gate, up.sent)'
  BY <1>1, <1>3, <1>4, OffIsIdle, Zenon
<1> QED BY <1>5, <1>7, <1>8, Zenon DEF AuthInv

LEMMA ProvisioningKeeps ==
    ASSUME AuthInv, BytesInv, Provisioning
    PROVE  AuthInv'
<1>1. cl.pc = "off" /\ UNCHANGED <<cfg, cl, auth, up, gate>>
  BY Zenon DEF Provisioning, sessionVars
<1>2. /\ FirstOK' /\ AuthOK' /\ PathOK'
      /\ GateSeen(gate, up.read)' /\ Decided(gate, up.sent)'
  BY <1>1, OffIsIdle
<1>3. CapFileOK /\ LinkOK /\ HeldOK
  BY Zenon DEF AuthInv
<1>4. SUFFICES CapFileOK' /\ LinkOK' /\ HeldOK'
  BY <1>2, Zenon DEF AuthInv
<1>5. CASE RelayProvision
  <2>1. link' = link /\ (capFile' = capFile \/ IssueRelayCapability)
    BY <1>5, Zenon DEF RelayProvision, KeygenOpen, KeygenWrite, KeygenPrint, KeygenDies,
                       RemoveSeedFile, StartRelay, StopRelay, IssueRelayCapability
  <2>2. CASE capFile' = capFile
    BY <1>1, <1>3, <2>1, <2>2, SourcesStay, Zenon
  <2>3. CASE IssueRelayCapability
    <3>1. PICK s \in published : capFile' = SignCapabilityV2(
              [kind |-> "B1", ticket_id |-> "chain", veil_pk |-> PublicKey(s),
               role |-> RoleRelay, not_before |-> ChainWindow[1],
               not_after |-> ChainWindow[2], suite_id |-> SuiteClassicV1, scope |-> ""],
              ChainIssuer)
      BY <2>3, Zenon DEF IssueRelayCapability
    <3>2. PICK b, c : /\ b = [kind |-> "B1", ticket_id |-> "chain", veil_pk |-> PublicKey(s),
                              role |-> RoleRelay, not_before |-> ChainWindow[1],
                              not_after |-> ChainWindow[2], suite_id |-> SuiteClassicV1,
                              scope |-> ""]
                      /\ c = capFile'
      BY Zenon
    <3>3. c # NoCapability => /\ c = DecodeCapabilityV2(EncodeCapabilityV2(c))
                              /\ VerifyCapabilityV2(c, PublicKey(ChainIssuer))
      <4>1. c = SignCapabilityV2(b, ChainIssuer)
        BY <3>1, <3>2, Zenon
      <4>2. UnsignedB1(b)
        BY <3>2, Zenon DEF UnsignedB1
      <4>3. SoundB1(SignCapabilityV2(b, ChainIssuer), ChainIssuer)
        BY <4>2, SignedBound, Zenon
      <4> QED BY <4>1, <4>3, Zenon DEF SoundB1
    <3>4. CapFileOK' /\ LinkOK'
      BY <1>3, <2>1, <3>2, <3>3, Zenon DEF CapFileOK, LinkOK
    <3>5. HeldV3(ParseCapabilityV2(cfg.v3))'
      <4>1. PICK cap : cap = ParseCapabilityV2(cfg.v3)
        BY Zenon
      <4>2. capFile = NoCapability
        BY <2>3, Zenon DEF IssueRelayCapability
      <4>3. ChainCapability \subseteq {NoCapability}
        BY <4>2, Zenon DEF ChainCapability
      <4>4. cap # NoCapability /\ VerifyCapabilityV2(cap, PublicKey(Issuer)) => cap \in Issued
        BY <1>3, <4>1, <4>3, Zenon DEF HeldOK, HeldV3
      <4> QED BY <1>1, <4>1, <4>4, Zenon DEF HeldV3
    <3>6. HeldV2(ParseCapability(cfg.v2))'
      BY <1>1, <1>3, <2>1, Zenon DEF HeldOK, HeldV2, LinkCapability
    <3> QED BY <3>4, <3>5, <3>6, Zenon DEF HeldOK
  <2> QED BY <2>1, <2>2, <2>3, Zenon
<1>6. CASE LinkProvision
  <2>1. PICK r \in LinkRuns, t \in 0..MaxIssueTime : MakeConfigLink(r, t)
    BY <1>6, Zenon DEF LinkProvision
  <2> DEFINE seed == ResolveSigningKey(r)
             b == [kind |-> "B2", ticket_id |-> "link", auth_key |-> "link", not_before |-> t,
                   not_after |-> t + r.days, suite_id |-> r.suite_id, scope |-> r.scope]
             cap == SignCapability(b, seed)
             fields == [relay |-> r.relay, sni |-> IF r.sni = "" THEN r.relay ELSE r.sni,
                        spki |-> r.spki, capability |-> Base64(EncodeCapability(cap)),
                        exp |-> t + r.days]
  <2>2. /\ cap # NoCapability /\ link = NoLink /\ capFile' = capFile
        /\ link' = [is |-> "link", fields |-> fields, signature |-> Signature(seed, fields)]
        /\ fields.capability = Base64(EncodeCapability(cap))
    BY <2>1, Zenon DEF MakeConfigLink
  <2> HIDE DEF seed, cap, fields
  <2>3. link'.fields = fields /\ link'.signature.by = PublicKey(seed)
    BY <2>2, Zenon DEF Signature
  <2>4. fields.capability.raw = EncodeCapability(cap)
    BY <2>2 DEF Base64
  <2>5. VerifyCapability(DecodeCapability(EncodeCapability(cap)), PublicKey(seed))
    <3>1. PICK sb, sc : sb = b /\ sc = cap /\ sc = SignCapability(sb, seed)
      BY Zenon DEF cap
    <3> QED BY <2>2, <3>1, SignedBearer, Zenon
  <2>6. LinkOK'
    BY <2>3, <2>4, <2>5, Zenon DEF LinkOK
  <2>7. CapFileOK' /\ HeldV3(ParseCapabilityV2(cfg.v3))'
    BY <1>1, <1>3, <2>2, Zenon DEF CapFileOK, HeldOK, HeldV3, ChainCapability
  <2>8. HeldV2(ParseCapability(cfg.v2))'
    <3>1. PICK c : c = ParseCapability(cfg.v2)
      BY Zenon
    <3>2. LinkCapability = {}
      BY <2>2, Zenon DEF LinkCapability
    <3>3. c # NoCapability /\ VerifyCapability(c, PublicKey(Issuer)) => c \in Issued
      BY <1>3, <3>1, <3>2 DEF HeldOK, HeldV2
    <3> QED BY <1>1, <3>1, <3>3, Zenon DEF HeldV2
  <2> QED BY <2>6, <2>7, <2>8, Zenon DEF HeldOK
<1> QED BY <1>5, <1>6, Zenon DEF Provisioning

LEMMA AuthInit ==
    ASSUME Init PROVE AuthInv
<1>1. /\ cfg \in Configs /\ capFile = NoCapability /\ link = NoLink /\ up = EmptyStream
      /\ gate = [pc |-> "idle", out |-> "", buf |-> <<>>, at |-> 0, seen |-> 0]
  BY Zenon DEF Init, ProvInit
<1>2. CapFileOK /\ LinkOK
  BY <1>1, Zenon DEF CapFileOK, LinkOK
<1>3. HeldOK
  <2>1. PICK v2, v3 : v2 = ParseCapability(cfg.v2) /\ v3 = ParseCapabilityV2(cfg.v3)
    BY Zenon
  <2>2. /\ v2 = NoCapability \/ v2 \in Issued \/ ~VerifyCapability(v2, PublicKey(Issuer))
        /\ v3 = NoCapability \/ v3 \in Issued \/ ~VerifyCapabilityV2(v3, PublicKey(Issuer))
    BY <1>1, <2>1, IssuedAssumption, Zenon
  <2>3. HeldV2(v2) /\ HeldV3(v3)
    BY <2>2, Zenon DEF HeldV2, HeldV3
  <2> QED BY <2>1, <2>3, Zenon DEF HeldOK
<1>4. PICK pc \in {"off", "call", "visit", "tcp"} :
          /\ cl.pc = pc
          /\ cfg.kind = "visitor" /\ ~cfg.linked => pc = "visit"
  <2> DEFINE first == CASE cfg.kind = "chain" \/ cfg.linked -> "off"
                        [] cfg.kind = "host" -> "call"
                        [] cfg.kind = "visitor" -> "visit"
                        [] OTHER -> "tcp"
  <2>1. /\ first \in {"off", "call", "visit", "tcp"}
        /\ cfg.kind = "visitor" /\ ~cfg.linked => first = "visit"
    BY Zenon
  <2>2. cl = [pc |-> first, result |-> "", ret |-> 1, rx |-> <<>>, total |-> 0]
    BY Zenon DEF Init
  <2> HIDE DEF first
  <2> QED BY <2>1, <2>2, Zenon
<1>5. PathOK
  <2>1. /\ cfg.first # "" => cfg.kind = "visitor"
        /\ cfg.linked => cfg.kind \in {"probe", "ferry"}
    BY <1>1, ConfigsAssumption, Zenon
  <2>2. cfg.first # "" => cl.pc = "visit"
    BY <1>4, <2>1, Zenon
  <2>3. cl.pc \notin {"tls", "auth"}
    BY <1>4
  <2> QED BY <2>2, <2>3, Zenon DEF PathOK, ChainHolds, VisitorVisits
<1>6. FirstOK /\ AuthOK
  BY <1>1, Zenon DEF FirstOK, AuthOK, EmptyStream
<1>7. GateSeen(gate, up.read)
  <2>1. 0 \in 0..0
    OBVIOUS
  <2> QED BY <1>1, <2>1, Zenon DEF GateSeen, EmptyStream
<1>8. Decided(gate, up.sent)
  BY <1>1, EstablishAssumption, Zenon DEF Decided
<1> QED BY <1>2, <1>3, <1>5, <1>6, <1>7, <1>8, Zenon DEF AuthInv

LEMMA AuthNext ==
    ASSUME AuthInv, BytesInv, CfgOK, ClientInv, ProvInv, [Next]_vars
    PROVE  AuthInv'
<1>1. CASE \/ TcpConnect \/ TlsConnect \/ DialTimesOut \/ ExporterFails \/ ProbeRead
           \/ ProbeReadEnds \/ CancelProbe \/ FerryEnds \/ FerryFd \/ VisitEnds
  BY <1>1, DialIsQuiet, Zenon
<1>2. CASE OpenBackend \/ ForwardToSite \/ RelayPump \/ RelayChaff \/ Reply \/ RelayEnds
  BY <1>2, RelayIsQuiet, Zenon
<1>3. CASE Authenticate
  BY <1>3, AuthenticateKeeps, Zenon
<1>4. CASE Visit
  BY <1>4, VisitKeeps, Zenon
<1>5. CASE SendPreface \/ FerrySends
  BY <1>5, SendKeeps, Zenon
<1>6. CASE GateExporter \/ GateRead \/ GateReadEnds
  BY <1>6, GateKeeps, Zenon
<1>7. CASE ChainDial
  BY <1>7, ChainDialKeeps, Zenon
<1>8. CASE OpenLink
  BY <1>8, OpenLinkKeeps, Zenon
<1>9. CASE Provisioning
  BY <1>9, ProvisioningKeeps, Zenon
<1>10. CASE UNCHANGED vars
  <2>1. UNCHANGED <<cfg, cl, auth, up, gate, capFile, link>>
    BY <1>10 DEF vars, sessionVars, provVars
  <2>2. Quiet /\ PathOK'
    BY <2>1, Zenon DEF AuthInv, Quiet, PathOK, ChainHolds, VisitorVisits
  <2> QED BY <2>2, QuietKeeps, Zenon
<1> QED BY <1>1, <1>2, <1>3, <1>4, <1>5, <1>6, <1>7, <1>8, <1>9, <1>10, Zenon
        DEF Next, ClientStep, GateStep

\* The gate of a relay admits a connection to the tunnel exactly when the AUTH record that it
\* has read whole, within its two reads, is made, for this session, of a capability that the issuer issued and that is in
\* force at the relay's clock, in its scope and suite; for every set of capabilities and
\* configurations, frames of any length and reads that end anywhere (gate_stream,
\* try_decode_auth, AuthRecordV2::verify, AuthRecordV3::verify).
THEOREM AdmissionIsExactHolds == Spec => []AdmissionIsExact
<1>1. AuthInv /\ BytesInv => AdmissionIsExact
  <2> SUFFICES ASSUME AuthInv, BytesInv PROVE AdmissionIsExact
    OBVIOUS
  <2>1. Decided(gate, up.sent) /\ FirstOK /\ gate.seen \in 0..up.read
    BY Zenon DEF AuthInv, GateSeen
  <2>2. up.sent = <<>> => gate.out # "tunnel"
    BY NothingSeen, Zenon
  <2>3. gate.out = "tunnel" => cfg.first \in {"", "auth"}
    BY <2>1, <2>2, Zenon DEF Decided, FirstOK
  <2>4. gate.out = "tunnel" => cfg.first # "data" /\ cfg.first # "http"
    BY <2>3, Zenon
  <2> QED BY <2>1, <2>4, Zenon DEF AdmissionIsExact, Decided
<1>2. Init => AuthInv
  BY AuthInit, Zenon
<1>3. AuthInv /\ (BytesInv /\ CfgOK) /\ ClientInv /\ ProvInv /\ [Next]_vars => AuthInv'
  BY AuthNext, Zenon
<1> QED BY <1>1, <1>2, <1>3, BytesAlways, ClientInvHolds, ProvInvHolds, PTL DEF Spec

=============================================================================
