----------------------------- MODULE Credentials -----------------------------
(***************************************************************************)
(* The credentials of veil-front (capability.rs, ticket.rs, auth.rs): the  *)
(* bearer capability B2 with its AUTH v2 record, the key-bound capability  *)
(* B1 with its AUTH v3 record, what each is signed over and encoded as,    *)
(* and how a relay validates a record.                                     *)
(*                                                                         *)
(* Ed25519 and HMAC are symbolic: a signature or a code is the key and the *)
(* message, and equals no other.  An encoding is the sequence of its       *)
(* fields; it is cut or followed by more at a field boundary.              *)
(***************************************************************************)
EXTENDS Integers, Sequences

CONSTANTS
    LongScopes      \* scopes of more than MAX_SCOPE_LEN bytes

SuiteClassicV1 == 1
RoleUser == 0
RoleRelay == 1

PublicKey(sk) == [pub |-> sk]
Signature(sk, msg) == [by |-> PublicKey(sk), over |-> msg]
Mac(key, msg) == [key |-> key, over |-> msg]

WithSignature(c, sig) ==
    [f \in DOMAIN c \cup {"sig"} |-> IF f = "sig" THEN sig ELSE c[f]]

NoCapability == [kind |-> "none"]
NoRecord == [capability |-> NoCapability]

\* An empty scope on either side is a wildcard.
ScopeMatches(capScope, relayScope) ==
    capScope = "" \/ relayScope = "" \/ capScope = relayScope

ScopeFits(scope) == scope \notin LongScopes

-----------------------------------------------------------------------------
(* Capability, kind B2.                                                    *)

TicketIsValidAt(cap, now) == now >= cap.not_before /\ now <= cap.not_after

\* The first component separates the domains.
CapMessage(c) ==
    <<"veil-cap-v1", c.ticket_id, c.auth_key, c.not_before, c.not_after, c.suite_id, c.scope>>

SignCapability(c, seed) ==
    IF ScopeFits(c.scope) THEN WithSignature(c, Signature(seed, CapMessage(c))) ELSE NoCapability

VerifyCapability(c, issuer) == c.sig = [by |-> issuer, over |-> CapMessage(c)]

EncodeCapability(c) ==
    <<c.ticket_id, c.auth_key, c.not_before, c.not_after, c.suite_id, c.scope, c.sig>>

\* What follows the signature is left to the caller.  A scope is a string already: one that is
\* not UTF-8, which the code rejects, has no counterpart here.
DecodeCapability(raw) ==
    IF Len(raw) < 7 THEN NoCapability
    ELSE [kind |-> "B2", ticket_id |-> raw[1], auth_key |-> raw[2], not_before |-> raw[3],
          not_after |-> raw[4], suite_id |-> raw[5], scope |-> raw[6], sig |-> raw[7]]

-----------------------------------------------------------------------------
(* AUTH v2.                                                                *)

\* AuthRecord::from_ticket
\* (Fault: the code does not cover the exporter.)
AuthCodeUnbound(c, exporter) == Mac(c.auth_key, <<c.ticket_id, c.not_after>>)

AuthCode(c, exporter) == Mac(c.auth_key, <<exporter, c.ticket_id, c.not_after>>)

\* AuthRecordV2::from_capability
AuthRecordV2(c, exporter) == [capability |-> c, auth |-> AuthCode(c, exporter)]

EncodeAuthV2(r) == Append(EncodeCapability(r.capability), r.auth)

\* decode_payload: it ends exactly after the code.
DecodeAuthV2(raw) ==
    IF Len(raw) = 8 THEN [capability |-> DecodeCapability(raw), auth |-> raw[8]] ELSE NoRecord

VerifyAuthV2(r, issuer, relayScope, exporter, now) ==
    LET c == r.capability IN
    /\ TicketIsValidAt(c, now)
    /\ c.suite_id = SuiteClassicV1
    /\ ScopeMatches(c.scope, relayScope)
    /\ VerifyCapability(c, issuer)
    /\ r.auth = AuthCode(c, exporter)

-----------------------------------------------------------------------------
(* CapabilityV2, kind B1.                                                  *)

CapV2IsValidAt(cap, now) == now >= cap.not_before /\ now <= cap.not_after

CapV2Message(c) ==
    <<"veil-cap-v2", c.ticket_id, c.veil_pk, c.role, c.not_before, c.not_after, c.suite_id,
      c.scope>>

SignCapabilityV2(c, seed) ==
    IF ScopeFits(c.scope) THEN WithSignature(c, Signature(seed, CapV2Message(c))) ELSE NoCapability

VerifyCapabilityV2(c, issuer) == c.sig = [by |-> issuer, over |-> CapV2Message(c)]

EncodeCapabilityV2(c) ==
    <<c.ticket_id, c.veil_pk, c.role, c.not_before, c.not_after, c.suite_id, c.scope, c.sig>>

\* Like DecodeCapability, a rejected scope that is not UTF-8 included.
DecodeCapabilityV2(raw) ==
    IF Len(raw) < 8 THEN NoCapability
    ELSE [kind |-> "B1", ticket_id |-> raw[1], veil_pk |-> raw[2], role |-> raw[3],
          not_before |-> raw[4], not_after |-> raw[5], suite_id |-> raw[6], scope |-> raw[7],
          sig |-> raw[8]]

-----------------------------------------------------------------------------
(* AUTH v3.                                                                *)

AuthV3Message(c, exporter) == <<"veil-auth-v1", exporter, c.ticket_id, c.not_after>>

\* AuthRecordV3::from_capability
AuthRecordV3(c, sk, exporter) ==
    [capability |-> c, sig |-> Signature(sk, AuthV3Message(c, exporter))]

EncodeAuthV3(r) == Append(EncodeCapabilityV2(r.capability), r.sig)

DecodeAuthV3(raw) ==
    IF Len(raw) = 9 THEN [capability |-> DecodeCapabilityV2(raw), sig |-> raw[9]] ELSE NoRecord

VerifyAuthV3(r, issuer, relayScope, role, exporter, now) ==
    LET c == r.capability IN
    /\ c.role = role
    /\ CapV2IsValidAt(c, now)
    /\ c.suite_id = SuiteClassicV1
    /\ ScopeMatches(c.scope, relayScope)
    /\ VerifyCapabilityV2(c, issuer)
    /\ r.sig = [by |-> c.veil_pk, over |-> AuthV3Message(c, exporter)]

=============================================================================
