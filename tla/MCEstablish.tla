----------------------------- MODULE MCEstablish -----------------------------
(***************************************************************************)
(* A relay of scope "eu", capabilities valid in [0, 1] or [1, 1] at clocks *)
(* from 0 to 2, and configurations that differ from a working one in one   *)
(* respect.                                                                *)
(***************************************************************************)
EXTENDS Establish

MCWindow == <<0, 1>>

\* Command lines that work, and ones with one thing wrong.
Start == [chain |-> "all", dev |-> FALSE, cert |-> "K1", key |-> "K1", issuer |-> "wellformed",
          backendTls |-> TRUE, backendSni |-> "name", listen |-> "free"]

MCStarts ==
    {[Start EXCEPT !.chain = f] : f \in {"all", "some", "none"}}
        \cup {[Start EXCEPT !.dev = TRUE, !.cert = "none", !.backendTls = FALSE],
              [Start EXCEPT !.key = "K2"], [Start EXCEPT !.issuer = "malformed"],
              [Start EXCEPT !.backendSni = "malformed"], [Start EXCEPT !.listen = "taken"]}

LinkRun == [file |-> "issuer", env |-> "other", argv |-> "other", relay |-> "name", sni |-> "",
            spki |-> "K1", days |-> 1, suite_id |-> SuiteClassicV1, scope |-> "eu"]

MCLinkRuns ==
    {LinkRun, [LinkRun EXCEPT !.scope = ""], [LinkRun EXCEPT !.scope = "long"],
     [LinkRun EXCEPT !.file = "unreadable"], [LinkRun EXCEPT !.file = "malformed"],
     [LinkRun EXCEPT !.file = "none"], [LinkRun EXCEPT !.suite_id = 2],
     [LinkRun EXCEPT !.file = "none", !.env = "blank", !.argv = "issuer"],
     [LinkRun EXCEPT !.file = "none", !.env = "none", !.argv = "none"]}

Bearer == [kind |-> "B2", ticket_id |-> "t", auth_key |-> "a", not_before |-> 0, not_after |-> 1,
           suite_id |-> SuiteClassicV1, scope |-> "eu"]
Bound == [kind |-> "B1", ticket_id |-> "t", veil_pk |-> PublicKey("u"), role |-> RoleUser,
          not_before |-> 0, not_after |-> 1, suite_id |-> SuiteClassicV1, scope |-> "eu"]

\* Capabilities as an issuer may sign them.
Variants(c) ==
    {c, [c EXCEPT !.not_before = 1], [c EXCEPT !.suite_id = 2], [c EXCEPT !.scope = ""],
     [c EXCEPT !.scope = "us"]}

WithRole(r, id) == [Bound EXCEPT !.role = r, !.ticket_id = id]

BoundVariants == Variants(Bound) \cup {WithRole(RoleRelay, "r"), WithRole(2, "x")}

Sign(c, seed) == IF c.kind = "B2" THEN SignCapability(c, seed) ELSE SignCapabilityV2(c, seed)

Encode(c) == Base64(IF c.kind = "B2" THEN EncodeCapability(c) ELSE EncodeCapabilityV2(c))

MCIssued == {Sign(c, Issuer) : c \in Variants(Bearer) \cup BoundVariants}

\* Signed by another issuer, or altered afterwards.
Altered(s) == {[s EXCEPT !.not_after = 2], [s EXCEPT !.scope = "eu"]}

BearerHeld ==
    {Sign(c, Issuer) : c \in Variants(Bearer)} \cup {Sign(Bearer, "other")}
        \cup Altered(Sign([Bearer EXCEPT !.scope = "us"], Issuer))
        \cup {[Sign(Bearer, Issuer) EXCEPT !.auth_key = "b"]}

BoundHeld ==
    {Sign(c, Issuer) : c \in BoundVariants} \cup {Sign(Bound, "other")}
        \cup Altered(Sign([Bound EXCEPT !.scope = "us"], Issuer))
        \cup {[Sign(Bound, Issuer) EXCEPT !.veil_pk = PublicKey("w")],
              [Sign(WithRole(2, "x"), Issuer) EXCEPT !.role = RoleUser],
              [Sign(WithRole(RoleRelay, "r"), Issuer) EXCEPT !.role = RoleUser]}

TheRelay == [cert |-> "K1", holds |-> "K1", hello |-> "ok"]

Empty == Base64(<<>>)
Garbage == [ok |-> FALSE, raw |-> <<>>]
Cut(b) == [b EXCEPT !.raw = SubSeq(@, 1, Len(@) - 1)]
Longer(b) == [b EXCEPT !.raw = Append(@, "more")]

Base == [kind |-> "probe", peer |-> TheRelay, pin |-> "K1", sni |-> "name", addr |-> "host",
         v2 |-> Encode(Sign(Bearer, Issuer)), v3 |-> Empty, sk |-> "", scope |-> "eu",
         exporter |-> "this", register |-> "works", fds |-> [local |-> 0, relay |-> 0],
         first |-> "", linked |-> FALSE, capIntact |-> TRUE]
BaseV3 == [Base EXCEPT !.v2 = Empty, !.v3 = Encode(Sign(Bound, Issuer)), !.sk = "u"]

Peers == {[TheRelay EXCEPT !.cert = "K2", !.holds = "K2"], [TheRelay EXCEPT !.holds = "K2"],
          [TheRelay EXCEPT !.cert = "unparsable"]}
             \cup {[TheRelay EXCEPT !.hello = h] : h \in {"alert40", "broken", "silent"}}

Held ==
    {[Base EXCEPT !.v2 = Encode(c)] : c \in BearerHeld}
        \cup {[BaseV3 EXCEPT !.v3 = Encode(c)] : c \in BoundHeld}
        \cup {[Base EXCEPT !.v2 = b] : b \in {Empty, Garbage, Cut(Base.v2), Longer(Base.v2)}}
        \cup {[BaseV3 EXCEPT !.v3 = Garbage], [BaseV3 EXCEPT !.sk = "malformed"],
              [BaseV3 EXCEPT !.sk = "w"], [BaseV3 EXCEPT !.sk = ""]}
        \cup {[Base EXCEPT !.scope = ""]}

Reaching(k) ==
    {[k EXCEPT !.peer = p] : p \in Peers}
        \cup {[k EXCEPT !.pin = p] : p \in {"K2", "", "malformed"}}
        \cup {[k EXCEPT !.sni = "", !.addr = a] : a \in {"ip", "host"}}
        \cup {[k EXCEPT !.sni = "malformed"]}

Chain == [Base EXCEPT !.kind = "chain", !.v2 = Empty]
Host == [BaseV3 EXCEPT !.kind = "host"]
Visitor == [Base EXCEPT !.kind = "visitor"]

MCConfigs ==
    Held \cup Reaching(Base) \cup Reaching([Base EXCEPT !.kind = "ferry"])
        \cup {[c EXCEPT !.kind = "ferry"] : c \in {Base, BaseV3}}
        \cup {Chain, [Chain EXCEPT !.v3 = Garbage, !.capIntact = FALSE]} \cup Reaching(Chain)
        \cup {Host, [Host EXCEPT !.v3 = Garbage], [Host EXCEPT !.register = "fails"]}
        \cup {[Host EXCEPT !.exporter = e] : e \in {"other", "malformed"}}
        \cup {[Host EXCEPT !.fds = [local |-> a, relay |-> b]] : a, b \in {-1, 0}}
        \cup {[Base EXCEPT !.kind = "host", !.exporter = e] : e \in {"this", "other"}}
        \cup {[Base EXCEPT !.linked = TRUE, !.scope = s] : s \in {"", "eu"}}
        \cup {[Visitor EXCEPT !.first = f] : f \in {"", "http", "data", "auth"}}

=============================================================================
