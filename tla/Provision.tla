------------------------------ MODULE Provision ------------------------------
(***************************************************************************)
(* What is prepared before a session: the identity of a chain relay and    *)
(* the start of the relay (relay main.rs), and a client's configuration    *)
(* link (make_config_link.rs).                                             *)
(*                                                                         *)
(* The operator generates a key pair, whose seed goes to a file and whose  *)
(* public key is printed; the upstream's issuer signs a capability for the *)
(* printed key; the relay starts from the two files.  The process may die  *)
(* at any step of the generation.                                          *)
(***************************************************************************)
EXTENDS Credentials

CONSTANTS
    Seeds,          \* seeds the random generator returns
    ChainIssuer,    \* seed of the upstream's issuer
    ChainWindow,    \* validity of the capability it signs
    Starts,         \* command lines of the relay
    LinkRuns,       \* command lines of make-config-link
    MaxIssueTime    \* bound on the clock of the machine that issues

ASSUME SeedAssumption == "absent" \notin Seeds /\ "torn" \notin Seeds

VARIABLES
    seedFile,       \* --chain-veil-sk-file: "absent", "torn" or the seed it holds
    keygen,         \* --generate-relay-keypair: where it is, and its seed
    used,           \* seeds generated so far
    published,      \* seeds whose public key was printed
    capFile,        \* the capability in --chain-capability-file
    relayRun,       \* the relay process: what it is, started with which chain flags and seed
    link            \* the link make-config-link printed

provVars == <<seedFile, keygen, used, published, capFile, relayRun, link>>

IdleKeygen == [at |-> "idle"]
NotRunning == [is |-> "down", flags |-> "none", seed |-> ""]
NoLink == [is |-> "none"]

\* Base64 of the fields of a credential, in a configuration.
Base64(fields) == [ok |-> TRUE, raw |-> fields]

ProvInit ==
    /\ seedFile = "absent"
    /\ keygen = IdleKeygen
    /\ used = {} /\ published = {}
    /\ capFile = NoCapability
    /\ relayRun = NotRunning
    /\ link = NoLink

-----------------------------------------------------------------------------
(* The key pair of a chain relay.                                          *)

\* write_secret_file creates the file, and only a file that is not there.
\* (Fault: it replaces an existing one, as before 2026-10-22.)
KeygenOpenAny(s) ==
    /\ keygen = IdleKeygen
    /\ s \notin used
    /\ used' = used \cup {s}
    /\ seedFile' = "torn"
    /\ keygen' = [at |-> "write", seed |-> s]
    /\ UNCHANGED <<published, capFile, relayRun, link>>

KeygenOpen(s) ==
    /\ keygen = IdleKeygen
    /\ s \notin used
    /\ used' = used \cup {s}
    /\ seedFile = "absent"
    /\ seedFile' = "torn"
    /\ keygen' = [at |-> "write", seed |-> s]
    /\ UNCHANGED <<published, capFile, relayRun, link>>

\* write_all
KeygenWrite ==
    /\ keygen.at = "write"
    /\ seedFile' = keygen.seed
    /\ keygen' = [keygen EXCEPT !.at = "print"]
    /\ UNCHANGED <<used, published, capFile, relayRun, link>>

\* The public key is printed, and the process exits.
KeygenPrint ==
    /\ keygen.at = "print"
    /\ published' = published \cup {keygen.seed}
    /\ keygen' = IdleKeygen
    /\ UNCHANGED <<seedFile, used, capFile, relayRun, link>>

\* The process dies, or a write fails: what it wrote stays.
KeygenDies ==
    /\ keygen # IdleKeygen
    /\ keygen' = IdleKeygen
    /\ UNCHANGED <<seedFile, used, published, capFile, relayRun, link>>

\* The operator removes a seed file whose public key nobody has.
RemoveSeedFile ==
    /\ keygen = IdleKeygen
    /\ seedFile \notin published \cup {"absent"}
    /\ seedFile' = "absent"
    /\ UNCHANGED <<keygen, used, published, capFile, relayRun, link>>

\* The upstream's issuer signs a capability for a printed key.
IssueRelayCapability ==
    /\ capFile = NoCapability
    /\ \E s \in published :
          capFile' = SignCapabilityV2([kind |-> "B1", ticket_id |-> "chain", veil_pk |-> PublicKey(s),
                                       role |-> RoleRelay, not_before |-> ChainWindow[1],
                                       not_after |-> ChainWindow[2],
                                       suite_id |-> SuiteClassicV1, scope |-> ""], ChainIssuer)
    /\ UNCHANGED <<seedFile, keygen, used, published, relayRun, link>>

-----------------------------------------------------------------------------
(* The start of the relay.                                                 *)

\* The chain mode of a command line: all of its flags, read from both files, or none.
\* (Fault: with some of the flags chain mode is off.)
ChainConfigLenient(flags) ==
    CASE flags # "all" -> [is |-> "local", flags |-> flags, seed |-> ""]
      [] flags = "all" /\ capFile # NoCapability /\ seedFile \in Seeds
           -> [is |-> "chain", flags |-> flags, seed |-> seedFile]
      [] OTHER -> [is |-> "failed", flags |-> flags, seed |-> ""]

ChainConfig(flags) ==
    CASE flags = "none" -> [is |-> "local", flags |-> flags, seed |-> ""]
      [] flags = "all" /\ capFile # NoCapability /\ seedFile \in Seeds
           -> [is |-> "chain", flags |-> flags, seed |-> seedFile]
      [] OTHER -> [is |-> "failed", flags |-> flags, seed |-> ""]

\* from_pem_files, from_certs and server_config need a chain of certificates and the key of
\* its leaf; self_signed makes its own.
LoadsTls(a) == a.dev \/ (a.cert # "none" /\ a.key = a.cert)

ParsesIssuerPubkey(a) == a.issuer = "wellformed"

BuildsDialer(a) == a.backendTls => a.backendSni = "name"

\* main, up to the accept loop: any step that fails ends the process.
StartRelay(a) ==
    /\ relayRun.is = "down"
    /\ relayRun' = IF LoadsTls(a) /\ ParsesIssuerPubkey(a) /\ BuildsDialer(a) /\ a.listen = "free"
                   THEN ChainConfig(a.chain)
                   ELSE [is |-> "failed", flags |-> a.chain, seed |-> ""]
    /\ UNCHANGED <<seedFile, keygen, used, published, capFile, link>>

\* The process is gone, and may be started again.
StopRelay ==
    /\ relayRun.is # "down"
    /\ relayRun' = NotRunning
    /\ UNCHANGED <<seedFile, keygen, used, published, capFile, link>>

-----------------------------------------------------------------------------
(* make-config-link.                                                       *)

\* The file before the environment, that before the command line; "" when there is none.
ResolveSigningKey(r) ==
    IF r.file # "none" THEN (IF r.file = "unreadable" THEN "" ELSE r.file)
    ELSE IF r.env \notin {"none", "blank"} THEN r.env
    ELSE IF r.argv # "none" THEN r.argv
    ELSE ""

\* A fresh bearer capability, valid from now on the issuing machine, in a link signed with
\* the same seed.  Nothing is printed when the seed or the scope is refused.
MakeConfigLink(r, t) ==
    LET seed == ResolveSigningKey(r)
        cap == SignCapability([kind |-> "B2", ticket_id |-> "link", auth_key |-> "link",
                               not_before |-> t, not_after |-> t + r.days,
                               suite_id |-> r.suite_id, scope |-> r.scope], seed) IN
    /\ link = NoLink
    /\ seed \notin {"", "malformed"}
    /\ cap # NoCapability
    /\ LET fields == [relay |-> r.relay, sni |-> IF r.sni = "" THEN r.relay ELSE r.sni,
                      spki |-> r.spki, capability |-> Base64(EncodeCapability(cap)),
                      exp |-> t + r.days] IN
       link' = [is |-> "link", fields |-> fields, signature |-> Signature(seed, fields)]
    /\ UNCHANGED <<seedFile, keygen, used, published, capFile, relayRun>>

-----------------------------------------------------------------------------
RelayProvision ==
    \/ \E s \in Seeds : KeygenOpen(s)
    \/ KeygenWrite
    \/ KeygenPrint
    \/ KeygenDies
    \/ RemoveSeedFile
    \/ IssueRelayCapability
    \/ \E a \in Starts : StartRelay(a)
    \/ StopRelay

LinkProvision == \E r \in LinkRuns, t \in 0..MaxIssueTime : MakeConfigLink(r, t)

-----------------------------------------------------------------------------
(* Properties.                                                             *)

\* "An existing seed is never overwritten": the seed of a printed key stays in the file,
\* whatever is generated, interrupted or removed later.
IdentityIsKept == \A s \in published : seedFile = s

\* A relay runs in chain mode only with the seed its capability was issued for, never with
\* one a dying process left incomplete or unpublished; and without chain mode, which would
\* send tunnels to a local backend, only when no --chain-* flag was given.
ChainIsWhole ==
    /\ relayRun.is = "chain" => /\ relayRun.seed \in published
                                /\ capFile.veil_pk = PublicKey(relayRun.seed)
    /\ relayRun.is = "local" => relayRun.flags = "none"

=============================================================================
