# TLA+ models of construct-veil

construct-veil is a veiled transport: a client library that opens a local TCP
listener and tunnels what it accepts through a TLS connection that looks like
ordinary web traffic, and a relay that tells such connections from real visitors
and forwards each to its backend or to a cover site. These modules model the client's
control plane, its score store, the relay's admission of connections, the provisioning of
credentials and the establishment of a session, and the data plane from the local stream
through the relays to the backend. TLC checks them on small instances, and TLAPS proves
every safety property of the runs for every instance.

## The system and its parts

| part | code | model |
|---|---|---|
| session slot, local proxy task, tunnels | `src/veil/coordinator.rs`, `src/accept.rs` | `SessionSlot`, abstract: `SessionService` |
| session reducer | `src/veil/fsm/reducer.rs`, `types.rs` | `VeilReducer`, driven by `VeilFsm` |
| start loop, probe race | `src/veil/coordinator.rs` | `Coordinator` |
| C FFI, last-error sink | `src/ffi.rs`, `src/veil/diag.rs` | `Coordinator` with `Ffi = TRUE`; `veil_front_ferry_fd` in `Establish` |
| relay accept loop, permits, per-address counts, connection life | relay `main.rs`, `gate.rs`, `site.rs` | `Admission` |
| relay counters and their flush | relay `main.rs`, `gate.rs` | `Relay` |
| invalid-AUTH warning limiter | relay `gate.rs` | `WarnLimiter` |
| score store | `src/veil/scoring.rs` | `ScoreStore` |
| score formula, candidate selection | `fsm/scoring.rs` | `Scoring`, checked through `ScoreStore` |
| capabilities, tickets, AUTH records | protocol crate `capability.rs`, `ticket.rs`, `auth.rs` | `Credentials` |
| session establishment: dial, pinned TLS, AUTH, probe verdict | `veil_front_adapter.rs`, `tls_pinned.rs`, `obfuscator.rs` | `Establish` |
| relay gate, dispatch, cover site | relay `gate.rs`, `main.rs`, `site.rs` | `Establish` |
| chain relay: keys, start, upstream dial | relay `main.rs`, `chain.rs`, `upstream_tls.rs` | `Provision`, `Establish` |
| config link tool | `make_config_link.rs` | `Provision` |
| client up direction: read loop, write strategy, FRONT chaff | `veil_front_adapter.rs`, `veil_front/` | `FrontUp` |
| tunnel end to end: client ferry, relay tunnel, chain hop | `veil_front_adapter.rs`, relay `tunnel.rs`, `chain.rs` | `Tunnel` |
| frame codec, varint | protocol crate `framing.rs`, `varint.rs` | `Framing` |
| TLS fingerprints and client configuration | `tls_*.rs` | not modelled: lists handed to a TLS library |
| other examples, fuzz targets, `shape-lab`, `deploy` | | not modelled: test tooling and deployment |

A host calls `veil_start`. The call takes the START mutex, creates the coordinator
the first time, stops the session that runs, and enters the start loop. The loop
feeds the reducer events and executes the effects it returns: it asks the score
store for candidates, probes them (one after the other, or staggered in parallel
when there are several), and for the winner binds a local listener, spawns its proxy task
and installs it in the slot. Each local connection becomes a tunnel to a relay. The
relay's accept loop takes a handshake permit and a place in the count of the peer's
address for each connection; its task does TLS, reads the first bytes, and either dials
the backend, or the next relay of a chain, or hands the connection to the cover site.

## Modules, state and actions

**SessionService** says what the client promises about sessions: each is fresh, then
serving, then ended; at most one serves; the host is told of the serving one, or
of one that has just ended by itself and will be forgotten.

**SessionSlot** is the `Mutex<Option<ActiveSession>>` (`slot`), the id counter
(`nextId`), the proxy tasks (`loop`), the shutdown channels (`signalled`), the tunnel
tokens (`cancelled`) and the tunnels (`tunnel`). A critical section has no await and
is one action: `Install`, `StopSession`, `ClearSlot`. `FetchId` is apart from `Install`,
and `LeaveLoop` from `ClearSlot`, because other tasks run between them.

**VeilReducer** is `reduce` as a function from state and event to state and effects,
with the u8 counter saturating at `U8Max`. **VeilFsm** applies it to every event in
every state and keeps what the effects ask of the caller.

**Coordinator** extends both. `call[a]` is the local state of a start call, `probe`
and `token` its probe tasks and their cancellation, `coord` and `diag` the two globals
of the FFI; `diag` also says whose error it holds, and `latest` which `veil_start` came last. A step of a
call ends where the code awaits or takes a lock. The check of a probe's token (`ProbeWakes`) and its dial
(`ProbeDials`) are two steps, and the loop that cancels the losers takes one token at a time
(`CancelNext`) while the tasks go on. After a lost race no task is left, and the same loop is one step (`CancelAll`).
`Ffi` chooses between `veil_start` (serialised by START, stops the previous session)
and overlapping `start_session_with_params` calls.

**Admission** is the relay's accept loop with its permits (`permits`), its per-address
map (`perIp`) and the task of each connection (`pc`). A slot in `Conns` is reused
after its task ends. **Relay** adds the atomics (`stats`), what a task
counts next (`owed`), and the ticker, which swaps the atomics one at a time (`step`,
`line`) into emitted lines (`reported`).

**WarnLimiter** is `admit()` with one action per atomic operation. The operations are
relaxed, so `Load` may return any value `last` has held (`held`); the compare-exchange, the
add and the swap act on the newest. The clock may be set to anything at any time.

**Scoring** holds the pure part: the score (an exact fraction where the code has a
float), the permanent block, and `SelectProbeCandidates`. **ScoreStore** is the SQLite
table (`rows`) and the `record()` calls under way (`rec`), one action per SQL statement,
with statements that fail, a process that dies and an unusable file that is recreated;
`past` remembers the exact history that the table rounds and clamps. What a start would
select is evaluated on every table the store reaches.

**Credentials** has the bearer capability B2 with AUTH v2 and the key-bound capability B1
with AUTH v3: what is signed, encoded, decoded and verified, in the code's order.
Signatures and codes are symbolic (the key and the message), an encoding is the sequence
of its fields. **Provision** is what happens before a session: `--generate-relay-keypair`
with its file, write and print apart and a process that may die between them
(`keygen`, `seedFile`, `published`), the issuer's answer (`capFile`), the start of a
relay (`relayRun`), and `make-config-link` (`link`).

**Establish** extends Provision with one session. The client (`cl`) is a probe, a ferry, a
ferry over a host's TLS (`fds`), a chain relay or a visitor, with one of the configurations
`cfg`; `up` and `down` are the two streams, in parts, and a read returns any number of them; the gate (`gate`) is
`gate_stream` with its two reads, its decision and what follows, up to the first bytes that
reach the backend or the cover site (`got`). Client and relay read clocks of their own.

**FrontUp** is the loop that reads the local stream: `Decide` chooses whether the read has a
timeout, `NextFrame` writes one frame. Instants are kept as ages that stop at the
last threshold the code compares them with, so time is not bounded.

**Tunnel** is a row of nodes, the client's ferry and one or more relays, with a connection
between each two (`stream`, per direction: written, in flight, shut down). A node
has a pump for each direction; `NodeEnds` is the `select!` of the client and the `try_join!` of a relay.
A node that returns drops its streams, which breaks what it did not shut down. Frames
are units here and chaff may be due at any time; `Framing` has their bytes and
`FrontUp` the schedule.

**Framing** is the codec as operators over sequences of bytes whose digits are
scaled down, and a reader that decodes what arrives in pieces: frames that were encoded, or any
bytes at all (`from`).

The `MC*` modules give the constants their values. An operator whose comment starts
with "(Fault: ...)" is a plausible bug, used to see that a property notices it;
no specification uses one.

## Runs

| run | question |
|---|---|
| `slot` | Do three sessions, installed out of order, stopped, broken or starved, keep the slot, the listeners and two tunnels consistent? Does the slot implement `SessionService`, liveness included? |
| `fsm` | Do the reducer's effects keep the caller's proxy and scores in step with its state, whatever the events? |
| `ffi` | With three `veil_start` and stops at any time: all of a session or nothing, into an empty slot, and for the latest failure a reason of its own, not a stale one? |
| `race` | Three probes that succeed, fail, time out, are cancelled or panic: are scores honest, is every loser cancelled and none that still waits started, does the call return? |
| `relay` | Are permits and per-address counts exact on all paths, and given back by silent peers? Is every accepted connection in exactly one counter, of the right kind, across flushes? |
| `warn` | Is every invalid AUTH frame told exactly once, with warnings a window apart, whatever the interleaving and the clock? |
| `score_store` | Do blocks follow the history, can a failure raise a score, does pruning recover from a crash? On every table reached: is there always a candidate, are blocked methods only a last resort, are the best taken first? |
| `establish` | Does the gate admit only the entitled, and all whose AUTH frame it has whole within its two reads, wherever reads end and clocks differ? Does it lose no byte? Is a probe's verdict true? Do credentials go to the pinned key only, descriptors get closed once, printed identities survive crashes, chain relays start whole, and all dials end? |
| `front_up` | Does every local byte reach the relay in order, is chaff bounded, does an idle tunnel come to rest, and only when nothing is due? |
| `tunnel` | Over a chain of two relays, with chaff and a fault anywhere: do AUTH and CHAFF stay on their hop, and does EOF mean that everything arrived? |
| `tunnel_live` | Over one relay, with a fault anywhere: does what was sent arrive in order, does every node end when it should, and is a request never held back? |
| `framing` | Does a stream decode to what was encoded, however it is cut? On any other bytes, does the decoder reach a verdict within a bounded buffer, and accept canonical headers only? |

Every property of every run holds. The type invariants `FsmTypeOK`, `TypeOK` and
`RelayTypeOK` say what the variables hold and are for the reader; `SlotTypeOK`, `AdmTypeOK`,
`WarnTypeOK` and those of the proof modules are proved.

### Comments and code that disagree

The models follow the code. In these places a comment says something else; each of
its statements is false of the model, and no run claims it:

* `reducer.rs:273`: Degraded at the threshold goes to Idle with StopActive; the
  comment at 271 and the one at `types.rs:167` say it goes to probing. The reducer's
  test agrees with the code.
* `execute_probe_with_params` (`coordinator.rs:940`) leaves no last error. One method
  is registered by `veil_start`, so this is the path every such call takes, and the host reads
  the generic text instead of the one `ffi.rs:453` describes.
* `ffi.rs:381`: a score store that can neither be opened nor recreated fails the
  first `veil_start`; `coordinator.rs:172` says such a store means probing without history.
* `scoring.rs:154` rounds the time of a failure down to the hour, and the penalty is decided
  within five minutes (`fsm/scoring.rs:94`): a fresh failure can look almost an hour old
  and cost almost nothing. Blocks are not affected beyond the hour the comment concedes.
* `scoring.rs:429` orders networks by `MAX(a, b)`, which in SQLite is a scalar function over
  an arbitrary row of the group, not the aggregate that the comment at 422 means. The
  model lets it be any row of the network.
* `veil_front_adapter.rs:449` drops the up half when the down half ends because "nothing
  more can travel either way" (436). When a backend closes only its write side, the relay still
  forwards the up direction.
* `framing.rs:238`: the bucket pads the payload; the two length varints lie outside it and
  vary, so frames of one bucket differ by a byte or two. The doc at 55 counts one length per bucket.
* `capability.rs:589` says each listener enforces its role through `expected_role`; the gate
  (`gate.rs:383`) passes the role the capability itself names, and accepts both. A comment
  beside it says so. `AdmissionIsExact` follows the gate.
* `chain.rs:10` says that `ROLE_USER` tunnels are chained; every admitted tunnel is.
* `veil_front_adapter.rs:559` and `ffi.rs:96` describe the base64 field as a ticket of 65 bytes;
  what is decoded is a capability, of another layout.

Three things the properties leave room for. An entitled client whose AUTH frame arrives in three reads, or whose
second part takes longer than `GATE_READ_TIMEOUT`, is sent to the cover site (`gate.rs:274`-`308`): `AdmissionIsExact`
promises a tunnel only for a frame that is whole within two reads. A loser that read its token just before the
loop at `coordinator.rs:645` came to it dials all the same; `LosersAreCancelled` says that it is cancelled, and that one
still in its stagger delay never starts. And with several transports registered, such a loser of an earlier
race may overwrite the last error of a later call; `FailureIsExplained` promises the call's own error for the one
transport that `veil_start` registers, and some error otherwise.

A difference that no comment mentions: a client checks the validity of its capability before it
writes AUTH (`veil_front_adapter.rs:179`, `188`); a chain relay checks it neither at its start nor
when it dials, and learns of an expired one by being sent to the cover site.

`EofMeansComplete` says nothing of a backend that closed first, because of the drop
at `veil_front_adapter.rs:449`; `FailureNeverHelps` nothing of records that overlap, where an older time stamp
may replace a newer one.

### Bounds

`MaxSessions`, `Starts`: three, so that a session can be replaced while its predecessor
still ends and a third one starts. `Conns` of the slot: two tunnels, of the same or of different
sessions; the Coordinator runs have none, because starts do not read
tunnels. Methods: three in the race (winner, loser and a late one), which has a single
start: overlapping starts meet only in the slot, whose run installs ids in any order. The FFI run has two
methods of which one is registered, as in this build. `U8Max` of 3 or 4 stands for 255: the code compares the
counter with the threshold only, and two values above the threshold
show saturation. Relay: two connections at a time from one address, against one permit
and a cap of one, so both limits are reached and each kind of shedding happens during a
flush. `MaxAccepts`, three, bounds the counters; a slot is then used a second
time. Several addresses and buckets are left to the proofs.

WarnLimiter: three tasks, four frames and a clock over two windows, so that two tasks lose the
exchange to a third and the clock goes back across a window. ScoreStore: two overlapping records
of three, two networks with room for one, an hour of three units and a block of four, so a
block is earned, rounded and expires; `U8Max` is 2, the threshold of a block, so the
clamp matters. For selection the table may also start as an earlier process left it, with entries of
three methods on both sides of every threshold, which compete for two places; then only time
passes and the process may die. Recorders and networks are symmetric.
Establish: an AUTH frame of three parts, others of two, so every read ends inside, at the end of, or
beyond a frame; a probe's limit of three parts and three chaff frames, so the limit is reached;
validity windows `[0, 1]` and `[1, 1]` against clocks of 0 to 2, so each edge is crossed on
either side; two seeds, so a generation can be repeated. A configuration differs from a working one in one respect: a
credential altered, cut or of another issuer, another certificate, key, pin, name, scope or descriptor.
FrontUp: three bytes, three queued chaff frames and a window longer than the
queue lasts. Tunnel: one unit each way, one chaff frame and one fault over a chain of two, which shows
each hop between a framed and a raw neighbour; two units up and one down over one relay, so that order matters. Framing: digits base 4 and varints of three bytes,
with lengths around each bucket and each change of varint length; the code's 128 and
10 bytes enter only through these boundaries.

Deadlock is not checked where the system may stop: the bounded slot and
coordinator come to rest after the last session, a tunnel when its nodes have
ended, a codec after its last byte, an establishment when both sides are done. It is checked in the other runs.

### Fairness

* `SlotFairness`: a spawned task is polled again when its timer, token or lock is ready.
  `ObserveShutdown` has strong fairness: `select!` picks a ready branch at random,
  so a branch ready again and again is taken, but the sleep after an
  accept error disables it in between.
* `Coordinator!Spec`: a call that began and a probe task make progress. A probe is
  bounded by `probe_timeout`; `start` of the shipped method returns at once, although
  the trait does not say so. The host need never call.
* `RelaySpec` and `AdmSpec`: the accept loop, the handshake, both reads and the dial, each of which
  has a timer. A tunnel and a site visit have none, and nothing is assumed of them.
* `UpSpec`: the loop runs whenever it can, and time goes on. The local client need not write
  or close.
* `TunSpec`: each direction of a node is polled when it can go on, and the gate has its timers. Of the
  application and the backend it is assumed that they read what reaches them and close after
  the end of what they read. Networks need not fail, and buffered bytes need not be sent unless flushed:
  `RequestGetsThrough` rests on the flush, not on `Spill`.
* `Establish!Spec`: the client's dial and the gate go on, because every wait of theirs has a timer
  or an error. The AUTH write of a host-terminated ferry has none and is left out of the claim. Nothing is
  assumed of the peer, the backend's answer, the connection to the site, or the operator.
* The other specifications are checked for safety only.

## Proofs

Each theorem holds for every value of the constants, bounds included. Where a bound
appears in a guard, it is an arbitrary number. Every safety property of the runs is proved,
and TLC checked each of them first.

| module | about |
|---|---|
| `CoordinatorProofs` | `SessionSlot`, `VeilFsm`, `Coordinator` |
| `RecordProofs` (extends it) | what a start records and leaves behind |
| `EstablishProofs` | `Provision` and `Establish`: identities, pins, descriptors, bytes, verdicts |
| `AuthProofs` (extends it) | `Establish`: admission |
| `TunnelProofs` | `Tunnel`, and the filter of `Lists` |
| `FramingProofs` | `Framing` |
| `ScoreStoreProofs` | `ScoreStore` |
| `EndProofs` | `FrontUp`, then `Admission`, `Relay` and `WarnLimiter` |

### Induction over data

The library's induction theorems take an operator as a parameter, which the provers cannot
instantiate. `WFMin` (a set that is not empty has a minimal element) is about sets. The
proofs that need it derive from it induction in the form "a set that holds 0, and n + 1 with n, holds every
number" (`Induction`), and then name the set of the numbers that satisfy what they want. The lemma is
short and repeated where it is used: every theorem a module imports makes each of its obligations slower. A recursive function is a `CHOOSE`: that it
satisfies its recursion is shown by building a solution up to every n, which
that induction gives. This is how `Only`, `Value`, `EncodeVarint` and `Wire` are reasoned about; `Value` and `Wire`
are recursive functions and `Lists` has its own filter for that reason.

### The control plane

`CoordinatorProofs` first proves, for any number of sessions and any set of connections,
`SlotTypeOK`, `SlotNamesTheListener`, `TunnelsFollowListener`
and that the slot implements `SessionService!SafetySpec`. The argument is the
invariant `SlotInv`. That the slot names the live listener is not inductive alone:
`UnusedIds` says that an id not handed out has no task (so `FetchId` cannot revive one), and
`SignalsFollowInstall` that only a session that was in the slot is told to end, and that whatever was told to
end or left its loop has its tunnels cancelled. The refinement maps a session's task to its status in the service.

Of the reducer it proves `ProxyMatchesState`, `BoundedTolerance` and `RoundIsAccounted` for any
methods, ports, threshold and sequence of events. `FsmInv` needs `CounterIsExact`: while Active the
saturating counter is the number of failures seen and below the threshold, and Degraded is entered
with a counter at it, so the next failure ends the session. `RoundInv` follows the candidates of a
round through the list that the reducer filters.

Of the coordinator, for any number of starts and any methods, with the FFI or without: every step is a
slot step or leaves the slot alone (`CoordinatorIsSlot`, fairness included because it is the same
formula), so what the slot promises holds there too (`CoordinatorSlot`). It also proves `LosersAreCancelled`,
`FfiInstallsIntoEmptySlot` and `FailureIsExplained`. `CallsInv` adds what these need:
every probe spawned by a start that is beyond its race was cancelled (`ProbesAreCancelled`), an id
is fetched before it is installed, and the one start in progress under the START mutex is the latest
(`LatestIsCurrent`), without which another call could fill the slot between the stop and the install. That a
call's last error is its own needs a second invariant, `Alone`: with one transport no probe task is ever
spawned, and a last error that is not empty was recorded by the latest call.

`RecordProofs` proves `ScoresFollowProbes` and `StartReplacesWhole`. `RecordsInv` says for each place a
call can be in what its record holds: while results come in, those taken from the channel and those still
in it are the results of the probes that ended, one each (`Racing`); the winner is then scored with the
failures before it (`Won`, `Served`), and a call that returned Ok is one that did so (`Done`).

### Establishment

`EstablishProofs` proves `IdentityIsKept`, `ChainIsWhole`, `PinnedPeerOnly`,
`FdsAreClosedOnce`, `BytesAreConserved` and `VerdictIsTrue` for any seeds, command lines, configurations,
frame sizes and clocks. `ProvInv` adds to
the first two that a generation under way holds the seed its file has or is about to
have (`KeygenIsWhole`), and that a capability is for a published key
(`CapFileIsBound`). `ClientInv` adds to the next two that a dialer beyond the
handshake has the pinned peer (`PinnedFromHandshake`), from the lemma on what the verifiers accept.
`BytesInv` says what either stream can hold, an AUTH frame and one of three tails, and what the gate, the
tunnel and the probe hold of it wherever a read ended.

`AuthProofs` proves `AdmissionIsExact`. `AuthInv` follows a capability from the issuer to the file or the link
(`CapFileOK`, `LinkOK`), to the client (`HeldOK`) and into the record it makes of it (`AuthOK`), and the decision
from the read that brought it about (`Decided`). A record that is decoded is the one that was
encoded (`AuthV2RoundTrips`, `AuthV3RoundTrips`), and a signature verifies exactly if its capability was
issued, so verification says what entitles.

### The data plane

`TunnelProofs` proves `HopIsolation`, `DeliveredIsPrefix` and `EofMeansComplete` for a chain of any length. `TunInv`
gives every connection two positions in the sender's bytes, per direction: its reader has taken `lo` of them, its writer
has put `hi` on it, and the rest is on the wire (`Flow`). As long as nothing failed, the end of a
direction spreads from its source (`EndsInOrder`), so an EOF at the far end has all the bytes before it.

`FramingProofs` proves `StreamRoundTrips`, `BufferIsBounded` and `AcceptsOnlyCanonical` for
every digit base, varint length, payload limit, list of buckets and stream. Its lemmas say that `EncodeVarint` writes the
one canonical varint of a value (`EncodeIsWhole`, `WholeIsEncode`); that a buffer is malformed, incomplete, or begins
with one header and all of its payload (`OneOutcome`); and that a frame as the encoder writes it is
read back whatever follows (`DecodeWhole`) while any part of it is incomplete (`DecodePart`). `CodecInv` then needs two ideas: a reader
that waits has found its buffer incomplete, and what was decoded, is buffered and is on the way make up the stream (`Streams`).

`EndProofs` proves `NothingLeftBehind` and `ChaffIsExact` of the up direction, for any cooldown, tick, window,
queue length and number of bytes. `UpInv` has three ideas besides the type: at most one
frame is queued, and only between a read and its emission (`OneFrame`); what was sent, queued and not yet
read is what was written (`InOrder`); and the window is at least as old as the ticks its
chaff took (`Paced`), which turns the count of chaff frames into a bound by division. A read without a timeout
is begun only by a scheduler that is done (`QuietIsDone`), and time does not undo that.

### The relay and the score store

`EndProofs` also proves, for any finite set of connections, any
addresses, buckets and limits, `AdmTypeOK`, `PerIpIsBounded` and
`AdmissionIsAccounted`. The invariant `AdmInv` joins type and exactness; the cap follows from
it. The type part needs exactness, because the entry of
a bucket reaches zero, and is removed, only with its last connection. The
lemmas say how the cardinality of the live connections of a bucket and of the permit holders
changes when one connection moves.

It lifts this to the relay with its counters and proves `SummaryAddsUp`. A counter and the flush that swaps it have one
total, which only a `fetch_add` changes (`FlushShape`: what is not swapped yet is not in the line). `RelayInv` compares
totals with the connections that are where they count: one that is read from was completed and may still become a
tunnel, one in a tunnel may still fail (`RoomLeft`), and a task owes an increment only at the gate or
the dial (`OwedFits`). Each step moves one connection, so each number changes by one at most.

`NoFrameIsForgotten` and `WarningsAreSpaced` hold for any finite
set of tasks, any window and any clock. `WarnInv` adds to the first that a task
about to exchange found the window over (`ExchangeIsDue`). Spacing follows from it and
the success of the compare-exchange, which says that the value loaded, however old, is the newest.

`ScoreStoreProofs` proves `BlockFollowsHistory`, `PruneCatchesUp`, `FailureNeverHelps` and
`SelectionIsSound` of the store, for any networks, methods, overlapping calls and times. `StoreInv` says that a row tells the history of its
method up to the rounding to the hour (`RowsTellHistory`), that no failure lies in the future (`FailuresArePast`),
and that nothing changes the table under a call that runs alone (`AloneIsAlone`). Selection is about any table: the
order of the fractions is total, so a best method exists in every set of open ones.

### Assumptions

All are on constants, and TLC evaluates them in the runs:

* `SlotAssumption` (at least one session), `MethodsAssumption` (the empty string is no method),
  `ReducerAssumption` (natural thresholds, the counter's range);
* `AdmissionAssumption` (finitely many connections, natural limits, a bucket for each address),
  `WarnAssumption` (finitely many tasks, a positive window), `FrontAssumption` (positive times and sizes),
  `TunnelAssumption` (at least one relay);
* `ScoringAssumption` and `StoreAssumption` (natural numbers, finitely many networks and methods; a block takes
  no more failures than a u8 counts);
* `SeedAssumption` (no seed is the mark of a missing or torn file), `EstablishAssumption` (a frame has a part),
  `ConfigsAssumption` (a descriptor is negative or open, only a visitor sends something other than AUTH
  first), and `IssuedAssumption`: nobody else signs for the issuer, so a capability a client is given verifies only if it was issued;
* `FramingAssumption` (natural limits, a base above 1, payloads a sender may send; the largest frame fits a usize, so
  the checked additions at `framing.rs:322` cannot fail) and `LengthsAssumption`: the encoding
  of every length up to `max_payload` is within `VARINT_MAX_BYTES` and a u64, and no bucket is above
  `max_payload`. The codec in use has 1 MiB for `max_payload` (`framing.rs:45`), which takes three bytes of ten, and
  buckets that end far below it (`framing.rs:59`). A codec with a `max_payload` smaller than a bucket
  would refuse frames of its own encoder; only tests set one.

### Only model-checked

The liveness properties, which need fairness: `SessionsEnd`, the liveness part of
`ImplementsService`, `EveryStartReturns`, `SilentPeerIsDropped`, `GoesQuiet`, `AllEnd`,
`RequestGetsThrough`, `EveryDialEnds`.

## Not modelled

* Cryptography itself: signatures, codes and the TLS exporter are symbolic and cannot be forged.
* TLS fingerprints and client configuration: cipher and extension lists without state.
* The 65-byte ticket codec and the AUTH v1 record, which neither client nor relay uses, and
  the byte layout of capabilities beyond the order of their fields. A scope is a string from the start: the
  rejection of one that is not UTF-8 (`capability.rs:262`, `521`) has no counterpart.
* The relay's built-in site, which writes one fixed page, and `handle_external_stream`, which nothing calls.
* The formatting, QR code and hints of the command-line tools; the C strings of the FFI request, its
  buffer copies and the panics `ffi_guard` catches.
* The relay's progress log and the windows of its idle chaff, which may be due at any time here.
* Back-pressure: a writer never blocks.

## Plan

1. `Coordinator` with scores that persist across starts, composed with `ScoreStore`.
2. `Tunnel` with back-pressure: a bounded stream, where the two directions of a node could
   wait for each other; and an abstract specification of it, two FIFO byte streams.
3. Proofs of the liveness properties, once the prover handles fairness.
