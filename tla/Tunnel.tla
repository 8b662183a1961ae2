------------------------------- MODULE Tunnel -------------------------------
(***************************************************************************)
(* A tunnel end to end: the application's local stream, the client's ferry *)
(* (run_ferry, node 0), relays 1 .. Relays of which all but the last are   *)
(* in chain mode (chain.rs) and the last talks to the backend (tunnel.rs). *)
(*                                                                         *)
(* Connection j joins node j - 1, or the application, to node j, or the    *)
(* backend.  Connections 1 .. Relays carry frames, 0 and Relays + 1 raw    *)
(* bytes.  What is written but not flushed is in buf.  A dropped stream    *)
(* that was not shut down, like a broken network, leaves the connection    *)
(* broken: a reader then gets an error, with or without what was in        *)
(* flight, or, where nothing authenticates the end, EOF.                   *)
(*                                                                         *)
(* Payload is numbered per direction.  Frames are the unit of reads; their *)
(* encoding is in Framing.  Chaff may be due at any time: FrontUp has the  *)
(* schedule.  Writers never block.                                         *)
(***************************************************************************)
EXTENDS Integers, Lists, Functions

CONSTANTS
    Relays,     \* number of relays
    MaxUp,      \* bound on the bytes the application writes
    MaxDown,    \* bound on the bytes the backend writes
    MaxChaff,   \* bound on idle chaff frames
    MaxFaults   \* bound on broken connections and cancelled ferries

ASSUME TunnelAssumption == Relays \in Nat \ {0} /\ {MaxUp, MaxDown, MaxChaff, MaxFaults} \subseteq Nat

Nodes == 0..Relays
Conns == 0..Relays + 1
Dirs == {"up", "down"}

VARIABLES
    node,       \* node[i]: "idle" before its connection, "gate", "run", "ended"
    pump,       \* pump[i][d]: the direction's future: "run", "done", "err"
    stream,     \* stream[j][d]: [buf, wire, fin]
    broken,     \* connections that broke
    app,        \* [sent, got, closed, end]: the application
    backend,    \* likewise
    chaffs,     \* idle chaff frames so far
    faults      \* faults so far

tunVars == <<node, pump, stream, broken, app, backend, chaffs, faults>>

Data(n) == [type |-> "data", id |-> n]
Chaff(i) == [type |-> "chaff", id |-> i]
Auth(i) == [type |-> "auth", id |-> i]
DataFrames == [type : {"data"}, id : Nat]

In(i, d) == IF d = "up" THEN i ELSE i + 1
Out(i, d) == IF d = "up" THEN i + 1 ELSE i

NewStream(frames) == [buf |-> <<>>, wire |-> frames, fin |-> FALSE]
NewPeer == [sent |-> 0, got |-> <<>>, closed |-> FALSE, end |-> "none"]

\* The client's AUTH is on its way.
TunInit ==
    /\ node = [i \in Nodes |-> CASE i = 0 -> "run" [] i = 1 -> "gate" [] OTHER -> "idle"]
    /\ pump = [i \in Nodes |-> [d \in Dirs |-> "run"]]
    /\ stream = [j \in Conns |-> [d \in Dirs |->
                   NewStream(IF j = 1 /\ d = "up" THEN <<Auth(0)>> ELSE <<>>)]]
    /\ broken = {}
    /\ app = NewPeer /\ backend = NewPeer
    /\ chaffs = 0 /\ faults = 0

\* Writing frames to a stream of connection j, and flushing it.  Nothing gets through a
\* connection once it is broken.
Wrote(s, j, frames) ==
    [buf |-> IF j \in broken THEN s.buf ELSE s.buf \o frames, wire |-> s.wire, fin |-> s.fin]
Flushed(s) == [buf |-> <<>>, wire |-> s.wire \o s.buf, fin |-> s.fin]

\* The gate consumes AUTH, leaving what follows it to the ferry, and the relay dials: in
\* chain mode with an AUTH of its own, else the backend, after which it sends the
\* initial CHAFF.
\* (Fault: what follows AUTH in the same read is lost.)
GateAndDialAlone(i) ==
    /\ node[i] = "gate"
    /\ stream[i]["up"].wire # <<>>
    /\ node' = [k \in Nodes |-> CASE k = i -> "run" [] k = i + 1 -> "gate" [] OTHER -> node[k]]
    /\ stream' = [stream EXCEPT
                    ![i]["up"].wire = <<>>,
                    ![i]["down"] = IF i = Relays THEN Flushed(Wrote(@, i, <<Chaff(i)>>)) ELSE @,
                    ![i + 1]["up"] = IF i < Relays THEN Flushed(Wrote(@, i + 1, <<Auth(i)>>)) ELSE @]
    /\ UNCHANGED <<pump, broken, app, backend, chaffs, faults>>

GateAndDial(i) ==
    /\ node[i] = "gate"
    /\ stream[i]["up"].wire # <<>>
    /\ node' = [k \in Nodes |-> CASE k = i -> "run" [] k = i + 1 -> "gate" [] OTHER -> node[k]]
    /\ stream' = [stream EXCEPT
                    ![i]["up"].wire = Tail(@),
                    ![i]["down"] = IF i = Relays THEN Flushed(Wrote(@, i, <<Chaff(i)>>)) ELSE @,
                    ![i + 1]["up"] = IF i < Relays THEN Flushed(Wrote(@, i + 1, <<Auth(i)>>)) ELSE @]
    /\ UNCHANGED <<pump, broken, app, backend, chaffs, faults>>

\* The dial fails, or the client's connection broke before AUTH was read.
GateFails(i) ==
    /\ node[i] = "gate"
    /\ faults < MaxFaults \/ i \in broken
    /\ faults' = IF i \in broken THEN faults ELSE faults + 1
    /\ node' = [node EXCEPT ![i] = "ended"]
    /\ broken' = broken \cup {i}
    /\ UNCHANGED <<pump, stream, app, backend, chaffs>>

Running(i, d) == node[i] = "run" /\ pump[i][d] = "run"

\* One read of a direction: the frames it completes, DATA written on, the rest dropped,
\* then a flush if anything was written.
\* (Fault: no flush.)
PumpUnflushed(i, d) ==
    /\ Running(i, d)
    /\ \E n \in 1..Len(stream[In(i, d)][d].wire) :
          LET read == SubSeq(stream[In(i, d)][d].wire, 1, n)
              payload == Only(read, DataFrames)
          IN  stream' = [stream EXCEPT
                 ![In(i, d)][d].wire = SubSeq(@, n + 1, Len(@)),
                 ![Out(i, d)][d] = Wrote(@, Out(i, d), payload)]
    /\ UNCHANGED <<node, pump, broken, app, backend, chaffs, faults>>

\* (Fault: CHAFF is passed on.)
PumpAll(i, d) ==
    /\ Running(i, d)
    /\ \E n \in 1..Len(stream[In(i, d)][d].wire) :
          LET read == SubSeq(stream[In(i, d)][d].wire, 1, n)
          IN  stream' = [stream EXCEPT
                 ![In(i, d)][d].wire = SubSeq(@, n + 1, Len(@)),
                 ![Out(i, d)][d] = Flushed(Wrote(@, Out(i, d), read))]
    /\ UNCHANGED <<node, pump, broken, app, backend, chaffs, faults>>

Pump(i, d) ==
    /\ Running(i, d)
    /\ \E n \in 1..Len(stream[In(i, d)][d].wire) :
          LET read == SubSeq(stream[In(i, d)][d].wire, 1, n)
              payload == Only(read, DataFrames)
          IN  stream' = [stream EXCEPT
                 ![In(i, d)][d].wire = SubSeq(@, n + 1, Len(@)),
                 ![Out(i, d)][d] = IF payload = <<>> THEN @ ELSE Flushed(Wrote(@, Out(i, d), payload))]
    /\ UNCHANGED <<node, pump, broken, app, backend, chaffs, faults>>

AtEof(j, d) == stream[j][d].wire = <<>> /\ (stream[j][d].fin \/ j \in broken)

\* EOF: shut the other side down, which flushes it.
PumpEof(i, d) ==
    /\ Running(i, d)
    /\ AtEof(In(i, d), d)
    /\ pump' = [pump EXCEPT ![i][d] = "done"]
    /\ stream' = [stream EXCEPT ![Out(i, d)][d] = [Flushed(@) EXCEPT !.fin = TRUE]]
    /\ UNCHANGED <<node, broken, app, backend, chaffs, faults>>

\* A read fails, or a write of what was read.
PumpErr(i, d) ==
    /\ Running(i, d)
    /\ \/ In(i, d) \in broken
       \/ /\ Out(i, d) \in broken
          /\ stream[In(i, d)][d].wire # <<>> \/ AtEof(In(i, d), d)
    /\ pump' = [pump EXCEPT ![i][d] = "err"]
    /\ UNCHANGED <<node, stream, broken, app, backend, chaffs, faults>>

\* Idle chaff: up from the client, flushed; down from a relay, left for the next flush.
IdleChaff(i) ==
    LET d == IF i = 0 THEN "up" ELSE "down" IN
    /\ Running(i, d)
    /\ chaffs < MaxChaff
    /\ chaffs' = chaffs + 1
    /\ stream' = [stream EXCEPT ![Out(i, d)][d] =
                    LET s == Wrote(@, Out(i, d), <<Chaff(i)>>)
                    IN  IF i = 0 THEN Flushed(s) ELSE s]
    /\ UNCHANGED <<node, pump, broken, app, backend, faults>>

\* A TLS session may send what it has without being flushed.
Spill(j, d) ==
    /\ stream[j][d].buf # <<>>
    /\ stream' = [stream EXCEPT ![j][d] = Flushed(@)]
    /\ UNCHANGED <<node, pump, broken, app, backend, chaffs, faults>>

\* Node i drops its streams: what it did not read or flush is gone, and a direction it
\* did not finish leaves both its connections broken.
DropStreams(i) ==
    /\ node' = [node EXCEPT ![i] = "ended"]
    /\ broken' = broken \cup UNION {{In(i, d), Out(i, d)} : d \in {e \in Dirs : pump[i][e] # "done"}}
    /\ stream' = [j \in Conns |-> [d \in Dirs |->
                     IF j = In(i, d) THEN [stream[j][d] EXCEPT !.wire = <<>>]
                     ELSE IF j = Out(i, d) THEN [stream[j][d] EXCEPT !.buf = <<>>]
                     ELSE stream[j][d]]]

\* select! of the client: the down half ends it, the up half only with an error.
\* (Fault: whichever ends first.)
FerryOverEither == \E d \in Dirs : pump[0][d] # "run"

\* (Fault: join! of both.)
FerryOverBoth == \A d \in Dirs : pump[0][d] # "run"

FerryOver == pump[0]["down"] # "run" \/ pump[0]["up"] = "err"

\* try_join! of a relay: both done, or one error.
TunnelOver(i) == (\A d \in Dirs : pump[i][d] = "done") \/ (\E d \in Dirs : pump[i][d] = "err")

NodeEnds(i) ==
    /\ node[i] = "run"
    /\ IF i = 0 THEN FerryOver ELSE TunnelOver(i)
    /\ DropStreams(i)
    /\ UNCHANGED <<pump, app, backend, chaffs, faults>>

\* The session's token cancels the ferry.
CancelFerry ==
    /\ node[0] = "run" /\ faults < MaxFaults
    /\ faults' = faults + 1
    /\ DropStreams(0)
    /\ UNCHANGED <<pump, app, backend, chaffs>>

\* The network, or a peer process, takes a connection away.
LinkBreaks(j) ==
    /\ faults < MaxFaults /\ j \notin broken
    /\ node[IF j = 0 THEN 0 ELSE j - 1] = "run"
    /\ faults' = faults + 1
    /\ broken' = broken \cup {j}
    /\ UNCHANGED <<node, pump, stream, app, backend, chaffs>>

-----------------------------------------------------------------------------
(* The application and the backend.                                        *)

Write(peer, j, d) ==
    /\ ~peer.closed /\ peer.sent < (IF d = "up" THEN MaxUp ELSE MaxDown)
    /\ j \notin broken
    /\ stream' = [stream EXCEPT ![j][d] = Flushed(Wrote(@, j, <<Data(peer.sent + 1)>>))]
    /\ UNCHANGED <<node, pump, broken, chaffs, faults>>

AppWrites ==
    /\ Write(app, 0, "up")
    /\ app' = [app EXCEPT !.sent = @ + 1]
    /\ UNCHANGED backend

BackendWrites ==
    /\ node[Relays] # "idle" /\ node[Relays] # "gate"
    /\ Write(backend, Relays + 1, "down")
    /\ backend' = [backend EXCEPT !.sent = @ + 1]
    /\ UNCHANGED app

Close(peer, j, d) ==
    /\ ~peer.closed
    /\ stream' = [stream EXCEPT ![j][d].fin = TRUE]
    /\ UNCHANGED <<node, pump, broken, chaffs, faults>>

AppCloses ==
    /\ Close(app, 0, "up")
    /\ app' = [app EXCEPT !.closed = TRUE]
    /\ UNCHANGED backend

BackendCloses ==
    /\ node[Relays] # "idle" /\ node[Relays] # "gate"
    /\ Close(backend, Relays + 1, "down")
    /\ backend' = [backend EXCEPT !.closed = TRUE]
    /\ UNCHANGED app

\* A peer reads what there is, or sees the end: EOF, or an error if the connection broke.
Receive(peer, j, d, next) ==
    /\ peer.end = "none"
    /\ \/ /\ stream[j][d].wire # <<>>
          /\ next = [peer EXCEPT !.got = @ \o stream[j][d].wire]
          /\ stream' = [stream EXCEPT ![j][d].wire = <<>>]
       \/ AtEof(j, d) /\ next = [peer EXCEPT !.end = "eof"] /\ UNCHANGED stream
       \/ j \in broken /\ next = [peer EXCEPT !.end = "err"] /\ UNCHANGED stream
    /\ UNCHANGED <<node, pump, broken, chaffs, faults>>

AppReceives == Receive(app, 0, "down", app') /\ UNCHANGED backend
BackendReceives == Receive(backend, Relays + 1, "up", backend') /\ UNCHANGED app

Steps(i) ==
    \/ \E d \in Dirs : Pump(i, d) \/ PumpEof(i, d) \/ PumpErr(i, d)
    \/ NodeEnds(i)

Gates(i) == GateAndDial(i) \/ GateFails(i)

TunNext ==
    \/ \E i \in Nodes : Steps(i) \/ IdleChaff(i)
    \/ \E i \in Nodes \ {0} : Gates(i)
    \/ \E j \in 1..Relays, d \in Dirs : Spill(j, d)
    \/ \E j \in Conns : LinkBreaks(j)
    \/ CancelFerry
    \/ AppWrites \/ AppCloses \/ AppReceives
    \/ BackendWrites \/ BackendCloses \/ BackendReceives

\* Each direction is polled when it can go on, and the peers read what reaches them and close
\* their side after its end.
TunFair ==
    /\ \A i \in Nodes :
          /\ \A d \in Dirs : WF_tunVars(Pump(i, d) \/ PumpEof(i, d) \/ PumpErr(i, d))
          /\ WF_tunVars(NodeEnds(i))
    /\ \A i \in Nodes \ {0} : WF_tunVars(Gates(i))
    /\ WF_tunVars(AppReceives) /\ WF_tunVars(BackendReceives)
    /\ WF_tunVars(app.end # "none" /\ AppCloses)
    /\ WF_tunVars(backend.end # "none" /\ BackendCloses)

TunSpec == TunInit /\ [][TunNext]_tunVars /\ TunFair

-----------------------------------------------------------------------------
(* Properties.                                                             *)

Numbered(n) == [k \in 1..n |-> Data(k)]

\* What an end has received is a prefix of what the other has sent, through every hop's
\* decoding, chaff, re-framing, buffering, and however the tunnel broke.
DeliveredIsPrefix ==
    /\ \E n \in 0..app.sent : backend.got = Numbered(n)
    /\ \E n \in 0..backend.sent : app.got = Numbered(n)

\* "AUTH and CHAFF frames never cross a hop" (chain.rs): a frame that is not payload is on the
\* connection its writer put it on, and none is on a raw connection.
HopIsolation ==
    \A j \in Conns, d \in Dirs :
        \A f \in Range(stream[j][d].wire) \cup Range(stream[j][d].buf) :
            f.type # "data" => j \in 1..Relays /\ f.id = (IF d = "up" THEN j - 1 ELSE j)

\* EOF is never mistaken for completeness: as long as no connection broke by itself, the
\* application that sees EOF has the whole response, also after it closed its own side
\* (run_ferry's asymmetric half-close), and so has a backend that did not close first.
EofMeansComplete ==
    faults = 0 =>
        /\ app.end = "eof" => app.got = Numbered(backend.sent) /\ backend.closed
        /\ backend.end = "eof" /\ ~backend.closed => backend.got = Numbered(app.sent) /\ app.closed

\* When the application has closed or any node has ended, every node ends: no ferry waits
\* forever on a stream whose other side is gone.
AllEnd ==
    (app.closed \/ \E i \in Nodes : node[i] = "ended")
        ~> (\A i \in Nodes : node[i] \in {"ended", "idle"})

\* A request is not held back: everything the application wrote reaches the backend,
\* without another byte being needed to push it, unless a node ends.
RequestGetsThrough ==
    <>[](\/ backend.got = Numbered(app.sent)
         \/ \E i \in Nodes : node[i] = "ended")

=============================================================================
