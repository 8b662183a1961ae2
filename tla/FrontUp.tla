------------------------------- MODULE FrontUp -------------------------------
(***************************************************************************)
(* The up direction of a client tunnel: the loop of run_ferry              *)
(* (src/veil/veil_front_adapter.rs) that reads the local stream, the       *)
(* WriteStrategy that puts payload before chaff, and the front-loaded      *)
(* FrontChaffScheduler (src/veil/veil_front/padding/mode0_front.rs).       *)
(*                                                                         *)
(* An Instant is known by its age, which stops at the last threshold the   *)
(* code compares it with, so time itself is unbounded.  Local bytes are    *)
(* numbered; chaff is only counted.                                        *)
(***************************************************************************)
EXTENDS Integers, Sequences

CONSTANTS
    Cooldown,       \* PAYLOAD_COOLDOWN
    IdleTick,       \* the 20 ms timeout of a local read
    FrontWindow,    \* FRONT_WINDOW
    MaxChaffQueue,  \* MAX_CHAFF_QUEUE
    MaxBytes        \* bound on the bytes the local client writes

ASSUME FrontAssumption ==
    {Cooldown, IdleTick, FrontWindow, MaxChaffQueue, MaxBytes} \subseteq Nat \ {0}

VARIABLES
    local,      \* bytes the client wrote that are not read yet
    written,    \* number of bytes the client wrote
    eof,        \* the client closed its write side
    phase,      \* where the loop is
    timer,      \* what is left of the read's timeout
    queue,      \* PayloadQueue: DATA frames
    sched,      \* FrontChaffScheduler
    sent        \* the bytes of the DATA frames written to the relay

upVars == <<local, written, eof, phase, timer, queue, sched, sent>>

NotYet == -1        \* connection_start is None
NoTimer == -1       \* the read has no timeout
Over == {"closed", "failed", "dropped"}

UpInit ==
    /\ local = <<>> /\ written = 0 /\ eof = FALSE
    /\ phase = "decide"
    /\ timer = NoTimer
    /\ queue = <<>>
    /\ sched = [start |-> NotYet, payload |-> Cooldown, index |-> 0, closed |-> FALSE,
                chaff |-> 0]
    /\ sent = <<>>

\* FrontChaffScheduler::is_done
\* (Fault: the window alone decides.)
IsDoneEarly(s) == s.closed \/ s.start = FrontWindow

IsDone(s) == (s.closed \/ s.start = FrontWindow) /\ s.index >= MaxChaffQueue

ShouldInjectChaff(s) == s.payload >= Cooldown /\ (s.closed => s.index < MaxChaffQueue)

\* FrontChaffScheduler::poll_chaff: the first poll opens the window.
PollChaff(s) ==
    LET begun == IF s.start = NotYet THEN 0 ELSE s.start
        t == [s EXCEPT !.start = begun, !.closed = @ \/ begun >= FrontWindow]
    IN  IF ShouldInjectChaff(t)
        THEN [t EXCEPT !.index = IF @ < MaxChaffQueue THEN @ + 1 ELSE @, !.chaff = @ + 1]
        ELSE t

\* WriteStrategy::waits_for_payload
WaitsForPayload == queue = <<>> /\ IsDone(sched)

\* The loop starts a read of the local stream, with a timeout while chaff is owed.
\* (Fault: always with a timeout.)
DecideTicking ==
    /\ phase = "decide"
    /\ phase' = "read"
    /\ timer' = IdleTick
    /\ UNCHANGED <<local, written, eof, queue, sched, sent>>

Decide ==
    /\ phase = "decide"
    /\ phase' = "read"
    /\ timer' = IF WaitsForPayload THEN NoTimer ELSE IdleTick
    /\ UNCHANGED <<local, written, eof, queue, sched, sent>>

\* The read returns some of the bytes there are.
ReadBytes ==
    /\ phase = "read"
    /\ \E n \in 1..Len(local) :
          /\ queue' = Append(queue, SubSeq(local, 1, n))
          /\ local' = SubSeq(local, n + 1, Len(local))
    /\ phase' = "emit"
    /\ UNCHANGED <<written, eof, timer, sched, sent>>

ReadEof ==
    /\ phase = "read"
    /\ eof /\ local = <<>>
    /\ phase' = "closed"
    /\ UNCHANGED <<local, written, eof, timer, queue, sched, sent>>

\* timeout() polls the read first: it elapses only when there is nothing to read.
ReadTimeout ==
    /\ phase = "read"
    /\ timer = 0
    /\ local = <<>> /\ ~eof
    /\ phase' = "emit"
    /\ UNCHANGED <<local, written, eof, timer, queue, sched, sent>>

\* next_wire, one frame: a queued payload, else what the scheduler has.
\* (Fault: chaff first.)
NextFrameChaffFirst ==
    /\ phase = "emit"
    /\ IF queue # <<>> /\ PollChaff(sched).chaff = sched.chaff
       THEN /\ sent' = sent \o Head(queue)
            /\ queue' = Tail(queue)
            /\ sched' = [sched EXCEPT !.payload = 0]
       ELSE /\ sched' = PollChaff(sched)
            /\ UNCHANGED <<queue, sent>>
    /\ phase' = "decide"
    /\ UNCHANGED <<local, written, eof, timer>>

NextFrame ==
    /\ phase = "emit"
    /\ IF queue # <<>>
       THEN /\ sent' = sent \o Head(queue)
            /\ queue' = Tail(queue)
            /\ sched' = [sched EXCEPT !.payload = 0]
       ELSE /\ sched' = PollChaff(sched)
            /\ UNCHANGED <<queue, sent>>
    /\ phase' = "decide"
    /\ UNCHANGED <<local, written, eof, timer>>

\* A read or a write fails, or the down half ends first and the up half is dropped.
UpEnds ==
    /\ \/ phase = "read"
       \/ phase = "emit" /\ (queue # <<>> \/ PollChaff(sched).chaff > sched.chaff)
    /\ phase' \in {"failed", "dropped"}
    /\ UNCHANGED <<local, written, eof, timer, queue, sched, sent>>

ClientWrites ==
    /\ ~eof /\ written < MaxBytes
    /\ written' = written + 1
    /\ local' = Append(local, written')
    /\ UNCHANGED <<eof, phase, timer, queue, sched, sent>>

ClientCloses ==
    /\ ~eof
    /\ eof' = TRUE
    /\ UNCHANGED <<local, written, phase, timer, queue, sched, sent>>

Older(age, last) == IF age < last THEN age + 1 ELSE age

\* Time passes.
Tick ==
    /\ timer' = IF timer > 0 THEN timer - 1 ELSE timer
    /\ sched' = [sched EXCEPT !.payload = Older(@, Cooldown),
                              !.start = IF @ = NotYet THEN @ ELSE Older(@, FrontWindow)]
    /\ UNCHANGED <<local, written, eof, phase, queue, sent>>

Loop == Decide \/ ReadBytes \/ ReadEof \/ ReadTimeout \/ NextFrame

UpNext == Loop \/ UpEnds \/ ClientWrites \/ ClientCloses \/ Tick

\* The runtime polls the task again whenever it can run, and time goes on.
UpSpec == UpInit /\ [][UpNext]_upVars /\ WF_upVars(Loop) /\ WF_upVars(Tick)

-----------------------------------------------------------------------------
(* Properties.                                                             *)

Iota(n) == [i \in 1..n |-> i]

\* The frame that waits to be written; the bytes of a second one would be missing below.
Queued == IF queue = <<>> THEN <<>> ELSE Head(queue)

\* Every byte read is written to the relay in order before the next read begins, so none is
\* queued when the loop ends at EOF: the break skips next_wire, which is right only because
\* a payload never waits behind chaff.
NothingLeftBehind ==
    /\ sent \o Queued \o local = Iota(written)
    /\ phase \in {"decide", "read", "closed"} => queue = <<>>

\* While the loop waits for the local stream with no timeout, nothing is due and
\* nothing becomes due later: an idle tunnel misses no chaff (waits_for_local).
QuietMeansNothingDue ==
    phase = "read" /\ timer = NoTimer =>
        /\ queue = <<>>
        /\ \A start \in sched.start..FrontWindow, payload \in sched.payload..Cooldown :
              PollChaff([sched EXCEPT !.start = start, !.payload = payload]).chaff = sched.chaff

\* A tunnel sends no more chaff than its queue, or than one frame for each tick of the
\* front window if that is more, however reads, payload and the window interleave.
ChaffIsBudgeted ==
    LET inWindow == (FrontWindow + IdleTick - 1) \div IdleTick
    IN  sched.chaff <= IF inWindow > MaxChaffQueue THEN inWindow ELSE MaxChaffQueue

\* The chaff of a tunnel is exact: what is due is not slept through, and no more is sent than
\* was planned.  (waits_for_local, FrontChaffScheduler.)
ChaffIsExact == QuietMeansNothingDue /\ ChaffIsBudgeted

\* A tunnel whose client stops writing ends or comes to rest in a read without a timeout:
\* "an idle tunnel must not wake the device".
GoesQuiet == <>[](phase \in Over \/ (phase = "read" /\ timer = NoTimer))
=============================================================================
