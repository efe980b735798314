---------------------------- MODULE EventSource ----------------------------
(***************************************************************************)
(* The producer's source against the clock: the SSE parser, the reconnect  *)
(* loop with its timeouts and backoff, the Jetstream variant of that loop, *)
(* the heartbeat written from it and the stop that has to be noticed in it *)
(* (sources/{sse,backoff,wikimedia,jetstream}.py, producer/{__main__,      *)
(* heartbeat,healthcheck}.py).  Producer models what becomes of a frame    *)
(* after it was handed over; here that takes no time.                      *)
(*                                                                         *)
(* Time is counted in ticks.  A frame is an index in the feed; on the wire *)
(* a Wikimedia frame is four lines, its id, two parts of its data and a    *)
(* blank line, with keep-alive comments between frames.                    *)
(***************************************************************************)
EXTENDS Integers, Sequences

CONSTANTS
    Sources,           \* the values of source_name to check
    ConnectTimeout,    \* source_connect_timeout_seconds
    ReadTimeout,       \* source_read_timeout_seconds
    BackoffInitial,    \* source_backoff_initial_seconds
    BackoffMax,        \* source_backoff_max_seconds
    StatsInterval,     \* kafka_stats_interval_seconds
    HeartbeatTimeout,  \* producer_heartbeat_timeout_seconds
    FlushTimeout,      \* --flush-timeout
    MaxExponent,       \* the largest e for which 2.0 ** e is a float
    MaxFeed,           \* bound: frames emitted
    MaxAttempts,       \* bound: consecutive failures
    MaxSigns           \* bound: up to here lines are counted

ASSUME EventSourceAssumption ==
    /\ Sources \subseteq {"wikimedia", "jetstream"}
    /\ {ConnectTimeout, ReadTimeout, BackoffInitial, BackoffMax, StatsInterval,
        HeartbeatTimeout, FlushTimeout, MaxSigns} \subseteq Nat \ {0}
    /\ BackoffInitial <= BackoffMax
    /\ {MaxExponent, MaxFeed, MaxAttempts} \subseteq Nat

VARIABLES
    source,   \* which implementation build_source returned
    feed,     \* feed[i]: does frame i decode to an object with a cursor in it
    pc,       \* where the main thread is
    timer,    \* how long it has waited there
    delay,    \* the backoff delay it waits for
    conn,     \* the next line of the open connection: of frame pos, line line
    parser,   \* parse_sse_lines: data_lines and last_event_id (0 for None)
    fresh,    \* first_event: nothing was delivered on this connection yet
    cursor,   \* _cursor, 0 for None
    attempt,  \* ExponentialBackoff._attempt
    stop,     \* _stop_event
    raised,   \* what propagated out of run
    beat,     \* the age of the heartbeat file
    report,   \* how long until next_report
    last,     \* history: the last frame handed over, as it was
    whole,    \* history: the frames handed over whole
    first,    \* history: the first frame read that had a cursor, 0 if none
    quiet,    \* history: what happened since the last frame
    asked     \* history: what happened since the stop was asked for

readVars == <<conn, parser, fresh, cursor>>
beatVars == <<beat, report>>
frameVars == <<last, whole, first>>
vars == <<source, feed, pc, timer, delay, readVars, attempt, stop, raised,
          beatVars, frameVars, quiet, asked>>

NoBeat == -1
Frames == 1..MaxFeed
Pieces == Frames \X {1, 2}
NewParser == [data |-> <<>>, id |-> 0]
NothingRead == [data |-> <<>>, id |-> 0, atEnd |-> FALSE]
NoQuiet == [faults |-> 0, waited |-> 0, signs |-> 0]

Lesser(a, b) == IF a < b THEN a ELSE b
InLoop == pc \in {"connecting", "opening", "reading", "waiting"}

-----------------------------------------------------------------------------
(* The delay policy.                                                       *)

(* The doublings it takes to reach the cap. *)
MaxShift == CHOOSE n \in 0..BackoffMax :
               /\ BackoffInitial * 2^n >= BackoffMax
               /\ \A m \in 0..(n - 1) : BackoffInitial * 2^m < BackoffMax

(* Mutant of Exponent: it grows with the attempts. *)
ExponentUnclamped(k) == k

Exponent(k) == Lesser(k, MaxShift)

Capped(k) == Lesser(BackoffInitial * 2^Exponent(k), BackoffMax)

(* Equal jitter: half of it fixed. *)
NextDelay(k) == { d \in 1..Capped(k) : 2 * d >= Capped(k) }

-----------------------------------------------------------------------------
(* The setting is read once, when the process starts. *)
build_source == source \in Sources

Init == /\ build_source
        /\ feed = <<>>
        /\ pc = "connecting" /\ timer = 0 /\ delay = 0
        /\ conn = [pos |-> 1, line |-> 1] /\ parser = NewParser /\ fresh = TRUE
        /\ cursor = 0 /\ attempt = 0
        /\ stop = FALSE /\ raised = "none"
        /\ beat = NoBeat /\ report = StatsInterval
        /\ last = NothingRead /\ whole = {} /\ first = 0
        /\ quiet = NoQuiet /\ asked = [age |-> 0, signs |-> 0]

Emit(good) == /\ Len(feed) < MaxFeed
              /\ feed' = Append(feed, good)
              /\ UNCHANGED <<source, pc, timer, delay, readVars, attempt, stop, raised,
                             beatVars, frameVars, quiet, asked>>

Goto(place) == pc' = place /\ timer' = 0

(* while not self._stop_event.is_set() *)
LoopHead == Goto(IF stop THEN "left" ELSE "connecting")

(* Bytes arrived that are not yet a frame. *)
Sign == /\ quiet' = [quiet EXCEPT !.signs = Lesser(@ + 1, MaxSigns)]
        /\ asked' = [asked EXCEPT !.signs = IF stop THEN Lesser(@ + 1, MaxSigns) ELSE @]

(* The TCP and TLS handshake is over; with Jetstream the upgrade as well.  *)
Connected ==
    /\ pc = "connecting" /\ source = "wikimedia"
    /\ Goto("opening")
    /\ UNCHANGED <<source, feed, delay, readVars, attempt, stop, raised,
                   beatVars, frameVars, quiet, asked>>

(* Both servers resume at the cursor or before it, and at the tip of the   *)
(* stream without one.                                                     *)
ResumeAt == IF cursor = 0 THEN {Len(feed) + 1} ELSE 1..cursor

(* Mutant of AttemptAccepted: an accepted connection resets the backoff. *)
AttemptOnceAccepted == 0

AttemptAccepted == attempt

(* The response is a 200, the WebSocket is open. *)
Accepted ==
    /\ \/ pc = "opening"
       \/ pc = "connecting" /\ source = "jetstream"
    /\ \E p \in ResumeAt : conn' = [pos |-> p, line |-> 1]
    /\ parser' = NewParser
    /\ fresh' = TRUE
    /\ attempt' = AttemptAccepted
    /\ Goto("reading")
    /\ Sign
    /\ UNCHANGED <<source, feed, delay, cursor, stop, raised, beatVars, frameVars>>

(* A status in _FATAL_STATUSES. *)
Refused ==
    /\ pc = "opening"
    /\ raised' = "status"
    /\ Goto("left")
    /\ UNCHANGED <<source, feed, delay, readVars, attempt, stop,
                   beatVars, frameVars, quiet, asked>>

(* _sleep_before_retry, after k failures and with the record of the quiet  *)
(* so far: 2.0 ** e raises OverflowError, inside the handler.              *)
SleepBeforeRetry(k, q) ==
    /\ k < MaxAttempts
    /\ attempt' = k + 1
    /\ quiet' = [q EXCEPT !.faults = @ + 1]
    /\ IF Exponent(k) > MaxExponent
       THEN /\ raised' = "overflow" /\ UNCHANGED delay
            /\ Goto("left")
       ELSE /\ delay' \in NextDelay(k) /\ UNCHANGED raised
            /\ Goto("waiting")

(* A refused or broken connection, a timeout, a status worth a retry.      *)
Fault ==
    /\ pc \in {"connecting", "opening", "reading"}
    /\ SleepBeforeRetry(attempt, quiet)
    /\ UNCHANGED <<source, feed, readVars, stop, beatVars, frameVars, asked>>

(* Mutant of WaitDone: sleep instead of wait. *)
Slept == timer = delay

(* _stop_event.wait(delay) returns. *)
WaitDone == timer = delay \/ stop

WaitOver ==
    /\ pc = "waiting" /\ WaitDone
    /\ LoopHead
    /\ UNCHANGED <<source, feed, delay, readVars, attempt, stop, raised,
                   beatVars, frameVars, quiet, asked>>

-----------------------------------------------------------------------------
(* Handing a frame over, and what run does with it.                        *)

(* Mutants: the backoff is not reset; the data lines are not.              *)
AttemptKept == attempt
DataKept == parser.data

AttemptDelivered == IF fresh THEN 0 ELSE attempt
DataAfterBlank == <<>>

Deliver(frame) ==
    /\ cursor' = IF frame.id = 0 THEN cursor ELSE frame.id
    /\ last' = frame
    /\ whole' = whole \cup { i \in Frames : frame.data = <<<<i, 1>>, <<i, 2>>>> }
    /\ IF report = 0 THEN beat' = 0 /\ report' = StatsInterval
                     ELSE UNCHANGED beatVars

(* The body of the frame loop: a stop that was asked for drops the frame.  *)
Handle(frame) ==
    IF stop
    THEN /\ Goto("left")
         /\ UNCHANGED <<cursor, last, whole, beatVars, attempt, fresh, quiet>>
    ELSE /\ Deliver(frame)
         /\ Goto("reading")
         /\ attempt' = AttemptDelivered
         /\ fresh' = FALSE
         /\ quiet' = NoQuiet

-----------------------------------------------------------------------------
(* One connection.  Every line read starts the read timeout again.         *)

ReadingSSE == pc = "reading" /\ source = "wikimedia"
FirstSeen(i) == IF first = 0 THEN i ELSE first

(* An id line or a data line. *)
Field ==
    /\ ReadingSSE
    /\ conn.pos <= Len(feed) /\ conn.line < 4
    /\ conn' = [conn EXCEPT !.line = @ + 1]
    /\ parser' = IF conn.line = 1
                 THEN [parser EXCEPT !.id = conn.pos]
                 ELSE [parser EXCEPT !.data = Append(@, <<conn.pos, conn.line - 1>>)]
    /\ Sign
    /\ Goto("reading")
    /\ UNCHANGED <<source, feed, delay, fresh, cursor, attempt, stop, raised,
                   beatVars, frameVars>>

(* A keep-alive: a comment line yields nothing. *)
Comment ==
    /\ ReadingSSE /\ conn.line = 1
    /\ Sign
    /\ Goto("reading")
    /\ UNCHANGED <<source, feed, delay, readVars, attempt, stop, raised,
                   beatVars, frameVars>>

(* A blank line, after a frame or after a comment. *)
Blank ==
    /\ ReadingSSE
    /\ conn.line = 1 \/ conn.line = 4
    /\ conn' = IF conn.line = 4 THEN [pos |-> conn.pos + 1, line |-> 1] ELSE conn
    /\ parser' = [parser EXCEPT !.data = DataAfterBlank]
    /\ IF parser.data # <<>>
       THEN /\ Handle([data |-> parser.data, id |-> parser.id, atEnd |-> FALSE])
            /\ first' = FirstSeen(parser.id)
            /\ UNCHANGED asked
       ELSE /\ Sign
            /\ Goto("reading")
            /\ UNCHANGED <<cursor, frameVars, beatVars, attempt, fresh>>
    /\ UNCHANGED <<source, feed, delay, stop, raised>>

(* Mutant of Leftover: what is buffered at the end is dropped. *)
LeftoverDropped == FALSE

(* A clean end of the stream leaves a frame in the buffer. *)
Leftover == source = "wikimedia" /\ parser.data # <<>>

(* The server closes the stream. *)
StreamEnds ==
    /\ pc = "reading"
    /\ IF stop
       THEN /\ Goto("left")
            /\ UNCHANGED <<delay, attempt, raised, quiet, cursor, beatVars, frameVars>>
       ELSE IF Leftover
       THEN /\ Deliver([data |-> parser.data, id |-> parser.id, atEnd |-> TRUE])
            /\ first' = FirstSeen(parser.id)
            /\ SleepBeforeRetry(AttemptDelivered, NoQuiet)
       ELSE /\ SleepBeforeRetry(attempt, quiet)
            /\ first' = IF parser.data = <<>> THEN first ELSE FirstSeen(parser.id)
            /\ UNCHANGED <<cursor, last, whole, beatVars>>
    /\ UNCHANGED <<source, feed, conn, parser, fresh, stop, asked>>

(* A message that does not decode leaves the cursor where it is. *)
CursorOf(i) == IF feed[i] THEN i ELSE 0

(* A WebSocket message is a frame; no read timeout runs between two.       *)
Message ==
    /\ pc = "reading" /\ source = "jetstream"
    /\ conn.pos <= Len(feed)
    /\ conn' = [conn EXCEPT !.pos = @ + 1]
    /\ Handle([data |-> <<<<conn.pos, 1>>, <<conn.pos, 2>>>>,
               id |-> CursorOf(conn.pos), atEnd |-> FALSE])
    /\ first' = FirstSeen(CursorOf(conn.pos))
    /\ UNCHANGED <<source, feed, delay, parser, stop, raised, asked>>

-----------------------------------------------------------------------------
(* The end of the run, and the clock.                                      *)

(* The signal handler; run's own bounds do the same after a frame.         *)
RequestStop ==
    /\ pc # "exited" /\ ~stop
    /\ stop' = TRUE
    /\ UNCHANGED <<source, feed, pc, timer, delay, readVars, attempt, raised,
                   beatVars, frameVars, quiet, asked>>

(* A last heartbeat, unless an exception ended the loop. *)
RunEnds ==
    /\ pc = "left"
    /\ beat' = IF raised = "none" THEN 0 ELSE beat
    /\ Goto("flushing")
    /\ UNCHANGED <<source, feed, delay, readVars, attempt, stop, raised,
                   report, frameVars, quiet, asked>>

(* sink.close returns. *)
Exit ==
    /\ pc = "flushing"
    /\ Goto("exited")
    /\ UNCHANGED <<source, feed, delay, readVars, attempt, stop, raised,
                   beatVars, frameVars, quiet, asked>>

LongestStop == ConnectTimeout + MaxSigns * ReadTimeout

Patience == CASE pc = "connecting" -> ConnectTimeout
              [] pc \in {"opening", "reading"} -> ReadTimeout
              [] pc = "waiting" -> IF WaitDone THEN timer ELSE delay
              [] pc = "flushing" -> FlushTimeout
              [] OTHER -> 0

(* A tick passes, unless a timeout is due.  Past what a property compares  *)
(* it with, a clock stands still.                                          *)
Tick ==
    /\ timer < Patience \/ (pc = "reading" /\ source = "jetstream")
    /\ timer' = Lesser(timer + 1, Patience)
    /\ beat' = IF beat = NoBeat THEN NoBeat ELSE Lesser(beat + 1, HeartbeatTimeout + 1)
    /\ report' = IF report > 0 THEN report - 1 ELSE 0
    /\ quiet' = [quiet EXCEPT !.waited = IF pc = "waiting" THEN @ + 1 ELSE @]
    /\ asked' = [asked EXCEPT !.age = IF stop THEN Lesser(@ + 1, LongestStop + 1) ELSE @]
    /\ UNCHANGED <<source, feed, pc, delay, readVars, attempt, stop, raised, frameVars>>

Next == \/ \E good \in BOOLEAN : Emit(good)
        \/ Connected \/ Accepted \/ Refused \/ Fault \/ WaitOver
        \/ Field \/ Comment \/ Blank \/ StreamEnds \/ Message
        \/ RequestStop \/ RunEnds \/ Exit \/ Tick

Spec == Init /\ [][Next]_vars

(* The health check, which Docker runs next to the process. *)
Healthy == beat # NoBeat /\ beat <= HeartbeatTimeout

-----------------------------------------------------------------------------
TypeOK ==
    /\ source \in Sources
    /\ feed \in Seq(BOOLEAN) /\ Len(feed) <= MaxFeed
    /\ pc \in {"connecting", "opening", "reading", "waiting", "left", "flushing", "exited"}
    /\ timer \in Nat /\ delay \in 0..BackoffMax
    /\ conn \in [pos: 1..(MaxFeed + 1), line: 1..4]
    /\ parser \in [data: Seq(Pieces), id: 0..MaxFeed]
    /\ fresh \in BOOLEAN /\ stop \in BOOLEAN
    /\ cursor \in 0..Len(feed) /\ attempt \in 0..MaxAttempts
    /\ raised \in {"none", "status", "overflow"}
    /\ beat \in {NoBeat} \cup 0..(HeartbeatTimeout + 1) /\ report \in 0..StatsInterval
    /\ last \in [data: Seq(Pieces), id: 0..MaxFeed, atEnd: BOOLEAN]
    /\ whole \subseteq Frames /\ first \in 0..Len(feed)
    /\ quiet \in [faults: Nat, waited: Nat, signs: 0..MaxSigns]
    /\ asked \in [age: Nat, signs: 0..MaxSigns]

(* What the parser hands on is one frame of the feed with its own id, or,  *)
(* at a clean end of the stream, the beginning of one (sse.py: every frame *)
(* that carried data, nothing for a keep-alive).                           *)
FramesAreOfTheFeed ==
    last # NothingRead =>
        \E i \in 1..Len(feed) :
           /\ last.id = i \/ (source = "jetstream" /\ last.id = 0)
           /\ \/ last.data = <<<<i, 1>>, <<i, 2>>>>
              \/ last.atEnd /\ last.data = <<<<i, 1>>>>

(* However connections break, end or resume, every frame between the first *)
(* one read that had a cursor and the cursor was handed over whole: a      *)
(* frame cut short is read again (wikimedia.py, sse.py:93).  Before there  *)
(* is a cursor a reconnect starts at the tip and what lay between is lost. *)
NoFrameLost == \A i \in Frames : first > 0 /\ first <= i /\ i < cursor => i \in whole

(* One fault and one silent read do not make the process unhealthy         *)
(* (config.py: the health check leaves room for a legitimate quiet).       *)
HealthyThroughOneFault ==
    InLoop /\ source = "wikimedia" /\ beat # NoBeat
        /\ quiet.faults <= 1 /\ quiet.signs = 0
    => Healthy

(* The first n delays of the schedule, added up. *)
DelaysOf[n \in Nat] == IF n = 0 THEN 0 ELSE DelaysOf[n - 1] + Capped(n - 1)

(* The k-th connection after a frame is attempted only after at least half *)
(* of each delay of the schedule (backoff.py: a flapping upstream does not *)
(* get hammered).                                                          *)
NotHammered ==
    pc \in {"connecting", "opening", "reading"} /\ ~stop =>
        2 * quiet.waited >= DelaysOf[quiet.faults]

(* The loop ends because it was told to or because of a fatal status, not  *)
(* because an outage went on for long (backoff.py: OverflowError).         *)
EndsOnlyOnPurpose == ~InLoop => stop \/ raised = "status"

(* A stop is noticed within one handshake and one read, and one read more  *)
(* for every sign of life that is not a frame (wikimedia.py: wait rather   *)
(* than sleep).                                                            *)
StopNoticed ==
    InLoop /\ stop /\ source = "wikimedia" /\ asked.signs < MaxSigns =>
        asked.age <= ConnectTimeout + (1 + asked.signs) * ReadTimeout

(* heartbeat.py, as not detected: the upstream went quiet while the loop   *)
(* kept reconnecting.                                                      *)
ReconnectingIsHealthy ==
    InLoop /\ ~stop /\ beat # NoBeat /\ quiet.faults > 1 => Healthy

=============================================================================
