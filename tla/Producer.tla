------------------------------ MODULE Producer ------------------------------
(***************************************************************************)
(* The producer process: WikimediaSource reads the event stream, KafkaSink *)
(* hands each frame to librdkafka, and main flushes on the way out         *)
(* (sources/wikimedia.py, producer/__main__.py, producer/kafka_sink.py).   *)
(* Docker restarts it whenever it ends.                                    *)
(*                                                                         *)
(* The feed is the sequence of frames Wikimedia has emitted, and a frame   *)
(* is known by its index in it: the index is also the SSE id the source    *)
(* keeps as its cursor.  Three things run concurrently: the main thread,   *)
(* librdkafka's background thread, and the signal handler.                 *)
(*                                                                         *)
(* Left out: the counters nothing decides on (unkeyed, backpressure_waits, *)
(* bytes_produced), and a heartbeat file that cannot be written.  The      *)
(* delays, the lines of the stream, the cursor's claim to leave no gap,    *)
(* and the heartbeat are in module EventSource.                            *)
(***************************************************************************)
EXTENDS Frames, FiniteSets

CONSTANTS
    Partitions,     \* partition numbers of the topic
    Hash,           \* the partitioner: domain -> partition
    QueueMax,       \* records librdkafka's buffer holds, reports included
    Bounded,        \* is the run bounded by --duration or --max-events
    MaxFeed,        \* bound: frames emitted
    MaxReconnects,  \* bound: reconnects before a stop is asked for
    MaxRuns         \* bound: processes started

ASSUME ProducerAssumption == /\ Partitions \subseteq Nat
                             /\ Hash \in [Domains -> Partitions]
                             /\ QueueMax \in Nat \ {0}
                             /\ Bounded \in BOOLEAN
                             /\ MaxFeed \in Nat
                             /\ MaxReconnects \in Nat
                             /\ MaxRuns \in Nat

VARIABLES
    feed,        \* the frames emitted so far
    topic,       \* topic[p]: the feed indices appended to partition p
    pc,          \* where the main thread is
    stop,        \* _stop_event
    fatal,       \* an exception is on its way out of run
    cursor,      \* _cursor: the last id seen, 0 for None
    pos,         \* the index the open connection delivers next
    queue,       \* librdkafka's queue: records not yet acknowledged or failed
    reports,     \* delivery reports no poll has served yet
    stats,       \* SinkStats
    exit,        \* how the last process ended
    reconnects,  \* interrupted connections, of all processes
    runs,        \* processes started
    handed,      \* history: the indices this process has handed to the sink
    failures     \* history: the indices whose delivery failed, in any process

sourceVars == <<cursor, pos, reconnects>>
sinkVars == <<queue, reports, stats, handed>>
processVars == <<pc, stop, fatal, exit, runs>>
vars == <<feed, topic, sourceVars, sinkVars, processVars, failures>>

Record == [i: 1..MaxFeed, p: Partitions, appended: BOOLEAN]
NoStats == [produced |-> 0, delivered |-> 0, failed |-> 0]
NoReports == [ok |-> 0, err |-> 0]

TypeOK == /\ feed \in Seq(Frame)
          /\ topic \in [Partitions -> Seq(1..MaxFeed)]
          /\ pc \in {"down", "connecting", "reading", "sending", "waiting", "closing"}
          /\ stop \in BOOLEAN /\ fatal \in BOOLEAN
          /\ cursor \in 0..Len(feed)
          /\ pos \in 0..(Len(feed) + 1)
          /\ queue \in Seq(Record)
          /\ Len(queue) + reports.ok + reports.err <= QueueMax
          /\ stats \in [produced: Nat, delivered: Nat, failed: Nat]
          /\ exit \in {"none", "zero", "nonzero", "killed"}
          /\ handed \subseteq 1..Len(feed)

Init == /\ feed = <<>>
        /\ topic = [p \in Partitions |-> <<>>]
        /\ pc = "down" /\ stop = FALSE /\ fatal = FALSE
        /\ exit = "none" /\ runs = 0
        /\ cursor = 0 /\ pos = 0 /\ reconnects = 0
        /\ queue = <<>> /\ reports = NoReports /\ stats = NoStats
        /\ handed = {} /\ failures = {}

-----------------------------------------------------------------------------
(* Wikimedia emits a frame. *)
Emit(f) == /\ Len(feed) < MaxFeed
           /\ feed' = Append(feed, f)
           /\ UNCHANGED <<topic, sourceVars, sinkVars, processVars, failures>>

(* A process starts with nothing in memory: no cursor, no queue. *)
StartProcess ==
    /\ pc = "down"
    /\ runs < MaxRuns
    /\ runs' = runs + 1
    /\ pc' = "connecting" /\ stop' = FALSE /\ fatal' = FALSE /\ exit' = "none"
    /\ cursor' = 0 /\ pos' = 0
    /\ queue' = <<>> /\ reports' = NoReports /\ stats' = NoStats /\ handed' = {}
    /\ UNCHANGED <<feed, topic, reconnects, failures>>

(* Where the server starts: at or before Last-Event-ID; at the tip of the  *)
(* stream when there is none.                                              *)
ResumeAt == IF cursor = 0 THEN {Len(feed) + 1} ELSE 1..cursor

Connect == /\ pc = "connecting" /\ ~stop
           /\ pos' \in ResumeAt
           /\ pc' = "reading"
           /\ UNCHANGED <<feed, topic, cursor, reconnects, sinkVars,
                          stop, fatal, exit, runs, failures>>

(* The while loop of iter_raw sees the stop event. *)
LeaveLoop == /\ pc = "connecting" /\ stop
             /\ pc' = "closing"
             /\ UNCHANGED <<feed, topic, sourceVars, sinkVars,
                            stop, fatal, exit, runs, failures>>

(* A status in _FATAL_STATUSES propagates out of run. *)
Refused == /\ pc = "connecting" /\ ~stop
           /\ pc' = "closing" /\ fatal' = TRUE
           /\ UNCHANGED <<feed, topic, sourceVars, sinkVars,
                          stop, exit, runs, failures>>

(* The connection fails, breaks, times out or is closed by the server.  An *)
(* open one need not: a keep-alive comment starts the read timeout anew.   *)
Interrupted == /\ (pc = "connecting" /\ ~stop) \/ pc = "reading"
               /\ reconnects < MaxReconnects \/ stop
               /\ reconnects' = reconnects + 1
               /\ pc' = "waiting"
               /\ UNCHANGED <<feed, topic, cursor, pos, sinkVars,
                              stop, fatal, exit, runs, failures>>

(* The backoff delay is over, or the stop event cut it short. *)
WaitOver == /\ pc = "waiting"
            /\ pc' = "connecting"
            /\ UNCHANGED <<feed, topic, sourceVars, sinkVars,
                           stop, fatal, exit, runs, failures>>

(* The next frame is parsed: dropped if a stop was asked for, otherwise    *)
(* the cursor moves to it before anybody has handed it on.                 *)
ReadFrame ==
    /\ pc = "reading" /\ pos <= Len(feed)
    /\ IF stop
       THEN /\ pc' = "closing"
            /\ UNCHANGED <<cursor, pos>>
       ELSE /\ pc' = "sending"
            /\ cursor' = pos
            /\ pos' = pos + 1
    /\ UNCHANGED <<feed, topic, reconnects, sinkVars,
                   stop, fatal, exit, runs, failures>>

-----------------------------------------------------------------------------
(* The sink.                                                               *)

(* librdkafka counts a record until its report has been served. *)
Room == Len(queue) + reports.ok + reports.err < QueueMax

(* poll and flush run _on_delivery for every report that is due. *)
Served == [stats EXCEPT !.delivered = @ + reports.ok, !.failed = @ + reports.err]

(* Mutant of RouteOf: round robin. *)
RouteAnywhere(f) == Partitions

(* Keyed by meta.domain; unkeyed frames go anywhere. *)
RouteOf(f) == IF f.domain = Absent THEN Partitions ELSE {Hash[f.domain]}

(* Mutant of Send: a full buffer drops the frame. *)
SendOrDrop ==
    /\ pc = "sending"
    /\ \E p \in RouteOf(feed[cursor]) :
         queue' = IF Room THEN Append(queue, [i |-> cursor, p |-> p, appended |-> FALSE])
                          ELSE queue
    /\ stats' = [Served EXCEPT !.produced = IF Room THEN @ + 1 ELSE @]
    /\ reports' = NoReports
    /\ handed' = handed \cup {cursor}
    /\ \/ pc' = "reading" /\ UNCHANGED stop
       \/ Bounded /\ pc' = "closing" /\ stop' = TRUE
    /\ UNCHANGED <<feed, topic, sourceVars, fatal, exit, runs, failures>>

(* produce, then poll(0); then run checks --max-events and --duration. *)
Send ==
    /\ pc = "sending" /\ Room
    /\ \E p \in RouteOf(feed[cursor]) :
         queue' = Append(queue, [i |-> cursor, p |-> p, appended |-> FALSE])
    /\ stats' = [Served EXCEPT !.produced = @ + 1]
    /\ reports' = NoReports
    /\ handed' = handed \cup {cursor}
    /\ \/ pc' = "reading" /\ UNCHANGED stop
       \/ Bounded /\ pc' = "closing" /\ stop' = TRUE
    /\ UNCHANGED <<feed, topic, sourceVars, fatal, exit, runs, failures>>

(* Mutants of Backpressure: produced is counted inside the retry loop;     *)
(* sleep instead of poll.                                                  *)
BackpressureCounts ==
    /\ pc = "sending" /\ ~Room
    /\ reports # NoReports
    /\ stats' = [Served EXCEPT !.produced = @ + 1]
    /\ reports' = NoReports
    /\ UNCHANGED <<feed, topic, sourceVars, processVars, queue, handed, failures>>
BackpressureSleep == pc = "sending" /\ ~Room /\ UNCHANGED vars

(* produce raises anything but BufferError, as for a record that is too    *)
(* large: it propagates out of run, as a refusal does.                     *)
SendRaises == /\ pc = "sending"
              /\ pc' = "closing" /\ fatal' = TRUE
              /\ UNCHANGED <<feed, topic, sourceVars, sinkVars,
                             stop, exit, runs, failures>>

(* BufferError: poll(0.5), then try again.  The stop event is not looked   *)
(* at here.                                                                *)
Backpressure ==
    /\ pc = "sending" /\ ~Room
    /\ reports # NoReports
    /\ stats' = Served
    /\ reports' = NoReports
    /\ UNCHANGED <<feed, topic, sourceVars, processVars, queue, handed, failures>>

-----------------------------------------------------------------------------
(* librdkafka's background thread.                                         *)

OfPartition(p) == { k \in 1..Len(queue) : queue[k].p = p }
Least(S) == CHOOSE k \in S : \A j \in S : k <= j
Without(k) == SubSeq(queue, 1, k - 1) \o SubSeq(queue, k + 1, Len(queue))

(* Mutant of NextToAppend: enable.idempotence off, several requests in     *)
(* flight, and any of them may arrive first.                               *)
AnyToAppend(p) == { k \in OfPartition(p) : ~queue[k].appended }

(* With enable.idempotence the broker takes a partition's records in the   *)
(* order they were sent, each once however often it is retried.            *)
NextToAppend(p) ==
    LET waiting == { k \in OfPartition(p) : ~queue[k].appended }
    IN  IF waiting = {} THEN {} ELSE {Least(waiting)}

BrokerAppend(p) ==
    /\ pc # "down"
    /\ \E k \in NextToAppend(p) :
         /\ topic' = [topic EXCEPT ![p] = Append(@, queue[k].i)]
         /\ queue' = [queue EXCEPT ![k].appended = TRUE]
    /\ UNCHANGED <<feed, sourceVars, processVars, reports, stats, handed, failures>>

(* The acknowledgement of the oldest record of p arrives. *)
Acknowledge(p) ==
    /\ pc # "down" /\ OfPartition(p) # {}
    /\ LET k == Least(OfPartition(p))
       IN  queue[k].appended /\ queue' = Without(k)
    /\ reports' = [reports EXCEPT !.ok = @ + 1]
    /\ UNCHANGED <<feed, topic, sourceVars, processVars, stats, handed, failures>>

(* delivery.timeout.ms is over for the oldest record of p, which the       *)
(* broker may or may not have appended.                                    *)
DeliveryTimeout(p) ==
    /\ pc # "down" /\ OfPartition(p) # {}
    /\ LET k == Least(OfPartition(p))
       IN  queue' = Without(k) /\ failures' = failures \cup {queue[k].i}
    /\ reports' = [reports EXCEPT !.err = @ + 1]
    /\ UNCHANGED <<feed, topic, sourceVars, processVars, stats, handed>>

-----------------------------------------------------------------------------
(* The end of the process.                                                 *)

EndsAs(code) == /\ pc' = "down" /\ exit' = code
                /\ UNCHANGED <<feed, topic, sourceVars, queue, reports, handed,
                               stop, fatal, runs, failures>>

(* SIGTERM or SIGINT: the handler only sets the stop event. *)
Signal == /\ pc # "down" /\ ~stop
          /\ stop' = TRUE
          /\ UNCHANGED <<feed, topic, sourceVars, sinkVars,
                         pc, fatal, exit, runs, failures>>

(* Mutant of Flushed: main looks at the counters before it closes. *)
FlushedChecksFirst ==
    /\ pc = "closing" /\ queue = <<>>
    /\ stats' = Served
    /\ EndsAs(IF fatal \/ stats.failed > 0 THEN "nonzero" ELSE "zero")

(* close: the queue drained, all reports served; then main's return value. *)
Flushed ==
    /\ pc = "closing" /\ queue = <<>>
    /\ stats' = Served
    /\ EndsAs(IF fatal \/ Served.failed > 0 THEN "nonzero" ELSE "zero")

(* close: --flush-timeout passed first, KafkaException. *)
FlushTimeout ==
    /\ pc = "closing" /\ queue # <<>>
    /\ stats' = Served
    /\ EndsAs("nonzero")

(* SIGKILL (stop_grace_period), or any crash. *)
Kill == /\ pc # "down"
        /\ EndsAs("killed")
        /\ UNCHANGED stats

MainStep == \/ Connect \/ LeaveLoop \/ Refused \/ Interrupted \/ WaitOver
            \/ ReadFrame \/ Send \/ Backpressure \/ Flushed \/ FlushTimeout
LibraryStep(p) == BrokerAppend(p) \/ Acknowledge(p) \/ DeliveryTimeout(p)

Next == \/ \E f \in Frame : Emit(f)
        \/ StartProcess \/ MainStep \/ SendRaises \/ Signal \/ Kill
        \/ \E p \in Partitions : LibraryStep(p)

Spec == Init /\ [][Next]_vars

(* A running thread goes on running.  The backoff ends on the stop event,  *)
(* and a timeout ends a handshake, a delivery, and the flush.  Nothing     *)
(* ends a read: while keep-alives come it neither delivers a frame nor     *)
(* times out, so no step out of "reading" is promised.                     *)
FairSpec == /\ Spec
            /\ WF_vars(pc # "reading" /\ MainStep)
            /\ \A p \in Partitions : WF_vars(LibraryStep(p))

-----------------------------------------------------------------------------
InTopic(i) == \E p \in Partitions : \E k \in 1..Len(topic[p]) : topic[p][k] = i
Queued(i) == \E k \in 1..Len(queue) : queue[k].i = i

(* SinkStats.in_flight is the truth: what was produced and is not counted  *)
(* delivered or failed is in the queue or has a report waiting.            *)
InFlightIsTrue ==
    pc # "down" => stats.produced - stats.delivered - stats.failed
                       = Len(queue) + reports.ok + reports.err

(* Exit code zero means the whole run is in Kafka (KafkaSink.close; main): *)
(* no record was abandoned by the flush or failed in its last reports.     *)
ExitZeroMeansDelivered == exit = "zero" => \A i \in handed : InTopic(i)

(* Nothing handed to the sink vanishes (kafka_sink.py, send): it is in the *)
(* topic, in the queue, or was reported as failed.                         *)
NothingVanishes ==
    pc # "down" => \A i \in handed : InTopic(i) \/ Queued(i) \/ i \in failures

(* Edits of one wiki stay in order (kafka_sink.py, Ordering), through      *)
(* restarts and failed deliveries, until a reconnect makes the source      *)
(* replay: then an older edit may come again behind a newer one.           *)
WikiOrder ==
    reconnects = 0 =>
        \A p \in Partitions : \A j, k \in 1..Len(topic[p]) :
            /\ j < k
            /\ feed[topic[p][j]].domain = feed[topic[p][k]].domain
            /\ feed[topic[p][j]].domain # Absent
            => topic[p][j] < topic[p][k]

(* What the producer does to the topic is what module Topic says: it grows *)
(* by one frame at a time, at the partition of its wiki.                   *)
Log == [p \in Partitions |-> [k \in 1..Len(topic[p]) |-> feed[topic[p][k]]]]
KafkaTopic == INSTANCE Topic WITH
    log <- Log, low <- [p \in Partitions |-> 0], clock <- 0,
    MaxLog <- MaxFeed * (MaxRuns + MaxReconnects), MaxExpired <- 0, MaxClock <- 0
FeedsTheTopic == /\ KafkaTopic!TopicInit
                 /\ [][KafkaTopic!TopicNext]_<<Log>>

(* A stop that was asked for ends the process, whatever the broker does    *)
(* and wherever the main thread is, or finds it in a read that never ends: *)
(* the loop looks at the event when a frame is dispatched or the           *)
(* connection breaks (wikimedia.py), and an upstream that only keeps the   *)
(* connection alive does neither.  One frame more, or one fault, is enough.*)
StopEnds == stop /\ pc # "down" ~> pc = "down" \/ [](pc = "reading")

=============================================================================
