-------------------------- MODULE Producer_proofs --------------------------
(***************************************************************************)
(* Theorems about the producer: for any feed, size of librdkafka's queue,  *)
(* number of processes, reconnects and failed deliveries.  The inductive   *)
(* invariant follows a frame from the source's cursor through librdkafka's *)
(* queue into the topic.                                                   *)
(***************************************************************************)
EXTENDS Producer, SequenceTheorems, FiniteSetTheorems, TLAPS

Typed == /\ TypeOK
         /\ reconnects \in Nat /\ runs \in Nat
         /\ reports \in [ok: Nat, err: Nat]
         /\ Len(feed) <= MaxFeed

(* Only frames of the feed are in the queue and in the topic; the frame in *)
(* the main thread's hands is the last one the connection delivered.       *)
Indices ==
    /\ \A p \in Partitions : \A k \in 1..Len(topic[p]) : topic[p][k] <= Len(feed)
    /\ \A k \in 1..Len(queue) : queue[k].i <= Len(feed)
    /\ pc = "sending" => cursor >= 1 /\ pos = cursor + 1
    /\ pc = "reading" => pos >= 1

(* A record is in the queue of a partition its frame may go to, and in the *)
(* topic when it is marked so.                                             *)
QueueInv ==
    \A k \in 1..Len(queue) : /\ queue[k].p \in RouteOf(feed[queue[k].i])
                             /\ queue[k].appended => InTopic(queue[k].i)

(* What was handed to the sink is in the topic or in the queue, or failed; *)
(* a failure of this process is counted, or will be.                       *)
HandedInv ==
    /\ \A i \in handed : InTopic(i) \/ Queued(i) \/ i \in failures
    /\ stats.failed = 0 /\ reports.err = 0 => \A i \in handed : InTopic(i) \/ Queued(i)
    /\ exit = "zero" => pc = "down" /\ \A i \in handed : InTopic(i)

(* Everything in the topic and in the queue is older than frame number n. *)
AllBelow(n) == /\ \A p \in Partitions : \A k \in 1..Len(topic[p]) : topic[p][k] < n
               /\ \A k \in 1..Len(queue) : queue[k].i < n

(* The topic and the queue are in feed order, and what the broker does not *)
(* have comes after what it has.                                           *)
TopicRises == \A p \in Partitions : \A j, k \in 1..Len(topic[p]) :
                 j < k => topic[p][j] < topic[p][k]
QueueRises == \A j, k \in 1..Len(queue) : j < k => queue[j].i < queue[k].i
QueueAhead == \A k \in 1..Len(queue) : ~queue[k].appended =>
                 \A j \in 1..Len(topic[queue[k].p]) : topic[queue[k].p][j] < queue[k].i

(* Before the first reconnect each process reads on from the tip of the    *)
(* feed, so frames pass through the queue and the topic in feed order.     *)
Ordered == /\ pc # "waiting" /\ (pc = "connecting" => cursor = 0)
           /\ pc = "sending" => AllBelow(cursor)
           /\ pc = "reading" => AllBelow(pos)
           /\ TopicRises /\ QueueRises /\ QueueAhead
OrderInv == reconnects = 0 => Ordered

(* Connections there can have been, and frames they can have handed over   *)
(* before the current one.                                                 *)
Connections == runs + (IF reconnects < MaxReconnects THEN reconnects ELSE MaxReconnects)
Before == MaxFeed * (Connections - 1)

(* Records of partition p that the broker has not taken, and all the       *)
(* records that were ever sent there and are not lost.                     *)
Waiting(p) == { k \in OfPartition(p) : ~queue[k].appended }
SentTo(p) == Len(topic[p]) + Cardinality(Waiting(p))

(* A connection delivers a frame once, so the frames that were handed over *)
(* are counted by the connections and the position in the current one.     *)
CountInv ==
    /\ runs <= MaxRuns /\ (runs = 0 => pc = "down")
    /\ \A p \in Partitions :
         /\ pc = "reading" => SentTo(p) <= Before + pos - 1
         /\ pc = "sending" => SentTo(p) <= Before + pos - 2
         /\ pc \in {"connecting", "waiting"} /\ ~stop => SentTo(p) <= Before
         /\ SentTo(p) <= Before + MaxFeed

ProducerInv == Typed /\ Indices /\ QueueInv /\ HandedInv /\ InFlightIsTrue /\ OrderInv /\ CountInv

-----------------------------------------------------------------------------
(* The queue.                                                              *)

(* Least picks the smallest of some numbers. *)
LEMMA LeastIsLeast ==
    ASSUME NEW S \in SUBSET Nat, S # {}
    PROVE  Least(S) \in S /\ \A j \in S : Least(S) <= j
<1> DEFINE Below == { ss \in Nat \X Nat : ss[1] < ss[2] }
<1>1. IsWellFoundedOn(Below, Nat)
  BY NatLessThanWellFounded DEF OpToRel
<1>2. \A j, k \in Nat : j < k => <<j, k>> \in Below
  OBVIOUS
<1> HIDE DEF Below
<1>3. PICK k \in S : \A j \in S : ~(<<j, k>> \in Below)
  BY <1>1, WFMin
<1>4. ASSUME NEW j \in S PROVE k <= j
  <2>1. k \in Nat /\ j \in Nat /\ ~(j < k)
    BY <1>2, <1>3
  <2> QED BY <2>1
<1>5. \A j \in S : k <= j
  BY <1>4
<1> QED BY <1>5 DEF Least

(* A frame is routed to partitions of the topic. *)
LEMMA RoutesAreInTopic ==
    ASSUME NEW f \in Frame
    PROVE  RouteOf(f) \subseteq Partitions
BY FrameAssumption, ProducerAssumption DEF RouteOf, FrameShape

(* Without(k) is the queue with its k-th record taken out. *)
LEMMA WithoutRecord ==
    ASSUME queue \in Seq(Record), NEW k \in 1..Len(queue)
    PROVE  /\ Without(k) \in Seq(Record)
           /\ Len(Without(k)) = Len(queue) - 1
           /\ \A j \in 1..(Len(queue) - 1) :
                Without(k)[j] = IF j < k THEN queue[j] ELSE queue[j + 1]
<1> DEFINE head == SubSeq(queue, 1, k - 1)
           tail == SubSeq(queue, k + 1, Len(queue))
<1>1. Len(queue) \in Nat /\ \A j \in 1..Len(queue) : queue[j] \in Record
  BY LenProperties
<1>2. /\ head \in Seq(Record) /\ Len(head) = k - 1
      /\ \A j \in 1..(k - 1) : head[j] = queue[j]
  <2>1. \A j \in 1..(k - 1) : queue[j] \in Record
    BY <1>1
  <2> QED BY <1>1, <2>1, SubSeqProperties
<1>3. /\ tail \in Seq(Record) /\ Len(tail) = Len(queue) - k
      /\ \A j \in 1..(Len(queue) - k) : tail[j] = queue[j + k]
  <2>1. \A j \in (k + 1)..Len(queue) : queue[j] \in Record
    BY <1>1
  <2>2. /\ tail \in Seq(Record)
        /\ Len(tail) = IF k + 1 <= Len(queue) THEN Len(queue) - (k + 1) + 1 ELSE 0
        /\ \A j \in 1..(Len(queue) - (k + 1) + 1) : tail[j] = queue[(k + 1) + j - 1]
    BY <1>1, <2>1, SubSeqProperties
  <2> QED BY <1>1, <2>2
<1> HIDE DEF head, tail
<1>4. /\ head \o tail \in Seq(Record)
      /\ Len(head \o tail) = Len(head) + Len(tail)
      /\ \A j \in 1..(Len(head) + Len(tail)) :
           (head \o tail)[j] = IF j <= Len(head) THEN head[j] ELSE tail[j - Len(head)]
  BY <1>2, <1>3, ConcatProperties
<1>5. Without(k) = head \o tail
  BY DEF Without, head, tail
<1>6. ASSUME NEW j \in 1..(Len(queue) - 1)
      PROVE  Without(k)[j] = IF j < k THEN queue[j] ELSE queue[j + 1]
  <2>1. CASE j < k
    <3>1. j \in 1..(Len(head) + Len(tail)) /\ j <= Len(head) /\ j \in 1..(k - 1)
      BY <1>1, <1>2, <1>3, <2>1
    <3> QED BY <1>2, <1>4, <1>5, <2>1, <3>1
  <2>2. CASE ~(j < k)
    <3>1. /\ j \in 1..(Len(head) + Len(tail)) /\ ~(j <= Len(head))
          /\ j - (k - 1) \in 1..(Len(queue) - k)
          /\ (j - (k - 1)) + k = j + 1
      BY <1>1, <1>2, <1>3, <2>2
    <3>2. Without(k)[j] = tail[j - (k - 1)]
      BY <1>2, <1>4, <1>5, <3>1
    <3> QED BY <1>3, <2>2, <3>1, <3>2
  <2> QED BY <2>1, <2>2
<1>7. Without(k) \in Seq(Record)
  BY <1>4, <1>5
<1>8. Len(Without(k)) = Len(head) + Len(tail)
  BY <1>4, <1>5
<1>9. Len(head) + Len(tail) = Len(queue) - 1
  BY <1>1, <1>2, <1>3
<1> QED BY <1>6, <1>7, <1>8, <1>9

(* Marking a record as appended changes nothing else of the queue. *)
LEMMA MarkedRecord ==
    ASSUME queue \in Seq(Record), NEW k \in 1..Len(queue),
           queue' = [queue EXCEPT ![k].appended = TRUE]
    PROVE  /\ queue' \in Seq(Record)
           /\ Len(queue') = Len(queue)
           /\ \A j \in 1..Len(queue) :
                /\ queue'[j].i = queue[j].i /\ queue'[j].p = queue[j].p
                /\ queue'[j].appended <=> queue[j].appended \/ j = k
<1> DEFINE e == [queue[k] EXCEPT !.appended = TRUE]
<1>1. \A j \in 1..Len(queue) : queue[j] \in Record
  BY LenProperties
<1>2. e \in Record /\ e.i = queue[k].i /\ e.p = queue[k].p /\ e.appended
  BY <1>1 DEF Record
<1>3. queue' = [queue EXCEPT ![k] = e]
  OBVIOUS
<1> HIDE DEF e
<1>4. /\ [queue EXCEPT ![k] = e] \in Seq(Record)
      /\ Len([queue EXCEPT ![k] = e]) = Len(queue)
      /\ \A j \in 1..Len(queue) : [queue EXCEPT ![k] = e][j] = IF j = k THEN e ELSE queue[j]
  BY <1>2, ExceptSeq
<1> QED BY <1>1, <1>2, <1>3, <1>4

-----------------------------------------------------------------------------
(* What the steps of the sink do to the queue and the topic.               *)

(* Send puts the frame in hand at the end of the queue, unappended. *)
LEMMA SendsOne ==
    ASSUME Typed, Indices, Send
    PROVE  \E p \in RouteOf(feed[cursor]) :
             /\ p \in Partitions
             /\ queue' \in Seq(Record) /\ Len(queue') = Len(queue) + 1
             /\ \A j \in 1..Len(queue) : queue'[j] = queue[j]
             /\ queue'[Len(queue) + 1] = [i |-> cursor, p |-> p, appended |-> FALSE]
<1>1. cursor \in 1..Len(feed) /\ cursor \in 1..MaxFeed /\ feed[cursor] \in Frame
  <2>1. feed \in Seq(Frame) /\ Len(feed) \in Nat /\ Len(feed) <= MaxFeed /\ MaxFeed \in Nat
    BY ProducerAssumption, LenProperties DEF Typed, TypeOK
  <2>2. cursor \in 0..Len(feed) /\ cursor >= 1
    BY DEF Typed, TypeOK, Indices, Send
  <2>3. cursor \in 1..Len(feed) /\ cursor \in 1..MaxFeed
    BY <2>1, <2>2
  <2> QED BY <2>1, <2>3, ElementOfSeq
<1>2. PICK p \in RouteOf(feed[cursor]) :
        queue' = Append(queue, [i |-> cursor, p |-> p, appended |-> FALSE])
  BY DEF Send
<1>3. p \in Partitions
  BY <1>1, RoutesAreInTopic
<1>4. [i |-> cursor, p |-> p, appended |-> FALSE] \in Record
  BY <1>1, <1>3 DEF Record
<1>5. queue \in Seq(Record)
  BY DEF Typed, TypeOK
<1> DEFINE r == [i |-> cursor, p |-> p, appended |-> FALSE]
<1>6. /\ Append(queue, r) \in Seq(Record) /\ Len(Append(queue, r)) = Len(queue) + 1
      /\ \A j \in 1..Len(queue) : Append(queue, r)[j] = queue[j]
      /\ Append(queue, r)[Len(queue) + 1] = r
  BY <1>4, <1>5, AppendProperties
<1> QED BY <1>2, <1>3, <1>6

(* The broker takes the oldest record of p it does not have. *)
LEMMA BrokerTakesOne ==
    ASSUME Typed, NEW p \in Partitions, BrokerAppend(p)
    PROVE  \E k \in 1..Len(queue) :
             /\ queue[k].p = p /\ ~queue[k].appended
             /\ \A j \in 1..Len(queue) : queue[j].p = p /\ ~queue[j].appended => k <= j
             /\ topic' = [topic EXCEPT ![p] = Append(@, queue[k].i)]
             /\ queue' = [queue EXCEPT ![k].appended = TRUE]
<1> DEFINE W == { k \in OfPartition(p) : ~queue[k].appended }
<1>1. PICK k \in NextToAppend(p) :
        /\ topic' = [topic EXCEPT ![p] = Append(@, queue[k].i)]
        /\ queue' = [queue EXCEPT ![k].appended = TRUE]
  BY DEF BrokerAppend
<1>2. W # {} /\ k = Least(W)
  BY <1>1 DEF NextToAppend
<1>3. W \in SUBSET Nat /\ Len(queue) \in Nat
  BY LenProperties DEF OfPartition, Typed, TypeOK
<1>4. k \in W /\ \A j \in W : k <= j
  BY <1>2, <1>3, LeastIsLeast
<1> QED BY <1>1, <1>4 DEF OfPartition

(* The oldest record of a partition is one of its records. *)
LEMMA OldestOfPartition ==
    ASSUME Typed, NEW p, OfPartition(p) # {}
    PROVE  /\ Least(OfPartition(p)) \in 1..Len(queue)
           /\ queue[Least(OfPartition(p))].p = p
<1>1. OfPartition(p) \in SUBSET Nat
  BY LenProperties DEF OfPartition, Typed, TypeOK
<1> QED BY <1>1, LeastIsLeast DEF OfPartition

(* A delivery report takes a record of its partition out of the queue: one *)
(* the broker has, if it is an acknowledgement; a failure otherwise.       *)
LEMMA ReportTakesOne ==
    ASSUME Typed, NEW p \in Partitions, Acknowledge(p) \/ DeliveryTimeout(p)
    PROVE  \E k \in 1..Len(queue) :
             /\ queue' \in Seq(Record) /\ Len(queue') = Len(queue) - 1
             /\ \A j \in 1..(Len(queue) - 1) :
                  queue'[j] = IF j < k THEN queue[j] ELSE queue[j + 1]
             /\ \/ queue[k].appended /\ failures' = failures
                                     /\ reports' = [reports EXCEPT !.ok = @ + 1]
                \/ /\ failures' = failures \cup {queue[k].i}
                   /\ reports' = [reports EXCEPT !.err = @ + 1]
<1> DEFINE k == Least(OfPartition(p))
<1>1. OfPartition(p) # {} /\ queue' = Without(k)
  BY DEF Acknowledge, DeliveryTimeout
<1>2. k \in 1..Len(queue)
  BY <1>1, OldestOfPartition
<1>3. \/ queue[k].appended /\ failures' = failures /\ reports' = [reports EXCEPT !.ok = @ + 1]
      \/ failures' = failures \cup {queue[k].i} /\ reports' = [reports EXCEPT !.err = @ + 1]
  BY DEF Acknowledge, DeliveryTimeout
<1>4. queue \in Seq(Record)
  BY DEF Typed, TypeOK
<1> HIDE DEF k
<1>5. /\ Without(k) \in Seq(Record) /\ Len(Without(k)) = Len(queue) - 1
      /\ \A j \in 1..(Len(queue) - 1) :
           Without(k)[j] = IF j < k THEN queue[j] ELSE queue[j + 1]
  BY <1>2, <1>4, WithoutRecord
<1> QED BY <1>1, <1>2, <1>3, <1>5

-----------------------------------------------------------------------------
(* Types.                                                                  *)

(* Serving the reports moves them to the statistics. *)
LEMMA ServedStats ==
    ASSUME Typed
    PROVE  /\ Served \in [produced: Nat, delivered: Nat, failed: Nat]
           /\ Served.produced = stats.produced
           /\ Served.delivered = stats.delivered + reports.ok
           /\ Served.failed = stats.failed + reports.err
<1>1. stats \in [produced: Nat, delivered: Nat, failed: Nat] /\ reports \in [ok: Nat, err: Nat]
  BY DEF Typed, TypeOK
<1> DEFINE s == [stats EXCEPT !.delivered = stats.delivered + reports.ok]
<1>2. /\ s \in [produced: Nat, delivered: Nat, failed: Nat]
      /\ s.produced = stats.produced /\ s.failed = stats.failed
      /\ s.delivered = stats.delivered + reports.ok
  BY <1>1
<1>3. Served = [s EXCEPT !.failed = s.failed + reports.err]
  BY DEF Served
<1> HIDE DEF s
<1> QED BY <1>1, <1>2, <1>3

(* Every step keeps the types. *)
LEMMA TypedStep ==
    ASSUME Typed, Indices, [Next]_vars
    PROVE  Typed'
<1> USE DEF Typed, TypeOK, vars, sourceVars, sinkVars, processVars
<1>1. Len(feed) \in Nat /\ Len(queue) \in Nat /\ MaxFeed \in Nat /\ QueueMax \in Nat \ {0}
  BY ProducerAssumption, LenProperties
<1>2. ASSUME NEW f \in Frame, Emit(f) PROVE Typed'
  <2>1. feed' \in Seq(Frame) /\ Len(feed') = Len(feed) + 1
    BY <1>2, AppendProperties DEF Emit
  <2> QED BY <1>1, <1>2, <2>1 DEF Emit
<1>3. CASE StartProcess
  <2>1. queue' \in Seq(Record) /\ Len(queue') = 0
    BY <1>3 DEF StartProcess
  <2>2. reports' \in [ok: Nat, err: Nat] /\ reports'.ok = 0 /\ reports'.err = 0
    BY <1>3 DEF StartProcess, NoReports
  <2>3. stats' \in [produced: Nat, delivered: Nat, failed: Nat]
    BY <1>3 DEF StartProcess, NoStats
  <2>4. cursor' \in 0..Len(feed) /\ pos' \in 0..(Len(feed) + 1) /\ handed' \subseteq 1..Len(feed)
    BY <1>1, <1>3 DEF StartProcess
  <2>5. Len(queue') + reports'.ok + reports'.err <= QueueMax
    BY <1>1, <2>1, <2>2
  <2>6. /\ feed' = feed /\ topic' = topic /\ runs' = runs + 1 /\ reconnects' = reconnects
        /\ pc' = "connecting" /\ stop' = FALSE /\ fatal' = FALSE /\ exit' = "none"
    BY <1>3 DEF StartProcess
  <2>7. feed' \in Seq(Frame) /\ topic' \in [Partitions -> Seq(1..MaxFeed)] /\ Len(feed') <= MaxFeed
    BY <2>6
  <2>8. stop' \in BOOLEAN /\ fatal' \in BOOLEAN
    BY <2>6
  <2>9. pc' \in {"down", "connecting", "reading", "sending", "waiting", "closing"}
    BY <2>6
  <2>10. exit' \in {"none", "zero", "nonzero", "killed"}
    BY <2>6
  <2>11. runs' \in Nat /\ reconnects' \in Nat
    BY <2>6
  <2>12. cursor' \in 0..Len(feed') /\ pos' \in 0..(Len(feed') + 1) /\ handed' \subseteq 1..Len(feed')
    BY <2>4, <2>6
  <2> QED BY <2>1, <2>2, <2>3, <2>5, <2>7, <2>8, <2>9, <2>10, <2>11, <2>12
<1>4. CASE Connect
  <2>1. pos' \in 0..(Len(feed) + 1)
    <3>1. cursor \in 0..Len(feed) /\ pos' \in ResumeAt
      BY <1>4 DEF Connect
    <3> HIDE DEF Typed, TypeOK
    <3> QED BY <1>1, <3>1 DEF ResumeAt
  <2> QED BY <1>4, <2>1 DEF Connect
<1>5. CASE LeaveLoop \/ Refused \/ SendRaises \/ WaitOver \/ Signal
  BY <1>5 DEF LeaveLoop, Refused, SendRaises, WaitOver, Signal
<1>6. CASE Interrupted
  BY <1>6 DEF Interrupted
<1>7. CASE ReadFrame
  <2>1. stop' = stop /\ (cursor' = cursor \/ cursor' = pos) /\ (pos' = pos \/ pos' = pos + 1)
    BY <1>7 DEF ReadFrame
  <2>2. pos \in 1..Len(feed)
    BY <1>1, <1>7 DEF ReadFrame, Indices
  <2>3. cursor' \in 0..Len(feed) /\ pos' \in 0..(Len(feed) + 1)
    BY <1>1, <2>1, <2>2
  <2> QED BY <1>7, <2>3 DEF ReadFrame
<1>8. CASE Send
  <2>1. queue' \in Seq(Record) /\ Len(queue') = Len(queue) + 1
    BY <1>8, SendsOne
  <2>2. stats' \in [produced: Nat, delivered: Nat, failed: Nat]
    <3>1. stats' = [Served EXCEPT !.produced = @ + 1]
      BY <1>8 DEF Send
    <3> HIDE DEF Typed, TypeOK
    <3>2. Served \in [produced: Nat, delivered: Nat, failed: Nat]
      BY ServedStats
    <3> QED BY <3>1, <3>2
  <2>3. reports'.ok = 0 /\ reports'.err = 0 /\ reports' \in [ok: Nat, err: Nat]
    BY <1>8 DEF Send, NoReports
  <2>4. Len(queue') + reports'.ok + reports'.err <= QueueMax
    <3>1. Len(queue) + reports.ok + reports.err < QueueMax /\ reports.ok \in Nat /\ reports.err \in Nat
      BY <1>8 DEF Send, Room
    <3>2. Len(queue') = Len(queue) + 1 /\ reports'.ok = 0 /\ reports'.err = 0
      BY <2>1, <2>3
    <3> DEFINE length == Len(queue)
               ok == reports.ok
               err == reports.err
    <3>3. length \in Nat /\ ok \in Nat /\ err \in Nat /\ QueueMax \in Nat
          /\ length + ok + err < QueueMax
      BY <1>1, <3>1
    <3>4. length + 1 <= QueueMax
      <4> HIDE DEF length, ok, err
      <4> QED BY <3>3
    <3>5. Len(queue') + reports'.ok + reports'.err = length + 1
      BY <3>2, <3>3
    <3> QED BY <3>4, <3>5
  <2>5. handed' \subseteq 1..Len(feed)
    <3>1. cursor \in 1..Len(feed)
      BY <1>1, <1>8 DEF Send, Indices
    <3>2. handed' = handed \cup {cursor} /\ handed \subseteq 1..Len(feed)
      BY <1>8 DEF Send
    <3> QED BY ONLY <3>1, <3>2
  <2> QED BY <1>8, <2>1, <2>2, <2>3, <2>4, <2>5 DEF Send
<1>9. CASE Backpressure
  <2>1. reports'.ok = 0 /\ reports'.err = 0 /\ reports' \in [ok: Nat, err: Nat]
    BY <1>9 DEF Backpressure, NoReports
  <2>2. stats' \in [produced: Nat, delivered: Nat, failed: Nat]
    BY <1>9, ServedStats DEF Backpressure
  <2>3. Len(queue') + reports'.ok + reports'.err <= QueueMax
    <3>1. queue' = queue /\ Len(queue) <= QueueMax
      BY <1>1, <1>9 DEF Backpressure
    <3> QED BY <1>1, <2>1, <3>1
  <2> QED BY <1>9, <2>1, <2>2, <2>3 DEF Backpressure
<1>10. ASSUME NEW p \in Partitions, BrokerAppend(p) PROVE Typed'
  <2>1. PICK k \in 1..Len(queue) :
          /\ topic' = [topic EXCEPT ![p] = Append(@, queue[k].i)]
          /\ queue' = [queue EXCEPT ![k].appended = TRUE]
    BY <1>10, BrokerTakesOne
  <2>2. queue' \in Seq(Record) /\ Len(queue') = Len(queue)
    BY <2>1, MarkedRecord
  <2>3. queue[k].i \in 1..MaxFeed
    <3>1. queue[k] \in Record
      BY <2>1, ElementOfSeq
    <3> QED BY <3>1 DEF Record
  <2>4. topic' \in [Partitions -> Seq(1..MaxFeed)]
    BY <2>1, <2>3, AppendProperties
  <2> QED BY <1>10, <2>2, <2>4 DEF BrokerAppend
<1>11. ASSUME NEW p \in Partitions, Acknowledge(p) \/ DeliveryTimeout(p) PROVE Typed'
  <2>1. /\ queue' \in Seq(Record) /\ Len(queue') = Len(queue) - 1
        /\ \/ reports' = [reports EXCEPT !.ok = @ + 1]
           \/ reports' = [reports EXCEPT !.err = @ + 1]
    BY <1>11, ReportTakesOne
  <2>2. /\ reports' \in [ok: Nat, err: Nat]
        /\ reports'.ok + reports'.err = reports.ok + reports.err + 1
    <3>1. reports \in [ok: Nat, err: Nat]
      OBVIOUS
    <3> HIDE DEF Typed, TypeOK
    <3>2. CASE reports' = [reports EXCEPT !.ok = @ + 1]
      BY <3>1, <3>2
    <3>3. CASE reports' = [reports EXCEPT !.err = @ + 1]
      BY <3>1, <3>3
    <3> QED BY <2>1, <3>2, <3>3
  <2>3. Len(queue') + reports'.ok + reports'.err <= QueueMax
    <3>1. /\ reports.ok \in Nat /\ reports.err \in Nat
          /\ Len(queue) + reports.ok + reports.err <= QueueMax
      OBVIOUS
    <3>2. reports'.ok \in Nat /\ reports'.err \in Nat
      BY <2>2
    <3> HIDE DEF Typed, TypeOK
    <3> QED BY <1>1, <2>1, <2>2, <3>1, <3>2
  <2> QED BY <1>11, <2>1, <2>2, <2>3 DEF Acknowledge, DeliveryTimeout
<1>12. CASE Flushed \/ FlushTimeout \/ Kill
  <2>1. stats' \in [produced: Nat, delivered: Nat, failed: Nat]
    BY <1>12, ServedStats DEF Flushed, FlushTimeout, Kill
  <2> QED BY <1>12, <2>1 DEF Flushed, FlushTimeout, Kill, EndsAs
<1>13. CASE UNCHANGED vars
  BY <1>13
<1> QED BY <1>2, <1>3, <1>4, <1>5, <1>6, <1>7, <1>8, <1>9, <1>10, <1>11, <1>12, <1>13
        DEF Next, MainStep, LibraryStep

-----------------------------------------------------------------------------
(* What a step leaves alone.                                               *)

(* The records of the queue, field by field. *)
LEMMA QueueRecords ==
    ASSUME Typed
    PROVE  /\ Len(queue) \in Nat
           /\ \A k \in 1..Len(queue) :
                /\ queue[k] \in Record
                /\ queue[k].i \in 1..MaxFeed /\ queue[k].p \in Partitions
                /\ queue[k].appended \in BOOLEAN
<1>1. queue \in Seq(Record)
  BY DEF Typed, TypeOK
<1>2. Len(queue) \in Nat /\ \A k \in 1..Len(queue) : queue[k] \in Record
  BY <1>1, LenProperties
<1> QED BY <1>2 DEF Record

(* A step that touches the queue or the topic is one of four kinds. *)
LEMMA KindsOfStep ==
    ASSUME [Next]_vars
    PROVE  \/ UNCHANGED <<topic, queue>>
           \/ StartProcess
           \/ Send
           \/ \E p \in Partitions : BrokerAppend(p)
           \/ \E p \in Partitions : Acknowledge(p) \/ DeliveryTimeout(p)
BY DEF Next, MainStep, LibraryStep, Emit, Connect, LeaveLoop, Refused,
       SendRaises, Interrupted, WaitOver,
       ReadFrame, Backpressure, Flushed, FlushTimeout, Kill, EndsAs, Signal,
       vars, sourceVars, sinkVars, processVars

(* The feed only grows. *)
LEMMA FeedGrows ==
    ASSUME Typed, [Next]_vars
    PROVE  /\ Len(feed) \in Nat /\ Len(feed') \in Nat /\ Len(feed) <= Len(feed')
           /\ \A i \in 1..Len(feed) : feed'[i] = feed[i]
<1>1. feed \in Seq(Frame) /\ Len(feed) \in Nat
  BY LenProperties DEF Typed, TypeOK
<1>2. ASSUME NEW f \in Frame, feed' = Append(feed, f)
      PROVE  /\ Len(feed') = Len(feed) + 1
             /\ \A i \in 1..Len(feed) : feed'[i] = feed[i]
  BY <1>1, <1>2, AppendProperties
<1>3. feed' = feed \/ \E f \in Frame : feed' = Append(feed, f)
  BY DEF Next, MainStep, LibraryStep, Emit, StartProcess, Connect, LeaveLoop, Refused,
         SendRaises,
         Interrupted, WaitOver, ReadFrame, Send, Backpressure, BrokerAppend, Acknowledge,
         DeliveryTimeout, Flushed, FlushTimeout, Kill, EndsAs, Signal, vars
<1> QED BY <1>1, <1>2, <1>3

(* A step of the broker appends one record to one partition. *)
LEMMA TopicTakesOne ==
    ASSUME Typed, NEW p \in Partitions, NEW k \in 1..Len(queue),
           topic' = [topic EXCEPT ![p] = Append(@, queue[k].i)]
    PROVE  /\ Len(topic[p]) \in Nat /\ Len(topic'[p]) = Len(topic[p]) + 1
           /\ \A j \in 1..Len(topic[p]) : topic'[p][j] = topic[p][j]
           /\ topic'[p][Len(topic[p]) + 1] = queue[k].i
           /\ \A r \in Partitions : r # p => topic'[r] = topic[r]
<1>1. topic \in [Partitions -> Seq(1..MaxFeed)] /\ queue[k].i \in 1..MaxFeed
  BY QueueRecords DEF Typed, TypeOK
<1>2. topic[p] \in Seq(1..MaxFeed)
  BY <1>1
<1>3. topic'[p] = Append(topic[p], queue[k].i)
  BY <1>1
<1> QED BY <1>1, <1>2, <1>3, AppendProperties, LenProperties

(* The topic never loses a record. *)
LEMMA TopicKeeps ==
    ASSUME Typed, [Next]_vars, NEW i, InTopic(i)
    PROVE  InTopic(i)'
<1>1. CASE topic' = topic
  BY <1>1 DEF InTopic
<1>2. ASSUME NEW p \in Partitions, BrokerAppend(p)
      PROVE  InTopic(i)'
  <2>1. PICK k \in 1..Len(queue) : topic' = [topic EXCEPT ![p] = Append(@, queue[k].i)]
    BY <1>2, BrokerTakesOne
  <2>2. /\ Len(topic[p]) \in Nat /\ Len(topic'[p]) = Len(topic[p]) + 1
        /\ \A j \in 1..Len(topic[p]) : topic'[p][j] = topic[p][j]
        /\ \A r \in Partitions : r # p => topic'[r] = topic[r]
    BY <2>1, TopicTakesOne
  <2> QED BY <2>2 DEF InTopic
<1> QED BY <1>1, <1>2, KindsOfStep DEF StartProcess, Send, Acknowledge, DeliveryTimeout

-----------------------------------------------------------------------------
(* Where frames are.                                                       *)

(* Frames in the topic, in the queue and in hand stay frames of the feed. *)
LEMMA IndicesStep ==
    ASSUME Typed, Indices, [Next]_vars
    PROVE  Indices'
<1>1. /\ Len(feed) \in Nat /\ Len(feed') \in Nat /\ Len(feed) <= Len(feed')
      /\ \A i \in Nat : i <= Len(feed) => i <= Len(feed')
  BY FeedGrows
<1>2. \A k \in 1..Len(queue) : queue[k].i \in Nat /\ queue[k].i <= Len(feed)
  BY QueueRecords DEF Indices
<1>3. \A p \in Partitions : \A k \in 1..Len(topic[p]) :
        topic[p][k] \in Nat /\ topic[p][k] <= Len(feed)
  <2>1. ASSUME NEW p \in Partitions, NEW k \in 1..Len(topic[p])
        PROVE  topic[p][k] \in 1..MaxFeed
    <3>1. topic[p] \in Seq(1..MaxFeed)
      BY DEF Typed, TypeOK
    <3> QED BY <3>1, ElementOfSeq
  <2> QED BY <2>1 DEF Indices
<1>4. \A p \in Partitions : \A k \in 1..Len(topic'[p]) : topic'[p][k] <= Len(feed')
  <2>1. CASE topic' = topic
    BY <1>1, <1>3, <2>1
  <2>2. ASSUME NEW p \in Partitions, BrokerAppend(p), NEW r \in Partitions,
               NEW k \in 1..Len(topic'[r])
        PROVE  topic'[r][k] <= Len(feed')
    <3>1. PICK n \in 1..Len(queue) : topic' = [topic EXCEPT ![p] = Append(@, queue[n].i)]
      BY <2>2, BrokerTakesOne
    <3>2. /\ Len(topic[p]) \in Nat /\ Len(topic'[p]) = Len(topic[p]) + 1
          /\ \A j \in 1..Len(topic[p]) : topic'[p][j] = topic[p][j]
          /\ topic'[p][Len(topic[p]) + 1] = queue[n].i
          /\ \A q \in Partitions : q # p => topic'[q] = topic[q]
      BY <3>1, TopicTakesOne
    <3>3. topic'[r][k] \in Nat /\ topic'[r][k] <= Len(feed)
      <4>1. CASE r # p
        BY <1>3, <2>2, <3>2, <4>1
      <4>2. CASE r = p /\ k # Len(topic[p]) + 1
        <5>1. k \in 1..Len(topic[p]) /\ topic'[r][k] = topic[p][k]
          BY <2>2, <3>2, <4>2
        <5> QED BY <1>3, <5>1
      <4>3. CASE r = p /\ k = Len(topic[p]) + 1
        BY <1>2, <3>2, <4>3
      <4> QED BY <4>1, <4>2, <4>3
    <3> QED BY <1>1, <3>3
  <2> QED BY <2>1, <2>2, KindsOfStep DEF StartProcess, Send, Acknowledge, DeliveryTimeout
<1>5. \A k \in 1..Len(queue') : queue'[k].i <= Len(feed')
  <2>1. CASE queue' = queue
    BY <1>1, <1>2, <2>1
  <2>2. CASE StartProcess
    BY <2>2 DEF StartProcess
  <2>3. CASE Send
    <3>1. PICK p \in RouteOf(feed[cursor]) :
            /\ Len(queue') = Len(queue) + 1
            /\ \A j \in 1..Len(queue) : queue'[j] = queue[j]
            /\ queue'[Len(queue) + 1] = [i |-> cursor, p |-> p, appended |-> FALSE]
      BY <2>3, SendsOne
    <3>2. cursor \in Nat /\ cursor <= Len(feed)
      BY <1>1 DEF Typed, TypeOK
    <3> QED BY <1>1, <1>2, <3>1, <3>2, QueueRecords
  <2>4. ASSUME NEW p \in Partitions, BrokerAppend(p)
        PROVE  \A k \in 1..Len(queue') : queue'[k].i <= Len(feed')
    <3>1. PICK n \in 1..Len(queue) : queue' = [queue EXCEPT ![n].appended = TRUE]
      BY <2>4, BrokerTakesOne
    <3>2. Len(queue') = Len(queue) /\ \A j \in 1..Len(queue) : queue'[j].i = queue[j].i
      BY <3>1, MarkedRecord DEF Typed, TypeOK
    <3> QED BY <1>1, <1>2, <3>2
  <2>5. ASSUME NEW p \in Partitions, Acknowledge(p) \/ DeliveryTimeout(p)
        PROVE  \A k \in 1..Len(queue') : queue'[k].i <= Len(feed')
    <3>1. PICK n \in 1..Len(queue) :
            /\ Len(queue') = Len(queue) - 1
            /\ \A j \in 1..(Len(queue) - 1) :
                 queue'[j] = IF j < n THEN queue[j] ELSE queue[j + 1]
      BY <2>5, ReportTakesOne
    <3>2. Len(queue) \in Nat
      BY QueueRecords
    <3>3. \A j \in 1..(Len(queue) - 1) : j \in 1..Len(queue) /\ j + 1 \in 1..Len(queue)
      BY <3>2
    <3> QED BY <1>1, <1>2, <3>1, <3>3
  <2> QED BY <2>1, <2>2, <2>3, <2>4, <2>5, KindsOfStep
<1>6. /\ pc' = "sending" => cursor' >= 1 /\ pos' = cursor' + 1
      /\ pc' = "reading" => pos' >= 1
  <2> USE DEF Indices, Typed, TypeOK
  <2>1. CASE Connect
    BY <1>1, <2>1 DEF Connect, ResumeAt
  <2>2. CASE ReadFrame
    BY <1>1, <2>2 DEF ReadFrame
  <2>3. CASE Send
    BY <1>1, <2>3 DEF Send, sourceVars
  <2>4. CASE UNCHANGED <<pc, cursor, pos>>
    BY <2>4
  <2>5. pc' \in {"down", "connecting", "waiting", "closing"} \/ UNCHANGED <<pc, cursor, pos>>
          \/ Connect \/ ReadFrame \/ Send
    BY DEF Next, MainStep, LibraryStep, Emit, StartProcess, LeaveLoop, Refused, SendRaises,
           Interrupted, WaitOver, Backpressure, BrokerAppend, Acknowledge, DeliveryTimeout,
           Flushed, FlushTimeout, Kill, EndsAs, Signal, vars, sourceVars, processVars
  <2> QED BY <2>1, <2>2, <2>3, <2>4, <2>5
<1> QED BY <1>4, <1>5, <1>6 DEF Indices

(* Records stay routed to their partition, and marked only when the topic  *)
(* has them.                                                               *)
LEMMA QueueStep ==
    ASSUME Typed, Indices, QueueInv, [Next]_vars
    PROVE  QueueInv'
<1> DEFINE Good(k) == /\ queue[k].p \in RouteOf(feed[queue[k].i])
                      /\ queue[k].appended => InTopic(queue[k].i)
<1>1. \A k \in 1..Len(queue) : queue[k].i \in 1..Len(feed)
  BY QueueRecords DEF Indices, Typed, TypeOK
<1>2. \A i \in 1..Len(feed) : feed'[i] = feed[i]
  BY FeedGrows
<1>3. \A i : InTopic(i) => InTopic(i)'
  BY TopicKeeps
<1>4. ASSUME NEW k \in 1..Len(queue'), NEW n \in 1..Len(queue),
             queue'[k].i = queue[n].i, queue'[k].p = queue[n].p,
             queue'[k].appended => queue[n].appended
      PROVE  Good(k)'
  <2>1. queue'[k].p \in RouteOf(feed'[queue'[k].i])
    <3>1. feed'[queue'[k].i] = feed[queue[n].i]
      BY <1>1, <1>2, <1>4
    <3>2. queue[n].p \in RouteOf(feed[queue[n].i])
      BY DEF QueueInv
    <3> QED BY <1>4, <3>1, <3>2
  <2>2. queue'[k].appended => InTopic(queue[k].i)'
    <3>1. PICK i : i = queue[n].i
      OBVIOUS
    <3>2. queue'[k].i = i /\ (queue'[k].appended => queue[n].appended)
      BY <1>4, <3>1
    <3>3. queue[n].appended => InTopic(i)
      BY <3>1 DEF QueueInv
    <3>4. InTopic(i) => InTopic(i)'
      BY <1>3
    <3> QED BY <3>2, <3>3, <3>4 DEF InTopic
  <2> QED BY <2>1, <2>2
<1>5. CASE queue' = queue
  <2>1. ASSUME NEW k \in 1..Len(queue') PROVE Good(k)'
    BY <1>4, <1>5
  <2> QED BY <2>1 DEF QueueInv
<1>6. CASE StartProcess
  BY <1>6 DEF StartProcess, QueueInv
<1>7. CASE Send
  <2>1. PICK p \in RouteOf(feed[cursor]) :
          /\ Len(queue') = Len(queue) + 1
          /\ \A j \in 1..Len(queue) : queue'[j] = queue[j]
          /\ queue'[Len(queue) + 1] = [i |-> cursor, p |-> p, appended |-> FALSE]
    BY <1>7, SendsOne
  <2>2. feed' = feed
    BY <1>7 DEF Send
  <2>3. ASSUME NEW k \in 1..Len(queue'), k # Len(queue) + 1
        PROVE  Good(k)'
    <3>1. k \in 1..Len(queue)
      BY <2>1, <2>3, QueueRecords
    <3> QED BY <1>4, <2>1, <3>1
  <2>4. ASSUME NEW k, k = Len(queue) + 1 PROVE Good(k)'
    BY <2>1, <2>2, <2>4 DEF RouteOf
  <2> QED BY <2>3, <2>4 DEF QueueInv
<1>8. ASSUME NEW p \in Partitions, BrokerAppend(p) PROVE QueueInv'
  <2>1. PICK n \in 1..Len(queue) :
          /\ queue[n].p = p
          /\ topic' = [topic EXCEPT ![p] = Append(@, queue[n].i)]
          /\ queue' = [queue EXCEPT ![n].appended = TRUE]
    BY <1>8, BrokerTakesOne
  <2>2. /\ Len(queue') = Len(queue)
        /\ \A j \in 1..Len(queue) :
             /\ queue'[j].i = queue[j].i /\ queue'[j].p = queue[j].p
             /\ queue'[j].appended <=> queue[j].appended \/ j = n
    BY <2>1, MarkedRecord DEF Typed, TypeOK
  <2>3. InTopic(queue[n].i)'
    <3>1. /\ Len(topic[p]) \in Nat /\ Len(topic'[p]) = Len(topic[p]) + 1
          /\ topic'[p][Len(topic[p]) + 1] = queue[n].i
      BY <2>1, TopicTakesOne
    <3>2. queue'[n].i = queue[n].i
      BY <2>2
    <3>3. Len(topic[p]) + 1 \in 1..Len(topic'[p])
      BY <3>1
    <3> QED BY <3>1, <3>2, <3>3 DEF InTopic
  <2>4. ASSUME NEW k \in 1..Len(queue')
        PROVE  Good(k)'
    <3>1. queue'[k].p \in RouteOf(feed'[queue'[k].i])
      <4>1. feed'[queue'[k].i] = feed[queue[k].i]
        BY <1>1, <1>2, <2>2
      <4>2. queue[k].p \in RouteOf(feed[queue[k].i])
        BY <2>2 DEF QueueInv
      <4> QED BY <2>2, <4>1, <4>2
    <3>2. queue'[k].appended => InTopic(queue[k].i)'
      <4>1. CASE k = n
        BY <2>3, <4>1
      <4>2. CASE k # n
        <5>1. queue[k].appended => InTopic(queue[k].i)
          BY <2>2 DEF QueueInv
        <5>2. queue'[k].appended => queue[k].appended
          BY <2>2, <4>2
        <5>3. PICK i : i = queue[k].i
          OBVIOUS
        <5>4. queue'[k].i = i
          BY <2>2, <5>3
        <5>5. InTopic(i) => InTopic(i)'
          BY <1>3
        <5> QED BY <5>1, <5>2, <5>3, <5>4, <5>5 DEF InTopic
      <4> QED BY <4>1, <4>2
    <3> QED BY <3>1, <3>2
  <2> QED BY <2>4 DEF QueueInv
<1>9. ASSUME NEW p \in Partitions, Acknowledge(p) \/ DeliveryTimeout(p) PROVE QueueInv'
  <2>1. PICK n \in 1..Len(queue) :
          /\ Len(queue') = Len(queue) - 1
          /\ \A j \in 1..(Len(queue) - 1) : queue'[j] = IF j < n THEN queue[j] ELSE queue[j + 1]
    BY <1>9, ReportTakesOne
  <2>2. ASSUME NEW k \in 1..Len(queue')
        PROVE  \E j \in 1..Len(queue) : queue'[k] = queue[j]
    <3>1. Len(queue) \in Nat /\ k \in 1..(Len(queue) - 1)
      BY <2>1, QueueRecords
    <3>2. k \in 1..Len(queue) /\ k + 1 \in 1..Len(queue)
      BY <3>1
    <3> QED BY <2>1, <3>1, <3>2
  <2>3. ASSUME NEW k \in 1..Len(queue')
        PROVE  Good(k)'
    BY <1>4, <2>2
  <2> QED BY <2>3 DEF QueueInv
<1> QED BY <1>5, <1>6, <1>7, <1>8, <1>9, KindsOfStep

-----------------------------------------------------------------------------
(* What becomes of a frame that was handed over.                           *)

(* A record leaves the queue into the topic or as a failure.               *)
LEMMA QueuedKept ==
    ASSUME Typed, Indices, QueueInv, [Next]_vars, ~StartProcess, NEW i, Queued(i)
    PROVE  \/ Queued(i)' \/ InTopic(i)'
           \/ i \in failures' /\ reports' = [reports EXCEPT !.err = @ + 1]
<1>1. PICK k \in 1..Len(queue) : queue[k].i = i
  BY DEF Queued
<1>2. CASE UNCHANGED queue
  BY <1>1, <1>2 DEF Queued
<1>3. CASE Send
  <2>1. /\ Len(queue') = Len(queue) + 1
        /\ \A j \in 1..Len(queue) : queue'[j] = queue[j]
    BY <1>3, SendsOne
  <2>2. k \in 1..Len(queue') /\ queue'[k].i = i
    BY <1>1, <2>1, QueueRecords
  <2> QED BY <2>2 DEF Queued
<1>4. ASSUME NEW p \in Partitions, BrokerAppend(p) PROVE Queued(i)'
  <2>1. PICK n \in 1..Len(queue) : queue' = [queue EXCEPT ![n].appended = TRUE]
    BY <1>4, BrokerTakesOne
  <2>2. Len(queue') = Len(queue) /\ \A j \in 1..Len(queue) : queue'[j].i = queue[j].i
    BY <2>1, MarkedRecord DEF Typed, TypeOK
  <2> QED BY <1>1, <2>2 DEF Queued
<1>5. ASSUME NEW p \in Partitions, Acknowledge(p) \/ DeliveryTimeout(p)
      PROVE  \/ Queued(i)' \/ InTopic(i)'
             \/ i \in failures' /\ reports' = [reports EXCEPT !.err = @ + 1]
  <2>1. PICK n \in 1..Len(queue) :
          /\ Len(queue') = Len(queue) - 1
          /\ \A j \in 1..(Len(queue) - 1) : queue'[j] = IF j < n THEN queue[j] ELSE queue[j + 1]
          /\ \/ queue[n].appended
             \/ failures' = failures \cup {queue[n].i} /\ reports' = [reports EXCEPT !.err = @ + 1]
    BY <1>5, ReportTakesOne
  <2>2. Len(queue) \in Nat
    BY QueueRecords
  <2>3. CASE k < n
    <3>1. k \in 1..Len(queue') /\ queue'[k].i = i
      BY <1>1, <2>1, <2>2, <2>3
    <3> QED BY <3>1 DEF Queued
  <2>4. CASE k > n
    <3>1. k - 1 \in 1..Len(queue') /\ ~(k - 1 < n) /\ (k - 1) + 1 = k
      BY <1>1, <2>1, <2>2, <2>4
    <3>2. queue'[k - 1].i = i
      BY <1>1, <2>1, <3>1
    <3> QED BY <3>1, <3>2 DEF Queued
  <2>5. CASE k = n /\ queue[n].appended
    <3>1. InTopic(i)
      BY <1>1, <2>5 DEF QueueInv
    <3> QED BY <3>1, TopicKeeps
  <2>6. CASE k = n /\ ~queue[n].appended
    BY <1>1, <2>1, <2>6
  <2> QED BY <2>3, <2>4, <2>5, <2>6
<1> QED BY <1>2, <1>3, <1>4, <1>5, KindsOfStep

(* Frames in hand are accounted for after every step. *)
LEMMA HandedStep ==
    ASSUME Typed, Indices, QueueInv, HandedInv, [Next]_vars
    PROVE  HandedInv'
<1>1. CASE StartProcess
  BY <1>1 DEF StartProcess, HandedInv
<1>2. CASE ~StartProcess
  <2>1. \A i : InTopic(i) => InTopic(i)'
    BY TopicKeeps
  <2>2. \A i : Queued(i) => \/ Queued(i)' \/ InTopic(i)'
                            \/ i \in failures' /\ reports' = [reports EXCEPT !.err = @ + 1]
    BY <1>2, QueuedKept
  <2>3. /\ failures \subseteq failures'
        /\ \/ handed' = handed
           \/ Send /\ handed' = handed \cup {cursor}
    BY <1>2 DEF Next, MainStep, LibraryStep, Emit, Connect, LeaveLoop, Refused,
                SendRaises, Interrupted,
           WaitOver, ReadFrame, Send, Backpressure, Flushed, FlushTimeout, Kill, EndsAs, Signal,
           BrokerAppend, Acknowledge, DeliveryTimeout, vars, sourceVars, sinkVars, processVars
  <2>4. ASSUME Send PROVE Queued(cursor)'
    <3>1. /\ Len(queue') = Len(queue) + 1
          /\ queue'[Len(queue) + 1].i = cursor
      <4>1. PICK p \in RouteOf(feed[cursor]) :
              /\ Len(queue') = Len(queue) + 1
              /\ queue'[Len(queue) + 1] = [i |-> cursor, p |-> p, appended |-> FALSE]
        BY <2>4, SendsOne
      <4> QED BY <4>1
    <3>2. Len(queue) + 1 \in 1..Len(queue') /\ cursor' = cursor
      BY <2>4, <3>1, QueueRecords DEF Send, sourceVars
    <3> QED BY <3>1, <3>2 DEF Queued
  <2>5. \A i \in handed' : i \in handed \/ Queued(i)'
    <3>1. ASSUME NEW i, i = cursor, Send PROVE Queued(i)'
      BY <2>4, <3>1 DEF Queued, Send, sourceVars
    <3> QED BY <2>3, <3>1
  <2>6. \A i \in handed' : InTopic(i)' \/ Queued(i)' \/ i \in failures'
    BY <2>1, <2>2, <2>3, <2>5 DEF HandedInv
  <2>7. ASSUME stats'.failed = 0, reports'.err = 0
        PROVE  \A i \in handed' : InTopic(i)' \/ Queued(i)'
    <3>1. reports \in [ok: Nat, err: Nat] /\ stats \in [produced: Nat, delivered: Nat, failed: Nat]
      BY DEF Typed, TypeOK
    <3>2. reports' # [reports EXCEPT !.err = @ + 1]
      BY <2>7, <3>1
    <3>3. \/ stats' = stats /\ \/ reports' = reports
                               \/ reports' = [reports EXCEPT !.ok = @ + 1]
                               \/ reports' = [reports EXCEPT !.err = @ + 1]
          \/ stats'.failed = Served.failed
      <4>1. CASE Send
        <5>1. stats' = [Served EXCEPT !.produced = @ + 1]
          BY <4>1 DEF Send
        <5> QED BY <5>1, ServedStats
      <4>2. CASE Backpressure \/ Flushed \/ FlushTimeout
        BY <4>2 DEF Backpressure, Flushed, FlushTimeout
      <4>3. ASSUME NEW p \in Partitions, Acknowledge(p) \/ DeliveryTimeout(p)
            PROVE  /\ stats' = stats
                   /\ \/ reports' = [reports EXCEPT !.ok = @ + 1]
                      \/ reports' = [reports EXCEPT !.err = @ + 1]
        BY <4>3 DEF Acknowledge, DeliveryTimeout
      <4> QED BY <1>2, <4>1, <4>2, <4>3
              DEF Next, MainStep, LibraryStep, Emit, Connect, LeaveLoop, Refused,
                  SendRaises, Interrupted,
                  WaitOver, ReadFrame, Kill, EndsAs, Signal, BrokerAppend,
                  vars, sourceVars, sinkVars, processVars
    <3>4. stats.failed = 0 /\ reports.err = 0
      BY <2>7, <3>1, <3>2, <3>3, ServedStats
    <3>5. \A i \in handed : InTopic(i) \/ Queued(i)
      BY <3>4 DEF HandedInv
    <3> QED BY <2>1, <2>2, <2>5, <3>2, <3>5
  <2>8. ASSUME exit' = "zero" PROVE pc' = "down" /\ \A i \in handed' : InTopic(i)'
    <3>1. CASE Flushed
      <4>1. /\ pc' = "down" /\ handed' = handed /\ queue = <<>> /\ Served.failed = 0
            /\ topic' = topic
        BY <2>8, <3>1, ServedStats DEF Flushed, EndsAs, Typed
      <4>2. stats.failed = 0 /\ reports.err = 0
        BY <4>1, ServedStats DEF Typed, TypeOK
      <4>3. \A i : ~Queued(i)
        BY <4>1 DEF Queued
      <4> QED BY <2>1, <4>1, <4>2, <4>3 DEF HandedInv
    <3>2. CASE ~Flushed
      <4>1. exit = "zero" /\ pc' = pc /\ handed' = handed
        BY <1>2, <2>8, <3>2 DEF Next, MainStep, LibraryStep, Emit, Connect, LeaveLoop, Refused,
                                SendRaises,
               Interrupted, WaitOver, ReadFrame, Send, Backpressure, FlushTimeout, Kill,
               EndsAs, Signal, BrokerAppend, Acknowledge, DeliveryTimeout,
               vars, sourceVars, sinkVars, processVars, HandedInv
      <4> QED BY <2>1, <4>1 DEF HandedInv
    <3> QED BY <3>1, <3>2
  <2> QED BY <2>6, <2>7, <2>8 DEF HandedInv
<1> QED BY <1>1, <1>2

(* SinkStats.in_flight counts the queue and the reports that wait. *)
LEMMA InFlightStep ==
    ASSUME Typed, Indices, InFlightIsTrue, [Next]_vars
    PROVE  InFlightIsTrue'
<1>1. /\ reports \in [ok: Nat, err: Nat]
      /\ stats \in [produced: Nat, delivered: Nat, failed: Nat]
  BY DEF Typed, TypeOK
<1>2. CASE StartProcess
  BY <1>2 DEF StartProcess, InFlightIsTrue, NoStats, NoReports
<1>3. CASE Send
  <2>1. Len(queue') = Len(queue) + 1
    BY <1>3, SendsOne
  <2>2. /\ stats'.produced = stats.produced + 1 /\ stats'.delivered = stats.delivered + reports.ok
        /\ stats'.failed = stats.failed + reports.err
    <3>1. stats' = [Served EXCEPT !.produced = @ + 1]
      BY <1>3 DEF Send
    <3> QED BY <3>1, ServedStats
  <2>3. reports'.ok = 0 /\ reports'.err = 0 /\ pc # "down"
    BY <1>3 DEF Send, NoReports
  <2>4. stats.produced - stats.delivered - stats.failed = Len(queue) + reports.ok + reports.err
    BY <2>3 DEF InFlightIsTrue
  <2>5. /\ stats.produced \in Nat /\ stats.delivered \in Nat /\ stats.failed \in Nat
        /\ reports.ok \in Nat /\ reports.err \in Nat /\ Len(queue) \in Nat
    BY <1>1, QueueRecords
  <2>6. stats'.produced - stats'.delivered - stats'.failed = Len(queue')
    <3> DEFINE produced == stats.produced
               delivered == stats.delivered
               failed == stats.failed
               ok == reports.ok
               err == reports.err
               length == Len(queue)
    <3>1. /\ produced \in Nat /\ delivered \in Nat /\ failed \in Nat
          /\ ok \in Nat /\ err \in Nat /\ length \in Nat
          /\ produced - delivered - failed = length + ok + err
      BY <2>4, <2>5
    <3>2. (produced + 1) - (delivered + ok) - (failed + err) = length + 1
      <4> HIDE DEF produced, delivered, failed, ok, err, length
      <4> QED BY <3>1
    <3> QED BY <2>1, <2>2, <3>2
  <2>7. Len(queue') = Len(queue') + reports'.ok + reports'.err
    BY <2>1, <2>3, <2>5
  <2> QED BY <2>6, <2>7 DEF InFlightIsTrue
<1>4. CASE Backpressure
  <2>1. /\ stats' = Served /\ reports'.ok = 0 /\ reports'.err = 0
        /\ pc # "down" /\ queue' = queue
    BY <1>4 DEF Backpressure, NoReports
  <2>2. stats.produced - stats.delivered - stats.failed = Len(queue) + reports.ok + reports.err
    BY <2>1 DEF InFlightIsTrue
  <2>3. /\ stats.produced \in Nat /\ stats.delivered \in Nat /\ stats.failed \in Nat
        /\ reports.ok \in Nat /\ reports.err \in Nat /\ Len(queue) \in Nat
    BY <1>1, QueueRecords
  <2>4. /\ stats'.produced = stats.produced /\ stats'.delivered = stats.delivered + reports.ok
        /\ stats'.failed = stats.failed + reports.err
    BY <2>1, ServedStats
  <2>5. stats'.produced - stats'.delivered - stats'.failed = Len(queue)
    <3> DEFINE produced == stats.produced
               delivered == stats.delivered
               failed == stats.failed
               ok == reports.ok
               err == reports.err
               length == Len(queue)
    <3>1. /\ produced \in Nat /\ delivered \in Nat /\ failed \in Nat
          /\ ok \in Nat /\ err \in Nat /\ length \in Nat
          /\ produced - delivered - failed = length + ok + err
      BY <2>2, <2>3
    <3>2. produced - (delivered + ok) - (failed + err) = length
      <4> HIDE DEF produced, delivered, failed, ok, err, length
      <4> QED BY <3>1
    <3> QED BY <2>4, <3>2
  <2> QED BY <2>1, <2>3, <2>5 DEF InFlightIsTrue
<1>5. ASSUME NEW p \in Partitions, BrokerAppend(p) PROVE InFlightIsTrue'
  <2>1. PICK n \in 1..Len(queue) : queue' = [queue EXCEPT ![n].appended = TRUE]
    BY <1>5, BrokerTakesOne
  <2>2. Len(queue') = Len(queue)
    BY <2>1, MarkedRecord DEF Typed, TypeOK
  <2> QED BY <1>5, <2>2 DEF BrokerAppend, InFlightIsTrue, processVars
<1>6. ASSUME NEW p \in Partitions, Acknowledge(p) \/ DeliveryTimeout(p) PROVE InFlightIsTrue'
  <2>1. /\ Len(queue') = Len(queue) - 1
        /\ \/ reports' = [reports EXCEPT !.ok = @ + 1]
           \/ reports' = [reports EXCEPT !.err = @ + 1]
    BY <1>6, ReportTakesOne
  <2>2. reports'.ok + reports'.err = reports.ok + reports.err + 1
        /\ reports'.ok \in Nat /\ reports'.err \in Nat
    BY <1>1, <2>1
  <2>3. stats' = stats /\ pc # "down"
    BY <1>6 DEF Acknowledge, DeliveryTimeout
  <2>4. stats.produced - stats.delivered - stats.failed = Len(queue) + reports.ok + reports.err
    BY <2>3 DEF InFlightIsTrue
  <2>5. Len(queue) + reports.ok + reports.err = Len(queue') + reports'.ok + reports'.err
    <3>1. Len(queue) \in Nat /\ reports.ok \in Nat /\ reports.err \in Nat
      BY <1>1, QueueRecords
    <3>2. Len(queue') = Len(queue) - 1
      BY <2>1
    <3>3. reports'.ok \in Nat /\ reports'.err \in Nat
      BY <2>2
    <3>4. reports'.ok + reports'.err = reports.ok + reports.err + 1
      BY <2>2
    <3>5. Len(queue') + (reports'.ok + reports'.err) = Len(queue) + (reports.ok + reports.err)
      BY <3>1, <3>2, <3>4
    <3> QED BY <3>1, <3>2, <3>3, <3>5
  <2> QED BY <2>3, <2>4, <2>5 DEF InFlightIsTrue
<1>7. CASE pc' = "down" \/ ((pc # "down" \/ pc' = pc) /\ UNCHANGED <<queue, reports, stats>>)
  BY <1>7 DEF InFlightIsTrue
<1> QED BY <1>2, <1>3, <1>4, <1>5, <1>6, <1>7
        DEF Next, MainStep, LibraryStep, Emit, Connect, LeaveLoop, Refused,
            SendRaises, Interrupted,
            WaitOver, ReadFrame, Flushed, FlushTimeout, Kill, EndsAs, Signal,
            vars, sourceVars, sinkVars, processVars

-----------------------------------------------------------------------------
(* Order.                                                                  *)

(* Numbers in the queue and in the topic. *)
LEMMA Numbers ==
    ASSUME Typed
    PROVE  /\ cursor \in Nat /\ pos \in Nat /\ Len(queue) \in Nat
           /\ \A k \in 1..Len(queue) : queue[k].i \in Nat
           /\ \A p \in Partitions : /\ Len(topic[p]) \in Nat
                                    /\ \A k \in 1..Len(topic[p]) : topic[p][k] \in Nat
<1>1. cursor \in Nat /\ pos \in Nat
  <2>1. Len(feed) \in Nat
    BY LenProperties DEF Typed, TypeOK
  <2> QED BY <2>1 DEF Typed, TypeOK
<1>2. ASSUME NEW p \in Partitions
      PROVE  Len(topic[p]) \in Nat /\ \A k \in 1..Len(topic[p]) : topic[p][k] \in Nat
  <2>1. topic[p] \in Seq(1..MaxFeed)
    BY DEF Typed, TypeOK
  <2>2. Len(topic[p]) \in Nat /\ \A k \in 1..Len(topic[p]) : topic[p][k] \in 1..MaxFeed
    BY <2>1, LenProperties
  <2> QED BY <2>2
<1>3. Len(queue) \in Nat /\ \A k \in 1..Len(queue) : queue[k].i \in Nat
  BY QueueRecords
<1> QED BY <1>1, <1>2, <1>3

(* The frame that is sent is newer than all that went before. *)
LEMMA SendOrdered ==
    ASSUME Typed, Indices, Ordered, Send
    PROVE  Ordered'
<1>1. PICK p \in RouteOf(feed[cursor]) :
        /\ p \in Partitions
        /\ Len(queue') = Len(queue) + 1
        /\ \A j \in 1..Len(queue) : queue'[j] = queue[j]
        /\ queue'[Len(queue) + 1] = [i |-> cursor, p |-> p, appended |-> FALSE]
  BY SendsOne
<1>2. /\ AllBelow(cursor) /\ pos = cursor + 1
      /\ topic' = topic /\ cursor' = cursor /\ pos' = pos /\ pc' \in {"reading", "closing"}
  BY DEF Ordered, Indices, Send, sourceVars
<1>3. \A k \in 1..Len(queue') : k \in 1..Len(queue) \/ k = Len(queue) + 1
  BY <1>1, Numbers
<1>4. ASSUME NEW k, k = Len(queue) + 1
      PROVE  queue'[k].i = cursor /\ queue'[k].p = p
  BY <1>1, <1>4
<1>5. QueueRises'
  <2>1. ASSUME NEW j \in 1..Len(queue'), NEW k \in 1..Len(queue'), j < k
        PROVE  queue'[j].i < queue'[k].i
    <3>1. j \in 1..Len(queue)
      BY <1>1, <2>1, Numbers
    <3>2. CASE k \in 1..Len(queue)
      BY <1>1, <2>1, <3>1, <3>2 DEF Ordered, QueueRises
    <3>3. CASE k = Len(queue) + 1
      BY <1>1, <1>2, <1>4, <3>1, <3>3 DEF AllBelow
    <3> QED BY <1>3, <3>2, <3>3
  <2> QED BY <2>1 DEF QueueRises
<1>6. QueueAhead'
  <2>1. ASSUME NEW k \in 1..Len(queue'), ~queue'[k].appended, NEW j \in 1..Len(topic'[queue'[k].p])
        PROVE  topic'[queue'[k].p][j] < queue'[k].i
    <3>1. CASE k \in 1..Len(queue)
      BY <1>1, <1>2, <2>1, <3>1 DEF Ordered, QueueAhead
    <3>2. CASE k = Len(queue) + 1
      BY <1>1, <1>2, <1>4, <2>1, <3>2 DEF AllBelow
    <3> QED BY <1>3, <3>1, <3>2
  <2> QED BY <2>1 DEF QueueAhead
<1>7. AllBelow(pos)'
  <2>1. \A q \in Partitions : \A k \in 1..Len(topic[q]) : topic[q][k] < pos
    BY <1>2, Numbers DEF AllBelow
  <2>2. ASSUME NEW k \in 1..Len(queue') PROVE queue'[k].i < pos
    BY <1>1, <1>2, <1>3, <1>4, Numbers DEF AllBelow
  <2> QED BY <1>2, <2>1, <2>2 DEF AllBelow
<1> QED BY <1>2, <1>5, <1>6, <1>7 DEF Ordered, TopicRises

(* The broker takes the oldest record it does not have. *)
LEMMA BrokerAppendOrdered ==
    ASSUME Typed, Ordered, NEW p \in Partitions, BrokerAppend(p)
    PROVE  Ordered'
<1>1. PICK n \in 1..Len(queue) :
        /\ queue[n].p = p /\ ~queue[n].appended
        /\ \A j \in 1..Len(queue) : queue[j].p = p /\ ~queue[j].appended => n <= j
        /\ topic' = [topic EXCEPT ![p] = Append(@, queue[n].i)]
        /\ queue' = [queue EXCEPT ![n].appended = TRUE]
  BY BrokerTakesOne
<1>2. /\ Len(topic[p]) \in Nat /\ Len(topic'[p]) = Len(topic[p]) + 1
      /\ \A j \in 1..Len(topic[p]) : topic'[p][j] = topic[p][j]
      /\ topic'[p][Len(topic[p]) + 1] = queue[n].i
      /\ \A r \in Partitions : r # p => topic'[r] = topic[r]
  BY <1>1, TopicTakesOne
<1>3. /\ Len(queue') = Len(queue)
      /\ \A j \in 1..Len(queue) :
           /\ queue'[j].i = queue[j].i /\ queue'[j].p = queue[j].p
           /\ queue'[j].appended <=> queue[j].appended \/ j = n
  BY <1>1, MarkedRecord DEF Typed, TypeOK
<1>4. cursor' = cursor /\ pos' = pos /\ pc' = pc
  BY DEF BrokerAppend, sourceVars, processVars
<1>5. \A j \in 1..Len(topic[p]) : topic[p][j] < queue[n].i
  BY <1>1 DEF Ordered, QueueAhead
<1>6. \A k \in 1..Len(topic'[p]) : k \in 1..Len(topic[p]) \/ k = Len(topic[p]) + 1
  BY <1>2
<1>7. TopicRises'
  <2>1. ASSUME NEW j \in 1..Len(topic'[p]), NEW k \in 1..Len(topic'[p]), j < k
        PROVE  topic'[p][j] < topic'[p][k]
    <3>1. j \in 1..Len(topic[p])
      BY <1>2, <2>1
    <3>2. CASE k \in 1..Len(topic[p])
      BY <1>2, <2>1, <3>1, <3>2 DEF Ordered, TopicRises
    <3>3. CASE k = Len(topic[p]) + 1
      BY <1>2, <1>5, <3>1, <3>3
    <3> QED BY <1>6, <3>2, <3>3
  <2>2. ASSUME NEW r \in Partitions, r # p,
               NEW j \in 1..Len(topic'[r]), NEW k \in 1..Len(topic'[r]), j < k
        PROVE  topic'[r][j] < topic'[r][k]
    BY <1>2, <2>2 DEF Ordered, TopicRises
  <2> QED BY <2>1, <2>2 DEF TopicRises
<1>8. QueueRises'
  BY <1>3 DEF Ordered, QueueRises
<1>9. QueueAhead'
  <2>1. ASSUME NEW k \in 1..Len(queue'), ~queue'[k].appended, NEW j \in 1..Len(topic'[queue'[k].p])
        PROVE  topic'[queue'[k].p][j] < queue'[k].i
    <3>1. /\ k \in 1..Len(queue) /\ k # n /\ ~queue[k].appended
          /\ queue'[k].i = queue[k].i /\ queue'[k].p = queue[k].p /\ queue[k].p \in Partitions
      BY <1>3, <2>1, QueueRecords
    <3>2. CASE queue[k].p # p
      BY <1>2, <2>1, <3>1, <3>2 DEF Ordered, QueueAhead
    <3>3. CASE queue[k].p = p
      <4>1. n < k
        BY <1>1, <3>1, <3>3
      <4>2. queue[n].i < queue[k].i
        BY <3>1, <4>1 DEF Ordered, QueueRises
      <4>3. CASE j \in 1..Len(topic[p])
        <5>1. topic[p][j] < queue[k].i
          BY <3>1, <3>3, <4>3 DEF Ordered, QueueAhead
        <5> QED BY <1>2, <3>1, <3>3, <4>3, <5>1
      <4>4. CASE j = Len(topic[p]) + 1
        BY <1>2, <3>1, <3>3, <4>2, <4>4
      <4> QED BY <1>6, <2>1, <3>1, <3>3, <4>3, <4>4
    <3> QED BY <3>2, <3>3
  <2> QED BY <2>1 DEF QueueAhead
<1>10. ASSUME NEW m, AllBelow(m) PROVE AllBelow(m)'
  <2>1. ASSUME NEW r \in Partitions, NEW k \in 1..Len(topic'[r])
        PROVE  topic'[r][k] < m
    <3>1. CASE r # p
      BY <1>2, <1>10, <2>1, <3>1 DEF AllBelow
    <3>2. CASE r = p /\ k \in 1..Len(topic[p])
      BY <1>2, <1>10, <3>2 DEF AllBelow
    <3>3. CASE r = p /\ k = Len(topic[p]) + 1
      BY <1>1, <1>2, <1>10, <3>3 DEF AllBelow
    <3> QED BY <1>6, <2>1, <3>1, <3>2, <3>3
  <2>2. \A k \in 1..Len(queue') : queue'[k].i < m
    BY <1>3, <1>10 DEF AllBelow
  <2> QED BY <2>1, <2>2 DEF AllBelow
<1>11. /\ pc' = "sending" => AllBelow(cursor)'
       /\ pc' = "reading" => AllBelow(pos)'
  BY <1>4, <1>10 DEF Ordered, AllBelow
<1> QED BY <1>4, <1>7, <1>8, <1>9, <1>11 DEF Ordered

(* A queue that loses a record stays in order. *)
LEMMA ReportOrdered ==
    ASSUME Typed, Ordered, NEW p \in Partitions, Acknowledge(p) \/ DeliveryTimeout(p)
    PROVE  Ordered'
<1>1. PICK n \in 1..Len(queue) :
        /\ Len(queue') = Len(queue) - 1
        /\ \A j \in 1..(Len(queue) - 1) : queue'[j] = IF j < n THEN queue[j] ELSE queue[j + 1]
  BY ReportTakesOne
<1>2. Len(queue) \in Nat
  BY QueueRecords
<1>3. topic' = topic /\ cursor' = cursor /\ pos' = pos /\ pc' = pc
  BY DEF Acknowledge, DeliveryTimeout, sourceVars, processVars
<1> DEFINE old(j) == IF j < n THEN j ELSE j + 1
<1>4. \A j \in 1..Len(queue') : old(j) \in 1..Len(queue) /\ queue'[j] = queue[old(j)]
  <2>1. ASSUME NEW j \in 1..Len(queue')
        PROVE  old(j) \in 1..Len(queue) /\ queue'[j] = queue[old(j)]
    <3>1. j \in 1..(Len(queue) - 1) /\ j \in Nat
      BY <1>1, <1>2
    <3> QED BY <1>1, <1>2, <3>1
  <2> QED BY <2>1
<1>5. \A j, k \in 1..Len(queue') : j < k => old(j) < old(k)
  BY <1>2
<1> HIDE DEF old
<1>6. QueueRises'
  BY <1>4, <1>5 DEF Ordered, QueueRises
<1>7. QueueAhead'
  BY <1>3, <1>4 DEF Ordered, QueueAhead
<1>8. \A m : AllBelow(m) => AllBelow(m)'
  BY <1>3, <1>4 DEF AllBelow
<1> QED BY <1>3, <1>6, <1>7, <1>8 DEF Ordered, TopicRises, AllBelow

(* Frames stay in feed order until the first reconnect. *)
LEMMA OrderStep ==
    ASSUME Typed, Indices, OrderInv, [Next]_vars
    PROVE  OrderInv'
<1> SUFFICES ASSUME reconnects' = 0 PROVE Ordered'
  BY DEF OrderInv
<1>1. ~Interrupted /\ reconnects = 0
  BY DEF Next, MainStep, LibraryStep, Emit, StartProcess, Connect, LeaveLoop, Refused,
         SendRaises,
         Interrupted, WaitOver, ReadFrame, Send, Backpressure, BrokerAppend, Acknowledge,
         DeliveryTimeout, Flushed, FlushTimeout, Kill, EndsAs, Signal, vars, sourceVars, Typed
<1>2. Ordered
  BY <1>1 DEF OrderInv
<1>3. CASE StartProcess
  BY <1>2, <1>3 DEF StartProcess, Ordered, TopicRises, QueueRises, QueueAhead
<1>4. CASE Connect
  <2>1. cursor = 0 /\ pos' = Len(feed) + 1 /\ pc' = "reading" /\ UNCHANGED <<topic, queue>>
    BY <1>2, <1>4 DEF Connect, Ordered, ResumeAt, sinkVars
  <2>2. \A p \in Partitions : \A k \in 1..Len(topic[p]) : topic[p][k] < Len(feed) + 1
    BY Numbers, FeedGrows DEF Indices
  <2>3. \A k \in 1..Len(queue) : queue[k].i < Len(feed) + 1
    BY Numbers, FeedGrows DEF Indices
  <2> QED BY <1>2, <2>1, <2>2, <2>3 DEF Ordered, AllBelow, TopicRises, QueueRises, QueueAhead
<1>5. CASE ReadFrame
  BY <1>2, <1>5 DEF ReadFrame, Ordered, AllBelow, TopicRises, QueueRises, QueueAhead, sinkVars
<1>6. CASE UNCHANGED <<topic, queue>> /\ pc' \in {"closing", "down"}
  BY <1>2, <1>6 DEF Ordered, TopicRises, QueueRises, QueueAhead
<1>7. CASE UNCHANGED <<topic, queue, pc, cursor, pos>>
  BY <1>2, <1>7 DEF Ordered, AllBelow, TopicRises, QueueRises, QueueAhead
<1>8. ~WaitOver
  BY <1>2 DEF WaitOver, Ordered
<1>9. CASE Send
  BY <1>2, <1>9, SendOrdered
<1>10. CASE \E p \in Partitions : LibraryStep(p)
  BY <1>2, <1>10, BrokerAppendOrdered, ReportOrdered DEF LibraryStep
<1> QED BY <1>1, <1>3, <1>4, <1>5, <1>6, <1>7, <1>8, <1>9, <1>10
        DEF Next, MainStep, Emit, LeaveLoop, Refused,
            SendRaises, Backpressure, Flushed, FlushTimeout, Kill,
            EndsAs, Signal, vars, sourceVars, sinkVars, processVars

-----------------------------------------------------------------------------
(* How much is sent.                                                       *)

(* The records that wait are finitely many. *)
LEMMA WaitingFinite ==
    ASSUME Typed, NEW p \in Partitions
    PROVE  /\ IsFiniteSet(Waiting(p)) /\ Cardinality(Waiting(p)) \in Nat
           /\ SentTo(p) \in Nat
<1>1. Len(queue) \in Nat /\ Len(topic[p]) \in Nat
  BY Numbers
<1>2. IsFiniteSet(1..Len(queue)) /\ Waiting(p) \subseteq 1..Len(queue)
  BY <1>1, FS_Interval DEF Waiting, OfPartition
<1>3. IsFiniteSet(Waiting(p)) /\ Cardinality(Waiting(p)) \in Nat
  BY <1>2, FS_Subset, FS_CardinalityType
<1> QED BY <1>1, <1>3 DEF SentTo

(* Send adds one record. *)
LEMMA SendAddsOne ==
    ASSUME Typed, Indices, Send, NEW r \in Partitions
    PROVE  SentTo(r)' \in Nat /\ SentTo(r)' <= SentTo(r) + 1
<1>1. PICK p \in RouteOf(feed[cursor]) :
        /\ Len(queue') = Len(queue) + 1
        /\ \A j \in 1..Len(queue) : queue'[j] = queue[j]
        /\ queue'[Len(queue) + 1] = [i |-> cursor, p |-> p, appended |-> FALSE]
  BY SendsOne
<1> DEFINE W == Waiting(r)
           n == Len(queue) + 1
<1>2. /\ IsFiniteSet(W) /\ Cardinality(W) \in Nat /\ Len(topic[r]) \in Nat
      /\ Len(queue) \in Nat
  BY WaitingFinite, Numbers
<1>3. Waiting(r)' \subseteq W \cup {n}
  <2>1. \A k \in 1..Len(queue') : k \in 1..Len(queue) \/ k = n
    BY <1>1, <1>2
  <2> QED BY <1>1, <2>1 DEF Waiting, OfPartition
<1> HIDE DEF W, n
<1>4. IsFiniteSet(W \cup {n}) /\ Cardinality(W \cup {n}) <= Cardinality(W) + 1
  <2>1. /\ IsFiniteSet(W \cup {n})
        /\ Cardinality(W \cup {n}) = IF n \in W THEN Cardinality(W) ELSE Cardinality(W) + 1
    BY <1>2, FS_AddElement
  <2> QED BY <1>2, <2>1
<1>5. Cardinality(Waiting(r)') <= Cardinality(W) + 1
  <2>1. /\ IsFiniteSet(Waiting(r)')
        /\ Cardinality(Waiting(r)') <= Cardinality(W \cup {n})
    BY <1>3, <1>4, FS_Subset
  <2>2. Cardinality(Waiting(r)') \in Nat /\ Cardinality(W \cup {n}) \in Nat
    BY <1>4, <2>1, FS_CardinalityType
  <2> QED BY <1>2, <1>4, <2>1, <2>2
<1>6. IsFiniteSet(Waiting(r)')
  BY <1>3, <1>4, FS_Subset
<1>7. Cardinality(Waiting(r)') \in Nat
  BY <1>6, FS_CardinalityType
<1>8. topic' = topic
  BY DEF Send
<1> QED BY <1>2, <1>5, <1>7, <1>8 DEF SentTo, W

(* The broker moves a record from the queue to the topic. *)
LEMMA BrokerMovesOne ==
    ASSUME Typed, NEW p \in Partitions, BrokerAppend(p), NEW r \in Partitions
    PROVE  /\ SentTo(r)' = SentTo(r)
           /\ Len(topic[p]) < SentTo(p)
<1>1. PICK n \in 1..Len(queue) :
        /\ queue[n].p = p /\ ~queue[n].appended
        /\ topic' = [topic EXCEPT ![p] = Append(@, queue[n].i)]
        /\ queue' = [queue EXCEPT ![n].appended = TRUE]
  BY BrokerTakesOne
<1>2. /\ Len(topic'[p]) = Len(topic[p]) + 1
      /\ \A q \in Partitions : q # p => topic'[q] = topic[q]
  BY <1>1, TopicTakesOne
<1>3. /\ Len(queue') = Len(queue)
      /\ \A j \in 1..Len(queue) :
           /\ queue'[j].p = queue[j].p
           /\ queue'[j].appended <=> queue[j].appended \/ j = n
  BY <1>1, MarkedRecord DEF Typed, TypeOK
<1>4. n \in Waiting(p) /\ Waiting(p)' = Waiting(p) \ {n}
  BY <1>1, <1>3 DEF Waiting, OfPartition
<1>5. /\ IsFiniteSet(Waiting(p)) /\ Cardinality(Waiting(p)) \in Nat
      /\ Len(topic[p]) \in Nat
  BY WaitingFinite, Numbers
<1>6. /\ Cardinality(Waiting(p)') = Cardinality(Waiting(p)) - 1
      /\ Cardinality(Waiting(p)') \in Nat
  <2>1. /\ IsFiniteSet(Waiting(p) \ {n})
        /\ Cardinality(Waiting(p) \ {n}) = Cardinality(Waiting(p)) - 1
    BY <1>4, <1>5, FS_RemoveElement
  <2> QED BY <1>4, <2>1, FS_CardinalityType
<1>7. SentTo(p)' = SentTo(p) /\ Len(topic[p]) < SentTo(p)
  BY <1>2, <1>5, <1>6 DEF SentTo
<1>8. CASE r # p
  <2>1. Waiting(r)' = Waiting(r)
    BY <1>1, <1>3, <1>8 DEF Waiting, OfPartition
  <2> QED BY <1>2, <1>7, <1>8, <2>1 DEF SentTo
<1>9. CASE r = p
  BY <1>7, <1>9
<1> QED BY <1>8, <1>9

(* A report takes records away only. *)
LEMMA ReportAddsNone ==
    ASSUME Typed, NEW p \in Partitions, Acknowledge(p) \/ DeliveryTimeout(p),
           NEW r \in Partitions
    PROVE  SentTo(r)' \in Nat /\ SentTo(r)' <= SentTo(r)
<1>1. PICK n \in 1..Len(queue) :
        /\ Len(queue') = Len(queue) - 1
        /\ \A j \in 1..(Len(queue) - 1) : queue'[j] = IF j < n THEN queue[j] ELSE queue[j + 1]
  BY ReportTakesOne
<1>2. /\ Len(queue) \in Nat /\ Len(topic[r]) \in Nat
      /\ IsFiniteSet(Waiting(r)) /\ Cardinality(Waiting(r)) \in Nat
  BY Numbers, WaitingFinite
<1> DEFINE S == Waiting(r)'
           T == Waiting(r)
           old == [j \in S |-> IF j < n THEN j ELSE j + 1]
<1>3. \A j \in S : /\ j \in 1..(Len(queue) - 1)
                   /\ old[j] \in T
  <2>1. ASSUME NEW j \in S PROVE j \in 1..(Len(queue) - 1) /\ old[j] \in T
    <3>1. j \in 1..(Len(queue) - 1) /\ queue'[j].p = r /\ ~queue'[j].appended
      BY <1>1, <2>1 DEF Waiting, OfPartition
    <3>2. j \in 1..Len(queue) /\ j + 1 \in 1..Len(queue)
      BY <1>2, <3>1
    <3> QED BY <1>1, <3>1, <3>2 DEF Waiting, OfPartition
  <2> QED BY <2>1
<1>4. \A j, k \in S : old[j] = old[k] => j = k
  BY <1>2, <1>3
<1>5. old \in [S -> T]
  BY <1>3
<1>6. old \in Injection(S, T)
  BY <1>4, <1>5 DEF Injection, IsInjective
<1> HIDE DEF S, T, old
<1>7. IsFiniteSet(S) /\ Cardinality(S) <= Cardinality(T)
  BY <1>2, <1>6, FS_Injection DEF T
<1>8. Cardinality(S) \in Nat
  BY <1>7, FS_CardinalityType
<1>9. topic' = topic
  BY DEF Acknowledge, DeliveryTimeout
<1> QED BY <1>2, <1>7, <1>8, <1>9 DEF SentTo, S, T

(* A step that starts or breaks a connection leaves the count of the       *)
(* connections one higher; no other step changes it.                       *)
LEMMA ConnectionsStep ==
    ASSUME Typed, [Next]_vars
    PROVE  /\ Before \in Int /\ Before' \in Int /\ MaxFeed \in Nat
           /\ StartProcess => Before' = Before + MaxFeed
           /\ Interrupted /\ ~stop => Before' = Before + MaxFeed
           /\ Interrupted => Before <= Before'
           /\ ~StartProcess /\ ~Interrupted => Before' = Before
<1>1. /\ runs \in Nat /\ reconnects \in Nat /\ MaxReconnects \in Nat /\ MaxFeed \in Nat
  BY ProducerAssumption DEF Typed
<1>2. /\ StartProcess => runs' = runs + 1 /\ reconnects' = reconnects
      /\ Interrupted => runs' = runs /\ reconnects' = reconnects + 1
      /\ ~StartProcess /\ ~Interrupted => runs' = runs /\ reconnects' = reconnects
  BY DEF Next, MainStep, LibraryStep, Emit, StartProcess, Connect, LeaveLoop, Refused,
         SendRaises,
         Interrupted, WaitOver, ReadFrame, Send, Backpressure, BrokerAppend, Acknowledge,
         DeliveryTimeout, Flushed, FlushTimeout, Kill, EndsAs, Signal,
         vars, sourceVars, processVars
<1>3. StartProcess \/ Interrupted \/ (~StartProcess /\ ~Interrupted)
  OBVIOUS
<1>4. Connections \in Nat /\ Connections' \in Nat
  BY <1>1, <1>2, <1>3 DEF Connections
<1>5. /\ StartProcess => Connections' = Connections + 1
      /\ Interrupted /\ ~stop => Connections' = Connections + 1
      /\ Interrupted => Connections' = Connections + 1 \/ Connections' = Connections
      /\ ~StartProcess /\ ~Interrupted => Connections' = Connections
  <2>1. Interrupted /\ ~stop => reconnects < MaxReconnects
    BY DEF Interrupted
  <2> QED BY <1>1, <1>2, <2>1 DEF Connections
<1>6. ASSUME NEW c \in Nat, NEW d \in Nat, d = c + 1
      PROVE  MaxFeed * (d - 1) = MaxFeed * (c - 1) + MaxFeed
  BY <1>1, <1>6
<1>7. Before \in Int /\ Before' \in Int
  BY <1>1, <1>4 DEF Before
<1>8. /\ Connections' = Connections + 1 => Before' = Before + MaxFeed
      /\ Connections' = Connections => Before' = Before
  BY <1>4, <1>6 DEF Before
<1> QED BY <1>1, <1>5, <1>7, <1>8

(* No step sends more than the connections there were could deliver. *)
LEMMA CountStep ==
    ASSUME Typed, Typed', Indices, Indices', CountInv, [Next]_vars
    PROVE  CountInv'
<1>1. /\ Before \in Int /\ Before' \in Int /\ MaxFeed \in Nat
      /\ StartProcess => Before' = Before + MaxFeed
      /\ Interrupted /\ ~stop => Before' = Before + MaxFeed
      /\ Interrupted => Before <= Before'
      /\ ~StartProcess /\ ~Interrupted => Before' = Before
  BY ConnectionsStep
<1>2. /\ pos \in Nat /\ pos' \in Nat
      /\ pos <= MaxFeed + 1 /\ pos' <= MaxFeed + 1
  <2>1. /\ Len(feed) \in Nat /\ Len(feed) <= MaxFeed
        /\ Len(feed') \in Nat /\ Len(feed') <= MaxFeed
    BY FeedGrows DEF Typed
  <2>2. pos \in 0..(Len(feed) + 1) /\ pos' \in 0..(Len(feed') + 1)
    BY DEF Typed, TypeOK
  <2> QED BY <1>1, <2>1, <2>2
<1>3. runs' <= MaxRuns /\ (runs' = 0 => pc' = "down")
  <2>1. CASE StartProcess
    <3>1. runs \in Nat /\ MaxRuns \in Nat
      BY ProducerAssumption DEF Typed
    <3> QED BY <2>1, <3>1 DEF StartProcess
  <2>2. CASE ~StartProcess
    BY <2>2 DEF CountInv, Next, MainStep, LibraryStep, Emit, Connect, LeaveLoop, Refused,
                SendRaises,
           Interrupted, WaitOver, ReadFrame, Send, Backpressure, BrokerAppend, Acknowledge,
           DeliveryTimeout, Flushed, FlushTimeout, Kill, EndsAs, Signal,
           vars, sourceVars, processVars
  <2> QED BY <2>1, <2>2
<1> SUFFICES ASSUME NEW p \in Partitions
             PROVE  /\ pc' = "reading" => SentTo(p)' <= Before' + pos' - 1
                    /\ pc' = "sending" => SentTo(p)' <= Before' + pos' - 2
                    /\ pc' \in {"connecting", "waiting"} /\ ~stop' => SentTo(p)' <= Before'
                    /\ SentTo(p)' <= Before' + MaxFeed
  BY <1>3 DEF CountInv
<1> DEFINE s == SentTo(p)
           b == Before
<1>4. /\ pc = "reading" => s <= b + pos - 1
      /\ pc = "sending" => s <= b + pos - 2
      /\ pc \in {"connecting", "waiting"} /\ ~stop => s <= b
      /\ s <= b + MaxFeed
  BY DEF CountInv
<1>5. s \in Nat
  BY WaitingFinite
<1>6. UNCHANGED <<topic, queue>> => s' = s
  BY DEF SentTo, Waiting, OfPartition
<1> HIDE DEF s, b
<1>7. CASE StartProcess
  <2>1. s' \in Nat /\ s' <= s
    <3>1. Waiting(p)' = {} /\ topic' = topic
      BY <1>7 DEF StartProcess, Waiting, OfPartition
    <3>2. Cardinality(Waiting(p)) \in Nat /\ Len(topic[p]) \in Nat
      BY WaitingFinite, Numbers
    <3> QED BY <3>1, <3>2, FS_EmptySet DEF s, SentTo
  <2> QED BY <1>1, <1>4, <1>5, <1>7, <2>1 DEF StartProcess, s, b
<1>8. CASE Send
  <2>1. s' \in Nat /\ s' <= s + 1
    BY <1>8, SendAddsOne DEF s
  <2>2. /\ pc = "sending" /\ pos' = pos /\ b' = b
        /\ pc' = "reading" \/ pc' = "closing"
    BY <1>1, <1>8 DEF Send, StartProcess, Interrupted, sourceVars, b
  <2> QED BY <1>1, <1>2, <1>4, <1>5, <2>1, <2>2 DEF s, b
<1>9. CASE \E q \in Partitions : LibraryStep(q)
  <2>1. s' \in Nat /\ s' <= s
    BY <1>5, <1>9, BrokerMovesOne, ReportAddsNone DEF LibraryStep, s
  <2>2. b' = b /\ pc' = pc /\ pos' = pos /\ stop' = stop
    BY <1>1, <1>9 DEF LibraryStep, BrokerAppend, Acknowledge, DeliveryTimeout, StartProcess,
                      Interrupted, sourceVars, processVars, b
  <2> QED BY <1>1, <1>2, <1>4, <1>5, <2>1, <2>2 DEF s, b
<1>10. CASE Connect
  <2>1. pc = "connecting" /\ ~stop /\ pc' = "reading" /\ UNCHANGED <<topic, queue>>
    BY <1>10 DEF Connect, sinkVars
  <2>2. pos' >= 1
    BY <2>1 DEF Indices
  <2>3. b' = b
    BY <1>1, <1>10 DEF Connect, StartProcess, Interrupted, b
  <2> QED BY <1>1, <1>2, <1>4, <1>5, <1>6, <2>1, <2>2, <2>3 DEF s, b
<1>11. CASE Interrupted
  <2>1. pc' = "waiting" /\ stop' = stop /\ UNCHANGED <<topic, queue>>
    BY <1>11 DEF Interrupted, sinkVars
  <2> QED BY <1>1, <1>4, <1>5, <1>6, <1>11, <2>1 DEF s, b
<1>12. CASE ReadFrame
  <2>1. /\ pc = "reading" /\ UNCHANGED <<topic, queue>>
        /\ pc' = "closing" \/ (pc' = "sending" /\ pos' = pos + 1)
    BY <1>12 DEF ReadFrame, sinkVars
  <2>2. b' = b
    BY <1>1, <1>12 DEF ReadFrame, StartProcess, Interrupted, b
  <2> QED BY <1>1, <1>2, <1>4, <1>5, <1>6, <2>1, <2>2 DEF s, b
<1>13. CASE WaitOver
  <2>1. /\ pc = "waiting" /\ pc' = "connecting" /\ stop' = stop /\ UNCHANGED <<topic, queue>>
        /\ b' = b
    BY <1>1, <1>13 DEF WaitOver, StartProcess, Interrupted, sinkVars, processVars, b
  <2> QED BY <1>1, <1>4, <1>5, <1>6, <2>1 DEF s, b
<1>14. CASE ~StartProcess /\ ~Interrupted /\ UNCHANGED <<topic, queue>>
            /\ \/ pc' \in {"closing", "down"}
               \/ UNCHANGED <<pc, pos>> /\ (stop => stop')
  <2>1. b' = b
    BY <1>1, <1>14 DEF b
  <2> QED BY <1>1, <1>2, <1>4, <1>5, <1>6, <1>14, <2>1 DEF s, b
<1> QED BY <1>7, <1>8, <1>9, <1>10, <1>11, <1>12, <1>13, <1>14
        DEF Next, MainStep, Emit, LeaveLoop, Refused,
            SendRaises, Backpressure, Flushed, FlushTimeout, Kill,
            EndsAs, Signal, vars, sourceVars, sinkVars, processVars

-----------------------------------------------------------------------------
(* The theorems.                                                           *)

(* The inductive invariant holds at the start. *)
LEMMA ProducerInit == Init => ProducerInv
<1> SUFFICES ASSUME Init PROVE ProducerInv
  OBVIOUS
<1> USE DEF Init
<1>1. /\ MaxFeed \in Nat /\ MaxRuns \in Nat /\ QueueMax \in Nat \ {0} /\ MaxReconnects \in Nat
      /\ Len(feed) = 0 /\ Len(queue) = 0 /\ \A p \in Partitions : Len(topic[p]) = 0
  BY ProducerAssumption
<1>2. Typed
  <2>1. queue \in Seq(Record) /\ topic \in [Partitions -> Seq(1..MaxFeed)] /\ feed \in Seq(Frame)
    OBVIOUS
  <2>2. reports \in [ok: Nat, err: Nat] /\ reports.ok = 0 /\ reports.err = 0
    BY DEF NoReports
  <2>3. stats \in [produced: Nat, delivered: Nat, failed: Nat]
    BY DEF NoStats
  <2>4. TypeOK
    <3>1. /\ cursor \in 0..Len(feed) /\ pos \in 0..(Len(feed) + 1) /\ handed \subseteq 1..Len(feed)
          /\ Len(queue) + reports.ok + reports.err <= QueueMax
      BY <1>1, <2>2
    <3>2. /\ pc \in {"down", "connecting", "reading", "sending", "waiting", "closing"}
          /\ exit \in {"none", "zero", "nonzero", "killed"}
      OBVIOUS
    <3> QED BY <2>1, <2>3, <3>1, <3>2 DEF TypeOK
  <2> QED BY <1>1, <2>2, <2>4 DEF Typed
<1>3. Indices /\ QueueInv /\ HandedInv /\ InFlightIsTrue /\ OrderInv
  BY <1>1 DEF Indices, QueueInv, HandedInv, InFlightIsTrue, OrderInv, Ordered, TopicRises,
              QueueRises, QueueAhead
<1>4. CountInv
  <2>1. \A p \in Partitions : SentTo(p) = 0
    <3>1. \A p \in Partitions : Waiting(p) = {}
      BY <1>1 DEF Waiting, OfPartition
    <3> QED BY <1>1, <3>1, FS_EmptySet DEF SentTo
  <2>2. Before + MaxFeed = 0
    <3>1. Connections = 0
      BY <1>1 DEF Connections
    <3> QED BY <1>1, <3>1 DEF Before
  <2> QED BY <1>1, <2>1, <2>2 DEF CountInv
<1> QED BY <1>2, <1>3, <1>4 DEF ProducerInv

(* Every step keeps the inductive invariant. *)
LEMMA ProducerStep == ProducerInv /\ [Next]_vars => ProducerInv'
<1> SUFFICES ASSUME ProducerInv, [Next]_vars PROVE ProducerInv'
  OBVIOUS
<1> USE DEF ProducerInv
<1>1. Typed'
  BY TypedStep
<1>2. Indices' /\ QueueInv' /\ HandedInv' /\ InFlightIsTrue' /\ OrderInv'
  BY IndicesStep, QueueStep, HandedStep, InFlightStep, OrderStep
<1>3. CountInv'
  BY <1>1, <1>2, CountStep
<1> QED BY <1>1, <1>2, <1>3

(* The inductive invariant always holds. *)
THEOREM ProducerAlways == Spec => []ProducerInv
BY ProducerInit, ProducerStep, PTL DEF Spec

(* The values of all variables are of their types: no counter of SinkStats *)
(* is ever negative and librdkafka's buffer never holds more than QueueMax *)
(* records and reports.                                                    *)
THEOREM ProducerTypeCorrect == Spec => []TypeOK
<1>1. ProducerInv => TypeOK
  BY DEF ProducerInv, Typed
<1> QED BY <1>1, ProducerAlways, PTL

(* SinkStats.in_flight is what is in the queue or waits as a report, for   *)
(* every size of the buffer and every mixture of acknowledgements and      *)
(* timeouts.                                                               *)
THEOREM InFlightAlwaysTrue == Spec => []InFlightIsTrue
<1>1. ProducerInv => InFlightIsTrue
  BY DEF ProducerInv
<1> QED BY <1>1, ProducerAlways, PTL

(* A frame that was handed to the sink is in the topic, in the queue, or   *)
(* was reported as failed.                                                 *)
THEOREM NothingEverVanishes == Spec => []NothingVanishes
<1>1. ProducerInv => NothingVanishes
  BY DEF ProducerInv, HandedInv, NothingVanishes
<1> QED BY <1>1, ProducerAlways, PTL

(* Exit code zero means that all the process handed over is in the topic.  *)
THEOREM ExitZeroAlwaysMeansDelivered == Spec => []ExitZeroMeansDelivered
<1>1. ProducerInv => ExitZeroMeansDelivered
  BY DEF ProducerInv, HandedInv, ExitZeroMeansDelivered
<1> QED BY <1>1, ProducerAlways, PTL

(* Until the first reconnect the edits of one wiki are in the topic in the *)
(* order the feed emitted them, through restarts and failed deliveries.    *)
THEOREM WikiOrderAlways == Spec => []WikiOrder
<1>1. ProducerInv => WikiOrder
  BY DEF ProducerInv, OrderInv, Ordered, TopicRises, WikiOrder
<1> QED BY <1>1, ProducerAlways, PTL

-----------------------------------------------------------------------------
(* The producer and the topic.                                             *)

(* The frames a sequence of indices stands for. *)
LEMMA FramesOfIndices ==
    ASSUME NEW F \in Seq(Frame), NEW t \in Seq(1..MaxFeed),
           \A k \in 1..Len(t) : t[k] <= Len(F)
    PROVE  LET frames == [k \in 1..Len(t) |-> F[t[k]]]
           IN  frames \in Seq(Frame) /\ Len(frames) = Len(t)
<1> DEFINE frames == [k \in 1..Len(t) |-> F[t[k]]]
<1>1. Len(t) \in Nat /\ \A k \in 1..Len(t) : t[k] \in 1..Len(F)
  <2>1. Len(t) \in Nat /\ \A k \in 1..Len(t) : t[k] \in 1..MaxFeed
    BY LenProperties
  <2>2. Len(F) \in Nat /\ MaxFeed \in Nat
    BY ProducerAssumption, LenProperties
  <2> QED BY <2>1, <2>2
<1>2. \A i \in 1..Len(F) : F[i] \in Frame
  BY LenProperties
<1>3. frames \in [1..Len(t) -> Frame] /\ DOMAIN frames = 1..Len(t)
  BY <1>1, <1>2
<1> HIDE DEF frames
<1>4. frames \in Seq(Frame)
  BY <1>1, <1>3, SeqDef
<1>5. Len(frames) = Len(t)
  <2>1. Len(frames) \in Nat /\ DOMAIN frames = 1..Len(frames)
    BY <1>4, LenProperties
  <2> QED BY <1>1, <1>3, <2>1
<1> QED BY <1>4, <1>5 DEF frames

(* The frames of the topic do not change when the feed grows. *)
LEMMA LogKept ==
    ASSUME Typed, Indices, [Next]_vars, NEW p \in Partitions, topic'[p] = topic[p]
    PROVE  Log'[p] = Log[p]
<1>1. /\ Len(feed) \in Nat /\ Len(topic[p]) \in Nat
      /\ \A k \in 1..Len(topic[p]) : topic[p][k] \in 1..Len(feed)
  <2>1. topic[p] \in Seq(1..MaxFeed)
    BY DEF Typed, TypeOK
  <2>2. Len(topic[p]) \in Nat /\ \A k \in 1..Len(topic[p]) : topic[p][k] \in 1..MaxFeed
    BY <2>1, LenProperties
  <2>3. Len(feed) \in Nat /\ MaxFeed \in Nat
    BY ProducerAssumption, LenProperties DEF Typed, TypeOK
  <2> QED BY <2>2, <2>3 DEF Indices
<1>2. \A i \in 1..Len(feed) : feed'[i] = feed[i]
  BY FeedGrows
<1>3. /\ Log[p] = [k \in 1..Len(topic[p]) |-> feed[topic[p][k]]]
      /\ Log'[p] = [k \in 1..Len(topic[p]) |-> feed'[topic[p][k]]]
  BY DEF Log
<1> QED BY <1>1, <1>2, <1>3

(* The broker's step is a Publish of the topic: at the partition of the    *)
(* frame's wiki, and within the bound.                                     *)
LEMMA BrokerPublishes ==
    ASSUME Typed, Typed', Indices, Indices', QueueInv, CountInv, [Next]_vars,
           NEW p \in Partitions, BrokerAppend(p)
    PROVE  KafkaTopic!TopicNext
<1>1. PICK n \in 1..Len(queue) :
        /\ queue[n].p = p
        /\ topic' = [topic EXCEPT ![p] = Append(@, queue[n].i)]
  BY BrokerTakesOne
<1>2. /\ Len(topic[p]) \in Nat /\ Len(topic'[p]) = Len(topic[p]) + 1
      /\ \A j \in 1..Len(topic[p]) : topic'[p][j] = topic[p][j]
      /\ topic'[p][Len(topic[p]) + 1] = queue[n].i
      /\ \A r \in Partitions : r # p => topic'[r] = topic[r]
  BY <1>1, TopicTakesOne
<1> DEFINE f == feed[queue[n].i]
<1>3. f \in Frame /\ p \in RouteOf(f) /\ feed' = feed
  <2>1. queue[n].i \in 1..Len(feed)
    BY QueueRecords, FeedGrows DEF Indices
  <2>2. f \in Frame
    BY <2>1, ElementOfSeq DEF Typed, TypeOK
  <2>3. queue[n].p \in RouteOf(f)
    BY DEF QueueInv
  <2> QED BY <1>1, <2>2, <2>3 DEF BrokerAppend
<1> HIDE DEF f
<1>4. /\ Log[p] \in Seq(Frame) /\ Len(Log[p]) = Len(topic[p])
      /\ \A k \in 1..Len(topic[p]) : Log[p][k] = feed[topic[p][k]]
  <2>1. Log[p] = [k \in 1..Len(topic[p]) |-> feed[topic[p][k]]]
    BY DEF Log
  <2>2. /\ feed \in Seq(Frame) /\ topic[p] \in Seq(1..MaxFeed)
        /\ \A k \in 1..Len(topic[p]) : topic[p][k] <= Len(feed)
    BY DEF Typed, TypeOK, Indices
  <2> QED BY <2>1, <2>2, FramesOfIndices
<1>5. /\ Log'[p] \in Seq(Frame) /\ Len(Log'[p]) = Len(topic'[p])
      /\ \A k \in 1..Len(topic'[p]) : Log'[p][k] = feed'[topic'[p][k]]
  <2>1. Log'[p] = [k \in 1..Len(topic'[p]) |-> feed'[topic'[p][k]]]
    BY DEF Log
  <2>2. /\ feed' \in Seq(Frame) /\ topic'[p] \in Seq(1..MaxFeed)
        /\ \A k \in 1..Len(topic'[p]) : topic'[p][k] <= Len(feed')
    BY DEF Typed, TypeOK, Indices
  <2> QED BY <2>1, <2>2, FramesOfIndices
<1>6. Log'[p] = Append(Log[p], f)
  <2>1. /\ Append(Log[p], f) \in Seq(Frame) /\ Len(Append(Log[p], f)) = Len(Log[p]) + 1
        /\ \A k \in 1..Len(Log[p]) : Append(Log[p], f)[k] = Log[p][k]
        /\ Append(Log[p], f)[Len(Log[p]) + 1] = f
    BY <1>3, <1>4, AppendProperties
  <2>2. \A k \in 1..Len(Log'[p]) : k \in 1..Len(topic[p]) \/ k = Len(topic[p]) + 1
    BY <1>2, <1>5
  <2>3. ASSUME NEW k \in 1..Len(Log'[p])
        PROVE  Log'[p][k] = Append(Log[p], f)[k]
    <3>1. CASE k \in 1..Len(topic[p])
      <4>1. Log'[p][k] = feed'[topic'[p][k]]
        BY <1>5, <2>3
      <4>2. topic'[p][k] = topic[p][k] /\ Log[p][k] = feed[topic[p][k]]
        BY <1>2, <1>4, <3>1
      <4>3. Append(Log[p], f)[k] = Log[p][k]
        BY <1>4, <2>1, <3>1
      <4> QED BY <1>3, <4>1, <4>2, <4>3
    <3>2. CASE k = Len(topic[p]) + 1
      <4>1. Log'[p][k] = feed'[topic'[p][k]]
        BY <1>5, <2>3
      <4>2. topic'[p][k] = queue[n].i /\ Append(Log[p], f)[k] = f
        BY <1>2, <1>4, <2>1, <3>2
      <4> QED BY <1>3, <4>1, <4>2 DEF f
    <3> QED BY <2>2, <3>1, <3>2
  <2>4. Len(Log'[p]) = Len(Append(Log[p], f))
    BY <1>2, <1>4, <1>5, <2>1
  <2> QED BY <1>5, <2>1, <2>3, <2>4, SeqEqual
<1>7. \A r \in Partitions : r # p => Log'[r] = Log[r]
  BY <1>2, LogKept
<1>8. Log' = [Log EXCEPT ![p] = Append(@, f)]
  BY <1>6, <1>7 DEF Log
<1>9. Len(Log[p]) < MaxFeed * (MaxRuns + MaxReconnects)
  <2>1. Len(topic[p]) < SentTo(p) /\ SentTo(p) \in Nat
    BY BrokerMovesOne, WaitingFinite
  <2>2. SentTo(p) <= Before + MaxFeed
    BY DEF CountInv
  <2>3. /\ Connections \in Nat /\ Connections <= MaxRuns + MaxReconnects
        /\ MaxRuns + MaxReconnects \in Nat /\ MaxFeed \in Nat
    BY ProducerAssumption DEF Connections, CountInv, Typed
  <2>4. Before + MaxFeed = MaxFeed * Connections
    BY <2>3 DEF Before
  <2>5. \A a, b \in Nat : a <= b => MaxFeed * a <= MaxFeed * b
    BY <2>3
  <2>6. /\ MaxFeed * Connections <= MaxFeed * (MaxRuns + MaxReconnects)
        /\ MaxFeed * Connections \in Nat /\ MaxFeed * (MaxRuns + MaxReconnects) \in Nat
    BY <2>3, <2>5
  <2> QED BY <1>2, <1>4, <2>1, <2>2, <2>4, <2>6
<1>10. p \in KafkaTopic!Route(f)
  BY <1>3 DEF KafkaTopic!Route, RouteOf
<1>11. KafkaTopic!Publish(p, f)
  BY <1>8, <1>9, <1>10 DEF KafkaTopic!Publish
<1> QED BY <1>3, <1>11 DEF KafkaTopic!TopicNext

(* What the producer does to the topic is what module Topic says, for any  *)
(* number of restarts, reconnects and lost acknowledgements: the topic     *)
(* grows by one frame at a time, at the partition of its wiki, and holds   *)
(* no more of them than the connections could deliver.                     *)
THEOREM ProducerFeedsTheTopic == Spec => FeedsTheTopic
<1>1. Init => KafkaTopic!TopicInit
  BY DEF Init, KafkaTopic!TopicInit, Log
<1>2. ASSUME ProducerInv, ProducerInv', [Next]_vars
      PROVE  [KafkaTopic!TopicNext]_<<Log>>
  <2>1. ASSUME NEW p \in Partitions, BrokerAppend(p)
        PROVE  KafkaTopic!TopicNext
    BY <1>2, <2>1, BrokerPublishes DEF ProducerInv
  <2>2. ASSUME topic' = topic
        PROVE  Log' = Log
    <3>1. \A p \in Partitions : Log'[p] = Log[p]
      BY <1>2, <2>2, LogKept DEF ProducerInv
    <3> QED BY <3>1 DEF Log
  <2>3. topic' = topic \/ \E p \in Partitions : BrokerAppend(p)
    BY <1>2, KindsOfStep DEF StartProcess, Send, Acknowledge, DeliveryTimeout
  <2> QED BY <2>1, <2>2, <2>3
<1> QED BY <1>1, <1>2, ProducerAlways, PTL DEF Spec, FeedsTheTopic

=============================================================================
