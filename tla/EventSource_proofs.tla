------------------------- MODULE EventSource_proofs -------------------------
(***************************************************************************)
(* The six safety properties of the source loop, for any timeouts and any  *)
(* schedule of delays.  Each invariant relates where the loop is, how long *)
(* it has been there and what happened since the last frame, or since the  *)
(* stop was asked for.                                                     *)
(***************************************************************************)
EXTENDS EventSource, FiniteSetTheorems, SequenceTheorems, TLAPS

(* The cap is reached by an exponent that fits a float. *)
CapWithinFloats == BackoffInitial * 2^MaxExponent >= BackoffMax

(* The health check's limit leaves room for the longest of: a report       *)
(* interval, a silent read, the first delay, a handshake and the wait for  *)
(* the response.                                                           *)
HealthCheckLeavesRoom ==
    StatsInterval + ReadTimeout + Capped(0) + ConnectTimeout + ReadTimeout
        <= HeartbeatTimeout

-----------------------------------------------------------------------------
(* The inductive invariants.                                               *)

(* The parser holds what was read of the frame the connection is in.       *)
ParserInv ==
    /\ conn.pos <= Len(feed) + 1
    /\ source = "jetstream" => conn.line = 1
    /\ conn.line > 1 => conn.pos <= Len(feed) /\ parser.id = conn.pos
    /\ parser.data = CASE conn.line \in {1, 2} -> <<>>
                       [] conn.line = 3 -> <<<<conn.pos, 1>>>>
                       [] conn.line = 4 -> <<<<conn.pos, 1>>, <<conn.pos, 2>>>>

(* No frame between the first one and the one being read is missing, and   *)
(* a loop that has read one has a cursor to resume at.                     *)
LossInv ==
    /\ ParserInv
    /\ NoFrameLost
    /\ pc = "reading" => \A i \in Frames : first > 0 /\ first <= i /\ i < conn.pos => i \in whole
    /\ cursor > 0 => first > 0
    /\ InLoop /\ first > 0 => cursor > 0

(* The loop is never left by an overflow. *)
EndInv == raised # "overflow" /\ EndsOnlyOnPurpose

(* No wait outlasts its timeout. *)
TimerInv ==
    /\ pc = "connecting" => timer <= ConnectTimeout
    /\ pc = "opening" => timer <= ReadTimeout
    /\ pc = "reading" /\ source = "wikimedia" => timer <= ReadTimeout
    /\ pc = "waiting" => timer <= delay

(* Failures are counted from the last frame; a connection that delivered   *)
(* one starts the schedule over, and one that was accepted has given a     *)
(* sign.                                                                   *)
AttemptInv ==
    /\ InLoop => attempt = quiet.faults
    /\ pc = "waiting" => quiet.faults > 0
    /\ pc = "reading" /\ ~fresh => attempt = 0
    /\ pc = "reading" /\ quiet.signs = 0 => ~fresh

(* How old the heartbeat can be by now if it all went wrong just once. *)
Since ==
    CASE pc = "reading"    -> StatsInterval + timer
      [] pc = "waiting"    -> StatsInterval + ReadTimeout + timer
      [] pc = "connecting" -> StatsInterval + ReadTimeout + Capped(0) + timer
      [] pc = "opening"    -> StatsInterval + ReadTimeout + Capped(0) + ConnectTimeout + timer

HealthInv ==
    /\ TimerInv
    /\ AttemptInv
    /\ beat # NoBeat /\ report > 0 => beat + report <= StatsInterval
    /\ pc \in {"connecting", "opening"} /\ quiet.faults = 0 => beat = NoBeat
    /\ InLoop /\ source = "wikimedia" /\ beat # NoBeat /\ quiet.faults <= 1 /\ quiet.signs = 0
       => /\ beat <= Since
          /\ pc = "waiting" => delay <= Capped(0)

(* The delays waited for cover half of the schedule, with what is left of  *)
(* the present one.                                                        *)
HammerInv ==
    /\ TimerInv
    /\ AttemptInv
    /\ NotHammered
    /\ pc = "waiting" /\ ~stop =>
          2 * quiet.waited + 2 * (delay - timer) >= DelaysOf[quiet.faults]

(* How long a stop can have gone unnoticed by now. *)
StopInv ==
    /\ TimerInv
    /\ ~stop => asked.age = 0 /\ asked.signs = 0
    /\ stop /\ source = "wikimedia" /\ asked.signs < MaxSigns =>
          /\ pc = "connecting" => asked.signs = 0 /\ asked.age <= timer
          /\ pc = "opening" => asked.signs = 0 /\ asked.age <= ConnectTimeout + timer
          /\ pc = "reading" =>
                asked.age <= ConnectTimeout + asked.signs * ReadTimeout + timer
          /\ pc = "waiting" =>
                asked.age <= ConnectTimeout + asked.signs * ReadTimeout + ReadTimeout
-----------------------------------------------------------------------------
(* The schedule of delays.                                                 *)

(* A set of natural numbers has a least one. *)
LEMMA LeastOf ==
    ASSUME NEW S \in SUBSET Nat, S # {}
    PROVE  \E x \in S : \A y \in S : x <= y
<1> DEFINE Below == { ss \in Nat \X Nat : ss[1] < ss[2] }
<1>1. IsWellFoundedOn(Below, Nat)
  BY NatLessThanWellFounded DEF OpToRel
<1>2. \A x, y \in Nat : y < x => <<y, x>> \in Below
  OBVIOUS
<1> HIDE DEF Below
<1>3. PICK x \in S : \A y \in S : ~(<<y, x>> \in Below)
  BY <1>1, WFMin
<1>4. ASSUME NEW y \in S PROVE x <= y
  <2>1. x \in Nat /\ y \in Nat
    OBVIOUS
  <2>2. ~(y < x)
    BY <1>2, <1>3, <2>1
  <2> QED BY <2>1, <2>2
<1> QED BY <1>4

(* Doubling n times gives a natural number, and more than n times over:    *)
(* 2^n counts the subsets of 1..n, the n singletons among them.            *)
LEMMA PowerOfTwo ==
    ASSUME NEW n \in Nat
    PROVE  2^n \in Nat /\ n <= 2^n /\ 2^n > 0
<1>1. IsFiniteSet(1..n) /\ Cardinality(1..n) = n
  BY FS_Interval
<1>2. IsFiniteSet(SUBSET (1..n)) /\ Cardinality(SUBSET (1..n)) = 2^n
  BY <1>1, FS_SUBSET
<1>3. 2^n \in Nat
  BY <1>2, FS_CardinalityType
<1>4. n <= 2^n
  <2> DEFINE f == [i \in 1..n |-> {i}]
  <2>1. f \in Injection(1..n, SUBSET (1..n))
    BY DEF Injection, IsInjective
  <2> HIDE DEF f
  <2> QED BY <1>1, <1>2, <2>1, FS_Injection
<1>5. 2^n # 0
  BY <1>2, FS_EmptySet
<1> QED BY <1>3, <1>4, <1>5

(* The settings are what their assumption says, one by one. *)
LEMMA Settings ==
    /\ Sources \subseteq {"wikimedia", "jetstream"}
    /\ ConnectTimeout \in Nat /\ ReadTimeout \in Nat
    /\ BackoffInitial \in Nat \ {0} /\ BackoffMax \in Nat \ {0} /\ BackoffInitial <= BackoffMax
    /\ StatsInterval \in Nat \ {0} /\ HeartbeatTimeout \in Nat /\ MaxSigns \in Nat \ {0}
    /\ MaxExponent \in Nat /\ MaxFeed \in Nat /\ MaxAttempts \in Nat
BY EventSourceAssumption

(* MaxShift is the least number of doublings that reaches the cap: there   *)
(* always is one, whatever the two settings are (ExponentialBackoff's      *)
(* while loop ends).                                                       *)
LEMMA MaxShiftIsLeast ==
    /\ MaxShift \in 0..BackoffMax
    /\ BackoffInitial * 2^MaxShift >= BackoffMax
    /\ \A m \in 0..(MaxShift - 1) : BackoffInitial * 2^m < BackoffMax
<1> DEFINE Reaches == { n \in 0..BackoffMax : BackoffInitial * 2^n >= BackoffMax }
<1>1. \A n \in Nat : 2^n \in Nat /\ n <= 2^n
  BY PowerOfTwo
<1>2. BackoffMax \in Reaches
  <2>1. 2^BackoffMax \in Nat /\ BackoffMax <= 2^BackoffMax
    BY <1>1, Settings
  <2>2. \A a, b \in Nat : a > 0 => a * b >= b
    OBVIOUS
  <2>3. BackoffInitial * 2^BackoffMax >= 2^BackoffMax /\ BackoffInitial * 2^BackoffMax \in Nat
    BY <2>1, <2>2, Settings
  <2> QED BY <2>1, <2>3, Settings
<1>3. PICK n \in Reaches : \A m \in Reaches : n <= m
  <2>1. Reaches \subseteq Nat
    BY Settings
  <2> HIDE DEF Reaches
  <2>2. Reaches \in SUBSET Nat /\ Reaches # {}
    BY <1>2, <2>1
  <2> QED BY <2>2, LeastOf
<1>4. \A m \in 0..(n - 1) : BackoffInitial * 2^m < BackoffMax
  <2>1. TAKE m \in 0..(n - 1)
  <2>2. n \in 0..BackoffMax /\ m \in 0..BackoffMax /\ m < n
    BY Settings
  <2>3. m \notin Reaches
    <3> HIDE DEF Reaches
    <3> QED BY <1>3, <2>2
  <2>4. 2^m \in Nat
    BY <1>1, <2>2
  <2>5. BackoffInitial * 2^m \in Nat
    BY <2>4, Settings
  <2> QED BY <2>2, <2>3, <2>5, Settings
<1>5. n \in 0..BackoffMax /\ BackoffInitial * 2^n >= BackoffMax
  BY <1>3
<1> QED BY <1>4, <1>5 DEF MaxShift

(* A delay lies between half of its cap and the cap, which is at least one *)
(* tick and at most the maximal delay.                                     *)
LEMMA DelayBounds ==
    ASSUME NEW k \in Nat
    PROVE  /\ Exponent(k) \in Nat /\ Exponent(k) <= MaxShift
           /\ Capped(k) \in 1..BackoffMax
           /\ \A d \in NextDelay(k) : d \in 1..Capped(k) /\ 2 * d >= Capped(k)
<1>1. Exponent(k) \in Nat /\ Exponent(k) <= MaxShift
  BY MaxShiftIsLeast, Settings DEF Exponent, Lesser
<1>2. 2^Exponent(k) \in Nat /\ 2^Exponent(k) > 0
  BY <1>1, PowerOfTwo
<1>3. BackoffInitial * 2^Exponent(k) \in Nat /\ BackoffInitial * 2^Exponent(k) > 0
  <2>1. \A a, b \in Nat : a > 0 /\ b > 0 => a * b \in Nat /\ a * b > 0
    OBVIOUS
  <2> QED BY <1>2, <2>1, Settings
<1>4. Capped(k) \in 1..BackoffMax
  BY <1>3, Settings DEF Capped, Lesser
<1> QED BY <1>1, <1>4 DEF NextDelay

(* No exponent of the schedule overflows a float if the one that reaches   *)
(* the cap does not.                                                       *)
LEMMA NoOverflow ==
    ASSUME CapWithinFloats, NEW k \in Nat
    PROVE  ~(Exponent(k) > MaxExponent)
<1>1. MaxShift \in Nat /\ \A m \in 0..(MaxShift - 1) : BackoffInitial * 2^m < BackoffMax
  BY MaxShiftIsLeast, Settings
<1>2. 2^MaxExponent \in Nat
  BY PowerOfTwo, Settings
<1>3. ~(BackoffInitial * 2^MaxExponent < BackoffMax)
  <2>1. BackoffInitial * 2^MaxExponent \in Nat
    BY <1>2, Settings
  <2> QED BY <2>1, Settings DEF CapWithinFloats
<1>4. MaxShift <= MaxExponent
  BY <1>1, <1>3, Settings
<1>5. Exponent(k) \in Nat /\ Exponent(k) <= MaxShift
  BY DelayBounds
<1> QED BY <1>1, <1>4, <1>5, Settings

(* The sums of the delays exist and are what their recursion says: there   *)
(* is exactly one beginning of length n, and their ends make the function. *)
LEMMA DelaysAddUp ==
    /\ DelaysOf[0] = 0
    /\ \A n \in Nat : DelaysOf[n] \in Nat /\ DelaysOf[n + 1] = DelaysOf[n] + Capped(n)
<1> DEFINE Beginnings(n) == { g \in [0..n -> Nat] :
                                /\ g[0] = 0
                                /\ \A k \in 0..(n - 1) : g[k + 1] = g[k] + Capped(k) }
<1>1. \A k \in Nat : Capped(k) \in Nat
  BY DelayBounds, Settings
<1>2. \A n \in Nat : Beginnings(n) # {}
  <2> DEFINE Without == { n \in Nat : Beginnings(n) = {} }
  <2>1. SUFFICES ASSUME Without # {} PROVE FALSE
    OBVIOUS
  <2>2. PICK m \in Without : \A x \in Without : m <= x
    <3>1. Without \in SUBSET Nat
      OBVIOUS
    <3> HIDE DEF Without
    <3> QED BY <2>1, <3>1, LeastOf
  <2>3. m \in Nat /\ Beginnings(m) = {}
    OBVIOUS
  <2>4. m # 0
    <3>1. [k \in 0..0 |-> 0] \in Beginnings(0)
      OBVIOUS
    <3> QED BY <2>3, <3>1
  <2>5. PICK g : g \in Beginnings(m - 1)
    <3>1. m - 1 \in Nat /\ ~(m <= m - 1)
      BY <2>3, <2>4
    <3>2. m - 1 \notin Without
      <4> HIDE DEF Without
      <4> QED BY <2>2, <3>1
    <3> QED BY <3>1, <3>2
  <2>6. /\ g \in [0..(m - 1) -> Nat] /\ g[0] = 0
        /\ \A k \in 0..(m - 2) : g[k + 1] = g[k] + Capped(k)
    BY <2>3, <2>4, <2>5
  <2> DEFINE h == [k \in 0..m |-> IF k = m THEN g[m - 1] + Capped(m - 1) ELSE g[k]]
  <2>7. h \in [0..m -> Nat]
    <3>1. g[m - 1] \in Nat /\ Capped(m - 1) \in Nat
      BY <1>1, <2>3, <2>4, <2>6
    <3>2. \A k \in 0..m : k # m => g[k] \in Nat
      BY <2>3, <2>6
    <3> QED BY <3>1, <3>2
  <2>8. h[0] = 0
    BY <2>3, <2>4, <2>6
  <2>9. ASSUME NEW k \in 0..(m - 1) PROVE h[k + 1] = h[k] + Capped(k)
    <3>1. CASE k = m - 1
      BY <2>3, <2>4, <3>1
    <3>2. CASE k # m - 1
      <4>1. k \in 0..(m - 2) /\ k # m /\ k + 1 # m /\ k + 1 \in 0..m /\ k \in 0..m
        BY <2>3, <3>2
      <4> QED BY <2>6, <4>1
    <3> QED BY <3>1, <3>2
  <2>10. h \in Beginnings(m)
    <3> HIDE DEF h
    <3> QED BY <2>7, <2>8, <2>9
  <2> QED BY <2>3, <2>10
<1>3. ASSUME NEW n \in Nat, NEW m \in Nat, NEW g \in Beginnings(n), NEW h \in Beginnings(m),
             NEW k \in Nat, k <= n, k <= m
      PROVE  g[k] = h[k]
  <2> DEFINE Differ == { x \in Nat : x <= n /\ x <= m /\ g[x] # h[x] }
  <2>1. SUFFICES ASSUME Differ # {} PROVE FALSE
    BY <1>3
  <2>2. PICK x \in Differ : \A y \in Differ : x <= y
    <3>1. Differ \in SUBSET Nat
      OBVIOUS
    <3> HIDE DEF Differ
    <3> QED BY <2>1, <3>1, LeastOf
  <2>3. x \in Nat /\ x <= n /\ x <= m /\ g[x] # h[x]
    OBVIOUS
  <2>4. x # 0
    BY <2>3
  <2>5. x - 1 \notin Differ
    <3>1. ~(x <= x - 1)
      BY <2>3
    <3> HIDE DEF Differ
    <3> QED BY <2>2, <3>1
  <2>6. g[x - 1] = h[x - 1]
    BY <2>3, <2>4, <2>5
  <2>7. x - 1 \in 0..(n - 1) /\ x - 1 \in 0..(m - 1) /\ (x - 1) + 1 = x
    BY <2>3, <2>4
  <2>8. g[(x - 1) + 1] = g[x - 1] + Capped(x - 1) /\ h[(x - 1) + 1] = h[x - 1] + Capped(x - 1)
    BY <2>7
  <2> QED BY <2>3, <2>6, <2>7, <2>8
<1> DEFINE Sums == [n \in Nat |-> (CHOOSE g : g \in Beginnings(n))[n]]
<1>4. ASSUME NEW n \in Nat, NEW g \in Beginnings(n) PROVE Sums[n] = g[n]
  <2>1. (CHOOSE f : f \in Beginnings(n)) \in Beginnings(n)
    <3> HIDE DEF Beginnings
    <3> QED OBVIOUS
  <2> HIDE DEF Beginnings
  <2> QED BY <1>3, <2>1
<1>5. Sums[0] = 0
  <2>1. PICK g : g \in Beginnings(0)
    <3> HIDE DEF Beginnings
    <3> QED BY <1>2
  <2>2. g[0] = 0
    BY <2>1
  <2> HIDE DEF Beginnings, Sums
  <2> QED BY <1>4, <2>1, <2>2
<1>6. ASSUME NEW n \in Nat PROVE Sums[n + 1] = Sums[n] + Capped(n) /\ Sums[n] \in Nat
  <2>1. PICK g, h : g \in Beginnings(n + 1) /\ h \in Beginnings(n)
    <3> HIDE DEF Beginnings
    <3> QED BY <1>2
  <2>2. g[n + 1] = g[n] + Capped(n) /\ h[n] \in Nat
    BY <2>1
  <2> HIDE DEF Beginnings, Sums
  <2>3. g[n] = h[n]
    BY <1>3, <2>1
  <2> QED BY <1>4, <2>1, <2>2, <2>3
<1>7. Sums = [n \in Nat |-> IF n = 0 THEN 0 ELSE Sums[n - 1] + Capped(n - 1)]
  <2>1. ASSUME NEW n \in Nat, n # 0 PROVE Sums[n] = Sums[n - 1] + Capped(n - 1)
    <3>1. n - 1 \in Nat /\ (n - 1) + 1 = n
      BY <2>1
    <3> HIDE DEF Sums
    <3> QED BY <1>6, <3>1
  <2>2. Sums = [n \in Nat |-> Sums[n]]
    OBVIOUS
  <2> HIDE DEF Sums
  <2> QED BY <1>5, <2>1, <2>2
<1>8. DelaysOf = [n \in Nat |-> IF n = 0 THEN 0 ELSE DelaysOf[n - 1] + Capped(n - 1)]
  <2> HIDE DEF Sums
  <2> QED BY <1>7 DEF DelaysOf
<1>9. DelaysOf[0] = 0 /\ \A n \in Nat : DelaysOf[n + 1] = DelaysOf[n] + Capped(n)
  <2>1. \A n \in Nat : DelaysOf[n] = IF n = 0 THEN 0 ELSE DelaysOf[n - 1] + Capped(n - 1)
    BY <1>8
  <2>2. \A n \in Nat : n + 1 \in Nat /\ n + 1 # 0 /\ (n + 1) - 1 = n
    OBVIOUS
  <2> QED BY <2>1, <2>2
<1>10. \A n \in Nat : DelaysOf[n] \in Nat
  <2> DEFINE Other == { n \in Nat : DelaysOf[n] \notin Nat }
  <2>1. SUFFICES ASSUME Other # {} PROVE FALSE
    OBVIOUS
  <2>2. PICK x \in Other : \A y \in Other : x <= y
    <3>1. Other \in SUBSET Nat
      OBVIOUS
    <3> HIDE DEF Other
    <3> QED BY <2>1, <3>1, LeastOf
  <2>3. x \in Nat /\ DelaysOf[x] \notin Nat
    OBVIOUS
  <2>4. x - 1 \in Nat /\ (x - 1) + 1 = x /\ ~(x <= x - 1)
    BY <1>9, <2>3
  <2>5. x - 1 \notin Other
    <3> HIDE DEF Other
    <3> QED BY <2>2, <2>4
  <2>6. DelaysOf[x - 1] \in Nat /\ Capped(x - 1) \in Nat
    BY <1>1, <2>4, <2>5
  <2> QED BY <1>9, <2>3, <2>4, <2>6
<1> QED BY <1>9, <1>10

-----------------------------------------------------------------------------
(* Types, and what the parser holds.                                       *)

Quiet == [faults: Nat, waited: Nat, signs: 0..MaxSigns]
HandedOver == [data: Seq(Pieces), id: 0..MaxFeed, atEnd: BOOLEAN]

(* What a failure does to the loop: it waits a delay of the schedule, or   *)
(* is left with an overflow.                                               *)
LEMMA AFailure ==
    ASSUME NEW k \in Nat, NEW q \in Quiet, SleepBeforeRetry(k, q)
    PROVE  /\ k < MaxAttempts /\ attempt' = k + 1 /\ timer' = 0
           /\ quiet'.faults = q.faults + 1 /\ quiet'.waited = q.waited /\ quiet'.signs = q.signs
           /\ quiet' \in Quiet
           /\ \/ /\ Exponent(k) > MaxExponent
                 /\ pc' = "left" /\ raised' = "overflow" /\ delay' = delay
              \/ /\ pc' = "waiting" /\ raised' = raised /\ delay' \in NextDelay(k)
                 /\ delay' \in 1..BackoffMax /\ delay' <= Capped(k) /\ 2 * delay' >= Capped(k)
<1>1. k < MaxAttempts /\ attempt' = k + 1 /\ quiet' = [q EXCEPT !.faults = @ + 1]
  BY DEF SleepBeforeRetry
<1>2. timer' = 0
  BY DEF SleepBeforeRetry, Goto
<1>3. /\ quiet'.faults = q.faults + 1 /\ quiet'.waited = q.waited /\ quiet'.signs = q.signs
      /\ quiet' \in Quiet
  BY <1>1 DEF Quiet
<1>4. CASE Exponent(k) > MaxExponent
  BY <1>1, <1>2, <1>3, <1>4 DEF SleepBeforeRetry, Goto
<1>5. CASE ~(Exponent(k) > MaxExponent)
  <2>1. pc' = "waiting" /\ raised' = raised /\ delay' \in NextDelay(k)
    BY <1>5 DEF SleepBeforeRetry, Goto
  <2>2. delay' \in 1..Capped(k) /\ 2 * delay' >= Capped(k) /\ Capped(k) \in 1..BackoffMax
    BY <2>1, DelayBounds
  <2>3. delay' \in 1..BackoffMax /\ delay' <= Capped(k)
    BY <2>2, Settings
  <2> QED BY <1>1, <1>2, <1>3, <2>1, <2>2, <2>3
<1> QED BY <1>4, <1>5

(* A sign of life restarts nothing but the counts of signs. *)
LEMMA ASign ==
    ASSUME TypeOK, Sign
    PROVE  /\ quiet' \in Quiet /\ quiet'.faults = quiet.faults /\ quiet'.waited = quiet.waited
           /\ quiet'.signs > 0
           /\ asked' \in [age: Nat, signs: 0..MaxSigns] /\ asked'.age = asked.age
           /\ ~stop => asked'.signs = asked.signs
           /\ stop /\ asked'.signs < MaxSigns => asked'.signs = asked.signs + 1
<1>1. quiet \in Quiet /\ asked \in [age: Nat, signs: 0..MaxSigns] /\ MaxSigns \in Nat \ {0}
  BY Settings DEF TypeOK, Quiet
<1>2. \A n \in 0..MaxSigns : /\ Lesser(n + 1, MaxSigns) \in 0..MaxSigns
                             /\ Lesser(n + 1, MaxSigns) > 0
                             /\ Lesser(n + 1, MaxSigns) < MaxSigns => Lesser(n + 1, MaxSigns) = n + 1
  BY <1>1 DEF Lesser
<1>3. quiet.signs \in 0..MaxSigns /\ asked.signs \in 0..MaxSigns
  BY <1>1 DEF Quiet
<1>4. quiet' = [quiet EXCEPT !.signs = Lesser(quiet.signs + 1, MaxSigns)]
  BY DEF Sign
<1>5. asked' = [asked EXCEPT !.signs = IF stop THEN Lesser(asked.signs + 1, MaxSigns) ELSE asked.signs]
  BY DEF Sign
<1>6. /\ quiet' \in Quiet /\ quiet'.faults = quiet.faults /\ quiet'.waited = quiet.waited
      /\ quiet'.signs > 0
  BY <1>1, <1>2, <1>3, <1>4 DEF Quiet
<1>7. CASE stop
  BY <1>1, <1>2, <1>3, <1>5, <1>6, <1>7
<1>8. CASE ~stop
  BY <1>1, <1>3, <1>5, <1>6, <1>8
<1> QED BY <1>7, <1>8

(* A frame is handed over: the cursor moves to its id if it has one, and   *)
(* the heartbeat is written when a report is due.                          *)
LEMMA AFrame ==
    ASSUME TypeOK, NEW frame \in HandedOver, Deliver(frame)
    PROVE  /\ cursor' = IF frame.id = 0 THEN cursor ELSE frame.id
           /\ last' = frame
           /\ whole \subseteq whole' /\ whole' \subseteq Frames
           /\ \A i \in Frames : frame.data = <<<<i, 1>>, <<i, 2>>>> => i \in whole'
           /\ \/ report = 0 /\ beat' = 0 /\ report' = StatsInterval
              \/ report # 0 /\ beat' = beat /\ report' = report
           /\ beat' \in {NoBeat} \cup 0..(HeartbeatTimeout + 1) /\ report' \in 0..StatsInterval
<1>1. report \in 0..StatsInterval /\ beat \in {NoBeat} \cup 0..(HeartbeatTimeout + 1) /\ whole \subseteq Frames
  BY DEF TypeOK
<1>2. \/ report = 0 /\ beat' = 0 /\ report' = StatsInterval
      \/ report # 0 /\ beat' = beat /\ report' = report
  BY DEF Deliver, beatVars
<1>3. beat' \in {NoBeat} \cup 0..(HeartbeatTimeout + 1) /\ report' \in 0..StatsInterval
  BY <1>1, <1>2, Settings
<1>4. whole' = whole \cup { i \in Frames : frame.data = <<<<i, 1>>, <<i, 2>>>> }
  BY DEF Deliver
<1>5. /\ whole \subseteq whole' /\ whole' \subseteq Frames
      /\ \A i \in Frames : frame.data = <<<<i, 1>>, <<i, 2>>>> => i \in whole'
  BY <1>1, <1>4
<1> QED BY <1>2, <1>3, <1>5 DEF Deliver

(* The second part of a frame appended to the first makes the two. *)
LEMMA TwoParts ==
    ASSUME NEW S, NEW a \in S, NEW b \in S
    PROVE  Append(<<a>>, b) = <<a, b>>
<1>1. <<a>> \in Seq(S) /\ <<a, b>> \in Seq(S) /\ Len(<<a>>) = 1 /\ Len(<<a, b>>) = 2
  OBVIOUS
<1>2. /\ Append(<<a>>, b) \in Seq(S) /\ Len(Append(<<a>>, b)) = 2
      /\ Append(<<a>>, b)[1] = a /\ Append(<<a>>, b)[2] = b
  BY <1>1, AppendProperties
<1> DEFINE whatIs == Append(<<a>>, b)
           pair == <<a, b>>
<1>3. /\ whatIs \in Seq(S) /\ pair \in Seq(S) /\ Len(whatIs) = 2 /\ Len(pair) = 2
      /\ \A i \in 1..2 : whatIs[i] = pair[i]
  <2>1. pair[1] = a /\ pair[2] = b
    OBVIOUS
  <2>2. \A i \in 1..2 : i = 1 \/ i = 2
    OBVIOUS
  <2> HIDE DEF pair
  <2> QED BY <1>1, <1>2, <2>1, <2>2 DEF pair
<1>4. whatIs = pair
  <2> HIDE DEF whatIs, pair
  <2> QED BY <1>3, SeqEqual
<1> QED BY <1>4

(* A frame in the buffer is the one the connection is in, by its own id,   *)
(* whole at its blank line and one part short before.                      *)
LEMMA Buffered ==
    ASSUME TypeOK, ParserInv, parser.data # <<>>
    PROVE  /\ source = "wikimedia" /\ conn.line \in {3, 4}
           /\ conn.pos \in 1..Len(feed) /\ conn.pos \in Frames /\ parser.id = conn.pos
           /\ conn.line = 3 => parser.data = <<<<conn.pos, 1>>>>
           /\ conn.line = 4 => parser.data = <<<<conn.pos, 1>>, <<conn.pos, 2>>>>
<1>1. conn.line \in 1..4 /\ conn.pos \in 1..(MaxFeed + 1) /\ Len(feed) <= MaxFeed /\ Len(feed) \in Nat
  BY DEF TypeOK
<1>2. conn.line \in {3, 4}
  BY <1>1 DEF ParserInv
<1>3. conn.pos <= Len(feed) /\ parser.id = conn.pos
  BY <1>2 DEF ParserInv
<1>4. source = "wikimedia"
  <2>1. source \in Sources
    BY DEF TypeOK
  <2>2. source # "jetstream"
    BY <1>2 DEF ParserInv
  <2> QED BY <2>1, <2>2, Settings
<1>5. /\ conn.line = 3 => parser.data = <<<<conn.pos, 1>>>>
      /\ conn.line = 4 => parser.data = <<<<conn.pos, 1>>, <<conn.pos, 2>>>>
  BY DEF ParserInv
<1>6. conn.pos \in 1..Len(feed) /\ conn.pos \in Frames
  BY <1>1, <1>3, Settings DEF Frames
<1> QED BY <1>2, <1>3, <1>4, <1>5, <1>6

(* What a line of the stream or a message does to the connection and to    *)
(* the parser.                                                             *)
LEMMA ParserStep ==
    ASSUME TypeOK, ParserInv, [Next]_vars
    PROVE  /\ ParserInv'
           /\ conn' \in [pos: 1..(MaxFeed + 1), line: 1..4]
           /\ parser' \in [data: Seq(Pieces), id: 0..MaxFeed]
<1>1. /\ conn \in [pos: 1..(MaxFeed + 1), line: 1..4]
      /\ parser \in [data: Seq(Pieces), id: 0..MaxFeed]
      /\ feed \in Seq(BOOLEAN) /\ Len(feed) \in Nat /\ Len(feed) <= MaxFeed /\ MaxFeed \in Nat
      /\ conn.pos \in 1..(MaxFeed + 1) /\ conn.line \in 1..4 /\ cursor \in 0..Len(feed)
  BY Settings DEF TypeOK
<1>2. ASSUME NEW good \in BOOLEAN, Emit(good) PROVE ParserInv' /\ conn' = conn /\ parser' = parser
  <2>1. Len(feed') = Len(feed) + 1
    BY <1>1, <1>2, AppendProperties DEF Emit
  <2>2. conn' = conn /\ parser' = parser /\ source' = source
    BY <1>2 DEF Emit, readVars
  <2> QED BY <1>1, <2>1, <2>2 DEF ParserInv
<1>3. CASE Accepted
  <2>1. PICK p \in ResumeAt : conn' = [pos |-> p, line |-> 1]
    BY <1>3 DEF Accepted
  <2>2. p \in 1..(Len(feed) + 1)
    BY <1>1, <2>1 DEF ResumeAt
  <2>3. parser' = [data |-> <<>>, id |-> 0] /\ feed' = feed /\ source' = source
    BY <1>3 DEF Accepted, NewParser
  <2>4. ParserInv'
    BY <2>1, <2>2, <2>3 DEF ParserInv
  <2>5. conn' \in [pos: 1..(MaxFeed + 1), line: 1..4]
    BY <1>1, <2>1, <2>2
  <2>6. parser' \in [data: Seq(Pieces), id: 0..MaxFeed]
    BY <1>1, <2>3
  <2> QED BY <2>4, <2>5, <2>6
<1>4. CASE Field
  <2>1. /\ source = "wikimedia" /\ conn.pos <= Len(feed) /\ conn.line \in 1..3
        /\ feed' = feed /\ source' = source
    BY <1>1, <1>4 DEF Field, ReadingSSE
  <2>2. conn' = [conn EXCEPT !.line = @ + 1]
    BY <1>4 DEF Field
  <2>3. conn'.pos = conn.pos /\ conn'.line = conn.line + 1 /\ conn' \in [pos: 1..(MaxFeed + 1), line: 1..4]
    BY <1>1, <2>1, <2>2
  <2>4. CASE conn.line = 1
    <3>1. parser' = [parser EXCEPT !.id = conn.pos] /\ parser.data = <<>>
      BY <1>4, <2>4 DEF Field, ParserInv
    <3>2. parser'.id = conn.pos /\ parser'.data = <<>> /\ parser' \in [data: Seq(Pieces), id: 0..MaxFeed]
      BY <1>1, <2>1, <3>1
    <3>3. ParserInv'
      BY <2>1, <2>3, <2>4, <3>2 DEF ParserInv
    <3> QED BY <2>3, <3>2, <3>3
  <2>5. CASE conn.line \in {2, 3}
    <3>1. parser' = [parser EXCEPT !.data = Append(@, <<conn.pos, conn.line - 1>>)]
      BY <1>4, <2>5 DEF Field
    <3>2. <<conn.pos, conn.line - 1>> \in Pieces
      BY <1>1, <2>1, <2>5 DEF Pieces, Frames
    <3>3. parser' \in [data: Seq(Pieces), id: 0..MaxFeed]
      BY <1>1, <3>1, <3>2, AppendProperties
    <3>4. parser'.id = conn.pos
      BY <1>1, <2>5, <3>1 DEF ParserInv
    <3>5. CASE conn.line = 2
      <4>1. parser.data = <<>>
        BY <3>5 DEF ParserInv
      <4>2. parser'.data = <<<<conn.pos, 1>>>>
        BY <1>1, <3>1, <3>5, <4>1
      <4>3. ParserInv'
        BY <2>1, <2>3, <3>4, <3>5, <4>2 DEF ParserInv
      <4> QED BY <2>3, <3>3, <4>3
    <3>6. CASE conn.line = 3
      <4>1. parser.data = <<<<conn.pos, 1>>>>
        BY <3>6 DEF ParserInv
      <4>2. parser'.data = <<<<conn.pos, 1>>, <<conn.pos, 2>>>>
        <5>1. conn.line - 1 = 2 /\ parser'.data = Append(parser.data, <<conn.pos, conn.line - 1>>)
          BY <1>1, <3>1, <3>6
        <5>2. <<conn.pos, 1>> \in Pieces /\ <<conn.pos, 2>> \in Pieces
          BY <1>1, <2>1 DEF Pieces, Frames
        <5>3. Append(<<<<conn.pos, 1>>>>, <<conn.pos, 2>>) = <<<<conn.pos, 1>>, <<conn.pos, 2>>>>
          BY <5>2, TwoParts
        <5> QED BY <4>1, <5>1, <5>3
      <4>3. ParserInv'
        BY <2>1, <2>3, <3>4, <3>6, <4>2 DEF ParserInv
      <4> QED BY <2>3, <3>3, <4>3
    <3> QED BY <2>5, <3>5, <3>6
  <2> QED BY <2>1, <2>4, <2>5
<1>5. CASE Blank
  <2>1. /\ source = "wikimedia" /\ conn.line \in {1, 4} /\ feed' = feed /\ source' = source
        /\ parser' = [parser EXCEPT !.data = <<>>]
        /\ conn' = IF conn.line = 4 THEN [pos |-> conn.pos + 1, line |-> 1] ELSE conn
    BY <1>5 DEF Blank, ReadingSSE, DataAfterBlank
  <2>2. parser'.data = <<>> /\ parser' \in [data: Seq(Pieces), id: 0..MaxFeed]
    <3>1. <<>> \in Seq(Pieces)
      OBVIOUS
    <3> QED BY <1>1, <2>1, <3>1
  <2>3. conn.line = 4 => conn.pos <= Len(feed)
    BY DEF ParserInv
  <2>4. /\ conn'.line = 1 /\ conn'.pos <= Len(feed) + 1
        /\ conn' \in [pos: 1..(MaxFeed + 1), line: 1..4]
    BY <1>1, <2>1, <2>3 DEF ParserInv
  <2>5. ParserInv'
    BY <2>1, <2>2, <2>4 DEF ParserInv
  <2> QED BY <2>2, <2>4, <2>5
<1>6. CASE Message
  <2>1. /\ source = "jetstream" /\ conn.pos <= Len(feed) /\ feed' = feed /\ source' = source
        /\ parser' = parser /\ conn' = [conn EXCEPT !.pos = @ + 1]
    BY <1>6 DEF Message
  <2>2. conn.line = 1 /\ parser.data = <<>>
    BY <2>1 DEF ParserInv
  <2>3. /\ conn'.line = 1 /\ conn'.pos = conn.pos + 1
        /\ conn' \in [pos: 1..(MaxFeed + 1), line: 1..4]
    BY <1>1, <2>1, <2>2
  <2>4. ParserInv'
    BY <1>1, <2>1, <2>2, <2>3 DEF ParserInv
  <2> QED BY <1>1, <2>1, <2>3, <2>4
<1>7. CASE \/ Connected \/ Refused \/ Fault \/ WaitOver \/ Comment \/ StreamEnds
           \/ RequestStop \/ RunEnds \/ Exit \/ Tick \/ UNCHANGED vars
  <2>1. feed' = feed /\ source' = source /\ conn' = conn /\ parser' = parser
    BY <1>7 DEF Connected, Refused, Fault, WaitOver, Comment, StreamEnds, RequestStop, RunEnds,
                Exit, Tick, vars, readVars
  <2> QED BY <1>1, <2>1 DEF ParserInv
<1> QED BY <1>1, <1>2, <1>3, <1>4, <1>5, <1>6, <1>7 DEF Next

(* The body of the frame loop, once the stop event was looked at.          *)
LEMMA AHandling ==
    ASSUME TypeOK, NEW frame \in HandedOver, Handle(frame)
    PROVE  /\ timer' = 0
           /\ \/ /\ stop /\ pc' = "left"
                 /\ UNCHANGED <<cursor, last, whole, beat, report, attempt, fresh, quiet>>
              \/ /\ ~stop /\ pc' = "reading" /\ Deliver(frame)
                 /\ attempt' = (IF fresh THEN 0 ELSE attempt) /\ fresh' = FALSE /\ quiet' = NoQuiet
BY DEF Handle, Goto, beatVars, AttemptDelivered

(* The types of what a handling changes. *)
LEMMA HandlingTypes ==
    ASSUME TypeOK, NEW frame \in HandedOver, frame.id <= Len(feed), Handle(frame)
    PROVE  /\ pc' \in {"reading", "left"} /\ timer' = 0
           /\ cursor' \in 0..Len(feed) /\ last' \in HandedOver /\ whole' \subseteq Frames
           /\ beat' \in {NoBeat} \cup 0..(HeartbeatTimeout + 1) /\ report' \in 0..StatsInterval
           /\ attempt' \in 0..MaxAttempts /\ fresh' \in BOOLEAN /\ quiet' \in Quiet
<1>1. /\ cursor \in 0..Len(feed) /\ last \in HandedOver /\ whole \subseteq Frames
      /\ beat \in {NoBeat} \cup 0..(HeartbeatTimeout + 1) /\ report \in 0..StatsInterval
      /\ attempt \in 0..MaxAttempts /\ fresh \in BOOLEAN /\ quiet \in Quiet
      /\ Len(feed) \in Nat
  BY DEF TypeOK, HandedOver, Quiet
<1>2. CASE stop
  BY <1>1, <1>2, AHandling
<1>3. CASE ~stop
  <2>1. /\ pc' = "reading" /\ Deliver(frame) /\ attempt' = (IF fresh THEN 0 ELSE attempt)
        /\ fresh' = FALSE /\ quiet' = NoQuiet /\ timer' = 0
    BY <1>3, AHandling
  <2>2. frame.id \in 0..Len(feed)
    BY <1>1 DEF HandedOver
  <2>3. cursor' \in 0..Len(feed) /\ last' \in HandedOver
    BY <1>1, <2>1, <2>2, AFrame
  <2>4. quiet' \in Quiet
    BY <2>1, Settings DEF NoQuiet, Quiet
  <2>5. attempt' \in 0..MaxAttempts
    BY <1>1, <2>1, Settings
  <2>6. /\ whole' \subseteq Frames /\ beat' \in {NoBeat} \cup 0..(HeartbeatTimeout + 1)
        /\ report' \in 0..StatsInterval
    BY <2>1, AFrame
  <2> QED BY <2>1, <2>3, <2>4, <2>5, <2>6
<1> QED BY <1>2, <1>3

(* What the parser hands on, and a message of Jetstream, is typed. *)
LEMMA HandedTypes ==
    ASSUME TypeOK, ParserInv
    PROVE  /\ parser.data # <<>> =>
                 \A e \in BOOLEAN : [data |-> parser.data, id |-> parser.id, atEnd |-> e] \in HandedOver
           /\ conn.pos <= Len(feed) =>
                 /\ CursorOf(conn.pos) \in {0, conn.pos} /\ conn.pos \in Frames
                 /\ [data |-> <<<<conn.pos, 1>>, <<conn.pos, 2>>>>,
                     id |-> CursorOf(conn.pos), atEnd |-> FALSE] \in HandedOver
<1>1. /\ parser.data \in Seq(Pieces) /\ parser.id \in 0..MaxFeed /\ Len(feed) \in Nat
      /\ Len(feed) <= MaxFeed /\ conn.pos \in 1..(MaxFeed + 1)
  BY DEF TypeOK
<1>2. ASSUME conn.pos <= Len(feed)
      PROVE  /\ CursorOf(conn.pos) \in {0, conn.pos} /\ conn.pos \in Frames
             /\ CursorOf(conn.pos) \in 0..MaxFeed
             /\ <<<<conn.pos, 1>>, <<conn.pos, 2>>>> \in Seq(Pieces)
  <2>1. CursorOf(conn.pos) \in {0, conn.pos}
    BY DEF CursorOf
  <2>2. conn.pos \in Frames
    BY <1>1, <1>2, Settings DEF Frames
  <2>3. <<conn.pos, 1>> \in Pieces /\ <<conn.pos, 2>> \in Pieces
    BY <2>2 DEF Pieces
  <2>4. CursorOf(conn.pos) \in 0..MaxFeed
    BY <2>1, <2>2, Settings DEF Frames
  <2> QED BY <2>1, <2>2, <2>3, <2>4
<1> QED BY <1>1, <1>2 DEF HandedOver

(* The types of what a failure changes. *)
LEMMA FailureTypes ==
    ASSUME TypeOK, NEW k \in Nat, NEW q \in Quiet, SleepBeforeRetry(k, q)
    PROVE  /\ attempt' \in 0..MaxAttempts /\ timer' \in Nat /\ quiet' \in Quiet
           /\ pc' \in {"left", "waiting"} /\ raised' \in {"none", "status", "overflow"}
           /\ delay' \in 0..BackoffMax
<1>1. k < MaxAttempts /\ attempt' = k + 1 /\ timer' = 0 /\ quiet' \in Quiet
  BY AFailure
<1>2. attempt' \in 0..MaxAttempts /\ timer' \in Nat
  BY <1>1, Settings
<1>3. raised \in {"none", "status", "overflow"} /\ delay \in 0..BackoffMax
  BY DEF TypeOK
<1>4. CASE pc' = "left" /\ raised' = "overflow" /\ delay' = delay
  BY <1>1, <1>2, <1>3, <1>4
<1>5. CASE pc' = "waiting" /\ raised' = raised /\ delay' \in 1..BackoffMax
  <2>1. delay' \in 0..BackoffMax
    BY <1>5, Settings
  <2> QED BY <1>1, <1>2, <1>3, <1>5, <2>1
<1> QED BY <1>4, <1>5, AFailure

(* The types of what a tick changes. *)
LEMMA TickTypes ==
    ASSUME TypeOK, Tick
    PROVE  /\ timer' \in Nat /\ quiet' \in Quiet /\ asked' \in [age: Nat, signs: 0..MaxSigns]
           /\ beat' \in {NoBeat} \cup 0..(HeartbeatTimeout + 1) /\ report' \in 0..StatsInterval
<1>1. /\ timer \in Nat /\ delay \in 0..BackoffMax /\ report \in 0..StatsInterval
      /\ beat \in {NoBeat} \cup 0..(HeartbeatTimeout + 1)
      /\ quiet \in [faults: Nat, waited: Nat, signs: 0..MaxSigns]
      /\ asked \in [age: Nat, signs: 0..MaxSigns]
      /\ FlushTimeout \in Nat
  BY EventSourceAssumption DEF TypeOK
<1>2. timer' \in Nat
  <2>1. delay \in Nat
    BY <1>1, Settings
  <2>2. Patience \in Nat
    <3>1. /\ pc = "connecting" => Patience = ConnectTimeout
          /\ pc \in {"opening", "reading"} => Patience = ReadTimeout
          /\ pc = "waiting" => Patience \in {timer, delay}
          /\ pc = "flushing" => Patience = FlushTimeout
          /\ pc \notin {"connecting", "opening", "reading", "waiting", "flushing"} => Patience = 0
      BY DEF Patience
    <3> QED BY <1>1, <2>1, <3>1, Settings
  <2>3. timer' = Lesser(timer + 1, Patience)
    BY DEF Tick
  <2> QED BY <1>1, <2>2, <2>3 DEF Lesser
<1>3. quiet' \in Quiet
  <2>1. quiet.waited \in Nat
    BY <1>1
  <2>2. quiet' = [quiet EXCEPT !.waited = IF pc = "waiting" THEN quiet.waited + 1 ELSE quiet.waited]
    BY DEF Tick
  <2>3. (IF pc = "waiting" THEN quiet.waited + 1 ELSE quiet.waited) \in Nat
    BY <2>1
  <2> QED BY <1>1, <2>2, <2>3 DEF Quiet
<1>4. asked' \in [age: Nat, signs: 0..MaxSigns]
  <2>1. LongestStop \in Nat
    <3>1. \A a, b \in Nat : a * b \in Nat
      OBVIOUS
    <3> QED BY <3>1, Settings DEF LongestStop
  <2>2. (IF stop THEN Lesser(asked.age + 1, LongestStop + 1) ELSE asked.age) \in Nat
    <3>1. asked.age \in Nat
      BY <1>1
    <3> QED BY <2>1, <3>1 DEF Lesser
  <2>3. asked' = [asked EXCEPT !.age = IF stop THEN Lesser(asked.age + 1, LongestStop + 1)
                                               ELSE asked.age]
    BY DEF Tick
  <2> QED BY <1>1, <2>2, <2>3
<1>5. beat' \in {NoBeat} \cup 0..(HeartbeatTimeout + 1)
  <2>1. CASE beat = NoBeat
    BY <2>1 DEF Tick
  <2>2. CASE beat # NoBeat
    <3>1. beat \in 0..(HeartbeatTimeout + 1) /\ beat' = Lesser(beat + 1, HeartbeatTimeout + 1)
      BY <1>1, <2>2 DEF Tick
    <3> QED BY <3>1, Settings DEF Lesser
  <2> QED BY <2>1, <2>2
<1>6. report' \in 0..StatsInterval
  BY <1>1, Settings DEF Tick
<1> QED BY <1>2, <1>3, <1>4, <1>5, <1>6

(* TypeOK is kept. *)
LEMMA TypeStep ==
    ASSUME TypeOK, ParserInv, [Next]_vars
    PROVE  TypeOK' /\ ParserInv'
<1>1. /\ ParserInv'
      /\ conn' \in [pos: 1..(MaxFeed + 1), line: 1..4]
      /\ parser' \in [data: Seq(Pieces), id: 0..MaxFeed]
  BY ParserStep
<1>2. quiet \in Quiet /\ asked \in [age: Nat, signs: 0..MaxSigns] /\ last \in HandedOver
      /\ Len(feed) \in Nat /\ timer \in Nat /\ attempt \in 0..MaxAttempts /\ attempt \in Nat
      /\ cursor \in 0..Len(feed) /\ first \in 0..Len(feed) /\ delay \in 0..BackoffMax
  BY Settings DEF TypeOK, Quiet, HandedOver
<1>3. ASSUME NEW good \in BOOLEAN, Emit(good) PROVE TypeOK'
  <2>1. feed' \in Seq(BOOLEAN) /\ Len(feed') = Len(feed) + 1 /\ Len(feed) < MaxFeed
    BY <1>3, AppendProperties DEF Emit, TypeOK
  <2>2. Len(feed') <= MaxFeed /\ cursor \in 0..Len(feed') /\ first \in 0..Len(feed')
    BY <1>2, <2>1, Settings
  <2> QED BY <1>1, <1>3, <2>1, <2>2 DEF Emit, TypeOK, beatVars, frameVars, readVars
<1>4. CASE Connected \/ Refused \/ WaitOver \/ RequestStop \/ RunEnds \/ Exit
  <2>1. 0 \in Nat /\ 0 \in 0..(HeartbeatTimeout + 1)
    BY Settings
  <2> QED BY <1>1, <1>4, <2>1 DEF Connected, Refused, WaitOver, RequestStop, RunEnds, Exit, Goto,
             LoopHead, TypeOK, beatVars, frameVars, readVars
<1>5. CASE Accepted
  <2>1. quiet' \in Quiet /\ asked' \in [age: Nat, signs: 0..MaxSigns]
    BY <1>5, ASign DEF Accepted
  <2>2. pc' = "reading" /\ timer' = 0 /\ fresh' = TRUE /\ attempt' = attempt
        /\ UNCHANGED <<source, feed, delay, cursor, stop, raised, beat, report, last, whole, first>>
    BY <1>5 DEF Accepted, Goto, AttemptAccepted, beatVars, frameVars
  <2> QED BY <1>1, <2>1, <2>2 DEF TypeOK, Quiet, HandedOver
<1>6. CASE Fault
  <2>1. SleepBeforeRetry(attempt, quiet)
        /\ UNCHANGED <<source, feed, fresh, cursor, stop, beat, report, last, whole, first, asked>>
    BY <1>6 DEF Fault, beatVars, frameVars, readVars
  <2>2. /\ attempt' \in 0..MaxAttempts /\ timer' \in Nat /\ quiet' \in Quiet
        /\ pc' \in {"left", "waiting"} /\ raised' \in {"none", "status", "overflow"}
        /\ delay' \in 0..BackoffMax
    BY <1>2, <2>1, FailureTypes
  <2> QED BY <1>1, <2>1, <2>2 DEF TypeOK, Quiet, HandedOver
<1>7. CASE Field \/ Comment
  <2>1. quiet' \in Quiet /\ asked' \in [age: Nat, signs: 0..MaxSigns]
    BY <1>7, ASign DEF Field, Comment
  <2>2. pc' = "reading" /\ timer' = 0
        /\ UNCHANGED <<source, feed, delay, fresh, cursor, attempt, stop, raised,
                       beat, report, last, whole, first>>
    BY <1>7 DEF Field, Comment, Goto, beatVars, frameVars, readVars
  <2> QED BY <1>1, <2>1, <2>2 DEF TypeOK, Quiet, HandedOver
<1>8. CASE Blank
  <2>1. UNCHANGED <<source, feed, delay, stop, raised>>
    BY <1>8 DEF Blank
  <2>2. CASE parser.data # <<>>
    <3> DEFINE frame == [data |-> parser.data, id |-> parser.id, atEnd |-> FALSE]
    <3>1. Handle(frame) /\ first' = FirstSeen(parser.id) /\ asked' = asked
      BY <1>8, <2>2 DEF Blank
    <3>2. parser.id \in 1..Len(feed) /\ frame.id <= Len(feed)
      BY <1>2, <2>2, Buffered
    <3>3. first' \in 0..Len(feed)
      BY <1>2, <3>1, <3>2 DEF FirstSeen
    <3>4. frame \in HandedOver
      BY <2>2, HandedTypes
    <3> HIDE DEF frame
    <3>5. /\ pc' \in {"reading", "left"} /\ timer' = 0
          /\ cursor' \in 0..Len(feed) /\ last' \in HandedOver /\ whole' \subseteq Frames
          /\ beat' \in {NoBeat} \cup 0..(HeartbeatTimeout + 1) /\ report' \in 0..StatsInterval
          /\ attempt' \in 0..MaxAttempts /\ fresh' \in BOOLEAN /\ quiet' \in Quiet
      BY <3>1, <3>2, <3>4, HandlingTypes
    <3> QED BY <1>1, <2>1, <3>1, <3>3, <3>5 DEF TypeOK, Quiet, HandedOver
  <2>3. CASE parser.data = <<>>
    <3>1. quiet' \in Quiet /\ asked' \in [age: Nat, signs: 0..MaxSigns]
      BY <1>8, <2>3, ASign DEF Blank
    <3>2. pc' = "reading" /\ timer' = 0
          /\ UNCHANGED <<cursor, beat, report, last, whole, first, attempt, fresh>>
      BY <1>8, <2>3 DEF Blank, Goto, beatVars, frameVars
    <3> QED BY <1>1, <2>1, <3>1, <3>2 DEF TypeOK, Quiet, HandedOver
  <2> QED BY <2>2, <2>3
<1>9. CASE StreamEnds
  <2>1. UNCHANGED <<source, feed, fresh, stop, asked>>
    BY <1>9 DEF StreamEnds
  <2>2. CASE stop
    BY <1>1, <1>9, <2>1, <2>2 DEF StreamEnds, Goto, TypeOK, beatVars, frameVars
  <2>3. CASE ~stop /\ Leftover
    <3> DEFINE frame == [data |-> parser.data, id |-> parser.id, atEnd |-> TRUE]
    <3>1. /\ Deliver(frame)
          /\ first' = FirstSeen(parser.id)
          /\ SleepBeforeRetry(AttemptDelivered, NoQuiet)
      BY <1>9, <2>3 DEF StreamEnds
    <3>2. parser.data # <<>>
      BY <2>3 DEF Leftover
    <3>3. parser.id \in 1..Len(feed) /\ frame \in HandedOver /\ frame.id = parser.id
      BY <3>2, Buffered, HandedTypes
    <3> HIDE DEF frame
    <3>4. first' \in 0..Len(feed) /\ cursor' \in 0..Len(feed) /\ last' \in HandedOver
      BY <1>2, <3>1, <3>3, AFrame DEF FirstSeen
    <3>5. /\ whole' \subseteq Frames /\ beat' \in {NoBeat} \cup 0..(HeartbeatTimeout + 1)
          /\ report' \in 0..StatsInterval
      BY <3>1, <3>3, AFrame
    <3>6. AttemptDelivered \in Nat /\ NoQuiet \in Quiet
      BY <1>2, Settings DEF AttemptDelivered, NoQuiet, Quiet
    <3>7. /\ attempt' \in 0..MaxAttempts /\ timer' \in Nat /\ quiet' \in Quiet
          /\ pc' \in {"left", "waiting"} /\ raised' \in {"none", "status", "overflow"}
          /\ delay' \in 0..BackoffMax
      BY <3>1, <3>6, FailureTypes
    <3> QED BY <1>1, <2>1, <3>4, <3>5, <3>7 DEF TypeOK, Quiet, HandedOver
  <2>4. CASE ~stop /\ ~Leftover
    <3>1. /\ SleepBeforeRetry(attempt, quiet)
          /\ first' = IF parser.data = <<>> THEN first ELSE FirstSeen(parser.id)
          /\ UNCHANGED <<cursor, last, whole, beat, report>>
      BY <1>9, <2>4 DEF StreamEnds, beatVars
    <3>2. first' = first
      BY <2>4, <3>1, Buffered DEF Leftover
    <3>3. /\ attempt' \in 0..MaxAttempts /\ timer' \in Nat /\ quiet' \in Quiet
          /\ pc' \in {"left", "waiting"} /\ raised' \in {"none", "status", "overflow"}
          /\ delay' \in 0..BackoffMax
      BY <1>2, <3>1, FailureTypes
    <3> QED BY <1>1, <2>1, <3>1, <3>2, <3>3 DEF TypeOK, Quiet, HandedOver
  <2> QED BY <2>2, <2>3, <2>4
<1>10. CASE Message
  <2> DEFINE frame == [data |-> <<<<conn.pos, 1>>, <<conn.pos, 2>>>>,
                       id |-> CursorOf(conn.pos), atEnd |-> FALSE]
  <2>1. /\ Handle(frame) /\ first' = FirstSeen(CursorOf(conn.pos)) /\ conn.pos <= Len(feed)
        /\ UNCHANGED <<source, feed, delay, stop, raised, asked>>
    BY <1>10 DEF Message
  <2>2. frame \in HandedOver /\ frame.id \in {0, conn.pos} /\ conn.pos \in Frames
    BY <2>1, HandedTypes
  <2>3. frame.id <= Len(feed) /\ CursorOf(conn.pos) \in 0..Len(feed)
    BY <1>2, <2>1, <2>2 DEF Frames
  <2>4. first' \in 0..Len(feed)
    BY <1>2, <2>1, <2>3 DEF FirstSeen
  <2> HIDE DEF frame
  <2>5. /\ pc' \in {"reading", "left"} /\ timer' = 0
        /\ cursor' \in 0..Len(feed) /\ last' \in HandedOver /\ whole' \subseteq Frames
        /\ beat' \in {NoBeat} \cup 0..(HeartbeatTimeout + 1) /\ report' \in 0..StatsInterval
        /\ attempt' \in 0..MaxAttempts /\ fresh' \in BOOLEAN /\ quiet' \in Quiet
    BY <2>1, <2>2, <2>3, HandlingTypes
  <2> QED BY <1>1, <2>1, <2>4, <2>5 DEF TypeOK, Quiet, HandedOver
<1>11. CASE Tick
  <2>1. UNCHANGED <<source, feed, pc, delay, fresh, cursor, attempt, stop, raised, last, whole, first>>
    BY <1>11 DEF Tick, frameVars, readVars
  <2> QED BY <1>1, <1>11, <2>1, TickTypes DEF TypeOK, Quiet, HandedOver
<1>12. CASE UNCHANGED vars
  <2>1. TypeOK'
    BY <1>12 DEF vars, TypeOK, readVars, beatVars, frameVars
  <2> QED BY <1>1, <2>1
<1>13. TypeOK'
  BY <1>3, <1>4, <1>5, <1>6, <1>7, <1>8, <1>9, <1>10, <1>11, <1>12 DEF Next
<1> QED BY <1>1, <1>13

-----------------------------------------------------------------------------
(* The steps that hand a frame over, and those that do not.                *)

(* A blank line hands over the frame the connection is in, whole.          *)
LEMMA BlankHandsOver ==
    ASSUME TypeOK, ParserInv, Blank, parser.data # <<>>
    PROVE  \E frame \in HandedOver :
              /\ frame.data = <<<<conn.pos, 1>>, <<conn.pos, 2>>>> /\ frame.id = conn.pos
              /\ Handle(frame) /\ first' = FirstSeen(conn.pos)
              /\ conn.pos \in 1..Len(feed) /\ conn.pos \in Frames
              /\ conn' = [pos |-> conn.pos + 1, line |-> 1] /\ source = "wikimedia"
              /\ UNCHANGED <<source, feed, delay, stop, raised, asked>>
<1> DEFINE frame == [data |-> parser.data, id |-> parser.id, atEnd |-> FALSE]
<1>1. conn.line = 4 /\ parser.id = conn.pos /\ conn.pos \in 1..Len(feed) /\ conn.pos \in Frames
      /\ source = "wikimedia" /\ parser.data = <<<<conn.pos, 1>>, <<conn.pos, 2>>>>
  <2>1. conn.line = 1 \/ conn.line = 4
    BY DEF Blank
  <2> QED BY <2>1, Buffered
<1>2. Handle(frame) /\ first' = FirstSeen(conn.pos)
      /\ UNCHANGED <<source, feed, delay, stop, raised, asked>>
  BY <1>1 DEF Blank
<1>3. conn' = [pos |-> conn.pos + 1, line |-> 1]
  BY <1>1 DEF Blank
<1>4. frame \in HandedOver
  BY HandedTypes
<1>5. frame.data = <<<<conn.pos, 1>>, <<conn.pos, 2>>>> /\ frame.id = conn.pos
  BY <1>1
<1> HIDE DEF frame
<1> QED BY <1>1, <1>2, <1>3, <1>4, <1>5

(* A message of Jetstream is handed over whole. *)
LEMMA MessageHandsOver ==
    ASSUME TypeOK, ParserInv, Message
    PROVE  \E frame \in HandedOver :
              /\ frame.data = <<<<conn.pos, 1>>, <<conn.pos, 2>>>> /\ frame.id \in {0, conn.pos}
              /\ Handle(frame) /\ first' = FirstSeen(frame.id)
              /\ conn.pos \in 1..Len(feed) /\ conn.pos \in Frames
              /\ conn' = [conn EXCEPT !.pos = @ + 1] /\ source = "jetstream"
              /\ UNCHANGED <<source, feed, delay, stop, raised, asked>>
<1> DEFINE frame == [data |-> <<<<conn.pos, 1>>, <<conn.pos, 2>>>>,
                     id |-> CursorOf(conn.pos), atEnd |-> FALSE]
<1>1. /\ Handle(frame) /\ first' = FirstSeen(CursorOf(conn.pos)) /\ conn.pos <= Len(feed)
      /\ conn' = [conn EXCEPT !.pos = @ + 1] /\ source = "jetstream"
      /\ UNCHANGED <<source, feed, delay, stop, raised, asked>>
  BY DEF Message
<1>2. frame \in HandedOver /\ frame.id \in {0, conn.pos} /\ conn.pos \in Frames
  BY <1>1, HandedTypes
<1>3. conn.pos \in 1..Len(feed)
  BY <1>1, <1>2, Settings DEF Frames, TypeOK
<1>4. frame.data = <<<<conn.pos, 1>>, <<conn.pos, 2>>>> /\ frame.id = CursorOf(conn.pos)
  OBVIOUS
<1> HIDE DEF frame
<1> QED BY <1>1, <1>2, <1>3, <1>4

(* What is left over at the end of a stream is handed over, whole or its   *)
(* beginning, and the loop goes on as after any failure.                   *)
LEMMA LeftoverHandsOver ==
    ASSUME TypeOK, ParserInv, StreamEnds, ~stop, Leftover
    PROVE  \E frame \in HandedOver :
              /\ frame.data \in {<<<<conn.pos, 1>>>>, <<<<conn.pos, 1>>, <<conn.pos, 2>>>>}
              /\ frame.id = conn.pos /\ frame.atEnd
              /\ Deliver(frame) /\ first' = FirstSeen(conn.pos)
              /\ SleepBeforeRetry(AttemptDelivered, NoQuiet)
              /\ conn.pos \in 1..Len(feed) /\ conn.pos \in Frames
              /\ source = "wikimedia" /\ pc = "reading"
              /\ UNCHANGED <<source, feed, conn, parser, fresh, stop, asked>>
<1> DEFINE frame == [data |-> parser.data, id |-> parser.id, atEnd |-> TRUE]
<1>1. parser.data # <<>> /\ source = "wikimedia"
  BY DEF Leftover
<1>2. /\ parser.data \in {<<<<conn.pos, 1>>>>, <<<<conn.pos, 1>>, <<conn.pos, 2>>>>}
      /\ parser.id = conn.pos /\ conn.pos \in 1..Len(feed) /\ conn.pos \in Frames
  BY <1>1, Buffered
<1>3. /\ Deliver(frame) /\ first' = FirstSeen(conn.pos) /\ pc = "reading"
      /\ SleepBeforeRetry(AttemptDelivered, NoQuiet)
      /\ UNCHANGED <<source, feed, conn, parser, fresh, stop, asked>>
  BY <1>2 DEF StreamEnds
<1>4. frame \in HandedOver
  BY <1>1, HandedTypes
<1>5. frame.data = parser.data /\ frame.id = conn.pos /\ frame.atEnd
  BY <1>2
<1> HIDE DEF frame
<1> QED BY <1>1, <1>2, <1>3, <1>4, <1>5

(* The end of a stream with nothing left over. *)
LEMMA EndsWithNothing ==
    ASSUME TypeOK, ParserInv, StreamEnds, stop \/ ~Leftover
    PROVE  /\ UNCHANGED <<source, feed, conn, parser, fresh, stop, asked, cursor, last, whole,
                          first, beat, report>>
           /\ pc = "reading"
           /\ \/ /\ stop /\ pc' = "left" /\ timer' = 0
                 /\ UNCHANGED <<delay, attempt, raised, quiet>>
              \/ ~stop /\ SleepBeforeRetry(attempt, quiet)
<1>1. /\ UNCHANGED <<source, feed, conn, parser, fresh, stop, asked>>
      /\ pc = "reading"
  BY DEF StreamEnds
<1>2. CASE stop
  BY <1>1, <1>2 DEF StreamEnds, Goto, beatVars, frameVars
<1>3. CASE ~stop
  <2>1. ~Leftover
    BY <1>3
  <2>2. /\ SleepBeforeRetry(attempt, quiet)
        /\ first' = IF parser.data = <<>> THEN first ELSE FirstSeen(parser.id)
        /\ UNCHANGED <<cursor, last, whole, beat, report>>
    BY <1>3, <2>1 DEF StreamEnds, beatVars
  <2>3. parser.data = <<>>
    BY <2>1, Buffered DEF Leftover
  <2> QED BY <1>1, <1>3, <2>2, <2>3
<1> QED BY <1>2, <1>3

(* The steps that hand nothing over leave the records of what was alone.   *)
LEMMA NothingHandedOver ==
    ASSUME TypeOK, ParserInv,
           \/ \E good \in BOOLEAN : Emit(good)
           \/ Connected \/ Accepted \/ Refused \/ Fault \/ WaitOver \/ Field \/ Comment
           \/ Blank /\ parser.data = <<>>
           \/ StreamEnds /\ (stop \/ ~Leftover)
           \/ RequestStop \/ RunEnds \/ Exit \/ Tick \/ UNCHANGED vars
    PROVE  /\ UNCHANGED <<source, cursor, last, whole, first>>
           /\ Len(feed') \in Nat /\ Len(feed) \in Nat /\ Len(feed) <= Len(feed')
<1>1. feed \in Seq(BOOLEAN) /\ Len(feed) \in Nat
  BY DEF TypeOK
<1>2. CASE \E good \in BOOLEAN : Emit(good)
  <2>1. PICK good \in BOOLEAN : Emit(good)
    BY <1>2
  <2>2. Len(feed') = Len(feed) + 1
    BY <1>1, <2>1, AppendProperties DEF Emit
  <2> QED BY <1>1, <2>1, <2>2 DEF Emit, readVars, frameVars
<1>3. CASE StreamEnds /\ (stop \/ ~Leftover)
  BY <1>1, <1>3, EndsWithNothing
<1>4. CASE Blank /\ parser.data = <<>>
  BY <1>1, <1>4 DEF Blank, frameVars
<1>5. CASE \/ Connected \/ Accepted \/ Refused \/ Fault \/ WaitOver \/ Field \/ Comment
           \/ RequestStop \/ RunEnds \/ Exit \/ Tick \/ UNCHANGED vars
  BY <1>1, <1>5 DEF Connected, Accepted, Refused, Fault, WaitOver, Field, Comment, RequestStop,
                    RunEnds, Exit, Tick, vars, readVars, frameVars
<1> QED BY <1>2, <1>3, <1>4, <1>5

(* FramesAreOfTheFeed is kept. *)
LEMMA FramesStep ==
    ASSUME TypeOK, ParserInv, FramesAreOfTheFeed, [Next]_vars
    PROVE  FramesAreOfTheFeed'
<1>1. CASE Blank /\ parser.data # <<>>
  <2>1. PICK frame \in HandedOver :
              /\ frame.data = <<<<conn.pos, 1>>, <<conn.pos, 2>>>> /\ frame.id = conn.pos
              /\ Handle(frame) /\ conn.pos \in 1..Len(feed)
              /\ UNCHANGED <<source, feed, delay, stop, raised, asked>>
    BY <1>1, BlankHandsOver
  <2>2. last' = last \/ last' = frame
    BY <2>1, AHandling, AFrame
  <2> QED BY <2>1, <2>2 DEF FramesAreOfTheFeed
<1>2. CASE Message
  <2>1. PICK frame \in HandedOver :
              /\ frame.data = <<<<conn.pos, 1>>, <<conn.pos, 2>>>> /\ frame.id \in {0, conn.pos}
              /\ Handle(frame) /\ conn.pos \in 1..Len(feed) /\ source = "jetstream"
              /\ UNCHANGED <<source, feed, delay, stop, raised, asked>>
    BY <1>2, MessageHandsOver
  <2>2. last' = last \/ last' = frame
    BY <2>1, AHandling, AFrame
  <2> QED BY <2>1, <2>2 DEF FramesAreOfTheFeed
<1>3. CASE StreamEnds /\ ~stop /\ Leftover
  <2>1. PICK frame \in HandedOver :
              /\ frame.data \in {<<<<conn.pos, 1>>>>, <<<<conn.pos, 1>>, <<conn.pos, 2>>>>}
              /\ frame.id = conn.pos /\ frame.atEnd
              /\ Deliver(frame) /\ conn.pos \in 1..Len(feed)
              /\ UNCHANGED <<source, feed, conn, parser, fresh, stop, asked>>
    BY <1>3, LeftoverHandsOver
  <2>2. last' = frame
    BY <2>1, AFrame
  <2> QED BY <2>1, <2>2 DEF FramesAreOfTheFeed
<1>4. CASE \/ \E good \in BOOLEAN : Emit(good)
           \/ Connected \/ Accepted \/ Refused \/ Fault \/ WaitOver \/ Field \/ Comment
           \/ Blank /\ parser.data = <<>>
           \/ StreamEnds /\ (stop \/ ~Leftover)
           \/ RequestStop \/ RunEnds \/ Exit \/ Tick \/ UNCHANGED vars
  <2>1. UNCHANGED <<source, last>> /\ Len(feed) \in Nat /\ Len(feed') \in Nat /\ Len(feed) <= Len(feed')
    BY <1>4, NothingHandedOver
  <2>2. 1..Len(feed) \subseteq 1..Len(feed')
    BY <2>1
  <2> QED BY <2>1, <2>2 DEF FramesAreOfTheFeed
<1> QED BY <1>1, <1>2, <1>3, <1>4 DEF Next

(* LossInv is kept: a connection resumes at or before the cursor, and up   *)
(* to the cursor nothing is missing; while it reads, nothing up to where   *)
(* it is.                                                                  *)
LEMMA LossStep ==
    ASSUME TypeOK, LossInv, [Next]_vars
    PROVE  LossInv'
<1>1. /\ ParserInv /\ ParserInv' /\ TypeOK'
      /\ conn.pos \in Nat /\ cursor \in Nat /\ first \in Nat /\ cursor <= Len(feed) /\ Len(feed) \in Nat
      /\ \A i \in Frames : i \in Nat /\ i > 0
  <2>1. ParserInv
    BY DEF LossInv
  <2>2. ParserInv' /\ TypeOK'
    BY <2>1, TypeStep
  <2>3. /\ conn.pos \in 1..(MaxFeed + 1) /\ cursor \in 0..Len(feed) /\ first \in 0..Len(feed)
        /\ Len(feed) \in Nat /\ MaxFeed \in Nat
    BY Settings DEF TypeOK
  <2>4. \A i \in Frames : i \in Nat /\ i > 0
    BY <2>3 DEF Frames
  <2> QED BY <2>1, <2>2, <2>3, <2>4
<1>2. ASSUME NEW frame \in HandedOver, Handle(frame), frame.id \in {0, conn.pos},
             frame.data = <<<<conn.pos, 1>>, <<conn.pos, 2>>>>,
             first' = FirstSeen(frame.id), conn.pos \in Frames, conn'.pos = conn.pos + 1,
             pc = "reading"
      PROVE  LossInv'
  <2>1. CASE stop
    <3>1. pc' = "left" /\ UNCHANGED <<cursor, whole>>
      BY <1>2, <2>1, AHandling
    <3>2. first' = first \/ (first = 0 /\ cursor = 0)
      BY <1>1, <1>2 DEF FirstSeen, LossInv
    <3> QED BY <1>1, <3>1, <3>2 DEF LossInv, NoFrameLost, InLoop
  <2>2. CASE ~stop
    <3>1. pc' = "reading" /\ Deliver(frame)
      BY <1>2, <2>2, AHandling
    <3>2. /\ cursor' = IF frame.id = 0 THEN cursor ELSE frame.id
          /\ whole \subseteq whole' /\ conn.pos \in whole'
      BY <1>2, <3>1, AFrame
    <3>3. ASSUME NEW i \in Frames, first' > 0, first' <= i, i < conn.pos + 1 PROVE i \in whole'
      <4>1. CASE i = conn.pos
        BY <3>2, <4>1
      <4>2. CASE i < conn.pos
        <5>1. first = 0 => first' = conn.pos
          BY <1>1, <1>2, <3>3 DEF FirstSeen
        <5>2. first > 0 /\ first' = first
          BY <1>1, <1>2, <3>3, <4>2, <5>1 DEF FirstSeen
        <5> QED BY <1>2, <3>2, <3>3, <4>2, <5>2 DEF LossInv
      <4> QED BY <1>1, <1>2, <3>3, <4>1, <4>2
    <3>4. CASE frame.id = conn.pos
      <4>1. cursor' = conn.pos /\ conn.pos > 0 /\ first' > 0
        BY <1>1, <1>2, <3>2, <3>4 DEF FirstSeen
      <4>2. \A i \in Frames : i < cursor' => i < conn.pos + 1
        BY <1>1, <4>1
      <4> QED BY <1>1, <1>2, <3>1, <3>3, <4>1, <4>2 DEF LossInv, NoFrameLost, InLoop
    <3>5. CASE frame.id # conn.pos
      <4>1. cursor' = cursor /\ first' = first
        BY <1>1, <1>2, <3>2, <3>5 DEF FirstSeen
      <4> QED BY <1>1, <1>2, <3>1, <3>2, <3>3, <4>1 DEF LossInv, NoFrameLost, InLoop
    <3> QED BY <3>4, <3>5
  <2> QED BY <2>1, <2>2
<1>3. CASE Blank /\ parser.data # <<>>
  <2>1. PICK frame \in HandedOver :
              /\ frame.data = <<<<conn.pos, 1>>, <<conn.pos, 2>>>> /\ frame.id = conn.pos
              /\ Handle(frame) /\ first' = FirstSeen(conn.pos) /\ conn.pos \in Frames
              /\ conn' = [pos |-> conn.pos + 1, line |-> 1]
    BY <1>1, <1>3, BlankHandsOver
  <2>2. conn'.pos = conn.pos + 1 /\ pc = "reading"
    BY <1>3, <2>1 DEF Blank, ReadingSSE
  <2> QED BY <1>2, <2>1, <2>2
<1>4. CASE Message
  <2>1. PICK frame \in HandedOver :
              /\ frame.data = <<<<conn.pos, 1>>, <<conn.pos, 2>>>> /\ frame.id \in {0, conn.pos}
              /\ Handle(frame) /\ first' = FirstSeen(frame.id) /\ conn.pos \in Frames
              /\ conn' = [conn EXCEPT !.pos = @ + 1]
    BY <1>1, <1>4, MessageHandsOver
  <2>2. conn'.pos = conn.pos + 1 /\ pc = "reading"
    BY <1>4, <2>1 DEF Message, TypeOK
  <2> QED BY <1>2, <2>1, <2>2
<1>5. CASE StreamEnds /\ ~stop /\ Leftover
  <2>1. PICK frame \in HandedOver :
              /\ frame.id = conn.pos /\ Deliver(frame) /\ first' = FirstSeen(conn.pos)
              /\ SleepBeforeRetry(AttemptDelivered, NoQuiet)
              /\ conn.pos \in Frames /\ pc = "reading"
    BY <1>1, <1>5, LeftoverHandsOver
  <2>2. cursor' = conn.pos /\ whole \subseteq whole' /\ conn.pos > 0
    BY <1>1, <2>1, AFrame
  <2>3. pc' # "reading"
    BY <2>1 DEF SleepBeforeRetry, Goto
  <2>4. first' > 0
    BY <1>1, <2>1, <2>2 DEF FirstSeen
  <2>5. ASSUME NEW i \in Frames, first' <= i, i < cursor' PROVE i \in whole'
    <3>1. first > 0 /\ first' = first
      BY <1>1, <2>1, <2>2, <2>5 DEF FirstSeen
    <3> QED BY <2>1, <2>2, <2>5, <3>1 DEF LossInv
  <2> QED BY <1>1, <2>2, <2>3, <2>4, <2>5 DEF LossInv, NoFrameLost
<1>6. CASE Accepted
  <2>1. PICK p \in ResumeAt : conn' = [pos |-> p, line |-> 1]
    BY <1>6 DEF Accepted
  <2>2. UNCHANGED <<cursor, whole, first>> /\ InLoop
    BY <1>1, <1>6, NothingHandedOver DEF Accepted, InLoop
  <2>3. ASSUME NEW i \in Frames, first > 0, first <= i, i < p PROVE i \in whole
    <3>1. cursor > 0
      BY <2>2, <2>3 DEF LossInv
    <3>2. p \in 1..cursor
      BY <2>1, <3>1 DEF ResumeAt
    <3>3. i < cursor
      BY <1>1, <2>3, <3>2
    <3> QED BY <2>3, <3>3 DEF LossInv, NoFrameLost
  <2>4. conn'.pos = p
    BY <2>1
  <2> QED BY <1>1, <2>2, <2>3, <2>4 DEF LossInv, NoFrameLost
<1>7. CASE \/ \E good \in BOOLEAN : Emit(good)
           \/ Connected \/ Refused \/ Fault \/ WaitOver \/ Field \/ Comment
           \/ Blank /\ parser.data = <<>>
           \/ StreamEnds /\ (stop \/ ~Leftover)
           \/ RequestStop \/ RunEnds \/ Exit \/ Tick \/ UNCHANGED vars
  <2>1. UNCHANGED <<cursor, whole, first>>
    BY <1>1, <1>7, NothingHandedOver
  <2>2. (InLoop' => InLoop) /\ (pc' = "reading" => pc = "reading" /\ conn'.pos = conn.pos)
    <3>1. CASE Blank /\ parser.data = <<>>
      <4>1. conn.line # 4
        BY <1>1, <3>1 DEF ParserInv
      <4> QED BY <3>1, <4>1 DEF Blank, ReadingSSE, InLoop, Goto
    <3>2. CASE Field
      <4>1. conn' = [conn EXCEPT !.line = @ + 1] /\ pc = "reading" /\ pc' = "reading"
        BY <3>2 DEF Field, ReadingSSE, Goto
      <4>2. conn'.pos = conn.pos
        BY <1>1, <4>1 DEF TypeOK
      <4> QED BY <4>1, <4>2 DEF InLoop
    <3>3. CASE StreamEnds /\ (stop \/ ~Leftover)
      BY <3>3 DEF StreamEnds, InLoop, SleepBeforeRetry, Goto
    <3>4. CASE \/ \E good \in BOOLEAN : Emit(good)
               \/ Connected \/ Refused \/ Fault \/ WaitOver \/ Comment
               \/ RequestStop \/ RunEnds \/ Exit \/ Tick \/ UNCHANGED vars
      BY <3>4 DEF Emit, Connected, Refused, Fault, WaitOver, Comment, RequestStop, RunEnds, Exit, Tick,
                  vars, readVars, InLoop, SleepBeforeRetry, Goto, LoopHead, ReadingSSE
    <3> QED BY <1>7, <3>1, <3>2, <3>3, <3>4
  <2> QED BY <1>1, <2>1, <2>2 DEF LossInv, NoFrameLost
<1> QED BY <1>3, <1>4, <1>5, <1>6, <1>7 DEF Next

(* EndInv is kept: the exponent never overflows, so that what leaves the   *)
(* loop is a stop or a status.                                             *)
LEMMA EndStep ==
    ASSUME CapWithinFloats, TypeOK, ParserInv, EndInv, [Next]_vars
    PROVE  EndInv'
<1>1. ASSUME NEW k \in Nat, NEW q \in Quiet, SleepBeforeRetry(k, q) PROVE pc' = "waiting" /\ raised' = raised
  BY <1>1, AFailure, NoOverflow
<1>2. attempt \in Nat /\ quiet \in Quiet /\ AttemptDelivered \in Nat /\ NoQuiet \in Quiet
  BY Settings DEF TypeOK, Quiet, NoQuiet, AttemptDelivered
<1>3. CASE Blank \/ Message
  <2>1. /\ raised' = raised /\ stop' = stop /\ pc = "reading"
        /\ pc' = "reading" \/ (pc' = "left" /\ stop)
    BY <1>3 DEF Blank, Message, Handle, Goto, ReadingSSE
  <2> QED BY <2>1 DEF EndInv, EndsOnlyOnPurpose, InLoop
<1>4. CASE StreamEnds
  <2>1. stop' = stop
    BY <1>4 DEF StreamEnds
  <2>2. \/ stop /\ raised' = raised
        \/ SleepBeforeRetry(AttemptDelivered, NoQuiet)
        \/ SleepBeforeRetry(attempt, quiet)
    BY <1>4 DEF StreamEnds
  <2> QED BY <1>1, <1>2, <2>1, <2>2 DEF EndInv, EndsOnlyOnPurpose, InLoop
<1>5. CASE Fault
  <2>1. stop' = stop /\ SleepBeforeRetry(attempt, quiet)
    BY <1>5 DEF Fault
  <2> QED BY <1>1, <1>2, <2>1 DEF EndInv, EndsOnlyOnPurpose, InLoop
<1>6. CASE \/ \E good \in BOOLEAN : Emit(good)
           \/ Connected \/ Accepted \/ Refused \/ WaitOver \/ Field \/ Comment
           \/ RequestStop \/ RunEnds \/ Exit \/ Tick \/ UNCHANGED vars
  BY <1>6 DEF EndInv, EndsOnlyOnPurpose, InLoop, Emit, Connected, Accepted, Refused, WaitOver,
              Field, Comment, RequestStop, RunEnds, Exit, Tick, vars, Goto, LoopHead
<1> QED BY <1>3, <1>4, <1>5, <1>6 DEF Next

-----------------------------------------------------------------------------
(* The clocks.                                                             *)

(* Where a step leads, how long the loop has been there, and how it counts *)
(* the failures since the last frame.                                      *)
LEMMA ClockStep ==
    ASSUME TypeOK, ParserInv, TimerInv, AttemptInv, [Next]_vars
    PROVE  TimerInv' /\ AttemptInv'
<1>1. /\ attempt \in Nat /\ quiet \in Quiet /\ quiet.faults \in Nat /\ NoQuiet \in Quiet
      /\ delay \in Nat /\ timer \in Nat
  BY Settings DEF TypeOK, Quiet, NoQuiet
<1>2. ASSUME NEW k \in Nat, NEW q \in Quiet, q.faults = k, SleepBeforeRetry(k, q),
             pc \in {"connecting", "opening", "reading"}
      PROVE  TimerInv' /\ AttemptInv'
  <2>1. attempt' = k + 1 /\ timer' = 0 /\ quiet'.faults = k + 1
    <3>1. attempt' = k + 1 /\ timer' = 0 /\ quiet'.faults = q.faults + 1
      BY <1>2, AFailure
    <3> QED BY <1>2, <3>1
  <2>2. pc' = "left" \/ (pc' = "waiting" /\ delay' \in 1..BackoffMax)
    BY <1>2, AFailure
  <2> QED BY <2>1, <2>2, Settings DEF TimerInv, AttemptInv, InLoop
<1>3. ASSUME NEW frame \in HandedOver, Handle(frame), pc = "reading"
      PROVE  TimerInv' /\ AttemptInv'
  <2>1. timer' = 0
    BY <1>3, AHandling
  <2>2. CASE stop
    <3>1. pc' = "left"
      BY <1>3, <2>2, AHandling
    <3> QED BY <3>1 DEF TimerInv, AttemptInv, InLoop
  <2>3. CASE ~stop
    <3>1. /\ pc' = "reading" /\ attempt' = (IF fresh THEN 0 ELSE attempt) /\ fresh' = FALSE
          /\ quiet' = NoQuiet
      BY <1>3, <2>3, AHandling
    <3>2. attempt' = 0
      BY <1>3, <3>1 DEF AttemptInv
    <3> QED BY <2>1, <3>1, <3>2, Settings DEF TimerInv, AttemptInv, InLoop, NoQuiet
  <2> QED BY <2>2, <2>3
<1>4. CASE Blank /\ parser.data # <<>>
  BY <1>3, <1>4, BlankHandsOver DEF Blank, ReadingSSE
<1>5. CASE Message
  BY <1>3, <1>5, MessageHandsOver DEF Message
<1>6. CASE StreamEnds /\ ~stop /\ Leftover
  <2>1. pc = "reading" /\ SleepBeforeRetry(AttemptDelivered, NoQuiet)
    BY <1>6 DEF StreamEnds
  <2>2. AttemptDelivered = 0 /\ NoQuiet.faults = 0
    BY <2>1 DEF AttemptInv, AttemptDelivered, NoQuiet
  <2> QED BY <1>1, <1>2, <2>1, <2>2
<1>7. CASE StreamEnds /\ (stop \/ ~Leftover)
  <2>1. pc = "reading" /\ (pc' = "left" \/ SleepBeforeRetry(attempt, quiet))
    BY <1>7, EndsWithNothing
  <2>2. quiet.faults = attempt
    BY <2>1 DEF AttemptInv, InLoop
  <2>3. CASE pc' = "left"
    BY <2>3 DEF TimerInv, AttemptInv, InLoop
  <2> QED BY <1>1, <1>2, <2>1, <2>2, <2>3
<1>8. CASE Fault
  <2>1. pc \in {"connecting", "opening", "reading"} /\ SleepBeforeRetry(attempt, quiet)
    BY <1>8 DEF Fault
  <2>2. quiet.faults = attempt
    BY <2>1 DEF AttemptInv, InLoop
  <2> QED BY <1>1, <1>2, <2>1, <2>2
<1>9. CASE Accepted
  <2>1. /\ pc' = "reading" /\ timer' = 0 /\ fresh' = TRUE /\ attempt' = attempt /\ Sign /\ InLoop
    BY <1>9 DEF Accepted, Goto, AttemptAccepted, InLoop
  <2>2. quiet'.faults = quiet.faults /\ quiet'.signs > 0 /\ quiet' \in Quiet
    BY <2>1, ASign
  <2>3. quiet'.signs # 0
    BY <2>2, Settings DEF Quiet
  <2> QED BY <2>1, <2>2, <2>3, Settings DEF TimerInv, AttemptInv, InLoop
<1>10. CASE Field \/ Comment \/ (Blank /\ parser.data = <<>>)
  <2>1. /\ pc = "reading" /\ pc' = "reading" /\ timer' = 0 /\ fresh' = fresh /\ attempt' = attempt /\ Sign
    BY <1>10 DEF Field, Comment, Blank, Goto, ReadingSSE, readVars
  <2>2. quiet'.faults = quiet.faults /\ quiet'.signs > 0 /\ quiet' \in Quiet
    BY <2>1, ASign
  <2>3. quiet'.signs # 0
    BY <2>2, Settings DEF Quiet
  <2> QED BY <2>1, <2>2, <2>3, Settings DEF TimerInv, AttemptInv, InLoop
<1>11. CASE Tick
  <2>1. UNCHANGED <<source, pc, delay, fresh, attempt>> /\ timer' = Lesser(timer + 1, Patience)
        /\ (timer < Patience \/ (pc = "reading" /\ source = "jetstream"))
    BY <1>11 DEF Tick, readVars
  <2>2. quiet'.faults = quiet.faults /\ quiet'.signs = quiet.signs
    BY <1>1, <1>11 DEF Tick, Quiet
  <2>3. TimerInv'
    <3>1. CASE pc = "connecting"
      <4>1. Patience = ConnectTimeout
        BY <3>1 DEF Patience
      <4> QED BY <1>1, <2>1, <3>1, <4>1, Settings DEF TimerInv, Lesser
    <3>2. CASE pc \in {"opening", "reading"}
      <4>1. Patience = ReadTimeout
        BY <3>2 DEF Patience
      <4> QED BY <1>1, <2>1, <3>2, <4>1, Settings DEF TimerInv, Lesser
    <3>3. CASE pc = "waiting"
      <4>1. Patience \in {timer, delay} /\ timer < Patience
        BY <2>1, <3>3 DEF Patience
      <4>2. Patience = delay
        BY <1>1, <4>1
      <4> QED BY <1>1, <2>1, <3>3, <4>2 DEF TimerInv, Lesser
    <3>4. CASE pc \notin {"connecting", "opening", "reading", "waiting"}
      BY <2>1, <3>4 DEF TimerInv
    <3> QED BY <3>1, <3>2, <3>3, <3>4
  <2> QED BY <2>1, <2>2, <2>3 DEF AttemptInv, InLoop
<1>12. CASE Connected \/ Refused \/ WaitOver \/ RunEnds \/ Exit
  <2>1. /\ timer' = 0 /\ UNCHANGED <<source, delay, fresh, attempt, quiet>>
        /\ pc' = "opening" => pc = "connecting"
        /\ pc' = "connecting" => pc = "waiting"
        /\ pc' \notin {"waiting", "reading"}
    BY <1>12 DEF Connected, Refused, WaitOver, RunEnds, Exit, Goto, LoopHead, readVars
  <2> QED BY <2>1, Settings DEF TimerInv, AttemptInv, InLoop
<1>13. CASE (\E good \in BOOLEAN : Emit(good)) \/ RequestStop \/ UNCHANGED vars
  <2>1. UNCHANGED <<source, pc, timer, delay, fresh, attempt, quiet>>
    BY <1>13 DEF Emit, RequestStop, vars, readVars
  <2> QED BY <2>1 DEF TimerInv, AttemptInv, InLoop
<1> QED BY <1>4, <1>5, <1>6, <1>7, <1>8, <1>9, <1>10, <1>11, <1>12, <1>13 DEF Next

(* A tick adds one to the clocks, except where no timeout runs. *)
LEMMA ATick ==
    ASSUME TypeOK, Tick
    PROVE  /\ UNCHANGED <<source, feed, pc, delay, fresh, attempt, stop, raised, first>>
           /\ ~(pc = "reading" /\ source = "jetstream") => timer' = timer + 1 /\ timer < Patience
           /\ pc = "waiting" => WaitDone \/ timer < delay
           /\ pc = "waiting" => ~WaitDone
           /\ beat = NoBeat => beat' = NoBeat
           /\ beat # NoBeat => beat \in Nat /\ beat' \in Nat /\ beat' <= beat + 1
           /\ report \in Nat /\ report' \in Nat /\ report' = IF report > 0 THEN report - 1 ELSE 0
           /\ quiet'.faults = quiet.faults /\ quiet'.signs = quiet.signs
           /\ quiet'.waited = IF pc = "waiting" THEN quiet.waited + 1 ELSE quiet.waited
           /\ asked.age \in Nat /\ asked'.age \in Nat /\ asked'.signs = asked.signs
           /\ stop => asked'.age <= asked.age + 1
           /\ ~stop => asked'.age = asked.age
<1>1. /\ timer \in Nat /\ delay \in Nat /\ report \in 0..StatsInterval
      /\ beat \in {NoBeat} \cup 0..(HeartbeatTimeout + 1)
      /\ quiet \in [faults: Nat, waited: Nat, signs: 0..MaxSigns]
      /\ asked \in [age: Nat, signs: 0..MaxSigns]
  BY Settings DEF TypeOK
<1>2. UNCHANGED <<source, feed, pc, delay, fresh, attempt, stop, raised, first>>
  BY DEF Tick, readVars, frameVars
<1>3. timer < Patience \/ (pc = "reading" /\ source = "jetstream")
  BY DEF Tick
<1>4. ~(pc = "reading" /\ source = "jetstream") => timer' = timer + 1 /\ timer < Patience
  <2>1. SUFFICES ASSUME ~(pc = "reading" /\ source = "jetstream")
                 PROVE  timer' = timer + 1 /\ timer < Patience
    OBVIOUS
  <2>2. timer < Patience /\ timer' = Lesser(timer + 1, Patience)
    BY <1>3, <2>1 DEF Tick
  <2>3. Patience \in Nat
    <3>1. /\ pc = "connecting" => Patience = ConnectTimeout
          /\ pc \in {"opening", "reading"} => Patience = ReadTimeout
          /\ pc = "waiting" => Patience \in {timer, delay}
          /\ pc = "flushing" => Patience = FlushTimeout
          /\ pc \notin {"connecting", "opening", "reading", "waiting", "flushing"} => Patience = 0
      BY DEF Patience
    <3>2. FlushTimeout \in Nat
      BY EventSourceAssumption
    <3> QED BY <1>1, <3>1, <3>2, Settings
  <2> QED BY <1>1, <2>2, <2>3 DEF Lesser
<1>5. pc = "waiting" => ~WaitDone /\ timer < delay
  <2>1. SUFFICES ASSUME pc = "waiting" PROVE ~WaitDone /\ timer < delay
    OBVIOUS
  <2>2. timer < (IF WaitDone THEN timer ELSE delay)
    BY <1>3, <2>1 DEF Patience
  <2> QED BY <1>1, <2>2
<1>6. /\ beat = NoBeat => beat' = NoBeat
      /\ beat # NoBeat => beat \in Nat /\ beat' \in Nat /\ beat' <= beat + 1
  <2>1. beat # NoBeat => beat \in 0..(HeartbeatTimeout + 1)
    BY <1>1
  <2>2. beat' = IF beat = NoBeat THEN NoBeat ELSE Lesser(beat + 1, HeartbeatTimeout + 1)
    BY DEF Tick
  <2> QED BY <2>1, <2>2, Settings DEF Lesser
<1>7. report \in Nat /\ report' \in Nat /\ report' = IF report > 0 THEN report - 1 ELSE 0
  <2>1. report' = IF report > 0 THEN report - 1 ELSE 0
    BY DEF Tick
  <2> QED BY <1>1, <2>1, Settings
<1>8. /\ quiet'.faults = quiet.faults /\ quiet'.signs = quiet.signs
      /\ quiet'.waited = IF pc = "waiting" THEN quiet.waited + 1 ELSE quiet.waited
  <2>1. quiet' = [quiet EXCEPT !.waited = IF pc = "waiting" THEN quiet.waited + 1 ELSE quiet.waited]
    BY DEF Tick
  <2> QED BY <1>1, <2>1
<1>9. /\ asked.age \in Nat /\ asked'.age \in Nat /\ asked'.signs = asked.signs
      /\ stop => asked'.age <= asked.age + 1
      /\ ~stop => asked'.age = asked.age
  <2>1. LongestStop \in Nat
    <3>1. \A a, b \in Nat : a * b \in Nat
      OBVIOUS
    <3> QED BY <3>1, Settings DEF LongestStop
  <2>2. asked' = [asked EXCEPT !.age = IF stop THEN Lesser(asked.age + 1, LongestStop + 1)
                                               ELSE asked.age]
    BY DEF Tick
  <2>3. asked'.age = (IF stop THEN Lesser(asked.age + 1, LongestStop + 1) ELSE asked.age)
        /\ asked'.signs = asked.signs /\ asked.age \in Nat
    BY <1>1, <2>2
  <2> QED BY <2>1, <2>3 DEF Lesser
<1> QED BY <1>2, <1>4, <1>5, <1>6, <1>7, <1>8, <1>9

(* The report that is due restarts the heartbeat: after a frame it is no   *)
(* older than a report interval.                                           *)
LEMMA FreshBeat ==
    ASSUME TypeOK, HealthInv, NEW frame \in HandedOver, Deliver(frame)
    PROVE  /\ beat' # NoBeat /\ report' > 0 => beat' + report' <= StatsInterval
           /\ beat' # NoBeat => beat' <= StatsInterval
<1>1. /\ report \in Nat /\ report \in 0..StatsInterval
      /\ beat # NoBeat => beat \in Nat
  BY Settings DEF TypeOK
<1>2. CASE report = 0 /\ beat' = 0 /\ report' = StatsInterval
  BY <1>2, Settings
<1>3. CASE report # 0 /\ beat' = beat /\ report' = report
  <2>1. report > 0
    BY <1>1, <1>3
  <2> QED BY <1>1, <1>3, <2>1, Settings DEF HealthInv
<1> QED BY <1>2, <1>3, AFrame

(* HealthInv is kept. *)
LEMMA HealthStep ==
    ASSUME TypeOK, ParserInv, HealthInv, [Next]_vars
    PROVE  HealthInv'
<1>1. TimerInv' /\ AttemptInv' /\ TimerInv /\ AttemptInv
  BY ClockStep DEF HealthInv
<1>2. /\ attempt \in Nat /\ quiet \in Quiet /\ quiet.faults \in Nat /\ NoQuiet \in Quiet
      /\ delay \in Nat /\ timer \in Nat /\ report \in 0..StatsInterval
      /\ beat # NoBeat => beat \in Nat
      /\ Capped(0) \in Nat
  <2>1. Capped(0) \in 1..BackoffMax
    BY DelayBounds
  <2> QED BY <2>1, Settings DEF TypeOK, Quiet, NoQuiet
<1>3. ASSUME NEW frame \in HandedOver, Handle(frame)
      PROVE  HealthInv'
  <2>1. CASE stop
    <3>1. pc' = "left" /\ UNCHANGED <<beat, report>>
      BY <1>3, <2>1, AHandling
    <3> QED BY <1>1, <3>1 DEF HealthInv, InLoop
  <2>2. CASE ~stop
    <3>1. pc' = "reading" /\ timer' = 0 /\ Deliver(frame)
      BY <1>3, <2>2, AHandling
    <3>2. /\ beat' # NoBeat /\ report' > 0 => beat' + report' <= StatsInterval
          /\ beat' # NoBeat => beat' <= StatsInterval
      BY <3>1, FreshBeat
    <3>3. Since' = StatsInterval
      BY <3>1, Settings DEF Since
    <3> QED BY <1>1, <3>1, <3>2, <3>3 DEF HealthInv
  <2> QED BY <2>1, <2>2
<1>4. CASE Blank /\ parser.data # <<>>
  BY <1>3, <1>4, BlankHandsOver
<1>5. CASE Message
  BY <1>3, <1>5, MessageHandsOver
<1>6. CASE StreamEnds /\ ~stop /\ Leftover
  <2>1. PICK frame \in HandedOver : Deliver(frame) /\ SleepBeforeRetry(AttemptDelivered, NoQuiet)
                                    /\ pc = "reading"
    BY <1>6, LeftoverHandsOver
  <2>2. AttemptDelivered = 0
    BY <1>1, <2>1 DEF AttemptInv, AttemptDelivered
  <2>3. /\ timer' = 0
        /\ pc' = "left" \/ (pc' = "waiting" /\ delay' <= Capped(0))
    BY <1>2, <2>1, <2>2, AFailure
  <2>4. /\ beat' # NoBeat /\ report' > 0 => beat' + report' <= StatsInterval
        /\ beat' # NoBeat => beat' <= StatsInterval
        /\ beat' # NoBeat => beat' \in Nat
    BY <2>1, FreshBeat, AFrame, Settings
  <2>5. CASE pc' = "left"
    BY <1>1, <2>4, <2>5 DEF HealthInv, InLoop
  <2>6. CASE pc' = "waiting"
    <3>1. Since' = StatsInterval + ReadTimeout
      BY <2>3, <2>6, Settings DEF Since
    <3>2. beat' # NoBeat => beat' <= Since'
      BY <2>4, <3>1, Settings
    <3> QED BY <1>1, <2>3, <2>4, <2>6, <3>2 DEF HealthInv
  <2> QED BY <2>3, <2>5, <2>6
<1>7. ASSUME SleepBeforeRetry(attempt, quiet), pc \in {"connecting", "opening", "reading"},
             UNCHANGED <<source, beat, report>>
      PROVE  HealthInv'
  <2>1. /\ timer' = 0 /\ quiet'.faults = quiet.faults + 1 /\ quiet'.signs = quiet.signs
        /\ pc' = "left" \/ (pc' = "waiting" /\ delay' <= Capped(attempt))
    BY <1>2, <1>7, AFailure
  <2>2. CASE pc' = "left"
    BY <1>1, <1>7, <2>2 DEF HealthInv, InLoop
  <2>3. CASE pc' = "waiting"
    <3>1. ASSUME source = "wikimedia", beat # NoBeat, quiet'.faults <= 1, quiet.signs = 0
          PROVE  beat <= StatsInterval + ReadTimeout /\ delay' <= Capped(0)
      <4>1. quiet.faults = 0 /\ InLoop
        BY <1>2, <1>7, <2>1, <3>1 DEF InLoop
      <4>2. attempt = 0
        BY <1>1, <4>1 DEF AttemptInv
      <4>3. pc = "reading"
        BY <1>7, <3>1, <4>1 DEF HealthInv
      <4>4. beat <= StatsInterval + timer /\ timer <= ReadTimeout
        BY <1>1, <3>1, <4>1, <4>3 DEF HealthInv, TimerInv, Since
      <4>5. beat <= StatsInterval + ReadTimeout
        BY <1>2, <3>1, <4>4, Settings
      <4> QED BY <2>1, <2>3, <4>2, <4>5
    <3>2. Since' = StatsInterval + ReadTimeout
      BY <2>1, <2>3, Settings DEF Since
    <3> QED BY <1>1, <1>7, <2>1, <2>3, <3>1, <3>2 DEF HealthInv
  <2> QED BY <2>1, <2>2, <2>3
<1>8. CASE StreamEnds /\ (stop \/ ~Leftover)
  <2>1. pc = "reading" /\ UNCHANGED <<source, beat, report>>
        /\ (pc' = "left" \/ SleepBeforeRetry(attempt, quiet))
    BY <1>8, EndsWithNothing
  <2>2. CASE pc' = "left"
    BY <1>1, <2>1, <2>2 DEF HealthInv, InLoop
  <2> QED BY <1>7, <2>1, <2>2
<1>9. CASE Fault
  BY <1>7, <1>9 DEF Fault, beatVars
<1>10. CASE Accepted \/ Field \/ Comment \/ (Blank /\ parser.data = <<>>)
  <2>1. pc' = "reading" /\ Sign /\ UNCHANGED <<beat, report>>
    BY <1>10 DEF Accepted, Field, Comment, Blank, Goto, beatVars
  <2>2. quiet'.signs > 0 /\ quiet' \in Quiet
    BY <2>1, ASign
  <2>3. quiet'.signs # 0
    BY <2>2, Settings DEF Quiet
  <2> QED BY <1>1, <2>1, <2>3 DEF HealthInv
<1>11. CASE Connected
  <2>1. /\ pc = "connecting" /\ pc' = "opening" /\ timer' = 0 /\ InLoop
        /\ UNCHANGED <<source, beat, report, quiet>>
    BY <1>11 DEF Connected, Goto, beatVars, InLoop
  <2>2. Since = StatsInterval + ReadTimeout + Capped(0) + timer
    BY <2>1 DEF Since
  <2>3. Since' = StatsInterval + ReadTimeout + Capped(0) + ConnectTimeout
    BY <1>2, <2>1, Settings DEF Since
  <2>4. timer <= ConnectTimeout
    BY <1>1, <2>1 DEF TimerInv
  <2>5. Since <= Since' /\ Since \in Nat /\ Since' \in Nat
    BY <1>2, <2>2, <2>3, <2>4, Settings
  <2>6. beat # NoBeat /\ beat <= Since => beat <= Since'
    BY <1>2, <2>5
  <2> QED BY <1>1, <2>1, <2>6 DEF HealthInv
<1>12. CASE WaitOver
  <2>1. /\ pc = "waiting" /\ pc' \in {"connecting", "left"} /\ timer' = 0 /\ InLoop
        /\ UNCHANGED <<source, beat, report, quiet>>
    BY <1>12 DEF WaitOver, LoopHead, Goto, beatVars, InLoop
  <2>2. CASE pc' = "left"
    BY <1>1, <2>1, <2>2 DEF HealthInv, InLoop
  <2>3. CASE pc' = "connecting"
    <3>1. Since = StatsInterval + ReadTimeout + timer
      BY <2>1 DEF Since
    <3>2. Since' = StatsInterval + ReadTimeout + Capped(0)
      BY <1>2, <2>1, <2>3, Settings DEF Since
    <3>3. timer <= delay /\ quiet.faults # 0
      BY <1>1, <1>2, <2>1 DEF TimerInv, AttemptInv
    <3>4. beat # NoBeat /\ beat <= Since /\ delay <= Capped(0) => beat <= Since'
      BY <1>2, <3>1, <3>2, <3>3, Settings
    <3> QED BY <1>1, <2>1, <2>3, <3>3, <3>4 DEF HealthInv
  <2> QED BY <2>1, <2>2, <2>3
<1>13. CASE Tick
  <2>1. UNCHANGED <<source, pc, delay>> /\ quiet'.faults = quiet.faults /\ quiet'.signs = quiet.signs
    BY <1>13, ATick
  <2>2. beat' # NoBeat => beat # NoBeat /\ beat \in Nat /\ beat' \in Nat /\ beat' <= beat + 1
    BY <1>13, ATick
  <2>3. report' > 0 => report' = report - 1 /\ report > 0
    BY <1>2, <1>13, ATick
  <2>4. beat' # NoBeat /\ report' > 0 => beat' + report' <= StatsInterval
    BY <1>2, <2>2, <2>3, Settings DEF HealthInv
  <2>5. ASSUME InLoop, source = "wikimedia" PROVE Since' = Since + 1 /\ Since \in Nat
    <3>1. timer' = timer + 1
      BY <1>13, <2>5, ATick
    <3> QED BY <1>2, <2>1, <2>5, <3>1, Settings DEF Since, InLoop
  <2>6. ASSUME InLoop, source = "wikimedia", beat' # NoBeat, quiet.faults <= 1, quiet.signs = 0
        PROVE  beat' <= Since' /\ (pc = "waiting" => delay <= Capped(0))
    <3>1. beat <= Since /\ (pc = "waiting" => delay <= Capped(0))
      BY <2>2, <2>6 DEF HealthInv
    <3> QED BY <2>2, <2>5, <2>6, <3>1
  <2> QED BY <1>1, <2>1, <2>2, <2>4, <2>6 DEF HealthInv, InLoop
<1>14. CASE Refused \/ RunEnds \/ Exit
  <2>1. pc' \notin {"connecting", "opening", "reading", "waiting"} /\ report' = report
        /\ (beat' = beat \/ beat' = 0)
    BY <1>14 DEF Refused, RunEnds, Exit, Goto, beatVars
  <2>2. beat' # NoBeat /\ report' > 0 => beat' + report' <= StatsInterval
    BY <1>2, <2>1, Settings DEF HealthInv
  <2> QED BY <1>1, <2>1, <2>2 DEF HealthInv, InLoop
<1>15. CASE (\E good \in BOOLEAN : Emit(good)) \/ RequestStop \/ UNCHANGED vars
  <2>1. UNCHANGED <<source, pc, timer, delay, beat, report, quiet>>
    BY <1>15 DEF Emit, RequestStop, vars, beatVars
  <2> QED BY <1>1, <2>1 DEF HealthInv, InLoop, Since
<1> QED BY <1>4, <1>5, <1>6, <1>8, <1>9, <1>10, <1>11, <1>12, <1>13, <1>14, <1>15 DEF Next

(* HammerInv is kept: every delay is at least half of what the schedule    *)
(* says, and it is waited for to its end unless a stop was asked for.      *)
LEMMA HammerStep ==
    ASSUME TypeOK, ParserInv, HammerInv, [Next]_vars
    PROVE  HammerInv'
<1>1. TimerInv' /\ AttemptInv' /\ TimerInv /\ AttemptInv
  BY ClockStep DEF HammerInv
<1>2. /\ attempt \in Nat /\ quiet \in Quiet /\ quiet.faults \in Nat /\ quiet.waited \in Nat
      /\ NoQuiet \in Quiet /\ NoQuiet.faults = 0 /\ NoQuiet.waited = 0
      /\ delay \in Nat /\ timer \in Nat
  BY Settings DEF TypeOK, Quiet, NoQuiet
<1>3. ASSUME NEW frame \in HandedOver, Handle(frame), stop' = stop
      PROVE  HammerInv'
  <2>1. (pc' = "left" /\ stop) \/ (pc' = "reading" /\ quiet' = NoQuiet)
    BY <1>3, AHandling
  <2>2. DelaysOf[0] = 0
    BY DelaysAddUp
  <2> QED BY <1>1, <1>2, <2>1, <2>2 DEF HammerInv, NotHammered
<1>4. CASE Blank /\ parser.data # <<>>
  BY <1>3, <1>4, BlankHandsOver
<1>5. CASE Message
  BY <1>3, <1>5, MessageHandsOver
<1>6. ASSUME NEW k \in Nat, NEW q \in Quiet, q.faults = k, SleepBeforeRetry(k, q), stop' = stop,
             ~stop => 2 * q.waited >= DelaysOf[k]
      PROVE  HammerInv'
  <2>1. /\ timer' = 0 /\ quiet'.faults = q.faults + 1 /\ quiet'.waited = q.waited
        /\ \/ pc' = "left"
           \/ pc' = "waiting" /\ delay' \in 1..BackoffMax /\ 2 * delay' >= Capped(k)
    BY <1>6, AFailure
  <2>2. CASE pc' = "left"
    BY <1>1, <2>2 DEF HammerInv, NotHammered
  <2>3. CASE pc' = "waiting"
    <3>1. ASSUME ~stop PROVE 2 * quiet'.waited + 2 * (delay' - timer') >= DelaysOf[quiet'.faults]
      <4>1. DelaysOf[k + 1] = DelaysOf[k] + Capped(k) /\ DelaysOf[k] \in Nat
        BY DelaysAddUp
      <4> DEFINE waited == q.waited
                 slept == delay'
                 due == DelaysOf[k]
                 step == Capped(k)
      <4>2. step \in Nat
        BY <1>6, DelayBounds
      <4>6. waited \in Nat
        BY <1>6 DEF Quiet
      <4>7. slept \in Nat
        <5>1. slept \in 1..BackoffMax
          BY <2>1, <2>3
        <5> HIDE DEF slept
        <5> QED BY <5>1
      <4>3. 2 * waited >= due /\ 2 * slept >= step
        BY <1>6, <2>1, <2>3, <3>1
      <4>8. due \in Nat
        BY <4>1
      <4>4. 2 * waited + 2 * (slept - 0) >= due + step
        <5> HIDE DEF waited, slept, due, step
        <5> QED BY <4>2, <4>3, <4>6, <4>7, <4>8
      <4>5. quiet'.waited = q.waited /\ quiet'.faults = k + 1 /\ timer' = 0
        BY <1>6, <2>1
      <4> QED BY <4>1, <4>4, <4>5
    <3> QED BY <1>1, <1>6, <2>3, <3>1 DEF HammerInv, NotHammered
  <2> QED BY <2>1, <2>2, <2>3
<1>7. CASE StreamEnds /\ ~stop /\ Leftover
  <2>1. SleepBeforeRetry(AttemptDelivered, NoQuiet) /\ pc = "reading" /\ stop' = stop
    BY <1>7, LeftoverHandsOver
  <2>2. AttemptDelivered = 0
    BY <1>1, <2>1 DEF AttemptInv, AttemptDelivered
  <2>3. 2 * NoQuiet.waited >= DelaysOf[0]
    BY <1>2, DelaysAddUp
  <2> QED BY <1>2, <1>6, <2>1, <2>2, <2>3
<1>8. CASE Fault \/ (StreamEnds /\ (stop \/ ~Leftover))
  <2>1. /\ pc \in {"connecting", "opening", "reading"} /\ stop' = stop
        /\ (pc' = "left" \/ SleepBeforeRetry(attempt, quiet))
    BY <1>8, EndsWithNothing DEF Fault
  <2>2. quiet.faults = attempt
    BY <1>1, <2>1 DEF AttemptInv, InLoop
  <2>3. ~stop => 2 * quiet.waited >= DelaysOf[attempt]
    BY <2>1, <2>2 DEF HammerInv, NotHammered
  <2>4. CASE pc' = "left"
    BY <1>1, <2>4 DEF HammerInv, NotHammered
  <2> QED BY <1>2, <1>6, <2>1, <2>2, <2>3, <2>4
<1>9. CASE Accepted \/ Field \/ Comment \/ (Blank /\ parser.data = <<>>)
  <2>1. pc' = "reading" /\ pc \in {"connecting", "opening", "reading"} /\ Sign /\ stop' = stop
    BY <1>9 DEF Accepted, Field, Comment, Blank, Goto, ReadingSSE
  <2>2. quiet'.faults = quiet.faults /\ quiet'.waited = quiet.waited
    BY <2>1, ASign
  <2> QED BY <1>1, <2>1, <2>2 DEF HammerInv, NotHammered
<1>10. CASE Tick
  <2>1. /\ UNCHANGED <<pc, delay, stop>> /\ quiet'.faults = quiet.faults
        /\ quiet'.waited = IF pc = "waiting" THEN quiet.waited + 1 ELSE quiet.waited
        /\ pc = "waiting" => timer' = timer + 1
    BY <1>10, ATick
  <2>2. CASE pc = "waiting"
    <3> DEFINE waited == quiet.waited
    <3>1. 2 * (waited + 1) + 2 * (delay - (timer + 1)) = 2 * waited + 2 * (delay - timer)
      <4>1. waited \in Nat
        BY <1>2
      <4> HIDE DEF waited
      <4> QED BY <1>2, <4>1
    <3>2. /\ quiet'.waited = quiet.waited + 1 /\ timer' = timer + 1 /\ delay' = delay
          /\ pc' = "waiting" /\ stop' = stop /\ quiet'.faults = quiet.faults
      BY <2>1, <2>2
    <3>3. ~stop => 2 * waited + 2 * (delay - timer) >= DelaysOf[quiet.faults]
      BY <2>2 DEF HammerInv
    <3>4. 2 * quiet'.waited + 2 * (delay' - timer') = 2 * waited + 2 * (delay - timer)
      BY <3>1, <3>2
    <3>5. ~stop' => 2 * quiet'.waited + 2 * (delay' - timer') >= DelaysOf[quiet'.faults]
      BY <3>2, <3>3, <3>4
    <3> QED BY <1>1, <3>2, <3>5 DEF HammerInv, NotHammered
  <2>3. CASE pc # "waiting"
    BY <1>1, <2>1, <2>3 DEF HammerInv, NotHammered
  <2> QED BY <2>2, <2>3
<1>11. CASE WaitOver
  <2>1. /\ pc = "waiting" /\ (timer = delay \/ stop) /\ quiet' = quiet /\ stop' = stop
        /\ pc' = IF stop THEN "left" ELSE "connecting"
    BY <1>11 DEF WaitOver, WaitDone, LoopHead, Goto
  <2>2. CASE stop
    BY <1>1, <2>1, <2>2 DEF HammerInv, NotHammered
  <2>3. CASE ~stop
    <3>1. /\ timer = delay /\ pc' = "connecting"
          /\ 2 * quiet.waited + 2 * (delay - timer) >= DelaysOf[quiet.faults]
      BY <2>1, <2>3 DEF HammerInv
    <3>2. DelaysOf[quiet.faults] \in Nat
      BY <1>2, DelaysAddUp
    <3>3. 2 * quiet.waited >= DelaysOf[quiet.faults]
      BY <1>2, <3>1, <3>2
    <3> QED BY <1>1, <2>1, <3>1, <3>3 DEF HammerInv, NotHammered
  <2> QED BY <2>2, <2>3
<1>12. CASE Connected \/ Refused \/ RunEnds \/ Exit
  <2>1. /\ quiet' = quiet /\ stop' = stop
        /\ pc' = "opening" => pc = "connecting"
        /\ pc' \notin {"connecting", "reading", "waiting"}
    BY <1>12 DEF Connected, Refused, RunEnds, Exit, Goto
  <2> QED BY <1>1, <2>1 DEF HammerInv, NotHammered
<1>13. CASE (\E good \in BOOLEAN : Emit(good)) \/ RequestStop \/ UNCHANGED vars
  <2>1. UNCHANGED <<pc, timer, delay, quiet>> /\ (~stop' => ~stop)
    BY <1>13 DEF Emit, RequestStop, vars
  <2> QED BY <1>1, <2>1 DEF HammerInv, NotHammered
<1> QED BY <1>4, <1>5, <1>7, <1>8, <1>9, <1>10, <1>11, <1>12, <1>13 DEF Next

(* StopInv is kept: once a stop was asked for, only a sign of life makes   *)
(* a read wait again.                                                      *)
LEMMA StopStep ==
    ASSUME TypeOK, ParserInv, AttemptInv, StopInv, [Next]_vars
    PROVE  StopInv'
<1>1. TimerInv' /\ TimerInv
  BY ClockStep DEF StopInv
<1>2. /\ asked.age \in Nat /\ asked.signs \in 0..MaxSigns /\ asked.signs \in Nat
      /\ timer \in Nat /\ delay \in Nat /\ ConnectTimeout \in Nat /\ ReadTimeout \in Nat
  BY Settings DEF TypeOK
<1>3. \A s \in Nat : s * ReadTimeout \in Nat /\ (s + 1) * ReadTimeout = s * ReadTimeout + ReadTimeout
  BY <1>2
<1>4. ASSUME stop' = stop, asked' = asked, pc' \in {"left", "flushing", "exited"} PROVE StopInv'
  BY <1>1, <1>4 DEF StopInv
<1>5. CASE (Blank /\ parser.data # <<>>) \/ Message
  <2>1. stop' = stop /\ asked' = asked /\ ((stop /\ pc' = "left") \/ ~stop)
    BY <1>5 DEF Blank, Message, Handle, Goto
  <2>2. CASE ~stop
    BY <1>1, <2>1, <2>2 DEF StopInv
  <2> QED BY <1>4, <2>1, <2>2
<1>6. CASE Fault \/ StreamEnds
  <2>1. /\ stop' = stop /\ asked' = asked /\ source' = source
        /\ pc \in {"connecting", "opening", "reading"} /\ pc' \in {"left", "waiting"}
    BY <1>6 DEF Fault, StreamEnds, SleepBeforeRetry, Goto
  <2>2. CASE pc' = "waiting"
    <3>1. ASSUME stop, source = "wikimedia", asked.signs < MaxSigns
          PROVE  asked.age <= ConnectTimeout + asked.signs * ReadTimeout + ReadTimeout
      <4>1. asked.signs * ReadTimeout \in Nat
        BY <1>2, <1>3
      <4>2. CASE pc = "connecting"
        <5>1. asked.age <= timer /\ timer <= ConnectTimeout
          BY <1>1, <3>1, <4>2 DEF StopInv, TimerInv
        <5> QED BY <1>2, <4>1, <5>1
      <4>3. CASE pc = "opening"
        <5>1. asked.age <= ConnectTimeout + timer /\ timer <= ReadTimeout
          BY <1>1, <3>1, <4>3 DEF StopInv, TimerInv
        <5> QED BY <1>2, <4>1, <5>1
      <4>4. CASE pc = "reading"
        <5>1. asked.age <= ConnectTimeout + asked.signs * ReadTimeout + timer /\ timer <= ReadTimeout
          BY <1>1, <3>1, <4>4 DEF StopInv, TimerInv
        <5> QED BY <1>2, <4>1, <5>1
      <4> QED BY <2>1, <4>2, <4>3, <4>4
    <3> QED BY <1>1, <2>1, <2>2, <3>1 DEF StopInv
  <2> QED BY <1>4, <2>1, <2>2
<1>7. CASE Accepted \/ Field \/ Comment \/ (Blank /\ parser.data = <<>>)
  <2>1. /\ pc' = "reading" /\ timer' = 0 /\ Sign /\ stop' = stop /\ source' = source
        /\ pc \in {"opening", "reading"} \/ source = "jetstream"
    BY <1>7 DEF Accepted, Field, Comment, Blank, Goto, ReadingSSE
  <2>2. /\ asked'.age = asked.age /\ asked'.signs \in 0..MaxSigns
        /\ ~stop => asked'.signs = asked.signs
        /\ stop /\ asked'.signs < MaxSigns => asked'.signs = asked.signs + 1
    BY <2>1, ASign
  <2>3. CASE ~stop
    BY <1>1, <2>1, <2>2, <2>3 DEF StopInv
  <2>4. CASE stop
    <3>1. ASSUME source = "wikimedia", asked'.signs < MaxSigns
          PROVE  asked.age <= ConnectTimeout + asked'.signs * ReadTimeout
      <4>1. asked'.signs = asked.signs + 1 /\ asked.signs < MaxSigns
        BY <1>2, <2>2, <2>4, <3>1, Settings
      <4>2. asked.signs * ReadTimeout \in Nat
            /\ asked'.signs * ReadTimeout = asked.signs * ReadTimeout + ReadTimeout
        BY <1>2, <1>3, <4>1
      <4>3. CASE pc = "opening"
        <5>1. asked.age <= ConnectTimeout + timer /\ timer <= ReadTimeout
          BY <1>1, <2>4, <3>1, <4>1, <4>3 DEF StopInv, TimerInv
        <5>2. asked.age <= ConnectTimeout + (asked.signs * ReadTimeout + ReadTimeout)
          BY <1>2, <4>2, <5>1
        <5> QED BY <4>2, <5>2
      <4>4. CASE pc = "reading"
        <5>1. asked.age <= ConnectTimeout + asked.signs * ReadTimeout + timer /\ timer <= ReadTimeout
          BY <1>1, <2>4, <3>1, <4>1, <4>4 DEF StopInv, TimerInv
        <5>2. asked.age <= ConnectTimeout + (asked.signs * ReadTimeout + ReadTimeout)
          BY <1>2, <4>2, <5>1
        <5> QED BY <4>2, <5>2
      <4> QED BY <2>1, <3>1, <4>3, <4>4
    <3>2. ASSUME source' = "wikimedia", asked'.signs < MaxSigns
          PROVE  asked'.age <= ConnectTimeout + asked'.signs * ReadTimeout + timer'
      <4>1. asked'.signs \in Nat /\ asked'.signs * ReadTimeout \in Nat
        BY <1>3, <2>2, Settings
      <4>2. asked.age <= ConnectTimeout + asked'.signs * ReadTimeout
        BY <2>1, <3>1, <3>2
      <4>3. ConnectTimeout + asked'.signs * ReadTimeout + 0 = ConnectTimeout + asked'.signs * ReadTimeout
        BY <1>2, <4>1
      <4> QED BY <2>1, <2>2, <4>2, <4>3
    <3> QED BY <1>1, <2>1, <2>4, <3>2 DEF StopInv
  <2> QED BY <2>3, <2>4
<1>8. CASE Connected
  <2>1. /\ pc = "connecting" /\ pc' = "opening" /\ timer' = 0
        /\ UNCHANGED <<source, stop, asked>>
    BY <1>8 DEF Connected, Goto
  <2>2. timer <= ConnectTimeout
    BY <1>1, <2>1 DEF TimerInv
  <2>3. asked.age <= timer => asked.age <= ConnectTimeout + 0
    BY <1>2, <2>2
  <2> QED BY <1>1, <2>1, <2>3 DEF StopInv
<1>9. CASE WaitOver
  <2>1. UNCHANGED <<stop, asked>> /\ (stop => pc' = "left")
    BY <1>9 DEF WaitOver, LoopHead, Goto
  <2>2. CASE ~stop
    BY <1>1, <2>1, <2>2 DEF StopInv
  <2> QED BY <1>4, <2>1, <2>2
<1>10. CASE RequestStop
  <2>1. /\ UNCHANGED <<source, pc, timer, delay, asked>> /\ ~stop
    BY <1>10 DEF RequestStop
  <2>2. asked.age = 0 /\ asked.signs = 0 /\ 0 * ReadTimeout = 0
    BY <1>2, <2>1 DEF StopInv
  <2> QED BY <1>1, <1>2, <2>1, <2>2 DEF StopInv
<1>11. CASE Tick
  <2>1. /\ UNCHANGED <<source, pc, stop>> /\ asked'.signs = asked.signs
        /\ stop => asked'.age <= asked.age + 1
        /\ ~stop => asked'.age = asked.age
        /\ asked'.age \in Nat
    BY <1>11, ATick
  <2>2. CASE ~stop
    BY <1>1, <2>1, <2>2 DEF StopInv
  <2>3. CASE stop
    <3>1. pc # "waiting"
      BY <1>11, <2>3, ATick DEF WaitDone
    <3>2. source = "wikimedia" => timer' = timer + 1
      BY <1>11, ATick
    <3>3. asked.signs * ReadTimeout \in Nat /\ asked'.age <= asked.age + 1
      BY <1>2, <1>3, <2>1, <2>3
    <3>4. ASSUME source = "wikimedia", asked.signs < MaxSigns
          PROVE  /\ pc = "connecting" => asked.signs = 0 /\ asked'.age <= timer'
                 /\ pc = "opening" => asked.signs = 0 /\ asked'.age <= ConnectTimeout + timer'
                 /\ pc = "reading" =>
                       asked'.age <= ConnectTimeout + asked.signs * ReadTimeout + timer'
      <4>1. CASE pc = "connecting"
        <5>1. asked.signs = 0 /\ asked.age <= timer
          BY <2>3, <3>4, <4>1 DEF StopInv
        <5> QED BY <1>2, <2>1, <3>2, <3>3, <3>4, <4>1, <5>1
      <4>2. CASE pc = "opening"
        <5>1. asked.signs = 0 /\ asked.age <= ConnectTimeout + timer
          BY <2>3, <3>4, <4>2 DEF StopInv
        <5> QED BY <1>2, <2>1, <3>2, <3>3, <3>4, <4>2, <5>1
      <4>3. CASE pc = "reading"
        <5>1. asked.age <= ConnectTimeout + asked.signs * ReadTimeout + timer
          BY <2>3, <3>4, <4>3 DEF StopInv
        <5> QED BY <1>2, <2>1, <3>2, <3>3, <3>4, <4>3, <5>1
      <4> QED BY <4>1, <4>2, <4>3
    <3> QED BY <1>1, <2>1, <2>3, <3>1, <3>4 DEF StopInv
  <2> QED BY <2>2, <2>3
<1>12. CASE Refused \/ RunEnds \/ Exit
  BY <1>4, <1>12 DEF Refused, RunEnds, Exit, Goto
<1>13. CASE (\E good \in BOOLEAN : Emit(good)) \/ UNCHANGED vars
  <2>1. UNCHANGED <<source, pc, timer, delay, stop, asked>>
    BY <1>13 DEF Emit, vars
  <2> QED BY <1>1, <2>1 DEF StopInv
<1> QED BY <1>5, <1>6, <1>7, <1>8, <1>9, <1>10, <1>11, <1>12, <1>13 DEF Next

-----------------------------------------------------------------------------
(* The theorems.                                                           *)

(* The initial state satisfies all of it. *)
LEMMA SourceInit ==
    ASSUME Init
    PROVE  /\ TypeOK /\ ParserInv /\ FramesAreOfTheFeed /\ LossInv /\ EndInv
           /\ HealthInv /\ HammerInv /\ StopInv
<1>1. TypeOK
  <2>1. /\ source \in Sources /\ feed \in Seq(BOOLEAN) /\ Len(feed) = 0
        /\ timer \in Nat /\ cursor \in 0..Len(feed) /\ first \in 0..Len(feed)
    BY DEF Init, build_source
  <2>2. /\ Len(feed) <= MaxFeed /\ delay \in 0..BackoffMax /\ attempt \in 0..MaxAttempts
        /\ report \in 0..StatsInterval /\ beat \in {NoBeat} \cup 0..(HeartbeatTimeout + 1)
    BY <2>1, Settings DEF Init
  <2>3. <<>> \in Seq(Pieces) /\ 0 \in 0..MaxFeed /\ 0 \in 0..MaxSigns /\ 1 \in 1..(MaxFeed + 1)
    BY Settings
  <2>4. /\ conn \in [pos: 1..(MaxFeed + 1), line: 1..4]
        /\ parser \in [data: Seq(Pieces), id: 0..MaxFeed]
        /\ last \in [data: Seq(Pieces), id: 0..MaxFeed, atEnd: BOOLEAN]
    BY <2>3 DEF Init, NewParser, NothingRead
  <2>5. /\ quiet \in [faults: Nat, waited: Nat, signs: 0..MaxSigns]
        /\ asked \in [age: Nat, signs: 0..MaxSigns]
    BY <2>3 DEF Init, NoQuiet
  <2> QED BY <2>1, <2>2, <2>4, <2>5 DEF Init, TypeOK
<1>2. ParserInv
  BY DEF Init, ParserInv, NewParser
<1>3. FramesAreOfTheFeed
  BY DEF Init, FramesAreOfTheFeed
<1>4. LossInv
  BY <1>2 DEF Init, LossInv, NoFrameLost
<1>5. EndInv
  BY DEF Init, EndInv, EndsOnlyOnPurpose, InLoop
<1>6. TimerInv /\ AttemptInv
  BY Settings DEF Init, TimerInv, AttemptInv, NoQuiet
<1>7. HealthInv
  BY <1>6 DEF Init, HealthInv
<1>8. HammerInv
  BY <1>6, DelaysAddUp DEF Init, HammerInv, NotHammered, NoQuiet
<1>9. StopInv
  BY <1>6 DEF Init, StopInv
<1> QED BY <1>1, <1>2, <1>3, <1>4, <1>5, <1>7, <1>8, <1>9

(* The variables of the source loop always have their types, and the       *)
(* parser holds a beginning of one frame of the feed.                      *)
THEOREM SourceTypeCorrect == Spec => [](TypeOK /\ ParserInv)
<1>1. Init => TypeOK /\ ParserInv
  BY SourceInit
<1>2. TypeOK /\ ParserInv /\ [Next]_vars => (TypeOK /\ ParserInv)'
  BY TypeStep
<1> QED BY <1>1, <1>2, PTL DEF Spec

(* What the parser hands on is always one frame of the feed with its own   *)
(* id, or at a clean end of the stream the beginning of one (sse.py).      *)
THEOREM FramesAlwaysOfTheFeed == Spec => []FramesAreOfTheFeed
<1>1. Init => FramesAreOfTheFeed
  BY SourceInit
<1>2. TypeOK /\ ParserInv /\ FramesAreOfTheFeed /\ [Next]_vars => FramesAreOfTheFeed'
  BY FramesStep
<1> QED BY <1>1, <1>2, SourceTypeCorrect, PTL DEF Spec

(* However connections break, end or resume, nothing between the first     *)
(* frame with a cursor and the cursor is ever missing (wikimedia.py).      *)
THEOREM NoFrameEverLost == Spec => []NoFrameLost
<1>1. Init => LossInv
  BY SourceInit
<1>2. TypeOK /\ LossInv /\ [Next]_vars => LossInv'
  BY LossStep
<1>3. LossInv => NoFrameLost
  BY DEF LossInv
<1> QED BY <1>1, <1>2, <1>3, SourceTypeCorrect, PTL DEF Spec

(* With a cap that an exponent a float can hold reaches, the loop ends     *)
(* only on a stop or a fatal status, however long an outage (backoff.py).  *)
THEOREM EndsOnlyEverOnPurpose ==
    ASSUME CapWithinFloats
    PROVE  Spec => []EndsOnlyOnPurpose
<1>1. Init => EndInv
  BY SourceInit
<1>2. TypeOK /\ ParserInv /\ EndInv /\ [Next]_vars => EndInv'
  BY EndStep
<1>3. EndInv => EndsOnlyOnPurpose
  BY DEF EndInv
<1> QED BY <1>1, <1>2, <1>3, SourceTypeCorrect, PTL DEF Spec

(* With a health check that leaves room for it, one fault and one silent   *)
(* read never make the process unhealthy (config.py).                      *)
THEOREM AlwaysHealthyThroughOneFault ==
    ASSUME HealthCheckLeavesRoom
    PROVE  Spec => []HealthyThroughOneFault
<1>1. Init => HealthInv
  BY SourceInit
<1>2. TypeOK /\ ParserInv /\ HealthInv /\ [Next]_vars => HealthInv'
  BY HealthStep
<1>3. TypeOK /\ HealthInv => HealthyThroughOneFault
  <2>1. SUFFICES ASSUME TypeOK, HealthInv, InLoop, source = "wikimedia", beat # NoBeat,
                        quiet.faults <= 1, quiet.signs = 0
                 PROVE  beat <= HeartbeatTimeout
    BY DEF HealthyThroughOneFault, Healthy
  <2>2. /\ beat \in Nat /\ timer \in Nat /\ delay \in Nat /\ Capped(0) \in Nat
        /\ beat <= Since
    <3>1. Capped(0) \in 1..BackoffMax
      BY DelayBounds
    <3>2. timer \in Nat /\ delay \in 0..BackoffMax /\ beat \in {NoBeat} \cup 0..(HeartbeatTimeout + 1)
      BY <2>1 DEF TypeOK
    <3>3. beat <= Since
      BY <2>1 DEF HealthInv
    <3> QED BY <2>1, <3>1, <3>2, <3>3, Settings
  <2>3. /\ pc = "connecting" => timer <= ConnectTimeout
        /\ pc \in {"opening", "reading"} => timer <= ReadTimeout
        /\ pc = "waiting" => timer <= Capped(0)
    <3>1. pc = "waiting" => timer <= delay /\ delay <= Capped(0)
      BY <2>1 DEF HealthInv, TimerInv
    <3>2. pc = "waiting" => timer <= Capped(0)
      BY <2>2, <3>1
    <3> QED BY <2>1, <3>2 DEF HealthInv, TimerInv
  <2>4. Since <= StatsInterval + ReadTimeout + Capped(0) + ConnectTimeout + ReadTimeout
        /\ Since \in Nat
    BY <2>1, <2>2, <2>3, Settings DEF Since, InLoop
  <2> QED BY <2>2, <2>4, Settings DEF HealthCheckLeavesRoom
<1> QED BY <1>1, <1>2, <1>3, SourceTypeCorrect, PTL DEF Spec

(* A connection is only ever attempted after half of every delay of the    *)
(* schedule up to it was waited for (backoff.py).                          *)
THEOREM NeverHammered == Spec => []NotHammered
<1>1. Init => HammerInv
  BY SourceInit
<1>2. TypeOK /\ ParserInv /\ HammerInv /\ [Next]_vars => HammerInv'
  BY HammerStep
<1>3. HammerInv => NotHammered
  BY DEF HammerInv
<1> QED BY <1>1, <1>2, <1>3, SourceTypeCorrect, PTL DEF Spec

(* A stop is always noticed within a handshake and a read, and one read    *)
(* more for every sign of life since (wikimedia.py).                       *)
THEOREM StopAlwaysNoticed == Spec => []StopNoticed
<1>1. Init => HealthInv /\ StopInv
  BY SourceInit
<1>2. TypeOK /\ ParserInv /\ HealthInv /\ StopInv /\ [Next]_vars => HealthInv' /\ StopInv'
  BY HealthStep, StopStep DEF HealthInv
<1>3. TypeOK /\ StopInv => StopNoticed
  <2>1. SUFFICES ASSUME TypeOK, StopInv, InLoop, stop, source = "wikimedia", asked.signs < MaxSigns
                 PROVE  asked.age <= ConnectTimeout + (1 + asked.signs) * ReadTimeout
    BY DEF StopNoticed
  <2>2. /\ asked.age \in Nat /\ asked.signs \in Nat /\ timer \in Nat
        /\ ConnectTimeout \in Nat /\ ReadTimeout \in Nat
    <3>1. asked \in [age: Nat, signs: 0..MaxSigns] /\ timer \in Nat
      BY <2>1 DEF TypeOK
    <3> QED BY <3>1, Settings
  <2>3. /\ asked.signs * ReadTimeout \in Nat
        /\ (1 + asked.signs) * ReadTimeout = asked.signs * ReadTimeout + ReadTimeout
    BY <2>2
  <2>4. asked.age <= ConnectTimeout + asked.signs * ReadTimeout + ReadTimeout
    <3>1. CASE pc = "connecting"
      <4>1. asked.age <= timer /\ timer <= ConnectTimeout
        BY <2>1, <3>1 DEF StopInv, TimerInv
      <4> QED BY <2>2, <2>3, <4>1
    <3>2. CASE pc = "opening"
      <4>1. asked.age <= ConnectTimeout + timer /\ timer <= ReadTimeout
        BY <2>1, <3>2 DEF StopInv, TimerInv
      <4> QED BY <2>2, <2>3, <4>1
    <3>3. CASE pc = "reading"
      <4>1. asked.age <= ConnectTimeout + asked.signs * ReadTimeout + timer /\ timer <= ReadTimeout
        BY <2>1, <3>3 DEF StopInv, TimerInv
      <4> QED BY <2>2, <2>3, <4>1
    <3>4. CASE pc = "waiting"
      BY <2>1, <3>4 DEF StopInv
    <3> QED BY <2>1, <3>1, <3>2, <3>3, <3>4 DEF InLoop
  <2>5. asked.age <= ConnectTimeout + (asked.signs * ReadTimeout + ReadTimeout)
    BY <2>2, <2>3, <2>4
  <2> QED BY <2>3, <2>5
<1> QED BY <1>1, <1>2, <1>3, SourceTypeCorrect, PTL DEF Spec
=============================================================================
