--------------------------- MODULE Dagster_proofs ---------------------------
(***************************************************************************)
(* Theorems about the gold layer and Dagster around it, for any edits,     *)
(* top_n, lateness, builds, kills and failed statements.  A build is cut   *)
(* into statements, and a run process dies between any two of them, so the *)
(* inductive invariants say of each table what it is worth whatever        *)
(* statement comes next: GoldInv of counts and ranks, BuildInv of what the *)
(* running build has covered, GoldUpkeepInv of the loop of maintain_gold.  *)
(***************************************************************************)
EXTENDS Dagster, FiniteSetTheorems, SequenceTheorems, NaturalsInduction,
        WellFoundedInduction, TLAPS

-----------------------------------------------------------------------------
(* The steps, as the marts see them.                                       *)

EndBuild == build' = NoBuild /\ UNCHANGED <<silverVars, goldVars>>

MartsStep == \/ SilverStep
             \/ StartBuild /\ UNCHANGED <<silverVars, goldVars>>
             \/ BuildStep /\ UNCHANGED silverVars
             \/ \E m \in Models : ModelFails(m) /\ UNCHANGED silverVars
             \/ EndBuild
             \/ UNCHANGED martsVars

(* Nothing but a build, its start and its end touches the marts.           *)
LEMMA StepOfMarts ==
    ASSUME [Next]_vars
    PROVE  MartsStep
<1>1. CASE SilverStep
  BY <1>1 DEF MartsStep
<1>2. CASE Launch
  BY <1>2 DEF Launch, MartsStep, martsVars
<1>3. CASE Build
  BY <1>3 DEF Build, MartsStep
<1>4. CASE Kill
  BY <1>4 DEF Kill, MartsStep, EndBuild
<1>5. CASE \/ Schedule \/ Monitor \/ log_run_failures \/ Observe \/ gold_table_maintenance
           \/ UNCHANGED vars
  BY <1>5 DEF Schedule, Monitor, log_run_failures, Observe, gold_table_maintenance, vars,
     MartsStep
<1> QED BY <1>1, <1>2, <1>3, <1>4, <1>5 DEF Next, DaemonStep, RunStep

-----------------------------------------------------------------------------
(* Lemmas about counting edits.                                            *)

(* The numbers the marts are configured with. *)
LEMMA MartsSettings ==
    /\ \A e \in Edited : e = <<e[1], e[2]>> /\ e[2] \in Nat
    /\ IsFiniteSet(Edited)
    /\ TopN \in Nat /\ TopN >= 1 /\ Late \in Nat /\ Ahead \in Nat
    /\ MaxRows \in Nat /\ MaxClock \in Nat
BY MartsAssumption

(* A count of edits is a number, and more edits are not fewer. *)
LEMMA EventsGrow ==
    ASSUME silver \in Seq(Row), NEW I \in SUBSET (1..Len(silver)), NEW J \in SUBSET I,
           NEW b, NEW w
    PROVE  /\ Events(I, b, w) \in Nat /\ Events(J, b, w) \in Nat
           /\ Events(J, b, w) <= Events(I, b, w)
<1> DEFINE S == { i \in I : silver[i].bucket = b /\ silver[i].wiki = w }
           T == { i \in J : silver[i].bucket = b /\ silver[i].wiki = w }
<1>1. IsFiniteSet(1..Len(silver))
  <2>1. Len(silver) \in Int
    OBVIOUS
  <2> QED BY <2>1, FS_Interval
<1>2. S \in SUBSET (1..Len(silver)) /\ T \in SUBSET S
  OBVIOUS
<1>3. IsFiniteSet(S)
  <2> HIDE DEF S
  <2> QED BY <1>1, <1>2, FS_Subset
<1>4. IsFiniteSet(T) /\ Cardinality(T) <= Cardinality(S)
  <2> HIDE DEF S, T
  <2> QED BY <1>2, <1>3, FS_Subset
<1>5. Cardinality(S) \in Nat /\ Cardinality(T) \in Nat
  <2> HIDE DEF S, T
  <2> QED BY <1>3, <1>4, FS_CardinalityType
<1> QED BY <1>4, <1>5 DEF Events

(* An edit is counted.                                                     *)
LEMMA EventCounts ==
    ASSUME silver \in Seq(Row), NEW I \in SUBSET (1..Len(silver)), NEW b, NEW w
    PROVE  Events(I, b, w) > 0 <=> \E i \in I : silver[i].bucket = b /\ silver[i].wiki = w
<1> DEFINE S == { i \in I : silver[i].bucket = b /\ silver[i].wiki = w }
<1>1. IsFiniteSet(S)
  <2>0. Len(silver) \in Int
    OBVIOUS
  <2>1. S \in SUBSET (1..Len(silver))
    OBVIOUS
  <2> HIDE DEF S
  <2>2. IsFiniteSet(1..Len(silver))
    BY <2>0, FS_Interval
  <2> QED BY <2>1, <2>2, FS_Subset
<1>2. Cardinality(S) \in Nat /\ (Cardinality(S) = 0 <=> S = {})
  <2> HIDE DEF S
  <2> QED BY <1>1, FS_CardinalityType, FS_EmptySet
<1>3. Cardinality(S) > 0 <=> S # {}
  <2> HIDE DEF S
  <2> QED BY <1>2
<1> QED BY <1>3 DEF Events

(* The commit of a row adds an edit at the end. *)
LEMMA SilverGrows ==
    ASSUME silver \in Seq(Row), NEW r \in Row, silver' = Append(silver, r)
    PROVE  /\ silver' \in Seq(Row) /\ Len(silver) \in Nat /\ Len(silver') = Len(silver) + 1
           /\ \A i \in 1..Len(silver) : i \in 1..Len(silver') /\ silver'[i] = silver[i]
           /\ silver'[Len(silver')] = r
           /\ \A I \in SUBSET (1..Len(silver)) : \A b, w : Events(I, b, w)' = Events(I, b, w)
           /\ \A b, w : /\ Events(1..Len(silver), b, w) <= Events(1..Len(silver), b, w)'
                        /\ Events(1..Len(silver), b, w) \in Nat
                        /\ Events(1..Len(silver), b, w)' \in Nat
<1>1. /\ silver' \in Seq(Row) /\ Len(silver) \in Nat /\ Len(silver') = Len(silver) + 1
      /\ \A i \in 1..Len(silver) : i \in 1..Len(silver') /\ silver'[i] = silver[i]
      /\ silver'[Len(silver')] = r
  OBVIOUS
<1>2. ASSUME NEW I \in SUBSET (1..Len(silver)), NEW b, NEW w
      PROVE  { i \in I : silver'[i].bucket = b /\ silver'[i].wiki = w }
                 = { i \in I : silver[i].bucket = b /\ silver[i].wiki = w }
  BY <1>1
<1>3. ASSUME NEW b, NEW w
      PROVE  /\ Events(1..Len(silver), b, w) <= Events(1..Len(silver), b, w)'
             /\ Events(1..Len(silver), b, w) \in Nat
             /\ Events(1..Len(silver), b, w)' \in Nat
  <2> DEFINE S == { i \in 1..Len(silver) : silver[i].bucket = b /\ silver[i].wiki = w }
             T == { i \in 1..Len(silver') : silver'[i].bucket = b /\ silver'[i].wiki = w }
  <2>1. S \subseteq T /\ T \subseteq 1..Len(silver') /\ Len(silver') \in Int
    BY <1>1
  <2>2. Events(1..Len(silver), b, w) = Cardinality(S) /\ Events(1..Len(silver), b, w)' = Cardinality(T)
    BY DEF Events
  <2> HIDE DEF S, T
  <2>3. IsFiniteSet(T)
    <3>1. IsFiniteSet(1..Len(silver'))
      BY <2>1, FS_Interval
    <3> QED BY <2>1, <3>1, FS_Subset
  <2>4. IsFiniteSet(S) /\ Cardinality(S) <= Cardinality(T)
    BY <2>1, <2>3, FS_Subset
  <2> QED BY <2>2, <2>3, <2>4, FS_CardinalityType
<1> QED BY <1>1, <1>2, <1>3 DEF Events

-----------------------------------------------------------------------------
(* Ranks.                                                                  *)

(* In a finite set with a strict total order, one more than the number of  *)
(* elements before it numbers the elements 1, 2, ... without a gap.        *)
LEMMA NumberedByOrder ==
    ASSUME NEW S, IsFiniteSet(S), NEW before \in [S -> SUBSET S],
           \A x \in S : x \notin before[x],
           \A x, y, z \in S : x \in before[y] /\ y \in before[z] => x \in before[z],
           \A x, y \in S : x # y => x \in before[y] \/ y \in before[x]
    PROVE  [x \in S |-> 1 + Cardinality(before[x])] \in Bijection(S, 1..Cardinality(S))
<1> DEFINE number == [x \in S |-> 1 + Cardinality(before[x])]
           n == Cardinality(S)
<1>1. n \in Nat
  BY FS_CardinalityType
<1>2. \A x \in S : before[x] \in SUBSET S /\ x \notin before[x]
  OBVIOUS
<1>3. \A x, y \in S : x \in before[y] => before[x] \in SUBSET before[y] /\ before[x] # before[y]
  <2> SUFFICES ASSUME NEW x \in S, NEW y \in S, x \in before[y]
               PROVE  before[x] \in SUBSET before[y] /\ before[x] # before[y]
    OBVIOUS
  <2> QED BY <1>2
<1>4. ASSUME NEW x \in S
      PROVE  /\ IsFiniteSet(before[x]) /\ Cardinality(before[x]) \in Nat
             /\ Cardinality(before[x]) < n
  <2>1. IsFiniteSet(before[x]) /\ Cardinality(before[x]) <= n
        /\ (n = Cardinality(before[x]) => S = before[x])
    BY <1>2, FS_Subset
  <2>2. Cardinality(before[x]) \in Nat
    BY <2>1, FS_CardinalityType
  <2>3. S # before[x]
    BY <1>2
  <2> QED BY <1>1, <2>1, <2>2, <2>3
<1>5. ASSUME NEW x \in S, NEW y \in S, x \in before[y]
      PROVE  Cardinality(before[x]) # Cardinality(before[y])
  <2>1. IsFiniteSet(before[y])
    BY <1>4
  <2> QED BY <1>3, <1>5, <2>1, FS_Subset
<1>6. number \in [S -> 1..n]
  <2> SUFFICES ASSUME NEW x \in S PROVE 1 + Cardinality(before[x]) \in 1..n
    OBVIOUS
  <2> QED BY <1>1, <1>4
<1>7. \A x, y \in S : number[x] = number[y] => x = y
  <2> SUFFICES ASSUME NEW x \in S, NEW y \in S, number[x] = number[y], x # y PROVE FALSE
    OBVIOUS
  <2>1. Cardinality(before[x]) = Cardinality(before[y])
    BY <1>4
  <2> QED BY <1>5, <2>1
<1>8. number \in Injection(S, 1..n)
  BY <1>6, <1>7 DEF Injection, IsInjective
<1>9. IsFiniteSet(1..n) /\ Cardinality(1..n) = n
  BY <1>1, FS_Interval
<1>10. number \in Surjection(S, 1..n)
  <2> HIDE DEF number
  <2> QED BY <1>8, <1>9, FS_Injection
<1> HIDE DEF number
<1>11. number \in Bijection(S, 1..n)
  BY <1>8, <1>10 DEF Bijection
<1> QED BY <1>11 DEF number

(* Cut off at some number, the rest is still numbered without a gap.       *)
LEMMA NumberedToTheTop ==
    ASSUME NEW S, IsFiniteSet(S), NEW number \in Bijection(S, 1..Cardinality(S)),
           NEW top_n \in Nat,
           NEW T \in SUBSET S, \A x \in S : x \in T <=> number[x] <= top_n
    PROVE  IsFiniteSet(T) /\ { number[x] : x \in T } = 1..Cardinality(T)
<1> DEFINE n == Cardinality(S)
           m == IF n <= top_n THEN n ELSE top_n
           cut == [x \in T |-> number[x]]
<1>1. n \in Nat
  BY FS_CardinalityType
<1>2. m \in Nat /\ \A k \in 1..n : k <= top_n <=> k \in 1..m
  BY <1>1
<1>3. /\ number \in [S -> 1..n]
      /\ \A x, y \in S : number[x] = number[y] => x = y
      /\ \A k \in 1..n : \E x \in S : number[x] = k
  BY DEF Bijection, Injection, Surjection, IsInjective
<1>4. \A k \in 1..m : k \in 1..n
  BY <1>1
<1> HIDE DEF n, m
<1>5. cut \in [T -> 1..m]
  BY <1>2, <1>3
<1>6. \A x, y \in T : cut[x] = cut[y] => x = y
  BY <1>3
<1>7. \A k \in 1..m : \E x \in T : cut[x] = k
  <2> SUFFICES ASSUME NEW k \in 1..m PROVE \E x \in T : cut[x] = k
    OBVIOUS
  <2>1. PICK x \in S : number[x] = k
    BY <1>3, <1>4
  <2>2. x \in T
    BY <1>2, <1>4, <2>1
  <2> QED BY <2>1, <2>2
<1>8. cut \in Bijection(T, 1..m)
  <2> HIDE DEF cut
  <2> QED BY <1>5, <1>6, <1>7 DEF Bijection, Injection, Surjection, IsInjective
<1>9. IsFiniteSet(T)
  <2>1. T \in SUBSET S
    OBVIOUS
  <2> QED BY <2>1, FS_Subset
<1>10. Cardinality(T) = m
  <2> HIDE DEF cut
  <2>1. ExistsBijection(T, 1..m)
    BY <1>8 DEF ExistsBijection
  <2>2. Cardinality(1..m) = Cardinality(T)
    BY <1>9, <2>1, FS_Bijection
  <2> QED BY <1>2, <2>2, FS_Interval
<1>11. { number[x] : x \in T } = 1..m
  BY <1>5, <1>7
<1> QED BY <1>9, <1>10, <1>11

(* Only pages of Edited are edited. *)
AllEdited == /\ \A i \in 1..Len(silver) : <<silver[i].wiki, silver[i].page>> \in Edited
             /\ \A r \in batch : <<r.wiki, r.page>> \in Edited

(* Contiguous, of any set of rows. *)
ContiguousIn(T) ==
    \A r \in T :
        LET group == { s \in T : <<s.bucket, s.wiki>> = <<r.bucket, r.wiki>> }
        IN  { s.rank : s \in group } = 1..Cardinality(group)

(* A page has a number of edits, and some exactly if it was edited.        *)
LEMMA PageCounts ==
    ASSUME silver \in Seq(Row), NEW I \in SUBSET (1..Len(silver)), NEW b, NEW w, NEW pg
    PROVE  /\ PageEvents(I, b, w, pg) \in Nat
           /\ PageEvents(I, b, w, pg) > 0 <=>
                  \E i \in I : /\ silver[i].bucket = b
                               /\ silver[i].wiki = w /\ silver[i].page = pg
<1> DEFINE S == { i \in I : silver[i].bucket = b /\ <<silver[i].wiki, silver[i].page>> = <<w, pg>> }
<1>1. IsFiniteSet(S)
  <2>1. Len(silver) \in Int
    OBVIOUS
  <2>2. S \in SUBSET (1..Len(silver))
    OBVIOUS
  <2> HIDE DEF S
  <2>3. IsFiniteSet(1..Len(silver))
    BY <2>1, FS_Interval
  <2> QED BY <2>2, <2>3, FS_Subset
<1>2. Cardinality(S) \in Nat /\ (Cardinality(S) > 0 <=> S # {})
  <2> HIDE DEF S
  <2>1. Cardinality(S) \in Nat /\ (Cardinality(S) = 0 <=> S = {})
    BY <1>1, FS_CardinalityType, FS_EmptySet
  <2> QED BY <2>1
<1>3. S # {} <=> \E i \in I : silver[i].bucket = b /\ silver[i].wiki = w /\ silver[i].page = pg
  OBVIOUS
<1> HIDE DEF S
<1>4. PageEvents(I, b, w, pg) = Cardinality(S)
  BY DEF PageEvents, S
<1> QED BY <1>2, <1>3, <1>4

(* The pages of a group that I counts. *)
Pages(I, b, w) == { e \in Edited : e[1] = w /\ PageEvents(I, b, w, e[2]) > 0 }

(* The order by events and title is total, so Rank numbers the pages of a  *)
(* group 1..n.                                                             *)
LEMMA RankNumbers ==
    ASSUME silver \in Seq(Row), NEW I \in SUBSET (1..Len(silver)), NEW b, NEW w
    PROVE  /\ IsFiniteSet(Pages(I, b, w))
           /\ [e \in Pages(I, b, w) |-> Rank(I, b, w, e[2])]
                  \in Bijection(Pages(I, b, w), 1..Cardinality(Pages(I, b, w)))
<1> DEFINE S == { e \in Edited : e[1] = w /\ PageEvents(I, b, w, e[2]) > 0 }
           before == [e \in S |-> { y \in S : Outranks(I, b, w, y[2], e[2]) }]
           number == [e \in S |-> 1 + Cardinality(before[e])]
<1>1. /\ S \in SUBSET Edited
      /\ \A e \in S : e = <<w, e[2]>> /\ e[2] \in Nat /\ PageEvents(I, b, w, e[2]) \in Nat
  BY MartsSettings, PageCounts DEF Pages
<1>2. IsFiniteSet(S)
  <2> HIDE DEF S
  <2> QED BY <1>1, MartsSettings, FS_Subset
<1>3. \A e \in S : number[e] = Rank(I, b, w, e[2])
  <2> SUFFICES ASSUME NEW e \in S PROVE number[e] = Rank(I, b, w, e[2])
    OBVIOUS
  <2>1. before[e] = { y \in Edited : /\ y[1] = w /\ PageEvents(I, b, w, y[2]) > 0
                                      /\ Outranks(I, b, w, y[2], e[2]) }
    OBVIOUS
  <2> QED BY <2>1 DEF Rank
<1>4. /\ before \in [S -> SUBSET S]
      /\ \A x \in S : x \notin before[x]
      /\ \A x, y, z \in S : x \in before[y] /\ y \in before[z] => x \in before[z]
      /\ \A x, y \in S : x # y => x \in before[y] \/ y \in before[x]
  <2>1. \A x, y \in S : x \in before[y] <=>
            \/ PageEvents(I, b, w, x[2]) > PageEvents(I, b, w, y[2])
            \/ PageEvents(I, b, w, x[2]) = PageEvents(I, b, w, y[2]) /\ x[2] < y[2]
    BY DEF Outranks
  <2>6. before \in [S -> SUBSET S]
    OBVIOUS
  <2> HIDE DEF before, S
  <2>2. \A x, y \in S : x # y => x[2] < y[2] \/ y[2] < x[2]
    <3> SUFFICES ASSUME NEW x \in S, NEW y \in S, x[2] = y[2] PROVE x = y
      BY <1>1
    <3> QED BY <1>1
  <2>3. \A x \in S : x \notin before[x]
    BY <1>1, <2>1
  <2>4. \A x, y, z \in S : x \in before[y] /\ y \in before[z] => x \in before[z]
    <3> SUFFICES ASSUME NEW x \in S, NEW y \in S, NEW z \in S, x \in before[y], y \in before[z]
                 PROVE  x \in before[z]
      OBVIOUS
    <3> DEFINE n(e) == PageEvents(I, b, w, e[2])
    <3>1. /\ n(x) \in Nat /\ n(y) \in Nat /\ n(z) \in Nat
          /\ x[2] \in Nat /\ y[2] \in Nat /\ z[2] \in Nat
      BY <1>1
    <3>2. n(x) > n(y) \/ (n(x) = n(y) /\ x[2] < y[2])
      BY <2>1
    <3>3. n(y) > n(z) \/ (n(y) = n(z) /\ y[2] < z[2])
      BY <2>1
    <3> HIDE DEF n
    <3>4. n(x) > n(z) \/ (n(x) = n(z) /\ x[2] < z[2])
      BY <3>1, <3>2, <3>3
    <3> QED BY <2>1, <3>4 DEF n
  <2>5. \A x, y \in S : x # y => x \in before[y] \/ y \in before[x]
    BY <1>1, <2>1, <2>2
  <2> QED BY <2>3, <2>4, <2>5, <2>6
<1>5. number \in Bijection(S, 1..Cardinality(S))
  <2> HIDE DEF S, before
  <2> QED BY <1>2, <1>4, NumberedByOrder
<1>6. number = [e \in S |-> Rank(I, b, w, e[2])] /\ S = Pages(I, b, w)
  BY <1>3 DEF Pages
<1> HIDE DEF S, number
<1> QED BY <1>2, <1>5, <1>6

(* What mart_top_pages_hourly selects is ranked 1..n in every group: where *)
(* leaves out the end of the order.                                        *)
LEMMA SelectedAreContiguous ==
    ASSUME silver \in Seq(Row), AllEdited, NEW I \in SUBSET (1..Len(silver))
    PROVE  ContiguousIn(TopRows(I))
<1> SUFFICES ASSUME NEW r \in TopRows(I)
             PROVE  LET group == { s \in TopRows(I) : <<s.bucket, s.wiki>> = <<r.bucket, r.wiki>> }
                    IN  { s.rank : s \in group } = 1..Cardinality(group)
  BY DEF ContiguousIn
<1> DEFINE b == r.bucket
           w == r.wiki
           G == { s \in TopRows(I) : <<s.bucket, s.wiki>> = <<b, w>> }
           S == Pages(I, b, w)
           number == [e \in S |-> Rank(I, b, w, e[2])]
           T == { e \in S : number[e] <= TopN }
           row == [e \in T |-> [bucket |-> b, wiki |-> w, page |-> e[2],
                                cutoff |-> build.cutoff, rank |-> number[e]]]
<1>1. /\ S \in SUBSET Edited
      /\ \A e \in S : e = <<w, e[2]>> /\ e[2] \in Nat /\ PageEvents(I, b, w, e[2]) \in Nat
  BY MartsSettings, PageCounts DEF Pages
<1>3. \A e \in S : number[e] = Rank(I, b, w, e[2])
  OBVIOUS
<1>5. IsFiniteSet(S) /\ number \in Bijection(S, 1..Cardinality(S))
  BY RankNumbers
<1> HIDE DEF number
<1>6. IsFiniteSet(T) /\ { number[e] : e \in T } = 1..Cardinality(T)
  <2> HIDE DEF S
  <2>1. /\ T \in SUBSET S /\ TopN \in Nat
        /\ \A e \in S : e \in T <=> number[e] <= TopN
    BY MartsSettings
  <2> HIDE DEF T
  <2> QED BY <1>5, <2>1, NumberedToTheTop
<1>7. \A e \in T : row[e] \in G
  <2> SUFFICES ASSUME NEW e \in T PROVE row[e] \in G
    OBVIOUS
  <2>1. PICK i \in I : silver[i].bucket = b /\ silver[i].wiki = w /\ silver[i].page = e[2]
    BY PageCounts DEF Pages
  <2>2. number[e] = Rank(I, silver[i].bucket, silver[i].wiki, silver[i].page) /\ number[e] <= TopN
    BY <1>3, <2>1
  <2>3. row[e] = [bucket |-> silver[i].bucket, wiki |-> silver[i].wiki, page |-> silver[i].page,
                  cutoff |-> build.cutoff,
                  rank |-> Rank(I, silver[i].bucket, silver[i].wiki, silver[i].page)]
    BY <2>1, <2>2
  <2> HIDE DEF b, w
  <2>4. row[e] \in TopRows(I)
    BY <2>2, <2>3 DEF TopRows
  <2> QED BY <2>4
<1>8. \A s \in G : \E e \in T : row[e] = s
  <2> SUFFICES ASSUME NEW s \in G PROVE \E e \in T : row[e] = s
    OBVIOUS
  <2>1. PICK i \in I :
          /\ s = [bucket |-> silver[i].bucket, wiki |-> silver[i].wiki, page |-> silver[i].page,
                  cutoff |-> build.cutoff,
                  rank |-> Rank(I, silver[i].bucket, silver[i].wiki, silver[i].page)]
          /\ s.rank <= TopN
    BY DEF TopRows
  <2>2. silver[i].bucket = b /\ silver[i].wiki = w
    BY <2>1
  <2> DEFINE e == <<w, silver[i].page>>
  <2>3. e \in Edited /\ e[1] = w /\ e[2] = silver[i].page
    BY <2>2 DEF AllEdited
  <2>4. PageEvents(I, b, w, e[2]) > 0
    BY <2>2, <2>3, PageCounts
  <2>5. e \in S
    BY <2>3, <2>4 DEF Pages
  <2>6. number[e] = s.rank
    BY <1>3, <2>1, <2>2, <2>3, <2>5
  <2>7. e \in T
    BY <2>1, <2>5, <2>6
  <2>8. row[e] = s
    BY <2>1, <2>2, <2>3, <2>6, <2>7
  <2> QED BY <2>7, <2>8
<1>9. \A e, f \in T : row[e] = row[f] => e = f
  <2> SUFFICES ASSUME NEW e \in T, NEW f \in T, row[e] = row[f] PROVE e = f
    OBVIOUS
  <2>1. e[2] = f[2] /\ e \in S /\ f \in S
    OBVIOUS
  <2> QED BY <1>1, <2>1
<1>10. \A e \in T : row[e].rank = number[e]
  OBVIOUS
<1> HIDE DEF row, T, G, S
<1>11. row \in Bijection(T, G)
  <2>1. row \in [T -> G]
    BY <1>7 DEF row
  <2> QED BY <1>8, <1>9, <2>1 DEF Bijection, Injection, Surjection, IsInjective
<1>12. Cardinality(G) = Cardinality(T)
  <2>1. ExistsBijection(T, G)
    BY <1>11 DEF ExistsBijection
  <2> QED BY <1>6, <2>1, FS_Bijection
<1>13. { s.rank : s \in G } = { number[e] : e \in T }
  BY <1>7, <1>8, <1>10
<1>14. { s.rank : s \in G } = 1..Cardinality(G)
  BY <1>6, <1>12, <1>13
<1> QED BY <1>14 DEF G

(* Whoever has an edit to rank has a first: top_n is at least one.         *)
LEMMA SomebodyIsFirst ==
    ASSUME silver \in Seq(Row), AllEdited, NEW I \in SUBSET (1..Len(silver)), I # {}
    PROVE  TopRows(I) # {}
<1>1. PICK k \in I : TRUE
  OBVIOUS
<1> DEFINE b == silver[k].bucket
           w == silver[k].wiki
           S == Pages(I, b, w)
           number == [e \in S |-> Rank(I, b, w, e[2])]
<1>2. <<w, silver[k].page>> \in S
  <2>1. PageEvents(I, b, w, silver[k].page) > 0
    BY PageCounts
  <2> QED BY <2>1 DEF Pages, AllEdited
<1>3. IsFiniteSet(S) /\ number \in Bijection(S, 1..Cardinality(S))
  BY RankNumbers
<1>4. \A e \in S : number[e] = Rank(I, b, w, e[2])
  OBVIOUS
<1>5. \A e \in S : \E i \in I : /\ silver[i].bucket = b /\ silver[i].wiki = w
                               /\ silver[i].page = e[2]
  BY PageCounts DEF Pages
<1> HIDE DEF b, w, S, number
<1>6. Cardinality(S) \in Nat /\ Cardinality(S) # 0
  BY <1>2, <1>3, FS_CardinalityType, FS_EmptySet
<1>7. PICK e \in S : number[e] = 1
  BY <1>3, <1>6 DEF Bijection, Surjection
<1>8. PICK i \in I : silver[i].bucket = b /\ silver[i].wiki = w /\ silver[i].page = e[2]
  BY <1>5
<1> DEFINE row == [bucket |-> silver[i].bucket, wiki |-> silver[i].wiki,
                   page |-> silver[i].page, cutoff |-> build.cutoff,
                   rank |-> Rank(I, silver[i].bucket, silver[i].wiki, silver[i].page)]
<1>9. row.rank = 1 /\ 1 <= TopN
  BY <1>4, <1>7, <1>8, MartsSettings
<1>10. row.rank <= TopN
  BY <1>9
<1>11. row \in TopRows(I)
  BY <1>10 DEF TopRows
<1> QED BY <1>11

(* A table whose buckets are kept or dropped whole stays contiguous, and   *)
(* so do two of different buckets put together.                            *)
LEMMA BucketsApart ==
    ASSUME NEW A, NEW B, ContiguousIn(A), ContiguousIn(B),
           \A r \in A, s \in B : r.bucket # s.bucket
    PROVE  ContiguousIn(A \cup B)
<1> SUFFICES ASSUME NEW r \in A \cup B
             PROVE  LET group == { s \in A \cup B : <<s.bucket, s.wiki>> = <<r.bucket, r.wiki>> }
                    IN  { s.rank : s \in group } = 1..Cardinality(group)
  BY DEF ContiguousIn
<1> DEFINE group(T) == { s \in T : <<s.bucket, s.wiki>> = <<r.bucket, r.wiki>> }
<1>1. CASE r \in A
  <2>1. group(A \cup B) = group(A)
    BY <1>1
  <2>2. { s.rank : s \in group(A) } = 1..Cardinality(group(A))
    BY <1>1 DEF ContiguousIn
  <2> QED BY <2>1, <2>2
<1>2. CASE r \in B
  <2>1. group(A \cup B) = group(B)
    BY <1>2
  <2>2. { s.rank : s \in group(B) } = 1..Cardinality(group(B))
    BY <1>2 DEF ContiguousIn
  <2> QED BY <2>1, <2>2
<1> QED BY <1>1, <1>2

(* A delete by bucket takes groups as a whole. *)
LEMMA BucketsDropped ==
    ASSUME NEW A, NEW B, ContiguousIn(A)
    PROVE  ContiguousIn({ r \in A : \A n \in B : r.bucket # n.bucket })
<1> DEFINE D == { r \in A : \A n \in B : r.bucket # n.bucket }
<1> SUFFICES ASSUME NEW r \in D
             PROVE  LET group == { s \in D : <<s.bucket, s.wiki>> = <<r.bucket, r.wiki>> }
                    IN  { s.rank : s \in group } = 1..Cardinality(group)
  BY DEF ContiguousIn
<1>1. { s \in D : <<s.bucket, s.wiki>> = <<r.bucket, r.wiki>> }
          = { s \in A : <<s.bucket, s.wiki>> = <<r.bucket, r.wiki>> }
  OBVIOUS
<1> QED BY <1>1 DEF ContiguousIn

-----------------------------------------------------------------------------
(* Counts and ranks, whatever statement of a build comes next.             *)

(* delete+insert: between the two statements no bucket of the temporary    *)
(* table is in the mart, and it is emptied when it is inserted.            *)
DeleteInsert ==
    /\ "top_insert" \notin build.todo => "top_delete" \notin build.todo /\ build.tmp = {}
    /\ "top_delete" \notin build.todo =>
           /\ "top_tmp" \notin build.todo
           /\ \A r \in top, n \in build.tmp : r.bucket # n.bucket

(* The bound on silver's rows leaves room for the planned one. *)
Room == Len(silver) <= MaxRows /\ (batch # {} => Len(silver) < MaxRows)

GoldInv == /\ MartsTypeOK
           /\ AllEdited /\ Room
           /\ build.cutoff <= clock /\ build.seen <= Len(silver)
           /\ UniqueGrain /\ NeverOvercounts
           /\ ContiguousIn(top) /\ ContiguousIn(build.tmp)
           /\ DeleteInsert

(* The types that GoldInv gives. *)
LEMMA GoldTypes ==
    ASSUME MartsTypeOK
    PROVE  /\ clock \in 0..MaxClock /\ silver \in Seq(Row) /\ batch \subseteq Row
           /\ Len(silver) \in Nat /\ clock \in Nat
           /\ minute \subseteq MinuteRow /\ top \subseteq TopRow /\ dim \subseteq DimRow
           /\ build \in Builds
           /\ build.todo \subseteq Statements /\ build.tmp \subseteq TopRow
           /\ build.failed \subseteq Models
           /\ build.cutoff \in 0..MaxClock /\ build.seen \in Nat
           /\ Source \in SUBSET (1..Len(silver))
           /\ \A T : Boundary(T) \in SUBSET Source
           /\ \A i \in 1..Len(silver) : silver[i] \in Row
BY MartsSettings DEF MartsTypeOK, Builds, Source, Boundary

(* The silver stream only adds edits: what a mart claims stays true.       *)
LEMMA SilverKeepsGold ==
    ASSUME GoldInv, SilverStep
    PROVE  GoldInv'
<1>1. UNCHANGED <<minute, top, dim, build>>
  BY DEF SilverStep, Tick, PlanRow, CommitRow, goldVars
<1>2. CASE Tick
  <2>1. clock' \in 0..MaxClock /\ clock <= clock' /\ silver' = silver /\ batch' = batch
    BY <1>2, GoldTypes, MartsSettings DEF Tick, GoldInv
  <2>2. build.cutoff <= clock'
    BY <2>1, GoldTypes DEF GoldInv
  <2>3. MartsTypeOK'
    BY <1>1, <2>1 DEF GoldInv, MartsTypeOK
  <2>4. AllEdited' /\ Room' /\ UniqueGrain' /\ NeverOvercounts'
    BY <1>1, <2>1 DEF GoldInv, AllEdited, Room, UniqueGrain, NeverOvercounts, Events
  <2> QED BY <1>1, <2>1, <2>2, <2>3, <2>4 DEF GoldInv, ContiguousIn, DeleteInsert
<1>3. CASE PlanRow
  <2>1. PICK b \in (clock - Late)..(clock + Ahead), e \in Edited :
          /\ b \in Buckets
          /\ batch' = {[bucket |-> b, wiki |-> e[1], page |-> e[2], at |-> clock]}
    BY <1>3 DEF PlanRow
  <2>2. Len(silver) < MaxRows /\ silver' = silver /\ clock' = clock
    BY <1>3 DEF PlanRow
  <2>3. batch' \subseteq Row
    BY <2>1, GoldTypes, MartsSettings DEF GoldInv, Row, Wikis
  <2>4. MartsTypeOK'
    BY <1>1, <2>2, <2>3 DEF GoldInv, MartsTypeOK
  <2>5. AllEdited'
    BY <2>1, <2>2, MartsSettings DEF GoldInv, AllEdited
  <2>6. Room' /\ UniqueGrain' /\ NeverOvercounts'
    BY <1>1, <2>2 DEF GoldInv, Room, UniqueGrain, NeverOvercounts, Events
  <2> QED BY <1>1, <2>2, <2>4, <2>5, <2>6 DEF GoldInv, ContiguousIn, DeleteInsert
<1>4. CASE CommitRow
  <2>1. PICK r \in batch : silver' = Append(silver, r)
    BY <1>4 DEF CommitRow
  <2>2. batch' = {} /\ clock' = clock
    BY <1>4 DEF CommitRow, NoBatch
  <2>3. /\ r \in Row /\ silver \in Seq(Row) /\ <<r.wiki, r.page>> \in Edited
        /\ Len(silver) < MaxRows
    BY GoldTypes DEF GoldInv, AllEdited, Room
  <2>4. /\ silver' \in Seq(Row) /\ Len(silver) \in Nat /\ Len(silver') = Len(silver) + 1
        /\ \A i \in 1..Len(silver) : i \in 1..Len(silver') /\ silver'[i] = silver[i]
        /\ silver'[Len(silver')] = r
        /\ \A b, w : /\ Events(1..Len(silver), b, w) <= Events(1..Len(silver), b, w)'
                     /\ Events(1..Len(silver), b, w) \in Nat
                     /\ Events(1..Len(silver), b, w)' \in Nat
    BY <2>1, <2>3, SilverGrows
  <2>5. MartsTypeOK'
    BY <1>1, <2>2, <2>4 DEF GoldInv, MartsTypeOK
  <2>6. AllEdited'
    <3>1. ASSUME NEW i \in 1..Len(silver')
          PROVE  <<silver'[i].wiki, silver'[i].page>> \in Edited
      <4>1. i \in 1..Len(silver) \/ i = Len(silver')
        BY <2>4
      <4> QED BY <2>3, <2>4, <4>1 DEF GoldInv, AllEdited
    <3> QED BY <2>2, <3>1 DEF AllEdited
  <2>7. Room'
    BY <2>2, <2>3, <2>4, MartsSettings DEF Room
  <2>8. NeverOvercounts'
    <3> SUFFICES ASSUME NEW s \in minute
                 PROVE  s.events <= Events(1..Len(silver), s.bucket, s.wiki)'
      BY <1>1 DEF NeverOvercounts
    <3>1. s.events <= Events(1..Len(silver), s.bucket, s.wiki) /\ s.events \in Nat
      BY GoldTypes DEF GoldInv, NeverOvercounts, MinuteRow
    <3> QED BY <2>4, <3>1
  <2>9. UniqueGrain'
    BY <1>1 DEF GoldInv, UniqueGrain
  <2>10. build.seen <= Len(silver')
    BY <2>4, GoldTypes DEF GoldInv
  <2> QED BY <1>1, <2>2, <2>5, <2>6, <2>7, <2>8, <2>9, <2>10 DEF GoldInv, ContiguousIn, DeleteInsert
<1> QED BY <1>2, <1>3, <1>4 DEF SilverStep

(* What the two models select is well typed and true of silver.            *)
LEMMA SelectedRows ==
    ASSUME GoldInv, NEW I \in SUBSET (1..Len(silver))
    PROVE  /\ MinuteRows(I) \subseteq MinuteRow /\ TopRows(I) \subseteq TopRow
           /\ \A r \in MinuteRows(I) :
                 /\ r.cutoff = build.cutoff
                 /\ r.events = Events(I, r.bucket, r.wiki)
                 /\ \E i \in I : silver[i].bucket = r.bucket /\ silver[i].wiki = r.wiki
           /\ \A r \in TopRows(I) : /\ r.cutoff = build.cutoff
                                    /\ \E i \in I : silver[i].wiki = r.wiki
<1>1. /\ silver \in Seq(Row) /\ build.cutoff \in 0..MaxClock
      /\ \A i \in I : /\ silver[i].bucket \in Buckets /\ silver[i].wiki \in Wikis
                      /\ silver[i].page \in Nat
  BY GoldTypes DEF GoldInv, Row
<1>2. ASSUME NEW i \in I PROVE Events(I, silver[i].bucket, silver[i].wiki) \in Nat
  BY <1>1, EventsGrow
<1>3. ASSUME NEW b, NEW w, NEW pg PROVE Rank(I, b, w, pg) \in Nat
  <2> DEFINE S == { e \in Edited : /\ e[1] = w /\ PageEvents(I, b, w, e[2]) > 0
                                   /\ Outranks(I, b, w, e[2], pg) }
  <2>1. S \in SUBSET Edited
    OBVIOUS
  <2>2. Rank(I, b, w, pg) = 1 + Cardinality(S)
    BY DEF Rank
  <2> HIDE DEF S
  <2>3. IsFiniteSet(S)
    BY <2>1, MartsSettings, FS_Subset
  <2>4. Cardinality(S) \in Nat
    BY <2>3, FS_CardinalityType
  <2> QED BY <2>2, <2>4
<1>4. MinuteRows(I) \subseteq MinuteRow
  BY <1>1, <1>2 DEF MinuteRows, MinuteRow
<1>5. TopRows(I) \subseteq TopRow
  BY <1>1, <1>3 DEF TopRows, TopRow
<1>6. ASSUME NEW r \in MinuteRows(I)
      PROVE  /\ r.cutoff = build.cutoff
             /\ r.events = Events(I, r.bucket, r.wiki)
             /\ \E i \in I : silver[i].bucket = r.bucket /\ silver[i].wiki = r.wiki
  BY DEF MinuteRows
<1>7. ASSUME NEW r \in TopRows(I)
      PROVE  r.cutoff = build.cutoff /\ \E i \in I : silver[i].wiki = r.wiki
  BY DEF TopRows
<1> QED BY <1>4, <1>5, <1>6, <1>7

(* A merge replaces the rows of its groups and no others. *)
LEMMA MergeKeepsGold ==
    ASSUME GoldInv, MergeMinute, UNCHANGED silverVars
    PROVE  GoldInv'
<1> DEFINE I == Boundary(minute)
           rows == MinuteRows(I)
<1>1. /\ minute' = rows \cup
             { r \in minute : \A n \in rows : <<r.bucket, r.wiki>> # <<n.bucket, n.wiki>> }
      /\ build' = [build EXCEPT !.todo = @ \ {"minute"}]
      /\ UNCHANGED <<top, dim, clock, silver, batch>>
  BY DEF MergeMinute, Done, silverVars
<1>2. I \in SUBSET (1..Len(silver)) /\ silver \in Seq(Row)
  BY GoldTypes DEF GoldInv
<1> HIDE DEF I
<1>3. /\ rows \subseteq MinuteRow
      /\ \A r \in rows : r.cutoff = build.cutoff /\ r.events = Events(I, r.bucket, r.wiki)
  BY <1>2, SelectedRows
<1>4. /\ build'.todo = build.todo \ {"minute"} /\ build'.cutoff = build.cutoff
      /\ build'.tmp = build.tmp /\ build'.seen = build.seen
      /\ build' \in Builds
  BY <1>1, GoldTypes DEF GoldInv, Builds
<1> HIDE DEF rows
<1>5. minute' \subseteq MinuteRow
  BY <1>1, <1>3, GoldTypes DEF GoldInv
<1>6. MartsTypeOK'
  BY <1>1, <1>4, <1>5 DEF GoldInv, MartsTypeOK
<1>7. UniqueGrain'
  <2>1. \A r, s \in rows : <<r.bucket, r.wiki>> = <<s.bucket, s.wiki>> => r = s
    <3> SUFFICES ASSUME NEW r \in rows, NEW s \in rows, r.bucket = s.bucket, r.wiki = s.wiki
                 PROVE  r = s
      OBVIOUS
    <3>1. r \in MinuteRow /\ s \in MinuteRow /\ r.cutoff = s.cutoff /\ r.events = s.events
      BY <1>3
    <3> QED BY <3>1 DEF MinuteRow
  <2>2. \A r, s \in minute : <<r.bucket, r.wiki>> = <<s.bucket, s.wiki>> => r = s
    BY DEF GoldInv, UniqueGrain
  <2> QED BY <1>1, <2>1, <2>2 DEF UniqueGrain
<1>8. NeverOvercounts'
  <2> SUFFICES ASSUME NEW r \in minute'
               PROVE  r.events <= Events(1..Len(silver), r.bucket, r.wiki)
    BY <1>1 DEF NeverOvercounts, Events
  <2>1. CASE r \in minute
    BY <2>1 DEF GoldInv, NeverOvercounts
  <2>2. CASE r \in rows
    BY <1>2, <1>3, <2>2, EventsGrow
  <2> QED BY <1>1, <2>1, <2>2
<1>9. AllEdited' /\ Room' /\ ContiguousIn(top)' /\ ContiguousIn(build.tmp)' /\ DeleteInsert'
  BY <1>1, <1>4 DEF GoldInv, AllEdited, Room, ContiguousIn, DeleteInsert
<1> QED BY <1>1, <1>4, <1>6, <1>7, <1>8, <1>9 DEF GoldInv

(* The three statements of delete+insert. *)
LEMMA DeleteInsertKeepsGold ==
    ASSUME GoldInv, SelectTop \/ DeleteTop \/ InsertTop, UNCHANGED silverVars
    PROVE  GoldInv'
<1>1. UNCHANGED <<minute, dim, clock, silver, batch>>
  BY DEF SelectTop, DeleteTop, InsertTop, silverVars, goldVars
<1>2. AllEdited' /\ Room' /\ UniqueGrain' /\ NeverOvercounts'
  BY <1>1 DEF GoldInv, AllEdited, Room, UniqueGrain, NeverOvercounts, Events
<1>3. SUFFICES /\ top' \subseteq TopRow
               /\ build' \in Builds
               /\ build'.cutoff = build.cutoff /\ build'.seen = build.seen
               /\ ContiguousIn(top') /\ ContiguousIn(build'.tmp) /\ DeleteInsert'
  <2>1. ContiguousIn(top)' = ContiguousIn(top') /\ ContiguousIn(build.tmp)' = ContiguousIn(build'.tmp)
    BY DEF ContiguousIn
  <2> QED BY <1>1, <1>2, <2>1 DEF GoldInv, MartsTypeOK
<1>4. CASE SelectTop
  <2> DEFINE tmp == TopRows(Titled(Boundary(top)))
  <2>1. /\ "top_tmp" \in build.todo /\ top' = top
        /\ build' = [build EXCEPT !.todo = @ \ {"top_tmp"}, !.tmp = tmp]
    BY <1>4 DEF SelectTop, Running, goldVars
  <2>2. Titled(Boundary(top)) \in SUBSET (1..Len(silver)) /\ silver \in Seq(Row)
    BY GoldTypes DEF GoldInv, Titled
  <2>3. tmp \subseteq TopRow
    BY <2>2, SelectedRows
  <2>4. ContiguousIn(tmp)
    BY <2>2, SelectedAreContiguous DEF GoldInv
  <2> HIDE DEF tmp
  <2>5. /\ build' \in Builds
        /\ build'.todo = build.todo \ {"top_tmp"} /\ build'.tmp = tmp
        /\ build'.cutoff = build.cutoff /\ build'.seen = build.seen
    BY <2>1, <2>3, GoldTypes DEF GoldInv, Builds
  <2>6. DeleteInsert'
    BY <2>1, <2>5 DEF GoldInv, DeleteInsert
  <2> QED BY <2>1, <2>4, <2>5, <2>6, GoldTypes DEF GoldInv
<1>5. CASE DeleteTop
  <2>1. /\ "top_delete" \in build.todo /\ "top_tmp" \notin build.todo
        /\ top' = { r \in top : \A n \in build.tmp : r.bucket # n.bucket }
        /\ build' = [build EXCEPT !.todo = @ \ {"top_delete"}]
    BY <1>5 DEF DeleteTop, Running, Done
  <2>2. /\ build' \in Builds
        /\ build'.todo = build.todo \ {"top_delete"} /\ build'.tmp = build.tmp
        /\ build'.cutoff = build.cutoff /\ build'.seen = build.seen
    BY <2>1, GoldTypes DEF GoldInv, Builds
  <2>3. ContiguousIn(top')
    BY <2>1, BucketsDropped DEF GoldInv
  <2>4. DeleteInsert'
    BY <2>1, <2>2 DEF GoldInv, DeleteInsert
  <2> QED BY <2>1, <2>2, <2>3, <2>4, GoldTypes DEF GoldInv
<1>6. CASE InsertTop
  <2>1. /\ "top_delete" \notin build.todo
        /\ top' = top \cup build.tmp
        /\ build' = [build EXCEPT !.todo = @ \ {"top_insert"}, !.tmp = {}]
    BY <1>6 DEF InsertTop, Running
  <2>2. /\ build' \in Builds
        /\ build'.todo = build.todo \ {"top_insert"} /\ build'.tmp = {}
        /\ build'.cutoff = build.cutoff /\ build'.seen = build.seen
    BY <2>1, GoldTypes DEF GoldInv, Builds
  <2>3. ContiguousIn(top')
    BY <2>1, BucketsApart DEF GoldInv, DeleteInsert
  <2>4. ContiguousIn(build'.tmp)
    BY <2>2 DEF ContiguousIn
  <2>5. DeleteInsert'
    BY <2>1, <2>2 DEF GoldInv, DeleteInsert
  <2> QED BY <2>1, <2>2, <2>3, <2>4, <2>5, GoldTypes DEF GoldInv
<1> QED BY <1>4, <1>5, <1>6

(* Steps that write neither mart. *)
LEMMA MartsLeft ==
    ASSUME GoldInv, UNCHANGED <<silverVars, minute, top>>, dim' \subseteq DimRow,
           build' \in Builds,
           build'.cutoff <= clock, build'.seen <= Len(silver),
           build'.tmp = {} \/ build'.tmp = build.tmp, DeleteInsert'
    PROVE  GoldInv'
<1>1. MartsTypeOK' /\ AllEdited' /\ Room'
  BY DEF GoldInv, MartsTypeOK, AllEdited, Room, silverVars
<1>2. UniqueGrain' /\ NeverOvercounts'
  BY DEF GoldInv, UniqueGrain, NeverOvercounts, Events, silverVars
<1>3. ContiguousIn(top)' /\ ContiguousIn(build.tmp)'
  <2>1. ContiguousIn(build'.tmp)
    BY DEF GoldInv, ContiguousIn
  <2> QED BY <2>1 DEF GoldInv, ContiguousIn
<1> QED BY <1>1, <1>2, <1>3 DEF GoldInv, silverVars

(* A build starts over with an empty temporary table, and a dead or a      *)
(* finished one leaves none.                                               *)
LEMMA StartAndEndKeepGold ==
    ASSUME GoldInv, StartBuild \/ build' = NoBuild, UNCHANGED <<silverVars, goldVars>>
    PROVE  GoldInv'
<1>1. /\ clock \in 0..MaxClock /\ Len(silver) \in 0..MaxRows /\ dim \subseteq DimRow
      /\ 0 <= clock /\ 0 <= Len(silver) /\ clock \in Nat /\ MaxRows \in Nat /\ MaxClock \in Nat
  BY GoldTypes, MartsSettings DEF GoldInv, Room
<1>2. CASE StartBuild
  <2>1. build' = [todo |-> Statements, cutoff |-> clock, tmp |-> {}, failed |-> {}, red |-> {},
                seen |-> Len(silver)]
    BY <1>2 DEF StartBuild, NoBuild
  <2>2. build' \in Builds
    BY <1>1, <2>1 DEF Builds
  <2>3. DeleteInsert'
    BY <2>1 DEF DeleteInsert, Statements
  <2> QED BY <1>1, <2>1, <2>2, <2>3, MartsLeft DEF goldVars
<1>3. CASE build' = NoBuild
  <2>1. build' = [todo |-> {}, cutoff |-> 0, tmp |-> {}, failed |-> {}, red |-> {}, seen |-> 0]
    BY <1>3 DEF NoBuild
  <2>2. build' \in Builds
    BY <1>1, <2>1 DEF Builds
  <2>3. DeleteInsert'
    BY <2>1 DEF DeleteInsert
  <2> QED BY <1>1, <2>1, <2>2, <2>3, MartsLeft DEF goldVars
<1> QED BY <1>2, <1>3

(* The dimension and the tests write neither mart. *)
LEMMA RestKeepsGold ==
    ASSUME GoldInv, RebuildDim \/ RunTests, UNCHANGED silverVars
    PROVE  GoldInv'
<1>1. CASE RebuildDim
  <2>1. /\ dim' = { [wiki |-> silver[i].wiki, built_through |-> build.cutoff] : i \in Source }
        /\ build' = [build EXCEPT !.todo = @ \ {"dim"}] /\ UNCHANGED <<minute, top>>
    BY <1>1 DEF RebuildDim, Done
  <2>2. \A i \in Source : silver[i].wiki \in Wikis
    BY GoldTypes DEF GoldInv, Row
  <2>3. dim' \subseteq DimRow
    BY <2>1, <2>2, GoldTypes DEF GoldInv, DimRow
  <2>4. /\ build' \in Builds
        /\ build'.todo = build.todo \ {"dim"} /\ build'.tmp = build.tmp
        /\ build'.cutoff = build.cutoff /\ build'.seen = build.seen
    BY <2>1, GoldTypes DEF GoldInv, Builds
  <2>5. DeleteInsert'
    BY <2>1, <2>4 DEF GoldInv, DeleteInsert
  <2> QED BY <2>1, <2>3, <2>4, <2>5, MartsLeft DEF GoldInv
<1>2. CASE RunTests
  <2>1. /\ build' = [todo |-> {}, cutoff |-> 0, tmp |-> {}, failed |-> build.failed, red |-> Red,
                    seen |-> 0]
        /\ UNCHANGED goldVars
    BY <1>2 DEF RunTests, NoBuild
  <2>2. Red \subseteq Tests /\ build.failed \subseteq Models
    BY GoldTypes DEF Red, GoldInv
  <2>3. /\ 0 \in 0..MaxClock /\ 0 \in 0..MaxRows /\ 0 <= clock /\ 0 <= Len(silver)
        /\ dim \subseteq DimRow
    BY GoldTypes, MartsSettings DEF GoldInv
  <2>4. build' \in Builds
    BY <2>1, <2>2, <2>3 DEF Builds
  <2>5. DeleteInsert'
    BY <2>1 DEF DeleteInsert
  <2> QED BY <2>1, <2>3, <2>4, <2>5, MartsLeft DEF goldVars
<1> QED BY <1>1, <1>2

(* A statement that fails writes nothing, and the model's others are not   *)
(* run: delete+insert ends before any of its three.                        *)
LEMMA FailureKeepsGold ==
    ASSUME GoldInv, NEW m \in Models, ModelFails(m), UNCHANGED silverVars
    PROVE  GoldInv'
<1>1. /\ UNCHANGED goldVars
      /\ build' = [build EXCEPT !.todo = @ \ StatementsOf(m), !.failed = @ \cup {m},
                                !.tmp = IF m = "top" THEN {} ELSE @]
  BY DEF ModelFails
<1>2. /\ build' \in Builds
      /\ build'.todo = build.todo \ StatementsOf(m)
      /\ build'.tmp = IF m = "top" THEN {} ELSE build.tmp
      /\ build'.cutoff = build.cutoff /\ build'.seen = build.seen
  BY <1>1, GoldTypes DEF GoldInv, Builds
<1>3. DeleteInsert'
  <2>1. CASE m = "top"
    BY <1>2, <2>1 DEF DeleteInsert, StatementsOf
  <2>2. CASE m # "top"
    <3>1. \A t \in {"top_tmp", "top_delete", "top_insert"} :
            t \in build'.todo <=> t \in build.todo
      BY <1>2, <2>2 DEF StatementsOf, Models
    <3> QED BY <1>1, <1>2, <2>2, <3>1 DEF GoldInv, DeleteInsert, goldVars
  <2> QED BY <2>1, <2>2
<1> QED BY <1>1, <1>2, <1>3, GoldTypes, MartsLeft DEF GoldInv, goldVars

(* Empty tables claim nothing. *)
LEMMA GoldInvInit == Init => GoldInv
<1> SUFFICES ASSUME Init PROVE GoldInv
  OBVIOUS
<1>1. /\ clock = 0 /\ silver = <<>> /\ batch = {} /\ minute = {} /\ top = {} /\ dim = {}
      /\ build = [todo |-> {}, cutoff |-> 0, tmp |-> {}, failed |-> {}, red |-> {}, seen |-> 0]
  BY DEF Init, MartsInit, NoBatch, NoBuild
<1>2. 0 \in 0..MaxClock /\ 0 \in 0..MaxRows /\ MaxRows \in Nat
  BY MartsSettings
<1>3. MartsTypeOK
  BY <1>1, <1>2 DEF MartsTypeOK, Builds
<1>4. AllEdited /\ Room
  BY <1>1, <1>2 DEF AllEdited, Room
<1>5. build.cutoff <= clock /\ build.seen <= Len(silver)
  BY <1>1
<1> QED BY <1>1, <1>3, <1>4, <1>5
        DEF GoldInv, UniqueGrain, NeverOvercounts, ContiguousIn, DeleteInsert

(* Every statement, and death between any two, keeps counts and ranks.     *)
LEMMA GoldInvStep == GoldInv /\ [Next]_vars => GoldInv'
<1> SUFFICES ASSUME GoldInv, MartsStep PROVE GoldInv'
  BY StepOfMarts
<1>1. CASE SilverStep
  BY <1>1, SilverKeepsGold
<1>2. CASE (StartBuild /\ UNCHANGED <<silverVars, goldVars>>) \/ EndBuild
  BY <1>2, StartAndEndKeepGold DEF EndBuild
<1>3. CASE BuildStep /\ UNCHANGED silverVars
  BY <1>3, MergeKeepsGold, DeleteInsertKeepsGold, RestKeepsGold DEF BuildStep
<1>4. CASE \E m \in Models : ModelFails(m) /\ UNCHANGED silverVars
  BY <1>4, FailureKeepsGold
<1>5. CASE UNCHANGED martsVars
  <2>1. UNCHANGED <<silverVars, minute, top, dim, build>>
    BY <1>5 DEF martsVars, goldVars
  <2>2. DeleteInsert'
    BY <2>1 DEF GoldInv, DeleteInsert
  <2> QED BY <2>1, <2>2, GoldTypes, MartsLeft DEF GoldInv
<1> QED BY <1>1, <1>2, <1>3, <1>4, <1>5 DEF MartsStep

(* GoldInv holds in every reachable state. *)
LEMMA AlwaysGoldInv == Spec => []GoldInv
BY GoldInvInit, GoldInvStep, PTL DEF Spec

(* No bucket of the minute mart ever claims more events than silver holds, *)
(* or has a second row: whatever is committed meanwhile, and wherever the  *)
(* builds before were killed.                                              *)
THEOREM MinuteNeverEverOvercounts == Spec => []MinuteNeverOvercounts
<1>1. GoldInv => MinuteNeverOvercounts
  BY DEF GoldInv, MinuteNeverOvercounts
<1> QED BY <1>1, AlwaysGoldInv, PTL

(* The ranks of a wiki's hour are 1..n at every instant, for any top_n,    *)
(* also between delete and insert and after a build that died there.       *)
THEOREM RanksAlwaysContiguous == Spec => []RanksContiguous
<1>1. GoldInv => RanksContiguous
  BY DEF GoldInv, RanksContiguous, Contiguous, ContiguousIn
<1> QED BY <1>1, AlwaysGoldInv, PTL

-----------------------------------------------------------------------------
(* What a running build has covered.                                       *)

(* The least number of a set of numbers, and the greatest of one that has  *)
(* a bound.                                                                *)
LEMMA LeastOf ==
    ASSUME NEW S \in SUBSET Nat, S # {}
    PROVE  Min(S) \in S /\ \A y \in S : Min(S) <= y
<1> DEFINE Below == { ss \in Nat \X Nat : ss[1] < ss[2] }
<1>1. IsWellFoundedOn(Below, Nat)
  BY NatLessThanWellFounded DEF OpToRel
<1>2. \A x, y \in Nat : y < x => <<y, x>> \in Below
  OBVIOUS
<1> HIDE DEF Below
<1>3. PICK x \in S : \A y \in S : ~(<<y, x>> \in Below)
  BY <1>1, WFMin
<1>4. \A y \in S : x <= y
  <2> SUFFICES ASSUME NEW y \in S, y < x PROVE FALSE
    OBVIOUS
  <2> QED BY <1>2, <1>3
<1> QED BY <1>4 DEF Min

(* The greatest, as what is least below the bound.                         *)
LEMMA GreatestOf ==
    ASSUME NEW n \in Nat, NEW S \in SUBSET (0..n), S # {}
    PROVE  Max(S) \in S /\ \A y \in S : y <= Max(S)
<1> DEFINE T == { k \in Nat : \E x \in S : k = n - x }
<1>1. \A x \in S : n - x \in T
  OBVIOUS
<1>2. T \in SUBSET Nat /\ T # {}
  BY <1>1
<1>3. \A k \in T : \E x \in S : k = n - x
  OBVIOUS
<1> HIDE DEF T
<1>4. Min(T) \in T /\ \A j \in T : Min(T) <= j
  BY <1>2, LeastOf
<1>5. PICK x \in S : Min(T) = n - x
  BY <1>3, <1>4
<1>6. \A y \in S : x >= y
  BY <1>1, <1>4, <1>5
<1> QED BY <1>6 DEF Max

(* The newest bucket of a table is one it has, and none is newer. *)
LEMMA NewestIs ==
    ASSUME NEW T, \A r \in T : r.bucket \in Buckets
    PROVE  /\ Newest(T) \in Int
           /\ \A r \in T : r.bucket <= Newest(T)
           /\ T # {} => \E r \in T : r.bucket = Newest(T)
<1>1. CASE T = {}
  BY <1>1 DEF Newest, Epoch
<1>2. CASE T # {}
  <2> DEFINE S == { r.bucket : r \in T }
             n == MaxClock + Ahead
  <2>1. n \in Nat /\ S \in SUBSET (0..n) /\ S # {}
    BY <1>2, MartsSettings DEF Buckets
  <2>2. Newest(T) = Max(S)
    BY <1>2 DEF Newest
  <2>3. \A r \in T : r.bucket \in S
    OBVIOUS
  <2>4. \A x \in S : x \in Int /\ \E r \in T : r.bucket = x
    BY <2>1
  <2> HIDE DEF S, n
  <2>5. Max(S) \in S /\ \A y \in S : y <= Max(S)
    BY <2>1, GreatestOf
  <2> QED BY <2>2, <2>3, <2>4, <2>5
<1> QED BY <1>1, <1>2

(* A gold row has its wiki from an edit that was ingested before its       *)
(* cutoff, and no cutoff is later than the running build's.                *)
Backed == \A r \in minute \cup top \cup build.tmp :
             /\ r.cutoff <= clock
             /\ build.todo # {} => r.cutoff <= build.cutoff
             /\ \E i \in 1..Len(silver) : silver[i].wiki = r.wiki /\ silver[i].at < r.cutoff

(* What each model has done for the edits the build could see, once its    *)
(* statements are through and none has failed.                             *)
DimCovers == "dim" \notin build.todo \cup build.failed =>
                 \A i \in Visible : \E d \in dim : d.wiki = silver[i].wiki

MinuteCovers == "minute" \notin build.todo \cup build.failed =>
                    /\ Visible # {} => minute # {}
                    /\ \A w : Counted(Newest(minute), w)

TopCovers == /\ "top_tmp" \notin build.todo /\ "top" \notin build.failed
             /\ Titled(Visible) # {}
             => top # {} \/ build.tmp # {}

Covers == build.todo # {} => DimCovers /\ MinuteCovers /\ TopCovers

BuildInv == Backed /\ Covers

(* While a build runs, silver only grows behind what it could see.         *)
LEMMA VisibleStays ==
    ASSUME GoldInv, SilverStep
    PROVE  /\ UNCHANGED goldVars /\ UNCHANGED build /\ clock <= clock' /\ clock' \in Nat
           /\ \A i \in 1..Len(silver) : i \in 1..Len(silver') /\ silver'[i] = silver[i]
           /\ Visible' = Visible /\ Titled(Visible)' = Titled(Visible)
           /\ \A b, w : Events(Visible, b, w)' = Events(Visible, b, w)
<1>1. /\ clock \in Nat /\ MaxClock \in Nat /\ silver \in Seq(Row) /\ batch \subseteq Row
      /\ Len(silver) \in Nat /\ build.seen \in Nat /\ build.seen <= Len(silver)
  BY GoldTypes, MartsSettings DEF GoldInv
<1>2. CASE Tick \/ PlanRow
  <2>1. /\ UNCHANGED <<goldVars, build, silver>> /\ clock <= clock' /\ clock' \in Nat
    BY <1>1, <1>2 DEF Tick, PlanRow
  <2> QED BY <2>1 DEF Visible, Meant, Events, Titled
<1>3. CASE CommitRow
  <2>1. UNCHANGED <<clock, goldVars, build>> /\ \E r \in batch : silver' = Append(silver, r)
    BY <1>3 DEF CommitRow
  <2>2. PICK r \in batch : silver' = Append(silver, r)
    BY <2>1
  <2>3. /\ Len(silver') = Len(silver) + 1
        /\ \A i \in 1..Len(silver) : i \in 1..Len(silver') /\ silver'[i] = silver[i]
        /\ \A I \in SUBSET (1..Len(silver)) : \A b, w : Events(I, b, w)' = Events(I, b, w)
    BY <1>1, <2>2, SilverGrows
  <2>4. Visible \in SUBSET (1..Len(silver))
    BY DEF Visible, Meant
  <2>5. \A i : i \in 1..build.seen => i \in 1..Len(silver) /\ i \in 1..Len(silver')
    BY <1>1, <2>3
  <2>6. Visible' = Visible
    BY <2>1, <2>3, <2>5 DEF Visible, Meant
  <2>7. \A b, w : Events(Visible, b, w)' = Events(Visible, b, w)
    BY <2>3, <2>4, <2>6 DEF Events
  <2>8. Titled(Visible)' = Titled(Visible)
    BY <2>3, <2>4, <2>6 DEF Titled
  <2> QED BY <1>1, <2>1, <2>3, <2>6, <2>7, <2>8
<1> QED BY <1>2, <1>3 DEF SilverStep

(* The silver stream takes nothing back that a build has covered. *)
LEMMA SilverKeepsBuild ==
    ASSUME GoldInv, BuildInv, SilverStep
    PROVE  BuildInv'
<1>1. /\ UNCHANGED <<minute, top, dim, build>> /\ clock <= clock' /\ clock' \in Nat
      /\ \A i \in 1..Len(silver) : i \in 1..Len(silver') /\ silver'[i] = silver[i]
      /\ Visible' = Visible /\ Titled(Visible)' = Titled(Visible)
      /\ \A b, w : Events(Visible, b, w)' = Events(Visible, b, w)
  BY VisibleStays DEF goldVars
<1>2. Backed'
  <2>1. /\ clock \in Nat /\ \A r \in minute \cup top \cup build.tmp : r.cutoff \in Nat
    BY GoldTypes, MartsSettings DEF GoldInv, MinuteRow, TopRow
  <2> QED BY <1>1, <2>1 DEF BuildInv, Backed
<1>3. ASSUME build.todo # {} PROVE DimCovers' /\ MinuteCovers' /\ TopCovers'
  <2>1. \A i \in Visible : i \in 1..Len(silver)
    BY DEF Visible, Meant
  <2>2. DimCovers'
    BY <1>1, <1>3, <2>1 DEF BuildInv, Covers, DimCovers
  <2>3. \A b, w : Counted(b, w)' = Counted(b, w)
    BY <1>1 DEF Counted
  <2>4. Newest(minute)' = Newest(minute)
    BY <1>1 DEF Newest
  <2>5. MinuteCovers'
    BY <1>1, <1>3, <2>3, <2>4 DEF BuildInv, Covers, MinuteCovers
  <2>6. TopCovers'
    BY <1>1, <1>3 DEF BuildInv, Covers, TopCovers
  <2> QED BY <2>2, <2>5, <2>6
<1> QED BY <1>1, <1>2, <1>3 DEF BuildInv, Covers

(* What a model selects is backed by the edits it read, and each group of  *)
(* those has its row.                                                      *)
LEMMA SelectedAreBacked ==
    ASSUME GoldInv, NEW T
    PROVE  /\ \A r \in MinuteRows(Boundary(T)) \cup TopRows(Titled(Boundary(T))) :
                 /\ r.cutoff = build.cutoff
                 /\ \E i \in 1..Len(silver) : silver[i].wiki = r.wiki /\ silver[i].at < r.cutoff
           /\ \A i \in Boundary(T) : \E r \in MinuteRows(Boundary(T)) :
                 r.bucket = silver[i].bucket /\ r.wiki = silver[i].wiki
<1> DEFINE I == Boundary(T)
           P == Titled(I)
<1>1. I \in SUBSET (1..Len(silver)) /\ \A i \in I : silver[i].at < build.cutoff
  BY DEF Boundary, Source, Within
<1>2. P \in SUBSET I /\ P \in SUBSET (1..Len(silver))
  BY <1>1 DEF Titled
<1> HIDE DEF I, P
<1>3. ASSUME NEW i \in I
      PROVE  \E r \in MinuteRows(I) : r.bucket = silver[i].bucket /\ r.wiki = silver[i].wiki
  <2> DEFINE r == [bucket |-> silver[i].bucket, wiki |-> silver[i].wiki,
                   events |-> Events(I, silver[i].bucket, silver[i].wiki),
                   cutoff |-> build.cutoff]
  <2>1. r \in MinuteRows(I)
    BY DEF MinuteRows
  <2>2. r.bucket = silver[i].bucket /\ r.wiki = silver[i].wiki
    OBVIOUS
  <2> QED BY <2>1, <2>2
<1>4. /\ \A r \in MinuteRows(I) : /\ r.cutoff = build.cutoff
                                  /\ \E i \in I : silver[i].wiki = r.wiki
      /\ \A r \in TopRows(P) : /\ r.cutoff = build.cutoff
                               /\ \E i \in P : silver[i].wiki = r.wiki
  BY <1>1, <1>2, SelectedRows
<1> QED BY <1>1, <1>2, <1>3, <1>4 DEF I, P

(* A statement of the running build leaves what it could see as it was.    *)
LEMMA SameView ==
    ASSUME UNCHANGED silverVars, build'.cutoff = build.cutoff, build'.seen = build.seen
    PROVE  /\ Visible' = Visible
           /\ \A I, b, w : Events(I, b, w)' = Events(I, b, w)
           /\ Titled(Visible)' = Titled(Visible)
BY DEF Visible, Meant, Events, Titled, silverVars

(* The merge counts, in the bucket that is the newest afterwards, all that *)
(* the build could see: the boundary bucket is taken in whole.             *)
LEMMA MergeKeepsBuild ==
    ASSUME GoldInv, BuildInv, MergeMinute, UNCHANGED silverVars
    PROVE  BuildInv'
<1> DEFINE I == Boundary(minute)
           rows == MinuteRows(I)
<1>1. /\ minute' = rows \cup
             { r \in minute : \A n \in rows : <<r.bucket, r.wiki>> # <<n.bucket, n.wiki>> }
      /\ build' = [build EXCEPT !.todo = @ \ {"minute"}] /\ "minute" \in build.todo
      /\ UNCHANGED <<top, dim, clock, silver, batch>>
  BY DEF MergeMinute, Done, Running, silverVars
<1>2. /\ build'.todo = build.todo \ {"minute"} /\ build'.cutoff = build.cutoff
      /\ build'.tmp = build.tmp /\ build'.seen = build.seen /\ build'.failed = build.failed
  BY <1>1, GoldTypes DEF GoldInv, Builds
<1>3. /\ I \in SUBSET (1..Len(silver)) /\ silver \in Seq(Row) /\ build.cutoff <= clock
      /\ Visible \in SUBSET (1..Len(silver))
      /\ \A i \in Visible : silver[i].bucket \in Nat /\ silver[i].at < build.cutoff
  <2>1. /\ \A i \in 1..Len(silver) : silver[i] \in Row
        /\ silver \in Seq(Row) /\ build.cutoff <= clock
        /\ I \in SUBSET (1..Len(silver))
    BY GoldTypes DEF GoldInv
  <2>2. \A s \in Row : s.bucket \in Nat
    BY MartsSettings DEF Row, Buckets
  <2> QED BY <2>1, <2>2 DEF Visible, Meant
<1>4. \A i \in Visible : silver[i].bucket >= Newest(minute) => i \in I
  BY <1>3 DEF Boundary, Source, Within
<1>5. /\ \A r \in rows : /\ r.cutoff = build.cutoff /\ r.events = Events(I, r.bucket, r.wiki)
                         /\ \E i \in 1..Len(silver) :
                              silver[i].wiki = r.wiki /\ silver[i].at < r.cutoff
      /\ \A i \in I : \E r \in rows : r.bucket = silver[i].bucket /\ r.wiki = silver[i].wiki
  BY <1>3, SelectedRows, SelectedAreBacked
<1>6. /\ \A r \in minute : r.bucket \in Buckets
      /\ \A r \in minute' : r.bucket \in Buckets
  BY MergeKeepsGold DEF GoldInv, MartsTypeOK, MinuteRow
<1>7. /\ Newest(minute) \in Int /\ \A r \in minute : r.bucket <= Newest(minute)
      /\ minute # {} => \E r \in minute : r.bucket = Newest(minute)
      /\ Newest(minute') \in Int /\ \A r \in minute' : r.bucket <= Newest(minute')
  BY <1>6, NewestIs
<1>8. Newest(minute)' = Newest(minute')
  BY DEF Newest
<1>9. /\ Visible' = Visible /\ Titled(Visible)' = Titled(Visible)
      /\ \A J, b, w : Events(J, b, w)' = Events(J, b, w)
  BY <1>2, SameView
<1> HIDE DEF rows, I
<1>10. \A r \in minute : \E s \in minute' : s.bucket = r.bucket
  BY <1>1
<1>11. minute # {} => Newest(minute) <= Newest(minute')
  <2> SUFFICES ASSUME minute # {} PROVE Newest(minute) <= Newest(minute')
    OBVIOUS
  <2>1. PICK r \in minute : r.bucket = Newest(minute)
    BY <1>7
  <2>2. PICK s \in minute' : s.bucket = r.bucket
    BY <1>10
  <2> QED BY <1>7, <2>1, <2>2
<1>12. minute = {} => \A i \in Visible : i \in I
  <2>1. minute = {} => Newest(minute) = -1
    BY DEF Newest, Epoch
  <2> QED BY <1>3, <1>4, <2>1
<1>13. Visible # {} => minute' # {}
  BY <1>1, <1>5, <1>10, <1>12
<1>14. ASSUME NEW w, Events(Visible, Newest(minute'), w) > 0
       PROVE  \E r \in minute' : /\ r.bucket = Newest(minute') /\ r.wiki = w
                                 /\ r.events >= Events(Visible, Newest(minute'), w)
  <2> DEFINE b == Newest(minute')
             J == { i \in Visible : silver[i].bucket = b }
  <2>1. \A i \in Visible : silver[i].bucket = b => i \in I
    BY <1>3, <1>4, <1>7, <1>11, <1>12
  <2>2. J \in SUBSET I /\ J \in SUBSET Visible
    BY <2>1
  <2>3. Events(Visible, b, w) = Events(J, b, w)
    BY DEF Events
  <2>4. Events(I, b, w) \in Nat /\ Events(J, b, w) \in Nat /\ Events(J, b, w) <= Events(I, b, w)
    BY <1>3, <2>2, EventsGrow
  <2>5. PICK i \in Visible : silver[i].bucket = b /\ silver[i].wiki = w
    BY <1>3, <1>14, EventCounts
  <2>6. PICK r \in rows : r.bucket = b /\ r.wiki = w
    BY <1>5, <2>1, <2>5
  <2>7. r.events = Events(I, b, w) /\ r \in minute'
    BY <1>1, <1>5, <2>6
  <2> QED BY <2>3, <2>4, <2>6, <2>7
<1>15. MinuteCovers'
  <2>1. \A w : Counted(Newest(minute), w)'
    BY <1>8, <1>9, <1>14 DEF Counted
  <2> QED BY <1>9, <1>13, <2>1 DEF MinuteCovers
<1>16. DimCovers' /\ TopCovers'
  BY <1>1, <1>2, <1>9 DEF BuildInv, Covers, DimCovers, TopCovers
<1>17. Backed'
  <2> SUFFICES ASSUME NEW r \in minute' \cup top \cup build.tmp
               PROVE  /\ r.cutoff <= clock /\ r.cutoff <= build.cutoff
                      /\ \E i \in 1..Len(silver) :
                            silver[i].wiki = r.wiki /\ silver[i].at < r.cutoff
    BY <1>1, <1>2 DEF Backed
  <2>1. CASE r \in minute \cup top \cup build.tmp
    BY <1>1, <2>1 DEF BuildInv, Backed
  <2>2. CASE r \in rows
    <3>1. build.cutoff \in Int
      BY GoldTypes DEF GoldInv
    <3> QED BY <1>3, <1>5, <2>2, <3>1
  <2> QED BY <1>1, <2>1, <2>2
<1> QED BY <1>15, <1>16, <1>17 DEF BuildInv, Covers

(* delete+insert empties no mart that has something to insert, and keeps   *)
(* what it inserts backed.                                                 *)
LEMMA DeleteInsertKeepsBuild ==
    ASSUME GoldInv, BuildInv, SelectTop \/ DeleteTop \/ InsertTop, UNCHANGED silverVars
    PROVE  BuildInv'
<1>1. /\ UNCHANGED <<minute, dim, clock, silver, batch>> /\ build.todo # {}
      /\ build'.cutoff = build.cutoff /\ build'.seen = build.seen
      /\ build'.failed = build.failed
      /\ "minute" \in build'.todo <=> "minute" \in build.todo
      /\ "dim" \in build'.todo <=> "dim" \in build.todo
  BY GoldTypes DEF SelectTop, DeleteTop, InsertTop, Running, Done, silverVars, goldVars, GoldInv,
                   Builds
<1>2. /\ Visible' = Visible /\ Titled(Visible)' = Titled(Visible)
      /\ \A J, b, w : Events(J, b, w)' = Events(J, b, w)
  BY <1>1, SameView
<1>3. DimCovers'
  BY <1>1, <1>2 DEF BuildInv, Covers, DimCovers
<1>4. MinuteCovers'
  <2>1. Newest(minute)' = Newest(minute) /\ \A b, w : Counted(b, w)' = Counted(b, w)
    BY <1>1, <1>2 DEF Newest, Counted
  <2> QED BY <1>1, <1>2, <2>1 DEF BuildInv, Covers, MinuteCovers
<1>5. SUFFICES /\ \A r \in top' \cup build'.tmp :
                    /\ r.cutoff <= clock /\ r.cutoff <= build.cutoff
                    /\ \E i \in 1..Len(silver) : silver[i].wiki = r.wiki /\ silver[i].at < r.cutoff
               /\ TopCovers'
  <2> SUFFICES ASSUME \A r \in top' \cup build'.tmp :
                    /\ r.cutoff <= clock /\ r.cutoff <= build.cutoff
                    /\ \E i \in 1..Len(silver) : silver[i].wiki = r.wiki /\ silver[i].at < r.cutoff
               PROVE  Backed'
    BY <1>3, <1>4 DEF BuildInv, Covers
  <2> QED BY <1>1 DEF BuildInv, Backed
<1>6. \A r \in top \cup build.tmp :
         /\ r.cutoff <= clock /\ r.cutoff <= build.cutoff
         /\ \E i \in 1..Len(silver) : silver[i].wiki = r.wiki /\ silver[i].at < r.cutoff
  BY <1>1 DEF BuildInv, Backed
<1>7. CASE SelectTop
  <2> DEFINE tmp == TopRows(Titled(Boundary(top)))
  <2>1. /\ top' = top /\ build' = [build EXCEPT !.todo = @ \ {"top_tmp"}, !.tmp = tmp]
    BY <1>7 DEF SelectTop, goldVars
  <2>2. build'.tmp = tmp
    BY <2>1, GoldTypes DEF GoldInv
  <2>3. \A r \in tmp : /\ r.cutoff = build.cutoff
                       /\ \E i \in 1..Len(silver) :
                            silver[i].wiki = r.wiki /\ silver[i].at < r.cutoff
    BY SelectedAreBacked
  <2>4. build.cutoff <= clock /\ build.cutoff \in Int
    BY GoldTypes DEF GoldInv
  <2>5. ASSUME Titled(Visible) # {}, top = {} PROVE tmp # {}
    <3>1. Newest(top) = 0 - 1
      BY <2>5 DEF Newest, Epoch
    <3>2. \A i \in 1..Len(silver) : silver[i].bucket \in Nat
      <4>1. \A i \in 1..Len(silver) : silver[i] \in Row
        BY GoldTypes DEF GoldInv
      <4> QED BY <4>1, MartsSettings DEF Row, Buckets
    <3>3. Visible \subseteq Boundary(top)
      BY <3>1, <3>2 DEF Visible, Meant, Boundary, Source, Within
    <3>4. /\ Titled(Boundary(top)) # {}
          /\ Titled(Boundary(top)) \in SUBSET (1..Len(silver))
      BY <2>5, <3>3, GoldTypes DEF GoldInv, Titled
    <3> QED BY <3>4, SomebodyIsFirst, GoldTypes DEF GoldInv
  <2>6. TopCovers'
    BY <1>2, <2>1, <2>2, <2>5 DEF TopCovers
  <2> HIDE DEF tmp
  <2> QED BY <1>6, <2>1, <2>2, <2>3, <2>4, <2>6
<1>8. CASE DeleteTop
  <2>1. /\ top' = { r \in top : \A n \in build.tmp : r.bucket # n.bucket }
        /\ build' = [build EXCEPT !.todo = @ \ {"top_delete"}]
        /\ "top_tmp" \notin build.todo
    BY <1>8 DEF DeleteTop, Running, Done
  <2>2. build'.tmp = build.tmp
    BY <2>1, GoldTypes DEF GoldInv
  <2>3. top # {} => top' # {} \/ build.tmp # {}
    BY <2>1
  <2>4. TopCovers'
    BY <1>1, <1>2, <2>1, <2>2, <2>3 DEF BuildInv, Covers, TopCovers
  <2> QED BY <1>6, <2>1, <2>2, <2>4
<1>9. CASE InsertTop
  <2>1. /\ top' = top \cup build.tmp
        /\ build' = [build EXCEPT !.todo = @ \ {"top_insert"}, !.tmp = {}]
    BY <1>9 DEF InsertTop
  <2>2. /\ build'.tmp = {}
        /\ "top_tmp" \in build'.todo <=> "top_tmp" \in build.todo
    BY <2>1, GoldTypes DEF GoldInv
  <2>3. TopCovers'
    BY <1>1, <1>2, <2>1, <2>2 DEF BuildInv, Covers, TopCovers
  <2> QED BY <1>6, <2>1, <2>2, <2>3
<1> QED BY <1>7, <1>8, <1>9

(* The dimension is rebuilt over everything the build can see. *)
LEMMA RebuildKeepsBuild ==
    ASSUME GoldInv, BuildInv, RebuildDim, UNCHANGED silverVars
    PROVE  BuildInv'
<1>1. /\ dim' = { [wiki |-> silver[i].wiki, built_through |-> build.cutoff] : i \in Source }
      /\ build' = [build EXCEPT !.todo = @ \ {"dim"}] /\ build.todo # {}
      /\ UNCHANGED <<minute, top, clock, silver, batch>>
  BY DEF RebuildDim, Done, Running, silverVars
<1>2. /\ build'.cutoff = build.cutoff /\ build'.seen = build.seen /\ build'.tmp = build.tmp
      /\ build'.todo = build.todo \ {"dim"} /\ build'.failed = build.failed
  BY <1>1, GoldTypes DEF GoldInv, Builds
<1>3. /\ Visible' = Visible /\ Titled(Visible)' = Titled(Visible)
      /\ \A J, b, w : Events(J, b, w)' = Events(J, b, w)
  BY <1>2, SameView
<1>4. Backed'
  BY <1>1, <1>2 DEF BuildInv, Backed
<1>5. DimCovers'
  <2> SUFFICES ASSUME NEW i \in Visible PROVE \E d \in dim' : d.wiki = silver[i].wiki
    BY <1>1, <1>3 DEF DimCovers
  <2>1. i \in Source
    BY DEF Visible, Meant, Source, Within
  <2> DEFINE d == [wiki |-> silver[i].wiki, built_through |-> build.cutoff]
  <2>2. d \in dim' /\ d.wiki = silver[i].wiki
    BY <1>1, <2>1
  <2> QED BY <2>2
<1>6. MinuteCovers'
  <2>1. Newest(minute)' = Newest(minute) /\ \A b, w : Counted(b, w)' = Counted(b, w)
    BY <1>1, <1>3 DEF Newest, Counted
  <2> QED BY <1>1, <1>2, <1>3, <2>1 DEF BuildInv, Covers, MinuteCovers
<1>7. TopCovers'
  BY <1>1, <1>2, <1>3 DEF BuildInv, Covers, TopCovers
<1> QED BY <1>4, <1>5, <1>6, <1>7 DEF BuildInv, Covers

(* A model that failed covers nothing, and takes nothing from the others. *)
LEMMA FailureKeepsBuild ==
    ASSUME GoldInv, BuildInv, NEW m \in Models, ModelFails(m), UNCHANGED silverVars
    PROVE  BuildInv'
<1>1. /\ UNCHANGED <<minute, top, dim, clock, silver, batch>> /\ build.todo # {}
      /\ build' = [build EXCEPT !.todo = @ \ StatementsOf(m), !.failed = @ \cup {m},
                                !.tmp = IF m = "top" THEN {} ELSE @]
  BY DEF ModelFails, goldVars, silverVars
<1>2. /\ build'.todo = build.todo \ StatementsOf(m) /\ build'.failed = build.failed \cup {m}
      /\ build'.tmp = IF m = "top" THEN {} ELSE build.tmp
      /\ build'.cutoff = build.cutoff /\ build'.seen = build.seen
  BY <1>1, GoldTypes DEF GoldInv, Builds
<1>3. /\ Visible' = Visible /\ Titled(Visible)' = Titled(Visible)
      /\ \A J, b, w : Events(J, b, w)' = Events(J, b, w)
  BY <1>2, SameView
<1>4. Newest(minute)' = Newest(minute) /\ \A b, w : Counted(b, w)' = Counted(b, w)
  BY <1>1, <1>3 DEF Newest, Counted
<1>5. \A t : t \in build.todo => t \in build'.todo \/ t \in StatementsOf(m)
  BY <1>2
<1>6. DimCovers'
  BY <1>1, <1>2, <1>3, <1>5 DEF BuildInv, Covers, DimCovers, StatementsOf, Models
<1>7. MinuteCovers'
  BY <1>1, <1>2, <1>3, <1>4, <1>5 DEF BuildInv, Covers, MinuteCovers, StatementsOf, Models
<1>8. TopCovers'
  <2>1. CASE m = "top"
    BY <1>2, <2>1 DEF TopCovers
  <2>2. CASE m # "top"
    <3>1. "top_tmp" \in build.todo => "top_tmp" \in build'.todo
      BY <1>5, <2>2 DEF StatementsOf, Models
    <3> QED BY <1>1, <1>2, <1>3, <2>2, <3>1 DEF BuildInv, Covers, TopCovers
  <2> QED BY <2>1, <2>2
<1>9. Backed'
  BY <1>1, <1>2 DEF BuildInv, Backed
<1> QED BY <1>6, <1>7, <1>8, <1>9 DEF BuildInv, Covers

(* A build starts with everything to do and a cutoff no row is ahead of;   *)
(* where none runs there is nothing to cover.                              *)
LEMMA StartAndEndKeepBuild ==
    ASSUME GoldInv, BuildInv, StartBuild \/ (build'.todo = {} /\ build'.tmp = {}),
           UNCHANGED <<silverVars, goldVars>>
    PROVE  BuildInv'
<1>1. UNCHANGED <<minute, top, dim, clock, silver>>
  BY DEF silverVars, goldVars
<1>2. /\ build'.tmp = {}
      /\ build'.todo = {} \/ (build'.todo = Statements /\ build'.cutoff = clock)
  BY DEF StartBuild, NoBuild
<1>3. Backed'
  BY <1>1, <1>2 DEF BuildInv, Backed
<1>4. Covers'
  BY <1>2 DEF Covers, DimCovers, MinuteCovers, TopCovers, Statements
<1> QED BY <1>3, <1>4 DEF BuildInv

(* Nothing is covered and nothing claimed. *)
LEMMA BuildInvInit == Init => BuildInv
BY DEF Init, MartsInit, NoBuild, BuildInv, Backed, Covers

(* Every statement, and death between any two, keeps BuildInv.             *)
LEMMA BuildInvStep == GoldInv /\ BuildInv /\ [Next]_vars => BuildInv'
<1> SUFFICES ASSUME GoldInv, BuildInv, MartsStep PROVE BuildInv'
  BY StepOfMarts
<1>1. CASE SilverStep
  BY <1>1, SilverKeepsBuild
<1>2. CASE (StartBuild /\ UNCHANGED <<silverVars, goldVars>>) \/ EndBuild
  BY <1>2, StartAndEndKeepBuild DEF EndBuild, NoBuild
<1>3. CASE RunTests /\ UNCHANGED silverVars
  <2>1. build'.todo = {} /\ build'.tmp = {} /\ UNCHANGED goldVars
    BY <1>3 DEF RunTests, NoBuild
  <2> QED BY <1>3, <2>1, StartAndEndKeepBuild
<1>4. CASE BuildStep /\ ~RunTests /\ UNCHANGED silverVars
  BY <1>4, MergeKeepsBuild, DeleteInsertKeepsBuild, RebuildKeepsBuild DEF BuildStep
<1>5. CASE \E m \in Models : ModelFails(m) /\ UNCHANGED silverVars
  BY <1>5, FailureKeepsBuild
<1>6. CASE UNCHANGED martsVars
  <2>1. UNCHANGED <<silverVars, clock, silver, minute, top, dim, build>>
    BY <1>6 DEF martsVars, silverVars, goldVars
  <2>2. /\ Visible' = Visible /\ Titled(Visible)' = Titled(Visible)
        /\ \A I, b, w : Events(I, b, w)' = Events(I, b, w)
    BY <2>1, SameView
  <2>3. Newest(minute)' = Newest(minute) /\ \A b, w : Counted(b, w)' = Counted(b, w)
    BY <2>1, <2>2 DEF Newest, Counted
  <2>4. Backed'
    BY <2>1 DEF BuildInv, Backed
  <2>5. DimCovers' = DimCovers /\ MinuteCovers' = MinuteCovers /\ TopCovers' = TopCovers
    BY <2>1, <2>2, <2>3 DEF DimCovers, MinuteCovers, TopCovers
  <2> QED BY <2>1, <2>4, <2>5 DEF BuildInv, Covers
<1> QED BY <1>1, <1>2, <1>3, <1>4, <1>5, <1>6 DEF MartsStep

(* BuildInv holds in every reachable state. *)
LEMMA AlwaysBuildInv == Spec => []BuildInv
BY BuildInvInit, BuildInvStep, AlwaysGoldInv, PTL DEF Spec

(* A build, its tests due, that could see all it was meant to read: if the *)
(* dimension did not fail, it knows every wiki of the other marts.         *)
LEMMA AllSeenAllKnown ==
    ASSUME GoldInv, BuildInv, build.todo = {"tests"}, "dim" \notin build.failed,
           Meant \subseteq Visible
    PROVE  WikisKnown(minute) /\ WikisKnown(top)
<1> SUFFICES ASSUME NEW r \in minute \cup top PROVE \E d \in dim : d.wiki = r.wiki
  BY DEF WikisKnown
<1>1. r.cutoff <= build.cutoff /\ r.cutoff \in Int /\ build.cutoff \in Int
  BY GoldTypes DEF GoldInv, BuildInv, Backed, MinuteRow, TopRow
<1>2. PICK i \in 1..Len(silver) : silver[i].wiki = r.wiki /\ silver[i].at < r.cutoff
  BY DEF BuildInv, Backed
<1>3. silver[i].at \in Int
  BY GoldTypes DEF GoldInv, Row
<1>4. i \in Visible
  BY <1>1, <1>2, <1>3 DEF Meant
<1> QED BY <1>2, <1>4 DEF BuildInv, Covers, DimCovers

(* A red test means a straggler: only those of relationships can be red,   *)
(* and only for a row whose batch was planned before the build started and *)
(* committed while it ran, whatever failed in this build or an earlier one.*)
THEOREM RedOnlyForStragglers == Spec => BuildRedMeansStraggler
<1>1. GoldInv /\ BuildInv /\ [Next]_vars =>
        [Ending /\ build'.red # {} => Meant \ Visible # {}]_martsVars
  <2> SUFFICES ASSUME GoldInv, BuildInv, MartsStep, Ending, build'.red # {}
               PROVE  Meant \ Visible # {}
    BY StepOfMarts
  <2>1. RunTests
    <3>1. ~SilverStep /\ ~UNCHANGED martsVars
      BY DEF Ending, SilverStep, Tick, PlanRow, CommitRow, martsVars
    <3>2. ~StartBuild /\ ~EndBuild
      <4>1. StartBuild => build'.todo = Statements
        BY DEF StartBuild, NoBuild
      <4>2. EndBuild => build'.red = {}
        BY DEF EndBuild, NoBuild
      <4>3. build'.todo # Statements
        BY DEF Ending, Statements
      <4> QED BY <4>1, <4>2, <4>3
    <3>3. ~MergeMinute /\ ~SelectTop /\ ~DeleteTop /\ ~InsertTop /\ ~RebuildDim
      BY DEF Ending, MergeMinute, SelectTop, DeleteTop, InsertTop, RebuildDim, Running
    <3>4. \A m \in Models : ~ModelFails(m)
      BY DEF Ending, ModelFails, Models, StatementsOf
    <3> QED BY <3>1, <3>2, <3>3, <3>4 DEF MartsStep, BuildStep
  <2>2. build'.red = Red
    BY <2>1 DEF RunTests, NoBuild
  <2>3. UniqueGrain /\ NeverOvercounts /\ Contiguous
    BY DEF GoldInv, Contiguous, ContiguousIn
  <2>4. PICK t \in {"minute_wikis", "top_wikis"} :
          Reads(t) \cap build.failed = {} /\ (~WikisKnown(minute) \/ ~WikisKnown(top))
    BY <2>2, <2>3 DEF Red
  <2>5. "dim" \in Reads(t)
    BY DEF Reads
  <2> QED BY <2>4, <2>5, AllSeenAllKnown DEF Ending
<1> QED BY <1>1, AlwaysGoldInv, AlwaysBuildInv, PTL DEF Spec, BuildRedMeansStraggler

(* Whenever a build comes to its end in which no statement failed, the     *)
(* newest bucket of the minute mart counts every edit the build could see  *)
(* when it started, and no mart is empty if there was one of a titled page.*)
THEOREM NewestBucketAlwaysExact == Spec => NewestBucketExact
<1>1. GoldInv /\ BuildInv /\ [Next]_vars =>
        [Ending /\ build.failed = {} =>
           /\ Titled(Visible) # {} => marts_are_not_empty
           /\ \A w \in Wikis : Counted(Newest(minute), w)]_martsVars
  <2> SUFFICES ASSUME GoldInv, BuildInv, build.todo = {"tests"}, build.failed = {}
               PROVE  /\ Titled(Visible) # {} => marts_are_not_empty
                      /\ \A w \in Wikis : Counted(Newest(minute), w)
    BY DEF Ending
  <2>1. DimCovers /\ MinuteCovers /\ TopCovers
    BY DEF BuildInv, Covers
  <2>2. Titled(Visible) # {} => Visible # {}
    BY DEF Titled
  <2>3. Visible # {} => minute # {}
    BY <2>1 DEF MinuteCovers
  <2>4. Visible # {} => dim # {}
    BY <2>1 DEF DimCovers
  <2>5. Titled(Visible) # {} => top # {}
    BY <2>1 DEF TopCovers, GoldInv, DeleteInsert
  <2>6. \A w \in Wikis : Counted(Newest(minute), w)
    BY <2>1 DEF MinuteCovers
  <2> QED BY <2>2, <2>3, <2>4, <2>5, <2>6 DEF marts_are_not_empty
<1> QED BY <1>1, AlwaysGoldInv, AlwaysBuildInv, PTL DEF Spec, NewestBucketExact

-----------------------------------------------------------------------------
(* The runs, and the loop of maintain_gold.                                *)

(* Of the tables behind it the loop has compacted or failed each one.      *)
GoldUpkeepInv ==
    /\ DagsterTypeOK
    /\ kills \in Nat
    /\ upkeep.next # 0 =>
         upkeep.compacted \cup upkeep.failures = { GoldTables[i] : i \in 1..(upkeep.next - 1) }

(* GoldTables, listed. *)
LEMMA ThreeTables ==
    /\ Len(GoldTables) = 3
    /\ \A i \in 1..3 : GoldTables[i] \in Tables
    /\ Tables = { GoldTables[i] : i \in 1..3 }
BY DEF GoldTables, Tables

(* A run changes its status and stays a run. *)
LEMMA RunsStayRuns ==
    ASSUME DagsterTypeOK, NEW i \in 1..Len(runs), NEW s \in Statuses
    PROVE  /\ [runs EXCEPT ![i].status = s] \in Seq([job: Jobs, status: Statuses, logged: BOOLEAN])
           /\ [runs EXCEPT ![i].logged = TRUE] \in Seq([job: Jobs, status: Statuses, logged: BOOLEAN])
           /\ [runs EXCEPT ![i].status = s][i].status = s
<1> DEFINE Run == [job: Jobs, status: Statuses, logged: BOOLEAN]
<1>1. runs \in Seq(Run) /\ runs[i] \in Run
  <2>1. runs \in Seq(Run)
    BY DEF DagsterTypeOK
  <2> HIDE DEF Run
  <2> QED BY <2>1
<1>2. [runs[i] EXCEPT !.status = s] \in Run /\ [runs[i] EXCEPT !.logged = TRUE] \in Run
  BY <1>1
<1>3. [runs[i] EXCEPT !.status = s].status = s
  BY <1>1
<1> HIDE DEF Run
<1>4. \A r \in Run : [runs EXCEPT ![i] = r] \in Seq(Run)
  BY <1>1
<1>5. [runs EXCEPT ![i].status = s] = [runs EXCEPT ![i] = [runs[i] EXCEPT !.status = s]]
  OBVIOUS
<1>6. [runs EXCEPT ![i].logged = TRUE] = [runs EXCEPT ![i] = [runs[i] EXCEPT !.logged = TRUE]]
  OBVIOUS
<1>7. [runs EXCEPT ![i] = [runs[i] EXCEPT !.status = s]][i] = [runs[i] EXCEPT !.status = s]
  BY <1>1
<1> QED BY <1>2, <1>3, <1>4, <1>5, <1>6, <1>7 DEF Run

(* The run that holds the slot is a run. *)
LEMMA ActiveIsARun ==
    ASSUME Started # {}
    PROVE  Active \in 1..Len(runs)
BY DEF Active, Started

(* A run process writes the status of its own run, and no other.           *)
LEMMA EndRunKeepsTypes ==
    ASSUME DagsterTypeOK, Started # {}, NEW ok \in BOOLEAN, EndRun(ok)
    PROVE  /\ runs' \in Seq([job: Jobs, status: Statuses, logged: BOOLEAN])
           /\ alive' \in BOOLEAN
           /\ runs'[Active].status = IF ok THEN "success" ELSE "failure"
<1>1. Active \in 1..Len(runs)
  BY ActiveIsARun
<1> DEFINE s == IF ok THEN "success" ELSE "failure"
<1>2. s \in Statuses
  BY DEF Statuses
<1>3. runs' = [runs EXCEPT ![Active].status = s] /\ alive' = FALSE
  BY DEF EndRun
<1> HIDE DEF s
<1>4. /\ runs' \in Seq([job: Jobs, status: Statuses, logged: BOOLEAN])
      /\ runs'[Active].status = s
  BY <1>1, <1>2, <1>3, RunsStayRuns
<1> QED BY <1>3, <1>4 DEF s

(* The loop of maintain_gold goes from table to table.                     *)
LEMMA LoopStep ==
    ASSUME GoldUpkeepInv, Optimize \/ Expire \/ TableFails
    PROVE  /\ upkeep' \in [next: 0..(Len(GoldTables) + 1), step: {"optimize", "expire"},
                           failures: SUBSET Tables, compacted: SUBSET Tables]
           /\ upkeep'.next # 0
           /\ upkeep'.compacted \cup upkeep'.failures
                  = { GoldTables[i] : i \in 1..(upkeep'.next - 1) }
<1> DEFINE n == upkeep.next
<1>1. /\ n \in 1..3
      /\ upkeep \in [next: 0..4, step: {"optimize", "expire"},
                     failures: SUBSET Tables, compacted: SUBSET Tables]
      /\ upkeep.compacted \cup upkeep.failures = { GoldTables[i] : i \in 1..(n - 1) }
  BY ThreeTables DEF GoldUpkeepInv, DagsterTypeOK, Optimize, Expire, TableFails
<1>2. GoldTables[n] \in Tables
  BY <1>1, ThreeTables
<1>3. CASE Optimize
  <2>1. upkeep' = [upkeep EXCEPT !.step = "expire"]
    BY <1>3 DEF Optimize
  <2>2. /\ upkeep'.next = n /\ upkeep'.compacted = upkeep.compacted
        /\ upkeep'.failures = upkeep.failures
        /\ upkeep' \in [next: 0..4, step: {"optimize", "expire"},
                        failures: SUBSET Tables, compacted: SUBSET Tables]
    BY <1>1, <2>1
  <2> QED BY <1>1, <2>2, ThreeTables
<1>4. CASE Expire \/ TableFails
  <2>1. \/ upkeep' = [upkeep EXCEPT !.step = "optimize", !.next = @ + 1,
                                    !.compacted = @ \cup {GoldTables[n]}]
        \/ upkeep' = [upkeep EXCEPT !.step = "optimize", !.next = @ + 1,
                                    !.failures = @ \cup {GoldTables[n]}]
    BY <1>4 DEF Expire, TableFails, Table
  <2>2. /\ upkeep'.next = n + 1
        /\ upkeep'.compacted \cup upkeep'.failures
              = (upkeep.compacted \cup upkeep.failures) \cup {GoldTables[n]}
        /\ upkeep' \in [next: 0..4, step: {"optimize", "expire"},
                        failures: SUBSET Tables, compacted: SUBSET Tables]
    <3> DEFINE t == GoldTables[n]
               Upkeeps == [next: 0..4, step: {"optimize", "expire"},
                           failures: SUBSET Tables, compacted: SUBSET Tables]
    <3>1. upkeep.next \in 1..3 /\ upkeep \in Upkeeps /\ t \in Tables
      BY <1>1, <1>2
    <3>2. upkeep.next + 1 \in 0..4
      BY <3>1
    <3> HIDE DEF t
    <3>3. CASE upkeep' = [upkeep EXCEPT !.step = "optimize", !.next = @ + 1,
                                        !.compacted = @ \cup {t}]
      <4>1. /\ upkeep'.next = upkeep.next + 1
            /\ upkeep'.compacted = upkeep.compacted \cup {t}
            /\ upkeep'.failures = upkeep.failures
            /\ upkeep' \in Upkeeps
        BY <3>1, <3>2, <3>3
      <4> QED BY <4>1 DEF t
    <3>4. CASE upkeep' = [upkeep EXCEPT !.step = "optimize", !.next = @ + 1,
                                        !.failures = @ \cup {t}]
      <4>1. /\ upkeep'.next = upkeep.next + 1
            /\ upkeep'.compacted = upkeep.compacted
            /\ upkeep'.failures = upkeep.failures \cup {t}
            /\ upkeep' \in Upkeeps
        BY <3>1, <3>2, <3>4
      <4> QED BY <4>1 DEF t
    <3> QED BY <2>1, <3>3, <3>4 DEF t
  <2>3. \A i : i \in 1..n <=> i \in 1..(n - 1) \/ i = n
    BY <1>1
  <2> HIDE DEF n
  <2>4. { GoldTables[i] : i \in 1..n } = { GoldTables[i] : i \in 1..(n - 1) } \cup {GoldTables[n]}
    BY <2>3
  <2>5. upkeep'.next - 1 = n /\ upkeep'.next # 0
    BY <1>1, <2>2
  <2> QED BY <1>1, <2>2, <2>4, <2>5, ThreeTables DEF n
<1> QED BY <1>3, <1>4

(* No table is behind a loop that has not begun. *)
LEMMA GoldUpkeepInvInit == Init => GoldUpkeepInv
<1> SUFFICES ASSUME Init PROVE GoldUpkeepInv
  OBVIOUS
<1>1. /\ runs = <<>> /\ alive = FALSE /\ kills = 0
      /\ upkeep = [next |-> 0, step |-> "optimize", failures |-> {}, compacted |-> {}]
  BY DEF Init, NoUpkeep
<1>2. runs \in Seq([job: Jobs, status: Statuses, logged: BOOLEAN])
  BY <1>1
<1>3. upkeep \in [next: 0..(Len(GoldTables) + 1), step: {"optimize", "expire"},
                  failures: SUBSET Tables, compacted: SUBSET Tables]
  BY <1>1, ThreeTables
<1> QED BY <1>1, <1>2, <1>3 DEF GoldUpkeepInv, DagsterTypeOK

(* Every step of the daemon and of a run keeps GoldUpkeepInv.              *)
LEMMA GoldUpkeepInvStep == GoldUpkeepInv /\ [Next]_vars => GoldUpkeepInv'
<1> DEFINE Runs == Seq([job: Jobs, status: Statuses, logged: BOOLEAN])
           Upkeeps == [next: 0..(Len(GoldTables) + 1), step: {"optimize", "expire"},
                       failures: SUBSET Tables, compacted: SUBSET Tables]
<1> SUFFICES ASSUME GoldUpkeepInv, [Next]_vars PROVE GoldUpkeepInv'
  OBVIOUS
<1>1. runs \in Runs /\ alive \in BOOLEAN /\ upkeep \in Upkeeps /\ kills \in Nat
  BY DEF GoldUpkeepInv, DagsterTypeOK
<1>2. ASSUME runs' \in Runs, alive' \in BOOLEAN, UNCHANGED <<upkeep, kills>>
      PROVE  GoldUpkeepInv'
  BY <1>2 DEF GoldUpkeepInv, DagsterTypeOK
<1>3. ASSUME runs' \in Runs, alive' \in BOOLEAN, kills' \in Nat, upkeep'.next \in {0, 1},
             upkeep' \in Upkeeps, upkeep'.compacted = {}, upkeep'.failures = {}
      PROVE  GoldUpkeepInv'
  <2>1. { GoldTables[i] : i \in 1..(1 - 1) } = {}
    OBVIOUS
  <2> QED BY <1>3, <2>1 DEF GoldUpkeepInv, DagsterTypeOK
<1>4. /\ NoUpkeep \in Upkeeps /\ [NoUpkeep EXCEPT !.next = 1] \in Upkeeps
      /\ NoUpkeep.next = 0 /\ [NoUpkeep EXCEPT !.next = 1].next = 1
      /\ NoUpkeep.compacted = {} /\ [NoUpkeep EXCEPT !.next = 1].compacted = {}
      /\ NoUpkeep.failures = {} /\ [NoUpkeep EXCEPT !.next = 1].failures = {}
  BY ThreeTables DEF NoUpkeep
<1> HIDE DEF Upkeeps
<1>5. CASE SilverStep /\ UNCHANGED <<runVars, upkeep>>
  BY <1>1, <1>2, <1>5 DEF runVars
<1>6. CASE Schedule
  <2>1. PICK j \in Jobs : runs' = Append(runs, [job |-> j, status |-> "queued", logged |-> FALSE])
    BY <1>6 DEF Schedule
  <2>2. [job |-> j, status |-> "queued", logged |-> FALSE]
            \in [job: Jobs, status: Statuses, logged: BOOLEAN]
    BY DEF Statuses
  <2>3. runs' \in Runs
    BY <1>1, <2>1, <2>2
  <2> QED BY <1>1, <1>2, <1>6, <2>3 DEF Schedule
<1>7. CASE Launch
  <2>1. PICK i \in 1..Len(runs) : runs' = [runs EXCEPT ![i].status = "started"]
    <3>1. /\ Waiting # {} /\ Waiting \in SUBSET (1..Len(runs)) /\ Len(runs) \in Nat
          /\ Waiting \in SUBSET (0..Len(runs))
      BY <1>1, <1>7 DEF Launch, Waiting
    <3>2. Min(Waiting) \in Waiting
      BY <3>1, LeastOf
    <3> QED BY <1>7, <3>1, <3>2 DEF Launch
  <2>2. runs' \in Runs
    BY <2>1, RunsStayRuns DEF GoldUpkeepInv, Statuses
  <2>3. CASE upkeep' = [NoUpkeep EXCEPT !.next = 1]
    BY <1>1, <1>3, <1>4, <1>7, <2>2, <2>3 DEF Launch
  <2>4. CASE UNCHANGED upkeep
    BY <1>1, <1>2, <1>7, <2>2, <2>4 DEF Launch
  <2> QED BY <1>7, <2>3, <2>4 DEF Launch
<1>8. CASE Monitor
  <2>1. runs' \in Runs
    BY <1>8, ActiveIsARun, RunsStayRuns DEF Monitor, GoldUpkeepInv, Statuses
  <2> QED BY <1>1, <1>2, <1>8, <2>1 DEF Monitor
<1>9. CASE log_run_failures
  <2>1. PICK i \in 1..Len(runs) : runs' = [runs EXCEPT ![i].logged = TRUE]
    BY <1>9 DEF log_run_failures
  <2>2. "failure" \in Statuses
    BY DEF Statuses
  <2>3. runs' \in Runs
    BY <2>1, <2>2, RunsStayRuns DEF GoldUpkeepInv
  <2> QED BY <1>1, <1>2, <1>9, <2>3 DEF log_run_failures
<1>10. CASE Observe
  <2>1. \E ok \in BOOLEAN : EndRun(ok)
    BY <1>10 DEF Observe
  <2>2. runs' \in Runs /\ alive' \in BOOLEAN
    BY <1>10, <2>1, EndRunKeepsTypes DEF Observe, Working, GoldUpkeepInv
  <2> QED BY <1>2, <1>10, <2>2 DEF Observe
<1>11. CASE Build
  <2>1. runs' \in Runs /\ alive' \in BOOLEAN
    <3>1. CASE build'.todo = {}
      <4>1. PICK ok \in BOOLEAN : EndRun(ok)
        BY <1>11, <3>1 DEF Build
      <4> QED BY <1>11, <4>1, EndRunKeepsTypes DEF Build, Working, GoldUpkeepInv
    <3>2. CASE build'.todo # {}
      BY <1>1, <1>11, <3>2 DEF Build
    <3> QED BY <3>1, <3>2
  <2> QED BY <1>2, <1>11, <2>1 DEF Build
<1>12. CASE gold_table_maintenance
  <2>1. kills' = kills
    BY <1>12 DEF gold_table_maintenance
  <2>2. CASE (Optimize \/ Expire \/ TableFails) /\ UNCHANGED <<runs, alive>>
    BY <1>1, <2>1, <2>2, LoopStep DEF GoldUpkeepInv, DagsterTypeOK, Upkeeps
  <2>3. CASE Report
    <3>1. PICK ok \in BOOLEAN : EndRun(ok)
      BY <2>3 DEF Report
    <3>2. runs' \in Runs /\ alive' \in BOOLEAN
      BY <1>12, <3>1, EndRunKeepsTypes DEF gold_table_maintenance, Working, GoldUpkeepInv
    <3> QED BY <1>1, <1>3, <1>4, <2>1, <2>3, <3>2 DEF Report
  <2> QED BY <1>12, <2>2, <2>3 DEF gold_table_maintenance
<1>13. CASE Kill
  <2>1. /\ kills' = kills + 1 /\ alive' = FALSE /\ upkeep' = NoUpkeep /\ runs' = runs
    BY <1>13 DEF Kill
  <2>2. runs' \in Runs /\ alive' \in BOOLEAN /\ kills' \in Nat
    <3>1. runs' \in Runs
      BY <1>1, <2>1
    <3>2. alive' \in BOOLEAN
      BY <2>1
    <3>3. kills' \in Nat
      BY <1>1, <2>1
    <3> QED BY <3>1, <3>2, <3>3
  <2>3. /\ upkeep' \in Upkeeps /\ upkeep'.next \in {0, 1}
        /\ upkeep'.compacted = {} /\ upkeep'.failures = {}
    BY <1>4, <2>1
  <2> QED BY <1>3, <2>2, <2>3
<1>14. CASE UNCHANGED vars
  BY <1>1, <1>2, <1>14 DEF vars, runVars
<1> QED BY <1>5, <1>6, <1>7, <1>8, <1>9, <1>10, <1>11, <1>12, <1>13, <1>14
        DEF Next, DaemonStep, RunStep

(* GoldUpkeepInv holds in every reachable state. *)
LEMMA AlwaysGoldUpkeepInv == Spec => []GoldUpkeepInv
BY GoldUpkeepInvInit, GoldUpkeepInvStep, PTL DEF Spec

(* The gold layer and Dagster keep their types. *)
THEOREM GoldTypeCorrect == Spec => []TypeOK
<1>1. GoldInv /\ GoldUpkeepInv => TypeOK
  BY DEF GoldInv, GoldUpkeepInv, TypeOK
<1> QED BY <1>1, AlwaysGoldInv, AlwaysGoldUpkeepInv, PTL

(* A run of maintain_gold that ends by itself has compacted every table    *)
(* that did not fail, and fails if one did, whichever statements raise.    *)
THEOREM MaintenanceAlwaysDoesTheRest == Spec => MaintenanceDoesTheRest
<1>1. GoldUpkeepInv /\ [Next]_vars =>
        [upkeep.next = Len(GoldTables) + 1 /\ upkeep'.next = 0 /\ kills' = kills =>
           /\ upkeep.compacted \cup upkeep.failures = Tables
           /\ (runs'[Active].status = "failure") = (upkeep.failures # {})]_vars
  <2> SUFFICES ASSUME GoldUpkeepInv, Next, upkeep.next = 4, upkeep'.next = 0, kills' = kills
               PROVE  /\ upkeep.compacted \cup upkeep.failures = Tables
                      /\ (runs'[Active].status = "failure") = (upkeep.failures # {})
    BY ThreeTables
  <2>1. upkeep.compacted \cup upkeep.failures = Tables
    <3>1. upkeep.compacted \cup upkeep.failures = { GoldTables[i] : i \in 1..(4 - 1) }
      BY DEF GoldUpkeepInv
    <3> QED BY <3>1, ThreeTables
  <2>2. gold_table_maintenance
    <3>1. upkeep' # upkeep
      OBVIOUS
    <3>2. ~Kill
      BY DEF Kill, GoldUpkeepInv
    <3>3. ~Launch
      BY <3>1 DEF Launch, NoUpkeep
    <3>4. ~(SilverStep /\ UNCHANGED <<runVars, upkeep>>) /\ ~Schedule /\ ~Monitor
          /\ ~log_run_failures /\ ~Observe /\ ~Build
      BY <3>1 DEF Schedule, Monitor, log_run_failures, Observe, Build
    <3> QED BY <3>2, <3>3, <3>4 DEF Next, DaemonStep, RunStep
  <2>3. Report
    <3>1. ~Optimize /\ ~Expire /\ ~TableFails
      BY ThreeTables DEF Optimize, Expire, TableFails
    <3> QED BY <2>2, <3>1 DEF gold_table_maintenance
  <2>4. EndRun(upkeep.failures = {}) /\ Started # {}
    BY <2>2, <2>3 DEF Report, gold_table_maintenance, Working
  <2>5. CASE upkeep.failures = {}
    <3>1. EndRun(TRUE)
      BY <2>4, <2>5
    <3>2. runs'[Active].status = "success"
      BY <2>4, <3>1, EndRunKeepsTypes DEF GoldUpkeepInv
    <3> QED BY <2>1, <2>5, <3>2
  <2>6. CASE upkeep.failures # {}
    <3>1. EndRun(FALSE)
      BY <2>4, <2>6 DEF EndRun
    <3>2. runs'[Active].status = "failure"
      BY <2>4, <3>1, EndRunKeepsTypes DEF GoldUpkeepInv
    <3> QED BY <2>1, <2>6, <3>2
  <2> QED BY <2>5, <2>6
<1> QED BY <1>1, AlwaysGoldUpkeepInv, PTL DEF Spec, MaintenanceDoesTheRest

=============================================================================
