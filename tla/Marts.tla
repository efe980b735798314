------------------------------- MODULE Marts --------------------------------
(***************************************************************************)
(* The gold layer: silver.edits as the marts see it, and one dbt build     *)
(* over it (dbt/models, dbt/macros/run_cutoff.sql, dbt/tests), which       *)
(* Dagster starts (wikistream_dagster/dbt_project.py).                     *)
(*                                                                         *)
(* A build reads the clock once, and every model keeps to the rows         *)
(* ingested before that.  A row's ingested_at is the time its micro-batch  *)
(* was planned; the row appears when the batch commits.  dbt runs the      *)
(* models on four threads, in any order; a statement reads one snapshot.   *)
(* delete+insert is three of them, over a temporary table.  Where one      *)
(* fails dbt goes on with the other models, and skips the failed one's     *)
(* tests.                                                                  *)
(*                                                                         *)
(* One bucket of time, a tick, stands for the minute of one mart and the   *)
(* hour of the other.  mart_bot_vs_human_hourly is built as the minute     *)
(* mart is, mart_pipeline_health as the dimension, so one of each kind is  *)
(* here.  Rows carry what groups them and nothing else, and canaries,      *)
(* which no mart of these kinds reads, are left out.  So are the instant   *)
(* in which dbt-trino, swapping a table, has renamed the old one away and  *)
(* not yet the new one in, and a test whose query fails: it ends the run   *)
(* as a red one does.                                                      *)
(***************************************************************************)
EXTENDS Integers, Sequences, FiniteSetsExt

CONSTANTS
    Edited,    \* the <<wiki, page>> pairs that are edited; a page is a number,
               \* and Untitled for the edits that come without one
    TopN,      \* top_n
    Late,      \* an event is at most Late buckets older than its ingestion
    Ahead,     \* and at most Ahead newer: a source clock within the tolerance
    MaxRows,   \* bound: rows of silver.edits
    MaxClock   \* bound: ticks

ASSUME MartsAssumption == /\ \A e \in Edited : e = <<e[1], e[2]>> /\ e[2] \in Nat
                          /\ IsFiniteSet(Edited)
                          /\ TopN \in Nat \ {0} /\ Late \in Nat /\ Ahead \in Nat
                          /\ MaxRows \in Nat /\ MaxClock \in Nat

VARIABLES
    clock,   \* the wall clock, in buckets
    silver,  \* silver.edits in commit order
    batch,   \* the row of the micro-batch that is planned and not committed
    minute,  \* mart_edits_per_minute
    top,     \* mart_top_pages_hourly
    dim,     \* dim_wikis
    build    \* the dbt process

silverVars == <<clock, silver, batch>>
goldVars == <<minute, top, dim>>
martsVars == <<silverVars, goldVars, build>>

(* Newest({}) is the epoch_utc() of the incremental filters. *)
Buckets == 0..(MaxClock + Ahead)
Epoch == 0 - 1
Wikis == { e[1] : e \in Edited }
Row == [bucket: Buckets, wiki: Wikis, page: Nat, at: 0..MaxClock]
NoBatch == {}

(* A gold row carries the cutoff it was built to: dim_wikis as a column,   *)
(* the others so that a second row of a group is a second row.             *)
MinuteRow == [bucket: Buckets, wiki: Wikis, events: Nat, cutoff: 0..MaxClock]
TopRow == [bucket: Buckets, wiki: Wikis, page: Nat, rank: Nat, cutoff: 0..MaxClock]
DimRow == [wiki: Wikis, built_through: 0..MaxClock]

(* todo holds the statements that are left, failed the models of which one *)
(* failed, red the tests that did; seen is history: how much of silver the *)
(* run could see when it started.                                          *)
Statements == {"minute", "top_tmp", "top_delete", "top_insert", "dim", "tests"}
Models == {"minute", "top", "dim"}
Tests == {"grain", "overcount", "ranks", "minute_wikis", "top_wikis"}
NoBuild == [todo |-> {}, cutoff |-> 0, tmp |-> {}, failed |-> {}, red |-> {}, seen |-> 0]
Builds == [todo: SUBSET Statements, cutoff: 0..MaxClock, tmp: SUBSET TopRow,
           failed: SUBSET Models, red: SUBSET Tests, seen: 0..MaxRows]

MartsTypeOK ==
    /\ clock \in 0..MaxClock
    /\ silver \in Seq(Row) /\ batch \subseteq Row
    /\ minute \subseteq MinuteRow /\ top \subseteq TopRow /\ dim \subseteq DimRow
    /\ build \in Builds

MartsInit == /\ clock = 0 /\ silver = <<>> /\ batch = NoBatch
             /\ minute = {} /\ top = {} /\ dim = {}
             /\ build = NoBuild

-----------------------------------------------------------------------------
(* The silver stream.                                                      *)

Tick == /\ clock < MaxClock
        /\ clock' = clock + 1
        /\ UNCHANGED <<silver, batch, goldVars, build>>

PlanRow == /\ batch = NoBatch /\ Len(silver) < MaxRows
           /\ \E b \in (clock - Late)..(clock + Ahead), e \in Edited :
                /\ b \in Buckets
                /\ batch' = {[bucket |-> b, wiki |-> e[1], page |-> e[2], at |-> clock]}
           /\ UNCHANGED <<clock, silver, goldVars, build>>

CommitRow == /\ \E r \in batch : silver' = Append(silver, r)
             /\ batch' = NoBatch
             /\ UNCHANGED <<clock, goldVars, build>>

SilverStep == Tick \/ PlanRow \/ CommitRow

-----------------------------------------------------------------------------
(* The models.                                                             *)

(* Mutant of Within: the model has no cutoff. *)
AllOf(r) == TRUE

(* run_cutoff() *)
Within(r) == r.at < build.cutoff

Newest(T) == IF T = {} THEN Epoch ELSE Max({ r.bucket : r \in T })

(* The indices of the edits a model reads. *)
Source == { i \in 1..Len(silver) : Within(silver[i]) }

(* Mutant of Boundary: > in the incremental filter. *)
AfterBoundary(T) == { i \in Source : silver[i].bucket > Newest(T) }

(* The incremental filter of a mart whose table is T. *)
Boundary(T) == { i \in Source : silver[i].bucket >= Newest(T) }

(* where page_title is not null *)
Untitled == 0
Titled(I) == { i \in I : silver[i].page # Untitled }

(* How many events of I there are in a bucket of a wiki, and of a page. *)
Events(I, b, w) == Cardinality({ i \in I : silver[i].bucket = b /\ silver[i].wiki = w })
PageEvents(I, b, w, pg) ==
    Cardinality({ i \in I : silver[i].bucket = b /\ <<silver[i].wiki, silver[i].page>> = <<w, pg>> })

(* The result of a model's query: one row for each group of I. *)
MinuteRows(I) ==
    { [bucket |-> silver[i].bucket, wiki |-> silver[i].wiki,
       events |-> Events(I, silver[i].bucket, silver[i].wiki), cutoff |-> build.cutoff]
        : i \in I }

(* order by events desc, page_title asc *)
Outranks(I, b, w, pg, other) ==
    LET n == PageEvents(I, b, w, pg)
        m == PageEvents(I, b, w, other)
    IN  n > m \/ (n = m /\ pg < other)

Rank(I, b, w, pg) ==
    1 + Cardinality({ e \in Edited : /\ e[1] = w /\ PageEvents(I, b, w, e[2]) > 0
                                     /\ Outranks(I, b, w, e[2], pg) })

TopRows(I) ==
    { r \in { [bucket |-> silver[i].bucket, wiki |-> silver[i].wiki,
               page |-> silver[i].page, cutoff |-> build.cutoff,
               rank |-> Rank(I, silver[i].bucket, silver[i].wiki, silver[i].page)]
                : i \in I } : r.rank <= TopN }

-----------------------------------------------------------------------------
(* The statements of a build.                                              *)

(* dbt starts: run_started_at is taken. *)
StartBuild == build' = [NoBuild EXCEPT !.todo = Statements, !.cutoff = clock,
                                       !.seen = Len(silver)]

Running(s) == s \in build.todo
Done(s) == build' = [build EXCEPT !.todo = @ \ {s}]

(* Mutant of MergeMinute: the strategy is append. *)
AppendMinute ==
    /\ Running("minute") /\ Done("minute")
    /\ minute' = minute \cup MinuteRows(Boundary(minute))
    /\ UNCHANGED <<top, dim>>

(* incremental, strategy merge on (bucket, wiki) *)
MergeMinute ==
    /\ Running("minute") /\ Done("minute")
    /\ LET rows == MinuteRows(Boundary(minute))
       IN  minute' = rows \cup
               { r \in minute : \A n \in rows : <<r.bucket, r.wiki>> # <<n.bucket, n.wiki>> }
    /\ UNCHANGED <<top, dim>>

(* incremental, strategy delete+insert on the bucket, of titled pages *)
SelectTop == /\ Running("top_tmp")
             /\ build' = [build EXCEPT !.todo = @ \ {"top_tmp"},
                                       !.tmp = TopRows(Titled(Boundary(top)))]
             /\ UNCHANGED goldVars

(* Mutant of DeleteTop: only the pages that come again are deleted, as a   *)
(* merge on the page would.                                                *)
DeleteSamePages ==
    /\ Running("top_delete") /\ ~Running("top_tmp") /\ Done("top_delete")
    /\ top' = { r \in top : \A n \in build.tmp :
                    <<r.bucket, r.wiki, r.page>> # <<n.bucket, n.wiki, n.page>> }
    /\ UNCHANGED <<minute, dim>>

DeleteTop == /\ Running("top_delete") /\ ~Running("top_tmp") /\ Done("top_delete")
             /\ top' = { r \in top : \A n \in build.tmp : r.bucket # n.bucket }
             /\ UNCHANGED <<minute, dim>>

InsertTop == /\ Running("top_insert") /\ ~Running("top_delete")
             /\ build' = [build EXCEPT !.todo = @ \ {"top_insert"}, !.tmp = {}]
             /\ top' = top \cup build.tmp
             /\ UNCHANGED <<minute, dim>>

(* materialized as a table: built anew and swapped in *)
RebuildDim ==
    /\ Running("dim") /\ Done("dim")
    /\ dim' = { [wiki |-> silver[i].wiki, built_through |-> build.cutoff] : i \in Source }
    /\ UNCHANGED <<minute, top>>

(* A statement raises: it has written nothing, the model's others are not  *)
(* run, and the next build drops the temporary table.                      *)
StatementsOf(m) == IF m = "top" THEN {"top_tmp", "top_delete", "top_insert"} ELSE {m}

ModelFails(m) ==
    /\ StatementsOf(m) \cap build.todo # {}
    /\ build' = [build EXCEPT !.todo = @ \ StatementsOf(m), !.failed = @ \cup {m},
                              !.tmp = IF m = "top" THEN {} ELSE @]
    /\ UNCHANGED goldVars

-----------------------------------------------------------------------------
(* The tests, as the tables are.                                           *)
UniqueGrain == \A r, s \in minute : <<r.bucket, r.wiki>> = <<s.bucket, s.wiki>> => r = s

(* assert_minute_mart_never_overcounts *)
NeverOvercounts == \A r \in minute : r.events <= Events(1..Len(silver), r.bucket, r.wiki)

(* assert_top_pages_rank_is_contiguous *)
Contiguous ==
    \A r \in top :
        LET group == { s \in top : <<s.bucket, s.wiki>> = <<r.bucket, r.wiki>> }
        IN  { s.rank : s \in group } = 1..Cardinality(group)

(* The relationships tests on wiki. *)
WikisKnown(mart) == { r.wiki : r \in mart } \subseteq { r.wiki : r \in dim }

(* A test runs if no model it reads has failed. *)
Reads(t) == CASE t \in {"grain", "overcount"} -> {"minute"}
              [] t = "ranks" -> {"top"}
              [] t = "minute_wikis" -> {"minute", "dim"}
              [] t = "top_wikis" -> {"top", "dim"}

Red == { t \in Tests :
           /\ Reads(t) \cap build.failed = {}
           /\ \/ t = "grain" /\ ~UniqueGrain
              \/ t = "overcount" /\ ~NeverOvercounts
              \/ t = "ranks" /\ ~Contiguous
              \/ t = "minute_wikis" /\ ~WikisKnown(minute)
              \/ t = "top_wikis" /\ ~WikisKnown(top) }

(* Nothing writes the gold tables any more, and what the tests read of     *)
(* silver only grows, so it does not matter which of them runs first.      *)
RunTests == /\ build.todo = {"tests"}
            /\ build' = [NoBuild EXCEPT !.red = Red, !.failed = build.failed]
            /\ UNCHANGED goldVars

BuildStep == MergeMinute \/ SelectTop \/ DeleteTop \/ InsertTop \/ RebuildDim \/ RunTests

(* The check of that name, which makes the others mean something. *)
marts_are_not_empty == minute # {} /\ top # {} /\ dim # {}

-----------------------------------------------------------------------------
(* The marts' promises, whatever silver does and wherever earlier builds   *)
(* were killed.                                                            *)

(* No bucket of the minute mart claims more events than silver holds, and  *)
(* none has a second row, at any time: not only when the tests look.       *)
MinuteNeverOvercounts == UniqueGrain /\ NeverOvercounts

(* The ranks of a wiki's hour are 1..n whenever a reader looks, also in    *)
(* the hour between the delete and the insert, or after a build died       *)
(* there: no page that fell out of the top stays behind.                   *)
RanksContiguous == Contiguous

(* The last step of a build, its tests. *)
Ending == build.todo = {"tests"} /\ build'.todo = {}

(* The rows run_cutoff() is meant to let in, and those of them that were   *)
(* committed when the build started.                                       *)
Meant == { i \in 1..Len(silver) : silver[i].at < build.cutoff }
Visible == Meant \cap 1..build.seen

Counted(b, w) ==
    Events(Visible, b, w) > 0 =>
        \E r \in minute : /\ r.bucket = b /\ r.wiki = w
                          /\ r.events >= Events(Visible, b, w)

(* A red test means a straggler: a row of a batch that was planned before  *)
(* the build started and committed while it ran.  Against any other row    *)
(* the cutoff closes the set a build reads (run_cutoff.sql), and nothing   *)
(* an earlier build left behind, killed or failed halfway, makes a test    *)
(* red.  The tests meant are those in Tests, of the marts.                 *)
BuildRedMeansStraggler ==
    [][Ending /\ build'.red # {} =>
        Meant \ Visible # {}]_martsVars

(* The newest bucket is complete (mart_edits_per_minute.sql: the boundary  *)
(* bucket is recomputed, not skipped): when a build ends in which no       *)
(* statement failed, it counts every edit of that bucket the build could   *)
(* see when it started; and no mart is empty if it could see an edit of a  *)
(* titled page, so the tests are not green for want of rows (checks.py,    *)
(* marts_are_not_empty).                                                   *)
NewestBucketExact ==
    [][Ending /\ build.failed = {} =>
        /\ Titled(Visible) # {} => marts_are_not_empty
        /\ \A w \in Wikis : Counted(Newest(minute), w)]_martsVars

(* Nothing is dropped, of run_cutoff.sql: an edit one build's cutoff       *)
(* leaves out is picked up by the next one, so when a build ends in which  *)
(* no statement failed it has counted every edit it could see at its start.*)
NothingIsDropped ==
    [][Ending /\ build.failed = {} =>
        \A b \in Buckets, w \in Wikis : Counted(b, w)]_martsVars

=============================================================================
