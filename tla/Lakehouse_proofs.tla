-------------------------- MODULE Lakehouse_proofs --------------------------
(***************************************************************************)
(* Theorems about both streams and the rebuild together, for any number of *)
(* drivers of either query, crashes, checkpoint losses and rebuilds.  The  *)
(* silver stream keeps the invariant it has alone, the bronze stream the   *)
(* one proved in BronzeStream_proofs, which an instance brings in; the     *)
(* rebuild is tied to both by the window it reads.                         *)
(***************************************************************************)
EXTENDS Lakehouse, SilverStream_proofs

(* The theorems about bronze, for this bronze stream. *)
B == INSTANCE BronzeStream_proofs WITH
    Drivers <- BronzeDrivers, MaxCrashes <- BronzeCrashes, MaxLosses <- BronzeLosses,
    plan <- bPlan, committed <- bCommitted, running <- bRunning,
    current <- bCurrent, crashes <- bCrashes, losses <- bLosses

-----------------------------------------------------------------------------
(* The inductive invariant.                                                *)

(* Every bronze row of window w is in the table its own verdict names. *)
NoGap(w) ==
    \A r \in bronze :
        InWindow(r, w) =>
            IF Verdict(r.frame, r.at) = Valid
            THEN \E e \in edits : e.id = r.frame.id
            ELSE Quarantined(r.p, r.o)

(* A row belongs to a snapshot that was committed; a window was read from  *)
(* one, so later appends do not change what it holds.                      *)
SnapshotsBelow ==
    /\ \A r \in bronze : r.snap \in Nat /\ r.snap <= appends
    /\ window.asOf <= appends
    /\ \A w \in completed : w.asOf <= appends

(* A running rebuild works on the rows of its window. *)
RebuildBatch == Rebuilding => merge[Rebuilder].batch = FramesFromBronze(window)

RebuildTypeOK == /\ window \in Window
                 /\ completed \subseteq Window
                 /\ rebuilds \in Nat
                 /\ overlapped \in BOOLEAN

LakehouseInv == /\ Inv
                /\ B!BronzeInv
                /\ RebuildTypeOK
                /\ SnapshotsBelow
                /\ RebuildBatch
                /\ \A w \in completed : NoGap(w)
                /\ RebuildTwiceChangesNothing

(* A driver is inside merge_batch only while it runs a micro-batch. *)
MergingRuns ==
    /\ \A w \in Writers : merge[w].step # Idle => w \in Drivers \cup {Rebuilder}
    /\ \A d \in Drivers : merge[d].step # Idle => running[d] = "writing"

(* While no rebuild has met the stream, they exclude each other. *)
KeysInv == /\ MergingRuns
           /\ ~overlapped => UniqueInv /\ ~(Rebuilding /\ Streaming)

-----------------------------------------------------------------------------
(* The bronze stream of Lakehouse is the one the instance is about.        *)

(* The two names of each operator a step of the bronze query is made of.   *)
LEMMA SameOperators ==
    /\ \A from : Bronze!EndsFrom(from) = B!EndsFrom(from)
    /\ \A q : Bronze!ReadRange(q) = B!ReadRange(q) /\ Bronze!StartOf(q) = B!StartOf(q)
    /\ \A S, n : Bronze!Rows(S, n) = B!Rows(S, n)
    /\ \A n : Bronze!KnownEpoch(n) = B!KnownEpoch(n)
    /\ \A d : Bronze!StopDriver(d) <=> B!StopDriver(d)
    /\ Bronze!NoPlan = B!NoPlan
<1>1. \A from : Bronze!EndsFrom(from) = B!EndsFrom(from)
  BY Zenon DEF Bronze!EndsFrom, B!EndsFrom, Bronze!MapThenSumSet, B!MapThenSumSet,
     Bronze!MapThenFoldSet, B!MapThenFoldSet
<1>2. Bronze!NoPlan = B!NoPlan
  BY DEF Bronze!NoPlan, B!NoPlan
<1>3. \A q : Bronze!ReadRange(q) = B!ReadRange(q) /\ Bronze!StartOf(q) = B!StartOf(q)
  BY DEF Bronze!ReadRange, B!ReadRange, Bronze!StartOf, B!StartOf
<1>4. \A S, n : Bronze!Rows(S, n) = B!Rows(S, n)
  BY DEF Bronze!Rows, B!Rows
<1>5. \A n : Bronze!KnownEpoch(n) = B!KnownEpoch(n)
  BY DEF Bronze!KnownEpoch, B!KnownEpoch
<1>6. \A d : Bronze!StopDriver(d) <=> B!StopDriver(d)
  BY <1>2 DEF Bronze!StopDriver, B!StopDriver
<1> QED BY <1>1, <1>2, <1>3, <1>4, <1>5, <1>6

(* A step of the bronze query is one of the instance's. *)
LEMMA SameSteps == Bronze!BronzeNext => B!BronzeNext
<1> SUFFICES ASSUME Bronze!BronzeNext PROVE B!BronzeNext
  OBVIOUS
<1> USE DEF Bronze!topicVars, B!topicVars, Bronze!bronzeVars, B!bronzeVars,
            Bronze!checkpointVars, B!checkpointVars, Bronze!driverVars, B!driverVars,
            Bronze!queryVars, B!queryVars
<1>1. ASSUME NEW d \in BronzeDrivers, Bronze!Start(d) PROVE B!Start(d)
  BY <1>1 DEF Bronze!Start, B!Start, Bronze!StartDriver, B!StartDriver
<1>2. ASSUME NEW d \in BronzeDrivers, Bronze!Trigger(d) PROVE B!Trigger(d)
  BY <1>2, SameOperators DEF Bronze!Trigger, B!Trigger, Bronze!PlanBatch, B!PlanBatch
<1>3. ASSUME NEW d \in BronzeDrivers, Bronze!WriteFiles(d) PROVE B!WriteFiles(d)
  BY <1>3, SameOperators DEF Bronze!WriteFiles, B!WriteFiles, Bronze!BeginBatch, B!BeginBatch
<1>4. ASSUME NEW d \in BronzeDrivers, Bronze!CommitEpoch(d) PROVE B!CommitEpoch(d)
  BY <1>4, SameOperators DEF Bronze!CommitEpoch, B!CommitEpoch
<1>5. ASSUME NEW d \in BronzeDrivers, Bronze!Commit(d) PROVE B!Commit(d)
  BY <1>5, SameOperators DEF Bronze!Commit, B!Commit, Bronze!CommitBatch, B!CommitBatch,
     Bronze!Forget, B!Forget
<1>6. ASSUME NEW d \in BronzeDrivers, Bronze!Crash(d) PROVE B!Crash(d)
  BY <1>6, SameOperators DEF Bronze!Crash, B!Crash, Bronze!CrashDriver, B!CrashDriver,
     Bronze!Forget, B!Forget
<1>7. ASSUME NEW d \in BronzeDrivers, Bronze!LookUpEpoch(d) PROVE B!LookUpEpoch(d)
  BY <1>7, SameOperators DEF Bronze!LookUpEpoch, B!LookUpEpoch
<1>8. CASE Bronze!LoseCheckpoint
  BY <1>8, SameOperators DEF Bronze!LoseCheckpoint, B!LoseCheckpoint, Bronze!DeleteCheckpoint,
     B!DeleteCheckpoint, B!BronzeNext
<1> QED BY <1>1, <1>2, <1>3, <1>4, <1>5, <1>6, <1>7, <1>8
        DEF Bronze!BronzeNext, B!BronzeNext, Bronze!DriverStep, B!DriverStep

(* So is a step of the topic, which the two streams share. *)
LEMMA SameTopic == TopicNext => B!TopicNext
BY DEF TopicNext, B!TopicNext, Publish, B!Publish, Route, B!Route, Expire, B!Expire, Tick, B!Tick

(* The bronze stream starts where the instance does. *)
LEMMA SameInit == LakehouseInit => B!Init
BY SameOperators DEF LakehouseInit, Init, TopicInit, B!Init, B!TopicInit, Bronze!QueryInit,
   B!QueryInit, Bronze!BronzeInit, B!BronzeInit, Bronze!NoStamp, B!NoStamp

(* The invariant proved of the bronze stream holds of this one. *)
LEMMA BronzeKept ==
    /\ LakehouseInit => B!BronzeInv
    /\ B!BronzeInv /\ [LakehouseNext]_lakehouseVars => B!BronzeInv'
<1>1. /\ B!IsFiniteSet(Partitions) = IsFiniteSet(Partitions)
      /\ B!FrameShape = FrameShape
  BY DEF IsFiniteSet, B!IsFiniteSet, B!FrameShape, FrameShape
<1>2. B!Init => B!BronzeInv
  BY <1>1, B!BronzeInvInit, QueryAssumption, TopicAssumption, FrameAssumption,
     LakehouseAssumption DEF B!BronzeInvInit
<1>3. B!BronzeInv /\ [B!Next]_(B!vars) => B!BronzeInv'
  BY <1>1, B!BronzeInvStep, QueryAssumption, TopicAssumption, FrameAssumption,
     LakehouseAssumption DEF B!BronzeInvStep
<1>4. ASSUME [LakehouseNext]_lakehouseVars PROVE [B!Next]_(B!vars)
  <2> USE DEF B!vars, B!topicVars, B!bronzeVars, B!queryVars, B!checkpointVars, B!driverVars,
              bronzeStreamVars, topicVars
  <2>1. CASE TopicNext /\ UNCHANGED <<silverVars, queryVars, bronzeStreamVars, rebuildVars>>
    BY <2>1, SameTopic DEF B!Next
  <2>2. CASE Bronze!BronzeNext /\ UNCHANGED <<silverVars, queryVars, rebuildVars>>
    BY <2>2, SameSteps DEF B!Next
  <2>3. CASE SilverNext /\ UNCHANGED bronzeStreamVars
    <3>1. UNCHANGED topicVars
      BY <2>3 DEF SilverNext, DriverStep, Start, Trigger, RunBatch, Merge, Commit, Crash,
         LoseCheckpoint
    <3> QED BY <2>3, <3>1
  <2>4. CASE StartRebuild \/ RebuildStep \/ FinishRebuild \/ KillRebuild
    BY <2>4 DEF StartRebuild, RebuildStep, FinishRebuild, KillRebuild
  <2>5. CASE UNCHANGED lakehouseVars
    BY <2>5 DEF lakehouseVars, vars
  <2> QED BY <1>4, <2>1, <2>2, <2>3, <2>4, <2>5 DEF LakehouseNext
<1>5. ASSUME B!BronzeInv, [LakehouseNext]_lakehouseVars PROVE B!BronzeInv'
  BY <1>3, <1>4, <1>5
<1> QED BY <1>2, <1>5, SameInit

(* The lakehouse implements the bronze stream's own specification: neither *)
(* the silver stream nor a rebuild touches the bronze table or the bronze  *)
(* query's checkpoint, so what is proved of the stream alone holds here.   *)
THEOREM BronzeUndisturbed == LakehouseSpec => Bronze!Spec
<1> USE DEF Bronze!topicVars, Bronze!bronzeVars, Bronze!checkpointVars, Bronze!driverVars,
            Bronze!queryVars, Bronze!vars, bronzeStreamVars, topicVars
<1>1. LakehouseInit => Bronze!Init
  BY DEF LakehouseInit, Init, TopicInit, Bronze!Init, Bronze!TopicInit
<1>2. TopicNext => Bronze!TopicNext
  BY DEF TopicNext, Bronze!TopicNext, Publish, Bronze!Publish, Route, Bronze!Route, Expire,
     Bronze!Expire, Tick, Bronze!Tick
<1>3. ASSUME [LakehouseNext]_lakehouseVars PROVE [Bronze!Next]_(Bronze!vars)
  <2>1. CASE TopicNext /\ UNCHANGED <<silverVars, queryVars, bronzeStreamVars, rebuildVars>>
    BY <1>2, <2>1 DEF Bronze!Next
  <2>2. CASE Bronze!BronzeNext
    BY <2>2 DEF Bronze!Next
  <2>3. CASE SilverNext /\ UNCHANGED bronzeStreamVars
    <3>1. UNCHANGED topicVars
      BY <2>3 DEF SilverNext, DriverStep, Start, Trigger, RunBatch, Merge, Commit, Crash,
         LoseCheckpoint
    <3> QED BY <2>3, <3>1
  <2>4. CASE StartRebuild \/ RebuildStep \/ FinishRebuild \/ KillRebuild
    BY <2>4 DEF StartRebuild, RebuildStep, FinishRebuild, KillRebuild
  <2>5. CASE UNCHANGED lakehouseVars
    BY <2>5 DEF lakehouseVars, vars
  <2> QED BY <1>3, <2>1, <2>2, <2>3, <2>4, <2>5 DEF LakehouseNext
<1>4. LakehouseInit /\ [][LakehouseNext]_lakehouseVars
        => Bronze!Init /\ [][Bronze!Next]_(Bronze!vars)
  BY <1>1, <1>3, PTL
<1> QED BY <1>4 DEF LakehouseSpec, Bronze!Spec

-----------------------------------------------------------------------------
(* The silver stream under a rebuild.                                      *)

(* A rebuild moves no driver and only adds rows. *)
LEMMA RebuildKeepsSilver ==
    ASSUME Inv, MergeInv', Grows, UNCHANGED <<topicVars, queryVars>>,
           \A d \in Drivers : merge'[d] = merge[d]
    PROVE  Inv'
<1>1. CheckpointInv' /\ \A p \in Partitions : Confirmed(p)' = Confirmed(p)
  BY DEF Inv, CheckpointInv, TopicTypeOK, QueryTypeOK, OffsetsAtMostOneAhead, Planned,
     Follows, Confirmed, topicVars, queryVars, checkpointVars, driverVars
<1>2. \A d \in Drivers : BatchOf(d)'
  BY <1>1, BatchKept DEF Inv, queryVars, driverVars
<1>3. NothingSkipped'
  BY <1>1, StillNothingSkipped DEF Inv
<1> QED BY <1>1, <1>2, <1>3 DEF Inv

(* What the rebuild reads are candidates. *)
LEMMA FramesTyped ==
    ASSUME B!BronzeInv, NEW w
    PROVE  FramesFromBronze(w) \in SUBSET Candidate
BY DEF B!BronzeInv, B!BronzeTypeOK, B!BronzeRow, FramesFromBronze, Candidate

(* The moves of the rebuild inside merge_batch keep the silver invariant,  *)
(* leave the drivers' batches alone and only add rows.                     *)
LEMMA RebuildMoves ==
    ASSUME LakehouseInv, StartRebuild \/ RebuildStep \/ FinishRebuild \/ KillRebuild
    PROVE  /\ Inv' /\ Grows
           /\ UNCHANGED bronzeStreamVars
           /\ \A d \in Drivers : merge'[d] = merge[d]
<1>1. /\ Rebuilder \in Writers /\ Rebuilder \notin Drivers /\ Drivers \subseteq Writers
      /\ Inv /\ MergeInv /\ merge \in [Writers -> MergeState]
  BY LakehouseAssumption, SilverAssumption DEF LakehouseInv, Inv, MergeInv, SilverTypeOK
<1>2. UNCHANGED <<topicVars, queryVars>> /\ UNCHANGED bronzeStreamVars
  BY DEF StartRebuild, RebuildStep, FinishRebuild, KillRebuild
<1>3. MergeInv' /\ Grows
  <2>1. CASE StartRebuild
    <3>1. BeginMerge(Rebuilder, FramesFromBronze(window'))
      BY <2>1 DEF StartRebuild
    <3>2. FramesFromBronze(window') \in SUBSET Candidate
      BY FramesTyped DEF LakehouseInv
    <3> QED BY <1>1, <3>1, <3>2, BeginMergeKeeps
  <2>2. CASE RebuildStep
    BY <1>1, <2>2, MergeStepKeeps DEF RebuildStep
  <2>3. CASE FinishRebuild \/ KillRebuild
    BY <1>1, <2>3, EndMergeKeeps DEF FinishRebuild, KillRebuild
  <2> QED BY <2>1, <2>2, <2>3
<1>4. \A d \in Drivers : merge'[d] = merge[d]
  BY <1>1 DEF StartRebuild, RebuildStep, FinishRebuild, KillRebuild, BeginMerge, MergeStep,
     ScanEdits, AppendEdits, ScanQuarantine, AppendQuarantine, EndMerge, AbandonMerge
<1>5. Inv'
  BY <1>1, <1>2, <1>3, <1>4, RebuildKeepsSilver
<1> QED BY <1>2, <1>3, <1>4, <1>5

(* The silver invariant holds whatever the lakehouse does. *)
LEMMA SilverKept ==
    ASSUME LakehouseInv, [LakehouseNext]_lakehouseVars
    PROVE  Inv'
<1>1. CASE StartRebuild \/ RebuildStep \/ FinishRebuild \/ KillRebuild
  BY <1>1, RebuildMoves
<1>2. CASE TopicNext /\ UNCHANGED <<silverVars, queryVars>>
  BY <1>2, InvStep DEF LakehouseInv, Next
<1>3. CASE SilverNext
  BY <1>3, InvStep DEF LakehouseInv, Next
<1>4. CASE UNCHANGED <<topicVars, silverVars, queryVars>>
  BY <1>4, InvStep DEF LakehouseInv, vars
<1>5. Bronze!BronzeNext => UNCHANGED topicVars
  BY DEF Bronze!BronzeNext, Bronze!DriverStep, Bronze!Start, Bronze!Trigger, Bronze!WriteFiles,
     Bronze!LookUpEpoch, Bronze!Forget,
     Bronze!CommitEpoch, Bronze!Commit, Bronze!Crash, Bronze!LoseCheckpoint, Bronze!topicVars,
     topicVars
<1> QED BY <1>1, <1>2, <1>3, <1>4, <1>5 DEF LakehouseNext, lakehouseVars, vars

-----------------------------------------------------------------------------
(* The bronze table under a window.                                        *)

(* The bronze stream only appends, one snapshot at a time. *)
LEMMA BronzeGrows ==
    ASSUME Bronze!BronzeNext, appends \in Nat
    PROVE  /\ bronze \subseteq bronze'
           /\ appends' \in Nat /\ appends <= appends'
           /\ \A r \in bronze' \ bronze : r.snap = appends + 1 /\ appends' = appends + 1
<1>1. ASSUME NEW d, Bronze!CommitEpoch(d)
      PROVE  /\ appends' = appends + 1 /\ bronze \subseteq bronze'
             /\ \A r \in bronze' \ bronze : r.snap = appends + 1
  BY <1>1 DEF Bronze!CommitEpoch, Bronze!Rows
<1>2. CASE UNCHANGED <<bronze, appends>>
  BY <1>2
<1>3. \/ \E d \in BronzeDrivers : Bronze!CommitEpoch(d)
      \/ UNCHANGED <<bronze, appends>>
  BY DEF Bronze!BronzeNext, Bronze!DriverStep, Bronze!Start, Bronze!Trigger, Bronze!WriteFiles,
     Bronze!LookUpEpoch, Bronze!Forget,
     Bronze!Commit, Bronze!Crash, Bronze!LoseCheckpoint, Bronze!bronzeVars
<1> QED BY <1>1, <1>2, <1>3

(* What a window holds was there when its snapshot was read. *)
LEMMA WindowKept ==
    ASSUME Bronze!BronzeNext, appends \in Nat, NEW w \in Window, w.asOf <= appends
    PROVE  /\ \A r \in bronze' : InWindow(r, w) => r \in bronze
           /\ \A r \in bronze : r \in bronze'
<1>1. w.asOf \in Nat
  BY DEF Window
<1>2. ASSUME NEW r \in bronze', InWindow(r, w) PROVE r \in bronze
  <2>1. r.snap <= w.asOf
    BY <1>2 DEF InWindow
  <2> QED BY <1>1, <2>1, BronzeGrows
<1> QED BY <1>2, BronzeGrows

(* A window without a gap gets none: rows stay in the silver tables, and   *)
(* no row appears in the window.                                           *)
LEMMA NoGapKept ==
    ASSUME Grows, NEW w, NoGap(w), \A r \in bronze' : InWindow(r, w) => r \in bronze
    PROVE  NoGap(w)'
<1> SUFFICES ASSUME NEW r \in bronze', InWindow(r, w)
             PROVE  IF Verdict(r.frame, r.at) = Valid
                    THEN \E e \in edits' : e.id = r.frame.id
                    ELSE Quarantined(r.p, r.o)'
  BY DEF NoGap, InWindow, IngestDate
<1> QED BY DEF NoGap, Grows, Quarantined

(* The steps of the topic and of the two streams. *)
LEMMA StreamsKeepRebuild ==
    ASSUME LakehouseInv, Inv', B!BronzeInv', Grows,
           merge'[Rebuilder] = merge[Rebuilder], UNCHANGED <<window, completed, rebuilds>>,
           overlapped' \in BOOLEAN,
           Bronze!BronzeNext \/ UNCHANGED <<bronze, appends>>
    PROVE  LakehouseInv'
<1>1. appends \in Nat /\ appends' \in Nat /\ appends <= appends'
      /\ \A r \in bronze' : r \in bronze \/ (r.snap = appends + 1 /\ appends' = appends + 1)
  <2>1. appends \in Nat
    BY DEF LakehouseInv, B!BronzeInv, B!BronzeTypeOK
  <2>2. CASE Bronze!BronzeNext
    BY <2>1, <2>2, BronzeGrows
  <2>3. CASE UNCHANGED <<bronze, appends>>
    BY <2>1, <2>3
  <2> QED BY <2>2, <2>3
<1>2. RebuildTypeOK' /\ SnapshotsBelow'
  BY <1>1 DEF LakehouseInv, RebuildTypeOK, SnapshotsBelow, Window
<1>3. ASSUME NEW w \in Window, w.asOf <= appends
      PROVE  /\ \A r \in bronze' : InWindow(r, w) => r \in bronze
             /\ \A r \in bronze : r \in bronze'
  <2>1. CASE Bronze!BronzeNext
    BY <1>1, <1>3, <2>1, WindowKept
  <2>2. CASE UNCHANGED <<bronze, appends>>
    BY <2>2
  <2> QED BY <2>1, <2>2
<1>4. \A w \in completed' : NoGap(w)'
  BY <1>3, NoGapKept DEF LakehouseInv, SnapshotsBelow, RebuildTypeOK
<1>5. RebuildBatch'
  <2>1. \A r \in bronze' : InWindow(r, window) => r \in bronze
    BY <1>3 DEF LakehouseInv, SnapshotsBelow, RebuildTypeOK
  <2>2. \A r \in bronze : r \in bronze'
    BY <1>3 DEF LakehouseInv, SnapshotsBelow, RebuildTypeOK
  <2>3. { x \in bronze' : InWindow(x, window) } = { x \in bronze : InWindow(x, window) }
    BY <2>1, <2>2
  <2>4. FramesFromBronze(window)' = FramesFromBronze(window)
    BY <2>3 DEF FramesFromBronze, InWindow, IngestDate
  <2> QED BY <2>4 DEF LakehouseInv, RebuildBatch, Rebuilding
<1>6. RebuildTwiceChangesNothing'
  BY DEF LakehouseInv, RebuildTwiceChangesNothing
<1> QED BY <1>2, <1>4, <1>5, <1>6 DEF LakehouseInv

(* merge_batch has returned: its window has no gap. *)
LEMMA ReturnLeavesNoGap ==
    ASSUME LakehouseInv, merge[Rebuilder].step = "return"
    PROVE  NoGap(window)
<1> SUFFICES ASSUME NEW r \in bronze, InWindow(r, window)
             PROVE  IF Verdict(r.frame, r.at) = Valid
                    THEN \E e \in edits : e.id = r.frame.id
                    ELSE Quarantined(r.p, r.o)
  BY DEF NoGap
<1> DEFINE c == [p |-> r.p, o |-> r.o, frame |-> r.frame, at |-> r.at]
<1>1. c \in merge[Rebuilder].batch
  BY DEF LakehouseInv, RebuildBatch, Rebuilding, Idle, FramesFromBronze
<1>2. EditsDone(Rebuilder) /\ QuarantineDone(Rebuilder)
  BY LakehouseAssumption DEF LakehouseInv, Inv, MergeInv, Progress
<1>3. CASE Verdict(r.frame, r.at) = Valid
  <2>1. Taken(c)
    BY <1>1, <1>2, <1>3, CandidatesSplit DEF EditsDone, FailureReason
  <2> QED BY <1>3, <2>1 DEF Taken, EditsKey
<1>4. CASE Verdict(r.frame, r.at) # Valid
  <2>1. Rejected(c)
    BY <1>1, <1>2, <1>4, CandidatesSplit DEF QuarantineDone, FailureReason
  <2> QED BY <1>4, <2>1 DEF Rejected, QuarantineKey, Quarantined
<1> QED BY <1>3, <1>4

(* The anti-joins of a rebuild find nothing to insert for a window that a  *)
(* finished rebuild has covered.                                           *)
LEMMA NothingLeft ==
    ASSUME LakehouseInv, ScanEdits(Rebuilder) \/ ScanQuarantine(Rebuilder),
           NEW w \in completed,
           w.first <= window.first, window.last <= w.last, window.asOf <= w.asOf
    PROVE  merge'[Rebuilder].new = {}
<1>1. /\ merge \in [Writers -> MergeState] /\ Rebuilder \in Writers
      /\ window \in Window /\ w \in Window
  BY LakehouseAssumption DEF LakehouseInv, Inv, MergeInv, SilverTypeOK, RebuildTypeOK
<1>2. ASSUME NEW c \in merge[Rebuilder].batch
      PROVE  IF FailureReason(c) = Valid
             THEN \E e \in edits : e.id = EditsKey(c)
             ELSE \E q \in quarantine : q.p = c.p /\ q.o = c.o
  <2>1. PICK r \in bronze : /\ InWindow(r, window)
                            /\ c = [p |-> r.p, o |-> r.o, frame |-> r.frame, at |-> r.at]
    BY DEF ScanEdits, ScanQuarantine, LakehouseInv, RebuildBatch, Rebuilding, Idle,
           FramesFromBronze
  <2>2. r.at \in Nat /\ r.snap \in Nat
    BY DEF LakehouseInv, SnapshotsBelow, B!BronzeInv, B!BronzeTypeOK, B!BronzeRow
  <2>3. IngestDate(r.at) \in Int
    BY <2>2, LakehouseAssumption DEF IngestDate
  <2>4. InWindow(r, w)
    BY <1>1, <2>1, <2>2, <2>3 DEF InWindow, Window
  <2>5. NoGap(w)
    BY DEF LakehouseInv
  <2> QED BY <2>1, <2>4, <2>5 DEF NoGap, FailureReason, EditsKey, Quarantined
<1>3. CASE ScanEdits(Rebuilder)
  <2>1. PICK S \in ValidRows(merge[Rebuilder].batch) :
          merge' = [merge EXCEPT ![Rebuilder].step = "append_edits",
                                 ![Rebuilder].new = { c \in S : \A r \in edits : r.id # EditsKey(c) }]
    BY <1>3 DEF ScanEdits
  <2>2. S \subseteq ValidCandidates(merge[Rebuilder].batch)
    BY DEF ValidRows
  <2>3. merge'[Rebuilder].new = { c \in S : \A r \in edits : r.id # EditsKey(c) }
    BY <1>1, <2>1 DEF MergeState
  <2> QED BY <1>2, <2>2, <2>3, CandidatesSplit
<1>4. CASE ScanQuarantine(Rebuilder)
  <2>1. PICK S \in QuarantineRows(merge[Rebuilder].batch) :
          merge' = [merge EXCEPT
                      ![Rebuilder].step = "append_quarantine",
                      ![Rebuilder].new = { c \in S : \A r \in quarantine :
                                                       <<r.p, r.o>> # QuarantineKey(c) }]
    BY <1>4 DEF ScanQuarantine
  <2>2. S \subseteq FailedCandidates(merge[Rebuilder].batch)
    BY DEF QuarantineRows
  <2>3. merge'[Rebuilder].new = { c \in S : \A r \in quarantine : <<r.p, r.o>> # QuarantineKey(c) }
    BY <1>1, <2>1 DEF MergeState
  <2> QED BY <1>2, <2>2, <2>3, CandidatesSplit DEF QuarantineKey
<1> QED BY <1>3, <1>4

(* A rebuild starts with the window of the committed snapshot. *)
LEMMA StartKeepsRebuild ==
    ASSUME LakehouseInv, Inv', B!BronzeInv', Grows, StartRebuild
    PROVE  LakehouseInv'
<1>1. /\ merge \in [Writers -> MergeState] /\ Rebuilder \in Writers
      /\ appends \in Nat /\ clock \in Nat
  BY LakehouseAssumption DEF LakehouseInv, Inv, MergeInv, SilverTypeOK, CheckpointInv,
     TopicTypeOK, B!BronzeInv, B!BronzeTypeOK
<1>2. /\ UNCHANGED <<bronze, appends, completed>>
      /\ rebuilds' = rebuilds + 1 /\ overlapped' \in BOOLEAN
      /\ BeginMerge(Rebuilder, FramesFromBronze(window'))
  BY DEF StartRebuild, bronzeStreamVars
<1>3. PICK first, last \in 0..IngestDate(clock) :
        window' = [first |-> first, last |-> last, asOf |-> appends]
  BY DEF StartRebuild
<1>4. window' \in Window /\ window'.asOf = appends
  BY <1>1, <1>3 DEF Window
<1>5. RebuildTypeOK' /\ SnapshotsBelow'
  BY <1>1, <1>2, <1>4 DEF LakehouseInv, RebuildTypeOK, SnapshotsBelow
<1>6. /\ merge'[Rebuilder].batch = FramesFromBronze(window')
      /\ merge'[Rebuilder].new = {}
  BY <1>1, <1>2 DEF BeginMerge
<1>7. RebuildBatch'
  BY <1>2, <1>6 DEF RebuildBatch, FramesFromBronze, InWindow, IngestDate
<1>8. \A w \in completed' : NoGap(w)'
  BY <1>2, NoGapKept DEF LakehouseInv
<1>9. RebuildTwiceChangesNothing'
  BY <1>6 DEF RebuildTwiceChangesNothing
<1> QED BY <1>5, <1>7, <1>8, <1>9 DEF LakehouseInv

(* The rebuild goes on with its window, finishes it or dies. *)
LEMMA GoingOnKeepsRebuild ==
    ASSUME LakehouseInv, Inv', B!BronzeInv', Grows,
           RebuildStep \/ FinishRebuild \/ KillRebuild
    PROVE  LakehouseInv'
<1>1. merge \in [Writers -> MergeState] /\ Rebuilder \in Writers
  BY LakehouseAssumption DEF LakehouseInv, Inv, MergeInv, SilverTypeOK
<1>2. UNCHANGED <<bronze, appends, window, rebuilds, overlapped>>
  BY DEF RebuildStep, FinishRebuild, KillRebuild, rebuildVars, bronzeStreamVars
<1>3. \A w : NoGap(w) => NoGap(w)'
  BY <1>2, NoGapKept
<1>4. CASE RebuildStep
  <2>1. completed' = completed
    BY <1>4 DEF RebuildStep, rebuildVars
  <2>2. merge'[Rebuilder].batch = merge[Rebuilder].batch /\ Rebuilding
    BY <1>1, <1>4 DEF RebuildStep, MergeStep, ScanEdits, AppendEdits, ScanQuarantine,
       AppendQuarantine, MergeState, Rebuilding, Idle
  <2>3. RebuildBatch'
    BY <1>2, <2>2 DEF LakehouseInv, RebuildBatch, FramesFromBronze, InWindow, IngestDate
  <2>4. RebuildTwiceChangesNothing'
    <3>1. CASE ScanEdits(Rebuilder) \/ ScanQuarantine(Rebuilder)
      BY <1>2, <2>1, <3>1, NothingLeft DEF RebuildTwiceChangesNothing
    <3>2. CASE AppendEdits(Rebuilder) \/ AppendQuarantine(Rebuilder)
      <4>1. merge'[Rebuilder].new = {}
        BY <1>1, <3>2 DEF AppendEdits, AppendQuarantine, MergeState
      <4> QED BY <4>1 DEF RebuildTwiceChangesNothing
    <3> QED BY <1>4, <3>1, <3>2 DEF RebuildStep, MergeStep
  <2> QED BY <1>2, <1>3, <2>1, <2>3, <2>4 DEF LakehouseInv, RebuildTypeOK, SnapshotsBelow
<1>5. CASE FinishRebuild \/ KillRebuild
  <2>1. merge'[Rebuilder] = NotMerging
    BY <1>1, <1>5 DEF FinishRebuild, KillRebuild, EndMerge, AbandonMerge
  <2>2. RebuildBatch' /\ RebuildTwiceChangesNothing'
    BY <2>1 DEF NotMerging, RebuildBatch, Rebuilding, RebuildTwiceChangesNothing
  <2>3. completed' = completed \/ (completed' = completed \cup {window} /\ NoGap(window))
    BY <1>5, ReturnLeavesNoGap DEF FinishRebuild, KillRebuild, EndMerge, rebuildVars
  <2>4. /\ \A w \in completed' : NoGap(w)'
        /\ completed' \subseteq Window /\ \A w \in completed' : w.asOf <= appends
    BY <1>3, <2>3 DEF LakehouseInv, RebuildTypeOK, SnapshotsBelow
  <2> QED BY <1>2, <2>2, <2>4 DEF LakehouseInv, RebuildTypeOK, SnapshotsBelow
<1> QED BY <1>4, <1>5

(* The silver stream only adds rows, and leaves the rebuild alone. *)
LEMMA SilverGrows ==
    ASSUME Inv, SilverNext
    PROVE  Grows /\ merge'[Rebuilder] = merge[Rebuilder]
<1>1. merge \in [Writers -> MergeState] /\ Rebuilder \in Writers /\ Drivers \subseteq Writers
      /\ Rebuilder \notin Drivers
  BY LakehouseAssumption, SilverAssumption DEF Inv, MergeInv, SilverTypeOK
<1>2. ASSUME NEW d \in Drivers, Merge(d)
      PROVE  Grows /\ merge'[Rebuilder] = merge[Rebuilder]
  <2>1. Grows
    BY <1>1, <1>2, MergeStepKeeps DEF Inv, Merge
  <2> QED BY <1>1, <1>2, <2>1 DEF Merge, MergeStep, ScanEdits, AppendEdits, ScanQuarantine,
             AppendQuarantine
<1>3. ASSUME NEW d \in Drivers, RunBatch(d) \/ Commit(d) \/ Crash(d)
      PROVE  Grows /\ merge'[Rebuilder] = merge[Rebuilder]
  BY <1>1, <1>3 DEF RunBatch, Commit, Crash, BeginMerge, EndMerge, AbandonMerge, Grows
<1>4. UNCHANGED silverVars => Grows /\ merge'[Rebuilder] = merge[Rebuilder]
  BY DEF silverVars, Grows
<1> QED BY <1>2, <1>3, <1>4 DEF SilverNext, DriverStep, Start, Trigger, LoseCheckpoint

(* Every step of the lakehouse keeps the invariant. *)
LEMMA LakehouseStep == LakehouseInv /\ [LakehouseNext]_lakehouseVars => LakehouseInv'
<1> SUFFICES ASSUME LakehouseInv, [LakehouseNext]_lakehouseVars PROVE LakehouseInv'
  OBVIOUS
<1>1. Inv' /\ B!BronzeInv'
  BY SilverKept, BronzeKept DEF LakehouseInv
<1>2. UNCHANGED silverVars => Grows /\ merge'[Rebuilder] = merge[Rebuilder]
  BY DEF silverVars, Grows
<1>3. overlapped \in BOOLEAN
  BY DEF LakehouseInv, RebuildTypeOK
<1>4. CASE StartRebuild
  BY <1>1, <1>4, RebuildMoves, StartKeepsRebuild
<1>5. CASE RebuildStep \/ FinishRebuild \/ KillRebuild
  BY <1>1, <1>5, RebuildMoves, GoingOnKeepsRebuild
<1>6. CASE TopicNext /\ UNCHANGED <<silverVars, queryVars, bronzeStreamVars, rebuildVars>>
  BY <1>1, <1>2, <1>3, <1>6, StreamsKeepRebuild DEF bronzeStreamVars, rebuildVars
<1>7. CASE /\ SilverNext
           /\ overlapped' = (overlapped \/ (Rebuilding /\ Streaming'))
           /\ UNCHANGED <<bronzeStreamVars, window, completed, rebuilds>>
  <2>1. Grows /\ merge'[Rebuilder] = merge[Rebuilder]
    BY <1>7, SilverGrows DEF LakehouseInv
  <2>2. overlapped' \in BOOLEAN
    BY <1>3, <1>7 DEF Rebuilding, Streaming
  <2> QED BY <1>1, <1>7, <2>1, <2>2, StreamsKeepRebuild DEF bronzeStreamVars
<1>8. CASE Bronze!BronzeNext /\ UNCHANGED <<silverVars, queryVars, rebuildVars>>
  BY <1>1, <1>2, <1>3, <1>8, StreamsKeepRebuild DEF rebuildVars
<1>9. CASE UNCHANGED lakehouseVars
  BY <1>1, <1>2, <1>3, <1>9, StreamsKeepRebuild DEF lakehouseVars, vars, bronzeStreamVars, rebuildVars
<1> QED BY <1>4, <1>5, <1>6, <1>7, <1>8, <1>9 DEF LakehouseNext

(* Nothing has run yet. *)
LEMMA LakehouseStarts == LakehouseInit => LakehouseInv
<1> SUFFICES ASSUME LakehouseInit PROVE LakehouseInv
  OBVIOUS
<1>1. Inv /\ B!BronzeInv
  BY InvInit, BronzeKept DEF LakehouseInit
<1>2. RebuildTypeOK /\ SnapshotsBelow
  <2>1. /\ bronze = {} /\ appends = 0 /\ completed = {} /\ window = NoWindow
        /\ rebuilds = 0 /\ overlapped = FALSE
    BY DEF LakehouseInit, Bronze!BronzeInit
  <2>2. NoWindow \in Window /\ NoWindow.asOf = 0
    BY DEF NoWindow, Window
  <2>3. SnapshotsBelow
    BY <2>1, <2>2 DEF SnapshotsBelow
  <2>4. overlapped \in BOOLEAN /\ rebuilds \in Nat
    BY <2>1
  <2> QED BY <2>1, <2>2, <2>3, <2>4 DEF RebuildTypeOK
<1>3. merge[Rebuilder] = NotMerging /\ completed = {}
  BY LakehouseAssumption DEF LakehouseInit, Init, SilverInit
<1>4. RebuildBatch /\ RebuildTwiceChangesNothing
  BY <1>3 DEF NotMerging, RebuildBatch, Rebuilding, RebuildTwiceChangesNothing
<1> QED BY <1>1, <1>2, <1>3, <1>4 DEF LakehouseInv

(* The invariant of both streams and the rebuild holds always. *)
LEMMA LakehouseAlways == LakehouseSpec => []LakehouseInv
BY LakehouseStarts, LakehouseStep, PTL DEF LakehouseSpec

-----------------------------------------------------------------------------
(* Every variable of the three keeps its type. *)
THEOREM LakehouseTypeCorrect == LakehouseSpec => []LakehouseTypeOK
<1>1. ASSUME LakehouseInv PROVE LakehouseTypeOK
  <2>1. TypeOK
    BY <1>1 DEF LakehouseInv, Inv, CheckpointInv, MergeInv, TypeOK
  <2>2. Bronze!TypeOK
    BY <1>1 DEF LakehouseInv, B!BronzeInv, B!CheckpointInv, B!TopicTypeOK, B!QueryTypeOK,
       B!BronzeTypeOK, B!Plan, B!Offsets, B!DriverStates, B!BronzeRow, B!StagedRow,
       Bronze!TypeOK, Bronze!TopicTypeOK, Bronze!QueryTypeOK, Bronze!BronzeTypeOK, Bronze!Plan,
       Bronze!Offsets, Bronze!DriverStates, Bronze!BronzeRow, Bronze!StagedRow,
       B!SinkStates, Bronze!SinkStates
  <2> QED BY <1>1, <2>1, <2>2 DEF LakehouseInv, RebuildTypeOK, LakehouseTypeOK
<1> QED BY <1>1, LakehouseAlways, PTL

(* A finished rebuild leaves no gap (runbook entry 7), whatever the        *)
(* streams append, crash or lose meanwhile: the window is read in one      *)
(* snapshot of bronze, and merge_batch returns after both MERGEs.          *)
THEOREM RebuildNeverLeavesGap == LakehouseSpec => []RebuildLeavesNoGap
<1>1. LakehouseInv => RebuildLeavesNoGap
  BY ReturnLeavesNoGap DEF NoGap, RebuildLeavesNoGap
<1> QED BY <1>1, LakehouseAlways, PTL

(* Running a rebuild twice changes nothing (rebuild_silver.py): the second *)
(* one's anti-joins find every key, because bronze's own ingested_at gives *)
(* each row the verdict it had the first time.                             *)
THEOREM RebuildIsIdempotent == LakehouseSpec => []RebuildTwiceChangesNothing
<1>1. LakehouseInv => RebuildTwiceChangesNothing
  BY DEF LakehouseInv
<1> QED BY <1>1, LakehouseAlways, PTL

(* A rebuild, concurrent or not, makes the stream drop nothing. *)
THEOREM NothingSkippedUnderRebuild == LakehouseSpec => []NothingSkipped
<1>1. LakehouseInv => NothingSkipped
  BY DEF LakehouseInv, Inv
<1> QED BY <1>1, LakehouseAlways, PTL

-----------------------------------------------------------------------------
(* The keys of the silver tables, one driver of the silver stream running. *)

(* Then nobody else is inside merge_batch with the writer that is. *)
LEMMA OneWriterAtOnce ==
    ASSUME OneDriver, MergingRuns, ~(Rebuilding /\ Streaming)
    PROVE  OneWriter
BY DEF OneDriver, MergingRuns, Rebuilding, Streaming, OneWriter

(* A step of a writer inside merge_batch keeps the keys. *)
LEMMA MergeStepUnique ==
    ASSUME UniqueInv, OneWriter, MergeInv, NEW w \in Writers, MergeStep(w)
    PROVE  UniqueInv'
BY ScanKeepsUnique, AppendEditsUnique, AppendQuarantineUnique DEF MergeStep

(* Only the drivers in a micro-batch, and the rebuild, merge. *)
LEMMA MergingRunsKept ==
    ASSUME LakehouseInv, MergingRuns, [LakehouseNext]_lakehouseVars
    PROVE  MergingRuns'
<1>1. /\ merge \in [Writers -> MergeState] /\ Rebuilder \in Writers /\ Drivers \subseteq Writers
      /\ Rebuilder \notin Drivers /\ running \in [Drivers -> DriverStates]
  BY LakehouseAssumption, SilverAssumption DEF LakehouseInv, Inv, MergeInv, SilverTypeOK,
     CheckpointInv, QueryTypeOK
<1>2. CASE UNCHANGED <<merge, running>>
  BY <1>2 DEF MergingRuns
<1>3. ASSUME NEW d \in Drivers, DriverStep(d) \/ Crash(d)
      PROVE  MergingRuns'
  <2>1. \A w \in Writers \ {d} : merge'[w] = merge[w]
    BY <1>1, <1>3 DEF DriverStep, Start, Trigger, RunBatch, Merge, Commit, Crash, silverVars,
       BeginMerge, MergeStep, ScanEdits, AppendEdits, ScanQuarantine, AppendQuarantine,
       EndMerge, AbandonMerge
  <2>2. \A e \in Drivers \ {d} : running'[e] = running[e]
    BY <1>1, <1>3 DEF DriverStep, Start, Trigger, RunBatch, Merge, Commit, Crash, StartDriver,
       PlanBatch, BeginBatch, CommitBatch, CrashDriver, StopDriver, queryVars, driverVars
  <2>3. CASE Start(d) \/ Trigger(d)
    <3>1. merge' = merge /\ running[d] # "writing"
      BY <2>3 DEF Start, Trigger, StartDriver, PlanBatch, silverVars
    <3> QED BY <1>1, <2>2, <3>1 DEF MergingRuns
  <2>4. CASE RunBatch(d) \/ Merge(d)
    <3>1. running'[d] = "writing"
      BY <1>1, <2>4 DEF RunBatch, BeginBatch, Merge, queryVars, driverVars
    <3> QED BY <1>1, <2>1, <2>2, <3>1 DEF MergingRuns
  <2>5. CASE Commit(d) \/ Crash(d)
    <3>1. merge'[d].step = Idle
      BY <1>1, <2>5 DEF Commit, Crash, EndMerge, AbandonMerge, NotMerging
    <3> QED BY <1>1, <2>1, <2>2, <3>1 DEF MergingRuns
  <2> QED BY <1>3, <2>3, <2>4, <2>5 DEF DriverStep
<1>4. CASE StartRebuild \/ RebuildStep \/ FinishRebuild \/ KillRebuild
  <2>1. \A w \in Writers \ {Rebuilder} : merge'[w] = merge[w]
    BY <1>1, <1>4 DEF StartRebuild, RebuildStep, FinishRebuild, KillRebuild, BeginMerge,
       MergeStep, ScanEdits, AppendEdits, ScanQuarantine, AppendQuarantine, EndMerge,
       AbandonMerge
  <2>2. running' = running
    BY <1>4 DEF StartRebuild, RebuildStep, FinishRebuild, KillRebuild, queryVars, driverVars
  <2> QED BY <1>1, <2>1, <2>2 DEF MergingRuns
<1>5. CASE SilverNext
  BY <1>2, <1>3, <1>5 DEF SilverNext, LoseCheckpoint, DeleteCheckpoint, silverVars
<1> QED BY <1>2, <1>4, <1>5 DEF LakehouseNext, lakehouseVars, vars, silverVars, queryVars,
           driverVars

(* The keys hold while no rebuild has met the stream. *)
LEMMA KeysKept ==
    ASSUME OneDriver, LakehouseInv, KeysInv, [LakehouseNext]_lakehouseVars
    PROVE  KeysInv'
<1>1. MergingRuns'
  BY MergingRunsKept DEF KeysInv
<1> SUFFICES ASSUME ~overlapped' PROVE UniqueInv' /\ ~(Rebuilding /\ Streaming)'
  BY <1>1 DEF KeysInv
<1>2. /\ MergeInv /\ merge \in [Writers -> MergeState] /\ Rebuilder \in Writers
      /\ Drivers \subseteq Writers /\ Rebuilder \notin Drivers
  BY LakehouseAssumption, SilverAssumption DEF LakehouseInv, Inv, MergeInv, SilverTypeOK
<1>3. ~overlapped
  BY DEF LakehouseNext, lakehouseVars, rebuildVars, StartRebuild, RebuildStep, FinishRebuild,
         KillRebuild
<1>4. UniqueInv /\ ~(Rebuilding /\ Streaming) /\ OneWriter
  BY <1>3, OneWriterAtOnce DEF KeysInv
<1>5. UNCHANGED silverVars => UniqueInv'
  BY <1>4, UniqueUnmoved
<1>6. CASE SilverNext /\ overlapped' = (overlapped \/ (Rebuilding /\ Streaming'))
  <2>1. merge'[Rebuilder] = merge[Rebuilder]
    BY <1>6, SilverGrows DEF LakehouseInv
  <2>2. ~(Rebuilding /\ Streaming)'
    BY <1>6, <2>1 DEF Rebuilding
  <2>3. ASSUME NEW d \in Drivers, Merge(d) PROVE UniqueInv'
    BY <1>2, <1>4, <2>3, MergeStepUnique DEF Merge
  <2>4. ASSUME NEW d \in Drivers, RunBatch(d) \/ Commit(d) \/ Crash(d) PROVE UniqueInv'
    <3>1. \/ \E R : BeginMerge(d, R)
          \/ EndMerge(d)
          \/ AbandonMerge(d)
      BY <2>4 DEF RunBatch, Commit, Crash
    <3> QED BY <1>2, <1>4, <3>1, MovesKeepUnique
  <2>5. UniqueInv'
    BY <1>5, <1>6, <2>3, <2>4 DEF SilverNext, DriverStep, Start, Trigger, LoseCheckpoint
  <2> QED BY <2>2, <2>5
<1>7. CASE StartRebuild
  <2>1. UniqueInv'
    <3>1. \E R : BeginMerge(Rebuilder, R)
      BY <1>7 DEF StartRebuild
    <3> QED BY <1>2, <1>4, <3>1, MovesKeepUnique
  <2>2. ~Streaming'
    BY <1>7 DEF StartRebuild, Streaming, queryVars, driverVars
  <2> QED BY <2>1, <2>2
<1>8. CASE RebuildStep
  <2>1. UniqueInv'
    BY <1>2, <1>4, <1>8, MergeStepUnique DEF RebuildStep
  <2>2. Rebuilding /\ UNCHANGED running
    BY <1>8 DEF RebuildStep, MergeStep, ScanEdits, AppendEdits, ScanQuarantine,
       AppendQuarantine, Rebuilding, Idle, queryVars, driverVars
  <2> QED BY <1>4, <2>1, <2>2 DEF Streaming
<1>9. CASE FinishRebuild \/ KillRebuild
  <2>1. UniqueInv'
    <3>1. EndMerge(Rebuilder) \/ AbandonMerge(Rebuilder)
      BY <1>9 DEF FinishRebuild, KillRebuild
    <3> QED BY <1>2, <1>4, <3>1, MovesKeepUnique
  <2>2. ~Rebuilding'
    BY <1>2, <1>9 DEF FinishRebuild, KillRebuild, EndMerge, AbandonMerge, NotMerging, Rebuilding
  <2> QED BY <2>1, <2>2
<1>10. CASE UNCHANGED <<silverVars, queryVars>>
  <2>1. UNCHANGED <<merge, running>> /\ UniqueInv'
    BY <1>5, <1>10 DEF silverVars, queryVars, driverVars
  <2> QED BY <1>4, <2>1 DEF Rebuilding, Streaming
<1> QED BY <1>6, <1>7, <1>8, <1>9, <1>10 DEF LakehouseNext, lakehouseVars, vars

(* KeysInv holds in every reachable state. *)
LEMMA KeysAlways ==
    ASSUME OneDriver
    PROVE  LakehouseSpec => []KeysInv
<1>1. LakehouseInit => KeysInv
  <2> SUFFICES ASSUME LakehouseInit PROVE KeysInv
    OBVIOUS
  <2>1. \A w \in Writers : merge[w] = NotMerging
    BY DEF LakehouseInit, Init, SilverInit
  <2>2. MergingRuns /\ ~Rebuilding
    BY <2>1, SilverAssumption, LakehouseAssumption DEF NotMerging, MergingRuns, Rebuilding
  <2>3. UniqueInv
    BY <2>1 DEF LakehouseInit, Init, SilverInit, UniqueInv, EditsUnique, QuarantineUnique,
       Fresh, NotMerging, Idle
  <2> QED BY <2>2, <2>3 DEF KeysInv
<1>2. LakehouseInv /\ KeysInv /\ [LakehouseNext]_lakehouseVars => KeysInv'
  BY KeysKept
<1> QED BY <1>1, <1>2, LakehouseAlways, PTL DEF LakehouseSpec

(* The keys of both tables survive a rebuild as long as the silver stream  *)
(* is stopped meanwhile, even from a bronze table that holds records twice *)
(* after a checkpoint loss: deduplicate takes one of them.                 *)
THEOREM KeysSurviveRebuild ==
    ASSUME OneDriver
    PROVE  LakehouseSpec => []RebuildKeepsKeys
<1>1. KeysInv => RebuildKeepsKeys
  BY DEF KeysInv, UniqueInv, RebuildKeepsKeys
<1> QED BY <1>1, KeysAlways, PTL

(* The contract of silver's readers holds of the whole lakehouse as long   *)
(* as no rebuild meets the silver stream: whoever calls merge_batch, each  *)
(* commit shows up whole, takes nothing away and brings new keys only.     *)
THEOREM LakehouseMeetsContract ==
    ASSUME OneDriver
    PROVE  LakehouseSpec =>
               Contract!Init /\ [][~overlapped' => Contract!Next]_<<edits, quarantine>>
<1>1. LakehouseInit => Contract!Init
  BY DEF LakehouseInit, Init, SilverInit, Contract!Init
<1>2. LakehouseInv /\ KeysInv /\ [LakehouseNext]_lakehouseVars =>
        [~overlapped' => Contract!Next]_<<edits, quarantine>>
  <2> SUFFICES ASSUME LakehouseInv, KeysInv, [LakehouseNext]_lakehouseVars, ~overlapped'
               PROVE  Contract!Next \/ UNCHANGED <<edits, quarantine>>
    OBVIOUS
  <2>1. /\ MergeInv /\ Rebuilder \in Writers /\ Drivers \subseteq Writers
    BY LakehouseAssumption, SilverAssumption DEF LakehouseInv, Inv
  <2>2. ~overlapped
    BY DEF LakehouseNext, lakehouseVars, rebuildVars, StartRebuild, RebuildStep, FinishRebuild,
           KillRebuild
  <2>3. UniqueInv /\ OneWriter
    BY <2>2, OneWriterAtOnce DEF KeysInv
  <2>4. ASSUME NEW w \in Writers, MergeStep(w)
        PROVE  Contract!Next \/ UNCHANGED <<edits, quarantine>>
    BY <2>1, <2>3, <2>4, MergeMeetsContract
  <2>5. CASE SilverNext
    <3>1. ASSUME NEW d \in Drivers, DriverStep(d) \/ Crash(d), ~Merge(d)
          PROVE  UNCHANGED <<edits, quarantine>>
      BY <3>1 DEF DriverStep, Start, Trigger, RunBatch, Commit, Crash, BeginMerge, EndMerge,
         AbandonMerge, silverVars
    <3> QED BY <2>1, <2>4, <2>5, <3>1 DEF SilverNext, Merge, LoseCheckpoint, silverVars
  <2>6. CASE StartRebuild \/ RebuildStep \/ FinishRebuild \/ KillRebuild
    BY <2>1, <2>4, <2>6 DEF StartRebuild, RebuildStep, FinishRebuild, KillRebuild, BeginMerge,
       EndMerge, AbandonMerge
  <2>7. CASE UNCHANGED silverVars
    BY <2>7 DEF silverVars
  <2> QED BY <2>5, <2>6, <2>7 DEF LakehouseNext, lakehouseVars, vars
<1> QED BY <1>1, <1>2, LakehouseAlways, KeysAlways, PTL DEF LakehouseSpec

=============================================================================
