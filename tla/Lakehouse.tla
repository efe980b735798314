------------------------------ MODULE Lakehouse ------------------------------
(***************************************************************************)
(* Both streams on one topic, and rebuild_silver.py, which replays a range *)
(* of bronze through merge_batch (rebuild_from_bronze in silver.py).       *)
(*                                                                         *)
(* The silver stream is the module extended here; the bronze stream is an  *)
(* instance with its own checkpoint and drivers.  The two never read each  *)
(* other's state: they meet in the topic, and a rebuild carries rows from  *)
(* bronze to silver.                                                       *)
(***************************************************************************)
EXTENDS SilverStream

CONSTANTS
    BronzeDrivers,  \* the driver processes of the bronze query
    BronzeCrashes,  \* bound: crashes of the bronze query
    BronzeLosses,   \* bound: losses of its checkpoint
    TicksPerDay,    \* clock ticks in one ingest_date
    MaxRebuilds     \* bound: runs of rebuild_silver.py

Rebuilder == "rebuild"

ASSUME LakehouseAssumption == /\ Rebuilder \in Writers \ Drivers
                              /\ TicksPerDay \in Nat \ {0}
                              /\ BronzeCrashes \in Nat
                              /\ BronzeLosses \in Nat
                              /\ MaxRebuilds \in Nat

VARIABLES
    bronze, lastStamp, appends, staged, sink,               \* as in BronzeStream
    bPlan, bCommitted, bRunning, bCurrent, bCrashes, bLosses,
    window,     \* the ingest dates and the bronze snapshot the rebuild reads
    completed,  \* the windows of rebuilds that have finished
    rebuilds,   \* rebuilds started so far
    overlapped  \* history: a rebuild ran while the silver stream did; nothing
                \* in the code prevents it

Bronze == INSTANCE BronzeStream WITH
    Drivers <- BronzeDrivers, MaxCrashes <- BronzeCrashes, MaxLosses <- BronzeLosses,
    plan <- bPlan, committed <- bCommitted, running <- bRunning,
    current <- bCurrent, crashes <- bCrashes, losses <- bLosses

bronzeStreamVars == <<bronze, lastStamp, appends, staged, sink,
                      bPlan, bCommitted, bRunning, bCurrent, bCrashes, bLosses>>
rebuildVars == <<window, completed, rebuilds, overlapped>>
lakehouseVars == <<vars, bronzeStreamVars, rebuildVars>>

Window == [first: Nat, last: Nat, asOf: Nat]
NoWindow == [first |-> 0, last |-> 0, asOf |-> 0]

LakehouseTypeOK == /\ TypeOK
                   /\ Bronze!TypeOK
                   /\ window \in Window
                   /\ completed \subseteq Window
                   /\ rebuilds \in Nat
                   /\ overlapped \in BOOLEAN

LakehouseInit == /\ Init
                 /\ Bronze!QueryInit
                 /\ Bronze!BronzeInit
                 /\ window = NoWindow
                 /\ completed = {}
                 /\ rebuilds = 0
                 /\ overlapped = FALSE

-----------------------------------------------------------------------------
IngestDate(at) == at \div TicksPerDay

(* The bronze rows of a window: ingest_date BETWEEN first AND last, in the *)
(* snapshot the script reads.                                              *)
InWindow(r, w) == /\ w.first <= IngestDate(r.at)
                  /\ IngestDate(r.at) <= w.last
                  /\ r.snap <= w.asOf

(* Mutants of FramesFromBronze: the last date is left out; the rebuild's   *)
(* own clock is the reference time.                                        *)
FramesOfHalfOpen(w) ==
    { [p |-> r.p, o |-> r.o, frame |-> r.frame, at |-> r.at]
        : r \in { x \in bronze : InWindow(x, w) /\ IngestDate(x.at) < w.last } }
FramesJudgedNow(w) ==
    { [p |-> r.p, o |-> r.o, frame |-> r.frame, at |-> clock]
        : r \in { x \in bronze : InWindow(x, w) } }

(* frames_from_bronze: a projection; ingested_at is bronze's. *)
FramesFromBronze(w) ==
    { [p |-> r.p, o |-> r.o, frame |-> r.frame, at |-> r.at]
        : r \in { x \in bronze : InWindow(x, w) } }

Rebuilding == merge[Rebuilder].step # Idle
Streaming == \E d \in Drivers : running[d] # "down"

(* make rebuild-silver FROM=first TO=last *)
StartRebuild ==
    /\ rebuilds < MaxRebuilds
    /\ \E first, last \in 0..IngestDate(clock) :
         /\ first <= last
         /\ window' = [first |-> first, last |-> last, asOf |-> appends]
    /\ BeginMerge(Rebuilder, FramesFromBronze(window'))
    /\ rebuilds' = rebuilds + 1
    /\ overlapped' = (overlapped \/ Streaming)
    /\ UNCHANGED <<topicVars, queryVars, bronzeStreamVars, completed>>

RebuildStep == /\ MergeStep(Rebuilder)
               /\ UNCHANGED <<topicVars, queryVars, bronzeStreamVars, rebuildVars>>

FinishRebuild == /\ EndMerge(Rebuilder)
                 /\ completed' = completed \cup {window}
                 /\ UNCHANGED <<topicVars, queryVars, bronzeStreamVars,
                                 window, rebuilds, overlapped>>

KillRebuild == /\ Rebuilding
               /\ AbandonMerge(Rebuilder)
               /\ UNCHANGED <<topicVars, queryVars, bronzeStreamVars, rebuildVars>>

LakehouseNext ==
    \/ TopicNext /\ UNCHANGED <<silverVars, queryVars, bronzeStreamVars, rebuildVars>>
    \/ /\ SilverNext
       /\ overlapped' = (overlapped \/ (Rebuilding /\ Streaming'))
       /\ UNCHANGED <<bronzeStreamVars, window, completed, rebuilds>>
    \/ Bronze!BronzeNext /\ UNCHANGED <<silverVars, queryVars, rebuildVars>>
    \/ StartRebuild \/ RebuildStep \/ FinishRebuild \/ KillRebuild

LakehouseSpec == LakehouseInit /\ [][LakehouseNext]_lakehouseVars

-----------------------------------------------------------------------------
(* A finished rebuild leaves no gap (runbook entry 7, "Silver is missing   *)
(* rows that bronze has"): every bronze row of its window is in the table  *)
(* its own verdict names, whatever the streams did meanwhile.              *)
RebuildLeavesNoGap ==
    merge[Rebuilder].step = "return" =>
        \A r \in bronze :
            InWindow(r, window) =>
                IF Verdict(r.frame, r.at) = Valid
                THEN \E e \in edits : e.id = r.frame.id
                ELSE Quarantined(r.p, r.o)

(* The keys of both tables survive a rebuild, even from a bronze table     *)
(* that holds a record twice after a checkpoint loss, as long as the       *)
(* silver stream is stopped meanwhile: the two MERGEs know nothing of      *)
(* those of a concurrent writer.                                           *)
RebuildKeepsKeys == ~overlapped => EditsUnique /\ QuarantineUnique

(* Running a rebuild twice changes nothing (rebuild_silver.py; silver.py,  *)
(* rebuild_from_bronze): in a window a finished rebuild has covered, the   *)
(* anti-joins of a later one leave no row to insert.                       *)
RebuildTwiceChangesNothing ==
    (\E w \in completed : /\ w.first <= window.first
                          /\ window.last <= w.last
                          /\ window.asOf <= w.asOf)
        => merge[Rebuilder].new = {}

=============================================================================
