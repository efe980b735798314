-------------------------- MODULE BronzeMaintenance --------------------------
(***************************************************************************)
(* make maintain on bronze.recentchange_raw while its stream runs, is down *)
(* or comes back (scripts/maintain_tables.py, src/wikistream/maintenance.  *)
(* py): rewrite_data_files, rewrite_manifests, expire_snapshots and        *)
(* remove_orphan_files, between two row counts.                            *)
(*                                                                         *)
(* BronzeStream says which rows the stream has appended; this module adds  *)
(* the files that hold them.  It takes the table for one partition, which  *)
(* is what a compaction merges, and leaves the loss of the checkpoint to   *)
(* BronzeStream.                                                           *)
(***************************************************************************)
EXTENDS BronzeStream

CONSTANTS
    RETAIN_LAST_SNAPSHOTS,  \* snapshots expiry never drops, however old
    MIN_INPUT_FILES,        \* files it takes to make a compaction worth it
    SnapshotAge,            \* --snapshot-age-hours, in ticks
    OrphanAge,              \* --orphan-age-hours, in ticks
    CommitTime,             \* a file is committed within so many ticks, or never
    MaxUpkeeps              \* bound: runs of maintain_tables.py

(* No commit takes as long as an orphan's age. *)
ASSUME MaintenanceAssumption == /\ RETAIN_LAST_SNAPSHOTS \in Nat \ {0}
                                /\ MIN_INPUT_FILES \in Nat /\ MIN_INPUT_FILES >= 2
                                /\ SnapshotAge \in Nat
                                /\ OrphanAge \in Nat
                                /\ CommitTime \in Nat /\ CommitTime <= OrphanAge
                                /\ MaxUpkeeps \in Nat

VARIABLES
    objects,   \* the data files in the object store
    written,   \* files written so far; names them
    history,   \* the table's snapshots that are not expired, oldest first
    pending,   \* pending[d]: the files driver d has written and not committed
    upkeep,    \* where maintain_tables.py is
    upkeeps,   \* runs of it so far
    verdict    \* how the last run ended

fileVars == <<objects, written, history, pending>>
upkeepVars == <<upkeep, upkeeps, verdict>>
allVars == <<vars, fileVars, upkeepVars>>

(* A row is paired with the file it was first written to: two copies of a  *)
(* record stay two when a compaction merges their files.                   *)
DataFile == [name: Nat, rows: SUBSET (StagedRow \X Nat), at: Nat]
Snapshot == [files: SUBSET DataFile, at: Nat, stamp: {<<>>} \cup (Nat \X Nat),
             op: {"append", "rewrite", "manifests"}]

(* files are the inputs of the compaction, and later the files that the    *)
(* metadata reference; output is the compacted file.                       *)
UpkeepSteps == {"idle", "rewrite_data_files", "replace", "rewrite_manifests",
                "expire_snapshots", "remove_orphan_files", "delete", "after"}
Upkeep == [step: UpkeepSteps, before: Nat, started: Nat,
           files: SUBSET DataFile, output: SUBSET DataFile]
NoUpkeep == [step |-> "idle", before |-> 0, started |-> 0, files |-> {}, output |-> {}]

MaintenanceTypeOK == /\ TypeOK
                     /\ objects \subseteq DataFile
                     /\ written \in Nat
                     /\ history \in Seq(Snapshot)
                     /\ pending \in [Drivers -> SUBSET DataFile]
                     /\ upkeep \in Upkeep
                     /\ upkeeps \in Nat
                     /\ verdict \in {"none", "pass", "fail"}

MaintenanceInit == /\ Init
                   /\ objects = {} /\ written = 0 /\ history = <<>>
                   /\ pending = [d \in Drivers |-> {}]
                   /\ upkeep = NoUpkeep /\ upkeeps = 0 /\ verdict = "none"

-----------------------------------------------------------------------------
Current == IF history = <<>> THEN {} ELSE history[Len(history)].files
Referenced == UNION { history[i].files : i \in 1..Len(history) }

(* COUNT of the current snapshot, taken from its manifests: a row counts   *)
(* once for each file that holds it.                                       *)
RowCount(files) == Cardinality(UNION { {f} \X f.rows : f \in files })

(* The stamp that a look back through the snapshots h finds first. *)
NewestStamp(h) ==
    LET stamped == { i \in 1..Len(h) : h[i].stamp # <<>> }
    IN  IF stamped = {} THEN NoStamp ELSE h[Max(stamped)].stamp

NewFile(rows) == [name |-> written + 1, rows |-> rows, at |-> clock]
NewSnapshot(files, stamp, op) ==
    Append(history, [files |-> files, at |-> clock, stamp |-> stamp, op |-> op])

-----------------------------------------------------------------------------
(* The stream, with the files it leaves.                                   *)

StageFile(d) == /\ WriteFiles(d)
                /\ LET f == NewFile(ReadRange(current[d]) \X {written + 1})
                   IN  /\ objects' = objects \cup {f}
                       /\ pending' = [pending EXCEPT ![d] = {f}]
                /\ written' = written + 1
                /\ UNCHANGED <<history, upkeepVars>>

AddSnapshot(d) == /\ pending[d] # {}
                  /\ CommitEpoch(d)
                  /\ history' = NewSnapshot(Current \cup pending[d],
                                            <<losses, current[d].n>>, "append")
                  /\ pending' = [pending EXCEPT ![d] = {}]
                  /\ UNCHANGED <<objects, written, upkeepVars>>

(* The batch is confirmed, or the process dies: what it had written and    *)
(* not committed stays in the object store.                                *)
Release(d) == /\ Commit(d) \/ Crash(d)
              /\ pending' = [pending EXCEPT ![d] = {}]
              /\ UNCHANGED <<objects, written, history, upkeepVars>>

Proceed == /\ \E d \in Drivers : Start(d) \/ Trigger(d) \/ LookUpEpoch(d)
           /\ UNCHANGED <<fileVars, upkeepVars>>

(* CommitTime: the clock waits for a file on its way. *)
World == /\ TopicNext
         /\ clock' # clock =>
                \A d \in Drivers : \A f \in pending[d] : clock < f.at + CommitTime
         /\ UNCHANGED <<bronzeVars, queryVars, fileVars, upkeepVars>>

-----------------------------------------------------------------------------
(* maintain_tables.py.                                                     *)

Go(step) == upkeep' = [upkeep EXCEPT !.step = step]

(* collect_stats; both cutoffs are measured from this instant. *)
StartUpkeep == /\ upkeep.step = "idle"
               /\ upkeeps < MaxUpkeeps
               /\ upkeeps' = upkeeps + 1
               /\ upkeep' = [NoUpkeep EXCEPT !.step = "rewrite_data_files",
                                             !.before = RowCount(Current),
                                             !.started = clock]
               /\ verdict' = "none"
               /\ UNCHANGED <<vars, fileVars>>

RewriteDataFiles ==
    /\ upkeep.step = "rewrite_data_files"
    /\ IF Cardinality(Current) >= MIN_INPUT_FILES
       THEN LET f == NewFile(UNION { g.rows : g \in Current })
            IN  /\ objects' = objects \cup {f}
                /\ written' = written + 1
                /\ upkeep' = [upkeep EXCEPT !.step = "replace", !.files = Current,
                                            !.output = {f}]
       ELSE /\ Go("rewrite_manifests")
            /\ UNCHANGED <<objects, written>>
    /\ UNCHANGED <<vars, history, pending, upkeeps, verdict>>

(* Mutant of Replaced: the replace forgets what was appended meanwhile. *)
ReplacedAll == upkeep.output

(* The compaction commits: its inputs go, files appended meanwhile stay. *)
Replaced == (Current \ upkeep.files) \cup upkeep.output

CommitRewrite == /\ upkeep.step = "replace"
                 /\ history' = NewSnapshot(Replaced, <<>>, "rewrite")
                 /\ upkeep' = [upkeep EXCEPT !.step = "rewrite_manifests",
                                             !.files = {}, !.output = {}]
                 /\ UNCHANGED <<vars, objects, written, pending, upkeeps, verdict>>

(* It may find nothing to do, and finds nothing right after another. *)
RewriteManifests ==
    /\ upkeep.step = "rewrite_manifests"
    /\ Go("expire_snapshots")
    /\ \/ /\ history # <<>> /\ history[Len(history)].op # "manifests"
          /\ history' = NewSnapshot(Current, <<>>, "manifests")
       \/ UNCHANGED history
    /\ UNCHANGED <<vars, objects, written, pending, upkeeps, verdict>>

(* Mutant of LastSnapshots: off by one. *)
AllButOne == { i \in 1..Len(history) : i > Len(history) + 1 - RETAIN_LAST_SNAPSHOTS }

(* retain_last: the floor under the age. *)
LastSnapshots == { i \in 1..Len(history) : i > Len(history) - RETAIN_LAST_SNAPSHOTS }

(* older_than, the floor, and no gap in between. *)
Retained ==
    LET young == { i \in 1..Len(history) : history[i].at >= upkeep.started - SnapshotAge }
        kept == young \cup LastSnapshots
    IN  IF kept = {} THEN <<>> ELSE SubSeq(history, Min(kept), Len(history))

(* Drops snapshots with their stamps, and the files only they referenced. *)
ExpireSnapshots ==
    /\ upkeep.step = "expire_snapshots"
    /\ Go("remove_orphan_files")
    /\ history' = Retained
    /\ objects' = objects \ (Referenced \ Referenced')
    /\ lastStamp' = NewestStamp(history')
    /\ UNCHANGED <<topicVars, queryVars, bronze, appends, staged, sink,
                   written, pending, upkeeps, verdict>>

(* remove_orphan_files reads what the metadata reference ... *)
ListReferenced == /\ upkeep.step = "remove_orphan_files"
                  /\ upkeep' = [upkeep EXCEPT !.step = "delete", !.files = Referenced]
                  /\ UNCHANGED <<vars, fileVars, upkeeps, verdict>>

(* Mutant of Orphans: --orphan-age-hours is not heeded. *)
OrphansOfAnyAge == { f \in objects : f \notin upkeep.files }

Orphans == { f \in objects : f \notin upkeep.files /\ f.at < upkeep.started - OrphanAge }

(* ... and deletes the other files it finds, if they are old enough. *)
DeleteOrphans == /\ upkeep.step = "delete"
                 /\ objects' = objects \ Orphans
                 /\ upkeep' = [upkeep EXCEPT !.step = "after", !.files = {}]
                 /\ UNCHANGED <<vars, history, written, pending, upkeeps, verdict>>

(* maintain_all: FAIL if the row count is not what it was. *)
FinishUpkeep == /\ upkeep.step = "after"
                /\ verdict' = IF RowCount(Current) = upkeep.before THEN "pass" ELSE "fail"
                /\ upkeep' = NoUpkeep
                /\ UNCHANGED <<vars, fileVars, upkeeps>>

KillUpkeep == /\ upkeep.step # "idle"
              /\ upkeep' = NoUpkeep
              /\ UNCHANGED <<vars, fileVars, upkeeps, verdict>>

UpkeepNext == \/ StartUpkeep \/ RewriteDataFiles \/ CommitRewrite \/ RewriteManifests
              \/ ExpireSnapshots \/ ListReferenced \/ DeleteOrphans
              \/ FinishUpkeep \/ KillUpkeep

MaintenanceNext == \/ World \/ Proceed
                   \/ \E d \in Drivers : StageFile(d) \/ AddSnapshot(d) \/ Release(d)
                   \/ UpkeepNext

MaintenanceSpec == MaintenanceInit /\ [][MaintenanceNext]_allVars

-----------------------------------------------------------------------------
(* AppendedOnce of BronzeStream holds here as well, for one driver,        *)
(* although expiry drops epoch stamps: a driver that died between its      *)
(* snapshot and commits/N finds the stamp however long it was down.  Five  *)
(* snapshots are enough, and no fewer: behind the newest stamp there can   *)
(* be the replace and the manifest rewrite of a run that was under way     *)
(* when it was committed, and those of one run more; then there is nothing *)
(* left to rewrite.                                                        *)

(* Every snapshot a reader can name can be read: no procedure deletes a    *)
(* file that a retained snapshot references, or one that a commit in       *)
(* flight is about to reference (maintenance.py, "remove_orphan_files is   *)
(* the dangerous one").                                                    *)
LiveFilesExist == Referenced \subseteq objects

(* Maintenance must not change table contents (maintain_tables.py): the    *)
(* current files hold the rows the stream has appended, each as often as   *)
(* it was appended, also when the stream commits in the middle of a        *)
(* compaction.                                                             *)
ContentsKept ==
    /\ { r[1] : r \in UNION { f.rows : f \in Current } }
           = { [p |-> r.p, o |-> r.o, frame |-> r.frame, at |-> r.at] : r \in bronze }
    /\ RowCount(Current) = Cardinality(bronze)

=============================================================================
