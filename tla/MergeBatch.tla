----------------------------- MODULE MergeBatch -----------------------------
(***************************************************************************)
(* The two silver tables and merge_batch, the one routine that writes      *)
(* them (streaming/silver.py).  The live stream calls it once per          *)
(* micro-batch; rebuild_silver.py calls it once for a range of bronze.     *)
(*                                                                         *)
(* merge_batch is two MERGE statements, edits first, with no transaction   *)
(* around them.  Each MERGE has only a WHEN NOT MATCHED clause, so Spark   *)
(* runs it as an anti-join against the snapshot current when it starts,    *)
(* followed by an append (docs/correctness.md lists the append             *)
(* snapshots): a scan and a commit, two steps here.  Iceberg retries an    *)
(* append that lost the race for the table pointer without looking at the  *)
(* rows again.                                                             *)
(*                                                                         *)
(* A table is a set of rows.  Each row carries the sequence number of the  *)
(* snapshot that appended it, so that a second copy of a row is a second   *)
(* row.                                                                    *)
(***************************************************************************)
EXTENDS Topic

CONSTANT Writers   \* the processes that may call merge_batch

VARIABLES
    edits,       \* silver.edits
    quarantine,  \* silver.quarantine
    snaps,       \* snaps[t]: appends committed to table t so far
    merge        \* merge[w]: where writer w is inside merge_batch

silverVars == <<edits, quarantine, snaps, merge>>

-----------------------------------------------------------------------------
(* Rows.                                                                   *)

(* One input row of to_candidates: Kafka coordinates, frame, ingested_at.  *)
Candidate == [p: Partitions, o: Nat, frame: Frame, at: Nat]

EditRow == [id: Ids, p: Partitions, o: Nat, at: Nat, snap: Nat]
QuarantineRow == [p: Partitions, o: Nat, reason: Reasons, at: Nat, snap: Nat]

FailureReason(c) == Verdict(c.frame, c.at)

(* Mutant of QuarantineKey: the key forgets the partition. *)
OffsetOnlyKey(c) == <<0, c.o>>

(* EDITS_KEY and QUARANTINE_KEY. *)
EditsKey(c) == c.frame.id
QuarantineKey(c) == <<c.p, c.o>>

(* Mutant of Before: ORDER BY ... DESC, the last arrival wins. *)
LastFirst(c, d) == c.p > d.p \/ (c.p = d.p /\ c.o > d.o)

(* ARRIVAL_ORDER: partition, then offset. *)
Before(c, d) == c.p < d.p \/ (c.p = d.p /\ c.o < d.o)

(* Mutant of FirstPerKey: the batch goes to the MERGE as it is. *)
KeepAll(S, C, key) == S = C

(* S keeps, for each value of key on C, one first arrival.  Bronze may hold one     *)
(* Kafka record twice, so a first arrival need not be unique: row_number() *)
(* then picks either.                                                      *)
FirstPerKey(S, C, key) ==
    /\ S \subseteq C
    /\ \A c \in C : \E s \in S : key[s] = key[c]
    /\ \A s, t \in S : key[s] = key[t] => s = t
    /\ \A s \in S, c \in C : key[s] = key[c] => ~Before(c, s)

ValidCandidates(batch) == { c \in batch : FailureReason(c) = Valid }

FailedCandidates(batch) == batch \ ValidCandidates(batch)

(* The possible results of valid_rows and of quarantine_rows. *)
ValidRows(batch) ==
    LET C == ValidCandidates(batch)
    IN  { S \in SUBSET C : FirstPerKey(S, C, [c \in C |-> EditsKey(c)]) }
QuarantineRows(batch) ==
    LET C == FailedCandidates(batch)
    IN  { S \in SUBSET C : FirstPerKey(S, C, [c \in C |-> QuarantineKey(c)]) }

-----------------------------------------------------------------------------
(* The position of a writer inside merge_batch, in the order of the code.  *)
Idle == "idle"
Steps == {Idle, "scan_edits", "append_edits",
          "scan_quarantine", "append_quarantine", "return"}

(* batch is the persisted DataFrame; new is what the anti-join of the      *)
(* running MERGE left to insert.                                           *)
NotMerging == [step |-> Idle, batch |-> {}, new |-> {}]

MergeState == [step: Steps, batch: SUBSET Candidate, new: SUBSET Candidate]

SilverTypeOK == /\ edits \subseteq EditRow
                /\ quarantine \subseteq QuarantineRow
                /\ snaps \in [{"edits", "quarantine"} -> Nat]
                /\ merge \in [Writers -> MergeState]

SilverInit == /\ edits = {}
              /\ quarantine = {}
              /\ snaps = [t \in {"edits", "quarantine"} |-> 0]
              /\ merge = [w \in Writers |-> NotMerging]

-----------------------------------------------------------------------------
(* The rows two MERGE statements insert, in snapshot number snap. *)
EditRows(S, snap) ==
    { [id |-> c.frame.id, p |-> c.p, o |-> c.o, at |-> c.at, snap |-> snap] : c \in S }
QuarantinedRows(S, snap) ==
    { [p |-> c.p, o |-> c.o, reason |-> FailureReason(c), at |-> c.at, snap |-> snap]
        : c \in S }

(* merge_batch is called: the batch is read once and persisted. *)
BeginMerge(w, batch) ==
    /\ merge[w].step = Idle
    /\ merge' = [merge EXCEPT ![w] = [step |-> "scan_edits", batch |-> batch, new |-> {}]]
    /\ UNCHANGED <<edits, quarantine, snaps>>

(* Mutant of ScanEdits: writeTo(...).append() instead of MERGE. *)
ScanEditsBlind(w) ==
    /\ merge[w].step = "scan_edits"
    /\ \E S \in ValidRows(merge[w].batch) :
         merge' = [merge EXCEPT ![w].step = "append_edits", ![w].new = S]
    /\ UNCHANGED <<edits, quarantine, snaps>>

(* MERGE INTO silver.edits, the anti-join: t.event_id = s.event_id. *)
ScanEdits(w) ==
    /\ merge[w].step = "scan_edits"
    /\ \E S \in ValidRows(merge[w].batch) :
         merge' = [merge EXCEPT
             ![w].step = "append_edits",
             ![w].new = { c \in S : \A r \in edits : r.id # EditsKey(c) }]
    /\ UNCHANGED <<edits, quarantine, snaps>>

(* MERGE INTO silver.edits, the commit of the append. *)
AppendEdits(w) ==
    /\ merge[w].step = "append_edits"
    /\ edits' = edits \cup EditRows(merge[w].new, snaps["edits"] + 1)
    /\ snaps' = IF merge[w].new = {} THEN snaps ELSE [snaps EXCEPT !["edits"] = @ + 1]
    /\ merge' = [merge EXCEPT ![w].step = "scan_quarantine", ![w].new = {}]
    /\ UNCHANGED quarantine

(* Mutant of ScanQuarantine: an append here too. *)
ScanQuarantineBlind(w) ==
    /\ merge[w].step = "scan_quarantine"
    /\ \E S \in QuarantineRows(merge[w].batch) :
         merge' = [merge EXCEPT ![w].step = "append_quarantine", ![w].new = S]
    /\ UNCHANGED <<edits, quarantine, snaps>>

(* MERGE INTO silver.quarantine, keyed on the Kafka coordinates. *)
ScanQuarantine(w) ==
    /\ merge[w].step = "scan_quarantine"
    /\ \E S \in QuarantineRows(merge[w].batch) :
         merge' = [merge EXCEPT
             ![w].step = "append_quarantine",
             ![w].new = { c \in S : \A r \in quarantine : <<r.p, r.o>> # QuarantineKey(c) }]
    /\ UNCHANGED <<edits, quarantine, snaps>>

AppendQuarantine(w) ==
    /\ merge[w].step = "append_quarantine"
    /\ quarantine' = quarantine \cup QuarantinedRows(merge[w].new, snaps["quarantine"] + 1)
    /\ snaps' = IF merge[w].new = {} THEN snaps ELSE [snaps EXCEPT !["quarantine"] = @ + 1]
    /\ merge' = [merge EXCEPT ![w].step = "return", ![w].new = {}]
    /\ UNCHANGED edits

MergeStep(w) == \/ ScanEdits(w) \/ AppendEdits(w)
                \/ ScanQuarantine(w) \/ AppendQuarantine(w)

(* merge_batch returns and the batch is unpersisted. *)
EndMerge(w) ==
    /\ merge[w].step = "return"
    /\ merge' = [merge EXCEPT ![w] = NotMerging]
    /\ UNCHANGED <<edits, quarantine, snaps>>

(* The process dies wherever it is.  What it committed stays; an append    *)
(* that was not committed leaves nothing in the table.                     *)
AbandonMerge(w) ==
    /\ merge' = [merge EXCEPT ![w] = NotMerging]
    /\ UNCHANGED <<edits, quarantine, snaps>>

-----------------------------------------------------------------------------
(* The two tables' keys hold: docs/correctness.md, claim 1.                *)

(* silver.edits holds one row per source event. *)
EditsUnique == \A r, s \in edits : r.id = s.id => r = s

(* silver.quarantine holds one row per Kafka record. *)
QuarantineUnique == \A r, s \in quarantine : r.p = s.p /\ r.o = s.o => r = s

=============================================================================
