------------------------ MODULE SilverStream_proofs ------------------------
(***************************************************************************)
(* Theorems about the silver stream, for any number of drivers, crashes    *)
(* and checkpoint losses, in four parts.  merge_batch, whoever calls it:   *)
(* MergeInv says what each point of it has already achieved.  The stream:  *)
(* its inductive invariant puts the checkpoint's invariant and             *)
(* merge_batch's side by side and ties them together, the batch a driver   *)
(* is merging being the range of the entry it works from.  The verdicts:   *)
(* all the copies of one Kafka record, in the tables, in a running batch   *)
(* or in the checkpoint, carry one and the same time of judgement, because *)
(* only offsets/N gives it out and entries do not overlap; so every frame  *)
(* lands in exactly one of the two tables while no checkpoint is lost.     *)
(* The duplicate gate: its queries see different snapshots, and what each  *)
(* found stays true, because the tables it reads only grow.                *)
(***************************************************************************)
EXTENDS SilverChecks, SilverGate, StreamingQuery_proofs

-----------------------------------------------------------------------------
(* The verdict is a rule's name or Valid, and only a frame with an event   *)
(* id is valid.                                                            *)

(* No rule is named like the verdict of a good frame. *)
LEMMA ReasonNotValid == \A i \in 1..7 : FAILURE_REASONS[i] # Valid
BY DEF FAILURE_REASONS, Valid

(* failure_reason is the name of a rule, or there is none. *)
LEMMA VerdictOutcome ==
    ASSUME NEW f, NEW at
    PROVE  Verdict(f, at) \in Reasons \cup {Valid}
<1>1. CASE \E i \in 1..7 : FailsFirst(i, f, at)
  BY <1>1 DEF Verdict, Reasons
<1>2. CASE ~\E i \in 1..7 : FailsFirst(i, f, at)
  BY <1>2 DEF Verdict
<1> QED BY <1>1, <1>2

(* A frame that passes every rule has an event id to be merged on. *)
LEMMA ValidHasId ==
    ASSUME NEW f \in Frame, NEW at, Verdict(f, at) = Valid
    PROVE  f.id \in Ids /\ f.id # Absent
<1>1. ~\E i \in 1..7 : FailsFirst(i, f, at)
  BY ReasonNotValid DEF Verdict
<1>2. Passes(1, f, at)
  BY <1>1 DEF FailsFirst
<1>3. Passes(2, f, at)
  BY <1>1, <1>2 DEF FailsFirst
<1>4. f.id # Absent
  BY <1>3 DEF Passes
<1> QED BY <1>4, FrameAssumption DEF FrameShape

-----------------------------------------------------------------------------
(* What the rows of a batch look like in the two tables.                   *)

(* valid_rows and quarantine_rows split a batch by its verdicts. *)
LEMMA CandidatesSplit ==
    ASSUME NEW B
    PROVE  /\ ValidCandidates(B) \subseteq B
           /\ FailedCandidates(B) \subseteq B
           /\ \A c \in B : c \in ValidCandidates(B) <=> FailureReason(c) = Valid
           /\ \A c \in B : c \in FailedCandidates(B) <=> FailureReason(c) # Valid
BY DEF ValidCandidates, FailedCandidates

(* What the first MERGE appends are rows of silver.edits. *)
LEMMA EditRowsTyped ==
    ASSUME NEW B \in SUBSET Candidate, NEW S \in SUBSET ValidCandidates(B), NEW n \in Nat
    PROVE  EditRows(S, n) \subseteq EditRow
<1> SUFFICES ASSUME NEW c \in S
             PROVE  [id |-> c.frame.id, p |-> c.p, o |-> c.o, at |-> c.at, snap |-> n]
                        \in EditRow
  BY DEF EditRows
<1>1. c \in Candidate /\ Verdict(c.frame, c.at) = Valid
  BY CandidatesSplit DEF FailureReason
<1>2. c.frame.id \in Ids
  BY <1>1, ValidHasId DEF Candidate
<1> QED BY <1>1, <1>2 DEF Candidate, EditRow

(* What the second MERGE appends are rows of silver.quarantine. *)
LEMMA QuarantinedRowsTyped ==
    ASSUME NEW B \in SUBSET Candidate, NEW S \in SUBSET FailedCandidates(B), NEW n \in Nat
    PROVE  QuarantinedRows(S, n) \subseteq QuarantineRow
<1> SUFFICES ASSUME NEW c \in S
             PROVE  [p |-> c.p, o |-> c.o, reason |-> FailureReason(c), at |-> c.at, snap |-> n]
                        \in QuarantineRow
  BY DEF QuarantinedRows
<1>1. c \in Candidate /\ FailureReason(c) # Valid
  BY CandidatesSplit
<1>2. FailureReason(c) \in Reasons
  BY <1>1, VerdictOutcome DEF FailureReason
<1> QED BY <1>1, <1>2 DEF Candidate, QuarantineRow

-----------------------------------------------------------------------------
(* The invariant of merge_batch.                                           *)

Taken(c) == \E r \in edits : r.id = EditsKey(c)
Rejected(c) == \E r \in quarantine : <<r.p, r.o>> = QuarantineKey(c)

(* What an anti-join left to insert, and that the append will complete the *)
(* table for the batch.                                                    *)
EditsStaged(w) ==
    /\ merge[w].new \subseteq ValidCandidates(merge[w].batch)
    /\ \A c \in ValidCandidates(merge[w].batch) :
         Taken(c) \/ \E s \in merge[w].new : EditsKey(s) = EditsKey(c)

QuarantineStaged(w) ==
    /\ merge[w].new \subseteq FailedCandidates(merge[w].batch)
    /\ \A c \in FailedCandidates(merge[w].batch) :
         Rejected(c) \/ \E s \in merge[w].new : QuarantineKey(s) = QuarantineKey(c)

EditsDone(w) == \A c \in ValidCandidates(merge[w].batch) : Taken(c)
QuarantineDone(w) == \A c \in FailedCandidates(merge[w].batch) : Rejected(c)

Progress(w) ==
    /\ merge[w].step = "append_edits" => EditsStaged(w)
    /\ merge[w].step \in {"scan_quarantine", "append_quarantine", "return"} => EditsDone(w)
    /\ merge[w].step = "append_quarantine" => QuarantineStaged(w)
    /\ merge[w].step = "return" => QuarantineDone(w)

MergeInv == SilverTypeOK /\ \A w \in Writers : Progress(w)

(* Rows are only added. *)
Grows == edits \subseteq edits' /\ quarantine \subseteq quarantine'

(* Another writer's step, or none: its rows can only help w. *)
LEMMA ProgressKept ==
    ASSUME NEW w, Progress(w), Grows, merge'[w] = merge[w]
    PROVE  Progress(w)'
<1>1. \A c : Taken(c) => Taken(c)'
  BY DEF Grows, Taken, EditsKey
<1>2. \A c : Rejected(c) => Rejected(c)'
  BY DEF Grows, Rejected, QuarantineKey
<1>3. /\ ValidCandidates(merge[w].batch)' = ValidCandidates(merge[w].batch)
      /\ FailedCandidates(merge[w].batch)' = FailedCandidates(merge[w].batch)
  BY DEF ValidCandidates, FailedCandidates, FailureReason
<1> QED BY <1>1, <1>2, <1>3 DEF Progress, EditsStaged, QuarantineStaged, EditsDone,
           QuarantineDone, EditsKey, QuarantineKey

(* The call of merge_batch: nothing is promised of the batch yet. *)
LEMMA BeginMergeKeeps ==
    ASSUME MergeInv, NEW w \in Writers, NEW B \in SUBSET Candidate, BeginMerge(w, B)
    PROVE  MergeInv' /\ Grows
<1>1. SilverTypeOK' /\ Grows
  BY DEF MergeInv, SilverTypeOK, BeginMerge, MergeState, Steps, Grows
<1>2. ASSUME NEW v \in Writers PROVE Progress(v)'
  <2>1. CASE v = w
    BY <2>1 DEF MergeInv, SilverTypeOK, BeginMerge, Progress
  <2>2. CASE v # w
    <3>1. merge'[v] = merge[v]
      BY <2>2 DEF MergeInv, SilverTypeOK, BeginMerge
    <3> QED BY <1>1, <3>1, ProgressKept DEF MergeInv
  <2> QED BY <2>1, <2>2
<1> QED BY <1>1, <1>2 DEF MergeInv

(* After the first anti-join, the rows left to insert together with those of *)
(* the table cover every valid candidate.                                  *)
LEMMA ScanEditsKeeps ==
    ASSUME MergeInv, NEW w \in Writers, ScanEdits(w)
    PROVE  MergeInv' /\ Grows
<1> DEFINE B == merge[w].batch
<1>1. PICK S \in ValidRows(B) :
        merge' = [merge EXCEPT ![w].step = "append_edits",
                               ![w].new = { c \in S : \A r \in edits : r.id # EditsKey(c) }]
  BY DEF ScanEdits
<1>2. S \subseteq ValidCandidates(B) /\ \A c \in ValidCandidates(B) :
                                           \E s \in S : EditsKey(s) = EditsKey(c)
  BY DEF ValidRows, FirstPerKey
<1>3. B \subseteq Candidate
  BY DEF MergeInv, SilverTypeOK, MergeState
<1>4. merge'[w] = [step |-> "append_edits", batch |-> B,
                   new |-> { c \in S : \A r \in edits : r.id # EditsKey(c) }]
  BY <1>1 DEF MergeInv, SilverTypeOK, MergeState
<1>5. { c \in S : \A r \in edits : r.id # EditsKey(c) } \subseteq ValidCandidates(B)
  BY <1>2
<1>6. SilverTypeOK' /\ Grows
  <2>1. merge'[w] \in MergeState
    BY <1>3, <1>4, <1>5, CandidatesSplit DEF MergeState, Steps
  <2> QED BY <1>1, <2>1 DEF MergeInv, SilverTypeOK, ScanEdits, Grows
<1>7. ASSUME NEW v \in Writers PROVE Progress(v)'
  <2>1. CASE v = w
    <3>1. ValidCandidates(merge[w].batch)' = ValidCandidates(B)
      BY <1>4 DEF ValidCandidates, FailureReason
    <3>2. edits' = edits
      BY DEF ScanEdits
    <3>3. EditsStaged(w)'
      BY <1>2, <1>4, <1>5, <3>1, <3>2 DEF EditsStaged, Taken, EditsKey
    <3> QED BY <1>4, <2>1, <3>3 DEF Progress
  <2>2. CASE v # w
    <3>1. merge'[v] = merge[v]
      BY <1>1, <2>2 DEF MergeInv, SilverTypeOK
    <3> QED BY <1>6, <3>1, ProgressKept DEF MergeInv
  <2> QED BY <2>1, <2>2
<1> QED BY <1>6, <1>7 DEF MergeInv

(* After the first append every valid candidate has its event in silver.edits. *)
LEMMA AppendEditsKeeps ==
    ASSUME MergeInv, NEW w \in Writers, AppendEdits(w)
    PROVE  MergeInv' /\ Grows
<1> DEFINE B == merge[w].batch
<1>1. B \in SUBSET Candidate /\ snaps["edits"] + 1 \in Nat
  BY DEF MergeInv, SilverTypeOK, MergeState
<1>2. EditsStaged(w)
  BY DEF MergeInv, Progress, AppendEdits
<1>3. merge'[w] = [step |-> "scan_quarantine", batch |-> B, new |-> {}]
  BY DEF MergeInv, SilverTypeOK, MergeState, AppendEdits
<1>4. SilverTypeOK' /\ Grows
  <2>1. EditRows(merge[w].new, snaps["edits"] + 1) \subseteq EditRow
    BY <1>1, <1>2, EditRowsTyped DEF EditsStaged
  <2>2. merge' \in [Writers -> MergeState]
    BY <1>1, <1>3 DEF MergeInv, SilverTypeOK, MergeState, Steps, AppendEdits
  <2> QED BY <2>1, <2>2 DEF MergeInv, SilverTypeOK, AppendEdits, Grows
<1>5. ASSUME NEW v \in Writers PROVE Progress(v)'
  <2>1. CASE v = w
    <3>1. ValidCandidates(merge[w].batch)' = ValidCandidates(B)
      BY <1>3 DEF ValidCandidates, FailureReason
    <3>2. ASSUME NEW c \in ValidCandidates(B) PROVE Taken(c)'
      <4>1. CASE Taken(c)
        BY <4>1, <1>4 DEF Taken, Grows, EditsKey
      <4>2. CASE \E s \in merge[w].new : EditsKey(s) = EditsKey(c)
        <5>1. PICK s \in merge[w].new : EditsKey(s) = EditsKey(c)
          BY <4>2
        <5> DEFINE n == snaps["edits"] + 1
                   row == [id |-> s.frame.id, p |-> s.p, o |-> s.o, at |-> s.at, snap |-> n]
        <5>2. row \in EditRows(merge[w].new, n)
          BY DEF EditRows
        <5>3. row \in edits' /\ row.id = s.frame.id
          BY <5>2 DEF AppendEdits
        <5> QED BY <5>1, <5>3 DEF Taken, EditsKey
      <4> QED BY <1>2, <4>1, <4>2 DEF EditsStaged
    <3> QED BY <1>3, <2>1, <3>1, <3>2 DEF Progress, EditsDone
  <2>2. CASE v # w
    <3>1. merge'[v] = merge[v]
      BY <2>2 DEF MergeInv, SilverTypeOK, AppendEdits
    <3> QED BY <1>4, <3>1, ProgressKept DEF MergeInv
  <2> QED BY <2>1, <2>2
<1> QED BY <1>4, <1>5 DEF MergeInv

(* After the second anti-join, the rows left to insert together with those of *)
(* the table cover every failed candidate.                                 *)
LEMMA ScanQuarantineKeeps ==
    ASSUME MergeInv, NEW w \in Writers, ScanQuarantine(w)
    PROVE  MergeInv' /\ Grows
<1> DEFINE B == merge[w].batch
<1>1. PICK S \in QuarantineRows(B) :
        merge' = [merge EXCEPT
          ![w].step = "append_quarantine",
          ![w].new = { c \in S : \A r \in quarantine : <<r.p, r.o>> # QuarantineKey(c) }]
  BY DEF ScanQuarantine
<1>2. S \subseteq FailedCandidates(B) /\ \A c \in FailedCandidates(B) :
                                            \E s \in S : QuarantineKey(s) = QuarantineKey(c)
  BY DEF QuarantineRows, FirstPerKey
<1>3. B \subseteq Candidate
  BY DEF MergeInv, SilverTypeOK, MergeState
<1>4. merge'[w] = [step |-> "append_quarantine", batch |-> B,
                   new |-> { c \in S : \A r \in quarantine : <<r.p, r.o>> # QuarantineKey(c) }]
  BY <1>1 DEF MergeInv, SilverTypeOK, MergeState
<1>5. { c \in S : \A r \in quarantine : <<r.p, r.o>> # QuarantineKey(c) }
          \subseteq FailedCandidates(B)
  BY <1>2
<1>6. SilverTypeOK' /\ Grows
  <2>1. merge'[w] \in MergeState
    BY <1>3, <1>4, <1>5, CandidatesSplit DEF MergeState, Steps
  <2> QED BY <1>1, <2>1 DEF MergeInv, SilverTypeOK, ScanQuarantine, Grows
<1>7. ASSUME NEW v \in Writers PROVE Progress(v)'
  <2>1. CASE v = w
    <3>1. /\ ValidCandidates(merge[w].batch)' = ValidCandidates(B)
          /\ FailedCandidates(merge[w].batch)' = FailedCandidates(B)
      BY <1>4 DEF ValidCandidates, FailedCandidates, FailureReason
    <3>2. edits' = edits /\ quarantine' = quarantine
      BY DEF ScanQuarantine
    <3>3. QuarantineStaged(w)'
      BY <1>2, <1>4, <1>5, <3>1, <3>2 DEF QuarantineStaged, Rejected, QuarantineKey
    <3>4. EditsDone(w)'
      BY <3>1, <3>2 DEF MergeInv, Progress, ScanQuarantine, EditsDone, Taken, EditsKey
    <3> QED BY <1>4, <2>1, <3>3, <3>4 DEF Progress
  <2>2. CASE v # w
    <3>1. merge'[v] = merge[v]
      BY <1>1, <2>2 DEF MergeInv, SilverTypeOK
    <3> QED BY <1>6, <3>1, ProgressKept DEF MergeInv
  <2> QED BY <2>1, <2>2
<1> QED BY <1>6, <1>7 DEF MergeInv

(* After the second append the whole batch is accounted for. *)
LEMMA AppendQuarantineKeeps ==
    ASSUME MergeInv, NEW w \in Writers, AppendQuarantine(w)
    PROVE  MergeInv' /\ Grows
<1> DEFINE B == merge[w].batch
<1>1. B \in SUBSET Candidate /\ snaps["quarantine"] + 1 \in Nat
  BY DEF MergeInv, SilverTypeOK, MergeState
<1>2. QuarantineStaged(w) /\ EditsDone(w)
  BY DEF MergeInv, Progress, AppendQuarantine
<1>3. merge'[w] = [step |-> "return", batch |-> B, new |-> {}]
  BY DEF MergeInv, SilverTypeOK, MergeState, AppendQuarantine
<1>4. SilverTypeOK' /\ Grows
  <2>1. QuarantinedRows(merge[w].new, snaps["quarantine"] + 1) \subseteq QuarantineRow
    BY <1>1, <1>2, QuarantinedRowsTyped DEF QuarantineStaged
  <2>2. merge' \in [Writers -> MergeState]
    BY <1>1, <1>3 DEF MergeInv, SilverTypeOK, MergeState, Steps, AppendQuarantine
  <2> QED BY <2>1, <2>2 DEF MergeInv, SilverTypeOK, AppendQuarantine, Grows
<1>5. ASSUME NEW v \in Writers PROVE Progress(v)'
  <2>1. CASE v = w
    <3>1. /\ ValidCandidates(merge[w].batch)' = ValidCandidates(B)
          /\ FailedCandidates(merge[w].batch)' = FailedCandidates(B)
      BY <1>3 DEF ValidCandidates, FailedCandidates, FailureReason
    <3>2. ASSUME NEW c \in FailedCandidates(B) PROVE Rejected(c)'
      <4>1. CASE Rejected(c)
        BY <4>1, <1>4 DEF Rejected, Grows, QuarantineKey
      <4>2. CASE \E s \in merge[w].new : QuarantineKey(s) = QuarantineKey(c)
        <5>1. PICK s \in merge[w].new : QuarantineKey(s) = QuarantineKey(c)
          BY <4>2
        <5> DEFINE n == snaps["quarantine"] + 1
                   row == [p |-> s.p, o |-> s.o, reason |-> FailureReason(s),
                           at |-> s.at, snap |-> n]
        <5>2. row \in QuarantinedRows(merge[w].new, n)
          BY DEF QuarantinedRows
        <5>3. row \in quarantine' /\ row.p = s.p /\ row.o = s.o
          BY <5>2 DEF AppendQuarantine
        <5> QED BY <5>1, <5>3 DEF Rejected, QuarantineKey
      <4> QED BY <1>2, <4>1, <4>2 DEF QuarantineStaged
    <3>3. EditsDone(w)'
      BY <1>2, <3>1 DEF AppendQuarantine, EditsDone, Taken, EditsKey
    <3> QED BY <1>3, <2>1, <3>1, <3>2, <3>3 DEF Progress, QuarantineDone
  <2>2. CASE v # w
    <3>1. merge'[v] = merge[v]
      BY <2>2 DEF MergeInv, SilverTypeOK, AppendQuarantine
    <3> QED BY <1>4, <3>1, ProgressKept DEF MergeInv
  <2> QED BY <2>1, <2>2
<1> QED BY <1>4, <1>5 DEF MergeInv

(* Every step inside merge_batch keeps MergeInv and only adds rows. *)
LEMMA MergeStepKeeps ==
    ASSUME MergeInv, NEW w \in Writers, MergeStep(w)
    PROVE  MergeInv' /\ Grows
BY ScanEditsKeeps, AppendEditsKeeps, ScanQuarantineKeeps, AppendQuarantineKeeps DEF MergeStep

(* The writer returns or dies: it is Idle, where Progress asks nothing. *)
LEMMA WriterLeaves ==
    ASSUME MergeInv, NEW w \in Writers, merge' = [merge EXCEPT ![w] = NotMerging],
           UNCHANGED <<edits, quarantine, snaps>>
    PROVE  MergeInv' /\ Grows
<1>1. SilverTypeOK' /\ Grows
  BY DEF MergeInv, SilverTypeOK, NotMerging, MergeState, Steps, Grows
<1>2. ASSUME NEW v \in Writers PROVE Progress(v)'
  <2>1. CASE v = w
    BY <2>1 DEF MergeInv, SilverTypeOK, NotMerging, Idle, Progress
  <2>2. CASE v # w
    <3>1. merge'[v] = merge[v]
      BY <2>2 DEF MergeInv, SilverTypeOK
    <3> QED BY <1>1, <3>1, ProgressKept DEF MergeInv
  <2> QED BY <2>1, <2>2
<1> QED BY <1>1, <1>2 DEF MergeInv

(* So do the return of merge_batch and the death of its process. *)
LEMMA EndMergeKeeps ==
    ASSUME MergeInv, NEW w \in Writers, EndMerge(w) \/ AbandonMerge(w)
    PROVE  MergeInv' /\ Grows
BY WriterLeaves DEF EndMerge, AbandonMerge

(* MergeInv holds of the empty tables. *)
LEMMA MergeInvInit == SilverInit => MergeInv
BY DEF SilverInit, MergeInv, SilverTypeOK, NotMerging, MergeState, Steps, Idle, Progress

-----------------------------------------------------------------------------
(* The keys of the two tables, as long as no two writers are inside        *)
(* merge_batch at once: what the anti-join found missing is still missing  *)
(* when the append commits.                                                *)

OneWriter ==
    \A v, w \in Writers : merge[v].step # Idle /\ merge[w].step # Idle => v = w

Fresh(w) ==
    /\ merge[w].step = "append_edits" =>
         /\ \A s \in merge[w].new : ~Taken(s)
         /\ \A s, t \in merge[w].new : EditsKey(s) = EditsKey(t) => s = t
    /\ merge[w].step = "append_quarantine" =>
         /\ \A s \in merge[w].new : ~Rejected(s)
         /\ \A s, t \in merge[w].new : QuarantineKey(s) = QuarantineKey(t) => s = t

UniqueInv == EditsUnique /\ QuarantineUnique /\ \A w \in Writers : Fresh(w)

(* While w is inside merge_batch, no other writer has rows to insert. *)
LEMMA OthersStayFresh ==
    ASSUME OneWriter, NEW v \in Writers, NEW w \in Writers, v # w,
           merge[w].step # Idle, merge'[v] = merge[v]
    PROVE  Fresh(v)'
BY DEF OneWriter, Fresh, Idle

(* An anti-join leaves rows whose keys the table does not have. *)
LEMMA ScanKeepsUnique ==
    ASSUME MergeInv, UniqueInv, OneWriter, NEW w \in Writers, ScanEdits(w) \/ ScanQuarantine(w)
    PROVE  UniqueInv' /\ UNCHANGED <<edits, quarantine>>
<1>1. UNCHANGED <<edits, quarantine>>
  BY DEF ScanEdits, ScanQuarantine
<1>2. ASSUME NEW v \in Writers, v # w PROVE Fresh(v)'
  <2>1. merge'[v] = merge[v] /\ merge[w].step # Idle
    BY <1>2 DEF MergeInv, SilverTypeOK, ScanEdits, ScanQuarantine, Idle
  <2> QED BY <1>2, <2>1, OthersStayFresh
<1>3. CASE ScanEdits(w)
  <2>1. PICK S \in ValidRows(merge[w].batch) :
          merge' = [merge EXCEPT ![w].step = "append_edits",
                                 ![w].new = { c \in S : \A r \in edits : r.id # EditsKey(c) }]
    BY <1>3 DEF ScanEdits
  <2>2. /\ merge'[w].step = "append_edits"
        /\ merge'[w].new = { c \in S : \A r \in edits : r.id # EditsKey(c) }
    BY <2>1 DEF MergeInv, SilverTypeOK, MergeState
  <2>3. \A s, t \in S : EditsKey(s) = EditsKey(t) => s = t
    BY DEF ValidRows, FirstPerKey
  <2> QED BY <1>1, <1>2, <2>2, <2>3 DEF UniqueInv, EditsUnique, QuarantineUnique, Fresh,
             Taken, EditsKey
<1>4. CASE ScanQuarantine(w)
  <2>1. PICK S \in QuarantineRows(merge[w].batch) :
          merge' = [merge EXCEPT
            ![w].step = "append_quarantine",
            ![w].new = { c \in S : \A r \in quarantine : <<r.p, r.o>> # QuarantineKey(c) }]
    BY <1>4 DEF ScanQuarantine
  <2>2. /\ merge'[w].step = "append_quarantine"
        /\ merge'[w].new = { c \in S : \A r \in quarantine : <<r.p, r.o>> # QuarantineKey(c) }
    BY <2>1 DEF MergeInv, SilverTypeOK, MergeState
  <2>3. \A s, t \in S : QuarantineKey(s) = QuarantineKey(t) => s = t
    BY DEF QuarantineRows, FirstPerKey
  <2> QED BY <1>1, <1>2, <2>2, <2>3 DEF UniqueInv, EditsUnique, QuarantineUnique, Fresh,
             Rejected, QuarantineKey
<1> QED BY <1>1, <1>3, <1>4

(* Appending fresh rows to a table brings it new keys only. *)
LEMMA AppendEditsUnique ==
    ASSUME UniqueInv, OneWriter, MergeInv, NEW w \in Writers, AppendEdits(w)
    PROVE  /\ UniqueInv'
           /\ \A r \in edits' \ edits, s \in edits' : r.id = s.id => r = s
<1> DEFINE new == EditRows(merge[w].new, snaps["edits"] + 1)
<1>1. edits' = edits \cup new /\ quarantine' = quarantine
  BY DEF AppendEdits
<1>2. \A r \in new : \A s \in edits : r.id # s.id
  BY DEF UniqueInv, Fresh, Taken, EditsKey, AppendEdits, EditRows
<1>3. ASSUME NEW r \in new, NEW s \in new, r.id = s.id PROVE r = s
  <2>1. PICK c \in merge[w].new :
          r = [id |-> c.frame.id, p |-> c.p, o |-> c.o, at |-> c.at, snap |-> snaps["edits"] + 1]
    BY DEF EditRows
  <2>2. PICK e \in merge[w].new :
          s = [id |-> e.frame.id, p |-> e.p, o |-> e.o, at |-> e.at, snap |-> snaps["edits"] + 1]
    BY DEF EditRows
  <2>3. c = e
    BY <1>3, <2>1, <2>2 DEF UniqueInv, Fresh, EditsKey, AppendEdits
  <2> QED BY <2>1, <2>2, <2>3
<1>4. EditsUnique' /\ QuarantineUnique'
  BY <1>1, <1>2, <1>3 DEF UniqueInv, EditsUnique, QuarantineUnique
<1>5. ASSUME NEW v \in Writers PROVE Fresh(v)'
  <2>1. CASE v = w
    BY <2>1 DEF MergeInv, SilverTypeOK, MergeState, AppendEdits, Fresh
  <2>2. CASE v # w
    <3>1. merge'[v] = merge[v] /\ merge[w].step # Idle
      BY <2>2 DEF MergeInv, SilverTypeOK, AppendEdits, Idle
    <3> QED BY <2>2, <3>1, OthersStayFresh
  <2> QED BY <2>1, <2>2
<1> QED BY <1>1, <1>2, <1>3, <1>4, <1>5 DEF UniqueInv

(* The same of the second append. *)
LEMMA AppendQuarantineUnique ==
    ASSUME UniqueInv, OneWriter, MergeInv, NEW w \in Writers, AppendQuarantine(w)
    PROVE  /\ UniqueInv'
           /\ \A r \in quarantine' \ quarantine, s \in quarantine' :
                r.p = s.p /\ r.o = s.o => r = s
<1> DEFINE n == snaps["quarantine"] + 1
           new == QuarantinedRows(merge[w].new, n)
<1>1. edits' = edits /\ quarantine' = quarantine \cup new
  BY DEF AppendQuarantine
<1>2. \A r \in new : \A s \in quarantine : ~(r.p = s.p /\ r.o = s.o)
  BY DEF UniqueInv, Fresh, Rejected, QuarantineKey, AppendQuarantine, QuarantinedRows
<1>3. ASSUME NEW r \in new, NEW s \in new, r.p = s.p, r.o = s.o PROVE r = s
  <2>1. PICK c \in merge[w].new :
          r = [p |-> c.p, o |-> c.o, reason |-> FailureReason(c), at |-> c.at, snap |-> n]
    BY DEF QuarantinedRows
  <2>2. PICK e \in merge[w].new :
          s = [p |-> e.p, o |-> e.o, reason |-> FailureReason(e), at |-> e.at, snap |-> n]
    BY DEF QuarantinedRows
  <2>3. c = e
    BY <1>3, <2>1, <2>2 DEF UniqueInv, Fresh, QuarantineKey, AppendQuarantine
  <2> QED BY <2>1, <2>2, <2>3
<1>4. EditsUnique' /\ QuarantineUnique'
  BY <1>1, <1>2, <1>3 DEF UniqueInv, EditsUnique, QuarantineUnique
<1>5. ASSUME NEW v \in Writers PROVE Fresh(v)'
  <2>1. CASE v = w
    BY <2>1 DEF MergeInv, SilverTypeOK, MergeState, AppendQuarantine, Fresh
  <2>2. CASE v # w
    <3>1. merge'[v] = merge[v] /\ merge[w].step # Idle
      BY <2>2 DEF MergeInv, SilverTypeOK, AppendQuarantine, Idle
    <3> QED BY <2>2, <3>1, OthersStayFresh
  <2> QED BY <2>1, <2>2
<1> QED BY <1>1, <1>2, <1>3, <1>4, <1>5 DEF UniqueInv

(* The other moves of a writer put no row in a table and stage none. *)
LEMMA MovesKeepUnique ==
    ASSUME MergeInv, UniqueInv, NEW w \in Writers,
           \/ \E B : BeginMerge(w, B)
           \/ EndMerge(w)
           \/ AbandonMerge(w)
    PROVE  UniqueInv' /\ UNCHANGED <<edits, quarantine>>
<1>1. UNCHANGED <<edits, quarantine>> /\ merge'[w].step \notin {"append_edits", "append_quarantine"}
  BY DEF MergeInv, SilverTypeOK, BeginMerge, EndMerge, AbandonMerge, NotMerging, Idle
<1>2. \A v \in Writers \ {w} : merge'[v] = merge[v]
  BY DEF MergeInv, SilverTypeOK, BeginMerge, EndMerge, AbandonMerge
<1> QED BY <1>1, <1>2 DEF UniqueInv, EditsUnique, QuarantineUnique, Fresh, Taken, Rejected

-----------------------------------------------------------------------------
(* The stream.                                                             *)

(* A batch holds records of the log, judged at a time already past, and    *)
(* every record of the driver's range that has not expired.                *)
BatchOf(d) ==
    running[d] = "writing" =>
        /\ \A c \in merge[d].batch :
             c.o < Len(log[c.p]) /\ c.frame = log[c.p][c.o + 1] /\ c.at <= clock
        /\ \A p \in Partitions, o \in Nat :
             low[p] <= o /\ current[d].from[p] <= o /\ o < current[d].to[p]
                 => \E c \in merge[d].batch : c.p = p /\ c.o = o

Inv == /\ CheckpointInv
       /\ MergeInv
       /\ \A d \in Drivers : BatchOf(d)
       /\ NothingSkipped

-----------------------------------------------------------------------------
(* What a micro-batch reads: candidates of its own offsets, all that are   *)
(* not expired.                                                            *)
LEMMA RangeRead ==
    ASSUME CheckpointInv, NEW q \in Plan, Planned(q)
    PROVE  /\ ReadRange(q) \subseteq Candidate
           /\ \A c \in ReadRange(q) :
                c.o < Len(log[c.p]) /\ c.frame = log[c.p][c.o + 1] /\ c.at <= clock
           /\ \A p \in Partitions, o \in Nat :
                low[p] <= o /\ q.from[p] <= o /\ o < q.to[p]
                    => \E c \in ReadRange(q) : c.p = p /\ c.o = o
<1>1. ASSUME NEW c \in ReadRange(q)
      PROVE  /\ c \in Candidate
             /\ c.o < Len(log[c.p]) /\ c.frame = log[c.p][c.o + 1] /\ c.at <= clock
  <2>0. PICK p \in Partitions :
          \E o \in q.from[p]..(q.to[p] - 1) :
            c = [p |-> p, o |-> o, frame |-> log[p][o + 1], at |-> q.at]
    BY DEF ReadRange
  <2>1. PICK o \in q.from[p]..(q.to[p] - 1) :
          c = [p |-> p, o |-> o, frame |-> log[p][o + 1], at |-> q.at]
    BY <2>0
  <2>2. q.from[p] \in Nat /\ q.to[p] \in Nat /\ q.at \in Nat /\ q.at <= clock
    BY DEF Planned, Plan, Offsets
  <2>3. log[p] \in Seq(Frame) /\ q.to[p] <= Len(log[p]) /\ Len(log[p]) \in Nat
    BY DEF CheckpointInv, TopicTypeOK, Planned
  <2>4. o \in Nat /\ o < Len(log[p])
    BY <2>2, <2>3
  <2>5. log[p][o + 1] \in Frame
    BY <2>3, <2>4
  <2> QED BY <2>1, <2>2, <2>4, <2>5 DEF Candidate
<1>2. ASSUME NEW p \in Partitions, NEW o \in Nat,
             low[p] <= o, q.from[p] <= o, o < q.to[p]
      PROVE  \E c \in ReadRange(q) : c.p = p /\ c.o = o
  <2> DEFINE c == [p |-> p, o |-> o, frame |-> log[p][o + 1], at |-> q.at]
  <2>1. o \in { i \in q.from[p]..(q.to[p] - 1) : low[p] <= i }
    BY <1>2 DEF Plan, Offsets
  <2>2. c \in ReadRange(q)
    BY <2>1 DEF ReadRange
  <2> QED BY <2>2
<1> QED BY <1>1, <1>2

(* merge_batch has returned: its whole range is accounted for. *)
LEMMA ReturnAccounts ==
    ASSUME CheckpointInv, MergeInv, NEW d \in Drivers, BatchOf(d),
           running[d] = "writing", merge[d].step = "return",
           NEW p \in Partitions, NEW o \in Nat,
           low[p] <= o, current[d].from[p] <= o, o < current[d].to[p]
    PROVE  Accounted(p, o)
<1>1. PICK c \in merge[d].batch : c.p = p /\ c.o = o
  BY DEF BatchOf
<1>2. c \in Candidate
  BY SilverAssumption DEF MergeInv, SilverTypeOK, MergeState
<1>3. c.frame = log[p][o + 1] /\ c.at \in 0..clock
  BY <1>1, <1>2 DEF BatchOf, Candidate, CheckpointInv, TopicTypeOK
<1>4. Progress(d)
  BY SilverAssumption DEF MergeInv
<1>5. CASE FailureReason(c) = Valid
  <2>1. Taken(c)
    BY <1>4, <1>5, CandidatesSplit DEF Progress, EditsDone
  <2>2. Verdict(log[p][o + 1], c.at) = Valid
    BY <1>3, <1>5 DEF FailureReason
  <2> QED BY <1>3, <2>1, <2>2 DEF Taken, EditsKey, Accounted
<1>6. CASE FailureReason(c) # Valid
  <2>1. Rejected(c)
    BY <1>4, <1>6, CandidatesSplit DEF Progress, QuarantineDone
  <2> QED BY <1>1, <2>1 DEF Rejected, QuarantineKey, Accounted, Quarantined
<1> QED BY <1>5, <1>6

(* A record stays accounted for while the tables and the log grow. *)
LEMMA AccountedKept ==
    ASSUME TopicTypeOK, clock' \in Nat, clock <= clock', Grows,
           NEW p \in Partitions, NEW o \in Nat, log'[p][o + 1] = log[p][o + 1], Accounted(p, o)
    PROVE  Accounted(p, o)'
<1>1. CASE Quarantined(p, o)
  BY <1>1 DEF Accounted, Quarantined, Grows
<1>2. CASE ~Quarantined(p, o)
  <2>1. PICK at \in 0..clock : Verdict(log[p][o + 1], at) = Valid
    BY <1>2 DEF Accounted
  <2>2. PICK r \in edits : r.id = log[p][o + 1].id
    BY <1>2 DEF Accounted
  <2>3. at \in 0..clock' /\ r \in edits'
    BY DEF TopicTypeOK, Grows
  <2> QED BY <2>1, <2>2, <2>3 DEF Accounted
<1> QED BY <1>1, <1>2

(* The step of a driver that leaves Confirmed where it is, or moves it     *)
(* over records already accounted for.                                     *)
LEMMA StillNothingSkipped ==
    ASSUME CheckpointInv, CheckpointInv', NothingSkipped, Grows, UNCHANGED topicVars,
           \A p \in Partitions, o \in Nat :
               low[p] <= o /\ o < Confirmed(p)' => o < Confirmed(p) \/ Accounted(p, o)
    PROVE  NothingSkipped'
<1> SUFFICES ASSUME NEW p \in Partitions, NEW o \in (low[p]..(Confirmed(p) - 1))'
             PROVE  Accounted(p, o)'
  BY DEF NothingSkipped
<1>1. low[p] \in Nat /\ low'[p] = low[p] /\ Confirmed(p) \in Nat /\ Confirmed(p)' \in Nat
  BY ConfirmedInLog DEF CheckpointInv, TopicTypeOK, topicVars, Confirmed, QueryTypeOK,
     Plan, Offsets
<1>2. o \in Nat /\ low[p] <= o /\ o < Confirmed(p)'
  BY <1>1
<1>3. Accounted(p, o)
  BY <1>1, <1>2 DEF NothingSkipped
<1> QED BY <1>2, <1>3, AccountedKept DEF CheckpointInv, TopicTypeOK, topicVars

(* A driver that goes on with its batch still has it right. *)
LEMMA BatchKept ==
    ASSUME CheckpointInv, CheckpointInv', MergeInv, TopicNext \/ UNCHANGED topicVars,
           NEW d \in Drivers, BatchOf(d),
           running'[d] = "writing" =>
               /\ running[d] = "writing"
               /\ current'[d] = current[d]
               /\ merge'[d].batch = merge[d].batch
    PROVE  BatchOf(d)'
<1> SUFFICES ASSUME running'[d] = "writing" PROVE BatchOf(d)'
  BY DEF BatchOf
<1>1. /\ clock \in Nat /\ clock' \in Nat /\ clock <= clock'
      /\ \A p \in Partitions :
           /\ low[p] \in Nat /\ low'[p] \in Nat /\ low[p] <= low'[p]
           /\ Len(log[p]) \in Nat /\ Len(log'[p]) \in Nat /\ Len(log[p]) <= Len(log'[p])
           /\ \A i \in 1..Len(log[p]) : log'[p][i] = log[p][i]
  BY LogGrows DEF CheckpointInv, TopicTypeOK, topicVars
<1>2. ASSUME NEW c \in merge[d].batch
      PROVE  c.o < Len(log'[c.p]) /\ c.frame = log'[c.p][c.o + 1] /\ c.at <= clock'
  <2>1. c \in Candidate
    BY SilverAssumption DEF MergeInv, SilverTypeOK, MergeState
  <2>2. c.p \in Partitions /\ c.o \in Nat /\ c.at \in Nat
    BY <2>1 DEF Candidate
  <2>3. c.o < Len(log[c.p]) /\ c.frame = log[c.p][c.o + 1] /\ c.at <= clock
    BY DEF BatchOf
  <2>4. c.o + 1 \in 1..Len(log[c.p])
    BY <1>1, <2>2, <2>3
  <2>5. log'[c.p][c.o + 1] = log[c.p][c.o + 1]
    BY <1>1, <2>2, <2>4
  <2> QED BY <1>1, <2>2, <2>3, <2>5
<1>3. ASSUME NEW p \in Partitions, NEW o \in Nat,
             low'[p] <= o, current[d].from[p] <= o, o < current[d].to[p]
      PROVE  \E c \in merge[d].batch : c.p = p /\ c.o = o
  BY <1>1, <1>3 DEF BatchOf
<1> QED BY <1>2, <1>3 DEF BatchOf

(* The topic moves under the stream. *)
LEMMA TopicKeeps ==
    ASSUME Inv, TopicNext, UNCHANGED <<silverVars, queryVars>>
    PROVE  Inv'
<1>1. CheckpointInv'
  BY TopicKeepsCheckpoint DEF Inv
<1>2. MergeInv'
  <2>1. SilverTypeOK' /\ Grows
    BY DEF Inv, MergeInv, SilverTypeOK, silverVars, Grows
  <2> QED BY <2>1, ProgressKept DEF Inv, MergeInv, silverVars
<1>3. \A d \in Drivers : BatchOf(d)'
  BY <1>1, BatchKept DEF Inv, silverVars, queryVars, driverVars
<1>4. NothingSkipped'
  <2> SUFFICES ASSUME NEW p \in Partitions, NEW o \in (low[p]..(Confirmed(p) - 1))'
               PROVE  Accounted(p, o)'
    BY DEF NothingSkipped
  <2>1. /\ low[p] \in Nat /\ low'[p] \in Nat /\ low[p] <= low'[p]
        /\ Confirmed(p) \in Nat /\ Confirmed(p)' = Confirmed(p) /\ Confirmed(p) <= Len(log[p])
    BY <1>1, LogGrows, ConfirmedInLog DEF Inv, CheckpointInv, TopicTypeOK, Confirmed,
       queryVars, checkpointVars
  <2>2. o \in Nat /\ o \in low[p]..(Confirmed(p) - 1) /\ o + 1 \in 1..Len(log[p])
    BY <2>1 DEF Inv, CheckpointInv, TopicTypeOK
  <2>3. log'[p][o + 1] = log[p][o + 1] /\ clock' \in Nat /\ clock <= clock'
    BY <2>2, LogGrows DEF Inv, CheckpointInv, TopicTypeOK
  <2>4. Accounted(p, o)
    BY <2>2 DEF Inv, NothingSkipped
  <2>5. Grows
    BY DEF silverVars, Grows
  <2> QED BY <2>2, <2>3, <2>4, <2>5, AccountedKept DEF Inv, CheckpointInv
<1> QED BY <1>1, <1>2, <1>3, <1>4 DEF Inv

(* The steps that move neither a table nor a batch. *)
LEMMA QuietStepKeeps ==
    ASSUME Inv, CheckpointInv', UNCHANGED <<topicVars, silverVars>>,
           \A d \in Drivers : running'[d] = "writing" =>
               running[d] = "writing" /\ current'[d] = current[d],
           \A p \in Partitions, o \in Nat :
               low[p] <= o /\ o < Confirmed(p)' => o < Confirmed(p)
    PROVE  Inv'
<1>1. Grows
  BY DEF silverVars, Grows
<1>2. MergeInv'
  BY <1>1, ProgressKept DEF Inv, MergeInv, SilverTypeOK, silverVars
<1>3. \A d \in Drivers : BatchOf(d)'
  BY BatchKept DEF Inv, silverVars
<1>4. NothingSkipped'
  BY <1>1, StillNothingSkipped DEF Inv
<1> QED BY <1>2, <1>3, <1>4 DEF Inv

(* make stream-silver: the driver has no batch yet. *)
LEMMA StartKeepsInv == ASSUME Inv, NEW d \in Drivers, Start(d) PROVE Inv'
<1>1. CheckpointInv'
  BY StartKeeps DEF Inv, Start
<1>2. \A e \in Drivers : running'[e] = "writing" =>
        running[e] = "writing" /\ current'[e] = current[e]
  BY DEF Inv, CheckpointInv, QueryTypeOK, Start, StartDriver
<1>3. \A p \in Partitions : Confirmed(p)' = Confirmed(p)
  BY DEF Start, StartDriver, checkpointVars, Confirmed
<1> QED BY <1>1, <1>2, <1>3, QuietStepKeeps DEF Start

(* A trigger plans behind a confirmed entry, so nothing becomes confirmed. *)
LEMMA TriggerKeepsInv == ASSUME Inv, NEW d \in Drivers, Trigger(d) PROVE Inv'
<1>1. CheckpointInv'
  BY PlanKeeps DEF Inv, Trigger
<1>2. \A e \in Drivers : running'[e] = "writing" =>
        running[e] = "writing" /\ current'[e] = current[e]
  BY DEF Inv, CheckpointInv, QueryTypeOK, Trigger, PlanBatch, StopDriver
<1>3. \A p \in Partitions, o \in Nat : low[p] <= o /\ o < Confirmed(p)' => o < Confirmed(p)
  BY ConfirmedByPlan DEF Inv, Trigger
<1> QED BY <1>1, <1>2, <1>3, QuietStepKeeps DEF Trigger

(* Without a checkpoint nothing is confirmed. *)
LEMMA LoseKeepsInv == ASSUME Inv, LoseCheckpoint PROVE Inv'
<1>1. CheckpointInv'
  BY DeleteKeeps DEF Inv, LoseCheckpoint
<1>2. \A e \in Drivers : running'[e] = "writing" =>
        running[e] = "writing" /\ current'[e] = current[e]
  BY DEF LoseCheckpoint, DeleteCheckpoint
<1>3. \A p \in Partitions, o \in Nat : low[p] <= o /\ o < Confirmed(p)' => o < Confirmed(p)
  BY DEF LoseCheckpoint, DeleteCheckpoint, NoPlan, Confirmed
<1> QED BY <1>1, <1>2, <1>3, QuietStepKeeps DEF LoseCheckpoint

(* The batch handed to merge_batch is the range of the entry. *)
LEMMA RunBatchKeepsInv == ASSUME Inv, NEW d \in Drivers, RunBatch(d) PROVE Inv'
<1> DEFINE B == ReadRange(current[d])
<1>1. CheckpointInv'
  BY BeginKeeps DEF Inv, RunBatch
<1>2. current[d] \in Plan /\ Planned(current[d])
  BY DEF Inv, CheckpointInv, QueryTypeOK
<1>3. MergeInv' /\ Grows
  BY <1>2, RangeRead, BeginMergeKeeps, SilverAssumption DEF Inv, RunBatch
<1>4. BatchOf(d)'
  <2>1. merge'[d].batch = B /\ current' = current /\ UNCHANGED topicVars
    BY SilverAssumption DEF Inv, MergeInv, SilverTypeOK, RunBatch, BeginMerge, BeginBatch
  <2> QED BY <1>2, <2>1, RangeRead DEF Inv, BatchOf, topicVars
<1>5. ASSUME NEW e \in Drivers, e # d PROVE BatchOf(e)'
  <2>1. merge'[e] = merge[e] /\ running'[e] = running[e] /\ current' = current
    BY <1>5, SilverAssumption DEF Inv, MergeInv, SilverTypeOK, CheckpointInv, QueryTypeOK,
       RunBatch, BeginMerge, BeginBatch
  <2> QED BY <1>1, <2>1, BatchKept DEF Inv, RunBatch
<1>6. NothingSkipped'
  <2>1. \A p \in Partitions : Confirmed(p)' = Confirmed(p)
    BY DEF RunBatch, BeginBatch, checkpointVars, Confirmed
  <2> QED BY <1>1, <1>3, <2>1, StillNothingSkipped DEF Inv, RunBatch
<1> QED BY <1>1, <1>3, <1>4, <1>5, <1>6 DEF Inv

(* Inside merge_batch the tables grow and the batch stays the same. *)
LEMMA MergeKeepsInv == ASSUME Inv, NEW d \in Drivers, Merge(d) PROVE Inv'
<1>1. MergeInv' /\ Grows
  BY MergeStepKeeps, SilverAssumption DEF Inv, Merge
<1>2. CheckpointInv' /\ \A p \in Partitions : Confirmed(p)' = Confirmed(p)
  BY DEF Inv, Merge, CheckpointInv, TopicTypeOK, QueryTypeOK, OffsetsAtMostOneAhead, Planned,
     Follows, Confirmed, topicVars, queryVars, checkpointVars, driverVars
<1>3. \A e \in Drivers : merge'[e].batch = merge[e].batch
  BY SilverAssumption DEF Inv, MergeInv, SilverTypeOK, MergeState, Merge, MergeStep,
     ScanEdits, AppendEdits, ScanQuarantine, AppendQuarantine
<1>4. \A e \in Drivers : BatchOf(e)'
  BY <1>2, <1>3, BatchKept DEF Inv, Merge, queryVars, driverVars
<1>5. NothingSkipped'
  BY <1>1, <1>2, StillNothingSkipped DEF Inv, Merge
<1> QED BY <1>1, <1>2, <1>4, <1>5 DEF Inv

(* A driver leaves merge_batch and its batch. *)
LEMMA LeavingKeepsBatches ==
    ASSUME Inv, CheckpointInv', NEW d \in Drivers, UNCHANGED topicVars,
           merge' = [merge EXCEPT ![d] = NotMerging], running'[d] # "writing",
           \A e \in Drivers \ {d} : running'[e] = running[e] /\ current'[e] = current[e]
    PROVE  \A e \in Drivers : BatchOf(e)'
<1>1. BatchOf(d)'
  BY DEF BatchOf
<1>2. ASSUME NEW e \in Drivers, e # d PROVE BatchOf(e)'
  <2>1. merge'[e] = merge[e]
    BY <1>2, SilverAssumption DEF Inv, MergeInv, SilverTypeOK
  <2> QED BY <1>2, <2>1, BatchKept DEF Inv
<1> QED BY <1>1, <1>2

(* The one step that confirms records: merge_batch has returned, so they   *)
(* are accounted for.                                                      *)
LEMMA CommitKeepsInv == ASSUME Inv, NEW d \in Drivers, Commit(d) PROVE Inv'
<1>1. CheckpointInv'
  BY CommitKeeps DEF Inv, Commit
<1>2. MergeInv' /\ Grows
  BY EndMergeKeeps, SilverAssumption DEF Inv, Commit
<1>3. \A e \in Drivers : BatchOf(e)'
  <2>1. running'[d] # "writing" /\ \A e \in Drivers \ {d} :
                                      running'[e] = running[e] /\ current'[e] = current[e]
    BY DEF Inv, CheckpointInv, QueryTypeOK, Commit, CommitBatch, StopDriver
  <2> QED BY <1>1, <2>1, LeavingKeepsBatches DEF Commit, EndMerge
<1>4. ASSUME NEW p \in Partitions, NEW o \in Nat, low[p] <= o, o < Confirmed(p)'
      PROVE  o < Confirmed(p) \/ Accounted(p, o)
  <2> SUFFICES ASSUME ~(o < Confirmed(p)) PROVE Accounted(p, o)
    OBVIOUS
  <2>1. current[d].from[p] <= o /\ o < current[d].to[p]
    BY <1>4, ConfirmedByCommit DEF Inv, Commit
  <2>2. running[d] = "writing" /\ merge[d].step = "return"
    BY DEF Commit, CommitBatch, EndMerge
  <2> QED BY <1>4, <2>1, <2>2, ReturnAccounts DEF Inv
<1>5. NothingSkipped'
  BY <1>1, <1>2, <1>4, StillNothingSkipped DEF Inv, Commit
<1> QED BY <1>1, <1>2, <1>3, <1>5 DEF Inv

(* A crash confirms nothing; what the tables hold, they keep. *)
LEMMA CrashKeepsInv == ASSUME Inv, NEW d \in Drivers, Crash(d) PROVE Inv'
<1>1. CheckpointInv'
  BY CrashKeeps DEF Inv, Crash
<1>2. MergeInv' /\ Grows
  BY EndMergeKeeps, SilverAssumption DEF Inv, Crash
<1>3. \A e \in Drivers : BatchOf(e)'
  <2>1. running'[d] # "writing" /\ \A e \in Drivers \ {d} :
                                      running'[e] = running[e] /\ current'[e] = current[e]
    BY DEF Inv, CheckpointInv, QueryTypeOK, Crash, CrashDriver, StopDriver
  <2> QED BY <1>1, <2>1, LeavingKeepsBatches DEF Crash, AbandonMerge
<1>4. NothingSkipped'
  <2>1. \A p \in Partitions : Confirmed(p)' = Confirmed(p)
    BY DEF Crash, CrashDriver, checkpointVars, Confirmed
  <2> QED BY <1>1, <1>2, <2>1, StillNothingSkipped DEF Inv, Crash
<1> QED BY <1>1, <1>2, <1>3, <1>4 DEF Inv

-----------------------------------------------------------------------------
(* The stream starts with an empty topic, empty tables and no checkpoint,  *)
(* where the invariant holds.                                              *)
THEOREM InvInit == Init => Inv
<1> SUFFICES ASSUME Init PROVE Inv
  OBVIOUS
<1>1. CheckpointInv /\ MergeInv
  BY CheckpointInit, MergeInvInit DEF Init
<1>2. \A d \in Drivers : BatchOf(d)
  BY DEF Init, QueryInit, BatchOf
<1>3. NothingSkipped
  BY DEF Init, TopicInit, QueryInit, NoPlan, NothingSkipped, Confirmed
<1> QED BY <1>1, <1>2, <1>3 DEF Inv

(* Every step of the topic, of a driver inside its micro-batch, and of an  *)
(* operator who deletes the checkpoint preserves the invariant.            *)
THEOREM InvStep == Inv /\ [Next]_vars => Inv'
<1> SUFFICES ASSUME Inv, [Next]_vars PROVE Inv'
  OBVIOUS
<1>1. CASE TopicNext /\ UNCHANGED <<silverVars, queryVars>>
  BY <1>1, TopicKeeps
<1>2. ASSUME NEW d \in Drivers, DriverStep(d) \/ Crash(d)
      PROVE  Inv'
  BY <1>2, StartKeepsInv, TriggerKeepsInv, RunBatchKeepsInv, MergeKeepsInv, CommitKeepsInv,
     CrashKeepsInv DEF DriverStep
<1>3. CASE LoseCheckpoint
  BY <1>3, LoseKeepsInv
<1>4. CASE UNCHANGED vars
  <2>1. UNCHANGED <<topicVars, silverVars>> /\ UNCHANGED queryVars
    BY <1>4 DEF vars
  <2>2. CheckpointInv' /\ \A p \in Partitions : Confirmed(p)' = Confirmed(p)
    BY <2>1 DEF Inv, CheckpointInv, TopicTypeOK, QueryTypeOK, OffsetsAtMostOneAhead, Planned,
       Follows, Confirmed, topicVars, queryVars, checkpointVars, driverVars
  <2> QED BY <2>1, <2>2, QuietStepKeeps DEF queryVars, driverVars
<1> QED BY <1>1, <1>2, <1>3, <1>4 DEF Next, SilverNext

(* The invariant holds in every reachable state of the silver stream.      *)
THEOREM InvAlways == Spec => []Inv
BY InvInit, InvStep, PTL DEF Spec

(* Every variable keeps its type: the fields of a row, the checkpoint and  *)
(* the position of each driver are what silver.py and Spark put there.     *)
THEOREM TypeCorrect == Spec => []TypeOK
<1>1. Inv => TypeOK
  BY DEF Inv, CheckpointInv, MergeInv, TypeOK
<1> QED BY <1>1, InvAlways, PTL

(* Nothing is dropped (docs/correctness.md, section 5), for any number of  *)
(* drivers on the checkpoint, crashes and losses: write_silver confirms a  *)
(* batch only after both MERGEs of merge_batch have committed.             *)
THEOREM NothingIsSkipped == Spec => []NothingSkipped
<1>1. Inv => NothingSkipped
  BY DEF Inv
<1> QED BY <1>1, InvAlways, PTL

(* However many drivers race on the checkpoint, offsets is at most one     *)
(* micro-batch ahead of commits (docs/runbook.md, entry 6).                *)
THEOREM CheckpointHealthy == Spec => []OffsetsAtMostOneAhead
<1>1. Inv => OffsetsAtMostOneAhead
  BY DEF Inv, CheckpointInv
<1> QED BY <1>1, InvAlways, PTL

-----------------------------------------------------------------------------
(* What the stream promises as long as one driver runs on its checkpoint:  *)
(* the keys of both tables, and the refinement of SilverContract.  The     *)
(* hypothesis, OneDriver, is needed: MC_SilverOrphanDuplicates shows two   *)
(* drivers inserting one event twice.                                      *)

(* Only a driver of the stream is ever inside merge_batch here. *)
OnlyDriversMerge == \A w \in Writers : merge[w].step # Idle => w \in Drivers

OneDriverInv == Inv /\ UniqueInv /\ OnlyDriversMerge

(* With one driver no two writers are inside merge_batch. *)
LEMMA OneDriverOneWriter ==
    ASSUME OneDriver, OnlyDriversMerge
    PROVE  OneWriter
BY DEF OneDriver, OnlyDriversMerge, OneWriter

(* Each step of merge_batch keeps the keys, and adds rows with new keys to *)
(* one table at most.                                                      *)
LEMMA MergeMeetsContract ==
    ASSUME MergeInv, UniqueInv, OneWriter, NEW w \in Writers, MergeStep(w)
    PROVE  UniqueInv' /\ (Contract!Next \/ UNCHANGED <<edits, quarantine>>)
<1>1. CASE ScanEdits(w) \/ ScanQuarantine(w)
  BY <1>1, ScanKeepsUnique
<1>2. CASE AppendEdits(w)
  <2>1. /\ UniqueInv'
        /\ \A r \in edits' \ edits, s \in edits' : r.id = s.id => r = s
    BY <1>2, AppendEditsUnique
  <2>2. edits \subseteq edits' /\ quarantine' = quarantine
    BY <1>2 DEF AppendEdits
  <2>3. Contract!AcceptEvents
    BY <2>1, <2>2 DEF Contract!AcceptEvents, Contract!GrowsByNewKeys, Contract!SameEvent
  <2> QED BY <2>1, <2>3 DEF Contract!Next
<1>3. CASE AppendQuarantine(w)
  <2>1. /\ UniqueInv'
        /\ \A r \in quarantine' \ quarantine, s \in quarantine' :
             r.p = s.p /\ r.o = s.o => r = s
    BY <1>3, AppendQuarantineUnique
  <2>2. quarantine \subseteq quarantine' /\ edits' = edits
    BY <1>3 DEF AppendQuarantine
  <2>3. Contract!RejectRecords
    BY <2>1, <2>2 DEF Contract!RejectRecords, Contract!GrowsByNewKeys, Contract!SameRecord
  <2> QED BY <2>1, <2>3 DEF Contract!Next
<1> QED BY <1>1, <1>2, <1>3 DEF MergeStep

(* A step that leaves merge_batch and the tables alone keeps the keys. *)
LEMMA UniqueUnmoved ==
    ASSUME UniqueInv, UNCHANGED silverVars
    PROVE  UniqueInv'
BY DEF UniqueInv, EditsUnique, QuarantineUnique, Fresh, Taken, Rejected, silverVars

(* Every step keeps the invariant, and is a step or a stutter of SilverContract. *)
LEMMA OneDriverStep ==
    ASSUME OneDriver, OneDriverInv, [Next]_vars
    PROVE  OneDriverInv' /\ (Contract!Next \/ UNCHANGED <<edits, quarantine>>)
<1>1. Inv'
  BY InvStep DEF OneDriverInv
<1>2. OneWriter
  BY OneDriverOneWriter DEF OneDriverInv
<1>3. CASE UNCHANGED silverVars
  <2>1. UniqueInv'
    BY <1>3, UniqueUnmoved DEF OneDriverInv
  <2> QED BY <1>1, <1>3, <2>1 DEF OneDriverInv, OnlyDriversMerge, silverVars
<1>4. ASSUME NEW d \in Drivers, Merge(d)
      PROVE  OneDriverInv' /\ (Contract!Next \/ UNCHANGED <<edits, quarantine>>)
  <2>1. UniqueInv' /\ (Contract!Next \/ UNCHANGED <<edits, quarantine>>)
    <3>1. d \in Writers /\ MergeInv /\ MergeStep(d)
      BY <1>4, SilverAssumption DEF OneDriverInv, Inv, Merge
    <3> QED BY <1>2, <3>1, MergeMeetsContract DEF OneDriverInv
  <2>2. \A w \in Writers \ {d} : merge'[w] = merge[w]
    BY <1>4 DEF OneDriverInv, Inv, MergeInv, SilverTypeOK, Merge, MergeStep, ScanEdits,
       AppendEdits, ScanQuarantine, AppendQuarantine
  <2>3. OnlyDriversMerge'
    BY <2>2 DEF OneDriverInv, OnlyDriversMerge
  <2> QED BY <1>1, <2>1, <2>3 DEF OneDriverInv
<1>5. ASSUME NEW d \in Drivers, RunBatch(d) \/ Commit(d) \/ Crash(d)
      PROVE  OneDriverInv' /\ UNCHANGED <<edits, quarantine>>
  <2>1. \/ \E B : BeginMerge(d, B)
        \/ EndMerge(d)
        \/ AbandonMerge(d)
    BY <1>5 DEF RunBatch, Commit, Crash
  <2>2. UniqueInv' /\ UNCHANGED <<edits, quarantine>>
    BY <2>1, MovesKeepUnique, SilverAssumption DEF OneDriverInv, Inv
  <2>3. \A w \in Writers \ {d} : merge'[w] = merge[w]
    BY <2>1 DEF OneDriverInv, Inv, MergeInv, SilverTypeOK, BeginMerge, EndMerge, AbandonMerge
  <2>4. OnlyDriversMerge'
    BY <2>3 DEF OneDriverInv, OnlyDriversMerge
  <2> QED BY <1>1, <2>2, <2>4 DEF OneDriverInv
<1> QED
  <2>1. CASE UNCHANGED vars
    BY <1>3, <2>1 DEF vars
  <2>2. CASE TopicNext /\ UNCHANGED <<silverVars, queryVars>>
    BY <1>3, <2>2
  <2>3. CASE LoseCheckpoint
    BY <1>3, <2>3 DEF LoseCheckpoint
  <2>4. ASSUME NEW d \in Drivers, DriverStep(d) \/ Crash(d)
        PROVE  OneDriverInv' /\ (Contract!Next \/ UNCHANGED <<edits, quarantine>>)
    BY <1>3, <1>4, <1>5, <2>4 DEF DriverStep, Start, Trigger
  <2> QED BY <2>1, <2>2, <2>3, <2>4 DEF Next, SilverNext

(* The empty tables are those SilverContract starts from. *)
LEMMA OneDriverInit == Init => OneDriverInv /\ Contract!Init
<1> SUFFICES ASSUME Init PROVE OneDriverInv /\ Contract!Init
  OBVIOUS
<1>1. Inv
  BY InvInit
<1>2. UniqueInv /\ OnlyDriversMerge
  BY DEF Init, SilverInit, UniqueInv, EditsUnique, QuarantineUnique, Fresh, NotMerging, Idle,
     OnlyDriversMerge
<1> QED BY <1>1, <1>2 DEF Init, SilverInit, OneDriverInv, Contract!Init

(* The keys hold in every reachable state of a stream with one driver. *)
LEMMA OneDriverAlways ==
    ASSUME OneDriver
    PROVE  Spec => []OneDriverInv
<1>1. OneDriverInv /\ [Next]_vars => OneDriverInv'
  BY OneDriverStep
<1> QED BY <1>1, OneDriverInit, PTL DEF Spec

-----------------------------------------------------------------------------
(* silver.edits holds one row per source event (docs/correctness.md,       *)
(* section 1): the MERGE on event_id, and deduplicate inside a batch,      *)
(* through every crash, replay and checkpoint loss of one driver.          *)
THEOREM EditsAreUnique ==
    ASSUME OneDriver
    PROVE  Spec => []EditsUnique
<1>1. OneDriverInv => EditsUnique
  BY DEF OneDriverInv, UniqueInv
<1> QED BY <1>1, OneDriverAlways, PTL

(* silver.quarantine holds one row per Kafka record. *)
THEOREM QuarantineIsUnique ==
    ASSUME OneDriver
    PROVE  Spec => []QuarantineUnique
<1>1. OneDriverInv => QuarantineUnique
  BY DEF OneDriverInv, UniqueInv
<1> QED BY <1>1, OneDriverAlways, PTL

(* The stream implements the contract of the silver tables: append-only,   *)
(* whole commits, new keys.                                                *)
THEOREM StreamMeetsContract ==
    ASSUME OneDriver
    PROVE  Spec => MeetsContract
<1>1. OneDriverInv /\ [Next]_vars => [Contract!Next]_<<edits, quarantine>>
  BY OneDriverStep
<1> QED BY <1>1, OneDriverInit, OneDriverAlways, PTL DEF Spec, MeetsContract, Contract!Spec

-----------------------------------------------------------------------------
(* The verdicts.                                                           *)

InRange(q, p, o) == q.from[p] <= o /\ o < q.to[p]

(* Driver d will write, or is writing, the range of its entry. *)
Holds(d) == running[d] \in {"planned", "writing"}

(* Somewhere offset o of partition p is stamped with time at. *)
Stamped(p, o, at) ==
    \/ \E r \in edits : r.p = p /\ r.o = o /\ r.at = at
    \/ \E r \in quarantine : r.p = p /\ r.o = o /\ r.at = at
    \/ \E d \in Drivers : Holds(d) /\ InRange(current[d], p, o) /\ at = current[d].at
    \/ InRange(plan, p, o) /\ at = plan.at

OneStamp ==
    losses = 0 =>
        \A p \in Partitions, o, a \in Nat :
            Stamped(p, o, a) => /\ o < plan.to[p]
                                /\ \A b \in Nat : Stamped(p, o, b) => a = b

(* A batch carries the stamp of its entry. *)
BatchStamped(d) ==
    running[d] = "writing" =>
        \A c \in merge[d].batch : InRange(current[d], c.p, c.o) /\ c.at = current[d].at

(* A row is where the verdict of its record at its own time puts it. *)
RowsJudged ==
    /\ \A r \in edits : r.o < Len(log[r.p]) /\ Verdict(log[r.p][r.o + 1], r.at) = Valid
    /\ \A r \in quarantine : r.o < Len(log[r.p]) /\ Verdict(log[r.p][r.o + 1], r.at) # Valid

VerdictInv == /\ Inv
              /\ plan.n = 0 => plan = NoPlan
              /\ \A d \in Drivers : BatchStamped(d)
              /\ RowsJudged
              /\ OneStamp

-----------------------------------------------------------------------------
(* The steps that plan nothing: no new stamp, the same newest entry. *)
LEMMA NoNewStamp ==
    ASSUME OneStamp, plan' = plan, losses' = losses,
           \A p \in Partitions, o, a \in Nat : Stamped(p, o, a)' => Stamped(p, o, a)
    PROVE  OneStamp'
BY DEF OneStamp

(* A row stays where its verdict put it: the log does not change under it. *)
LEMMA RowsStayJudged ==
    ASSUME Inv, RowsJudged, TopicNext \/ UNCHANGED topicVars, UNCHANGED <<edits, quarantine>>
    PROVE  RowsJudged'
<1>1. \A p \in Partitions :
        /\ Len(log[p]) \in Nat /\ Len(log'[p]) \in Nat /\ Len(log[p]) <= Len(log'[p])
        /\ \A i \in 1..Len(log[p]) : log'[p][i] = log[p][i]
  BY LogGrows DEF Inv, CheckpointInv, TopicTypeOK, topicVars
<1>2. ASSUME NEW p \in Partitions, NEW o \in Nat, o < Len(log[p])
      PROVE  o < Len(log'[p]) /\ log'[p][o + 1] = log[p][o + 1]
  <2>1. o + 1 \in 1..Len(log[p])
    BY <1>1, <1>2
  <2> QED BY <1>1, <1>2, <2>1
<1>3. /\ \A r \in edits : r.p \in Partitions /\ r.o \in Nat
      /\ \A r \in quarantine : r.p \in Partitions /\ r.o \in Nat
  BY DEF Inv, MergeInv, SilverTypeOK, EditRow, QuarantineRow
<1> QED BY <1>2, <1>3 DEF RowsJudged

(* A step that leaves the tables and the checkpoint's newest entry alone   *)
(* and hands no driver another entry. *)
LEMMA QuietKeepsVerdicts ==
    ASSUME VerdictInv, Inv', TopicNext \/ UNCHANGED topicVars,
           UNCHANGED <<edits, quarantine, plan, losses>>,
           \A d \in Drivers : Holds(d)' => /\ current'[d] = plan \/ Holds(d)
                                           /\ Holds(d) => current'[d] = current[d],
           \A d \in Drivers : BatchStamped(d)'
    PROVE  VerdictInv'
<1>1. RowsJudged'
  BY RowsStayJudged DEF VerdictInv
<1>2. \A p \in Partitions, o, a \in Nat : Stamped(p, o, a)' => Stamped(p, o, a)
  BY DEF Stamped, Holds, InRange
<1>3. OneStamp'
  BY <1>2, NoNewStamp DEF VerdictInv
<1> QED BY <1>1, <1>3 DEF VerdictInv

(* A driver that goes on with its batch has the stamp of its entry. *)
LEMMA SameBatches ==
    ASSUME \A d \in Drivers : BatchStamped(d),
           \A d \in Drivers : running'[d] = "writing" =>
               /\ running[d] = "writing"
               /\ current'[d] = current[d]
               /\ merge'[d].batch = merge[d].batch
    PROVE  \A d \in Drivers : BatchStamped(d)'
BY DEF BatchStamped, InRange

(* The topic hands out no stamp. *)
LEMMA TopicKeepsVerdicts ==
    ASSUME VerdictInv, Inv', TopicNext, UNCHANGED <<silverVars, queryVars>>
    PROVE  VerdictInv'
<1>1. \A d \in Drivers : BatchStamped(d)'
  BY SameBatches DEF VerdictInv, silverVars, queryVars, driverVars
<1> QED BY <1>1, QuietKeepsVerdicts DEF silverVars, queryVars, checkpointVars, driverVars, Holds

(* A starting driver takes the newest entry with the stamp it has. *)
LEMMA StartKeepsVerdicts ==
    ASSUME VerdictInv, Inv', NEW d \in Drivers, Start(d)
    PROVE  VerdictInv'
<1>1. \A e \in Drivers : BatchStamped(e)'
  BY SameBatches DEF VerdictInv, Inv, CheckpointInv, QueryTypeOK, Start, StartDriver, silverVars
<1>2. \A e \in Drivers : Holds(e)' => /\ current'[e] = plan \/ Holds(e)
                                      /\ Holds(e) => current'[e] = current[e]
  BY DEF VerdictInv, Inv, CheckpointInv, QueryTypeOK, Start, StartDriver, Holds
<1> QED BY <1>1, <1>2, QuietKeepsVerdicts DEF Start, StartDriver, silverVars, checkpointVars

(* A batch gets the stamp of its entry, in a replay as in the first run. *)
LEMMA RunBatchKeepsVerdicts ==
    ASSUME VerdictInv, Inv', NEW d \in Drivers, RunBatch(d)
    PROVE  VerdictInv'
<1>1. BatchStamped(d)'
  <2>1. merge'[d].batch = ReadRange(current[d]) /\ current' = current
    BY SilverAssumption DEF VerdictInv, Inv, MergeInv, SilverTypeOK, RunBatch, BeginMerge,
       BeginBatch
  <2>2. ASSUME NEW c \in ReadRange(current[d])
        PROVE  InRange(current[d], c.p, c.o) /\ c.at = current[d].at
    <3>1. PICK p \in Partitions :
            \E o \in current[d].from[p]..(current[d].to[p] - 1) :
              c = [p |-> p, o |-> o, frame |-> log[p][o + 1], at |-> current[d].at]
      BY DEF ReadRange
    <3>2. PICK o \in current[d].from[p]..(current[d].to[p] - 1) :
            c = [p |-> p, o |-> o, frame |-> log[p][o + 1], at |-> current[d].at]
      BY <3>1
    <3>3. current[d].from[p] \in Nat /\ current[d].to[p] \in Nat
      BY DEF VerdictInv, Inv, CheckpointInv, QueryTypeOK, Plan, Offsets
    <3> QED BY <3>2, <3>3 DEF InRange
  <2> QED BY <2>1, <2>2 DEF BatchStamped, InRange
<1>2. ASSUME NEW e \in Drivers, e # d PROVE BatchStamped(e)'
  <2>1. merge'[e] = merge[e] /\ running'[e] = running[e] /\ current' = current
    BY <1>2, SilverAssumption DEF VerdictInv, Inv, MergeInv, SilverTypeOK, CheckpointInv,
       QueryTypeOK, RunBatch, BeginMerge, BeginBatch
  <2> QED BY <2>1 DEF VerdictInv, BatchStamped, InRange
<1>3. \A e \in Drivers : Holds(e)' => Holds(e) /\ current'[e] = current[e]
  BY DEF VerdictInv, Inv, CheckpointInv, QueryTypeOK, RunBatch, BeginBatch, Holds
<1> QED BY <1>1, <1>2, <1>3, QuietKeepsVerdicts DEF RunBatch, BeginBatch, BeginMerge,
           checkpointVars

(* A driver that leaves its batch takes stamps away, and gives none. *)
LEMMA LeaveKeepsVerdicts ==
    ASSUME VerdictInv, Inv', NEW d \in Drivers, Commit(d) \/ Crash(d)
    PROVE  VerdictInv'
<1>1. /\ ~Holds(d)' /\ running'[d] # "writing"
      /\ \A e \in Drivers \ {d} : running'[e] = running[e] /\ current'[e] = current[e]
  BY DEF VerdictInv, Inv, CheckpointInv, QueryTypeOK, Commit, CommitBatch, Crash, CrashDriver,
     StopDriver, Holds
<1>2. \A e \in Drivers \ {d} : merge'[e] = merge[e]
  BY SilverAssumption DEF VerdictInv, Inv, MergeInv, SilverTypeOK, Commit, EndMerge, Crash,
     AbandonMerge
<1>3. \A e \in Drivers : BatchStamped(e)'
  BY <1>1, <1>2, SameBatches DEF VerdictInv
<1>4. UNCHANGED <<edits, quarantine, plan, losses>> /\ UNCHANGED topicVars
  BY DEF Commit, CommitBatch, EndMerge, Crash, CrashDriver, AbandonMerge, checkpointVars
<1> QED BY <1>1, <1>3, <1>4, QuietKeepsVerdicts DEF Holds

(* The rows an append adds were judged with the stamp of their batch. *)
LEMMA MergeKeepsVerdicts ==
    ASSUME VerdictInv, Inv', NEW d \in Drivers, Merge(d)
    PROVE  VerdictInv'
<1>1. /\ running[d] = "writing" /\ d \in Writers /\ Progress(d)
      /\ merge[d].batch \in SUBSET Candidate
  BY SilverAssumption DEF VerdictInv, Inv, MergeInv, SilverTypeOK, MergeState, Merge
<1>2. UNCHANGED <<log, plan, losses, running, current>>
  BY DEF Merge, topicVars, queryVars, checkpointVars, driverVars
<1>3. \A e \in Drivers : BatchStamped(e)'
  <2>1. \A e \in Drivers : merge'[e].batch = merge[e].batch
    BY SilverAssumption DEF VerdictInv, Inv, MergeInv, SilverTypeOK, MergeState, Merge, MergeStep,
       ScanEdits, AppendEdits, ScanQuarantine, AppendQuarantine
  <2> QED BY <1>2, <2>1, SameBatches DEF VerdictInv
<1>4. ASSUME NEW r \in edits' \ edits
      PROVE  \E c \in merge[d].batch : /\ r.p = c.p /\ r.o = c.o /\ r.at = c.at
                                       /\ FailureReason(c) = Valid
  <2>1. AppendEdits(d)
    BY <1>4 DEF Merge, MergeStep, ScanEdits, ScanQuarantine, AppendQuarantine
  <2>2. merge[d].new \subseteq ValidCandidates(merge[d].batch)
    BY <1>1, <2>1 DEF AppendEdits, Progress, EditsStaged
  <2>3. r \in EditRows(merge[d].new, snaps["edits"] + 1)
    BY <1>4, <2>1 DEF AppendEdits
  <2>4. PICK c \in merge[d].new : r.p = c.p /\ r.o = c.o /\ r.at = c.at
    BY <2>3 DEF EditRows
  <2> QED BY <2>2, <2>4, CandidatesSplit
<1>5. ASSUME NEW r \in quarantine' \ quarantine
      PROVE  \E c \in merge[d].batch : /\ r.p = c.p /\ r.o = c.o /\ r.at = c.at
                                       /\ FailureReason(c) # Valid
  <2>1. AppendQuarantine(d)
    BY <1>5 DEF Merge, MergeStep, ScanEdits, ScanQuarantine, AppendEdits
  <2>2. merge[d].new \subseteq FailedCandidates(merge[d].batch)
    BY <1>1, <2>1 DEF AppendQuarantine, Progress, QuarantineStaged
  <2>3. r \in QuarantinedRows(merge[d].new, snaps["quarantine"] + 1)
    BY <1>5, <2>1 DEF AppendQuarantine
  <2>4. PICK c \in merge[d].new : r.p = c.p /\ r.o = c.o /\ r.at = c.at
    BY <2>3 DEF QuarantinedRows
  <2> QED BY <2>2, <2>4, CandidatesSplit
<1>6. \A c \in merge[d].batch :
        /\ c.o < Len(log[c.p]) /\ c.frame = log[c.p][c.o + 1]
        /\ InRange(current[d], c.p, c.o) /\ c.at = current[d].at
  BY <1>1 DEF VerdictInv, Inv, BatchOf, BatchStamped
<1>7. RowsJudged'
  BY <1>2, <1>4, <1>5, <1>6 DEF VerdictInv, RowsJudged, FailureReason
<1>8. \A p \in Partitions, o, a \in Nat : Stamped(p, o, a)' => Stamped(p, o, a)
  <2>1. Holds(d)
    BY <1>1 DEF Holds
  <2> QED BY <1>2, <1>4, <1>5, <1>6, <2>1 DEF Stamped, Holds, InRange
<1>9. OneStamp'
  BY <1>2, <1>8, NoNewStamp DEF VerdictInv
<1> QED BY <1>2, <1>3, <1>7, <1>9 DEF VerdictInv

(* A trigger stamps offsets that lie above every stamp given out before. *)
LEMMA TriggerKeepsVerdicts ==
    ASSUME VerdictInv, Inv', NEW d \in Drivers, Trigger(d)
    PROVE  VerdictInv'
<1>1. UNCHANGED <<edits, quarantine, merge, losses>> /\ UNCHANGED topicVars
  BY DEF Trigger, PlanBatch, silverVars
<1>2. \A e \in Drivers : BatchStamped(e)'
  <2>1. \A e \in Drivers : running'[e] = "writing" =>
          running[e] = "writing" /\ current'[e] = current[e]
    BY DEF VerdictInv, Inv, CheckpointInv, QueryTypeOK, Trigger, PlanBatch, StopDriver
  <2> QED BY <1>1, <2>1, SameBatches DEF VerdictInv
<1>3. CASE plan # current[d]
  <2>1. plan' = plan /\ \A e \in Drivers : Holds(e)' => Holds(e) /\ current'[e] = current[e]
    BY <1>3 DEF VerdictInv, Inv, CheckpointInv, QueryTypeOK, Trigger, PlanBatch, StopDriver, Holds
  <2> QED BY <1>1, <1>2, <2>1, QuietKeepsVerdicts
<1>4. CASE plan = current[d]
  <2>1. PICK to \in EndsFrom(StartOf(plan)) :
          /\ plan' = [n |-> plan.n + 1, from |-> StartOf(plan), to |-> to, at |-> clock]
          /\ running' = [running EXCEPT ![d] = "planned"]
          /\ current' = [current EXCEPT ![d] = plan']
    BY <1>4 DEF Trigger, PlanBatch
  <2>2. /\ plan.n \in Nat /\ plan \in Plan /\ plan' \in Plan
        /\ plan.n = 0 => plan = NoPlan
        /\ \A p \in Partitions : plan'.from[p] <= plan'.to[p]
    BY DEF VerdictInv, Inv, CheckpointInv, QueryTypeOK, Plan, Planned
  <2>3. RowsJudged' /\ plan'.n # 0
    BY <1>1, <2>1, <2>2, RowsStayJudged DEF VerdictInv
  <2>4. ASSUME NEW p \in Partitions, NEW o \in Nat, NEW a \in Nat, Stamped(p, o, a)'
        PROVE  Stamped(p, o, a) \/ (InRange(plan', p, o) /\ a = clock)
    <3>1. \A e \in Drivers : Holds(e)' => \/ Holds(e) /\ current'[e] = current[e]
                                          \/ current'[e] = plan'
      BY <2>1 DEF VerdictInv, Inv, CheckpointInv, QueryTypeOK, Holds
    <3>2. plan'.at = clock
      BY <2>1
    <3> QED BY <1>1, <2>4, <3>1, <3>2 DEF Stamped, InRange
  <2>5. ASSUME losses = 0, NEW p \in Partitions, NEW o \in Nat, NEW a \in Nat, Stamped(p, o, a)
        PROVE  o < plan'.to[p] /\ ~InRange(plan', p, o)
    <3>1. o < plan.to[p]
      BY <2>5 DEF VerdictInv, OneStamp
    <3>2. plan.n # 0
      BY <2>2, <3>1 DEF NoPlan
    <3>3. plan'.from = plan.to
      BY <2>1, <3>2 DEF StartOf
    <3>4. plan.to[p] \in Nat /\ plan'.to[p] \in Nat
      BY <2>2 DEF Plan, Offsets
    <3> QED BY <2>2, <3>1, <3>3, <3>4 DEF InRange
  <2>6. OneStamp'
    <3> SUFFICES ASSUME losses = 0, NEW p \in Partitions, NEW o \in Nat, NEW a \in Nat,
                        Stamped(p, o, a)'
                 PROVE  o < plan'.to[p] /\ \A b \in Nat : Stamped(p, o, b)' => a = b
      BY <1>1 DEF OneStamp
    <3>1. o < plan'.to[p]
      BY <2>4, <2>5 DEF InRange
    <3>2. ASSUME NEW b \in Nat, Stamped(p, o, b)' PROVE a = b
      <4>1. CASE InRange(plan', p, o)
        BY <2>4, <2>5, <3>2, <4>1
      <4>2. CASE ~InRange(plan', p, o)
        <5>1. Stamped(p, o, a) /\ Stamped(p, o, b)
          BY <2>4, <3>2, <4>2
        <5> QED BY <5>1 DEF VerdictInv, OneStamp
      <4> QED BY <4>1, <4>2
    <3> QED BY <3>1, <3>2
  <2> QED BY <1>2, <2>3, <2>6 DEF VerdictInv
<1> QED BY <1>3, <1>4

(* After a checkpoint loss nothing is claimed. *)
LEMMA LoseKeepsVerdicts ==
    ASSUME VerdictInv, Inv', LoseCheckpoint
    PROVE  VerdictInv'
<1>1. \A e \in Drivers : BatchStamped(e)'
  BY DEF LoseCheckpoint, DeleteCheckpoint, BatchStamped
<1>2. RowsJudged'
  BY RowsStayJudged DEF VerdictInv, LoseCheckpoint, silverVars
<1>3. losses' # 0
  BY DEF VerdictInv, Inv, CheckpointInv, QueryTypeOK, LoseCheckpoint, DeleteCheckpoint
<1> QED BY <1>1, <1>2, <1>3 DEF VerdictInv, OneStamp, LoseCheckpoint, DeleteCheckpoint

(* Every step of the stream preserves VerdictInv. *)
LEMMA VerdictStep ==
    ASSUME VerdictInv, [Next]_vars
    PROVE  VerdictInv'
<1>1. Inv'
  BY InvStep DEF VerdictInv
<1>2. CASE TopicNext /\ UNCHANGED <<silverVars, queryVars>>
  BY <1>1, <1>2, TopicKeepsVerdicts
<1>3. ASSUME NEW d \in Drivers, DriverStep(d) \/ Crash(d) PROVE VerdictInv'
  BY <1>1, <1>3, StartKeepsVerdicts, TriggerKeepsVerdicts, RunBatchKeepsVerdicts,
     MergeKeepsVerdicts, LeaveKeepsVerdicts DEF DriverStep
<1>4. CASE LoseCheckpoint
  BY <1>1, <1>4, LoseKeepsVerdicts
<1>5. CASE UNCHANGED vars
  <2>1. UNCHANGED topicVars /\ UNCHANGED silverVars /\ UNCHANGED queryVars
    BY <1>5 DEF vars
  <2>2. \A e \in Drivers : BatchStamped(e)'
    BY <2>1, SameBatches DEF VerdictInv, silverVars, queryVars, driverVars
  <2> QED BY <1>1, <2>1, <2>2, QuietKeepsVerdicts DEF silverVars, queryVars, checkpointVars,
             driverVars, Holds
<1> QED BY <1>2, <1>3, <1>4, <1>5 DEF Next, SilverNext

(* Before the first micro-batch nothing is stamped. *)
LEMMA VerdictInit == Init => VerdictInv
<1> SUFFICES ASSUME Init PROVE VerdictInv
  OBVIOUS
<1>1. Inv
  BY InvInit
<1>2. \A p \in Partitions, o, a \in Nat : ~Stamped(p, o, a)
  BY DEF Init, SilverInit, QueryInit, NoPlan, Stamped, Holds, InRange
<1>3. RowsJudged /\ \A d \in Drivers : BatchStamped(d)
  BY DEF Init, SilverInit, QueryInit, RowsJudged, BatchStamped
<1> QED BY <1>1, <1>2, <1>3 DEF VerdictInv, OneStamp, Init, QueryInit

(* Two rows of one record were stamped alike, so its verdict was the same. *)
LEMMA VerdictsAgree == VerdictInv => ExactlyOneTable
<1> SUFFICES ASSUME VerdictInv, losses = 0, NEW r \in edits, NEW q \in quarantine,
                    q.p = r.p, q.o = r.o
             PROVE  FALSE
  BY DEF ExactlyOneTable, Quarantined
<1>1. /\ r.p \in Partitions /\ r.o \in Nat /\ r.at \in Nat /\ q.at \in Nat
  BY DEF VerdictInv, Inv, MergeInv, SilverTypeOK, EditRow, QuarantineRow
<1>2. Stamped(r.p, r.o, r.at) /\ Stamped(r.p, r.o, q.at)
  BY DEF Stamped
<1>3. r.at = q.at
  BY <1>1, <1>2 DEF VerdictInv, OneStamp
<1> QED BY <1>3 DEF VerdictInv, RowsJudged

(* Every frame lands in exactly one of silver.edits and silver.quarantine  *)
(* (docs/correctness.md, section 5): a replay of a micro-batch, by any     *)
(* driver, judges with the timestamp of the first run.                     *)
THEOREM ExactlyOneTableAlways == Spec => []ExactlyOneTable
<1>1. VerdictInv /\ [Next]_vars => VerdictInv'
  BY VerdictStep
<1> QED BY <1>1, VerdictInit, VerdictsAgree, PTL DEF Spec

-----------------------------------------------------------------------------
(* First arrival wins.  A record below the row of its event was refused:   *)
(* it is in quarantine, or will be when the newest entry is confirmed.     *)

Settled(p, o) ==
    \/ Quarantined(p, o)
    \/ /\ committed < plan.n /\ InRange(plan, p, o)
       /\ Verdict(log[p][o + 1], plan.at) # Valid

(* Every unexpired record of partition p below o that carries id. *)
EarlierSettled(p, o, id) ==
    \A i \in Nat : low[p] <= i /\ i < o /\ log[p][i + 1].id = id => Settled(p, i)

RowsFirst == losses = 0 => \A r \in edits : EarlierSettled(r.p, r.o, r.id)

NewFirst(d) ==
    losses = 0 /\ running[d] = "writing" /\ merge[d].step = "append_edits" =>
        \A c \in merge[d].new : EarlierSettled(c.p, c.o, EditsKey(c))

(* An entry older than the newest ends where that one starts, or before. *)
EntryOrder(d) ==
    running[d] # "down" /\ current[d].n < plan.n =>
        \A p \in Partitions : current[d].to[p] <= plan.from[p]

(* What the rules refused of a confirmed newest entry is in quarantine. *)
RefusedQuarantined ==
    committed = plan.n =>
        \A p \in Partitions, o \in Nat :
            /\ low[p] <= o /\ InRange(plan, p, o)
            /\ Verdict(log[p][o + 1], plan.at) # Valid
            => Quarantined(p, o)

(* A row carries the event id of its record and was made in the past. *)
RowsOwn == \A r \in edits : r.id = log[r.p][r.o + 1].id /\ r.at <= clock

ArrivalInv == /\ VerdictInv
              /\ RowsOwn
              /\ RefusedQuarantined
              /\ RowsFirst
              /\ \A d \in Drivers : EntryOrder(d) /\ NewFirst(d)

(* The topic moves only forward, and records stay at their offsets. *)
LEMMA TopicForward ==
    ASSUME TopicTypeOK, TopicNext \/ UNCHANGED topicVars
    PROVE  /\ clock \in Nat /\ clock' \in Nat /\ clock <= clock'
           /\ \A p \in Partitions :
                /\ low[p] \in Nat /\ low'[p] \in Nat /\ low[p] <= low'[p]
                /\ Len(log[p]) \in Nat
                /\ \A o \in Nat : o < Len(log[p]) => log'[p][o + 1] = log[p][o + 1]
<1>1. TopicTypeOK' /\ clock <= clock'
      /\ \A p \in Partitions : /\ low[p] <= low'[p]
                               /\ \A i \in 1..Len(log[p]) : log'[p][i] = log[p][i]
  BY LogGrows DEF TopicTypeOK, topicVars
<1>2. \A p \in Partitions : Len(log[p]) \in Nat /\ low[p] \in Nat /\ low'[p] \in Nat
  BY <1>1 DEF TopicTypeOK
<1>3. ASSUME NEW p \in Partitions, NEW o \in Nat, o < Len(log[p])
      PROVE  log'[p][o + 1] = log[p][o + 1]
  <2>1. o + 1 \in 1..Len(log[p])
    BY <1>2, <1>3
  <2> QED BY <1>1, <2>1
<1> QED BY <1>1, <1>2, <1>3 DEF TopicTypeOK

(* Where rows of silver.edits, and rows about to be, come from. *)
LEMMA ArrivalTypes ==
    ASSUME VerdictInv
    PROVE  /\ TopicTypeOK
           /\ \A r \in edits : r.p \in Partitions /\ r.o \in Nat /\ r.o < Len(log[r.p])
           /\ \A d \in Drivers : running[d] = "writing" =>
                /\ merge[d].batch \subseteq Candidate
                /\ \A c \in merge[d].batch :
                     /\ c.p \in Partitions /\ c.o \in Nat /\ c.at \in Nat
                     /\ c.o < Len(log[c.p]) /\ c.frame = log[c.p][c.o + 1]
                     /\ InRange(current[d], c.p, c.o) /\ c.at = current[d].at /\ c.at <= clock
                /\ merge[d].step = "append_edits" => merge[d].new \subseteq merge[d].batch
<1>1. TopicTypeOK
  BY DEF VerdictInv, Inv, CheckpointInv
<1>2. \A r \in edits : r.p \in Partitions /\ r.o \in Nat /\ r.o < Len(log[r.p])
  BY DEF VerdictInv, Inv, MergeInv, SilverTypeOK, EditRow, RowsJudged
<1>3. ASSUME NEW d \in Drivers, running[d] = "writing"
      PROVE  /\ merge[d].batch \subseteq Candidate
             /\ \A c \in merge[d].batch :
                  /\ c.p \in Partitions /\ c.o \in Nat /\ c.at \in Nat
                  /\ c.o < Len(log[c.p]) /\ c.frame = log[c.p][c.o + 1]
                  /\ InRange(current[d], c.p, c.o) /\ c.at = current[d].at /\ c.at <= clock
  <2>1. merge[d].batch \subseteq Candidate
    BY SilverAssumption DEF VerdictInv, Inv, MergeInv, SilverTypeOK, MergeState
  <2> QED BY <1>3, <2>1 DEF VerdictInv, Inv, BatchOf, BatchStamped, Candidate
<1>4. ASSUME NEW d \in Drivers, merge[d].step = "append_edits"
      PROVE  merge[d].new \subseteq merge[d].batch
  BY <1>4, SilverAssumption, CandidatesSplit DEF VerdictInv, Inv, MergeInv, Progress, EditsStaged
<1> QED BY <1>1, <1>2, <1>3, <1>4

(* Earlier records stay settled in a step that settles none back. *)
LEMMA EarlierKept ==
    ASSUME VerdictInv, TopicNext \/ UNCHANGED topicVars,
           \A p \in Partitions, o \in Nat :
               low[p] <= o /\ o < Len(log[p]) /\ Settled(p, o) => Settled(p, o)',
           NEW p \in Partitions, NEW o \in Nat, o < Len(log[p]), NEW id,
           EarlierSettled(p, o, id)
    PROVE  EarlierSettled(p, o, id)'
<1> SUFFICES ASSUME NEW i \in Nat, low'[p] <= i, i < o, log'[p][i + 1].id = id
             PROVE  Settled(p, i)'
  BY DEF EarlierSettled
<1>1. /\ low[p] \in Nat /\ low'[p] \in Nat /\ low[p] <= low'[p] /\ Len(log[p]) \in Nat
      /\ \A n \in Nat : n < Len(log[p]) => log'[p][n + 1] = log[p][n + 1]
  BY TopicForward DEF VerdictInv, Inv, CheckpointInv
<1>2. low[p] <= i /\ i < Len(log[p])
  BY <1>1
<1>3. log[p][i + 1].id = id
  BY <1>1, <1>2
<1>4. Settled(p, i)
  BY <1>2, <1>3 DEF EarlierSettled
<1> QED BY <1>2, <1>4

(* So do the records below the rows of the table, in a step that adds none. *)
LEMMA RowsFirstKept ==
    ASSUME ArrivalInv, TopicNext \/ UNCHANGED topicVars, edits' = edits, losses' = losses,
           \A p \in Partitions, o \in Nat :
               low[p] <= o /\ o < Len(log[p]) /\ Settled(p, o) => Settled(p, o)'
    PROVE  RowsFirst'
<1> SUFFICES ASSUME losses = 0, NEW r \in edits PROVE EarlierSettled(r.p, r.o, r.id)'
  BY DEF RowsFirst
<1>1. r.p \in Partitions /\ r.o \in Nat /\ r.o < Len(log[r.p])
  BY ArrivalTypes DEF ArrivalInv
<1>2. EarlierSettled(r.p, r.o, r.id)
  BY DEF ArrivalInv, RowsFirst
<1> QED BY <1>1, <1>2, EarlierKept DEF ArrivalInv

(* And those below the rows a driver is about to append. *)
LEMMA NewFirstKept ==
    ASSUME ArrivalInv, TopicNext \/ UNCHANGED topicVars, losses' = losses,
           \A p \in Partitions, o \in Nat :
               low[p] <= o /\ o < Len(log[p]) /\ Settled(p, o) => Settled(p, o)',
           NEW d \in Drivers,
           running'[d] = "writing" /\ merge'[d].step = "append_edits" =>
               running[d] = "writing" /\ merge'[d] = merge[d]
    PROVE  NewFirst(d)'
<1> SUFFICES ASSUME losses = 0, running'[d] = "writing", merge'[d].step = "append_edits",
                    NEW c \in merge'[d].new
             PROVE  EarlierSettled(c.p, c.o, EditsKey(c))'
  BY DEF NewFirst, EditsKey
<1>1. running[d] = "writing" /\ merge[d].step = "append_edits" /\ c \in merge[d].new
  OBVIOUS
<1>2. c.p \in Partitions /\ c.o \in Nat /\ c.o < Len(log[c.p])
  BY <1>1, ArrivalTypes DEF ArrivalInv
<1>3. EarlierSettled(c.p, c.o, c.frame.id)
  BY <1>1 DEF ArrivalInv, NewFirst, EditsKey
<1>4. EarlierSettled(c.p, c.o, c.frame.id)'
  BY <1>2, <1>3, EarlierKept DEF ArrivalInv
<1> QED BY <1>4 DEF EditsKey

(* A settled record stays settled while the checkpoint stands still. *)
LEMMA SettledKept ==
    ASSUME VerdictInv, TopicNext \/ UNCHANGED topicVars, Grows, plan' = plan,
           committed' = committed
    PROVE  \A p \in Partitions, o \in Nat :
               low[p] <= o /\ o < Len(log[p]) /\ Settled(p, o) => Settled(p, o)'
<1> SUFFICES ASSUME NEW p \in Partitions, NEW o \in Nat, o < Len(log[p]), Settled(p, o)
             PROVE  Settled(p, o)'
  OBVIOUS
<1>1. log'[p][o + 1] = log[p][o + 1]
  BY TopicForward DEF VerdictInv, Inv, CheckpointInv
<1>2. Quarantined(p, o) => Quarantined(p, o)'
  BY DEF Quarantined, Grows
<1> QED BY <1>1, <1>2 DEF Settled, InRange

(* The refused records of the newest entry stay in quarantine. *)
LEMMA RefusedKept ==
    ASSUME VerdictInv, RefusedQuarantined, TopicNext \/ UNCHANGED topicVars, Grows,
           plan' = plan, committed' = committed
    PROVE  RefusedQuarantined'
<1> SUFFICES ASSUME committed = plan.n, NEW p \in Partitions, NEW o \in Nat, low'[p] <= o,
                    InRange(plan, p, o), Verdict(log'[p][o + 1], plan.at) # Valid
             PROVE  Quarantined(p, o)'
  BY DEF RefusedQuarantined, InRange
<1>1. /\ low[p] \in Nat /\ low'[p] \in Nat /\ low[p] <= low'[p] /\ Len(log[p]) \in Nat
      /\ \A n \in Nat : n < Len(log[p]) => log'[p][n + 1] = log[p][n + 1]
  BY TopicForward DEF VerdictInv, Inv, CheckpointInv
<1>2. plan.to[p] \in Nat /\ plan.to[p] <= Len(log[p])
  BY DEF VerdictInv, Inv, CheckpointInv, QueryTypeOK, Plan, Offsets, Planned
<1>3. low[p] <= o /\ o < Len(log[p])
  BY <1>1, <1>2 DEF InRange
<1>4. Verdict(log[p][o + 1], plan.at) # Valid
  BY <1>1, <1>3
<1>5. Quarantined(p, o)
  BY <1>3, <1>4 DEF RefusedQuarantined
<1> QED BY <1>5 DEF Quarantined, Grows

(* The rows there are keep their records. *)
LEMMA RowsOwnKept ==
    ASSUME VerdictInv, RowsOwn, TopicNext \/ UNCHANGED topicVars, edits' = edits
    PROVE  RowsOwn'
<1>1. /\ clock \in Nat /\ clock' \in Nat /\ clock <= clock'
      /\ \A p \in Partitions, n \in Nat : n < Len(log[p]) => log'[p][n + 1] = log[p][n + 1]
  BY TopicForward DEF VerdictInv, Inv, CheckpointInv
<1>2. \A r \in edits : r.p \in Partitions /\ r.o \in Nat /\ r.o < Len(log[r.p]) /\ r.at \in Nat
  BY ArrivalTypes DEF VerdictInv, Inv, MergeInv, SilverTypeOK, EditRow
<1> QED BY <1>1, <1>2 DEF RowsOwn

(* A step that plans nothing, confirms nothing and adds no edit. *)
LEMMA QuietKeepsArrival ==
    ASSUME ArrivalInv, VerdictInv', TopicNext \/ UNCHANGED topicVars, Grows,
           UNCHANGED <<edits, plan, committed, losses>>,
           \A d \in Drivers : running'[d] # "down" =>
               current'[d] = plan \/ (running[d] # "down" /\ current'[d] = current[d]),
           \A d \in Drivers : running'[d] = "writing" /\ merge'[d].step = "append_edits" =>
               running[d] = "writing" /\ merge'[d] = merge[d]
    PROVE  ArrivalInv'
<1>1. \A p \in Partitions, o \in Nat :
          low[p] <= o /\ o < Len(log[p]) /\ Settled(p, o) => Settled(p, o)'
  BY SettledKept DEF ArrivalInv
<1>2. RowsFirst' /\ \A d \in Drivers : NewFirst(d)'
  BY <1>1, RowsFirstKept, NewFirstKept
<1>3. RowsOwn' /\ RefusedQuarantined'
  BY RowsOwnKept, RefusedKept DEF ArrivalInv
<1>4. \A d \in Drivers : EntryOrder(d)'
  BY DEF ArrivalInv, VerdictInv, Inv, CheckpointInv, QueryTypeOK, Plan, EntryOrder
<1> QED BY <1>2, <1>3, <1>4 DEF ArrivalInv

(* The steps that leave the edits and the checkpoint alone. *)
LEMMA QuietStepsKeepArrival ==
    ASSUME ArrivalInv, VerdictInv', NEW d \in Drivers,
           \/ TopicNext /\ UNCHANGED <<silverVars, queryVars>>
           \/ Start(d) \/ RunBatch(d) \/ Crash(d)
           \/ UNCHANGED vars
    PROVE  ArrivalInv'
<1> USE DEF silverVars, queryVars, checkpointVars, driverVars
<1>1. /\ running \in [Drivers -> DriverStates] /\ current \in [Drivers -> Plan]
      /\ merge \in [Writers -> MergeState] /\ Drivers \subseteq Writers
  BY SilverAssumption DEF ArrivalInv, VerdictInv, Inv, CheckpointInv, QueryTypeOK, MergeInv,
     SilverTypeOK
<1>2. CASE TopicNext /\ UNCHANGED <<silverVars, queryVars>>
  BY <1>2, QuietKeepsArrival DEF Grows
<1>3. CASE Start(d)
  BY <1>1, <1>3, QuietKeepsArrival DEF Start, StartDriver, Grows
<1>4. CASE RunBatch(d)
  <2>1. UNCHANGED <<topicVars, edits, quarantine, plan, committed, losses, current>>
    BY <1>4 DEF RunBatch, BeginBatch, BeginMerge
  <2>2. \A e \in Drivers : running'[e] # "down" => running[e] # "down"
    BY <1>1, <1>4 DEF RunBatch, BeginBatch
  <2>3. ASSUME NEW e \in Drivers, running'[e] = "writing", merge'[e].step = "append_edits"
        PROVE  running[e] = "writing" /\ merge'[e] = merge[e]
    <3>1. merge'[d].step = "scan_edits"
      BY <1>1, <1>4 DEF RunBatch, BeginMerge
    <3> QED BY <1>1, <1>4, <2>3, <3>1 DEF RunBatch, BeginBatch, BeginMerge
  <2> QED BY <2>1, <2>2, <2>3, QuietKeepsArrival DEF Grows
<1>5. CASE Crash(d)
  <2>1. UNCHANGED <<topicVars, edits, quarantine, plan, committed, losses>>
    BY <1>5 DEF Crash, CrashDriver, AbandonMerge
  <2>2. \A e \in Drivers : running'[e] # "down" =>
          running'[e] = running[e] /\ current'[e] = current[e] /\ merge'[e] = merge[e]
    BY <1>1, <1>5 DEF Crash, CrashDriver, StopDriver, AbandonMerge
  <2> QED BY <2>1, <2>2, QuietKeepsArrival DEF Grows
<1>6. CASE UNCHANGED vars
  BY <1>6, QuietKeepsArrival DEF vars, Grows
<1> QED BY <1>2, <1>3, <1>4, <1>5, <1>6

(* After a checkpoint loss nothing is claimed of the rows there are. *)
LEMMA LoseKeepsArrival ==
    ASSUME ArrivalInv, VerdictInv', LoseCheckpoint
    PROVE  ArrivalInv'
<1>1. losses' # 0 /\ plan' = NoPlan /\ UNCHANGED <<topicVars, edits, running>>
      /\ \A d \in Drivers : running[d] = "down"
  BY DEF ArrivalInv, VerdictInv, Inv, CheckpointInv, QueryTypeOK, LoseCheckpoint,
         DeleteCheckpoint, silverVars
<1>2. RowsFirst' /\ \A d \in Drivers : NewFirst(d)' /\ EntryOrder(d)'
  BY <1>1 DEF RowsFirst, NewFirst, EntryOrder
<1>3. RefusedQuarantined'
  BY <1>1 DEF RefusedQuarantined, InRange, NoPlan
<1>4. RowsOwn'
  BY <1>1, RowsOwnKept DEF ArrivalInv
<1> QED BY <1>2, <1>3, <1>4 DEF ArrivalInv

(* A new entry is planned behind a confirmed one: of the records settled   *)
(* by then all are in quarantine.                                          *)
LEMMA TriggerKeepsArrival ==
    ASSUME ArrivalInv, VerdictInv', NEW d \in Drivers, Trigger(d)
    PROVE  ArrivalInv'
<1>1. /\ running \in [Drivers -> DriverStates] /\ current \in [Drivers -> Plan]
      /\ plan \in Plan /\ plan.n \in Nat /\ committed \in Nat
      /\ \A e \in Drivers : current[e].n \in Nat
  BY DEF ArrivalInv, VerdictInv, Inv, CheckpointInv, QueryTypeOK, Plan
<1>2. UNCHANGED <<topicVars, edits, quarantine, merge, losses, committed>>
  BY DEF Trigger, PlanBatch, silverVars
<1>3. CASE plan # current[d]
  <2>1. plan' = plan /\ StopDriver(d)
    BY <1>3 DEF Trigger, PlanBatch
  <2>2. \A e \in Drivers : running'[e] # "down" =>
          running'[e] = running[e] /\ current'[e] = current[e]
    BY <1>1, <2>1 DEF StopDriver
  <2> QED BY <1>2, <2>1, <2>2, QuietKeepsArrival DEF Grows
<1>4. CASE plan = current[d]
  <2>1. PICK to \in EndsFrom(StartOf(plan)) :
          /\ plan' = [n |-> plan.n + 1, from |-> StartOf(plan), to |-> to, at |-> clock]
          /\ running' = [running EXCEPT ![d] = "planned"]
          /\ current' = [current EXCEPT ![d] = plan']
    BY <1>4 DEF Trigger, PlanBatch
  <2>2. committed = plan.n
    BY <1>1, <1>4 DEF ArrivalInv, VerdictInv, Inv, CheckpointInv, OffsetsAtMostOneAhead, Follows,
       Trigger, PlanBatch
  <2>3. \A p \in Partitions, o \in Nat : Settled(p, o) => Settled(p, o)'
    BY <1>1, <1>2, <2>2 DEF Settled, Quarantined
  <2>4. RowsFirst'
    BY <1>2, <2>3, RowsFirstKept
  <2>5. ASSUME NEW e \in Drivers PROVE NewFirst(e)' /\ EntryOrder(e)'
    <3>1. running'[e] = "writing" => running[e] = "writing"
      BY <1>1, <2>1
    <3>2. NewFirst(e)'
      BY <1>2, <2>3, <3>1, NewFirstKept
    <3>3. ASSUME running'[e] # "down", current'[e].n < plan'.n, NEW p \in Partitions
          PROVE  current'[e].to[p] <= plan'.from[p]
      <4>1. e # d /\ current'[e] = current[e] /\ running'[e] = running[e]
        BY <1>1, <2>1, <3>3
      <4>2. current[e].n <= plan.n /\ (current[e].n = plan.n => current[e] = plan)
        BY <3>3, <4>1 DEF ArrivalInv, VerdictInv, Inv, CheckpointInv, Follows
      <4>3. /\ plan.from[p] \in Nat /\ plan.to[p] \in Nat /\ plan.from[p] <= plan.to[p]
            /\ current[e].to[p] \in Nat /\ low[p] \in Nat
        BY <1>1 DEF ArrivalInv, VerdictInv, Inv, CheckpointInv, Plan, Offsets, Planned, TopicTypeOK
      <4>4. plan.n = 0 => plan = NoPlan
        BY DEF ArrivalInv, VerdictInv
      <4>5. current[e].to[p] <= plan.to[p]
        <5>1. CASE current[e].n = plan.n
          BY <4>2, <4>3, <5>1
        <5>2. CASE current[e].n < plan.n
          BY <3>3, <4>1, <4>3, <5>2 DEF ArrivalInv, EntryOrder
        <5> QED BY <1>1, <4>2, <5>1, <5>2
      <4>6. plan'.from[p] = IF plan.n = 0 THEN low[p] ELSE plan.to[p]
        BY <2>1 DEF StartOf
      <4>7. plan.n = 0 => plan.to[p] = 0
        BY <4>4 DEF NoPlan
      <4> QED BY <4>1, <4>3, <4>5, <4>6, <4>7
    <3> QED BY <3>2, <3>3 DEF EntryOrder
  <2>6. RefusedQuarantined'
    BY <1>1, <1>2, <2>1, <2>2 DEF RefusedQuarantined
  <2>7. RowsOwn'
    BY <1>2, RowsOwnKept DEF ArrivalInv
  <2> QED BY <2>4, <2>5, <2>6, <2>7 DEF ArrivalInv
<1> QED BY <1>3, <1>4

(* When the newest entry is confirmed, its refused records are in          *)
(* quarantine: whoever of its drivers confirms has merged all of them.     *)
LEMMA CommitKeepsArrival ==
    ASSUME ArrivalInv, VerdictInv', NEW d \in Drivers, Commit(d)
    PROVE  ArrivalInv'
<1>1. /\ running \in [Drivers -> DriverStates] /\ current \in [Drivers -> Plan]
      /\ merge \in [Writers -> MergeState] /\ Drivers \subseteq Writers
      /\ plan.n \in Nat /\ committed \in Nat
  BY SilverAssumption DEF ArrivalInv, VerdictInv, Inv, CheckpointInv, QueryTypeOK, MergeInv,
     SilverTypeOK, Plan
<1>2. UNCHANGED <<topicVars, edits, quarantine, plan, losses>> /\ Grows
  BY DEF Commit, CommitBatch, EndMerge, Grows
<1>3. \A e \in Drivers : running'[e] # "down" => running[e] # "down" /\ current'[e] = current[e]
  BY <1>1 DEF Commit, CommitBatch, StopDriver
<1>4. \A e \in Drivers : running'[e] = "writing" /\ merge'[e].step = "append_edits" =>
        running[e] = "writing" /\ merge'[e] = merge[e]
  BY <1>1 DEF Commit, CommitBatch, StopDriver, EndMerge
<1>5. CASE ~(committed < current[d].n)
  <2>1. committed' = committed
    BY <1>5 DEF Commit, CommitBatch
  <2> QED BY <1>2, <1>3, <1>4, <2>1, QuietKeepsArrival
<1>6. CASE committed < current[d].n
  <2>1. current[d] = plan /\ running[d] = "writing" /\ merge[d].step = "return"
    BY <1>6, CommitsNewest DEF ArrivalInv, VerdictInv, Inv, Commit, CommitBatch, EndMerge
  <2>2. ASSUME NEW p \in Partitions, NEW o \in Nat, low[p] <= o, InRange(plan, p, o),
               Verdict(log[p][o + 1], plan.at) # Valid
        PROVE  Quarantined(p, o)
    <3>1. PICK c \in merge[d].batch : c.p = p /\ c.o = o
      BY <2>1, <2>2 DEF ArrivalInv, VerdictInv, Inv, BatchOf, InRange
    <3>2. c.frame = log[p][o + 1] /\ c.at = plan.at
      BY <2>1, <3>1, ArrivalTypes DEF ArrivalInv
    <3>3. c \in FailedCandidates(merge[d].batch)
      BY <2>2, <3>2, CandidatesSplit DEF FailureReason
    <3>4. Rejected(c)
      BY <1>1, <2>1, <3>3 DEF ArrivalInv, VerdictInv, Inv, MergeInv, Progress, QuarantineDone
    <3> QED BY <3>1, <3>4 DEF Rejected, QuarantineKey, Quarantined
  <2>3. RefusedQuarantined'
    BY <1>2, <2>2 DEF RefusedQuarantined, InRange, topicVars, Quarantined
  <2>4. \A p \in Partitions, o \in Nat : low[p] <= o /\ Settled(p, o) => Settled(p, o)'
    BY <1>2, <2>2 DEF Settled, Quarantined
  <2>5. RowsFirst' /\ \A e \in Drivers : NewFirst(e)'
    BY <1>2, <1>4, <2>4, RowsFirstKept, NewFirstKept
  <2>6. RowsOwn' /\ \A e \in Drivers : EntryOrder(e)'
    BY <1>2, <1>3, RowsOwnKept DEF ArrivalInv, EntryOrder
  <2> QED BY <2>3, <2>5, <2>6 DEF ArrivalInv
<1> QED BY <1>5, <1>6

(* What lies below the range a driver runs, or in it when a later entry    *)
(* exists, is confirmed.                                                   *)
LEMMA BelowIsConfirmed ==
    ASSUME ArrivalInv, NEW d \in Drivers, running[d] # "down",
           NEW p \in Partitions, NEW o \in Nat, o < current[d].to[p]
    PROVE  \/ o < Confirmed(p)
           \/ current[d] = plan /\ committed < plan.n /\ InRange(plan, p, o)
<1>1. /\ plan.n \in Nat /\ committed \in Nat /\ current[d].n \in Nat /\ current[d].to[p] \in Nat
      /\ plan.from[p] \in Nat /\ plan.to[p] \in Nat /\ plan.from[p] <= plan.to[p]
  BY DEF ArrivalInv, VerdictInv, Inv, CheckpointInv, QueryTypeOK, Plan, Offsets, Planned
<1>2. current[d].n <= plan.n /\ (current[d].n = plan.n => current[d] = plan)
  BY DEF ArrivalInv, VerdictInv, Inv, CheckpointInv, Follows
<1>3. plan.n = committed \/ plan.n = committed + 1
  BY DEF ArrivalInv, VerdictInv, Inv, CheckpointInv, OffsetsAtMostOneAhead
<1>4. CASE current[d].n < plan.n
  <2>1. current[d].to[p] <= plan.from[p]
    BY <1>4 DEF ArrivalInv, EntryOrder
  <2> QED BY <1>1, <2>1 DEF Confirmed
<1>5. CASE current[d] = plan
  BY <1>1, <1>3, <1>5 DEF Confirmed, InRange
<1> QED BY <1>1, <1>2, <1>4, <1>5

(* The anti-join and the choice of first arrivals leave nothing to insert  *)
(* that an earlier record should have brought.                             *)
LEMMA ScanFindsFirst ==
    ASSUME ArrivalInv, NEW d \in Drivers, running[d] = "writing", ScanEdits(d)
    PROVE  \A c \in merge'[d].new : EarlierSettled(c.p, c.o, EditsKey(c))
<1> DEFINE B == merge[d].batch
           C == ValidCandidates(B)
<1>1. PICK S \in ValidRows(B) :
        merge' = [merge EXCEPT ![d].step = "append_edits",
                               ![d].new = { c \in S : \A r \in edits : r.id # EditsKey(c) }]
  BY DEF ScanEdits
<1>2. merge'[d].new = { c \in S : \A r \in edits : r.id # EditsKey(c) }
  BY <1>1, SilverAssumption DEF ArrivalInv, VerdictInv, Inv, MergeInv, SilverTypeOK, MergeState
<1>3. S \subseteq C /\ \A s \in S, c \in C : EditsKey(s) = EditsKey(c) => ~Before(c, s)
  BY DEF ValidRows, FirstPerKey
<1> SUFFICES ASSUME NEW c \in S, \A r \in edits : r.id # c.frame.id, NEW i \in Nat,
                    low[c.p] <= i, i < c.o, log[c.p][i + 1].id = c.frame.id
             PROVE  Settled(c.p, i)
  BY <1>2 DEF EarlierSettled, EditsKey
<1>4. c \in B /\ FailureReason(c) = Valid
  BY <1>3, CandidatesSplit
<1>5. /\ c.p \in Partitions /\ c.o \in Nat /\ InRange(current[d], c.p, c.o)
      /\ current[d].to[c.p] \in Nat
  BY <1>4, ArrivalTypes DEF ArrivalInv, VerdictInv, Inv, CheckpointInv, QueryTypeOK, Plan, Offsets
<1>6. i < current[d].to[c.p]
  BY <1>5 DEF InRange
<1>7. CASE i < Confirmed(c.p)
  <2>1. low[c.p] \in Nat /\ Confirmed(c.p) \in Nat
    BY <1>5, ConfirmedInLog DEF ArrivalInv, VerdictInv, Inv, CheckpointInv, TopicTypeOK
  <2>2. i \in low[c.p]..(Confirmed(c.p) - 1)
    BY <1>7, <2>1
  <2>3. Accounted(c.p, i)
    BY <1>5, <2>2 DEF ArrivalInv, VerdictInv, Inv, NothingSkipped
  <2> QED BY <2>3 DEF Accounted, Settled
<1>8. CASE current[d] = plan /\ committed < plan.n /\ InRange(plan, c.p, i)
  <2>1. PICK b \in B : b.p = c.p /\ b.o = i
    BY <1>5, <1>8 DEF ArrivalInv, VerdictInv, Inv, BatchOf, InRange
  <2>2. b.frame = log[c.p][i + 1] /\ b.at = plan.at
    BY <1>8, <2>1, ArrivalTypes DEF ArrivalInv
  <2>3. EditsKey(c) = EditsKey(b) /\ Before(b, c)
    BY <2>1, <2>2 DEF EditsKey, Before
  <2>4. b \notin C
    BY <1>3, <2>3
  <2>5. Verdict(log[c.p][i + 1], plan.at) # Valid
    BY <2>1, <2>2, <2>4, CandidatesSplit DEF FailureReason
  <2> QED BY <1>8, <2>5 DEF Settled
<1> QED BY <1>5, <1>6, <1>7, <1>8, BelowIsConfirmed

(* Inside merge_batch: the rows a driver inserts were found first by its   *)
(* anti-join, and stay so until its append commits.                        *)
LEMMA MergeKeepsArrival ==
    ASSUME ArrivalInv, VerdictInv', NEW d \in Drivers, Merge(d)
    PROVE  ArrivalInv'
<1>1. /\ merge \in [Writers -> MergeState] /\ Drivers \subseteq Writers /\ running[d] = "writing"
      /\ UNCHANGED <<topicVars, plan, committed, running, current, losses>>
  BY SilverAssumption DEF ArrivalInv, VerdictInv, Inv, MergeInv, SilverTypeOK, Merge, queryVars,
     checkpointVars, driverVars
<1>2. Grows
  BY <1>1, MergeStepKeeps DEF ArrivalInv, VerdictInv, Inv, Merge
<1>3. \A p \in Partitions, o \in Nat :
          low[p] <= o /\ o < Len(log[p]) /\ Settled(p, o) => Settled(p, o)'
  BY <1>1, <1>2, SettledKept DEF ArrivalInv
<1>4. RefusedQuarantined' /\ \A e \in Drivers : EntryOrder(e)'
  BY <1>1, <1>2, RefusedKept DEF ArrivalInv, EntryOrder
<1>5. \A e \in Drivers : e # d => merge'[e] = merge[e]
  BY <1>1 DEF Merge, MergeStep, ScanEdits, AppendEdits, ScanQuarantine, AppendQuarantine
<1>6. \A e \in Drivers : e # d => NewFirst(e)'
  BY <1>1, <1>3, <1>5, NewFirstKept
<1>7. CASE ScanQuarantine(d) \/ AppendQuarantine(d)
  <2>1. edits' = edits /\ merge'[d].step # "append_edits"
    BY <1>1, <1>7 DEF MergeState, ScanQuarantine, AppendQuarantine
  <2>2. RowsFirst' /\ RowsOwn'
    BY <1>1, <1>3, <2>1, RowsFirstKept, RowsOwnKept DEF ArrivalInv
  <2>3. NewFirst(d)'
    BY <2>1 DEF NewFirst
  <2> QED BY <1>4, <1>6, <2>2, <2>3 DEF ArrivalInv
<1>8. CASE ScanEdits(d)
  <2>1. edits' = edits /\ UNCHANGED quarantine
    BY <1>8 DEF ScanEdits
  <2>2. RowsFirst' /\ RowsOwn'
    BY <1>1, <1>3, <2>1, RowsFirstKept, RowsOwnKept DEF ArrivalInv
  <2>3. \A p \in Partitions, o \in Nat : Settled(p, o)' = Settled(p, o)
    BY <1>1, <2>1 DEF Settled, Quarantined, InRange, topicVars
  <2>4. \A c \in merge'[d].new : EarlierSettled(c.p, c.o, EditsKey(c))
    BY <1>1, <1>8, ScanFindsFirst
  <2>5. \A c \in merge'[d].new : c.p \in Partitions
    <3>1. PICK S \in ValidRows(merge[d].batch) :
            merge' = [merge EXCEPT ![d].step = "append_edits",
                                   ![d].new = { c \in S : \A r \in edits : r.id # EditsKey(c) }]
      BY <1>8 DEF ScanEdits
    <3>2. merge'[d].new \subseteq S
      BY <1>1, <3>1 DEF MergeState
    <3>3. S \subseteq merge[d].batch
      BY CandidatesSplit DEF ValidRows
    <3> QED BY <1>1, <3>2, <3>3, ArrivalTypes DEF ArrivalInv
  <2>6. NewFirst(d)'
    BY <1>1, <2>3, <2>4, <2>5 DEF NewFirst, EarlierSettled, EditsKey, topicVars
  <2> QED BY <1>4, <1>6, <2>2, <2>6 DEF ArrivalInv
<1>9. CASE AppendEdits(d)
  <2>1. /\ merge'[d].step = "scan_quarantine" /\ quarantine' = quarantine
        /\ merge[d].step = "append_edits"
        /\ edits' = edits \cup EditRows(merge[d].new, snaps["edits"] + 1)
    BY <1>1, <1>9 DEF MergeState, AppendEdits
  <2>2. ASSUME NEW r \in edits' \ edits
        PROVE  \E c \in merge[d].new : r.id = EditsKey(c) /\ r.p = c.p /\ r.o = c.o /\ r.at = c.at
    BY <2>1 DEF EditRows, EditsKey
  <2>3. \A c \in merge[d].new : /\ c.p \in Partitions /\ c.o \in Nat /\ c.at <= clock
                                /\ c.frame = log[c.p][c.o + 1]
    BY <1>1, <2>1, ArrivalTypes DEF ArrivalInv
  <2>4. RowsOwn'
    BY <1>1, <2>2, <2>3 DEF ArrivalInv, RowsOwn, EditsKey, topicVars
  <2>5. \A p \in Partitions, o \in Nat : Settled(p, o)' = Settled(p, o)
    BY <1>1, <2>1 DEF Settled, Quarantined, InRange, topicVars
  <2>6. ASSUME losses = 0, NEW r \in edits' PROVE EarlierSettled(r.p, r.o, r.id)
    <3>1. CASE r \in edits
      BY <2>6, <3>1 DEF ArrivalInv, RowsFirst
    <3>2. CASE r \notin edits
      BY <1>1, <2>1, <2>2, <2>6, <3>2 DEF ArrivalInv, NewFirst
    <3> QED BY <3>1, <3>2
  <2>7. \A r \in edits' : r.p \in Partitions
    BY DEF VerdictInv, Inv, MergeInv, SilverTypeOK, EditRow
  <2>8. RowsFirst'
    BY <1>1, <2>5, <2>6, <2>7 DEF RowsFirst, EarlierSettled, topicVars
  <2>9. NewFirst(d)'
    BY <2>1 DEF NewFirst
  <2> QED BY <1>4, <1>6, <2>4, <2>8, <2>9 DEF ArrivalInv
<1> QED BY <1>7, <1>8, <1>9 DEF Merge, MergeStep

(* Every step keeps the invariant, which holds before the first batch. *)
LEMMA ArrivalStep == ArrivalInv /\ [Next]_vars => ArrivalInv'
<1> SUFFICES ASSUME ArrivalInv, [Next]_vars PROVE ArrivalInv'
  OBVIOUS
<1>1. VerdictInv'
  BY VerdictStep DEF ArrivalInv
<1>2. ASSUME NEW d \in Drivers, DriverStep(d) \/ Crash(d) PROVE ArrivalInv'
  BY <1>1, <1>2, QuietStepsKeepArrival, TriggerKeepsArrival, MergeKeepsArrival,
     CommitKeepsArrival DEF DriverStep
<1>3. CASE LoseCheckpoint
  BY <1>1, <1>3, LoseKeepsArrival
<1>4. CASE (TopicNext /\ UNCHANGED <<silverVars, queryVars>>) \/ UNCHANGED vars
  <2>1. UNCHANGED <<silverVars, queryVars>> /\ (TopicNext \/ UNCHANGED topicVars)
    BY <1>4 DEF vars
  <2> QED BY <1>1, <2>1, QuietKeepsArrival DEF silverVars, queryVars, checkpointVars, driverVars,
             Grows
<1> QED BY <1>2, <1>3, <1>4 DEF Next, SilverNext

(* Nothing is in the tables, and no entry is planned. *)
LEMMA ArrivalInit == Init => ArrivalInv
<1> SUFFICES ASSUME Init PROVE ArrivalInv
  OBVIOUS
<1>1. VerdictInv
  BY VerdictInit
<1>2. RowsOwn /\ RowsFirst /\ \A d \in Drivers : EntryOrder(d) /\ NewFirst(d)
  BY DEF Init, SilverInit, QueryInit, RowsOwn, RowsFirst, EntryOrder, NewFirst
<1>3. RefusedQuarantined
  BY DEF Init, QueryInit, NoPlan, RefusedQuarantined, InRange
<1> QED BY <1>1, <1>2, <1>3 DEF ArrivalInv

(* The invariant of the verdicts holds in every reachable state. *)
LEMMA ArrivalAlways == Spec => []ArrivalInv
BY ArrivalInit, ArrivalStep, PTL DEF Spec

(* First arrival wins (docs/correctness.md, section 1), for any number of  *)
(* drivers and crashes: deduplicate keeps the earliest record of a batch,  *)
(* and an earlier batch was merged before this one was planned, so only a  *)
(* record the rules refused can lie below the row of its event.            *)
THEOREM FirstArrivalAlwaysWins == Spec => []FirstArrivalWins
<1>1. ASSUME ArrivalInv PROVE FirstArrivalWins
  <2> SUFFICES ASSUME losses = 0, NEW r \in edits, NEW o \in low[r.p]..(r.o - 1),
                      o < Confirmed(r.p), log[r.p][o + 1].id = r.id
               PROVE  Quarantined(r.p, o)
    BY DEF FirstArrivalWins
  <2>1. r.p \in Partitions /\ r.o \in Nat
    BY <1>1, ArrivalTypes DEF ArrivalInv
  <2>2. /\ low[r.p] \in Nat /\ plan.n \in Nat /\ committed \in Nat /\ plan.from[r.p] \in Nat
    BY <1>1, <2>1 DEF ArrivalInv, VerdictInv, Inv, CheckpointInv, TopicTypeOK, QueryTypeOK, Plan,
       Offsets
  <2>3. o \in Nat /\ low[r.p] <= o /\ o < r.o
    BY <2>1, <2>2
  <2>4. Settled(r.p, o)
    BY <1>1, <2>3 DEF ArrivalInv, RowsFirst, EarlierSettled
  <2>5. ~(committed < plan.n /\ InRange(plan, r.p, o))
    BY <2>2, <2>3 DEF Confirmed, InRange
  <2> QED BY <2>4, <2>5 DEF Settled
<1> QED BY <1>1, ArrivalAlways, PTL

-----------------------------------------------------------------------------
(* What the asset checks of the two tables tell.                           *)

(* A frame that passes every rule has a readable event time, not more than *)
(* the tolerance ahead of the time it was read at.                         *)
LEMMA ValidInTime ==
    ASSUME NEW f \in Frame, NEW at \in Nat, Verdict(f, at) = Valid
    PROVE  Readable(f) /\ f.dt \in Int /\ f.dt <= at + Tolerance
<1>1. ~\E i \in 1..7 : FailsFirst(i, f, at)
  BY ReasonNotValid DEF Verdict
<1>2. Passes(1, f, at) /\ Passes(2, f, at) /\ Passes(3, f, at)
  BY <1>1 DEF FailsFirst
<1>3. Passes(4, f, at) /\ Passes(5, f, at)
  BY <1>1, <1>2 DEF FailsFirst
<1>4. Passes(6, f, at)
  BY <1>1, <1>2, <1>3 DEF FailsFirst
<1>5. Passes(7, f, at)
  BY <1>1, <1>2, <1>3, <1>4 DEF FailsFirst
<1>6. Readable(f)
  BY <1>3 DEF Passes
<1>7. f.dt <= at + Tolerance
  BY <1>5, <1>6 DEF Passes
<1> QED BY <1>6, <1>7, FrameAssumption DEF FrameShape, Readable

(* A green silver_edits_are_fresh means that the stream writes             *)
(* (checks.py): the newest event time belongs to a row whose ingest time   *)
(* is at most the tolerance older, for any number of drivers, crashes and  *)
(* lost checkpoints.                                                       *)
THEOREM FreshAlwaysMeansRunning == Spec => []FreshMeansRunning
<1>1. ASSUME ArrivalInv, silver_edits_are_fresh
      PROVE  \E r \in edits : clock - r.at <= FRESHNESS_WARN_SECONDS + Tolerance
  <2>1. clock \in Nat /\ Tolerance \in Nat /\ FRESHNESS_WARN_SECONDS \in Nat
    BY <1>1, FrameAssumption, ChecksAssumption
       DEF ArrivalInv, VerdictInv, Inv, CheckpointInv, TopicTypeOK
  <2>2. ASSUME NEW r \in edits
        PROVE  /\ r.at \in Nat /\ r.at <= clock
               /\ event_time(r) \in Int /\ event_time(r) <= r.at + Tolerance
    <3>1. r.p \in Partitions /\ r.o \in Nat /\ r.o < Len(log[r.p]) /\ r.at \in Nat
      BY <1>1, ArrivalTypes DEF ArrivalInv, VerdictInv, Inv, MergeInv, SilverTypeOK, EditRow
    <3>2. log[r.p][r.o + 1] \in Frame
      BY <1>1, <3>1 DEF ArrivalInv, VerdictInv, Inv, CheckpointInv, TopicTypeOK
    <3>3. Verdict(log[r.p][r.o + 1], r.at) = Valid /\ r.at <= clock
      BY <1>1 DEF ArrivalInv, RowsOwn, VerdictInv, RowsJudged
    <3> QED BY <3>1, <3>2, <3>3, ValidInTime DEF event_time
  <2> DEFINE T == { event_time(r) : r \in edits }
  <2>3. T \in SUBSET Int /\ T # {} /\ \A t \in T : t <= clock + Tolerance
    BY <1>1, <2>1, <2>2 DEF silver_edits_are_fresh
  <2>4. clock - Max(T) <= FRESHNESS_WARN_SECONDS
    BY <1>1 DEF silver_edits_are_fresh, lag_seconds
  <2>5. \A t \in T : \E r \in edits : t = event_time(r)
    OBVIOUS
  <2> HIDE DEF T
  <2>6. clock + Tolerance \in Int
    BY <2>1
  <2>7. \E x \in T : \A y \in T : x >= y
    BY <2>3, <2>6, GreatestNumber
  <2>8. Max(T) \in T
    BY <2>7 DEF Max
  <2>9. PICK r \in edits : Max(T) = event_time(r)
    BY <2>5, <2>8
  <2> QED BY <2>1, <2>2, <2>4, <2>9
<1>2. ArrivalInv => FreshMeansRunning
  BY <1>1 DEF FreshMeansRunning
<1> QED BY <1>2, ArrivalAlways, PTL

(* The records of a micro-batch are finitely many. *)
LEMMA NewestBatchFinite ==
    ASSUME plan \in Plan
    PROVE  IsFiniteSet(NewestBatch)
<1> DEFINE Part(p) == { <<p, o>> : o \in plan.from[p]..(plan.to[p] - 1) }
           Parts == { Part(p) : p \in Partitions }
<1>1. ASSUME NEW p \in Partitions PROVE IsFiniteSet(Part(p))
  <2> DEFINE I == plan.from[p]..(plan.to[p] - 1)
             f == [o \in I |-> <<p, o>>]
  <2>1. IsFiniteSet(I)
    BY FS_Interval DEF Plan, Offsets
  <2>2. f \in Surjection(I, Part(p))
    BY DEF Surjection
  <2> QED BY <2>1, <2>2, FS_Surjection
<1>2. IsFiniteSet(Parts)
  <2> DEFINE g == [p \in Partitions |-> Part(p)]
  <2>1. g \in Surjection(Partitions, Parts)
    BY DEF Surjection
  <2> QED BY <2>1, TopicAssumption, FS_Surjection
<1>3. NewestBatch = UNION Parts
  BY DEF NewestBatch
<1>4. \A T \in Parts : IsFiniteSet(T)
  BY <1>1
<1> QED BY <1>2, <1>3, <1>4, FS_UNION

(* E of the N records of a batch are in edits, R were refused and Q are in *)
(* quarantine: a share of Q of at most W thousandths bounds that of R.     *)
LEMMA ShareBound ==
    ASSUME NEW N \in Nat, NEW R \in Nat, NEW E \in Nat, NEW Q \in Nat, NEW W \in 0..999,
           E <= N - R, R <= Q, 1000 * Q <= W * (E + Q)
    PROVE  1000 * R <= W * N
<1>1. W * E <= W * (N - R)
  OBVIOUS
<1>2. (1000 - W) * R <= (1000 - W) * Q
  OBVIOUS
<1>3. W * (E + Q) = W * E + W * Q /\ W * (N - R) = W * N - W * R
  OBVIOUS
<1>4. (1000 - W) * R = 1000 * R - W * R /\ (1000 - W) * Q = 1000 * Q - W * Q
  OBVIOUS
<1>5. W * E \in Int /\ W * Q \in Int /\ W * N \in Int /\ W * R \in Int
  OBVIOUS
<1> QED BY <1>1, <1>2, <1>3, <1>4, <1>5

(* The rows of the newest micro-batch carry its stamp. *)
LEMMA NewestStamp ==
    ASSUME VerdictInv, losses = 0, NEW r \in edits \cup quarantine, <<r.p, r.o>> \in NewestBatch
    PROVE  /\ r.p \in Partitions /\ r.o \in Nat /\ InRange(plan, r.p, r.o)
           /\ r.at = plan.at
<1>1. r.p \in Partitions /\ r.o \in Nat /\ r.at \in Nat
  BY DEF VerdictInv, Inv, MergeInv, SilverTypeOK, EditRow, QuarantineRow
<1>2. PICK p \in Partitions : \E o \in plan.from[p]..(plan.to[p] - 1) : <<r.p, r.o>> = <<p, o>>
  BY DEF NewestBatch
<1>3. plan.from[r.p] \in Nat /\ plan.to[r.p] \in Nat /\ plan.at \in Nat
  BY <1>1 DEF VerdictInv, Inv, CheckpointInv, QueryTypeOK, Plan, Offsets
<1>4. InRange(plan, r.p, r.o)
  BY <1>2, <1>3 DEF InRange
<1>5. Stamped(r.p, r.o, r.at) /\ Stamped(r.p, r.o, plan.at)
  BY <1>4 DEF Stamped
<1> QED BY <1>1, <1>3, <1>4, <1>5 DEF VerdictInv, OneStamp

(* What a green quarantine_rate_is_low says of the newest micro-batch, one *)
(* driver running: its refused records are all in quarantine, and those in *)
(* edits are among the others.                                             *)
LEMMA GreenBoundsRefused ==
    ASSUME ArrivalInv, EditsUnique, QuarantineUnique, losses = 0, OnlyNewestInLookback,
           quarantine_rate_is_low
    PROVE  1000 * Cardinality(Refused) <= QUARANTINE_WARN_RATE * Cardinality(NewestBatch)
<1> DEFINE E == InLookback(edits)
           Q == InLookback(quarantine)
           Good == NewestBatch \ Refused
<1>1. IsFiniteSet(NewestBatch) /\ Refused \subseteq NewestBatch
  BY NewestBatchFinite DEF ArrivalInv, VerdictInv, Inv, CheckpointInv, QueryTypeOK, Refused
<1>2. IsFiniteSet(Refused) /\ IsFiniteSet(Good)
  BY <1>1, FS_Subset, FS_Difference
<1>3. ASSUME NEW r \in E \cup Q
      PROVE  /\ r.p \in Partitions /\ r.o \in Nat /\ InRange(plan, r.p, r.o) /\ r.at = plan.at
             /\ <<r.p, r.o>> \in NewestBatch
  BY NewestStamp DEF ArrivalInv, OnlyNewestInLookback, InLookback
<1>4. IsFiniteSet(E) /\ Cardinality(E) <= Cardinality(Good)
  <2> DEFINE f == [r \in E |-> <<r.p, r.o>>]
  <2>1. ASSUME NEW r \in E PROVE <<r.p, r.o>> \in Good
    <3>1. Verdict(log[r.p][r.o + 1], plan.at) = Valid
      BY <1>3 DEF ArrivalInv, VerdictInv, RowsJudged, InLookback
    <3> QED BY <1>3, <3>1 DEF Refused
  <2>2. ASSUME NEW r \in E, NEW s \in E, f[r] = f[s] PROVE r = s
    BY <2>2 DEF ArrivalInv, RowsOwn, EditsUnique, InLookback
  <2>3. f \in Injection(E, Good)
    BY <2>1, <2>2 DEF Injection, IsInjective
  <2> QED BY <1>2, <2>3, FS_Injection
<1>5. IsFiniteSet(Q)
  <2> DEFINE f == [r \in Q |-> <<r.p, r.o>>]
  <2>1. ASSUME NEW r \in Q, NEW s \in Q, f[r] = f[s] PROVE r = s
    BY <2>1 DEF QuarantineUnique, InLookback
  <2>2. f \in Injection(Q, NewestBatch)
    BY <1>3, <2>1 DEF Injection, IsInjective
  <2> QED BY <1>1, <2>2, FS_Injection
<1>6. Cardinality(Refused) <= Cardinality(Q)
  <2> DEFINE g == [r \in Q |-> <<r.p, r.o>>]
             D == { r \in Q : <<r.p, r.o>> \in Refused }
             h == [r \in D |-> <<r.p, r.o>>]
  <2>1. ASSUME NEW x \in Refused PROVE \E q \in D : <<q.p, q.o>> = x
    <3>1. PICK p \in Partitions : \E o \in plan.from[p]..(plan.to[p] - 1) : x = <<p, o>>
      BY <1>1 DEF NewestBatch
    <3>2. plan.from[p] \in Nat /\ plan.to[p] \in Nat /\ low[p] \in Nat /\ low[p] <= plan.from[p]
      BY DEF ArrivalInv, VerdictInv, Inv, CheckpointInv, QueryTypeOK, TopicTypeOK, Plan, Offsets,
             OnlyNewestInLookback
    <3>3. PICK o \in Nat : x = <<p, o>> /\ low[p] <= o /\ InRange(plan, p, o)
      BY <3>1, <3>2 DEF InRange
    <3>4. Verdict(log[p][o + 1], plan.at) # Valid
      BY <3>3 DEF Refused
    <3>5. PICK q \in quarantine : q.p = p /\ q.o = o
      BY <3>3, <3>4 DEF ArrivalInv, RefusedQuarantined, OnlyNewestInLookback, Quarantined
    <3>6. q.at = plan.at
      BY <1>1, <3>3, <3>5, NewestStamp DEF ArrivalInv
    <3>7. q \in Q
      BY <3>5, <3>6 DEF InLookback, OnlyNewestInLookback
    <3> QED BY <3>3, <3>5, <3>7
  <2>2. h \in Surjection(D, Refused)
    BY <2>1 DEF Surjection
  <2>3. IsFiniteSet(D) /\ Cardinality(D) <= Cardinality(Q)
    BY <1>5, FS_Subset
  <2>4. Cardinality(Refused) <= Cardinality(D)
    BY <2>2, <2>3, FS_Surjection
  <2>5. Cardinality(Refused) \in Nat /\ Cardinality(D) \in Nat /\ Cardinality(Q) \in Nat
    BY <1>2, <1>5, <2>3, FS_CardinalityType
  <2> QED BY <2>3, <2>4, <2>5
<1>7. Cardinality(Good) = Cardinality(NewestBatch) - Cardinality(Refused)
  <2>1. NewestBatch \cap Refused = Refused
    BY <1>1
  <2> QED BY <1>1, <2>1, FS_Difference
<1>8. /\ Cardinality(NewestBatch) \in Nat /\ Cardinality(Refused) \in Nat
      /\ Cardinality(E) \in Nat /\ Cardinality(Q) \in Nat
  BY <1>1, <1>2, <1>4, <1>5, FS_CardinalityType
<1>9. 1000 * Cardinality(Q) <= QUARANTINE_WARN_RATE * (Cardinality(E) + Cardinality(Q))
  BY DEF quarantine_rate_is_low, quarantine_rate
<1> HIDE DEF E, Q, Good
<1> QED BY <1>4, <1>6, <1>7, <1>8, <1>9, ShareBound, ChecksAssumption

(* The quarantine's checks say what they mean, one driver running: the     *)
(* reasons in the table are those of the rules, and a green                *)
(* quarantine_rate_is_low over one micro-batch bounds the share of its     *)
(* records that the rules refused, through any crash and replay.           *)
THEOREM QuarantineChecksAlwaysHold ==
    ASSUME OneDriver
    PROVE  Spec => []QuarantineChecksHold
<1>1. ASSUME ArrivalInv, OneDriverInv PROVE QuarantineChecksHold
  <2>1. EditsUnique /\ QuarantineUnique
    BY <1>1 DEF OneDriverInv, UniqueInv
  <2>2. quarantine_reasons_are_known
    BY <1>1 DEF ArrivalInv, VerdictInv, Inv, MergeInv, SilverTypeOK, QuarantineRow,
       quarantine_reasons_are_known, unknown_quarantine_reasons
  <2> QED BY <1>1, <2>1, <2>2, GreenBoundsRefused DEF QuarantineChecksHold
<1> QED BY <1>1, ArrivalAlways, OneDriverAlways, PTL

-----------------------------------------------------------------------------
(* The duplicate gate.                                                     *)

(* The records of a planned range are finitely many. *)
LEMMA RangeFinite ==
    ASSUME NEW q \in Plan
    PROVE  IsFiniteSet(ReadRange(q))
<1> DEFINE Offs(p) == { i \in q.from[p]..(q.to[p] - 1) : low[p] <= i }
           Part(p) == { [p |-> p, o |-> o, frame |-> log[p][o + 1], at |-> q.at] : o \in Offs(p) }
           Parts == { Part(p) : p \in Partitions }
<1>1. ASSUME NEW p \in Partitions PROVE IsFiniteSet(Part(p))
  <2> DEFINE f == [o \in Offs(p) |-> [p |-> p, o |-> o, frame |-> log[p][o + 1], at |-> q.at]]
  <2>1. IsFiniteSet(q.from[p]..(q.to[p] - 1)) /\ Offs(p) \in SUBSET (q.from[p]..(q.to[p] - 1))
    <3>1. q.from[p] \in Int /\ q.to[p] - 1 \in Int
      BY DEF Plan, Offsets
    <3>2. Offs(p) \in SUBSET (q.from[p]..(q.to[p] - 1))
      OBVIOUS
    <3> QED BY <3>1, <3>2, FS_Interval
  <2>2. IsFiniteSet(Offs(p))
    <3> HIDE DEF Offs
    <3> QED BY <2>1, FS_Subset
  <2>3. f \in Surjection(Offs(p), Part(p))
    BY DEF Surjection
  <2> HIDE DEF f, Offs, Part
  <2> QED BY <2>2, <2>3, FS_Surjection
<1>2. IsFiniteSet(Parts)
  <2> DEFINE g == [p \in Partitions |-> Part(p)]
  <2>1. g \in Surjection(Partitions, Parts)
    BY DEF Surjection
  <2> HIDE DEF g, Parts
  <2> QED BY <2>1, TopicAssumption, FS_Surjection
<1>3. ReadRange(q) = UNION Parts
  BY DEF ReadRange
<1>4. \A T \in Parts : IsFiniteSet(T)
  BY <1>1
<1> HIDE DEF Parts
<1> QED BY <1>2, <1>3, <1>4, FS_UNION

(* Rows made from finitely many records are finitely many. *)
LEMMA RowsFinite ==
    ASSUME NEW S, IsFiniteSet(S), NEW snap
    PROVE  IsFiniteSet(EditRows(S, snap)) /\ IsFiniteSet(QuarantinedRows(S, snap))
<1> DEFINE e == [c \in S |-> [id |-> c.frame.id, p |-> c.p, o |-> c.o, at |-> c.at, snap |-> snap]]
           q == [c \in S |-> [p |-> c.p, o |-> c.o, reason |-> FailureReason(c), at |-> c.at,
                              snap |-> snap]]
<1>1. e \in Surjection(S, EditRows(S, snap))
  BY DEF Surjection, EditRows
<1>2. q \in Surjection(S, QuarantinedRows(S, snap))
  BY DEF Surjection, QuarantinedRows
<1> HIDE DEF e, q
<1> QED BY <1>1, <1>2, FS_Surjection

(* The tables, and what the writers hold, are finite. *)
FiniteInv == /\ IsFiniteSet(edits) /\ IsFiniteSet(quarantine)
             /\ \A w \in Writers : IsFiniteSet(merge[w].batch) /\ IsFiniteSet(merge[w].new)

(* merge_batch adds a finite batch to the tables. *)
LEMMA MergeKeepsFinite ==
    ASSUME MergeInv, FiniteInv, NEW w \in Writers, MergeStep(w)
    PROVE  FiniteInv'
<1>1. /\ IsFiniteSet(edits) /\ IsFiniteSet(quarantine)
      /\ IsFiniteSet(merge[w].batch) /\ IsFiniteSet(merge[w].new) /\ IsFiniteSet({})
      /\ \A v \in Writers : IsFiniteSet(merge[v].batch) /\ IsFiniteSet(merge[v].new)
  BY FS_EmptySet DEF FiniteInv
<1>2. merge \in [Writers -> MergeState] /\ merge[w] \in MergeState
  BY DEF MergeInv, SilverTypeOK
<1>3. ASSUME NEW s \in Steps, NEW N, IsFiniteSet(N),
             \/ merge' = [merge EXCEPT ![w].step = s, ![w].new = N]
      PROVE  \A v \in Writers : IsFiniteSet(merge'[v].batch) /\ IsFiniteSet(merge'[v].new)
  <2> SUFFICES ASSUME NEW v \in Writers
               PROVE  IsFiniteSet(merge'[v].batch) /\ IsFiniteSet(merge'[v].new)
    OBVIOUS
  <2>1. CASE v = w
    <3>1. merge'[w].batch = merge[w].batch /\ merge'[w].new = N
      BY <1>2, <1>3 DEF MergeState
    <3> QED BY <1>1, <1>3, <2>1, <3>1
  <2>2. CASE v # w
    <3>1. merge'[v] = merge[v]
      BY <1>2, <1>3, <2>2
    <3> QED BY <1>1, <3>1
  <2> QED BY <2>1, <2>2
<1>4. CASE ScanEdits(w) \/ ScanQuarantine(w)
  <2>1. PICK s \in Steps, N \in SUBSET merge[w].batch :
          merge' = [merge EXCEPT ![w].step = s, ![w].new = N]
    <3>1. CASE ScanEdits(w)
      <4>1. PICK S \in ValidRows(merge[w].batch) :
              merge' = [merge EXCEPT ![w].step = "append_edits",
                                     ![w].new = { c \in S : \A r \in edits : r.id # EditsKey(c) }]
        BY <3>1 DEF ScanEdits
      <4>2. S \in SUBSET merge[w].batch /\ "append_edits" \in Steps
        BY DEF ValidRows, ValidCandidates, Steps
      <4>3. { c \in S : \A r \in edits : r.id # EditsKey(c) } \in SUBSET merge[w].batch
        BY <4>2
      <4> QED BY <4>1, <4>2, <4>3
    <3>2. CASE ScanQuarantine(w)
      <4>1. PICK S \in QuarantineRows(merge[w].batch) :
              merge' = [merge EXCEPT ![w].step = "append_quarantine",
                                     ![w].new = { c \in S : \A r \in quarantine :
                                                     <<r.p, r.o>> # QuarantineKey(c) }]
        BY <3>2 DEF ScanQuarantine
      <4>2. S \in SUBSET merge[w].batch /\ "append_quarantine" \in Steps
        BY DEF QuarantineRows, FailedCandidates, Steps
      <4>3. { c \in S : \A r \in quarantine : <<r.p, r.o>> # QuarantineKey(c) }
                \in SUBSET merge[w].batch
        BY <4>2
      <4> QED BY <4>1, <4>2, <4>3
    <3> QED BY <1>4, <3>1, <3>2
  <2>2. IsFiniteSet(N)
    BY <1>1, FS_Subset
  <2>3. UNCHANGED <<edits, quarantine>>
    BY <1>4 DEF ScanEdits, ScanQuarantine
  <2> QED BY <1>1, <1>3, <2>1, <2>2, <2>3 DEF FiniteInv
<1>5. CASE AppendEdits(w)
  <2>1. /\ edits' = edits \cup EditRows(merge[w].new, snaps["edits"] + 1)
        /\ quarantine' = quarantine /\ "scan_quarantine" \in Steps
        /\ merge' = [merge EXCEPT ![w].step = "scan_quarantine", ![w].new = {}]
    BY <1>5 DEF AppendEdits, Steps
  <2>2. IsFiniteSet(edits')
    BY <1>1, <2>1, RowsFinite, FS_Union
  <2> QED BY <1>1, <1>3, <2>1, <2>2 DEF FiniteInv
<1>6. CASE AppendQuarantine(w)
  <2>1. /\ quarantine' = quarantine \cup QuarantinedRows(merge[w].new, snaps["quarantine"] + 1)
        /\ edits' = edits /\ "return" \in Steps
        /\ merge' = [merge EXCEPT ![w].step = "return", ![w].new = {}]
    BY <1>6 DEF AppendQuarantine, Steps
  <2>2. IsFiniteSet(quarantine')
    BY <1>1, <2>1, RowsFinite, FS_Union
  <2> QED BY <1>1, <1>3, <2>1, <2>2 DEF FiniteInv
<1> QED BY <1>4, <1>5, <1>6 DEF MergeStep

(* Every step of the stream keeps the tables finite. *)
LEMMA FiniteStep == Inv /\ FiniteInv /\ [Next]_vars => FiniteInv'
<1> SUFFICES ASSUME Inv, FiniteInv, [Next]_vars PROVE FiniteInv'
  OBVIOUS
<1>1. merge \in [Writers -> MergeState] /\ current \in [Drivers -> Plan]
  BY DEF Inv, MergeInv, SilverTypeOK, CheckpointInv, QueryTypeOK
<1>2. IsFiniteSet({}) /\ Drivers \subseteq Writers
  BY FS_EmptySet, SilverAssumption
<1>3. ASSUME UNCHANGED <<edits, quarantine>>, NEW w \in Writers, NEW m, IsFiniteSet(m.batch),
             IsFiniteSet(m.new), merge' = [merge EXCEPT ![w] = m]
      PROVE  FiniteInv'
  <2>1. ASSUME NEW v \in Writers
        PROVE  IsFiniteSet(merge'[v].batch) /\ IsFiniteSet(merge'[v].new)
    <3>1. merge'[v] = IF v = w THEN m ELSE merge[v]
      BY <1>1, <1>3
    <3> QED BY <1>3, <3>1 DEF FiniteInv
  <2> QED BY <1>3, <2>1 DEF FiniteInv
<1>4. ASSUME UNCHANGED silverVars PROVE FiniteInv'
  BY <1>4 DEF FiniteInv, silverVars
<1>5. ASSUME NEW d \in Drivers, RunBatch(d) PROVE FiniteInv'
  <2> DEFINE m == [step |-> "scan_edits", batch |-> ReadRange(current[d]), new |-> {}]
  <2>1. IsFiniteSet(ReadRange(current[d]))
    BY <1>1, RangeFinite
  <2>2. IsFiniteSet(m.batch) /\ IsFiniteSet(m.new)
    BY <1>2, <2>1
  <2>3. UNCHANGED <<edits, quarantine>> /\ merge' = [merge EXCEPT ![d] = m]
    BY <1>5 DEF RunBatch, BeginMerge
  <2> HIDE DEF m
  <2> QED BY <1>2, <1>3, <2>2, <2>3
<1>6. ASSUME NEW d \in Drivers, Merge(d) PROVE FiniteInv'
  BY <1>2, <1>6, MergeKeepsFinite DEF Inv, Merge
<1>7. ASSUME NEW d \in Drivers, Commit(d) \/ Crash(d) PROVE FiniteInv'
  <2>1. UNCHANGED <<edits, quarantine>> /\ merge' = [merge EXCEPT ![d] = NotMerging]
    BY <1>7 DEF Commit, Crash, EndMerge, AbandonMerge
  <2>2. IsFiniteSet(NotMerging.batch) /\ IsFiniteSet(NotMerging.new)
    BY <1>2 DEF NotMerging
  <2> QED BY <1>2, <1>3, <2>1, <2>2
<1>8. ASSUME NEW d \in Drivers, Start(d) \/ Trigger(d) PROVE FiniteInv'
  BY <1>4, <1>8 DEF Start, Trigger
<1>9. CASE LoseCheckpoint \/ (TopicNext /\ UNCHANGED <<silverVars, queryVars>>) \/ UNCHANGED vars
  BY <1>4, <1>9 DEF LoseCheckpoint, vars
<1> QED BY <1>5, <1>6, <1>7, <1>8, <1>9 DEF Next, SilverNext, DriverStep

(* Empty tables are finite. *)
LEMMA FiniteInit == Init => FiniteInv
BY FS_EmptySet DEF Init, SilverInit, FiniteInv, NotMerging

(* GROUP BY key HAVING count( * ) > 1 finds a key exactly if two rows of   *)
(* the table share one.                                                    *)
LEMMA DuplicatesAreFound ==
    ASSUME NEW T, IsFiniteSet(T), NEW key, DOMAIN key = T
    PROVE  duplicate_keys(T, key) # 0 <=> \E r, s \in T : r # s /\ key[r] = key[s]
<1> DEFINE rows(k) == { r \in T : key[r] = k }
           K == { k \in Range(key) : Cardinality(rows(k)) > 1 }
<1>1. ASSUME NEW k
      PROVE  Cardinality(rows(k)) > 1 <=> \E r, s \in T : r # s /\ key[r] = k /\ key[s] = k
  <2>1. rows(k) \in SUBSET T /\ \A r : r \in rows(k) <=> r \in T /\ key[r] = k
    OBVIOUS
  <2> DEFINE S == rows(k)
  <2> HIDE DEF rows, S
  <2>2. IsFiniteSet(S) /\ Cardinality(S) \in Nat
    BY <2>1, FS_Subset, FS_CardinalityType DEF S
  <2>3. Cardinality(S) = 0 <=> S = {}
    BY <2>2, FS_EmptySet
  <2>4. Cardinality(S) = 1 <=> \E x : S = {x}
    BY <2>2, FS_Singleton
  <2>5. Cardinality(S) > 1 <=> ~(S = {}) /\ ~(\E x : S = {x})
    BY <2>2, <2>3, <2>4
  <2>6. ~(S = {}) /\ ~(\E x : S = {x}) <=> \E r, s \in S : r # s
    OBVIOUS
  <2> QED BY <2>1, <2>5, <2>6 DEF S
<1>2. IsFiniteSet(Range(key))
  <2> DEFINE f == [r \in T |-> key[r]]
  <2>1. f \in Surjection(T, Range(key))
    BY DEF Surjection, Range
  <2> HIDE DEF f
  <2> QED BY <2>1, FS_Surjection
<1>3. duplicate_keys(T, key) = Cardinality(K)
  BY DEF duplicate_keys
<1>4. K # {} <=> \E r, s \in T : r # s /\ key[r] = key[s]
  <2>1. ASSUME NEW k \in K PROVE \E r, s \in T : r # s /\ key[r] = key[s]
    <3>1. Cardinality(rows(k)) > 1
      OBVIOUS
    <3> HIDE DEF rows
    <3>2. PICK r \in T, s \in T : r # s /\ key[r] = k /\ key[s] = k
      BY <1>1, <3>1
    <3> QED BY <3>2
  <2>2. ASSUME NEW r \in T, NEW s \in T, r # s, key[r] = key[s] PROVE K # {}
    <3>1. key[r] \in Range(key)
      BY DEF Range
    <3>2. Cardinality(rows(key[r])) > 1
      BY <1>1, <2>2
    <3> HIDE DEF rows
    <3> QED BY <3>1, <3>2
  <2> QED BY <2>1, <2>2
<1>5. K \in SUBSET Range(key)
  OBVIOUS
<1> HIDE DEF K
<1>6. Cardinality(K) = 0 <=> K = {}
  BY <1>2, <1>5, FS_Subset, FS_EmptySet
<1> QED BY <1>3, <1>4, <1>6

(* The queries of the gate say what they are for, and the null checks      *)
(* never fail: merge_batch lets no such row in.                            *)
LEMMA GateQueries ==
    ASSUME ArrivalInv, FiniteInv
    PROVE  /\ EditDuplicates # 0 <=> ~EditsUnique
           /\ QuarantineDuplicates # 0 <=> ~QuarantineUnique
           /\ NullIds = {} /\ NullTimes = {}
<1>1. EditDuplicates # 0 <=> ~EditsUnique
  <2> DEFINE key == [r \in edits |-> r.id]
  <2>1. EditDuplicates # 0 <=> \E r, s \in edits : r # s /\ key[r] = key[s]
    <3>1. DOMAIN key = edits
      OBVIOUS
    <3>2. EditDuplicates = duplicate_keys(edits, key)
      BY DEF EditDuplicates
    <3> HIDE DEF key
    <3> QED BY <3>1, <3>2, DuplicatesAreFound DEF FiniteInv
  <2> QED BY <2>1 DEF EditsUnique
<1>2. QuarantineDuplicates # 0 <=> ~QuarantineUnique
  <2> DEFINE key == [r \in quarantine |-> <<r.p, r.o>>]
  <2>1. QuarantineDuplicates # 0 <=> \E r, s \in quarantine : r # s /\ key[r] = key[s]
    <3>1. DOMAIN key = quarantine
      OBVIOUS
    <3>2. QuarantineDuplicates = duplicate_keys(quarantine, key)
      BY DEF QuarantineDuplicates
    <3> HIDE DEF key
    <3> QED BY <3>1, <3>2, DuplicatesAreFound DEF FiniteInv
  <2> QED BY <2>1 DEF QuarantineUnique
<1>3. ASSUME NEW r \in edits PROVE r.id # Absent /\ Readable(log[r.p][r.o + 1])
  <2>1. r.p \in Partitions /\ r.o \in Nat /\ r.o < Len(log[r.p]) /\ r.at \in Nat
    BY ArrivalTypes DEF ArrivalInv, VerdictInv, Inv, MergeInv, SilverTypeOK, EditRow
  <2>2. log[r.p][r.o + 1] \in Frame
    BY <2>1 DEF ArrivalInv, VerdictInv, Inv, CheckpointInv, TopicTypeOK
  <2>3. Verdict(log[r.p][r.o + 1], r.at) = Valid /\ r.id = log[r.p][r.o + 1].id
    BY DEF ArrivalInv, RowsOwn, VerdictInv, RowsJudged
  <2> QED BY <2>1, <2>2, <2>3, ValidHasId, ValidInTime
<1>4. NullIds = {} /\ NullTimes = {}
  BY <1>3 DEF NullIds, NullTimes
<1> QED BY <1>1, <1>2, <1>4

(* Both tables are append-only. *)
LEMMA TablesGrow == [Next]_vars => edits \subseteq edits' /\ quarantine \subseteq quarantine'
<1> SUFFICES ASSUME [Next]_vars PROVE edits \subseteq edits' /\ quarantine \subseteq quarantine'
  OBVIOUS
<1>1. ASSUME NEW d \in Drivers, DriverStep(d) \/ Crash(d)
      PROVE  edits \subseteq edits' /\ quarantine \subseteq quarantine'
  <2>1. CASE Merge(d)
    BY <2>1 DEF Merge, MergeStep, ScanEdits, AppendEdits, ScanQuarantine, AppendQuarantine
  <2>2. CASE ~Merge(d)
    BY <1>1, <2>2 DEF DriverStep, Start, Trigger, RunBatch, Commit, Crash, BeginMerge, EndMerge,
       AbandonMerge, silverVars
  <2> QED BY <2>1, <2>2
<1>2. CASE LoseCheckpoint \/ (TopicNext /\ UNCHANGED <<silverVars, queryVars>>) \/ UNCHANGED vars
  BY <1>2 DEF LoseCheckpoint, vars, silverVars
<1> QED BY <1>1, <1>2 DEF Next, SilverNext

GateTypeOK == gate \in [step: GateSteps, empty: BOOLEAN, failed: SUBSET {"duplicate event_id"},
                        dirty: BOOLEAN, exit: 0..1]

(* What the running gate has found out stays true while the stream writes: *)
(* a duplicate that was there at its start is found or is still to be      *)
(* found, and what failed so far is a duplicate.                           *)
GateInv ==
    /\ GateTypeOK
    /\ gate.step # "idle" /\ ~gate.empty => edits # {}
    /\ gate.step = "edits" /\ gate.dirty => ~EditsUnique \/ ~QuarantineUnique
    /\ gate.step = "quarantine" =>
         /\ gate.dirty => gate.failed # {} \/ ~QuarantineUnique
         /\ gate.failed # {} => ~EditsUnique

(* A commit between two queries takes no finding back. *)
LEMMA StreamKeepsGate ==
    ASSUME GateInv, [Next]_vars, UNCHANGED gate
    PROVE  GateInv'
<1>1. edits \subseteq edits' /\ quarantine \subseteq quarantine'
  BY TablesGrow
<1>2. /\ ~EditsUnique => ~EditsUnique'
      /\ ~QuarantineUnique => ~QuarantineUnique'
      /\ edits # {} => edits' # {}
  BY <1>1 DEF EditsUnique, QuarantineUnique
<1> QED BY <1>2 DEF GateInv, GateTypeOK

(* Each query of the gate adds what it finds to what was found. *)
LEMMA GateStepKeepsGate ==
    ASSUME ArrivalInv, FiniteInv, GateInv, GateStep, UNCHANGED vars
    PROVE  GateInv'
<1>1. /\ EditDuplicates # 0 <=> ~EditsUnique
      /\ QuarantineDuplicates # 0 <=> ~QuarantineUnique
      /\ NullIds = {} /\ NullTimes = {}
  BY GateQueries
<1>2. UNCHANGED <<edits, quarantine>>
  BY DEF vars, silverVars
<1>3. EditsUnique' = EditsUnique /\ QuarantineUnique' = QuarantineUnique
  BY <1>2 DEF EditsUnique, QuarantineUnique
<1>4. CASE CountEdits
  <2> DEFINE dirty == ~EditsUnique \/ ~QuarantineUnique
             empty == edits = {}
  <2>1. gate' = [step |-> "edits", empty |-> empty, failed |-> {}, dirty |-> dirty, exit |-> 0]
    BY <1>4 DEF CountEdits, NoGate
  <2>2. dirty \in BOOLEAN /\ empty \in BOOLEAN
    BY DEF EditsUnique, QuarantineUnique
  <2> HIDE DEF dirty, empty
  <2>3. GateTypeOK' /\ gate'.step = "edits" /\ gate'.empty = empty /\ gate'.dirty = dirty
    BY <2>1, <2>2 DEF GateTypeOK, GateSteps
  <2> QED BY <1>2, <1>3, <2>3 DEF GateInv, dirty, empty
<1>5. CASE CheckEdits
  <2> DEFINE failed == Failing("duplicate event_id", EditDuplicates # 0)
                          \cup Failing("null event_id", NullIds # {})
                          \cup Failing("null event_time", NullTimes # {})
  <2>1. gate.step = "edits" /\ gate' = [gate EXCEPT !.step = "quarantine", !.failed = failed]
    BY <1>5 DEF CheckEdits
  <2>2. failed = Failing("duplicate event_id", ~EditsUnique)
    BY <1>1 DEF Failing
  <2>3. failed \in SUBSET {"duplicate event_id"}
    BY <2>2 DEF Failing
  <2>4. failed # {} <=> ~EditsUnique
    BY <2>2 DEF Failing
  <2> HIDE DEF failed
  <2>5. /\ GateTypeOK' /\ gate'.step = "quarantine" /\ gate'.failed = failed
        /\ gate'.empty = gate.empty /\ gate'.dirty = gate.dirty
    BY <2>1, <2>3 DEF GateInv, GateTypeOK, GateSteps
  <2> QED BY <1>2, <1>3, <2>1, <2>4, <2>5 DEF GateInv
<1>6. CASE CheckQuarantine
  <2> DEFINE failed == gate.failed
                \cup Failing("duplicate kafka offset", QuarantineDuplicates # 0)
                \cup Failing("empty", ~allow_empty /\ gate.empty)
             exit == IF failed = {} THEN 0 ELSE 1
  <2>1. gate' = [NoGate EXCEPT !.exit = exit]
    BY <1>6 DEF CheckQuarantine
  <2>2. exit \in 0..1
    OBVIOUS
  <2> HIDE DEF exit
  <2>3. gate' = [step |-> "idle", empty |-> FALSE, failed |-> {}, dirty |-> FALSE, exit |-> exit]
    BY <2>1 DEF NoGate
  <2>4. GateTypeOK' /\ gate'.step = "idle"
    BY <2>2, <2>3 DEF GateTypeOK, GateSteps
  <2> QED BY <2>4 DEF GateInv
<1> QED BY <1>4, <1>5, <1>6 DEF GateStep

(* The gate next to the stream leaves the stream what it is. *)
LEMMA GateRunsTheStream == GateSpec => Spec
<1>1. GateInit => Init
  BY DEF GateInit
<1>2. [GateNext]_<<vars, gate>> => [Next]_vars
  BY DEF GateNext
<1> QED BY <1>1, <1>2, PTL DEF GateSpec, Spec

(* The invariants the gate's queries rest on, and its own. *)
LEMMA GateAlways == GateSpec => [](ArrivalInv /\ FiniteInv /\ GateInv)
<1>1. GateSpec => []ArrivalInv
  BY GateRunsTheStream, ArrivalAlways, PTL
<1>2. Spec => []FiniteInv
  BY FiniteInit, FiniteStep, InvAlways, PTL DEF Spec
<1>3. GateSpec => []FiniteInv
  BY <1>2, GateRunsTheStream, PTL
<1>4. GateInit => GateInv
  <2> SUFFICES ASSUME GateInit PROVE GateInv
    OBVIOUS
  <2>1. gate = [step |-> "idle", empty |-> FALSE, failed |-> {}, dirty |-> FALSE, exit |-> 0]
    BY DEF GateInit, NoGate
  <2>2. GateTypeOK /\ gate.step = "idle"
    BY <2>1 DEF GateTypeOK, GateSteps
  <2> QED BY <2>2 DEF GateInv
<1>5. ArrivalInv /\ FiniteInv /\ GateInv /\ [GateNext]_<<vars, gate>> => GateInv'
  <2> SUFFICES ASSUME ArrivalInv, FiniteInv, GateInv, [GateNext]_<<vars, gate>> PROVE GateInv'
    OBVIOUS
  <2>1. CASE [Next]_vars /\ UNCHANGED gate
    BY <2>1, StreamKeepsGate
  <2>2. CASE GateStep /\ UNCHANGED vars
    BY <2>2, GateStepKeepsGate
  <2> QED BY <2>1, <2>2 DEF GateNext
<1> QED BY <1>1, <1>3, <1>4, <1>5, PTL DEF GateSpec

(* The exit code of the duplicate gate means what a scheduler takes it to  *)
(* mean, any number of drivers committing between its queries: zero        *)
(* vouches for every row that was there when the gate started, non-zero    *)
(* points at a duplicate that is still there or at a table found empty.    *)
THEOREM GateIsAlwaysExact == GateSpec => GateIsExact
<1>1. ArrivalInv /\ FiniteInv /\ GateInv /\ [GateNext]_<<vars, gate>> =>
        [gate.step = "quarantine" /\ gate'.step = "idle" =>
           IF gate'.exit = 0
           THEN ~gate.dirty /\ (edits # {} \/ allow_empty)
           ELSE ~EditsUnique \/ ~QuarantineUnique \/ (gate.empty /\ ~allow_empty)]_gate
  <2> SUFFICES ASSUME ArrivalInv, FiniteInv, GateInv, GateStep,
                      gate.step = "quarantine", gate'.step = "idle"
               PROVE  IF gate'.exit = 0
                      THEN ~gate.dirty /\ (edits # {} \/ allow_empty)
                      ELSE ~EditsUnique \/ ~QuarantineUnique \/ (gate.empty /\ ~allow_empty)
    BY DEF GateNext
  <2>1. CheckQuarantine
    BY DEF GateStep, CountEdits, CheckEdits
  <2> DEFINE failed == gate.failed
                \cup Failing("duplicate kafka offset", QuarantineDuplicates # 0)
                \cup Failing("empty", ~allow_empty /\ gate.empty)
  <2>2. gate'.exit = IF failed = {} THEN 0 ELSE 1
    BY <2>1 DEF CheckQuarantine, NoGate
  <2>3. QuarantineDuplicates # 0 <=> ~QuarantineUnique
    BY GateQueries
  <2>4. failed = {} <=> /\ gate.failed = {} /\ QuarantineUnique
                        /\ ~(~allow_empty /\ gate.empty)
    BY <2>3 DEF Failing
  <2> HIDE DEF failed
  <2> QED BY <2>2, <2>4 DEF GateInv
<1> QED BY <1>1, GateAlways, PTL DEF GateSpec, GateIsExact

=============================================================================
