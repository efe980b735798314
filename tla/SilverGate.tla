----------------------------- MODULE SilverGate -----------------------------
(***************************************************************************)
(* The duplicate gate, scripts/verify_no_duplicates.py, next to the silver *)
(* stream.  Its checks are queries of their own, so the stream commits     *)
(* between them: one step each here, but for the two null checks, which    *)
(* read rows that never change and go with the query before them.  An edit *)
(* row's event_time is the one of the frame it was made from.              *)
(***************************************************************************)
EXTENDS SilverStream

CONSTANT allow_empty   \* the command line flag

VARIABLE gate   \* the gate's process

(* empty is what the row count said, failed the checks that failed so far, *)
(* exit the code of the last run.  dirty is history: whether the tables    *)
(* held a duplicate when the gate started.                                 *)
GateSteps == {"idle", "edits", "quarantine"}
NoGate == [step |-> "idle", empty |-> FALSE, failed |-> {}, dirty |-> FALSE, exit |-> 0]

-----------------------------------------------------------------------------
(* Mutant of duplicate_keys: two rows count only within one snapshot. *)
DuplicatesOfASnapshot(T, key) ==
    Cardinality({ k \in Range(key) :
        \E r, s \in T : r # s /\ key[r] = k /\ key[s] = k /\ r.snap = s.snap })

(* GROUP BY key HAVING count( * ) > 1, counted. *)
duplicate_keys(T, key) ==
    Cardinality({ k \in Range(key) : Cardinality({ r \in T : key[r] = k }) > 1 })

EditDuplicates == duplicate_keys(edits, [r \in edits |-> r.id])
QuarantineDuplicates == duplicate_keys(quarantine, [r \in quarantine |-> <<r.p, r.o>>])

NullIds == { r \in edits : r.id = Absent }
NullTimes == { r \in edits : ~Readable(log[r.p][r.o + 1]) }

(* The names of the checks in S, when the condition of each holds. *)
Failing(name, condition) == IF condition THEN {name} ELSE {}

-----------------------------------------------------------------------------
(* main starts, and checks takes the row count. *)
CountEdits ==
    /\ gate.step = "idle"
    /\ gate' = [NoGate EXCEPT !.step = "edits",
                              !.empty = edits = {},
                              !.dirty = ~EditsUnique \/ ~QuarantineUnique]

CheckEdits ==
    /\ gate.step = "edits"
    /\ gate' = [gate EXCEPT !.step = "quarantine",
                            !.failed = Failing("duplicate event_id", EditDuplicates # 0)
                                  \cup Failing("null event_id", NullIds # {})
                                  \cup Failing("null event_time", NullTimes # {})]

(* The last query; main exits with 1 if a check failed. *)
CheckQuarantine ==
    /\ gate.step = "quarantine"
    /\ LET failed == gate.failed
                \cup Failing("duplicate kafka offset", QuarantineDuplicates # 0)
                \cup Failing("empty", ~allow_empty /\ gate.empty)
       IN  gate' = [NoGate EXCEPT !.exit = IF failed = {} THEN 0 ELSE 1]

GateStep == CountEdits \/ CheckEdits \/ CheckQuarantine

GateInit == Init /\ gate = NoGate

GateNext == \/ Next /\ UNCHANGED gate
            \/ GateStep /\ UNCHANGED vars

GateSpec == /\ GateInit
            /\ [][GateNext]_<<vars, gate>>
            /\ \A d \in Drivers : WF_vars(DriverStep(d))

-----------------------------------------------------------------------------
(* What an exit code of the gate is worth while streams write: zero        *)
(* vouches for every row committed before the gate started, in a table     *)
(* that is not empty; non-zero points at a duplicate that is still there,  *)
(* or at a table that was empty when the gate started, and may not be any  *)
(* more.                                                                   *)
GateIsExact ==
    [][gate.step = "quarantine" /\ gate'.step = "idle" =>
        IF gate'.exit = 0
        THEN ~gate.dirty /\ (edits # {} \/ allow_empty)
        ELSE ~EditsUnique \/ ~QuarantineUnique \/ (gate.empty /\ ~allow_empty)]_gate

=============================================================================
