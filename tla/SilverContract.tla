--------------------------- MODULE SilverContract ---------------------------
(***************************************************************************)
(* What the silver tables promise their readers (docs/correctness.md,      *)
(* sections 1 and 5; docs/data-contracts.md): each is append-only, every   *)
(* commit shows up whole, and a commit only ever brings keys the table     *)
(* does not have - event_id for silver.edits, the Kafka coordinates for    *)
(* silver.quarantine.  Nothing is said about where rows come from.         *)
(***************************************************************************)
VARIABLES edits, quarantine

Init == edits = {} /\ quarantine = {}

SameEvent(r, s) == r.id = s.id
SameRecord(r, s) == r.p = s.p /\ r.o = s.o

(* old grows to new by rows whose key, as Same compares it, is unique in   *)
(* the whole of new.                                                       *)
GrowsByNewKeys(old, new, Same(_, _)) ==
    /\ old \subseteq new
    /\ \A r \in new \ old, s \in new : Same(r, s) => r = s

AcceptEvents == /\ GrowsByNewKeys(edits, edits', SameEvent)
                /\ UNCHANGED quarantine

RejectRecords == /\ GrowsByNewKeys(quarantine, quarantine', SameRecord)
                 /\ UNCHANGED edits

Next == AcceptEvents \/ RejectRecords

Spec == Init /\ [][Next]_<<edits, quarantine>>

=============================================================================
