------------------------------- MODULE Frames -------------------------------
(***************************************************************************)
(* One recentchange frame as the validation rules see it, and the verdict  *)
(* they reach (events.py, quality/expectations.py).  A frame keeps only    *)
(* the fields some rule, key or partitioner reads: whether Spark can parse *)
(* the payload, meta.id, meta.dt and meta.domain.  Every other column is   *)
(* a function of the payload and is left out.                              *)
(***************************************************************************)
EXTENDS Integers, Sequences

CONSTANTS
    Ids,        \* event ids (meta.id)
    Domains,    \* wiki domains (meta.domain)
    Absent,     \* a field that is missing, null or blank
    Garbage,    \* a meta.dt that was sent and is not a timestamp
    Floor,      \* EVENT_TIME_FLOOR, in clock units
    Tolerance,  \* FUTURE_TOLERANCE, in clock units
    Frame       \* the frames the source may send

FrameShape == [parsed: BOOLEAN,
               id: Ids \cup {Absent},
               dt: Int \cup {Absent, Garbage},
               domain: Domains \cup {Absent}]

(* Frames are well shaped, and the two bounds are numbers. *)
ASSUME FrameAssumption == /\ Frame \subseteq FrameShape
                          /\ Floor \in Int
                          /\ Tolerance \in Nat

-----------------------------------------------------------------------------
(* The rules in evaluation order, the parse verdict first. *)
FAILURE_REASONS == << "payload_not_json",
                      "event_id_missing",
                      "event_time_missing",
                      "event_time_unparseable",
                      "domain_missing",
                      "event_time_before_wikipedia",
                      "event_time_in_future" >>

Reasons == { FAILURE_REASONS[i] : i \in 1..7 }

(* try_to_timestamp gives a time for it. *)
Readable(f) == f.dt \notin {Absent, Garbage}

(* Frame f, seen at time reference, passes rule number i.  A comparison    *)
(* with an event time that does not exist is NULL in SQL, never a failure: *)
(* an earlier rule has already spoken for such a row.                      *)
Passes(i, f, reference) ==
    CASE i = 1 -> f.parsed
      [] i = 2 -> f.id # Absent
      [] i = 3 -> f.dt # Absent
      [] i = 4 -> Readable(f)
      [] i = 5 -> f.domain # Absent
      [] i = 6 -> Readable(f) => f.dt >= Floor
      [] i = 7 -> Readable(f) => f.dt <= reference + Tolerance

(* Mutant of FailsFirst: event_time_in_future is not evaluated. *)
FailsButFuture(i, f, reference) ==
    /\ i # 7 /\ ~Passes(i, f, reference)
    /\ \A j \in 1..(i-1) : Passes(j, f, reference)

FailsFirst(i, f, reference) ==
    /\ ~Passes(i, f, reference)
    /\ \A j \in 1..(i-1) : Passes(j, f, reference)

Valid == "valid"

(* The first rule f fails, or Valid: failure_reason of to_candidates. *)
Verdict(f, reference) ==
    IF \E i \in 1..7 : FailsFirst(i, f, reference)
    THEN FAILURE_REASONS[CHOOSE i \in 1..7 : FailsFirst(i, f, reference)]
    ELSE Valid

=============================================================================
