---------------------------- MODULE SilverChecks ----------------------------
(***************************************************************************)
(* What Dagster reads off the silver tables while the stream runs: the     *)
(* asset checks silver_edits_are_fresh, quarantine_rate_is_low and         *)
(* quarantine_reasons_are_known (wikistream_dagster checks.py, sql.py).    *)
(* Each is one query, so each is a state predicate here.                   *)
(***************************************************************************)
EXTENDS SilverStream

CONSTANTS
    FRESHNESS_WARN_SECONDS,     \* in clock units
    QUARANTINE_LOOKBACK_HOURS,  \* in clock units
    QUARANTINE_WARN_RATE        \* in rows of a thousand

ASSUME ChecksAssumption == /\ FRESHNESS_WARN_SECONDS \in Nat
                           /\ QUARANTINE_LOOKBACK_HOURS \in Nat
                           /\ QUARANTINE_WARN_RATE \in 0..999

(* The event time of an edit is that of the frame it was made from. *)
event_time(r) == log[r.p][r.o + 1].dt

(* now() - max(event_time) *)
lag_seconds == clock - Max({ event_time(r) : r \in edits })

(* NULL, and red, when the table is empty. *)
silver_edits_are_fresh == edits # {} /\ lag_seconds <= FRESHNESS_WARN_SECONDS

(* The rows of a table that were ingested, or failed, in the lookback.     *)
InLookback(T) == { r \in T : clock - r.at <= QUARANTINE_LOOKBACK_HOURS }

(* Each table's count; a share of nothing is low. *)
quarantine_rate == [edits |-> Cardinality(InLookback(edits)),
                    quarantined |-> Cardinality(InLookback(quarantine))]

quarantine_rate_is_low ==
    1000 * quarantine_rate.quarantined
        <= QUARANTINE_WARN_RATE * (quarantine_rate.edits + quarantine_rate.quarantined)

unknown_quarantine_reasons == { q.reason : q \in quarantine } \ Reasons
quarantine_reasons_are_known == unknown_quarantine_reasons = {}

-----------------------------------------------------------------------------
(* Green means that the stream writes (checks.py: it catches that the      *)
(* stream stopped or fell behind): some row was ingested within the        *)
(* threshold and the tolerance.  The check looks at the event's own        *)
(* timestamp, which the source chose: only the rule event_time_in_future   *)
(* keeps one row with a clock far ahead from holding the check green after *)
(* the stream has died.  Stated of the ingest times, which the check does  *)
(* not read.                                                               *)
FreshMeansRunning ==
    silver_edits_are_fresh =>
        \E r \in edits : clock - r.at <= FRESHNESS_WARN_SECONDS + Tolerance

(* The records of the newest micro-batch, and those its rules refused.     *)
NewestBatch == UNION { { <<p, o>> : o \in plan.from[p]..(plan.to[p] - 1) } : p \in Partitions }
Refused == { r \in NewestBatch : Verdict(log[r[1]][r[2] + 1], plan.at) # Valid }

(* All there is in the lookback is that batch, and it is merged. *)
OnlyNewestInLookback ==
    /\ committed = plan.n /\ plan.n > 0
    /\ clock - plan.at <= QUARANTINE_LOOKBACK_HOURS
    /\ \A r \in InLookback(edits) \cup InLookback(quarantine) : <<r.p, r.o>> \in NewestBatch
    /\ \A p \in Partitions : low[p] <= plan.from[p]

(* A green quarantine_rate_is_low is no accident of crashes and replays:   *)
(* when one micro-batch is all there is in the lookback, green means that  *)
(* the rules refused no more than the budget of its records.  Duplicate    *)
(* edits and records merged twice make the rate larger, never smaller.     *)
(* And the reasons it counts are those of the rules (checks.py), none of   *)
(* them a row quarantined without one.                                     *)
QuarantineChecksHold ==
    /\ quarantine_reasons_are_known
    /\ losses = 0 /\ OnlyNewestInLookback /\ quarantine_rate_is_low =>
           1000 * Cardinality(Refused) <= QUARANTINE_WARN_RATE * Cardinality(NewestBatch)

=============================================================================
