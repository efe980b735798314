-------------------------- MODULE MC_EventSource --------------------------
(* Instances of EventSource.  A tick is twenty seconds, durations rounded  *)
(* up: connecting 10 s, reading 60 s, delays from 1 s to 60 s, a report    *)
(* every 10 s, the health check after 180 s, the flush 30 s.               *)
EXTENDS EventSource

BothSources == {"wikimedia", "jetstream"}
OnlyWikimedia == {"wikimedia"}
=============================================================================
