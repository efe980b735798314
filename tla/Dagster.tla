------------------------------ MODULE Dagster -------------------------------
(***************************************************************************)
(* Dagster around the marts: the run queue with one slot, the three jobs,  *)
(* run monitoring and the failure sensor (wikistream_dagster/, and         *)
(* docker/dagster/dagster.yaml).                                           *)
(*                                                                         *)
(* Runs are numbered by the order in which they were queued.  A run is a   *)
(* process of its own; killed by the OOM killer it writes no event and     *)
(* stays STARTED until the daemon's monitoring finds the process gone.     *)
(***************************************************************************)
EXTENDS Marts

CONSTANTS
    MaxRuns,    \* bound: runs
    MaxKills,   \* bound: run processes killed
    MaxFaults   \* bound: statements Trino fails

ASSUME DagsterAssumption == MaxRuns \in Nat /\ MaxKills \in Nat /\ MaxFaults \in Nat

VARIABLES
    runs,    \* the run storage, in queue order
    alive,   \* the process of the started run lives
    kills,   \* processes killed so far
    faults,  \* statements failed so far
    upkeep   \* gold_table_maintenance: its loop

runVars == <<runs, alive, kills, faults>>
vars == <<martsVars, runVars, upkeep>>

Jobs == {"observe_lakehouse", "build_marts", "maintain_gold"}
Statuses == {"queued", "started", "success", "failure"}

(* materialized_gold_models(), sorted *)
GoldTables == <<"dim_wikis", "mart_edits_per_minute", "mart_top_pages_hourly">>
Tables == { GoldTables[i] : i \in 1..Len(GoldTables) }

(* next is the index of the table the loop is at, or one past the last;    *)
(* step what it does to it; failures and compacted what came of the others.*)
NoUpkeep == [next |-> 0, step |-> "optimize", failures |-> {}, compacted |-> {}]

DagsterTypeOK ==
    /\ runs \in Seq([job: Jobs, status: Statuses, logged: BOOLEAN])
    /\ alive \in BOOLEAN
    /\ upkeep \in [next: 0..(Len(GoldTables) + 1), step: {"optimize", "expire"},
                   failures: SUBSET Tables, compacted: SUBSET Tables]

TypeOK == MartsTypeOK /\ DagsterTypeOK

Init == /\ MartsInit
        /\ runs = <<>> /\ alive = FALSE /\ kills = 0 /\ faults = 0
        /\ upkeep = NoUpkeep

-----------------------------------------------------------------------------
(* The daemon.                                                             *)

Started == { i \in 1..Len(runs) : runs[i].status = "started" }
Active == CHOOSE i \in Started : TRUE
Waiting == { i \in 1..Len(runs) : runs[i].status = "queued" }

(* A schedule ticks, or somebody presses the button. *)
Schedule == /\ Len(runs) < MaxRuns
            /\ \E j \in Jobs :
                 runs' = Append(runs, [job |-> j, status |-> "queued", logged |-> FALSE])
            /\ UNCHANGED <<martsVars, alive, kills, faults, upkeep>>

(* max_concurrent_runs: 1 *)
Slot == Started = {}

(* The oldest queued run gets the slot, and its process starts the job. *)
Launch == /\ Waiting # {} /\ Slot
          /\ LET i == Min(Waiting)
             IN  /\ runs' = [runs EXCEPT ![i].status = "started"]
                 /\ IF runs[i].job = "build_marts" THEN StartBuild ELSE UNCHANGED build
                 /\ IF runs[i].job = "maintain_gold"
                    THEN upkeep' = [NoUpkeep EXCEPT !.next = 1] ELSE UNCHANGED upkeep
          /\ alive' = TRUE
          /\ UNCHANGED <<silverVars, goldVars, kills, faults>>

(* Mutant of Monitor: run_monitoring is not enabled. *)
Unmonitored == UNCHANGED vars

(* The process is gone and the run is still STARTED: the run is failed. *)
Monitor == /\ Started # {} /\ ~alive
           /\ runs' = [runs EXCEPT ![Active].status = "failure"]
           /\ UNCHANGED <<martsVars, alive, kills, faults, upkeep>>

(* log_run_failures *)
log_run_failures ==
    /\ \E i \in 1..Len(runs) :
         /\ runs[i].status = "failure" /\ ~runs[i].logged
         /\ runs' = [runs EXCEPT ![i].logged = TRUE]
    /\ UNCHANGED <<martsVars, alive, kills, faults, upkeep>>

-----------------------------------------------------------------------------
(* The run process.                                                        *)

Working(j) == alive /\ Started # {} /\ runs[Active].job = j

EndRun(ok) ==
    /\ runs' = [runs EXCEPT ![Active].status = IF ok THEN "success" ELSE "failure"]
    /\ alive' = FALSE

(* lakehouse_state and the five checks of the streaming tables: queries,   *)
(* and a check that is red does not fail the run.  One that raises does.   *)
Observe == /\ Working("observe_lakehouse")
           /\ \/ EndRun(TRUE) /\ UNCHANGED faults
              \/ faults < MaxFaults /\ faults' = faults + 1 /\ EndRun(FALSE)
           /\ UNCHANGED <<martsVars, kills, upkeep>>

(* wikistream_dbt_assets: dbt build goes on, or a statement fails in it;   *)
(* it ends with its tests, and raises if a model or a test failed.         *)
Build == /\ Working("build_marts")
         /\ \/ BuildStep /\ UNCHANGED faults
            \/ /\ faults < MaxFaults /\ faults' = faults + 1
               /\ \E m \in Models : ModelFails(m)
         /\ IF build'.todo = {}
            THEN EndRun(build'.red = {} /\ build'.failed = {})
            ELSE UNCHANGED <<runs, alive>>
         /\ UNCHANGED <<silverVars, kills, upkeep>>

Table == GoldTables[upkeep.next]

(* execute optimize on the table of this round *)
Optimize == /\ upkeep.next \in 1..Len(GoldTables) /\ upkeep.step = "optimize"
            /\ upkeep' = [upkeep EXCEPT !.step = "expire"]

(* execute expire_snapshots on it, and on to the next *)
Expire == /\ upkeep.next \in 1..Len(GoldTables) /\ upkeep.step = "expire"
          /\ upkeep' = [upkeep EXCEPT !.step = "optimize", !.next = @ + 1,
                                      !.compacted = @ \cup {Table}]

(* Mutant of TableFails: the exception is noted outside the loop. *)
TableEndsLoop == /\ upkeep.next \in 1..Len(GoldTables) /\ faults < MaxFaults
                 /\ faults' = faults + 1
                 /\ upkeep' = [upkeep EXCEPT !.next = Len(GoldTables) + 1,
                                             !.failures = @ \cup {Table}]

(* Either statement raises: the table is noted and the loop goes on. *)
TableFails == /\ upkeep.next \in 1..Len(GoldTables) /\ faults < MaxFaults
              /\ faults' = faults + 1
              /\ upkeep' = [upkeep EXCEPT !.step = "optimize", !.next = @ + 1,
                                          !.failures = @ \cup {Table}]

(* Behind the loop: RuntimeError if a table failed. *)
Report == /\ upkeep.next = Len(GoldTables) + 1
          /\ EndRun(upkeep.failures = {})
          /\ upkeep' = NoUpkeep

gold_table_maintenance ==
    /\ Working("maintain_gold")
    /\ \/ (Optimize \/ Expire) /\ UNCHANGED <<runs, alive, faults>>
       \/ TableFails /\ UNCHANGED <<runs, alive>>
       \/ Report /\ UNCHANGED faults
    /\ UNCHANGED <<martsVars, kills>>

(* The OOM killer takes the process, wherever it is. *)
Kill == /\ alive /\ kills < MaxKills
        /\ kills' = kills + 1
        /\ alive' = FALSE
        /\ build' = NoBuild
        /\ upkeep' = NoUpkeep
        /\ UNCHANGED <<silverVars, goldVars, runs, faults>>

DaemonStep == Launch \/ Monitor \/ log_run_failures
RunStep == Observe \/ Build \/ gold_table_maintenance

Next == \/ SilverStep /\ UNCHANGED <<runVars, upkeep>>
        \/ Schedule \/ DaemonStep \/ RunStep \/ Kill

Spec == Init /\ [][Next]_vars

(* The daemon's loops go on.  A run need not: query_timeout_seconds is for *)
(* one HTTP request of a query, dbt sets none, and run_monitoring has no   *)
(* max_runtime, so no step of a run is promised.                           *)
FairSpec == Spec /\ WF_vars(Launch) /\ WF_vars(Monitor) /\ WF_vars(log_run_failures)

-----------------------------------------------------------------------------
Accounted(r) == r.status = "success" \/ (r.status = "failure" /\ r.logged)

(* Every run is accounted for (dagster.yaml, run_monitoring; sensors.py):  *)
(* however its predecessors die, a queued run gets its turn and ends, and  *)
(* a failure is reported, so the queue empties again and again.  Or one    *)
(* run lives and never ends: monitoring looks for dead processes only, and *)
(* with max_concurrent_runs 1 the others wait for it.                      *)
EveryRunAccountedFor == \/ []<>(\A i \in 1..Len(runs) : Accounted(runs[i]))
                        \/ <>[]alive

(* A failure on one table does not stop the others, and is not hidden by   *)
(* them (maintenance.py): a run of maintain_gold that ends by itself has   *)
(* compacted every table that did not fail, and fails if one did.          *)
MaintenanceDoesTheRest ==
    [][upkeep.next = Len(GoldTables) + 1 /\ upkeep'.next = 0 /\ kills' = kills =>
        /\ upkeep.compacted \cup upkeep.failures = Tables
        /\ (runs'[Active].status = "failure") = (upkeep.failures # {})]_vars

=============================================================================
