---------------------------- MODULE CanaryStore -----------------------------
(***************************************************************************)
(* The canary schedule of one flag, as pkg/domain/canary.go defines it and *)
(* as the three stores keep it.                                            *)
(*                                                                         *)
(* Times are readings of a clock.  Of the stages, the one in progress has  *)
(* a start time; gen tells which submission the stages come from.          *)
(***************************************************************************)
EXTENDS Integers

CONSTANTS
    Stages,         \* stages of a schedule
    Envs,
    TicksPerSecond  \* clock readings within one second

ASSUME StagesAssumption ==
    Stages \in Nat \ {0} /\ TicksPerSecond \in Nat \ {0} /\ Envs # {}

Statuses == {"NONE", "ACTIVE", "COMPLETED", "ROLLED_BACK", "NEEDS_ATTENTION"}
Schedules ==
    [status : Statuses, env : Envs, idx : 0..Stages, started : Nat, updated : Nat, gen : Nat]
NoSchedule ==
    [status |-> "NONE", env |-> CHOOSE e \in Envs : TRUE, idx |-> 0, started |-> 0,
     updated |-> 0, gen |-> 0]

Active(s) == s.status = "ACTIVE"

\* What SubmitSchedule makes of a payload.
Submitted(env, now, gen) ==
    [status |-> "ACTIVE", env |-> env, idx |-> 0, started |-> now, updated |-> now,
     gen |-> gen]

\* The percentage of stage idx.
TargetPercentage(idx) == idx + 1

\* Mutant: the duration of the stage is not looked at.
AdvanceAtOnce(s, due) == Active(s) /\ s.idx < Stages

\* CanAdvanceStage.  A stage that started at reading due or earlier has lasted
\* its DurationSec.
CanAdvanceStage(s, due) == Active(s) /\ s.idx < Stages /\ s.started <= due

IsCompletion(s) == s.idx + 1 >= Stages

CommitStageAdvancement(s, now) ==
    IF s.idx >= Stages THEN s
    ELSE IF IsCompletion(s)
    THEN [s EXCEPT !.idx = s.idx + 1, !.updated = now, !.status = "COMPLETED"]
    ELSE [s EXCEPT !.idx = s.idx + 1, !.updated = now, !.started = now]

-----------------------------------------------------------------------------
\* The row SaveCanarySchedule leaves.  The memory store replaces it, the two
\* databases update some columns of it: the environment is not one of them.
Memory_SaveCanarySchedule(row, s, now) == [s EXCEPT !.updated = now]

Conflict(row, s) == IF row.status = "NONE" THEN s ELSE [s EXCEPT !.env = row.env]

\* SQLite keeps updated_at as text in whole seconds.
SQLite_SaveCanarySchedule(row, s, now) ==
    [Conflict(row, s) EXCEPT !.updated = now - (now % TicksPerSecond)]

Postgres_SaveCanarySchedule(row, s, now) == [Conflict(row, s) EXCEPT !.updated = now]

SaveCanarySchedule(driver, row, s, now) ==
    CASE driver = "memory" -> Memory_SaveCanarySchedule(row, s, now)
      [] driver = "sqlite" -> SQLite_SaveCanarySchedule(row, s, now)
      [] driver = "postgres" -> Postgres_SaveCanarySchedule(row, s, now)

\* ListActiveCanarySchedules, of the rows of one flag; GetCanarySchedule gives
\* the row whatever its status, and none is no error.
ListActiveCanarySchedules(row) == { s \in {row} : Active(s) }
=============================================================================
