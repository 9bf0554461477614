------------------------------- MODULE Canary -------------------------------
(***************************************************************************)
(* The canary scheduler (pkg/canary/scheduler.go) of one flag, run by the  *)
(* replicas that share a store.  Inside a replica cs.mu admits one         *)
(* operation at a time; the store calls of an operation are separate steps,*)
(* between which other replicas run, a replica may be killed, and each of  *)
(* which may fail.  Only PostgreSQL is shared by several replicas.         *)
(*                                                                         *)
(* A schedule in memory that cs.schedules points to is changed in place.   *)
(* Time is kept as the readings of the clock: due is the latest reading    *)
(* that lies at least DurationSec back.                                    *)
(***************************************************************************)
EXTENDS CanaryStore, Sequences

CONSTANTS
    Replicas,
    FirstReplica,   \* the one that serves when there is only one
    Drivers,
    MaxOps,         \* bound: submissions, rollbacks and cancellations
    MaxFaults       \* bound: failed store calls and crashes

ASSUME ReplicasAssumption ==
    /\ FirstReplica \in Replicas
    /\ Drivers \subseteq {"memory", "sqlite", "postgres"}
    /\ MaxOps \in Nat /\ MaxFaults \in Nat

VARIABLES
    driver,
    row,            \* the canary_schedules row of the flag
    rollout,        \* the percentage of the flag in each environment
    schedules,      \* each replica's cs.schedules entry for the flag
    pc,             \* the store call each replica makes next
    now,            \* the time each replica's operation has read
    clock, due, ops, faults,
    wanted,         \* history: the environment each submission named
    reached,        \* history: <<gen, idx>> of the stages written to the flag
    appliedAt,      \* history: when the percentages last changed
    served,         \* history: the replicas that took part
    rolledBack,     \* history: the environment of a rollback not followed by a submission
    saveLost,       \* history: a schedule was not saved
    strayed         \* history: and a replica has lost its copy since

store == <<row, rollout>>
times == <<clock, due>>
history == <<wanted, reached, appliedAt, served, rolledBack, saveLost, strayed>>
vars == <<driver, store, schedules, pc, now, times, ops, faults, history>>

NoEnv == ""

Init ==
    /\ driver \in Drivers
    /\ row = NoSchedule
    /\ rollout = [e \in Envs |-> 0]
    /\ schedules = [r \in Replicas |-> NoSchedule]
    /\ pc = [r \in Replicas |-> "idle"]
    /\ now = [r \in Replicas |-> 0]
    /\ clock = 1 /\ due = 0 /\ ops = 0 /\ faults = 0
    /\ wanted = <<>> /\ reached = {} /\ appliedAt = 0 /\ served = {}
    /\ rolledBack = NoEnv /\ saveLost = FALSE /\ strayed = FALSE

Serving(r) == driver = "postgres" \/ r = FirstReplica

\* An operation of r starts, reads the clock, and goes on at label with s.
Start(r, label, s) ==
    /\ Serving(r) /\ pc[r] = "idle"
    /\ clock' = clock + 1
    /\ now' = [now EXCEPT ![r] = clock + 1]
    /\ pc' = [pc EXCEPT ![r] = label]
    /\ schedules' = [schedules EXCEPT ![r] = s]
    /\ served' = served \cup {r}
    /\ UNCHANGED <<driver, store, due, faults, reached, appliedAt, saveLost, strayed>>

Command == ops < MaxOps /\ ops' = ops + 1
Fault == faults < MaxFaults /\ faults' = faults + 1

\* A store call of r returns, and its operation goes on at label.
Goto(r, label) ==
    /\ pc' = [pc EXCEPT ![r] = label]
    /\ now' = [now EXCEPT ![r] = 0]
    /\ UNCHANGED <<driver, due, ops, served, wanted>>

\* UpdateRolloutByProject on behalf of r.
UpdateRollout(r, env, pct) ==
    /\ rollout' = [rollout EXCEPT ![env] = pct]
    /\ appliedAt' = IF rollout[env] = pct THEN appliedAt ELSE now[r]
    /\ UNCHANGED <<row, clock, faults, saveLost, strayed>>

-----------------------------------------------------------------------------
\* SubmitSchedule: into the map, stage 0 to the flag, then into the store.  An
\* error on the way leaves the schedule in the map.
SubmitSchedule(r, env) ==
    /\ Command
    /\ Start(r, "submit", Submitted(env, clock + 1, Len(wanted) + 1))
    /\ wanted' = Append(wanted, env)
    /\ rolledBack' = NoEnv

SubmitRollout(r) ==
    LET s == schedules[r]
    IN  /\ pc[r] = "submit"
        /\ UpdateRollout(r, s.env, TargetPercentage(0))
        /\ reached' = reached \cup {<<s.gen, 0>>}
        /\ Goto(r, "save")
        /\ UNCHANGED <<schedules, rolledBack>>

SubmitFails(r) ==
    /\ pc[r] = "submit"
    /\ Fault
    /\ Goto(r, "idle")
    /\ UNCHANGED <<store, schedules, clock, reached, appliedAt, rolledBack, saveLost, strayed>>

\* SaveCanarySchedule, the last call of every operation but Cancel.
Save(r) ==
    /\ pc[r] = "save"
    /\ clock' = clock + 1
    /\ row' = SaveCanarySchedule(driver, row, schedules[r], clock + 1)
    /\ Goto(r, "idle")
    /\ UNCHANGED <<rollout, schedules, faults, reached, appliedAt, rolledBack, saveLost, strayed>>

SaveFails(r) ==
    /\ pc[r] = "save"
    /\ Fault
    /\ saveLost' = TRUE
    /\ Goto(r, "idle")
    /\ UNCHANGED <<store, schedules, clock, reached, appliedAt, rolledBack, strayed>>

-----------------------------------------------------------------------------
\* Mutant: the copy in memory is replaced whatever its age.
SyncedBlindly(mine, listed) == IF listed = {} THEN mine ELSE CHOOSE s \in listed : TRUE

\* Mutant: only schedules the replica already has are brought up to date.
SyncedIfKnown(mine, listed) ==
    LET newer == { s \in listed : mine.status # "NONE" /\ s.updated > mine.updated }
    IN  IF newer = {} THEN mine ELSE CHOOSE s \in newer : TRUE

\* EvaluateSchedules begins by taking over the active rows it does not have or
\* has an older copy of.
Synced(mine, listed) ==
    LET newer == { s \in listed : mine.status = "NONE" \/ s.updated > mine.updated }
    IN  IF newer = {} THEN mine ELSE CHOOSE s \in newer : TRUE

Copy(r) == Synced(schedules[r], ListActiveCanarySchedules(row))

EvaluateSync(r) ==
    /\ Serving(r) /\ pc[r] = "idle"
    /\ ~CanAdvanceStage(Copy(r), due)
    /\ Copy(r) # schedules[r]
    /\ schedules' = [schedules EXCEPT ![r] = Copy(r)]
    /\ served' = served \cup {r}
    /\ UNCHANGED <<driver, store, pc, now, times, ops, faults, wanted, reached, appliedAt,
                   rolledBack, saveLost, strayed>>

\* The last stage is over: the schedule is completed and saved.
EvaluateComplete(r) ==
    /\ CanAdvanceStage(Copy(r), due) /\ IsCompletion(Copy(r))
    /\ Start(r, "save", CommitStageAdvancement(Copy(r), clock + 1))
    /\ UNCHANGED <<ops, wanted, rolledBack>>

\* Another stage follows: its percentage is written first.
EvaluateAdvance(r) ==
    /\ CanAdvanceStage(Copy(r), due) /\ ~IsCompletion(Copy(r))
    /\ Start(r, "advance", Copy(r))
    /\ UNCHANGED <<ops, wanted, rolledBack>>

Advance(r) ==
    LET s == schedules[r]
    IN  /\ pc[r] = "advance"
        /\ UpdateRollout(r, s.env, TargetPercentage(s.idx + 1))
        /\ reached' = reached \cup {<<s.gen, s.idx + 1>>}
        /\ schedules' = [schedules EXCEPT ![r] = CommitStageAdvancement(s, now[r])]
        /\ Goto(r, "save")
        /\ UNCHANGED rolledBack

\* A failed write needs attention: the schedule stays at its stage.
NeedsAttention(r) ==
    schedules' = [schedules EXCEPT ![r].status = "NEEDS_ATTENTION", ![r].updated = now[r]]

\* Mutant: the stage is advanced although its percentage was not written.
AdvanceFailsSilently(r) ==
    /\ pc[r] = "advance"
    /\ Fault
    /\ schedules' = [schedules EXCEPT ![r] = CommitStageAdvancement(schedules[r], now[r])]
    /\ Goto(r, "save")
    /\ UNCHANGED <<store, clock, reached, appliedAt, rolledBack, saveLost, strayed>>

AdvanceFails(r) ==
    /\ pc[r] = "advance"
    /\ Fault
    /\ NeedsAttention(r)
    /\ Goto(r, "save")
    /\ UNCHANGED <<store, clock, reached, appliedAt, rolledBack, saveLost, strayed>>

-----------------------------------------------------------------------------
\* The copy a rollback or a query works on: the one in memory, else the row.
Resolved(r) == IF schedules[r].status # "NONE" THEN schedules[r] ELSE row

\* GetSchedule keeps what it found in the store.
GetSchedule(r) ==
    /\ Serving(r) /\ pc[r] = "idle"
    /\ schedules[r].status = "NONE" /\ row.status # "NONE"
    /\ schedules' = [schedules EXCEPT ![r] = Resolved(r)]
    /\ served' = served \cup {r}
    /\ UNCHANGED <<driver, store, pc, now, times, ops, faults, wanted, reached, appliedAt,
                   rolledBack, saveLost, strayed>>

\* TriggerHealthRollback does not look at the status.
TriggerHealthRollback(r) ==
    /\ Command
    /\ Resolved(r).status # "NONE"
    /\ Start(r, "rollback", Resolved(r))
    /\ UNCHANGED <<wanted, rolledBack>>

Rollback(r) ==
    LET env == schedules[r].env
    IN  /\ pc[r] = "rollback"
        /\ UpdateRollout(r, env, 0)
        /\ schedules' = [schedules EXCEPT ![r].status = "ROLLED_BACK", ![r].updated = now[r]]
        /\ rolledBack' = env
        /\ Goto(r, "save")
        /\ UNCHANGED reached

RollbackFails(r) ==
    /\ pc[r] = "rollback"
    /\ Fault
    /\ NeedsAttention(r)
    /\ Goto(r, "save")
    /\ UNCHANGED <<store, clock, reached, appliedAt, rolledBack, saveLost, strayed>>

\* CancelSchedule drops the copy and the row; the error of the deletion is
\* ignored.
CancelSchedule(r, deleted) ==
    /\ Serving(r) /\ pc[r] = "idle"
    /\ Command
    /\ schedules[r].status # "NONE" \/ row.status # "NONE"
    /\ schedules' = [schedules EXCEPT ![r] = NoSchedule]
    /\ IF deleted THEN row' = NoSchedule /\ UNCHANGED <<faults, strayed>>
       ELSE Fault /\ strayed' = (strayed \/ saveLost) /\ UNCHANGED row
    /\ served' = served \cup {r}
    /\ UNCHANGED <<driver, rollout, pc, now, times, wanted, reached, appliedAt,
                   rolledBack, saveLost>>

\* A replica is killed and started again; its map is empty.
Crash(r) ==
    /\ driver # "memory" /\ Serving(r)
    /\ Fault
    /\ schedules' = [schedules EXCEPT ![r] = NoSchedule]
    /\ pc' = [pc EXCEPT ![r] = "idle"]
    /\ saveLost' = (saveLost \/ pc[r] = "save")
    /\ strayed' = (strayed \/ saveLost \/ pc[r] = "save")
    /\ now' = [now EXCEPT ![r] = 0]
    /\ UNCHANGED <<driver, store, times, ops, wanted, reached, appliedAt, served,
                   rolledBack>>

\* Time passes, until a stage somebody is at has lasted long enough.
Elapse ==
    /\ \E s \in {row} \cup { schedules[r] : r \in Replicas } :
        Active(s) /\ s.started > due /\ due' = s.started
    /\ UNCHANGED <<driver, store, schedules, pc, now, clock, ops, faults, history>>

-----------------------------------------------------------------------------
Evaluate(r) == EvaluateSync(r) \/ EvaluateComplete(r) \/ EvaluateAdvance(r)

Continue(r) == SubmitRollout(r) \/ Advance(r) \/ Rollback(r) \/ Save(r)

Fails(r) == SubmitFails(r) \/ AdvanceFails(r) \/ RollbackFails(r) \/ SaveFails(r) \/ Crash(r)

Next ==
    \/ \E r \in Replicas :
        \/ \E env \in Envs : SubmitSchedule(r, env)
        \/ GetSchedule(r) \/ TriggerHealthRollback(r)
        \/ \E deleted \in BOOLEAN : CancelSchedule(r, deleted)
        \/ Evaluate(r) \/ Continue(r) \/ Fails(r)
    \/ Elapse

\* The loop of StartBackgroundLoop evaluates again and again, an operation that
\* has begun ends, or fails, and time passes.
Fairness ==
    /\ \A r \in Replicas : WF_vars(Evaluate(r)) /\ WF_vars(Continue(r) \/ Fails(r))
    /\ WF_vars(Elapse)

Spec == Init /\ [][Next]_vars /\ Fairness

-----------------------------------------------------------------------------
\* Type invariant: rows, copies and positions.
TypeOK ==
    /\ driver \in Drivers
    /\ row \in Schedules
    /\ rollout \in [Envs -> 0..Stages]
    /\ schedules \in [Replicas -> Schedules]
    /\ pc \in [Replicas -> {"idle", "submit", "advance", "rollback", "save"}]
    /\ now \in [Replicas -> Nat]
    /\ clock \in Nat /\ due \in 0..clock /\ ops \in Nat /\ faults \in Nat
    /\ wanted \in Seq(Envs)
    /\ reached \subseteq Nat \X (0..Stages)
    /\ appliedAt \in Nat /\ served \subseteq Replicas
    /\ rolledBack \in Envs \cup {NoEnv}
    /\ saveLost \in BOOLEAN /\ strayed \in BOOLEAN

\* A schedule does not reach a stage, in the store or in any replica's memory,
\* unless the percentage of that stage was written to the flag, whichever
\* replicas evaluated it, failed or were killed on the way.
StageWasApplied ==
    \A s \in {row} \cup { schedules[r] : r \in Replicas } :
        \A i \in 1..(Stages - 1) : i <= s.idx => <<s.gen, i>> \in reached

\* One replica looks after the flag, and has not lost, in a crash or to a
\* cancellation whose deletion failed, a schedule it had failed to save.
Alone == (\A q, r \in served : q = r) /\ ~strayed

\* A flag that was rolled back stays at 0 percent until somebody submits a new
\* schedule, also when the save of the rolled back schedule failed and the row
\* still says ACTIVE.
RollbackSticks == Alone /\ rolledBack # NoEnv => rollout[rolledBack] = 0

\* A stage that takes over from another one does so after the percentage of
\* that one has been in force for its duration.
StagesSoak ==
    [][\A r \in Replicas : Alone /\ Advance(r) /\ appliedAt' # appliedAt => appliedAt <= due]_vars

\* A schedule in the store does not stay ACTIVE for ever: some replica takes
\* it over, after a crash too, and brings it to an end, unless a save was lost.
ScheduleEnds == Active(row) ~> ~Active(row) \/ saveLost

-----------------------------------------------------------------------------
\* SubmitSchedule "registers or replaces" the schedule of a flag, environment
\* included: percentages are written to the environment of the submission.
OwnEnvironment ==
    \A s \in {row} \cup { schedules[r] : r \in Replicas } :
        s.status # "NONE" => s.env = wanted[s.gen]

\* Schedules are persisted "for multi-replica consistency": a rollback holds
\* whichever replica served it.
RollbackHolds == ~saveLost /\ rolledBack # NoEnv => rollout[rolledBack] = 0
=============================================================================
