---------------------------- MODULE CanaryProofs ----------------------------
(***************************************************************************)
(* Proofs about the canary scheduler, for every number of replicas, stages *)
(* and environments, and for every number of commands and faults.          *)
(*                                                                         *)
(* StageWasApplied is inductive once the positions of the replicas are     *)
(* known (TypeInv): a schedule moves to another stage only in the step     *)
(* that writes the percentage of that stage, and every other copy of a     *)
(* schedule is one that was there.                                         *)
(*                                                                         *)
(* RollbackSticks and StagesSoak are about a replica that is alone.  The   *)
(* invariant they need (SoleInv) says when its copy is at least as new as  *)
(* an ACTIVE row, so that no evaluation takes an outdated row over.        *)
(***************************************************************************)
EXTENDS Canary, TLAPS

\* Every leaf is first-order and left to Zenon, unless it cites SMT (arithmetic
\* and records) or PTL (temporal steps).
USE ZenonT(60)

Timed(s, t) == s.started <= t /\ s.updated <= t

\* What holds of a replica at its store call.
At(r) ==
    LET s == schedules[r]
    IN  /\ Timed(s, clock) /\ now[r] <= clock
        /\ pc[r] # "idle" => s.status # "NONE" /\ r \in served
        /\ pc[r] = "submit" => s.idx = 0 /\ s.started = now[r] /\ s.updated = now[r]
        /\ pc[r] = "advance" => Active(s) /\ s.idx + 1 < Stages /\ s.started <= due
        /\ r \notin served => s = NoSchedule

TypeInv ==
    /\ TypeOK
    /\ Timed(row, clock) /\ appliedAt <= clock
    /\ served = {} => row = NoSchedule
    /\ \A r \in Replicas : At(r)

-----------------------------------------------------------------------------
\* Of the only replica that serves: the row is not newer than what it is about
\* to write, the percentages have been in force since its stage began, and an
\* ACTIVE row is up to date or not newer than its copy.
UpToDate(r) ==
    LET s == schedules[r]
    IN  /\ pc[r] \in {"submit", "advance", "rollback"} => row.updated <= now[r] /\ appliedAt <= now[r]
        /\ pc[r] = "save" => row.updated <= s.updated
        /\ Active(s) => appliedAt <= s.started
        /\ Active(row) /\ pc[r] # "save" =>
            /\ \/ appliedAt <= row.started
               \/ s.status # "NONE" /\ row.updated <= s.updated
            /\ ~saveLost => appliedAt <= row.started

\* After a rollback its copy is not ACTIVE, and an ACTIVE row is one that the
\* rolled back schedule was not saved to.
StaysBack(r) ==
    LET s == schedules[r]
    IN  /\ ~Active(s) /\ pc[r] \notin {"submit", "advance"}
        /\ Active(row) => /\ saveLost \/ pc[r] = "save"
                          /\ s.status # "NONE" /\ row.updated <= s.updated

SoleInv ==
    Alone =>
        /\ \A r \in served : UpToDate(r)
        /\ rolledBack # NoEnv =>
            /\ rollout[rolledBack] = 0 /\ served # {}
            /\ \A r \in served : StaysBack(r)

-----------------------------------------------------------------------------
(* The operators on schedules.                                             *)

LEMMA NoScheduleType ==
    /\ NoSchedule \in Schedules /\ NoSchedule.status = "NONE" /\ NoSchedule.idx = 0
    /\ NoSchedule.started = 0 /\ NoSchedule.updated = 0
BY SMT, StagesAssumption DEF NoSchedule, Schedules, Statuses

LEMMA SubmittedType ==
    ASSUME NEW env \in Envs, NEW t \in Nat, NEW g \in Nat, NEW s, s = Submitted(env, t, g)
    PROVE  /\ s \in Schedules /\ Active(s) /\ s.status # "NONE" /\ s.idx = 0
           /\ s.started = t /\ s.updated = t /\ s.gen = g
BY SMT, StagesAssumption DEF Submitted, Schedules, Statuses, Active

LEMMA CommitType ==
    ASSUME NEW s \in Schedules, NEW t \in Nat, CanAdvanceStage(s, due), NEW c,
           c = CommitStageAdvancement(s, t)
    PROVE  /\ c \in Schedules /\ c.idx = s.idx + 1 /\ c.updated = t /\ c.gen = s.gen
           /\ c.status # "NONE"
           /\ IsCompletion(s) => ~Active(c) /\ c.started = s.started
           /\ ~IsCompletion(s) => Active(c) /\ c.started = t
<1>1. s.idx \in 0..Stages /\ s.idx < Stages /\ s.status = "ACTIVE" /\ Stages \in Nat
  BY StagesAssumption DEF CanAdvanceStage, Active, Schedules
<1>2. s.idx + 1 \in 0..Stages /\ ~(s.idx >= Stages)
  BY SMT, <1>1
<1> DEFINE n == s.idx + 1
<1> HIDE DEF n
<1>3. CASE IsCompletion(s)
  <2>1. c = [s EXCEPT !.idx = n, !.updated = t, !.status = "COMPLETED"]
    BY <1>2, <1>3 DEF CommitStageAdvancement, n
  <2>2. /\ c \in Schedules /\ c.idx = n /\ c.updated = t /\ c.gen = s.gen
        /\ c.status = "COMPLETED" /\ c.started = s.started
    BY <1>2, <2>1 DEF Schedules, Statuses, n
  <2> QED BY <1>3, <2>2 DEF n, Active
<1>4. CASE ~IsCompletion(s)
  <2>1. c = [s EXCEPT !.idx = n, !.updated = t, !.started = t]
    BY <1>2, <1>4 DEF CommitStageAdvancement, n
  <2>2. /\ c \in Schedules /\ c.idx = n /\ c.updated = t /\ c.gen = s.gen
        /\ c.status = s.status /\ c.started = t
    BY <1>2, <2>1 DEF Schedules, Statuses, n
  <2> QED BY <1>1, <1>4, <2>2 DEF n, Active
<1> QED BY <1>3, <1>4

\* A row takes over everything but, at times, the environment, and the time of
\* the save or less.
LEMMA SavedType ==
    ASSUME NEW d \in {"memory", "sqlite", "postgres"}, NEW old \in Schedules,
           NEW s \in Schedules, NEW t \in Nat
    PROVE  LET c == SaveCanarySchedule(d, old, s, t)
           IN  /\ c \in Schedules /\ c.status = s.status /\ c.idx = s.idx
               /\ c.started = s.started /\ c.gen = s.gen /\ c.updated <= t
<1> DEFINE c == SaveCanarySchedule(d, old, s, t)
<1> DEFINE b == Conflict(old, s)
<1>1. /\ b \in Schedules /\ b.status = s.status /\ b.idx = s.idx
      /\ b.started = s.started /\ b.gen = s.gen
  BY DEF Conflict, Schedules
<1> DEFINE n == t - (t % TicksPerSecond)
<1>2. n \in Nat /\ n <= t
  BY SMT, StagesAssumption
<1> HIDE DEF b, n
<1>3. CASE d = "memory"
  <2>1. c = [s EXCEPT !.updated = t]
    BY <1>3 DEF SaveCanarySchedule, Memory_SaveCanarySchedule
  <2> QED BY SMT, <2>1 DEF Schedules
<1>4. CASE d = "sqlite"
  <2>1. c = [b EXCEPT !.updated = n]
    BY <1>4 DEF SaveCanarySchedule, SQLite_SaveCanarySchedule, b, n
  <2> QED BY <1>1, <1>2, <2>1 DEF Schedules
<1>5. CASE d = "postgres"
  <2>1. c = [b EXCEPT !.updated = t]
    BY <1>5 DEF SaveCanarySchedule, Postgres_SaveCanarySchedule, b
  <2> QED BY SMT, <1>1, <2>1 DEF Schedules
<1> QED BY <1>3, <1>4, <1>5

\* What an evaluation works on: the copy, or an ACTIVE row that is newer.
Taken(r) ==
    /\ Active(row)
    /\ schedules[r].status = "NONE" \/ row.updated > schedules[r].updated

LEMMA CopyIs ==
    ASSUME NEW r \in Replicas
    PROVE  Copy(r) = IF Taken(r) THEN row ELSE schedules[r]
<1> DEFINE mine == schedules[r]
           newer == { s \in ListActiveCanarySchedules(row) :
                        mine.status = "NONE" \/ s.updated > mine.updated }
<1>1. Copy(r) = IF newer = {} THEN mine ELSE CHOOSE s \in newer : TRUE
  BY DEF Copy, Synced
<1>2. newer = IF Taken(r) THEN {row} ELSE {}
  BY DEF ListActiveCanarySchedules, Taken
<1> HIDE DEF newer
<1> QED BY <1>1, <1>2

-----------------------------------------------------------------------------
(* Types and positions.                                                    *)

Labels == {"idle", "submit", "advance", "rollback", "save"}

\* The part of TypeInv that is not about single replicas.
Shared ==
    /\ driver \in Drivers
    /\ row \in Schedules
    /\ rollout \in [Envs -> 0..Stages]
    /\ clock \in Nat /\ due \in 0..clock /\ ops \in Nat /\ faults \in Nat
    /\ wanted \in Seq(Envs)
    /\ reached \subseteq Nat \X (0..Stages)
    /\ appliedAt \in Nat /\ served \subseteq Replicas
    /\ rolledBack \in Envs \cup {NoEnv}
    /\ saveLost \in BOOLEAN /\ strayed \in BOOLEAN
    /\ Timed(row, clock) /\ appliedAt <= clock
    /\ served = {} => row = NoSchedule

LEMMA SharedHolds == TypeInv => Shared
BY DEF TypeInv, TypeOK, Shared

\* Replica r moves to a store call, with the time t and the schedule s.
Moved(r, label, t, s) ==
    /\ pc' = [pc EXCEPT ![r] = label]
    /\ now' = [now EXCEPT ![r] = t]
    /\ schedules' = [schedules EXCEPT ![r] = s]

OthersRest(r) ==
    \A q \in Replicas \ {r} :
        pc'[q] = pc[q] /\ now'[q] = now[q] /\ schedules'[q] = schedules[q]

LEMMA MovedKeeps ==
    ASSUME TypeInv, Shared', NEW r \in Replicas, NEW label \in Labels, NEW t \in Nat,
           NEW s \in Schedules, Moved(r, label, t, s),
           clock <= clock', due' = due, served' = served \/ served' = served \cup {r},
           Timed(s, clock'), t <= clock',
           label # "idle" => s.status # "NONE" /\ r \in served',
           label = "submit" => s.idx = 0 /\ s.started = t /\ s.updated = t,
           label = "advance" => Active(s) /\ s.idx + 1 < Stages /\ s.started <= due,
           r \in served' \/ s = NoSchedule
    PROVE  /\ TypeInv'
           /\ pc'[r] = label /\ now'[r] = t /\ schedules'[r] = s
           /\ OthersRest(r)
<1>1. /\ pc \in [Replicas -> Labels] /\ now \in [Replicas -> Nat]
      /\ schedules \in [Replicas -> Schedules] /\ clock \in Nat
  BY DEF TypeInv, TypeOK, Labels
<1>2. /\ pc' \in [Replicas -> Labels] /\ now' \in [Replicas -> Nat]
      /\ schedules' \in [Replicas -> Schedules]
      /\ pc'[r] = label /\ now'[r] = t /\ schedules'[r] = s
  BY <1>1 DEF Moved
<1>3. OthersRest(r)
  BY <1>1 DEF Moved, OthersRest
<1>4. TypeOK'
  BY <1>2 DEF Shared, TypeOK, Labels
<1>5. At(r)'
  BY <1>2 DEF At
<1>6. ASSUME NEW q \in Replicas \ {r} PROVE At(q)'
  <2>1. /\ pc'[q] = pc[q] /\ now'[q] = now[q] /\ schedules'[q] = schedules[q] /\ At(q)
        /\ q \in served' <=> q \in served
    BY <1>3 DEF OthersRest, TypeInv
  <2>2. schedules[q].started \in Nat /\ schedules[q].updated \in Nat /\ now[q] \in Nat /\ clock' \in Nat
    BY <1>1 DEF Schedules, Shared
  <2>3. Timed(schedules[q], clock)' /\ now'[q] <= clock'
    BY SMT, <1>1, <2>1, <2>2 DEF At, Timed
  <2> QED BY <2>1, <2>3 DEF At
<1> QED BY <1>2, <1>3, <1>4, <1>5, <1>6 DEF TypeInv, Shared

LEMMA LocalTypes ==
    ASSUME TypeInv, NEW r \in Replicas
    PROVE  /\ schedules[r] \in Schedules /\ now[r] \in Nat /\ pc[r] \in Labels
           /\ now[r] <= clock /\ Timed(schedules[r], clock)
           /\ pc[r] # "idle" => schedules[r].status # "NONE" /\ r \in served
           /\ r \notin served => pc[r] = "idle" /\ schedules[r] = NoSchedule
BY DEF TypeInv, TypeOK, At, Labels

LEMMA StartTypes ==
    ASSUME TypeInv, NEW r \in Replicas, NEW label \in Labels, NEW s \in Schedules,
           Start(r, label, s), s.status # "NONE", Timed(s, clock + 1),
           ops' \in Nat, wanted' \in Seq(Envs), rolledBack' \in Envs \cup {NoEnv},
           label = "submit" => s.idx = 0 /\ s.started = clock + 1 /\ s.updated = clock + 1,
           label = "advance" => Active(s) /\ s.idx + 1 < Stages /\ s.started <= due
    PROVE  /\ TypeInv'
           /\ pc[r] = "idle" /\ pc'[r] = label /\ now'[r] = clock + 1 /\ schedules'[r] = s
           /\ OthersRest(r)
           /\ served' = served \cup {r} /\ r \in served'
           /\ UNCHANGED <<row, rollout, due, reached, appliedAt, saveLost, strayed>>
<1> DEFINE t == clock + 1
<1>1. clock \in Nat /\ t \in Nat /\ clock <= t /\ clock' = t
  BY SMT, SharedHolds DEF Shared, Start
<1>2. Moved(r, label, t, s) /\ pc[r] = "idle"
  BY DEF Start, Moved
<1>3. served' = served \cup {r} /\ r \in served'
      /\ UNCHANGED <<driver, row, rollout, due, faults, reached, appliedAt, saveLost, strayed>>
  BY DEF Start, store
<1>4. Timed(row, t) /\ appliedAt <= t /\ due \in 0..t
  <2>1. /\ row.started \in Nat /\ row.updated \in Nat /\ appliedAt \in Nat /\ due \in 0..clock
        /\ row.started <= clock /\ row.updated <= clock /\ appliedAt <= clock
    BY SharedHolds DEF Shared, Timed, Schedules
  <2> QED BY SMT, <1>1, <2>1 DEF Timed
<1> HIDE DEF t
<1>5. Shared'
  BY <1>1, <1>3, <1>4, SharedHolds DEF Shared, Timed
<1>6. /\ TypeInv'
      /\ pc'[r] = label /\ now'[r] = t /\ schedules'[r] = s
      /\ OthersRest(r)
  <2>1. Timed(s, clock') /\ t <= clock'
    BY SMT, <1>1 DEF t
  <2>2. label = "submit" => s.idx = 0 /\ s.started = t /\ s.updated = t
    BY DEF t
  <2> QED BY <1>1, <1>2, <1>3, <1>5, <2>1, <2>2, MovedKeeps
<1> QED BY <1>2, <1>3, <1>6 DEF t

LEMMA SubmitTypes ==
    ASSUME TypeInv, NEW r \in Replicas, NEW env \in Envs, SubmitSchedule(r, env)
    PROVE  /\ TypeInv'
           /\ pc[r] = "idle" /\ pc'[r] = "submit" /\ now'[r] = clock + 1
           /\ Active(schedules'[r]) /\ schedules'[r].status # "NONE" /\ schedules'[r].idx = 0
           /\ schedules'[r].started = clock + 1 /\ schedules'[r].updated = clock + 1
           /\ OthersRest(r)
           /\ served' = served \cup {r} /\ r \in served' /\ rolledBack' = NoEnv
           /\ UNCHANGED <<row, rollout, due, reached, appliedAt, saveLost, strayed>>
<1> DEFINE s == Submitted(env, clock + 1, Len(wanted) + 1)
<1>1. clock + 1 \in Nat /\ Len(wanted) + 1 \in Nat
  BY SMT, SharedHolds DEF Shared
<1>2. /\ s \in Schedules /\ Active(s) /\ s.status # "NONE" /\ s.idx = 0
      /\ s.started = clock + 1 /\ s.updated = clock + 1
  BY SMT, <1>1, SubmittedType
<1>3. Start(r, "submit", s) /\ rolledBack' = NoEnv
  BY DEF SubmitSchedule
<1>4. ops' \in Nat /\ wanted' \in Seq(Envs)
  BY SMT, SharedHolds DEF Shared, SubmitSchedule, Command
<1>5. Timed(s, clock + 1)
  BY SMT, <1>1, <1>2 DEF Timed
<1>6. "submit" \in Labels /\ "submit" # "advance" /\ rolledBack' \in Envs \cup {NoEnv}
  BY <1>3 DEF Labels
<1> HIDE DEF s
<1>7. /\ TypeInv'
      /\ pc[r] = "idle" /\ pc'[r] = "submit" /\ now'[r] = clock + 1 /\ schedules'[r] = s
      /\ OthersRest(r)
      /\ served' = served \cup {r} /\ r \in served'
      /\ UNCHANGED <<row, rollout, due, reached, appliedAt, saveLost, strayed>>
  BY <1>2, <1>3, <1>4, <1>5, <1>6, StartTypes
<1> QED BY <1>2, <1>3, <1>7

\* The copy an evaluation or a rollback works on is well-typed.
LEMMA CopyTypes ==
    ASSUME TypeInv, NEW r \in Replicas, NEW s, s \in {schedules[r], row}
    PROVE  s \in Schedules /\ Timed(s, clock) /\ Timed(s, clock + 1)
<1>1. s \in Schedules /\ Timed(s, clock) /\ clock \in Nat
  BY SharedHolds, LocalTypes DEF Shared
<1>2. s.started \in Nat /\ s.updated \in Nat
  BY <1>1 DEF Schedules
<1> QED BY SMT, <1>1, <1>2 DEF Timed

LEMMA CompleteTypes ==
    ASSUME TypeInv, NEW r \in Replicas, EvaluateComplete(r)
    PROVE  /\ TypeInv'
           /\ pc[r] = "idle" /\ pc'[r] = "save" /\ now'[r] = clock + 1
           /\ Active(Copy(r)) /\ Copy(r).idx + 1 = Stages
           /\ schedules'[r] = CommitStageAdvancement(Copy(r), clock + 1)
           /\ ~Active(schedules'[r]) /\ schedules'[r].status # "NONE"
           /\ schedules'[r].idx = Stages /\ schedules'[r].updated = clock + 1
           /\ schedules'[r].gen = Copy(r).gen
           /\ OthersRest(r)
           /\ served' = served \cup {r} /\ r \in served' /\ rolledBack' = rolledBack
           /\ UNCHANGED <<row, rollout, due, reached, appliedAt, saveLost, strayed>>
<1> DEFINE d == Copy(r)
           s == CommitStageAdvancement(d, clock + 1)
<1>1. d \in {schedules[r], row}
  BY CopyIs
<1>2. CanAdvanceStage(d, due) /\ IsCompletion(d) /\ Start(r, "save", s)
      /\ UNCHANGED <<ops, wanted, rolledBack>>
  BY DEF EvaluateComplete
<1> HIDE DEF d
<1>3. d \in Schedules /\ Timed(d, clock) /\ clock + 1 \in Nat
  BY SMT, <1>1, CopyTypes, SharedHolds DEF Shared
<1>4. /\ s \in Schedules /\ s.idx = d.idx + 1 /\ s.updated = clock + 1 /\ s.gen = d.gen
      /\ s.status # "NONE" /\ ~Active(s) /\ s.started = d.started
  BY SMT, <1>2, <1>3, CommitType
<1>5. Active(d) /\ d.idx + 1 = Stages
  BY SMT, <1>2, <1>3, StagesAssumption DEF CanAdvanceStage, IsCompletion, Schedules
<1>6. Timed(s, clock + 1)
  <2>1. d.started \in Nat /\ d.started <= clock /\ clock \in Nat
    BY <1>3, SharedHolds DEF Timed, Schedules, Shared
  <2> QED BY SMT, <1>3, <1>4, <2>1 DEF Timed
<1>7. ops' \in Nat /\ wanted' \in Seq(Envs) /\ rolledBack' \in Envs \cup {NoEnv}
  BY <1>2, SharedHolds DEF Shared
<1>8. "save" \in Labels /\ "save" # "submit" /\ "save" # "advance"
  BY DEF Labels
<1> HIDE DEF s
<1>9. /\ TypeInv'
      /\ pc[r] = "idle" /\ pc'[r] = "save" /\ now'[r] = clock + 1 /\ schedules'[r] = s
      /\ OthersRest(r)
      /\ served' = served \cup {r} /\ r \in served'
      /\ UNCHANGED <<row, rollout, due, reached, appliedAt, saveLost, strayed>>
  BY <1>2, <1>4, <1>6, <1>7, <1>8, StartTypes
<1> QED BY <1>2, <1>4, <1>5, <1>9 DEF s, d

LEMMA AdvanceStartTypes ==
    ASSUME TypeInv, NEW r \in Replicas, EvaluateAdvance(r)
    PROVE  /\ TypeInv'
           /\ pc[r] = "idle" /\ pc'[r] = "advance" /\ now'[r] = clock + 1
           /\ Active(Copy(r)) /\ schedules'[r] = Copy(r)
           /\ OthersRest(r)
           /\ served' = served \cup {r} /\ r \in served' /\ rolledBack' = rolledBack
           /\ UNCHANGED <<row, rollout, due, reached, appliedAt, saveLost, strayed>>
<1> DEFINE d == Copy(r)
<1>1. d \in {schedules[r], row}
  BY CopyIs
<1>2. CanAdvanceStage(d, due) /\ ~IsCompletion(d) /\ Start(r, "advance", d)
      /\ UNCHANGED <<ops, wanted, rolledBack>>
  BY DEF EvaluateAdvance
<1> HIDE DEF d
<1>3. d \in Schedules /\ Timed(d, clock + 1)
  BY <1>1, CopyTypes
<1>4. Active(d) /\ d.status # "NONE" /\ d.idx + 1 < Stages /\ d.started <= due
  BY SMT, <1>2, <1>3, StagesAssumption DEF CanAdvanceStage, IsCompletion, Schedules, Active
<1>5. ops' \in Nat /\ wanted' \in Seq(Envs) /\ rolledBack' \in Envs \cup {NoEnv}
  BY <1>2, SharedHolds DEF Shared
<1>6. "advance" \in Labels /\ "advance" # "submit"
  BY DEF Labels
<1>7. /\ TypeInv'
      /\ pc[r] = "idle" /\ pc'[r] = "advance" /\ now'[r] = clock + 1 /\ schedules'[r] = d
      /\ OthersRest(r)
      /\ served' = served \cup {r} /\ r \in served'
      /\ UNCHANGED <<row, rollout, due, reached, appliedAt, saveLost, strayed>>
  BY <1>2, <1>3, <1>4, <1>5, <1>6, StartTypes
<1> QED BY <1>2, <1>4, <1>7 DEF d

LEMMA TriggerTypes ==
    ASSUME TypeInv, NEW r \in Replicas, TriggerHealthRollback(r)
    PROVE  /\ TypeInv'
           /\ pc[r] = "idle" /\ pc'[r] = "rollback" /\ now'[r] = clock + 1
           /\ schedules'[r] = Resolved(r) /\ Resolved(r).status # "NONE"
           /\ OthersRest(r)
           /\ served' = served \cup {r} /\ r \in served' /\ rolledBack' = rolledBack
           /\ UNCHANGED <<row, rollout, due, reached, appliedAt, saveLost, strayed>>
<1> DEFINE d == Resolved(r)
<1>1. d \in {schedules[r], row}
  BY DEF Resolved
<1>2. d.status # "NONE" /\ Start(r, "rollback", d) /\ UNCHANGED <<wanted, rolledBack>>
  BY DEF TriggerHealthRollback
<1> HIDE DEF d
<1>3. d \in Schedules /\ Timed(d, clock + 1)
  BY <1>1, CopyTypes
<1>4. ops' \in Nat /\ wanted' \in Seq(Envs) /\ rolledBack' \in Envs \cup {NoEnv}
  BY SMT, <1>2, SharedHolds DEF Shared, TriggerHealthRollback, Command
<1>5. "rollback" \in Labels /\ "rollback" # "submit" /\ "rollback" # "advance"
  BY DEF Labels
<1>6. /\ TypeInv'
      /\ pc[r] = "idle" /\ pc'[r] = "rollback" /\ now'[r] = clock + 1 /\ schedules'[r] = d
      /\ OthersRest(r)
      /\ served' = served \cup {r} /\ r \in served'
      /\ UNCHANGED <<row, rollout, due, reached, appliedAt, saveLost, strayed>>
  BY <1>2, <1>3, <1>4, <1>5, StartTypes
<1> QED BY <1>2, <1>6 DEF d

LEMMA GotoTypes ==
    ASSUME TypeInv, Shared', NEW r \in Replicas, pc[r] # "idle", NEW label \in {"idle", "save"},
           Goto(r, label), NEW s \in Schedules, schedules' = [schedules EXCEPT ![r] = s],
           s.status # "NONE", Timed(s, clock), clock' = clock \/ clock' = clock + 1
    PROVE  /\ TypeInv'
           /\ pc'[r] = label /\ schedules'[r] = s
           /\ OthersRest(r)
           /\ r \in served
           /\ UNCHANGED <<due, served>>
<1>1. Moved(r, label, 0, s) /\ label \in Labels /\ label # "submit" /\ label # "advance"
      /\ due' = due /\ served' = served
  BY DEF Moved, Goto, Labels
<1>2. r \in served /\ clock \in Nat
  BY LocalTypes, SharedHolds DEF Shared
<1>3. clock <= clock' /\ 0 <= clock' /\ clock' \in Nat
  BY SMT, <1>2
<1>4. Timed(s, clock')
  <2>1. s.started \in Nat /\ s.updated \in Nat
    BY DEF Schedules
  <2> QED BY SMT, <1>2, <1>3, <2>1 DEF Timed
<1>5. 0 \in Nat
  OBVIOUS
<1> QED BY <1>1, <1>2, <1>3, <1>4, <1>5, MovedKeeps

LEMMA SameSchedule ==
    ASSUME TypeInv, NEW r \in Replicas, schedules' = schedules
    PROVE  schedules' = [schedules EXCEPT ![r] = schedules[r]]
BY DEF TypeInv, TypeOK

\* Writing a percentage: what it leaves of the state that is shared.
LEMMA RolloutTypes ==
    ASSUME TypeInv, NEW r \in Replicas, NEW env \in Envs, NEW pct \in 0..Stages,
           UpdateRollout(r, env, pct), NEW label, Goto(r, label),
           reached' \subseteq Nat \X (0..Stages), rolledBack' \in Envs \cup {NoEnv}
    PROVE  /\ Shared'
           /\ rollout' = [rollout EXCEPT ![env] = pct] /\ rollout'[env] = pct
           /\ appliedAt' \in {appliedAt, now[r]}
           /\ UNCHANGED <<row, clock, saveLost, strayed>>
<1>1. /\ rollout' = [rollout EXCEPT ![env] = pct]
      /\ appliedAt' = IF rollout[env] = pct THEN appliedAt ELSE now[r]
      /\ UNCHANGED <<driver, due, ops, served, wanted, row, clock, faults, saveLost, strayed>>
  BY DEF UpdateRollout, Goto
<1>2. Shared /\ now[r] \in Nat /\ now[r] <= clock
  BY SharedHolds, LocalTypes
<1>3. rollout' \in [Envs -> 0..Stages] /\ rollout'[env] = pct
  BY <1>1, <1>2 DEF Shared
<1>4. appliedAt' \in {appliedAt, now[r]} /\ appliedAt' \in Nat /\ appliedAt' <= clock
  BY <1>1, <1>2 DEF Shared
<1>5. Shared'
  BY <1>1, <1>2, <1>3, <1>4 DEF Shared, Timed
<1> QED BY <1>1, <1>3, <1>4, <1>5

LEMMA SubmitRolloutTypes ==
    ASSUME TypeInv, NEW r \in Replicas, SubmitRollout(r)
    PROVE  /\ TypeInv'
           /\ pc[r] = "submit" /\ pc'[r] = "save" /\ schedules' = schedules
           /\ schedules[r].idx = 0
           /\ schedules[r].started = now[r] /\ schedules[r].updated = now[r]
           /\ appliedAt' \in {appliedAt, now[r]} /\ reached \subseteq reached'
           /\ OthersRest(r) /\ r \in served
           /\ UNCHANGED <<row, due, served, saveLost, strayed, rolledBack>>
<1> DEFINE s == schedules[r]
<1>1. s \in Schedules /\ Timed(s, clock) /\ s.status # "NONE" /\ pc[r] = "submit"
  BY LocalTypes DEF SubmitRollout
<1>2. s.env \in Envs /\ s.gen \in Nat /\ TargetPercentage(0) \in 0..Stages /\ 0 \in 0..Stages
  BY SMT, <1>1, StagesAssumption DEF Schedules, TargetPercentage
<1>3. /\ UpdateRollout(r, s.env, TargetPercentage(0)) /\ Goto(r, "save")
      /\ reached' = reached \cup {<<s.gen, 0>>} /\ schedules' = schedules /\ rolledBack' = rolledBack
  BY DEF SubmitRollout
<1>4. reached' \subseteq Nat \X (0..Stages) /\ rolledBack' \in Envs \cup {NoEnv}
  BY SMT, <1>2, <1>3, SharedHolds DEF Shared
<1>5. s.idx = 0 /\ s.started = now[r] /\ s.updated = now[r]
  BY <1>1 DEF TypeInv, At
<1> HIDE DEF s
<1>6. Shared' /\ appliedAt' \in {appliedAt, now[r]} /\ UNCHANGED <<row, clock, saveLost, strayed>>
  BY <1>2, <1>3, <1>4, RolloutTypes
<1>7. schedules' = [schedules EXCEPT ![r] = s]
  BY <1>3, SameSchedule DEF s
<1>8. TypeInv' /\ pc'[r] = "save" /\ OthersRest(r) /\ r \in served /\ UNCHANGED <<due, served>>
  BY <1>1, <1>3, <1>6, <1>7, GotoTypes
<1> QED BY <1>1, <1>3, <1>5, <1>6, <1>8 DEF s

LEMMA AdvanceTypes ==
    ASSUME TypeInv, NEW r \in Replicas, Advance(r)
    PROVE  /\ TypeInv'
           /\ pc[r] = "advance" /\ pc'[r] = "save"
           /\ Active(schedules[r]) /\ schedules[r].started <= due
           /\ schedules'[r].idx = schedules[r].idx + 1 /\ schedules'[r].gen = schedules[r].gen
           /\ schedules'[r].started = now[r] /\ schedules'[r].updated = now[r]
           /\ reached' = reached \cup {<<schedules[r].gen, schedules[r].idx + 1>>}
           /\ appliedAt' \in {appliedAt, now[r]}
           /\ OthersRest(r) /\ r \in served
           /\ UNCHANGED <<row, due, served, saveLost, strayed, rolledBack>>
<1> DEFINE s == schedules[r]
           c == CommitStageAdvancement(s, now[r])
           n == s.idx + 1
<1>1. s \in Schedules /\ Timed(s, clock) /\ s.status # "NONE" /\ pc[r] = "advance" /\ now[r] \in Nat
      /\ now[r] <= clock
  BY LocalTypes DEF Advance
<1>2. Active(s) /\ s.idx + 1 < Stages /\ s.started <= due
  BY <1>1 DEF TypeInv, At
<1>3. s.env \in Envs /\ s.gen \in Nat /\ s.idx \in Nat /\ n \in 0..Stages /\ TargetPercentage(n) \in 0..Stages
  BY SMT, <1>1, <1>2, StagesAssumption DEF Schedules, TargetPercentage
<1>4. CanAdvanceStage(s, due) /\ ~IsCompletion(s)
  BY SMT, <1>2, <1>3, StagesAssumption DEF CanAdvanceStage, IsCompletion
<1>5. /\ UpdateRollout(r, s.env, TargetPercentage(n)) /\ Goto(r, "save")
      /\ reached' = reached \cup {<<s.gen, n>>} /\ rolledBack' = rolledBack
      /\ schedules' = [schedules EXCEPT ![r] = c]
  BY DEF Advance
<1>6. reached' \subseteq Nat \X (0..Stages) /\ rolledBack' \in Envs \cup {NoEnv}
  <2>1. reached \subseteq Nat \X (0..Stages) /\ rolledBack \in Envs \cup {NoEnv}
    BY SharedHolds DEF Shared
  <2>2. <<s.gen, n>> \in Nat \X (0..Stages)
    BY SMT, <1>3
  <2> HIDE DEF n
  <2> QED BY <1>5, <2>1, <2>2
<1>7. c \in Schedules /\ c.idx = n /\ c.updated = now[r] /\ c.gen = s.gen /\ c.status # "NONE"
      /\ c.started = now[r]
  BY SMT, <1>1, <1>4, CommitType
<1>8. Timed(c, clock)
  BY <1>1, <1>7 DEF Timed
<1> HIDE DEF s, c, n
<1>9. Shared' /\ appliedAt' \in {appliedAt, now[r]} /\ UNCHANGED <<row, clock, saveLost, strayed>>
  BY <1>3, <1>5, <1>6, RolloutTypes
<1>10. TypeInv' /\ pc'[r] = "save" /\ schedules'[r] = c /\ OthersRest(r) /\ r \in served
       /\ UNCHANGED <<due, served>>
  BY <1>1, <1>5, <1>7, <1>8, <1>9, GotoTypes
<1> QED BY <1>1, <1>2, <1>5, <1>7, <1>9, <1>10 DEF s, n

\* A copy whose status is changed in place.
LEMMA MarkedInPlace ==
    ASSUME TypeInv, NEW r \in Replicas, NEW x \in Statuses,
           schedules' = [schedules EXCEPT ![r].status = x, ![r].updated = now[r]]
    PROVE  \E c \in Schedules :
            /\ schedules' = [schedules EXCEPT ![r] = c]
            /\ c.status = x /\ c.updated = now[r] /\ c.idx = schedules[r].idx
            /\ c.gen = schedules[r].gen /\ Timed(c, clock)
<1> DEFINE s == schedules[r]
           c == [s EXCEPT !.status = x, !.updated = now[r]]
<1>1. s \in Schedules /\ now[r] \in Nat /\ now[r] <= clock /\ Timed(s, clock)
  BY LocalTypes
<1>2. c \in Schedules /\ c.status = x /\ c.updated = now[r] /\ c.idx = s.idx
      /\ c.gen = s.gen /\ c.started = s.started
  <2> DEFINE t == now[r]
  <2> HIDE DEF s, t
  <2>1. s \in Schedules /\ t \in Nat /\ c = [s EXCEPT !.status = x, !.updated = t]
    BY <1>1 DEF t
  <2> HIDE DEF c
  <2>2. c \in Schedules /\ c.status = x /\ c.updated = t /\ c.idx = s.idx
        /\ c.gen = s.gen /\ c.started = s.started
    BY <2>1 DEF Schedules
  <2> QED BY <2>2 DEF t
<1>3. schedules' = [schedules EXCEPT ![r] = c]
  BY DEF TypeInv, TypeOK
<1>4. Timed(c, clock)
  BY <1>1, <1>2 DEF Timed
<1> QED BY <1>2, <1>3, <1>4

LEMMA RollbackTypes ==
    ASSUME TypeInv, NEW r \in Replicas, Rollback(r)
    PROVE  /\ TypeInv'
           /\ pc[r] = "rollback" /\ pc'[r] = "save"
           /\ schedules'[r].status = "ROLLED_BACK" /\ schedules'[r].updated = now[r]
           /\ schedules'[r].idx = schedules[r].idx /\ schedules'[r].gen = schedules[r].gen
           /\ rollout'[rolledBack'] = 0
           /\ OthersRest(r) /\ r \in served
           /\ UNCHANGED <<row, due, served, saveLost, strayed, reached>>
<1> DEFINE env == schedules[r].env
<1>1. "ROLLED_BACK" \in Statuses /\ env \in Envs /\ 0 \in 0..Stages /\ pc[r] = "rollback"
  BY SMT, LocalTypes, StagesAssumption DEF Statuses, Schedules, Rollback
<1>2. /\ UpdateRollout(r, env, 0) /\ Goto(r, "save") /\ reached' = reached /\ rolledBack' = env
      /\ schedules' = [schedules EXCEPT ![r].status = "ROLLED_BACK", ![r].updated = now[r]]
  BY DEF Rollback
<1>3. PICK c \in Schedules :
            /\ schedules' = [schedules EXCEPT ![r] = c]
            /\ c.status = "ROLLED_BACK" /\ c.updated = now[r] /\ c.idx = schedules[r].idx
            /\ c.gen = schedules[r].gen /\ Timed(c, clock)
  BY <1>1, <1>2, MarkedInPlace
<1>4. reached' \subseteq Nat \X (0..Stages) /\ rolledBack' \in Envs \cup {NoEnv}
  BY <1>1, <1>2, SharedHolds DEF Shared
<1> HIDE DEF env
<1>5. Shared' /\ rollout'[env] = 0 /\ UNCHANGED <<row, clock, saveLost, strayed>>
  BY <1>1, <1>2, <1>4, RolloutTypes
<1>6. c.status # "NONE" /\ pc[r] # "idle"
  BY <1>1, <1>3
<1>7. TypeInv' /\ pc'[r] = "save" /\ schedules'[r] = c /\ OthersRest(r) /\ r \in served
      /\ UNCHANGED <<due, served>>
  BY <1>2, <1>3, <1>5, <1>6, GotoTypes
<1> QED BY <1>1, <1>2, <1>3, <1>5, <1>7

\* A failed write of a percentage.
LEMMA AttentionTypes ==
    ASSUME TypeInv, NEW r \in Replicas, AdvanceFails(r) \/ RollbackFails(r)
    PROVE  /\ TypeInv'
           /\ pc[r] \in {"advance", "rollback"} /\ pc'[r] = "save"
           /\ schedules'[r].status = "NEEDS_ATTENTION" /\ schedules'[r].updated = now[r]
           /\ schedules'[r].idx = schedules[r].idx /\ schedules'[r].gen = schedules[r].gen
           /\ OthersRest(r) /\ r \in served
           /\ UNCHANGED <<row, rollout, due, served, saveLost, strayed, reached, appliedAt, rolledBack>>
<1>1. "NEEDS_ATTENTION" \in Statuses /\ pc[r] \in {"advance", "rollback"}
  BY DEF Statuses, AdvanceFails, RollbackFails
<1>2. /\ Goto(r, "save") /\ Fault
      /\ schedules' = [schedules EXCEPT ![r].status = "NEEDS_ATTENTION", ![r].updated = now[r]]
      /\ UNCHANGED <<row, rollout, clock, reached, appliedAt, rolledBack, saveLost, strayed>>
  BY DEF AdvanceFails, RollbackFails, NeedsAttention, store
<1>3. PICK c \in Schedules :
            /\ schedules' = [schedules EXCEPT ![r] = c]
            /\ c.status = "NEEDS_ATTENTION" /\ c.updated = now[r] /\ c.idx = schedules[r].idx
            /\ c.gen = schedules[r].gen /\ Timed(c, clock)
  BY <1>1, <1>2, MarkedInPlace
<1>4. Shared'
  BY SMT, <1>2, SharedHolds DEF Shared, Goto, Fault, Timed
<1>5. c.status # "NONE" /\ pc[r] # "idle"
  BY <1>1, <1>3
<1>6. TypeInv' /\ pc'[r] = "save" /\ schedules'[r] = c /\ OthersRest(r) /\ r \in served
      /\ UNCHANGED <<due, served>>
  BY <1>2, <1>3, <1>4, <1>5, GotoTypes
<1> QED BY <1>1, <1>2, <1>3, <1>6

\* A failed first write, and a failed save.
LEMMA GiveUpTypes ==
    ASSUME TypeInv, NEW r \in Replicas, SubmitFails(r) \/ SaveFails(r)
    PROVE  /\ TypeInv'
           /\ \/ pc[r] = "submit" /\ saveLost' = saveLost
              \/ pc[r] = "save" /\ saveLost' = TRUE
           /\ pc'[r] = "idle" /\ schedules' = schedules
           /\ OthersRest(r) /\ r \in served
           /\ UNCHANGED <<row, rollout, due, served, strayed, reached, appliedAt, rolledBack>>
<1>1. \/ pc[r] = "submit" /\ saveLost' = saveLost
      \/ pc[r] = "save" /\ saveLost' = TRUE
  BY DEF SubmitFails, SaveFails
<1>2. /\ Goto(r, "idle") /\ Fault /\ schedules' = schedules
      /\ UNCHANGED <<row, rollout, clock, reached, appliedAt, rolledBack, strayed>>
  BY DEF SubmitFails, SaveFails, store
<1>3. Shared'
  <2>1. saveLost' \in BOOLEAN
    BY <1>1, SharedHolds DEF Shared
  <2> QED BY SMT, <1>2, <2>1, SharedHolds DEF Shared, Goto, Fault, Timed
<1> DEFINE s == schedules[r]
<1>4. s \in Schedules /\ Timed(s, clock) /\ s.status # "NONE" /\ pc[r] # "idle"
  BY <1>1, LocalTypes
<1>5. schedules' = [schedules EXCEPT ![r] = s]
  BY <1>2, SameSchedule
<1> HIDE DEF s
<1>6. TypeInv' /\ pc'[r] = "idle" /\ OthersRest(r) /\ r \in served /\ UNCHANGED <<due, served>>
  BY <1>2, <1>3, <1>4, <1>5, GotoTypes
<1> QED BY <1>1, <1>2, <1>6

LEMMA SaveTypes ==
    ASSUME TypeInv, NEW r \in Replicas, Save(r)
    PROVE  /\ TypeInv'
           /\ pc[r] = "save" /\ pc'[r] = "idle" /\ schedules' = schedules
           /\ row'.status = schedules[r].status /\ row'.idx = schedules[r].idx
           /\ row'.started = schedules[r].started /\ row'.gen = schedules[r].gen
           /\ OthersRest(r) /\ r \in served
           /\ UNCHANGED <<rollout, due, served, saveLost, strayed, reached, appliedAt, rolledBack>>
<1> DEFINE s == schedules[r]
           t == clock + 1
<1>1. s \in Schedules /\ Timed(s, clock) /\ s.status # "NONE" /\ pc[r] = "save" /\ r \in served
  BY LocalTypes DEF Save
<1>2. Shared /\ driver \in {"memory", "sqlite", "postgres"} /\ t \in Nat /\ clock <= t
  <2>1. Shared
    BY SharedHolds
  <2>2. driver \in {"memory", "sqlite", "postgres"}
    BY <2>1, ReplicasAssumption DEF Shared
  <2>3. t \in Nat /\ clock <= t
    BY SMT, <2>1 DEF Shared
  <2> QED BY <2>1, <2>2, <2>3
<1>3. /\ clock' = t /\ row' = SaveCanarySchedule(driver, row, s, t) /\ Goto(r, "idle")
      /\ UNCHANGED <<rollout, schedules, faults, reached, appliedAt, rolledBack, saveLost, strayed>>
  BY DEF Save
<1>4. /\ row' \in Schedules /\ row'.status = s.status /\ row'.idx = s.idx
      /\ row'.started = s.started /\ row'.gen = s.gen /\ row'.updated <= t
  <2>1. row \in Schedules
    BY <1>2 DEF Shared
  <2> DEFINE c == SaveCanarySchedule(driver, row, s, t)
  <2>2. /\ c \in Schedules /\ c.status = s.status /\ c.idx = s.idx
        /\ c.started = s.started /\ c.gen = s.gen /\ c.updated <= t
    BY <1>1, <1>2, <2>1, SavedType
  <2> HIDE DEF s, t
  <2> QED BY <1>3, <2>2
<1>5. Timed(row', t)
  <2>1. s.started \in Nat /\ s.started <= clock /\ clock \in Nat
    BY <1>1, <1>2 DEF Schedules, Timed, Shared
  <2> QED BY SMT, <1>2, <1>4, <2>1 DEF Timed
<1>6. schedules' = [schedules EXCEPT ![r] = s]
  BY <1>3, SameSchedule
<1>7. due \in 0..t /\ appliedAt <= t
  BY SMT, <1>2 DEF Shared
<1>8. clock' = clock + 1
  BY <1>3
<1> HIDE DEF s, t
<1>9. Shared'
  BY <1>1, <1>2, <1>3, <1>4, <1>5, <1>7 DEF Shared, Goto, Timed
<1>10. TypeInv' /\ pc'[r] = "idle" /\ OthersRest(r) /\ UNCHANGED <<due, served>>
  BY <1>1, <1>3, <1>6, <1>8, <1>9, GotoTypes
<1> QED BY <1>1, <1>3, <1>4, <1>10 DEF s

\* A copy is taken from the store, and nothing else happens.
LEMMA TakeTypes ==
    ASSUME TypeInv, NEW r \in Replicas, EvaluateSync(r) \/ GetSchedule(r)
    PROVE  /\ TypeInv'
           /\ pc[r] = "idle" /\ pc'[r] = "idle" /\ schedules'[r] = row
           /\ schedules[r].status = "NONE" \/ Taken(r)
           /\ row.status # "NONE"
           /\ OthersRest(r)
           /\ served' = served \cup {r} /\ r \in served' /\ rolledBack' = rolledBack
           /\ UNCHANGED <<row, rollout, due, reached, appliedAt, saveLost, strayed>>
<1>1. /\ schedules' = [schedules EXCEPT ![r] = row] /\ row.status # "NONE"
      /\ schedules[r].status = "NONE" \/ Taken(r)
  BY CopyIs DEF EvaluateSync, GetSchedule, Resolved, Taken, Active
<1>2. /\ pc[r] = "idle" /\ served' = served \cup {r}
      /\ UNCHANGED <<driver, row, rollout, pc, now, clock, due, ops, faults, wanted, reached,
                     appliedAt, rolledBack, saveLost, strayed>>
  BY DEF EvaluateSync, GetSchedule, store, times
<1>3. Moved(r, "idle", now[r], row)
  BY <1>1, <1>2 DEF TypeInv, TypeOK, Moved
<1>4. Shared /\ Shared' /\ clock <= clock'
  BY SMT, <1>2, SharedHolds DEF Shared, Timed
<1>5. now[r] \in Nat /\ now[r] <= clock /\ row \in Schedules /\ Timed(row, clock') /\ "idle" \in Labels
      /\ now[r] <= clock'
  BY <1>2, <1>4, LocalTypes DEF Shared, Labels
<1>6. TypeInv' /\ pc'[r] = "idle" /\ schedules'[r] = row /\ OthersRest(r)
  <2>1. r \in served' /\ due' = due
    BY <1>2
  <2> QED BY <1>2, <1>3, <1>4, <1>5, <2>1, MovedKeeps
<1> QED BY <1>1, <1>2, <1>6

LEMMA CancelTypes ==
    ASSUME TypeInv, NEW r \in Replicas, NEW deleted \in BOOLEAN, CancelSchedule(r, deleted)
    PROVE  /\ TypeInv'
           /\ pc[r] = "idle" /\ pc'[r] = "idle" /\ schedules'[r] = NoSchedule
           /\ schedules[r].status # "NONE" \/ row.status # "NONE"
           /\ \/ row' = NoSchedule /\ strayed' = strayed
              \/ row' = row /\ strayed' = (strayed \/ saveLost)
           /\ OthersRest(r)
           /\ served' = served \cup {r} /\ r \in served' /\ rolledBack' = rolledBack
           /\ UNCHANGED <<rollout, due, reached, appliedAt, saveLost>>
<1>1. /\ schedules' = [schedules EXCEPT ![r] = NoSchedule] /\ pc[r] = "idle"
      /\ schedules[r].status # "NONE" \/ row.status # "NONE"
      /\ served' = served \cup {r}
      /\ \/ row' = NoSchedule /\ strayed' = strayed /\ faults' = faults
         \/ row' = row /\ strayed' = (strayed \/ saveLost) /\ faults' = faults + 1
      /\ ops' = ops + 1
      /\ UNCHANGED <<driver, rollout, pc, now, clock, due, wanted, reached, appliedAt,
                     rolledBack, saveLost>>
  BY DEF CancelSchedule, times, Command, Fault
<1>2. Moved(r, "idle", now[r], NoSchedule)
  BY <1>1 DEF TypeInv, TypeOK, Moved
<1>3. Shared /\ NoSchedule \in Schedules /\ Timed(NoSchedule, clock)
  <2>1. clock \in Nat
    BY SharedHolds DEF Shared
  <2> QED BY SMT, <2>1, SharedHolds, NoScheduleType DEF Timed
<1>4. strayed' \in BOOLEAN /\ row' \in Schedules /\ Timed(row', clock) /\ faults' \in Nat
  <2>1. CASE row' = NoSchedule /\ strayed' = strayed /\ faults' = faults
    BY <1>3, <2>1 DEF Shared
  <2>2. CASE row' = row /\ strayed' = (strayed \/ saveLost) /\ faults' = faults + 1
    BY SMT, <1>3, <2>2 DEF Shared
  <2> QED BY <1>1, <2>1, <2>2
<1>5. Shared' /\ clock <= clock'
  BY SMT, <1>1, <1>3, <1>4 DEF Shared, Timed
<1>6. now[r] \in Nat /\ now[r] <= clock' /\ Timed(NoSchedule, clock') /\ "idle" \in Labels
  BY <1>1, <1>3, LocalTypes DEF Labels
<1>7. TypeInv' /\ pc'[r] = "idle" /\ schedules'[r] = NoSchedule /\ OthersRest(r)
  <2>1. r \in served' /\ due' = due
    BY <1>1
  <2> QED BY <1>1, <1>2, <1>3, <1>5, <1>6, <2>1, MovedKeeps
<1> QED BY <1>1, <1>7

LEMMA CrashTypes ==
    ASSUME TypeInv, NEW r \in Replicas, Crash(r)
    PROVE  /\ TypeInv'
           /\ pc'[r] = "idle" /\ schedules'[r] = NoSchedule
           /\ OthersRest(r)
           /\ saveLost' = (saveLost \/ pc[r] = "save")
           /\ strayed' = (strayed \/ saveLost \/ pc[r] = "save")
           /\ UNCHANGED <<row, rollout, due, served, reached, appliedAt, rolledBack>>
<1>1. /\ Moved(r, "idle", 0, NoSchedule)
      /\ saveLost' = (saveLost \/ pc[r] = "save")
      /\ strayed' = (strayed \/ saveLost \/ pc[r] = "save")
      /\ faults' = faults + 1
      /\ UNCHANGED <<driver, row, rollout, clock, due, ops, wanted, reached, appliedAt, served,
                     rolledBack>>
  BY DEF Crash, Moved, Fault, store, times
<1>2. Shared /\ NoSchedule \in Schedules /\ Timed(NoSchedule, clock) /\ clock \in Nat
  <2>1. clock \in Nat
    BY SharedHolds DEF Shared
  <2> QED BY SMT, <2>1, SharedHolds, NoScheduleType DEF Timed
<1>3. saveLost' \in BOOLEAN /\ strayed' \in BOOLEAN
  BY <1>1
<1>4. Shared' /\ clock <= clock' /\ 0 <= clock' /\ 0 \in Nat /\ Timed(NoSchedule, clock')
      /\ "idle" \in Labels
  BY SMT, <1>1, <1>2, <1>3 DEF Shared, Timed, Labels
<1>5. TypeInv' /\ pc'[r] = "idle" /\ schedules'[r] = NoSchedule /\ OthersRest(r)
  BY <1>1, <1>2, <1>4, MovedKeeps
<1> QED BY <1>1, <1>5

LEMMA ElapseTypes ==
    ASSUME TypeInv, Elapse
    PROVE  TypeInv' /\ due <= due' /\ UNCHANGED <<store, schedules, pc, now, history>>
<1>1. PICK s \in {row} \cup { schedules[r] : r \in Replicas } : s.started > due /\ due' = s.started
  BY DEF Elapse
<1>2. UNCHANGED <<driver, store, schedules, pc, now, clock, ops, faults, history>>
  BY DEF Elapse
<1>3. s \in Schedules /\ s.started <= clock
  BY <1>1 DEF TypeInv, TypeOK, At, Timed
<1>4. due \in Nat /\ clock \in Nat /\ due' \in 0..clock /\ due <= due'
  <2>1. due \in 0..clock /\ clock \in Nat /\ s.started \in Nat
    BY <1>3 DEF TypeInv, TypeOK, Schedules
  <2> QED BY SMT, <1>1, <1>3, <2>1
<1>5. TypeOK'
  BY <1>2, <1>4 DEF TypeInv, TypeOK, store, history
<1>6. ASSUME NEW r \in Replicas PROVE At(r)'
  <2>1. At(r) /\ schedules[r].started \in Nat
    BY DEF TypeInv, TypeOK, Schedules
  <2>2. schedules[r].started <= due => schedules[r].started <= due'
    BY SMT, <1>4, <2>1
  <2> QED BY <1>2, <2>1, <2>2 DEF At, history, Timed
<1> QED BY <1>2, <1>4, <1>5, <1>6 DEF TypeInv, store, history, Timed

LEMMA InitTypes == Init => TypeInv
<1> SUFFICES ASSUME Init PROVE TypeInv
  OBVIOUS
<1>1. /\ row = NoSchedule /\ clock = 1 /\ due = 0 /\ appliedAt = 0 /\ served = {}
      /\ \A r \in Replicas : schedules[r] = NoSchedule /\ pc[r] = "idle" /\ now[r] = 0
  BY DEF Init
<1>2. Timed(NoSchedule, 1)
  BY SMT, NoScheduleType DEF Timed
<1>3. TypeOK
  <2>1. row \in Schedules /\ schedules \in [Replicas -> Schedules]
    BY NoScheduleType DEF Init
  <2>2. rollout \in [Envs -> 0..Stages] /\ wanted \in Seq(Envs) /\ due \in 0..clock
    BY SMT, StagesAssumption DEF Init
  <2> QED BY <2>1, <2>2 DEF Init, TypeOK
<1>4. \A r \in Replicas : At(r)
  BY SMT, <1>1, <1>2 DEF At
<1> QED BY SMT, <1>1, <1>2, <1>3, <1>4 DEF TypeInv

LEMMA TypeStep ==
    ASSUME TypeInv, [Next]_vars
    PROVE  TypeInv'
<1>1. CASE UNCHANGED vars
  BY <1>1 DEF vars, store, times, history, TypeInv, TypeOK, At, Timed
<1>2. ASSUME NEW r \in Replicas, Continue(r) \/ Fails(r)
      PROVE  TypeInv'
  BY <1>2, SubmitRolloutTypes, AdvanceTypes, RollbackTypes, SaveTypes, GiveUpTypes,
     AttentionTypes, CrashTypes DEF Continue, Fails
<1>3. ASSUME NEW r \in Replicas,
             \/ \E env \in Envs : SubmitSchedule(r, env)
             \/ GetSchedule(r) \/ TriggerHealthRollback(r)
             \/ \E deleted \in BOOLEAN : CancelSchedule(r, deleted)
             \/ Evaluate(r)
      PROVE  TypeInv'
  BY <1>3, SubmitTypes, TakeTypes, TriggerTypes, CancelTypes, CompleteTypes,
     AdvanceStartTypes DEF Evaluate
<1> QED BY <1>1, <1>2, <1>3, ElapseTypes DEF Next

-----------------------------------------------------------------------------
(* Stages and percentages.                                                 *)

AppliedIn(s, R) == \A i \in 1..(Stages - 1) : i <= s.idx => <<s.gen, i>> \in R

LEMMA AppliedMeans ==
    StageWasApplied <=>
        AppliedIn(row, reached) /\ \A r \in Replicas : AppliedIn(schedules[r], reached)
BY DEF StageWasApplied, AppliedIn

LEMMA AppliedKeeps ==
    ASSUME StageWasApplied, NEW r \in Replicas, OthersRest(r), reached \subseteq reached',
           AppliedIn(row', reached'), AppliedIn(schedules'[r], reached')
    PROVE  StageWasApplied'
<1>1. \A q \in Replicas \ {r} : AppliedIn(schedules'[q], reached')
  BY DEF OthersRest, AppliedIn, StageWasApplied
<1>2. \A q \in Replicas : AppliedIn(schedules'[q], reached')
  BY <1>1
<1> QED BY <1>2 DEF AppliedIn, StageWasApplied

\* Copies of what was there.
LEMMA AppliedCopy ==
    ASSUME StageWasApplied, NEW r \in Replicas, OthersRest(r), reached \subseteq reached',
           NEW s \in {row, schedules[r], NoSchedule}, NEW t \in {row, schedules[r], NoSchedule},
           schedules'[r].idx = s.idx, schedules'[r].gen = s.gen,
           row'.idx = t.idx, row'.gen = t.gen
    PROVE  StageWasApplied'
<1>1. AppliedIn(NoSchedule, reached)
  BY SMT, NoScheduleType, StagesAssumption DEF AppliedIn
<1>2. AppliedIn(s, reached) /\ AppliedIn(t, reached)
  BY <1>1, AppliedMeans
<1>3. AppliedIn(row', reached') /\ AppliedIn(schedules'[r], reached')
  BY <1>2 DEF AppliedIn
<1> QED BY <1>3, AppliedKeeps

LEMMA AppliedStep ==
    ASSUME TypeInv, StageWasApplied, [Next]_vars
    PROVE  StageWasApplied'
<1>1. CASE UNCHANGED vars
  BY <1>1 DEF vars, store, history, StageWasApplied
<1>2. CASE Elapse
  BY <1>2, ElapseTypes DEF store, history, StageWasApplied
<1>3. ASSUME NEW r \in Replicas, SubmitRollout(r) \/ Fails(r) \/ Rollback(r) \/ Save(r)
      PROVE  StageWasApplied'
  <2>1. CASE SubmitRollout(r)
    BY <2>1, SubmitRolloutTypes, AppliedCopy
  <2>2. CASE SubmitFails(r) \/ SaveFails(r)
    BY <2>2, GiveUpTypes, AppliedCopy
  <2>3. CASE AdvanceFails(r) \/ RollbackFails(r)
    BY <2>3, AttentionTypes, AppliedCopy
  <2>4. CASE Crash(r)
    BY <2>4, CrashTypes, AppliedCopy
  <2>5. CASE Rollback(r)
    BY <2>5, RollbackTypes, AppliedCopy
  <2>6. CASE Save(r)
    BY <2>6, SaveTypes, AppliedCopy
  <2> QED BY <1>3, <2>1, <2>2, <2>3, <2>4, <2>5, <2>6 DEF Fails
<1>4. ASSUME NEW r \in Replicas, Advance(r)
      PROVE  StageWasApplied'
  <2> DEFINE s == schedules[r]
  <2>1. /\ OthersRest(r) /\ row' = row
        /\ schedules'[r].idx = s.idx + 1 /\ schedules'[r].gen = s.gen
        /\ reached' = reached \cup {<<s.gen, s.idx + 1>>}
    BY <1>4, AdvanceTypes
  <2>2. s.idx \in Nat /\ AppliedIn(s, reached) /\ AppliedIn(row, reached)
    BY SMT, LocalTypes, AppliedMeans DEF Schedules
  <2>3. AppliedIn(row', reached') /\ reached \subseteq reached'
    BY <2>1, <2>2 DEF AppliedIn
  <2>4. AppliedIn(schedules'[r], reached')
    <3> SUFFICES ASSUME NEW i \in 1..(Stages - 1), i <= s.idx + 1
                 PROVE  <<s.gen, i>> \in reached'
      BY <2>1 DEF AppliedIn
    <3>1. CASE i = s.idx + 1
      BY <2>1, <3>1
    <3>2. CASE i # s.idx + 1
      BY SMT, <2>1, <2>2, <3>2, StagesAssumption DEF AppliedIn
    <3> QED BY <3>1, <3>2
  <2> QED BY <2>1, <2>3, <2>4, AppliedKeeps
<1>5. ASSUME NEW r \in Replicas, EvaluateComplete(r)
      PROVE  StageWasApplied'
  <2> DEFINE d == Copy(r)
  <2>1. /\ OthersRest(r) /\ row' = row /\ reached' = reached
        /\ d.idx + 1 = Stages /\ schedules'[r].gen = d.gen
    BY <1>5, CompleteTypes
  <2>2. d \in {schedules[r], row} /\ AppliedIn(row, reached)
    BY CopyIs, AppliedMeans
  <2>3. AppliedIn(d, reached) /\ d \in Schedules
    BY <2>2, AppliedMeans, CopyTypes
  <2>4. d.idx \in Nat
    BY SMT, <2>3 DEF Schedules
  <2> HIDE DEF d
  <2>5. AppliedIn(schedules'[r], reached')
    <3> SUFFICES ASSUME NEW i \in 1..(Stages - 1) PROVE <<d.gen, i>> \in reached
      BY <2>1 DEF AppliedIn
    <3> QED BY SMT, <2>1, <2>3, <2>4, StagesAssumption DEF AppliedIn
  <2> QED BY <2>1, <2>2, <2>5, AppliedKeeps
<1>6. ASSUME NEW r \in Replicas, EvaluateSync(r) \/ GetSchedule(r)
      PROVE  StageWasApplied'
  BY <1>6, TakeTypes, AppliedCopy
<1>7. ASSUME NEW r \in Replicas, EvaluateAdvance(r)
      PROVE  StageWasApplied'
  BY <1>7, AdvanceStartTypes, CopyIs, AppliedCopy
<1>8. ASSUME NEW r \in Replicas, TriggerHealthRollback(r)
      PROVE  StageWasApplied'
  BY <1>8, TriggerTypes, AppliedCopy DEF Resolved
<1>9. ASSUME NEW r \in Replicas, NEW deleted \in BOOLEAN, CancelSchedule(r, deleted)
      PROVE  StageWasApplied'
  BY <1>9, CancelTypes, AppliedCopy
<1>10. ASSUME NEW r \in Replicas, NEW env \in Envs, SubmitSchedule(r, env)
       PROVE  StageWasApplied'
  <2>1. OthersRest(r) /\ row' = row /\ reached' = reached /\ schedules'[r].idx = 0
    BY <1>10, SubmitTypes
  <2>2. AppliedIn(schedules'[r], reached')
    BY SMT, <2>1, StagesAssumption DEF AppliedIn
  <2>3. AppliedIn(row', reached')
    BY <2>1, AppliedMeans
  <2> QED BY <2>1, <2>2, <2>3, AppliedKeeps
<1> QED BY <1>1, <1>2, <1>3, <1>4, <1>5, <1>6, <1>7, <1>8, <1>9, <1>10 DEF Next, Continue, Evaluate

LEMMA TypesThroughout == Spec => []TypeInv
<1>1. TypeInv /\ [Next]_vars => TypeInv'
  BY TypeStep
<1> QED BY <1>1, InitTypes, PTL DEF Spec

\* A schedule is never ahead of its flag (StageWasApplied): EvaluateSchedules
\* moves a schedule to a stage only when the percentage of that stage was
\* written, for any number of replicas that evaluate it at the same time, and
\* through failed calls, crashes and takeovers from the store.
THEOREM StagesAreApplied == Spec => []StageWasApplied
<1>1. Init => StageWasApplied
  BY SMT, NoScheduleType, StagesAssumption DEF Init, StageWasApplied
<1>2. TypeInv /\ StageWasApplied /\ [Next]_vars => StageWasApplied'
  BY AppliedStep
<1> QED BY <1>1, <1>2, TypesThroughout, PTL DEF Spec

-----------------------------------------------------------------------------
(* A replica that is alone.                                                *)

LEMMA TimeTypes ==
    ASSUME TypeInv, NEW r \in Replicas
    PROVE  /\ row.updated \in Nat /\ row.started \in Nat /\ clock \in Nat /\ appliedAt \in Nat
           /\ schedules[r].updated \in Nat /\ schedules[r].started \in Nat /\ now[r] \in Nat
           /\ row.updated <= clock /\ appliedAt <= clock /\ now[r] <= clock
BY SharedHolds, LocalTypes DEF Shared, Schedules, Timed

LEMMA NoneIsNotActive == \A s : Active(s) => s.status # "NONE"
BY DEF Active

\* What is known of r before a step after which it is alone.
LEMMA SoleBefore ==
    ASSUME TypeInv, SoleInv, NEW r \in Replicas, Alone', r \in served',
           served' = served \/ served' = served \cup {r}, strayed => strayed'
    PROVE  /\ UpToDate(r)
           /\ rolledBack # NoEnv => rollout[rolledBack] = 0 /\ StaysBack(r)
<1>1. Alone
  BY DEF Alone
<1>2. CASE r \in served
  BY <1>1, <1>2 DEF SoleInv
<1>3. CASE r \notin served
  <2>1. served = {}
    BY <1>3 DEF Alone
  <2>2. row = NoSchedule /\ pc[r] = "idle" /\ schedules[r] = NoSchedule
    BY <1>3, <2>1, LocalTypes, SharedHolds DEF Shared
  <2>3. rolledBack = NoEnv
    BY <1>1, <2>1 DEF SoleInv
  <2> QED BY <2>2, <2>3, NoScheduleType DEF UpToDate, Active
<1> QED BY <1>2, <1>3

LEMMA SoleAfter ==
    ASSUME NEW r \in Replicas, r \in served',
           Alone' => UpToDate(r)',
           Alone' /\ rolledBack' # NoEnv => rollout'[rolledBack'] = 0 /\ StaysBack(r)'
    PROVE  SoleInv'
<1> SUFFICES ASSUME Alone'
             PROVE  /\ \A q \in served' : UpToDate(q)'
                    /\ rolledBack' # NoEnv =>
                        /\ rollout'[rolledBack'] = 0 /\ served' # {}
                        /\ \A q \in served' : StaysBack(q)'
  BY DEF SoleInv
<1>1. \A q \in served' : q = r
  BY DEF Alone
<1> QED BY <1>1

LEMMA SoleSubmit ==
    ASSUME TypeInv, SoleInv, NEW r \in Replicas, NEW env \in Envs, SubmitSchedule(r, env)
    PROVE  SoleInv'
<1>1. /\ pc[r] = "idle" /\ pc'[r] = "submit" /\ now'[r] = clock + 1
      /\ Active(schedules'[r]) /\ schedules'[r].status # "NONE"
      /\ schedules'[r].started = clock + 1 /\ schedules'[r].updated = clock + 1
      /\ served' = served \cup {r} /\ r \in served' /\ rolledBack' = NoEnv
      /\ UNCHANGED <<row, appliedAt, saveLost, strayed>>
  BY SubmitTypes
<1>2. ASSUME Alone' PROVE UpToDate(r)'
  <2>1. UpToDate(r)
    BY <1>1, <1>2, SoleBefore
  <2>2. row.updated <= clock + 1 /\ appliedAt <= clock + 1
    BY SMT, TimeTypes
  <2> QED BY <1>1, <2>1, <2>2 DEF UpToDate
<1> QED BY <1>1, <1>2, SoleAfter

\* After a rollback no evaluation finds a schedule that is ACTIVE.
LEMMA NothingToTake ==
    ASSUME TypeInv, NEW r \in Replicas, StaysBack(r)
    PROVE  ~Taken(r) /\ ~Active(Copy(r))
<1>1. ~Taken(r)
  BY SMT, TimeTypes DEF StaysBack, Taken
<1> QED BY <1>1, CopyIs DEF StaysBack

\* The row an evaluation takes is up to date.
LEMMA TakenIsFresh ==
    ASSUME TypeInv, NEW r \in Replicas, UpToDate(r), pc[r] = "idle", Active(row),
           schedules[r].status = "NONE" \/ Taken(r)
    PROVE  appliedAt <= row.started
BY SMT, TimeTypes DEF UpToDate, Taken

LEMMA SoleComplete ==
    ASSUME TypeInv, SoleInv, NEW r \in Replicas, EvaluateComplete(r)
    PROVE  SoleInv'
<1>1. /\ pc[r] = "idle" /\ pc'[r] = "save" /\ Active(Copy(r))
      /\ ~Active(schedules'[r]) /\ schedules'[r].updated = clock + 1
      /\ served' = served \cup {r} /\ r \in served' /\ rolledBack' = rolledBack
      /\ UNCHANGED <<row, appliedAt, saveLost, strayed>>
  BY CompleteTypes
<1>2. ASSUME Alone' PROVE UpToDate(r)' /\ rolledBack' = NoEnv
  <2>1. rolledBack # NoEnv => StaysBack(r)
    BY <1>1, <1>2, SoleBefore
  <2>2. row.updated <= clock + 1
    BY SMT, TimeTypes
  <2> QED BY <1>1, <2>1, <2>2, NothingToTake DEF UpToDate
<1> QED BY <1>1, <1>2, SoleAfter

LEMMA SoleAdvanceStart ==
    ASSUME TypeInv, SoleInv, NEW r \in Replicas, EvaluateAdvance(r)
    PROVE  SoleInv'
<1>1. /\ pc[r] = "idle" /\ pc'[r] = "advance" /\ now'[r] = clock + 1
      /\ Active(Copy(r)) /\ schedules'[r] = Copy(r)
      /\ served' = served \cup {r} /\ r \in served' /\ rolledBack' = rolledBack
      /\ UNCHANGED <<row, appliedAt, saveLost, strayed>>
  BY AdvanceStartTypes
<1>2. ASSUME Alone' PROVE UpToDate(r)' /\ rolledBack' = NoEnv
  <2>1. UpToDate(r) /\ (rolledBack # NoEnv => StaysBack(r))
    BY <1>1, <1>2, SoleBefore
  <2>2. row.updated <= clock + 1 /\ appliedAt <= clock + 1
    BY SMT, TimeTypes
  <2>3. rolledBack' = NoEnv
    BY <1>1, <2>1, NothingToTake
  <2>4. CASE Taken(r)
    <3>1. Copy(r) = row /\ Active(row) /\ appliedAt <= row.started
      BY <1>1, <2>1, <2>4, CopyIs, TakenIsFresh DEF Taken
    <3> QED BY <1>1, <2>1, <2>2, <2>3, <3>1 DEF UpToDate
  <2>5. CASE ~Taken(r)
    <3>1. Copy(r) = schedules[r]
      BY <2>5, CopyIs
    <3> QED BY <1>1, <2>1, <2>2, <2>3, <3>1 DEF UpToDate
  <2> QED BY <2>4, <2>5
<1> QED BY <1>1, <1>2, SoleAfter

LEMMA SoleTake ==
    ASSUME TypeInv, SoleInv, NEW r \in Replicas, EvaluateSync(r) \/ GetSchedule(r)
    PROVE  SoleInv'
<1>1. /\ pc[r] = "idle" /\ pc'[r] = "idle" /\ schedules'[r] = row
      /\ schedules[r].status = "NONE" \/ Taken(r)
      /\ row.status # "NONE"
      /\ served' = served \cup {r} /\ r \in served' /\ rolledBack' = rolledBack
      /\ UNCHANGED <<row, rollout, appliedAt, saveLost, strayed>>
  BY TakeTypes
<1>2. ASSUME Alone' PROVE UpToDate(r)'
  <2>1. UpToDate(r)
    BY <1>1, <1>2, SoleBefore
  <2>2. Active(row) => appliedAt <= row.started
    BY <1>1, <2>1, TakenIsFresh
  <2> QED BY <1>1, <2>2 DEF UpToDate
<1>3. ASSUME Alone', rolledBack' # NoEnv
      PROVE  rollout'[rolledBack'] = 0 /\ StaysBack(r)'
  <2>1. rollout[rolledBack] = 0 /\ StaysBack(r)
    BY <1>1, <1>3, SoleBefore
  <2>2. ~Active(row)
    BY <1>1, <2>1, NothingToTake DEF StaysBack
  <2> QED BY <1>1, <2>1, <2>2 DEF StaysBack
<1> QED BY <1>1, <1>2, <1>3, SoleAfter

LEMMA SoleTrigger ==
    ASSUME TypeInv, SoleInv, NEW r \in Replicas, TriggerHealthRollback(r)
    PROVE  SoleInv'
<1>1. /\ pc[r] = "idle" /\ pc'[r] = "rollback" /\ now'[r] = clock + 1
      /\ schedules'[r] = Resolved(r) /\ Resolved(r).status # "NONE"
      /\ served' = served \cup {r} /\ r \in served' /\ rolledBack' = rolledBack
      /\ UNCHANGED <<row, rollout, appliedAt, saveLost, strayed>>
  BY TriggerTypes
<1>2. row.updated <= clock + 1 /\ appliedAt <= clock + 1 /\ row.updated <= row.updated
  BY SMT, TimeTypes
<1>3. ASSUME Alone' PROVE UpToDate(r)'
  <2>1. UpToDate(r)
    BY <1>1, <1>3, SoleBefore
  <2>2. CASE schedules[r].status # "NONE"
    BY <1>1, <1>2, <2>1, <2>2 DEF UpToDate, Resolved
  <2>3. CASE schedules[r].status = "NONE"
    <3>1. schedules'[r] = row /\ (Active(row) => appliedAt <= row.started)
      BY <1>1, <2>1, <2>3, TakenIsFresh DEF Resolved
    <3> QED BY <1>1, <1>2, <3>1 DEF UpToDate
  <2> QED BY <2>2, <2>3
<1>4. ASSUME Alone', rolledBack' # NoEnv
      PROVE  rollout'[rolledBack'] = 0 /\ StaysBack(r)'
  <2>1. rollout[rolledBack] = 0 /\ StaysBack(r)
    BY <1>1, <1>4, SoleBefore
  <2> QED BY <1>1, <2>1 DEF StaysBack, Resolved
<1> QED BY <1>1, <1>3, <1>4, SoleAfter

\* A percentage is written: by a submission, an advancement or a rollback.
LEMMA SoleWrite ==
    ASSUME TypeInv, SoleInv, NEW r \in Replicas, SubmitRollout(r) \/ Advance(r)
    PROVE  SoleInv'
<1>1. /\ pc[r] \in {"submit", "advance"} /\ pc'[r] = "save"
      /\ schedules'[r].started = now[r] /\ schedules'[r].updated = now[r]
      /\ appliedAt' \in {appliedAt, now[r]}
      /\ r \in served /\ UNCHANGED <<row, served, strayed, rolledBack>>
  BY SubmitRolloutTypes, AdvanceTypes
<1>2. ASSUME Alone' PROVE UpToDate(r)' /\ rolledBack' = NoEnv
  <2>1. UpToDate(r) /\ (rolledBack # NoEnv => StaysBack(r))
    BY <1>1, <1>2, SoleBefore
  <2>2. rolledBack' = NoEnv
    BY <1>1, <2>1 DEF StaysBack
  <2>3. row.updated <= now[r] /\ appliedAt <= now[r] /\ now[r] <= now[r]
    BY SMT, <1>1, <2>1, TimeTypes DEF UpToDate
  <2> QED BY <1>1, <2>2, <2>3 DEF UpToDate
<1> QED BY <1>1, <1>2, SoleAfter

LEMMA SoleRollback ==
    ASSUME TypeInv, SoleInv, NEW r \in Replicas, Rollback(r)
    PROVE  SoleInv'
<1>1. /\ pc[r] = "rollback" /\ pc'[r] = "save"
      /\ schedules'[r].status = "ROLLED_BACK" /\ schedules'[r].updated = now[r]
      /\ rollout'[rolledBack'] = 0
      /\ r \in served /\ UNCHANGED <<row, served, strayed>>
  BY RollbackTypes
<1>2. ASSUME Alone' PROVE UpToDate(r)' /\ StaysBack(r)'
  <2>1. row.updated <= now[r]
    BY <1>1, <1>2, SoleBefore DEF UpToDate
  <2> QED BY <1>1, <2>1 DEF UpToDate, StaysBack, Active
<1> QED BY <1>1, <1>2, SoleAfter

LEMMA SoleAttention ==
    ASSUME TypeInv, SoleInv, NEW r \in Replicas, AdvanceFails(r) \/ RollbackFails(r)
    PROVE  SoleInv'
<1>1. /\ pc[r] \in {"advance", "rollback"} /\ pc'[r] = "save"
      /\ schedules'[r].status = "NEEDS_ATTENTION" /\ schedules'[r].updated = now[r]
      /\ r \in served /\ UNCHANGED <<row, rollout, served, saveLost, strayed, rolledBack>>
  BY AttentionTypes
<1>2. ASSUME Alone'
      PROVE  UpToDate(r)' /\ (rolledBack' # NoEnv => rollout'[rolledBack'] = 0 /\ StaysBack(r)')
  <2>1. row.updated <= now[r] /\ (rolledBack # NoEnv => rollout[rolledBack] = 0 /\ StaysBack(r))
    BY <1>1, <1>2, SoleBefore DEF UpToDate
  <2>2. UpToDate(r)'
    BY <1>1, <2>1 DEF UpToDate, Active
  <2>3. rolledBack # NoEnv => StaysBack(r)'
    BY <1>1, <2>1 DEF StaysBack, Active
  <2> QED BY <1>1, <2>1, <2>2, <2>3
<1> QED BY <1>1, <1>2, SoleAfter

LEMMA SoleGiveUp ==
    ASSUME TypeInv, SoleInv, NEW r \in Replicas, SubmitFails(r) \/ SaveFails(r)
    PROVE  SoleInv'
<1>1. /\ \/ pc[r] = "submit" /\ saveLost' = saveLost
         \/ pc[r] = "save" /\ saveLost' = TRUE
      /\ pc'[r] = "idle" /\ schedules' = schedules
      /\ r \in served /\ UNCHANGED <<row, rollout, served, strayed, appliedAt, rolledBack>>
  BY GiveUpTypes
<1>2. schedules[r].status # "NONE" /\ (pc[r] = "submit" => schedules[r].updated = now[r])
  BY <1>1, LocalTypes DEF TypeInv, At
<1>3. ASSUME Alone'
      PROVE  UpToDate(r)' /\ (rolledBack' # NoEnv => rollout'[rolledBack'] = 0 /\ StaysBack(r)')
  <2>1. UpToDate(r) /\ (rolledBack # NoEnv => rollout[rolledBack] = 0 /\ StaysBack(r))
    BY <1>1, <1>3, SoleBefore
  <2>2. row.updated <= schedules[r].updated
    BY <1>1, <1>2, <2>1 DEF UpToDate
  <2>3. UpToDate(r)'
    BY <1>1, <1>2, <2>1, <2>2 DEF UpToDate
  <2>4. rolledBack # NoEnv => StaysBack(r)'
    BY <1>1, <2>1 DEF StaysBack
  <2> QED BY <1>1, <2>1, <2>3, <2>4
<1> QED BY <1>1, <1>3, SoleAfter

LEMMA SoleSave ==
    ASSUME TypeInv, SoleInv, NEW r \in Replicas, Save(r)
    PROVE  SoleInv'
<1>1. /\ pc[r] = "save" /\ pc'[r] = "idle" /\ schedules' = schedules
      /\ row'.status = schedules[r].status /\ row'.started = schedules[r].started
      /\ r \in served /\ UNCHANGED <<rollout, served, saveLost, strayed, appliedAt, rolledBack>>
  BY SaveTypes
<1>2. ASSUME Alone'
      PROVE  UpToDate(r)' /\ (rolledBack' # NoEnv => rollout'[rolledBack'] = 0 /\ StaysBack(r)')
  <2>1. UpToDate(r) /\ (rolledBack # NoEnv => rollout[rolledBack] = 0 /\ StaysBack(r))
    BY <1>1, <1>2, SoleBefore
  <2>2. UpToDate(r)'
    BY <1>1, <2>1 DEF UpToDate, Active
  <2>3. rolledBack # NoEnv => StaysBack(r)'
    BY <1>1, <2>1 DEF StaysBack, Active
  <2> QED BY <1>1, <2>1, <2>2, <2>3
<1> QED BY <1>1, <1>2, SoleAfter

\* The copy is lost; if every save succeeded, the row is what it was.
LEMMA SoleCancel ==
    ASSUME TypeInv, SoleInv, NEW r \in Replicas, NEW deleted \in BOOLEAN, CancelSchedule(r, deleted)
    PROVE  SoleInv'
<1>1. /\ pc[r] = "idle" /\ pc'[r] = "idle" /\ schedules'[r] = NoSchedule
      /\ \/ row' = NoSchedule /\ strayed' = strayed
         \/ row' = row /\ strayed' = (strayed \/ saveLost)
      /\ served' = served \cup {r} /\ r \in served' /\ rolledBack' = rolledBack
      /\ UNCHANGED <<rollout, appliedAt, saveLost>>
  BY CancelTypes
<1>2. strayed => strayed'
  BY <1>1
<1>3. ASSUME Alone'
      PROVE  UpToDate(r)' /\ (rolledBack' # NoEnv => rollout'[rolledBack'] = 0 /\ StaysBack(r)')
  <2>1. UpToDate(r) /\ (rolledBack # NoEnv => rollout[rolledBack] = 0 /\ StaysBack(r))
    BY <1>1, <1>2, <1>3, SoleBefore
  <2>2. ~strayed'
    BY <1>3 DEF Alone
  <2>3. CASE row' = NoSchedule
    BY <1>1, <2>1, <2>3, NoScheduleType DEF UpToDate, StaysBack, Active
  <2>4. CASE row' = row /\ ~saveLost
    <3>1. UpToDate(r)'
      BY <1>1, <2>1, <2>4, NoScheduleType DEF UpToDate, Active
    <3>2. rolledBack # NoEnv => StaysBack(r)'
      BY <1>1, <2>1, <2>4, NoScheduleType DEF StaysBack, Active
    <3> QED BY <1>1, <2>1, <3>1, <3>2
  <2> QED BY <1>1, <2>2, <2>3, <2>4
<1> QED BY <1>1, <1>3, SoleAfter

LEMMA SoleCrash ==
    ASSUME TypeInv, SoleInv, NEW r \in Replicas, Crash(r)
    PROVE  SoleInv'
<1>1. /\ pc'[r] = "idle" /\ schedules'[r] = NoSchedule /\ OthersRest(r)
      /\ saveLost' = (saveLost \/ pc[r] = "save")
      /\ strayed' = (strayed \/ saveLost \/ pc[r] = "save")
      /\ UNCHANGED <<row, rollout, served, appliedAt, rolledBack>>
  BY CrashTypes
<1> SUFFICES ASSUME Alone' PROVE SoleInv'
  BY DEF SoleInv
<1>2. ~strayed /\ ~saveLost /\ pc[r] # "save" /\ ~saveLost' /\ Alone
  BY <1>1 DEF Alone
<1>3. CASE r \in served
  <2>1. UpToDate(r) /\ (rolledBack # NoEnv => rollout[rolledBack] = 0 /\ StaysBack(r))
    BY <1>2, <1>3 DEF SoleInv
  <2>2. UpToDate(r)'
    BY <1>1, <1>2, <2>1, NoScheduleType DEF UpToDate, Active
  <2>3. rolledBack # NoEnv => StaysBack(r)'
    BY <1>1, <1>2, <2>1, NoScheduleType DEF StaysBack, Active
  <2>4. r \in served' /\ rolledBack' = rolledBack /\ rollout' = rollout
    BY <1>1, <1>3
  <2> QED BY <2>1, <2>2, <2>3, <2>4, SoleAfter
<1>4. CASE r \notin served
  <2>1. \A q \in served : q \in Replicas \ {r}
    BY <1>4, SharedHolds DEF Shared
  <2>2. \A q \in served : pc'[q] = pc[q] /\ now'[q] = now[q] /\ schedules'[q] = schedules[q]
    BY <1>1, <2>1 DEF OthersRest
  <2>3. \A q \in served : UpToDate(q) => UpToDate(q)'
    BY <1>1, <1>2, <2>2 DEF UpToDate
  <2>4. \A q \in served : StaysBack(q) => StaysBack(q)'
    BY <1>1, <1>2, <2>2 DEF StaysBack
  <2> QED BY <1>1, <1>2, <2>3, <2>4 DEF SoleInv
<1> QED BY <1>3, <1>4

LEMMA SoleStep ==
    ASSUME TypeInv, SoleInv, [Next]_vars
    PROVE  SoleInv'
<1>1. CASE UNCHANGED vars
  BY <1>1 DEF vars, store, history, SoleInv, Alone, UpToDate, StaysBack
<1>2. CASE Elapse
  BY SMT, <1>2, ElapseTypes DEF store, history, SoleInv, Alone, UpToDate, StaysBack
<1>3. ASSUME NEW r \in Replicas, Continue(r) \/ Fails(r)
      PROVE  SoleInv'
  BY <1>3, SoleWrite, SoleRollback, SoleSave, SoleGiveUp, SoleAttention, SoleCrash
     DEF Continue, Fails
<1>4. ASSUME NEW r \in Replicas,
             \/ \E env \in Envs : SubmitSchedule(r, env)
             \/ GetSchedule(r) \/ TriggerHealthRollback(r)
             \/ \E deleted \in BOOLEAN : CancelSchedule(r, deleted)
             \/ Evaluate(r)
      PROVE  SoleInv'
  BY <1>4, SoleSubmit, SoleTake, SoleTrigger, SoleCancel, SoleComplete, SoleAdvanceStart
     DEF Evaluate
<1> QED BY <1>1, <1>2, <1>3, <1>4 DEF Next

LEMMA SoleThroughout == Spec => [](TypeInv /\ SoleInv)
<1>1. Init => SoleInv
  BY DEF Init, SoleInv
<1>2. TypeInv /\ SoleInv /\ [Next]_vars => SoleInv'
  BY SoleStep
<1> QED BY <1>1, <1>2, TypesThroughout, PTL DEF Spec

\* A rolled back flag stays at 0 percent until a new schedule is submitted
\* (RollbackSticks), although the row may still say ACTIVE: EvaluateSchedules
\* does not take a row over that is older than the replica's own schedule.
THEOREM RollbacksStick == Spec => []RollbackSticks
<1>1. SoleInv => RollbackSticks
  BY DEF SoleInv, RollbackSticks
<1> QED BY <1>1, SoleThroughout, PTL

\* Before the next stage is applied, the present one has been in force for its
\* duration (StagesSoak): its clock starts no earlier than the write of its
\* percentage, in memory and in the row another evaluation continues from.
THEOREM StagesLast == Spec => StagesSoak
<1>1. ASSUME TypeInv, SoleInv, NEW r \in Replicas, Alone, Advance(r)
      PROVE  appliedAt <= due
  <2>1. r \in served /\ Active(schedules[r]) /\ schedules[r].started <= due
    BY <1>1, AdvanceTypes
  <2>2. appliedAt <= schedules[r].started
    BY <1>1, <2>1 DEF SoleInv, UpToDate
  <2>3. due \in Int
    BY SMT, <1>1, SharedHolds DEF Shared
  <2> QED BY SMT, <1>1, <2>1, <2>2, <2>3, TimeTypes
<1>2. TypeInv /\ SoleInv /\ [Next]_vars =>
        [\A r \in Replicas : Alone /\ Advance(r) /\ appliedAt' # appliedAt => appliedAt <= due]_vars
  BY <1>1
<1> QED BY <1>2, SoleThroughout, PTL DEF Spec, StagesSoak

=============================================================================
