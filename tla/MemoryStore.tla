---------------------------- MODULE MemoryStore ----------------------------
(***************************************************************************)
(* The in-memory store (pkg/store/memory.go): feature flags, change        *)
(* requests, API key revocation and the audit log, at the granularity of   *)
(* its two locks, together with the three HTTP handlers that call it more  *)
(* than once (promotion, submission of a change request, audit purge).     *)
(*                                                                         *)
(* Flags live in an immutable snapshot behind an atomic pointer.  A writer *)
(* takes writeMu, loads the snapshot, builds the next one, stores it, and  *)
(* only then takes mu to append its audit entry: three steps here, between *)
(* which other threads run.  Everything done under mu alone is one step.   *)
(*                                                                         *)
(* The payload of a save names no other flag's ID.  Calls that return an   *)
(* error change nothing and are not actions.                               *)
(***************************************************************************)
EXTENDS StoreData, AuditChain

CONSTANTS
    Threads,        \* goroutines serving requests
    NoThread

ASSUME ThreadsAssumption == NoThread \notin Threads

VARIABLES
    flags,          \* flagsSnapshot: the published snapshot
    changeRequests,
    revoked,        \* API keys whose Revoked field is set
    auditLogs,
    auditAnchors,
    writeMu,        \* holder of writeMu
    pc,             \* where each thread is inside its request
    newSnap,        \* the snapshot a writer has built and not yet stored
    pending,        \* the audit entry a writer has built and not yet appended
    held,           \* the flag a handler has read with GetFlagByProject
    applying,       \* ApplyChangeRequest's local copy of the change request
    clock,          \* the last reading of time.Now
    nextSeq,        \* the next insertion number of the audit log
    nextLife,       \* the next creation number of a flag
    ops,            \* requests served so far
    ordered,        \* history: every append was in timestamp order
    trail           \* history: the flag versions the audit log has recorded

tables == <<flags, changeRequests, revoked>>
auditVars == <<auditLogs, auditAnchors, nextSeq, ordered, trail>>
threadVars == <<writeMu, pc, newSnap, pending, held, applying>>
vars == <<tables, auditVars, threadVars, clock, nextLife, ops>>

-----------------------------------------------------------------------------
\* An audit entry: the fields of AuditChain, and the flag version it records.
\* Its ID and timestamp are two readings of the clock in a row; here, one.
Entries ==
    [seq : Nat, prev : Nat, id : {"log", "audit", ""} \X Nat, ts : Nat,
     proj : Projects, key : Subjects, life : Nat, ver : Nat]
Entry(prefix, time, p, k, f) ==
    [seq |-> 0, prev |-> GENESIS, id |-> <<prefix, time>>, ts |-> time,
     proj |-> p, key |-> k, life |-> f.life, ver |-> f.ver]
NoEntry == Entry("", 0, CHOOSE p \in Projects : TRUE, "audit-logs", NoFlag)

Init ==
    /\ flags = NoFlags
    /\ changeRequests = [c \in CRIds |-> NoCR]
    /\ revoked = {}
    /\ auditLogs = {}
    /\ auditAnchors = [p \in Projects |-> GENESIS]
    /\ writeMu = NoThread
    /\ pc = [t \in Threads |-> "idle"]
    /\ newSnap = [t \in Threads |-> NoFlags]
    /\ pending = [t \in Threads |-> NoEntry]
    /\ held = [t \in Threads |-> NoHeld]
    /\ applying = [t \in Threads |-> NoCR]
    /\ clock = 1 /\ nextSeq = 1 /\ nextLife = 1 /\ ops = 0
    /\ ordered = TRUE
    /\ trail = {}

-----------------------------------------------------------------------------
ReadClock == \E d \in ClockSteps : clock' = clock + d

Request == ops < MaxOps /\ ops' = ops + 1

\* appendAuditLogLocked: link the entry to the head of its project's chain
\* and insert it, unless the project already has an entry with that ID.
Append(e) ==
    IF Duplicate(auditLogs, e)
    THEN UNCHANGED auditVars
    ELSE /\ auditLogs' =
                auditLogs \cup {Linked(auditLogs, auditAnchors, nextSeq, e)}
         /\ nextSeq' = nextSeq + 1
         /\ ordered' = (ordered /\ \A l \in Own(auditLogs, e.proj) : l.ts <= e.ts)
         /\ trail' = trail \cup {<<e.key, e.life, e.ver>>}
         /\ UNCHANGED auditAnchors

\* Mutant: the writer does not wait for writeMu.
PrepareUnlocked(t, k, f, g) ==
    /\ writeMu' = t
    /\ ReadClock
    /\ newSnap' = [newSnap EXCEPT ![t] = [flags EXCEPT ![k] = f]]
    /\ pending' = [pending EXCEPT ![t] = Entry("log", clock', ProjectOf[k], k, g)]
    /\ pc' = [pc EXCEPT ![t] = "store"]
    /\ UNCHANGED <<tables, auditVars, applying>>

\* The part every flag writer starts with: take writeMu, load the snapshot,
\* build the next one (key k becomes f) and the audit entry, which records
\* the flag g.
Prepare(t, k, f, g) ==
    /\ writeMu = NoThread
    /\ writeMu' = t
    /\ ReadClock
    /\ newSnap' = [newSnap EXCEPT ![t] = [flags EXCEPT ![k] = f]]
    /\ pending' = [pending EXCEPT ![t] = Entry("log", clock', ProjectOf[k], k, g)]
    /\ pc' = [pc EXCEPT ![t] = "store"]
    /\ UNCHANGED <<tables, auditVars, applying>>

\* SaveFlag: an existing flag is replaced and its version goes up by one, a
\* missing one is created with the payload's version, or 1 if that is 0.
Saved(k, envs, payloadVer) ==
    IF Exists(flags[k])
    THEN [life |-> flags[k].life, ver |-> flags[k].ver + 1, envs |-> envs]
    ELSE [life |-> nextLife, envs |-> envs,
          ver |-> IF payloadVer = 0 THEN 1 ELSE payloadVer]

SaveFlag(t, k, envs, payloadVer) ==
    /\ Prepare(t, k, Saved(k, envs, payloadVer), Saved(k, envs, payloadVer))
    /\ nextLife' = IF Exists(flags[k]) THEN nextLife ELSE nextLife + 1

\* handleCreateFlag and handleUpdateFlag: the body is the whole flag.  The
\* latter first looks whether the flag exists, and takes its ID from it; the
\* save that follows creates the flag all the same if it has gone by then.
WriteFlag(t, k, envs, payloadVer) ==
    /\ pc[t] = "idle" /\ Request
    /\ SaveFlag(t, k, envs, payloadVer)
    /\ UNCHANGED held

DeleteFlagByProject(t, k) ==
    /\ pc[t] = "idle" /\ Request
    /\ Exists(flags[k])
    /\ Prepare(t, k, NoFlag, flags[k])
    /\ UNCHANGED <<held, nextLife>>

ToggleFlagByProject(t, k, env, enabled) ==
    LET f == WithConfig(flags[k], env, [flags[k].envs[env] EXCEPT !.enabled = enabled])
    IN  /\ pc[t] = "idle" /\ Request
        /\ Exists(flags[k])
        /\ Prepare(t, k, f, f)
        /\ UNCHANGED <<held, nextLife>>

UpdateRolloutByProject(t, k, env, pct) ==
    LET f == WithConfig(flags[k], env, [flags[k].envs[env] EXCEPT !.pct = Clamp(pct)])
    IN  /\ pc[t] = "idle" /\ Request
        /\ Exists(flags[k])
        /\ Prepare(t, k, f, f)
        /\ UNCHANGED <<held, nextLife>>

\* Mutant: writeMu is released as soon as the snapshot is published.
StoreSnapshotUnlocks(t) ==
    /\ pc[t] = "store"
    /\ flags' = newSnap[t]
    /\ newSnap' = [newSnap EXCEPT ![t] = NoFlags]
    /\ pc' = [pc EXCEPT ![t] = "append"]
    /\ writeMu' = NoThread
    /\ UNCHANGED <<changeRequests, revoked, auditVars, pending, held, applying,
                   clock, nextLife, ops>>

\* The writer publishes its snapshot, still holding writeMu ...
StoreSnapshot(t) ==
    /\ pc[t] = "store"
    /\ flags' = newSnap[t]
    /\ newSnap' = [newSnap EXCEPT ![t] = NoFlags]
    /\ pc' = [pc EXCEPT ![t] = "append"]
    /\ UNCHANGED <<changeRequests, revoked, auditVars, writeMu, pending, held,
                   applying, clock, nextLife, ops>>

\* Mutant: writeMu is never released.
AppendAuditLogLocked(t) ==
    /\ pc[t] = "append"
    /\ Append(pending[t])
    /\ pending' = [pending EXCEPT ![t] = NoEntry]
    /\ pc' = [pc EXCEPT ![t] = "idle"]
    /\ UNCHANGED <<tables, writeMu, newSnap, held, applying, clock, nextLife, ops>>

\* ... and appends its audit entry under mu before it releases writeMu.
AppendAuditLog(t) ==
    /\ pc[t] = "append"
    /\ Append(pending[t])
    /\ pending' = [pending EXCEPT ![t] = NoEntry]
    /\ pc' = [pc EXCEPT ![t] = "idle"]
    /\ writeMu' = NoThread
    /\ UNCHANGED <<tables, newSnap, held, applying, clock, nextLife, ops>>

-----------------------------------------------------------------------------
\* A handler reads the flag (GetFlagByProject) and goes on later with its copy.
ReadFlag(t, k, next) ==
    /\ pc[t] = "idle" /\ Request
    /\ Exists(flags[k])
    /\ held' = [held EXCEPT ![t] = [key |-> k, flag |-> flags[k]]]
    /\ pc' = [pc EXCEPT ![t] = next]
    /\ UNCHANGED <<tables, auditVars, writeMu, newSnap, pending, applying,
                   clock, nextLife>>

\* handlePromoteEnvironment: the copy with one environment overwritten by
\* another is saved as a whole, with the version it was read at.
PromoteRead(t, k) == ReadFlag(t, k, "promote")

PromoteSave(t, from, to) ==
    LET f == held[t].flag
    IN  /\ pc[t] = "promote"
        /\ SaveFlag(t, held[t].key, [f.envs EXCEPT ![to] = f.envs[from]], f.ver)
        /\ held' = [held EXCEPT ![t] = NoHeld]
        /\ UNCHANGED ops

\* handleCreateChangeRequest: the version of the flag that was read becomes
\* the base version.  A request with an ID already in use replaces it.
CreateChangeRequestRead(t, k) == ReadFlag(t, k, "submit")

CreateChangeRequest(t, c, env, proposed, author) ==
    /\ pc[t] = "submit"
    /\ changeRequests' = [changeRequests EXCEPT ![c] =
            Submitted(held[t].key, held[t].flag, env, proposed, author)]
    /\ held' = [held EXCEPT ![t] = NoHeld]
    /\ pc' = [pc EXCEPT ![t] = "idle"]
    /\ UNCHANGED <<flags, revoked, auditVars, writeMu, newSnap, pending,
                   applying, clock, nextLife, ops>>

\* handleReviewChangeRequest, the store's method and ChangeRequest.Review.
ReviewChangeRequest(c, u, approved) ==
    /\ Request
    /\ MayReview(changeRequests[c], u)
    /\ changeRequests' =
            [changeRequests EXCEPT ![c] = Reviewed(changeRequests[c], u, approved)]
    /\ UNCHANGED <<flags, revoked, auditVars, threadVars, clock, nextLife>>

\* ApplyChangeRequest holds writeMu throughout.  Under mu it checks the
\* request, marks it APPLIED and appends the audit entry; it gives up mu and
\* publishes the snapshot afterwards.
ApplyChangeRequest(t, c) ==
    LET cr == changeRequests[c]
        f  == WithConfig(flags[cr.key], cr.env, cr.proposed)
    IN  /\ pc[t] = "idle" /\ Request
        /\ writeMu = NoThread
        /\ MayApply(cr, flags[cr.key])
        /\ writeMu' = t
        /\ changeRequests' = [changeRequests EXCEPT ![c].status = "APPLIED"]
        /\ ReadClock
        /\ Append(Entry("audit", clock', ProjectOf[cr.key], cr.key, f))
        /\ newSnap' = [newSnap EXCEPT ![t] = [flags EXCEPT ![cr.key] = f]]
        /\ applying' = [applying EXCEPT ![t] = cr]
        /\ pc' = [pc EXCEPT ![t] = "apply"]
        /\ UNCHANGED <<flags, revoked, pending, held, nextLife>>

ApplyStore(t) ==
    /\ pc[t] = "apply"
    /\ flags' = newSnap[t]
    /\ newSnap' = [newSnap EXCEPT ![t] = NoFlags]
    /\ applying' = [applying EXCEPT ![t] = NoCR]
    /\ pc' = [pc EXCEPT ![t] = "idle"]
    /\ writeMu' = NoThread
    /\ UNCHANGED <<changeRequests, revoked, auditVars, pending, held, clock,
                   nextLife, ops>>

-----------------------------------------------------------------------------
\* RevokeAPIKeyByProject: mu only, so it can run while a writer holds writeMu.
RevokeAPIKeyByProject(a) ==
    /\ Request
    /\ revoked' = revoked \cup {a}
    /\ ReadClock
    /\ Append(Entry("audit", clock', ProjectOf[a], "api-keys", NoFlag))
    /\ UNCHANGED <<flags, changeRequests, threadVars, nextLife>>

\* handlePurgeAuditLogs: the purge, under both locks, and then an entry for
\* the purge itself, which the handler gives no ID.
PurgeAuditLogs(t, p, before) ==
    /\ pc[t] = "idle" /\ Request
    /\ writeMu = NoThread
    /\ before <= clock
    /\ auditLogs' = auditLogs \ Purged(auditLogs, p, before)
    /\ auditAnchors' = PurgeAnchor(auditLogs, auditAnchors, p, before)
    /\ pending' = [pending EXCEPT ![t] = Entry("", 0, p, "audit-logs", NoFlag)]
    /\ pc' = [pc EXCEPT ![t] = "purged"]
    /\ UNCHANGED <<tables, nextSeq, ordered, trail, writeMu, newSnap, held,
                   applying, clock, nextLife>>

PurgeRecord(t) ==
    /\ pc[t] = "purged"
    /\ ReadClock
    /\ Append([pending[t] EXCEPT !.ts = clock'])
    /\ pending' = [pending EXCEPT ![t] = NoEntry]
    /\ pc' = [pc EXCEPT ![t] = "idle"]
    /\ UNCHANGED <<tables, writeMu, newSnap, held, applying, nextLife, ops>>

\* Reset, under both locks: flags, audit log and anchors go, change requests
\* and API keys stay.
Reset ==
    /\ Request
    /\ writeMu = NoThread
    /\ flags' = NoFlags
    /\ auditLogs' = {}
    /\ auditAnchors' = [p \in Projects |-> GENESIS]
    /\ UNCHANGED <<changeRequests, revoked, nextSeq, ordered, trail, threadVars,
                   clock, nextLife>>

-----------------------------------------------------------------------------
FlagRequest(t) ==
    \E k \in Keys :
        \/ \E envs \in [Envs -> Payloads], v \in PayloadVers : WriteFlag(t, k, envs, v)
        \/ DeleteFlagByProject(t, k)
        \/ \E env \in Envs, b \in BOOLEAN : ToggleFlagByProject(t, k, env, b)
        \/ \E env \in Envs, pct \in Pcts : UpdateRolloutByProject(t, k, env, pct)
        \/ PromoteRead(t, k)
        \/ CreateChangeRequestRead(t, k)

\* The rest of a request a thread has started.
Continue(t) ==
    \/ StoreSnapshot(t)
    \/ AppendAuditLog(t)
    \/ \E from, to \in Envs : PromoteSave(t, from, to)
    \/ \E c \in CRIds, env \in Envs, proposed \in Payloads, u \in Users :
            CreateChangeRequest(t, c, env, proposed, u)
    \/ ApplyStore(t)
    \/ PurgeRecord(t)

Next ==
    \/ \E t \in Threads :
        \/ FlagRequest(t)
        \/ Continue(t)
        \/ \E c \in CRIds : ApplyChangeRequest(t, c)
        \/ \E p \in Projects, before \in 0..clock : PurgeAuditLogs(t, p, before)
    \/ \E c \in CRIds, u \in Users, b \in BOOLEAN : ReviewChangeRequest(c, u, b)
    \/ \E a \in APIKeys : RevokeAPIKeyByProject(a)
    \/ Reset

Spec == Init /\ [][Next]_vars

\* A goroutine inside a request keeps running, and sync.Mutex hands the lock
\* to a waiter that has been starved, so nobody waits for writeMu for ever.
Fairness ==
    \A t \in Threads :
        /\ WF_vars(Continue(t))
        /\ SF_vars(\E from, to \in Envs : PromoteSave(t, from, to))

FairSpec == Spec /\ Fairness

-----------------------------------------------------------------------------
\* Type invariant: the fields of every record and the positions a thread can
\* be in.
TypeOK ==
    /\ flags \in Snapshots
    /\ changeRequests \in [CRIds -> ChangeRequests]
    /\ revoked \subseteq APIKeys
    /\ auditLogs \subseteq Entries
    /\ auditAnchors \in [Projects -> Nat]
    /\ writeMu \in Threads \cup {NoThread}
    /\ pc \in [Threads -> {"idle", "store", "append", "promote", "submit",
                           "apply", "purged"}]
    /\ newSnap \in [Threads -> Snapshots]
    /\ pending \in [Threads -> Entries]
    /\ held \in [Threads -> Held]
    /\ applying \in [Threads -> ChangeRequests]
    /\ clock \in Nat /\ nextSeq \in Nat /\ nextLife \in Nat /\ ops \in Nat
    /\ ordered \in BOOLEAN
    /\ trail \subseteq Subjects \X Nat \X Nat

\* The flags as the next writer will find them: an ApplyChangeRequest that has
\* marked its request APPLIED and not yet stored its snapshot cannot be
\* overtaken, because it holds writeMu.
FlagsInForce ==
    IF writeMu # NoThread /\ pc[writeMu] = "apply" THEN newSnap[writeMu] ELSE flags

Governance ==
    INSTANCE FlagGovernance WITH flags <- FlagsInForce, requests <- changeRequests

\* The locking of the store makes its operations atomic: flag versions count
\* the writes, and a change request is reviewed and applied as FlagGovernance
\* says, whatever the threads do between a writer's steps.
RefinesGovernance == Governance!Spec

\* A step that publishes a snapshot of ApplyChangeRequest publishes exactly
\* what a second person approved: the flag in the snapshot is still the one
\* at the base version, and only the proposed environment changes.
AppliesWhatWasApproved ==
    [][\A t \in Threads :
        pc[t] = "apply" /\ pc'[t] = "idle" =>
            LET cr == applying[t]
            IN  /\ cr.status = "APPROVED" /\ cr.author # cr.reviewer
                /\ flags[cr.key].ver = cr.base
                /\ flags' = [flags EXCEPT
                      ![cr.key] = WithConfig(flags[cr.key], cr.env, cr.proposed)]]_vars

\* The audit log lists the writes to a flag in the order in which they took
\* effect, although entries are appended after the snapshot is published
\* (or before it, for a change request).
AuditFollowsVersions ==
    \A d, e \in auditLogs :
        /\ d.key \in Keys /\ d.key = e.key /\ d.life = e.life
        /\ d.seq < e.seq
        => d.ver <= e.ver

\* No flag version goes unrecorded: whenever no writer is at work, the version
\* of every flag has had an audit entry.
EveryVersionAudited ==
    writeMu = NoThread =>
        \A k \in Keys :
            Exists(flags[k]) => <<k, flags[k].life, flags[k].ver>> \in trail

ChainsVerify ==
    \A p \in Projects : VerifyAuditLogIntegrity(auditLogs, auditAnchors, p)

\* VerifyAuditLogIntegrity accepts the log after any mixture of appends,
\* purges and resets, as long as entries were appended in timestamp order.
OrderedChainsVerify == ordered => ChainsVerify

\* A request that has begun ends: no thread waits for writeMu for ever.
RequestsFinish == \A t \in Threads : pc[t] # "idle" ~> pc[t] = "idle"

-----------------------------------------------------------------------------
\* The specification, audit log section: a purge leaves an anchor "so
\* subsequent chain verification remains valid".
PurgeKeepsChainsValid == ChainsVerify

\* The conflict error of ApplyChangeRequest: a request is applied only to a
\* flag that has not been modified since the request was written.
AppliedToReviewedFlag ==
    [][\A t \in Threads :
        pc[t] = "apply" /\ pc'[t] = "idle" =>
            flags[applying[t].key].life = applying[t].life]_vars

=============================================================================
