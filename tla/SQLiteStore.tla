---------------------------- MODULE SQLiteStore -----------------------------
(***************************************************************************)
(* The SQLite store (pkg/store/sqlite.go): flags, change requests, API key *)
(* revocation and the audit log.  Every writer holds s.mu from its first   *)
(* statement to its last, but its statements commit one by one, readers    *)
(* take no lock, and the errors of some statements are dropped.  So a step *)
(* is a statement, statements may fail (Fails, HeadQueryFails), and the    *)
(* process may be killed between two of them and started again (Crash).    *)
(*                                                                         *)
(* life counts the insertions of a row.  Updates go by the ID of the row   *)
(* that was read, under the lock, so IDs tell nothing else apart.          *)
(***************************************************************************)
EXTENDS StoreData

CONSTANTS
    Handlers,
    NoHandler,
    DefaultProject,
    SeedKey,        \* stands for the three flags seedDefaults creates
    TicksPerDigit,  \* clock readings that share all but their last digit
    MaxFaults       \* bound: failed statements and crashes in a behaviour

ASSUME SQLiteAssumption ==
    /\ NoHandler \notin Handlers
    /\ SeedKey \in Keys /\ ProjectOf[SeedKey] = DefaultProject
    /\ TicksPerDigit \in Nat \ {0} /\ MaxFaults \in Nat

VARIABLES
    feature_flags,
    change_requests,
    api_keys,       \* the keys whose revoked column is set
    audit_logs,
    audit_anchors,
    mu,             \* holder of s.mu
    pc,             \* the statement each handler executes next
    frame,          \* the local variables of each handler
    clock, nextHash, nextLife, ops, faults,
    trail,          \* history: the flag versions the audit log has recorded
    lost,           \* history: those whose entry a fault has cost
    landed,         \* history: the flag lives a request's proposal was written to
    chainFault,     \* history: a fault, or the order of timestamps as text, hit a chain
    falseAlarm      \* history: a calm verification found a sound chain broken

tables == <<feature_flags, change_requests, api_keys, audit_logs, audit_anchors>>
counters == <<clock, nextHash, nextLife, ops, faults>>
history == <<trail, lost, landed, chainFault, falseAlarm>>
vars == <<tables, mu, pc, frame, counters, history>>

-----------------------------------------------------------------------------
\* An entry, with the flag version it records.  Its hash stands for the entry,
\* as in AuditChain, and grows with the rowid.
GENESIS == 0
Entries ==
    [hash : Nat, prev : Nat, ts : Nat, proj : Projects, key : Subjects,
     life : Nat, ver : Nat]

\* What a handler remembers between statements: the flag it has read, the one
\* it writes or records, the change request it applies, a hash a purge leaves
\* behind, and the rows a verification has fetched.
NoRequest == ""
Frames ==
    [key : Subjects, proj : Projects, read : Flags, write : Flags,
     cr : CRIds \cup {NoRequest}, hash : Nat, rows : SUBSET Entries, calm : BOOLEAN]
NoFrame ==
    [key |-> AnyKey, proj |-> DefaultProject, read |-> NoFlag, write |-> NoFlag,
     cr |-> NoRequest, hash |-> GENESIS, rows |-> {}, calm |-> TRUE]

\* RFC3339Nano drops trailing zeros, and a digit sorts before the "Z" that
\* ends the text: of the readings that share all but their last digit, the one
\* that ends in 0 comes last.
Text(t) ==
    (t \div TicksPerDigit) * TicksPerDigit
        + (IF t % TicksPerDigit = 0 THEN TicksPerDigit ELSE t % TicksPerDigit)

\* ORDER BY timestamp, rowid.
Before(d, e) ==
    \/ Text(d.ts) < Text(e.ts)
    \/ Text(d.ts) = Text(e.ts) /\ d.hash < e.hash

Newest(S) == CHOOSE e \in S : \A d \in S : d = e \/ Before(d, e)
Own(p) == { e \in audit_logs : e.proj = p }
Purgeable(p, before) == { e \in Own(p) : Text(e.ts) < Text(before) }

\* The hash insertAuditLog links a new entry of project p to.
HeadHash(p) == IF Own(p) = {} THEN audit_anchors[p] ELSE Newest(Own(p)).hash

\* VerifyAuditLogIntegrity, on the rows and the anchor it has fetched.
Valid(rows, anchor) ==
    \A e \in rows :
        LET older == { d \in rows : Before(d, e) }
        IN  IF older = {} THEN e.prev \in {anchor, GENESIS}
            ELSE e.prev = Newest(older).hash

-----------------------------------------------------------------------------
\* What seedDefaults saves: a payload of version 1, counted once.
SeedFlag(life) ==
    [life |-> life, ver |-> 2, envs |-> [e \in Envs |-> [enabled |-> TRUE, pct |-> 50]]]
SeedEntry(hash, prev, ts, life) ==
    [hash |-> hash, prev |-> prev, ts |-> ts, proj |-> DefaultProject,
     key |-> SeedKey, life |-> life, ver |-> 2]

\* NewSQLiteStore has created and seeded an empty database.
Init ==
    /\ feature_flags = [NoFlags EXCEPT ![SeedKey] = SeedFlag(1)]
    /\ change_requests = [c \in CRIds |-> NoCR]
    /\ api_keys = {}
    /\ audit_logs = {SeedEntry(1, GENESIS, 1, 1)}
    /\ audit_anchors = [p \in Projects |-> GENESIS]
    /\ mu = NoHandler
    /\ pc = [h \in Handlers |-> "idle"]
    /\ frame = [h \in Handlers |-> NoFrame]
    /\ clock = 1 /\ nextHash = 2 /\ nextLife = 2 /\ ops = 0 /\ faults = 0
    /\ trail = {<<SeedKey, 1, 2>>} /\ lost = {}
    /\ landed = [c \in CRIds |-> {}]
    /\ chainFault = FALSE /\ falseAlarm = FALSE

ReadClock == \E d \in ClockSteps : clock' = clock + d

Begin(h) == pc[h] = "idle" /\ ops < MaxOps /\ ops' = ops + 1

\* Mutant: the caller does not wait for s.mu.
LockAtOnce(h) == mu' = h

Lock(h) == mu = NoHandler /\ mu' = h

Goto(h, label, f) ==
    /\ pc' = [pc EXCEPT ![h] = label]
    /\ frame' = [frame EXCEPT ![h] = f]

\* The deferred Unlock of a writer, after which its handler is at label.
Return(h, label, f) == mu' = NoHandler /\ Goto(h, label, f)

Recording(k, p, f) == [NoFrame EXCEPT !.key = k, !.proj = p, !.write = f]

-----------------------------------------------------------------------------
\* insertAuditLog, called with s.mu held: find the head of the chain and insert
\* an entry linked to it.  The caller drops the error.  When the head query
\* fails, the anchor is taken, and when that fails too, the genesis hash.
Insert(h, prev) ==
    LET f == frame[h]
        e == [hash |-> nextHash, prev |-> prev, ts |-> clock', proj |-> f.proj,
              key |-> f.key, life |-> f.write.life, ver |-> f.write.ver]
    IN  /\ ReadClock
        /\ audit_logs' = audit_logs \cup {e}
        /\ nextHash' = nextHash + 1
        /\ trail' = trail \cup {<<e.key, e.life, e.ver>>}
        /\ chainFault' = (\/ chainFault \/ prev # HeadHash(f.proj)
                          \/ \E d \in Own(f.proj) : Text(d.ts) > Text(clock'))
        /\ Return(h, "idle", NoFrame)
        /\ UNCHANGED <<feature_flags, change_requests, api_keys, audit_anchors,
                       nextLife, ops, lost, landed, falseAlarm>>

insertAuditLog(h) ==
    /\ pc[h] = "audit"
    /\ Insert(h, HeadHash(frame[h].proj))
    /\ UNCHANGED faults

HeadQueryFails(h) ==
    /\ pc[h] = "audit"
    /\ faults < MaxFaults /\ faults' = faults + 1
    /\ \E prev \in {audit_anchors[frame[h].proj], GENESIS} : Insert(h, prev)

-----------------------------------------------------------------------------
\* SaveFlag: the row that is there is kept and its version counted by the
\* database, a new one has the version of the payload plus one.
Upserted(k, envs, payloadVer) ==
    IF Exists(feature_flags[k])
    THEN [feature_flags[k] EXCEPT !.ver = @ + 1, !.envs = envs]
    ELSE [life |-> nextLife, ver |-> payloadVer + 1, envs |-> envs]

SaveFlag(h, k, envs, payloadVer) ==
    LET f == Upserted(k, envs, payloadVer)
    IN  /\ Lock(h)
        /\ feature_flags' = [feature_flags EXCEPT ![k] = f]
        /\ nextLife' = IF Exists(feature_flags[k]) THEN nextLife ELSE nextLife + 1
        /\ Goto(h, "audit", Recording(k, ProjectOf[k], f))
        /\ UNCHANGED <<change_requests, api_keys, audit_logs, audit_anchors, clock,
                       nextHash, faults, history>>

\* handleCreateFlag has decoded its payload and calls SaveFlag.
WriteFlag(h, k, envs, v) ==
    /\ Begin(h)
    /\ Goto(h, "save", [NoFrame EXCEPT !.key = k,
                           !.write = [life |-> 0, ver |-> v, envs |-> envs]])
    /\ UNCHANGED <<tables, mu, clock, nextHash, nextLife, faults, history>>

SavePayload(h) ==
    /\ pc[h] = "save"
    /\ SaveFlag(h, frame[h].key, frame[h].write.envs, frame[h].write.ver)
    /\ UNCHANGED ops

\* A handler reads the flag before it calls a writer; nothing is locked.
ReadFlag(h, k, label) ==
    /\ Begin(h)
    /\ Exists(feature_flags[k])
    /\ Goto(h, label, [NoFrame EXCEPT !.key = k, !.read = feature_flags[k]])
    /\ UNCHANGED <<tables, mu, clock, nextHash, nextLife, faults, history>>

\* handleUpdateFlag looks whether the flag exists and saves the payload.
UpdateRead(h, k) == ReadFlag(h, k, "edit")

UpdateSave(h, envs, v) ==
    /\ pc[h] = "edit"
    /\ SaveFlag(h, frame[h].key, envs, v)
    /\ UNCHANGED ops

\* handlePromoteEnvironment saves the flag it has read, one environment
\* overwritten by another.
PromoteRead(h, k) == ReadFlag(h, k, "promote")

PromoteSave(h, from, to) ==
    LET f == frame[h].read
    IN  /\ pc[h] = "promote"
        /\ SaveFlag(h, frame[h].key, [f.envs EXCEPT ![to] = f.envs[from]], f.ver)
        /\ UNCHANGED ops

\* The writers that read the flag under s.mu, to write f in its place.
ReadLocked(h, k, f, c, label) ==
    /\ Begin(h)
    /\ Lock(h)
    /\ Exists(feature_flags[k])
    /\ Goto(h, label, [Recording(k, ProjectOf[k], f) EXCEPT
                          !.read = feature_flags[k], !.cr = c])
    /\ UNCHANGED <<tables, clock, nextHash, nextLife, faults, history>>

ToggleFlagByProject(h, k, env, enabled) ==
    LET f == feature_flags[k]
    IN  ReadLocked(h, k, WithConfig(f, env, [f.envs[env] EXCEPT !.enabled = enabled]),
                   NoRequest, "update")

\* The percentage is stored as it comes.
UpdateRolloutByProject(h, k, env, pct) ==
    LET f == feature_flags[k]
    IN  ReadLocked(h, k, WithConfig(f, env, [f.envs[env] EXCEPT !.pct = pct]),
                   NoRequest, "update")

DeleteFlagByProject(h, k) == ReadLocked(h, k, feature_flags[k], NoRequest, "delete")

ApplyChangeRequest(h, c) ==
    LET cr == change_requests[c]
        f  == feature_flags[cr.key]
    IN  /\ MayApply(cr, f)
        /\ ReadLocked(h, cr.key, WithConfig(f, cr.env, cr.proposed), c, "update")

\* The UPDATE of a toggle, a rollout or an application.
UpdateRow(h) ==
    LET f == frame[h]
        row == feature_flags[f.key]
        new == IF Exists(row) /\ row.life = f.read.life
               THEN [row EXCEPT !.ver = @ + 1, !.envs = f.write.envs] ELSE row
    IN  /\ pc[h] = "update"
        /\ feature_flags' = [feature_flags EXCEPT ![f.key] = new]
        /\ Goto(h, IF f.cr = NoRequest THEN "audit" ELSE "mark", [f EXCEPT !.write = new])
        /\ landed' = IF f.cr = NoRequest THEN landed
                     ELSE [landed EXCEPT ![f.cr] = @ \cup {f.read.life}]
        /\ UNCHANGED <<change_requests, api_keys, audit_logs, audit_anchors, mu,
                       counters, trail, lost, chainFault, falseAlarm>>

\* Mutant: an application is not audited.
MarkUnaudited(h) ==
    /\ pc[h] = "mark"
    /\ change_requests' = [change_requests EXCEPT ![frame[h].cr].status = "APPLIED"]
    /\ Return(h, "idle", NoFrame)
    /\ UNCHANGED <<feature_flags, api_keys, audit_logs, audit_anchors, counters, history>>

MarkApplied(h) ==
    /\ pc[h] = "mark"
    /\ change_requests' = [change_requests EXCEPT ![frame[h].cr].status = "APPLIED"]
    /\ Goto(h, "audit", frame[h])
    /\ UNCHANGED <<feature_flags, api_keys, audit_logs, audit_anchors, mu, counters,
                   history>>

DeleteRow(h) ==
    LET k == frame[h].key
    IN  /\ pc[h] = "delete"
        /\ IF Exists(feature_flags[k])
           THEN /\ feature_flags' = [feature_flags EXCEPT ![k] = NoFlag]
                /\ Goto(h, "audit", frame[h]) /\ UNCHANGED mu
           ELSE Return(h, "idle", NoFrame) /\ UNCHANGED feature_flags
        /\ UNCHANGED <<change_requests, api_keys, audit_logs, audit_anchors, counters,
                       history>>

-----------------------------------------------------------------------------
\* handleCreateChangeRequest: the flag is read first; the base version travels
\* inside the proposed_config column.  An ID in use is a conflict.
SubmitRead(h, k) == ReadFlag(h, k, "submit")

CreateChangeRequest(h, c, env, proposed, author) ==
    /\ pc[h] = "submit"
    /\ mu = NoHandler /\ UNCHANGED mu
    /\ change_requests' =
            IF change_requests[c].status # "NONE" THEN change_requests
            ELSE [change_requests EXCEPT ![c] =
                    Submitted(frame[h].key, frame[h].read, env, proposed, author)]
    /\ Goto(h, "idle", NoFrame)
    /\ UNCHANGED <<feature_flags, api_keys, audit_logs, audit_anchors, counters, history>>

ReviewChangeRequest(c, u, approved) ==
    /\ ops < MaxOps /\ ops' = ops + 1
    /\ mu = NoHandler /\ UNCHANGED mu
    /\ MayReview(change_requests[c], u)
    /\ change_requests' =
            [change_requests EXCEPT ![c] = Reviewed(change_requests[c], u, approved)]
    /\ UNCHANGED <<feature_flags, api_keys, audit_logs, audit_anchors, pc, frame,
                   clock, nextHash, nextLife, faults, history>>

\* The audit entry names no project, and so joins the default one's chain.
RevokeAPIKeyByProject(h, a) ==
    /\ Begin(h)
    /\ Lock(h)
    /\ api_keys' = api_keys \cup {a}
    /\ Goto(h, "audit", Recording("api-keys", DefaultProject, NoFlag))
    /\ UNCHANGED <<feature_flags, change_requests, audit_logs, audit_anchors, clock,
                   nextHash, nextLife, faults, history>>

-----------------------------------------------------------------------------
\* PurgeAuditLogs: note the hash of the newest entry to go, delete, and write
\* the anchor.  handlePurgeAuditLogs then appends an entry for the purge.
PurgeAuditLogs(h, p, before) ==
    LET gone == Purgeable(p, before)
    IN  /\ Begin(h)
        /\ Lock(h)
        /\ before <= clock
        /\ gone # {}
        /\ audit_logs' = audit_logs \ gone
        /\ pc' = [pc EXCEPT ![h] = "anchor"]
        /\ frame' = [g \in Handlers |->
                IF g = h
                THEN [Recording("audit-logs", p, NoFlag) EXCEPT !.hash = Newest(gone).hash]
                ELSE [frame[g] EXCEPT !.calm = FALSE]]
        /\ UNCHANGED <<feature_flags, change_requests, api_keys, audit_anchors, clock,
                       nextHash, nextLife, faults, history>>

PurgeNothing(h, p, before) ==
    /\ Begin(h)
    /\ mu = NoHandler /\ UNCHANGED mu
    /\ before <= clock
    /\ Purgeable(p, before) = {}
    /\ Goto(h, "record", Recording("audit-logs", p, NoFlag))
    /\ UNCHANGED <<tables, clock, nextHash, nextLife, faults, history>>

\* Mutant: ON CONFLICT DO NOTHING, so a second purge keeps the first anchor.
PurgeAnchorOnce(h) ==
    /\ pc[h] = "anchor"
    /\ audit_anchors' =
            IF audit_anchors[frame[h].proj] # GENESIS THEN audit_anchors
            ELSE [audit_anchors EXCEPT ![frame[h].proj] = frame[h].hash]
    /\ Return(h, "record", frame[h])
    /\ UNCHANGED <<feature_flags, change_requests, api_keys, audit_logs, counters, history>>

PurgeAnchor(h) ==
    /\ pc[h] = "anchor"
    /\ audit_anchors' = [audit_anchors EXCEPT ![frame[h].proj] = frame[h].hash]
    /\ Return(h, "record", frame[h])
    /\ UNCHANGED <<feature_flags, change_requests, api_keys, audit_logs, counters, history>>

AppendAuditLog(h) ==
    /\ pc[h] = "record"
    /\ Lock(h)
    /\ Goto(h, "audit", frame[h])
    /\ UNCHANGED <<tables, counters, history>>

\* VerifyAuditLogIntegrity takes no lock: the rows, and later the anchor.
VerifyRows(h, p) ==
    /\ Begin(h)
    /\ Own(p) # {}
    /\ Goto(h, "verify", [NoFrame EXCEPT !.proj = p, !.rows = Own(p),
                             !.calm = \A g \in Handlers : pc[g] # "anchor"])
    /\ UNCHANGED <<tables, mu, clock, nextHash, nextLife, faults, history>>

VerifyAuditLogIntegrity(h) ==
    LET f == frame[h]
    IN  /\ pc[h] = "verify"
        /\ falseAlarm' = (\/ falseAlarm
                          \/ f.calm /\ ~chainFault /\ ~Valid(f.rows, audit_anchors[f.proj]))
        /\ Goto(h, "idle", NoFrame)
        /\ UNCHANGED <<tables, mu, counters, trail, lost, landed, chainFault>>

-----------------------------------------------------------------------------
\* Reset empties the tables, the anchors excepted, and seeds them through
\* SaveFlag, which waits for the lock that Reset holds.
Reset(h) ==
    /\ Begin(h)
    /\ Lock(h)
    /\ feature_flags' = NoFlags
    /\ change_requests' = [c \in CRIds |-> NoCR]
    /\ api_keys' = {}
    /\ audit_logs' = {}
    /\ landed' = [c \in CRIds |-> {}]
    /\ Goto(h, "save", [NoFrame EXCEPT !.key = SeedKey,
                           !.write = [SeedFlag(0) EXCEPT !.ver = 1]])
    /\ UNCHANGED <<audit_anchors, clock, nextHash, nextLife, faults, trail, lost,
                   chainFault, falseAlarm>>

\* The statement a handler is at fails.  Some errors are returned; those of
\* the statements that mark a request, write an anchor or insert an entry are
\* dropped, and the handler goes on.
Lost(h) ==
    IF pc[h] \in {"mark", "audit"} /\ frame[h].key \in Keys
    THEN {<<frame[h].key, frame[h].write.life, frame[h].write.ver>>} ELSE {}

Fails(h) ==
    /\ faults < MaxFaults /\ faults' = faults + 1
    /\ \/ pc[h] \in {"update", "delete", "audit"} /\ Return(h, "idle", NoFrame)
       \/ pc[h] = "mark" /\ Goto(h, "audit", frame[h]) /\ UNCHANGED mu
       \/ pc[h] = "anchor" /\ Return(h, "record", frame[h])
    /\ lost' = IF pc[h] = "audit" THEN lost \cup Lost(h) ELSE lost
    /\ chainFault' = (chainFault \/ pc[h] = "anchor")
    /\ UNCHANGED <<tables, clock, nextHash, nextLife, ops, trail, landed, falseAlarm>>

\* The process is killed and started again: NewSQLiteStore finds the tables as
\* the last statement left them, and seeds a default project without flags.
Crash ==
    LET empty == \A k \in Keys : ProjectOf[k] = DefaultProject => ~Exists(feature_flags[k])
    IN  /\ faults < MaxFaults /\ faults' = faults + 1
        /\ mu' = NoHandler
        /\ pc' = [h \in Handlers |-> "idle"]
        /\ frame' = [h \in Handlers |-> NoFrame]
        /\ lost' = lost \cup UNION { Lost(h) : h \in Handlers }
        /\ chainFault' = (\/ chainFault
                          \/ \E h \in Handlers : pc[h] = "anchor"
                          \/ empty /\ \E d \in Own(DefaultProject) : Text(d.ts) > Text(clock))
        /\ IF empty
           THEN /\ feature_flags' = [feature_flags EXCEPT ![SeedKey] = SeedFlag(nextLife)]
                /\ audit_logs' = audit_logs \cup
                        {SeedEntry(nextHash, HeadHash(DefaultProject), clock, nextLife)}
                /\ nextLife' = nextLife + 1 /\ nextHash' = nextHash + 1
                /\ trail' = trail \cup {<<SeedKey, nextLife, 2>>}
           ELSE UNCHANGED <<feature_flags, audit_logs, nextLife, nextHash, trail>>
        /\ UNCHANGED <<change_requests, api_keys, audit_anchors, clock, ops, landed, falseAlarm>>

-----------------------------------------------------------------------------
FlagRequest(h) ==
    \E k \in Keys :
        \/ \E envs \in [Envs -> Payloads], v \in PayloadVers : WriteFlag(h, k, envs, v)
        \/ \E env \in Envs, b \in BOOLEAN : ToggleFlagByProject(h, k, env, b)
        \/ \E env \in Envs, pct \in Pcts : UpdateRolloutByProject(h, k, env, pct)
        \/ DeleteFlagByProject(h, k)
        \/ UpdateRead(h, k)
        \/ PromoteRead(h, k)
        \/ SubmitRead(h, k)

OtherRequest(h) ==
    \/ \E c \in CRIds : ApplyChangeRequest(h, c)
    \/ \E a \in APIKeys : RevokeAPIKeyByProject(h, a)
    \/ \E p \in Projects, before \in 0..clock :
            PurgeAuditLogs(h, p, before) \/ PurgeNothing(h, p, before)
    \/ \E p \in Projects : VerifyRows(h, p)
    \/ Reset(h)

\* The next statement of a request that has begun.
Continue(h) ==
    \/ \E envs \in [Envs -> Payloads], v \in PayloadVers : UpdateSave(h, envs, v)
    \/ \E from, to \in Envs : PromoteSave(h, from, to)
    \/ \E c \in CRIds, env \in Envs, proposed \in Payloads, u \in Users :
            CreateChangeRequest(h, c, env, proposed, u)
    \/ SavePayload(h) \/ UpdateRow(h) \/ DeleteRow(h) \/ MarkApplied(h)
    \/ PurgeAnchor(h) \/ AppendAuditLog(h)
    \/ VerifyAuditLogIntegrity(h)
    \/ insertAuditLog(h)

Next ==
    \/ \E h \in Handlers :
        \/ FlagRequest(h) \/ OtherRequest(h) \/ Continue(h)
        \/ Fails(h) \/ HeadQueryFails(h)
    \/ \E c \in CRIds, u \in Users, b \in BOOLEAN : ReviewChangeRequest(c, u, b)
    \/ Crash

Spec == Init /\ [][Next]_vars

\* A request being served keeps running, and sync.Mutex hands the lock to a
\* waiter that has been starved.
Fairness == \A h \in Handlers : SF_vars(Continue(h))

FairSpec == Spec /\ Fairness

-----------------------------------------------------------------------------
Labels ==
    {"idle", "save", "edit", "promote", "submit", "update", "delete", "mark", "audit",
     "anchor", "record", "verify"}

\* Type invariant: rows, positions and local variables.
TypeOK ==
    /\ feature_flags \in Snapshots
    /\ change_requests \in [CRIds -> ChangeRequests]
    /\ api_keys \subseteq APIKeys
    /\ audit_logs \subseteq Entries
    /\ audit_anchors \in [Projects -> Nat]
    /\ mu \in Handlers \cup {NoHandler}
    /\ pc \in [Handlers -> Labels]
    /\ frame \in [Handlers -> Frames]
    /\ clock \in Nat /\ nextHash \in Nat /\ nextLife \in Nat
    /\ ops \in Nat /\ faults \in Nat
    /\ trail \subseteq Subjects \X Nat \X Nat /\ lost \subseteq Keys \X Nat \X Nat
    /\ landed \in [CRIds -> SUBSET Nat]
    /\ chainFault \in BOOLEAN /\ falseAlarm \in BOOLEAN

\* s.mu makes the read and the write of a toggle, a rollout, a deletion or an
\* application one: the row a handler is about to write is the one it read, so
\* no update is lost and a proposal goes to the version that was reviewed.
WritesAreFresh ==
    \A h \in Handlers :
        pc[h] \in {"update", "delete"} => feature_flags[frame[h].key] = frame[h].read

\* A proposal is written to a flag at most once, although the statement that
\* marks the request APPLIED may fail or never run and leave it APPROVED: the
\* base version is behind by then.
LandsOnce ==
    [][\A h \in Handlers :
        UpdateRow(h) /\ frame[h].cr # NoRequest =>
            frame[h].read.life \notin landed[frame[h].cr]]_vars

\* The audit log misses a flag version only when a failed or unexecuted
\* statement cost it its entry.
OnlyFaultsLoseEntries ==
    mu = NoHandler =>
        \A k \in Keys : LET f == feature_flags[k]
                         IN  Exists(f) => <<k, f.life, f.ver>> \in trail \cup lost

\* A verification that no purge overlaps reports a chain as broken only if a
\* head query or an anchor write failed, or the textual order of timestamps is
\* not the order of insertion: writers, lost entries and crashes elsewhere do
\* not raise a false alarm.
NoFalseAlarm == ~falseAlarm

-----------------------------------------------------------------------------
\* Reset "clears and re-seeds the database", and its request ends.
ResetFinishes ==
    \A h \in Handlers : pc[h] = "save" /\ mu = h ~> pc[h] # "save"
=============================================================================
