--------------------------- MODULE PostgresStore ---------------------------
(***************************************************************************)
(* The PostgreSQL store (pkg/store/postgres.go): flags, change requests,   *)
(* API key revocation and the audit log, shared by the handlers of every   *)
(* replica.  The store takes no lock and opens no transaction for these    *)
(* operations, so each SQL statement is a step of its own and statements   *)
(* of different requests interleave freely.                                *)
(*                                                                         *)
(* A request may also end between two statements: its context is cancelled *)
(* when the client goes away, and a replica may be killed (Abort).         *)
(***************************************************************************)
EXTENDS StoreData

CONSTANTS
    Handlers,       \* requests being served, by any replica
    TicksPerMicro,  \* clock readings are this much finer than TIMESTAMPTZ
    MaxAborts       \* bound: requests cut short in a behaviour

ASSUME HandlersAssumption == TicksPerMicro \in Nat \ {0} /\ MaxAborts \in Nat

VARIABLES
    feature_flags,
    change_requests,
    api_keys,       \* the keys whose revoked column is set
    audit_logs,
    audit_anchors,
    pc,             \* the statement each handler executes next
    held,           \* the flag a handler has read, and modified in memory
    heldCR,         \* the change request a handler has read, and its ID
    entry,          \* the audit entry insertAuditLog is working on
    cutoff,         \* PurgeAuditLogs' before argument
    clock, nextSeq, nextLife, ops, aborts,
    serial,         \* history: no two requests overlapped, none was cut short
    trail,          \* history: the flag versions the audit log has recorded
    landed          \* history: requests whose proposal was written to the flag

tables == <<feature_flags, change_requests, api_keys, audit_logs, audit_anchors>>
local == <<held, heldCR, entry, cutoff>>
counters == <<clock, nextSeq, nextLife, ops, aborts>>
history == <<serial, trail, landed>>
vars == <<tables, pc, local, counters, history>>

-----------------------------------------------------------------------------
\* The audit_logs table.  An entry is hashed with the timestamp the program
\* read (nano), and comes back with the one the column holds (ts).
GENESIS == 0
Entries ==
    [seq : Nat, prev : Nat, id : {"log", "audit"} \X Nat, nano : Nat, ts : Nat,
     proj : Projects, key : Subjects, life : Nat, ver : Nat]

\* TIMESTAMPTZ keeps microseconds: a finer value is rounded to the nearest.
Micros(nano) == (2 * nano + TicksPerMicro) \div (2 * TicksPerMicro)

Entry(prefix, nano, p, k, f) ==
    [seq |-> 0, prev |-> GENESIS, id |-> <<prefix, nano>>, nano |-> nano,
     ts |-> Micros(nano), proj |-> p, key |-> k, life |-> f.life, ver |-> f.ver]
NoEntry == Entry("log", 0, CHOOSE p \in Projects : TRUE, "audit-logs", NoFlag)

\* ORDER BY timestamp, id.
Before(d, e) ==
    \/ d.ts < e.ts
    \/ d.ts = e.ts /\ d.id[1] = "audit" /\ e.id[1] = "log"
    \/ d.ts = e.ts /\ d.id[1] = e.id[1] /\ d.id[2] < e.id[2]

Own(p) == { e \in audit_logs : e.proj = p }
Older(e) == { d \in Own(e.proj) : Before(d, e) }
Newest(S) == CHOOSE e \in S : \A d \in S : d = e \/ Before(d, e)
Purgeable(p, before) == { e \in Own(p) : e.ts < before }

\* The hash recomputed from the row equals the stored one when the column
\* gave back the timestamp that was hashed.
HashMatches(e) == e.ts * TicksPerMicro = e.nano

VerifyAuditLogIntegrity(p) ==
    \A e \in Own(p) :
        /\ IF Older(e) = {}
           THEN e.prev \in {audit_anchors[p], GENESIS}
           ELSE e.prev = Newest(Older(e)).seq
        /\ HashMatches(e)

-----------------------------------------------------------------------------
Init ==
    /\ feature_flags = NoFlags
    /\ change_requests = [c \in CRIds |-> NoCR]
    /\ api_keys = {}
    /\ audit_logs = {}
    /\ audit_anchors = [p \in Projects |-> GENESIS]
    /\ pc = [h \in Handlers |-> "idle"]
    /\ held = [h \in Handlers |-> NoHeld]
    /\ heldCR = [h \in Handlers |-> [id |-> "", cr |-> NoCR]]
    /\ entry = [h \in Handlers |-> NoEntry]
    /\ cutoff = [h \in Handlers |-> 0]
    /\ clock = 1 /\ nextSeq = 1 /\ nextLife = 1 /\ ops = 0 /\ aborts = 0
    /\ serial = TRUE /\ trail = {} /\ landed = {}

ReadClock == \E d \in ClockSteps : clock' = clock + d

\* A handler takes a request.
Begin(h) ==
    /\ pc[h] = "idle"
    /\ ops < MaxOps /\ ops' = ops + 1
    /\ serial' = (serial /\ \A g \in Handlers : pc[g] = "idle")

Goto(h, label) == pc' = [pc EXCEPT ![h] = label]

\* The handler forgets what it was working on.
Done(h) ==
    /\ Goto(h, "idle")
    /\ held' = [held EXCEPT ![h] = NoHeld]
    /\ heldCR' = [heldCR EXCEPT ![h] = [id |-> "", cr |-> NoCR]]
    /\ entry' = [entry EXCEPT ![h] = NoEntry]
    /\ cutoff' = [cutoff EXCEPT ![h] = 0]

\* The caller has built its audit entry and calls insertAuditLog.  The ID and
\* the timestamp are clock readings next to the statement before; here, one.
Audit(h, prefix, p, k, f) ==
    /\ ReadClock
    /\ entry' = [entry EXCEPT ![h] = Entry(prefix, clock', p, k, f)]
    /\ Goto(h, "auditSelect")

-----------------------------------------------------------------------------
\* insertAuditLog: read the hash of the newest entry, or failing that the
\* anchor, then insert.  The ID column is the primary key.
AuditSelect(h) ==
    LET own == Own(entry[h].proj)
    IN  /\ pc[h] = "auditSelect"
        /\ IF own = {}
           THEN Goto(h, "auditAnchor") /\ UNCHANGED entry
           ELSE /\ Goto(h, "auditInsert")
                /\ entry' = [entry EXCEPT ![h].prev = Newest(own).seq]
        /\ UNCHANGED <<tables, held, heldCR, cutoff, counters, history>>

AuditAnchor(h) ==
    /\ pc[h] = "auditAnchor"
    /\ entry' = [entry EXCEPT ![h].prev = audit_anchors[entry[h].proj]]
    /\ Goto(h, "auditInsert")
    /\ UNCHANGED <<tables, held, heldCR, cutoff, counters, history>>

AuditInsert(h) ==
    LET e == entry[h]
        taken == \E l \in audit_logs : l.id = e.id
    IN  /\ pc[h] = "auditInsert"
        /\ IF taken THEN UNCHANGED <<audit_logs, nextSeq, trail>>
           ELSE /\ audit_logs' = audit_logs \cup {[e EXCEPT !.seq = nextSeq]}
                /\ nextSeq' = nextSeq + 1
                /\ trail' = trail \cup {<<e.key, e.life, e.ver>>}
        /\ IF ~taken /\ heldCR[h].id # ""
           THEN Goto(h, "markApplied") /\ UNCHANGED local
           ELSE Done(h)
        /\ UNCHANGED <<feature_flags, change_requests, api_keys, audit_anchors,
                       clock, nextLife, ops, aborts, serial, landed>>

-----------------------------------------------------------------------------
\* SaveFlag: one INSERT ... ON CONFLICT, which counts the version in the
\* database.  A payload without an ID (life 0) is given a new one.
Upserted(k, envs, life) ==
    IF Exists(feature_flags[k])
    THEN [feature_flags[k] EXCEPT !.ver = feature_flags[k].ver + 1, !.envs = envs]
    ELSE [life |-> IF life = 0 THEN nextLife ELSE life, ver |-> 1, envs |-> envs]

SaveFlag(h, k, envs, life) ==
    /\ feature_flags' = [feature_flags EXCEPT ![k] = Upserted(k, envs, life)]
    /\ nextLife' = IF life = 0 THEN nextLife + 1 ELSE nextLife
    /\ Audit(h, "log", ProjectOf[k], k, Upserted(k, envs, life))
    /\ UNCHANGED <<change_requests, api_keys, audit_logs, audit_anchors, cutoff,
                   nextSeq, aborts, trail>>

\* handleCreateFlag.
WriteFlag(h, k, envs) ==
    /\ Begin(h)
    /\ SaveFlag(h, k, envs, 0)
    /\ UNCHANGED <<held, heldCR, landed>>

\* GetFlagByProject, on behalf of the operation that goes on at label.
GetFlag(h, k, f, label) ==
    /\ Begin(h)
    /\ Exists(feature_flags[k])
    /\ held' = [held EXCEPT ![h] = [key |-> k, flag |-> f]]
    /\ Goto(h, label)
    /\ UNCHANGED <<tables, heldCR, entry, cutoff, clock, nextSeq, nextLife,
                   aborts, trail, landed>>

\* handleUpdateFlag: the flag must exist, and lends the payload its ID.
UpdateRead(h, k) == GetFlag(h, k, feature_flags[k], "save")

UpdateSave(h, envs) ==
    /\ pc[h] = "save"
    /\ SaveFlag(h, held[h].key, envs, held[h].flag.life)
    /\ UNCHANGED <<held, heldCR, ops, serial, landed>>

\* ToggleFlagByProject and UpdateRolloutByProject change one environment of
\* the flag in memory and write all environments back to the row with its ID.
\* Whether a row was updated is not looked at.
ToggleFlagByProject(h, k, env, enabled) ==
    LET f == feature_flags[k]
    IN  GetFlag(h, k, WithConfig(f, env, [f.envs[env] EXCEPT !.enabled = enabled]), "update")

UpdateRolloutByProject(h, k, env, pct) ==
    LET f == feature_flags[k]
    IN  GetFlag(h, k, WithConfig(f, env, [f.envs[env] EXCEPT !.pct = Clamp(pct)]), "update")

\* Mutant: the version is the one counted in memory.
UpdatedWithOwnVersion(row, f) ==
    IF Exists(row) /\ row.life = f.life
    THEN [row EXCEPT !.ver = f.ver, !.envs = f.envs]
    ELSE row

Updated(row, f) ==
    IF Exists(row) /\ row.life = f.life
    THEN [row EXCEPT !.ver = row.ver + 1, !.envs = f.envs]
    ELSE row

UpdateRow(h) ==
    LET k == held[h].key
        new == Updated(feature_flags[k], held[h].flag)
    IN  /\ pc[h] = "update"
        /\ feature_flags' = [feature_flags EXCEPT ![k] = new]
        /\ Audit(h, "log", ProjectOf[k], k, new)
        /\ UNCHANGED <<change_requests, api_keys, audit_logs, audit_anchors, held,
                       heldCR, cutoff, nextSeq, nextLife, ops, aborts, history>>

DeleteFlagByProject(h, k) == GetFlag(h, k, feature_flags[k], "delete")

DeleteRow(h) ==
    LET k == held[h].key
    IN  /\ pc[h] = "delete"
        /\ IF Exists(feature_flags[k])
           THEN /\ feature_flags' = [feature_flags EXCEPT ![k] = NoFlag]
                /\ Audit(h, "log", ProjectOf[k], k, feature_flags[k])
                /\ UNCHANGED <<held, heldCR, cutoff>>
           ELSE Done(h) /\ UNCHANGED <<feature_flags, clock>>
        /\ UNCHANGED <<change_requests, api_keys, audit_logs, audit_anchors,
                       nextSeq, nextLife, ops, aborts, history>>

\* handlePromoteEnvironment.
PromoteRead(h, k) == GetFlag(h, k, feature_flags[k], "promote")

PromoteSave(h, from, to) ==
    LET f == held[h].flag
    IN  /\ pc[h] = "promote"
        /\ SaveFlag(h, held[h].key, [f.envs EXCEPT ![to] = f.envs[from]], f.life)
        /\ UNCHANGED <<held, heldCR, ops, serial, landed>>

-----------------------------------------------------------------------------
\* handleCreateChangeRequest: an ID already in use is a primary key conflict.
SubmitRead(h, k) == GetFlag(h, k, feature_flags[k], "submit")

CreateChangeRequest(h, c, env, proposed, author) ==
    /\ pc[h] = "submit"
    /\ IF change_requests[c].status # "NONE" THEN UNCHANGED change_requests
       ELSE change_requests' = [change_requests EXCEPT ![c] =
                Submitted(held[h].key, held[h].flag, env, proposed, author)]
    /\ Done(h)
    /\ UNCHANGED <<feature_flags, api_keys, audit_logs, audit_anchors, counters,
                   history>>

\* GetChangeRequest, on behalf of the operation that goes on at label with cr.
GetChangeRequest(h, c, cr, label) ==
    /\ Begin(h)
    /\ heldCR' = [heldCR EXCEPT ![h] = [id |-> c, cr |-> cr]]
    /\ Goto(h, label)
    /\ UNCHANGED <<tables, held, entry, cutoff, clock, nextSeq, nextLife, aborts,
                   trail, landed>>

\* ReviewChangeRequest: read, decide in memory, and update the row whatever
\* its status is by then.
ReviewChangeRequest(h, c, u, approved) ==
    /\ MayReview(change_requests[c], u)
    /\ GetChangeRequest(h, c, Reviewed(change_requests[c], u, approved), "review")

ReviewUpdate(h) ==
    LET c == heldCR[h].id
    IN  /\ pc[h] = "review"
        /\ change_requests' = [change_requests EXCEPT
                ![c].status = heldCR[h].cr.status,
                ![c].reviewer = heldCR[h].cr.reviewer]
        /\ Done(h)
        /\ UNCHANGED <<feature_flags, api_keys, audit_logs, audit_anchors,
                       counters, history>>

\* ApplyChangeRequest: read the request, read the flag, check the version,
\* save the flag that was read (with its audit entry), mark the request.
ApplyChangeRequest(h, c) ==
    /\ change_requests[c].status = "APPROVED"
    /\ GetChangeRequest(h, c, change_requests[c], "applyRead")

\* Mutant: the request is marked before the flag is saved.
ApplyReadMarksFirst(h) ==
    LET cr == heldCR[h].cr
        f  == feature_flags[cr.key]
    IN  /\ pc[h] = "applyRead"
        /\ MayApply(cr, f)
        /\ held' = [held EXCEPT ![h] =
                [key |-> cr.key, flag |-> [f EXCEPT !.envs[cr.env] = cr.proposed]]]
        /\ Goto(h, "applySave")
        /\ change_requests' = [change_requests EXCEPT ![heldCR[h].id].status = "APPLIED"]
        /\ UNCHANGED <<feature_flags, api_keys, audit_logs, audit_anchors, heldCR,
                       entry, cutoff, counters, history>>

ApplyRead(h) ==
    LET cr == heldCR[h].cr
        f  == feature_flags[cr.key]
    IN  /\ pc[h] = "applyRead"
        /\ IF MayApply(cr, f)
           THEN /\ held' = [held EXCEPT ![h] =
                        [key |-> cr.key, flag |-> [f EXCEPT !.envs[cr.env] = cr.proposed]]]
                /\ Goto(h, "applySave")
                /\ UNCHANGED <<heldCR, entry, cutoff>>
           ELSE Done(h)
        /\ UNCHANGED <<tables, counters, history>>

ApplySave(h) ==
    /\ pc[h] = "applySave"
    /\ SaveFlag(h, held[h].key, held[h].flag.envs, held[h].flag.life)
    /\ landed' = landed \cup {heldCR[h].id}
    /\ UNCHANGED <<held, heldCR, ops, serial>>

MarkApplied(h) ==
    /\ pc[h] = "markApplied"
    /\ change_requests' = [change_requests EXCEPT ![heldCR[h].id].status = "APPLIED"]
    /\ Done(h)
    /\ UNCHANGED <<feature_flags, api_keys, audit_logs, audit_anchors, counters,
                   history>>

-----------------------------------------------------------------------------
RevokeAPIKeyByProject(h, a) ==
    /\ Begin(h)
    /\ api_keys' = api_keys \cup {a}
    /\ Audit(h, "audit", ProjectOf[a], "api-keys", NoFlag)
    /\ UNCHANGED <<feature_flags, change_requests, audit_logs, audit_anchors, held,
                   heldCR, cutoff, nextSeq, nextLife, aborts, trail, landed>>

\* PurgeAuditLogs: pick the hash of the newest entry to go, delete, write the
\* anchor; then the handler records the purge.
PurgeSelect(h, p, before) ==
    LET gone == Purgeable(p, before)
    IN  /\ Begin(h)
        /\ before * TicksPerMicro <= clock
        /\ cutoff' = [cutoff EXCEPT ![h] = before]
        /\ entry' = [entry EXCEPT ![h] =
                [Entry("log", 0, p, "audit-logs", NoFlag) EXCEPT
                    !.prev = IF gone = {} THEN GENESIS ELSE Newest(gone).seq]]
        /\ Goto(h, "purgeDelete")
        /\ UNCHANGED <<tables, held, heldCR, clock, nextSeq, nextLife, aborts,
                       trail, landed>>

PurgeDelete(h) ==
    LET gone == Purgeable(entry[h].proj, cutoff[h])
    IN  /\ pc[h] = "purgeDelete"
        /\ audit_logs' = audit_logs \ gone
        /\ Goto(h, IF gone # {} /\ entry[h].prev # GENESIS
                   THEN "purgeAnchor" ELSE "purgeRecord")
        /\ UNCHANGED <<feature_flags, change_requests, api_keys, audit_anchors,
                       local, counters, history>>

\* Mutant: ON CONFLICT DO NOTHING, so a second purge keeps the first anchor.
PurgeAnchorOnce(h) ==
    /\ pc[h] = "purgeAnchor"
    /\ audit_anchors' =
            IF audit_anchors[entry[h].proj] # GENESIS THEN audit_anchors
            ELSE [audit_anchors EXCEPT ![entry[h].proj] = entry[h].prev]
    /\ Goto(h, "purgeRecord")
    /\ UNCHANGED <<feature_flags, change_requests, api_keys, audit_logs, local,
                   counters, history>>

PurgeAnchor(h) ==
    /\ pc[h] = "purgeAnchor"
    /\ audit_anchors' = [audit_anchors EXCEPT ![entry[h].proj] = entry[h].prev]
    /\ Goto(h, "purgeRecord")
    /\ UNCHANGED <<feature_flags, change_requests, api_keys, audit_logs, local,
                   counters, history>>

PurgeRecord(h) ==
    /\ pc[h] = "purgeRecord"
    /\ Audit(h, "log", entry[h].proj, "audit-logs", NoFlag)
    /\ UNCHANGED <<tables, held, heldCR, cutoff, nextSeq, nextLife, ops, aborts,
                   history>>

\* Reset: one TRUNCATE of three tables; change requests stay.
Reset(h) ==
    /\ Begin(h)
    /\ feature_flags' = NoFlags
    /\ audit_logs' = {}
    /\ audit_anchors' = [p \in Projects |-> GENESIS]
    /\ UNCHANGED <<change_requests, api_keys, pc, local, clock, nextSeq, nextLife,
                   aborts, trail, landed>>

\* The rest of the request is lost: context cancelled, or replica killed.
Abort(h) ==
    /\ pc[h] # "idle"
    /\ aborts < MaxAborts /\ aborts' = aborts + 1
    /\ Done(h)
    /\ serial' = FALSE
    /\ UNCHANGED <<tables, clock, nextSeq, nextLife, ops, trail, landed>>

-----------------------------------------------------------------------------
FlagRequest(h) ==
    \E k \in Keys :
        \/ \E envs \in [Envs -> Payloads] : WriteFlag(h, k, envs)
        \/ \E env \in Envs, b \in BOOLEAN : ToggleFlagByProject(h, k, env, b)
        \/ \E env \in Envs, pct \in Pcts : UpdateRolloutByProject(h, k, env, pct)
        \/ DeleteFlagByProject(h, k)
        \/ UpdateRead(h, k)
        \/ PromoteRead(h, k)
        \/ SubmitRead(h, k)

OtherRequest(h) ==
    \/ \E c \in CRIds, u \in Users, b \in BOOLEAN : ReviewChangeRequest(h, c, u, b)
    \/ \E c \in CRIds : ApplyChangeRequest(h, c)
    \/ \E a \in APIKeys : RevokeAPIKeyByProject(h, a)
    \/ \E p \in Projects, before \in 0..clock : PurgeSelect(h, p, before)
    \/ Reset(h)

\* The next statement of a request that has begun.
Continue(h) ==
    \/ \E envs \in [Envs -> Payloads] : UpdateSave(h, envs)
    \/ UpdateRow(h)
    \/ DeleteRow(h)
    \/ \E from, to \in Envs : PromoteSave(h, from, to)
    \/ \E c \in CRIds, env \in Envs, proposed \in Payloads, u \in Users :
            CreateChangeRequest(h, c, env, proposed, u)
    \/ ReviewUpdate(h)
    \/ ApplyRead(h) \/ ApplySave(h) \/ MarkApplied(h)
    \/ PurgeDelete(h) \/ PurgeAnchor(h) \/ PurgeRecord(h)
    \/ AuditSelect(h) \/ AuditAnchor(h) \/ AuditInsert(h)

Next == \E h \in Handlers : FlagRequest(h) \/ OtherRequest(h) \/ Continue(h) \/ Abort(h)

Spec == Init /\ [][Next]_vars

-----------------------------------------------------------------------------
\* Type invariant: rows, local copies and positions.
TypeOK ==
    /\ feature_flags \in Snapshots
    /\ change_requests \in [CRIds -> ChangeRequests]
    /\ api_keys \subseteq APIKeys
    /\ audit_logs \subseteq Entries
    /\ audit_anchors \in [Projects -> Nat]
    /\ pc \in [Handlers -> {"idle", "save", "update", "delete", "promote", "submit", "review",
                            "applyRead", "applySave", "markApplied", "purgeDelete",
                            "purgeAnchor", "purgeRecord", "auditSelect",
                            "auditAnchor", "auditInsert"}]
    /\ held \in [Handlers -> Held]
    /\ heldCR \in [Handlers -> [id : CRIds \cup {""}, cr : ChangeRequests]]
    /\ entry \in [Handlers -> Entries]
    /\ cutoff \in [Handlers -> Nat]
    /\ clock \in Nat /\ nextSeq \in Nat /\ nextLife \in Nat
    /\ ops \in Nat /\ aborts \in Nat
    /\ serial \in BOOLEAN
    /\ trail \subseteq Subjects \X Nat \X Nat
    /\ landed \subseteq CRIds

\* Every write to a row that stays in place counts: the version is computed
\* by the database from the row, so statements of requests that hold an old
\* copy of the flag cannot repeat or skip a version.
VersionsCountWrites ==
    [][\A k \in Keys :
        LET f == feature_flags[k]
            g == feature_flags'[k]
        IN  Exists(f) /\ Exists(g) /\ g # f => g.life = f.life /\ g.ver = f.ver + 1]_vars

\* Nobody reviews their own request, whichever reviews and applications
\* overlap: a request past review has a reviewer other than its author.
FourEyes ==
    \A c \in CRIds :
        LET cr == change_requests[c]
        IN  cr.status \in {"APPROVED", "REJECTED", "APPLIED"} => cr.reviewer # cr.author

\* A request is only marked APPLIED after its proposal was written to the
\* flag, even when requests are cut short between the two.
AppliedHasLanded ==
    \A c \in CRIds : change_requests[c].status = "APPLIED" => c \in landed

ChainsVerify == \A p \in Projects : VerifyAuditLogIntegrity(p)

\* Requests served one after the other, purges included, leave a log that
\* VerifyAuditLogIntegrity accepts.
SerialChainsVerify == serial /\ (\A h \in Handlers : pc[h] = "idle") => ChainsVerify

-----------------------------------------------------------------------------
\* The audit specification: concurrent mutations order their insertions, so
\* the chain does not branch.
ConcurrentChainsVerify == (\A h \in Handlers : pc[h] = "idle") => ChainsVerify

\* ComputeAuditEntryHash is deterministic, so the verification of an entry
\* gives the hash that was stored with it.
HashesRoundTrip == \A e \in audit_logs : HashMatches(e)

\* ChangeRequest.Review refuses a request that is not pending.
ReviewedWhilePending ==
    [][\A c \in CRIds :
        /\ change_requests'[c] # change_requests[c]
        /\ change_requests'[c].status \in {"APPROVED", "REJECTED"}
        => change_requests[c].status = "PENDING"]_vars

\* The conflict error of ApplyChangeRequest: the flag has not been modified
\* since the request was written.
AppliedToReviewedVersion ==
    [][\A h \in Handlers :
        ApplySave(h) => LET cr == heldCR[h].cr
                        IN  feature_flags[cr.key].ver = cr.base]_vars

\* Environments are independent: a toggle or rollout of one environment
\* leaves the others as they are.
UpdateIsLocal ==
    [][\A h \in Handlers : UpdateRow(h) =>
        \E env \in Envs : \A e \in Envs \ {env} :
            LET k == held[h].key
            IN  feature_flags'[k].envs[e] = feature_flags[k].envs[e]]_vars

\* A flag write and its audit entry are one transaction: with no request in
\* progress, the version of every flag has been recorded.
WritesAreAudited ==
    (\A h \in Handlers : pc[h] = "idle") =>
        \A k \in Keys : LET f == feature_flags[k]
                         IN  Exists(f) => <<k, f.life, f.ver>> \in trail
=============================================================================
