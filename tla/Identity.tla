------------------------------ MODULE Identity ------------------------------
(***************************************************************************)
(* The frame of the account and tenant handlers (pkg/api): requests served *)
(* concurrently on one of the three stores, each store call a step.        *)
(*                                                                         *)
(* A SQL store may fail a call (the database is away, the client hung up   *)
(* and its context is cancelled) and its server may be killed and started  *)
(* again between two calls; the in-memory store never fails.               *)
(***************************************************************************)
EXTENDS MemoryIdentity, SQLiteIdentity, PostgresIdentity

CONSTANTS
    Handlers,   \* requests being served
    Requests,   \* the endpoints that are called
    Drivers,    \* the stores NewServer may be given
    Emails,     \* addresses people register with
    Names,      \* names people go by; they need not be different
    Suffixes,   \* the ends of user IDs that go into a slug
    MaxOps,     \* bound: requests served in a behaviour
    MaxFaults,  \* bound: failed calls and restarts
    MaxAges     \* bound: times a session, token or invitation grows older

VARIABLES
    driver,     \* the store main selected
    db,
    task,       \* what each request has read, and the call it makes next
    next,       \* the ID or token generated next
    ops, faults, ages,
    serial,     \* history: no two requests have overlapped
    hist        \* history, see NoHistory in Accounts

vars == <<driver, db, task, next, ops, faults, ages, serial, hist>>

-----------------------------------------------------------------------------

\* main: the in-memory store is taken when no database is configured, and
\* when the configured one cannot be reached.
Of(m, l, p) == IF driver = "memory" THEN m ELSE IF driver = "sqlite" THEN l ELSE p

CreateUser(u) == Of(MemCreateUser(db, u), LiteCreateUser(db, u), PgCreateUser(db, u))
GetUserByEmail(e) ==
    Of(MemGetUserByEmail(db, e), LiteGetUserByEmail(db, e), PgGetUserByEmail(db, e))
GetUserByID(i) ==
    Of(MemGetUserByID(db, i), LiteGetUserByID(db, i), PgGetUserByID(db, i))
UpdateUser(u) == Of(MemUpdateUser(db, u), LiteUpdateUser(db, u), PgUpdateUser(db, u))
UpdateUserPassword(i, pw) ==
    Of(MemUpdateUserPassword(db, i, pw), LiteUpdateUserPassword(db, i, pw),
       PgUpdateUserPassword(db, i, pw))
CreateSession(s) ==
    Of(MemCreateSession(db, s), LiteCreateSession(db, s), PgCreateSession(db, s))
GetSession(t) == Of(MemGetSession(db, t), LiteGetSession(db, t), PgGetSession(db, t))
DeleteSession(t) ==
    Of(MemDeleteSession(db, t), LiteDeleteSession(db, t), PgDeleteSession(db, t))
DeleteUserSessions(i) ==
    Of(MemDeleteUserSessions(db, i), LiteDeleteUserSessions(db, i),
       PgDeleteUserSessions(db, i))
CreatePasswordResetToken(e, t) ==
    Of(MemCreatePasswordResetToken(db, e, t), LiteCreatePasswordResetToken(db, e, t),
       PgCreatePasswordResetToken(db, e, t))
CreateOrganization(o) ==
    Of(MemCreateOrganization(db, o), LiteCreateOrganization(db, o),
       PgCreateOrganization(db, o))
GetOrganization(o) ==
    Of(MemGetOrganization(db, o), LiteGetOrganization(db, o), PgGetOrganization(db, o))
ListUserOrganizations(i) ==
    Of(MemListUserOrganizations(db, i), LiteListUserOrganizations(db, i),
       PgListUserOrganizations(db, i))
CreateProject(p) ==
    Of(MemCreateProject(db, p), LiteCreateProject(db, p), PgCreateProject(db, p))
GetProject(p) == Of(MemGetProject(db, p), LiteGetProject(db, p), PgGetProject(db, p))
ListProjects(o) ==
    Of(MemListProjects(db, o), LiteListProjects(db, o), PgListProjects(db, o))
CreateOrgMember(m) ==
    Of(MemCreateOrgMember(db, m), LiteCreateOrgMember(db, m), PgCreateOrgMember(db, m))
GetOrgMember(o, i) ==
    Of(MemGetOrgMember(db, o, i), LiteGetOrgMember(db, o, i), PgGetOrgMember(db, o, i))
ListOrgMembers(o) ==
    Of(MemListOrgMembers(db, o), LiteListOrgMembers(db, o), PgListOrgMembers(db, o))
CreateOrgInvitation(i) ==
    Of(MemCreateOrgInvitation(db, i), LiteCreateOrgInvitation(db, i),
       PgCreateOrgInvitation(db, i))
GetOrgInvitation(t) ==
    Of(MemGetOrgInvitation(db, t), LiteGetOrgInvitation(db, t),
       PgGetOrgInvitation(db, t))
ListOrgInvitations(o) ==
    Of(MemListOrgInvitations(db, o), LiteListOrgInvitations(db, o),
       PgListOrgInvitations(db, o))
CreateAPIKey(k) ==
    Of(MemCreateAPIKey(db, k), LiteCreateAPIKey(db, k), PgCreateAPIKey(db, k))
GetAPIKeyByID(k) ==
    Of(MemGetAPIKeyByID(db, k), LiteGetAPIKeyByID(db, k), PgGetAPIKeyByID(db, k))
GetAPIKeyByHash(k) ==
    Of(MemGetAPIKeyByHash(db, k), LiteGetAPIKeyByHash(db, k), PgGetAPIKeyByHash(db, k))
ListAPIKeysByProject(p) ==
    Of(MemListAPIKeysByProject(db, p), LiteListAPIKeysByProject(db, p),
       PgListAPIKeysByProject(db, p))
RevokeAPIKeyByProject(p, k) ==
    Of(MemRevokeAPIKeyByProject(db, p, k), LiteRevokeAPIKeyByProject(db, p, k),
       PgRevokeAPIKeyByProject(db, p, k))
SaveOIDCConfig(c) ==
    Of(MemSaveOIDCConfig(db, c), LiteSaveOIDCConfig(db, c), PgSaveOIDCConfig(db, c))
GetOIDCConfig(o) ==
    Of(MemGetOIDCConfig(db, o), LiteGetOIDCConfig(db, o), PgGetOIDCConfig(db, o))
GetOIDCConfigByDomain(e) ==
    Of(MemGetOIDCConfigByDomain(db, e), LiteGetOIDCConfigByDomain(db, e),
       PgGetOIDCConfigByDomain(db, e))
DeleteOIDCConfig(o) ==
    Of(MemDeleteOIDCConfig(db, o), LiteDeleteOIDCConfig(db, o),
       PgDeleteOIDCConfig(db, o))

-----------------------------------------------------------------------------
\* A request between two store calls: what it carries and has read.  back is
\* the handler a shared sequence of calls belongs to.
Idle ==
    [pc |-> "idle", back |-> NoText, uid |-> None, email |-> NoText, name |-> NoText,
     avatar |-> None, pw |-> None, org |-> None, role |-> NoText, token |-> None,
     proj |-> None]
Goto(h, t, l) == task' = [task EXCEPT ![h] = [t EXCEPT !.pc = l]]
Done(h) == task' = [task EXCEPT ![h] = Idle]
At(h, l) == task[h].pc = l

Arrive(h, r) ==
    /\ r \in Requests /\ task[h] = Idle /\ ops < MaxOps
    /\ ops' = ops + 1
    /\ serial' = (serial /\ \A g \in Handlers : task[g] = Idle)
    /\ UNCHANGED <<driver, ages>>
Continue(h, l) == At(h, l) /\ UNCHANGED <<driver, ops, ages, serial>>

\* A store call with result r goes on with Then; on a SQL store it may fail
\* instead, with one of the results bad.
CallOr(r, bad, Then(_)) ==
    /\ \/ Then(r) /\ UNCHANGED faults
       \/ /\ driver # "memory" /\ faults < MaxFaults
          /\ faults' = faults + 1
          /\ \E b \in bad : Then(b)
Call(r, Then(_)) == CallOr(r, {Err(db)}, Then)

\* getUserFromRequest, as every handler behind RequireAuth begins.
Authenticated(h, r, l) ==
    /\ Arrive(h, r)
    /\ \E s \in db.sessions :
         LET Then(o) ==
               /\ db' = o.db
               /\ IF ~o.ok THEN UNCHANGED task
                  ELSE LET u == Some(UsersByID(db, o.val.user)) IN
                       Goto(h, [Idle EXCEPT !.uid = u.id, !.email = u.email,
                                            !.pw = u.pw, !.back = r], l)
         IN Call(GetSession(s.token), Then)
    /\ UNCHANGED <<next, hist>>

\* Time passes for one row.
Older(row) == [row EXCEPT !.age = IF row.age = "fresh" /\ "user" \in DOMAIN row
                                  THEN "old" ELSE "expired"]
GrowOld ==
    /\ ages < MaxAges /\ ages' = ages + 1
    /\ \E t \in {"sessions", "resets", "invites"} : \E row \in db[t] :
         /\ ~IsExpired(row)
         /\ db' = Update(db, t, row, Older(row))
    /\ UNCHANGED <<driver, task, next, ops, faults, serial, hist>>

\* The server is killed and started again: the requests it served are gone.
Restart ==
    /\ driver # "memory" /\ faults < MaxFaults
    /\ \E h \in Handlers : task[h] # Idle
    /\ faults' = faults + 1
    /\ task' = [h \in Handlers |-> Idle]
    /\ UNCHANGED <<driver, db, next, ops, ages, serial, hist>>
=============================================================================
