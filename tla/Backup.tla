------------------------------- MODULE Backup -------------------------------
(***************************************************************************)
(* Snapshots of a store and their restoration (pkg/store/backup.go, the    *)
(* export and import handlers of pkg/api/handlers_backup.go), while the    *)
(* store is in use.                                                        *)
(*                                                                         *)
(* CreateSnapshot makes one store call after another and takes no lock, so *)
(* every call is a step and other requests write in between.  Restore      *)
(* makes one call for each row and ignores its outcome.  The audit entries *)
(* and canary schedules of a snapshot are left out.                        *)
(***************************************************************************)
EXTENDS MemoryIdentity, SQLiteIdentity, PostgresIdentity, Sequences

CONSTANTS
    Drivers,     \* the stores a server may be started on
    MaxWrites,   \* bound: writes of other requests
    MaxImports   \* bound: restorations

VARIABLES
    driver, db,
    flags,       \* the value of each project's flag: a set of <<project, value>>
    snap,        \* the rows exported so far, or those of the finished snapshot
    pc,          \* what the export or the import does next
    stage,       \* the table an import has come to, as a place in RestoreOrder
    todo,        \* the rows the present loop has still to visit
    next, writes, imports,
    fresh,       \* history: the store is "new", "restored" by a whole import since
                 \* then, or has been "used"
    revoked      \* history: the keys reported revoked in this store

vars == <<driver, db, flags, snap, pc, stage, todo, next, writes, imports, fresh, revoked>>

Of(m, l, p) == IF driver = "memory" THEN m ELSE IF driver = "sqlite" THEN l ELSE p

\* What a store has before anyone uses it: the SQL stores are seeded.
Seeded(d) ==
    IF d = "memory" THEN EmptyDB
    ELSE [EmptyDB EXCEPT
            !.orgs = {NewOrganization(DefaultOrgID, DefaultSlug)},
            !.projects = {NewProject(DefaultProjectID, DefaultOrgID, DefaultSlug)}]

NoSnapshot == [orgs |-> {}, members |-> {}, projects |-> {}, flags |-> {}, users |-> {},
               keys |-> {}]

-----------------------------------------------------------------------------
\* Other requests.  Each is one store call.
Write(o) ==
    /\ writes < MaxWrites /\ writes' = writes + 1
    /\ db' = o.db
    /\ next' = next + 1
    /\ fresh' = "used"
    /\ UNCHANGED <<driver, snap, pc, stage, todo, imports>>

AddUser ==
    LET u == NewUser(next, "bob", next, "bob", None) IN
    /\ Write(Of(MemCreateUser(db, u), LiteCreateUser(db, u), PgCreateUser(db, u)))
    /\ UNCHANGED <<flags, revoked>>

AddMember ==
    /\ \E o \in db.orgs, u \in db.users, r \in {"owner", "developer"} :
         LET m == Member(next, o.id, u.id, r)
         IN Write(Of(MemCreateOrgMember(db, m), LiteCreateOrgMember(db, m),
                     PgCreateOrgMember(db, m)))
    /\ UNCHANGED <<flags, revoked>>

AddProject ==
    /\ \E o \in db.orgs :
         LET p == NewProject(next, o.id, <<"new", 0>>)
         IN Write(Of(MemCreateProject(db, p), LiteCreateProject(db, p),
                     PgCreateProject(db, p)))
    /\ UNCHANGED <<flags, revoked>>

AddKey ==
    /\ \E p \in db.projects :
         LET k == APIKey(next, next, p.id, RoleDeveloper, 3)
         IN Write(Of(MemCreateAPIKey(db, k), LiteCreateAPIKey(db, k), PgCreateAPIKey(db, k)))
    /\ UNCHANGED <<flags, revoked>>

RevokeKey ==
    /\ \E k \in db.keys :
         LET o == Of(MemRevokeAPIKeyByProject(db, k.project, k.id),
                     LiteRevokeAPIKeyByProject(db, k.project, k.id),
                     PgRevokeAPIKeyByProject(db, k.project, k.id))
         IN Write(o) /\ revoked' = revoked \cup {k.id}
    /\ UNCHANGED flags

SetFlag(S, p, v) == { f \in S : f[1] # p } \cup {<<p, v>>}
ChangeFlag ==
    /\ \E p \in db.projects : flags' = SetFlag(flags, p.id, next)
    /\ Write(Ok(db, None))
    /\ UNCHANGED revoked

-----------------------------------------------------------------------------
\* CreateSnapshot.
Export(l) == pc = l /\ UNCHANGED <<driver, db, flags, stage, next, writes, imports,
                                     fresh, revoked>>

ExportOrgs ==
    /\ Export("idle") /\ snap = NoSnapshot
    /\ LET orgs == Of(MemListOrganizations(db), LiteListOrganizations(db),
                      PgListOrganizations(db))
       IN snap' = [NoSnapshot EXCEPT !.orgs = orgs] /\ todo' = { o.id : o \in orgs }
    /\ pc' = "members"

\* For each organization its members, then its projects,
ExportMembers ==
    /\ Export("members") /\ UNCHANGED todo
    /\ IF todo = {} THEN pc' = "default" /\ UNCHANGED snap
       ELSE LET o == Some(todo) IN
            /\ snap' = [snap EXCEPT !.members = @ \cup
                          Of(MemListOrgMembers(db, o), LiteListOrgMembers(db, o),
                             PgListOrgMembers(db, o))]
            /\ pc' = "projects"

ExportProjects ==
    /\ Export("projects")
    /\ LET o == Some(todo) IN
         /\ snap' = [snap EXCEPT !.projects = @ \cup
                       Of(MemListProjects(db, o), LiteListProjects(db, o),
                          PgListProjects(db, o))]
         /\ todo' = todo \ {o}
    /\ pc' = "members"

\* the default project unless that was one of them,
ExportDefault ==
    /\ Export("default")
    /\ LET g == Of(MemGetProject(db, DefaultProjectID), LiteGetProject(db, DefaultProjectID),
                   PgGetProject(db, DefaultProjectID))
           have == \E p \in snap.projects : p.id = DefaultProjectID
       IN snap' = [snap EXCEPT !.projects = IF have \/ ~g.ok THEN @ ELSE @ \cup {g.val}]
    /\ todo' = { p.id : p \in snap'.projects }
    /\ pc' = "flags"

\* the flags of each project,
ExportFlags ==
    /\ Export("flags")
    /\ IF todo = {} THEN pc' = "users" /\ UNCHANGED <<snap, todo>>
       ELSE LET p == Some(todo) IN
            /\ snap' = [snap EXCEPT !.flags = @ \cup { f \in flags : f[1] = p }]
            /\ todo' = todo \ {p}
            /\ UNCHANGED pc

\* the users, and the keys of every project without their hashes.
ExportUsers ==
    /\ Export("users") /\ UNCHANGED todo
    /\ snap' = [snap EXCEPT !.users = Of(MemListUsers(db), LiteListUsers(db),
                                         PgListUsers(db))]
    /\ pc' = "keys"

ExportKeys ==
    /\ Export("keys") /\ UNCHANGED todo
    /\ snap' = [snap EXCEPT !.keys = Of(MemListAPIKeys(db), LiteListAPIKeys(db),
                                        PgListAPIKeys(db))]
    /\ pc' = "kept"

-----------------------------------------------------------------------------
\* The store is replaced by an unused one: the in-memory store loses its rows
\* when the server stops, and a deployment moves to another database.
Replace ==
    /\ pc = "kept" /\ fresh # "new"
    /\ driver' \in Drivers
    /\ db' = Seeded(driver')
    /\ flags' = {} /\ revoked' = {}
    /\ fresh' = "new"
    /\ UNCHANGED <<snap, pc, stage, todo, next, writes, imports>>

\* Mutant: members are written before the users they refer to.
RestoreMembersFirst == <<"orgs", "members", "users", "projects", "keys", "flags">>

\* RestoreSnapshot: every row of a table in turn, then the next table.
RestoreOrder == <<"orgs", "users", "members", "projects", "keys", "flags">>

StartImport ==
    /\ pc = "kept" /\ imports < MaxImports /\ imports' = imports + 1
    /\ pc' = "import" /\ stage' = 1
    /\ todo' = snap[RestoreOrder[1]]
    /\ UNCHANGED <<driver, db, flags, snap, next, writes, fresh, revoked>>

CreateRow(t, r) ==
    CASE t = "orgs" -> Of(MemCreateOrganization(db, r), LiteCreateOrganization(db, r),
                          PgCreateOrganization(db, r))
      [] t = "users" -> Of(MemCreateUser(db, r), LiteCreateUser(db, r),
                           PgCreateUser(db, r))
      [] t = "members" -> LET m == [r EXCEPT !.cur = TRUE] IN
                          Of(MemCreateOrgMember(db, m), LiteCreateOrgMember(db, m),
                             PgCreateOrgMember(db, m))
      [] t = "projects" -> Of(MemCreateProject(db, r), LiteCreateProject(db, r),
                              PgCreateProject(db, r))
      [] t = "keys" -> Of(MemCreateAPIKey(db, r), LiteCreateAPIKey(db, r),
                          PgCreateAPIKey(db, r))

ImportRow ==
    /\ pc = "import" /\ todo # {}
    /\ \E r \in todo :
         /\ todo' = todo \ {r}
         /\ IF RestoreOrder[stage] = "flags"
            THEN flags' = SetFlag(flags, r[1], r[2]) /\ UNCHANGED db
            ELSE db' = CreateRow(RestoreOrder[stage], r).db /\ UNCHANGED flags
    /\ UNCHANGED <<driver, snap, pc, stage, next, writes, imports, fresh, revoked>>

ImportNext ==
    /\ pc = "import" /\ todo = {}
    /\ IF stage = Len(RestoreOrder)
       THEN /\ pc' = "kept" /\ stage' = 0 /\ UNCHANGED todo
            /\ fresh' = IF fresh = "new" THEN "restored" ELSE fresh
       ELSE /\ stage' = stage + 1 /\ todo' = snap[RestoreOrder[stage + 1]]
            /\ UNCHANGED <<pc, fresh>>
    /\ UNCHANGED <<driver, db, flags, snap, next, writes, imports, revoked>>

-----------------------------------------------------------------------------
Init ==
    /\ driver \in Drivers
    /\ db = [Seeded(driver) EXCEPT
               !.users = {NewUser(3, "ann", 3, "kim", None)},
               !.orgs = @ \cup {NewOrganization(4, <<"kim", 1>>)},
               !.members = {Member(5, 4, 3, "owner")},
               !.projects = @ \cup {NewProject(6, 4, <<"prod", 0>>)},
               !.keys = {APIKey(9, 9, 6, RoleAdmin, 3)}]
    /\ flags = {<<6, 0>>}
    /\ snap = NoSnapshot
    /\ pc = "idle" /\ stage = 0 /\ todo = {}
    /\ next = 20 /\ writes = 0 /\ imports = 0
    /\ fresh = "used"
    /\ revoked = {}

Requests == AddUser \/ AddMember \/ AddProject \/ AddKey \/ RevokeKey \/ ChangeFlag
Exports == \/ ExportOrgs \/ ExportMembers \/ ExportProjects \/ ExportDefault
           \/ ExportFlags \/ ExportUsers \/ ExportKeys
Imports == StartImport \/ ImportRow \/ ImportNext

Next == Requests \/ Exports \/ Replace \/ Imports

Spec == Init /\ [][Next]_vars

-----------------------------------------------------------------------------
IDs(S) == { r.id : r \in S }
Pairs(S) == { <<m.org, m.user>> : m \in S }

\* The memberships and projects of a snapshot refer to organizations and
\* users of the snapshot, whatever was written while it was taken: the tables
\* are read in an order in which later ones hold what earlier ones need.  The
\* default project of the in-memory store has an organization that is stored
\* nowhere.
SnapshotClosed ==
    pc = "kept" =>
        /\ \A m \in snap.members : m.org \in IDs(snap.orgs) /\ m.user \in IDs(snap.users)
        /\ \A p \in snap.projects : p.org \in IDs(snap.orgs) \/ p.id = DefaultProjectID

\* Restoring any snapshot into an unused store, of whatever kind, brings back
\* every organization, user, membership, project and flag, with the role of
\* each member that has one; of the keys a SQL store takes only the first.
RestoreRebuilds ==
    fresh = "restored" /\ pc = "kept" =>
        /\ IDs(snap.orgs) \subseteq IDs(db.orgs)
        /\ IDs(snap.users) \subseteq IDs(db.users)
        /\ IDs(snap.projects) \subseteq IDs(db.projects)
        /\ Pairs(snap.members) = Pairs(db.members)
        /\ \A m \in snap.members :
             (\A n \in snap.members : <<n.org, n.user>> = <<m.org, m.user>> => n = m) =>
                 \E n \in MembersOf(db, m.org, m.user) : n.role = m.role
        /\ snap.flags = flags
        /\ IF driver = "memory" THEN IDs(db.keys) = IDs(snap.keys)
           ELSE Cardinality(db.keys) = IF snap.keys = {} THEN 0 ELSE 1

\* A key that was reported revoked is not accepted again, also after a
\* restoration over the store it was revoked in.  In the in-memory store a
\* second restoration brings it back: the first one took the hash from the
\* row, so revoking did not find its index entry.
RevokedStaysOut ==
    (driver = "memory" => imports < 2) =>
        \A k \in revoked : ~Of(MemGetAPIKeyByHash(db, k), LiteGetAPIKeyByHash(db, k),
                              PgGetAPIKeyByHash(db, k)).ok

\* "streams an atomic relational snapshot of the database"
\* (handlers_backup.go): every key in it belongs to a project in it.
SnapshotAtomic ==
    pc = "kept" => \A k \in snap.keys : k.project \in IDs(snap.projects)
=============================================================================
