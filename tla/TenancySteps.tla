---------------------------- MODULE TenancySteps ----------------------------
(***************************************************************************)
(* What the steps of Tenancy (and of Accounts, which it extends) do, for   *)
(* every set of handlers, requests, addresses, names and drivers, however  *)
(* many calls fail, requests overlap, or rows expire.                      *)
(*                                                                         *)
(* Turn(h, T, H) frames a step of the request h: the tables and histories  *)
(* it may change.  Steps says that every step is one of three kinds,       *)
(* Touches which of them change what, and AllSteps where a request goes    *)
(* next and for whom.                                                      *)
(*                                                                         *)
(* Core is the inductive invariant the other stories rest on: who has an   *)
(* account (UsersInv), whom requests and sessions belong to (OwnersInv),   *)
(* and which reset tokens have been spent (ResetsInv).                     *)
(***************************************************************************)
EXTENDS Tenancy, TLAPS

\* Every leaf is first-order and left to Zenon, unless it cites SMT (arithmetic
\* and records) or PTL (temporal steps).
USE ZenonT(60) DEF None, Ok, Err


-----------------------------------------------------------------------------
(* Shapes, and what one request's step leaves alone.                       *)

\* r is a record, or another function, with domain F.
Has(r, F) == r = [f \in F |-> r[f]]

Tables == {"users", "sessions", "resets", "orgs", "members", "invites", "projects",
           "keys", "oidc"}
Histories == {"resets", "joined", "renamed", "active", "lost", "revoked"}
Fields == {"pc", "back", "uid", "email", "name", "avatar", "pw", "org", "role", "token",
           "proj"}

\* The database e differs from the present one in the tables T at most.
Only(e, T) == Has(e, Tables) /\ \A t \in Tables \ T : e[t] = db[t]

Base ==
    /\ Has(db, Tables) /\ Has(hist, Histories)
    /\ Has(task, Handlers) /\ \A h \in Handlers : Has(task[h], Fields)
    /\ next \in Nat /\ next >= 20
    /\ faults \in Nat /\ serial \in BOOLEAN
    /\ serial => \A g, h \in Handlers : task[g] # Idle /\ task[h] # Idle => g = h

\* The histories other than H stay as they are.
HistOnly(H) == Has(hist', Histories) /\ \A f \in Histories \ H : hist'[f] = hist[f]

\* A step of request h that changes the tables T and the histories H at most.
\* If no two requests have overlapped, no other one is being served.
Turn(h, T, H) ==
    /\ Only(db', T) /\ HistOnly(H)
    /\ Has(task', Handlers) /\ Has(task'[h], Fields)
    /\ \A g \in Handlers \ {h} : task'[g] = task[g]
    /\ driver' = driver
    /\ next' \in {next, next + 1} /\ faults' \in {faults, faults + 1}
    /\ serial' \in BOOLEAN
    /\ serial' => serial /\ \A g \in Handlers \ {h} : task[g] = Idle

\* Who the request is about goes with it to its next call, one of L.
Carried(t, h) ==
    /\ Has(t, Fields)
    /\ t.uid = task[h].uid /\ t.pw = task[h].pw /\ t.name = task[h].name
    /\ t.email = task[h].email /\ t.back = task[h].back
Moves(h, L) == task'[h] = Idle \/ (task'[h].pc \in L /\ Carried(task'[h], h))

LEMMA TurnBase ==
    ASSUME Base, NEW h \in Handlers, NEW T, NEW H, Turn(h, T, H)
    PROVE  Base'
BY SMT DEF Base, Turn, Only, HistOnly

LEMMA IdleShape == Has(Idle, Fields) /\ Idle.pc = "idle" /\ Idle.uid = None
BY DEF Has, Idle, Fields

\* A step of a request at label l, or of a new one.
LEMMA ContinueSerial ==
    ASSUME Base, NEW h \in Handlers, NEW l, l # "idle", Continue(h, l)
    PROVE  /\ driver' = driver /\ serial' = serial /\ task[h].pc = l /\ task[h] # Idle
           /\ serial' => serial /\ \A g \in Handlers \ {h} : task[g] = Idle
BY IdleShape DEF Base, Continue, At

LEMMA ArriveSerial ==
    ASSUME Base, NEW h \in Handlers, NEW r, Arrive(h, r)
    PROVE  /\ driver' = driver /\ serial' \in BOOLEAN /\ task[h] = Idle
           /\ serial' => serial /\ \A g \in Handlers \ {h} : task[g] = Idle
BY DEF Base, Arrive

\* Goto and Done leave other requests alone.
LEMMA GotoShape ==
    ASSUME Base, NEW h \in Handlers, NEW t, Has(t, Fields), NEW l, Goto(h, t, l)
    PROVE  /\ Has(task', Handlers) /\ Has(task'[h], Fields)
           /\ \A g \in Handlers \ {h} : task'[g] = task[g]
           /\ task'[h].pc = l
           /\ \A f \in Fields \ {"pc"} : task'[h][f] = t[f]
BY DEF Base, Goto, Has, Fields

LEMMA DoneShape ==
    ASSUME Base, NEW h \in Handlers, Done(h)
    PROVE  /\ Has(task', Handlers) /\ Has(task'[h], Fields)
           /\ \A g \in Handlers \ {h} : task'[g] = task[g]
           /\ task'[h] = Idle
BY IdleShape DEF Base, Done, Has

LEMMA StayShape ==
    ASSUME Base, NEW h \in Handlers, task' = task
    PROVE  /\ Has(task', Handlers) /\ Has(task'[h], Fields)
           /\ \A g \in Handlers \ {h} : task'[g] = task[g]
BY DEF Base

LEMMA OnlySame ==
    ASSUME Base, NEW T
    PROVE  Only(db, T)
BY DEF Base, Only

-----------------------------------------------------------------------------
(* The store's operations.                                                 *)

LEMMA Reads ==
    /\ \A e : GetUserByEmail(e).db = db
    /\ \A i : GetUserByID(i).db = db
    /\ \A o : GetOrganization(o).db = db
    /\ \A o, i : GetOrgMember(o, i).db = db
    /\ \A t : GetOrgInvitation(t).db = db
    /\ \A k : GetAPIKeyByID(k).db = db
    /\ \A o : GetOIDCConfig(o).db = db
    /\ \A e : GetOIDCConfigByDomain(e).db = db
    /\ \A t : PgResetCheck(db, t).db = db
    /\ \A t, u : PgAcceptCheck(db, t, u).db = db
<1> USE DEF Of, First
<1>1. \A e : GetUserByEmail(e).db = db
  BY DEF GetUserByEmail, MemGetUserByEmail, LiteGetUserByEmail, PgGetUserByEmail
<1>2. \A i : GetUserByID(i).db = db
  BY DEF GetUserByID, MemGetUserByID, LiteGetUserByID, PgGetUserByID
<1>3. \A o : GetOrganization(o).db = db
  BY DEF GetOrganization, MemGetOrganization, LiteGetOrganization, PgGetOrganization
<1>4. \A o, i : GetOrgMember(o, i).db = db
  BY DEF GetOrgMember, MemGetOrgMember, LiteGetOrgMember, PgGetOrgMember
<1>5. \A t : GetOrgInvitation(t).db = db
  BY DEF GetOrgInvitation, MemGetOrgInvitation, LiteGetOrgInvitation, PgGetOrgInvitation
<1>6. \A k : GetAPIKeyByID(k).db = db
  BY DEF GetAPIKeyByID, MemGetAPIKeyByID, LiteGetAPIKeyByID, PgGetAPIKeyByID
<1>7. \A o : GetOIDCConfig(o).db = db
  BY DEF GetOIDCConfig, MemGetOIDCConfig, LiteGetOIDCConfig, PgGetOIDCConfig
<1>8. \A e : GetOIDCConfigByDomain(e).db = db
  BY DEF GetOIDCConfigByDomain, MemGetOIDCConfigByDomain, LiteGetOIDCConfigByDomain,
         PgGetOIDCConfigByDomain
<1>9. \A t : PgResetCheck(db, t).db = db
  BY DEF PgResetCheck, PgGetPasswordResetToken
<1>10. \A t, u : PgAcceptCheck(db, t, u).db = db
  BY DEF PgAcceptCheck, PgGetOrgInvitation
<1> QED BY <1>1, <1>2, <1>3, <1>4, <1>5, <1>6, <1>7, <1>8, <1>9, <1>10

\* Insert, Update and Delete stay within their table.
LEMMA Within ==
    ASSUME NEW t \in Tables, NEW T, t \in T, NEW d, Only(d, T), NEW S, NEW old, NEW new, NEW clash
    PROVE  /\ Only([d EXCEPT ![t] = S], T)
           /\ Only(Insert(d, t, new, clash).db, T)
           /\ Only(Update(d, t, old, new), T)
           /\ Only(Delete(d, t, S), T)
<1>1. ASSUME NEW R PROVE Only([d EXCEPT ![t] = R], T)
  BY DEF Only, Has
<1>2. Only(Insert(d, t, new, clash).db, T)
  BY <1>1 DEF Insert
<1>3. Only(Update(d, t, old, new), T)
  BY <1>1 DEF Update
<1>4. Only(Delete(d, t, S), T)
  BY <1>1 DEF Delete
<1> QED BY <1>1, <1>2, <1>3, <1>4

LEMMA Writes ==
    ASSUME Has(db, Tables)
    PROVE  /\ \A u : Only(CreateUser(u).db, {"users"})
           /\ \A u : Only(UpdateUser(u).db, {"users"})
           /\ \A i, p : Only(UpdateUserPassword(i, p).db, {"users"})
           /\ \A s : Only(CreateSession(s).db, {"sessions"})
           /\ \A t : Only(GetSession(t).db, {"sessions"})
           /\ \A t : Only(DeleteSession(t).db, {"sessions"})
           /\ \A i : Only(DeleteUserSessions(i).db, {"sessions"})
           /\ \A e, t : Only(CreatePasswordResetToken(e, t).db, {"resets"})
           /\ \A o : Only(CreateOrganization(o).db, {"orgs"})
           /\ \A p : Only(CreateProject(p).db, {"projects"})
           /\ \A m : Only(CreateOrgMember(m).db, {"members"})
           /\ \A i : Only(CreateOrgInvitation(i).db, {"invites"})
           /\ \A k : Only(CreateAPIKey(k).db, {"keys"})
           /\ \A p, k : Only(RevokeAPIKeyByProject(p, k).db, {"keys"})
           /\ \A c : Only(SaveOIDCConfig(c).db, {"oidc"})
           /\ \A o : Only(DeleteOIDCConfig(o).db, {"oidc"})
<1>0. \A t : Only(db, {t})
  BY DEF Only
<1> USE <1>0, Within DEF Tables
<1>1. ASSUME NEW u PROVE Only(CreateUser(u).db, {"users"})
  BY DEF Of, CreateUser, MemCreateUser, LiteCreateUser, PgCreateUser
<1>2. ASSUME NEW u PROVE Only(UpdateUser(u).db, {"users"})
  BY DEF Of, UpdateUser, MemUpdateUser, LiteUpdateUser, PgUpdateUser
<1>3. ASSUME NEW i, NEW p PROVE Only(UpdateUserPassword(i, p).db, {"users"})
  BY DEF Of, UpdateUserPassword, MemUpdateUserPassword, LiteUpdateUserPassword,
     PgUpdateUserPassword
<1>4. ASSUME NEW s PROVE Only(CreateSession(s).db, {"sessions"})
  BY DEF Of, CreateSession, MemCreateSession, LiteCreateSession, PgCreateSession
<1>5. ASSUME NEW t PROVE Only(GetSession(t).db, {"sessions"})
  BY DEF Of, GetSession, MemGetSession, LiteGetSession, PgGetSession, First
<1>6. ASSUME NEW t PROVE Only(DeleteSession(t).db, {"sessions"})
  BY DEF Of, DeleteSession, MemDeleteSession, LiteDeleteSession, PgDeleteSession
<1>7. ASSUME NEW i PROVE Only(DeleteUserSessions(i).db, {"sessions"})
  BY DEF Of, DeleteUserSessions, MemDeleteUserSessions, LiteDeleteUserSessions,
     PgDeleteUserSessions
<1>8. ASSUME NEW e, NEW t PROVE Only(CreatePasswordResetToken(e, t).db, {"resets"})
  BY DEF Of, CreatePasswordResetToken, MemCreatePasswordResetToken,
     LiteCreatePasswordResetToken, PgCreatePasswordResetToken
<1>9. ASSUME NEW o PROVE Only(CreateOrganization(o).db, {"orgs"})
  BY DEF Of, CreateOrganization, MemCreateOrganization, LiteCreateOrganization,
     PgCreateOrganization
<1>10. ASSUME NEW p PROVE Only(CreateProject(p).db, {"projects"})
  BY DEF Of, CreateProject, MemCreateProject, LiteCreateProject, PgCreateProject
<1>11. ASSUME NEW m PROVE Only(CreateOrgMember(m).db, {"members"})
  BY DEF Of, CreateOrgMember, MemCreateOrgMember, LiteCreateOrgMember, PgCreateOrgMember
<1>12. ASSUME NEW i PROVE Only(CreateOrgInvitation(i).db, {"invites"})
  BY DEF Of, CreateOrgInvitation, MemCreateOrgInvitation, LiteCreateOrgInvitation,
     PgCreateOrgInvitation
<1>13. ASSUME NEW k PROVE Only(CreateAPIKey(k).db, {"keys"})
  BY DEF Of, CreateAPIKey, MemCreateAPIKey, LiteCreateAPIKey, PgCreateAPIKey
<1>14. ASSUME NEW p, NEW k PROVE Only(RevokeAPIKeyByProject(p, k).db, {"keys"})
  BY DEF Of, RevokeAPIKeyByProject, MemRevokeAPIKeyByProject, LiteRevokeAPIKeyByProject,
     PgRevokeAPIKeyByProject
<1>15. ASSUME NEW c PROVE Only(SaveOIDCConfig(c).db, {"oidc"})
  BY DEF Of, SaveOIDCConfig, MemSaveOIDCConfig, LiteSaveOIDCConfig, PgSaveOIDCConfig
<1>16. ASSUME NEW o PROVE Only(DeleteOIDCConfig(o).db, {"oidc"})
  BY DEF Of, DeleteOIDCConfig, MemDeleteOIDCConfig, LiteDeleteOIDCConfig, PgDeleteOIDCConfig
<1> QED BY <1>1, <1>2, <1>3, <1>4, <1>5, <1>6, <1>7, <1>8, <1>9, <1>10, <1>11, <1>12,
           <1>13, <1>14, <1>15, <1>16

-----------------------------------------------------------------------------
\* A step at a call of request h.
LEMMA StepTurn ==
    ASSUME Base, NEW h \in Handlers, NEW l, l # "idle", Continue(h, l),
           NEW T, Only(db', T), NEW H, HistOnly(H),
           next' \in {next, next + 1}, faults' \in {faults, faults + 1},
           NEW L, Done(h) \/ \E t, m : m \in L /\ Carried(t, h) /\ Goto(h, t, m)
    PROVE  Turn(h, T, H) /\ Moves(h, L) /\ task[h].pc = l
<1>1. /\ driver' = driver /\ serial' \in BOOLEAN /\ task[h].pc = l
      /\ serial' => serial /\ \A g \in Handlers \ {h} : task[g] = Idle
  BY ContinueSerial DEF Base
<1>2. CASE Done(h)
  BY <1>1, <1>2, DoneShape DEF Turn, Moves
<1>3. ASSUME NEW t, NEW m, m \in L, Carried(t, h), Goto(h, t, m)
      PROVE  Turn(h, T, H) /\ Moves(h, L)
  <2>1. /\ Has(task', Handlers) /\ Has(task'[h], Fields)
        /\ \A g \in Handlers \ {h} : task'[g] = task[g]
        /\ task'[h].pc = m
        /\ \A f \in Fields \ {"pc"} : task'[h][f] = t[f]
    BY SMT, <1>3, GotoShape DEF Carried
  <2>2. Carried(task'[h], h)
    BY <1>3, <2>1 DEF Carried, Fields
  <2> QED BY <1>1, <1>3, <2>1, <2>2 DEF Turn, Moves
<1> QED BY <1>1, <1>2, <1>3

LEMMA CarriedOn ==
    ASSUME Base, NEW h \in Handlers
    PROVE  /\ Carried(task[h], h)
           /\ \A v : Carried([task[h] EXCEPT !.org = v], h)
           /\ \A v : Carried([task[h] EXCEPT !.proj = v], h)
           /\ \A v : Carried([task[h] EXCEPT !.role = v], h)
           /\ \A v : Carried([task[h] EXCEPT !.token = v], h)
           /\ \A v, w : Carried([task[h] EXCEPT !.token = v, !.org = w], h)
           /\ \A v, w : Carried([task[h] EXCEPT !.org = v, !.role = w], h)
<1>1. Has(task[h], Fields)
  BY DEF Base
<1> USE DEF Carried, Has, Fields
<1>2. Carried(task[h], h)
  BY <1>1
<1>3. ASSUME NEW v, NEW w PROVE Carried([task[h] EXCEPT !.org = v], h)
  BY <1>1
<1>4. ASSUME NEW v, NEW w PROVE Carried([task[h] EXCEPT !.proj = v], h)
  BY <1>1
<1>5. ASSUME NEW v, NEW w PROVE Carried([task[h] EXCEPT !.role = v], h)
  BY <1>1
<1>6. ASSUME NEW v, NEW w PROVE Carried([task[h] EXCEPT !.token = v], h)
  BY <1>1
<1>7. ASSUME NEW v, NEW w PROVE Carried([task[h] EXCEPT !.token = v, !.org = w], h)
  BY <1>1
<1>8. ASSUME NEW v, NEW w PROVE Carried([task[h] EXCEPT !.org = v, !.role = w], h)
  BY <1>1
<1> HIDE DEF Carried, Has, Fields
<1> QED BY <1>2, <1>3, <1>4, <1>5, <1>6, <1>7, <1>8

LEMMA CreateOrgTurn ==
    ASSUME Base, NEW h \in Handlers, CreateOrg(h)
    PROVE  /\ Turn(h, {"orgs"}, {}) /\ Moves(h, {}) /\ task[h].pc = "neworg"
           /\ next' = next + 1
<1>1. /\ Continue(h, "neworg") /\ Done(h) /\ next' = next + 1 /\ faults' \in {faults, faults + 1}
      /\ Only(db', {"orgs"}) /\ HistOnly({})
  BY SMT, Writes, OnlySame DEF CreateOrg, Call, CallOr, Base, HistOnly
<1> QED BY <1>1, StepTurn

LEMMA ProvisionOrgTurn ==
    ASSUME Base, NEW h \in Handlers, ProvisionOrg(h)
    PROVE  /\ Turn(h, {"orgs"}, {"lost"}) /\ Moves(h, {"owner"}) /\ task[h].pc = "org"
           /\ next' = next + 1
<1>1. /\ Continue(h, "org") /\ next' = next + 1 /\ faults' \in {faults, faults + 1}
      /\ Only(db', {"orgs"}) /\ (hist' = hist \/ hist' = [hist EXCEPT !.lost = @ \cup {task[h].uid}])
      /\ \/ Goto(h, [task[h] EXCEPT !.org = next], "owner")
         \/ Goto(h, [task[h] EXCEPT !.org = Dangling(task[h].uid)], "owner")
  BY SMT, Writes, OnlySame DEF ProvisionOrg, Call, CallOr, Base
<1>2. HistOnly({"lost"})
  BY <1>1 DEF Base, Has, HistOnly, Histories
<1>3. \E t : Carried(t, h) /\ Goto(h, t, "owner")
  BY <1>1, CarriedOn
<1> QED BY <1>1, <1>2, <1>3, StepTurn

\* A request arrives, and either ends at once or goes on to its next call.
LEMMA ArriveTurn ==
    ASSUME Base, NEW h \in Handlers, NEW r, Arrive(h, r),
           NEW T, Only(db', T), NEW H, HistOnly(H),
           next' \in {next, next + 1}, faults' \in {faults, faults + 1},
           task' = task \/ \E t, m : Has(t, Fields) /\ Goto(h, t, m)
    PROVE  Turn(h, T, H) /\ task[h] = Idle
<1>1. /\ driver' = driver /\ serial' \in BOOLEAN /\ task[h] = Idle
      /\ serial' => serial /\ \A g \in Handlers \ {h} : task[g] = Idle
  BY ArriveSerial DEF Base
<1>2. CASE task' = task
  BY <1>1, <1>2, StayShape DEF Turn
<1>3. ASSUME NEW t, NEW m, Has(t, Fields), Goto(h, t, m)
      PROVE  Turn(h, T, H)
  BY <1>1, <1>3, GotoShape DEF Turn
<1> QED BY <1>1, <1>2, <1>3

\* A new request for nobody in particular.
Anonymous(t) == Has(t, Fields) /\ t.uid = None

LEMMA ArriveAnonymous ==
    ASSUME Base, NEW h \in Handlers, NEW r, Arrive(h, r),
           NEW T, Only(db', T), NEW H, HistOnly(H), NEW l,
           next' \in {next, next + 1}, faults' \in {faults, faults + 1},
           task' = task \/ \E t : Anonymous(t) /\ Goto(h, t, l)
    PROVE  /\ Turn(h, T, H) /\ task[h] = Idle
           /\ task'[h] = Idle \/ (task'[h].pc = l /\ task'[h].uid = None)
<1>1. Turn(h, T, H) /\ task[h] = Idle
  BY ArriveTurn DEF Anonymous
<1>2. ASSUME NEW t, Anonymous(t), Goto(h, t, l)
      PROVE  task'[h].pc = l /\ task'[h].uid = None
  BY SMT, <1>2, GotoShape DEF Anonymous, Fields
<1> QED BY <1>1, <1>2

\* A step that changes no table, or no history.
LEMMA Untouched ==
    ASSUME Base
    PROVE  /\ db' = db => Only(db', {})
           /\ hist' = hist => HistOnly({})
BY DEF Base, Only, HistOnly

LEMMA SignUpTurn ==
    ASSUME Base, NEW h \in Handlers, SignUp(h)
    PROVE  /\ Turn(h, {}, {}) /\ task[h] = Idle
           /\ task'[h] = Idle \/ (task'[h].pc = "create" /\ task'[h].uid = None)
<1>1. /\ Arrive(h, "signup") /\ next' = next /\ hist' = hist
      /\ faults' \in {faults, faults + 1} /\ db' = db
  BY SMT, Reads DEF SignUp, Call, CallOr
<1>2. ASSUME NEW e, NEW n, NEW t,
             Goto(h, [Idle EXCEPT !.back = "signup", !.email = e, !.name = n, !.token = t], "create")
      PROVE  \E x : Anonymous(x) /\ Goto(h, x, "create")
  <2>1. Anonymous([Idle EXCEPT !.back = "signup", !.email = e, !.name = n, !.token = t])
    BY DEF Idle, Has, Fields, Anonymous
  <2> QED BY <1>2, <2>1
<1>3. task' = task \/ \E t : Anonymous(t) /\ Goto(h, t, "create")
  BY <1>2 DEF SignUp, Call, CallOr
<1> QED BY SMT, <1>1, <1>3, ArriveAnonymous, Untouched

LEMMA ForgotTurn ==
    ASSUME Base, NEW h \in Handlers, Forgot(h)
    PROVE  /\ Turn(h, {}, {}) /\ task[h] = Idle
           /\ task'[h] = Idle \/ (task'[h].pc = "forgot" /\ task'[h].uid = None)
<1>1. /\ Arrive(h, "forgot") /\ next' = next /\ hist' = hist
      /\ faults' \in {faults, faults + 1} /\ db' = db
  BY SMT, Reads DEF Forgot, Call, CallOr
<1>2. ASSUME NEW e, Goto(h, [Idle EXCEPT !.email = e], "forgot")
      PROVE  \E x : Anonymous(x) /\ Goto(h, x, "forgot")
  <2>1. Anonymous([Idle EXCEPT !.email = e])
    BY DEF Idle, Has, Fields, Anonymous
  <2> QED BY <1>2, <2>1
<1>3. task' = task \/ \E t : Anonymous(t) /\ Goto(h, t, "forgot")
  BY <1>2 DEF Forgot, Call, CallOr
<1> QED BY SMT, <1>1, <1>3, ArriveAnonymous, Untouched

LEMMA SSOLoginTurn ==
    ASSUME Base, NEW h \in Handlers, SSOLogin(h)
    PROVE  /\ Turn(h, {}, {}) /\ task[h] = Idle
           /\ task'[h] = Idle \/ (task'[h].pc = "ssoCallback" /\ task'[h].uid = None)
<1>1. /\ Arrive(h, "oidc") /\ next' = next /\ hist' = hist
      /\ faults' \in {faults, faults + 1} /\ db' = db
  <2>1. Arrive(h, "oidc") /\ next' = next /\ hist' = hist
    BY DEF SSOLogin
  <2>2. faults' = faults \/ faults' = faults + 1
    BY DEF SSOLogin, Call, CallOr
  <2>3. (\E e : db' = GetOIDCConfigByDomain(e).db) \/ (\E o : db' = GetOIDCConfig(o).db) \/ db' = Err(db).db
    BY DEF SSOLogin, Call, CallOr
  <2> QED BY <2>1, <2>2, <2>3, Reads
<1>2. ASSUME NEW e, NEW n, NEW o,
             Goto(h, [Idle EXCEPT !.back = "oidc", !.email = e, !.name = n, !.org = o],
                  "ssoCallback")
      PROVE  \E x : Anonymous(x) /\ Goto(h, x, "ssoCallback")
  <2>1. Anonymous([Idle EXCEPT !.back = "oidc", !.email = e, !.name = n, !.org = o])
    BY DEF Idle, Has, Fields, Anonymous
  <2> QED BY <1>2, <2>1
<1> DEFINE Gone == task' = task \/ \E t : Anonymous(t) /\ Goto(h, t, "ssoCallback")
<1>3. ASSUME NEW e, NEW n, NEW o,
             IF o.ok /\ o.val.enabled
             THEN Goto(h, [Idle EXCEPT !.back = "oidc", !.email = e, !.name = n,
                                       !.org = o.val.org], "ssoCallback")
             ELSE UNCHANGED task
      PROVE  Gone
  BY <1>2, <1>3
<1> HIDE DEF Gone, Err
<1>4. Gone
  BY <1>3, ZenonT(60) DEF SSOLogin, Call, CallOr
<1> USE DEF Gone
<1> QED BY SMT, <1>1, <1>4, ArriveAnonymous, Untouched

\* A look-up returns a row it was asked for, if there is one.
LEMMA SomeIn == \A S : S # {} => Some(S) \in S
BY DEF Some

LEMMA FoundByEmail ==
    ASSUME NEW e
    PROVE  /\ GetUserByEmail(e).ok => GetUserByEmail(e).val \in UsersByEmail(db, e)
           /\ ~GetUserByEmail(e).ok => UsersByEmail(db, e) = {}
<1>1. GetUserByEmail(e) = IF UsersByEmail(db, e) = {} THEN Err(db)
                          ELSE Ok(db, Some(UsersByEmail(db, e)))
  BY DEF GetUserByEmail, Of, MemGetUserByEmail, LiteGetUserByEmail, PgGetUserByEmail, First
<1> QED BY SMT, <1>1, SomeIn

\* A request on behalf of a user, under the password the user has.
Known(t) == Has(t, Fields) /\ \E u \in db.users : t.uid = u.id /\ t.pw = u.pw

LEMMA LoginTurn ==
    ASSUME Base, NEW h \in Handlers, Login(h)
    PROVE  /\ Turn(h, {}, {}) /\ task[h] = Idle
           /\ task'[h] = Idle \/ (task'[h].pc = "session" /\ Known(task'[h]))
<1>1. /\ Arrive(h, "login") /\ next' = next /\ hist' = hist
      /\ faults' \in {faults, faults + 1} /\ db' = db
  BY SMT, Reads DEF Login, Call, CallOr
<1>2. ASSUME NEW u \in db.users,
             Goto(h, [Idle EXCEPT !.back = "login", !.uid = u.id, !.pw = u.pw], "session")
      PROVE  \E x : Known(x) /\ Goto(h, x, "session")
  <2>1. Known([Idle EXCEPT !.back = "login", !.uid = u.id, !.pw = u.pw])
    BY DEF Idle, Has, Fields, Known
  <2> QED BY <1>2, <2>1
<1> DEFINE Gone == task' = task \/ \E t : Known(t) /\ Goto(h, t, "session")
<1>3. ASSUME NEW o, o.ok => o.val \in db.users,
             IF ~o.ok THEN UNCHANGED task
             ELSE Goto(h, [Idle EXCEPT !.back = "login", !.uid = o.val.id, !.pw = o.val.pw],
                       "session")
      PROVE  Gone
  BY <1>2, <1>3
<1>4. \A e : GetUserByEmail(e).ok => GetUserByEmail(e).val \in db.users
  BY FoundByEmail DEF UsersByEmail
<1>5. Gone
  <2>1. ~Err(db).ok
    OBVIOUS
  <2> HIDE DEF Gone, Err
  <2> QED BY <1>3, <1>4, <2>1, ZenonT(30) DEF Login, Call, CallOr
<1>6. Turn(h, {}, {}) /\ task[h] = Idle
  BY <1>1, <1>5, ArriveTurn, Untouched DEF Known
<1>7. ASSUME NEW t, Known(t), Goto(h, t, "session")
      PROVE  task'[h].pc = "session" /\ Known(task'[h])
  BY SMT, <1>7, GotoShape DEF Known, Fields
<1> QED BY <1>5, <1>6, <1>7

LEMMA OAuthTurn ==
    ASSUME Base, NEW h \in Handlers, OAuth(h)
    PROVE  /\ Turn(h, {}, {}) /\ task[h] = Idle
           /\ \/ task'[h] = Idle
              \/ task'[h].pc = "create" /\ task'[h].uid = None
              \/ /\ task'[h].pc \in {"picture", "session"} /\ Known(task'[h])
                 /\ \E u \in db.users : task'[h].uid = u.id /\ task'[h].name = u.name
<1>1. /\ Arrive(h, "oauth") /\ next' = next /\ hist' = hist
      /\ faults' \in {faults, faults + 1} /\ db' = db
  BY SMT, Reads DEF OAuth, Call, CallOr
<1> DEFINE Named(t) == \E u \in db.users : t.uid = u.id /\ t.name = u.name
           Gone == \/ \E t : Anonymous(t) /\ Goto(h, t, "create")
                   \/ \E t, l : /\ Known(t) /\ Named(t) /\ l \in {"picture", "session"}
                                /\ Goto(h, t, l)
<1>2. ASSUME NEW u \in db.users, NEW l \in {"picture", "session"},
             Goto(h, [Idle EXCEPT !.back = "oauth", !.uid = u.id, !.pw = u.pw,
                                  !.name = u.name], l)
      PROVE  Gone
  <2>1. LET t == [Idle EXCEPT !.back = "oauth", !.uid = u.id, !.pw = u.pw, !.name = u.name]
        IN Known(t) /\ Named(t)
    BY DEF Idle, Has, Fields, Known
  <2> QED BY <1>2, <2>1
<1>3. ASSUME NEW e, NEW n,
             Goto(h, [Idle EXCEPT !.back = "oauth", !.email = e, !.name = n, !.avatar = 1],
                  "create")
      PROVE  Gone
  <2>1. Anonymous([Idle EXCEPT !.back = "oauth", !.email = e, !.name = n, !.avatar = 1])
    BY DEF Idle, Has, Fields, Anonymous
  <2> QED BY <1>3, <2>1
<1> HIDE DEF Gone
<1>5. \A e : GetUserByEmail(e).ok => GetUserByEmail(e).val \in db.users
  BY FoundByEmail DEF UsersByEmail
<1>6. Gone
  <2>1. ~Err(db).ok
    OBVIOUS
  <2> HIDE DEF Err, None
  <2> DEFINE Chosen(e, n, o) ==
               /\ o = GetUserByEmail(e) \/ o = Err(db)
               /\ IF ~o.ok
                  THEN Goto(h, [Idle EXCEPT !.back = "oauth", !.email = e, !.name = n,
                                            !.avatar = 1], "create")
                  ELSE Goto(h, [Idle EXCEPT !.back = "oauth", !.uid = o.val.id, !.pw = o.val.pw,
                                            !.name = o.val.name],
                            IF o.val.avatar = None THEN "picture" ELSE "session")
  <2>0. PICK e \in Emails, n \in Names : \E o : Chosen(e, n, o)
    BY DEF OAuth, Call, CallOr
  <2>2. PICK o : Chosen(e, n, o)
    BY <2>0
  <2>3. o.ok => o.val \in db.users
    BY <1>5, <2>1, <2>2
  <2>4. CASE ~o.ok
    BY <1>3, <2>2, <2>4
  <2>5. CASE o.ok
    BY <1>2, <2>2, <2>3, <2>5
  <2> QED BY <2>4, <2>5
<1> USE DEF Gone
<1>7. Turn(h, {}, {}) /\ task[h] = Idle
  BY <1>1, <1>6, ArriveTurn, Untouched DEF Known, Anonymous
<1>8. ASSUME NEW t, NEW l, Known(t), Named(t), Goto(h, t, l)
      PROVE  task'[h].pc = l /\ Known(task'[h]) /\ Named(task'[h])
  <2>1. /\ Has(task'[h], Fields) /\ task'[h].pc = l
        /\ task'[h].uid = t.uid /\ task'[h].pw = t.pw /\ task'[h].name = t.name
    BY SMT, <1>8, GotoShape DEF Known, Fields
  <2> QED BY <1>8, <2>1 DEF Known
<1>9. ASSUME NEW t, Anonymous(t), Goto(h, t, "create")
      PROVE  task'[h].pc = "create" /\ task'[h].uid = None
  BY SMT, <1>9, GotoShape DEF Anonymous, Fields
<1> QED BY <1>6, <1>7, <1>8, <1>9

LEMMA LogoutTurn ==
    ASSUME Base, NEW h \in Handlers, Logout(h)
    PROVE  Turn(h, {"sessions"}, {"active"}) /\ task[h] = Idle /\ task'[h] = Idle
<1>1. /\ Arrive(h, "logout") /\ task' = task /\ next' = next
      /\ faults' \in {faults, faults + 1}
      /\ Only(db', {"sessions"})
  BY SMT, Writes, OnlySame DEF Logout, Call, CallOr, Base
<1>2. HistOnly({"active"})
  BY DEF Base, HistOnly, Has, Histories, Logout
<1> QED BY <1>1, <1>2, ArriveTurn

\* Authenticated reads the session, and the user it belongs to.
LEMMA AuthenticatedTurn ==
    ASSUME Base, NEW h \in Handlers, NEW r, NEW l, Authenticated(h, r, l)
    PROVE  /\ Turn(h, {"sessions"}, {}) /\ task[h] = Idle
           /\ \/ task'[h] = Idle
              \/ /\ task'[h].pc = l
                 /\ \E s \in db.sessions :
                      /\ GetSession(s.token).ok
                      /\ LET u == Some(UsersByID(db, GetSession(s.token).val.user))
                         IN task'[h].uid = u.id /\ task'[h].pw = u.pw
<1>1. /\ Arrive(h, r) /\ next' = next /\ hist' = hist /\ faults' \in {faults, faults + 1}
      /\ Only(db', {"sessions"})
  BY SMT, Writes, OnlySame DEF Authenticated, Call, CallOr, Base
<1> DEFINE Of1(s, t) == LET u == Some(UsersByID(db, GetSession(s.token).val.user))
                        IN t.uid = u.id /\ t.pw = u.pw
           Gone == \/ task' = task
                   \/ \E s \in db.sessions : \E t :
                        GetSession(s.token).ok /\ Has(t, Fields) /\ Of1(s, t) /\ Goto(h, t, l)
<1>2. ASSUME NEW s \in db.sessions, NEW o, o = GetSession(s.token), o.ok,
             LET u == Some(UsersByID(db, o.val.user))
             IN  Goto(h, [Idle EXCEPT !.uid = u.id, !.email = u.email, !.pw = u.pw,
                                      !.back = r], l)
      PROVE  Gone
  <2> DEFINE u == Some(UsersByID(db, o.val.user))
             t == [Idle EXCEPT !.uid = u.id, !.email = u.email, !.pw = u.pw, !.back = r]
  <2>1. Has(t, Fields) /\ t.uid = u.id /\ t.pw = u.pw
    <3> HIDE DEF u
    <3> QED BY DEF Idle, Has, Fields
  <2>2. Goto(h, t, l)
    BY <1>2
  <2> HIDE DEF t
  <2> QED BY <1>2, <2>1, <2>2
<1>3. Gone
  <2>1. ~Err(db).ok
    OBVIOUS
  <2> HIDE DEF Gone, Err
  <2> DEFINE Chosen(s, o) ==
               /\ o = GetSession(s.token) \/ o = Err(db)
               /\ IF ~o.ok THEN UNCHANGED task
                  ELSE LET u == Some(UsersByID(db, o.val.user)) IN
                       Goto(h, [Idle EXCEPT !.uid = u.id, !.email = u.email, !.pw = u.pw,
                                            !.back = r], l)
  <2>0. PICK s \in db.sessions : \E o : Chosen(s, o)
    BY DEF Authenticated, Call, CallOr
  <2>2. PICK o : Chosen(s, o)
    BY <2>0
  <2>3. CASE ~o.ok
    BY <2>2, <2>3 DEF Gone
  <2>4. CASE o.ok
    BY <1>2, <2>1, <2>2, <2>4
  <2> QED BY <2>3, <2>4
<1> USE DEF Gone
<1>4. Turn(h, {"sessions"}, {}) /\ task[h] = Idle
  BY <1>1, <1>3, ArriveTurn, Untouched
<1>5. ASSUME NEW t, Has(t, Fields), Goto(h, t, l)
      PROVE  task'[h].pc = l /\ task'[h].uid = t.uid /\ task'[h].pw = t.pw
  BY SMT, <1>5, GotoShape DEF Fields
<1> QED BY <1>3, <1>4, <1>5

\* The operations that write to several tables.
LEMMA OnlyMore ==
    ASSUME NEW d, NEW S, NEW T, S \subseteq T, Only(d, S)
    PROVE  Only(d, T)
BY DEF Only

LEMMA ResetWrites ==
    ASSUME Has(db, Tables), NEW t, NEW pw
    PROVE  LET T == {"users", "resets", "sessions"}
           IN  /\ Only(MemResetPasswordWithToken(db, t, pw).db, T)
               /\ Only(LiteResetPasswordCut(db, t, pw).db, T)
               /\ Only(LiteResetPasswordWithToken(db, t, pw).db, T)
               /\ \A r : Only(PgResetCommit(db, r, pw).db, T)
<1> DEFINE T == {"users", "resets", "sessions"}
<1>0. Only(db, T)
  BY DEF Only
<1>1. "users" \in T /\ "resets" \in T /\ "sessions" \in T
      /\ "users" \in Tables /\ "resets" \in Tables /\ "sessions" \in Tables
  BY DEF Tables
<1> HIDE DEF T
<1>2. Only(MemResetPasswordWithToken(db, t, pw).db, T)
  BY <1>0, <1>1, Within DEF MemResetPasswordWithToken
<1>3. Only(LiteResetPasswordCut(db, t, pw).db, T)
  <2>1. ASSUME NEW S PROVE Only([db EXCEPT !.users = S], T)
    BY <1>0, <1>1 DEF Only, Has
  <2>2. CASE LiteResetPasswordCut(db, t, pw).db = db
    BY <1>0, <2>2
  <2>3. \/ LiteResetPasswordCut(db, t, pw).db = db
        \/ \E S : LiteResetPasswordCut(db, t, pw).db = [db EXCEPT !.users = S]
    BY DEF LiteResetPasswordCut
  <2> QED BY <2>1, <2>2, <2>3
<1>4. Only(LiteResetPasswordWithToken(db, t, pw).db, T)
  BY <1>1, <1>3, Within DEF LiteResetPasswordWithToken
<1>5. ASSUME NEW r PROVE Only(PgResetCommit(db, r, pw).db, T)
  <2> DEFINE u == Some(UsersByEmail(db, r.email))
             d1 == Update(db, "users", u, [u EXCEPT !.pw = pw])
             d2 == [d1 EXCEPT !.resets = { IF x.token = r.token
                                           THEN [x EXCEPT !.used = TRUE] ELSE x : x \in @ }]
  <2>1. Only(d1, T)
    BY <1>0, <1>1, Within
  <2>2. Only(d2, T)
    <3> HIDE DEF d1
    <3> QED BY <1>1, <2>1 DEF Only, Has
  <2>3. \A S : Only(Delete(d2, "sessions", S), T)
    <3> HIDE DEF d2
    <3> QED BY <1>1, <2>2, Within
  <2> QED BY <1>0, <2>3 DEF PgResetCommit
<1> QED BY <1>2, <1>3, <1>4, <1>5 DEF T

LEMMA AcceptWrites ==
    ASSUME Has(db, Tables), NEW t, NEW u, NEW i
    PROVE  LET T == {"invites", "members"}
           IN  /\ Only(MemAcceptOrgInvitation(db, t, u, i).db, T)
               /\ Only(LiteAcceptOrgInvitation(db, t, u, i).db, T)
               /\ \A r \in LiteAcceptCuts(db, t, u, i) : Only(r.db, T)
               /\ Only(PgAcceptMark(db, t).db, {"invites"})
               /\ \A m : Only(PgCreateOrgMember(db, m).db, {"members"})
<1> DEFINE T == {"invites", "members"}
<1>0. Only(db, T) /\ Only(db, {"invites"}) /\ Only(db, {"members"})
  BY DEF Only
<1>1. /\ "invites" \in T /\ "members" \in T /\ "invites" \in Tables /\ "members" \in Tables
      /\ "invites" \in {"invites"} /\ "members" \in {"members"}
  BY DEF Tables
<1> HIDE DEF T
<1>2. ASSUME NEW d, Only(d, T), NEW m
      PROVE  Only(MemCreateOrgMember(d, m).db, T) /\ Only(LiteCreateOrgMember(d, m).db, T)
  <2>1. Only(LiteCreateOrgMember(d, m).db, T)
    BY <1>1, <1>2, Within DEF LiteCreateOrgMember
  <2>2. Only(MemCreateOrgMember(d, m).db, T)
    BY <1>1, <1>2, Within DEF MemCreateOrgMember
  <2> QED BY <2>1, <2>2
<1>3. Only(MemAcceptOrgInvitation(db, t, u, i).db, T)
  BY <1>0, <1>1, <1>2, Within DEF MemAcceptOrgInvitation
<1>4. Only(LiteAcceptOrgInvitation(db, t, u, i).db, T)
  BY <1>0, <1>1, <1>2, Within DEF LiteAcceptOrgInvitation
<1>5. \A r \in LiteAcceptCuts(db, t, u, i) : Only(r.db, T)
  <2>1. \A d : Err(d).db = d
    OBVIOUS
  <2> HIDE DEF Err
  <2> SUFFICES ASSUME NEW r \in LiteAcceptCuts(db, t, u, i) PROVE Only(r.db, T)
    OBVIOUS
  <2>2. \/ r = Err(db)
        \/ \E m : r = LiteCreateOrgMember(db, m)
        \/ \E o, n : r = Err(Update(db, "invites", o, n))
    BY DEF LiteAcceptCuts
  <2>3. \A o, n : Only(Update(db, "invites", o, n), T)
    BY <1>0, <1>1, Within
  <2>4. \A m : Only(LiteCreateOrgMember(db, m).db, T)
    BY <1>0, <1>2
  <2> QED BY <1>0, <2>1, <2>2, <2>3, <2>4
<1>6. Only(PgAcceptMark(db, t).db, {"invites"})
  <2>1. ASSUME NEW S PROVE Only([db EXCEPT !.invites = S], {"invites"})
    BY <1>1 DEF Only, Has
  <2> QED BY <2>1 DEF PgAcceptMark
<1>7. \A m : Only(PgCreateOrgMember(db, m).db, {"members"})
  BY <1>0, <1>1, Within DEF PgCreateOrgMember
<1> QED BY <1>3, <1>4, <1>5, <1>6, <1>7 DEF T

LEMMA ProvisionOwnerTurn ==
    ASSUME Base, NEW h \in Handlers, ProvisionOwner(h)
    PROVE  /\ Turn(h, {"members"}, {}) /\ Moves(h, {"project"}) /\ task[h].pc = "owner"
           /\ next' = next + 1
<1>1. /\ Continue(h, "owner") /\ next' = next + 1 /\ faults' \in {faults, faults + 1}
      /\ Only(db', {"members"}) /\ hist' = hist /\ Goto(h, task[h], "project")
  BY SMT, Writes, OnlySame DEF ProvisionOwner, Call, CallOr, Base
<1> QED BY <1>1, CarriedOn, Untouched, StepTurn

LEMMA ProvisionProjectTurn ==
    ASSUME Base, NEW h \in Handlers, ProvisionProject(h)
    PROVE  /\ Turn(h, {"projects"}, {}) /\ Moves(h, {"session"}) /\ task[h].pc = "project"
           /\ next' = next + 1
<1>1. /\ Continue(h, "project") /\ next' = next + 1 /\ faults' \in {faults, faults + 1}
      /\ Only(db', {"projects"}) /\ hist' = hist
      /\ \/ Goto(h, [task[h] EXCEPT !.proj = next], "session")
         \/ Goto(h, [task[h] EXCEPT !.proj = None], "session")
  BY SMT, Writes, OnlySame DEF ProvisionProject, Call, CallOr, Base
<1>2. \E t : Carried(t, h) /\ Goto(h, t, "session")
  BY <1>1, CarriedOn
<1> QED BY <1>1, <1>2, Untouched, StepTurn

LEMMA SignUpJoinTurn ==
    ASSUME Base, NEW h \in Handlers, SignUpJoin(h)
    PROVE  Turn(h, {}, {}) /\ Moves(h, {"accept", "org"}) /\ task[h].pc = "join"
<1>1. /\ Continue(h, "join") /\ next' = next /\ faults' \in {faults, faults + 1}
      /\ db' = db /\ hist' = hist
      /\ \/ \E o : Goto(h, [task[h] EXCEPT !.org = o], "accept")
         \/ Goto(h, task[h], "org")
  <2>1. /\ Continue(h, "join") /\ next' = next /\ faults' \in {faults, faults + 1}
        /\ db' = db /\ hist' = hist
    BY SMT, Reads DEF SignUpJoin, Call, CallOr
  <2>2. \/ \E o : Goto(h, [task[h] EXCEPT !.org = o], "accept")
        \/ Goto(h, task[h], "org")
    BY DEF SignUpJoin, Call, CallOr
  <2> QED BY <2>1, <2>2
<1>2. \E t, m : m \in {"accept", "org"} /\ Carried(t, h) /\ Goto(h, t, m)
  BY <1>1, CarriedOn
<1> QED BY <1>1, <1>2, Untouched, StepTurn

LEMMA SignUpAdoptTurn ==
    ASSUME Base, NEW h \in Handlers, SignUpAdopt(h)
    PROVE  Turn(h, {}, {}) /\ Moves(h, {"org", "session"}) /\ task[h].pc = "joined"
<1>1. /\ Continue(h, "joined") /\ next' = next /\ faults' \in {faults, faults + 1}
      /\ db' = db /\ hist' = hist
  BY DEF SignUpAdopt
<1>2. \/ Goto(h, task[h], "org")
      \/ \E p : Goto(h, [task[h] EXCEPT !.proj = p], "session")
  BY DEF SignUpAdopt
<1>3. \E t, m : m \in {"org", "session"} /\ Carried(t, h) /\ Goto(h, t, m)
  BY <1>2, CarriedOn
<1> QED BY <1>1, <1>3, Untouched, StepTurn

LEMMA OpenSessionTurn ==
    ASSUME Base, NEW h \in Handlers, OpenSession(h)
    PROVE  /\ Turn(h, {"sessions"}, {"active"}) /\ Moves(h, {}) /\ task[h].pc = "session"
           /\ next' = next + 1
<1>1. /\ Continue(h, "session") /\ next' = next + 1 /\ faults' \in {faults, faults + 1}
      /\ Only(db', {"sessions"}) /\ Done(h)
  BY SMT, Writes, OnlySame DEF OpenSession, Call, CallOr, Base
<1>2. HistOnly({"active"})
  BY DEF Base, HistOnly, Has, Histories, OpenSession, Call, CallOr
<1> QED BY <1>1, <1>2, StepTurn

LEMMA OAuthPictureTurn ==
    ASSUME Base, NEW h \in Handlers, OAuthPicture(h)
    PROVE  Turn(h, {"users"}, {}) /\ Moves(h, {"session"}) /\ task[h].pc = "picture"
<1>1. /\ Continue(h, "picture") /\ next' = next /\ faults' \in {faults, faults + 1}
      /\ Only(db', {"users"}) /\ hist' = hist /\ Goto(h, task[h], "session")
  BY SMT, Writes, OnlySame DEF OAuthPicture, Call, CallOr, Base
<1> QED BY <1>1, CarriedOn, Untouched, StepTurn

LEMMA ChangeReadTurn ==
    ASSUME Base, NEW h \in Handlers, ChangeRead(h)
    PROVE  Turn(h, {}, {}) /\ Moves(h, {"changeWrite"}) /\ task[h].pc = "change"
<1>1. /\ Continue(h, "change") /\ next' = next /\ faults' \in {faults, faults + 1}
      /\ db' = db /\ hist' = hist /\ (Goto(h, task[h], "changeWrite") \/ Done(h))
  BY SMT, Reads DEF ChangeRead, Call, CallOr
<1> QED BY <1>1, CarriedOn, Untouched, StepTurn

LEMMA ChangeWriteTurn ==
    ASSUME Base, NEW h \in Handlers, ChangeWrite(h)
    PROVE  /\ Turn(h, {"users"}, {}) /\ Moves(h, {"changeEnd"}) /\ task[h].pc = "changeWrite"
           /\ next' = next + 1
<1>1. /\ Continue(h, "changeWrite") /\ next' = next + 1 /\ faults' \in {faults, faults + 1}
      /\ Only(db', {"users"}) /\ hist' = hist /\ (Goto(h, task[h], "changeEnd") \/ Done(h))
  BY SMT, Writes, OnlySame DEF ChangeWrite, Call, CallOr, Base
<1> QED BY <1>1, CarriedOn, Untouched, StepTurn

LEMMA ChangeEndTurn ==
    ASSUME Base, NEW h \in Handlers, ChangeEnd(h)
    PROVE  Turn(h, {"sessions"}, {}) /\ Moves(h, {}) /\ task[h].pc = "changeEnd"
<1>1. /\ Continue(h, "changeEnd") /\ next' = next /\ faults' \in {faults, faults + 1}
      /\ Only(db', {"sessions"}) /\ hist' = hist /\ Done(h)
  BY SMT, Writes, OnlySame DEF ChangeEnd, Call, CallOr, Base
<1> QED BY <1>1, Untouched, StepTurn

LEMMA ForgotWriteTurn ==
    ASSUME Base, NEW h \in Handlers, ForgotWrite(h)
    PROVE  /\ Turn(h, {"resets"}, {}) /\ Moves(h, {}) /\ task[h].pc = "forgot"
           /\ next' = next + 1
<1>1. /\ Continue(h, "forgot") /\ next' = next + 1 /\ faults' \in {faults, faults + 1}
      /\ Only(db', {"resets"}) /\ hist' = hist /\ Done(h)
  BY SMT, Writes, OnlySame DEF ForgotWrite, Call, CallOr, Base
<1> QED BY <1>1, Untouched, StepTurn

LEMMA ProfileWriteTurn ==
    ASSUME Base, NEW h \in Handlers, ProfileWrite(h)
    PROVE  Turn(h, {"users"}, {"renamed"}) /\ Moves(h, {}) /\ task[h].pc = "profile"
<1>1. /\ Continue(h, "profile") /\ next' = next /\ faults' \in {faults, faults + 1}
      /\ Only(db', {"users"}) /\ Done(h)
  BY SMT, Writes, OnlySame DEF ProfileWrite, Call, CallOr, Base
<1>2. HistOnly({"renamed"})
  BY DEF Base, HistOnly, Has, Histories, ProfileWrite, Call, CallOr
<1> QED BY <1>1, <1>2, StepTurn

LEMMA CreateProjTurn ==
    ASSUME Base, NEW h \in Handlers, CreateProj(h)
    PROVE  /\ Turn(h, {"projects"}, {"active"}) /\ Moves(h, {}) /\ task[h].pc = "newproject"
           /\ next' = next + 1
<1>1. /\ Continue(h, "newproject") /\ next' = next + 1 /\ faults' \in {faults, faults + 1}
      /\ Only(db', {"projects"}) /\ Done(h)
  BY SMT, Writes, OnlySame DEF CreateProj, Call, CallOr, Base
<1>2. HistOnly({"active"})
  BY DEF Base, HistOnly, Has, Histories, CreateProj, Call, CallOr, SetActive
<1> QED BY <1>1, <1>2, StepTurn

LEMMA SwitchActiveTurn ==
    ASSUME Base, NEW h \in Handlers, SwitchActive(h)
    PROVE  Turn(h, {}, {"active"}) /\ Moves(h, {}) /\ task[h].pc = "switch"
<1>1. /\ Continue(h, "switch") /\ next' = next /\ faults' = faults /\ db' = db /\ Done(h)
  BY DEF SwitchActive
<1>2. HistOnly({"active"})
  BY DEF Base, HistOnly, Has, Histories, SwitchActive, SetActive
<1> QED BY <1>1, <1>2, StepTurn, Untouched

LEMMA InviteTurn ==
    ASSUME Base, NEW h \in Handlers, Invite(h)
    PROVE  /\ Turn(h, {"invites"}, {}) /\ Moves(h, {}) /\ task[h].pc = "invite"
           /\ next' = next + 1
<1>1. /\ Continue(h, "invite") /\ next' = next + 1 /\ faults' \in {faults, faults + 1}
      /\ Only(db', {"invites"}) /\ hist' = hist /\ Done(h)
  BY SMT, Writes, OnlySame DEF Invite, Call, CallOr, Base
<1> QED BY <1>1, Untouched, StepTurn

LEMMA AcceptReadTurn ==
    ASSUME Base, NEW h \in Handlers, AcceptRead(h)
    PROVE  Turn(h, {}, {}) /\ Moves(h, {"accept"}) /\ task[h].pc = "acceptRead"
<1>1. /\ Continue(h, "acceptRead") /\ next' = next /\ faults' \in {faults, faults + 1}
      /\ db' = db /\ hist' = hist
  BY SMT, Reads DEF AcceptRead, Call, CallOr
<1>2. \/ Done(h)
      \/ \E t, o : Goto(h, [task[h] EXCEPT !.token = t, !.org = o], "accept")
  BY DEF AcceptRead, Call, CallOr
<1>3. Done(h) \/ \E t : Carried(t, h) /\ Goto(h, t, "accept")
  BY <1>2, CarriedOn
<1> QED BY <1>1, <1>3, Untouched, StepTurn

LEMMA AcceptCookieTurn ==
    ASSUME Base, NEW h \in Handlers, AcceptCookie(h)
    PROVE  Turn(h, {}, {"active"}) /\ Moves(h, {}) /\ task[h].pc = "cookie"
<1>1. /\ Continue(h, "cookie") /\ next' = next /\ faults' = faults /\ db' = db /\ Done(h)
  BY DEF AcceptCookie
<1>2. HistOnly({"active"})
  BY DEF Base, HistOnly, Has, Histories, AcceptCookie, SetActive
<1> QED BY <1>1, <1>2, StepTurn, Untouched

LEMMA SSOCallbackTurn ==
    ASSUME Base, NEW h \in Handlers, SSOCallback(h)
    PROVE  Turn(h, {}, {}) /\ Moves(h, {"ssoUser"}) /\ task[h].pc = "ssoCallback"
<1>1. /\ Continue(h, "ssoCallback") /\ next' = next /\ faults' \in {faults, faults + 1}
      /\ db' = db /\ hist' = hist
  BY SMT, Reads DEF SSOCallback, Call, CallOr
<1>2. Done(h) \/ \E r : Goto(h, [task[h] EXCEPT !.role = r], "ssoUser")
  BY DEF SSOCallback, Call, CallOr
<1>3. Done(h) \/ \E t : Carried(t, h) /\ Goto(h, t, "ssoUser")
  BY <1>2, CarriedOn
<1> QED BY <1>1, <1>3, Untouched, StepTurn

LEMMA SSOMemberTurn ==
    ASSUME Base, NEW h \in Handlers, SSOMember(h)
    PROVE  /\ Turn(h, {}, {}) /\ Moves(h, {"session", "ssoJoin"}) /\ task[h].pc = "ssoMember"
           /\ task'[h].org = task[h].org
<1>1. /\ Continue(h, "ssoMember") /\ next' = next /\ faults' \in {faults, faults + 1}
      /\ db' = db /\ hist' = hist
      /\ \E m \in {"session", "ssoJoin"} : Goto(h, task[h], m)
  BY SMT, Reads DEF SSOMember, Call, CallOr
<1>2. task'[h].org = task[h].org
  BY <1>1, GotoShape DEF Base, Fields
<1> QED BY <1>1, <1>2, CarriedOn, Untouched, StepTurn

LEMMA SSOJoinTurn ==
    ASSUME Base, NEW h \in Handlers, SSOJoin(h)
    PROVE  /\ Turn(h, {"members"}, {}) /\ Moves(h, {"session"}) /\ task[h].pc = "ssoJoin"
           /\ next' = next + 1
<1>1. /\ Continue(h, "ssoJoin") /\ next' = next + 1 /\ faults' \in {faults, faults + 1}
      /\ Only(db', {"members"}) /\ hist' = hist /\ Goto(h, task[h], "session")
  BY SMT, Writes, OnlySame DEF SSOJoin, Call, CallOr, Base
<1> QED BY <1>1, CarriedOn, Untouched, StepTurn

LEMMA SSOAuthorizeTurn ==
    ASSUME Base, NEW h \in Handlers, SSOAuthorize(h)
    PROVE  /\ Turn(h, {}, {}) /\ Moves(h, {"ssoSecret", "ssoTyped", "ssoDelete"})
           /\ task[h].pc = "ssoAuthorize"
<1>1. /\ Continue(h, "ssoAuthorize") /\ next' = next /\ faults' \in {faults, faults + 1}
      /\ db' = db /\ hist' = hist
  BY SMT, Reads DEF SSOAuthorize, Call, CallOr
<1>2. Done(h) \/ \E o, l : /\ l \in {"ssoSecret", "ssoTyped", "ssoDelete"}
                           /\ Goto(h, [task[h] EXCEPT !.org = o], l)
  BY DEF SSOAuthorize, Call, CallOr
<1>3. Done(h) \/ \E t, l : /\ l \in {"ssoSecret", "ssoTyped", "ssoDelete"}
                           /\ Carried(t, h) /\ Goto(h, t, l)
  BY <1>2, CarriedOn
<1> QED BY <1>1, <1>3, Untouched, StepTurn

LEMMA SSOSecretTurn ==
    ASSUME Base, NEW h \in Handlers, SSOSecret(h)
    PROVE  Turn(h, {}, {}) /\ Moves(h, {"ssoSave"}) /\ task[h].pc = "ssoSecret"
<1>1. /\ Continue(h, "ssoSecret") /\ next' = next /\ faults' \in {faults, faults + 1}
      /\ db' = db /\ hist' = hist
  BY SMT, Reads DEF SSOSecret, Call, CallOr
<1>2. Done(h) \/ \E r : Goto(h, [task[h] EXCEPT !.token = r], "ssoSave")
  BY DEF SSOSecret, Call, CallOr
<1>3. Done(h) \/ \E t : Carried(t, h) /\ Goto(h, t, "ssoSave")
  BY <1>2, CarriedOn
<1> QED BY <1>1, <1>3, Untouched, StepTurn

LEMMA SSOSaveTurn ==
    ASSUME Base, NEW h \in Handlers, SSOSave(h)
    PROVE  /\ Turn(h, {"oidc"}, {}) /\ Moves(h, {}) /\ task[h].pc \in {"ssoSave", "ssoTyped"}
           /\ next' = next + 1
<1>1. /\ Continue(h, task[h].pc) /\ task[h].pc \in {"ssoSave", "ssoTyped"}
      /\ next' = next + 1 /\ faults' \in {faults, faults + 1}
      /\ Only(db', {"oidc"}) /\ hist' = hist /\ Done(h)
  BY SMT, Writes, OnlySame DEF SSOSave, Call, CallOr, Base
<1> QED BY <1>1, Untouched, StepTurn

LEMMA SSODeleteTurn ==
    ASSUME Base, NEW h \in Handlers, SSODelete(h)
    PROVE  Turn(h, {"oidc"}, {}) /\ Moves(h, {}) /\ task[h].pc = "ssoDelete"
<1>1. /\ Continue(h, "ssoDelete") /\ next' = next /\ faults' \in {faults, faults + 1}
      /\ Only(db', {"oidc"}) /\ hist' = hist /\ Done(h)
  BY SMT, Writes, OnlySame DEF SSODelete, Call, CallOr, Base
<1> QED BY <1>1, Untouched, StepTurn

LEMMA KeyResolveTurn ==
    ASSUME Base, NEW h \in Handlers, KeyResolve(h)
    PROVE  Turn(h, {}, {}) /\ Moves(h, {"keyRole"}) /\ task[h].pc = "keyResolve"
<1>1. /\ Continue(h, "keyResolve") /\ next' = next /\ faults' = faults
      /\ db' = db /\ hist' = hist
      /\ \E p : Goto(h, [task[h] EXCEPT !.proj = p], "keyRole")
  BY DEF KeyResolve
<1>2. \E t : Carried(t, h) /\ Goto(h, t, "keyRole")
  BY <1>1, CarriedOn
<1> QED BY <1>1, <1>2, Untouched, StepTurn

LEMMA KeyRoleTurn ==
    ASSUME Base, NEW h \in Handlers, KeyRole(h)
    PROVE  Turn(h, {}, {}) /\ Moves(h, {"keyCreate"}) /\ task[h].pc = "keyRole"
<1>1. /\ Continue(h, "keyRole") /\ next' = next /\ faults' = faults
      /\ db' = db /\ hist' = hist
      /\ \E r : Goto(h, [task[h] EXCEPT !.role = r], "keyCreate")
  BY DEF KeyRole
<1>2. \E t : Carried(t, h) /\ Goto(h, t, "keyCreate")
  BY <1>1, CarriedOn
<1> QED BY <1>1, <1>2, Untouched, StepTurn

LEMMA KeyCreateTurn ==
    ASSUME Base, NEW h \in Handlers, KeyCreate(h)
    PROVE  /\ Turn(h, {"keys"}, {}) /\ Moves(h, {}) /\ task[h].pc = "keyCreate"
           /\ next' = next + 1
<1>1. /\ Continue(h, "keyCreate") /\ next' = next + 1 /\ faults' \in {faults, faults + 1}
      /\ Only(db', {"keys"}) /\ hist' = hist /\ Done(h)
  BY SMT, Writes, OnlySame DEF KeyCreate, Call, CallOr, Base
<1> QED BY <1>1, Untouched, StepTurn

LEMMA KeyRevokeTurn ==
    ASSUME Base, NEW h \in Handlers, KeyRevoke(h)
    PROVE  Turn(h, {"keys"}, {"revoked"}) /\ Moves(h, {}) /\ task[h].pc = "keyRevoke"
<1>1. /\ Continue(h, "keyRevoke") /\ next' = next /\ faults' \in {faults, faults + 1}
      /\ Only(db', {"keys"}) /\ Done(h)
  BY SMT, Writes, OnlySame DEF KeyRevoke, Call, CallOr, Base
<1>2. HistOnly({"revoked"})
  BY DEF Base, HistOnly, Has, Histories, KeyRevoke, Call, CallOr
<1> QED BY <1>1, <1>2, StepTurn

LEMMA ResetWriteTurn ==
    ASSUME Base, NEW h \in Handlers, ResetWrite(h)
    PROVE  /\ Turn(h, {"users", "resets", "sessions"}, {"resets"}) /\ Moves(h, {})
           /\ task[h].pc = "resetWrite" /\ next' = next + 1
<1>1. /\ Continue(h, "resetWrite") /\ next' = next + 1 /\ faults' \in {faults, faults + 1}
      /\ Only(db', {"users", "resets", "sessions"}) /\ Done(h)
  BY SMT, ResetWrites, OnlySame DEF ResetWrite, Call, CallOr, Base
<1>2. HistOnly({"resets"})
  BY DEF Base, HistOnly, Has, Histories, ResetWrite, Call, CallOr
<1> QED BY <1>1, <1>2, StepTurn

LEMMA SSOUserTurn ==
    ASSUME Base, NEW h \in Handlers, SSOUser(h)
    PROVE  /\ Turn(h, {}, {}) /\ task[h].pc = "ssoUser"
           /\ \/ task'[h].pc = "create" /\ Carried(task'[h], h)
              \/ task'[h].pc = "ssoMember" /\ Known(task'[h])
<1>1. /\ Continue(h, "ssoUser") /\ next' = next /\ hist' = hist
      /\ faults' \in {faults, faults + 1} /\ db' = db
  BY SMT, Reads DEF SSOUser, Call, CallOr
<1>2. \A e : GetUserByEmail(e).ok => GetUserByEmail(e).val \in db.users
  BY FoundByEmail DEF UsersByEmail
<1>3. ~Err(db).ok
  OBVIOUS
<1>4. \/ Goto(h, task[h], "create")
      \/ \E u \in db.users : Goto(h, [task[h] EXCEPT !.uid = u.id, !.pw = u.pw], "ssoMember")
  <2> HIDE DEF Err, None
  <2> QED BY <1>2, <1>3, ZenonT(30) DEF SSOUser, Call, CallOr
<1>5. Has(task[h], Fields)
  BY DEF Base
<1>6. CASE Goto(h, task[h], "create")
  <2>1. /\ Has(task', Handlers) /\ Has(task'[h], Fields) /\ task'[h].pc = "create"
        /\ \A g \in Handlers \ {h} : task'[g] = task[g]
        /\ \A f \in Fields \ {"pc"} : task'[h][f] = task[h][f]
    BY <1>5, <1>6, GotoShape
  <2> QED BY <1>1, <2>1, ContinueSerial, Untouched DEF Turn, Carried, Fields, Base
<1>7. ASSUME NEW u \in db.users,
             Goto(h, [task[h] EXCEPT !.uid = u.id, !.pw = u.pw], "ssoMember")
      PROVE  Turn(h, {}, {}) /\ task'[h].pc = "ssoMember" /\ Known(task'[h])
  <2> DEFINE t == [task[h] EXCEPT !.uid = u.id, !.pw = u.pw]
  <2>1. Has(t, Fields) /\ t.uid = u.id /\ t.pw = u.pw
    BY <1>5 DEF Has, Fields
  <2>2. Goto(h, t, "ssoMember")
    BY <1>7
  <2> HIDE DEF t
  <2>3. /\ Has(task', Handlers) /\ Has(task'[h], Fields) /\ task'[h].pc = "ssoMember"
        /\ \A g \in Handlers \ {h} : task'[g] = task[g]
        /\ \A f \in Fields \ {"pc"} : task'[h][f] = t[f]
    BY SMT, <2>1, <2>2, GotoShape
  <2>4. task'[h].uid = u.id /\ task'[h].pw = u.pw
    BY <2>1, <2>3 DEF Fields
  <2> QED BY <1>1, <2>3, <2>4, ContinueSerial, Untouched DEF Turn, Known, Base
<1>8. task[h].pc = "ssoUser"
  BY <1>1 DEF Continue, At
<1> QED BY <1>4, <1>6, <1>7, <1>8

LEMMA CreateAccountTurn ==
    ASSUME Base, NEW h \in Handlers, CreateAccount(h)
    PROVE  /\ Turn(h, {"users"}, {}) /\ task[h].pc = "create" /\ next' = next + 1
           /\ \/ task'[h] = Idle
              \/ /\ task'[h].pc \in {"ssoMember", "join", "org"}
                 /\ task'[h].uid = next /\ task'[h].pw = next
                 /\ LET t == task[h]
                        c == CreateUser(NewUser(next, t.email, next, t.name, t.avatar))
                    IN c.ok /\ db' = c.db /\ faults' = faults
<1>1. /\ Continue(h, "create") /\ next' = next + 1 /\ faults' \in {faults, faults + 1}
      /\ Only(db', {"users"}) /\ hist' = hist
  BY SMT, Writes, OnlySame DEF CreateAccount, Call, CallOr, Base
<1> DEFINE c == CreateUser(NewUser(next, task[h].email, next, task[h].name, task[h].avatar))
           t == [task[h] EXCEPT !.uid = next, !.pw = next]
<1>2. ~Err(db).ok
  OBVIOUS
<1>3. \/ Done(h)
      \/ /\ c.ok /\ db' = c.db /\ faults' = faults
         /\ \E l \in {"ssoMember", "join", "org"} : Goto(h, t, l)
  <2> HIDE DEF Err, None
  <2> QED BY <1>2 DEF CreateAccount, Call, CallOr
<1>4. task[h].pc = "create"
  BY <1>1 DEF Continue, At
<1>5. CASE Done(h)
  BY <1>1, <1>4, <1>5, DoneShape, ContinueSerial, Untouched DEF Turn, Base
<1>6. ASSUME NEW l, l \in {"ssoMember", "join", "org"}, Goto(h, t, l)
      PROVE  Turn(h, {"users"}, {}) /\ task'[h].pc = l /\ task'[h].uid = next
             /\ task'[h].pw = next
  <2>0. Has(task[h], Fields)
    BY DEF Base
  <2>1. Has(t, Fields) /\ t.uid = next /\ t.pw = next
    BY <2>0 DEF Has, Fields
  <2> HIDE DEF t
  <2>3. /\ Has(task', Handlers) /\ Has(task'[h], Fields) /\ task'[h].pc = l
        /\ \A g \in Handlers \ {h} : task'[g] = task[g]
        /\ \A f \in Fields \ {"pc"} : task'[h][f] = t[f]
    BY SMT, <1>6, <2>1, GotoShape
  <2>4. task'[h].uid = next /\ task'[h].pw = next
    BY <2>1, <2>3 DEF Fields
  <2> QED BY <1>1, <2>3, <2>4, ContinueSerial, Untouched DEF Turn, Base
<1> HIDE DEF t, c
<1>7. CASE c.ok /\ db' = c.db /\ faults' = faults
           /\ \E l \in {"ssoMember", "join", "org"} : Goto(h, t, l)
  BY <1>1, <1>4, <1>6, <1>7 DEF c
<1> QED BY <1>1, <1>3, <1>4, <1>5, <1>7

\* The outcome of AcceptOrgInvitation, or of one of its statements.
LEMMA AcceptedTurn ==
    ASSUME Base, NEW h \in Handlers, NEW l, l # "idle", Continue(h, l), NEW o, Accepted(h, o),
           NEW T, Only(o.db, T),
           next' \in {next, next + 1}, faults' \in {faults, faults + 1}
    PROVE  /\ Turn(h, T, {"joined", "lost"}) /\ Moves(h, {"joined", "cookie"})
           /\ hist'.joined = IF o.ok THEN hist.joined \cup {<<task[h].token, task[h].uid>>}
                             ELSE hist.joined
<1>1. Only(db', T)
  BY DEF Accepted
<1>2. HistOnly({"joined", "lost"})
  BY DEF Base, HistOnly, Has, Histories, Accepted
<1>3. hist'.joined = IF o.ok THEN hist.joined \cup {<<task[h].token, task[h].uid>>}
                     ELSE hist.joined
  BY DEF Base, Has, Histories, Accepted
<1>4. Done(h) \/ \E m \in {"joined", "cookie"} : Goto(h, task[h], m)
  BY DEF Accepted
<1>5. Done(h) \/ \E t, m : m \in {"joined", "cookie"} /\ Carried(t, h) /\ Goto(h, t, m)
  BY <1>4, CarriedOn
<1>6. Turn(h, T, {"joined", "lost"}) /\ Moves(h, {"joined", "cookie"})
  BY <1>1, <1>2, <1>5, StepTurn
<1> QED BY <1>3, <1>6

\* What Accept can come to, store by store.
Checked(h) ==
    /\ driver = "postgres" /\ faults' = faults /\ db' = db /\ hist' = hist
    /\ LET c == PgAcceptCheck(db, task[h].token, task[h].uid)
       IN c.ok /\ Goto(h, [task[h] EXCEPT !.org = c.val.org, !.role = c.val.role], "acceptMark")
Decided(h, o) ==
    \/ /\ driver = "memory" /\ faults' = faults
       /\ o = MemAcceptOrgInvitation(db, task[h].token, task[h].uid, next)
    \/ /\ driver = "sqlite" /\ faults' = faults
       /\ o = LiteAcceptOrgInvitation(db, task[h].token, task[h].uid, next)
    \/ /\ driver = "sqlite" /\ faults' = faults + 1
       /\ o \in LiteAcceptCuts(db, task[h].token, task[h].uid, next)
    \/ driver = "postgres" /\ faults' \in {faults, faults + 1} /\ ~o.ok /\ o.db = db

LEMMA AcceptOutcome ==
    ASSUME NEW h \in Handlers, Accept(h)
    PROVE  Checked(h) \/ \E o : Decided(h, o) /\ Accepted(h, o)
<1> DEFINE t == task[h]
           c == PgAcceptCheck(db, t.token, t.uid)
<1>1. CASE driver = "memory" /\ faults' = faults
           /\ Accepted(h, MemAcceptOrgInvitation(db, t.token, t.uid, next))
  BY <1>1 DEF Decided
<1>2. CASE driver = "sqlite" /\ faults' = faults
           /\ Accepted(h, LiteAcceptOrgInvitation(db, t.token, t.uid, next))
  BY <1>2 DEF Decided
<1>3. ASSUME driver = "sqlite", faults' = faults + 1,
             NEW b \in LiteAcceptCuts(db, t.token, t.uid, next), Accepted(h, b)
      PROVE  \E o : Decided(h, o) /\ Accepted(h, o)
  BY <1>3 DEF Decided
<1>4. ASSUME driver = "postgres", faults' = faults, c.ok,
             Goto(h, [t EXCEPT !.org = c.val.org, !.role = c.val.role], "acceptMark"),
             UNCHANGED <<db, hist>>
      PROVE  Checked(h)
  BY <1>4, Zenon DEF Checked
<1>5. ASSUME driver = "postgres", faults' = faults, ~c.ok, Accepted(h, c)
      PROVE  \E o : Decided(h, o) /\ Accepted(h, o)
  BY <1>5, Reads DEF Decided
<1>6. ASSUME driver = "postgres", faults' = faults + 1, Accepted(h, Err(db))
      PROVE  \E o : Decided(h, o) /\ Accepted(h, o)
  <2>1. ~Err(db).ok /\ Err(db).db = db
    OBVIOUS
  <2> HIDE DEF Err
  <2> QED BY <1>6, <2>1 DEF Decided
<1>7. ~Err(db).ok
  OBVIOUS
<1> HIDE DEF c, Err, None
<1> QED BY <1>1, <1>2, <1>3, <1>4, <1>5, <1>6, <1>7, ZenonT(60)
        DEF Accept, Call, CallOr, c

LEMMA AcceptTurn ==
    ASSUME Base, NEW h \in Handlers, Accept(h)
    PROVE  /\ Turn(h, {"invites", "members"}, {"joined", "lost"})
           /\ Moves(h, {"joined", "cookie", "acceptMark"})
           /\ task[h].pc = "accept" /\ next' = next + 1
<1>1. Continue(h, "accept") /\ next' = next + 1
  BY DEF Accept
<1>2. task[h].pc = "accept"
  BY <1>1 DEF Continue, At
<1> DEFINE T == {"invites", "members"}
<1>4. ASSUME NEW o, Decided(h, o), Accepted(h, o)
      PROVE  /\ Turn(h, T, {"joined", "lost"})
             /\ Moves(h, {"joined", "cookie", "acceptMark"})
  <2>1. Only(o.db, T) /\ faults' \in {faults, faults + 1}
    BY <1>4, AcceptWrites, OnlySame DEF Base, Decided
  <2>2. Turn(h, T, {"joined", "lost"}) /\ Moves(h, {"joined", "cookie"})
    BY <1>1, <1>4, <2>1, AcceptedTurn
  <2> QED BY <2>2 DEF Moves
<1>5. CASE Checked(h)
  <2>1. HistOnly({"joined", "lost"}) /\ Only(db', T) /\ faults' = faults
    BY <1>5, OnlySame DEF HistOnly, Base, Checked
  <2>3. \E t, m : m \in {"joined", "cookie", "acceptMark"} /\ Carried(t, h) /\ Goto(h, t, m)
    BY <1>5, CarriedOn DEF Checked
  <2> QED BY <1>1, <2>1, <2>3, StepTurn
<1> QED BY <1>1, <1>2, <1>4, <1>5, AcceptOutcome

LEMMA AcceptMarkTurn ==
    ASSUME Base, NEW h \in Handlers, AcceptMark(h)
    PROVE  /\ Turn(h, {"invites"}, {"joined", "lost"})
           /\ Moves(h, {"joined", "cookie", "acceptMember"})
           /\ task[h].pc = "acceptMark" /\ next' = next
           /\ hist'.joined = hist.joined
           /\ \/ /\ faults' = faults /\ db' = PgAcceptMark(db, task[h].token).db
                 /\ task'[h].pc = "acceptMember" /\ task'[h].token = task[h].token
                 /\ task'[h].org = task[h].org
              \/ faults' = faults + 1 /\ db' = db /\ task'[h].pc # "acceptMember"
<1>1. Continue(h, "acceptMark") /\ next' = next /\ faults' \in {faults, faults + 1}
  BY DEF AcceptMark, Call, CallOr
<1> DEFINE m == PgAcceptMark(db, task[h].token)
<1>2. m.ok /\ ~Err(db).ok /\ Err(db).db = db
  BY DEF PgAcceptMark
<1>3. task[h].pc = "acceptMark"
  BY <1>1 DEF Continue, At
<1> HIDE DEF m
<1>4. \/ /\ faults' = faults /\ db' = m.db /\ hist' = hist
         /\ Goto(h, task[h], "acceptMember")
      \/ faults' = faults + 1 /\ Accepted(h, Err(db))
  <2> HIDE DEF Err
  <2> QED BY <1>2, ZenonT(30) DEF AcceptMark, Call, CallOr, m
<1>5. CASE /\ faults' = faults /\ db' = m.db /\ hist' = hist
           /\ Goto(h, task[h], "acceptMember")
  <2>1. HistOnly({"joined", "lost"}) /\ Only(db', {"invites"})
    BY <1>5, AcceptWrites DEF HistOnly, Base, m
  <2>2. /\ Turn(h, {"invites"}, {"joined", "lost"})
        /\ Moves(h, {"joined", "cookie", "acceptMember"})
    BY <1>1, <1>5, <2>1, CarriedOn, StepTurn
  <2>3. /\ task'[h].pc = "acceptMember" /\ task'[h].token = task[h].token
        /\ task'[h].org = task[h].org
    BY <1>5, GotoShape DEF Base, Fields
  <2> QED BY <1>1, <1>3, <1>5, <2>2, <2>3 DEF m
<1>6. CASE faults' = faults + 1 /\ Accepted(h, Err(db))
  <2>1. Only(Err(db).db, {"invites"}) /\ db' = db
    BY <1>2, <1>6, OnlySame DEF Accepted
  <2>2. /\ Turn(h, {"invites"}, {"joined", "lost"}) /\ Moves(h, {"joined", "cookie"})
        /\ hist'.joined = hist.joined
    BY <1>1, <1>2, <1>6, <2>1, AcceptedTurn
  <2>3. task'[h].pc # "acceptMember"
    BY <2>2, IdleShape DEF Moves
  <2> QED BY <1>1, <1>3, <1>6, <2>1, <2>2, <2>3 DEF Moves
<1> QED BY <1>4, <1>5, <1>6

LEMMA AcceptMemberTurn ==
    ASSUME Base, NEW h \in Handlers, AcceptMember(h)
    PROVE  /\ Turn(h, {"members"}, {"joined", "lost"}) /\ Moves(h, {"joined", "cookie"})
           /\ task[h].pc = "acceptMember" /\ next' = next + 1
           /\ LET t == task[h]
                  o == PgCreateOrgMember(db, Member(next, t.org, t.uid, t.role))
              IN  \/ /\ faults' = faults /\ db' = o.db
                     /\ hist'.joined = IF o.ok THEN hist.joined \cup {<<t.token, t.uid>>}
                                       ELSE hist.joined
                  \/ faults' = faults + 1 /\ db' = db /\ hist'.joined = hist.joined
<1>1. /\ Continue(h, "acceptMember") /\ next' = next + 1 /\ faults' \in {faults, faults + 1}
  BY DEF AcceptMember, Call, CallOr
<1>2. ~Err(db).ok /\ Err(db).db = db
  OBVIOUS
<1>3. task[h].pc = "acceptMember"
  BY <1>1 DEF Continue, At
<1> DEFINE t == task[h]
           o == PgCreateOrgMember(db, Member(next, t.org, t.uid, t.role))
<1>4. \/ faults' = faults /\ Accepted(h, o)
      \/ faults' = faults + 1 /\ Accepted(h, Err(db))
  BY DEF AcceptMember, Call, CallOr
<1>5. Only(o.db, {"members"}) /\ Only(Err(db).db, {"members"})
  BY AcceptWrites, OnlySame DEF Base
<1> HIDE DEF o, Err
<1>6. CASE faults' = faults /\ Accepted(h, o)
  <2>1. db' = o.db
    BY <1>6 DEF Accepted
  <2>2. /\ Turn(h, {"members"}, {"joined", "lost"}) /\ Moves(h, {"joined", "cookie"})
        /\ hist'.joined = IF o.ok THEN hist.joined \cup {<<task[h].token, task[h].uid>>}
                          ELSE hist.joined
    BY <1>1, <1>5, <1>6, AcceptedTurn
  <2> QED BY <1>1, <1>3, <1>6, <2>1, <2>2 DEF o
<1>7. CASE faults' = faults + 1 /\ Accepted(h, Err(db))
  <2>1. db' = db
    BY <1>2, <1>7 DEF Accepted
  <2>2. /\ Turn(h, {"members"}, {"joined", "lost"}) /\ Moves(h, {"joined", "cookie"})
        /\ hist'.joined = hist.joined
    BY <1>1, <1>2, <1>5, <1>7, AcceptedTurn
  <2> QED BY <1>1, <1>3, <1>7, <2>1, <2>2
<1> QED BY <1>4, <1>6, <1>7

\* What Reset can come to, store by store, for a token of the table.
Spent(o, k) ==
    /\ db' = o.db
    /\ hist' = IF o.ok THEN [hist EXCEPT !.resets = @ \cup {<<k, next>>}] ELSE hist
Spending(o, k) ==
    \/ driver = "memory" /\ faults' = faults /\ o = MemResetPasswordWithToken(db, k, next)
    \/ driver = "sqlite" /\ faults' = faults /\ o = LiteResetPasswordWithToken(db, k, next)
    \/ driver = "sqlite" /\ faults' = faults + 1 /\ o = Err(db)
    \/ driver = "sqlite" /\ faults' = faults + 1 /\ o = LiteResetPasswordCut(db, k, next)

LEMMA ResetOutcome ==
    ASSUME NEW h \in Handlers, Reset(h)
    PROVE  /\ Arrive(h, "reset") /\ next' = next + 1
           /\ \E t \in db.resets :
                \/ /\ driver = "postgres" /\ db' = db /\ hist' = hist
                   /\ faults' \in {faults, faults + 1}
                   /\ \/ task' = task
                      \/ /\ PgResetCheck(db, t.token).ok
                         /\ Goto(h, [Idle EXCEPT !.token = t.token, !.email = t.email],
                                 "resetWrite")
                \/ task' = task /\ \E o : Spending(o, t.token) /\ Spent(o, t.token)
<1>1. Arrive(h, "reset") /\ next' = next + 1
  BY DEF Reset
<1>2. ~Err(db).ok /\ Err(db).db = db
  OBVIOUS
<1>3. \A k : PgResetCheck(db, k).db = db
  BY Reads
<1> DEFINE Landed(t) ==
             \/ /\ driver = "postgres" /\ db' = db /\ hist' = hist
                /\ faults' \in {faults, faults + 1}
                /\ \/ task' = task
                   \/ /\ PgResetCheck(db, t.token).ok
                      /\ Goto(h, [Idle EXCEPT !.token = t.token, !.email = t.email],
                              "resetWrite")
             \/ task' = task /\ \E o : Spending(o, t.token) /\ Spent(o, t.token)
<1>4. ASSUME NEW t \in db.resets, NEW o, Spending(o, t.token), Spent(o, t.token), task' = task
      PROVE  Landed(t)
  BY <1>4
<1>5. ASSUME NEW t \in db.resets, driver = "postgres", NEW o,
             \/ o = PgResetCheck(db, t.token) /\ faults' = faults
             \/ o = Err(db) /\ faults' = faults + 1,
             db' = o.db, UNCHANGED hist,
             IF o.ok THEN Goto(h, [Idle EXCEPT !.token = t.token, !.email = t.email],
                               "resetWrite")
             ELSE UNCHANGED task
      PROVE  Landed(t)
  <2>1. db' = db /\ hist' = hist /\ faults' \in {faults, faults + 1}
    BY <1>2, <1>3, <1>5
  <2> HIDE DEF Err
  <2> QED BY <1>2, <1>5, <2>1, Zenon
<1> HIDE DEF Landed, Err, None
<1>6. \E t \in db.resets : Landed(t)
  <2>1. PICK t \in db.resets :
          \/ /\ driver = "memory" /\ Spent(MemResetPasswordWithToken(db, t.token, next), t.token)
             /\ UNCHANGED <<task, faults>>
          \/ /\ driver = "sqlite" /\ UNCHANGED task
             /\ \/ /\ Spent(LiteResetPasswordWithToken(db, t.token, next), t.token)
                   /\ UNCHANGED faults
                \/ /\ faults' = faults + 1
                   /\ \E b \in {Err(db), LiteResetPasswordCut(db, t.token, next)} :
                        Spent(b, t.token)
          \/ /\ driver = "postgres"
             /\ \E o : /\ \/ o = PgResetCheck(db, t.token) /\ faults' = faults
                          \/ o = Err(db) /\ faults' = faults + 1
                       /\ db' = o.db /\ UNCHANGED hist
                       /\ IF o.ok THEN Goto(h, [Idle EXCEPT !.token = t.token,
                                                            !.email = t.email],
                                            "resetWrite")
                          ELSE UNCHANGED task
    BY DEF Reset, Call, CallOr, Spent
  <2>2. CASE /\ driver = "memory"
             /\ Spent(MemResetPasswordWithToken(db, t.token, next), t.token)
             /\ UNCHANGED <<task, faults>>
    BY <1>4, <2>2 DEF Spending
  <2>3. CASE /\ driver = "sqlite" /\ UNCHANGED task
             /\ \/ /\ Spent(LiteResetPasswordWithToken(db, t.token, next), t.token)
                   /\ UNCHANGED faults
                \/ /\ faults' = faults + 1
                   /\ \E b \in {Err(db), LiteResetPasswordCut(db, t.token, next)} :
                        Spent(b, t.token)
    BY <1>4, <2>3 DEF Spending
  <2>4. CASE /\ driver = "postgres"
             /\ \E o : /\ \/ o = PgResetCheck(db, t.token) /\ faults' = faults
                          \/ o = Err(db) /\ faults' = faults + 1
                       /\ db' = o.db /\ UNCHANGED hist
                       /\ IF o.ok THEN Goto(h, [Idle EXCEPT !.token = t.token,
                                                            !.email = t.email],
                                            "resetWrite")
                          ELSE UNCHANGED task
    BY <1>5, <2>4, Zenon
  <2> QED BY <2>1, <2>2, <2>3, <2>4
<1> QED BY <1>1, <1>6, Zenon DEF Landed

LEMMA ResetTurn ==
    ASSUME Base, NEW h \in Handlers, Reset(h)
    PROVE  /\ Turn(h, {"users", "resets", "sessions"}, {"resets"}) /\ task[h] = Idle
           /\ next' = next + 1
           /\ task'[h] = Idle \/ (task'[h].pc = "resetWrite" /\ task'[h].uid = None)
<1> DEFINE T == {"users", "resets", "sessions"}
<1>1. Arrive(h, "reset") /\ next' = next + 1
  BY ResetOutcome
<1>2. ASSUME NEW k, NEW o, Spending(o, k), Spent(o, k), task' = task
      PROVE  Turn(h, T, {"resets"}) /\ task[h] = Idle /\ task'[h] = Idle
  <2>1. Only(o.db, T) /\ faults' \in {faults, faults + 1}
    BY SMT, <1>2, ResetWrites, OnlySame DEF Base, Spending
  <2>2. Only(db', T)
    BY <1>2, <2>1 DEF Spent
  <2>3. HistOnly({"resets"})
    BY <1>2 DEF Spent, Base, HistOnly, Has, Histories
  <2> QED BY <1>1, <1>2, <2>1, <2>2, <2>3, ArriveTurn
<1>3. ASSUME db' = db, hist' = hist, faults' \in {faults, faults + 1},
             \/ task' = task
             \/ \E k, e : Goto(h, [Idle EXCEPT !.token = k, !.email = e], "resetWrite")
      PROVE  /\ Turn(h, T, {"resets"}) /\ task[h] = Idle
             /\ task'[h] = Idle \/ (task'[h].pc = "resetWrite" /\ task'[h].uid = None)
  <2>1. ASSUME NEW k, NEW e PROVE Anonymous([Idle EXCEPT !.token = k, !.email = e])
    BY DEF Idle, Has, Fields, Anonymous
  <2>2. task' = task \/ \E t : Anonymous(t) /\ Goto(h, t, "resetWrite")
    BY <1>3, <2>1
  <2>3. HistOnly({"resets"}) /\ Only(db', T)
    BY <1>3, OnlySame DEF HistOnly, Base
  <2>4. faults' \in {faults, faults + 1} /\ next' \in {next, next + 1}
    BY <1>1, <1>3
  <2> QED BY SMT, <1>1, <2>2, <2>3, <2>4, ArriveAnonymous
<1>4. PICK t \in db.resets :
        \/ /\ driver = "postgres" /\ db' = db /\ hist' = hist
           /\ faults' \in {faults, faults + 1}
           /\ \/ task' = task
              \/ /\ PgResetCheck(db, t.token).ok
                 /\ Goto(h, [Idle EXCEPT !.token = t.token, !.email = t.email],
                         "resetWrite")
        \/ task' = task /\ \E o : Spending(o, t.token) /\ Spent(o, t.token)
  BY ResetOutcome, Zenon
<1>5. CASE task' = task /\ \E o : Spending(o, t.token) /\ Spent(o, t.token)
  BY <1>1, <1>2, <1>5
<1>6. CASE /\ driver = "postgres" /\ db' = db /\ hist' = hist
           /\ faults' \in {faults, faults + 1}
           /\ \/ task' = task
              \/ /\ PgResetCheck(db, t.token).ok
                 /\ Goto(h, [Idle EXCEPT !.token = t.token, !.email = t.email],
                         "resetWrite")
  BY <1>1, <1>3, <1>6, Zenon
<1> QED BY <1>4, <1>5, <1>6

(* The steps, and the frame all stories share.                             *)

LEMMA TurnMore ==
    ASSUME NEW h \in Handlers, NEW T, NEW H, Turn(h, T, H), NEW U, T \subseteq U,
           NEW I, H \subseteq I
    PROVE  Turn(h, U, I)
BY DEF Turn, Only, HistOnly

\* The labels requests with a session begin at, and those that plain steps
\* start from and lead to.
BeginLabels == {"change", "profile", "neworg", "newproject", "switch", "invite", "acceptRead",
                "ssoAuthorize", "keyResolve", "keyRevoke"}
PlainSources == {"org", "join", "joined", "change", "neworg", "switch", "acceptRead", "cookie",
                 "ssoCallback", "ssoAuthorize", "ssoSecret", "ssoSave", "ssoTyped",
                 "ssoDelete", "keyResolve", "keyRole"}
PlainLabels == {"owner", "accept", "org", "session", "changeWrite", "ssoUser", "ssoSecret",
                "ssoTyped", "ssoDelete", "ssoSave", "keyRole", "keyCreate"}

\* A step that makes an organization at most, or sets up a provider, and
\* stays with its user.
Plain(h) ==
    /\ Turn(h, {"orgs", "oidc"}, {"active", "lost"}) /\ Moves(h, PlainLabels)
    /\ db.orgs \subseteq db'.orgs
    /\ task[h].pc \in PlainSources
    /\ task[h].pc = "ssoCallback" => task'[h] = Idle \/ task'[h].pc = "ssoUser"
    /\ task'[h].pc = "ssoUser" => task[h].pc = "ssoCallback"

Arriving(h) ==
    \/ SignUp(h) \/ Login(h) \/ Logout(h) \/ OAuth(h) \/ Forgot(h) \/ Reset(h) \/ SSOLogin(h)
    \/ \E r, l : l \in BeginLabels /\ Authenticated(h, r, l)

Writing(h) ==
    \/ CreateAccount(h) \/ ProvisionOwner(h) \/ ProvisionProject(h) \/ Accept(h)
    \/ AcceptMark(h) \/ AcceptMember(h) \/ OpenSession(h) \/ OAuthPicture(h)
    \/ ChangeWrite(h) \/ ChangeEnd(h) \/ ForgotWrite(h) \/ ResetWrite(h) \/ ProfileWrite(h)
    \/ CreateProj(h) \/ Invite(h) \/ SSOUser(h) \/ SSOMember(h) \/ SSOJoin(h)
    \/ KeyCreate(h) \/ KeyRevoke(h)

LEMMA OrgsGrow ==
    ASSUME Has(db, Tables), NEW o
    PROVE  db.orgs \subseteq CreateOrganization(o).db.orgs
<1>1. ASSUME NEW S PROVE [db EXCEPT !.orgs = S].orgs = S
  BY DEF Has, Tables
<1> QED BY <1>1 DEF CreateOrganization, Of, MemCreateOrganization, LiteCreateOrganization,
           PgCreateOrganization, Insert

LEMMA MakePlain ==
    ASSUME NEW h \in Handlers, NEW T, T \subseteq {"orgs", "oidc"},
           "orgs" \notin T \/ db.orgs \subseteq db'.orgs,
           NEW H, H \subseteq {"active", "lost"}, Turn(h, T, H),
           NEW L, L \subseteq PlainLabels, Moves(h, L), task[h].pc \in PlainSources,
           task[h].pc = "ssoCallback" => L = {"ssoUser"},
           "ssoUser" \in L => task[h].pc = "ssoCallback"
    PROVE  Plain(h)
<1>1. db.orgs \subseteq db'.orgs
  BY DEF Turn, Only, Tables
<1> QED BY <1>1, TurnMore, IdleShape DEF Plain, Moves

LEMMA PlainSteps ==
    ASSUME Base, NEW h \in Handlers,
           \/ ProvisionOrg(h) \/ SignUpJoin(h) \/ SignUpAdopt(h) \/ ChangeRead(h)
           \/ CreateOrg(h) \/ SwitchActive(h) \/ AcceptRead(h) \/ AcceptCookie(h)
           \/ SSOCallback(h) \/ SSOAuthorize(h) \/ SSOSecret(h) \/ SSOSave(h)
           \/ SSODelete(h) \/ KeyResolve(h) \/ KeyRole(h)
    PROVE  Plain(h)
<1> USE DEF PlainLabels, PlainSources
<1>1. CASE ProvisionOrg(h)
  <2>1. db.orgs \subseteq db'.orgs
    BY SMT, <1>1, OrgsGrow DEF ProvisionOrg, Call, CallOr, Base
  <2> QED BY <1>1, <2>1, ProvisionOrgTurn, MakePlain
<1>2. CASE SignUpJoin(h)
  BY <1>2, SignUpJoinTurn, MakePlain
<1>3. CASE SignUpAdopt(h)
  BY <1>3, SignUpAdoptTurn, MakePlain
<1>4. CASE ChangeRead(h)
  BY <1>4, ChangeReadTurn, MakePlain
<1>5. CASE CreateOrg(h)
  <2>1. db.orgs \subseteq db'.orgs
    BY SMT, <1>5, OrgsGrow DEF CreateOrg, Call, CallOr, Base
  <2> QED BY <1>5, <2>1, CreateOrgTurn, MakePlain
<1>6. CASE SwitchActive(h)
  BY <1>6, SwitchActiveTurn, MakePlain
<1>7. CASE AcceptRead(h)
  BY <1>7, AcceptReadTurn, MakePlain
<1>8. CASE AcceptCookie(h)
  BY <1>8, AcceptCookieTurn, MakePlain
<1>9. CASE SSOCallback(h)
  BY <1>9, SSOCallbackTurn, MakePlain
<1>10. CASE SSOAuthorize(h)
  BY <1>10, SSOAuthorizeTurn, MakePlain
<1>11. CASE SSOSecret(h)
  BY <1>11, SSOSecretTurn, MakePlain
<1>12. CASE SSOSave(h)
  BY <1>12, SSOSaveTurn, MakePlain
<1>13. CASE SSODelete(h)
  BY <1>13, SSODeleteTurn, MakePlain
<1>14. CASE KeyResolve(h)
  BY <1>14, KeyResolveTurn, MakePlain
<1>15. CASE KeyRole(h)
  BY <1>15, KeyRoleTurn, MakePlain
<1> QED BY <1>1, <1>2, <1>3, <1>4, <1>5, <1>6, <1>7, <1>8, <1>9, <1>10, <1>11, <1>12,
           <1>13, <1>14, <1>15

\* Every step is a plain one, the arrival of a request, a step that writes to
\* a table or looks up who signs in, time passing, or a restart.
LEMMA Steps ==
    ASSUME Base, Next
    PROVE  (\E h \in Handlers : Plain(h) \/ Arriving(h) \/ Writing(h)) \/ GrowOld \/ Restart
<1>1. ASSUME NEW h \in Handlers, AccountRequests(h) \/ TenantRequests(h)
      PROVE  Arriving(h)
  BY <1>1 DEF AccountRequests, TenantRequests, Arriving, BeginLabels
<1>2. ASSUME NEW h \in Handlers, AccountSteps(h)
      PROVE  Writing(h) \/ Plain(h)
  BY <1>2, PlainSteps DEF AccountSteps, Writing
<1>3. ASSUME NEW h \in Handlers, TenantSteps(h)
      PROVE  Writing(h) \/ Plain(h)
  BY <1>3, PlainSteps DEF TenantSteps, Writing
<1> QED BY <1>1, <1>2, <1>3 DEF Next

LEMMA ArrivingTurn ==
    ASSUME Base, NEW h \in Handlers, Arriving(h)
    PROVE  Turn(h, {"users", "resets", "sessions"}, {"active", "resets"}) /\ task[h] = Idle
BY SMTT(30), SignUpTurn, LoginTurn, LogoutTurn, OAuthTurn, ForgotTurn, ResetTurn, SSOLoginTurn,
   AuthenticatedTurn, TurnMore DEF Arriving

LEMMA WritingTurn ==
    ASSUME Base, NEW h \in Handlers, Writing(h)
    PROVE  Turn(h, Tables, Histories) /\ task[h].pc # "idle"
<1>1. CASE CreateAccount(h) \/ ProvisionOwner(h) \/ ProvisionProject(h)
  BY SMTT(30), <1>1, CreateAccountTurn, ProvisionOwnerTurn, ProvisionProjectTurn, TurnMore
     DEF Tables, Histories
<1>5. CASE Accept(h)
  BY SMT, <1>5, AcceptTurn, TurnMore DEF Tables, Histories
<1>7. CASE AcceptMark(h)
  <2>1. Turn(h, {"invites"}, {"joined", "lost"}) /\ task[h].pc = "acceptMark"
    BY <1>7, AcceptMarkTurn
  <2> QED BY SMT, <2>1, TurnMore DEF Tables, Histories
<1>8. CASE AcceptMember(h)
  <2>1. Turn(h, {"members"}, {"joined", "lost"}) /\ task[h].pc = "acceptMember"
    BY <1>8, AcceptMemberTurn
  <2> QED BY SMT, <2>1, TurnMore DEF Tables, Histories
<1>6. CASE OpenSession(h) \/ OAuthPicture(h)
  BY SMTT(30), <1>6, OpenSessionTurn, OAuthPictureTurn, TurnMore DEF Tables, Histories
<1>2. CASE ChangeWrite(h) \/ ChangeEnd(h) \/ ForgotWrite(h) \/ ResetWrite(h)
  BY SMTT(30), <1>2, ChangeWriteTurn, ChangeEndTurn, ForgotWriteTurn, ResetWriteTurn, TurnMore
     DEF Tables, Histories
<1>4. CASE ProfileWrite(h) \/ CreateProj(h) \/ Invite(h)
  BY SMTT(30), <1>4, ProfileWriteTurn, CreateProjTurn, InviteTurn, TurnMore DEF Tables, Histories
<1>3. CASE SSOUser(h) \/ SSOMember(h) \/ SSOJoin(h) \/ KeyCreate(h) \/ KeyRevoke(h)
  BY SMT, <1>3, SSOUserTurn, SSOMemberTurn, SSOJoinTurn, KeyCreateTurn, KeyRevokeTurn, TurnMore
     DEF Tables, Histories
<1> QED BY <1>1, <1>2, <1>3, <1>4, <1>5, <1>6, <1>7, <1>8 DEF Writing

LEMMA GrowOldStep ==
    ASSUME Base, GrowOld
    PROVE  /\ Only(db', {"sessions", "resets", "invites"})
           /\ driver' = driver /\ task' = task /\ next' = next /\ faults' = faults
           /\ serial' = serial /\ hist' = hist
           /\ \E t \in {"sessions", "resets", "invites"} : \E row \in db[t] :
                db' = Update(db, t, row, Older(row)) /\ ~IsExpired(row)
<1>1. PICK t \in {"sessions", "resets", "invites"} : \E row \in db[t] :
        db' = Update(db, t, row, Older(row)) /\ ~IsExpired(row)
  BY DEF GrowOld
<1>2. t \in Tables /\ t \in {"sessions", "resets", "invites"}
  BY DEF Tables
<1>3. Only(db', {"sessions", "resets", "invites"})
  <2>1. PICK row \in db[t] : db' = Update(db, t, row, Older(row))
    BY <1>1
  <2>2. Only(db, {"sessions", "resets", "invites"})
    BY OnlySame
  <2> HIDE DEF Tables
  <2> QED BY <1>2, <2>1, <2>2, Within
<1> QED BY <1>1, <1>3 DEF GrowOld

LEMMA RestartStep ==
    ASSUME Base, Restart
    PROVE  /\ db' = db /\ hist' = hist /\ driver' = driver /\ next' = next /\ driver # "memory"
           /\ serial' = serial /\ faults' = faults + 1 /\ task' = [h \in Handlers |-> Idle]
BY DEF Restart

\* A step of the clock or a restart keeps the frame, too.
LEMMA BaseStep ==
    ASSUME Base, [Next]_vars
    PROVE  Base'
<1>1. CASE UNCHANGED vars
  BY <1>1 DEF vars, Base
<1>2. ASSUME NEW h \in Handlers, Plain(h) \/ Arriving(h) \/ Writing(h)
      PROVE  Base'
  BY <1>2, ArrivingTurn, WritingTurn, TurnBase DEF Plain
<1>3. CASE GrowOld
  BY SMTT(30), <1>3, GrowOldStep DEF Base, Only
<1>4. CASE Restart
  <2>1. Has(task', Handlers) /\ \A h \in Handlers : task'[h] = Idle
    BY <1>4, RestartStep DEF Has
  <2> QED BY SMT, <1>4, <2>1, RestartStep, IdleShape DEF Base
<1> QED BY <1>1, <1>2, <1>3, <1>4, Steps

LEMMA BaseInit == Init => Base
<1> SUFFICES ASSUME Init PROVE Base
  OBVIOUS
<1>1. Has(db, Tables)
  BY DEF Init, EmptyDB, Has, Tables
<1>2. Has(hist, Histories)
  BY DEF Init, NoHistory, Has, Histories
<1>3. Has(task, Handlers) /\ \A h \in Handlers : Has(task[h], Fields) /\ task[h] = Idle
  BY IdleShape DEF Init, Has
<1> QED BY SMT, <1>1, <1>2, <1>3 DEF Base, Init

-----------------------------------------------------------------------------
(* The inductive invariants.                                               *)

UserFields == {"id", "email", "pw", "name", "avatar", "role"}
SessionFields == {"token", "user", "pw", "age"}
ResetFields == {"token", "email", "used", "age"}
InviteFields == {"token", "org", "email", "role", "accepted", "age"}

\* Accounts: IDs and addresses identify a row.
UsersInv ==
    /\ \A u \in db.users : Has(u, UserFields) /\ u.id \in Nat /\ u.id # None /\ u.id < next
    /\ \A u, v \in db.users : u.id = v.id => u = v
    /\ \A u, v \in db.users : u.email = v.email => u = v

\* Sessions belong to users, and so do requests, except at some labels.
AnonymousLabels == {"idle", "create", "forgot", "resetWrite", "ssoCallback", "ssoUser"}
IsUser(i) == \E u \in db.users : u.id = i
OwnersInv ==
    /\ \A s \in db.sessions : Has(s, SessionFields) /\ IsUser(s.user)
    /\ \A h \in Handlers : IF task[h].pc \in AnonymousLabels THEN task[h].uid = None
                           ELSE IsUser(task[h].uid)

\* Reset tokens: a token that has changed a password is marked.
ResetTrusted == (driver = "sqlite" => faults = 0) /\ (driver = "postgres" => serial)
ResetsInv ==
    /\ \A t \in db.resets : Has(t, ResetFields) /\ t.token \in Nat /\ t.token < next
    /\ \A s, t \in db.resets : s.token = t.token => s = t
    /\ \A x \in hist.resets : x = <<x[1], x[2]>> /\ \E t \in db.resets : t.token = x[1]
    /\ \A h \in Handlers : task[h].pc = "resetWrite" =>
         driver = "postgres" /\ \E t \in db.resets : t.token = task[h].token
    /\ ResetTrusted =>
         /\ \A x \in hist.resets : \A t \in db.resets : t.token = x[1] => t.used
         /\ \A x, y \in hist.resets : x[1] = y[1] => x = y
         /\ \A h \in Handlers : task[h].pc = "resetWrite" =>
              \A x \in hist.resets : x[1] # task[h].token

-----------------------------------------------------------------------------
(* Accounts.                                                               *)

\* The table R is S with the row old rewritten, under the same ID and address.
Rewritten(S, R, old, new) ==
    /\ old \in S /\ Has(new, UserFields) /\ new.id = old.id /\ new.email = old.email
    /\ R = (S \ {old}) \cup {new}
PasswordSet(S, R, i, pw) ==
    \E old, new : /\ Rewritten(S, R, old, new) /\ old.id = i
                  /\ new.pw = pw /\ new.name = old.name
NameSet(S, R, i, n) ==
    \E old, new : /\ Rewritten(S, R, old, new) /\ old.id = i
                  /\ new.pw = old.pw /\ (new.name = n \/ (n = NoText /\ new.name = old.name))

LEMMA NoSuch ==
    ASSUME NEW i
    PROVE  NoSuchUser(db, i) <=> UsersByID(db, i) = {}
BY DEF UsersByID, NoSuchUser

\* What Update leaves in its table.
LEMMA UpdateTable ==
    ASSUME NEW d, Has(d, Tables), NEW t \in Tables, NEW old, NEW new
    PROVE  Update(d, t, old, new)[t] = (d[t] \ {old}) \cup {new}
<1>1. ASSUME NEW R PROVE [d EXCEPT ![t] = R][t] = R
  BY DEF Has
<1> QED BY <1>1 DEF Update

LEMMA PasswordWritten ==
    ASSUME Base, UsersInv, NEW i, NEW pw
    PROVE  LET o == UpdateUserPassword(i, pw)
           IN  \/ ~o.ok /\ o.db = db
               \/ o.ok /\ PasswordSet(db.users, o.db.users, i, pw)
<1> DEFINE old == Some(UsersByID(db, i))
           new == [old EXCEPT !.pw = pw]
           o == UpdateUserPassword(i, pw)
<1>1. CASE UsersByID(db, i) = {}
  BY <1>1, NoSuch DEF UpdateUserPassword, Of, MemUpdateUserPassword,
     LiteUpdateUserPassword, PgUpdateUserPassword
<1>2. CASE UsersByID(db, i) # {}
  <2>1. old \in db.users /\ old.id = i
    BY <1>2, SomeIn DEF UsersByID
  <2>2. Has(old, UserFields)
    BY <2>1 DEF UsersInv
  <2> HIDE DEF old
  <2>3. /\ Has(new, UserFields) /\ new.id = old.id /\ new.email = old.email
        /\ new.pw = pw /\ new.name = old.name
    BY <2>2 DEF Has, UserFields
  <2>4. Some(UsersByID(db, i)) = old
    BY DEF old
  <2> HIDE DEF new
  <2>5. o.ok /\ o.db = Update(db, "users", old, new)
    BY <1>2, <2>4, NoSuch DEF UpdateUserPassword, Of, MemUpdateUserPassword,
       LiteUpdateUserPassword, PgUpdateUserPassword, new
  <2>6. o.db.users = (db.users \ {old}) \cup {new}
    BY SMT, <2>5, UpdateTable DEF Base, Tables
  <2> HIDE DEF o
  <2> QED BY <2>1, <2>3, <2>5, <2>6 DEF PasswordSet, Rewritten, o
<1> QED BY <1>1, <1>2

LEMMA NameWritten ==
    ASSUME Base, UsersInv, NEW u
    PROVE  LET o == UpdateUser(u)
           IN  \/ ~o.ok /\ o.db = db
               \/ o.ok /\ NameSet(db.users, o.db.users, u.id, u.name)
<1> DEFINE old == Some(UsersByID(db, u.id))
           o == UpdateUser(u)
<1>1. CASE UsersByID(db, u.id) = {}
  BY <1>1, NoSuch DEF UpdateUser, Of, MemUpdateUser, LiteUpdateUser, PgUpdateUser
<1>2. CASE UsersByID(db, u.id) # {}
  <2>1. old \in db.users /\ old.id = u.id
    BY <1>2, SomeIn DEF UsersByID
  <2>2. Has(old, UserFields)
    BY <2>1 DEF UsersInv
  <2>4. Some(UsersByID(db, u.id)) = old
    OBVIOUS
  <2> HIDE DEF old
  <2> DEFINE kept == [old EXCEPT !.name = IF u.name = NoText THEN old.name ELSE u.name,
                                 !.avatar = u.avatar]
             new == [old EXCEPT !.name = u.name, !.avatar = u.avatar]
  <2>5. /\ Has(new, UserFields) /\ new.id = old.id /\ new.email = old.email
        /\ new.pw = old.pw /\ new.name = u.name
    BY <2>2 DEF Has, UserFields
  <2>6. /\ Has(kept, UserFields) /\ kept.id = old.id /\ kept.email = old.email
        /\ kept.pw = old.pw /\ kept.name = IF u.name = NoText THEN old.name ELSE u.name
    BY <2>2 DEF Has, UserFields
  <2>7. o.ok /\ (\/ o.db = Update(db, "users", old, kept)
                 \/ o.db = Update(db, "users", old, new))
    <3> HIDE DEF kept, new
    <3> QED BY <1>2, <2>4, NoSuch DEF UpdateUser, Of, MemUpdateUser, LiteUpdateUser,
                PgUpdateUser, kept, new
  <2> HIDE DEF kept, new
  <2>8. \/ o.db.users = (db.users \ {old}) \cup {kept}
        \/ o.db.users = (db.users \ {old}) \cup {new}
    BY SMT, <2>7, UpdateTable DEF Base, Tables
  <2> HIDE DEF o
  <2> QED BY <2>1, <2>5, <2>6, <2>7, <2>8 DEF NameSet, Rewritten, o
<1> QED BY <1>1, <1>2

LEMMA AccountMade ==
    ASSUME Base, NEW u
    PROVE  LET o == CreateUser(u)
           IN  \/ ~o.ok /\ o.db = db
               \/ /\ o.ok /\ UsersByEmail(db, u.email) = {}
                  /\ o.db.users = db.users \cup {u}
<1>1. ASSUME NEW S PROVE [db EXCEPT !.users = S].users = S
  BY DEF Base, Has, Tables
<1> QED BY <1>1, NoSuch DEF CreateUser, Of, MemCreateUser, LiteCreateUser, PgCreateUser,
           Insert

-----------------------------------------------------------------------------
(* Tokens that are marked when they are spent.                             *)

\* The table R is S with the row of token k marked; rows have the fields F.
Marked(S, R, k, F, flag) ==
    /\ \A r \in R : \/ r \in S /\ r.token # k
                    \/ /\ Has(r, F) /\ r[flag] = TRUE /\ r.token = k
                       /\ \E s \in S : \A f \in F \ {flag} : r[f] = s[f]
    /\ \A s \in S : s.token # k => s \in R
    /\ \E r \in R : r.token = k
    /\ \A q, r \in R : q.token = r.token => q = r

Tokens(S, F) == (\A s \in S : Has(s, F)) /\ \A s, t \in S : s.token = t.token => s = t

LEMMA MarkedUpdate ==
    ASSUME NEW F, "token" \in F, NEW flag, flag # "token", NEW S, Tokens(S, F), NEW t \in S,
           NEW new, Has(new, F), new[flag] = TRUE, \A f \in F \ {flag} : new[f] = t[f],
           NEW R, R = (S \ {t}) \cup {new}
    PROVE  Marked(S, R, t.token, F, flag)
<1>1. new.token = t.token
  OBVIOUS
<1> QED BY SMT, <1>1 DEF Marked, Tokens

LEMMA MarkedMap ==
    ASSUME NEW F, "token" \in F, NEW flag, flag # "token", NEW S, Tokens(S, F), NEW k,
           \E s \in S : s.token = k, NEW R,
           \A r \in R : \E s \in S :
             IF s.token = k
             THEN Has(r, F) /\ r[flag] = TRUE /\ \A f \in F \ {flag} : r[f] = s[f]
             ELSE r = s,
           \A s \in S : \E r \in R : IF s.token = k THEN r.token = k ELSE r = s
    PROVE  Marked(S, R, k, F, flag)
<1>1. ASSUME NEW r \in R
      PROVE  \/ r \in S /\ r.token # k
             \/ /\ Has(r, F) /\ r[flag] = TRUE /\ r.token = k
                /\ \E s \in S : s.token = k /\ \A f \in F \ {flag} : r[f] = s[f]
  OBVIOUS
<1>2. ASSUME NEW q \in R, NEW r \in R, q.token = r.token PROVE q = r
  <2>1. CASE q.token # k
    BY <1>1, <1>2, <2>1 DEF Tokens
  <2>2. CASE q.token = k
    <3>1. PICK s \in S : s.token = k /\ \A f \in F \ {flag} : q[f] = s[f]
      BY <1>1, <2>2
    <3>2. PICK t \in S : t.token = k /\ \A f \in F \ {flag} : r[f] = t[f]
      BY <1>1, <1>2, <2>2
    <3>3. s = t
      BY SMT, <3>1, <3>2 DEF Tokens
    <3>4. \A f \in F : q[f] = r[f]
      BY <1>1, <1>2, <2>2, <3>1, <3>2, <3>3
    <3>5. Has(q, F) /\ Has(r, F)
      BY <1>1, <1>2, <2>2
    <3> QED BY <3>4, <3>5 DEF Has
  <2> QED BY <2>1, <2>2
<1> QED BY SMT, <1>1, <1>2 DEF Marked

LEMMA ResetOfMemory ==
    ASSUME Base, UsersInv, Tokens(db.resets, ResetFields), NEW k, NEW pw
    PROVE  LET o == MemResetPasswordWithToken(db, k, pw)
           IN  \/ ~o.ok /\ o.db = db
               \/ /\ o.ok
                  /\ \E i : /\ PasswordSet(db.users, o.db.users, i, pw)
                            /\ o.db.sessions = { s \in db.sessions : s.user # i }
                  /\ \E t \in db.resets : t.token = k /\ ~t.used
                  /\ Marked(db.resets, o.db.resets, k, ResetFields, "used")
<1> DEFINE o == MemResetPasswordWithToken(db, k, pw)
           S == { r \in db.resets : r.token = k }
           t == Some(S)
           u == Some(UsersByEmail(db, t.email))
           new == [u EXCEPT !.pw = pw]
           d1 == Update(db, "users", u, new)
           d2 == Update(d1, "resets", t, [t EXCEPT !.used = TRUE])
           d3 == Delete(d2, "sessions", SessionsOf(d2, u.id))
<1>1. MemGetPasswordResetToken(db, k) = IF S = {} THEN Err(db) ELSE Ok(db, t)
  BY SomeIn DEF MemGetPasswordResetToken, First
<1>2. o = IF S = {} \/ t.used \/ IsExpired(t) \/ UsersByEmail(db, t.email) = {} THEN Err(db)
          ELSE Ok(d3, u.id)
  <2>1. Some(UsersByEmail(db, t.email)) = u
    OBVIOUS
  <2>2. CASE S = {}
    BY SMT, <1>1, <2>2 DEF MemResetPasswordWithToken
  <2>3. CASE S # {}
    <3>1. MemGetPasswordResetToken(db, k).ok /\ MemGetPasswordResetToken(db, k).val = t
      BY SMTT(30), <1>1, <2>3
    <3> HIDE DEF t, u
    <3> QED BY <2>1, <2>3, <3>1 DEF MemResetPasswordWithToken
  <2> QED BY <2>2, <2>3
<1> SUFFICES ASSUME S # {}, ~t.used, UsersByEmail(db, t.email) # {}, o = Ok(d3, u.id)
             PROVE  /\ \E i : /\ PasswordSet(db.users, d3.users, i, pw)
                              /\ d3.sessions = { s \in db.sessions : s.user # i }
                    /\ \E r \in db.resets : r.token = k /\ ~r.used
                    /\ Marked(db.resets, d3.resets, k, ResetFields, "used")
  <2> HIDE DEF t, u, d3, o
  <2> QED BY SMT, <1>2 DEF o
<1>3. t \in db.resets /\ t.token = k
  BY SomeIn
<1>4. u \in db.users
  BY SomeIn DEF UsersByEmail
<1> HIDE DEF t, u
<1>5. Has(u, UserFields)
  BY <1>4 DEF UsersInv
<1>6. /\ Has(new, UserFields) /\ new.id = u.id /\ new.email = u.email
      /\ new.pw = pw /\ new.name = u.name
  BY <1>5 DEF Has, UserFields
<1> HIDE DEF new
<1> DEFINE tt == [t EXCEPT !.used = TRUE]
<1>11. Has(tt, ResetFields) /\ tt["used"] = TRUE
       /\ \A f \in ResetFields \ {"used"} : tt[f] = t[f]
  <2>1. Has(t, ResetFields)
    BY <1>3 DEF Tokens
  <2> QED BY <2>1 DEF Has, ResetFields
<1> HIDE DEF tt
<1>7. /\ d3.users = (db.users \ {u}) \cup {new}
      /\ d3.resets = (db.resets \ {t}) \cup {tt}
      /\ d3.sessions = { s \in db.sessions : s.user # u.id }
  <2>1. Has(db, Tables)
    BY DEF Base
  <2>2. /\ Has(d1, Tables) /\ d1.users = (db.users \ {u}) \cup {new}
        /\ d1.resets = db.resets /\ d1.sessions = db.sessions
    BY <2>1 DEF Update, Has, Tables
  <2> HIDE DEF d1
  <2>3. /\ Has(d2, Tables) /\ d2.resets = (db.resets \ {t}) \cup {tt}
        /\ d2.users = d1.users /\ d2.sessions = db.sessions
    BY <2>2 DEF Update, Has, Tables, tt
  <2> HIDE DEF d2
  <2>4. /\ d3.users = d2.users /\ d3.resets = d2.resets
        /\ d3.sessions = d2.sessions \ SessionsOf(d2, u.id)
    BY <2>3 DEF Delete, Has, Tables
  <2> QED BY <2>2, <2>3, <2>4 DEF SessionsOf, tt
<1> HIDE DEF d3
<1>8. PasswordSet(db.users, d3.users, u.id, pw)
  BY <1>4, <1>6, <1>7 DEF PasswordSet, Rewritten
<1>9. \E i : /\ PasswordSet(db.users, d3.users, i, pw)
             /\ d3.sessions = { s \in db.sessions : s.user # i }
  BY <1>7, <1>8
<1>10. Marked(db.resets, d3.resets, k, ResetFields, "used")
  <2>1. "token" \in ResetFields
    BY DEF ResetFields
  <2> QED BY <1>3, <1>7, <1>11, <2>1, MarkedUpdate
<1> QED BY <1>3, <1>9, <1>10

\* At most one user has been given the password pw.
UsersReset(R, pw) == R = db.users \/ \E i : PasswordSet(db.users, R, i, pw)

LEMMA MappedUsers ==
    ASSUME UsersInv, NEW e, NEW pw
    PROVE  UsersReset({ IF u.email = e THEN [u EXCEPT !.pw = pw] ELSE u : u \in db.users }, pw)
<1> DEFINE R == { IF u.email = e THEN [u EXCEPT !.pw = pw] ELSE u : u \in db.users }
<1> SUFFICES UsersReset(R, pw)
  OBVIOUS
<1>1. CASE \A u \in db.users : u.email # e
  <2>1. R = db.users
    BY <1>1
  <2> HIDE DEF R
  <2> QED BY <2>1 DEF UsersReset
<1>2. ASSUME NEW u \in db.users, u.email = e
      PROVE  \E i : PasswordSet(db.users, R, i, pw)
  <2> DEFINE new == [u EXCEPT !.pw = pw]
  <2>1. \A v \in db.users : v.email = e => v = u
    BY <1>2 DEF UsersInv
  <2>2. Has(u, UserFields)
    BY DEF UsersInv
  <2>3. /\ Has(new, UserFields) /\ new.id = u.id /\ new.email = u.email
        /\ new.pw = pw /\ new.name = u.name
    BY <2>2 DEF Has, UserFields
  <2>4. R = (db.users \ {u}) \cup {new}
    BY <1>2, <2>1
  <2> HIDE DEF R, new
  <2> QED BY <1>2, <2>3, <2>4 DEF PasswordSet, Rewritten
<1> HIDE DEF R
<1> QED BY <1>1, <1>2 DEF UsersReset

LEMMA ResetOfSQLite ==
    ASSUME Base, UsersInv, Tokens(db.resets, ResetFields), NEW k, NEW pw
    PROVE  /\ LET o == LiteResetPasswordCut(db, k, pw)
              IN  \/ ~o.ok /\ o.db = db
                  \/ /\ o.ok /\ UsersReset(o.db.users, pw)
                     /\ o.db.resets = db.resets /\ o.db.sessions = db.sessions
           /\ LET o == LiteResetPasswordWithToken(db, k, pw)
              IN  \/ ~o.ok /\ o.db = db
                  \/ /\ o.ok /\ UsersReset(o.db.users, pw) /\ o.db.sessions = db.sessions
                     /\ \E t \in db.resets : t.token = k /\ ~t.used
                     /\ Marked(db.resets, o.db.resets, k, ResetFields, "used")
<1> DEFINE c == LiteResetPasswordCut(db, k, pw)
           o == LiteResetPasswordWithToken(db, k, pw)
           S == { r \in db.resets : r.token = k }
           t == Some(S)
           R == { IF u.email = t.email THEN [u EXCEPT !.pw = pw] ELSE u : u \in db.users }
           d == [db EXCEPT !.users = R]
<1>1. LiteGetPasswordResetToken(db, k) = IF S = {} THEN Err(db) ELSE Ok(db, t)
  BY SomeIn DEF LiteGetPasswordResetToken, First
<1>2. c = IF S = {} \/ t.used \/ IsExpired(t) THEN Err(db) ELSE Ok(d, t)
  <2>1. CASE S = {}
    BY SMT, <1>1, <2>1 DEF LiteResetPasswordCut
  <2>2. CASE S # {}
    <3>1. LiteGetPasswordResetToken(db, k).ok /\ LiteGetPasswordResetToken(db, k).val = t
      BY SMT, <1>1, <2>2
    <3>2. IsExpired(t) <=> IsExpired(t)
      BY DEF IsExpired
    <3> HIDE DEF t
    <3> QED BY <2>2, <3>1, <3>2 DEF LiteResetPasswordCut
  <2> QED BY <2>1, <2>2
<1>3. UsersReset(R, pw)
  BY MappedUsers
<1> HIDE DEF R
<1>4. Has(d, Tables) /\ d.users = R /\ d.resets = db.resets /\ d.sessions = db.sessions
  BY DEF Base, Has, Tables
<1> HIDE DEF d, t, c
<1>5. \/ ~c.ok /\ c.db = db
      \/ /\ S # {} /\ ~t.used /\ c.ok /\ c.db = d /\ c.val = t
  BY <1>2
<1> DEFINE tt == [t EXCEPT !.used = TRUE]
<1>6. \/ ~o.ok /\ o.db = db
      \/ /\ S # {} /\ ~t.used /\ o.ok /\ o.db = Update(d, "resets", t, tt)
  BY <1>5 DEF LiteResetPasswordWithToken, c
<1>7. ASSUME S # {} PROVE /\ t \in db.resets /\ t.token = k
                          /\ Has(tt, ResetFields) /\ tt["used"] = TRUE
                          /\ \A f \in ResetFields \ {"used"} : tt[f] = t[f]
  <2>1. t \in db.resets /\ t.token = k
    BY <1>7, SomeIn DEF t
  <2>2. Has(t, ResetFields)
    BY <2>1 DEF Tokens
  <2> QED BY <2>1, <2>2 DEF Has, ResetFields
<1> HIDE DEF tt, o
<1>8. LET e == Update(d, "resets", t, tt)
      IN  e.users = R /\ e.sessions = db.sessions /\ e.resets = (db.resets \ {t}) \cup {tt}
  BY <1>4 DEF Update, Has, Tables
<1>9. \/ ~o.ok /\ o.db = db
      \/ /\ o.ok /\ UsersReset(o.db.users, pw) /\ o.db.sessions = db.sessions
         /\ \E r \in db.resets : r.token = k /\ ~r.used
         /\ Marked(db.resets, o.db.resets, k, ResetFields, "used")
  <2>1. CASE ~o.ok /\ o.db = db
    BY <2>1
  <2>2. CASE S # {} /\ ~t.used /\ o.ok /\ o.db = Update(d, "resets", t, tt)
    <3>1. o.db.users = R /\ o.db.sessions = db.sessions /\ o.db.resets = (db.resets \ {t}) \cup {tt}
      BY <1>8, <2>2
    <3>2. "token" \in ResetFields
      BY DEF ResetFields
    <3>3. /\ t \in db.resets /\ t.token = k
          /\ Has(tt, ResetFields) /\ tt["used"] = TRUE
          /\ \A f \in ResetFields \ {"used"} : tt[f] = t[f]
      BY <1>7, <2>2
    <3>4. Marked(db.resets, o.db.resets, k, ResetFields, "used")
      BY <3>1, <3>2, <3>3, MarkedUpdate
    <3> QED BY <1>3, <2>2, <3>1, <3>3, <3>4
  <2> QED BY <1>6, <2>1, <2>2
<1>10. \/ ~c.ok /\ c.db = db
       \/ /\ c.ok /\ UsersReset(c.db.users, pw)
          /\ c.db.resets = db.resets /\ c.db.sessions = db.sessions
  BY <1>3, <1>4, <1>5
<1> QED BY <1>9, <1>10 DEF c, o

LEMMA ResetOfPostgres ==
    ASSUME Base, UsersInv, Tokens(db.resets, ResetFields), NEW t, NEW pw,
           \E r \in db.resets : r.token = t.token
    PROVE  LET o == PgResetCommit(db, t, pw)
           IN  \/ ~o.ok /\ o.db = db
               \/ /\ o.ok
                  /\ \E i : /\ PasswordSet(db.users, o.db.users, i, pw)
                            /\ o.db.sessions = { s \in db.sessions : s.user # i }
                  /\ Marked(db.resets, o.db.resets, t.token, ResetFields, "used")
<1> DEFINE o == PgResetCommit(db, t, pw)
           u == Some(UsersByEmail(db, t.email))
           new == [u EXCEPT !.pw = pw]
           d1 == Update(db, "users", u, new)
           mark(r) == [r EXCEPT !.used = TRUE]
           R == { IF r.token = t.token THEN mark(r) ELSE r : r \in db.resets }
           d2 == [d1 EXCEPT !.resets = R]
           d3 == Delete(d2, "sessions", SessionsOf(d2, u.id))
<1>1. Has(db, Tables)
  BY DEF Base
<1>2. d1.resets = db.resets /\ Has(d1, Tables) /\ d1.sessions = db.sessions
      /\ d1.users = (db.users \ {u}) \cup {new}
  <2> HIDE DEF u, new
  <2> QED BY <1>1 DEF Update, Has, Tables
<1>3. o = IF UsersByEmail(db, t.email) = {} THEN Err(db) ELSE Ok(d3, u.id)
  <2>1. Some(UsersByEmail(db, t.email)) = u
    OBVIOUS
  <2>2. d1.resets = db.resets
    BY <1>2
  <2> HIDE DEF u, d1
  <2> QED BY <2>1, <2>2 DEF PgResetCommit, d1
<1>4. CASE UsersByEmail(db, t.email) = {}
  BY SMTT(30), <1>3, <1>4
<1>5. CASE UsersByEmail(db, t.email) # {}
  <2>1. u \in db.users
    BY <1>5, SomeIn DEF UsersByEmail
  <2> HIDE DEF u
  <2>2. Has(u, UserFields)
    BY <2>1 DEF UsersInv
  <2>3. /\ Has(new, UserFields) /\ new.id = u.id /\ new.email = u.email
        /\ new.pw = pw /\ new.name = u.name
    BY <2>2 DEF Has, UserFields
  <2> HIDE DEF new, d1
  <2>4. Marked(db.resets, R, t.token, ResetFields, "used")
    <3>1. "token" \in ResetFields
      BY DEF ResetFields
    <3>2. ASSUME NEW s \in db.resets
          PROVE  /\ Has(mark(s), ResetFields) /\ mark(s)["used"] = TRUE
                 /\ mark(s).token = s.token
                 /\ \A f \in ResetFields \ {"used"} : mark(s)[f] = s[f]
      <4>1. Has(s, ResetFields)
        BY DEF Tokens
      <4> QED BY <4>1 DEF Has, ResetFields
    <3> HIDE DEF mark
    <3>3. ASSUME NEW r \in R
          PROVE  \E s \in db.resets :
                   IF s.token = t.token
                   THEN Has(r, ResetFields) /\ r["used"] = TRUE
                        /\ \A f \in ResetFields \ {"used"} : r[f] = s[f]
                   ELSE r = s
      <4>1. PICK s \in db.resets : r = IF s.token = t.token THEN mark(s) ELSE s
        OBVIOUS
      <4>2. CASE s.token = t.token
        BY <3>2, <4>1, <4>2
      <4>3. CASE s.token # t.token
        BY <4>1, <4>3
      <4> QED BY <4>2, <4>3
    <3>4. ASSUME NEW s \in db.resets
          PROVE  \E r \in R : IF s.token = t.token THEN r.token = t.token ELSE r = s
      <4>1. (IF s.token = t.token THEN mark(s) ELSE s) \in R
        OBVIOUS
      <4> HIDE DEF R
      <4> QED BY <3>2, <4>1
    <3> HIDE DEF R
    <3> QED BY <3>1, <3>3, <3>4, MarkedMap
  <2> HIDE DEF R
  <2>5. Has(d2, Tables) /\ d2.users = d1.users /\ d2.resets = R /\ d2.sessions = db.sessions
    BY <1>2 DEF Has, Tables
  <2> HIDE DEF d2
  <2>6. /\ d3.users = d1.users /\ d3.resets = R
        /\ d3.sessions = { s \in db.sessions : s.user # u.id }
    BY <2>5 DEF Delete, SessionsOf, Has, Tables
  <2>7. PasswordSet(db.users, d3.users, u.id, pw)
    BY <1>2, <2>1, <2>3, <2>6 DEF PasswordSet, Rewritten
  <2> HIDE DEF d3
  <2> QED BY SMTT(30), <1>3, <1>5, <2>4, <2>6, <2>7
<1> QED BY <1>4, <1>5

-----------------------------------------------------------------------------
(* Which steps change what.                                                *)

\* The steps that write to a table or to a history.
Touches(h) ==
    /\ db'.users # db.users => \/ CreateAccount(h) \/ OAuthPicture(h) \/ ChangeWrite(h)
                               \/ Reset(h) \/ ResetWrite(h) \/ ProfileWrite(h)
    /\ db'.sessions # db.sessions =>
         \/ Logout(h) \/ Reset(h) \/ OpenSession(h) \/ ChangeEnd(h) \/ ResetWrite(h)
         \/ \E r, l : l \in BeginLabels /\ Authenticated(h, r, l)
    /\ db'.resets # db.resets => Reset(h) \/ ForgotWrite(h) \/ ResetWrite(h)
    /\ db'.orgs # db.orgs => Plain(h)
    /\ db'.members # db.members => \/ ProvisionOwner(h) \/ Accept(h) \/ AcceptMember(h)
                                   \/ SSOJoin(h)
    /\ db'.invites # db.invites => Invite(h) \/ Accept(h) \/ AcceptMark(h)
    /\ db'.projects # db.projects => ProvisionProject(h) \/ CreateProj(h)
    /\ db'.keys # db.keys => KeyCreate(h) \/ KeyRevoke(h)
    /\ hist'.resets # hist.resets => Reset(h) \/ ResetWrite(h)
    /\ hist'.joined # hist.joined => Accept(h) \/ AcceptMember(h)
    /\ hist'.renamed # hist.renamed => ProfileWrite(h)
    /\ hist'.revoked # hist.revoked => KeyRevoke(h)

LEMMA ArrivingTouches ==
    ASSUME Base, NEW h \in Handlers, Arriving(h)
    PROVE  Touches(h)
<1> USE DEF Touches, Turn, Only, HistOnly, Tables, Histories
<1>1. CASE SignUp(h)
  BY <1>1, SignUpTurn
<1>2. CASE Login(h)
  BY <1>2, LoginTurn
<1>3. CASE Logout(h)
  BY <1>3, LogoutTurn
<1>4. CASE OAuth(h)
  BY <1>4, OAuthTurn
<1>5. CASE Forgot(h)
  BY <1>5, ForgotTurn
<1>6. CASE Reset(h)
  BY <1>6, ResetTurn
<1>7. CASE SSOLogin(h)
  BY <1>7, SSOLoginTurn
<1>8. CASE \E r, l : l \in BeginLabels /\ Authenticated(h, r, l)
  <2>1. Turn(h, {"sessions"}, {})
    BY <1>8, AuthenticatedTurn
  <2> QED BY <1>8, <2>1
<1> QED BY <1>1, <1>2, <1>3, <1>4, <1>5, <1>6, <1>7, <1>8 DEF Arriving

LEMMA WritingTouches ==
    ASSUME Base, NEW h \in Handlers, Writing(h)
    PROVE  Touches(h)
<1> USE DEF Touches, Turn, Only, HistOnly, Tables, Histories
<1>1. CASE CreateAccount(h)
  BY <1>1, CreateAccountTurn
<1>2. CASE ProvisionOwner(h)
  BY <1>2, ProvisionOwnerTurn
<1>3. CASE ProvisionProject(h)
  BY <1>3, ProvisionProjectTurn
<1>4. CASE Accept(h)
  BY <1>4, AcceptTurn
<1>5. CASE AcceptMark(h)
  BY <1>5, AcceptMarkTurn
<1>6. CASE AcceptMember(h)
  BY <1>6, AcceptMemberTurn
<1>7. CASE OpenSession(h)
  BY <1>7, OpenSessionTurn
<1>8. CASE OAuthPicture(h)
  BY <1>8, OAuthPictureTurn
<1>9. CASE ChangeWrite(h)
  BY <1>9, ChangeWriteTurn
<1>10. CASE ChangeEnd(h)
  BY <1>10, ChangeEndTurn
<1>11. CASE ForgotWrite(h)
  BY <1>11, ForgotWriteTurn
<1>12. CASE ResetWrite(h)
  BY <1>12, ResetWriteTurn
<1>13. CASE ProfileWrite(h)
  BY <1>13, ProfileWriteTurn
<1>14. CASE CreateProj(h)
  BY <1>14, CreateProjTurn
<1>15. CASE Invite(h)
  BY <1>15, InviteTurn
<1>16. CASE SSOUser(h)
  BY <1>16, SSOUserTurn
<1>17. CASE SSOMember(h)
  BY <1>17, SSOMemberTurn
<1>18. CASE SSOJoin(h)
  BY <1>18, SSOJoinTurn
<1>19. CASE KeyCreate(h)
  BY <1>19, KeyCreateTurn
<1>20. CASE KeyRevoke(h)
  BY <1>20, KeyRevokeTurn
<1> QED BY <1>1, <1>2, <1>3, <1>4, <1>5, <1>6, <1>7, <1>8, <1>9, <1>10, <1>11, <1>12,
           <1>13, <1>14, <1>15, <1>16, <1>17, <1>18, <1>19, <1>20 DEF Writing

LEMMA Touched ==
    ASSUME Base, NEW h \in Handlers, Plain(h) \/ Arriving(h) \/ Writing(h)
    PROVE  Touches(h)
<1>1. CASE Plain(h)
  BY <1>1 DEF Plain, Touches, Turn, Only, HistOnly, Tables, Histories
<1> QED BY <1>1, ArrivingTouches, WritingTouches

-----------------------------------------------------------------------------
(* What the steps that write accounts do.                                  *)

LEMMA CreateAccountWrites ==
    ASSUME Base, NEW h \in Handlers, CreateAccount(h)
    PROVE  \/ db'.users = db.users /\ task'[h] = Idle
           \/ LET t == task[h]
                  u == NewUser(next, t.email, next, t.name, t.avatar)
              IN  UsersByEmail(db, u.email) = {} /\ db'.users = db.users \cup {u}
<1> DEFINE t == task[h]
           u == NewUser(next, t.email, next, t.name, t.avatar)
           o == CreateUser(u)
<1>1. \/ ~o.ok /\ o.db = db
      \/ o.ok /\ UsersByEmail(db, u.email) = {} /\ o.db.users = db.users \cup {u}
  BY AccountMade
<1>2. \/ db' = o.db /\ (o.ok \/ Done(h))
      \/ db' = db /\ Done(h)
  <2> HIDE DEF o
  <2> QED BY SMT DEF CreateAccount, Call, CallOr, o
<1> HIDE DEF o, u
<1>3. Done(h) => task'[h] = Idle
  BY DoneShape
<1> QED BY <1>1, <1>2, <1>3 DEF u

LEMMA OAuthPictureWrites ==
    ASSUME Base, UsersInv, NEW h \in Handlers, OAuthPicture(h)
    PROVE  \/ db'.users = db.users
           \/ NameSet(db.users, db'.users, task[h].uid, task[h].name)
<1> DEFINE r == [id |-> task[h].uid, name |-> task[h].name, avatar |-> 1]
           o == UpdateUser(r)
<1>1. r.id = task[h].uid /\ r.name = task[h].name
  OBVIOUS
<1>2. db' = o.db \/ db' = db
  <2> HIDE DEF o
  <2> QED BY SMT DEF OAuthPicture, Call, CallOr, o
<1> HIDE DEF r
<1>3. \/ ~o.ok /\ o.db = db
      \/ o.ok /\ NameSet(db.users, o.db.users, r.id, r.name)
  BY NameWritten
<1> QED BY <1>1, <1>2, <1>3

LEMMA ProfileWrites ==
    ASSUME Base, UsersInv, NEW h \in Handlers, ProfileWrite(h)
    PROVE  \/ db'.users = db.users /\ hist' = hist
           \/ /\ NameSet(db.users, db'.users, task[h].uid, "new")
              /\ hist'.renamed = SetFor(hist.renamed, task[h].uid, "new")
<1> DEFINE r(a) == [id |-> task[h].uid, name |-> "new", avatar |-> a]
           o(a) == UpdateUser(r(a))
<1>1. PICK a \in {None, 1} :
        \/ /\ db' = o(a).db
           /\ hist' = IF o(a).ok THEN [hist EXCEPT !.renamed = SetFor(@, task[h].uid, "new")]
                      ELSE hist
        \/ db' = db /\ hist' = hist
  <2> HIDE DEF o
  <2> QED BY SMT DEF ProfileWrite, Call, CallOr, o
<1>2. r(a).id = task[h].uid /\ r(a).name = "new"
  OBVIOUS
<1>3. ASSUME NEW S PROVE [hist EXCEPT !.renamed = S].renamed = S
  BY DEF Base, Has, Histories
<1> HIDE DEF r
<1>4. \/ ~o(a).ok /\ o(a).db = db
      \/ o(a).ok /\ NameSet(db.users, o(a).db.users, r(a).id, r(a).name)
  BY NameWritten
<1> HIDE DEF o
<1> QED BY <1>1, <1>2, <1>3, <1>4

LEMMA ChangeWrites ==
    ASSUME Base, UsersInv, NEW h \in Handlers, ChangeWrite(h)
    PROVE  \/ db'.users = db.users /\ task'[h] = Idle
           \/ /\ PasswordSet(db.users, db'.users, task[h].uid, next)
              /\ task'[h].pc = "changeEnd" /\ task'[h].uid = task[h].uid
<1> DEFINE o == UpdateUserPassword(task[h].uid, next)
<1>1. \/ ~o.ok /\ o.db = db
      \/ o.ok /\ PasswordSet(db.users, o.db.users, task[h].uid, next)
  BY PasswordWritten
<1>2. \/ db' = o.db /\ IF o.ok THEN Goto(h, task[h], "changeEnd") ELSE Done(h)
      \/ db' = db /\ Done(h)
  <2> HIDE DEF o
  <2> QED BY SMT DEF ChangeWrite, Call, CallOr, o
<1> HIDE DEF o
<1>3. Done(h) => task'[h] = Idle
  BY DoneShape
<1>4. Goto(h, task[h], "changeEnd") => task'[h].pc = "changeEnd" /\ task'[h].uid = task[h].uid
  <2>1. Has(task[h], Fields) /\ "uid" \in Fields \ {"pc"}
    BY DEF Base, Fields
  <2> QED BY <2>1, GotoShape
<1> QED BY <1>1, <1>2, <1>3, <1>4

-----------------------------------------------------------------------------
(* What a reset may come to.                                               *)

\* A reset that was carried out: a password is changed and the token spent.
\* The in-memory store and PostgreSQL delete the sessions; on SQLite the
\* statement that marks the token may fail.
ResetDone(k) ==
    /\ hist'.resets = hist.resets \cup {<<k, next>>}
    /\ UsersReset(db'.users, next)
    /\ \/ /\ driver = "sqlite" /\ db'.sessions = db.sessions
          /\ \/ faults' = faults + 1 /\ db'.resets = db.resets
             \/ Marked(db.resets, db'.resets, k, ResetFields, "used")
       \/ /\ driver # "sqlite"
          /\ \E i : /\ PasswordSet(db.users, db'.users, i, next)
                    /\ db'.sessions = { s \in db.sessions : s.user # i }
          /\ Marked(db.resets, db'.resets, k, ResetFields, "used")
ResetIdle ==
    /\ db'.users = db.users /\ db'.sessions = db.sessions /\ db'.resets = db.resets
    /\ hist'.resets = hist.resets

LEMMA HistResets ==
    ASSUME Base, NEW S
    PROVE  [hist EXCEPT !.resets = S].resets = S
BY DEF Base, Has, Histories

LEMMA ResetEffect ==
    ASSUME Base, UsersInv, Tokens(db.resets, ResetFields), NEW h \in Handlers, Reset(h)
    PROVE  \/ ResetIdle /\ task'[h] = Idle
           \/ /\ ResetIdle /\ driver = "postgres"
              /\ task'[h].pc = "resetWrite"
              /\ \E t \in db.resets : t.token = task'[h].token /\ ~t.used
           \/ \E t \in db.resets : ~t.used /\ ResetDone(t.token) /\ task'[h] = Idle
<1>1. PICK t \in db.resets :
        \/ /\ driver = "postgres" /\ db' = db /\ hist' = hist
           /\ faults' \in {faults, faults + 1}
           /\ \/ task' = task
              \/ /\ PgResetCheck(db, t.token).ok
                 /\ Goto(h, [Idle EXCEPT !.token = t.token, !.email = t.email], "resetWrite")
        \/ task' = task /\ \E o : Spending(o, t.token) /\ Spent(o, t.token)
  BY ResetOutcome
<1>2. task[h] = Idle
  BY ResetTurn
<1>3. CASE task' = task /\ \E o : Spending(o, t.token) /\ Spent(o, t.token)
  <2>1. PICK o : Spending(o, t.token) /\ Spent(o, t.token)
    BY <1>3
  <2>2. db' = o.db /\ (o.ok => hist'.resets = hist.resets \cup {<<t.token, next>>})
        /\ (~o.ok => hist' = hist)
    BY <2>1, HistResets DEF Spent
  <2>3. ASSUME NEW r \in db.resets, r.token = t.token PROVE r = t
    BY <2>3 DEF Tokens
  <2>4. CASE ~o.ok /\ o.db = db
    BY <1>2, <1>3, <2>2, <2>4 DEF ResetIdle
  <2>5. CASE driver = "memory" /\ o = MemResetPasswordWithToken(db, t.token, next)
    BY SMTT(30), <1>2, <1>3, <2>2, <2>3, <2>4, <2>5, ResetOfMemory DEF ResetDone, UsersReset
  <2>6. CASE driver = "sqlite" /\ o = LiteResetPasswordWithToken(db, t.token, next)
    <3>1. \/ ~o.ok /\ o.db = db
          \/ /\ o.ok /\ UsersReset(o.db.users, next) /\ o.db.sessions = db.sessions
             /\ \E r \in db.resets : r.token = t.token /\ ~r.used
             /\ Marked(db.resets, o.db.resets, t.token, ResetFields, "used")
      <4> DEFINE c == LiteResetPasswordWithToken(db, t.token, next)
      <4>1. \/ ~c.ok /\ c.db = db
            \/ /\ c.ok /\ UsersReset(c.db.users, next) /\ c.db.sessions = db.sessions
               /\ \E r \in db.resets : r.token = t.token /\ ~r.used
               /\ Marked(db.resets, c.db.resets, t.token, ResetFields, "used")
        BY ResetOfSQLite
      <4>2. o = c
        BY <2>6
      <4> HIDE DEF c
      <4> QED BY <4>1, <4>2
    <3>2. CASE o.ok
      <4>1. ~t.used
        BY <2>3, <3>1, <3>2
      <4>2. ResetDone(t.token)
        BY <2>2, <2>6, <3>1, <3>2 DEF ResetDone
      <4> QED BY <1>2, <1>3, <4>1, <4>2
    <3> QED BY <2>4, <3>1, <3>2
  <2>7. CASE driver = "sqlite" /\ faults' = faults + 1
             /\ o = LiteResetPasswordCut(db, t.token, next)
    <3>1. o.ok => ~t.used
      <4> DEFINE g == LiteGetPasswordResetToken(db, t.token)
      <4>1. o.ok => g.ok /\ ~g.val.used
        BY <2>7 DEF LiteResetPasswordCut
      <4>2. g.ok => g.val \in db.resets /\ g.val.token = t.token
        BY SomeIn DEF LiteGetPasswordResetToken, First
      <4> HIDE DEF g
      <4> QED BY <2>3, <4>1, <4>2
    <3>2. \/ ~o.ok /\ o.db = db
          \/ /\ o.ok /\ UsersReset(o.db.users, next)
             /\ o.db.resets = db.resets /\ o.db.sessions = db.sessions
      <4> DEFINE c == LiteResetPasswordCut(db, t.token, next)
      <4>1. \/ ~c.ok /\ c.db = db
            \/ /\ c.ok /\ UsersReset(c.db.users, next)
               /\ c.db.resets = db.resets /\ c.db.sessions = db.sessions
        BY ResetOfSQLite
      <4>2. o = c
        BY <2>7
      <4> HIDE DEF c
      <4> QED BY <4>1, <4>2
    <3>3. CASE o.ok
      <4>1. ResetDone(t.token)
        BY <2>2, <2>7, <3>2, <3>3 DEF ResetDone
      <4> QED BY <1>2, <1>3, <3>1, <3>3, <4>1
    <3> QED BY <2>4, <3>2, <3>3
  <2> QED BY SMTT(30), <2>1, <2>4, <2>5, <2>6, <2>7 DEF Spending
<1>4. CASE /\ driver = "postgres" /\ db' = db /\ hist' = hist
           /\ \/ task' = task
              \/ /\ PgResetCheck(db, t.token).ok
                 /\ Goto(h, [Idle EXCEPT !.token = t.token, !.email = t.email], "resetWrite")
  <2> DEFINE new == [Idle EXCEPT !.token = t.token, !.email = t.email]
  <2>1. ResetIdle
    BY <1>4 DEF ResetIdle
  <2>2. CASE task' = task
    BY <1>2, <2>1, <2>2
  <2>3. CASE PgResetCheck(db, t.token).ok /\ Goto(h, new, "resetWrite")
    <3>1. Has(new, Fields) /\ new.token = t.token /\ "token" \in Fields \ {"pc"}
      BY IdleShape DEF Has, Fields
    <3> HIDE DEF new
    <3>2. task'[h].pc = "resetWrite" /\ task'[h].token = t.token
      BY SMTT(30), <2>3, <3>1, GotoShape
    <3>3. ~t.used
      <4> DEFINE g == PgGetPasswordResetToken(db, t.token)
      <4>1. g.ok /\ ~g.val.used
        BY <2>3 DEF PgResetCheck
      <4>2. g.ok => g.val \in db.resets /\ g.val.token = t.token
        BY SomeIn DEF PgGetPasswordResetToken, First
      <4> HIDE DEF g
      <4> QED BY <4>1, <4>2 DEF Tokens
    <3> QED BY <1>4, <2>1, <3>2, <3>3
  <2> QED BY <1>4, <2>2, <2>3
<1> QED BY <1>1, <1>3, <1>4

LEMMA ResetWriteEffect ==
    ASSUME Base, UsersInv, Tokens(db.resets, ResetFields), NEW h \in Handlers, ResetWrite(h),
           driver = "postgres", \E r \in db.resets : r.token = task[h].token
    PROVE  ResetIdle \/ ResetDone(task[h].token)
<1> DEFINE o == PgResetCommit(db, task[h], next)
<1>1. \/ ~o.ok /\ o.db = db
      \/ /\ o.ok
         /\ \E i : /\ PasswordSet(db.users, o.db.users, i, next)
                   /\ o.db.sessions = { s \in db.sessions : s.user # i }
         /\ Marked(db.resets, o.db.resets, task[h].token, ResetFields, "used")
  BY ResetOfPostgres
<1>2. \/ /\ db' = o.db
         /\ hist' = IF o.ok THEN [hist EXCEPT !.resets = @ \cup {<<task[h].token, next>>}]
                    ELSE hist
      \/ db' = db /\ hist' = hist
  <2> HIDE DEF o
  <2> QED BY SMT DEF ResetWrite, Call, CallOr, o
<1> HIDE DEF o
<1>3. \/ db' = o.db /\ (o.ok => hist'.resets = hist.resets \cup {<<task[h].token, next>>})
         /\ (~o.ok => hist' = hist)
      \/ db' = db /\ hist' = hist
  BY <1>2, HistResets
<1> QED BY <1>1, <1>3 DEF ResetIdle, ResetDone, UsersReset

-----------------------------------------------------------------------------
(* Accounts and steps.                                                     *)

\* The account table stays, has a row rewritten, or gets a new row.
UsersNext ==
    \/ db'.users = db.users
    \/ \E old, new : Rewritten(db.users, db'.users, old, new)
    \/ \E u : /\ Has(u, UserFields) /\ u.id = next /\ next' = next + 1
              /\ UsersByEmail(db, u.email) = {} /\ db'.users = db.users \cup {u}

\* Every step is a request's, or leaves users, projects, keys and tasks alone.
LEMMA StepsTouch ==
    ASSUME Base, [Next]_vars
    PROVE  \/ \E h \in Handlers : (Plain(h) \/ Arriving(h) \/ Writing(h)) /\ Touches(h)
           \/ GrowOld \/ Restart \/ UNCHANGED vars
BY Steps, Touched

LEMMA UsersMove ==
    ASSUME Base, UsersInv, ResetsInv, [Next]_vars
    PROVE  UsersNext
<1>1. ASSUME NEW h \in Handlers, Plain(h) \/ Arriving(h) \/ Writing(h), Touches(h)
      PROVE  UsersNext
  <2>1. Tokens(db.resets, ResetFields)
    BY DEF ResetsInv, Tokens
  <2>2. CASE db'.users = db.users
    BY <2>2 DEF UsersNext
  <2>3. CASE CreateAccount(h)
    <3> DEFINE u == NewUser(next, task[h].email, next, task[h].name, task[h].avatar)
    <3>1. Has(u, UserFields) /\ u.id = next
      BY DEF NewUser, Has, UserFields
    <3>2. next' = next + 1
      BY <2>3, CreateAccountTurn
    <3>3. db'.users = db.users \/ (UsersByEmail(db, u.email) = {} /\ db'.users = db.users \cup {u})
      BY <2>3, CreateAccountWrites
    <3> HIDE DEF u
    <3> QED BY <3>1, <3>2, <3>3 DEF UsersNext
  <2>4. CASE OAuthPicture(h)
    BY <2>4, OAuthPictureWrites DEF UsersNext, NameSet
  <2>5. CASE ChangeWrite(h)
    BY <2>5, ChangeWrites DEF UsersNext, PasswordSet
  <2>6. CASE ProfileWrite(h)
    BY <2>6, ProfileWrites DEF UsersNext, NameSet
  <2>7. CASE Reset(h)
    BY <2>1, <2>7, ResetEffect DEF UsersNext, ResetIdle, ResetDone, UsersReset, PasswordSet
  <2>8. CASE ResetWrite(h)
    <3>1. driver = "postgres" /\ \E r \in db.resets : r.token = task[h].token
      BY <2>8, ResetWriteTurn DEF ResetsInv
    <3>2. ResetIdle \/ ResetDone(task[h].token)
      BY <2>1, <2>8, <3>1, ResetWriteEffect
    <3> QED BY <3>2 DEF UsersNext, ResetIdle, ResetDone, UsersReset, PasswordSet
  <2> QED BY <1>1, <2>2, <2>3, <2>4, <2>5, <2>6, <2>7, <2>8 DEF Touches
<1>2. CASE GrowOld
  BY <1>2, GrowOldStep DEF Only, Tables, UsersNext
<1>3. CASE Restart
  BY <1>3, RestartStep DEF UsersNext
<1>4. CASE UNCHANGED vars
  BY <1>4 DEF vars, UsersNext
<1> QED BY <1>1, <1>2, <1>3, <1>4, StepsTouch

\* Generated numbers are used up, never given back.
LEMMA NextGrows ==
    ASSUME Base, [Next]_vars
    PROVE  next' \in {next, next + 1}
<1>1. ASSUME NEW h \in Handlers, Plain(h) \/ Arriving(h) \/ Writing(h)
      PROVE  next' \in {next, next + 1}
  BY <1>1, ArrivingTurn, WritingTurn DEF Plain, Turn
<1> QED BY <1>1, Steps, GrowOldStep, RestartStep DEF vars

LEMMA UsersStep ==
    ASSUME Base, UsersInv, ResetsInv, [Next]_vars
    PROVE  UsersInv' /\ \A u \in db.users : \E v \in db'.users : v.id = u.id
<1>1. next' \in {next, next + 1} /\ next \in Nat
  BY NextGrows DEF Base
<1>2. UsersNext
  BY UsersMove
<1>3. CASE db'.users = db.users
  BY SMTT(30), <1>1, <1>3 DEF UsersInv
<1>4. ASSUME NEW old, NEW new, Rewritten(db.users, db'.users, old, new)
      PROVE  UsersInv' /\ \A u \in db.users : \E v \in db'.users : v.id = u.id
  BY SMTT(30), <1>1, <1>4 DEF UsersInv, Rewritten
<1>5. ASSUME NEW u, Has(u, UserFields), u.id = next, next' = next + 1,
             UsersByEmail(db, u.email) = {}, db'.users = db.users \cup {u}
      PROVE  UsersInv' /\ \A v \in db.users : \E w \in db'.users : w.id = v.id
  <2>1. \A v \in db.users : v.email # u.email
    BY <1>5 DEF UsersByEmail
  <2>2. next # None
    BY SMT DEF Base
  <2> QED BY SMTT(30), <1>1, <1>5, <2>1, <2>2 DEF UsersInv
<1> QED BY <1>2, <1>3, <1>4, <1>5 DEF UsersNext

-----------------------------------------------------------------------------
(* Sessions, and whom requests are served for.                             *)

\* s stands for a present session, at most of another age.
Alike(s) ==
    Has(s, SessionFields) /\ \E r \in db.sessions : s.user = r.user /\ s.pw = r.pw

LEMMA SessionRead ==
    ASSUME Base, \A s \in db.sessions : Has(s, SessionFields), NEW k
    PROVE  /\ GetSession(k).ok => \E s \in db.sessions : GetSession(k).val.user = s.user
           /\ \A s \in GetSession(k).db.sessions : Alike(s)
<1> DEFINE own == { s \in db.sessions : s.token = k }
           valid == { s \in db.sessions : s.token = k /\ ~IsExpired(s) }
           slid == [Some(own) EXCEPT !.age = "fresh"]
<1>1. \A s \in db.sessions : Alike(s)
  BY DEF Alike
<1>2. ASSUME NEW S PROVE [db EXCEPT !.sessions = S].sessions = S
  BY DEF Base, Has, Tables
<1>3. \A S : Delete(db, "sessions", S).sessions = db.sessions \ S
      /\ Delete(db, "sessions", S).sessions = db.sessions \ S
  BY <1>2 DEF Delete
<1>4. CASE driver = "memory"
  <2>1. GetSession(k) = IF valid = {} THEN Err(db) ELSE Ok(db, Some(valid))
    BY <1>4, SomeIn DEF GetSession, Of, MemGetSession, First
  <2>2. valid # {} => Some(valid) \in db.sessions
    BY SomeIn
  <2> HIDE DEF valid
  <2> QED BY SMTT(30), <1>1, <2>1, <2>2
<1>5. CASE driver = "sqlite"
  <2>1. \/ GetSession(k) = Err(Delete(db, "sessions", own))
        \/ GetSession(k) = IF own = {} THEN Err(db) ELSE Ok(db, Some(own))
    BY <1>5, SomeIn DEF GetSession, Of, LiteGetSession, First
  <2>2. own # {} => Some(own) \in db.sessions
    BY SomeIn
  <2> HIDE DEF own
  <2>3. CASE GetSession(k) = Err(Delete(db, "sessions", own))
    BY SMTT(30), <1>1, <1>3, <2>3
  <2>4. CASE GetSession(k) = IF own = {} THEN Err(db) ELSE Ok(db, Some(own))
    BY SMT, <1>1, <2>2, <2>4
  <2> QED BY <2>1, <2>3, <2>4
<1>6. CASE driver \notin {"memory", "sqlite"}
  <2>1. \/ GetSession(k) = Err(db)
        \/ GetSession(k) = Err(Delete(db, "sessions", own))
        \/ own # {} /\ GetSession(k) = Ok(Update(db, "sessions", Some(own), slid), slid)
    BY <1>6, SomeIn DEF GetSession, Of, PgGetSession
  <2>2. CASE own # {} /\ GetSession(k) = Ok(Update(db, "sessions", Some(own), slid), slid)
    <3>1. Some(own) \in db.sessions
      BY <2>2, SomeIn
    <3>2. Has(slid, SessionFields) /\ slid.user = Some(own).user /\ slid.pw = Some(own).pw
      <4> DEFINE r == Some(own)
      <4>1. Has(r, SessionFields)
        BY <3>1
      <4> HIDE DEF r
      <4>2. /\ Has([r EXCEPT !.age = "fresh"], SessionFields)
            /\ [r EXCEPT !.age = "fresh"].user = r.user /\ [r EXCEPT !.age = "fresh"].pw = r.pw
        BY <4>1 DEF Has, SessionFields
      <4> QED BY <4>2 DEF r
    <3>3. Alike(slid)
      BY <3>1, <3>2 DEF Alike
    <3>4. Update(db, "sessions", Some(own), slid).sessions
            = (db.sessions \ {Some(own)}) \cup {slid}
      <4> HIDE DEF own, slid
      <4> QED BY SMT, UpdateTable DEF Base, Tables
    <3> HIDE DEF own, slid
    <3> QED BY SMTT(30), <1>1, <2>2, <3>1, <3>2, <3>3, <3>4
  <2> QED BY SMTT(30), <1>1, <1>3, <2>1, <2>2
<1> QED BY <1>4, <1>5, <1>6

LEMMA SessionWrites ==
    ASSUME Base, NEW s, NEW k, NEW i
    PROVE  /\ CreateSession(s).db.sessions \subseteq db.sessions \cup {s}
           /\ DeleteSession(k).db.sessions \subseteq db.sessions
           /\ DeleteUserSessions(i).db.sessions = { r \in db.sessions : r.user # i }
<1>1. ASSUME NEW S PROVE [db EXCEPT !.sessions = S].sessions = S
  BY DEF Base, Has, Tables
<1>2. CreateSession(s).db.sessions \subseteq db.sessions \cup {s}
  BY <1>1 DEF CreateSession, Of, MemCreateSession, LiteCreateSession, PgCreateSession, Insert
<1>3. DeleteSession(k).db.sessions \subseteq db.sessions
  BY <1>1 DEF DeleteSession, Of, MemDeleteSession, LiteDeleteSession, PgDeleteSession, Delete
<1>4. DeleteUserSessions(i).db.sessions = { r \in db.sessions : r.user # i }
  BY <1>1 DEF DeleteUserSessions, Of, MemDeleteUserSessions, LiteDeleteUserSessions,
     PgDeleteUserSessions, Delete, SessionsOf
<1> QED BY <1>2, <1>3, <1>4

\* A row of the next session table is a present one, or the session that the
\* request h opens.
Opened(s, h) ==
    /\ Has(s, SessionFields) /\ s.user = task[h].uid /\ s.pw = task[h].pw
    /\ task[h].pc = "session"

LEMMA SessionsMove ==
    ASSUME Base, UsersInv, ResetsInv, OwnersInv, [Next]_vars
    PROVE  \A s \in db'.sessions : Alike(s) \/ \E h \in Handlers : Opened(s, h)
<1> DEFINE Good == \A s \in db'.sessions : Alike(s) \/ \E h \in Handlers : Opened(s, h)
<1>0. \A s \in db.sessions : Has(s, SessionFields)
  BY DEF OwnersInv
<1>1. \A s \in db.sessions : Alike(s)
  BY <1>0 DEF Alike
<1>2. ASSUME NEW h \in Handlers, Plain(h) \/ Arriving(h) \/ Writing(h), Touches(h)
      PROVE  Good
  <2>1. Tokens(db.resets, ResetFields)
    BY DEF ResetsInv, Tokens
  <2>2. CASE db'.sessions = db.sessions
    BY <1>1, <2>2
  <2>3. CASE Logout(h)
    <3>1. \E k : db' = DeleteSession(k).db \/ db' = db
      BY SMT, <2>3 DEF Logout, Call, CallOr
    <3>2. db'.sessions \subseteq db.sessions
      BY <3>1, SessionWrites
    <3> QED BY <1>1, <3>2
  <2>4. CASE Reset(h)
    <3>1. db'.sessions \subseteq db.sessions
      BY <2>1, <2>4, ResetEffect DEF ResetIdle, ResetDone
    <3> QED BY <1>1, <3>1
  <2>5. CASE ResetWrite(h)
    <3>1. driver = "postgres" /\ \E r \in db.resets : r.token = task[h].token
      BY <2>5, ResetWriteTurn DEF ResetsInv
    <3>2. ResetIdle \/ ResetDone(task[h].token)
      BY <2>1, <2>5, <3>1, ResetWriteEffect
    <3>3. db'.sessions \subseteq db.sessions
      BY <3>2 DEF ResetIdle, ResetDone
    <3> QED BY <1>1, <3>3
  <2>6. CASE ChangeEnd(h)
    <3>1. db' = DeleteUserSessions(task[h].uid).db \/ db' = db
      BY SMT, <2>6 DEF ChangeEnd, Call, CallOr
    <3>2. db'.sessions \subseteq db.sessions
      BY <3>1, SessionWrites
    <3> QED BY <1>1, <3>2
  <2>7. CASE OpenSession(h)
    <3> DEFINE s == Session(next, task[h].uid, task[h].pw)
    <3>1. Has(s, SessionFields) /\ s.user = task[h].uid /\ s.pw = task[h].pw
      BY DEF Session, Has, SessionFields
    <3>2. db' = CreateSession(s).db \/ db' = db
      <4> HIDE DEF s
      <4> QED BY SMT, <2>7 DEF OpenSession, Call, CallOr, s
    <3> HIDE DEF s
    <3>3. db'.sessions \subseteq db.sessions \cup {s}
      BY <3>2, SessionWrites
    <3>4. task[h].pc = "session"
      BY <2>7, OpenSessionTurn
    <3>5. Opened(s, h)
      BY <3>1, <3>4 DEF Opened
    <3> QED BY <1>1, <3>3, <3>5
  <2>8. ASSUME NEW r, NEW l, Authenticated(h, r, l) PROVE Good
    <3>1. \E k : db' = GetSession(k).db \/ db' = db
      BY SMT, <2>8 DEF Authenticated, Call, CallOr
    <3> QED BY <1>0, <1>1, <3>1, SessionRead
  <2> HIDE DEF Good
  <2> QED BY <1>2, <2>2, <2>3, <2>4, <2>5, <2>6, <2>7, <2>8 DEF Touches
<1>3. CASE GrowOld
  <2>1. PICK t \in {"sessions", "resets", "invites"} : \E row \in db[t] :
          db' = Update(db, t, row, Older(row))
    BY <1>3, GrowOldStep
  <2>2. PICK row \in db[t] : db' = Update(db, t, row, Older(row))
    BY <2>1
  <2>3. CASE t # "sessions"
    <3>1. db'.sessions = db.sessions
      BY <2>2, <2>3 DEF Update, Base, Has, Tables
    <3> QED BY <1>1, <3>1
  <2>4. CASE t = "sessions"
    <3> DEFINE new == Older(row)
    <3>1. row \in db.sessions /\ Has(row, SessionFields)
      BY <1>0, <2>4
    <3>2. Has(new, SessionFields) /\ new.user = row.user /\ new.pw = row.pw
      BY <3>1 DEF Older, Has, SessionFields
    <3>3. Alike(new)
      BY <3>1, <3>2 DEF Alike
    <3> HIDE DEF new
    <3>4. db'.sessions = (db.sessions \ {row}) \cup {new}
      BY SMTT(30), <2>2, <2>4, UpdateTable DEF Base, Tables, new
    <3> QED BY <1>1, <3>3, <3>4
  <2> QED BY <2>3, <2>4
<1>4. CASE Restart
  BY <1>1, <1>4, RestartStep
<1>5. CASE UNCHANGED vars
  BY <1>1, <1>5 DEF vars
<1> QED BY <1>2, <1>3, <1>4, <1>5, StepsTouch

-----------------------------------------------------------------------------
(* Whom requests are served for.                                           *)

\* Whom the request h is served for after its step: nobody yet, the same user
\* as before, a user it has just looked up, or one it has just created.
Serves(h) ==
    \/ task'[h].pc \in AnonymousLabels /\ task'[h].uid = None
    \/ /\ task'[h].pc \notin AnonymousLabels /\ task[h].pc \notin AnonymousLabels
       /\ task'[h].uid = task[h].uid /\ task'[h].pw = task[h].pw
    \/ /\ task'[h].pc \notin AnonymousLabels
       /\ \E u \in db.users : task'[h].uid = u.id /\ task'[h].pw = u.pw
    \/ /\ task'[h].pc \notin AnonymousLabels /\ CreateAccount(h)
       /\ \E u \in db'.users : task'[h].uid = u.id /\ task'[h].pw = u.pw

\* The steps that lead to a label.
Marks == {"resetWrite", "acceptMark", "acceptMember", "changeEnd", "picture", "ssoJoin"}
Enters(h) ==
    /\ task'[h].pc = "resetWrite" => Reset(h)
    /\ task'[h].pc = "acceptMark" => Accept(h)
    /\ task'[h].pc = "acceptMember" => AcceptMark(h)
    /\ task'[h].pc = "changeEnd" => ChangeWrite(h)
    /\ task'[h].pc = "picture" => OAuth(h)
    /\ task'[h].pc = "ssoJoin" => SSOMember(h)

LEMMA MovesServes ==
    ASSUME NEW h \in Handlers, NEW L, Moves(h, L), L \cap AnonymousLabels = {},
           task[h].pc \notin AnonymousLabels \/ L = {}
    PROVE  Serves(h)
BY IdleShape DEF Moves, Carried, Serves, AnonymousLabels

LEMMA MovesEnters ==
    ASSUME NEW h \in Handlers, NEW L, Moves(h, L), L \cap Marks = {}
    PROVE  Enters(h)
BY IdleShape DEF Moves, Enters, Marks

LEMMA PlainServes ==
    ASSUME Base, OwnersInv, NEW h \in Handlers, Plain(h)
    PROVE  Serves(h) /\ Enters(h)
<1>1. Enters(h)
  BY MovesEnters DEF Plain, PlainLabels, Marks
<1>2. CASE task'[h] = Idle
  BY <1>1, <1>2, IdleShape DEF Serves, AnonymousLabels
<1>3. CASE task'[h] # Idle /\ task[h].pc = "ssoCallback"
  <2>1. task[h].uid = None
    BY <1>3 DEF OwnersInv, AnonymousLabels
  <2> QED BY <1>1, <1>3, <2>1 DEF Plain, Moves, Carried, Serves, AnonymousLabels
<1>4. CASE task'[h] # Idle /\ task[h].pc # "ssoCallback"
  BY <1>1, <1>4 DEF Plain, PlainSources, PlainLabels, Moves, Carried, Serves, AnonymousLabels
<1> QED BY <1>1, <1>2, <1>3, <1>4

LEMMA ArrivingServes ==
    ASSUME Base, OwnersInv, NEW h \in Handlers, Arriving(h)
    PROVE  Serves(h) /\ Enters(h)
<1> USE IdleShape DEF Serves, Enters, AnonymousLabels
<1>1. CASE SignUp(h)
  BY <1>1, SignUpTurn
<1>2. CASE Login(h)
  BY <1>2, LoginTurn DEF Known
<1>3. CASE Logout(h)
  BY <1>3, LogoutTurn
<1>4. CASE OAuth(h)
  BY <1>4, OAuthTurn DEF Known
<1>5. CASE Forgot(h)
  BY <1>5, ForgotTurn
<1>6. CASE Reset(h)
  BY <1>6, ResetTurn
<1>7. CASE SSOLogin(h)
  BY <1>7, SSOLoginTurn
<1>8. ASSUME NEW r, NEW l \in BeginLabels, Authenticated(h, r, l)
      PROVE  Serves(h) /\ Enters(h)
  <2>1. CASE task'[h] = Idle
    BY <2>1
  <2>2. CASE task'[h] # Idle
    <3>1. task'[h].pc = l
      BY <1>8, <2>2, AuthenticatedTurn
    <3>2. PICK s \in db.sessions :
            /\ GetSession(s.token).ok
            /\ LET u == Some(UsersByID(db, GetSession(s.token).val.user))
               IN task'[h].uid = u.id /\ task'[h].pw = u.pw
      BY <1>8, <2>2, AuthenticatedTurn
    <3>3. \A x \in db.sessions : Has(x, SessionFields)
      BY DEF OwnersInv
    <3>4. PICK x \in db.sessions : GetSession(s.token).val.user = x.user
      BY <3>2, <3>3, SessionRead
    <3>5. UsersByID(db, GetSession(s.token).val.user) # {}
      BY <3>4 DEF OwnersInv, IsUser, UsersByID
    <3>6. Some(UsersByID(db, GetSession(s.token).val.user)) \in db.users
      BY <3>5, SomeIn DEF UsersByID
    <3> QED BY <3>1, <3>2, <3>6 DEF BeginLabels
  <2> QED BY <2>1, <2>2
<1> QED BY <1>1, <1>2, <1>3, <1>4, <1>5, <1>6, <1>7, <1>8 DEF Arriving

LEMMA WritingServes ==
    ASSUME Base, OwnersInv, NEW h \in Handlers, Writing(h)
    PROVE  Serves(h) /\ Enters(h)
<1> USE DEF AnonymousLabels, Marks
<1>1. CASE CreateAccount(h)
  <2>1. CASE task'[h] = Idle
    BY <2>1, IdleShape DEF Serves, Enters
  <2>2. CASE task'[h] # Idle
    <3> DEFINE u == NewUser(next, task[h].email, next, task[h].name, task[h].avatar)
    <3>1. u.id = next /\ u.pw = next
      BY DEF NewUser
    <3>2. u \in db'.users
      BY <1>1, <2>2, CreateAccountWrites
    <3> HIDE DEF u
    <3>3. /\ task'[h].pc \in {"ssoMember", "join", "org"}
          /\ task'[h].uid = next /\ task'[h].pw = next
      BY <1>1, <2>2, CreateAccountTurn
    <3> QED BY <1>1, <3>1, <3>2, <3>3 DEF Serves, Enters
  <2> QED BY <2>1, <2>2
<1>2. CASE ProvisionOwner(h)
  BY <1>2, ProvisionOwnerTurn, MovesServes, MovesEnters
<1>3. CASE ProvisionProject(h)
  BY <1>3, ProvisionProjectTurn, MovesServes, MovesEnters
<1>4. CASE Accept(h)
  <2>1. Moves(h, {"joined", "cookie", "acceptMark"}) /\ task[h].pc = "accept"
    BY <1>4, AcceptTurn
  <2>2. Serves(h)
    BY <2>1, MovesServes
  <2>3. Enters(h)
    BY <1>4, <2>1, IdleShape DEF Enters, Moves
  <2> QED BY <2>2, <2>3
<1>5. CASE AcceptMark(h)
  <2>1. Moves(h, {"joined", "cookie", "acceptMember"}) /\ task[h].pc = "acceptMark"
    BY <1>5, AcceptMarkTurn
  <2>2. Serves(h)
    BY <2>1, MovesServes
  <2>3. Enters(h)
    BY <1>5, <2>1, IdleShape DEF Enters, Moves
  <2> QED BY <2>2, <2>3
<1>6. CASE AcceptMember(h)
  <2>1. Moves(h, {"joined", "cookie"}) /\ task[h].pc = "acceptMember"
    BY <1>6, AcceptMemberTurn
  <2> QED BY <2>1, MovesServes, MovesEnters
<1>7. CASE OpenSession(h)
  BY <1>7, OpenSessionTurn, MovesServes, MovesEnters
<1>8. CASE OAuthPicture(h)
  BY <1>8, OAuthPictureTurn, MovesServes, MovesEnters
<1>9. CASE ChangeWrite(h)
  <2>1. Moves(h, {"changeEnd"}) /\ task[h].pc = "changeWrite"
    BY <1>9, ChangeWriteTurn
  <2>2. Serves(h)
    BY <2>1, MovesServes
  <2>3. Enters(h)
    BY <1>9, <2>1, IdleShape DEF Enters, Moves
  <2> QED BY <2>2, <2>3
<1>10. CASE ChangeEnd(h)
  BY <1>10, ChangeEndTurn, MovesServes, MovesEnters
<1>11. CASE ForgotWrite(h)
  BY <1>11, ForgotWriteTurn, MovesServes, MovesEnters
<1>12. CASE ResetWrite(h)
  BY <1>12, ResetWriteTurn, MovesServes, MovesEnters
<1>13. CASE ProfileWrite(h)
  BY <1>13, ProfileWriteTurn, MovesServes, MovesEnters
<1>14. CASE CreateProj(h)
  BY <1>14, CreateProjTurn, MovesServes, MovesEnters
<1>15. CASE Invite(h)
  BY <1>15, InviteTurn, MovesServes, MovesEnters
<1>16. CASE SSOUser(h)
  <2>1. task[h].uid = None
    BY <1>16, SSOUserTurn DEF OwnersInv
  <2> QED BY <1>16, <2>1, SSOUserTurn DEF Serves, Enters, Carried, Known
<1>17. CASE SSOMember(h)
  <2>1. Moves(h, {"session", "ssoJoin"}) /\ task[h].pc = "ssoMember"
    BY <1>17, SSOMemberTurn
  <2>2. Serves(h)
    BY <2>1, MovesServes
  <2>3. Enters(h)
    BY <1>17, <2>1, IdleShape DEF Enters, Moves
  <2> QED BY <2>2, <2>3
<1>18. CASE SSOJoin(h)
  BY <1>18, SSOJoinTurn, MovesServes, MovesEnters
<1>19. CASE KeyCreate(h)
  BY <1>19, KeyCreateTurn, MovesServes, MovesEnters
<1>20. CASE KeyRevoke(h)
  BY <1>20, KeyRevokeTurn, MovesServes, MovesEnters
<1> QED BY <1>1, <1>2, <1>3, <1>4, <1>5, <1>6, <1>7, <1>8, <1>9, <1>10, <1>11, <1>12,
           <1>13, <1>14, <1>15, <1>16, <1>17, <1>18, <1>19, <1>20 DEF Writing

\* The steps that lead away from a label.
Leaves(h) ==
    /\ task[h].pc = "acceptMember" => AcceptMember(h)
    /\ task[h].pc = "changeEnd" => ChangeEnd(h)

LEMMA Leaving ==
    ASSUME Base, NEW h \in Handlers, Plain(h) \/ Arriving(h) \/ Writing(h)
    PROVE  Leaves(h)
<1> USE DEF Leaves
<1>1. CASE Plain(h)
  BY <1>1 DEF Plain, PlainSources
<1>2. CASE Arriving(h)
  BY <1>2, ArrivingTurn, IdleShape
<1>3. CASE CreateAccount(h) \/ ProvisionOwner(h) \/ ProvisionProject(h) \/ Accept(h)
  BY <1>3, CreateAccountTurn, ProvisionOwnerTurn, ProvisionProjectTurn, AcceptTurn
<1>4. CASE AcceptMark(h) \/ AcceptMember(h) \/ OpenSession(h) \/ OAuthPicture(h)
  BY <1>4, AcceptMarkTurn, AcceptMemberTurn, OpenSessionTurn, OAuthPictureTurn
<1>5. CASE ChangeWrite(h) \/ ChangeEnd(h) \/ ForgotWrite(h) \/ ResetWrite(h) \/ ProfileWrite(h)
  BY <1>5, ChangeWriteTurn, ChangeEndTurn, ForgotWriteTurn, ResetWriteTurn, ProfileWriteTurn
<1>6. CASE CreateProj(h) \/ Invite(h) \/ SSOUser(h) \/ SSOMember(h)
  BY <1>6, CreateProjTurn, InviteTurn, SSOUserTurn, SSOMemberTurn
<1>7. CASE SSOJoin(h) \/ KeyCreate(h) \/ KeyRevoke(h)
  BY <1>7, SSOJoinTurn, KeyCreateTurn, KeyRevokeTurn
<1> QED BY <1>1, <1>2, <1>3, <1>4, <1>5, <1>6, <1>7 DEF Writing

\* The step of a request h changes the request h only.
LEMMA OneMoves ==
    ASSUME Base, NEW h \in Handlers, Plain(h) \/ Arriving(h) \/ Writing(h)
    PROVE  \E T, H : Turn(h, T, H)
BY ArrivingTurn, WritingTurn DEF Plain

\* Every step, with what there is to know about it.
Step(h) == Touches(h) /\ Serves(h) /\ Enters(h) /\ Leaves(h) /\ \E T, H : Turn(h, T, H)
LEMMA AllSteps ==
    ASSUME Base, OwnersInv, [Next]_vars
    PROVE  (\E h \in Handlers : Step(h)) \/ GrowOld \/ Restart \/ UNCHANGED vars
<1>1. ASSUME NEW h \in Handlers, Plain(h) \/ Arriving(h) \/ Writing(h), Touches(h)
      PROVE  Step(h)
  BY <1>1, PlainServes, ArrivingServes, WritingServes, Leaving, OneMoves DEF Step
<1> QED BY <1>1, StepsTouch

LEMMA OwnersStep ==
    ASSUME Base, UsersInv, ResetsInv, OwnersInv, [Next]_vars
    PROVE  OwnersInv'
<1>1. \A i : IsUser(i) => IsUser(i)'
  BY UsersStep DEF IsUser
<1>2. \A s \in db'.sessions : Has(s, SessionFields) /\ IsUser(s.user)'
  <2> SUFFICES ASSUME NEW s \in db'.sessions
               PROVE  Has(s, SessionFields) /\ IsUser(s.user)'
    OBVIOUS
  <2>1. CASE Alike(s)
    BY <1>1, <2>1 DEF Alike, OwnersInv
  <2>2. ASSUME NEW h \in Handlers, Opened(s, h)
        PROVE  Has(s, SessionFields) /\ IsUser(s.user)'
    BY <1>1, <2>2 DEF Opened, OwnersInv, AnonymousLabels
  <2> QED BY <2>1, <2>2, SessionsMove
<1>3. ASSUME NEW g \in Handlers
      PROVE  IF task'[g].pc \in AnonymousLabels THEN task'[g].uid = None
             ELSE \E u \in db'.users : u.id = task'[g].uid
  <2>1. ASSUME NEW h \in Handlers, Step(h), g = h
        PROVE  IF task'[g].pc \in AnonymousLabels THEN task'[g].uid = None
               ELSE \E u \in db'.users : u.id = task'[g].uid
    <3>1. Serves(h)
      BY <2>1 DEF Step
    <3> QED BY <1>1, <2>1, <3>1 DEF Serves, OwnersInv, IsUser
  <2>2. CASE task'[g] = task[g]
    BY <1>1, <2>2 DEF OwnersInv, IsUser
  <2>3. CASE task'[g] = Idle
    BY <2>3, IdleShape DEF AnonymousLabels
  <2>4. ASSUME NEW h \in Handlers, Step(h), g # h
        PROVE  task'[g] = task[g]
    BY <2>4 DEF Step, Turn
  <2>5. CASE GrowOld \/ UNCHANGED vars
    BY <2>2, <2>5, GrowOldStep DEF vars
  <2>6. CASE Restart
    BY <2>3, <2>6, RestartStep
  <2> QED BY <2>1, <2>2, <2>4, <2>5, <2>6, AllSteps
<1> QED BY <1>2, <1>3 DEF OwnersInv, IsUser

-----------------------------------------------------------------------------
(* Reset tokens.                                                           *)

\* A failure or an overlap is never taken back.
LEMMA FrameSteps ==
    ASSUME Base, OwnersInv, [Next]_vars
    PROVE  /\ driver' = driver /\ faults' \in {faults, faults + 1} /\ faults \in Nat
           /\ serial' => serial
           /\ ResetTrusted' => ResetTrusted
<1>1. driver' = driver /\ faults' \in {faults, faults + 1} /\ (serial' => serial)
  <2>1. ASSUME NEW h \in Handlers, Step(h)
        PROVE  driver' = driver /\ faults' \in {faults, faults + 1} /\ (serial' => serial)
    BY <2>1 DEF Step, Turn
  <2> QED BY SMTT(30), <2>1, AllSteps, GrowOldStep, RestartStep DEF vars
<1>2. faults \in Nat
  BY DEF Base
<1> QED BY SMTT(30), <1>1, <1>2 DEF ResetTrusted

\* A row that grows older stays what it is.
LEMMA OlderRow ==
    ASSUME NEW F, "age" \in F, "token" \in F, NEW row, Has(row, F)
    PROVE  Has(Older(row), F) /\ \A f \in F \ {"age"} : Older(row)[f] = row[f]
BY DEF Older, Has

LEMMA ForgotWrites ==
    ASSUME Base, NEW h \in Handlers, ForgotWrite(h)
    PROVE  /\ next' = next + 1 /\ hist' = hist
           /\ db' = db \/ \E e : db'.resets = db.resets \cup {ResetToken(next, e)}
<1> DEFINE o == CreatePasswordResetToken(task[h].email, next)
           R == db.resets \cup {ResetToken(next, task[h].email)}
<1>1. next' = next + 1 /\ hist' = hist /\ (db' = db \/ db' = o.db)
  BY SMT DEF ForgotWrite, Call, CallOr
<1>2. o.db = db \/ o.db.resets = R
  <2> DEFINE t == ResetToken(next, task[h].email)
  <2>1. ResetToken(next, task[h].email) = t
    OBVIOUS
  <2> HIDE DEF t
  <2>2. o = Err(db) \/ o = Insert(db, "resets", t, FALSE)
    BY <2>1 DEF CreatePasswordResetToken, Of, MemCreatePasswordResetToken,
                LiteCreatePasswordResetToken, PgCreatePasswordResetToken
  <2> HIDE DEF o, t
  <2>3. o.db = db \/ o.db.resets = db.resets \cup {t}
    BY SMT, <2>2 DEF Insert, Base, Has, Tables
  <2> QED BY <2>3 DEF t
<1> HIDE DEF o
<1> QED BY <1>1, <1>2

\* A carried-out reset keeps the invariant, if the token had not been spent
\* and nobody else is about to spend one.
LEMMA ResetDoneStep ==
    ASSUME Base, OwnersInv, ResetsInv, [Next]_vars, NEW k, ResetDone(k), next' = next + 1,
           \E t \in db.resets : t.token = k,
           ResetTrusted => \A x \in hist.resets : x[1] # k,
           \A g \in Handlers : task'[g].pc = "resetWrite" => task'[g] = task[g],
           ResetTrusted' => \A g \in Handlers : task'[g].pc # "resetWrite"
    PROVE  ResetsInv'
<1> DEFINE S == db.resets
           R == db'.resets
           M == Marked(S, R, k, ResetFields, "used")
<1>1. hist'.resets = hist.resets \cup {<<k, next>>}
  BY DEF ResetDone
<1>2. M \/ (R = S /\ ~ResetTrusted')
  <2>1. M \/ (R = S /\ driver = "sqlite" /\ faults' = faults + 1)
    BY DEF ResetDone
  <2>2. driver' = driver /\ faults \in Nat
    BY FrameSteps
  <2> QED BY SMT, <2>1, <2>2 DEF ResetTrusted
<1>3. next \in Nat /\ k \in Nat /\ k < next
  BY SMT DEF Base, ResetsInv
<1>4. \A t \in R : Has(t, ResetFields) /\ t.token \in Nat /\ t.token < next'
  <2>1. CASE M
    BY SMT, <1>3, <2>1 DEF ResetsInv, Marked
  <2>2. CASE R = S
    BY SMT, <1>3, <2>2 DEF ResetsInv
  <2> QED BY <1>2, <2>1, <2>2
<1>5. \A s, t \in R : s.token = t.token => s = t
  BY <1>2 DEF ResetsInv, Marked
<1>6. \A s \in S : \E r \in R : r.token = s.token
  BY <1>2 DEF Marked
<1>7. \A x \in hist'.resets : x = <<x[1], x[2]>> /\ \E t \in R : t.token = x[1]
  BY SMT, <1>1, <1>6 DEF ResetsInv
<1>8. \A h \in Handlers : task'[h].pc = "resetWrite" =>
         driver' = "postgres" /\ \E t \in R : t.token = task'[h].token
  <2>1. driver' = driver
    BY FrameSteps
  <2> QED BY SMT, <1>6, <2>1 DEF ResetsInv
<1>9. ASSUME ResetTrusted'
      PROVE  /\ \A x \in hist'.resets : \A t \in R : t.token = x[1] => t.used
             /\ \A x, y \in hist'.resets : x[1] = y[1] => x = y
  <2>1. ResetTrusted /\ M
    BY <1>2, <1>9, FrameSteps
  <2>2. /\ \A x \in hist.resets : \A t \in S : t.token = x[1] => t.used
        /\ \A x, y \in hist.resets : x[1] = y[1] => x = y
        /\ \A x \in hist.resets : x[1] # k
    BY <2>1 DEF ResetsInv
  <2>3. \A t \in R : (t.token # k /\ t \in S) \/ t.used = TRUE
    BY <2>1 DEF Marked
  <2>4. \A t \in R : t.token = k => t.used = TRUE
    BY <2>1 DEF Marked
  <2>5. <<k, next>>[1] = k
    OBVIOUS
  <2>6. \A x \in hist'.resets : \A t \in R : t.token = x[1] => t.used
    BY <1>1, <2>2, <2>3, <2>4, <2>5
  <2>7. \A x, y \in hist'.resets : x[1] = y[1] => x = y
    BY <1>1, <2>2, <2>5
  <2> QED BY <2>6, <2>7
<1> HIDE DEF S, R, M
<1> QED BY <1>4, <1>5, <1>7, <1>8, <1>9 DEF ResetsInv, R

LEMMA ResetsStep ==
    ASSUME Base, UsersInv, OwnersInv, ResetsInv, [Next]_vars
    PROVE  ResetsInv'
<1>1. next' \in {next, next + 1} /\ next \in Nat
  BY NextGrows DEF Base
<1>2. driver' = driver /\ (ResetTrusted' => ResetTrusted)
  BY FrameSteps
<1>3. Tokens(db.resets, ResetFields)
  BY DEF ResetsInv, Tokens
<1>4. ASSUME db'.resets = db.resets, hist'.resets = hist.resets,
             \A g \in Handlers : task'[g].pc = "resetWrite" => task'[g] = task[g]
      PROVE  ResetsInv'
  BY SMT, <1>1, <1>2, <1>4 DEF ResetsInv
<1>5. ASSUME NEW h \in Handlers, Step(h)
      PROVE  /\ \A g \in Handlers \ {h} : task'[g] = task[g]
             /\ serial' => \A g \in Handlers \ {h} : task[g] = Idle
             /\ Touches(h) /\ Enters(h)
  BY <1>5 DEF Step, Turn
  \* Nobody else is about to spend a token while one is being spent.
<1>6. ASSUME NEW h \in Handlers, Step(h), task'[h] = Idle
      PROVE  /\ \A g \in Handlers : task'[g].pc = "resetWrite" => task'[g] = task[g]
             /\ ResetTrusted' => \A g \in Handlers : task'[g].pc # "resetWrite"
  <2>1. \A g \in Handlers : task'[g].pc = "resetWrite" => g # h /\ task'[g] = task[g]
    BY <1>5, <1>6, IdleShape
  <2>2. \A g \in Handlers : task'[g].pc = "resetWrite" => driver = "postgres" /\ task[g] # Idle
    BY <2>1, IdleShape DEF ResetsInv
  <2> QED BY <1>2, <1>5, <1>6, <2>1, <2>2 DEF ResetTrusted
<1>7. ASSUME NEW h \in Handlers, Step(h), Reset(h)
      PROVE  ResetsInv'
  <2>1. next' = next + 1 /\ task[h] = Idle
    BY <1>7, ResetTurn
  <2>2. CASE ResetIdle /\ task'[h] = Idle
    BY <1>4, <1>6, <1>7, <2>2 DEF ResetIdle
  <2>3. ASSUME ResetIdle, driver = "postgres", task'[h].pc = "resetWrite",
               NEW t \in db.resets, t.token = task'[h].token, ~t.used
        PROVE  ResetsInv'
    <3>1. \A g \in Handlers : task'[g].pc = "resetWrite" => g = h \/ task'[g] = task[g]
      BY <1>5, <1>7
    <3>2. db'.resets = db.resets /\ hist'.resets = hist.resets
      BY <2>3 DEF ResetIdle
    <3>3. ResetTrusted' => \A x \in hist.resets : x[1] # t.token
      BY <1>2, <2>3 DEF ResetsInv
    <3> QED BY SMTT(30), <1>1, <1>2, <2>3, <3>1, <3>2, <3>3 DEF ResetsInv
  <2>4. ASSUME NEW t \in db.resets, ~t.used, ResetDone(t.token), task'[h] = Idle
        PROVE  ResetsInv'
    <3>1. ResetTrusted => \A x \in hist.resets : x[1] # t.token
      BY <2>4 DEF ResetsInv
    <3> QED BY <1>6, <1>7, <2>1, <2>4, <3>1, ResetDoneStep
  <2> QED BY <1>3, <1>7, <2>2, <2>3, <2>4, ResetEffect
<1>8. ASSUME NEW h \in Handlers, Step(h), ResetWrite(h)
      PROVE  ResetsInv'
  <2>1. next' = next + 1 /\ task[h].pc = "resetWrite" /\ task'[h] = Idle
    BY <1>8, ResetWriteTurn DEF Moves
  <2>2. driver = "postgres" /\ \E r \in db.resets : r.token = task[h].token
    BY <2>1 DEF ResetsInv
  <2>3. CASE ResetIdle
    BY <1>4, <1>6, <1>8, <2>1, <2>3 DEF ResetIdle
  <2>4. CASE ResetDone(task[h].token)
    <3>1. ResetTrusted => \A x \in hist.resets : x[1] # task[h].token
      BY <2>1 DEF ResetsInv
    <3> QED BY <1>6, <1>8, <2>1, <2>2, <2>4, <3>1, ResetDoneStep
  <2> QED BY <1>3, <1>8, <2>2, <2>3, <2>4, ResetWriteEffect
<1>9. ASSUME NEW h \in Handlers, Step(h), ForgotWrite(h)
      PROVE  ResetsInv'
  <2>1. task'[h] = Idle
    BY <1>9, ForgotWriteTurn DEF Moves
  <2>2. /\ \A g \in Handlers : task'[g].pc = "resetWrite" => task'[g] = task[g]
    BY <1>6, <1>9, <2>1
  <2>3. next' = next + 1 /\ hist' = hist
    BY <1>9, ForgotWrites
  <2>4. CASE db' = db
    BY <1>4, <2>2, <2>3, <2>4
  <2>5. ASSUME NEW t, db'.resets = db.resets \cup {t}, Has(t, ResetFields), t.token = next
        PROVE  ResetsInv'
    <3>1. \A s \in db.resets : s.token # next
      BY SMTT(30), <1>1 DEF ResetsInv
    <3>2. \A r \in db'.resets : Has(r, ResetFields) /\ r.token \in Nat /\ r.token < next'
      BY SMTT(30), <1>1, <2>3, <2>5 DEF ResetsInv
    <3>3. \A s, r \in db'.resets : s.token = r.token => s = r
      BY <2>5, <3>1 DEF ResetsInv
    <3>4. \A x \in hist'.resets : /\ x = <<x[1], x[2]>> /\ x[1] # next
                                  /\ \E r \in db'.resets : r.token = x[1]
      BY SMTT(30), <2>3, <2>5, <3>1 DEF ResetsInv
    <3>5. \A g \in Handlers : task'[g].pc = "resetWrite" =>
            driver' = "postgres" /\ \E r \in db'.resets : r.token = task'[g].token
      BY SMTT(30), <1>2, <2>2, <2>5 DEF ResetsInv
    <3>6. ResetTrusted' =>
            /\ \A x \in hist'.resets : \A r \in db'.resets : r.token = x[1] => r.used
            /\ \A x, y \in hist'.resets : x[1] = y[1] => x = y
            /\ \A g \in Handlers : task'[g].pc = "resetWrite" =>
                 \A x \in hist'.resets : x[1] # task'[g].token
      BY SMTT(30), <1>2, <2>2, <2>3, <2>5, <3>4 DEF ResetsInv
    <3> QED BY <3>2, <3>3, <3>4, <3>5, <3>6 DEF ResetsInv
  <2>6. ASSUME NEW e PROVE Has(ResetToken(next, e), ResetFields) /\ ResetToken(next, e).token = next
    BY DEF ResetToken, Has, ResetFields
  <2> QED BY <1>9, <2>4, <2>5, <2>6, ForgotWrites
<1>10. CASE GrowOld
  <2>1. /\ task' = task /\ hist' = hist
        /\ \E t \in {"sessions", "resets", "invites"} : \E row \in db[t] :
             db' = Update(db, t, row, Older(row)) /\ ~IsExpired(row)
    BY <1>10, GrowOldStep
  <2>2. CASE db'.resets = db.resets
    BY <1>4, <2>1, <2>2
  <2>3. ASSUME NEW row \in db.resets, NEW new, db'.resets = (db.resets \ {row}) \cup {new},
               Has(new, ResetFields), new.token = row.token, new.used = row.used
        PROVE  ResetsInv'
    <3>1. \A s \in db.resets : \E r \in db'.resets : r.token = s.token
      BY <2>3
    <3>2. \A r \in db'.resets : \E s \in db.resets : r.token = s.token /\ r.used = s.used
      BY <2>3
    <3>3. \A r \in db'.resets : Has(r, ResetFields) /\ r.token \in Nat /\ r.token < next'
      BY SMTT(30), <1>1, <2>3 DEF ResetsInv
    <3>4. \A s, r \in db'.resets : s.token = r.token => s = r
      BY SMT, <2>3 DEF ResetsInv
    <3> QED BY SMTT(30), <1>2, <2>1, <3>1, <3>2, <3>3, <3>4 DEF ResetsInv
  <2>4. ASSUME NEW row \in db.resets, db' = Update(db, "resets", row, Older(row))
        PROVE  ResetsInv'
    <3>1. Has(db, Tables) /\ "resets" \in Tables
      BY DEF Base, Tables
    <3>2. db'.resets = (db.resets \ {row}) \cup {Older(row)}
      BY SMTT(30), <2>4, <3>1, UpdateTable
    <3>3. Has(row, ResetFields)
      BY DEF ResetsInv
    <3>4. Has(Older(row), ResetFields) /\ \A f \in ResetFields \ {"age"} : Older(row)[f] = row[f]
      BY <3>3, OlderRow DEF ResetFields
    <3>5. Older(row).token = row.token /\ Older(row).used = row.used
      BY <3>4 DEF ResetFields
    <3> QED BY <2>3, <3>2, <3>4, <3>5
  <2>5. ASSUME NEW t \in {"sessions", "invites"}, NEW row, db' = Update(db, t, row, Older(row))
        PROVE  db'.resets = db.resets
    BY <2>5 DEF Update, Base, Has, Tables
  <2> QED BY <2>1, <2>2, <2>4, <2>5
<1>11. CASE Restart
  BY <1>4, <1>11, RestartStep, IdleShape
<1>12. CASE UNCHANGED vars
  BY <1>4, <1>12 DEF vars
<1>13. ASSUME NEW h \in Handlers, Step(h), ~Reset(h), ~ResetWrite(h), ~ForgotWrite(h)
       PROVE  ResetsInv'
  <2>1. db'.resets = db.resets /\ hist'.resets = hist.resets
    BY <1>5, <1>13 DEF Touches
  <2>2. \A g \in Handlers : task'[g].pc = "resetWrite" => task'[g] = task[g]
    BY <1>5, <1>13 DEF Enters
  <2> QED BY <1>4, <2>1, <2>2
<1> QED BY <1>7, <1>8, <1>9, <1>10, <1>11, <1>12, <1>13, AllSteps

-----------------------------------------------------------------------------
(* The initial states.                                                     *)

\* The rows that the first database has.
LEMMA FirstRows ==
    ASSUME Init
    PROVE  /\ \A u \in db.users : /\ Has(u, UserFields)
                                  /\ \/ u.id = 3 /\ u.email = "ann" /\ u.pw = 3
                                     \/ u.id = 13 /\ u.email = "eve" /\ u.pw = 13
           /\ \A u, v \in db.users : u.id = v.id => u = v
           /\ \A s \in db.sessions : /\ Has(s, SessionFields)
                                     /\ \E u \in db.users : s.user = u.id /\ s.pw = u.pw
           /\ \A r \in db.resets : r = ResetToken(8, "ann")
           /\ \A i \in db.invites : i.accepted = FALSE /\ i.org = 4 /\ Has(i, InviteFields)
                                    /\ i.token \in {10, 11}
           /\ \A i, j \in db.invites : i.token = j.token => i = j
           /\ \E o \in db.orgs : o.id = 4
           /\ \A m \in db.members : m = Member(5, 4, 3, "owner")
           /\ \A p, q \in db.projects : p.id = q.id => p = q
           /\ db.keys = {APIKey(9, 9, 6, RoleAdmin, 3)}
<1> DEFINE ann == NewUser(3, "ann", 3, "kim", None)
           eve == [NewUser(13, "eve", 13, "eve", 1) EXCEPT !.role = RoleAdmin]
           s7 == [Session(7, 3, 3) EXCEPT !.age = "old"]
           s14 == Session(14, 13, 13)
           i10 == Invitation(10, 4, NoText, RoleDeveloper)
           i11 == Invitation(11, 4, "bob", RoleDeveloper)
           o4 == NewOrganization(4, <<"kim", 1>>)
           p6 == NewProject(6, 4, <<"prod", 0>>)
           p0 == NewProject(DefaultProjectID, DefaultOrgID, DefaultSlug)
<1>1. /\ Has(ann, UserFields) /\ ann.id = 3 /\ ann.email = "ann" /\ ann.pw = 3
      /\ Has(eve, UserFields) /\ eve.id = 13 /\ eve.email = "eve" /\ eve.pw = 13
  BY DEF NewUser, Has, UserFields
<1>2. /\ Has(s7, SessionFields) /\ s7.user = 3 /\ s7.pw = 3
      /\ Has(s14, SessionFields) /\ s14.user = 13 /\ s14.pw = 13
  BY DEF Session, Has, SessionFields
<1>3. /\ Has(i10, InviteFields) /\ i10.token = 10 /\ i10.accepted = FALSE /\ i10.org = 4
      /\ Has(i11, InviteFields) /\ i11.token = 11 /\ i11.accepted = FALSE /\ i11.org = 4
  BY DEF Invitation, Has, InviteFields
<1>4. o4.id = 4 /\ p6.id = 6 /\ p0.id = DefaultProjectID /\ DefaultProjectID # 6
  BY SMT DEF NewOrganization, NewProject, DefaultProjectID
<1> HIDE DEF ann, eve, s7, s14, i10, i11, o4, p6, p0
<1>5. /\ db.users = {ann} \cup (IF HasStaff THEN {eve} ELSE {})
      /\ db.sessions = {s7} \cup (IF HasStaff THEN {s14} ELSE {})
      /\ db.resets = {ResetToken(8, "ann")}
      /\ db.members = {Member(5, 4, 3, "owner")}
      /\ db.keys = {APIKey(9, 9, 6, RoleAdmin, 3)}
  BY DEF Init, EmptyDB, ann, eve, s7, s14
<1>6. /\ db.invites \subseteq {i10, i11}
      /\ o4 \in db.orgs
      /\ db.projects \subseteq {p6, p0}
  BY DEF Init, EmptyDB, Of, i10, i11, o4, p6, p0
<1>7. /\ \A u \in db.users : /\ Has(u, UserFields)
                             /\ \/ u.id = 3 /\ u.email = "ann" /\ u.pw = 3
                                \/ u.id = 13 /\ u.email = "eve" /\ u.pw = 13
      /\ \A u, v \in db.users : u.id = v.id => u = v
  BY SMTT(30), <1>1, <1>5
<1>8. \A s \in db.sessions : /\ Has(s, SessionFields)
                             /\ \E u \in db.users : s.user = u.id /\ s.pw = u.pw
  BY <1>1, <1>2, <1>5
<1>9. /\ \A i \in db.invites : /\ i.accepted = FALSE /\ i.org = 4 /\ Has(i, InviteFields)
                               /\ i.token \in {10, 11}
      /\ \A i, j \in db.invites : i.token = j.token => i = j
  BY SMT, <1>3, <1>6
<1>10. (\E o \in db.orgs : o.id = 4) /\ \A p, q \in db.projects : p.id = q.id => p = q
  BY <1>4, <1>6
<1> QED BY <1>5, <1>7, <1>8, <1>9, <1>10

-----------------------------------------------------------------------------
(* The invariant of accounts.                                              *)

Core == Base /\ UsersInv /\ OwnersInv /\ ResetsInv

LEMMA CoreInit == Init => Core
<1> SUFFICES ASSUME Init PROVE Core
  OBVIOUS
<1>1. next = 20 /\ hist.resets = {} /\ \A h \in Handlers : task[h] = Idle
  BY DEF Init, NoHistory
<1>2. \A h \in Handlers : task[h].pc = "idle" /\ task[h].uid = None
  BY <1>1, IdleShape
<1>3. UsersInv
  BY SMT, <1>1, FirstRows DEF UsersInv
<1>4. OwnersInv
  BY <1>2, FirstRows DEF OwnersInv, IsUser, AnonymousLabels
<1>5. ResetsInv
  <2> DEFINE r == ResetToken(8, "ann")
  <2>1. Has(r, ResetFields) /\ r.token = 8
    BY DEF ResetToken, Has, ResetFields
  <2> HIDE DEF r
  <2>2. \A t \in db.resets : t = r
    BY FirstRows DEF r
  <2>3. \A t \in db.resets : Has(t, ResetFields) /\ t.token \in Nat /\ t.token < next
    BY SMT, <1>1, <2>1, <2>2
  <2>4. \A s, t \in db.resets : s = t
    BY <2>2
  <2> QED BY <1>1, <1>2, <2>3, <2>4 DEF ResetsInv
<1> QED BY <1>3, <1>4, <1>5, BaseInit DEF Core

LEMMA CoreStep == Core /\ [Next]_vars => Core'
<1> SUFFICES ASSUME Base, UsersInv, OwnersInv, ResetsInv, [Next]_vars PROVE Core'
  BY DEF Core
<1> QED BY BaseStep, UsersStep, OwnersStep, ResetsStep DEF Core

LEMMA CoreHolds == Spec => []Core
BY CoreInit, CoreStep, PTL DEF Spec
=============================================================================
