-------------------------- MODULE PostgresIdentity --------------------------
(***************************************************************************)
(* Accounts and tenants in the PostgreSQL store (pkg/store/postgres.go).   *)
(* There is no lock: an operator here is what one statement, or one        *)
(* transaction, does.  ResetPasswordWithToken and AcceptOrgInvitation      *)
(* check first and write in later statements, so they have several.  The   *)
(* statements that only touch a session's expiry or a key's last use       *)
(* commute with every other, and stay with the read they follow.           *)
(* PgCreateUser is PostgresStore.CreateUser, and so on.                    *)
(***************************************************************************)
EXTENDS IdentityData

PgCreateUser(d, u) == Insert(d, "users", u, UsersByEmail(d, u.email) # {})

\* Mutant: only the first page is read.
PgListFirstUser(d) == { [u EXCEPT !.pw = None] : u \in { Some(d.users) } }

PgListUsers(d) == { [u EXCEPT !.pw = None] : u \in d.users }

PgGetUserByEmail(d, email) == First(d, UsersByEmail(d, email))
PgGetUserByID(d, id) == First(d, UsersByID(d, id))
PgUpdateUser(d, u) ==
    IF NoSuchUser(d, u.id) THEN Err(d)
    ELSE LET old == Some(UsersByID(d, u.id))
             new == [old EXCEPT !.name = u.name, !.avatar = u.avatar]
         IN Ok(Update(d, "users", old, new), new)
PgUpdateUserPassword(d, id, pw) ==
    IF NoSuchUser(d, id) THEN Err(d)
    ELSE LET old == Some(UsersByID(d, id))
         IN Ok(Update(d, "users", old, [old EXCEPT !.pw = pw]), id)

PgCreateSession(d, s) == Insert(d, "sessions", s, NoSuchUser(d, s.user))

\* An expired session is deleted; one with less than 48 hours left gets seven
\* more days.
PgGetSession(d, token) ==
    LET own == { s \in d.sessions : s.token = token }
        slid == [Some(own) EXCEPT !.age = "fresh"]
    IN IF own = {} THEN Err(d)
       ELSE IF IsExpired(Some(own)) THEN Err(Delete(d, "sessions", own))
       ELSE Ok(Update(d, "sessions", Some(own), slid), slid)

PgDeleteSession(d, token) ==
    Ok(Delete(d, "sessions", { s \in d.sessions : s.token = token }), token)
PgDeleteUserSessions(d, user) ==
    Ok(Delete(d, "sessions", SessionsOf(d, user)), user)

PgCreatePasswordResetToken(d, email, token) ==
    IF UsersByEmail(d, email) = {} THEN Err(d)
    ELSE Insert(d, "resets", ResetToken(token, email), FALSE)
PgGetPasswordResetToken(d, token) ==
    First(d, { t \in d.resets : t.token = token })

\* ResetPasswordWithToken reads and checks the token...
PgResetCheck(d, token) ==
    LET t == PgGetPasswordResetToken(d, token)
    IN IF t.ok /\ ~t.val.used /\ ~IsExpired(t.val) THEN t ELSE Err(d)
\* ... and writes in a transaction that does not look at it again.
PgResetCommit(d, t, pw) ==
    IF UsersByEmail(d, t.email) = {} THEN Err(d)
    ELSE LET u == Some(UsersByEmail(d, t.email))
             d1 == Update(d, "users", u, [u EXCEPT !.pw = pw])
             d2 == [d1 EXCEPT !.resets = { IF r.token = t.token
                                           THEN [r EXCEPT !.used = TRUE] ELSE r : r \in @ }]
         IN Ok(Delete(d2, "sessions", SessionsOf(d2, u.id)), u.id)

-----------------------------------------------------------------------------
PgCreateOrganization(d, o) ==
    Insert(d, "orgs", o, \E p \in d.orgs : p.id = o.id \/ p.slug = o.slug)
PgGetOrganization(d, id) == First(d, { o \in d.orgs : o.id = id })
PgListOrganizations(d) == d.orgs
PgListUserOrganizations(d, user) ==
    IF IsAdmin(d, user) THEN d.orgs ELSE OrgsOf(d, user)
PgCreateProject(d, p) ==
    Insert(d, "projects", p,
           \/ NoSuchOrg(d, p.org)
           \/ \E q \in d.projects : q.id = p.id \/ (q.org = p.org /\ q.slug = p.slug))
PgGetProject(d, id) == First(d, { p \in d.projects : p.id = id })
PgListProjects(d, org) == { p \in d.projects : p.org = org }

\* ON CONFLICT (organization_id, user_id) DO UPDATE SET role.
PgCreateOrgMember(d, m) ==
    LET old == MembersOf(d, m.org, m.user) IN
    IF old = {}
    THEN Insert(d, "members", m, NoSuchOrg(d, m.org) \/ NoSuchUser(d, m.user))
    ELSE Ok(Update(d, "members", Some(old), [Some(old) EXCEPT !.role = m.role]), m)
PgGetOrgMember(d, org, user) == First(d, MembersOf(d, org, user))
PgListOrgMembers(d, org) == { m \in d.members : m.org = org }

PgCreateOrgInvitation(d, inv) == Insert(d, "invites", inv, NoSuchOrg(d, inv.org))
PgGetOrgInvitation(d, token) ==
    First(d, { i \in d.invites : i.token = token /\ ~IsExpired(i) })

\* AcceptOrgInvitation reads and checks the invitation, marks it accepted in
\* a second statement, and inserts the member in a third.
PgAcceptCheck(d, token, user) ==
    LET i == PgGetOrgInvitation(d, token)
    IN IF /\ i.ok /\ ~IsAccepted(i.val)
          /\ \A u \in UsersByID(d, user) : IssuedFor(i.val, u.email)
       THEN i ELSE Err(d)
PgAcceptMark(d, token) ==
    Ok([d EXCEPT !.invites =
          { IF i.token = token THEN [i EXCEPT !.accepted = TRUE] ELSE i : i \in @ }],
       token)
PgListOrgInvitations(d, org) == { i \in d.invites : i.org = org }

-----------------------------------------------------------------------------
\* Mutant: a key of the same ID is taken back into use.
PgCreateAPIKeyUpsert(d, k) ==
    LET old == { j \in d.keys : j.id = k.id } IN
    IF old # {} THEN Ok(Update(d, "keys", Some(old), [Some(old) EXCEPT !.revoked = FALSE]), k)
    ELSE Insert(d, "keys", [k EXCEPT !.revoked = FALSE], \E j \in d.keys : j.hash = k.hash)

\* id and key_hash are unique, an empty hash as much as any other.
PgCreateAPIKey(d, k) ==
    Insert(d, "keys", [k EXCEPT !.revoked = FALSE],
           \E j \in d.keys : j.id = k.id \/ j.hash = k.hash)

PgListAPIKeys(d) == { [k EXCEPT !.hash = None] : k \in d.keys }
PgListAPIKeysByProject(d, p) ==
    { [k EXCEPT !.hash = None] : k \in { j \in d.keys : j.project = p /\ ~j.revoked } }

\* Mutant: revoked keys are found as well.
PgGetAnyKeyByHash(d, raw) == First(d, { k \in d.keys : k.hash = raw })

PgGetAPIKeyByHash(d, raw) ==
    First(d, { k \in d.keys : k.hash = raw /\ ~k.revoked })

PgGetAPIKeyByID(d, id) == First(d, { k \in d.keys : k.id = id })
PgRevokeAPIKeyByProject(d, project, id) ==
    LET own == { k \in d.keys : k.id = id /\ k.project = project } IN
    IF own = {} THEN Err(d)
    ELSE Ok(Update(d, "keys", Some(own), [Some(own) EXCEPT !.revoked = TRUE]), id)

PgSaveOIDCConfig(d, cfg) ==
    Insert(Delete(d, "oidc", { c \in d.oidc : c.org = cfg.org }), "oidc", cfg,
           NoSuchOrg(d, cfg.org))
PgGetOIDCConfig(d, org) == First(d, { c \in d.oidc : c.org = org })
PgGetOIDCConfigByDomain(d, domain) ==
    First(d, { c \in d.oidc : c.enabled /\ IsDomainAllowed(c, domain) })
PgDeleteOIDCConfig(d, org) ==
    Ok(Delete(d, "oidc", { c \in d.oidc : c.org = org }), org)
=============================================================================
