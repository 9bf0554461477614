--------------------------- MODULE SQLiteIdentity ---------------------------
(***************************************************************************)
(* Accounts and tenants in the SQLite store (pkg/store/sqlite.go).  Writers*)
(* hold the store's mutex and the pool has one connection, so an operation *)
(* is one function of the database; but its statements are not in a        *)
(* transaction, and the ...Cut operators give what is left when a later    *)
(* statement fails.  Foreign keys are enforced.  LiteCreateUser is         *)
(* SQLiteStore.CreateUser, and so on.                                      *)
(***************************************************************************)
EXTENDS IdentityData

LiteCreateUser(d, u) == Insert(d, "users", u, UsersByEmail(d, u.email) # {})
LiteListUsers(d) == d.users
LiteGetUserByEmail(d, email) == First(d, UsersByEmail(d, email))
LiteGetUserByID(d, id) == First(d, UsersByID(d, id))

\* The name is written even when the caller left it empty.
LiteUpdateUser(d, u) ==
    IF NoSuchUser(d, u.id) THEN Err(d)
    ELSE LET old == Some(UsersByID(d, u.id))
             new == [old EXCEPT !.name = u.name, !.avatar = u.avatar]
         IN Ok(Update(d, "users", old, new), new)
LiteUpdateUserPassword(d, id, pw) ==
    IF NoSuchUser(d, id) THEN Err(d)
    ELSE LET old == Some(UsersByID(d, id))
         IN Ok(Update(d, "users", old, [old EXCEPT !.pw = pw]), id)

LiteCreateSession(d, s) == Insert(d, "sessions", s, NoSuchUser(d, s.user))

\* An expired session is deleted on sight.
LiteGetSession(d, token) ==
    LET own == { s \in d.sessions : s.token = token } IN
    IF \E s \in own : IsExpired(s) THEN Err(Delete(d, "sessions", own))
    ELSE First(d, own)
LiteDeleteSession(d, token) ==
    Ok(Delete(d, "sessions", { s \in d.sessions : s.token = token }), token)
LiteDeleteUserSessions(d, user) ==
    Ok(Delete(d, "sessions", SessionsOf(d, user)), user)

LiteCreatePasswordResetToken(d, email, token) ==
    Insert(d, "resets", ResetToken(token, email), FALSE)
LiteGetPasswordResetToken(d, token) ==
    First(d, { t \in d.resets : t.token = token })

\* The new password is written, and the statement that would mark the token
\* fails unnoticed.
LiteResetPasswordCut(d, token, pw) ==
    LET t == LiteGetPasswordResetToken(d, token) IN
    IF ~t.ok \/ t.val.used \/ IsExpired(t.val) THEN Err(d)
    ELSE Ok([d EXCEPT !.users =
               { IF u.email = t.val.email THEN [u EXCEPT !.pw = pw] ELSE u : u \in @ }],
            t.val)

\* Mutant: the token is never marked.
LiteResetUnmarked(d, token, pw) == LiteResetPasswordCut(d, token, pw)

\* Sessions are left alone.
LiteResetPasswordWithToken(d, token, pw) ==
    LET r == LiteResetPasswordCut(d, token, pw) IN
    IF ~r.ok THEN r
    ELSE Ok(Update(r.db, "resets", r.val, [r.val EXCEPT !.used = TRUE]), r.val)

-----------------------------------------------------------------------------
LiteCreateOrganization(d, o) ==
    Insert(d, "orgs", o, \E p \in d.orgs : p.id = o.id \/ p.slug = o.slug)
LiteGetOrganization(d, id) == First(d, { o \in d.orgs : o.id = id })
LiteListOrganizations(d) == d.orgs
LiteListUserOrganizations(d, user) ==
    IF IsAdmin(d, user) THEN d.orgs ELSE OrgsOf(d, user)

\* The slug is unique in its organization, which must exist.
LiteCreateProject(d, p) ==
    Insert(d, "projects", p,
           \/ NoSuchOrg(d, p.org)
           \/ \E q \in d.projects : q.id = p.id \/ (q.org = p.org /\ q.slug = p.slug))
LiteGetProject(d, id) == First(d, { p \in d.projects : p.id = id })
LiteListProjects(d, org) == { p \in d.projects : p.org = org }

\* ON CONFLICT (organization_id, user_id) DO UPDATE SET role.
LiteCreateOrgMember(d, m) ==
    LET old == MembersOf(d, m.org, m.user) IN
    IF old = {}
    THEN Insert(d, "members", m, NoSuchOrg(d, m.org) \/ NoSuchUser(d, m.user))
    ELSE Ok(Update(d, "members", Some(old), [Some(old) EXCEPT !.role = m.role]), m)
LiteGetOrgMember(d, org, user) == First(d, MembersOf(d, org, user))
LiteListOrgMembers(d, org) == { m \in d.members : m.org = org }

LiteCreateOrgInvitation(d, inv) == Insert(d, "invites", inv, NoSuchOrg(d, inv.org))

\* An expired invitation is still returned.
LiteGetOrgInvitation(d, token) == First(d, { i \in d.invites : i.token = token })

LiteAcceptable(d, i, user) ==
    /\ i.ok /\ ~IsAccepted(i.val) /\ ~IsExpired(i.val)
    /\ \A u \in UsersByID(d, user) : IssuedFor(i.val, u.email)

\* Mutant: the invitation is marked before its expiry is looked at.
LiteAcceptMarksFirst(d, token, user, id) ==
    LET i == LiteGetOrgInvitation(d, token)
        marked == Update(d, "invites", i.val, [i.val EXCEPT !.accepted = TRUE])
    IN IF ~i.ok \/ IsAccepted(i.val) THEN Err(d)
       ELSE IF ~LiteAcceptable(d, i, user) THEN Err(marked)
       ELSE LiteCreateOrgMember(marked, Member(id, i.val.org, user, i.val.role))

LiteAcceptOrgInvitation(d, token, user, id) ==
    LET i == LiteGetOrgInvitation(d, token) IN
    IF ~LiteAcceptable(d, i, user) THEN Err(d)
    ELSE LiteCreateOrgMember(
           Update(d, "invites", i.val, [i.val EXCEPT !.accepted = TRUE]),
           Member(id, i.val.org, user, i.val.role))

\* Either statement fails: the error of the first is ignored.
LiteAcceptCuts(d, token, user, id) ==
    LET i == LiteGetOrgInvitation(d, token) IN
    IF ~LiteAcceptable(d, i, user) THEN {Err(d)}
    ELSE { LiteCreateOrgMember(d, Member(id, i.val.org, user, i.val.role)),
           Err(Update(d, "invites", i.val, [i.val EXCEPT !.accepted = TRUE])) }
LiteListOrgInvitations(d, org) == { i \in d.invites : i.org = org }

-----------------------------------------------------------------------------
\* id and key_hash are unique, an empty hash as much as any other.
LiteCreateAPIKey(d, k) ==
    Insert(d, "keys", [k EXCEPT !.revoked = FALSE],
           \E j \in d.keys : j.id = k.id \/ j.hash = k.hash)
LiteListAPIKeys(d) == { [k EXCEPT !.hash = None] : k \in d.keys }
LiteListAPIKeysByProject(d, p) ==
    { [k EXCEPT !.hash = None] : k \in { j \in d.keys : j.project = p /\ ~j.revoked } }
LiteGetAPIKeyByHash(d, raw) ==
    First(d, { k \in d.keys : k.hash = raw /\ ~k.revoked })
LiteGetAPIKeyByID(d, id) == First(d, { k \in d.keys : k.id = id })
LiteRevokeAPIKeyByProject(d, project, id) ==
    LET own == { k \in d.keys : k.id = id /\ k.project = project } IN
    IF own = {} THEN Err(d)
    ELSE Ok(Update(d, "keys", Some(own), [Some(own) EXCEPT !.revoked = TRUE]), id)

LiteSaveOIDCConfig(d, cfg) ==
    Insert(Delete(d, "oidc", { c \in d.oidc : c.org = cfg.org }), "oidc", cfg,
           NoSuchOrg(d, cfg.org))
LiteGetOIDCConfig(d, org) == First(d, { c \in d.oidc : c.org = org })
LiteGetOIDCConfigByDomain(d, domain) ==
    First(d, { c \in d.oidc : c.enabled /\ IsDomainAllowed(c, domain) })
LiteDeleteOIDCConfig(d, org) ==
    Ok(Delete(d, "oidc", { c \in d.oidc : c.org = org }), org)
=============================================================================
