--------------------------- MODULE MemoryIdentity ---------------------------
(***************************************************************************)
(* Accounts and tenants in the in-memory store (pkg/store/memory.go).  An  *)
(* operation holds the store's mutex throughout, so each is one function   *)
(* of the database.  The store knows no foreign keys.  MemCreateUser is    *)
(* MemoryStore.CreateUser, and so on.                                      *)
(***************************************************************************)
EXTENDS IdentityData

\* Mutant: the email is not looked up before the user is stored.
MemCreateUserBlindly(d, u) == Insert(d, "users", u, FALSE)

MemCreateUser(d, u) == Insert(d, "users", u, UsersByEmail(d, u.email) # {})

MemListUsers(d) == { [u EXCEPT !.pw = None] : u \in d.users }
MemGetUserByEmail(d, email) == First(d, UsersByEmail(d, email))
MemGetUserByID(d, id) == First(d, UsersByID(d, id))

MemUpdateUser(d, u) ==
    IF NoSuchUser(d, u.id) THEN Err(d)
    ELSE LET old == Some(UsersByID(d, u.id))
             new == [old EXCEPT !.name = IF u.name = NoText THEN @ ELSE u.name,
                                !.avatar = u.avatar]
         IN Ok(Update(d, "users", old, new), new)

MemUpdateUserPassword(d, id, pw) ==
    IF NoSuchUser(d, id) THEN Err(d)
    ELSE LET old == Some(UsersByID(d, id))
         IN Ok(Update(d, "users", old, [old EXCEPT !.pw = pw]), id)

MemCreateSession(d, s) == Insert(d, "sessions", s, FALSE)

\* An expired session is refused, and stays in the map.
MemGetSession(d, token) ==
    First(d, { s \in d.sessions : s.token = token /\ ~IsExpired(s) })

MemDeleteSession(d, token) ==
    Ok(Delete(d, "sessions", { s \in d.sessions : s.token = token }), token)
MemDeleteUserSessions(d, user) ==
    Ok(Delete(d, "sessions", SessionsOf(d, user)), user)

MemCreatePasswordResetToken(d, email, token) ==
    IF UsersByEmail(d, email) = {} THEN Err(d)
    ELSE Insert(d, "resets", ResetToken(token, email), FALSE)
MemGetPasswordResetToken(d, token) ==
    First(d, { t \in d.resets : t.token = token })

MemResetPasswordWithToken(d, token, pw) ==
    LET t == MemGetPasswordResetToken(d, token) IN
    IF ~t.ok \/ t.val.used \/ IsExpired(t.val) \/ UsersByEmail(d, t.val.email) = {}
    THEN Err(d)
    ELSE LET u == Some(UsersByEmail(d, t.val.email))
             d1 == Update(d, "users", u, [u EXCEPT !.pw = pw])
             d2 == Update(d1, "resets", t.val, [t.val EXCEPT !.used = TRUE])
         IN Ok(Delete(d2, "sessions", SessionsOf(d2, u.id)), u.id)

-----------------------------------------------------------------------------
MemCreateOrganization(d, o) ==
    Insert(d, "orgs", o, \E p \in d.orgs : p.id = o.id \/ p.slug = o.slug)

\* The default organization and project exist even when they are not stored.
MemGetOrganization(d, id) ==
    IF id = DefaultOrgID /\ NoSuchOrg(d, id)
    THEN Ok(d, NewOrganization(DefaultOrgID, DefaultSlug))
    ELSE First(d, { o \in d.orgs : o.id = id })
MemListOrganizations(d) == d.orgs

\* Besides the user's organizations, those whose slug contains the user's
\* name; an administrator is shown them all.
MemListUserOrganizations(d, user) ==
    IF IsAdmin(d, user) THEN d.orgs
    ELSE OrgsOf(d, user)
         \cup { o \in d.orgs : \E u \in UsersByID(d, user) : o.slug[1] = u.name }

MemCreateProject(d, p) ==
    Insert(d, "projects", p,
           \E q \in d.projects : q.id = p.id \/ (q.org = p.org /\ q.slug = p.slug))

MemGetProject(d, id) ==
    IF id = DefaultProjectID /\ ~ \E p \in d.projects : p.id = id
    THEN Ok(d, NewProject(DefaultProjectID, DefaultOrgID, DefaultSlug))
    ELSE First(d, { p \in d.projects : p.id = id })
MemListProjects(d, org) == { p \in d.projects : p.org = org }

\* The map keeps an entry under the new ID and moves "org:user" to it: the
\* entry of an earlier membership stays behind under its own ID.
MemCreateOrgMember(d, m) ==
    LET old == { o \in MembersOf(d, m.org, m.user) : o.id # m.id }
        d1 == Delete(d, "members", old \cup { o \in d.members : o.id = m.id })
        d2 == [d1 EXCEPT !.members = @ \cup { [o EXCEPT !.cur = FALSE] : o \in old }]
    IN Insert(d2, "members", m, FALSE)
MemGetOrgMember(d, org, user) == First(d, MembersOf(d, org, user))
MemListOrgMembers(d, org) == { m \in d.members : m.org = org }

MemCreateOrgInvitation(d, inv) == Insert(d, "invites", inv, FALSE)
MemGetOrgInvitation(d, token) ==
    First(d, { i \in d.invites : i.token = token /\ ~IsExpired(i) })

\* Mutant: an accepted invitation is accepted again.
MemAcceptAgain(d, token, user, id) ==
    LET i == MemGetOrgInvitation(d, token) IN
    IF ~i.ok \/ (\E u \in UsersByID(d, user) : ~IssuedFor(i.val, u.email))
    THEN Err(d)
    ELSE MemCreateOrgMember(
           Update(d, "invites", i.val, [i.val EXCEPT !.accepted = TRUE]),
           Member(id, i.val.org, user, i.val.role))

MemAcceptOrgInvitation(d, token, user, id) ==
    LET i == MemGetOrgInvitation(d, token) IN
    IF \/ ~i.ok \/ IsAccepted(i.val)
       \/ \E u \in UsersByID(d, user) : ~IssuedFor(i.val, u.email)
    THEN Err(d)
    ELSE MemCreateOrgMember(
           Update(d, "invites", i.val, [i.val EXCEPT !.accepted = TRUE]),
           Member(id, i.val.org, user, i.val.role))

MemListOrgInvitations(d, org) == { i \in d.invites : i.org = org }

-----------------------------------------------------------------------------
\* A key of the same ID is replaced, and is no longer revoked.  A key that
\* comes without a hash leaves the hash index alone.
MemCreateAPIKey(d, k) ==
    LET old == { j \in d.keys : j.id = k.id }
        idx == k.hash # None \/ \E j \in old : j.indexed
    IN Insert(Delete(d, "keys", old), "keys",
              [k EXCEPT !.revoked = FALSE, !.indexed = idx], FALSE)
MemListAPIKeys(d) == { [k EXCEPT !.hash = None] : k \in d.keys }
MemListAPIKeysByProject(d, p) ==
    { [k EXCEPT !.hash = None] : k \in { j \in d.keys : j.project = p } }

\* A raw key is known by the ID of the row it was made for: the index leads
\* from its hash to that ID whatever hash the row now holds.
MemGetAPIKeyByHash(d, raw) ==
    First(d, { k \in d.keys : k.id = raw /\ k.indexed /\ ~k.revoked })
MemGetAPIKeyByID(d, id) ==
    First(d, { [k EXCEPT !.hash = None] : k \in { j \in d.keys : j.id = id } })

\* Revocation removes the row's hash from the index, which is the raw key's
\* only while the row holds it.
MemRevokeAPIKeyByProject(d, project, id) ==
    LET own == { k \in d.keys : k.id = id /\ k.project = project } IN
    IF own = {} THEN Err(d)
    ELSE LET k == Some(own)
         IN Ok(Update(d, "keys", k,
                      [k EXCEPT !.revoked = TRUE,
                                !.indexed = @ /\ k.hash = None]), id)

MemSaveOIDCConfig(d, cfg) ==
    Insert(Delete(d, "oidc", { c \in d.oidc : c.org = cfg.org }), "oidc", cfg, FALSE)
MemGetOIDCConfig(d, org) == First(d, { c \in d.oidc : c.org = org })
MemGetOIDCConfigByDomain(d, domain) ==
    First(d, { c \in d.oidc : c.enabled /\ IsDomainAllowed(c, domain) })
MemDeleteOIDCConfig(d, org) ==
    Ok(Delete(d, "oidc", { c \in d.oidc : c.org = org }), org)
=============================================================================
