------------------------------- MODULE Tenancy ------------------------------
(***************************************************************************)
(* Organizations, projects, invitations, API keys and single sign-on:      *)
(* handlers_projects.go, handlers_apikey.go, handlers_oidc.go and the      *)
(* invitations of handlers_admin.go.                                       *)
(*                                                                         *)
(* Callers are users with a session.  Reads that follow one another inside *)
(* a helper are one step: no operation removes an organization, a project  *)
(* or a membership, so what such a helper found is still there.            *)
(***************************************************************************)
EXTENDS Accounts

CONSTANTS Invited,   \* the addresses ann has sent invitations to
          HasOIDC,   \* ann's organization signs in with its own provider
          HasStaff   \* a platform administrator is signed in

\* Mutant: the membership is asked for, not the list of organizations.
authorizeMembers(uid, p) ==
    LET g == GetProject(p)
    IN g.ok /\ (IsAdmin(db, uid) \/ GetOrgMember(g.val.org, uid).ok)

\* authorizeProjectAccess, for a user.
authorizeProjectAccess(uid, p) ==
    LET g == GetProject(p)
    IN g.ok /\ (IsAdmin(db, uid) \/ \E o \in ListUserOrganizations(uid) : o.id = g.val.org)

\* enrichUserOrgMembership and EffectiveRole: the role a user has in the
\* organization of a project.
EffectiveRole(uid, p) ==
    LET g == GetProject(p)
        m == GetOrgMember(g.val.org, uid)
    IN IF IsAdmin(db, uid) THEN RoleAdmin
       ELSE IF g.ok /\ m.ok THEN m.val.role
       ELSE RoleDeveloper
IsPrivileged(role) == role \in {"owner", "admin"}

\* resolveAndAuthorizeProjectID: the project a request is about, None when it
\* is refused.  A cookie that does not apply is passed over, a project named
\* in the request is not.
resolveAndAuthorizeProjectID(uid, explicit, cookie) ==
    LET target == IF explicit # None THEN explicit ELSE cookie
        own == { p.id : p \in UNION { ListProjects(o.id) : o \in ListUserOrganizations(uid) } }
    IN IF target # None /\ authorizeProjectAccess(uid, target) THEN {target}
       ELSE IF explicit # None THEN {None}
       ELSE IF own # {} THEN own
       ELSE IF IsAdmin(db, uid) THEN {DefaultProjectID} ELSE {None}

Cookie(uid) == IF \E p \in hist.active : p[1] = uid
               THEN (CHOOSE p \in hist.active : p[1] = uid)[2] ELSE None
SetActive(uid, p) == hist' = [hist EXCEPT !.active = SetFor(@, uid, p)]

\* handleListProjects: the projects a user is offered.
OfferedProjects(uid) ==
    IF IsAdmin(db, uid) THEN db.projects
    ELSE UNION { ListProjects(o.id) : o \in ListUserOrganizations(uid) }

-----------------------------------------------------------------------------
\* handleCreateOrganization: nobody becomes a member.
CreateOrg(h) ==
    /\ Continue(h, "neworg")
    /\ \E n \in Names, x \in Suffixes :
         LET Then(o) == db' = o.db /\ Done(h)
         IN Call(CreateOrganization(NewOrganization(next, <<n, x>>)), Then)
    /\ next' = next + 1
    /\ UNCHANGED hist

\* handleCreateProject: in an organization the user is shown.
CreateProj(h) ==
    /\ Continue(h, "newproject")
    /\ \E org \in IF IsAdmin(db, task[h].uid) THEN db.orgs
                  ELSE ListUserOrganizations(task[h].uid) :
         LET Then(o) ==
               /\ db' = o.db /\ Done(h)
               /\ IF o.ok THEN SetActive(task[h].uid, o.val.id) ELSE UNCHANGED hist
         IN Call(CreateProject(NewProject(next, org.id, <<"new", 0>>)), Then)
    /\ next' = next + 1

\* handleSwitchActiveProject
SwitchActive(h) ==
    /\ Continue(h, "switch")
    /\ \E p \in db.projects :
         IF authorizeProjectAccess(task[h].uid, p.id)
         THEN SetActive(task[h].uid, p.id) ELSE UNCHANGED hist
    /\ Done(h)
    /\ UNCHANGED <<db, next, faults>>

-----------------------------------------------------------------------------
\* handleInvitations: an owner invites anyone, an admin invites developers.
\* The role is that of the first entry of the member list that is the
\* caller's, and the in-memory store may list several.
CallerRoles(org, uid) ==
    LET mine == { m.role : m \in { n \in ListOrgMembers(org) : n.user = uid } }
    IN IF mine = {} THEN {NoText} ELSE mine
MayInvite(callerRole, role) ==
    callerRole = "owner" \/ (callerRole = "admin" /\ role \notin {"admin", "owner"})

Invite(h) ==
    /\ Continue(h, "invite")
    /\ \E org \in {DefaultOrgID} \cup { o.id : o \in db.orgs },
          r \in {RoleAdmin, RoleDeveloper}, e \in Invited :
       \E c \in CallerRoles(org, task[h].uid) :
         LET Then(o) == db' = o.db /\ Done(h)
         IN IF GetOrganization(org).ok /\ (IsAdmin(db, task[h].uid) \/ MayInvite(c, r))
            THEN Call(CreateOrgInvitation(Invitation(next, org, e, r)), Then)
            ELSE Done(h) /\ UNCHANGED <<db, faults>>
    /\ next' = next + 1
    /\ UNCHANGED hist

\* handleAcceptInvitation, up to the store's AcceptOrgInvitation...
AcceptRead(h) ==
    /\ Continue(h, "acceptRead")
    /\ \E i \in db.invites :
         LET Then(o) ==
               /\ db' = o.db
               /\ IF o.ok /\ IssuedFor(o.val, task[h].email)
                  THEN Goto(h, [task[h] EXCEPT !.token = i.token, !.org = i.org], "accept")
                  ELSE Done(h)
         IN Call(GetOrgInvitation(i.token), Then)
    /\ UNCHANGED <<next, hist>>

\* ... and after it: the browser is sent to a project of the organization.
AcceptCookie(h) ==
    /\ Continue(h, "cookie")
    /\ LET ids == { p.id : p \in ListProjects(task[h].org) }
       IN IF ids = {} THEN UNCHANGED hist ELSE \E p \in ids : SetActive(task[h].uid, p)
    /\ Done(h)
    /\ UNCHANGED <<db, next, faults>>

-----------------------------------------------------------------------------
\* handleOIDCLogin finds the provider, for an address or an organization,
SSOLogin(h) ==
    /\ Arrive(h, "oidc")
    /\ \E e \in Emails, n \in Names :
         LET Then(o) ==
               /\ db' = o.db
               /\ IF o.ok /\ o.val.enabled
                  THEN Goto(h, [Idle EXCEPT !.back = "oidc", !.email = e, !.name = n,
                                            !.org = o.val.org], "ssoCallback")
                  ELSE UNCHANGED task
         IN \/ Call(GetOIDCConfigByDomain(e), Then)
            \/ \E org \in db.orgs : Call(GetOIDCConfig(org.id), Then)
    /\ UNCHANGED <<next, hist>>

\* handleOIDCCallback reads the configuration again when the user is back,
SSOCallback(h) ==
    /\ Continue(h, "ssoCallback")
    /\ LET Then(o) ==
             /\ db' = o.db
             /\ IF o.ok /\ o.val.enabled /\ IsDomainAllowed(o.val, task[h].email)
                THEN Goto(h, [task[h] EXCEPT !.role = o.val.role], "ssoUser") ELSE Done(h)
       IN Call(GetOIDCConfig(task[h].org), Then)
    /\ UNCHANGED <<next, hist>>

\* makes an account unless there is one,
SSOUser(h) ==
    /\ Continue(h, "ssoUser")
    /\ LET t == task[h]
           Then(o) ==
             /\ db' = o.db
             /\ IF o.ok THEN Goto(h, [t EXCEPT !.uid = o.val.id, !.pw = o.val.pw], "ssoMember")
                ELSE Goto(h, t, "create")
       IN Call(GetUserByEmail(t.email), Then)
    /\ UNCHANGED <<next, hist>>

\* Mutant: every sign-in writes the provider's default role.
SSOAlwaysJoin(h) ==
    /\ Continue(h, "ssoMember")
    /\ Goto(h, task[h], "ssoJoin")
    /\ UNCHANGED <<db, next, faults, hist>>

\* and a membership unless one was found; a failure to look counts as none.
SSOMember(h) ==
    /\ Continue(h, "ssoMember")
    /\ LET Then(o) == db' = o.db /\ Goto(h, task[h], IF o.ok THEN "session" ELSE "ssoJoin")
       IN Call(GetOrgMember(task[h].org, task[h].uid), Then)
    /\ UNCHANGED <<next, hist>>

SSOJoin(h) ==
    /\ Continue(h, "ssoJoin")
    /\ LET t == task[h]
           Then(o) == db' = o.db /\ Goto(h, t, "session")
       IN Call(CreateOrgMember(Member(next, t.org, t.uid, t.role)), Then)
    /\ next' = next + 1
    /\ UNCHANGED hist

\* handleOIDCConfigRoutes lets owners and admins in.
SSOAuthorize(h) ==
    /\ Continue(h, "ssoAuthorize")
    /\ \E org \in db.orgs, l \in {"ssoSecret", "ssoTyped", "ssoDelete"} :
         LET Then(o) ==
               /\ db' = o.db
               /\ IF IsAdmin(db, task[h].uid) \/ (o.ok /\ IsPrivileged(o.val.role))
                  THEN Goto(h, [task[h] EXCEPT !.org = org.id], l) ELSE Done(h)
         IN Call(GetOrgMember(org.id, task[h].uid), Then)
    /\ UNCHANGED <<next, hist>>

\* handleSaveOIDCConfig: a masked secret stands for the stored one...
SSOSecret(h) ==
    /\ Continue(h, "ssoSecret")
    /\ LET Then(o) ==
             /\ db' = o.db
             /\ IF o.ok /\ o.val.secret # None
                THEN Goto(h, [task[h] EXCEPT !.token = o.val.secret], "ssoSave") ELSE Done(h)
       IN Call(GetOIDCConfig(task[h].org), Then)
    /\ UNCHANGED <<next, hist>>

\* ... and another one replaces it.
SSOSave(h) ==
    /\ Continue(h, task[h].pc) /\ task[h].pc \in {"ssoSave", "ssoTyped"}
    /\ \E on \in BOOLEAN :
         LET t == task[h]
             secret == IF t.pc = "ssoTyped" THEN next ELSE t.token
             Then(o) == db' = o.db /\ Done(h)
         IN Call(SaveOIDCConfig(OIDCConfig(t.org, secret, RoleDeveloper, {}, on)), Then)
    /\ next' = next + 1
    /\ UNCHANGED hist

SSODelete(h) ==
    /\ Continue(h, "ssoDelete")
    /\ LET Then(o) == db' = o.db /\ Done(h)
       IN Call(DeleteOIDCConfig(task[h].org), Then)
    /\ UNCHANGED <<next, hist>>

-----------------------------------------------------------------------------
\* handleListOrCreateAPIKeys: the project is resolved from the request or the
\* cookie,
KeyResolve(h) ==
    /\ Continue(h, "keyResolve")
    /\ \E x \in {None} \cup { p.id : p \in db.projects } :
       \E p \in resolveAndAuthorizeProjectID(task[h].uid, x, Cookie(task[h].uid)) :
         Goto(h, [task[h] EXCEPT !.proj = p], "keyRole")
    /\ UNCHANGED <<db, next, faults, hist>>

\* the role asked for is granted to owners and admins of its organization,
KeyRole(h) ==
    /\ Continue(h, "keyRole")
    /\ \E r \in {RoleAdmin, RoleDeveloper} :
         Goto(h, [task[h] EXCEPT !.role =
                    IF r = RoleAdmin /\ ~IsPrivileged(EffectiveRole(task[h].uid, task[h].proj))
                    THEN RoleDeveloper ELSE r], "keyCreate")
    /\ UNCHANGED <<db, next, faults, hist>>

\* and the key is stored once access to the project is confirmed.
KeyCreate(h) ==
    /\ Continue(h, "keyCreate")
    /\ LET t == task[h]
           Then(o) == db' = o.db /\ Done(h)
       IN IF authorizeProjectAccess(t.uid, t.proj)
          THEN Call(CreateAPIKey(APIKey(next, next, t.proj, t.role, t.uid)), Then)
          ELSE Done(h) /\ UNCHANGED <<db, faults>>
    /\ next' = next + 1
    /\ UNCHANGED hist

\* handleRevokeAPIKey
KeyRevoke(h) ==
    /\ Continue(h, "keyRevoke")
    /\ \E k \in db.keys :
         LET Then(o) ==
               /\ db' = o.db /\ Done(h)
               /\ hist' = IF o.ok THEN [hist EXCEPT !.revoked = @ \cup {k.id}] ELSE hist
         IN IF GetAPIKeyByID(k.id).ok /\ authorizeProjectAccess(task[h].uid, k.project)
            THEN Call(RevokeAPIKeyByProject(k.project, k.id), Then)
            ELSE Done(h) /\ UNCHANGED <<db, faults, hist>>
    /\ UNCHANGED next

-----------------------------------------------------------------------------
\* ann has an account with its own workspace, a session, a reset token and an
\* API key; the SQL stores were seeded with the default organization and
\* project.
Init ==
    /\ driver \in Drivers
    /\ db = [EmptyDB EXCEPT
               !.users = {NewUser(3, "ann", 3, "kim", None)} \cup
                         IF HasStaff THEN {[NewUser(13, "eve", 13, "eve", 1) EXCEPT
                                              !.role = RoleAdmin]} ELSE {},
               !.orgs = {NewOrganization(4, <<"kim", 1>>)} \cup
                        Of({}, {NewOrganization(DefaultOrgID, DefaultSlug)},
                           {NewOrganization(DefaultOrgID, DefaultSlug)}),
               !.members = {Member(5, 4, 3, "owner")},
               !.projects = {NewProject(6, 4, <<"prod", 0>>)} \cup
                            Of({}, {NewProject(DefaultProjectID, DefaultOrgID, DefaultSlug)},
                               {NewProject(DefaultProjectID, DefaultOrgID, DefaultSlug)}),
               !.sessions = {[Session(7, 3, 3) EXCEPT !.age = "old"]} \cup
                            IF HasStaff THEN {Session(14, 13, 13)} ELSE {},
               !.resets = {ResetToken(8, "ann")},
               !.keys = {APIKey(9, 9, 6, RoleAdmin, 3)},
               !.invites = { i \in { Invitation(10, 4, NoText, RoleDeveloper),
                                     Invitation(11, 4, "bob", RoleDeveloper) }
                             : i.email \in Invited },
               !.oidc = IF HasOIDC THEN {OIDCConfig(4, 12, RoleDeveloper, {}, TRUE)} ELSE {}]
    /\ task = [h \in Handlers |-> Idle]
    /\ next = 20
    /\ ops = 0 /\ faults = 0 /\ ages = 0
    /\ serial = TRUE
    /\ hist = [NoHistory EXCEPT !.active = {<<3, 6>>}]

TenantRequests(h) ==
    \/ Authenticated(h, "neworg", "neworg")
    \/ Authenticated(h, "newproject", "newproject")
    \/ Authenticated(h, "switch", "switch")
    \/ Authenticated(h, "invite", "invite")
    \/ Authenticated(h, "accept", "acceptRead")
    \/ SSOLogin(h)
    \/ Authenticated(h, "saveoidc", "ssoAuthorize")
    \/ Authenticated(h, "newkey", "keyResolve")
    \/ Authenticated(h, "revoke", "keyRevoke")

TenantSteps(h) ==
    \/ CreateOrg(h) \/ CreateProj(h) \/ SwitchActive(h) \/ Invite(h) \/ AcceptRead(h)
    \/ AcceptCookie(h) \/ SSOCallback(h) \/ SSOUser(h) \/ SSOMember(h) \/ SSOJoin(h)
    \/ SSOAuthorize(h) \/ SSOSecret(h) \/ SSOSave(h) \/ SSODelete(h) \/ KeyResolve(h)
    \/ KeyRole(h) \/ KeyCreate(h) \/ KeyRevoke(h)

Next ==
    \/ \E h \in Handlers : AccountRequests(h) \/ AccountSteps(h)
    \/ \E h \in Handlers : TenantRequests(h) \/ TenantSteps(h)
    \/ GrowOld \/ Restart

Spec == Init /\ [][Next]_vars

-----------------------------------------------------------------------------
\* An invitation grants one membership, to whoever accepts it first, through
\* sign-up or the accept page.  PostgreSQL checks the invitation before it
\* marks it, so there requests must not overlap; SQLite ignores a failure to
\* mark it.
InvitationGrantsOnce ==
    (driver = "sqlite" => faults = 0) /\ (driver = "postgres" => serial) =>
        \A x, y \in hist.joined : x[1] = y[1] => x = y

\* A spent invitation has made someone a member: with no failures, none is
\* used up for nothing, except while its member is being written.
SpentInvitationJoined ==
    faults = 0 => \A i \in UNION { ListOrgInvitations(o.id) : o \in db.orgs } : IsAccepted(i) =>
        \/ \E x \in hist.joined : x[1] = i.token
        \/ \E h \in Handlers : At(h, "acceptMember") /\ task[h].token = i.token

\* A project cookie is of use to its user.  Not so for users whose workspace
\* could not be named, or who signed up with a spent invitation, or who are
\* shown an organization without a project: completeOAuthLogin looks no
\* further than the first one.
OfUse(x) ==
    \/ x[1] \in hist.lost
    \/ \E o \in ListUserOrganizations(x[1]) : ListProjects(o.id) = {}
    \/ authorizeProjectAccess(x[1], x[2])

\* Whoever signs in, joins or makes a project is sent to a project they may
\* work on, when nothing failed and requests did not overlap.
LandsInOwnProject ==
    [][serial' /\ faults' = 0 =>
        \A x \in hist'.active \ hist.active : OfUse(x)']_vars

\* Every project a user is offered can be chosen.
OfferedCanBeChosen ==
    \A u \in db.users : \A p \in OfferedProjects(u.id) : authorizeProjectAccess(u.id, p.id)

\* Signing in through the provider leaves the role of a member alone, when the
\* membership could be looked up.
SignInKeepsRole ==
    [][serial /\ faults' = 0 /\ (\E h \in Handlers : At(h, "ssoJoin") /\ task'[h] # task[h])
       => \A m \in db.members : m.cur => m \in db'.members]_vars

\* A key that was reported revoked is never accepted again, and the list of a
\* project's keys shows as active exactly the ones that are accepted.
RevokedKeysStayOut ==
    /\ \A k \in hist.revoked : ~GetAPIKeyByHash(k).ok
    /\ \A p \in db.projects : \A k \in ListAPIKeysByProject(p.id) :
         k.revoked <=> ~GetAPIKeyByHash(k.id).ok
=============================================================================
