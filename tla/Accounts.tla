------------------------------ MODULE Accounts ------------------------------
(***************************************************************************)
(* Registration, sign-in and passwords: handlers_auth.go, handlers_password*)
(* .go, handlers_profile.go and the sign-in of handlers_oauth.go.          *)
(*                                                                         *)
(* Of a request the model keeps what reaches the store.  Refusals that look*)
(* at the request alone, and passwords that do not match, change nothing   *)
(* and are left out: a caller sends the password its user had when the     *)
(* request came in.                                                        *)
(***************************************************************************)
EXTENDS Identity

\* What a behaviour has done so far:
\*   resets    the password changes each reset token has brought about
\*   joined    the memberships each invitation has granted
\*   renamed   the name each user last chose, once there is one
\*   active    the project cookie each user was last given
\*   lost      users whose workspace could not be set up, or whose invitation
\*             had been spent when they joined
\*   revoked   API keys reported revoked
NoHistory ==
    [resets |-> {}, joined |-> {}, renamed |-> {}, active |-> {}, lost |-> {},
     revoked |-> {}]
SetFor(S, i, v) == { p \in S : p[1] # i } \cup {<<i, v>>}

-----------------------------------------------------------------------------
\* handleSignUp: an address that has an account is refused...
SignUp(h) ==
    /\ Arrive(h, "signup")
    /\ \E e \in Emails, n \in Names, t \in {None} \cup { i.token : i \in db.invites } :
         LET Then(o) ==
               /\ db' = o.db
               /\ IF o.ok THEN UNCHANGED task
                  ELSE Goto(h, [Idle EXCEPT !.back = "signup", !.email = e,
                                            !.name = n, !.token = t], "create")
         IN Call(GetUserByEmail(e), Then)
    /\ UNCHANGED <<next, hist>>

\* ... and the account is made.  A failure is reported; the OAuth and OIDC
\* callbacks make accounts in the same way.
CreateAccount(h) ==
    /\ Continue(h, "create")
    /\ LET t == task[h]
           Then(o) ==
             /\ db' = o.db
             /\ IF ~o.ok THEN Done(h)
                ELSE Goto(h, [t EXCEPT !.uid = next, !.pw = next],
                          IF t.back = "oidc" THEN "ssoMember"
                          ELSE IF t.token # None THEN "join" ELSE "org")
       IN Call(CreateUser(NewUser(next, t.email, next, t.name, t.avatar)), Then)
    /\ next' = next + 1
    /\ UNCHANGED hist

\* A sign-up with an invitation joins its organization, whether or not the
\* invitation can still be accepted, and adopts the organization's project.
SignUpJoin(h) ==
    /\ Continue(h, "join")
    /\ LET Then(o) ==
             /\ db' = o.db
             /\ IF o.ok /\ IssuedFor(o.val, task[h].email)
                THEN Goto(h, [task[h] EXCEPT !.org = o.val.org], "accept")
                ELSE Goto(h, task[h], "org")
       IN Call(GetOrgInvitation(task[h].token), Then)
    /\ UNCHANGED <<next, hist>>

\* AcceptOrgInvitation: one call, which PostgreSQL carries out in three
\* statements.  handleSignUp ignores its outcome, handleAcceptInvitation
\* reports it.
Accepted(h, o) ==
    LET t == task[h] IN
    /\ db' = o.db
    /\ hist' = IF o.ok THEN [hist EXCEPT !.joined = @ \cup {<<t.token, t.uid>>}]
               ELSE IF t.back = "signup" THEN [hist EXCEPT !.lost = @ \cup {t.uid}]
               ELSE hist
    /\ IF t.back = "signup" THEN Goto(h, t, "joined")
       ELSE IF o.ok THEN Goto(h, t, "cookie") ELSE Done(h)

Accept(h) ==
    /\ Continue(h, "accept")
    /\ LET t == task[h]
           Then(o) == Accepted(h, o)
           Check(o) ==
             IF o.ok
             THEN /\ Goto(h, [t EXCEPT !.org = o.val.org, !.role = o.val.role], "acceptMark")
                  /\ UNCHANGED <<db, hist>>
             ELSE Accepted(h, o)
       IN \/ /\ driver = "memory" /\ UNCHANGED faults
             /\ Accepted(h, MemAcceptOrgInvitation(db, t.token, t.uid, next))
          \/ /\ driver = "sqlite"
             /\ CallOr(LiteAcceptOrgInvitation(db, t.token, t.uid, next),
                       LiteAcceptCuts(db, t.token, t.uid, next), Then)
          \/ driver = "postgres" /\ Call(PgAcceptCheck(db, t.token, t.uid), Check)
    /\ next' = next + 1

AcceptMark(h) ==
    /\ Continue(h, "acceptMark")
    /\ LET Then(o) ==
             IF o.ok THEN db' = o.db /\ Goto(h, task[h], "acceptMember") /\ UNCHANGED hist
             ELSE Accepted(h, o)
       IN Call(PgAcceptMark(db, task[h].token), Then)
    /\ UNCHANGED next

AcceptMember(h) ==
    /\ Continue(h, "acceptMember")
    /\ LET t == task[h]
           Then(o) == Accepted(h, o)
       IN Call(PgCreateOrgMember(db, Member(next, t.org, t.uid, t.role)), Then)
    /\ next' = next + 1

SignUpAdopt(h) ==
    /\ Continue(h, "joined")
    /\ LET Then(S) ==
             IF S = {} THEN Goto(h, task[h], "org")
             ELSE \E p \in S : Goto(h, [task[h] EXCEPT !.proj = p.id], "session")
       IN \/ Then(ListProjects(task[h].org)) /\ UNCHANGED faults
          \/ /\ driver # "memory" /\ faults < MaxFaults
             /\ faults' = faults + 1
             /\ Then({})
    /\ UNCHANGED <<db, next, hist>>

-----------------------------------------------------------------------------
\* A workspace of one's own: an organization, its owner and a project.  Every
\* error is ignored; without an organization the next two calls name one that
\* does not exist.
Dangling(uid) == 1000 + uid

ProvisionOrg(h) ==
    /\ Continue(h, "org")
    /\ \E x \in Suffixes :
         LET t == task[h]
             Then(o) ==
               /\ db' = o.db
               /\ Goto(h, [t EXCEPT !.org = IF o.ok THEN next ELSE Dangling(t.uid)], "owner")
               /\ hist' = IF o.ok THEN hist
                          ELSE [hist EXCEPT !.lost = @ \cup {t.uid}]
         IN Call(CreateOrganization(NewOrganization(next, <<t.name, x>>)), Then)
    /\ next' = next + 1

\* Mutant: the new user is not made a member of the organization.
ProvisionNobody(h) ==
    /\ Continue(h, "owner")
    /\ Goto(h, task[h], "project")
    /\ UNCHANGED <<db, next, faults, hist>>

ProvisionOwner(h) ==
    /\ Continue(h, "owner")
    /\ LET Then(o) == db' = o.db /\ Goto(h, task[h], "project")
       IN Call(CreateOrgMember(Member(next, task[h].org, task[h].uid, "owner")), Then)
    /\ next' = next + 1
    /\ UNCHANGED hist

ProvisionProject(h) ==
    /\ Continue(h, "project")
    /\ LET Then(o) ==
             /\ db' = o.db
             /\ Goto(h, [task[h] EXCEPT !.proj = IF o.ok THEN next ELSE None], "session")
       IN Call(CreateProject(NewProject(next, task[h].org, <<"prod", 0>>)), Then)
    /\ next' = next + 1
    /\ UNCHANGED hist

-----------------------------------------------------------------------------
\* The project a sign-in sends the browser to.  handleLogin looks for an
\* organization of the user that has one; completeOAuthLogin looks at the
\* first organization only, and falls back on the default project; the OIDC
\* callback looks at the organization that was signed in to.
Landing(t) ==
    LET orgs == ListUserOrganizations(t.uid)
        ids(o) == { p.id : p \in ListProjects(o) }
        all == UNION { ids(o.id) : o \in orgs }
    IN CASE t.proj # None -> {t.proj}
         [] t.proj = None /\ t.back = "oauth" ->
              IF orgs = {} THEN {DefaultProjectID}
              ELSE UNION { IF ids(o.id) = {} THEN {DefaultProjectID} ELSE ids(o.id)
                           : o \in orgs }
         [] t.proj = None /\ t.back = "oidc" ->
              IF ids(t.org) = {} THEN {None} ELSE ids(t.org)
         [] t.proj = None /\ t.back = "login" ->
              IF all # {} THEN all
              ELSE IF orgs = {} /\ IsAdmin(db, t.uid) THEN {DefaultProjectID}
              ELSE {None}
         [] OTHER -> {None}

OpenSession(h) ==
    /\ Continue(h, "session")
    /\ \E p \in Landing(task[h]) :
         LET t == task[h]
             Then(o) ==
               /\ db' = o.db /\ Done(h)
               /\ hist' = IF ~o.ok \/ p = None THEN hist
                          ELSE [hist EXCEPT !.active = SetFor(@, t.uid, p)]
         IN Call(CreateSession(Session(next, t.uid, t.pw)), Then)
    /\ next' = next + 1

\* handleLogin, up to the session.
Login(h) ==
    /\ Arrive(h, "login")
    /\ \E e \in Emails :
         LET Then(o) ==
               /\ db' = o.db
               /\ IF ~o.ok THEN UNCHANGED task
                  ELSE Goto(h, [Idle EXCEPT !.back = "login", !.uid = o.val.id,
                                            !.pw = o.val.pw], "session")
         IN Call(GetUserByEmail(e), Then)
    /\ UNCHANGED <<next, hist>>

Logout(h) ==
    /\ Arrive(h, "logout")
    /\ \E s \in db.sessions :
         LET Then(o) == db' = o.db
         IN /\ Call(DeleteSession(s.token), Then)
            /\ hist' = [hist EXCEPT !.active = { p \in @ : p[1] # s.user }]
    /\ UNCHANGED <<task, next>>

\* completeOAuthLogin: a known user without a picture gets the provider's, by
\* writing back the whole row that was read.
OAuth(h) ==
    /\ Arrive(h, "oauth")
    /\ \E e \in Emails, n \in Names :
         LET Then(o) ==
               /\ db' = o.db
               /\ IF ~o.ok
                  THEN Goto(h, [Idle EXCEPT !.back = "oauth", !.email = e,
                                            !.name = n, !.avatar = 1], "create")
                  ELSE Goto(h, [Idle EXCEPT !.back = "oauth", !.uid = o.val.id,
                                            !.pw = o.val.pw, !.name = o.val.name],
                            IF o.val.avatar = None THEN "picture" ELSE "session")
         IN Call(GetUserByEmail(e), Then)
    /\ UNCHANGED <<next, hist>>

\* Mutant: the picture is written without the rest of the row.
OAuthPictureOnly(h) ==
    /\ Continue(h, "picture")
    /\ LET Then(o) == db' = o.db /\ Goto(h, task[h], "session")
       IN Call(UpdateUser([id |-> task[h].uid, name |-> NoText, avatar |-> 1]), Then)
    /\ UNCHANGED <<next, hist>>

OAuthPicture(h) ==
    /\ Continue(h, "picture")
    /\ LET t == task[h]
           Then(o) == db' = o.db /\ Goto(h, t, "session")
       IN Call(UpdateUser([id |-> t.uid, name |-> t.name, avatar |-> 1]), Then)
    /\ UNCHANGED <<next, hist>>

-----------------------------------------------------------------------------
\* handleChangePassword reads the account again and compares the password,
ChangeRead(h) ==
    /\ Continue(h, "change")
    /\ LET Then(o) ==
             /\ db' = o.db
             /\ IF o.ok /\ o.val.pw = task[h].pw
                THEN Goto(h, task[h], "changeWrite") ELSE Done(h)
       IN Call(GetUserByID(task[h].uid), Then)
    /\ UNCHANGED <<next, hist>>

\* Mutant: the sessions are not touched.
ChangeOnly(h) ==
    /\ Continue(h, "changeWrite")
    /\ LET Then(o) == db' = o.db /\ Done(h)
       IN Call(UpdateUserPassword(task[h].uid, next), Then)
    /\ next' = next + 1
    /\ UNCHANGED hist

\* writes the new one,
ChangeWrite(h) ==
    /\ Continue(h, "changeWrite")
    /\ LET Then(o) ==
             db' = o.db /\ IF o.ok THEN Goto(h, task[h], "changeEnd") ELSE Done(h)
       IN Call(UpdateUserPassword(task[h].uid, next), Then)
    /\ next' = next + 1
    /\ UNCHANGED hist

\* and deletes the user's sessions; whether that worked is not looked at.
ChangeEnd(h) ==
    /\ Continue(h, "changeEnd")
    /\ LET Then(o) == db' = o.db /\ Done(h)
       IN Call(DeleteUserSessions(task[h].uid), Then)
    /\ UNCHANGED <<next, hist>>

\* handleForgotPassword
Forgot(h) ==
    /\ Arrive(h, "forgot")
    /\ \E e \in Emails :
         LET Then(o) ==
               /\ db' = o.db
               /\ IF o.ok THEN Goto(h, [Idle EXCEPT !.email = e], "forgot")
                  ELSE UNCHANGED task
         IN Call(GetUserByEmail(e), Then)
    /\ UNCHANGED <<next, hist>>

ForgotWrite(h) ==
    /\ Continue(h, "forgot")
    /\ LET Then(o) == db' = o.db /\ Done(h)
       IN Call(CreatePasswordResetToken(task[h].email, next), Then)
    /\ next' = next + 1
    /\ UNCHANGED hist

\* handleResetPassword: one call, which PostgreSQL carries out in a read and
\* a transaction.
Reset(h) ==
    /\ Arrive(h, "reset")
    /\ \E t \in db.resets :
         LET Then(o) ==
               /\ db' = o.db
               /\ hist' = IF o.ok THEN [hist EXCEPT !.resets = @ \cup {<<t.token, next>>}]
                          ELSE hist
             Check(o) ==
               /\ db' = o.db /\ UNCHANGED hist
               /\ IF o.ok THEN Goto(h, [Idle EXCEPT !.token = t.token, !.email = t.email],
                                    "resetWrite")
                  ELSE UNCHANGED task
         IN \/ /\ driver = "memory"
               /\ Then(MemResetPasswordWithToken(db, t.token, next))
               /\ UNCHANGED <<task, faults>>
            \/ /\ driver = "sqlite"
               /\ CallOr(LiteResetPasswordWithToken(db, t.token, next),
                         {Err(db), LiteResetPasswordCut(db, t.token, next)}, Then)
               /\ UNCHANGED task
            \/ driver = "postgres" /\ Call(PgResetCheck(db, t.token), Check)
    /\ next' = next + 1

ResetWrite(h) ==
    /\ Continue(h, "resetWrite")
    /\ LET t == task[h]
           Then(o) ==
             /\ db' = o.db /\ Done(h)
             /\ hist' = IF o.ok THEN [hist EXCEPT !.resets = @ \cup {<<t.token, next>>}]
                        ELSE hist
       IN Call(PgResetCommit(db, t, next), Then)
    /\ next' = next + 1

\* handleUpdateProfile: a new name, with or without a picture.
ProfileWrite(h) ==
    /\ Continue(h, "profile")
    /\ \E a \in {None, 1} :
         LET Then(o) ==
               /\ db' = o.db /\ Done(h)
               /\ hist' = IF o.ok THEN [hist EXCEPT !.renamed = SetFor(@, task[h].uid, "new")]
                          ELSE hist
         IN Call(UpdateUser([id |-> task[h].uid, name |-> "new", avatar |-> a]), Then)
    /\ UNCHANGED next

-----------------------------------------------------------------------------
AccountRequests(h) ==
    \/ SignUp(h) \/ Login(h) \/ Logout(h) \/ OAuth(h) \/ Forgot(h) \/ Reset(h)
    \/ Authenticated(h, "change", "change")
    \/ Authenticated(h, "profile", "profile")

AccountSteps(h) ==
    \/ CreateAccount(h) \/ ProvisionOrg(h) \/ ProvisionOwner(h) \/ ProvisionProject(h)
    \/ SignUpJoin(h) \/ Accept(h) \/ AcceptMark(h) \/ AcceptMember(h) \/ SignUpAdopt(h)
    \/ OpenSession(h) \/ OAuthPicture(h) \/ ChangeRead(h) \/ ChangeWrite(h)
    \/ ChangeEnd(h) \/ ForgotWrite(h) \/ ResetWrite(h) \/ ProfileWrite(h)

-----------------------------------------------------------------------------
\* No two accounts have the same address, however the look-ups of sign-ups
\* and provider sign-ins interleave with their inserts.
UniqueEmails ==
    \A u, v \in db.users : u.email = v.email => u = v

\* A reset token changes one password once.  PostgreSQL checks the token
\* before the transaction that spends it, so there it takes requests that do
\* not overlap; SQLite ignores a failure to mark the token.
ResetTokenSpentOnce ==
    (driver = "sqlite" => faults = 0) /\ (driver = "postgres" => serial) =>
        \A x, y \in hist.resets : x[1] = y[1] => x = y

\* With requests one after another and no failures, a session is always one
\* that was opened under its user's present password: changing or resetting
\* a password signs the user out everywhere.  ResetPasswordWithToken of the
\* SQLite store does not touch the sessions, so a reset is excepted there.
SessionsFollowPassword ==
    serial /\ faults = 0 /\ (\A h \in Handlers : task[h] = Idle)
        /\ (driver = "sqlite" => hist.resets = {}) =>
        \A s \in db.sessions, u \in db.users : s.user = u.id => s.pw = u.pw

\* The name a user chose stays until the user chooses another, when requests
\* do not overlap: a provider sign-in writes the row back as it found it.
ChosenNameStays ==
    serial => \A p \in hist.renamed, u \in db.users : u.id = p[1] => u.name = p[2]
=============================================================================
