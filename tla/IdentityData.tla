---------------------------- MODULE IdentityData ----------------------------
(***************************************************************************)
(* The rows behind accounts and tenants (pkg/domain: User, Session, APIKey,*)
(* PasswordResetToken, Organization, OrgMember, OrgInvitation, Project,    *)
(* OIDCConfig) and how an operation of a store reads and writes them.      *)
(*                                                                         *)
(* A database is a record of tables, a table a set of rows.  Generated IDs *)
(* and tokens are numbers drawn from one counter, so they never collide; a *)
(* password hash and a client secret are such numbers too.  A slug is the  *)
(* name it was made from with the suffix that is to make it unique;        *)
(* requests name organizations and projects by their IDs, and look-ups by  *)
(* slug are left out.                                                      *)
(***************************************************************************)
EXTENDS Naturals, FiniteSets

None == 0
NoText == ""
DefaultOrgID == 1
DefaultProjectID == 2
DefaultSlug == <<"default", 0>>

RoleAdmin == "admin"
RoleDeveloper == "developer"

EmptyDB ==
    [users |-> {}, sessions |-> {}, resets |-> {}, orgs |-> {}, members |-> {},
     invites |-> {}, projects |-> {}, keys |-> {}, oidc |-> {}]

\* Constructors: NewUser, NewOrganization, NewProject and the literals the
\* handlers write.
NewUser(id, email, pw, name, avatar) ==
    [id |-> id, email |-> email, pw |-> pw, name |-> name, avatar |-> avatar,
     role |-> RoleDeveloper]
NewOrganization(id, slug) == [id |-> id, slug |-> slug]
NewProject(id, org, slug) == [id |-> id, org |-> org, slug |-> slug]

\* Times are kept as how they compare with now: age is "fresh", "old" (a
\* session with less than 48 hours left) or "expired".  A session remembers
\* the password its user had when it was opened, which the code does not.
Session(token, user, pw) ==
    [token |-> token, user |-> user, pw |-> pw, age |-> "fresh"]
ResetToken(token, email) ==
    [token |-> token, email |-> email, used |-> FALSE, age |-> "fresh"]
Invitation(token, org, email, role) ==
    [token |-> token, org |-> org, email |-> email, role |-> role,
     accepted |-> FALSE, age |-> "fresh"]
IsExpired(row) == row.age = "expired"
IsAccepted(inv) == inv.accepted

\* cur marks the membership the key "org:user" leads to.
Member(id, org, user, role) ==
    [id |-> id, org |-> org, user |-> user, role |-> role, cur |-> TRUE]

\* indexed: the in-memory hash index has an entry for this key's hash.
APIKey(id, hash, project, role, by) ==
    [id |-> id, hash |-> hash, project |-> project, role |-> role, by |-> by,
     revoked |-> FALSE, indexed |-> TRUE]

\* An empty list of allowed domains permits every address.
OIDCConfig(org, secret, role, allowed, enabled) ==
    [org |-> org, secret |-> secret, role |-> role, allowed |-> allowed,
     enabled |-> enabled]
IsDomainAllowed(cfg, domain) == cfg.allowed = {} \/ domain \in cfg.allowed

\* An invitation without an address is open to everyone.
IssuedFor(inv, email) == inv.email \in {NoText, email}

-----------------------------------------------------------------------------
\* What a store operation returns, and the database it leaves behind.
Ok(d, v) == [ok |-> TRUE, db |-> d, val |-> v]
Err(d) == [ok |-> FALSE, db |-> d, val |-> None]

Some(S) == CHOOSE x \in S : TRUE
First(d, S) == IF S = {} THEN Err(d) ELSE Ok(d, Some(S))
Insert(d, t, row, clash) ==
    IF clash THEN Err(d) ELSE Ok([d EXCEPT ![t] = @ \cup {row}], row)
Update(d, t, old, new) == [d EXCEPT ![t] = (@ \ {old}) \cup {new}]
Delete(d, t, S) == [d EXCEPT ![t] = @ \ S]

UsersByEmail(d, email) == { u \in d.users : u.email = email }
UsersByID(d, id) == { u \in d.users : u.id = id }
SessionsOf(d, user) == { s \in d.sessions : s.user = user }
MembersOf(d, org, user) ==
    { m \in d.members : m.org = org /\ m.user = user /\ m.cur }
OrgsOf(d, user) ==
    { o \in d.orgs : \E m \in d.members : m.org = o.id /\ m.user = user }
IsAdmin(d, user) == \E u \in UsersByID(d, user) : u.role = RoleAdmin

\* The rows whose foreign key points at nothing.
NoSuchOrg(d, org) == ~ \E o \in d.orgs : o.id = org
NoSuchUser(d, user) == UsersByID(d, user) = {}
=============================================================================
