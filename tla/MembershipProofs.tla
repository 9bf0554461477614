-------------------------- MODULE MembershipProofs --------------------------
(***************************************************************************)
(* Proofs about Tenancy: invitations and memberships.  They hold for every *)
(* set of handlers, requests, addresses, names and drivers, and however    *)
(* many calls fail, requests overlap, or rows expire.                      *)
(*                                                                         *)
(* MembershipInv has a part for each story: an invitation that has made a  *)
(* member is marked (InvitesInv), one that is marked has made a member     *)
(* unless a call failed (JoinsInv), and, while requests do not overlap, a  *)
(* sign-in writes a membership that was not there (MembersInv).  With Core *)
(* it is inductive.                                                        *)
(***************************************************************************)
EXTENDS TenancySteps

\* Every leaf is first-order and left to Zenon, unless it cites SMT (arithmetic
\* and records) or PTL (temporal steps).
USE ZenonT(60) DEF None, Ok, Err

-----------------------------------------------------------------------------
(* The inductive invariants.                                               *)

MemberFields == {"id", "org", "user", "role", "cur"}

\* Invitations: one that has made a member is marked, and so is one whose
\* member is being written.
InvitesInv ==
    /\ \A i \in db.invites : Has(i, InviteFields) /\ i.token \in Nat /\ i.token < next
    /\ \A i, j \in db.invites : i.token = j.token => i = j
    /\ \A x \in hist.joined : x = <<x[1], x[2]>> /\ \E i \in db.invites : i.token = x[1]
    /\ \A h \in Handlers : task[h].pc \in {"acceptMark", "acceptMember"} =>
         driver = "postgres" /\ \E i \in db.invites : i.token = task[h].token
    /\ ResetTrusted =>
         /\ \A x \in hist.joined : \A i \in db.invites : i.token = x[1] => i.accepted
         /\ \A x, y \in hist.joined : x[1] = y[1] => x = y
         /\ \A h \in Handlers : task[h].pc \in {"acceptMark", "acceptMember"} =>
              \A x \in hist.joined : x[1] # task[h].token
         /\ \A h \in Handlers : task[h].pc = "acceptMember" =>
              \A i \in db.invites : i.token = task[h].token => i.accepted

\* A marked invitation has made a member, or is about to.
IsOrg(o) == \E r \in db.orgs : r.id = o
JoinsInv ==
    /\ driver # "memory" => \A i \in db.invites : IsOrg(i.org)
    /\ \A h \in Handlers : task[h].pc \in {"acceptMark", "acceptMember"} => IsOrg(task[h].org)
    /\ faults = 0 => \A i \in db.invites : i.accepted =>
         \/ \E x \in hist.joined : x[1] = i.token
         \/ \E h \in Handlers : task[h].pc = "acceptMember" /\ task[h].token = i.token

\* A sign-in about to write a membership has found none.
MembersInv ==
    /\ \A m \in db.members : Has(m, MemberFields) /\ m.id \in Nat /\ m.id < next
    /\ serial /\ faults = 0 => \A h \in Handlers : task[h].pc = "ssoJoin" =>
         MembersOf(db, task[h].org, task[h].uid) = {}

-----------------------------------------------------------------------------
(* Invitations.                                                            *)

\* A membership is written, to the database d: invitations stay as they are.
\* The SQL stores need the organization and the user.
LEMMA MemberInvites ==
    ASSUME NEW d, Has(d, Tables), NEW m
    PROVE  /\ MemCreateOrgMember(d, m).ok
           /\ MemCreateOrgMember(d, m).db.invites = d.invites
           /\ LiteCreateOrgMember(d, m).db.invites = d.invites
           /\ PgCreateOrgMember(d, m).db.invites = d.invites
           /\ LiteCreateOrgMember(d, m).ok \in BOOLEAN
           /\ PgCreateOrgMember(d, m).ok \in BOOLEAN
           /\ (\E o \in d.orgs : o.id = m.org) /\ (\E u \in d.users : u.id = m.user) =>
                LiteCreateOrgMember(d, m).ok /\ PgCreateOrgMember(d, m).ok
<1>1. /\ MemCreateOrgMember(d, m).ok /\ MemCreateOrgMember(d, m).db.invites = d.invites
  BY DEF MemCreateOrgMember, Insert, Delete, Has, Tables
<1>2. /\ LiteCreateOrgMember(d, m).db.invites = d.invites
      /\ LiteCreateOrgMember(d, m).ok \in BOOLEAN
  BY DEF LiteCreateOrgMember, Insert, Update, Has, Tables
<1>3. /\ PgCreateOrgMember(d, m).db.invites = d.invites
      /\ PgCreateOrgMember(d, m).ok \in BOOLEAN
  BY DEF PgCreateOrgMember, Insert, Update, Has, Tables
<1>4. ASSUME \E o \in d.orgs : o.id = m.org, \E u \in d.users : u.id = m.user
      PROVE  LiteCreateOrgMember(d, m).ok /\ PgCreateOrgMember(d, m).ok
  BY <1>4 DEF LiteCreateOrgMember, Insert, NoSuchOrg, NoSuchUser, UsersByID, PgCreateOrgMember
<1> QED BY <1>1, <1>2, <1>3, <1>4

\* i is the unspent invitation that goes by the token k.
Unspent(i, k) == i \in db.invites /\ i.token = k /\ ~i.accepted

\* The invitation that a look-up by token finds is marked.
InviteMarked(d, k) ==
    /\ Marked(db.invites, d.invites, k, InviteFields, "accepted")
    /\ d.orgs = db.orgs /\ d.users = db.users /\ Has(d, Tables)

LEMMA InviteUpdate ==
    ASSUME Base, Tokens(db.invites, InviteFields), NEW i \in db.invites
    PROVE  LET new == [i EXCEPT !.accepted = TRUE]
           IN  /\ InviteMarked(Update(db, "invites", i, new), i.token)
<1> DEFINE new == [i EXCEPT !.accepted = TRUE]
           R == (db.invites \ {i}) \cup {new}
<1>1. Has(i, InviteFields)
  BY DEF Tokens
<1>2. /\ Has(new, InviteFields) /\ new["accepted"] = TRUE
      /\ \A f \in InviteFields \ {"accepted"} : new[f] = i[f]
  BY <1>1 DEF Has, InviteFields
<1>3. "token" \in InviteFields /\ "accepted" # "token"
  BY DEF InviteFields
<1> HIDE DEF new
<1>4. Marked(db.invites, R, i.token, InviteFields, "accepted")
  BY <1>2, <1>3, MarkedUpdate
<1>5. ASSUME NEW d, d = Update(db, "invites", i, new) \/ d = Update(db, "invites", i, new)
      PROVE  d.invites = R /\ d.orgs = db.orgs /\ d.users = db.users /\ Has(d, Tables)
  BY <1>5 DEF Update, Base, Has, Tables
<1> HIDE DEF R
<1>6. /\ InviteMarked(Update(db, "invites", i, new), i.token)
  BY <1>4, <1>5 DEF InviteMarked
<1> QED BY <1>6 DEF new

\* What AcceptOrgInvitation of the in-memory store and of SQLite may come to,
\* for the token k and the user u: nothing; the invitation is marked and a
\* member made, unless the database refuses; or a statement fails.
AcceptedOn(o, k, u, fails) ==
    \/ ~o.ok /\ o.db = db
    \/ \E i : /\ Unspent(i, k)
              /\ \/ /\ Marked(db.invites, o.db.invites, k, InviteFields, "accepted")
                    /\ o.ok \/ fails \/ (driver = "sqlite" /\ (~IsOrg(i.org) \/ ~IsUser(u)))
                 \/ o.db.invites = db.invites /\ fails

LEMMA AcceptOfMemory ==
    ASSUME Base, Tokens(db.invites, InviteFields), NEW k, NEW u, NEW n
    PROVE  AcceptedOn(MemAcceptOrgInvitation(db, k, u, n), k, u, FALSE)
<1> DEFINE o == MemAcceptOrgInvitation(db, k, u, n)
           g == MemGetOrgInvitation(db, k)
           i == g.val
           d == Update(db, "invites", i, [i EXCEPT !.accepted = TRUE])
           m == Member(n, i.org, u, i.role)
<1>1. g.ok => i \in db.invites /\ i.token = k
  BY SomeIn DEF MemGetOrgInvitation, First
<1>2. o = Err(db) \/ (g.ok /\ ~i.accepted /\ o = MemCreateOrgMember(d, m))
  BY DEF MemAcceptOrgInvitation, IsAccepted
<1> HIDE DEF g
<1>3. ASSUME g.ok
      PROVE  InviteMarked(d, k)
  BY <1>1, <1>3, InviteUpdate
<1> HIDE DEF o, i, d, m
<1>4. ASSUME g.ok, ~i.accepted, o = MemCreateOrgMember(d, m)
      PROVE  Unspent(i, k) /\ o.ok /\ Marked(db.invites, o.db.invites, k, InviteFields, "accepted")
  BY <1>1, <1>3, <1>4, MemberInvites DEF Unspent, InviteMarked
<1>5. AcceptedOn(o, k, u, FALSE)
  BY SMT, <1>2, <1>4 DEF AcceptedOn
<1> QED BY <1>5 DEF o

LEMMA AcceptOfSQLite ==
    ASSUME Base, Tokens(db.invites, InviteFields), NEW k, NEW u, NEW n, driver = "sqlite"
    PROVE  /\ AcceptedOn(LiteAcceptOrgInvitation(db, k, u, n), k, u, FALSE)
           /\ \A o \in LiteAcceptCuts(db, k, u, n) : AcceptedOn(o, k, u, TRUE)
<1> DEFINE o == LiteAcceptOrgInvitation(db, k, u, n)
           g == LiteGetOrgInvitation(db, k)
           i == g.val
           d == Update(db, "invites", i, [i EXCEPT !.accepted = TRUE])
           m == Member(n, i.org, u, i.role)
<1>1. g.ok => i \in db.invites /\ i.token = k
  BY SomeIn DEF LiteGetOrgInvitation, First
<1>2. o = Err(db) \/ (g.ok /\ ~i.accepted /\ o = LiteCreateOrgMember(d, m))
  BY DEF LiteAcceptOrgInvitation, LiteAcceptable, IsAccepted
<1>3. ASSUME NEW x \in LiteAcceptCuts(db, k, u, n)
      PROVE  \/ x = Err(db)
             \/ g.ok /\ ~i.accepted /\ (x = LiteCreateOrgMember(db, m) \/ x = Err(d))
  BY DEF LiteAcceptCuts, LiteAcceptable, IsAccepted
<1> HIDE DEF g
<1>4. ASSUME g.ok
      PROVE  InviteMarked(d, k)
  BY <1>1, <1>4, InviteUpdate
<1>5. m.org = i.org /\ m.user = u
  BY DEF Member
<1> HIDE DEF o, i, d, m
<1>6. ASSUME g.ok, ~i.accepted, o = LiteCreateOrgMember(d, m)
      PROVE  AcceptedOn(o, k, u, FALSE)
  <2>1. Unspent(i, k)
    BY <1>1, <1>6 DEF Unspent
  <2>2. Marked(db.invites, o.db.invites, k, InviteFields, "accepted")
    BY <1>4, <1>6, MemberInvites DEF InviteMarked
  <2>3. IsOrg(i.org) /\ IsUser(u) => o.ok
    <3>1. d.orgs = db.orgs /\ d.users = db.users /\ Has(d, Tables)
      BY <1>4, <1>6 DEF InviteMarked
    <3>2. (\E r \in d.orgs : r.id = m.org) /\ (\E v \in d.users : v.id = m.user) => o.ok
      BY <1>6, <3>1, MemberInvites
    <3> QED BY <1>5, <3>1, <3>2 DEF IsOrg, IsUser
  <2> QED BY <2>1, <2>2, <2>3 DEF AcceptedOn
<1>7. ASSUME NEW x \in LiteAcceptCuts(db, k, u, n)
      PROVE  AcceptedOn(x, k, u, TRUE)
  <2>1. CASE x = Err(db)
    BY <2>1 DEF AcceptedOn
  <2>2. CASE g.ok /\ ~i.accepted /\ x = LiteCreateOrgMember(db, m)
    BY <1>1, <2>2, MemberInvites DEF AcceptedOn, Unspent, Base
  <2>3. CASE g.ok /\ ~i.accepted /\ x = Err(d)
    BY <1>1, <1>4, <2>3 DEF AcceptedOn, Unspent, InviteMarked
  <2> QED BY <1>3, <1>7, <2>1, <2>2, <2>3
<1>8. AcceptedOn(o, k, u, FALSE)
  BY SMT, <1>2, <1>6 DEF AcceptedOn
<1> QED BY <1>7, <1>8 DEF o

AcceptLabels == {"acceptMark", "acceptMember"}

\* What Accept may come to, for the tables and histories of invitations.
AcceptIdle(h) ==
    /\ db'.invites = db.invites /\ hist'.joined = hist.joined
    /\ task'[h].pc \notin AcceptLabels
AcceptGoesOn(h) ==
    /\ driver = "postgres" /\ db'.invites = db.invites /\ hist'.joined = hist.joined
    /\ task'[h].pc = "acceptMark" /\ task'[h].token = task[h].token
    /\ \E i : Unspent(i, task[h].token) /\ task'[h].org = i.org
AcceptDone(h, i) ==
    LET J == hist.joined \cup {<<task[h].token, task[h].uid>>} IN
    /\ driver # "postgres" /\ task'[h].pc \notin AcceptLabels
    /\ Unspent(i, task[h].token)
    /\ hist'.joined \in {hist.joined, J}
    /\ \/ /\ Marked(db.invites, db'.invites, task[h].token, InviteFields, "accepted")
          /\ \/ hist'.joined = J
             \/ faults' = faults + 1
             \/ driver = "sqlite" /\ (~IsOrg(i.org) \/ ~IsUser(task[h].uid))
       \/ driver = "sqlite" /\ faults' = faults + 1 /\ db'.invites = db.invites

LEMMA AcceptEffect ==
    ASSUME Base, Tokens(db.invites, InviteFields), NEW h \in Handlers, Accept(h)
    PROVE  AcceptIdle(h) \/ AcceptGoesOn(h) \/ \E i : AcceptDone(h, i)
<1>1. Continue(h, "accept") /\ next' = next + 1
  BY DEF Accept
<1>2. CASE Checked(h)
  <2> DEFINE c == PgAcceptCheck(db, task[h].token, task[h].uid)
  <2>1. c.ok => Unspent(c.val, task[h].token)
    BY SomeIn DEF PgAcceptCheck, PgGetOrgInvitation, First, IsAccepted, Unspent
  <2> HIDE DEF c
  <2>2. /\ driver = "postgres" /\ db' = db /\ hist' = hist /\ c.ok
        /\ Goto(h, [task[h] EXCEPT !.org = c.val.org, !.role = c.val.role], "acceptMark")
    BY <1>2 DEF Checked, c
  <2> DEFINE t == [task[h] EXCEPT !.org = c.val.org, !.role = c.val.role]
  <2>3. Has(t, Fields) /\ t.org = c.val.org /\ t.token = task[h].token
    BY DEF Base, Has, Fields
  <2>4. Goto(h, t, "acceptMark")
    BY <2>2
  <2> HIDE DEF t
  <2>5. task'[h].pc = "acceptMark" /\ task'[h].org = t.org /\ task'[h].token = t.token
    BY SMT, <2>3, <2>4, GotoShape DEF Fields
  <2>6. AcceptGoesOn(h)
    BY <2>1, <2>2, <2>3, <2>5 DEF AcceptGoesOn
  <2> QED BY <2>6
<1>3. ASSUME NEW o, Decided(h, o), Accepted(h, o)
      PROVE  AcceptIdle(h) \/ \E i : AcceptDone(h, i)
  <2> DEFINE k == task[h].token
             u == task[h].uid
  <2>1. faults' \in {faults, faults + 1} /\ Only(o.db, {"invites", "members"})
    BY <1>3, AcceptWrites, OnlySame DEF Base, Decided
  <2>2. /\ Moves(h, {"joined", "cookie"})
        /\ hist'.joined = IF o.ok THEN hist.joined \cup {<<k, u>>} ELSE hist.joined
    BY <1>1, <1>3, <2>1, AcceptedTurn
  <2>3. task'[h].pc \notin AcceptLabels
    BY <2>2, IdleShape DEF Moves, AcceptLabels
  <2>4. db' = o.db
    BY <1>3 DEF Accepted
  <2>5. \/ ~o.ok /\ o.db = db
        \/ /\ driver # "postgres" /\ AcceptedOn(o, k, u, FALSE)
        \/ /\ driver = "sqlite" /\ faults' = faults + 1 /\ AcceptedOn(o, k, u, TRUE)
    BY <1>3, AcceptOfMemory, AcceptOfSQLite DEF Decided
  <2>6. CASE ~o.ok /\ o.db = db
    BY <2>2, <2>3, <2>4, <2>6 DEF AcceptIdle
  <2>7. ASSUME NEW i, Unspent(i, k), driver # "postgres",
               Marked(db.invites, o.db.invites, k, InviteFields, "accepted"),
               \/ o.ok \/ faults' = faults + 1
               \/ driver = "sqlite" /\ (~IsOrg(i.org) \/ ~IsUser(u))
        PROVE  AcceptDone(h, i)
    BY <2>2, <2>3, <2>4, <2>7 DEF AcceptDone
  <2>8. ASSUME NEW i, Unspent(i, k), driver = "sqlite", faults' = faults + 1,
               o.db.invites = db.invites
        PROVE  AcceptDone(h, i)
    BY <2>2, <2>3, <2>4, <2>8 DEF AcceptDone
  <2> QED BY <2>5, <2>6, <2>7, <2>8 DEF AcceptedOn
<1> QED BY <1>2, <1>3, AcceptOutcome

LEMMA AcceptMarkEffect ==
    ASSUME Base, Tokens(db.invites, InviteFields), NEW h \in Handlers, AcceptMark(h),
           \E i \in db.invites : i.token = task[h].token
    PROVE  \/ AcceptIdle(h) /\ faults' = faults + 1
           \/ /\ hist'.joined = hist.joined /\ task'[h].pc = "acceptMember"
              /\ task'[h].token = task[h].token /\ task'[h].org = task[h].org
              /\ Marked(db.invites, db'.invites, task[h].token, InviteFields, "accepted")
<1> DEFINE k == task[h].token
           R == { IF i.token = k THEN [i EXCEPT !.accepted = TRUE] ELSE i : i \in db.invites }
<1>1. PgAcceptMark(db, k).db.invites = R
  BY DEF PgAcceptMark, Base, Has, Tables
<1>2. "token" \in InviteFields /\ "accepted" # "token"
  BY DEF InviteFields
<1>3. ASSUME NEW i \in db.invites
      PROVE  LET n == [i EXCEPT !.accepted = TRUE]
             IN  /\ Has(n, InviteFields) /\ n["accepted"] = TRUE /\ n.token = i.token
                 /\ \A f \in InviteFields \ {"accepted"} : n[f] = i[f]
  <2>1. Has(i, InviteFields)
    BY DEF Tokens
  <2> QED BY <2>1 DEF Has, InviteFields
<1>4. \A r \in R : \E i \in db.invites :
        IF i.token = k
        THEN Has(r, InviteFields) /\ r["accepted"] = TRUE
             /\ \A f \in InviteFields \ {"accepted"} : r[f] = i[f]
        ELSE r = i
  <2> SUFFICES ASSUME NEW i \in db.invites,
                      NEW r, r = IF i.token = k THEN [i EXCEPT !.accepted = TRUE] ELSE i
               PROVE  IF i.token = k
                      THEN Has(r, InviteFields) /\ r["accepted"] = TRUE
                           /\ \A f \in InviteFields \ {"accepted"} : r[f] = i[f]
                      ELSE r = i
    OBVIOUS
  <2> QED BY <1>3
<1>5. \A i \in db.invites : \E r \in R : IF i.token = k THEN r.token = k ELSE r = i
  <2> SUFFICES ASSUME NEW i \in db.invites
               PROVE  \E r \in R : IF i.token = k THEN r.token = k ELSE r = i
    OBVIOUS
  <2> DEFINE n == [i EXCEPT !.accepted = TRUE]
             w == IF i.token = k THEN n ELSE i
  <2>1. w \in R
    OBVIOUS
  <2>2. n.token = i.token
    BY <1>3
  <2> HIDE DEF n, R
  <2> QED BY <2>1, <2>2
<1> HIDE DEF R
<1>6. Marked(db.invites, R, k, InviteFields, "accepted")
  BY <1>2, <1>4, <1>5, MarkedMap
<1>7. \/ /\ faults' = faults /\ db' = PgAcceptMark(db, task[h].token).db
         /\ task'[h].pc = "acceptMember" /\ task'[h].token = task[h].token
         /\ task'[h].org = task[h].org
      \/ faults' = faults + 1 /\ db' = db /\ task'[h].pc # "acceptMember"
  BY AcceptMarkTurn
<1>8. hist'.joined = hist.joined /\ Moves(h, {"joined", "cookie", "acceptMember"})
  BY AcceptMarkTurn
<1>9. task'[h].pc # "acceptMark"
  BY <1>8, IdleShape DEF Moves
<1> QED BY <1>1, <1>6, <1>7, <1>8, <1>9 DEF AcceptIdle, AcceptLabels

LEMMA InviteWrites ==
    ASSUME Base, NEW h \in Handlers, Invite(h)
    PROVE  /\ next' = next + 1 /\ hist' = hist /\ task'[h] = Idle
           /\ \/ db'.invites = db.invites
              \/ \E i : /\ Has(i, InviteFields) /\ i.token = next /\ i.accepted = FALSE
                        /\ driver # "memory" => IsOrg(i.org)
                        /\ db'.invites = db.invites \cup {i}
<1>1. next' = next + 1 /\ hist' = hist /\ task'[h] = Idle
  BY InviteTurn DEF Invite, Moves
<1>2. db' = db \/ \E o, e, r : db' = CreateOrgInvitation(Invitation(next, o, e, r)).db
  BY SMT DEF Invite, Call, CallOr
<1>3. ASSUME NEW org, NEW e, NEW r
      PROVE  LET i == Invitation(next, org, e, r)
                 o == CreateOrgInvitation(i)
             IN  o.db = db \/ (o.db.invites = db.invites \cup {i}
                               /\ (driver # "memory" => IsOrg(i.org)))
  <2> DEFINE i == Invitation(next, org, e, r)
             o == CreateOrgInvitation(i)
  <2>1. \/ driver = "memory" /\ o = Insert(db, "invites", i, FALSE)
        \/ driver # "memory" /\ o = Insert(db, "invites", i, NoSuchOrg(db, i.org))
    BY DEF CreateOrgInvitation, Of, MemCreateOrgInvitation, LiteCreateOrgInvitation,
           PgCreateOrgInvitation
  <2> HIDE DEF i, o
  <2>2. o.db = db \/ (o.db.invites = db.invites \cup {i} /\ (driver # "memory" => IsOrg(i.org)))
    BY SMT, <2>1 DEF Insert, NoSuchOrg, IsOrg, Base, Has, Tables
  <2> QED BY <2>2 DEF i, o
<1>4. ASSUME NEW o, NEW e, NEW r
      PROVE  LET i == Invitation(next, o, e, r)
             IN  Has(i, InviteFields) /\ i.token = next /\ i.accepted = FALSE
  BY DEF Invitation, Has, InviteFields
<1>5. ASSUME NEW o, NEW e, NEW r, db' = CreateOrgInvitation(Invitation(next, o, e, r)).db
      PROVE  \/ db'.invites = db.invites
             \/ \E i : /\ Has(i, InviteFields) /\ i.token = next /\ i.accepted = FALSE
                       /\ driver # "memory" => IsOrg(i.org)
                       /\ db'.invites = db.invites \cup {i}
  <2> DEFINE i == Invitation(next, o, e, r)
  <2>1. Has(i, InviteFields) /\ i.token = next /\ i.accepted = FALSE
    BY <1>4
  <2>2. db' = db \/ (db'.invites = db.invites \cup {i} /\ (driver # "memory" => IsOrg(i.org)))
    BY <1>3, <1>5
  <2> HIDE DEF i
  <2> QED BY <2>1, <2>2
<1> QED BY <1>1, <1>2, <1>5

\* What a step may do to invitations, and to the requests that accept one.
LEMMA InvitesEvolve ==
    ASSUME Base, InvitesInv, next' \in {next, next + 1}, driver' = driver,
           ResetTrusted' => ResetTrusted, NEW k,
           \/ Marked(db.invites, db'.invites, k, InviteFields, "accepted")
              /\ \E i \in db.invites : i.token = k
           \/ db'.invites = db.invites,
           \/ hist'.joined = hist.joined
           \/ /\ \E u : hist'.joined = hist.joined \cup {<<k, u>>}
              /\ \E i \in db.invites : i.token = k
              /\ ResetTrusted' => /\ \A x \in hist.joined : x[1] # k
                                  /\ \A i \in db'.invites : i.token = k => i.accepted
                                  /\ \A g \in Handlers : task'[g].pc \notin AcceptLabels,
           \A g \in Handlers : task'[g].pc \in AcceptLabels =>
             \/ task'[g] = task[g]
             \/ /\ driver = "postgres" /\ \E i \in db.invites : i.token = task'[g].token
                /\ ResetTrusted' => \A x \in hist.joined : x[1] # task'[g].token
                /\ ResetTrusted' /\ task'[g].pc = "acceptMember" =>
                     \A i \in db'.invites : i.token = task'[g].token => i.accepted
    PROVE  InvitesInv'
<1> DEFINE S == db.invites
           R == db'.invites
           M == Marked(S, R, k, InviteFields, "accepted")
<1>1. next \in Nat /\ next' \in Nat /\ next <= next'
  BY SMT DEF Base
<1>2. \A t \in R : Has(t, InviteFields) /\ t.token \in Nat /\ t.token < next'
  <2>1. \A t \in R : Has(t, InviteFields) /\ t.token \in Nat /\ t.token < next
    <3>1. CASE M /\ \E i \in S : i.token = k
      BY SMT, <3>1 DEF InvitesInv, Marked
    <3>2. CASE R = S
      BY <3>2 DEF InvitesInv
    <3> QED BY <3>1, <3>2
  <2> QED BY SMT, <1>1, <2>1
<1>3. \A s, t \in R : s.token = t.token => s = t
  BY DEF InvitesInv, Marked
<1>4. \A s \in S : \E r \in R : r.token = s.token
  BY DEF Marked
<1>5. \A r \in R : r.accepted \/ r \in S
  BY DEF Marked
<1>6. \A x \in hist'.joined : x = <<x[1], x[2]>> /\ \E t \in R : t.token = x[1]
  BY SMT, <1>4 DEF InvitesInv
<1>7. \A g \in Handlers : task'[g].pc \in AcceptLabels =>
         driver' = "postgres" /\ \E i \in R : i.token = task'[g].token
  BY SMT, <1>4 DEF InvitesInv, AcceptLabels
<1>8. ASSUME ResetTrusted'
      PROVE  /\ \A x \in hist'.joined : \A i \in R : i.token = x[1] => i.accepted
             /\ \A x, y \in hist'.joined : x[1] = y[1] => x = y
             /\ \A g \in Handlers : task'[g].pc \in AcceptLabels =>
                  \A x \in hist'.joined : x[1] # task'[g].token
             /\ \A g \in Handlers : task'[g].pc = "acceptMember" =>
                  \A i \in R : i.token = task'[g].token => i.accepted
  <2>1. /\ \A x \in hist.joined : \A i \in S : i.token = x[1] => i.accepted
        /\ \A x, y \in hist.joined : x[1] = y[1] => x = y
        /\ \A g \in Handlers : task[g].pc \in AcceptLabels =>
             \A x \in hist.joined : x[1] # task[g].token
        /\ \A g \in Handlers : task[g].pc = "acceptMember" =>
             \A i \in S : i.token = task[g].token => i.accepted
    BY <1>8 DEF InvitesInv, AcceptLabels
  <2>2. \A x \in hist.joined : \A i \in R : i.token = x[1] => i.accepted
    BY <1>5, <2>1
  <2>3. \A g \in Handlers : task'[g].pc = "acceptMember" =>
          \A i \in R : i.token = task'[g].token => i.accepted
    BY <1>5, <1>8, <2>1 DEF AcceptLabels
  <2>4. \A g \in Handlers : task'[g].pc \in AcceptLabels =>
          \A x \in hist.joined : x[1] # task'[g].token
    BY <1>8, <2>1
  <2>5. CASE hist'.joined = hist.joined
    BY <2>1, <2>2, <2>3, <2>4, <2>5
  <2>6. ASSUME NEW u, hist'.joined = hist.joined \cup {<<k, u>>},
               \A x \in hist.joined : x[1] # k,
               \A i \in R : i.token = k => i.accepted,
               \A g \in Handlers : task'[g].pc \notin AcceptLabels
        PROVE  /\ \A x \in hist'.joined : \A i \in R : i.token = x[1] => i.accepted
               /\ \A x, y \in hist'.joined : x[1] = y[1] => x = y
               /\ \A g \in Handlers : task'[g].pc \in AcceptLabels =>
                    \A x \in hist'.joined : x[1] # task'[g].token
    BY SMTT(30), <2>1, <2>2, <2>6
  <2> QED BY <1>8, <2>3, <2>5, <2>6
<1> QED BY <1>2, <1>3, <1>6, <1>7, <1>8 DEF InvitesInv, AcceptLabels

LEMMA InvitesStep ==
    ASSUME Base, UsersInv, OwnersInv, ResetsInv, InvitesInv, [Next]_vars
    PROVE  InvitesInv'
<1>1. next' \in {next, next + 1} /\ next \in Nat
  BY NextGrows DEF Base
<1>2. /\ driver' = driver /\ (ResetTrusted' => ResetTrusted)
      /\ faults \in Nat /\ faults' \in {faults, faults + 1}
  BY FrameSteps
<1>3. Tokens(db.invites, InviteFields)
  BY DEF InvitesInv, Tokens
<1>4. ASSUME db'.invites = db.invites, hist'.joined = hist.joined,
             \A g \in Handlers : task'[g].pc \in AcceptLabels => task'[g] = task[g]
      PROVE  InvitesInv'
  BY <1>1, <1>2, <1>4, InvitesEvolve
<1>5. ASSUME NEW h \in Handlers, Step(h)
      PROVE  /\ \A g \in Handlers \ {h} : task'[g] = task[g]
             /\ serial' => \A g \in Handlers \ {h} : task[g] = Idle
             /\ Touches(h) /\ Enters(h)
  BY <1>5 DEF Step, Turn
<1>6. ASSUME NEW h \in Handlers, Step(h), task'[h].pc \notin AcceptLabels
      PROVE  \A g \in Handlers : task'[g].pc \in AcceptLabels =>
               task'[g] = task[g] /\ driver = "postgres" /\ ~serial'
  <2>1. \A g \in Handlers : task'[g].pc \in AcceptLabels =>
          g # h /\ task'[g] = task[g] /\ task[g] # Idle
    BY <1>5, <1>6, IdleShape DEF AcceptLabels
  <2> QED BY SMTT(30), <1>5, <1>6, <2>1 DEF InvitesInv, AcceptLabels
<1>7. ASSUME NEW h \in Handlers, Step(h), Accept(h)
      PROVE  InvitesInv'
  <2> DEFINE k == task[h].token
  <2>1. CASE AcceptIdle(h)
    BY <1>4, <1>6, <1>7, <2>1 DEF AcceptIdle
  <2>2. CASE AcceptGoesOn(h)
    <3>1. PICK i : Unspent(i, k)
      BY <2>2 DEF AcceptGoesOn
    <3>2. ResetTrusted' => \A x \in hist.joined : x[1] # k
      BY SMT, <1>2, <3>1 DEF InvitesInv, Unspent
    <3>3. \A g \in Handlers : g = h \/ task'[g] = task[g]
      BY <1>5, <1>7
    <3>4. /\ db'.invites = db.invites /\ hist'.joined = hist.joined
          /\ driver = "postgres" /\ task'[h].token = k /\ task'[h].pc # "acceptMember"
      BY <2>2 DEF AcceptGoesOn
    <3>5. i \in db.invites /\ i.token = k
      BY <3>1 DEF Unspent
    <3> HIDE DEF k
    <3> QED BY <1>1, <1>2, <3>2, <3>3, <3>4, <3>5, InvitesEvolve
  <2>3. ASSUME NEW i, AcceptDone(h, i)
        PROVE  InvitesInv'
    <3>1. /\ driver # "postgres" /\ task'[h].pc \notin AcceptLabels
          /\ i \in db.invites /\ i.token = k /\ ~i.accepted
          /\ hist'.joined \in {hist.joined, hist.joined \cup {<<k, task[h].uid>>}}
          /\ \/ Marked(db.invites, db'.invites, k, InviteFields, "accepted")
             \/ driver = "sqlite" /\ faults' = faults + 1 /\ db'.invites = db.invites
      BY <2>3 DEF AcceptDone, Unspent
    <3>2. \A g \in Handlers : task'[g].pc \notin AcceptLabels
      BY <1>6, <1>7, <3>1
    <3>3. ResetTrusted' => \A x \in hist.joined : x[1] # k
      BY <1>2, <3>1 DEF InvitesInv
    <3>4. ResetTrusted' => Marked(db.invites, db'.invites, k, InviteFields, "accepted")
      BY SMTT(30), <1>2, <3>1 DEF ResetTrusted
    <3>5. ResetTrusted' => \A j \in db'.invites : j.token = k => j.accepted
      BY <3>4 DEF Marked
    <3> HIDE DEF k
    <3> QED BY <1>1, <1>2, <3>1, <3>2, <3>3, <3>5, InvitesEvolve
  <2> QED BY <1>3, <1>7, <2>1, <2>2, <2>3, AcceptEffect
<1>8. ASSUME NEW h \in Handlers, Step(h), AcceptMark(h)
      PROVE  InvitesInv'
  <2> DEFINE k == task[h].token
  <2>1. task[h].pc = "acceptMark"
    BY <1>8, AcceptMarkTurn
  <2>2. /\ driver = "postgres" /\ \E i \in db.invites : i.token = k
        /\ ResetTrusted' => \A x \in hist.joined : x[1] # k
    BY <1>2, <2>1 DEF InvitesInv
  <2>3. CASE AcceptIdle(h)
    BY <1>4, <1>6, <1>8, <2>3 DEF AcceptIdle
  <2>4. ASSUME hist'.joined = hist.joined, task'[h].token = k,
               Marked(db.invites, db'.invites, k, InviteFields, "accepted")
        PROVE  InvitesInv'
    <3>1. \A j \in db'.invites : j.token = k => j.accepted
      BY <2>4 DEF Marked
    <3>2. \A g \in Handlers : g = h \/ task'[g] = task[g]
      BY <1>5, <1>8
    <3> HIDE DEF k
    <3> QED BY <1>1, <1>2, <2>2, <2>4, <3>1, <3>2, InvitesEvolve
  <2> QED BY <1>3, <1>8, <2>2, <2>3, <2>4, AcceptMarkEffect
<1>9. ASSUME NEW h \in Handlers, Step(h), AcceptMember(h)
      PROVE  InvitesInv'
  <2> DEFINE k == task[h].token
  <2>1. /\ task[h].pc = "acceptMember" /\ Moves(h, {"joined", "cookie"})
        /\ \/ hist'.joined = hist.joined
           \/ hist'.joined = hist.joined \cup {<<k, task[h].uid>>}
    BY <1>9, AcceptMemberTurn
  <2>2. task'[h].pc \notin AcceptLabels
    BY <2>1, IdleShape DEF Moves, AcceptLabels
  <2>3. db'.invites = db.invites
    BY <1>9, AcceptMemberTurn DEF Turn, Only, Tables
  <2>4. /\ driver = "postgres" /\ \E i \in db.invites : i.token = k
        /\ ResetTrusted' => /\ \A x \in hist.joined : x[1] # k
                            /\ \A i \in db.invites : i.token = k => i.accepted
    BY <1>2, <2>1 DEF InvitesInv
  <2>5. \A g \in Handlers : task'[g].pc \in AcceptLabels => task'[g] = task[g]
    BY <1>6, <1>9, <2>2
  <2>6. ResetTrusted' => \A g \in Handlers : task'[g].pc \notin AcceptLabels
    BY <1>2, <1>6, <1>9, <2>2, <2>4 DEF ResetTrusted
  <2> HIDE DEF k
  <2> QED BY <1>1, <1>2, <2>1, <2>3, <2>4, <2>5, <2>6, InvitesEvolve
<1>10. ASSUME NEW h \in Handlers, Step(h), Invite(h)
       PROVE  InvitesInv'
  <2>1. next' = next + 1 /\ hist' = hist /\ task'[h] = Idle
    BY <1>10, InviteWrites
  <2>2. \A g \in Handlers : task'[g].pc \in AcceptLabels => task'[g] = task[g]
    BY <1>6, <1>10, <2>1, IdleShape DEF AcceptLabels
  <2>3. CASE db'.invites = db.invites
    BY <1>4, <2>1, <2>2, <2>3
  <2>4. ASSUME NEW i, Has(i, InviteFields), i.token = next, db'.invites = db.invites \cup {i}
        PROVE  InvitesInv'
    <3>1. \A j \in db.invites : j.token # next
      BY SMTT(30), <1>1 DEF InvitesInv
    <3>2. \A r \in db'.invites : Has(r, InviteFields) /\ r.token \in Nat /\ r.token < next'
      BY SMTT(30), <1>1, <2>1, <2>4 DEF InvitesInv
    <3>3. \A s, r \in db'.invites : s.token = r.token => s = r
      BY <2>4, <3>1 DEF InvitesInv
    <3>4. \A x \in hist'.joined : /\ x = <<x[1], x[2]>> /\ x[1] # next
                                  /\ \E r \in db'.invites : r.token = x[1]
      BY SMTT(30), <2>1, <2>4, <3>1 DEF InvitesInv
    <3>5. \A g \in Handlers : task'[g].pc \in AcceptLabels =>
            /\ driver' = "postgres" /\ task'[g].token # next
            /\ \E r \in db'.invites : r.token = task'[g].token
      BY SMTT(30), <1>2, <2>2, <2>4, <3>1 DEF InvitesInv, AcceptLabels
    <3>6. ResetTrusted' =>
            /\ \A x \in hist'.joined : \A r \in db'.invites : r.token = x[1] => r.accepted
            /\ \A x, y \in hist'.joined : x[1] = y[1] => x = y
            /\ \A g \in Handlers : task'[g].pc \in AcceptLabels =>
                 \A x \in hist'.joined : x[1] # task'[g].token
            /\ \A g \in Handlers : task'[g].pc = "acceptMember" =>
                 \A r \in db'.invites : r.token = task'[g].token => r.accepted
      BY SMTT(30), <1>2, <2>1, <2>2, <2>4, <3>4, <3>5 DEF InvitesInv, AcceptLabels
    <3> QED BY <3>2, <3>3, <3>4, <3>5, <3>6 DEF InvitesInv, AcceptLabels
  <2> QED BY <1>10, <2>3, <2>4, InviteWrites
<1>11. CASE GrowOld
  <2>1. /\ task' = task /\ hist' = hist
        /\ \E t \in {"sessions", "resets", "invites"} : \E row \in db[t] :
             db' = Update(db, t, row, Older(row)) /\ ~IsExpired(row)
    BY <1>11, GrowOldStep
  <2>2. CASE db'.invites = db.invites
    BY <1>4, <2>1, <2>2
  <2>3. ASSUME NEW row \in db.invites, NEW new, db'.invites = (db.invites \ {row}) \cup {new},
               Has(new, InviteFields), new.token = row.token, new.accepted = row.accepted
        PROVE  InvitesInv'
    <3>1. \A s \in db.invites : \E r \in db'.invites : r.token = s.token
      BY <2>3
    <3>2. \A r \in db'.invites : \E s \in db.invites : r.token = s.token /\ r.accepted = s.accepted
      BY <2>3
    <3>3. \A r \in db'.invites : Has(r, InviteFields) /\ r.token \in Nat /\ r.token < next'
      BY SMTT(30), <1>1, <2>3 DEF InvitesInv
    <3>4. \A s, r \in db'.invites : s.token = r.token => s = r
      BY SMTT(30), <2>3 DEF InvitesInv
    <3> QED BY SMTT(30), <1>2, <2>1, <3>1, <3>2, <3>3, <3>4 DEF InvitesInv
  <2>4. ASSUME NEW row \in db.invites, db' = Update(db, "invites", row, Older(row))
        PROVE  InvitesInv'
    <3>1. Has(db, Tables) /\ "invites" \in Tables
      BY DEF Base, Tables
    <3>2. db'.invites = (db.invites \ {row}) \cup {Older(row)}
      BY SMTT(30), <2>4, <3>1, UpdateTable
    <3>3. Has(row, InviteFields)
      BY DEF InvitesInv
    <3>4. Has(Older(row), InviteFields) /\ \A f \in InviteFields \ {"age"} : Older(row)[f] = row[f]
      BY <3>3, OlderRow DEF InviteFields
    <3>5. Older(row).token = row.token /\ Older(row).accepted = row.accepted
      BY <3>4 DEF InviteFields
    <3> QED BY <2>3, <3>2, <3>4, <3>5
  <2>5. ASSUME NEW t \in {"sessions", "resets"}, NEW row, db' = Update(db, t, row, Older(row))
        PROVE  db'.invites = db.invites
    BY <2>5 DEF Update, Base, Has, Tables
  <2> QED BY <2>1, <2>2, <2>4, <2>5
<1>12. CASE Restart
  BY <1>4, <1>12, RestartStep, IdleShape DEF AcceptLabels
<1>13. CASE UNCHANGED vars
  BY <1>4, <1>13 DEF vars
<1>14. ASSUME NEW h \in Handlers, Step(h), ~Accept(h), ~AcceptMark(h), ~AcceptMember(h), ~Invite(h)
       PROVE  InvitesInv'
  <2>1. db'.invites = db.invites /\ hist'.joined = hist.joined
    BY <1>5, <1>14 DEF Touches
  <2>2. \A g \in Handlers : task'[g].pc \in AcceptLabels => task'[g] = task[g]
    BY <1>5, <1>14 DEF Enters, AcceptLabels
  <2> QED BY <1>4, <2>1, <2>2
<1> QED BY <1>7, <1>8, <1>9, <1>10, <1>11, <1>12, <1>13, <1>14, AllSteps

\* With its organization and its user, a membership is written.
LEMMA MemberMade ==
    ASSUME NEW d, NEW m, \E o \in d.orgs : o.id = m.org, \E u \in d.users : u.id = m.user
    PROVE  PgCreateOrgMember(d, m).ok
BY DEF PgCreateOrgMember, Insert, NoSuchOrg, NoSuchUser, UsersByID

\* No step removes an organization.
LEMMA OrgsStay ==
    ASSUME Base, OwnersInv, [Next]_vars, NEW o, IsOrg(o)
    PROVE  \E r \in db'.orgs : r.id = o
<1>1. ASSUME NEW h \in Handlers, Step(h)
      PROVE  db.orgs \subseteq db'.orgs
  BY <1>1 DEF Step, Touches, Plain
<1>2. CASE GrowOld
  <2>1. ASSUME NEW t \in {"sessions", "resets", "invites"}, NEW row,
               db' = Update(db, t, row, Older(row))
        PROVE  db'.orgs = db.orgs
    BY <2>1 DEF Update, Base, Has, Tables
  <2> QED BY <1>2, <2>1, GrowOldStep DEF IsOrg
<1> QED BY <1>1, <1>2, AllSteps, RestartStep DEF IsOrg, vars

\* An accepted invitation, as of the rows, the history and the requests given.
Joins(i, J, t) ==
    \/ \E x \in J : x[1] = i.token
    \/ \E h \in Handlers : t[h].pc = "acceptMember" /\ t[h].token = i.token

\* What a step may do to invitations that JoinsInv is about.
LEMMA JoinsEvolve ==
    ASSUME Base, OwnersInv, JoinsInv, [Next]_vars,
           \A i \in db'.invites : \/ \E j \in db.invites : i.org = j.org
                                  \/ driver # "memory" => IsOrg(i.org),
           \A h \in Handlers : task'[h].pc \in AcceptLabels =>
             \/ task[h].pc \in AcceptLabels /\ task'[h].org = task[h].org
             \/ IsOrg(task'[h].org),
           faults' = 0 => \A i \in db'.invites : i.accepted =>
             \/ Joins(i, hist'.joined, task')
             \/ /\ \E j \in db.invites : i.token = j.token /\ i.accepted = j.accepted
                /\ Joins(i, hist.joined, task) => Joins(i, hist'.joined, task')
    PROVE  JoinsInv'
<1>1. driver' = driver /\ faults' \in {faults, faults + 1} /\ faults \in Nat
  BY FrameSteps
<1>2. driver' # "memory" => \A i \in db'.invites : \E r \in db'.orgs : r.id = i.org
  BY <1>1, OrgsStay DEF JoinsInv
<1>3. \A h \in Handlers : task'[h].pc \in AcceptLabels => \E r \in db'.orgs : r.id = task'[h].org
  BY OrgsStay DEF JoinsInv, AcceptLabels
<1>4. ASSUME faults' = 0, NEW i \in db'.invites, i.accepted
      PROVE  Joins(i, hist'.joined, task')
  <2>1. faults = 0
    BY SMTT(30), <1>1, <1>4
  <2>2. ASSUME NEW j \in db.invites, i.token = j.token, i.accepted = j.accepted
        PROVE  Joins(i, hist.joined, task)
    BY SMTT(30), <1>4, <2>1, <2>2 DEF JoinsInv, Joins
  <2> QED BY <1>4, <2>2
<1> QED BY <1>2, <1>3, <1>4 DEF JoinsInv, IsOrg, Joins, AcceptLabels

LEMMA JoinsStep ==
    ASSUME Base, UsersInv, OwnersInv, ResetsInv, InvitesInv, JoinsInv, [Next]_vars
    PROVE  JoinsInv'
<1>1. faults' \in {faults, faults + 1} /\ faults \in Nat
  BY FrameSteps
<1>2. Tokens(db.invites, InviteFields)
  BY DEF InvitesInv, Tokens
<1>3. ASSUME NEW h \in Handlers, Step(h)
      PROVE  /\ \A g \in Handlers \ {h} : task'[g] = task[g]
             /\ Touches(h) /\ Enters(h) /\ Leaves(h)
  BY <1>3 DEF Step, Turn
  \* Requests other than h go on as before; h was not the one to write a member.
<1>4. ASSUME NEW h \in Handlers, Step(h), task[h].pc # "acceptMember", NEW i,
             hist.joined \subseteq hist'.joined
      PROVE  Joins(i, hist.joined, task) => Joins(i, hist'.joined, task')
  <2>1. \A g \in Handlers : task[g].pc = "acceptMember" => task'[g] = task[g]
    BY <1>3, <1>4
  <2> QED BY <1>4, <2>1 DEF Joins
<1>5. ASSUME NEW h \in Handlers, Step(h), task[h].pc # "acceptMember",
             db'.invites = db.invites, hist'.joined = hist.joined,
             task'[h].pc \notin AcceptLabels \/ IsOrg(task'[h].org) \/ task'[h] = task[h]
      PROVE  JoinsInv'
  <2>1. \A g \in Handlers : task'[g].pc \in AcceptLabels =>
          IsOrg(task'[g].org) \/ (task[g].pc \in AcceptLabels /\ task'[g].org = task[g].org)
    BY <1>3, <1>5
  <2>2. \A i : Joins(i, hist.joined, task) => Joins(i, hist'.joined, task')
    BY <1>4, <1>5
  <2> QED BY <1>5, <2>1, <2>2, JoinsEvolve
<1>6. ASSUME NEW h \in Handlers, Step(h), Accept(h)
      PROVE  JoinsInv'
  <2> DEFINE k == task[h].token
             u == task[h].uid
  <2>1. task[h].pc = "accept"
    BY <1>6, AcceptTurn
  <2>2. CASE AcceptIdle(h)
    BY <1>5, <1>6, <2>1, <2>2 DEF AcceptIdle
  <2>3. CASE AcceptGoesOn(h)
    <3>1. PICK i : Unspent(i, k) /\ task'[h].org = i.org
      BY <2>3 DEF AcceptGoesOn
    <3>2. IsOrg(task'[h].org)
      BY <2>3, <3>1 DEF AcceptGoesOn, Unspent, JoinsInv
    <3> QED BY <1>5, <1>6, <2>1, <2>3, <3>2 DEF AcceptGoesOn
  <2>4. ASSUME NEW i, AcceptDone(h, i)
        PROVE  JoinsInv'
    <3>1. /\ driver # "postgres" /\ task'[h].pc \notin AcceptLabels
          /\ Unspent(i, k)
          /\ hist.joined \subseteq hist'.joined
          /\ \/ /\ Marked(db.invites, db'.invites, k, InviteFields, "accepted")
                /\ \/ <<k, u>> \in hist'.joined
                   \/ faults' = faults + 1
                   \/ driver = "sqlite" /\ (~IsOrg(i.org) \/ ~IsUser(u))
             \/ faults' = faults + 1 /\ db'.invites = db.invites
      BY <2>4 DEF AcceptDone
    <3>2. IsUser(u)
      BY <2>1 DEF OwnersInv, AnonymousLabels
    <3>3. driver = "sqlite" => IsOrg(i.org)
      BY <3>1 DEF Unspent, JoinsInv
    <3>4. \A r \in db'.invites : \E j \in db.invites :
            r.org = j.org /\ (r.token = k \/ r = j)
      BY SMTT(30), <3>1 DEF Marked, InviteFields
    <3>5. faults' = 0 => <<k, u>> \in hist'.joined
      BY SMTT(30), <1>1, <3>1, <3>2, <3>3
    <3>6. \A j : Joins(j, hist.joined, task) => Joins(j, hist'.joined, task')
      BY <1>4, <1>6, <2>1, <3>1
    <3>7. faults' = 0 => \A r \in db'.invites : r.token = k => Joins(r, hist'.joined, task')
      BY <3>5 DEF Joins
    <3>8. \A g \in Handlers : task'[g].pc \in AcceptLabels =>
            task[g].pc \in AcceptLabels /\ task'[g].org = task[g].org
      BY <1>3, <1>6, <3>1
    <3> HIDE DEF k, u
    <3> QED BY <3>4, <3>6, <3>7, <3>8, JoinsEvolve
  <2> QED BY <1>2, <1>6, <2>2, <2>3, <2>4, AcceptEffect
<1>7. ASSUME NEW h \in Handlers, Step(h), AcceptMark(h)
      PROVE  JoinsInv'
  <2> DEFINE k == task[h].token
  <2>1. task[h].pc = "acceptMark"
    BY <1>7, AcceptMarkTurn
  <2>2. \E i \in db.invites : i.token = k
    BY <2>1 DEF InvitesInv
  <2>3. CASE AcceptIdle(h)
    BY <1>5, <1>7, <2>1, <2>3 DEF AcceptIdle
  <2>4. ASSUME hist'.joined = hist.joined, task'[h].pc = "acceptMember", task'[h].token = k,
               task'[h].org = task[h].org,
               Marked(db.invites, db'.invites, k, InviteFields, "accepted")
        PROVE  JoinsInv'
    <3>1. \A r \in db'.invites : \E j \in db.invites :
            r.org = j.org /\ (r.token = k \/ r = j)
      BY SMT, <2>4 DEF Marked, InviteFields
    <3>2. \A j : Joins(j, hist.joined, task) => Joins(j, hist'.joined, task')
      BY <1>4, <1>7, <2>1, <2>4
    <3>3. \A r \in db'.invites : r.token = k => Joins(r, hist'.joined, task')
      BY <2>4 DEF Joins
    <3>4. \A g \in Handlers : task'[g].pc \in AcceptLabels =>
            task[g].pc \in AcceptLabels /\ task'[g].org = task[g].org
      BY <1>3, <1>7, <2>1, <2>4 DEF AcceptLabels
    <3> HIDE DEF k
    <3> QED BY <3>1, <3>2, <3>3, <3>4, JoinsEvolve
  <2> QED BY <1>2, <1>7, <2>2, <2>3, <2>4, AcceptMarkEffect
<1>8. ASSUME NEW h \in Handlers, Step(h), AcceptMember(h)
      PROVE  JoinsInv'
  <2> DEFINE t == task[h]
             m == Member(next, t.org, t.uid, t.role)
             o == PgCreateOrgMember(db, m)
  <2>1. /\ t.pc = "acceptMember" /\ Moves(h, {"joined", "cookie"})
        /\ \/ hist'.joined = IF o.ok THEN hist.joined \cup {<<t.token, t.uid>>} ELSE hist.joined
           \/ faults' = faults + 1
    BY <1>8, AcceptMemberTurn
  <2>2. task'[h].pc \notin AcceptLabels
    BY <2>1, IdleShape DEF Moves, AcceptLabels
  <2>3. db'.invites = db.invites
    BY <1>8, AcceptMemberTurn DEF Turn, Only, Tables
  <2>4. IsOrg(t.org) /\ IsUser(t.uid)
    BY <2>1 DEF JoinsInv, OwnersInv, AnonymousLabels
  <2>5. m.org = t.org /\ m.user = t.uid
    BY DEF Member
  <2> HIDE DEF m
  <2>6. o.ok
    <3>1. Has(db, Tables)
      BY DEF Base
    <3>2. (\E r \in db.orgs : r.id = m.org) /\ (\E u \in db.users : u.id = m.user)
      BY <2>4, <2>5 DEF IsOrg, IsUser
    <3> HIDE DEF t
    <3> QED BY <3>1, <3>2, MemberMade
  <2> HIDE DEF o
  <2>7. faults' = 0 => hist'.joined = hist.joined \cup {<<t.token, t.uid>>}
    BY SMTT(30), <1>1, <2>1, <2>6
  <2>8. ASSUME faults' = 0, NEW i, Joins(i, hist.joined, task)
        PROVE  Joins(i, hist'.joined, task')
    <3>1. CASE \E x \in hist.joined : x[1] = i.token
      BY <2>7, <2>8, <3>1 DEF Joins
    <3>2. ASSUME NEW g \in Handlers, task[g].pc = "acceptMember", task[g].token = i.token
          PROVE  Joins(i, hist'.joined, task')
      <4>1. CASE g = h
        <5> DEFINE x == <<t.token, t.uid>>
        <5>1. x[1] = i.token
          BY <3>2, <4>1
        <5>2. x \in hist'.joined
          BY <2>7, <2>8
        <5> HIDE DEF x
        <5> QED BY <5>1, <5>2 DEF Joins
      <4>2. CASE g # h
        BY <1>3, <1>8, <3>2, <4>2 DEF Joins
      <4> QED BY <4>1, <4>2
    <3> QED BY <2>8, <3>1, <3>2 DEF Joins
  <2>9. \A g \in Handlers : task'[g].pc \in AcceptLabels =>
          task[g].pc \in AcceptLabels /\ task'[g].org = task[g].org
    BY <1>3, <1>8, <2>2
  <2> QED BY <2>3, <2>8, <2>9, JoinsEvolve
<1>9. ASSUME NEW h \in Handlers, Step(h), Invite(h)
      PROVE  JoinsInv'
  <2>1. task[h].pc = "invite"
    BY <1>9, InviteTurn
  <2>2. hist' = hist /\ task'[h].pc \notin AcceptLabels
    BY <1>9, InviteWrites, IdleShape DEF AcceptLabels
  <2>3. CASE db'.invites = db.invites
    BY <1>5, <1>9, <2>1, <2>2, <2>3
  <2>4. ASSUME NEW i, ~i.accepted, driver # "memory" => IsOrg(i.org),
               db'.invites = db.invites \cup {i}
        PROVE  JoinsInv'
    <3>1. \A j : Joins(j, hist.joined, task) => Joins(j, hist'.joined, task')
      BY <1>4, <1>9, <2>1, <2>2
    <3>2. \A g \in Handlers : task'[g].pc \in AcceptLabels =>
            task[g].pc \in AcceptLabels /\ task'[g].org = task[g].org
      BY <1>3, <1>9, <2>2
    <3> QED BY <2>4, <3>1, <3>2, JoinsEvolve
  <2> QED BY <1>9, <2>3, <2>4, InviteWrites
<1>10. CASE GrowOld
  <2>1. /\ task' = task /\ hist' = hist
        /\ \E t \in {"sessions", "resets", "invites"} : \E row \in db[t] :
             db' = Update(db, t, row, Older(row)) /\ ~IsExpired(row)
    BY <1>10, GrowOldStep
  <2>2. ASSUME \A r \in db'.invites : \E s \in db.invites :
                 r.token = s.token /\ r.accepted = s.accepted /\ r.org = s.org
        PROVE  JoinsInv'
    BY <2>1, <2>2, JoinsEvolve
  <2>3. ASSUME NEW row \in db.invites, db' = Update(db, "invites", row, Older(row))
        PROVE  JoinsInv'
    <3>1. Has(db, Tables) /\ "invites" \in Tables
      BY DEF Base, Tables
    <3>2. db'.invites = (db.invites \ {row}) \cup {Older(row)}
      BY SMTT(30), <2>3, <3>1, UpdateTable
    <3>3. Has(row, InviteFields)
      BY DEF InvitesInv
    <3>4. Has(Older(row), InviteFields) /\ \A f \in InviteFields \ {"age"} : Older(row)[f] = row[f]
      BY <3>3, OlderRow DEF InviteFields
    <3>5. /\ Older(row).token = row.token /\ Older(row).accepted = row.accepted
          /\ Older(row).org = row.org
      BY <3>4 DEF InviteFields
    <3> QED BY <2>2, <3>2, <3>5
  <2>4. ASSUME NEW t \in {"sessions", "resets"}, NEW row, db' = Update(db, t, row, Older(row))
        PROVE  db'.invites = db.invites
    BY <2>4 DEF Update, Base, Has, Tables
  <2> QED BY <2>1, <2>2, <2>3, <2>4
<1>11. CASE Restart
  <2>1. faults' # 0
    BY SMTT(30), <1>1, <1>11, RestartStep
  <2>2. \A g \in Handlers : task'[g].pc \notin AcceptLabels
    BY <1>11, RestartStep, IdleShape DEF AcceptLabels
  <2> QED BY <1>11, <2>1, <2>2, RestartStep, JoinsEvolve
<1>12. CASE UNCHANGED vars
  BY <1>12, JoinsEvolve DEF vars
<1>13. ASSUME NEW h \in Handlers, Step(h), ~Accept(h), ~AcceptMark(h), ~AcceptMember(h), ~Invite(h)
       PROVE  JoinsInv'
  <2>1. db'.invites = db.invites /\ hist'.joined = hist.joined
    BY <1>3, <1>13 DEF Touches
  <2>2. task'[h].pc \notin AcceptLabels /\ task[h].pc # "acceptMember"
    BY <1>3, <1>13 DEF Enters, Leaves, AcceptLabels
  <2> QED BY <1>5, <1>13, <2>1, <2>2
<1> QED BY <1>6, <1>7, <1>8, <1>9, <1>10, <1>11, <1>12, <1>13, AllSteps

-----------------------------------------------------------------------------
(* Memberships.                                                            *)

\* The table R has the rows of S, some rewritten, and the new row m.
MemberRows(S, R, m) ==
    \A r \in R : r = m \/ (Has(r, MemberFields) /\ \E o \in S : r.id = o.id)

LEMMA MembersWritten ==
    ASSUME NEW d, Has(d, Tables), \A o \in d.members : Has(o, MemberFields), NEW m
    PROVE  /\ MemberRows(d.members, MemCreateOrgMember(d, m).db.members, m)
           /\ MemberRows(d.members, LiteCreateOrgMember(d, m).db.members, m)
           /\ MemberRows(d.members, PgCreateOrgMember(d, m).db.members, m)
<1>1. ASSUME NEW S PROVE [d EXCEPT !.members = S].members = S
  BY DEF Has, Tables
<1>2. MemberRows(d.members, d.members, m)
  BY DEF MemberRows
<1>3. MemberRows(d.members, d.members \cup {m}, m)
  BY DEF MemberRows
<1>4. ASSUME NEW o \in d.members, NEW r
      PROVE  MemberRows(d.members, (d.members \ {o}) \cup {[o EXCEPT !.role = r]}, m)
  <2>1. Has([o EXCEPT !.role = r], MemberFields) /\ [o EXCEPT !.role = r].id = o.id
    BY DEF Has, MemberFields
  <2> QED BY <2>1 DEF MemberRows
<1>5. MemberRows(d.members, LiteCreateOrgMember(d, m).db.members, m)
  <2> DEFINE S == MembersOf(d, m.org, m.user)
             o == Some(S)
             n == [o EXCEPT !.role = m.role]
  <2>1. CASE S = {}
    BY <1>1, <1>2, <1>3, <2>1 DEF LiteCreateOrgMember, Insert
  <2>2. CASE S # {}
    <3>1. o \in d.members
      BY <2>2, SomeIn DEF MembersOf
    <3>2. MemberRows(d.members, (d.members \ {o}) \cup {n}, m)
      BY <1>4, <3>1
    <3>3. LiteCreateOrgMember(d, m).db = Update(d, "members", o, n)
      <4> HIDE DEF S
      <4>1. Some(S) = o
        OBVIOUS
      <4> HIDE DEF o
      <4> QED BY <2>2, <4>1 DEF LiteCreateOrgMember, S
    <3> HIDE DEF o, n
    <3>4. Update(d, "members", o, n).members = (d.members \ {o}) \cup {n}
      BY SMTT(30), UpdateTable DEF Tables
    <3> QED BY <3>2, <3>3, <3>4
  <2> QED BY <2>1, <2>2
<1>6. MemberRows(d.members, PgCreateOrgMember(d, m).db.members, m)
  <2> DEFINE S == MembersOf(d, m.org, m.user)
             o == Some(S)
             n == [o EXCEPT !.role = m.role]
  <2>1. CASE S = {}
    BY <1>1, <1>2, <1>3, <2>1 DEF PgCreateOrgMember, Insert
  <2>2. CASE S # {}
    <3>1. o \in d.members
      BY <2>2, SomeIn DEF MembersOf
    <3>2. MemberRows(d.members, (d.members \ {o}) \cup {n}, m)
      BY <1>4, <3>1
    <3>3. PgCreateOrgMember(d, m).db = Update(d, "members", o, n)
      <4> HIDE DEF S
      <4>1. Some(S) = o
        OBVIOUS
      <4> HIDE DEF o
      <4> QED BY <2>2, <4>1 DEF PgCreateOrgMember, S
    <3> HIDE DEF o, n
    <3>4. Update(d, "members", o, n).members = (d.members \ {o}) \cup {n}
      BY SMT, UpdateTable DEF Tables
    <3> QED BY <3>2, <3>3, <3>4
  <2> QED BY <2>1, <2>2
<1>7. MemberRows(d.members, MemCreateOrgMember(d, m).db.members, m)
  <2> DEFINE old == { o \in MembersOf(d, m.org, m.user) : o.id # m.id }
             gone == old \cup { o \in d.members : o.id = m.id }
             stay == { [o EXCEPT !.cur = FALSE] : o \in old }
             d1 == Delete(d, "members", gone)
             d2 == [d1 EXCEPT !.members = @ \cup stay]
  <2>1. old \subseteq d.members
    BY DEF MembersOf
  <2>2. \A r \in stay : Has(r, MemberFields) /\ \E o \in d.members : r.id = o.id
    <3> SUFFICES ASSUME NEW o \in old
                 PROVE  /\ Has([o EXCEPT !.cur = FALSE], MemberFields)
                        /\ [o EXCEPT !.cur = FALSE].id = o.id
      BY <2>1
    <3>1. Has(o, MemberFields)
      BY <2>1
    <3> QED BY <3>1 DEF Has, MemberFields
  <2>3. MemCreateOrgMember(d, m) = Insert(d2, "members", m, FALSE)
    BY DEF MemCreateOrgMember
  <2> HIDE DEF old, gone, stay
  <2>4. Has(d1, Tables) /\ d1.members = d.members \ gone
    BY DEF Delete, Has, Tables
  <2> HIDE DEF d1
  <2>5. Has(d2, Tables) /\ d2.members = d1.members \cup stay
    BY <2>4 DEF Has, Tables
  <2> HIDE DEF d2
  <2>6. Insert(d2, "members", m, FALSE).db.members = d2.members \cup {m}
    BY <2>5 DEF Insert, Has, Tables
  <2> QED BY <2>2, <2>3, <2>4, <2>5, <2>6 DEF MemberRows
<1> QED BY <1>5, <1>6, <1>7

\* A step adds the row of a new membership at most.
MemberAdded ==
    \/ db'.members = db.members
    \/ /\ next' = next + 1
       /\ \E m : /\ Has(m, MemberFields) /\ m.id = next
                 /\ MemberRows(db.members, db'.members, m)

LEMMA AcceptAdds ==
    ASSUME Base, \A o \in db.members : Has(o, MemberFields), NEW h \in Handlers, Accept(h)
    PROVE  MemberAdded
<1>1. next' = next + 1
  BY AcceptTurn
<1>2. CASE Checked(h)
  BY <1>2 DEF Checked, MemberAdded
<1>3. ASSUME NEW o, Decided(h, o), Accepted(h, o)
      PROVE  MemberAdded
  <2>1. db' = o.db
    BY <1>3 DEF Accepted
  <2> DEFINE k == task[h].token
             u == task[h].uid
  <2>2. \/ o.db = db
        \/ \E i, n, g, r : \/ o = MemCreateOrgMember(Update(db, "invites", i, n), Member(next, g, u, r))
                           \/ o = LiteCreateOrgMember(Update(db, "invites", i, n), Member(next, g, u, r))
                           \/ o = LiteCreateOrgMember(db, Member(next, g, u, r))
                           \/ o.db = Update(db, "invites", i, n)
    <3>1. CASE o = MemAcceptOrgInvitation(db, k, u, next)
      BY <3>1 DEF MemAcceptOrgInvitation
    <3>2. CASE o = LiteAcceptOrgInvitation(db, k, u, next)
      BY <3>2 DEF LiteAcceptOrgInvitation
    <3>3. CASE o \in LiteAcceptCuts(db, k, u, next)
      BY SMT, <3>3 DEF LiteAcceptCuts
    <3> QED BY <1>3, <3>1, <3>2, <3>3 DEF Decided
  <2>3. ASSUME NEW i, NEW n, NEW d,
               d = Update(db, "invites", i, n) \/ d = db
        PROVE  Has(d, Tables) /\ d.members = db.members
    BY <2>3 DEF Update, Base, Has, Tables
  <2>4. ASSUME NEW g, NEW r, NEW d, Has(d, Tables), d.members = db.members,
               \/ o = MemCreateOrgMember(d, Member(next, g, u, r))
               \/ o = LiteCreateOrgMember(d, Member(next, g, u, r))
        PROVE  MemberAdded
    <3> DEFINE m == Member(next, g, u, r)
    <3>1. Has(m, MemberFields) /\ m.id = next
      BY DEF Member, Has, MemberFields
    <3> HIDE DEF m
    <3>2. MemberRows(d.members, o.db.members, m)
      BY <2>4, MembersWritten DEF m
    <3> QED BY <1>1, <2>1, <2>4, <3>1, <3>2 DEF MemberAdded
  <2>5. CASE o.db = db
    BY <2>1, <2>5 DEF MemberAdded
  <2>6. ASSUME NEW i, NEW n, NEW g, NEW r,
               \/ o = MemCreateOrgMember(Update(db, "invites", i, n), Member(next, g, u, r))
               \/ o = LiteCreateOrgMember(Update(db, "invites", i, n), Member(next, g, u, r))
               \/ o = LiteCreateOrgMember(db, Member(next, g, u, r))
        PROVE  MemberAdded
    BY <2>3, <2>4, <2>6
  <2>7. ASSUME NEW i, NEW n, o.db = Update(db, "invites", i, n)
        PROVE  MemberAdded
    BY <2>1, <2>3, <2>7 DEF MemberAdded
  <2> QED BY <2>2, <2>5, <2>6, <2>7
<1> QED BY <1>2, <1>3, AcceptOutcome

\* The store's CreateOrgMember, for the steps that call it.
LEMMA MemberCall ==
    ASSUME Base, \A o \in db.members : Has(o, MemberFields), next' = next + 1, NEW g, NEW u, NEW r,
           LET m == Member(next, g, u, r)
           IN  db' = db \/ db' = CreateOrgMember(m).db \/ db' = PgCreateOrgMember(db, m).db
    PROVE  MemberAdded
<1> DEFINE m == Member(next, g, u, r)
<1>1. Has(m, MemberFields) /\ m.id = next
  BY DEF Member, Has, MemberFields
<1> HIDE DEF m
<1>2. Has(db, Tables)
  BY DEF Base
<1>3. \/ db' = db \/ db' = MemCreateOrgMember(db, m).db \/ db' = LiteCreateOrgMember(db, m).db
      \/ db' = PgCreateOrgMember(db, m).db
  BY DEF CreateOrgMember, Of, m
<1>4. db' = db \/ MemberRows(db.members, db'.members, m)
  BY <1>2, <1>3, MembersWritten
<1> QED BY <1>1, <1>4 DEF MemberAdded

LEMMA MembersMove ==
    ASSUME Base, OwnersInv, \A o \in db.members : Has(o, MemberFields), [Next]_vars
    PROVE  MemberAdded
<1>1. ASSUME NEW h \in Handlers, Step(h)
      PROVE  MemberAdded
  <2>1. CASE ProvisionOwner(h)
    <3>1. next' = next + 1
      BY <2>1, ProvisionOwnerTurn
    <3>2. \E g, u, r : db' = db \/ db' = CreateOrgMember(Member(next, g, u, r)).db
      BY SMT, <2>1 DEF ProvisionOwner, Call, CallOr
    <3> QED BY <3>1, <3>2, MemberCall
  <2>2. CASE Accept(h)
    BY <2>2, AcceptAdds
  <2>3. CASE AcceptMember(h)
    <3>1. next' = next + 1
      BY <2>3, AcceptMemberTurn
    <3>2. \E g, u, r : db' = db \/ db' = PgCreateOrgMember(db, Member(next, g, u, r)).db
      BY <2>3, AcceptMemberTurn
    <3> QED BY <3>1, <3>2, MemberCall
  <2>4. CASE SSOJoin(h)
    <3>1. next' = next + 1
      BY <2>4, SSOJoinTurn
    <3>2. \E g, u, r : db' = db \/ db' = CreateOrgMember(Member(next, g, u, r)).db
      BY SMT, <2>4 DEF SSOJoin, Call, CallOr
    <3> QED BY <3>1, <3>2, MemberCall
  <2> QED BY <1>1, <2>1, <2>2, <2>3, <2>4 DEF Step, Touches, MemberAdded
<1> QED BY <1>1, AllSteps, GrowOldStep, RestartStep DEF Only, Tables, vars, MemberAdded

LEMMA MembersStep ==
    ASSUME Base, OwnersInv, MembersInv, [Next]_vars
    PROVE  MembersInv'
<1>1. next' \in {next, next + 1} /\ next \in Nat
  BY NextGrows DEF Base
<1>2. \A m \in db.members : Has(m, MemberFields) /\ m.id \in Nat /\ m.id < next
  BY DEF MembersInv
<1>3. \A m \in db'.members : Has(m, MemberFields) /\ m.id \in Nat /\ m.id < next'
  BY SMTT(30), <1>1, <1>2, MembersMove DEF MemberAdded, MemberRows
<1>4. faults' = 0 => faults' = faults
  BY SMT, FrameSteps
<1>5. ASSUME NEW h \in Handlers, Step(h), serial', faults' = 0,
             NEW g \in Handlers, task'[g].pc = "ssoJoin"
      PROVE  MembersOf(db', task'[g].org, task'[g].uid) = {}
  <2>1. g = h /\ SSOMember(h)
    BY <1>5, IdleShape DEF Step, Turn, Enters
  <2> DEFINE o == GetOrgMember(task[h].org, task[h].uid)
  <2>2. faults' = faults => db' = o.db /\ Goto(h, task[h], IF o.ok THEN "session" ELSE "ssoJoin")
    <3> HIDE DEF o
    <3> QED BY SMT, <2>1 DEF SSOMember, Call, CallOr, Base, o
  <2>3. o.db = db /\ (~o.ok => MembersOf(db, task[h].org, task[h].uid) = {})
    BY DEF GetOrgMember, Of, MemGetOrgMember, LiteGetOrgMember, PgGetOrgMember, First, MembersOf
  <2> HIDE DEF o
  <2>4. task'[h].org = task[h].org /\ task'[h].uid = task[h].uid
    BY <1>5, <2>1, SSOMemberTurn, IdleShape DEF Moves, Carried
  <2>5. ~o.ok
    BY SMTT(30), <1>4, <1>5, <2>1, <2>2, GotoShape DEF Base
  <2> QED BY <1>4, <1>5, <2>1, <2>2, <2>3, <2>4, <2>5
<1>6. ASSUME db'.members = db.members, task' = task, serial' => serial, faults' = 0,
             serial', NEW g \in Handlers, task'[g].pc = "ssoJoin"
      PROVE  MembersOf(db', task'[g].org, task'[g].uid) = {}
  BY <1>4, <1>6 DEF MembersInv, MembersOf
<1>7. ASSUME serial', faults' = 0, NEW g \in Handlers, task'[g].pc = "ssoJoin"
      PROVE  MembersOf(db', task'[g].org, task'[g].uid) = {}
  <2>1. CASE GrowOld
    <3>1. db'.members = db.members /\ task' = task /\ (serial' => serial)
      BY <2>1, GrowOldStep, FrameSteps DEF Only, Tables
    <3> QED BY <1>6, <1>7, <3>1
  <2>2. CASE Restart
    BY <1>7, <2>2, RestartStep, IdleShape
  <2>3. CASE UNCHANGED vars
    BY <1>6, <1>7, <2>3 DEF vars
  <2> QED BY <1>5, <1>7, <2>1, <2>2, <2>3, AllSteps
<1> QED BY <1>3, <1>7 DEF MembersInv, MembersOf

\* The first membership of a user in an organization leaves the others alone.
LEMMA MemberInserted ==
    ASSUME Has(db, Tables), NEW m, MembersOf(db, m.org, m.user) = {},
           \A o \in db.members : o.id # m.id
    PROVE  db.members \subseteq CreateOrgMember(m).db.members
<1>1. MembersOf(db, m.org, m.user) = {}
  OBVIOUS
<1>2. ASSUME NEW d, Has(d, Tables), NEW S PROVE Has([d EXCEPT !.members = S], Tables)
                                               /\ [d EXCEPT !.members = S].members = S
  BY <1>2 DEF Has, Tables
<1>3. db.members \subseteq LiteCreateOrgMember(db, m).db.members
  BY SMTT(30), <1>1, <1>2 DEF LiteCreateOrgMember, Insert
<1>4. db.members \subseteq PgCreateOrgMember(db, m).db.members
  BY SMT, <1>1, <1>2 DEF PgCreateOrgMember, Insert
<1>5. db.members \subseteq MemCreateOrgMember(db, m).db.members
  <2> DEFINE old == { o \in MembersOf(db, m.org, m.user) : o.id # m.id }
             gone == old \cup { o \in db.members : o.id = m.id }
             stay == { [o EXCEPT !.cur = FALSE] : o \in old }
             d1 == Delete(db, "members", gone)
             d2 == [d1 EXCEPT !.members = @ \cup stay]
  <2>1. gone = {}
    BY <1>1
  <2>2. MemCreateOrgMember(db, m) = Insert(d2, "members", m, FALSE)
    BY DEF MemCreateOrgMember
  <2> HIDE DEF gone, stay
  <2>3. Has(d1, Tables) /\ d1.members = db.members
    BY <1>2, <2>1 DEF Delete
  <2> HIDE DEF d1
  <2>4. Has(d2, Tables) /\ d2.members = d1.members \cup stay
    BY <1>2, <2>3
  <2> HIDE DEF d2
  <2>5. Insert(d2, "members", m, FALSE).db.members = d2.members \cup {m}
    BY <1>2, <2>4 DEF Insert
  <2> QED BY <2>2, <2>3, <2>4, <2>5
<1> QED BY <1>3, <1>4, <1>5 DEF CreateOrgMember, Of

\* A sign-in that writes a membership rewrites none.
LEMMA RoleKept ==
    ASSUME Base, OwnersInv, MembersInv, [Next]_vars,
           serial, faults' = 0, NEW h \in Handlers, task[h].pc = "ssoJoin", task'[h] # task[h],
           NEW m \in db.members
    PROVE  m \in db'.members
<1>1. faults = 0 /\ faults' = faults
  BY SMT, FrameSteps
<1>2. MembersOf(db, task[h].org, task[h].uid) = {}
  BY <1>1 DEF MembersInv
<1>3. CASE SSOJoin(h)
  <2> DEFINE n == Member(next, task[h].org, task[h].uid, task[h].role)
  <2>1. n.id = next /\ n.org = task[h].org /\ n.user = task[h].uid
    BY DEF Member
  <2>2. db' = CreateOrgMember(n).db \/ db' = db
    <3> HIDE DEF n
    <3> QED BY SMTT(30), <1>3 DEF SSOJoin, Call, CallOr, n
  <2> HIDE DEF n
  <2>3. Has(db, Tables) /\ \A o \in db.members : o.id # next
    BY SMT DEF MembersInv, Base
  <2>4. db.members \subseteq CreateOrgMember(n).db.members
    BY <1>2, <2>1, <2>3, MemberInserted
  <2> QED BY <2>2, <2>4
<1>4. CASE db'.members = db.members
  BY <1>4
<1>5. ASSUME NEW g \in Handlers, Step(g), db'.members # db.members
      PROVE  SSOJoin(h)
  <2>1. g = h
    BY <1>5 DEF Step, Turn
  <2>2. ProvisionOwner(h) \/ Accept(h) \/ AcceptMember(h) \/ SSOJoin(h)
    BY <1>5, <2>1 DEF Step, Touches
  <2> QED BY <2>2, ProvisionOwnerTurn, AcceptTurn, AcceptMemberTurn
<1> QED BY <1>3, <1>4, <1>5, AllSteps, GrowOldStep, RestartStep DEF Only, Tables, vars

-----------------------------------------------------------------------------
(* The stories together.                                                   *)

MembershipInv == InvitesInv /\ JoinsInv /\ MembersInv

LEMMA MembershipInit == Init => MembershipInv
<1> SUFFICES ASSUME Init PROVE MembershipInv
  OBVIOUS
<1>1. next = 20 /\ hist.joined = {} /\ \A h \in Handlers : task[h] = Idle
  BY DEF Init, NoHistory
<1>2. \A h \in Handlers : task[h].pc = "idle" /\ task[h].uid = None
  BY <1>1, IdleShape
<1>3. InvitesInv
  <2>1. /\ \A i \in db.invites : Has(i, InviteFields) /\ i.token \in Nat /\ i.token < next
        /\ \A i, j \in db.invites : i.token = j.token => i = j
    <3>1. /\ \A i \in db.invites : Has(i, InviteFields) /\ i.token \in {10, 11}
          /\ \A i, j \in db.invites : i.token = j.token => i = j
      BY FirstRows
    <3> QED BY SMT, <1>1, <3>1
  <2> QED BY <1>1, <1>2, <2>1 DEF InvitesInv
<1>4. JoinsInv
  <2>1. IsOrg(4) /\ \A i \in db.invites : i.org = 4 /\ ~i.accepted
    BY FirstRows DEF IsOrg
  <2> QED BY <1>2, <2>1 DEF JoinsInv
<1>5. MembersInv
  <2> DEFINE m == Member(5, 4, 3, "owner")
  <2>1. Has(m, MemberFields) /\ m.id = 5
    BY DEF Member, Has, MemberFields
  <2> HIDE DEF m
  <2>2. \A o \in db.members : o = m
    BY FirstRows DEF m
  <2>3. \A o \in db.members : Has(o, MemberFields) /\ o.id \in Nat /\ o.id < next
    BY SMTT(30), <1>1, <2>1, <2>2
  <2> QED BY <1>2, <2>3 DEF MembersInv
<1> QED BY <1>3, <1>4, <1>5 DEF MembershipInv

LEMMA MembershipStep == Core /\ MembershipInv /\ [Next]_vars => MembershipInv'
<1> SUFFICES ASSUME Base, UsersInv, OwnersInv, ResetsInv, MembershipInv, [Next]_vars
             PROVE  MembershipInv'
  BY DEF Core
<1> QED BY InvitesStep, JoinsStep, MembersStep DEF MembershipInv

LEMMA MembershipHolds == Spec => [](Core /\ MembershipInv)
BY CoreHolds, MembershipInit, MembershipStep, PTL DEF Spec

-----------------------------------------------------------------------------
(* What the runs check on small instances.                                 *)

\* An invitation makes one user a member, through AcceptOrgInvitation, where
\* the store checks and marks it under one lock, or requests do not overlap
\* and no statement fails.
THEOREM InvitationsGrantOnce == Spec => []InvitationGrantsOnce
<1>1. MembershipInv => InvitationGrantsOnce
  BY DEF MembershipInv, InvitesInv, ResetTrusted, InvitationGrantsOnce
<1> QED BY <1>1, MembershipHolds, PTL

\* With no failures, an invitation that is marked has made a member, except
\* while PostgreSQL's AcceptOrgInvitation is about to write it: the user and
\* the organization are still there, so the second statement is not refused.
THEOREM InvitationsAreNotWasted == Spec => []SpentInvitationJoined
<1>1. ASSUME MembershipInv PROVE SpentInvitationJoined
  <2>1. \A o : ListOrgInvitations(o) \subseteq db.invites
    BY DEF ListOrgInvitations, Of, MemListOrgInvitations, LiteListOrgInvitations,
           PgListOrgInvitations
  <2>2. UNION { ListOrgInvitations(o.id) : o \in db.orgs } \subseteq db.invites
    BY <2>1
  <2>3. \A i : IsAccepted(i) => i.accepted
    BY DEF IsAccepted
  <2>4. faults = 0 => \A i \in db.invites : i.accepted =>
          \/ \E x \in hist.joined : x[1] = i.token
          \/ \E h \in Handlers : At(h, "acceptMember") /\ task[h].token = i.token
    BY <1>1 DEF MembershipInv, JoinsInv, At
  <2> HIDE DEF IsAccepted
  <2> QED BY <2>2, <2>3, <2>4 DEF SpentInvitationJoined
<1>2. MembershipInv => SpentInvitationJoined
  BY <1>1
<1> QED BY <1>2, MembershipHolds, PTL

\* An SSO sign-in that makes the user a member overwrites no role: with no
\* failures and requests one after another, handleSSOCallback has found no
\* membership when it writes one.
THEOREM SignInsKeepRoles == Spec => SignInKeepsRole
<1> DEFINE A == serial /\ faults' = 0 /\ (\E h \in Handlers : At(h, "ssoJoin") /\ task'[h] # task[h])
                => \A m \in db.members : m.cur => m \in db'.members
<1>1. ASSUME Core, MembershipInv, [Next]_vars PROVE A
  BY <1>1, RoleKept DEF Core, MembershipInv, At
<1>2. Core /\ MembershipInv /\ [Next]_vars => [A]_vars
  BY <1>1
<1> QED BY <1>2, MembershipHolds, PTL DEF Spec, SignInKeepsRole
=============================================================================
