--------------------------- MODULE TenancyProofs ----------------------------
(***************************************************************************)
(* Proofs about Tenancy and Accounts: accounts, passwords and names,       *)
(* projects and API keys.  They hold for every set of handlers, requests,  *)
(* addresses, names and drivers, and however many calls fail, requests     *)
(* overlap, or rows expire.                                                *)
(*                                                                         *)
(* AccountsInv has a part for each story: projects and API keys            *)
(* (ProjectsInv, KeysInv), and what holds while requests do not overlap:   *)
(* sessions follow the password (PasswordsInv), and a sign-in writes back  *)
(* the name it has read (NamesInv).  With Core it is inductive.            *)
(***************************************************************************)
EXTENDS TenancySteps

\* Every leaf is first-order and left to Zenon, unless it cites SMT (arithmetic
\* and records) or PTL (temporal steps).
USE ZenonT(60) DEF None, Ok, Err

-----------------------------------------------------------------------------
(* The inductive invariants.                                               *)

KeyFields == {"id", "hash", "project", "role", "by", "revoked", "indexed"}

\* Projects: IDs identify a row.
ProjectsInv == \A p, q \in db.projects : p.id = q.id => p = q

\* API keys: a key's hash stands for its ID; the in-memory index has exactly
\* the keys that are not revoked; what was reported revoked is.
KeysInv ==
    /\ \A k \in db.keys : /\ Has(k, KeyFields) /\ k.id \in Nat /\ k.id # None /\ k.id < next
                          /\ k.hash = k.id /\ k.revoked \in BOOLEAN /\ k.indexed \in BOOLEAN
                          /\ driver = "memory" => (k.indexed <=> ~k.revoked)
    /\ \A j, k \in db.keys : j.id = k.id => j = k
    /\ \A i \in hist.revoked : \E k \in db.keys : k.id = i /\ k.revoked

\* Requests and sessions go by their user's present password, except while
\* its change has yet to delete the sessions.
Calm == serial /\ faults = 0 /\ (driver = "sqlite" => hist.resets = {})
PasswordsInv ==
    Calm =>
    /\ \A h \in Handlers : task[h].pc \notin AnonymousLabels \cup {"changeEnd"} =>
         \A u \in db.users : u.id = task[h].uid => u.pw = task[h].pw
    /\ \A s \in db.sessions, u \in db.users : s.user = u.id =>
         s.pw = u.pw \/ \E h \in Handlers : task[h].pc = "changeEnd" /\ task[h].uid = u.id

\* A sign-in about to write a picture has the user's present name.
NamesInv ==
    /\ \A p \in hist.renamed : p = <<p[1], p[2]>> /\ IsUser(p[1])
    /\ serial =>
         /\ \A p \in hist.renamed : \A u \in db.users : u.id = p[1] => u.name = p[2]
         /\ \A h \in Handlers : task[h].pc = "picture" =>
              \A u \in db.users : u.id = task[h].uid => u.name = task[h].name

-----------------------------------------------------------------------------
(* Projects.                                                               *)

LEMMA ProjectMade ==
    ASSUME Base, NEW p
    PROVE  LET o == CreateProject(p)
           IN  \/ o.db = db
               \/ o.db.projects = db.projects \cup {p} /\ \A q \in db.projects : q.id # p.id
<1> USE DEF CreateProject, Of, Has, Tables, Base
<1>1. CASE driver = "memory"
  BY <1>1 DEF MemCreateProject, Insert
<1>2. CASE driver = "sqlite"
  BY <1>2 DEF LiteCreateProject, Insert
<1>3. CASE driver # "memory" /\ driver # "sqlite"
  BY <1>3 DEF PgCreateProject, Insert
<1> QED BY <1>1, <1>2, <1>3

LEMMA ProjectWrites ==
    ASSUME Base, NEW h \in Handlers, ProvisionProject(h) \/ CreateProj(h)
    PROVE  db' = db \/ \E p : db' = CreateProject(p).db
<1>1. CASE ProvisionProject(h)
  BY SMT, <1>1 DEF ProvisionProject, Call, CallOr
<1>2. CASE CreateProj(h)
  BY SMT, <1>2 DEF CreateProj, Call, CallOr
<1> QED BY <1>1, <1>2

LEMMA ProjectsStep ==
    ASSUME Base, ProjectsInv, [Next]_vars
    PROVE  ProjectsInv'
<1>1. CASE db'.projects = db.projects
  BY <1>1 DEF ProjectsInv
<1>2. ASSUME NEW h \in Handlers, ProvisionProject(h) \/ CreateProj(h)
      PROVE  ProjectsInv'
  <2>1. CASE db' = db
    BY <2>1 DEF ProjectsInv
  <2>2. ASSUME NEW p, db' = CreateProject(p).db
        PROVE  ProjectsInv'
    <3>1. \/ db' = db
          \/ db'.projects = db.projects \cup {p} /\ \A q \in db.projects : q.id # p.id
      BY <2>2, ProjectMade
    <3> QED BY <3>1 DEF ProjectsInv
  <2> QED BY <1>2, <2>1, <2>2, ProjectWrites
<1>3. CASE GrowOld
  BY <1>1, <1>3, GrowOldStep DEF Only, Tables
<1>4. CASE Restart \/ UNCHANGED vars
  BY <1>1, <1>4, RestartStep DEF vars
<1> QED BY <1>1, <1>2, <1>3, <1>4, StepsTouch DEF Touches

LEMMA FoundProject ==
    ASSUME ProjectsInv, NEW p \in db.projects
    PROVE  GetProject(p.id).ok /\ GetProject(p.id).val = p
<1> DEFINE S == { q \in db.projects : q.id = p.id }
<1>1. S = {p}
  BY DEF ProjectsInv
<1>2. S # {} /\ Some(S) = p
  BY SMTT(30), <1>1, SomeIn
<1> HIDE DEF S
<1>3. First(db, S) = Ok(db, p)
  BY <1>2 DEF First
<1>4. /\ MemGetProject(db, p.id) = First(db, S)
      /\ LiteGetProject(db, p.id) = First(db, S)
      /\ PgGetProject(db, p.id) = First(db, S)
  BY DEF MemGetProject, LiteGetProject, PgGetProject, S
<1> QED BY SMTT(30), <1>3, <1>4 DEF GetProject, Of

LEMMA ProjectsCanBeChosen ==
    ASSUME ProjectsInv
    PROVE  OfferedCanBeChosen
<1> SUFFICES ASSUME NEW u \in db.users, NEW p \in OfferedProjects(u.id)
             PROVE  authorizeProjectAccess(u.id, p.id)
  BY DEF OfferedCanBeChosen
<1>1. CASE IsAdmin(db, u.id)
  <2>1. p \in db.projects
    BY <1>1 DEF OfferedProjects
  <2> QED BY <1>1, <2>1, FoundProject DEF authorizeProjectAccess
<1>2. CASE ~IsAdmin(db, u.id)
  <2>1. PICK o \in ListUserOrganizations(u.id) : p \in ListProjects(o.id)
    BY <1>2 DEF OfferedProjects
  <2>2. p \in db.projects /\ p.org = o.id
    BY <2>1 DEF ListProjects, Of, MemListProjects, LiteListProjects, PgListProjects
  <2> QED BY <2>1, <2>2, FoundProject DEF authorizeProjectAccess
<1> QED BY <1>1, <1>2

-----------------------------------------------------------------------------
(* API keys.                                                               *)

\* A new key, in use, has been added.
KeyAdded(S, R) ==
    \E k : /\ Has(k, KeyFields) /\ k.id = next /\ k.hash = next
          /\ k.revoked = FALSE /\ k.indexed = TRUE /\ R = S \cup {k}

LEMMA KeyMade ==
    ASSUME Base, KeysInv, NEW p, NEW r, NEW u
    PROVE  LET o == CreateAPIKey(APIKey(next, next, p, r, u))
           IN  o.db = db \/ KeyAdded(db.keys, o.db.keys)
<1> DEFINE k == APIKey(next, next, p, r, u)
           o == CreateAPIKey(k)
<1>1. /\ Has(k, KeyFields) /\ k.id = next /\ k.hash = next
      /\ k.revoked = FALSE /\ k.indexed = TRUE
  BY DEF APIKey, Has, KeyFields
<1>2. next # None /\ \A j \in db.keys : j.id # next
  BY SMT DEF Base, KeysInv
<1>3. o.db = db \/ o.db.keys = db.keys \cup {k}
  <2> HIDE DEF k
  <2>0. [k EXCEPT !.revoked = FALSE] = k /\ [k EXCEPT !.revoked = FALSE, !.indexed = TRUE] = k
    BY <1>1 DEF Has, KeyFields
  <2>1. CASE driver = "memory"
    <3> DEFINE old == { j \in db.keys : j.id = k.id }
    <3>1. old = {}
      BY <1>1, <1>2
    <3>2. (k.hash # None \/ \E j \in old : j.indexed) = TRUE
      BY <1>1, <1>2
    <3>3. o = Insert(Delete(db, "keys", {}), "keys", k, FALSE)
      BY <2>0, <2>1, <3>1, <3>2 DEF CreateAPIKey, Of, MemCreateAPIKey
    <3> HIDE DEF o, old
    <3> QED BY <3>3 DEF Insert, Delete, Base, Has, Tables
  <2>2. CASE driver = "sqlite"
    <3>1. o = Insert(db, "keys", k, \E j \in db.keys : j.id = k.id \/ j.hash = k.hash)
      BY <2>0, <2>2 DEF CreateAPIKey, Of, LiteCreateAPIKey
    <3> HIDE DEF o
    <3> QED BY <3>1 DEF Insert, Base, Has, Tables
  <2>3. CASE driver # "memory" /\ driver # "sqlite"
    <3>1. o = Insert(db, "keys", k, \E j \in db.keys : j.id = k.id \/ j.hash = k.hash)
      BY <2>0, <2>3 DEF CreateAPIKey, Of, PgCreateAPIKey
    <3> HIDE DEF o
    <3> QED BY <3>1 DEF Insert, Base, Has, Tables
  <2> QED BY <2>1, <2>2, <2>3
<1> HIDE DEF o, k
<1>4. o.db = db \/ KeyAdded(db.keys, o.db.keys)
  BY <1>1, <1>3 DEF KeyAdded
<1> QED BY <1>4 DEF o, k

\* The key old has been revoked, and nothing else.
KeyRevoked(S, R, i) ==
    \E old \in S : \E new :
      /\ old.id = i /\ Has(new, KeyFields) /\ new.id = i /\ new.hash = old.hash
      /\ new.revoked = TRUE /\ new.indexed \in BOOLEAN
      /\ driver = "memory" => new.indexed = FALSE
      /\ R = (S \ {old}) \cup {new}

LEMMA KeyGone ==
    ASSUME Base, KeysInv, NEW p, NEW i
    PROVE  LET o == RevokeAPIKeyByProject(p, i)
           IN  (~o.ok /\ o.db = db) \/ (o.ok /\ KeyRevoked(db.keys, o.db.keys, i))
<1> DEFINE own == { k \in db.keys : k.id = i /\ k.project = p }
           k == Some(own)
<1>1. own # {} => k \in db.keys /\ k.id = i
  BY SomeIn
<1>2. ASSUME own # {}
      PROVE  /\ Has(k, KeyFields) /\ k.hash # None /\ k.indexed \in BOOLEAN
  BY SMT, <1>1, <1>2 DEF KeysInv
<1> DEFINE m == [k EXCEPT !.revoked = TRUE, !.indexed = @ /\ k.hash = None]
           n == [k EXCEPT !.revoked = TRUE]
<1>3. ASSUME own # {}
      PROVE  /\ Has(m, KeyFields) /\ m.id = k.id /\ m.hash = k.hash /\ m.revoked = TRUE
             /\ Has(n, KeyFields) /\ n.id = k.id /\ n.hash = k.hash /\ n.revoked = TRUE
             /\ n.indexed = k.indexed
  <2> HIDE DEF own, k
  <2> QED BY <1>2, <1>3 DEF Has, KeyFields
<1>4. ASSUME own # {}
      PROVE  m.indexed = FALSE
  <2> HIDE DEF own, k
  <2>1. m.indexed = (k.indexed /\ k.hash = None)
    BY <1>2, <1>4 DEF Has, KeyFields
  <2> HIDE DEF m
  <2>2. k.hash # None
    BY <1>2, <1>4
  <2> QED BY <2>1, <2>2
<1>5. MemRevokeAPIKeyByProject(db, p, i) =
        IF own = {} THEN Err(db) ELSE Ok(Update(db, "keys", k, m), i)
  BY SomeIn DEF MemRevokeAPIKeyByProject
<1>6. /\ LiteRevokeAPIKeyByProject(db, p, i) =
           IF own = {} THEN Err(db) ELSE Ok(Update(db, "keys", k, n), i)
      /\ PgRevokeAPIKeyByProject(db, p, i) =
           IF own = {} THEN Err(db) ELSE Ok(Update(db, "keys", k, n), i)
  BY SomeIn DEF LiteRevokeAPIKeyByProject, PgRevokeAPIKeyByProject
<1> HIDE DEF own, k, m, n
<1> DEFINE o == RevokeAPIKeyByProject(p, i)
<1>7. CASE own = {}
  BY SMTT(30), <1>5, <1>6, <1>7 DEF RevokeAPIKeyByProject, Of
<1>8. CASE own # {}
  <2>1. /\ o.ok
        /\ \E x : /\ x = m \/ (x = n /\ driver # "memory")
                  /\ o.db.keys = (db.keys \ {k}) \cup {x}
    <3>1. Has(db, Tables) /\ "keys" \in Tables
      BY DEF Base, Tables
    <3>2. /\ Update(db, "keys", k, m).keys = (db.keys \ {k}) \cup {m}
          /\ Update(db, "keys", k, n).keys = (db.keys \ {k}) \cup {n}
      BY <3>1 DEF Update, Has, Tables
    <3> QED BY SMTT(30), <1>5, <1>6, <1>8, <3>2 DEF RevokeAPIKeyByProject, Of
  <2> HIDE DEF o
  <2>2. o.ok /\ KeyRevoked(db.keys, o.db.keys, i)
    BY <1>1, <1>2, <1>3, <1>4, <1>8, <2>1 DEF KeyRevoked
  <2> QED BY <2>2 DEF o
<1> QED BY <1>7, <1>8

LEMMA KeyCreateWrites ==
    ASSUME NEW h \in Handlers, KeyCreate(h)
    PROVE  /\ next' = next + 1 /\ hist' = hist
           /\ db' = db \/ \E p, r, u : db' = CreateAPIKey(APIKey(next, next, p, r, u)).db
BY SMT DEF KeyCreate, Call, CallOr

LEMMA HistRevoked ==
    ASSUME Base, NEW S
    PROVE  [hist EXCEPT !.revoked = S].revoked = S
BY DEF Base, Has, Histories

LEMMA KeyRevokeWrites ==
    ASSUME Base, NEW h \in Handlers, KeyRevoke(h)
    PROVE  /\ next' = next
           /\ \/ db' = db /\ hist' = hist
              \/ \E p, i : LET o == RevokeAPIKeyByProject(p, i)
                           IN  /\ db' = o.db
                               /\ hist'.revoked = IF o.ok THEN hist.revoked \cup {i}
                                                  ELSE hist.revoked
<1>1. next' = next
  BY DEF KeyRevoke
<1>2. \E k \in db.keys :
        \/ db' = db /\ hist' = hist
        \/ LET o == RevokeAPIKeyByProject(k.project, k.id)
           IN  db' = o.db /\ hist' = IF o.ok THEN [hist EXCEPT !.revoked = @ \cup {k.id}] ELSE hist
  BY SMT DEF KeyRevoke, Call, CallOr
<1>3. PICK k \in db.keys :
        \/ db' = db /\ hist' = hist
        \/ LET o == RevokeAPIKeyByProject(k.project, k.id)
           IN  db' = o.db /\ hist' = IF o.ok THEN [hist EXCEPT !.revoked = @ \cup {k.id}] ELSE hist
  BY <1>2
<1>4. [hist EXCEPT !.revoked = @ \cup {k.id}].revoked = hist.revoked \cup {k.id}
  BY HistRevoked
<1> QED BY <1>1, <1>3, <1>4

LEMMA KeysStep ==
    ASSUME Base, KeysInv, [Next]_vars
    PROVE  KeysInv'
<1>1. next' \in {next, next + 1} /\ next \in Nat /\ next # None
  BY SMT, NextGrows DEF Base
<1>2. driver' = driver
  <2>1. ASSUME NEW h \in Handlers, Plain(h) \/ Arriving(h) \/ Writing(h)
        PROVE  driver' = driver
    BY <2>1, ArrivingTurn, WritingTurn DEF Plain, Turn
  <2> QED BY <2>1, Steps, GrowOldStep, RestartStep DEF vars
<1>3. CASE db'.keys = db.keys /\ hist'.revoked = hist.revoked
  BY SMTT(30), <1>1, <1>2, <1>3 DEF KeysInv
<1>4. ASSUME NEW h \in Handlers, KeyCreate(h)
      PROVE  KeysInv'
  <2>1. next' = next + 1 /\ hist' = hist
    BY <1>4, KeyCreateWrites
  <2>2. CASE db' = db
    BY <1>3, <2>1, <2>2
  <2>3. ASSUME NEW k, Has(k, KeyFields), k.id = next, k.hash = next, k.revoked = FALSE,
               k.indexed = TRUE, db'.keys = db.keys \cup {k}
        PROVE  KeysInv'
    <3>1. hist'.revoked = hist.revoked
      BY <2>1
    <3>2. \A j \in db'.keys :
            /\ Has(j, KeyFields) /\ j.id \in Nat /\ j.id # None /\ j.id < next'
            /\ j.hash = j.id
      BY SMT, <1>1, <2>1, <2>3 DEF KeysInv
    <3>5. \A j \in db'.keys : /\ j.revoked \in BOOLEAN /\ j.indexed \in BOOLEAN
                              /\ driver = "memory" => (j.indexed <=> ~j.revoked)
      BY <2>3, Zenon DEF KeysInv
    <3>3. \A i, j \in db'.keys : i.id = j.id => i = j
      BY SMT, <1>1, <2>3 DEF KeysInv
    <3>4. \A i \in hist'.revoked : \E j \in db'.keys : j.id = i /\ j.revoked
      BY <2>3, <3>1 DEF KeysInv
    <3> QED BY <1>2, <3>2, <3>3, <3>4, <3>5 DEF KeysInv
  <2>4. ASSUME NEW p, NEW r, NEW u, db' = CreateAPIKey(APIKey(next, next, p, r, u)).db
        PROVE  KeysInv'
    <3>1. db' = db \/ KeyAdded(db.keys, db'.keys)
      BY <2>4, KeyMade
    <3> QED BY <2>2, <2>3, <3>1 DEF KeyAdded
  <2> QED BY <1>4, <2>2, <2>4, KeyCreateWrites
<1>5. ASSUME NEW h \in Handlers, KeyRevoke(h)
      PROVE  KeysInv'
  <2>1. CASE db' = db /\ hist' = hist
    BY <1>3, <2>1
  <2>2. ASSUME NEW i, KeyRevoked(db.keys, db'.keys, i),
               hist'.revoked = hist.revoked \cup {i}
        PROVE  KeysInv'
    <3>1. PICK old \in db.keys : \E new :
            /\ old.id = i /\ Has(new, KeyFields) /\ new.id = i /\ new.hash = old.hash
            /\ new.revoked = TRUE /\ new.indexed \in BOOLEAN
            /\ driver = "memory" => new.indexed = FALSE
            /\ db'.keys = (db.keys \ {old}) \cup {new}
      BY <2>2 DEF KeyRevoked
    <3>2. PICK new :
            /\ old.id = i /\ Has(new, KeyFields) /\ new.id = i /\ new.hash = old.hash
            /\ new.revoked = TRUE /\ new.indexed \in BOOLEAN
            /\ driver = "memory" => new.indexed = FALSE
            /\ db'.keys = (db.keys \ {old}) \cup {new}
      BY <3>1
    <3>3. \A j \in db'.keys :
            /\ Has(j, KeyFields) /\ j.id \in Nat /\ j.id # None /\ j.id < next'
            /\ j.hash = j.id
      BY SMT, <1>1, <3>2 DEF KeysInv
    <3>6. \A j \in db'.keys : /\ j.revoked \in BOOLEAN /\ j.indexed \in BOOLEAN
                              /\ driver = "memory" => (j.indexed <=> ~j.revoked)
      BY <3>2, Zenon DEF KeysInv
    <3>4. \A k, j \in db'.keys : k.id = j.id => k = j
      BY SMT, <3>2 DEF KeysInv
    <3>5. \A k \in hist'.revoked : \E j \in db'.keys : j.id = k /\ j.revoked
      BY SMT, <2>2, <3>2 DEF KeysInv
    <3> QED BY <1>2, <3>3, <3>4, <3>5, <3>6 DEF KeysInv
  <2>3. ASSUME NEW p, NEW i, db' = RevokeAPIKeyByProject(p, i).db,
               hist'.revoked = IF RevokeAPIKeyByProject(p, i).ok THEN hist.revoked \cup {i}
                               ELSE hist.revoked
        PROVE  KeysInv'
    <3>1. \/ ~RevokeAPIKeyByProject(p, i).ok /\ db' = db
          \/ RevokeAPIKeyByProject(p, i).ok /\ KeyRevoked(db.keys, db'.keys, i)
      BY <2>3, KeyGone
    <3> QED BY <1>3, <2>2, <2>3, <3>1
  <2> QED BY <1>5, <2>1, <2>3, KeyRevokeWrites
<1>6. CASE GrowOld
  BY <1>3, <1>6, GrowOldStep DEF Only, Tables
<1>7. CASE Restart \/ UNCHANGED vars
  BY <1>3, <1>7, RestartStep DEF vars
<1> QED BY <1>3, <1>4, <1>5, <1>6, <1>7, StepsTouch DEF Touches

LEMMA KeyAccepted ==
    ASSUME KeysInv, NEW i
    PROVE  GetAPIKeyByHash(i).ok <=> \E k \in db.keys : k.id = i /\ ~k.revoked
<1> DEFINE S == { k \in db.keys : k.id = i /\ k.indexed /\ ~k.revoked }
           R == { k \in db.keys : k.hash = i /\ ~k.revoked }
<1>1. CASE driver = "memory"
  <2>1. GetAPIKeyByHash(i).ok <=> S # {}
    BY <1>1 DEF GetAPIKeyByHash, Of, MemGetAPIKeyByHash, First
  <2>2. S # {} <=> \E k \in db.keys : k.id = i /\ ~k.revoked
    BY <1>1 DEF KeysInv
  <2> QED BY <2>1, <2>2
<1>2. CASE driver # "memory"
  <2>1. GetAPIKeyByHash(i).ok <=> R # {}
    BY <1>2 DEF GetAPIKeyByHash, Of, LiteGetAPIKeyByHash, First, PgGetAPIKeyByHash
  <2>2. R # {} <=> \E k \in db.keys : k.id = i /\ ~k.revoked
    BY SMT DEF KeysInv
  <2> QED BY <2>1, <2>2
<1> QED BY <1>1, <1>2

LEMMA ListedKey ==
    ASSUME KeysInv, NEW p, NEW k \in ListAPIKeysByProject(p)
    PROVE  \E j \in db.keys : k.id = j.id /\ k.revoked = j.revoked
<1>1. PICK j \in db.keys : k = [j EXCEPT !.hash = None]
  BY DEF ListAPIKeysByProject, Of, MemListAPIKeysByProject, LiteListAPIKeysByProject,
         PgListAPIKeysByProject
<1>2. Has(j, KeyFields)
  BY DEF KeysInv
<1> QED BY <1>1, <1>2 DEF Has, KeyFields

LEMMA RevokedStayOut ==
    ASSUME KeysInv
    PROVE  RevokedKeysStayOut
<1>1. ASSUME NEW i \in hist.revoked PROVE ~GetAPIKeyByHash(i).ok
  <2>1. PICK k \in db.keys : k.id = i /\ k.revoked
    BY DEF KeysInv
  <2>2. \A j \in db.keys : j.id = i => j.revoked
    BY <2>1 DEF KeysInv
  <2> QED BY <2>2, KeyAccepted
<1>2. ASSUME NEW p, NEW k \in ListAPIKeysByProject(p)
      PROVE  k.revoked <=> ~GetAPIKeyByHash(k.id).ok
  <2>1. PICK j \in db.keys : k.id = j.id /\ k.revoked = j.revoked
    BY ListedKey
  <2>2. \A l \in db.keys : l.id = k.id => l = j
    BY <2>1 DEF KeysInv
  <2>3. GetAPIKeyByHash(k.id).ok <=> \E l \in db.keys : l.id = k.id /\ ~l.revoked
    BY KeyAccepted
  <2> QED BY <2>1, <2>2, <2>3
<1> QED BY <1>1, <1>2 DEF RevokedKeysStayOut

-----------------------------------------------------------------------------
(* Passwords and the sessions opened under them.                           *)

\* Unless it writes a password, a step leaves every account the one it has.
LEMMA PasswordsKept ==
    ASSUME Base, UsersInv, NEW h \in Handlers, Touches(h),
           ~ChangeWrite(h), ~Reset(h), ~ResetWrite(h)
    PROVE  \A v \in db'.users : \/ v.id = next
                                \/ \E u \in db.users : u.id = v.id /\ u.pw = v.pw
<1>1. ASSUME NEW i, NEW n, NameSet(db.users, db'.users, i, n)
      PROVE  \A v \in db'.users : \E u \in db.users : u.id = v.id /\ u.pw = v.pw
  BY <1>1 DEF NameSet, Rewritten
<1>2. CASE CreateAccount(h)
  <2> DEFINE u == NewUser(next, task[h].email, next, task[h].name, task[h].avatar)
  <2>1. u.id = next
    BY DEF NewUser
  <2>2. db'.users = db.users \/ db'.users = db.users \cup {u}
    BY <1>2, CreateAccountWrites
  <2> HIDE DEF u
  <2> QED BY <2>1, <2>2
<1>3. CASE OAuthPicture(h)
  BY <1>1, <1>3, OAuthPictureWrites
<1>4. CASE ProfileWrite(h)
  BY <1>1, <1>4, ProfileWrites
<1> QED BY <1>2, <1>3, <1>4 DEF Touches

\* A step under which a story of calm goes on: no other request is under way,
\* and nothing fails.
LEMMA CalmStep ==
    ASSUME Base, UsersInv, OwnersInv, ResetsInv, [Next]_vars, Calm'
    PROVE  Calm /\ faults' = faults
<1>1. driver' = driver /\ faults' \in {faults, faults + 1} /\ faults \in Nat /\ (serial' => serial)
  BY FrameSteps
<1>2. hist.resets \subseteq hist'.resets
  <2>1. Tokens(db.resets, ResetFields)
    BY DEF ResetsInv, Tokens
  <2>2. ASSUME NEW h \in Handlers, Step(h), Reset(h)
        PROVE  hist.resets \subseteq hist'.resets
    BY <2>1, <2>2, ResetEffect DEF ResetIdle, ResetDone
  <2>3. ASSUME NEW h \in Handlers, Step(h), ResetWrite(h)
        PROVE  hist.resets \subseteq hist'.resets
    <3>1. driver = "postgres" /\ \E r \in db.resets : r.token = task[h].token
      BY <2>3, ResetWriteTurn DEF ResetsInv
    <3> QED BY <2>1, <2>3, <3>1, ResetWriteEffect DEF ResetIdle, ResetDone
  <2>4. ASSUME NEW h \in Handlers, Step(h), ~Reset(h), ~ResetWrite(h)
        PROVE  hist.resets \subseteq hist'.resets
    BY <2>4 DEF Step, Touches
  <2> QED BY <2>2, <2>3, <2>4, AllSteps, GrowOldStep, RestartStep DEF vars
<1> QED BY SMT, <1>1, <1>2 DEF Calm

\* The two halves of PasswordsInv, without the condition.
RequestsCurrent ==
    \A h \in Handlers : task[h].pc \notin AnonymousLabels \cup {"changeEnd"} =>
      \A u \in db.users : u.id = task[h].uid => u.pw = task[h].pw
SessionsCurrent ==
    \A s \in db.sessions, u \in db.users : s.user = u.id =>
      s.pw = u.pw \/ \E h \in Handlers : task[h].pc = "changeEnd" /\ task[h].uid = u.id

LEMMA RequestsStep ==
    ASSUME Base, UsersInv, OwnersInv, ResetsInv, PasswordsInv, [Next]_vars, Calm'
    PROVE  RequestsCurrent'
<1>1. Calm /\ RequestsCurrent
  BY CalmStep DEF PasswordsInv, RequestsCurrent
<1>2. ASSUME NEW h \in Handlers, Step(h)
      PROVE  RequestsCurrent'
  <2>1. /\ \A g \in Handlers \ {h} : task'[g] = Idle
        /\ Touches(h) /\ Serves(h) /\ Leaves(h)
    BY <1>2 DEF Step, Turn, Calm
  <2>2. SUFFICES ASSUME task'[h].pc \notin AnonymousLabels \cup {"changeEnd"},
                        NEW v \in db'.users, v.id = task'[h].uid
                 PROVE  v.pw = task'[h].pw
    BY <2>1, IdleShape DEF RequestsCurrent, AnonymousLabels
  <2>3. ~ChangeWrite(h) /\ ~Reset(h) /\ ~ResetWrite(h) /\ task[h].pc # "changeEnd"
    <3>1. ~ChangeWrite(h)
      BY <2>2, ChangeWriteTurn, IdleShape DEF Moves, AnonymousLabels
    <3>2. ~Reset(h)
      BY <2>2, ResetTurn, IdleShape DEF AnonymousLabels
    <3>3. ~ResetWrite(h)
      BY <2>2, ResetWriteTurn, IdleShape DEF Moves, AnonymousLabels
    <3>4. ~ChangeEnd(h)
      BY <2>2, ChangeEndTurn, IdleShape DEF Moves, AnonymousLabels
    <3> QED BY <2>1, <3>1, <3>2, <3>3, <3>4 DEF Leaves
  <2>4. v.id = next \/ \E u \in db.users : u.id = v.id /\ u.pw = v.pw
    BY <2>1, <2>3, PasswordsKept
  <2>5. \A u \in db.users : u.id # next
    BY SMT DEF UsersInv, Base
  <2>6. ASSUME NEW u \in db.users, u.id = task'[h].uid, u.pw = task'[h].pw
        PROVE  v.pw = task'[h].pw
    BY <2>2, <2>4, <2>5, <2>6 DEF UsersInv
  <2>7. CASE /\ task[h].pc \notin AnonymousLabels
             /\ task'[h].uid = task[h].uid /\ task'[h].pw = task[h].pw
    <3>1. PICK u \in db.users : u.id = task[h].uid
      BY <2>7 DEF OwnersInv, IsUser
    <3>2. u.pw = task[h].pw
      BY <1>1, <2>3, <2>7, <3>1 DEF RequestsCurrent
    <3> QED BY <2>6, <2>7, <3>1, <3>2
  <2>8. ASSUME NEW u \in db'.users, task'[h].uid = u.id, task'[h].pw = u.pw
        PROVE  v.pw = task'[h].pw
    <3>1. UsersInv'
      BY UsersStep
    <3> QED BY <2>2, <2>8, <3>1 DEF UsersInv
  <2> QED BY <2>1, <2>2, <2>6, <2>7, <2>8 DEF Serves
<1>3. CASE GrowOld
  <2>1. task' = task /\ db'.users = db.users
    BY <1>3, GrowOldStep DEF Only, Tables
  <2> QED BY <1>1, <2>1 DEF RequestsCurrent
<1>4. CASE Restart
  BY SMTT(30), <1>4, RestartStep, CalmStep DEF Base
<1>5. CASE UNCHANGED vars
  BY <1>1, <1>5 DEF vars, RequestsCurrent
<1> QED BY <1>2, <1>3, <1>4, <1>5, AllSteps

LEMMA SessionsStep ==
    ASSUME Base, UsersInv, OwnersInv, ResetsInv, PasswordsInv, [Next]_vars, Calm'
    PROVE  SessionsCurrent'
<1>1. Calm /\ RequestsCurrent /\ SessionsCurrent /\ faults' = faults
  BY CalmStep DEF PasswordsInv, RequestsCurrent, SessionsCurrent
<1>2. \A u \in db.users : u.id # next
  BY SMT DEF UsersInv, Base
  \* A session of the next table that is current now, or whose user has just
  \* had the password changed.
<1>3. ASSUME NEW s \in db'.sessions, NEW u \in db.users, s.user = u.id
      PROVE  \/ s.pw = u.pw
             \/ \E h \in Handlers : task[h].pc = "changeEnd" /\ task[h].uid = u.id
  <2>1. CASE Alike(s)
    BY <1>1, <1>3, <2>1 DEF Alike, SessionsCurrent
  <2>2. ASSUME NEW h \in Handlers, Opened(s, h)
        PROVE  s.pw = u.pw
    BY <1>1, <1>3, <2>2 DEF Opened, RequestsCurrent, AnonymousLabels
  <2> QED BY <2>1, <2>2, SessionsMove
<1>4. \A s \in db'.sessions : IsUser(s.user)
  <2>1. \A s : Alike(s) => IsUser(s.user)
    BY DEF Alike, OwnersInv
  <2>2. \A s : \A h \in Handlers : Opened(s, h) => IsUser(s.user)
    BY DEF Opened, OwnersInv, AnonymousLabels
  <2> QED BY <2>1, <2>2, SessionsMove
<1>5. ASSUME NEW h \in Handlers, Step(h)
      PROVE  SessionsCurrent'
  <2>1. /\ \A g \in Handlers \ {h} : task[g] = Idle /\ task'[g] = Idle
        /\ Touches(h) /\ Leaves(h)
    BY <1>5 DEF Step, Turn, Calm
  <2>2. ASSUME NEW s \in db'.sessions, NEW u \in db.users, s.user = u.id
        PROVE  s.pw = u.pw
    <3>1. SUFFICES ASSUME task[h].pc = "changeEnd", task[h].uid = u.id
                   PROVE  FALSE
      BY <1>3, <2>1, <2>2, IdleShape
    <3>2. ChangeEnd(h)
      BY <2>1, <3>1 DEF Leaves
    <3>3. db' = DeleteUserSessions(task[h].uid).db
      BY SMTT(30), <1>1, <3>2 DEF ChangeEnd, Call, CallOr, Base
    <3>4. db'.sessions = { r \in db.sessions : r.user # task[h].uid }
      BY <3>3, SessionWrites
    <3> QED BY <2>2, <3>1, <3>4
  <2>3. SUFFICES ASSUME NEW s \in db'.sessions, NEW v \in db'.users, s.user = v.id
                 PROVE  \/ s.pw = v.pw
                        \/ task'[h].pc = "changeEnd" /\ task'[h].uid = v.id
    BY DEF SessionsCurrent
  <2>4. PICK u \in db.users : u.id = v.id /\ s.pw = u.pw
    BY <1>4, <2>2, <2>3 DEF IsUser
  <2>5. ASSUME v \in db.users PROVE s.pw = v.pw
    BY <2>2, <2>3, <2>5
  <2>6. ASSUME NEW i, NEW pw, PasswordSet(db.users, db'.users, i, pw), v.id # i
        PROVE  v \in db.users
    BY <2>6 DEF PasswordSet, Rewritten
  <2>7. ASSUME NEW k, ResetDone(k) PROVE s.pw = v.pw
    <3>1. driver # "sqlite"
      <4>1. driver = "sqlite" => hist'.resets = {}
        BY FrameSteps DEF Calm
      <4> QED BY <2>7, <4>1 DEF ResetDone
    <3>2. PICK i : /\ PasswordSet(db.users, db'.users, i, next)
                   /\ db'.sessions = { r \in db.sessions : r.user # i }
      BY <2>7, <3>1 DEF ResetDone
    <3>3. v.id # i
      BY <2>3, <3>2
    <3> QED BY <2>5, <2>6, <3>2, <3>3
  <2>8. Tokens(db.resets, ResetFields)
    BY DEF ResetsInv, Tokens
  <2>9. CASE Reset(h)
    BY <2>5, <2>7, <2>8, <2>9, ResetEffect DEF ResetIdle
  <2>10. CASE ResetWrite(h)
    <3>1. driver = "postgres" /\ \E r \in db.resets : r.token = task[h].token
      BY <2>10, ResetWriteTurn DEF ResetsInv
    <3> QED BY <2>5, <2>7, <2>8, <2>10, <3>1, ResetWriteEffect DEF ResetIdle
  <2>11. CASE ChangeWrite(h)
    BY <2>5, <2>6, <2>11, ChangeWrites
  <2>12. CASE ~ChangeWrite(h) /\ ~Reset(h) /\ ~ResetWrite(h)
    <3>1. \E w \in db.users : w.id = v.id /\ w.pw = v.pw
      BY <1>2, <2>1, <2>4, <2>12, PasswordsKept
    <3> QED BY <2>4, <3>1 DEF UsersInv
  <2> QED BY <2>9, <2>10, <2>11, <2>12
<1>6. CASE GrowOld
  <2>1. task' = task /\ db'.users = db.users
    BY <1>6, GrowOldStep DEF Only, Tables
  <2> QED BY <1>3, <2>1 DEF SessionsCurrent
<1>7. CASE Restart
  BY SMTT(30), <1>1, <1>7, RestartStep DEF Base
<1>8. CASE UNCHANGED vars
  BY <1>1, <1>8 DEF vars, SessionsCurrent
<1> QED BY <1>5, <1>6, <1>7, <1>8, AllSteps

LEMMA PasswordsStep ==
    ASSUME Base, UsersInv, OwnersInv, ResetsInv, PasswordsInv, [Next]_vars
    PROVE  PasswordsInv'
BY RequestsStep, SessionsStep DEF PasswordsInv, RequestsCurrent, SessionsCurrent

-----------------------------------------------------------------------------
(* Names.                                                                  *)

\* Unless the user changes the profile, a step leaves every account its name.
LEMMA NamesKept ==
    ASSUME Base, UsersInv, OwnersInv, ResetsInv, NamesInv, serial, NEW h \in Handlers, Touches(h),
           ~ProfileWrite(h)
    PROVE  \A v \in db'.users : \/ v.id = next
                                \/ \E u \in db.users : u.id = v.id /\ u.name = v.name
<1>1. ASSUME NEW i, NEW pw, PasswordSet(db.users, db'.users, i, pw)
      PROVE  \A v \in db'.users : \E u \in db.users : u.id = v.id /\ u.name = v.name
  BY <1>1 DEF PasswordSet, Rewritten
<1>2. CASE CreateAccount(h)
  <2> DEFINE u == NewUser(next, task[h].email, next, task[h].name, task[h].avatar)
  <2>1. u.id = next
    BY DEF NewUser
  <2>2. db'.users = db.users \/ db'.users = db.users \cup {u}
    BY <1>2, CreateAccountWrites
  <2> HIDE DEF u
  <2> QED BY <2>1, <2>2
<1>3. CASE OAuthPicture(h)
  <2>1. task[h].pc = "picture"
    BY <1>3, OAuthPictureTurn
  <2>2. \A u \in db.users : u.id = task[h].uid => u.name = task[h].name
    BY <2>1 DEF NamesInv
  <2>3. ASSUME NameSet(db.users, db'.users, task[h].uid, task[h].name)
        PROVE  \A v \in db'.users : \E u \in db.users : u.id = v.id /\ u.name = v.name
    BY <2>2, <2>3 DEF NameSet, Rewritten
  <2> QED BY <1>3, <2>3, OAuthPictureWrites
<1>4. CASE ChangeWrite(h)
  BY <1>1, <1>4, ChangeWrites
<1>5. Tokens(db.resets, ResetFields)
  BY DEF ResetsInv, Tokens
<1>6. ASSUME NEW k, ResetDone(k)
      PROVE  \A v \in db'.users : \E u \in db.users : u.id = v.id /\ u.name = v.name
  BY <1>1, <1>6 DEF ResetDone, UsersReset
<1>7. CASE Reset(h)
  BY <1>5, <1>6, <1>7, ResetEffect DEF ResetIdle
<1>8. CASE ResetWrite(h)
  <2>1. driver = "postgres" /\ \E r \in db.resets : r.token = task[h].token
    BY <1>8, ResetWriteTurn DEF ResetsInv
  <2> QED BY <1>5, <1>6, <1>8, <2>1, ResetWriteEffect DEF ResetIdle
<1> QED BY <1>2, <1>3, <1>4, <1>7, <1>8 DEF Touches

LEMMA NamesStep ==
    ASSUME Base, UsersInv, OwnersInv, ResetsInv, NamesInv, [Next]_vars
    PROVE  NamesInv'
<1>1. \A i : IsUser(i) => \E v \in db'.users : v.id = i
  BY UsersStep DEF IsUser
<1>2. \A u, v \in db'.users : u.id = v.id => u = v
  BY UsersStep DEF UsersInv
<1>3. (serial' => serial) /\ \A u \in db.users : u.id # next
  BY SMT, FrameSteps DEF UsersInv, Base
<1>4. ASSUME hist'.renamed = hist.renamed, db'.users = db.users,
             \A h \in Handlers : task'[h].pc = "picture" => task'[h] = task[h]
      PROVE  NamesInv'
  BY SMTT(30), <1>1, <1>3, <1>4 DEF NamesInv, IsUser
<1>5. ASSUME NEW h \in Handlers, Step(h), ProfileWrite(h)
      PROVE  NamesInv'
  <2>1. task[h].pc = "profile" /\ task'[h] = Idle
    BY <1>5, ProfileWriteTurn DEF Moves
  <2>2. /\ \A g \in Handlers : task'[g].pc = "picture" => task'[g] = task[g]
        /\ serial' => \A g \in Handlers : task'[g] = Idle
    BY <1>5, <2>1, IdleShape DEF Step, Turn
  <2>3. CASE db'.users = db.users /\ hist' = hist
    BY <1>4, <2>2, <2>3
  <2>4. ASSUME NameSet(db.users, db'.users, task[h].uid, "new"),
               hist'.renamed = SetFor(hist.renamed, task[h].uid, "new")
        PROVE  NamesInv'
    <3> DEFINE i == task[h].uid
    <3>1. IsUser(i)
      BY <2>1 DEF OwnersInv, AnonymousLabels
    <3>2. \A p \in hist'.renamed : \/ p \in hist.renamed /\ p[1] # i
                                   \/ p[1] = i /\ p[2] = "new" /\ p = <<p[1], p[2]>>
      BY SMT, <2>4 DEF SetFor
    <3>3. "new" # NoText
      BY DEF NoText
    <3>4. PICK old, new : /\ old \in db.users /\ new.id = old.id /\ old.id = i
                          /\ new.name = "new"
                          /\ db'.users = (db.users \ {old}) \cup {new}
      BY <2>4, <3>3 DEF NameSet, Rewritten
    <3>5. \A p \in hist'.renamed : p = <<p[1], p[2]>> /\ \E v \in db'.users : v.id = p[1]
      BY <1>1, <3>1, <3>2 DEF NamesInv
    <3>6. \A v \in db'.users : IF v.id = i THEN v.name = "new" ELSE v \in db.users
      BY <3>4 DEF UsersInv
    <3>7. serial' => \A p \in hist'.renamed : \A v \in db'.users : v.id = p[1] => v.name = p[2]
      BY <1>3, <3>2, <3>6 DEF NamesInv
    <3>8. serial' => \A g \in Handlers : task'[g].pc # "picture"
      BY <2>2, IdleShape
    <3> QED BY <3>5, <3>7, <3>8 DEF NamesInv, IsUser
  <2> QED BY <1>5, <2>3, <2>4, ProfileWrites
<1>6. ASSUME NEW h \in Handlers, Step(h), ~ProfileWrite(h)
      PROVE  NamesInv'
  <2>1. /\ \A g \in Handlers \ {h} : task'[g] = task[g]
        /\ Touches(h) /\ Enters(h) /\ hist'.renamed = hist.renamed
    BY <1>6 DEF Step, Turn, Touches
  <2>2. serial' => \A v \in db'.users : \/ v.id = next
                                        \/ \E u \in db.users : u.id = v.id /\ u.name = v.name
    BY <1>3, <1>6, <2>1, NamesKept
  <2>3. \A p \in hist'.renamed : /\ p = <<p[1], p[2]>> /\ IsUser(p[1])
                                 /\ \E v \in db'.users : v.id = p[1]
    BY <1>1, <2>1 DEF NamesInv
  <2>4. serial' => \A p \in hist'.renamed : \A v \in db'.users : v.id = p[1] => v.name = p[2]
    <3>1. ASSUME serial', NEW p \in hist.renamed, NEW v \in db'.users, v.id = p[1]
          PROVE  v.name = p[2]
      <4>1. v.id # next
        BY <1>3, <2>1, <2>3, <3>1 DEF IsUser
      <4>2. PICK u \in db.users : u.id = v.id /\ u.name = v.name
        BY <2>2, <3>1, <4>1
      <4> QED BY <1>3, <3>1, <4>2 DEF NamesInv
    <3> QED BY <2>1, <3>1
  <2>5. ASSUME serial', NEW g \in Handlers, task'[g].pc = "picture",
               NEW v \in db'.users, v.id = task'[g].uid
        PROVE  v.name = task'[g].name
    <3>1. CASE OAuth(h) /\ g = h
      <4>1. db'.users = db.users
        BY <3>1, OAuthTurn DEF Turn, Only, Tables
      <4>2. \E u \in db.users : task'[h].uid = u.id /\ task'[h].name = u.name
        BY <2>5, <3>1, OAuthTurn, IdleShape
      <4> QED BY <1>2, <2>5, <3>1, <4>1, <4>2
    <3>2. CASE g # h
      <4>1. task'[g] = task[g]
        BY <2>1, <3>2
      <4>2. IsUser(task[g].uid)
        BY <2>5, <4>1 DEF OwnersInv, AnonymousLabels
      <4>3. v.id # next
        BY <1>3, <2>5, <4>1, <4>2 DEF IsUser
      <4>4. PICK u \in db.users : u.id = v.id /\ u.name = v.name
        BY <2>2, <2>5, <4>3
      <4> QED BY <1>3, <2>5, <4>1, <4>4 DEF NamesInv
    <3> QED BY <2>1, <2>5, <3>1, <3>2 DEF Enters
  <2> QED BY <2>3, <2>4, <2>5 DEF NamesInv, IsUser
<1>7. CASE GrowOld
  BY <1>4, <1>7, GrowOldStep DEF Only, Tables
<1>8. CASE Restart
  BY <1>4, <1>8, RestartStep, IdleShape
<1>9. CASE UNCHANGED vars
  BY <1>4, <1>9 DEF vars
<1> QED BY <1>5, <1>6, <1>7, <1>8, <1>9, AllSteps

-----------------------------------------------------------------------------
(* The stories together.                                                   *)

AccountsInv == ProjectsInv /\ KeysInv /\ PasswordsInv /\ NamesInv

LEMMA AccountsInit == Init => AccountsInv
<1> SUFFICES ASSUME Init PROVE AccountsInv
  OBVIOUS
<1>1. /\ next = 20 /\ \A h \in Handlers : task[h] = Idle
      /\ hist.renamed = {} /\ hist.revoked = {}
  BY DEF Init, NoHistory
<1>2. \A h \in Handlers : task[h].pc = "idle" /\ task[h].uid = None
  BY <1>1, IdleShape
<1>3. ProjectsInv
  BY FirstRows DEF ProjectsInv
<1>4. KeysInv
  <2> DEFINE k == APIKey(9, 9, 6, RoleAdmin, 3)
  <2>1. /\ Has(k, KeyFields) /\ k.id = 9 /\ k.hash = 9 /\ k.revoked = FALSE /\ k.indexed = TRUE
    BY DEF APIKey, Has, KeyFields
  <2> HIDE DEF k
  <2>2. db.keys = {k}
    BY FirstRows DEF k
  <2>3. \A j \in db.keys : /\ Has(j, KeyFields) /\ j.id = 9 /\ j.hash = 9
                           /\ j.revoked = FALSE /\ j.indexed = TRUE
    BY <2>1, <2>2
  <2>4. \A i, j \in db.keys : i = j
    BY <2>2
  <2>5. \A j \in db.keys : j.id \in Nat /\ j.id # None /\ j.id < next
    BY SMT, <1>1, <2>3
  <2>6. \A j \in db.keys : /\ j.revoked \in BOOLEAN /\ j.indexed \in BOOLEAN
                           /\ j.indexed <=> ~j.revoked
    BY <2>3
  <2> QED BY <1>1, <2>3, <2>4, <2>5, <2>6 DEF KeysInv
<1>5. PasswordsInv
  <2>1. \A s \in db.sessions, u \in db.users : s.user = u.id => s.pw = u.pw
    BY FirstRows
  <2> QED BY <1>2, <2>1 DEF PasswordsInv, AnonymousLabels
<1>6. NamesInv
  BY <1>1, <1>2 DEF NamesInv
<1> QED BY <1>3, <1>4, <1>5, <1>6 DEF AccountsInv

LEMMA AccountsStep == Core /\ AccountsInv /\ [Next]_vars => AccountsInv'
<1> SUFFICES ASSUME Base, UsersInv, OwnersInv, ResetsInv, AccountsInv, [Next]_vars
             PROVE  AccountsInv'
  BY DEF Core
<1> QED BY ProjectsStep, KeysStep, PasswordsStep, NamesStep DEF AccountsInv

LEMMA AccountsHold == Spec => [](Core /\ AccountsInv)
BY CoreHolds, AccountsInit, AccountsStep, PTL DEF Spec

-----------------------------------------------------------------------------
(* What the runs check on small instances.                                 *)

\* Two accounts never share an address, whatever fails and however requests
\* overlap: handleSignUp, the OAuth and the SSO callback look an address up
\* long before they create the account, and leave the rest to CreateUser.
THEOREM AddressesIdentify == Spec => []UniqueEmails
<1>1. Core => UniqueEmails
  BY DEF Core, UsersInv, UniqueEmails
<1> QED BY <1>1, CoreHolds, PTL

\* A reset token changes one password: ResetPasswordWithToken marks the token
\* it has checked, where the store does both under one lock, or requests do
\* not overlap and the statement that marks it does not fail.
THEOREM TokensResetOnce == Spec => []ResetTokenSpentOnce
<1>1. Core => ResetTokenSpentOnce
  BY DEF Core, ResetsInv, ResetTrusted, ResetTokenSpentOnce
<1> QED BY <1>1, CoreHolds, PTL

\* Changing or resetting a password signs the user out everywhere: with no
\* failures and requests one after another, every session was opened under its
\* user's present password (a reset on SQLite excepted).
THEOREM PasswordsEndSessions == Spec => []SessionsFollowPassword
<1>1. ASSUME AccountsInv PROVE SessionsFollowPassword
  <2> SUFFICES ASSUME serial, faults = 0, \A h \in Handlers : task[h] = Idle,
                      driver = "sqlite" => hist.resets = {}
               PROVE  \A s \in db.sessions, u \in db.users : s.user = u.id => s.pw = u.pw
    BY DEF SessionsFollowPassword
  <2>1. \A h \in Handlers : task[h].pc # "changeEnd"
    BY IdleShape
  <2> QED BY <1>1, <2>1 DEF AccountsInv, PasswordsInv, Calm
<1>2. AccountsInv => SessionsFollowPassword
  BY <1>1
<1> QED BY <1>2, AccountsHold, PTL

\* The name a user chose stays: when requests do not overlap, a provider's
\* sign-in (OAuthPicture) writes back the name it has read.
THEOREM NamesStay == Spec => []ChosenNameStays
<1>1. AccountsInv => ChosenNameStays
  BY DEF AccountsInv, NamesInv, ChosenNameStays
<1> QED BY <1>1, AccountsHold, PTL

\* Every project that a project list shows can be switched to, whatever fails:
\* handleSwitchActiveProject looks it up by its ID.
THEOREM ShownProjectsCanBeChosen == Spec => []OfferedCanBeChosen
<1>1. AccountsInv => OfferedCanBeChosen
  BY ProjectsCanBeChosen DEF AccountsInv
<1> QED BY <1>1, AccountsHold, PTL

\* A key that was reported revoked is never accepted again, whatever fails and
\* however requests overlap, and the lists agree with what is accepted.
THEOREM RevocationLasts == Spec => []RevokedKeysStayOut
<1>1. AccountsInv => RevokedKeysStayOut
  BY RevokedStayOut DEF AccountsInv
<1> QED BY <1>1, AccountsHold, PTL
=============================================================================
