------------------------- MODULE MemoryStoreProofs --------------------------
(***************************************************************************)
(* Proofs about MemoryStore, for every number of threads, keys, projects,  *)
(* users and change requests: its types, and that it implements            *)
(* FlagGovernance; and its audit log.                                      *)
(*                                                                         *)
(* The argument for the refinement: only writeMu's holder is between       *)
(* building a snapshot and publishing it (LockInv), so the snapshot it is  *)
(* about to publish still differs from the published one by its own change *)
(* only (StoreInv, ApplyInv).  Steps under mu alone never touch the flags. *)
(*                                                                         *)
(* The hash chains of the log verify.  A purge keeps a chain whole only if *)
(* what it removes was inserted before everything it keeps, hence the time *)
(* order.                                                                  *)
(*                                                                         *)
(* The log follows the flag versions: while a writer is between its steps, *)
(* what it is going to append is at least as new as everything the log has *)
(* about the flag.                                                         *)
(*                                                                         *)
(* The log misses no version.  appendAuditLogLocked drops an entry whose   *)
(* ID is in use; IDs are clock readings, so none is dropped if the clock   *)
(* advances between two readings.                                          *)
(***************************************************************************)
EXTENDS MemoryStore, WellFoundedInduction, TLAPS

\* Every leaf is first-order and left to Zenon, unless it cites SMT (arithmetic
\* and records) or PTL (temporal steps).
USE ZenonT(60)

-----------------------------------------------------------------------------
(* What the operators of AuditChain preserve, for logs of any size. *)

\* Insertion numbers and timestamps are naturals, insertion numbers are
\* positive, below n, and tell the entries apart.
WellNumbered(log, n) ==
    /\ n \in Nat /\ 0 < n
    /\ \A e \in log : e.seq \in Nat /\ 0 < e.seq /\ e.seq < n /\ e.ts \in Nat
    /\ \A e, f \in log : e.seq = f.seq => e = f

-----------------------------------------------------------------------------
\* A non-empty set of entries with bounded insertion numbers has a newest one,
\* which is what reading the first row of the log in reverse order returns.
LEMMA NewestExists ==
    ASSUME NEW S, S # {}, NEW n \in Nat,
           \A e \in S : e.seq \in Nat /\ e.seq < n
    PROVE  Newest(S) \in S /\ \A f \in S : f.seq <= Newest(S).seq
<1> DEFINE D == { n - e.seq : e \in S }
<1>1. D \subseteq Nat /\ D # {}
  BY SMT
<1>2. PICK m \in D : \A y \in D : ~ (<<y, m>> \in OpToRel(<, Nat))
  BY <1>1, NatLessThanWellFounded, WFMin
<1>3. \A y \in D : ~ (y < m)
  BY <1>1, <1>2 DEF OpToRel
<1>4. PICK e \in S : m = n - e.seq
  OBVIOUS
<1>5. \A f \in S : f.seq <= e.seq
  <2> TAKE f \in S
  <2>1. n - f.seq \in D
    OBVIOUS
  <2>2. ~ (n - f.seq < n - e.seq)
    BY <2>1, <1>3, <1>4
  <2> QED BY SMT, <2>2
<1> QED BY <1>5 DEF Newest

\* The same for the entries of one project and for those older than an entry.
LEMMA NewestOfSubset ==
    ASSUME NEW log, NEW n, WellNumbered(log, n), NEW S, S \subseteq log, S # {}
    PROVE  /\ Newest(S) \in S
           /\ \A f \in S : f.seq <= Newest(S).seq
           /\ Newest(S).seq \in Nat /\ 0 < Newest(S).seq /\ Newest(S).seq < n
<1>1. n \in Nat /\ \A e \in S : e.seq \in Nat /\ 0 < e.seq /\ e.seq < n
  BY DEF WellNumbered
<1>2. Newest(S) \in S /\ \A f \in S : f.seq <= Newest(S).seq
  BY <1>1, NewestExists
<1> QED BY <1>1, <1>2

\* The hash a new entry is linked to is that of an older entry, or the anchor.
LEMMA HeadHashType ==
    ASSUME NEW log, NEW n, WellNumbered(log, n), NEW anchors, NEW p,
           anchors[p] \in Nat
    PROVE  HeadHash(log, anchors, p) \in Nat
<1>1. Own(log, p) \subseteq log
  BY DEF Own
<1>2. CASE Own(log, p) = {}
  BY <1>2 DEF HeadHash
<1>3. CASE Own(log, p) # {}
  BY <1>1, <1>3, NewestOfSubset DEF HeadHash
<1> QED BY <1>2, <1>3

\* Appending and removing entries keeps the log well numbered.
LEMMA AppendNumbered ==
    ASSUME NEW log, NEW n, WellNumbered(log, n),
           NEW new, new.seq = n, new.ts \in Nat
    PROVE  WellNumbered(log \cup {new}, n + 1)
<1>1. \A e \in log : e.seq \in Nat /\ 0 < e.seq /\ e.seq < n /\ e.ts \in Nat
  BY DEF WellNumbered
<1>2. n \in Nat /\ 0 < n
  BY DEF WellNumbered
<1>3. \A e \in log \cup {new} :
        e.seq \in Nat /\ 0 < e.seq /\ e.seq < n + 1 /\ e.ts \in Nat
  BY SMT, <1>1, <1>2
<1>4. ASSUME NEW e \in log \cup {new}, NEW f \in log \cup {new}, e.seq = f.seq
      PROVE  e = f
  <2>1. CASE e \in log /\ f \in log
    BY <1>4, <2>1 DEF WellNumbered
  <2>2. CASE e = new /\ f = new
    BY <2>2
  <2>3. CASE e \in log /\ f = new
    BY SMT, <1>1, <1>2, <1>4, <2>3
  <2>4. CASE e = new /\ f \in log
    BY SMT, <1>1, <1>2, <1>4, <2>4
  <2> QED BY <2>1, <2>2, <2>3, <2>4
<1> QED BY SMT, <1>2, <1>3, <1>4 DEF WellNumbered

LEMMA SubsetNumbered ==
    ASSUME NEW log, NEW n, WellNumbered(log, n), NEW S, S \subseteq log
    PROVE  WellNumbered(S, n)
  BY DEF WellNumbered

-----------------------------------------------------------------------------
\* appendAuditLogLocked extends the chain of its project and leaves every
\* other chain alone: a log that verifies still does.
LEMMA AppendKeepsChain ==
    ASSUME NEW log, NEW n, WellNumbered(log, n), NEW anchors,
           NEW new, new.seq = n, new \notin log,
           new.prev = HeadHash(log, anchors, new.proj),
           NEW p, VerifyAuditLogIntegrity(log, anchors, p)
    PROVE  VerifyAuditLogIntegrity(log \cup {new}, anchors, p)
<1> DEFINE log2 == log \cup {new}
<1>1. \A e \in log : Older(log2, e) = Older(log, e)
  BY SMT DEF Older, WellNumbered
<1>2. Older(log2, new) = Own(log, new.proj)
  BY SMT DEF Older, Own, WellNumbered
<1> SUFFICES ASSUME NEW e \in Own(log2, p)
             PROVE  IF Older(log2, e) = {}
                    THEN e.prev \in {anchors[p], GENESIS}
                    ELSE e.prev = Newest(Older(log2, e)).seq
  BY DEF VerifyAuditLogIntegrity
<1>3. CASE e \in log
  <2>1. e \in Own(log, p)
    BY <1>3 DEF Own
  <2> HIDE DEF log2
  <2> QED BY <1>1, <1>3, <2>1 DEF VerifyAuditLogIntegrity
<1>4. CASE e = new
  <2>1. new.proj = p
    BY <1>4 DEF Own
  <2> HIDE DEF log2
  <2> QED BY <1>2, <1>4, <2>1 DEF HeadHash
<1> QED BY <1>3, <1>4 DEF Own

-----------------------------------------------------------------------------
\* In a log written in timestamp order, what PurgeAuditLogs removes is older
\* than everything of the project that it keeps.
LEMMA PurgedAreOldest ==
    ASSUME NEW log, NEW n, WellNumbered(log, n), InTimeOrder(log),
           NEW p, NEW before \in Nat,
           NEW d \in Purged(log, p, before),
           NEW e \in Own(log, p) \ Purged(log, p, before)
    PROVE  d.seq < e.seq
<1>1. /\ d \in log /\ e \in log /\ d.proj = e.proj
      /\ d.ts < before /\ ~ (e.ts < before)
  BY DEF Purged, Own
<1>2. d.seq \in Nat /\ e.seq \in Nat /\ d.ts \in Nat /\ e.ts \in Nat
  BY <1>1 DEF WellNumbered
<1>3. d.seq # e.seq
  BY <1>1 DEF WellNumbered
<1>4. ~ (e.seq < d.seq)
  <2> SUFFICES ASSUME e.seq < d.seq PROVE FALSE
    OBVIOUS
  <2>1. e.ts <= d.ts
    BY <1>1 DEF InTimeOrder
  <2> QED BY SMT, <1>1, <1>2, <2>1
<1> QED BY SMT, <1>2, <1>3, <1>4

\* PurgeAuditLogs keeps a log that was written in timestamp order verifiable:
\* the anchor it leaves is the hash the oldest remaining entry continues.
LEMMA PurgeKeepsChain ==
    ASSUME NEW log, NEW n, WellNumbered(log, n), InTimeOrder(log),
           NEW Ps, NEW anchors \in [Ps -> Nat], NEW p \in Ps, NEW before \in Nat,
           NEW q \in Ps, VerifyAuditLogIntegrity(log, anchors, q)
    PROVE  VerifyAuditLogIntegrity(log \ Purged(log, p, before),
                                   PurgeAnchor(log, anchors, p, before), q)
<1> DEFINE gone == Purged(log, p, before)
           rest == log \ gone
           anchors2 == PurgeAnchor(log, anchors, p, before)
<1>1. gone \subseteq Own(log, p) /\ gone \subseteq log
  BY DEF Purged, Own
<1> SUFFICES ASSUME NEW e \in Own(rest, q)
             PROVE  IF Older(rest, e) = {}
                    THEN e.prev \in {anchors2[q], GENESIS}
                    ELSE e.prev = Newest(Older(rest, e)).seq
  BY DEF VerifyAuditLogIntegrity
<1>2. /\ e \in Own(log, q) /\ e \in log /\ e.proj = q /\ e \notin gone
      /\ Older(rest, e) = Older(log, e) \ gone
      /\ Older(log, e) \subseteq log
  BY DEF Own, Older
<1>3. IF Older(log, e) = {} THEN e.prev \in {anchors[q], GENESIS}
                            ELSE e.prev = Newest(Older(log, e)).seq
  BY <1>2 DEF VerifyAuditLogIntegrity
<1>4. CASE q # p
  <2>1. Older(rest, e) = Older(log, e)
    BY <1>1, <1>2, <1>4 DEF Older, Own
  <2>2. anchors2[q] = anchors[q]
    BY <1>4 DEF PurgeAnchor
  <2> QED BY <1>3, <2>1, <2>2
<1>5. CASE q = p
  <2>1. \A d \in gone : d.seq < e.seq /\ d \in Older(log, e)
    BY <1>1, <1>2, <1>5, PurgedAreOldest DEF Older, Own
  <2>2. CASE Older(rest, e) = {} /\ gone = {}
    <3>1. anchors2 = anchors /\ Older(log, e) = {}
      BY <1>2, <2>2 DEF PurgeAnchor
    <3> QED BY <1>3, <2>2, <3>1
  <2>3. CASE Older(rest, e) = {} /\ gone # {}
    <3>1. Older(log, e) = gone
      BY <1>2, <2>1, <2>3
    <3>2. anchors2[p] = Newest(gone).seq
      BY <2>3 DEF PurgeAnchor
    <3> QED BY <1>3, <1>5, <2>3, <3>1, <3>2
  <2>4. CASE Older(rest, e) # {}
    <3> DEFINE old == Newest(Older(log, e))
               new == Newest(Older(rest, e))
    <3>1. /\ old \in Older(log, e) /\ old.seq \in Nat
          /\ \A f \in Older(log, e) : f.seq <= old.seq
      BY <1>2, <2>4, NewestOfSubset
    <3>2. /\ new \in Older(rest, e) /\ new.seq \in Nat
          /\ \A f \in Older(rest, e) : f.seq <= new.seq
      BY <1>2, <2>4, NewestOfSubset
    <3>3. old \notin gone
      <4> SUFFICES ASSUME old \in gone PROVE FALSE
        OBVIOUS
      <4>1. new \in Own(log, p) \ gone
        BY <1>2, <1>5, <3>2 DEF Older, Own
      <4>2. old.seq < new.seq
        BY <4>1, PurgedAreOldest
      <4>3. new \in Older(log, e)
        BY <1>2, <3>2
      <4> QED BY SMT, <3>1, <3>2, <4>2, <4>3
    <3>4. old \in Older(rest, e) /\ new \in Older(log, e)
      BY <1>2, <3>1, <3>2, <3>3
    <3>5. old.seq = new.seq
      <4> HIDE DEF old, new
      <4> QED BY SMT, <3>1, <3>2, <3>4
    <3> QED BY <1>2, <1>3, <2>4, <3>5
  <2> QED BY <2>2, <2>3, <2>4
<1> QED BY <1>4, <1>5

-----------------------------------------------------------------------------
(* Types of the records and of the computations on them. *)

LEMMA DefaultTypes ==
    /\ DefaultConfig \in Configs
    /\ NoFlag \in Flags
    /\ NoFlags \in Snapshots
    /\ NoCR \in ChangeRequests
    /\ NoHeld \in Held
    /\ NoEntry \in Entries
<1>1. AnyKey \in Keys /\ AnyEnv \in Envs /\ AnyUser \in Users
  BY InputAssumption DEF AnyKey, AnyEnv, AnyUser
<1>2. (CHOOSE p \in Projects : TRUE) \in Projects
  BY InputAssumption
<1>3. DefaultConfig \in Configs
  BY SMT DEF DefaultConfig, Configs
<1>4. NoFlag \in Flags
  BY <1>3 DEF NoFlag, Flags
<1>5. NoFlags \in Snapshots
  BY <1>4 DEF NoFlags, Snapshots
<1>6. NoCR \in ChangeRequests
  BY <1>1, <1>3 DEF NoCR, ChangeRequests, Statuses
<1>7. NoHeld \in Held
  BY <1>1, <1>4 DEF NoHeld, Held
<1>8. NoEntry \in Entries
  BY <1>2 DEF NoEntry, Entry, Entries, NoFlag, Subjects, GENESIS
<1> QED BY <1>3, <1>4, <1>5, <1>6, <1>7, <1>8

LEMMA ClampType == \A p \in Int : Clamp(p) \in Int
  BY SMT DEF Clamp

LEMMA PayloadType == Payloads \subseteq Configs
  BY InputAssumption DEF Payloads, Configs

LEMMA WithConfigType ==
    ASSUME NEW f \in Flags, NEW env \in Envs, NEW c \in Configs
    PROVE  /\ WithConfig(f, env, c) \in Flags
           /\ WithConfig(f, env, c).life = f.life
           /\ WithConfig(f, env, c).ver = f.ver + 1
  BY SMT DEF WithConfig, Flags

LEMMA EntryType ==
    ASSUME NEW prefix \in {"log", "audit", ""}, NEW time \in Nat, NEW p \in Projects,
           NEW k \in Subjects, NEW f \in Flags
    PROVE  Entry(prefix, time, p, k, f) \in Entries
  BY DEF Entry, Entries, Flags, GENESIS

LEMMA ProjectType == \A k \in Keys \cup APIKeys : ProjectOf[k] \in Projects
  BY ProjectAssumption

LEMMA SubmittedType ==
    ASSUME NEW h \in Held, NEW env \in Envs, NEW c \in Configs, NEW u \in Users
    PROVE  Submitted(h.key, h.flag, env, c, u) \in ChangeRequests
  BY DEF Submitted, Held, Flags, ChangeRequests, Statuses

LEMMA ReviewedType ==
    ASSUME NEW cr \in ChangeRequests, NEW u \in Users, NEW b \in BOOLEAN
    PROVE  Reviewed(cr, u, b) \in ChangeRequests
  BY DEF Reviewed, ChangeRequests, Statuses

-----------------------------------------------------------------------------
(* The type invariant.  It is not inductive alone: the hash a new entry is *)
(* linked to has a type only if the log has a newest entry, hence LogInv.  *)

LogInv == WellNumbered(auditLogs, nextSeq)

\* What one call of appendAuditLogLocked does to the audit log.
LEMMA AppendStep ==
    ASSUME TypeOK, LogInv, NEW e \in Entries, Append(e)
    PROVE  /\ auditLogs' \subseteq Entries
           /\ auditAnchors' = auditAnchors
           /\ nextSeq' \in Nat
           /\ ordered' \in BOOLEAN
           /\ trail' \subseteq Subjects \X Nat \X Nat
           /\ LogInv'
<1>1. CASE Duplicate(auditLogs, e)
  BY <1>1 DEF Append, auditVars, TypeOK, LogInv
<1>2. CASE ~Duplicate(auditLogs, e)
  <2> DEFINE new == Linked(auditLogs, auditAnchors, nextSeq, e)
  <2>1. /\ auditLogs' = auditLogs \cup {new}
        /\ nextSeq' = nextSeq + 1
        /\ ordered' = (ordered /\ \A l \in Own(auditLogs, e.proj) : l.ts <= e.ts)
        /\ trail' = trail \cup {<<e.key, e.life, e.ver>>}
        /\ auditAnchors' = auditAnchors
    BY <1>2 DEF Append
  <2>2. nextSeq \in Nat /\ auditAnchors[e.proj] \in Nat
    BY DEF TypeOK, Entries
  <2>3. HeadHash(auditLogs, auditAnchors, e.proj) \in Nat
    BY <2>2, HeadHashType DEF LogInv
  <2>4. new \in Entries /\ new.seq = nextSeq /\ new.ts = e.ts
    BY <2>2, <2>3 DEF Linked, Entries
  <2>5. <<e.key, e.life, e.ver>> \in Subjects \X Nat \X Nat
    BY DEF Entries
  <2>6. ordered' \in BOOLEAN
    BY <2>1
  <2> HIDE DEF new
  <2>7. WellNumbered(auditLogs \cup {new}, nextSeq + 1)
    BY <2>4, AppendNumbered DEF LogInv, Entries
  <2> QED BY SMT, <2>1, <2>2, <2>4, <2>5, <2>6, <2>7 DEF TypeOK, LogInv
<1> QED BY <1>1, <1>2

LEMMA ClockType == TypeOK /\ ReadClock => clock' \in Nat
  BY SMT, InputAssumption DEF TypeOK, ReadClock

\* The first part of a flag writer, whatever the writer makes of the flag.
LEMMA PrepareType ==
    ASSUME TypeOK, LogInv, NEW t \in Threads, NEW k \in Keys,
           NEW f \in Flags, NEW g \in Flags, Prepare(t, k, f, g),
           ops' \in Nat, nextLife' \in Nat, held' \in [Threads -> Held]
    PROVE  TypeOK' /\ LogInv'
<1>1. clock' \in Nat
  BY ClockType DEF Prepare
<1>2. Entry("log", clock', ProjectOf[k], k, g) \in Entries
  BY <1>1, EntryType, ProjectType DEF Subjects
<1>3. [flags EXCEPT ![k] = f] \in Snapshots
  BY DEF TypeOK, Snapshots
<1>4. newSnap' \in [Threads -> Snapshots] /\ pending' \in [Threads -> Entries]
  BY <1>2, <1>3 DEF Prepare, TypeOK
<1> QED BY <1>1, <1>4 DEF Prepare, TypeOK, LogInv, tables, auditVars

LEMMA SavedType ==
    ASSUME TypeOK, NEW k \in Keys, NEW envs \in [Envs -> Configs], NEW v \in Nat
    PROVE  /\ Saved(k, envs, v) \in Flags
           /\ (IF Exists(flags[k]) THEN nextLife ELSE nextLife + 1) \in Nat
  BY SMT DEF TypeOK, Saved, Flags, Snapshots

\* A request for one flag: save, toggle, rollout, deletion, or a first read.
LEMMA FlagRequestType ==
    ASSUME TypeOK, LogInv, NEW t \in Threads, FlagRequest(t)
    PROVE  TypeOK' /\ LogInv'
<1>1. PICK k \in Keys :
        \/ \E envs \in [Envs -> Payloads], v \in PayloadVers : WriteFlag(t, k, envs, v)
        \/ DeleteFlagByProject(t, k)
        \/ \E env \in Envs, b \in BOOLEAN : ToggleFlagByProject(t, k, env, b)
        \/ \E env \in Envs, pct \in Pcts : UpdateRolloutByProject(t, k, env, pct)
        \/ PromoteRead(t, k)
        \/ CreateChangeRequestRead(t, k)
  BY DEF FlagRequest
<1>2. flags[k] \in Flags /\ \A env \in Envs : flags[k].envs[env] \in Configs
  BY DEF TypeOK, Snapshots, Flags
<1>3. ASSUME NEW envs \in [Envs -> Payloads], NEW v \in PayloadVers,
             WriteFlag(t, k, envs, v)
      PROVE  TypeOK' /\ LogInv'
  <2>1. envs \in [Envs -> Configs] /\ v \in Nat
    BY PayloadType, InputAssumption
  <2>2. /\ Prepare(t, k, Saved(k, envs, v), Saved(k, envs, v))
        /\ nextLife' = IF Exists(flags[k]) THEN nextLife ELSE nextLife + 1
        /\ ops' = ops + 1 /\ held' = held
    BY <1>3 DEF WriteFlag, SaveFlag, Request
  <2>3. ops' \in Nat /\ held' \in [Threads -> Held]
    BY SMT, <2>2 DEF TypeOK
  <2> QED BY <2>1, <2>2, <2>3, SavedType, PrepareType
<1>4. CASE DeleteFlagByProject(t, k)
  <2>1. /\ Prepare(t, k, NoFlag, flags[k])
        /\ ops' = ops + 1 /\ held' = held /\ nextLife' = nextLife
    BY <1>4 DEF DeleteFlagByProject, Request
  <2>2. ops' \in Nat /\ held' \in [Threads -> Held] /\ nextLife' \in Nat
    BY SMT, <2>1 DEF TypeOK
  <2> QED BY <1>2, <2>1, <2>2, DefaultTypes, PrepareType
<1>5. ASSUME NEW env \in Envs, NEW b \in BOOLEAN, ToggleFlagByProject(t, k, env, b)
      PROVE  TypeOK' /\ LogInv'
  <2> DEFINE c == [flags[k].envs[env] EXCEPT !.enabled = b]
             f == WithConfig(flags[k], env, c)
  <2>1. /\ Prepare(t, k, f, f)
        /\ ops' = ops + 1 /\ held' = held /\ nextLife' = nextLife
    BY <1>5 DEF ToggleFlagByProject, Request
  <2>2. ops' \in Nat /\ held' \in [Threads -> Held] /\ nextLife' \in Nat
    BY SMT, <2>1 DEF TypeOK
  <2>3. c \in Configs
    BY <1>2 DEF Configs
  <2>4. f \in Flags
    BY <1>2, <2>3, WithConfigType
  <2> QED BY <2>1, <2>2, <2>4, PrepareType
<1>6. ASSUME NEW env \in Envs, NEW pct \in Pcts, UpdateRolloutByProject(t, k, env, pct)
      PROVE  TypeOK' /\ LogInv'
  <2> DEFINE c == [flags[k].envs[env] EXCEPT !.pct = Clamp(pct)]
             f == WithConfig(flags[k], env, c)
  <2>1. /\ Prepare(t, k, f, f)
        /\ ops' = ops + 1 /\ held' = held /\ nextLife' = nextLife
    BY <1>6 DEF UpdateRolloutByProject, Request
  <2>2. ops' \in Nat /\ held' \in [Threads -> Held] /\ nextLife' \in Nat
    BY SMT, <2>1 DEF TypeOK
  <2>3. c \in Configs
    BY <1>2, ClampType, InputAssumption DEF Configs
  <2>4. f \in Flags
    BY <1>2, <2>3, WithConfigType
  <2> QED BY <2>1, <2>2, <2>4, PrepareType
<1>7. ASSUME NEW next \in {"promote", "submit"}, ReadFlag(t, k, next)
      PROVE  TypeOK' /\ LogInv'
  <2>1. [key |-> k, flag |-> flags[k]] \in Held
    BY <1>2 DEF Held
  <2> QED BY SMT, <1>7, <2>1 DEF ReadFlag, Request, TypeOK, LogInv, tables, auditVars
<1> QED BY <1>1, <1>3, <1>4, <1>5, <1>6, <1>7 DEF PromoteRead, CreateChangeRequestRead

\* The later steps of a request.
LEMMA ContinueType ==
    ASSUME TypeOK, LogInv, NEW t \in Threads, Continue(t)
    PROVE  TypeOK' /\ LogInv'
<1>1. CASE StoreSnapshot(t)
  BY <1>1, DefaultTypes DEF StoreSnapshot, TypeOK, LogInv, auditVars
<1>2. CASE AppendAuditLog(t)
  <2>1. pending[t] \in Entries /\ Append(pending[t])
    BY <1>2 DEF AppendAuditLog, TypeOK
  <2> QED BY <1>2, <2>1, AppendStep, DefaultTypes DEF AppendAuditLog, TypeOK, tables
<1>3. ASSUME NEW from \in Envs, NEW to \in Envs, PromoteSave(t, from, to)
      PROVE  TypeOK' /\ LogInv'
  <2> DEFINE f == held[t].flag
             k == held[t].key
             envs == [f.envs EXCEPT ![to] = f.envs[from]]
  <2>1. f \in Flags /\ k \in Keys
    BY DEF TypeOK, Held
  <2>2. envs \in [Envs -> Configs] /\ f.ver \in Nat
    BY <2>1 DEF Flags
  <2>3. /\ Prepare(t, k, Saved(k, envs, f.ver), Saved(k, envs, f.ver))
        /\ nextLife' = IF Exists(flags[k]) THEN nextLife ELSE nextLife + 1
        /\ held' = [held EXCEPT ![t] = NoHeld] /\ ops' = ops
    BY <1>3 DEF PromoteSave, SaveFlag
  <2>4. ops' \in Nat /\ held' \in [Threads -> Held]
    BY <2>3, DefaultTypes DEF TypeOK
  <2> QED BY <2>1, <2>2, <2>3, <2>4, SavedType, PrepareType
<1>4. ASSUME NEW c \in CRIds, NEW env \in Envs, NEW proposed \in Payloads,
             NEW u \in Users, CreateChangeRequest(t, c, env, proposed, u)
      PROVE  TypeOK' /\ LogInv'
  <2>1. Submitted(held[t].key, held[t].flag, env, proposed, u) \in ChangeRequests
    BY SubmittedType, PayloadType DEF TypeOK
  <2> QED BY <1>4, <2>1, DefaultTypes DEF CreateChangeRequest, TypeOK, LogInv, auditVars
<1>5. CASE ApplyStore(t)
  BY <1>5, DefaultTypes DEF ApplyStore, TypeOK, LogInv, auditVars
<1>6. CASE PurgeRecord(t)
  <2> DEFINE e == [pending[t] EXCEPT !.ts = clock']
  <2>1. clock' \in Nat
    BY <1>6, ClockType DEF PurgeRecord
  <2>2. e \in Entries
    <3>1. pending[t] \in Entries
      BY DEF TypeOK
    <3> QED BY <2>1, <3>1 DEF Entries
  <2>3. Append(e)
    BY <1>6 DEF PurgeRecord
  <2> HIDE DEF e
  <2> QED BY <1>6, <2>1, <2>2, <2>3, AppendStep, DefaultTypes DEF PurgeRecord, TypeOK, tables
<1> QED BY <1>1, <1>2, <1>3, <1>4, <1>5, <1>6 DEF Continue

LEMMA ApplyType ==
    ASSUME TypeOK, LogInv, NEW t \in Threads, NEW c \in CRIds, ApplyChangeRequest(t, c)
    PROVE  TypeOK' /\ LogInv'
<1> DEFINE cr == changeRequests[c]
           f == WithConfig(flags[cr.key], cr.env, cr.proposed)
           e == Entry("audit", clock', ProjectOf[cr.key], cr.key, f)
<1>1. /\ cr \in ChangeRequests /\ cr.key \in Keys /\ cr.env \in Envs
      /\ cr.proposed \in Configs
  BY DEF TypeOK, ChangeRequests
<1>2. flags[cr.key] \in Flags
  BY <1>1 DEF TypeOK, Snapshots
<1>3. f \in Flags
  BY <1>1, <1>2, WithConfigType
<1>4. clock' \in Nat
  BY ClockType DEF ApplyChangeRequest
<1>5. e \in Entries
  BY <1>1, <1>3, <1>4, EntryType, ProjectType DEF Subjects
<1>6. /\ changeRequests' = [changeRequests EXCEPT ![c].status = "APPLIED"]
      /\ Append(e) /\ ops' = ops + 1 /\ writeMu' = t
      /\ newSnap' = [newSnap EXCEPT ![t] = [flags EXCEPT ![cr.key] = f]]
      /\ applying' = [applying EXCEPT ![t] = cr]
      /\ pc' = [pc EXCEPT ![t] = "apply"]
      /\ UNCHANGED <<flags, revoked, pending, held, nextLife>>
  BY DEF ApplyChangeRequest, Request
<1>7. changeRequests' \in [CRIds -> ChangeRequests]
  BY <1>1, <1>6 DEF TypeOK, ChangeRequests, Statuses
<1>8. newSnap' \in [Threads -> Snapshots] /\ applying' \in [Threads -> ChangeRequests]
  BY <1>1, <1>3, <1>6 DEF TypeOK, Snapshots
<1> HIDE DEF e
<1> QED BY SMT, <1>4, <1>5, <1>6, <1>7, <1>8, AppendStep DEF TypeOK

LEMMA OtherType ==
    ASSUME TypeOK, LogInv,
           \/ \E c \in CRIds, u \in Users, b \in BOOLEAN : ReviewChangeRequest(c, u, b)
           \/ \E a \in APIKeys : RevokeAPIKeyByProject(a)
           \/ Reset
    PROVE  TypeOK' /\ LogInv'
<1>1. ASSUME NEW c \in CRIds, NEW u \in Users, NEW b \in BOOLEAN,
             ReviewChangeRequest(c, u, b)
      PROVE  TypeOK' /\ LogInv'
  <2>1. Reviewed(changeRequests[c], u, b) \in ChangeRequests
    BY ReviewedType DEF TypeOK
  <2> QED BY SMT, <1>1, <2>1
          DEF ReviewChangeRequest, Request, TypeOK, LogInv, auditVars, threadVars
<1>2. ASSUME NEW a \in APIKeys, RevokeAPIKeyByProject(a)
      PROVE  TypeOK' /\ LogInv'
  <2> DEFINE e == Entry("audit", clock', ProjectOf[a], "api-keys", NoFlag)
  <2>1. clock' \in Nat
    BY <1>2, ClockType DEF RevokeAPIKeyByProject
  <2>2. e \in Entries
    BY <2>1, EntryType, ProjectType, DefaultTypes DEF Subjects
  <2>3. Append(e)
    BY <1>2 DEF RevokeAPIKeyByProject
  <2> HIDE DEF e
  <2> QED BY SMT, <1>2, <2>1, <2>2, <2>3, AppendStep
          DEF RevokeAPIKeyByProject, Request, TypeOK, threadVars
<1>3. CASE Reset
  <2>1. LogInv'
    BY <1>3 DEF Reset, LogInv, WellNumbered
  <2> QED BY SMT, <1>3, <2>1, DefaultTypes DEF Reset, Request, TypeOK, threadVars, GENESIS
<1> QED BY <1>1, <1>2, <1>3

LEMMA PurgeType ==
    ASSUME TypeOK, LogInv, NEW t \in Threads, NEW p \in Projects, NEW before \in Nat,
           PurgeAuditLogs(t, p, before)
    PROVE  TypeOK' /\ LogInv'
<1>1. Entry("", 0, p, "audit-logs", NoFlag) \in Entries
  BY EntryType, DefaultTypes DEF Subjects
<1>2. /\ auditLogs' \subseteq auditLogs /\ nextSeq' = nextSeq
      /\ auditAnchors' = PurgeAnchor(auditLogs, auditAnchors, p, before)
  BY DEF PurgeAuditLogs
<1>3. LogInv'
  BY <1>2, SubsetNumbered DEF LogInv
<1>4. Purged(auditLogs, p, before) \subseteq auditLogs
  BY DEF Purged, Own
<1>5. auditAnchors' \in [Projects -> Nat]
  <2>1. CASE Purged(auditLogs, p, before) = {}
    BY <1>2, <2>1 DEF PurgeAnchor, TypeOK
  <2>2. CASE Purged(auditLogs, p, before) # {}
    <3>1. Newest(Purged(auditLogs, p, before)).seq \in Nat
      BY <1>4, <2>2, NewestOfSubset DEF LogInv
    <3> QED BY <1>2, <2>2, <3>1 DEF PurgeAnchor, TypeOK
  <2> QED BY <2>1, <2>2
<1>6. /\ pending' = [pending EXCEPT ![t] = Entry("", 0, p, "audit-logs", NoFlag)]
      /\ pc' = [pc EXCEPT ![t] = "purged"] /\ ops' = ops + 1
      /\ UNCHANGED <<tables, nextSeq, ordered, trail, writeMu, newSnap, held,
                     applying, clock, nextLife>>
  BY DEF PurgeAuditLogs, Request
<1>7. pending' \in [Threads -> Entries]
  BY <1>1, <1>6 DEF TypeOK
<1>8. auditLogs' \subseteq Entries
  BY <1>2 DEF TypeOK
<1>9. UNCHANGED <<flags, changeRequests, revoked, nextSeq, ordered, trail, writeMu,
                  newSnap, held, applying, clock, nextLife>>
  BY <1>6 DEF tables
<1>10. pc' \in [Threads -> {"idle", "store", "append", "promote", "submit",
                           "apply", "purged"}]
  BY <1>6 DEF TypeOK
<1>11. ops' \in Nat
  <2>1. ops \in Nat /\ ops' = ops + 1
    BY DEF PurgeAuditLogs, Request, TypeOK
  <2> QED BY SMT, <2>1
<1> QED BY <1>3, <1>5, <1>7, <1>8, <1>9, <1>10, <1>11 DEF TypeOK

LEMMA TypeInit == Init => TypeOK /\ LogInv
  BY SMT, DefaultTypes DEF Init, TypeOK, LogInv, WellNumbered, GENESIS

LEMMA TypeNext == TypeOK /\ LogInv /\ [Next]_vars => TypeOK' /\ LogInv'
<1> SUFFICES ASSUME TypeOK, LogInv, [Next]_vars PROVE TypeOK' /\ LogInv'
  OBVIOUS
<1>1. CASE UNCHANGED vars
  BY <1>1 DEF vars, tables, auditVars, threadVars, TypeOK, LogInv
<1>2. CASE Next
  <2>1. \A before \in 0..clock : before \in Nat
    BY SMT DEF TypeOK
  <2> QED BY <1>2, <2>1, FlagRequestType, ContinueType, ApplyType, OtherType, PurgeType DEF Next
<1> QED BY <1>1, <1>2

\* The store's tables, its log and the local state of its threads keep their
\* types, and every entry of the log has its own insertion number.
THEOREM TypeCorrect == Spec => []TypeOK
<1>1. TypeOK /\ LogInv /\ [Next]_vars => (TypeOK /\ LogInv)'
  BY TypeNext
<1> QED BY TypeInit, <1>1, PTL DEF Spec

-----------------------------------------------------------------------------
\* The positions in which a thread holds writeMu.
Writing == {"store", "append", "apply"}

LockInv == \A t \in Threads : pc[t] \in Writing <=> writeMu = t

\* A submitted request has a base version, a reviewed one a second person.
RequestInv ==
    \A c \in CRIds :
        LET cr == changeRequests[c]
        IN  /\ cr.status # "NONE" => cr.base > 0
            /\ cr.status \in {"APPROVED", "REJECTED", "APPLIED"} => cr.reviewer # cr.author

\* A key with no flag has no creation number either.
NoGhosts(S) == \A k \in Keys : ~Exists(S[k]) => S[k].life = 0
LifeInv == 0 < nextLife /\ NoGhosts(flags)

HeldInv == \A t \in Threads : pc[t] = "submit" => Exists(held[t].flag)

\* The snapshot of a writer is the published one with one change to one key.
OneChange(k, S) ==
    /\ Governance!Advances(flags[k], S[k])
    /\ \A j \in Keys \ {k} : S[j] = flags[j]
StoreInv ==
    \A t \in Threads : pc[t] = "store" =>
        NoGhosts(newSnap[t]) /\ \E k \in Keys : OneChange(k, newSnap[t])

\* The snapshot of an ApplyChangeRequest is the published one with the
\* approved proposal put on top of the version it was written against.
ApplyInv ==
    \A t \in Threads : pc[t] = "apply" =>
        LET cr == applying[t]
        IN  /\ cr.status = "APPROVED" /\ cr.author # cr.reviewer
            /\ Exists(flags[cr.key]) /\ flags[cr.key].ver = cr.base
            /\ newSnap[t] = [flags EXCEPT
                  ![cr.key] = WithConfig(flags[cr.key], cr.env, cr.proposed)]

IInv == TypeOK /\ LogInv /\ LockInv /\ RequestInv /\ LifeInv /\ HeldInv /\ StoreInv /\ ApplyInv

-----------------------------------------------------------------------------
LEMMA NobodyWrites ==
    ASSUME LockInv, TypeOK, writeMu = NoThread
    PROVE  \A t \in Threads : pc[t] \notin Writing
  BY ThreadsAssumption DEF LockInv

LEMMA NobodyElseWrites ==
    ASSUME LockInv, NEW t \in Threads, pc[t] \in Writing
    PROVE  writeMu = t /\ \A u \in Threads \ {t} : pc[u] \notin Writing
  BY DEF LockInv

\* The invariant holds initially.
LEMMA IInit == Init => IInv
<1> SUFFICES ASSUME Init PROVE IInv
  OBVIOUS
<1>1. TypeOK /\ LogInv
  BY TypeInit
<1>2. LockInv
  BY ThreadsAssumption DEF Init, LockInv, Writing
<1>3. RequestInv
  BY DEF Init, RequestInv, NoCR
<1>4. LifeInv
  BY SMT DEF Init, LifeInv, NoGhosts, NoFlags, NoFlag
<1>5. HeldInv /\ StoreInv /\ ApplyInv
  BY DEF Init, HeldInv, StoreInv, ApplyInv
<1> QED BY <1>1, <1>2, <1>3, <1>4, <1>5 DEF IInv

\* Steps of threads that neither take, hold nor release writeMu, and of
\* requests under mu alone: the flags and the writers' snapshots stay.
LEMMA BystanderStep ==
    ASSUME IInv, UNCHANGED <<flags, writeMu, newSnap, applying, nextLife>>,
           \A t \in Threads : pc'[t] = pc[t] \/ (pc[t] \notin Writing /\ pc'[t] \notin Writing)
    PROVE  LockInv' /\ LifeInv' /\ StoreInv' /\ ApplyInv'
<1>1. LockInv'
  BY DEF IInv, LockInv
<1>2. LifeInv'
  BY DEF IInv, LifeInv, NoGhosts
<1>3. StoreInv'
  BY SMT DEF IInv, StoreInv, NoGhosts, OneChange, Governance!Advances, Governance!Exists, Writing
<1>4. ApplyInv'
  BY DEF IInv, ApplyInv, Writing
<1> QED BY <1>1, <1>2, <1>3, <1>4

\* Outside ApplyChangeRequest the flags in force are the published ones.
LEMMA InForce ==
    ASSUME TypeOK, \A t \in Threads : pc[t] # "apply"
    PROVE  FlagsInForce = flags
  BY DEF TypeOK, FlagsInForce

-----------------------------------------------------------------------------
(* One lemma per kind of step.  Each shows the invariant after the step, *)
(* and the step of FlagGovernance it is.                                 *)

Preserved == LockInv' /\ RequestInv' /\ LifeInv' /\ HeldInv' /\ StoreInv' /\ ApplyInv'
GovStep == Governance!Next \/ UNCHANGED <<FlagsInForce, changeRequests>>

\* A flag writer takes writeMu and builds its snapshot: nothing is visible yet.
LEMMA PrepareStep ==
    ASSUME IInv, TypeOK', NEW t \in Threads, NEW k \in Keys, NEW f \in Flags, NEW g,
           Prepare(t, k, f, g), pc[t] \notin Writing,
           Governance!Advances(flags[k], f), ~Exists(f) => f.life = 0,
           nextLife' > 0, \A u \in Threads \ {t} : held'[u] = held[u]
    PROVE  Preserved /\ UNCHANGED <<FlagsInForce, changeRequests>>
<1>1. /\ writeMu = NoThread /\ writeMu' = t
      /\ newSnap' = [newSnap EXCEPT ![t] = [flags EXCEPT ![k] = f]]
      /\ pc' = [pc EXCEPT ![t] = "store"]
      /\ UNCHANGED <<flags, changeRequests, applying>>
  BY DEF Prepare, tables
<1>2. \A u \in Threads : pc[u] \notin Writing
  BY <1>1, NobodyWrites DEF IInv
<1>3. /\ pc'[t] = "store" /\ newSnap'[t] = [flags EXCEPT ![k] = f]
      /\ \A u \in Threads \ {t} : pc'[u] = pc[u]
  BY <1>1 DEF IInv, TypeOK
<1>4. LockInv'
  BY <1>1, <1>2, <1>3 DEF LockInv, Writing
<1>5. RequestInv'
  BY <1>1 DEF IInv, RequestInv
<1>6. LifeInv'
  BY <1>1 DEF IInv, LifeInv, NoGhosts
<1>7. HeldInv'
  BY <1>3 DEF IInv, HeldInv
<1>8. StoreInv'
  <2>1. NoGhosts(newSnap'[t])
    BY <1>3 DEF IInv, LifeInv, NoGhosts, TypeOK, Snapshots
  <2>2. OneChange(k, newSnap[t])'
    BY <1>1, <1>3 DEF OneChange, IInv, TypeOK, Snapshots, Governance!Advances, Governance!Exists
  <2> QED BY <1>2, <1>3, <2>1, <2>2 DEF StoreInv, Writing, NoGhosts
<1>9. ApplyInv'
  BY <1>2, <1>3 DEF ApplyInv, Writing
<1>10. FlagsInForce' = FlagsInForce
  BY <1>1, <1>2, <1>3 DEF FlagsInForce, Writing
<1> QED BY <1>1, <1>4, <1>5, <1>6, <1>7, <1>8, <1>9, <1>10 DEF Preserved

\* A flag is changed and the change counted.
LEMMA CountedChange ==
    ASSUME TypeOK, NEW k \in Keys, Exists(flags[k]), NEW env \in Envs, NEW c \in Configs
    PROVE  LET f == WithConfig(flags[k], env, c)
           IN  f \in Flags /\ Exists(f) /\ Governance!Advances(flags[k], f)
<1>1. flags[k] \in Flags
  BY DEF TypeOK, Snapshots
<1> QED BY SMT, <1>1, WithConfigType DEF Exists, Governance!Advances, Flags

\* A saved flag is a new one, or the old one with its version counted up.
LEMMA SavedAdvances ==
    ASSUME TypeOK, LifeInv, NEW k \in Keys, NEW envs \in [Envs -> Configs], NEW v \in Nat
    PROVE  /\ Saved(k, envs, v) \in Flags
           /\ Exists(Saved(k, envs, v))
           /\ Governance!Advances(flags[k], Saved(k, envs, v))
<1>1. flags[k] \in Flags /\ nextLife \in Nat
  BY DEF TypeOK, Snapshots
<1>2. CASE Exists(flags[k])
  BY SMT, <1>1, <1>2, SavedType DEF Saved, Exists, Governance!Advances, Flags
<1>3. CASE ~Exists(flags[k])
  <2>1. flags[k].life = 0 /\ nextLife > 0
    BY <1>3 DEF LifeInv, NoGhosts
  <2>2. /\ Saved(k, envs, v).life = nextLife
        /\ Saved(k, envs, v).ver = IF v = 0 THEN 1 ELSE v
    BY <1>3 DEF Saved
  <2> QED BY SMT, <1>1, <1>3, <2>1, <2>2, SavedType
          DEF Exists, Governance!Advances, Governance!Exists
<1> QED BY <1>2, <1>3

LEMMA SaveStep ==
    ASSUME IInv, TypeOK', NEW t \in Threads, pc[t] \notin Writing, NEW k \in Keys,
           NEW envs \in [Envs -> Configs], NEW v \in Nat, SaveFlag(t, k, envs, v),
           \A u \in Threads \ {t} : held'[u] = held[u]
    PROVE  Preserved /\ UNCHANGED <<FlagsInForce, changeRequests>>
<1>1. TypeOK /\ LifeInv
  BY DEF IInv
<1>2. Prepare(t, k, Saved(k, envs, v), Saved(k, envs, v))
  BY DEF SaveFlag
<1>3. nextLife' > 0
  BY SMT, <1>1 DEF SaveFlag, LifeInv, TypeOK
<1> QED BY <1>1, <1>2, <1>3, SavedAdvances, PrepareStep

LEMMA FlagRequestStep ==
    ASSUME IInv, TypeOK', NEW t \in Threads, FlagRequest(t)
    PROVE  Preserved /\ GovStep
<1> USE DEF GovStep
<1>1. PICK k \in Keys :
        \/ \E envs \in [Envs -> Payloads], v \in PayloadVers : WriteFlag(t, k, envs, v)
        \/ DeleteFlagByProject(t, k)
        \/ \E env \in Envs, b \in BOOLEAN : ToggleFlagByProject(t, k, env, b)
        \/ \E env \in Envs, pct \in Pcts : UpdateRolloutByProject(t, k, env, pct)
        \/ PromoteRead(t, k)
        \/ CreateChangeRequestRead(t, k)
  BY DEF FlagRequest
<1>2. /\ TypeOK /\ nextLife > 0
      /\ flags[k] \in Flags /\ \A env \in Envs : flags[k].envs[env] \in Configs
  BY SMT DEF IInv, LifeInv, TypeOK, Snapshots, Flags
<1>3. ASSUME NEW envs \in [Envs -> Payloads], NEW v \in PayloadVers,
             WriteFlag(t, k, envs, v)
      PROVE  Preserved /\ GovStep
  <2>1. envs \in [Envs -> Configs] /\ v \in Nat
    BY PayloadType, InputAssumption
  <2>2. SaveFlag(t, k, envs, v) /\ held' = held /\ pc[t] \notin Writing
    BY <1>3 DEF WriteFlag, Writing
  <2> QED BY <2>1, <2>2, SaveStep
<1>4. CASE DeleteFlagByProject(t, k)
  <2>1. /\ Prepare(t, k, NoFlag, flags[k]) /\ pc[t] \notin Writing
        /\ held' = held /\ nextLife' = nextLife
    BY <1>4 DEF DeleteFlagByProject, Writing
  <2>2. NoFlag.life = 0 /\ Governance!Advances(flags[k], NoFlag)
    BY SMT DEF NoFlag, Governance!Advances, Governance!Exists
  <2> QED BY <1>2, <2>1, <2>2, DefaultTypes, PrepareStep
<1>5. ASSUME NEW env \in Envs, NEW b \in BOOLEAN, ToggleFlagByProject(t, k, env, b)
      PROVE  Preserved /\ GovStep
  <2> DEFINE c == [flags[k].envs[env] EXCEPT !.enabled = b]
             f == WithConfig(flags[k], env, c)
  <2>1. /\ Prepare(t, k, f, f) /\ pc[t] \notin Writing /\ Exists(flags[k])
        /\ held' = held /\ nextLife' = nextLife
    BY <1>5 DEF ToggleFlagByProject, Writing
  <2>2. c \in Configs
    BY <1>2 DEF Configs
  <2>3. f \in Flags /\ Exists(f) /\ Governance!Advances(flags[k], f)
    BY <1>2, <2>1, <2>2, CountedChange
  <2> HIDE DEF f
  <2> QED BY <1>2, <2>1, <2>3, PrepareStep
<1>6. ASSUME NEW env \in Envs, NEW pct \in Pcts, UpdateRolloutByProject(t, k, env, pct)
      PROVE  Preserved /\ GovStep
  <2> DEFINE c == [flags[k].envs[env] EXCEPT !.pct = Clamp(pct)]
             f == WithConfig(flags[k], env, c)
  <2>1. /\ Prepare(t, k, f, f) /\ pc[t] \notin Writing /\ Exists(flags[k])
        /\ held' = held /\ nextLife' = nextLife
    BY <1>6 DEF UpdateRolloutByProject, Writing
  <2>2. c \in Configs
    BY <1>2, ClampType, InputAssumption DEF Configs
  <2>3. f \in Flags /\ Exists(f) /\ Governance!Advances(flags[k], f)
    BY <1>2, <2>1, <2>2, CountedChange
  <2> HIDE DEF f
  <2> QED BY <1>2, <2>1, <2>3, PrepareStep
<1>7. ASSUME NEW next \in {"promote", "submit"}, ReadFlag(t, k, next)
      PROVE  Preserved /\ GovStep
  <2>1. /\ pc[t] = "idle" /\ Exists(flags[k])
        /\ held' = [held EXCEPT ![t] = [key |-> k, flag |-> flags[k]]]
        /\ pc' = [pc EXCEPT ![t] = next]
        /\ UNCHANGED <<flags, changeRequests, writeMu, newSnap, applying, nextLife>>
    BY <1>7 DEF ReadFlag, tables
  <2>2. /\ pc'[t] = next /\ held'[t].flag = flags[k]
        /\ \A u \in Threads \ {t} : pc'[u] = pc[u] /\ held'[u] = held[u]
    BY <1>2, <2>1 DEF TypeOK
  <2>3. LockInv' /\ LifeInv' /\ StoreInv' /\ ApplyInv'
    BY <2>1, <2>2, BystanderStep DEF Writing
  <2>4. RequestInv' /\ HeldInv'
    BY <2>1, <2>2 DEF IInv, RequestInv, HeldInv
  <2>5. FlagsInForce' = FlagsInForce
    BY <1>2, <2>1, <2>2 DEF FlagsInForce, TypeOK
  <2> QED BY <2>1, <2>3, <2>4, <2>5 DEF Preserved
<1> QED BY <1>1, <1>3, <1>4, <1>5, <1>6, <1>7 DEF PromoteRead, CreateChangeRequestRead

\* The writer publishes: this is the step in which the flag changes.
LEMMA StoreSnapshotStep ==
    ASSUME IInv, TypeOK', NEW t \in Threads, StoreSnapshot(t)
    PROVE  Preserved /\ GovStep
<1>1. /\ pc[t] = "store" /\ flags' = newSnap[t] /\ pc' = [pc EXCEPT ![t] = "append"]
      /\ UNCHANGED <<changeRequests, writeMu, held, applying, nextLife>>
  BY DEF StoreSnapshot
<1>2. writeMu = t /\ \A u \in Threads \ {t} : pc[u] \notin Writing
  BY <1>1, NobodyElseWrites DEF IInv, Writing
<1>3. pc'[t] = "append" /\ \A u \in Threads \ {t} : pc'[u] = pc[u]
  BY <1>1 DEF IInv, TypeOK
<1>4. LockInv' /\ StoreInv' /\ ApplyInv'
  BY SMT, <1>1, <1>2, <1>3 DEF LockInv, StoreInv, ApplyInv, Writing
<1>5. RequestInv' /\ HeldInv'
  BY <1>1, <1>3 DEF IInv, RequestInv, HeldInv
<1>6. LifeInv'
  BY <1>1 DEF IInv, LifeInv, StoreInv, NoGhosts
<1>7. FlagsInForce = flags /\ FlagsInForce' = newSnap[t]
  BY <1>1, <1>2, <1>3 DEF FlagsInForce
<1>8. Governance!Next
  <2>1. PICK k \in Keys : OneChange(k, newSnap[t])
    BY <1>1 DEF IInv, StoreInv
  <2>2. Governance!Change(k)
    BY <1>1, <1>7, <2>1 DEF OneChange, Governance!Change
  <2> QED BY <2>2 DEF Governance!Next
<1> QED BY <1>4, <1>5, <1>6, <1>8 DEF Preserved, GovStep

LEMMA AppendAuditLogStep ==
    ASSUME IInv, TypeOK', NEW t \in Threads, AppendAuditLog(t)
    PROVE  Preserved /\ GovStep
<1>1. /\ pc[t] = "append" /\ pc' = [pc EXCEPT ![t] = "idle"] /\ writeMu' = NoThread
      /\ UNCHANGED <<flags, changeRequests, newSnap, held, applying, nextLife>>
  BY DEF AppendAuditLog, tables
<1>2. writeMu = t /\ \A u \in Threads \ {t} : pc[u] \notin Writing
  BY <1>1, NobodyElseWrites DEF IInv, Writing
<1>3. pc'[t] = "idle" /\ \A u \in Threads \ {t} : pc'[u] = pc[u]
  BY <1>1 DEF IInv, TypeOK
<1>4. LockInv' /\ StoreInv' /\ ApplyInv'
  BY SMT, <1>1, <1>2, <1>3, ThreadsAssumption DEF LockInv, StoreInv, ApplyInv, Writing
<1>5. RequestInv' /\ HeldInv' /\ LifeInv'
  BY <1>1, <1>3 DEF IInv, RequestInv, HeldInv, LifeInv, NoGhosts
<1>6. FlagsInForce' = FlagsInForce
  BY <1>1, <1>2 DEF FlagsInForce
<1> QED BY <1>1, <1>4, <1>5, <1>6 DEF Preserved, GovStep

LEMMA PromoteSaveStep ==
    ASSUME IInv, TypeOK', NEW t \in Threads, NEW from \in Envs, NEW to \in Envs,
           PromoteSave(t, from, to)
    PROVE  Preserved /\ GovStep
<1> DEFINE f == held[t].flag
           envs == [f.envs EXCEPT ![to] = f.envs[from]]
<1>1. held[t].key \in Keys /\ f \in Flags
  BY DEF IInv, TypeOK, Held
<1>2. envs \in [Envs -> Configs] /\ f.ver \in Nat
  BY <1>1 DEF Flags
<1>3. /\ SaveFlag(t, held[t].key, envs, f.ver) /\ pc[t] \notin Writing
      /\ held' = [held EXCEPT ![t] = NoHeld]
  BY DEF PromoteSave, Writing
<1>4. \A u \in Threads \ {t} : held'[u] = held[u]
  BY <1>3 DEF IInv, TypeOK
<1> HIDE DEF envs, f
<1> QED BY <1>1, <1>2, <1>3, <1>4, SaveStep DEF GovStep

LEMMA CreateChangeRequestStep ==
    ASSUME IInv, TypeOK', NEW t \in Threads, NEW c \in CRIds, NEW env \in Envs,
           NEW proposed \in Payloads, NEW u \in Users,
           CreateChangeRequest(t, c, env, proposed, u)
    PROVE  Preserved /\ GovStep
<1> DEFINE cr == Submitted(held[t].key, held[t].flag, env, proposed, u)
<1>1. /\ pc[t] = "submit" /\ pc' = [pc EXCEPT ![t] = "idle"]
      /\ changeRequests' = [changeRequests EXCEPT ![c] = cr]
      /\ held' = [held EXCEPT ![t] = NoHeld]
      /\ UNCHANGED <<flags, writeMu, newSnap, applying, nextLife>>
  BY DEF CreateChangeRequest
<1>2. pc'[t] = "idle" /\ \A v \in Threads \ {t} : pc'[v] = pc[v] /\ held'[v] = held[v]
  BY <1>1 DEF IInv, TypeOK
<1>3. changeRequests'[c] = cr /\ \A d \in CRIds \ {c} : changeRequests'[d] = changeRequests[d]
  BY <1>1 DEF IInv, TypeOK
<1>4. cr.status = "PENDING" /\ cr.base > 0
  BY <1>1 DEF IInv, HeldInv, Exists, Submitted
<1>5. LockInv' /\ LifeInv' /\ StoreInv' /\ ApplyInv'
  BY <1>1, <1>2, BystanderStep DEF Writing
<1> HIDE DEF cr
<1>6. RequestInv' /\ HeldInv'
  BY <1>2, <1>3, <1>4 DEF IInv, RequestInv, HeldInv
<1>7. FlagsInForce' = FlagsInForce
  BY <1>1, <1>2 DEF FlagsInForce, IInv, TypeOK
<1>8. Governance!Submit(c)
  BY <1>3, <1>4, <1>7 DEF Governance!Submit
<1> QED BY <1>5, <1>6, <1>8 DEF Preserved, GovStep, Governance!Next

\* A review by somebody who is not the author.
LEMMA ReviewStep ==
    ASSUME IInv, TypeOK', NEW c \in CRIds, NEW u \in Users, NEW b \in BOOLEAN,
           ReviewChangeRequest(c, u, b)
    PROVE  Preserved /\ GovStep
<1> DEFINE cr == changeRequests[c]
           verdict == IF b THEN "APPROVED" ELSE "REJECTED"
<1>1. /\ cr.status = "PENDING" /\ cr.author # u
      /\ changeRequests' = [changeRequests EXCEPT ![c] =
            [@ EXCEPT !.reviewer = u, !.status = verdict]]
      /\ UNCHANGED <<flags, writeMu, pc, newSnap, held, applying, nextLife>>
  BY DEF ReviewChangeRequest, MayReview, Reviewed, threadVars
<1>2. LockInv' /\ LifeInv' /\ StoreInv' /\ ApplyInv' /\ HeldInv'
  BY <1>1, BystanderStep DEF IInv, HeldInv
<1>3. RequestInv'
  <2>1. \A d \in CRIds \ {c} : changeRequests'[d] = changeRequests[d]
    BY <1>1 DEF IInv, TypeOK
  <2>2. /\ changeRequests'[c].reviewer = u /\ changeRequests'[c].author = cr.author
        /\ changeRequests'[c].base = cr.base
    BY <1>1 DEF IInv, TypeOK, ChangeRequests
  <2> QED BY <1>1, <2>1, <2>2 DEF IInv, RequestInv
<1>4. FlagsInForce' = FlagsInForce
  BY <1>1 DEF FlagsInForce
<1>5. Governance!Review(c)
  BY <1>1, <1>4 DEF Governance!Review
<1> QED BY <1>2, <1>3, <1>5 DEF Preserved, GovStep, Governance!Next

\* ApplyChangeRequest takes effect when it marks the request: it holds writeMu
\* until its snapshot is published, so no writer can come in between.
LEMMA ApplyChangeRequestStep ==
    ASSUME IInv, TypeOK', NEW t \in Threads, NEW c \in CRIds, ApplyChangeRequest(t, c)
    PROVE  Preserved /\ GovStep
<1> DEFINE cr == changeRequests[c]
           k == cr.key
           f == WithConfig(flags[k], cr.env, cr.proposed)
<1>1. /\ writeMu = NoThread /\ writeMu' = t /\ MayApply(cr, flags[k])
      /\ changeRequests' = [changeRequests EXCEPT ![c].status = "APPLIED"]
      /\ newSnap' = [newSnap EXCEPT ![t] = [flags EXCEPT ![k] = f]]
      /\ applying' = [applying EXCEPT ![t] = cr]
      /\ pc' = [pc EXCEPT ![t] = "apply"]
      /\ UNCHANGED <<flags, held, nextLife>>
  BY DEF ApplyChangeRequest
<1>2. \A u \in Threads : pc[u] \notin Writing
  BY <1>1, NobodyWrites DEF IInv
<1>3. /\ pc'[t] = "apply" /\ newSnap'[t] = [flags EXCEPT ![k] = f] /\ applying'[t] = cr
      /\ \A u \in Threads \ {t} : pc'[u] = pc[u]
  BY <1>1 DEF IInv, TypeOK
<1>4. /\ cr.status = "APPROVED" /\ cr.reviewer # cr.author
      /\ Exists(flags[k]) /\ flags[k].ver = cr.base
  BY <1>1 DEF MayApply, IInv, RequestInv
<1>5. LockInv' /\ StoreInv'
  BY <1>1, <1>2, <1>3 DEF LockInv, StoreInv, Writing
<1>6. RequestInv'
  <2>1. \A d \in CRIds \ {c} : changeRequests'[d] = changeRequests[d]
    BY <1>1 DEF IInv, TypeOK
  <2>2. /\ changeRequests'[c].reviewer = cr.reviewer
        /\ changeRequests'[c].author = cr.author
        /\ changeRequests'[c].base = cr.base
    BY SMT, <1>1 DEF IInv, TypeOK, ChangeRequests
  <2> QED BY <1>4, <2>1, <2>2 DEF IInv, RequestInv
<1>7. LifeInv' /\ HeldInv'
  BY <1>1, <1>3 DEF IInv, LifeInv, NoGhosts, HeldInv
<1>8. ApplyInv'
  BY <1>1, <1>2, <1>3, <1>4 DEF ApplyInv, Writing
<1>9. FlagsInForce = flags /\ FlagsInForce' = [flags EXCEPT ![k] = f]
  BY <1>1, <1>3, ThreadsAssumption DEF FlagsInForce
<1>10. f = [life |-> flags[k].life, ver |-> cr.base + 1,
            envs |-> [flags[k].envs EXCEPT ![cr.env] = cr.proposed]]
  BY <1>4 DEF WithConfig
<1>11. Governance!Apply(c)
  BY <1>1, <1>4, <1>9, <1>10 DEF Governance!Apply, Governance!Exists, Exists
<1> QED BY <1>5, <1>6, <1>7, <1>8, <1>11 DEF Preserved, GovStep, Governance!Next

LEMMA ApplyStoreStep ==
    ASSUME IInv, TypeOK', NEW t \in Threads, ApplyStore(t)
    PROVE  Preserved /\ GovStep
<1>1. /\ pc[t] = "apply" /\ flags' = newSnap[t] /\ pc' = [pc EXCEPT ![t] = "idle"]
      /\ writeMu' = NoThread
      /\ UNCHANGED <<changeRequests, held, nextLife>>
  BY DEF ApplyStore
<1>2. writeMu = t /\ \A u \in Threads \ {t} : pc[u] \notin Writing
  BY <1>1, NobodyElseWrites DEF IInv, Writing
<1>3. pc'[t] = "idle" /\ \A u \in Threads \ {t} : pc'[u] = pc[u]
  BY <1>1 DEF IInv, TypeOK
<1>4. LockInv' /\ StoreInv' /\ ApplyInv'
  BY <1>1, <1>2, <1>3, ThreadsAssumption DEF LockInv, StoreInv, ApplyInv, Writing
<1>5. RequestInv' /\ HeldInv'
  BY <1>1, <1>3 DEF IInv, RequestInv, HeldInv
<1>6. LifeInv'
  <2> DEFINE cr == applying[t]
             f == WithConfig(flags[cr.key], cr.env, cr.proposed)
  <2>1. newSnap[t] = [flags EXCEPT ![cr.key] = f] /\ Exists(flags[cr.key])
    BY <1>1 DEF IInv, ApplyInv
  <2>2. /\ cr.key \in Keys /\ cr.env \in Envs /\ cr.proposed \in Configs
        /\ flags \in Snapshots /\ TypeOK
    BY DEF IInv, TypeOK, ChangeRequests
  <2>3. Exists(f)
    BY <2>1, <2>2, CountedChange
  <2> HIDE DEF f
  <2>4. NoGhosts(newSnap[t])
    BY <2>1, <2>2, <2>3 DEF IInv, LifeInv, NoGhosts, Snapshots
  <2> QED BY <1>1, <2>4 DEF IInv, LifeInv, NoGhosts
<1>7. FlagsInForce' = FlagsInForce
  BY <1>1, <1>2, ThreadsAssumption DEF FlagsInForce
<1> QED BY <1>1, <1>4, <1>5, <1>6, <1>7 DEF Preserved, GovStep

\* The audit log's own operations leave flags and change requests alone.
LEMMA AuditStep ==
    ASSUME IInv, TypeOK',
           \/ \E t \in Threads : PurgeRecord(t)
           \/ \E t \in Threads, p \in Projects, before \in 0..clock : PurgeAuditLogs(t, p, before)
           \/ \E a \in APIKeys : RevokeAPIKeyByProject(a)
    PROVE  Preserved /\ GovStep
<1>1. /\ UNCHANGED <<flags, changeRequests, writeMu, newSnap, held, applying, nextLife>>
      /\ \/ pc' = pc
         \/ \E t \in Threads : pc[t] = "purged" /\ pc' = [pc EXCEPT ![t] = "idle"]
         \/ \E t \in Threads : pc[t] = "idle" /\ pc' = [pc EXCEPT ![t] = "purged"]
  BY DEF PurgeRecord, PurgeAuditLogs, RevokeAPIKeyByProject, tables, threadVars
<1>2. \A u \in Threads : \/ pc'[u] = pc[u]
                         \/ pc[u] \in {"idle", "purged"} /\ pc'[u] \in {"idle", "purged"}
  BY <1>1 DEF IInv, TypeOK
<1>3. LockInv' /\ LifeInv' /\ StoreInv' /\ ApplyInv'
  BY <1>1, <1>2, BystanderStep DEF Writing
<1>4. RequestInv' /\ HeldInv'
  BY <1>1, <1>2 DEF IInv, RequestInv, HeldInv
<1>5. FlagsInForce' = FlagsInForce
  BY <1>1, <1>2 DEF FlagsInForce, IInv, TypeOK
<1> QED BY <1>1, <1>3, <1>4, <1>5 DEF Preserved, GovStep

LEMMA ResetStep ==
    ASSUME IInv, TypeOK', Reset
    PROVE  Preserved /\ GovStep
<1>1. /\ writeMu = NoThread /\ flags' = NoFlags
      /\ UNCHANGED <<changeRequests, writeMu, pc, newSnap, held, applying, nextLife>>
  BY DEF Reset, threadVars
<1>2. \A u \in Threads : pc[u] \notin Writing
  BY <1>1, NobodyWrites DEF IInv
<1>3. LockInv' /\ StoreInv' /\ ApplyInv'
  BY <1>1, <1>2 DEF IInv, LockInv, StoreInv, ApplyInv, Writing
<1>4. RequestInv' /\ HeldInv' /\ LifeInv'
  BY <1>1 DEF IInv, RequestInv, HeldInv, LifeInv, NoGhosts, NoFlags, NoFlag
<1>5. FlagsInForce' = NoFlags
  BY <1>1 DEF FlagsInForce
<1> QED BY <1>1, <1>3, <1>4, <1>5 DEF Preserved, GovStep, Governance!Next, Governance!Reset

-----------------------------------------------------------------------------
\* Every step keeps the invariant and is a step of FlagGovernance or none.
LEMMA INext ==
    ASSUME IInv, [Next]_vars
    PROVE  IInv' /\ [Governance!Next]_<<FlagsInForce, changeRequests>>
<1>1. TypeOK' /\ LogInv'
  BY TypeNext DEF IInv
<1>2. CASE Next
  <2>1. ASSUME NEW t \in Threads, Continue(t) PROVE Preserved /\ GovStep
    BY <1>1, <2>1, StoreSnapshotStep, AppendAuditLogStep, PromoteSaveStep,
       CreateChangeRequestStep, ApplyStoreStep, AuditStep DEF Continue
  <2>2. Preserved /\ GovStep
    BY <1>1, <1>2, <2>1, FlagRequestStep, ApplyChangeRequestStep, ReviewStep,
       AuditStep, ResetStep DEF Next
  <2> QED BY <1>1, <2>2 DEF Preserved, GovStep, IInv
<1>3. CASE UNCHANGED vars
  <2>1. UNCHANGED <<flags, changeRequests, writeMu, pc, newSnap, held, applying, nextLife>>
    BY <1>3 DEF vars, tables, threadVars
  <2>2. LockInv' /\ LifeInv' /\ StoreInv' /\ ApplyInv'
    BY <2>1, BystanderStep
  <2>3. RequestInv' /\ HeldInv'
    BY <2>1 DEF IInv, RequestInv, HeldInv
  <2>4. FlagsInForce' = FlagsInForce
    BY <2>1 DEF FlagsInForce
  <2> QED BY <1>1, <2>1, <2>2, <2>3, <2>4 DEF IInv
<1> QED BY <1>2, <1>3

LEMMA Invariance == Spec => []IInv
<1>1. IInv /\ [Next]_vars => IInv'
  BY INext
<1> QED BY IInit, <1>1, PTL DEF Spec

\* The memory store implements FlagGovernance: with its two locks, versions
\* count the writes, and a change request is reviewed once by a second person
\* and applied once, to the version it was written against.
THEOREM ImplementsGovernance == Spec => RefinesGovernance
<1>1. Init => Governance!Init
  BY SMT DEF Init, Governance!Init, FlagsInForce, NoCR
<1>2. IInv /\ [Next]_vars => [Governance!Next]_<<FlagsInForce, changeRequests>>
  BY INext
<1> QED BY <1>1, <1>2, Invariance, PTL DEF Spec, RefinesGovernance, Governance!Spec

\* What ApplyChangeRequest publishes, after giving up mu, is still the flag of
\* the base version with the approved configuration and nothing else.
THEOREM PublishesWhatWasApproved == Spec => AppliesWhatWasApproved
<1> DEFINE Publishes(t) ==
        pc[t] = "apply" /\ pc'[t] = "idle" =>
            LET cr == applying[t]
            IN  /\ cr.status = "APPROVED" /\ cr.author # cr.reviewer
                /\ flags[cr.key].ver = cr.base
                /\ flags' = [flags EXCEPT
                      ![cr.key] = WithConfig(flags[cr.key], cr.env, cr.proposed)]
<1>1. ASSUME IInv, [Next]_vars, NEW t \in Threads, pc[t] = "apply", pc'[t] = "idle"
      PROVE  flags' = newSnap[t]
  <2>1. writeMu = t /\ \A u \in Threads \ {t} : pc[u] \notin Writing
    BY <1>1, NobodyElseWrites DEF IInv, Writing
  <2>2. writeMu # NoThread
    BY <2>1, ThreadsAssumption
  <2>3. ~ UNCHANGED vars
    BY <1>1 DEF vars, threadVars
  <2>4. pc' # pc
    BY <1>1
  <2>5. PICK u \in Threads : FlagRequest(u) \/ Continue(u)
    BY <1>1, <2>2, <2>3, <2>4
       DEF Next, ApplyChangeRequest, PurgeAuditLogs, ReviewChangeRequest,
           RevokeAPIKeyByProject, Reset, threadVars
  <2>6. u = t \/ pc'[t] = pc[t]
    <3>1. CASE FlagRequest(u)
      <4>1. \E x : pc' = [pc EXCEPT ![u] = x]
        BY <3>1 DEF FlagRequest, WriteFlag, SaveFlag, Prepare, DeleteFlagByProject,
           ToggleFlagByProject, UpdateRolloutByProject, PromoteRead, ReadFlag,
           CreateChangeRequestRead
      <4> QED BY <1>1, <4>1 DEF IInv, TypeOK
    <3>2. CASE Continue(u)
      <4>1. \E x : pc' = [pc EXCEPT ![u] = x]
        <5>1. CASE PurgeRecord(u)
          BY <5>1 DEF PurgeRecord
        <5>2. CASE ~PurgeRecord(u)
          BY <3>2, <5>2 DEF Continue, StoreSnapshot, AppendAuditLog, PromoteSave, SaveFlag,
             Prepare, CreateChangeRequest, ApplyStore
        <5> QED BY <5>1, <5>2
      <4> QED BY <1>1, <4>1 DEF IInv, TypeOK
    <3> QED BY <2>5, <3>1, <3>2
  <2>7. ~ FlagRequest(t)
    BY <1>1 DEF FlagRequest, WriteFlag, DeleteFlagByProject, ToggleFlagByProject,
       UpdateRolloutByProject, PromoteRead, ReadFlag, CreateChangeRequestRead
  <2>8. ApplyStore(t)
    BY <1>1, <2>5, <2>6, <2>7 DEF Continue, StoreSnapshot, AppendAuditLog, PromoteSave,
       CreateChangeRequest, PurgeRecord
  <2> QED BY <2>8 DEF ApplyStore
<1>2. IInv /\ [Next]_vars => [\A t \in Threads : Publishes(t)]_vars
  BY <1>1 DEF IInv, ApplyInv
<1> QED BY <1>2, Invariance, PTL DEF Spec, AppliesWhatWasApproved

-----------------------------------------------------------------------------
(* The audit log: its hash chains. *)

ChainInv == ordered => InTimeOrder(auditLogs) /\ ChainsVerify

LEMMA AppendChain ==
    ASSUME TypeOK, LogInv, ChainInv, NEW e \in Entries, Append(e)
    PROVE  ChainInv'
<1>1. CASE Duplicate(auditLogs, e)
  BY <1>1 DEF Append, auditVars, ChainInv, ChainsVerify
<1>2. CASE ~Duplicate(auditLogs, e)
  <2> DEFINE new == Linked(auditLogs, auditAnchors, nextSeq, e)
  <2>1. /\ auditLogs' = auditLogs \cup {new}
        /\ ordered' = (ordered /\ \A l \in Own(auditLogs, e.proj) : l.ts <= e.ts)
        /\ auditAnchors' = auditAnchors
    BY <1>2 DEF Append
  <2>2. /\ new.seq = nextSeq /\ new.ts = e.ts /\ new.proj = e.proj
        /\ new.prev = HeadHash(auditLogs, auditAnchors, e.proj)
    BY DEF Linked, Entries
  <2>3. /\ \A l \in auditLogs : l.seq \in Nat /\ l.seq < nextSeq
        /\ nextSeq \in Nat /\ new \notin auditLogs
    BY SMT, <2>2 DEF LogInv, WellNumbered
  <2> HIDE DEF new
  <2> SUFFICES ASSUME ordered' PROVE InTimeOrder(auditLogs') /\ ChainsVerify'
    BY DEF ChainInv
  <2>4. ordered /\ \A l \in auditLogs : l.proj = e.proj => l.ts <= e.ts
    BY <2>1 DEF Own
  <2>5. InTimeOrder(auditLogs')
    <3> SUFFICES ASSUME NEW a \in auditLogs \cup {new}, NEW b \in auditLogs \cup {new},
                        a.proj = b.proj, a.seq < b.seq
                 PROVE  a.ts <= b.ts
      BY <2>1 DEF InTimeOrder
    <3>1. CASE a \in auditLogs /\ b \in auditLogs
      BY <2>4, <3>1 DEF ChainInv, InTimeOrder
    <3>2. CASE a \in auditLogs /\ b = new
      BY <2>2, <2>4, <3>2
    <3>3. CASE a = new
      BY SMT, <2>2, <2>3, <3>3
    <3> QED BY <3>1, <3>2, <3>3
  <2>6. ChainsVerify'
    <3> SUFFICES ASSUME NEW p \in Projects
                 PROVE  VerifyAuditLogIntegrity(auditLogs \cup {new}, auditAnchors, p)
      BY <2>1 DEF ChainsVerify
    <3>1. VerifyAuditLogIntegrity(auditLogs, auditAnchors, p)
      BY <2>4 DEF ChainInv, ChainsVerify
    <3> QED BY <2>2, <2>3, <3>1, AppendKeepsChain DEF LogInv
  <2> QED BY <2>5, <2>6
<1> QED BY <1>1, <1>2

LEMMA PurgeChain ==
    ASSUME TypeOK, LogInv, ChainInv, NEW t \in Threads, NEW p \in Projects,
           NEW before \in Nat, PurgeAuditLogs(t, p, before)
    PROVE  ChainInv'
<1>1. /\ auditLogs' = auditLogs \ Purged(auditLogs, p, before)
      /\ auditAnchors' = PurgeAnchor(auditLogs, auditAnchors, p, before)
      /\ ordered' = ordered
  BY DEF PurgeAuditLogs
<1> SUFFICES ASSUME ordered PROVE InTimeOrder(auditLogs') /\ ChainsVerify'
  BY <1>1 DEF ChainInv
<1>2. InTimeOrder(auditLogs')
  BY <1>1 DEF ChainInv, InTimeOrder
<1>3. ChainsVerify'
  <2> SUFFICES ASSUME NEW q \in Projects
               PROVE  VerifyAuditLogIntegrity(auditLogs', auditAnchors', q)
    BY DEF ChainsVerify
  <2>1. InTimeOrder(auditLogs) /\ VerifyAuditLogIntegrity(auditLogs, auditAnchors, q)
    BY DEF ChainInv, ChainsVerify
  <2>2. auditAnchors \in [Projects -> Nat]
    BY DEF TypeOK
  <2> QED BY <1>1, <2>1, <2>2, PurgeKeepsChain DEF LogInv
<1> QED BY <1>2, <1>3

\* The steps that touch the audit log, and what they do to it.
LEMMA LogSteps ==
    ASSUME TypeOK, LogInv, [Next]_vars
    PROVE  \/ UNCHANGED auditVars
           \/ \E e \in Entries : Append(e)
           \/ \E t \in Threads, p \in Projects, before \in Nat : PurgeAuditLogs(t, p, before)
           \/ Reset
<1> DEFINE Goal ==
        \/ UNCHANGED auditVars
        \/ \E e \in Entries : Append(e)
        \/ \E t \in Threads, p \in Projects, before \in Nat : PurgeAuditLogs(t, p, before)
        \/ Reset
<1>1. CASE UNCHANGED vars
  BY <1>1 DEF vars
<1>2. ASSUME NEW t \in Threads, FlagRequest(t) PROVE UNCHANGED auditVars
  BY <1>2 DEF FlagRequest, WriteFlag, SaveFlag, Prepare, DeleteFlagByProject,
     ToggleFlagByProject, UpdateRolloutByProject, PromoteRead, ReadFlag,
     CreateChangeRequestRead
<1>3. ASSUME NEW t \in Threads, Continue(t) PROVE Goal
  <2>1. CASE AppendAuditLog(t)
    BY <2>1 DEF AppendAuditLog, TypeOK
  <2>2. CASE PurgeRecord(t)
    <3> DEFINE e == [pending[t] EXCEPT !.ts = clock']
    <3>1. pending[t] \in Entries /\ clock' \in Nat
      BY <2>2, ClockType DEF PurgeRecord, TypeOK
    <3>2. e \in Entries
      BY <3>1 DEF Entries
    <3> QED BY <2>2, <3>2 DEF PurgeRecord
  <2>3. CASE ~AppendAuditLog(t) /\ ~PurgeRecord(t)
    BY <1>3, <2>3 DEF Continue, StoreSnapshot, PromoteSave, SaveFlag, Prepare,
       CreateChangeRequest, ApplyStore
  <2> QED BY <2>1, <2>2, <2>3
<1>4. ASSUME NEW t \in Threads, NEW c \in CRIds, ApplyChangeRequest(t, c) PROVE Goal
  <2> DEFINE cr == changeRequests[c]
             f == WithConfig(flags[cr.key], cr.env, cr.proposed)
  <2>1. /\ cr.key \in Keys /\ cr.env \in Envs /\ cr.proposed \in Configs
        /\ flags[cr.key] \in Flags
    BY DEF TypeOK, ChangeRequests, Snapshots
  <2>2. f \in Flags /\ clock' \in Nat
    BY <1>4, <2>1, WithConfigType, ClockType DEF ApplyChangeRequest
  <2>3. Entry("audit", clock', ProjectOf[cr.key], cr.key, f) \in Entries
    BY <2>1, <2>2, EntryType, ProjectType DEF Subjects
  <2> QED BY <1>4, <2>3 DEF ApplyChangeRequest
<1>5. ASSUME NEW a \in APIKeys, RevokeAPIKeyByProject(a) PROVE Goal
  <2>1. clock' \in Nat
    BY <1>5, ClockType DEF RevokeAPIKeyByProject
  <2>2. Entry("audit", clock', ProjectOf[a], "api-keys", NoFlag) \in Entries
    BY <2>1, EntryType, ProjectType, DefaultTypes DEF Subjects
  <2> QED BY <1>5, <2>2 DEF RevokeAPIKeyByProject
<1>6. ASSUME NEW c \in CRIds, NEW u \in Users, NEW b \in BOOLEAN,
             ReviewChangeRequest(c, u, b)
      PROVE  Goal
  BY <1>6 DEF ReviewChangeRequest
<1>7. \A before \in 0..clock : before \in Nat
  BY SMT DEF TypeOK
<1> QED BY <1>1, <1>2, <1>3, <1>4, <1>5, <1>6, <1>7 DEF Next

LEMMA ChainNext == TypeOK /\ LogInv /\ ChainInv /\ [Next]_vars => ChainInv'
<1> SUFFICES ASSUME TypeOK, LogInv, ChainInv, [Next]_vars PROVE ChainInv'
  OBVIOUS
<1>1. CASE UNCHANGED auditVars
  BY <1>1 DEF auditVars, ChainInv, ChainsVerify
<1>2. CASE Reset
  BY <1>2 DEF Reset, ChainInv, InTimeOrder, ChainsVerify, VerifyAuditLogIntegrity, Own
<1> QED BY <1>1, <1>2, LogSteps, AppendChain, PurgeChain

\* Whatever is appended, purged or reset, in whatever order and by however
\* many threads, VerifyAuditLogIntegrity accepts the log of every project, as
\* long as entries reached the log in the order of their timestamps.
THEOREM ChainsStayValid == Spec => []OrderedChainsVerify
<1>1. Init => ChainInv
  BY DEF Init, ChainInv, InTimeOrder, ChainsVerify, VerifyAuditLogIntegrity, Own
<1>2. IInv /\ ChainInv /\ [Next]_vars => ChainInv'
  BY ChainNext DEF IInv
<1>3. ChainInv => OrderedChainsVerify
  BY DEF ChainInv, OrderedChainsVerify
<1> QED BY <1>1, <1>2, <1>3, Invariance, PTL DEF Spec

-----------------------------------------------------------------------------
(* The order of versions. *)

\* The log has nothing newer about key k than flag f.
Covers(k, f) == \A e \in auditLogs : e.key = k /\ e.life = f.life => e.ver <= f.ver

\* A creation number that has been given out.
Given(n) == 0 < n /\ n < nextLife
AllGiven(S) == \A k \in Keys : Exists(S[k]) => Given(S[k].life)

LogOrderInv ==
    /\ AuditFollowsVersions
    /\ \A e \in auditLogs : e.key \in Keys => Given(e.life)
    /\ AllGiven(flags)
    /\ (\A t \in Threads : pc[t] # "apply") => \A k \in Keys : Covers(k, flags[k])

WriterOrder(t) ==
    /\ pc[t] \in {"store", "append"} =>
        pending[t].key \in Keys /\ Given(pending[t].life) /\ Covers(pending[t].key, pending[t])
    /\ pc[t] \in {"store", "apply"} =>
        AllGiven(newSnap[t]) /\ \A k \in Keys : Covers(k, newSnap[t][k])
    /\ pc[t] = "store" =>
        LET f == newSnap[t][pending[t].key]
        IN  pending[t].life = f.life => pending[t].ver <= f.ver
    /\ pc[t] = "append" =>
        LET f == flags[pending[t].key]
        IN  pending[t].life = f.life => pending[t].ver <= f.ver
    /\ pc[t] = "purged" => pending[t].key = "audit-logs"

OrderInv == LogOrderInv /\ \A t \in Threads : WriterOrder(t)

\* An appended entry that is at least as new as what the log has.
LEMMA AppendOrder ==
    ASSUME TypeOK, LogInv, AuditFollowsVersions, NEW e \in Entries, Append(e),
           e.key \in Keys => Covers(e.key, e)
    PROVE  /\ AuditFollowsVersions'
           /\ \A d \in auditLogs' : \/ d \in auditLogs
                                    \/ d.key = e.key /\ d.life = e.life /\ d.ver = e.ver
<1>1. CASE Duplicate(auditLogs, e)
  BY <1>1 DEF Append, auditVars, AuditFollowsVersions
<1>2. CASE ~Duplicate(auditLogs, e)
  <2> DEFINE new == Linked(auditLogs, auditAnchors, nextSeq, e)
  <2>1. auditLogs' = auditLogs \cup {new}
    BY <1>2 DEF Append
  <2>2. new.seq = nextSeq /\ new.key = e.key /\ new.life = e.life /\ new.ver = e.ver
    BY DEF Linked, Entries
  <2>3. (\A l \in auditLogs : l.seq \in Nat /\ l.seq < nextSeq) /\ nextSeq \in Nat
    BY DEF LogInv, WellNumbered
  <2> HIDE DEF new
  <2>4. ASSUME NEW a \in auditLogs \cup {new}, NEW b \in auditLogs \cup {new},
               a.key \in Keys, a.key = b.key, a.life = b.life, a.seq < b.seq
        PROVE  a.ver <= b.ver
    <3>1. CASE a \in auditLogs /\ b \in auditLogs
      BY <2>4, <3>1 DEF AuditFollowsVersions
    <3>2. CASE a \in auditLogs /\ b = new
      BY <2>2, <2>4, <3>2 DEF Covers
    <3>3. CASE a = new
      BY SMT, <2>2, <2>3, <2>4, <3>3
    <3> QED BY <3>1, <3>2, <3>3
  <2>5. AuditFollowsVersions'
    BY <2>1, <2>4 DEF AuditFollowsVersions
  <2> QED BY <2>1, <2>2, <2>5
<1> QED BY <1>1, <1>2

LEMMA ShrinkOrder ==
    ASSUME AuditFollowsVersions, auditLogs' \subseteq auditLogs
    PROVE  AuditFollowsVersions'
  BY DEF AuditFollowsVersions

\* Steps that record nothing about flags and leave writers alone.
LEMMA BystanderOrder ==
    ASSUME IInv, OrderInv, AuditFollowsVersions',
           \A d \in auditLogs' : d \in auditLogs \/ d.key \notin Keys,
           UNCHANGED <<flags, newSnap, nextLife>>,
           \A t \in Threads :
              \/ pc'[t] = pc[t] /\ pending'[t] = pending[t]
              \/ /\ pc[t] \notin Writing /\ pc'[t] \notin Writing
                 /\ pc'[t] = "purged" => pending'[t].key = "audit-logs"
    PROVE  OrderInv'
<1>1. \A k \in Keys, f \in Flags \cup Entries : Covers(k, f) => Covers(k, f)'
  BY DEF Covers
<1>2. \A n : Given(n) => Given(n)'
  BY DEF Given
<1>3. \A S : AllGiven(S) => AllGiven(S)'
  BY <1>2 DEF AllGiven
<1>4. (\A t \in Threads : pc'[t] # "apply") => \A t \in Threads : pc[t] # "apply"
  BY DEF Writing
<1>5. \A k \in Keys : flags[k] \in Flags /\ \A t \in Threads : newSnap[t][k] \in Flags
  BY SMT DEF IInv, TypeOK, Snapshots
<1>6. \A e \in auditLogs' : e.key \in Keys => Given(e.life)'
  BY <1>2 DEF OrderInv, LogOrderInv
<1>7. LogOrderInv'
  BY <1>1, <1>3, <1>4, <1>5, <1>6 DEF OrderInv, LogOrderInv
<1>8. ASSUME NEW t \in Threads PROVE WriterOrder(t)'
  <2>1. CASE pc'[t] = pc[t] /\ pending'[t] = pending[t]
    <3>1. pending[t] \in Entries
      BY DEF IInv, TypeOK
    <3> QED BY <1>1, <1>2, <1>3, <1>5, <2>1, <3>1 DEF OrderInv, WriterOrder
  <2>2. CASE ~(pc'[t] = pc[t] /\ pending'[t] = pending[t])
    BY <2>2 DEF WriterOrder, Writing
  <2> QED BY <2>1, <2>2
<1> QED BY <1>7, <1>8 DEF OrderInv

\* A writer has built its snapshot: f in place of the flag of k, entry for g.
LEMMA PrepareOrder ==
    ASSUME IInv, OrderInv, NEW t \in Threads, NEW k \in Keys,
           NEW f \in Flags, NEW g \in Flags, Prepare(t, k, f, g),
           nextLife' \in Nat, nextLife <= nextLife',
           0 < g.life /\ g.life < nextLife', Exists(f) => 0 < f.life /\ f.life < nextLife',
           Covers(k, g), Covers(k, f), g.life = f.life => g.ver <= f.ver
    PROVE  OrderInv'
<1> DEFINE S == [flags EXCEPT ![k] = f]
           e == Entry("log", clock', ProjectOf[k], k, g)
<1>1. /\ writeMu = NoThread /\ pc' = [pc EXCEPT ![t] = "store"]
      /\ newSnap' = [newSnap EXCEPT ![t] = S] /\ pending' = [pending EXCEPT ![t] = e]
      /\ UNCHANGED <<flags, auditLogs>>
  BY DEF Prepare, tables, auditVars
<1>2. \A u \in Threads : pc[u] \notin Writing
  BY <1>1, NobodyWrites DEF IInv
<1>3. /\ pc'[t] = "store" /\ newSnap'[t] = S /\ pending'[t] = e
      /\ \A u \in Threads \ {t} : pc'[u] = pc[u] /\ pending'[u] = pending[u]
  BY <1>1 DEF IInv, TypeOK
<1>4. e.key = k /\ e.life = g.life /\ e.ver = g.ver
  BY DEF Entry
<1>5. S[k] = f /\ \A j \in Keys \ {k} : S[j] = flags[j]
  BY DEF IInv, TypeOK, Snapshots
<1> HIDE DEF S, e
<1>6. \A n \in Nat : Given(n) => Given(n)'
  BY SMT DEF Given, IInv, TypeOK
<1>7. (\A j \in Keys : flags[j].life \in Nat) /\ (\A d \in auditLogs : d.life \in Nat)
  BY DEF IInv, TypeOK, Snapshots, Flags, Entries
<1>8. \A j \in Keys : Covers(j, flags[j])
  BY <1>2 DEF OrderInv, LogOrderInv, Writing
<1>9. LogOrderInv'
  <2>1. AuditFollowsVersions' /\ \A d \in auditLogs' : d.key \in Keys => Given(d.life)'
    BY <1>1, <1>6, <1>7 DEF OrderInv, LogOrderInv, AuditFollowsVersions
  <2>2. AllGiven(flags)' /\ \A j \in Keys : Covers(j, flags[j])'
    BY <1>1, <1>6, <1>7, <1>8 DEF OrderInv, LogOrderInv, AllGiven, Covers
  <2> QED BY <2>1, <2>2 DEF LogOrderInv
<1>10. WriterOrder(t)'
  <2>1. AllGiven(newSnap[t])'
    BY <1>3, <1>5, <1>6, <1>7 DEF OrderInv, LogOrderInv, AllGiven, Given
  <2>2. \A j \in Keys : Covers(j, newSnap[t][j])'
    BY SMT, <1>1, <1>3, <1>5, <1>8 DEF Covers
  <2>3. Covers(pending[t].key, pending[t])'
    BY SMT, <1>1, <1>3, <1>4 DEF Covers
  <2> QED BY <1>3, <1>4, <1>5, <2>1, <2>2, <2>3 DEF WriterOrder, Given
<1>11. ASSUME NEW u \in Threads \ {t} PROVE WriterOrder(u)'
  BY <1>2, <1>3 DEF OrderInv, WriterOrder, Writing
<1> QED BY <1>9, <1>10, <1>11 DEF OrderInv

\* The log has nothing newer than a flag that is in force, so none of it is
\* newer than the flag's next version.
LEMMA CoversNext ==
    ASSUME TypeOK, NEW k \in Keys, Covers(k, flags[k]), NEW f \in Flags,
           f.life = flags[k].life, f.ver = flags[k].ver + 1
    PROVE  Covers(k, f)
<1>1. flags[k].ver \in Nat /\ \A e \in auditLogs : e.ver \in Nat
  BY DEF TypeOK, Snapshots, Flags, Entries
<1> QED BY SMT, <1>1 DEF Covers

LEMMA SaveOrder ==
    ASSUME IInv, OrderInv, NEW t \in Threads, NEW k \in Keys,
           NEW envs \in [Envs -> Configs], NEW v \in Nat, SaveFlag(t, k, envs, v)
    PROVE  OrderInv'
<1> DEFINE f == Saved(k, envs, v)
<1>1. /\ TypeOK /\ f \in Flags /\ Prepare(t, k, f, f)
      /\ nextLife' = IF Exists(flags[k]) THEN nextLife ELSE nextLife + 1
  BY SavedType DEF IInv, SaveFlag
<1>2. nextLife \in Nat /\ nextLife > 0
  BY DEF IInv, TypeOK, LifeInv
<1>3. 0 < f.life /\ f.life < nextLife' /\ Covers(k, f)
  <2>1. CASE Exists(flags[k])
    <3>1. f.life = flags[k].life /\ f.ver = flags[k].ver + 1
      BY <2>1 DEF Saved
    <3>2. Covers(k, flags[k])
      BY <1>1, NobodyWrites DEF Prepare, IInv, OrderInv, LogOrderInv, Writing
    <3>3. Given(f.life)
      BY <2>1, <3>1 DEF OrderInv, LogOrderInv, AllGiven
    <3> QED BY <1>1, <2>1, <3>1, <3>2, <3>3, CoversNext DEF Given
  <2>2. CASE ~Exists(flags[k])
    <3>1. f.life = nextLife
      BY <2>2 DEF Saved
    <3>2. \A e \in auditLogs : e.key = k => e.life # nextLife
      BY SMT, <1>2 DEF OrderInv, LogOrderInv, Given
    <3> QED BY SMT, <1>1, <1>2, <2>2, <3>1, <3>2 DEF Given, Covers
  <2> QED BY <2>1, <2>2
<1>4. nextLife' \in Nat /\ nextLife <= nextLife' /\ f.ver <= f.ver
  BY SMT, <1>1, <1>2 DEF Flags
<1> HIDE DEF f
<1> QED BY <1>1, <1>3, <1>4, PrepareOrder

\* A toggle or a rollout: the next version of a flag.
LEMMA ChangeOrder ==
    ASSUME IInv, OrderInv, NEW t \in Threads, NEW k \in Keys, Exists(flags[k]),
           NEW f \in Flags, f.life = flags[k].life, f.ver = flags[k].ver + 1,
           Prepare(t, k, f, f), nextLife' = nextLife
    PROVE  OrderInv'
<1>1. TypeOK /\ Covers(k, flags[k])
  BY NobodyWrites DEF Prepare, IInv, OrderInv, LogOrderInv, Writing
<1>2. 0 < f.life /\ f.life < nextLife /\ nextLife \in Nat
  BY DEF IInv, TypeOK, OrderInv, LogOrderInv, AllGiven, Given
<1>3. Covers(k, f)
  BY <1>1, CoversNext
<1>4. f.ver <= f.ver /\ nextLife <= nextLife
  BY SMT, <1>2 DEF Flags
<1> QED BY <1>2, <1>3, <1>4, PrepareOrder

LEMMA DeleteOrder ==
    ASSUME IInv, OrderInv, NEW t \in Threads, NEW k \in Keys, DeleteFlagByProject(t, k)
    PROVE  OrderInv'
<1>1. /\ Exists(flags[k]) /\ Prepare(t, k, NoFlag, flags[k]) /\ nextLife' = nextLife
      /\ flags[k] \in Flags /\ NoFlag \in Flags
  BY DefaultTypes DEF DeleteFlagByProject, IInv, TypeOK, Snapshots
<1>2. Covers(k, flags[k])
  BY <1>1, NobodyWrites DEF Prepare, IInv, OrderInv, LogOrderInv, Writing
<1>3. 0 < flags[k].life /\ flags[k].life < nextLife /\ nextLife \in Nat
  BY <1>1 DEF IInv, TypeOK, OrderInv, LogOrderInv, AllGiven, Given
<1>4. NoFlag.life = 0 /\ ~Exists(NoFlag)
  BY SMT DEF NoFlag, Exists
<1>5. Covers(k, NoFlag)
  BY SMT, <1>4 DEF Covers, OrderInv, LogOrderInv, Given
<1>6. nextLife <= nextLife /\ flags[k].life # NoFlag.life
  BY SMT, <1>3, <1>4
<1> QED BY <1>1, <1>2, <1>3, <1>4, <1>5, <1>6, PrepareOrder

LEMMA FlagRequestOrder ==
    ASSUME IInv, OrderInv, NEW t \in Threads, FlagRequest(t)
    PROVE  OrderInv'
<1>1. PICK k \in Keys :
        \/ \E envs \in [Envs -> Payloads], v \in PayloadVers : WriteFlag(t, k, envs, v)
        \/ DeleteFlagByProject(t, k)
        \/ \E env \in Envs, b \in BOOLEAN : ToggleFlagByProject(t, k, env, b)
        \/ \E env \in Envs, pct \in Pcts : UpdateRolloutByProject(t, k, env, pct)
        \/ PromoteRead(t, k)
        \/ CreateChangeRequestRead(t, k)
  BY DEF FlagRequest
<1>2. flags[k] \in Flags /\ \A env \in Envs : flags[k].envs[env] \in Configs
  BY DEF IInv, TypeOK, Snapshots, Flags
<1>3. ASSUME NEW envs \in [Envs -> Payloads], NEW v \in PayloadVers,
             WriteFlag(t, k, envs, v)
      PROVE  OrderInv'
  <2>1. envs \in [Envs -> Configs] /\ v \in Nat
    BY PayloadType, InputAssumption
  <2> QED BY <1>3, <2>1, SaveOrder DEF WriteFlag
<1>4. ASSUME NEW env \in Envs, NEW b \in BOOLEAN, ToggleFlagByProject(t, k, env, b)
      PROVE  OrderInv'
  <2> DEFINE c == [flags[k].envs[env] EXCEPT !.enabled = b]
             f == WithConfig(flags[k], env, c)
  <2>1. Prepare(t, k, f, f) /\ Exists(flags[k]) /\ nextLife' = nextLife
    BY <1>4 DEF ToggleFlagByProject
  <2>2. c \in Configs
    BY <1>2 DEF Configs
  <2>3. f \in Flags /\ f.life = flags[k].life /\ f.ver = flags[k].ver + 1
    BY <1>2, <2>2, WithConfigType
  <2> HIDE DEF f
  <2> QED BY <2>1, <2>3, ChangeOrder
<1>5. ASSUME NEW env \in Envs, NEW pct \in Pcts, UpdateRolloutByProject(t, k, env, pct)
      PROVE  OrderInv'
  <2> DEFINE c == [flags[k].envs[env] EXCEPT !.pct = Clamp(pct)]
             f == WithConfig(flags[k], env, c)
  <2>1. Prepare(t, k, f, f) /\ Exists(flags[k]) /\ nextLife' = nextLife
    BY <1>5 DEF UpdateRolloutByProject
  <2>2. c \in Configs
    BY <1>2, ClampType, InputAssumption DEF Configs
  <2>3. f \in Flags /\ f.life = flags[k].life /\ f.ver = flags[k].ver + 1
    BY <1>2, <2>2, WithConfigType
  <2> HIDE DEF f
  <2> QED BY <2>1, <2>3, ChangeOrder
<1>6. ASSUME NEW next \in {"promote", "submit"}, ReadFlag(t, k, next)
      PROVE  OrderInv'
  <2>1. /\ pc[t] = "idle" /\ pc' = [pc EXCEPT ![t] = next]
        /\ UNCHANGED <<flags, auditLogs, newSnap, pending, nextLife>>
    BY <1>6 DEF ReadFlag, tables, auditVars
  <2>2. AuditFollowsVersions'
    BY <2>1, ShrinkOrder DEF OrderInv, LogOrderInv
  <2>3. pc'[t] = next /\ \A u \in Threads \ {t} : pc'[u] = pc[u]
    BY <2>1 DEF IInv, TypeOK
  <2> QED BY <2>1, <2>2, <2>3, BystanderOrder DEF Writing
<1> QED BY <1>1, <1>3, <1>4, <1>5, <1>6, DeleteOrder DEF PromoteRead, CreateChangeRequestRead

LEMMA StoreSnapshotOrder ==
    ASSUME IInv, OrderInv, NEW t \in Threads, StoreSnapshot(t)
    PROVE  OrderInv'
<1>1. /\ pc[t] = "store" /\ flags' = newSnap[t] /\ pc' = [pc EXCEPT ![t] = "append"]
      /\ UNCHANGED <<auditLogs, pending, nextLife>>
  BY DEF StoreSnapshot, auditVars
<1>2. \A u \in Threads \ {t} : pc[u] \notin Writing
  BY <1>1, NobodyElseWrites DEF IInv, Writing
<1>3. pc'[t] = "append" /\ \A u \in Threads \ {t} : pc'[u] = pc[u]
  BY <1>1 DEF IInv, TypeOK
<1>4. WriterOrder(t)
  BY DEF OrderInv
<1>5. LogOrderInv'
  <2>1. AuditFollowsVersions' /\ \A d \in auditLogs' : d.key \in Keys => Given(d.life)'
    BY <1>1 DEF OrderInv, LogOrderInv, AuditFollowsVersions, Given
  <2>2. AllGiven(flags)' /\ \A j \in Keys : Covers(j, flags[j])'
    BY <1>1, <1>4 DEF WriterOrder, AllGiven, Given, Covers
  <2> QED BY <2>1, <2>2 DEF LogOrderInv
<1>6. WriterOrder(t)'
  BY <1>1, <1>3, <1>4 DEF WriterOrder, Given, Covers
<1>7. ASSUME NEW u \in Threads \ {t} PROVE WriterOrder(u)'
  BY <1>1, <1>2, <1>3 DEF OrderInv, WriterOrder, Writing
<1> QED BY <1>5, <1>6, <1>7 DEF OrderInv

LEMMA AppendAuditLogOrder ==
    ASSUME IInv, OrderInv, NEW t \in Threads, AppendAuditLog(t)
    PROVE  OrderInv'
<1>1. /\ pc[t] = "append" /\ Append(pending[t]) /\ pc' = [pc EXCEPT ![t] = "idle"]
      /\ pending' = [pending EXCEPT ![t] = NoEntry]
      /\ UNCHANGED <<flags, newSnap, nextLife>>
  BY DEF AppendAuditLog, tables
<1>2. \A u \in Threads \ {t} : pc[u] \notin Writing
  BY <1>1, NobodyElseWrites DEF IInv, Writing
<1>3. /\ pc'[t] = "idle"
      /\ \A u \in Threads \ {t} : pc'[u] = pc[u] /\ pending'[u] = pending[u]
  BY <1>1 DEF IInv, TypeOK
<1>4. WriterOrder(t) /\ pending[t] \in Entries /\ TypeOK /\ LogInv /\ AuditFollowsVersions
  BY DEF OrderInv, LogOrderInv, IInv, TypeOK
<1>5. /\ AuditFollowsVersions'
      /\ \A d \in auditLogs' : \/ d \in auditLogs
                               \/ /\ d.key = pending[t].key /\ d.life = pending[t].life
                                  /\ d.ver = pending[t].ver
  BY <1>1, <1>4, AppendOrder DEF WriterOrder
<1>6. LogOrderInv'
  <2>1. \A d \in auditLogs' : d.key \in Keys => Given(d.life)'
    BY <1>1, <1>4, <1>5 DEF OrderInv, LogOrderInv, WriterOrder, Given
  <2>2. \A j \in Keys : Covers(j, flags[j])
    BY <1>1, <1>2 DEF OrderInv, LogOrderInv, Writing
  <2>3. \A j \in Keys : Covers(j, flags[j])'
    BY <1>1, <1>4, <1>5, <2>2 DEF WriterOrder, Covers
  <2>4. AllGiven(flags)'
    BY <1>1 DEF OrderInv, LogOrderInv, AllGiven, Given
  <2> QED BY <1>5, <2>1, <2>3, <2>4 DEF LogOrderInv
<1>7. ASSUME NEW u \in Threads PROVE WriterOrder(u)'
  BY <1>2, <1>3 DEF OrderInv, WriterOrder, Writing
<1> QED BY <1>6, <1>7 DEF OrderInv

\* ApplyChangeRequest records the version before it publishes it.
LEMMA ApplyChangeRequestOrder ==
    ASSUME IInv, OrderInv, NEW t \in Threads, NEW c \in CRIds, ApplyChangeRequest(t, c)
    PROVE  OrderInv'
<1> DEFINE cr == changeRequests[c]
           k == cr.key
           f == WithConfig(flags[k], cr.env, cr.proposed)
           e == Entry("audit", clock', ProjectOf[k], k, f)
           S == [flags EXCEPT ![k] = f]
<1>1. /\ writeMu = NoThread /\ Exists(flags[k]) /\ Append(e) /\ ReadClock
      /\ newSnap' = [newSnap EXCEPT ![t] = S]
      /\ pc' = [pc EXCEPT ![t] = "apply"]
      /\ UNCHANGED <<flags, pending, nextLife>>
  BY DEF ApplyChangeRequest, MayApply
<1>2. \A u \in Threads : pc[u] \notin Writing
  BY <1>1, NobodyWrites DEF IInv
<1>3. /\ pc'[t] = "apply" /\ newSnap'[t] = S
      /\ \A u \in Threads \ {t} : pc'[u] = pc[u]
  BY <1>1 DEF IInv, TypeOK
<1>4. /\ TypeOK /\ LogInv /\ AuditFollowsVersions /\ k \in Keys /\ cr.env \in Envs
      /\ cr.proposed \in Configs /\ flags[k] \in Flags
  BY DEF IInv, TypeOK, ChangeRequests, Snapshots, OrderInv, LogOrderInv
<1>5. f \in Flags /\ f.life = flags[k].life /\ f.ver = flags[k].ver + 1
  BY <1>4, WithConfigType
<1>6. e \in Entries /\ e.key = k /\ e.life = f.life /\ e.ver = f.ver
  BY <1>1, <1>4, <1>5, ClockType, EntryType, ProjectType DEF Subjects, Entry
<1>7. S[k] = f /\ \A j \in Keys \ {k} : S[j] = flags[j]
  BY <1>4 DEF TypeOK, Snapshots
<1> HIDE DEF f, e, S
<1>8. \A j \in Keys : Covers(j, flags[j])
  BY <1>2 DEF OrderInv, LogOrderInv, Writing
<1>9. Covers(k, f) /\ Given(f.life)
  BY <1>1, <1>4, <1>5, <1>8, CoversNext DEF OrderInv, LogOrderInv, AllGiven
<1>10. /\ AuditFollowsVersions'
       /\ \A d \in auditLogs' : \/ d \in auditLogs
                                \/ d.key = k /\ d.life = f.life /\ d.ver = f.ver
  <2>1. Covers(e.key, e)
    BY <1>6, <1>9 DEF Covers
  <2>2. /\ AuditFollowsVersions'
        /\ \A d \in auditLogs' : \/ d \in auditLogs
                                 \/ d.key = e.key /\ d.life = e.life /\ d.ver = e.ver
    BY <1>1, <1>4, <1>6, <2>1, AppendOrder
  <2> QED BY <1>6, <2>2
<1>11. LogOrderInv'
  BY <1>1, <1>3, <1>9, <1>10 DEF OrderInv, LogOrderInv, AllGiven, Given
<1>12. WriterOrder(t)'
  <2>1. AllGiven(newSnap[t])'
    BY <1>1, <1>3, <1>7, <1>9 DEF OrderInv, LogOrderInv, AllGiven, Given
  <2>2. f.ver \in Nat
    BY <1>5 DEF Flags
  <2>3. \A j \in Keys : Covers(j, newSnap[t][j])'
    BY SMT, <1>3, <1>7, <1>8, <1>9, <1>10, <2>2 DEF Covers
  <2> QED BY <1>3, <2>1, <2>3 DEF WriterOrder
<1>13. ASSUME NEW u \in Threads \ {t} PROVE WriterOrder(u)'
  BY <1>1, <1>2, <1>3 DEF OrderInv, WriterOrder, Writing
<1> QED BY <1>11, <1>12, <1>13 DEF OrderInv

LEMMA ApplyStoreOrder ==
    ASSUME IInv, OrderInv, NEW t \in Threads, ApplyStore(t)
    PROVE  OrderInv'
<1>1. /\ pc[t] = "apply" /\ flags' = newSnap[t] /\ pc' = [pc EXCEPT ![t] = "idle"]
      /\ UNCHANGED <<auditLogs, pending, nextLife>>
  BY DEF ApplyStore, auditVars
<1>2. \A u \in Threads \ {t} : pc[u] \notin Writing
  BY <1>1, NobodyElseWrites DEF IInv, Writing
<1>3. pc'[t] = "idle" /\ \A u \in Threads \ {t} : pc'[u] = pc[u]
  BY <1>1 DEF IInv, TypeOK
<1>4. WriterOrder(t)
  BY DEF OrderInv
<1>5. LogOrderInv'
  <2>1. AuditFollowsVersions' /\ \A d \in auditLogs' : d.key \in Keys => Given(d.life)'
    BY <1>1 DEF OrderInv, LogOrderInv, AuditFollowsVersions, Given
  <2>2. AllGiven(flags)' /\ \A j \in Keys : Covers(j, flags[j])'
    BY <1>1, <1>4 DEF WriterOrder, AllGiven, Given, Covers
  <2> QED BY <2>1, <2>2 DEF LogOrderInv
<1>6. ASSUME NEW u \in Threads PROVE WriterOrder(u)'
  BY <1>1, <1>2, <1>3 DEF OrderInv, WriterOrder, Writing
<1> QED BY <1>5, <1>6 DEF OrderInv

LEMMA PromoteSaveOrder ==
    ASSUME IInv, OrderInv, NEW t \in Threads, NEW from \in Envs, NEW to \in Envs,
           PromoteSave(t, from, to)
    PROVE  OrderInv'
<1> DEFINE f == held[t].flag
           envs == [f.envs EXCEPT ![to] = f.envs[from]]
<1>1. held[t].key \in Keys /\ f \in Flags
  BY DEF IInv, TypeOK, Held
<1>2. envs \in [Envs -> Configs] /\ f.ver \in Nat
  BY <1>1 DEF Flags
<1>3. SaveFlag(t, held[t].key, envs, f.ver)
  BY DEF PromoteSave
<1> HIDE DEF envs, f
<1> QED BY <1>1, <1>2, <1>3, SaveOrder

\* Submissions and reviews of change requests: no audit entry.
LEMMA RequestOrder ==
    ASSUME IInv, OrderInv,
           \/ \E t \in Threads, c \in CRIds, env \in Envs, proposed \in Payloads, u \in Users :
                CreateChangeRequest(t, c, env, proposed, u)
           \/ \E c \in CRIds, u \in Users, b \in BOOLEAN : ReviewChangeRequest(c, u, b)
    PROVE  OrderInv'
<1>1. /\ UNCHANGED <<flags, auditLogs, newSnap, pending, nextLife>>
      /\ \/ pc' = pc
         \/ \E t \in Threads : pc[t] = "submit" /\ pc' = [pc EXCEPT ![t] = "idle"]
  BY DEF CreateChangeRequest, ReviewChangeRequest, auditVars, threadVars
<1>2. \A u \in Threads : \/ pc'[u] = pc[u]
                         \/ pc[u] = "submit" /\ pc'[u] = "idle"
  BY <1>1 DEF IInv, TypeOK
<1>3. AuditFollowsVersions'
  BY <1>1, ShrinkOrder DEF OrderInv, LogOrderInv
<1> QED BY <1>1, <1>2, <1>3, BystanderOrder DEF Writing

\* Entries that are not about a flag.
LEMMA RevokeOrder ==
    ASSUME IInv, OrderInv, NEW a \in APIKeys, RevokeAPIKeyByProject(a)
    PROVE  OrderInv'
<1> DEFINE e == Entry("audit", clock', ProjectOf[a], "api-keys", NoFlag)
<1>1. /\ Append(e) /\ ReadClock
      /\ UNCHANGED <<flags, newSnap, pc, pending, nextLife>>
  BY DEF RevokeAPIKeyByProject, threadVars
<1>2. TypeOK /\ LogInv /\ AuditFollowsVersions
  BY DEF IInv, OrderInv, LogOrderInv
<1>3. e \in Entries
  BY <1>1, <1>2, ClockType, EntryType, ProjectType, DefaultTypes DEF Subjects
<1>4. e.key \notin Keys
  BY SubjectAssumption DEF Entry
<1> HIDE DEF e
<1>5. /\ AuditFollowsVersions'
      /\ \A d \in auditLogs' : d \in auditLogs \/ d.key \notin Keys
  BY <1>1, <1>2, <1>3, <1>4, AppendOrder
<1> QED BY <1>1, <1>5, BystanderOrder

LEMMA PurgeRecordOrder ==
    ASSUME IInv, OrderInv, NEW t \in Threads, PurgeRecord(t)
    PROVE  OrderInv'
<1> DEFINE e == [pending[t] EXCEPT !.ts = clock']
<1>1. /\ pc[t] = "purged" /\ Append(e) /\ ReadClock /\ pc' = [pc EXCEPT ![t] = "idle"]
      /\ pending' = [pending EXCEPT ![t] = NoEntry]
      /\ UNCHANGED <<flags, newSnap, nextLife>>
  BY DEF PurgeRecord, tables
<1>2. TypeOK /\ LogInv /\ AuditFollowsVersions /\ pending[t] \in Entries /\ clock' \in Nat
  BY <1>1, ClockType DEF IInv, OrderInv, LogOrderInv, TypeOK
<1>3. e \in Entries /\ e.key = pending[t].key
  BY <1>2 DEF Entries
<1>4. e.key \notin Keys
  BY <1>1, <1>3, SubjectAssumption DEF OrderInv, WriterOrder
<1> HIDE DEF e
<1>5. /\ AuditFollowsVersions'
      /\ \A d \in auditLogs' : d \in auditLogs \/ d.key \notin Keys
  BY <1>1, <1>2, <1>3, <1>4, AppendOrder
<1>6. /\ pc'[t] = "idle"
      /\ \A u \in Threads \ {t} : pc'[u] = pc[u] /\ pending'[u] = pending[u]
  BY <1>1, <1>2 DEF TypeOK
<1> QED BY <1>1, <1>5, <1>6, BystanderOrder DEF Writing

LEMMA PurgeOrder ==
    ASSUME IInv, OrderInv, NEW t \in Threads, NEW p \in Projects, NEW before,
           PurgeAuditLogs(t, p, before)
    PROVE  OrderInv'
<1> DEFINE e == Entry("", 0, p, "audit-logs", NoFlag)
<1>1. /\ pc[t] = "idle" /\ pc' = [pc EXCEPT ![t] = "purged"]
      /\ auditLogs' \subseteq auditLogs /\ pending' = [pending EXCEPT ![t] = e]
      /\ UNCHANGED <<flags, newSnap, nextLife>>
  BY DEF PurgeAuditLogs, tables
<1>2. e.key = "audit-logs"
  BY DEF Entry
<1> HIDE DEF e
<1>3. /\ pc'[t] = "purged" /\ pending'[t].key = "audit-logs"
      /\ \A u \in Threads \ {t} : pc'[u] = pc[u] /\ pending'[u] = pending[u]
  BY <1>1, <1>2 DEF IInv, TypeOK
<1>4. AuditFollowsVersions'
  BY <1>1, ShrinkOrder DEF OrderInv, LogOrderInv
<1> QED BY <1>1, <1>3, <1>4, BystanderOrder DEF Writing

LEMMA ResetOrder ==
    ASSUME IInv, OrderInv, Reset
    PROVE  OrderInv'
<1>1. /\ flags' = NoFlags /\ auditLogs' = {} /\ writeMu = NoThread
      /\ UNCHANGED <<pc, newSnap, pending, nextLife>>
  BY DEF Reset, threadVars
<1>2. \A u \in Threads : pc[u] \notin Writing
  BY <1>1, NobodyWrites DEF IInv
<1>3. LogOrderInv'
  BY SMT, <1>1 DEF LogOrderInv, AuditFollowsVersions, AllGiven, Covers, NoFlags, NoFlag, Exists
<1>4. \A u \in Threads : WriterOrder(u)'
  BY <1>1, <1>2 DEF OrderInv, WriterOrder, Writing
<1> QED BY <1>3, <1>4 DEF OrderInv

LEMMA OrderNext == IInv /\ OrderInv /\ [Next]_vars => OrderInv'
<1> SUFFICES ASSUME IInv, OrderInv, [Next]_vars PROVE OrderInv'
  OBVIOUS
<1>1. CASE UNCHANGED vars
  <2>1. UNCHANGED <<flags, auditLogs, newSnap, pc, pending, nextLife>>
    BY <1>1 DEF vars, tables, auditVars, threadVars
  <2>2. AuditFollowsVersions'
    BY <2>1, ShrinkOrder DEF OrderInv, LogOrderInv
  <2> QED BY <2>1, <2>2, BystanderOrder
<1>2. ASSUME NEW t \in Threads, Continue(t) PROVE OrderInv'
  BY <1>2, StoreSnapshotOrder, AppendAuditLogOrder, PromoteSaveOrder, RequestOrder,
     ApplyStoreOrder, PurgeRecordOrder DEF Continue
<1> QED BY <1>1, <1>2, FlagRequestOrder, ApplyChangeRequestOrder, PurgeOrder, RequestOrder,
        RevokeOrder, ResetOrder DEF Next

\* The audit log lists the versions of a flag in the order in which they were
\* in force, although writers append their entries after they publish (and
\* ApplyChangeRequest before it does).
THEOREM LogFollowsVersions == Spec => []AuditFollowsVersions
<1>1. Init => OrderInv
  BY SMT DEF Init, OrderInv, LogOrderInv, AuditFollowsVersions, AllGiven, Covers, NoFlags,
     NoFlag, Exists, WriterOrder
<1>2. IInv /\ OrderInv /\ [Next]_vars => OrderInv'
  BY OrderNext
<1>3. OrderInv => AuditFollowsVersions
  BY DEF OrderInv, LogOrderInv
<1> QED BY <1>1, <1>2, <1>3, Invariance, PTL DEF Spec

-----------------------------------------------------------------------------
(* No version is missing. *)

\* Recorded: the log has had an entry for version f of the flag of key k.
Recorded(k, f) == <<k, f.life, f.ver>> \in trail
About(e, k, f) == e.key = k /\ e.life = f.life /\ e.ver = f.ver

TrailInv ==
    /\ (\A t \in Threads : pc[t] # "append") =>
            \A k \in Keys : Exists(flags[k]) => Recorded(k, flags[k])
    /\ \A t \in Threads : \A k \in Keys :
        /\ pc[t] = "store" /\ Exists(newSnap[t][k]) =>
                Recorded(k, newSnap[t][k]) \/ About(pending[t], k, newSnap[t][k])
        /\ pc[t] = "append" /\ Exists(flags[k]) =>
                Recorded(k, flags[k]) \/ About(pending[t], k, flags[k])
        /\ pc[t] = "apply" /\ Exists(newSnap[t][k]) => Recorded(k, newSnap[t][k])

\* The ID of an entry on its way to the log is not in use.
IdInv ==
    /\ \A e \in auditLogs : e.id[2] <= clock
    /\ \A t \in Threads :
        /\ pc[t] \in {"store", "append"} =>
            /\ pending[t].id[1] = "log" /\ pending[t].id[2] <= clock
            /\ ~Duplicate(auditLogs, pending[t])
        /\ pc[t] = "purged" => pending[t].id = <<"", 0>>

RecordInv == TrailInv /\ IdInv

ClockAdvances == 0 \notin ClockSteps

LEMMA LaterClock ==
    ASSUME ClockAdvances, TypeOK, ReadClock
    PROVE  clock \in Nat /\ clock' \in Nat /\ clock < clock'
  BY SMT, InputAssumption DEF ClockAdvances, TypeOK, ReadClock

\* What is recorded stays recorded, even when the log is purged.
LEMMA AppendTrail ==
    ASSUME NEW e \in Entries, Append(e)
    PROVE  /\ trail \subseteq trail'
           /\ \A d \in auditLogs' : d \in auditLogs \/ d.id = e.id
           /\ ~Duplicate(auditLogs, e) => <<e.key, e.life, e.ver>> \in trail'
<1>1. Linked(auditLogs, auditAnchors, nextSeq, e).id = e.id
  BY DEF Linked, Entries
<1> QED BY <1>1 DEF Append, auditVars

LEMMA LeqTransitive == \A a, b, c \in Nat : a <= b /\ b <= c => a <= c
  BY SMT

\* Steps that leave writers and their entries alone.
LEMMA BystanderRecord ==
    ASSUME IInv, RecordInv, clock \in Nat, clock' \in Nat, clock <= clock',
           UNCHANGED <<flags, newSnap>>, trail \subseteq trail',
           \A d \in auditLogs' : d \in auditLogs \/ (d.id[1] # "log" /\ d.id[2] <= clock'),
           \A t \in Threads :
              \/ pc'[t] = pc[t] /\ pending'[t] = pending[t]
              \/ /\ pc[t] \notin Writing /\ pc'[t] \notin Writing
                 /\ pc'[t] = "purged" => pending'[t].id = <<"", 0>>
    PROVE  RecordInv'
<1>1. TrailInv'
  <2>1. (\A t \in Threads : pc'[t] # "append") => \A t \in Threads : pc[t] # "append"
    BY DEF Writing
  <2>2. \A k \in Keys, f \in Flags : Recorded(k, f) => Recorded(k, f)'
    BY DEF Recorded
  <2>3. \A k \in Keys : flags[k] \in Flags /\ \A t \in Threads : newSnap[t][k] \in Flags
    BY DEF IInv, TypeOK, Snapshots
  <2>4. \A t \in Threads : pc'[t] \in Writing => pc'[t] = pc[t] /\ pending'[t] = pending[t]
    OBVIOUS
  <2>5. (\A t \in Threads : pc'[t] # "append") =>
            \A k \in Keys : Exists(flags'[k]) => Recorded(k, flags[k])'
    BY <2>1, <2>2, <2>3 DEF RecordInv, TrailInv, Recorded
  <2>6. ASSUME NEW t \in Threads, NEW k \in Keys
        PROVE  /\ pc'[t] = "store" /\ Exists(newSnap'[t][k]) =>
                    Recorded(k, newSnap[t][k])' \/ About(pending'[t], k, newSnap'[t][k])
               /\ pc'[t] = "append" /\ Exists(flags'[k]) =>
                    Recorded(k, flags[k])' \/ About(pending'[t], k, flags'[k])
               /\ pc'[t] = "apply" /\ Exists(newSnap'[t][k]) => Recorded(k, newSnap[t][k])'
    <3>1. CASE pc'[t] = pc[t] /\ pending'[t] = pending[t]
      BY <3>1 DEF RecordInv, TrailInv, Recorded
    <3>2. CASE pc'[t] \notin Writing
      BY <3>2 DEF Writing
    <3> QED BY <2>4, <3>1, <3>2
  <2> QED BY <2>5, <2>6 DEF TrailInv, About
<1>2. \A d \in auditLogs' : d.id[2] <= clock'
  <2> SUFFICES ASSUME NEW d \in auditLogs' PROVE d.id[2] <= clock'
    OBVIOUS
  <2>1. CASE d \in auditLogs
    <3>1. d \in Entries
      BY <2>1 DEF IInv, TypeOK
    <3>2. d.id[2] \in Nat
      BY <3>1 DEF Entries
    <3>3. d.id[2] <= clock
      BY <2>1 DEF RecordInv, IdInv
    <3> QED BY <3>2, <3>3, LeqTransitive, Zenon
  <2>2. CASE d \notin auditLogs
    BY <2>2
  <2> QED BY <2>1, <2>2
<1>3. ASSUME NEW t \in Threads, pc'[t] \in {"store", "append"}
      PROVE  /\ pending'[t].id[1] = "log" /\ pending'[t].id[2] <= clock'
             /\ ~Duplicate(auditLogs', pending'[t])
  <2>1. pc'[t] = pc[t] /\ pending'[t] = pending[t]
    BY <1>3 DEF Writing
  <2>2. /\ pending[t].id[1] = "log" /\ pending[t].id[2] <= clock
        /\ ~Duplicate(auditLogs, pending[t])
    BY <1>3, <2>1 DEF RecordInv, IdInv
  <2>3. pending[t] \in Entries
    BY DEF IInv, TypeOK
  <2>4. pending[t].id[2] \in Nat
    BY <2>3 DEF Entries
  <2>5. pending'[t].id[2] <= clock'
    BY <2>1, <2>2, <2>4, LeqTransitive, Zenon
  <2>6. ~Duplicate(auditLogs', pending'[t])
    BY <2>1, <2>2 DEF Duplicate
  <2> QED BY <2>1, <2>2, <2>5, <2>6
<1>4. \A t \in Threads : pc'[t] = "purged" => pending'[t].id = <<"", 0>>
  BY DEF RecordInv, IdInv
<1> QED BY <1>1, <1>2, <1>3, <1>4 DEF RecordInv, IdInv

\* A writer whose entry is about the flag it is going to publish, if any.
LEMMA PrepareRecord ==
    ASSUME ClockAdvances, IInv, RecordInv, NEW t \in Threads, NEW k \in Keys,
           NEW f \in Flags, NEW g \in Flags, Prepare(t, k, f, g), Exists(f) => g = f
    PROVE  RecordInv'
<1> DEFINE S == [flags EXCEPT ![k] = f]
           e == Entry("log", clock', ProjectOf[k], k, g)
<1>1. /\ writeMu = NoThread /\ pc' = [pc EXCEPT ![t] = "store"] /\ ReadClock
      /\ newSnap' = [newSnap EXCEPT ![t] = S] /\ pending' = [pending EXCEPT ![t] = e]
      /\ UNCHANGED <<flags, auditLogs, trail>>
  BY DEF Prepare, tables, auditVars
<1>2. \A u \in Threads : pc[u] \notin Writing
  BY <1>1, NobodyWrites DEF IInv
<1>3. /\ pc'[t] = "store" /\ newSnap'[t] = S /\ pending'[t] = e
      /\ \A u \in Threads \ {t} : pc'[u] = pc[u] /\ pending'[u] = pending[u]
  BY <1>1 DEF IInv, TypeOK
<1>4. e.key = k /\ e.life = g.life /\ e.ver = g.ver /\ e.id = <<"log", clock'>>
  BY DEF Entry
<1>5. S[k] = f /\ \A j \in Keys \ {k} : S[j] = flags[j]
  BY DEF IInv, TypeOK, Snapshots
<1>6. clock \in Nat /\ clock' \in Nat /\ clock < clock'
  BY <1>1, LaterClock DEF IInv
<1> HIDE DEF S, e
<1>7. \A j \in Keys : Exists(flags[j]) => Recorded(j, flags[j])
  BY <1>2 DEF RecordInv, TrailInv, Writing
<1>8. TrailInv'
  <2>1. \A u \in Threads \ {t} : pc'[u] \notin Writing
    BY <1>2, <1>3
  <2> QED BY SMT, <1>1, <1>3, <1>4, <1>5, <1>7, <2>1 DEF TrailInv, Recorded, About, Writing
<1>9. \A d \in auditLogs : d.id[2] \in Nat /\ d.id[2] <= clock
  BY DEF RecordInv, IdInv, IInv, TypeOK, Entries
<1>10. ~Duplicate(auditLogs', pending'[t])
  <2>1. \A d \in auditLogs : d.id # <<"log", clock'>>
    BY SMT, <1>6, <1>9
  <2> QED BY <1>1, <1>3, <1>4, <2>1 DEF Duplicate
<1>11. pending'[t].id[1] = "log" /\ pending'[t].id[2] <= clock'
  BY SMTT(30), <1>3, <1>4, <1>6
<1>12. \A d \in auditLogs' : d.id[2] <= clock'
  BY SMT, <1>1, <1>6, <1>9
<1>13. IdInv'
  BY <1>2, <1>3, <1>10, <1>11, <1>12 DEF RecordInv, IdInv, Writing
<1> QED BY <1>8, <1>13 DEF RecordInv

LEMMA FlagRequestRecord ==
    ASSUME ClockAdvances, IInv, RecordInv, NEW t \in Threads, FlagRequest(t)
    PROVE  RecordInv'
<1>1. PICK k \in Keys :
        \/ \E envs \in [Envs -> Payloads], v \in PayloadVers : WriteFlag(t, k, envs, v)
        \/ DeleteFlagByProject(t, k)
        \/ \E env \in Envs, b \in BOOLEAN : ToggleFlagByProject(t, k, env, b)
        \/ \E env \in Envs, pct \in Pcts : UpdateRolloutByProject(t, k, env, pct)
        \/ PromoteRead(t, k)
        \/ CreateChangeRequestRead(t, k)
  BY DEF FlagRequest
<1>2. TypeOK /\ flags[k] \in Flags /\ \A env \in Envs : flags[k].envs[env] \in Configs
  BY DEF IInv, TypeOK, Snapshots, Flags
<1>3. ASSUME NEW envs \in [Envs -> Payloads], NEW v \in PayloadVers,
             WriteFlag(t, k, envs, v)
      PROVE  RecordInv'
  <2>1. envs \in [Envs -> Configs] /\ v \in Nat
    BY PayloadType, InputAssumption
  <2> QED BY <1>2, <1>3, <2>1, SavedType, PrepareRecord DEF WriteFlag, SaveFlag
<1>4. CASE DeleteFlagByProject(t, k)
  <2>1. Prepare(t, k, NoFlag, flags[k]) /\ ~Exists(NoFlag)
    BY SMT, <1>4 DEF DeleteFlagByProject, NoFlag, Exists
  <2> QED BY <1>2, <2>1, DefaultTypes, PrepareRecord
<1>5. ASSUME NEW env \in Envs, NEW c \in Configs,
             Prepare(t, k, WithConfig(flags[k], env, c), WithConfig(flags[k], env, c))
      PROVE  RecordInv'
  BY <1>2, <1>5, WithConfigType, PrepareRecord
<1>6. ASSUME NEW env \in Envs, NEW b \in BOOLEAN, ToggleFlagByProject(t, k, env, b)
      PROVE  RecordInv'
  <2>1. [flags[k].envs[env] EXCEPT !.enabled = b] \in Configs
    BY <1>2 DEF Configs
  <2> QED BY <1>5, <1>6, <2>1 DEF ToggleFlagByProject
<1>7. ASSUME NEW env \in Envs, NEW pct \in Pcts, UpdateRolloutByProject(t, k, env, pct)
      PROVE  RecordInv'
  <2>1. [flags[k].envs[env] EXCEPT !.pct = Clamp(pct)] \in Configs
    BY <1>2, ClampType, InputAssumption DEF Configs
  <2> QED BY <1>5, <1>7, <2>1 DEF UpdateRolloutByProject
<1>8. ASSUME NEW next \in {"promote", "submit"}, ReadFlag(t, k, next)
      PROVE  RecordInv'
  <2>1. /\ pc[t] = "idle" /\ pc' = [pc EXCEPT ![t] = next]
        /\ UNCHANGED <<flags, auditLogs, newSnap, pending, clock, trail>>
    BY <1>8 DEF ReadFlag, tables, auditVars
  <2>2. pc'[t] = next /\ \A u \in Threads \ {t} : pc'[u] = pc[u]
    BY <1>2, <2>1 DEF TypeOK
  <2>3. clock \in Nat /\ clock <= clock
    BY SMT, <1>2 DEF TypeOK
  <2> QED BY <2>1, <2>2, <2>3, BystanderRecord DEF Writing
<1> QED BY <1>1, <1>3, <1>4, <1>6, <1>7, <1>8 DEF PromoteRead, CreateChangeRequestRead

LEMMA StoreSnapshotRecord ==
    ASSUME IInv, RecordInv, NEW t \in Threads, StoreSnapshot(t)
    PROVE  RecordInv'
<1>1. /\ pc[t] = "store" /\ flags' = newSnap[t] /\ pc' = [pc EXCEPT ![t] = "append"]
      /\ UNCHANGED <<auditLogs, pending, clock, trail>>
  BY DEF StoreSnapshot, auditVars
<1>2. \A u \in Threads \ {t} : pc[u] \notin Writing
  BY <1>1, NobodyElseWrites DEF IInv, Writing
<1>3. pc'[t] = "append" /\ \A u \in Threads \ {t} : pc'[u] = pc[u]
  BY <1>1 DEF IInv, TypeOK
<1>4. TrailInv'
  BY <1>1, <1>2, <1>3 DEF RecordInv, TrailInv, Recorded, Writing
<1>5. IdInv'
  BY <1>1, <1>3 DEF RecordInv, IdInv
<1> QED BY <1>4, <1>5 DEF RecordInv

LEMMA AppendAuditLogRecord ==
    ASSUME IInv, RecordInv, NEW t \in Threads, AppendAuditLog(t)
    PROVE  RecordInv'
<1>1. /\ pc[t] = "append" /\ Append(pending[t]) /\ pc' = [pc EXCEPT ![t] = "idle"]
      /\ pending' = [pending EXCEPT ![t] = NoEntry]
      /\ UNCHANGED <<flags, newSnap, clock>>
  BY DEF AppendAuditLog, tables
<1>2. \A u \in Threads \ {t} : pc[u] \notin Writing
  BY <1>1, NobodyElseWrites DEF IInv, Writing
<1>3. /\ pc'[t] = "idle"
      /\ \A u \in Threads \ {t} : pc'[u] = pc[u] /\ pending'[u] = pending[u]
  BY <1>1 DEF IInv, TypeOK
<1>4. pending[t] \in Entries /\ ~Duplicate(auditLogs, pending[t]) /\ pending[t].id[2] <= clock
  BY <1>1 DEF IInv, TypeOK, RecordInv, IdInv
<1>5. /\ trail \subseteq trail'
      /\ <<pending[t].key, pending[t].life, pending[t].ver>> \in trail'
      /\ \A d \in auditLogs' : d \in auditLogs \/ d.id = pending[t].id
  BY <1>1, <1>4, AppendTrail
<1>6. \A k \in Keys : Exists(flags[k]) => <<k, flags[k].life, flags[k].ver>> \in trail'
  BY <1>1, <1>5 DEF RecordInv, TrailInv, Recorded, About
<1>7. TrailInv'
  BY SMT, <1>1, <1>2, <1>3, <1>6 DEF TrailInv, Recorded, Writing
<1>8. IdInv'
  <2>1. \A d \in auditLogs' : d.id[2] <= clock'
    BY <1>1, <1>4, <1>5 DEF RecordInv, IdInv
  <2> QED BY <1>2, <1>3, <2>1 DEF RecordInv, IdInv, Writing
<1> QED BY <1>7, <1>8 DEF RecordInv

LEMMA ApplyChangeRequestRecord ==
    ASSUME ClockAdvances, IInv, RecordInv, NEW t \in Threads, NEW c \in CRIds,
           ApplyChangeRequest(t, c)
    PROVE  RecordInv'
<1> DEFINE cr == changeRequests[c]
           k == cr.key
           f == WithConfig(flags[k], cr.env, cr.proposed)
           e == Entry("audit", clock', ProjectOf[k], k, f)
           S == [flags EXCEPT ![k] = f]
<1>1. /\ writeMu = NoThread /\ Append(e) /\ ReadClock
      /\ newSnap' = [newSnap EXCEPT ![t] = S]
      /\ pc' = [pc EXCEPT ![t] = "apply"]
      /\ UNCHANGED <<flags, pending>>
  BY DEF ApplyChangeRequest
<1>2. \A u \in Threads : pc[u] \notin Writing
  BY <1>1, NobodyWrites DEF IInv
<1>3. /\ pc'[t] = "apply" /\ newSnap'[t] = S
      /\ \A u \in Threads \ {t} : pc'[u] = pc[u]
  BY <1>1 DEF IInv, TypeOK
<1>4. /\ TypeOK /\ k \in Keys /\ cr.env \in Envs /\ cr.proposed \in Configs
      /\ flags[k] \in Flags
  BY DEF IInv, TypeOK, ChangeRequests, Snapshots
<1>5. clock \in Nat /\ clock' \in Nat /\ clock < clock'
  BY <1>1, <1>4, LaterClock
<1>6. e \in Entries
  BY <1>4, <1>5, WithConfigType, EntryType, ProjectType DEF Subjects
<1>7. e.key = k /\ e.life = f.life /\ e.ver = f.ver /\ e.id = <<"audit", clock'>>
  BY DEF Entry
<1>8. S[k] = f /\ \A j \in Keys \ {k} : S[j] = flags[j]
  BY <1>4 DEF TypeOK, Snapshots
<1> HIDE DEF f, e, S
<1>9. \A d \in auditLogs : d.id[2] \in Nat /\ d.id[2] <= clock
  BY DEF RecordInv, IdInv, IInv, TypeOK, Entries
<1>10. \A d \in auditLogs : d.id # <<"audit", clock'>>
  BY SMT, <1>5, <1>9
<1>11. ~Duplicate(auditLogs, e)
  BY <1>7, <1>10 DEF Duplicate
<1>12. /\ trail \subseteq trail' /\ <<k, f.life, f.ver>> \in trail'
       /\ \A d \in auditLogs' : d \in auditLogs \/ d.id = <<"audit", clock'>>
  BY <1>1, <1>6, <1>7, <1>11, AppendTrail
<1>13. \A j \in Keys : Exists(flags[j]) => <<j, flags[j].life, flags[j].ver>> \in trail'
  BY <1>2, <1>12 DEF RecordInv, TrailInv, Recorded, Writing
<1>14. TrailInv'
  BY SMT, <1>1, <1>2, <1>3, <1>8, <1>12, <1>13 DEF TrailInv, Recorded, Writing
<1>15. IdInv'
  <2>1. \A d \in auditLogs' : d.id[2] <= clock'
    BY SMT, <1>5, <1>9, <1>12
  <2> QED BY <1>1, <1>2, <1>3, <2>1 DEF RecordInv, IdInv, Writing
<1> QED BY <1>14, <1>15 DEF RecordInv

LEMMA ApplyStoreRecord ==
    ASSUME IInv, RecordInv, NEW t \in Threads, ApplyStore(t)
    PROVE  RecordInv'
<1>1. /\ pc[t] = "apply" /\ flags' = newSnap[t] /\ pc' = [pc EXCEPT ![t] = "idle"]
      /\ UNCHANGED <<auditLogs, pending, clock, trail>>
  BY DEF ApplyStore, auditVars
<1>2. \A u \in Threads \ {t} : pc[u] \notin Writing
  BY <1>1, NobodyElseWrites DEF IInv, Writing
<1>3. pc'[t] = "idle" /\ \A u \in Threads \ {t} : pc'[u] = pc[u]
  BY <1>1 DEF IInv, TypeOK
<1>4. TrailInv'
  BY <1>1, <1>2, <1>3 DEF RecordInv, TrailInv, Recorded, Writing
<1>5. IdInv'
  BY <1>1, <1>2, <1>3 DEF RecordInv, IdInv, Writing
<1> QED BY <1>4, <1>5 DEF RecordInv

LEMMA PromoteSaveRecord ==
    ASSUME ClockAdvances, IInv, RecordInv, NEW t \in Threads, NEW from \in Envs,
           NEW to \in Envs, PromoteSave(t, from, to)
    PROVE  RecordInv'
<1> DEFINE f == held[t].flag
           envs == [f.envs EXCEPT ![to] = f.envs[from]]
<1>1. TypeOK /\ held[t].key \in Keys /\ f \in Flags
  BY DEF IInv, TypeOK, Held
<1>2. envs \in [Envs -> Configs] /\ f.ver \in Nat
  BY <1>1 DEF Flags
<1>3. SaveFlag(t, held[t].key, envs, f.ver)
  BY DEF PromoteSave
<1> HIDE DEF envs, f
<1> QED BY <1>1, <1>2, <1>3, SavedType, PrepareRecord DEF SaveFlag

LEMMA RequestRecord ==
    ASSUME IInv, RecordInv,
           \/ \E t \in Threads, c \in CRIds, env \in Envs, proposed \in Payloads, u \in Users :
                CreateChangeRequest(t, c, env, proposed, u)
           \/ \E c \in CRIds, u \in Users, b \in BOOLEAN : ReviewChangeRequest(c, u, b)
    PROVE  RecordInv'
<1>1. /\ UNCHANGED <<flags, auditLogs, newSnap, pending, clock, trail>>
      /\ \/ pc' = pc
         \/ \E t \in Threads : pc[t] = "submit" /\ pc' = [pc EXCEPT ![t] = "idle"]
  BY DEF CreateChangeRequest, ReviewChangeRequest, auditVars, threadVars
<1>2. \A u \in Threads : \/ pc'[u] = pc[u]
                         \/ pc[u] = "submit" /\ pc'[u] = "idle"
  BY <1>1 DEF IInv, TypeOK
<1>3. clock \in Nat /\ clock <= clock
  BY SMT DEF IInv, TypeOK
<1> QED BY <1>1, <1>2, <1>3, BystanderRecord DEF Writing

LEMMA RevokeRecord ==
    ASSUME ClockAdvances, IInv, RecordInv, NEW a \in APIKeys, RevokeAPIKeyByProject(a)
    PROVE  RecordInv'
<1> DEFINE e == Entry("audit", clock', ProjectOf[a], "api-keys", NoFlag)
<1>1. /\ Append(e) /\ ReadClock /\ UNCHANGED <<flags, newSnap, pc, pending>>
  BY DEF RevokeAPIKeyByProject, threadVars
<1>2. clock \in Nat /\ clock' \in Nat /\ clock < clock'
  BY <1>1, LaterClock DEF IInv
<1>3. e \in Entries /\ e.id = <<"audit", clock'>>
  BY <1>2, EntryType, ProjectType, DefaultTypes DEF Subjects, Entry
<1> HIDE DEF e
<1>4. /\ trail \subseteq trail'
      /\ \A d \in auditLogs' : d \in auditLogs \/ d.id = <<"audit", clock'>>
  BY <1>1, <1>3, AppendTrail
<1>5. \A d \in auditLogs' : d \in auditLogs \/ (d.id[1] # "log" /\ d.id[2] <= clock')
  BY SMT, <1>2, <1>4
<1>6. clock <= clock'
  BY SMT, <1>2
<1> QED BY <1>1, <1>2, <1>4, <1>5, <1>6, BystanderRecord

LEMMA PurgeRecordRecord ==
    ASSUME ClockAdvances, IInv, RecordInv, NEW t \in Threads, PurgeRecord(t)
    PROVE  RecordInv'
<1> DEFINE e == [pending[t] EXCEPT !.ts = clock']
<1>1. /\ pc[t] = "purged" /\ Append(e) /\ ReadClock /\ pc' = [pc EXCEPT ![t] = "idle"]
      /\ pending' = [pending EXCEPT ![t] = NoEntry] /\ UNCHANGED <<flags, newSnap>>
  BY DEF PurgeRecord, tables
<1>2. clock \in Nat /\ clock' \in Nat /\ clock < clock'
  BY <1>1, LaterClock DEF IInv
<1>3. pending[t] \in Entries /\ pending[t].id = <<"", 0>>
  BY <1>1 DEF IInv, TypeOK, RecordInv, IdInv
<1>4. e \in Entries /\ e.id = <<"", 0>>
  BY <1>2, <1>3 DEF Entries
<1> HIDE DEF e
<1>5. /\ trail \subseteq trail'
      /\ \A d \in auditLogs' : d \in auditLogs \/ d.id = <<"", 0>>
  BY <1>1, <1>4, AppendTrail
<1>6. \A d \in auditLogs' : d \in auditLogs \/ (d.id[1] # "log" /\ d.id[2] <= clock')
  <2>1. <<"", 0>>[1] # "log"
    OBVIOUS
  <2>2. 0 <= clock' /\ <<"", 0>>[2] = 0
    BY SMT, <1>2
  <2> QED BY <1>5, <2>1, <2>2, Zenon
<1>7. /\ pc'[t] = "idle"
      /\ \A u \in Threads \ {t} : pc'[u] = pc[u] /\ pending'[u] = pending[u]
  BY <1>1 DEF IInv, TypeOK
<1>8. clock <= clock'
  BY SMT, <1>2
<1> QED BY <1>1, <1>2, <1>5, <1>6, <1>7, <1>8, BystanderRecord DEF Writing

LEMMA PurgeLogRecord ==
    ASSUME IInv, RecordInv, NEW t \in Threads, NEW p \in Projects, NEW before,
           PurgeAuditLogs(t, p, before)
    PROVE  RecordInv'
<1> DEFINE e == Entry("", 0, p, "audit-logs", NoFlag)
<1>1. /\ pc[t] = "idle" /\ pc' = [pc EXCEPT ![t] = "purged"]
      /\ auditLogs' \subseteq auditLogs /\ pending' = [pending EXCEPT ![t] = e]
      /\ UNCHANGED <<flags, newSnap, clock, trail>>
  BY DEF PurgeAuditLogs, tables
<1>2. e.id = <<"", 0>>
  BY DEF Entry
<1> HIDE DEF e
<1>3. /\ pc'[t] = "purged" /\ pending'[t].id = <<"", 0>>
      /\ \A u \in Threads \ {t} : pc'[u] = pc[u] /\ pending'[u] = pending[u]
  BY <1>1, <1>2 DEF IInv, TypeOK
<1>4. clock \in Nat /\ clock <= clock
  BY SMT DEF IInv, TypeOK
<1> QED BY <1>1, <1>3, <1>4, BystanderRecord DEF Writing

LEMMA ResetRecord ==
    ASSUME IInv, RecordInv, Reset
    PROVE  RecordInv'
<1>1. /\ flags' = NoFlags /\ auditLogs' = {} /\ writeMu = NoThread
      /\ UNCHANGED <<pc, newSnap, pending, clock, trail>>
  BY DEF Reset, threadVars
<1>2. \A u \in Threads : pc[u] \notin Writing
  BY <1>1, NobodyWrites DEF IInv
<1>3. TrailInv'
  BY SMT, <1>1, <1>2 DEF TrailInv, NoFlags, NoFlag, Exists, Writing
<1>4. IdInv'
  BY <1>1, <1>2 DEF RecordInv, IdInv, Writing
<1> QED BY <1>3, <1>4 DEF RecordInv

LEMMA RecordNext == ClockAdvances /\ IInv /\ RecordInv /\ [Next]_vars => RecordInv'
<1> SUFFICES ASSUME ClockAdvances, IInv, RecordInv, [Next]_vars PROVE RecordInv'
  OBVIOUS
<1>1. CASE UNCHANGED vars
  <2>1. UNCHANGED <<flags, auditLogs, newSnap, pc, pending, clock, trail>>
    BY <1>1 DEF vars, tables, auditVars, threadVars
  <2>2. clock \in Nat /\ clock <= clock
    BY SMT DEF IInv, TypeOK
  <2> QED BY <2>1, <2>2, BystanderRecord
<1>2. ASSUME NEW t \in Threads, Continue(t) PROVE RecordInv'
  BY <1>2, StoreSnapshotRecord, AppendAuditLogRecord, PromoteSaveRecord, RequestRecord,
     ApplyStoreRecord, PurgeRecordRecord DEF Continue
<1> QED BY <1>1, <1>2, FlagRequestRecord, ApplyChangeRequestRecord, PurgeLogRecord,
        RequestRecord, RevokeRecord, ResetRecord DEF Next

LEMMA RecordInit ==
    ASSUME Init
    PROVE  RecordInv
<1>1. auditLogs = {} /\ \A t \in Threads : pc[t] = "idle"
  BY DEF Init
<1>2. \A k \in Keys : ~Exists(flags[k])
  <2>1. NoFlag.ver = 0
    BY DEF NoFlag
  <2>2. ~Exists(NoFlag)
    BY SMT, <2>1 DEF Exists
  <2>3. \A k \in Keys : flags[k] = NoFlag
    BY DEF Init, NoFlags
  <2> QED BY <2>2, <2>3
<1>3. TrailInv
  BY <1>1, <1>2 DEF TrailInv
<1>4. IdInv
  BY <1>1 DEF IdInv
<1> QED BY <1>3, <1>4 DEF RecordInv

\* If the clock advances between any two readings, no version of a flag is
\* missing from the audit trail once its writer has released writeMu.
THEOREM NoVersionUnrecorded ==
    ASSUME ClockAdvances
    PROVE  Spec => []EveryVersionAudited
<1>1. Init => RecordInv
  BY RecordInit
<1>2. IInv /\ RecordInv /\ [Next]_vars => RecordInv'
  BY RecordNext
<1>3. IInv /\ RecordInv => EveryVersionAudited
  BY NobodyWrites DEF IInv, RecordInv, TrailInv, EveryVersionAudited, Recorded, Writing
<1> QED BY <1>1, <1>2, <1>3, Invariance, PTL DEF Spec
=============================================================================
