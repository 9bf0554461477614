---------------------------- MODULE SQLiteProofs ----------------------------
(***************************************************************************)
(* Proofs about SQLiteStore, for every number of handlers, flags, projects *)
(* and change requests, and however many statements fail or processes are  *)
(* killed.                                                                 *)
(*                                                                         *)
(* TypeInv says who is where: one handler at most is between two of its    *)
(* statements, the holder of s.mu, and the entries of the log are          *)
(* numbered.  Above it stand two invariants that do not need each other.   *)
(*                                                                         *)
(* RowInv: what a handler has read is still the row it writes to           *)
(* (FreshInv), a proposal that was written has left its base version       *)
(* behind for good (LandInv), and a version without an entry is one whose  *)
(* entry is still to be written or was lost (RecordedInv).                 *)
(*                                                                         *)
(* ChainInv: the chain of a project continues its anchor, except between   *)
(* the two statements of a purge, when it continues the hash that the      *)
(* second of them is going to write.                                       *)
(***************************************************************************)
EXTENDS SQLiteStore, WellFoundedInduction, TLAPS

\* Every leaf is first-order and left to Zenon, unless it cites SMT (arithmetic
\* and records) or PTL (temporal steps).
USE ZenonT(60)

-----------------------------------------------------------------------------
(* The textual order of timestamps.                                        *)

\* The digits of a clock reading and its last digit.
LEMMA DigitsOf ==
    ASSUME NEW t \in Nat
    PROVE  /\ t \div TicksPerDigit \in Int
           /\ t % TicksPerDigit \in 0..(TicksPerDigit - 1)
           /\ t = TicksPerDigit * (t \div TicksPerDigit) + (t % TicksPerDigit)
BY SMT, SQLiteAssumption

\* A text stands at most one digit after its reading.
LEMMA TextType ==
    ASSUME NEW t \in Nat
    PROVE  Text(t) \in Int /\ Text(t) <= t + TicksPerDigit
<1> DEFINE q == t \div TicksPerDigit
           r == t % TicksPerDigit
           m == q * TicksPerDigit
<1>1. TicksPerDigit \in Int /\ q \in Int /\ r \in 0..(TicksPerDigit - 1)
  BY SMT, DigitsOf, SQLiteAssumption
<1>2. t = m + r /\ m \in Int
  BY SMT, DigitsOf, SQLiteAssumption
<1>3. Text(t) = m + (IF r = 0 THEN TicksPerDigit ELSE r)
  BY DEF Text
<1> HIDE DEF q, r, m
<1> QED BY SMT, <1>1, <1>2, <1>3

\* Entries have distinct hashes below n, and none is later than t.
Numbered(S, n, t) ==
    /\ n \in Nat /\ t \in Nat
    /\ \A e \in S : e.hash \in Nat /\ e.hash < n /\ e.ts \in Nat /\ e.ts <= t
    /\ \A d, e \in S : d.hash = e.hash => d = e

\* A non-empty set of numbers below a bound has a greatest one.
LEMMA GreatestBelow ==
    ASSUME NEW V, V \subseteq Int, V # {}, NEW b \in Int, \A v \in V : v <= b
    PROVE  \E v \in V : \A w \in V : w <= v
<1> DEFINE D == { b - v : v \in V }
<1>1. D \subseteq Nat /\ D # {}
  <2>1. \A v \in V : v \in Int /\ b - v \in Nat
    BY SMT
  <2> QED BY <2>1
<1>2. PICK m \in D : \A y \in D : ~ (<<y, m>> \in OpToRel(<, Nat))
  BY <1>1, NatLessThanWellFounded, WFMin
<1>3. \A y \in D : ~ (y < m)
  BY <1>1, <1>2 DEF OpToRel
<1>4. PICK v \in V : m = b - v
  OBVIOUS
<1>5. ASSUME NEW w \in V PROVE w <= v
  <2>1. b - w \in D
    OBVIOUS
  <2>2. ~ (b - w < b - v)
    BY <2>1, <1>3, <1>4
  <2> QED BY SMT, <2>2
<1> QED BY <1>5

\* The first row of a query ordered by timestamp and rowid, newest first.
LEMMA NewestExists ==
    ASSUME NEW S, S # {}, NEW n, NEW t, Numbered(S, n, t)
    PROVE  Newest(S) \in S /\ \A d \in S : d = Newest(S) \/ Before(d, Newest(S))
<1>1. \A e \in S : Text(e.ts) \in Int /\ Text(e.ts) <= t + TicksPerDigit
  <2> TAKE e \in S
  <2>1. e.ts \in Nat /\ e.ts <= t /\ t \in Nat /\ TicksPerDigit \in Nat
    BY SQLiteAssumption DEF Numbered
  <2>2. Text(e.ts) \in Int /\ Text(e.ts) <= e.ts + TicksPerDigit
    BY <2>1, TextType
  <2> QED BY SMT, <2>1, <2>2
<1> DEFINE V == { Text(e.ts) : e \in S }
<1>2. t + TicksPerDigit \in Int
  BY SMT, SQLiteAssumption DEF Numbered
<1>3. V \subseteq Int /\ V # {} /\ \A v \in V : v <= t + TicksPerDigit
  BY <1>1
<1>4. PICK v \in V : \A w \in V : w <= v
  BY <1>2, <1>3, GreatestBelow
<1> DEFINE W == { e \in S : Text(e.ts) = v }
           H == { e.hash : e \in W }
<1>5. H \subseteq Int /\ H # {} /\ \A x \in H : x <= n
  BY SMT DEF Numbered
<1>6. PICK x \in H : \A y \in H : y <= x
  <2>1. n \in Int
    BY SMT DEF Numbered
  <2> HIDE DEF H
  <2> QED BY <2>1, <1>5, GreatestBelow
<1>7. PICK e \in W : e.hash = x
  OBVIOUS
<1>8. ASSUME NEW d \in S PROVE d = e \/ Before(d, e)
  <2>1. Text(d.ts) \in Int /\ Text(e.ts) \in Int /\ Text(d.ts) <= Text(e.ts)
    BY <1>1, <1>4
  <2>2. CASE Text(d.ts) < Text(e.ts)
    BY <2>2 DEF Before
  <2>3. CASE Text(d.ts) = Text(e.ts)
    <3>1. d.hash \in H
      BY <2>3
    <3>2. d.hash <= e.hash /\ d.hash \in Int /\ e.hash \in Int
      BY <3>1, <1>5, <1>6, <1>7
    <3>3. d.hash = e.hash => d = e
      BY DEF Numbered
    <3> QED BY SMT, <2>3, <3>2, <3>3 DEF Before
  <2> QED BY SMT, <2>1, <2>2, <2>3
<1> QED BY <1>8 DEF Newest

-----------------------------------------------------------------------------
(* Types, and who holds s.mu.                                              *)

\* Where the flag of a frame's key is about to be written or submitted.
Keyed == {"save", "edit", "promote", "submit", "update", "delete"}

\* The statements executed under s.mu.
Holding == {"update", "delete", "mark", "audit", "anchor"}

\* The types of the tables, the counters and the history.
RowTypes ==
    /\ feature_flags \in Snapshots
    /\ change_requests \in [CRIds -> ChangeRequests]
    /\ api_keys \subseteq APIKeys
    /\ audit_logs \subseteq Entries
    /\ audit_anchors \in [Projects -> Nat]
    /\ clock \in Nat /\ nextHash \in Nat /\ nextLife \in Nat
    /\ ops \in Nat /\ faults \in Nat
    /\ trail \subseteq Subjects \X Nat \X Nat /\ lost \subseteq Keys \X Nat \X Nat
    /\ landed \in [CRIds -> SUBSET Nat]
    /\ chainFault \in BOOLEAN /\ falseAlarm \in BOOLEAN
    /\ Numbered(audit_logs, nextHash, clock)

\* What holds of a handler at its statement.
At(h) ==
    /\ pc[h] \in Keyed => frame[h].key \in Keys
    /\ pc[h] = "mark" => frame[h].cr \in CRIds
    /\ pc[h] \in Holding => mu = h

Positions ==
    /\ mu \in Handlers \cup {NoHandler}
    /\ pc \in [Handlers -> Labels]
    /\ frame \in [Handlers -> Frames]
    /\ \A h \in Handlers : At(h)

\* The inductive invariant behind TypeOK: the types, entries that are numbered,
\* and s.mu held by the one handler that is between two of its statements.
TypeInv == RowTypes /\ Positions

\* The other handlers stay where they are.
OthersRest(h) == \A g \in Handlers \ {h} : pc'[g] = pc[g] /\ frame'[g] = frame[g]

\* A step that moves one handler keeps the positions, if it takes the lock only
\* when it is free and releases it only as its holder.
LEMMA GotoKeeps ==
    ASSUME Positions, NEW h \in Handlers, NEW label \in Labels, NEW f \in Frames,
           Goto(h, label, f),
           mu' \in Handlers \cup {NoHandler},
           mu' = mu \/ mu = NoHandler \/ mu = h,
           label \in Keyed => f.key \in Keys,
           label = "mark" => f.cr \in CRIds,
           label \in Holding => mu' = h
    PROVE  /\ Positions'
           /\ pc'[h] = label /\ frame'[h] = f
           /\ OthersRest(h)
<1>1. /\ pc' \in [Handlers -> Labels] /\ frame' \in [Handlers -> Frames]
      /\ pc'[h] = label /\ frame'[h] = f
      /\ OthersRest(h)
  BY DEF Positions, Goto, OthersRest
<1>2. ASSUME NEW g \in Handlers PROVE At(g)'
  <2>1. CASE g = h
    BY <1>1, <2>1 DEF At
  <2>2. CASE g # h
    <3>1. At(g) /\ pc'[g] = pc[g] /\ frame'[g] = frame[g]
      BY <1>1, <2>2 DEF Positions, OthersRest
    <3>2. pc[g] \in Holding => mu = g /\ mu # NoHandler
      BY <3>1, SQLiteAssumption DEF At
    <3>3. pc'[g] \in Holding => mu' = g
      BY <2>2, <3>1, <3>2
    <3> QED BY <3>1, <3>3 DEF At
  <2> QED BY <2>1, <2>2
<1> QED BY <1>1, <1>2 DEF Positions

LEMMA SuccessorType == \A n \in Nat : n + 1 \in Nat
BY SMT

\* The values rows and frames start from have their types.
LEMMA DefaultTypes ==
    /\ NoFlag \in Flags /\ NoFlags \in Snapshots /\ NoCR \in ChangeRequests
    /\ NoFrame \in Frames /\ NoFrame.key \in Keys /\ NoFrame.write \in Flags
    /\ DefaultProject \in Projects
<1>1. AnyKey \in Keys /\ AnyEnv \in Envs /\ AnyUser \in Users
  BY InputAssumption DEF AnyKey, AnyEnv, AnyUser
<1>2. DefaultConfig \in Configs
  BY SMT DEF DefaultConfig, Configs
<1>3. NoFlag \in Flags
  BY <1>2 DEF NoFlag, Flags
<1>4. NoCR \in ChangeRequests
  BY <1>1, <1>2 DEF NoCR, ChangeRequests, Statuses
<1>5. DefaultProject \in Projects
  BY SQLiteAssumption, ProjectAssumption
<1>6. NoFrame \in Frames /\ NoFrame.key \in Keys /\ NoFrame.write \in Flags
  BY <1>1, <1>3, <1>5 DEF NoFrame, Frames, Subjects, GENESIS
<1> QED BY <1>3, <1>4, <1>5, <1>6 DEF NoFlags, Snapshots

LEMMA KeySubject ==
    /\ \A k \in Keys : k \in Subjects /\ ProjectOf[k] \in Projects
    /\ "api-keys" \in Subjects /\ "audit-logs" \in Subjects
BY ProjectAssumption DEF Subjects

LEMMA RecordingType ==
    ASSUME NEW k \in Subjects, NEW p \in Projects, NEW f \in Flags
    PROVE  /\ Recording(k, p, f) \in Frames
           /\ Recording(k, p, f).key = k /\ Recording(k, p, f).proj = p
           /\ Recording(k, p, f).write = f
<1> DEFINE n == NoFrame
<1>1. n \in Frames
  BY DefaultTypes
<1>2. Recording(k, p, f) = [n EXCEPT !.key = k, !.proj = p, !.write = f]
  BY DEF Recording
<1> HIDE DEF n
<1> QED BY <1>1, <1>2 DEF Frames

\* The rows writers store.
LEMMA PayloadType == Payloads \subseteq Configs
BY InputAssumption DEF Payloads, Configs

LEMMA SeedFlagType ==
    ASSUME NEW life \in Nat
    PROVE  SeedFlag(life) \in Flags /\ [SeedFlag(life) EXCEPT !.ver = 1] \in Flags
<1>1. SeedFlag(life) \in Flags
  BY SMT DEF SeedFlag, Flags, Configs
<1> QED BY <1>1 DEF Flags

LEMMA WithConfigType ==
    ASSUME NEW f \in Flags, NEW env \in Envs, NEW c \in Configs
    PROVE  WithConfig(f, env, c) \in Flags
BY SMT DEF WithConfig, Flags

LEMMA CountedType ==
    ASSUME NEW f \in Flags, NEW envs \in [Envs -> Configs]
    PROVE  /\ [f EXCEPT !.ver = @ + 1, !.envs = envs] \in Flags
           /\ [f EXCEPT !.ver = @ + 1, !.envs = envs].life = f.life
           /\ [f EXCEPT !.ver = @ + 1, !.envs = envs].ver = f.ver + 1
<1> DEFINE n == f.ver + 1
<1>1. n \in Nat
  BY SMT DEF Flags
<1>2. [f EXCEPT !.ver = @ + 1, !.envs = envs] = [f EXCEPT !.ver = n, !.envs = envs]
  OBVIOUS
<1> HIDE DEF n
<1>3. [f EXCEPT !.ver = n, !.envs = envs] \in Flags
  BY <1>1 DEF Flags
<1>4. [f EXCEPT !.ver = n, !.envs = envs].life = f.life
  BY DEF Flags
<1>5. [f EXCEPT !.ver = n, !.envs = envs].ver = n
  BY DEF Flags
<1> QED BY <1>2, <1>3, <1>4, <1>5 DEF n

LEMMA UpsertedType ==
    ASSUME RowTypes, NEW k \in Keys, NEW envs \in [Envs -> Configs], NEW v \in Nat
    PROVE  Upserted(k, envs, v) \in Flags
<1> DEFINE f == feature_flags[k]
<1>1. f \in Flags /\ nextLife \in Nat
  BY DEF RowTypes, Snapshots
<1>2. [f EXCEPT !.ver = @ + 1, !.envs = envs] \in Flags
  BY <1>1, CountedType
<1>3. [life |-> nextLife, ver |-> v + 1, envs |-> envs] \in Flags
  BY SMT, <1>1 DEF Flags
<1> QED BY <1>2, <1>3 DEF Upserted

LEMMA SubmittedType ==
    ASSUME NEW k \in Keys, NEW f \in Flags, NEW env \in Envs, NEW c \in Configs, NEW u \in Users
    PROVE  Submitted(k, f, env, c, u) \in ChangeRequests
BY DEF Submitted, ChangeRequests, Flags, Statuses

LEMMA ReviewedType ==
    ASSUME NEW cr \in ChangeRequests, NEW u \in Users, NEW b \in BOOLEAN
    PROVE  Reviewed(cr, u, b) \in ChangeRequests
BY DEF Reviewed, ChangeRequests, Statuses

\* What a handler remembers has the types of the rows.
LEMMA FrameTypes ==
    ASSUME TypeInv, NEW h \in Handlers
    PROVE  /\ frame[h] \in Frames
           /\ frame[h].key \in Subjects /\ frame[h].proj \in Projects
           /\ frame[h].read \in Flags /\ frame[h].write \in Flags
           /\ frame[h].read.life \in Nat /\ frame[h].read.ver \in Nat
           /\ frame[h].read.envs \in [Envs -> Configs]
           /\ frame[h].write.life \in Nat /\ frame[h].write.ver \in Nat
           /\ frame[h].write.envs \in [Envs -> Configs]
           /\ frame[h].cr \in CRIds \cup {NoRequest} /\ frame[h].hash \in Nat
           /\ frame[h].rows \subseteq Entries /\ frame[h].calm \in BOOLEAN
<1>1. frame[h] \in Frames
  BY DEF TypeInv, Positions
<1> QED BY <1>1 DEF Frames, Flags

\* Steps that touch no table keep the types of the rows.
LEMMA RowsKept ==
    ASSUME RowTypes, UNCHANGED <<tables, clock, nextHash, nextLife, history>>,
           ops' \in Nat, faults' \in Nat
    PROVE  RowTypes'
BY DEF RowTypes, tables, history, Numbered, Snapshots

LEMMA BeginType ==
    ASSUME RowTypes, NEW h \in Handlers, Begin(h)
    PROVE  ops' \in Nat /\ pc[h] = "idle"
BY SuccessorType DEF Begin, RowTypes

\* Requests that begin without the lock.
LEMMA ReadFlagTypes ==
    ASSUME TypeInv, NEW h \in Handlers, NEW k \in Keys,
           NEW label \in {"edit", "promote", "submit"}, ReadFlag(h, k, label)
    PROVE  /\ TypeInv' /\ OthersRest(h) /\ pc'[h] = label
           /\ frame'[h].key = k /\ frame'[h].read = feature_flags[k]
<1> DEFINE f == [NoFrame EXCEPT !.key = k, !.read = feature_flags[k]]
<1>1. f \in Frames /\ f.key = k /\ f.read = feature_flags[k]
  <2>1. NoFrame \in Frames /\ feature_flags[k] \in Flags
    BY DefaultTypes DEF TypeInv, RowTypes, Snapshots
  <2> QED BY <2>1 DEF Frames, Subjects
<1>2. Goto(h, label, f) /\ mu' = mu /\ label \in Labels /\ label \notin Holding /\ label # "mark"
  BY DEF ReadFlag, Labels, Holding
<1> HIDE DEF f
<1>3. Positions' /\ OthersRest(h) /\ pc'[h] = label /\ frame'[h] = f
  BY <1>1, <1>2, GotoKeeps DEF TypeInv, Positions
<1>4. RowTypes'
  <2>1. Begin(h) /\ UNCHANGED <<tables, clock, nextHash, nextLife, faults, history>>
    BY DEF ReadFlag
  <2> QED BY <2>1, BeginType, RowsKept DEF TypeInv, RowTypes
<1> QED BY <1>1, <1>3, <1>4 DEF TypeInv

LEMMA WriteFlagTypes ==
    ASSUME TypeInv, NEW h \in Handlers, NEW k \in Keys, NEW envs \in [Envs -> Payloads],
           NEW v \in PayloadVers, WriteFlag(h, k, envs, v)
    PROVE  TypeInv' /\ OthersRest(h) /\ pc'[h] = "save"
<1> DEFINE w == [life |-> 0, ver |-> v, envs |-> envs]
           f == [NoFrame EXCEPT !.key = k, !.write = w]
<1>1. w \in Flags
  BY PayloadType, InputAssumption DEF Flags
<1>2. Goto(h, "save", f) /\ mu' = mu
  BY DEF WriteFlag
<1> HIDE DEF w
<1>3. f \in Frames /\ f.key = k
  BY <1>1, DefaultTypes DEF Frames, Subjects
<1> HIDE DEF f
<1>4. Positions' /\ OthersRest(h) /\ pc'[h] = "save"
  BY <1>2, <1>3, GotoKeeps DEF TypeInv, Positions, Labels, Holding
<1>5. RowTypes'
  <2>1. Begin(h) /\ UNCHANGED <<tables, clock, nextHash, nextLife, faults, history>>
    BY DEF WriteFlag
  <2> QED BY <2>1, BeginType, RowsKept DEF TypeInv, RowTypes
<1> QED BY <1>4, <1>5 DEF TypeInv

LEMMA PurgeNothingTypes ==
    ASSUME TypeInv, NEW h \in Handlers, NEW p \in Projects, NEW before, PurgeNothing(h, p, before)
    PROVE  TypeInv' /\ OthersRest(h) /\ pc'[h] = "record"
<1> DEFINE f == Recording("audit-logs", p, NoFlag)
<1>1. f \in Frames
  BY KeySubject, DefaultTypes, RecordingType
<1>2. Goto(h, "record", f) /\ mu' = mu
  BY DEF PurgeNothing
<1> HIDE DEF f
<1>3. Positions' /\ OthersRest(h) /\ pc'[h] = "record"
  BY <1>1, <1>2, GotoKeeps DEF TypeInv, Positions, Labels, Holding, Keyed
<1>4. RowTypes'
  <2>1. Begin(h) /\ UNCHANGED <<tables, clock, nextHash, nextLife, faults, history>>
    BY DEF PurgeNothing
  <2> QED BY <2>1, BeginType, RowsKept DEF TypeInv, RowTypes
<1> QED BY <1>3, <1>4 DEF TypeInv

LEMMA VerifyRowsTypes ==
    ASSUME TypeInv, NEW h \in Handlers, NEW p \in Projects, VerifyRows(h, p)
    PROVE  /\ TypeInv'
           /\ pc'[h] = "verify" /\ frame'[h].proj = p /\ frame'[h].rows = Own(p)
           /\ frame'[h].calm = \A g \in Handlers : pc[g] # "anchor"
           /\ OthersRest(h)
<1> DEFINE c == \A g \in Handlers : pc[g] # "anchor"
           f == [NoFrame EXCEPT !.proj = p, !.rows = Own(p), !.calm = c]
<1>1. Own(p) \subseteq Entries /\ c \in BOOLEAN
  BY DEF Own, TypeInv, RowTypes
<1>2. Goto(h, "verify", f) /\ mu' = mu
  BY DEF VerifyRows
<1>3. f \in Frames /\ f.proj = p /\ f.rows = Own(p) /\ f.calm = c
  <2> HIDE DEF c
  <2> QED BY <1>1, DefaultTypes DEF Frames
<1> HIDE DEF f
<1>4. /\ Positions' /\ pc'[h] = "verify" /\ frame'[h] = f
      /\ OthersRest(h)
  BY <1>2, <1>3, GotoKeeps DEF TypeInv, Positions, Labels, Holding, Keyed
<1>5. RowTypes'
  <2>1. Begin(h) /\ UNCHANGED <<tables, clock, nextHash, nextLife, faults, history>>
    BY DEF VerifyRows
  <2> QED BY <2>1, BeginType, RowsKept DEF TypeInv, RowTypes
<1> QED BY <1>3, <1>4, <1>5 DEF TypeInv

\* The change request of a frame, if any.
RequestIds == CRIds \cup {NoRequest}

\* Requests that take the lock.
LEMMA ReadLockedTypes ==
    ASSUME TypeInv, NEW h \in Handlers, NEW k \in Keys, NEW w \in Flags,
           NEW c \in RequestIds, NEW label \in {"update", "delete"},
           ReadLocked(h, k, w, c, label)
    PROVE  /\ TypeInv'
           /\ pc'[h] = label
           /\ frame'[h].key = k /\ frame'[h].read = feature_flags[k]
           /\ frame'[h].write = w /\ frame'[h].cr = c
           /\ OthersRest(h)
<1> DEFINE r == Recording(k, ProjectOf[k], w)
           f == [r EXCEPT !.read = feature_flags[k], !.cr = c]
<1>1. r \in Frames /\ r.key = k /\ r.write = w
  BY SMT, KeySubject, RecordingType
<1>2. Goto(h, label, f) /\ mu = NoHandler /\ mu' = h
  BY DEF ReadLocked, Lock
<1>3. f \in Frames /\ f.key = k /\ f.read = feature_flags[k] /\ f.write = w /\ f.cr = c
  <2>1. feature_flags[k] \in Flags
    BY DEF TypeInv, RowTypes, Snapshots
  <2> HIDE DEF r
  <2> QED BY <1>1, <2>1 DEF Frames, RequestIds
<1> HIDE DEF f
<1>4. /\ Positions' /\ pc'[h] = label /\ frame'[h] = f
      /\ OthersRest(h)
  <2>1. label \in Labels /\ label # "mark" /\ mu' \in Handlers
    BY <1>2 DEF Labels
  <2> QED BY <1>2, <1>3, <2>1, GotoKeeps DEF TypeInv
<1>5. RowTypes'
  <2>1. Begin(h) /\ UNCHANGED <<tables, clock, nextHash, nextLife, faults, history>>
    BY DEF ReadLocked
  <2> QED BY <2>1, BeginType, RowsKept DEF TypeInv, RowTypes
<1> QED BY <1>3, <1>4, <1>5 DEF TypeInv

\* The flags that toggles, rollouts and applications are about to write.
LEMMA WriteTypes ==
    ASSUME TypeInv, NEW k \in Keys, NEW env \in Envs
    PROVE  /\ feature_flags[k] \in Flags
           /\ \A b \in BOOLEAN :
                WithConfig(feature_flags[k], env,
                    [feature_flags[k].envs[env] EXCEPT !.enabled = b]) \in Flags
           /\ \A pct \in Pcts :
                WithConfig(feature_flags[k], env,
                    [feature_flags[k].envs[env] EXCEPT !.pct = pct]) \in Flags
           /\ \A c \in CRIds :
                WithConfig(feature_flags[k], change_requests[c].env,
                    change_requests[c].proposed) \in Flags
<1> DEFINE f == feature_flags[k]
           g == f.envs[env]
<1>1. f \in Flags /\ g \in Configs
  BY DEF TypeInv, RowTypes, Snapshots, Flags
<1>2. ASSUME NEW b \in BOOLEAN PROVE WithConfig(f, env, [g EXCEPT !.enabled = b]) \in Flags
  <2> HIDE DEF f, g
  <2>1. [g EXCEPT !.enabled = b] \in Configs
    BY <1>1 DEF Configs
  <2> QED BY <1>1, <2>1, WithConfigType
<1>3. ASSUME NEW pct \in Pcts PROVE WithConfig(f, env, [g EXCEPT !.pct = pct]) \in Flags
  <2> HIDE DEF f, g
  <2>1. [g EXCEPT !.pct = pct] \in Configs
    BY <1>1, InputAssumption DEF Configs
  <2> QED BY <1>1, <2>1, WithConfigType
<1>4. ASSUME NEW c \in CRIds
      PROVE  WithConfig(f, change_requests[c].env, change_requests[c].proposed) \in Flags
  <2>1. change_requests[c].env \in Envs /\ change_requests[c].proposed \in Configs
    BY DEF TypeInv, RowTypes, ChangeRequests
  <2> QED BY <1>1, <2>1, WithConfigType
<1> QED BY <1>1, <1>2, <1>3, <1>4

\* SaveFlag.
LEMMA SaveFlagTypes ==
    ASSUME TypeInv, NEW h \in Handlers, NEW k \in Keys, NEW envs \in [Envs -> Configs],
           NEW v \in Nat, SaveFlag(h, k, envs, v), UNCHANGED ops
    PROVE  /\ TypeInv'
           /\ pc'[h] = "audit" /\ frame'[h].key = k
           /\ frame'[h].write = Upserted(k, envs, v)
           /\ OthersRest(h)
<1> DEFINE w == Upserted(k, envs, v)
           f == Recording(k, ProjectOf[k], w)
<1>1. w \in Flags
  BY UpsertedType DEF TypeInv
<1>2. /\ Goto(h, "audit", f) /\ mu = NoHandler /\ mu' = h
      /\ feature_flags' = [feature_flags EXCEPT ![k] = w]
      /\ nextLife' = IF Exists(feature_flags[k]) THEN nextLife ELSE nextLife + 1
      /\ UNCHANGED <<change_requests, api_keys, audit_logs, audit_anchors, clock, nextHash, faults, history>>
  BY DEF SaveFlag, Lock
<1> HIDE DEF w
<1>3. f \in Frames /\ f.key = k /\ f.write = w
  BY SMT, <1>1, KeySubject, RecordingType
<1> HIDE DEF f
<1>4. /\ Positions' /\ pc'[h] = "audit" /\ frame'[h] = f
      /\ OthersRest(h)
  BY <1>2, <1>3, GotoKeeps DEF TypeInv, Labels, Holding, Keyed
<1>5. nextLife' \in Nat
  BY <1>2, SuccessorType DEF TypeInv, RowTypes
<1>6. feature_flags' \in Snapshots
  BY <1>1, <1>2 DEF TypeInv, RowTypes, Snapshots
<1>7. RowTypes'
  BY <1>2, <1>5, <1>6 DEF TypeInv, RowTypes, history, Numbered
<1> QED BY <1>3, <1>4, <1>7 DEF TypeInv, w

LEMMA RevokeTypes ==
    ASSUME TypeInv, NEW h \in Handlers, NEW a \in APIKeys, RevokeAPIKeyByProject(h, a)
    PROVE  /\ TypeInv'
           /\ pc'[h] = "audit" /\ frame'[h].key = "api-keys"
           /\ OthersRest(h)
<1> DEFINE f == Recording("api-keys", DefaultProject, NoFlag)
<1>1. f \in Frames /\ f.key = "api-keys"
  BY SMT, KeySubject, DefaultTypes, RecordingType
<1>2. /\ Begin(h) /\ Goto(h, "audit", f) /\ mu = NoHandler /\ mu' = h
      /\ api_keys' = api_keys \cup {a}
      /\ UNCHANGED <<feature_flags, change_requests, audit_logs, audit_anchors, clock,
                     nextHash, nextLife, faults, history>>
  BY DEF RevokeAPIKeyByProject, Lock
<1> HIDE DEF f
<1>3. /\ Positions' /\ pc'[h] = "audit" /\ frame'[h] = f
      /\ OthersRest(h)
  BY <1>1, <1>2, GotoKeeps DEF TypeInv, Labels, Holding, Keyed
<1>4. RowTypes'
  BY <1>2, BeginType DEF TypeInv, RowTypes, history, Numbered
<1> QED BY <1>1, <1>3, <1>4 DEF TypeInv

\* The statements of a writer.
LEMMA UpdateRowTypes ==
    ASSUME TypeInv, NEW h \in Handlers, UpdateRow(h)
    PROVE  /\ TypeInv' /\ OthersRest(h)
           /\ frame[h].key \in Keys /\ frame'[h].key = frame[h].key
           /\ frame'[h].write = feature_flags'[frame[h].key]
           /\ pc'[h] \in {"audit", "mark"}
           /\ pc'[h] = "mark" => frame[h].cr # NoRequest /\ frame'[h].cr = frame[h].cr
<1> DEFINE f == frame[h]
           row == feature_flags[f.key]
           new == IF Exists(row) /\ row.life = f.read.life
                  THEN [row EXCEPT !.ver = @ + 1, !.envs = f.write.envs] ELSE row
           label == IF f.cr = NoRequest THEN "audit" ELSE "mark"
           g == [f EXCEPT !.write = new]
<1>1. /\ pc[h] = "update" /\ Goto(h, label, g) /\ mu' = mu
      /\ feature_flags' = [feature_flags EXCEPT ![f.key] = new]
      /\ landed' = IF f.cr = NoRequest THEN landed ELSE [landed EXCEPT ![f.cr] = @ \cup {f.read.life}]
      /\ UNCHANGED <<change_requests, api_keys, audit_logs, audit_anchors,
                     counters, trail, lost, chainFault, falseAlarm>>
  BY DEF UpdateRow
<1>2. f.key \in Keys /\ mu = h
  BY <1>1 DEF TypeInv, Positions, At, Keyed, Holding
<1>3. row \in Flags /\ new \in Flags
  <2>1. row \in Flags /\ f.write.envs \in [Envs -> Configs]
    BY <1>2, FrameTypes DEF TypeInv, RowTypes, Snapshots
  <2> QED BY <2>1, CountedType
<1>4. f \in Frames /\ f.cr \in CRIds \cup {NoRequest} /\ f.read.life \in Nat
  BY FrameTypes
<1>5. label \in {"audit", "mark"} /\ (label = "mark" => f.cr \in CRIds /\ f.cr # NoRequest)
  BY <1>4
<1>6. landed' \in [CRIds -> SUBSET Nat]
  BY <1>1, <1>4 DEF TypeInv, RowTypes
<1>7. feature_flags' \in Snapshots /\ feature_flags'[f.key] = new
  <2> HIDE DEF new
  <2> QED BY <1>1, <1>2, <1>3 DEF TypeInv, RowTypes, Snapshots
<1>8. RowTypes'
  BY <1>1, <1>6, <1>7 DEF TypeInv, RowTypes, counters, Numbered
<1> HIDE DEF new
<1>9. g \in Frames /\ g.key = f.key /\ g.cr = f.cr /\ g.write = new
  <2> HIDE DEF f
  <2> QED BY <1>3, <1>4 DEF Frames
<1> HIDE DEF label, g
<1>10. Positions' /\ pc'[h] = label /\ frame'[h] = g /\ OthersRest(h)
  <2>1. label \in Labels /\ mu \in Handlers \cup {NoHandler}
    BY <1>5 DEF Labels, TypeInv, Positions
  <2> QED BY <1>1, <1>2, <1>5, <1>9, <2>1, GotoKeeps DEF TypeInv, Keyed
<1> QED BY <1>2, <1>5, <1>7, <1>8, <1>9, <1>10 DEF TypeInv

LEMMA MarkAppliedTypes ==
    ASSUME TypeInv, NEW h \in Handlers, MarkApplied(h)
    PROVE  /\ TypeInv' /\ OthersRest(h) /\ pc'[h] = "audit" /\ frame'[h] = frame[h]
           /\ pc[h] = "mark" /\ frame[h].cr \in CRIds
<1>1. /\ pc[h] = "mark" /\ Goto(h, "audit", frame[h]) /\ mu' = mu
      /\ change_requests' = [change_requests EXCEPT ![frame[h].cr].status = "APPLIED"]
      /\ UNCHANGED <<feature_flags, api_keys, audit_logs, audit_anchors, counters, history>>
  BY DEF MarkApplied
<1>2. frame[h].cr \in CRIds /\ mu = h
  BY <1>1 DEF TypeInv, Positions, At, Holding
<1>3. change_requests' \in [CRIds -> ChangeRequests]
  BY SMT, <1>1, <1>2 DEF TypeInv, RowTypes, ChangeRequests, Statuses
<1>4. RowTypes'
  BY <1>1, <1>3 DEF TypeInv, RowTypes, counters, history, Numbered
<1>5. Positions' /\ pc'[h] = "audit" /\ frame'[h] = frame[h] /\ OthersRest(h)
  BY <1>1, <1>2, FrameTypes, GotoKeeps DEF TypeInv, Labels, Keyed
<1> QED BY <1>1, <1>2, <1>4, <1>5 DEF TypeInv

LEMMA DeleteRowTypes ==
    ASSUME TypeInv, NEW h \in Handlers, DeleteRow(h)
    PROVE  /\ TypeInv' /\ OthersRest(h) /\ frame[h].key \in Keys /\ mu = h
           /\ pc'[h] \in {"audit", "idle"}
<1> DEFINE k == frame[h].key
<1>1. /\ pc[h] = "delete"
      /\ \/ /\ feature_flags' = [feature_flags EXCEPT ![k] = NoFlag]
            /\ Goto(h, "audit", frame[h]) /\ mu' = mu
         \/ /\ feature_flags' = feature_flags
            /\ Goto(h, "idle", NoFrame) /\ mu' = NoHandler
      /\ UNCHANGED <<change_requests, api_keys, audit_logs, audit_anchors, counters, history>>
  BY DEF DeleteRow, Return
<1>2. k \in Keys /\ mu = h
  BY <1>1 DEF TypeInv, Positions, At, Keyed, Holding
<1>3. feature_flags' \in Snapshots
  BY <1>1, <1>2, DefaultTypes DEF TypeInv, RowTypes, Snapshots
<1>4. RowTypes'
  BY <1>1, <1>3 DEF TypeInv, RowTypes, counters, history, Numbered
<1>5. Positions' /\ OthersRest(h) /\ pc'[h] \in {"audit", "idle"}
  <2>1. CASE Goto(h, "audit", frame[h]) /\ mu' = mu
    BY <1>2, <2>1, FrameTypes, GotoKeeps DEF TypeInv, Labels, Keyed
  <2>2. CASE Goto(h, "idle", NoFrame) /\ mu' = NoHandler
    BY <1>2, <2>2, DefaultTypes, GotoKeeps DEF TypeInv, Labels, Keyed, Holding
  <2> QED BY <1>1, <2>1, <2>2
<1> QED BY <1>2, <1>4, <1>5 DEF TypeInv

\* Change requests.
LEMMA CreateTypes ==
    ASSUME TypeInv, NEW h \in Handlers, NEW c \in CRIds, NEW env \in Envs,
           NEW proposed \in Payloads, NEW u \in Users,
           CreateChangeRequest(h, c, env, proposed, u)
    PROVE  TypeInv' /\ OthersRest(h) /\ pc'[h] = "idle" /\ frame[h].key \in Keys
<1> DEFINE cr == Submitted(frame[h].key, frame[h].read, env, proposed, u)
<1>1. /\ pc[h] = "submit" /\ mu = NoHandler /\ mu' = mu
      /\ change_requests' = IF change_requests[c].status # "NONE" THEN change_requests
                            ELSE [change_requests EXCEPT ![c] = cr]
      /\ Goto(h, "idle", NoFrame)
      /\ UNCHANGED <<feature_flags, api_keys, audit_logs, audit_anchors, counters, history>>
  BY DEF CreateChangeRequest
<1>2. frame[h].key \in Keys
  BY <1>1 DEF TypeInv, Positions, At, Keyed
<1>3. cr \in ChangeRequests
  BY <1>2, FrameTypes, PayloadType, SubmittedType
<1> HIDE DEF cr
<1>4. change_requests' \in [CRIds -> ChangeRequests]
  BY <1>1, <1>3 DEF TypeInv, RowTypes
<1>5. RowTypes'
  BY <1>1, <1>4 DEF TypeInv, RowTypes, counters, history, Numbered
<1>6. Positions' /\ OthersRest(h) /\ pc'[h] = "idle"
  BY <1>1, DefaultTypes, GotoKeeps DEF TypeInv, Labels, Keyed, Holding
<1> QED BY <1>2, <1>5, <1>6 DEF TypeInv

LEMMA ReviewTypes ==
    ASSUME TypeInv, NEW c \in CRIds, NEW u \in Users, NEW b \in BOOLEAN,
           ReviewChangeRequest(c, u, b)
    PROVE  TypeInv'
<1>1. /\ mu' = mu /\ UNCHANGED <<pc, frame>> /\ ops' = ops + 1
      /\ change_requests' = [change_requests EXCEPT ![c] = Reviewed(change_requests[c], u, b)]
      /\ UNCHANGED <<feature_flags, api_keys, audit_logs, audit_anchors, clock, nextHash,
                     nextLife, faults, history>>
  BY DEF ReviewChangeRequest
<1>2. change_requests' \in [CRIds -> ChangeRequests]
  BY <1>1, ReviewedType DEF TypeInv, RowTypes
<1>3. RowTypes'
  BY <1>1, <1>2, SuccessorType DEF TypeInv, RowTypes, history, Numbered
<1>4. Positions'
  BY <1>1 DEF TypeInv, Positions, At
<1> QED BY <1>3, <1>4 DEF TypeInv

\* Purges and verifications.
LEMMA SubsetNumbered ==
    ASSUME NEW S, NEW T, T \subseteq S, NEW n, NEW t, Numbered(S, n, t)
    PROVE  Numbered(T, n, t)
BY DEF Numbered

LEMMA PurgeTypes ==
    ASSUME TypeInv, NEW h \in Handlers, NEW p \in Projects, NEW before,
           PurgeAuditLogs(h, p, before)
    PROVE  /\ TypeInv'
           /\ \A g \in Handlers \ {h} :
                /\ pc'[g] = pc[g]
                /\ frame'[g] \in Frames /\ frame'[g].calm = FALSE
                /\ frame'[g].key = frame[g].key /\ frame'[g].cr = frame[g].cr
                /\ frame'[g].read = frame[g].read /\ frame'[g].write = frame[g].write
           /\ pc'[h] = "anchor" /\ frame'[h].proj = p
           /\ frame'[h].hash = Newest(Purgeable(p, before)).hash
<1> DEFINE gone == Purgeable(p, before)
           r == Recording("audit-logs", p, NoFlag)
           n == Newest(gone).hash
           f == [r EXCEPT !.hash = n]
<1>1. /\ Begin(h) /\ mu = NoHandler /\ mu' = h
      /\ audit_logs' = audit_logs \ gone /\ gone # {}
      /\ pc' = [pc EXCEPT ![h] = "anchor"]
      /\ frame' = [g \in Handlers |-> IF g = h THEN f ELSE [frame[g] EXCEPT !.calm = FALSE]]
      /\ UNCHANGED <<feature_flags, change_requests, api_keys, audit_anchors, clock,
                     nextHash, nextLife, faults, history>>
  BY DEF PurgeAuditLogs, Lock
<1>2. gone \subseteq audit_logs
  BY DEF Purgeable, Own
<1>3. n \in Nat
  <2>1. Numbered(gone, nextHash, clock)
    BY <1>2, SubsetNumbered DEF TypeInv, RowTypes
  <2>2. Newest(gone) \in gone
    BY <1>1, <2>1, NewestExists
  <2> QED BY <2>1, <2>2 DEF Numbered
<1>4. r \in Frames /\ r.proj = p
  BY SMT, KeySubject, DefaultTypes, RecordingType
<1> HIDE DEF r, n
<1>5. f \in Frames /\ f.proj = p /\ f.hash = n
  BY <1>3, <1>4 DEF Frames
<1> HIDE DEF f, gone
<1>6. ASSUME NEW g \in Handlers \ {h}
      PROVE  /\ pc'[g] = pc[g] /\ frame'[g] \in Frames /\ frame'[g].calm = FALSE
             /\ frame'[g].key = frame[g].key /\ frame'[g].cr = frame[g].cr
             /\ frame'[g].read = frame[g].read /\ frame'[g].write = frame[g].write
  <2> DEFINE fg == frame[g]
  <2>1. fg \in Frames
    BY FrameTypes
  <2>2. frame'[g] = [fg EXCEPT !.calm = FALSE]
    BY <1>1
  <2>3. pc'[g] = pc[g]
    BY <1>1 DEF TypeInv, Positions
  <2> HIDE DEF fg
  <2>4. /\ [fg EXCEPT !.calm = FALSE] \in Frames
        /\ [fg EXCEPT !.calm = FALSE].calm = FALSE
        /\ [fg EXCEPT !.calm = FALSE].key = fg.key /\ [fg EXCEPT !.calm = FALSE].cr = fg.cr
        /\ [fg EXCEPT !.calm = FALSE].read = fg.read
        /\ [fg EXCEPT !.calm = FALSE].write = fg.write
    BY <2>1 DEF Frames
  <2> QED BY <2>2, <2>3, <2>4 DEF fg
<1>7. pc'[h] = "anchor" /\ frame'[h] = f
  BY <1>1 DEF TypeInv, Positions
<1>8. Positions'
  <2>1. ASSUME NEW g \in Handlers PROVE At(g)' /\ frame'[g] \in Frames /\ pc'[g] \in Labels
    <3>1. CASE g = h
      BY <1>1, <1>5, <1>7, <3>1 DEF At, Keyed, Labels
    <3>2. CASE g # h
      <4>1. pc[g] \notin Holding
        BY <1>1, <3>2, SQLiteAssumption DEF TypeInv, Positions, At
      <4>2. At(g) /\ pc[g] \in Labels
        BY DEF TypeInv, Positions
      <4> QED BY <1>6, <3>2, <4>1, <4>2 DEF At
    <3> QED BY <3>1, <3>2
  <2>2. pc' \in [Handlers -> Labels]
    BY <1>1, <2>1 DEF TypeInv, Positions
  <2>3. frame' \in [Handlers -> Frames]
    BY <1>1, <2>1
  <2> QED BY <1>1, <2>1, <2>2, <2>3 DEF Positions
<1>9. RowTypes'
  <2>1. Numbered(audit_logs \ gone, nextHash, clock)
    BY SubsetNumbered DEF TypeInv, RowTypes
  <2> QED BY <1>1, <2>1, BeginType DEF TypeInv, RowTypes, history
<1> QED BY <1>5, <1>6, <1>7, <1>8, <1>9 DEF TypeInv, n, gone

LEMMA PurgeAnchorTypes ==
    ASSUME TypeInv, NEW h \in Handlers, PurgeAnchor(h)
    PROVE  TypeInv' /\ OthersRest(h) /\ pc'[h] = "record" /\ mu = h
<1>1. /\ pc[h] = "anchor" /\ Goto(h, "record", frame[h]) /\ mu' = NoHandler
      /\ audit_anchors' = [audit_anchors EXCEPT ![frame[h].proj] = frame[h].hash]
      /\ UNCHANGED <<feature_flags, change_requests, api_keys, audit_logs, counters, history>>
  BY DEF PurgeAnchor, Return
<1>2. mu = h
  BY <1>1 DEF TypeInv, Positions, At, Holding
<1>3. RowTypes'
  BY <1>1, FrameTypes DEF TypeInv, RowTypes, counters, history, Numbered
<1>4. Positions' /\ OthersRest(h) /\ pc'[h] = "record"
  BY <1>1, <1>2, FrameTypes, GotoKeeps DEF TypeInv, Labels, Keyed, Holding
<1> QED BY <1>2, <1>3, <1>4 DEF TypeInv

LEMMA AppendTypes ==
    ASSUME TypeInv, NEW h \in Handlers, AppendAuditLog(h)
    PROVE  TypeInv' /\ OthersRest(h) /\ pc'[h] = "audit" /\ frame'[h] = frame[h]
<1>1. /\ Goto(h, "audit", frame[h]) /\ mu = NoHandler /\ mu' = h
      /\ UNCHANGED <<tables, counters, history>>
  BY DEF AppendAuditLog, Lock
<1>2. RowTypes'
  BY <1>1, RowsKept DEF TypeInv, RowTypes, counters
<1>3. frame[h] \in Frames
  BY FrameTypes
<1>4. Positions' /\ OthersRest(h) /\ pc'[h] = "audit" /\ frame'[h] = frame[h]
  BY <1>1, <1>3, GotoKeeps DEF TypeInv, Labels, Keyed, Holding
<1> QED BY <1>2, <1>4 DEF TypeInv

LEMMA VerifyTypes ==
    ASSUME TypeInv, NEW h \in Handlers, VerifyAuditLogIntegrity(h)
    PROVE  TypeInv' /\ OthersRest(h) /\ pc'[h] = "idle"
<1> DEFINE alarm == \/ falseAlarm
                    \/ frame[h].calm /\ ~chainFault
                          /\ ~Valid(frame[h].rows, audit_anchors[frame[h].proj])
<1>1. /\ pc[h] = "verify" /\ Goto(h, "idle", NoFrame) /\ mu' = mu /\ falseAlarm' = alarm
      /\ UNCHANGED <<tables, counters, trail, lost, landed, chainFault>>
  BY DEF VerifyAuditLogIntegrity
<1>2. alarm \in BOOLEAN
  OBVIOUS
<1> HIDE DEF alarm
<1>3. RowTypes'
  BY <1>1, <1>2 DEF TypeInv, RowTypes, tables, counters, Numbered
<1>4. Positions' /\ OthersRest(h) /\ pc'[h] = "idle"
  BY <1>1, DefaultTypes, GotoKeeps DEF TypeInv, Positions, Labels, Keyed, Holding
<1> QED BY <1>3, <1>4 DEF TypeInv

\* The audit log.
LEMMA HeadHashType ==
    ASSUME TypeInv, NEW p \in Projects
    PROVE  HeadHash(p) \in Nat
<1>1. audit_anchors[p] \in Nat
  BY DEF TypeInv, RowTypes
<1>2. ASSUME Own(p) # {} PROVE Newest(Own(p)).hash \in Nat
  <2>1. Numbered(Own(p), nextHash, clock)
    BY SubsetNumbered DEF TypeInv, RowTypes, Own
  <2>2. Newest(Own(p)) \in Own(p)
    BY <1>2, <2>1, NewestExists
  <2> QED BY <2>1, <2>2 DEF Numbered
<1> QED BY <1>1, <1>2 DEF HeadHash

LEMMA EntryNumbered ==
    ASSUME NEW S, NEW n, NEW t, Numbered(S, n, t), NEW e, e.hash = n,
           e.ts \in Nat, NEW u \in Nat, t <= u, e.ts <= u
    PROVE  Numbered(S \cup {e}, n + 1, u)
<1>1. n \in Nat /\ t \in Nat
  BY DEF Numbered
<1>2. \A d \in S : d.hash \in Nat /\ d.hash < n /\ d.ts \in Nat /\ d.ts <= t
  BY DEF Numbered
<1>3. \A d \in S \cup {e} : d.hash \in Nat /\ d.hash < n + 1 /\ d.ts \in Nat /\ d.ts <= u
  BY SMT, <1>1, <1>2
<1>4. ASSUME NEW c \in S \cup {e}, NEW d \in S \cup {e}, c.hash = d.hash PROVE c = d
  <2>1. CASE c \in S /\ d \in S
    BY <1>4, <2>1 DEF Numbered
  <2>2. CASE c = e /\ d = e
    BY <2>2
  <2>3. CASE c \in S /\ d = e
    BY SMT, <1>1, <1>2, <1>4, <2>3
  <2>4. CASE c = e /\ d \in S
    BY SMT, <1>1, <1>2, <1>4, <2>4
  <2> QED BY <2>1, <2>2, <2>3, <2>4
<1> QED BY SMT, <1>1, <1>3, <1>4 DEF Numbered

LEMMA InsertTypes ==
    ASSUME TypeInv, NEW h \in Handlers, pc[h] = "audit", NEW prev \in Nat, Insert(h, prev),
           faults' \in Nat
    PROVE  TypeInv' /\ OthersRest(h) /\ pc'[h] = "idle" /\ mu = h
<1> DEFINE f == frame[h]
           e == [hash |-> nextHash, prev |-> prev, ts |-> clock', proj |-> f.proj,
                 key |-> f.key, life |-> f.write.life, ver |-> f.write.ver]
           fault == \/ chainFault \/ prev # HeadHash(f.proj)
                    \/ \E d \in Own(f.proj) : Text(d.ts) > Text(clock')
<1>1. /\ ReadClock /\ audit_logs' = audit_logs \cup {e} /\ nextHash' = nextHash + 1
      /\ trail' = trail \cup {<<e.key, e.life, e.ver>>}
      /\ chainFault' = fault /\ mu' = NoHandler /\ Goto(h, "idle", NoFrame)
      /\ UNCHANGED <<feature_flags, change_requests, api_keys, audit_anchors, nextLife, ops,
                     lost, landed, falseAlarm>>
  BY DEF Insert, Return
<1>2. mu = h
  BY DEF TypeInv, Positions, At, Holding
<1>3. fault \in BOOLEAN
  OBVIOUS
<1>4. clock' \in Nat /\ clock <= clock' /\ nextHash' \in Nat
  <2>1. PICK d \in ClockSteps : clock' = clock + d
    BY <1>1 DEF ReadClock
  <2>2. d \in Nat /\ clock \in Nat /\ nextHash \in Nat
    BY InputAssumption DEF TypeInv, RowTypes
  <2>3. nextHash' = nextHash + 1
    BY <1>1
  <2> QED BY SMT, <2>1, <2>2, <2>3
<1>5. /\ f.key \in Subjects /\ f.proj \in Projects
      /\ f.write.life \in Nat /\ f.write.ver \in Nat /\ nextHash \in Nat
  BY FrameTypes DEF TypeInv, RowTypes
<1> HIDE DEF fault
<1>6. e \in Entries /\ e.hash = nextHash /\ e.ts = clock'
  <2> HIDE DEF f
  <2> QED BY <1>4, <1>5 DEF Entries
<1>7. trail' \subseteq Subjects \X Nat \X Nat
  BY SMT, <1>1, <1>5 DEF TypeInv, RowTypes
<1> HIDE DEF e
<1>8. Numbered(audit_logs', nextHash', clock')
  <2>1. Numbered(audit_logs, nextHash, clock) /\ clock' <= clock'
    BY SMT, <1>4 DEF TypeInv, RowTypes
  <2> QED BY <1>1, <1>4, <1>6, <2>1, EntryNumbered
<1>9. RowTypes'
  BY <1>1, <1>3, <1>4, <1>6, <1>7, <1>8 DEF TypeInv, RowTypes
<1>10. Positions' /\ OthersRest(h) /\ pc'[h] = "idle"
  BY <1>1, <1>2, DefaultTypes, GotoKeeps DEF TypeInv, Labels, Keyed, Holding
<1> QED BY <1>2, <1>9, <1>10 DEF TypeInv

\* Faults and Reset.
LEMMA ResetTypes ==
    ASSUME TypeInv, NEW h \in Handlers, Reset(h)
    PROVE  TypeInv' /\ OthersRest(h) /\ pc'[h] = "save"
<1> DEFINE w == [SeedFlag(0) EXCEPT !.ver = 1]
           f == [NoFrame EXCEPT !.key = SeedKey, !.write = w]
<1>1. /\ Begin(h) /\ mu = NoHandler /\ mu' = h /\ Goto(h, "save", f)
      /\ feature_flags' = NoFlags /\ change_requests' = [c \in CRIds |-> NoCR]
      /\ api_keys' = {} /\ audit_logs' = {} /\ landed' = [c \in CRIds |-> {}]
      /\ UNCHANGED <<audit_anchors, clock, nextHash, nextLife, faults, trail, lost,
                     chainFault, falseAlarm>>
  BY DEF Reset, Lock
<1>2. w \in Flags
  BY SeedFlagType
<1> HIDE DEF w
<1>3. f \in Frames /\ f.key \in Keys
  BY <1>2, DefaultTypes, SQLiteAssumption DEF Frames, Subjects
<1> HIDE DEF f
<1>4. Positions' /\ OthersRest(h) /\ pc'[h] = "save"
  BY <1>1, <1>3, GotoKeeps DEF TypeInv, Labels, Holding
<1>5. Numbered({}, nextHash, clock)
  BY DEF TypeInv, RowTypes, Numbered
<1>6. RowTypes'
  BY <1>1, <1>5, BeginType, DefaultTypes DEF TypeInv, RowTypes
<1> QED BY <1>4, <1>6 DEF TypeInv

LEMMA LostType ==
    ASSUME TypeInv, NEW h \in Handlers
    PROVE  Lost(h) \subseteq Keys \X Nat \X Nat
<1>1. frame[h].write.life \in Nat /\ frame[h].write.ver \in Nat
  BY FrameTypes
<1>2. CASE Lost(h) = {}
  BY <1>2
<1>3. CASE /\ frame[h].key \in Keys
           /\ Lost(h) = {<<frame[h].key, frame[h].write.life, frame[h].write.ver>>}
  BY SMT, <1>1, <1>3
<1> QED BY <1>2, <1>3 DEF Lost

LEMMA FailsTypes ==
    ASSUME TypeInv, NEW h \in Handlers, Fails(h)
    PROVE  /\ TypeInv' /\ OthersRest(h) /\ mu = h
           /\ UNCHANGED <<tables, nextLife, nextHash, clock, trail, landed, falseAlarm>>
           /\ \/ /\ pc[h] \in {"update", "delete", "audit"} /\ pc'[h] = "idle" /\ mu' = NoHandler
                 /\ lost' = IF pc[h] = "audit" THEN lost \cup Lost(h) ELSE lost
                 /\ chainFault' = chainFault
              \/ /\ pc[h] = "mark" /\ pc'[h] = "audit" /\ frame'[h] = frame[h] /\ mu' = mu
                 /\ lost' = lost /\ chainFault' = chainFault
              \/ /\ pc[h] = "anchor" /\ pc'[h] = "record" /\ mu' = NoHandler
                 /\ lost' = lost /\ chainFault' = TRUE
<1>1. /\ faults' = faults + 1
      /\ UNCHANGED <<tables, clock, nextHash, nextLife, ops, trail, landed, falseAlarm>>
      /\ lost' = IF pc[h] = "audit" THEN lost \cup Lost(h) ELSE lost
      /\ chainFault' = (chainFault \/ pc[h] = "anchor")
  BY DEF Fails
<1>2. \/ pc[h] \in {"update", "delete", "audit"} /\ mu' = NoHandler /\ Goto(h, "idle", NoFrame)
      \/ pc[h] = "mark" /\ Goto(h, "audit", frame[h]) /\ mu' = mu
      \/ pc[h] = "anchor" /\ mu' = NoHandler /\ Goto(h, "record", frame[h])
  BY DEF Fails, Return
<1>3. mu = h
  BY <1>2 DEF TypeInv, Positions, At, Holding
<1>4. chainFault \in BOOLEAN
  BY DEF TypeInv, RowTypes
<1>5. chainFault' = IF pc[h] = "anchor" THEN TRUE ELSE chainFault
  BY <1>1, <1>4
<1>6. chainFault' \in BOOLEAN
  BY <1>4, <1>5
<1>7. lost' \subseteq Keys \X Nat \X Nat
  BY <1>1, LostType DEF TypeInv, RowTypes
<1>8. RowTypes'
  BY <1>1, <1>6, <1>7, SuccessorType DEF TypeInv, RowTypes, tables, Numbered
<1>9. frame[h] \in Frames /\ NoFrame \in Frames
  BY FrameTypes, DefaultTypes
<1>10. CASE pc[h] \in {"update", "delete", "audit"} /\ mu' = NoHandler /\ Goto(h, "idle", NoFrame)
  <2>1. Positions' /\ OthersRest(h) /\ pc'[h] = "idle"
    BY <1>3, <1>9, <1>10, GotoKeeps DEF TypeInv, Labels, Keyed, Holding
  <2> QED BY <1>1, <1>3, <1>5, <1>8, <1>10, <2>1 DEF TypeInv
<1>11. CASE pc[h] = "mark" /\ Goto(h, "audit", frame[h]) /\ mu' = mu
  <2>1. Positions' /\ OthersRest(h) /\ pc'[h] = "audit" /\ frame'[h] = frame[h]
    BY <1>3, <1>9, <1>11, GotoKeeps DEF TypeInv, Labels, Keyed, Holding
  <2> QED BY <1>1, <1>3, <1>5, <1>8, <1>11, <2>1 DEF TypeInv
<1>12. CASE pc[h] = "anchor" /\ mu' = NoHandler /\ Goto(h, "record", frame[h])
  <2>1. Positions' /\ OthersRest(h) /\ pc'[h] = "record"
    BY <1>3, <1>9, <1>12, GotoKeeps DEF TypeInv, Labels, Keyed, Holding
  <2> QED BY <1>1, <1>3, <1>5, <1>8, <1>12, <2>1 DEF TypeInv
<1> QED BY <1>2, <1>10, <1>11, <1>12

LEMMA CrashTypes ==
    ASSUME TypeInv, Crash
    PROVE  TypeInv' /\ \A g \in Handlers : pc'[g] = "idle" /\ frame'[g] = NoFrame
<1> DEFINE empty == \A k \in Keys : ProjectOf[k] = DefaultProject => ~Exists(feature_flags[k])
           fault == \/ chainFault
                    \/ \E h \in Handlers : pc[h] = "anchor"
                    \/ empty /\ \E d \in Own(DefaultProject) : Text(d.ts) > Text(clock)
           e == SeedEntry(nextHash, HeadHash(DefaultProject), clock, nextLife)
<1>1. /\ faults' = faults + 1 /\ mu' = NoHandler
      /\ pc' = [h \in Handlers |-> "idle"] /\ frame' = [h \in Handlers |-> NoFrame]
      /\ lost' = lost \cup UNION { Lost(h) : h \in Handlers }
      /\ chainFault' = fault
      /\ UNCHANGED <<change_requests, api_keys, audit_anchors, clock, ops, landed, falseAlarm>>
  BY DEF Crash
<1>2. \/ /\ feature_flags' = [feature_flags EXCEPT ![SeedKey] = SeedFlag(nextLife)]
         /\ audit_logs' = audit_logs \cup {e}
         /\ nextLife' = nextLife + 1 /\ nextHash' = nextHash + 1
         /\ trail' = trail \cup {<<SeedKey, nextLife, 2>>}
      \/ UNCHANGED <<feature_flags, audit_logs, nextLife, nextHash, trail>>
  BY DEF Crash
<1>3. fault \in BOOLEAN
  OBVIOUS
<1> HIDE DEF fault
<1>4. lost' \subseteq Keys \X Nat \X Nat
  BY <1>1, LostType DEF TypeInv, RowTypes
<1>5. nextLife \in Nat /\ nextHash \in Nat /\ clock \in Nat /\ faults' \in Nat
  BY <1>1, SuccessorType DEF TypeInv, RowTypes
<1>6. SeedKey \in Keys /\ SeedKey \in Subjects /\ SeedFlag(nextLife) \in Flags
  BY <1>5, SeedFlagType, SQLiteAssumption DEF Subjects
<1>7. HeadHash(DefaultProject) \in Nat /\ DefaultProject \in Projects
  BY HeadHashType, DefaultTypes
<1>8. e \in Entries /\ e.hash = nextHash /\ e.ts = clock
  BY <1>5, <1>6, <1>7 DEF SeedEntry, Entries
<1> HIDE DEF e
<1>9. RowTypes'
  <2>1. CASE UNCHANGED <<feature_flags, audit_logs, nextLife, nextHash, trail>>
    BY <1>1, <1>3, <1>4, <1>5, <2>1 DEF TypeInv, RowTypes, Numbered
  <2>2. CASE /\ feature_flags' = [feature_flags EXCEPT ![SeedKey] = SeedFlag(nextLife)]
             /\ audit_logs' = audit_logs \cup {e}
             /\ nextLife' = nextLife + 1 /\ nextHash' = nextHash + 1
             /\ trail' = trail \cup {<<SeedKey, nextLife, 2>>}
    <3>1. feature_flags' \in Snapshots
      BY <1>6, <2>2 DEF TypeInv, RowTypes, Snapshots
    <3>2. trail' \subseteq Subjects \X Nat \X Nat
      BY SMT, <1>5, <1>6, <2>2 DEF TypeInv, RowTypes
    <3>3. Numbered(audit_logs', nextHash', clock')
      <4>1. Numbered(audit_logs, nextHash, clock) /\ clock <= clock /\ clock' = clock
        BY SMT, <1>1, <1>5 DEF TypeInv, RowTypes
      <4> QED BY <1>5, <1>8, <2>2, <4>1, EntryNumbered
    <3>4. nextLife' \in Nat /\ nextHash' \in Nat
      BY <1>5, <2>2, SuccessorType
    <3> QED
      BY <1>1, <1>3, <1>4, <1>5, <1>8, <2>2, <3>1, <3>2, <3>3, <3>4 DEF TypeInv, RowTypes
  <2> QED BY <1>2, <2>1, <2>2
<1>10. Positions'
  BY <1>1, DefaultTypes DEF Positions, At, Labels, Keyed, Holding
<1> QED BY <1>1, <1>9, <1>10 DEF TypeInv

-----------------------------------------------------------------------------
LEMMA InitTypes == Init => TypeInv
<1> SUFFICES ASSUME Init PROVE TypeInv
  OBVIOUS
<1>1. SeedKey \in Keys /\ SeedKey \in Subjects /\ SeedFlag(1) \in Flags
  BY SeedFlagType, SQLiteAssumption DEF Subjects
<1> DEFINE e == SeedEntry(1, GENESIS, 1, 1)
<1>2. e \in Entries /\ e.hash = 1 /\ e.ts = 1
  BY <1>1, DefaultTypes DEF SeedEntry, Entries, GENESIS
<1> HIDE DEF e
<1>3. /\ feature_flags = [NoFlags EXCEPT ![SeedKey] = SeedFlag(1)]
      /\ change_requests = [c \in CRIds |-> NoCR] /\ api_keys = {} /\ audit_logs = {e}
      /\ audit_anchors = [p \in Projects |-> GENESIS] /\ mu = NoHandler
      /\ pc = [h \in Handlers |-> "idle"] /\ frame = [h \in Handlers |-> NoFrame]
      /\ clock = 1 /\ nextHash = 2 /\ nextLife = 2 /\ ops = 0 /\ faults = 0
      /\ trail = {<<SeedKey, 1, 2>>} /\ lost = {} /\ landed = [c \in CRIds |-> {}]
      /\ chainFault = FALSE /\ falseAlarm = FALSE
  BY DEF Init, e
<1>4. Numbered(audit_logs, nextHash, clock)
  BY SMT, <1>2, <1>3 DEF Numbered
<1>5. feature_flags \in Snapshots
  BY <1>1, <1>3, DefaultTypes DEF Snapshots
<1>6. RowTypes
  <2>1. trail \subseteq Subjects \X Nat \X Nat
    BY SMT, <1>1, <1>3
  <2>2. /\ change_requests \in [CRIds -> ChangeRequests]
        /\ audit_anchors \in [Projects -> Nat]
        /\ landed \in [CRIds -> SUBSET Nat]
    BY <1>3, DefaultTypes DEF GENESIS
  <2> QED BY <1>2, <1>3, <1>4, <1>5, <2>1, <2>2 DEF RowTypes
<1>7. Positions
  BY <1>3, DefaultTypes DEF Positions, At, Labels, Keyed, Holding
<1> QED BY <1>6, <1>7 DEF TypeInv

\* What the callers of SaveFlag pass on.
LEMMA SaveArguments ==
    ASSUME TypeInv, NEW h \in Handlers
    PROVE  /\ pc[h] \in {"save", "edit", "promote"} => frame[h].key \in Keys
           /\ frame[h].write.envs \in [Envs -> Configs] /\ frame[h].write.ver \in Nat
           /\ frame[h].read.ver \in Nat
           /\ [Envs -> Payloads] \subseteq [Envs -> Configs] /\ PayloadVers \subseteq Nat
           /\ \A from, to \in Envs :
                [frame[h].read.envs EXCEPT ![to] = frame[h].read.envs[from]] \in [Envs -> Configs]
<1>1. pc[h] \in {"save", "edit", "promote"} => frame[h].key \in Keys
  BY DEF TypeInv, Positions, At, Keyed
<1>2. /\ frame[h].write.envs \in [Envs -> Configs] /\ frame[h].write.ver \in Nat
      /\ frame[h].read.envs \in [Envs -> Configs] /\ frame[h].read.ver \in Nat
  BY FrameTypes
<1>3. [Envs -> Payloads] \subseteq [Envs -> Configs]
  BY PayloadType
<1> DEFINE es == frame[h].read.envs
<1>4. ASSUME NEW from \in Envs, NEW to \in Envs
      PROVE  [es EXCEPT ![to] = es[from]] \in [Envs -> Configs]
  <2> HIDE DEF es
  <2> QED BY <1>2 DEF es
<1> QED BY <1>1, <1>2, <1>3, <1>4, InputAssumption

LEMMA HeadFailTypes ==
    ASSUME TypeInv, NEW h \in Handlers, HeadQueryFails(h)
    PROVE  TypeInv'
<1>1. frame[h].proj \in Projects
  BY FrameTypes
<1>2. audit_anchors[frame[h].proj] \in Nat /\ GENESIS \in Nat /\ faults \in Nat
  BY <1>1 DEF TypeInv, RowTypes, GENESIS
<1>3. PICK prev \in {audit_anchors[frame[h].proj], GENESIS} : Insert(h, prev)
  BY DEF HeadQueryFails
<1>4. pc[h] = "audit" /\ faults' \in Nat /\ prev \in Nat
  BY <1>2, SuccessorType DEF HeadQueryFails
<1> QED BY <1>3, <1>4, InsertTypes

\* One step per action.
LEMMA TypeStep ==
    ASSUME TypeInv, [Next]_vars
    PROVE  TypeInv'
<1>1. CASE UNCHANGED vars
  BY <1>1 DEF TypeInv, RowTypes, Positions, At, Numbered, vars, tables, counters, history
<1>2. ASSUME NEW h \in Handlers, FlagRequest(h) PROVE TypeInv'
  <2>1. PICK k \in Keys :
            \/ \E envs \in [Envs -> Payloads], v \in PayloadVers : WriteFlag(h, k, envs, v)
            \/ \E env \in Envs, b \in BOOLEAN : ToggleFlagByProject(h, k, env, b)
            \/ \E env \in Envs, pct \in Pcts : UpdateRolloutByProject(h, k, env, pct)
            \/ DeleteFlagByProject(h, k)
            \/ UpdateRead(h, k) \/ PromoteRead(h, k) \/ SubmitRead(h, k)
    BY <1>2 DEF FlagRequest
  <2>2. NoRequest \in RequestIds
    BY DEF RequestIds
  <2>3. ASSUME NEW env \in Envs, NEW b \in BOOLEAN, ToggleFlagByProject(h, k, env, b) PROVE TypeInv'
    BY <2>2, <2>3, WriteTypes, ReadLockedTypes DEF ToggleFlagByProject
  <2>4. ASSUME NEW env \in Envs, NEW pct \in Pcts, UpdateRolloutByProject(h, k, env, pct) PROVE TypeInv'
    BY <2>2, <2>4, WriteTypes, ReadLockedTypes DEF UpdateRolloutByProject
  <2>5. CASE DeleteFlagByProject(h, k)
    <3>1. feature_flags[k] \in Flags
      BY DEF TypeInv, RowTypes, Snapshots
    <3> QED BY <2>2, <2>5, <3>1, ReadLockedTypes DEF DeleteFlagByProject
  <2>6. CASE UpdateRead(h, k) \/ PromoteRead(h, k) \/ SubmitRead(h, k)
    BY <2>6, ReadFlagTypes DEF UpdateRead, PromoteRead, SubmitRead
  <2> QED BY <2>1, <2>3, <2>4, <2>5, <2>6, WriteFlagTypes
<1>3. ASSUME NEW h \in Handlers, OtherRequest(h) PROVE TypeInv'
  <2>1. ASSUME NEW c \in CRIds, ApplyChangeRequest(h, c) PROVE TypeInv'
    <3>1. c \in RequestIds /\ change_requests[c].key \in Keys /\ change_requests[c].env \in Envs
      BY DEF RequestIds, TypeInv, RowTypes, ChangeRequests
    <3> QED BY <2>1, <3>1, WriteTypes, ReadLockedTypes DEF ApplyChangeRequest
  <2> QED BY <1>3, <2>1, RevokeTypes, PurgeTypes, PurgeNothingTypes, VerifyRowsTypes, ResetTypes
          DEF OtherRequest
<1>4. ASSUME NEW h \in Handlers, Continue(h) PROVE TypeInv'
  <2>1. ASSUME NEW envs \in [Envs -> Payloads], NEW v \in PayloadVers, UpdateSave(h, envs, v)
        PROVE  TypeInv'
    BY <2>1, SaveArguments, SaveFlagTypes DEF UpdateSave
  <2>2. ASSUME NEW from \in Envs, NEW to \in Envs, PromoteSave(h, from, to)
        PROVE  TypeInv'
    BY <2>2, SaveArguments, SaveFlagTypes DEF PromoteSave
  <2>3. CASE SavePayload(h)
    BY <2>3, SaveArguments, SaveFlagTypes DEF SavePayload
  <2>4. CASE insertAuditLog(h)
    BY <2>4, FrameTypes, HeadHashType, InsertTypes DEF insertAuditLog, TypeInv, RowTypes
  <2> QED BY <1>4, <2>1, <2>2, <2>3, <2>4, CreateTypes, UpdateRowTypes, DeleteRowTypes,
             MarkAppliedTypes, PurgeAnchorTypes, AppendTypes, VerifyTypes DEF Continue
<1>5. ASSUME NEW h \in Handlers, HeadQueryFails(h) PROVE TypeInv'
  BY <1>5, HeadFailTypes
<1> QED BY <1>1, <1>2, <1>3, <1>4, <1>5, FailsTypes, ReviewTypes, CrashTypes DEF Next

-----------------------------------------------------------------------------
(* Flags and change requests.                                              *)

\* What s.mu keeps true for its holder, and what a submission has read: the
\* row about to be written is the one that was read, and a proposal about to be
\* written is approved for the version of that row.
FreshAt(h) ==
    LET f == frame[h]
        cr == change_requests[f.cr]
    IN  /\ pc[h] \in {"update", "delete"} => feature_flags[f.key] = f.read /\ Exists(f.read)
        /\ pc[h] = "update" /\ f.cr # NoRequest =>
                cr.status = "APPROVED" /\ cr.key = f.key /\ cr.base = f.read.ver
        /\ pc[h] = "mark" => cr.status # "NONE"
        /\ pc[h] = "submit" => Exists(f.read)

FreshInv == \A h \in Handlers : FreshAt(h)

\* Lives are handed out in order, a request has a base version, and a flag a
\* proposal was written to has left that version behind for good.
LandInv ==
    /\ \A k \in Keys : Exists(feature_flags[k]) => feature_flags[k].life < nextLife
    /\ \A c \in CRIds :
        LET cr == change_requests[c]
            f == feature_flags[cr.key]
        IN  /\ cr.status # "NONE" => cr.base > 0
            /\ landed[c] # {} => cr.status # "NONE"
            /\ \A l \in landed[c] :
                    l < nextLife /\ (Exists(f) /\ f.life = l => f.ver > cr.base)

\* A version is recorded, or its entry was lost, or its writer is about to
\* record it.
RecordedInv ==
    \A k \in Keys :
        LET f == feature_flags[k]
        IN  Exists(f) =>
                \/ <<k, f.life, f.ver>> \in trail \cup lost
                \/ \E h \in Handlers :
                    /\ pc[h] \in {"mark", "audit"} /\ frame[h].key = k
                    /\ frame[h].write.life = f.life /\ frame[h].write.ver = f.ver

RowInv == FreshInv /\ LandInv /\ RecordedInv

-----------------------------------------------------------------------------
\* The other handlers stay, and keep what they remember of flags and requests.
OthersKeep(h) ==
    \A g \in Handlers \ {h} :
        /\ pc'[g] = pc[g]
        /\ frame'[g].key = frame[g].key /\ frame'[g].cr = frame[g].cr
        /\ frame'[g].read = frame[g].read /\ frame'[g].write = frame[g].write

LEMMA RestKeeps ==
    ASSUME NEW h \in Handlers, OthersRest(h)
    PROVE  OthersKeep(h)
BY DEF OthersRest, OthersKeep

\* The version a handler is about to record.
Pending(h) == <<frame[h].key, frame[h].write.life, frame[h].write.ver>>

\* Handlers other than h are fresh after a step of h that leaves flags and
\* requests alone, or that h takes with the lock free or its own.
LEMMA OthersFresh ==
    ASSUME TypeInv, FreshInv, NEW h \in Handlers, OthersKeep(h),
           \/ UNCHANGED <<feature_flags, change_requests>>
           \/ mu = NoHandler
           \/ mu = h,
           FreshAt(h)'
    PROVE  FreshInv'
<1> SUFFICES ASSUME NEW g \in Handlers, g # h PROVE FreshAt(g)'
  BY DEF FreshInv
<1>1. FreshAt(g) /\ At(g)
  BY DEF FreshInv, TypeInv, Positions
<1>2. /\ pc'[g] = pc[g]
      /\ frame'[g].key = frame[g].key /\ frame'[g].cr = frame[g].cr
      /\ frame'[g].read = frame[g].read
  BY DEF OthersKeep
<1>3. CASE UNCHANGED <<feature_flags, change_requests>>
  BY <1>1, <1>2, <1>3 DEF FreshAt
<1>4. CASE mu = NoHandler \/ mu = h
  <2>1. mu # g
    BY <1>4, SQLiteAssumption
  <2>2. pc[g] \notin {"update", "delete", "mark"}
    BY <1>1, <2>1 DEF At, Holding
  <2> QED BY <1>1, <1>2, <2>2 DEF FreshAt
<1> QED BY <1>3, <1>4

\* Steps that write no flag and no request: nothing is known less, and what h
\* was about to record is recorded, lost or still to be recorded.
Quiet(h) ==
    /\ UNCHANGED <<feature_flags, change_requests, landed, nextLife>>
    /\ trail \subseteq trail' /\ lost \subseteq lost'
    /\ OthersKeep(h)
    /\ FreshAt(h)'
    /\ pc[h] \in {"mark", "audit"} /\ frame[h].key \in Keys =>
            \/ Pending(h) \in trail' \cup lost'
            \/ pc'[h] \in {"mark", "audit"} /\ frame'[h] = frame[h]

LEMMA QuietKeeps ==
    ASSUME TypeInv, RowInv, NEW h \in Handlers, Quiet(h)
    PROVE  RowInv'
<1>1. FreshInv'
  BY OthersFresh DEF Quiet, RowInv
<1>2. LandInv'
  BY DEF Quiet, RowInv, LandInv
<1>3. RecordedInv'
  <2> SUFFICES ASSUME NEW k \in Keys, Exists(feature_flags[k])
               PROVE  \/ <<k, feature_flags[k].life, feature_flags[k].ver>> \in trail' \cup lost'
                      \/ \E g \in Handlers :
                            /\ pc'[g] \in {"mark", "audit"} /\ frame'[g].key = k
                            /\ frame'[g].write.life = feature_flags[k].life
                            /\ frame'[g].write.ver = feature_flags[k].ver
    BY DEF RecordedInv, Quiet
  <2>1. CASE <<k, feature_flags[k].life, feature_flags[k].ver>> \in trail \cup lost
    BY <2>1 DEF Quiet
  <2>2. ASSUME NEW g \in Handlers, pc[g] \in {"mark", "audit"}, frame[g].key = k,
               frame[g].write.life = feature_flags[k].life,
               frame[g].write.ver = feature_flags[k].ver
        PROVE  \/ <<k, feature_flags[k].life, feature_flags[k].ver>> \in trail' \cup lost'
               \/ /\ pc'[g] \in {"mark", "audit"} /\ frame'[g].key = k
                  /\ frame'[g].write.life = feature_flags[k].life
                  /\ frame'[g].write.ver = feature_flags[k].ver
    <3>1. CASE g = h
      BY <2>2, <3>1 DEF Quiet, Pending
    <3>2. CASE g # h
      BY <2>2, <3>2 DEF Quiet, OthersKeep
    <3> QED BY <3>1, <3>2
  <2> QED BY <2>1, <2>2 DEF RowInv, RecordedInv
<1> QED BY <1>1, <1>2, <1>3 DEF RowInv

\* A handler that goes to a statement neither FreshAt nor RecordedInv is about.
QuietMove(h) ==
    /\ OthersKeep(h)
    /\ pc[h] \notin {"mark", "audit"} /\ pc'[h] \notin {"update", "delete", "mark", "submit"}
    /\ UNCHANGED <<feature_flags, change_requests, landed, nextLife, trail, lost>>

LEMMA QuietMoveKeeps ==
    ASSUME TypeInv, RowInv, NEW h \in Handlers, QuietMove(h)
    PROVE  RowInv'
<1>1. Quiet(h)
  BY DEF Quiet, QuietMove, FreshAt
<1> QED BY <1>1, QuietKeeps

LEMMA QuietActions ==
    ASSUME TypeInv, RowInv, NEW h \in Handlers,
           \/ \E k \in Keys, envs \in [Envs -> Payloads], v \in PayloadVers : WriteFlag(h, k, envs, v)
           \/ \E k \in Keys : UpdateRead(h, k) \/ PromoteRead(h, k)
           \/ \E a \in APIKeys : RevokeAPIKeyByProject(h, a)
           \/ \E p \in Projects, before \in 0..clock :
                PurgeAuditLogs(h, p, before) \/ PurgeNothing(h, p, before)
           \/ \E p \in Projects : VerifyRows(h, p)
           \/ PurgeAnchor(h) \/ AppendAuditLog(h) \/ VerifyAuditLogIntegrity(h)
    PROVE  RowInv'
<1>1. ASSUME NEW k \in Keys, NEW envs \in [Envs -> Payloads], NEW v \in PayloadVers,
             WriteFlag(h, k, envs, v)
      PROVE  QuietMove(h)
  BY <1>1, WriteFlagTypes, RestKeeps DEF QuietMove, WriteFlag, Begin, tables, history
<1>2. ASSUME NEW k \in Keys, UpdateRead(h, k) \/ PromoteRead(h, k) PROVE QuietMove(h)
  BY <1>2, ReadFlagTypes, RestKeeps
     DEF QuietMove, UpdateRead, PromoteRead, ReadFlag, Begin, tables, history
<1>3. ASSUME NEW a \in APIKeys, RevokeAPIKeyByProject(h, a) PROVE QuietMove(h)
  BY <1>3, RevokeTypes, RestKeeps DEF QuietMove, RevokeAPIKeyByProject, Begin, history
<1>4. ASSUME NEW p \in Projects, NEW before \in 0..clock, PurgeNothing(h, p, before)
      PROVE  QuietMove(h)
  BY <1>4, PurgeNothingTypes, RestKeeps DEF QuietMove, PurgeNothing, Begin, tables, history
<1>5. ASSUME NEW p \in Projects, NEW before \in 0..clock, PurgeAuditLogs(h, p, before)
      PROVE  QuietMove(h)
  <2>1. OthersKeep(h) /\ pc'[h] = "anchor"
    BY <1>5, PurgeTypes DEF OthersKeep
  <2> QED BY <1>5, <2>1 DEF QuietMove, PurgeAuditLogs, Begin, history
<1>6. ASSUME NEW p \in Projects, VerifyRows(h, p) PROVE QuietMove(h)
  BY <1>6, VerifyRowsTypes, RestKeeps DEF QuietMove, VerifyRows, Begin, tables, history
<1>7. CASE PurgeAnchor(h)
  <2>1. QuietMove(h)
    BY <1>7, PurgeAnchorTypes, RestKeeps DEF QuietMove, PurgeAnchor, counters, history
  <2> QED BY <2>1, QuietMoveKeeps
<1>8. CASE AppendAuditLog(h)
  <2>1. QuietMove(h)
    BY <1>8, AppendTypes, RestKeeps DEF QuietMove, AppendAuditLog, tables, counters, history
  <2> QED BY <2>1, QuietMoveKeeps
<1>9. CASE VerifyAuditLogIntegrity(h)
  <2>1. QuietMove(h)
    BY <1>9, VerifyTypes, RestKeeps DEF QuietMove, VerifyAuditLogIntegrity, tables, counters
  <2> QED BY <2>1, QuietMoveKeeps
<1> QED BY <1>1, <1>2, <1>3, <1>4, <1>5, <1>6, <1>7, <1>8, <1>9, QuietMoveKeeps

LEMMA SubmitReadRows ==
    ASSUME TypeInv, RowInv, NEW h \in Handlers, NEW k \in Keys, SubmitRead(h, k)
    PROVE  RowInv'
<1>1. /\ OthersRest(h) /\ pc'[h] = "submit" /\ frame'[h].read = feature_flags[k]
      /\ pc[h] = "idle" /\ Exists(feature_flags[k])
      /\ UNCHANGED <<feature_flags, change_requests, landed, nextLife, trail, lost>>
  BY ReadFlagTypes DEF SubmitRead, ReadFlag, Begin, tables, history
<1>2. FreshAt(h)'
  BY <1>1 DEF FreshAt
<1>3. Quiet(h)
  BY <1>1, <1>2, RestKeeps DEF Quiet
<1> QED BY <1>3, QuietKeeps

LEMMA ReadLockedRows ==
    ASSUME TypeInv, RowInv, NEW h \in Handlers, NEW k \in Keys, NEW w \in Flags,
           NEW c \in RequestIds, NEW label \in {"update", "delete"},
           ReadLocked(h, k, w, c, label),
           c # NoRequest => /\ change_requests[c].status = "APPROVED"
                     /\ change_requests[c].key = k
                     /\ change_requests[c].base = feature_flags[k].ver
    PROVE  RowInv'
<1>1. /\ OthersRest(h) /\ pc'[h] = label /\ frame'[h].key = k
      /\ frame'[h].read = feature_flags[k] /\ frame'[h].cr = c
  BY SMT, ReadLockedTypes
<1>2. /\ pc[h] = "idle" /\ Exists(feature_flags[k])
      /\ UNCHANGED <<feature_flags, change_requests, landed, nextLife, trail, lost>>
  BY DEF ReadLocked, Begin, tables, history
<1>3. FreshAt(h)'
  <2>1. feature_flags'[frame'[h].key] = frame'[h].read /\ Exists(frame'[h].read)
    BY <1>1, <1>2
  <2>2. ASSUME frame'[h].cr # NoRequest
        PROVE  /\ change_requests'[frame'[h].cr].status = "APPROVED"
               /\ change_requests'[frame'[h].cr].key = frame'[h].key
               /\ change_requests'[frame'[h].cr].base = frame'[h].read.ver
    BY <1>1, <1>2, <2>2
  <2> QED BY <1>1, <2>1, <2>2 DEF FreshAt
<1>4. Quiet(h)
  BY <1>1, <1>2, <1>3, RestKeeps DEF Quiet
<1> QED BY <1>4, QuietKeeps

LEMMA LockedRequestRows ==
    ASSUME TypeInv, RowInv, NEW h \in Handlers,
           \/ \E k \in Keys, env \in Envs, b \in BOOLEAN : ToggleFlagByProject(h, k, env, b)
           \/ \E k \in Keys, env \in Envs, pct \in Pcts : UpdateRolloutByProject(h, k, env, pct)
           \/ \E k \in Keys : DeleteFlagByProject(h, k)
           \/ \E c \in CRIds : ApplyChangeRequest(h, c)
    PROVE  RowInv'
<1>1. NoRequest \in RequestIds /\ CRIds \subseteq RequestIds
  BY DEF RequestIds
<1>2. ASSUME NEW k \in Keys, NEW env \in Envs, NEW b \in BOOLEAN, ToggleFlagByProject(h, k, env, b)
      PROVE  RowInv'
  BY <1>1, <1>2, WriteTypes, ReadLockedRows DEF ToggleFlagByProject
<1>3. ASSUME NEW k \in Keys, NEW env \in Envs, NEW pct \in Pcts, UpdateRolloutByProject(h, k, env, pct)
      PROVE  RowInv'
  BY <1>1, <1>3, WriteTypes, ReadLockedRows DEF UpdateRolloutByProject
<1>4. ASSUME NEW k \in Keys, DeleteFlagByProject(h, k) PROVE RowInv'
  <2>1. feature_flags[k] \in Flags
    BY DEF TypeInv, RowTypes, Snapshots
  <2> QED BY <1>1, <1>4, <2>1, ReadLockedRows DEF DeleteFlagByProject
<1>5. ASSUME NEW c \in CRIds, ApplyChangeRequest(h, c) PROVE RowInv'
  <2> DEFINE k == change_requests[c].key
             w == WithConfig(feature_flags[k], change_requests[c].env, change_requests[c].proposed)
  <2>1. k \in Keys /\ change_requests[c].env \in Envs /\ change_requests[c].base \in Nat
    BY DEF TypeInv, RowTypes, ChangeRequests
  <2>2. w \in Flags
    BY <2>1, WriteTypes
  <2>3. MayApply(change_requests[c], feature_flags[k]) /\ ReadLocked(h, k, w, c, "update")
    BY <1>5 DEF ApplyChangeRequest
  <2>4. change_requests[c].status = "APPROVED" /\ change_requests[c].base = feature_flags[k].ver
    BY <2>3 DEF MayApply, RowInv, LandInv
  <2> HIDE DEF w
  <2> QED BY <1>1, <2>1, <2>2, <2>3, <2>4, ReadLockedRows
<1> QED BY <1>2, <1>3, <1>4, <1>5

\* The end of an audit statement records or loses what was pending.
LEMMA InsertRows ==
    ASSUME TypeInv, RowInv, NEW h \in Handlers, pc[h] = "audit", NEW prev \in Nat,
           Insert(h, prev), faults' \in Nat
    PROVE  RowInv'
<1>1. OthersRest(h) /\ pc'[h] = "idle"
  BY InsertTypes
<1>2. /\ UNCHANGED <<feature_flags, change_requests, landed, nextLife, lost>>
      /\ trail' = trail \cup {Pending(h)}
  BY DEF Insert, Pending
<1>3. FreshAt(h)'
  BY <1>1 DEF FreshAt
<1>4. Quiet(h)
  BY <1>1, <1>2, <1>3, RestKeeps DEF Quiet
<1> QED BY <1>4, QuietKeeps

LEMMA InsertActionsRows ==
    ASSUME TypeInv, RowInv, NEW h \in Handlers, insertAuditLog(h) \/ HeadQueryFails(h)
    PROVE  RowInv'
<1>1. frame[h].proj \in Projects /\ faults \in Nat
  BY FrameTypes DEF TypeInv, RowTypes
<1>2. HeadHash(frame[h].proj) \in Nat /\ audit_anchors[frame[h].proj] \in Nat /\ GENESIS \in Nat
  BY <1>1, HeadHashType DEF TypeInv, RowTypes, GENESIS
<1>3. PICK prev \in Nat : pc[h] = "audit" /\ Insert(h, prev) /\ faults' \in Nat
  BY <1>1, <1>2, SuccessorType DEF insertAuditLog, HeadQueryFails
<1> QED BY <1>3, InsertRows

LEMMA FailsRows ==
    ASSUME TypeInv, RowInv, NEW h \in Handlers, Fails(h)
    PROVE  RowInv'
<1>1. /\ OthersRest(h) /\ UNCHANGED <<feature_flags, change_requests, landed, nextLife, trail>>
      /\ pc'[h] \in {"idle", "audit", "record"}
      /\ pc[h] = "mark" => pc'[h] = "audit" /\ frame'[h] = frame[h] /\ lost' = lost
      /\ pc[h] = "audit" => lost' = lost \cup Lost(h)
      /\ lost \subseteq lost'
  BY FailsTypes DEF tables
<1>2. pc[h] = "audit" /\ frame[h].key \in Keys => Lost(h) = {Pending(h)}
  BY DEF Lost, Pending
<1>3. FreshAt(h)'
  BY <1>1 DEF FreshAt
<1>4. Quiet(h)
  BY <1>1, <1>2, <1>3, RestKeeps DEF Quiet
<1> QED BY <1>4, QuietKeeps

-----------------------------------------------------------------------------
\* A writer replaces the row of one key: it is about to record what it wrote.
LEMMA RecordedWrite ==
    ASSUME RecordedInv, TypeInv, NEW h \in Handlers, OthersKeep(h), pc[h] \notin {"mark", "audit"},
           trail \subseteq trail', lost \subseteq lost', NEW k \in Keys, NEW f,
           feature_flags' = [feature_flags EXCEPT ![k] = f],
           Exists(f) => /\ pc'[h] \in {"mark", "audit"} /\ frame'[h].key = k
                        /\ frame'[h].write = f
    PROVE  RecordedInv'
<1>1. feature_flags'[k] = f /\ \A j \in Keys \ {k} : feature_flags'[j] = feature_flags[j]
  BY DEF TypeInv, RowTypes, Snapshots
<1> SUFFICES ASSUME NEW j \in Keys, Exists(feature_flags'[j])
             PROVE  \/ <<j, feature_flags'[j].life, feature_flags'[j].ver>> \in trail' \cup lost'
                    \/ \E g \in Handlers :
                            /\ pc'[g] \in {"mark", "audit"} /\ frame'[g].key = j
                            /\ frame'[g].write.life = feature_flags'[j].life
                            /\ frame'[g].write.ver = feature_flags'[j].ver
  BY DEF RecordedInv
<1>2. CASE j = k
  BY <1>1, <1>2
<1>3. CASE j # k
  <2>1. feature_flags'[j] = feature_flags[j]
    BY <1>1, <1>3
  <2>2. CASE <<j, feature_flags[j].life, feature_flags[j].ver>> \in trail \cup lost
    BY <2>1, <2>2
  <2>3. ASSUME NEW g \in Handlers, pc[g] \in {"mark", "audit"}, frame[g].key = j,
               frame[g].write.life = feature_flags[j].life,
               frame[g].write.ver = feature_flags[j].ver
        PROVE  /\ pc'[g] \in {"mark", "audit"} /\ frame'[g].key = j
               /\ frame'[g].write.life = feature_flags'[j].life
               /\ frame'[g].write.ver = feature_flags'[j].ver
    <3>1. g # h
      BY <2>3
    <3> QED BY <2>1, <2>3, <3>1 DEF OthersKeep
  <2> QED BY SMT, <2>1, <2>2, <2>3 DEF RecordedInv
<1> QED BY <1>2, <1>3

\* The row of one key is gone, new, or of a later version.
LEMMA LandWrite ==
    ASSUME LandInv, TypeInv, NEW k \in Keys, NEW f \in Flags,
           feature_flags' = [feature_flags EXCEPT ![k] = f],
           nextLife' \in Nat, nextLife <= nextLife',
           Exists(f) =>
                /\ f.life < nextLife'
                /\ \/ f.life = nextLife
                   \/ /\ Exists(feature_flags[k]) /\ f.life = feature_flags[k].life
                      /\ feature_flags[k].ver <= f.ver,
           UNCHANGED <<change_requests, landed>>
    PROVE  LandInv'
<1>1. feature_flags'[k] = f /\ \A j \in Keys \ {k} : feature_flags'[j] = feature_flags[j]
  BY DEF TypeInv, RowTypes, Snapshots
<1>2. \A j \in Keys : feature_flags[j].life \in Nat /\ feature_flags[j].ver \in Nat
  BY DEF TypeInv, RowTypes, Snapshots, Flags
<1>3. f.life \in Nat /\ f.ver \in Nat /\ nextLife \in Nat
  BY DEF TypeInv, RowTypes, Flags
<1>4. \A c \in CRIds : change_requests[c].key \in Keys /\ change_requests[c].base \in Nat
                       /\ landed[c] \subseteq Nat
  BY DEF TypeInv, RowTypes, ChangeRequests
<1>5. \A j \in Keys : Exists(feature_flags'[j]) => feature_flags'[j].life < nextLife'
  BY SMT, <1>1, <1>2, <1>3 DEF LandInv
<1>6. ASSUME NEW c \in CRIds, NEW l \in landed[c]
      PROVE  LET g == feature_flags'[change_requests[c].key]
             IN  l < nextLife' /\ (Exists(g) /\ g.life = l => g.ver > change_requests[c].base)
  <2> DEFINE j == change_requests[c].key
  <2>1. /\ l \in Nat /\ j \in Keys /\ change_requests[c].base \in Nat /\ l < nextLife
        /\ Exists(feature_flags[j]) /\ feature_flags[j].life = l =>
                feature_flags[j].ver > change_requests[c].base
    BY <1>4 DEF LandInv
  <2>2. l < nextLife'
    BY SMT, <1>3, <2>1
  <2>3. CASE j # k
    BY <1>1, <2>1, <2>2, <2>3
  <2>4. CASE j = k
    BY SMT, <1>1, <1>2, <1>3, <2>1, <2>2, <2>4
  <2> QED BY <2>3, <2>4
<1> QED BY <1>5, <1>6 DEF LandInv

LEMMA SaveFlagRows ==
    ASSUME TypeInv, RowInv, NEW h \in Handlers, NEW k \in Keys, NEW envs \in [Envs -> Configs],
           NEW v \in Nat, SaveFlag(h, k, envs, v), UNCHANGED ops,
           pc[h] \notin {"mark", "audit"}
    PROVE  RowInv'
<1> DEFINE w == Upserted(k, envs, v)
<1>1. /\ OthersRest(h) /\ pc'[h] = "audit" /\ frame'[h].key = k /\ frame'[h].write = w
  BY SaveFlagTypes
<1>2. /\ mu = NoHandler
      /\ feature_flags' = [feature_flags EXCEPT ![k] = w]
      /\ nextLife' = IF Exists(feature_flags[k]) THEN nextLife ELSE nextLife + 1
      /\ UNCHANGED <<change_requests, landed, trail, lost>>
  BY DEF SaveFlag, Lock, history
<1>3. feature_flags[k] \in Flags /\ feature_flags[k].ver \in Nat /\ nextLife \in Nat
  BY DEF TypeInv, RowTypes, Snapshots, Flags
<1>4. w \in Flags
  BY UpsertedType DEF TypeInv
<1>5. \/ /\ Exists(feature_flags[k]) /\ nextLife' = nextLife
         /\ w.life = feature_flags[k].life /\ w.ver = feature_flags[k].ver + 1
      \/ nextLife' = nextLife + 1 /\ w.life = nextLife
  <2>1. CASE Exists(feature_flags[k])
    BY <1>2, <1>3, <2>1, CountedType DEF Upserted
  <2>2. CASE ~Exists(feature_flags[k])
    BY <1>2, <2>2 DEF Upserted
  <2> QED BY <2>1, <2>2
<1> HIDE DEF w
<1>6. FreshInv'
  <2>1. FreshAt(h)'
    BY <1>1 DEF FreshAt
  <2> QED BY <1>1, <1>2, <2>1, RestKeeps, OthersFresh DEF RowInv
<1>7. LandInv'
  <2>1. Exists(feature_flags[k]) => feature_flags[k].life < nextLife
    BY DEF RowInv, LandInv
  <2>2. /\ nextLife' \in Nat /\ nextLife <= nextLife' /\ w.life < nextLife'
        /\ \/ w.life = nextLife
           \/ /\ Exists(feature_flags[k]) /\ w.life = feature_flags[k].life
              /\ feature_flags[k].ver <= w.ver
    BY SMT, <1>3, <1>5, <2>1
  <2> QED BY <1>2, <1>4, <2>2, LandWrite DEF RowInv
<1>8. RecordedInv'
  BY <1>1, <1>2, RestKeeps, RecordedWrite DEF RowInv
<1> QED BY <1>6, <1>7, <1>8 DEF RowInv

\* The callers of SaveFlag.
LEMMA SaveRows ==
    ASSUME TypeInv, RowInv, NEW h \in Handlers,
           \/ \E envs \in [Envs -> Payloads], v \in PayloadVers : UpdateSave(h, envs, v)
           \/ \E from, to \in Envs : PromoteSave(h, from, to)
           \/ SavePayload(h)
    PROVE  RowInv'
<1>1. PICK k \in Keys, envs \in [Envs -> Configs], v \in Nat :
        SaveFlag(h, k, envs, v) /\ UNCHANGED ops /\ pc[h] \in {"edit", "promote", "save"}
  BY SaveArguments DEF UpdateSave, PromoteSave, SavePayload
<1> QED BY <1>1, SaveFlagRows

\* The UPDATE: by FreshAt it finds the row that was read.
LEMMA UpdateRowEffect ==
    ASSUME TypeInv, RowInv, NEW h \in Handlers, UpdateRow(h)
    PROVE  LET f == frame[h]
               new == feature_flags'[f.key]
           IN  /\ f.key \in Keys /\ feature_flags[f.key] = f.read /\ Exists(f.read)
               /\ new \in Flags /\ new.life = f.read.life /\ new.ver = f.read.ver + 1
               /\ feature_flags' = [feature_flags EXCEPT ![f.key] = new]
               /\ landed' = IF f.cr = NoRequest THEN landed
                            ELSE [landed EXCEPT ![f.cr] = @ \cup {f.read.life}]
               /\ f.cr # NoRequest =>
                    /\ f.cr \in CRIds /\ change_requests[f.cr].status = "APPROVED"
                    /\ change_requests[f.cr].key = f.key
                    /\ change_requests[f.cr].base = f.read.ver
<1> DEFINE f == frame[h]
           row == feature_flags[f.key]
           new == [row EXCEPT !.ver = @ + 1, !.envs = f.write.envs]
<1>1. pc[h] = "update"
  BY DEF UpdateRow
<1>2. row = f.read /\ Exists(f.read) /\ FreshAt(h)
  BY <1>1 DEF RowInv, FreshInv, FreshAt
<1>3. f.key \in Keys /\ f.read \in Flags /\ f.write.envs \in [Envs -> Configs]
      /\ f.cr \in CRIds \cup {NoRequest}
  BY UpdateRowTypes, FrameTypes
<1>4. feature_flags' = [feature_flags EXCEPT ![f.key] = new]
  BY <1>2 DEF UpdateRow
<1>5. new \in Flags /\ new.life = f.read.life /\ new.ver = f.read.ver + 1
  BY <1>2, <1>3, CountedType
<1>6. feature_flags'[f.key] = new
  <2> HIDE DEF new
  <2> QED BY <1>3, <1>4 DEF TypeInv, RowTypes, Snapshots
<1>7. landed' = IF f.cr = NoRequest THEN landed ELSE [landed EXCEPT ![f.cr] = @ \cup {f.read.life}]
  BY DEF UpdateRow
<1>8. f.cr # NoRequest =>
        /\ f.cr \in CRIds /\ change_requests[f.cr].status = "APPROVED"
        /\ change_requests[f.cr].key = f.key /\ change_requests[f.cr].base = f.read.ver
  BY <1>1, <1>2, <1>3 DEF FreshAt
<1> HIDE DEF new
<1> QED BY <1>2, <1>3, <1>4, <1>5, <1>6, <1>7, <1>8

LEMMA UpdateRowRows ==
    ASSUME TypeInv, RowInv, NEW h \in Handlers, UpdateRow(h)
    PROVE  RowInv'
<1> DEFINE f == frame[h]
           k == f.key
           new == feature_flags'[k]
<1>1. /\ k \in Keys /\ feature_flags[k] = f.read /\ Exists(f.read)
      /\ new \in Flags /\ new.life = f.read.life /\ new.ver = f.read.ver + 1
      /\ feature_flags' = [feature_flags EXCEPT ![k] = new]
      /\ landed' = IF f.cr = NoRequest THEN landed
                   ELSE [landed EXCEPT ![f.cr] = @ \cup {f.read.life}]
      /\ f.cr # NoRequest =>
            /\ f.cr \in CRIds /\ change_requests[f.cr].status = "APPROVED"
            /\ change_requests[f.cr].key = k /\ change_requests[f.cr].base = f.read.ver
  BY UpdateRowEffect
<1>2. /\ OthersRest(h) /\ pc'[h] \in {"audit", "mark"} /\ frame'[h].key = k
      /\ frame'[h].write = new
      /\ pc'[h] = "mark" => f.cr # NoRequest /\ frame'[h].cr = f.cr
  BY UpdateRowTypes
<1>3. /\ pc[h] = "update" /\ UNCHANGED <<change_requests, trail, lost, nextLife>> /\ mu = h
  BY DEF UpdateRow, counters, TypeInv, Positions, At, Holding
<1>4. f.read.life \in Nat /\ f.read.ver \in Nat /\ nextLife \in Nat /\ f.read.life < nextLife
  BY <1>1, FrameTypes DEF RowInv, LandInv, TypeInv, RowTypes
<1> HIDE DEF new
<1>5. FreshInv'
  <2>1. FreshAt(h)'
    BY <1>1, <1>2, <1>3 DEF FreshAt
  <2> QED BY <1>2, <1>3, <2>1, RestKeeps, OthersFresh DEF RowInv
<1>6. RecordedInv'
  BY <1>1, <1>2, <1>3, RestKeeps, RecordedWrite DEF RowInv
<1>7. LandInv'
  <2>1. /\ feature_flags'[k] = new
        /\ \A j \in Keys \ {k} : feature_flags'[j] = feature_flags[j]
    BY <1>1 DEF new, TypeInv, RowTypes, Snapshots
  <2>2. \A j \in Keys : Exists(feature_flags'[j]) => feature_flags'[j].life < nextLife'
    BY <1>1, <1>3, <1>4, <2>1 DEF RowInv, LandInv
  <2>3. ASSUME NEW c \in CRIds
        PROVE  /\ landed'[c] # {} => change_requests[c].status # "NONE"
               /\ \A l \in landed'[c] :
                    LET g == feature_flags'[change_requests[c].key]
                    IN  /\ l < nextLife'
                        /\ Exists(g) /\ g.life = l => g.ver > change_requests[c].base
    <3> DEFINE j == change_requests[c].key
               b == change_requests[c].base
    <3>1. j \in Keys /\ b \in Nat /\ landed[c] \subseteq Nat
      BY DEF TypeInv, RowTypes, ChangeRequests
    <3>2. /\ landed[c] # {} => change_requests[c].status # "NONE"
          /\ \A l \in landed[c] :
                l < nextLife /\ (Exists(feature_flags[j]) /\ feature_flags[j].life = l =>
                                    feature_flags[j].ver > b)
      BY DEF RowInv, LandInv
    <3>3. ASSUME NEW l \in landed[c]
          PROVE  l < nextLife' /\ (Exists(feature_flags'[j]) /\ feature_flags'[j].life = l =>
                                        feature_flags'[j].ver > b)
      <4>1. CASE j # k
        BY <1>3, <2>1, <3>1, <3>2, <4>1
      <4>2. CASE j = k
        <5>1. new.life = l => f.read.ver > b
          BY <1>1, <3>2, <4>2
        <5> QED BY SMTT(30), <1>1, <1>3, <1>4, <2>1, <3>1, <3>2, <4>2, <5>1
      <4> QED BY <4>1, <4>2
    <3>4. CASE landed'[c] = landed[c]
      BY <3>2, <3>3, <3>4
    <3>5. CASE f.cr # NoRequest /\ c = f.cr
      <4>1. landed'[c] = landed[c] \cup {f.read.life}
        BY <1>1, <3>5 DEF TypeInv, RowTypes
      <4>2. j = k /\ b = f.read.ver /\ change_requests[c].status = "APPROVED"
        BY <1>1, <3>5
      <4>3. f.read.life < nextLife' /\ feature_flags'[j].ver > b
        BY SMTT(30), <1>1, <1>3, <1>4, <2>1, <4>2
      <4> QED BY <3>3, <4>1, <4>2, <4>3
    <3>6. landed'[c] = landed[c] \/ (f.cr # NoRequest /\ c = f.cr)
      BY <1>1 DEF TypeInv, RowTypes
    <3> QED BY <3>4, <3>5, <3>6
  <2> QED BY <1>3, <2>2, <2>3 DEF RowInv, LandInv
<1> QED BY <1>5, <1>6, <1>7 DEF RowInv

LEMMA DeleteRowRows ==
    ASSUME TypeInv, RowInv, NEW h \in Handlers, DeleteRow(h)
    PROVE  RowInv'
<1>1. /\ OthersRest(h) /\ frame[h].key \in Keys /\ mu = h /\ pc'[h] \in {"audit", "idle"}
  BY DeleteRowTypes
<1>2. /\ pc[h] = "delete" /\ UNCHANGED <<change_requests, landed, trail, lost, nextLife>>
      /\ \/ feature_flags' = [feature_flags EXCEPT ![frame[h].key] = NoFlag]
         \/ feature_flags' = feature_flags
  BY DEF DeleteRow, counters, history
<1>3. CASE feature_flags' = feature_flags
  <2>1. QuietMove(h)
    BY <1>1, <1>2, <1>3, RestKeeps DEF QuietMove
  <2> QED BY <2>1, QuietMoveKeeps
<1>4. CASE feature_flags' = [feature_flags EXCEPT ![frame[h].key] = NoFlag]
  <2>1. ~Exists(NoFlag) /\ NoFlag \in Flags /\ nextLife \in Nat /\ nextLife <= nextLife
    BY SMT, DefaultTypes DEF Exists, NoFlag, TypeInv, RowTypes
  <2>2. FreshInv'
    <3>1. FreshAt(h)'
      BY <1>1 DEF FreshAt
    <3> QED BY <1>1, <3>1, RestKeeps, OthersFresh DEF RowInv
  <2>3. LandInv'
    BY <1>1, <1>2, <1>4, <2>1, LandWrite DEF RowInv
  <2>4. RecordedInv'
    BY <1>1, <1>2, <1>4, <2>1, RestKeeps, RecordedWrite DEF RowInv
  <2> QED BY <2>2, <2>3, <2>4 DEF RowInv
<1> QED BY <1>2, <1>3, <1>4

-----------------------------------------------------------------------------
\* Steps that write a change request keep its flag and its base version, or
\* fill an unused ID.
RequestWritten ==
    /\ UNCHANGED <<feature_flags, landed, nextLife, trail, lost>>
    /\ \A c \in CRIds :
        LET old == change_requests[c]
            new == change_requests'[c]
        IN  \/ old.status = "NONE" /\ new.base > 0
            \/ new = old
            \/ /\ old.status # "NONE" /\ new.status # "NONE"
               /\ new.key = old.key /\ new.base = old.base

LEMMA LandRequest ==
    ASSUME LandInv, RequestWritten
    PROVE  LandInv'
<1> SUFFICES ASSUME NEW c \in CRIds
             PROVE  LET cr == change_requests'[c]
                        f == feature_flags[cr.key]
                    IN  /\ cr.status # "NONE" => cr.base > 0
                        /\ landed[c] # {} => cr.status # "NONE"
                        /\ \A l \in landed[c] :
                            l < nextLife /\ (Exists(f) /\ f.life = l => f.ver > cr.base)
  BY DEF LandInv, RequestWritten
<1>1. /\ change_requests[c].status # "NONE" => change_requests[c].base > 0
      /\ landed[c] # {} => change_requests[c].status # "NONE"
      /\ \A l \in landed[c] :
            /\ l < nextLife
            /\ Exists(feature_flags[change_requests[c].key])
                  /\ feature_flags[change_requests[c].key].life = l
                => feature_flags[change_requests[c].key].ver > change_requests[c].base
  BY DEF LandInv
<1>2. \/ change_requests[c].status = "NONE" /\ change_requests'[c].base > 0
      \/ change_requests'[c] = change_requests[c]
      \/ /\ change_requests[c].status # "NONE" /\ change_requests'[c].status # "NONE"
         /\ change_requests'[c].key = change_requests[c].key
         /\ change_requests'[c].base = change_requests[c].base
  BY DEF RequestWritten
<1> QED BY <1>1, <1>2

LEMMA MarkAppliedRows ==
    ASSUME TypeInv, RowInv, NEW h \in Handlers, MarkApplied(h)
    PROVE  RowInv'
<1> DEFINE c == frame[h].cr
<1>1. /\ OthersRest(h) /\ pc'[h] = "audit" /\ frame'[h] = frame[h]
      /\ pc[h] = "mark" /\ c \in CRIds
  BY MarkAppliedTypes
<1>2. /\ change_requests' = [change_requests EXCEPT ![c].status = "APPLIED"]
      /\ UNCHANGED <<feature_flags, landed, nextLife, trail, lost>>
  BY DEF MarkApplied, counters, history
<1>3. mu = h
  BY <1>1 DEF TypeInv, Positions, At, Holding
<1>4. FreshInv'
  <2>1. FreshAt(h)'
    BY <1>1 DEF FreshAt
  <2> QED BY <1>1, <1>3, <2>1, RestKeeps, OthersFresh DEF RowInv
<1>5. LandInv'
  <2>1. CASE change_requests[c].status # "NONE"
    <3>1. RequestWritten
      BY <1>1, <1>2, <2>1 DEF RequestWritten, TypeInv, RowTypes, ChangeRequests
    <3> QED BY <3>1, LandRequest DEF RowInv
  <2>2. change_requests[c].status # "NONE"
    BY <1>1 DEF RowInv, FreshInv, FreshAt
  <2> QED BY <2>1, <2>2
<1>6. RecordedInv'
  <2>1. \A g \in Handlers : pc[g] \in {"mark", "audit"} =>
            /\ pc'[g] \in {"mark", "audit"} /\ frame'[g].key = frame[g].key
            /\ frame'[g].write = frame[g].write
    BY <1>1 DEF OthersRest
  <2> QED BY SMT, <1>2, <2>1 DEF RowInv, RecordedInv
<1> QED BY <1>4, <1>5, <1>6 DEF RowInv

LEMMA CreateRows ==
    ASSUME TypeInv, RowInv, NEW h \in Handlers, NEW c \in CRIds, NEW env \in Envs,
           NEW proposed \in Payloads, NEW u \in Users,
           CreateChangeRequest(h, c, env, proposed, u)
    PROVE  RowInv'
<1> DEFINE cr == Submitted(frame[h].key, frame[h].read, env, proposed, u)
<1>1. OthersRest(h) /\ pc'[h] = "idle" /\ pc[h] = "submit" /\ mu = NoHandler
  BY CreateTypes DEF CreateChangeRequest
<1>2. /\ UNCHANGED <<feature_flags, landed, nextLife, trail, lost>>
      /\ \/ change_requests' = change_requests
         \/ /\ change_requests[c].status = "NONE"
            /\ change_requests' = [change_requests EXCEPT ![c] = cr]
  BY DEF CreateChangeRequest, counters, history
<1>3. cr.base > 0
  BY <1>1 DEF RowInv, FreshInv, FreshAt, Submitted, Exists
<1> HIDE DEF cr
<1>4. FreshInv'
  <2>1. FreshAt(h)'
    BY <1>1 DEF FreshAt
  <2> QED BY <1>1, <2>1, RestKeeps, OthersFresh DEF RowInv
<1>5. LandInv'
  <2>1. RequestWritten
    BY <1>2, <1>3 DEF RequestWritten, TypeInv, RowTypes
  <2> QED BY <2>1, LandRequest DEF RowInv
<1>6. RecordedInv'
  <2>1. \A g \in Handlers : pc[g] \in {"mark", "audit"} =>
            /\ pc'[g] \in {"mark", "audit"} /\ frame'[g].key = frame[g].key
            /\ frame'[g].write = frame[g].write
    BY <1>1 DEF OthersRest
  <2> QED BY SMT, <1>2, <2>1 DEF RowInv, RecordedInv
<1> QED BY <1>4, <1>5, <1>6 DEF RowInv

LEMMA ReviewRows ==
    ASSUME TypeInv, RowInv, NEW c \in CRIds, NEW u \in Users, NEW b \in BOOLEAN,
           ReviewChangeRequest(c, u, b)
    PROVE  RowInv'
<1> DEFINE cr == change_requests[c]
           new == Reviewed(cr, u, b)
<1>1. /\ mu = NoHandler /\ UNCHANGED <<pc, frame, feature_flags, landed, nextLife, trail, lost>>
      /\ change_requests' = [change_requests EXCEPT ![c] = new]
      /\ cr.status = "PENDING"
  BY DEF ReviewChangeRequest, MayReview, history
<1>2. new.key = cr.key /\ new.base = cr.base /\ new.status # "NONE"
  <2>1. cr \in ChangeRequests
    BY DEF TypeInv, RowTypes
  <2> HIDE DEF cr
  <2> QED BY <2>1 DEF Reviewed, ChangeRequests
<1> HIDE DEF new
<1>3. FreshInv'
  <2> SUFFICES ASSUME NEW g \in Handlers PROVE FreshAt(g)'
    BY DEF FreshInv
  <2>1. FreshAt(g) /\ pc[g] \notin {"update", "delete", "mark"}
    BY <1>1, SQLiteAssumption DEF RowInv, FreshInv, TypeInv, Positions, At, Holding
  <2> QED BY <1>1, <2>1 DEF FreshAt
<1>4. LandInv'
  <2>1. RequestWritten
    BY <1>1, <1>2 DEF RequestWritten, TypeInv, RowTypes
  <2> QED BY <2>1, LandRequest DEF RowInv
<1>5. RecordedInv'
  BY <1>1 DEF RowInv, RecordedInv
<1> QED BY <1>3, <1>4, <1>5 DEF RowInv

-----------------------------------------------------------------------------
LEMMA ResetRows ==
    ASSUME TypeInv, RowInv, NEW h \in Handlers, Reset(h)
    PROVE  RowInv'
<1>1. OthersRest(h) /\ pc'[h] = "save"
  BY ResetTypes
<1>2. /\ mu = NoHandler /\ feature_flags' = NoFlags
      /\ change_requests' = [c \in CRIds |-> NoCR] /\ landed' = [c \in CRIds |-> {}]
  BY DEF Reset, Lock
<1>3. \A k \in Keys : ~Exists(feature_flags'[k])
  BY SMT, <1>2 DEF NoFlags, NoFlag, Exists
<1>4. FreshInv'
  <2>1. FreshAt(h)'
    BY <1>1 DEF FreshAt
  <2> QED BY <1>1, <1>2, <2>1, RestKeeps, OthersFresh DEF RowInv
<1>5. LandInv'
  BY <1>2, <1>3 DEF LandInv, NoCR
<1>6. RecordedInv'
  BY <1>3 DEF RecordedInv
<1> QED BY <1>4, <1>5, <1>6 DEF RowInv

\* What the dead handlers were about to record is lost.
LEMMA CrashRows ==
    ASSUME TypeInv, RowInv, Crash
    PROVE  RowInv'
<1>1. /\ \A g \in Handlers : pc'[g] = "idle"
      /\ lost' = lost \cup UNION { Lost(h) : h \in Handlers }
      /\ UNCHANGED <<change_requests, landed>>
  BY CrashTypes DEF Crash
<1>2. \/ /\ feature_flags' = [feature_flags EXCEPT ![SeedKey] = SeedFlag(nextLife)]
         /\ nextLife' = nextLife + 1
         /\ trail' = trail \cup {<<SeedKey, nextLife, 2>>}
      \/ UNCHANGED <<feature_flags, nextLife, trail>>
  BY DEF Crash
<1>3. nextLife \in Nat /\ SeedKey \in Keys
  BY SQLiteAssumption DEF TypeInv, RowTypes
<1>4. SeedFlag(nextLife) \in Flags /\ SeedFlag(nextLife).life = nextLife /\ SeedFlag(nextLife).ver = 2
  BY <1>3, SeedFlagType DEF SeedFlag
<1>5. FreshInv'
  BY <1>1 DEF FreshInv, FreshAt
<1>6. LandInv'
  <2>1. CASE UNCHANGED <<feature_flags, nextLife, trail>>
    BY <1>1, <2>1 DEF RowInv, LandInv
  <2>2. CASE /\ feature_flags' = [feature_flags EXCEPT ![SeedKey] = SeedFlag(nextLife)]
             /\ nextLife' = nextLife + 1
    <3>1. nextLife' \in Nat /\ nextLife <= nextLife' /\ SeedFlag(nextLife).life < nextLife'
      BY SMT, <1>3, <1>4, <2>2
    <3> QED BY <1>1, <1>3, <1>4, <2>2, <3>1, LandWrite DEF RowInv
  <2> QED BY <1>2, <2>1, <2>2
<1>7. RecordedInv'
  <2> SUFFICES ASSUME NEW k \in Keys, Exists(feature_flags'[k])
               PROVE  <<k, feature_flags'[k].life, feature_flags'[k].ver>> \in trail' \cup lost'
    BY DEF RecordedInv
  <2>1. trail \subseteq trail' /\ lost \subseteq lost'
    BY <1>1, <1>2
  <2>2. ASSUME Exists(feature_flags[k])
        PROVE  <<k, feature_flags[k].life, feature_flags[k].ver>> \in trail' \cup lost'
    <3>1. CASE <<k, feature_flags[k].life, feature_flags[k].ver>> \in trail \cup lost
      BY <2>1, <3>1
    <3>2. ASSUME NEW h \in Handlers, pc[h] \in {"mark", "audit"}, frame[h].key = k,
                 frame[h].write.life = feature_flags[k].life,
                 frame[h].write.ver = feature_flags[k].ver
          PROVE  <<k, feature_flags[k].life, feature_flags[k].ver>> \in trail' \cup lost'
      <4>1. <<k, feature_flags[k].life, feature_flags[k].ver>> \in Lost(h)
        BY <3>2 DEF Lost
      <4> QED BY <1>1, <4>1
    <3> QED BY <2>2, <3>1, <3>2 DEF RowInv, RecordedInv
  <2>3. CASE feature_flags' = feature_flags
    BY <2>2, <2>3
  <2>4. CASE /\ feature_flags' = [feature_flags EXCEPT ![SeedKey] = SeedFlag(nextLife)]
             /\ trail' = trail \cup {<<SeedKey, nextLife, 2>>}
    <3>1. k = SeedKey => feature_flags'[k] = SeedFlag(nextLife)
      BY <1>3, <2>4 DEF TypeInv, RowTypes, Snapshots
    <3>2. k # SeedKey => feature_flags'[k] = feature_flags[k]
      BY <2>4 DEF TypeInv, RowTypes, Snapshots
    <3> QED BY SMT, <1>4, <2>2, <2>4, <3>1, <3>2
  <2> QED BY <1>2, <2>3, <2>4
<1> QED BY <1>5, <1>6, <1>7 DEF RowInv

-----------------------------------------------------------------------------
LEMMA InitRows == Init => RowInv
<1> SUFFICES ASSUME Init PROVE RowInv
  OBVIOUS
<1>1. SeedKey \in Keys
  BY SQLiteAssumption
<1>2. /\ feature_flags[SeedKey] = SeedFlag(1)
      /\ \A k \in Keys \ {SeedKey} : feature_flags[k] = NoFlag
  BY <1>1 DEF Init, NoFlags
<1>3. SeedFlag(1).life = 1 /\ SeedFlag(1).ver = 2 /\ ~Exists(NoFlag)
  BY SMT DEF SeedFlag, NoFlag, Exists
<1>4. FreshInv
  BY DEF Init, FreshInv, FreshAt
<1>5. LandInv
  BY SMT, <1>2, <1>3 DEF Init, LandInv, NoCR
<1>6. RecordedInv
  BY SMT, <1>2, <1>3 DEF Init, RecordedInv
<1> QED BY <1>4, <1>5, <1>6 DEF RowInv

LEMMA RowStep ==
    ASSUME TypeInv, RowInv, [Next]_vars
    PROVE  RowInv'
<1>1. CASE UNCHANGED vars
  BY <1>1 DEF RowInv, FreshInv, FreshAt, LandInv, RecordedInv, vars, tables, counters, history
<1>2. ASSUME NEW h \in Handlers, FlagRequest(h) PROVE RowInv'
  BY <1>2, QuietActions, LockedRequestRows, SubmitReadRows DEF FlagRequest
<1>3. ASSUME NEW h \in Handlers, OtherRequest(h) PROVE RowInv'
  BY <1>3, QuietActions, LockedRequestRows, ResetRows DEF OtherRequest
<1>4. ASSUME NEW h \in Handlers, Continue(h) PROVE RowInv'
  BY <1>4, SaveRows, CreateRows, UpdateRowRows, DeleteRowRows, MarkAppliedRows, QuietActions,
     InsertActionsRows DEF Continue
<1> QED
  BY <1>1, <1>2, <1>3, <1>4, FailsRows, InsertActionsRows, ReviewRows, CrashRows DEF Next

\* Rows, positions and local variables keep their types (TypeOK), through every
\* statement, failure and restart; in particular s.mu is held by at most one
\* handler, the one between two of its statements.
THEOREM TypesKept == Spec => []TypeOK
<1>1. TypeInv => TypeOK
  BY DEF TypeInv, RowTypes, Positions, TypeOK
<1> QED BY <1>1, InitTypes, TypeStep, PTL DEF Spec

\* Both invariants hold throughout.
LEMMA RowsThroughout == Spec => [](TypeInv /\ RowInv)
BY InitTypes, InitRows, TypeStep, RowStep, PTL DEF Spec

\* s.mu makes read and write one: a toggle, a rollout, a deletion or an
\* application writes to the very row it has read (WritesAreFresh), whatever
\* the other handlers do in between and whichever statements fail.
THEOREM NoUpdateLost == Spec => []WritesAreFresh
<1>1. RowInv => WritesAreFresh
  BY DEF RowInv, FreshInv, FreshAt, WritesAreFresh
<1> QED BY <1>1, RowsThroughout, PTL

\* The audit log misses a version only when a failed or unexecuted statement
\* cost it its entry (OnlyFaultsLoseEntries).
THEOREM OnlyFaultsLose == Spec => []OnlyFaultsLoseEntries
<1>1. TypeInv /\ RowInv => OnlyFaultsLoseEntries
  <2> SUFFICES ASSUME TypeInv, RowInv, mu = NoHandler, NEW k \in Keys, Exists(feature_flags[k])
               PROVE  <<k, feature_flags[k].life, feature_flags[k].ver>> \in trail \cup lost
    BY DEF OnlyFaultsLoseEntries
  <2>1. \A h \in Handlers : pc[h] \notin {"mark", "audit"}
    BY SQLiteAssumption DEF TypeInv, Positions, At, Holding
  <2> QED BY <2>1 DEF RowInv, RecordedInv
<1> QED BY <1>1, RowsThroughout, PTL

\* A proposal is written to a flag at most once (LandsOnce), although the
\* statement that marks its request APPLIED may fail or never run.
THEOREM ProposalsLandOnce == Spec => LandsOnce
<1> DEFINE Once == \A h \in Handlers :
        UpdateRow(h) /\ frame[h].cr # NoRequest => frame[h].read.life \notin landed[frame[h].cr]
<1>1. ASSUME TypeInv, RowInv, [Next]_vars PROVE [Once]_vars
  <2> SUFFICES ASSUME NEW h \in Handlers, UpdateRow(h), frame[h].cr # NoRequest,
                      frame[h].read.life \in landed[frame[h].cr]
               PROVE  FALSE
    OBVIOUS
  <2> DEFINE f == frame[h]
             c == f.cr
  <2>1. /\ f.key \in Keys /\ feature_flags[f.key] = f.read /\ Exists(f.read)
        /\ c \in CRIds /\ change_requests[c].key = f.key /\ change_requests[c].base = f.read.ver
    BY <1>1, UpdateRowEffect
  <2>2. f.read.ver > change_requests[c].base
    BY <1>1, <2>1 DEF RowInv, LandInv
  <2>3. f.read.ver \in Nat
    BY <1>1, FrameTypes
  <2> QED BY SMT, <2>1, <2>2, <2>3
<1>2. [](TypeInv /\ RowInv) /\ [][Next]_vars => [][Once]_vars
  BY <1>1, PTL
<1> QED BY <1>2, RowsThroughout, PTL DEF Spec, LandsOnce

-----------------------------------------------------------------------------
(* The audit chain.                                                        *)

\* While a purge has deleted entries and not yet written the anchor, the chain
\* of its project continues the hash it is about to write; otherwise it
\* continues the anchor.  So do the rows of a calm verification: while a purge
\* is between its statements, none is calm.
ChainInv ==
    /\ ~falseAlarm
    /\ \A g, h \in Handlers : pc[g] = "anchor" /\ pc[h] = "verify" => ~frame[h].calm
    /\ ~chainFault =>
        /\ \A p \in Projects :
            (\A h \in Handlers : pc[h] = "anchor" => frame[h].proj # p) =>
                Valid(Own(p), audit_anchors[p])
        /\ \A h \in Handlers :
            /\ pc[h] = "anchor" => Valid(Own(frame[h].proj), frame[h].hash)
            /\ pc[h] = "verify" /\ frame[h].calm =>
                    Valid(frame[h].rows, audit_anchors[frame[h].proj])

-----------------------------------------------------------------------------
\* An entry that comes last in the order of texts and is linked to the head
\* extends a valid chain.
LEMMA ValidInsert ==
    ASSUME NEW S, NEW n, NEW t, Numbered(S, n, t), NEW a, Valid(S, a),
           NEW e, e.hash = n, e.ts \in Nat, \A d \in S : Text(d.ts) <= Text(e.ts),
           e.prev = IF S = {} THEN a ELSE Newest(S).hash
    PROVE  Valid(S \cup {e}, a)
<1>1. \A d \in S : d.hash \in Nat /\ d.hash < n /\ Text(d.ts) \in Int
  BY TextType DEF Numbered
<1>2. n \in Nat /\ Text(e.ts) \in Int
  BY TextType DEF Numbered
<1>3. \A d \in S : Before(d, e) /\ ~Before(e, d)
  BY SMT, <1>1, <1>2 DEF Before
<1>4. ~Before(e, e)
  BY SMT, <1>2 DEF Before
<1>5. ASSUME NEW d \in S \cup {e}
      PROVE  LET older == { c \in S \cup {e} : Before(c, d) }
             IN  IF older = {} THEN d.prev \in {a, GENESIS} ELSE d.prev = Newest(older).hash
  <2>1. CASE d = e
    <3>1. { c \in S \cup {e} : Before(c, d) } = S
      BY <1>3, <1>4, <2>1
    <3> QED BY <2>1, <3>1
  <2>2. CASE d \in S
    <3>1. { c \in S \cup {e} : Before(c, d) } = { c \in S : Before(c, d) }
      BY <1>3, <2>2
    <3> QED BY <2>2, <3>1 DEF Valid
  <2> QED BY <2>1, <2>2
<1> QED BY <1>5 DEF Valid

\* Removing the entries before some text leaves a chain that continues the
\* last entry removed.
LEMMA ValidPurge ==
    ASSUME NEW S, NEW n, NEW t, Numbered(S, n, t), NEW a, Valid(S, a), NEW x \in Int,
           NEW gone, gone = { e \in S : Text(e.ts) < x }, gone # {}
    PROVE  Valid(S \ gone, Newest(gone).hash)
<1>1. \A d \in S : Text(d.ts) \in Int /\ d.hash \in Nat
  BY TextType DEF Numbered
<1>2. \A c \in gone, d \in S \ gone : Before(c, d) /\ ~Before(d, c)
  <2> TAKE c \in gone, d \in S \ gone
  <2>1. Text(c.ts) < x /\ ~(Text(d.ts) < x) /\ Text(c.ts) \in Int /\ Text(d.ts) \in Int
    BY <1>1
  <2> QED BY SMT, <2>1 DEF Before
<1>3. ASSUME NEW e \in S \ gone
      PROVE  LET older == { d \in S \ gone : Before(d, e) }
             IN  IF older = {} THEN e.prev \in {Newest(gone).hash, GENESIS}
                 ELSE e.prev = Newest(older).hash
  <2> DEFINE all == { d \in S : Before(d, e) }
             older == { d \in S \ gone : Before(d, e) }
  <2>1. gone \subseteq all /\ all # {} /\ all = older \cup gone
    BY <1>2
  <2>2. e.prev = Newest(all).hash
    BY <2>1 DEF Valid
  <2>3. CASE older = {}
    BY <2>1, <2>2, <2>3
  <2>4. CASE older # {}
    <3>1. Numbered(older, n, t)
      BY DEF Numbered
    <3>2. Newest(older) \in older /\ \A d \in older : d = Newest(older) \/ Before(d, Newest(older))
      BY <2>4, <3>1, NewestExists
    <3>3. \A d \in all : d = Newest(older) \/ Before(d, Newest(older))
      BY <1>2, <2>1, <3>2
    <3>4. Numbered(all, n, t)
      BY DEF Numbered
    <3>5. Newest(all) \in all /\ \A d \in all : d = Newest(all) \/ Before(d, Newest(all))
      BY <2>1, <3>4, NewestExists
    <3>6. Newest(all) = Newest(older)
      <4>1. \/ Newest(all) = Newest(older)
            \/ Before(Newest(all), Newest(older)) /\ Before(Newest(older), Newest(all))
        BY <2>1, <3>2, <3>3, <3>5
      <4>2. \A c, d \in S : ~(Before(c, d) /\ Before(d, c))
        BY SMT, <1>1 DEF Before
      <4> QED BY <3>2, <3>5, <4>1, <4>2
    <3> QED BY <2>2, <2>4, <3>6
  <2> QED BY <2>3, <2>4
<1> QED BY <1>3 DEF Valid

-----------------------------------------------------------------------------
\* Steps that leave entries and anchors alone and take h to no purge or
\* verification.
ChainQuiet(h) ==
    /\ UNCHANGED <<audit_logs, audit_anchors, chainFault, falseAlarm>>
    /\ OthersRest(h)
    /\ pc[h] # "anchor" /\ pc'[h] \notin {"anchor", "verify"}

LEMMA ChainQuietKeeps ==
    ASSUME ChainInv, NEW h \in Handlers, ChainQuiet(h)
    PROVE  ChainInv'
<1>1. \A p : Own(p)' = Own(p)
  BY DEF ChainQuiet, Own
<1>2. \A g \in Handlers : pc'[g] \in {"anchor", "verify"} => pc'[g] = pc[g] /\ frame'[g] = frame[g]
  BY DEF ChainQuiet, OthersRest
<1>3. \A g \in Handlers : pc[g] = "anchor" => pc'[g] = "anchor" /\ frame'[g] = frame[g]
  BY DEF ChainQuiet, OthersRest
<1>4. \A g, f \in Handlers : pc'[g] = "anchor" /\ pc'[f] = "verify" => ~frame'[f].calm
  BY <1>2 DEF ChainInv
<1>5. ASSUME ~chainFault'
      PROVE  /\ \A p \in Projects :
                (\A g \in Handlers : pc'[g] = "anchor" => frame'[g].proj # p) =>
                    Valid(Own(p), audit_anchors[p])
             /\ \A g \in Handlers :
                /\ pc'[g] = "anchor" => Valid(Own(frame'[g].proj), frame'[g].hash)
                /\ pc'[g] = "verify" /\ frame'[g].calm =>
                        Valid(frame'[g].rows, audit_anchors[frame'[g].proj])
  <2>1. /\ \A p \in Projects :
            (\A g \in Handlers : pc[g] = "anchor" => frame[g].proj # p) =>
                Valid(Own(p), audit_anchors[p])
        /\ \A g \in Handlers :
            /\ pc[g] = "anchor" => Valid(Own(frame[g].proj), frame[g].hash)
            /\ pc[g] = "verify" /\ frame[g].calm =>
                    Valid(frame[g].rows, audit_anchors[frame[g].proj])
    BY <1>5 DEF ChainInv, ChainQuiet
  <2> QED BY <1>2, <1>3, <2>1
<1>6. ~falseAlarm' /\ audit_anchors' = audit_anchors
  BY DEF ChainInv, ChainQuiet
<1> QED BY <1>1, <1>4, <1>5, <1>6 DEF ChainInv

LEMMA ChainRequests ==
    ASSUME TypeInv, ChainInv, NEW h \in Handlers,
           \/ FlagRequest(h)
           \/ \E c \in CRIds : ApplyChangeRequest(h, c)
           \/ \E a \in APIKeys : RevokeAPIKeyByProject(h, a)
           \/ \E p \in Projects, before \in 0..clock : PurgeNothing(h, p, before)
    PROVE  ChainInv'
<1>1. NoRequest \in RequestIds /\ CRIds \subseteq RequestIds
  BY DEF RequestIds
<1>2. ASSUME NEW k \in Keys, NEW w \in Flags, NEW c \in RequestIds, NEW label \in {"update", "delete"},
             ReadLocked(h, k, w, c, label)
      PROVE  ChainQuiet(h)
  <2>1. OthersRest(h) /\ pc'[h] = label
    BY SMT, <1>2, ReadLockedTypes
  <2>2. pc[h] = "idle" /\ UNCHANGED <<tables, history>>
    BY <1>2 DEF ReadLocked, Begin
  <2> QED BY <2>1, <2>2 DEF ChainQuiet, tables, history
<1>3. ASSUME NEW k \in Keys, NEW env \in Envs, NEW b \in BOOLEAN, ToggleFlagByProject(h, k, env, b)
      PROVE  ChainQuiet(h)
  BY <1>1, <1>2, <1>3, WriteTypes DEF ToggleFlagByProject
<1>4. ASSUME NEW k \in Keys, NEW env \in Envs, NEW pct \in Pcts, UpdateRolloutByProject(h, k, env, pct)
      PROVE  ChainQuiet(h)
  BY <1>1, <1>2, <1>4, WriteTypes DEF UpdateRolloutByProject
<1>5. ASSUME NEW k \in Keys, DeleteFlagByProject(h, k) PROVE ChainQuiet(h)
  <2>1. feature_flags[k] \in Flags
    BY DEF TypeInv, RowTypes, Snapshots
  <2> QED BY <1>1, <1>2, <1>5, <2>1 DEF DeleteFlagByProject
<1>6. ASSUME NEW c \in CRIds, ApplyChangeRequest(h, c) PROVE ChainQuiet(h)
  <2>1. change_requests[c].key \in Keys /\ change_requests[c].env \in Envs
    BY DEF TypeInv, RowTypes, ChangeRequests
  <2> QED BY <1>1, <1>2, <1>6, <2>1, WriteTypes DEF ApplyChangeRequest
<1>7. ASSUME NEW k \in Keys, UpdateRead(h, k) \/ PromoteRead(h, k) \/ SubmitRead(h, k)
      PROVE  ChainQuiet(h)
  BY <1>7, ReadFlagTypes
     DEF ChainQuiet, UpdateRead, PromoteRead, SubmitRead, ReadFlag, Begin, tables, history
<1>8. ASSUME NEW k \in Keys, NEW envs \in [Envs -> Payloads], NEW v \in PayloadVers,
             WriteFlag(h, k, envs, v)
      PROVE  ChainQuiet(h)
  BY <1>8, WriteFlagTypes DEF ChainQuiet, WriteFlag, Begin, tables, history
<1>9. ASSUME NEW a \in APIKeys, RevokeAPIKeyByProject(h, a) PROVE ChainQuiet(h)
  BY <1>9, RevokeTypes DEF ChainQuiet, RevokeAPIKeyByProject, Begin, history
<1>10. ASSUME NEW p \in Projects, NEW before \in 0..clock, PurgeNothing(h, p, before)
       PROVE  ChainQuiet(h)
  BY <1>10, PurgeNothingTypes DEF ChainQuiet, PurgeNothing, Begin, tables, history
<1>11. ChainQuiet(h)
  BY <1>3, <1>4, <1>5, <1>6, <1>7, <1>8, <1>9, <1>10 DEF FlagRequest
<1> QED BY <1>11, ChainQuietKeeps

LEMMA ChainWriters ==
    ASSUME TypeInv, ChainInv, NEW h \in Handlers,
           \/ \E envs \in [Envs -> Payloads], v \in PayloadVers : UpdateSave(h, envs, v)
           \/ \E from, to \in Envs : PromoteSave(h, from, to)
           \/ \E c \in CRIds, env \in Envs, proposed \in Payloads, u \in Users :
                CreateChangeRequest(h, c, env, proposed, u)
           \/ SavePayload(h) \/ UpdateRow(h) \/ DeleteRow(h) \/ MarkApplied(h) \/ AppendAuditLog(h)
    PROVE  ChainInv'
<1>1. ASSUME NEW k \in Keys, NEW envs \in [Envs -> Configs], NEW v \in Nat,
             SaveFlag(h, k, envs, v), UNCHANGED ops, pc[h] \in {"edit", "promote", "save"}
      PROVE  ChainQuiet(h)
  BY <1>1, SaveFlagTypes DEF ChainQuiet, SaveFlag, history
<1>2. CASE \/ \E envs \in [Envs -> Payloads], v \in PayloadVers : UpdateSave(h, envs, v)
           \/ \E from, to \in Envs : PromoteSave(h, from, to)
           \/ SavePayload(h)
  <2>1. PICK k \in Keys, envs \in [Envs -> Configs], v \in Nat :
            SaveFlag(h, k, envs, v) /\ UNCHANGED ops /\ pc[h] \in {"edit", "promote", "save"}
    BY <1>2, SaveArguments DEF UpdateSave, PromoteSave, SavePayload
  <2> QED BY <1>1, <2>1, ChainQuietKeeps
<1>3. ASSUME NEW c \in CRIds, NEW env \in Envs, NEW proposed \in Payloads, NEW u \in Users,
             CreateChangeRequest(h, c, env, proposed, u)
      PROVE  ChainQuiet(h)
  BY <1>3, CreateTypes DEF ChainQuiet, CreateChangeRequest, history
<1>4. CASE UpdateRow(h)
  <2>1. ChainQuiet(h)
    BY <1>4, UpdateRowTypes DEF ChainQuiet, UpdateRow
  <2> QED BY <2>1, ChainQuietKeeps
<1>5. CASE DeleteRow(h)
  <2>1. ChainQuiet(h)
    BY <1>5, DeleteRowTypes DEF ChainQuiet, DeleteRow, history
  <2> QED BY <2>1, ChainQuietKeeps
<1>6. CASE MarkApplied(h)
  <2>1. ChainQuiet(h)
    BY <1>6, MarkAppliedTypes DEF ChainQuiet, MarkApplied, history
  <2> QED BY <2>1, ChainQuietKeeps
<1>7. CASE AppendAuditLog(h)
  <2>1. ChainQuiet(h)
    BY <1>7, AppendTypes DEF ChainQuiet, AppendAuditLog, tables, history
  <2> QED BY <2>1, ChainQuietKeeps
<1> QED BY <1>2, <1>3, <1>4, <1>5, <1>6, <1>7, ChainQuietKeeps

-----------------------------------------------------------------------------
LEMMA AnchoringHolds ==
    ASSUME TypeInv, NEW h \in Handlers, NEW g \in Handlers, g # h, mu \in {h, NoHandler}
    PROVE  pc[g] # "anchor"
BY SQLiteAssumption DEF TypeInv, Positions, At, Holding

LEMMA OwnNumbered ==
    ASSUME TypeInv, NEW p
    PROVE  Numbered(Own(p), nextHash, clock)
BY SubsetNumbered DEF TypeInv, RowTypes, Own

\* An entry linked to the head of its project's chain, when no purge is under way.
LEMMA ChainGrows ==
    ASSUME TypeInv, ChainInv, ~chainFault, \A g \in Handlers : pc[g] # "anchor",
           NEW e, e.proj \in Projects, e.hash = nextHash, e.ts \in Nat, e.prev = HeadHash(e.proj),
           \A d \in Own(e.proj) : Text(d.ts) <= Text(e.ts),
           audit_logs' = audit_logs \cup {e}
    PROVE  \A p \in Projects : Valid(Own(p)', audit_anchors[p])
<1>1. ASSUME NEW p \in Projects PROVE Valid(Own(p)', audit_anchors[p])
  <2>1. Valid(Own(p), audit_anchors[p])
    BY DEF ChainInv
  <2>2. CASE p = e.proj
    <3>1. Own(p)' = Own(p) \cup {e}
      BY <2>2 DEF Own
    <3>2. e.prev = IF Own(p) = {} THEN audit_anchors[p] ELSE Newest(Own(p)).hash
      BY <2>2 DEF HeadHash
    <3>3. \A d \in Own(p) : Text(d.ts) <= Text(e.ts)
      BY <2>2
    <3>4. Numbered(Own(p), nextHash, clock)
      BY OwnNumbered
    <3>5. Valid(Own(p) \cup {e}, audit_anchors[p])
      BY <2>1, <3>2, <3>3, <3>4, ValidInsert
    <3> QED BY <3>1, <3>5
  <2>3. CASE p # e.proj
    <3>1. Own(p)' = Own(p)
      BY <2>3 DEF Own
    <3> QED BY <2>1, <3>1
  <2> QED BY <2>2, <2>3
<1> QED BY <1>1

LEMMA TextOrder ==
    ASSUME NEW s \in Nat, NEW t \in Nat
    PROVE  Text(s) <= Text(t) \/ Text(s) > Text(t)
BY SMT, TextType

LEMMA ChainInsert ==
    ASSUME TypeInv, ChainInv, NEW h \in Handlers, pc[h] = "audit", NEW prev \in Nat,
           Insert(h, prev), faults' \in Nat
    PROVE  ChainInv'
<1>1. OthersRest(h) /\ pc'[h] = "idle" /\ mu = h
  BY InsertTypes
<1>2. \A g \in Handlers : pc[g] # "anchor"
  BY <1>1, AnchoringHolds
<1>3. \A g \in Handlers : pc'[g] # "anchor"
  BY <1>1, <1>2 DEF OthersRest
<1>4. \A g \in Handlers : pc'[g] = "verify" => pc[g] = "verify" /\ frame'[g] = frame[g]
  BY <1>1 DEF OthersRest
<1>5. audit_anchors' = audit_anchors /\ falseAlarm' = falseAlarm
  BY DEF Insert
<1>6. ASSUME ~chainFault'
      PROVE  ~chainFault /\ \A p \in Projects : Valid(Own(p)', audit_anchors[p])
  <2> DEFINE f == frame[h]
             e == [hash |-> nextHash, prev |-> prev, ts |-> clock', proj |-> f.proj,
                   key |-> f.key, life |-> f.write.life, ver |-> f.write.ver]
  <2>1. f.proj \in Projects /\ clock' \in Nat
    <3>1. frame[h] \in Frames
      BY DEF TypeInv, Positions
    <3>2. clock' \in Nat
      BY InsertTypes DEF TypeInv, RowTypes
    <3> QED BY <3>1, <3>2 DEF Frames
  <2>2. /\ ~chainFault /\ prev = HeadHash(f.proj)
        /\ ~\E d \in Own(f.proj) : Text(d.ts) > Text(clock')
        /\ audit_logs' = audit_logs \cup {e}
    BY <1>6 DEF Insert
  <2>3. \A d \in Own(f.proj) : d.ts \in Nat
    BY OwnNumbered DEF Numbered
  <2>4. \A d \in Own(f.proj) : Text(d.ts) <= Text(clock')
    BY <2>1, <2>2, <2>3, TextOrder
  <2>5. e.proj = f.proj /\ e.hash = nextHash /\ e.ts = clock' /\ e.prev = prev
    OBVIOUS
  <2> HIDE DEF e
  <2> QED BY <1>2, <2>1, <2>2, <2>4, <2>5, ChainGrows
<1>7. ~falseAlarm
  BY DEF ChainInv
<1>8. ASSUME ~chainFault', NEW g \in Handlers, pc'[g] = "verify", frame'[g].calm
      PROVE  Valid(frame'[g].rows, audit_anchors[frame'[g].proj])
  BY <1>4, <1>6, <1>8 DEF ChainInv
<1> QED BY <1>3, <1>5, <1>6, <1>7, <1>8 DEF ChainInv

LEMMA ChainPurge ==
    ASSUME TypeInv, ChainInv, NEW h \in Handlers, NEW p \in Projects, NEW before,
           Text(before) \in Int, PurgeAuditLogs(h, p, before)
    PROVE  ChainInv'
<1> DEFINE gone == Purgeable(p, before)
<1>1. /\ \A g \in Handlers \ {h} : pc'[g] = pc[g] /\ frame'[g].calm = FALSE
      /\ pc'[h] = "anchor" /\ frame'[h].proj = p
  BY PurgeTypes
<1>0. frame'[h].hash = Newest(gone).hash
  <2> DEFINE r == Recording("audit-logs", p, NoFlag)
             n == Newest(gone).hash
  <2>1. r \in Frames
    BY KeySubject, DefaultTypes, RecordingType
  <2>2. frame'[h] = [r EXCEPT !.hash = n]
    BY DEF PurgeAuditLogs
  <2> HIDE DEF r, n
  <2>3. frame'[h].hash = n
    BY <2>1, <2>2 DEF Frames
  <2> QED BY <2>3 DEF n
<1>2. /\ mu = NoHandler /\ gone # {} /\ audit_logs' = audit_logs \ gone
      /\ UNCHANGED <<audit_anchors, chainFault, falseAlarm>> /\ pc[h] = "idle"
  BY DEF PurgeAuditLogs, Lock, Begin, history
<1>3. \A g \in Handlers : pc[g] # "anchor"
  BY <1>2, AnchoringHolds
<1>4. \A g \in Handlers : pc'[g] = "verify" => ~frame'[g].calm
  BY <1>1
<1>5. \A g \in Handlers : pc'[g] = "anchor" => g = h
  BY <1>1, <1>3
<1>6. ASSUME ~chainFault
      PROVE  /\ Valid(Own(p)', Newest(gone).hash)
             /\ \A q \in Projects \ {p} : Valid(Own(q)', audit_anchors[q])
  <2>1. \A q \in Projects : Valid(Own(q), audit_anchors[q])
    BY <1>3, <1>6 DEF ChainInv
  <2>2. Own(p)' = Own(p) \ gone
    BY <1>2 DEF Own
  <2>3. gone = { e \in Own(p) : Text(e.ts) < Text(before) }
    BY DEF Purgeable
  <2>4. \A q \in Projects \ {p} : Own(q)' = Own(q)
    BY <1>2, <2>3 DEF Own
  <2>5. Numbered(Own(p), nextHash, clock)
    BY OwnNumbered
  <2> HIDE DEF gone
  <2>6. Valid(Own(p) \ gone, Newest(gone).hash)
    BY <1>2, <2>1, <2>3, <2>5, ValidPurge
  <2> QED BY <2>1, <2>2, <2>4, <2>6
<1>7. ~falseAlarm
  BY DEF ChainInv
<1> HIDE DEF gone
<1> QED BY <1>0, <1>1, <1>2, <1>4, <1>5, <1>6, <1>7 DEF ChainInv

LEMMA ChainAnchor ==
    ASSUME TypeInv, ChainInv, NEW h \in Handlers, PurgeAnchor(h)
    PROVE  ChainInv'
<1> DEFINE p == frame[h].proj
<1>1. OthersRest(h) /\ pc'[h] = "record" /\ mu = h
  BY PurgeAnchorTypes
<1>2. /\ pc[h] = "anchor" /\ UNCHANGED <<audit_logs, chainFault, falseAlarm>>
      /\ audit_anchors' = [audit_anchors EXCEPT ![p] = frame[h].hash]
  BY DEF PurgeAnchor, history
<1>3. \A g \in Handlers \ {h} : pc[g] # "anchor"
  BY <1>1, AnchoringHolds
<1>4. \A g \in Handlers : pc'[g] # "anchor" /\ (pc'[g] = "verify" => ~frame'[g].calm)
  BY <1>1, <1>2, <1>3 DEF OthersRest, ChainInv
<1>5. ASSUME ~chainFault, NEW q \in Projects PROVE Valid(Own(q), audit_anchors'[q])
  <2>1. audit_anchors \in [Projects -> Nat]
    BY DEF TypeInv, RowTypes
  <2>2. CASE q = p
    <3>1. audit_anchors'[q] = frame[h].hash
      BY <1>2, <2>1, <2>2
    <3> QED BY <1>2, <1>5, <2>2, <3>1 DEF ChainInv
  <2>3. CASE q # p
    <3>1. audit_anchors'[q] = audit_anchors[q]
      BY <1>2, <2>1, <2>3
    <3>2. \A g \in Handlers : pc[g] = "anchor" => frame[g].proj # q
      BY <1>3, <2>3
    <3> QED BY <1>5, <3>1, <3>2 DEF ChainInv
  <2> QED BY <2>2, <2>3
<1>6. \A q : Own(q)' = Own(q)
  BY <1>2 DEF Own
<1>7. ~falseAlarm
  BY DEF ChainInv
<1> QED BY <1>2, <1>4, <1>5, <1>6, <1>7 DEF ChainInv

LEMMA ChainVerify ==
    ASSUME TypeInv, ChainInv, NEW h \in Handlers, VerifyAuditLogIntegrity(h)
    PROVE  ChainInv'
<1>1. OthersRest(h) /\ pc'[h] = "idle"
  BY VerifyTypes
<1>2. /\ pc[h] = "verify" /\ UNCHANGED <<audit_logs, audit_anchors, chainFault>>
      /\ falseAlarm' = (\/ falseAlarm
                        \/ frame[h].calm /\ ~chainFault
                           /\ ~Valid(frame[h].rows, audit_anchors[frame[h].proj]))
  BY DEF VerifyAuditLogIntegrity, tables
<1>3. ~falseAlarm /\ falseAlarm' = FALSE
  BY <1>2 DEF ChainInv
<1>4. falseAlarm' = falseAlarm
  <2>1. falseAlarm \in BOOLEAN
    BY DEF TypeInv, RowTypes
  <2> QED BY <1>3, <2>1
<1>5. ChainQuiet(h)
  BY <1>1, <1>2, <1>4 DEF ChainQuiet
<1> QED BY <1>5, ChainQuietKeeps

LEMMA ChainVerifyRows ==
    ASSUME TypeInv, ChainInv, NEW h \in Handlers, NEW p \in Projects, VerifyRows(h, p)
    PROVE  ChainInv'
<1>1. /\ pc'[h] = "verify" /\ frame'[h].proj = p /\ frame'[h].rows = Own(p)
      /\ frame'[h].calm = \A g \in Handlers : pc[g] # "anchor"
      /\ OthersRest(h)
  BY VerifyRowsTypes
<1>2. /\ pc[h] = "idle"
      /\ UNCHANGED <<audit_logs, audit_anchors, chainFault, falseAlarm>>
  BY DEF VerifyRows, Begin, tables, history
<1>3. \A g \in Handlers : pc'[g] = "anchor" <=> pc[g] = "anchor"
  BY <1>1, <1>2 DEF OthersRest
<1>4. \A g \in Handlers : pc[g] = "anchor" => frame'[g] = frame[g]
  BY <1>1, <1>2 DEF OthersRest
<1>5. \A f, g \in Handlers : pc'[f] = "anchor" /\ pc'[g] = "verify" => ~frame'[g].calm
  <2> TAKE f, g \in Handlers
  <2>1. CASE g = h
    BY <1>1, <1>3, <2>1
  <2>2. CASE g # h
    BY <1>1, <1>3, <2>2 DEF OthersRest, ChainInv
  <2> QED BY <2>1, <2>2
<1>6. \A q : Own(q)' = Own(q)
  BY <1>2 DEF Own
<1>7. ASSUME ~chainFault, NEW g \in Handlers, pc'[g] = "verify", frame'[g].calm
      PROVE  Valid(frame'[g].rows, audit_anchors[frame'[g].proj])
  <2>1. CASE g = h
    BY <1>1, <1>7, <2>1 DEF ChainInv
  <2>2. CASE g # h
    BY <1>1, <1>7, <2>2 DEF OthersRest, ChainInv
  <2> QED BY <2>1, <2>2
<1>8. ASSUME ~chainFault
      PROVE  /\ \A q \in Projects :
                (\A g \in Handlers : pc'[g] = "anchor" => frame'[g].proj # q) =>
                    Valid(Own(q), audit_anchors[q])
             /\ \A g \in Handlers : pc'[g] = "anchor" => Valid(Own(frame'[g].proj), frame'[g].hash)
  BY <1>3, <1>4, <1>8 DEF ChainInv
<1>9. ~falseAlarm
  BY DEF ChainInv
<1> QED BY <1>2, <1>5, <1>6, <1>7, <1>8, <1>9 DEF ChainInv

LEMMA ChainReset ==
    ASSUME TypeInv, ChainInv, NEW h \in Handlers, Reset(h)
    PROVE  ChainInv'
<1>1. OthersRest(h) /\ pc'[h] = "save"
  BY ResetTypes
<1>2. /\ mu = NoHandler /\ audit_logs' = {}
      /\ UNCHANGED <<audit_anchors, chainFault, falseAlarm>> /\ pc[h] = "idle"
  BY DEF Reset, Lock, Begin
<1>3. \A g \in Handlers : pc[g] # "anchor"
  BY <1>2, AnchoringHolds
<1>4. \A g \in Handlers :
        /\ pc'[g] # "anchor"
        /\ pc'[g] = "verify" => pc[g] = "verify" /\ frame'[g] = frame[g]
  BY <1>1, <1>3 DEF OthersRest
<1>5. \A p, a : Valid(Own(p)', a)
  BY <1>2 DEF Own, Valid
<1>6. ASSUME ~chainFault, NEW g \in Handlers, pc'[g] = "verify", frame'[g].calm
      PROVE  Valid(frame'[g].rows, audit_anchors[frame'[g].proj])
  BY <1>4, <1>6 DEF ChainInv
<1>7. ~falseAlarm
  BY DEF ChainInv
<1> QED BY <1>2, <1>4, <1>5, <1>6, <1>7 DEF ChainInv

\* A purge that fails to write its anchor leaves a fault behind.
LEMMA ChainFails ==
    ASSUME TypeInv, ChainInv, NEW h \in Handlers, Fails(h)
    PROVE  ChainInv'
<1>1. OthersRest(h) /\ mu = h /\ UNCHANGED <<audit_logs, audit_anchors, falseAlarm>>
  BY FailsTypes DEF tables
<1>2. \/ pc[h] # "anchor" /\ pc'[h] \in {"idle", "audit"} /\ chainFault' = chainFault
      \/ pc[h] = "anchor" /\ pc'[h] = "record" /\ chainFault' = TRUE
  BY FailsTypes
<1>3. CASE pc[h] # "anchor"
  <2>1. ChainQuiet(h)
    BY <1>1, <1>2, <1>3 DEF ChainQuiet
  <2> QED BY <2>1, ChainQuietKeeps
<1>4. CASE pc[h] = "anchor"
  <2>1. chainFault' = TRUE /\ pc'[h] = "record"
    BY <1>2, <1>4
  <2>2. \A g \in Handlers \ {h} : pc[g] # "anchor"
    BY <1>1, AnchoringHolds
  <2>3. \A g \in Handlers : pc'[g] # "anchor"
    BY <1>1, <2>1, <2>2 DEF OthersRest
  <2> QED BY <1>1, <2>1, <2>3 DEF ChainInv
<1> QED BY <1>3, <1>4

LEMMA ChainCrash ==
    ASSUME TypeInv, ChainInv, Crash
    PROVE  ChainInv'
<1> DEFINE empty == \A k \in Keys : ProjectOf[k] = DefaultProject => ~Exists(feature_flags[k])
           e == SeedEntry(nextHash, HeadHash(DefaultProject), clock, nextLife)
<1>1. \A g \in Handlers : pc'[g] = "idle"
  BY CrashTypes
<1>2. /\ audit_anchors' = audit_anchors /\ falseAlarm' = falseAlarm
      /\ chainFault' = (\/ chainFault
                        \/ \E h \in Handlers : pc[h] = "anchor"
                        \/ empty /\ \E d \in Own(DefaultProject) : Text(d.ts) > Text(clock))
      /\ audit_logs' = IF empty THEN audit_logs \cup {e} ELSE audit_logs
  BY DEF Crash
<1>3. e.proj = DefaultProject /\ e.hash = nextHash /\ e.ts = clock /\ e.prev = HeadHash(DefaultProject)
  BY DEF SeedEntry
<1>4. DefaultProject \in Projects /\ clock \in Nat
  BY ProjectAssumption, SQLiteAssumption DEF TypeInv, RowTypes
<1> HIDE DEF e, empty
<1>5. ASSUME ~chainFault' PROVE \A p \in Projects : Valid(Own(p)', audit_anchors[p])
  <2>1. ~chainFault /\ \A g \in Handlers : pc[g] # "anchor"
    BY <1>2, <1>5
  <2>2. CASE empty
    <3>1. ~\E d \in Own(DefaultProject) : Text(d.ts) > Text(clock)
      BY <1>2, <1>5, <2>2
    <3>2. \A d \in Own(DefaultProject) : d.ts \in Nat
      BY OwnNumbered DEF Numbered
    <3>3. \A d \in Own(DefaultProject) : Text(d.ts) <= Text(clock)
      BY <1>4, <3>1, <3>2, TextOrder
    <3>4. audit_logs' = audit_logs \cup {e}
      BY <1>2, <2>2
    <3> QED BY <1>3, <1>4, <2>1, <3>3, <3>4, ChainGrows
  <2>3. CASE ~empty
    <3>1. \A p : Own(p)' = Own(p)
      BY <1>2, <2>3 DEF Own
    <3> QED BY <2>1, <3>1 DEF ChainInv
  <2> QED BY <2>2, <2>3
<1>6. ~falseAlarm
  BY DEF ChainInv
<1> QED BY <1>1, <1>2, <1>5, <1>6 DEF ChainInv

-----------------------------------------------------------------------------
LEMMA InitChain == Init => ChainInv
<1> SUFFICES ASSUME Init PROVE ChainInv
  OBVIOUS
<1>1. /\ audit_logs = {SeedEntry(1, GENESIS, 1, 1)} /\ ~falseAlarm
      /\ \A g \in Handlers : pc[g] = "idle"
      /\ \A p \in Projects : audit_anchors[p] = GENESIS
  BY DEF Init
<1>2. ASSUME NEW p \in Projects PROVE Valid(Own(p), GENESIS)
  <2>1. SeedEntry(1, GENESIS, 1, 1).hash = 1 /\ SeedEntry(1, GENESIS, 1, 1).prev = GENESIS
        /\ SeedEntry(1, GENESIS, 1, 1).ts = 1
    BY DEF SeedEntry
  <2>2. Text(1) \in Int
    BY TextType
  <2>3. \A d, e \in Own(p) : ~Before(d, e) /\ e.prev = GENESIS
    BY SMT, <1>1, <2>1, <2>2 DEF Own, Before
  <2> QED BY <2>3 DEF Valid
<1> QED BY <1>1, <1>2 DEF ChainInv

LEMMA ChainStep ==
    ASSUME TypeInv, ChainInv, [Next]_vars
    PROVE  ChainInv'
<1>1. CASE UNCHANGED vars
  BY <1>1 DEF vars, tables, counters, history, ChainInv, Own
<1>2. ASSUME NEW h \in Handlers, FlagRequest(h) \/ OtherRequest(h)
      PROVE  ChainInv'
  <2>1. ASSUME NEW p \in Projects, NEW before \in 0..clock, PurgeAuditLogs(h, p, before)
        PROVE  ChainInv'
    <3>1. Text(before) \in Int
      <4>1. before \in Nat
        BY SMT DEF TypeInv, RowTypes
      <4> QED BY <4>1, TextType
    <3> QED BY <2>1, <3>1, ChainPurge
  <2> QED BY <1>2, <2>1, ChainRequests, ChainVerifyRows, ChainReset DEF OtherRequest
<1>3. ASSUME NEW h \in Handlers, Continue(h)
      PROVE  ChainInv'
  <2>1. CASE insertAuditLog(h)
    <3>1. frame[h].proj \in Projects /\ faults' \in Nat
      BY <2>1 DEF insertAuditLog, TypeInv, RowTypes, Positions, Frames
    <3> QED BY <2>1, <3>1, HeadHashType, ChainInsert DEF insertAuditLog
  <2> QED BY <1>3, <2>1, ChainWriters, ChainAnchor, ChainVerify DEF Continue
<1>4. ASSUME NEW h \in Handlers, HeadQueryFails(h)
      PROVE  ChainInv'
  <2>1. frame[h].proj \in Projects /\ faults' \in Nat /\ audit_anchors \in [Projects -> Nat]
    BY SMT, <1>4 DEF HeadQueryFails, TypeInv, RowTypes, Positions, Frames
  <2>2. PICK prev \in {audit_anchors[frame[h].proj], GENESIS} : Insert(h, prev)
    BY <1>4 DEF HeadQueryFails
  <2>3. prev \in Nat
    BY SMT, <2>1 DEF GENESIS
  <2> QED BY <1>4, <2>1, <2>2, <2>3, ChainInsert DEF HeadQueryFails
<1>5. ASSUME NEW c \in CRIds, NEW u \in Users, NEW b \in BOOLEAN, ReviewChangeRequest(c, u, b)
      PROVE  ChainInv'
  BY <1>5 DEF ReviewChangeRequest, history, ChainInv, Own
<1> QED BY <1>1, <1>2, <1>3, <1>4, <1>5, ChainFails, ChainCrash DEF Next

\* VerifyAuditLogIntegrity raises no false alarm (NoFalseAlarm): a verification
\* that no purge overlaps accepts the log of every project, whatever entries
\* writers insert between its two queries and whichever requests were cut off,
\* unless a head query or an anchor write failed or two entries were inserted
\* against the textual order of their timestamps.
THEOREM VerificationIsSound == Spec => []NoFalseAlarm
<1>1. Init => TypeInv /\ ChainInv
  BY InitTypes, InitChain
<1>2. TypeInv /\ ChainInv /\ [Next]_vars => (TypeInv /\ ChainInv)'
  BY TypeStep, ChainStep
<1>3. TypeInv /\ ChainInv => NoFalseAlarm
  BY DEF ChainInv, NoFalseAlarm
<1> QED BY <1>1, <1>2, <1>3, PTL DEF Spec
=============================================================================
