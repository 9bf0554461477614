----------------------------- MODULE AuditChain -----------------------------
(***************************************************************************)
(* The per-project hash chain of the audit log (pkg/domain/audit.go and    *)
(* the audit section of the stores), as operators on a log and its anchors.*)
(*                                                                         *)
(* A log is a set of entries.  An entry carries                            *)
(*   seq    its place in insertion order, and at the same time its         *)
(*          EntryHash: SHA-256 is taken to be collision free, so a hash is *)
(*          as good as the identity of the stored entry it was taken of;   *)
(*   prev   its PrevHash: the seq of another entry, or GENESIS;            *)
(*   id     the ID field, that the memory store uses to drop duplicates;   *)
(*   ts     the Timestamp field;                                           *)
(*   proj   the project the entry belongs to.                              *)
(* The remaining fields of an entry are the business of the module that    *)
(* appends it.  Nobody edits a stored entry, so the recomputation of the   *)
(* hash by the verifier always agrees, and only the linkage is checked.    *)
(***************************************************************************)
EXTENDS Integers

\* AuditGenesisHash, and the "no anchor" value of the anchors map.
GENESIS == 0

Own(log, p) == { e \in log : e.proj = p }

Older(log, e) == { f \in log : f.proj = e.proj /\ f.seq < e.seq }

Newest(S) == CHOOSE e \in S : \A f \in S : f.seq <= e.seq

\* The hash a new entry of project p is linked to: the newest entry of the
\* project, else the anchor a purge left behind, else the genesis hash.
HeadHash(log, anchors, p) ==
    IF Own(log, p) = {} THEN anchors[p] ELSE Newest(Own(log, p)).seq

\* The entry as it is stored.
Linked(log, anchors, n, e) ==
    [e EXCEPT !.seq = n, !.prev = HeadHash(log, anchors, e.proj)]

\* Mutant: IDs are made of a clock reading in units twice as coarse.
DuplicateOfCoarseID(log, e) ==
    \E l \in log : l.id[1] = e.id[1] /\ l.id[2] \div 2 = e.id[2] \div 2 /\ l.proj = e.proj

Duplicate(log, e) == \E l \in log : l.id = e.id /\ l.proj = e.proj

\* PurgeAuditLogs: what a purge removes, and the anchor it leaves, which is
\* the hash of the most recently inserted entry among the removed ones.
Purged(log, p, before) == { e \in Own(log, p) : e.ts < before }

\* Mutant: the anchor is the hash of the first entry removed, not the last.
PurgeAnchorOldest(log, anchors, p, before) ==
    LET gone == Purged(log, p, before)
    IN  IF gone = {} THEN anchors
        ELSE [anchors EXCEPT ![p] = (CHOOSE e \in gone : \A f \in gone : e.seq <= f.seq).seq]

PurgeAnchor(log, anchors, p, before) ==
    IF Purged(log, p, before) = {} THEN anchors
    ELSE [anchors EXCEPT ![p] = Newest(Purged(log, p, before)).seq]

\* VerifyAuditLogIntegrity: the oldest entry continues the anchor (or the
\* genesis hash, which is accepted as well), every other one its predecessor.
VerifyAuditLogIntegrity(log, anchors, p) ==
    \A e \in Own(log, p) :
        IF Older(log, e) = {}
        THEN e.prev \in {anchors[p], GENESIS}
        ELSE e.prev = Newest(Older(log, e)).seq

\* Entries were inserted in the order of their timestamps.
InTimeOrder(log) ==
    \A e, f \in log : e.proj = f.proj /\ e.seq < f.seq => e.ts <= f.ts
=============================================================================
