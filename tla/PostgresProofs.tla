--------------------------- MODULE PostgresProofs ---------------------------
(***************************************************************************)
(* For any number of requests on any number of replicas, overlapping and   *)
(* cut short as they may be: versions count writes, nobody reviews their   *)
(* own change request, and a request marked APPLIED has been applied.  As  *)
(* long as requests do not overlap, the audit log verifies.                *)
(***************************************************************************)
EXTENDS PostgresStore, WellFoundedInduction, TLAPS

\* Every leaf is first-order and left to Zenon, unless it cites SMT (arithmetic
\* and records) or PTL (temporal steps).
USE ZenonT(60)

PastReview == {"APPROVED", "REJECTED", "APPLIED"}

\* The statements of insertAuditLog.
Auditing == {"auditSelect", "auditAnchor", "auditInsert"}

Labels ==
    Auditing \cup {"idle", "save", "update", "delete", "promote", "submit", "review",
                   "applyRead", "applySave", "markApplied", "purgeDelete", "purgeAnchor",
                   "purgeRecord"}

\* The types of the rows and copies the properties speak of.
RowsOK ==
    /\ feature_flags \in Snapshots
    /\ change_requests \in [CRIds -> ChangeRequests]
    /\ pc \in [Handlers -> Labels]
    /\ held \in [Handlers -> Held]
    /\ heldCR \in [Handlers -> [id : CRIds \cup {""}, cr : ChangeRequests]]
    /\ nextLife \in Nat

\* What a handler may rely on about the change request it has read, however
\* old its copy is: a verdict it is about to write is not the author's, a
\* request it applies stays past review, and once the flag is saved the
\* proposal has landed.
CopyInv(h) ==
    LET c == heldCR[h].id
    IN  /\ pc[h] = "review" =>
              /\ c \in CRIds
              /\ heldCR[h].cr.status \in {"APPROVED", "REJECTED"}
              /\ change_requests[c].status # "NONE"
              /\ heldCR[h].cr.reviewer # change_requests[c].author
        /\ pc[h] \in {"applyRead", "applySave", "markApplied"} =>
              c \in CRIds /\ change_requests[c].status \in PastReview
        /\ pc[h] \in Auditing /\ c # "" =>
              c \in CRIds /\ change_requests[c].status \in PastReview /\ c \in landed
        /\ pc[h] = "markApplied" => c \in landed
        /\ c # "" => pc[h] \in Auditing \cup {"review", "applyRead", "applySave", "markApplied"}

\* The inductive invariant.
ReviewInv ==
    /\ RowsOK
    /\ FourEyes
    /\ AppliedHasLanded
    /\ \A h \in Handlers : CopyInv(h)

\* What no step does to the rows other handlers have copies of.
Steady ==
    /\ landed \subseteq landed'
    /\ \A c \in CRIds :
        /\ change_requests[c].status # "NONE" =>
              /\ change_requests'[c].status # "NONE"
              /\ change_requests'[c].author = change_requests[c].author
        /\ change_requests[c].status \in PastReview => change_requests'[c].status \in PastReview

-----------------------------------------------------------------------------
\* A handler that rests keeps what it relies on (CopyInv) through the steps of
\* the others.
LEMMA RestingKeepsCopy ==
    ASSUME ReviewInv, Steady, NEW g \in Handlers,
           pc'[g] = pc[g], heldCR'[g] = heldCR[g]
    PROVE  CopyInv(g)'
<1>1. CopyInv(g)
  BY DEF ReviewInv
<1>2. \A c \in CRIds :
        /\ change_requests[c].status # "NONE" =>
              /\ change_requests'[c].status # "NONE"
              /\ change_requests'[c].author = change_requests[c].author
        /\ change_requests[c].status \in PastReview => change_requests'[c].status \in PastReview
        /\ c \in landed => c \in landed'
  BY DEF Steady
<1> QED
  BY <1>1, <1>2 DEF CopyInv

\* Steps that write no change request keep what is known of them.
LEMMA UnchangedRequests ==
    ASSUME ReviewInv, UNCHANGED change_requests, landed \subseteq landed'
    PROVE  Steady /\ FourEyes' /\ AppliedHasLanded'
BY DEF ReviewInv, Steady, FourEyes, AppliedHasLanded

\* A step of h that leaves the positions and the copies of the others alone
\* preserves the invariant if it does so for h and for the rows.
LEMMA StepOf ==
    ASSUME ReviewInv, Steady, NEW h \in Handlers,
           \A g \in Handlers \ {h} : pc'[g] = pc[g] /\ heldCR'[g] = heldCR[g],
           RowsOK', FourEyes', AppliedHasLanded', CopyInv(h)'
    PROVE  ReviewInv'
<1>1. ASSUME NEW g \in Handlers PROVE CopyInv(g)'
  <2>1. CASE g = h
    BY <2>1
  <2>2. CASE g # h
    BY <2>2, RestingKeepsCopy
  <2>3. QED BY <2>1, <2>2
<1>2. QED BY <1>1 DEF ReviewInv

-----------------------------------------------------------------------------
(* Types.                                                                  *)

\* The values rows and copies start from have their types.
LEMMA DefaultTypes ==
    NoFlag \in Flags /\ NoFlags \in Snapshots /\ NoCR \in ChangeRequests /\ NoHeld \in Held
<1>1. AnyKey \in Keys /\ AnyEnv \in Envs /\ AnyUser \in Users
  BY InputAssumption DEF AnyKey, AnyEnv, AnyUser
<1>2. DefaultConfig \in Configs
  BY SMT DEF DefaultConfig, Configs
<1>3. NoFlag \in Flags
  BY <1>2 DEF NoFlag, Flags
<1>4. NoCR \in ChangeRequests
  BY <1>1, <1>2 DEF NoCR, ChangeRequests, Statuses
<1>5. NoFlags \in Snapshots /\ NoHeld \in Held
  BY <1>1, <1>3 DEF NoFlags, Snapshots, NoHeld, Held
<1> QED BY <1>3, <1>4, <1>5

\* Counters stay natural numbers.
LEMMA SuccessorType == \A n \in Nat : n + 1 \in Nat
BY SMT

\* What clients send is a configuration.
LEMMA PayloadType == Payloads \subseteq Configs
BY InputAssumption DEF Payloads, Configs

\* What a handler has read has the types of the rows.
LEMMA CopyTypes ==
    ASSUME RowsOK, NEW h \in Handlers
    PROVE  /\ held[h].key \in Keys /\ held[h].flag \in Flags
           /\ held[h].flag.life \in Nat /\ held[h].flag.envs \in [Envs -> Configs]
           /\ heldCR[h].cr \in ChangeRequests /\ heldCR[h].id \in CRIds \cup {""}
BY DEF RowsOK, Held, Flags

\* The row SaveFlag writes is a flag.
LEMMA UpsertedType ==
    ASSUME RowsOK, NEW k \in Keys, NEW envs \in [Envs -> Configs], NEW life \in Nat
    PROVE  Upserted(k, envs, life) \in Flags
<1>1. feature_flags[k] \in Flags
  BY DEF RowsOK, Snapshots
<1>2. feature_flags[k].ver + 1 \in Nat
  BY SMT, <1>1 DEF Flags
<1>3. nextLife \in Nat
  BY DEF RowsOK
<1>4. [feature_flags[k] EXCEPT !.ver = feature_flags[k].ver + 1, !.envs = envs] \in Flags
  BY <1>1, <1>2 DEF Flags
<1>5. [life |-> IF life = 0 THEN nextLife ELSE life, ver |-> 1, envs |-> envs] \in Flags
  BY <1>3 DEF Flags
<1> QED BY <1>4, <1>5 DEF Upserted

\* The row a toggle or a rollout writes is a flag.
LEMMA UpdatedType ==
    ASSUME NEW row \in Flags, NEW f \in Flags
    PROVE  Updated(row, f) \in Flags
<1>1. row.ver + 1 \in Nat /\ f.envs \in [Envs -> Configs]
  BY SMT DEF Flags
<1>2. [row EXCEPT !.ver = row.ver + 1, !.envs = f.envs] \in Flags
  BY <1>1 DEF Flags
<1> QED BY <1>2 DEF Updated

-----------------------------------------------------------------------------
(* The statements that write no change request.                            *)

\* The handler's request ends, and it forgets its copies.
LEMMA DonePreserves ==
    ASSUME ReviewInv, NEW h \in Handlers, Done(h)
    PROVE  /\ pc' \in [Handlers -> Labels]
           /\ held' \in [Handlers -> Held]
           /\ heldCR' \in [Handlers -> [id : CRIds \cup {""}, cr : ChangeRequests]]
           /\ CopyInv(h)'
           /\ \A g \in Handlers \ {h} : pc'[g] = pc[g] /\ heldCR'[g] = heldCR[g]
<1>1. RowsOK
  BY DEF ReviewInv
<1>2. /\ pc' \in [Handlers -> Labels]
      /\ held' \in [Handlers -> Held]
      /\ heldCR' \in [Handlers -> [id : CRIds \cup {""}, cr : ChangeRequests]]
  BY <1>1, DefaultTypes DEF Done, Goto, RowsOK, Labels
<1>3. pc'[h] = "idle" /\ heldCR'[h].id = ""
  BY <1>1 DEF Done, Goto, RowsOK
<1>4. CopyInv(h)'
  BY <1>3 DEF CopyInv, Auditing
<1>5. \A g \in Handlers \ {h} : pc'[g] = pc[g] /\ heldCR'[g] = heldCR[g]
  BY <1>1 DEF Done, Goto, RowsOK
<1> QED BY <1>2, <1>4, <1>5

\* A read of a flag, on behalf of an operation that holds no change request.
LEMMA GetFlagPreserves ==
    ASSUME ReviewInv, NEW h \in Handlers, NEW k \in Keys, NEW f \in Flags,
           NEW label \in {"save", "update", "delete", "promote", "submit"},
           GetFlag(h, k, f, label)
    PROVE  ReviewInv'
<1>1. RowsOK /\ CopyInv(h) /\ pc[h] = "idle"
  BY DEF ReviewInv, GetFlag, Begin
<1>2. Steady /\ FourEyes' /\ AppliedHasLanded'
  BY UnchangedRequests DEF GetFlag, tables
<1>3. RowsOK'
  BY <1>1 DEF GetFlag, Goto, RowsOK, Held, tables, Labels
<1>4. pc'[h] = label /\ heldCR'[h].id = ""
  BY <1>1 DEF GetFlag, Goto, RowsOK, CopyInv, Auditing
<1>5. CopyInv(h)'
  BY <1>4 DEF CopyInv, Auditing
<1>6. \A g \in Handlers \ {h} : pc'[g] = pc[g] /\ heldCR'[g] = heldCR[g]
  BY <1>1 DEF GetFlag, Goto, RowsOK
<1> QED BY <1>2, <1>3, <1>5, <1>6, StepOf

\* SaveFlag, on behalf of an operation that holds no change request or whose
\* proposal it writes.
LEMMA SaveFlagPreserves ==
    ASSUME ReviewInv, NEW h \in Handlers, NEW k \in Keys,
           NEW envs \in [Envs -> Configs], NEW life \in Nat,
           SaveFlag(h, k, envs, life),
           UNCHANGED <<held, heldCR>>, landed \subseteq landed',
           heldCR[h].id # "" => pc[h] = "applySave" /\ heldCR[h].id \in landed'
    PROVE  ReviewInv'
<1>1. RowsOK /\ CopyInv(h)
  BY DEF ReviewInv
<1>2. Steady /\ FourEyes' /\ AppliedHasLanded'
  BY UnchangedRequests DEF SaveFlag
<1>3. feature_flags' \in Snapshots
  BY <1>1, UpsertedType DEF SaveFlag, RowsOK, Snapshots
<1>4. pc' = [pc EXCEPT ![h] = "auditSelect"]
  BY DEF SaveFlag, Audit, Goto
<1>5. nextLife' \in Nat
  <2>1. nextLife \in Nat
    BY <1>1 DEF RowsOK
  <2>2. nextLife' = nextLife + 1 \/ nextLife' = nextLife
    BY DEF SaveFlag
  <2> QED BY <2>1, <2>2, SuccessorType
<1>6. RowsOK'
  BY <1>1, <1>3, <1>4, <1>5 DEF SaveFlag, RowsOK, Labels, Auditing
<1>7. pc'[h] = "auditSelect" /\ heldCR'[h] = heldCR[h] /\ UNCHANGED change_requests
  BY <1>1, <1>4 DEF RowsOK, SaveFlag
<1>8. CopyInv(h)'
  BY <1>1, <1>7 DEF CopyInv, Auditing
<1>9. \A g \in Handlers \ {h} : pc'[g] = pc[g] /\ heldCR'[g] = heldCR[g]
  BY <1>1, <1>4 DEF RowsOK
<1> QED BY <1>2, <1>6, <1>8, <1>9, StepOf

\* The other statements that keep to the audit log, the keys and the position.
LEMMA QuietPreserves ==
    ASSUME ReviewInv, NEW h \in Handlers, NEW label \in Labels,
           UNCHANGED <<change_requests, held, heldCR, nextLife, landed>>,
           feature_flags' \in Snapshots,
           pc' = [pc EXCEPT ![h] = label],
           \/ heldCR[h].id = "" /\ label \notin {"review", "applyRead", "applySave", "markApplied"}
           \/ pc[h] \in Auditing /\ label \in Auditing
           \/ label = pc[h]
    PROVE  ReviewInv'
<1>1. RowsOK /\ CopyInv(h)
  BY DEF ReviewInv
<1>2. Steady /\ FourEyes' /\ AppliedHasLanded'
  BY UnchangedRequests
<1>3. RowsOK'
  BY <1>1 DEF RowsOK
<1>4. pc'[h] = label /\ heldCR'[h] = heldCR[h]
  BY <1>1 DEF RowsOK
<1>5. CopyInv(h)'
  BY <1>1, <1>4 DEF CopyInv, Auditing
<1>6. \A g \in Handlers \ {h} : pc'[g] = pc[g] /\ heldCR'[g] = heldCR[g]
  BY <1>1 DEF RowsOK
<1> QED BY <1>2, <1>3, <1>5, <1>6, StepOf

\* A request that ends without having written a change request.
LEMMA EndPreserves ==
    ASSUME ReviewInv, NEW h \in Handlers, Done(h),
           UNCHANGED <<feature_flags, change_requests, nextLife, landed>>
    PROVE  ReviewInv'
<1>1. Steady /\ FourEyes' /\ AppliedHasLanded'
  BY UnchangedRequests
<1>2. RowsOK'
  BY DonePreserves DEF ReviewInv, RowsOK
<1> QED BY <1>1, <1>2, DonePreserves, StepOf

\* The first statement of a request about a flag.
LEMMA FlagRequestPreserves ==
    ASSUME ReviewInv, NEW h \in Handlers, FlagRequest(h)
    PROVE  ReviewInv'
<1>1. PICK k \in Keys :
        \/ \E envs \in [Envs -> Payloads] : WriteFlag(h, k, envs)
        \/ \E env \in Envs, b \in BOOLEAN : ToggleFlagByProject(h, k, env, b)
        \/ \E env \in Envs, pct \in Pcts : UpdateRolloutByProject(h, k, env, pct)
        \/ DeleteFlagByProject(h, k)
        \/ UpdateRead(h, k)
        \/ PromoteRead(h, k)
        \/ SubmitRead(h, k)
  BY DEF FlagRequest
<1>2. RowsOK /\ CopyInv(h) /\ feature_flags[k] \in Flags
  BY DEF ReviewInv, RowsOK, Snapshots
<1>3. ASSUME NEW envs \in [Envs -> Payloads], WriteFlag(h, k, envs) PROVE ReviewInv'
  <2>1. envs \in [Envs -> Configs]
    BY PayloadType
  <2>2. pc[h] = "idle" /\ SaveFlag(h, k, envs, 0) /\ UNCHANGED <<held, heldCR, landed>>
    BY <1>3 DEF WriteFlag, Begin
  <2>3. heldCR[h].id = ""
    BY <1>2, <2>2 DEF CopyInv, Auditing
  <2> QED BY <2>1, <2>2, <2>3, SaveFlagPreserves
<1>4. ASSUME NEW env \in Envs, NEW c \in Configs PROVE WithConfig(feature_flags[k], env, c) \in Flags
  BY SMT, <1>2, <1>4 DEF WithConfig, Flags
<1>5. ASSUME NEW env \in Envs, NEW b \in BOOLEAN, ToggleFlagByProject(h, k, env, b) PROVE ReviewInv'
  <2>1. [feature_flags[k].envs[env] EXCEPT !.enabled = b] \in Configs
    BY <1>2 DEF Flags, Configs
  <2> QED BY <1>4, <1>5, <2>1, GetFlagPreserves DEF ToggleFlagByProject
<1>6. ASSUME NEW env \in Envs, NEW pct \in Pcts, UpdateRolloutByProject(h, k, env, pct) PROVE ReviewInv'
  <2>1. Clamp(pct) \in Int
    BY SMT, InputAssumption DEF Clamp
  <2>2. [feature_flags[k].envs[env] EXCEPT !.pct = Clamp(pct)] \in Configs
    BY <1>2, <2>1 DEF Flags, Configs
  <2> QED BY <1>4, <1>6, <2>2, GetFlagPreserves DEF UpdateRolloutByProject
<1>7. CASE DeleteFlagByProject(h, k) \/ UpdateRead(h, k) \/ PromoteRead(h, k) \/ SubmitRead(h, k)
  BY <1>2, <1>7, GetFlagPreserves DEF DeleteFlagByProject, UpdateRead, PromoteRead, SubmitRead
<1> QED BY <1>1, <1>3, <1>5, <1>6, <1>7

-----------------------------------------------------------------------------
(* Reviews and applications.                                               *)

\* A request is read for a review or to be applied.
LEMMA GetChangeRequestPreserves ==
    ASSUME ReviewInv, NEW h \in Handlers, NEW c \in CRIds, NEW cr \in ChangeRequests,
           NEW label \in {"review", "applyRead"},
           GetChangeRequest(h, c, cr, label),
           label = "review" => /\ cr.status \in {"APPROVED", "REJECTED"}
                               /\ change_requests[c].status # "NONE"
                               /\ cr.reviewer # change_requests[c].author,
           label = "applyRead" => change_requests[c].status = "APPROVED"
    PROVE  ReviewInv'
<1>1. RowsOK
  BY DEF ReviewInv
<1>2. Steady /\ FourEyes' /\ AppliedHasLanded'
  BY UnchangedRequests DEF GetChangeRequest, tables
<1>3. RowsOK'
  BY <1>1 DEF GetChangeRequest, Goto, RowsOK, Labels, tables
<1>4. pc'[h] = label /\ heldCR'[h].id = c /\ heldCR'[h].cr = cr /\ UNCHANGED change_requests
  BY <1>1 DEF GetChangeRequest, Goto, RowsOK, tables
<1>5. CopyInv(h)'
  BY <1>4 DEF CopyInv, Auditing, PastReview
<1>6. \A g \in Handlers \ {h} : pc'[g] = pc[g] /\ heldCR'[g] = heldCR[g]
  BY <1>1 DEF GetChangeRequest, Goto, RowsOK
<1> QED BY <1>2, <1>3, <1>5, <1>6, StepOf

\* A statement that writes the row of one change request and ends its request.
LEMMA RequestWritten ==
    ASSUME ReviewInv, NEW h \in Handlers, NEW c \in CRIds, NEW new \in ChangeRequests,
           change_requests' = [change_requests EXCEPT ![c] = new],
           Done(h), UNCHANGED <<feature_flags, nextLife, landed>>,
           change_requests[c].status # "NONE" =>
              new.status # "NONE" /\ new.author = change_requests[c].author,
           change_requests[c].status \in PastReview => new.status \in PastReview,
           new.status \in PastReview => new.reviewer # new.author,
           new.status = "APPLIED" => c \in landed
    PROVE  ReviewInv'
<1>1. RowsOK /\ FourEyes /\ AppliedHasLanded
  BY DEF ReviewInv
<1>2. change_requests' \in [CRIds -> ChangeRequests]
  BY <1>1 DEF RowsOK
<1>3. change_requests'[c] = new /\ \A d \in CRIds \ {c} : change_requests'[d] = change_requests[d]
  BY <1>1 DEF RowsOK
<1>4. Steady
  BY <1>3 DEF Steady
<1>5. FourEyes'
  BY <1>1, <1>3 DEF FourEyes, PastReview
<1>6. AppliedHasLanded'
  BY <1>1, <1>3 DEF AppliedHasLanded
<1>7. RowsOK'
  BY <1>1, <1>2, DonePreserves DEF RowsOK
<1> QED BY <1>4, <1>5, <1>6, <1>7, DonePreserves, StepOf

\* handleCreateChangeRequest: an ID in use is left alone, a new one is PENDING.
LEMMA CreatePreserves ==
    ASSUME ReviewInv, NEW h \in Handlers, NEW c \in CRIds, NEW env \in Envs,
           NEW proposed \in Payloads, NEW u \in Users,
           CreateChangeRequest(h, c, env, proposed, u)
    PROVE  ReviewInv'
<1>1. Done(h) /\ UNCHANGED <<feature_flags, nextLife, landed>>
  BY DEF CreateChangeRequest, counters, history
<1>2. CASE change_requests[c].status # "NONE"
  BY <1>1, <1>2, EndPreserves DEF CreateChangeRequest
<1>3. CASE change_requests[c].status = "NONE"
  <2> DEFINE new == Submitted(held[h].key, held[h].flag, env, proposed, u)
  <2>1. held[h].key \in Keys /\ held[h].flag \in Flags /\ proposed \in Configs
    BY CopyTypes, PayloadType DEF ReviewInv
  <2>2. held[h].flag.ver \in Nat /\ held[h].flag.life \in Nat
    BY <2>1 DEF Flags
  <2>3. new \in ChangeRequests /\ new.status = "PENDING"
    BY <2>1, <2>2 DEF Submitted, ChangeRequests, Statuses
  <2>4. change_requests' = [change_requests EXCEPT ![c] = new]
    BY <1>3 DEF CreateChangeRequest
  <2> HIDE DEF new
  <2> QED BY <1>1, <1>3, <2>3, <2>4, RequestWritten DEF PastReview
<1> QED BY <1>2, <1>3, SMTT(30)

\* The UPDATE of ReviewChangeRequest: its verdict is not the author's.
LEMMA ReviewPreserves ==
    ASSUME ReviewInv, NEW h \in Handlers, ReviewUpdate(h)
    PROVE  ReviewInv'
<1> DEFINE c == heldCR[h].id
           cr == heldCR[h].cr
           new == [[change_requests[c] EXCEPT !.status = cr.status] EXCEPT !.reviewer = cr.reviewer]
<1>1. Done(h) /\ UNCHANGED <<feature_flags, nextLife, landed>>
  BY DEF ReviewUpdate, counters, history
<1>2. /\ c \in CRIds /\ cr.status \in {"APPROVED", "REJECTED"}
      /\ change_requests[c].status # "NONE" /\ cr.reviewer # change_requests[c].author
  BY DEF ReviewInv, CopyInv, ReviewUpdate
<1>3. change_requests[c] \in ChangeRequests /\ cr \in ChangeRequests
  BY <1>2, CopyTypes DEF ReviewInv, RowsOK
<1>4. cr.status \in Statuses /\ cr.reviewer \in Users
  BY <1>3 DEF ChangeRequests
<1>5. /\ new \in ChangeRequests
      /\ new.status = cr.status /\ new.reviewer = cr.reviewer
      /\ new.author = change_requests[c].author
  BY <1>3, <1>4 DEF ChangeRequests
<1>6. change_requests' = [change_requests EXCEPT ![c] = new]
  BY <1>2, <1>3 DEF ReviewUpdate, ReviewInv, RowsOK
<1> HIDE DEF new
<1> QED BY <1>1, <1>2, <1>5, <1>6, RequestWritten DEF PastReview

\* The UPDATE that marks a request: its proposal has landed.
LEMMA MarkPreserves ==
    ASSUME ReviewInv, NEW h \in Handlers, MarkApplied(h)
    PROVE  ReviewInv'
<1> DEFINE c == heldCR[h].id
           new == [change_requests[c] EXCEPT !.status = "APPLIED"]
<1>1. Done(h) /\ UNCHANGED <<feature_flags, nextLife, landed>>
  BY DEF MarkApplied, counters, history
<1>2. c \in CRIds /\ change_requests[c].status \in PastReview /\ c \in landed
  BY DEF ReviewInv, CopyInv, MarkApplied
<1>3. change_requests[c] \in ChangeRequests /\ change_requests[c].reviewer # change_requests[c].author
  BY <1>2 DEF ReviewInv, RowsOK, FourEyes, PastReview
<1>4. /\ new \in ChangeRequests /\ new.status = "APPLIED"
      /\ new.reviewer = change_requests[c].reviewer
      /\ new.author = change_requests[c].author
  BY <1>3 DEF ChangeRequests, Statuses
<1>5. change_requests' = [change_requests EXCEPT ![c] = new]
  BY DEF MarkApplied
<1> HIDE DEF new
<1> QED BY <1>1, <1>2, <1>3, <1>4, <1>5, RequestWritten DEF PastReview

\* ApplyChangeRequest reads the flag and goes on, or refuses.
LEMMA ApplyReadPreserves ==
    ASSUME ReviewInv, NEW h \in Handlers, ApplyRead(h)
    PROVE  ReviewInv'
<1> DEFINE cr == heldCR[h].cr
           f == feature_flags[cr.key]
           flag == [f EXCEPT !.envs[cr.env] = cr.proposed]
<1>1. RowsOK /\ CopyInv(h) /\ pc[h] = "applyRead"
      /\ UNCHANGED <<feature_flags, change_requests, nextLife, landed>>
  BY DEF ReviewInv, ApplyRead, tables, counters, history
<1>2. CASE MayApply(cr, f)
  <2>1. cr.key \in Keys /\ cr.env \in Envs /\ cr.proposed \in Configs
    BY <1>1, CopyTypes DEF ChangeRequests
  <2>2. f \in Flags
    BY <1>1, <2>1, ZenonT(40) DEF RowsOK, Snapshots
  <2>3. flag \in Flags
    BY <2>1, <2>2, SMTT(30) DEF Flags
  <2>4. /\ held' = [held EXCEPT ![h] = [key |-> cr.key, flag |-> flag]]
        /\ pc' = [pc EXCEPT ![h] = "applySave"] /\ UNCHANGED heldCR
    BY <1>2 DEF ApplyRead, Goto
  <2> HIDE DEF flag
  <2>5. held' \in [Handlers -> Held]
    BY <1>1, <2>1, <2>3, <2>4 DEF RowsOK, Held
  <2>6. RowsOK'
    BY <1>1, <2>4, <2>5 DEF RowsOK, Labels
  <2>7. pc'[h] = "applySave" /\ heldCR'[h] = heldCR[h]
    BY <1>1, <2>4 DEF RowsOK
  <2>8. CopyInv(h)'
    BY <1>1, <2>7 DEF CopyInv, Auditing
  <2>9. \A g \in Handlers \ {h} : pc'[g] = pc[g] /\ heldCR'[g] = heldCR[g]
    BY <1>1, <2>4 DEF RowsOK
  <2> QED BY <1>1, <2>6, <2>8, <2>9, UnchangedRequests, StepOf
<1>3. CASE ~ MayApply(cr, f)
  <2>1. Done(h)
    BY <1>3 DEF ApplyRead
  <2> QED BY <1>1, <2>1, EndPreserves
<1> QED BY <1>2, <1>3

\* The last statement of insertAuditLog, after which an application marks its
\* request.
LEMMA AuditInsertPreserves ==
    ASSUME ReviewInv, NEW h \in Handlers, AuditInsert(h)
    PROVE  ReviewInv'
<1>1. RowsOK /\ CopyInv(h) /\ pc[h] = "auditInsert"
      /\ UNCHANGED <<feature_flags, change_requests, nextLife, landed>>
  BY DEF ReviewInv, AuditInsert
<1>2. \/ Done(h)
      \/ heldCR[h].id # "" /\ Goto(h, "markApplied") /\ UNCHANGED local
  BY DEF AuditInsert
<1>3. CASE Done(h)
  BY <1>1, <1>3, EndPreserves
<1>4. CASE heldCR[h].id # "" /\ Goto(h, "markApplied") /\ UNCHANGED local
  <2>1. pc' = [pc EXCEPT ![h] = "markApplied"] /\ UNCHANGED <<held, heldCR>>
    BY <1>4 DEF Goto, local
  <2>2. RowsOK'
    BY <1>1, <2>1 DEF RowsOK, Labels
  <2>3. pc'[h] = "markApplied" /\ heldCR'[h] = heldCR[h]
    BY <1>1, <2>1 DEF RowsOK
  <2>4. CopyInv(h)'
    BY <1>1, <1>4, <2>3 DEF CopyInv, Auditing
  <2>5. \A g \in Handlers \ {h} : pc'[g] = pc[g] /\ heldCR'[g] = heldCR[g]
    BY <1>1, <2>1 DEF RowsOK
  <2> QED BY <1>1, <2>2, <2>4, <2>5, UnchangedRequests, StepOf
<1> QED BY <1>2, <1>3, <1>4

\* The first statement of the other requests.
LEMMA OtherRequestPreserves ==
    ASSUME ReviewInv, NEW h \in Handlers, OtherRequest(h)
    PROVE  ReviewInv'
<1>1. RowsOK /\ CopyInv(h)
  BY DEF ReviewInv
<1>2. pc[h] = "idle" => heldCR[h].id = ""
  BY <1>1 DEF CopyInv, Auditing
<1>3. ASSUME NEW c \in CRIds, NEW u \in Users, NEW b \in BOOLEAN, ReviewChangeRequest(h, c, u, b)
      PROVE  ReviewInv'
  <2> DEFINE cr == change_requests[c]
             new == Reviewed(cr, u, b)
  <2>1. cr \in ChangeRequests /\ cr.status = "PENDING" /\ cr.author # u
    BY <1>1, <1>3 DEF RowsOK, ReviewChangeRequest, MayReview
  <2>2. /\ new \in ChangeRequests
        /\ new.status \in {"APPROVED", "REJECTED"} /\ new.reviewer = u
    <3>1. CASE b
      BY <2>1, <3>1 DEF Reviewed, ChangeRequests, Statuses
    <3>2. CASE ~ b
      BY <2>1, <3>2 DEF Reviewed, ChangeRequests, Statuses
    <3> QED BY <3>1, <3>2
  <2>3. GetChangeRequest(h, c, new, "review")
    BY <1>3 DEF ReviewChangeRequest
  <2> HIDE DEF new
  <2> QED BY <2>1, <2>2, <2>3, GetChangeRequestPreserves
<1>4. ASSUME NEW c \in CRIds, ApplyChangeRequest(h, c) PROVE ReviewInv'
  <2>1. change_requests[c] \in ChangeRequests
    BY <1>1 DEF RowsOK
  <2> QED BY <1>4, <2>1, GetChangeRequestPreserves DEF ApplyChangeRequest
<1>5. ASSUME NEW a \in APIKeys, RevokeAPIKeyByProject(h, a) PROVE ReviewInv'
  BY <1>1, <1>2, <1>5, QuietPreserves, ZenonT(40)
     DEF RevokeAPIKeyByProject, Begin, Audit, Goto, RowsOK, Labels, Auditing
<1>6. ASSUME NEW p \in Projects, NEW before \in 0 .. clock, PurgeSelect(h, p, before) PROVE ReviewInv'
  BY <1>1, <1>2, <1>6, QuietPreserves DEF PurgeSelect, Begin, Goto, RowsOK, Labels, tables
<1>7. CASE Reset(h)
  <2>1. pc[h] \in Labels /\ pc' = [pc EXCEPT ![h] = pc[h]] /\ feature_flags' \in Snapshots
        /\ UNCHANGED <<change_requests, held, heldCR, nextLife, landed>>
    BY <1>1, <1>7, DefaultTypes DEF Reset, RowsOK, local
  <2> QED BY <2>1, QuietPreserves
<1> QED BY <1>3, <1>4, <1>5, <1>6, <1>7 DEF OtherRequest

\* The later statements of a request.
LEMMA ContinuePreserves ==
    ASSUME ReviewInv, NEW h \in Handlers, Continue(h)
    PROVE  ReviewInv'
<1>1. RowsOK /\ CopyInv(h)
  BY DEF ReviewInv
<1>2. held[h].key \in Keys /\ held[h].flag \in Flags /\ held[h].flag.life \in Nat
      /\ held[h].flag.envs \in [Envs -> Configs]
  BY <1>1, CopyTypes
<1>3. pc[h] \notin Auditing \cup {"review", "applyRead", "applySave", "markApplied"} =>
        heldCR[h].id = ""
  BY <1>1 DEF CopyInv
<1>4. ASSUME NEW envs \in [Envs -> Payloads], UpdateSave(h, envs) PROVE ReviewInv'
  <2>1. envs \in [Envs -> Configs] /\ heldCR[h].id = ""
    BY <1>3, <1>4, PayloadType DEF UpdateSave, Auditing
  <2> QED BY <1>2, <1>4, <2>1, SaveFlagPreserves DEF UpdateSave
<1>5. CASE UpdateRow(h)
  <2>1. heldCR[h].id = ""
    BY <1>3, <1>5 DEF UpdateRow, Auditing
  <2>2. Updated(feature_flags[held[h].key], held[h].flag) \in Flags
    BY <1>1, <1>2, UpdatedType DEF RowsOK, Snapshots
  <2>3. feature_flags' \in Snapshots
    BY <1>1, <1>5, <2>2 DEF UpdateRow, RowsOK, Snapshots
  <2> QED BY <1>5, <2>1, <2>3, QuietPreserves, ZenonT(40) DEF UpdateRow, Audit, Goto, history, Labels, Auditing
<1>6. CASE DeleteRow(h)
  <2>1. heldCR[h].id = "" /\ UNCHANGED <<change_requests, nextLife, landed>>
    BY <1>3, <1>6 DEF DeleteRow, Auditing, history
  <2>2. CASE Exists(feature_flags[held[h].key])
    <3>1. feature_flags' = [feature_flags EXCEPT ![held[h].key] = NoFlag]
          /\ pc' = [pc EXCEPT ![h] = "auditSelect"] /\ UNCHANGED <<held, heldCR>>
      BY <1>6, <2>2 DEF DeleteRow, Audit, Goto
    <3>2. feature_flags' \in Snapshots
      BY <1>1, <3>1, DefaultTypes DEF RowsOK, Snapshots
    <3> QED BY <2>1, <3>1, <3>2, QuietPreserves, ZenonT(40) DEF Labels, Auditing
  <2>3. CASE ~ Exists(feature_flags[held[h].key])
    BY <1>6, <2>1, <2>3, EndPreserves DEF DeleteRow
  <2> QED BY <2>2, <2>3
<1>7. ASSUME NEW from \in Envs, NEW to \in Envs, PromoteSave(h, from, to) PROVE ReviewInv'
  <2>1. [held[h].flag.envs EXCEPT ![to] = held[h].flag.envs[from]] \in [Envs -> Configs]
    BY <1>2
  <2>2. heldCR[h].id = ""
    BY <1>3, <1>7 DEF PromoteSave, Auditing
  <2> QED BY <1>2, <1>7, <2>1, <2>2, SaveFlagPreserves DEF PromoteSave
<1>8. CASE ApplySave(h)
  BY <1>2, <1>8, SaveFlagPreserves DEF ApplySave
<1>9. CASE PurgeDelete(h) \/ PurgeAnchor(h) \/ PurgeRecord(h)
  <2>1. heldCR[h].id = ""
    BY <1>3, <1>9, ZenonT(40) DEF PurgeDelete, PurgeAnchor, PurgeRecord, Auditing
  <2>2. UNCHANGED <<feature_flags, change_requests, held, heldCR, nextLife, landed>>
    BY <1>9, ZenonT(40) DEF PurgeDelete, PurgeAnchor, PurgeRecord, tables, local, counters, history
  <2>3. \E label \in {"purgeAnchor", "purgeRecord", "auditSelect"} : pc' = [pc EXCEPT ![h] = label]
    BY <1>9 DEF PurgeDelete, PurgeAnchor, PurgeRecord, Audit, Goto
  <2> QED BY <1>1, <2>1, <2>2, <2>3, QuietPreserves, ZenonT(40) DEF RowsOK, Labels, Auditing
<1>10. CASE AuditSelect(h) \/ AuditAnchor(h)
  <2>1. pc[h] \in Auditing
    BY <1>10 DEF AuditSelect, AuditAnchor, Auditing
  <2>2. UNCHANGED <<feature_flags, change_requests, held, heldCR, nextLife, landed>>
    BY <1>10 DEF AuditSelect, AuditAnchor, tables, counters, history
  <2>3. \E label \in Auditing : pc' = [pc EXCEPT ![h] = label]
    BY <1>10 DEF AuditSelect, AuditAnchor, Goto, Auditing
  <2> QED BY <1>1, <2>1, <2>2, <2>3, QuietPreserves DEF RowsOK, Labels
<1> QED
  BY <1>4, <1>5, <1>6, <1>7, <1>8, <1>9, <1>10, CreatePreserves, ReviewPreserves,
     ApplyReadPreserves, MarkPreserves, AuditInsertPreserves DEF Continue

-----------------------------------------------------------------------------
\* ReviewInv is inductive: it holds in the empty database.
LEMMA ReviewInvStarts == Init => ReviewInv
<1> SUFFICES ASSUME Init PROVE ReviewInv
  OBVIOUS
<1>1. RowsOK
  BY DefaultTypes DEF Init, RowsOK, Labels
<1>2. \A c \in CRIds : change_requests[c].status = "NONE"
  BY DEF Init, NoCR
<1>3. FourEyes /\ AppliedHasLanded
  BY <1>2 DEF FourEyes, AppliedHasLanded
<1>4. \A h \in Handlers : pc[h] = "idle" /\ heldCR[h].id = ""
  BY DEF Init
<1>5. \A h \in Handlers : CopyInv(h)
  BY <1>4 DEF CopyInv, Auditing
<1> QED BY <1>1, <1>3, <1>5 DEF ReviewInv

\* ReviewInv is inductive: every statement keeps it.
LEMMA ReviewInvKept == ReviewInv /\ [Next]_vars => ReviewInv'
<1> SUFFICES ASSUME ReviewInv, [Next]_vars PROVE ReviewInv'
  OBVIOUS
<1>1. ASSUME NEW h \in Handlers, Abort(h) PROVE ReviewInv'
  BY <1>1, EndPreserves DEF Abort, tables
<1>2. CASE UNCHANGED vars
  BY <1>2, ZenonT(40) DEF vars, tables, local, counters, history, ReviewInv, RowsOK, FourEyes,
              AppliedHasLanded, CopyInv
<1> QED
  BY <1>1, <1>2, FlagRequestPreserves, OtherRequestPreserves, ContinuePreserves DEF Next

-----------------------------------------------------------------------------
(* Versions.                                                               *)

\* What VersionsCountWrites says of a step.
Counted ==
    \A k \in Keys :
        LET f == feature_flags[k]
            g == feature_flags'[k]
        IN  Exists(f) /\ Exists(g) /\ g # f => g.life = f.life /\ g.ver = f.ver + 1

\* A step that writes one row counts if that row does.
LEMMA RowWritten ==
    ASSUME RowsOK, NEW k \in Keys, NEW new,
           feature_flags' = [feature_flags EXCEPT ![k] = new],
           Exists(feature_flags[k]) /\ Exists(new) /\ new # feature_flags[k] =>
              new.life = feature_flags[k].life /\ new.ver = feature_flags[k].ver + 1
    PROVE  Counted
<1>1. feature_flags'[k] = new /\ \A j \in Keys \ {k} : feature_flags'[j] = feature_flags[j]
  BY DEF RowsOK, Snapshots
<1> QED BY <1>1 DEF Counted

\* The version SaveFlag writes is the row's own, whatever the caller held.
LEMMA SaveFlagCounts ==
    ASSUME RowsOK, NEW h \in Handlers, NEW k \in Keys, NEW envs, NEW life,
           SaveFlag(h, k, envs, life)
    PROVE  Counted
<1> DEFINE f == feature_flags[k]
           new == Upserted(k, envs, life)
<1>1. f \in Flags
  BY DEF RowsOK, Snapshots
<1>2. Exists(f) => new.life = f.life /\ new.ver = f.ver + 1
  <2> SUFFICES ASSUME Exists(f) PROVE new.life = f.life /\ new.ver = f.ver + 1
    OBVIOUS
  <2>1. new = [f EXCEPT !.ver = f.ver + 1, !.envs = envs]
    BY DEF Upserted
  <2> QED BY <1>1, <2>1 DEF Flags
<1>3. feature_flags' = [feature_flags EXCEPT ![k] = new]
  BY DEF SaveFlag
<1> HIDE DEF new
<1> QED BY <1>2, <1>3, RowWritten

\* Every step counts: only SaveFlag and UpdateRow change a row that stays.
LEMMA StepsCount == ReviewInv /\ [Next]_vars => Counted
<1> SUFFICES ASSUME ReviewInv, [Next]_vars PROVE Counted
  OBVIOUS
<1>1. RowsOK
  BY DEF ReviewInv
<1>2. CASE UNCHANGED feature_flags
  BY <1>2 DEF Counted
<1>3. CASE UNCHANGED vars
  BY <1>2, <1>3 DEF vars, tables
<1>4. ASSUME NEW h \in Handlers, FlagRequest(h) PROVE Counted
  <2>1. ASSUME NEW k \in Keys, NEW envs \in [Envs -> Payloads], WriteFlag(h, k, envs) PROVE Counted
    BY <1>1, <2>1, SaveFlagCounts DEF WriteFlag
  <2>2. \/ \E k \in Keys, envs \in [Envs -> Payloads] : WriteFlag(h, k, envs)
        \/ UNCHANGED feature_flags
    BY <1>4 DEF FlagRequest, ToggleFlagByProject, UpdateRolloutByProject, DeleteFlagByProject,
                UpdateRead, PromoteRead, SubmitRead, GetFlag, tables
  <2> QED BY <1>2, <2>1, <2>2
<1>5. ASSUME NEW h \in Handlers, OtherRequest(h) PROVE Counted
  <2>1. CASE Reset(h)
    <3>1. \A k \in Keys : ~ Exists(feature_flags'[k])
      BY SMT, <2>1 DEF Reset, NoFlags, NoFlag, Exists
    <3> QED BY <3>1 DEF Counted
  <2>2. Reset(h) \/ UNCHANGED feature_flags
    BY <1>5 DEF OtherRequest, ReviewChangeRequest, ApplyChangeRequest, GetChangeRequest,
                RevokeAPIKeyByProject, PurgeSelect, tables
  <2> QED BY <1>2, <2>1, <2>2
<1>6. ASSUME NEW h \in Handlers, Continue(h) PROVE Counted
  <2> DEFINE k == held[h].key
             f == feature_flags[k]
  <2>1. k \in Keys /\ f \in Flags
    BY <1>1, CopyTypes DEF RowsOK, Snapshots
  <2>2. ASSUME NEW envs, NEW life, SaveFlag(h, k, envs, life) PROVE Counted
    BY <1>1, <2>1, <2>2, SaveFlagCounts
  <2>3. CASE UpdateRow(h)
    <3> DEFINE new == Updated(f, held[h].flag)
    <3>1. new = f \/ (new.life = f.life /\ new.ver = f.ver + 1)
      <4> DEFINE next == [f EXCEPT !.ver = f.ver + 1, !.envs = held[h].flag.envs]
      <4>1. new = f \/ new = next
        BY DEF Updated
      <4>2. next.life = f.life /\ next.ver = f.ver + 1
        BY <2>1 DEF Flags
      <4> HIDE DEF next, new
      <4> QED BY <4>1, <4>2
    <3>2. feature_flags' = [feature_flags EXCEPT ![k] = new]
      BY <2>3 DEF UpdateRow
    <3> HIDE DEF new
    <3> QED BY <1>1, <2>1, <3>1, <3>2, RowWritten
  <2>4. CASE DeleteRow(h)
    <3>1. feature_flags' = [feature_flags EXCEPT ![k] = NoFlag] \/ UNCHANGED feature_flags
      BY <2>4 DEF DeleteRow
    <3>2. ~ Exists(NoFlag)
      BY SMT DEF NoFlag, Exists
    <3> QED BY <1>1, <1>2, <2>1, <3>1, <3>2, RowWritten
  <2>5. \/ \E envs, life : SaveFlag(h, k, envs, life)
        \/ UpdateRow(h) \/ DeleteRow(h) \/ UNCHANGED feature_flags
    BY <1>6, ZenonT(40) DEF Continue, UpdateSave, PromoteSave, ApplySave, CreateChangeRequest, ReviewUpdate,
                ApplyRead, MarkApplied, PurgeDelete, PurgeAnchor, PurgeRecord, AuditSelect,
                AuditAnchor, AuditInsert, tables
  <2> QED BY <1>2, <2>2, <2>3, <2>4, <2>5
<1>7. ASSUME NEW h \in Handlers, Abort(h) PROVE Counted
  BY <1>2, <1>7 DEF Abort, tables
<1> QED BY <1>3, <1>4, <1>5, <1>6, <1>7 DEF Next

-----------------------------------------------------------------------------
\* Nobody reviews their own request (ReviewChangeRequest reads, decides and
\* updates in separate statements): a request past review has a reviewer other
\* than its author, however many requests overlap.
THEOREM NobodyReviewsTheirOwn == Spec => []FourEyes
<1>1. ReviewInv => FourEyes
  BY DEF ReviewInv
<1> QED BY <1>1, ReviewInvStarts, ReviewInvKept, PTL DEF Spec

\* A request marked APPLIED has been written to its flag (ApplyChangeRequest
\* marks it last), even when requests are cut short between two statements.
THEOREM AppliedMeansLanded == Spec => []AppliedHasLanded
<1>1. ReviewInv => AppliedHasLanded
  BY DEF ReviewInv
<1> QED BY <1>1, ReviewInvStarts, ReviewInvKept, PTL DEF Spec

\* No statement of any request repeats or skips a version of a flag that stays
\* in place: SaveFlag, ToggleFlagByProject and UpdateRolloutByProject let the
\* database count.
THEOREM VersionsNeverRepeat == Spec => VersionsCountWrites
<1>1. ReviewInv /\ [Next]_vars => [Counted]_vars
  BY StepsCount
<1> QED BY <1>1, ReviewInvStarts, ReviewInvKept, PTL DEF Spec, VersionsCountWrites, Counted

-----------------------------------------------------------------------------
(* The audit log, while requests do not overlap.                           *)

\* The clock advances between two readings, and reads no finer than the column.
MicroClock == TicksPerMicro = 1 /\ 0 \notin ClockSteps

\* What VerifyAuditLogIntegrity asks of the links between the rows S of a
\* project whose anchor is a.
Linked(S, a) ==
    \A e \in S :
        LET older == { d \in S : Before(d, e) }
        IN  IF older = {} THEN e.prev \in {a, GENESIS} ELSE e.prev = Newest(older).seq

\* The rows S have been stamped one by one, at t at the latest.
Stamped(S, t) ==
    /\ t \in Nat /\ S \subseteq Entries
    /\ \A e \in S : e.ts <= t /\ e.nano = e.ts /\ e.id[2] = e.ts /\ e.seq # GENESIS
    /\ \A d, e \in S : d.ts = e.ts => d = e

\* Rows stamped one by one are ordered by their timestamps.
LEMMA StampsOrder ==
    ASSUME NEW S, NEW t, Stamped(S, t), NEW d \in S, NEW e \in S
    PROVE  d.ts \in Nat /\ e.ts \in Nat /\ d.ts <= t /\ (Before(d, e) <=> d.ts < e.ts)
<1>1. d.ts \in Nat /\ e.ts \in Nat /\ d.ts <= t /\ (d.ts = e.ts => d = e) /\ e.id[2] = e.ts
  BY DEF Stamped, Entries
<1>2. ~Before(e, e)
  BY SMT, <1>1 DEF Before
<1>3. d # e => (Before(d, e) <=> d.ts < e.ts)
  BY SMT, <1>1 DEF Before
<1>4. d = e => ~(d.ts < e.ts)
  BY SMT, <1>1
<1> QED BY <1>1, <1>2, <1>3, <1>4

\* A non-empty set of numbers below a bound has a greatest one.
LEMMA GreatestBelow ==
    ASSUME NEW V, V \subseteq Nat, V # {}, NEW b \in Nat, \A v \in V : v <= b
    PROVE  \E v \in V : \A w \in V : w <= v
<1> DEFINE D == { b - v : v \in V }
<1>1. D \subseteq Nat /\ D # {}
  <2>1. \A v \in V : b - v \in Nat
    BY SMT
  <2> QED BY <2>1
<1>2. PICK m \in D : \A y \in D : ~ (<<y, m>> \in OpToRel(<, Nat))
  BY <1>1, NatLessThanWellFounded, WFMin
<1>3. \A y \in D : ~ (y < m)
  BY <1>1, <1>2 DEF OpToRel
<1>4. PICK v \in V : m = b - v
  OBVIOUS
<1>5. ASSUME NEW w \in V PROVE w <= v
  <2>1. ~ (b - w < b - v)
    BY <1>3, <1>4
  <2> QED BY SMT, <2>1
<1> QED BY <1>5

\* The first row of a query that asks for the newest.
LEMMA NewestFound ==
    ASSUME NEW S, S # {}, NEW t, Stamped(S, t)
    PROVE  Newest(S) \in S /\ \A d \in S : d = Newest(S) \/ d.ts < Newest(S).ts
<1> DEFINE V == { e.ts : e \in S }
<1>1. \A e \in S : e.ts \in Nat /\ e.ts <= t
  BY StampsOrder
<1>2. V \subseteq Nat /\ V # {} /\ t \in Nat /\ \A v \in V : v <= t
  BY <1>1 DEF Stamped
<1>3. PICK v \in V : \A w \in V : w <= v
  <2> HIDE DEF V
  <2> QED BY <1>2, GreatestBelow
<1>4. PICK e \in S : v = e.ts
  OBVIOUS
<1>5. ASSUME NEW d \in S PROVE d = e \/ d.ts < e.ts
  <2>1. d.ts \in Nat /\ e.ts \in Nat /\ d.ts <= e.ts /\ (d.ts = e.ts => d = e)
    BY <1>1, <1>3, <1>4 DEF Stamped
  <2> QED BY SMT, <2>1
<1>6. \A d \in S : d = e \/ Before(d, e)
  BY <1>5, StampsOrder
<1>7. Newest(S) \in S /\ \A d \in S : d = Newest(S) \/ Before(d, Newest(S))
  BY <1>6 DEF Newest
<1> QED BY <1>7, StampsOrder

\* A row stamped last and linked to the newest extends the chain.
LEMMA LinkedInsert ==
    ASSUME NEW S, NEW e, NEW t, Stamped(S \cup {e}, t), NEW a, Linked(S, a),
           \A d \in S : d.ts < e.ts,
           e.prev = IF S = {} THEN a ELSE Newest(S).seq
    PROVE  Linked(S \cup {e}, a)
<1> DEFINE R == S \cup {e}
<1>1. \A c, d \in R : c.ts \in Nat /\ (Before(c, d) <=> c.ts < d.ts)
  <2> HIDE DEF R
  <2> QED BY StampsOrder DEF R
<1>2. \A d \in S : Before(d, e) /\ ~Before(e, d)
  BY SMT, <1>1
<1>3. ~Before(e, e)
  BY SMT, <1>1
<1>4. ASSUME NEW d \in R
      PROVE  LET older == { c \in R : Before(c, d) }
             IN  IF older = {} THEN d.prev \in {a, GENESIS} ELSE d.prev = Newest(older).seq
  <2>1. CASE d = e
    <3>1. { c \in R : Before(c, d) } = S
      BY <1>2, <1>3, <2>1
    <3> QED BY <2>1, <3>1
  <2>2. CASE d \in S
    <3>1. { c \in R : Before(c, d) } = { c \in S : Before(c, d) }
      BY <1>2, <2>2
    <3> QED BY <2>2, <3>1 DEF Linked
  <2> QED BY <2>1, <2>2
<1> QED BY <1>4 DEF Linked

\* Removing the rows before some time leaves a chain that continues the newest
\* row removed.
LEMMA LinkedPurge ==
    ASSUME NEW S, NEW t, Stamped(S, t), NEW a, Linked(S, a), NEW x \in Nat,
           NEW gone, gone = { e \in S : e.ts < x }, gone # {}
    PROVE  Linked(S \ gone, Newest(gone).seq)
<1>1. \A c, d \in S : c.ts \in Nat /\ (Before(c, d) <=> c.ts < d.ts)
  BY StampsOrder
<1>2. \A c \in gone, d \in S \ gone : Before(c, d)
  <2> TAKE c \in gone, d \in S \ gone
  <2>1. c.ts < x /\ ~(d.ts < x) /\ c.ts \in Nat /\ d.ts \in Nat
    BY <1>1
  <2>2. c.ts < d.ts
    BY SMT, <2>1
  <2> QED BY <1>1, <2>2
<1>3. ASSUME NEW e \in S \ gone
      PROVE  LET older == { d \in S \ gone : Before(d, e) }
             IN  IF older = {} THEN e.prev \in {Newest(gone).seq, GENESIS}
                 ELSE e.prev = Newest(older).seq
  <2> DEFINE all == { d \in S : Before(d, e) }
             older == { d \in S \ gone : Before(d, e) }
  <2>1. all # {} /\ all = older \cup gone /\ older \subseteq S /\ all \subseteq S
    BY <1>2
  <2>2. e.prev = Newest(all).seq
    BY <2>1 DEF Linked
  <2>3. CASE older = {}
    BY <2>1, <2>2, <2>3
  <2>4. CASE older # {}
    <3>1. Stamped(older, t) /\ Stamped(all, t)
      BY DEF Stamped
    <3> HIDE DEF older, all
    <3>2. Newest(older) \in older /\ \A d \in older : d = Newest(older) \/ d.ts < Newest(older).ts
      BY <2>4, <3>1, NewestFound
    <3>3. Newest(all) \in all /\ \A d \in all : d = Newest(all) \/ d.ts < Newest(all).ts
      BY <2>1, <3>1, NewestFound
    <3>4. \A d \in gone : d.ts < Newest(older).ts
      BY <1>1, <1>2, <2>1, <3>2 DEF older
    <3>5. \/ Newest(all) = Newest(older)
          \/ Newest(all).ts < Newest(older).ts /\ Newest(older).ts < Newest(all).ts
      BY <2>1, <3>2, <3>3, <3>4
    <3>6. Newest(all).ts \in Nat /\ Newest(older).ts \in Nat
      BY <1>1, <2>1, <3>2, <3>3
    <3>7. Newest(all) = Newest(older)
      BY SMT, <3>5, <3>6
    <3> QED BY <2>2, <2>4, <3>7 DEF older
  <2> QED BY <2>3, <2>4
<1> QED BY <1>3 DEF Linked

-----------------------------------------------------------------------------
LogTypes ==
    /\ audit_anchors \in [Projects -> Nat]
    /\ entry \in [Handlers -> Entries]
    /\ cutoff \in [Handlers -> Nat]
    /\ nextSeq \in Nat /\ nextSeq # GENESIS

\* What a request relies on about the log from one statement to the next: the
\* hash a purge has picked is that of the newest row to go; an entry was
\* stamped after every row, and is linked to the newest of its project.
LinkInv(h) ==
    LET own == Own(entry[h].proj)
        gone == Purgeable(entry[h].proj, cutoff[h])
    IN  /\ pc[h] = "purgeDelete" =>
              entry[h].prev = IF gone = {} THEN GENESIS ELSE Newest(gone).seq
        /\ pc[h] = "purgeAnchor" => Linked(own, entry[h].prev)
        /\ pc[h] \in Auditing =>
              /\ entry[h].ts = clock /\ entry[h].nano = clock /\ entry[h].id[2] = clock
              /\ \A e \in audit_logs : e.ts < clock
        /\ pc[h] = "auditAnchor" => own = {}
        /\ pc[h] = "auditInsert" =>
              entry[h].prev = IF own = {} THEN audit_anchors[entry[h].proj] ELSE Newest(own).seq

\* The inductive invariant: while requests do not overlap, a project's chain
\* continues its anchor, except between the two statements of a purge.
SerialInv ==
    serial =>
        /\ LogTypes /\ Stamped(audit_logs, clock)
        /\ \A g, h \in Handlers : pc[g] # "idle" /\ pc[h] # "idle" => g = h
        /\ \A p \in Projects :
            (\A h \in Handlers : pc[h] = "purgeAnchor" => entry[h].proj # p) =>
                Linked(Own(p), audit_anchors[p])
        /\ \A h \in Handlers : LinkInv(h)

\* A statement of h: the first of a request, or a later one.
Serves(h) ==
    /\ \E label : pc' = [pc EXCEPT ![h] = label]
    /\ \/ serial' = (serial /\ \A g \in Handlers : pc[g] = "idle")
       \/ pc[h] # "idle" /\ serial' = serial

\* While requests do not overlap, nobody else is in the middle of one.
LEMMA ServesAlone ==
    ASSUME RowsOK, SerialInv, NEW h \in Handlers, Serves(h), serial'
    PROVE  serial /\ \A g \in Handlers \ {h} : pc[g] = "idle" /\ pc'[g] = "idle"
<1>1. serial /\ \A g \in Handlers \ {h} : pc[g] = "idle"
  BY DEF SerialInv, Serves
<1>2. \A g \in Handlers \ {h} : pc'[g] = pc[g]
  BY DEF Serves, RowsOK
<1> QED BY <1>1, <1>2

\* So the invariant is about h only.
LEMMA SerialStep ==
    ASSUME NEW h \in Handlers, \A g \in Handlers \ {h} : pc'[g] = "idle",
           LogTypes', Stamped(audit_logs, clock)', LinkInv(h)',
           \A p \in Projects : ~(pc'[h] = "purgeAnchor" /\ entry'[h].proj = p) =>
                Linked(Own(p), audit_anchors[p])'
    PROVE  SerialInv'
<1>1. ASSUME NEW g \in Handlers PROVE LinkInv(g)'
  <2>1. CASE g = h
    BY <2>1
  <2>2. CASE pc'[g] = "idle"
    BY <2>2 DEF LinkInv, Auditing
  <2> QED BY <2>1, <2>2
<1>2. \A f, g \in Handlers : pc'[f] # "idle" /\ pc'[g] # "idle" => f = g
  OBVIOUS
<1>3. ASSUME NEW p \in Projects, \A g \in Handlers : pc'[g] = "purgeAnchor" => entry'[g].proj # p
      PROVE  Linked(Own(p), audit_anchors[p])'
  BY <1>3
<1> QED BY <1>1, <1>2, <1>3 DEF SerialInv

\* An empty entry, and one about what a request did, have their types.
LEMMA EntryType ==
    ASSUME MicroClock, NEW prefix \in {"log", "audit"}, NEW nano \in Nat, NEW p \in Projects,
           NEW k \in Subjects, NEW f \in Flags
    PROVE  /\ Entry(prefix, nano, p, k, f) \in Entries
           /\ Entry(prefix, nano, p, k, f).ts = nano
           /\ Entry(prefix, nano, p, k, f).nano = nano
           /\ Entry(prefix, nano, p, k, f).id[2] = nano
           /\ Entry(prefix, nano, p, k, f).proj = p
<1>1. Micros(nano) = nano
  BY SMT DEF MicroClock, Micros
<1>2. f.life \in Nat /\ f.ver \in Nat /\ <<prefix, nano>> \in {"log", "audit"} \X Nat
  BY DEF Flags
<1>3. 0 \in Nat
  BY SMT
<1> QED BY <1>1, <1>2, <1>3 DEF Entry, Entries, GENESIS

LEMMA NoEntryType == ASSUME MicroClock PROVE NoEntry \in Entries
<1>1. (CHOOSE p \in Projects : TRUE) \in Projects
  BY InputAssumption
<1>2. "audit-logs" \in Subjects /\ 0 \in Nat
  BY SMT DEF Subjects
<1> QED BY <1>1, <1>2, EntryType, DefaultTypes DEF NoEntry

\* Statements that leave the log alone, of requests that are not about it.
LEMMA QuietSerial ==
    ASSUME MicroClock, RowsOK, SerialInv, NEW h \in Handlers, Serves(h),
           UNCHANGED <<audit_logs, audit_anchors, clock, nextSeq>>,
           UNCHANGED <<entry, cutoff>> \/ Done(h), pc[h] # "purgeAnchor",
           pc'[h] \notin Auditing \cup {"purgeDelete", "purgeAnchor"}
    PROVE  SerialInv'
<1> SUFFICES ASSUME serial' PROVE SerialInv'
  BY DEF SerialInv
<1>1. serial /\ \A g \in Handlers \ {h} : pc[g] = "idle" /\ pc'[g] = "idle"
  BY ServesAlone
<1>2. LogTypes /\ Stamped(audit_logs, clock)
      /\ \A p \in Projects : Linked(Own(p), audit_anchors[p])
  BY <1>1 DEF SerialInv
<1>3. LogTypes'
  <2>1. 0 \in Nat
    BY SMT
  <2> QED BY <1>2, <2>1, NoEntryType DEF LogTypes, Done
<1>4. LinkInv(h)'
  BY DEF LinkInv, Auditing
<1>5. ASSUME NEW p \in Projects PROVE Linked(Own(p), audit_anchors[p])'
  <2>1. Own(p)' = Own(p)
    BY DEF Own
  <2> QED BY <1>2, <2>1
<1> QED BY <1>1, <1>2, <1>3, <1>4, <1>5, SerialStep

\* A request ends.
LEMMA EndSerial ==
    ASSUME MicroClock, RowsOK, SerialInv, NEW h \in Handlers, Serves(h), Done(h),
           UNCHANGED <<audit_logs, audit_anchors, clock, nextSeq>>, pc[h] # "purgeAnchor"
    PROVE  SerialInv'
<1>1. pc'[h] = "idle"
  BY DEF Done, Goto, RowsOK
<1> QED BY <1>1, QuietSerial DEF Auditing

\* A request has built its entry: the clock has advanced beyond every row.
LEMMA AuditSerial ==
    ASSUME MicroClock, RowsOK, SerialInv, NEW h \in Handlers, Serves(h),
           NEW prefix \in {"log", "audit"}, NEW p \in Projects, NEW k \in Subjects,
           NEW f \in Flags, Audit(h, prefix, p, k, f),
           UNCHANGED <<audit_logs, audit_anchors, cutoff, nextSeq>>, pc[h] # "purgeAnchor"
    PROVE  SerialInv'
<1> SUFFICES ASSUME serial' PROVE SerialInv'
  BY DEF SerialInv
<1> DEFINE e == Entry(prefix, clock', p, k, f)
<1>1. serial /\ \A g \in Handlers \ {h} : pc[g] = "idle" /\ pc'[g] = "idle"
  BY ServesAlone
<1>2. LogTypes /\ Stamped(audit_logs, clock)
      /\ \A q \in Projects : Linked(Own(q), audit_anchors[q])
  BY <1>1 DEF SerialInv
<1>3. clock \in Nat /\ clock' \in Nat /\ clock < clock'
  <2>1. clock \in Nat
    BY <1>2 DEF Stamped
  <2>2. PICK d \in ClockSteps : clock' = clock + d
    BY DEF Audit, ReadClock
  <2>3. d \in Nat /\ d # 0
    BY InputAssumption DEF MicroClock
  <2> QED BY SMT, <2>1, <2>2, <2>3
<1>4. e \in Entries /\ e.ts = clock' /\ e.nano = clock' /\ e.id[2] = clock'
  BY SMT, <1>3, EntryType
<1>5. entry' = [entry EXCEPT ![h] = e] /\ pc' = [pc EXCEPT ![h] = "auditSelect"]
  BY DEF Audit, Goto
<1> HIDE DEF e
<1>6. entry'[h] = e /\ pc'[h] = "auditSelect" /\ entry' \in [Handlers -> Entries]
  BY <1>2, <1>4, <1>5 DEF LogTypes, RowsOK
<1>7. LogTypes'
  BY <1>2, <1>6 DEF LogTypes
<1>8. \A d \in audit_logs : d.ts \in Nat /\ d.ts <= clock
  BY <1>2 DEF Stamped, Entries
<1>9. \A d \in audit_logs : d.ts < clock' /\ d.ts <= clock'
  BY SMT, <1>3, <1>8
<1>10. Stamped(audit_logs, clock)'
  BY <1>2, <1>3, <1>9 DEF Stamped
<1>11. LinkInv(h)'
  BY <1>4, <1>6, <1>9 DEF LinkInv, Auditing
<1>12. ASSUME NEW q \in Projects PROVE Linked(Own(q), audit_anchors[q])'
  <2>1. Own(q)' = Own(q)
    BY DEF Own
  <2> QED BY <1>2, <2>1
<1> QED BY <1>1, <1>7, <1>10, <1>11, <1>12, SerialStep

\* SaveFlag goes on to insertAuditLog.
LEMMA SaveFlagSerial ==
    ASSUME MicroClock, RowsOK, SerialInv, NEW h \in Handlers, Serves(h), pc[h] # "purgeAnchor",
           NEW k \in Keys, NEW envs \in [Envs -> Configs], NEW life \in Nat,
           SaveFlag(h, k, envs, life)
    PROVE  SerialInv'
<1> DEFINE f == Upserted(k, envs, life)
<1>1. f \in Flags /\ k \in Subjects /\ ProjectOf[k] \in Projects
  BY UpsertedType, ProjectAssumption DEF Subjects
<1>2. /\ Audit(h, "log", ProjectOf[k], k, f)
      /\ UNCHANGED <<audit_logs, audit_anchors, cutoff, nextSeq>>
  BY DEF SaveFlag
<1> HIDE DEF f
<1> QED BY <1>1, <1>2, AuditSerial

\* insertAuditLog's two queries.
LEMMA AuditQuerySerial ==
    ASSUME RowsOK, SerialInv, NEW h \in Handlers, AuditSelect(h) \/ AuditAnchor(h)
    PROVE  SerialInv'
<1> SUFFICES ASSUME serial' PROVE SerialInv'
  BY DEF SerialInv
<1> DEFINE own == Own(entry[h].proj)
<1>1. Serves(h) /\ pc[h] \in Auditing
      /\ UNCHANGED <<audit_logs, audit_anchors, clock, nextSeq, cutoff>>
  BY DEF AuditSelect, AuditAnchor, Goto, Serves, tables, counters, history, Auditing
<1>2. serial /\ \A g \in Handlers \ {h} : pc[g] = "idle" /\ pc'[g] = "idle"
  BY <1>1, ServesAlone
<1>3. LogTypes /\ Stamped(audit_logs, clock) /\ LinkInv(h)
      /\ \A q \in Projects : Linked(Own(q), audit_anchors[q])
  BY <1>1, <1>2 DEF SerialInv, Auditing
<1>4. entry[h] \in Entries /\ entry[h].proj \in Projects /\ audit_anchors[entry[h].proj] \in Nat
  BY <1>3 DEF LogTypes, Entries
<1>5. \/ own = {} /\ pc'[h] = "auditAnchor" /\ entry' = entry
      \/ /\ pc'[h] = "auditInsert"
         /\ entry' = [entry EXCEPT ![h].prev =
                        IF own = {} THEN audit_anchors[entry[h].proj] ELSE Newest(own).seq]
  <2>1. CASE AuditSelect(h)
    BY <2>1 DEF AuditSelect, Goto, RowsOK
  <2>2. CASE AuditAnchor(h)
    <3>1. own = {}
      BY <1>3, <2>2 DEF AuditAnchor, LinkInv
    <3> QED BY <2>2, <3>1 DEF AuditAnchor, Goto, RowsOK
  <2> QED BY <2>1, <2>2
<1>6. own # {} => Newest(own).seq \in Nat
  <2>1. Stamped(own, clock)
    BY <1>3 DEF Stamped, Own
  <2> SUFFICES ASSUME own # {} PROVE Newest(own).seq \in Nat
    OBVIOUS
  <2> HIDE DEF own
  <2>2. Newest(own) \in own
    BY <2>1, NewestFound
  <2> QED BY <2>1, <2>2 DEF Stamped, Entries
<1>7. /\ entry'[h] \in Entries /\ entry' \in [Handlers -> Entries]
      /\ entry'[h].proj = entry[h].proj /\ entry'[h].ts = entry[h].ts
      /\ entry'[h].nano = entry[h].nano /\ entry'[h].id = entry[h].id
      /\ pc'[h] = "auditInsert" =>
            entry'[h].prev = IF own = {} THEN audit_anchors[entry[h].proj] ELSE Newest(own).seq
  <2> DEFINE v == IF own = {} THEN audit_anchors[entry[h].proj] ELSE Newest(own).seq
             e == [entry[h] EXCEPT !.prev = v]
  <2>1. v \in Nat
    BY <1>4, <1>6
  <2> HIDE DEF v
  <2>2. /\ e \in Entries /\ e.proj = entry[h].proj /\ e.ts = entry[h].ts
        /\ e.nano = entry[h].nano /\ e.id = entry[h].id /\ e.prev = v
    BY <1>4, <2>1 DEF Entries
  <2>3. \/ pc'[h] = "auditAnchor" /\ entry' = entry
        \/ entry' = [entry EXCEPT ![h] = e]
    BY <1>5 DEF v
  <2> HIDE DEF e
  <2>4. entry \in [Handlers -> Entries]
    BY <1>3 DEF LogTypes
  <2>5. CASE pc'[h] = "auditAnchor" /\ entry' = entry
    BY <1>4, <2>4, <2>5
  <2>6. CASE entry' = [entry EXCEPT ![h] = e]
    <3>1. entry'[h] = e /\ entry' \in [Handlers -> Entries]
      BY <2>2, <2>4, <2>6
    <3> QED BY <2>2, <3>1 DEF v
  <2> QED BY <2>3, <2>5, <2>6
<1>8. Own(entry[h].proj)' = own
  BY <1>1, <1>7 DEF Own
<1>9. LinkInv(h)'
  BY <1>1, <1>3, <1>5, <1>7, <1>8 DEF LinkInv, Auditing
<1>10. LogTypes' /\ Stamped(audit_logs, clock)'
  BY <1>1, <1>3, <1>7 DEF LogTypes
<1>11. ASSUME NEW q \in Projects PROVE Linked(Own(q), audit_anchors[q])'
  <2>1. Own(q)' = Own(q)
    BY <1>1 DEF Own
  <2> QED BY <1>1, <1>3, <2>1
<1> QED BY <1>2, <1>9, <1>10, <1>11, SerialStep

\* insertAuditLog's INSERT: the ID is new, and the row extends its chain.
LEMMA AuditInsertSerial ==
    ASSUME MicroClock, RowsOK, SerialInv, NEW h \in Handlers, AuditInsert(h)
    PROVE  SerialInv'
<1> SUFFICES ASSUME serial' PROVE SerialInv'
  BY DEF SerialInv
<1> DEFINE e == entry[h]
           row == [e EXCEPT !.seq = nextSeq]
           taken == \E l \in audit_logs : l.id = e.id
<1>1. Serves(h) /\ pc[h] = "auditInsert" /\ UNCHANGED <<audit_anchors, clock>>
  BY DEF AuditInsert, Serves, Done, Goto
<1>2. serial /\ \A g \in Handlers \ {h} : pc[g] = "idle" /\ pc'[g] = "idle"
  BY <1>1, ServesAlone
<1>3. LogTypes /\ Stamped(audit_logs, clock) /\ LinkInv(h)
      /\ \A q \in Projects : Linked(Own(q), audit_anchors[q])
  BY <1>1, <1>2 DEF SerialInv
<1>4. /\ e \in Entries /\ e.ts = clock /\ e.nano = clock /\ e.id[2] = clock
      /\ \A d \in audit_logs : d.ts < clock /\ d.ts \in Nat /\ d.id[2] = d.ts
      /\ e.prev = IF Own(e.proj) = {} THEN audit_anchors[e.proj] ELSE Newest(Own(e.proj)).seq
      /\ clock \in Nat /\ nextSeq \in Nat /\ nextSeq # GENESIS
  BY <1>1, <1>3 DEF LogTypes, LinkInv, Auditing, Stamped, Entries
<1>5. ~taken
  <2> SUFFICES ASSUME NEW l \in audit_logs, l.id = e.id PROVE FALSE
    OBVIOUS
  <2>1. l.ts < clock /\ l.ts = clock /\ clock \in Nat
    BY <1>4
  <2> QED BY SMT, <2>1
<1>6. audit_logs' = audit_logs \cup {row} /\ nextSeq' = nextSeq + 1
      /\ (Done(h) \/ (pc' = [pc EXCEPT ![h] = "markApplied"] /\ UNCHANGED local))
  BY <1>5 DEF AuditInsert, Goto
<1>7. /\ row \in Entries /\ row.ts = clock /\ row.nano = clock /\ row.id[2] = clock
      /\ row.seq = nextSeq /\ row.prev = e.prev /\ row.proj = e.proj
  BY <1>4 DEF Entries
<1> HIDE DEF row, taken
<1>8. clock <= clock /\ nextSeq + 1 \in Nat /\ nextSeq + 1 # 0 /\ 0 \in Nat
      /\ \A d \in audit_logs : d.ts # clock /\ d.ts <= clock
  BY SMT, <1>4
<1>9. Stamped(audit_logs \cup {row}, clock)
  BY <1>3, <1>4, <1>7, <1>8 DEF Stamped
<1>10. LogTypes'
  BY <1>1, <1>3, <1>6, <1>8, NoEntryType DEF LogTypes, Done, local, GENESIS
<1>11. pc'[h] \in {"idle", "markApplied"}
  BY <1>6 DEF Done, Goto, RowsOK
<1>12. LinkInv(h)'
  BY <1>11 DEF LinkInv, Auditing
<1>13. ASSUME NEW q \in Projects PROVE Linked(Own(q), audit_anchors[q])'
  <2>1. CASE q # e.proj
    <3>1. Own(q)' = Own(q)
      BY <1>6, <1>7, <2>1 DEF Own
    <3> QED BY <1>1, <1>3, <3>1
  <2>2. CASE q = e.proj
    <3> DEFINE S == Own(q)
    <3>1. Own(q)' = S \cup {row}
      BY <1>6, <1>7, <2>2 DEF Own
    <3>2. Stamped(S \cup {row}, clock) /\ \A d \in S : d.ts < row.ts
      BY <1>4, <1>7, <1>9 DEF Stamped, Own
    <3>3. Linked(S, audit_anchors[q]) /\ row.prev = IF S = {} THEN audit_anchors[q] ELSE Newest(S).seq
      BY <1>3, <1>4, <1>7, <2>2
    <3> HIDE DEF S
    <3>4. Linked(S \cup {row}, audit_anchors[q])
      BY <3>2, <3>3, LinkedInsert
    <3> QED BY <1>1, <3>1, <3>4
  <2> QED BY <2>1, <2>2
<1> QED BY <1>1, <1>2, <1>6, <1>9, <1>10, <1>12, <1>13, SerialStep

\* PurgeAuditLogs picks the newest row to go.
LEMMA PurgeSelectSerial ==
    ASSUME MicroClock, RowsOK, SerialInv, NEW h \in Handlers, NEW p \in Projects,
           NEW before \in 0 .. clock, PurgeSelect(h, p, before)
    PROVE  SerialInv'
<1> SUFFICES ASSUME serial' PROVE SerialInv'
  BY DEF SerialInv
<1> DEFINE gone == Purgeable(p, before)
           v == IF gone = {} THEN GENESIS ELSE Newest(gone).seq
           b == Entry("log", 0, p, "audit-logs", NoFlag)
           e == [b EXCEPT !.prev = v]
<1>1. Serves(h) /\ UNCHANGED <<audit_logs, audit_anchors, clock, nextSeq>> /\ pc[h] = "idle"
  BY DEF PurgeSelect, Begin, Goto, Serves, tables
<1>2. serial /\ \A g \in Handlers \ {h} : pc[g] = "idle" /\ pc'[g] = "idle"
  BY <1>1, ServesAlone
<1>3. LogTypes /\ Stamped(audit_logs, clock)
      /\ \A q \in Projects : Linked(Own(q), audit_anchors[q])
  BY <1>1, <1>2 DEF SerialInv
<1>4. clock \in Nat /\ 0 \in Nat /\ before \in Nat
  <2>1. clock \in Nat
    BY <1>3 DEF Stamped
  <2> QED BY SMT, <2>1
<1>5. v \in Nat
  <2>1. Stamped(gone, clock)
    BY <1>3 DEF Stamped, Purgeable, Own
  <2>2. CASE gone = {}
    BY <1>4, <2>2 DEF GENESIS
  <2>3. CASE gone # {}
    <3> HIDE DEF gone
    <3>1. Newest(gone) \in gone
      BY <2>1, <2>3, NewestFound
    <3> QED BY <2>1, <2>3, <3>1 DEF Stamped, Entries
  <2> QED BY <2>2, <2>3
<1>6. b \in Entries /\ b.proj = p
  <2>1. "log" \in {"log", "audit"} /\ "audit-logs" \in Subjects /\ NoFlag \in Flags
    BY DefaultTypes DEF Subjects
  <2> QED BY SMT, <1>4, <2>1, EntryType
<1>7. /\ entry' = [entry EXCEPT ![h] = e] /\ cutoff' = [cutoff EXCEPT ![h] = before]
      /\ pc' = [pc EXCEPT ![h] = "purgeDelete"]
  BY DEF PurgeSelect, Goto
<1> HIDE DEF v, b
<1>8. e \in Entries /\ e.proj = p /\ e.prev = v
  BY <1>5, <1>6 DEF Entries
<1> HIDE DEF e
<1>9. /\ entry'[h] = e /\ cutoff'[h] = before /\ pc'[h] = "purgeDelete"
      /\ entry' \in [Handlers -> Entries] /\ cutoff' \in [Handlers -> Nat]
  BY <1>3, <1>4, <1>7, <1>8 DEF LogTypes, RowsOK
<1>10. LogTypes' /\ Stamped(audit_logs, clock)'
  BY <1>1, <1>3, <1>9 DEF LogTypes
<1>11. LinkInv(h)'
  <2>1. Purgeable(entry[h].proj, cutoff[h])' = gone
    BY <1>1, <1>8, <1>9 DEF Purgeable, Own
  <2> QED BY <1>8, <1>9, <2>1 DEF LinkInv, Auditing, v
<1>12. ASSUME NEW q \in Projects PROVE Linked(Own(q), audit_anchors[q])'
  <2>1. Own(q)' = Own(q)
    BY <1>1 DEF Own
  <2> QED BY <1>1, <1>3, <2>1
<1> QED BY <1>2, <1>10, <1>11, <1>12, SerialStep

\* It deletes these rows: what is left continues the one it picked.
LEMMA PurgeDeleteSerial ==
    ASSUME RowsOK, SerialInv, NEW h \in Handlers, PurgeDelete(h)
    PROVE  SerialInv'
<1> SUFFICES ASSUME serial' PROVE SerialInv'
  BY DEF SerialInv
<1> DEFINE p == entry[h].proj
           gone == Purgeable(p, cutoff[h])
<1>1. /\ Serves(h) /\ pc[h] = "purgeDelete" /\ audit_logs' = audit_logs \ gone
      /\ UNCHANGED <<audit_anchors, clock, nextSeq, entry, cutoff>>
  BY DEF PurgeDelete, Goto, Serves, local, counters, history
<1>2. serial /\ \A g \in Handlers \ {h} : pc[g] = "idle" /\ pc'[g] = "idle"
  BY <1>1, ServesAlone
<1>3. /\ LogTypes /\ Stamped(audit_logs, clock)
      /\ entry[h].prev = IF gone = {} THEN GENESIS ELSE Newest(gone).seq
      /\ \A q \in Projects : Linked(Own(q), audit_anchors[q])
  BY <1>1, <1>2 DEF SerialInv, LinkInv
<1>4. p \in Projects /\ cutoff[h] \in Nat
  BY <1>3 DEF LogTypes, Entries
<1>5. LogTypes' /\ Stamped(audit_logs, clock)'
  BY <1>1, <1>3 DEF LogTypes, Stamped
<1>6. gone # {} => entry[h].prev # GENESIS
  <2> SUFFICES ASSUME gone # {} PROVE entry[h].prev # GENESIS
    OBVIOUS
  <2>1. Stamped(gone, clock)
    BY <1>3 DEF Stamped, Purgeable, Own
  <2> HIDE DEF gone
  <2>2. Newest(gone) \in gone
    BY <2>1, NewestFound
  <2> QED BY <1>3, <2>1, <2>2 DEF Stamped
<1>7. pc'[h] = IF gone # {} THEN "purgeAnchor" ELSE "purgeRecord"
  BY <1>6 DEF PurgeDelete, Goto, RowsOK
<1>8. Own(p)' = Own(p) \ gone
  BY <1>1 DEF Own, Purgeable
<1>9. gone # {} => Linked(Own(p) \ gone, entry[h].prev)
  <2> SUFFICES ASSUME gone # {} PROVE Linked(Own(p) \ gone, entry[h].prev)
    OBVIOUS
  <2>1. Stamped(Own(p), clock)
    BY <1>3 DEF Stamped, Own
  <2>2. gone = { e \in Own(p) : e.ts < cutoff[h] }
    BY DEF Purgeable
  <2>3. Linked(Own(p), audit_anchors[p])
    BY <1>3, <1>4
  <2> HIDE DEF gone
  <2> QED BY <1>3, <1>4, <2>1, <2>2, <2>3, LinkedPurge
<1>10. LinkInv(h)'
  BY <1>1, <1>7, <1>8, <1>9 DEF LinkInv, Auditing
<1>11. ASSUME NEW q \in Projects, ~(pc'[h] = "purgeAnchor" /\ entry'[h].proj = q)
       PROVE  Linked(Own(q), audit_anchors[q])'
  <2>1. Own(q)' = Own(q)
    BY <1>1, <1>7, <1>11 DEF Own, Purgeable
  <2> QED BY <1>1, <1>3, <2>1
<1> QED BY <1>2, <1>5, <1>10, <1>11, SerialStep

\* It writes the anchor the chain continues.
LEMMA PurgeAnchorSerial ==
    ASSUME RowsOK, SerialInv, NEW h \in Handlers, PurgeAnchor(h)
    PROVE  SerialInv'
<1> SUFFICES ASSUME serial' PROVE SerialInv'
  BY DEF SerialInv
<1> DEFINE p == entry[h].proj
<1>1. /\ Serves(h) /\ pc[h] = "purgeAnchor"
      /\ audit_anchors' = [audit_anchors EXCEPT ![p] = entry[h].prev]
      /\ pc' = [pc EXCEPT ![h] = "purgeRecord"]
      /\ UNCHANGED <<audit_logs, clock, nextSeq, entry, cutoff>>
  BY DEF PurgeAnchor, Goto, Serves, local, counters, history
<1>2. serial /\ \A g \in Handlers \ {h} : pc[g] = "idle" /\ pc'[g] = "idle"
  BY <1>1, ServesAlone
<1>3. /\ LogTypes /\ Stamped(audit_logs, clock) /\ Linked(Own(p), entry[h].prev)
      /\ \A q \in Projects \ {p} : Linked(Own(q), audit_anchors[q])
  <2>1. LogTypes /\ Stamped(audit_logs, clock) /\ LinkInv(h)
    BY <1>2 DEF SerialInv
  <2>2. \A q \in Projects \ {p} : \A g \in Handlers : pc[g] = "purgeAnchor" => entry[g].proj # q
    BY <1>2
  <2>3. \A q \in Projects \ {p} : Linked(Own(q), audit_anchors[q])
    BY <1>2, <2>2 DEF SerialInv
  <2> QED BY <1>1, <2>1, <2>3 DEF LinkInv
<1>4. p \in Projects /\ entry[h].prev \in Nat /\ audit_anchors \in [Projects -> Nat]
  BY <1>3 DEF LogTypes, Entries
<1>5. /\ audit_anchors' \in [Projects -> Nat] /\ audit_anchors'[p] = entry[h].prev
      /\ \A q \in Projects \ {p} : audit_anchors'[q] = audit_anchors[q]
  BY <1>1, <1>4
<1>6. LogTypes' /\ Stamped(audit_logs, clock)'
  BY <1>1, <1>3, <1>5 DEF LogTypes
<1>7. pc'[h] = "purgeRecord"
  BY <1>1 DEF RowsOK
<1>8. LinkInv(h)'
  BY <1>7 DEF LinkInv, Auditing
<1>9. ASSUME NEW q \in Projects PROVE Linked(Own(q), audit_anchors[q])'
  <2>1. Own(q)' = Own(q)
    BY <1>1 DEF Own
  <2>2. CASE q = p
    BY <1>3, <1>5, <2>1, <2>2
  <2>3. CASE q # p
    BY <1>3, <1>5, <2>1, <2>3
  <2> QED BY <2>2, <2>3
<1> QED BY <1>2, <1>6, <1>8, <1>9, SerialStep

\* Reset empties the log and forgets the anchors.
LEMMA ResetSerial ==
    ASSUME RowsOK, SerialInv, NEW h \in Handlers, Reset(h)
    PROVE  SerialInv'
<1> SUFFICES ASSUME serial' PROVE SerialInv'
  BY DEF SerialInv
<1>1. /\ audit_logs' = {} /\ audit_anchors' = [p \in Projects |-> GENESIS]
      /\ UNCHANGED <<pc, entry, cutoff, clock, nextSeq>> /\ pc[h] = "idle"
      /\ serial /\ \A g \in Handlers : pc[g] = "idle"
  BY DEF Reset, Begin, local
<1>2. LogTypes /\ clock \in Nat /\ GENESIS \in Nat
  <2>1. GENESIS \in Nat
    BY SMT DEF GENESIS
  <2> QED BY <1>1, <2>1 DEF SerialInv, Stamped
<1>3. LogTypes' /\ Stamped(audit_logs, clock)'
  BY <1>1, <1>2 DEF LogTypes, Stamped
<1>4. LinkInv(h)'
  BY <1>1 DEF LinkInv, Auditing
<1>5. ASSUME NEW q \in Projects PROVE Linked(Own(q), audit_anchors[q])'
  <2>1. Own(q)' = {}
    BY <1>1 DEF Own
  <2> QED BY <2>1 DEF Linked
<1> QED BY <1>1, <1>3, <1>4, <1>5, SerialStep

-----------------------------------------------------------------------------
\* The first statement of a request about a flag.
LEMMA FlagRequestSerial ==
    ASSUME MicroClock, ReviewInv, SerialInv, NEW h \in Handlers, FlagRequest(h)
    PROVE  SerialInv'
<1>1. RowsOK
  BY DEF ReviewInv
<1>2. ASSUME NEW k \in Keys, NEW f, NEW label \in {"save", "update", "delete", "promote", "submit"},
             GetFlag(h, k, f, label)
      PROVE  SerialInv'
  <2>1. /\ Serves(h) /\ pc[h] = "idle" /\ pc'[h] = label
        /\ UNCHANGED <<audit_logs, audit_anchors, clock, nextSeq, entry, cutoff>>
    BY <1>1, <1>2 DEF GetFlag, Begin, Goto, Serves, RowsOK, tables
  <2> QED BY <1>1, <2>1, QuietSerial DEF Auditing
<1>3. ASSUME NEW k \in Keys, NEW envs \in [Envs -> Payloads], WriteFlag(h, k, envs)
      PROVE  SerialInv'
  <2>1. Serves(h) /\ pc[h] = "idle" /\ SaveFlag(h, k, envs, 0)
    BY <1>3 DEF WriteFlag, SaveFlag, Audit, Begin, Goto, Serves
  <2>2. envs \in [Envs -> Configs] /\ 0 \in Nat
    <3>1. 0 \in Nat
      BY SMT
    <3> QED BY <3>1, PayloadType
  <2> QED BY <1>1, <2>1, <2>2, SaveFlagSerial
<1> QED BY <1>2, <1>3 DEF FlagRequest, ToggleFlagByProject, UpdateRolloutByProject,
                          DeleteFlagByProject, UpdateRead, PromoteRead, SubmitRead

\* The first statement of the other requests.
LEMMA OtherRequestSerial ==
    ASSUME MicroClock, ReviewInv, SerialInv, NEW h \in Handlers, OtherRequest(h)
    PROVE  SerialInv'
<1>1. RowsOK
  BY DEF ReviewInv
<1>2. ASSUME NEW c, NEW cr, NEW label \in {"review", "applyRead"},
             GetChangeRequest(h, c, cr, label)
      PROVE  SerialInv'
  <2>1. /\ Serves(h) /\ pc[h] = "idle" /\ pc'[h] = label
        /\ UNCHANGED <<audit_logs, audit_anchors, clock, nextSeq, entry, cutoff>>
    BY <1>1, <1>2 DEF GetChangeRequest, Begin, Goto, Serves, RowsOK, tables
  <2> QED BY <1>1, <2>1, QuietSerial DEF Auditing
<1>3. ASSUME NEW a \in APIKeys, RevokeAPIKeyByProject(h, a) PROVE SerialInv'
  <2>1. /\ Serves(h) /\ pc[h] = "idle" /\ Audit(h, "audit", ProjectOf[a], "api-keys", NoFlag)
        /\ UNCHANGED <<audit_logs, audit_anchors, cutoff, nextSeq>>
    BY <1>3 DEF RevokeAPIKeyByProject, Audit, Begin, Goto, Serves
  <2>2. ProjectOf[a] \in Projects /\ "api-keys" \in Subjects /\ NoFlag \in Flags
    BY ProjectAssumption, DefaultTypes DEF Subjects
  <2> QED BY <1>1, <2>1, <2>2, AuditSerial
<1> QED BY <1>1, <1>2, <1>3, PurgeSelectSerial, ResetSerial
        DEF OtherRequest, ReviewChangeRequest, ApplyChangeRequest

\* The later statements of a request.
LEMMA ContinueSerial ==
    ASSUME MicroClock, ReviewInv, SerialInv, NEW h \in Handlers, Continue(h)
    PROVE  SerialInv'
<1>1. RowsOK
  BY DEF ReviewInv
<1>2. /\ held[h].key \in Keys /\ held[h].flag \in Flags /\ held[h].flag.life \in Nat
      /\ held[h].flag.envs \in [Envs -> Configs] /\ feature_flags[held[h].key] \in Flags
  BY <1>1, CopyTypes DEF RowsOK, Snapshots
<1>3. ASSUME NEW label, pc[h] = label, label \in {"save", "promote", "applySave"},
             UNCHANGED serial, NEW envs \in [Envs -> Configs],
             SaveFlag(h, held[h].key, envs, held[h].flag.life)
      PROVE  SerialInv'
  <2>1. Serves(h)
    BY <1>3 DEF SaveFlag, Audit, Goto, Serves
  <2> QED BY <1>1, <1>2, <1>3, <2>1, SaveFlagSerial
<1>4. ASSUME NEW envs \in [Envs -> Payloads], UpdateSave(h, envs) PROVE SerialInv'
  <2>1. envs \in [Envs -> Configs]
    BY PayloadType
  <2> QED BY <1>3, <1>4, <2>1 DEF UpdateSave
<1>5. ASSUME NEW from \in Envs, NEW to \in Envs, PromoteSave(h, from, to) PROVE SerialInv'
  <2>1. [held[h].flag.envs EXCEPT ![to] = held[h].flag.envs[from]] \in [Envs -> Configs]
    BY <1>2
  <2> QED BY <1>3, <1>5, <2>1 DEF PromoteSave
<1>6. CASE ApplySave(h)
  BY <1>2, <1>3, <1>6 DEF ApplySave
<1>7. CASE UpdateRow(h)
  <2> DEFINE k == held[h].key
             new == Updated(feature_flags[k], held[h].flag)
  <2>1. new \in Flags /\ k \in Subjects /\ ProjectOf[k] \in Projects
    BY <1>2, UpdatedType, ProjectAssumption DEF Subjects
  <2>2. /\ Serves(h) /\ pc[h] = "update" /\ Audit(h, "log", ProjectOf[k], k, new)
        /\ UNCHANGED <<audit_logs, audit_anchors, cutoff, nextSeq>>
    BY <1>7 DEF UpdateRow, Audit, Goto, Serves, history
  <2> HIDE DEF new
  <2> QED BY <1>1, <2>1, <2>2, AuditSerial
<1>8. CASE DeleteRow(h)
  <2> DEFINE k == held[h].key
             f == feature_flags[k]
  <2>1. Serves(h) /\ pc[h] = "delete" /\ UNCHANGED <<audit_logs, audit_anchors, nextSeq>>
    BY <1>8 DEF DeleteRow, Audit, Done, Goto, Serves, history
  <2>2. CASE Exists(f)
    <3>1. f \in Flags /\ k \in Subjects /\ ProjectOf[k] \in Projects
      BY <1>2, ProjectAssumption DEF Subjects
    <3>2. Audit(h, "log", ProjectOf[k], k, f) /\ UNCHANGED cutoff
      BY <1>8, <2>2 DEF DeleteRow
    <3> QED BY <1>1, <2>1, <3>1, <3>2, AuditSerial
  <2>3. CASE ~Exists(f)
    <3>1. Done(h) /\ UNCHANGED clock
      BY <1>8, <2>3 DEF DeleteRow
    <3> QED BY <1>1, <2>1, <3>1, EndSerial
  <2> QED BY <2>2, <2>3
<1>9. CASE PurgeRecord(h)
  <2>1. /\ Serves(h) /\ pc[h] = "purgeRecord"
        /\ Audit(h, "log", entry[h].proj, "audit-logs", NoFlag)
        /\ UNCHANGED <<audit_logs, audit_anchors, cutoff, nextSeq>>
    BY <1>9 DEF PurgeRecord, Audit, Goto, Serves, tables, history
  <2>2. "audit-logs" \in Subjects /\ NoFlag \in Flags
    BY DefaultTypes DEF Subjects
  <2>3. CASE serial
    <3>1. entry[h].proj \in Projects
      BY <2>3 DEF SerialInv, LogTypes, Entries
    <3> QED BY <1>1, <2>1, <2>2, <3>1, AuditSerial
  <2>4. CASE ~serial
    BY <2>1, <2>4 DEF SerialInv, Serves
  <2> QED BY <2>3, <2>4
<1>10. ASSUME NEW c \in CRIds, NEW env \in Envs, NEW proposed \in Payloads, NEW u \in Users,
              CreateChangeRequest(h, c, env, proposed, u)
       PROVE  SerialInv'
  <2>1. /\ Serves(h) /\ Done(h) /\ pc[h] = "submit"
        /\ UNCHANGED <<audit_logs, audit_anchors, clock, nextSeq>>
    BY <1>10 DEF CreateChangeRequest, Done, Goto, Serves, counters, history
  <2> QED BY <1>1, <2>1, EndSerial
<1>11. CASE ReviewUpdate(h) \/ MarkApplied(h)
  <2>1. /\ Serves(h) /\ Done(h) /\ pc[h] \in {"review", "markApplied"}
        /\ UNCHANGED <<audit_logs, audit_anchors, clock, nextSeq>>
    BY <1>11 DEF ReviewUpdate, MarkApplied, Done, Goto, Serves, counters, history
  <2> QED BY <1>1, <2>1, EndSerial
<1>12. CASE ApplyRead(h)
  <2>1. /\ Serves(h) /\ pc[h] = "applyRead"
        /\ UNCHANGED <<audit_logs, audit_anchors, clock, nextSeq>>
        /\ Done(h) \/ (pc' = [pc EXCEPT ![h] = "applySave"] /\ UNCHANGED <<entry, cutoff>>)
    BY <1>12 DEF ApplyRead, Done, Goto, Serves, tables, counters, history
  <2>2. CASE Done(h)
    BY <1>1, <2>1, <2>2, EndSerial
  <2>3. CASE pc' = [pc EXCEPT ![h] = "applySave"] /\ UNCHANGED <<entry, cutoff>>
    <3>1. pc'[h] = "applySave"
      BY <1>1, <2>3 DEF RowsOK
    <3> QED BY <1>1, <2>1, <2>3, <3>1, QuietSerial DEF Auditing
  <2> QED BY <2>1, <2>2, <2>3
<1> QED
  BY <1>1, <1>4, <1>5, <1>6, <1>7, <1>8, <1>9, <1>10, <1>11, <1>12, PurgeDeleteSerial,
     PurgeAnchorSerial, AuditQuerySerial, AuditInsertSerial DEF Continue

\* SerialInv is inductive.
LEMMA SerialInvStarts == ASSUME MicroClock PROVE Init => SerialInv
<1> SUFFICES ASSUME Init PROVE SerialInv
  OBVIOUS
<1>1. 0 \in Nat /\ 1 \in Nat /\ 1 # 0
  BY SMT
<1>2. LogTypes
  BY <1>1, NoEntryType DEF Init, LogTypes, GENESIS
<1>3. Stamped(audit_logs, clock)
  BY <1>1 DEF Init, Stamped
<1>4. \A h \in Handlers : pc[h] = "idle"
  BY DEF Init
<1>5. \A h \in Handlers : LinkInv(h)
  BY <1>4 DEF LinkInv, Auditing
<1>6. \A p \in Projects : Linked(Own(p), audit_anchors[p])
  BY DEF Init, Linked, Own
<1> QED BY <1>2, <1>3, <1>4, <1>5, <1>6 DEF SerialInv

LEMMA SerialInvKept ==
    ASSUME MicroClock
    PROVE  ReviewInv /\ SerialInv /\ [Next]_vars => SerialInv'
<1> SUFFICES ASSUME ReviewInv, SerialInv, [Next]_vars PROVE SerialInv'
  OBVIOUS
<1>1. ASSUME NEW h \in Handlers, Abort(h) PROVE SerialInv'
  BY <1>1 DEF Abort, SerialInv
<1>2. CASE UNCHANGED vars
  <2>1. UNCHANGED <<audit_logs, audit_anchors, clock, nextSeq, entry, cutoff, pc, serial>>
    BY <1>2 DEF vars, tables, local, counters, history
  <2>2. \A p : Own(p)' = Own(p)
    BY <2>1 DEF Own
  <2>3. \A p, x : Purgeable(p, x)' = Purgeable(p, x)
    BY <2>2 DEF Purgeable
  <2>4. LogTypes' <=> LogTypes
    BY <2>1 DEF LogTypes
  <2>5. ASSUME NEW h \in Handlers, LinkInv(h) PROVE LinkInv(h)'
    BY <2>1, <2>2, <2>3, <2>5 DEF LinkInv
  <2> QED BY <2>1, <2>2, <2>4, <2>5 DEF SerialInv
<1> QED
  BY <1>1, <1>2, FlagRequestSerial, OtherRequestSerial, ContinueSerial DEF Next

\* If the clock advances between two readings and is no finer than the
\* timestamp column, requests served one after the other, purges included,
\* leave a log that VerifyAuditLogIntegrity accepts.
THEOREM SerialLogsVerify ==
    ASSUME MicroClock
    PROVE  Spec => []SerialChainsVerify
<1>1. ASSUME SerialInv PROVE SerialChainsVerify
  <2> SUFFICES ASSUME serial, \A h \in Handlers : pc[h] = "idle", NEW p \in Projects
               PROVE  VerifyAuditLogIntegrity(p)
    BY DEF SerialChainsVerify, ChainsVerify
  <2>1. Stamped(audit_logs, clock) /\ Linked(Own(p), audit_anchors[p])
    BY <1>1 DEF SerialInv
  <2> SUFFICES ASSUME NEW e \in Own(p)
               PROVE  /\ IF Older(e) = {} THEN e.prev \in {audit_anchors[p], GENESIS}
                         ELSE e.prev = Newest(Older(e)).seq
                      /\ HashMatches(e)
    BY DEF VerifyAuditLogIntegrity
  <2>2. Older(e) = { d \in Own(p) : Before(d, e) }
    BY DEF Older, Own
  <2>3. e.ts \in Nat /\ e.nano = e.ts
    BY <2>1 DEF Own, Stamped, Entries
  <2>4. HashMatches(e)
    BY SMT, <2>3 DEF HashMatches, MicroClock
  <2> QED BY <2>1, <2>2, <2>4 DEF Linked
<1>2. Init => ReviewInv /\ SerialInv
  BY ReviewInvStarts, SerialInvStarts
<1>3. ReviewInv /\ SerialInv /\ [Next]_vars => (ReviewInv /\ SerialInv)'
  BY ReviewInvKept, SerialInvKept
<1>4. SerialInv => SerialChainsVerify
  BY <1>1
<1> QED BY <1>2, <1>3, <1>4, PTL DEF Spec

=============================================================================
