----------------------------- MODULE StoreData ------------------------------
(***************************************************************************)
(* The records the stores keep (pkg/domain: FeatureFlag, EnvironmentConfig,*)
(* ChangeRequest) and the computations on them that every store shares.    *)
(*                                                                         *)
(* A key stands for a (project, flag key) pair.  Of an environment's       *)
(* configuration the master switch and the percentage are kept: toggles,   *)
(* rollouts, promotions and change requests tell nothing else apart.       *)
(***************************************************************************)
EXTENDS Integers

CONSTANTS
    Keys,           \* (project, flag key) pairs
    APIKeys,
    Projects,
    ProjectOf,      \* the project of every key and API key
    Envs,           \* environments of a flag
    Pcts,           \* percentages a caller may ask for
    PayloadVers,    \* config_version fields a client may send with a flag
    CRIds,          \* change request IDs, generated or chosen by the client
    Users,
    Reviewers,      \* users isAuthorizedReviewer accepts
    ClockSteps,     \* how far the clock may move between two readings
    MaxOps          \* bound: requests served in a behaviour

ASSUME ProjectAssumption == ProjectOf \in [Keys \cup APIKeys -> Projects]
ASSUME InputAssumption ==
    /\ Pcts \subseteq Int
    /\ PayloadVers \subseteq Nat
    /\ Reviewers \subseteq Users
    /\ ClockSteps \subseteq Nat
    /\ MaxOps \in Nat
    /\ Keys # {} /\ Projects # {} /\ Envs # {} /\ Users # {}

-----------------------------------------------------------------------------
\* A flag: life identifies it (it tells a flag from an earlier one of the same
\* key), ver is ConfigVersion.  A stored flag has a positive version, so
\* version 0 stands for a key with no flag.
Configs == [enabled : BOOLEAN, pct : Int]
\* The configurations clients send: ValidateEnvironmentConfig does not look at
\* the percentage, so it need not be one.
Payloads == [enabled : BOOLEAN, pct : Pcts]
Flags == [life : Nat, ver : Nat, envs : [Envs -> Configs]]
Snapshots == [Keys -> Flags]

DefaultConfig == [enabled |-> FALSE, pct |-> 0]
NoFlag == [life |-> 0, ver |-> 0, envs |-> [e \in Envs |-> DefaultConfig]]
NoFlags == [k \in Keys |-> NoFlag]
Exists(f) == f.ver > 0

\* One environment of a flag gets configuration c, and the change is counted.
WithConfig(f, env, c) ==
    [life |-> f.life, ver |-> f.ver + 1, envs |-> [f.envs EXCEPT ![env] = c]]

\* UpdateRollout keeps the percentage between 0 and 100.
Clamp(p) == IF p < 0 THEN 0 ELSE IF p > 100 THEN 100 ELSE p

\* A change request; life is that of the flag its author looked at, and an
\* unused ID has status NONE.
Statuses == {"NONE", "PENDING", "APPROVED", "REJECTED", "APPLIED"}
ChangeRequests ==
    [status : Statuses, key : Keys, env : Envs, proposed : Configs,
     author : Users, reviewer : Users, base : Nat, life : Nat]
AnyKey == CHOOSE k \in Keys : TRUE
AnyEnv == CHOOSE e \in Envs : TRUE
AnyUser == CHOOSE u \in Users : TRUE
NoCR ==
    [status |-> "NONE", key |-> AnyKey, env |-> AnyEnv,
     proposed |-> DefaultConfig, author |-> AnyUser, reviewer |-> AnyUser,
     base |-> 0, life |-> 0]

\* What handleCreateChangeRequest makes of a payload: the author is the
\* caller, the base version that of the flag it has just read.
Submitted(k, f, env, proposed, author) ==
    [status |-> "PENDING", key |-> k, env |-> env, proposed |-> proposed,
     author |-> author, reviewer |-> author, base |-> f.ver, life |-> f.life]

\* Mutant: authors may review their own requests.
MayReviewOwn(cr, u) == u \in Reviewers /\ cr.status = "PENDING"

\* handleReviewChangeRequest asks for an authorized reviewer.
IsAuthorizedReviewer(u) == u \in Reviewers

\* ChangeRequest.Review: its conditions and its result.
MayReview(cr, u) ==
    IsAuthorizedReviewer(u) /\ cr.status = "PENDING" /\ cr.author # u

\* Mutant: the verdict is stored in place of the status.
ReviewedVerbatim(cr, u, approved) ==
    [cr EXCEPT !.reviewer = u, !.status = IF approved THEN "APPROVE" ELSE "REJECT"]

Reviewed(cr, u, approved) ==
    [cr EXCEPT !.reviewer = u, !.status = IF approved THEN "APPROVED" ELSE "REJECTED"]

\* Mutant: the base version is not compared.
MayApplyToAnyVersion(cr, f) == cr.status = "APPROVED" /\ Exists(f)

\* The checks of ApplyChangeRequest on the request and on the flag it names.
MayApply(cr, f) ==
    /\ cr.status = "APPROVED"
    /\ Exists(f)
    /\ cr.base > 0 => f.ver = cr.base

\* The flag a handler has read and goes on with.
Held == [key : Keys, flag : Flags]
NoHeld == [key |-> AnyKey, flag |-> NoFlag]

\* What an audit entry is about.
Subjects == Keys \cup {"api-keys", "audit-logs"}
ASSUME SubjectAssumption == Keys \cap {"api-keys", "audit-logs"} = {}
=============================================================================
