-------------------------- MODULE FlagGovernance ---------------------------
(***************************************************************************)
(* What a store promises about flags and change requests, with no threads, *)
(* locks or audit log: every operation is one step.                        *)
(*                                                                         *)
(* A flag that is written keeps its identity and its version goes up by    *)
(* exactly one.  A change request is reviewed once, by somebody other than *)
(* its author, and applied at most once, to a flag that still is at the    *)
(* version the request was written against; it changes the proposed        *)
(* environment of that flag and nothing else.                              *)
(***************************************************************************)
EXTENDS Integers

CONSTANTS Keys, CRIds, Users, NoFlags

VARIABLES flags, requests

\* Version 0 stands for a key with no flag.
Exists(f) == f.ver > 0

\* What one write may do to the flag of a key: create it (as a flag never
\* seen before), delete it, or change it and count the change.
Advances(f, g) ==
    \/ g = f
    \/ ~Exists(g)
    \/ ~Exists(f) /\ g.life > f.life
    \/ g.life = f.life /\ g.ver = f.ver + 1

Init ==
    /\ flags = NoFlags
    /\ \A c \in CRIds : requests[c].status = "NONE"

\* An operator creates, edits, toggles, promotes or deletes the flag of k.
Change(k) ==
    /\ Advances(flags[k], flags'[k])
    /\ \A j \in Keys \ {k} : flags'[j] = flags[j]
    /\ UNCHANGED requests

\* An author submits request c, against a version the flag has had.
Submit(c) ==
    /\ requests'[c].status = "PENDING"
    /\ requests'[c].base > 0
    /\ \A d \in CRIds \ {c} : requests'[d] = requests[d]
    /\ UNCHANGED flags

Review(c) ==
    /\ requests[c].status = "PENDING"
    /\ \E u \in Users \ {requests[c].author}, verdict \in {"APPROVED", "REJECTED"} :
        requests' = [requests EXCEPT ![c] = [@ EXCEPT !.reviewer = u, !.status = verdict]]
    /\ UNCHANGED flags

Apply(c) ==
    LET cr == requests[c]
    IN  /\ cr.status = "APPROVED"
        /\ cr.reviewer # cr.author
        /\ Exists(flags[cr.key])
        /\ flags[cr.key].ver = cr.base
        /\ flags' = [flags EXCEPT ![cr.key] =
                [life |-> flags[cr.key].life, ver |-> cr.base + 1,
                 envs |-> [flags[cr.key].envs EXCEPT ![cr.env] = cr.proposed]]]
        /\ requests' = [requests EXCEPT ![c].status = "APPLIED"]

\* Every flag is dropped; change requests are kept.
Reset == flags' = NoFlags /\ UNCHANGED requests

Next ==
    \/ \E k \in Keys : Change(k)
    \/ \E c \in CRIds : Submit(c) \/ Review(c) \/ Apply(c)
    \/ Reset

Spec == Init /\ [][Next]_<<flags, requests>>
=============================================================================
