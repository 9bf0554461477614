------------------------------ MODULE Telemetry ------------------------------
(***************************************************************************)
(* Evaluation counts on their way from the Go libraries to the dashboard:   *)
(* the bounded buffer of the Go client (library "client",                   *)
(* pkg/client/telemetry.go) and the event list of the Go SDK ("sdk",        *)
(* sdks/go/telemetry.go), the batches they send, and the server's           *)
(* aggregator (pkg/api/handlers_telemetry.go) for the callers' project.     *)
(*                                                                          *)
(* A buffer is the sequence of the evaluations it holds; the Go client      *)
(* keeps them as counts, which is the same but for the order.  A batch may  *)
(* be lost before the server reads it, and its answer may be lost after     *)
(* the server has counted it.                                               *)
(***************************************************************************)
EXTENDS SequencesExt, FiniteSetsExt, Naturals

CONSTANTS
    Reporters,           \* the libraries that are followed
    EvalFlags, Variants, Users,
    Senders,             \* batches that are on their way at the same time
    MaxBufferedFlags, MaxVariantsPerFlag,          \* the client's buffer
    maxFlagsPerProject, maxTrackedUsersPerVariant, \* the server's aggregator
    MaxRecorded          \* bound: evaluations that are recorded

VARIABLES
    reporter,    \* the library
    buffer,      \* the evaluations not sent yet
    dropped,     \* droppedEvents
    batch,       \* sender -> what it has sent, and how far it is
    metrics,     \* flagMetrics, the flag evaluated longest ago first
    totalEvals,  \* the project's total
    persisted,   \* experiment events in the store
    recorded,    \* history: the evaluations of each flag, with the dropped ones
    converted,   \* history: the number of conversions
    drops, acked \* history: evaluations dropped, and those a server has been told of

telemetryVars ==
    <<reporter, buffer, dropped, batch, metrics, totalEvals, persisted, recorded, converted, drops, acked>>

\* What a library records: the client no user, the SDK also conversions, which
\* are events without a variant (and whose user nothing counts).
Events ==
    IF reporter = "client"
    THEN [flag : EvalFlags, variant : Variants, user : {"none"}]
    ELSE [flag : EvalFlags, variant : Variants, user : Users] \cup
         [flag : EvalFlags, variant : {"conversion"}, user : {"none"}]

Total(counts) == MapThenSumSet(LAMBDA f : counts[f], EvalFlags)

NoBatch == [pc |-> "idle", events |-> <<>>, dropped |-> 0]

InitTelemetry ==
    /\ reporter \in Reporters
    /\ buffer = <<>> /\ dropped = 0
    /\ batch = [s \in Senders |-> NoBatch]
    /\ metrics = <<>> /\ totalEvals = 0 /\ persisted = 0
    /\ recorded = [f \in EvalFlags |-> 0] /\ converted = 0 /\ drops = 0 /\ acked = 0

Of(events, f) == SelectSeq(events, LAMBDA e : e.flag = f)

FlagsOf(events) == {e.flag : e \in ToSet(events)}

VariantsOf(events, f) == {e.variant : e \in ToSet(Of(events, f))}

-----------------------------------------------------------------------------
(* The libraries.                                                          *)

\* The client's buffer has room for a flag, and for a variant of it.
Fits(e) ==
    /\ e.flag \in FlagsOf(buffer) \/ Cardinality(FlagsOf(buffer)) < MaxBufferedFlags
    /\ \/ e.variant \in VariantsOf(buffer, e.flag)
       \/ Cardinality(VariantsOf(buffer, e.flag)) < MaxVariantsPerFlag

Record(e) ==
    /\ Total(recorded) + converted < MaxRecorded
    /\ IF e.variant = "conversion"
       THEN converted' = converted + 1 /\ UNCHANGED recorded
       ELSE recorded' = [recorded EXCEPT ![e.flag] = @ + 1] /\ UNCHANGED converted
    /\ IF reporter = "sdk" \/ Fits(e)
       THEN buffer' = Append(buffer, e) /\ UNCHANGED <<dropped, drops>>
       ELSE dropped' = dropped + 1 /\ drops' = drops + 1 /\ UNCHANGED buffer
    /\ UNCHANGED <<reporter, batch, metrics, totalEvals, persisted, acked>>

\* Flush: the buffer is emptied before it is sent.  The client flushes from one
\* goroutine; the SDK starts another whenever its list is long enough.
Flush(s) ==
    /\ batch[s].pc = "idle"
    /\ s = CHOOSE t \in Senders : batch[t].pc = "idle"
    /\ reporter = "client" => \A t \in Senders : batch[t].pc = "idle"
    /\ buffer # <<>> \/ dropped > 0
    /\ batch' = [batch EXCEPT ![s] = [pc |-> "sent", events |-> buffer, dropped |-> dropped]]
    /\ buffer' = <<>>
    /\ dropped' = 0
    /\ UNCHANGED <<reporter, metrics, totalEvals, persisted, recorded, converted, drops, acked>>

FlushDone(s) ==
    /\ batch[s].pc = "counted"
    /\ acked' = acked + batch[s].dropped
    /\ batch' = [batch EXCEPT ![s] = NoBatch]
    /\ UNCHANGED <<reporter, buffer, dropped, metrics, totalEvals, persisted, recorded, converted, drops>>

\* Mutant: the evaluations are kept for another try.
FlushFailsKept(s) ==
    /\ batch[s].pc \in {"sent", "counted"}
    /\ dropped' = dropped + batch[s].dropped
    /\ buffer' = batch[s].events \o buffer
    /\ batch' = [batch EXCEPT ![s] = NoBatch]
    /\ UNCHANGED <<reporter, metrics, totalEvals, persisted, recorded, converted, drops, acked>>

\* Mutant: the count of dropped evaluations goes with the batch.
FlushFailsForgotten(s) ==
    /\ batch[s].pc \in {"sent", "counted"}
    /\ batch' = [batch EXCEPT ![s] = NoBatch]
    /\ UNCHANGED <<reporter, buffer, dropped, metrics, totalEvals, persisted, recorded, converted, drops, acked>>

\* No answer, or an error status: only the count of dropped evaluations is kept.
FlushFails(s) ==
    /\ batch[s].pc \in {"sent", "counted"}
    /\ dropped' = dropped + batch[s].dropped
    /\ batch' = [batch EXCEPT ![s] = NoBatch]
    /\ UNCHANGED <<reporter, buffer, metrics, totalEvals, persisted, recorded, converted, drops, acked>>

-----------------------------------------------------------------------------
(* The server.                                                             *)

NewMetric(f) == [flag |-> f, total |-> 0, unique |-> [v \in Variants |-> 0], users |-> {}]

Known(ms, f) == \E i \in DOMAIN ms : ms[i].flag = f

Metric(ms, f) == IF Known(ms, f) THEN ms[CHOOSE i \in DOMAIN ms : ms[i].flag = f] ELSE NewMetric(f)

\* LastEvaluatedAt is now.
Evaluated(ms, m) == Append(SelectSeq(ms, LAMBDA n : n.flag # m.flag), m)

\* A new flag takes the place of the one evaluated longest ago.
Evict(ms, f) ==
    IF ~ Known(ms, f) /\ Len(ms) >= maxFlagsPerProject THEN Tail(ms) ELSE ms

IngestFlag(ms, f, n) ==
    LET kept == Evict(ms, f)
        m == Metric(kept, f)
    IN Evaluated(kept, [m EXCEPT !.total = @ + n])

\* The counts of a batch, flag by flag, in the order of a Go map.
Ingest(order, events) ==
    FoldLeft(LAMBDA ms, f : IngestFlag(ms, f, Len(Of(events, f))), metrics, order)

Tracked(m, v) == {u \in m.users : u[1] = v}

\* One more evaluation, and one more user unless the user is tracked; users are
\* tracked up to a limit.
Expose(m, e) ==
    LET seen == <<e.variant, e.user>> \in m.users
        room == Cardinality(Tracked(m, e.variant)) < maxTrackedUsersPerVariant
    IN [m EXCEPT !.total = @ + 1,
                 !.unique[e.variant] = IF seen THEN @ ELSE @ + 1,
                 !.users = IF ~ seen /\ room THEN @ \cup {<<e.variant, e.user>>} ELSE @]

\* An exposure makes no room for a new flag.
RecordExposure(ms, e) ==
    IF e.variant = "conversion" THEN ms ELSE Evaluated(ms, Expose(Metric(ms, e.flag), e))

Exposures(events) == SelectSeq(events, LAMBDA e : e.variant # "conversion")

\* handleIngestTelemetry: a map of counts is the client's, a list of events the
\* SDK's, which is also stored.
handleIngestTelemetry(s) ==
    /\ batch[s].pc = "sent"
    /\ batch' = [batch EXCEPT ![s].pc = "counted"]
    /\ \/ /\ reporter = "client"
          /\ \E order \in SetToSeqs(FlagsOf(batch[s].events)) :
                metrics' = Ingest(order, batch[s].events)
          /\ totalEvals' = totalEvals + Len(batch[s].events)
          /\ UNCHANGED persisted
       \/ /\ reporter = "sdk"
          /\ metrics' = FoldLeft(RecordExposure, metrics, batch[s].events)
          /\ totalEvals' = totalEvals + Len(Exposures(batch[s].events))
          /\ persisted' = persisted + Len(batch[s].events)
    /\ UNCHANGED <<reporter, buffer, dropped, recorded, converted, drops, acked>>

TelemetryStep ==
    \/ \E e \in Events : Record(e)
    \/ \E s \in Senders :
        Flush(s) \/ handleIngestTelemetry(s) \/ FlushDone(s) \/ FlushFails(s)

-----------------------------------------------------------------------------
(* Properties.                                                             *)

\* What is still on its way to the aggregator.
Pending ==
    buffer \o FoldLeft(LAMBDA q, s : IF batch[s].pc = "sent" THEN q \o batch[s].events ELSE q,
                       <<>>, SetToSeq(Senders))

\* No evaluation is counted twice, for its flag or for the project, and no event
\* is stored twice: a batch whose answer is lost is never sent again (Flush).
CountedOnce ==
    /\ \A f \in EvalFlags :
        Metric(metrics, f).total + Len(Exposures(Of(Pending, f))) <= recorded[f]
    /\ totalEvals + Len(Exposures(Pending)) <= Total(recorded)
    /\ persisted + Len(Pending) <= Total(recorded) + converted

\* The evaluations the client's buffer had no room for are reported: a count
\* that a failed flush took along comes back (Flush, "Restore dropped counter").
DropsReported ==
    drops = acked + dropped + FoldLeft(LAMBDA n, s : n + batch[s].dropped, 0, SetToSeq(Senders))

=============================================================================
