---------------------------- MODULE FlagDelivery -----------------------------
(***************************************************************************)
(* How a change of the flags reaches the clients that evaluate locally: the *)
(* Go client of the server's module (kind "client", pkg/client), the Go SDK *)
(* ("sdk", sdks/go), and the listeners of the JavaScript and Python SDKs    *)
(* ("js", "python"), which have the event stream and nothing else.          *)
(*                                                                          *)
(* One client of any kind runs against StreamHub.  Its threads are the      *)
(* stream's reader, the background poller and the fallback poller (a new    *)
(* goroutine each time the stream is lost, so that a cancelled one may      *)
(* still hold an answer).  Each thread takes a list of flags through the    *)
(* same steps: replace the cache under the lock, then, without the lock,    *)
(* write the snapshot file and call the listeners.                          *)
(*                                                                          *)
(* Faults: the stream is refused or breaks, the server restarts, the        *)
(* client's process dies and starts again from its snapshot file.           *)
(***************************************************************************)
EXTENDS StreamHub

CONSTANTS
    Setups,    \* the clients that are followed: their kind, what a Go client is
               \* configured with (use: "snapshot" file or "listener"), and
               \* (writes) a bound on the writes to the project
    Loops,     \* goroutines of the fallback poller
    MaxFaults  \* bound: faults of the network and of the two processes

ASSUME LoopsAssumption == "none" \notin Loops

VARIABLES
    setup,     \* the client
    phase,     \* "starting" (in New), "open", "closing", "closed"
    cache,     \* the flags evaluations use
    file,      \* the snapshot file
    seen,      \* the flags the application knows of: those it found at the start, then
               \* those its listeners were last called with
    job,       \* thread -> the list it is taking over, and how far it is
    sse,       \* the stream's loop: "dial", "listening", "failed", "ended", "stopped"
    link,      \* the stream it listens to
    fallback,  \* the fallback poller that is not cancelled
    conn,      \* connState
    faults     \* the number of faults so far

clientVars == <<setup, phase, cache, file, seen, job, sse, link, fallback, conn>>

deliveryVars == <<hubVars, clientVars, faults>>

kind == setup.kind

use == setup.use

Threads == {"stream", "background"} \cup Loops

Flags(project, version) == [project |-> project, version |-> version]

NoFlags == Flags(Mine, 0)

\* A file that does not exist, and one that a write has left unreadable.
NoFile == Flags("none", 0)

Torn == Flags("torn", 0)

NoJob == [pc |-> "idle", list |-> NoFlags]

\* The clients that poll and keep a snapshot file.
Polls == kind \in {"client", "sdk"}

Current == Flags(Mine, flags)

InitDelivery ==
    /\ NewStreamHub
    /\ setup \in Setups
    /\ phase = IF Polls THEN "starting" ELSE "open"
    /\ cache = NoFlags /\ file = NoFile /\ seen = NoFlags
    /\ job = [t \in Threads |-> NoJob]
    /\ sse = "dial" /\ link = "none" /\ fallback = "none"
    /\ conn = "CONNECTING"
    /\ faults = 0

\* Once Close is called nothing depends on the server: its steps and the faults
\* are followed no further.
Followed == phase \in {"starting", "open"}

Fault ==
    /\ Followed
    /\ faults < MaxFaults
    /\ faults' = faults + 1

-----------------------------------------------------------------------------
(* Taking over a list.                                                     *)

\* The Go client calls its listeners only when the list holds a flag that is
\* new or has another UpdatedAt; an empty list never does.
Changes(list) == list # cache /\ list.version \notin Empty

\* What is left to do once the cache is replaced.
Then(list) ==
    CASE use = "snapshot" /\ kind = "client" -> "save"
      [] use = "snapshot" /\ kind = "sdk" -> "marshal"
      [] use = "listener" /\ (kind = "sdk" \/ Changes(list)) -> "notify"
      [] OTHER -> "idle"

\* updateFlags, updateLocalFlags: what happens under the lock.
updateFlags(t, list) ==
    /\ cache' = list
    /\ job' = [job EXCEPT ![t] = IF Then(list) = "idle" THEN NoJob
                                ELSE [pc |-> Then(list), list |-> list]]

\* The SDK writes the cache as it is now, not the list it was given.
Marshal(t) ==
    /\ job[t].pc = "marshal"
    /\ job' = [job EXCEPT ![t] = [pc |-> "save", list |-> cache]]
    /\ UNCHANGED <<hubVars, setup, phase, cache, file, seen, sse, link, fallback, conn, faults>>

\* Two overlapping writes of different lists may leave the rest of the longer one.
Written(t) ==
    {job[t].list} \cup
    (IF \E u \in Threads \ {t} : job[u].pc = "save" /\ job[u].list # job[t].list
     THEN {Torn} ELSE {})

\* Mutant: the file is written once.
saveSnapshotOnce(t) ==
    /\ job[t].pc = "save"
    /\ file' \in IF file = NoFile THEN Written(t) ELSE {file}
    /\ job' = [job EXCEPT ![t] = NoJob]
    /\ UNCHANGED <<hubVars, setup, phase, cache, seen, sse, link, fallback, conn, faults>>

saveSnapshot(t) ==
    /\ job[t].pc = "save"
    /\ file' \in Written(t)
    /\ job' = [job EXCEPT ![t] = NoJob]
    /\ UNCHANGED <<hubVars, setup, phase, cache, seen, sse, link, fallback, conn, faults>>

CallListeners(t) ==
    /\ job[t].pc = "notify"
    /\ seen' = job[t].list
    /\ job' = [job EXCEPT ![t] = NoJob]
    /\ UNCHANGED <<hubVars, setup, phase, cache, file, sse, link, fallback, conn, faults>>

-----------------------------------------------------------------------------
(* Polling.                                                                *)

\* New: the first synchronisation, before any thread starts.
InitialSync ==
    /\ phase = "starting"
    /\ phase' = "open"
    /\ cache' = Current
    /\ file' = IF use = "snapshot" THEN Current ELSE file
    /\ seen' = cache'
    /\ UNCHANGED <<hubVars, setup, job, sse, link, fallback, conn, faults>>

InitialSyncFails ==
    /\ phase = "starting"
    /\ Fault
    /\ phase' = "open"
    /\ seen' = cache
    /\ UNCHANGED <<hubVars, setup, cache, file, job, sse, link, fallback, conn>>

\* syncFlags: the server answers a poller with its current list.
Poll(t) ==
    /\ \/ t = "background" /\ Polls /\ phase = "open"
       \/ t = fallback
    /\ job[t].pc = "idle"
    /\ job' = [job EXCEPT ![t] = [pc |-> "apply", list |-> Current]]
    /\ UNCHANGED <<hubVars, setup, phase, cache, file, seen, sse, link, fallback, conn, faults>>

\* Mutant: an answer is taken over only while the stream is down.
ApplyWhenDown(t) ==
    /\ job[t].pc = "apply"
    /\ IF sse = "listening"
       THEN job' = [job EXCEPT ![t] = NoJob] /\ UNCHANGED cache
       ELSE updateFlags(t, job[t].list)
    /\ UNCHANGED <<hubVars, setup, phase, file, seen, sse, link, fallback, conn, faults>>

Apply(t) ==
    /\ job[t].pc = "apply"
    /\ updateFlags(t, job[t].list)
    /\ UNCHANGED <<hubVars, setup, phase, file, seen, sse, link, fallback, conn, faults>>

\* The answer of a poller whose context was cancelled before it was decoded.
Discard(t) ==
    /\ t \in Loops \ {fallback}
    /\ job[t].pc = "apply"
    /\ job' = [job EXCEPT ![t] = NoJob]
    /\ UNCHANGED <<hubVars, setup, phase, cache, file, seen, sse, link, fallback, conn, faults>>

-----------------------------------------------------------------------------
(* The event stream.                                                       *)

\* Mutant: the fallback poller is not stopped.
ConnectPolling(s) ==
    /\ phase = "open" /\ sse = "dial" /\ stream[s].pc = "none"
    /\ stream' = [stream EXCEPT ![s] = Opened]
    /\ link' = s
    /\ sse' = "listening"
    /\ conn' = IF kind = "client" THEN "CONNECTED_SSE" ELSE conn
    /\ UNCHANGED <<flags, writer, broadcast, subs, fallback>>
    /\ UNCHANGED <<setup, phase, cache, file, seen, job, faults>>

\* The server has listed the flags and answered; onConnected stops the fallback.
Connect(s) ==
    /\ phase = "open" /\ sse = "dial" /\ stream[s].pc = "none"
    /\ stream' = [stream EXCEPT ![s] = Opened]
    /\ link' = s
    /\ sse' = "listening"
    /\ fallback' = "none"
    /\ conn' = IF kind = "client" THEN "CONNECTED_SSE" ELSE conn
    /\ UNCHANGED <<flags, writer, broadcast, subs>>
    /\ UNCHANGED <<setup, phase, cache, file, seen, job, faults>>

\* The network fails, or (status) the server answers with an error, after which
\* the JavaScript SDK gives up.
Refused(status) ==
    /\ phase = "open" /\ sse = "dial"
    /\ Fault
    /\ sse' = IF status /\ kind = "js" THEN "ended" ELSE "failed"
    /\ UNCHANGED <<hubVars, setup, phase, cache, file, seen, job, link, fallback, conn>>

Incoming == IF link = "none" THEN <<>> ELSE stream[link].first \o stream[link].send

\* The Go clients take a list that is not null.
Listen(msg) ==
    IF msg.event # "custom" /\ msg.version \notin Empty
    THEN updateFlags("stream", Flags(msg.project, msg.version))
    ELSE UNCHANGED <<cache, job>>

\* The others call their listeners after every message.
ListenAndTell(msg) ==
    /\ cache' = IF msg.event # "custom" /\ msg.version \notin Empty
                THEN Flags(msg.project, msg.version) ELSE cache
    /\ seen' = cache'

Receive ==
    /\ sse = "listening"
    /\ job["stream"].pc = "idle"
    /\ Incoming # <<>>
    /\ IF Polls
       THEN Listen(Head(Incoming)) /\ UNCHANGED seen
       ELSE ListenAndTell(Head(Incoming)) /\ UNCHANGED job
    /\ stream' = [stream EXCEPT ![link] =
                    IF @.first # <<>> THEN [@ EXCEPT !.first = <<>>]
                                      ELSE [@ EXCEPT !.send = Tail(@)]]
    /\ UNCHANGED <<flags, writer, broadcast, subs>>
    /\ UNCHANGED <<setup, phase, file, sse, link, fallback, conn, faults>>

\* The connection is gone, with an error or with an end of file; the server's
\* handler finds out later.
HangUp ==
    /\ stream' = [stream EXCEPT ![link].alive = FALSE]
    /\ link' = "none"
    /\ UNCHANGED <<flags, writer, broadcast, subs>>

Broken(end) ==
    /\ sse = "listening"
    /\ Fault
    /\ sse' = end
    /\ HangUp
    /\ UNCHANGED <<setup, phase, cache, file, seen, job, fallback, conn>>

Free == {l \in Loops \ {fallback} : job[l].pc = "idle"}

startFallback ==
    IF kind = "client" /\ fallback = "none"
    THEN /\ Free # {}
         /\ fallback' = CHOOSE l \in Free : TRUE
         /\ conn' = "CONNECTED_POLLING"
    ELSE UNCHANGED <<fallback, conn>>

\* What each loop does when its stream is over: back to dialling after a pause,
\* but the JavaScript SDK returns when the stream has ended without an error.
Retry ==
    /\ sse \in {"failed", "ended"}
    /\ job["stream"].pc = "idle"
    /\ startFallback
    /\ sse' = IF kind = "js" /\ sse = "ended" THEN "stopped" ELSE "dial"
    /\ UNCHANGED <<hubVars, setup, phase, cache, file, seen, job, link, faults>>

-----------------------------------------------------------------------------
(* The end of the client, and the faults of the two processes.             *)

\* Bound: Close is followed only from states with nothing on its way.
Quiet ==
    /\ broadcast = <<>> /\ \A w \in Writers : writer[w] = Idle
    /\ \A s \in Streams : stream[s].first = <<>> /\ stream[s].send = <<>>

\* Close: the threads are told to stop ...
Close ==
    /\ phase = "open"
    /\ Quiet
    /\ phase' = "closing"
    /\ UNCHANGED <<hubVars, setup, cache, file, seen, job, sse, link, fallback, conn, faults>>

\* ... and then the state is set (client) or the cache is saved (SDK).
CloseReturns ==
    /\ phase = "closing"
    /\ phase' = "closed"
    /\ conn' = IF kind = "client" THEN "DISCONNECTED" ELSE conn
    /\ file' = IF kind = "sdk" /\ use = "snapshot" THEN cache ELSE file
    /\ UNCHANGED <<hubVars, setup, cache, seen, job, sse, link, fallback, faults>>

\* The reader's context is cancelled: an error for the client, an end for the SDK.
Cancelled ==
    /\ phase \in {"closing", "closed"} /\ sse = "listening"
    /\ sse' = IF kind = "client" THEN "failed" ELSE "ended"
    /\ HangUp
    /\ UNCHANGED <<setup, phase, cache, file, seen, job, fallback, conn, faults>>

\* The loop sees that it is told to stop; its deferred call stops the fallback.
StopStream ==
    /\ phase \in {"closing", "closed"} /\ sse = "dial"
    /\ sse' = "stopped"
    /\ fallback' = "none"
    /\ UNCHANGED <<hubVars, setup, phase, cache, file, seen, job, link, conn, faults>>

ServerRestart ==
    /\ Fault
    /\ Restarted
    /\ link' = "none"
    /\ sse' \in IF sse = "listening" THEN {"failed", "ended"} ELSE {sse}
    /\ UNCHANGED <<setup, phase, cache, file, seen, job, fallback, conn>>

loadSnapshot(f) == IF f \in {NoFile, Torn} THEN NoFlags ELSE f

\* A process that dies in a write leaves a file cut short.
Crash ==
    /\ phase = "open"
    /\ Fault
    /\ file' \in {file} \cup (IF \E t \in Threads : job[t].pc = "save" THEN {Torn} ELSE {})
    /\ phase' = IF Polls THEN "starting" ELSE "open"
    /\ cache' = loadSnapshot(file')
    /\ seen' = NoFlags
    /\ job' = [t \in Threads |-> NoJob]
    /\ sse' = "dial"
    /\ fallback' = "none"
    /\ conn' = "CONNECTING"
    /\ IF link = "none" THEN UNCHANGED <<hubVars, link>> ELSE HangUp
    /\ UNCHANGED setup

Work(t) == Marshal(t) \/ saveSnapshot(t) \/ CallListeners(t) \/ Apply(t) \/ Discard(t)

StreamWork == Receive \/ Retry \/ Cancelled \/ StopStream

DeliveryStep ==
    \/ HubStep /\ Followed /\ flags' <= setup.writes /\ UNCHANGED <<clientVars, faults>>
    \/ InitialSync \/ InitialSyncFails
    \/ \E t \in Threads : Poll(t) \/ Work(t)
    \/ \E s \in Streams : Connect(s)
    \/ \E status \in BOOLEAN : Refused(status)
    \/ \E end \in {"failed", "ended"} : Broken(end)
    \/ StreamWork
    \/ Close \/ CloseReturns
    \/ ServerRestart \/ Crash

DeliverySpec == InitDelivery /\ [][DeliveryStep]_deliveryVars

-----------------------------------------------------------------------------
(* Properties.                                                             *)

\* specs/006-sdk-hardening-protocol-resilience/spec.md:30: "fallback polling is
\* paused to prevent redundant control plane load".  connState tells truly which
\* way the flags come: no fallback poller runs beside a healthy stream, and one
\* does run while it says so (startSSEStream: startFallback, stopFallback).
PollingPaused ==
    (kind = "client" /\ phase = "open") =>
        /\ conn = "CONNECTED_SSE" => fallback = "none"
        /\ conn = "CONNECTED_POLLING" => fallback # "none"

\* The clients that poll end up with the flags of the store, and stay with them
\* while nobody writes: lost broadcasts, lists that arrive out of order, restarts
\* and lost streams are all made good by the background poller.
Converges == Polls => (<>[](phase = "open") => <>[](cache = Current))

\* So do the copies of the cache: the snapshot file of both Go libraries, and
\* the flags the SDK's listeners were called with, come back to the flags of the
\* store again and again.
Copies ==
    <>[](phase = "open" /\ Polls) =>
        []<>(IF use = "snapshot" THEN file = Current ELSE kind = "sdk" => seen = Current)

\* specs/006-sdk-hardening-protocol-resilience/spec.md:31: listeners "receive
\* change notifications regardless of whether updates arrived via SSE or
\* polling fallback", so the listeners of the Go client do not end up behind
\* the store for ever (pkg/client/stream.go, updateFlags).
ListenersCatchUp ==
    (kind = "client" /\ use = "listener") =>
        (<>[](phase = "open") => []<>(seen = Current \/ Current.version \in Empty))

=============================================================================
