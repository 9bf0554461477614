------------------------------ MODULE StreamHub ------------------------------
(***************************************************************************)
(* How a change of the flags leaves the server: the handlers that write a   *)
(* flag and then broadcast the project's list (broadcastCurrentFlags), the  *)
(* hub's event loop with its bounded queue, and the handlers of the open    *)
(* event streams with their bounded buffers (pkg/api/stream.go).            *)
(*                                                                          *)
(* The list of a project's flags is the number of writes it has seen; the   *)
(* versions in Empty are lists without flags, which Go encodes as null.     *)
(* A stream is one HTTP request of the client under study; the bytes on     *)
(* their way to it are counted with the buffer its handler reads.           *)
(***************************************************************************)
EXTENDS Naturals, Sequences

CONSTANTS
    Mine, Others,    \* the project the client subscribes to, and the others
    DefaultProject,  \* the project custom events are sent to
    Empty,           \* the versions at which the project has no flags
    Writers,         \* requests that change flags
    Streams,         \* requests that hold an event stream open
    HubBuffer,       \* capacity of the hub's queue (100)
    SendBuffer       \* capacity of a stream's buffer (20)

VARIABLES
    flags,      \* the version of the project's list in the store
    writer,     \* writer -> where it stands, and the list it has read
    broadcast,  \* the hub's queue
    stream,     \* stream -> its handler's state and buffer
    subs        \* the streams the hub knows

hubVars == <<flags, writer, broadcast, stream, subs>>

Message(event, project, version) ==
    [event |-> event, project |-> project, version |-> version]

Idle == [pc |-> "idle", version |-> 0]

NoStream == [pc |-> "none", alive |-> FALSE, first |-> <<>>, send |-> <<>>]

NewStreamHub ==
    /\ flags = 0
    /\ writer = [w \in Writers |-> Idle]
    /\ broadcast = <<>>
    /\ stream = [s \in Streams |-> NoStream]
    /\ subs = {}

\* A send that does not wait: a full channel loses the message.
Offer(queue, capacity, msg) ==
    IF Len(queue) < capacity THEN Append(queue, msg) ELSE queue

-----------------------------------------------------------------------------
(* The writers.                                                            *)

\* A flag handler commits its change; what it broadcasts is read later.
WriteFlags(w) ==
    /\ writer[w].pc = "idle"
    /\ w = CHOOSE x \in Writers : writer[x].pc = "idle"
    /\ flags' = flags + 1
    /\ writer' = [writer EXCEPT ![w].pc = "list"]
    /\ UNCHANGED <<broadcast, stream, subs>>

\* The canary scheduler commits a rollout and announces the schedule only.
AdvanceRollout ==
    /\ flags' = flags + 1
    /\ UNCHANGED <<writer, broadcast, stream, subs>>

broadcastCurrentFlags(w) ==
    /\ writer[w].pc = "list"
    /\ writer' = [writer EXCEPT ![w] = [pc |-> "send", version |-> flags]]
    /\ UNCHANGED <<flags, broadcast, stream, subs>>

BroadcastProjectFlags(w) ==
    /\ writer[w].pc = "send"
    /\ broadcast' = Offer(broadcast, HubBuffer, Message("flags_update", Mine, writer[w].version))
    /\ writer' = [writer EXCEPT ![w] = Idle]
    /\ UNCHANGED <<flags, stream, subs>>

\* A write to another project ends in the same call.
BroadcastOther(p) ==
    /\ broadcast' = Offer(broadcast, HubBuffer, Message("flags_update", p, 1))
    /\ UNCHANGED <<flags, writer, stream, subs>>

\* A custom event (of a canary, of a change request) goes to the default
\* project, whatever project it is about.
Broadcast ==
    /\ broadcast' = Offer(broadcast, HubBuffer, Message("custom", DefaultProject, 0))
    /\ UNCHANGED <<flags, writer, stream, subs>>

-----------------------------------------------------------------------------
(* The hub and the streams' handlers.                                      *)

\* Opened: the handler has sent the list it read, and is not registered yet.
Opened == [pc |-> "listed", alive |-> TRUE,
           first |-> <<Message("flags_init", Mine, flags)>>, send |-> <<>>]

Register(s) ==
    /\ stream[s].pc = "listed"
    /\ stream' = [stream EXCEPT ![s].pc = "serving"]
    /\ subs' = subs \cup {s}
    /\ UNCHANGED <<flags, writer, broadcast>>

\* The handler has seen that its client is gone.
Unregister(s) ==
    /\ stream[s].pc = "serving"
    /\ ~ stream[s].alive
    /\ stream' = [stream EXCEPT ![s] = NoStream]
    /\ subs' = subs \ {s}
    /\ UNCHANGED <<flags, writer, broadcast>>

\* The streams here name no environment, so the project alone decides.
Targets(msg) == {s \in subs : msg.project = Mine}

Dispatch ==
    /\ broadcast # <<>>
    /\ broadcast' = Tail(broadcast)
    /\ stream' = [s \in Streams |->
                    IF s \in Targets(Head(broadcast))
                    THEN [stream[s] EXCEPT !.send = Offer(@, SendBuffer, Head(broadcast))]
                    ELSE stream[s]]
    /\ UNCHANGED <<flags, writer, subs>>

\* A restart of the server: the store stays, the requests and the hub do not.
Restarted ==
    /\ writer' = [w \in Writers |-> Idle]
    /\ broadcast' = <<>>
    /\ stream' = [s \in Streams |-> NoStream]
    /\ subs' = {}
    /\ UNCHANGED flags

HubStep ==
    \/ Dispatch \/ AdvanceRollout \/ Broadcast
    \/ \E p \in Others : BroadcastOther(p)
    \/ \E w \in Writers :
        WriteFlags(w) \/ broadcastCurrentFlags(w) \/ BroadcastProjectFlags(w)
    \/ \E s \in Streams : Register(s) \/ Unregister(s)

=============================================================================
