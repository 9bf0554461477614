--------------------------- MODULE MCClientRuntime ---------------------------
(***************************************************************************)
(* Instances of ClientRuntime for TLC.                                      *)
(***************************************************************************)
EXTENDS ClientRuntime

Setup(k, u, n) == [kind |-> k, use |-> u, writes |-> n]

\* Two writes are what an out-of-order delivery takes; with a snapshot file,
\* and for the client's own threads, one write and the empty list before it.
MCSetups ==
    { Setup("client", "snapshot", 1), Setup("client", "listener", 1),
      Setup("sdk", "snapshot", 1), Setup("sdk", "listener", 2),
      Setup("js", "listener", 2), Setup("python", "listener", 2) }

MCListenerSetups == { Setup("client", "listener", 2) }

=============================================================================
