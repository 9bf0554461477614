---------------------------- MODULE ClientRuntime ----------------------------
(***************************************************************************)
(* What the client libraries run beside the application: flags kept up to   *)
(* date for local evaluation (FlagDelivery), the circuit breaker in front   *)
(* of remote evaluation (Breaker) and the evaluation counts (Telemetry).    *)
(*                                                                          *)
(* The three share no state, and each is on or off by the configuration of  *)
(* the client (Config: LocalEvaluation, DisableCircuitBreaker,              *)
(* DisableTelemetry).  A behaviour follows one of them, so that their       *)
(* states add up instead of multiplying.                                    *)
(***************************************************************************)
EXTENDS FlagDelivery, Breaker, Telemetry

CONSTANT Parts   \* the parts that are followed

VARIABLE part

vars == <<part, deliveryVars, breakerVars, telemetryVars>>

\* The choices of a part that is not followed do not matter.
Init ==
    /\ part \in Parts
    /\ InitDelivery /\ InitBreaker /\ InitTelemetry
    /\ part # "local" => setup = CHOOSE s \in Setups : TRUE
    /\ part # "remote" => library = CHOOSE l \in Libraries : TRUE
    /\ part # "telemetry" => reporter = CHOOSE r \in Reporters : TRUE

Next ==
    /\ \/ part = "local" /\ DeliveryStep /\ UNCHANGED <<breakerVars, telemetryVars>>
       \/ part = "remote" /\ BreakerStep /\ UNCHANGED <<deliveryVars, telemetryVars>>
       \/ part = "telemetry" /\ TelemetryStep /\ UNCHANGED <<deliveryVars, breakerVars>>
    /\ UNCHANGED part

\* The client's goroutines run and its tickers tick: a poll that finds the
\* server is made again and again.  Nothing is assumed of writers, of the hub,
\* of faults or of Close.
DeliveryFairness ==
    /\ WF_deliveryVars(part = "local" /\ InitialSync)
    /\ WF_deliveryVars(part = "local" /\ Poll("background"))
    /\ \A t \in Threads : WF_deliveryVars(part = "local" /\ Work(t))

\* The application keeps evaluating, requests end (they have a timeout), and
\* time passes.
BreakerFairness ==
    /\ \A c \in Callers :
        /\ WF_breakerVars(part = "remote" /\ Evaluate(c))
        /\ WF_breakerVars(part = "remote" /\ Return(c))
    /\ WF_breakerVars(part = "remote" /\ Cool)

Spec == Init /\ [][Next]_vars /\ DeliveryFairness /\ BreakerFairness

=============================================================================
