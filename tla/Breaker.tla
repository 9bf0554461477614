------------------------------- MODULE Breaker -------------------------------
(***************************************************************************)
(* The circuit breakers that guard remote evaluations: the one of the Go    *)
(* client (library "client", pkg/client/circuit_breaker.go), which counts   *)
(* two successes before it closes and lets every caller through while half  *)
(* open, and the one of the Go SDK ("sdk", sdks/go/circuit_breaker.go),     *)
(* which lets one trial through and closes at the first success.            *)
(*                                                                          *)
(* Callers are goroutines of the application; each asks Allow, is on the    *)
(* network for a while and reports what came of it, so reports arrive late  *)
(* and out of order.  Time is one bit: whether the cooldown has passed      *)
(* since the breaker last opened (or, while open, last heard of a failure). *)
(***************************************************************************)
EXTENDS Naturals

CONSTANTS
    Callers,    \* goroutines that evaluate
    Threshold,  \* failures in a row that open the breaker
    Libraries   \* the libraries that are followed

ASSUME ThresholdAssumption == Threshold \in Nat \ {0}

VARIABLES
    library,  \* the caller's library
    breaker,  \* state, failureCount, consecutiveSucc, halfOpenInFlight, cooled
    call,     \* caller -> "idle", "flight", or the outcome it is to report
    up,       \* the server answers
    streak    \* history: the failures reported since the last success

breakerVars == <<library, breaker, call, up, streak>>

NewCircuitBreaker ==
    [state |-> "CLOSED", failureCount |-> 0, consecutiveSucc |-> 0,
     halfOpenInFlight |-> FALSE, cooled |-> FALSE]

InitBreaker ==
    /\ library \in Libraries
    /\ breaker = NewCircuitBreaker
    /\ call = [c \in Callers |-> "idle"]
    /\ up = TRUE
    /\ streak = 0

\* Counts matter up to the threshold only.
Count(n) == IF n < Threshold THEN n + 1 ELSE n

-----------------------------------------------------------------------------
(* The breaker of the Go client.                                           *)

Client_Allows == breaker.state # "OPEN" \/ breaker.cooled

Client_Allow ==
    IF breaker.state = "OPEN" /\ breaker.cooled
    THEN [breaker EXCEPT !.state = "HALF_OPEN", !.cooled = FALSE]
    ELSE breaker

\* Mutant: a success while half open does not count.
Client_OnSuccessIgnored ==
    IF breaker.state = "CLOSED" THEN [breaker EXCEPT !.failureCount = 0] ELSE breaker

Client_OnSuccess ==
    CASE breaker.state = "HALF_OPEN" /\ breaker.consecutiveSucc = 1 -> NewCircuitBreaker
      [] breaker.state = "HALF_OPEN" /\ breaker.consecutiveSucc = 0 ->
            [breaker EXCEPT !.consecutiveSucc = 1]
      [] breaker.state = "CLOSED" -> [breaker EXCEPT !.failureCount = 0]
      [] OTHER -> breaker

\* Mutant: one failure too early.
Client_OnFailureEarly ==
    LET b == [breaker EXCEPT !.failureCount = Count(@), !.consecutiveSucc = 0] IN
    IF b.state = "HALF_OPEN" \/ b.failureCount + 1 >= Threshold
    THEN [b EXCEPT !.state = "OPEN", !.cooled = FALSE]
    ELSE b

Client_OnFailure ==
    LET b == [breaker EXCEPT !.failureCount = Count(@), !.consecutiveSucc = 0] IN
    IF b.state = "HALF_OPEN" \/ b.failureCount >= Threshold
    THEN [b EXCEPT !.state = "OPEN", !.cooled = FALSE]
    ELSE b

-----------------------------------------------------------------------------
(* The breaker of the SDK.                                                 *)

SDK_Allows ==
    \/ breaker.state = "CLOSED"
    \/ breaker.state = "OPEN" /\ breaker.cooled
    \/ breaker.state = "HALF_OPEN" /\ ~ breaker.halfOpenInFlight

SDK_Allow ==
    IF breaker.state # "CLOSED" /\ SDK_Allows
    THEN [breaker EXCEPT !.state = "HALF_OPEN", !.halfOpenInFlight = TRUE]
    ELSE breaker

SDK_RecordSuccess ==
    [breaker EXCEPT !.state = "CLOSED", !.failureCount = 0, !.halfOpenInFlight = FALSE]

\* Mutant: a failed trial keeps its mark.
SDK_RecordFailureMarked ==
    LET b == [breaker EXCEPT !.cooled = FALSE] IN
    IF b.state = "HALF_OPEN" THEN [b EXCEPT !.state = "OPEN"]
    ELSE IF Count(b.failureCount) >= Threshold
         THEN [b EXCEPT !.failureCount = Count(@), !.state = "OPEN"]
         ELSE [b EXCEPT !.failureCount = Count(@)]

SDK_RecordFailure ==
    LET b == [breaker EXCEPT !.cooled = FALSE] IN
    IF b.state = "HALF_OPEN"
    THEN [b EXCEPT !.state = "OPEN", !.halfOpenInFlight = FALSE]
    ELSE IF Count(b.failureCount) >= Threshold
         THEN [b EXCEPT !.failureCount = Count(@), !.state = "OPEN", !.halfOpenInFlight = FALSE]
         ELSE [b EXCEPT !.failureCount = Count(@)]

-----------------------------------------------------------------------------
(* The callers.                                                            *)

Allows == IF library = "client" THEN Client_Allows ELSE SDK_Allows

Allow == IF library = "client" THEN Client_Allow ELSE SDK_Allow

OnSuccess == IF library = "client" THEN Client_OnSuccess ELSE SDK_RecordSuccess

OnFailure == IF library = "client" THEN Client_OnFailure ELSE SDK_RecordFailure

\* evaluateRemote: past the breaker (one that is refused fails at once).
Evaluate(c) ==
    /\ call[c] = "idle"
    /\ Allows
    /\ breaker' = Allow
    /\ call' = [call EXCEPT ![c] = "flight"]
    /\ UNCHANGED <<library, up, streak>>

\* The request meets the server as it is at some moment of its flight ...
Settle(c) ==
    /\ call[c] = "flight"
    /\ call' = [call EXCEPT ![c] = IF up THEN "answered" ELSE "lost"]
    /\ UNCHANGED <<library, breaker, up, streak>>

\* ... and its outcome is reported when the answer is read, or the wait is over.
Succeed(c) ==
    /\ call[c] = "answered"
    /\ breaker' = OnSuccess
    /\ call' = [call EXCEPT ![c] = "idle"]
    /\ streak' = 0
    /\ UNCHANGED <<library, up>>

Fail(c) ==
    /\ call[c] = "lost"
    /\ breaker' = OnFailure
    /\ call' = [call EXCEPT ![c] = "idle"]
    /\ streak' = Count(streak)
    /\ UNCHANGED <<library, up>>

\* State(), read by the application, also moves an open breaker on.
ReadState ==
    /\ breaker.state = "OPEN" /\ breaker.cooled
    /\ breaker' = [breaker EXCEPT !.state = "HALF_OPEN", !.cooled = (library = "sdk")]
    /\ UNCHANGED <<library, call, up, streak>>

Cool ==
    /\ breaker.state = "OPEN" /\ ~ breaker.cooled
    /\ breaker' = [breaker EXCEPT !.cooled = TRUE]
    /\ UNCHANGED <<library, call, up, streak>>

ServerChanges ==
    /\ up' = ~ up
    /\ UNCHANGED <<library, breaker, call, streak>>

Return(c) == Settle(c) \/ Succeed(c) \/ Fail(c)

BreakerStep ==
    \/ \E c \in Callers : Evaluate(c) \/ Return(c)
    \/ ReadState \/ Cool \/ ServerChanges

BreakerSpec == InitBreaker /\ [][BreakerStep]_breakerVars

-----------------------------------------------------------------------------
(* Properties.                                                             *)

\* The SDK's breaker marks its trial with halfOpenInFlight and refuses every
\* other caller until the trial reports (sdks/go/circuit_breaker.go, Allow).
\* The mark is only there while some caller is on the network, whatever
\* reports of earlier requests arrive in between, so it is always taken back.
TrialComesBack ==
    breaker.halfOpenInFlight =>
        /\ breaker.state = "HALF_OPEN"
        /\ \E c \in Callers : call[c] # "idle"

\* Both breakers leave CLOSED for OPEN only after Threshold failures in a row:
\* failureCount never counts across a success or across a recovery.
OpensOnStreak ==
    [][(breaker.state = "CLOSED" /\ breaker'.state = "OPEN") => streak' = Threshold]_breakerVars

\* A breaker recovers: once the server stays up, it is closed for good, whatever
\* state and whatever late reports the outage left behind.
Recovers == <>[]up => <>[](breaker.state = "CLOSED")

=============================================================================
