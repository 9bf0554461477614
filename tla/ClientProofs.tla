---------------------------- MODULE ClientProofs -----------------------------
(***************************************************************************)
(* For any number of callers, any threshold and both libraries: the mark of *)
(* the SDK's trial is always taken back, and a closed breaker opens only    *)
(* after Threshold failures in a row.  For any number of streams, pollers   *)
(* and faults: connState tells whether the fallback poller runs.            *)
(***************************************************************************)
EXTENDS FlagDelivery, Breaker, TLAPS

-----------------------------------------------------------------------------
(* The circuit breaker.                                                    *)

States == {"CLOSED", "OPEN", "HALF_OPEN"}

Records ==
    [state : States, failureCount : 0..Threshold, consecutiveSucc : {0, 1},
     halfOpenInFlight : BOOLEAN, cooled : BOOLEAN]

\* The inductive invariant: the client's breaker never uses the mark, and a
\* closed breaker counts no more than the failures since the last success.
BreakerInv ==
    /\ breaker \in Records
    /\ call \in [Callers -> {"idle", "flight", "answered", "lost"}]
    /\ streak \in 0..Threshold
    /\ library = "client" => ~ breaker.halfOpenInFlight
    /\ breaker.state = "CLOSED" => breaker.failureCount <= streak
    /\ TrialComesBack

-----------------------------------------------------------------------------
(* What the operations of the two breakers return.                         *)

\* Count stays within the threshold and never loses a failure.
LEMMA CountLemma ==
    ASSUME NEW n \in 0..Threshold
    PROVE  /\ Count(n) \in 0..Threshold
           /\ \A m \in 0..Threshold : n <= m => Count(n) <= Count(m)
           /\ Count(n) >= Threshold => Count(n) = Threshold
BY ThresholdAssumption DEF Count

\* Allow marks a trial only as it moves to HALF_OPEN, and leaves a closed
\* breaker alone.
LEMMA AllowLemma ==
    ASSUME BreakerInv
    PROVE  /\ Allow \in Records
           /\ library = "client" => ~ Allow.halfOpenInFlight
           /\ Allow.halfOpenInFlight => Allow.state = "HALF_OPEN"
           /\ Allow.state = "CLOSED" => Allow = breaker
           /\ Allow.state = "OPEN" => Allow = breaker
BY DEF BreakerInv, TrialComesBack, Records, States, Allow, Client_Allow, SDK_Allow, SDK_Allows

\* A success takes the mark back, never opens a breaker, and leaves nothing
\* counted when the breaker is closed.
LEMMA SuccessLemma ==
    ASSUME BreakerInv
    PROVE  /\ OnSuccess \in Records
           /\ ~ OnSuccess.halfOpenInFlight
           /\ OnSuccess.state = "CLOSED" => OnSuccess.failureCount = 0
           /\ breaker.state = "CLOSED" => OnSuccess.state = "CLOSED"
<1>1. CASE library = "client"
  BY <1>1, ThresholdAssumption
  DEF BreakerInv, TrialComesBack, Records, States, OnSuccess, Client_OnSuccess, NewCircuitBreaker
<1>2. CASE library # "client"
  <2>1. OnSuccess = SDK_RecordSuccess
    BY <1>2 DEF OnSuccess
  <2>2. SDK_RecordSuccess \in Records
    <3>1. 0 \in 0..Threshold /\ "CLOSED" \in States
      BY ThresholdAssumption DEF States
    <3>2. [breaker EXCEPT !.state = "CLOSED"] \in Records
      BY <3>1 DEF BreakerInv, Records
    <3>3. [breaker EXCEPT !.state = "CLOSED", !.failureCount = 0] \in Records
      BY <3>1, <3>2 DEF Records
    <3> QED BY <3>3 DEF Records, SDK_RecordSuccess
  <2>3. /\ SDK_RecordSuccess.state = "CLOSED"
        /\ SDK_RecordSuccess.failureCount = 0
        /\ ~ SDK_RecordSuccess.halfOpenInFlight
    BY DEF BreakerInv, Records, SDK_RecordSuccess
  <2> QED BY <2>1, <2>2, <2>3
<1> QED BY <1>1, <1>2

\* A failure takes the mark back, closes no breaker, and opens a closed one
\* only when its count reaches the threshold.
LEMMA FailureLemma ==
    ASSUME BreakerInv
    PROVE  /\ OnFailure \in Records
           /\ ~ OnFailure.halfOpenInFlight
           /\ OnFailure.state = "CLOSED" =>
                breaker.state = "CLOSED" /\ OnFailure.failureCount = Count(breaker.failureCount)
           /\ (breaker.state = "CLOSED" /\ OnFailure.state = "OPEN") =>
                Count(breaker.failureCount) >= Threshold
<1>0. Count(breaker.failureCount) \in 0..Threshold
  BY CountLemma DEF BreakerInv, Records
<1>1. CASE library = "client"
  BY <1>0, <1>1 DEF BreakerInv, TrialComesBack, Records, States, OnFailure, Client_OnFailure
<1>2. CASE library # "client"
  BY <1>0, <1>2 DEF BreakerInv, TrialComesBack, Records, States, OnFailure, SDK_RecordFailure
<1> QED BY <1>1, <1>2

-----------------------------------------------------------------------------
(* The invariant of the breakers.                                          *)

\* A new breaker counts nothing and marks nothing.
LEMMA InvInit == InitBreaker => BreakerInv
BY ThresholdAssumption
DEF InitBreaker, NewCircuitBreaker, BreakerInv, TrialComesBack, Records, States

\* Every step of a caller, of the clock and of the server keeps the invariant.
LEMMA InvNext == BreakerInv /\ [BreakerStep]_breakerVars => BreakerInv'
<1> SUFFICES ASSUME BreakerInv, [BreakerStep]_breakerVars PROVE BreakerInv'
  OBVIOUS
<1>1. ASSUME NEW c \in Callers, Evaluate(c) PROVE BreakerInv'
  <2>1. /\ breaker' = Allow
        /\ call' \in [Callers -> {"idle", "flight", "answered", "lost"}]
        /\ call'[c] # "idle"
        /\ UNCHANGED <<library, streak>>
    BY <1>1 DEF Evaluate, BreakerInv
  <2> QED BY <2>1, AllowLemma DEF BreakerInv, TrialComesBack
<1>2. ASSUME NEW c \in Callers, Settle(c) PROVE BreakerInv'
  <2>1. /\ call' \in [Callers -> {"idle", "flight", "answered", "lost"}]
        /\ \A d \in Callers : call[d] # "idle" => call'[d] # "idle"
        /\ UNCHANGED <<library, breaker, streak>>
    BY <1>2 DEF Settle, BreakerInv
  <2> QED BY <2>1 DEF BreakerInv, TrialComesBack
<1>3. ASSUME NEW c \in Callers, Succeed(c) PROVE BreakerInv'
  <2>1. /\ breaker' = OnSuccess
        /\ call' \in [Callers -> {"idle", "flight", "answered", "lost"}]
        /\ streak' = 0
        /\ UNCHANGED library
    BY <1>3 DEF Succeed, BreakerInv
  <2> QED BY <2>1, SuccessLemma, ThresholdAssumption DEF BreakerInv, TrialComesBack
<1>4. ASSUME NEW c \in Callers, Fail(c) PROVE BreakerInv'
  <2>1. /\ breaker' = OnFailure
        /\ call' \in [Callers -> {"idle", "flight", "answered", "lost"}]
        /\ streak' = Count(streak)
        /\ UNCHANGED library
    BY <1>4 DEF Fail, BreakerInv
  <2>2. streak' \in 0..Threshold
    BY <2>1, CountLemma DEF BreakerInv
  <2>3. breaker'.state = "CLOSED" => breaker'.failureCount <= streak'
    BY <2>1, FailureLemma, CountLemma DEF BreakerInv, Records
  <2> QED BY <2>1, <2>2, <2>3, FailureLemma DEF BreakerInv, TrialComesBack
<1>5. ASSUME ReadState PROVE BreakerInv'
  BY <1>5 DEF ReadState, BreakerInv, TrialComesBack, Records, States
<1>6. ASSUME Cool PROVE BreakerInv'
  BY <1>6 DEF Cool, BreakerInv, TrialComesBack, Records, States
<1>7. ASSUME ServerChanges PROVE BreakerInv'
  BY <1>7 DEF ServerChanges, BreakerInv, TrialComesBack
<1>8. ASSUME UNCHANGED breakerVars PROVE BreakerInv'
  BY <1>8 DEF breakerVars, BreakerInv, TrialComesBack
<1> QED
  BY <1>1, <1>2, <1>3, <1>4, <1>5, <1>6, <1>7, <1>8 DEF BreakerStep, Return

-----------------------------------------------------------------------------
(* The theorems about the breakers.                                        *)

\* The invariant holds of every behaviour of the breaker.
LEMMA BreakerInvariant == BreakerSpec => []BreakerInv
BY InvInit, InvNext, PTL DEF BreakerSpec

\* The mark of the SDK's trial is there only while some caller is on the
\* network, so no breaker refuses everybody for ever (Allow, RecordSuccess,
\* RecordFailure of sdks/go/circuit_breaker.go).
THEOREM TrialAlwaysComesBack == BreakerSpec => []TrialComesBack
<1>1. BreakerInv => TrialComesBack
  BY DEF BreakerInv
<1> QED BY <1>1, BreakerInvariant, PTL

\* A closed breaker opens only when the failure it hears of is the last of
\* Threshold in a row (OnFailure and RecordFailure).
THEOREM OpensOnlyOnStreak == BreakerSpec => OpensOnStreak
<1>1. ASSUME BreakerInv, [BreakerStep]_breakerVars,
             breaker.state = "CLOSED", breaker'.state = "OPEN"
      PROVE  streak' = Threshold
  <2>1. ASSUME NEW c \in Callers, Evaluate(c) PROVE FALSE
    BY <1>1, <2>1, AllowLemma DEF Evaluate
  <2>2. ASSUME NEW c \in Callers, Settle(c) PROVE FALSE
    BY <1>1, <2>2 DEF Settle
  <2>3. ASSUME NEW c \in Callers, Succeed(c) PROVE FALSE
    BY <1>1, <2>3, SuccessLemma DEF Succeed
  <2>4. ASSUME NEW c \in Callers, Fail(c) PROVE streak' = Threshold
    <3>1. Count(breaker.failureCount) >= Threshold
      BY <1>1, <2>4, FailureLemma DEF Fail
    <3>2. Count(breaker.failureCount) <= Count(streak)
      BY <1>1, CountLemma DEF BreakerInv, Records
    <3>3. Count(streak) \in 0..Threshold /\ Count(breaker.failureCount) \in 0..Threshold
      BY <1>1, CountLemma DEF BreakerInv, Records
    <3> QED BY <2>4, <3>1, <3>2, <3>3, ThresholdAssumption DEF Fail
  <2>5. ~ ReadState /\ ~ Cool /\ ~ ServerChanges /\ ~ UNCHANGED breakerVars
    BY <1>1 DEF ReadState, Cool, ServerChanges, breakerVars
  <2> QED BY <1>1, <2>1, <2>2, <2>3, <2>4, <2>5 DEF BreakerStep, Return
<1> QED BY <1>1, BreakerInvariant, PTL DEF BreakerSpec, OpensOnStreak

-----------------------------------------------------------------------------
(* The fallback poller.                                                    *)

\* The inductive invariant: a client that is still starting has not dialled,
\* so it is past New before its connState says anything.
FallbackInv ==
    /\ phase = "starting" => conn = "CONNECTING" /\ sse = "dial"
    /\ PollingPaused

\* The steps that are not about the stream leave the state of the connection,
\* of its poller and of New alone.
LEMMA BesideTheStream ==
    ASSUME FallbackInv, UNCHANGED <<setup, conn, sse, fallback>>,
           \/ phase' = phase
           \/ phase' # "starting" /\ (phase' = "open" => phase = "starting")
    PROVE  FallbackInv'
BY DEF FallbackInv, PollingPaused, kind

\* Every step of the client, of the server and of the network keeps it.
LEMMA FallbackNext == FallbackInv /\ [DeliveryStep]_deliveryVars => FallbackInv'
<1> SUFFICES ASSUME FallbackInv, [DeliveryStep]_deliveryVars PROVE FallbackInv'
  OBVIOUS
<1>1. CASE HubStep /\ Followed /\ flags' <= setup.writes /\ UNCHANGED <<clientVars, faults>>
  BY <1>1, BesideTheStream DEF clientVars
<1>2. CASE InitialSync \/ InitialSyncFails \/ Close
  BY <1>2, BesideTheStream DEF InitialSync, InitialSyncFails, Close
<1>3. ASSUME NEW t \in Threads, Poll(t) \/ Work(t) PROVE FallbackInv'
  BY <1>3, BesideTheStream
  DEF Poll, Work, Marshal, saveSnapshot, CallListeners, Apply, Discard
<1>4. ASSUME NEW s \in Streams, Connect(s) PROVE FallbackInv'
  BY <1>4 DEF Connect, FallbackInv, PollingPaused, kind
<1>5. ASSUME NEW status \in BOOLEAN, Refused(status) PROVE FallbackInv'
  BY <1>5 DEF Refused, FallbackInv, PollingPaused, kind
<1>6. ASSUME NEW end \in {"failed", "ended"}, Broken(end) PROVE FallbackInv'
  BY <1>6 DEF Broken, FallbackInv, PollingPaused, kind
<1>7. CASE Receive
  BY <1>7, BesideTheStream DEF Receive
<1>8. CASE Retry
  <2>1. /\ phase # "starting"
        /\ UNCHANGED <<setup, phase>>
    BY <1>8 DEF Retry, FallbackInv
  <2>2. CASE kind = "client" /\ fallback = "none"
    <3>1. conn' = "CONNECTED_POLLING" /\ Free # {} /\ fallback' = CHOOSE l \in Free : TRUE
      BY <1>8, <2>2 DEF Retry, startFallback
    <3>2. fallback' \in Free
      BY <3>1
    <3>3. fallback' # "none"
      BY <3>2, LoopsAssumption DEF Free
    <3> QED BY <2>1, <3>1, <3>3 DEF FallbackInv, PollingPaused, kind
  <2>3. CASE ~ (kind = "client" /\ fallback = "none")
    <3>1. UNCHANGED <<fallback, conn>>
      BY <1>8, <2>3 DEF Retry, startFallback
    <3> QED BY <2>1, <3>1 DEF FallbackInv, PollingPaused, kind
  <2> QED BY <2>2, <2>3
<1>9. CASE Cancelled \/ StopStream \/ CloseReturns
  BY <1>9 DEF Cancelled, StopStream, CloseReturns, FallbackInv, PollingPaused
<1>10. CASE ServerRestart
  BY <1>10 DEF ServerRestart, FallbackInv, PollingPaused, kind
<1>11. CASE Crash
  BY <1>11 DEF Crash, FallbackInv, PollingPaused, kind
<1>12. CASE UNCHANGED deliveryVars
  BY <1>12, BesideTheStream DEF deliveryVars, clientVars
<1> QED
  BY <1>1, <1>2, <1>3, <1>4, <1>5, <1>6, <1>7, <1>8, <1>9, <1>10, <1>11, <1>12
  DEF DeliveryStep, StreamWork

\* No fallback poller runs beside a healthy stream, and one does run while
\* connState says so, through lost streams, restarts and crashes
\* (startFallback, stopFallback and onConnected of pkg/client/stream.go).
THEOREM FallbackPaused == DeliverySpec => []PollingPaused
<1>1. InitDelivery => FallbackInv
  BY DEF InitDelivery, FallbackInv, PollingPaused
<1>2. FallbackInv => PollingPaused
  BY DEF FallbackInv
<1> QED BY <1>1, <1>2, FallbackNext, PTL DEF DeliverySpec

=============================================================================
