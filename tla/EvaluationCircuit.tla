------------------------- MODULE EvaluationCircuit -------------------------
(***************************************************************************)
(* The circuit breaker of OpenAIEvaluationProvider (enrichment.py), the    *)
(* one client that Add enrichment and Search planning share between the    *)
(* handler threads of an evaluation-mode process.                          *)
(*                                                                         *)
(* The count of consecutive failures and the time until which the circuit  *)
(* is open are read and written under a lock, one method at a time; a      *)
(* request takes several methods with the attempts between them, so the    *)
(* breaker another thread leaves behind may not be the one it was let      *)
(* through by.  Time is the number of ticks left until the circuit's       *)
(* deadline: the code only ever compares the deadline with now.            *)
(***************************************************************************)
EXTENDS Integers, FiniteSets

CONSTANTS
  Caller,       \* threads that call enrich or expand
  Threshold,    \* circuit_failure_threshold
  Cooldown,     \* circuit_cooldown_seconds, in ticks
  MaxAttempts   \* max_attempts

ASSUME CallerAssumption == IsFiniteSet(Caller) /\ Caller # {}
ASSUME LimitAssumption ==
  Threshold \in Nat \ {0} /\ Cooldown \in Nat \ {0} /\ MaxAttempts \in Nat \ {0}

VARIABLES
  failures,     \* _consecutive_failures
  opened,       \* _circuit_open_until is not 0.0
  left,         \* ticks until _circuit_open_until, 0 once it has passed
  pc,           \* pc[c]: the next step of c
  attempt,      \* attempt[c]: the attempt c is at, from 1
  healthy,      \* the provider answers correctly
  late          \* requests the provider has had since the circuit opened

circuit == <<failures, opened, left>>
vars == <<failures, opened, left, pc, attempt, healthy, late>>

InRequest == {"attempt", "success", "failure"}
Answers   == {"answered", "unavailable", "raised"}
Steps     == {"idle", "ensure"} \cup InRequest \cup Answers

TypeOK ==
  /\ failures \in Nat
  /\ opened \in BOOLEAN
  /\ left \in 0 .. Cooldown
  /\ pc \in [Caller -> Steps]
  /\ attempt \in [Caller -> 1 .. MaxAttempts]
  /\ healthy \in BOOLEAN
  /\ late \in Nat

Init ==
  /\ failures = 0
  /\ opened = FALSE
  /\ left = 0
  /\ pc = [c \in Caller |-> "idle"]
  /\ attempt = [c \in Caller |-> 1]
  /\ healthy \in BOOLEAN
  /\ late = 0

Goto(c, step) == pc' = [pc EXCEPT ![c] = step]

\* enrich or expand is called: the request is built.
Ask(c) ==
  /\ pc[c] = "idle"
  /\ Goto(c, "ensure")
  /\ UNCHANGED <<circuit, attempt, healthy, late>>

----------------------------------------------------------------------------
(* _ensure_circuit_closed *)

\* The deadline is ahead: the call fails at once.
EnsureRefuses(c) ==
  /\ pc[c] = "ensure"
  /\ left > 0
  /\ Goto(c, "unavailable")
  /\ UNCHANGED <<circuit, attempt, healthy, late>>

\* Mutants of EnsurePasses: the deadline is not looked at, and the circuit is
\* left as it is or with a count of 0; a closed circuit keeps its count; an
\* open circuit is never closed again.
PassIfOpen(c) ==
  /\ pc[c] = "ensure"
  /\ Goto(c, "attempt")
  /\ attempt' = [attempt EXCEPT ![c] = 1]
  /\ UNCHANGED <<circuit, healthy, late>>

PassKeepingDeadline(c) ==
  /\ pc[c] = "ensure"
  /\ failures' = IF opened THEN 0 ELSE failures
  /\ late' = IF opened THEN 0 ELSE late
  /\ Goto(c, "attempt")
  /\ attempt' = [attempt EXCEPT ![c] = 1]
  /\ UNCHANGED <<opened, left, healthy>>

PassKeepingCount(c) ==
  /\ pc[c] = "ensure"
  /\ left = 0
  /\ opened' = FALSE
  /\ Goto(c, "attempt")
  /\ attempt' = [attempt EXCEPT ![c] = 1]
  /\ UNCHANGED <<failures, left, healthy, late>>

NeverPassOpen(c) ==
  /\ pc[c] = "ensure"
  /\ left = 0
  /\ Goto(c, IF opened THEN "unavailable" ELSE "attempt")
  /\ attempt' = [attempt EXCEPT ![c] = 1]
  /\ UNCHANGED <<circuit, healthy, late>>

\* The circuit is closed, or its deadline has passed and it is closed now:
\* every caller goes through from here, there is no single probe.
EnsurePasses(c) ==
  /\ pc[c] = "ensure"
  /\ left = 0
  /\ failures' = IF opened THEN 0 ELSE failures
  /\ opened' = FALSE
  /\ late' = IF opened THEN 0 ELSE late
  /\ Goto(c, "attempt")
  /\ attempt' = [attempt EXCEPT ![c] = 1]
  /\ UNCHANGED <<left, healthy>>

----------------------------------------------------------------------------
(* The attempts *)

\* The provider has answered a request, correctly or not.
Served == late' = IF opened THEN late + 1 ELSE late

AttemptSucceeds(c) ==
  /\ pc[c] = "attempt"
  /\ healthy
  /\ Served
  /\ Goto(c, "success")
  /\ UNCHANGED <<circuit, attempt, healthy>>

\* A mutant of AttemptFails: one attempt too many.
AttemptOnceMore(c) ==
  /\ pc[c] = "attempt"
  /\ ~healthy
  /\ Served
  /\ \/ /\ attempt[c] <= MaxAttempts
        /\ attempt' = [attempt EXCEPT ![c] = @ + 1]
        /\ UNCHANGED pc
     \/ Goto(c, "failure") /\ UNCHANGED attempt
  /\ UNCHANGED <<circuit, healthy>>

\* A failure of the kinds the loop knows: HTTP error, URLError or timeout,
\* output that does not parse.  Some HTTP errors are not worth a retry.
AttemptFails(c) ==
  /\ pc[c] = "attempt"
  /\ ~healthy
  /\ Served
  /\ \/ /\ attempt[c] < MaxAttempts
        /\ attempt' = [attempt EXCEPT ![c] = @ + 1]
        /\ UNCHANGED pc
     \/ Goto(c, "failure") /\ UNCHANGED attempt
  /\ UNCHANGED <<circuit, healthy>>

\* A failure of no such kind leaves the loop, and is not counted: the
\* connection is closed or reset while the response is awaited or read
\* (http.client.RemoteDisconnected, IncompleteRead, ConnectionResetError).
AttemptEscapes(c) ==
  /\ pc[c] = "attempt"
  /\ ~healthy
  /\ Served
  /\ Goto(c, "raised")
  /\ UNCHANGED <<circuit, attempt, healthy>>

----------------------------------------------------------------------------
(* The outcome *)

\* A mutant of RecordSuccess: the count is reset, the circuit left open.
ResetCountOnly(c) ==
  /\ pc[c] = "success"
  /\ failures' = 0
  /\ Goto(c, "answered")
  /\ UNCHANGED <<opened, left, attempt, healthy, late>>

\* _record_success, also of a request from before the circuit opened.  The
\* content is validated afterwards, and may be refused.
RecordSuccess(c) ==
  /\ pc[c] = "success"
  /\ failures' = 0 /\ opened' = FALSE /\ left' = 0 /\ late' = 0
  /\ \E answer \in {"answered", "unavailable"} : Goto(c, answer)
  /\ UNCHANGED <<attempt, healthy>>

\* _record_failure: opens the circuit, or moves its deadline.
RecordFailure(c) ==
  /\ pc[c] = "failure"
  /\ failures' = failures + 1
  /\ IF failures + 1 >= Threshold THEN opened' = TRUE /\ left' = Cooldown
                                  ELSE UNCHANGED <<opened, left>>
  /\ Goto(c, "unavailable")
  /\ UNCHANGED <<attempt, healthy, late>>

\* The handler answers: 200, 503 for EvaluationServiceError, else 500.
Return(c) ==
  /\ pc[c] \in Answers
  /\ Goto(c, "idle")
  /\ attempt' = [attempt EXCEPT ![c] = 1]
  /\ UNCHANGED <<circuit, healthy, late>>

----------------------------------------------------------------------------
(* The environment *)

Tick ==
  /\ left > 0
  /\ left' = left - 1
  /\ UNCHANGED <<failures, opened, pc, attempt, healthy, late>>

ProviderChanges ==
  /\ healthy' = ~healthy
  /\ UNCHANGED <<circuit, pc, attempt, late>>

----------------------------------------------------------------------------

Progress(c) ==
  \/ EnsureRefuses(c) \/ EnsurePasses(c)
  \/ AttemptSucceeds(c) \/ AttemptFails(c) \/ AttemptEscapes(c)
  \/ RecordSuccess(c) \/ RecordFailure(c) \/ Return(c)

Next ==
  \/ \E c \in Caller : Ask(c) \/ Progress(c)
  \/ Tick \/ ProviderChanges

Spec == Init /\ [][Next]_vars

\* Time passes, threads are scheduled, and an attempt has a timeout.
FairSpec == Spec /\ WF_vars(Tick) /\ \A c \in Caller : WF_vars(Progress(c))

----------------------------------------------------------------------------
(* Properties *)

\* The two fields never disagree: the deadline is set if and only if the
\* count has reached the threshold, through every interleaving of late
\* successes, late failures and callers that find the deadline passed.
OpenIffThreshold ==
  /\ opened <=> failures >= Threshold
  /\ left > 0 => opened

\* The threads within a request, past _ensure_circuit_closed.
InFlight == {c \in Caller : pc[c] \in InRequest}

\* The breaker is bounded: the count passes the threshold by no more than the
\* callers that were already in flight, those still in flight included.
OverrunBounded == failures + Cardinality(InFlight) <= Threshold - 1 + Cardinality(Caller)

\* An open circuit protects the provider: from its opening until a caller or a
\* late success closes it, the provider sees only the attempts that the other
\* callers had left when it opened.
LateRequestsBounded == late <= (Cardinality(Caller) - 1) * MaxAttempts

\* Late failures move the deadline, but not for ever: the cooldown ends, also
\* while the provider stays down and callers keep asking.
CooldownEnds == []<>(left = 0)

\* A provider that is up again, and asked again, is used again.
Recovers ==
  <>[]healthy /\ []<>(\E c \in Caller : pc[c] = "ensure") => <>[](~opened)

\* "Provider failures return a sanitized 503": no failure of the provider is
\* answered by anything else.
FailuresAre503 == \A c \in Caller : pc[c] # "raised"
=============================================================================
