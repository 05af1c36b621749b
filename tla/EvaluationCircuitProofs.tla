---------------------- MODULE EvaluationCircuitProofs ----------------------
(***************************************************************************)
(* Proofs about EvaluationCircuit, for any finite set of callers, any      *)
(* threshold, cooldown and number of attempts.                             *)
(*                                                                         *)
(* OverrunBounded is inductive together with OpenIffThreshold: a caller is *)
(* let through only when the count is below the threshold, or just reset,  *)
(* and then adds one request in flight; a failure takes a request out of   *)
(* flight for the one it adds to the count.                                *)
(*                                                                         *)
(* LateRequestsBounded counts the attempts that are left: an open circuit  *)
(* lets nobody in, so they only get fewer, and each is a request at most.  *)
(***************************************************************************)
EXTENDS EvaluationCircuit, FiniteSetTheorems, TLAPS

IInv == TypeOK /\ OpenIffThreshold /\ OverrunBounded

\* The requests in flight are finitely many, at most one per caller.
LEMMA InFlightFinite ==
  /\ IsFiniteSet(InFlight) /\ Cardinality(InFlight) \in Nat
  /\ Cardinality(Caller) \in Nat /\ Cardinality(InFlight) <= Cardinality(Caller)
<1>1. InFlight \subseteq Caller  BY DEF InFlight
<1> QED  BY <1>1, CallerAssumption, FS_Subset, FS_CardinalityType

\* The same after a step, and how the count of requests in flight changes when
\* one caller moves.
LEMMA InFlightMoves ==
  ASSUME TypeOK, NEW c \in Caller, NEW step \in Steps, Goto(c, step)
  PROVE  /\ Cardinality(InFlight') \in Nat /\ Cardinality(InFlight') <= Cardinality(Caller)
         /\ (pc[c] \in InRequest <=> step \in InRequest) =>
              Cardinality(InFlight') = Cardinality(InFlight)
         /\ (pc[c] \in InRequest /\ step \notin InRequest) =>
              Cardinality(InFlight') = Cardinality(InFlight) - 1
<1>1. \A d \in Caller : pc'[d] = IF d = c THEN step ELSE pc[d]  BY DEF TypeOK, Goto
<1>2. InFlight' \subseteq Caller  BY DEF InFlight
<1>3. Cardinality(InFlight') \in Nat /\ Cardinality(InFlight') <= Cardinality(Caller)
  BY <1>2, CallerAssumption, FS_Subset, FS_CardinalityType
<1>4. CASE pc[c] \in InRequest <=> step \in InRequest
  <2>1. InFlight' = InFlight  BY <1>1, <1>4 DEF InFlight
  <2> QED  BY <1>3, <1>4, <2>1
<1>5. CASE pc[c] \in InRequest /\ step \notin InRequest
  <2>1. InFlight' = InFlight \ {c} /\ c \in InFlight  BY <1>1, <1>5 DEF InFlight
  <2>2. Cardinality(InFlight \ {c}) = Cardinality(InFlight) - 1
    BY <2>1, InFlightFinite, FS_RemoveElement
  <2> QED  BY <1>3, <1>5, <2>1, <2>2
<1>6. CASE pc[c] \notin InRequest /\ step \in InRequest  BY <1>3, <1>6
<1> QED  BY <1>4, <1>5, <1>6

LEMMA InitInv == Init => IInv
<1> SUFFICES ASSUME Init PROVE IInv  OBVIOUS
<1>1. TypeOK
  <2>1. opened \in BOOLEAN /\ healthy \in BOOLEAN  BY DEF Init
  <2>2. failures \in Nat /\ left \in 0 .. Cooldown /\ late \in Nat
    BY LimitAssumption DEF Init
  <2>3. pc \in [Caller -> Steps] /\ attempt \in [Caller -> 1 .. MaxAttempts]
    BY LimitAssumption DEF Init, Steps
  <2> QED  BY <2>1, <2>2, <2>3 DEF TypeOK
<1>2. OpenIffThreshold  BY LimitAssumption DEF Init, OpenIffThreshold
<1>3. OverrunBounded
  BY <1>1, InFlightFinite, LimitAssumption DEF Init, OverrunBounded
<1> QED  BY <1>1, <1>2, <1>3 DEF IInv

\* What a step does to the variables that are not Boolean.
Numbers ==
  /\ failures \in Nat /\ left \in 0 .. Cooldown /\ late \in Nat
  /\ pc \in [Caller -> Steps] /\ attempt \in [Caller -> 1 .. MaxAttempts]

LEMMA TypeStep == TypeOK /\ [Next]_vars => TypeOK'
<1> SUFFICES ASSUME TypeOK, [Next]_vars PROVE TypeOK'  OBVIOUS
<1>1. Numbers /\ opened \in BOOLEAN /\ healthy \in BOOLEAN  BY DEF TypeOK, Numbers
<1>2. opened' \in BOOLEAN /\ healthy' \in BOOLEAN
  BY <1>1
  DEF Next, Progress, Ask, EnsureRefuses, EnsurePasses, AttemptSucceeds, AttemptFails,
      AttemptEscapes, RecordSuccess, RecordFailure, Return, Tick, ProviderChanges, circuit, vars
<1>3. Numbers'
  <2> USE LimitAssumption DEF Numbers, circuit
  <2>1. CASE UNCHANGED vars  BY <1>1, <2>1 DEF vars
  <2>2. ASSUME NEW c \in Caller,
               Ask(c) \/ EnsureRefuses(c) \/ EnsurePasses(c) \/ Return(c)
        PROVE  Numbers'
    BY <1>1, <2>2 DEF Ask, EnsureRefuses, EnsurePasses, Return, Goto, Steps, InRequest, Answers
  <2>3. ASSUME NEW c \in Caller, AttemptSucceeds(c) \/ AttemptFails(c) \/ AttemptEscapes(c)
        PROVE  Numbers'
    BY <1>1, <2>3 DEF AttemptSucceeds, AttemptFails, AttemptEscapes, Served, Goto, Steps,
                      InRequest, Answers
  <2>4. ASSUME NEW c \in Caller, RecordSuccess(c) \/ RecordFailure(c) PROVE Numbers'
    BY <1>1, <2>4 DEF RecordSuccess, RecordFailure, Goto, Steps, InRequest, Answers
  <2>5. CASE Tick \/ ProviderChanges  BY <1>1, <2>5 DEF Tick, ProviderChanges
  <2> QED  BY <2>1, <2>2, <2>3, <2>4, <2>5 DEF Next, Progress
<1> QED  BY <1>2, <1>3 DEF TypeOK, Numbers

LEMMA StepInv == IInv /\ [Next]_vars => IInv'
<1> SUFFICES ASSUME IInv, [Next]_vars PROVE OpenIffThreshold' /\ OverrunBounded'
  BY TypeStep DEF IInv
<1>0. TypeOK /\ OpenIffThreshold /\ OverrunBounded  BY DEF IInv
<1>a. /\ failures \in Nat /\ left \in Nat /\ Threshold \in Nat \ {0} /\ Cooldown \in Nat
      /\ Cardinality(InFlight) \in Nat /\ Cardinality(Caller) \in Nat
      /\ Cardinality(InFlight) <= Cardinality(Caller)
  BY <1>0, InFlightFinite, LimitAssumption DEF TypeOK
<1>1. CASE UNCHANGED <<circuit, pc>>
  <2>1. InFlight' = InFlight  BY <1>1 DEF InFlight
  <2> QED  BY <1>0, <1>1, <2>1 DEF OpenIffThreshold, OverrunBounded, circuit
\* A step that leaves the circuit alone, and does not enter a request.
<1>2. ASSUME NEW c \in Caller, NEW step \in Steps, Goto(c, step), UNCHANGED circuit,
             step \in InRequest => pc[c] \in InRequest
      PROVE  OpenIffThreshold' /\ OverrunBounded'
  <2>1. /\ Cardinality(InFlight') \in Nat
        /\ Cardinality(InFlight') <= Cardinality(InFlight)
    BY <1>0, <1>2, <1>a, InFlightMoves
  <2> QED  BY <1>0, <1>2, <1>a, <2>1 DEF OpenIffThreshold, OverrunBounded, circuit
<1>3. ASSUME NEW c \in Caller,
             Ask(c) \/ EnsureRefuses(c) \/ AttemptSucceeds(c) \/ AttemptEscapes(c) \/ Return(c)
      PROVE  OpenIffThreshold' /\ OverrunBounded'
  <2>1. PICK step \in {"ensure", "unavailable", "success", "raised", "idle"} : Goto(c, step)
    BY <1>3 DEF Ask, EnsureRefuses, AttemptSucceeds, AttemptEscapes, Return
  <2>2. UNCHANGED circuit
    BY <1>3 DEF Ask, EnsureRefuses, AttemptSucceeds, AttemptEscapes, Return, circuit
  <2>3. step = "success" => pc[c] \in InRequest
    BY <1>0, <1>3, <2>1
    DEF Ask, EnsureRefuses, AttemptSucceeds, AttemptEscapes, Return, InRequest, Goto, TypeOK
  <2>4. step \in Steps /\ (step \in InRequest => step = "success")
    BY DEF Steps, InRequest, Answers
  <2> QED  BY <1>2, <2>1, <2>2, <2>3, <2>4
<1>4. ASSUME NEW c \in Caller, AttemptFails(c) PROVE OpenIffThreshold' /\ OverrunBounded'
  <2>1. UNCHANGED circuit /\ (Goto(c, "failure") \/ UNCHANGED pc) /\ pc[c] \in InRequest
    BY <1>4 DEF AttemptFails, circuit, InRequest
  <2>2. CASE UNCHANGED pc  BY <1>1, <2>1, <2>2 DEF circuit
  <2>3. CASE Goto(c, "failure")
    <3>1. "failure" \in Steps  BY DEF Steps, InRequest
    <3> QED  BY <1>2, <2>1, <2>3, <3>1
  <2> QED  BY <2>1, <2>2, <2>3
<1>5. ASSUME NEW c \in Caller, EnsurePasses(c) PROVE OpenIffThreshold' /\ OverrunBounded'
  <2>1. /\ failures' = (IF opened THEN 0 ELSE failures) /\ opened' = FALSE /\ left' = 0
        /\ Goto(c, "attempt") /\ "attempt" \in Steps
    BY <1>5 DEF EnsurePasses, Steps, InRequest
  <2>2. failures' \in Nat /\ failures' < Threshold
    BY <1>0, <1>a, <2>1 DEF OpenIffThreshold
  <2>3. Cardinality(InFlight') \in Nat /\ Cardinality(InFlight') <= Cardinality(Caller)
    BY <1>0, <2>1, InFlightMoves
  <2> QED  BY <1>a, <2>1, <2>2, <2>3 DEF OpenIffThreshold, OverrunBounded
<1>6. ASSUME NEW c \in Caller, RecordSuccess(c) PROVE OpenIffThreshold' /\ OverrunBounded'
  <2>1. PICK step \in {"answered", "unavailable"} : Goto(c, step)
    BY <1>6 DEF RecordSuccess
  <2>2. failures' = 0 /\ opened' = FALSE /\ left' = 0 /\ step \in Steps
    BY <1>6 DEF RecordSuccess, Steps, Answers
  <2>3. Cardinality(InFlight') \in Nat /\ Cardinality(InFlight') <= Cardinality(Caller)
    BY <1>0, <2>1, <2>2, InFlightMoves
  <2> QED  BY <1>a, <2>2, <2>3 DEF OpenIffThreshold, OverrunBounded
<1>7. ASSUME NEW c \in Caller, RecordFailure(c) PROVE OpenIffThreshold' /\ OverrunBounded'
  <2>1. /\ failures' = failures + 1 /\ Goto(c, "unavailable") /\ pc[c] \in InRequest
        /\ "unavailable" \in Steps \ InRequest
    BY <1>7 DEF RecordFailure, Steps, Answers, InRequest
  <2>2. Cardinality(InFlight') = Cardinality(InFlight) - 1
    BY <1>0, <2>1, InFlightMoves
  <2>3. OverrunBounded'  BY <1>0, <1>a, <2>1, <2>2 DEF OverrunBounded
  <2>4. OpenIffThreshold'
    BY <1>0, <1>7, <1>a DEF OpenIffThreshold, RecordFailure
  <2> QED  BY <2>3, <2>4
<1>8. CASE Tick
  <2>1. UNCHANGED <<failures, opened, pc>> /\ left > 0 /\ left' = left - 1
    BY <1>8 DEF Tick
  <2>2. InFlight' = InFlight  BY <2>1 DEF InFlight
  <2> QED  BY <1>0, <1>a, <2>1, <2>2 DEF OpenIffThreshold, OverrunBounded
<1>9. CASE ProviderChanges \/ UNCHANGED vars
  BY <1>1, <1>9 DEF ProviderChanges, vars, circuit
<1> QED  BY <1>3, <1>4, <1>5, <1>6, <1>7, <1>8, <1>9 DEF Next, Progress

\* The invariant holds in every reachable state.
THEOREM Inductive == Spec => []IInv
BY InitInv, StepInv, PTL DEF Spec

\* The breaker's fields keep their types; no thread attempts more than
\* max_attempts times.
THEOREM TypeCorrect == Spec => []TypeOK
<1>1. IInv => TypeOK  BY DEF IInv
<1> QED  BY <1>1, Inductive, PTL

\* The count and the deadline of the breaker agree, however many threads run
\* the three methods that write them.
THEOREM FieldsAgree == Spec => []OpenIffThreshold
<1>1. IInv => OpenIffThreshold  BY DEF IInv
<1> QED  BY <1>1, Inductive, PTL

\* The count overruns the threshold by no more than the requests in flight.
THEOREM BreakerIsBounded == Spec => []OverrunBounded
<1>1. IInv => OverrunBounded  BY DEF IInv
<1> QED  BY <1>1, Inductive, PTL

----------------------------------------------------------------------------
(* What reaches the provider while the circuit is open *)

\* The attempts that callers have left.
Left ==
  {x \in Caller \X (1 .. MaxAttempts) : pc[x[1]] = "attempt" /\ attempt[x[1]] <= x[2]}

Limit == (Cardinality(Caller) - 1) * MaxAttempts

LateInv ==
  /\ ~opened => late = 0
  /\ opened => late + Cardinality(Left) <= Limit

\* A caller that has failed leaves the attempts of the others.
LEMMA AttemptsOfOthers ==
  ASSUME NEW c \in Caller
  PROVE  /\ IsFiniteSet((Caller \ {c}) \X (1 .. MaxAttempts))
         /\ Cardinality((Caller \ {c}) \X (1 .. MaxAttempts)) = Limit
<1>1. IsFiniteSet(Caller \ {c}) /\ Cardinality(Caller \ {c}) = Cardinality(Caller) - 1
  BY CallerAssumption, FS_RemoveElement
<1>2. IsFiniteSet(1 .. MaxAttempts) /\ Cardinality(1 .. MaxAttempts) = MaxAttempts
  BY LimitAssumption, FS_Interval
<1> QED  BY <1>1, <1>2, FS_Product DEF Limit

LEMMA LimitType == Limit \in Nat
<1>1. PICK c \in Caller : TRUE  BY CallerAssumption
<1> QED  BY <1>1, AttemptsOfOthers, FS_CardinalityType

LEMMA LeftFinite == IsFiniteSet(Left) /\ Cardinality(Left) \in Nat
<1>1. IsFiniteSet(1 .. MaxAttempts)  BY LimitAssumption, FS_Interval
<1>2. IsFiniteSet(Caller \X (1 .. MaxAttempts))  BY <1>1, CallerAssumption, FS_Product
<1>3. Left \subseteq Caller \X (1 .. MaxAttempts)  BY DEF Left
<1> QED  BY <1>2, <1>3, FS_Subset, FS_CardinalityType

\* A step with which no attempt begins, and which is no request.
LEMMA LeftSame ==
  ASSUME LateInv, TypeOK, UNCHANGED <<late, opened>>, Left' \subseteq Left
  PROVE  LateInv'
<1>1. Cardinality(Left') <= Cardinality(Left) /\ Cardinality(Left') \in Nat
  BY LeftFinite, FS_Subset, FS_CardinalityType
<1>2. Limit' = Limit  BY DEF Limit
<1> QED  BY <1>1, <1>2, LeftFinite, LimitType DEF LateInv, TypeOK

LEMMA AttemptSpent ==
  ASSUME LateInv, TypeOK, NEW c \in Caller, pc[c] = "attempt", Served, UNCHANGED opened,
         Left' \subseteq Left \ {<<c, attempt[c]>>}
  PROVE  LateInv'
<1>1. attempt[c] \in 1 .. MaxAttempts  BY DEF TypeOK
<1>2. <<c, attempt[c]>> \in Left
  <2>1. <<c, attempt[c]>> \in Caller \X (1 .. MaxAttempts)  BY <1>1
  <2>2. attempt[c] <= attempt[c]  BY <1>1, LimitAssumption
  <2> QED  BY <2>1, <2>2 DEF Left
<1>3. /\ IsFiniteSet(Left \ {<<c, attempt[c]>>})
      /\ Cardinality(Left \ {<<c, attempt[c]>>}) = Cardinality(Left) - 1
  BY <1>2, LeftFinite, FS_RemoveElement
<1>4. Cardinality(Left') <= Cardinality(Left) - 1 /\ Cardinality(Left') \in Nat
  BY <1>3, FS_Subset, FS_CardinalityType
<1>5. Limit' = Limit  BY DEF Limit
<1>6. late \in Nat /\ opened \in BOOLEAN  BY DEF TypeOK
<1> QED  BY <1>4, <1>5, <1>6, LeftFinite, LimitType DEF LateInv, Served

LEMMA LateStep == TypeOK /\ OpenIffThreshold /\ LateInv /\ [Next]_vars => LateInv'
<1> SUFFICES ASSUME TypeOK, OpenIffThreshold, LateInv, [Next]_vars PROVE LateInv'  OBVIOUS
<1>0. /\ pc \in [Caller -> Steps] /\ attempt \in [Caller -> 1 .. MaxAttempts]
      /\ late \in Nat /\ opened \in BOOLEAN
  BY DEF TypeOK
<1>1. ASSUME UNCHANGED <<late, opened, pc, attempt>> PROVE LateInv'
  <2>1. Left' = Left  BY <1>1 DEF Left
  <2> QED  BY <1>1, <2>1, LeftSame
<1>2. ASSUME NEW c \in Caller, NEW step, Goto(c, step), step # "attempt",
             UNCHANGED <<late, opened>>, \A d \in Caller : d # c => attempt'[d] = attempt[d]
      PROVE  LateInv'
  <2>1. \A d \in Caller : pc'[d] = IF d = c THEN step ELSE pc[d]  BY <1>0, <1>2 DEF Goto
  <2>2. Left' \subseteq Left  BY <1>2, <2>1 DEF Left
  <2> QED  BY <1>2, <2>2, LeftSame
<1>3. ASSUME NEW c \in Caller, Ask(c) \/ EnsureRefuses(c) \/ Return(c) PROVE LateInv'
  <2>1. PICK step \in {"ensure", "unavailable", "idle"} : Goto(c, step)
    BY <1>3 DEF Ask, EnsureRefuses, Return
  <2>2. /\ UNCHANGED <<late, opened>>
        /\ \A d \in Caller : d # c => attempt'[d] = attempt[d]
    BY <1>0, <1>3 DEF Ask, EnsureRefuses, Return, circuit
  <2> QED  BY <1>2, <2>1, <2>2
<1>4. ASSUME NEW c \in Caller, EnsurePasses(c) \/ RecordSuccess(c) PROVE LateInv'
  <2>1. opened' = FALSE /\ late' = 0
    BY <1>0, <1>4 DEF EnsurePasses, RecordSuccess, LateInv
  <2> QED  BY <2>1 DEF LateInv
<1>5. ASSUME NEW c \in Caller, NEW step, Goto(c, step), step # "attempt",
             pc[c] = "attempt", Served, UNCHANGED <<opened, attempt>>
      PROVE  LateInv'
  <2>1. \A d \in Caller : pc'[d] = IF d = c THEN step ELSE pc[d]  BY <1>0, <1>5 DEF Goto
  <2>2. Left' \subseteq Left \ {<<c, attempt[c]>>}  BY <1>5, <2>1 DEF Left
  <2> QED  BY <1>5, <2>2, AttemptSpent
<1>6. ASSUME NEW c \in Caller, AttemptSucceeds(c) \/ AttemptEscapes(c) PROVE LateInv'
  BY <1>5, <1>6 DEF AttemptSucceeds, AttemptEscapes, circuit
<1>7. ASSUME NEW c \in Caller, AttemptFails(c) PROVE LateInv'
  <2>1. pc[c] = "attempt" /\ Served /\ UNCHANGED opened
    BY <1>7 DEF AttemptFails, circuit
  <2>2. CASE Goto(c, "failure") /\ UNCHANGED attempt
    BY <1>5, <2>1, <2>2
  <2>3. CASE attempt' = [attempt EXCEPT ![c] = @ + 1] /\ UNCHANGED pc
    <3>1. /\ attempt[c] \in Int /\ attempt'[c] = attempt[c] + 1
          /\ \A d \in Caller : d # c => attempt'[d] = attempt[d]
      BY <1>0, <2>3
    <3>2. ASSUME NEW x \in Left' PROVE x \in Left \ {<<c, attempt[c]>>}
      <4>1. /\ x \in Caller \X (1 .. MaxAttempts) /\ pc[x[1]] = "attempt"
            /\ attempt'[x[1]] <= x[2]
        BY <2>3, <3>2 DEF Left
      <4>2. x[1] \in Caller /\ x[2] \in Int  BY <4>1
      <4>3. attempt[x[1]] <= x[2] /\ (x[1] = c => x[2] # attempt[c])
        BY <1>0, <3>1, <4>1, <4>2
      <4> QED  BY <4>1, <4>3 DEF Left
    <3> QED  BY <2>1, <3>2, AttemptSpent
  <2> QED  BY <1>7, <2>2, <2>3 DEF AttemptFails
<1>8. ASSUME NEW c \in Caller, RecordFailure(c) PROVE LateInv'
  <2>1. /\ pc[c] = "failure" /\ Goto(c, "unavailable") /\ UNCHANGED <<attempt, late>>
        /\ opened => opened'
    BY <1>0, <1>8 DEF RecordFailure
  <2>2. opened' \in BOOLEAN  BY <1>0, <1>8 DEF RecordFailure
  <2>3. CASE opened' = opened  BY <1>2, <2>1, <2>3
  <2>4. CASE ~opened /\ opened'
    <3>1. late' = 0  BY <2>1, <2>4 DEF LateInv
    <3>2. \A d \in Caller : pc'[d] = IF d = c THEN "unavailable" ELSE pc[d]
      BY <1>0, <2>1 DEF Goto
    <3>3. Left' \subseteq (Caller \ {c}) \X (1 .. MaxAttempts)  BY <3>2 DEF Left
    <3>4. Cardinality(Left') <= Limit /\ Cardinality(Left') \in Nat
      <4> DEFINE others == (Caller \ {c}) \X (1 .. MaxAttempts)
      <4>1. IsFiniteSet(others) /\ Cardinality(others) = Limit  BY AttemptsOfOthers
      <4>2. Left' \in SUBSET others  BY <3>3
      <4> HIDE DEF others
      <4> QED  BY <4>1, <4>2, FS_Subset, FS_CardinalityType
    <3>5. Limit' = Limit  BY DEF Limit
    <3> QED  BY <2>4, <3>1, <3>4, <3>5, LimitType DEF LateInv
  <2> QED  BY <1>0, <2>1, <2>2, <2>3, <2>4
<1>9. CASE Tick \/ ProviderChanges \/ UNCHANGED vars
  BY <1>1, <1>9 DEF Tick, ProviderChanges, circuit, vars
<1> QED  BY <1>3, <1>4, <1>6, <1>7, <1>8, <1>9 DEF Next, Progress

\* While the circuit is open the provider has no more requests than the attempts
\* that the other callers had left when it opened.
THEOREM ProviderIsProtected == Spec => []LateRequestsBounded
<1>1. Init => LateInv  BY DEF Init, LateInv
<1>2. IInv => TypeOK /\ OpenIffThreshold  BY DEF IInv
<1>3. Spec => []LateInv  BY <1>1, <1>2, LateStep, Inductive, PTL DEF Spec
<1>4. TypeOK /\ LateInv => LateRequestsBounded
  BY LeftFinite, LimitType DEF TypeOK, LateInv, LateRequestsBounded, Limit
<1> QED  BY <1>2, <1>3, <1>4, Inductive, PTL
=============================================================================
