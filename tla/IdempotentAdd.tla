--------------------------- MODULE IdempotentAdd ---------------------------
(***************************************************************************)
(* What POST /v1/memories/add promises its callers, with no database,      *)
(* thread or provider in sight: a request id is bound, once and for ever,  *)
(* to the first payload that is accepted under it.  Every call takes       *)
(* effect at one instant between its start and its answer: it is accepted  *)
(* when the id is free or already bound to the same payload, refused when  *)
(* the id is bound to another one, or it fails and changes nothing.        *)
(* MemoryAdd, the specification of the code, implements this one.          *)
(***************************************************************************)

CONSTANTS
  Worker,     \* the concurrent handlers
  RequestId,  \* request ids
  Payload,    \* what a request carries beside its id
  None        \* no payload, no call

VARIABLES
  bound,      \* bound[i]: the payload accepted under i, or None
  phase,      \* phase[w]: where the call of w is
  asked       \* asked[w]: the id and the payload of that call, or None

vars == <<bound, phase, asked>>

Phases == {"idle", "pending", "accepted", "refused", "failed"}

TypeOK ==
  /\ bound \in [RequestId -> Payload \cup {None}]
  /\ phase \in [Worker -> Phases]
  /\ asked \in [Worker -> [id : RequestId, payload : Payload] \cup {None}]

Init ==
  /\ bound = [i \in RequestId |-> None]
  /\ phase = [w \in Worker |-> "idle"]
  /\ asked = [w \in Worker |-> None]

Ask(w, i, p) ==
  /\ phase[w] = "idle"
  /\ phase' = [phase EXCEPT ![w] = "pending"]
  /\ asked' = [asked EXCEPT ![w] = [id |-> i, payload |-> p]]
  /\ UNCHANGED bound

Accept(w) ==
  /\ phase[w] = "pending"
  /\ bound[asked[w].id] \in {None, asked[w].payload}
  /\ bound' = [bound EXCEPT ![asked[w].id] = asked[w].payload]
  /\ phase' = [phase EXCEPT ![w] = "accepted"]
  /\ UNCHANGED asked

Refuse(w) ==
  /\ phase[w] = "pending"
  /\ bound[asked[w].id] \notin {None, asked[w].payload}
  /\ phase' = [phase EXCEPT ![w] = "refused"]
  /\ UNCHANGED <<bound, asked>>

Fail(w) ==
  /\ phase[w] = "pending"
  /\ phase' = [phase EXCEPT ![w] = "failed"]
  /\ UNCHANGED <<bound, asked>>

\* The answer is delivered, or the caller never hears of its call again.
Leave(w) ==
  /\ phase[w] # "idle"
  /\ phase' = [phase EXCEPT ![w] = "idle"]
  /\ asked' = [asked EXCEPT ![w] = None]
  /\ UNCHANGED bound

Next ==
  \E w \in Worker :
    \/ \E i \in RequestId, p \in Payload : Ask(w, i, p)
    \/ Accept(w) \/ Refuse(w) \/ Fail(w) \/ Leave(w)

Spec == Init /\ [][Next]_vars
=============================================================================
