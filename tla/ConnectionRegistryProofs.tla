---------------------- MODULE ConnectionRegistryProofs ----------------------
(***************************************************************************)
(* Proofs about ConnectionRegistry, for any number of clients and ids and  *)
(* any lifetime.  Two facts carry them: a clock reading is never ahead of  *)
(* the clock, and a deadline is never later than the newest use allows.    *)
(***************************************************************************)
EXTENDS ConnectionRegistry, TLAPS

\* What a call has read is in the past.
ReadingsPast == \A c \in Client : seen[c] <= clock

\* No deadline is more than TTL after the newest use.
DeadlinesFollowUse ==
  \A i \in ConnId : expiry[i] # None => expiry[i] <= lastUse[i] + TTL

IInv == TypeOK /\ ReadingsPast /\ DeadlinesFollowUse

----------------------------------------------------------------------------
(* Lemmas about the operators *)

\* Purging keeps a record as it is or drops one whose deadline has passed.
LEMMA PurgedFacts ==
  ASSUME TypeOK, NEW now \in Time, NEW i \in ConnId
  PROVE  /\ Purged(now)[i] \in {expiry[i], None}
         /\ Purged(now)[i] # None => expiry[i] # None /\ expiry[i] > now
         /\ (expiry[i] # None /\ Purged(now)[i] = None) => expiry[i] <= now
         /\ Purged(now)[i] \in Nat \cup {None}
BY NoneAssumption DEF TypeOK, Purged, Time

\* A use moves the newest use of its id forward, never back.
LEMMA UsedAtFacts ==
  ASSUME TypeOK, NEW i \in ConnId, NEW now \in Time, UsedAt(i, now)
  PROVE  /\ lastUse' \in [ConnId -> Time] /\ lastUse'[i] >= now
         /\ \A j \in ConnId : lastUse'[j] >= lastUse[j]
BY DEF TypeOK, UsedAt, Later, Time

----------------------------------------------------------------------------
(* The two shapes of a step on the map *)

\* Some records are dropped, none is made or changed.
Drops ==
  /\ \A i \in ConnId : expiry'[i] \in {expiry[i], None}
  /\ expiry' \in [ConnId -> Nat \cup {None}]
  /\ UNCHANGED lastUse

\* The same, and one record is given the deadline of the reading now.
Renews(i, now) ==
  /\ \A j \in ConnId : j # i => expiry'[j] \in {expiry[j], None}
  /\ expiry'[i] = now + TTL
  /\ expiry' \in [ConnId -> Nat \cup {None}]
  /\ UsedAt(i, now)

LEMMA DropsKeeps ==
  ASSUME IInv, Drops, issued \subseteq issued'
  PROVE  DeadlinesFollowUse' /\ \A i \in ConnId : expiry'[i] # None => i \in issued'
BY DEF IInv, TypeOK, DeadlinesFollowUse, Drops

LEMMA RenewsKeeps ==
  ASSUME IInv, NEW i \in ConnId, NEW now \in Time, Renews(i, now),
         issued \subseteq issued', i \in issued'
  PROVE  /\ DeadlinesFollowUse' /\ lastUse' \in [ConnId -> Time]
         /\ \A j \in ConnId : expiry'[j] # None => j \in issued'
<1>1. /\ lastUse' \in [ConnId -> Time] /\ lastUse'[i] >= now
      /\ \A j \in ConnId : lastUse'[j] >= lastUse[j]
  BY UsedAtFacts DEF IInv, Renews
<1>2. ASSUME NEW j \in ConnId, expiry'[j] # None PROVE expiry'[j] <= lastUse'[j] + TTL
  <2>1. lastUse[j] \in Nat /\ lastUse'[j] \in Nat /\ TTL \in Nat /\ now \in Nat
    BY <1>1, TTLAssumption DEF IInv, TypeOK, Time
  <2>2. CASE j = i  BY <1>1, <2>1, <2>2 DEF Renews
  <2>3. CASE j # i
    <3>1. expiry'[j] = expiry[j] /\ expiry[j] # None /\ expiry[j] \in Nat
      BY <1>2, <2>3 DEF Renews, IInv, TypeOK
    <3>2. expiry[j] <= lastUse[j] + TTL  BY <3>1 DEF IInv, DeadlinesFollowUse
    <3> QED  BY <1>1, <2>1, <3>1, <3>2
  <2> QED  BY <2>2, <2>3
<1>3. \A j \in ConnId : expiry'[j] # None => j \in issued'
  BY DEF IInv, TypeOK, Renews
<1> QED  BY <1>1, <1>2, <1>3 DEF DeadlinesFollowUse

LEMMA PurgeDrops ==
  ASSUME TypeOK, NEW now \in Time, expiry' = Purged(now), UNCHANGED lastUse
  PROVE  Drops
<1>1. \A i \in ConnId : expiry'[i] \in {expiry[i], None}  BY PurgedFacts
<1>2. expiry' \in [ConnId -> Nat \cup {None}]
  BY DEF TypeOK, Purged
<1> QED  BY <1>1, <1>2 DEF Drops

LEMMA PurgeRenews ==
  ASSUME TypeOK, NEW i \in ConnId, NEW now \in Time, UsedAt(i, now),
         expiry' = [Purged(now) EXCEPT ![i] = now + TTL]
  PROVE  Renews(i, now)
<1>1. Purged(now) \in [ConnId -> Nat \cup {None}]  BY DEF TypeOK, Purged
<1>2. now + TTL \in Nat  BY TTLAssumption DEF Time
<1>3. expiry' \in [ConnId -> Nat \cup {None}] /\ expiry'[i] = now + TTL
  BY <1>1, <1>2
<1>4. \A j \in ConnId : j # i => expiry'[j] \in {expiry[j], None}
  BY <1>1, PurgedFacts
<1> QED  BY <1>3, <1>4 DEF Renews

----------------------------------------------------------------------------
(* The invariant *)

LEMMA InitInv == Init => IInv
BY TTLAssumption
DEF Init, IInv, TypeOK, Steps, Time, ReadingsPast, DeadlinesFollowUse

\* Steps that do not touch the map.
LEMMA StillMap ==
  ASSUME IInv, UNCHANGED <<expiry, issued, lastUse>>
  PROVE  DeadlinesFollowUse' /\ \A i \in ConnId : expiry'[i] # None => i \in issued'
BY DEF IInv, TypeOK, DeadlinesFollowUse

LEMMA StepInv == IInv /\ [Next]_vars => IInv'
<1> SUFFICES ASSUME IInv, [Next]_vars PROVE IInv'  OBVIOUS
<1> DEFINE MapOK == /\ expiry \in [ConnId -> Nat \cup {None}] /\ issued \in SUBSET ConnId
                    /\ lastUse \in [ConnId -> Time]
                    /\ \A i \in ConnId : expiry[i] # None => i \in issued
           CallOK == /\ clock \in Time /\ pc \in [Client -> Steps]
                     /\ target \in [Client -> ConnId \cup {None}]
                     /\ \A c \in Client :
                          pc[c] \in {"resolve", "describe", "delete"} => target[c] # None
                     /\ seen \in [Client -> Time]
<1>0. TypeOK /\ MapOK /\ CallOK /\ ReadingsPast  BY DEF IInv, TypeOK
\* The calls and the clock.
<1>1. CallOK' /\ ReadingsPast'
  <2>1. CASE Tick
    <3>1. clock \in Nat /\ clock' = clock + 1 /\ clock' \in Time /\ UNCHANGED call
      BY <1>0, <2>1, TTLAssumption DEF Tick, Time
    <3> QED  BY <1>0, <3>1 DEF call, ReadingsPast, Time
  <2>2. CASE Restart \/ UNCHANGED vars
    BY <1>0, <2>2 DEF Restart, vars, call, Steps, ReadingsPast
  <2>3. ASSUME NEW c \in Client, NEW i \in ConnId,
               NEW step \in {"resolve", "describe", "delete"}, Call(c, i, step)
        PROVE  CallOK' /\ ReadingsPast'
    BY <1>0, <2>3, NoneAssumption DEF Call, Goto, Steps, ReadingsPast, Time
  <2>4. ASSUME NEW c \in Client, ProbeSucceeds(c) PROVE CallOK' /\ ReadingsPast'
    BY <1>0, <2>4 DEF ProbeSucceeds, Goto, Steps, ReadingsPast, Time
  <2>5. ASSUME NEW c \in Client,
               \/ StartCreate(c) \/ ProbeFails(c) \/ Add(c) \/ Resolve(c)
               \/ Served(c) \/ Describe(c) \/ Delete(c)
        PROVE  CallOK' /\ ReadingsPast'
    <3>1. PICK step \in {"probe", "idle", "serving"} : Goto(c, step)
      BY <2>5 DEF StartCreate, ProbeFails, Add, Resolve, Served, Describe, Delete
    <3>2. UNCHANGED <<clock, target, seen>>
      BY <2>5 DEF StartCreate, ProbeFails, Add, Resolve, Served, Describe, Delete
    <3> QED  BY <1>0, <3>1, <3>2 DEF Goto, Steps, ReadingsPast
  <2> QED  BY <2>1, <2>2, <2>3, <2>4, <2>5 DEF Next
\* The map.
<1>2. MapOK' /\ DeadlinesFollowUse'
  <2>1. ASSUME NEW c \in Client, NEW i \in ConnId, NEW step, Call(c, i, step)
        PROVE  MapOK' /\ DeadlinesFollowUse'
    BY <1>0, <2>1, StillMap DEF Call
  <2>2. ASSUME NEW c \in Client,
               StartCreate(c) \/ ProbeFails(c) \/ ProbeSucceeds(c) \/ Served(c)
        PROVE  MapOK' /\ DeadlinesFollowUse'
    BY <1>0, <2>2, StillMap DEF StartCreate, ProbeFails, ProbeSucceeds, Served
  <2>3. CASE Tick \/ UNCHANGED vars
    BY <1>0, <2>3, StillMap DEF Tick, vars
  <2>4. ASSUME Drops, UNCHANGED issued PROVE MapOK' /\ DeadlinesFollowUse'
    BY <1>0, <2>4, DropsKeeps DEF Drops
  <2>5. ASSUME NEW i \in ConnId, NEW now \in Time, Renews(i, now),
               issued' \in SUBSET ConnId, issued \subseteq issued', i \in issued'
        PROVE  MapOK' /\ DeadlinesFollowUse'
    BY <2>5, RenewsKeeps DEF Renews
  <2>6. ASSUME NEW c \in Client, Add(c) PROVE MapOK' /\ DeadlinesFollowUse'
    <3>1. PICK i \in ConnId :
            /\ expiry' = [Purged(seen[c]) EXCEPT ![i] = seen[c] + TTL]
            /\ issued' = issued \cup {i} /\ UsedAt(i, seen[c])
      BY <2>6 DEF Add
    <3>2. seen[c] \in Time  BY <1>0
    <3>3. Renews(i, seen[c])  BY <1>0, <3>1, <3>2, PurgeRenews
    <3> QED  BY <1>0, <2>5, <3>1, <3>2, <3>3
  <2>7. ASSUME NEW c \in Client, Resolve(c) PROVE MapOK' /\ DeadlinesFollowUse'
    <3> DEFINE i == target[c]
    <3>1. seen[c] \in Time /\ i \in ConnId /\ issued' = issued
      BY <1>0, <2>7 DEF Resolve
    <3>2. CASE Purged(seen[c])[i] = None
      <4>1. expiry' = Purged(seen[c]) /\ UNCHANGED lastUse  BY <2>7, <3>2 DEF Resolve
      <4>2. Drops  BY <1>0, <3>1, <4>1, PurgeDrops
      <4> QED  BY <2>4, <3>1, <4>2
    <3>3. CASE Purged(seen[c])[i] # None
      <4>1. /\ expiry' = [Purged(seen[c]) EXCEPT ![i] = seen[c] + TTL]
            /\ UsedAt(i, seen[c])
        BY <2>7, <3>3 DEF Resolve
      <4>2. Renews(i, seen[c])  BY <1>0, <3>1, <4>1, PurgeRenews
      <4>3. i \in issued  BY <1>0, <3>1, <3>3, PurgedFacts
      <4> QED  BY <1>0, <2>5, <3>1, <4>2, <4>3
    <3> QED  BY <3>2, <3>3
  <2>8. ASSUME NEW c \in Client, Describe(c) PROVE MapOK' /\ DeadlinesFollowUse'
    <3>1. seen[c] \in Time  BY <1>0
    <3>2. Drops  BY <1>0, <2>8, <3>1, PurgeDrops DEF Describe
    <3> QED  BY <2>4, <2>8, <3>2 DEF Describe
  <2>9. ASSUME NEW c \in Client, Delete(c) PROVE MapOK' /\ DeadlinesFollowUse'
    <3>1. Drops  BY <1>0, <2>9 DEF Delete, Drops
    <3> QED  BY <2>4, <2>9, <3>1 DEF Delete
  <2>10. CASE Restart
    <3>1. Drops  BY <2>10 DEF Restart, Drops
    <3> QED  BY <2>4, <2>10, <3>1 DEF Restart
  <2> QED  BY <2>1, <2>2, <2>3, <2>6, <2>7, <2>8, <2>9, <2>10 DEF Next
<1> QED  BY <1>1, <1>2 DEF IInv, TypeOK

\* The invariant holds in every reachable state.
THEOREM Inductive == Spec => []IInv
BY InitInv, StepInv, PTL DEF Spec

----------------------------------------------------------------------------
(* What follows from it *)

\* The registry keeps its types, and holds records of issued ids only.
THEOREM TypeCorrect == Spec => []TypeOK
<1>1. IInv => TypeOK  BY DEF IInv
<1> QED  BY <1>1, Inductive, PTL

\* A connection that is gone stays gone: no late resolve brings it back.
THEOREM GoneIsGone == Spec => NeverRevived
<1>1. ASSUME IInv, Next, NEW i \in issued, expiry[i] = None PROVE expiry'[i] = None
  <2>1. i \in ConnId /\ TypeOK  BY <1>1 DEF IInv, TypeOK
  <2>2. ASSUME NEW c \in Client, Add(c) PROVE expiry'[i] = None
    <3>1. PICK j \in ConnId \ issued :
            expiry' = [Purged(seen[c]) EXCEPT ![j] = seen[c] + TTL]
      BY <2>2 DEF Add
    <3>2. j # i /\ seen[c] \in Time  BY <1>1, <2>1, <3>1 DEF TypeOK
    <3> QED  BY <1>1, <2>1, <3>1, <3>2 DEF Purged
  <2>3. ASSUME NEW c \in Client, Resolve(c) PROVE expiry'[i] = None
    <3>1. Purged(seen[c])[i] = None  BY <1>1, <2>1 DEF Purged
    <3> QED  BY <2>1, <2>3, <3>1 DEF Resolve, Purged
  <2>4. ASSUME NEW c \in Client, Describe(c) \/ Delete(c) PROVE expiry'[i] = None
    BY <1>1, <2>1, <2>4 DEF Describe, Delete, Purged, TypeOK
  <2>5. CASE Restart  BY <2>1, <2>5 DEF Restart
  <2>6. CASE UNCHANGED expiry  BY <1>1, <2>6
  <2> QED
    BY <1>1, <2>2, <2>3, <2>4, <2>5, <2>6
    DEF Next, StartCreate, ProbeFails, ProbeSucceeds, Call, Served, Tick
<1>2. IInv /\ [Next]_vars => [\A i \in issued : expiry[i] = None => expiry'[i] = None]_vars
  BY <1>1
<1> QED  BY <1>2, Inductive, PTL DEF Spec, NeverRevived

\* No request is served by a connection that has been idle for its lifetime.
THEOREM OnlyFreshServe == Spec => ServedWhileFresh
<1>1. ASSUME IInv, Next, NEW c \in Client, pc[c] = "resolve", pc'[c] = "serving"
      PROVE  seen[c] < lastUse[target[c]] + TTL
  <2>1. TypeOK  BY <1>1 DEF IInv
  <2>2. Resolve(c)
    <3>1. ASSUME NEW d \in Client, NEW step, Goto(d, step), step # "serving"
          PROVE  FALSE
      BY <1>1, <2>1, <3>1 DEF Goto, TypeOK
    <3>2. ASSUME NEW d \in Client, Resolve(d) PROVE Resolve(c)
      BY <1>1, <2>1, <3>2 DEF Resolve, Goto, TypeOK
    <3> QED
      BY <1>1, <3>1, <3>2
      DEF Next, StartCreate, ProbeFails, ProbeSucceeds, Add, Call, Served, Describe, Delete,
          Tick, Restart, call
  <2> DEFINE i == target[c]
  <2>3. i \in ConnId /\ seen[c] \in Time  BY <1>1, <2>1 DEF TypeOK
  <2>4. Purged(seen[c])[i] # None
    BY <1>1, <2>1, <2>2 DEF Resolve, Goto, TypeOK
  <2>5. expiry[i] # None /\ expiry[i] > seen[c] /\ expiry[i] \in Nat
    BY <2>1, <2>3, <2>4, PurgedFacts DEF TypeOK
  <2>6. expiry[i] <= lastUse[i] + TTL  BY <1>1, <2>3, <2>5 DEF IInv, DeadlinesFollowUse
  <2>7. seen[c] \in Nat /\ lastUse[i] \in Nat /\ TTL \in Nat
    BY <2>1, <2>3, TTLAssumption DEF TypeOK, Time
  <2> QED  BY <2>5, <2>6, <2>7
<1>2. IInv /\ [Next]_vars =>
        [\A c \in Client :
           pc[c] = "resolve" /\ pc'[c] = "serving" => seen[c] < lastUse[target[c]] + TTL]_vars
  BY <1>1
<1> QED  BY <1>2, Inductive, PTL DEF Spec, ServedWhileFresh

\* A record that is not due leaves the map by a delete or a restart only: no
\* call reads a clock that is ahead.
THEOREM NotDroppedEarly == Spec => LiveUntilDeadline
<1>1. ASSUME IInv, Next, NEW i \in ConnId, expiry[i] # None, expiry[i] > clock, expiry'[i] = None
      PROVE  (\E c \in Client : Delete(c) /\ target[c] = i) \/ Restart
  <2>1. TypeOK /\ clock \in Nat /\ expiry[i] \in Nat /\ \A c \in Client : seen[c] <= clock
    BY <1>1 DEF IInv, TypeOK, ReadingsPast, Time
  <2>2. ASSUME NEW c \in Client PROVE Purged(seen[c])[i] = expiry[i]
    <3>1. seen[c] \in Nat /\ seen[c] <= clock  BY <2>1 DEF TypeOK, Time
    <3> QED  BY <1>1, <2>1, <3>1 DEF Purged
  <2>3. ASSUME NEW c \in Client, Add(c) PROVE FALSE
    <3>1. PICK j \in ConnId \ issued :
            expiry' = [Purged(seen[c]) EXCEPT ![j] = seen[c] + TTL]
      BY <2>3 DEF Add
    <3>2. j # i  BY <1>1, <2>1, <3>1 DEF TypeOK
    <3> QED  BY <1>1, <2>2, <3>1, <3>2 DEF Purged
  <2>4. ASSUME NEW c \in Client, Resolve(c) PROVE FALSE
    <3>1. seen[c] + TTL \in Nat  BY <2>1, TTLAssumption DEF TypeOK, Time
    <3> QED  BY <1>1, <2>2, <2>4, <3>1, NoneAssumption DEF Resolve, Purged
  <2>5. ASSUME NEW c \in Client, Describe(c) PROVE FALSE
    BY <1>1, <2>2, <2>5 DEF Describe
  <2>6. ASSUME NEW c \in Client, Delete(c) PROVE target[c] = i
    BY <1>1, <2>1, <2>6 DEF Delete, TypeOK
  <2>7. CASE UNCHANGED expiry  BY <1>1, <2>7
  <2> QED
    BY <1>1, <2>3, <2>4, <2>5, <2>6, <2>7
    DEF Next, StartCreate, ProbeFails, ProbeSucceeds, Call, Served, Tick
<1>2. IInv /\ [Next]_vars =>
        [\A i \in ConnId :
           expiry[i] # None /\ expiry[i] > clock /\ expiry'[i] = None =>
             \/ \E c \in Client : Delete(c) /\ target[c] = i
             \/ Restart]_vars
  BY <1>1
<1> QED  BY <1>2, Inductive, PTL DEF Spec, LiveUntilDeadline
=============================================================================
