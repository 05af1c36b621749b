------------------------ MODULE ConnectionRegistry ------------------------
(***************************************************************************)
(* EmbeddingConnectionRegistry (connections.py) and the handlers of app.py *)
(* that use it: temporary provider connections with a sliding expiry.      *)
(*                                                                         *)
(* Every operation of the registry reads the clock first and takes the     *)
(* lock afterwards, so between the two other operations, and time, may     *)
(* pass.  The map lives in the process and is lost with it.                *)
(***************************************************************************)
EXTENDS Integers, FiniteSets

CONSTANTS
  Client,       \* handler threads
  ConnId,       \* connection ids (random tokens)
  TTL,          \* ttl_seconds, in ticks
  MaxClock,     \* bound on the clock
  None

ASSUME TTLAssumption == TTL \in Nat \ {0} /\ MaxClock \in Nat
ASSUME NoneAssumption == None \notin Nat /\ None \notin ConnId

VARIABLES
  clock,        \* the monotonic clock
  expiry,       \* expiry[i]: expires_at_monotonic of the record of i, or None
  issued,       \* the ids that have been handed out
  pc,           \* pc[c]: the next step of c
  target,       \* target[c]: the id c was called with, or None
  seen,         \* seen[c]: the clock as c has read it
  lastUse       \* lastUse[i]: the newest clock reading of a use of i

call == <<pc, target, seen>>
vars == <<clock, expiry, issued, pc, target, seen, lastUse>>

Time == 0 .. MaxClock
Steps == {"idle", "probe", "add", "resolve", "describe", "delete", "serving"}

TypeOK ==
  /\ clock \in Time
  /\ expiry \in [ConnId -> Nat \cup {None}]
  /\ issued \in SUBSET ConnId
  /\ \A i \in ConnId : expiry[i] # None => i \in issued
  /\ pc \in [Client -> Steps]
  /\ target \in [Client -> ConnId \cup {None}]
  /\ \A c \in Client : pc[c] \in {"resolve", "describe", "delete"} => target[c] # None
  /\ seen \in [Client -> Time]
  /\ lastUse \in [ConnId -> Time]

Init ==
  /\ clock = 0
  /\ expiry = [i \in ConnId |-> None]
  /\ issued = {}
  /\ pc = [c \in Client |-> "idle"]
  /\ target = [c \in Client |-> None]
  /\ seen = [c \in Client |-> 0]
  /\ lastUse = [i \in ConnId |-> 0]

Goto(c, step) == pc' = [pc EXCEPT ![c] = step]

\* _purge_expired, with the clock as the caller has read it.
Purged(now) ==
  [i \in ConnId |-> IF expiry[i] # None /\ expiry[i] <= now THEN None ELSE expiry[i]]

Later(a, b) == IF a > b THEN a ELSE b

\* A record is used: the ghost keeps the newest reading.
UsedAt(i, now) == lastUse' = [lastUse EXCEPT ![i] = Later(@, now)]

----------------------------------------------------------------------------
(* POST: probe the provider, then register *)

StartCreate(c) ==
  /\ pc[c] = "idle"
  /\ Goto(c, "probe")
  /\ UNCHANGED <<clock, expiry, issued, target, seen, lastUse>>

\* HTTP 503: the provider refused the probe, nothing is registered.
ProbeFails(c) ==
  /\ pc[c] = "probe"
  /\ Goto(c, "idle")
  /\ UNCHANGED <<clock, expiry, issued, target, seen, lastUse>>

\* The probe succeeds; add reads the clock.
ProbeSucceeds(c) ==
  /\ pc[c] = "probe"
  /\ Goto(c, "add")
  /\ seen' = [seen EXCEPT ![c] = clock]
  /\ UNCHANGED <<clock, expiry, issued, target, lastUse>>

\* add under the lock.  A random token is never handed out twice.
Add(c) ==
  /\ pc[c] = "add"
  /\ \E i \in ConnId \ issued :
       /\ expiry' = [Purged(seen[c]) EXCEPT ![i] = seen[c] + TTL]
       /\ issued' = issued \cup {i}
       /\ UsedAt(i, seen[c])
  /\ Goto(c, "idle")
  /\ UNCHANGED <<clock, target, seen>>

----------------------------------------------------------------------------
(* The calls that name an id, known or not *)

\* An Add or Search with the connection header, a GET, or a DELETE.  resolve
\* and describe read the clock; delete does not.
Call(c, i, step) ==
  /\ pc[c] = "idle"
  /\ Goto(c, step)
  /\ target' = [target EXCEPT ![c] = i]
  /\ seen' = [seen EXCEPT ![c] = IF step = "delete" THEN @ ELSE clock]
  /\ UNCHANGED <<clock, expiry, issued, lastUse>>

\* A mutant of Resolve: it makes a record for an id that has none.
ResolveOrCreate(c) ==
  /\ pc[c] = "resolve"
  /\ Goto(c, "serving")
  /\ expiry' = [Purged(seen[c]) EXCEPT ![target[c]] = seen[c] + TTL]
  /\ UsedAt(target[c], seen[c])
  /\ UNCHANGED <<clock, issued, target, seen>>

\* resolve under the lock: HTTP 401, or the deadline is set from the reading
\* and the request is served with the provider client of the record.
Resolve(c) ==
  LET i == target[c] IN
  /\ pc[c] = "resolve"
  /\ IF Purged(seen[c])[i] = None
       THEN /\ Goto(c, "idle")
            /\ expiry' = Purged(seen[c])
            /\ UNCHANGED lastUse
       ELSE /\ Goto(c, "serving")
            /\ expiry' = [Purged(seen[c]) EXCEPT ![i] = seen[c] + TTL]
            /\ UsedAt(i, seen[c])
  /\ UNCHANGED <<clock, issued, target, seen>>

\* The request ends; the registry is not told.
Served(c) ==
  /\ pc[c] = "serving"
  /\ Goto(c, "idle")
  /\ UNCHANGED <<clock, expiry, issued, target, seen, lastUse>>

\* Mutants of Describe: it counts as a use; it drops what expires next, too.
DescribeRefreshing(c) ==
  LET kept == Purged(seen[c]) IN
  /\ pc[c] = "describe"
  /\ expiry' = IF kept[target[c]] = None THEN kept
               ELSE [kept EXCEPT ![target[c]] = seen[c] + TTL]
  /\ Goto(c, "idle")
  /\ UNCHANGED <<clock, issued, target, seen, lastUse>>

DescribePurgingMore(c) ==
  /\ pc[c] = "describe"
  /\ expiry' = Purged(seen[c] + 1)
  /\ Goto(c, "idle")
  /\ UNCHANGED <<clock, issued, target, seen, lastUse>>

\* describe under the lock: purges, and reports.
Describe(c) ==
  /\ pc[c] = "describe"
  /\ expiry' = Purged(seen[c])
  /\ Goto(c, "idle")
  /\ UNCHANGED <<clock, issued, target, seen, lastUse>>

Delete(c) ==
  /\ pc[c] = "delete"
  /\ expiry' = [expiry EXCEPT ![target[c]] = None]
  /\ Goto(c, "idle")
  /\ UNCHANGED <<clock, issued, target, seen, lastUse>>

----------------------------------------------------------------------------
(* The environment *)

Tick ==
  /\ clock < MaxClock
  /\ clock' = clock + 1
  /\ UNCHANGED <<expiry, issued, call, lastUse>>

\* The process restarts: the map and the calls are gone, clients keep ids.
Restart ==
  /\ expiry' = [i \in ConnId |-> None]
  /\ pc' = [c \in Client |-> "idle"]
  /\ UNCHANGED <<clock, issued, target, seen, lastUse>>

----------------------------------------------------------------------------

Next ==
  \/ \E c \in Client :
       \/ StartCreate(c) \/ ProbeFails(c) \/ ProbeSucceeds(c) \/ Add(c)
       \/ \E i \in ConnId, step \in {"resolve", "describe", "delete"} : Call(c, i, step)
       \/ Resolve(c) \/ Served(c) \/ Describe(c) \/ Delete(c)
  \/ Tick \/ Restart

Spec == Init /\ [][Next]_vars

----------------------------------------------------------------------------
(* Properties *)

\* An id that has lost its record, by a delete, an expiry or a restart, never
\* gets one again, whatever call was under way with it.
NeverRevived ==
  [][\A i \in issued : expiry[i] = None => expiry'[i] = None]_vars

\* A request is served only within TTL of the newest use of its connection:
\* asking for its metadata does not keep a connection alive.
ServedWhileFresh ==
  [][\A c \in Client :
       pc[c] = "resolve" /\ pc'[c] = "serving" => seen[c] < lastUse[target[c]] + TTL]_vars

\* Before its deadline a record leaves the map only by a delete or a restart;
\* no call that read the clock at another moment takes it away.
LiveUntilDeadline ==
  [][\A i \in ConnId :
       expiry[i] # None /\ expiry[i] > clock /\ expiry'[i] = None =>
         \/ \E c \in Client : Delete(c) /\ target[c] = i
         \/ Restart]_vars
=============================================================================
