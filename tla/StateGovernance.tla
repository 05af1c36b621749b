-------------------------- MODULE StateGovernance --------------------------
(***************************************************************************)
(* What an Add tells about earlier messages: the supersedes relations that *)
(* MemoryStore writes in the Add transaction, by explicit update wording   *)
(* (store.py, state.py) and by shared facets, and what a "forget" message  *)
(* hides through them.                                                     *)
(*                                                                         *)
(* A message and its relations become visible by one commit (MemoryAdd),   *)
(* so a committed message is one step here.  Text is abstracted to what    *)
(* the linkers read of it: its topic terms, whether it has update wording, *)
(* and its facets (analysis.py).  A message of the benchmark path has      *)
(* terms and neither update wording nor facets.                            *)
(***************************************************************************)
EXTENDS Integers, Sequences, FiniteSets

CONSTANTS
  User,         \* user ids
  Session,      \* session ids: a client chooses them, users may share one
  Memory,       \* the messages clients may add
  MaxMessages,  \* bound on the number of committed messages
  None          \* absent value

Statuses == {"cancel", "resume", "forget", "update"}

ASSUME MemoryAssumption ==
  \A m \in Memory :
    /\ m.user \in User /\ m.session \in Session
    /\ m.at \in Nat \cup {None}                     \* occurred_at_ms
    /\ m.explicit \in BOOLEAN /\ m.unsafe \in BOOLEAN
    /\ IsFiniteSet(m.terms) /\ IsFiniteSet(m.events) /\ IsFiniteSet(m.entities)
    /\ IsFiniteSet(m.places) /\ IsFiniteSet(m.dates)
    /\ m.statuses \in SUBSET Statuses

\* Fewer than the linkers' candidate limit (100) and than the smallest limit
\* of list_state_chain (20): neither limit is reached.
ASSUME MaxMessagesAssumption == MaxMessages \in 1 .. 19

VARIABLES
  memory,       \* the committed messages by messages.sequence
  supersedes    \* state_relations: <<newer, older>>

store == <<memory, supersedes>>

StoreOK ==
  /\ memory \in Seq(Memory)
  /\ Len(memory) <= MaxMessages
  /\ supersedes \subseteq (DOMAIN memory) \X (DOMAIN memory)

StoreInit ==
  /\ memory = << >>
  /\ supersedes = {}

----------------------------------------------------------------------------
(* The linkers.  log is the memory with the new message n at its end. *)

Earlier(log, n) == {o \in 1 .. n - 1 : log[o].user = log[n].user}

OccursAfter(log, o, n) ==
  log[o].at # None /\ log[n].at # None /\ log[o].at > log[n].at

\* Update wording, two shared topic terms, no later source time.
ExplicitCandidates(log, n) ==
  {o \in Earlier(log, n) :
     /\ log[n].explicit
     /\ ~OccursAfter(log, o, n)
     /\ Cardinality(log[n].terms \cap log[o].terms) >= 2}

\* max by (has a time, time, sequence).
Time(m) == IF m.at = None THEN -1 ELSE m.at

ExplicitTarget(log, n) ==
  {o \in ExplicitCandidates(log, n) :
     \A p \in ExplicitCandidates(log, n) :
       \/ Time(log[p]) < Time(log[o])
       \/ Time(log[p]) = Time(log[o]) /\ p <= o}

\* An event with a date or a status, the same event and an entity or a place
\* in common, and something that changed.
StructuredCandidates(log, n) ==
  {o \in Earlier(log, n) :
     /\ log[n].dates # {} \/ log[n].statuses # {}
     /\ log[n].events \cap log[o].events # {}
     /\ \/ log[n].entities \cap log[o].entities # {}
        \/ log[n].places \cap log[o].places # {}
     /\ log[n].statuses # {} \/ log[n].dates # log[o].dates}

Score(log, n, o) ==
  4 * Cardinality(log[n].events \cap log[o].events)
    + 2 * Cardinality(log[n].entities \cap log[o].entities)
    + Cardinality(log[n].places \cap log[o].places)
    + IF log[n].statuses # log[o].statuses THEN 1 ELSE 0

StructuredTarget(log, n) ==
  {o \in StructuredCandidates(log, n) :
     \A p \in StructuredCandidates(log, n) :
       \/ Score(log, n, p) < Score(log, n, o)
       \/ Score(log, n, p) = Score(log, n, o) /\ p <= o}

\* A message of an Add transaction is committed with its relations.
Remember(m) ==
  LET log == Append(memory, m)
      n   == Len(memory) + 1 IN
  /\ Len(memory) < MaxMessages
  /\ memory' = log
  /\ supersedes' = supersedes \cup
       ({n} \X (ExplicitTarget(log, n) \cup StructuredTarget(log, n)))

----------------------------------------------------------------------------
(* What the relations mean.  n bounds the messages that are looked at: a   *)
(* reader sees a prefix of the memory with the relations of that prefix.   *)

Mine(u, n) == {i \in 1 .. n : memory[i].user = u}

\* The relations a reader with user u sees: user_id is the newer message's.
Relations(u, n) == {r \in supersedes : r[1] \in Mine(u, n)}

HasStatus(i, status) == status \in memory[i].statuses

\* A mutant of Forgotten: a forget that was itself superseded hides no more.
ForgottenUntilResumed(u, n) ==
  {i \in 1 .. n : \E r \in Relations(u, n) :
     /\ r[2] = i
     /\ HasStatus(r[1], "forget")
     /\ \A s \in Relations(u, n) : s[2] # r[1]}

\* list_forgotten_message_ids: what a forget supersedes, and what that
\* supersedes in turn (the least set closed under the recursive query).
Forgotten(u, n) ==
  {i \in 1 .. n :
     \A S \in SUBSET (1 .. n) :
       (\A r \in Relations(u, n) :
          (HasStatus(r[1], "forget") \/ r[1] \in S) => r[2] \in S) => i \in S}

----------------------------------------------------------------------------
(* Properties *)

\* "Cross-user chains are impossible": every relation joins two messages of
\* one user, and points from a later Add to an earlier one, so that chains
\* have no cycle for the recursive query to run in.
ChainsWithinUser ==
  \A r \in supersedes :
    /\ r[2] < r[1]
    /\ memory[r[1]].user = memory[r[2]].user

\* An update by wording alone does not supersede what happened after it,
\* even when Adds arrive out of order.
ExplicitUpdatesForward ==
  \A r \in supersedes :
    OccursAfter(memory, r[2], r[1]) => memory[r[1]].events # {}

\* The same of every transition, the structured ones included.
TransitionsForward ==
  \A r \in supersedes : ~OccursAfter(memory, r[2], r[1])

\* What is forgotten stays forgotten: no later Add, a resume of the same
\* event included, brings a forgotten message back to ordinary recall.
ForgottenForGood ==
  [][memory' # memory =>
       \A u \in User :
         Forgotten(u, Len(memory)) \subseteq Forgotten(u, Len(memory))']_store
=============================================================================
