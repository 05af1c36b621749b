------------------------ MODULE StateRecallProofs ------------------------
(***************************************************************************)
(* Every safety property of StateGovernance and StateRecall, for all       *)
(* users, messages, queries and limits.  What is hidden from a reader and  *)
(* what a story reaches depend on the prefix of the memory he has seen     *)
(* only, and what is hidden grows with it: that is the first half.  The    *)
(* second carries, step by step of a search, what the filters have taken   *)
(* out and what the chain walk has brought in.                             *)
(*                                                                         *)
(* Paths of any length are met by induction on it, in the form of the      *)
(* least length at which a claim fails (LeastElement).                     *)
(***************************************************************************)
EXTENDS StateRecall, FiniteSetTheorems, WellFoundedInduction, TLAPS

\* A nonempty set of numbers has a least one: what induction is made of here.
LEMMA LeastElement ==
  ASSUME NEW S \in SUBSET Nat, S # {}
  PROVE  \E m \in S : \A k \in S : m <= k
<1> DEFINE Less == {p \in Nat \X Nat : p[1] < p[2]}
<1>1. IsWellFoundedOn(Less, Nat)
  BY NatLessThanWellFounded DEF OpToRel
<1>2. PICK m \in S : \A k \in S : ~(<<k, m>> \in Less)
  BY <1>1, WFMin, Zenon
<1>3. \A k \in S : ~(k < m)
  BY <1>2
<1> QED BY <1>3

\* A reader of a prefix sees what a later reader sees, up to his prefix.
LEMMA GrowingPrefix ==
  ASSUME NEW u, NEW n \in 0 .. Now, NEW k \in n .. Now
  PROVE  /\ Mine(u, n) = Mine(u, k) \cap (1 .. n)
         /\ StoreOK => Relations(u, n) = {r \in Relations(u, k) : r[1] <= n}
<1>1. n \in Int /\ k \in Int /\ n <= k
  BY DEF Now
<1>2. Mine(u, n) = Mine(u, k) \cap (1 .. n)
  BY <1>1 DEF Mine
<1>3. ASSUME StoreOK PROVE Relations(u, n) = {r \in Relations(u, k) : r[1] <= n}
  <2>1. \A r \in supersedes : r[1] \in 1 .. Len(memory)
    BY <1>3 DEF StoreOK
  <2> QED BY <1>1, <1>2, <2>1 DEF Relations, Mine
<1> QED BY <1>2, <1>3

\* What is forgotten for a reader of a prefix is forgotten for later ones.
LEMMA ForgottenGrows ==
  ASSUME StoreOK, ChainsWithinUser, NEW u, NEW n \in 0 .. Now, NEW k \in n .. Now
  PROVE  Forgotten(u, n) \subseteq Forgotten(u, k)
<1>1. n \in Int /\ k \in Int /\ n <= k
  BY DEF Now
<1>2. SUFFICES ASSUME NEW i \in Forgotten(u, n), NEW S \in SUBSET (1 .. k),
                      \A r \in Relations(u, k) : (HasStatus(r[1], "forget") \/ r[1] \in S) => r[2] \in S
               PROVE  i \in S
  BY <1>1 DEF Forgotten
<1> DEFINE T == S \cap (1 .. n)
<1>3. ASSUME NEW r \in Relations(u, n), HasStatus(r[1], "forget") \/ r[1] \in T
      PROVE  r[2] \in T
  <2>1. r \in Relations(u, k) /\ r[1] <= n
    BY GrowingPrefix
  <2>2. r[2] \in S
    BY <1>2, <1>3, <2>1
  <2>3. r[2] < r[1] /\ r[1] \in Int /\ r[2] \in Int
    BY <2>1 DEF Relations, ChainsWithinUser, StoreOK
  <2> QED BY <1>1, <2>1, <2>2, <2>3
<1>4. i \in T
  BY <1>3 DEF Forgotten
<1> QED BY <1>4

\* The same of all that the two filters of a search take out.
LEMMA HiddenGrows ==
  ASSUME StoreOK, ChainsWithinUser, NEW q, NEW n \in 0 .. Now, NEW k \in n .. Now
  PROVE  Hidden(q, n) \subseteq Hidden(q, k)
<1>1. Mine(q.user, n) \subseteq Mine(q.user, k)
  BY GrowingPrefix
<1>2. Forgotten(q.user, n) \subseteq Forgotten(q.user, k)
  BY ForgottenGrows
<1> QED BY <1>1, <1>2 DEF Hidden

\* To be used of the state after a step too.
OnlyGrows ==
  \A q, n, k : n \in 0 .. Now /\ k \in n .. Now =>
    /\ Forgotten(q.user, n) \subseteq Forgotten(q.user, k)
    /\ Hidden(q, n) \subseteq Hidden(q, k)

\* ForgottenGrows and HiddenGrows for every reader.
LEMMA EverythingGrows == StoreOK /\ ChainsWithinUser => OnlyGrows
BY ForgottenGrows, HiddenGrows DEF OnlyGrows

\* (By the rule that a fact of every state is one of the next state.)
LEMMA EverythingGrowsNext == StoreOK' /\ ChainsWithinUser' => OnlyGrows'
BY EverythingGrows, PTL

\* A relation that a user sees joins two messages of his.
LEMMA LinkedWithinUser ==
  ASSUME StoreOK, ChainsWithinUser, NEW u, NEW n \in 0 .. Now, NEW S
  PROVE  Linked(u, n, S) \subseteq Mine(u, n)
<1>1. ASSUME NEW r \in Relations(u, n) PROVE r[1] \in Mine(u, n) /\ r[2] \in Mine(u, n)
  <2>1. /\ r \in supersedes /\ r[1] \in 1 .. n /\ memory[r[1]].user = u
        /\ r[2] \in 1 .. Len(memory)
    BY DEF Relations, Mine, StoreOK
  <2>2. r[2] < r[1] /\ memory[r[2]].user = u
    BY <2>1 DEF ChainsWithinUser
  <2> QED BY <2>1, <2>2 DEF Mine, Now
<1> QED BY <1>1 DEF Linked

\* An Add extends the memory at its end.
LEMMA RememberAppends ==
  ASSUME StoreOK, NEW m \in Memory, Remember(m)
  PROVE  /\ memory' \in Seq(Memory)
         /\ Now \in Nat /\ Now' = Now + 1
         /\ \A i \in 1 .. Now : memory'[i] = memory[i]
<1>1. memory \in Seq(Memory) /\ memory' = Append(memory, m)
  BY DEF Remember, StoreOK
<1> QED BY <1>1 DEF Now

\* An Add changes nothing for the reader of an earlier prefix.
LEMMA RememberKeeps ==
  ASSUME StoreOK, NEW m \in Memory, Remember(m), NEW u, NEW n \in 0 .. Now
  PROVE  /\ Mine(u, n)' = Mine(u, n)
         /\ Relations(u, n)' = Relations(u, n)
         /\ Forgotten(u, n)' = Forgotten(u, n)
<1>1. Now \in Nat /\ n \in Nat /\ n <= Now
  BY DEF StoreOK, Now
<1>2. \A i \in 1 .. n : memory'[i] = memory[i]
  <2>1. 1 .. n \subseteq 1 .. Now
    BY <1>1
  <2> QED BY <2>1, RememberAppends
<1>3. Mine(u, n)' = Mine(u, n)
  BY <1>2 DEF Mine
<1>4. Relations(u, n)' = Relations(u, n)
  <2>1. \A r : r \in supersedes' /\ r[1] \in 1 .. n => r \in supersedes
    <3>1. \A r : r \in supersedes' => r \in supersedes \/ r[1] = Now + 1
      BY DEF Remember, Now
    <3> QED BY <1>1, <3>1
  <2>2. supersedes \subseteq supersedes'
    BY DEF Remember
  <2> QED BY <1>3, <2>1, <2>2 DEF Relations, Mine
<1>5. \A r \in Relations(u, n) : HasStatus(r[1], "forget")' <=> HasStatus(r[1], "forget")
  BY <1>2 DEF Relations, Mine, HasStatus
<1>6. Forgotten(u, n)' = Forgotten(u, n)
  BY <1>4, <1>5 DEF Forgotten
<1> QED BY <1>3, <1>4, <1>6

\* What a reader of an earlier prefix must not see stays as it is.
LEMMA HiddenKeeps ==
  ASSUME StoreOK, NEW m \in Memory, Remember(m), NEW q, NEW n \in 0 .. Now
  PROVE  Hidden(q, n)' = Hidden(q, n)
<1>1. Mine(q.user, n)' = Mine(q.user, n) /\ Forgotten(q.user, n)' = Forgotten(q.user, n)
  BY RememberKeeps
<1>2. \A i \in Mine(q.user, n) : memory'[i] = memory[i]
  <2>1. \A i \in 1 .. Now : memory'[i] = memory[i]
    BY RememberAppends
  <2>2. 1 .. n \subseteq 1 .. Now
    BY DEF StoreOK, Now
  <2> QED BY <2>1, <2>2 DEF Mine
<1> QED BY <1>1, <1>2 DEF Hidden, HasStatus

\* So do the relations he can follow.
LEMMA StoryKeeps ==
  ASSUME StoreOK, NEW m \in Memory, Remember(m), NEW u, NEW n \in 0 .. Now
  PROVE  /\ \A S, k : Story(u, n, S, k)' = Story(u, n, S, k)
         /\ \A S : Linked(u, n, S)' = Linked(u, n, S)
<1>1. Relations(u, n)' = Relations(u, n)
  BY RememberKeeps
<1> QED BY <1>1 DEF Story, Linked

\* A path of k + 1 relations is one of k relations, and one more.
LEMMA StoryStep ==
  ASSUME NEW u, NEW n, NEW S, NEW k \in Nat, NEW i \in Story(u, n, S, k + 1)
  PROVE  i \in Story(u, n, S, k) \/ \E j \in Story(u, n, S, k) : i \in Linked(u, n, {j})
<1>1. PICK path \in [0 .. k + 1 -> 1 .. n] :
        /\ path[0] \in S /\ path[k + 1] = i
        /\ \A d \in 1 .. k + 1 :
             \/ path[d] = path[d - 1]
             \/ {<<path[d], path[d - 1]>>, <<path[d - 1], path[d]>>} \cap Relations(u, n) # {}
  BY DEF Story
<1> DEFINE short == [d \in 0 .. k |-> path[d]]
           j     == path[k]
<1>2. short \in [0 .. k -> 1 .. n] /\ short[0] = path[0] /\ short[k] = j
  OBVIOUS
<1>3. \A d \in 1 .. k : d \in 1 .. k + 1 /\ short[d] = path[d] /\ short[d - 1] = path[d - 1]
  OBVIOUS
<1>4. j \in Story(u, n, S, k)
  <2>1. PICK p : p = short
    OBVIOUS
  <2>2. p \in [0 .. k -> 1 .. n] /\ p[0] \in S /\ p[k] = j
    BY <1>1, <1>2, <2>1
  <2>3. \A d \in 1 .. k :
          \/ p[d] = p[d - 1]
          \/ {<<p[d], p[d - 1]>>, <<p[d - 1], p[d]>>} \cap Relations(u, n) # {}
    BY <1>1, <1>3, <2>1
  <2>4. j \in 1 .. n
    BY <2>2
  <2> QED BY <2>2, <2>3, <2>4 DEF Story
<1>5. \/ i = j
      \/ {<<i, j>>, <<j, i>>} \cap Relations(u, n) # {}
  <2>1. k + 1 \in 1 .. k + 1 /\ k + 1 - 1 = k
    OBVIOUS
  <2> QED BY <1>1, <2>1
<1>6. CASE {<<i, j>>, <<j, i>>} \cap Relations(u, n) # {}
  <2>1. i \in Linked(u, n, {j})
    BY <1>6 DEF Linked
  <2> QED BY <1>4, <2>1
<1> QED BY <1>4, <1>5, <1>6

\* No path leaves a set that is closed under the relations.
LEMMA StoryClosed ==
  ASSUME NEW u, NEW n, NEW C, \A x \in C : Linked(u, n, {x}) \subseteq C,
         NEW S \in SUBSET C, NEW k \in Nat
  PROVE  Story(u, n, S, k) \subseteq C
<1> DEFINE Bad == {j \in Nat : ~(Story(u, n, S, j) \subseteq C)}
<1>1. Bad = {}
  <2> SUFFICES ASSUME Bad # {} PROVE FALSE
    OBVIOUS
  <2>1. PICK j \in Bad : \A i \in Bad : j <= i
    BY LeastElement
  <2>2. j # 0
    <3>1. Story(u, n, S, 0) \subseteq S
      BY DEF Story
    <3> QED BY <2>1, <3>1
  <2>3. j - 1 \in Nat /\ Story(u, n, S, j - 1) \subseteq C
    BY <2>1, <2>2
  <2>4. Story(u, n, S, j - 1 + 1) \subseteq C
    BY <2>3, StoryStep
  <2>5. j - 1 + 1 = j
    BY <2>1
  <2> QED BY <2>1, <2>4, <2>5
<1> QED BY <1>1

\* Halfway through list_state_chain: what d relations of the prefix n lead to
\* from S has been seen, and the neighbors of all but T have, too.
Explored(u, n, S, d, T, seen) ==
  /\ S \subseteq seen
  /\ Story(u, n, S, d) \subseteq seen
  /\ \A x \in seen \ T : Linked(u, n, {x}) \subseteq seen

\* One read of list_state_chain, for the messages T of those seen, carries the
\* search one relation further: every path of d relations in the prefix n ends
\* in what it has seen then, and only the new messages are left to be looked
\* at.  If there are none, no path of any length leads further.
LEMMA ReadReaches ==
  ASSUME StoreOK, NEW u, NEW n \in 0 .. Now, NEW k \in n .. Now,
         NEW S, NEW T, NEW seen, NEW d \in Nat \ {0}, Explored(u, n, S, d - 1, T, seen),
         NEW new, Linked(u, k, T) \subseteq seen \cup new
  PROVE  /\ Explored(u, n, S, d, new, seen \cup new)
         /\ new = {} => Story(u, n, S, ChainDepth) \subseteq seen
<1> USE DEF Explored
<1>1. Relations(u, n) \subseteq Relations(u, k)
  BY GrowingPrefix
<1>2. \A x \in T : Linked(u, n, {x}) \subseteq Linked(u, k, T)
  BY <1>1 DEF Linked
<1>3. \A x \in seen : Linked(u, n, {x}) \subseteq seen \cup new
  BY <1>2
<1>4. Story(u, n, S, d) \subseteq seen \cup new
  <2>1. d - 1 \in Nat /\ d - 1 + 1 = d
    OBVIOUS
  <2>2. \A i \in Story(u, n, S, d) :
          i \in Story(u, n, S, d - 1) \/ \E j \in Story(u, n, S, d - 1) : i \in Linked(u, n, {j})
    BY <2>1, StoryStep
  <2> QED BY <1>3, <2>2
<1>5. new = {} => Story(u, n, S, ChainDepth) \subseteq seen
  <2> SUFFICES ASSUME new = {} PROVE Story(u, n, S, ChainDepth) \subseteq seen
    OBVIOUS
  <2>1. \A x \in seen : Linked(u, n, {x}) \subseteq seen
    BY <1>3
  <2> QED BY <2>1, StoryClosed, LimitsAssumption
<1> QED BY <1>3, <1>4, <1>5

\* The relations an Add writes: from the new message to an earlier one of
\* its user, and against source time only for a structured event.
LEMMA NewRelations ==
  ASSUME StoreOK, NEW m \in Memory, Remember(m), NEW r \in supersedes', r \notin supersedes
  PROVE  /\ r[1] = Now + 1 /\ r[2] \in 1 .. Now
         /\ r \in (DOMAIN memory') \X (DOMAIN memory')
         /\ memory'[r[1]].user = memory'[r[2]].user
         /\ OccursAfter(memory', r[2], r[1]) => memory'[r[1]].events # {}
<1> DEFINE log == Append(memory, m)
           n   == Now + 1
<1>1. /\ memory \in Seq(Memory) /\ memory' = log
      /\ Now \in Nat /\ DOMAIN memory' = 1 .. n
  BY DEF Remember, StoreOK, Now
<1>2. PICK o \in ExplicitTarget(log, n) \cup StructuredTarget(log, n) : r = <<n, o>>
  BY DEF Remember, Now
<1>3. o \in Earlier(log, n)
  BY <1>2 DEF ExplicitTarget, ExplicitCandidates, StructuredTarget, StructuredCandidates
<1>4. o \in 1 .. Now /\ log[o].user = log[n].user
  BY <1>1, <1>3 DEF Earlier
<1>5. OccursAfter(log, o, n) => log[n].events # {}
  BY <1>2 DEF ExplicitTarget, ExplicitCandidates, StructuredTarget, StructuredCandidates
<1> QED BY <1>1, <1>2, <1>4, <1>5

\* An Add keeps the store in order.
LEMMA RememberStore ==
  ASSUME StoreOK, ChainsWithinUser, ExplicitUpdatesForward, NEW m \in Memory, Remember(m)
  PROVE  StoreOK' /\ ChainsWithinUser' /\ ExplicitUpdatesForward'
<1>1. /\ memory' \in Seq(Memory) /\ Now' = Now + 1 /\ Now \in Nat
      /\ \A i \in 1 .. Now : memory'[i] = memory[i]
  BY RememberAppends
<1>2. DOMAIN memory = 1 .. Now /\ DOMAIN memory' = 1 .. Now + 1
  BY <1>1 DEF StoreOK, Now
<1>3. StoreOK'
  <2>1. Len(memory') <= MaxMessages
    BY <1>1, MaxMessagesAssumption DEF Remember, StoreOK, Now
  <2>2. \A r \in supersedes' : r \in (DOMAIN memory') \X (DOMAIN memory')
    BY <1>1, <1>2, NewRelations DEF StoreOK
  <2> QED BY <1>1, <2>1, <2>2 DEF StoreOK
<1>4. \A r \in supersedes : /\ r[1] \in 1 .. Now /\ memory'[r[1]] = memory[r[1]]
                            /\ r[2] \in 1 .. Now /\ memory'[r[2]] = memory[r[2]]
  BY <1>1, <1>2 DEF StoreOK
<1>5. ChainsWithinUser'
  <2> SUFFICES ASSUME NEW r \in supersedes'
               PROVE  r[2] < r[1] /\ memory'[r[1]].user = memory'[r[2]].user
    BY DEF ChainsWithinUser
  <2>1. CASE r \in supersedes
    BY <1>4, <2>1 DEF ChainsWithinUser
  <2>2. CASE r \notin supersedes
    BY <1>1, <2>2, NewRelations
  <2> QED BY <2>1, <2>2
<1>6. ExplicitUpdatesForward'
  <2> SUFFICES ASSUME NEW r \in supersedes', OccursAfter(memory', r[2], r[1])
               PROVE  memory'[r[1]].events # {}
    BY DEF ExplicitUpdatesForward
  <2>1. CASE r \in supersedes
    BY <1>4, <2>1 DEF ExplicitUpdatesForward, OccursAfter
  <2>2. CASE r \notin supersedes
    BY <2>2, NewRelations
  <2> QED BY <2>1, <2>2
<1> QED BY <1>3, <1>5, <1>6

----------------------------------------------------------------------------
(* The inductive invariant *)

\* Which step can hold what.
Phase ==
  /\ step = "idle" => round = 1 /\ found = {} /\ local = {} /\ began = 0 /\ ~cut
  /\ pipeline # "expanded" => round = 1
  /\ step = "fuse" => pipeline = "expanded" /\ round = 2
  /\ step = "aside" => round = 1
  /\ IF step = "chain" THEN depth \in 1 .. ChainDepth - 1 ELSE frontier = {} /\ depth = 0
  /\ step = "refilter" /\ round = 1 => Cardinality(found) <= TopK

\* The filters have been applied to what they were applied to.
HiddenKept ==
  /\ local \cap Hidden(query, began) = {}
  /\ step \in {"aside", "fuse", "answered"} => found \cap Hidden(query, began) = {}
  /\ step \in {"aside", "answered"} /\ pipeline # "expanded" =>
       \A i \in found : found \cap Hidden(query, i) = {}
  /\ step = "aside" => found \cap Hidden(query, aside) = {}

\* What the answer owes the user, and where it is.
Owed == Story(query.user, began, matched, ChainDepth) \ Hidden(query, Now)

OwedKept ==
  WantsState(query) /\ ~cut =>
    /\ /\ step \in {"routes", "neighbors", "refilter", "aside", "answered"}
       /\ round = 1 \/ step = "answered"
       => Owed \subseteq found
    /\ round = 2 => Owed \subseteq local

\* The chain walk has got as far as depth.
ChainKept ==
  step = "chain" /\ round = 1 =>
    Explored(query.user, began, matched, depth, frontier, found)

IInv ==
  /\ TypeOK
  /\ ChainsWithinUser
  /\ ExplicitUpdatesForward
  /\ OwnMessagesOnly
  /\ Phase
  /\ HiddenKept
  /\ ChainKept
  /\ OwedKept

\* It holds when nothing is stored and nobody searches.
LEMMA InitIInv == Init => IInv
<1> SUFFICES ASSUME Init PROVE IInv
  OBVIOUS
<1>1. TypeOK
  <2>1. StoreOK /\ Now = 0 /\ DOMAIN memory = {}
    BY MaxMessagesAssumption DEF Init, StoreInit, StoreOK, Now
  <2>2. /\ step = "idle" /\ query = None /\ pipeline = "lexical" /\ round = 1
        /\ found = {} /\ frontier = {} /\ depth = 0 /\ local = {} /\ aside = 0
        /\ began = 0 /\ matched = {} /\ cut = FALSE
    BY DEF Init, SearchInit
  <2>3. 0 \in 0 .. Now /\ 0 \in 0 .. ChainDepth /\ round \in 1 .. 2
    BY <2>1, <2>2, LimitsAssumption
  <2> QED BY <2>1, <2>2, <2>3 DEF TypeOK, Steps, Pipeline
<1>2. ChainsWithinUser /\ ExplicitUpdatesForward
  BY DEF Init, StoreInit, ChainsWithinUser, ExplicitUpdatesForward
<1> QED BY <1>1, <1>2 DEF Init, SearchInit, IInv, OwnMessagesOnly, Phase, HiddenKept, ChainKept, OwedKept

\* A committed message leaves the search where it is, and lets what is hidden
\* from a later reader only grow.
LEMMA AddIInv ==
  ASSUME IInv, NEW m \in Memory, Add(m)
  PROVE  IInv'
<1> USE DEF IInv
<1>1. StoreOK /\ Remember(m) /\ UNCHANGED search
  BY DEF TypeOK, Add
<1>2. StoreOK' /\ ChainsWithinUser' /\ ExplicitUpdatesForward'
  BY <1>1, RememberStore
<1>3. Now \in Nat /\ Now' = Now + 1
  BY <1>1, RememberAppends
<1>4. DOMAIN memory = 1 .. Now /\ DOMAIN memory' = 1 .. Now'
  BY <1>1, <1>2 DEF StoreOK, Now
<1>5. TypeOK'
  <2>1. 1 .. Now \subseteq 1 .. Now' /\ 0 .. Now \subseteq 0 .. Now'
    BY <1>3
  <2> QED BY <1>1, <1>2, <1>4, <2>1 DEF TypeOK, search
<1> DEFINE u == query.user
<1>6. \A v : Mine(v, Now) \subseteq (Mine(v, Now))'
  <2> SUFFICES ASSUME NEW v, NEW i \in 1 .. Now, memory[i].user = v
               PROVE  i \in 1 .. Now' /\ memory'[i].user = v
    BY DEF Mine
  <2> QED BY <1>1, <1>3, RememberAppends
<1>7. OwnMessagesOnly'
  BY <1>1, <1>6 DEF OwnMessagesOnly, Own, search
<1>8. Phase'
  BY <1>1 DEF Phase, search
<1>9. \A q, n : n \in 0 .. Now => Hidden(q, n)' = Hidden(q, n)
  BY <1>1, HiddenKeeps
<1>10. HiddenKept'
  <2>1. began \in 0 .. Now /\ aside \in 0 .. Now /\ found \subseteq 0 .. Now
    BY <1>3, <1>4 DEF TypeOK
  <2>2. Hidden(query, began)' = Hidden(query, began) /\ Hidden(query, aside)' = Hidden(query, aside)
    BY <1>1, <1>9, <2>1 DEF search
  <2>3. \A i \in found : Hidden(query, i)' = Hidden(query, i)
    BY <1>1, <1>9, <2>1 DEF search
  <2> QED BY <1>1, <2>2, <2>3 DEF HiddenKept, search
<1>11. OwedKept'
  <2>1. Owed' \subseteq Owed
    <3>1. Story(query.user, began, matched, ChainDepth)' = Story(query.user, began, matched, ChainDepth)
      BY <1>1, StoryKeeps DEF search, TypeOK
    <3>2. Hidden(query, Now) \subseteq (Hidden(query, Now))'
      <4>1. OnlyGrows'
        BY <1>2, EverythingGrowsNext
      <4>2. PICK n : n = Now
        OBVIOUS
      <4>3. n \in 0 .. Now /\ n \in 0 .. Now' /\ Now' \in n .. Now'
        BY <1>3, <4>2
      <4>4. Hidden(query, n)' = Hidden(query, n)
        BY <1>1, <1>9, <4>3 DEF search
      <4>5. Hidden(query, n)' \subseteq (Hidden(query, Now))'
        BY <4>1, <4>3 DEF OnlyGrows
      <4> QED BY <4>2, <4>4, <4>5
    <3> QED BY <3>1, <3>2 DEF Owed
  <2> QED BY <1>1, <2>1 DEF OwedKept, WantsState, search
<1>12. ChainKept'
  <2>1. Story(query.user, began, matched, depth)' = Story(query.user, began, matched, depth)
    BY <1>1, StoryKeeps DEF search, TypeOK
  <2>2. \A i \in found : Linked(query.user, began, {i})' = Linked(query.user, began, {i})
    BY <1>1, StoryKeeps DEF search, TypeOK
  <2> QED BY <1>1, <2>1, <2>2 DEF ChainKept, Explored, search
<1> QED BY <1>2, <1>5, <1>7, <1>8, <1>10, <1>11, <1>12

\* A step of a search leaves the store alone.
LEMMA StoreUntouched ==
  ASSUME IInv, UNCHANGED store
  PROVE  /\ StoreOK' /\ ChainsWithinUser' /\ ExplicitUpdatesForward'
         /\ Now \in Nat /\ Now' = Now /\ DOMAIN memory = 1 .. Now
         /\ \A q, n : Hidden(q, n)' = Hidden(q, n)
         /\ \A u, n : Mine(u, n)' = Mine(u, n)
         /\ \A u, n, S, k : Story(u, n, S, k)' = Story(u, n, S, k)
         /\ \A u, n, S : Linked(u, n, S)' = Linked(u, n, S)
<1> USE DEF IInv
<1>1. StoreOK' /\ ChainsWithinUser' /\ ExplicitUpdatesForward'
  BY DEF store, TypeOK, StoreOK, ChainsWithinUser, ExplicitUpdatesForward, OccursAfter
<1>2. Now \in Nat /\ Now' = Now /\ DOMAIN memory = 1 .. Now
  BY DEF store, TypeOK, StoreOK, Now
<1>3. \A u, n : Mine(u, n)' = Mine(u, n)
  BY DEF store, Mine
<1>4. \A u, n : Relations(u, n)' = Relations(u, n)
  BY <1>3 DEF store, Relations
<1>5. /\ \A u, n, S, k : Story(u, n, S, k)' = Story(u, n, S, k)
      /\ \A u, n, S : Linked(u, n, S)' = Linked(u, n, S)
  BY <1>4 DEF Story, Linked
<1>6. \A i, s : HasStatus(i, s)' = HasStatus(i, s)
  BY DEF store, HasStatus
<1>7. \A u, n : Forgotten(u, n)' = Forgotten(u, n)
  BY <1>4, <1>6 DEF Forgotten
<1>8. \A q, n : Hidden(q, n)' = Hidden(q, n)
  BY <1>3, <1>6, <1>7 DEF Hidden, store
<1> QED BY <1>1, <1>2, <1>3, <1>5, <1>8

\* What the reads of a search return are messages.
LEMMA ReadsAreMessages ==
  ASSUME TypeOK
  PROVE  \A u, n : n \in 0 .. Now => Mine(u, n) \subseteq DOMAIN memory
BY DEF TypeOK, StoreOK, Mine, Now

\* A search begins with nothing found.
LEMMA StartSearchIInv ==
  ASSUME IInv, NEW q \in Query, NEW p \in Pipeline, StartSearch(q, p)
  PROVE  IInv'
<1> USE DEF IInv
<1>1. /\ step = "idle" /\ step' = "match" /\ query' = q /\ pipeline' = p /\ began' = Now
      /\ UNCHANGED <<memory, supersedes, round, found, frontier, depth, local, aside,
                  matched, cut>>
  BY DEF StartSearch, store
<1>2. /\ StoreOK' /\ ChainsWithinUser' /\ ExplicitUpdatesForward'
      /\ Now \in Nat /\ Now' = Now /\ DOMAIN memory = 1 .. Now
  BY <1>1, StoreUntouched DEF store
<1>3. round = 1 /\ found = {} /\ local = {}
  BY <1>1 DEF Phase
<1>4. TypeOK'
  <2>1. Now \in 0 .. Now
    BY <1>2
  <2> QED BY <1>1, <1>2, <2>1 DEF TypeOK, Steps
<1> QED BY <1>1, <1>2, <1>3, <1>4 DEF OwnMessagesOnly, Phase, HiddenKept, ChainKept, OwedKept

\* A read of relations: after it either the chain goes on, or the story is
\* told up to ChainDepth.
LEMMA ReadRelationsIInv ==
  ASSUME IInv, NEW seen \in SUBSET Own, NEW T \in SUBSET seen,
         NEW d \in 1 .. ChainDepth, ReadRelations(T, seen, d),
         step \in {"match", "chain"},
         aside' \in 0 .. Now, matched' \subseteq DOMAIN memory,
         round = 1 => Explored(query.user, began, matched', d - 1, T, seen),
         round # 1 => matched' = matched,
         UNCHANGED <<memory, supersedes, query, pipeline, round, local, began, cut>>
  PROVE  IInv'
<1> USE DEF IInv
<1> DEFINE new  == Linked(query.user, Now, T) \ seen
           done == new = {} \/ d = ChainDepth
<1>1. /\ found' = seen \cup new
      /\ step' = IF done THEN "routes" ELSE "chain"
      /\ frontier' = IF done THEN {} ELSE new
      /\ depth' = IF done THEN 0 ELSE d
  BY DEF ReadRelations
<1>2. /\ StoreOK' /\ ChainsWithinUser' /\ ExplicitUpdatesForward'
      /\ Now \in Nat /\ Now' = Now /\ DOMAIN memory = 1 .. Now
      /\ \A q, n : Hidden(q, n)' = Hidden(q, n)
      /\ \A u, n : Mine(u, n)' = Mine(u, n)
      /\ \A u, n, S, k : Story(u, n, S, k)' = Story(u, n, S, k)
      /\ \A u, n, S : Linked(u, n, S)' = Linked(u, n, S)
  BY StoreUntouched DEF store
<1>3. StoreOK /\ Now \in 0 .. Now /\ Own \subseteq DOMAIN memory
  BY <1>2, ReadsAreMessages DEF TypeOK, Own
<1>4. found' \subseteq Own
  BY <1>1, <1>3, LinkedWithinUser DEF Own
<1>5. ChainDepth \in Nat /\ d \in Nat \ {0}
  BY LimitsAssumption
<1> HIDE DEF new, done
<1>6. done \in BOOLEAN /\ (~done => step' = "chain" /\ frontier' = new /\ depth' = d)
      /\ (done => step' = "routes" /\ frontier' = {} /\ depth' = 0)
  BY <1>1 DEF done
<1>7. TypeOK'
  <2>1. depth' \in 0 .. ChainDepth /\ frontier' \subseteq found'
    BY <1>1, <1>5, <1>6
  <2>2. step' \in Steps /\ step' # "answered"
    BY <1>6 DEF Steps
  <2>3. query \in Query
    BY DEF TypeOK
  <2>4. found' \subseteq DOMAIN memory
    BY <1>3, <1>4
  <2> QED BY <1>2, <2>1, <2>2, <2>3, <2>4 DEF TypeOK
<1>8. OwnMessagesOnly'
  <2>1. Own' = Own
    BY <1>2 DEF Own
  <2> QED BY <1>4, <2>1 DEF OwnMessagesOnly
<1>9. Phase'
  BY <1>5, <1>6 DEF Phase, done
<1>10. HiddenKept'
  BY <1>2, <1>6 DEF HiddenKept
<1>11. ASSUME round = 1
       PROVE  /\ Explored(query.user, began, matched', d, new, found')
              /\ done => Story(query.user, began, matched', ChainDepth) \subseteq found'
  <2>1. PICK u, n, k, S, w : u = query.user /\ n = began /\ k = Now /\ S = matched' /\ w = new
    OBVIOUS
  <2>2. n \in 0 .. Now /\ k \in n .. Now
    BY <1>2, <2>1 DEF TypeOK
  <2>3. Explored(u, n, S, d - 1, T, seen) /\ Linked(u, k, T) \subseteq seen \cup w
    BY <1>11, <2>1 DEF new
  <2>4. /\ Explored(u, n, S, d, w, seen \cup w)
        /\ w = {} => Story(u, n, S, ChainDepth) \subseteq seen
    BY <1>3, <1>5, <2>2, <2>3, ReadReaches
  <2>5. w = {} \/ d = ChainDepth => Story(u, n, S, ChainDepth) \subseteq seen \cup w
    BY <2>4 DEF Explored
  <2> QED BY <1>1, <2>1, <2>4, <2>5 DEF done
<1>12. ChainKept'
  BY <1>2, <1>6, <1>11 DEF ChainKept, Explored
<1>13. OwedKept'
  <2>1. ASSUME done, round = 1 PROVE Owed' \subseteq found'
    BY <1>2, <1>11, <2>1 DEF Owed
  <2>2. ASSUME WantsState(query), ~cut, round = 2 PROVE Owed' \subseteq local'
    <3>1. Owed' = Owed
      BY <1>2, <2>2 DEF Owed
    <3> QED BY <2>2, <3>1 DEF OwedKept
  <2>3. /\ WantsState(query)' = WantsState(query) /\ cut' = cut
        /\ step' # "answered" /\ round' = round /\ (~done => step' = "chain")
    BY <1>6 DEF WantsState
  <2> QED BY <2>1, <2>2, <2>3 DEF OwedKept
<1> QED BY <1>2, <1>7, <1>8, <1>9, <1>10, <1>12, <1>13

\* Direct hits: the user's own, and the start of every story.
LEMMA MatchIInv ==
  ASSUME IInv, Match
  PROVE  IInv'
<1> USE DEF IInv
<1>1. PICK hits \in SUBSET Own :
        IF WantsState(query)
        THEN /\ ReadRelations(hits, hits, 1)
             /\ matched' = IF round = 1 THEN hits ELSE matched
        ELSE /\ found' = hits /\ step' = "routes"
             /\ UNCHANGED <<frontier, depth, matched>>
  BY DEF Match
<1>2. /\ step = "match"
      /\ aside' = IF pipeline = "hybrid" THEN Now ELSE 0
      /\ UNCHANGED <<memory, supersedes, query, pipeline, round, local, began, cut>>
  BY DEF Match, store
<1>3. /\ StoreOK' /\ ChainsWithinUser' /\ ExplicitUpdatesForward'
      /\ Now \in Nat /\ Now' = Now /\ DOMAIN memory = 1 .. Now
      /\ \A q, n : Hidden(q, n)' = Hidden(q, n)
      /\ \A u, n : Mine(u, n)' = Mine(u, n)
      /\ \A u, n, S, k : Story(u, n, S, k)' = Story(u, n, S, k)
  BY <1>2, StoreUntouched DEF store
<1>4. StoreOK /\ Now \in 0 .. Now /\ Own \subseteq DOMAIN memory /\ aside' \in 0 .. Now
  BY <1>2, <1>3, ReadsAreMessages DEF TypeOK, Own
<1>5. CASE WantsState(query)
  <2>1. matched' \subseteq DOMAIN memory /\ (round # 1 => matched' = matched)
    BY <1>1, <1>4, <1>5 DEF TypeOK
  <2>2. ASSUME round = 1
        PROVE  Explored(query.user, began, matched', 1 - 1, hits, hits)
    BY <1>1, <1>5, <2>2 DEF Explored, Story
  <2>3. 1 \in 1 .. ChainDepth
    BY LimitsAssumption
  <2> QED BY <1>1, <1>2, <1>4, <1>5, <2>1, <2>2, <2>3, ReadRelationsIInv
<1>6. CASE ~WantsState(query)
  <2>1. /\ found' \subseteq Own /\ step' = "routes"
        /\ UNCHANGED <<frontier, depth, matched>>
    BY <1>1, <1>6
  <2>2. frontier = {} /\ depth = 0
    BY <1>2 DEF Phase
  <2>3. TypeOK'
    BY <1>2, <1>3, <1>4, <2>1, <2>2 DEF TypeOK, Steps
  <2>4. OwnMessagesOnly'
    <3>1. Own' = Own
      BY <1>2, <1>3 DEF Own
    <3> QED BY <1>2, <2>1, <3>1 DEF OwnMessagesOnly
  <2>5. Phase' /\ ChainKept'
    BY <1>2, <2>1, <2>2 DEF Phase, ChainKept
  <2>6. HiddenKept'
    BY <1>2, <1>3, <2>1 DEF HiddenKept
  <2>7. OwedKept'
    <3>1. ~WantsState(query)'
      BY <1>2, <1>6 DEF WantsState
    <3> QED BY <3>1 DEF OwedKept
  <2> QED BY <1>3, <2>3, <2>4, <2>5, <2>6, <2>7
<1> QED BY <1>5, <1>6

\* The chain, one relation further.
LEMMA FollowChainIInv ==
  ASSUME IInv, FollowChain
  PROVE  IInv'
<1> USE DEF IInv
<1>1. PICK seen, T, d : seen = found /\ T = frontier /\ d = depth + 1
  OBVIOUS
<1>2. /\ step = "chain" /\ ReadRelations(T, seen, d)
      /\ UNCHANGED <<memory, supersedes, query, pipeline, round, local, aside, began, matched, cut>>
  BY <1>1 DEF FollowChain, store
<1>3. seen \in SUBSET Own /\ T \in SUBSET seen
  BY <1>1, <1>2 DEF TypeOK, OwnMessagesOnly
<1>4. d \in 1 .. ChainDepth /\ d - 1 = depth
  BY <1>1, <1>2, LimitsAssumption DEF TypeOK, Phase
<1>5. aside' \in 0 .. Now /\ matched' \subseteq DOMAIN memory /\ (round # 1 => matched' = matched)
  BY <1>2, StoreUntouched DEF TypeOK, store
<1>6. ASSUME round = 1
      PROVE  Explored(query.user, began, matched', d - 1, T, seen)
  BY <1>1, <1>2, <1>4, <1>6 DEF ChainKept
<1>7. UNCHANGED <<memory, supersedes, query, pipeline, round, local, began, cut>>
  BY <1>2
<1> HIDE DEF IInv
<1> QED BY <1>2, <1>3, <1>4, <1>5, <1>6, <1>7, ReadRelationsIInv

\* The routes add messages of the user, and the filter hides no more.
LEMMA ExpandRoutesIInv ==
  ASSUME IInv, ExpandRoutes
  PROVE  IInv'
<1> USE DEF IInv
<1>1. PICK S \in SUBSET Own : found' = Shown(found \cup S)
  BY DEF ExpandRoutes
<1>2. /\ step = "routes" /\ step' = "neighbors"
      /\ UNCHANGED <<memory, supersedes, query, pipeline, round, frontier, depth,
                  local, aside, began, matched, cut>>
  BY DEF ExpandRoutes, store
<1>3. /\ StoreOK' /\ ChainsWithinUser' /\ ExplicitUpdatesForward'
      /\ Now \in Nat /\ Now' = Now /\ DOMAIN memory = 1 .. Now
      /\ \A q, n : Hidden(q, n)' = Hidden(q, n)
      /\ \A u, n : Mine(u, n)' = Mine(u, n)
      /\ \A u, n, T, j : Story(u, n, T, j)' = Story(u, n, T, j)
  BY <1>2, StoreUntouched DEF store
<1>4. found' \subseteq Own /\ Own \subseteq DOMAIN memory
  BY <1>1, <1>2, <1>3, ReadsAreMessages DEF Own, Shown, OwnMessagesOnly
<1>5. TypeOK'
  BY <1>2, <1>3, <1>4 DEF TypeOK, Steps, Phase
<1>6. OwnMessagesOnly'
  <2>1. Own' = Own
    BY <1>2, <1>3 DEF Own
  <2> QED BY <1>2, <1>4, <2>1 DEF OwnMessagesOnly
<1>7. Phase' /\ ChainKept'
  BY <1>2 DEF Phase, ChainKept
<1>8. HiddenKept'
  BY <1>2, <1>3 DEF HiddenKept
<1>9. OwedKept'
  <2>1. Owed' = Owed
    BY <1>2, <1>3 DEF Owed
  <2>2. ASSUME WantsState(query), ~cut, round = 1 PROVE Owed' \subseteq found'
    BY <1>1, <1>2, <2>1, <2>2 DEF OwedKept, Owed, Shown
  <2>3. /\ WantsState(query)' = WantsState(query) /\ cut' = cut
        /\ step' # "answered" /\ round' = round
    BY <1>2 DEF WantsState
  <2> QED BY <1>2, <2>1, <2>2, <2>3 DEF OwedKept
<1> QED BY <1>3, <1>5, <1>6, <1>7, <1>8, <1>9

\* The first k of S are some of S, and all of it unless results are cut off.
LEMMA TopBounded ==
  ASSUME NEW S, NEW k \in Nat, NEW T \in Top(S, k)
  PROVE  T \subseteq S /\ Cardinality(T) <= k
BY DEF Top

\* Neighbors are of the user; the cut is recorded.
LEMMA ExpandNeighborsIInv ==
  ASSUME IInv, ExpandNeighbors
  PROVE  IInv'
<1> USE DEF IInv
<1> DEFINE k == IF round = 1 THEN TopK ELSE WideK
<1>1. PICK mates \in SUBSET UNION {Around(h) : h \in found} :
        /\ found' \in Top(found \cup mates, k)
        /\ Cut(found \cup mates, found')
  BY DEF ExpandNeighbors
<1>2. /\ step = "neighbors" /\ step' = "refilter"
      /\ UNCHANGED <<memory, supersedes, query, pipeline, round, frontier, depth,
                  local, aside, began, matched>>
  BY DEF ExpandNeighbors, store
<1>3. /\ StoreOK' /\ ChainsWithinUser' /\ ExplicitUpdatesForward'
      /\ Now \in Nat /\ Now' = Now /\ DOMAIN memory = 1 .. Now
      /\ \A q, n : Hidden(q, n)' = Hidden(q, n)
      /\ \A u, n : Mine(u, n)' = Mine(u, n)
      /\ \A u, n, T, j : Story(u, n, T, j)' = Story(u, n, T, j)
  BY <1>2, StoreUntouched DEF store
<1>4. k \in Nat /\ (round = 1 => k = TopK)
  BY LimitsAssumption
<1>5. found' \subseteq found \cup mates /\ Cardinality(found') <= k
  BY <1>1, <1>4, TopBounded
<1>6. mates \subseteq Own
  BY <1>1 DEF Around, SessionMates
<1>7. found' \subseteq Own /\ Own \subseteq DOMAIN memory
  BY <1>2, <1>3, <1>5, <1>6, ReadsAreMessages DEF Own, OwnMessagesOnly
<1>8. cut' \in BOOLEAN /\ (~cut' => ~cut /\ found' = found \cup mates)
  BY <1>1 DEF Cut, TypeOK
<1>9. TypeOK'
  BY <1>2, <1>3, <1>7, <1>8 DEF TypeOK, Steps, Phase
<1>10. OwnMessagesOnly'
  <2>1. Own' = Own
    BY <1>2, <1>3 DEF Own
  <2> QED BY <1>2, <1>7, <2>1 DEF OwnMessagesOnly
<1>11. Phase' /\ ChainKept'
  BY <1>2, <1>4, <1>5 DEF Phase, ChainKept
<1>12. HiddenKept'
  BY <1>2, <1>3 DEF HiddenKept
<1>13. OwedKept'
  <2>1. Owed' = Owed
    BY <1>2, <1>3 DEF Owed
  <2>2. /\ WantsState(query)' = WantsState(query)
        /\ step' # "answered" /\ round' = round
    BY <1>2 DEF WantsState
  <2> QED BY <1>2, <1>8, <2>1, <2>2 DEF OwedKept
<1> QED BY <1>3, <1>9, <1>10, <1>11, <1>12, <1>13

\* The second filter hides all that is to be hidden by now.
LEMMA RefilterIInv ==
  ASSUME IInv, Refilter
  PROVE  IInv'
<1> USE DEF IInv
<1>1. /\ step = "refilter" /\ step' = NextStep /\ found' = Shown(found)
      /\ round' = IF NextStep = "match" THEN 2 ELSE round
      /\ local' = IF NextStep = "match" THEN found' ELSE local
      /\ UNCHANGED <<memory, supersedes, query, pipeline, frontier, depth, aside, began,
                  matched, cut>>
  BY DEF Refilter, store
<1>2. /\ pipeline = "lexical" => step' = "answered" /\ round = 1 /\ UNCHANGED <<round, local>>
      /\ pipeline = "hybrid" => step' = "aside" /\ round = 1 /\ UNCHANGED <<round, local>>
      /\ pipeline = "expanded" /\ round = 1 => step' = "match" /\ round' = 2 /\ local' = found'
      /\ pipeline = "expanded" /\ round # 1 => step' = "fuse" /\ UNCHANGED <<round, local>>
      /\ pipeline \in {"lexical", "hybrid", "expanded"} /\ round \in 1 .. 2
  BY <1>1 DEF NextStep, Phase, TypeOK, Pipeline
<1>3. /\ StoreOK' /\ ChainsWithinUser' /\ ExplicitUpdatesForward'
      /\ Now \in Nat /\ Now' = Now /\ DOMAIN memory = 1 .. Now
      /\ \A q, n : Hidden(q, n)' = Hidden(q, n)
      /\ \A u, n : Mine(u, n)' = Mine(u, n)
      /\ \A u, n, S, k : Story(u, n, S, k)' = Story(u, n, S, k)
  BY <1>1, StoreUntouched DEF store
<1>4. found' \subseteq found /\ found' \cap Hidden(query, Now) = {}
  BY <1>1 DEF Shown
<1>5. TypeOK'
  <2>1. step' = "answered" => Cardinality(found') <= TopK
    <3>1. IsFiniteSet(1 .. Now)
      BY <1>3, FS_Interval
    <3>2. IsFiniteSet(found)
      BY <1>3, <3>1, FS_Subset DEF TypeOK
    <3>3. /\ Cardinality(found') \in Nat /\ Cardinality(found) \in Nat
          /\ Cardinality(found') <= Cardinality(found)
      BY <1>4, <3>2, FS_Subset, FS_CardinalityType
    <3> QED BY <1>1, <1>2, <3>3, LimitsAssumption DEF Phase
  <2> QED BY <1>1, <1>2, <1>3, <1>4, <2>1 DEF TypeOK, Steps, Phase
<1>6. OwnMessagesOnly'
  <2>1. Own' = Own
    BY <1>1, <1>3 DEF Own
  <2> QED BY <1>1, <1>2, <1>4, <2>1 DEF OwnMessagesOnly
<1>7. Phase' /\ ChainKept'
  BY <1>1, <1>2 DEF Phase, ChainKept
<1>8. \A n \in 0 .. Now : found' \cap Hidden(query, n) = {}
  <2>1. \A n \in 0 .. Now : Hidden(query, n) \subseteq Hidden(query, Now)
    BY <1>3, HiddenGrows DEF TypeOK
  <2> QED BY <1>4, <2>1
<1>9. HiddenKept'
  <2>1. began \in 0 .. Now /\ aside \in 0 .. Now /\ found' \subseteq 0 .. Now
    BY <1>3, <1>4 DEF TypeOK
  <2>2. local' \cap Hidden(query, began) = {}
    BY <1>1, <1>8, <2>1 DEF HiddenKept
  <2> QED BY <1>1, <1>3, <1>8, <2>1, <2>2 DEF HiddenKept
<1>10. OwedKept'
  <2>1. Owed' = Owed
    BY <1>1, <1>3 DEF Owed
  <2>2. ASSUME WantsState(query), ~cut, round = 1 PROVE Owed \subseteq found'
    BY <1>1, <2>2 DEF OwedKept, Owed, Shown
  <2>3. WantsState(query)' = WantsState(query) /\ cut' = cut
    BY <1>1 DEF WantsState
  <2> QED BY <1>1, <1>2, <2>1, <2>2, <2>3 DEF OwedKept
<1> QED BY <1>3, <1>5, <1>6, <1>7, <1>9, <1>10

\* Fusion takes from two answers that have been filtered.
LEMMA FuseIInv ==
  ASSUME IInv, Fuse
  PROVE  IInv'
<1> USE DEF IInv
<1>1. PICK connected \in SUBSET found :
        /\ found' \in Top(local \cup connected, TopK)
        /\ Cut(local \cup connected, found')
  BY DEF Fuse
<1>2. /\ step = "fuse" /\ step' = "answered"
      /\ UNCHANGED <<memory, supersedes, query, pipeline, round, frontier, depth,
                  local, aside, began, matched>>
  BY DEF Fuse, store
<1>3. /\ StoreOK' /\ ChainsWithinUser' /\ ExplicitUpdatesForward'
      /\ Now \in Nat /\ Now' = Now /\ DOMAIN memory = 1 .. Now
      /\ \A q, n : Hidden(q, n)' = Hidden(q, n)
      /\ \A u, n : Mine(u, n)' = Mine(u, n)
      /\ \A u, n, S, k : Story(u, n, S, k)' = Story(u, n, S, k)
  BY <1>2, StoreUntouched DEF store
<1>4. found' \subseteq local \cup connected /\ Cardinality(found') <= TopK
  BY <1>1, TopBounded, LimitsAssumption
<1>5. cut' \in BOOLEAN /\ (~cut' => ~cut /\ found' = local \cup connected)
  BY <1>1 DEF Cut, TypeOK
<1>6. TypeOK'
  BY <1>2, <1>3, <1>4, <1>5 DEF TypeOK, Steps, Phase
<1>7. OwnMessagesOnly'
  <2>1. Own' = Own
    BY <1>2, <1>3 DEF Own
  <2> QED BY <1>2, <1>4, <2>1 DEF OwnMessagesOnly
<1>8. Phase' /\ ChainKept'
  BY <1>2 DEF Phase, ChainKept
<1>9. HiddenKept'
  <2>1. pipeline = "expanded"
    BY <1>2 DEF Phase
  <2> QED BY <1>2, <1>3, <1>4, <2>1 DEF HiddenKept
<1>10. OwedKept'
  <2>1. Owed' = Owed
    BY <1>2, <1>3 DEF Owed
  <2>2. WantsState(query)' = WantsState(query) /\ round = 2
    BY <1>2 DEF WantsState, Phase
  <2> QED BY <1>2, <1>5, <2>1, <2>2 DEF OwedKept
<1> QED BY <1>3, <1>6, <1>7, <1>8, <1>9, <1>10

\* The reserved places go to messages that have been filtered later.
LEMMA InterleaveIInv ==
  ASSUME IInv, Interleave
  PROVE  IInv'
<1> USE DEF IInv
<1>1. PICK chosen \in SUBSET Shown(Mine(query.user, aside)) :
        /\ found' \in Top(found \cup chosen, TopK)
        /\ Cut(found \cup chosen, found')
  BY DEF Interleave
<1>2. /\ step = "aside" /\ step' = "answered"
      /\ UNCHANGED <<memory, supersedes, query, pipeline, round, frontier, depth,
                  local, aside, began, matched>>
  BY DEF Interleave, store
<1>3. /\ StoreOK' /\ ChainsWithinUser' /\ ExplicitUpdatesForward'
      /\ Now \in Nat /\ Now' = Now /\ DOMAIN memory = 1 .. Now
      /\ \A q, n : Hidden(q, n)' = Hidden(q, n)
      /\ \A u, n : Mine(u, n)' = Mine(u, n)
      /\ \A u, n, S, k : Story(u, n, S, k)' = Story(u, n, S, k)
  BY <1>2, StoreUntouched DEF store
<1>4. found' \subseteq found \cup chosen /\ Cardinality(found') <= TopK
  BY <1>1, TopBounded, LimitsAssumption
<1>5. cut' \in BOOLEAN /\ (~cut' => ~cut /\ found' = found \cup chosen)
  BY <1>1 DEF Cut, TypeOK
<1>6. /\ began \in 0 .. Now /\ aside \in 0 .. Now
      /\ found \subseteq 1 .. Now /\ chosen \subseteq 1 .. aside
      /\ chosen \subseteq Own /\ Own \subseteq DOMAIN memory
      /\ chosen \cap Hidden(query, Now) = {}
  <2>1. began \in 0 .. Now /\ aside \in 0 .. Now /\ found \subseteq 1 .. Now
    BY <1>3 DEF TypeOK
  <2>2. chosen \subseteq Mine(query.user, aside) /\ chosen \cap Hidden(query, Now) = {}
    BY <1>1 DEF Shown
  <2> QED BY <1>3, <2>1, <2>2 DEF Mine, Own
<1>7. TypeOK'
  BY <1>2, <1>3, <1>4, <1>5, <1>6 DEF TypeOK, Steps, Phase
<1>8. OwnMessagesOnly'
  <2>1. Own' = Own
    BY <1>2, <1>3 DEF Own
  <2> QED BY <1>2, <1>4, <1>6, <2>1 DEF OwnMessagesOnly
<1>9. Phase' /\ ChainKept'
  BY <1>2 DEF Phase, ChainKept
<1>10. HiddenKept'
  <2>1. \A n \in 0 .. Now : Hidden(query, n) \subseteq Hidden(query, Now)
    BY <1>3, HiddenGrows DEF TypeOK
  <2>2. \A n \in 0 .. aside : Hidden(query, n) \subseteq Hidden(query, aside)
    <3>1. \A n \in 0 .. aside : n \in 0 .. Now /\ aside \in n .. Now
      BY <1>3, <1>6
    <3> QED BY <3>1, HiddenGrows DEF TypeOK
  <2>3. found' \cap Hidden(query, began) = {}
    BY <1>2, <1>4, <1>6, <2>1 DEF HiddenKept
  <2>4. ASSUME NEW i \in found', pipeline # "expanded"
        PROVE  found' \cap Hidden(query, i) = {}
    <3>1. chosen \cap Hidden(query, i) = {}
      <4>1. i \in 0 .. Now
        BY <1>3, <1>4, <1>6
      <4> QED BY <1>6, <2>1, <4>1
    <3>2. found \cap Hidden(query, i) = {}
      <4>1. CASE i \in found
        BY <1>2, <2>4, <4>1 DEF HiddenKept
      <4>2. CASE i \in chosen
        <5>1. i \in 0 .. aside
          BY <1>3, <1>6, <4>2
        <5> QED BY <1>2, <2>2, <5>1 DEF HiddenKept
      <4> QED BY <1>4, <4>1, <4>2
    <3> QED BY <1>4, <3>1, <3>2
  <2> QED BY <1>2, <1>3, <2>3, <2>4 DEF HiddenKept
<1>11. OwedKept'
  <2>1. Owed' = Owed
    BY <1>2, <1>3 DEF Owed
  <2>2. WantsState(query)' = WantsState(query) /\ round = 1
    BY <1>2 DEF WantsState, Phase
  <2> QED BY <1>2, <1>5, <2>1, <2>2 DEF OwedKept
<1> QED BY <1>3, <1>7, <1>8, <1>9, <1>10, <1>11

\* An answer that is sent leaves nothing behind.
LEMMA FinishIInv ==
  ASSUME IInv, Finish
  PROVE  IInv'
<1> USE DEF IInv
<1>1. /\ step' = "idle" /\ query' = None /\ pipeline' = "lexical" /\ round' = 1
      /\ found' = {} /\ frontier' = {} /\ depth' = 0 /\ local' = {} /\ aside' = 0
      /\ began' = 0 /\ matched' = {} /\ cut' = FALSE
      /\ UNCHANGED <<memory, supersedes>>
  BY DEF Finish, store
<1>2. /\ StoreOK' /\ ChainsWithinUser' /\ ExplicitUpdatesForward'
      /\ Now \in Nat /\ Now' = Now
  BY <1>1, StoreUntouched DEF store
<1>3. TypeOK'
  <2>1. 0 \in 0 .. Now /\ 1 \in 1 .. 2 /\ 0 \in 0 .. ChainDepth
    BY <1>2, LimitsAssumption
  <2> QED BY <1>1, <1>2, <2>1 DEF TypeOK, Steps, Pipeline
<1> QED BY <1>1, <1>2, <1>3 DEF OwnMessagesOnly, Phase, HiddenKept, ChainKept, OwedKept

\* Nothing happens.
LEMMA StutterIInv ==
  ASSUME IInv, UNCHANGED vars
  PROVE  IInv'
<1> USE DEF IInv
<1>1. UNCHANGED <<memory, supersedes, step, query, pipeline, round, found, frontier,
                  depth, local, aside, began, matched, cut>>
  BY DEF vars, search
<1>2. /\ StoreOK' /\ ChainsWithinUser' /\ ExplicitUpdatesForward'
      /\ Now \in Nat /\ Now' = Now
      /\ \A q, n : Hidden(q, n)' = Hidden(q, n)
      /\ \A u, n : Mine(u, n)' = Mine(u, n)
      /\ \A u, n, S, k : Story(u, n, S, k)' = Story(u, n, S, k)
  BY <1>1, StoreUntouched DEF store
<1>3. TypeOK'
  BY <1>1, <1>2 DEF TypeOK
<1>4. OwnMessagesOnly'
  BY <1>1, <1>2 DEF OwnMessagesOnly, Own
<1>5. Phase' /\ HiddenKept'
  BY <1>1, <1>2 DEF Phase, HiddenKept
<1>7. ChainKept'
  <2>1. \A u, n, S : Linked(u, n, S)' = Linked(u, n, S)
    BY <1>1, StoreUntouched DEF store
  <2> QED BY <1>1, <1>2, <2>1 DEF ChainKept, Explored
<1>6. OwedKept'
  <2>1. Owed' = Owed
    BY <1>1, <1>2 DEF Owed
  <2> QED BY <1>1, <2>1 DEF OwedKept, WantsState
<1> QED BY <1>2, <1>3, <1>4, <1>5, <1>6, <1>7

\* The invariant, for all users, messages, queries and limits.
THEOREM Invariant == Spec => []IInv
<1>1. Init => IInv
  BY InitIInv
<1>2. IInv /\ [Next]_vars => IInv'
  <2> SUFFICES ASSUME IInv, [Next]_vars PROVE IInv'
    OBVIOUS
  <2>1. ASSUME NEW m \in Memory, Add(m) PROVE IInv'
    BY <2>1, AddIInv
  <2>2. ASSUME NEW q \in Query, NEW p \in Pipeline, StartSearch(q, p) PROVE IInv'
    BY <2>2, StartSearchIInv
  <2>3. CASE Match
    BY <2>3, MatchIInv
  <2>11. CASE FollowChain
    BY <2>11, FollowChainIInv
  <2>4. CASE ExpandRoutes
    BY <2>4, ExpandRoutesIInv
  <2>5. CASE ExpandNeighbors
    BY <2>5, ExpandNeighborsIInv
  <2>6. CASE Refilter
    BY <2>6, RefilterIInv
  <2>7. CASE Fuse
    BY <2>7, FuseIInv
  <2>8. CASE Interleave
    BY <2>8, InterleaveIInv
  <2>9. CASE Finish
    BY <2>9, FinishIInv
  <2>10. CASE UNCHANGED vars
    BY <2>10, StutterIInv
  <2> QED BY <2>1, <2>2, <2>3, <2>4, <2>5, <2>6, <2>7, <2>8, <2>9, <2>10, <2>11
     DEF Next
<1> QED BY <1>1, <1>2, PTL DEF Spec

----------------------------------------------------------------------------
(* The properties *)

\* Every variable of a search and of the store keeps to its type, and an
\* answer to top_k.
THEOREM TypeCorrect == Spec => []TypeOK
<1>1. IInv => TypeOK
  BY DEF IInv
<1> QED BY <1>1, Invariant, PTL

\* Chains of state never cross users and never run backwards in a cycle.
THEOREM ChainsNeverCrossUsers == Spec => []ChainsWithinUser
<1>1. IInv => ChainsWithinUser
  BY DEF IInv
<1> QED BY <1>1, Invariant, PTL

\* An update by wording alone supersedes nothing that happened after it.
THEOREM LateUpdatesSupersedeNothing == Spec => []ExplicitUpdatesForward
<1>1. IInv => ExplicitUpdatesForward
  BY DEF IInv
<1> QED BY <1>1, Invariant, PTL

\* A search sees nothing of another user at any of its steps, by any route.
THEOREM SearchesStayWithinUser == Spec => []OwnMessagesOnly
<1>1. IInv => OwnMessagesOnly
  BY DEF IInv
<1> QED BY <1>1, Invariant, PTL

\* What was forgotten or unsafe when a search began is not in its answer.
THEOREM HiddenNeverAnswered == Spec => []HiddenStaysOut
<1>1. IInv => HiddenStaysOut
  BY DEF IInv, HiddenKept, HiddenStaysOut, Answered
<1> QED BY <1>1, Invariant, PTL

\* An answer that shows a message knows what that message forgot.
THEOREM AnswersNeverBehind == Spec => []NeverBehindItself
<1>1. IInv => NeverBehindItself
  BY DEF IInv, HiddenKept, NeverBehindItself, Answered
<1> QED BY <1>1, Invariant, PTL

\* The recursive walk along the relations finds every path up to its depth,
\* and no later filter, cut or fusion loses what it found.
THEOREM StoriesToldWhole == Spec => []StateToldWhole
<1>1. IInv => StateToldWhole
  BY DEF IInv, OwedKept, Owed, StateToldWhole, Answered
<1> QED BY <1>1, Invariant, PTL

\* No later Add brings a forgotten message back.
THEOREM ForgottenStaysForgotten == Spec => ForgottenForGood
<1>1. ASSUME IInv, IInv', [Next]_vars, memory' # memory, NEW u \in User
      PROVE  Forgotten(u, Len(memory)) \subseteq Forgotten(u, Len(memory))'
  <2>1. PICK m \in Memory : Remember(m)
    BY <1>1 DEF Next, Add, StartSearch, Match, FollowChain, ExpandRoutes, ExpandNeighbors, Refilter,
                Fuse, Interleave, Finish, vars, store
  <2>2. StoreOK /\ OnlyGrows'
    BY <1>1, EverythingGrowsNext DEF IInv, TypeOK
  <2>3. Now \in Nat /\ Now' = Now + 1
    BY <2>1, <2>2, RememberAppends
  <2>4. PICK n : n = Now
    OBVIOUS
  <2>5. n \in 0 .. Now /\ n \in 0 .. Now' /\ Now' \in n .. Now'
    BY <2>3, <2>4
  <2>6. Forgotten(u, n)' = Forgotten(u, n)
    BY <2>1, <2>2, <2>5, RememberKeeps
  <2>7. Forgotten(u, n)' \subseteq Forgotten(u, Now)'
    <3>1. PICK q : q = [user |-> u]
      OBVIOUS
    <3>2. Forgotten(q.user, n)' \subseteq Forgotten(q.user, Now)'
      BY <2>2, <2>5 DEF OnlyGrows
    <3> QED BY <3>1, <3>2
  <2> QED BY <2>4, <2>6, <2>7 DEF Now
<1>2. IInv /\ IInv' /\ [Next]_vars =>
        [memory' # memory =>
           \A u \in User : Forgotten(u, Len(memory)) \subseteq Forgotten(u, Len(memory))']_store
  BY <1>1
<1> QED BY <1>2, Invariant, PTL DEF Spec, ForgottenForGood
============================================================================
