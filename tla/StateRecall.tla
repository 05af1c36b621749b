---------------------------- MODULE StateRecall ----------------------------
(***************************************************************************)
(* Search while Adds commit: the retrieval pipelines of retrieval.py over  *)
(* StateGovernance.  Each SELECT is a transaction of its own, so a search  *)
(* sees a later memory at every step.  Reads in a row that can as well     *)
(* take place together at the time of the last are one step.               *)
(* Searches write nothing and do not see each other: one is modelled, run  *)
(* again and again.                                                        *)
(*                                                                         *)
(* Which messages a text, vector, facet, tag, bridge or graph look-up      *)
(* returns, and in which rank order, is left open: any of the user's own.  *)
(***************************************************************************)
EXTENDS StateGovernance

CONSTANTS
  Query,       \* user, and what the patterns of retrieval.py say of the text
  TopK,        \* top_k of the request
  WideK,       \* top_k of the second search of query expansion
  Radius,      \* neighbor_radius
  ChainDepth,  \* steps of list_state_chain (8 in the code)
  Reserved     \* session-vector hits an answer reserves room for

Pipeline == {"lexical", "expanded", "hybrid"}

ASSUME QueryAssumption ==
  \A q \in Query : /\ q.user \in User
                   /\ q.history \in BOOLEAN /\ q.current \in BOOLEAN
                   /\ q.injection \in BOOLEAN

ASSUME LimitsAssumption ==
  /\ TopK \in Nat \ {0} /\ WideK \in Nat /\ WideK >= TopK
  /\ Radius \in Nat /\ ChainDepth \in Nat \ {0} /\ Reserved \in Nat

VARIABLES
  step,      \* the next step of the search
  query,     \* its query, or None
  pipeline,  \* the pipeline that runs it
  round,     \* 1, or 2 in the second search of query expansion
  found,     \* the results so far
  frontier,  \* those whose relations list_state_chain reads next
  depth,     \* how many times it has read relations
  local,     \* the answer of round 1, kept for fusion
  aside,     \* messages committed when hybrid read its session-vector hits
  began,     \* messages committed when the search began
  matched,   \* the direct hits of round 1, when a state is asked for
  cut        \* whether top_k cut results off

search == <<step, query, pipeline, round, found, frontier, depth, local,
            aside, began, matched, cut>>
vars   == <<memory, supersedes, search>>

Steps == {"idle", "match", "chain", "routes", "neighbors", "refilter", "fuse", "aside",
          "answered"}

Now == Len(memory)

TypeOK ==
  /\ StoreOK
  /\ step \in Steps
  /\ query \in Query \cup {None}
  /\ step # "idle" => query \in Query
  /\ pipeline \in Pipeline
  /\ round \in 1 .. 2
  /\ found \in SUBSET (DOMAIN memory) /\ local \in SUBSET (DOMAIN memory)
  /\ matched \in SUBSET (DOMAIN memory) /\ frontier \in SUBSET found
  /\ depth \in 0 .. ChainDepth
  /\ step = "answered" => Cardinality(found) <= TopK
  /\ began \in 0 .. Now /\ aside \in 0 .. Now
  /\ cut \in BOOLEAN

SearchInit ==
  /\ step = "idle" /\ query = None /\ pipeline = "lexical" /\ round = 1
  /\ found = {} /\ frontier = {} /\ depth = 0 /\ local = {} /\ aside = 0
  /\ began = 0 /\ matched = {} /\ cut = FALSE

Init == StoreInit /\ SearchInit

----------------------------------------------------------------------------
(* Reads *)

Own == Mine(query.user, Now)

\* A mutant of Linked: from a message to what it superseded, not back.
LinkedToOlder(u, n, T) == {r[2] : r \in {e \in Relations(u, n) : e[1] \in T}}

\* One relation away from a message of T, either way.
Linked(u, n, T) ==
  UNION {{r[1], r[2]} : r \in {e \in Relations(u, n) : e[1] \in T \/ e[2] \in T}}

WantsState(q) == q.history \/ q.current

\* _filter_forgotten_memories and _filter_unsafe_memories: forget messages
\* and what they hide, unless history is asked for; prompt injections,
\* unless the query is about them.
Hidden(q, n) ==
  {i \in Mine(q.user, n) :
     \/ ~q.history /\ (HasStatus(i, "forget") \/ i \in Forgotten(q.user, n))
     \/ ~q.injection /\ memory[i].unsafe}

Shown(S) == S \ Hidden(query, Now)

\* A mutant of SessionMates: list_session_messages by session id alone.
SessionMatesOfAll(h) == {i \in DOMAIN memory : memory[i].session = memory[h].session}

\* The user's messages within Radius of h in the session of h.
SessionMates(h) == {i \in Own : memory[i].session = memory[h].session}

Around(h) ==
  {i \in SessionMates(h) :
     LET between == {j \in SessionMates(h) : j \in (i + 1) .. h \/ j \in (h + 1) .. i}
     IN  Cardinality(between) <= Radius}

\* A mutant of Top: one result too many.
TopAndOne(S, k) ==
  IF Cardinality(S) <= k THEN {S} ELSE {T \in SUBSET S : Cardinality(T) = k + 1}

\* The first k of S in rank order.
Top(S, k) ==
  IF Cardinality(S) <= k THEN {S} ELSE {T \in SUBSET S : Cardinality(T) = k}

Cut(S, T) == cut' = (cut \/ S # T)

----------------------------------------------------------------------------
(* One search *)

StartSearch(q, p) ==
  /\ step = "idle"
  /\ step' = "match" /\ query' = q /\ pipeline' = p /\ began' = Now
  /\ UNCHANGED <<store, round, found, frontier, depth, local, aside, matched, cut>>

\* Read d of list_state_chain, for the messages T of those seen: until no
\* new one turns up, or ChainDepth times.
ReadRelations(T, seen, d) ==
  LET new  == Linked(query.user, Now, T) \ seen
      done == new = {} \/ d = ChainDepth IN
  /\ found' = seen \cup new
  /\ step' = IF done THEN "routes" ELSE "chain"
  /\ frontier' = IF done THEN {} ELSE new
  /\ depth' = IF done THEN 0 ELSE d

\* FTS, facet and vector hits, which session-vector hits of the hybrid
\* pipeline are read with; then _expand_current_state_chain.
Match ==
  /\ step = "match"
  /\ \E hits \in SUBSET Own :
       IF WantsState(query)
       THEN /\ ReadRelations(hits, hits, 1)
            /\ matched' = IF round = 1 THEN hits ELSE matched
       ELSE /\ found' = hits /\ step' = "routes"
            /\ UNCHANGED <<frontier, depth, matched>>
  /\ aside' = IF pipeline = "hybrid" THEN Now ELSE 0
  /\ UNCHANGED <<store, query, pipeline, round, local, began, cut>>

FollowChain ==
  /\ step = "chain"
  /\ ReadRelations(frontier, found, depth + 1)
  /\ UNCHANGED <<store, query, pipeline, round, local, aside, began, matched, cut>>

\* Intent tags, entity bridges and the relation graph; then the first filter.
ExpandRoutes ==
  /\ step = "routes"
  /\ step' = "neighbors"
  /\ \E S \in SUBSET Own : found' = Shown(found \cup S)
  /\ UNCHANGED <<store, query, pipeline, round, frontier, depth, local, aside, began, matched, cut>>

\* _expand_neighbors: some of the session mates (a preference query leaves
\* one-off ones out), then the first top_k.
ExpandNeighbors ==
  /\ step = "neighbors"
  /\ step' = "refilter"
  /\ \E mates \in SUBSET UNION {Around(h) : h \in found} :
       /\ found' \in Top(found \cup mates, IF round = 1 THEN TopK ELSE WideK)
       /\ Cut(found \cup mates, found')
  /\ UNCHANGED <<store, query, pipeline, round, frontier, depth, local, aside, began, matched>>

NextStep ==
  CASE pipeline = "lexical" -> "answered"
    [] pipeline = "hybrid" -> "aside"
    [] OTHER -> IF round = 1 THEN "match" ELSE "fuse"

\* A mutant of Refilter: neighbors are taken as they are.
KeepNeighbors ==
  /\ step = "refilter"
  /\ step' = NextStep
  /\ round' = IF NextStep = "match" THEN 2 ELSE round
  /\ local' = IF NextStep = "match" THEN found ELSE local
  /\ UNCHANGED <<store, query, pipeline, found, frontier, depth, aside, began, matched,
                 cut>>

\* A mutant of Refilter: what is hidden was listed when the search began.
RefilterAsOfStart ==
  /\ step = "refilter"
  /\ step' = NextStep
  /\ found' = found \ Hidden(query, began)
  /\ round' = IF NextStep = "match" THEN 2 ELSE round
  /\ local' = IF NextStep = "match" THEN found' ELSE local
  /\ UNCHANGED <<store, query, pipeline, frontier, depth, aside, began, matched, cut>>

\* The second filter of a search; query expansion then searches once more,
\* for the expanded text, and keeps the first answer.
Refilter ==
  /\ step = "refilter"
  /\ step' = NextStep
  /\ found' = Shown(found)
  /\ round' = IF NextStep = "match" THEN 2 ELSE round
  /\ local' = IF NextStep = "match" THEN found' ELSE local
  /\ UNCHANGED <<store, query, pipeline, frontier, depth, aside, began, matched, cut>>

\* Query expansion: the first answer, with those of the second that are
\* connected to it, by rank; the second alone when the first is empty.
Fuse ==
  /\ step = "fuse"
  /\ step' = "answered"
  /\ \E connected \in IF local = {} THEN {found} ELSE SUBSET found :
       /\ found' \in Top(local \cup connected, TopK)
       /\ Cut(local \cup connected, found')
  /\ UNCHANGED <<store, query, pipeline, round, frontier, depth, local, aside, began, matched>>

\* Hybrid: the session-vector hits are filtered and some take reserved places.
Interleave ==
  /\ step = "aside"
  /\ step' = "answered"
  /\ \E chosen \in {S \in SUBSET Shown(Mine(query.user, aside)) : Cardinality(S) <= Reserved} :
       /\ found' \in Top(found \cup chosen, TopK)
       /\ Cut(found \cup chosen, found')
  /\ UNCHANGED <<store, query, pipeline, round, frontier, depth, local, aside, began, matched>>

\* The answer is sent.
Finish ==
  /\ step = "answered"
  /\ step' = "idle" /\ query' = None /\ pipeline' = "lexical" /\ round' = 1
  /\ found' = {} /\ frontier' = {} /\ depth' = 0 /\ local' = {} /\ aside' = 0
  /\ began' = 0 /\ matched' = {} /\ cut' = FALSE
  /\ UNCHANGED store

----------------------------------------------------------------------------

Add(m) == Remember(m) /\ UNCHANGED search

Next ==
  \/ \E m \in Memory : Add(m)
  \/ \E q \in Query, p \in Pipeline : StartSearch(q, p)
  \/ Match \/ FollowChain \/ ExpandRoutes \/ ExpandNeighbors \/ Refilter
  \/ Fuse \/ Interleave \/ Finish

Spec == Init /\ [][Next]_vars

----------------------------------------------------------------------------
(* Properties *)

Answered == step = "answered"

\* No result of any route belongs to another user, although session ids are
\* shared and relations are followed.
OwnMessagesOnly ==
  step # "idle" => found \cup local \subseteq Own

\* "Forgotten memories stay out of ordinary recall", and so do injected
\* instructions: an answer holds nothing that was hidden when its search
\* began, whichever pipeline, route or neighbor found it.
HiddenStaysOut == Answered => found \cap Hidden(query, began) = {}

\* An answer of one search is never behind itself: if it shows a message, it
\* hides all that was to be hidden when that message was committed.  (Not
\* so of query expansion, which joins the answers of two searches.)
NeverBehindItself ==
  Answered /\ pipeline # "expanded" =>
    \A i \in found : found \cap Hidden(query, i) = {}

\* Joined to S by a path of at most k relations.
Story(u, n, S, k) ==
  {i \in 1 .. n : \E path \in [0 .. k -> 1 .. n] :
     /\ path[0] \in S /\ path[k] = i
     /\ \A d \in 1 .. k :
          \/ path[d] = path[d - 1]
          \/ {<<path[d], path[d - 1]>>, <<path[d - 1], path[d]>>} \cap Relations(u, n) # {}}

\* A question about a state gets the whole story of every direct hit: all
\* that a bounded path of relations joins to it, if not hidden, and if top_k
\* has room.
StateToldWhole ==
  Answered /\ WantsState(query) /\ ~cut =>
    Story(query.user, began, matched, ChainDepth) \ Hidden(query, Now) \subseteq found

\* "Cancelled ... memories ... stay out of ordinary recall."
Cancelled(u, n) ==
  {i \in 1 .. n : \E r \in Relations(u, n) :
     /\ r[2] = i /\ ~HasStatus(i, "cancel")
     /\ HasStatus(r[1], "cancel")
     /\ \A s \in Relations(u, n) : s[2] # r[1]}

CancelledOutOfRecall ==
  Answered /\ ~query.history => found \cap Cancelled(query.user, began) = {}
=============================================================================
