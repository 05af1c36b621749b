------------------------------ MODULE Ranking ------------------------------
(***************************************************************************)
(* How a search of retrieval.py orders what its look-ups return: scores,   *)
(* re-scoring and sorting stage by stage, the cut to top_k, the fusion of  *)
(* two rankings, and the seats reserved for session-vector hits.           *)
(*                                                                         *)
(* StateRecall leaves order and scores open and lets Adds commit between   *)
(* the reads; here the user's messages stay as they are.  A look-up        *)
(* returns any messages in any order, unless its ORDER BY is by time.      *)
(* Scores are exact fractions: the code has floats, which order different  *)
(* fractions of this size alike.                                           *)
(***************************************************************************)
EXTENDS Integers, Sequences, FiniteSets, SequencesExt

CONSTANTS
  Log,     \* logs of a user: sequences of messages, session and occurred_at_ms
  Size,    \* how many messages a user has
  Hideable, \* how many of them the filters take out at most
  Query,   \* what the patterns of retrieval.py say of the text
  Intent,  \* the tags a query can ask for
  TopK,    \* top_k of the request
  WideK,   \* top_k of the second search of query expansion
  Radius,  \* neighbor_radius
  LexicalLimit, \* lexical_candidate_limit, or None
  VectorLimit,  \* vector_candidate_limit, or None
  None     \* absent value

ASSUME MessageAssumption ==
  /\ Size \in Nat /\ Hideable \in Nat
  /\ \A l \in Log : DOMAIN l = 1 .. Size /\ \A m \in 1 .. Size : l[m].at \in Nat \cup {None}

ASSUME RequestAssumption ==
  /\ TopK \in Nat \ {0} /\ WideK \in Nat /\ WideK >= TopK /\ Radius \in Nat
  /\ LexicalLimit \in (Nat \ {0}) \cup {None} /\ VectorLimit \in (Nat \ {0}) \cup {None}
  /\ IsFiniteSet(Intent)
  /\ \A q \in Query :
       /\ q.history \in BOOLEAN /\ q.current \in BOOLEAN
       /\ q.facets \in BOOLEAN       \* it names an entity, a place, a date, ...
       /\ q.intents \subseteq Intent
       /\ q.components \in 0 .. 2    \* _semantic_query_components
       /\ q.compare \in BOOLEAN      \* _is_temporal_comparison_query

VARIABLES
  log,       \* the user's messages
  hidden,    \* those that the filters take out
  query,
  pipeline,
  stage,     \* the next stage of the search
  round,     \* 1, or 2 in the second search of query expansion
  results,   \* [order, score]: the ranking so far
  rankings,  \* the two rankings to be fused
  chain,     \* direct hits and state chain, before intents and graph
  operands,  \* session-vector hits, filtered
  local      \* the answer of round 1

request == <<log, hidden, query, pipeline>>
vars == <<request, stage, round, results, rankings, chain, operands, local>>

\* A message is known by its sequence.
Message == 1 .. Size
At(m)   == log[m].at

----------------------------------------------------------------------------
(* Fractions *)

Gcd[p \in Nat \X Nat] == IF p[2] = 0 THEN p[1] ELSE Gcd[<<p[2], p[1] % p[2]>>]

Fraction(n, d)  == <<n \div Gcd[<<n, d>>], d \div Gcd[<<n, d>>]>>
Plus(x, y)      == Fraction(x[1] * y[2] + y[1] * x[2], x[2] * y[2])
DividedBy(x, y) == Fraction(x[1] * y[2], x[2] * y[1])
Above(x, y)     == x[1] * y[2] > y[1] * x[2]

----------------------------------------------------------------------------
(* Rankings *)

Lists == SetToAllKPermutations(Message)
Ids(ranking) == Range(ranking.order)

Rank(list, m) == CHOOSE i \in DOMAIN list : list[i] = m

Before(list, a, b) == Rank(list, a) < Rank(list, b)

\* S in an order, which is strict and total.
Sort(S, before(_, _)) ==
  CHOOSE list \in SetToSeqs(S) : \A i, j \in DOMAIN list : i < j => before(list[i], list[j])

\* A list less some messages.
Without(list, out) == Sort(Range(list) \ out, LAMBDA a, b : Before(list, a, b))

Cut(list, k) == SubSeq(list, 1, IF k < Len(list) THEN k ELSE Len(list))

\* score 1.0 / rank.
Reciprocal(list) ==
  [order |-> list, score |-> [m \in Range(list) |-> <<1, Rank(list, m)>>]]

\* By score; the newer first among equals, or the older.
NewerFirst(score) ==
  LET before(a, b) == Above(score[a], score[b]) \/ (~Above(score[b], score[a]) /\ a > b)
  IN  [order |-> Sort(DOMAIN score, before), score |-> score]
OlderFirst(score) ==
  LET before(a, b) == Above(score[a], score[b]) \/ (~Above(score[b], score[a]) /\ a < b)
  IN  [order |-> Sort(DOMAIN score, before), score |-> score]

\* A mutant of Boosted: a second route replaces the score of the first.
BoostedAnew(score, list, weight, offset) ==
  [m \in DOMAIN score \cup Range(list) |->
     IF m \notin Range(list) THEN score[m]
     ELSE DividedBy(weight, <<offset + Rank(list, m), 1>>)]

\* scores.get(id, 0.0) + weight / (offset + rank), for a list of messages.
Boosted(score, list, weight, offset) ==
  [m \in DOMAIN score \cup Range(list) |->
     IF m \notin Range(list) THEN score[m]
     ELSE LET part == DividedBy(weight, <<offset + Rank(list, m), 1>>) IN
          IF m \in DOMAIN score THEN Plus(score[m], part) ELSE part]

\* score / max_score.
Normalized(score) ==
  [m \in DOMAIN score |->
     LET best == CHOOSE b \in DOMAIN score : \A c \in DOMAIN score : ~Above(score[c], score[b])
     IN  DividedBy(score[m], score[best])]

\* Reciprocal-rank fusion of two rankings, the second with a weight.
Fused(pair, weight) ==
  LET both == Boosted(Boosted(<< >>, pair[1], <<1, 1>>, 60), pair[2], weight, 60)
  IN  OlderFirst(Normalized(both))

\* _filter_forgotten_memories and _filter_unsafe_memories.
Shown(ranking) ==
  [order |-> Without(ranking.order, hidden),
   score |-> [m \in Ids(ranking) \ hidden |-> ranking.score[m]]]

Truncated(ranking, k) ==
  LET order == Cut(ranking.order, k)
  IN  [order |-> order, score |-> [m \in Range(order) |-> ranking.score[m]]]

Nothing == Reciprocal(<< >>)
NoRankings == <<<< >>, << >>>>

----------------------------------------------------------------------------
(* Time *)

WantsState == query.history \/ query.current

\* Messages without a time come last.
Timed(a, b)   == At(a) # None /\ At(b) = None
SameTime(a, b) == At(a) = At(b)
Happened(a, b) == At(a) # None /\ At(b) # None /\ At(a) < At(b)

OldestFirst(a, b) == Timed(a, b) \/ Happened(a, b) \/ (SameTime(a, b) /\ a < b)
NewestFirst(a, b) == Timed(a, b) \/ Happened(b, a) \/ (SameTime(a, b) /\ a > b)

\* A mutant of InTime: history and current state change places.
InTimeBackwards(a, b) == IF query.history THEN NewestFirst(a, b) ELSE OldestFirst(a, b)

\* The order of the messages of a state chain.
InTime(a, b) == IF query.history THEN OldestFirst(a, b) ELSE NewestFirst(a, b)

\* _order_lexical_hits: among hits of one time, the current state keeps them
\* by relevance.
OrderLexicalHits(hits) ==
  IF ~WantsState THEN hits
  ELSE Sort(Range(hits),
         LAMBDA a, b : IF query.history \/ ~SameTime(a, b) THEN InTime(a, b)
                                                          ELSE Before(hits, a, b))

----------------------------------------------------------------------------
(* The stages *)

K == IF round = 1 THEN TopK ELSE WideK

\* How many candidates a route of the hybrid search looks at.
RouteLimit(limit) ==
  IF limit # None THEN limit
  ELSE LET wide == IF TopK * 4 > 20 THEN TopK * 4 ELSE 20 IN IF wide < 400 THEN wide ELSE 400

Goto(s) == stage' = s

\* FTS hits: the first of the user's, less those that are not grounded.
Match ==
  /\ stage = "match" /\ pipeline # "hybrid"
  /\ \E hits \in Lists :
       /\ Len(hits) <= IF LexicalLimit # None THEN LexicalLimit ELSE K
       /\ results' = Reciprocal(OrderLexicalHits(hits))
  /\ Goto("facets")
  /\ UNCHANGED <<request, round, rankings, chain, operands, local>>

\* Hybrid: FTS hits and vector hits.
MatchTwice ==
  /\ stage = "match" /\ pipeline = "hybrid"
  /\ rankings' \in {pair \in Lists \X Lists : /\ Len(pair[1]) <= RouteLimit(LexicalLimit)
                                             /\ Len(pair[2]) <= RouteLimit(VectorLimit)}
  /\ Goto("fuse")
  /\ UNCHANGED <<request, round, results, chain, operands, local>>

\* A mutant of VectorWeight: both routes count alike.
EqualWeight == <<1, 1>>

\* vector_rrf_weight.
VectorWeight == <<1, 10>>

\* Hybrid: fusion, the cut, and scores by rank for what follows.
FuseRoutes ==
  /\ stage = "fuse" /\ pipeline = "hybrid"
  /\ results' = Reciprocal(Cut(Fused(rankings, VectorWeight).order, TopK))
  /\ Goto("facets")
  /\ rankings' = NoRankings
  /\ UNCHANGED <<request, round, chain, operands, local>>

\* search_facets: by how many facets match and how well.
FacetHits == IF query.facets THEN Lists ELSE {<< >>}

\* _expand_query_facets.
ExpandQueryFacets ==
  /\ stage = "facets"
  /\ \E hits \in FacetHits :
       LET score == Boosted(results.score, hits, <<17, 20>>, 0) IN
       results' = IF query.facets THEN NewerFirst(Normalized(score)) ELSE results
  /\ Goto("chain")
  /\ UNCHANGED <<request, round, rankings, chain, operands, local>>

\* _expand_current_state_chain.
ExpandStateChain ==
  /\ stage = "chain"
  /\ \E linked \in IF WantsState /\ Ids(results) # {} THEN SUBSET Message ELSE {{}} :
       LET all == Ids(results) \cup linked IN
       /\ results' = IF WantsState THEN Reciprocal(Sort(all, InTime)) ELSE results
       /\ chain' = all
  /\ Goto("tags")
  /\ UNCHANGED <<request, round, rankings, operands, local>>

\* list_tagged_messages.
TagHits(messages) == Sort(messages, NewestFirst)

\* The scores with what each list of tagged messages adds.
Tagged(score, lists) ==
  LET Tag[i \in 0 .. Len(lists)] ==
        IF i = 0 THEN score ELSE Boosted(Tag[i - 1], TagHits(lists[i]), <<5, 4>>, 0)
  IN  Tag[Len(lists)]

\* _expand_intent_tags: the intents of the query, one after the other.
ExpandIntentTags ==
  /\ stage = "tags"
  /\ \E tagged \in [query.intents -> SUBSET Message], kinds \in SetToSeqs(query.intents) :
       LET score == Tagged(results.score, [i \in 1 .. Len(kinds) |-> tagged[kinds[i]]]) IN
       results' = IF kinds = << >> THEN results ELSE NewerFirst(Normalized(score))
  /\ Goto("bridges")
  /\ UNCHANGED <<request, round, rankings, chain, operands, local>>

\* ranking with the messages of score that it has not, as they are found.
Joined(ranking, score) ==
  [m \in Ids(ranking) \cup DOMAIN score |->
     IF m \in Ids(ranking) THEN ranking.score[m] ELSE score[m]]

\* _expand_entity_bridges: what names occurring in the results lead to.
ExpandEntityBridges ==
  /\ stage = "bridges"
  /\ \E hits \in IF Ids(results) # {} THEN Lists ELSE {<< >>} :
       results' = [order |-> results.order \o Without(hits, Ids(results)),
                   score |-> Joined(results, Boosted(<< >>, hits, <<1, 2>>, 0))]
  /\ Goto("graph")
  /\ UNCHANGED <<request, round, rankings, chain, operands, local>>

\* list_related_messages: hops from the results to what relations lead to,
\* breadth first, so that there is no second hop without a first.
RelatedByHop ==
  LET others == IF Ids(results) = {} THEN {} ELSE Message \ Ids(results) IN
  {hop \in UNION {[found -> 1 .. 3] : found \in SUBSET others} :
     \A m \in DOMAIN hop : hop[m] = 1 \/ \E n \in DOMAIN hop : hop[n] = hop[m] - 1}

\* _expand_relation_graph, and the first filter.
ExpandRelationGraph ==
  /\ stage = "graph"
  /\ \E hop \in RelatedByHop :
       results' = Shown(NewerFirst(Joined(results,
                          [m \in DOMAIN hop |-> Fraction(13, 20 * hop[m])])))
  /\ Goto("neighbors")
  /\ UNCHANGED <<request, round, rankings, chain, operands, local>>

\* How far apart two messages of a session are.
Apart(a, b) ==
  Cardinality({m \in Message : /\ log[m].session = log[a].session
                               /\ m \in (a + 1) .. b \/ m \in (b + 1) .. a})

Near(h, m) == log[h].session = log[m].session /\ Apart(h, m) \in 1 .. Radius

\* The first result that m is near to.
Anchor(m) ==
  results.order[CHOOSE i \in DOMAIN results.order :
                  /\ Near(results.order[i], m)
                  /\ \A j \in 1 .. i - 1 : ~Near(results.order[j], m)]

\* A neighbor's score.
Support(m) == DividedBy(results.score[Anchor(m)], <<Apart(Anchor(m), m) + 1, 1>>)

AfterNeighbors ==
  CASE pipeline = "lexical" -> {"answered"}
    [] pipeline = "hybrid"  -> {"operands"}
    [] OTHER -> IF round = 2 THEN {"connect"} ELSE {"answered", "match"}

\* _expand_neighbors, and the second filter.  A preference query leaves
\* one-off neighbors out.  Query expansion then searches again, unless the
\* provider has no terms.
ExpandNeighbors ==
  /\ stage = "neighbors"
  /\ \E oneOff \in IF "preference" \in query.intents THEN SUBSET Message ELSE {{}} :
       LET mates == {m \in Message \ oneOff : \E h \in Ids(results) : Near(h, m)} IN
       results' = Shown(Truncated(OlderFirst(Joined(results,
                          [m \in mates \ Ids(results) |-> Support(m)])), K))
  /\ \E next \in AfterNeighbors :
       /\ Goto(next)
       /\ IF next = "match" THEN round' = 2 /\ local' = results'
                            ELSE UNCHANGED <<round, local>>
  /\ UNCHANGED <<request, rankings, chain, operands>>

----------------------------------------------------------------------------
(* Query expansion: the two searches *)

\* Messages of the sessions of the leading local results, or that name what
\* these name.
Connected(m, named) ==
  \/ m \in Ids(local) \cup named
  \/ \E i \in 1 .. Len(Cut(local.order, 10)) : log[local.order[i]].session = log[m].session

Connect ==
  /\ stage = "connect"
  /\ \E named \in SUBSET Ids(results) :
       LET connected == Without(results.order, {m \in Message : ~Connected(m, named)}) IN
       IF local = Nothing
         THEN /\ results' = Truncated(results, TopK)
              /\ Goto("answered") /\ UNCHANGED rankings
         ELSE IF Range(connected) \subseteq Ids(local)
           THEN /\ results' = local
                /\ Goto("answered") /\ UNCHANGED rankings
           ELSE /\ rankings' = <<local.order, connected>>
                /\ Goto("fuse") /\ UNCHANGED results
  /\ UNCHANGED <<request, round, chain, operands, local>>

FuseSearches ==
  /\ stage = "fuse" /\ pipeline = "expanded"
  /\ results' = Truncated(Fused(rankings, <<1, 1>>), TopK)
  /\ Goto("answered")
  /\ rankings' = NoRankings
  /\ UNCHANGED <<request, round, chain, operands, local>>

----------------------------------------------------------------------------
(* Hybrid: the reserved seats *)

\* The hits of the semantic components inside the candidate sessions, all of
\* them by score, or the best new one of each component.  (One that two
\* components hit stands at its better place: the other never takes a seat.)
OperandHits ==
  IF query.components = 0 \/ TopK = 1 THEN {<< >>}
  ELSE {hits \in Lists : query.compare => Len(hits) <= query.components}

\* session_results: score 1.0 / (rank + 1), then the filters.
FindOperands ==
  /\ stage = "operands"
  /\ \E hits \in OperandHits :
       operands' = Shown([order |-> hits, score |-> Boosted(<< >>, hits, <<1, 1>>, 1)])
  /\ Goto("interleave")
  /\ UNCHANGED <<request, round, results, rankings, chain, local>>

\* A mutant of Distinct: nothing is remembered as seen.
NotDistinct(list) == list

\* A list without what occurs in it a second time.
Distinct(list) ==
  LET first == Sort({i \in DOMAIN list : \A j \in 1 .. i - 1 : list[j] # list[i]}, <)
  IN  [i \in DOMAIN first |-> list[first[i]]]

\* A mutant of Seated: the reserved seats come last.
SeatedLast(lead, seats, rest) == Distinct(lead \o rest \o seats)

Seated(lead, seats, rest) == Distinct(lead \o seats \o rest)

\* _interleave_session_vector_hits.
InterleaveOperands ==
  LET lead  == IF query.compare THEN << >> ELSE Cut(results.order, 1)
      seats == Cut(operands.order, IF query.compare THEN 2 ELSE 1)
      order == IF operands.order = << >> THEN Cut(results.order, TopK)
               ELSE Cut(Seated(lead, seats, results.order), TopK) IN
  /\ stage = "interleave"
  /\ results' =
       [order |-> order,
        score |-> [m \in Range(order) |->
                     IF m \in Range(seats) \ Range(lead) THEN operands.score[m]
                                                         ELSE results.score[m]]]
  /\ Goto("answered")
  /\ UNCHANGED <<request, round, rankings, chain, operands, local>>

----------------------------------------------------------------------------

Init ==
  /\ log \in Log /\ hidden \in {h \in SUBSET Message : Cardinality(h) <= Hideable}
  /\ query \in Query /\ pipeline \in {"lexical", "expanded", "hybrid"}
  /\ stage = "match" /\ round = 1
  /\ results = Nothing /\ local = Nothing /\ operands = Nothing
  /\ rankings = NoRankings /\ chain = {}

Next ==
  \/ Match \/ MatchTwice \/ FuseRoutes
  \/ ExpandQueryFacets \/ ExpandStateChain \/ ExpandIntentTags
  \/ ExpandEntityBridges \/ ExpandRelationGraph \/ ExpandNeighbors
  \/ Connect \/ FuseSearches \/ FindOperands \/ InterleaveOperands

Spec == Init /\ [][Next]_vars

----------------------------------------------------------------------------
(* Properties *)

\* What is ranked: each message once, with a score.
IsRanking(r) ==
  /\ r.order \in Lists
  /\ DOMAIN r.score = Range(r.order)

Stages == {"match", "fuse", "facets", "chain", "tags", "bridges", "graph",
           "neighbors", "connect", "operands", "interleave", "answered"}

TypeOK ==
  /\ log \in Log /\ hidden \subseteq Message /\ chain \subseteq Message
  /\ query \in Query /\ pipeline \in {"lexical", "expanded", "hybrid"}
  /\ stage \in Stages /\ round \in 1 .. 2
  /\ IsRanking(results) /\ IsRanking(operands) /\ IsRanking(local)
  /\ rankings \in Lists \X Lists

\* "History questions return the ... chain in source time order", and the
\* current state newest first: facets before the chain, graph and neighbors
\* after it add messages in between, but do not change the order of the
\* chain.  (Tags do, and a fusion does.)
StateInOrder ==
  /\ WantsState /\ query.intents = {}
  /\ \/ stage \in {"tags", "bridges", "graph", "neighbors", "connect", "operands"}
     \/ stage = "answered" /\ pipeline = "lexical"
  => \A a, b \in chain \cap Ids(results) :
       Before(results.order, a, b) =>
         /\ ~Timed(b, a)
         /\ IF query.history THEN ~Happened(b, a) ELSE ~Happened(a, b)

\* As good in both routes and better in one: first in the fusion.
Better(a, b) ==
  LET Place(list, m) == IF m \in Range(list) THEN Rank(list, m) ELSE Size + 1 IN
  /\ \A i \in 1 .. 2 : Place(rankings[i], a) <= Place(rankings[i], b)
  /\ \E i \in 1 .. 2 : Place(rankings[i], a) < Place(rankings[i], b)

\* Fusion respects what both rankings agree on, and the cut to top_k takes
\* nothing out that is better than what it leaves.
FusionRespectsBoth ==
  [][stage = "fuse" =>
       \A a \in Range(rankings[1]) \cup Range(rankings[2]), b \in Ids(results') :
         Better(a, b) => a \in Ids(results') /\ Before(results'.order, a, b)]_vars

\* "Hybrid keeps exact evidence ahead of vector-only noise": in the fused list
\* no vector hit without shared words comes before, or crowds out, one with
\* them.  (Facets, tags and the seats reserved for sessions come later and may
\* reorder what is answered.)
ExactAheadOfSimilar ==
  [][stage = "fuse" /\ pipeline = "hybrid" =>
       \A a \in Range(rankings[1]), b \in Ids(results') \ Range(rankings[1]) :
         a \in Ids(results') /\ Before(results'.order, a, b)]_vars

\* "Keep the strongest original result first and reserve the next evidence
\* slot": whatever the other routes found, the best session-vector hit is in
\* the first two places, after the strongest result; a comparison has its
\* first two places for both operands.
OperandsSeated ==
  [][stage = "interleave" /\ operands # Nothing =>
       /\ operands.order[1] \in Range(Cut(results'.order, 2))
       /\ ~query.compare /\ results # Nothing => results'.order[1] = results.order[1]
       /\ query.compare => Cut(results'.order, 2) = Cut(operands.order, 2) \/ Len(operands.order) = 1]_vars
=============================================================================
