---------------------------- MODULE LongMemEval ----------------------------
(***************************************************************************)
(* The LongMemEval evaluation: benchmarks/longmemeval.py and the driver    *)
(* scripts/run_longmemeval.py.  Lazy iterators in a row read the dataset   *)
(* chunk by chunk, check and select cases; of each case the driver plans   *)
(* Adds, stores them in an empty memory, searches, and maps what comes     *)
(* back to the turns of the dataset in order to score it.                  *)
(*                                                                         *)
(* The file is a sequence of tokens, spelled out in characters: a chunk    *)
(* may end anywhere.  Of an item only the question id is spelled out; what *)
(* else a case holds comes from the setup.                                 *)
(***************************************************************************)
EXTENDS Integers, Sequences, FiniteSets, SequencesExt

CONSTANTS
  Setup,          \* what may be evaluated: a dataset and the options of a run
  MaxMessages,    \* max_messages of a request
  MaxWords,       \* max_words of a request
  Depth,          \* RETRIEVAL_DEPTH
  Cutoffs,
  Discount,       \* what a hit counts by its rank: 1, and 1/log2(rank) from 2 on
  None

\* Tokens by name: "a" and "b" are items, "cut" is an item without its end.
CaseId == {"a", "b"}
Token == CaseId \cup {"[", "]", ",", " ", "7", "cut"}
Character == {"[", "]", ",", " ", "{", "}", "7", "a", "b"}

ASSUME SizeAssumption ==
  /\ {MaxMessages, MaxWords, Depth} \subseteq Nat \ {0}
  /\ Cutoffs \subseteq Nat \ {0}

ASSUME DiscountAssumption ==
  \A k \in Cutoffs : \A i \in 1 .. k :
    Discount[i] \in Nat /\ \A j \in 1 .. i : Discount[i] <= Discount[j]

\* What parsing leaves of a case.
ParsedTurn == [words : Nat, answer : BOOLEAN]
ParsedSession == [id : STRING, turns : Seq(ParsedTurn)]
IsCase(c) ==
  /\ c.sessions \in Seq(ParsedSession)
  /\ IsFiniteSet(c.answers)

ASSUME SetupAssumption ==
  \A s \in Setup :
    /\ s.tokens \in Seq(Token)
    /\ s.options.chunk \in Nat \ {0}
    /\ s.options.wanted \subseteq CaseId
    /\ s.options.semantic \in BOOLEAN
    /\ {s.options.limit, s.options.perType} \subseteq (Nat \ {0}) \cup {None}
    /\ \A c \in CaseId : IsCase(s.options.cases[c])

ASSUME NoneAssumption == None \notin Character

VARIABLES
  setup,      \* tokens; options: what the cases hold, chunk_size, filters and modes
  rest,       \* what has not been read of the file
  buffer,     \* the text in hand
  position,   \* how much of it is consumed
  eof,
  first,      \* no item has been read yet
  pc,         \* what comes next
  case,       \* the case in hand, or None
  seen,       \* the question ids so far
  selected,   \* the cases selected so far
  stored,     \* the messages in the memory of the case
  sent,       \* how many requests of the plan it has
  records     \* the lines of retrieval.jsonl

parser == <<rest, buffer, position, eof, first>>
memory == <<stored, sent>>
vars == <<setup, parser, pc, case, seen, selected, memory, records>>

----------------------------------------------------------------------------
(* The text of a file *)

Spelling(token) ==
  CASE token \in CaseId -> <<"{", token, "}">>
    [] token = "cut" -> <<"{", "a">>
    [] OTHER -> <<token>>
Text(tokens) == FlattenSeq([i \in DOMAIN tokens |-> Spelling(tokens[i])])

Least(m, n) == IF m < n THEN m ELSE n
FirstOf(s, n) == SubSeq(s, 1, Least(n, Len(s)))
After(s, n) == SubSeq(s, n + 1, Len(s))

----------------------------------------------------------------------------
(* _iter_json_array *)

At(k) == IF k < Len(buffer) THEN buffer[k + 1] ELSE None

\* The position after the blanks.
Skipped(k) ==
  LET next == SelectInSubSeq(buffer, k + 1, Len(buffer), LAMBDA char : char # " ")
  IN IF next = 0 THEN Len(buffer) ELSE next - 1

\* A mutant of Fill: it forgets what is in hand.
FillAnew(k) ==
  /\ ~eof
  /\ buffer' = FirstOf(rest, setup.options.chunk)
  /\ position' = 0
  /\ rest' = After(rest, setup.options.chunk)
  /\ eof' = (rest = <<>>)

\* fill: what is consumed goes, the next chunk comes, none means the end.
Fill(k) ==
  /\ ~eof
  /\ buffer' = After(buffer, k) \o FirstOf(rest, setup.options.chunk)
  /\ position' = 0
  /\ rest' = After(rest, setup.options.chunk)
  /\ eof' = (rest = <<>>)

\* skip_whitespace reads on while nothing else is in hand.
SkipOn ==
  /\ pc \in {"open", "item", "next", "close"}
  /\ Skipped(position) = Len(buffer)
  /\ Fill(Len(buffer))
  /\ UNCHANGED <<setup, first, pc, case, seen, selected, memory, records>>

\* skip_whitespace is over.
Ready(step) ==
  /\ pc = step
  /\ Skipped(position) < Len(buffer) \/ eof

Ahead == At(Skipped(position))

\* What follows consumes the character ahead.
Take(step) == position' = Skipped(position) + 1 /\ pc' = step
Leave(step) == position' = Skipped(position) /\ pc' = step

Open ==
  /\ Ready("open")
  /\ IF Ahead = "[" THEN Take("item") ELSE Leave("failed")
  /\ UNCHANGED <<setup, rest, buffer, eof, first, case, seen, selected, memory, records>>

\* Before an item, or at the end.
Item ==
  /\ Ready("item")
  /\ CASE Ahead = "]" -> Take("close")
       [] Ahead # "]" /\ Ahead # None /\ first -> Leave("decode")
       [] Ahead = "," /\ ~first -> Take("next")
       [] OTHER -> Leave("failed")
  /\ UNCHANGED <<setup, rest, buffer, eof, first, case, seen, selected, memory, records>>

AfterComma ==
  /\ Ready("next")
  /\ Leave(IF Ahead = "]" THEN "failed" ELSE "decode")
  /\ UNCHANGED <<setup, rest, buffer, eof, first, case, seen, selected, memory, records>>

\* raw_decode: an item or a number begins here.
IsItem(k) == At(k) = "{" /\ At(k + 1) \in CaseId /\ At(k + 2) = "}"
IsNumber(k) == At(k) = "7"

\* A mutant of AfterNumber: one character too far.
AfterNumberPast(k) ==
  LET next == SelectInSubSeq(buffer, k + 1, Len(buffer), LAMBDA char : char # "7")
  IN IF next = 0 THEN Len(buffer) + 1 ELSE next

AfterNumber(k) ==
  LET next == SelectInSubSeq(buffer, k + 1, Len(buffer), LAMBDA char : char # "7")
  IN IF next = 0 THEN Len(buffer) ELSE next - 1

\* A value is decoded and yielded, or more is read, or there is no more.
Decode ==
  /\ pc = "decode"
  /\ \/ /\ IsItem(position)
        /\ position' = position + 3
        /\ case' = At(position + 1)
        /\ first' = FALSE /\ pc' = "case"
        /\ UNCHANGED <<rest, buffer, eof>>
     \/ /\ IsNumber(position)
        /\ position' = AfterNumber(position)
        /\ case' = None
        /\ first' = FALSE /\ pc' = "case"
        /\ UNCHANGED <<rest, buffer, eof>>
     \/ /\ ~IsItem(position) /\ ~IsNumber(position)
        /\ Fill(position)
        /\ UNCHANGED <<first, pc, case>>
     \/ /\ ~IsItem(position) /\ ~IsNumber(position) /\ eof
        /\ pc' = "failed"
        /\ UNCHANGED <<parser, case>>
  /\ UNCHANGED <<setup, seen, selected, memory, records>>

\* After the array: nothing, and not an empty dataset, and not an empty
\* selection, for which run_evaluation ends without a summary.
Close ==
  /\ Ready("close")
  /\ Leave(IF Ahead = None /\ seen # {} /\ selected # <<>> THEN "done" ELSE "failed")
  /\ UNCHANGED <<setup, rest, buffer, eof, first, case, seen, selected, memory, records>>

----------------------------------------------------------------------------
(* iter_longmemeval_cases and _selected_cases *)

TypeOf(c) == setup.options.cases[c].type
Reached(limit, number) == limit # None /\ number >= limit
OfType(cases, type) == Cardinality({i \in DOMAIN cases : TypeOf(cases[i]) = type})

\* The filters by id and by type let the next case pass.
Passes(c) ==
  /\ c \in setup.options.wanted
  /\ ~Reached(setup.options.perType, OfType(selected, TypeOf(c)))
Filled == Reached(setup.options.limit, Len(selected))

Receive ==
  /\ pc = "case"
  /\ \/ /\ case = None \/ case \in seen          \* _parse_case, or a duplicate
        /\ pc' = "failed"
        /\ UNCHANGED <<seen, selected>>
     \/ /\ case # None /\ case \notin seen
        /\ seen' = seen \cup {case}
        /\ \/ ~Passes(case) /\ pc' = "item" /\ UNCHANGED selected
           \/ Passes(case) /\ Filled /\ pc' = "done" /\ UNCHANGED selected
           \/ /\ Passes(case) /\ ~Filled
              /\ pc' = "ingest"
              /\ selected' = Append(selected, case)
  /\ stored' = <<>> /\ sent' = 0
  /\ UNCHANGED <<setup, parser, case, records>>

----------------------------------------------------------------------------
(* build_ingestion_plan: turns are <<session index, turn index>> *)

Sessions(c) == setup.options.cases[c].sessions
Turns(c, s) == Sessions(c)[s].turns
Words(c, turn) == Turns(c, turn[1])[turn[2]].words      \* 0 for a blank turn
Spoken(c) ==
  {turn \in UNION {{<<s, k>> : k \in DOMAIN Turns(c, s)} : s \in DOMAIN Sessions(c)} :
     Words(c, turn) > 0}

\* A mutant of Closed: the turn that closes a chunk does not open the next.
ClosedCarrying(acc, turn, words) ==
  [full |-> Append(acc.full, acc.chunk), chunk |-> <<>>, words |-> words]

\* A chunk is closed, the next begins with the turn.
Closed(acc, turn, words) ==
  [full |-> Append(acc.full, acc.chunk), chunk |-> <<turn>>, words |-> words]

\* The chunks of a session after its first turns: the full ones, the one in
\* hand, and the words in that.
Placed(c, s) ==
  LET Place[k \in 0 .. Len(Turns(c, s))] ==
        IF k = 0 THEN [full |-> <<>>, chunk |-> <<>>, words |-> 0]
        ELSE LET acc == Place[k - 1]
                 words == Words(c, <<s, k>>)
             IN IF words = 0 THEN acc
                ELSE IF acc.chunk # <<>>
                          /\ (Len(acc.chunk) >= MaxMessages \/ acc.words + words > MaxWords)
                  THEN Closed(acc, <<s, k>>, words)
                  ELSE [acc EXCEPT !.chunk = Append(@, <<s, k>>), !.words = @ + words]
  IN Place

\* _chunk_session_turns: a chunk that would become too large is closed first.
Chunked(c, s) ==
  LET last == Placed(c, s)[Len(Turns(c, s))]
  IN IF last.chunk = <<>> THEN last.full ELSE Append(last.full, last.chunk)

\* The requests of a case: an id of session and chunk, and the turns in it.
Plan(c) ==
  FlattenSeq([s \in DOMAIN Sessions(c) |->
    [i \in DOMAIN Chunked(c, s) |-> [id |-> <<s, i>>, turns |-> Chunked(c, s)[i]]]])

\* The official name of a turn: the id of its session, which two sessions of a
\* case may share, and its place.
TurnId(c, turn) == <<Sessions(c)[turn[1]].id, turn[2]>>

\* source_bindings, as the dictionary of rank_scored_messages.
Binding(c, request, ordinal) ==
  LET planned == SelectInSeq(Plan(c), LAMBDA r : r.id = request)
  IN TurnId(c, Plan(c)[planned].turns[ordinal])

----------------------------------------------------------------------------
(* run_evaluation: the Adds of a case *)

\* What embed is given when the whole case is embedded at once.
Texts(c) == FlattenSeq([i \in DOMAIN Plan(c) |-> Plan(c)[i].turns])
AtOnce == setup.options.semantic /\ setup.options.ingestion = "benchmark-lexical"

\* A mutant of Offset: every request takes its vectors from the first on.
OffsetZero(c, n) == 0

\* embedding_offset after n requests.
Offset(c, n) == Len(FlattenSeq([i \in 1 .. n |-> Plan(c)[i].turns]))

\* The vector of the message at place i of request n, named by the text it was
\* made from.
Vector(c, n, i) ==
  IF ~setup.options.semantic THEN None
  ELSE IF AtOnce THEN Texts(c)[Offset(c, n - 1) + i]
  ELSE Plan(c)[n].turns[i]

Messages(c, n) ==
  LET r == Plan(c)[n] IN
  [i \in DOMAIN r.turns |->
     [request |-> r.id, ordinal |-> i, session |-> Sessions(c)[r.turns[i][1]].id,
      text |-> r.turns[i], vector |-> Vector(c, n, i)]]

\* A request is stored; a case without text cannot be embedded at once, and
\* ends the evaluation.
Ingest ==
  /\ pc = "ingest"
  /\ \/ /\ AtOnce /\ Texts(case) = <<>>
        /\ pc' = "failed"
        /\ UNCHANGED memory
     \/ /\ sent < Len(Plan(case))
        /\ stored' = stored \o Messages(case, sent + 1)
        /\ sent' = sent + 1
        /\ UNCHANGED pc
     \/ /\ sent = Len(Plan(case)) /\ ~(AtOnce /\ Texts(case) = <<>>)
        /\ pc' = "search"
        /\ UNCHANGED memory
  /\ UNCHANGED <<setup, parser, case, seen, selected, records>>

----------------------------------------------------------------------------
(* Ranking and scoring *)

\* The first occurrence of each.
Once(s) ==
  LET Kept[n \in 0 .. Len(s)] ==
        IF n = 0 THEN <<>>
        ELSE IF Contains(Kept[n - 1], s[n]) THEN Kept[n - 1] ELSE Append(Kept[n - 1], s[n])
  IN Kept[Len(s)]

\* rank_scored_messages
Ranked(c, results) ==
  [turn |-> Once([i \in DOMAIN results |->
                    Binding(c, results[i].request, results[i].ordinal)]),
   session |-> Once([i \in DOMAIN results |-> results[i].session])]

\* answer_turn_ids and answer_session_ids
Correct(c) ==
  [turn |-> {TurnId(c, turn) : turn \in
               {u \in Spoken(c) : Turns(c, u[1])[u[2]].answer}},
   session |-> setup.options.cases[c].answers]

\* _official_dcg of relevances in the order of the ranks.
Gain(relevances) ==
  LET sum[n \in 0 .. Len(relevances)] ==
        IF n = 0 THEN 0 ELSE sum[n - 1] + relevances[n] * Discount[n]
  IN sum[Len(relevances)]

Relevances(top, correct) == [n \in DOMAIN top |-> IF top[n] \in correct THEN 1 ELSE 0]
Ideal(correct, k) == [n \in 1 .. Least(Cardinality(correct), k) |-> 1]

\* A mutant of AtK: an answer counts as recalled wherever it is ranked.
AtKOfFound(ranked, correct, k) ==
  LET top == FirstOf(ranked, k)
  IN [any |-> correct \cap ToSet(top) # {},
      all |-> correct \subseteq ToSet(ranked),
      gain |-> Gain(Relevances(top, correct)),
      ideal |-> Gain(Ideal(correct, k))]

\* _evaluate_at_k; ndcg is gain by ideal, 0 without an ideal gain.
AtK(ranked, correct, k) ==
  LET top == FirstOf(ranked, k)
  IN [any |-> correct \cap ToSet(top) # {},
      all |-> correct \subseteq ToSet(top),
      gain |-> Gain(Relevances(top, correct)),
      ideal |-> Gain(Ideal(correct, k))]

Level == {"turn", "session"}

\* The memory answers with its best messages, the driver scores and records; an
\* abstention has no metrics.
Search ==
  /\ pc = "search"
  /\ \E found \in SUBSET ToSet(stored) :
       /\ Cardinality(found) = Least(Depth, Cardinality(found))
       /\ \E results \in SetToSeqs(found) :
            LET ranked == Ranked(case, results) IN
            records' = Append(records,
              [case |-> case, results |-> results,
               metrics |-> [level \in Level |->
                  [k \in IF setup.options.cases[case].abstention THEN {} ELSE Cutoffs |->
                     AtK(ranked[level], Correct(case)[level], k)]]])
  /\ pc' = "item"
  /\ UNCHANGED <<setup, parser, case, seen, selected, memory>>

----------------------------------------------------------------------------

Init ==
  /\ setup \in Setup
  /\ rest = Text(setup.tokens)
  /\ buffer = <<>> /\ position = 0 /\ eof = FALSE /\ first = TRUE
  /\ pc = "open" /\ case = None
  /\ seen = {} /\ selected = <<>>
  /\ stored = <<>> /\ sent = 0
  /\ records = <<>>

\* The evaluation has returned or raised: nothing happens any more.
Over == pc \in {"done", "failed"} /\ UNCHANGED vars

Next ==
  \/ SkipOn \/ Open \/ Item \/ AfterComma \/ Decode \/ Close
  \/ Receive \/ Ingest \/ Search
  \/ Over

Spec == Init /\ [][Next]_vars

----------------------------------------------------------------------------
(* Properties *)

TypeOK ==
  /\ {rest, buffer} \subseteq Seq(Character)
  /\ position \in 0 .. Len(buffer) /\ {eof, first} \subseteq BOOLEAN
  /\ pc \in {"open", "item", "next", "decode", "close", "case", "ingest", "search",
             "done", "failed"}
  /\ case \in CaseId \cup {None} /\ seen \subseteq CaseId /\ selected \in Seq(CaseId)
  /\ sent \in Nat
  /\ \A i \in DOMAIN records : records[i].case \in CaseId

\* What the places hold of the first elements of a sequence, in order.
Picked(s, places) ==
  LET Pick[n \in 0 .. Len(s)] ==
        IF n = 0 THEN <<>>
        ELSE IF n \in places THEN Append(Pick[n - 1], s[n]) ELSE Pick[n - 1]
  IN Pick

\* The file as one would read it at once: its values until something is wrong,
\* and whether nothing is.
Solids == Picked(setup.tokens, {i \in DOMAIN setup.tokens : setup.tokens[i] # " "})
Solid == Solids[Len(setup.tokens)]
IsValue(token) == token \in CaseId \cup {"7"}
SoundUpTo(n) ==
  \A i \in 1 .. n :
    IF i = 1 THEN Solid[i] = "["
    ELSE IF i % 2 = 0 THEN IsValue(Solid[i]) ELSE Solid[i] = ","
Values ==
  [j \in 1 .. Cardinality({i \in DOMAIN Solid : 2 * i <= Len(Solid) /\ SoundUpTo(2 * i)}) |->
     Solid[2 * j]]
Whole ==
  LET n == Len(Solid) IN
  /\ n > 1 /\ Solid[n] = "]"
  /\ SoundUpTo(n - 1) /\ (n = 2 \/ n % 2 = 1)

\* The cases before the first value that is none or repeats one, and of these
\* the ones that the filters let pass.
Cases ==
  SubSeq(Values, 1, Cardinality({n \in DOMAIN Values :
    \A j \in 1 .. n : Values[j] \in CaseId /\ \A i \in 1 .. j - 1 : Values[i] # Values[j]}))
Asked(type, n) ==
  {j \in 1 .. n : Cases[j] \in setup.options.wanted /\ TypeOf(Cases[j]) = type}
PassingAt ==
  {i \in DOMAIN Cases :
     /\ Cases[i] \in setup.options.wanted
     /\ ~Reached(setup.options.perType, Cardinality(Asked(TypeOf(Cases[i]), i - 1)))}
Passing == Picked(Cases, PassingAt)[Len(Cases)]

\* What should be evaluated, and what has been.
Stops == setup.options.limit # None /\ Len(Passing) > setup.options.limit
Chosen == IF Stops THEN SubSeq(Passing, 1, setup.options.limit) ELSE Passing
Textless(c) == AtOnce /\ Spoken(c) = {}
Flawless == Stops \/ (Whole /\ Cases = Values)
Recorded == [i \in DOMAIN records |-> records[i].case]

\* Where a chunk ends makes no difference: the cases evaluated, and whether the
\* evaluation ends well, are what the file as a whole and the filters say.  An
\* error behind the case that shows that the limit is reached is not seen.
ChunkingInvisible ==
  LET refused == {i \in DOMAIN Chosen : Textless(Chosen[i])} IN
  /\ pc = "done" => Flawless /\ refused = {} /\ Chosen # <<>> /\ Recorded = Chosen
  /\ pc = "failed" =>
       IF refused # {} THEN Len(Recorded) + 1 \in refused /\ IsPrefix(Recorded, Chosen)
       ELSE ~(Flawless /\ Chosen # <<>>) /\ Recorded = Chosen

\* Before the search every turn with text is stored exactly once, under a
\* request and place that lead back to its official name, with its own vector,
\* in requests that keep the limits (but for a turn that alone is too long).
StoredAsPlanned ==
  pc = "search" =>
    /\ Len(stored) = Cardinality(Spoken(case))
    /\ {stored[i].text : i \in DOMAIN stored} = Spoken(case)
    /\ \A i \in DOMAIN stored :
         LET m == stored[i]
             together == {j \in DOMAIN stored : stored[j].request = m.request} IN
         /\ Binding(case, m.request, m.ordinal) = TurnId(case, m.text)
         /\ \A j \in together : stored[j].ordinal = m.ordinal => i = j
         /\ setup.options.semantic => m.vector = m.text
         /\ Cardinality(together) <= MaxMessages
         /\ \/ together = {i}
            \/ SumFunctionOnSet([turn \in Spoken(case) |-> Words(case, turn)],
                                {stored[j].text : j \in together}) <= MaxWords

\* What the metrics say is so in the results: an answer counts as recalled at k
\* if fewer than k other names come before it; no ranking gains more than the
\* ideal one, and a larger cutoff finds no less; an answer session is found
\* when one of its turns is.
MetricsSound ==
  \A n \in DOMAIN records :
    LET r == records[n]
        Name(level, i) == IF level = "session" THEN r.results[i].session
                          ELSE TurnId(r.case, r.results[i].text)
        Recalled(level, id, k) ==
          \E i \in DOMAIN r.results :
            /\ Name(level, i) = id
            /\ Cardinality({Name(level, j) : j \in 1 .. i - 1} \ {id}) < k
    IN \A level \in Level : \A k \in DOMAIN r.metrics[level] :
         LET m == r.metrics[level][k]
             correct == Correct(r.case)[level] IN
         /\ m.any <=> \E id \in correct : Recalled(level, id, k)
         /\ m.all <=> \A id \in correct : Recalled(level, id, k)
         /\ m.gain <= m.ideal
         /\ \A larger \in {l \in Cutoffs : l >= k} :
              /\ m.any => r.metrics[level][larger].any
              /\ m.all => r.metrics[level][larger].all
         /\ \A id \in Correct(r.case).turn :
              Recalled("turn", id, k) => Recalled("session", id[1], k)
=============================================================================
