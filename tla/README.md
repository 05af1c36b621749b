# Formal models of the AML memory service

TLA+ specifications of the memory service in `src/aml_memory`, checked with TLC
and proved with TLAPS. The service stores chat messages per user in one SQLite
file (`POST /v1/memories/add`), finds them again (`/search`), and can use remote
models for enrichment, query expansion and embeddings.

## The system

| Component | State | Operations | What makes it correct |
|---|---|---|---|
| Add path: `app.add_memory`, `service.MemoryService.add`, `store.MemoryStore.add` | SQLite tables, WAL, one write lock | look up without lock, providers, `BEGIN IMMEDIATE`, look up again, rows per message, vectors, commit or rollback | idempotent per request id, whole or nothing, success only after commit, always answers |
| Evaluation provider: `enrichment.py` | failure count, circuit deadline | check, attempts, record success or failure | bounded pressure on a failing provider, recovery |
| Connection registry: `connections.py` | map of records with deadlines, in memory | add, resolve, describe, delete, purge | no revival, sliding expiry |
| State governance: linkers of `store.py`, `state.py` | `state_relations`, `message_facets` | explicit and structured links in the Add transaction; forgotten closure | chains per user, source-time order, forgetting is final |
| Retrieval: `retrieval.py` | none; reads many snapshots | hits, facets, chain, tags, bridges, graph, filters, neighbors, fusion | own messages only, hidden stays out, chains told whole and in order, the best evidence inside `top_k` |
| Store start-up: `MemoryStore.initialize` | schema, migration keys | create tables, four backfills, one commit | no message without its index row, recorded backfills complete, pronouns resolved within a session, a refused start is harmless |
| Text analysis, tags, lexical terms | none | regular expressions | what they find is an input of the models |
| Embedders, query expander clients | lazy backend | remote or local calls | a call that succeeds or fails |
| App, schemas, auth, formatting, config, preflight, metrics | none | routing, validation, start-up checks | not modelled: sequential, no state of their own |
| Playground page: `demo.html` | run, conversation, results, buttons, connection; session and local storage | load, note, search, fresh start, connect, disconnect, restore, reload | what is shown is stored, a story can be resumed, runs do not mix, what is cleared stays cleared |
| LongMemEval: `benchmarks/longmemeval.py`, `scripts/run_longmemeval.py` | a file in chunks, one memory per case, records | parse lazily, check, select, chunk, store, search, score | chunks make no difference, every turn stored once as itself, metrics that say what was found |
| Other `scripts/` | files | start the service, run challenges, report | not modelled: sequential drivers |

Handlers run in threads. They share the registry and the provider client (each
under its own lock) and, with the other processes on the same file, the SQLite
write lock. An Add is one write transaction. A Search is many SELECTs, each
with its own snapshot. Nothing of the registry and the circuit survives
a restart; the file does. The page talks to the service by requests that may be
lost on either way, and names a connection of the registry in them; its handlers
share the state of the page and interleave at every `await`. The evaluation drives
the service as a library, one case at a time.

Hard behaviours: two look-ups with slow provider calls in between; retries and
lost answers; crashes at any statement; late outcomes at the circuit breaker;
clock readings taken before the lock; searches that read while Adds commit; Adds
that arrive in another order than things happened; handlers of the page that go on
in a run or with a connection that is no longer theirs; values cut by the end of a
chunk. `PROJECT.json` lists each at its line under `hazards`, with the property that
covers it or why none does.

## Modules

| Module | Models | State in the code |
|---|---|---|
| `IdempotentAdd` | what an Add promises, without database or threads | |
| `MemoryAdd` | the Add path; implements `IdempotentAdd` | `db`: the tables grouped by request id (every row an Add writes belongs to its own request: ids are derived from it); `draft`, `writer`: the open transaction and the write lock; `pc`, `call`, `ordinal`: a handler's place |
| `EvaluationCircuit` | breaker and attempt loop | `failures` and `opened`/`left`: `_consecutive_failures`, `_circuit_open_until` as ticks to go |
| `ConnectionRegistry` | registry, its handlers, restart | `expiry`: `expires_at_monotonic` by id; `seen`: the clock as a call read it |
| `StateGovernance` | linkers and forgetting | `memory`: messages by `sequence`; `supersedes`: `state_relations` |
| `Migration` | start-up of several processes on one file beside Adds, over `StateGovernance` (EXTENDS) | `tables`: committed rows other than messages; `draft`, `writer`: the transaction that the first write opens, and the lock; `todo`, `read`: a process's place in `initialize` and the messages it has fetched |
| `StateRecall` | the pipelines over `StateGovernance` (EXTENDS) | `found`, `frontier`, `local`, `aside`: local variables of a search |
| `Ranking` | scores, sorts, fusions and cuts of the three pipelines | `results`: the list of `ScoredMessage`, as order and scores; `rankings`: the two lists to be fused; `operands`: `session_vector_hits` |
| `Playground` | the page, cut at its awaits, with the service as it sees it | `run`, `loaded`, `sequence`, `shown`: `state.runId`, `storyLoaded`, `customSequence`, `conversations`; `conn`, `meta`, `saved` and the storages `session`, `kept`; `request`, `header`, `status`: the call a handler awaits; `stray`: Adds the page has given up |
| `LongMemEval` | parser, selection, chunking, Adds, ranking and metrics of the evaluation | `rest`, `buffer`, `position`, `eof`, `first`: `_iter_json_array`; `seen`, `selected`: the generators around it; `stored`, `sent`, `records`: a case in `run_evaluation` |
| `MC*` | TLC instances | |
| `*Proofs` | TLAPS proofs | |

Composition: `MemoryAdd` shows that an Add becomes visible by one commit
(`CommittedWhole`, `Linearizable`). `StateGovernance` builds on that: a committed
message with its relations is one step. (A request of several messages commits
them together; committing them one by one gives a search more interleavings, and
the linkers see earlier messages of their own request either way.) `StateRecall`
runs a search over it, one read at a time. `Ranking` is the other half of a search:
what `StateRecall` leaves open, over a memory at rest. `Migration` runs the backfills over
it, and takes the file as any older release can have left it. `Playground` sees of
the Add path what `IdempotentAdd` promises and of the registry that connections come
and go; `LongMemEval` sees a memory that stores what it is given and answers with
any of it in any order.

Abstractions worth knowing:

- `MemoryAdd`: payload hashes do not collide; the rows of a message are its
  message row, its FTS count, "derived" (tags, facets, relations) and its
  vector. `add_benchmark_lexical` is the same transaction without derived rows
  and without the first look-up (`raw`). The user is part of the payload, as it is
  of the hash: request ids are looked up without it, so an id that another user has
  taken is a conflict.
- `EvaluationCircuit`: time is the ticks left to the deadline, the only thing the
  code compares. `late` is a history variable.
- `ConnectionRegistry`: the read of the clock and the lock section are two steps.
  `lastUse` is a history variable. Random ids are never drawn twice.
- `StateGovernance`: a message is what the linkers read of it (terms, update
  wording, facets). The linkers' limit of 100 candidates and the chain limit (at
  least 20 messages) are not reached (`MaxMessages` is below 20, by assumption).
- `Migration`: creating the schema has no effect but empty tables. What no other
  process can see before the commit is one step: the rows of one backfill, and an
  Add as a whole. What a *text* names is abstract, but the facets of a message depend
  on the batch it is analysed in (`Facets`): its request when it is added (`Serve`,
  requests of several messages), all messages of its user and session in the backfill
  (`Analysed`), so that a pronoun of a later request can get a facet from the backfill
  that its Add does not write. Adds also write what the evaluation provider found
  (`Enrichment`), which the backfill never does. An older release may have written
  either (`LeftFacets`); if it recorded relations, it recorded facets. Facet kinds that
  no linker reads are left out, and so is what `INSERT OR IGNORE` does to the confidence
  of a row that is there (a file has facet rows before the backfill only if the key is
  recorded meanwhile, and then the backfill is not committed). The limit of 20 messages
  per anchor is not reached. Adds of the benchmark path, which leave no tags and facets on
  purpose, are left out.
- `Ranking`: a look-up returns any messages in any order, but for the tagged ones,
  which come by time; the filters take out any fixed set. Scores are exact
  fractions. The code has floats, which may order *equal* scores reached by
  different sums otherwise than by the tie rule; no property rests on a tie.
  Reasons are left out.
- `StateRecall`: which messages a look-up matches and how results rank is left
  open (any subset of the user's own; any `k` of more than `k` results). That is
  more than the code does, so the safety properties carry over. A search that
  fails (provider error, HTTP 503) writes nothing and is left out. Reads
  in a row are one step when any result they can give apart they can give
  together at the time of the last (the messages found can only become more).
- `Playground`: a request is its user (the run), its kind, its number and its text,
  which is one for an entry of the story and new for every attempt at a note (it
  holds the time). Results are the user they belong to. Run ids, which are random,
  never repeat. The DELETEs the page sends without caring for the answer are
  connections that end at any time, as by expiry or restart. Clicks and connections
  are counted to bound the runs (`MaxClicks`, `MaxConn`). Labels, layout and the
  health indicator are left out.
- `LongMemEval`: of an item of the file only the question id is spelled out in
  characters; the fields of a case come from the setup, and a wrong field is one of
  the ways a value can be refused. A turn is its number of words (0: blank) and
  whether it holds an answer. The embedder names a vector by the text it was made
  from. What a hit counts by its rank, `1/log2`, is the constant
  `Discount` (in the run in thousandths); the theorems need only that it does not
  grow. Means, latencies and the report are left out; `Over` is the stutter of an
  evaluation that has returned or failed, and lets TLC look for deadlocks before that.

## Runs

| Run | Question | Instance |
|---|---|---|
| `add` | safety, refinement and liveness of the Add path | 2 handlers, 1 request id, payloads of 1 and 2 messages, 2 embedding models, fair |
| `circuit` | agreement and bounds of the breaker; does the cooldown end, does the circuit recover | 3 callers, threshold 2, cooldown 2, 2 attempts, fair |
| `circuit_503` | *violation*: are all provider failures answered 503 | 2 callers |
| `registry` | revival, freshness, early drops | 2 calls, 2 ids, TTL 2, clock to 5 |
| `recall` | isolation, forgetting and chains while Adds commit | 3 messages out of 7 kinds of two users sharing a session, 2 kinds of query, 3 pipelines |
| `recall_cancelled` | *violation*: do cancelled memories stay out of ordinary recall | 2 messages |
| `recall_order` | *violation*: does a late Add supersede what happened later | 2 messages |
| `migration` | what start-ups leave behind while others start, serve, fail and crash; are they ever done | 2 processes; messages of 3 kinds of two users with one session id, two of them with pronouns; up to 2 old ones under any of the 12 sets of keys, analysed in any batches; requests up to 3 messages in all, one possible enrichment, fair |
| `ranking` | do scores, sorts, fusions and cuts keep what the stages promise each other | 3 messages, one of them without a time, 2 histories, at most 1 hidden, 4 kinds of query, 3 pipelines, `top_k` 2; a lexical limit as configured, a vector limit by default |
| `playground` | what overlapping handlers show, resume, mix and bring back | 2 loads, a note, a search, a connecting and a restoring at once; a story of 3 entries, 3 clicks, 3 connections |
| `playground_disconnect` | *violation*: does a disconnect clear connection and key | the same with a story of 1 entry and 2 clicks |
| `longmemeval` | does the end of a chunk matter, are turns stored as planned, are the metrics sound | all files of up to 4 tokens of 8 kinds and one of 9 tokens with up to 2 replaced, chunks of 1, 2 and 20 characters, 5 filters; all cases of 3 turns in one or two sessions (of one id or two), 4 modes; 3 results, cutoffs 1 and 2 |

Why the bounds are enough. Handlers of different request ids meet only at the
write lock, and two handlers of one id are the smallest number that can race
between the two look-ups; two messages give a transaction a middle. Three callers
and a threshold of two let the circuit open while a third request is in flight. A
clock of more than two lifetimes lets a call wait for the lock longer than a
connection lives. Three messages give a chain of two relations, all
that `ChainDepth` of the instance (2; 8 in the code) follows, and room for a forget, what it
hides and a bystander. Two processes are enough for one to read, the other to
commit, and the first to write what it has read; the third message is the one that
is added in between, or the pronoun of another user behind two messages. Three messages and `top_k` 2 give a cut something to lose and
a third message that can come between two; the histories put sequence and time
at odds. The weight of the vector route is that of the code, not scaled: up to rank
549 a lexical hit outscores every vector-only hit in the fusion, and `ExactEvidenceFirst` below
proves it for every limit up to that. Three clicks are a load, what overtakes
it and one thing more; two loads of a story of three entries can lose an answer each
and meet in the middle. Of three connections one is there at the start, one is made
before and one after a disconnect. A chunk of one character ends everywhere, one of two inside
an item of three. Three turns and at most two messages and three words in a request let
either limit close a chunk, and leave a rest. The theorems below hold for every value.

Fairness. `MemoryAdd!FairSpec`: each handler thread keeps running; provider calls
have timeouts and the lock wait has `busy_timeout`, so a step of an unfinished
call is always possible (`CallsReturn`: every call returns, and without the lock). `EvaluationCircuit!FairSpec`: threads run and time
passes. Callers are not obliged to ask, nor the provider to be healthy: `Recovers`
assumes both. The page and the evaluation are checked for safety only: nothing
obliges a user to click or a service to answer. `Migration!FairSpec`: processes run, the lock wait ends (by
`busy_timeout`), and a process that is down or whose start failed is started
again, which is the operator's or supervisor's part; `MigrationCompletes` assumes
that from some time on nothing fails or crashes.

### What the violation runs show

- `circuit_503`: exceptions such as `RemoteDisconnected` or `ConnectionResetError`
  while the response is read match no `except` clause: HTTP 500 where the README
  promises a sanitized 503, no retry, and no failure counted by the breaker.
- `recall_cancelled`: the filters hide what a *forget* supersedes and nothing else;
  the README says that cancelled memories stay out of ordinary recall, too.
- `recall_order`: `_link_structured_state_update` ranks candidates by score and
  sequence. When Adds arrive out of order, an old *forget* hides a plan made
  after it. The explicit linker has the check (`ExplicitUpdatesForward`, a theorem).
- `playground_disconnect`: "Disconnect and clear key" forgets what there is, but does
  not stop a connection that is being made. When its answer comes, the connection and
  the saved key are back. The button is enabled meanwhile if there was a connection
  before. `ClearedStaysCleared` says that this race is the only way.

A limit that no document excludes: query expansion joins two searches made at
different moments and does not filter the union, so it may show a message beside
a newer one although it was forgotten between the two. `NeverBehindItself` is
therefore stated for the lexical and the hybrid pipeline; `HiddenStaysOut` holds
for all three. The design document says that an *unambiguous* entity is carried across
*adjacent* messages for a pronoun; for a person `analyze_batch` takes the first one of the last
message that names any, however many it names and however far back
(`analysis.py:296-299`). No run states that; what is checked is that it stays in the
session (`CarriedWithinSession`). Nor does a document say what a page shows while it goes on: a GET for the
connection of the last page that fails after the user has made a new one forgets the
new one, and of two searches the later answer is shown (`TimelineOwn` says only whose
results they are).

## Proofs

Every theorem is checked by `tlapm` for every value of the constants, from the
named assumptions of the modules only.

- `MemoryAddProofs`: the inductive invariant says of each handler what the draft
  holds at its step: all rows before `ordinal`, of the payload of its call, and
  what lies in the row it is writing. It is needed because `CommittedWhole` says
  nothing of the draft that the commit publishes. From it follow `TypeCorrect`,
  `AddIsAtomic`, `AckedIsRecorded`, `CommittedIsKept`, and step by step the
  refinement `AddKeepsPromise`.
- `EvaluationCircuitProofs`: `OpenIffThreshold` is inductive once the deadline is
  tied to `opened`; `OverrunBounded` counts the callers in flight and uses
  finiteness of `Caller`. For `LateRequestsBounded` the invariant adds to the requests
  since the opening the attempts that callers have left (`Left`): the failure that
  opens the circuit leaves those of the others, each request spends one, and nobody
  is let in who does not close it.
- `ConnectionRegistryProofs`: deadlines never lie more than TTL past the newest
  use, and records exist only of ids that were handed out. The three action
  properties follow.
- `StateRecallProofs`: all six properties of the `recall` run, and that chains never
  cross users and explicit updates never go backwards in time. What is hidden
  from a reader and what a story reaches depend on the prefix of the memory he
  has seen, an Add leaves earlier prefixes as they are, and what is hidden only
  grows with the prefix (`EverythingGrows`, by minimality of the closure and
  because relations point backwards). The invariant then says at each step which
  filter has been applied up to which prefix (`HiddenKept`) and where the story
  is (`OwedKept`): without it `HiddenStaysOut` says nothing before the answer is
  complete. Halfway through `list_state_chain` it says what the reads so far have
  reached (`ChainKept`), although Adds commit between them. Paths of any length
  are met by induction in the form of the least length at which a claim fails
  (`LeastElement`, from the well-foundedness of `<`), so the theorems hold for
  every `ChainDepth`.
- `MigrationProofs`: the five invariants of the `migration` run. A process may
  read the messages before it holds the lock, so it may write from a stale read.
  The invariant says why that is harmless: a draft which lacks the rows of a
  message already holds, or another process has committed, the very key its writer
  is about to insert, and the primary key refuses it. The Adds in between come
  from a process that serves, hence after a commit with all keys. `GrownLinks` says
  that an Add extends the links of a log by those of its own messages and
  `ReadableWhole` that the linkers see the whole log when its index rows are
  there. `FacetsFit` holds of a batch that begins anywhere: its facets hold what the text
  holds, and what they inherit comes from who was named last in the session. So
  `BackfillsComplete` and `PronounsStayInSession` speak of the facets as they are stored,
  whoever has written them. They do not say that the backfill writes what Adds would
  have written, which is not so.

- `PlaygroundProofs`: the five properties of the `playground` run, for any number of
  handlers, entries and clicks. What is shown was accepted, and the invariant keeps
  between the two that what is accepted is stored (`AcceptedStored`), whichever
  request that was. Requests for one entry of the story are equal whenever they are
  sent (`StoryIsConstant`), so a stored one fits. A request in flight is of the run of
  now or was overtaken by the last fresh start (`OwnOrOvertaken`), and a load has shown
  every entry before the one it is at (`LoadShown`), whatever other loads do. Nothing
  is being connected after a disconnect that met nothing (`CleanBlank`).

- `RankingProofs`: the five properties of the `ranking` run, for any number of
  messages, any limits and any set of hidden messages. Three layers. *Fractions*: `Gcd`
  returns the greatest common divisor (`EuclidStep` keeps the common divisors), so
  `Fraction` loses nothing, and sums and quotients keep the order of what they are made
  from. *Lists*: a strict total order sorts every finite set in exactly one way; filters,
  cuts and joins leave the order of what they leave. *Stages*: `ChainStaysInOrder` is
  not inductive by itself, because graph and neighbors sort by score again; the
  invariant says that from the stage that sorts the chain on the scores follow time
  (`ScoredInTime`), so a sort by score cannot tear it apart. `FusionAgrees`
  compares sums term by term. `ExactEvidenceFirst` is about the fused list; facets, tags
  and the seats reserved for sessions come after it, and may put a vector-only message
  ahead of lexical hits in the answer. It has a hypothesis, fewer than
  550 lexical candidates: a lexical hit at rank r gives 1/(60+r), a vector-only hit
  at most (1/10)/61. The default limits are at most 400 and the profile's is
  400 (`config.py:22`); `config.py:41` accepts larger ones, for which the promise fails
  from rank 550 on.

- `LongMemEvalProofs`: the four properties of the `longmemeval` run, for any
  datasets, chunk sizes, filters, request limits, depth and cutoffs, from what the module
  assumes: cases are lists of sessions of turns, `limit` and `per_type_limit` are
  positive when given (`run_longmemeval.py:229-232` refuses others), and `Discount`
  does not grow up to a cutoff. `TypeCorrect`: the reader never leaves the text in hand, wherever a chunk
  ends. `EveryTurnStored` says something of the memory only before the search, so the
  invariant says it throughout (`InHand`): the memory holds what the first `sent`
  requests of the plan make, no more. The rest is about the plan. A session is
  chunked turn by turn, and `Tidy` is what each turn keeps: the chunks hold the
  spoken turns so far, each once, within the limits. Joined lists keep their
  members, each at its offset (`FlattenPlaces`): so a request and a place name one message
  (`BindingOf`), and the vector taken at an offset is that of the turn (`OwnVector`). `RecordsSound` judges each record when it is
  written (`Sound`) and needs that the results are what the memory holds: the name found
  through `Binding` is the official one because all was stored as planned. A name
  is among the first k of a ranking exactly when fewer than k other names come before
  its first occurrence (`OnceRanks`), and relevances that count as often gain most when they
  come first (`GainBounded`).

  `ChunksInvisible` compares the parser, character by character, with a reading of the
  whole file by tokens. Its invariant `Following` has three parts. `Aligned`: the text
  in hand and the rest are what follows in the file at `Start`, which is true of every
  refill, whatever its size. `InFile`: the place the parser stands at is the border of a
  token, with so many solid tokens behind it before each kind of step (`ReadOf`; before
  a decoding there may be white space to come, `Facing`), and these are sound. So a step
  that sees the end of the text in hand and asks for more stays where it is, and one
  that goes on passes one token. `Received`: the first c cases of the file have been
  received, and those that the filters let pass are selected (`SameReached` shows that
  counting the selected cases of a type, as the code does, is counting the cases asked
  for, as the property does). It remains to be shown that each end is the right one:
  the file closed (`AllReceived`), wrong or cut short (`NotWhole`, `NoMoreValues`), the
  limit reached (`LimitReached`), or a case without text (`CaseRefused`).
  Recursive functions are met as everywhere here: what their first value has and
  every step keeps, all have (`Stepwise`).

The recursive functions among the operators (`Gcd`, `Tag`, `Placed`, `Once`, `Gain`,
`Picked`) and
the folds of the library that the modules use are shown to be well-defined by the
least argument at which a claim fails.

Every invariant and every action property that a passing run checks is thus a theorem.
Only model-checked are the liveness properties `CallsReturn`, `CooldownEnds`, `Recovers`
and `MigrationCompletes`, which rest on fairness and are out of the prover's reach, and
what the runs that expect a violation show.

## Not modelled

- *Text analysis, tags, lexical terms.* Regular expressions and word lists, without
  state. The models take what they find as an input, any of it. Hence State governance
  and Retrieval are modelled in part: which texts match, and which words make an update,
  is open.
- *Prompts and structured output of the evaluation provider.* Building the request and
  validating the answer: an answer is valid or it is not.
- *Embedders.* A call that succeeds or fails; how vectors are computed is external. The
  lazy backend of the local one is one field, checked before and after its lock.
- *HTTP application, schemas, authentication, formatting.* Routing and validation without
  state of their own. The handlers that change state are in the components above.
- *Configuration, preflight, metrics.* Start-up checks and measurement, sequential.
- *Scripts but `run_longmemeval.py`.* Sequential drivers that start the service, send
  prepared requests and print reports.
- *The cut of `list_state_chain`* (`sorted(seen)[:limit]`, by id and so by hash): the
  limit is at least 20 messages of one chain. `StateRecall` assumes fewer; a chain that
  long loses arbitrary members, and no document says which should stay.
- *What the page shows of a connection* while its metadata belong to another.
