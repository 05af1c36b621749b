----------------------------- MODULE MemoryAdd -----------------------------
(***************************************************************************)
(* The Add path of the memory service: MemoryService.add (service.py) and  *)
(* the write transaction of MemoryStore (store.py), run by concurrent      *)
(* handler threads over one SQLite database file.                          *)
(*                                                                         *)
(* A handler first looks the request id up without a lock, then calls the  *)
(* providers, then opens BEGIN IMMEDIATE, looks the id up again and writes *)
(* one row group per message.  Every row an Add writes belongs to its own  *)
(* request id (message ids are derived from it, relations start at its     *)
(* messages), so the tables are grouped here by request id: the database   *)
(* maps an id to its entry, and the open transaction is a draft of one     *)
(* entry.  Payload hashes are taken to be collision free.                  *)
(***************************************************************************)
EXTENDS Integers, FiniteSets

CONSTANTS
  Worker,     \* handler threads of the processes that share the file
  RequestId,  \* request ids
  Payload,    \* user, session and messages of a request: what is hashed
  Size,       \* Size[p]: number of messages of p
  MaxSize,    \* bound on Size
  Model,      \* embedding spaces (provider, base URL, model name)
  None        \* absent value

ASSUME SizeAssumption == MaxSize \in Nat \ {0} /\ Size \in [Payload -> 1 .. MaxSize]
ASSUME NoneAssumption == None \notin Payload \cup Model \cup Worker

VARIABLES
  db,         \* db[i]: the committed rows of request id i
  draft,      \* the writer's uncommitted rows of its request id
  writer,     \* the worker that holds the SQLite write lock, or None
  pc,         \* pc[w]: the next step of w
  call,       \* call[w]: the request w handles, or None
  ordinal,    \* ordinal[w]: the message w is writing
  acked       \* <<id, payload>> of every call answered with success

vars == <<db, draft, writer, pc, call, ordinal, acked>>

Ordinal == 0 .. MaxSize - 1
Rows(p) == 0 .. Size[p] - 1

(***************************************************************************)
(* The rows of one request id: its add_requests row, and per ordinal the   *)
(* messages row, the number of messages_fts rows (FTS5 has no unique key), *)
(* the tags, facets and relations, and the vector.                         *)
(***************************************************************************)
Entry ==
  [ payload  : Payload \cup {None},
    messages : [Ordinal -> Payload \cup {None}],
    index    : [Ordinal -> Nat],
    derived  : SUBSET Ordinal,
    vectors  : [Ordinal -> Model \cup {None}] ]

EmptyEntry ==
  [ payload  |-> None,
    messages |-> [n \in Ordinal |-> None],
    index    |-> [n \in Ordinal |-> 0],
    derived  |-> {},
    vectors  |-> [n \in Ordinal |-> None] ]

(***************************************************************************)
(* A call: the request, the embedder of the service that handles it (None  *)
(* in lexical mode), whether that service enriches, and whether the        *)
(* benchmark script calls add_benchmark_lexical on the store instead.      *)
(***************************************************************************)
Call ==
  { c \in [ id : RequestId, payload : Payload, model : Model \cup {None},
            enriched : BOOLEAN, raw : BOOLEAN ] : ~(c.enriched /\ c.raw) }

Transaction == {"resolve", "message", "index", "derive", "vectors", "commit"}
Answers     == {"ok", "conflict", "unavailable", "failed"}
Steps       == {"idle", "find", "enrich", "embed", "lock"} \cup Transaction \cup Answers

TypeOK ==
  /\ db \in [RequestId -> Entry]
  /\ draft \in Entry
  /\ writer \in Worker \cup {None}
  /\ pc \in [Worker -> Steps]
  /\ call \in [Worker -> Call \cup {None}]
  /\ \A w \in Worker : pc[w] # "idle" => call[w] \in Call
  /\ ordinal \in [Worker -> Ordinal]
  /\ acked \in SUBSET (RequestId \X Payload)

Init ==
  /\ db = [i \in RequestId |-> EmptyEntry]
  /\ draft = EmptyEntry
  /\ writer = None
  /\ pc = [w \in Worker |-> "idle"]
  /\ call = [w \in Worker |-> None]
  /\ ordinal = [w \in Worker |-> 0]
  /\ acked = {}

Goto(w, step) == pc' = [pc EXCEPT ![w] = step]

----------------------------------------------------------------------------
(* Before the transaction *)

\* A handler thread takes a request (new, retried or duplicated by a client).
Begin(w, c) ==
  /\ pc[w] = "idle"
  /\ call' = [call EXCEPT ![w] = c]
  /\ Goto(w, IF c.raw THEN "lock" ELSE "find")
  /\ UNCHANGED <<db, draft, writer, ordinal, acked>>

\* MemoryStore.find_existing: a committed read, no lock kept.
FindExisting(w) ==
  LET stored == db[call[w].id].payload IN
  /\ pc[w] = "find"
  /\ Goto(w, CASE stored = None            -> "enrich"
               [] stored = call[w].payload -> "ok"
               [] OTHER                    -> "conflict")
  /\ UNCHANGED <<db, draft, writer, call, ordinal, acked>>

\* The provider calls: enrichment when configured, then the embedding.
Enrich(w) ==
  /\ pc[w] = "enrich"
  /\ Goto(w, "embed")
  /\ UNCHANGED <<db, draft, writer, call, ordinal, acked>>

Embed(w) ==
  /\ pc[w] = "embed"
  /\ Goto(w, "lock")
  /\ UNCHANGED <<db, draft, writer, call, ordinal, acked>>

\* The first look-up may raise, too.
ReadFails(w) ==
  /\ pc[w] = "find"
  /\ Goto(w, "failed")
  /\ UNCHANGED <<db, draft, writer, call, ordinal, acked>>

\* A provider that is used fails: HTTP 503, or 500 when its client does not
\* know the exception (EvaluationCircuit); nothing has been written.
ProviderFails(w) ==
  /\ \/ pc[w] = "enrich" /\ call[w].enriched
     \/ pc[w] = "embed" /\ call[w].model # None
  /\ \E answer \in {"unavailable", "failed"} : Goto(w, answer)
  /\ UNCHANGED <<db, draft, writer, call, ordinal, acked>>

----------------------------------------------------------------------------
(* The write transaction *)

\* BEGIN IMMEDIATE: one writer per database file.
Lock(w) ==
  /\ pc[w] = "lock"
  /\ writer = None
  /\ writer' = w
  /\ draft' = db[call[w].id]
  /\ ordinal' = [ordinal EXCEPT ![w] = 0]
  /\ Goto(w, "resolve")
  /\ UNCHANGED <<db, call, acked>>

\* A mutant of LockTimeout: the connection waits for the lock without limit.
WaitForever(w) == FALSE /\ UNCHANGED vars

\* "database is locked" after busy_timeout.
LockTimeout(w) ==
  /\ pc[w] = "lock"
  /\ writer # None
  /\ Goto(w, "failed")
  /\ UNCHANGED <<db, draft, writer, call, ordinal, acked>>

\* A mutant of Rollback: the answer is given with the transaction left open.
AnswerWithoutRollback(w, answer) ==
  /\ Goto(w, answer)
  /\ UNCHANGED <<writer, draft>>

\* ROLLBACK and close: the lock is free, the draft is gone.
Rollback(w, answer) ==
  /\ writer' = None
  /\ draft' = EmptyEntry
  /\ Goto(w, answer)

\* A mutant of Resolve: the second look-up does not compare the payload.
ResolveById(w) ==
  /\ pc[w] = "resolve"
  /\ IF draft.payload = None
       THEN /\ draft' = [draft EXCEPT !.payload = call[w].payload]
            /\ Goto(w, "message")
       ELSE Goto(w, "commit") /\ UNCHANGED draft
  /\ UNCHANGED <<db, writer, call, ordinal, acked>>

\* The look-up under the lock: conflict, upsert of vectors only, or insert.
Resolve(w) ==
  /\ pc[w] = "resolve"
  /\ \/ /\ draft.payload \notin {None, call[w].payload}
        /\ Rollback(w, "conflict")
     \/ /\ draft.payload = call[w].payload
        /\ Goto(w, IF call[w].model # None THEN "vectors" ELSE "commit")
        /\ UNCHANGED <<writer, draft>>
     \/ /\ draft.payload = None
        /\ draft' = [draft EXCEPT !.payload = call[w].payload]
        /\ Goto(w, "message")
        /\ UNCHANGED writer
  /\ UNCHANGED <<db, call, ordinal, acked>>

\* messages.id is UNIQUE: the insert needs a free row.
InsertMessage(w) ==
  /\ pc[w] = "message"
  /\ draft.messages[ordinal[w]] = None
  /\ draft' = [draft EXCEPT !.messages[ordinal[w]] = call[w].payload]
  /\ Goto(w, "index")
  /\ UNCHANGED <<db, writer, call, ordinal, acked>>

\* A mutant of AfterRow: the loop stops one message short.
StopEarly(w) ==
  IF ordinal[w] + 2 < Size[call[w].payload]
    THEN /\ Goto(w, "message")
         /\ ordinal' = [ordinal EXCEPT ![w] = @ + 1]
    ELSE /\ Goto(w, IF call[w].model # None THEN "vectors" ELSE "commit")
         /\ UNCHANGED ordinal

\* A mutant of AfterRow: the loop runs one message past the end.
RunPast(w) ==
  IF ordinal[w] < Size[call[w].payload]
    THEN /\ Goto(w, "message")
         /\ ordinal' = [ordinal EXCEPT ![w] = @ + 1]
    ELSE /\ Goto(w, IF call[w].model # None THEN "vectors" ELSE "commit")
         /\ UNCHANGED ordinal

\* The next message of the request, or the end of the loop.
AfterRow(w) ==
  IF ordinal[w] + 1 < Size[call[w].payload]
    THEN /\ Goto(w, "message")
         /\ ordinal' = [ordinal EXCEPT ![w] = @ + 1]
    ELSE /\ Goto(w, IF call[w].model # None THEN "vectors" ELSE "commit")
         /\ UNCHANGED ordinal

\* The FTS row.  The benchmark path writes nothing more for a message.
InsertIndex(w) ==
  /\ pc[w] = "index"
  /\ draft' = [draft EXCEPT !.index[ordinal[w]] = @ + 1]
  /\ IF call[w].raw THEN AfterRow(w)
                    ELSE Goto(w, "derive") /\ UNCHANGED ordinal
  /\ UNCHANGED <<db, writer, call, acked>>

\* Tags, facets, state relations and shared-facet relations of the message.
Derive(w) ==
  /\ pc[w] = "derive"
  /\ draft' = [draft EXCEPT !.derived = @ \cup {ordinal[w]}]
  /\ AfterRow(w)
  /\ UNCHANGED <<db, writer, call, acked>>

\* One vector per message, all of the embedder's model, over what was there.
WriteVectors(w) ==
  /\ pc[w] = "vectors"
  /\ draft' = [draft EXCEPT !.vectors =
                 [n \in Ordinal |-> IF n \in Rows(call[w].payload)
                                      THEN call[w].model ELSE @[n]]]
  /\ Goto(w, "commit")
  /\ UNCHANGED <<db, writer, call, ordinal, acked>>

Commit(w) ==
  /\ pc[w] = "commit"
  /\ db' = [db EXCEPT ![call[w].id] = draft]
  /\ writer' = None
  /\ draft' = EmptyEntry
  /\ Goto(w, "ok")
  /\ UNCHANGED <<call, ordinal, acked>>

\* Any statement of the transaction may raise: disk full, I/O, a constraint.
StatementFails(w) ==
  /\ pc[w] \in Transaction
  /\ Rollback(w, "failed")
  /\ UNCHANGED <<db, call, ordinal, acked>>

----------------------------------------------------------------------------
(* After the transaction *)

Release(w) ==
  /\ Goto(w, "idle")
  /\ call' = [call EXCEPT ![w] = None]
  /\ ordinal' = [ordinal EXCEPT ![w] = 0]

Reply(w) ==
  /\ pc[w] \in Answers
  /\ acked' = IF pc[w] = "ok" THEN acked \cup {<<call[w].id, call[w].payload>>} ELSE acked
  /\ Release(w)
  /\ UNCHANGED <<db, draft, writer>>

\* The process of w dies, or the answer is lost.  SQLite discards its
\* uncommitted WAL frames and its lock.  (A process with several threads
\* dies by one such step for each of them.)
Crash(w) ==
  /\ pc[w] # "idle"
  /\ Release(w)
  /\ IF writer = w THEN writer' = None /\ draft' = EmptyEntry
                   ELSE UNCHANGED <<writer, draft>>
  /\ UNCHANGED <<db, acked>>

----------------------------------------------------------------------------

\* What the code of a handler does when nothing goes wrong.
Progress(w) ==
  \/ FindExisting(w) \/ Enrich(w) \/ Embed(w)
  \/ Lock(w) \/ LockTimeout(w) \/ Resolve(w)
  \/ InsertMessage(w) \/ InsertIndex(w) \/ Derive(w) \/ WriteVectors(w) \/ Commit(w)
  \/ Reply(w)

Next ==
  \E w \in Worker :
    \/ \E c \in Call : Begin(w, c)
    \/ Progress(w)
    \/ ReadFails(w) \/ ProviderFails(w) \/ StatementFails(w) \/ Crash(w)

Spec == Init /\ [][Next]_vars

\* Threads are scheduled, provider calls and lock waits have timeouts.
FairSpec == Spec /\ \A w \in Worker : WF_vars(Progress(w))

----------------------------------------------------------------------------
(* Properties *)

\* An entry is empty, or holds exactly the rows of its payload: one message
\* row and one FTS row per message, derived rows for all or for none (the
\* benchmark path), vectors for all in one embedding space or for none.
Whole(e) ==
  \/ e = EmptyEntry
  \/ /\ e.payload \in Payload
     /\ \A n \in Ordinal :
          /\ e.messages[n] = IF n \in Rows(e.payload) THEN e.payload ELSE None
          /\ e.index[n] = IF n \in Rows(e.payload) THEN 1 ELSE 0
     /\ e.derived \in {{}, Rows(e.payload)}
     /\ \E m \in Model \cup {None} :
          e.vectors = [n \in Ordinal |-> IF n \in Rows(e.payload) THEN m ELSE None]

\* "Any failing step rolls back, no partially visible Add" and "HTTP 200 only
\* after every message and its FTS index are committed": what a reader can
\* see of a request is all of it or nothing, whatever fails or races.
CommittedWhole == \A i \in RequestId : Whole(db[i])

\* A call answered with success is recorded with exactly its payload, and
\* stays so: no crash, retry or racing call of the same id takes it back.
AckedRecorded == \A a \in acked : db[a[1]].payload = a[2]

\* Committed rows are never removed or given other content.  A later call
\* may add vectors or move them to its own embedding space, nothing else.
NeverRewritten ==
  [][\A i \in RequestId :
       db[i].payload # None =>
         /\ [db'[i] EXCEPT !.vectors = db[i].vectors] = db[i]
         /\ \A n \in Ordinal : db[i].vectors[n] # None => db'[i].vectors[n] # None]_vars

\* The detailed specification implements the promise.
AbstractPhase(w) ==
  CASE pc[w] = "idle" -> "idle"
    [] pc[w] = "ok" -> "accepted"
    [] pc[w] = "conflict" -> "refused"
    [] pc[w] \in {"unavailable", "failed"} -> "failed"
    [] OTHER -> "pending"

Asked(w) ==
  IF pc[w] = "idle" THEN None
  ELSE [id |-> call[w].id, payload |-> call[w].payload]

Promise == INSTANCE IdempotentAdd WITH
  bound <- [i \in RequestId |-> db[i].payload],
  phase <- [w \in Worker |-> AbstractPhase(w)],
  asked <- [w \in Worker |-> Asked(w)]

\* Every call takes effect at one instant, as the abstract specification says,
\* although the code checks twice and calls providers in between.
Linearizable == Promise!Spec

\* A handler always answers, and has left the write lock by then: nothing waits
\* for ever for the lock, and each path out of the transaction commits or rolls
\* back.
CallsReturn == \A w \in Worker : pc[w] # "idle" ~> pc[w] = "idle" /\ writer # w
=============================================================================
