----------------------------- MODULE Migration -----------------------------
(***************************************************************************)
(* MemoryStore.initialize (store.py): processes start on a database file   *)
(* of an older release, fill in what that release did not write, and then  *)
(* serve Adds, while other processes do the same.                          *)
(*                                                                         *)
(* The look-up of a migration key and the read of the messages do not open *)
(* a transaction; Python's sqlite3 begins one at the first write.  What a  *)
(* transaction writes nobody else sees before its commit, so the rows of   *)
(* one backfill are written by one step.  The tables are created without   *)
(* effect on what is stored (CREATE IF NOT EXISTS): a missing table is an  *)
(* empty one here.                                                         *)
(***************************************************************************)
EXTENDS StateGovernance

CONSTANTS
  Process,     \* the processes that share the file
  Enrichment,  \* the facets that the evaluation provider may find for a message
  MaxOld       \* bound on the messages of the older release

\* The facets the linkers read, by kind.  Anchors are the entities, aliases and
\* places that are certain enough for shared-facet relations.
Kind == {"events", "entities", "places", "anchors", "dates", "statuses"}

\* What analyze_message finds in a text (a field for each kind), and what
\* analyze_batch and the tags read of it: person and place pronouns, and what
\* is named for certain: entities in the order of the text, places.
ASSUME AnnotationAssumption ==
  \A m \in Memory :
    /\ IsFiniteSet(m.anchors)
    /\ {m.tagged, m.pronoun, m.there} \subseteq BOOLEAN
    /\ m.named \in Seq(m.entities) /\ m.located \subseteq m.places

\* Lexical mode enriches nothing.
NoFacets == [k \in Kind |-> {}]
ASSUME EnrichmentAssumption ==
  NoFacets \in Enrichment /\ \A e \in Enrichment : DOMAIN e = Kind

ASSUME MaxOldAssumption == MaxOld \in 0 .. MaxMessages
ASSUME ProcessAssumption == None \notin Process

VARIABLES
  tables,  \* the committed tables besides messages and state_relations
  draft,   \* the writer's uncommitted tables
  writer,  \* the process that holds the SQLite write lock, or None
  pc,      \* pc[p]: the next step of p
  todo,    \* todo[p]: the backfill p is at
  read     \* read[p]: how many messages that backfill has read

vars == <<memory, supersedes, tables, draft, writer, pc, todo, read>>

\* A mutant of Backfills: the relations come before the facets they are read from.
BackfillsUnordered == <<"lexical", "tags", "relations", "facets">>

\* The order of initialize.
Backfills == <<"lexical", "tags", "facets", "relations">>
Keys == {"lexical", "tags", "facets", "relations"}

Slots == 1 .. MaxMessages

Values(f) == UNION {f[k] : k \in Kind}
Value == UNION {Values(f) : f \in Memory \cup Enrichment}

\* messages_fts rows, by message: of an older release (plain) and with lexical
\* terms; message_tags and message_facets rows, by message (no facets: no row);
\* memory_relations and state_relations; schema_metadata.
Tables ==
  [ plain  : SUBSET Slots,
    index  : [Slots -> Nat],
    tags   : SUBSET Slots,
    facets : [Slots -> [Kind -> SUBSET Value]],
    shared : SUBSET (Slots \X Slots),
    links  : SUBSET (Slots \X Slots),
    keys   : SUBSET Keys ]

Starting == {"find", "read", "write", "record", "commit"}
Stopped  == {"down", "locked", "refused", "failed"}

TypeOK ==
  /\ StoreOK
  /\ tables \in Tables /\ tables.links = supersedes
  /\ draft \in Tables
  /\ writer \in Process \cup {None}
  /\ pc \in [Process -> Starting \cup Stopped \cup {"serving"}]
  /\ todo \in [Process -> 1 .. 4]
  /\ read \in [Process -> 0 .. MaxMessages]

----------------------------------------------------------------------------
(* What the annotations of a memory are *)

Tagged(log) == {n \in DOMAIN log : log[n].tagged}

\* analyze_batch: the batch of message n begins with message first.  That is the
\* first of its request, or of all in the backfill, which groups the messages
\* of all requests by user and session.
Before(log, first, n) ==
  {j \in first .. n - 1 : log[j].user = log[n].user /\ log[j].session = log[n].session}

\* prior_entities: whom a pronoun means is the first entity of the last message
\* that names any; for a place it has to name only one.
InheritedEntities(log, first, n) ==
  {log[j].named[1] : j \in {j \in Before(log, first, n) :
     /\ log[n].pronoun /\ log[j].named # <<>>
     /\ \A k \in Before(log, first, n) : k > j => log[k].named = <<>>}}

InheritedPlaces(log, first, n) ==
  UNION {log[j].located : j \in {j \in Before(log, first, n) :
     /\ log[n].there /\ Cardinality(log[j].located) = 1
     /\ \A k \in Before(log, first, n) : k > j => log[k].located = {}}}

\* _merge_facets keeps the more certain of two, so anchors stay anchors.
Joined(f, g) == [k \in Kind |-> f[k] \cup g[k]]

\* The facets of message n in its batch.  What is inherited is no anchor: its
\* confidence is 0.65.
Facets(log, first, n) ==
  [k \in Kind |-> log[n][k] \cup
     IF k = "entities" THEN InheritedEntities(log, first, n)
     ELSE IF k = "places" THEN InheritedPlaces(log, first, n)
     ELSE {}]

\* A message as the linkers see it.
Seen(m, terms, f) ==
  [ user     |-> m.user,     at       |-> m.at,
    explicit |-> m.explicit, terms    |-> terms,
    events   |-> f.events,   entities |-> f.entities,
    places   |-> f.places,   anchors  |-> f.anchors,
    dates    |-> f.dates,    statuses |-> f.statuses ]

\* The log as the linkers can read it: terms through the FTS index, facets
\* through message_facets.
Readable(log, t) ==
  [n \in DOMAIN log |->
     Seen(log[n], IF n \in t.plain \/ t.index[n] > 0 THEN log[n].terms ELSE {}, t.facets[n])]

\* The log with these facets, all terms readable.
Annotated(log, facets) == [n \in DOMAIN log |-> Seen(log[n], log[n].terms, facets[n])]

\* _link_shared_facets: the earlier messages that have an anchor as a value.
\* (Its limit of 20 messages per anchor is not reached.)
SharedTargets(log, n) ==
  {o \in Earlier(log, n) : log[n].anchors \cap Values(log[o]) # {}}

ExplicitLinks(log)   == {r \in (DOMAIN log) \X (DOMAIN log) : r[2] \in ExplicitTarget(log, r[1])}
StructuredLinks(log) == {r \in (DOMAIN log) \X (DOMAIN log) : r[2] \in StructuredTarget(log, r[1])}
SharedLinks(log)     == {r \in (DOMAIN log) \X (DOMAIN log) : r[2] \in SharedTargets(log, r[1])}

\* What an older release that had done the backfills K leaves: explicit update
\* links from the beginning, the rest as far as its keys say.
Left(log, K, facets) ==
  LET known == [n \in Slots |-> IF "facets" \in K THEN facets[n] ELSE NoFacets]
      all   == Annotated(log, known) IN
  [ plain  |-> IF "lexical" \in K THEN {} ELSE DOMAIN log,
    index  |-> [n \in Slots |-> IF "lexical" \in K /\ n \in DOMAIN log THEN 1 ELSE 0],
    tags   |-> IF "tags" \in K THEN Tagged(log) ELSE {},
    facets |-> known,
    shared |-> IF "relations" \in K THEN SharedLinks(all) ELSE {},
    links  |-> ExplicitLinks(log) \cup IF "relations" \in K THEN StructuredLinks(all) ELSE {},
    keys   |-> K ]

\* The facets it can have written: of a backfill or of Adds, so that the batch
\* of a message can have begun anywhere, with any enrichment.
LeftFacets(log) ==
  {[n \in Slots |-> IF n \in DOMAIN log THEN Joined(Facets(log, first[n], n), extra[n])
                   ELSE NoFacets] :
     first \in [DOMAIN log -> Slots], extra \in [DOMAIN log -> Enrichment]}

\* Relations are read from facets: who has recorded them had facets.  K = {} and
\* no message: a new file.
Init ==
  /\ \E n \in 0 .. MaxOld : memory \in [1 .. n -> Memory]
  /\ \E K \in SUBSET Keys, facets \in LeftFacets(memory) :
       /\ "relations" \in K => "facets" \in K
       /\ tables = Left(memory, K, facets)
  /\ supersedes = tables.links
  /\ draft = tables
  /\ writer = None
  /\ pc = [p \in Process |-> "down"]
  /\ todo = [p \in Process |-> 1]
  /\ read = [p \in Process |-> 0]

----------------------------------------------------------------------------
(* initialize *)

Goto(p, step) == pc' = [pc EXCEPT ![p] = step]

\* What a statement of p sees.
View(p) == IF writer = p THEN draft ELSE tables

\* A write of p: the first one begins the transaction.
Writes(p, t) ==
  /\ writer \in {None, p}
  /\ writer' = p
  /\ draft' = t

\* The end of a transaction without commit.
Abandon(p) ==
  IF writer = p THEN writer' = None /\ draft' = tables
                ELSE UNCHANGED <<writer, draft>>

\* initialize begins, after a start of the process.
StartUp(p) ==
  /\ pc[p] \in Stopped
  /\ Goto(p, "find")
  /\ todo' = [todo EXCEPT ![p] = 1]
  /\ read' = [read EXCEPT ![p] = 0]
  /\ UNCHANGED <<memory, supersedes, tables, draft, writer>>

\* A mutant of NextBackfill: one past the end.
NextPastEnd(p) ==
  /\ Goto(p, IF todo[p] <= 4 THEN "find" ELSE "commit")
  /\ todo' = [todo EXCEPT ![p] = @ + 1]

NextBackfill(p) ==
  /\ Goto(p, IF todo[p] < 4 THEN "find" ELSE "commit")
  /\ todo' = [todo EXCEPT ![p] = IF @ < 4 THEN @ + 1 ELSE @]

\* A mutant of FindKey: a file that has one migration is taken to have all.
FindAny(p) ==
  /\ pc[p] = "find"
  /\ Goto(p, IF Backfills[todo[p]] \in View(p).keys THEN "commit" ELSE "read")
  /\ UNCHANGED <<memory, supersedes, tables, draft, writer, todo, read>>

\* SELECT 1 FROM schema_metadata: done already, by this or another process?
FindKey(p) ==
  /\ pc[p] = "find"
  /\ IF Backfills[todo[p]] \in View(p).keys
       THEN NextBackfill(p)
       ELSE Goto(p, "read") /\ UNCHANGED todo
  /\ UNCHANGED <<memory, supersedes, tables, draft, writer, read>>

\* SELECT ... FROM messages.
ReadMessages(p) ==
  /\ pc[p] = "read"
  /\ read' = [read EXCEPT ![p] = Len(memory)]
  /\ Goto(p, "write")
  /\ UNCHANGED <<memory, supersedes, tables, draft, writer, todo>>

\* _backfill_lexical_index: DELETE FROM messages_fts, and a row per message.
Rebuilt(t, log) ==
  [t EXCEPT !.plain = {},
            !.index = [n \in Slots |-> IF n \in DOMAIN log THEN 1 ELSE 0]]

\* _backfill_memory_relations: the structured and the shared-facet linker.
Related(t, log) ==
  [t EXCEPT !.links  = @ \cup StructuredLinks(Readable(log, t)),
            !.shared = @ \cup SharedLinks(Readable(log, t))]

\* A mutant of Analysed: one batch for each session, whoever its users are.
AnalysedBySession(t, log) ==
  LET one == [i \in DOMAIN log |-> [log[i] EXCEPT !.user = log[1].user]] IN
  [t EXCEPT !.facets =
     [n \in Slots |-> IF n \in DOMAIN log THEN Joined(@[n], Facets(one, 1, n)) ELSE @[n]]]

\* _backfill_message_facets: one batch for each user and session.  (INSERT OR
\* IGNORE leaves a row that is there, which can be less certain; a file has rows
\* before only if their key is recorded, and then this is not committed.)
Analysed(t, log) ==
  [t EXCEPT !.facets =
     [n \in Slots |-> IF n \in DOMAIN log THEN Joined(@[n], Facets(log, 1, n)) ELSE @[n]]]

\* The tables t after the rows of a backfill have been written.
Backfilled(t, log, key) ==
  CASE key = "lexical"   -> Rebuilt(t, log)
    [] key = "tags"      -> [t EXCEPT !.tags = @ \cup Tagged(log)]
    [] key = "facets"    -> Analysed(t, log)
    [] key = "relations" -> Related(t, log)

\* Whether it has a statement to write with: a DELETE at least, or a row.
HasRows(t, log, key) ==
  CASE key = "lexical"   -> TRUE
    [] key = "tags"      -> Tagged(log) # {}
    [] key = "facets"    -> \E n \in DOMAIN log : Facets(log, 1, n) # NoFacets
    [] key = "relations" -> \/ StructuredLinks(Readable(log, t)) # {}
                            \/ SharedLinks(Readable(log, t)) # {}

WriteRows(p) ==
  LET log == SubSeq(memory, 1, read[p])
      key == Backfills[todo[p]] IN
  /\ pc[p] = "write"
  /\ IF HasRows(View(p), log, key)
       THEN Writes(p, Backfilled(View(p), log, key))
       ELSE UNCHANGED <<writer, draft>>
  /\ Goto(p, "record")
  /\ UNCHANGED <<memory, supersedes, tables, todo, read>>

\* A mutant of RecordKey: INSERT OR IGNORE, as for the other tables.
RecordOrIgnore(p) ==
  /\ pc[p] = "record"
  /\ Writes(p, [View(p) EXCEPT !.keys = @ \cup {Backfills[todo[p]]}])
  /\ NextBackfill(p)
  /\ UNCHANGED <<memory, supersedes, tables, read>>

\* A mutant of RecordKey: every backfill is committed by itself.
RecordAndCommit(p) ==
  LET t == [View(p) EXCEPT !.keys = @ \cup {Backfills[todo[p]]}] IN
  /\ pc[p] = "record"
  /\ writer \in {None, p}
  /\ IF Backfills[todo[p]] \in View(p).keys
       THEN Abandon(p) /\ Goto(p, "refused") /\ UNCHANGED <<tables, supersedes, todo>>
       ELSE /\ tables' = t /\ supersedes' = t.links
            /\ writer' = None /\ draft' = t
            /\ NextBackfill(p)
  /\ UNCHANGED <<memory, read>>

\* INSERT INTO schema_metadata.  key is the primary key: if another process
\* has recorded it since FindKey, IntegrityError ends the start-up.
RecordKey(p) ==
  LET key == Backfills[todo[p]] IN
  /\ pc[p] = "record"
  /\ writer \in {None, p}
  /\ IF key \in View(p).keys
       THEN Abandon(p) /\ Goto(p, "refused") /\ UNCHANGED todo
       ELSE Writes(p, [View(p) EXCEPT !.keys = @ \cup {key}]) /\ NextBackfill(p)
  /\ UNCHANGED <<memory, supersedes, tables, read>>

\* commit, if anything was written; the process serves.
Commit(p) ==
  /\ pc[p] = "commit"
  /\ tables' = View(p)
  /\ supersedes' = View(p).links
  /\ writer' = IF writer = p THEN None ELSE writer
  /\ draft' = IF writer = p THEN tables' ELSE draft
  /\ Goto(p, "serving")
  /\ UNCHANGED <<memory, todo, read>>

\* "database is locked": the first write waits busy_timeout at most.
LockedOut(p) ==
  /\ pc[p] \in {"write", "record"}
  /\ writer \notin {None, p}
  /\ Goto(p, "locked")
  /\ UNCHANGED <<memory, supersedes, tables, draft, writer, todo, read>>

\* Any other error: closing the connection rolls back.
Fails(p) ==
  /\ pc[p] \in Starting
  /\ Abandon(p)
  /\ Goto(p, "failed")
  /\ UNCHANGED <<memory, supersedes, tables, todo, read>>

\* The process ends or is killed, at any time.
Crash(p) ==
  /\ pc[p] \in Starting \cup {"serving"}
  /\ Abandon(p)
  /\ Goto(p, "down")
  /\ UNCHANGED <<memory, supersedes, tables, todo, read>>

----------------------------------------------------------------------------

\* The messages of one request are of one user and session.
Requests ==
  {r \in UNION {[1 .. k -> Memory] : k \in Slots} :
     \A i \in DOMAIN r : r[i].user = r[1].user /\ r[i].session = r[1].session}

\* An Add of a serving process, as a whole (MemoryAdd): for each message its FTS
\* row, tags and facets, enriched in evaluation mode, and its relations to what
\* it can read.
Serve(p, request, extra) ==
  LET log  == memory \o request
      old  == Len(memory)
      new  == old + 1 .. Len(log)
      t    == [tables EXCEPT
                 !.index = [n \in Slots |-> IF n \in new THEN @[n] + 1 ELSE @[n]],
                 !.tags = @ \cup (Tagged(log) \cap new),
                 !.facets = [n \in Slots |->
                   IF n \in new THEN Joined(Facets(log, old + 1, n), extra[n - old]) ELSE @[n]]]
      seen == Readable(log, t)
      Of(links) == {r \in links : r[1] \in new} IN
  /\ pc[p] = "serving"
  /\ writer = None
  /\ Len(log) <= MaxMessages
  /\ memory' = log
  /\ tables' = [t EXCEPT !.links = @ \cup Of(ExplicitLinks(seen) \cup StructuredLinks(seen)),
                         !.shared = @ \cup Of(SharedLinks(seen))]
  /\ supersedes' = tables'.links
  /\ draft' = tables'
  /\ UNCHANGED <<writer, pc, todo, read>>

Proceed(p) ==
  \/ StartUp(p) \/ FindKey(p) \/ ReadMessages(p) \/ WriteRows(p) \/ RecordKey(p)
  \/ Commit(p) \/ LockedOut(p)

Mishap == \E p \in Process : Fails(p) \/ Crash(p)

Next ==
  \/ \E p \in Process : Proceed(p)
  \/ \E p \in Process, r \in Requests : \E extra \in [DOMAIN r -> Enrichment] : Serve(p, r, extra)
  \/ Mishap

Spec == Init /\ [][Next]_vars

\* Processes run, lock waits end, and a process that is not up is started again.
FairSpec == Spec /\ \A p \in Process : WF_vars(Proceed(p))

----------------------------------------------------------------------------
(* Properties *)

\* Every committed message has exactly one FTS row at every moment, whoever
\* starts, serves or crashes meanwhile, and once the migration is recorded
\* all of them hold lexical terms.  (The rebuild deletes the whole index and
\* inserts the messages it read before its transaction began: a message
\* committed in between would be found no more.)
IndexedOnce ==
  \A n \in DOMAIN memory :
    /\ tables.index[n] = IF n \in tables.plain THEN 0 ELSE 1
    /\ "lexical" \in tables.keys => n \notin tables.plain

\* A recorded backfill is complete, and later Adds keep it so: all tags, for every
\* message at least the facets of its own text, and exactly the relations that
\* the linkers find in the facets as they are stored.  (These facets can be
\* others than those of the same messages by Adds: the backfill reads pronouns
\* across requests, and enriches nothing.)
AnnotatedInFull ==
  /\ "tags" \in tables.keys => tables.tags = Tagged(memory)
  /\ "facets" \in tables.keys =>
       \A n \in DOMAIN memory : \A k \in Kind : memory[n][k] \subseteq tables.facets[n][k]
  /\ "relations" \in tables.keys =>
       /\ tables.shared = SharedLinks(Annotated(memory, tables.facets))
       /\ supersedes = ExplicitLinks(memory) \cup StructuredLinks(Annotated(memory, tables.facets))

\* Whoever analyses a message, its own Add or a backfill over many requests: the
\* entity or place it takes from another one for a pronoun was named last in the
\* same session of the same user, never by another user with that session id.
\* (That only one was named is asked for places alone.)
CarriedWithinSession ==
  \A n \in DOMAIN memory :
    LET same  == {j \in 1 .. n - 1 : memory[j].user = memory[n].user
                                     /\ memory[j].session = memory[n].session}
        who   == {j \in same : memory[j].named # <<>>
                               /\ \A k \in same : k > j => memory[k].named = <<>>}
        where == {j \in same : \A k \in same : k > j => memory[k].located = {}} IN
    /\ tables.facets[n].entities \subseteq
         memory[n].entities \cup {memory[j].named[1] : j \in who}
           \cup (UNION {e.entities : e \in Enrichment})
    /\ tables.facets[n].places \subseteq
         memory[n].places \cup (UNION {memory[j].located : j \in where})
           \cup (UNION {e.places : e \in Enrichment})

\* A process that is refused because another recorded the key finds nothing
\* left to do when it is started again: backfills are committed together.
RefusedMeansDone == \A p \in Process : pc[p] = "refused" => tables.keys = Keys

\* If nothing fails from some time on, the migration is completed, although
\* processes that start together can lock out or refuse each other.
MigrationCompletes == <>[][~Mishap]_vars => <>(tables.keys = Keys)
=============================================================================
