-------------------------- MODULE MigrationProofs --------------------------
(***************************************************************************)
(* The safety properties of Migration, for any number of processes and any *)
(* file an older release can have left.  A draft that would lose something *)
(* exists: a process may rebuild the index from a stale read.  The         *)
(* invariant says that such a draft already holds the key that its writer  *)
(* is about to insert, so that it is never committed.                      *)
(***************************************************************************)
EXTENDS Migration, TLAPS

----------------------------------------------------------------------------
(* What the linkers find depends on the fields they read *)

Texts(L, M, i) ==
  /\ L[i].user = M[i].user /\ L[i].at = M[i].at /\ L[i].explicit = M[i].explicit
  /\ L[i].terms = M[i].terms

Alike(L, M, i) == Texts(L, M, i) /\ \A k \in Kind : L[i][k] = M[i][k]

LEMMA AlikeFields ==
  ASSUME NEW L, NEW M, NEW i, Alike(L, M, i)
  PROVE  /\ L[i].events = M[i].events /\ L[i].entities = M[i].entities
         /\ L[i].places = M[i].places /\ L[i].anchors = M[i].anchors
         /\ L[i].dates = M[i].dates /\ L[i].statuses = M[i].statuses
         /\ Values(L[i]) = Values(M[i])
BY DEF Alike, Kind, Values

\* The linkers of message n read messages up to n only, and update wording is
\* linked by the text alone.
LEMMA TextTargetsAgree ==
  ASSUME NEW L, NEW M, NEW n \in Nat \ {0}, \A i \in 1 .. n : Texts(L, M, i)
  PROVE  Earlier(L, n) = Earlier(M, n) /\ ExplicitTarget(L, n) = ExplicitTarget(M, n)
<1>1. Earlier(L, n) = Earlier(M, n)
  BY DEF Earlier, Texts
<1>2. Earlier(M, n) \subseteq 1 .. n /\ n \in 1 .. n
  BY DEF Earlier
<1>3. ExplicitCandidates(L, n) = ExplicitCandidates(M, n)
  BY <1>1, <1>2 DEF ExplicitCandidates, OccursAfter, Texts
<1>4. ExplicitCandidates(M, n) \subseteq 1 .. n
  BY <1>2 DEF ExplicitCandidates
<1>5. \A o \in 1 .. n : Time(L[o]) = Time(M[o])
  BY DEF Time, Texts
<1>6. ExplicitTarget(L, n) = ExplicitTarget(M, n)
  BY <1>3, <1>4, <1>5 DEF ExplicitTarget
<1> QED BY <1>1, <1>6

LEMMA TargetsAgree ==
  ASSUME NEW L, NEW M, NEW n \in Nat \ {0}, \A i \in 1 .. n : Alike(L, M, i)
  PROVE  /\ ExplicitTarget(L, n) = ExplicitTarget(M, n)
         /\ StructuredTarget(L, n) = StructuredTarget(M, n)
         /\ SharedTargets(L, n) = SharedTargets(M, n)
<1>1. Earlier(L, n) = Earlier(M, n) /\ ExplicitTarget(L, n) = ExplicitTarget(M, n)
  BY TextTargetsAgree DEF Alike
<1>2. Earlier(M, n) \subseteq 1 .. n /\ n \in 1 .. n
  BY DEF Earlier
<1>3. \A i \in 1 .. n :
        /\ L[i].events = M[i].events /\ L[i].entities = M[i].entities
        /\ L[i].places = M[i].places /\ L[i].anchors = M[i].anchors
        /\ L[i].dates = M[i].dates /\ L[i].statuses = M[i].statuses
        /\ Values(L[i]) = Values(M[i])
  BY AlikeFields
<1>4. StructuredCandidates(L, n) = StructuredCandidates(M, n)
  BY <1>1, <1>2, <1>3 DEF StructuredCandidates
<1>5. StructuredCandidates(M, n) \subseteq 1 .. n
  BY <1>2 DEF StructuredCandidates
<1>6. \A o \in 1 .. n : Score(L, n, o) = Score(M, n, o)
  BY <1>2, <1>3 DEF Score
<1>7. StructuredTarget(L, n) = StructuredTarget(M, n)
  BY <1>4, <1>5, <1>6 DEF StructuredTarget
<1>8. SharedTargets(L, n) = SharedTargets(M, n)
  BY <1>1, <1>2, <1>3 DEF SharedTargets
<1> QED BY <1>1, <1>7, <1>8

\* Links lead to earlier messages.
LEMMA TargetsEarlier ==
  ASSUME NEW L, NEW n \in Nat
  PROVE  /\ ExplicitTarget(L, n) \subseteq 1 .. n - 1
         /\ StructuredTarget(L, n) \subseteq 1 .. n - 1
         /\ SharedTargets(L, n) \subseteq 1 .. n - 1
BY DEF ExplicitTarget, ExplicitCandidates, StructuredTarget, StructuredCandidates,
       SharedTargets, Earlier

\* A message as the linkers see it has the facets of its row.
LEMMA SeenFields ==
  ASSUME NEW m, NEW terms, NEW f
  PROVE  /\ Seen(m, terms, f).user = m.user /\ Seen(m, terms, f).at = m.at
         /\ Seen(m, terms, f).explicit = m.explicit /\ Seen(m, terms, f).terms = terms
         /\ \A k \in Kind : Seen(m, terms, f)[k] = f[k]
BY DEF Seen, Kind

LEMMA AnnotatedText ==
  ASSUME NEW log, NEW facets
  PROVE  /\ DOMAIN Annotated(log, facets) = DOMAIN log
         /\ \A n \in DOMAIN log :
              Texts(Annotated(log, facets), log, n) /\ \A k \in Kind : Annotated(log, facets)[n][k] = facets[n][k]
BY SeenFields DEF Annotated, Texts

\* An index row for every message tells the linkers everything.
LEMMA ReadableWhole ==
  ASSUME NEW log, NEW t, \A n \in DOMAIN log : n \in t.plain \/ t.index[n] > 0
  PROVE  Readable(log, t) = Annotated(log, t.facets)
BY DEF Readable, Annotated

\* What a longer log has of links of its first messages are those of the shorter.
LEMMA ExplicitGrow ==
  ASSUME NEW L, NEW M, NEW k \in Nat, NEW n \in Nat, k <= n,
         DOMAIN L = 1 .. k, DOMAIN M = 1 .. n, \A i \in 1 .. k : Texts(M, L, i)
  PROVE  ExplicitLinks(M) = ExplicitLinks(L) \cup {r \in ExplicitLinks(M) : r[1] \in k + 1 .. n}
<1>1. \A i \in 1 .. k : i \in Nat \ {0} /\ 1 .. i \subseteq 1 .. k /\ 1 .. i - 1 \subseteq 1 .. k
  OBVIOUS
<1>2. 1 .. n = 1 .. k \cup (k + 1 .. n) /\ 1 .. k \subseteq 1 .. n
  OBVIOUS
<1>3. \A i \in 1 .. k : ExplicitTarget(L, i) \subseteq 1 .. k
  BY <1>1, TargetsEarlier
<1>4. \A i \in 1 .. k : ExplicitTarget(M, i) = ExplicitTarget(L, i)
  BY <1>1, TextTargetsAgree
<1> QED BY <1>2, <1>3, <1>4 DEF ExplicitLinks

LEMMA FacetLinksGrow ==
  ASSUME NEW L, NEW M, NEW k \in Nat, NEW n \in Nat, k <= n,
         DOMAIN L = 1 .. k, DOMAIN M = 1 .. n, \A i \in 1 .. k : Alike(M, L, i)
  PROVE  /\ StructuredLinks(M) = StructuredLinks(L) \cup {r \in StructuredLinks(M) : r[1] \in k + 1 .. n}
         /\ SharedLinks(M) = SharedLinks(L) \cup {r \in SharedLinks(M) : r[1] \in k + 1 .. n}
<1>1. \A i \in 1 .. k : i \in Nat \ {0} /\ 1 .. i \subseteq 1 .. k /\ 1 .. i - 1 \subseteq 1 .. k
  OBVIOUS
<1>2. 1 .. n = 1 .. k \cup (k + 1 .. n) /\ 1 .. k \subseteq 1 .. n
  OBVIOUS
<1>3. \A i \in 1 .. k : StructuredTarget(L, i) \subseteq 1 .. k /\ SharedTargets(L, i) \subseteq 1 .. k
  BY <1>1, TargetsEarlier
<1>4. \A i \in 1 .. k : /\ StructuredTarget(M, i) = StructuredTarget(L, i)
                         /\ SharedTargets(M, i) = SharedTargets(L, i)
  BY <1>1, TargetsAgree
<1>5. StructuredLinks(M) = StructuredLinks(L) \cup {r \in StructuredLinks(M) : r[1] \in k + 1 .. n}
  BY <1>2, <1>3, <1>4 DEF StructuredLinks
<1>6. SharedLinks(M) = SharedLinks(L) \cup {r \in SharedLinks(M) : r[1] \in k + 1 .. n}
  BY <1>2, <1>3, <1>4 DEF SharedLinks
<1> QED BY <1>5, <1>6

LEMMA ExplicitByText ==
  ASSUME NEW log \in Seq(Memory), NEW facets
  PROVE  ExplicitLinks(Annotated(log, facets)) = ExplicitLinks(log)
<1> DEFINE A == Annotated(log, facets)
<1>1. DOMAIN A = DOMAIN log /\ \A n \in DOMAIN log : Texts(A, log, n)
  BY AnnotatedText
<1>2. \A n \in DOMAIN log : n \in Nat \ {0} /\ 1 .. n \subseteq DOMAIN log
  OBVIOUS
<1> HIDE DEF A
<1>3. \A n \in DOMAIN log : ExplicitTarget(A, n) = ExplicitTarget(log, n)
  BY <1>1, <1>2, TextTargetsAgree
<1>4. ExplicitLinks(A) = ExplicitLinks(log)
  BY <1>1, <1>3 DEF ExplicitLinks
<1> QED BY <1>4 DEF A

----------------------------------------------------------------------------
(* What an analysis finds *)

\* f holds what the text of message n holds, and nothing that CarriedWithinSession
\* does not allow.
Complete(log, n, f) == \A k \in Kind : log[n][k] \subseteq f[k]
Same(log, n) ==
  {j \in 1 .. n - 1 : log[j].user = log[n].user /\ log[j].session = log[n].session}
Who(log, n) ==
  {j \in Same(log, n) : log[j].named # <<>> /\ \A k \in Same(log, n) : k > j => log[k].named = <<>>}
Where(log, n) ==
  {j \in Same(log, n) : \A k \in Same(log, n) : k > j => log[k].located = {}}
Within(log, n, f) ==
  /\ f.entities \subseteq log[n].entities \cup {log[j].named[1] : j \in Who(log, n)}
                            \cup (UNION {e.entities : e \in Enrichment})
  /\ f.places \subseteq log[n].places \cup (UNION {log[j].located : j \in Where(log, n)})
                            \cup (UNION {e.places : e \in Enrichment})
FacetSet == [Kind -> SUBSET Value]

LEMMA ValuesInside ==
  \A f \in Memory \cup Enrichment : \A k \in Kind : f[k] \subseteq Value
BY DEF Value, Values

LEMMA FieldNames ==
  ASSUME NEW f
  PROVE  /\ f["entities"] = f.entities /\ f["places"] = f.places
         /\ "entities" \in Kind /\ "places" \in Kind
BY DEF Kind

\* Wherever the batch of a message begins.
LEMMA FacetsFit ==
  ASSUME NEW log \in Seq(Memory), NEW n \in DOMAIN log, NEW first \in Nat \ {0}
  PROVE  /\ Facets(log, first, n) \in FacetSet
         /\ Complete(log, n, Facets(log, first, n))
         /\ Within(log, n, Facets(log, first, n))
<1> DEFINE B == Before(log, first, n)
           W == {j \in B : /\ log[n].pronoun /\ log[j].named # <<>>
                           /\ \A k \in B : k > j => log[k].named = <<>>}
           P == {j \in B : /\ log[n].there /\ Cardinality(log[j].located) = 1
                           /\ \A k \in B : k > j => log[k].located = {}}
           f == Facets(log, first, n)
<1>1. n \in Nat /\ DOMAIN log = 1 .. Len(log) /\ Len(log) \in Nat
  OBVIOUS
<1>2. B \subseteq Same(log, n) /\ B \subseteq DOMAIN log
  BY <1>1 DEF Before, Same
<1>3. \A j \in B, k \in Same(log, n) : k > j => k \in B
  BY <1>1 DEF Before, Same
<1>4. W \subseteq Who(log, n) /\ P \subseteq Where(log, n)
  BY <1>2, <1>3 DEF Who, Where
<1>5. \A j \in DOMAIN log :
        log[j] \in Memory /\ log[j].named \in Seq(log[j].entities) /\ log[j].located \subseteq log[j].places
  BY AnnotationAssumption
<1>6. InheritedEntities(log, first, n) = {log[j].named[1] : j \in W}
  BY DEF InheritedEntities
<1>7. InheritedPlaces(log, first, n) = UNION {log[j].located : j \in P}
  BY DEF InheritedPlaces
<1>8. InheritedEntities(log, first, n) \subseteq Value
  <2> SUFFICES ASSUME NEW j \in W PROVE log[j].named[1] \in Value
    BY <1>6
  <2>1. j \in DOMAIN log /\ log[j].named # <<>>
    BY <1>2
  <2>2. log[j].named[1] \in log[j].entities
    BY <1>5, <2>1
  <2>3. log[j].entities \subseteq Value
    BY <1>5, <2>1, ValuesInside, FieldNames
  <2> QED BY <2>2, <2>3
<1>9. InheritedPlaces(log, first, n) \subseteq Value
  <2> SUFFICES ASSUME NEW j \in P PROVE log[j].located \subseteq Value
    BY <1>7
  <2>1. j \in DOMAIN log
    BY <1>2
  <2> QED BY <1>5, <2>1, ValuesInside, FieldNames
<1>10. f = [k \in Kind |-> log[n][k] \cup
              IF k = "entities" THEN InheritedEntities(log, first, n)
              ELSE IF k = "places" THEN InheritedPlaces(log, first, n) ELSE {}]
  BY DEF Facets
<1>11. \A k \in Kind : log[n][k] \subseteq Value
  BY <1>5, ValuesInside
<1> HIDE DEF f, W, P, B
<1>12. f \in FacetSet
  BY <1>8, <1>9, <1>10, <1>11 DEF FacetSet
<1>13. Complete(log, n, f)
  BY <1>10 DEF Complete
<1>14. /\ f["entities"] = log[n]["entities"] \cup InheritedEntities(log, first, n)
       /\ f["places"] = log[n]["places"] \cup InheritedPlaces(log, first, n)
  BY <1>10, FieldNames
<1>15. /\ f.entities = log[n].entities \cup {log[j].named[1] : j \in W}
       /\ f.places = log[n].places \cup (UNION {log[j].located : j \in P})
  BY <1>6, <1>7, <1>14, FieldNames
<1>16. Within(log, n, f)
  BY <1>4, <1>15 DEF Within
<1> QED BY <1>12, <1>13, <1>16 DEF f

\* Joining facets leaves them fit.
LEMMA JoinedFit ==
  ASSUME NEW log, NEW n, NEW f, NEW g,
         \A k \in Kind : f[k] \subseteq Value /\ g[k] \subseteq Value
  PROVE  /\ Joined(f, g) \in FacetSet
         /\ Complete(log, n, f) \/ Complete(log, n, g) => Complete(log, n, Joined(f, g))
         /\ Within(log, n, f) /\ Within(log, n, g) => Within(log, n, Joined(f, g))
<1>1. Joined(f, g) \in FacetSet
  BY DEF Joined, FacetSet
<1>2. \A k \in Kind : Joined(f, g)[k] = f[k] \cup g[k]
  BY DEF Joined
<1>3. /\ Joined(f, g).entities = f.entities \cup g.entities
      /\ Joined(f, g).places = f.places \cup g.places
  BY <1>2, FieldNames
<1>4. Complete(log, n, f) \/ Complete(log, n, g) => Complete(log, n, Joined(f, g))
  BY <1>2 DEF Complete
<1>5. Within(log, n, f) /\ Within(log, n, g) => Within(log, n, Joined(f, g))
  BY <1>3 DEF Within
<1> QED BY <1>1, <1>4, <1>5

LEMMA EnrichedFit ==
  ASSUME NEW log \in Seq(Memory), NEW n \in DOMAIN log, NEW first \in Nat \ {0}, NEW e \in Enrichment
  PROVE  /\ Joined(Facets(log, first, n), e) \in FacetSet
         /\ Complete(log, n, Joined(Facets(log, first, n), e))
         /\ Within(log, n, Joined(Facets(log, first, n), e))
<1>1. \A k \in Kind : Facets(log, first, n)[k] \subseteq Value /\ e[k] \subseteq Value
  BY FacetsFit, ValuesInside DEF FacetSet
<1>2. Within(log, n, e)
  BY DEF Within
<1> QED BY <1>1, <1>2, FacetsFit, JoinedFit

LEMMA NoFacetsFit ==
  /\ NoFacets \in FacetSet /\ \A log, n : Within(log, n, NoFacets)
BY DEF NoFacets, FacetSet, Within, Kind

\* More messages leave the facets of the earlier ones fit.
LEMMA FitStays ==
  ASSUME NEW log, NEW more, NEW n \in Nat, \A i \in 1 .. n : more[i] = log[i], n # 0, NEW f
  PROVE  /\ Complete(log, n, f) <=> Complete(more, n, f)
         /\ Within(log, n, f) <=> Within(more, n, f)
<1>1. more[n] = log[n] /\ \A j \in 1 .. n - 1 : more[j] = log[j]
  OBVIOUS
<1>2. Same(more, n) = Same(log, n) /\ Same(log, n) \subseteq 1 .. n - 1
  BY <1>1 DEF Same
<1>3. Who(more, n) = Who(log, n) /\ Where(more, n) = Where(log, n)
  BY <1>1, <1>2 DEF Who, Where
<1>4. Who(log, n) \subseteq 1 .. n - 1 /\ Where(log, n) \subseteq 1 .. n - 1
  BY <1>2 DEF Who, Where
<1>5. /\ {log[j].named[1] : j \in Who(log, n)} = {more[j].named[1] : j \in Who(log, n)}
      /\ {log[j].located : j \in Where(log, n)} = {more[j].located : j \in Where(log, n)}
  BY <1>1, <1>4
<1> QED BY <1>1, <1>3, <1>5 DEF Complete, Within

----------------------------------------------------------------------------
(* The inductive invariant *)

\* No row of the tables t is missing, doubled or of no message; annotations
\* that are there belong there.
Sound(t) ==
  LET A == Annotated(memory, t.facets) IN
  /\ t.plain \subseteq DOMAIN memory
  /\ \A n \in Slots : t.index[n] = IF n \in DOMAIN memory /\ n \notin t.plain THEN 1 ELSE 0
  /\ t.tags \subseteq Tagged(memory)
  /\ \A n \in DOMAIN memory : Within(memory, n, t.facets[n])
  /\ ExplicitLinks(memory) \subseteq t.links
  /\ t.links \subseteq ExplicitLinks(memory) \cup StructuredLinks(A)
  /\ t.shared \subseteq SharedLinks(A)
  /\ "relations" \in t.keys => "facets" \in t.keys
  /\ "facets" \notin t.keys => t.links = ExplicitLinks(memory) /\ t.shared = {}

\* The rows of the backfill key are complete.
Done(t, key) ==
  LET A == Annotated(memory, t.facets) IN
  /\ key = "lexical" => t.plain = {}
  /\ key = "tags" => t.tags = Tagged(memory)
  /\ key = "facets" => \A n \in DOMAIN memory : Complete(memory, n, t.facets[n])
  /\ key = "relations" => /\ t.shared = SharedLinks(A)
                          /\ t.links = ExplicitLinks(memory) \cup StructuredLinks(A)

Clean(t) == Sound(t) /\ \A key \in t.keys : Done(t, key)

Todo(p) == Backfills[todo[p]]

\* A draft is fit to be committed, or its writer is about to be refused.
DraftKept ==
  /\ tables.keys \subseteq draft.keys
  /\ writer = None => draft = tables
  /\ \A p \in Process : writer = p =>
       /\ pc[p] \in Starting
       /\ Clean(draft) \/ (pc[p] = "record" /\ Todo(p) \in draft.keys)

\* What a process knows at its step.  A read is stale only when another
\* process has recorded the key meanwhile, and with it all keys.
Knows(p) ==
  /\ read[p] <= Len(memory)
  /\ pc[p] \in {"serving", "refused"} => tables.keys = Keys
  /\ pc[p] \in Starting => \A j \in 1 .. todo[p] - 1 : Backfills[j] \in View(p).keys
  /\ pc[p] = "commit" => Keys \subseteq View(p).keys
  /\ pc[p] \in {"read", "write", "record"} /\ Todo(p) \in View(p).keys => tables.keys = Keys
  /\ pc[p] \in {"write", "record"} /\ Todo(p) \notin View(p).keys => read[p] = Len(memory)
  /\ pc[p] = "record" /\ Todo(p) \notin View(p).keys => Done(View(p), Todo(p))

IInv ==
  /\ TypeOK
  /\ Clean(tables)
  /\ DraftKept
  /\ \A p \in Process : Knows(p)

\* The four names, by number.
LEMMA FourBackfills ==
  /\ Backfills[1] = "lexical" /\ Backfills[2] = "tags"
  /\ Backfills[3] = "facets" /\ Backfills[4] = "relations"
  /\ \A j \in 1 .. 4 : Backfills[j] \in Keys
<1>1. \A j \in 1 .. 4 : j = 1 \/ j = 2 \/ j = 3 \/ j = 4
  OBVIOUS
<1> QED BY <1>1 DEF Backfills, Keys

\* Links join messages that exist.
LEMMA LinksInside ==
  ASSUME NEW log
  PROVE  /\ ExplicitLinks(log) \subseteq (DOMAIN log) \X (DOMAIN log)
         /\ StructuredLinks(log) \subseteq (DOMAIN log) \X (DOMAIN log)
         /\ SharedLinks(log) \subseteq (DOMAIN log) \X (DOMAIN log)
         /\ Tagged(log) \subseteq DOMAIN log
BY DEF ExplicitLinks, StructuredLinks, SharedLinks, Tagged

\* The relations are read after the facets are recorded.
LEMMA FacetsFirst ==
  ASSUME IInv, NEW p \in Process, pc[p] \in Starting, Todo(p) = "relations"
  PROVE  "facets" \in View(p).keys
<1>1. todo[p] = 4
  <2>1. todo[p] \in 1 .. 4
    BY DEF IInv, TypeOK
  <2>2. todo[p] = 1 \/ todo[p] = 2 \/ todo[p] = 3 \/ todo[p] = 4
    BY <2>1
  <2> QED BY <2>2, FourBackfills DEF Todo
<1>2. \A j \in 1 .. todo[p] - 1 : Backfills[j] \in View(p).keys
  BY DEF IInv, Knows
<1>3. Backfills[3] \in View(p).keys
  BY <1>1, <1>2
<1> QED BY <1>3, FourBackfills

\* What a process sees is one of the two copies, and is sound while it may
\* still be committed.
LEMMA ViewKept ==
  ASSUME IInv, NEW p \in Process
  PROVE  /\ View(p) \in Tables
         /\ tables.keys \subseteq View(p).keys /\ View(p).keys \subseteq Keys
         /\ (pc[p] = "record" => Todo(p) \notin View(p).keys) => Clean(View(p))
<1>1. CASE writer = p
  BY <1>1 DEF IInv, TypeOK, Tables, DraftKept, View
<1>2. CASE writer # p
  BY <1>2 DEF IInv, TypeOK, Tables, DraftKept, View
<1> QED BY <1>1, <1>2

\* A step of p leaves the others as they are if it leaves the file so.
LEMMA OthersKnow ==
  ASSUME IInv, NEW p \in Process, NEW q \in Process, p # q,
         writer = q <=> writer' = q, writer = q => draft' = draft,
         UNCHANGED <<memory, tables>>,
         pc'[q] = pc[q], todo'[q] = todo[q], read'[q] = read[q]
  PROVE  Knows(q)'
<1>1. View(q)' = View(q)
  BY DEF View
<1>2. Todo(q)' = Todo(q)
  BY DEF Todo
<1>3. Knows(q)
  BY DEF IInv
<1>4. \A t, key : Done(t, key) <=> Done(t, key)'
  BY DEF Done
<1> QED BY <1>1, <1>2, <1>3, <1>4 DEF Knows

\* What is sound stays so while the messages are the same.
LEMMA CleanStays ==
  ASSUME UNCHANGED memory
  PROVE  \A t : Clean(t) <=> Clean(t)'
BY DEF Clean, Sound, Done

----------------------------------------------------------------------------
(* One lemma per action *)

\* The end of a start-up without commit, of whatever kind.
LEMMA StopIInv ==
  ASSUME IInv, NEW p \in Process, NEW s \in Stopped, Abandon(p), Goto(p, s),
         s = "refused" => tables.keys = Keys,
         UNCHANGED <<memory, supersedes, tables, todo, read>>
  PROVE  IInv'
<1> USE DEF IInv
<1>1. writer' = (IF writer = p THEN None ELSE writer) /\ pc' = [pc EXCEPT ![p] = s]
  BY DEF Abandon, Goto
<1>2. draft' = (IF writer = p THEN tables ELSE draft)
  BY DEF Abandon
<1>3. TypeOK'
  BY <1>1, <1>2 DEF TypeOK, StoreOK
<1>4. Clean(tables)'
  BY CleanStays
<1>5. DraftKept'
  <2>1. \A q \in Process : writer' = q =>
          pc'[q] \in Starting /\ (Clean(draft)' \/ (pc'[q] = "record" /\ Todo(q)' \in draft'.keys))
    BY <1>1, <1>2, CleanStays, ProcessAssumption DEF DraftKept, TypeOK, Todo
  <2> QED BY <1>1, <1>2, <2>1 DEF DraftKept
<1>6. Knows(p)'
  <2>1. pc'[p] = s /\ s \notin Starting \cup {"serving"}
    BY <1>1 DEF TypeOK, Stopped, Starting
  <2> QED BY <2>1 DEF Knows, Starting
<1>7. ASSUME NEW q \in Process, p # q PROVE Knows(q)'
  <2>1. pc'[q] = pc[q]
    BY <1>1, <1>7 DEF TypeOK
  <2> QED BY <1>1, <1>2, <1>7, <2>1, OthersKnow, ProcessAssumption
<1> QED BY <1>3, <1>4, <1>5, <1>6, <1>7

LEMMA StartUpIInv ==
  ASSUME IInv, NEW p \in Process, StartUp(p)
  PROVE  IInv'
<1> USE DEF IInv
<1>1. pc' = [pc EXCEPT ![p] = "find"] /\ todo' = [todo EXCEPT ![p] = 1] /\ read' = [read EXCEPT ![p] = 0]
  BY DEF StartUp, Goto
<1>2. UNCHANGED <<memory, supersedes, tables, draft, writer>>
  BY DEF StartUp
<1>3. TypeOK'
  BY <1>1, <1>2, MaxMessagesAssumption DEF TypeOK, StoreOK, Starting
<1>4. Clean(tables)'
  BY <1>2, CleanStays
<1>5. writer # p
  BY DEF StartUp, DraftKept, Starting, Stopped
<1>6. \A q \in Process : q # p => pc'[q] = pc[q] /\ todo'[q] = todo[q] /\ read'[q] = read[q]
  BY <1>1 DEF TypeOK
<1>7. DraftKept'
  BY <1>2, <1>5, <1>6, CleanStays DEF DraftKept, Todo
<1>8. Knows(p)'
  BY <1>1 DEF TypeOK, Knows
<1>9. ASSUME NEW q \in Process, p # q PROVE Knows(q)'
  BY <1>2, <1>6, <1>9, OthersKnow
<1> QED BY <1>3, <1>4, <1>7, <1>8, <1>9

\* The next key is asked for when the last is in view.
LEMMA NextKnows ==
  ASSUME IInv, NEW p \in Process, pc[p] \in Starting, NextBackfill(p), UNCHANGED <<memory, read>>,
         View(p)' \in Tables, View(p).keys \subseteq View(p)'.keys,
         Todo(p) \in View(p)'.keys
  PROVE  Knows(p)'
<1>1. todo[p] \in 1 .. 4 /\ pc'[p] = (IF todo[p] < 4 THEN "find" ELSE "commit")
      /\ todo'[p] = (IF todo[p] < 4 THEN todo[p] + 1 ELSE todo[p])
      /\ read'[p] <= Len(memory')
  BY DEF IInv, TypeOK, NextBackfill, Goto, Knows
<1>2. \A j \in 1 .. todo[p] : Backfills[j] \in View(p)'.keys
  <2> TAKE j \in 1 .. todo[p]
  <2>1. CASE j = todo[p]
    BY <2>1 DEF Todo
  <2>2. CASE j # todo[p]
    <3>1. j \in 1 .. todo[p] - 1
      BY <1>1, <2>2
    <3> QED BY <3>1 DEF IInv, Knows
  <2> QED BY <2>1, <2>2
<1>3. CASE todo[p] < 4
  <2>1. 1 .. todo'[p] - 1 = 1 .. todo[p]
    BY <1>1, <1>3
  <2> QED BY <1>1, <1>2, <1>3, <2>1 DEF Knows
<1>4. CASE todo[p] = 4
  <2>1. Keys \subseteq View(p)'.keys
    BY <1>2, <1>4, FourBackfills DEF Keys
  <2>2. 1 .. todo'[p] - 1 \subseteq 1 .. todo[p]
    BY <1>1, <1>4
  <2> QED BY <1>1, <1>2, <1>4, <2>1, <2>2 DEF Knows
<1> QED BY <1>1, <1>3, <1>4

LEMMA FindKeyIInv ==
  ASSUME IInv, NEW p \in Process, FindKey(p)
  PROVE  IInv'
<1> USE DEF IInv
<1>1. UNCHANGED <<memory, supersedes, tables, draft, writer, read>> /\ pc[p] = "find"
  BY DEF FindKey
<1>2. \A q \in Process : q # p => pc'[q] = pc[q] /\ todo'[q] = todo[q]
  BY DEF FindKey, NextBackfill, Goto, TypeOK
<1>3. TypeOK'
  <2>1. pc' \in [Process -> Starting \cup Stopped \cup {"serving"}]
    BY DEF FindKey, NextBackfill, Goto, TypeOK, Starting
  <2>2. todo' \in [Process -> 1 .. 4]
    BY DEF FindKey, NextBackfill, TypeOK
  <2> QED BY <1>1, <2>1, <2>2 DEF TypeOK, StoreOK
<1>4. Clean(tables)'
  BY <1>1, CleanStays
<1>5. pc'[p] \in {"find", "commit", "read"}
  BY DEF FindKey, NextBackfill, Goto, TypeOK
<1>6. DraftKept'
  BY <1>1, <1>2, <1>5, CleanStays DEF DraftKept, Todo, Starting
<1>7. View(p)' = View(p) /\ View(p) \in Tables
  BY <1>1, ViewKept DEF View
<1>8. Knows(p)'
  <2>1. CASE Todo(p) \in View(p).keys
    <3>1. NextBackfill(p) /\ pc[p] \in Starting
      BY <1>1, <2>1 DEF FindKey, Todo, Starting
    <3> QED BY <1>1, <1>7, <2>1, <3>1, NextKnows
  <2>2. CASE Todo(p) \notin View(p).keys
    <3>1. pc'[p] = "read" /\ todo' = todo
      BY <2>2 DEF FindKey, Goto, TypeOK, Todo
    <3>2. \A j \in 1 .. todo[p] - 1 : Backfills[j] \in View(p).keys
      BY <1>1 DEF Knows, Starting
    <3> QED BY <1>1, <1>7, <2>2, <3>1, <3>2 DEF Knows, Todo
  <2> QED BY <2>1, <2>2
<1>9. ASSUME NEW q \in Process, p # q PROVE Knows(q)'
  BY <1>1, <1>2, <1>9, OthersKnow
<1> QED BY <1>3, <1>4, <1>6, <1>8, <1>9

LEMMA ReadMessagesIInv ==
  ASSUME IInv, NEW p \in Process, ReadMessages(p)
  PROVE  IInv'
<1> USE DEF IInv
<1>1. /\ UNCHANGED <<memory, supersedes, tables, draft, writer, todo>> /\ pc[p] = "read"
      /\ pc' = [pc EXCEPT ![p] = "write"] /\ read' = [read EXCEPT ![p] = Len(memory)]
  BY DEF ReadMessages, Goto
<1>2. Len(memory) \in 0 .. MaxMessages
  BY MaxMessagesAssumption DEF TypeOK, StoreOK
<1>3. TypeOK'
  BY <1>1, <1>2 DEF TypeOK, StoreOK, Starting
<1>4. Clean(tables)'
  BY <1>1, CleanStays
<1>5. \A q \in Process : q # p => pc'[q] = pc[q] /\ read'[q] = read[q]
  BY <1>1 DEF TypeOK
<1>6. pc'[p] = "write" /\ read'[p] = Len(memory)
  BY <1>1 DEF TypeOK
<1>7. DraftKept'
  BY <1>1, <1>5, <1>6, CleanStays DEF DraftKept, Todo, Starting
<1>8. Knows(p)'
  BY <1>1, <1>6 DEF Knows, Todo, View, Starting
<1>9. ASSUME NEW q \in Process, p # q PROVE Knows(q)'
  BY <1>1, <1>5, <1>9, OthersKnow
<1> QED BY <1>3, <1>4, <1>7, <1>8, <1>9

\* What a backfill of the messages log writes is of the right form.
LEMMA BackfilledTables ==
  ASSUME NEW log \in Seq(Memory), DOMAIN log \subseteq Slots, NEW t \in Tables, NEW key \in Keys
  PROVE  /\ Backfilled(t, log, key) \in Tables
         /\ Backfilled(t, log, key).keys = t.keys
<1>1. log \in Seq(Memory) /\ DOMAIN log \subseteq Slots
  OBVIOUS
<1>2. DOMAIN Readable(log, t) = DOMAIN log
  BY DEF Readable
<1>3. /\ StructuredLinks(Readable(log, t)) \subseteq Slots \X Slots
      /\ SharedLinks(Readable(log, t)) \subseteq Slots \X Slots
  BY <1>1, <1>2 DEF StructuredLinks, SharedLinks
<1>4. Tagged(log) \subseteq Slots
  BY <1>1 DEF Tagged
<1>5. CASE key = "lexical"
  <2>1. Backfilled(t, log, key) = Rebuilt(t, log)
    BY <1>5 DEF Backfilled
  <2>2. [n \in Slots |-> IF n \in DOMAIN log THEN 1 ELSE 0] \in [Slots -> Nat]
    OBVIOUS
  <2> QED BY <2>1, <2>2 DEF Rebuilt, Tables
<1>6. CASE key = "tags"
  BY <1>4, <1>6 DEF Backfilled, Tables
<1>7. CASE key = "facets"
  <2> DEFINE F == [n \in Slots |-> IF n \in DOMAIN log THEN Joined(t.facets[n], Facets(log, 1, n)) ELSE t.facets[n]]
  <2>1. Backfilled(t, log, key) = [t EXCEPT !.facets = F]
    BY <1>7 DEF Backfilled, Analysed, Tables
  <2>2. ASSUME NEW n \in DOMAIN log PROVE Joined(t.facets[n], Facets(log, 1, n)) \in FacetSet
    <3>1. t.facets[n] \in FacetSet
      BY <1>1 DEF Tables, FacetSet
    <3>2. Facets(log, 1, n) \in FacetSet
      BY <1>1, FacetsFit
    <3>3. \A d \in Kind : t.facets[n][d] \subseteq Value /\ Facets(log, 1, n)[d] \subseteq Value
      BY <3>1, <3>2 DEF FacetSet
    <3> QED BY <3>3, JoinedFit
  <2>3. F \in [Slots -> FacetSet]
    BY <2>2 DEF Tables, FacetSet
  <2> HIDE DEF F
  <2> QED BY <2>1, <2>3 DEF Tables, FacetSet
<1>8. CASE key = "relations"
  <2> DEFINE S == StructuredLinks(Readable(log, t))
             H == SharedLinks(Readable(log, t))
  <2>1. Backfilled(t, log, key) = [t EXCEPT !.links = @ \cup S, !.shared = @ \cup H]
    BY <1>8 DEF Backfilled, Related
  <2>2. S \subseteq Slots \X Slots /\ H \subseteq Slots \X Slots
    BY <1>3
  <2> HIDE DEF S, H
  <2>3. \A X \in SUBSET (Slots \X Slots) : /\ [t EXCEPT !.links = @ \cup X] \in Tables
                                            /\ [t EXCEPT !.shared = @ \cup X] \in Tables
    BY DEF Tables
  <2>4. [t EXCEPT !.links = @ \cup S, !.shared = @ \cup H]
          = [[t EXCEPT !.links = @ \cup S] EXCEPT !.shared = @ \cup H]
    BY DEF Tables
  <2>5. \A v \in Tables : \A X \in SUBSET (Slots \X Slots) : [v EXCEPT !.shared = @ \cup X] \in Tables
    BY DEF Tables
  <2>6. [t EXCEPT !.links = @ \cup S, !.shared = @ \cup H] \in Tables
    BY <2>2, <2>3, <2>4, <2>5
  <2> QED BY <2>1, <2>6 DEF Tables
<1> QED BY <1>5, <1>6, <1>7, <1>8 DEF Keys

\* A backfill of all messages, in its turn, completes its rows.
LEMMA BackfilledClean ==
  ASSUME memory \in Seq(Memory), Len(memory) <= MaxMessages, NEW t \in Tables, Clean(t), NEW key \in Keys,
         key \notin t.keys, key = "relations" => "facets" \in t.keys
  PROVE  /\ Clean(Backfilled(t, memory, key))
         /\ Done(Backfilled(t, memory, key), key)
         /\ ~HasRows(t, memory, key) => Done(t, key)
<1> DEFINE u == Backfilled(t, memory, key)
<1>0. DOMAIN memory \subseteq Slots
  BY MaxMessagesAssumption DEF Slots
<1>1. CASE key = "lexical"
  <2>1. u = Rebuilt(t, memory) /\ HasRows(t, memory, key)
    BY <1>1 DEF Backfilled, HasRows
  <2>2. /\ u.plain = {}
        /\ u.index = [n \in Slots |-> IF n \in DOMAIN memory THEN 1 ELSE 0]
        /\ u.tags = t.tags /\ u.facets = t.facets /\ u.shared = t.shared
        /\ u.links = t.links /\ u.keys = t.keys
    BY <2>1 DEF Rebuilt, Tables
  <2> HIDE DEF u
  <2>3. Sound(u)
    BY <2>2 DEF Clean, Sound
  <2>4. \A k \in u.keys \cup {key} : Done(u, k)
    BY <1>1, <2>2 DEF Clean, Done
  <2> QED BY <2>1, <2>3, <2>4 DEF Clean, u
<1>2. CASE key = "tags"
  BY <1>2 DEF Backfilled, HasRows, Tables, Clean, Sound, Done
<1>3. CASE key = "facets"
  <2> DEFINE F == [n \in Slots |-> IF n \in DOMAIN memory THEN Joined(t.facets[n], Facets(memory, 1, n))
                                                       ELSE t.facets[n]]
  <2>1. u = [t EXCEPT !.facets = F]
    BY <1>3 DEF Backfilled, Analysed, Tables
  <2>2. /\ u.facets = F
        /\ u.plain = t.plain /\ u.index = t.index /\ u.tags = t.tags
        /\ u.shared = t.shared /\ u.links = t.links /\ u.keys = t.keys
    BY <2>1 DEF Tables
  <2>3. ASSUME NEW n \in DOMAIN memory
        PROVE  Within(memory, n, F[n]) /\ Complete(memory, n, F[n])
    <3>1. F[n] = Joined(t.facets[n], Facets(memory, 1, n)) /\ t.facets[n] \in FacetSet
      BY <1>0 DEF Tables, FacetSet
    <3>2. Within(memory, n, t.facets[n])
      BY DEF Clean, Sound
    <3>3. /\ Facets(memory, 1, n) \in FacetSet /\ Complete(memory, n, Facets(memory, 1, n))
          /\ Within(memory, n, Facets(memory, 1, n))
      BY FacetsFit
    <3> HIDE DEF F
    <3> QED BY <3>1, <3>2, <3>3, JoinedFit DEF FacetSet
  <2> HIDE DEF u, F
  <2>4. "facets" \notin u.keys /\ "relations" \notin u.keys
    BY <1>3, <2>2 DEF Clean, Sound
  <2>5. Sound(u)
    BY <1>3, <2>2, <2>3, <2>4 DEF Clean, Sound
  <2>6. Done(u, key) /\ \A k \in u.keys : Done(u, k)
    BY <1>3, <2>2, <2>3, <2>4 DEF Clean, Done
  <2>7. ASSUME ~HasRows(t, memory, key) PROVE Done(t, key)
    <3> SUFFICES ASSUME NEW n \in DOMAIN memory PROVE Complete(memory, n, t.facets[n])
      BY <1>3 DEF Done
    <3>1. Facets(memory, 1, n) = NoFacets
      BY <1>3, <2>7 DEF HasRows
    <3>2. Complete(memory, n, NoFacets)
      BY <3>1, FacetsFit
    <3> QED BY <3>2 DEF Complete, NoFacets
  <2> QED BY <2>5, <2>6, <2>7 DEF Clean, u
<1>4. CASE key = "relations"
  <2> DEFINE A == Annotated(memory, t.facets)
  <2>1. u = Related(t, memory)
    BY <1>4 DEF Backfilled
  <2>2. \A n \in DOMAIN memory : n \in t.plain \/ t.index[n] > 0
    BY <1>0 DEF Clean, Sound
  <2>3. Readable(memory, t) = A
    BY <2>2, ReadableWhole
  <2>4. u = [t EXCEPT !.links = @ \cup StructuredLinks(A), !.shared = @ \cup SharedLinks(A)]
    BY <2>1, <2>3 DEF Related
  <2>5. HasRows(t, memory, key) <=> StructuredLinks(A) # {} \/ SharedLinks(A) # {}
    BY <1>4, <2>3 DEF HasRows
  <2>6. /\ t.links \cup StructuredLinks(A) = ExplicitLinks(memory) \cup StructuredLinks(A)
        /\ t.shared \cup SharedLinks(A) = SharedLinks(A)
    BY DEF Clean, Sound
  <2>7. /\ u.links = ExplicitLinks(memory) \cup StructuredLinks(A) /\ u.shared = SharedLinks(A)
        /\ u.plain = t.plain /\ u.index = t.index /\ u.tags = t.tags
        /\ u.facets = t.facets /\ u.keys = t.keys
    BY <2>4, <2>6 DEF Tables
  <2> HIDE DEF u
  <2>8. Sound(u)
    BY <1>4, <2>7 DEF Clean, Sound
  <2>9. Done(u, key) /\ \A k \in u.keys : Done(u, k)
    BY <1>4, <2>7 DEF Clean, Done
  <2>10. ~HasRows(t, memory, key) => Done(t, key)
    BY <1>4, <2>5, <2>6 DEF Done
  <2> QED BY <2>8, <2>9, <2>10 DEF Clean, u
<1> QED BY <1>1, <1>2, <1>3, <1>4 DEF Keys

LEMMA WriteRowsIInv ==
  ASSUME IInv, NEW p \in Process, WriteRows(p)
  PROVE  IInv'
<1> USE DEF IInv
<1> DEFINE log == SubSeq(memory, 1, read[p])
           key == Todo(p)
           t   == View(p)
           u   == Backfilled(t, log, key)
<1>1. /\ UNCHANGED <<memory, supersedes, tables, todo, read>> /\ pc[p] = "write"
      /\ pc' = [pc EXCEPT ![p] = "record"]
  BY DEF WriteRows, Goto
<1>2. \/ /\ HasRows(t, log, key)
         /\ writer \in {None, p} /\ writer' = p /\ draft' = u
      \/ /\ ~HasRows(t, log, key)
         /\ UNCHANGED <<writer, draft>>
  BY DEF WriteRows, Writes, Todo
<1>3. memory \in Seq(Memory) /\ Len(memory) <= MaxMessages
  BY DEF TypeOK, StoreOK
<1>4. t \in Tables /\ tables.keys \subseteq t.keys /\ Clean(t)
  BY <1>1, ViewKept
<1>5. key \in Keys
  BY FourBackfills DEF TypeOK, Todo
<1>6. u \in Tables /\ u.keys = t.keys
  <2>1. read[p] \in 0 .. Len(memory)
    BY <1>3, MaxMessagesAssumption DEF TypeOK, Knows
  <2>2. log \in Seq(Memory) /\ DOMAIN log \subseteq Slots
    BY <1>3, <2>1, MaxMessagesAssumption DEF Slots
  <2> HIDE DEF log, t, key
  <2> QED BY <1>4, <1>5, <2>2, BackfilledTables
<1>7. ASSUME key \notin t.keys
      PROVE  Clean(u) /\ Done(u, key) /\ (~HasRows(t, log, key) => Done(t, key))
  <2>1. read[p] = Len(memory)
    BY <1>1, <1>7 DEF Knows
  <2>2. log = memory
    BY <1>3, <2>1
  <2>3. key = "relations" => "facets" \in t.keys
    BY <1>1, FacetsFirst DEF Starting
  <2> QED BY <1>3, <1>4, <1>5, <1>7, <2>2, <2>3, BackfilledClean
<1>8. View(p)' = (IF HasRows(t, log, key) THEN u ELSE t)
  BY <1>1, <1>2 DEF View
<1> HIDE DEF u, t, log
<1>9. View(p)'.keys = t.keys /\ Todo(p)' = key
  BY <1>1, <1>6, <1>8 DEF Todo
<1>10. \A q \in Process : q # p => pc'[q] = pc[q]
  BY <1>1 DEF TypeOK
<1>11. pc'[p] = "record"
  BY <1>1 DEF TypeOK
<1>12. draft' \in Tables /\ writer' \in Process \cup {None}
  BY <1>2, <1>6 DEF TypeOK
<1>13. TypeOK'
  BY <1>1, <1>12 DEF TypeOK, StoreOK, Starting
<1>14. Clean(tables)'
  BY <1>1, CleanStays
<1>15. DraftKept'
  <2>1. tables'.keys \subseteq draft'.keys
    BY <1>1, <1>2, <1>4, <1>6 DEF DraftKept
  <2>2. writer' = None => draft' = tables'
    BY <1>1, <1>2, ProcessAssumption DEF DraftKept
  <2>3. ASSUME NEW q \in Process, writer' = q, q # p
        PROVE  writer = q /\ draft' = draft
    BY <1>2, <2>3
  <2>4. ASSUME writer' = p
        PROVE  Clean(draft') \/ key \in draft'.keys
    <3>1. View(p)' = draft'
      BY <2>4 DEF View
    <3>2. CASE key \in t.keys
      BY <1>9, <3>1, <3>2
    <3>3. CASE key \notin t.keys
      BY <1>4, <1>7, <1>8, <3>1, <3>3
    <3> QED BY <3>2, <3>3
  <2>5. ASSUME NEW q \in Process, writer' = q
        PROVE  /\ pc'[q] \in Starting
               /\ Clean(draft)' \/ (pc'[q] = "record" /\ Todo(q)' \in draft'.keys)
    <3>1. CASE q = p
      BY <1>1, <1>9, <1>11, <2>4, <2>5, <3>1, CleanStays DEF Starting
    <3>2. CASE q # p
      BY <1>1, <1>10, <2>3, <2>5, <3>2, CleanStays DEF DraftKept, Todo
    <3> QED BY <3>1, <3>2
  <2> QED BY <2>1, <2>2, <2>5 DEF DraftKept
<1>16. Knows(p)'
  <2>1. Knows(p)
    OBVIOUS
  <2>2. key \notin t.keys => Done(View(p)', key)
    BY <1>7, <1>8
  <2>3. \A v, k : Done(v, k) <=> Done(v, k)'
    BY <1>1 DEF Done
  <2> QED BY <1>1, <1>9, <1>11, <2>1, <2>2, <2>3 DEF Knows, Starting, t
<1>17. ASSUME NEW q \in Process, p # q PROVE Knows(q)'
  BY <1>1, <1>2, <1>10, <1>17, OthersKnow, ProcessAssumption
<1> QED BY <1>13, <1>14, <1>15, <1>16, <1>17

LEMMA RecordKeyIInv ==
  ASSUME IInv, NEW p \in Process, RecordKey(p)
  PROVE  IInv'
<1> USE DEF IInv
<1> DEFINE key == Todo(p)
           t   == View(p)
<1>1. /\ UNCHANGED <<memory, supersedes, tables, read>> /\ pc[p] = "record"
      /\ writer \in {None, p}
  BY DEF RecordKey
<1>2. CASE key \in t.keys
  <2>1. Abandon(p) /\ Goto(p, "refused") /\ UNCHANGED todo
    BY <1>2 DEF RecordKey, Todo
  <2>2. tables.keys = Keys
    BY <1>1, <1>2 DEF Knows
  <2> QED BY <1>1, <2>1, <2>2, StopIInv DEF Stopped
<1>3. CASE key \notin t.keys
  <2> DEFINE u == [t EXCEPT !.keys = @ \cup {key}]
  <2>1. writer' = p /\ draft' = u /\ NextBackfill(p)
    BY <1>3 DEF RecordKey, Todo, Writes
  <2>2. t \in Tables /\ tables.keys \subseteq t.keys /\ Clean(t)
    BY <1>1, <1>3, ViewKept
  <2>3. key \in Keys
    BY FourBackfills DEF TypeOK, Todo
  <2>4. u \in Tables /\ u.keys = t.keys \cup {key}
    BY <2>2, <2>3 DEF Tables
  <2>5. Clean(u)
    <3>1. Done(t, key)
      BY <1>1, <1>3 DEF Knows
    <3>2. /\ u.plain = t.plain /\ u.index = t.index /\ u.tags = t.tags
          /\ u.facets = t.facets /\ u.shared = t.shared /\ u.links = t.links
      BY <2>2 DEF Tables
    <3>3. key = "relations" => "facets" \in t.keys
      BY <1>1, FacetsFirst DEF Starting
    <3> HIDE DEF u, t
    <3>4. Sound(u)
      BY <2>2, <2>4, <3>2, <3>3 DEF Clean, Sound
    <3>5. \A k \in u.keys : Done(u, k)
      BY <2>2, <2>4, <3>1, <3>2 DEF Clean, Done
    <3> QED BY <3>4, <3>5 DEF Clean
  <2>6. View(p)' = u
    BY <2>1 DEF View
  <2> HIDE DEF u
  <2>7. TypeOK'
    <3>1. pc' \in [Process -> Starting \cup Stopped \cup {"serving"}]
      BY <2>1 DEF NextBackfill, Goto, TypeOK, Starting
    <3>2. todo' \in [Process -> 1 .. 4]
      BY <2>1 DEF NextBackfill, TypeOK
    <3> QED BY <1>1, <2>1, <2>4, <3>1, <3>2 DEF TypeOK, StoreOK
  <2>8. Clean(tables)'
    BY <1>1, CleanStays
  <2>9. \A q \in Process : q # p => pc'[q] = pc[q] /\ todo'[q] = todo[q]
    BY <2>1 DEF NextBackfill, Goto, TypeOK
  <2>10. pc'[p] \in Starting
    BY <2>1 DEF NextBackfill, Goto, TypeOK, Starting
  <2>11. DraftKept'
    BY <1>1, <2>1, <2>2, <2>4, <2>5, <2>10, CleanStays, ProcessAssumption DEF DraftKept
  <2>12. Knows(p)'
    BY <1>1, <2>1, <2>4, <2>6, NextKnows DEF Starting
  <2>13. ASSUME NEW q \in Process, p # q PROVE Knows(q)'
    BY <1>1, <2>1, <2>9, <2>13, OthersKnow, ProcessAssumption
  <2> QED BY <2>7, <2>8, <2>11, <2>12, <2>13
<1> QED BY <1>2, <1>3

LEMMA CommitIInv ==
  ASSUME IInv, NEW p \in Process, Commit(p)
  PROVE  IInv'
<1> USE DEF IInv
<1>1. /\ UNCHANGED <<memory, todo, read>> /\ pc[p] = "commit"
      /\ pc' = [pc EXCEPT ![p] = "serving"]
      /\ tables' = View(p) /\ supersedes' = View(p).links
      /\ writer' = (IF writer = p THEN None ELSE writer)
      /\ draft' = (IF writer = p THEN View(p) ELSE draft)
  BY DEF Commit, Goto
<1>2. View(p) \in Tables /\ Clean(View(p)) /\ View(p).keys = Keys
  BY <1>1, ViewKept DEF Knows
<1>3. memory \in Seq(Memory) /\ Len(memory) <= MaxMessages
  BY DEF TypeOK, StoreOK
<1>4. View(p).links \subseteq (DOMAIN memory) \X (DOMAIN memory)
  BY <1>2, AnnotatedText, LinksInside DEF Clean, Sound
<1>5. TypeOK'
  BY <1>1, <1>2, <1>4 DEF TypeOK, StoreOK
<1>6. Clean(tables)'
  BY <1>1, <1>2, CleanStays
<1>7. \A q \in Process : q # p => pc'[q] = pc[q]
  BY <1>1 DEF TypeOK
<1>8. DraftKept'
  <2>1. CASE writer = p
    BY <1>1, <2>1, ProcessAssumption DEF DraftKept
  <2>2. CASE writer # p
    <3>1. tables' = tables
      BY <1>1, <2>2 DEF View
    <3>2. \A q \in Process : writer' = q =>
            pc'[q] \in Starting /\ (Clean(draft)' \/ (pc'[q] = "record" /\ Todo(q)' \in draft'.keys))
      BY <1>1, <1>7, <2>2, CleanStays DEF DraftKept, Todo
    <3> QED BY <1>1, <2>2, <3>1, <3>2 DEF DraftKept
  <2> QED BY <2>1, <2>2
<1>9. \A q \in Process : tables'.keys \subseteq View(q)'.keys
  BY <1>8 DEF View, DraftKept
<1>10. ASSUME NEW q \in Process PROVE Knows(q)'
  <2>1. todo'[q] \in 1 .. 4 /\ Todo(q)' \in Keys
    BY <1>5, FourBackfills DEF TypeOK, Todo
  <2>2. \A j \in 1 .. todo'[q] - 1 : Backfills[j] \in Keys
    BY <2>1, FourBackfills
  <2>3. Knows(q)
    OBVIOUS
  <2> QED BY <1>1, <1>2, <1>9, <2>1, <2>2, <2>3 DEF Knows
<1> QED BY <1>5, <1>6, <1>8, <1>10

\* What more messages add, and what they leave: E and F are the facets of the
\* messages before and after.
LEMMA GrownFields ==
  ASSUME NEW log \in Seq(Memory), NEW more \in Seq(Memory), NEW E, NEW F, NEW i \in DOMAIN log,
         i \in DOMAIN more, more[i] = log[i], F[i] = E[i]
  PROVE  Texts(more, log, i) /\ Alike(Annotated(more, F), Annotated(log, E), i)
<1> DEFINE A == Annotated(log, E)
           B == Annotated(more, F)
<1>1. Texts(B, more, i) /\ \A j \in Kind : B[i][j] = F[i][j]
  BY AnnotatedText
<1>2. Texts(A, log, i) /\ \A j \in Kind : A[i][j] = E[i][j]
  BY AnnotatedText
<1> HIDE DEF A, B
<1>3. Texts(more, log, i) /\ Alike(B, A, i)
  BY <1>1, <1>2 DEF Texts, Alike
<1> QED BY <1>3 DEF A, B

Grown(log, more, E, F) ==
  LET new == Len(log) + 1 .. Len(more) IN
  /\ ExplicitLinks(more) = ExplicitLinks(log) \cup {r \in ExplicitLinks(more) : r[1] \in new}
  /\ StructuredLinks(Annotated(more, F)) = StructuredLinks(Annotated(log, E))
       \cup {r \in StructuredLinks(Annotated(more, F)) : r[1] \in new}
  /\ SharedLinks(Annotated(more, F)) = SharedLinks(Annotated(log, E))
       \cup {r \in SharedLinks(Annotated(more, F)) : r[1] \in new}
  /\ Tagged(more) = Tagged(log) \cup (Tagged(more) \cap new)

LEMMA GrownLinks ==
  ASSUME NEW log \in Seq(Memory), NEW more \in Seq(Memory), NEW E, NEW F,
         Len(log) <= Len(more), \A i \in 1 .. Len(log) : more[i] = log[i] /\ F[i] = E[i]
  PROVE  Grown(log, more, E, F)
<1> DEFINE new == Len(log) + 1 .. Len(more)
<1>1. /\ Len(log) \in Nat /\ Len(more) \in Nat
      /\ DOMAIN log = 1 .. Len(log) /\ DOMAIN more = 1 .. Len(more)
      /\ 1 .. Len(log) \subseteq 1 .. Len(more)
  OBVIOUS
<1>2. \A i \in 1 .. Len(log) : Texts(more, log, i) /\ Alike(Annotated(more, F), Annotated(log, E), i)
  BY <1>1, GrownFields
<1>3. DOMAIN Annotated(log, E) = 1 .. Len(log) /\ DOMAIN Annotated(more, F) = 1 .. Len(more)
  BY <1>1, AnnotatedText
<1>4. ExplicitLinks(more) = ExplicitLinks(log) \cup {r \in ExplicitLinks(more) : r[1] \in new}
  BY <1>1, <1>2, ExplicitGrow
<1>5. \A A, B : /\ \A i \in 1 .. Len(log) : Alike(B, A, i)
                /\ DOMAIN A = 1 .. Len(log) /\ DOMAIN B = 1 .. Len(more)
        => /\ StructuredLinks(B) = StructuredLinks(A) \cup {r \in StructuredLinks(B) : r[1] \in new}
           /\ SharedLinks(B) = SharedLinks(A) \cup {r \in SharedLinks(B) : r[1] \in new}
  BY <1>1, FacetLinksGrow
<1>6. Tagged(more) = Tagged(log) \cup (Tagged(more) \cap new)
  BY <1>1 DEF Tagged
<1> QED BY <1>2, <1>3, <1>4, <1>5, <1>6 DEF Grown

LEMMA GrownFit ==
  ASSUME NEW log \in Seq(Memory), NEW more \in Seq(Memory),
         \A j \in 1 .. Len(log) : more[j] = log[j], NEW i \in 1 .. Len(log), NEW f
  PROVE  Complete(log, i, f) /\ Within(log, i, f) => Complete(more, i, f) /\ Within(more, i, f)
<1>1. i \in Nat /\ i # 0 /\ \A j \in 1 .. i : j \in 1 .. Len(log)
  OBVIOUS
<1> QED BY <1>1, FitStays

\* v: the tables after the messages of log beyond memory have been written, with
\* their facets F, and linked to what can be read.
Served(log, F, v) ==
  LET new == Len(memory) + 1 .. Len(log) IN
  /\ log \in Seq(Memory) /\ Len(memory) <= Len(log) /\ Len(log) <= MaxMessages
  /\ \A i \in 1 .. Len(memory) : log[i] = memory[i] /\ F[i] = tables.facets[i]
  /\ \A i \in new : Complete(log, i, F[i]) /\ Within(log, i, F[i])
  /\ v.plain = tables.plain /\ v.keys = tables.keys /\ v.facets = F
  /\ \A i \in Slots : v.index[i] = IF i \in new THEN tables.index[i] + 1 ELSE tables.index[i]
  /\ v.tags = tables.tags \cup (Tagged(log) \cap new)
  /\ v.links = tables.links \cup {r \in ExplicitLinks(log) \cup StructuredLinks(Annotated(log, F)) : r[1] \in new}
  /\ v.shared = tables.shared \cup {r \in SharedLinks(Annotated(log, F)) : r[1] \in new}

\* They are as sound as the tables before.
LEMMA GrownClean ==
  ASSUME memory \in Seq(Memory), tables \in Tables, tables.keys = Keys, Clean(tables),
         NEW log, memory' = log, NEW F, NEW v, Served(log, F, v)
  PROVE  Clean(v)'
<1> DEFINE new == Len(memory) + 1 .. Len(log)
           E == tables.facets
<1>1. /\ Len(memory) \in Nat /\ Len(log) \in Nat /\ log \in Seq(Memory)
      /\ DOMAIN memory = 1 .. Len(memory) /\ DOMAIN log = 1 .. Len(log)
  BY DEF Served
<1>2. DOMAIN log \subseteq Slots /\ DOMAIN log = DOMAIN memory \cup new /\ DOMAIN memory \cap new = {}
  BY <1>1, MaxMessagesAssumption DEF Slots, Served
<1>3. /\ tables.plain = {} /\ tables.tags = Tagged(memory)
      /\ \A i \in DOMAIN memory : Complete(memory, i, E[i]) /\ Within(memory, i, E[i])
      /\ tables.shared = SharedLinks(Annotated(memory, E))
      /\ tables.links = ExplicitLinks(memory) \cup StructuredLinks(Annotated(memory, E))
      /\ \A i \in Slots : tables.index[i] = IF i \in DOMAIN memory THEN 1 ELSE 0
  BY DEF Clean, Sound, Done, Keys
<1>4. Grown(memory, log, E, F)
  <2>1. Len(memory) <= Len(log) /\ \A i \in 1 .. Len(memory) : log[i] = memory[i] /\ F[i] = E[i]
    BY DEF Served
  <2> HIDE DEF E
  <2> QED BY <1>1, <2>1, GrownLinks
<1> HIDE DEF E
<1>5. /\ v.tags = Tagged(log) /\ v.shared = SharedLinks(Annotated(log, F))
      /\ v.links = ExplicitLinks(log) \cup StructuredLinks(Annotated(log, F))
      /\ v.plain = {} /\ v.keys = Keys /\ v.facets = F
  BY <1>3, <1>4 DEF Served, Grown
<1>6. \A i \in Slots : v.index[i] = IF i \in DOMAIN log THEN 1 ELSE 0
  BY <1>2, <1>3 DEF Served
<1>7. \A i \in DOMAIN log : Complete(log, i, F[i]) /\ Within(log, i, F[i])
  <2>1. ASSUME NEW i \in DOMAIN memory PROVE Complete(log, i, F[i]) /\ Within(log, i, F[i])
    <3>1. i \in 1 .. Len(memory) /\ Complete(memory, i, F[i]) /\ Within(memory, i, F[i])
      BY <1>1, <1>3 DEF Served, E
    <3>2. \A j \in 1 .. Len(memory) : log[j] = memory[j]
      BY DEF Served
    <3> QED BY <1>1, <3>1, <3>2, GrownFit
  <2> QED BY <1>2, <2>1 DEF Served
<1>8. Sound(v)'
  BY <1>5, <1>6, <1>7 DEF Sound, Keys
<1>9. \A key : Done(v, key)'
  BY <1>5, <1>7 DEF Done
<1> QED BY <1>8, <1>9 DEF Clean

LEMMA ServeIInv ==
  ASSUME IInv, NEW p \in Process, NEW request \in Requests,
         NEW extra \in [DOMAIN request -> Enrichment], Serve(p, request, extra)
  PROVE  IInv'
<1> USE DEF IInv
<1> DEFINE log == memory \o request
           old == Len(memory)
           new == old + 1 .. Len(log)
           I == [n \in Slots |-> IF n \in new THEN tables.index[n] + 1 ELSE tables.index[n]]
           F == [n \in Slots |->
                   IF n \in new THEN Joined(Facets(log, old + 1, n), extra[n - old]) ELSE tables.facets[n]]
           G == tables.tags \cup (Tagged(log) \cap new)
           t == [tables EXCEPT !.index = I, !.tags = G, !.facets = F]
           seen == Readable(log, t)
           L == {r \in ExplicitLinks(seen) \cup StructuredLinks(seen) : r[1] \in new}
           H == {r \in SharedLinks(seen) : r[1] \in new}
<1>1. /\ memory \in Seq(Memory) /\ tables \in Tables /\ tables.keys = Keys /\ Clean(tables)
      /\ pc[p] = "serving" /\ writer = None
  BY DEF Serve, TypeOK, StoreOK, Knows
<1>2. request \in Seq(Memory)
  <2>1. PICK k \in Slots : request \in [1 .. k -> Memory]
    BY DEF Requests
  <2> QED BY <2>1 DEF Slots
<1>3. tables' = [t EXCEPT !.links = tables.links \cup L, !.shared = tables.shared \cup H]
  BY <1>1 DEF Serve, Tables
<1>4. /\ Len(log) <= MaxMessages /\ memory' = log
      /\ supersedes' = tables'.links /\ draft' = tables'
      /\ UNCHANGED <<writer, pc, todo, read>>
  BY DEF Serve
<1>5. /\ log \in Seq(Memory) /\ old \in Nat /\ Len(log) \in Nat /\ old <= Len(log)
      /\ Len(log) = old + Len(request) /\ Len(request) \in Nat
      /\ DOMAIN memory = 1 .. old /\ DOMAIN log = 1 .. Len(log)
      /\ DOMAIN request = 1 .. Len(request)
  BY <1>1, <1>2
<1>6. new \subseteq Slots /\ new \subseteq DOMAIN log /\ DOMAIN memory \cap new = {} /\ DOMAIN memory \subseteq Slots
      /\ DOMAIN log \subseteq Slots
  BY <1>4, <1>5, MaxMessagesAssumption DEF Slots
<1>7. ASSUME NEW n \in new
      PROVE  /\ F[n] \in FacetSet /\ Complete(log, n, F[n]) /\ Within(log, n, F[n])
  <2>1. n - old \in DOMAIN request
    BY <1>5
  <2>2. extra[n - old] \in Enrichment
    BY <2>1
  <2>3. n \in DOMAIN log /\ n \in Slots /\ old + 1 \in Nat \ {0}
    BY <1>5, <1>6
  <2>4. F[n] = Joined(Facets(log, old + 1, n), extra[n - old])
    BY <2>3
  <2> HIDE DEF F, log, old, new
  <2> QED BY <1>5, <2>2, <2>3, <2>4, EnrichedFit
<1>8. F \in [Slots -> FacetSet] /\ \A n \in DOMAIN memory : F[n] = tables.facets[n]
  <2>1. \A n \in Slots : tables.facets[n] \in FacetSet
    BY <1>1 DEF Tables, FacetSet
  <2>2. \A n \in Slots : F[n] \in FacetSet
    BY <1>7, <2>1
  <2>3. \A n \in DOMAIN memory : n \in Slots /\ n \notin new
    BY <1>6
  <2> QED BY <2>2, <2>3
<1>9. /\ DOMAIN t = {"plain", "index", "tags", "facets", "shared", "links", "keys"}
      /\ t.plain = tables.plain /\ t.keys = Keys /\ t.links = tables.links /\ t.shared = tables.shared
      /\ t.tags = G /\ t.facets = F /\ t.index = I
  <2> HIDE DEF I, F, G
  <2> QED BY <1>1 DEF Tables
<1>10. \A n \in DOMAIN log : t.index[n] > 0
  <2> SUFFICES ASSUME NEW n \in DOMAIN log PROVE I[n] > 0
    BY <1>9
  <2>1. n \in Slots /\ tables.index \in [Slots -> Nat] /\ (n \in new \/ n \in DOMAIN memory)
    BY <1>1, <1>5, <1>6 DEF Tables
  <2>2. tables.plain = {}
    BY <1>1 DEF Clean, Done, Keys
  <2>3. n \notin new => tables.index[n] = 1
    BY <1>1, <2>1, <2>2 DEF Clean, Sound
  <2>4. I[n] = IF n \in new THEN tables.index[n] + 1 ELSE tables.index[n]
    BY <2>1
  <2> QED BY <2>1, <2>3, <2>4
<1>11. seen = Annotated(log, F)
  <2> HIDE DEF t, log, F
  <2> QED BY <1>9, <1>10, ReadableWhole
<1> HIDE DEF seen, t, I, F, G
<1>12. /\ tables'.plain = tables.plain /\ tables'.keys = tables.keys /\ tables'.facets = F
       /\ tables'.index = I /\ tables'.tags = G
       /\ tables'.links = tables.links \cup L /\ tables'.shared = tables.shared \cup H
  BY <1>1, <1>3, <1>9
<1>13. Clean(tables)' /\ tables'.index \in [Slots -> Nat]
  <2>1. tables'.index = [n \in Slots |-> IF n \in new THEN tables.index[n] + 1 ELSE tables.index[n]]
    BY <1>12 DEF I
  <2>2. tables'.index \in [Slots -> Nat]
    <3>1. tables.index \in [Slots -> Nat]
      BY <1>1 DEF Tables
    <3> HIDE DEF new
    <3> QED BY <2>1, <3>1
  <2>3. tables'.tags = tables.tags \cup (Tagged(log) \cap new)
    BY <1>12 DEF G
  <2>4. ExplicitLinks(Annotated(log, F)) = ExplicitLinks(log)
    BY <1>5, ExplicitByText
  <2>5. /\ tables'.links = tables.links \cup {r \in ExplicitLinks(log) \cup StructuredLinks(Annotated(log, F)) : r[1] \in new}
        /\ tables'.shared = tables.shared \cup {r \in SharedLinks(Annotated(log, F)) : r[1] \in new}
    BY <1>11, <1>12, <2>4
  <2>6. \A i \in new : Complete(log, i, F[i]) /\ Within(log, i, F[i])
    BY <1>7
  <2>7. \A i \in 1 .. Len(memory) : log[i] = memory[i] /\ F[i] = tables.facets[i]
    BY <1>1, <1>2, <1>5, <1>8
  <2>8. \A i \in Slots : tables'.index[i] = IF i \in new THEN tables.index[i] + 1 ELSE tables.index[i]
    BY <2>1
  <2>9. log \in Seq(Memory) /\ Len(memory) <= Len(log) /\ new = Len(memory) + 1 .. Len(log)
    BY <1>5
  <2>10. tables'.plain = tables.plain /\ tables'.keys = tables.keys /\ tables'.facets = F
    BY <1>12
  <2> HIDE DEF log, new, F
  <2>11. Served(log, F, tables')
    BY <1>4, <2>3, <2>5, <2>6, <2>7, <2>8, <2>9, <2>10 DEF Served
  <2>12. Clean(tables)'
    BY <1>1, <1>4, <2>11, GrownClean
  <2> QED BY <2>2, <2>12
<1>14. memory' \in Seq(Memory) /\ Len(memory') = Len(log)
  BY <1>4, <1>5
<1>15. /\ tables'.links \subseteq (DOMAIN log) \X (DOMAIN log)
       /\ tables'.shared \subseteq (DOMAIN log) \X (DOMAIN log)
       /\ tables'.tags \subseteq DOMAIN log /\ tables'.plain \subseteq Slots /\ tables'.keys = Keys
  <2>1. DOMAIN Annotated(memory, tables.facets)' = DOMAIN log
    BY <1>4 DEF Annotated
  <2>2. /\ tables'.links \subseteq ExplicitLinks(log) \cup StructuredLinks(Annotated(log, F))
        /\ tables'.shared \subseteq SharedLinks(Annotated(log, F))
        /\ tables'.tags \subseteq Tagged(log)
    BY <1>4, <1>12, <1>13 DEF Clean, Sound
  <2>3. DOMAIN Annotated(log, F) = DOMAIN log
    BY AnnotatedText
  <2> QED BY <1>1, <1>12, <2>2, <2>3, LinksInside DEF Tables
<1>16. tables' \in Tables
  <2>1. tables' = [ plain |-> tables'.plain, index |-> tables'.index, tags |-> tables'.tags,
                    facets |-> tables'.facets, shared |-> tables'.shared,
                    links |-> tables'.links, keys |-> tables'.keys ]
    <3> DEFINE x == [t EXCEPT !.links = tables.links \cup L, !.shared = tables.shared \cup H]
    <3>1. x = [i \in DOMAIN x |-> x[i]] /\ DOMAIN x = DOMAIN t
      OBVIOUS
    <3> QED BY <1>3, <1>9, <3>1
  <2>2. tables'.facets \in [Slots -> FacetSet]
    BY <1>8, <1>12
  <2>3. /\ tables'.links \subseteq Slots \X Slots /\ tables'.shared \subseteq Slots \X Slots
        /\ tables'.tags \subseteq Slots
    BY <1>6, <1>15
  <2> QED BY <1>13, <1>15, <2>1, <2>2, <2>3 DEF Tables, FacetSet
<1>17. TypeOK'
  <2>1. Len(memory') <= MaxMessages /\ supersedes' \subseteq (DOMAIN memory') \X (DOMAIN memory')
    BY <1>4, <1>14, <1>15
  <2>2. read' \in [Process -> 0 .. MaxMessages] /\ todo' \in [Process -> 1 .. 4]
    BY <1>4 DEF TypeOK
  <2> QED BY <1>4, <1>14, <1>16, <2>1, <2>2 DEF TypeOK, StoreOK
<1>18. DraftKept'
  BY <1>1, <1>4, ProcessAssumption DEF DraftKept
<1>19. ASSUME NEW q \in Process PROVE Knows(q)'
  <2>1. View(q)'.keys = Keys /\ tables'.keys = Keys
    BY <1>4, <1>15 DEF View
  <2>2. todo'[q] \in 1 .. 4 /\ Todo(q)' \in Keys
    BY <1>17, FourBackfills DEF TypeOK, Todo
  <2>3. \A j \in 1 .. todo'[q] - 1 : Backfills[j] \in Keys
    BY <2>2, FourBackfills
  <2>4. read'[q] <= Len(memory')
    <3>1. read[q] <= Len(memory) /\ read[q] \in Int
      BY MaxMessagesAssumption DEF Knows, TypeOK
    <3> QED BY <1>4, <1>5, <1>14, <3>1
  <2> QED BY <2>1, <2>2, <2>3, <2>4 DEF Knows
<1> QED BY <1>13, <1>17, <1>18, <1>19

LEMMA InitIInv == Init => IInv
<1> SUFFICES ASSUME Init PROVE IInv
  OBVIOUS
<1>1. PICK k \in 0 .. MaxOld : memory \in [1 .. k -> Memory]
  BY DEF Init
<1>2. PICK K \in SUBSET Keys, facets \in LeftFacets(memory) :
        ("relations" \in K => "facets" \in K) /\ tables = Left(memory, K, facets)
  BY DEF Init
<1> DEFINE known == [n \in Slots |-> IF "facets" \in K THEN facets[n] ELSE NoFacets]
           A == Annotated(memory, known)
<1>3. memory \in Seq(Memory) /\ Len(memory) = k /\ k <= MaxMessages /\ k \in Nat /\ DOMAIN memory = 1 .. k
  BY <1>1, MaxOldAssumption, MaxMessagesAssumption
<1>4. DOMAIN memory \subseteq Slots
  BY <1>1, <1>3, MaxMessagesAssumption DEF Slots
<1>5. supersedes = tables.links /\ draft = tables /\ writer = None
  BY DEF Init
<1>12. /\ facets \in [Slots -> FacetSet]
       /\ \A n \in DOMAIN memory : Complete(memory, n, facets[n]) /\ Within(memory, n, facets[n])
  <2>1. PICK first \in [DOMAIN memory -> Slots], extra \in [DOMAIN memory -> Enrichment] :
          facets = [n \in Slots |-> IF n \in DOMAIN memory THEN Joined(Facets(memory, first[n], n), extra[n])
                                   ELSE NoFacets]
    BY <1>2 DEF LeftFacets
  <2>2. ASSUME NEW n \in DOMAIN memory
        PROVE  /\ Joined(Facets(memory, first[n], n), extra[n]) \in FacetSet
               /\ Complete(memory, n, Joined(Facets(memory, first[n], n), extra[n]))
               /\ Within(memory, n, Joined(Facets(memory, first[n], n), extra[n]))
    <3>1. first[n] \in Nat \ {0} /\ extra[n] \in Enrichment
      BY DEF Slots
    <3> QED BY <1>3, <3>1, EnrichedFit
  <2>3. \A n \in Slots : facets[n] \in FacetSet
    BY <2>1, <2>2, NoFacetsFit
  <2>4. \A n \in DOMAIN memory : facets[n] = Joined(Facets(memory, first[n], n), extra[n])
    BY <1>4, <2>1
  <2> QED BY <2>1, <2>2, <2>3, <2>4
<1>13. /\ known \in [Slots -> FacetSet]
       /\ \A n \in DOMAIN memory : Within(memory, n, known[n])
       /\ "facets" \in K => \A n \in DOMAIN memory : Complete(memory, n, known[n])
  BY <1>4, <1>12, NoFacetsFit
<1>14. /\ tables = [ plain |-> IF "lexical" \in K THEN {} ELSE DOMAIN memory,
                    index |-> [n \in Slots |-> IF "lexical" \in K /\ n \in DOMAIN memory THEN 1 ELSE 0],
                    tags |-> IF "tags" \in K THEN Tagged(memory) ELSE {},
                    facets |-> known,
                    shared |-> IF "relations" \in K THEN SharedLinks(A) ELSE {},
                    links |-> ExplicitLinks(memory) \cup IF "relations" \in K THEN StructuredLinks(A) ELSE {},
                    keys |-> K ]
       /\ DOMAIN A = DOMAIN memory
  BY <1>2, AnnotatedText DEF Left
<1> HIDE DEF A, known
<1>15. /\ (DOMAIN memory) \X (DOMAIN memory) \subseteq Slots \X Slots
       /\ ExplicitLinks(memory) \subseteq (DOMAIN memory) \X (DOMAIN memory)
       /\ StructuredLinks(A) \subseteq (DOMAIN memory) \X (DOMAIN memory)
       /\ SharedLinks(A) \subseteq (DOMAIN memory) \X (DOMAIN memory)
       /\ Tagged(memory) \subseteq DOMAIN memory
  BY <1>4, <1>14, LinksInside
<1>6. tables \in Tables
  <2>1. [i \in Slots |-> IF "lexical" \in K /\ i \in DOMAIN memory THEN 1 ELSE 0] \in [Slots -> Nat]
    OBVIOUS
  <2> QED BY <1>2, <1>4, <1>13, <1>14, <1>15, <2>1 DEF Tables, FacetSet
<1>7. Clean(tables)
  <2>1. /\ tables.plain = IF "lexical" \in K THEN {} ELSE DOMAIN memory
        /\ tables.index = [n \in Slots |-> IF "lexical" \in K /\ n \in DOMAIN memory THEN 1 ELSE 0]
        /\ tables.tags = IF "tags" \in K THEN Tagged(memory) ELSE {}
        /\ tables.facets = known
        /\ tables.shared = IF "relations" \in K THEN SharedLinks(A) ELSE {}
        /\ tables.links = ExplicitLinks(memory) \cup IF "relations" \in K THEN StructuredLinks(A) ELSE {}
        /\ tables.keys = K /\ Annotated(memory, tables.facets) = A
    BY <1>14 DEF A
  <2>2. Sound(tables)
    BY <1>2, <1>13, <2>1 DEF Sound
  <2>3. \A key \in K : Done(tables, key)
    BY <1>13, <2>1 DEF Done
  <2> QED BY <2>1, <2>2, <2>3 DEF Clean
<1>8. supersedes \subseteq (DOMAIN memory) \X (DOMAIN memory)
  BY <1>5, <1>14, <1>15
<1>9. TypeOK
  BY <1>3, <1>5, <1>6, <1>8, MaxMessagesAssumption DEF TypeOK, StoreOK, Init, Stopped
<1>10. DraftKept
  BY <1>5, ProcessAssumption DEF DraftKept
<1>11. \A p \in Process : Knows(p)
  BY <1>3 DEF Init, Knows, Starting
<1> QED BY <1>7, <1>9, <1>10, <1>11 DEF IInv

----------------------------------------------------------------------------
(* The theorems *)

LEMMA NextIInv == IInv /\ [Next]_vars => IInv'
<1> SUFFICES ASSUME IInv, [Next]_vars PROVE IInv'
  OBVIOUS
<1>1. CASE UNCHANGED vars
  BY <1>1 DEF IInv, TypeOK, StoreOK, Clean, Sound, Done, DraftKept, Knows, View, Todo, vars
<1>2. ASSUME NEW p \in Process, Proceed(p) PROVE IInv'
  <2>1. CASE LockedOut(p)
    <3>1. Abandon(p) /\ Goto(p, "locked")
      BY <2>1 DEF LockedOut, Abandon
    <3> QED BY <2>1, <3>1, StopIInv DEF LockedOut, Stopped
  <2> QED BY <1>2, <2>1, StartUpIInv, FindKeyIInv, ReadMessagesIInv, WriteRowsIInv,
             RecordKeyIInv, CommitIInv DEF Proceed
<1>3. ASSUME NEW p \in Process, NEW r \in Requests, NEW extra \in [DOMAIN r -> Enrichment],
             Serve(p, r, extra)
      PROVE  IInv'
  BY <1>3, ServeIInv
<1>4. CASE Mishap
  <2> SUFFICES ASSUME NEW p \in Process, Fails(p) \/ Crash(p) PROVE IInv'
    BY <1>4 DEF Mishap
  <2>1. CASE Fails(p)
    BY <2>1, StopIInv DEF Fails, Stopped
  <2>2. CASE Crash(p)
    BY <2>2, StopIInv DEF Crash, Stopped
  <2> QED BY <2>1, <2>2
<1> QED BY <1>1, <1>2, <1>3, <1>4 DEF Next

\* The file and the processes keep to the invariant, whoever starts, serves,
\* fails or crashes in whatever order.
THEOREM Invariant == Spec => []IInv
BY InitIInv, NextIInv, PTL DEF Spec

\* The tables of initialize stay of their types (store.py, _SCHEMA).
THEOREM TypeCorrect == Spec => []TypeOK
<1>1. IInv => TypeOK
  BY DEF IInv
<1> QED BY <1>1, Invariant, PTL

\* No interleaving of start-ups, Adds and crashes makes the FTS rebuild of
\* _backfill_lexical_index lose or double the row of a message.
THEOREM IndexNeverLosesMessage == Spec => []IndexedOnce
<1>1. IInv => IndexedOnce
  <2> SUFFICES ASSUME IInv, NEW n \in DOMAIN memory
               PROVE  /\ tables.index[n] = IF n \in tables.plain THEN 0 ELSE 1
                      /\ "lexical" \in tables.keys => n \notin tables.plain
    BY DEF IndexedOnce
  <2>1. n \in Slots
    BY MaxMessagesAssumption DEF IInv, TypeOK, StoreOK, Slots
  <2> QED BY <2>1 DEF IInv, Clean, Sound, Done
<1> QED BY <1>1, Invariant, PTL

\* What is recorded as done is complete, although others start, serve and crash:
\* tags, the facets of each text, and the relations of the facets as stored
\* (_backfill_message_tags, _facets and _backfill_memory_relations beside add).
THEOREM BackfillsComplete == Spec => []AnnotatedInFull
<1>1. IInv => AnnotatedInFull
  BY DEF IInv, TypeOK, Clean, Done, Complete, AnnotatedInFull
<1> QED BY <1>1, Invariant, PTL

\* A pronoun is resolved within one session of one user (analyze_batch under the
\* grouping of _backfill_message_facets, and in add), to who was named last.
THEOREM PronounsStayInSession == Spec => []CarriedWithinSession
<1>1. IInv => CarriedWithinSession
  <2> SUFFICES ASSUME IInv, NEW n \in DOMAIN memory
               PROVE  Within(memory, n, tables.facets[n])
    BY DEF CarriedWithinSession, Within, Who, Where, Same
  <2> QED BY DEF IInv, Clean, Sound
<1> QED BY <1>1, Invariant, PTL

\* A refused start-up has nothing left to do.
THEOREM RefusedFindsAllDone == Spec => []RefusedMeansDone
<1>1. IInv => RefusedMeansDone
  BY DEF IInv, Knows, RefusedMeansDone
<1> QED BY <1>1, Invariant, PTL
=============================================================================
