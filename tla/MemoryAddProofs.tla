-------------------------- MODULE MemoryAddProofs --------------------------
(***************************************************************************)
(* Proofs about MemoryAdd, for any number of workers, request ids,         *)
(* payloads, messages per payload and embedding spaces.                    *)
(*                                                                         *)
(* The invariant that is inductive relates the one writer's draft to the   *)
(* committed entry of its request id: what the insert loop has built so    *)
(* far, statement by statement, and what the draft may differ in from a    *)
(* committed entry when vectors are upserted.                              *)
(***************************************************************************)
EXTENDS MemoryAdd, TLAPS

\* The draft of a request after m message rows, x FTS rows, d derived rows.
Partial(c, m, x, d) ==
  [ payload  |-> c.payload,
    messages |-> [n \in Ordinal |-> IF n < m THEN c.payload ELSE None],
    index    |-> [n \in Ordinal |-> IF n < x THEN 1 ELSE 0],
    derived  |-> IF c.raw THEN {} ELSE {n \in Ordinal : n < d},
    vectors  |-> [n \in Ordinal |-> None] ]

\* What committing draft e over the committed entry old would keep of old.
Extends(e, old) ==
  old.payload # None =>
    /\ e.payload = old.payload /\ e.messages = old.messages
    /\ e.index = old.index /\ e.derived = old.derived
    /\ \A n \in Ordinal : old.vectors[n] # None => e.vectors[n] # None

Inserting(w, m, x, d) ==
  /\ db[call[w].id] = EmptyEntry
  /\ ordinal[w] \in Rows(call[w].payload)
  /\ draft = Partial(call[w], m, x, d)

DraftShape(w) ==
  /\ pc[w] = "resolve" => draft = db[call[w].id] /\ ordinal[w] = 0
  /\ pc[w] = "message" => Inserting(w, ordinal[w], ordinal[w], ordinal[w])
  /\ pc[w] = "index"   => Inserting(w, ordinal[w] + 1, ordinal[w], ordinal[w])
  /\ pc[w] = "derive"  => /\ Inserting(w, ordinal[w] + 1, ordinal[w] + 1, ordinal[w])
                          /\ ~call[w].raw
  /\ pc[w] = "vectors" => call[w].model # None
  /\ pc[w] \in {"vectors", "commit"} =>
       /\ Whole(draft)
       /\ draft.payload = call[w].payload
       /\ Extends(draft, db[call[w].id])

OneWriter  == \A w \in Worker : writer = w <=> pc[w] \in Transaction
DraftsOK   == \A w \in Worker : pc[w] \in Transaction => DraftShape(w)
OkRecorded == \A w \in Worker : pc[w] = "ok" => db[call[w].id].payload = call[w].payload

IInv == TypeOK /\ OneWriter /\ DraftsOK /\ CommittedWhole /\ AckedRecorded /\ OkRecorded

----------------------------------------------------------------------------
(* Lemmas about the data *)

\* A payload's rows are ordinals, the first one among them.
LEMMA RowsAreOrdinals ==
  ASSUME NEW p \in Payload
  PROVE  /\ Rows(p) \subseteq Ordinal /\ 0 \in Rows(p)
         /\ Size[p] \in 1 .. MaxSize /\ 0 \in Ordinal
BY SizeAssumption DEF Rows, Ordinal

LEMMA EmptyEntryType == EmptyEntry \in Entry /\ Whole(EmptyEntry)
BY DEF EmptyEntry, Entry, Whole

\* A whole entry without a payload is the empty one.
LEMMA WholeWithoutPayload ==
  ASSUME NEW e, Whole(e), e.payload \notin Payload
  PROVE  e = EmptyEntry
BY DEF Whole

\* The insert loop ends with a whole entry, and one that is not yet whole
\* only for want of the vectors it may be given next.
LEMMA PartialComplete ==
  ASSUME NEW c \in Call, NEW k \in Nat, k = Size[c.payload],
         NEW d \in Nat, c.raw \/ d = k
  PROVE  Whole(Partial(c, k, k, d)) /\ Partial(c, k, k, d).payload = c.payload
<1>1. c.payload \in Payload  BY DEF Call
<1>2. Rows(c.payload) = {n \in Ordinal : n < k}
  BY <1>1, RowsAreOrdinals DEF Rows, Ordinal
<1> DEFINE e == Partial(c, k, k, d)
<1>3. \A n \in Ordinal : n < k <=> n \in Rows(c.payload)  BY <1>2
<1>4. /\ e.payload = c.payload
      /\ \A n \in Ordinal : /\ e.messages[n] = IF n < k THEN c.payload ELSE None
                            /\ e.index[n] = IF n < k THEN 1 ELSE 0
      /\ e.derived = IF c.raw THEN {} ELSE {n \in Ordinal : n < d}
      /\ e.vectors = [n \in Ordinal |-> IF n \in Rows(e.payload) THEN None ELSE None]
  BY DEF Partial
<1>5. e.derived \in {{}, Rows(c.payload)}  BY <1>2, <1>4
<1> HIDE DEF e
<1>6. Whole(e)  BY <1>1, <1>3, <1>4, <1>5 DEF Whole
<1> QED  BY <1>4, <1>6 DEF e

\* A partial entry has the type of an entry.
LEMMA PartialType ==
  ASSUME NEW c \in Call, NEW m \in Nat, NEW x \in Nat, NEW d \in Nat
  PROVE  Partial(c, m, x, d) \in Entry
BY DEF Partial, Entry, Call

\* The state before the first message of an insert.
LEMMA PartialStart ==
  ASSUME NEW c \in Call
  PROVE  [EmptyEntry EXCEPT !.payload = c.payload] = Partial(c, 0, 0, 0)
<1>1. \A n \in Ordinal : ~(n < 0)  BY DEF Ordinal
<1> QED  BY <1>1 DEF Partial, EmptyEntry

----------------------------------------------------------------------------
(* The inductive invariant *)

LEMMA InitInv == Init => IInv
<1> SUFFICES ASSUME Init PROVE IInv  OBVIOUS
<1>1. 0 \in Ordinal  BY SizeAssumption DEF Ordinal
<1>2. TypeOK
  BY <1>1, EmptyEntryType DEF Init, TypeOK, Steps
<1>3. OneWriter  BY NoneAssumption DEF Init, OneWriter, Transaction
<1>4. CommittedWhole  BY EmptyEntryType DEF Init, CommittedWhole
<1>5. DraftsOK /\ AckedRecorded /\ OkRecorded
  BY DEF Init, DraftsOK, AckedRecorded, OkRecorded, Transaction
<1> QED  BY <1>2, <1>3, <1>4, <1>5 DEF IInv

\* What each kind of step does to pc, call and ordinal, types included.
LEMMA TypeStep == TypeOK /\ [Next]_vars => TypeOK'
<1> SUFFICES ASSUME TypeOK, [Next]_vars PROVE TypeOK'  OBVIOUS
<1> USE DEF TypeOK
<1>1. CASE UNCHANGED vars  BY <1>1 DEF vars
<1>2. ASSUME NEW w \in Worker, NEW c \in Call, Begin(w, c) PROVE TypeOK'
  BY <1>2 DEF Begin, Goto, Steps
<1>3. ASSUME NEW w \in Worker,
             FindExisting(w) \/ Enrich(w) \/ Embed(w) \/ LockTimeout(w) \/ ReadFails(w) \/ ProviderFails(w)
      PROVE TypeOK'
  BY <1>3 DEF FindExisting, Enrich, Embed, LockTimeout, ReadFails, ProviderFails, Goto, Steps,
              Transaction, Answers
<1>4. ASSUME NEW w \in Worker, Lock(w) PROVE TypeOK'
  <2>1. 0 \in Ordinal  BY SizeAssumption DEF Ordinal
  <2>2. call[w] \in Call /\ db[call[w].id] \in Entry  BY <1>4 DEF Lock, Call
  <2> QED  BY <1>4, <2>1, <2>2 DEF Lock, Goto, Steps, Transaction
<1>5. ASSUME NEW w \in Worker, NEW a \in {"conflict", "failed"}, Rollback(w, a),
             UNCHANGED <<db, call, ordinal, acked>>, pc[w] # "idle"
      PROVE TypeOK'
  BY <1>5, EmptyEntryType DEF Rollback, Goto, Steps, Answers
<1>6. ASSUME NEW w \in Worker, Resolve(w) PROVE TypeOK'
  <2>1. call[w] \in Call /\ call[w].payload \in Payload  BY <1>6 DEF Resolve, Call
  <2>2. [draft EXCEPT !.payload = call[w].payload] \in Entry  BY <2>1 DEF Entry
  <2>3. CASE Rollback(w, "conflict")  BY <1>5, <1>6, <2>3 DEF Resolve
  <2>4. CASE draft.payload = call[w].payload
             /\ Goto(w, IF call[w].model # None THEN "vectors" ELSE "commit")
             /\ UNCHANGED <<writer, draft>>
    BY <1>6, <2>4 DEF Resolve, Goto, Steps, Transaction
  <2>5. CASE draft' = [draft EXCEPT !.payload = call[w].payload]
             /\ Goto(w, "message") /\ UNCHANGED writer
    BY <1>6, <2>2, <2>5 DEF Resolve, Goto, Steps, Transaction
  <2> QED  BY <1>6, <2>3, <2>4, <2>5 DEF Resolve
<1>7. ASSUME NEW w \in Worker, InsertMessage(w) PROVE TypeOK'
  <2>1. call[w] \in Call /\ call[w].payload \in Payload  BY <1>7 DEF InsertMessage, Call
  <2>2. draft' \in Entry  BY <1>7, <2>1 DEF InsertMessage, Entry
  <2> QED  BY <1>7, <2>2 DEF InsertMessage, Goto, Steps, Transaction
<1>8. ASSUME NEW w \in Worker, AfterRow(w), pc[w] # "idle"
      PROVE  /\ pc' \in [Worker -> Steps]
             /\ \A v \in Worker : pc'[v] # "idle" => pc[v] # "idle"
             /\ ordinal' \in [Worker -> Ordinal]
  <2>1. Size[call[w].payload] \in 1 .. MaxSize  BY <1>8, RowsAreOrdinals DEF Call
  <2> QED  BY <1>8, <2>1, SizeAssumption DEF AfterRow, Goto, Steps, Transaction, Ordinal
<1>9. ASSUME NEW w \in Worker, InsertIndex(w) PROVE TypeOK'
  <2>0. draft.index \in [Ordinal -> Nat] /\ ordinal[w] \in Ordinal  BY DEF Entry
  <2> DEFINE counts == [draft.index EXCEPT ![ordinal[w]] = @ + 1]
  <2>a. counts \in [Ordinal -> Nat]  BY <2>0
  <2>b. draft' = [draft EXCEPT !.index = counts]  BY <1>9 DEF InsertIndex
  <2>1. draft' \in Entry
    <3> HIDE DEF counts
    <3> QED  BY <2>a, <2>b DEF Entry
  <2>2. CASE AfterRow(w)
    <3>1. pc[w] # "idle"  BY <1>9 DEF InsertIndex
    <3> QED  BY <1>8, <1>9, <2>1, <2>2, <3>1 DEF InsertIndex
  <2>3. CASE Goto(w, "derive") /\ UNCHANGED ordinal
    BY <1>9, <2>1, <2>3 DEF InsertIndex, Goto, Steps, Transaction
  <2> QED  BY <1>9, <2>2, <2>3 DEF InsertIndex
<1>10. ASSUME NEW w \in Worker, Derive(w) PROVE TypeOK'
  <2>1. draft' \in Entry  BY <1>10 DEF Derive, Entry
  <2>2. pc[w] # "idle" /\ AfterRow(w)  BY <1>10 DEF Derive
  <2> QED  BY <1>8, <1>10, <2>1, <2>2 DEF Derive
<1>11. ASSUME NEW w \in Worker, WriteVectors(w) PROVE TypeOK'
  <2>1. call[w].model \in Model \cup {None}  BY <1>11 DEF WriteVectors, Call
  <2>2. draft' \in Entry  BY <1>11, <2>1 DEF WriteVectors, Entry
  <2> QED  BY <1>11, <2>2 DEF WriteVectors, Goto, Steps, Transaction
<1>12. ASSUME NEW w \in Worker, Commit(w) PROVE TypeOK'
  BY <1>12, EmptyEntryType DEF Commit, Goto, Steps, Answers
<1>13. ASSUME NEW w \in Worker, StatementFails(w) PROVE TypeOK'
  <2>1. pc[w] # "idle"  BY <1>13 DEF StatementFails, Transaction
  <2> QED  BY <1>5, <1>13, <2>1 DEF StatementFails
<1>14. ASSUME NEW w \in Worker, Release(w), writer' \in Worker \cup {None},
              draft' \in Entry, UNCHANGED db, acked' \in SUBSET (RequestId \X Payload)
       PROVE TypeOK'
  <2>1. 0 \in Ordinal  BY SizeAssumption DEF Ordinal
  <2> QED  BY <1>14, <2>1 DEF Release, Goto, Steps
<1>15. ASSUME NEW w \in Worker, Reply(w) PROVE TypeOK'
  <2>1. call[w] \in Call  BY <1>15 DEF Reply, Answers
  <2>2. acked' \in SUBSET (RequestId \X Payload)  BY <1>15, <2>1 DEF Reply, Call
  <2> QED  BY <1>14, <1>15, <2>2 DEF Reply
<1>16. ASSUME NEW w \in Worker, Crash(w) PROVE TypeOK'
  <2>1. writer' \in Worker \cup {None} /\ draft' \in Entry
    BY <1>16, EmptyEntryType DEF Crash
  <2> QED  BY <1>14, <1>16, <2>1 DEF Crash
<1> QED
  BY <1>1, <1>2, <1>3, <1>4, <1>6, <1>7, <1>9, <1>10, <1>11, <1>12, <1>13, <1>15, <1>16
  DEF Next, Progress

\* The committed database is only written by Commit.
LEMMA OnlyCommitWrites ==
  Next => UNCHANGED db \/ \E w \in Worker : Commit(w)
BY DEF Next, Progress, Begin, FindExisting, Enrich, Embed, ReadFails, ProviderFails, Lock, LockTimeout,
       Resolve, InsertMessage, InsertIndex, Derive, WriteVectors, StatementFails, Reply, Crash

----------------------------------------------------------------------------
(* Four kinds of steps, by what they do to the write lock *)

\* Where worker w goes, and that no other worker moves.
Moves(w, step) ==
  /\ pc' = [pc EXCEPT ![w] = step]
  /\ \A v \in Worker \ {w} : call'[v] = call[v] /\ ordinal'[v] = ordinal[v]

\* A step outside the transaction.
LEMMA OutsideStep ==
  ASSUME IInv, NEW w \in Worker, NEW step \in Steps \ Transaction,
         pc[w] \notin Transaction, Moves(w, step),
         UNCHANGED <<db, draft, writer>>,
         \A a \in acked' : db[a[1]].payload = a[2],
         step = "ok" => db[call'[w].id].payload = call'[w].payload
  PROVE  (OneWriter /\ DraftsOK /\ CommittedWhole /\ AckedRecorded /\ OkRecorded)'
<1> USE DEF IInv, Moves
<1>1. pc \in [Worker -> Steps]  BY DEF TypeOK
<1>2. \A v \in Worker : pc'[v] = IF v = w THEN step ELSE pc[v]  BY <1>1
<1>3. OneWriter'  BY <1>2 DEF OneWriter
<1>4. DraftsOK'
  <2> SUFFICES ASSUME NEW v \in Worker, pc'[v] \in Transaction PROVE DraftShape(v)'
    BY DEF DraftsOK
  <2>1. v # w /\ pc'[v] = pc[v] /\ call'[v] = call[v] /\ ordinal'[v] = ordinal[v]
    BY <1>2
  <2>2. DraftShape(v)  BY <2>1 DEF DraftsOK
  <2>3. \A m, x, d : Inserting(v, m, x, d)' <=> Inserting(v, m, x, d)
    BY <2>1 DEF Inserting, Partial
  <2>4. Whole(draft)' <=> Whole(draft)  BY DEF Whole
  <2>5. Extends(draft, db[call[v].id])' <=> Extends(draft, db[call[v].id])
    BY <2>1 DEF Extends
  <2> QED  BY <2>1, <2>2, <2>3, <2>4, <2>5 DEF DraftShape
<1>5. CommittedWhole' /\ AckedRecorded'
  BY DEF CommittedWhole, AckedRecorded, Whole
<1>6. OkRecorded'  BY <1>2 DEF OkRecorded
<1> QED  BY <1>3, <1>4, <1>5, <1>6

\* A statement inside the transaction.
LEMMA InsideStep ==
  ASSUME IInv, NEW w \in Worker, NEW step \in Transaction,
         pc[w] \in Transaction, Moves(w, step),
         UNCHANGED <<db, writer, acked, call>>, DraftShape(w)'
  PROVE  (OneWriter /\ DraftsOK /\ CommittedWhole /\ AckedRecorded /\ OkRecorded)'
<1> USE DEF IInv, Moves
<1>1. pc \in [Worker -> Steps]  BY DEF TypeOK
<1>2. \A v \in Worker : pc'[v] = IF v = w THEN step ELSE pc[v]  BY <1>1
<1>3. OneWriter'  BY <1>2 DEF OneWriter
<1>4. \A v \in Worker : pc'[v] \in Transaction => v = w  BY <1>2 DEF OneWriter
<1>5. DraftsOK'  BY <1>4 DEF DraftsOK
<1>6. CommittedWhole' /\ AckedRecorded'
  BY DEF CommittedWhole, AckedRecorded, Whole
<1>7. OkRecorded'  BY <1>2 DEF OkRecorded, Transaction
<1> QED  BY <1>3, <1>5, <1>6, <1>7

\* Leaving the transaction without a commit.
LEMMA LeavingStep ==
  ASSUME IInv, NEW w \in Worker, NEW step \in Steps \ Transaction, step # "ok",
         pc[w] \in Transaction, Moves(w, step),
         UNCHANGED <<db, acked>>, writer' = None
  PROVE  (OneWriter /\ DraftsOK /\ CommittedWhole /\ AckedRecorded /\ OkRecorded)'
<1> USE DEF IInv, Moves
<1>1. pc \in [Worker -> Steps]  BY DEF TypeOK
<1>2. \A v \in Worker : pc'[v] = IF v = w THEN step ELSE pc[v]  BY <1>1
<1>3. \A v \in Worker : pc'[v] \notin Transaction  BY <1>2 DEF OneWriter
<1>4. OneWriter' /\ DraftsOK'  BY <1>3, NoneAssumption DEF OneWriter, DraftsOK
<1>5. CommittedWhole' /\ AckedRecorded'
  BY DEF CommittedWhole, AckedRecorded, Whole
<1>6. OkRecorded'  BY <1>2 DEF OkRecorded
<1> QED  BY <1>4, <1>5, <1>6

\* The commit: one entry is replaced by a whole one that extends it.
LEMMA CommitStep ==
  ASSUME IInv, NEW w \in Worker, Commit(w)
  PROVE  /\ (OneWriter /\ DraftsOK /\ CommittedWhole /\ AckedRecorded /\ OkRecorded)'
         /\ \A i \in RequestId : i # call[w].id => db'[i] = db[i]
         /\ db'[call[w].id] = draft /\ draft.payload = call[w].payload
         /\ draft.payload \in Payload /\ Extends(draft, db[call[w].id])
<1> USE DEF IInv
<1>1. pc[w] = "commit" /\ pc[w] \in Transaction  BY DEF Commit, Transaction
<1>2. pc \in [Worker -> Steps] /\ db \in [RequestId -> Entry] /\ call[w] \in Call
  BY <1>1 DEF TypeOK
<1>3. call[w].id \in RequestId /\ call[w].payload \in Payload  BY <1>2 DEF Call
<1>4. Whole(draft) /\ draft.payload = call[w].payload /\ Extends(draft, db[call[w].id])
  BY <1>1 DEF DraftsOK, DraftShape
<1>5. \A i \in RequestId : db'[i] = IF i = call[w].id THEN draft ELSE db[i]
  BY <1>2 DEF Commit
<1>6. \A v \in Worker : pc'[v] = IF v = w THEN "ok" ELSE pc[v]  BY <1>2 DEF Commit, Goto
<1>7. \A v \in Worker : pc'[v] \notin Transaction
  BY <1>1, <1>6 DEF OneWriter, Transaction
<1>8. OneWriter' /\ DraftsOK'
  BY <1>7, NoneAssumption DEF OneWriter, DraftsOK, Commit
<1>9. CommittedWhole'
  <2> SUFFICES ASSUME NEW i \in RequestId PROVE Whole(db'[i])
    BY DEF CommittedWhole, Whole
  <2> QED  BY <1>4, <1>5 DEF CommittedWhole
<1>10. \A i \in RequestId : db[i].payload # None => db'[i].payload = db[i].payload
  BY <1>4, <1>5 DEF Extends
<1>11. AckedRecorded'
  <2>1. acked' = acked /\ \A a \in acked : a[1] \in RequestId /\ a[2] \in Payload
    BY DEF Commit, TypeOK
  <2> QED  BY <1>10, <2>1, NoneAssumption DEF AckedRecorded
<1>12. OkRecorded'
  <2> SUFFICES ASSUME NEW v \in Worker, pc'[v] = "ok"
               PROVE  db'[call[v].id].payload = call[v].payload
    BY DEF OkRecorded, Commit
  <2>1. CASE v = w  BY <1>3, <1>4, <1>5, <2>1
  <2>2. CASE v # w
    <3>1. pc[v] = "ok" /\ call[v] \in Call  BY <1>6, <2>2 DEF TypeOK
    <3>2. call[v].id \in RequestId /\ call[v].payload \in Payload  BY <3>1 DEF Call
    <3> QED  BY <1>10, <3>1, <3>2, NoneAssumption DEF OkRecorded
  <2> QED  BY <2>1, <2>2
<1> QED  BY <1>3, <1>4, <1>5, <1>8, <1>9, <1>11, <1>12

----------------------------------------------------------------------------
(* The insert loop, statement by statement *)

\* An entry with one of its tables replaced, spelled out.
LEMMA EntryExcept ==
  ASSUME NEW e \in Entry, NEW x
  PROVE  /\ [e EXCEPT !.messages = x] =
              [ payload |-> e.payload, messages |-> x, index |-> e.index,
                derived |-> e.derived, vectors |-> e.vectors ]
         /\ [e EXCEPT !.index = x] =
              [ payload |-> e.payload, messages |-> e.messages, index |-> x,
                derived |-> e.derived, vectors |-> e.vectors ]
         /\ [e EXCEPT !.derived = x] =
              [ payload |-> e.payload, messages |-> e.messages, index |-> e.index,
                derived |-> x, vectors |-> e.vectors ]
BY DEF Entry

LEMMA AfterMessageRow ==
  ASSUME NEW c \in Call, NEW k \in Ordinal
  PROVE  [Partial(c, k, k, k) EXCEPT !.messages[k] = c.payload] = Partial(c, k + 1, k, k)
<1> DEFINE e == Partial(c, k, k, k)
           old == [n \in Ordinal |-> IF n < k THEN c.payload ELSE None]
           new == [n \in Ordinal |-> IF n < k + 1 THEN c.payload ELSE None]
<1>0. e \in Entry  BY PartialType DEF Ordinal
<1>1. \A n \in Ordinal : n < k + 1 <=> n < k \/ n = k  BY DEF Ordinal
<1>2. [old EXCEPT ![k] = c.payload] = new  BY <1>1
<1>3. e.messages = old  BY DEF Partial
<1>4. [e EXCEPT !.messages = new] = Partial(c, k + 1, k, k)
  <2> HIDE DEF new, e
  <2>1. [e EXCEPT !.messages = new] =
          [ payload |-> e.payload, messages |-> new, index |-> e.index,
            derived |-> e.derived, vectors |-> e.vectors ]
    BY <1>0, EntryExcept
  <2> QED  BY <2>1 DEF Partial, new, e
<1> QED  BY <1>2, <1>3, <1>4

LEMMA AfterIndexRow ==
  ASSUME NEW c \in Call, NEW k \in Ordinal
  PROVE  [Partial(c, k + 1, k, k) EXCEPT !.index[k] = @ + 1] = Partial(c, k + 1, k + 1, k)
<1> DEFINE e == Partial(c, k + 1, k, k)
           old == [n \in Ordinal |-> IF n < k THEN 1 ELSE 0]
           new == [n \in Ordinal |-> IF n < k + 1 THEN 1 ELSE 0]
<1>0. e \in Entry  BY PartialType DEF Ordinal
<1>1. \A n \in Ordinal : (n < k + 1 <=> n < k \/ n = k) /\ ~(k < k)  BY DEF Ordinal
<1>2. old[k] + 1 = 1  BY <1>1
<1>3. [old EXCEPT ![k] = old[k] + 1] = new  BY <1>1, <1>2
<1>4. e.index = old  BY DEF Partial
<1>5. [e EXCEPT !.index = new] = Partial(c, k + 1, k + 1, k)
  <2> HIDE DEF new, e
  <2>1. [e EXCEPT !.index = new] =
          [ payload |-> e.payload, messages |-> e.messages, index |-> new,
            derived |-> e.derived, vectors |-> e.vectors ]
    BY <1>0, EntryExcept
  <2> QED  BY <2>1 DEF Partial, new, e
<1> QED  BY <1>3, <1>4, <1>5

LEMMA AfterDerivedRows ==
  ASSUME NEW c \in Call, ~c.raw, NEW k \in Ordinal
  PROVE  [Partial(c, k + 1, k + 1, k) EXCEPT !.derived = @ \cup {k}]
           = Partial(c, k + 1, k + 1, k + 1)
<1> DEFINE e == Partial(c, k + 1, k + 1, k)
           new == {n \in Ordinal : n < k + 1}
<1>0. e \in Entry  BY PartialType DEF Ordinal
<1>1. {n \in Ordinal : n < k} \cup {k} = new  BY DEF Ordinal
<1>2. e.derived = {n \in Ordinal : n < k}  BY DEF Partial
<1>3. [e EXCEPT !.derived = new] = Partial(c, k + 1, k + 1, k + 1)
  <2> HIDE DEF new, e
  <2>1. [e EXCEPT !.derived = new] =
          [ payload |-> e.payload, messages |-> e.messages, index |-> e.index,
            derived |-> new, vectors |-> e.vectors ]
    BY <1>0, EntryExcept
  <2> QED  BY <2>1 DEF Partial, new, e
<1> QED  BY <1>1, <1>2, <1>3

\* The end of one round of the loop.
LEMMA AfterRowShape ==
  ASSUME IInv, NEW w \in Worker, AfterRow(w), pc[w] \in {"index", "derive"},
         db[call[w].id] = EmptyEntry, ordinal[w] \in Rows(call[w].payload),
         draft' = Partial(call[w], ordinal[w] + 1, ordinal[w] + 1, ordinal[w] + 1),
         UNCHANGED <<db, call>>
  PROVE  (\E step \in Transaction : Moves(w, step)) /\ DraftShape(w)'
<1> DEFINE c == call[w]
           k == ordinal[w]
<1>1. /\ pc \in [Worker -> Steps] /\ ordinal \in [Worker -> Ordinal]
      /\ c \in Call /\ c.payload \in Payload
  BY DEF IInv, TypeOK, Call
<1>2. k \in Nat /\ Size[c.payload] \in Nat /\ k < Size[c.payload]
  BY <1>1, RowsAreOrdinals DEF Rows
<1>3. CASE k + 1 < Size[c.payload]
  <2>1. pc' = [pc EXCEPT ![w] = "message"] /\ ordinal' = [ordinal EXCEPT ![w] = k + 1]
    BY <1>3 DEF AfterRow, Goto
  <2>2. pc'[w] = "message" /\ ordinal'[w] = k + 1  BY <1>1, <2>1
  <2>3. k + 1 \in Rows(c.payload)  BY <1>2, <1>3 DEF Rows
  <2>4. Inserting(w, ordinal[w], ordinal[w], ordinal[w])'
    BY <2>2, <2>3 DEF Inserting, Partial
  <2>5. Moves(w, "message")  BY <1>1, <2>1 DEF Moves
  <2> QED  BY <2>2, <2>4, <2>5 DEF DraftShape, Transaction
<1>4. CASE ~(k + 1 < Size[c.payload])
  <2> DEFINE step == IF c.model # None THEN "vectors" ELSE "commit"
  <2>1. pc' = [pc EXCEPT ![w] = step] /\ ordinal' = ordinal
    BY <1>4 DEF AfterRow, Goto
  <2>2. pc'[w] = step  BY <1>1, <2>1
  <2>3. k + 1 = Size[c.payload]  BY <1>2, <1>4
  <2>4. Whole(Partial(c, k + 1, k + 1, k + 1)) /\ Partial(c, k + 1, k + 1, k + 1).payload = c.payload
    BY <1>1, <1>2, <2>3, PartialComplete
  <2>5. Whole(draft')  BY <2>4
  <2>6. Whole(draft)'  BY <2>5 DEF Whole
  <2>7. Extends(draft, db[call[w].id])'  BY DEF Extends, EmptyEntry
  <2>8. Moves(w, step)  BY <1>1, <2>1 DEF Moves
  <2>9. step \in {"vectors", "commit"} /\ (step = "vectors" => c.model # None)  OBVIOUS
  <2>10. draft'.payload = c.payload  BY <2>4
  <2> HIDE DEF step
  <2> QED  BY <2>2, <2>6, <2>7, <2>8, <2>9, <2>10 DEF DraftShape, Transaction
<1> QED  BY <1>3, <1>4

\* The upsert keeps an entry whole and puts it in one embedding space.
LEMMA UpsertWhole ==
  ASSUME NEW e, Whole(e), NEW p \in Payload, e.payload = p, NEW m \in Model,
         NEW f, f = [e EXCEPT !.vectors = [n \in Ordinal |-> IF n \in Rows(p) THEN m ELSE @[n]]],
         NEW old, Extends(e, old), e \in Entry
  PROVE  Whole(f) /\ f.payload = p /\ Extends(f, old)
<1>1. e # EmptyEntry  BY NoneAssumption DEF EmptyEntry
<1> DEFINE v == [n \in Ordinal |-> IF n \in Rows(p) THEN m ELSE e.vectors[n]]
<1>2. f = [e EXCEPT !.vectors = v]  OBVIOUS
<1> HIDE DEF v
<1>3. /\ f.payload = p /\ f.messages = e.messages /\ f.index = e.index
      /\ f.derived = e.derived /\ f.vectors = v
  BY <1>2 DEF Entry
<1>4. v = [n \in Ordinal |-> IF n \in Rows(p) THEN m ELSE None]
  <2>1. \A n \in Ordinal : n \notin Rows(p) => e.vectors[n] = None  BY <1>1 DEF Whole
  <2> QED  BY <2>1 DEF v
<1>5. Whole(f)  BY <1>1, <1>3, <1>4 DEF Whole
<1>6. Extends(f, old)
  <2>1. \A n \in Ordinal : e.vectors[n] # None => v[n] # None  BY NoneAssumption DEF v
  <2> QED  BY <1>3, <2>1 DEF Extends
<1> QED  BY <1>3, <1>5, <1>6

----------------------------------------------------------------------------
(* The invariant is inductive *)

Rest == OneWriter /\ DraftsOK /\ CommittedWhole /\ AckedRecorded /\ OkRecorded

LEMMA StepInv == IInv /\ [Next]_vars => IInv'
<1> SUFFICES ASSUME IInv, [Next]_vars PROVE Rest'
  BY TypeStep DEF IInv, Rest
<1>0. /\ pc \in [Worker -> Steps] /\ ordinal \in [Worker -> Ordinal]
      /\ call \in [Worker -> Call \cup {None}] /\ draft \in Entry
      /\ \A w \in Worker : pc[w] # "idle" => call[w] \in Call
  BY DEF IInv, TypeOK
<1>1. CASE UNCHANGED vars
  <2>1. /\ Whole(draft)' <=> Whole(draft)
        /\ \A v, m, x, d : Inserting(v, m, x, d)' <=> Inserting(v, m, x, d)
        /\ \A v \in Worker :
             Extends(draft, db[call[v].id])' <=> Extends(draft, db[call[v].id])
    BY <1>1 DEF vars, Whole, Inserting, Partial, Extends
  <2>2. DraftsOK'  BY <1>1, <2>1 DEF vars, IInv, DraftsOK, DraftShape
  <2>3. CommittedWhole'  BY <1>1 DEF vars, IInv, CommittedWhole, Whole
  <2> QED
    BY <1>1, <2>2, <2>3 DEF vars, IInv, Rest, OneWriter, AckedRecorded, OkRecorded
<1>a. \A a \in acked : db[a[1]].payload = a[2]  BY DEF IInv, AckedRecorded
<1>2. ASSUME NEW w \in Worker, NEW c \in Call, Begin(w, c) PROVE Rest'
  <2> DEFINE step == IF c.raw THEN "lock" ELSE "find"
  <2>1. Moves(w, step) /\ step \in Steps \ Transaction /\ step # "ok"
    BY <1>0, <1>2 DEF Begin, Goto, Moves, Steps, Transaction
  <2>2. pc[w] \notin Transaction /\ UNCHANGED <<db, draft, writer, acked>>
    BY <1>2 DEF Begin, Transaction
  <2> HIDE DEF step
  <2> QED  BY <1>a, <2>1, <2>2, OutsideStep DEF Rest
<1>3. ASSUME NEW w \in Worker, FindExisting(w) PROVE Rest'
  <2> DEFINE stored == db[call[w].id].payload
             step == CASE stored = None            -> "enrich"
                       [] stored = call[w].payload -> "ok"
                       [] OTHER                    -> "conflict"
  <2>1. Moves(w, step) /\ UNCHANGED <<db, draft, writer, acked, call>>
    BY <1>0, <1>3 DEF FindExisting, Goto, Moves
  <2>2. call[w].payload \in Payload  BY <1>0, <1>3 DEF FindExisting, Call
  <2>3. step \in Steps \ Transaction /\ (step = "ok" => stored = call[w].payload)
    BY <2>2, NoneAssumption DEF Steps, Transaction, Answers
  <2>4. pc[w] \notin Transaction  BY <1>3 DEF FindExisting, Transaction
  <2> HIDE DEF step
  <2> QED  BY <1>a, <2>1, <2>3, <2>4, OutsideStep DEF Rest
<1>4. ASSUME NEW w \in Worker, NEW step \in {"embed", "lock", "unavailable", "failed"},
             pc[w] \notin Transaction, Goto(w, step),
             UNCHANGED <<db, draft, writer, call, ordinal, acked>>
      PROVE Rest'
  <2>1. Moves(w, step) /\ step \in Steps \ Transaction /\ step # "ok"
    BY <1>0, <1>4 DEF Goto, Moves, Steps, Transaction, Answers
  <2> QED  BY <1>a, <1>4, <2>1, OutsideStep DEF Rest
<1>5. ASSUME NEW w \in Worker, Enrich(w) \/ Embed(w) \/ LockTimeout(w) \/ ReadFails(w) \/ ProviderFails(w)
      PROVE Rest'
  <2>1. pc[w] \notin Transaction
    BY <1>5 DEF Enrich, Embed, LockTimeout, ReadFails, ProviderFails, Transaction
  <2> QED  BY <1>4, <1>5, <2>1 DEF Enrich, Embed, LockTimeout, ReadFails, ProviderFails
<1>6. ASSUME NEW w \in Worker, Lock(w) PROVE Rest'
  <2>1. /\ pc[w] \notin Transaction /\ writer = None
        /\ UNCHANGED <<db, call, acked>> /\ writer' = w /\ draft' = db[call[w].id]
        /\ pc' = [pc EXCEPT ![w] = "resolve"] /\ ordinal'[w] = 0
    BY <1>0, <1>6 DEF Lock, Goto, Transaction
  <2>2. \A v \in Worker : pc'[v] = IF v = w THEN "resolve" ELSE pc[v]  BY <1>0, <2>1
  <2>3. \A v \in Worker : pc[v] \notin Transaction
    BY <2>1, NoneAssumption DEF IInv, OneWriter
  <2>4. OneWriter'  BY <2>1, <2>2, <2>3 DEF OneWriter, Transaction
  <2>5. DraftShape(w)'  BY <2>1, <2>2 DEF DraftShape
  <2>6. DraftsOK'  BY <2>2, <2>3, <2>5 DEF DraftsOK
  <2>7. CommittedWhole' /\ AckedRecorded'
    BY <2>1 DEF IInv, CommittedWhole, AckedRecorded, Whole
  <2>8. OkRecorded'  BY <2>1, <2>2 DEF IInv, OkRecorded
  <2> QED  BY <2>4, <2>6, <2>7, <2>8 DEF Rest
<1>7. ASSUME NEW w \in Worker, Rollback(w, "conflict") \/ Rollback(w, "failed"),
             pc[w] \in Transaction, UNCHANGED <<db, call, ordinal, acked>>
      PROVE Rest'
  <2>1. PICK step \in {"conflict", "failed"} : Rollback(w, step)  BY <1>7
  <2>2. Moves(w, step) /\ step \in Steps \ Transaction /\ step # "ok" /\ writer' = None
    BY <1>0, <1>7, <2>1 DEF Rollback, Goto, Moves, Steps, Transaction, Answers
  <2> QED  BY <1>7, <2>2, LeavingStep DEF Rest
<1>8. ASSUME NEW w \in Worker, Resolve(w) PROVE Rest'
  <2> DEFINE c == call[w]
  <2>1. /\ pc[w] = "resolve" /\ pc[w] \in Transaction /\ UNCHANGED <<db, call, ordinal, acked>>
        /\ c \in Call /\ c.payload \in Payload /\ c.id \in RequestId
    BY <1>0, <1>8 DEF Resolve, Transaction, Call
  <2>2. draft = db[c.id] /\ Whole(draft)
    BY <2>1 DEF IInv, DraftsOK, DraftShape, CommittedWhole
  <2>3. CASE Rollback(w, "conflict")  BY <1>7, <2>1, <2>3
  <2>4. CASE /\ draft.payload = c.payload /\ UNCHANGED <<writer, draft>>
             /\ Goto(w, IF c.model # None THEN "vectors" ELSE "commit")
    <3> DEFINE step == IF c.model # None THEN "vectors" ELSE "commit"
    <3>1. Moves(w, step) /\ pc'[w] = step  BY <1>0, <2>1, <2>4 DEF Goto, Moves
    <3>2. Whole(draft)' /\ Extends(draft, db[call[w].id])'
      BY <2>1, <2>2, <2>4 DEF Whole, Extends
    <3>3. step \in {"vectors", "commit"} /\ (step = "vectors" => c.model # None)  OBVIOUS
    <3> HIDE DEF step
    <3>4. DraftShape(w)'  BY <2>1, <2>4, <3>1, <3>2, <3>3 DEF DraftShape
    <3> QED  BY <2>1, <2>4, <3>1, <3>3, <3>4, InsideStep DEF Rest, Transaction
  <2>5. CASE /\ draft.payload = None /\ UNCHANGED writer
             /\ draft' = [draft EXCEPT !.payload = c.payload] /\ Goto(w, "message")
    <3>1. draft = EmptyEntry
      BY <2>2, <2>5, WholeWithoutPayload, NoneAssumption
    <3>2. draft' = Partial(c, 0, 0, 0)  BY <2>1, <2>5, <3>1, PartialStart
    <3>3. ordinal[w] = 0 /\ 0 \in Rows(c.payload)
      BY <2>1, RowsAreOrdinals DEF IInv, DraftsOK, DraftShape
    <3>4. Moves(w, "message") /\ pc'[w] = "message"  BY <1>0, <2>1, <2>5 DEF Goto, Moves
    <3>5. Inserting(w, ordinal[w], ordinal[w], ordinal[w])'
      BY <2>1, <2>2, <3>1, <3>2, <3>3 DEF Inserting, Partial
    <3>6. DraftShape(w)'  BY <3>4, <3>5 DEF DraftShape
    <3> QED  BY <2>1, <2>5, <3>4, <3>6, InsideStep DEF Rest, Transaction
  <2> QED  BY <1>8, <2>3, <2>4, <2>5 DEF Resolve
<1>9. ASSUME NEW w \in Worker, InsertMessage(w) PROVE Rest'
  <2>1. /\ pc[w] = "message" /\ pc[w] \in Transaction /\ call[w] \in Call
        /\ UNCHANGED <<db, writer, call, ordinal, acked>>
    BY <1>0, <1>9 DEF InsertMessage, Transaction
  <2>2. Inserting(w, ordinal[w], ordinal[w], ordinal[w])
    BY <2>1 DEF IInv, DraftsOK, DraftShape
  <2>3. draft' = Partial(call[w], ordinal[w] + 1, ordinal[w], ordinal[w])
    <3>1. ordinal[w] \in Ordinal  BY <1>0
    <3> QED  BY <1>9, <2>1, <2>2, <3>1, AfterMessageRow DEF InsertMessage, Inserting
  <2>4. Moves(w, "index") /\ pc'[w] = "index"  BY <1>0, <1>9 DEF InsertMessage, Goto, Moves
  <2>5. Inserting(w, ordinal[w] + 1, ordinal[w], ordinal[w])'
    BY <2>1, <2>2, <2>3 DEF Inserting, Partial
  <2>6. DraftShape(w)'  BY <2>4, <2>5 DEF DraftShape
  <2> QED  BY <2>1, <2>4, <2>6, InsideStep DEF Rest, Transaction
<1>10. ASSUME NEW w \in Worker, InsertIndex(w) PROVE Rest'
  <2>1. /\ pc[w] = "index" /\ pc[w] \in Transaction /\ call[w] \in Call
        /\ UNCHANGED <<db, writer, call, acked>> /\ ordinal[w] \in Ordinal
    BY <1>0, <1>10 DEF InsertIndex, Transaction
  <2>2. Inserting(w, ordinal[w] + 1, ordinal[w], ordinal[w])
    BY <2>1 DEF IInv, DraftsOK, DraftShape
  <2>3. draft' = Partial(call[w], ordinal[w] + 1, ordinal[w] + 1, ordinal[w])
    BY <1>10, <2>1, <2>2, AfterIndexRow DEF InsertIndex, Inserting
  <2>4. CASE call[w].raw /\ AfterRow(w)
    <3>1. draft' = Partial(call[w], ordinal[w] + 1, ordinal[w] + 1, ordinal[w] + 1)
      BY <2>3, <2>4 DEF Partial
    <3>2. (\E step \in Transaction : Moves(w, step)) /\ DraftShape(w)'
      BY <2>1, <2>2, <2>4, <3>1, AfterRowShape DEF Inserting
    <3> QED  BY <2>1, <3>2, InsideStep DEF Rest
  <2>5. CASE ~call[w].raw /\ Goto(w, "derive") /\ UNCHANGED ordinal
    <3>1. Moves(w, "derive") /\ pc'[w] = "derive"  BY <1>0, <2>1, <2>5 DEF Goto, Moves
    <3>2. Inserting(w, ordinal[w] + 1, ordinal[w] + 1, ordinal[w])'
      BY <2>1, <2>2, <2>3, <2>5 DEF Inserting, Partial
    <3>3. DraftShape(w)'  BY <2>1, <2>5, <3>1, <3>2 DEF DraftShape
    <3> QED  BY <2>1, <3>1, <3>3, InsideStep DEF Rest, Transaction
  <2> QED  BY <1>10, <2>4, <2>5 DEF InsertIndex
<1>11. ASSUME NEW w \in Worker, Derive(w) PROVE Rest'
  <2>1. /\ pc[w] = "derive" /\ pc[w] \in Transaction /\ call[w] \in Call
        /\ UNCHANGED <<db, writer, call, acked>> /\ ordinal[w] \in Ordinal /\ AfterRow(w)
    BY <1>0, <1>11 DEF Derive, Transaction
  <2>2. Inserting(w, ordinal[w] + 1, ordinal[w] + 1, ordinal[w]) /\ ~call[w].raw
    BY <2>1 DEF IInv, DraftsOK, DraftShape
  <2>3. draft' = Partial(call[w], ordinal[w] + 1, ordinal[w] + 1, ordinal[w] + 1)
    BY <1>11, <2>1, <2>2, AfterDerivedRows DEF Derive, Inserting
  <2>4. (\E step \in Transaction : Moves(w, step)) /\ DraftShape(w)'
    BY <2>1, <2>2, <2>3, AfterRowShape DEF Inserting
  <2> QED  BY <2>1, <2>4, InsideStep DEF Rest
<1>12. ASSUME NEW w \in Worker, WriteVectors(w) PROVE Rest'
  <2>1. /\ pc[w] = "vectors" /\ pc[w] \in Transaction /\ call[w] \in Call
        /\ call[w].payload \in Payload /\ call[w].model \in Model \cup {None}
        /\ UNCHANGED <<db, writer, call, ordinal, acked>>
    BY <1>0, <1>12 DEF WriteVectors, Transaction, Call
  <2>2. /\ Whole(draft) /\ draft.payload = call[w].payload
        /\ Extends(draft, db[call[w].id]) /\ call[w].model # None
    BY <2>1 DEF IInv, DraftsOK, DraftShape
  <2>3. draft' = [draft EXCEPT !.vectors =
                    [n \in Ordinal |-> IF n \in Rows(call[w].payload)
                                         THEN call[w].model ELSE @[n]]]
    BY <1>12 DEF WriteVectors
  <2>4. /\ Whole(draft') /\ draft'.payload = call[w].payload
        /\ Extends(draft', db[call[w].id])
    BY <1>0, <2>1, <2>2, <2>3, UpsertWhole
  <2>5. Whole(draft)' /\ Extends(draft, db[call[w].id])'
    BY <2>1, <2>4 DEF Whole, Extends
  <2>6. Moves(w, "commit") /\ pc'[w] = "commit"  BY <1>0, <1>12 DEF WriteVectors, Goto, Moves
  <2>7. DraftShape(w)'  BY <2>1, <2>4, <2>5, <2>6 DEF DraftShape
  <2> QED  BY <2>1, <2>6, <2>7, InsideStep DEF Rest, Transaction
<1>13. ASSUME NEW w \in Worker, Commit(w) PROVE Rest'
  BY <1>13, CommitStep DEF Rest
<1>14. ASSUME NEW w \in Worker, StatementFails(w) PROVE Rest'
  BY <1>7, <1>14 DEF StatementFails
<1>15. ASSUME NEW w \in Worker, Reply(w) PROVE Rest'
  <2>1. /\ pc[w] \in Answers /\ pc[w] \notin Transaction /\ pc[w] # "idle"
        /\ UNCHANGED <<db, draft, writer>>
    BY <1>15 DEF Reply, Answers, Transaction
  <2>2. Moves(w, "idle") /\ "idle" \in Steps \ Transaction
    BY <1>0, <1>15 DEF Reply, Release, Goto, Moves, Steps, Transaction
  <2>3. \A a \in acked' : db[a[1]].payload = a[2]
    <3>1. pc[w] = "ok" => db[call[w].id].payload = call[w].payload
      BY DEF IInv, OkRecorded
    <3> QED  BY <1>a, <1>15, <3>1 DEF Reply
  <2> QED  BY <2>1, <2>2, <2>3, OutsideStep DEF Rest
<1>16. ASSUME NEW w \in Worker, Crash(w) PROVE Rest'
  <2>1. Moves(w, "idle") /\ "idle" \in Steps \ Transaction /\ UNCHANGED <<db, acked>>
    BY <1>0, <1>16 DEF Crash, Release, Goto, Moves, Steps, Transaction
  <2>2. CASE writer = w
    <3>1. pc[w] \in Transaction /\ writer' = None
      BY <1>16, <2>2 DEF IInv, OneWriter, Crash
    <3> QED  BY <2>1, <3>1, LeavingStep DEF Rest
  <2>3. CASE writer # w
    <3>1. pc[w] \notin Transaction /\ UNCHANGED <<writer, draft>>
      BY <1>16, <2>3 DEF IInv, OneWriter, Crash
    <3> QED  BY <1>a, <2>1, <3>1, OutsideStep DEF Rest
  <2> QED  BY <2>2, <2>3
<1> QED
  BY <1>1, <1>2, <1>3, <1>5, <1>6, <1>8, <1>9, <1>10, <1>11, <1>12, <1>13, <1>14, <1>15, <1>16
  DEF Next, Progress

\* The invariant holds in every reachable state.
THEOREM Inductive == Spec => []IInv
BY InitInv, StepInv, PTL DEF Spec

----------------------------------------------------------------------------
(* What follows from it *)

\* Every variable keeps its type: no handler leaves the steps of the code, and
\* no row ordinal, however long the payload, leaves the rows of an entry.
THEOREM TypeCorrect == Spec => []TypeOK
<1>1. IInv => TypeOK  BY DEF IInv
<1> QED  BY <1>1, Inductive, PTL

\* No Add is ever partly visible: the transaction of MemoryStore.add, whatever
\* fails in it and whoever races it, commits whole entries only.
THEOREM AddIsAtomic == Spec => []CommittedWhole
<1>1. IInv => CommittedWhole  BY DEF IInv
<1> QED  BY <1>1, Inductive, PTL

\* An answer of success is never taken back: the id stays bound to exactly the
\* payload that was answered.
THEOREM AckedIsRecorded == Spec => []AckedRecorded
<1>1. IInv => AckedRecorded  BY DEF IInv
<1> QED  BY <1>1, Inductive, PTL

\* What NeverRewritten says of one request id.
Kept(i) ==
  db[i].payload # None =>
    /\ [db'[i] EXCEPT !.vectors = db[i].vectors] = db[i]
    /\ \A n \in Ordinal : db[i].vectors[n] # None => db'[i].vectors[n] # None

\* No step removes or changes a committed row, save for vectors that move to
\* another embedding space.
THEOREM CommittedIsKept == Spec => NeverRewritten
<1>1. ASSUME IInv, Next, NEW i \in RequestId PROVE Kept(i)
  <2>1. db \in [RequestId -> Entry] /\ draft \in Entry  BY <1>1 DEF IInv, TypeOK
  <2> DEFINE old == db[i]
  <2>2. old \in Entry  BY <2>1
  <2>3. [old EXCEPT !.vectors = old.vectors] = old  BY <2>2 DEF Entry
  <2>4. CASE db'[i] = old  BY <2>3, <2>4 DEF Kept
  <2>5. CASE \E w \in Worker : Commit(w) /\ i = call[w].id
    <3>1. db'[i] = draft /\ Extends(draft, old)  BY <1>1, <2>5, CommitStep
    <3>2. ASSUME old.payload # None PROVE [draft EXCEPT !.vectors = old.vectors] = old
      <4>1. /\ draft.payload = old.payload /\ draft.messages = old.messages
            /\ draft.index = old.index /\ draft.derived = old.derived
        BY <3>1, <3>2 DEF Extends
      <4> HIDE DEF old
      <4> QED  BY <2>1, <2>2, <4>1 DEF Entry
    <3> QED  BY <3>1, <3>2 DEF Extends, Kept
  <2>6. CASE \E w \in Worker : Commit(w) /\ i # call[w].id
    <3>1. db'[i] = old  BY <1>1, <2>6, CommitStep
    <3> QED  BY <2>4, <3>1
  <2> QED  BY <1>1, <2>4, <2>5, <2>6, OnlyCommitWrites
<1>2. IInv /\ [Next]_vars => [\A i \in RequestId : Kept(i)]_vars  BY <1>1
<1>3. [\A i \in RequestId : Kept(i)]_vars <=>
      [\A i \in RequestId :
        db[i].payload # None =>
         /\ [db'[i] EXCEPT !.vectors = db[i].vectors] = db[i]
         /\ \A n \in Ordinal : db[i].vectors[n] # None => db'[i].vectors[n] # None]_vars
  BY DEF Kept
<1> QED  BY <1>2, <1>3, Inductive, PTL DEF Spec, NeverRewritten

----------------------------------------------------------------------------
(* The refinement *)

\* The steps of a call that is under way and has no answer yet.
Pending == {"find", "enrich", "embed", "lock"} \cup Transaction

\* The abstract state, under the refinement mapping of MemoryAdd.
Bound   == [i \in RequestId |-> db[i].payload]
Phase   == [w \in Worker |-> AbstractPhase(w)]
AskedOf == [w \in Worker |-> Asked(w)]

\* What the abstract state of a worker is at each of its steps.
LEMMA PhaseOfStep ==
  ASSUME NEW w \in Worker
  PROVE  /\ pc[w] \in Pending => AbstractPhase(w) = "pending"
         /\ pc[w] = "ok" => AbstractPhase(w) = "accepted"
         /\ pc[w] = "conflict" => AbstractPhase(w) = "refused"
         /\ pc[w] \in {"unavailable", "failed"} => AbstractPhase(w) = "failed"
         /\ pc[w] \in Pending \cup Answers => AbstractPhase(w) # "idle" /\ pc[w] # "idle"
         /\ pc[w] # "idle" => Asked(w) = [id |-> call[w].id, payload |-> call[w].payload]
BY DEF AbstractPhase, Pending, Transaction, Answers, Asked

\* A step within a call, the providers' and the transaction's, is a stutter.
LEMMA InternalStep ==
  ASSUME TypeOK, NEW w \in Worker, pc[w] \in Pending, NEW step \in Pending, Goto(w, step),
         UNCHANGED <<db, call>>
  PROVE  UNCHANGED Promise!vars
<1>1. \A v \in Worker : pc'[v] = IF v = w THEN step ELSE pc[v]  BY DEF TypeOK, Goto
<1>2. \A v \in Worker : AbstractPhase(v)' = AbstractPhase(v)
  BY <1>1 DEF AbstractPhase, Pending, Transaction
<1>3. \A v \in Worker : Asked(v)' = Asked(v)  BY <1>1 DEF Asked, Pending, Transaction
<1> QED  BY <1>2, <1>3 DEF Promise!vars

\* A step that settles the answer changes the phase of its worker only.
LEMMA AnswerStep ==
  ASSUME TypeOK, NEW w \in Worker, pc[w] \in Pending, NEW step \in Answers, Goto(w, step),
         UNCHANGED call
  PROVE  /\ Phase' = [Phase EXCEPT ![w] = AbstractPhase(w)'] /\ pc'[w] = step
         /\ Phase[w] = "pending" /\ AskedOf' = AskedOf
         /\ AskedOf[w] = [id |-> call[w].id, payload |-> call[w].payload]
<1>1. \A v \in Worker : pc'[v] = IF v = w THEN step ELSE pc[v]  BY DEF TypeOK, Goto
<1>2. \A v \in Worker : v # w => AbstractPhase(v)' = AbstractPhase(v)
  BY <1>1 DEF AbstractPhase
<1>3. \A v \in Worker : Asked(v)' = Asked(v)
  BY <1>1 DEF Asked, Pending, Transaction, Answers
<1> QED  BY <1>1, <1>2, <1>3, PhaseOfStep DEF Phase, AskedOf

\* An answer of failure is Fail, one of conflict over a bound id is Refuse.
LEMMA FailStep ==
  ASSUME TypeOK, NEW w \in Worker, pc[w] \in Pending, NEW step \in {"unavailable", "failed"},
         Goto(w, step), UNCHANGED <<db, call>>
  PROVE  Promise!Fail(w)
<1>1. AbstractPhase(w)' = "failed"
  BY DEF TypeOK, Goto, AbstractPhase
<1> QED  BY <1>1, AnswerStep DEF Promise!Fail, Phase, AskedOf, Answers

LEMMA RefuseStep ==
  ASSUME TypeOK, NEW w \in Worker, pc[w] \in Pending, Goto(w, "conflict"),
         UNCHANGED <<db, call>>, db[call[w].id].payload \notin {None, call[w].payload}
  PROVE  Promise!Refuse(w)
<1>1. AbstractPhase(w)' = "refused"  BY DEF TypeOK, Goto, AbstractPhase
<1>2. pc[w] # "idle" /\ call[w] \in Call  BY PhaseOfStep DEF TypeOK
<1>3. call[w].id \in RequestId  BY <1>2 DEF Call
<1> QED  BY <1>1, <1>3, AnswerStep DEF Promise!Refuse, Phase, AskedOf, Answers

\* An answer of success, by a commit or by finding the id bound, is Accept.
LEMMA AcceptStep ==
  ASSUME TypeOK, NEW w \in Worker, pc[w] \in Pending, Goto(w, "ok"), UNCHANGED call,
         db[call[w].id].payload \in {None, call[w].payload},
         db'[call[w].id].payload = call[w].payload,
         \A i \in RequestId : i # call[w].id => db'[i].payload = db[i].payload
  PROVE  Promise!Accept(w)
<1>1. AbstractPhase(w)' = "accepted"  BY DEF TypeOK, Goto, AbstractPhase
<1>2. pc[w] # "idle" /\ call[w] \in Call  BY PhaseOfStep DEF TypeOK
<1>3. call[w].id \in RequestId  BY <1>2 DEF Call
<1>4. Bound' = [Bound EXCEPT ![call[w].id] = call[w].payload]  BY <1>3 DEF Bound
<1> QED
  BY <1>1, <1>3, <1>4, AnswerStep DEF Promise!Accept, Phase, AskedOf, Bound, Answers

\* The end of a call, answered or lost, is Leave.
LEMMA LeaveStep ==
  ASSUME TypeOK, NEW w \in Worker, pc[w] # "idle", Release(w), UNCHANGED db
  PROVE  Promise!Leave(w)
<1>1. \A v \in Worker : pc'[v] = IF v = w THEN "idle" ELSE pc[v]
  BY DEF TypeOK, Release, Goto
<1>2. \A v \in Worker : v # w => call'[v] = call[v]  BY DEF TypeOK, Release
<1>3. AbstractPhase(w) # "idle" /\ AbstractPhase(w)' = "idle" /\ Asked(w)' = None
  BY <1>1 DEF AbstractPhase, Asked
<1>4. \A v \in Worker : v # w => AbstractPhase(v)' = AbstractPhase(v) /\ Asked(v)' = Asked(v)
  BY <1>1, <1>2 DEF AbstractPhase, Asked
<1> QED  BY <1>3, <1>4 DEF Promise!Leave

\* Every step of the code is a step of the promise, or changes nothing of it.
LEMMA StepRefines == IInv /\ [Next]_vars => [Promise!Next]_(Promise!vars)
<1> SUFFICES ASSUME IInv, [Next]_vars PROVE Promise!Next \/ UNCHANGED Promise!vars
  OBVIOUS
<1>0. TypeOK  BY DEF IInv
<1>1. CASE UNCHANGED vars
  BY <1>1 DEF vars, Promise!vars, AbstractPhase, Asked
<1>2. ASSUME NEW w \in Worker, NEW c \in Call, Begin(w, c) PROVE Promise!Ask(w, c.id, c.payload)
  <2>1. \A v \in Worker : v # w => pc'[v] = pc[v] /\ call'[v] = call[v]
    BY <1>0, <1>2 DEF TypeOK, Begin, Goto
  <2>2. pc'[w] \in Pending /\ call'[w] = c /\ pc[w] = "idle" /\ db' = db
    BY <1>0, <1>2 DEF TypeOK, Begin, Goto, Pending
  <2>3. /\ AbstractPhase(w) = "idle" /\ AbstractPhase(w)' = "pending"
        /\ Asked(w)' = [id |-> c.id, payload |-> c.payload]
    BY <2>2 DEF AbstractPhase, Asked, Pending, Transaction
  <2>4. \A v \in Worker : v # w => AbstractPhase(v)' = AbstractPhase(v) /\ Asked(v)' = Asked(v)
    BY <2>1 DEF AbstractPhase, Asked
  <2> QED  BY <2>2, <2>3, <2>4 DEF Promise!Ask
<1>3. ASSUME NEW w \in Worker, FindExisting(w)
      PROVE  Promise!Accept(w) \/ Promise!Refuse(w) \/ UNCHANGED Promise!vars
  <2> DEFINE stored == db[call[w].id].payload
  <2>1. /\ pc[w] = "find" /\ pc[w] \in Pending /\ UNCHANGED <<db, call>>
        /\ call[w] \in Call /\ call[w].payload \in Payload
    BY <1>0, <1>3 DEF FindExisting, Pending, TypeOK, Call
  <2>2. CASE stored = None
    <3>1. stored # call[w].payload  BY <2>1, <2>2, NoneAssumption
    <3>2. Goto(w, "enrich")  BY <1>3, <2>2, <3>1 DEF FindExisting
    <3> QED  BY <1>0, <2>1, <3>2, InternalStep DEF Pending
  <2>3. CASE stored = call[w].payload
    <3>1. Goto(w, "ok")  BY <1>3, <2>1, <2>3, NoneAssumption DEF FindExisting
    <3> QED  BY <1>0, <2>1, <2>3, <3>1, AcceptStep
  <2>4. CASE stored \notin {None, call[w].payload}
    <3>1. Goto(w, "conflict")  BY <1>3, <2>4 DEF FindExisting
    <3> QED  BY <1>0, <2>1, <2>4, <3>1, RefuseStep
  <2> QED  BY <2>2, <2>3, <2>4
<1>4. ASSUME NEW w \in Worker, Enrich(w) \/ Embed(w) \/ Lock(w) \/ InsertMessage(w) \/ WriteVectors(w)
      PROVE  UNCHANGED Promise!vars
  <2>1. PICK step \in {"embed", "lock", "resolve", "index", "commit"} : Goto(w, step)
    BY <1>4 DEF Enrich, Embed, Lock, InsertMessage, WriteVectors
  <2>2. pc[w] \in Pending /\ UNCHANGED <<db, call>>
    BY <1>4 DEF Enrich, Embed, Lock, InsertMessage, WriteVectors, Pending, Transaction
  <2> QED  BY <1>0, <2>1, <2>2, InternalStep DEF Pending, Transaction
<1>5. ASSUME NEW w \in Worker, LockTimeout(w) \/ ReadFails(w) \/ ProviderFails(w) \/ StatementFails(w)
      PROVE  Promise!Fail(w)
  <2>1. PICK step \in {"unavailable", "failed"} : Goto(w, step)
    BY <1>5 DEF LockTimeout, ReadFails, ProviderFails, StatementFails, Rollback
  <2>2. pc[w] \in Pending /\ UNCHANGED <<db, call>>
    BY <1>5 DEF LockTimeout, ReadFails, ProviderFails, StatementFails, Pending
  <2> QED  BY <1>0, <2>1, <2>2, FailStep
<1>6. ASSUME NEW w \in Worker, Resolve(w)
      PROVE  Promise!Refuse(w) \/ UNCHANGED Promise!vars
  <2>1. pc[w] = "resolve" /\ pc[w] \in Pending \cap Transaction /\ UNCHANGED <<db, call>>
    BY <1>6 DEF Resolve, Pending, Transaction
  <2>2. draft = db[call[w].id]  BY <2>1 DEF IInv, DraftsOK, DraftShape
  <2>3. CASE draft.payload \notin {None, call[w].payload} /\ Goto(w, "conflict")
    BY <1>0, <2>1, <2>2, <2>3, RefuseStep
  <2>4. CASE \E step \in {"vectors", "commit", "message"} : Goto(w, step)
    BY <1>0, <2>1, <2>4, InternalStep DEF Pending, Transaction
  <2> QED  BY <1>6, <2>3, <2>4 DEF Resolve, Rollback
<1>7. ASSUME NEW w \in Worker, InsertIndex(w) \/ Derive(w) PROVE UNCHANGED Promise!vars
  <2>1. PICK step \in {"derive", "message", "vectors", "commit"} : Goto(w, step)
    BY <1>7 DEF InsertIndex, Derive, AfterRow
  <2>2. pc[w] \in Pending /\ UNCHANGED <<db, call>>
    BY <1>7 DEF InsertIndex, Derive, Pending, Transaction
  <2> QED  BY <1>0, <2>1, <2>2, InternalStep DEF Pending, Transaction
<1>8. ASSUME NEW w \in Worker, Commit(w) PROVE Promise!Accept(w)
  <2>1. pc[w] \in Pending /\ Goto(w, "ok") /\ UNCHANGED call
    BY <1>8 DEF Commit, Pending, Transaction
  <2>2. /\ \A i \in RequestId : i # call[w].id => db'[i].payload = db[i].payload
        /\ db'[call[w].id].payload = call[w].payload
    BY <1>8, CommitStep
  <2>3. db[call[w].id].payload \in {None, call[w].payload}
    BY <1>8, CommitStep DEF Extends
  <2> QED  BY <1>0, <2>1, <2>2, <2>3, AcceptStep
<1>9. ASSUME NEW w \in Worker, Reply(w) \/ Crash(w) PROVE Promise!Leave(w)
  <2>1. pc[w] # "idle" /\ Release(w) /\ UNCHANGED db
    BY <1>9 DEF Reply, Crash, Answers
  <2> QED  BY <1>0, <2>1, LeaveStep
<1>10. ASSUME NEW w \in Worker, NEW c \in Call PROVE c.id \in RequestId /\ c.payload \in Payload
  BY DEF Call
<1> QED
  BY <1>1, <1>2, <1>3, <1>4, <1>5, <1>6, <1>7, <1>8, <1>9, <1>10
  DEF Next, Progress, Promise!Next

\* The code keeps its promise: Add, with its unlocked first look-up, its
\* provider calls and its transaction, implements IdempotentAdd.
THEOREM AddKeepsPromise == Spec => Linearizable
<1>1. Init => Promise!Init
  BY DEF Init, Promise!Init, EmptyEntry, AbstractPhase, Asked
<1> QED  BY <1>1, StepRefines, Inductive, PTL DEF Spec, Linearizable, Promise!Spec
=============================================================================
