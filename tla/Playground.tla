----------------------------- MODULE Playground -----------------------------
(***************************************************************************)
(* The page of demo.html: a story that is loaded entry by entry, notes,    *)
(* searches, a fresh start, and the retrieval connection of the settings.  *)
(*                                                                         *)
(* A handler runs alone until it awaits an answer.  Until the answer comes *)
(* the user may click whatever is enabled, so a handler finds the state of *)
(* another moment when it goes on.  The service is what the page sees of   *)
(* it: Adds by request id, and connections that come and go.               *)
(***************************************************************************)
EXTENDS Integers, Sequences

CONSTANTS
  Loader,       \* runs of loadConversation that may overlap
  Noter,        \* the one run of addCustomConversation
  Searcher,     \* runs of searchMemory that may overlap
  Connector,    \* runs of connectEmbedding that may overlap
  Restorer,     \* the one run of restoreEmbeddingConnection of a page
  StoryLength,  \* entries of storyEntries()
  MaxClicks,    \* bound on what the user does
  MaxConn,      \* bound on the connections the service creates
  None

Task == Loader \cup {Noter} \cup Searcher
Creator == Connector \cup {Restorer}

ASSUME TaskAssumption ==
  /\ Noter \notin Loader \cup Searcher
  /\ Loader \cap Searcher = {}
  /\ Restorer \notin Connector
ASSUME BoundAssumption ==
  /\ StoryLength \in Nat \ {0}
  /\ MaxClicks \in Nat
  /\ MaxConn \in Nat \ {0}
VARIABLES
  run,          \* state.runId, by number
  loaded,       \* state.storyLoaded
  sequence,     \* state.customSequence
  shown,        \* state.conversations
  results,      \* the user whose results are shown, or None
  rendered,     \* whether renderConversation has replaced the page's own markup
  disabled,     \* the disabled ones of the buttons "load", "empty", "send", "connect"
  conn,         \* state.embeddingConnectionId
  meta,         \* the connection whose metadata state.embeddingMetadata is
  session,      \* the connection in sessionStorage
  saved,        \* state.savedRetrievalConfig
  kept,         \* the configuration in localStorage
  request,      \* request[t]: what t has sent
  header,       \* header[t]: the connection it named
  status,       \* status[t]: where its call is
  creation,     \* creation[c]: where c is in setting up a connection
  stored,       \* the Adds the service has committed
  stray,        \* Adds under way that the page no longer waits for
  live,         \* the connections the service knows
  issued,       \* how many it has created
  clicks,       \* what the user has done so far, bounded
  overtaken,    \* history: what was in flight at the last fresh start
  cleared       \* history: "clean" or "raced" after a disconnect, else "no"

page == <<run, loaded, sequence, shown, results, rendered>>
link == <<conn, meta, session, saved, kept>>
calls == <<request, header, status>>
service == <<stored, stray, live, issued>>
vars == <<page, disabled, link, calls, creation, service, clicks, overtaken, cleared>>

ConnId == 1 .. MaxConn
Config == {"local", "remote"}
Request == [user : Nat, what : {"story", "note", "search"}, number : Int, text : Nat]
ASSUME NoneAssumption == None \notin Nat \cup Config \cup Request

Creation == [at : {"idle", "get", "found", "post", "made"},
             config : Config \cup {None}, id : ConnId \cup {None}]

TypeOK ==
  /\ run \in Nat /\ loaded \in BOOLEAN /\ sequence \in Int
  /\ shown \in Seq(Request) /\ results \in Nat \cup {None} /\ rendered \in BOOLEAN
  /\ disabled \in SUBSET {"load", "empty", "send", "connect"}
  /\ {conn, meta, session} \subseteq ConnId \cup {None}
  /\ {saved, kept} \subseteq Config \cup {None}
  /\ request \in [Task -> Request \cup {None}]
  /\ header \in [Task -> ConnId \cup {None}]
  /\ status \in [Task -> {"idle", "sent", "accepted", "conflict", "unauthorized"}]
  /\ \A t \in Task : status[t] # "idle" => request[t] # None
  /\ creation \in [Creator -> Creation]
  /\ \A c \in Creator : creation[c].at \in {"get", "found"} => c = Restorer
  /\ stored \in SUBSET Request /\ stray \in SUBSET Request
  /\ live \in SUBSET ConnId /\ issued \in 0 .. MaxConn
  /\ clicks \in 0 .. MaxClicks
  /\ overtaken \in SUBSET Request /\ cleared \in {"no", "clean", "raced"}

Idle == [at |-> "idle", config |-> None, id |-> None]
Nothing == [t \in Task |-> None]

\* A page opens: state from the two storages, and restoreEmbeddingConnection up
\* to its first await.
Restoring(id, config) ==
  [c \in Creator |->
     IF c # Restorer THEN Idle
     ELSE IF id # None THEN [at |-> "get", config |-> None, id |-> id]
     ELSE IF config # None THEN [at |-> "post", config |-> config, id |-> None]
     ELSE Idle]
OpenDisabled(id, config) == IF id = None /\ config # None THEN {"connect"} ELSE {}

Init ==
  /\ run = 0 /\ loaded = FALSE /\ sequence = 0 /\ shown = <<>>
  /\ results = None /\ rendered = FALSE
  /\ session \in {None, 1} /\ conn = session /\ meta = None
  /\ kept \in Config \cup {None} /\ saved = kept
  /\ disabled = OpenDisabled(session, kept)
  /\ creation = Restoring(session, kept)
  /\ request = Nothing /\ header = Nothing
  /\ status = [t \in Task |-> "idle"]
  /\ stored = {} /\ stray = {}
  /\ live \in {{}, {1}} /\ issued = 1
  /\ clicks = 0 /\ overtaken = {} /\ cleared = "no"

Click == clicks < MaxClicks /\ clicks' = clicks + 1

InFlight == {t \in Task : status[t] # "idle"}
Creating == {c \in Creator : creation[c].at \in {"post", "made"}}

StoryRequest(k) == [user |-> run, what |-> "story", number |-> k, text |-> 0]

\* apiRequest up to its await: the connection of the moment goes into the header.
Send(t, q) ==
  /\ request' = [request EXCEPT ![t] = q]
  /\ header' = [header EXCEPT ![t] = conn]
  /\ status' = [status EXCEPT ![t] = "sent"]

\* A mutant of Finish: the call is not over.
FinishHalf(t) ==
  /\ request' = [request EXCEPT ![t] = None]
  /\ header' = [header EXCEPT ![t] = None]
  /\ UNCHANGED status

Finish(t) ==
  /\ status' = [status EXCEPT ![t] = "idle"]
  /\ request' = [request EXCEPT ![t] = None]
  /\ header' = [header EXCEPT ![t] = None]

----------------------------------------------------------------------------
(* Clicks on the conversation *)

\* The button in the empty conversation: that of the page until the first
\* rendering, afterwards a new one for which no handler keeps a flag.
EmptyButton == shown = <<>> /\ (rendered \/ "empty" \notin disabled)

ClickLoad(t) ==
  /\ Click /\ status[t] = "idle"
  /\ "load" \notin disabled \/ EmptyButton
  /\ disabled' = disabled \cup {"load", "empty"}
  /\ Send(t, StoryRequest(1))
  /\ UNCHANGED <<page, link, creation, service, overtaken, cleared>>

\* Every attempt has a time stamp of its own, and with it another payload.
ClickSend ==
  /\ Click /\ status[Noter] = "idle" /\ "send" \notin disabled
  /\ sequence' = sequence + 1
  /\ disabled' = disabled \cup {"send"}
  /\ Send(Noter, [user |-> run, what |-> "note", number |-> sequence', text |-> clicks'])
  /\ UNCHANGED <<run, loaded, shown, results, rendered, link, creation, service,
                 overtaken, cleared>>

\* By the button or by a suggestion, which submits the form although the button
\* is disabled.
ClickSearch(t) ==
  /\ Click /\ status[t] = "idle"
  /\ shown # <<>>
  /\ Send(t, [user |-> run, what |-> "search", number |-> 0, text |-> 0])
  /\ UNCHANGED <<page, disabled, link, creation, service, overtaken, cleared>>

\* What is in flight goes on.
StartFresh ==
  /\ Click
  /\ run' = run + 1 /\ loaded' = FALSE /\ sequence' = 0 /\ shown' = <<>>
  /\ results' = None /\ rendered' = TRUE
  /\ disabled' = disabled \ {"load"}
  /\ overtaken' = {request[t] : t \in InFlight}
  /\ UNCHANGED <<link, calls, creation, service, cleared>>

----------------------------------------------------------------------------
(* The service *)

\* A mutant of RequestId: the id names the entry alone.
RequestIdAcrossRuns(q) == <<q.what, q.number>>

RequestId(q) == <<q.user, q.what, q.number>>

\* A mutant of Fits: a stored id is answered without comparing payloads.
FitsById(q) == TRUE

Fits(q) == \A s \in stored : RequestId(s) = RequestId(q) => s = q
Add(q) == stored' = IF \E s \in stored : RequestId(s) = RequestId(q) THEN stored
                    ELSE stored \cup {q}

\* A request arrives: 401 for an unknown connection, 409 for an id that is stored
\* with another payload.
Serve(t) ==
  LET q == request[t] IN
  /\ status[t] = "sent"
  /\ \/ /\ header[t] # None /\ header[t] \notin live
        /\ status' = [status EXCEPT ![t] = "unauthorized"]
        /\ UNCHANGED stored
     \/ /\ header[t] = None \/ header[t] \in live
        /\ IF q.what = "search" THEN UNCHANGED stored ELSE Add(q)
        /\ status' = [status EXCEPT ![t] =
                        IF q.what = "search" \/ Fits(q) THEN "accepted" ELSE "conflict"]
  /\ UNCHANGED <<page, disabled, link, request, header, creation, stray, live, issued, clicks, overtaken, cleared>>

\* An Add the page has given up still arrives.
ServeStray(q) ==
  /\ q \in stray
  /\ Add(q)
  /\ stray' = stray \ {q}
  /\ UNCHANGED <<page, disabled, link, calls, creation, live, issued,
                 clicks, overtaken, cleared>>

\* A connection ends: unused for too long, by a restart of the process, or by one
\* of the DELETEs the page sends without caring for the answer.
Expire(i) ==
  /\ i \in live
  /\ live' = live \ {i}
  /\ UNCHANGED <<page, disabled, link, calls, creation, stored, stray, issued,
                 clicks, overtaken, cleared>>

----------------------------------------------------------------------------
(* The handlers go on: an answer *)

Seen(q) == \E i \in DOMAIN shown : RequestId(shown[i]) = RequestId(q)

\* A mutant of Show: an entry is appended whether or not it is there.
ShowAgain(q) == shown' = Append(shown, q) /\ rendered' = TRUE

\* The end of addConversation, and renderConversation.
Show(q) ==
  /\ shown' = IF Seen(q) THEN shown ELSE Append(shown, q)
  /\ rendered' = TRUE

Accepted(t) ==
  /\ status[t] = "accepted"
  /\ UNCHANGED <<run, sequence, link, creation, service, clicks, overtaken, cleared>>

\* loadConversation: the next entry is written in the run of now, with the
\* connection of now.
EntryAdded(t) ==
  /\ Accepted(t) /\ t \in Loader /\ request[t].number < StoryLength
  /\ Show(request[t])
  /\ Send(t, StoryRequest(request[t].number + 1))
  /\ UNCHANGED <<loaded, results, disabled>>

LastEntryAdded(t) ==
  /\ Accepted(t) /\ t \in Loader /\ request[t].number >= StoryLength
  /\ Show(request[t]) /\ Finish(t)
  /\ loaded' = TRUE
  /\ disabled' = disabled \cup {"load", "empty"}
  /\ UNCHANGED results

NoteAdded(t) ==
  /\ Accepted(t) /\ t = Noter
  /\ Show(request[t]) /\ Finish(t)
  /\ disabled' = disabled \ {"send"}
  /\ UNCHANGED <<loaded, results>>

ResultsShown(t) ==
  /\ Accepted(t) /\ t \in Searcher
  /\ results' = request[t].user
  /\ Finish(t)
  /\ UNCHANGED <<loaded, shown, rendered, disabled>>

Answer(t) == EntryAdded(t) \/ LastEntryAdded(t) \/ NoteAdded(t) \/ ResultsShown(t)

----------------------------------------------------------------------------
(* The handlers go on: an error *)

Forget == conn' = None /\ meta' = None /\ session' = None

\* The catch and finally blocks of the three handlers.
Recover(t) ==
  \/ /\ t \in Loader
     /\ disabled' = IF loaded THEN disabled \cup {"load", "empty"}
                    ELSE disabled \ {"load", "empty"}
     /\ UNCHANGED <<loaded, sequence, results>>
  \/ /\ t = Noter
     /\ sequence' = sequence - 1
     /\ disabled' = disabled \ {"send"}
     /\ UNCHANGED <<loaded, results>>
  \/ /\ t \in Searcher
     /\ results' = None
     /\ UNCHANGED <<loaded, sequence, disabled>>

\* HTTP 409, or 401: whatever the header named, the connection of now is given up.
Refused(t) ==
  /\ status[t] \in {"conflict", "unauthorized"}
  /\ Recover(t) /\ Finish(t)
  /\ IF status[t] = "unauthorized" /\ conn # None THEN Forget ELSE UNCHANGED <<conn, meta, session>>
  /\ UNCHANGED <<run, shown, rendered, saved, kept, creation, service, clicks,
                 overtaken, cleared>>

\* The network fails or the service answers 503.  What was sent may be under way.
Lost(t) ==
  /\ status[t] # "idle"
  /\ Recover(t) /\ Finish(t)
  /\ stray' \in {stray} \cup
       (IF status[t] = "sent" /\ request[t].what # "search"
          THEN {stray \cup {request[t]}} ELSE {})
  /\ UNCHANGED <<run, shown, rendered, link, creation, stored, live, issued,
                 clicks, overtaken, cleared>>

----------------------------------------------------------------------------
(* The settings *)

Goto(c, at, config, id) ==
  creation' = [creation EXCEPT ![c] = [at |-> at, config |-> config, id |-> id]]

\* connectEmbedding up to its await.
ClickConnect(c, config) ==
  /\ Click /\ c \in Connector
  /\ "connect" \notin disabled /\ creation[c].at = "idle"
  /\ disabled' = disabled \cup {"connect"}
  /\ Goto(c, "post", config, None)
  /\ cleared' = "no"
  /\ UNCHANGED <<page, link, calls, service, overtaken>>

\* disconnectEmbedding, by its button or by choosing the lexical mode.
ClickDisconnect ==
  /\ Click
  /\ (conn # None /\ meta # None) \/ "connect" \notin disabled
  /\ Forget
  /\ saved' = None /\ kept' = None
  /\ cleared' = IF Creating = {} THEN "clean" ELSE "raced"
  /\ UNCHANGED <<page, disabled, calls, creation, stored, stray, live, issued, overtaken>>

\* The service has tested the provider and created a connection.
MakeConnection(c) ==
  /\ creation[c].at = "post"
  /\ issued < MaxConn
  /\ issued' = issued + 1
  /\ live' = live \cup {issued'}
  /\ Goto(c, "made", creation[c].config, issued')
  /\ UNCHANGED <<page, disabled, link, calls, stored, stray, clicks,
                 overtaken, cleared>>

\* The rest of createRetrievalConnection and of its caller.  The session storage
\* may refuse to write, as the local one below.  If the configuration is gone by
\* now, restoreEmbeddingConnection fails at its last message and forgets the
\* connection again.
Connected(c) ==
  LET id == creation[c].id
      Use == conn' = id /\ meta' = id /\ session' \in {id, session}
  IN
  /\ creation[c].at = "made"
  /\ \/ /\ c = Restorer /\ saved # None
        /\ Use /\ UNCHANGED <<saved, kept>>
     \/ /\ c = Restorer /\ saved = None
        /\ Forget /\ UNCHANGED <<saved, kept>>
     \/ /\ c # Restorer                  \* remembered
        /\ Use /\ saved' = creation[c].config /\ kept' = creation[c].config
     \/ /\ c # Restorer                  \* remembered, but the storage is full
        /\ Use /\ saved' = None /\ UNCHANGED kept
     \/ /\ c # Restorer /\ creation[c].config # "local"     \* not to be remembered
        /\ Use /\ saved' = None /\ kept' = None
  /\ Goto(c, "idle", None, None)
  /\ disabled' = disabled \ {"connect"}
  /\ UNCHANGED <<page, calls, stored, stray, live, issued, clicks, overtaken, cleared>>

\* The provider refuses, or the network fails before or after the service has
\* created the connection.
ConnectFails(c) ==
  /\ creation[c].at \in {"post", "made"}
  /\ IF c = Restorer THEN Forget ELSE UNCHANGED <<conn, meta, session>>
  /\ Goto(c, "idle", None, None)
  /\ disabled' = disabled \ {"connect"}
  /\ UNCHANGED <<page, saved, kept, calls, service, clicks, overtaken, cleared>>

----------------------------------------------------------------------------
(* restoreEmbeddingConnection: a GET for the connection of the last page *)

\* The service knows it; GET does not keep it alive.
Describe ==
  /\ creation[Restorer].at = "get" /\ creation[Restorer].id \in live
  /\ Goto(Restorer, "found", None, creation[Restorer].id)
  /\ UNCHANGED <<page, disabled, link, calls, service, clicks, overtaken, cleared>>

\* A mutant of Restored: the page takes up the connection it had asked for.
RestoredAdopting ==
  /\ creation[Restorer].at = "found"
  /\ meta' = creation[Restorer].id /\ conn' = meta' /\ session' = meta'
  /\ Goto(Restorer, "idle", None, None)
  /\ UNCHANGED <<page, disabled, saved, kept, calls, service, clicks, overtaken, cleared>>

\* Its metadata are shown, whatever connection the page has by now.
Restored ==
  /\ creation[Restorer].at = "found"
  /\ meta' = creation[Restorer].id
  /\ Goto(Restorer, "idle", None, None)
  /\ UNCHANGED <<page, disabled, conn, session, saved, kept, calls, service, clicks,
                 overtaken, cleared>>

\* Expired or unreachable: whatever the page has by now is forgotten, and made
\* anew from what is saved.
NotRestored ==
  /\ creation[Restorer].at \in {"get", "found"}
  /\ Forget
  /\ IF saved = None
       THEN Goto(Restorer, "idle", None, None) /\ UNCHANGED disabled
       ELSE Goto(Restorer, "post", saved, None) /\ disabled' = disabled \cup {"connect"}
  /\ UNCHANGED <<page, saved, kept, calls, service, clicks, overtaken, cleared>>

\* The page is opened again.  What it was waiting for may still arrive.
Reload ==
  /\ Click
  /\ run' = run + 1 /\ loaded' = FALSE /\ sequence' = 0 /\ shown' = <<>>
  /\ results' = None /\ rendered' = FALSE
  /\ conn' = session /\ meta' = None /\ saved' = kept
  /\ disabled' = OpenDisabled(session, kept)
  /\ creation' = Restoring(session, kept)
  /\ request' = Nothing /\ header' = Nothing
  /\ status' = [t \in Task |-> "idle"]
  /\ stray' \in {stray, stray \cup
       {request[t] : t \in {u \in InFlight \ Searcher : status[u] = "sent"}}}
  /\ overtaken' = {}
  /\ UNCHANGED <<session, kept, stored, live, issued, cleared>>

----------------------------------------------------------------------------

User ==
  \/ \E t \in Loader : ClickLoad(t)
  \/ ClickSend
  \/ \E t \in Searcher : ClickSearch(t)
  \/ StartFresh
  \/ \E c \in Connector, config \in Config : ClickConnect(c, config)
  \/ ClickDisconnect
  \/ Reload

GoOn(t) == Serve(t) \/ Answer(t) \/ Refused(t) \/ Lost(t)

SetUp(c) == MakeConnection(c) \/ Connected(c) \/ ConnectFails(c)

Next ==
  \/ User
  \/ \E t \in Task : GoOn(t)
  \/ \E q \in stray : ServeStray(q)
  \/ \E i \in ConnId : Expire(i)
  \/ \E c \in Creator : SetUp(c)
  \/ Describe \/ Restored \/ NotRestored

Spec == Init /\ [][Next]_vars

----------------------------------------------------------------------------
(* Properties *)

\* Whatever the conversation shows is stored under its request id with the very
\* text that is shown, also when answers are lost and ids are used again.
ShownIsStored == \A i \in DOMAIN shown : shown[i] \in stored

\* No entry is shown twice however loads overlap, and entries or results of
\* another run than the current one come only from what was in flight when the
\* user started afresh.
TimelineOwn ==
  /\ \A i, j \in DOMAIN shown : RequestId(shown[i]) = RequestId(shown[j]) => i = j
  /\ \A i \in DOMAIN shown : shown[i].user = run \/ shown[i] \in overtaken
  /\ results \in {None, run} \cup {q.user : q \in overtaken}

LoadedIsWhole ==
  loaded /\ (\A q \in overtaken : q.what # "story") =>
    \A k \in 1 .. StoryLength : \E i \in DOMAIN shown : shown[i] = StoryRequest(k)

StoryNeverRefused == \A t \in Loader : status[t] # "conflict"

\* A story can be loaded again after any number of lost answers: no entry of it is
\* ever refused, and the page says that the story is loaded only when every entry
\* is shown, unless a fresh start overtook a load.
StoryResumable == StoryNeverRefused /\ LoadedIsWhole

Blank == conn = None /\ session = None /\ saved = None /\ kept = None

\* After a disconnect with no connection in the making, the page has neither
\* connection nor configuration until the user connects again, whatever late
\* answer of the opening page comes and however often it is opened.
ClearedStaysCleared == cleared = "clean" => Blank

\* "Disconnect and clear key removes both the server-side connection and the
\* saved browser value" (README.md:152-153).
DisconnectClears == cleared # "no" => Blank
=============================================================================
