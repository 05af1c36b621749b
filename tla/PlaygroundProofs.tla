-------------------------- MODULE PlaygroundProofs --------------------------
(***************************************************************************)
(* Proofs about Playground, for any number of overlapping handlers, any    *)
(* length of the story and any number of clicks.                           *)
(*                                                                         *)
(* What is shown was accepted, and what is accepted is stored: the link    *)
(* between the two is a request whose answer is under way.  A story can be *)
(* resumed because its requests are the same whenever they are sent.  Runs *)
(* mix only through requests that were in flight at a fresh start.         *)
(***************************************************************************)
EXTENDS Playground, TLAPS

InCall(t) == status[t] # "idle"

\* What each handler sends.
KindsKept ==
  \A t \in Task : InCall(t) =>
    /\ t \in Loader => request[t].what = "story" /\ request[t].number \in 1 .. StoryLength
    /\ t = Noter => request[t].what = "note"
    /\ t \in Searcher => request[t].what = "search"

\* An entry of the story has one text.
Plain(q) == q.what = "story" => q.text = 0
StoryPlain ==
  /\ \A q \in stored \cup stray : Plain(q)
  /\ \A t \in Task : InCall(t) => Plain(request[t])

\* An answer under way speaks of what is stored.
AcceptedStored ==
  \A t \in Loader \cup {Noter} : status[t] = "accepted" => request[t] \in stored

\* A request is of the current run, or was in flight at the last fresh start.
OwnOrOvertaken ==
  \A t \in Task : InCall(t) => request[t].user = run \/ request[t] \in overtaken

NoStoryOvertaken == \A q \in overtaken : q.what # "story"

\* A load has shown every entry before the one it is at.
LoadShown ==
  NoStoryOvertaken =>
    \A t \in Loader : InCall(t) =>
      \A k \in 1 .. request[t].number - 1 : \E i \in DOMAIN shown : shown[i] = StoryRequest(k)

\* After a clean disconnect nothing is on its way that could undo it.
CleanBlank == cleared = "clean" => Blank /\ Creating = {}

CallInv == KindsKept /\ StoryPlain /\ AcceptedStored /\ OwnOrOvertaken /\ StoryNeverRefused
ViewInv == LoadShown /\ ShownIsStored /\ TimelineOwn /\ LoadedIsWhole

IInv == TypeOK /\ CallInv /\ ViewInv /\ CleanBlank

----------------------------------------------------------------------------
(* Type correctness, by groups of variables *)

PageType ==
  /\ run \in Nat /\ loaded \in BOOLEAN /\ sequence \in Int
  /\ shown \in Seq(Request) /\ results \in Nat \cup {None} /\ rendered \in BOOLEAN
LinkType ==
  /\ {conn, meta, session} \subseteq ConnId \cup {None}
  /\ {saved, kept} \subseteq Config \cup {None}
CallType ==
  /\ request \in [Task -> Request \cup {None}]
  /\ header \in [Task -> ConnId \cup {None}]
  /\ status \in [Task -> {"idle", "sent", "accepted", "conflict", "unauthorized"}]
  /\ \A t \in Task : status[t] # "idle" => request[t] # None
CreationType ==
  /\ creation \in [Creator -> Creation]
  /\ \A c \in Creator : creation[c].at \in {"get", "found"} => c = Restorer
ServiceType ==
  /\ stored \in SUBSET Request /\ stray \in SUBSET Request
  /\ live \in SUBSET ConnId /\ issued \in 0 .. MaxConn
RestType ==
  /\ disabled \in SUBSET {"load", "empty", "send", "connect"}
  /\ clicks \in 0 .. MaxClicks
  /\ overtaken \in SUBSET Request /\ cleared \in {"no", "clean", "raced"}

LEMMA TypeParts ==
  TypeOK <=> /\ PageType /\ LinkType /\ CallType /\ CreationType /\ ServiceType /\ RestType
BY DEF TypeOK, PageType, LinkType, CallType, CreationType, ServiceType, RestType

LEMMA TypePartsNext ==
  TypeOK' <=> /\ PageType' /\ LinkType' /\ CallType' /\ CreationType' /\ ServiceType' /\ RestType'
BY DEF TypeOK, PageType, LinkType, CallType, CreationType, ServiceType, RestType

LEMMA RequestInCall ==
  ASSUME CallType, NEW t \in Task, InCall(t)
  PROVE  request[t] \in Request
BY DEF CallType, InCall

LEMMA StoryRequestType ==
  ASSUME PageType, NEW k \in Int
  PROVE  StoryRequest(k) \in Request
BY DEF PageType, StoryRequest, Request

LEMMA SendType ==
  ASSUME CallType, LinkType, NEW t \in Task, NEW q \in Request, Send(t, q)
  PROVE  CallType'
<1>1. q # None  BY NoneAssumption
<1>2. conn \in ConnId \cup {None}  BY DEF LinkType
<1> QED  BY <1>1, <1>2 DEF CallType, Send

LEMMA FinishType ==
  ASSUME CallType, NEW t \in Task, Finish(t)
  PROVE  CallType'
BY DEF CallType, Finish

LEMMA ForgetType ==
  ASSUME LinkType, Forget, UNCHANGED <<saved, kept>>
  PROVE  LinkType'
BY DEF LinkType, Forget

LEMMA GotoType ==
  ASSUME CreationType, NEW c \in Creator, NEW at \in {"idle", "get", "found", "post", "made"},
         NEW config \in Config \cup {None}, NEW id \in ConnId \cup {None},
         at \in {"get", "found"} => c = Restorer, Goto(c, at, config, id)
  PROVE  CreationType'
<1>1. [at |-> at, config |-> config, id |-> id] \in Creation  BY DEF Creation
<1> QED  BY <1>1 DEF CreationType, Goto

LEMMA RestoringType ==
  ASSUME NEW id \in ConnId \cup {None}, NEW config \in Config \cup {None},
         creation' = Restoring(id, config)
  PROVE  CreationType'
<1>1. \A c \in Creator : Restoring(id, config)[c] \in Creation
  BY DEF Restoring, Creation, Idle
<1>2. \A c \in Creator : Restoring(id, config)[c].at \in {"get", "found"} => c = Restorer
  BY DEF Restoring, Idle
<1>3. Restoring(id, config) = [c \in Creator |-> Restoring(id, config)[c]]  BY DEF Restoring
<1> QED  BY <1>1, <1>2, <1>3 DEF CreationType

----------------------------------------------------------------------------
(* Requests and the conversation *)

LEMMA SameRequest ==
  ASSUME NEW p \in Request, NEW q \in Request, RequestId(p) = RequestId(q), p.text = q.text
  PROVE  p = q
BY DEF RequestId, Request

\* Two requests for one entry of the story are the same.
LEMMA StoryIsConstant ==
  ASSUME NEW p \in Request, NEW q \in Request, Plain(p), Plain(q), q.what = "story",
         RequestId(p) = RequestId(q)
  PROVE  p = q
<1>1. p.what = "story"  BY DEF RequestId
<1> QED  BY <1>1, SameRequest DEF Plain

\* What a rendering leaves, and what is new.
LEMMA ShowFacts ==
  ASSUME shown \in Seq(Request), NEW q \in Request, Show(q)
  PROVE  /\ shown' \in Seq(Request) /\ rendered' = TRUE
         /\ \A i \in DOMAIN shown : i \in DOMAIN shown' /\ shown'[i] = shown[i]
         /\ \A i \in DOMAIN shown' :
              i \notin DOMAIN shown => i = Len(shown) + 1 /\ shown'[i] = q /\ ~Seen(q)
         /\ \E i \in DOMAIN shown' : RequestId(shown'[i]) = RequestId(q)
<1>1. CASE Seen(q)  BY <1>1 DEF Show, Seen
<1>2. CASE ~Seen(q)
  <2>1. shown' = Append(shown, q) /\ rendered' = TRUE  BY <1>2 DEF Show
  <2>2. /\ shown' \in Seq(Request) /\ Len(shown') = Len(shown) + 1
        /\ \A i \in 1 .. Len(shown) : shown'[i] = shown[i]
        /\ shown'[Len(shown) + 1] = q
    BY <2>1
  <2>3. DOMAIN shown = 1 .. Len(shown) /\ DOMAIN shown' = 1 .. Len(shown')  BY <2>2
  <2>4. Len(shown) \in Nat  OBVIOUS
  <2> QED  BY <1>2, <2>1, <2>2, <2>3, <2>4
<1> QED  BY <1>1, <1>2

----------------------------------------------------------------------------
(* Type correctness *)

LEMMA ShowType ==
  ASSUME PageType, NEW q \in Request, Show(q), UNCHANGED <<run, sequence>>,
         loaded' \in BOOLEAN, UNCHANGED results
  PROVE  PageType'
BY ShowFacts DEF PageType

LEMMA RecoverType ==
  ASSUME TypeOK, NEW t \in Task, Recover(t), UNCHANGED <<run, shown, rendered>>,
         UNCHANGED <<clicks, overtaken, cleared>>
  PROVE  PageType' /\ RestType'
<1>1. PageType /\ RestType  BY TypeParts
<1>2. loaded' = loaded /\ sequence' \in Int /\ results' \in Nat \cup {None}
  BY <1>1 DEF Recover, PageType
<1>3. disabled' \in SUBSET {"load", "empty", "send", "connect"}
  BY <1>1 DEF Recover, RestType
<1> QED  BY <1>1, <1>2, <1>3 DEF PageType, RestType

LEMMA TypeInit == Init => TypeOK
<1> SUFFICES ASSUME Init PROVE TypeOK  OBVIOUS
<1>1. PageType
  <2>1. shown \in Seq(Request)  BY DEF Init
  <2>2. loaded \in BOOLEAN /\ rendered \in BOOLEAN  BY DEF Init
  <2>3. run \in Nat /\ sequence \in Int /\ results \in Nat \cup {None}  BY DEF Init
  <2> QED  BY <2>1, <2>2, <2>3 DEF PageType
<1>2. 1 \in ConnId  BY BoundAssumption DEF ConnId
<1>3. LinkType  BY <1>2 DEF Init, LinkType
<1>4. CallType  BY DEF Init, CallType, Nothing
<1>5. CreationType
  <2>1. session \in ConnId \cup {None} /\ kept \in Config \cup {None}
    BY <1>3 DEF LinkType
  <2>2. \A c \in Creator : creation[c] \in Creation
    BY <2>1 DEF Init, Restoring, Creation, Idle
  <2>3. \A c \in Creator : creation[c].at \in {"get", "found"} => c = Restorer
    BY DEF Init, Restoring, Idle
  <2>4. creation = [c \in Creator |-> creation[c]]  BY DEF Init, Restoring
  <2> QED  BY <2>2, <2>3, <2>4 DEF CreationType
<1>6. ServiceType
  <2>1. live \in SUBSET ConnId /\ issued \in 0 .. MaxConn  BY <1>2, BoundAssumption DEF Init
  <2> QED  BY <2>1 DEF Init, ServiceType
<1>7. RestType  BY BoundAssumption DEF Init, RestType, OpenDisabled
<1> QED  BY <1>1, <1>3, <1>4, <1>5, <1>6, <1>7, TypeParts

LEMMA TypeUser == TypeOK /\ User => TypeOK'
<1> SUFFICES ASSUME TypeOK, User PROVE TypeOK'  OBVIOUS
<1>0. PageType /\ LinkType /\ CallType /\ CreationType /\ ServiceType /\ RestType
  BY TypeParts
<1>1. \A t \in Task : InCall(t) => request[t] \in Request  BY <1>0, RequestInCall
<1>2. Click => clicks' \in 0 .. MaxClicks /\ clicks' \in Nat
  BY <1>0, BoundAssumption DEF Click, RestType
<1>3. ASSUME NEW t \in Loader, ClickLoad(t) PROVE TypeOK'
  <2>1. StoryRequest(1) \in Request /\ t \in Task  BY <1>0, StoryRequestType DEF Task
  <2>2. CallType'  BY <1>0, <1>3, <2>1, SendType DEF ClickLoad
  <2>3. PageType' /\ LinkType' /\ CreationType' /\ ServiceType'
    BY <1>0, <1>3 DEF ClickLoad, PageType, LinkType, CreationType, ServiceType, page, link, service
  <2>4. RestType'  BY <1>0, <1>2, <1>3 DEF ClickLoad, RestType
  <2> QED  BY <2>2, <2>3, <2>4, TypePartsNext
<1>4. CASE ClickSend
  <2> DEFINE q == [user |-> run, what |-> "note", number |-> sequence', text |-> clicks']
  <2>1. sequence' \in Int /\ clicks' \in Nat  BY <1>0, <1>2, <1>4 DEF ClickSend, PageType
  <2>2. q \in Request /\ Noter \in Task  BY <1>0, <2>1 DEF Request, PageType, Task
  <2>3. Send(Noter, q)  BY <1>4 DEF ClickSend
  <2> HIDE DEF q
  <2>4. CallType'  BY <1>0, <2>2, <2>3, SendType
  <2>5. PageType' /\ LinkType' /\ CreationType' /\ ServiceType'
    BY <1>0, <1>4, <2>1 DEF ClickSend, PageType, LinkType, CreationType, ServiceType, link, service
  <2>6. RestType'  BY <1>0, <1>2, <1>4 DEF ClickSend, RestType
  <2> QED  BY <2>4, <2>5, <2>6, TypePartsNext
<1>5. ASSUME NEW t \in Searcher, ClickSearch(t) PROVE TypeOK'
  <2> DEFINE q == [user |-> run, what |-> "search", number |-> 0, text |-> 0]
  <2>1. q \in Request /\ t \in Task  BY <1>0 DEF Request, PageType, Task
  <2>2. Send(t, q)  BY <1>5 DEF ClickSearch
  <2> HIDE DEF q
  <2>3. CallType'  BY <1>0, <2>1, <2>2, SendType
  <2>4. PageType' /\ LinkType' /\ CreationType' /\ ServiceType' /\ RestType'
    BY <1>0, <1>2, <1>5
    DEF ClickSearch, PageType, LinkType, CreationType, ServiceType, RestType, page, link, service
  <2> QED  BY <2>3, <2>4, TypePartsNext
<1>6. CASE StartFresh
  <2>1. overtaken' \in SUBSET Request
    BY <1>1, <1>6 DEF StartFresh, InFlight, InCall
  <2>2. PageType'
    <3>1. shown' \in Seq(Request)  BY <1>6 DEF StartFresh
    <3>2. loaded' \in BOOLEAN /\ rendered' \in BOOLEAN  BY <1>6 DEF StartFresh
    <3>3. run' \in Nat /\ sequence' \in Int /\ results' \in Nat \cup {None}
      BY <1>0, <1>6 DEF StartFresh, PageType
    <3> QED  BY <3>1, <3>2, <3>3 DEF PageType
  <2>3. RestType'  BY <1>0, <1>2, <1>6, <2>1 DEF StartFresh, RestType
  <2>4. LinkType' /\ CallType' /\ CreationType' /\ ServiceType'
    BY <1>0, <1>6
    DEF StartFresh, LinkType, CallType, CreationType, ServiceType, link, calls, service
  <2> QED  BY <2>2, <2>3, <2>4, TypePartsNext
<1>7. ASSUME NEW c \in Connector, NEW config \in Config, ClickConnect(c, config) PROVE TypeOK'
  <2>1. c \in Creator  BY DEF Creator
  <2>2. CreationType'  BY <1>0, <1>7, <2>1, GotoType DEF ClickConnect
  <2>3. PageType' /\ LinkType' /\ CallType' /\ ServiceType' /\ RestType'
    BY <1>0, <1>2, <1>7
    DEF ClickConnect, PageType, LinkType, CallType, ServiceType, RestType, page, link, calls, service
  <2> QED  BY <2>2, <2>3, TypePartsNext
<1>8. CASE ClickDisconnect
  <2>1. LinkType'  BY <1>8 DEF ClickDisconnect, Forget, LinkType
  <2>2. PageType' /\ CallType' /\ CreationType' /\ ServiceType' /\ RestType'
    BY <1>0, <1>2, <1>8
    DEF ClickDisconnect, PageType, CallType, CreationType, ServiceType, RestType, page, calls
  <2> QED  BY <2>1, <2>2, TypePartsNext
<1>9. CASE Reload
  <2>1. PageType'
    <3>1. shown' \in Seq(Request)  BY <1>9 DEF Reload
    <3>2. loaded' \in BOOLEAN /\ rendered' \in BOOLEAN  BY <1>9 DEF Reload
    <3>3. run' \in Nat /\ sequence' \in Int /\ results' \in Nat \cup {None}
      BY <1>0, <1>9 DEF Reload, PageType
    <3> QED  BY <3>1, <3>2, <3>3 DEF PageType
  <2>2. LinkType'  BY <1>0, <1>9 DEF Reload, LinkType
  <2>3. CallType'  BY <1>9 DEF Reload, CallType, Nothing
  <2>4. CreationType'
    <3>1. session \in ConnId \cup {None} /\ kept \in Config \cup {None}
      BY <1>0 DEF LinkType
    <3> QED  BY <1>9, <3>1, RestoringType DEF Reload
  <2>5. stray' \in SUBSET Request
    BY <1>0, <1>1, <1>9 DEF Reload, InFlight, InCall, ServiceType
  <2>6. ServiceType'  BY <1>0, <1>9, <2>5 DEF Reload, ServiceType
  <2>7. RestType'  BY <1>0, <1>2, <1>9 DEF Reload, RestType, OpenDisabled
  <2> QED  BY <2>1, <2>2, <2>3, <2>4, <2>6, <2>7, TypePartsNext
<1> QED  BY <1>3, <1>4, <1>5, <1>6, <1>7, <1>8, <1>9 DEF User

LEMMA TypeGoOn == TypeOK /\ (\E t \in Task : GoOn(t)) => TypeOK'
<1> SUFFICES ASSUME TypeOK, NEW t \in Task, GoOn(t) PROVE TypeOK'  OBVIOUS
<1>0. PageType /\ LinkType /\ CallType /\ CreationType /\ ServiceType /\ RestType
  BY TypeParts
<1>1. InCall(t) => request[t] \in Request  BY <1>0, RequestInCall
<1>2. CASE Serve(t)
  <2>1. CallType'  BY <1>0, <1>2 DEF Serve, CallType
  <2>2. stored' \in SUBSET Request
    BY <1>0, <1>1, <1>2 DEF Serve, Add, ServiceType, InCall
  <2>3. ServiceType'  BY <1>0, <1>2, <2>2 DEF Serve, ServiceType
  <2>4. PageType' /\ LinkType' /\ CreationType' /\ RestType'
    BY <1>0, <1>2 DEF Serve, PageType, LinkType, CreationType, RestType, page, link
  <2> QED  BY <2>1, <2>3, <2>4, TypePartsNext
<1>3. CASE Answer(t)
  <2>1. Accepted(t) /\ request[t] \in Request
    BY <1>1, <1>3 DEF Answer, EntryAdded, LastEntryAdded, NoteAdded, ResultsShown, Accepted, InCall
  <2>2. LinkType' /\ CreationType' /\ ServiceType'
    BY <1>0, <2>1 DEF Accepted, LinkType, CreationType, ServiceType, link, service
  <2>3. PageType'
    <3>1. CASE EntryAdded(t) \/ LastEntryAdded(t) \/ NoteAdded(t)
      <4>1. Show(request[t]) /\ UNCHANGED <<run, sequence, results>>
        BY <3>1, <2>1 DEF EntryAdded, LastEntryAdded, NoteAdded, Accepted
      <4>2. loaded' \in BOOLEAN
        BY <3>1, <1>0 DEF EntryAdded, LastEntryAdded, NoteAdded, PageType
      <4> QED  BY <1>0, <2>1, <4>1, <4>2, ShowType
    <3>2. CASE ResultsShown(t)
      <4>1. results' \in Nat  BY <2>1, <3>2 DEF ResultsShown, Request
      <4> QED  BY <1>0, <2>1, <3>2, <4>1 DEF ResultsShown, Accepted, PageType
    <3> QED  BY <1>3, <3>1, <3>2 DEF Answer
  <2>4. CallType'
    <3>1. CASE EntryAdded(t)
      <4>1. request[t].number + 1 \in Int  BY <2>1 DEF Request
      <4>2. StoryRequest(request[t].number + 1) \in Request  BY <1>0, <4>1, StoryRequestType
      <4> QED  BY <1>0, <3>1, <4>2, SendType DEF EntryAdded
    <3>2. CASE LastEntryAdded(t) \/ NoteAdded(t) \/ ResultsShown(t)
      BY <1>0, <3>2, FinishType DEF LastEntryAdded, NoteAdded, ResultsShown
    <3> QED  BY <1>3, <3>1, <3>2 DEF Answer
  <2>5. RestType'
    <3>1. UNCHANGED <<clicks, overtaken, cleared>>  BY <2>1 DEF Accepted
    <3>2. disabled' \in {disabled, disabled \cup {"load", "empty"}, disabled \ {"send"}}
      BY <1>3 DEF Answer, EntryAdded, LastEntryAdded, NoteAdded, ResultsShown
    <3> QED  BY <1>0, <3>1, <3>2 DEF RestType
  <2> QED  BY <2>2, <2>3, <2>4, <2>5, TypePartsNext
<1>4. CASE Refused(t)
  <2>1. PageType' /\ RestType'  BY <1>4, RecoverType DEF Refused
  <2>2. CallType'  BY <1>0, <1>4, FinishType DEF Refused
  <2>3. LinkType'  BY <1>0, <1>4, ForgetType DEF Refused, LinkType
  <2>4. CreationType' /\ ServiceType'
    BY <1>0, <1>4 DEF Refused, CreationType, ServiceType, service
  <2> QED  BY <2>1, <2>2, <2>3, <2>4, TypePartsNext
<1>5. CASE Lost(t)
  <2>1. PageType' /\ RestType'  BY <1>5, RecoverType DEF Lost
  <2>2. CallType'  BY <1>0, <1>5, FinishType DEF Lost
  <2>3. ServiceType'
    BY <1>0, <1>1, <1>5 DEF Lost, ServiceType, InCall
  <2>4. LinkType' /\ CreationType'
    BY <1>0, <1>5 DEF Lost, LinkType, CreationType, link
  <2> QED  BY <2>1, <2>2, <2>3, <2>4, TypePartsNext
<1> QED  BY <1>2, <1>3, <1>4, <1>5 DEF GoOn

LEMMA TypeSetUp == TypeOK /\ (\E c \in Creator : SetUp(c)) => TypeOK'
<1> SUFFICES ASSUME TypeOK, NEW c \in Creator, SetUp(c) PROVE TypeOK'  OBVIOUS
<1>0. PageType /\ LinkType /\ CallType /\ CreationType /\ ServiceType /\ RestType
  BY TypeParts
<1>1. creation[c] \in Creation  BY <1>0 DEF CreationType
<1>2. creation[c].config \in Config \cup {None} /\ creation[c].id \in ConnId \cup {None}
  BY <1>1 DEF Creation
<1>3. CASE MakeConnection(c)
  <2>1. issued' \in ConnId /\ issued' \in 0 .. MaxConn
    BY <1>0, <1>3, BoundAssumption DEF MakeConnection, ServiceType, ConnId
  <2>2. CreationType'  BY <1>0, <1>2, <1>3, <2>1, GotoType DEF MakeConnection
  <2>3. ServiceType'  BY <1>0, <1>3, <2>1 DEF MakeConnection, ServiceType
  <2>4. PageType' /\ LinkType' /\ CallType' /\ RestType'
    BY <1>0, <1>3 DEF MakeConnection, PageType, LinkType, CallType, RestType, page, link, calls
  <2> QED  BY <2>2, <2>3, <2>4, TypePartsNext
<1>4. CASE Connected(c)
  <2>1. CreationType'  BY <1>0, <1>4, GotoType DEF Connected
  <2>2. LinkType'  BY <1>0, <1>2, <1>4 DEF Connected, Forget, LinkType
  <2>3. PageType' /\ CallType' /\ ServiceType' /\ RestType'
    BY <1>0, <1>4 DEF Connected, PageType, CallType, ServiceType, RestType, page, calls
  <2> QED  BY <2>1, <2>2, <2>3, TypePartsNext
<1>5. CASE ConnectFails(c)
  <2>1. CreationType'  BY <1>0, <1>5, GotoType DEF ConnectFails
  <2>2. LinkType'  BY <1>0, <1>5 DEF ConnectFails, Forget, LinkType
  <2>3. PageType' /\ CallType' /\ ServiceType' /\ RestType'
    BY <1>0, <1>5 DEF ConnectFails, PageType, CallType, ServiceType, RestType, page, calls, service
  <2> QED  BY <2>1, <2>2, <2>3, TypePartsNext
<1> QED  BY <1>3, <1>4, <1>5 DEF SetUp

LEMMA TypeOthers ==
  ASSUME TypeOK,
         \/ \E q \in stray : ServeStray(q)
         \/ \E i \in ConnId : Expire(i)
         \/ Describe \/ Restored \/ NotRestored
  PROVE  TypeOK'
<1>0. PageType /\ LinkType /\ CallType /\ CreationType /\ ServiceType /\ RestType
  BY TypeParts
<1>1. Restorer \in Creator /\ creation[Restorer] \in Creation
  BY <1>0 DEF CreationType, Creator
<1>2. creation[Restorer].id \in ConnId \cup {None}  BY <1>1 DEF Creation
<1>3. ASSUME NEW q \in stray, ServeStray(q) PROVE TypeOK'
  <2>1. ServiceType'  BY <1>0, <1>3 DEF ServeStray, Add, ServiceType
  <2>2. PageType' /\ LinkType' /\ CallType' /\ CreationType' /\ RestType'
    BY <1>0, <1>3
    DEF ServeStray, PageType, LinkType, CallType, CreationType, RestType, page, link, calls
  <2> QED  BY <2>1, <2>2, TypePartsNext
<1>4. ASSUME NEW i \in ConnId, Expire(i) PROVE TypeOK'
  <2>1. ServiceType'  BY <1>0, <1>4 DEF Expire, ServiceType
  <2>2. PageType' /\ LinkType' /\ CallType' /\ CreationType' /\ RestType'
    BY <1>0, <1>4
    DEF Expire, PageType, LinkType, CallType, CreationType, RestType, page, link, calls
  <2> QED  BY <2>1, <2>2, TypePartsNext
<1>5. CASE Describe
  <2>1. CreationType'  BY <1>0, <1>1, <1>2, <1>5, GotoType DEF Describe
  <2>2. PageType' /\ LinkType' /\ CallType' /\ ServiceType' /\ RestType'
    BY <1>0, <1>5
    DEF Describe, PageType, LinkType, CallType, ServiceType, RestType, page, link, calls, service
  <2> QED  BY <2>1, <2>2, TypePartsNext
<1>6. CASE Restored
  <2>1. CreationType'  BY <1>0, <1>1, <1>6, GotoType DEF Restored
  <2>2. LinkType'  BY <1>0, <1>2, <1>6 DEF Restored, LinkType
  <2>3. PageType' /\ CallType' /\ ServiceType' /\ RestType'
    BY <1>0, <1>6 DEF Restored, PageType, CallType, ServiceType, RestType, page, calls, service
  <2> QED  BY <2>1, <2>2, <2>3, TypePartsNext
<1>7. CASE NotRestored
  <2>1. saved \in Config \cup {None}  BY <1>0 DEF LinkType
  <2>2. CreationType'
    <3>1. CASE saved = None  BY <1>0, <1>1, <1>7, <3>1, GotoType DEF NotRestored
    <3>2. CASE saved # None  BY <1>0, <1>1, <1>7, <2>1, <3>2, GotoType DEF NotRestored
    <3> QED  BY <3>1, <3>2
  <2>3. LinkType'  BY <1>0, <1>7, ForgetType DEF NotRestored
  <2>4. RestType'  BY <1>0, <1>7 DEF NotRestored, RestType
  <2>5. PageType' /\ CallType' /\ ServiceType'
    BY <1>0, <1>7 DEF NotRestored, PageType, CallType, ServiceType, page, calls, service
  <2> QED  BY <2>2, <2>3, <2>4, <2>5, TypePartsNext
<1> QED  BY <1>3, <1>4, <1>5, <1>6, <1>7

LEMMA TypeStep == TypeOK /\ [Next]_vars => TypeOK'
<1> SUFFICES ASSUME TypeOK, [Next]_vars PROVE TypeOK'  OBVIOUS
<1>1. CASE UNCHANGED vars
  <2>1. PageType' /\ LinkType' /\ CallType' /\ CreationType' /\ ServiceType' /\ RestType'
    BY <1>1, TypeParts
    DEF vars, page, link, calls, service, PageType, LinkType, CallType, CreationType,
        ServiceType, RestType
  <2> QED  BY <2>1, TypePartsNext
<1> QED  BY <1>1, TypeUser, TypeGoOn, TypeSetUp, TypeOthers DEF Next

\* Every variable of page and service keeps its type, whatever overlaps.
THEOREM TypeCorrect == Spec => []TypeOK
BY TypeInit, TypeStep, PTL DEF Spec

----------------------------------------------------------------------------
(* What is in flight *)

LEMMA SendCall ==
  ASSUME CallType, CallInv, NEW t \in Task, NEW q, Send(t, q), Plain(q), q.user = run,
         t \in Loader => q.what = "story" /\ q.number \in 1 .. StoryLength,
         t = Noter => q.what = "note", t \in Searcher => q.what = "search",
         UNCHANGED <<run, stored, stray, overtaken>>
  PROVE  CallInv'
<1>1. /\ \A u \in Task : u # t => status'[u] = status[u] /\ request'[u] = request[u]
      /\ status'[t] = "sent" /\ request'[t] = q
  BY DEF Send, CallType
<1>2. Loader \cup {Noter} \subseteq Task  BY DEF Task
<1>3. KindsKept'  BY <1>1 DEF CallInv, KindsKept, InCall
<1>4. StoryPlain'  BY <1>1 DEF CallInv, StoryPlain, InCall, Plain
<1>5. AcceptedStored'  BY <1>1, <1>2 DEF CallInv, AcceptedStored
<1>6. OwnOrOvertaken'  BY <1>1 DEF CallInv, OwnOrOvertaken, InCall
<1>7. StoryNeverRefused'  BY <1>1, <1>2 DEF CallInv, StoryNeverRefused
<1> QED  BY <1>3, <1>4, <1>5, <1>6, <1>7 DEF CallInv

LEMMA FinishCall ==
  ASSUME CallType, CallInv, NEW t \in Task, InCall(t), Finish(t),
         stray' \subseteq stray \cup {request[t]}, UNCHANGED <<run, stored, overtaken>>
  PROVE  CallInv'
<1>1. /\ \A u \in Task : u # t => status'[u] = status[u] /\ request'[u] = request[u]
      /\ status'[t] = "idle"
  BY DEF Finish, CallType
<1>2. Loader \cup {Noter} \subseteq Task  BY DEF Task
<1>3. KindsKept'  BY <1>1 DEF CallInv, KindsKept, InCall
<1>4. StoryPlain'  BY <1>1 DEF CallInv, StoryPlain, InCall, Plain
<1>5. AcceptedStored'  BY <1>1, <1>2 DEF CallInv, AcceptedStored
<1>6. OwnOrOvertaken'  BY <1>1 DEF CallInv, OwnOrOvertaken, InCall
<1>7. StoryNeverRefused'  BY <1>1, <1>2 DEF CallInv, StoryNeverRefused
<1> QED  BY <1>3, <1>4, <1>5, <1>6, <1>7 DEF CallInv

\* No entry of the story is refused, and what is accepted is stored.
LEMMA ServeCall ==
  ASSUME TypeOK, CallInv, NEW t \in Task, Serve(t)
  PROVE  CallInv' /\ stored \subseteq stored'
<1>0. CallType /\ ServiceType  BY TypeParts
<1>1. InCall(t) /\ request[t] \in Request
  BY <1>0, RequestInCall DEF Serve, InCall
<1>2. /\ UNCHANGED <<run, request, stray, overtaken>>
      /\ \A u \in Task : u # t => status'[u] = status[u]
      /\ status'[t] \in {"unauthorized", "accepted", "conflict"}
  BY <1>0 DEF Serve, page, CallType
<1>3. stored' \in {stored, stored \cup {request[t]}}  BY DEF Serve, Add
<1>4. Loader \cup {Noter} \subseteq Task  BY DEF Task
<1>5. ASSUME t \in Loader \cup {Noter}, status'[t] = "accepted"
      PROVE  request[t] \in stored'
  <2>1. request[t].what # "search"  BY <1>1, <1>5, <1>4 DEF CallInv, KindsKept
  <2>2. Fits(request[t]) /\ Add(request[t])  BY <1>0, <1>5, <2>1 DEF Serve, CallType
  <2> QED  BY <2>2 DEF Fits, Add
<1>6. ASSUME t \in Loader PROVE status'[t] # "conflict"
  <2>1. request[t].what = "story" /\ Plain(request[t])
    BY <1>1, <1>6 DEF CallInv, KindsKept, StoryPlain
  <2>2. ASSUME NEW s \in stored, RequestId(s) = RequestId(request[t]) PROVE s = request[t]
    <3>1. s \in Request /\ Plain(s)  BY <1>0 DEF ServiceType, CallInv, StoryPlain
    <3> QED  BY <1>1, <2>1, <2>2, <3>1, StoryIsConstant
  <2>3. Fits(request[t])  BY <2>2 DEF Fits
  <2> QED  BY <1>0, <2>3 DEF Serve, CallType
<1>7. KindsKept' /\ OwnOrOvertaken'
  BY <1>1, <1>2 DEF CallInv, KindsKept, OwnOrOvertaken, InCall
<1>8. StoryPlain'
  BY <1>1, <1>2, <1>3 DEF CallInv, StoryPlain, InCall, Plain
<1>9. AcceptedStored'
  BY <1>2, <1>3, <1>4, <1>5 DEF CallInv, AcceptedStored
<1>10. StoryNeverRefused'
  BY <1>2, <1>4, <1>6 DEF CallInv, StoryNeverRefused
<1> QED  BY <1>3, <1>7, <1>8, <1>9, <1>10 DEF CallInv

----------------------------------------------------------------------------
(* What is shown *)

\* The conversation stays, at most a load begins, and more may be stored.
LEMMA ViewSame ==
  ASSUME ViewInv, UNCHANGED <<run, loaded, shown, overtaken>>, results' \in {results, None},
         stored \subseteq stored',
         \A u \in Loader : InCall(u)' =>
           (InCall(u) /\ request'[u] = request[u]) \/ request'[u].number = 1
  PROVE  ViewInv'
<1>1. LoadShown'
  <2> SUFFICES ASSUME NoStoryOvertaken', NEW u \in Loader, InCall(u)',
                      NEW k \in 1 .. request'[u].number - 1
               PROVE  \E i \in DOMAIN shown' : shown'[i] = StoryRequest(k)'
    BY DEF LoadShown
  <2>1. NoStoryOvertaken  BY DEF NoStoryOvertaken
  <2>2. request'[u].number # 1  OBVIOUS
  <2>3. InCall(u) /\ request'[u] = request[u]  BY <2>2
  <2>4. \E i \in DOMAIN shown : shown[i] = StoryRequest(k)
    BY <2>1, <2>3 DEF ViewInv, LoadShown
  <2> QED  BY <2>4 DEF StoryRequest
<1>2. ShownIsStored'  BY DEF ViewInv, ShownIsStored
<1>3. TimelineOwn'  BY DEF ViewInv, TimelineOwn, RequestId
<1>4. LoadedIsWhole'  BY DEF ViewInv, LoadedIsWhole, StoryRequest
<1> QED  BY <1>1, <1>2, <1>3, <1>4 DEF ViewInv

\* An accepted entry or note is rendered.
LEMMA ShowView ==
  ASSUME TypeOK, CallInv, ViewInv, NEW t \in Loader \cup {Noter}, status[t] = "accepted",
         Show(request[t]), UNCHANGED <<run, stored, overtaken, results>>
  PROVE  /\ ShownIsStored' /\ TimelineOwn'
         /\ \A i \in DOMAIN shown : i \in DOMAIN shown' /\ shown'[i] = shown[i]
         /\ t \in Loader /\ NoStoryOvertaken =>
              \A k \in 1 .. request[t].number :
                \E i \in DOMAIN shown' : shown'[i] = StoryRequest(k)
<1> DEFINE q == request[t]
<1>0. t \in Task /\ InCall(t)  BY DEF Task, InCall
<1>1. q \in Request /\ shown \in Seq(Request) /\ stored \in SUBSET Request
  BY <1>0, TypeParts, RequestInCall DEF PageType, ServiceType
<1>2. q \in stored /\ (q.user = run \/ q \in overtaken) /\ Plain(q)
  BY <1>0 DEF CallInv, AcceptedStored, OwnOrOvertaken, StoryPlain
<1> HIDE DEF q
<1>3. /\ \A i \in DOMAIN shown : i \in DOMAIN shown' /\ shown'[i] = shown[i]
      /\ \A i \in DOMAIN shown' :
           i \notin DOMAIN shown => i = Len(shown) + 1 /\ shown'[i] = q /\ ~Seen(q)
      /\ \E i \in DOMAIN shown' : RequestId(shown'[i]) = RequestId(q)
  BY <1>1, ShowFacts DEF q
<1>4. \A i \in DOMAIN shown' : shown'[i] \in stored
  BY <1>2, <1>3 DEF ViewInv, ShownIsStored
<1>5. TimelineOwn'
  <2>1. ASSUME NEW i \in DOMAIN shown', NEW j \in DOMAIN shown',
               RequestId(shown'[i]) = RequestId(shown'[j])
        PROVE  i = j
    <3>1. CASE i \in DOMAIN shown /\ j \in DOMAIN shown
      BY <1>3, <2>1, <3>1 DEF ViewInv, TimelineOwn
    <3>2. CASE i \notin DOMAIN shown /\ j \in DOMAIN shown
      BY <1>3, <2>1, <3>2 DEF Seen
    <3>3. CASE i \in DOMAIN shown /\ j \notin DOMAIN shown
      BY <1>3, <2>1, <3>3 DEF Seen
    <3>4. CASE i \notin DOMAIN shown /\ j \notin DOMAIN shown  BY <1>3, <3>4
    <3> QED  BY <3>1, <3>2, <3>3, <3>4
  <2>2. \A i \in DOMAIN shown' : shown'[i].user = run' \/ shown'[i] \in overtaken'
    BY <1>2, <1>3 DEF ViewInv, TimelineOwn
  <2>3. results' \in {None, run'} \cup {p.user : p \in overtaken'}
    BY DEF ViewInv, TimelineOwn
  <2>4. \A i, j \in DOMAIN shown' : RequestId(shown'[i]) = RequestId(shown'[j]) => i = j
    BY <2>1
  <2> QED  BY <2>2, <2>3, <2>4 DEF TimelineOwn, RequestId
<1>6. ASSUME t \in Loader, NoStoryOvertaken, NEW k \in 1 .. q.number
      PROVE  \E i \in DOMAIN shown' : shown'[i] = StoryRequest(k)
  <2>1. q.what = "story" /\ q.number \in 1 .. StoryLength
    BY <1>0, <1>6 DEF CallInv, KindsKept, q
  <2>2. q.number \in Int  BY <1>1 DEF Request
  <2>3. CASE k = q.number
    <3>1. q.user = run  BY <1>2, <1>6, <2>1 DEF NoStoryOvertaken
    <3>2. q = StoryRequest(k)
      BY <1>1, <1>2, <2>1, <2>3, <3>1 DEF StoryRequest, Request, Plain
    <3>3. PICK i \in DOMAIN shown' : RequestId(shown'[i]) = RequestId(q)  BY <1>3
    <3>4. shown'[i] \in Request /\ Plain(shown'[i])
      BY <1>1, <1>4 DEF CallInv, StoryPlain
    <3>5. shown'[i] = q  BY <1>1, <1>2, <2>1, <3>3, <3>4, StoryIsConstant
    <3> QED  BY <3>2, <3>5
  <2>4. CASE k # q.number
    <3>1. k \in 1 .. q.number - 1  BY <2>2, <2>4
    <3>2. \E i \in DOMAIN shown : shown[i] = StoryRequest(k)
      BY <1>0, <1>6, <3>1 DEF ViewInv, LoadShown, q
    <3> QED  BY <1>3, <3>2
  <2> QED  BY <2>3, <2>4
<1> QED  BY <1>3, <1>4, <1>5, <1>6 DEF ShownIsStored, q

----------------------------------------------------------------------------
(* The invariant *)

\* What the settings do not touch.
ConversationSame == UNCHANGED <<page, calls, stored, stray, overtaken>>

LEMMA SettingsSame ==
  ASSUME CallInv, ViewInv, ConversationSame
  PROVE  CallInv' /\ ViewInv'
<1>1. CallInv'
  BY DEF ConversationSame, page, calls, CallInv, KindsKept, StoryPlain, AcceptedStored,
         OwnOrOvertaken, StoryNeverRefused, InCall
<1>2. ViewInv'
  <2>1. UNCHANGED <<run, loaded, shown, results, overtaken, stored, request, status>>
    BY DEF ConversationSame, page, calls
  <2>2. \A u \in Loader : InCall(u)' => InCall(u) /\ request'[u] = request[u]
    BY <2>1 DEF InCall
  <2> QED  BY <2>1, <2>2, ViewSame
<1> QED  BY <1>1, <1>2

LEMMA SendLoads ==
  ASSUME CallType, NEW t \in Task, NEW q, Send(t, q), t \in Loader => q.number = 1
  PROVE  \A u \in Loader : InCall(u)' =>
           (InCall(u) /\ request'[u] = request[u]) \/ request'[u].number = 1
BY DEF Send, CallType, InCall, Task

LEMMA FinishLoads ==
  ASSUME CallType, NEW t \in Task, Finish(t)
  PROVE  \A u \in Loader : InCall(u)' => InCall(u) /\ request'[u] = request[u]
BY DEF Finish, CallType, InCall, Task

\* Nothing is shown and nothing is in flight that was not overtaken.
LEMMA FreshView ==
  ASSUME shown' = <<>>, loaded' = FALSE, results' = None
  PROVE  ShownIsStored' /\ TimelineOwn' /\ LoadedIsWhole'
BY DEF ShownIsStored, TimelineOwn, LoadedIsWhole

LEMMA InitInv == Init => IInv
<1> SUFFICES ASSUME Init PROVE IInv  OBVIOUS
<1>1. TypeOK  BY TypeInit
<1>2. CallInv
  BY DEF Init, CallInv, KindsKept, StoryPlain, AcceptedStored, OwnOrOvertaken,
         StoryNeverRefused, InCall, Task
<1>3. ViewInv
  BY DEF Init, ViewInv, LoadShown, ShownIsStored, TimelineOwn, LoadedIsWhole, InCall, Task
<1>4. CleanBlank  BY DEF Init, CleanBlank
<1> QED  BY <1>1, <1>2, <1>3, <1>4 DEF IInv

LEMMA UserInv == IInv /\ User => CallInv' /\ ViewInv'
<1> SUFFICES ASSUME IInv, User PROVE CallInv' /\ ViewInv'  OBVIOUS
<1>0. TypeOK /\ CallInv /\ ViewInv /\ CallType /\ PageType /\ ServiceType
  BY TypeParts DEF IInv
<1>1. ASSUME NEW t \in Loader, ClickLoad(t) PROVE CallInv' /\ ViewInv'
  <2> DEFINE q == StoryRequest(1)
  <2>1. /\ t \in Task /\ t \notin Searcher /\ t # Noter
        /\ Plain(q) /\ q.user = run /\ q.what = "story" /\ q.number = 1
        /\ 1 \in 1 .. StoryLength
    BY TaskAssumption, BoundAssumption DEF Task, StoryRequest, Plain
  <2>2. /\ Send(t, q)
        /\ UNCHANGED <<run, loaded, shown, results, stored, stray, overtaken>>
    BY <1>1 DEF ClickLoad, page, service
  <2> HIDE DEF q
  <2>3. CallInv'  BY <1>0, <2>1, <2>2, SendCall
  <2>4. \A u \in Loader : InCall(u)' =>
          (InCall(u) /\ request'[u] = request[u]) \/ request'[u].number = 1
    BY <1>0, <2>1, <2>2, SendLoads
  <2>5. ViewInv'  BY <1>0, <2>2, <2>4, ViewSame
  <2> QED  BY <2>3, <2>5
<1>2. CASE ClickSend
  <2> DEFINE q == [user |-> run, what |-> "note", number |-> sequence', text |-> clicks']
  <2>1. /\ Noter \in Task /\ Noter \notin Loader \cup Searcher
        /\ Plain(q) /\ q.user = run /\ q.what = "note"
    BY TaskAssumption DEF Task, Plain
  <2>2. /\ Send(Noter, q)
        /\ UNCHANGED <<run, loaded, shown, results, stored, stray, overtaken>>
    BY <1>2 DEF ClickSend, service
  <2> HIDE DEF q
  <2>3. CallInv'  BY <1>0, <2>1, <2>2, SendCall
  <2>4. \A u \in Loader : InCall(u)' =>
          (InCall(u) /\ request'[u] = request[u]) \/ request'[u].number = 1
    BY <1>0, <2>1, <2>2, SendLoads
  <2>5. ViewInv'  BY <1>0, <2>2, <2>4, ViewSame
  <2> QED  BY <2>3, <2>5
<1>3. ASSUME NEW t \in Searcher, ClickSearch(t) PROVE CallInv' /\ ViewInv'
  <2> DEFINE q == [user |-> run, what |-> "search", number |-> 0, text |-> 0]
  <2>1. /\ t \in Task /\ t \notin Loader /\ t # Noter
        /\ Plain(q) /\ q.user = run /\ q.what = "search"
    BY TaskAssumption DEF Task, Plain
  <2>2. /\ Send(t, q)
        /\ UNCHANGED <<run, loaded, shown, results, stored, stray, overtaken>>
    BY <1>3 DEF ClickSearch, page, service
  <2> HIDE DEF q
  <2>3. CallInv'  BY <1>0, <2>1, <2>2, SendCall
  <2>4. \A u \in Loader : InCall(u)' =>
          (InCall(u) /\ request'[u] = request[u]) \/ request'[u].number = 1
    BY <1>0, <2>1, <2>2, SendLoads
  <2>5. ViewInv'  BY <1>0, <2>2, <2>4, ViewSame
  <2> QED  BY <2>3, <2>5
<1>4. CASE StartFresh
  <2>1. /\ overtaken' = {request[t] : t \in InFlight}
        /\ UNCHANGED <<request, status, stored, stray>>
        /\ shown' = <<>> /\ loaded' = FALSE /\ results' = None
    BY <1>4 DEF StartFresh, calls, service
  <2>2. KindsKept' /\ StoryPlain' /\ AcceptedStored' /\ StoryNeverRefused'
    BY <1>0, <2>1
    DEF CallInv, KindsKept, StoryPlain, AcceptedStored, StoryNeverRefused, InCall
  <2>3. OwnOrOvertaken'  BY <2>1 DEF OwnOrOvertaken, InFlight, InCall
  <2>4. LoadShown'
    <3>1. \A t \in Loader : InCall(t) => request[t].what = "story" /\ request[t] \in overtaken'
      BY <1>0, <2>1 DEF CallInv, KindsKept, InFlight, InCall, Task
    <3> QED  BY <2>1, <3>1 DEF LoadShown, NoStoryOvertaken, InCall
  <2> QED  BY <2>1, <2>2, <2>3, <2>4, FreshView DEF CallInv, ViewInv
<1>5. CASE (\E c \in Connector, config \in Config : ClickConnect(c, config)) \/ ClickDisconnect
  <2>1. ConversationSame
    BY <1>5 DEF ClickConnect, ClickDisconnect, ConversationSame, service
  <2> QED  BY <1>0, <2>1, SettingsSame
<1>6. CASE Reload
  <2>1. /\ \A t \in Task : status'[t] = "idle"
        /\ stored' = stored
        /\ shown' = <<>> /\ loaded' = FALSE /\ results' = None
    BY <1>6 DEF Reload
  <2>2. \A q \in stray' : Plain(q)
    BY <1>0, <1>6 DEF Reload, CallInv, StoryPlain, InFlight, InCall
  <2>3. \A t \in Task : ~InCall(t)'  BY <2>1 DEF InCall
  <2>4. Loader \cup {Noter} \subseteq Task  BY DEF Task
  <2>5. CallInv'
    BY <1>0, <2>1, <2>2, <2>3, <2>4
    DEF CallInv, KindsKept, StoryPlain, AcceptedStored, OwnOrOvertaken, StoryNeverRefused
  <2>6. LoadShown'  BY <2>3, <2>4 DEF LoadShown
  <2> QED  BY <2>1, <2>5, <2>6, FreshView DEF ViewInv
<1> QED  BY <1>1, <1>2, <1>3, <1>4, <1>5, <1>6 DEF User

LEMMA AnswerInv ==
  ASSUME IInv, NEW t \in Task, Answer(t)
  PROVE  CallInv' /\ ViewInv'
<1>0. TypeOK /\ CallInv /\ ViewInv /\ CallType /\ PageType
  BY TypeParts DEF IInv
<1>1. /\ status[t] = "accepted" /\ InCall(t)
      /\ UNCHANGED <<run, sequence, stored, stray, overtaken>>
  BY DEF Answer, EntryAdded, LastEntryAdded, NoteAdded, ResultsShown, Accepted, InCall, service
<1>2. request[t] \in Request  BY <1>0, <1>1, RequestInCall
<1>3. CASE EntryAdded(t)
  <2> DEFINE q == StoryRequest(request[t].number + 1)
  <2>1. /\ t \in Loader /\ Show(request[t]) /\ Send(t, q)
        /\ UNCHANGED <<loaded, results>> /\ request[t].number < StoryLength
    BY <1>3 DEF EntryAdded
  <2>2. request[t].number \in 1 .. StoryLength
    BY <1>0, <1>1, <2>1 DEF CallInv, KindsKept
  <2>3. /\ Plain(q) /\ q.user = run /\ q.what = "story"
        /\ q.number = request[t].number + 1 /\ q.number \in 1 .. StoryLength
        /\ t \notin Searcher /\ t # Noter
    BY <2>1, <2>2, TaskAssumption, BoundAssumption DEF StoryRequest, Plain
  <2> HIDE DEF q
  <2>4. CallInv'  BY <1>0, <1>1, <2>1, <2>3, SendCall
  <2>5. /\ ShownIsStored' /\ TimelineOwn'
        /\ \A i \in DOMAIN shown : i \in DOMAIN shown' /\ shown'[i] = shown[i]
        /\ NoStoryOvertaken => \A k \in 1 .. request[t].number :
              \E i \in DOMAIN shown' : shown'[i] = StoryRequest(k)
    BY <1>0, <1>1, <2>1, ShowView
  <2>6. LoadShown'
    <3> SUFFICES ASSUME NoStoryOvertaken', NEW u \in Loader, InCall(u)',
                        NEW k \in 1 .. request'[u].number - 1
                 PROVE  \E i \in DOMAIN shown' : shown'[i] = StoryRequest(k)'
      BY DEF LoadShown
    <3>1. NoStoryOvertaken  BY <1>1 DEF NoStoryOvertaken
    <3>2. StoryRequest(k)' = StoryRequest(k)  BY <1>1 DEF StoryRequest
    <3>3. CASE u = t
      <4>1. request'[u] = q  BY <1>0, <2>1, <3>3 DEF Send, CallType
      <4>2. k \in 1 .. request[t].number  BY <2>2, <2>3, <4>1
      <4> QED  BY <2>5, <3>1, <3>2, <4>2
    <3>4. CASE u # t
      <4>1. InCall(u) /\ request'[u] = request[u]
        BY <1>0, <2>1, <3>4 DEF Send, CallType, InCall, Task
      <4>2. \E i \in DOMAIN shown : shown[i] = StoryRequest(k)
        BY <1>0, <3>1, <4>1 DEF ViewInv, LoadShown
      <4> QED  BY <2>5, <3>2, <4>2
    <3> QED  BY <3>3, <3>4
  <2>7. LoadedIsWhole'
    BY <1>0, <1>1, <2>1, <2>5 DEF ViewInv, LoadedIsWhole, StoryRequest
  <2> QED  BY <2>4, <2>5, <2>6, <2>7 DEF ViewInv
<1>4. CASE LastEntryAdded(t) \/ NoteAdded(t)
  <2>1. /\ t \in Loader \cup {Noter} /\ Show(request[t]) /\ Finish(t)
        /\ UNCHANGED results
    BY <1>4 DEF LastEntryAdded, NoteAdded
  <2>2. CallInv'  BY <1>0, <1>1, <2>1, FinishCall
  <2>3. /\ ShownIsStored' /\ TimelineOwn'
        /\ \A i \in DOMAIN shown : i \in DOMAIN shown' /\ shown'[i] = shown[i]
        /\ t \in Loader /\ NoStoryOvertaken => \A k \in 1 .. request[t].number :
              \E i \in DOMAIN shown' : shown'[i] = StoryRequest(k)
    BY <1>0, <1>1, <2>1, ShowView
  <2>4. \A u \in Loader : InCall(u)' => InCall(u) /\ request'[u] = request[u]
    BY <1>0, <2>1, FinishLoads
  <2>5. LoadShown'
    <3> SUFFICES ASSUME NoStoryOvertaken', NEW u \in Loader, InCall(u)',
                        NEW k \in 1 .. request'[u].number - 1
                 PROVE  \E i \in DOMAIN shown' : shown'[i] = StoryRequest(k)'
      BY DEF LoadShown
    <3>1. NoStoryOvertaken  BY <1>1 DEF NoStoryOvertaken
    <3>2. StoryRequest(k)' = StoryRequest(k)  BY <1>1 DEF StoryRequest
    <3>3. \E i \in DOMAIN shown : shown[i] = StoryRequest(k)
      BY <1>0, <2>4, <3>1 DEF ViewInv, LoadShown
    <3> QED  BY <2>3, <3>2, <3>3
  <2>6. LoadedIsWhole'
    <3>1. CASE LastEntryAdded(t)
      <4>1. t \in Loader /\ request[t].number >= StoryLength  BY <3>1 DEF LastEntryAdded
      <4>2. request[t].number \in 1 .. StoryLength
        BY <1>0, <1>1, <4>1 DEF CallInv, KindsKept, Task
      <4>3. request[t].number = StoryLength  BY <4>1, <4>2, BoundAssumption
      <4>4. NoStoryOvertaken' => \A k \in 1 .. StoryLength :
              \E i \in DOMAIN shown' : shown'[i] = StoryRequest(k)
        BY <1>1, <2>3, <4>1, <4>3 DEF NoStoryOvertaken
      <4>5. \A k \in 1 .. StoryLength : StoryRequest(k)' = StoryRequest(k)
        BY <1>1 DEF StoryRequest
      <4> QED  BY <4>4, <4>5 DEF LoadedIsWhole, NoStoryOvertaken
    <3>2. CASE NoteAdded(t)
      <4>1. UNCHANGED loaded  BY <3>2 DEF NoteAdded
      <4> QED  BY <1>0, <1>1, <2>3, <4>1 DEF ViewInv, LoadedIsWhole, StoryRequest
    <3> QED  BY <1>4, <3>1, <3>2
  <2> QED  BY <2>2, <2>3, <2>5, <2>6 DEF ViewInv
<1>5. CASE ResultsShown(t)
  <2>1. /\ Finish(t) /\ results' = request[t].user
        /\ UNCHANGED <<loaded, shown>>
    BY <1>5 DEF ResultsShown
  <2>2. CallInv'  BY <1>0, <1>1, <2>1, FinishCall
  <2>3. \A u \in Loader : InCall(u)' => InCall(u) /\ request'[u] = request[u]
    BY <1>0, <2>1, FinishLoads
  <2>4. results' \in {None, run} \cup {p.user : p \in overtaken}
    BY <1>0, <1>1, <2>1 DEF CallInv, OwnOrOvertaken
  <2>5. LoadShown'
    <3>1. \A k : StoryRequest(k)' = StoryRequest(k)  BY <1>1 DEF StoryRequest
    <3> QED  BY <1>0, <1>1, <2>1, <2>3, <3>1 DEF ViewInv, LoadShown, NoStoryOvertaken
  <2>6. ShownIsStored' /\ LoadedIsWhole'
    BY <1>0, <1>1, <2>1 DEF ViewInv, ShownIsStored, LoadedIsWhole, StoryRequest
  <2>7. TimelineOwn'
    BY <1>0, <1>1, <2>1, <2>4 DEF ViewInv, TimelineOwn, RequestId
  <2> QED  BY <2>2, <2>5, <2>6, <2>7 DEF ViewInv
<1> QED  BY <1>3, <1>4, <1>5 DEF Answer

LEMMA GoOnInv ==
  ASSUME IInv, NEW t \in Task, GoOn(t)
  PROVE  CallInv' /\ ViewInv'
<1>0. TypeOK /\ CallInv /\ ViewInv /\ CallType /\ ServiceType
  BY TypeParts DEF IInv
<1>1. CASE Serve(t)
  <2>1. CallInv' /\ stored \subseteq stored'  BY <1>0, <1>1, ServeCall
  <2>2. /\ UNCHANGED <<run, loaded, shown, results, overtaken, request>>
        /\ \A u \in Task : InCall(u)' => InCall(u)
    BY <1>0, <1>1 DEF Serve, page, InCall, CallType
  <2>3. \A u \in Loader : InCall(u)' => InCall(u) /\ request'[u] = request[u]
    BY <2>2 DEF Task
  <2>4. ViewInv'  BY <1>0, <2>1, <2>2, <2>3, ViewSame
  <2> QED  BY <2>1, <2>4
<1>2. CASE Refused(t) \/ Lost(t)
  <2>1. InCall(t)  BY <1>2 DEF Refused, Lost, InCall
  <2>2. Finish(t) /\ UNCHANGED <<run, shown, stored, overtaken>>
    BY <1>2 DEF Refused, Lost, service
  <2>3. UNCHANGED loaded /\ results' \in {results, None}
    BY <1>2 DEF Refused, Lost, Recover
  <2>4. stray' \subseteq stray \cup {request[t]}
    BY <1>2 DEF Refused, Lost, service
  <2>5. CallInv'  BY <1>0, <2>1, <2>2, <2>4, FinishCall
  <2>6. \A u \in Loader : InCall(u)' => InCall(u) /\ request'[u] = request[u]
    BY <1>0, <2>2, FinishLoads
  <2>7. ViewInv'  BY <1>0, <2>2, <2>3, <2>6, ViewSame
  <2> QED  BY <2>5, <2>7
<1> QED  BY <1>1, <1>2, AnswerInv DEF GoOn

LEMMA StrayInv ==
  ASSUME IInv, NEW q \in stray, ServeStray(q)
  PROVE  CallInv' /\ ViewInv'
<1>0. CallInv /\ ViewInv  BY DEF IInv
<1>1. UNCHANGED <<run, loaded, shown, results, overtaken, request, status>>
  BY DEF ServeStray, page, calls
<1>2. stored \subseteq stored' /\ stored' \cup stray' \subseteq stored \cup stray
  BY DEF ServeStray, Add
<1>3. CallInv'
  BY <1>0, <1>1, <1>2
  DEF CallInv, KindsKept, StoryPlain, AcceptedStored, OwnOrOvertaken, StoryNeverRefused, InCall
<1>4. \A u \in Loader : InCall(u)' => InCall(u) /\ request'[u] = request[u]
  BY <1>1 DEF InCall
<1>5. ViewInv'  BY <1>0, <1>1, <1>2, <1>4, ViewSame
<1> QED  BY <1>3, <1>5

----------------------------------------------------------------------------
(* The connection after a disconnect *)

LEMMA SettingsClean ==
  ASSUME IInv, NEW c \in Creator, SetUp(c)
  PROVE  cleared' # "clean"
<1>1. creation[c].at \in {"post", "made"}
  BY DEF SetUp, MakeConnection, Connected, ConnectFails
<1>2. c \in Creating  BY <1>1 DEF Creating
<1>3. cleared # "clean"  BY <1>2 DEF IInv, CleanBlank
<1>4. UNCHANGED cleared  BY DEF SetUp, MakeConnection, Connected, ConnectFails
<1> QED  BY <1>3, <1>4

LEMMA CleanStep ==
  ASSUME IInv, Next
  PROVE  CleanBlank'
<1>0. TypeOK /\ CreationType /\ (cleared = "clean" => Blank /\ Creating = {})
  BY TypeParts DEF IInv, CleanBlank
<1>1. ASSUME cleared' = cleared, Blank => Blank', Creating = {} => Creating' = {}
      PROVE  CleanBlank'
  BY <1>0, <1>1 DEF CleanBlank
<1>2. ASSUME UNCHANGED <<link, creation, cleared>> PROVE CleanBlank'
  BY <1>0, <1>2 DEF CleanBlank, Blank, Creating, link
<1>3. ASSUME NEW t \in Task, GoOn(t) PROVE CleanBlank'
  <2>1. CASE Refused(t)
    <3>1. UNCHANGED <<creation, cleared, saved, kept>>  BY <2>1 DEF Refused
    <3>2. Blank => Blank'  BY <2>1, <3>1 DEF Refused, Forget, Blank
    <3>3. Creating = {} => Creating' = {}  BY <3>1 DEF Creating
    <3> QED  BY <1>1, <3>1, <3>2, <3>3
  <2>2. CASE Serve(t) \/ Answer(t) \/ Lost(t)
    <3>1. UNCHANGED <<link, creation, cleared>>
      BY <2>2 DEF Serve, Answer, EntryAdded, LastEntryAdded, NoteAdded, ResultsShown,
                  Accepted, Lost
    <3> QED  BY <1>2, <3>1
  <2> QED  BY <1>3, <2>1, <2>2 DEF GoOn
<1>4. ASSUME NEW c \in Creator, SetUp(c) PROVE CleanBlank'
  BY <1>4, SettingsClean DEF CleanBlank
<1>5. ASSUME NEW q \in stray, ServeStray(q) PROVE CleanBlank'
  BY <1>2, <1>5 DEF ServeStray
<1>6. ASSUME NEW i \in ConnId, Expire(i) PROVE CleanBlank'
  BY <1>2, <1>6 DEF Expire
<1>7. CASE Describe \/ Restored
  <2>1. UNCHANGED <<cleared, conn, session, saved, kept>>
    BY <1>7 DEF Describe, Restored, link
  <2>2. Creating = {} => Creating' = {}
    BY <1>0, <1>7 DEF Describe, Restored, Goto, Creating, CreationType
  <2> QED  BY <1>1, <2>1, <2>2 DEF Blank
<1>8. CASE NotRestored
  <2>1. UNCHANGED <<cleared, saved, kept>> /\ (Blank => Blank')
    BY <1>8 DEF NotRestored, Forget, Blank
  <2>2. Blank /\ Creating = {} => Creating' = {}
    BY <1>0, <1>8 DEF NotRestored, Goto, Creating, CreationType, Blank
  <2> QED  BY <1>0, <2>1, <2>2 DEF CleanBlank
<1>9. CASE User
  <2>1. CASE (\E t \in Loader : ClickLoad(t)) \/ ClickSend \/ (\E t \in Searcher : ClickSearch(t))
             \/ StartFresh
    BY <1>2, <2>1 DEF ClickLoad, ClickSend, ClickSearch, StartFresh
  <2>2. CASE \E c \in Connector, config \in Config : ClickConnect(c, config)
    BY <2>2 DEF ClickConnect, CleanBlank
  <2>3. CASE ClickDisconnect
    <3>1. Blank' /\ Creating' = Creating
      BY <2>3 DEF ClickDisconnect, Forget, Blank, Creating
    <3> QED  BY <2>3, <3>1 DEF ClickDisconnect, CleanBlank
  <2>4. CASE Reload
    <3>1. UNCHANGED <<cleared, session, kept>> /\ conn' = session /\ saved' = kept
      BY <2>4 DEF Reload
    <3>2. Blank => Blank'  BY <3>1 DEF Blank
    <3>3. Blank => Creating' = {}
      BY <2>4 DEF Reload, Restoring, Idle, Blank, Creating
    <3> QED  BY <1>0, <3>1, <3>2, <3>3 DEF CleanBlank
  <2> QED  BY <1>9, <2>1, <2>2, <2>3, <2>4 DEF User
<1> QED  BY <1>3, <1>4, <1>5, <1>6, <1>7, <1>8, <1>9 DEF Next

----------------------------------------------------------------------------
(* The theorems *)

LEMMA InvStep == IInv /\ [Next]_vars => IInv'
<1> SUFFICES ASSUME IInv, [Next]_vars PROVE IInv'  OBVIOUS
<1>0. TypeOK /\ CallInv /\ ViewInv  BY DEF IInv
<1>1. TypeOK'  BY <1>0, TypeStep
<1>2. ASSUME ConversationSame PROVE CallInv' /\ ViewInv'
  BY <1>0, <1>2, SettingsSame
<1>3. CASE UNCHANGED vars
  <2>1. CallInv' /\ ViewInv'
    BY <1>2, <1>3 DEF vars, service, ConversationSame
  <2>2. CleanBlank'  BY <1>3 DEF IInv, CleanBlank, Blank, Creating, vars, link
  <2> QED  BY <1>1, <2>1, <2>2 DEF IInv
<1>4. CASE Next
  <2>1. User => CallInv' /\ ViewInv'  BY UserInv
  <2>2. (\E t \in Task : GoOn(t)) => CallInv' /\ ViewInv'  BY GoOnInv
  <2>3. (\E q \in stray : ServeStray(q)) => CallInv' /\ ViewInv'  BY StrayInv
  <2>4. ASSUME \/ \E i \in ConnId : Expire(i)
               \/ \E c \in Creator : SetUp(c)
               \/ Describe \/ Restored \/ NotRestored
        PROVE  CallInv' /\ ViewInv'
    <3>1. ConversationSame
      BY <2>4 DEF Expire, SetUp, MakeConnection, Connected, ConnectFails, Describe, Restored,
                  NotRestored, ConversationSame, service
    <3> QED  BY <1>2, <3>1
  <2>5. CallInv' /\ ViewInv'  BY <1>4, <2>1, <2>2, <2>3, <2>4 DEF Next
  <2> QED  BY <1>1, <1>4, <2>5, CleanStep DEF IInv
<1> QED  BY <1>3, <1>4

\* The invariant that links requests, their answers and what is shown.
THEOREM Inductive == Spec => []IInv
BY InitInv, InvStep, PTL DEF Spec

\* Whatever the conversation shows is stored with the text that is shown.
THEOREM NothingShownUnstored == Spec => []ShownIsStored
<1>1. IInv => ShownIsStored  BY DEF IInv, ViewInv
<1> QED  BY <1>1, Inductive, PTL

\* Entries are shown once, and only those of the run or in flight at a fresh start.
THEOREM RunsKeptApart == Spec => []TimelineOwn
<1>1. IInv => TimelineOwn  BY DEF IInv, ViewInv
<1> QED  BY <1>1, Inductive, PTL

\* No entry of the story is ever refused, and a story said to be loaded is whole.
THEOREM StoriesResume == Spec => []StoryResumable
<1>1. IInv => StoryResumable  BY DEF IInv, CallInv, ViewInv, StoryResumable
<1> QED  BY <1>1, Inductive, PTL

\* After a disconnect that raced with nothing, no late answer brings anything back.
THEOREM ClearedForGood == Spec => []ClearedStaysCleared
<1>1. IInv => ClearedStaysCleared  BY DEF IInv, CleanBlank, ClearedStaysCleared
<1> QED  BY <1>1, Inductive, PTL
=============================================================================
