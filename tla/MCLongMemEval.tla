--------------------------- MODULE MCLongMemEval ---------------------------
(***************************************************************************)
(* Instances of LongMemEval for TLC.  Two kinds of setup: files of every   *)
(* shape whose cases are small, in chunks of several sizes; and one plain  *)
(* file whose first case holds any sessions of a few turns.                *)
(***************************************************************************)
EXTENDS LongMemEval, TLC

\* 1 and 1/log2(rank) in thousandths
MCDiscount == <<1000, 1000, 631, 500>>

\* All short files, and a longer one with up to two of its tokens replaced.
Plain == <<" ", "[", " ", "a", ",", " ", "b", "]", " ">>
Files ==
  UNION {[1 .. n -> Token] : n \in 0 .. 4}
    \cup {[Plain EXCEPT ![i] = s, ![j] = t] : i, j \in DOMAIN Plain, s, t \in Token}

Turn(words, answer) == [words |-> words, answer |-> answer]
Session(id, turns) == [id |-> id, turns |-> turns]
Case(type, sessions, answers, abstention) ==
  [type |-> type, sessions |-> sessions, answers |-> answers, abstention |-> abstention]

Small == Case("t1", <<Session("s1", <<Turn(1, TRUE)>>)>>, {"s1"}, FALSE)
Blank == Case("t2", <<Session("s1", <<Turn(0, FALSE)>>)>>, {}, TRUE)

\* How a file is evaluated: filters one at a time, and a case without text.
Filter(wanted, limit, perType, second) ==
  [wanted |-> wanted, limit |-> limit, perType |-> perType, second |-> second]
Filters ==
  {Filter(CaseId, None, None, Small), Filter(CaseId, None, None, Blank),
   Filter(CaseId, 1, None, Small), Filter(CaseId, None, 1, Small),
   Filter({"b"}, None, None, Small)}

FileOptions ==
  {[chunk |-> chunk, semantic |-> TRUE, ingestion |-> "benchmark-lexical",
    wanted |-> f.wanted, limit |-> f.limit, perType |-> f.perType,
    cases |-> [c \in CaseId |-> IF c = "b" THEN f.second ELSE Small]] :
     chunk \in {1, 2, 20}, f \in Filters}

AnyTurn == {Turn(0, FALSE)} \cup {Turn(words, answer) : words \in {1, 3}, answer \in BOOLEAN}
Histories ==
  {<<Session("s1", turns)>> : turns \in [1 .. 3 -> AnyTurn]}
    \cup {<<Session("s1", <<t, u>>), Session(id, <<v>>)>> :
            id \in {"s1", "s2"}, t, u, v \in AnyTurn}
Answered(sessions) == \E s \in DOMAIN sessions : \E k \in DOMAIN sessions[s].turns :
                        sessions[s].turns[k].answer

CaseOptions ==
  {[chunk |-> 20, semantic |-> semantic, ingestion |-> mode,
    wanted |-> CaseId, limit |-> None, perType |-> None,
    cases |-> [c \in CaseId |->
       IF c = "a" THEN Case("t1", sessions, {sessions[Len(sessions)].id}, ~Answered(sessions))
       ELSE Small]] :
     sessions \in Histories, semantic \in BOOLEAN, mode \in {"benchmark-lexical", "full"}}

Setups ==
  [tokens : Files, options : FileOptions]
    \cup [tokens : {<<"[", "a", "]">>}, options : CaseOptions]
=============================================================================
