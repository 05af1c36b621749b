----------------------------- MODULE MCRanking -----------------------------
(* Three messages of one or two sessions, told out of order, one of them   *)
(* without a time, and the kinds of query that take different routes.      *)
EXTENDS Ranking

CONSTANTS s1, s2

Told(session, at) == [session |-> session, at |-> at]

MCLog == { <<Told(s1, 2), Told(s2, None), Told(s1, 1)>>,
           <<Told(s1, 1), Told(s1, 2), Told(s2, 2)>> }

MCIntent == {"preference"}

Asks(history, current, facets, intents, components, compare) ==
  [history |-> history, current |-> current, facets |-> facets,
   intents |-> intents, components |-> components, compare |-> compare]

MCQuery ==
  { Asks(TRUE, FALSE, TRUE, {}, 0, FALSE), Asks(FALSE, TRUE, FALSE, {}, 2, TRUE),
    Asks(FALSE, FALSE, TRUE, {}, 1, FALSE), Asks(FALSE, FALSE, FALSE, {"preference"}, 0, FALSE) }
=============================================================================
