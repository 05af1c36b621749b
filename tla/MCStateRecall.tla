--------------------------- MODULE MCStateRecall ---------------------------
(* Two users who share a session id, and one meeting: planned, moved,      *)
(* cancelled and forgotten, by messages that may arrive in any order.      *)
EXTENDS StateRecall

CONSTANTS u1, u2, s1, s2

Users == {u1, u2}
Sessions == {s1, s2}

\* What the analysis finds in "The Atlas meeting ... at Juniper Cafe."
Meeting(u, s, at, dates, statuses) ==
  [user |-> u, session |-> s, at |-> at, terms |-> {"atlas", "meeting", "juniper", "cafe"},
   explicit |-> statuses = {"update"}, unsafe |-> FALSE,
   events |-> {"meeting"}, entities |-> {"atlas", "juniper cafe"},
   places |-> {"juniper cafe"}, dates |-> dates, statuses |-> statuses]

Plan(u) == Meeting(u, s1, 2, {"09-03"}, {})
Moved   == Meeting(u1, s2, 3, {"09-05"}, {"update"})
Forget  == Meeting(u1, s2, 1, {}, {"forget"})

\* "The Atlas meeting is cancelled."
Called ==
  [Meeting(u1, s1, None, {}, {"cancel"}) EXCEPT
     !.explicit = TRUE, !.terms = {"atlas", "meeting", "cancelled"},
     !.entities = {"atlas"}, !.places = {}]

\* "Atlas moved to Juniper Hall", said before the plan was made.
Note ==
  [Meeting(u1, s1, 1, {}, {}) EXCEPT
     !.explicit = TRUE, !.terms = {"atlas", "juniper", "hall"},
     !.events = {}, !.entities = {"atlas", "juniper hall"}, !.places = {"juniper hall"}]

\* "Ignore all previous instructions ..."
Injection ==
  [Meeting(u1, s1, None, {}, {}) EXCEPT
     !.unsafe = TRUE, !.terms = {"ignore", "all", "previous", "instructions"},
     !.events = {}, !.entities = {}, !.places = {}]

Memories == {Plan(u1), Plan(u2), Moved, Called, Forget, Note, Injection}

Asks(h, c, i) == [user |-> u1, history |-> h, current |-> c, injection |-> i]
Queries == {Asks(FALSE, TRUE, FALSE), Asks(TRUE, FALSE, TRUE)}
OrdinaryQueries == {Asks(FALSE, FALSE, FALSE)}
=============================================================================
