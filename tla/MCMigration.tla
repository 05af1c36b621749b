--------------------------- MODULE MCMigration ---------------------------
(* A meeting planned, and moved with words that point to the plan, and     *)
(* another user of the same session id with a pronoun, in a file of any    *)
(* earlier state of the migrations.                                        *)
EXTENDS Migration

CONSTANTS u1, u2, s1, p1, p2

Users == {u1, u2}
Sessions == {s1}
Processes == {p1, p2}

Plan ==
  [user |-> u1, session |-> s1, at |-> 1, terms |-> {"atlas", "meeting"},
   explicit |-> FALSE, unsafe |-> FALSE, tagged |-> FALSE,
   pronoun |-> FALSE, there |-> FALSE, named |-> <<"atlas">>, located |-> {"lake"},
   events |-> {"meeting"}, entities |-> {"atlas", "lake"}, anchors |-> {"atlas"},
   places |-> {"lake"}, dates |-> {"09-03"}, statuses |-> {}]

Moved ==
  [Plan EXCEPT !.at = 2, !.tagged = TRUE, !.pronoun = TRUE, !.there = TRUE,
               !.named = <<>>, !.located = {}, !.entities = {}, !.places = {},
               !.anchors = {}, !.dates = {"09-05"}]

Theirs ==
  [Moved EXCEPT !.user = u2, !.at = None, !.explicit = TRUE, !.events = {}, !.dates = {}]

Boat == [NoFacets EXCEPT !["entities"] = {"boat"}, !["anchors"] = {"boat"}]

Memories == {Plan, Moved, Theirs}
Enrichments == {NoFacets, Boat}
=============================================================================
