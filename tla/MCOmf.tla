-------------------------------- MODULE MCOmf --------------------------------
(* OmfSink on small instances. *)
EXTENDS OmfSink

Calm == [size |-> 3, tags |-> {"A"}, kinds |-> {"Good"}, db |-> 0, receiver |-> 0, lose |-> 0,
         stops |-> 0, unknown |-> {}]

Outages ==
  {[Calm EXCEPT !.size = 5, !.receiver = 2, !.lose = 1],
   [Calm EXCEPT !.db = 2, !.receiver = 1, !.lose = 1],
   [Calm EXCEPT !.size = 5, !.receiver = 1, !.db = 2],
   [Calm EXCEPT !.size = 4, !.receiver = 1, !.lose = 1, !.stops = 1],
   [Calm EXCEPT !.size = 5, !.receiver = 1, !.db = 1, !.stops = 1],
   [Calm EXCEPT !.size = 4, !.receiver = 1, !.stops = 2],
   [Calm EXCEPT !.tags = Tags, !.kinds = {"Good", "Bad", "health"}, !.receiver = 1, !.lose = 1]}

ATagIsGone == {[Calm EXCEPT !.tags = Tags, !.unknown = {"B"}]}
Breaks == {[Calm EXCEPT !.size = 4, !.receiver = 1, !.db = 2]}
=============================================================================
