------------------------------ MODULE MCIngress ------------------------------
(* Ingress on small instances: two groups of one and three tags. *)
EXTENDS Ingress

MCGroups  == <<"fast", "slow">>
MCGroupOf == ("A" :> "fast") @@ ("B" :> "slow") @@ ("C" :> "slow") @@ ("D" :> "slow")
MCHasPath == ("A" :> TRUE) @@ ("B" :> TRUE) @@ ("C" :> FALSE) @@ ("D" :> TRUE)

Quiet == [data |-> 0, lose |-> 0, repeat |-> 0, cut |-> 0, restart |-> 0, values |-> {{}},
          nodes |-> {{"A"}}, browsers |-> FALSE, events |-> {1}, halfway |-> 0]

\* Losses and repeats on one subscription; on two; reconnects, also while the
\* tags of one group are monitored; tags that come and go; refusals; browsers.
Cases ==
  {[Quiet EXCEPT !.data = 4, !.lose = 2, !.repeat = 1],
   [Quiet EXCEPT !.data = 2, !.lose = 1, !.nodes = {{"A", "B"}}],
   [Quiet EXCEPT !.data = 2, !.lose = 1, !.repeat = 1, !.cut = 1, !.restart = 1],
   [Quiet EXCEPT !.data = 3, !.lose = 1, !.restart = 1, !.nodes = {{"B", "D"}}],
   [Quiet EXCEPT !.data = 1, !.cut = 1, !.nodes = {{"A", "B"}}, !.halfway = 1],
   [Quiet EXCEPT !.restart = 2, !.nodes = SUBSET {"A", "B", "C"}],
   [Quiet EXCEPT !.data = 2, !.lose = 1, !.values = {{}, {"noSource", "noStatus"}, {"noStatus", "text"}, {"text", "noServer"}, {"noServer"}}],
   [Quiet EXCEPT !.data = 3, !.browsers = TRUE, !.events = {0, 2}]}
=============================================================================
