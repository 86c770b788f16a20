------------------------------ MODULE MCAlerts ------------------------------
(* Alerts on small instances. *)
EXTENDS Alerts

OneRule == <<"r1">>
BadTag  == [r1 |-> [kind |-> "tag", condition |-> "bad", for |-> 2]]

Listed     == {{"r1"}}
ListedOrNot == {{}, {"r1"}}
=============================================================================
