------------------------------ MODULE MCScraper ------------------------------
(* ScraperPoll on small instances, in units of five seconds. *)
EXTENDS ScraperPoll

MCBackoffs == <<1, 1, 2>>

\* A page that is published, the same while it is still being filled in, and
\* a later one.
Fine    == [t \in Tables |-> "number"]
MCPages == {[ts |-> 1, text |-> Fine], [ts |-> 1, text |-> [Fine EXCEPT !["unit"] = "empty"]],
            [ts |-> 2, text |-> Fine]}
=============================================================================
