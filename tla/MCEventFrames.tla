--------------------------- MODULE MCEventFrames ---------------------------
(* EventFrames on small instances. *)
EXTENDS EventFrames

StartFirst == <<"start", "end", "other">>
OtherFirst == <<"other", "start", "end">>
EndFirst   == <<"end", "start", "other">>

OneOrder  == {StartFirst}
\* No attribute but the two, which say as much where both report in every scan.
BothReport == {<<"start", "end">>}
AllOrders == {StartFirst, OtherFirst, EndFirst}
=============================================================================
