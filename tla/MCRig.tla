-------------------------------- MODULE MCRig --------------------------------
(* The rig and its bridge on small instances. *)
EXTENDS RigBridge

Build(fitted, rtu, config) == [relays |-> fitted, switch |-> fitted, config |-> config, rtu |-> rtu]
On(b, sensors, moving, n)  == b @@ [sensors |-> sensors, moving |-> moving, moves |-> n]

\* The build on the bench over either link, and the one with relays and switch.
Bench485  == Build(FALSE, TRUE, TRUE)
BenchWiFi == Build(FALSE, FALSE, TRUE)
NoProbes  == Build(FALSE, FALSE, FALSE)
Fitted    == Build(TRUE, TRUE, TRUE)

Everything ==
  {On(BenchWiFi, {"current"}, {"acs"}, 3),
   On(Bench485, {"vib"}, {"vib", "reset"}, 2),
   On(BenchWiFi, {"hub"}, {"hub"}, 4), On(NoProbes, {"hub", "amb"}, {"hub"}, 2),
   On(BenchWiFi, {"supply"}, {"supply"}, 3), On(BenchWiFi, {"current"}, {"supply", "coils"}, 2),
   On(Fitted, {}, {"coils"}, 2), On(Fitted, {}, {"run", "reset"}, 2)}

TheSupply == {On(BenchWiFi, {"current"}, {"supply"}, 1)}
Bare      == {On(BenchWiFi, {}, {}, 0)}
SwitchOverRS485 == {On([Bench485 EXCEPT !.switch = TRUE], {}, {}, 0)}
=============================================================================
