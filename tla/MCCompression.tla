---------------------------- MODULE MCCompression ----------------------------
(* Compression on short series. *)
EXTENDS Compression

Config(exc, comp, values, qualities, steps, size) ==
  [exc |-> exc, comp |-> comp, values |-> values, qualities |-> qualities, steps |-> steps, size |-> size]

\* ExcDev is CompDev / 2, as in config/, or one of the two is off.  Larger, and
\* ReconstructsWithinCompDev fails: a one-point segment is not verified.
Shapes ==
  {Config(1, 2, {0, 1, 2, 5}, {"Good"}, {1}, 7),
   Config(1, 2, {1, 4}, {"Good"}, {1, 2}, 7),
   Config(Off, 2, {0, 2, 5}, {"Good"}, {1}, 8),
   Config(1, Off, {0, 1, 2}, {"Good"}, {1, 2}, 5),
   Config(1, 2, {0, Null}, {"Good", "Uncertain"}, {1, -1}, 5),
   Config(1, 2, {0, 2}, {"Good", "Uncertain"}, {1}, 6)}
Late == {Config(1, 2, {0}, {"Good"}, {2, -1}, 5)}
=============================================================================
