----------------------------- MODULE MCEarthquake -----------------------------
(***************************************************************************)
(* A small instance of Earthquake.  The motions: at rest, 77/256 g along y *)
(* (just above the threshold), and at once 76/256 g along y (just below)   *)
(* and a strong shake of -128 g in the negative direction of x, with       *)
(* gravity along z.  The register DATA_FORMAT has one of its upper bits    *)
(* set at first.                                                           *)
(***************************************************************************)
EXTENDS Earthquake

CONSTANT half       \* a state like 0.5, which int() refuses

Rest == <<0, 0, 256>>
MCMotions == {Rest, <<0, 77, 256>>, <<32768, 76, 256>>}
MCStates  == {0, 1, half}
=============================================================================
