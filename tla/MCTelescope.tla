---------------------------- MODULE MCTelescope ----------------------------
(***************************************************************************)
(* Two clients, the weather task and the refresh of the tracking on one     *)
(* telescope.  The first client points the telescope and parks it, the     *)
(* second one gets in its way.                                             *)
(***************************************************************************)
EXTENDS Telescope, TLC

CONSTANTS c1, c2, weather, refresh

MCTask == {c1, c2, weather, refresh}

MCAsks ==
  c1 :> {"move_altaz", "track", "park"}
  @@ c2 :> {"move_radec", "stop_motion", "init", "set_filter"}
  @@ weather :> {} @@ refresh :> {}
=============================================================================
