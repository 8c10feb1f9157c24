----------------------------- MODULE MCPresence -----------------------------
(* Instances of Presence for TLC: two peers, one of which publishes.       *)
EXTENDS Presence

CONSTANTS camera, dome

MCJids == {camera, dome}
MCCamera == {camera}
=============================================================================
