------------------------------ MODULE MCCamera ------------------------------
(***************************************************************************)
(* Two clients and two sequence tasks on a camera.                         *)
(***************************************************************************)
EXTENDS Camera

CONSTANTS c1, c2, r1, r2

MCClients == {c1, c2}
MCRuns == {r1, r2}
=============================================================================
