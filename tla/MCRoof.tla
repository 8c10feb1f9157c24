------------------------------- MODULE MCRoof -------------------------------
(***************************************************************************)
(* Two clients and the weather task on a roof that opens in two steps.     *)
(***************************************************************************)
EXTENDS Roof

CONSTANTS c1, c2, weather

MCTask == {c1, c2, weather}
=============================================================================
