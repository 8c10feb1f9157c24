---------------------------- MODULE MCMastermind ----------------------------
(***************************************************************************)
(* Two observations, which the scheduler may add, cancel or let expire.    *)
(***************************************************************************)
EXTENDS Mastermind

CONSTANTS o1, o2

MCObservations == {o1, o2}
=============================================================================
