---------------------------- MODULE MCScheduler -----------------------------
(***************************************************************************)
(* One task, which may exist at first or not: its observations are told     *)
(* apart by their slots.                                                   *)
(***************************************************************************)
EXTENDS Scheduler

CONSTANT t1

MCTask == {t1}
=============================================================================
