------------------------------ MODULE MCCalls ------------------------------
(* Instances of Calls for TLC: two calls, and methods of every kind.       *)
EXTENDS Calls, TLC

CONSTANTS c1, c2, expose, get_state, get_permitted_methods,
          reset_error, secret, ghost

MCCalls == {c1, c2}
MCMethods ==
  {expose, get_state, get_permitted_methods, reset_error, secret, ghost}
MCAsks ==
  c1 :> {expose, get_permitted_methods, ghost} @@
  c2 :> {get_state, reset_error, secret}
MCPublished == MCMethods \ {ghost}
MCSlow == {expose, secret}
MCDenied == {secret, get_permitted_methods}
MCModular == {get_state, get_permitted_methods, reset_error}
=============================================================================
