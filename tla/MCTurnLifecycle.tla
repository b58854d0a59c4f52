-------------------------- MODULE MCTurnLifecycle --------------------------
(* Small instances of TurnLifecycle.  A run is needed for every command that *)
(* may start one and for every turn the goal asks for.                       *)
EXTENDS TurnLifecycle

CONSTANTS s1, s2, r1, r2, r3, r4

SomeReasons == {"steer", "abort", "new_session", "eof"}
=============================================================================
