-------------------------- MODULE MCEngineControl --------------------------
(* EngineControl on small instances. *)
EXTENDS EngineControl
=============================================================================
