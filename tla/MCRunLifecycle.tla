-------------------------- MODULE MCRunLifecycle --------------------------
(* Every kind of run of RunLifecycle: managed or external, deterministic or *)
(* learned, injected or not, in all three source modes.                     *)
EXTENDS RunLifecycle

MCRuns == RunKinds
=============================================================================
