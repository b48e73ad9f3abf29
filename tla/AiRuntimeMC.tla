---------------------------- MODULE AiRuntimeMC ----------------------------
(* Instances of AiRuntime for TLC.                                          *)
EXTENDS AiRuntime, TLC
=============================================================================
