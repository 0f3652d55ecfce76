----------------------------- MODULE MCHookTest -----------------------------
(* An instance of HookTest for TLC.                                          *)
EXTENDS HookTest
=============================================================================
