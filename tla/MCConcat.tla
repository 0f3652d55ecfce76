------------------------------ MODULE MCConcat ------------------------------
(* An instance of Concat for TLC.                                            *)
EXTENDS Concat
=============================================================================
