----------------------------- MODULE MCGocharm ------------------------------
(* An instance of Gocharm for TLC.                                           *)
EXTENDS Gocharm

MCNames == {<< >>, <<"a">>, <<"b">>, <<"a", ".", "b">>}
MCHooks == {"install", "start"}
=============================================================================
