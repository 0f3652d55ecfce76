--------------------------- MODULE MCCharmService ---------------------------
(* Instances of CharmService for TLC.                                        *)
EXTENDS CharmService
=============================================================================
