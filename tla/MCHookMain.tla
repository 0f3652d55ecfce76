----------------------------- MODULE MCHookMain -----------------------------
(* Instances of HookMain for TLC.  The functions of a hook are model values; *)
(* "unregistered" is a hook name no function was registered for.             *)
EXTENDS HookMain

CONSTANTS f1, f2, f3, w1, w2

HookNames == {"config-changed", "start", "unregistered"}
HookTable == [h \in HookNames |->
               CASE h = "config-changed" -> <<f1, f2>>
                 [] h = "start"  -> <<f3>>
                 [] h = "unregistered" -> << >>]
Wild == <<w1, w2>>
=============================================================================
