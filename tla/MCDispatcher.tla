--------------------------- MODULE MCDispatcher ---------------------------
(* Instances of Dispatcher for TLC.                                        *)
EXTENDS Dispatcher, TLC

CONSTANTS j1, j2, j3, c1, c2, gone

(* One job per kind of target list: to both connectors, to a name that is  *)
(* not registered as well, to one connector only.                          *)
MCTargets == [j \in Jobs |-> CASE j = j1 -> <<c1, c2>>
                               [] j = j2 -> <<gone, c2>>
                               [] j = j3 -> <<c1>>]
=============================================================================
