------------------------------ MODULE MCClock ------------------------------
(* Two tempos; a tear of their speeds is one with the clock stopped. *)
EXTENDS Clock, TLC

MCPeriods  == 1 :> 3 @@ 2 :> 2
MCDividers == 1 :> 3 @@ 2 :> 2
=============================================================================
