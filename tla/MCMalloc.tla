------------------------------ MODULE MCMalloc ------------------------------
(* Two small heaps; the second one also serves the modules. *)
EXTENDS Malloc, TLC

MCBase == 0 :> 0 @@ 1 :> 6
MCEnd == 0 :> 4 @@ 1 :> 14

=============================================================================
