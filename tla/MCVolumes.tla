------------------------------ MODULE MCVolumes ------------------------------
(***************************************************************************)
(* Volumes for TLC: two processes, so that one can be on its way out while *)
(* the other comes; two of everything they can get wrong.                  *)
(***************************************************************************)
EXTENDS Volumes

MCDaemons == 1 .. 2
MCVols    == 1 .. 2
MCHandles == 1 .. 2
=============================================================================
