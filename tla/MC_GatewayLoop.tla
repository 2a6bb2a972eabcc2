-------------------------- MODULE MC_GatewayLoop --------------------------
(* Batches of up to three packets, some smaller than the batch and some    *)
(* not, of every status.                                                   *)
EXTENDS GatewayLoop
===========================================================================
