------------------------- MODULE MC_GatewayThreads -------------------------
(* Both ways at once: three packets of the nodes, one in the buffer, one   *)
(* that replaces it while it is handed over, one after that; two messages  *)
(* of the cloud, read one by one or both at once.                          *)
EXTENDS GatewayThreads
=============================================================================
