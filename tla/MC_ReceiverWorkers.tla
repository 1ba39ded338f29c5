------------------------- MODULE MC_ReceiverWorkers -------------------------
(* ReceiverWorkers with two slots, on one thread or on two.                *)
EXTENDS ReceiverWorkers
=============================================================================
