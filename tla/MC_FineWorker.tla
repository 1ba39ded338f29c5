--------------------------- MODULE MC_FineWorker ---------------------------
(* FineWorker with the channel capacities of the code and frames of two    *)
(* packets; eleven packets fill both channels, the frame in the thread's   *)
(* hands and the partial frame, with one more in the owner's.              *)
EXTENDS FineWorker
=============================================================================
