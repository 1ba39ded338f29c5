-------------------------- MODULE MC_ReceiverFeed --------------------------
(* ReceiverFeed with two slots.                                            *)
EXTENDS ReceiverFeed
=============================================================================
