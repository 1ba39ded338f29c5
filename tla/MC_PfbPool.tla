---------------------------- MODULE MC_PfbPool ----------------------------
(* A small instance of PfbPool for TLC.                                    *)
EXTENDS PfbPool
CONSTANTS w1, w2, w3, selA, selB

MCWorkers    == {w1, w2, w3}
MCSelections == {selA, selB}

(* One packet shorter than the history and no whole number of hops, one    *)
(* longer than the history.                                                *)
MCPacketSizes  == {1, 4}
=============================================================================
