-------------------------- MODULE MC_StreamClients --------------------------
(* StreamClients with small limits.                                        *)
EXTENDS StreamClients
=============================================================================
