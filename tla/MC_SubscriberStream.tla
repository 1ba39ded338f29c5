------------------------ MODULE MC_SubscriberStream ------------------------
(* SubscriberStream with two slots and two formats.                        *)
EXTENDS SubscriberStream
=============================================================================
