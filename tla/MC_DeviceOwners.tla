-------------------------- MODULE MC_DeviceOwners --------------------------
(* The instance of DeviceOwners that TLC checks.                           *)
EXTENDS DeviceOwners
=============================================================================
