---------------------------- MODULE MC_Pipeline ----------------------------
(* Pipeline with the fine stage's channels at one place each, so that      *)
(* three packets can fill them; FineWorker is checked with its own two.    *)
EXTENDS Pipeline
=============================================================================
