--------------------------- MODULE MC_IqsCapture ---------------------------
(* IqsCapture with small channels.                                         *)
EXTENDS IqsCapture
=============================================================================
