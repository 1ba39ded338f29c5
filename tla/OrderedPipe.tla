---------------------------- MODULE OrderedPipe ----------------------------
(***************************************************************************)
(* What the PFB stream promises its caller, whatever the threads behind it *)
(* do (PfbStream of backend/src/pfb_pool.rs): a queue of at most Depth     *)
(* packets that come out one by one in the order they went in, each with   *)
(* its position in the capture and the bin selection in force when it went *)
(* in, and a selection that changes only while the queue is empty.         *)
(***************************************************************************)
EXTENDS Naturals, Sequences

CONSTANTS PacketSizes, Selections, Depth

VARIABLES position, selection, queue, emitted, closed

pipeVars == <<position, selection, queue, emitted, closed>>

Init ==
  /\ position = 0 /\ selection \in Selections
  /\ queue = <<>> /\ emitted = 0 /\ closed = FALSE

Accept(n) ==
  /\ ~closed /\ Len(queue) < Depth
  /\ queue' = Append(queue, [index |-> position, len |-> n, sel |-> selection])
  /\ position' = position + n
  /\ UNCHANGED <<selection, emitted, closed>>

Emit ==
  /\ queue # <<>>
  /\ queue' = Tail(queue) /\ emitted' = emitted + 1
  /\ UNCHANGED <<position, selection, closed>>

Reselect(s) ==
  /\ ~closed /\ queue = <<>>
  /\ selection' = s
  /\ UNCHANGED <<position, queue, emitted, closed>>

Close ==
  /\ ~closed /\ closed' = TRUE
  /\ UNCHANGED <<position, selection, queue, emitted>>

Next ==
  \/ \E n \in PacketSizes : Accept(n)
  \/ Emit
  \/ \E s \in Selections : Reselect(s)
  \/ Close

Spec == Init /\ [][Next]_pipeVars
=============================================================================
