----------------------------- MODULE Selection -----------------------------
(***************************************************************************)
(* Keeping a part of a sequence in its order, as the loops of              *)
(* ReceiverWorkers::poll that pass over outputs which are not current, and *)
(* the retain of the cursors' eviction order (subscriber_stream.rs) do.    *)
(***************************************************************************)
EXTENDS Naturals, SequencesExt

(* The elements of a sequence that are in a set, in their order.           *)
Among(os, kept) ==
  FlattenSeq([i \in 1..Len(os) |-> IF os[i] \in kept THEN <<os[i]>> ELSE <<>>])
=============================================================================
