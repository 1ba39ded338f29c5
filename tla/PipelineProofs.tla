-------------------------- MODULE PipelineProofs --------------------------
(***************************************************************************)
(* Proofs about Pipeline, for every capacity, bound and set of changes:    *)
(* the caller gets the narrow-band frames once and in order, a channel is  *)
(* changed only while the stream is at rest, a stop that succeeds has      *)
(* handed over everything that was accepted, a failure is reported after   *)
(* all that was sent before it, and nothing of a replaced capture is shown.*)
(*                                                                         *)
(* Three processes share a packet's way, so the invariant has as many      *)
(* parts.  The fine stage comes first, with an invariant of its own: where *)
(* a fault can be while it is not yet reported, what is empty while the    *)
(* thread has ended, and that the result of the thread is silent unless it *)
(* is being sent.  It holds in the pipeline because every step there is    *)
(* one of the stage or leaves it alone.  Stage says what the producer's    *)
(* place in its loop implies of the stage; Meet says where a command is    *)
(* and what its answer promises the caller that waits for it; Ended says   *)
(* what a stop that succeeded leaves.  Flow is the point: laid end to end, *)
(* what the caller was given, what is pending, what the boundary has       *)
(* gathered, the output queue and the answer are a first part of what the  *)
(* stage was given, in order, and with the places of the stage they are    *)
(* all of it until it breaks.  ErrorLast and Shown, at the end, add what   *)
(* the queue's error and the captures' generations need.                   *)
(***************************************************************************)
EXTENDS Pipeline, SequenceFacts

-----------------------------------------------------------------------------
(* The fine stage, on its own and in the pipeline.                         *)

(* The owner has the sender exactly while the worker may get packets; the  *)
(* thread is there unless the owner has the stage, or lost it.             *)
Ends ==
  /\ tx <=> call \in {"idle", "collect", "try", "error"}
  /\ worker = "none" <=> call \in {"stopped", "lost"}
  /\ worker \in {"none", "gone"} => input = <<>>
  /\ worker = "none" => rx = <<>>
  /\ worker = "send" \/ result = Silent

(* A fault is the result being sent, in the result channel, or reported,   *)
(* or the owner has the stage; and none of these is there without a fault. *)
Bad(s) == \E i \in 1..Len(s) : ~s[i].ok
Reported == failure \/ call \in {"error", "drop", "lost"}
FaultKnown ==
  /\ broken => ~result.ok \/ Bad(rx) \/ Reported \/ call = "stopped"
  /\ ~result.ok \/ Bad(rx) \/ failure \/ call = "error" => broken
  /\ worker = "gone" /\ tx => broken
  /\ failure => call \in {"finish", "lost"}

(* The thread that broke has only the error left to send.                  *)
LastResult ==
  /\ worker = "recv" => ~broken
  /\ worker = "send" /\ broken => ~result.ok
  /\ ~result.ok => result.frames = <<>>

Local == FineTypeOK /\ Ends /\ FaultKnown /\ LastResult
FineIInv  == Local /\ FailureReported /\ NothingLost

(* The frames of each result in a channel.                                 *)
Frames(s) == [i \in 1..Len(s) |-> s[i].frames]

(* The frames of results are sequences of packets, one of each result.     *)
LEMMA FramesType ==
  ASSUME NEW s \in Seq(Result) PROVE Frames(s) \in Seq(Seq(CoarsePacket)) /\ Len(Frames(s)) = Len(s)
  <1>1. \A i \in 1..Len(s) : s[i].frames \in Seq(CoarsePacket)
    <2>1. \A i \in 1..Len(s) : s[i] \in Result
      BY ElementOfSeq
    <2> QED BY <2>1 DEF Result
  <1> QED BY <1>1 DEF Frames

(* What results carry is a sequence of packets.                            *)
LEMMA ResultsType ==
  ASSUME NEW s \in Seq(Result) PROVE Results(s) \in Seq(CoarsePacket)
  BY FramesType, FlattenType DEF Results, Frames

(* No results carry no packets.                                            *)
LEMMA ResultsEmpty == Results(<<>>) = <<>>
  <1>1. Frames(<<>>) = <<>>
    BY DEF Frames
  <1> QED BY <1>1, FlattenEmpty DEF Results, Frames

(* A result sent adds its frames at the end of the channel.                *)
LEMMA ResultsAppend ==
  ASSUME NEW s \in Seq(Result), NEW r \in Result
  PROVE  Results(Append(s, r)) = Results(s) \o r.frames
  <1>1. /\ Append(s, r) \in Seq(Result) /\ Len(Append(s, r)) = Len(s) + 1 /\ Len(s) \in Nat
        /\ Append(s, r)[Len(s) + 1] = r /\ \A i \in 1..Len(s) : Append(s, r)[i] = s[i]
    OBVIOUS
  <1>2. r.frames \in Seq(CoarsePacket)
    BY DEF Result
  <1>3. /\ Frames(s) \in Seq(Seq(CoarsePacket)) /\ Len(Frames(s)) = Len(s)
        /\ \A i \in 1..Len(s) : Frames(s)[i] = s[i].frames
    BY FramesType DEF Frames
  <1>4. /\ Frames(Append(s, r)) \in Seq(Seq(CoarsePacket)) /\ Len(Frames(Append(s, r))) = Len(s) + 1
        /\ \A i \in 1..(Len(s) + 1) : Frames(Append(s, r))[i] = Append(s, r)[i].frames
    BY <1>1, FramesType DEF Frames
  <1>5. Frames(Append(s, r)) = Append(Frames(s), r.frames)
    <2>1. /\ Append(Frames(s), r.frames) \in Seq(Seq(CoarsePacket))
          /\ Len(Append(Frames(s), r.frames)) = Len(s) + 1
          /\ \A i \in 1..Len(s) : Append(Frames(s), r.frames)[i] = s[i].frames
          /\ Append(Frames(s), r.frames)[Len(s) + 1] = r.frames
      BY <1>1, <1>2, <1>3
    <2>2. ASSUME NEW i \in 1..(Len(s) + 1)
          PROVE  Frames(Append(s, r))[i] = Append(Frames(s), r.frames)[i]
      <3>1. CASE i = Len(s) + 1
        BY <1>1, <1>4, <2>1, <3>1
      <3>2. CASE i \in 1..Len(s)
        BY <1>1, <1>4, <2>1, <3>2
      <3>3. i = Len(s) + 1 \/ i \in 1..Len(s)
        BY <1>1
      <3> QED BY <3>1, <3>2, <3>3
    <2> QED BY <1>4, <2>1, <2>2, SeqEqual
  <1> QED BY <1>2, <1>3, <1>5, FlattenAppend DEF Results, Frames

(* The first result holds the first packets of the channel.                *)
LEMMA ResultsHead ==
  ASSUME NEW s \in Seq(Result), s # <<>>
  PROVE  Results(s) = Head(s).frames \o Results(Tail(s))
  <1>1. /\ Tail(s) \in Seq(Result) /\ Len(Tail(s)) = Len(s) - 1 /\ Len(s) \in Nat \ {0}
        /\ Head(s) = s[1] /\ \A i \in 1..Len(Tail(s)) : Tail(s)[i] = s[i + 1]
    OBVIOUS
  <1>2. /\ Frames(s) \in Seq(Seq(CoarsePacket)) /\ Len(Frames(s)) = Len(s)
        /\ \A i \in 1..Len(s) : Frames(s)[i] = s[i].frames
    BY FramesType DEF Frames
  <1>3. /\ Frames(Tail(s)) \in Seq(Seq(CoarsePacket)) /\ Len(Frames(Tail(s))) = Len(s) - 1
        /\ \A i \in 1..(Len(s) - 1) : Frames(Tail(s))[i] = s[i + 1].frames
    BY <1>1, FramesType DEF Frames
  <1>4. Tail(Frames(s)) = Frames(Tail(s))
    <2>1. /\ Tail(Frames(s)) \in Seq(Seq(CoarsePacket)) /\ Len(Tail(Frames(s))) = Len(s) - 1
          /\ \A i \in 1..(Len(s) - 1) : Tail(Frames(s))[i] = s[i + 1].frames
      BY <1>1, <1>2
    <2> QED BY <1>3, <2>1, SeqEqual
  <1>5. Head(Frames(s)) = Head(s).frames /\ Frames(s) # <<>>
    BY <1>1, <1>2
  <1> QED BY <1>2, <1>4, <1>5, FlattenHead DEF Results, Frames

-----------------------------------------------------------------------------
(* The empty result is a result.                                           *)
LEMMA SilentType == Silent \in Result
  <1>1. <<>> \in Seq(CoarsePacket)
    OBVIOUS
  <1> QED BY <1>1 DEF Silent, Result

(* The packet after a packet is a packet.                                  *)
LEMMA AfterType ==
  ASSUME NEW p \in CoarsePacket PROVE After(p) \in CoarsePacket
  BY DEF After, CoarsePacket

(* Pushing a packet loses none: what is emitted and what is kept are the   *)
(* old partial frame and the packet.                                       *)
LEMMA PushFacts ==
  ASSUME FineTypeOK, NEW p \in CoarsePacket
  PROVE  /\ Push(p).out \in Seq(CoarsePacket) /\ Push(p).kept \in Seq(CoarsePacket)
         /\ Len(Push(p).kept) < FrameLen
         /\ Push(p).out \o Push(p).kept = Append(framer, p)
  <1>1. /\ framer \in Seq(CoarsePacket) /\ Len(framer) < FrameLen /\ FrameLen \in Nat \ {0}
        /\ Append(framer, p) \in Seq(CoarsePacket) /\ Len(Append(framer, p)) = Len(framer) + 1
        /\ Len(framer) \in Nat
    BY FineAssumption DEF FineTypeOK
  <1>2. CASE Len(framer) + 1 = FrameLen
    <2>1. Push(p).out = Append(framer, p) /\ Push(p).kept = <<>>
      BY <1>2 DEF Push
    <2> QED BY <1>1, <2>1, ConcatEmptySeq
  <1>3. CASE Len(framer) + 1 # FrameLen
    <2>1. Push(p).out = <<>> /\ Push(p).kept = Append(framer, p)
      BY <1>3 DEF Push
    <2> QED BY <1>1, <1>3, <2>1, ConcatEmptySeq
  <1> QED BY <1>2, <1>3

(* A step of the module, or of a composition that submits any packet.      *)
Step == \/ Thread \/ InCall \/ Start \/ CollectAlone \/ Finish \/ DropWorker \/ FinishFramers
        \/ \E p \in CoarsePacket : Submit(p)

-----------------------------------------------------------------------------
(* Every step keeps the types and the capacities of the channels.          *)
LEMMA FineTypeStep ==
  ASSUME Local, Step \/ UNCHANGED fineVars PROVE FineTypeOK'
  <1> USE DEF Local, FineTypeOK, owner, channels, thread, state
  <1>1. CASE Deliver
    <2>0. input # <<>> /\ input \in Seq(CoarsePacket) /\ Len(input) <= InputCap
      BY <1>1 DEF Deliver
    <2>1. /\ Head(input) \in CoarsePacket /\ Tail(input) \in Seq(CoarsePacket)
          /\ Len(Tail(input)) <= InputCap
      BY ONLY <2>0, FineAssumption
    <2>2. /\ Push(Head(input)).out \in Seq(CoarsePacket)
          /\ Push(Head(input)).kept \in Seq(CoarsePacket)
          /\ Len(Push(Head(input)).kept) < FrameLen
      BY <2>1, PushFacts
    <2>3. framer' \in Seq(CoarsePacket) /\ Len(framer') < FrameLen
      BY <1>1, <2>2 DEF Deliver
    <2>4. After(bank) \in CoarsePacket
      BY AfterType
    <2>5. bank' \in CoarsePacket /\ broken' \in BOOLEAN /\ worker' \in {"send", "recv"}
      BY <1>1, <2>4 DEF Deliver
    <2>6. result' \in Result
      <3>1. /\ [ok |-> TRUE, frames |-> Push(Head(input)).out] \in Result
            /\ [ok |-> FALSE, frames |-> <<>>] \in Result
        BY <2>2 DEF Result
      <3> QED BY <1>1, <3>1 DEF Deliver
    <2> QED BY <1>1, <2>1, <2>3, <2>5, <2>6 DEF Deliver
  <1>2. CASE Send
    <2>1. Append(rx, result) \in Seq(Result) /\ Len(Append(rx, result)) <= OutputCap
      BY <1>2, FineAssumption DEF Send
    <2>2. <<>> \in Seq(CoarsePacket) /\ Len(<<>>) <= InputCap
      BY FineAssumption
    <2>3. CASE result.ok
      BY <1>2, <2>1, <2>3, SilentType DEF Send
    <2>4. CASE ~result.ok
      BY <1>2, <2>1, <2>2, <2>4, SilentType DEF Send
    <2> QED BY <2>3, <2>4
  <1>3. CASE HangUp
    BY <1>3 DEF HangUp
  <1>4. CASE SubmitCollect
    <2>1. frames \o Results(rx) \in Seq(CoarsePacket)
      BY ResultsType
    <2>2. <<>> \in Seq(Result) /\ Len(<<>>) <= OutputCap
      BY FineAssumption
    <2>3. call' \in {"error", "try"}
      BY <1>4 DEF SubmitCollect, Collect
    <2> QED BY <1>4, <2>1, <2>2, <2>3 DEF SubmitCollect, Collect
  <1>5. CASE TrySend
    <2>1. Len(input) < InputCap => /\ Append(input, packet) \in Seq(CoarsePacket)
                                   /\ Len(Append(input, packet)) <= InputCap
      BY FineAssumption
    <2>2. input' \in Seq(CoarsePacket) /\ Len(input') <= InputCap
      BY <1>5, <2>1 DEF TrySend, Room
    <2>3. call' \in {"error", "idle", "collect"}
      BY <1>5 DEF TrySend, Turn
    <2> QED BY <1>5, <2>2, <2>3 DEF TrySend
  <1>6. CASE FinishRecv
    <2>1. Tail(rx) \in Seq(Result) /\ Len(Tail(rx)) <= OutputCap /\ Head(rx) \in Result
      BY <1>6, FineAssumption DEF FinishRecv
    <2>2. frames \o Head(rx).frames \in Seq(CoarsePacket)
      BY <2>1 DEF Result
    <2>3. failure' \in BOOLEAN
      BY <1>6 DEF FinishRecv
    <2> QED BY <1>6, <2>1, <2>2, <2>3 DEF FinishRecv
  <1>7. CASE FinishJoin
    BY <1>7 DEF FinishJoin, Disconnected
  <1>8. CASE DropRecv
    <2>1. Tail(rx) \in Seq(Result) /\ Len(Tail(rx)) <= OutputCap /\ Head(rx) \in Result
      BY <1>8, FineAssumption DEF DropRecv
    <2> QED BY <1>8, <2>1 DEF DropRecv
  <1>9. CASE DropJoin
    BY <1>9 DEF DropJoin, Disconnected
  <1>10. CASE Start
    BY <1>10 DEF Start
  <1>11. CASE CollectAlone
    <2>1. frames \o Results(rx) \in Seq(CoarsePacket)
      BY ResultsType
    <2>2. <<>> \in Seq(Result) /\ Len(<<>>) <= OutputCap
      BY FineAssumption
    <2>3. call' \in {"error", "idle"}
      BY <1>11 DEF CollectAlone, Collect
    <2> QED BY <1>11, <2>1, <2>2, <2>3 DEF CollectAlone, Collect
  <1>12. CASE Finish
    BY <1>12 DEF Finish
  <1>13. CASE DropWorker
    BY <1>13 DEF DropWorker
  <1>14. CASE FinishFramers
    <2>1. frames \o framer \in Seq(CoarsePacket) /\ <<>> \in Seq(CoarsePacket) /\ Len(<<>>) < FrameLen
      BY FineAssumption
    <2> QED BY <1>14, <2>1 DEF FinishFramers
  <1>15. ASSUME NEW p \in CoarsePacket, Submit(p) PROVE FineTypeOK'
    BY <1>15 DEF Submit, Turn
  <1>16. CASE UNCHANGED fineVars
    BY <1>16 DEF fineVars
  <1> QED BY <1>1, <1>2, <1>3, <1>4, <1>5, <1>6, <1>7, <1>8, <1>9, <1>10, <1>11, <1>12, <1>13, <1>14, <1>15, <1>16
         DEF Step, Thread, InCall

(* Every step keeps what the owner and the thread have of each other.      *)
LEMMA EndsStep ==
  ASSUME Local, Step \/ UNCHANGED fineVars PROVE Ends'
  <1> USE DEF Local, FineTypeOK, Ends, Silent, owner, channels, thread, state
  <1>1. CASE Deliver
    BY <1>1 DEF Deliver, Worth
  <1>2. CASE Send
    BY <1>2 DEF Send
  <1>3. CASE HangUp
    BY <1>3 DEF HangUp
  <1>4. CASE SubmitCollect
    BY <1>4 DEF SubmitCollect, Collect, Errors
  <1>5. CASE TrySend
    BY <1>5 DEF TrySend, Room, Turn
  <1>6. CASE FinishRecv
    BY <1>6 DEF FinishRecv
  <1>7. CASE FinishJoin
    BY <1>7 DEF FinishJoin, Disconnected
  <1>8. CASE DropRecv
    BY <1>8 DEF DropRecv
  <1>9. CASE DropJoin
    BY <1>9 DEF DropJoin, Disconnected
  <1>10. CASE Start
    BY <1>10 DEF Start
  <1>11. CASE CollectAlone
    BY <1>11 DEF CollectAlone, Collect, Errors
  <1>12. CASE Finish
    BY <1>12 DEF Finish
  <1>13. CASE DropWorker
    BY <1>13 DEF DropWorker
  <1>14. CASE FinishFramers
    BY <1>14 DEF FinishFramers
  <1>15. ASSUME NEW p \in CoarsePacket, Submit(p) PROVE Ends'
    BY <1>15 DEF Submit, Turn
  <1>16. CASE UNCHANGED fineVars
    BY <1>16 DEF fineVars
  <1> QED BY <1>1, <1>2, <1>3, <1>4, <1>5, <1>6, <1>7, <1>8, <1>9, <1>10, <1>11, <1>12, <1>13, <1>14, <1>15, <1>16
         DEF Step, Thread, InCall

(* Every step keeps that the thread which broke has only the error to send.*)
LEMMA LastStep ==
  ASSUME Local, Step \/ UNCHANGED fineVars PROVE LastResult'
  <1> USE DEF Local, FineTypeOK, Ends, LastResult, Silent, owner, channels, thread, state
  <1>1. CASE Deliver
    BY <1>1 DEF Deliver, Worth
  <1>2. CASE Send
    BY <1>2 DEF Send
  <1>3. CASE HangUp
    BY <1>3 DEF HangUp
  <1>4. CASE SubmitCollect
    BY <1>4 DEF SubmitCollect, Collect, Errors
  <1>5. CASE TrySend
    BY <1>5 DEF TrySend, Room, Turn
  <1>6. CASE FinishRecv
    BY <1>6 DEF FinishRecv
  <1>7. CASE FinishJoin
    BY <1>7 DEF FinishJoin, Disconnected
  <1>8. CASE DropRecv
    BY <1>8 DEF DropRecv
  <1>9. CASE DropJoin
    BY <1>9 DEF DropJoin, Disconnected
  <1>10. CASE Start
    BY <1>10 DEF Start
  <1>11. CASE CollectAlone
    BY <1>11 DEF CollectAlone, Collect, Errors
  <1>12. CASE Finish
    BY <1>12 DEF Finish
  <1>13. CASE DropWorker
    BY <1>13 DEF DropWorker
  <1>14. CASE FinishFramers
    BY <1>14 DEF FinishFramers
  <1>15. ASSUME NEW p \in CoarsePacket, Submit(p) PROVE LastResult'
    BY <1>15 DEF Submit, Turn
  <1>16. CASE UNCHANGED fineVars
    BY <1>16 DEF fineVars
  <1> QED BY <1>1, <1>2, <1>3, <1>4, <1>5, <1>6, <1>7, <1>8, <1>9, <1>10, <1>11, <1>12, <1>13, <1>14, <1>15, <1>16
         DEF Step, Thread, InCall

(* A result received takes an error from the front of the channel only.    *)
LEMMA BadTail ==
  ASSUME NEW s \in Seq(Result), s # <<>>
  PROVE  Bad(s) <=> ~Head(s).ok \/ Bad(Tail(s))
  <1>1. /\ Len(s) \in Nat \ {0} /\ Len(Tail(s)) = Len(s) - 1 /\ Head(s) = s[1]
        /\ \A i \in 1..(Len(s) - 1) : Tail(s)[i] = s[i + 1]
    OBVIOUS
  <1>2. Bad(s) => ~Head(s).ok \/ Bad(Tail(s))
    <2> SUFFICES ASSUME NEW i \in 1..Len(s), ~s[i].ok, i # 1 PROVE Bad(Tail(s))
      BY <1>1 DEF Bad
    <2>1. i - 1 \in 1..Len(Tail(s)) /\ Tail(s)[i - 1] = s[i]
      BY <1>1
    <2> QED BY <2>1 DEF Bad
  <1>3. Bad(Tail(s)) => Bad(s)
    <2> SUFFICES ASSUME NEW i \in 1..Len(Tail(s)), ~Tail(s)[i].ok PROVE Bad(s)
      BY DEF Bad
    <2>1. i + 1 \in 1..Len(s) /\ s[i + 1] = Tail(s)[i]
      BY <1>1
    <2> QED BY <2>1 DEF Bad
  <1>4. ~Head(s).ok => Bad(s)
    BY <1>1 DEF Bad
  <1> QED BY <1>2, <1>3, <1>4

(* Every step keeps a fault on its way to the report.                      *)
LEMMA FaultStep ==
  ASSUME Local, Step \/ UNCHANGED fineVars PROVE FaultKnown'
  <1> USE DEF Local, FineTypeOK, Ends, FaultKnown, Silent, Reported, owner, channels, thread, state
  <1>1. CASE Deliver
    BY <1>1 DEF Deliver, Worth
  <1>2. CASE Send
    <2>1. /\ Len(rx') = Len(rx) + 1 /\ rx'[Len(rx) + 1] = result
          /\ \A i \in 1..Len(rx) : rx'[i] = rx[i]
      BY <1>2 DEF Send
    <2>2. Bad(rx') <=> Bad(rx) \/ ~result.ok
      BY <2>1, SMTT(30) DEF Bad
    <2> QED BY <1>2, <2>2 DEF Send
  <1>3. CASE HangUp
    BY <1>3 DEF HangUp
  <1>4. CASE SubmitCollect
    <2>1. ~Bad(rx') /\ UNCHANGED <<failure, tx, result, worker, broken>>
      BY <1>4 DEF SubmitCollect, Collect, Bad
    <2>2. IF Bad(rx) THEN call' = "error" ELSE call' \in {"try", "idle"}
      BY <1>4 DEF SubmitCollect, Collect, Errors, Bad
    <2>3. call \in {"collect", "idle"}
      BY <1>4 DEF SubmitCollect
    <2> QED BY <2>1, <2>2, <2>3
  <1>5. CASE TrySend
    BY <1>5 DEF TrySend, Room, Turn
  <1>6. CASE FinishRecv
    <2>1. Bad(rx) <=> ~Head(rx).ok \/ Bad(Tail(rx))
      BY <1>6, BadTail DEF FinishRecv
    <2> QED BY <1>6, <2>1 DEF FinishRecv
  <1>7. CASE FinishJoin
    BY <1>7 DEF FinishJoin, Disconnected
  <1>8. CASE DropRecv
    <2>1. Bad(rx) <=> ~Head(rx).ok \/ Bad(Tail(rx))
      BY <1>8, BadTail DEF DropRecv
    <2> QED BY <1>8, <2>1 DEF DropRecv
  <1>9. CASE DropJoin
    BY <1>9 DEF DropJoin, Disconnected
  <1>10. CASE Start
    BY <1>10 DEF Start
  <1>11. CASE CollectAlone
    <2>1. ~Bad(rx') /\ UNCHANGED <<failure, tx, result, worker, broken>>
      BY <1>11 DEF CollectAlone, Collect, Bad
    <2>2. IF Bad(rx) THEN call' = "error" ELSE call' \in {"try", "idle"}
      BY <1>11 DEF CollectAlone, Collect, Errors, Bad
    <2>3. call \in {"collect", "idle"}
      BY <1>11 DEF CollectAlone
    <2> QED BY <2>1, <2>2, <2>3
  <1>12. CASE Finish
    BY <1>12 DEF Finish
  <1>13. CASE DropWorker
    BY <1>13 DEF DropWorker
  <1>14. CASE FinishFramers
    BY <1>14 DEF FinishFramers
  <1>15. ASSUME NEW p \in CoarsePacket, Submit(p) PROVE FaultKnown'
    BY <1>15 DEF Submit, Turn
  <1>16. CASE UNCHANGED fineVars
    BY <1>16 DEF fineVars
  <1> QED BY <1>1, <1>2, <1>3, <1>4, <1>5, <1>6, <1>7, <1>8, <1>9, <1>10, <1>11, <1>12, <1>13, <1>14, <1>15, <1>16
         DEF Step, Thread, InCall

-----------------------------------------------------------------------------
(* The six places of the packets, read one after the other.                *)
Six(a, b, c, d, e, h) == a \o b \o c \o d \o e \o h

(* Sequences of packets can be concatenated in any grouping.               *)
LEMMA Regroup ==
  \A s, t, u \in Seq(CoarsePacket) : (s \o t) \o u = s \o (t \o u)
  BY ONLY Associative, SMT

(* The empty sequence and single packets under concatenation.              *)
LEMMA Concats ==
  /\ \A s \in Seq(CoarsePacket) : s \o <<>> = s /\ <<>> \o s = s
  /\ \A s, t \in Seq(CoarsePacket) : s \o t \in Seq(CoarsePacket)
  /\ <<>> \in Seq(CoarsePacket)
  /\ \A p \in CoarsePacket : <<p>> \in Seq(CoarsePacket)
  /\ \A s \in Seq(CoarsePacket), p \in CoarsePacket : Append(s, p) = s \o <<p>>
  <1>1. \A s \in Seq(CoarsePacket) : s \o <<>> = s /\ <<>> \o s = s
    BY ConcatEmptySeq
  <1>3. \A s \in Seq(CoarsePacket), p \in CoarsePacket : Append(s, p) = s \o <<p>>
    BY AppendIsConcat
  <1> QED BY <1>1, <1>3

(* Sending a result.                                                       *)
LEMMA SixSend ==
  \A a, b, c, d, e, h \in Seq(CoarsePacket) :
    Six(a, b, c, d, e, h) = Six(a, b \o c, <<>>, d, e, h)
  <1> SUFFICES ASSUME NEW a \in Seq(CoarsePacket), NEW b \in Seq(CoarsePacket), NEW c \in Seq(CoarsePacket),
                      NEW d, NEW e, NEW h
               PROVE  Six(a, b, c, d, e, h) = Six(a, b \o c, <<>>, d, e, h)
    OBVIOUS
  <1>1. (a \o b) \o c = a \o (b \o c)
    BY Regroup, Zenon
  <1>2. b \o c \in Seq(CoarsePacket) /\ a \o (b \o c) \in Seq(CoarsePacket)
    BY Concats
  <1>3. (a \o (b \o c)) \o <<>> = a \o (b \o c)
    BY <1>2, Concats
  <1> QED BY <1>1, <1>3 DEF Six

(* Pushing a packet into the partial frame.                                *)
LEMMA SixPush ==
  ASSUME NEW a \in Seq(CoarsePacket), NEW b \in Seq(CoarsePacket), NEW x \in Seq(CoarsePacket),
         NEW y \in Seq(CoarsePacket), NEW d \in Seq(CoarsePacket), NEW e \in Seq(CoarsePacket),
         NEW h, NEW p \in CoarsePacket, x \o y = Append(d, p)
  PROVE  Six(a, b, <<>>, d, <<p>> \o e, h) = Six(a, b, x, y, e, h)
  <1> DEFINE q == a \o b
  <1>1. q \in Seq(CoarsePacket) /\ q \o <<>> = q
    BY Concats
  <1> HIDE DEF q
  <1>2. <<p>> \in Seq(CoarsePacket) /\ q \o d \in Seq(CoarsePacket) /\ d \o <<p>> = x \o y
    BY <1>1, Concats
  <1>3. (q \o d) \o (<<p>> \o e) = ((q \o d) \o <<p>>) \o e
    <2> DEFINE r == q \o d
               o == <<p>>
    <2>1. r \in Seq(CoarsePacket) /\ o \in Seq(CoarsePacket) /\ e \in Seq(CoarsePacket)
      BY <1>2
    <2> HIDE DEF r, o
    <2>2. r \o (o \o e) = (r \o o) \o e
      BY ONLY <2>1, SMTT(60)
    <2> QED BY <2>2 DEF r, o
  <1>4. (q \o d) \o <<p>> = q \o (d \o <<p>>)
    BY <1>1, <1>2, Regroup, ZenonT(40)
  <1>5. q \o (x \o y) = (q \o x) \o y
    BY <1>1, Regroup, ZenonT(40)
  <1> QED BY <1>1, <1>2, <1>3, <1>4, <1>5 DEF Six, q

(* Queueing the packet in hand.                                            *)
LEMMA SixQueue ==
  \A a, b, c, d, e \in Seq(CoarsePacket), p \in CoarsePacket :
    Six(a, b, c, d, e, <<p>>) = Six(a, b, c, d, Append(e, p), <<>>)
  <1> SUFFICES ASSUME NEW a \in Seq(CoarsePacket), NEW b \in Seq(CoarsePacket), NEW c \in Seq(CoarsePacket),
                      NEW d \in Seq(CoarsePacket), NEW e \in Seq(CoarsePacket), NEW p \in CoarsePacket
               PROVE  Six(a, b, c, d, e, <<p>>) = Six(a, b, c, d, Append(e, p), <<>>)
    OBVIOUS
  <1> DEFINE q == a \o b \o c \o d
  <1>1. q \in Seq(CoarsePacket)
    BY Concats
  <1> HIDE DEF q
  <1>2. <<p>> \in Seq(CoarsePacket) /\ e \o <<p>> \in Seq(CoarsePacket) /\ Append(e, p) = e \o <<p>>
    BY Concats
  <1>3. (q \o e) \o <<p>> = q \o (e \o <<p>>)
    BY <1>1, <1>2, Regroup, ZenonT(40)
  <1>4. (q \o (e \o <<p>>)) \o <<>> = q \o (e \o <<p>>)
    BY <1>1, <1>2, Concats
  <1> QED BY <1>2, <1>3, <1>4 DEF Six, q

(* The stage at rest: only frames and the partial frame are left.          *)
LEMMA SixRest ==
  \A a, d \in Seq(CoarsePacket) :
    /\ Six(a, <<>>, <<>>, d, <<>>, <<>>) = a \o d
    /\ Six(a \o d, <<>>, <<>>, <<>>, <<>>, <<>>) = a \o d
  <1> SUFFICES ASSUME NEW a \in Seq(CoarsePacket), NEW d \in Seq(CoarsePacket)
               PROVE  /\ Six(a, <<>>, <<>>, d, <<>>, <<>>) = a \o d
                      /\ Six(a \o d, <<>>, <<>>, <<>>, <<>>, <<>>) = a \o d
    OBVIOUS
  <1>1. a \o d \in Seq(CoarsePacket) /\ a \o <<>> = a /\ (a \o d) \o <<>> = a \o d
    BY Concats
  <1> QED BY <1>1 DEF Six

Places == Six(frames, Results(rx), result.frames, framer, input, Handing)

(* While the stage works, a step leaves the packets as they are in order,  *)
(* or adds the one that is submitted.                                      *)
LEMMA PlacesStep ==
  ASSUME Local, Step \/ UNCHANGED fineVars, ~broken, ~broken', call' \notin {"drop", "lost"}
  PROVE  \/ Places' = Places /\ UNCHANGED submitted
         \/ \E p \in CoarsePacket : Submit(p) /\ Places' = Append(Places, p)
  <1> DEFINE R == Results(rx)
             L == Six(frames, R, result.frames, framer, input, Handing)
  <1>a. /\ frames \in Seq(CoarsePacket) /\ R \in Seq(CoarsePacket) /\ result.frames \in Seq(CoarsePacket)
        /\ framer \in Seq(CoarsePacket) /\ input \in Seq(CoarsePacket) /\ rx \in Seq(Result)
        /\ result \in Result /\ packet \in CoarsePacket /\ submitted \in Seq(CoarsePacket)
    BY ResultsType DEF Local, FineTypeOK, Result
  <1>b. Handing \in Seq(CoarsePacket)
    BY <1>a DEF Handing
  <1> USE DEF owner, channels, thread, state
  <1>1. CASE Deliver
    <2> DEFINE p == Head(input)
    <2>1. /\ framer' = Push(p).kept /\ input' = Tail(input)
          /\ result' = [ok |-> TRUE, frames |-> Push(p).out]
      BY <1>1 DEF Deliver
    <2>2. /\ UNCHANGED <<frames, rx, call, packet, submitted>> /\ input # <<>> /\ result = Silent
      BY <1>1 DEF Deliver, Local, Ends
    <2>3. /\ p \in CoarsePacket /\ Tail(input) \in Seq(CoarsePacket) /\ input = <<p>> \o Tail(input)
      BY <1>a, <2>2
    <2> HIDE DEF p
    <2>4. /\ Push(p).out \in Seq(CoarsePacket) /\ Push(p).kept \in Seq(CoarsePacket)
          /\ Push(p).out \o Push(p).kept = Append(framer, p)
      BY <2>3, PushFacts DEF Local
    <2>5. /\ R' = R /\ Handing' = Handing /\ result.frames = <<>> /\ result'.frames = Push(p).out
      BY <2>1, <2>2 DEF Handing, Silent
    <2>6. Six(frames, R, <<>>, framer, <<p>> \o Tail(input), Handing)
            = Six(frames, R, Push(p).out, Push(p).kept, Tail(input), Handing)
      <3> DEFINE x == Push(p).out
                 y == Push(p).kept
                 t == Tail(input)
                 H == Handing
      <3>1. /\ frames \in Seq(CoarsePacket) /\ R \in Seq(CoarsePacket) /\ framer \in Seq(CoarsePacket)
            /\ t \in Seq(CoarsePacket) /\ x \in Seq(CoarsePacket) /\ y \in Seq(CoarsePacket) /\ p \in CoarsePacket
            /\ x \o y = Append(framer, p)
        BY <1>a, <2>3, <2>4
      <3> HIDE DEF R, x, y, t, H
      <3>2. Six(frames, R, <<>>, framer, <<p>> \o t, H) = Six(frames, R, x, y, t, H)
        BY ONLY <3>1, SixPush, SMTT(60)
      <3> QED BY <3>2 DEF x, y, t, H
    <2> QED BY <2>1, <2>2, <2>3, <2>5, <2>6 DEF Places
  <1>2. CASE Send
    <2>1. /\ rx' = Append(rx, result) /\ result' = Silent
          /\ UNCHANGED <<frames, framer, call, packet, submitted>>
      BY <1>2 DEF Send
    <2>2. input' = input
      BY <1>2 DEF Send, Local, FaultKnown
    <2>3. R' = R \o result.frames
      BY <1>a, <2>1, ResultsAppend
    <2>4. Handing' = Handing /\ result'.frames = <<>>
      BY <2>1 DEF Handing, Silent
    <2>5. Six(frames, R, result.frames, framer, input, Handing)
            = Six(frames, R \o result.frames, <<>>, framer, input, Handing)
      BY <1>a, <1>b, SixSend, SMTT(30)
    <2> QED BY <2>1, <2>2, <2>3, <2>4, <2>5 DEF Places
  <1>3. CASE HangUp \/ Start \/ Finish \/ FinishJoin
    <2>1. /\ UNCHANGED <<frames, result, framer, input, submitted>> /\ rx' = rx
          /\ call \notin {"drop", "lost"}
      BY <1>3 DEF HangUp, Start, Finish, FinishJoin, Disconnected
    <2>2. Handing' = Handing
      BY <1>3 DEF HangUp, Start, Finish, FinishJoin, Handing
    <2> QED BY <2>1, <2>2 DEF Places
  <1>4. CASE SubmitCollect \/ CollectAlone
    <2>1. /\ frames' = frames \o R /\ rx' = <<>>
          /\ UNCHANGED <<result, framer, input, packet, submitted>>
      BY <1>4 DEF SubmitCollect, CollectAlone, Collect
    <2>2. Handing' = Handing
      <3>1. ~Errors
        BY <1>a DEF Local, FaultKnown, Bad, Errors
      <3> QED BY <1>4, <2>1, <3>1 DEF SubmitCollect, CollectAlone, Collect, Handing
    <2>3. R' = <<>>
      BY <2>1, ResultsEmpty
    <2>4. L = Six(frames \o R, <<>>, result.frames, framer, input, Handing)
      <3>1. R \o <<>> = R /\ <<>> \in Seq(CoarsePacket)
        BY <1>a, Concats
      <3>2. frames \o R \in Seq(CoarsePacket)
        BY <1>a, Concats
      <3>3. (frames \o R) \o <<>> = frames \o R
        BY <3>2, Concats
      <3> HIDE DEF R
      <3> QED BY <3>3 DEF Six
    <2>5. call \notin {"drop", "lost"}
      BY <1>4 DEF SubmitCollect, CollectAlone
    <2> QED BY <2>1, <2>2, <2>3, <2>4, <2>5 DEF Places
  <1>5. CASE TrySend
    <2>1. UNCHANGED <<frames, rx, result, framer, packet, submitted>> /\ call = "try"
      BY <1>5 DEF TrySend
    <2>2. Handing = <<packet>>
      BY <2>1 DEF Handing
    <2>3. worker # "gone"
      BY <2>1 DEF Local, FaultKnown, Ends
    <2>4. CASE call' = "collect" /\ input' = input
      <3>1. Handing' = Handing
        BY <2>1, <2>2, <2>4 DEF Handing
      <3> QED BY <2>1, <2>4, <3>1 DEF Places
    <2>5. CASE call' = "idle" /\ input' = Append(input, packet)
      <3>1. Handing' = <<>>
        BY <2>5 DEF Handing
      <3>2. Six(frames, R, result.frames, framer, input, <<packet>>)
              = Six(frames, R, result.frames, framer, Append(input, packet), <<>>)
        BY <1>a, SixQueue
      <3> QED BY <2>1, <2>2, <2>5, <3>1, <3>2 DEF Places
    <2> QED BY <1>5, <2>3, <2>4, <2>5 DEF TrySend, Turn
  <1>6. CASE FinishRecv
    <2>1. /\ frames' = frames \o Head(rx).frames /\ rx' = Tail(rx) /\ rx # <<>>
          /\ UNCHANGED <<result, framer, input, call, packet, submitted>> /\ call = "finish"
      BY <1>6 DEF FinishRecv
    <2>2. R = Head(rx).frames \o R'
      BY <1>a, <2>1, ResultsHead
    <2>3. Head(rx) \in Result /\ Tail(rx) \in Seq(Result)
      BY <1>a, <2>1
    <2>4. Head(rx).frames \in Seq(CoarsePacket) /\ R' \in Seq(CoarsePacket)
      BY <2>1, <2>3, ResultsType DEF Result
    <2>5. Handing' = Handing
      BY <2>1 DEF Handing
    <2>6. Six(frames, Head(rx).frames \o R', result.frames, framer, input, Handing)
            = Six(frames \o Head(rx).frames, R', result.frames, framer, input, Handing)
      <3> DEFINE x == Head(rx).frames
                 y == R'
      <3>1. frames \in Seq(CoarsePacket) /\ x \in Seq(CoarsePacket) /\ y \in Seq(CoarsePacket)
        BY <1>a, <2>4
      <3> HIDE DEF x, y
      <3>2. frames \o (x \o y) = (frames \o x) \o y
        BY ONLY <3>1
      <3>3. Six(frames, x \o y, result.frames, framer, input, Handing)
              = Six(frames \o x, y, result.frames, framer, input, Handing)
        BY <3>2 DEF Six
      <3> QED BY <3>3 DEF x, y
    <2> QED BY <2>1, <2>2, <2>5, <2>6 DEF Places
  <1>7. CASE FinishFramers
    <2>1. /\ frames' = frames \o framer /\ framer' = <<>> /\ call = "stopped"
          /\ UNCHANGED <<rx, result, input, call, packet, submitted>>
      BY <1>7 DEF FinishFramers
    <2>2. /\ R = <<>> /\ R' = <<>> /\ result.frames = <<>> /\ input = <<>>
      BY <2>1, ResultsEmpty DEF Local, Ends, Silent
    <2>3. Handing = <<>> /\ Handing' = <<>>
      BY <2>1 DEF Handing
    <2>4. Six(frames, <<>>, <<>>, framer, <<>>, <<>>)
            = Six(frames \o framer, <<>>, <<>>, <<>>, <<>>, <<>>)
      BY <1>a, SixRest
    <2> QED BY <2>1, <2>2, <2>3, <2>4 DEF Places
  <1>8. ASSUME NEW p \in CoarsePacket, Submit(p)
        PROVE  Places' = Append(Places, p)
    <2>1. /\ submitted' = Append(submitted, p) /\ packet' = p /\ call = "idle" /\ call' = "collect"
          /\ UNCHANGED <<frames, rx, result, framer, input>>
      BY <1>8 DEF Submit, Turn
    <2>2. Handing = <<>> /\ Handing' = <<p>>
      BY <2>1 DEF Handing
    <2>3. Six(frames, R, result.frames, framer, input, <<p>>)
            = Append(Six(frames, R, result.frames, framer, input, <<>>), p)
      <3> DEFINE q == frames \o R \o result.frames \o framer \o input
      <3>1. q \in Seq(CoarsePacket)
        BY <1>a, Concats
      <3> HIDE DEF q
      <3>2. q \o <<>> = q /\ Append(q, p) = q \o <<p>>
        BY <3>1, <1>8, Concats
      <3> QED BY <3>2 DEF Six, q
    <2> QED BY <2>1, <2>2, <2>3 DEF Places
  <1>9. CASE UNCHANGED fineVars
    BY <1>9 DEF fineVars, Handing, Places
  <1>10. ~DropRecv /\ ~DropJoin /\ ~DropWorker
    BY DEF DropRecv, DropJoin, DropWorker
  <1> QED BY <1>1, <1>2, <1>3, <1>4, <1>5, <1>6, <1>7, <1>8, <1>9, <1>10 DEF Step, Thread, InCall

(* While the stage works, every step keeps each packet in one place.       *)
LEMMA LostStep ==
  ASSUME FineIInv, Step \/ UNCHANGED fineVars PROVE NothingLost'
  <1> SUFFICES ASSUME ~broken', call' \notin {"drop", "lost"} PROVE Places' = submitted'
    BY DEF NothingLost, Places, Six
  <1>1. ~broken /\ call \notin {"drop", "lost"}
    BY DEF FineIInv, Local, FineTypeOK, Step, Thread, InCall, Deliver, Send, HangUp, SubmitCollect,
       CollectAlone, Collect, TrySend, FinishRecv, FinishJoin, DropRecv, DropJoin, Start, Finish,
       DropWorker, FinishFramers, Submit, state, owner, fineVars
  <1>2. Places = submitted
    BY <1>1 DEF FineIInv, NothingLost, Places, Six
  <1>3. CASE Places' = Places /\ UNCHANGED submitted
    BY <1>2, <1>3
  <1>4. ASSUME NEW p \in CoarsePacket, Submit(p), Places' = Append(Places, p)
        PROVE  Places' = submitted'
    BY <1>2, <1>4 DEF Submit
  <1> QED BY <1>1, <1>3, <1>4, PlacesStep DEF FineIInv

(* What the caller has and the results before the error stay as they are   *)
(* while the stage breaks and after it broke, until the stage is dropped.  *)
Ready == frames \o Results(rx)
LEMMA ReadyStep ==
  ASSUME Local, Step \/ UNCHANGED fineVars, broken', call' \notin {"drop", "lost"}, call # "stopped"
  PROVE  Ready' = Ready
  <1> USE DEF owner, channels, thread, state
  <1>a. /\ frames \in Seq(CoarsePacket) /\ Results(rx) \in Seq(CoarsePacket) /\ result.frames \in Seq(CoarsePacket)
        /\ rx \in Seq(Result) /\ result \in Result
    BY ResultsType DEF Local, FineTypeOK, Result
  <1>1. CASE Send
    <2>1. rx' = Append(rx, result) /\ frames' = frames /\ broken
      BY <1>1 DEF Send
    <2>2. result.frames = <<>>
      BY <1>1, <2>1 DEF Send, Local, LastResult
    <2>3. Results(rx') = Results(rx)
      <3>1. Results(rx) \o <<>> = Results(rx)
        BY <1>a, Concats
      <3> QED BY <1>a, <2>1, <2>2, <3>1, ResultsAppend
    <2> QED BY <2>1, <2>3 DEF Ready
  <1>2. CASE SubmitCollect \/ CollectAlone
    <2>1. frames' = frames \o Results(rx) /\ rx' = <<>>
      BY <1>2 DEF SubmitCollect, CollectAlone, Collect
    <2>2. frames \o Results(rx) \in Seq(CoarsePacket)
      BY <1>a, Concats
    <2>3. (frames \o Results(rx)) \o <<>> = frames \o Results(rx)
      BY <2>2, Concats
    <2> QED BY <2>1, <2>3, ResultsEmpty DEF Ready
  <1>3. CASE FinishRecv
    <2>1. frames' = frames \o Head(rx).frames /\ rx' = Tail(rx) /\ rx # <<>>
      BY <1>3 DEF FinishRecv
    <2>2. Results(rx) = Head(rx).frames \o Results(rx')
      BY <1>a, <2>1, ResultsHead
    <2>3. Head(rx).frames \in Seq(CoarsePacket) /\ Results(rx') \in Seq(CoarsePacket)
      <3>1. Head(rx) \in Result /\ Tail(rx) \in Seq(Result)
        BY <1>a, <2>1
      <3> QED BY <2>1, <3>1, ResultsType DEF Result
    <2>4. frames \o (Head(rx).frames \o Results(rx'))
            = (frames \o Head(rx).frames) \o Results(rx')
      <3> DEFINE x == Head(rx).frames
                 y == Results(rx')
      <3>1. frames \in Seq(CoarsePacket) /\ x \in Seq(CoarsePacket) /\ y \in Seq(CoarsePacket)
        BY <1>a, <2>3
      <3> HIDE DEF x, y
      <3>2. frames \o (x \o y) = (frames \o x) \o y
        BY ONLY <3>1
      <3> QED BY <3>2 DEF x, y
    <2> QED BY <2>1, <2>2, <2>4 DEF Ready
  <1>4. CASE Deliver \/ HangUp \/ TrySend \/ Finish \/ FinishJoin
    <2>1. frames' = frames /\ rx' = rx
      BY <1>4 DEF Deliver, HangUp, TrySend, Finish, FinishJoin, Disconnected
    <2> QED BY <2>1 DEF Ready
  <1>5. ASSUME NEW p \in CoarsePacket, Submit(p) PROVE Ready' = Ready
    BY <1>5 DEF Submit, Ready
  <1>6. CASE UNCHANGED fineVars
    BY <1>6 DEF fineVars, Ready
  <1>7. ~Start /\ ~FinishFramers /\ ~DropRecv /\ ~DropJoin /\ ~DropWorker
    BY DEF Start, FinishFramers, DropRecv, DropJoin, DropWorker
  <1> QED BY <1>1, <1>2, <1>3, <1>4, <1>5, <1>6, <1>7 DEF Step, Thread, InCall

(* The stage is given back only if it has not broken.                      *)
LEMMA GivenBack ==
  ASSUME Local, Step \/ UNCHANGED fineVars, call # "stopped" PROVE FailureReported'
  <1> SUFFICES ASSUME call' = "stopped" PROVE ~broken'
    BY DEF FailureReported
  <1>1. FinishJoin
    BY DEF Step, Thread, InCall, Deliver, Send, HangUp, SubmitCollect, CollectAlone, Collect,
       TrySend, FinishRecv, DropRecv, DropJoin, Start, Finish, DropWorker, FinishFramers, Submit,
       Turn, owner, fineVars
  <1>2. ~Bad(rx)
    BY <1>1 DEF FinishJoin, Disconnected, Bad
  <1> QED BY <1>1, <1>2 DEF FinishJoin, Disconnected, Local, FineTypeOK, Ends, FaultKnown, Silent,
             Reported, state

(* The invariant holds in the initial state.                               *)
LEMMA FineInitHolds == FineInit => FineIInv
  <1> SUFFICES ASSUME FineInit PROVE FineIInv
    OBVIOUS
  <1>1. FineTypeOK
    <2>1. [epoch |-> 0, seq |-> 0] \in CoarsePacket /\ Silent \in Result
      BY SilentType DEF CoarsePacket
    <2>2. /\ input = <<>> /\ rx = <<>> /\ framer = <<>> /\ frames = <<>> /\ submitted = <<>>
          /\ packet \in CoarsePacket /\ bank \in CoarsePacket /\ result \in Result
      BY <2>1 DEF FineInit
    <2>3. Len(input) <= InputCap /\ Len(rx) <= OutputCap /\ Len(framer) < FrameLen
      BY <2>2, FineAssumption
    <2>4. /\ failure \in BOOLEAN /\ tx \in BOOLEAN /\ broken \in BOOLEAN
          /\ call = "stopped" /\ worker = "none"
      BY DEF FineInit
    <2>5. /\ frames \in Seq(CoarsePacket) /\ input \in Seq(CoarsePacket) /\ framer \in Seq(CoarsePacket)
          /\ submitted \in Seq(CoarsePacket) /\ rx \in Seq(Result)
      BY <2>2
    <2> QED BY <2>2, <2>3, <2>4, <2>5 DEF FineTypeOK
  <1>2. Ends
    BY DEF FineInit, Ends
  <1>3. FaultKnown
    BY DEF FineInit, FaultKnown, Bad, Silent, Reported
  <1>4. NothingLost
    BY ResultsEmpty DEF FineInit, NothingLost, Silent, Handing
  <1>5. LastResult /\ FailureReported
    BY DEF FineInit, LastResult, FailureReported, Silent
  <1> QED BY <1>1, <1>2, <1>3, <1>4, <1>5 DEF FineIInv, Local

-----------------------------------------------------------------------------
(* Every step keeps what the thread and the owner know of each other: a    *)
(* step of the thread, of the owner in a call or between calls, or of      *)
(* another module that submits any packet.                                 *)
LEMMA LocalStep ==
  ASSUME Local, Step \/ UNCHANGED fineVars PROVE Local'
  BY FineTypeStep, EndsStep, FaultStep, LastStep DEF Local

(* Every step keeps the invariant.                                         *)
LEMMA FineKept ==
  ASSUME FineIInv, Step \/ UNCHANGED fineVars PROVE FineIInv'
  <1>1. FailureReported'
    <2>1. CASE call # "stopped"
      BY <2>1, GivenBack DEF FineIInv
    <2>2. CASE call = "stopped"
      <3>1. ~broken
        BY <2>2 DEF FineIInv, FailureReported
      <3>2. call' = "stopped" => broken' = broken
        BY <2>2 DEF Step, Thread, InCall, Deliver, Send, HangUp, SubmitCollect, CollectAlone,
           Collect, TrySend, FinishRecv, FinishJoin, DropRecv, DropJoin, Start, Finish,
           DropWorker, FinishFramers, Submit, state, thread, fineVars, FineIInv, Local, Ends
      <3> QED BY <3>1, <3>2 DEF FailureReported
    <2> QED BY <2>1, <2>2
  <1> QED BY <1>1, LocalStep, LostStep DEF FineIInv

(* Alone, the owner submits packets of epoch 0 in order.                   *)
LEMMA NextIsStep == FineNext => Step
  <1> SUFFICES ASSUME FineNext PROVE Step
    OBVIOUS
  <1>1. [epoch |-> 0, seq |-> Len(submitted)] \in CoarsePacket \/ ~Len(submitted) < MaxPackets
    BY FineAssumption DEF CoarsePacket
  <1> QED BY <1>1 DEF FineNext, FineFree, Step

(* A stage that is given back has not broken, and only the caller's frames *)
(* and the partial frame hold packets.                                     *)
LEMMA Rest ==
  ASSUME FineIInv, call = "stopped" PROVE ~broken /\ frames \o framer = submitted
  <1>1. ~broken
    BY DEF FineIInv, FailureReported
  <1>2. /\ Results(rx) = <<>> /\ result.frames = <<>> /\ input = <<>> /\ Handing = <<>>
    BY ResultsEmpty DEF FineIInv, Local, Ends, Silent, Handing
  <1>3. Six(frames, <<>>, <<>>, framer, <<>>, <<>>) = frames \o framer
    BY SixRest DEF FineIInv, Local, FineTypeOK
  <1> QED BY <1>1, <1>2, <1>3 DEF FineIInv, NothingLost, Six

(* The invariant holds in every reachable state.                           *)
LEMMA FineInvariant == FineSpec => []FineIInv
  <1>1. FineIInv /\ [FineNext]_fineVars => FineIInv'
    BY FineKept, NextIsStep
  <1> QED BY FineInitHolds, <1>1, PTL DEF FineSpec

(* For every capacity of the two channels and every length of a frame, no  *)
(* packet is lost, duplicated or reordered between submit and the caller's *)
(* frames, and finish gives the stage back with all of them handed on.     *)
THEOREM HandedOn == FineSpec => []AllHandedOn
  <1>1. FineIInv => AllHandedOn
    BY Rest DEF FineIInv, Local, AllHandedOn, FinishComplete
  <1> QED BY FineInvariant, <1>1, PTL

(* Finish never gives a stage that broke back as good, also when it broke  *)
(* after the last submit returned.                                         *)
THEOREM NeverGoodAgain == FineSpec => []FailureReported
  <1>1. FineIInv => FailureReported
    BY DEF FineIInv
  <1> QED BY FineInvariant, <1>1, PTL

-----------------------------------------------------------------------------
(* The pipeline.                                                           *)

(* Where the producer is tells where the fine stage is, what the stream    *)
(* may hold and which command is served; after an error in the queue it    *)
(* does not come back.                                                     *)
Failed(s) == \E i \in 1..Len(s) : ~s[i].ok
Stage ==
  /\ pc \in {"loop", "packet", "emit"} => call = "idle"
  /\ pc = "drain" => call \in {"idle", "collect", "try", "error"}
  /\ pc = "finish" => call \in {"idle", "finish"}
  /\ pc = "refuse" => call \in {"lost", "error"}
  /\ pc \in {"change", "reply", "restart"} => call = "stopped"
  /\ pc = "parked" => call = "stopped" \/ (call \in {"lost", "error"} /\ doomed)
  /\ pc = "change" \/ (pc = "reply" /\ verdict) => ~broken
  /\ pc \in {"loop", "packet", "parked", "restart"} => frames = <<>>
  /\ pc \in {"loop", "packet", "emit"} => Len(pool) <= PoolHold
  /\ pc \in {"finish", "change", "reply", "restart"} => pool = <<>>
  /\ pc = "parked" /\ call = "stopped" => pool = <<>>
  /\ cmd # "none" => pc \in {"drain", "finish", "refuse", "change", "reply", "parked"}
  /\ pc \in {"finish", "refuse", "change", "reply", "parked"} => cmd # "none"
  /\ sticky \/ Failed(output) => pc \in {"exit", "gone"}
  /\ pc = "reply" /\ cmd = "stop" => doomed /\ (verdict => framer = <<>>)
  /\ doomed => pc \in {"reply", "parked"}

(* Where the caller and the producer meet.  A command is in its slot, is   *)
(* served or is answered only while its caller waits for it; a good answer *)
(* finds the stream at rest; and what a boundary has gathered and what is  *)
(* pending are never both there.                                           *)
Answered(ok) ==
  ok => /\ call = "stopped" /\ ~broken /\ pool = <<>>
        /\ request = "stop" => framer = <<>>
Meet ==
  /\ reply # <<>> => /\ caller \in {"poll", "recv"} /\ pc = "parked"
                     /\ Answered(reply[1].ok)
  /\ caller = "resume" => /\ pc = "parked" /\ reply = <<>> /\ output = <<>>
                          /\ Answered(good)
  /\ pc = "parked" => reply # <<>> \/ caller = "resume"
  /\ pc = "parked" /\ request = "stop" => doomed
  /\ commands # <<>> /\ pc \notin {"failed", "exit", "gone"} =>
       commands = <<request>> /\ cmd = "none" /\ caller \in {"poll", "recv"}
  /\ cmd # "none" => cmd = request /\ caller \in {"poll", "recv", "resume"}
  /\ request = "none" <=> caller \in {"idle", "last", "stopped"}
  /\ caller = "idle" => out = Nothing
  /\ out.frames = <<>> \/ pending.frames = <<>>
  /\ caller \in {"recv", "resume"} => pending.frames = <<>>
  /\ caller \in {"last", "stopped"} => pc \in {"exit", "gone"}
  /\ caller \notin {"resume", "last", "stopped"} => good

(* A stop that succeeds has everything; one that fails has let it go.      *)
Ended ==
  /\ caller = "last" /\ good =>
       output = <<>> /\ pending.frames = <<>> /\ delivered \o out.frames = accepted
  /\ caller = "last" /\ ~good => out.frames = <<>>
  /\ caller = "stopped" /\ good => delivered = accepted

(* What the caller was given, what it holds, and what is queued for it and *)
(* answered: the first part of what the fine stage was given.  While the   *)
(* producer runs, what the fine stage has ready follows, and unless it has *)
(* broken, all it holds.                                                   *)
Replied == IF reply = <<>> THEN <<>> ELSE reply[1].out.frames
Five(d, p, o, j, r) == d \o p \o o \o j \o r
Given == Five(delivered, pending.frames, out.frames, JoinAll(output).frames, Replied)
Running == \/ pc \in {"loop", "packet", "drain", "emit", "finish", "change", "reply",
                      "restart"}
           \/ pc = "parked" /\ call = "stopped"
Keeps == caller # "stopped" /\ (caller = "last" => good)
Starts(s, t) == \E r \in Seq(CoarsePacket) : t = s \o r
Flow ==
  /\ submitted \o pool = accepted
  /\ Starts(delivered, accepted)
  /\ Keeps => Starts(Given, submitted)
  /\ Keeps /\ Running => Starts(Given \o Ready, submitted)
  /\ Keeps /\ Running /\ ~broken => Given \o Places = submitted

IInv == TypeOK /\ Local /\ Stage /\ Meet /\ Ended /\ Flow

-----------------------------------------------------------------------------
(* A collect on its own is a step of the stage, or finds nothing.          *)
LEMMA CollectIs ==
  Local /\ call = "idle" /\ Collect("idle") => CollectAlone \/ UNCHANGED fineVars
  <1>1. ASSUME Local, call = "idle", Collect("idle"), rx = <<>> PROVE UNCHANGED fineVars
    <2>1. frames \in Seq(CoarsePacket)
      BY <1>1 DEF Local, FineTypeOK
    <2>2. frames \o <<>> = frames
      BY <2>1, ConcatEmptySeq
    <2>3. frames' = frames
      BY <1>1, <2>2, ResultsEmpty DEF Collect
    <2>4. call' = call /\ rx' = rx
      BY <1>1 DEF Collect, Errors
    <2> QED BY <1>1, <2>3, <2>4 DEF Collect, fineVars, owner, channels, thread, state
  <1> QED BY <1>1 DEF CollectAlone

-----------------------------------------------------------------------------
(* What batches carry.                                                     *)
FramesOf(s) == [i \in 1..Len(s) |-> s[i].out.frames]
Carried(s) == JoinAll(s).frames

(* The frames of each batch are a sequence of packets.                     *)
LEMMA FramesOfType ==
  ASSUME NEW s \in Seq(Batches)
  PROVE  FramesOf(s) \in Seq(Seq(CoarsePacket)) /\ Len(FramesOf(s)) = Len(s)
  <1>1. \A i \in 1..Len(s) : s[i].out.frames \in Seq(CoarsePacket)
    <2>1. \A i \in 1..Len(s) : s[i] \in Batches
      BY ElementOfSeq
    <2> QED BY <2>1 DEF Batches, Output
  <1> QED BY <1>1 DEF FramesOf

(* Joined batches are an output, and their frames those of all batches.    *)
LEMMA CarriedType ==
  ASSUME NEW s \in Seq(Batches)
  PROVE  /\ JoinAll(s) \in Output
         /\ Carried(s) = FlattenSeq(FramesOf(s)) /\ Carried(s) \in Seq(CoarsePacket)
  <1>1. FlattenSeq(FramesOf(s)) \in Seq(CoarsePacket)
    BY FramesOfType, FlattenType
  <1>2. \A i \in 1..Len(s) : s[i].out.pan \in SUBSET Nat
    <2>1. \A i \in 1..Len(s) : s[i] \in Batches
      BY ElementOfSeq
    <2> QED BY <2>1 DEF Batches, Output
  <1>3. JoinAll(s).frames = FlattenSeq(FramesOf(s))
    BY DEF JoinAll, FramesOf
  <1>4. (UNION {s[i].out.pan : i \in 1..Len(s)}) \in SUBSET Nat
    BY <1>2
  <1> QED BY <1>1, <1>3, <1>4 DEF JoinAll, FramesOf, Carried, Output

(* No batches carry nothing.                                               *)
LEMMA CarriedNone == Carried(<<>>) = <<>>
  <1>1. FramesOf(<<>>) = <<>>
    BY DEF FramesOf
  <1> QED BY <1>1, FlattenEmpty DEF Carried, JoinAll, FramesOf

(* Batches after batches carry their frames after theirs.                  *)
LEMMA CarriedConcat ==
  ASSUME NEW s \in Seq(Batches), NEW t \in Seq(Batches)
  PROVE  Carried(s \o t) = Carried(s) \o Carried(t)
  <1>1. /\ s \o t \in Seq(Batches) /\ Len(s \o t) = Len(s) + Len(t)
        /\ Len(s) \in Nat /\ Len(t) \in Nat
        /\ \A i \in 1..(Len(s) + Len(t)) :
             (s \o t)[i] = IF i <= Len(s) THEN s[i] ELSE t[i - Len(s)]
    OBVIOUS
  <1>2. /\ FramesOf(s) \in Seq(Seq(CoarsePacket)) /\ Len(FramesOf(s)) = Len(s)
        /\ FramesOf(t) \in Seq(Seq(CoarsePacket)) /\ Len(FramesOf(t)) = Len(t)
        /\ FramesOf(s \o t) \in Seq(Seq(CoarsePacket)) /\ Len(FramesOf(s \o t)) = Len(s) + Len(t)
    BY <1>1, FramesOfType
  <1>3. /\ \A i \in 1..Len(s) : FramesOf(s)[i] = s[i].out.frames
        /\ \A i \in 1..Len(t) : FramesOf(t)[i] = t[i].out.frames
        /\ \A i \in 1..(Len(s) + Len(t)) : FramesOf(s \o t)[i] = (s \o t)[i].out.frames
    BY <1>1 DEF FramesOf
  <1>4. FramesOf(s \o t) = FramesOf(s) \o FramesOf(t)
    <2> DEFINE a == FramesOf(s)
               b == FramesOf(t)
               c == FramesOf(s \o t)
               m == Len(s)
               n == Len(t)
    <2>1. /\ a \in Seq(Seq(CoarsePacket)) /\ b \in Seq(Seq(CoarsePacket))
               /\ c \in Seq(Seq(CoarsePacket))
          /\ Len(a) = m /\ Len(b) = n /\ Len(c) = m + n /\ m \in Nat /\ n \in Nat
      BY <1>1, <1>2
    <2>2. \A i \in 1..(m + n) : c[i] = IF i <= m THEN a[i] ELSE b[i - m]
      <3> SUFFICES ASSUME NEW i \in 1..(m + n) PROVE c[i] = IF i <= m THEN a[i] ELSE b[i - m]
        OBVIOUS
      <3>1. CASE i <= m
        <4>1. i \in 1..m
          BY <2>1, <3>1
        <4>2. c[i] = s[i].out.frames /\ a[i] = s[i].out.frames
          BY <1>1, <1>3, <3>1, <4>1
        <4> QED BY <3>1, <4>2
      <3>2. CASE ~(i <= m)
        <4>1. i - m \in 1..n
          BY <2>1, <3>2
        <4>2. c[i] = t[i - m].out.frames /\ b[i - m] = t[i - m].out.frames
          BY <1>1, <1>3, <3>2, <4>1
        <4> QED BY <3>2, <4>2
      <3> QED BY <3>1, <3>2
    <2> HIDE DEF a, b, c, m, n
    <2>3. /\ Len(c) = Len(a) + Len(b)
          /\ \A i \in 1..Len(c) : c[i] = IF i <= Len(a) THEN a[i] ELSE b[i - Len(a)]
      BY <2>1, <2>2
    <2>4. c = a \o b
      <3> DEFINE T == Seq(CoarsePacket)
      <3>1. a \in Seq(T) /\ b \in Seq(T) /\ c \in Seq(T)
        BY <2>1
      <3> HIDE DEF T
      <3> QED BY ONLY <2>3, <3>1, ConcatIs
    <2> QED BY <2>4 DEF a, b, c
  <1>5. FlattenSeq(FramesOf(s) \o FramesOf(t))
          = FlattenSeq(FramesOf(s)) \o FlattenSeq(FramesOf(t))
    BY <1>2, FlattenConcat
  <1> QED BY <1>1, <1>4, <1>5, CarriedType

(* One batch carries its frames.                                           *)
LEMMA CarriedOne ==
  ASSUME NEW b \in Batches PROVE Carried(<<b>>) = b.out.frames
  <1>1. <<b>> \in Seq(Batches) /\ b.out.frames \in Seq(CoarsePacket)
    BY DEF Batches, Output
  <1>2. FramesOf(<<b>>) = <<b.out.frames>>
    BY DEF FramesOf
  <1>3. FlattenSeq(<<b.out.frames>>) = b.out.frames
    BY <1>1, FlattenOne
  <1> QED BY <1>1, <1>2, <1>3, CarriedType

(* A batch sent adds its frames at the end.                                *)
LEMMA CarriedAppend ==
  ASSUME NEW s \in Seq(Batches), NEW b \in Batches
  PROVE  Carried(Append(s, b)) = Carried(s) \o b.out.frames
  <1>1. <<b>> \in Seq(Batches) /\ Append(s, b) = s \o <<b>>
    BY AppendIsConcat
  <1> QED BY <1>1, CarriedConcat, CarriedOne

(* Batches taken from the front carry the first frames.                    *)
LEMMA CarriedSplit ==
  ASSUME NEW s \in Seq(Batches), NEW k \in 0..Len(s)
  PROVE  /\ SubSeq(s, 1, k) \in Seq(Batches) /\ SubSeq(s, k + 1, Len(s)) \in Seq(Batches)
         /\ Len(SubSeq(s, 1, k)) = k /\ Len(SubSeq(s, k + 1, Len(s))) = Len(s) - k
         /\ Carried(s) = Carried(SubSeq(s, 1, k)) \o Carried(SubSeq(s, k + 1, Len(s)))
  <1> DEFINE a == SubSeq(s, 1, k)
             b == SubSeq(s, k + 1, Len(s))
  <1>1. /\ Len(s) \in Nat /\ a \in Seq(Batches) /\ Len(a) = k /\ \A i \in 1..k : a[i] = s[i]
    OBVIOUS
  <1>2. /\ b \in Seq(Batches) /\ Len(b) = Len(s) - k
        /\ \A i \in 1..(Len(s) - k) : b[i] = s[k + i]
    OBVIOUS
  <1> HIDE DEF a, b
  <1>3. s = a \o b
    <2>1. a \o b \in Seq(Batches) /\ Len(a \o b) = Len(s)
      BY <1>1, <1>2
    <2>2. ASSUME NEW i \in 1..Len(s) PROVE (a \o b)[i] = s[i]
      <3>1. CASE i <= k
        BY <1>1, <1>2, <3>1
      <3>2. CASE ~(i <= k)
        <4>1. i - k \in 1..(Len(s) - k)
          BY <1>1, <3>2
        <4>2. (a \o b)[i] = b[i - k]
          BY <1>1, <1>2, <3>2
        <4> QED BY <1>2, <4>1, <4>2
      <3> QED BY <3>1, <3>2
    <2> QED BY <2>1, <2>2, SeqEqual
  <1>4. Carried(a \o b) = Carried(a) \o Carried(b)
    BY <1>1, <1>2, CarriedConcat
  <1> QED BY <1>1, <1>2, <1>3, <1>4 DEF a, b

(* The first batch carries the first frames.                               *)
LEMMA CarriedHead ==
  ASSUME NEW s \in Seq(Batches), s # <<>>
  PROVE  /\ Head(s) \in Batches /\ Tail(s) \in Seq(Batches) /\ Len(Tail(s)) = Len(s) - 1
         /\ Carried(s) = Head(s).out.frames \o Carried(Tail(s))
  <1>1. /\ Head(s) \in Batches /\ Tail(s) \in Seq(Batches) /\ Len(Tail(s)) = Len(s) - 1
        /\ <<Head(s)>> \in Seq(Batches) /\ s = <<Head(s)>> \o Tail(s)
    OBVIOUS
  <1>2. Carried(<<Head(s)>> \o Tail(s)) = Carried(<<Head(s)>>) \o Carried(Tail(s))
    BY <1>1, CarriedConcat
  <1> QED BY <1>1, <1>2, CarriedOne

-----------------------------------------------------------------------------
(* The least of two numbers.                                               *)
LEMMA MinIs ==
  ASSUME NEW a \in Nat, NEW b \in Nat
  PROVE  Min({a, b}) = IF a <= b THEN a ELSE b
  <1>1. CASE a <= b
    <2>1. a \in {a, b} /\ \A y \in {a, b} : a <= y
      BY <1>1
    <2>2. \A x \in {a, b} : (\A y \in {a, b} : x <= y) => x = a
      BY <1>1
    <2> QED BY <1>1, <2>1, <2>2 DEF Min
  <1>2. CASE ~(a <= b)
    <2>1. b \in {a, b} /\ \A y \in {a, b} : b <= y
      BY <1>2
    <2>2. \A x \in {a, b} : (\A y \in {a, b} : x <= y) => x = b
      BY <1>2
    <2> QED BY <1>2, <2>1, <2>2 DEF Min
  <1> QED BY <1>1, <1>2

(* Nothing, and two outputs joined, are outputs.                           *)
LEMMA OutputType ==
  /\ Nothing \in Output /\ Error \in Batches
  /\ \A a, b \in Output : Join(a, b) \in Output /\ Join(a, b).frames = a.frames \o b.frames
  /\ \A a \in Output : Batch(a) \in Batches /\ Batch(a).ok /\ Batch(a).out = a
  /\ Nothing.frames = <<>> /\ ~Error.ok /\ Error.out = Nothing
  <1>1. <<>> \in Seq(CoarsePacket) /\ Nothing \in Output
    BY DEF Nothing, Output
  <1>2. ASSUME NEW a \in Output, NEW b \in Output
        PROVE  Join(a, b) \in Output /\ Join(a, b).frames = a.frames \o b.frames
    <2>1. a.frames \o b.frames \in Seq(CoarsePacket) /\ a.pan \cup b.pan \in SUBSET Nat
      BY DEF Output
    <2> QED BY <2>1 DEF Join, Output
  <1> QED BY <1>1, <1>2 DEF Batches, Batch, Error, Nothing

(* What a poll takes from the queue, and what it leaves there.             *)
LEMMA TakenIs ==
  ASSUME output \in Seq(Batches), pending \in Output, sticky \in BOOLEAN
  PROVE  LET rest == IF sticky THEN output ELSE SubSeq(output, Len(Taken) + 1, Len(output))
         IN /\ Taken \in Seq(Batches) /\ Len(Taken) <= PollMax /\ Len(Taken) <= Len(output)
            /\ Polled \in Output /\ Polled.frames = pending.frames \o Carried(Taken)
            /\ rest \in Seq(Batches) /\ Len(rest) <= Len(output)
            /\ Carried(output) = Carried(Taken) \o Carried(rest)
            /\ \A i \in 1..Len(Taken) : Taken[i] = output[i]
            /\ ~sticky => (rest # <<>> => Len(Taken) = PollMax)
            /\ ~sticky => \A i \in 1..Len(rest) :
                            i + Len(Taken) \in 1..Len(output) /\ rest[i] = output[i + Len(Taken)]
  <1> DEFINE k == Min({Len(output), PollMax})
             rest == IF sticky THEN output ELSE SubSeq(output, Len(Taken) + 1, Len(output))
  <1>1. /\ Len(output) \in Nat /\ PollMax \in Nat \ {0} /\ k \in 0..Len(output)
        /\ k <= PollMax /\ (k < Len(output) => k = PollMax)
    BY PipelineAssumption, FineAssumption, MinIs
  <1>2. JoinAll(Taken) \in Output \/ ~(Taken \in Seq(Batches))
    BY CarriedType
  <1>3. Taken \in Seq(Batches) => Polled \in Output
          /\ Polled.frames = pending.frames \o Carried(Taken)
    BY <1>2, OutputType DEF Polled, Carried
  <1>4. CASE sticky
    <2>1. Taken = <<>> /\ rest = output /\ <<>> \in Seq(Batches) /\ Len(<<>>) = 0
      BY <1>4 DEF Taken
    <2>2. Carried(<<>>) \o Carried(output) = Carried(output)
      BY CarriedNone, CarriedType
    <2> QED BY <1>1, <1>3, <1>4, <2>1, <2>2
  <1>5. CASE ~sticky
    <2>1. Taken = SubSeq(output, 1, k)
      BY <1>5 DEF Taken
    <2> HIDE DEF k
    <2>2. /\ Taken \in Seq(Batches) /\ Len(Taken) = k
          /\ SubSeq(output, k + 1, Len(output)) \in Seq(Batches)
          /\ Len(SubSeq(output, k + 1, Len(output))) = Len(output) - k
          /\ Carried(output) = Carried(Taken) \o Carried(SubSeq(output, k + 1, Len(output)))
      BY <1>1, <2>1, CarriedSplit
    <2>3. rest = SubSeq(output, k + 1, Len(output))
      BY <1>5, <2>2
    <2>4. \A i \in 1..k : Taken[i] = output[i]
      BY <1>1, <2>1
    <2>5. \A i \in 1..(Len(output) - k) : SubSeq(output, k + 1, Len(output))[i] = output[i + k]
      BY <1>1
    <2>6. rest # <<>> => k = PollMax
      BY <1>1, <2>2, <2>3
    <2> HIDE DEF rest
    <2>7. \A i \in 1..Len(rest) : i + k \in 1..Len(output) /\ rest[i] = output[i + k]
      BY <1>1, <2>2, <2>3, <2>5, SMTT(40)
    <2> QED BY <1>1, <1>3, <1>5, <2>2, <2>3, <2>4, <2>6, <2>7, SMTT(40) DEF rest
  <1> QED BY <1>4, <1>5

-----------------------------------------------------------------------------
(* The producer's snapshot, and what it has gathered.                      *)
LEMMA SnapType == ASSUME TypeOK PROVE Snap \in Snapshot
  BY DEF TypeOK, Snap, Snapshot
(* What the producer sends or answers is an output.                        *)
LEMMA DdcOutput == ASSUME TypeOK PROVE [frames |-> frames, pan |-> pan] \in Output
  BY DEF TypeOK, FineTypeOK, Output

(* A poll takes what TakenIs says.                                         *)
LEMMA PollType ==
  ASSUME TypeOK
  PROVE  /\ Polled \in Output
         /\ TakePoll => /\ output' \in Seq(Batches) /\ Len(output') <= QueueCap
                       /\ sticky' \in BOOLEAN /\ snapshot' \in Snapshot
  <1>1. output \in Seq(Batches) /\ pending \in Output /\ sticky \in BOOLEAN
    BY DEF TypeOK
  <1>2. LET rest == IF sticky THEN output ELSE SubSeq(output, Len(Taken) + 1, Len(output))
        IN Polled \in Output /\ rest \in Seq(Batches) /\ Len(rest) <= Len(output)
    BY <1>1, TakenIs
  <1>3. TakePoll => output' \in Seq(Batches) /\ Len(output') <= QueueCap
    <2>1. Len(output) \in Nat /\ Len(output) <= QueueCap /\ QueueCap \in Nat
      BY <1>1, PipelineAssumption, FineAssumption DEF TypeOK
    <2> DEFINE rest == IF sticky THEN output ELSE SubSeq(output, Len(Taken) + 1, Len(output))
    <2>2. rest \in Seq(Batches) /\ Len(rest) <= Len(output) /\ Len(rest) \in Nat
      BY <1>2
    <2>3. TakePoll => output' = rest
      BY DEF TakePoll
    <2> HIDE DEF rest
    <2> QED BY <2>1, <2>2, <2>3
  <1>4. TakePoll => sticky' \in BOOLEAN /\ snapshot' \in Snapshot
    BY DEF TakePoll, PollFails, TypeOK
  <1> QED BY <1>2, <1>3, <1>4

(* Every step keeps the types and the capacities of the queues.            *)
LEMMA TypeStep ==
  ASSUME TypeOK, Stage, Meet, FineTypeOK', Next \/ UNCHANGED vars
  PROVE  TypeOK'
  <1> USE DEF TypeOK, fine, source, ddc, control, boundary, held, history
  <1>1. CASE TakeCommand
    <2>1. commands # <<>> => Head(commands) \in Requests
      BY DEF Requests
    <2>2. CASE commands = <<>>
      BY <1>1, <2>2 DEF TakeCommand
    <2>3. CASE commands # <<>>
      <3>1. <<>> \in Seq(Requests) /\ Len(<<>>) <= 1
        OBVIOUS
      <3> QED BY <1>1, <2>1, <2>3, <3>1 DEF TakeCommand
    <2> QED BY <2>2, <2>3
  <1>2. CASE Packet
    <2>1. [epoch |-> generation, seq |-> next_seq] \in CoarsePacket
      BY DEF CoarsePacket
    <2>2. shared' \in Snapshot
      BY <1>2, SnapType DEF Packet, Fail
    <2>3. /\ pool' \in Seq(CoarsePacket) /\ Len(pool') <= PoolHold + 1
          /\ accepted' \in Seq(CoarsePacket) /\ next_seq' \in Nat /\ pan' \subseteq Nat
          /\ pc' \in {"failed", "drain", "loop"} /\ generation' = generation
      <3> DEFINE p == [epoch |-> generation, seq |-> next_seq]
      <3>1. Len(pool) <= PoolHold
        BY <1>2 DEF Packet, Stage
      <3>2. /\ Append(pool, p) \in Seq(CoarsePacket) /\ Len(Append(pool, p)) <= PoolHold + 1
            /\ Append(accepted, p) \in Seq(CoarsePacket) /\ next_seq + 1 \in Nat
        BY <2>1, <3>1, PipelineAssumption, FineAssumption
      <3>3. CASE Fail /\ UNCHANGED source
        BY <1>2, <3>3 DEF Fail
      <3>4. CASE ~Quiet /\ pool' = Append(pool, p) /\ accepted' = Append(accepted, p)
                 /\ next_seq' = next_seq + 1 /\ pan' \in {pan, pan \cup {generation}}
                 /\ pc' = "drain" /\ UNCHANGED <<generation, shared>>
        <4> HIDE DEF p
        <4> QED BY <3>2, <3>4
      <3>5. CASE pc' = "loop" /\ UNCHANGED <<source, shared>>
        BY <3>5
      <3> QED BY <1>2, <3>3, <3>4, <3>5 DEF Packet
    <2> QED BY <1>2, <2>2, <2>3 DEF Packet
  <1>3. CASE HandOver
    <2>1. Tail(pool) \in Seq(CoarsePacket) /\ Len(Tail(pool)) <= PoolHold + 1
      BY <1>3, PipelineAssumption, FineAssumption DEF HandOver
    <2> QED BY <1>3, <2>1 DEF HandOver
  <1>4. CASE InSubmit
    BY <1>4 DEF InSubmit
  <1>5. CASE DrainCollect
    BY <1>5 DEF DrainCollect
  <1>6. CASE DrainFails
    <2>1. shared' \in Snapshot /\ pc' \in {"failed", "refuse"}
      BY <1>6, SnapType DEF DrainFails, Fail
    <2> QED BY <1>6, <2>1 DEF DrainFails
  <1>7. CASE Emit
    <2>1. output' \in Seq(Batches) /\ Len(output') <= QueueCap
      <3>1. Batch([frames |-> frames, pan |-> pan]) \in Batches
        BY OutputType, DdcOutput
      <3>2. CASE output' = output
        BY <3>2
      <3>3. CASE CanSend /\ output' = Append(output, Batch([frames |-> frames, pan |-> pan]))
        BY <3>1, <3>3, PipelineAssumption, FineAssumption DEF CanSend
      <3> QED BY <1>7, <3>2, <3>3 DEF Emit
    <2>2. shared' \in Snapshot
      BY <1>7, SnapType DEF Emit
    <2> QED BY <1>7, <2>1, <2>2 DEF Emit
  <1>8. CASE SendError
    <2>1. output' \in Seq(Batches) /\ Len(output') <= QueueCap
      BY <1>8, OutputType, PipelineAssumption, FineAssumption DEF SendError, CanSend
    <2> QED BY <1>8, <2>1 DEF SendError
  <1>9. CASE FinishFine
    BY <1>9 DEF FinishFine
  <1>10. CASE Refuse
    <2>1. [ok |-> FALSE, out |-> Nothing, snap |-> Snap] \in Replies
      BY SnapType, OutputType DEF Replies
    <2>2. reply' \in Seq(Replies) /\ Len(reply') <= 1
      BY <1>10, <2>1 DEF Refuse
    <2> QED BY <1>10, <2>2 DEF Refuse
  <1>11. CASE Change
    <2>1. /\ generation' \in Nat /\ next_seq' \in Nat /\ pan' \subseteq Nat
          /\ UNCHANGED <<pool, accepted>>
      <3>1. CASE Rejected
        BY <3>1 DEF Rejected
      <3>2. CASE Finished(cmd = "recapture")
        <4>1. CASE cmd = "recapture"
          BY <3>2, <4>1 DEF Finished
        <4>2. CASE cmd # "recapture"
          BY <3>2, <4>2 DEF Finished
        <4> QED BY <4>1, <4>2
      <3> QED BY <1>11, <3>1, <3>2 DEF Change
    <2>2. shared' \in Snapshot
      BY <1>11, <2>1 DEF Change, Publish, Snap, Snapshot
    <2>3. verdict' \in BOOLEAN /\ doomed' \in BOOLEAN
      BY <1>11 DEF Change
    <2> QED BY <1>11, <2>1, <2>2, <2>3 DEF Change
  <1>12. CASE Reply
    <2>1. [ok |-> verdict, out |-> [frames |-> frames, pan |-> pan], snap |-> Snap] \in Replies
      BY SnapType, DdcOutput DEF Replies
    <2>2. reply' \in Seq(Replies) /\ Len(reply') <= 1
      BY <1>12, <2>1 DEF Reply
    <2> QED BY <1>12, <2>2 DEF Reply
  <1>13. CASE Restart
    BY <1>13 DEF Restart
  <1>14. CASE Exit
    <2>1. <<>> \in Seq(Requests) /\ Len(<<>>) <= 1
      OBVIOUS
    <2>2. /\ pc' = pc \/ pc' = "gone"
          /\ commands' = commands \/ commands' = <<>>
      BY <1>14 DEF Exit
    <2>4. commands' \in Seq(Requests) /\ Len(commands') <= 1
      BY <2>1, <2>2
    <2>3. UNCHANGED <<source, control, output, reply, shared, caller, boundary, held, history>>
      BY <1>14 DEF Exit
    <2>5. pc' \in {"loop", "packet", "drain", "emit", "failed", "finish", "refuse",
                   "change", "reply", "parked", "restart", "exit", "gone"}
      BY <2>2
    <2> HIDE DEF TypeOK
    <2> QED BY <2>3, <2>4, <2>5 DEF TypeOK
  <1>15. CASE Worker
    BY <1>15 DEF Worker
  <1>16. CASE SendCommand
    <2>1. caller' \in {"poll", "full", "last", "idle"}
      BY <1>16 DEF SendCommand, Broken, Await
    <2>2. /\ commands' \in Seq(Requests) /\ Len(commands') <= 1
      <3>1. CASE pc # "gone" /\ commands = <<>>
        <4>1. request \in Requests
          BY <1>16, <3>1 DEF SendCommand, Meet
        <4>2. commands' = <<request>>
          BY <1>16, <3>1 DEF SendCommand
        <4> QED BY <4>1, <4>2
      <3>2. CASE commands' = commands
        BY <3>2
      <3> QED BY <1>16, <3>1, <3>2 DEF SendCommand
    <2>3. /\ request' \in Requests \cup {"none"} /\ previous' \in Nat /\ good' \in BOOLEAN
          /\ out' \in Output /\ pending' \in Output
      <3>1. Nothing \in Output /\ Join(pending, out) \in Output
        BY OutputType
      <3>2. CASE Broken /\ pending' = Join(pending, out)
        BY <3>1, <3>2 DEF Broken, Over
      <3>3. CASE UNCHANGED <<boundary, pending>>
        BY <3>3
      <3> QED BY <1>16, <3>2, <3>3 DEF SendCommand
    <2> QED BY <1>16, <2>1, <2>2, <2>3 DEF SendCommand
  <1>17. CASE BoundaryPoll
    <2>1. TakePoll
      BY <1>17 DEF BoundaryPoll
    <2>2. output' \in Seq(Batches) /\ Len(output') <= QueueCap /\ sticky' \in BOOLEAN
          /\ snapshot' \in Snapshot
      BY <2>1, PollType
    <2>3. /\ request' \in Requests \cup {"none"} /\ previous' \in Nat /\ good' \in BOOLEAN
          /\ out' \in Output /\ pending' \in Output
          /\ caller' \in {"last", "idle", "send", "recv"}
      <3>1. Polled \in Output
        BY PollType
      <3> HIDE DEF TypeOK
      <3>2. Join(out, Polled) \in Output /\ Nothing \in Output /\ out \in Output
        BY <3>1, OutputType DEF TypeOK
      <3>3. CASE PollErrs
        BY <1>17, <3>2, <3>3 DEF BoundaryPoll, Broken, Over, TypeOK
      <3>4. CASE ~PollErrs
        BY <1>17, <3>2, <3>4 DEF BoundaryPoll, TypeOK
      <3> QED BY <3>3, <3>4
    <2> QED BY <1>17, <2>2, <2>3 DEF BoundaryPoll
  <1>18. CASE ReplyTimeout
    <2>1. caller' \in {"poll", "last", "idle"}
      BY <1>18 DEF ReplyTimeout, Broken, Await
    <2>3. /\ request' \in Requests \cup {"none"} /\ previous' \in Nat /\ good' \in BOOLEAN
          /\ out' \in Output /\ pending' \in Output
      <3>1. Nothing \in Output /\ Join(pending, out) \in Output
        BY OutputType
      <3>2. CASE Broken /\ pending' = Join(pending, out)
        BY <3>1, <3>2 DEF Broken, Over
      <3>3. CASE UNCHANGED <<boundary, pending>>
        BY <3>3
      <3> QED BY <1>18, <3>2, <3>3 DEF ReplyTimeout
    <2> QED BY <1>18, <2>1, <2>3 DEF ReplyTimeout
  <1>19. CASE ReplyArrives
    <2> DEFINE r == Head(reply)
               all == TailLast(out, JoinAll(Queued), r.out)
    <2>1. r \in Replies
      BY <1>19 DEF ReplyArrives
    <2>2. all \in Output
      BY <2>1, OutputType, CarriedType DEF TailLast, Queued, Replies
    <2>3. [all EXCEPT !.pan = {}] \in Output
      BY <2>2 DEF Output
    <2>4. out' \in Output /\ good' \in BOOLEAN /\ snapshot' \in Snapshot
      <3> HIDE DEF all, r
      <3>1. r.ok \in BOOLEAN /\ r.snap \in Snapshot
        BY <2>1 DEF Replies
      <3> QED BY <1>19, <2>2, <2>3, <3>1 DEF ReplyArrives, all, r
    <2>5. output' = <<>> /\ <<>> \in Seq(Batches) /\ Len(<<>>) <= QueueCap
      BY <1>19, PipelineAssumption, FineAssumption DEF ReplyArrives, Queued
    <2>6. reply' = <<>> /\ <<>> \in Seq(Replies) /\ Len(<<>>) <= 1
      BY <1>19 DEF ReplyArrives
    <2> HIDE DEF all, r
    <2> QED BY <1>19, <2>4, <2>5, <2>6 DEF ReplyArrives
  <1>20. CASE LastRecv
    <2>1. Head(output) \in Batches /\ output' \in Seq(Batches) /\ Len(output') <= QueueCap
      BY <1>20, CarriedHead, PipelineAssumption, FineAssumption DEF LastRecv
    <2>2. good' \in BOOLEAN /\ out' \in Output
      <3>1. Head(output).out \in Output /\ Head(output).ok \in BOOLEAN
        BY <2>1 DEF Batches
      <3> QED BY <1>20, <3>1, OutputType DEF LastRecv
    <2> QED BY <1>20, <2>1, <2>2 DEF LastRecv
  <1>21. CASE Joined
    <2>1. delivered' \in Seq(CoarsePacket) /\ out' \in Output
      BY <1>21, OutputType DEF Joined, Output
    <2> QED BY <1>21, <2>1 DEF Joined
  <1>22. CASE Resume
    <2>1. out.frames \in Seq(CoarsePacket) /\ delivered \o out.frames \in Seq(CoarsePacket)
      BY DEF Output
    <2>2. [pending EXCEPT !.pan = @ \cup out.pan] \in Output
      BY DEF Output
    <2>3. /\ out' \in Output /\ pending' \in Output /\ delivered' \in Seq(CoarsePacket)
          /\ good' \in BOOLEAN /\ request' \in Requests \cup {"none"} /\ previous' \in Nat
          /\ caller' \in {"last", "idle"} /\ pc' \in {"exit", "restart"}
      BY <1>22, <2>1, <2>2, OutputType, ZenonT(60) DEF Resume, Over
    <2> QED BY <1>22, <2>3 DEF Resume
  <1>23. CASE Poll
    <2>1. TakePoll
      BY <1>23 DEF Poll
    <2>2. output' \in Seq(Batches) /\ Len(output') <= QueueCap /\ sticky' \in BOOLEAN
          /\ snapshot' \in Snapshot
      BY <2>1, PollType
    <2>3. pending' \in Output /\ told' \in BOOLEAN /\ delivered' \in Seq(CoarsePacket)
      <3>1. Polled.frames \in Seq(CoarsePacket)
        BY PollType DEF Output
      <3>2. delivered \o Polled.frames \in Seq(CoarsePacket)
        BY <3>1
      <3>3. CASE PollErrs
        BY <1>23, <3>3, OutputType DEF Poll
      <3>4. CASE ~PollErrs
        BY <1>23, <3>2, <3>4, OutputType DEF Poll
      <3> QED BY <3>3, <3>4
    <2> QED BY <1>23, <2>2, <2>3 DEF Poll
  <1>24. ASSUME NEW c \in Requests, Ask(c) PROVE TypeOK'
    <2>1. snapshot.generation \in Nat
      BY DEF Snapshot
    <2>2. <<>> \in Seq(Replies) /\ Len(<<>>) <= 1
      OBVIOUS
    <2> QED BY <1>24, <2>1, <2>2, OutputType DEF Ask
  <1>25. CASE UNCHANGED vars
    BY <1>25 DEF vars
  <1>26. (\E c \in Changes : Ask(c)) \/ Ask("stop") => \E c \in Requests : Ask(c)
    BY DEF Requests
  <1> QED BY <1>1, <1>2, <1>3, <1>4, <1>5, <1>6, <1>7, <1>8, <1>9, <1>10, <1>11, <1>12,
             <1>13, <1>14, <1>15, <1>16, <1>17, <1>18, <1>19, <1>20, <1>21, <1>22,
             <1>23, <1>24, <1>25, <1>26
         DEF Next, Producer, Caller, Free

-----------------------------------------------------------------------------
(* The steps that go on in the fine stage, and those that leave it alone.  *)
LEMMA FineMoves ==
  ASSUME TypeOK, Local,
         HandOver \/ InSubmit \/ DrainCollect \/ FinishFine \/ Restart \/ Exit \/ Worker
  PROVE  Step \/ UNCHANGED fineVars
  <1> USE PipelineAssumption, FineAssumption
  <1>0. UNCHANGED fine => UNCHANGED fineVars
    BY DEF fine, fineVars, owner, channels, thread, state
  <1>1. CASE HandOver
    <2>1. Head(pool) \in CoarsePacket
      BY <1>1 DEF HandOver, TypeOK
    <2>2. Submit(Head(pool))
      BY <1>1 DEF HandOver
    <2> QED BY <2>1, <2>2 DEF Step
  <1>2. CASE InSubmit
    BY <1>2, CollectIs DEF InSubmit, Step, InCall
  <1>3. CASE DrainCollect
    BY <1>3, CollectIs DEF DrainCollect, Step
  <1>4. CASE FinishFine
    BY <1>4 DEF FinishFine, Step, InCall
  <1>5. CASE Restart
    BY <1>0, <1>5 DEF Restart, Step
  <1>6. CASE Exit
    BY <1>0, <1>6 DEF Exit, Step, InCall
  <1>7. CASE Worker
    BY <1>7 DEF Worker, Step
  <1> QED BY <1>1, <1>2, <1>3, <1>4, <1>5, <1>6, <1>7

StillStage == TakeCommand \/ Packet \/ SendError \/ SendCommand \/ BoundaryPoll \/ ReplyTimeout
              \/ ReplyArrives \/ LastRecv \/ Joined \/ Resume \/ Free \/ UNCHANGED vars
(* A step of the producer or the caller that is not about the fine stage   *)
(* leaves it alone.                                                        *)
LEMMA FineStays ==
  ASSUME StillStage PROVE UNCHANGED fine
  BY DEF StillStage, TakeCommand, Packet, SendError, SendCommand, BoundaryPoll, ReplyTimeout,
     ReplyArrives, LastRecv, Joined, Resume, Free, Poll, Ask, ddc, vars

(* Frames that leave the producer, and a change to the stage while the     *)
(* producer has it, disturb nothing the thread and the owner know of each  *)
(* other.                                                                  *)
LEMMA FramesTaken ==
  ASSUME Local, frames' = <<>>,
         UNCHANGED <<call, packet, failure, tx, input, rx, worker, result, framer, bank,
                     broken, submitted>>
  PROVE  Local'
  <1>1. frames' \in Seq(CoarsePacket)
    OBVIOUS
  <1>2. FineTypeOK'
    BY <1>1 DEF Local, FineTypeOK
  <1> QED BY <1>2 DEF Local, Ends, FaultKnown, LastResult, Bad, Reported

(* A change resets the stage that the producer has stopped.                *)
LEMMA ChangeLocal ==
  ASSUME TypeOK, Local, Stage, Change PROVE Local'
  <1>1. /\ UNCHANGED <<call, packet, failure, tx, input, rx, worker, result, submitted>>
        /\ call = "stopped" /\ broken' \in BOOLEAN
    BY DEF Change, Stage
  <1>2. /\ frames' \in Seq(CoarsePacket) /\ framer' \in Seq(CoarsePacket) /\ Len(framer') < FrameLen
        /\ bank' \in CoarsePacket
    <2>1. /\ frames \o framer \in Seq(CoarsePacket) /\ <<>> \in Seq(CoarsePacket) /\ Len(<<>>) < FrameLen
          /\ frames \in Seq(CoarsePacket) /\ framer \in Seq(CoarsePacket) /\ Len(framer) < FrameLen
          /\ bank \in CoarsePacket
      BY PipelineAssumption, FineAssumption DEF Local, FineTypeOK
    <2>2. [epoch |-> generation + 1, seq |-> 0] \in CoarsePacket
      BY DEF TypeOK, CoarsePacket
    <2> QED BY <2>1, <2>2 DEF Change, Rejected, Finished
  <1>3. FineTypeOK'
    BY <1>1, <1>2 DEF Local, FineTypeOK
  <1>4. worker = "none" /\ rx = <<>> /\ result = Silent /\ ~failure
    BY <1>1 DEF Local, Ends, FaultKnown
  <1>5. ~Bad(rx)
    BY <1>4 DEF Bad
  <1> QED BY <1>1, <1>3, <1>4, <1>5 DEF Local, Ends, FaultKnown, LastResult, Bad,
     Reported, Silent

(* Every step keeps what the fine stage keeps by itself.                   *)
LEMMA LocalKept ==
  ASSUME TypeOK, Local, Stage, Next \/ UNCHANGED vars PROVE Local'
  <1>1. CASE HandOver \/ InSubmit \/ DrainCollect \/ FinishFine \/ Restart \/ Exit \/ Worker
    <2>1. Step \/ UNCHANGED fineVars
      BY <1>1, FineMoves
    <2> QED BY <2>1, LocalStep
  <1>2. CASE StillStage
    <2>1. UNCHANGED fineVars
      BY <1>2, FineStays DEF fine, fineVars, owner, channels, thread, state
    <2> QED BY <2>1, LocalStep
  <1>3. CASE DrainFails \/ Emit \/ Refuse \/ Reply
    BY <1>3, FramesTaken DEF DrainFails, Emit, Refuse, Reply
  <1>4. CASE Change
    BY <1>4, ChangeLocal
  <1> QED BY <1>1, <1>2, <1>3, <1>4 DEF Next, Producer, Caller, StillStage

-----------------------------------------------------------------------------
(* Errors in the queue.                                                    *)
LEMMA FailedFacts ==
  /\ ~Failed(<<>>)
  /\ \A s \in Seq(Batches), b \in Batches : Failed(Append(s, b)) <=> Failed(s) \/ ~b.ok
  /\ \A s \in Seq(Batches) : s # <<>> /\ Failed(Tail(s)) => Failed(s)
  <1>1. ~Failed(<<>>)
    BY DEF Failed
  <1>2. ASSUME NEW s \in Seq(Batches), NEW b \in Batches
        PROVE  Failed(Append(s, b)) <=> Failed(s) \/ ~b.ok
    <2>1. /\ Len(s) \in Nat /\ Len(Append(s, b)) = Len(s) + 1 /\ Append(s, b)[Len(s) + 1] = b
          /\ \A i \in 1..Len(s) : Append(s, b)[i] = s[i]
      OBVIOUS
    <2>2. \A i : i \in 1..(Len(s) + 1) <=> i \in 1..Len(s) \/ i = Len(s) + 1
      BY <2>1
    <2> QED BY <2>1, <2>2 DEF Failed
  <1>3. ASSUME NEW s \in Seq(Batches), s # <<>>, Failed(Tail(s)) PROVE Failed(s)
    <2>1. /\ Len(s) \in Nat \ {0} /\ Len(Tail(s)) = Len(s) - 1
          /\ \A i \in 1..(Len(s) - 1) : Tail(s)[i] = s[i + 1]
      BY <1>3
    <2>2. PICK i \in 1..(Len(s) - 1) : ~Tail(s)[i].ok
      BY <1>3, <2>1 DEF Failed
    <2>3. i + 1 \in 1..Len(s) /\ ~s[i + 1].ok
      BY <2>1, <2>2
    <2> QED BY <2>3 DEF Failed
  <1> QED BY <1>1, <1>2, <1>3

(* A poll finds a failure only where there is one, and leaves none that    *)
(* was not there.                                                          *)
LEMMA FailedPoll ==
  ASSUME TypeOK, TakePoll
  PROVE  /\ sticky' => sticky \/ Failed(output) \/ pc = "gone"
         /\ Failed(output') => Failed(output)
  <1> DEFINE rest == IF sticky THEN output ELSE SubSeq(output, Len(Taken) + 1, Len(output))
  <1>1. output \in Seq(Batches) /\ pending \in Output /\ sticky \in BOOLEAN
    BY DEF TypeOK
  <1>2. /\ \A i \in 1..Len(Taken) : Taken[i] = output[i]
        /\ Len(Taken) <= Len(output) /\ Taken \in Seq(Batches)
        /\ ~sticky => \A i \in 1..Len(rest) :
                        i + Len(Taken) \in 1..Len(output) /\ rest[i] = output[i + Len(Taken)]
    BY <1>1, TakenIs
  <1>3. output' = rest /\ sticky' = PollFails
    BY DEF TakePoll
  <1> HIDE DEF rest
  <1>4. \A i \in 1..Len(Taken) : i \in 1..Len(output)
    <2>1. Len(Taken) \in Nat /\ Len(output) \in Nat
      BY <1>1, <1>2
    <2> QED BY <1>2, <2>1
  <1>5. sticky' => sticky \/ Failed(output) \/ pc = "gone"
    BY <1>2, <1>3, <1>4 DEF PollFails, Failed
  <1>6. Failed(output') => Failed(output)
    <2>1. CASE sticky
      BY <1>3, <2>1 DEF rest
    <2>2. CASE ~sticky
      BY <1>2, <1>3, <2>2, SMTT(40) DEF Failed
    <2> QED BY <2>1, <2>2
  <1> QED BY <1>5, <1>6

(* Every step keeps where the producer and the fine stage are.             *)
LEMMA StageStep ==
  ASSUME TypeOK, Local, Stage, Meet, Next \/ UNCHANGED vars
  PROVE  Stage'
  <1> USE DEF Stage, fine, source, ddc, control, boundary, held, history
  <1>1. CASE TakeCommand
    BY <1>1 DEF TakeCommand
  <1>2. CASE Packet
    <2>1. CASE Fail /\ UNCHANGED source
      BY <1>2, <2>1 DEF Packet, Fail
    <2>2. CASE pc' = "drain"
      BY <1>2, <2>2 DEF Packet
    <2>3. CASE pc' = "loop" /\ UNCHANGED source
      BY <1>2, <2>3 DEF Packet
    <2> QED BY <1>2, <2>1, <2>2, <2>3 DEF Packet
  <1>3. CASE HandOver
    BY <1>3 DEF HandOver, Submit, Turn, state
  <1>4. CASE InSubmit
    <2>1. /\ call \in {"collect", "try"} /\ call' \in {"error", "idle", "collect", "try"}
          /\ UNCHANGED <<broken, framer>>
      BY <1>4 DEF InSubmit, SubmitCollect, Collect, TrySend, Turn, state
    <2>2. pc = "drain" \/ pc \in {"failed", "exit", "gone"}
      BY <2>1 DEF TypeOK
    <2> QED BY <1>4, <2>1, <2>2 DEF InSubmit
  <1>5. CASE DrainCollect
    <2>1. call = "idle" /\ call' \in {"error", "idle"} /\ UNCHANGED <<broken, framer>>
      BY <1>5 DEF DrainCollect, Collect, state
    <2>2. Len(pool) \in Nat /\ (Len(pool) <= 0 => pool = <<>>)
      <3>1. pool \in Seq(CoarsePacket)
        BY DEF TypeOK
      <3> QED BY <3>1, EmptySeq
    <2>3. cmd = "none" => Len(pool) <= PoolHold
      BY <1>5 DEF DrainCollect, Drained
    <2>4. cmd # "none" => pool = <<>>
      BY <1>5, <2>2 DEF DrainCollect, Drained
    <2> QED BY <1>5, <2>1, <2>3, <2>4 DEF DrainCollect
  <1>6. CASE DrainFails
    <2>1. pc' = IF cmd = "none" THEN "failed" ELSE "refuse"
      BY <1>6 DEF DrainFails, Fail
    <2> QED BY <1>6, <2>1 DEF DrainFails
  <1>7. CASE Emit
    <2>1. Failed(output') => Failed(output)
      <3> DEFINE b == Batch([frames |-> frames, pan |-> pan])
      <3>1. b \in Batches /\ b.ok /\ output \in Seq(Batches)
        BY OutputType, DdcOutput DEF TypeOK
      <3>2. output' = output \/ output' = Append(output, b)
        BY <1>7 DEF Emit
      <3> HIDE DEF b
      <3> QED BY <3>1, <3>2, FailedFacts
    <2> QED BY <1>7, <2>1 DEF Emit
  <1>8. CASE SendError
    <2>1. pc' = "exit" /\ pc = "failed" /\ UNCHANGED <<ddc, control, held>>
      BY <1>8 DEF SendError
    <2> QED BY <2>1
  <1>9. CASE FinishFine
    <2>1. call \in {"idle", "finish"} /\ call' \in {"finish", "lost", "stopped"}
      BY <1>9 DEF FinishFine, Finish, FinishRecv, FinishJoin
    <2>2. call' = "stopped" => ~broken'
      <3>1. Step \/ UNCHANGED fineVars
        BY <1>9, FineMoves
      <3>2. call # "stopped"
        BY <2>1
      <3> QED BY <3>1, <3>2, GivenBack DEF FailureReported
    <2>3. pc' = IF call' = "stopped" THEN "change"
                ELSE IF call' = "lost" THEN "refuse" ELSE "finish"
      BY <1>9, <2>1 DEF FinishFine
    <2>4. UNCHANGED <<source, control, commands, output, reply, shared, caller, boundary, held,
                      history>>
          /\ pc = "finish"
      BY <1>9 DEF FinishFine
    <2> QED BY <2>1, <2>2, <2>3, <2>4
  <1>10. CASE Refuse
    BY <1>10 DEF Refuse
  <1>11. CASE Change
    <2>1. /\ cmd = "stop" => doomed' /\ (verdict' => framer' = <<>>)
          /\ verdict' => ~broken'
          /\ UNCHANGED <<pool, call>>
      BY <1>11 DEF Change, Finished, FinishesTail, Rejected
    <2>2. UNCHANGED <<cmd, output, sticky>> /\ pc = "change" /\ pc' = "reply"
      BY <1>11 DEF Change
    <2> QED BY <2>1, <2>2
  <1>12. CASE Reply
    BY <1>12 DEF Reply
  <1>13. CASE Restart
    <2>1. CASE pc' = "failed" /\ UNCHANGED fine
      BY <1>13, <2>1 DEF Restart
    <2>2. CASE Start /\ pc' \in {"loop", "packet"}
      <3>1. UNCHANGED <<source, control, output, held>> /\ pc = "restart"
              /\ Len(pool') <= PoolHold
        BY <1>13, <2>2, PipelineAssumption, FineAssumption DEF Restart
      <3> QED BY <2>2, <3>1 DEF Start, state
    <2> QED BY <1>13, <2>1, <2>2 DEF Restart
  <1>14. CASE Exit
    <2>1. pc = "exit" /\ pc' \in {"exit", "gone"} /\ UNCHANGED <<source, control, output, held>>
      BY <1>14 DEF Exit
    <2> QED BY <2>1
  <1>15. CASE Worker
    <2>1. UNCHANGED <<call, frames>>
      BY <1>15 DEF Worker, Thread, Deliver, Send, HangUp, owner
    <2>2. UNCHANGED <<pc, source, control, output, held>>
      BY <1>15 DEF Worker
    <2>3. pc \in {"change", "reply"} => FALSE
      BY <1>15 DEF Worker, Thread, Deliver, Send, HangUp, Local, Ends
    <2> QED BY <2>1, <2>2, <2>3
  <1>16. CASE SendCommand
    BY <1>16 DEF SendCommand
  <1>17. CASE BoundaryPoll
    <2>1. /\ sticky' => sticky \/ Failed(output) \/ pc = "gone"
          /\ Failed(output') => Failed(output)
      BY <1>17, FailedPoll DEF BoundaryPoll
    <2> QED BY <1>17, <2>1 DEF BoundaryPoll
  <1>18. CASE ReplyTimeout
    BY <1>18 DEF ReplyTimeout
  <1>19. CASE ReplyArrives
    <2>1. ~Failed(output')
      <3>1. output' = <<>>
        BY <1>19 DEF ReplyArrives, Queued, TypeOK
      <3> QED BY <3>1 DEF Failed
    <2>2. UNCHANGED <<ddc, pc, control, sticky>>
      BY <1>19 DEF ReplyArrives
    <2> QED BY <2>1, <2>2
  <1>20. CASE LastRecv
    <2>1. Failed(output') => Failed(output)
      BY <1>20, FailedFacts DEF LastRecv, TypeOK
    <2> QED BY <1>20, <2>1 DEF LastRecv
  <1>21. CASE Joined
    BY <1>21 DEF Joined
  <1>22. CASE Resume
    BY <1>22 DEF Resume
  <1>23. CASE Poll
    <2>1. /\ sticky' => sticky \/ Failed(output) \/ pc = "gone"
          /\ Failed(output') => Failed(output)
      BY <1>23, FailedPoll DEF Poll
    <2> QED BY <1>23, <2>1 DEF Poll
  <1>24. ASSUME NEW c \in Requests, Ask(c) PROVE Stage'
    BY <1>24 DEF Ask
  <1>25. CASE UNCHANGED vars
    BY <1>25 DEF vars
  <1>26. (\E c \in Changes : Ask(c)) \/ Ask("stop") => \E c \in Requests : Ask(c)
    BY SMTT(40) DEF Requests
  <1> QED BY <1>1, <1>2, <1>3, <1>4, <1>5, <1>6, <1>7, <1>8, <1>9, <1>10, <1>11, <1>12,
             <1>13, <1>14, <1>15, <1>16, <1>17, <1>18, <1>19, <1>20, <1>21, <1>22,
             <1>23, <1>24, <1>25, <1>26
         DEF Next, Producer, Caller, Free

(* Every step keeps where the caller and the producer meet.                *)
LEMMA MeetStep ==
  ASSUME TypeOK, Local, Stage, Meet, Ended, Next \/ UNCHANGED vars
  PROVE  Meet'
  <1> USE DEF Meet, Answered, fine, source, ddc, control, boundary, held, history
  <1>1. CASE TakeCommand
    <2>1. CASE commands = <<>>
      BY <1>1, <2>1 DEF TakeCommand
    <2>2. CASE commands # <<>>
      <3>1. pc = "loop" /\ cmd' = Head(commands) /\ commands' = <<>> /\ pc' = "drain"
            /\ UNCHANGED <<ddc, doomed, output, reply, caller, boundary, held>>
        BY <1>1, <2>2 DEF TakeCommand
      <3>2. commands = <<request>> /\ cmd = "none" /\ caller \in {"poll", "recv"}
        BY <2>2, <3>1
      <3> QED BY <3>1, <3>2
    <2> QED BY <2>1, <2>2
  <1>2. CASE Packet
    <2>1. /\ pc = "packet" /\ pc' \in {"failed", "drain", "loop"}
          /\ UNCHANGED <<call, broken, framer, cmd, doomed, commands, output, reply, caller,
                         boundary, held>>
      BY <1>2 DEF Packet, Fail
    <2> QED BY <2>1
  <1>3. CASE HandOver
    <2>1. pc = "drain"
          /\ UNCHANGED <<pc, cmd, doomed, commands, output, reply, caller, boundary, held>>
      BY <1>3 DEF HandOver
    <2> QED BY <2>1
  <1>4. CASE InSubmit
    <2>1. call \in {"collect", "try"}
          /\ UNCHANGED <<pc, cmd, doomed, commands, output, reply, caller, boundary, held>>
      BY <1>4 DEF InSubmit, SubmitCollect, TrySend
    <2>2. pc # "parked"
      BY <2>1 DEF Stage
    <2> QED BY <2>1, <2>2
  <1>5. CASE DrainCollect
    <2>1. pc = "drain" /\ pc' \in {"drain", "emit", "finish"}
          /\ UNCHANGED <<cmd, doomed, commands, output, reply, caller, boundary, held>>
      BY <1>5 DEF DrainCollect
    <2> QED BY <2>1
  <1>6. CASE DrainFails
    <2>1. pc = "drain" /\ pc' \in {"failed", "refuse"}
          /\ UNCHANGED <<cmd, doomed, commands, output, reply, caller, boundary, held>>
      BY <1>6 DEF DrainFails, Fail
    <2> QED BY <2>1
  <1>7. CASE Emit
    <2>1. pc = "emit" /\ pc' = "loop"
          /\ UNCHANGED <<cmd, doomed, commands, reply, caller, boundary, held>>
      BY <1>7 DEF Emit
    <2> QED BY <2>1
  <1>8. CASE SendError
    <2>1. pc = "failed" /\ pc' = "exit"
          /\ UNCHANGED <<cmd, doomed, commands, reply, caller, boundary, held>>
      BY <1>8 DEF SendError
    <2> QED BY <2>1
  <1>9. CASE FinishFine
    <2>1. pc = "finish" /\ pc' \in {"finish", "refuse", "change"}
          /\ UNCHANGED <<cmd, doomed, commands, output, reply, caller, boundary, held>>
      BY <1>9 DEF FinishFine
    <2> QED BY <2>1
  <1>10. CASE Refuse
    <2>1. /\ reply' # <<>> /\ reply'[1].ok = FALSE
          /\ pc = "refuse" /\ pc' = "parked" /\ doomed'
          /\ UNCHANGED <<cmd, commands, output, caller, boundary, held>>
      BY <1>10 DEF Refuse
    <2>2. cmd = request /\ cmd # "none" /\ caller \in {"poll", "recv"}
      BY <2>1 DEF Stage
    <2> QED BY <2>1, <2>2
  <1>11. CASE Change
    <2>1. /\ pc = "change" /\ pc' = "reply"
          /\ UNCHANGED <<cmd, commands, output, reply, caller, boundary, held>>
      BY <1>11 DEF Change
    <2> QED BY <2>1
  <1>12. CASE Reply
    <2>1. /\ reply' # <<>> /\ reply'[1].ok = verdict
          /\ pc = "reply" /\ pc' = "parked"
          /\ UNCHANGED <<call, broken, framer, pool, cmd, doomed, commands, output, caller,
                         boundary, held>>
      BY <1>12 DEF Reply
    <2>2. cmd = request /\ cmd # "none" /\ caller \in {"poll", "recv"}
      BY <2>1 DEF Stage
    <2>3. /\ call = "stopped" /\ pool = <<>> /\ (verdict => ~broken)
          /\ cmd = "stop" => doomed /\ (verdict => framer = <<>>)
      BY <2>1 DEF Stage
    <2> QED BY <2>1, <2>2, <2>3
  <1>13. CASE Restart
    <2>1. pc = "restart" /\ pc' \in {"failed", "loop", "packet"}
          /\ UNCHANGED <<cmd, doomed, commands, output, reply, caller, boundary, held>>
      BY <1>13 DEF Restart
    <2> QED BY <2>1 DEF Stage
  <1>14. CASE Exit
    <2>1. pc = "exit" /\ pc' \in {"exit", "gone"} /\ (commands' = commands \/ commands' = <<>>)
          /\ UNCHANGED <<cmd, doomed, output, reply, caller, boundary, held>>
      BY <1>14 DEF Exit
    <2> QED BY <2>1
  <1>15. CASE Worker
    <2>1. UNCHANGED <<pc, pool, cmd, doomed, commands, output, reply, caller, boundary, held>>
      BY <1>15 DEF Worker
    <2>2. call # "stopped" /\ call' = call
      BY <1>15 DEF Worker, Thread, Deliver, Send, HangUp, owner,
         Local, Ends
    <2> QED BY <2>1, <2>2
  <1>16. CASE SendCommand
    <2>1. caller = "send" /\ reply = <<>> /\ cmd = "none" /\ good /\ request # "none"
            /\ pc # "parked"
          /\ UNCHANGED <<ddc, pc, cmd, doomed, output, reply>>
      BY <1>16 DEF SendCommand
    <2>2. CASE pc = "gone" /\ Broken /\ pending' = Join(pending, out) /\ UNCHANGED commands
      BY <2>1, <2>2, OutputType DEF Broken, Over
    <2>3. CASE commands' = <<request>> /\ caller' = "poll" /\ UNCHANGED <<boundary, pending>>
      BY <2>1, <2>3
    <2>4. CASE caller' = "full" /\ commands # <<>> /\ UNCHANGED <<commands, boundary, pending>>
      BY <2>1, <2>4
    <2> QED BY <1>16, <2>2, <2>3, <2>4 DEF SendCommand, Await
  <1>17. CASE BoundaryPoll
    <2>1. caller \in {"full", "poll"} /\ good /\ request # "none"
          /\ UNCHANGED <<ddc, pc, cmd, doomed, commands, reply>>
      BY <1>17 DEF BoundaryPoll
    <2>2. CASE PollErrs
      <3>1. pc \in {"exit", "gone"}
        <4>1. sticky' /\ (sticky' => sticky \/ Failed(output) \/ pc = "gone")
          BY <1>17, <2>2, FailedPoll DEF BoundaryPoll, TakePoll, PollErrs, Reports
        <4> QED BY <4>1 DEF Stage
      <3>2. cmd = "none" /\ reply = <<>>
        BY <3>1 DEF Stage
      <3>3. Broken /\ pending' = out
        BY <1>17, <2>2 DEF BoundaryPoll
      <3> QED BY <2>1, <3>1, <3>2, <3>3, OutputType DEF Broken, Over
    <2>3. CASE ~PollErrs
      <3>1. /\ pending' = Nothing /\ UNCHANGED <<request, previous, good>>
            /\ caller' = IF caller = "full" THEN "send" ELSE "recv"
        BY <1>17, <2>3 DEF BoundaryPoll
      <3>2. pending'.frames = <<>>
        BY <3>1, OutputType
      <3> QED BY <2>1, <3>1, <3>2
    <2> QED BY <2>2, <2>3
  <1>18. CASE ReplyTimeout
    <2>1. caller = "recv" /\ reply = <<>> /\ good /\ request # "none"
          /\ UNCHANGED <<ddc, pc, cmd, doomed, commands, output, reply>>
      BY <1>18 DEF ReplyTimeout
    <2>2. CASE pc = "gone" /\ Broken /\ pending' = Join(pending, out)
      <3>1. cmd = "none"
        BY <2>2 DEF Stage
      <3> QED BY <2>1, <2>2, <3>1, OutputType DEF Broken, Over
    <2>3. CASE caller' = "poll" /\ UNCHANGED <<boundary, pending>>
      BY <2>1, <2>3
    <2> QED BY <1>18, <2>2, <2>3 DEF ReplyTimeout, Await
  <1>19. CASE ReplyArrives
    <2>1. /\ caller = "recv" /\ reply # <<>> /\ caller' = "resume" /\ reply' = <<>>
          /\ good' = Head(reply).ok
          /\ UNCHANGED <<ddc, pc, cmd, doomed, commands, request, previous, pending>>
      BY <1>19 DEF ReplyArrives
    <2>2. output' = <<>>
      BY <1>19 DEF ReplyArrives, Queued, TypeOK
    <2>3. Head(reply) = reply[1]
      BY <2>1 DEF TypeOK
    <2>4. pc = "parked" /\ Answered(reply[1].ok) /\ pending.frames = <<>> /\ commands = <<>>
      BY <2>1 DEF Stage
    <2> QED BY <2>1, <2>2, <2>3, <2>4
  <1>20. CASE LastRecv
    <2>1. /\ caller = "last" /\ output # <<>>
          /\ UNCHANGED <<ddc, pc, cmd, doomed, commands, reply, caller, request, pending>>
      BY <1>20 DEF LastRecv
    <2>2. ~good
      BY <2>1 DEF Ended
    <2>3. out' = Nothing /\ ~good'
      BY <1>20, <2>2 DEF LastRecv
    <2>4. out'.frames = <<>>
      BY <2>3, OutputType
    <2> QED BY <2>1, <2>3, <2>4
  <1>21. CASE Joined
    <2>1. out'.frames = <<>>
      BY <1>21, OutputType DEF Joined
    <2> QED BY <1>21, <2>1 DEF Joined
  <1>22. CASE Resume
    <2>1. /\ caller = "resume" /\ pc = "parked" /\ pc' = IF doomed THEN "exit" ELSE "restart"
          /\ cmd' = "none" /\ request' = "none" /\ reply = <<>> /\ pending.frames = <<>>
          /\ commands = <<>> /\ UNCHANGED <<commands, reply>>
      <3>1. commands = <<>>
        BY <1>22 DEF Resume
      <3> QED BY <1>22, <3>1 DEF Resume, Over
    <2>2. CASE request = "stop"
      <3>1. doomed
        BY <2>1, <2>2
      <3>2. /\ caller' = "last"
            /\ IF good THEN UNCHANGED <<out, pending>>
               ELSE pending' = Join(pending, out) /\ out' = Nothing
        BY <1>22, <2>2 DEF Resume
      <3>3. out'.frames = <<>> \/ pending'.frames = <<>>
        BY <2>1, <3>2, OutputType
      <3> QED BY <2>1, <3>1, <3>2, <3>3
    <2>3. CASE request # "stop"
      <3>1. caller' = "idle" /\ out' = Nothing /\ good' = TRUE
        BY <1>22, <2>3 DEF Resume
      <3>2. out'.frames = <<>>
        BY <3>1, OutputType
      <3> QED BY <2>1, <3>1, <3>2
    <2> QED BY <2>2, <2>3
  <1>23. CASE Poll
    <2>1. /\ caller = "idle" /\ pending' = Nothing
          /\ UNCHANGED <<ddc, pc, cmd, doomed, commands, reply, caller, boundary>>
      BY <1>23 DEF Poll
    <2>2. pending'.frames = <<>>
      BY <2>1, OutputType
    <2> QED BY <2>1, <2>2
  <1>24. ASSUME NEW c \in Requests, Ask(c) PROVE Meet'
    <2>1. /\ caller = "idle" /\ caller' = "send" /\ request' = c /\ out' = Nothing
               /\ reply' = <<>>
          /\ UNCHANGED <<ddc, pc, cmd, doomed, commands, output, good, pending>>
      BY <1>24 DEF Ask
    <2>2. c # "none" /\ out'.frames = <<>> /\ cmd = "none" /\ pc # "parked"
      BY <1>24, <2>1, OutputType, PipelineAssumption, FineAssumption DEF Requests
    <2> QED BY <2>1, <2>2
  <1>25. CASE UNCHANGED vars
    BY <1>25 DEF vars
  <1>26. (\E c \in Changes : Ask(c)) \/ Ask("stop") => \E c \in Requests : Ask(c)
    BY DEF Requests
  <1> QED BY <1>1, <1>2, <1>3, <1>4, <1>5, <1>6, <1>7, <1>8, <1>9, <1>10, <1>11, <1>12,
             <1>13, <1>14, <1>15, <1>16, <1>17, <1>18, <1>19, <1>20, <1>21, <1>22,
             <1>23, <1>24, <1>25, <1>26
         DEF Next, Producer, Caller, Free

-----------------------------------------------------------------------------
(* Sequences of packets: concatenation, and first parts.                   *)
Piece == Seq(CoarsePacket)
(* Concatenation of sequences of packets is associative and the empty one  *)
(* is neutral.                                                             *)
LEMMA Pieces ==
  /\ \A a, b, c \in Piece : (a \o b) \o c = a \o (b \o c)
  /\ \A a, b \in Piece : a \o b \in Piece
  /\ \A a \in Piece : a \o <<>> = a /\ <<>> \o a = a
  /\ <<>> \in Piece
  /\ \A a \in Piece, p \in CoarsePacket :
       <<p>> \in Piece /\ Append(a, p) = a \o <<p>> /\ Append(a, p) \in Piece
  <1>1. \A a, b, c \in Piece : (a \o b) \o c = a \o (b \o c)
    BY Associative DEF Piece
  <1>2. \A a, b \in Piece : a \o b \in Piece
    BY DEF Piece
  <1>3. \A a \in Piece : a \o <<>> = a /\ <<>> \o a = a
    BY ConcatEmptySeq DEF Piece
  <1>4. \A a \in Piece, p \in CoarsePacket :
          <<p>> \in Piece /\ Append(a, p) = a \o <<p>> /\ Append(a, p) \in Piece
    BY AppendIsConcat DEF Piece
  <1>5. <<>> \in Piece
    BY DEF Piece
  <1> QED BY <1>1, <1>2, <1>3, <1>4, <1>5

(* Concatenation as an operation of its own, for equations.                *)
Cat(a, b) == a \o b
FiveC(d, p, o, j, r) == Cat(Cat(Cat(Cat(d, p), o), j), r)
(* The same facts about that operation.                                    *)
LEMMA Monoid ==
  /\ \A a, b, c \in Piece : Cat(Cat(a, b), c) = Cat(a, Cat(b, c))
  /\ \A a, b \in Piece : Cat(a, b) \in Piece
  /\ \A a \in Piece : Cat(a, <<>>) = a /\ Cat(<<>>, a) = a
  /\ <<>> \in Piece
  <1>1. \A a, b, c \in Piece : Cat(Cat(a, b), c) = Cat(a, Cat(b, c))
    BY Pieces, Zenon DEF Cat
  <1>2. \A a, b \in Piece : Cat(a, b) \in Piece
    BY Pieces, Zenon DEF Cat
  <1>3. \A a \in Piece : Cat(a, <<>>) = a /\ Cat(<<>>, a) = a
    BY Pieces, Zenon DEF Cat
  <1> QED BY <1>1, <1>2, <1>3, Pieces

(* A part of a first part is one, and so is a first part of what has grown.*)
LEMMA StartsFacts ==
  /\ \A s, x, t \in Piece : Starts(s \o x, t) => Starts(s, t)
  /\ \A s, t, q \in Piece : Starts(s, t) => Starts(s, t \o q)
  /\ \A s, x \in Piece : Starts(s, s \o x) /\ Starts(s, s)
  <1>1. ASSUME NEW s \in Piece, NEW x \in Piece, NEW t \in Piece, Starts(s \o x, t)
        PROVE  Starts(s, t)
    <2>1. PICK r \in Piece : t = (s \o x) \o r
      BY <1>1 DEF Starts, Piece
    <2>2. Cat(s, Cat(x, r)) = Cat(Cat(s, x), r) /\ Cat(x, r) \in Piece
      BY Monoid
    <2>3. t = s \o (x \o r) /\ x \o r \in Piece
      BY <2>1, <2>2 DEF Cat
    <2> QED BY <2>3 DEF Starts, Piece
  <1>2. ASSUME NEW s \in Piece, NEW t \in Piece, NEW q \in Piece, Starts(s, t)
        PROVE  Starts(s, t \o q)
    <2>1. PICK r \in Piece : t = s \o r
      BY <1>2 DEF Starts, Piece
    <2>2. Cat(s, Cat(r, q)) = Cat(Cat(s, r), q) /\ Cat(r, q) \in Piece
      BY Monoid
    <2>3. t \o q = s \o (r \o q) /\ r \o q \in Piece
      BY <2>1, <2>2 DEF Cat
    <2> QED BY <2>3 DEF Starts, Piece
  <1>3. ASSUME NEW s \in Piece, NEW x \in Piece PROVE Starts(s, s \o x) /\ Starts(s, s)
    <2>1. s = s \o <<>> /\ <<>> \in Piece
      BY Pieces
    <2> QED BY <2>1 DEF Starts, Piece
  <1> QED BY <1>1, <1>2, <1>3

(* What the five places hold is a sequence of packets.                     *)
LEMMA FiveType ==
  \A d, p, o, j, r \in Piece : Five(d, p, o, j, r) \in Piece
  BY Pieces DEF Five
(* Frames sent are added at the end.                                       *)
LEMMA FiveEmit ==
  ASSUME NEW d \in Piece, NEW p \in Piece, NEW o \in Piece, NEW j \in Piece, NEW f \in Piece
  PROVE  Five(d, p, o, Cat(j, f), <<>>) = Cat(Five(d, p, o, j, <<>>), f)
  <1>1. FiveC(d, p, o, Cat(j, f), <<>>) = Cat(FiveC(d, p, o, j, <<>>), f)
    <2> DEFINE q == Cat(Cat(d, p), o)
    <2>1. q \in Piece /\ Cat(q, j) \in Piece
      BY Monoid
    <2> HIDE DEF q
    <2>2. Cat(q, Cat(j, f)) = Cat(Cat(q, j), f) /\ Cat(Cat(q, j), f) \in Piece
      BY <2>1, Monoid
    <2>3. Cat(Cat(Cat(q, j), f), <<>>) = Cat(Cat(q, j), f) /\ Cat(Cat(q, j), <<>>) = Cat(q, j)
      BY <2>1, <2>2, Monoid
    <2> QED BY <2>2, <2>3 DEF FiveC, q
  <1> QED BY <1>1 DEF FiveC, Five, Cat
(* Frames replied are added at the end.                                    *)
LEMMA FiveAnswer ==
  ASSUME NEW d \in Piece, NEW p \in Piece, NEW o \in Piece, NEW j \in Piece, NEW f \in Piece
  PROVE  Five(d, p, o, j, f) = Cat(Five(d, p, o, j, <<>>), f)
  <1>1. FiveC(d, p, o, j, f) = Cat(FiveC(d, p, o, j, <<>>), f)
    <2> DEFINE q == Cat(Cat(Cat(d, p), o), j)
    <2>1. q \in Piece
      BY Monoid
    <2> HIDE DEF q
    <2>2. Cat(q, f) = Cat(Cat(q, <<>>), f)
      BY <2>1, Monoid
    <2> QED BY <2>2 DEF FiveC, q
  <1> QED BY <1>1 DEF FiveC, Five, Cat
(* A poll gives the caller what is pending and what it takes.              *)
LEMMA FivePoll ==
  ASSUME NEW d \in Piece, NEW p \in Piece, NEW t \in Piece, NEW j \in Piece, NEW r \in Piece
  PROVE  Five(d \o (p \o t), <<>>, <<>>, j, r) = Five(d, p, <<>>, t \o j, r)
  <1>1. FiveC(Cat(d, Cat(p, t)), <<>>, <<>>, j, r) = FiveC(d, p, <<>>, Cat(t, j), r)
    BY Monoid DEF FiveC
  <1> QED BY <1>1 DEF FiveC, Five, Cat
(* A poll in a boundary gathers what is pending and what it takes.         *)
LEMMA FiveGather ==
  ASSUME NEW d \in Piece, NEW p \in Piece, NEW o \in Piece,
         NEW t \in Piece, NEW j \in Piece, NEW r \in Piece, o = <<>> \/ p = <<>>
  PROVE  Five(d, <<>>, o \o (p \o t), j, r) = Five(d, p, o, t \o j, r)
  <1>1. FiveC(d, <<>>, Cat(o, Cat(p, t)), j, r) = FiveC(d, p, o, Cat(t, j), r)
    <2>1. Cat(o, Cat(p, t)) = Cat(Cat(p, o), t)
      <3>1. CASE o = <<>>
        <4>1. Cat(p, t) \in Piece
          BY Monoid
        <4>2. Cat(<<>>, Cat(p, t)) = Cat(p, t) /\ Cat(p, <<>>) = p
          BY <4>1, Monoid
        <4> QED BY <3>1, <4>2
      <3>2. CASE p = <<>>
        <4>1. Cat(<<>>, t) = t /\ Cat(<<>>, o) = o
          BY Monoid
        <4> QED BY <3>2, <4>1
      <3> QED BY <3>1, <3>2
    <2>2. Cat(p, o) \in Piece
      BY Monoid
    <2>3. Cat(Cat(d, <<>>), Cat(Cat(p, o), t)) = Cat(Cat(Cat(d, p), o), t)
      BY <2>2, Monoid
    <2>4. Cat(Cat(Cat(Cat(d, p), o), t), j) = Cat(Cat(Cat(d, p), o), Cat(t, j))
      BY Monoid
    <2> QED BY <2>1, <2>3, <2>4 DEF FiveC
  <1> QED BY <1>1 DEF FiveC, Five, Cat
(* A boundary that failed leaves what it gathered pending.                 *)
LEMMA FiveBroken ==
  ASSUME NEW d \in Piece, NEW p \in Piece, NEW o \in Piece, NEW j \in Piece, NEW r \in Piece
  PROVE  Five(d, p \o o, <<>>, j, r) = Five(d, p, o, j, r)
  <1>1. FiveC(d, Cat(p, o), <<>>, j, r) = FiveC(d, p, o, j, r)
    BY Monoid DEF FiveC
  <1> QED BY <1>1 DEF FiveC, Five, Cat
(* The queue and the answer go to the boundary.                            *)
LEMMA FiveReply ==
  ASSUME NEW d \in Piece, NEW p \in Piece, NEW o \in Piece, NEW j \in Piece, NEW r \in Piece
  PROVE  Five(d, p, (o \o j) \o r, <<>>, <<>>) = Five(d, p, o, j, r)
  <1>1. FiveC(d, p, Cat(Cat(o, j), r), <<>>, <<>>) = FiveC(d, p, o, j, r)
    BY Monoid DEF FiveC
  <1> QED BY <1>1 DEF FiveC, Five, Cat
(* The boundary's frames go to the caller.                                 *)
LEMMA FiveHand ==
  ASSUME NEW d \in Piece, NEW o \in Piece, NEW j \in Piece, NEW r \in Piece
  PROVE  Five(d \o o, <<>>, <<>>, j, r) = Five(d, <<>>, o, j, r)
  <1>1. FiveC(Cat(d, o), <<>>, <<>>, j, r) = FiveC(d, <<>>, o, j, r)
    BY Monoid DEF FiveC
  <1> QED BY <1>1 DEF FiveC, Five, Cat

(* The sequences of the invariant are pieces.                              *)
LEMMA PieceTypes ==
  ASSUME TypeOK
  PROVE  /\ delivered \in Piece /\ pending.frames \in Piece /\ out.frames \in Piece
         /\ Carried(output) \in Piece /\ Replied \in Piece /\ Given \in Piece
         /\ Given = Five(delivered, pending.frames, out.frames, Carried(output), Replied)
         /\ accepted \in Piece /\ submitted \in Piece /\ pool \in Piece
         /\ frames \in Piece /\ framer \in Piece
  <1>1. /\ delivered \in Piece /\ pending.frames \in Piece /\ out.frames \in Piece
        /\ accepted \in Piece /\ submitted \in Piece /\ pool \in Piece
        /\ frames \in Piece /\ framer \in Piece
    BY DEF TypeOK, FineTypeOK, Output, Piece
  <1>2. Carried(output) \in Piece
    BY CarriedType DEF TypeOK, Piece
  <1>3. Replied \in Piece
    <2>1. reply # <<>> => reply[1] \in Replies
      BY DEF TypeOK
    <2> QED BY <2>1, Pieces DEF Replied, Replies, Output, Piece
  <1> QED BY <1>1, <1>2, <1>3, FiveType DEF Given, Carried

(* What the fine stage holds: the caller's frames first, then what the     *)
(* channel carries; at rest, only frames and the partial frame.            *)
LEMMA PlacesTypes ==
  ASSUME TypeOK, Local
  PROVE  /\ Ready \in Piece /\ Places \in Piece
         /\ \E x \in Piece : Places = Ready \o x
         /\ \E y, z \in Piece : Places = frames \o y /\ Ready = frames \o z
                                /\ z = Results(rx)
                                /\ y = Six(<<>>, Results(rx), result.frames, framer,
                                     input, Handing)
         /\ call = "stopped" => Ready = frames /\ Places = frames \o framer
  <1> DEFINE R == Results(rx)
             x == result.frames
             h == Handing
  <1>1. frames \in Piece /\ framer \in Piece /\ input \in Piece /\ x \in Piece
    BY DEF TypeOK, FineTypeOK, Piece, Result
  <1>2. R \in Piece
    <2>1. rx \in Seq(Result)
      BY DEF Local, FineTypeOK
    <2> QED BY <2>1, ResultsType DEF Piece
  <1>3. h \in Piece
    BY Pieces DEF Handing, TypeOK, FineTypeOK
  <1>4. Ready = frames \o R /\ Places = ((((frames \o R) \o x) \o framer) \o input) \o h
    BY DEF Ready, Places, Six
  <1>5. Six(<<>>, R, x, framer, input, h) = ((((<<>> \o R) \o x) \o framer) \o input) \o h
    BY DEF Six
  <1>6. call = "stopped" => R = <<>> /\ x = <<>> /\ input = <<>> /\ h = <<>>
    <2>1. call = "stopped" => rx = <<>> /\ input = <<>> /\ result = Silent
      BY DEF Local, Ends
    <2> QED BY <2>1, ResultsEmpty DEF Silent, Handing
  <1> HIDE DEF R, x, h
  <1>7. \E u \in Piece : \A a \in Piece : (((a \o x) \o framer) \o input) \o h = a \o u
    <2> DEFINE u == Cat(Cat(Cat(x, framer), input), h)
    <2>1. u \in Piece
      BY <1>1, <1>3, Monoid
    <2>2. ASSUME NEW a \in Piece PROVE Cat(Cat(Cat(Cat(a, x), framer), input), h) = Cat(a, u)
      BY <1>1, <1>3, Monoid, SMTT(40)
    <2>3. \A a \in Piece : (((a \o x) \o framer) \o input) \o h = a \o u
      BY <2>2 DEF Cat
    <2> HIDE DEF u
    <2> QED BY <2>1, <2>3
  <1>8. PICK u \in Piece : \A a \in Piece : (((a \o x) \o framer) \o input) \o h = a \o u
    BY <1>7
  <1>9. /\ Cat(frames, R) \in Piece /\ Cat(R, u) \in Piece /\ Cat(<<>>, R) = R
        /\ Cat(Cat(frames, R), u) = Cat(frames, Cat(R, u)) /\ Cat(Cat(frames, R), u) \in Piece
    BY <1>1, <1>2, <1>8, Monoid
  <1>10. /\ frames \o R \in Piece /\ R \o u \in Piece /\ <<>> \o R = R
         /\ (frames \o R) \o u = frames \o (R \o u) /\ (frames \o R) \o u \in Piece
    BY <1>9 DEF Cat
  <1>11. Places = (frames \o R) \o u /\ Six(<<>>, R, x, framer, input, h) = R \o u
    BY <1>2, <1>4, <1>5, <1>8, <1>10
  <1>12. call = "stopped" => Ready = frames /\ Places = frames \o framer
    <2>1. Cat(Cat(Cat(Cat(Cat(frames, <<>>), <<>>), framer), <<>>), <<>>) = Cat(frames, framer)
          /\ Cat(frames, <<>>) = frames
      BY <1>1, Monoid
    <2>2. (((((frames \o <<>>) \o <<>>) \o framer) \o <<>>) \o <<>>) = frames \o framer
          /\ frames \o <<>> = frames
      BY <2>1 DEF Cat
    <2> QED BY <1>4, <1>6, <2>2
  <1> QED BY <1>2, <1>4, <1>8, <1>10, <1>11, <1>12 DEF R, x, h

-----------------------------------------------------------------------------
(* A packet taken from the PFB stream is the next one the fine stage gets. *)
LEMMA HandOverOrder ==
  ASSUME NEW s \in Piece, NEW p \in Piece, p # <<>>
  PROVE  Append(s, Head(p)) \o Tail(p) = s \o p
  <1>1. Head(p) \in CoarsePacket /\ Tail(p) \in Piece /\ p = <<Head(p)>> \o Tail(p)
    BY DEF Piece
  <1>2. <<Head(p)>> \in Piece /\ Append(s, Head(p)) = s \o <<Head(p)>>
    BY <1>1, Pieces
  <1>3. Cat(Cat(s, <<Head(p)>>), Tail(p)) = Cat(s, Cat(<<Head(p)>>, Tail(p)))
    BY <1>1, <1>2, Monoid
  <1> QED BY <1>1, <1>2, <1>3 DEF Cat

(* What the caller has, with the fine stage's part of it, is a sequence of *)
(* packets; the stage's frames come first in what it holds.                *)
LEMMA GivenFront ==
  ASSUME TypeOK, Local
  PROVE  /\ Given \o Ready \in Piece /\ Given \o Places \in Piece
         /\ \E x \in Piece : Given \o Places = (Given \o Ready) \o x
  <1>1. Given \in Piece /\ Ready \in Piece /\ Places \in Piece
    BY PieceTypes, PlacesTypes
  <1>2. PICK x \in Piece : Places = Ready \o x
    BY PlacesTypes
  <1>3. Cat(Given, Ready) \in Piece /\ Cat(Given, Places) \in Piece
        /\ Cat(Given, Cat(Ready, x)) = Cat(Cat(Given, Ready), x)
    BY <1>1, <1>2, Monoid
  <1> QED BY <1>2, <1>3 DEF Cat

(* And so it is in the state after a step.                                 *)
LEMMA GivenFrontNext ==
  ASSUME TypeOK', Local', Given' \in Piece
  PROVE  /\ Given' \o Ready' \in Piece
         /\ \E x \in Piece : Given' \o Places' = (Given' \o Ready') \o x
  <1> DEFINE R == Results(rx')
             x == result'.frames
             h == Handing'
  <1>1. frames' \in Piece /\ framer' \in Piece /\ input' \in Piece /\ x \in Piece
    BY DEF TypeOK, FineTypeOK, Piece, Result
  <1>2. R \in Piece
    <2>1. rx' \in Seq(Result)
      BY DEF Local, FineTypeOK
    <2> QED BY <2>1, ResultsType DEF Piece
  <1>3. h \in Piece
    BY Pieces DEF Handing, TypeOK, FineTypeOK
  <1>4. Ready' = frames' \o R /\ Places' = ((((frames' \o R) \o x) \o framer') \o input') \o h
    BY DEF Ready, Places, Six
  <1> DEFINE G == Given'
             f == frames'
             g == framer'
             i == input'
  <1>5. G \in Piece /\ f \in Piece /\ g \in Piece /\ i \in Piece
    BY <1>1
  <1> HIDE DEF R, x, h, G, f, g, i
  <1> DEFINE u == Cat(Cat(Cat(x, g), i), h)
  <1>6. Cat(f, R) \in Piece /\ u \in Piece /\ Cat(G, Cat(f, R)) \in Piece
    BY <1>1, <1>2, <1>3, <1>5, Monoid
  <1>7. ASSUME NEW a \in Piece PROVE Cat(Cat(Cat(Cat(a, x), g), i), h) = Cat(a, u)
    <2>1. Cat(Cat(a, x), g) = Cat(a, Cat(x, g)) /\ Cat(x, g) \in Piece
      BY <1>1, <1>5, Monoid
    <2>2. Cat(Cat(a, Cat(x, g)), i) = Cat(a, Cat(Cat(x, g), i)) /\ Cat(Cat(x, g), i) \in Piece
      BY <1>5, <2>1, Monoid
    <2>3. Cat(Cat(a, Cat(Cat(x, g), i)), h) = Cat(a, Cat(Cat(Cat(x, g), i), h))
      BY <1>3, <2>2, Monoid
    <2> QED BY <2>1, <2>2, <2>3
  <1>8. Cat(G, Cat(Cat(Cat(Cat(Cat(f, R), x), g), i), h)) = Cat(Cat(G, Cat(f, R)), u)
    <2> HIDE DEF u
    <2> QED BY <1>5, <1>6, <1>7, Monoid
  <1> HIDE DEF u
  <1>9. /\ G \o (f \o R) \in Piece
        /\ G \o (((((f \o R) \o x) \o g) \o i) \o h) = (G \o (f \o R)) \o u
    BY <1>6, <1>8 DEF Cat
  <1>10. Ready' = f \o R /\ Places' = ((((f \o R) \o x) \o g) \o i) \o h
    BY <1>4 DEF f, g, i
  <1> QED BY <1>6, <1>9, <1>10 DEF G

(* A step in which nothing moves but in the fine stage keeps the flow.     *)
LEMMA FlowFine ==
  ASSUME IInv, TypeOK', Local', Stage', Step \/ UNCHANGED fineVars,
         UNCHANGED <<delivered, pending, out, output, reply, caller, good, accepted>>,
         Running' => Running, broken => broken',
         call = "stopped" => UNCHANGED fine \/ ~broken',
         \/ UNCHANGED pool /\ UNCHANGED submitted
         \/ pool # <<>> /\ Submit(Head(pool)) /\ pool' = Tail(pool)
  PROVE  Flow'
  <1> DEFINE G == Given
  <1>1. Given' = G /\ Keeps' = Keeps /\ G \in Piece
    BY PieceTypes DEF Given, Replied, Keeps, IInv
  <1>2. \/ submitted' = submitted
        \/ pool # <<>> /\ submitted' = Append(submitted, Head(pool))
    BY DEF Submit
  <1>3. /\ accepted \in Piece /\ submitted \in Piece /\ pool \in Piece /\ submitted' \in Piece
        /\ delivered \in Piece
    BY PieceTypes DEF IInv, TypeOK, FineTypeOK, Piece
  <1>4. submitted' = submitted \/ \E q \in Piece : submitted' = submitted \o q
    <2>1. pool # <<>> => Head(pool) \in CoarsePacket
      BY <1>3 DEF Piece
    <2>2. CASE pool # <<>> /\ submitted' = Append(submitted, Head(pool))
      <3>1. /\ <<Head(pool)>> \in Piece
            /\ Append(submitted, Head(pool)) = submitted \o <<Head(pool)>>
        BY <1>3, <2>1, <2>2, Pieces
      <3> QED BY <2>2, <3>1
    <2> QED BY <1>2, <2>2
  <1>5. \A s \in Piece : Starts(s, submitted) => Starts(s, submitted')
    <2>1. CASE submitted' = submitted
      BY <2>1
    <2>2. ASSUME NEW q \in Piece, submitted' = submitted \o q
          PROVE  \A s \in Piece : Starts(s, submitted) => Starts(s, submitted')
      BY <1>3, <2>2, StartsFacts
    <2> QED BY <1>4, <2>1, <2>2
  <1>6. submitted' \o pool' = accepted'
    <2>1. CASE UNCHANGED pool /\ UNCHANGED submitted
      BY <2>1 DEF IInv, Flow
    <2>2. CASE pool # <<>> /\ Submit(Head(pool)) /\ pool' = Tail(pool)
      <3>1. submitted' = Append(submitted, Head(pool))
        BY <2>2 DEF Submit
      <3> QED BY <1>3, <2>2, <3>1, HandOverOrder DEF IInv, Flow
    <2> QED BY <2>1, <2>2
  <1>7. Starts(delivered', accepted')
    BY DEF IInv, Flow, Starts
  <1>8. Keeps' => Starts(Given', submitted')
    BY <1>1, <1>5 DEF IInv, Flow
  <1>9. Running' => call' \notin {"drop", "lost"}
    BY DEF Stage, Running
  <1>10. Keeps' /\ Running' /\ ~broken' => Given' \o Places' = submitted'
    <2> SUFFICES ASSUME Keeps', Running', ~broken' PROVE Given' \o Places' = submitted'
      OBVIOUS
    <2>1. ~broken /\ G \o Places = submitted
      BY <1>1 DEF IInv, Flow
    <2>2. \/ Places' = Places /\ UNCHANGED submitted
          \/ \E p \in CoarsePacket : Submit(p) /\ Places' = Append(Places, p)
      BY <1>9, <2>1, PlacesStep DEF IInv
    <2>3. ASSUME NEW p \in CoarsePacket, Submit(p), Places' = Append(Places, p)
          PROVE  Given' \o Places' = submitted'
      <3>1. submitted' = Append(submitted, p) /\ p \in CoarsePacket
        BY <2>3 DEF Submit
      <3>2. Places \in Piece
        BY PlacesTypes DEF IInv
      <3>3. <<p>> \in Piece /\ Append(Places, p) = Places \o <<p>>
            /\ Append(submitted, p) = submitted \o <<p>>
        BY <1>3, <3>1, <3>2, Pieces
      <3>4. Cat(Cat(G, Places), <<p>>) = Cat(G, Cat(Places, <<p>>))
        BY <1>1, <3>2, <3>3, Monoid
      <3>5. (G \o Places) \o <<p>> = G \o (Places \o <<p>>)
        BY <3>4 DEF Cat
      <3> QED BY <1>1, <2>1, <2>3, <3>1, <3>3, <3>5
    <2> QED BY <1>1, <2>1, <2>2, <2>3
  <1>11. Keeps' /\ Running' => Starts(Given' \o Ready', submitted')
    <2> SUFFICES ASSUME Keeps', Running' PROVE Starts(Given' \o Ready', submitted')
      OBVIOUS
    <2>1. CASE ~broken'
      <3>1. Given' \o Places' = submitted'
        BY <1>10, <2>1
      <3>2. /\ Given' \o Ready' \in Piece
            /\ \E x \in Piece : Given' \o Places' = (Given' \o Ready') \o x
        BY <1>1, GivenFrontNext
      <3> QED BY <3>1, <3>2, StartsFacts
    <2>2. CASE broken'
      <3>1. Ready' = Ready
        <4>1. CASE call # "stopped"
          BY <1>9, <2>2, <4>1, ReadyStep DEF IInv
        <4>2. CASE UNCHANGED fine
          BY <4>2 DEF fine, Ready
        <4> QED BY <2>2, <4>1, <4>2
      <3>2. Starts(G \o Ready, submitted)
        BY <1>1 DEF IInv, Flow
      <3>3. G \o Ready \in Piece
        BY GivenFront DEF IInv
      <3> QED BY <1>1, <1>5, <3>1, <3>2, <3>3
    <2> QED BY <2>1, <2>2
  <1> QED BY <1>6, <1>7, <1>8, <1>10, <1>11 DEF Flow

-----------------------------------------------------------------------------
(* What starts with all that the caller was given and holds starts with    *)
(* what it was given.                                                      *)
LEMMA FiveStarts ==
  ASSUME NEW d \in Piece, NEW p \in Piece, NEW o \in Piece, NEW j \in Piece, NEW r \in Piece,
         NEW s \in Piece, Starts(Five(d, p, o, j, r), s)
  PROVE  Starts(d, s)
  <1>1. /\ FiveC(d, p, o, j, r) = Cat(d, Cat(Cat(Cat(p, o), j), r))
        /\ Cat(Cat(Cat(p, o), j), r) \in Piece
    <2>1. /\ Cat(d, Cat(p, o)) = Cat(Cat(d, p), o) /\ Cat(p, o) \in Piece
      BY Monoid
    <2>2. /\ Cat(d, Cat(Cat(p, o), j)) = Cat(Cat(d, Cat(p, o)), j) /\ Cat(Cat(p, o), j) \in Piece
      BY <2>1, Monoid
    <2>3. /\ Cat(d, Cat(Cat(Cat(p, o), j), r)) = Cat(Cat(d, Cat(Cat(p, o), j)), r)
          /\ Cat(Cat(Cat(p, o), j), r) \in Piece
      BY <2>2, Monoid
    <2> QED BY <2>1, <2>2, <2>3 DEF FiveC
  <1>2. Five(d, p, o, j, r) = d \o (((p \o o) \o j) \o r) /\ (((p \o o) \o j) \o r) \in Piece
    BY <1>1 DEF FiveC, Five, Cat
  <1> QED BY <1>2, StartsFacts

(* A step that leaves the producer's packets where they are keeps the flow *)
(* if it keeps the order of what the caller was given and holds.           *)
LEMMA FlowKept ==
  ASSUME IInv, TypeOK', UNCHANGED <<fine, pool, accepted>>, Running' => Running,
         Keeps' => Keeps /\ Given' = Given,
         Keeps' \/ Starts(delivered', accepted)
  PROVE  Flow'
  <1>1. Ready' = Ready /\ Places' = Places /\ UNCHANGED <<broken, submitted>>
    BY DEF fine, Ready, Places, Handing
  <1>2. submitted' \o pool' = accepted'
    BY <1>1 DEF IInv, Flow
  <1>3. Keeps' => Starts(Given', submitted')
    BY <1>1 DEF IInv, Flow
  <1>4. Keeps' => Starts(delivered', accepted)
    <2> SUFFICES ASSUME Keeps' PROVE Starts(delivered', accepted)
      OBVIOUS
    <2>1. /\ delivered' \in Piece /\ pending'.frames \in Piece /\ out'.frames \in Piece
      BY DEF TypeOK, Output, Piece
    <2>2. Carried(output') \in Piece
      BY CarriedType DEF TypeOK, Piece
    <2>3. Replied' \in Piece
      <3>1. reply' # <<>> => reply'[1] \in Replies
        BY DEF TypeOK
      <3> QED BY <3>1, Pieces DEF Replied, Replies, Output, Piece
    <2>4. Given' = Five(delivered', pending'.frames, out'.frames, Carried(output'), Replied')
      BY DEF Given, Carried
    <2>5. /\ submitted \in Piece /\ pool \in Piece /\ accepted = submitted \o pool
      BY PieceTypes DEF IInv, Flow
    <2>6. Starts(delivered', submitted)
      BY <1>1, <1>3, <2>1, <2>2, <2>3, <2>4, <2>5, FiveStarts
    <2> QED BY <2>1, <2>5, <2>6, StartsFacts
  <1>5. Keeps' /\ Running' => Starts(Given' \o Ready', submitted')
    BY <1>1 DEF IInv, Flow
  <1>6. Keeps' /\ Running' /\ ~broken' => Given' \o Places' = submitted'
    BY <1>1 DEF IInv, Flow
  <1>7. Starts(delivered', accepted')
    BY <1>4
  <1> QED BY <1>2, <1>3, <1>5, <1>6, <1>7 DEF Flow

(* A poll takes the first frames of the queue; one that reports a failure  *)
(* finds none.                                                             *)
LEMMA PollMoves ==
  ASSUME TypeOK, TakePoll
  PROVE  \E t, j \in Piece :
           /\ Carried(output) = t \o j /\ Carried(output') = j
           /\ Polled.frames = pending.frames \o t
           /\ PollErrs => pending.frames = <<>> /\ t = <<>>
  <1> DEFINE rest == IF sticky THEN output ELSE SubSeq(output, Len(Taken) + 1, Len(output))
             t == Carried(Taken)
             j == Carried(output')
  <1>1. output \in Seq(Batches) /\ pending \in Output /\ sticky \in BOOLEAN
    BY DEF TypeOK
  <1>2. /\ Taken \in Seq(Batches) /\ rest \in Seq(Batches)
        /\ Polled.frames = pending.frames \o t /\ Carried(output) = t \o Carried(rest)
    BY <1>1, TakenIs
  <1>3. output' = rest
    BY DEF TakePoll
  <1>4. t \in Piece /\ j \in Piece /\ pending.frames \in Piece
    BY <1>1, <1>2, <1>3, CarriedType DEF Piece, Output
  <1>5. PollErrs => pending.frames = <<>> /\ t = <<>>
    <2>1. PollErrs => Polled.frames = <<>>
      BY OutputType DEF PollErrs, Reports
    <2> HIDE DEF t
    <2>2. pending.frames \o t = <<>> => pending.frames = <<>> /\ t = <<>>
      BY <1>4 DEF Piece
    <2> QED BY <1>2, <2>1, <2>2
  <1> HIDE DEF rest, t, j
  <1> QED BY <1>2, <1>3, <1>4, <1>5 DEF j

(* A poll, in a boundary or not, keeps the flow.                           *)
LEMMA FlowPoll ==
  ASSUME IInv, TypeOK', Poll \/ BoundaryPoll PROVE Flow'
  <1> USE DEF boundary, ddc, source, history
  <1>1. TakePoll
    BY DEF Poll, BoundaryPoll
  <1>2. PICK t \in Piece, j \in Piece :
          /\ Carried(output) = t \o j /\ Carried(output') = j
          /\ Polled.frames = pending.frames \o t
          /\ PollErrs => pending.frames = <<>> /\ t = <<>>
    BY <1>1, PollMoves DEF IInv
  <1> DEFINE d == delivered
             p == pending.frames
             o == out.frames
             r == Replied
  <1>3. /\ d \in Piece /\ p \in Piece /\ o \in Piece /\ r \in Piece
        /\ Given = Five(d, p, o, t \o j, r)
    BY <1>2, PieceTypes DEF IInv
  <1>4. Given' = Five(delivered', pending'.frames, out'.frames, j, r)
    BY <1>2 DEF Given, Carried, Replied, Poll, BoundaryPoll
  <1>5. PollErrs => t \o j = j
    BY <1>2, Pieces
  <1>6. UNCHANGED <<fine, pool, accepted>> /\ Running' = Running
    BY DEF Poll, BoundaryPoll, Running, fine
  <1>7. (o = <<>> \/ p = <<>>) /\ Nothing.frames = <<>>
    BY OutputType DEF IInv, Meet
  <1>8. CASE Poll
    <2>1. o = <<>> /\ out' = out /\ pending' = Nothing /\ caller = "idle"
      BY <1>7, <1>8 DEF Poll, IInv, Meet
    <2>2. Keeps' /\ Keeps
      BY <1>8 DEF Keeps, Poll
    <2>3. CASE PollErrs
      <3>1. delivered' = d /\ p = <<>>
        BY <1>2, <1>8, <2>3 DEF Poll
      <3>2. Given' = Given
        BY <1>3, <1>4, <1>5, <1>7, <2>1, <2>3, <3>1
      <3> QED BY <1>6, <2>2, <3>2, FlowKept
    <2>4. CASE ~PollErrs
      <3>1. delivered' = d \o (p \o t)
        BY <1>2, <1>8, <2>4 DEF Poll
      <3>2. Five(d \o (p \o t), <<>>, <<>>, j, r) = Five(d, p, <<>>, t \o j, r)
        BY <1>3, FivePoll
      <3>3. Given' = Given
        BY <1>3, <1>4, <1>7, <2>1, <3>1, <3>2
      <3> QED BY <1>6, <2>2, <3>3, FlowKept
    <2> QED BY <2>3, <2>4
  <1>9. CASE BoundaryPoll
    <2>1. delivered' = d /\ caller \in {"full", "poll"}
      BY <1>9 DEF BoundaryPoll
    <2>2. Keeps
      BY <2>1 DEF Keeps
    <2>3. Given' = Given
      <3>1. CASE PollErrs
        <4>1. pending' = out /\ out' = Nothing /\ p = <<>>
          BY <1>2, <1>9, <3>1 DEF BoundaryPoll, Broken
        <4>2. Five(d, p \o o, <<>>, j, r) = Five(d, p, o, j, r)
          BY <1>2, <1>3, FiveBroken
        <4>3. <<>> \o o = o
          BY <1>3, Pieces
        <4> QED BY <1>3, <1>4, <1>5, <1>7, <2>1, <3>1, <4>1, <4>2, <4>3
      <3>2. CASE ~PollErrs
        <4>1. pending' = Nothing /\ out' = Join(out, Polled)
          BY <1>9, <3>2 DEF BoundaryPoll
        <4>2. out'.frames = o \o (p \o t)
          <5>1. Polled \in Output /\ out \in Output
            BY PollType DEF IInv, TypeOK
          <5>2. Join(out, Polled).frames = out.frames \o Polled.frames
            BY <5>1, OutputType
          <5> QED BY <1>2, <4>1, <5>2
        <4>3. Five(d, <<>>, o \o (p \o t), j, r) = Five(d, p, o, t \o j, r)
          <5> HIDE DEF d, p, o, r
          <5> QED BY <1>3, <1>7, FiveGather
        <4> QED BY <1>3, <1>4, <1>7, <2>1, <4>1, <4>2, <4>3
      <3> QED BY <3>1, <3>2
    <2>4. Starts(delivered', accepted)
      BY <2>1 DEF IInv, Flow
    <2> QED BY <1>6, <2>2, <2>3, <2>4, FlowKept
  <1> QED BY <1>8, <1>9

(* The other steps of the caller keep the flow.                            *)
LEMMA FlowCaller ==
  ASSUME IInv, TypeOK',
         \/ SendCommand \/ ReplyTimeout \/ ReplyArrives \/ LastRecv \/ Joined \/ Resume
         \/ (\E c \in Requests : Ask(c))
  PROVE  Flow'
  <1> USE DEF boundary, ddc, source, history, held
  <1> DEFINE d == delivered
             p == pending.frames
             o == out.frames
             j == Carried(output)
             r == Replied
  <1>1. /\ d \in Piece /\ p \in Piece /\ o \in Piece /\ j \in Piece /\ r \in Piece
        /\ Given = Five(d, p, o, j, r) /\ Nothing.frames = <<>>
        /\ out \in Output /\ pending \in Output
    BY PieceTypes, OutputType DEF IInv, TypeOK
  <1>2. Given' = Five(delivered', pending'.frames, out'.frames, Carried(output'), Replied')
    BY DEF Given, Carried
  <1>3. UNCHANGED <<fine, pool, accepted>>
    BY DEF SendCommand, ReplyTimeout, ReplyArrives, LastRecv, Joined, Resume, Ask, fine
  <1>4. /\ o = <<>> \/ p = <<>>
        /\ Starts(delivered, accepted) /\ Join(pending, out).frames = p \o o
    BY <1>1, OutputType DEF IInv, Meet, Flow
  <1>5. ASSUME Broken, pending' = Join(pending, out), UNCHANGED <<output, reply, delivered>>
        PROVE  Given' = Given
    <2>1. pending'.frames = p \o o /\ out'.frames = <<>>
      BY <1>1, <1>4, <1>5 DEF Broken
    <2>2. Five(d, p \o o, <<>>, j, r) = Five(d, p, o, j, r)
      BY <1>1, FiveBroken
    <2>3. Carried(output') = j /\ Replied' = r
      BY <1>5 DEF Replied
    <2> QED BY <1>1, <1>2, <1>5, <2>1, <2>2, <2>3
  <1>6. CASE SendCommand \/ ReplyTimeout
    <2>1. /\ UNCHANGED <<pc, output, reply, delivered>>
          /\ caller \in {"send", "recv"} /\ caller' # "stopped"
      BY <1>6 DEF SendCommand, ReplyTimeout, Broken, Await
    <2>2. \/ Broken /\ pending' = Join(pending, out)
          \/ UNCHANGED <<out, pending>>
      BY <1>6 DEF SendCommand, ReplyTimeout
    <2>3. Given' = Given
      <3>1. UNCHANGED <<out, pending>> => Given' = Given
        BY <2>1 DEF Given, Replied
      <3> QED BY <1>5, <2>1, <2>2, <3>1
    <2>4. Keeps /\ Running' = Running
      BY <1>3, <2>1 DEF Keeps, Running, fine
    <2> QED BY <1>3, <1>4, <2>1, <2>3, <2>4, FlowKept
  <1>7. CASE ReplyArrives
    <2> DEFINE q == Head(reply)
               all == Join(Join(out, JoinAll(output)), q.out)
    <2>1. /\ caller = "recv" /\ caller' = "resume" /\ reply # <<>> /\ reply' = <<>>
          /\ UNCHANGED <<pc, delivered, pending>>
          /\ out' = all \/ out' = [all EXCEPT !.pan = {}]
      BY <1>7 DEF ReplyArrives, TailLast, Queued
    <2>2. q \in Replies /\ q = reply[1]
      BY <2>1, SMTT(40) DEF IInv, TypeOK
    <2>3. all \in Output /\ all.frames = (o \o j) \o r
      <3>1. JoinAll(output) \in Output /\ q.out \in Output /\ r = q.out.frames
        BY <2>1, <2>2, CarriedType DEF IInv, TypeOK, Replies, Replied
      <3>2. /\ Join(out, JoinAll(output)) \in Output
            /\ Join(out, JoinAll(output)).frames = o \o j
        BY <1>1, <3>1, OutputType DEF Carried
      <3> HIDE DEF q
      <3>3. Join(Join(out, JoinAll(output)), q.out) \in Output
            /\ Join(Join(out, JoinAll(output)), q.out).frames
                 = Join(out, JoinAll(output)).frames \o q.out.frames
        BY <3>1, <3>2, OutputType
      <3> QED BY <3>1, <3>2, <3>3
    <2>4. out'.frames = (o \o j) \o r
      <3> HIDE DEF all
      <3> QED BY <2>1, <2>3 DEF Output
    <2>5. output' = <<>> /\ Carried(output') = <<>> /\ Replied' = <<>>
      <3>1. output' = <<>>
        BY <1>7 DEF ReplyArrives, Queued, IInv, TypeOK
      <3> QED BY <2>1, <3>1, CarriedNone DEF Replied
    <2>6. Five(d, p, (o \o j) \o r, <<>>, <<>>) = Five(d, p, o, j, r)
      <3> HIDE DEF d, p, o, j, r
      <3> QED BY <1>1, FiveReply
    <2>7. Given' = Given
      BY <1>1, <1>2, <2>1, <2>4, <2>5, <2>6
    <2>8. Keeps /\ Running' = Running
      BY <1>3, <2>1 DEF Keeps, Running, fine
    <2> QED BY <1>3, <1>4, <2>1, <2>7, <2>8, FlowKept
  <1>8. CASE LastRecv
    <2>1. /\ caller = "last" /\ caller' = "last" /\ output # <<>> /\ UNCHANGED <<pc, delivered>>
          /\ good' => good
      BY <1>8 DEF LastRecv
    <2>2. ~good
      BY <2>1 DEF IInv, Ended
    <2>3. ~Keeps' /\ Running' = Running
      BY <1>3, <2>1, <2>2 DEF Keeps, Running, fine
    <2> QED BY <1>3, <1>4, <2>1, <2>3, FlowKept
  <1>9. CASE Joined
    <2>1. caller = "last" /\ caller' = "stopped" /\ delivered' = d \o o /\ UNCHANGED pc
      BY <1>9 DEF Joined
    <2>2. Starts(d \o o, accepted)
      <3>1. CASE good
        <4>1. d \o o = accepted
          BY <2>1, <3>1 DEF IInv, Ended
        <4>2. accepted \in Piece
          BY PieceTypes DEF IInv
        <4> QED BY <4>1, <4>2, StartsFacts
      <3>2. CASE ~good
        <4>1. o = <<>> /\ d \o <<>> = d
          BY <1>1, <2>1, <3>2, Pieces DEF IInv, Ended
        <4> QED BY <1>4, <4>1
      <3> QED BY <3>1, <3>2
    <2>3. ~Keeps' /\ Running' = Running
      BY <1>3, <2>1 DEF Keeps, Running, fine
    <2> QED BY <1>3, <2>1, <2>2, <2>3, FlowKept
  <1>10. CASE Resume
    <2>1. /\ caller = "resume" /\ caller' \in {"idle", "last"} /\ pc = "parked" /\ p = <<>>
          /\ pc' = IF doomed THEN "exit" ELSE "restart"
          /\ UNCHANGED <<output, reply>>
      BY <1>10 DEF Resume, IInv, Meet
    <2>2. Running' => Running
      BY <1>3, <2>1 DEF IInv, Stage, Running, fine
    <2>3. Keeps
      BY <2>1 DEF Keeps
    <2>4. Carried(output') = j /\ Replied' = r
      BY <2>1 DEF Replied
    <2>5. CASE good
      <3>1. CASE request = "stop"
        <4>1. UNCHANGED <<out, pending, delivered>>
          BY <1>10, <2>5, <3>1 DEF Resume
        <4>2. Given' = Given
          BY <1>1, <1>2, <2>4, <4>1
        <4> QED BY <1>3, <1>4, <2>2, <2>3, <4>1, <4>2, FlowKept
      <3>2. CASE request # "stop"
        <4>1. /\ out' = Nothing /\ delivered' = d \o o /\ good' = TRUE
              /\ pending' = [pending EXCEPT !.pan = @ \cup out.pan]
          BY <1>10, <2>5, <3>2 DEF Resume
        <4>2. pending'.frames = p
          BY <1>1, <4>1 DEF Output
        <4>3. Five(d \o o, <<>>, <<>>, j, r) = Five(d, <<>>, o, j, r)
          BY <1>1, FiveHand
        <4>4. Given' = Given
          BY <1>1, <1>2, <2>1, <2>4, <4>1, <4>2, <4>3
        <4>5. Keeps'
          BY <2>1, <4>1 DEF Keeps
        <4> QED BY <1>3, <2>2, <2>3, <4>4, <4>5, FlowKept
      <3> QED BY <3>1, <3>2
    <2>6. CASE ~good
      <3>1. pending' = Join(pending, out) /\ out' = Nothing /\ delivered' = d
        BY <1>10, <2>6 DEF Resume
      <3>2. Five(d, p \o o, <<>>, j, r) = Five(d, p, o, j, r)
        BY <1>1, FiveBroken
      <3>3. Given' = Given
        BY <1>1, <1>2, <1>4, <2>4, <3>1, <3>2
      <3> QED BY <1>3, <1>4, <2>2, <2>3, <3>1, <3>3, FlowKept
    <2> QED BY <2>5, <2>6
  <1>11. ASSUME NEW c \in Requests, Ask(c) PROVE Flow'
    <2>1. /\ caller = "idle" /\ caller' = "send" /\ out' = Nothing /\ reply' = <<>>
          /\ UNCHANGED <<pc, delivered, pending, output>>
      BY <1>11 DEF Ask
    <2>2. o = <<>> /\ Replied' = <<>> /\ r = <<>>
      BY <1>1, <2>1 DEF IInv, Meet, Replied
    <2>3. Given' = Given
      BY <1>1, <1>2, <2>1, <2>2
    <2>4. Keeps /\ Running' = Running
      BY <1>3, <2>1 DEF Keeps, Running, fine
    <2> QED BY <1>3, <1>4, <2>1, <2>3, <2>4, FlowKept
  <1> QED BY <1>6, <1>7, <1>8, <1>9, <1>10, <1>11

(* Once the producer does not go on, only what the caller has counts.      *)
LEMMA FlowStopped ==
  ASSUME IInv, ~Running', UNCHANGED <<submitted, pool, accepted, delivered>>,
         Keeps' => Keeps /\ Given' = Given
  PROVE  Flow'
  BY DEF IInv, Flow, Starts

(* The frames of the fine stage go to the queue or to the answer.          *)
LEMMA FlowOut ==
  ASSUME IInv, Running, frames' = <<>>, Given' = Given \o frames, Keeps' = Keeps,
         UNCHANGED <<call, packet, rx, result, framer, input, broken, submitted, pool,
                     accepted, delivered>>
  PROVE  Flow'
  <1>1. Given \in Piece /\ frames \in Piece /\ submitted \in Piece
    BY PieceTypes DEF IInv
  <1>2. PICK y \in Piece, z \in Piece :
          /\ Places = frames \o y /\ Ready = frames \o z /\ z = Results(rx)
          /\ y = Six(<<>>, Results(rx), result.frames, framer, input, Handing)
    BY PlacesTypes DEF IInv
  <1>3. Places' = y /\ Ready' = z
    <2>1. Handing' = Handing
      BY DEF Handing
    <2>2. <<>> \o z = z
      BY Pieces
    <2> QED BY <1>2, <2>1, <2>2 DEF Places, Ready
  <1>4. Given \o frames \in Piece /\ (Given \o frames) \o y = Given \o (frames \o y)
        /\ (Given \o frames) \o z = Given \o (frames \o z) /\ (Given \o frames) \o z \in Piece
    <2>1. /\ Cat(Given, frames) \in Piece
          /\ Cat(Cat(Given, frames), y) = Cat(Given, Cat(frames, y))
          /\ Cat(Cat(Given, frames), z) = Cat(Given, Cat(frames, z))
          /\ Cat(Cat(Given, frames), z) \in Piece
      BY <1>1, <1>2, Monoid
    <2> QED BY <2>1 DEF Cat
  <1>5. Keeps' => Starts(Given' \o Ready', submitted')
    BY <1>2, <1>3, <1>4 DEF IInv, Flow
  <1>6. Keeps' => Starts(Given', submitted')
    BY <1>1, <1>2, <1>3, <1>4, <1>5, StartsFacts
  <1>7. Keeps' /\ ~broken' => Given' \o Places' = submitted'
    BY <1>2, <1>3, <1>4 DEF IInv, Flow
  <1>8. submitted' \o pool' = accepted' /\ Starts(delivered', accepted')
    BY DEF IInv, Flow, Starts
  <1> QED BY <1>5, <1>6, <1>7, <1>8 DEF Flow

(* The producer's steps keep the flow.                                     *)
LEMMA FlowProducer ==
  ASSUME IInv, TypeOK', Local', Stage', Producer \/ Worker
  PROVE  Flow'
  <1> USE DEF boundary, ddc, source, history, held, control
  <1>0. /\ delivered \in Piece /\ pending.frames \in Piece /\ out.frames \in Piece
        /\ Carried(output) \in Piece /\ Replied \in Piece /\ Given \in Piece
        /\ Given = Five(delivered, pending.frames, out.frames, Carried(output), Replied)
        /\ submitted \in Piece /\ pool \in Piece /\ accepted \in Piece /\ frames \in Piece
             /\ framer \in Piece
        /\ output \in Seq(Batches) /\ Starts(delivered, accepted)
    BY PieceTypes DEF IInv, TypeOK, Flow
  <1>a. ASSUME UNCHANGED <<delivered, pending, out, output, reply>> PROVE Given' = Given
    BY <1>a DEF Given, Replied
  <1>b. ASSUME UNCHANGED <<caller, good>> PROVE Keeps' = Keeps
    BY <1>b DEF Keeps
  <1>c. pc # "parked" => Replied = <<>>
    BY DEF IInv, Meet, Replied
  <1>1. CASE TakeCommand
    <2>1. /\ UNCHANGED <<fine, pool, accepted, delivered, pending, out, output, reply, caller,
                         good>>
          /\ pc = "loop"
      BY <1>1 DEF TakeCommand
    <2>2. Running
      BY <2>1 DEF Running
    <2> QED BY <1>0, <1>a, <1>b, <2>1, <2>2, FlowKept
  <1>2. CASE Packet
    <2>1. UNCHANGED <<fine, delivered, pending, out, output, reply, caller, good>>
            /\ pc = "packet"
      BY <1>2 DEF Packet
    <2>2. Running /\ Given' = Given /\ Keeps' = Keeps
      BY <1>a, <1>b, <2>1 DEF Running
    <2>3. CASE UNCHANGED source
      BY <1>0, <2>1, <2>2, <2>3, FlowKept
    <2>4. ASSUME NEW p \in CoarsePacket, pool' = Append(pool, p), accepted' = Append(accepted, p)
          PROVE  Flow'
      <3>1. <<p>> \in Piece /\ pool' = pool \o <<p>> /\ accepted' = accepted \o <<p>>
        BY <1>0, <2>4, Pieces
      <3>2. Cat(Cat(submitted, pool), <<p>>) = Cat(submitted, Cat(pool, <<p>>))
        BY <1>0, <3>1, Monoid
      <3>3. submitted' \o pool' = accepted'
        BY <2>1, <3>1, <3>2 DEF Cat, IInv, Flow, fine
      <3>4. Starts(delivered', accepted')
        BY <1>0, <2>1, <3>1, StartsFacts
      <3>5. Ready' = Ready /\ Places' = Places /\ UNCHANGED <<broken, submitted>>
        BY <2>1 DEF fine, Ready, Places, Handing
      <3> QED BY <2>2, <3>3, <3>4, <3>5 DEF IInv, Flow
    <2>5. [epoch |-> generation, seq |-> next_seq] \in CoarsePacket
      BY DEF IInv, TypeOK, CoarsePacket
    <2> QED BY <1>2, <2>3, <2>4, <2>5 DEF Packet
  <1>3. CASE HandOver \/ InSubmit \/ DrainCollect \/ FinishFine \/ Worker
    <2>1. UNCHANGED <<delivered, pending, out, output, reply, caller, good, accepted>>
      BY <1>3 DEF HandOver, InSubmit, DrainCollect, FinishFine, Worker
    <2>2. Step \/ UNCHANGED fineVars
      BY <1>3, FineMoves DEF IInv
    <2>3. \/ UNCHANGED pool /\ UNCHANGED submitted
          \/ pool # <<>> /\ Submit(Head(pool)) /\ pool' = Tail(pool)
      BY <1>3 DEF HandOver, InSubmit, DrainCollect, FinishFine, Worker, SubmitCollect,
         Collect, TrySend, Finish, FinishRecv, FinishJoin,
         Thread, Deliver, Send, HangUp
    <2>4. broken => broken'
      BY <1>3 DEF HandOver, InSubmit, DrainCollect, FinishFine, Worker, SubmitCollect,
         Collect, TrySend, Finish, FinishRecv, FinishJoin,
         Thread, Deliver, Send, HangUp, Submit, state
    <2>5. call # "stopped"
      <3>1. CASE HandOver \/ InSubmit \/ DrainCollect \/ FinishFine
        BY <3>1 DEF HandOver, InSubmit, DrainCollect, FinishFine, Submit,
           SubmitCollect, TrySend, Finish, FinishRecv, FinishJoin
      <3>2. CASE Worker
        BY <3>2 DEF Worker, Thread, Deliver, Send, HangUp, IInv, Local,
           Ends
      <3> QED BY <1>3, <3>1, <3>2
    <2>6. Running' => Running
      <3>1. CASE HandOver \/ DrainCollect \/ FinishFine
        BY <3>1 DEF HandOver, DrainCollect, FinishFine, Running
      <3>2. CASE InSubmit
        <4>1. pc' = pc /\ call \in {"collect", "try"}
          BY <3>2 DEF InSubmit, SubmitCollect, TrySend
        <4> QED BY <4>1 DEF Running, IInv, Stage
      <3>3. CASE Worker
        BY <3>3 DEF Worker, Thread, Deliver, Send, HangUp, owner, Running
      <3> QED BY <1>3, <3>1, <3>2, <3>3
    <2> QED BY <2>1, <2>2, <2>3, <2>4, <2>5, <2>6, FlowFine
  <1>4. CASE Restart
    <2>1. /\ UNCHANGED <<delivered, pending, out, output, reply, caller, good, accepted, pool>>
          /\ pc = "restart"
      BY <1>4 DEF Restart
    <2>2. Running
      BY <2>1 DEF Running
    <2>3. CASE UNCHANGED fine
      BY <1>0, <1>a, <1>b, <2>1, <2>2, <2>3, FlowKept
    <2>4. CASE Start
      <3>1. Step \/ UNCHANGED fineVars
        BY <1>4, FineMoves DEF IInv
      <3>2. UNCHANGED submitted /\ UNCHANGED broken /\ ~broken
        BY <2>4 DEF Start, state
      <3> QED BY <2>1, <2>2, <3>1, <3>2, FlowFine
    <2> QED BY <1>4, <2>3, <2>4 DEF Restart
  <1>5. CASE Exit
    <2>1. UNCHANGED <<delivered, pending, out, output, reply, caller, good, accepted, pool>>
          /\ pc' \in {"exit", "gone"}
      BY <1>5 DEF Exit
    <2>2. ~Running'
      BY <2>1 DEF Running
    <2>3. UNCHANGED submitted
      BY <1>5 DEF Exit, DropWorker, DropRecv, DropJoin, fine
    <2> QED BY <1>a, <1>b, <2>1, <2>2, <2>3, FlowStopped
  <1>6. CASE SendError
    <2>1. UNCHANGED <<fine, delivered, pending, out, reply, caller, good, accepted, pool>>
          /\ pc' = "exit" /\ output' = Append(output, Error)
      BY <1>6 DEF SendError
    <2>2. ~Running' /\ UNCHANGED submitted
      BY <2>1 DEF Running, fine
    <2>3. Carried(output') = Carried(output)
      <3>1. Carried(output') = Carried(output) \o <<>>
        <4>1. Error \in Batches /\ Error.out.frames = <<>>
          BY OutputType
        <4> HIDE DEF Error
        <4> QED BY <1>0, <2>1, <4>1, CarriedAppend
      <3> QED BY <1>0, <3>1, Pieces
    <2>4. Given' = Given
      BY <2>1, <2>3 DEF Given, Replied, Carried
    <2> QED BY <1>b, <2>1, <2>2, <2>4, FlowStopped
  <1>7. CASE DrainFails
    <2>1. UNCHANGED <<submitted, delivered, pending, out, output, reply, caller, good,
                      accepted, pool>>
          /\ pc' \in {"failed", "refuse"}
      BY <1>7 DEF DrainFails, Fail
    <2>2. ~Running'
      BY <2>1 DEF Running
    <2> QED BY <1>a, <1>b, <2>1, <2>2, FlowStopped
  <1>8. CASE Refuse
    <2>1. /\ UNCHANGED <<submitted, call, delivered, pending, out, output, caller, good,
                         accepted, pool>>
          /\ pc = "refuse" /\ pc' = "parked" /\ reply' # <<>> /\ reply'[1].out = Nothing
      BY <1>8 DEF Refuse
    <2>2. ~Running'
      BY <2>1 DEF Running, IInv, Stage
    <2>3. Replied = <<>> /\ Replied' = <<>>
      BY <1>c, <2>1, OutputType DEF Replied
    <2>4. Given' = Given
      BY <2>1, <2>3 DEF Given
    <2> QED BY <1>b, <2>1, <2>2, <2>4, FlowStopped
  <1>9. CASE Emit
    <2> DEFINE b == Batch([frames |-> frames, pan |-> pan])
    <2>1. /\ UNCHANGED <<call, packet, rx, result, framer, input, broken, submitted, pool,
                         accepted, delivered, pending, out, reply, caller, good>>
          /\ pc = "emit" /\ frames' = <<>>
          /\ (frames = <<>> /\ output' = output) \/ output' = Append(output, b)
      BY <1>9 DEF Emit
    <2>2. Running /\ Replied = <<>> /\ Replied' = <<>>
      BY <1>c, <2>1 DEF Running, Replied
    <2>3. Carried(output') = Carried(output) \o frames
      <3>1. b \in Batches /\ b.out.frames = frames
        BY OutputType, DdcOutput DEF IInv
      <3> HIDE DEF b
      <3>2. Carried(output) \o <<>> = Carried(output)
        BY <1>0, Pieces
      <3> QED BY <1>0, <2>1, <3>1, <3>2, CarriedAppend
    <2>4. Given' = Given \o frames
      <3>1. Five(delivered, pending.frames, out.frames, Carried(output) \o frames, <<>>)
              = Five(delivered, pending.frames, out.frames, Carried(output), <<>>) \o frames
        <4> DEFINE d == delivered
                   p == pending.frames
                   o == out.frames
                   j == Carried(output)
                   f == frames
        <4>1. d \in Piece /\ p \in Piece /\ o \in Piece /\ j \in Piece /\ f \in Piece
          BY <1>0
        <4> HIDE DEF d, p, o, j, f
        <4>2. Five(d, p, o, Cat(j, f), <<>>) = Cat(Five(d, p, o, j, <<>>), f)
          BY ONLY <4>1, FiveEmit
        <4> QED BY <4>2 DEF Cat, d, p, o, j, f
      <3>2. Given' = Five(delivered, pending.frames, out.frames, Carried(output) \o frames, <<>>)
        BY <2>1, <2>2, <2>3 DEF Given, Carried
      <3> QED BY <1>0, <2>2, <3>1, <3>2
    <2> QED BY <1>b, <2>1, <2>2, <2>4, FlowOut
  <1>10. CASE Reply
    <2>1. /\ UNCHANGED <<call, packet, rx, result, framer, input, broken, submitted, pool,
                         accepted, delivered, pending, out, output, caller, good>>
          /\ pc = "reply" /\ frames' = <<>> /\ reply' # <<>> /\ reply'[1].out.frames = frames
      BY <1>10 DEF Reply
    <2>2. Running /\ Replied = <<>> /\ Replied' = frames
      BY <1>c, <2>1 DEF Running, Replied
    <2>3. Given' = Given \o frames
      <3>1. Five(delivered, pending.frames, out.frames, Carried(output), frames)
              = Five(delivered, pending.frames, out.frames, Carried(output), <<>>) \o frames
        <4> DEFINE d == delivered
                   p == pending.frames
                   o == out.frames
                   j == Carried(output)
                   f == frames
        <4>1. d \in Piece /\ p \in Piece /\ o \in Piece /\ j \in Piece /\ f \in Piece
          BY <1>0
        <4> HIDE DEF d, p, o, j, f
        <4>2. Five(d, p, o, j, f) = Cat(Five(d, p, o, j, <<>>), f)
          BY ONLY <4>1, FiveAnswer
        <4> QED BY <4>2 DEF Cat, d, p, o, j, f
      <3>2. Given' = Five(delivered, pending.frames, out.frames, Carried(output), frames)
        BY <2>1, <2>2 DEF Given, Carried
      <3> QED BY <1>0, <2>2, <3>1, <3>2
    <2> QED BY <1>b, <2>1, <2>2, <2>3, FlowOut
  <1>11. CASE Change
    <2>1. /\ UNCHANGED <<call, packet, rx, result, input, submitted, delivered, pending, out,
                         output, reply, caller, good>>
          /\ pc = "change" /\ pc' = "reply"
          /\ UNCHANGED <<pool, accepted>>
          /\ \/ frames' = frames \o framer /\ framer' = <<>>
             \/ UNCHANGED <<frames, framer>>
      BY <1>11 DEF Change, Rejected, Finished
    <2>2. call = "stopped" /\ ~broken /\ Running /\ rx = <<>> /\ input = <<>> /\ result = Silent
      BY <2>1 DEF IInv, Stage, Running, Local, Ends
    <2>3. Given' = Given /\ Keeps' = Keeps
      BY <1>a, <1>b, <2>1
    <2>4. Places = frames \o framer
      BY <2>2, PlacesTypes DEF IInv
    <2>5. /\ frames' \in Piece /\ framer' \in Piece /\ frames' \o framer' = frames \o framer
      <3>1. frames \o framer \in Piece /\ (frames \o framer) \o <<>> = frames \o framer
              /\ <<>> \in Piece
        BY <1>0, Pieces
      <3> QED BY <1>0, <2>1, <3>1
    <2>6. Ready' = frames' /\ Places' = frames' \o framer'
      <3>1. Results(rx') = <<>> /\ Handing' = <<>> /\ result'.frames = <<>> /\ input' = <<>>
        BY <2>1, <2>2, ResultsEmpty DEF Handing, Silent
      <3>2. Cat(Cat(Cat(Cat(Cat(frames', <<>>), <<>>), framer'), <<>>), <<>>)
              = Cat(frames', framer')
            /\ Cat(frames', <<>>) = frames'
        BY <2>5, Monoid
      <3> QED BY <3>1, <3>2 DEF Ready, Places, Six, Cat
    <2>7. Keeps => Given \o (frames' \o framer') = submitted
      BY <2>2, <2>4, <2>5 DEF IInv, Flow
    <2>8. /\ Given \o (frames' \o framer') = (Given \o frames') \o framer'
               /\ Given \o frames' \in Piece
      <3>1. /\ Cat(Given, Cat(frames', framer')) = Cat(Cat(Given, frames'), framer')
            /\ Cat(Given, frames') \in Piece
        BY <1>0, <2>5, Monoid
      <3> QED BY <3>1 DEF Cat
    <2>9. Keeps => Starts(Given \o frames', submitted)
      <3>1. Starts(Given \o frames', (Given \o frames') \o framer')
        BY <2>5, <2>8, StartsFacts
      <3> QED BY <2>7, <2>8, <3>1
    <2>10. Keeps => Starts(Given, submitted)
      BY DEF IInv, Flow
    <2>11. submitted' \o pool' = accepted' /\ Starts(delivered', accepted')
      BY <1>0, <2>1 DEF IInv, Flow
    <2> QED BY <2>1, <2>3, <2>6, <2>7, <2>9, <2>10, <2>11 DEF Flow
  <1> QED BY <1>1, <1>2, <1>3, <1>4, <1>5, <1>6, <1>7, <1>8, <1>9, <1>10, <1>11 DEF Producer

-----------------------------------------------------------------------------
(* When the boundary of a command has succeeded, the caller has all that   *)
(* was captured but the partial frame.                                     *)
LEMMA AtBoundary ==
  ASSUME IInv, caller = "resume", good
  PROVE  /\ delivered \o out.frames \o framer = accepted
         /\ output = <<>> /\ pending.frames = <<>>
         /\ request = "stop" => framer = <<>> /\ delivered \o out.frames = accepted
  <1>1. /\ pc = "parked" /\ reply = <<>> /\ output = <<>> /\ pending.frames = <<>>
        /\ call = "stopped" /\ ~broken /\ pool = <<>> /\ (request = "stop" => framer = <<>>)
    BY DEF IInv, Meet, Answered
  <1>2. Keeps /\ Running /\ frames = <<>>
    BY <1>1 DEF Keeps, Running, IInv, Stage
  <1>3. Given \o Places = submitted /\ submitted \o pool = accepted
    BY <1>1, <1>2 DEF IInv, Flow
  <1>4. /\ delivered \in Piece /\ out.frames \in Piece /\ framer \in Piece /\ submitted \in Piece
    BY PieceTypes DEF IInv
  <1>5. Places = <<>> \o framer
    BY <1>1, <1>2, PlacesTypes DEF IInv
  <1>6. Given = Five(delivered, <<>>, out.frames, <<>>, <<>>)
    BY <1>1, CarriedNone DEF Given, Carried, Replied
  <1>7. /\ Cat(Cat(Cat(Cat(delivered, <<>>), out.frames), <<>>), <<>>)
             = Cat(delivered, out.frames)
        /\ Cat(delivered, out.frames) \in Piece /\ Cat(<<>>, framer) = framer
        /\ Cat(submitted, <<>>) = submitted
        /\ Cat(Cat(delivered, out.frames), <<>>) = Cat(delivered, out.frames)
    <2> DEFINE d == delivered
               o == out.frames
    <2>1. d \in Piece /\ o \in Piece
      BY <1>4
    <2> HIDE DEF d, o
    <2>2. Cat(d, o) \in Piece /\ Cat(d, <<>>) = d
      BY <2>1, Monoid
    <2>3. Cat(Cat(d, o), <<>>) = Cat(d, o) /\ Cat(<<>>, framer) = framer
          /\ Cat(submitted, <<>>) = submitted
      BY <1>4, <2>2, Monoid
    <2> QED BY <2>2, <2>3 DEF d, o
  <1>8. delivered \o out.frames \o framer = accepted
    BY <1>1, <1>3, <1>5, <1>6, <1>7 DEF Five, Cat
  <1>9. request = "stop" => delivered \o out.frames = accepted
    BY <1>1, <1>7, <1>8 DEF Cat
  <1> QED BY <1>1, <1>8, <1>9

(* Every step keeps what a stop has, or has let go.                        *)
LEMMA EndedStep ==
  ASSUME IInv, Next \/ UNCHANGED vars PROVE Ended'
  <1> USE DEF fine, source, ddc, control, boundary, held, history
  <1>1. CASE Producer \/ Worker
    <2>1. UNCHANGED <<caller, good, delivered, out, pending>>
      BY <1>1 DEF Producer, TakeCommand, Packet, HandOver, InSubmit, DrainCollect, DrainFails,
         Emit, SendError, FinishFine, Refuse, Change, Reply, Restart, Exit, Worker
    <2>2. CASE caller \notin {"last", "stopped"}
      BY <2>1, <2>2 DEF Ended
    <2>3. CASE caller \in {"last", "stopped"}
      <3>1. pc \in {"exit", "gone"}
        BY <2>3 DEF IInv, Meet
      <3>2. UNCHANGED <<output, accepted>>
        <4>1. CASE HandOver \/ InSubmit \/ Worker \/ Exit
          BY <4>1 DEF HandOver, InSubmit, Worker, Exit
        <4> QED BY <1>1, <3>1, <4>1 DEF Producer, TakeCommand, Packet, DrainCollect,
           DrainFails, Emit, SendError, FinishFine, Refuse, Change, Reply, Restart
      <3> QED BY <2>1, <3>2 DEF IInv, Ended
    <2> QED BY <2>2, <2>3
  <1>2. CASE Poll \/ (\E c \in Requests : Ask(c))
    <2>1. caller' \in {"idle", "send"}
      BY <1>2 DEF Poll, Ask
    <2> QED BY <2>1 DEF Ended
  <1>3. CASE SendCommand \/ BoundaryPoll \/ ReplyTimeout
    <2>1. caller' # "stopped" /\ (caller' = "last" => ~good' /\ out' = Nothing)
      BY <1>3 DEF SendCommand, BoundaryPoll, ReplyTimeout, Broken, Await
    <2> QED BY <2>1, OutputType DEF Ended
  <1>4. CASE ReplyArrives
    BY <1>4 DEF ReplyArrives, Ended
  <1>5. CASE LastRecv
    <2>1. caller = "last" /\ caller' = "last" /\ output # <<>>
      BY <1>5 DEF LastRecv
    <2>2. ~good
      BY <2>1 DEF IInv, Ended
    <2>3. ~good' /\ out' = Nothing
      BY <1>5, <2>2 DEF LastRecv
    <2> QED BY <2>1, <2>3, OutputType DEF Ended
  <1>6. CASE Joined
    <2>1. caller = "last" /\ caller' = "stopped" /\ delivered' = delivered \o out.frames
          /\ UNCHANGED <<good, accepted>>
      BY <1>6 DEF Joined
    <2> QED BY <2>1 DEF IInv, Ended
  <1>7. CASE Resume
    <2>1. caller = "resume" /\ caller' # "stopped" /\ (caller' = "last" => request = "stop")
          /\ UNCHANGED <<output, accepted>>
      BY <1>7 DEF Resume
    <2>2. CASE request # "stop"
      BY <2>1, <2>2 DEF Ended
    <2>3. CASE request = "stop" /\ good
      <3>1. UNCHANGED <<out, pending, delivered, good>>
        BY <1>7, <2>3 DEF Resume
      <3> QED BY <2>1, <2>3, <3>1, AtBoundary DEF Ended
    <2>4. CASE request = "stop" /\ ~good
      <3>1. out' = Nothing /\ ~good'
        BY <1>7, <2>4 DEF Resume
      <3> QED BY <2>1, <3>1, OutputType DEF Ended
    <2> QED BY <2>2, <2>3, <2>4
  <1>8. CASE UNCHANGED vars
    BY <1>8 DEF vars, IInv, Ended
  <1>9. (\E c \in Changes : Ask(c)) \/ Ask("stop") => \E c \in Requests : Ask(c)
    BY DEF Requests
  <1> QED BY <1>1, <1>2, <1>3, <1>4, <1>5, <1>6, <1>7, <1>8, <1>9 DEF Next, Caller, Free

(* The invariant holds in the initial state.                               *)
LEMMA InitHolds == Init => IInv
  <1> SUFFICES ASSUME Init PROVE IInv
    OBVIOUS
  <1>1. FineInit
    BY DEF Init
  <1>2. Local
    BY <1>1, FineInitHolds DEF FineIInv
  <1>3. TypeOK
    <2>1. FineTypeOK
      BY <1>2 DEF Local
    <2>2. <<>> \in Seq(CoarsePacket) /\ <<>> \in Seq(Requests) /\ <<>> \in Seq(Batches)
            /\ <<>> \in Seq(Replies)
      OBVIOUS
    <2>3. Snap \in Snapshot /\ Nothing \in Output
      BY OutputType DEF Init, Snap, Snapshot
    <2>4. Len(<<>>) = 0 /\ 0 <= PoolHold + 1 /\ 0 <= QueueCap /\ 0 <= 1
      BY PipelineAssumption, FineAssumption
    <2> QED BY <2>1, <2>2, <2>3, <2>4 DEF Init, TypeOK
  <1>4. call = "stopped" /\ ~broken /\ frames = <<>> /\ framer = <<>> /\ submitted = <<>>
    BY <1>1 DEF FineInit
  <1>5. Stage
    BY <1>4, FailedFacts DEF Init, Stage
  <1>6. Meet
    BY OutputType DEF Init, Meet
  <1>7. Ended
    BY DEF Init, Ended
  <1>8. Flow
    <2>1. Given = <<>> /\ <<>> \in Piece /\ <<>> \o <<>> = <<>>
      BY CarriedNone, OutputType, Pieces DEF Init, Given, Five, Carried, Replied
    <2>2. Ready = <<>> /\ Places = <<>>
      BY <1>2, <1>3, <1>4, <2>1, PlacesTypes
    <2>3. Starts(<<>>, <<>>)
      BY <2>1, StartsFacts
    <2> QED BY <1>4, <2>1, <2>2, <2>3 DEF Init, Flow
  <1> QED BY <1>2, <1>3, <1>5, <1>6, <1>7, <1>8 DEF IInv

(* Every step keeps the invariant.                                         *)
LEMMA Kept ==
  ASSUME IInv, Next \/ UNCHANGED vars PROVE IInv'
  <1>1. Local'
    BY LocalKept DEF IInv
  <1>2. TypeOK'
    <2>1. FineTypeOK'
      BY <1>1 DEF Local
    <2> QED BY <2>1, TypeStep DEF IInv
  <1>3. Stage' /\ Meet' /\ Ended'
    BY StageStep, MeetStep, EndedStep DEF IInv
  <1>4. Flow'
    <2>1. CASE Producer \/ Worker
      BY <1>1, <1>2, <1>3, <2>1, FlowProducer
    <2>2. CASE Poll \/ BoundaryPoll
      BY <1>2, <2>2, FlowPoll
    <2>3. CASE \/ SendCommand \/ ReplyTimeout \/ ReplyArrives \/ LastRecv \/ Joined \/ Resume
               \/ (\E c \in Requests : Ask(c))
      BY <1>2, <2>3, FlowCaller
    <2>4. CASE UNCHANGED vars
      <3>1. /\ UNCHANGED <<fine, pool, accepted, pc, delivered, caller, good>>
            /\ Given' = Given
        BY <2>4 DEF vars, ddc, source, boundary, history, held, Given, Replied
      <3>2. Running' = Running /\ Keeps' = Keeps /\ Starts(delivered, accepted)
        BY <3>1 DEF Running, Keeps, fine, IInv, Flow
      <3> QED BY <1>2, <3>1, <3>2, FlowKept
    <2>5. (\E c \in Changes : Ask(c)) \/ Ask("stop") => \E c \in Requests : Ask(c)
      BY DEF Requests
    <2> QED BY <2>1, <2>2, <2>3, <2>4, <2>5 DEF Next, Caller, Free
  <1> QED BY <1>1, <1>2, <1>3, <1>4 DEF IInv

(* The invariant holds in every reachable state.                           *)
LEMMA Invariant == Spec => []IInv
  <1>1. IInv /\ [Next]_vars => IInv'
    BY Kept
  <1> QED BY InitHolds, <1>1, PTL DEF Spec

(* For every capacity of the channels and of the pool, every number of     *)
(* commands and whatever fails, the caller is given the IQ the capture     *)
(* produced, in order, without a gap or a repetition.                      *)
THEOREM GivenInOrder == Spec => []InOrder
  <1>1. IInv => InOrder
    <2> SUFFICES ASSUME IInv PROVE IsPrefix(delivered, accepted)
      BY DEF InOrder
    <2>1. PICK r \in Seq(CoarsePacket) : accepted = delivered \o r
      BY DEF IInv, Flow, Starts
    <2>2. delivered \in Seq(CoarsePacket) /\ accepted \in Seq(CoarsePacket)
      BY DEF IInv, TypeOK
    <2>3. /\ Len(accepted) = Len(delivered) + Len(r) /\ Len(delivered) \in Nat /\ Len(r) \in Nat
          /\ \A i \in 1..Len(delivered) : accepted[i] = delivered[i]
      BY <2>1, <2>2
    <2>4. SubSeq(accepted, 1, Len(delivered)) = delivered
      <3> DEFINE s == SubSeq(accepted, 1, Len(delivered))
      <3>1. s \in Seq(CoarsePacket) /\ Len(s) = Len(delivered)
            /\ \A i \in 1..Len(delivered) : s[i] = accepted[i]
        BY <2>2, <2>3
      <3> HIDE DEF s
      <3>2. s = delivered
        BY <2>2, <2>3, <3>1, SeqEqual
      <3> QED BY <3>2 DEF s
    <2> QED BY <2>2, <2>3, <2>4 DEF IsPrefix
  <1> QED BY Invariant, <1>1, PTL

(* A command that succeeds has cut the stream cleanly: its caller holds    *)
(* all that was captured before it, a stop has delivered the tails of the  *)
(* frames too, and the change behind the command finds nothing of the old  *)
(* plan in the PFB stream, the channels or the thread.                     *)
THEOREM CutsClean == Spec => []CleanCut
  <1>1. IInv => CleanCut
    <2> SUFFICES ASSUME IInv PROVE CleanCut
      OBVIOUS
    <2>1. BoundaryComplete
      BY AtBoundary DEF BoundaryComplete
    <2>2. StopComplete
      BY DEF StopComplete, IInv, Ended
    <2>3. QuiescentChange
      BY DEF QuiescentChange, IInv, Stage, Local, Ends
    <2> QED BY <2>1, <2>2, <2>3 DEF CleanCut, IInv
  <1> QED BY Invariant, <1>1, PTL

-----------------------------------------------------------------------------
(* An error in the queue is its last batch, and once the caller has seen   *)
(* it the queue is empty.                                                  *)
ErrorLast ==
  /\ sticky => output = <<>>
  /\ \A i \in 1..Len(output) : ~output[i].ok => i = Len(output)

(* Two sequences of packets that join to nothing are both empty.           *)
LEMMA NothingJoined ==
  ASSUME NEW a \in Seq(CoarsePacket), NEW b \in Seq(CoarsePacket), a \o b = <<>>
  PROVE  a = <<>> /\ b = <<>>
  <1>1. Len(a \o b) = Len(a) + Len(b) /\ Len(<<>>) = 0
    OBVIOUS
  <1>2. Len(a) \in Nat /\ Len(b) \in Nat
    OBVIOUS
  <1>3. Len(a) = 0 /\ Len(b) = 0
    BY <1>1, <1>2
  <1> QED BY <1>3, EmptySeq

(* Batches that carry nothing together carry nothing each.                 *)
LEMMA CarriedEmpty ==
  ASSUME NEW s \in Seq(Batches), Carried(s) = <<>>, NEW i \in 1..Len(s)
  PROVE  s[i].out.frames = <<>>
  <1> DEFINE k == i - 1
             a == SubSeq(s, 1, k)
             b == SubSeq(s, k + 1, Len(s))
  <1>1. k \in 0..Len(s) /\ k + 1 = i /\ Len(s) \in Nat /\ s[i] \in Batches
    OBVIOUS
  <1> HIDE DEF k
  <1>2. b[1] = s[i] /\ b # <<>>
    <2>1. b = SubSeq(s, i, Len(s)) /\ i \in 1..Len(s)
      BY <1>1
    <2> HIDE DEF b
    <2>2. Len(b) = Len(s) - i + 1 /\ b \in Seq(Batches) /\ b[1] = s[i]
      BY <1>1, <2>1
    <2>3. Len(b) > 0
      BY <1>1, <2>1, <2>2
    <2> QED BY <2>2, <2>3, EmptySeq
  <1>3. a \in Seq(Batches) /\ b \in Seq(Batches) /\ Carried(s) = Carried(a) \o Carried(b)
    BY <1>1, CarriedSplit
  <1> HIDE DEF a, b
  <1>4. Tail(b) \in Seq(Batches) /\ Head(b) = s[i]
    BY <1>2, <1>3
  <1>5. Carried(b) = s[i].out.frames \o Carried(Tail(b))
    BY <1>2, <1>3, <1>4, CarriedHead
  <1>6. /\ Carried(a) \in Seq(CoarsePacket) /\ Carried(b) \in Seq(CoarsePacket)
        /\ Carried(Tail(b)) \in Seq(CoarsePacket) /\ s[i].out.frames \in Seq(CoarsePacket)
    BY <1>1, <1>2, <1>3, <1>4, CarriedType DEF Batches, Output
  <1>7. Carried(b) = <<>>
    BY <1>3, <1>6, NothingJoined
  <1>8. s[i].out.frames = <<>>
    BY <1>5, <1>6, <1>7, NothingJoined
  <1> QED BY <1>8

(* A poll that sees the failure takes all that is in the queue; otherwise  *)
(* what it leaves is the end of the queue.                                 *)
LEMMA PollTakesAll ==
  ASSUME TypeOK, ErrorLast, TakePoll
  PROVE  /\ PollFails => output' = <<>> /\ Carried(Taken) = Carried(output)
         /\ ErrorLast'
  <1> DEFINE rest == IF sticky THEN output ELSE SubSeq(output, Len(Taken) + 1, Len(output))
  <1>1. output \in Seq(Batches) /\ pending \in Output /\ sticky \in BOOLEAN
    BY DEF TypeOK
  <1>2. /\ \A i \in 1..Len(Taken) : Taken[i] = output[i]
        /\ Len(Taken) <= Len(output) /\ Taken \in Seq(Batches) /\ rest \in Seq(Batches)
        /\ Carried(output) = Carried(Taken) \o Carried(rest)
        /\ ~sticky => (rest # <<>> => Len(Taken) = PollMax)
        /\ ~sticky => \A i \in 1..Len(rest) :
                        i + Len(Taken) \in 1..Len(output) /\ rest[i] = output[i + Len(Taken)]
    BY <1>1, TakenIs
  <1>3. output' = rest /\ sticky' = PollFails
    BY DEF TakePoll
  <1>4. /\ Len(Taken) \in Nat /\ Len(output) \in Nat /\ PollMax \in Nat /\ Len(rest) \in Nat
        /\ rest # <<>> => Len(rest) > 0
    BY <1>1, <1>2, PipelineAssumption, FineAssumption
  <1>5. sticky => rest = <<>>
    BY DEF ErrorLast
  <1>6. ~sticky => Len(rest) = Len(output) - Len(Taken)
    BY <1>1, <1>2, <1>4
  <1> HIDE DEF rest
  <1>7. PollFails => rest = <<>>
    <2>1. CASE sticky
      BY <1>5, <2>1
    <2>2. ASSUME ~sticky, NEW i \in 1..Len(Taken), ~Taken[i].ok PROVE rest = <<>>
      <3>1. i \in 1..Len(output) /\ ~output[i].ok
        BY <1>2, <1>4, <2>2
      <3>2. i = Len(output)
        BY <3>1 DEF ErrorLast
      <3> QED BY <1>4, <1>6, <2>2, <3>2
    <2>3. CASE ~sticky /\ pc = "gone" /\ Len(output) < PollMax
      BY <1>2, <1>4, <2>3
    <2> QED BY <2>1, <2>2, <2>3 DEF PollFails
  <1>8. rest = <<>> => Carried(Taken) = Carried(output)
    <2>1. Carried(Taken) \in Seq(CoarsePacket)
      BY <1>2, CarriedType
    <2>2. Carried(Taken) \o <<>> = Carried(Taken)
      BY <2>1, ConcatEmptySeq
    <2> QED BY <1>2, <2>2, CarriedNone
  <1>9. \A i \in 1..Len(output') : ~output'[i].ok => i = Len(output')
    <2>1. CASE sticky
      BY <1>3, <1>5, <2>1
    <2>2. ASSUME ~sticky, NEW i \in 1..Len(rest), ~rest[i].ok PROVE i = Len(rest)
      <3>1. i + Len(Taken) \in 1..Len(output) /\ ~output[i + Len(Taken)].ok
        BY <1>2, <2>2
      <3>2. i + Len(Taken) = Len(output)
        BY <3>1 DEF ErrorLast
      <3> QED BY <1>4, <1>6, <2>2, <3>2
    <2> QED BY <1>3, <2>1, <2>2
  <1> QED BY <1>3, <1>7, <1>8, <1>9 DEF ErrorLast

(* Every step keeps the error at the end of the queue: the producer sends  *)
(* nothing after it.                                                       *)
LEMMA ErrorStep ==
  ASSUME IInv, ErrorLast, Next \/ UNCHANGED vars PROVE ErrorLast'
  <1> USE DEF fine, source, ddc, control, boundary, held, history
  <1>1. TypeOK /\ output \in Seq(Batches)
    BY DEF IInv, TypeOK
  <1>2. ASSUME NEW b, output' = Append(output, b), UNCHANGED sticky,
               ~(sticky \/ Failed(output))
        PROVE  ErrorLast'
    <2>1. /\ Len(output') = Len(output) + 1 /\ Len(output) \in Nat
          /\ \A i \in 1..Len(output) : output'[i] = output[i] /\ output[i].ok
      BY <1>1, <1>2 DEF Failed
    <2> QED BY <1>2, <2>1 DEF ErrorLast
  <1>3. CASE Emit
    <2>1. ~(sticky \/ Failed(output)) /\ UNCHANGED sticky
      BY <1>3 DEF Emit, IInv, Stage
    <2>2. output' = output \/ \E b : output' = Append(output, b)
      BY <1>3 DEF Emit
    <2> QED BY <1>2, <2>1, <2>2 DEF ErrorLast
  <1>4. CASE SendError
    <2>1. ~(sticky \/ Failed(output)) /\ UNCHANGED sticky /\ output' = Append(output, Error)
      BY <1>4 DEF SendError, IInv, Stage
    <2> QED BY <1>2, <2>1
  <1>5. CASE Poll \/ BoundaryPoll
    BY <1>1, <1>5, PollTakesAll DEF Poll, BoundaryPoll
  <1>6. CASE ReplyArrives
    <2>1. output' = <<>>
      BY <1>1, <1>6 DEF ReplyArrives, Queued
    <2> QED BY <2>1 DEF ErrorLast
  <1>7. CASE LastRecv
    <2>1. output' = Tail(output) /\ UNCHANGED sticky /\ output # <<>>
      BY <1>7 DEF LastRecv
    <2>2. /\ Len(output') = Len(output) - 1 /\ Len(output) \in Nat
          /\ \A i \in 1..Len(output') : i + 1 \in 1..Len(output) /\ output'[i] = output[i + 1]
      BY <1>1, <2>1
    <2>3. ASSUME NEW i \in 1..Len(output'), ~output'[i].ok PROVE i = Len(output')
      <3>1. i + 1 = Len(output)
        BY <2>2, <2>3 DEF ErrorLast
      <3> QED BY <2>2, <3>1
    <2>4. ~sticky'
      BY <2>1 DEF ErrorLast
    <2> QED BY <2>3, <2>4 DEF ErrorLast
  <1>8. CASE TakeCommand \/ Packet \/ HandOver \/ InSubmit \/ DrainCollect \/ DrainFails
    BY <1>8 DEF TakeCommand, Packet, HandOver, InSubmit, DrainCollect, DrainFails, ErrorLast
  <1>9. CASE FinishFine \/ Refuse \/ Change \/ Reply \/ Restart \/ Exit \/ Worker
    BY <1>9 DEF FinishFine, Refuse, Change, Reply, Restart, Exit, Worker, ErrorLast
  <1>10. CASE SendCommand \/ ReplyTimeout \/ Joined \/ Resume
    BY <1>10 DEF SendCommand, ReplyTimeout, Joined, Resume, ErrorLast
  <1>11. CASE (\E c \in Changes : Ask(c)) \/ Ask("stop")
    BY <1>11 DEF Ask, ErrorLast
  <1>12. CASE UNCHANGED vars
    BY <1>12 DEF vars, ErrorLast
  <1> QED BY <1>3, <1>4, <1>5, <1>6, <1>7, <1>8, <1>9, <1>10, <1>11, <1>12
          DEF Next, Producer, Caller, Free

(* For every capacity and whatever fails, poll reports the failure of the  *)
(* producer only when the caller has everything that was sent before it.   *)
THEOREM FailureLast == Spec => TailsFirst
  <1> DEFINE Inv == IInv /\ ErrorLast
  <1>1. Init => Inv
    BY InitHolds DEF Init, ErrorLast
  <1>2. Inv /\ [Next]_vars => Inv'
    BY Kept, ErrorStep
  <1>3. Inv /\ [Next]_vars =>
          [told' /\ ~told => /\ output' = <<>> /\ pending.frames = <<>>
                             /\ \A i \in 1..Len(output) : output[i].out.frames = <<>>]_vars
    <2> SUFFICES ASSUME Inv, Next, told', ~told
                 PROVE  /\ output' = <<>> /\ pending.frames = <<>>
                        /\ \A i \in 1..Len(output) : output[i].out.frames = <<>>
      OBVIOUS
    <2>1. Poll /\ PollErrs
      <3>1. ~(told' = told)
        OBVIOUS
      <3>2. ~Producer /\ ~Worker
        BY <3>1 DEF Producer, TakeCommand, Packet, HandOver, InSubmit, DrainCollect,
                    DrainFails, Emit, SendError, FinishFine, Refuse, Change, Reply,
                    Restart, Exit, Worker, history, held
      <3>3. ~Caller /\ ~Resume /\ \A c : ~Ask(c)
        BY <3>1 DEF Caller, SendCommand, BoundaryPoll, ReplyTimeout, ReplyArrives, LastRecv,
                    Joined, Resume, Ask, history, held
      <3> QED BY <3>1, <3>2, <3>3 DEF Next, Free, Poll
    <2>2. TypeOK /\ output \in Seq(Batches) /\ pending \in Output /\ sticky \in BOOLEAN
      BY DEF IInv, TypeOK
    <2>3. output' = <<>> /\ Carried(Taken) = Carried(output)
      BY <2>1, <2>2, PollTakesAll DEF Poll, PollErrs, Reports
    <2>4. Polled.frames = pending.frames \o Carried(output) /\ Polled.frames = <<>>
      BY <2>1, <2>2, <2>3, TakenIs, OutputType DEF PollErrs, Reports
    <2>5. pending.frames = <<>> /\ Carried(output) = <<>>
      <3> DEFINE a == pending.frames
                 b == Carried(output)
      <3>1. a \in Seq(CoarsePacket) /\ b \in Seq(CoarsePacket)
        BY <2>2, CarriedType DEF Output
      <3>2. a \o b = <<>>
        BY <2>4
      <3> HIDE DEF a, b
      <3>3. a = <<>> /\ b = <<>>
        BY <3>1, <3>2, NothingJoined
      <3> QED BY <3>3 DEF a, b
    <2> QED BY <2>2, <2>3, <2>5, CarriedEmpty
  <1> QED BY <1>1, <1>2, <1>3, PTL DEF Spec, TailsFirst

-----------------------------------------------------------------------------
(* What the snapshots, and the spectra on their way, say of the capture.   *)
All(s, g) == \A x \in s : x = g
Spectra(s) == JoinAll(s).pan

(* The change behind the command is done and its answer is not yet read.   *)
ChangeDone == \/ pc = "reply" /\ verdict
              \/ reply # <<>> /\ reply[1].ok

(* The published snapshot is of the present capture; the caller's is not   *)
(* later, and an answer brings the present one.                            *)
Snaps ==
  /\ shared.generation = generation /\ shared.input <= next_seq
  /\ NotAfter(snapshot, shared)
  /\ pc = "reply" => shared = Snap
  /\ reply # <<>> => reply[1].snap = Snap /\ (reply[1].ok => shared = Snap)

(* What the producer has is of the present capture, and at the end of a    *)
(* boundary nothing is pending.                                            *)
Pans ==
  /\ All(pan, generation)
  /\ reply # <<>> => All(reply[1].out.pan, generation)
  /\ caller \in {"recv", "resume"} => pending.pan = {}

(* What is on its way to the caller is of the capture its snapshot         *)
(* describes; in a boundary, of the one it described when that began,      *)
(* which is the present one unless the change is done.                     *)
OnTheWay ==
  ~broken =>
    /\ caller = "idle" => /\ snapshot.generation = generation
                          /\ All(pending.pan \cup Spectra(output), generation)
    /\ caller \in {"send", "full", "poll", "recv"} =>
         /\ All(pending.pan \cup out.pan \cup Spectra(output), previous)
         /\ snapshot.generation \in {previous, generation}
         /\ generation = previous \/ ChangeDone
    /\ caller = "resume" => All(out.pan, generation) /\ snapshot.generation = generation

Shown == Snaps /\ Pans /\ OnTheWay

(* Snapshots are ordered.                                                  *)
LEMMA NotAfterFacts ==
  /\ \A a \in Snapshot : NotAfter(a, a)
  /\ \A a, b, c \in Snapshot : NotAfter(a, b) /\ NotAfter(b, c) => NotAfter(a, c)
  BY DEF Snapshot, NotAfter

(* The spectra of batches are those of each of them.                       *)
LEMMA SpectraIs ==
  \A s, x : x \in Spectra(s) <=> \E i \in 1..Len(s) : x \in s[i].out.pan
  BY DEF Spectra, JoinAll

(* No batches have none, and a batch sent adds its own.                    *)
LEMMA SpectraFacts ==
  /\ Spectra(<<>>) = {}
  /\ \A s \in Seq(Batches), b \in Batches :
       \A x \in Spectra(Append(s, b)) : x \in Spectra(s) \/ x \in b.out.pan
  <1>1. Spectra(<<>>) = {}
    BY SpectraIs
  <1>2. ASSUME NEW s \in Seq(Batches), NEW b \in Batches, NEW x \in Spectra(Append(s, b))
        PROVE  x \in Spectra(s) \/ x \in b.out.pan
    <2>1. PICK i \in 1..Len(Append(s, b)) : x \in Append(s, b)[i].out.pan
      BY <1>2, SpectraIs
    <2>2. Len(Append(s, b)) = Len(s) + 1 /\ Len(s) \in Nat
      OBVIOUS
    <2>3. CASE i \in 1..Len(s)
      <3>1. Append(s, b)[i] = s[i]
        BY <2>3
      <3> QED BY <2>1, <2>3, <3>1, SpectraIs
    <2>4. CASE i = Len(s) + 1
      <3>1. Append(s, b)[i] = b
        BY <2>2, <2>4
      <3> QED BY <2>1, <3>1
    <2> QED BY <2>2, <2>3, <2>4
  <1> QED BY <1>1, <1>2

(* A poll adds no spectra, and finds no failure while an answer is to      *)
(* come.                                                                   *)
LEMMA PollSpectra ==
  ASSUME IInv, TakePoll
  PROVE  /\ Polled.pan \subseteq pending.pan \cup Spectra(output)
         /\ Spectra(output') \subseteq Spectra(output)
         /\ snapshot' \in {snapshot, shared}
         /\ PollErrs => pc \in {"exit", "gone"}
  <1> DEFINE rest == IF sticky THEN output ELSE SubSeq(output, Len(Taken) + 1, Len(output))
  <1>1. TypeOK /\ output \in Seq(Batches) /\ pending \in Output /\ sticky \in BOOLEAN
    BY DEF IInv, TypeOK
  <1>2. /\ \A i \in 1..Len(Taken) : Taken[i] = output[i]
        /\ Len(Taken) <= Len(output) /\ Taken \in Seq(Batches)
        /\ ~sticky => \A i \in 1..Len(rest) :
                        i + Len(Taken) \in 1..Len(output) /\ rest[i] = output[i + Len(Taken)]
    BY <1>1, TakenIs
  <1>3. output' = rest
    BY DEF TakePoll
  <1>4. sticky => rest = output
    OBVIOUS
  <1> HIDE DEF rest
  <1>5. \A i \in 1..Len(Taken) : i \in 1..Len(output)
    <2>1. Len(Taken) \in Nat /\ Len(output) \in Nat
      BY <1>1, <1>2
    <2> QED BY <1>2, <2>1
  <1>6. \A x \in Spectra(Taken) : x \in Spectra(output)
    BY <1>2, <1>5, SpectraIs
  <1>7. \A x \in Spectra(rest) : x \in Spectra(output)
    <2>1. CASE sticky
      BY <1>4, <2>1
    <2>2. CASE ~sticky
      <3>1. ASSUME NEW i \in 1..Len(rest) PROVE \E j \in 1..Len(output) : rest[i] = output[j]
        BY <1>2, <2>2
      <3> QED BY <3>1, SpectraIs, ZenonT(60)
    <2> QED BY <2>1, <2>2
  <1>8. Polled.pan = pending.pan \cup Spectra(Taken)
    BY DEF Polled, Join, Spectra
  <1>9. PollErrs => pc \in {"exit", "gone"}
    <2>1. PollErrs => sticky'
      BY DEF PollErrs, Reports, TakePoll
    <2> QED BY <1>1, <2>1, FailedPoll DEF IInv, Stage
  <1> QED BY <1>3, <1>6, <1>7, <1>8, <1>9 DEF TakePoll

(* A stage that broke stays broken.                                        *)
LEMMA BrokenStays ==
  ASSUME IInv, Next \/ UNCHANGED vars, broken PROVE broken'
  <1> USE DEF fine, source, ddc, control, boundary, held, history
  <1>1. CASE HandOver \/ InSubmit \/ DrainCollect \/ FinishFine \/ Worker
    BY <1>1 DEF HandOver, InSubmit, DrainCollect, FinishFine, Worker, SubmitCollect,
       Collect, TrySend, Finish, FinishRecv, FinishJoin,
       Thread, Deliver, Send, HangUp, Submit, state
  <1>2. CASE Exit
    BY <1>2 DEF Exit, DropWorker, DropRecv, DropJoin, state
  <1>3. CASE Restart \/ Change
    BY <1>3 DEF Restart, Change, IInv, Stage
  <1>4. CASE TakeCommand \/ Packet \/ DrainFails \/ Emit \/ SendError \/ Refuse \/ Reply
    BY <1>4 DEF TakeCommand, Packet, DrainFails, Emit, SendError, Refuse, Reply
  <1>5. CASE Caller \/ Resume \/ Poll \/ (\E c \in Changes : Ask(c)) \/ Ask("stop")
    BY <1>5 DEF Caller, SendCommand, BoundaryPoll, ReplyTimeout, ReplyArrives, LastRecv,
       Joined, Resume, Poll, Ask
  <1>6. CASE UNCHANGED vars
    BY <1>6 DEF vars
  <1> QED BY <1>1, <1>2, <1>3, <1>4, <1>5, <1>6 DEF Next, Producer, Free

(* Every step keeps what the snapshots say, and the caller's never goes    *)
(* back.                                                                   *)
LEMMA SnapsStep ==
  ASSUME IInv, Snaps, Next \/ UNCHANGED vars
  PROVE  Snaps' /\ NotAfter(snapshot, snapshot')
  <1> USE DEF fine, source, ddc, control, boundary, held, history
  <1>1. /\ snapshot \in Snapshot /\ shared \in Snapshot /\ Snap \in Snapshot
        /\ generation \in Nat /\ next_seq \in Nat
    BY SnapType DEF IInv, TypeOK
  <1>2. /\ shared.generation = generation /\ shared.input <= next_seq
        /\ NotAfter(snapshot, shared) /\ NotAfter(snapshot, snapshot)
        /\ NotAfter(shared, shared) /\ NotAfter(shared, Snap)
        /\ NotAfter(snapshot, Snap)
    <2>1. NotAfter(shared, Snap)
      BY DEF Snaps, NotAfter, Snap
    <2> QED BY <1>1, <2>1, NotAfterFacts DEF Snaps
  <1>3. Snap.generation = generation /\ Snap.input = next_seq /\ next_seq <= next_seq
    BY <1>1 DEF Snap
  <1>4. pc # "parked" => reply = <<>>
    BY DEF IInv, Meet
  <1>5. ASSUME UNCHANGED <<shared, generation, next_seq>>, snapshot' \in {snapshot, shared},
               pc' = "reply" => pc = "reply", reply' # <<>> => reply' = reply
        PROVE  Snaps' /\ NotAfter(snapshot, snapshot')
    <2>1. Snap' = Snap
      BY <1>5 DEF Snap
    <2> QED BY <1>2, <1>5, <2>1 DEF Snaps
  <1>6. ASSUME UNCHANGED <<generation, snapshot>>, shared' \in {shared, Snap},
               next_seq' \in {next_seq, next_seq + 1}, pc' # "reply", reply' = <<>>
        PROVE  Snaps' /\ NotAfter(snapshot, snapshot')
    <2>1. /\ shared'.generation = generation' /\ shared'.input <= next_seq'
          /\ NotAfter(snapshot', shared')
      BY <1>1, <1>2, <1>3, <1>6 DEF Snapshot
    <2> QED BY <1>2, <1>6, <2>1 DEF Snaps
  <1>7. CASE TakeCommand \/ HandOver \/ InSubmit \/ DrainCollect \/ SendError \/ FinishFine
    BY <1>5, <1>7 DEF TakeCommand, HandOver, InSubmit, DrainCollect, SendError, FinishFine
  <1>8. CASE Restart \/ Exit \/ Worker \/ SendCommand \/ ReplyTimeout \/ LastRecv \/ Joined
    BY <1>5, <1>8 DEF Restart, Exit, Worker, SendCommand, ReplyTimeout, LastRecv, Joined
  <1>9. CASE Poll \/ BoundaryPoll
    <2>1. snapshot' \in {snapshot, shared}
      BY <1>9, PollSpectra DEF Poll, BoundaryPoll
    <2> QED BY <1>5, <1>9, <2>1 DEF Poll, BoundaryPoll
  <1>10. CASE Resume \/ (\E c \in Changes : Ask(c)) \/ Ask("stop") \/ UNCHANGED vars
    BY <1>5, <1>10 DEF Resume, Ask, vars
  <1>11. CASE Packet \/ DrainFails \/ Emit
    <2>1. /\ UNCHANGED <<generation, snapshot, reply>> /\ shared' \in {shared, Snap}
          /\ next_seq' \in {next_seq, next_seq + 1} /\ pc' # "reply" /\ pc # "parked"
      BY <1>11 DEF Packet, DrainFails, Emit, Fail
    <2> QED BY <1>4, <1>6, <2>1
  <1>12. CASE Change
    <2>1. /\ UNCHANGED <<snapshot, reply>> /\ shared' = Snap' /\ pc # "parked"
          /\ \/ UNCHANGED <<generation, next_seq>>
             \/ generation' = generation + 1 /\ next_seq' = 0
      BY <1>12 DEF Change, Publish, Rejected, Finished
    <2>2. /\ Snap'.generation = generation' /\ Snap'.input = next_seq'
          /\ next_seq' <= next_seq' /\ NotAfter(snapshot, Snap')
      BY <1>1, <1>2, <1>3, <2>1 DEF Snap, NotAfter, Snapshot
    <2> QED BY <1>2, <1>4, <2>1, <2>2 DEF Snaps
  <1>13. CASE Refuse \/ Reply
    <2>1. /\ UNCHANGED <<snapshot, shared, generation, next_seq>> /\ pc' = "parked"
          /\ reply' # <<>> /\ reply'[1].snap = Snap /\ (reply'[1].ok => pc = "reply")
      BY <1>13 DEF Refuse, Reply
    <2>2. Snap' = Snap
      BY <2>1 DEF Snap
    <2> QED BY <1>2, <2>1, <2>2 DEF Snaps
  <1>14. CASE ReplyArrives
    <2>1. /\ UNCHANGED <<shared, generation, next_seq, pc>> /\ reply # <<>> /\ reply' = <<>>
          /\ snapshot' = IF reply[1].ok THEN reply[1].snap ELSE snapshot
      BY <1>14 DEF ReplyArrives
    <2>2. snapshot' \in {snapshot, shared}
      BY <2>1 DEF Snaps
    <2> QED BY <1>5, <2>1, <2>2
  <1> QED BY <1>7, <1>8, <1>9, <1>10, <1>11, <1>12, <1>13, <1>14 DEF Next, Producer, Caller, Free

(* Every step keeps what the producer has of the present capture.          *)
LEMMA PansStep ==
  ASSUME IInv, Pans, Next \/ UNCHANGED vars PROVE Pans'
  <1> USE DEF fine, source, ddc, control, boundary, held, history
  <1>1. pc # "parked" => reply = <<>>
    BY DEF IInv, Meet
  <1>2. ASSUME pan' \subseteq pan \cup {generation}, UNCHANGED generation,
               reply' # <<>> => reply' = reply,
               caller' \in {"recv", "resume"} => UNCHANGED <<caller, pending>>
        PROVE  Pans'
    BY <1>2 DEF Pans, All
  <1>3. CASE TakeCommand \/ HandOver \/ InSubmit \/ DrainCollect \/ DrainFails \/ SendError
    BY <1>2, <1>3 DEF TakeCommand, HandOver, InSubmit, DrainCollect, DrainFails, SendError
  <1>4. CASE Packet \/ Emit \/ FinishFine \/ Restart \/ Exit \/ Worker
    BY <1>2, <1>4 DEF Packet, Emit, FinishFine, Restart, Exit, Worker
  <1>5. CASE Change
    <2>1. /\ UNCHANGED <<reply, caller, pending>> /\ pc # "parked"
          /\ UNCHANGED <<generation, pan>> \/ pan' = {}
      BY <1>5 DEF Change, Rejected, Finished
    <2> QED BY <1>1, <2>1 DEF Pans, All
  <1>6. CASE Refuse \/ Reply
    <2>1. /\ UNCHANGED <<generation, caller, pending>> /\ pan' \subseteq pan
          /\ reply'[1].out.pan \subseteq pan
      BY <1>6, OutputType DEF Refuse, Reply, Nothing
    <2> QED BY <2>1 DEF Pans, All
  <1>7. CASE Poll \/ (\E c \in Changes : Ask(c)) \/ Ask("stop") \/ LastRecv \/ Joined
    BY <1>2, <1>7 DEF Poll, Ask, LastRecv, Joined
  <1>8. CASE SendCommand \/ ReplyTimeout
    <2>1. caller' \notin {"recv", "resume"}
      BY <1>8 DEF SendCommand, ReplyTimeout, Broken, Await
    <2> QED BY <1>2, <1>8, <2>1 DEF SendCommand, ReplyTimeout
  <1>9. CASE BoundaryPoll
    <2>1. caller' \in {"recv", "resume"} => pending'.pan = {}
      BY <1>9 DEF BoundaryPoll, Broken, Nothing
    <2> QED BY <1>9, <2>1 DEF BoundaryPoll, Pans
  <1>10. CASE ReplyArrives
    BY <1>10 DEF ReplyArrives, Pans
  <1>11. CASE Resume
    <2>1. caller' \notin {"recv", "resume"}
      BY <1>11 DEF Resume
    <2> QED BY <1>11, <2>1 DEF Resume, Pans
  <1>12. CASE UNCHANGED vars
    BY <1>2, <1>12 DEF vars
  <1> QED BY <1>3, <1>4, <1>5, <1>6, <1>7, <1>8, <1>9, <1>10, <1>11, <1>12
          DEF Next, Producer, Caller, Free

(* Every step keeps what is on its way to the caller of the capture that   *)
(* its snapshot describes.                                                 *)
LEMMA OnTheWayStep ==
  ASSUME IInv, Shown, Next \/ UNCHANGED vars PROVE OnTheWay'
  <1> USE DEF fine, source, ddc, control, boundary, held, history
  <1>1. SUFFICES ASSUME ~broken' PROVE OnTheWay'
    BY DEF OnTheWay
  <1>2. ~broken
    BY <1>1, BrokenStays
  <1>3. /\ caller = "idle" => /\ snapshot.generation = generation
                              /\ All(pending.pan \cup Spectra(output), generation)
        /\ caller \in {"send", "full", "poll", "recv"} =>
             /\ All(pending.pan \cup out.pan \cup Spectra(output), previous)
             /\ snapshot.generation \in {previous, generation}
             /\ generation = previous \/ ChangeDone
        /\ caller = "resume" => All(out.pan, generation) /\ snapshot.generation = generation
    BY <1>2 DEF Shown, OnTheWay
  <1>4. /\ All(pan, generation) /\ shared.generation = generation
        /\ reply # <<>> => All(reply[1].out.pan, generation) /\ reply[1].snap = Snap
        /\ caller \in {"recv", "resume"} => pending.pan = {}
    BY DEF Shown, Snaps, Pans
  <1>5. /\ reply # <<>> => pc = "parked" /\ caller \in {"poll", "recv"}
        /\ caller = "resume" => output = <<>> /\ reply = <<>> /\ pc = "parked"
        /\ caller \in {"send", "full"} => reply = <<>> /\ cmd = "none"
    BY DEF IInv, Meet
  <1>6. pc \notin {"reply", "parked"} => ~ChangeDone
    BY <1>5 DEF ChangeDone
  <1>7. TypeOK /\ output \in Seq(Batches) /\ pending \in Output /\ out \in Output
    BY DEF IInv, TypeOK
  (* What happens in the producer and the fine stage. *)
  <1>8. ASSUME UNCHANGED <<caller, previous, pending, out, snapshot, generation>>,
               Spectra(output') = Spectra(output), ChangeDone => ChangeDone'
        PROVE  OnTheWay'
    BY <1>3, <1>8 DEF OnTheWay, All
  <1>9. CASE TakeCommand \/ Packet \/ HandOver \/ InSubmit \/ DrainCollect \/ DrainFails
    <2>1. pc \notin {"reply", "parked"} /\ UNCHANGED output
          /\ UNCHANGED <<caller, previous, pending, out, snapshot, generation>>
      BY <1>9 DEF TakeCommand, Packet, HandOver, InSubmit, DrainCollect, DrainFails,
         SubmitCollect, TrySend, IInv, Stage, Local, Ends
    <2> QED BY <1>6, <1>8, <2>1
  <1>10. CASE FinishFine \/ Refuse \/ Restart \/ Exit
    <2>1. pc \notin {"reply", "parked"} /\ UNCHANGED output
          /\ UNCHANGED <<caller, previous, pending, out, snapshot, generation>>
      BY <1>10 DEF FinishFine, Refuse, Restart, Exit
    <2> QED BY <1>6, <1>8, <2>1
  <1>11. CASE Reply \/ Worker
    BY <1>5, <1>8, <1>11 DEF Reply, Worker, ChangeDone
  <1>12. CASE Emit
    <2> DEFINE b == Batch([frames |-> frames, pan |-> pan])
    <2>1. b \in Batches /\ b.out.pan = pan
      BY <1>7, OutputType, DdcOutput
    <2>2. /\ UNCHANGED <<caller, previous, pending, out, snapshot, generation>> /\ pc = "emit"
          /\ output' = output \/ output' = Append(output, b)
      BY <1>12 DEF Emit
    <2> HIDE DEF b
    <2>3. \A x \in Spectra(output') : x \in Spectra(output) \/ x = generation
      BY <1>4, <1>7, <2>1, <2>2, SpectraFacts DEF All
    <2> QED BY <1>3, <1>5, <1>6, <2>2, <2>3 DEF OnTheWay, All
  <1>13. CASE SendError
    <2>1. /\ UNCHANGED <<caller, previous, pending, out, snapshot, generation>>
          /\ pc = "failed" /\ output' = Append(output, Error)
      BY <1>13 DEF SendError
    <2>2. Error \in Batches /\ Error.out.pan = {}
      BY OutputType DEF Nothing
    <2>3. \A x \in Spectra(output') : x \in Spectra(output)
      BY <1>7, <2>1, <2>2, SpectraFacts
    <2> QED BY <1>3, <1>6, <2>1, <2>3 DEF OnTheWay, All
  <1>14. CASE Change
    <2>1. /\ UNCHANGED <<caller, previous, pending, out, snapshot, output, reply>>
          /\ pc = "change" /\ pc' = "reply"
          /\ generation' = generation \/ verdict'
      BY <1>1, <1>14 DEF Change, Rejected, Finished
    <2>2. caller \in {"poll", "recv"}
      BY <1>5, <2>1 DEF IInv, Stage, Meet
    <2>3. generation = previous /\ snapshot.generation = previous
      BY <1>3, <1>6, <2>1, <2>2
    <2>4. generation' = previous \/ ChangeDone'
      BY <2>1, <2>3 DEF ChangeDone
    <2> QED BY <1>3, <2>1, <2>2, <2>3, <2>4 DEF OnTheWay
  (* What the caller does. *)
  <1>15. CASE Poll
    <2>1. /\ caller = "idle" /\ caller' = "idle" /\ TakePoll /\ pending' = Nothing
          /\ UNCHANGED generation
      BY <1>15 DEF Poll
    <2>2. Spectra(output') \subseteq Spectra(output) /\ snapshot' \in {snapshot, shared}
      BY <2>1, PollSpectra
    <2> QED BY <1>3, <1>4, <2>1, <2>2 DEF OnTheWay, All, Nothing
  <1>16. CASE (\E c \in Changes : Ask(c)) \/ Ask("stop")
    <2>1. /\ caller = "idle" /\ caller' = "send" /\ previous' = snapshot.generation
          /\ out' = Nothing /\ UNCHANGED <<generation, snapshot, pending, output>>
      BY <1>16 DEF Ask
    <2> QED BY <1>3, <2>1 DEF OnTheWay, All, Nothing
  <1>17. ASSUME caller \in {"send", "full", "poll", "recv"}, ~ChangeDone,
                UNCHANGED <<snapshot, generation>>, caller' \in {"idle", "last"},
                pending'.pan \subseteq pending.pan \cup out.pan,
                Spectra(output') \subseteq Spectra(output)
         PROVE  OnTheWay'
    BY <1>3, <1>17 DEF OnTheWay, All
  <1>18. \A a, b \in Output : Join(a, b).pan = a.pan \cup b.pan
    BY DEF Join
  <1>19. CASE SendCommand
    <2>1. CASE pc = "gone"
      <3>1. /\ caller \in {"send", "full", "poll", "recv"} /\ UNCHANGED <<snapshot, generation>>
            /\ caller' \in {"idle", "last"} /\ pending' = Join(pending, out)
            /\ UNCHANGED output
        BY <1>19, <2>1 DEF SendCommand, Broken
      <3> QED BY <1>6, <1>7, <1>17, <1>18, <2>1, <3>1
    <2>2. CASE pc # "gone"
      <3>1. /\ caller = "send" /\ caller' \in {"poll", "full"}
            /\ UNCHANGED <<pending, out, previous, output, snapshot, generation, pc,
                           verdict, reply>>
        BY <1>19, <2>2 DEF SendCommand, Await
      <3> QED BY <1>3, <3>1 DEF OnTheWay, ChangeDone
    <2> QED BY <2>1, <2>2
  <1>20. CASE ReplyTimeout
    <2>1. CASE caller' = "poll"
      <3>1. /\ caller = "recv"
            /\ UNCHANGED <<pending, out, previous, output, snapshot, generation, pc,
                           verdict, reply>>
        BY <1>20, <2>1 DEF ReplyTimeout, Broken
      <3> QED BY <1>3, <2>1, <3>1 DEF OnTheWay, ChangeDone
    <2>2. CASE caller' # "poll"
      <3>1. /\ caller = "recv" /\ UNCHANGED <<snapshot, generation>>
            /\ caller' \in {"idle", "last"} /\ pending' = Join(pending, out)
            /\ UNCHANGED output /\ pc = "gone"
        BY <1>20, <2>2 DEF ReplyTimeout, Broken, Await
      <3> QED BY <1>6, <1>7, <1>17, <1>18, <3>1
    <2> QED BY <2>1, <2>2
  <1>21. CASE BoundaryPoll
    <2>1. /\ caller \in {"full", "poll"} /\ TakePoll
          /\ UNCHANGED <<generation, pc, verdict, reply>>
      BY <1>21 DEF BoundaryPoll
    <2>2. /\ Polled.pan \subseteq pending.pan \cup Spectra(output)
          /\ Spectra(output') \subseteq Spectra(output)
          /\ snapshot' \in {snapshot, shared}
          /\ PollErrs => pc \in {"exit", "gone"}
      BY <2>1, PollSpectra
    <2>3. CASE PollErrs
      <3>1. caller' \in {"idle", "last"} /\ pending' = out
        BY <1>21, <2>3 DEF BoundaryPoll, Broken
      <3>2. UNCHANGED snapshot
        BY <2>1, <2>3 DEF TakePoll
      <3> QED BY <1>6, <1>17, <2>1, <2>2, <2>3, <3>1, <3>2
    <2>4. CASE ~PollErrs
      <3>1. /\ out' = Join(out, Polled) /\ pending' = Nothing /\ UNCHANGED previous
            /\ caller' \in {"send", "recv"}
        BY <1>21, <2>4 DEF BoundaryPoll
      <3>2. out'.pan \subseteq out.pan \cup pending.pan \cup Spectra(output)
        BY <2>2, <3>1 DEF Join
      <3>3. All(pending'.pan \cup out'.pan \cup Spectra(output'), previous)
        BY <1>3, <2>1, <2>2, <3>1, <3>2 DEF All, Nothing
      <3>4. snapshot'.generation \in {previous, generation}
        BY <1>3, <1>4, <2>1, <2>2
      <3>5. generation = previous \/ ChangeDone'
        BY <1>3, <2>1 DEF ChangeDone
      <3> QED BY <2>1, <3>1, <3>3, <3>4, <3>5 DEF OnTheWay
    <2> QED BY <2>3, <2>4
  <1>22. CASE ReplyArrives
    <2> DEFINE r == reply[1]
               all == TailLast(out, JoinAll(Queued), r.out)
    <2>1. /\ caller = "recv" /\ reply # <<>> /\ caller' = "resume" /\ UNCHANGED generation
          /\ r.ok => /\ out' = IF CaptureChanged(r.snap) THEN [all EXCEPT !.pan = {}] ELSE all
                     /\ snapshot' = r.snap
          /\ ~r.ok => out' = all /\ UNCHANGED snapshot
      BY <1>22 DEF ReplyArrives
    <2>2. all.pan = (out.pan \cup Spectra(output)) \cup r.out.pan
      BY DEF TailLast, Join, Queued, Spectra
    <2>3. All(r.out.pan, generation) /\ r.snap.generation = generation
      BY <1>4, <2>1 DEF Snap
    <2>4. generation = previous => All(all.pan, generation)
      BY <1>3, <2>1, <2>2, <2>3 DEF All
    <2>5. ~r.ok => generation = previous
      BY <1>3, <1>5, <2>1 DEF ChangeDone
    <2>6. [all EXCEPT !.pan = {}].pan = {}
      BY DEF TailLast, Join
    <2> HIDE DEF all
    <2>7. CASE r.ok
      <3>1. CASE generation # previous
        <4>1. CaptureChanged(r.snap)
          BY <2>3, <3>1 DEF CaptureChanged
        <4>2. out'.pan = {} /\ snapshot'.generation = generation
          BY <2>1, <2>3, <2>6, <2>7, <4>1
        <4> QED BY <2>1, <4>2 DEF OnTheWay, All
      <3>2. CASE generation = previous
        <4>1. ~CaptureChanged(r.snap)
          BY <2>3, <3>2 DEF CaptureChanged
        <4>2. out' = all /\ snapshot'.generation = generation
          BY <2>1, <2>3, <2>7, <4>1
        <4> QED BY <2>1, <2>4, <3>2, <4>2 DEF OnTheWay
      <3> QED BY <3>1, <3>2
    <2>8. CASE ~r.ok
      <3>1. out' = all /\ snapshot' = snapshot /\ snapshot.generation = generation
        BY <1>3, <2>1, <2>5, <2>8
      <3> QED BY <2>1, <2>4, <2>5, <2>8, <3>1 DEF OnTheWay
    <2> QED BY <2>7, <2>8
  <1>23. CASE LastRecv \/ Joined
    <2>1. caller' \in {"last", "stopped"}
      BY <1>23 DEF LastRecv, Joined
    <2> QED BY <2>1 DEF OnTheWay
  <1>24. CASE Resume
    <2>1. /\ caller = "resume" /\ caller' \in {"last", "idle"}
          /\ UNCHANGED <<snapshot, generation, output>>
          /\ caller' = "idle" => \/ pending' = [pending EXCEPT !.pan = @ \cup out.pan]
                                 \/ pending' = Join(pending, out)
      BY <1>24 DEF Resume
    <2>2. pending.pan = {} /\ Spectra(output) = {}
      BY <1>4, <1>5, <2>1, SpectraFacts
    <2>3. caller' = "idle" => pending'.pan \subseteq out.pan
      BY <1>7, <1>18, <2>1, <2>2 DEF Output
    <2> QED BY <1>3, <2>1, <2>2, <2>3 DEF OnTheWay, All
  <1>25. CASE UNCHANGED vars
    BY <1>8, <1>25 DEF vars, ChangeDone
  <1> QED BY <1>9, <1>10, <1>11, <1>12, <1>13, <1>14, <1>15, <1>16, <1>19, <1>20, <1>21,
             <1>22, <1>23, <1>24, <1>25 DEF Next, Producer, Caller, Free

(* For every number of recaptures, and whatever fails, no spectrum of a    *)
(* capture that has been replaced is on its way to the caller between two  *)
(* commands, and the snapshot it sees never goes back.                     *)
THEOREM PresentShown == Spec => NothingOldShown
  <1> DEFINE Inv == IInv /\ Shown
  <1>1. Init => Inv
    <2> SUFFICES ASSUME Init PROVE Shown
      BY InitHolds
    <2>1. Snap.generation = 0 /\ Snap.input = 0 /\ Nothing.pan = {} /\ Spectra(<<>>) = {}
      BY SpectraFacts DEF Init, Snap, Nothing
    <2> QED BY <2>1 DEF Init, Shown, Snaps, Pans, OnTheWay, All, NotAfter
  <1>2. Inv /\ [Next]_vars => Inv' /\ NotAfter(snapshot, snapshot')
    BY Kept, SnapsStep, PansStep, OnTheWayStep DEF Shown
  <1>3. Inv => PanCurrent
    <2> SUFFICES ASSUME Inv, caller = "idle", ~broken
                 PROVE  \A g \in pending.pan \cup JoinAll(output).pan \cup pan :
                          g = snapshot.generation
      BY DEF PanCurrent
    <2> QED BY DEF Shown, Pans, OnTheWay, All, Spectra
  <1>4. Inv /\ [Next]_vars => [PanCurrent' /\ NotAfter(snapshot, snapshot')]_vars
    <2>1. Inv' => PanCurrent'
      BY <1>3, PTL
    <2> QED BY <1>2, <2>1
  <1> QED BY <1>1, <1>2, <1>4, PTL DEF Spec, NothingOldShown
=============
