----------------------------- MODULE FineWorker -----------------------------
(***************************************************************************)
(* The fine and framing stage of the SDR pipeline, FineWorker and          *)
(* FineState of backend/src/bin/websad/sdr_pipeline.rs: coarse packets go  *)
(* to a thread over a bounded channel, come back as IQ frames over another *)
(* one, and the stage returns to its owner when the worker is finished.    *)
(*                                                                         *)
(* The channels rely on each other: the worker blocks while its output is  *)
(* full and the owner retries while the input is full, so only the owner's *)
(* collecting keeps both moving.  A frame is the sequence of packets whose *)
(* samples it carries; a stream of frames is their concatenation.          *)
(***************************************************************************)
EXTENDS Naturals, Sequences, SequencesExt

CONSTANTS
  InputCap,   \* capacity of the packet channel
  OutputCap,  \* capacity of the result channel
  FrameLen,   \* packets that fill an IQ frame
  MaxPackets  \* bound: packets submitted in a behaviour of this module alone

ASSUME FineAssumption ==
  /\ InputCap \in Nat \ {0} /\ OutputCap \in Nat \ {0}
  /\ FrameLen \in Nat \ {0} /\ MaxPackets \in Nat

VARIABLES
  call,      \* the owner: stopped, idle, collect, try, finish, error, drop, lost
  packet,    \* the packet submit is handing over
  frames,    \* the caller's vector of frames
  failure,   \* finish has received an error
  tx,        \* the owner holds the packet sender
  input,     \* packet channel
  rx,        \* result channel
  worker,    \* the thread: none, recv, send, gone
  result,    \* the result it is sending
  framer,    \* packets in the frame under construction
  bank,      \* the packet the bank accepts next (epoch and next_seq)
  broken,    \* the bank failed or its clocks could not be mapped
  submitted  \* history: the packets submit was given, in order

owner    == <<call, packet, frames, failure>>
channels == <<tx, input, rx>>
thread   == <<worker, result>>
state    == <<framer, bank, broken>>
fineVars == <<owner, channels, thread, state, submitted>>

CoarsePacket == [epoch : Nat, seq : Nat]
Result == [ok : BOOLEAN, frames : Seq(CoarsePacket)]
Silent == [ok |-> TRUE, frames |-> <<>>]
After(p) == [p EXCEPT !.seq = @ + 1]

(* BasebandFramer::push: a full frame is emitted, a partial one is kept.   *)
(* The fault emits the frame without the packet that filled it.            *)
PushLosing(p) ==
  IF Len(framer) + 1 = FrameLen THEN [out |-> framer, kept |-> <<>>]
  ELSE [out |-> <<>>, kept |-> Append(framer, p)]
Push(p) ==
  IF Len(framer) + 1 = FrameLen THEN [out |-> Append(framer, p), kept |-> <<>>]
  ELSE [out |-> <<>>, kept |-> Append(framer, p)]

(* What the thread sends: an error, or frames if there are any.  The fault *)
(* sends frames only.                                                      *)
WorthFrames(r) == r.frames # <<>>
Worth(r) == ~r.ok \/ r.frames # <<>>

(* Every turn of submit's loop collects before it tries to send.  The      *)
(* fault only tries.                                                       *)
TryOnly == "try"
Turn == "collect"

(* A packet is sent when the channel has a free place.                     *)
Room == Len(input) < InputCap

(* recv on the result channel reports the disconnection after the last     *)
(* result.                                                                 *)
Disconnected == worker = "gone" /\ rx = <<>>

FineInit ==
  /\ call = "stopped" /\ packet = [epoch |-> 0, seq |-> 0] /\ frames = <<>>
  /\ failure = FALSE /\ tx = FALSE /\ input = <<>> /\ rx = <<>>
  /\ worker = "none" /\ result = Silent
  /\ framer = <<>> /\ bank = [epoch |-> 0, seq |-> 0] /\ broken = FALSE
  /\ submitted = <<>>

-----------------------------------------------------------------------------
(* The thread.  A packet out of place or a failing channel breaks the bank *)
(* for good; failing to sample the clocks replaces a good result.          *)

Deliver ==
  LET p == Head(input)
      good == [ok |-> TRUE, frames |-> Push(p).out]
      bad  == [ok |-> FALSE, frames |-> <<>>]
  IN /\ worker = "recv" /\ input # <<>>
     /\ input' = Tail(input)
     /\ \/ /\ p = bank /\ ~broken
           /\ framer' = Push(p).kept /\ bank' = After(bank)
           /\ \/ result' = good /\ UNCHANGED broken
              \/ result' = bad /\ broken' = TRUE
        \/ /\ broken' = TRUE /\ result' = bad
           /\ UNCHANGED <<framer, bank>>
     /\ worker' = IF Worth(result') THEN "send" ELSE "recv"
     /\ UNCHANGED <<owner, tx, rx, submitted>>

Send ==
  /\ worker = "send" /\ Len(rx) < OutputCap
  /\ rx' = Append(rx, result) /\ result' = Silent
  /\ IF result.ok THEN worker' = "recv" /\ UNCHANGED input
                  ELSE worker' = "gone" /\ input' = <<>>
  /\ UNCHANGED <<owner, tx, state, submitted>>

HangUp ==
  /\ worker = "recv" /\ input = <<>> /\ ~tx
  /\ worker' = "gone"
  /\ UNCHANGED <<owner, channels, result, state, submitted>>

Thread == Deliver \/ Send \/ HangUp

-----------------------------------------------------------------------------
(* The owner.  collect extends the caller's vector up to the first error.  *)

Start ==
  /\ call = "stopped" /\ ~broken
  /\ call' = "idle" /\ tx' = TRUE /\ worker' = "recv"
  /\ UNCHANGED <<packet, frames, failure, input, rx, result, state, submitted>>

Errors == \E i \in 1..Len(rx) : ~rx[i].ok
Results(s) == FlattenSeq([i \in 1..Len(s) |-> s[i].frames])

Collect(next) ==
  /\ frames' = frames \o Results(rx) /\ rx' = <<>>
  /\ call' = IF Errors THEN "error" ELSE next
  /\ UNCHANGED <<packet, failure, tx, input, thread, state, submitted>>

SubmitCollect == call = "collect" /\ Collect("try")
CollectAlone  == call = "idle" /\ rx # <<>> /\ Collect("idle")

Submit(p) ==
  /\ call = "idle"
  /\ call' = Turn /\ packet' = p
  /\ submitted' = Append(submitted, p)
  /\ UNCHANGED <<frames, failure, channels, thread, state>>

TrySend ==
  /\ call = "try"
  /\ \/ /\ worker = "gone"
        /\ call' = "error" /\ UNCHANGED input
     \/ /\ worker # "gone" /\ Room
        /\ input' = Append(input, packet) /\ call' = "idle"
     \/ /\ worker # "gone" /\ ~Room
        /\ call' = Turn /\ UNCHANGED input
  /\ UNCHANGED <<packet, frames, failure, tx, rx, thread, state, submitted>>

Finish ==
  /\ call = "idle"
  /\ call' = "finish" /\ tx' = FALSE
  /\ UNCHANGED <<packet, frames, failure, input, rx, thread, state, submitted>>

FinishRecv ==
  /\ call = "finish" /\ rx # <<>>
  /\ frames' = frames \o Head(rx).frames
  /\ failure' = (failure \/ ~Head(rx).ok)
  /\ rx' = Tail(rx)
  /\ UNCHANGED <<call, packet, tx, input, thread, state, submitted>>

FinishJoin ==
  /\ call = "finish" /\ Disconnected
  /\ worker' = "none" /\ rx' = <<>>
  /\ call' = IF failure THEN "lost" ELSE "stopped"
  /\ UNCHANGED <<packet, frames, failure, tx, input, result, state, submitted>>

(* Drop for FineWorker, whether or not a call of the owner's has failed.   *)
DropWorker ==
  /\ call \in {"idle", "error"}
  /\ call' = "drop" /\ tx' = FALSE
  /\ UNCHANGED <<packet, frames, failure, input, rx, thread, state, submitted>>

DropRecv ==
  /\ call = "drop" /\ rx # <<>> /\ rx' = Tail(rx)
  /\ UNCHANGED <<owner, tx, input, thread, state, submitted>>

DropJoin ==
  /\ call = "drop" /\ Disconnected
  /\ worker' = "none" /\ call' = "lost" /\ rx' = <<>>
  /\ UNCHANGED <<packet, frames, failure, tx, input, result, state, submitted>>

(* Ddc::finish_framers: the partial frame, while the owner has the stage.  *)
FinishFramers ==
  /\ call = "stopped" /\ framer # <<>>
  /\ frames' = frames \o framer /\ framer' = <<>>
  /\ UNCHANGED <<call, packet, failure, channels, thread, bank, broken, submitted>>

InCall == SubmitCollect \/ TrySend \/ FinishRecv \/ FinishJoin
          \/ DropRecv \/ DropJoin

FineFree ==
  \/ Start \/ CollectAlone \/ Finish \/ DropWorker \/ FinishFramers
  \/ Len(submitted) < MaxPackets /\ Submit([epoch |-> 0, seq |-> Len(submitted)])

FineNext == Thread \/ InCall \/ FineFree

FineSpec == FineInit /\ [][FineNext]_fineVars
FineFairSpec == FineSpec /\ WF_fineVars(Thread) /\ WF_fineVars(InCall)

-----------------------------------------------------------------------------
FineTypeOK ==
  /\ call \in {"stopped", "idle", "collect", "try", "finish", "error", "drop", "lost"}
  /\ packet \in CoarsePacket /\ frames \in Seq(CoarsePacket) /\ failure \in BOOLEAN
  /\ tx \in BOOLEAN /\ input \in Seq(CoarsePacket) /\ Len(input) <= InputCap
  /\ rx \in Seq(Result) /\ Len(rx) <= OutputCap
  /\ worker \in {"none", "recv", "send", "gone"} /\ result \in Result
  /\ framer \in Seq(CoarsePacket) /\ Len(framer) < FrameLen
  /\ bank \in CoarsePacket /\ broken \in BOOLEAN /\ submitted \in Seq(CoarsePacket)

Handing == IF call \in {"collect", "try"} THEN <<packet>> ELSE <<>>

(* Until the stage breaks or is dropped, every packet given to submit is   *)
(* in exactly one place, and reading the caller's vector, the result       *)
(* channel, the result being sent, the partial frame, the packet channel   *)
(* and the packet in hand one after the other gives them in the order they *)
(* were submitted.                                                         *)
NothingLost ==
  ~broken /\ call \notin {"drop", "lost"} =>
    frames \o Results(rx) \o result.frames \o framer \o input \o Handing
    = submitted

(* When finish gives the stage back, the caller has every packet that was  *)
(* submitted except those in the partial frame.                            *)
FinishComplete == call = "stopped" => frames \o framer = submitted

(* No packet is lost on the way, nor when the stage is given back, and the *)
(* channels keep their bounds.                                             *)
AllHandedOn == FineTypeOK /\ NothingLost /\ FinishComplete

(* A stage that broke is never given back as good: finish reports the      *)
(* error even when the worker broke after the last submit returned.        *)
FailureReported == call = "stopped" => ~broken

(* Every call returns: submit is not caught between a full packet channel  *)
(* and a full result channel, and finish and Drop see the thread end.      *)
Busy == call \in {"collect", "try", "finish", "drop"}
FineReturns == Busy ~> ~Busy
=============================================================================
