------------------------------ MODULE Pipeline ------------------------------
(***************************************************************************)
(* The SDR pipeline of backend/src/bin/websad/sdr_pipeline.rs: a producer  *)
(* thread that owns the Ddc (capture, PFB stream, fine stage) sends IQ     *)
(* frames and spectra over a bounded channel to the caller, and serves one *)
(* command of the caller's at a time at a boundary where everything before *)
(* the command is delivered and nothing after it has begun.                *)
(*                                                                         *)
(* The fine stage is module FineWorker; the PFB stream is the queue that   *)
(* OrderedPipe specifies; the capture is its next packet of the current    *)
(* generation, or an error.  A packet is named by the generation of its    *)
(* capture, for the epoch of its plan, and its number.  Spectra are told   *)
(* apart by generation only, so a list of spectra is a set of generations. *)
(***************************************************************************)
EXTENDS FineWorker, FiniteSetsExt

CONSTANTS
  QueueCap,     \* capacity of the output channel
  PollMax,      \* batches one poll collects
  PoolHold,     \* packets the PFB workers may still hold when a drain ends
  Changes,      \* the changes commands make: keep, configure, recapture
  MaxCommands   \* bound: commands in a behaviour, stop not counted

ASSUME PipelineAssumption ==
  /\ QueueCap \in Nat \ {0} /\ PollMax \in Nat \ {0} /\ PoolHold \in Nat
  /\ Changes \subseteq {"keep", "configure", "recapture"}
  /\ MaxCommands \in Nat

VARIABLES
  \* the producer
  pc,          \* loop, packet, drain, emit, failed, finish, refuse, change,
               \* reply, parked, restart, exit, gone
  cmd,         \* the change it is serving, or none
  pool,        \* packets in the PFB stream, in order
  next_seq, generation, pan,
  verdict,     \* the change and the clocks succeeded
  doomed,      \* stop, or the Ddc cannot go on
  \* shared
  commands, output, reply, shared,
  \* the caller
  caller,      \* idle, send, full, poll, recv, resume, last, stopped
  request,     \* the change it asked for
  previous,    \* capture generation when it did
  out,         \* what the boundary has gathered
  pending,     \* pending_frames and pending_pan
  sticky,      \* Pipeline::failure is set
  snapshot,    \* Pipeline::snapshot
  good,        \* the boundary succeeded
  \* history
  accepted,    \* packets the PFB stream accepted, in order
  delivered,   \* packets in the frames the caller was given, in order
  told,        \* a poll has reported the failure
  served       \* commands begun

fine     == <<call, packet, frames, failure, tx, input, rx, worker, result,
              framer, bank, broken, submitted>>
source   == <<pool, next_seq, generation, pan, accepted>>
ddc      == <<fine, source>>
control  == <<cmd, verdict, doomed>>
boundary == <<request, previous, out, good>>
held     == <<pending, sticky, snapshot>>
history  == <<delivered, told, served>>
vars == <<ddc, pc, control, commands, output, reply, shared, caller, boundary,
          held, history>>

Nothing == [frames |-> <<>>, pan |-> {}]
Batch(o) == [ok |-> TRUE, out |-> o]
Error == [ok |-> FALSE, out |-> Nothing]
Join(a, b) == [frames |-> a.frames \o b.frames, pan |-> a.pan \cup b.pan]
JoinAll(s) == [frames |-> FlattenSeq([i \in 1..Len(s) |-> s[i].out.frames]),
               pan |-> UNION {s[i].out.pan : i \in 1..Len(s)}]

(* pipeline_snapshot: the capture generation and the producer's input      *)
(* position, which is the number of the next packet.                       *)
Snap == [generation |-> generation, input |-> next_seq]

(* A drain ends when the stream has nothing ready.  Before a command it    *)
(* was flushed, so that is when it is empty.                               *)
Drained == Len(pool) <= IF cmd = "none" THEN PoolHold ELSE 0

(* send waits for a free place in the output channel.                      *)
CanSend == Len(output) < QueueCap

(* finish_framers, in stop and in every change that replaces a channel.    *)
FinishesTail == cmd \in {"stop", "configure", "recapture"}

(* The producer publishes the snapshot that it replies with.               *)
Publish(s) == s

(* A poll that finds a failure still returns what it collected.  The fault *)
(* reports the failure at once.                                            *)
ReportsAtOnce(o, failed) == failed
Reports(o, failed) == failed /\ o = Nothing

(* Everything already emitted precedes the boundary tail.  The faults put  *)
(* the tail first, and leave what was emitted for the next poll.           *)
TailFirst(o, queued, tail) == Join(Join(o, tail), queued)
TailLast(o, queued, tail) == Join(Join(o, queued), tail)
LeaveQueue == <<>>
Queued == output

(* capture_boundary compares with the capture when the command was sent.   *)
(* The fault compares with the snapshot a poll may have refreshed since.   *)
CaptureChangedLate(s) == s.generation # snapshot.generation
CaptureChanged(s) == s.generation # previous

(* The caller polls every time before it waits for the reply.  The fault   *)
(* only waits.                                                             *)
WaitOnly == "recv"
Await == "poll"

Init ==
  /\ FineInit
  /\ pc = "restart" /\ cmd = "none" /\ verdict = TRUE /\ doomed = FALSE
  /\ pool = <<>> /\ next_seq = 0 /\ generation = 0 /\ pan = {} /\ accepted = <<>>
  /\ commands = <<>> /\ output = <<>> /\ reply = <<>> /\ shared = Snap
  /\ caller = "idle" /\ request = "none" /\ previous = 0 /\ out = Nothing
  /\ good = TRUE /\ pending = Nothing /\ sticky = FALSE /\ snapshot = Snap
  /\ delivered = <<>> /\ told = FALSE /\ served = 0

-----------------------------------------------------------------------------
(* The producer.                                                           *)

TakeCommand ==
  /\ pc = "loop"
  /\ IF commands = <<>>
     THEN pc' = "packet" /\ UNCHANGED <<cmd, commands, served>>
     ELSE /\ pc' = "drain" /\ cmd' = Head(commands) /\ commands' = <<>>
          /\ served' = served + 1
  /\ UNCHANGED <<ddc, verdict, doomed, output, reply, shared, caller, boundary,
                 held, delivered, told>>

Fail == pc' = "failed" /\ shared' = Snap

(* The capture is quiet at the bound, which a command counts towards.      *)
Quiet == Len(accepted) + served >= MaxPackets

(* Ddc::packet up to its drain.  The capture fails, or the stamps have a   *)
(* gap; or a packet enters the PFB stream, with a spectrum or without.     *)
Packet ==
  /\ pc = "packet"
  /\ \/ Fail /\ UNCHANGED source
     \/ /\ ~Quiet
        /\ LET p == [epoch |-> generation, seq |-> next_seq]
           IN pool' = Append(pool, p) /\ accepted' = Append(accepted, p)
        /\ next_seq' = next_seq + 1
        /\ pan' \in {pan, pan \cup {generation}}
        /\ pc' = "drain" /\ UNCHANGED <<generation, shared>>
     \/ /\ Quiet
        /\ pc' = "loop" /\ UNCHANGED <<source, shared>>
  /\ UNCHANGED <<fine, control, commands, output, reply, caller, boundary,
                 held, history>>

(* Ddc::drain: the next ready packet goes to the fine worker.              *)
HandOver ==
  /\ pc = "drain" /\ pool # <<>> /\ Submit(Head(pool))
  /\ pool' = Tail(pool)
  /\ UNCHANGED <<pc, next_seq, generation, pan, accepted, control, commands,
                 output, reply, shared, caller, boundary, held, history>>

InSubmit ==
  /\ SubmitCollect \/ TrySend
  /\ UNCHANGED <<pc, source, control, commands, output, reply, shared, caller,
                 boundary, held, history>>

DrainCollect ==
  /\ pc = "drain" /\ call = "idle" /\ Drained /\ Collect("idle")
  /\ pc' = IF call' = "error" THEN "drain" ELSE IF cmd = "none" THEN "emit" ELSE "finish"
  /\ UNCHANGED <<source, control, commands, output, reply, shared, caller,
                 boundary, held, history>>

(* An error of the drain drops the frames the drain had collected.         *)
DrainFails ==
  /\ pc = "drain" /\ call = "error"
  /\ frames' = <<>>
  /\ IF cmd = "none" THEN Fail ELSE pc' = "refuse" /\ UNCHANGED shared
  /\ UNCHANGED <<call, packet, failure, tx, input, rx, worker, result, framer,
                 bank, broken, submitted, source, control, commands, output,
                 reply, caller, boundary, held, history>>

(* output.send blocks while the channel is full; the snapshot is published *)
(* every 50 ms.                                                            *)
Emit ==
  /\ pc = "emit" /\ pc' = "loop"
  /\ IF frames = <<>> /\ pan = {} THEN UNCHANGED output
     ELSE /\ CanSend
          /\ output' = Append(output, Batch([frames |-> frames, pan |-> pan]))
  /\ frames' = <<>> /\ pan' = {} /\ shared' \in {shared, Snap}
  /\ UNCHANGED <<call, packet, failure, tx, input, rx, worker, result, framer,
                 bank, broken, submitted, pool, next_seq, generation, accepted,
                 control, commands, reply, caller, boundary, held, history>>

SendError ==
  /\ pc = "failed" /\ CanSend
  /\ output' = Append(output, Error) /\ pc' = "exit"
  /\ UNCHANGED <<ddc, control, commands, reply, shared, caller, boundary, held,
                 history>>

(* The rest of suspend_fine: the worker gives the fine stage back.         *)
FinishFine ==
  /\ pc = "finish"
  /\ Finish \/ FinishRecv \/ FinishJoin
  /\ pc' = CASE call' = "stopped" -> "change" [] call' = "lost" -> "refuse"
             [] OTHER -> "finish"
  /\ UNCHANGED <<source, control, commands, output, reply, shared, caller,
                 boundary, held, history>>

(* suspend_fine failed: an error without a tail, and no way on.            *)
Refuse ==
  /\ pc = "refuse" /\ pc' = "parked"
  /\ reply' = <<[ok |-> FALSE, out |-> Nothing, snap |-> Snap]>>
  /\ frames' = <<>> /\ doomed' = TRUE
  /\ UNCHANGED <<call, packet, failure, tx, input, rx, worker, result, framer,
                 bank, broken, submitted, source, cmd, verdict, commands,
                 output, shared, caller, boundary, held, history>>

(* The change, with the fine stage in the Ddc's hands: it is rejected      *)
(* before it touches anything, or it finishes the frames and, for a        *)
(* recapture, replaces the plan; a capture that cannot be reconfigured     *)
(* ends the pipeline.  Then the clocks are sampled, which may break the    *)
(* stage, and the snapshot is published.                                   *)
Rejected == UNCHANGED <<frames, framer, bank, source>>
Finished(new) ==
  /\ IF FinishesTail THEN frames' = frames \o framer /\ framer' = <<>>
                     ELSE UNCHANGED <<frames, framer>>
  /\ IF new THEN /\ generation' = generation + 1 /\ next_seq' = 0 /\ pan' = {}
                 /\ bank' = [epoch |-> generation + 1, seq |-> 0]
            ELSE UNCHANGED <<generation, next_seq, pan, bank>>
  /\ UNCHANGED <<pool, accepted>>

Change ==
  /\ pc = "change" /\ pc' = "reply"
  /\ \E changed, clocks, captured \in BOOLEAN :
       /\ changed \/ cmd # "keep"
       /\ captured \/ (cmd = "recapture" /\ ~changed)
       /\ IF changed THEN Finished(cmd = "recapture") ELSE Rejected
       /\ broken' = ~clocks
       /\ verdict' = (changed /\ clocks)
       /\ doomed' = (cmd = "stop" \/ ~captured)
  /\ shared' = Publish(Snap')
  /\ UNCHANGED <<call, packet, failure, tx, input, rx, worker, result,
                 submitted, cmd, commands, output, reply, caller, boundary,
                 held, history>>

Reply ==
  /\ pc = "reply" /\ pc' = "parked"
  /\ reply' = <<[ok |-> verdict, out |-> [frames |-> frames, pan |-> pan],
                 snap |-> Snap]>>
  /\ frames' = <<>> /\ pan' = {}
  /\ UNCHANGED <<call, packet, failure, tx, input, rx, worker, result, framer,
                 bank, broken, submitted, pool, next_seq, generation, accepted,
                 control, commands, output, shared, caller, boundary, held,
                 history>>

(* resume_fine.  Its error goes to the output channel and ends the loop.   *)
Restart ==
  /\ pc = "restart"
  /\ IF broken THEN pc' = "failed" /\ UNCHANGED fine
     ELSE Start /\ pc' = IF served = 0 THEN "loop" ELSE "packet"
  /\ UNCHANGED <<source, control, commands, output, reply, shared, caller,
                 boundary, held, history>>

(* The loop was left: the Ddc is dropped with its fine worker, and then    *)
(* both channels, with a command that was still waiting.                   *)
Exit ==
  /\ pc = "exit"
  /\ \/ /\ DropWorker \/ DropRecv \/ DropJoin
        /\ UNCHANGED <<pc, commands>>
     \/ /\ call \in {"stopped", "lost"}
        /\ pc' = "gone" /\ commands' = <<>> /\ UNCHANGED fine
  /\ UNCHANGED <<source, control, output, reply, shared, caller, boundary,
                 held, history>>

Producer == TakeCommand \/ Packet \/ HandOver \/ InSubmit \/ DrainCollect
            \/ DrainFails \/ Emit \/ SendError \/ FinishFine \/ Refuse
            \/ Change \/ Reply \/ Restart \/ Exit

Worker ==
  /\ Thread
  /\ UNCHANGED <<pc, source, control, commands, output, reply, shared, caller,
                 boundary, held, history>>

-----------------------------------------------------------------------------
(* The caller.  poll, inside a boundary or not: the pending output, then   *)
(* at most PollMax batches.  A failure is remembered, and reported once    *)
(* there is nothing left to return.  Every 50 ms poll takes the published  *)
(* snapshot.  An error in the queue adds nothing to the output.            *)

Taken == IF sticky THEN <<>> ELSE SubSeq(output, 1, Min({Len(output), PollMax}))
PollFails == \/ sticky
             \/ \E i \in 1..Len(Taken) : ~Taken[i].ok
             \/ pc = "gone" /\ Len(output) < PollMax
Polled == Join(pending, JoinAll(Taken))
PollErrs == Reports(Polled, PollFails)

TakePoll ==
  /\ output' = IF sticky THEN output
               ELSE SubSeq(output, Len(Taken) + 1, Len(output))
  /\ sticky' = PollFails
  /\ snapshot' \in IF PollErrs THEN {snapshot} ELSE {snapshot, shared}

Poll ==
  /\ caller = "idle" /\ TakePoll /\ pending' = Nothing
  /\ IF PollErrs THEN told' = TRUE /\ UNCHANGED delivered
     ELSE delivered' = delivered \o Polled.frames /\ UNCHANGED told
  /\ UNCHANGED <<ddc, pc, control, commands, reply, shared, caller, boundary,
                 served>>

Ask(change) ==
  /\ caller = "idle"
  /\ caller' = "send" /\ request' = change /\ previous' = snapshot.generation
  /\ out' = Nothing /\ reply' = <<>>
  /\ UNCHANGED <<ddc, pc, control, commands, output, shared, good, held,
                 history>>

(* The boundary returns; its own variables are gone.                       *)
Over == request' = "none" /\ previous' = 0

(* The boundary failed: what it gathered stays for the next poll.          *)
Broken ==
  /\ Over
  /\ good' = (request # "stop") /\ out' = Nothing
  /\ caller' = IF request = "stop" THEN "last" ELSE "idle"

(* try_send until the command slot takes the command, with a poll between. *)
SendCommand ==
  /\ caller = "send"
  /\ \/ /\ pc = "gone" /\ Broken /\ pending' = Join(pending, out)
        /\ UNCHANGED commands
     \/ /\ pc # "gone" /\ commands = <<>>
        /\ commands' = <<request>> /\ caller' = Await
        /\ UNCHANGED <<boundary, pending>>
     \/ /\ pc # "gone" /\ commands # <<>>
        /\ caller' = "full" /\ UNCHANGED <<commands, boundary, pending>>
  /\ UNCHANGED <<ddc, pc, control, output, reply, shared, sticky, snapshot,
                 history>>

BoundaryPoll ==
  /\ caller \in {"full", "poll"} /\ TakePoll
  /\ IF PollErrs
     THEN Broken /\ pending' = out
     ELSE /\ out' = Join(out, Polled) /\ pending' = Nothing
          /\ caller' = IF caller = "full" THEN "send" ELSE "recv"
          /\ UNCHANGED <<request, previous, good>>
  /\ UNCHANGED <<ddc, pc, control, commands, reply, shared, history>>

(* recv_timeout on the reply.  The reply precedes the resumption, so the   *)
(* producer has nothing more to emit when the queue is read to its end.    *)
ReplyTimeout ==
  /\ caller = "recv" /\ reply = <<>>
  /\ \/ /\ pc # "gone" /\ caller' = Await /\ UNCHANGED <<boundary, pending>>
     \/ /\ pc = "gone" /\ Broken /\ pending' = Join(pending, out)
  /\ UNCHANGED <<ddc, pc, control, commands, output, reply, shared, sticky,
                 snapshot, history>>

ReplyArrives ==
  /\ caller = "recv" /\ reply # <<>>
  /\ LET r == Head(reply)
         all == TailLast(out, JoinAll(Queued), r.out)
     IN /\ good' = r.ok
        /\ IF r.ok
           THEN /\ out' = IF CaptureChanged(r.snap) THEN [all EXCEPT !.pan = {}]
                          ELSE all
                /\ snapshot' = r.snap
           ELSE out' = all /\ UNCHANGED snapshot
  /\ output' = SubSeq(output, Len(Queued) + 1, Len(output))
  /\ reply' = <<>> /\ caller' = "resume"
  /\ UNCHANGED <<ddc, pc, control, commands, shared, request, previous,
                 pending, sticky, history>>

(* resume.send meets resume.recv.  command hands its frames to the caller  *)
(* and keeps its spectra for the next poll.                                *)
Resume ==
  /\ caller = "resume" /\ pc = "parked"
  /\ pc' = IF doomed THEN "exit" ELSE "restart"
  /\ cmd' = "none" /\ verdict' = TRUE /\ doomed' = FALSE /\ Over
  /\ IF request = "stop"
     THEN /\ caller' = "last"
          /\ IF good THEN UNCHANGED <<out, pending>>
             ELSE pending' = Join(pending, out) /\ out' = Nothing
          /\ UNCHANGED <<delivered, good>>
     ELSE /\ caller' = "idle" /\ out' = Nothing /\ good' = TRUE
          /\ IF good THEN /\ delivered' = delivered \o out.frames
                          /\ pending' = [pending EXCEPT !.pan = @ \cup out.pan]
             ELSE pending' = Join(pending, out) /\ UNCHANGED delivered
  /\ UNCHANGED <<ddc, commands, output, reply, shared, sticky, snapshot, told,
                 served>>

(* stop after its boundary: the rest of the queue, until the producer is   *)
(* gone.  Frames are kept as long as there was no error.                   *)
LastRecv ==
  /\ caller = "last" /\ output # <<>>
  /\ output' = Tail(output)
  /\ good' = (good /\ Head(output).ok)
  /\ out' = IF good /\ Head(output).ok THEN Join(out, Head(output).out) ELSE Nothing
  /\ UNCHANGED <<ddc, pc, control, commands, reply, shared, caller, request,
                 previous, held, history>>

Joined ==
  /\ caller = "last" /\ output = <<>> /\ pc = "gone"
  /\ caller' = "stopped" /\ delivered' = delivered \o out.frames
  /\ out' = Nothing
  /\ UNCHANGED <<ddc, pc, control, commands, output, reply, shared, request,
                 previous, good, held, told, served>>

Caller == SendCommand \/ BoundaryPoll \/ ReplyTimeout \/ ReplyArrives
          \/ LastRecv \/ Joined

Free ==
  \/ Poll
  \/ served < MaxCommands /\ \E c \in Changes : Ask(c)
  \/ Ask("stop")

Next == Producer \/ Worker \/ Caller \/ Resume \/ Free

Spec == Init /\ [][Next]_vars
FairSpec == Spec /\ WF_vars(Producer) /\ WF_vars(Worker) /\ WF_vars(Caller \/ Resume)

-----------------------------------------------------------------------------
Output == [frames : Seq(CoarsePacket), pan : SUBSET Nat]
Snapshot == [generation : Nat, input : Nat]
Requests == Changes \cup {"stop"}
Batches == [ok : BOOLEAN, out : Output]
Replies == [ok : BOOLEAN, out : Output, snap : Snapshot]

TypeOK ==
  /\ FineTypeOK
  /\ pc \in {"loop", "packet", "drain", "emit", "failed", "finish", "refuse",
             "change", "reply", "parked", "restart", "exit", "gone"}
  /\ cmd \in Requests \cup {"none"} /\ verdict \in BOOLEAN /\ doomed \in BOOLEAN
  /\ pool \in Seq(CoarsePacket) /\ Len(pool) <= PoolHold + 1
  /\ next_seq \in Nat /\ generation \in Nat /\ pan \subseteq Nat
  /\ commands \in Seq(Requests) /\ Len(commands) <= 1
  /\ output \in Seq(Batches) /\ Len(output) <= QueueCap
  /\ reply \in Seq(Replies) /\ Len(reply) <= 1
  /\ shared \in Snapshot /\ snapshot \in Snapshot
  /\ caller \in {"idle", "send", "full", "poll", "recv", "resume", "last", "stopped"}
  /\ request \in Requests \cup {"none"} /\ previous \in Nat
  /\ out \in Output /\ pending \in Output
  /\ sticky \in BOOLEAN /\ good \in BOOLEAN /\ told \in BOOLEAN
  /\ accepted \in Seq(CoarsePacket) /\ delivered \in Seq(CoarsePacket)
  /\ served \in Nat

(* The IQ the caller is given is the IQ the capture produced, in order and *)
(* without a gap or a repetition, across commands, failures and recaptures.*)
InOrder == IsPrefix(delivered, accepted)

(* A command that succeeds cuts the stream: what its caller then holds is  *)
(* all that was captured before it, but the partial frame of a change that *)
(* leaves the framers alone.                                               *)
BoundaryComplete ==
  caller = "resume" /\ good => delivered \o out.frames \o framer = accepted

(* A stop that succeeds has delivered the whole capture, the tails of the  *)
(* frames included.                                                        *)
StopComplete == caller = "stopped" /\ good => delivered = accepted

(* A change finds the whole stream at rest: nothing of the old plan is in  *)
(* the PFB stream, in the fine stage's channels or in its thread.          *)
QuiescentChange ==
  pc = "change" => /\ pool = <<>> /\ input = <<>> /\ rx = <<>>
                   /\ worker = "none" /\ ~broken

(* The boundary of a command: the change behind it finds the stream at     *)
(* rest, and the caller has all of the stream before it.                   *)
CleanCut == TypeOK /\ BoundaryComplete /\ StopComplete /\ QuiescentChange

(* Between two commands of a pipeline that goes on, no spectrum of a       *)
(* capture other than the one the caller's snapshot describes is on its    *)
(* way to the caller.  (When the clocks fail after a recapture, old        *)
(* spectra stay pending and the error of the fine stage follows them.)     *)
PanCurrent ==
  caller = "idle" /\ ~broken =>
    \A g \in pending.pan \cup JoinAll(output).pan \cup pan : g = snapshot.generation

(* The failure of the producer is reported by poll after everything it had *)
(* sent before: the queue is read to its end and nothing is pending.       *)
TailsFirst ==
  [][told' /\ ~told => /\ output' = <<>> /\ pending.frames = <<>>
                       /\ \A i \in 1..Len(output) : output[i].out.frames = <<>>]_vars

(* A snapshot is of an earlier capture, or of an earlier position of the   *)
(* same one, or the same.                                                  *)
NotAfter(a, b) == \/ a.generation < b.generation
                  \/ a.generation = b.generation /\ a.input <= b.input
(* The caller sees nothing of a capture that has been replaced: no step    *)
(* leaves spectra of it on their way, and the snapshot never goes back.    *)
NothingOldShown == [][PanCurrent' /\ NotAfter(snapshot, snapshot')]_vars

(* Every command and every stop returns, whatever fills up or fails        *)
(* meanwhile.                                                              *)
CallReturns == caller \notin {"idle", "stopped"} ~> caller \in {"idle", "stopped"}
=============================================================================
