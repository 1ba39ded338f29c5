---------------------------- MODULE ReceiverFeed ----------------------------
(***************************************************************************)
(* How channel IQ gets from the SDR pipeline to the receiver workers and   *)
(* their output to the subscribers, backend/src/bin/websad/sdr_hardware.rs *)
(* and service_stream.rs with the publisher and the command handlers of    *)
(* websad.rs.                                                              *)
(*                                                                         *)
(* The publisher polls the pipeline under the state lock, queues the batch *)
(* at the workers, encodes spectra without the lock, takes it again to     *)
(* drain the workers and sends the batch to the IQ clients.  Commands run  *)
(* under the lock between any two of these sections: they cut the streams, *)
(* drain the workers into pending_receiver, which is delivered before the  *)
(* new identities are published, and keep the batch in pending_iq for the  *)
(* IQ clients; consumed_receiver_iq remembers that the workers had it.     *)
(* Every action is one section of the lock.                                *)
(*                                                                         *)
(* Everything is kept per slot: no two slots ever share an identity, the   *)
(* pair of channel id and transport epoch, and nothing compares what two   *)
(* slots send.  The identities of a slot are counted from 1, 0 is none,    *)
(* and its frames are numbered from 1 in each of them.  The workers are a  *)
(* queue (ReceiverWorkers has the threads); the output for a frame has the *)
(* frame's number, the tail that closes a page has number 0.               *)
(***************************************************************************)
EXTENDS Selection, FiniteSets

CONSTANTS
  Slots,       \* channel slots, counted from 1
  MaxFrames,   \* bound: frames
  MaxCommands, \* bound: commands
  MaxFailures  \* bound: steps in which the capture or the workers fail

ASSUME FeedAssumption ==
  /\ Slots \subseteq Nat \ {0} /\ Slots # {} /\ IsFiniteSet(Slots)
  /\ MaxFrames \in Nat /\ MaxCommands \in Nat /\ MaxFailures \in Nat

VARIABLES
  \* DevState
  sdr,              \* the mode is sdr
  pipeline,         \* a pipeline runs
  registry,         \* its identity for every slot
  pending_iq, consumed,
  receivers,        \* none, live, broken, stopping, stopped
  failure,          \* of the receivers: none, pending, published
  pending_receiver, retiring,
  \* the workers
  queued, page,     \* page: the identity with an open page
  \* App
  identities,
  \* the publisher
  pc,               \* poll, finish, drain, send
  hand,             \* the detached batch
  stale,            \* the capture epoch has changed since the poll
  \* history
  made,             \* the frames made of every identity
  heard,            \* the output given to subscribers
  shown,            \* the frames sent to IQ clients
  exempt,           \* identities up to this one were there when workers failed
  fence,            \* identities up to this one are of an earlier capture epoch
  \* bounds
  frames, commands, hw, faults

device    == <<sdr, pipeline, registry>>
feed      == <<pending_iq, consumed>>
workers   == <<receivers, failure, queued, page>>
output    == <<pending_receiver, retiring>>
publisher == <<pc, hand, stale>>
history   == <<made, heard, shown, exempt, fence>>
bounds    == <<frames, commands, hw, faults>>
vars == <<device, feed, workers, output, identities, publisher, history, bounds>>

None == [s \in Slots |-> 0]
Nothing == [s \in Slots |-> <<>>]
Items == [id : Nat \ {0}, n : Nat]
Item(id, n) == [id |-> id, n |-> n]
ids == [s \in Slots |-> Len(made[s])]
(* Two sequences of every slot, one behind the other.                      *)
Extend(fs, gs) == [s \in Slots |-> fs[s] \o gs[s]]

Init ==
  /\ sdr = TRUE /\ pipeline = FALSE /\ registry = None
  /\ pending_iq = Nothing /\ consumed = [s \in Slots |-> {}]
  /\ receivers = "none" /\ failure = "none"
  /\ pending_receiver = Nothing /\ retiring = None
  /\ queued = Nothing /\ page = None
  /\ identities = None
  /\ pc = "poll" /\ hand = Nothing /\ stale = FALSE
  /\ made = Nothing /\ exempt = None /\ fence = None
  /\ heard = Nothing /\ shown = Nothing
  /\ frames = 0 /\ commands = 0 /\ hw = 0 /\ faults = 0

-----------------------------------------------------------------------------
(* Streams.                                                                *)

stream_registry == IF sdr /\ pipeline THEN registry ELSE None

(* One frame of each of the slots B, at most as many as the bound allows.  *)
Batches ==
  {B \in SUBSET {s \in Slots : registry[s] # 0} : frames + Cardinality(B) <= MaxFrames}
Batch(B) ==
  [s \in Slots |-> IF s \in B THEN <<Item(registry[s], made[s][registry[s]] + 1)>> ELSE <<>>]
Made(B) ==
  [s \in Slots |-> IF s \in B THEN [made[s] EXCEPT ![registry[s]] = @ + 1] ELSE made[s]]
Count(B) == frames' = frames + Cardinality(B)

(* The slots S get new identities, those of Off none.                      *)
Renamed(reg, m, S, Off) ==
  [s \in Slots |-> IF s \in Off THEN 0 ELSE IF s \in S THEN Len(m[s]) + 1 ELSE reg[s]]
Counted(m, S, Off) ==
  [s \in Slots |-> IF s \in S \ Off THEN Append(m[s], 0) ELSE m[s]]

-----------------------------------------------------------------------------
(* The workers: what they put out for a queue, given the open page.  A     *)
(* stream that replaces another one closes the page of that one first.     *)
Closing(p, id) == IF p \in {0, id} THEN <<>> ELSE <<Item(p, 0)>>
Process(p, q) ==
  FlattenSeq([i \in 1..Len(q) |->
                Append(Closing(IF i = 1 THEN p ELSE q[i - 1].id, q[i].id), q[i])])
PageAfter(p, q) == IF q = <<>> THEN p ELSE q[Len(q)].id

(* finish: everything is put out.                                          *)
FinishOut(q)  == [s \in Slots |-> Process(page[s], q[s])]
FinishPage(q) == [s \in Slots |-> PageAfter(page[s], q[s])]

(* finish_radiofax closes the pages of the slots S.                        *)
CloseOut(pg, S)  == [s \in Slots |-> IF s \in S THEN Closing(pg[s], 0) ELSE <<>>]
ClosePage(pg, S) == [s \in Slots |-> IF s \in S THEN 0 ELSE pg[s]]

-----------------------------------------------------------------------------
(* submit_receiver_frames_with_registry: which frames go to the workers,   *)
(* and what remains remembered as consumed.  A finish, which a command     *)
(* asks for, leaves the memory alone.                                      *)
(* The fault submits again what a command has submitted.                   *)
AcceptedAgain(fs, reg) == [s \in Slots |-> Among(fs[s], {f \in Items : f.id = reg[s]})]
Accepted(fs, reg) ==
  [s \in Slots |-> Among(fs[s], {f \in Items : f.id = reg[s] /\ f \notin consumed[s]})]

(* The retiring batch is remembered, and forgotten when it comes.          *)
Remembered(held, drained) ==
  [s \in Slots |-> consumed[s] \cup ToSet(held[s]) \cup ToSet(drained[s])]
Forgotten(fs) == [s \in Slots |-> consumed[s] \ ToSet(fs[s])]
Forget == consumed' = [s \in Slots |-> {}]

(* A command drains the workers though it may have no frame itself: the    *)
(* publisher may have queued some.  The fault drains for a frame only.     *)
DrainsForFrames(drained) == drained # Nothing
Drains(drained) == drained # Nothing \/ receivers # "none"

(* The registry by which retiring output is admitted is the old one, and   *)
(* the streams that it has and the new one has not are closed.             *)
Retiring(old, new) == old
Changed(old, new) == {s \in Slots : old[s] # 0 /\ old[s] # new[s]}

Admitted(outs, admitted) ==
  [s \in Slots |-> Among(outs[s], {o \in Items : o.id = admitted[s]})]

(* latch_receiver_failure.                                                 *)
Latch ==
  /\ failure' = "pending"
  /\ receivers' = IF receivers = "none" THEN "none" ELSE "stopping"
  /\ queued' = Nothing /\ page' = None
  /\ exempt' = ids

Broken == receivers = "broken" /\ UNCHANGED faults
Break == receivers \in {"none", "live"} /\ hw + faults < MaxFailures /\ faults' = faults + 1
Works == receivers \in {"none", "live"} /\ UNCHANGED faults

-----------------------------------------------------------------------------
(* The publisher.                                                          *)

(* hardware_presentation_failed: the workers are drained for the last      *)
(* time, and the pipeline is dropped.  Nothing is delivered here.          *)
PresentationFailed ==
  LET reg == stream_registry
      q   == Extend(queued, Accepted(pending_iq, reg))
      pg  == FinishPage(q)
  IN
  /\ hw + faults < MaxFailures /\ hw' = hw + 1
  /\ \/ /\ failure # "none" \/ (pending_iq = Nothing /\ receivers = "none")
        /\ UNCHANGED <<workers, feed, output, exempt, faults>>
     \/ /\ failure = "none" /\ Works /\ (pending_iq # Nothing \/ receivers # "none")
        /\ receivers' = "live" /\ failure' = failure /\ exempt' = exempt
        /\ queued' = Nothing /\ page' = None
        /\ pending_receiver' = Extend(pending_receiver, Extend(FinishOut(q), CloseOut(pg, Slots)))
        /\ retiring' = reg
        /\ pending_iq' = Nothing /\ consumed' = consumed
     \/ /\ failure = "none" /\ (Broken \/ Break)
        /\ pending_iq # Nothing \/ receivers # "none"
        /\ Latch /\ pending_iq' = Nothing /\ Forget
        /\ pending_receiver' = Nothing /\ retiring' = None
  /\ pipeline' = FALSE /\ registry' = None
  /\ UNCHANGED <<sdr, frames, commands>>

(* take_hardware_presentation starts a pipeline, unless a retry is not due *)
(* yet or nobody listens.                                                  *)
Start ==
  /\ pc = "poll" /\ sdr /\ ~pipeline
  /\ frames < MaxFrames
  /\ pipeline' = TRUE
  /\ \E Off \in SUBSET (Slots \ {1}) :
       /\ registry' = Renamed(None, made, Slots, Off)
       /\ made' = Counted(made, Slots, Off)
  /\ receivers' = IF receivers = "none" /\ failure = "none" THEN "live" ELSE receivers
  /\ UNCHANGED <<sdr, feed, failure, queued, page, output, identities, publisher,
                 heard, shown, exempt, fence, bounds>>

(* The poll and prepare_hardware_output: what is pending comes first, and  *)
(* the batch is queued at the workers before it is detached.               *)
Poll(B) ==
  LET fs == Extend(pending_iq, Batch(B)) IN
  /\ pc = "poll" /\ sdr /\ pipeline
  /\ hand' = fs /\ made' = Made(B) /\ Count(B)
  /\ pending_iq' = Nothing
  /\ IF failure # "none" THEN UNCHANGED <<workers, output, consumed, exempt, faults>>
     ELSE \/ /\ Works
             /\ queued' = Extend(queued, Accepted(fs, registry))
             /\ consumed' = Forgotten(fs)
             /\ receivers' = "live"
             /\ UNCHANGED <<failure, page, output, exempt>>
          \/ /\ Broken \/ Break
             /\ Latch /\ Forget /\ pending_receiver' = Nothing /\ retiring' = None
  /\ pc' = "finish" /\ stale' = FALSE
  /\ UNCHANGED <<device, identities, heard, shown, fence, commands, hw>>

PollFailed ==
  /\ pc = "poll" /\ sdr /\ PresentationFailed
  /\ pc' = "drain" /\ hand' = Nothing /\ stale' = FALSE
  /\ UNCHANGED <<identities, made, heard, shown, fence, commands>>

(* A pass without pipeline.                                                *)
Blocked ==
  /\ pc = "poll" /\ sdr /\ ~pipeline
  /\ pc' = "drain" /\ stale' = FALSE
  /\ UNCHANGED <<device, feed, workers, output, identities, hand, history, bounds>>

(* The encoding without the lock, and apply_hardware_presentation.         *)
Finish ==
  /\ pc = "finish" /\ pc' = "drain"
  /\ UNCHANGED <<device, feed, workers, output, identities, hand, stale, history, bounds>>
FinishFailed ==
  /\ pc = "finish" /\ PresentationFailed
  /\ pc' = "drain" /\ hand' = Nothing
  /\ UNCHANGED <<stale, identities, made, heard, shown, fence, commands>>

(* The workers give any part of what they have; then a failure is reaped   *)
(* and published.                                                          *)
Parts(q) == {k \in [Slots -> 0..MaxFrames] : \A s \in Slots : k[s] <= Len(q[s])}
Drain ==
  /\ pc = "drain" /\ pc' = "send"
  /\ identities' = stream_registry
  /\ \/ /\ failure = "none" /\ Works
        /\ \E k \in Parts(queued) :
             LET part == [s \in Slots |-> SubSeq(queued[s], 1, k[s])] IN
             /\ queued' = [s \in Slots |-> SubSeq(queued[s], k[s] + 1, Len(queued[s]))]
             /\ page' = FinishPage(part)
             /\ heard' = Extend(heard, Admitted(FinishOut(part), identities'))
        /\ UNCHANGED <<receivers, failure, exempt, consumed, output>>
     \/ /\ failure = "none" /\ receivers # "none" /\ (Broken \/ Break)
        /\ failure' = "published" /\ receivers' = "stopping"
        /\ queued' = Nothing /\ page' = None /\ exempt' = ids
        /\ Forget /\ pending_receiver' = Nothing /\ retiring' = None
        /\ UNCHANGED heard
     \/ /\ failure # "none" /\ failure' = "published"
        /\ receivers' = IF failure = "published" /\ receivers = "stopped" THEN "none" ELSE receivers
        /\ UNCHANGED <<queued, page, exempt, consumed, output, heard, faults>>
  /\ UNCHANGED <<device, pending_iq, hand, stale, made, shown, fence, frames, commands, hw>>

(* The batch goes to the IQ clients of the capture epoch it was polled in. *)
Send ==
  /\ pc = "send" /\ pc' = "poll"
  /\ hand' = Nothing /\ stale' = FALSE
  /\ shown' = IF stale THEN shown ELSE Extend(shown, hand)
  /\ UNCHANGED <<device, feed, workers, output, identities, made, heard, exempt, fence, bounds>>

(* A failed set of workers has stopped.                                    *)
Stop ==
  /\ receivers = "stopping" /\ receivers' = "stopped"
  /\ UNCHANGED <<device, feed, failure, queued, page, output, identities, publisher,
                 history, bounds>>

-----------------------------------------------------------------------------
(* Commands.  After each of them deliver_retiring, then publish_identities. *)

(* deliver_retiring.  The fault leaves it to the next command.             *)
DeliverLater(pend, admitted) == pending_receiver' = pend /\ UNCHANGED heard
Deliver(pend, admitted) ==
  /\ heard' = Extend(heard, Admitted(pend, admitted))
  /\ pending_receiver' = Nothing

(* ddc_command, in a command that gives the slots S new identities or none *)
(* (Off), and drains a frame of each of the slots B.  The receivers are    *)
(* configured afterwards.                                                  *)
Change(S, Off, B) ==
  LET drained == Batch(B)
      fs  == Extend(pending_iq, drained)
      old == stream_registry
      new == Renamed(registry, made, S, Off)
      q   == Extend(queued, Accepted(fs, old))
      pg  == FinishPage(q)
  IN
  /\ sdr /\ pipeline /\ commands < MaxCommands /\ commands' = commands + 1
  /\ registry' = new /\ made' = Counted(Made(B), S, Off) /\ Count(B)
  /\ identities' = new
  /\ IF ~Drains(drained)
     THEN /\ Deliver(pending_receiver, retiring)
          /\ queued' = [s \in Slots |-> IF s \in S THEN <<>> ELSE queued[s]]
          /\ UNCHANGED <<feed, receivers, failure, page, retiring, exempt, faults>>
     ELSE /\ pending_iq' = fs
          /\ retiring' = Retiring(old, new)
          /\ \/ /\ failure # "none"
                /\ UNCHANGED <<consumed, workers, exempt, faults>>
                /\ Deliver(pending_receiver, retiring')
             \/ /\ failure = "none" /\ Works
                /\ consumed' = Remembered(pending_iq, drained)
                /\ queued' = Nothing /\ page' = ClosePage(pg, Changed(old, new))
                /\ receivers' = "live"
                /\ Deliver(Extend(pending_receiver, Extend(FinishOut(q), CloseOut(pg, Changed(old, new)))),
                           retiring')
                /\ UNCHANGED <<failure, exempt>>
             \/ /\ failure = "none" /\ (Broken \/ Break)
                /\ failure' = "pending" /\ exempt' = ids'
                /\ receivers' = IF receivers = "none" THEN "none" ELSE "stopping"
                /\ queued' = Nothing /\ page' = None /\ Forget
                /\ Deliver(Nothing, None)
  /\ UNCHANGED <<sdr, pipeline, publisher, shown, fence, hw>>

(* Retune a slot, switch one on or off, capture anew, or cut only.         *)
Command ==
  \E B \in Batches :
    \/ \E s \in Slots : Change({s}, {}, B)
    \/ \E s \in Slots \ {1} : registry[s] # 0 /\ Change({s}, {s}, B)
    \/ Change(Slots, {s \in Slots : registry[s] = 0}, B)
    \/ Change({}, {}, B)

(* A command while no pipeline runs: the streams have no identities, so    *)
(* nothing that is retiring is admitted any more.                          *)
ChangeStopped ==
  /\ sdr /\ ~pipeline /\ commands < MaxCommands /\ commands' = commands + 1
  /\ identities' = None
  /\ IF receivers = "none"
     THEN /\ Deliver(pending_receiver, retiring)
          /\ UNCHANGED <<consumed, workers, retiring, exempt, faults>>
     ELSE /\ retiring' = None /\ Deliver(pending_receiver, None)
          /\ \/ /\ failure = "none" /\ Works
                /\ page' = FinishPage(queued) /\ queued' = Nothing
                /\ consumed' = Remembered(pending_iq, Nothing)
                /\ UNCHANGED <<receivers, failure, exempt>>
             \/ /\ failure = "none" /\ (Broken \/ Break)
                /\ Latch /\ Forget
             \/ /\ failure # "none" /\ UNCHANGED <<consumed, workers, exempt, faults>>
  /\ UNCHANGED <<device, pending_iq, publisher, made, shown, fence, frames, hw>>

(* reap_failed_receivers.                                                  *)
Reaped == failure = "published" /\ receivers \in {"none", "stopped"}

(* A command with a mode after the workers failed: all streams start anew, *)
(* what was drained goes to the IQ clients only.                           *)
Restart(B) ==
  LET Off == {s \in Slots : registry[s] = 0} IN
  /\ sdr /\ Reaped /\ commands < MaxCommands /\ commands' = commands + 1
  /\ receivers' = "none" /\ failure' = "none" /\ Forget
  /\ exempt' = ids
  /\ IF pipeline
     THEN /\ registry' = Renamed(registry, made, Slots, Off)
          /\ made' = Counted(Made(B), Slots, Off) /\ Count(B)
          /\ pending_iq' = Extend(pending_iq, Batch(B))
          /\ retiring' = IF B # {} THEN registry ELSE retiring
     ELSE UNCHANGED <<registry, made, frames, pending_iq, retiring>>
  /\ identities' = registry'
  /\ Deliver(pending_receiver, retiring')
  /\ UNCHANGED <<sdr, pipeline, queued, page, publisher, shown, fence, hw, faults>>

(* A mode change, successful or not, starts another capture epoch.         *)
NewEpoch == stale' = (hand # Nothing) /\ fence' = ids

(* The IQ session ends with the mode: its tails go to nobody.  The fault   *)
(* keeps them for the next one.                                            *)
RetainedAll(fs) == fs
Retained(fs) == Nothing

(* SET_MODE away from sdr: the pipeline is stopped, its last frames go to  *)
(* the workers only, and the session of the workers is reset.              *)
LeaveSdr(B) ==
  LET old == stream_registry
      fs  == Extend(pending_iq, Batch(B))
      q   == Extend(queued, Accepted(fs, old))
      pg  == FinishPage(q)
  IN
  /\ sdr /\ (failure = "none" \/ Reaped)
  /\ commands < MaxCommands /\ commands' = commands + 1
  /\ pipeline' = FALSE /\ registry' = None /\ made' = Made(B) /\ Count(B)
  /\ pending_iq' = Retained(fs) /\ identities' = None /\ NewEpoch
  /\ \/ /\ failure = "none" /\ Works
        /\ sdr' = FALSE /\ failure' = "none" /\ Forget
        /\ receivers' = IF fs # Nothing THEN "live" ELSE receivers
        /\ queued' = Nothing /\ page' = None
        /\ retiring' = IF receivers' = "none" THEN retiring ELSE old
        /\ Deliver(Extend(pending_receiver, Extend(FinishOut(q), CloseOut(pg, Slots))), retiring')
        /\ UNCHANGED exempt
     \/ /\ Reaped /\ sdr' = FALSE /\ failure' = "none" /\ Forget
        /\ receivers' = "none" /\ exempt' = ids'
        /\ Deliver(pending_receiver, retiring)
        /\ UNCHANGED <<queued, page, retiring, faults>>
     \/ \* the workers fail before their output is taken or in their reset; so
        \* does the command, and the next drain notices
        /\ failure = "none" /\ (fs # Nothing \/ receivers # "none") /\ (Broken \/ Break)
        /\ receivers' \in IF receivers = "none" THEN {"none", "broken"} ELSE {"broken"}
        /\ queued' = Nothing /\ page' = None /\ exempt' = ids'
        /\ \/ retiring' = retiring /\ Deliver(pending_receiver, retiring)
           \/ /\ receivers' = "broken" /\ retiring' = old
              /\ Deliver(Extend(pending_receiver, Extend(FinishOut(q), CloseOut(pg, Slots))), old)
        /\ UNCHANGED <<sdr, failure, consumed>>
  /\ UNCHANGED <<pc, hand, shown, hw>>

(* The same when the pipeline cannot be stopped: it is gone all the same,  *)
(* the rest of the command is not carried out.                             *)
LeaveFailed ==
  /\ sdr /\ pipeline /\ (failure = "none" \/ Reaped)
  /\ commands < MaxCommands /\ commands' = commands + 1
  /\ hw + faults < MaxFailures /\ hw' = hw + 1
  /\ pipeline' = FALSE /\ registry' = None /\ identities' = None /\ NewEpoch
  /\ receivers' = IF Reaped THEN "none" ELSE receivers
  /\ Deliver(pending_receiver, retiring)
  /\ UNCHANGED <<sdr, feed, failure, queued, page, retiring, pc, hand,
                 made, shown, exempt, frames, faults>>

(* SET_MODE to sdr, which runs the same steps with nothing to stop.  Idle   *)
(* workers do not fail.                                                    *)
EnterSdr ==
  LET pg == FinishPage(queued) IN
  /\ ~sdr /\ (failure = "none" \/ Reaped)
  /\ commands < MaxCommands /\ commands' = commands + 1
  /\ sdr' = TRUE /\ failure' = "none" /\ NewEpoch
  /\ receivers' = IF Reaped THEN "none" ELSE receivers
  /\ retiring' = IF receivers' = "none" THEN retiring ELSE None
  /\ Deliver(Extend(pending_receiver, Extend(FinishOut(queued), CloseOut(pg, Slots))), retiring')
  /\ queued' = Nothing /\ page' = None
  /\ Forget /\ exempt' = IF Reaped THEN ids ELSE exempt
  /\ UNCHANGED <<pipeline, registry, pending_iq, identities, pc, hand,
                 made, shown, frames, hw, faults>>

Publisher == \/ Start \/ (\E B \in Batches : Poll(B)) \/ PollFailed \/ Blocked
             \/ Finish \/ FinishFailed \/ Drain \/ Send
Next == \/ Publisher \/ Stop
        \/ Command \/ ChangeStopped \/ LeaveFailed \/ EnterSdr
        \/ \E B \in Batches : Restart(B) \/ LeaveSdr(B)

Spec == Init /\ [][Next]_vars
-----------------------------------------------------------------------------
(* Properties.                                                             *)

TypeOK ==
  /\ sdr \in BOOLEAN /\ pipeline \in BOOLEAN /\ (pipeline => sdr)
  /\ registry \in [Slots -> Nat] /\ identities \in [Slots -> Nat]
  /\ pending_iq \in [Slots -> Seq(Items)] /\ consumed \in [Slots -> SUBSET Items]
  /\ receivers \in {"none", "live", "broken", "stopping", "stopped"}
  /\ failure \in {"none", "pending", "published"}
  /\ pending_receiver \in [Slots -> Seq(Items)] /\ retiring \in [Slots -> Nat]
  /\ queued \in [Slots -> Seq(Items)] /\ page \in [Slots -> Nat]
  /\ pc \in {"poll", "finish", "drain", "send"}
  /\ hand \in [Slots -> Seq(Items)] /\ stale \in BOOLEAN
  /\ made \in [Slots -> Seq(Nat)]
  /\ heard \in [Slots -> Seq(Items)] /\ shown \in [Slots -> Seq(Items)]
  /\ exempt \in [Slots -> Nat] /\ fence \in [Slots -> Nat]
  /\ frames \in 0..MaxFrames /\ commands \in 0..MaxCommands
  /\ hw \in 0..MaxFailures /\ faults \in 0..MaxFailures

(* What a sequence has of an identity; its first k frames; and these with  *)
(* the end of the page.                                                    *)
Of(items, id) == Among(items, {i \in Items : i.id = id})
Whole(id, k)  == [i \in 1..k |-> Item(id, i)]
Closed(id, k) == Append(Whole(id, k), Item(id, 0))

(* Whatever fails, a subscriber hears the frames of a stream once and in   *)
(* order, and the end of its page after the last of them: a batch that the *)
(* publisher has queued and a command has drained again is heard once.     *)
(* (With the type invariant.)                                              *)
OnceInOrder ==
  /\ TypeOK
  /\ \A s \in Slots : \A id \in 1..ids[s] :
       \E k \in 0..made[s][id] : Of(heard[s], id) \in {Whole(id, k), Closed(id, k)}

(* Unless the capture or the workers have failed, every frame made of a    *)
(* stream has been heard or is on its way to the subscribers, and a stream *)
(* that has been cut has closed its page.                                  *)
Unheard == [s \in Slots |-> Among(pending_iq[s], {f \in Items : f \notin consumed[s]})]
OnItsWay ==
  Extend(heard, Extend(pending_receiver, FinishOut(Extend(queued, Unheard))))
NothingLost ==
  hw = 0 /\ failure = "none" =>
    \A s \in Slots : \A id \in (exempt[s] + 1)..ids[s] :
      Of(OnItsWay[s], id) =
        IF made[s][id] = 0 THEN <<>>
        ELSE IF id = stream_registry[s] THEN Whole(id, made[s][id])
        ELSE Closed(id, made[s][id])

(* A batch on its way to the IQ clients is of the capture epoch they are   *)
(* in: what a mode change has left behind is not replayed.                 *)
NoReplay == ~stale => \A s \in Slots : \A f \in ToSet(hand[s]) : f.id > fence[s]

(* The IQ clients get the frames of a stream once and in order, all of     *)
(* them while the stream runs, and never a frame of a stream after one of  *)
(* its successor or of an earlier epoch, unless the capture has failed.    *)
IqComplete ==
  /\ \A s \in Slots : \A i, j \in DOMAIN shown[s] :
       i < j => \/ shown[s][i].id < shown[s][j].id
                \/ shown[s][i].id = shown[s][j].id /\ shown[s][i].n < shown[s][j].n
  /\ \A s \in Slots : registry[s] # 0 =>
       Of(shown[s] \o (IF stale THEN <<>> ELSE hand[s]) \o pending_iq[s], registry[s])
         = Whole(registry[s], made[s][registry[s]])
  /\ hw = 0 => NoReplay

(* While the capture does not fail, the section of the lock that cuts a    *)
(* stream delivers its tails, nothing of a stream is heard after something *)
(* of its successor, and what a command has submitted is remembered until  *)
(* the publisher meets it, and no longer (workers about to be found failed *)
(* excepted, which clears the memory).                                     *)
TailsFirst ==
  hw = 0 =>
    /\ pending_receiver = Nothing
    /\ \A s \in Slots : \A i, j \in DOMAIN heard[s] : i < j => heard[s][i].id <= heard[s][j].id
    /\ receivers # "broken" => \A s \in Slots : consumed[s] \subseteq ToSet(pending_iq[s])
=============================================================================
