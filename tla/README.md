# Verification of the websad receiver backend

This directory holds TLA+ models of the concurrent core of harogic-websa's
Rust backend (`src/backend`), the TLC runs that check them on small instances
and TLAPS proofs about them. Paths below are relative to `src/`.

The backend turns a 62.5 MS/s IQ capture of a spectrum analyser into channel
IQ, audio, decodings and spectra for browsers. One packet passes through

    vendor library -> IQS owner thread -> [64] -> producer thread (Ddc)
      -> PFB pool: [6] four workers [6] -> reorder -> fine worker: [2] thread [2]
      -> output channel [2] -> caller (service state lock)
      -> receiver workers: 2 x [8] realtime threads [32], FT8 thread [3]
      -> client FIFOs [64] -> renumbering and credit -> browser

where `[n]` is a bounded channel. Control travels the other way: a command
runs on the producer's `Ddc` at a boundary where the stream is at rest, a
reconfigure on the IQS owner between two packets, and a configuration of the
receivers after a drain. What must not happen is that IQ is lost, repeated,
reordered or joined across configurations without anyone noticing, or that
two parts wait for each other.

## Components

| component | state | operations | hard behaviour | modelled in |
|---|---|---|---|---|
| PFB pool (`backend/src/pfb_pool.rs`, `pfb.rs`) | two channels, reorder map, ready queue, tail of the input, counters, bins | submit, take, flush_pending, replace_bins, finish | workers finish in any order; bounded admission; selection change | `PfbPool` |
| Fine worker (`backend/src/bin/websad/sdr_pipeline.rs`, `backend/src/fine.rs`, `wire.rs`) | packet and result channel, the fine stage, partial frames | start, collect, submit, finish, drop | both channels full; a break after the last submit | `FineWorker` |
| Pipeline (`sdr_pipeline.rs`, `backend/src/bin/websad.rs`) | command slot, output channel, pending output, sticky failure, snapshots | poll, command, stop | boundary against queued output; tails before failures; snapshots and spectra of an old capture | `Pipeline` |
| IQS capture (`backend/src/hardware_iqs.rs`) | packet queue, request slot, stored error, stop flag, generations | arm, next, reconfigure, gnss, drop | vendor calls that never return; requests against a full queue; stale packets; two writers of the error | `IqsCapture` |
| Receiver workers (`receiver_workers.rs`) | input, result and job queues, generations, pending count, deferred outputs, channel states | submit, poll, finish, finish_radiofax, configure, reset_session, stop_failed, drop | retiring work in flight; late FT8 answers; failures on a full queue | `ReceiverWorkers` |
| Receiver feed (`sdr_hardware.rs`, `service_stream.rs`, publisher and commands of `websad.rs`) | pending_iq, consumed_receiver_iq, pending_receiver, retiring registry, published identities, the detached batch | take/finish/drain/send of the publisher; ddc_command, restart_failed_receivers, SET_MODE | a batch held by two parties; tails against successors; failures in the middle | `ReceiverFeed` |
| Subscriber stream (`subscriber_stream.rs`) | cursors per identity, eviction order | insert_cursor, audio_frames, decode_frames, seed_decode | renumbering across markers, snapshots, identity changes | `SubscriberTable`, `SubscriberStream` |
| Delivery (`service_stream.rs`, `enqueue` and `client_loop` of `websad.rs`) | FIFO, decode reservation, flags and wake, cursors, acknowledgement credit, snapshots | deliver_receiver, publish_receiver_failure, join, renumber, send, acknowledge, close | joins between drain and enqueue; slow peers; failure against restart | `StreamClients` |
| Owners of the analyzer (`hardware_swp.rs`, `hardware_rta.rs`, `hardware_iqs.rs`, `hardware_pnm.rs`) | the owner thread and its channels, STUCK_OWNER | start, call, drop, park_stuck_owner, owner_slot_free | a start or a call that times out; two sessions at once | `DeviceOwners` |
| Shim (`backend/sdk/san90_sdk.cpp`) | handle, active mode, mutex, invalidation | open, calls, release | a second mode; a lost link | `DeviceOwners` |
| Server mode (`server_mode.rs`, mode switch of `websad.rs`) | the SoapySDR child and its process | SET_SERVER, SET_MODE, poll, shutdown | a child that does not end; a parked owner | `DeviceOwners` |
| State lock (`state_lock.rs`) | lock and timings | lock | | a critical section in every model |
| Control changes (`service_ddc.rs`) | plan, registry, channel identities | configure, recapture, restart | a change that fails half way | partly, in `Pipeline`, `IqsCapture`, `ReceiverWorkers` and `ReceiverFeed` |
| Service capture and admission (`service_capture.rs`, `service_cost.rs`, `service_preflight.rs`, `channel_controls.rs`) | | | sequential computation | not modelled |
| Frontend (`frontend/src`) | tune requests, audio and decode workers | | late answers, stale callbacks | not modelled |
| DSP (`dsp/`, parts of `backend/src`), web handlers, scripts, vendored code | | | numeric or I/O | not modelled |

`PROJECT.json` lists the hazards of this code line by line, with the
properties that watch them.

## Modules

**`PfbPool`** models `PfbBenchPool` and `PfbStream`. The owner is sequential:
`op` is the call it is inside, and a step runs to its next channel operation.
`submit` is SubmitBegin (the argument and state checks), SubmitReceive while
three packets are outstanding, then SubmitSend or SubmitRefused; a result is
Receive followed by one Reorder step per packet released (`receive_one`).
`flush_pending`, `finish` and `replace_bins` have their own actions; `Take` is
`PfbStream::take`. Workers take (WorkerTake), send (WorkerSend) and leave
(WorkerExit). A sample is its index, so the history a task carries is a window
of indices, and a group of output is a multiple of the hop. **`OrderedPipe`**
is what the pool promises: a bounded queue whose elements come out one by one
in order, and whose selection changes only when it is empty. `PfbPool` states
the refinement mapping (`Pipe`), and `ImplementsPipe` is checked.

**`FineWorker`** models the stage between the pool and the output. `frames` is
the vector the caller extends; a frame is the sequence of packets it carries.
Deliver, Send and HangUp are the thread (a break of the bank is a choice on
every packet); SubmitCollect, TrySend, FinishRecv, FinishJoin and the Drop
actions are the owner.

**`Pipeline`** extends `FineWorker`, whose actions are part of its own, with an
ordered PFB stream, which is `OrderedPipe` with the internal steps hidden: a
queue, drained to at most `PoolHold` packets, to none after a flush. `pc` is the
producer's place in `start_inner`; `caller` is the place in `poll`,
`run_boundary` and `stop`. A change is one of three kinds: one that leaves the
channels alone, one that replaces a channel and finishes its frames, and a
recapture, which replaces the whole plan and starts a new epoch; each may be
rejected, and a recapture may lose the capture. `Reply`, `Resume` and
`Restart` are the rendezvous of a command. One framer stands for the up to
three of a plan: they are fed the same packets and finished together.

**`IqsCapture`** models the owner thread, the DSP thread's calls and the GNSS
reader. Every vendor call is an action that may be delayed for ever. The stored
error, the stop flag and the generations are kept apart as in the code: a
packet carries the generation it is tagged with (`gen`) and, as history, the
one it was really fetched under (`conf`).

**`ReceiverWorkers`** models the two realtime threads, the FT8 thread and the
owner. Output is labelled by the work it was made of and by the stream that
labelled it. A pending guard is not a variable but the set of places it can be
in (`Pending`). The source of IQ, which numbers each identity from zero and
takes a new identity with every change, is the service's `Ddc`; it is part of
this model because the workers fail when it breaks its contract.

**`ReceiverFeed`** models everything between the pipeline and the clients that
two parties hold: the publisher's pass (Poll with prepare_hardware_output,
Finish, Drain, Send, one action per section of the state lock) and the commands
that run between any two of those sections. `hand` is the detached batch,
`pending_iq`, `consumed`, `pending_receiver` and `retiring` are the fields of
`DevState`. Change is `ddc_command` for a retune, a channel switched on or off,
a recapture or a mere cut; ChangeStopped is the same without pipeline, Restart
is `restart_failed_receivers`, and LeaveSdr, LeaveFailed and EnterSdr are the
parts of `SET_MODE` that touch this state. The workers are abstracted to a queue
per slot: that a drained set of workers has put out everything once and in order
is what `ReceiverWorkers` shows (`Complete`, `CurrentOnly`, `OwnStream`).
Everything is kept per slot: the identity of a stream, the pair of channel id and
transport epoch, names one slot, and nothing in this code compares what two slots
send. The identities of a slot are counted from 1 over the whole run, and so are the
frames of each.

**`SubscriberTable`** has the cursors of one subscriber as pure operators: a
table and its eviction order, `AudioFrames` and `DecodeFrames` with their
refusals, and the seeding from a snapshot. What it keeps of the order is
`Selection`'s `Among`, which `ReceiverWorkers` also uses for the outputs that
are still current. **`SubscriberStream`** puts one
subscription over sources that retune, are captured anew, start a codec over,
lose a number or change the format, and that are joined at any point.

**`StreamClients`** uses the same table within one socket: the FIFO, the
reservation, the two flags and the wake are shared between the lock's side
(Output, Retune, LatchFailure, PublishFailure, Restart, Join) and the loop of
the socket, whose `pc` names its wait points. The peer acknowledges
cumulatively, and may acknowledge what it was not sent.

**`DeviceOwners`** models who is inside the vendor library. An owner thread has
a place (`at`), a stop flag, a request, a reply and what it told its starter;
the server's `pc` is the wait it is in while it holds the state lock. A timeout
of a start parks the thread, one of a call leaves the answer to nobody, one of a
drop parks the thread again. The shim's mutex is `callers`, its active mode
`active`. The SoapySDR child is `child` (what the server believes) and `process`
(what there is).

`MC_*` modules hold the constants that a configuration cannot write down.
Definitions called a fault in their comment are the plausible mistakes that the
properties are tested against; nothing in the models uses them.

## Runs

| run | module | properties | shows |
|---|---|---|---|
| `pool` | `PfbPool` | Ordered, Conserved, TaskExact, AdmissionBound, ImplementsPipe, CallReturns | order, conservation, flush, history, columns and output clock of every task, admission; the pool implements `OrderedPipe`; submit, flush and finish return |
| `fine_worker` | `FineWorker` | AllHandedOn, FailureReported, FineReturns | no packet lost on the way or at finish, a break reported, no call caught between two full channels |
| `pipeline` | `Pipeline` | InOrder, CleanCut, TailsFirst, NothingOldShown, CallReturns | delivered IQ is a prefix of the accepted IQ through commands, failures and stops; boundaries cut completely and find the stream at rest; tails before a failure; spectra and snapshots never go back |
| `iqs` | `IqsCapture` | NoStaleIQ, NoFalseGap, FailureFinal, Returns | no packet under other settings, no gap of our own making, no packet after a failure; calls, drop and GNSS queries return though vendor calls may not |
| `iqs_stall` | `IqsCapture` | StallKept | violation of a documented promise (below) |
| `receivers` | `ReceiverWorkers` | CurrentOnly, OwnStream, ContractKept, Complete, Forgotten, CallReturns | order and completeness per generation, nothing retired is delivered, decodings belong to their stream, switched-off slots and reset sessions leave nothing |
| `feed` | `ReceiverFeed` | OnceInOrder, NothingLost, IqComplete, TailsFirst | a batch that publisher and command both hold is heard once, in order and completely; tails before the successor's output; IQ clients get the frames of their epoch without a hole |
| `feed_replay` | `ReceiverFeed` | NoReplay | violation of what a comment says of SET_MODE (below) |
| `subscriber_streams` | `SubscriberStream` | KeptAndServed, Numbered, SourceKept | cursors and eviction order agree, a healthy source is served and never refused, numbers are contiguous, a gap of the source is never joined |
| `clients` | `StreamClients` | Delivered, LimitsExact, FailureFinal, Ends | every event since the join once and in order after its snapshot, both limits kept exactly, nothing of restarted receivers, a flagged or silent socket removed |
| `device_owners` | `DeviceOwners` | OneSession, Accounted, NeverBusy, ExclusiveServer, CallReturns | one vendor session at a time whatever times out, no thread lost, none while the child runs, every holder of the lock comes to an end |
| `pnm_overlap` | `DeviceOwners` | OneSession | violation with the phase-noise owner (below) |

The type invariant of a module is a conjunct of one of its properties
(AllHandedOn, CleanCut, FailureFinal, Complete, OnceInOrder, KeptAndServed,
LimitsExact, Accounted), and `TypeCorrect`, `CaptureTyped` and `WorkersType`
prove those of three modules on their own.

**Bounds.** Channels have capacity one or two in place of 2 to 64: what matters
is empty, partly full, full, and an item behind another.

* *Pool.* `MAX_IN_FLIGHT` 6, `ADMIT` 3 and `READY` 3 are the real values. Three
  workers are enough for any reordering of the three tasks that can be in
  flight; the packet sizes 1 and 4 with hop 2 and a history of 3 give packets
  shorter and longer than the history and out of phase with the hop, and five
  packets wrap the window more than once.
* *Fine worker.* Eleven packets fill both channels, the thread's hands and a
  partial frame at the same time and leave some to come.
* *Pipeline.* The fine channels have one place each, so that few packets fill
  them, and `FineWorker` has its own two in the run above. Three packets, of
  which a command uses one up, one command and a stop put packets before, between
  and after two boundaries, and fill the output channel before a command.
* *IQS.* A packet queue of one place; two reconfigurations and three fetches let
  packets of two generations wait in the queue and in the owner's hand, with a
  GNSS query as a third request against them.
* *Receivers.* Two slots on two threads, at most three packets, two changes and
  one FT8 job, four submits and changes in all, give every pair of actors. The
  history ends at a failed stop or a drop, after which no call follows. Slots
  that share a thread differ from slots that do not only in sharing the input
  queue.
* *Feed.* Two slots, so that a change of one leaves the other alone; two
  frames, so that one is retained while the other is in the publisher's hand; two
  commands, the second of which meets what the first retained; one failure,
  anywhere.
* *Subscriber.* `MAX_IDENTITIES` equals the number of slots, as in the code; two
  changes make an identity that was replaced twice, one fault shows a gap. The
  theorems hold for any number; `SubscribersServed` where the table has a cursor
  for every slot.
* *Clients.* A FIFO, a reservation and a window of two are all exceeded by three
  events; one retune and one restart of the receivers put two streams and two
  epochs into one FIFO.
* *Owners.* Two threads are one that is parked or being dropped and one that
  starts; a third changes nothing the properties see, and the proofs hold for
  any number. `StreakLimit` is 2 in place of 8.

**Deadlock** is checked in the pool. The other systems really end: a dropped or
failed fine worker, a stopped pipeline, a dropped capture, joined receivers, a
removed socket, a finished process, or a bounded history; a wait that never ends
is the business of the liveness properties. The feed and the subscriber have no
waits of their own: every action is one section of the lock.

**Fairness.** Weak fairness on each thread's own steps says only that the
operating system, or the runtime, runs it: a thread with work takes its next
step. In `IqsCapture` vendor calls (`Vendor`) have none: the SDK may hang. The
deadlines there are fixed instants, so a timeout cannot be disabled for good by
a wait that is interrupted; they are strongly fair, and may expire only while
the owner is inside the vendor library, because they are long (4 s, 5 s, 15 s)
against anything the owner itself does. In `DeviceOwners` vendor calls do
return: the drops of the sweep, real-time and phase-noise owners join their
thread without a limit, so the return of a mode change rests on the vendor's. For
safety nothing is assumed there, and a thread that never returns is covered. In
`StreamClients` the loop is one weakly fair task, since every wait in it has a
deadline or is woken; that a wake is not lost is `Ends`. Nothing is assumed of
callers, commands and peers, which may stop at any time. The 120 s of a receiver
drain and the 5 s of a pipeline acknowledgement do not run out, and the timeout
of an owner's start (10 or 15 s) does not expire before the thread has had its
first look at the slot.

## Differences between code and documentation

**A stall loses its cause.** `docs/en/API.md` (line 280) promises that a
sustained SDK stall ends a capture with its original cause. The owner stores
that cause, but `HardwareCapture::call` stores its own message unconditionally
when a request fails (`backend/src/hardware_iqs.rs:1260`), and `next` may do so
between two locked sections (line 1369; `Empty` and `BlameWait`). Run `iqs_stall` gives
the sequence: arm, a reconfigure asked for while the owner is fetching, the
fetch ends in a stall, the request channel hangs up, the error is overwritten by
"SDK IQS owner closed" or "SDK IQS reconfigure stalled". The capture still ends;
only the report differs.

**Retained tails are replayed.** A comment in SET_MODE
(`backend/src/bin/websad.rs:3208`) says that it never replays the retained tails
of an ended IQ session under a later transport epoch. The pipeline is stopped
with `?` three lines above, before `pending_iq` is cleared, and the capture
epoch advances for the failed command too. Run `feed_replay`: a command retains
a frame, SET_MODE fails to stop the pipeline, the next poll sends the frame in
the new epoch.

**Two sessions with the phase-noise owner.** `hardware_swp.rs:171` says that a
new session must not open while a stuck owner runs. The phase-noise owner does
not ask `owner_slot_free` (`hardware_pnm.rs:107`), and its start drops the
thread that timed out instead of parking it (`hardware_pnm.rs:335`). Run
`pnm_overlap` has two owner threads in a session. The shim still serialises
their calls and refuses the second mode while the first is active.
The run `device_owners` and the proofs are about the other three owners.

## Proofs

Every theorem holds for all values of the constants that satisfy the named
assumptions of its module (`PoolAssumption` and `NoneAssumption`,
`CaptureAssumption`, `FineAssumption`, `PipelineAssumption`,
`ReceiverAssumption`, `ClientsAssumption`, `OwnersAssumption`, ...), which TLC evaluates in the runs:
any capacity, any number of threads, packets, commands and changes. Nothing else
is assumed but where a theorem states it. Each invariant below was checked by
TLC, on the instance of the run, before it was proved.

**`PfbPoolProofs`** proves every safety property of `PfbPool`, in layers:

1. `TypeInv` is the type invariant with the two channels' counting
   (`in_flight` equals the tasks in the channels and the workers), without
   which `in_flight - 1` could leave the naturals. `TypeCorrect` follows.
2. `PlaceInv` adds that the outstanding sequence numbers are in exactly one
   place each: distinct positions of the channels, workers and `pending` hold
   distinct numbers. It is needed because a result is accepted by number alone.
   `NothingLost` (Conserved) and `FlushLeavesNothing` follow.
3. `OrderedDelivery`, `HistoryIsExact`, `ColumnsAlwaysMatch` and
   `AdmissionHolds` are each inductive on top of `PlaceInv`, with a lemma that
   says which tasks a step can add to those carried (`CarriedByStep`,
   `HeldByStep`).
4. `ClockHolds` needs that the carried tasks tile the input (`Tiled`): the
   sample after one packet is the first of the next.
5. `PoolImplementsPipe` is the refinement of `OrderedPipe`. The mapping names,
   for every number between the next to release and the next to accept, the one
   place that holds it (`Holder`), and builds the abstract queue of what is
   there (`Element`). Each action of the pool then leaves that queue alone or is
   one step of the pipe; that a submission can still be accepted (`SubmitOpen`)
   is the one fact about the pool it needs besides `PlaceInv`.

`OrderKept` and `TasksExact` put these together to the properties the run
checks.

**`PipelineProofs`** begins with the fine stage on its own: `HandedOn`
(AllHandedOn) and `NeverGoodAgain` (FailureReported). Read one after the other,
the caller's frames, the results in the channel, the result being sent, the
framer, the input channel and the packet in hand (`Places`) are what was
submitted. That alone is not inductive: a thread that breaks lets packets go, so
the invariant (`FineIInv`) must know where the fault is while the owner has not
seen it (`FaultKnown`: it is being sent, in the channel, or reported) and that a
broken thread has only its error left (`LastResult`).

A step of the pipeline is a step of that stage or leaves it alone, so `FineIInv`
holds in the pipeline too, and all four safety properties are proved on top of it.
`Stage` says what the producer's place in its loop implies of the
stage, `Meet` where a command is and what its answer promises, `Ended` what a
stop leaves. `Flow` is the point: what the caller was given, what is pending,
what the boundary gathered, the output queue and the answer, laid end to end, are
a first part of what was submitted, and until the stage breaks they are, with
`Places`, all of it. `GivenInOrder` (InOrder) and `CutsClean` (CleanCut) follow.
`FailureLast` (TailsFirst) adds that an error is the last batch of the queue
(`ErrorLast`). `PresentShown` (NothingOldShown) adds which capture each snapshot
and each spectrum on its way belongs to (`Shown`): while a boundary runs, the
caller may hold those of the capture the boundary began under.

**`OwnersProofs`**, second part, on `IqsCapture`: `NeverStale` (NoStaleIQ), `NeverFalseGap` (NoFalseGap),
`FailureStays` (FailureFinal). A reconfigure under way is in one place, a
request, the request being served or an answer, and the settings differ from the
plan only while its answer is unread (`Outstanding`); this excludes that a late
answer is taken for the next request's. The packets from the last stamp taken over
the packet in hand and the queue to the vendor's next one form a chain, each link
a later generation or the next stamp unless the vendor lost samples there
(`Linked`); `ChainUnbroken` states it as a result.

**`ReceiverWorkersProofs`** proves every safety property and both action
properties of `ReceiverWorkers`. All rests on the line of a thread (`Line`): the
work in its hands and in its queue. `WorkersOwnStream` (OwnStream) and
`WorkersCurrentOnly` (CurrentOnly) are inductive over where an output can be
(`OwnLabels`, `AllInTime`). `WorkersContractKept` (ContractKept) needs that the
packets of a slot in line continue each other and the receiver's state up to what
the source gives next (`Continued`), which breaks unless a slot that is being
retired is quiet (`Quiet`), at most one deactivation is in line, the one the owner
waits for (`Deactivations`), and generations and identities only grow (`Numbers`).
`WorkersComplete` (Complete) rests on conservation per slot and generation
(`AllConserved`) and on what a silent system contains. `WorkersForgotten`
(Forgotten) adds how far a reset has got (`Forgetting`) and that all that is left
in the meantime is retired (`Emptied`).

**`SubscriberStreamProofs`** proves the promises to a subscriber for any number
of slots, any formats, any size of table and any number of changes and faults.
`CursorsTrack` says that the cursor of an identity holds exactly the
subscriber's and the source's number of the message last sent of it; it is needed
because a refusal, an eviction and a snapshot change the table in different ways.
`SubscriberNumbered` and `GapsNeverJoined` follow from it step by step.

`SubscribersServed` (KeptAndServed) is stated where there is a cursor for every
slot (`MAX_IDENTITIES` is 3, one for each receiver channel). With fewer it is
false: a third decoding would evict a live one. Its invariant `Kept` says that
the eviction order lists the table's identities once each, and that a decode
table has one cursor per slot (`TableSound`); counting these against the slots
shows that no insertion meets a full table that holds nothing of its own slot,
so nothing live is evicted. `Origins` keeps identities from being used twice:
every identity sent is of an earlier epoch or was counted. `Joining` says what of
the snapshots is still to be seeded, `OwnChannel` that a live identity's cursor
is its slot's, and `Healthy` that without a fault the sources have got exactly as
far as the cursors.

**`StreamClientsProofs`** proves the three safety properties of a socket, for any
capacity of the queue, any reservation and window and any number of events,
retunes, restarts and guesses of the peer: `DeliveredOnce` (Delivered),
`SlowPeerBounded` (LimitsExact) and `NothingRestarted` (FailureFinal). None of the
three is inductive, because the table of cursors decides how the next message is
numbered, and a cursor may be missing for two reasons: the stream is new, or its
cursor has gone. The argument is an order of the events (`Ordered`): what was sent,
what is in the packet in hand, what is queued and what the device makes next
follow each other strictly. So the next event either continues the stream of the
last message, whose cursor the table then has (`Cursors`), or starts a stream that
was never sent, which the table then does not know. `Renumbered` says that the
packet in hand is what the table makes of its events, `Complete` that while no flag
is set nothing is missing between the join and the next event, `Epochs` that all of
it is of one set of receivers. `Budget` counts the reservation against the queue and
what is in hand. `Credits` explains each message outside the window: the
acknowledgement that took it out was a guess of the peer's, or came after the
message (`Founded`); it needs that messages of a stream are numbered in order of
sending (`LaterLarger`).

**`OwnersProofs`**, first part, proves of `DeviceOwners` the exclusion of vendor sessions for any number of
owner threads and any streak limit, under the assumption, stated in each
theorem, that the kinds do not include the phase-noise owner; with it the
statement is false. The invariant has five parts besides the types. `Referred`:
a thread that runs is held, parked or in hand, and one that reported an error
is done. `Shape`: what the holder of the lock has in hand at each wait. `SlotEmpty`:
once an owner has passed its check of the slot, nobody is parked. This is
the heart of it: the check and the parking are separate steps, and only because
the slot can be filled by the one owner in hand does the answer stay true.
`ActiveRuns` ties the shim's active mode to a thread in its session, and
`ServerAlone` the child to an empty house. `SessionsNeverOverlap`,
`NoThreadLost`, `ShimNeverRefuses` and `ChildIsAlone` follow.

**`ReceiverFeedProofs`** proves all four properties of the feed, for any number of
slots, frames, commands and failures: `OutputOnceInOrder` (OnceInOrder),
`OutputComplete` (NothingLost), `ClientsComplete` (IqComplete) and
`TailsBeforeSuccessor` (TailsFirst). A frame may be at once in the publisher's hand,
in `pending_iq`, in `consumed` and at the workers, so none of them is inductive. The
invariant (`IInv`) describes, slot by slot, two lines of frames. `IqKept` is the line
of the IQ clients: what they were sent, the publisher's batch if it is of their epoch,
and what is pending are, in that order, rising, and of the current identity they are
all its frames. `Line` is the line of the subscribers: what they heard of the current
identity, what is queued at the workers, and what is pending and not consumed are,
unless the workers failed, exactly the frames made of it; this is where the memory of
consumed frames earns its place, since a pending frame counts in one line always and
in the other only until a command has submitted it. `Current` says that the heard part
is a beginning, with no end of the page yet. `Older` says that what was heard of an
identity that has gone, with the tails still to be delivered, is a beginning of it
with or without the end of its page, and `Healthy` that it is all of it, and closed,
unless the capture or the workers failed. `Exist` bounds everything by the frames
made, and `Control` and `Resting` say what the state of the pipeline, the workers and
the publisher implies of the rest. The proof reduces every action to what it does to a
slot's identity (`Advance`: it stays, goes, or is followed by the next, with at most
one new frame) and to one of a few effects on either line; these effects are the
lemmas, and the actions are put together from them.

**`SequenceFacts`** holds what several of these need about sequences:
concatenation and selection (`Among`, and `FlattenSeq`, whose recursive function is shown to
exist and to obey its recursion from either end), first parts, and induction over
numbers and sequences stated with a set in place of a predicate, from the
well-foundedness of the naturals.

Model-checked only is liveness: `CallReturns` of each module, `FineReturns`,
`Returns` and `Ends`. The prover has no ENABLED, so weak fairness is beyond it. Every
safety invariant and action property of a passing run is a theorem.

## Not modelled, and why

* Signal processing, the wire formats, cost admission and capture geometry:
  computations without interleaving, covered by unit tests. They are also most
  of the lines of the repository, which is why the mapped share is small.
* The latest-wins slots of display, IQ and status clients, which may drop by
  design, and the close handshake of a socket.
* A channel change that fails after it has drained the stream or retuned the
  bank, and a restart of the receivers that stops at the first channel that
  fails (`service_ddc.rs:182-255`). Both need the bank, the framers and the
  registry as separate state with early returns between; listed as hazards.
* The `carry` of the `Ddc`, which is always empty for service pipelines, and
  send errors of the producer, which cannot occur since the receiver of its
  channel outlives the thread.
* Panics: the release profile aborts (`backend/Cargo.toml`).
* Squelch, meters and other changes that do not bump a receiver generation.
* What a sweep, a real-time frame or a phase-noise trace contains, opening and
  querying the device beyond success, failure and loss of the link.
* HTTP and WebSocket handlers, status text, the browser client, the scripts.

## Plan

In the order they were written: `PfbPool` with `OrderedPipe` and proofs,
`FineWorker`, `Pipeline` (composing the two), `IqsCapture`, `ReceiverWorkers`,
`SubscriberTable` and `SubscriberStream` with proofs, `StreamClients` (using the
table) with proofs, `ReceiverFeed` with proofs, `DeviceOwners` with proofs. What is left:

1. `ServiceDdc`: bank, framers, auxiliary channels and registry as separate
   state, with the error paths of `configure_service_channel_inner` and
   `restart_service_receivers`. Property: after a failed change the registry
   names what the bank has.
2. The frontend's tune requests and its worker protocols.
