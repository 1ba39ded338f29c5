------------------------------ MODULE PfbPool ------------------------------
(***************************************************************************)
(* The coarse channelizer pool of backend/src/pfb_pool.rs: one owner       *)
(* thread submits IQ packets to a fixed set of worker threads over a       *)
(* bounded channel, takes their results back in whatever order they        *)
(* finish, and hands them on in submission order.                          *)
(*                                                                         *)
(* The owner is sequential: `op' is the call it is inside.  Only the two   *)
(* channels are shared, so a step of the owner is atomic up to the next    *)
(* blocking channel operation.  A sample is named by its index in the      *)
(* capture; the zeros the history starts from have negative indices.       *)
(* stats.submitted and stats.completed move with expected_submit and       *)
(* expected_output in every step of the code, so they are one variable.    *)
(***************************************************************************)
EXTENDS Integers, Sequences, FiniteSets, Functions

CONSTANTS
  Workers,        \* the worker threads
  MAX_IN_FLIGHT,  \* capacity of the task and of the result channel
  ADMIT,          \* submit waits while this many packets are outstanding
  READY,          \* submit is refused while this many results wait to be taken
  HistoryLen,     \* FIR history a worker needs, in samples
  Hop,            \* input samples per output group
  PacketSizes,    \* packet lengths, in samples
  Selections,     \* bin selections; the stream starts with any of them
  MaxPackets,     \* bound: packets submitted in a behaviour
  None            \* a worker that holds no task

ASSUME PoolAssumption ==
  /\ Workers # {} /\ IsFiniteSet(Workers)
  /\ ADMIT \in Nat \ {0} /\ READY \in Nat \ {0}
  /\ MAX_IN_FLIGHT \in Nat /\ MAX_IN_FLIGHT > ADMIT
  /\ HistoryLen \in Nat \ {0}
  /\ Hop \in Nat \ {0}
  /\ PacketSizes \subseteq Nat \ {0}
  /\ Selections # {} /\ MaxPackets \in Nat

VARIABLES
  op,               \* the owner's call: idle, submit, admit, flush, finish
  packet,           \* length of the packet the submit call was given
  stopped,          \* finish was called: the task sender is gone
  bins,             \* current bin selection
  bank,             \* columns the consumer expects (FineBank::remap_bins)
  tail,             \* last HistoryLen samples of the accepted input
  input_index,      \* samples accepted so far
  expected_submit,  \* sequence number of the next packet
  expected_output,  \* sequence number of the next ordered result
  in_flight,        \* tasks sent whose result was not received
  groups,           \* stats.groups: output groups of the completed packets
  tasks,            \* task channel
  holding,          \* holding[w]: the task worker w is processing, or None
  exited,           \* workers that left their loop
  results,          \* result channel
  pending,          \* results that arrived and are not yet in order
  reordering,       \* receive_one is in its loop
  ready,            \* ordered results the consumer has not taken
  delivered         \* history: sequence numbers taken, in order

call    == <<op, packet>>
stream  == <<stopped, bins, bank, tail, input_index>>
counts  == <<expected_submit, expected_output, in_flight, groups>>
threads == <<tasks, holding, exited, results>>
order   == <<pending, reordering, ready>>
vars    == <<call, stream, counts, threads, order, delivered>>

Index  == Int
Window == [1..HistoryLen -> Index]
Task   == [seq : Nat, index : Nat, len : PacketSizes, hist : Window,
           sel : Selections]

ASSUME NoneAssumption == None \notin Task

(* load_history and process: the groups a worker makes of a packet.  Its   *)
(* phase is the position of the packet's first sample within a hop.        *)
GroupsOf(t) == ((t.index % Hop) + t.len) \div Hop

(* The last HistoryLen samples before the sample named `index'.            *)
HistoryBefore(index) == [i \in 1..HistoryLen |-> index - HistoryLen + i - 1]

(* The tail after n more samples: whole from the packet when it is long    *)
(* enough, otherwise the old tail shifted and the packet behind it.  The   *)
(* fault forgets to shift.                                                 *)
Samples(n) == [k \in 1..n |-> input_index + k - 1]
AdvanceTailUnshifted(n) ==
  [i \in 1..HistoryLen |->
     CASE n >= HistoryLen     -> Samples(n)[n - HistoryLen + i]
       [] i <= HistoryLen - n -> tail[i]
       [] OTHER               -> Samples(n)[i - (HistoryLen - n)]]
AdvanceTail(n) ==
  [i \in 1..HistoryLen |->
     IF n >= HistoryLen \/ i > HistoryLen - n
     THEN Samples(n)[i - (HistoryLen - n)]
     ELSE tail[i + n]]

(* submit waits while the packets in the pool reach the admission limit.   *)
(* The fault lets one more in.                                             *)
Outstanding == expected_submit - expected_output
RoomOffByOne == Outstanding <= ADMIT
Room == Outstanding < ADMIT

Idle == op = "idle" /\ ~reordering

Init ==
  /\ op = "idle" /\ packet \in PacketSizes /\ stopped = FALSE
  /\ bins \in Selections /\ bank = bins
  /\ tail = HistoryBefore(0) /\ input_index = 0
  /\ expected_submit = 0 /\ expected_output = 0 /\ in_flight = 0 /\ groups = 0
  /\ tasks = <<>> /\ results = <<>>
  /\ holding = [w \in Workers |-> None] /\ exited = {}
  /\ pending = {} /\ reordering = FALSE /\ ready = <<>> /\ delivered = <<>>

-----------------------------------------------------------------------------
(* receive_one takes one result from the channel into `pending', then its  *)
(* loop moves results to `ready' while the next number is there.  The two  *)
(* errors of the code, a number that is already in `pending' and a channel *)
(* without senders, are the ones Conserved and CallReturns exclude.        *)

(* pending.remove(&s).  The fault is pop_first, whatever its number.       *)
LowestOf(p, s) == {t \in p : \A r \in p : t.seq <= r.seq}
RipeIn(p, s) == {t \in p : t.seq = s}

(* The loop goes on after an item.                                         *)
Continues(p, s) == RipeIn(p, s) # {}

(* What is left of `pending'.  The fault is get for remove.                *)
WithoutRemoval(t) == pending
Without(t) == pending \ {t}

Receive ==
  /\ ~reordering /\ results # <<>>
  /\ in_flight' = in_flight - 1
  /\ results' = Tail(results)
  /\ pending' = pending \cup {Head(results)}
  /\ reordering' = (RipeIn(pending', expected_output) # {})
  /\ UNCHANGED <<stream, expected_submit, expected_output, groups,
                 tasks, holding, exited, ready, delivered>>

Reorder ==
  /\ reordering
  /\ \E t \in RipeIn(pending, expected_output) :
       /\ pending' = Without(t)
       /\ ready' = Append(ready, t)
       /\ groups' = groups + GroupsOf(t)
  /\ expected_output' = expected_output + 1
  /\ reordering' = Continues(pending', expected_output')
  /\ UNCHANGED <<call, stream, expected_submit, in_flight, threads, delivered>>

(* submit: refused when stopped or given another number or length (-1), or *)
(* when READY ordered results wait to be taken (-2); a refusal changes     *)
(* nothing and the caller offers the packet again.                         *)
SubmitBegin(n) ==
  /\ Idle /\ ~stopped
  /\ Len(ready) < READY
  /\ expected_submit < MaxPackets
  /\ op' = "submit" /\ packet' = n
  /\ UNCHANGED <<stream, counts, threads, order, delivered>>

(* It waits before the packet is read, and once more after the send when   *)
(* the channel's capacity is in flight.                                    *)
SubmitReceive ==
  /\ op \in {"submit", "admit"}
  /\ op = "submit" => ~Room
  /\ Receive
  /\ op' = IF op = "admit" THEN "idle" ELSE op
  /\ UNCHANGED packet

(* The receives made room but filled `ready': -2, the packet was not read. *)
SubmitRefused ==
  /\ op = "submit" /\ ~reordering /\ Room
  /\ Len(ready) >= READY
  /\ op' = "idle"
  /\ UNCHANGED <<packet, stream, counts, threads, order, delivered>>

(* The task carries a copy of the history, the position and the selection, *)
(* so workers never touch the owner's state.  The send would block on a    *)
(* full channel.                                                           *)
SubmitSend ==
  /\ op = "submit" /\ ~reordering /\ Room
  /\ Len(ready) < READY
  /\ Len(tasks) < MAX_IN_FLIGHT
  /\ tasks' = Append(tasks, [seq |-> expected_submit, index |-> input_index,
                             len |-> packet, hist |-> tail, sel |-> bins])
  /\ tail' = AdvanceTail(packet)
  /\ input_index' = input_index + packet
  /\ expected_submit' = expected_submit + 1
  /\ in_flight' = in_flight + 1
  /\ op' = IF in_flight + 1 >= MAX_IN_FLIGHT THEN "admit" ELSE "idle"
  /\ UNCHANGED <<packet, stopped, bins, bank, expected_output, groups,
                 holding, exited, results, order, delivered>>

(* take: the consumer pops the oldest ordered result.                      *)
Take ==
  /\ Idle /\ ready # <<>>
  /\ delivered' = Append(delivered, Head(ready).seq)
  /\ ready' = Tail(ready)
  /\ UNCHANGED <<call, stream, counts, threads, pending, reordering>>

FlushBegin ==
  /\ Idle /\ in_flight > 0
  /\ op' = "flush"
  /\ UNCHANGED <<packet, stream, counts, threads, order, delivered>>

FlushReceive ==
  /\ op = "flush" /\ in_flight > 0
  /\ Receive
  /\ UNCHANGED call

FlushEnd ==
  /\ op = "flush" /\ ~reordering /\ in_flight = 0
  /\ op' = "idle"
  /\ UNCHANGED <<packet, stream, counts, threads, order, delivered>>

(* replace_bins at a drained control boundary, followed in the caller by   *)
(* FineBank::remap_bins.  An undrained or stopped stream refuses.  The     *)
(* fault forgets the results nobody has taken.                             *)
DrainedPool == in_flight = 0 /\ pending = {}
Drained ==
  /\ in_flight = 0 /\ pending = {} /\ ready = <<>>
  /\ expected_submit = expected_output

ReplaceBins(b) ==
  /\ Idle /\ ~stopped
  /\ Drained
  /\ bins' = b /\ bank' = b
  /\ UNCHANGED <<call, stopped, tail, input_index, counts, threads, order,
                 delivered>>

(* finish: drop the sender, receive what is owed, join the workers.        *)
FinishBegin ==
  /\ Idle /\ ~stopped
  /\ stopped' = TRUE /\ op' = "finish"
  /\ UNCHANGED <<packet, bins, bank, tail, input_index, counts, threads, order,
                 delivered>>

FinishReceive ==
  /\ op = "finish" /\ in_flight > 0
  /\ Receive
  /\ UNCHANGED call

FinishJoin ==
  /\ op = "finish" /\ ~reordering /\ in_flight = 0
  /\ exited = Workers
  /\ op' = "idle"
  /\ UNCHANGED <<packet, stream, counts, threads, order, delivered>>

(* A stopped, drained pool: every further call is refused.                 *)
Stopped ==
  /\ Idle /\ stopped /\ ready = <<>>
  /\ UNCHANGED vars

-----------------------------------------------------------------------------
(* A worker: take the oldest task (the channel is behind a mutex, so one   *)
(* idle worker gets it), process it alone, send the result.                *)
WorkerTake(w) ==
  /\ w \notin exited /\ holding[w] = None /\ tasks # <<>>
  /\ holding' = [holding EXCEPT ![w] = Head(tasks)]
  /\ tasks' = Tail(tasks)
  /\ UNCHANGED <<call, stream, counts, exited, results, order, delivered>>

(* The send moves the result out.                                          *)
AfterSend(w) == [holding EXCEPT ![w] = None]

WorkerSend(w) ==
  /\ holding[w] # None /\ Len(results) < MAX_IN_FLIGHT
  /\ results' = Append(results, holding[w])
  /\ holding' = AfterSend(w)
  /\ UNCHANGED <<call, stream, counts, exited, tasks, order, delivered>>

(* recv fails once the sender is gone and the channel is empty.  The fault *)
(* stops at once.                                                          *)
HungUpAtOnce == stopped
HungUp == stopped /\ tasks = <<>>

WorkerExit(w) ==
  /\ w \notin exited /\ holding[w] = None /\ HungUp
  /\ exited' = exited \cup {w}
  /\ UNCHANGED <<call, stream, counts, tasks, holding, results, order,
                 delivered>>

Worker(w) == WorkerTake(w) \/ WorkerSend(w) \/ WorkerExit(w)

(* The steps of a call the owner has started; none of them waits for the   *)
(* consumer.                                                               *)
OwnerStep ==
  \/ Reorder
  \/ SubmitReceive \/ SubmitRefused \/ SubmitSend
  \/ FlushReceive \/ FlushEnd
  \/ FinishReceive \/ FinishJoin

Next ==
  \/ \E n \in PacketSizes : SubmitBegin(n)
  \/ Take
  \/ FlushBegin
  \/ \E b \in Selections : ReplaceBins(b)
  \/ FinishBegin
  \/ OwnerStep
  \/ Stopped
  \/ \E w \in Workers : Worker(w)

Spec == Init /\ [][Next]_vars

(* The operating system runs every worker that can move, and the owner     *)
(* thread goes on with a call it is inside.                                *)
Fairness == WF_vars(OwnerStep) /\ \A w \in Workers : WF_vars(Worker(w))
FairSpec == Spec /\ Fairness

-----------------------------------------------------------------------------
(* The tasks on their way: in the channels, in a worker, or in `pending'.  *)
Busy    == {w \in Workers : holding[w] # None}
Carried == Range(tasks) \cup {holding[w] : w \in Busy}
           \cup Range(results) \cup pending

(* Every variable holds a value of its kind: the counters of PfbBenchPool  *)
(* are naturals and its containers hold tasks.                             *)
TypeOK ==
  /\ op \in {"idle", "submit", "admit", "flush", "finish"}
  /\ packet \in PacketSizes /\ stopped \in BOOLEAN
  /\ bins \in Selections /\ bank \in Selections
  /\ tail \in Window /\ input_index \in Nat
  /\ expected_submit \in Nat /\ expected_output \in Nat /\ in_flight \in Nat
  /\ tasks \in Seq(Task) /\ results \in Seq(Task) /\ ready \in Seq(Task)
  /\ holding \in [Workers -> Task \cup {None}]
  /\ exited \subseteq Workers
  /\ pending \subseteq Task /\ reordering \in BOOLEAN
  /\ groups \in Nat /\ delivered \in Seq(Nat)

(* Results leave the pool in submission order with no gap, whichever       *)
(* worker finished first: what the consumer took, then what waits for it,  *)
(* is 0, 1, 2, ... up to expected_output (receive_one's reordering).       *)
InOrder ==
  /\ Len(delivered) + Len(ready) = expected_output
  /\ \A i \in 1..Len(delivered) : delivered[i] = i - 1
  /\ \A k \in 1..Len(ready) : ready[k].seq = Len(delivered) + k - 1

(* A packet between submit and its turn is in exactly one place: the       *)
(* numbers in the channels, the workers and `pending' are the outstanding  *)
(* ones, and there are as many of them as the two counters say.  So a      *)
(* result never meets its own number in `pending' (the Err of receive_one).*)
Conserved ==
  /\ {t.seq : t \in Carried} = expected_output..(expected_submit - 1)
  /\ in_flight = Len(tasks) + Cardinality(Busy) + Len(results)
  /\ in_flight + Cardinality(pending) = Outstanding

(* Once every task has answered, nothing waits for a missing number: the   *)
(* errors of flush_pending and finish about outputs that are missing at a  *)
(* control boundary cannot occur, and a drained pool has counted all.      *)
FlushComplete ==
  (~reordering /\ in_flight = 0) => (pending = {} /\ Outstanding = 0)

(* A worker filters its packet with the HistoryLen samples that precede    *)
(* it in the capture, although the owner has long moved its tail on: the   *)
(* overlap history that load_history receives is never stale or shifted.   *)
HistoryExact ==
  /\ tail = HistoryBefore(input_index)
  /\ \A t \in Carried \cup Range(ready) : t.hist = HistoryBefore(t.index)

(* The columns of every result the consumer has yet to take are the ones   *)
(* its FineBank expects: replace_bins and remap_bins happen with nothing   *)
(* in the pool.                                                            *)
ColumnsMatchBank == \A t \in Carried \cup Range(ready) : t.sel = bank

(* Admission keeps every queue short, so that neither the owner's send nor *)
(* a worker's send ever waits for a full channel, and the ordered results  *)
(* never exceed ADMIT + READY - 1.                                         *)
AdmissionBound ==
  /\ in_flight <= ADMIT
  /\ Len(tasks) < MAX_IN_FLIGHT /\ Len(results) < MAX_IN_FLIGHT
  /\ Len(ready) + Outstanding <= ADMIT + READY - 1

(* The output clock is the input clock divided by the hop: the groups      *)
(* counted so far are those that end in the completed packets, although    *)
(* every worker starts from a clone and counts alone.                      *)
CompletedSamples ==
  IF Outstanding = 0 THEN input_index
  ELSE (CHOOSE t \in Carried : t.seq = expected_output).index
GroupClock == groups = CompletedSamples \div Hop

(* What a packet carries through the workers is what the filter needs: the *)
(* history before it, the columns of the bank that will take its result,   *)
(* and its place on the output clock.                                      *)
TaskExact == HistoryExact /\ ColumnsMatchBank /\ GroupClock

(* The packets keep their order, and a drained pool has released them all. *)
Ordered == InOrder /\ FlushComplete

(* A call the owner has entered returns: submit, flush_pending and finish  *)
(* wait only for results the workers still owe.                            *)
CallReturns == ~Idle ~> Idle

(* The pool is an OrderedPipe: its queue is the ready results followed by  *)
(* the outstanding packets in the order of their numbers.                  *)
Descriptor(t) == [index |-> t.index, len |-> t.len, sel |-> t.sel]
OutstandingInOrder ==
  [k \in 1..Outstanding |->
     CHOOSE t \in Carried : t.seq = expected_output + k - 1]
PipeQueue ==
  [k \in 1..(Len(ready) + Outstanding) |->
     Descriptor((ready \o OutstandingInOrder)[k])]

Pipe == INSTANCE OrderedPipe WITH
  Depth     <- ADMIT + READY - 1,
  position  <- input_index,
  selection <- bins,
  queue     <- PipeQueue,
  emitted   <- Len(delivered),
  closed    <- stopped

(* Every behaviour of the workers, the channels and the owner is one of    *)
(* the abstract pipe.                                                      *)
ImplementsPipe == Pipe!Spec
=============================================================================
