--------------------------- MODULE StreamClients ---------------------------
(***************************************************************************)
(* One socket that receives decoded events or audio, from the admission of *)
(* the receiver output under the state lock to the close of the socket:    *)
(* deliver_receiver, publish_receiver_failure and DecodeSnapshots of       *)
(* backend/src/bin/websad/service_stream.rs and Client, enqueue,           *)
(* DecodeReservation, DecodeCredit and client_loop of bin/websad.rs.       *)
(*                                                                         *)
(* The publisher and the commands enqueue under the state lock.  The loop  *)
(* of the socket runs without it: it takes packets from a bounded FIFO,    *)
(* renumbers them (SubscriberTable), and sends them as long as the peer    *)
(* has acknowledged enough of the earlier ones.  A full FIFO, an exceeded  *)
(* reservation and a failure of the receivers only set a flag and wake the *)
(* loop; the loop closes the socket and removes the client.                *)
(*                                                                         *)
(* The socket covers one channel slot.  The identity of its stream is      *)
(* <<channel id, epoch>>, and a restart of the receivers starts another    *)
(* epoch.  All events have the same size, and an image is one event.       *)
(***************************************************************************)
EXTENDS SubscriberTable, SequencesExt

CONSTANTS
  Kinds,        \* of a socket: "audio", "decode", or "acked" decode
  FifoSlots,    \* packets in the FIFO, 64 in the program
  PendingLimit, \* events reserved, for DECODE_PENDING_BYTE_LIMIT
  AckWindow,    \* events not acknowledged, for DECODE_ACK_WINDOW
  MaxEvents,    \* bound: events made
  MaxRetunes,   \* bound: retunes
  MaxFailures,  \* bound: failures of the receivers
  MaxGuesses    \* bound: acknowledgements of what was not sent

ASSUME ClientsAssumption ==
  /\ Kinds \subseteq {"audio", "decode", "acked"} /\ Kinds # {}
  /\ FifoSlots \in Nat \ {0} /\ PendingLimit \in Nat /\ AckWindow \in Nat \ {0}
  /\ MaxEvents \in Nat /\ MaxRetunes \in Nat /\ MaxFailures \in Nat /\ MaxGuesses \in Nat

VARIABLES
  \* the state behind the lock
  id, next,      \* the stream of the slot and its next number
  failure,       \* of the receivers: none, pending, published
  snapshot,      \* the number up to which there is a snapshot: at most one
  \* Client, shared between the lock and the loop
  kind, registered,
  fifo,          \* packets: sequences of events
  reserved,      \* decode_pending_bytes
  overflow, receiver_failed, wake,
  \* client_loop
  pc,            \* away, initial, top, select, packet, send, close, leave, gone
  hand, held,    \* the packet being sent: the events left, its reservation
  table,         \* of the subscriber
  todo,          \* renumbered messages still to be sent
  credit,        \* messages sent and not acknowledged
  \* the peer
  got,           \* messages that have arrived
  acks,          \* acknowledgements under way
  acked,         \* messages it has acknowledged
  \* history
  made,          \* the events made while the socket is registered
  joined,        \* the stream and the next number when it was registered
  guessed,       \* acknowledgements the peer has sent ahead
  events, retunes, failures

device  == <<id, next, failure, snapshot>>
queue   == <<fifo, reserved, overflow, wake>>
packet  == <<hand, held, table, todo>>
peer    == <<got, acks, acked>>
history == <<made, joined, guessed>>
bounds  == <<events, retunes, failures>>
shared  == <<registered, receiver_failed, queue>>
vars    == <<kind, device, shared, pc, packet, credit, peer, history, bounds>>

Init ==
  /\ id = <<1, 1>> /\ next = 0 /\ failure = "none" /\ snapshot = {}
  /\ kind \in Kinds /\ registered = FALSE
  /\ fifo = <<>> /\ reserved = 0
  /\ overflow = FALSE /\ receiver_failed = FALSE /\ wake = FALSE
  /\ pc = "away" /\ hand = <<>> /\ held = 0 /\ table = EmptyTable /\ todo = <<>>
  /\ credit = <<>>
  /\ got = <<>> /\ acks = <<>> /\ acked = {}
  /\ made = <<>> /\ joined = [id |-> id, next |-> 0]
  /\ events = 0 /\ retunes = 0 /\ failures = 0 /\ guessed = {}

Slow == overflow \/ receiver_failed

-----------------------------------------------------------------------------
(* Under the state lock.                                                   *)

Event(n)  == [id |-> id, seq |-> n]
Events(n) == [i \in 1..n |-> Event(next + i - 1)]

Overflowed == overflow' = TRUE /\ wake' = TRUE

(* enqueue, with the reservation a batch of decoded events holds.  The     *)
(* fault drops a packet that finds no room.                                *)
EnqueueDropping(p, weight) ==
  IF Slow \/ Len(fifo) = FifoSlots THEN UNCHANGED queue
  ELSE /\ fifo' = Append(fifo, p) /\ reserved' = reserved + weight
       /\ UNCHANGED <<overflow, wake>>
Enqueue(p, weight) ==
  IF reserved + weight > PendingLimit \/ (~Slow /\ Len(fifo) = FifoSlots)
  THEN Overflowed /\ UNCHANGED <<fifo, reserved>>
  ELSE IF Slow THEN UNCHANGED queue
  ELSE /\ fifo' = Append(fifo, p) /\ reserved' = reserved + weight
       /\ UNCHANGED <<overflow, wake>>

(* deliver_receiver: a packet for every audio frame, one for all decoded   *)
(* events of a drain.                                                      *)
Deliver(es) ==
  /\ events' = events + Len(es)
  /\ IF registered /\ es # <<>>
     THEN Enqueue(es, IF kind = "audio" THEN 0 ELSE Len(es)) /\ made' = made \o es
     ELSE UNCHANGED <<queue, made>>

(* The publisher drains the workers.                                       *)
Output(n) ==
  /\ failure = "none" /\ events + n <= MaxEvents /\ (kind = "audio" => n = 1)
  /\ Deliver(Events(n))
  /\ next' = next + n /\ snapshot' = {next + n - 1}
  /\ UNCHANGED <<kind, id, failure, registered, receiver_failed, pc, packet, credit, peer, joined, guessed,
                 retunes, failures>>

(* A command retires the stream: its last event is delivered, and then the *)
(* slot has another identity.  The snapshot goes with the stream.          *)
Retune ==
  /\ failure = "none" /\ retunes < MaxRetunes /\ retunes' = retunes + 1
  /\ next > 0 => events < MaxEvents
  /\ Deliver(Events(IF next = 0 THEN 0 ELSE 1))
  /\ id' = <<id[1] + 1, id[2]>> /\ next' = 0 /\ snapshot' = {}
  /\ UNCHANGED <<kind, failure, registered, receiver_failed, pc, packet, credit, peer, joined, guessed,
                 failures>>

(* latch_receiver_failure: nothing is put out any more.                    *)
LatchFailure ==
  /\ failure = "none" /\ failures < MaxFailures /\ failures' = failures + 1
  /\ failure' = "pending" /\ snapshot' = {}
  /\ UNCHANGED <<kind, id, next, shared, pc, packet, credit, peer, history, events, retunes>>

(* publish_receiver_failure flags and wakes every socket there is.  The    *)
(* fault leaves the wake to the next packet.                               *)
WakesNone == UNCHANGED wake
Wakes == wake' = (wake \/ registered)
PublishFailure ==
  /\ failure = "pending" /\ failure' = "published"
  /\ receiver_failed' = (receiver_failed \/ registered)
  /\ Wakes
  /\ UNCHANGED <<kind, id, next, snapshot, registered, fifo, reserved, overflow, pc, packet,
                 credit, peer, history, bounds>>

(* restart_failed_receivers: every stream starts anew.                     *)
Restart ==
  /\ failure = "published" /\ failure' = "none"
  /\ id' = <<1, id[2] + 1>> /\ next' = 0
  /\ UNCHANGED <<kind, snapshot, shared, pc, packet, credit, peer, history, bounds>>

(* What a new decode socket is sent: a start, and what the image has.      *)
Snapshot(b) ==
  [i \in 1..(IF b = 0 THEN 1 ELSE 2) |-> [id |-> id, sub |-> i - 1, src |-> b]]

(* A socket is opened: in one section of the lock it is registered,        *)
(* flagged if the receivers have failed, and given the snapshot.  The      *)
(* fault leaves the flag to the next failure.                              *)
FlaggedAtJoinNever == FALSE
FlaggedAtJoin == failure # "none"
Join ==
  /\ pc = "away" /\ pc' = "initial"
  /\ registered' = TRUE /\ receiver_failed' = FlaggedAtJoin
  /\ joined' = [id |-> id, next |-> next]
  /\ IF kind = "audio" \/ snapshot = {} THEN UNCHANGED <<todo, table>>
     ELSE \E b \in snapshot :
            /\ todo' = Snapshot(b)
            /\ table' = SeedDecode(table, 1, id, b, Len(Snapshot(b)) - 1)
  /\ UNCHANGED <<kind, device, queue, hand, held, credit, peer, made, guessed, bounds>>

-----------------------------------------------------------------------------
(* client_loop.  However it is left, the packet in hand is dropped, and    *)
(* its reservation with it.                                                *)
Exit(c) ==
  /\ pc' = c /\ hand' = <<>> /\ held' = 0 /\ todo' = <<>>
  /\ reserved' = reserved - held

(* send_decode_frame: the next message, if there is credit for it.         *)
CanSend == Len(credit) < AckWindow
Sending == pc \in {"initial", "send"} /\ todo # <<>>
Send ==
  /\ Sending /\ (kind = "acked" => CanSend)
  /\ got' = Append(got, Head(todo)) /\ todo' = Tail(todo)
  /\ credit' = IF kind = "acked" THEN Append(credit, Head(todo)) ELSE credit
  /\ UNCHANGED <<kind, device, shared, pc, hand, held, table, acks, acked, history, bounds>>
AllSent ==
  /\ pc \in {"initial", "send"} /\ todo = <<>>
  /\ pc' = IF pc = "initial" THEN "top" ELSE "packet"
  /\ UNCHANGED <<kind, device, shared, packet, credit, peer, history, bounds>>

(* acknowledge: cumulative, for a message that was sent.  The fault counts *)
(* an acknowledgement of what was not sent as well.                        *)
Unreleased(a) == {e \in ToSet(credit) : ~(e.id = a.id /\ e.sub <= a.sub)}
ReleasedUnsent(a) == Among(credit, Unreleased(a))
Released(a) ==
  IF \E i \in DOMAIN credit : credit[i].id = a.id /\ credit[i].sub = a.sub
  THEN Among(credit, Unreleased(a))
  ELSE credit

(* An acknowledgement is read in the select and while waiting for credit.  *)
Acknowledge ==
  /\ acks # <<>> /\ acks' = Tail(acks)
  /\ credit' = Released(Head(acks))
  /\ \/ pc = "select" /\ pc' = "top"
     \/ Sending /\ kind = "acked" /\ ~CanSend /\ UNCHANGED pc
  /\ UNCHANGED <<kind, device, shared, packet, got, acked, history, bounds>>

(* The oldest message is not acknowledged in time: the select, the wait    *)
(* for credit and the send have this deadline.                             *)
AckTimeout ==
  /\ credit # <<>> /\ (pc = "select" \/ Sending)
  /\ overflow' = TRUE /\ Exit("close")
  /\ UNCHANGED <<kind, device, registered, receiver_failed, fifo, wake, table, credit, peer,
                 history, bounds>>

(* The peer has closed, or a send takes too long.  There is no close frame *)
(* then, unless a flag was set while the snapshot was being sent.          *)
Gone ==
  /\ pc = "select" \/ Sending
  /\ Exit(IF pc = "initial" /\ Slow THEN "close" ELSE "leave")
  /\ UNCHANGED <<kind, device, registered, receiver_failed, fifo, overflow, wake, table, credit,
                 peer, history, bounds>>

Top ==
  /\ pc = "top" /\ pc' = IF Slow THEN "close" ELSE "select"
  /\ UNCHANGED <<kind, device, shared, packet, credit, peer, history, bounds>>
Woken ==
  /\ pc = "select" /\ wake /\ wake' = FALSE /\ pc' = "top"
  /\ UNCHANGED <<kind, device, registered, receiver_failed, fifo, reserved, overflow, packet,
                 credit, peer, history, bounds>>
Receive ==
  /\ pc = "select" /\ fifo # <<>> /\ pc' = "packet"
  /\ hand' = Head(fifo) /\ fifo' = Tail(fifo)
  /\ held' = IF kind = "audio" THEN 0 ELSE Len(hand')
  /\ UNCHANGED <<kind, device, registered, receiver_failed, reserved, overflow, wake, table, todo,
                 credit, peer, history, bounds>>

(* The next event of the packet is renumbered, unless a flag is set.       *)
Message(e) == [id |-> e.id, seq |-> e.seq, ch |-> 1, fmt |-> 1,
               empty |-> e.seq = 0, start |-> e.seq = 0]
Renumber ==
  /\ pc = "packet" /\ hand # <<>>
  /\ LET m == Message(Head(hand))
         r == IF kind = "audio" THEN AudioFrames(table, m) ELSE DecodeFrames(table, m)
     IN
     IF Slow \/ r.err THEN Exit("close") /\ UNCHANGED table
     ELSE /\ table' = r.table /\ todo' = r.out /\ hand' = Tail(hand) /\ pc' = "send"
          /\ UNCHANGED <<held, reserved>>
  /\ UNCHANGED <<kind, device, registered, receiver_failed, fifo, overflow, wake, credit, peer,
                 history, bounds>>
PacketDone ==
  /\ pc = "packet" /\ hand = <<>> /\ Exit("top")
  /\ UNCHANGED <<kind, device, registered, receiver_failed, fifo, overflow, wake, table, credit,
                 peer, history, bounds>>

(* The close frame is sent, then the client is removed and its queue with  *)
(* it.                                                                     *)
Close ==
  /\ pc = "close" /\ pc' = "leave"
  /\ UNCHANGED <<kind, device, shared, packet, credit, peer, history, bounds>>
Removed ==
  /\ pc = "leave" /\ pc' = "gone"
  /\ registered' = FALSE /\ fifo' = <<>> /\ reserved' = 0
  /\ UNCHANGED <<kind, device, receiver_failed, overflow, wake, packet, credit, peer, history,
                 bounds>>

-----------------------------------------------------------------------------
(* The peer acknowledges what it has applied, cumulatively, or guesses.    *)
PeerAck(m) ==
  /\ m \in ToSet(got) \ acked
  /\ acks' = Append(acks, [id |-> m.id, sub |-> m.sub])
  /\ acked' = acked \cup {e \in ToSet(got) : e.id = m.id /\ e.sub <= m.sub}
  /\ UNCHANGED <<kind, device, shared, pc, packet, credit, got, history, bounds>>
PeerGuess(m) ==
  /\ Cardinality(guessed) < MaxGuesses
  /\ \A e \in ToSet(got) : e.id = m.id => e.sub <= m.sub
  /\ LET a == [id |-> m.id, sub |-> m.sub + 1]
     IN acks' = Append(acks, a) /\ guessed' = guessed \cup {a}
  /\ UNCHANGED <<kind, device, shared, pc, packet, credit, got, acked, made, joined, bounds>>

Device == \/ \E n \in 1..2 : Output(n)
          \/ Retune \/ LatchFailure \/ PublishFailure \/ Restart
Loop == \/ Send \/ AllSent \/ AckTimeout \/ Top \/ Woken \/ Receive \/ Renumber
        \/ PacketDone \/ Close \/ Removed
Peer == kind = "acked" /\ \E m \in ToSet(got) : PeerAck(m) \/ PeerGuess(m)
Next == Device \/ Join \/ Loop \/ Acknowledge \/ Gone \/ Peer

Spec == Init /\ [][Next]_vars

(* The loop is a task of the runtime, and every wait in it ends: what it   *)
(* awaits comes, or a deadline passes.  The publisher runs.                *)
FairSpec == Spec /\ WF_vars(Loop) /\ WF_vars(PublishFailure)

-----------------------------------------------------------------------------
(* Properties.                                                             *)

Ids      == (1..(MaxRetunes + 1)) \X (1..(MaxFailures + 1))
AnEvent  == [id : Ids, seq : 0..MaxEvents]
AMessage == [id : Ids, sub : 0..(MaxEvents + 1), src : 0..MaxEvents]
AnAck    == [id : Ids, sub : 0..(MaxEvents + 2)]

TypeOK ==
  /\ id \in Ids /\ next \in 0..MaxEvents
  /\ failure \in {"none", "pending", "published"} /\ snapshot \subseteq 0..MaxEvents
  /\ kind \in Kinds /\ registered \in BOOLEAN
  /\ fifo \in Seq(Seq(AnEvent)) /\ Len(fifo) <= FifoSlots /\ reserved \in Nat
  /\ overflow \in BOOLEAN /\ receiver_failed \in BOOLEAN /\ wake \in BOOLEAN
  /\ pc \in {"away", "initial", "top", "select", "packet", "send", "close", "leave", "gone"}
  /\ hand \in Seq(AnEvent) /\ held \in 0..PendingLimit
  /\ DOMAIN table.cur \subseteq Ids /\ table.ord \in Seq(Ids)
  /\ todo \in Seq(AMessage) /\ credit \in Seq(AMessage)
  /\ got \in Seq(AMessage) /\ acks \in Seq(AnAck) /\ acked \subseteq AMessage
  /\ made \in Seq(AnEvent) /\ joined \in [id : Ids, next : 0..MaxEvents]
  /\ guessed \subseteq AnAck
  /\ events \in 0..MaxEvents /\ retunes \in 0..MaxRetunes /\ failures \in 0..MaxFailures

Pairs(ms) == [i \in DOMAIN ms |-> <<ms[i].id, ms[i].src>>]
Once(s) ==
  FlattenSeq([i \in DOMAIN s |-> IF i > 1 /\ s[i] = s[i - 1] THEN <<>> ELSE <<s[i]>>])
AfterJoin == {p \in Ids \X Nat : ~(p[1] = joined.id /\ p[2] < joined.next)}
Waiting(es) == [i \in DOMAIN es |-> <<es[i].id, es[i].seq>>]

(* The messages of a stream reach the peer numbered from 0 on without gap, *)
(* and as long as no flag is set every event made since the socket was     *)
(* opened has been sent or waits to be, once and in order, after a         *)
(* snapshot that covers the events before.                                 *)
Delivered ==
  /\ \A i \in DOMAIN got :
       got[i].sub = Cardinality({j \in 1..(i - 1) : got[j].id = got[i].id})
  /\ registered /\ ~Slow /\ pc \notin {"close", "leave"} =>
       Among(Once(Pairs(got \o todo)), AfterJoin)
         \o Waiting(hand \o FlattenSeq(fifo)) = Waiting(made)

(* A peer never has more messages to acknowledge than the window, and only *)
(* the acknowledgement of a message that has been sent releases messages.  *)
Arrived(a) == \E i \in DOMAIN got : got[i].id = a.id /\ got[i].sub = a.sub
WindowKept ==
  /\ Len(credit) <= AckWindow
  /\ kind = "acked" =>
       \A m \in ToSet(got) \ acked :
         \/ m \in ToSet(credit)
         \/ \E a \in guessed : Arrived(a) /\ a.id = m.id /\ m.sub <= a.sub

(* What is reserved is what is queued or being sent, within the limit.     *)
ReservedExactly ==
  registered /\ kind # "audio" =>
    reserved = Len(FlattenSeq(fifo)) + held /\ reserved <= PendingLimit

(* Both limits of a slow peer are kept exactly: its credit and its         *)
(* reservation.  (With the type invariant.)                                *)
LimitsExact == TypeOK /\ WindowKept /\ ReservedExactly

(* A socket that was open when the receivers failed, or was opened before  *)
(* they were restarted, never gets anything of the restarted streams.      *)
FailureFinal == \A i \in DOMAIN got : got[i].id[2] = joined.id[2]

(* A flagged socket, and one that is open while the receivers are failed,  *)
(* is closed and removed; a message sent is acknowledged or the socket     *)
(* removed.                                                                *)
Ends ==
  /\ (registered /\ (Slow \/ failure # "none")) ~> ~registered
  /\ credit # <<>> ~> (credit = <<>> \/ ~registered)
=============================================================================
