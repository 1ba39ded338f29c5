-------------------------- MODULE SubscriberStream --------------------------
(***************************************************************************)
(* One subscriber of receiver output and the sources it listens to,        *)
(* backend/src/bin/websad/subscriber_stream.rs: client_loop renumbers      *)
(* every message of the subscription through the cursors of                *)
(* SubscriberTable and ends the subscription when that fails.              *)
(*                                                                         *)
(* Every channel slot has a stream with an identity <<channel id, epoch>>  *)
(* and numbers from 0.  A retune gives one slot a new channel id; a        *)
(* recapture gives all of them a new epoch, in which channel ids are       *)
(* counted afresh.  The subscriber joins at any point of the streams: an   *)
(* audio one with an empty table, a decode one with the cursors of the     *)
(* snapshots it is sent.  Faulty sources lose a number or change the       *)
(* format without a marker.                                                *)
(***************************************************************************)
EXTENDS SubscriberTable

CONSTANTS
  Slots,      \* channel slots the subscription covers, counted from 1
  Kinds,      \* of a subscription: "audio", "decode"
  Formats,
  MaxChanges, \* bound: retunes and recaptures
  MaxFaults   \* bound: lost numbers and unmarked formats

ASSUME StreamAssumption ==
  /\ IsFiniteSet(Slots) /\ Slots # {} /\ Slots = 1..Cardinality(Slots)
  /\ Kinds \subseteq {"audio", "decode"} /\ Kinds # {}
  /\ MaxChanges \in Nat /\ MaxFaults \in Nat

VARIABLES
  kind,   \* of this subscription
  phase,  \* away, join, open
  todo,   \* while joining: the slots whose snapshot is still to be considered
  table,
  failed, \* the subscription ended with an error
  live,   \* per slot: the identity, the next number and the format
  ids,    \* channel ids given out in this epoch
  epoch,
  out,    \* the messages of the last step
  last,   \* history: the last message sent of every identity
  changes, faults

source == <<live, ids, epoch>>
client == <<kind, phase, todo, table, failed>>
bounds == <<changes, faults>>
vars   == <<source, client, out, last, bounds>>

Note(h, o) == IF o = <<>> THEN h ELSE Put(h, o[Len(o)].id, o[Len(o)])

Message(s, seq, fmt) ==
  [id |-> live[s].id, seq |-> seq, ch |-> s, fmt |-> fmt,
   empty |-> seq = 0, start |-> seq = 0]

Init ==
  /\ kind \in Kinds /\ phase = "away" /\ todo = {}
  /\ table = EmptyTable /\ failed = FALSE
  /\ live \in [Slots -> [id : {<<s, 1>> : s \in Slots}, next : {0}, fmt : Formats]]
  /\ \A s \in Slots : /\ live[s].id = <<s, 1>>
                      /\ kind = "decode" => live[s].fmt = CHOOSE fmt \in Formats : TRUE
  /\ ids = Cardinality(Slots) /\ epoch = 1
  /\ out = <<>> /\ last = [k \in {} |-> 0]
  /\ changes = 0 /\ faults = 0

frames(m) == IF kind = "audio" THEN AudioFrames(table, m) ELSE DecodeFrames(table, m)

(* A message reaches the subscriber, if there is one.                      *)
Deliver(m) ==
  IF phase = "open" /\ ~failed
  THEN LET r == frames(m) IN
       /\ table' = r.table /\ failed' = r.err /\ out' = r.out
       /\ last' = Note(last, r.out)
       /\ UNCHANGED <<kind, phase, todo>>
  ELSE UNCHANGED <<client, last>> /\ out' = <<>>

(* The next output of a stream; the first one is its marker.               *)
Block(s) ==
  /\ phase # "join" /\ live[s].next <= SeqLimit
  /\ Deliver(Message(s, live[s].next, live[s].fmt))
  /\ live' = [live EXCEPT ![s].next = @ + 1]
  /\ UNCHANGED <<ids, epoch, bounds>>

(* A codec starts over within an identity, with a format of its own.       *)
Remark(s) ==
  /\ kind = "audio" /\ phase # "join" /\ live[s].next > 0 /\ changes < MaxChanges
  /\ \E fmt \in Formats :
       /\ Deliver(Message(s, 0, fmt))
       /\ live' = [live EXCEPT ![s].next = 1, ![s].fmt = fmt]
  /\ changes' = changes + 1
  /\ UNCHANGED <<ids, epoch, faults>>

Retune(s) ==
  /\ phase # "join" /\ changes < MaxChanges
  /\ live' = [live EXCEPT ![s].id = <<ids + 1, epoch>>, ![s].next = 0]
  /\ ids' = ids + 1 /\ changes' = changes + 1 /\ out' = <<>>
  /\ UNCHANGED <<epoch, client, last, faults>>

Recapture ==
  /\ phase # "join" /\ changes < MaxChanges
  /\ live' = [s \in Slots |-> [live[s] EXCEPT !.id = <<s, epoch + 1>>, !.next = 0]]
  /\ ids' = Cardinality(Slots) /\ epoch' = epoch + 1
  /\ changes' = changes + 1 /\ out' = <<>>
  /\ UNCHANGED <<client, last, faults>>

(* A number is lost, or the format changes, before a block.                *)
Lose(s) ==
  /\ phase = "open" /\ live[s].next \in 1..SeqLimit /\ faults < MaxFaults
  /\ live' = [live EXCEPT ![s].next = @ + 1]
  /\ faults' = faults + 1 /\ out' = <<>>
  /\ UNCHANGED <<ids, epoch, client, last, changes>>
Reformat(s) ==
  /\ kind = "audio" /\ phase = "open" /\ live[s].next > 0 /\ faults < MaxFaults
  /\ \E fmt \in Formats \ {live[s].fmt} : live' = [live EXCEPT ![s].fmt = fmt]
  /\ faults' = faults + 1 /\ out' = <<>>
  /\ UNCHANGED <<ids, epoch, client, last, changes>>

(* Under one lock the client is registered and the snapshots are taken, so *)
(* nothing happens in phase join but the seeding, in slot order.           *)
Join ==
  /\ phase = "away"
  /\ phase' = IF kind = "decode" THEN "join" ELSE "open"
  /\ todo' = IF kind = "decode" THEN Slots ELSE {}
  /\ out' = <<>>
  /\ UNCHANGED <<source, kind, table, failed, last, bounds>>

(* The snapshot of a slot covers what was delivered, and possibly an       *)
(* output that was observed and is delivered only now; it has at most one  *)
(* message for every event it was made from.                               *)
Boundaries(s) == {b \in 0..SeqLimit : b \in {live[s].next, live[s].next - 1}}
Seed(s) ==
  /\ phase = "join" /\ s \in todo /\ \A r \in todo : s <= r
  /\ \E b \in Boundaries(s) : \E sub \in 0..b :
       /\ table' = SeedDecode(table, s, live[s].id, b, sub)
       /\ out' = [i \in 1..(sub + 1) |-> [id |-> live[s].id, sub |-> i - 1, src |-> b]]
       /\ last' = Note(last, out')
  /\ todo' = todo \ {s} /\ phase' = IF todo' = {} THEN "open" ELSE "join"
  /\ UNCHANGED <<source, kind, failed, bounds>>
NoSnapshot(s) ==
  /\ phase = "join" /\ s \in todo /\ \A r \in todo : s <= r
  /\ todo' = todo \ {s} /\ phase' = IF todo' = {} THEN "open" ELSE "join"
  /\ out' = <<>>
  /\ UNCHANGED <<source, kind, table, failed, last, bounds>>

Next == \/ \E s \in Slots : \/ Block(s) \/ Remark(s) \/ Retune(s)
                            \/ Lose(s) \/ Reformat(s) \/ Seed(s) \/ NoSnapshot(s)
        \/ Recapture \/ Join

Spec == Init /\ [][Next]_vars

-----------------------------------------------------------------------------
Identity == (Nat \ {0}) \X (Nat \ {0})
SentMessage == [id : Identity, sub : Nat, src : Nat]

TypeOK ==
  /\ kind \in Kinds /\ phase \in {"away", "join", "open"} /\ todo \subseteq Slots
  /\ DOMAIN table.cur \subseteq Identity /\ table.ord \in Seq(Identity)
  /\ \A k \in DOMAIN table.cur : table.cur[k].src \in Nat /\ table.cur[k].sub \in Nat
  /\ failed \in BOOLEAN
  /\ live \in [Slots -> [id : Identity, next : Nat, fmt : Formats]]
  /\ ids \in Nat /\ epoch \in Nat \ {0}
  /\ out \in Seq(SentMessage)
  /\ DOMAIN last \subseteq Identity /\ \A k \in DOMAIN last : last[k] \in SentMessage
  /\ changes \in 0..MaxChanges /\ faults \in 0..MaxFaults

(* The eviction order and the table hold the same identities, as many as a *)
(* table may hold, one per channel id and for decode one per channel: the  *)
(* two collections of insert_cursor are changed by separate statements.    *)
TableAgrees ==
  LET K == DOMAIN table.cur IN
  /\ {table.ord[i] : i \in 1..Len(table.ord)} = K
  /\ Len(table.ord) = Cardinality(K) /\ Len(table.ord) <= MAX_IDENTITIES
  /\ \A j, k \in K :
       j # k => /\ j[1] # k[1]
                /\ (kind = "decode" => table.cur[j].ch # table.cur[k].ch)

(* An identity of a decode subscription that is being streamed and was     *)
(* already sent keeps its cursor, whatever the other slots do: eviction    *)
(* may only hit identities that were retired.                              *)
LiveKept ==
  kind = "decode" /\ ~failed =>
    \A s \in Slots : live[s].id \in DOMAIN last => live[s].id \in DOMAIN table.cur

(* What insert_cursor and the retain of decode_frames must keep true of    *)
(* the cursors.                                                            *)
CursorsKept == TableAgrees /\ LiveKept

(* Sources without faults never end a subscription, whatever snapshot it   *)
(* was seeded with and whatever is retuned or captured anew.               *)
NeverFails == faults = 0 => ~failed

(* No number a source delivered is dropped: it was sent, or it is covered  *)
(* by the snapshot.                                                        *)
UpToDate ==
  faults = 0 /\ phase = "open" =>
    \A s \in Slots : live[s].id \in DOMAIN last => last[live[s].id].src + 1 >= live[s].next

(* A subscription to sources that keep their contract is served: it does   *)
(* not end and misses nothing.                                             *)
Served == NeverFails /\ UpToDate

(* The cursors agree with each other and with what is live, and a healthy  *)
(* source is served from them.                                             *)
KeptAndServed == TypeOK /\ CursorsKept /\ Served

(* What a subscriber is sent of an identity is numbered 0, 1, 2, ... from  *)
(* every start: no message has a number without the one before it.         *)
Follows(h, o, i) ==
  \/ o[i].sub = 0
  \/ i > 1 /\ o[i].id = o[i - 1].id /\ o[i].sub = o[i - 1].sub + 1
  \/ i = 1 /\ o[i].id \in DOMAIN h /\ o[i].sub = h[o[i].id].sub + 1
Numbered == [][\A i \in 1..Len(out') : Follows(last, out', i)]_vars

(* Successive numbers of a subscriber stand for successive numbers of the  *)
(* source: a gap, and what a snapshot already showed, is never joined.     *)
Joins(h, o) == Len(o) > 0 /\ o[1].sub # 0 => o[1].src = h[o[1].id].src + 1
SourceKept == [][Joins(last, out')]_vars
=============================================================================
