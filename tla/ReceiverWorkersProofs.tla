----------------------- MODULE ReceiverWorkersProofs -----------------------
(***************************************************************************)
(* Proofs about ReceiverWorkers, for any slots, threads, capacities and    *)
(* bounds: the types, and every safety and action property of the model.   *)
(*                                                                         *)
(* What all of them rest on is the line of a thread: the work in its hands *)
(* and in its queue, in the order in which it will be done.  A step sends  *)
(* to the end of a line, takes from its front, or leaves it alone, and the *)
(* packets a slot has in line follow from that (SlotStep).                 *)
(***************************************************************************)
EXTENDS ReceiverWorkers, SequenceFacts

-----------------------------------------------------------------------------
(* What the outputs are made of.                                           *)
Works(os) == [i \in 1..Len(os) |-> os[i].of]

(* The work that outputs are made of, in their order.                      *)
LEMMA WorksType ==
  ASSUME NEW os \in Seq(Outcome)
  PROVE  Works(os) \in Seq(Record) /\ Len(Works(os)) = Len(os)
  <1>1. \A i \in 1..Len(os) : os[i].of \in Record
    <2>1. \A i \in 1..Len(os) : os[i] \in Outcome
      BY ElementOfSeq
    <2>2. \A o \in Outcome : o.of \in Record
      BY DEF Outcome
    <2> QED BY <2>1, <2>2
  <1>2. Len(os) \in Nat
    OBVIOUS
  <1> HIDE DEF Record
  <1> QED BY <1>1, <1>2 DEF Works

(* The IQ packets that outputs are made of, as a selection of the work     *)
(* they are made of.                                                       *)
LEMMA IqOfIs == \A s, os : IqOf(s, os) = Iq(s, Works(os))
  BY DEF IqOf, Works

(* No output, no packet.                                                   *)
LEMMA IqOfEmpty == \A s : IqOf(s, <<>>) = <<>>
  <1>1. Works(<<>>) = <<>>
    BY DEF Works
  <1> QED BY <1>1, IqOfIs, AmongEmpty DEF Iq

(* They are work.                                                          *)
LEMMA IqOfType ==
  ASSUME NEW s, NEW os \in Seq(Outcome)
  PROVE  IqOf(s, os) \in Seq(Record)
  BY WorksType, IqOfIs, AmongType DEF Iq

(* The packets of two batches of outputs are those of the one and of the   *)
(* other.                                                                  *)
LEMMA IqOfConcat ==
  ASSUME NEW s, NEW os \in Seq(Outcome), NEW ps \in Seq(Outcome)
  PROVE  IqOf(s, os \o ps) = IqOf(s, os) \o IqOf(s, ps)
  <1>0. os \o ps \in Seq(Outcome)
    OBVIOUS
  <1>1. /\ Works(os) \in Seq(Record) /\ Works(ps) \in Seq(Record)
        /\ Works(os \o ps) \in Seq(Record)
        /\ Len(Works(os)) = Len(os) /\ Len(Works(ps)) = Len(ps)
        /\ Len(Works(os \o ps)) = Len(os \o ps)
    BY <1>0, WorksType
  <1>2. Works(os \o ps) = Works(os) \o Works(ps)
    <2>1. /\ Len(os) \in Nat /\ Len(ps) \in Nat /\ Len(os \o ps) = Len(os) + Len(ps)
          /\ \A i \in 1..(Len(os) + Len(ps)) :
               (os \o ps)[i] = IF i <= Len(os) THEN os[i] ELSE ps[i - Len(os)]
      OBVIOUS
    <2>2. /\ \A i \in 1..Len(os) : Works(os)[i] = os[i].of
          /\ \A i \in 1..Len(ps) : Works(ps)[i] = ps[i].of
          /\ \A i \in 1..(Len(os) + Len(ps)) : Works(os \o ps)[i] = (os \o ps)[i].of
      BY <2>1 DEF Works
    <2>3. ASSUME NEW i \in 1..(Len(os) + Len(ps))
          PROVE  Works(os \o ps)[i] =
                   IF i <= Len(os) THEN Works(os)[i] ELSE Works(ps)[i - Len(os)]
      <3>1. CASE i <= Len(os)
        BY <2>1, <2>2, <3>1
      <3>2. CASE ~(i <= Len(os))
        <4>1. i - Len(os) \in 1..Len(ps)
          BY <2>1, <3>2
        <4> QED BY <2>1, <2>2, <3>2, <4>1
      <3> QED BY <3>1, <3>2
    <2>4. /\ Len(Works(os \o ps)) = Len(Works(os)) + Len(Works(ps))
          /\ \A i \in 1..Len(Works(os \o ps)) :
               Works(os \o ps)[i] = IF i <= Len(Works(os)) THEN Works(os)[i]
                                    ELSE Works(ps)[i - Len(Works(os))]
      BY <1>1, <2>1, <2>3
    <2> QED BY <1>1, <2>4, ConcatIs
  <1>3. Iq(s, Works(os) \o Works(ps)) = Iq(s, Works(os)) \o Iq(s, Works(ps))
    BY <1>1, AmongConcat DEF Iq
  <1> QED BY <1>2, <1>3, IqOfIs

(* A selection that keeps every packet keeps their sequence.               *)
LEMMA IqOfAmong ==
  ASSUME NEW s, NEW kept, NEW os \in Seq(Outcome),
         \A o \in Outcome : o.of \in Packets(s, generations[s]) => o \in kept
  PROVE  IqOf(s, Among(os, kept)) = IqOf(s, os)
  <1> DEFINE U == {x \in Seq(Outcome) : IqOf(s, Among(x, kept)) = IqOf(s, x)}
  <1>1. <<>> \in U
    BY AmongEmpty
  <1>2. ASSUME NEW x \in Seq(Outcome), NEW o \in Outcome, x \in U PROVE Append(x, o) \in U
    <2>1. /\ Among(x, kept) \in Seq(Outcome) /\ <<o>> \in Seq(Outcome)
          /\ IqOf(s, Among(x, kept)) = IqOf(s, x)
          /\ Append(x, o) \in Seq(Outcome) /\ Append(x, o) = x \o <<o>>
      <3>1. <<o>> \in Seq(Outcome) /\ Append(x, o) \in Seq(Outcome)
        OBVIOUS
      <3>2. Append(x, o) = x \o <<o>>
        BY AppendIsConcat
      <3> QED BY <1>2, <3>1, <3>2, AmongType
    <2>2. IqOf(s, Append(x, o)) = IqOf(s, x) \o IqOf(s, <<o>>)
      <3>1. PICK y \in Seq(Outcome) : y = <<o>>
        BY <2>1
      <3> HIDE DEF Outcome
      <3>2. IqOf(s, x \o y) = IqOf(s, x) \o IqOf(s, y)
        BY IqOfConcat, ZenonT(60)
      <3> QED BY <2>1, <3>1, <3>2, ZenonT(60)
    <2>3. CASE o \in kept
      <3>1. Among(Append(x, o), kept) = Among(x, kept) \o <<o>>
        <4>1. Among(Append(x, o), kept) = Append(Among(x, kept), o)
          BY <2>3, AmongAppend
        <4>2. Append(Among(x, kept), o) = Among(x, kept) \o <<o>>
          BY <2>1, AppendIsConcat
        <4> QED BY <4>1, <4>2
      <3>2. IqOf(s, Among(x, kept) \o <<o>>) = IqOf(s, Among(x, kept)) \o IqOf(s, <<o>>)
        BY <2>1, IqOfConcat
      <3> QED BY <2>1, <2>2, <3>1, <3>2
    <2>4. CASE o \notin kept
      <3>1. Among(Append(x, o), kept) = Among(x, kept)
        BY <2>4, AmongAppend
      <3>2. IqOf(s, <<o>>) = <<>>
        <4>1. Works(<<o>>) \in Seq(Record) /\ Len(Works(<<o>>)) = 1 /\ Works(<<o>>)[1] = o.of
          <5>1. Len(<<o>>) = 1 /\ <<o>>[1] = o
            OBVIOUS
          <5>2. Works(<<o>>)[1] = o.of
            BY DEF Works
          <5> QED BY <2>1, <5>1, <5>2, WorksType
        <4>2. \A i \in 1..Len(Works(<<o>>)) : Works(<<o>>)[i] \notin Packets(s, generations[s])
          BY <2>4, <4>1
        <4>3. Among(Works(<<o>>), Packets(s, generations[s])) = <<>>
          BY <4>1, <4>2, AmongNone
        <4> QED BY <4>3, IqOfIs DEF Iq
      <3>3. IqOf(s, x) \o <<>> = IqOf(s, x)
        BY IqOfType, ConcatEmptySeq
      <3> QED BY <2>1, <2>2, <3>1, <3>2, <3>3
    <2> QED BY <2>3, <2>4
  <1> HIDE DEF U
  <1>3. os \in U
    BY <1>1, <1>2, SequenceInduct
  <1> QED BY <1>3 DEF U

-----------------------------------------------------------------------------

(* The work in line at a thread: in its hands, then in its queue.          *)
Line(t) == (IF at[t] = "work" THEN <<work[t]>> ELSE <<>>) \o inputs[t]

(* The workers only stop after a failure or for an owner that ends them.   *)
Stopped == stopping => failure # "none" \/ call \in {"stopped", "drop", "gone"}

(* Work of a slot, in a generation that the slot has had.                  *)
Known(r) == r.slot \in Slots /\ r.gen <= generations[r.slot] /\ r.kind # "none"

(* All work in line is known and at the thread its slot belongs to.        *)
LinesKnown == \A t \in Threads : \A i \in 1..Len(Line(t)) :
  Known(Line(t)[i]) /\ Line(t)[i].slot % WORKERS = t

(* All jobs are known searches.                                            *)
JobsKnown ==
  /\ \A i \in 1..Len(jobs) : Known(jobs[i]) /\ jobs[i].kind = "search"
  /\ searcher = "decode" => Known(job) /\ job.kind = "search"

(* All results, in hand, queued or deferred, are of known work.            *)
OutcomesKnown ==
  /\ \A t \in Threads : at[t] = "out" => Known(made[t].of)
  /\ \A i \in 1..Len(outputs) : Known(outputs[i].of)
  /\ \A i \in 1..Len(deferred) : Known(deferred[i].of)

(* What a call of the owner is about and followed by.                      *)
Control ==
  /\ call \in {"retire", "clear", "ack", "page"} => target \in Slots
  /\ call = "finish" /\ after = "page" => target \in Slots
  /\ call \in {"clear", "ack"} => after \in {"session", "disable"}
  /\ call = "retire" => after \in {"enable", "disable"}
  /\ call = "page" => after = "page"

(* Where work, results and the owner can be: what the types leave out.     *)
Placed == LinesKnown /\ JobsKnown /\ OutcomesKnown /\ Control

(* A result labelled with the identity of the stream whose samples it      *)
(* decodes.                                                                *)
OwnOutcome == {o \in Outcome : o.of.id = o.as}

(* Every result is, wherever it is.                                        *)
OwnLabels ==
  /\ made \in [Threads -> OwnOutcome]
  /\ outputs \in Seq(OwnOutcome) /\ deferred \in Seq(OwnOutcome)
  /\ got \in [Slots -> Seq(OwnOutcome)]

(* The packets of its current generation that a slot has in line.          *)
IqLine(s) == Iq(s, Line(s % WORKERS))

(* A slot without packets, whose source starts a stream.                   *)
Fresh(s) == source[s].seq = 0 /\ IqLine(s) = <<>>

(* While the workers run, no thread is gone.                               *)
Alive == ~stopping => \A t \in Threads : at[t] # "gone"

(* The deactivations in line at a thread.                                  *)
Deacts(t) == Among(Line(t), {r \in Record : r.kind = "deactivate"})

(* One is in line at most, the one whose acknowledgement the owner waits   *)
(* for, and an acknowledgement is only there while the owner waits for it. *)
Deactivations ==
  /\ ~stopping /\ acked => call = "ack"
  /\ ~stopping => \A t \in Threads :
       \/ Deacts(t) = <<>>
       \/ /\ call = "ack" /\ ~acked /\ t = target % WORKERS
          /\ Deacts(t) = <<Item("deactivate", target, generations[target], 0, 0)>>

(* A session is being reset.                                               *)
Resetting == \/ after = "session" /\ call \in {"finish", "clear", "ack"}
             \/ after = "end" /\ call = "finish"

(* The slots that a call waits for are fresh.                              *)
Quiet ==
  ~stopping =>
    /\ call \in {"retire", "clear", "ack"} => Fresh(target)
    /\ Resetting => \A s \in Slots : Fresh(s)

(* The packet the source gives next, after those in line.                  *)
NextPacket(s) == Item("iq", s, generations[s], source[s].id, source[s].seq)
Coming(s) == Append(IqLine(s), NextPacket(s))

(* A packet continues the stream id at the number next, or starts another  *)
(* stream.                                                                 *)
Follows(id, next, p) ==
  (p.id = id /\ p.seq = next) \/ (p.id > id /\ p.seq = 0)

(* The packets to come continue each other and the receiver's state: the   *)
(* receiver of an older generation or stream is replaced at sequence zero. *)
Continues(s) ==
  /\ \A i \in 1..(Len(Coming(s)) - 1) :
       Follows(Coming(s)[i].id, Coming(s)[i].seq + 1, Coming(s)[i + 1])
  /\ IF states[s].gen = generations[s]
     THEN Follows(states[s].id, states[s].next, Coming(s)[1])
     ELSE Coming(s)[1].id > states[s].id /\ Coming(s)[1].seq = 0
Continued == ~stopping => \A s \in Slots : Continues(s)

(* Generations and identities only grow.                                   *)
Numbered(s) ==
  /\ generations[s] > 0 /\ source[s].id > 0
  /\ states[s].gen <= generations[s] /\ states[s].id <= source[s].id
  /\ \A i \in 1..Len(IqLine(s)) : IqLine(s)[i].id <= source[s].id
Numbers == ~stopping => \A s \in Slots : Numbered(s)

(* A slot that is off has no receiver and no packet in line; neither has   *)
(* the slot whose deactivation was acknowledged, those a reset has passed, *)
(* and all once it drains.                                                 *)
Forgetting ==
  ~stopping =>
    /\ \A s \in Slots : ~enabled[s] => states[s] = NoState /\ IqLine(s) = <<>>
    /\ call = "ack" /\ acked => states[target] = NoState
    /\ after = "session" /\ call \in {"clear", "ack"} =>
         \A r \in Slots : r < target => states[r] = NoState
    /\ after = "end" /\ call = "finish" => \A r \in Slots : states[r] = NoState

(* Work of a generation that was retired.                                  *)
Stale(r) == generations[r.slot] # r.gen
StaleWork == {r \in Record : Stale(r)}
StaleLine == {r \in Record : r.kind = "deactivate" \/ Stale(r)}
StaleOutcomes == {o \in Outcome : Stale(o.of)}

(* The caller was given nothing of the session that begins, and all that   *)
(* is left of the last one is retired but for the deactivations.           *)
EmptyNow ==
  /\ \A s \in Slots : got[s] = <<>>
  /\ outputs \in Seq(StaleOutcomes) /\ deferred \in Seq(StaleOutcomes)
  /\ jobs \in Seq(StaleWork) /\ (searcher = "decode" => job \in StaleWork)
  /\ \A t \in Threads : /\ at[t] = "out" => made[t] \in StaleOutcomes
                        /\ Line(t) \in Seq(StaleLine)

(* This is so while a session is being reset.                              *)
Emptied == ~stopping /\ Resetting => EmptyNow

-----------------------------------------------------------------------------
(* Types.                                                                  *)

(* Numbers: a slot has its thread, and the first and the next slot are     *)
(* slots.                                                                  *)
LEMMA SlotFacts ==
  /\ \A s \in Slots : s \in Nat /\ s % WORKERS \in Threads
  /\ First \in Slots
  /\ \A s \in Slots : ~IsLast(s) => NextSlot(s) \in Slots
  /\ InputCap \in Nat /\ ResultCap \in Nat /\ SearchCap \in Nat
  /\ MaxSubmit \in Nat /\ MaxChanges \in Nat /\ MaxCalls \in Nat /\ MaxJobs \in Nat
  <1>1. First \in Slots
    <2>1. Slots \in SUBSET Nat /\ Slots # {}
      BY ReceiverAssumption
    <2>2. \E s \in Slots : \A r \in Slots : s <= r
      BY <2>1, Least
    <2> QED BY <2>2 DEF First
  <1>2. ASSUME NEW s \in Slots, ~IsLast(s) PROVE NextSlot(s) \in Slots
    <2> DEFINE above == {r \in Slots : r > s}
    <2>1. Slots \in SUBSET Nat
      BY ReceiverAssumption
    <2>2. above \in SUBSET Nat /\ above # {}
      <3>1. PICK r \in Slots : ~(r <= s)
        BY <1>2 DEF IsLast
      <3>2. r > s
        BY <2>1, <3>1
      <3> QED BY <2>1, <3>1, <3>2
    <2> HIDE DEF above
    <2>3. PICK r \in above : \A q \in above : r <= q
      BY <2>2, Least
    <2>4. r \in Slots /\ r > s /\ \A q \in Slots : q > s => r <= q
      BY <2>3 DEF above
    <2> QED BY <2>4 DEF NextSlot
  <1> QED BY <1>1, <1>2, ReceiverAssumption DEF Threads

(* The records of the model and what replaces a field in them.             *)
LEMMA RecordType ==
  /\ None \in Record /\ NoOutput \in Outcome /\ NoState \in ChannelState
  /\ \A kind \in {"none", "iq", "search", "finish", "deactivate"} :
       \A s, g, id, seq \in Nat : Item(kind, s, g, id, seq) \in Record
  /\ \A r \in Record : r.slot \in Nat /\ r.gen \in Nat /\ r.id \in Nat /\ r.seq \in Nat
                       /\ [r EXCEPT !.kind = "search"] \in Record
  /\ \A r \in Record : \A id \in Nat :
       [r EXCEPT !.id = id] \in Record /\ [of |-> r, as |-> id] \in Outcome
  /\ \A o \in Outcome : o.of \in Record /\ o.as \in Nat
  /\ \A c \in ChannelState : c.gen \in Nat /\ c.id \in Nat /\ c.next \in Nat
  /\ \A g, id, next \in Nat :
       /\ [gen |-> g, id |-> id, next |-> next] \in ChannelState
       /\ [[gen |-> g, id |-> id, next |-> next] EXCEPT !.next = @ + 1] \in ChannelState
  /\ \A c \in ChannelState : [c EXCEPT !.next = @ + 1] \in ChannelState
  /\ \A q \in Position : q.id \in Nat /\ q.seq \in Nat /\ [q EXCEPT !.seq = @ + 1] \in Position
  /\ \A id, seq \in Nat : [id |-> id, seq |-> seq] \in Position
  <1>1. None \in Record
    BY DEF None, Record
  <1>2. NoOutput \in Outcome
    BY <1>1 DEF NoOutput, Outcome
  <1>3. NoState \in ChannelState
    BY DEF NoState, ChannelState
  <1>4. \A kind \in {"none", "iq", "search", "finish", "deactivate"} :
          \A s, g, id, seq \in Nat : Item(kind, s, g, id, seq) \in Record
    BY DEF Record, Item
  <1>5. \A r \in Record : r.slot \in Nat /\ r.gen \in Nat /\ r.id \in Nat /\ r.seq \in Nat
                       /\ [r EXCEPT !.kind = "search"] \in Record
    BY DEF Record
  <1>6. \A r \in Record : \A id \in Nat : [r EXCEPT !.id = id] \in Record
    BY DEF Record
  <1>7. \A r \in Record : \A id \in Nat : [of |-> r, as |-> id] \in Outcome
    BY DEF Outcome
  <1>8. \A o \in Outcome : o.of \in Record /\ o.as \in Nat
    BY DEF Outcome
  <1>9. /\ \A c \in ChannelState : c.gen \in Nat /\ c.id \in Nat /\ c.next \in Nat
        /\ \A g, id, next \in Nat : [gen |-> g, id |-> id, next |-> next] \in ChannelState
    BY DEF ChannelState
  <1>10. \A c \in ChannelState : [c EXCEPT !.next = @ + 1] \in ChannelState
    BY DEF ChannelState
  <1>11. \A q \in Position : q.id \in Nat /\ q.seq \in Nat /\ [q EXCEPT !.seq = @ + 1] \in Position
    BY DEF Position
  <1>12. \A id, seq \in Nat : [id |-> id, seq |-> seq] \in Position
    BY DEF Position
  <1> QED BY <1>1, <1>2, <1>3, <1>4, <1>5, <1>6, <1>7, <1>8, <1>9, <1>10, <1>11, <1>12

-----------------------------------------------------------------------------
(* The parts of the actions keep the types.                                *)
InputsType == inputs \in [Threads -> Seq(Record)] /\ \A t \in Threads : Len(inputs[t]) <= InputCap
OutputsType == outputs \in Seq(Outcome) /\ Len(outputs) <= ResultCap
JobsType == jobs \in Seq(Record) /\ Len(jobs) <= SearchCap
FailType == failure \in {"none", "contract", "fault"} /\ stopping \in BOOLEAN
AtType == at \in [Threads -> {"recv", "work", "out", "leaving", "gone"}]
CallType ==
  /\ call \in {"idle", "retire", "finish", "page", "clear", "ack", "failed",
               "stopped", "drop", "gone"}
  /\ after \in {"return", "page", "session", "end", "disable", "enable"}
HistoryType ==
  /\ source \in [Slots -> Position] /\ sent \in [Slots -> Seq(Record)]
  /\ got \in [Slots -> Seq(Outcome)]
BoundsType == submits \in Nat /\ changes \in Nat /\ decodes \in Nat

(* The parts of TypeOK.                                                    *)
AllTypes ==
  /\ CallType /\ target \in Slots \cup {0} /\ enabled \in [Slots -> BOOLEAN]
  /\ deferred \in Seq(Outcome) /\ acked \in BOOLEAN
  /\ generations \in [Slots -> Nat] /\ FailType
  /\ InputsType /\ OutputsType /\ JobsType
  /\ AtType /\ work \in [Threads -> Record] /\ made \in [Threads -> Outcome]
  /\ states \in [Slots -> ChannelState]
  /\ searcher \in {"recv", "decode", "leaving", "gone"} /\ job \in Record
  /\ HistoryType /\ BoundsType

(* TypeOK is the conjunction of the parts.                                 *)
LEMMA TypeParts == (TypeOK <=> AllTypes) /\ (TypeOK' <=> AllTypes')
  BY DEF TypeOK, AllTypes, CallType, FailType, InputsType, OutputsType, JobsType, AtType, HistoryType, BoundsType

(* What is sent to a thread with room leaves the queues within their       *)
(* capacity.                                                               *)
LEMMA SendToType ==
  ASSUME InputsType, NEW t \in Threads, NEW w \in Record, CanSend(t), SendTo(t, w)
  PROVE  InputsType'
  <1>1. inputs[t] \in Seq(Record) /\ Len(inputs[t]) < InputCap /\ Len(inputs[t]) \in Nat /\ InputCap \in Nat
    BY SlotFacts DEF InputsType, CanSend
  <1>2. Append(inputs[t], w) \in Seq(Record) /\ Len(Append(inputs[t], w)) <= InputCap
    BY <1>1
  <1>3. inputs' = [inputs EXCEPT ![t] = Append(inputs[t], w)]
    BY DEF SendTo
  <1> HIDE DEF Record
  <1> QED BY <1>2, <1>3 DEF InputsType

(* A failure has one of the reasons.                                       *)
LEMMA FailTyped ==
  ASSUME FailType, NEW why \in {"contract", "fault"}, Fail(why)
  PROVE  FailType'
  BY DEF FailType, Fail

(* A bump keeps the types of what it changes.                              *)
LEMMA BumpType ==
  ASSUME generations \in [Slots -> Nat], HistoryType, BoundsType, NEW slots, Bump(slots)
  PROVE  generations' \in [Slots -> Nat] /\ HistoryType' /\ changes' \in Nat
  <1>1. ASSUME NEW s \in Slots
        PROVE  /\ generations[s] + (IF s \in slots THEN 1 ELSE 0) \in Nat
               /\ (IF s \in slots THEN <<>> ELSE sent[s]) \in Seq(Record)
               /\ (IF s \in slots THEN <<>> ELSE got[s]) \in Seq(Outcome)
               /\ (IF s \in slots THEN [id |-> source[s].id + 1, seq |-> 0] ELSE source[s]) \in Position
    <2>1. source[s].id + 1 \in Nat
      <3>1. source[s] \in Position
        BY DEF HistoryType
      <3>2. source[s].id \in Nat
        BY <3>1 DEF Position
      <3> QED BY <3>2
    <2>2. [id |-> source[s].id + 1, seq |-> 0] \in Position
      BY <2>1, RecordType
    <2> QED BY <2>2 DEF HistoryType
  <1> QED BY <1>1 DEF Bump, HistoryType, BoundsType

(* The history ends as it began.                                           *)
LEMMA LastType ==
  ASSUME LastCall PROVE HistoryType' /\ BoundsType'
  <1>1. [id |-> 1, seq |-> 0] \in Position
    BY RecordType
  <1> QED BY <1>1 DEF LastCall, HistoryType, BoundsType

(* A thread that is done is back at its loop.                              *)
LEMMA DoneType ==
  ASSUME AtType, work \in [Threads -> Record], NEW t \in Threads, Done(t)
  PROVE  AtType' /\ work' \in [Threads -> Record]
  BY RecordType DEF AtType, Done, LoopTop

(* A thread that made a result has it in its hands.                        *)
LEMMA MakesType ==
  ASSUME AtType, made \in [Threads -> Outcome], NEW t \in Threads, NEW o \in Outcome, Makes(t, o)
  PROVE  AtType' /\ made' \in [Threads -> Outcome]
  BY DEF AtType, Makes

(* What is still valid of a batch is a batch.                              *)
LEMMA TakeType ==
  ASSUME NEW os \in Seq(Outcome), NEW ps \in Seq(Outcome)
  PROVE  /\ Valid(os) \in Seq(Outcome)
         /\ DeferredFirst(Checked(os), Valid(ps)) \in Seq(Outcome)
         /\ os \o Valid(ps) \in Seq(Outcome)
  <1>1. Valid(os) \in Seq(Outcome) /\ Valid(ps) \in Seq(Outcome)
    BY AmongType DEF Valid
  <1> QED BY <1>1, ConcatProperties DEF DeferredFirst, Checked

(* What the caller is given keeps the types.                               *)
LEMMA TakeOutputsType ==
  ASSUME got \in [Slots -> Seq(Outcome)], deferred \in Seq(Outcome), OutputsType, TakeOutputs
  PROVE  got' \in [Slots -> Seq(Outcome)] /\ deferred' \in Seq(Outcome) /\ OutputsType'
  <1> DEFINE os == DeferredFirst(Checked(deferred), Valid(outputs))
  <1>2. os \in Seq(Outcome)
    BY TakeType DEF OutputsType
  <1>3. /\ Give(os) /\ deferred' = <<>> /\ outputs' = <<>>
    BY DEF TakeOutputs
  <1> HIDE DEF os
  <1>4. ASSUME NEW s \in Slots
        PROVE  got[s] \o Among(os, {o \in Outcome : o.of.slot = s}) \in Seq(Outcome)
    <2>1. Among(os, {o \in Outcome : o.of.slot = s}) \in Seq(Outcome)
      BY <1>2, AmongType
    <2> QED BY <2>1, ConcatProperties
  <1>5. got' = [s \in Slots |-> got[s] \o Among(os, {o \in Outcome : o.of.slot = s})]
    BY <1>3 DEF Give
  <1> QED BY <1>3, <1>4, <1>5, SlotFacts DEF OutputsType

(* The first state is typed.                                               *)
THEOREM TypeInit == Init => TypeOK
  <1> SUFFICES ASSUME Init PROVE TypeOK
    OBVIOUS
  <1>1. HistoryType /\ BoundsType
    <2>1. [id |-> 1, seq |-> 0] \in Position
      BY RecordType
    <2> QED BY <2>1 DEF Init, HistoryType, BoundsType
  <1>2. CallType /\ FailType /\ AtType /\ InputsType /\ OutputsType /\ JobsType
    <2>1. /\ call = "idle" /\ after = "return" /\ stopping = FALSE /\ failure = "none"
          /\ inputs = [t \in Threads |-> <<>>] /\ outputs = <<>> /\ jobs = <<>>
          /\ at = [t \in Threads |-> "recv"]
      BY DEF Init
    <2>2. InputCap \in Nat /\ ResultCap \in Nat /\ SearchCap \in Nat
      BY SlotFacts
    <2>3. CallType /\ FailType /\ AtType
      BY <2>1 DEF CallType, FailType, AtType
    <2>4. InputsType /\ OutputsType /\ JobsType
      BY <2>1, <2>2 DEF InputsType, OutputsType, JobsType
    <2> QED BY <2>3, <2>4
  <1>3. /\ work \in [Threads -> Record] /\ made \in [Threads -> Outcome]
        /\ states \in [Slots -> ChannelState] /\ job \in Record
    BY RecordType DEF Init
  <1>4. /\ target \in Slots \cup {0} /\ enabled \in [Slots -> BOOLEAN]
        /\ deferred \in Seq(Outcome) /\ acked \in BOOLEAN /\ generations \in [Slots -> Nat]
        /\ searcher \in {"recv", "decode", "leaving", "gone"}
    <2>1. /\ target = 0 /\ enabled = [s \in Slots |-> TRUE] /\ deferred = <<>> /\ acked = FALSE
          /\ generations = [s \in Slots |-> 1] /\ searcher = "recv"
      BY DEF Init
    <2>2. target \in Slots \cup {0} /\ acked \in BOOLEAN /\ searcher \in {"recv", "decode", "leaving", "gone"}
      BY <2>1
    <2>3. enabled \in [Slots -> BOOLEAN] /\ generations \in [Slots -> Nat]
      BY <2>1
    <2>4. deferred \in Seq(Outcome)
      BY <2>1
    <2> QED BY <2>2, <2>3, <2>4
  <1> QED BY <1>1, <1>2, <1>3, <1>4, TypeParts DEF AllTypes

(* What the owner sends to a thread is work.                               *)
LEMMA PacketType ==
  ASSUME TypeOK, NEW s \in Slots, NEW kind \in {"iq", "finish", "deactivate"}
  PROVE  /\ Item(kind, s, generations[s], 0, 0) \in Record
         /\ Item(kind, s, generations[s], source[s].id, source[s].seq) \in Record
  <1>1. s \in Nat /\ generations[s] \in Nat /\ source[s] \in Position
    BY SlotFacts DEF TypeOK
  <1>2. source[s].id \in Nat /\ source[s].seq \in Nat
    BY <1>1, RecordType
  <1> QED BY <1>1, <1>2, RecordType

(* The steps inside a call of the owner keep the types.                    *)
LEMMA TypeOwner ==
  ASSUME TypeOK, Placed, InCall PROVE TypeOK'
  <1> USE TypeParts DEF AllTypes
  <1>1. CASE FinishPoll
    <2>1. got' \in [Slots -> Seq(Outcome)] /\ deferred' \in Seq(Outcome) /\ OutputsType'
      BY <1>1, TakeOutputsType DEF FinishPoll, HistoryType
    <2> QED BY <1>1, <2>1 DEF FinishPoll, owner, shared, queues, thread, search, past, bounds,
             CallType, FailType, InputsType, OutputsType, JobsType, AtType, HistoryType, BoundsType
  <1>2. CASE FinishEnd
    <2>1. got' \in [Slots -> Seq(Outcome)] /\ deferred' \in Seq(Outcome) /\ OutputsType'
      BY <1>2, TakeOutputsType DEF FinishEnd, HistoryType
    <2>2. CallType' /\ target' \in Slots \cup {0}
      BY <1>2, SlotFacts DEF FinishEnd, Return, CallType
    <2> QED BY <1>2, <2>1, <2>2 DEF FinishEnd, owner, shared, queues, thread, search, past, bounds,
             CallType, FailType, InputsType, OutputsType, JobsType, AtType, HistoryType, BoundsType
  <1>3. CASE Page
    <2>1. target \in Slots /\ target % WORKERS \in Threads
      BY <1>3, SlotFacts DEF Page, Placed, Control
    <2>2. InputsType'
      <3>1. CASE CanSend(target % WORKERS)
        BY <1>3, <2>1, <3>1, SendToType, PacketType DEF Page
      <3>2. CASE ~CanSend(target % WORKERS)
        BY <1>3, <3>2 DEF Page, InputsType
      <3> QED BY <3>1, <3>2
    <2>3. CallType'
      BY <1>3 DEF Page, CallType
    <2> QED BY <1>3, <2>2, <2>3 DEF Page, owner, shared, queues, thread, search, past, bounds,
             CallType, FailType, InputsType, OutputsType, JobsType, AtType, HistoryType, BoundsType
  <1>4. CASE Retire
    <2>1. deferred' \in Seq(Outcome) /\ OutputsType'
      <3>1. deferred \in Seq(Outcome) /\ outputs \in Seq(Outcome)
        BY DEF OutputsType
      <3>2. deferred \o Valid(outputs) \in Seq(Outcome)
        BY <3>1, TakeType
      <3>3. deferred' = deferred \o Valid(outputs) /\ outputs' = <<>>
        BY <1>4 DEF Retire
      <3> QED BY <3>2, <3>3, SlotFacts DEF OutputsType
    <2>2. CallType' /\ target' \in Slots \cup {0} /\ enabled' \in [Slots -> BOOLEAN]
      BY <1>4 DEF Retire, Return, CallType
    <2> QED BY <1>4, <2>1, <2>2 DEF Retire, owner, shared, queues, thread, search, past, bounds,
             CallType, FailType, InputsType, OutputsType, JobsType, AtType, HistoryType, BoundsType
  <1>5. CASE Clear
    <2>1. target \in Slots /\ target % WORKERS \in Threads
      BY <1>5, SlotFacts DEF Clear, Placed, Control
    <2>2. InputsType'
      <3>1. CASE CanSend(target % WORKERS)
        BY <1>5, <2>1, <3>1, SendToType, PacketType DEF Clear, AfterBump
      <3>2. CASE ~CanSend(target % WORKERS)
        BY <1>5, <3>2 DEF Clear, InputsType
      <3> QED BY <3>1, <3>2
    <2>3. CallType'
      BY <1>5 DEF Clear, CallType
    <2>4. FailType'
      BY <1>5 DEF Clear, FailType, Fail
    <2> QED BY <1>5, <2>2, <2>3, <2>4 DEF Clear, owner, shared, queues, thread, search, past, bounds,
             CallType, FailType, InputsType, OutputsType, JobsType, AtType, HistoryType, BoundsType
  <1>6. CASE Ack
    <2>1. target \in Slots
      BY <1>6 DEF Ack, Placed, Control
    <2>2. CallType' /\ target' \in Slots \cup {0} /\ enabled' \in [Slots -> BOOLEAN]
      BY <1>6, <2>1, SlotFacts DEF Ack, Return, CallType
    <2>3. acked' \in BOOLEAN
      BY <1>6 DEF Ack
    <2> QED BY <1>6, <2>2, <2>3 DEF Ack, owner, shared, queues, thread, search, past, bounds,
             CallType, FailType, InputsType, OutputsType, JobsType, AtType, HistoryType, BoundsType
  <1>7. CASE Notice
    BY <1>7 DEF Notice, owner, shared, queues, thread, search, past, bounds,
             CallType, FailType, InputsType, OutputsType, JobsType, AtType, HistoryType, BoundsType
  <1>8. CASE StopFailed
    <2>1. generations' \in [Slots -> Nat]
      BY <1>8 DEF StopFailed
    <2>2. HistoryType' /\ BoundsType'
      BY <1>8, LastType DEF StopFailed
    <2>3. CallType' /\ FailType'
      BY <1>8 DEF StopFailed, CallType, FailType
    <2> QED BY <1>8, <2>1, <2>2, <2>3 DEF StopFailed, owner, shared, queues, thread, search, past, bounds,
             CallType, FailType, InputsType, OutputsType, JobsType, AtType, HistoryType, BoundsType
  <1>9. CASE Joined
    BY <1>9 DEF Joined, owner, shared, queues, thread, search, past, bounds,
             CallType, FailType, InputsType, OutputsType, JobsType, AtType, HistoryType, BoundsType
  <1> QED BY <1>1, <1>2, <1>3, <1>4, <1>5, <1>6, <1>7, <1>8, <1>9 DEF InCall

(* The steps with which a call of the owner begins keep the types.         *)
LEMMA TypeFree ==
  ASSUME TypeOK, Placed, Free PROVE TypeOK'
  <1> USE TypeParts DEF AllTypes
  <1>1. CASE Poll
    <2>1. CASE failure # "none"
      BY <1>1, <2>1 DEF Poll, owner, shared, queues, thread, search, past, bounds,
             CallType, FailType, InputsType, OutputsType, JobsType, AtType, HistoryType, BoundsType
    <2>2. CASE failure = "none"
      <3>1. got' \in [Slots -> Seq(Outcome)] /\ deferred' \in Seq(Outcome) /\ OutputsType'
        BY <1>1, <2>2, TakeOutputsType DEF Poll, HistoryType
      <3> QED BY <1>1, <2>2, <3>1 DEF Poll, owner, shared, queues, thread, search, past, bounds,
             CallType, FailType, InputsType, OutputsType, JobsType, AtType, HistoryType, BoundsType
    <2> QED BY <2>1, <2>2
  <1>2. CASE ResetSession
    <2>1. generations' \in [Slots -> Nat] /\ HistoryType' /\ changes' \in Nat
      BY <1>2, BumpType DEF ResetSession
    <2>2. CallType'
      BY <1>2 DEF ResetSession, CallType
    <2> QED BY <1>2, <2>1, <2>2 DEF ResetSession, owner, shared, queues, thread, search, past, bounds,
             CallType, FailType, InputsType, OutputsType, JobsType, AtType, HistoryType, BoundsType
  <1>3. CASE Drop
    <2>1. HistoryType' /\ BoundsType'
      BY <1>3, LastType DEF Drop
    <2>2. CallType' /\ FailType'
      BY <1>3 DEF Drop, CallType, FailType
    <2> QED BY <1>3, <2>1, <2>2 DEF Drop, owner, shared, queues, thread, search, past, bounds,
             CallType, FailType, InputsType, OutputsType, JobsType, AtType, HistoryType, BoundsType
  <1>4. ASSUME NEW then \in {"return", "page"}, NEW s \in Slots, Finish(then, s) PROVE TypeOK'
    <2>1. CallType' /\ target' \in Slots \cup {0}
      BY <1>4 DEF Finish, CallType
    <2>2. changes' \in Nat
      BY <1>4 DEF Finish, BoundsType
    <2> QED BY <1>4, <2>1, <2>2 DEF Finish, owner, shared, queues, thread, search, past, bounds,
             CallType, FailType, InputsType, OutputsType, JobsType, AtType, HistoryType, BoundsType
  <1>5. ASSUME NEW s \in Slots, Submit(s) PROVE TypeOK'
    <2> DEFINE p == Item("iq", s, generations[s], source[s].id, source[s].seq)
    <2>1. p \in Record
      BY PacketType
    <2>2. s % WORKERS \in Threads
      BY SlotFacts
    <2>3. source' \in [Slots -> Position] /\ submits' \in Nat
      <3>1. [source[s] EXCEPT !.seq = @ + 1] \in Position
        <4>1. source[s] \in Position
          BY DEF HistoryType
        <4> QED BY <4>1, RecordType
      <3>2. source' = [source EXCEPT ![s] = [source[s] EXCEPT !.seq = @ + 1]]
        BY <1>5 DEF Submit
      <3> QED BY <1>5, <3>1, <3>2, SMTT(60) DEF Submit, HistoryType, BoundsType
    <2> HIDE DEF p
    <2>4. CASE CanSend(s % WORKERS)
      <3>1. /\ SendTo(s % WORKERS, p) /\ sent' = [sent EXCEPT ![s] = Append(@, p)]
            /\ UNCHANGED <<call, failure, stopping>>
        BY <1>5, <2>4 DEF Submit, p
      <3>2. InputsType'
        BY <2>1, <2>2, <2>4, <3>1, SendToType
      <3>3. sent' \in [Slots -> Seq(Record)]
        BY <2>1, <3>1 DEF HistoryType
      <3> QED BY <1>5, <2>3, <3>1, <3>2, <3>3, SMTT(60) DEF Submit, owner, shared, queues, thread, search, past, bounds,
             CallType, FailType, InputsType, OutputsType, JobsType, AtType, HistoryType, BoundsType
    <2>5. CASE ~CanSend(s % WORKERS)
      <3>1. Fail("fault") /\ call' = "failed" /\ UNCHANGED <<inputs, sent>>
        BY <1>5, <2>5 DEF Submit
      <3>2. FailType'
        BY <3>1, FailTyped
      <3> QED BY <1>5, <2>3, <3>1, <3>2 DEF Submit, owner, shared, queues, thread, search, past, bounds,
             CallType, FailType, InputsType, OutputsType, JobsType, AtType, HistoryType, BoundsType
    <2> QED BY <2>4, <2>5
  <1>6. ASSUME NEW s \in Slots, Recapture(s) PROVE TypeOK'
    <2>1. source' \in [Slots -> Position] /\ changes' \in Nat
      <3>1. source[s].id + 1 \in Nat
        <4>1. source[s] \in Position
          BY DEF HistoryType
        <4>2. source[s].id \in Nat
          BY <4>1 DEF Position
        <4> QED BY <4>2
      <3>2. [id |-> source[s].id + 1, seq |-> 0] \in Position
        BY <3>1, RecordType
      <3>3. source' = [source EXCEPT ![s] = [id |-> source[s].id + 1, seq |-> 0]]
        BY <1>6 DEF Recapture
      <3> QED BY <1>6, <3>2, <3>3 DEF Recapture, HistoryType, BoundsType
    <2> QED BY <1>6, <2>1 DEF Recapture, owner, shared, queues, thread, search, past, bounds,
             CallType, FailType, InputsType, OutputsType, JobsType, AtType, HistoryType, BoundsType
  <1>7. ASSUME NEW s \in Slots, NEW on \in BOOLEAN, Configure(s, on) PROVE TypeOK'
    <2>1. generations' \in [Slots -> Nat] /\ HistoryType' /\ changes' \in Nat
      BY <1>7, BumpType DEF Configure
    <2>2. CallType' /\ target' \in Slots \cup {0}
      BY <1>7 DEF Configure, CallType
    <2> QED BY <1>7, <2>1, <2>2 DEF Configure, owner, shared, queues, thread, search, past, bounds,
             CallType, FailType, InputsType, OutputsType, JobsType, AtType, HistoryType, BoundsType
  <1>8. First \in Slots
    BY SlotFacts
  <1> QED BY <1>1, <1>2, <1>3, <1>4, <1>5, <1>6, <1>7, <1>8 DEF Free

(* The steps of the search thread keep the types.                          *)
LEMMA TypeSearch ==
  ASSUME TypeOK, Placed, Search PROVE TypeOK'
  <1> USE TypeParts DEF AllTypes
  <1>1. CASE SearchLeave
    BY <1>1, SlotFacts, SMTT(60) DEF SearchLeave, owner, shared, queues, thread, search, past, bounds,
             CallType, FailType, InputsType, OutputsType, JobsType, AtType, HistoryType, BoundsType
  <1>2. CASE SearchRecv
    <2>1. Head(jobs) \in Record /\ JobsType'
      <3>1. jobs \in Seq(Record) /\ jobs # <<>> /\ jobs' = Tail(jobs) /\ Len(jobs) <= SearchCap
        BY <1>2 DEF SearchRecv, JobsType
      <3>2. Len(Tail(jobs)) = Len(jobs) - 1 /\ Tail(jobs) \in Seq(Record) /\ Head(jobs) \in Record
        BY <3>1
      <3> QED BY <3>1, <3>2, SlotFacts DEF JobsType
    <2>2. job' \in Record /\ searcher' \in {"recv", "decode", "leaving", "gone"}
      BY <1>2, <2>1 DEF SearchRecv, LoopTop
    <2> QED BY <1>2, <2>1, <2>2 DEF SearchRecv, owner, shared, queues, thread, search, past, bounds,
             CallType, FailType, InputsType, OutputsType, JobsType, AtType, HistoryType, BoundsType
  <1>3. CASE SearchDone
    <2>1. searcher' \in {"recv", "decode", "leaving", "gone"} /\ job' \in Record
      BY <1>3, RecordType DEF SearchDone, LoopTop
    <2>2. InputsType' /\ FailType'
      <3>1. job.slot % WORKERS \in Threads
        BY <1>3, SlotFacts DEF SearchDone, Placed, JobsKnown, Known
      <3>2. CASE ~Current(job.slot, job.gen)
        BY <1>3, <3>2 DEF SearchDone, InputsType, FailType
      <3>3. CASE Current(job.slot, job.gen) /\ CanSend(job.slot % WORKERS)
        <4>1. SendTo(job.slot % WORKERS, job) /\ UNCHANGED <<failure, stopping>>
          BY <1>3, <3>3 DEF SearchDone
        <4> QED BY <3>1, <3>3, <4>1, SendToType DEF FailType
      <3>4. CASE Current(job.slot, job.gen) /\ ~CanSend(job.slot % WORKERS)
        <4>1. Fail("fault") /\ UNCHANGED inputs
          BY <1>3, <3>4 DEF SearchDone
        <4> QED BY <4>1, FailTyped DEF InputsType
      <3> QED BY <3>2, <3>3, <3>4
    <2> QED BY <1>3, <2>1, <2>2 DEF SearchDone, owner, shared, queues, thread, search, past, bounds,
             CallType, FailType, InputsType, OutputsType, JobsType, AtType, HistoryType, BoundsType
  <1> QED BY <1>1, <1>2, <1>3 DEF Search

(* The steps of a realtime thread keep the types.                          *)
LEMMA TypeRealtime ==
  ASSUME TypeOK, Placed, NEW t \in Threads, Realtime(t) PROVE TypeOK'
  <1> USE TypeParts DEF AllTypes
  <1>1. CASE Leave(t)
    <2>1. AtType' /\ InputsType'
      BY <1>1, SlotFacts DEF Leave, AtType, InputsType
    <2> QED BY <1>1, <2>1 DEF Leave, owner, shared, queues, thread, search, past, bounds,
             CallType, FailType, InputsType, OutputsType, JobsType, AtType, HistoryType, BoundsType
  <1>2. CASE Recv(t)
    <2>1. inputs[t] \in Seq(Record) /\ inputs[t] # <<>> /\ Len(inputs[t]) <= InputCap
      BY <1>2 DEF Recv, InputsType
    <2>2. /\ Len(Tail(inputs[t])) <= InputCap /\ Tail(inputs[t]) \in Seq(Record)
          /\ Head(inputs[t]) \in Record
      BY <2>1, SlotFacts
    <2>3. AtType' /\ InputsType' /\ work' \in [Threads -> Record]
      BY <1>2, <2>2 DEF Recv, AtType, InputsType
    <2> QED BY <1>2, <2>3 DEF Recv, owner, shared, queues, thread, search, past, bounds,
             CallType, FailType, InputsType, OutputsType, JobsType, AtType, HistoryType, BoundsType
  <1>3. CASE ProcessPacket(t)
    <2> DEFINE p == work[t]
               old == states[p.slot]
               state == IF NeedsReset(old, p) THEN [gen |-> p.gen, id |-> p.id, next |-> 0] ELSE old
    <2>1. /\ p \in Record /\ p.slot \in Slots /\ p.gen \in Nat /\ p.id \in Nat
          /\ old \in ChannelState
      <3>1. Line(t)[1] = p /\ 1 \in 1..Len(Line(t))
        <4>1. at[t] = "work" /\ inputs[t] \in Seq(Record) /\ p \in Record
          BY <1>3 DEF ProcessPacket, InputsType
        <4> QED BY <4>1 DEF Line
      <3>2. p \in Record /\ p.slot \in Slots
        BY <3>1 DEF Placed, LinesKnown, Known
      <3> QED BY <3>2, RecordType
    <2>2. [state EXCEPT !.next = @ + 1] \in ChannelState
      <3>1. CASE NeedsReset(old, p)
        <4>1. [[gen |-> p.gen, id |-> p.id, next |-> 0] EXCEPT !.next = @ + 1] \in ChannelState
          BY <2>1, RecordType
        <4> QED BY <3>1, <4>1
      <3>2. CASE ~NeedsReset(old, p)
        BY <2>1, <3>2, RecordType
      <3> QED BY <3>1, <3>2
    <2>3. [of |-> p, as |-> p.id] \in Outcome /\ [p EXCEPT !.kind = "search"] \in Record
      BY <2>1, RecordType
    <2>4. FailType' /\ decodes' \in Nat
      BY <1>3, FailTyped DEF ProcessPacket, BoundsType, FailType
    <2>5. states' \in [Slots -> ChannelState]
      <3>1. \/ UNCHANGED states
            \/ states' = [states EXCEPT ![p.slot] = [state EXCEPT !.next = @ + 1]]
        BY <1>3 DEF ProcessPacket
      <3> HIDE DEF p, state, old
      <3> QED BY <2>2, <3>1
    <2>6. AtType' /\ work' \in [Threads -> Record] /\ made' \in [Threads -> Outcome]
      <3>1. \/ Done(t) /\ UNCHANGED made
            \/ Makes(t, [of |-> p, as |-> p.id]) /\ UNCHANGED work
        BY <1>3 DEF ProcessPacket
      <3> HIDE DEF p
      <3> QED BY <2>3, <3>1, DoneType, MakesType
    <2>7. JobsType'
      <3>1. \/ UNCHANGED jobs
            \/ Len(jobs) < SearchCap /\ jobs' = Append(jobs, [p EXCEPT !.kind = "search"])
        BY <1>3 DEF ProcessPacket
      <3> DEFINE e == [p EXCEPT !.kind = "search"]
      <3>2. e \in Record /\ (UNCHANGED jobs \/ (Len(jobs) < SearchCap /\ jobs' = Append(jobs, e)))
        BY <2>3, <3>1
      <3>3. SearchCap \in Nat
        BY SlotFacts
      <3>4. jobs \in Seq(Record) /\ Len(jobs) <= SearchCap
        BY DEF JobsType
      <3> HIDE DEF e, p
      <3>5. Append(jobs, e) \in Seq(Record) /\ Len(Append(jobs, e)) = Len(jobs) + 1 /\ Len(jobs) \in Nat
        BY <3>2, <3>4
      <3>6. CASE UNCHANGED jobs
        BY <3>4, <3>6 DEF JobsType
      <3>7. CASE Len(jobs) < SearchCap /\ jobs' = Append(jobs, e)
        BY <3>3, <3>5, <3>7 DEF JobsType
      <3> QED BY <3>2, <3>6, <3>7
    <2> HIDE DEF p, old, state
    <2>8. UNCHANGED <<owner, generations, inputs, outputs, search, past, submits, changes>>
      BY <1>3 DEF ProcessPacket
    <2> QED BY <2>4, <2>5, <2>6, <2>7, <2>8 DEF owner, shared, queues, thread, search, past, bounds,
             CallType, FailType, InputsType, OutputsType, JobsType, AtType, HistoryType, BoundsType
  <1>4. CASE ProcessOther(t)
    <2> DEFINE w == work[t]
               state == states[w.slot]
    <2>1. w \in Record /\ w.slot \in Slots /\ state \in ChannelState
      <3>1. Line(t)[1] = w /\ 1 \in 1..Len(Line(t))
        <4>1. at[t] = "work" /\ inputs[t] \in Seq(Record) /\ w \in Record
          BY <1>4 DEF ProcessOther, InputsType
        <4> QED BY <4>1 DEF Line
      <3>2. w \in Record /\ w.slot \in Slots
        BY <3>1 DEF Placed, LinesKnown, Known
      <3> QED BY <3>2
    <2>2. [of |-> w, as |-> state.id] \in Outcome /\ [of |-> [w EXCEPT !.id = state.id], as |-> state.id] \in Outcome
      <3>1. state.id \in Nat
        BY <2>1, RecordType
      <3>2. [w EXCEPT !.id = state.id] \in Record
        BY <2>1, <3>1, RecordType
      <3> QED BY <2>1, <3>1, <3>2, RecordType
    <2>3. acked' \in BOOLEAN
      BY <1>4 DEF ProcessOther
    <2>4. states' \in [Slots -> ChannelState]
      BY <1>4, RecordType DEF ProcessOther
    <2>5. AtType' /\ work' \in [Threads -> Record] /\ made' \in [Threads -> Outcome]
      <3>1. \/ Done(t) /\ UNCHANGED made
            \/ Makes(t, [of |-> w, as |-> state.id]) /\ UNCHANGED work
            \/ Makes(t, [of |-> [w EXCEPT !.id = state.id], as |-> state.id]) /\ UNCHANGED work
        BY <1>4 DEF ProcessOther
      <3> HIDE DEF w, state
      <3> QED BY <2>2, <3>1, DoneType, MakesType
    <2>6. UNCHANGED <<call, after, target, enabled, deferred, shared, queues, search, past, bounds>>
      BY <1>4 DEF ProcessOther
    <2> QED BY <2>3, <2>4, <2>5, <2>6 DEF owner, shared, queues, thread, search, past, bounds,
             CallType, FailType, InputsType, OutputsType, JobsType, AtType, HistoryType, BoundsType
  <1>5. CASE Output(t)
    <2>1. Done(t) /\ AtType' /\ work' \in [Threads -> Record]
      BY <1>5, DoneType DEF Output
    <2>2. made' \in [Threads -> Outcome]
      BY <1>5, RecordType DEF Output
    <2>3. OutputsType' /\ FailType'
      <3>1. CASE ResultRoom
        <4>1. outputs' = Append(outputs, made[t]) /\ made[t] \in Outcome /\ UNCHANGED <<failure, stopping>>
          BY <1>5, <3>1 DEF Output
        <4> QED BY <3>1, <4>1, SlotFacts DEF OutputsType, FailType, ResultRoom
      <3>2. CASE ~ResultRoom
        BY <1>5, <3>2, FailTyped DEF Output, OutputsType
      <3> QED BY <3>1, <3>2
    <2> QED BY <1>5, <2>1, <2>2, <2>3 DEF Output, owner, shared, queues, thread, search, past, bounds,
             CallType, FailType, InputsType, OutputsType, JobsType, AtType, HistoryType, BoundsType
  <1> QED BY <1>1, <1>2, <1>3, <1>4, <1>5 DEF Realtime

(* Every step keeps the types.                                             *)
LEMMA TypeStep ==
  ASSUME TypeOK, Placed, [Next]_vars PROVE TypeOK'
  <1>1. CASE UNCHANGED vars
    BY <1>1, TypeParts DEF vars, AllTypes, owner, shared, queues, thread, search, past, bounds,
             CallType, FailType, InputsType, OutputsType, JobsType, AtType, HistoryType, BoundsType
  <1> QED BY <1>1, TypeOwner, TypeFree, TypeSearch, TypeRealtime DEF Next

-----------------------------------------------------------------------------
(* What becomes of the work in line at a thread.                           *)
LineSame == \A t \in Threads : Line(t)' = Line(t)

(* Work is sent to a thread.                                               *)
LineSent(t, w) ==
  Line(t)' = Append(Line(t), w) /\ \A u \in Threads \ {t} : Line(u)' = Line(u)

(* A thread is done with the work in its hands.                            *)
LineUsed(t) ==
  /\ at[t] = "work" /\ Line(t)' = Tail(Line(t)) /\ Head(Line(t)) = work[t] /\ Line(t) # <<>>
  /\ \A u \in Threads \ {t} : Line(u)' = Line(u)

(* A thread leaves.                                                        *)
LineGone(t) ==
  Line(t)' = <<>> /\ \A u \in Threads \ {t} : Line(u)' = Line(u)

(* The line of a thread is work, the work in hand first.                   *)
LEMMA LineType ==
  ASSUME TypeOK, NEW t \in Threads
  PROVE  /\ Line(t) \in Seq(Record)
         /\ at[t] = "work" => /\ Line(t) # <<>> /\ Head(Line(t)) = work[t]
                              /\ Line(t)[1] = work[t] /\ Tail(Line(t)) = inputs[t]
                              /\ work[t] \in Record
         /\ at[t] # "work" => Line(t) = inputs[t]
  <1>1. inputs[t] \in Seq(Record) /\ work[t] \in Record
    BY TypeParts DEF AllTypes, InputsType
  <1>2. CASE at[t] = "work"
    <2>1. Line(t) = <<work[t]>> \o inputs[t]
      BY <1>2 DEF Line
    <2> HIDE DEF Record
    <2> QED BY <1>1, <1>2, <2>1
  <1>3. CASE at[t] # "work"
    <2>1. Line(t) = <<>> \o inputs[t]
      BY <1>3 DEF Line
    <2> QED BY <1>1, <1>3, <2>1
  <1> QED BY <1>2, <1>3

(* The line depends on the thread's place, hands and queue.                *)
LEMMA LineKept ==
  ASSUME UNCHANGED <<inputs, at, work>> PROVE LineSame
  BY DEF LineSame, Line

(* What is sent to a thread goes to the end of its line.                   *)
LEMMA LineSends ==
  ASSUME TypeOK, NEW t \in Threads, NEW w \in Record, SendTo(t, w), UNCHANGED <<at, work>>
  PROVE  LineSent(t, w)
  <1>1. inputs \in [Threads -> Seq(Record)] /\ work[t] \in Record
    BY TypeParts DEF AllTypes, InputsType
  <1>2. inputs'[t] = Append(inputs[t], w) /\ \A u \in Threads \ {t} : inputs'[u] = inputs[u]
    BY <1>1 DEF SendTo
  <1>3. Line(t)' = Append(Line(t), w)
    <2>1. CASE at[t] = "work"
      <3>1. Line(t) = <<work[t]>> \o inputs[t] /\ Line(t)' = <<work[t]>> \o Append(inputs[t], w)
        BY <1>2, <2>1 DEF Line
      <3>2. inputs[t] \in Seq(Record) /\ <<work[t]>> \in Seq(Record)
        BY <1>1
      <3> HIDE DEF Record
      <3>3. <<work[t]>> \o Append(inputs[t], w) = Append(<<work[t]>> \o inputs[t], w)
        BY <3>2, ConcatAppend, SMTT(60)
      <3> QED BY <3>1, <3>3
    <2>2. CASE at[t] # "work"
      <3>1. Line(t) = <<>> \o inputs[t] /\ Line(t)' = <<>> \o Append(inputs[t], w)
        BY <1>2, <2>2 DEF Line
      <3>2. inputs[t] \in Seq(Record) /\ <<>> \in Seq(Record)
        BY <1>1
      <3> QED BY <3>1, <3>2, ConcatAppend
    <2> QED BY <2>1, <2>2
  <1> QED BY <1>2, <1>3 DEF LineSent, Line

(* A thread that takes work from its queue keeps its line.                 *)
LEMMA LineReceives ==
  ASSUME TypeOK, NEW t \in Threads, Recv(t)
  PROVE  LineSame
  <1>1. inputs \in [Threads -> Seq(Record)] /\ at \in [Threads -> {"recv", "work", "out", "leaving", "gone"}]
        /\ work \in [Threads -> Record]
    BY TypeParts DEF AllTypes, InputsType, AtType
  <1>2. /\ at[t] = "recv" /\ inputs[t] # <<>>
        /\ work'[t] = Head(inputs[t]) /\ inputs'[t] = Tail(inputs[t]) /\ at'[t] = "work"
        /\ \A u \in Threads \ {t} : inputs'[u] = inputs[u] /\ work'[u] = work[u] /\ at'[u] = at[u]
    BY <1>1 DEF Recv
  <1>3. Line(t) = <<>> \o inputs[t] /\ Line(t)' = <<Head(inputs[t])>> \o Tail(inputs[t])
    BY <1>2 DEF Line
  <1>4. inputs[t] \in Seq(Record) /\ inputs[t] # <<>>
    BY <1>1, <1>2
  <1> HIDE DEF Record
  <1>5. <<>> \o inputs[t] = inputs[t] /\ <<Head(inputs[t])>> \o Tail(inputs[t]) = inputs[t]
    BY <1>4
  <1> QED BY <1>2, <1>3, <1>5 DEF LineSame, Line

(* A thread that is done with its work drops it from its line.             *)
LEMMA LineFinishes ==
  ASSUME TypeOK, NEW t \in Threads, at[t] = "work", UNCHANGED inputs,
         \E place \in {"recv", "out", "leaving"} : at' = [at EXCEPT ![t] = place],
         \A u \in Threads \ {t} : work'[u] = work[u]
  PROVE  LineUsed(t)
  <1>1. at \in [Threads -> {"recv", "work", "out", "leaving", "gone"}] /\ inputs[t] \in Seq(Record)
    BY TypeParts DEF AllTypes, AtType, InputsType
  <1>2. at'[t] # "work" /\ \A u \in Threads \ {t} : at'[u] = at[u]
    BY <1>1
  <1>3. Line(t)' = inputs[t]
    <2>1. Line(t)' = <<>> \o inputs[t]
      BY <1>2 DEF Line
    <2> QED BY <1>1, <2>1
  <1> QED BY <1>2, <1>3, LineType DEF LineUsed, Line

(* A thread that queues its result keeps its line.                         *)
LEMMA LineOutput ==
  ASSUME TypeOK, NEW t \in Threads, Output(t)
  PROVE  LineSame
  <1>1. at \in [Threads -> {"recv", "work", "out", "leaving", "gone"}] /\ work \in [Threads -> Record]
    BY TypeParts DEF AllTypes, AtType
  <1>2. /\ at[t] = "out" /\ at'[t] # "work" /\ UNCHANGED inputs
        /\ \A u \in Threads \ {t} : work'[u] = work[u] /\ at'[u] = at[u]
    BY <1>1 DEF Output, Done, LoopTop
  <1> QED BY <1>2 DEF LineSame, Line

(* A thread that leaves leaves no line.                                    *)
LEMMA LineLeaves ==
  ASSUME TypeOK, NEW t \in Threads, Leave(t)
  PROVE  LineGone(t)
  <1>1. at \in [Threads -> {"recv", "work", "out", "leaving", "gone"}] /\ inputs \in [Threads -> Seq(Record)]
    BY TypeParts DEF AllTypes, AtType, InputsType
  <1>2. /\ at'[t] = "gone" /\ inputs'[t] = <<>> /\ UNCHANGED work
        /\ \A u \in Threads \ {t} : inputs'[u] = inputs[u] /\ at'[u] = at[u]
    BY <1>1 DEF Leave
  <1>3. <<>> \o <<>> = <<>>
    OBVIOUS
  <1> QED BY <1>2, <1>3 DEF LineGone, Line

(* What a packet or other work becomes when it has been processed.         *)
LEMMA PacketUsed ==
  ASSUME TypeOK, NEW t \in Threads, ProcessPacket(t) \/ ProcessOther(t)
  PROVE  LineUsed(t)
  <1>1. at[t] = "work" /\ UNCHANGED inputs
    BY DEF ProcessPacket, ProcessOther, queues
  <1>2. /\ \E place \in {"recv", "out", "leaving"} : at' = [at EXCEPT ![t] = place]
        /\ \A u \in Threads \ {t} : work'[u] = work[u]
    <2>0. work \in [Threads -> Record]
      BY TypeParts DEF AllTypes
    <2>1. Done(t) \/ ((\E o : Makes(t, o)) /\ UNCHANGED work)
      <3>1. CASE ProcessPacket(t)
        BY <3>1 DEF ProcessPacket
      <3>2. CASE ProcessOther(t)
        BY <3>2 DEF ProcessOther
      <3> QED BY <3>1, <3>2
    <2>2. CASE Done(t)
      BY <2>0, <2>2 DEF Done, LoopTop
    <2>3. CASE (\E o : Makes(t, o)) /\ UNCHANGED work
      BY <2>3 DEF Makes
    <2> QED BY <2>1, <2>2, <2>3
  <1> QED BY <1>1, <1>2, LineFinishes

-----------------------------------------------------------------------------
(* Where work and results can be.                                          *)
GensGrow == \A s \in Slots : generations[s] <= generations'[s]

(* No generation comes back.                                               *)
LEMMA GenerationsGrow ==
  ASSUME TypeOK, [Next]_vars PROVE GensGrow
  <1>0. \A s \in Slots : generations[s] \in Nat
    BY TypeParts DEF AllTypes
  <1> USE <1>0 DEF GensGrow
  <1>1. CASE FinishPoll
    BY <1>1 DEF FinishPoll, shared
  <1>2. CASE FinishEnd
    BY <1>2 DEF FinishEnd, shared
  <1>3. CASE Page
    BY <1>3 DEF Page, shared
  <1>4. CASE Retire
    BY <1>4 DEF Retire, shared
  <1>5. CASE Clear
    BY <1>5 DEF Clear, shared
  <1>6. CASE Ack
    BY <1>6 DEF Ack, shared
  <1>7. CASE Notice
    BY <1>7 DEF Notice, shared
  <1>8. CASE StopFailed
    BY <1>8 DEF StopFailed
  <1>9. CASE Joined
    BY <1>9 DEF Joined, shared
  <1>10. CASE Poll
    BY <1>10 DEF Poll, shared
  <1>11. CASE ResetSession
    BY <1>11 DEF ResetSession, Bump
  <1>12. CASE Drop
    BY <1>12 DEF Drop, shared
  <1>13. ASSUME NEW then \in {"return", "page"}, NEW s \in Slots, Finish(then, s) PROVE GensGrow
    BY <1>13 DEF Finish, shared
  <1>14. ASSUME NEW s \in Slots, Submit(s) PROVE GensGrow
    BY <1>14 DEF Submit, shared
  <1>15. ASSUME NEW s \in Slots, Recapture(s) PROVE GensGrow
    BY <1>15 DEF Recapture, shared
  <1>16. ASSUME NEW s \in Slots, NEW on \in BOOLEAN, Configure(s, on) PROVE GensGrow
    BY <1>16 DEF Configure, Bump
  <1>17. CASE SearchLeave
    BY <1>17 DEF SearchLeave, shared
  <1>18. CASE SearchRecv
    BY <1>18 DEF SearchRecv, shared
  <1>19. CASE SearchDone
    BY <1>19 DEF SearchDone, shared
  <1>20. ASSUME NEW t \in Threads, Leave(t) PROVE GensGrow
    BY <1>20 DEF Leave, shared
  <1>21. ASSUME NEW t \in Threads, Recv(t) PROVE GensGrow
    BY <1>21 DEF Recv, shared
  <1>22. ASSUME NEW t \in Threads, ProcessPacket(t) PROVE GensGrow
    BY <1>22 DEF ProcessPacket, shared
  <1>23. ASSUME NEW t \in Threads, ProcessOther(t) PROVE GensGrow
    BY <1>23 DEF ProcessOther, shared
  <1>24. ASSUME NEW t \in Threads, Output(t) PROVE GensGrow
    BY <1>24 DEF Output, shared
  <1>25. CASE UNCHANGED vars
    BY <1>25 DEF vars, shared
  <1>26. First \in Slots
    BY SlotFacts
  <1> QED BY <1>1, <1>2, <1>3, <1>4, <1>5, <1>6, <1>7, <1>8, <1>9, <1>10, <1>11,
    <1>12, <1>13, <1>14, <1>15, <1>16, <1>17, <1>18, <1>19, <1>20, <1>21,
    <1>22, <1>23, <1>24, <1>25, <1>26 DEF Next, InCall, Free, Search, Realtime

(* The workers only stop after a failure or for an owner that ends them.   *)
LEMMA StoppedStep ==
  ASSUME TypeOK, Stopped, [Next]_vars PROVE Stopped'
  <1> USE DEF Stopped
  <1>1. CASE FinishPoll
    BY <1>1 DEF FinishPoll, owner, shared
  <1>2. CASE FinishEnd
    BY <1>2 DEF FinishEnd, Return, shared
  <1>3. CASE Page
    BY <1>3 DEF Page, owner, shared
  <1>4. CASE Retire
    BY <1>4 DEF Retire, Return, shared
  <1>5. CASE Clear
    BY <1>5 DEF Clear, Fail
  <1>6. CASE Ack
    BY <1>6 DEF Ack, Return, shared
  <1>7. CASE Notice
    BY <1>7 DEF Notice, owner, shared
  <1>8. CASE StopFailed
    BY <1>8 DEF StopFailed
  <1>9. CASE Joined
    BY <1>9 DEF Joined, owner, shared
  <1>10. CASE Poll
    BY <1>10 DEF Poll, owner, shared
  <1>11. CASE ResetSession
    BY <1>11 DEF ResetSession, owner, shared
  <1>12. CASE Drop
    BY <1>12 DEF Drop
  <1>13. ASSUME NEW then \in {"return", "page"}, NEW s \in Slots, Finish(then, s) PROVE Stopped'
    BY <1>13 DEF Finish, owner, shared
  <1>14. ASSUME NEW s \in Slots, Submit(s) PROVE Stopped'
    BY <1>14 DEF Submit, Fail
  <1>15. ASSUME NEW s \in Slots, Recapture(s) PROVE Stopped'
    BY <1>15 DEF Recapture, owner, shared
  <1>16. ASSUME NEW s \in Slots, NEW on \in BOOLEAN, Configure(s, on) PROVE Stopped'
    BY <1>16 DEF Configure
  <1>17. CASE SearchLeave
    BY <1>17 DEF SearchLeave, owner, shared
  <1>18. CASE SearchRecv
    BY <1>18 DEF SearchRecv, owner, shared
  <1>19. CASE SearchDone
    BY <1>19 DEF SearchDone, Fail, owner
  <1>20. ASSUME NEW t \in Threads, Leave(t) PROVE Stopped'
    BY <1>20 DEF Leave, owner, shared
  <1>21. ASSUME NEW t \in Threads, Recv(t) PROVE Stopped'
    BY <1>21 DEF Recv, owner, shared
  <1>22. ASSUME NEW t \in Threads, ProcessPacket(t) PROVE Stopped'
    BY <1>22 DEF ProcessPacket, Fail, owner
  <1>23. ASSUME NEW t \in Threads, ProcessOther(t) PROVE Stopped'
    BY <1>23 DEF ProcessOther, owner, shared
  <1>24. ASSUME NEW t \in Threads, Output(t) PROVE Stopped'
    BY <1>24 DEF Output, Fail, owner
  <1>25. CASE UNCHANGED vars
    BY <1>25 DEF vars, owner, shared
  <1>26. First \in Slots
    BY SlotFacts
  <1> QED BY <1>1, <1>2, <1>3, <1>4, <1>5, <1>6, <1>7, <1>8, <1>9, <1>10, <1>11,
    <1>12, <1>13, <1>14, <1>15, <1>16, <1>17, <1>18, <1>19, <1>20, <1>21,
    <1>22, <1>23, <1>24, <1>25, <1>26 DEF Next, InCall, Free, Search, Realtime

(* Known in the next state.                                                *)
KnownNext(r) == r.slot \in Slots /\ r.gen <= generations'[r.slot] /\ r.kind # "none"

(* Work that is of a generation up to the current one stays so.            *)
LEMMA KnownKept ==
  ASSUME TypeOK, GensGrow, TypeOK' PROVE \A r \in Record : Known(r) => KnownNext(r)
  <1>1. \A s \in Slots : generations[s] \in Nat /\ generations'[s] \in Nat
    BY TypeParts DEF AllTypes
  <1>2. \A r \in Record : r.gen \in Nat
    BY RecordType
  <1> QED BY <1>1, <1>2 DEF Known, KnownNext, GensGrow

(* So does all work in line, when what is sent is known.                   *)
LEMMA LinesKnownKept ==
  ASSUME TypeOK, TypeOK', GensGrow, LinesKnown,
         \/ LineSame
         \/ \E t \in Threads : LineUsed(t) \/ LineGone(t)
         \/ \E t \in Threads : \E w \in Record :
               LineSent(t, w) /\ KnownNext(w) /\ w.slot % WORKERS = t
  PROVE  LinesKnown'
  <1>1. \A r \in Record : Known(r) => KnownNext(r)
    BY KnownKept
  <1>2. \A u \in Threads : \A i \in 1..Len(Line(u)) : Line(u)[i] \in Record
    BY LineType, ElementOfSeq
  <1>3. \A u \in Threads : Line(u)' = Line(u) =>
          \A i \in 1..Len(Line(u)') : KnownNext(Line(u)'[i]) /\ Line(u)'[i].slot % WORKERS = u
    BY <1>1, <1>2 DEF LinesKnown
  <1>4. CASE LineSame
    BY <1>3, <1>4 DEF LineSame, LinesKnown, Known, KnownNext
  <1>5. ASSUME NEW t \in Threads, LineUsed(t) PROVE LinesKnown'
    <2>1. Line(t) \in Seq(Record) /\ Line(t) # <<>> /\ Line(t)' = Tail(Line(t))
      BY <1>5, LineType DEF LineUsed
    <2>2. \A i \in 1..Len(Line(t)') : i + 1 \in 1..Len(Line(t)) /\ Line(t)'[i] = Line(t)[i + 1]
      BY <2>1
    <2>3. \A i \in 1..Len(Line(t)') : KnownNext(Line(t)'[i]) /\ Line(t)'[i].slot % WORKERS = t
      BY <1>1, <1>2, <2>2 DEF LinesKnown
    <2> QED BY <1>3, <1>5, <2>3 DEF LineUsed, LinesKnown, Known, KnownNext
  <1>6. ASSUME NEW t \in Threads, LineGone(t) PROVE LinesKnown'
    <2>1. Line(t)' = <<>> /\ \A i \in 1..Len(Line(t)') : FALSE
      BY <1>6 DEF LineGone
    <2> QED BY <1>3, <1>6, <2>1 DEF LineGone, LinesKnown, Known, KnownNext
  <1>7. ASSUME NEW t \in Threads, NEW w \in Record,
               LineSent(t, w), KnownNext(w), w.slot % WORKERS = t
        PROVE  LinesKnown'
    <2>1. Line(t) \in Seq(Record) /\ Line(t)' = Append(Line(t), w)
      BY <1>7, LineType DEF LineSent
    <2>2. \A i \in 1..Len(Line(t)') :
            Line(t)'[i] = w \/ (i \in 1..Len(Line(t)) /\ Line(t)'[i] = Line(t)[i])
      BY <2>1
    <2>3. \A i \in 1..Len(Line(t)') : KnownNext(Line(t)'[i]) /\ Line(t)'[i].slot % WORKERS = t
      BY <1>1, <1>2, <1>7, <2>2 DEF LinesKnown
    <2> QED BY <1>3, <1>7, <2>3 DEF LineSent, LinesKnown, Known, KnownNext
  <1> QED BY <1>4, <1>5, <1>6, <1>7

(* Every step keeps the lines known.                                       *)
LEMMA LinesKnownStep ==
  ASSUME TypeOK, TypeOK', GensGrow, Placed, [Next]_vars PROVE LinesKnown'
  <1>0. LinesKnown
    BY DEF Placed
  <1> USE <1>0
  <1>1. CASE FinishPoll
    BY <1>1, LineKept, LinesKnownKept DEF FinishPoll, queues, thread
  <1>2. CASE FinishEnd
    BY <1>2, LineKept, LinesKnownKept DEF FinishEnd, queues, thread
  <1>3. CASE Page
    <2>1. target \in Slots /\ target % WORKERS \in Threads
      BY <1>3, SlotFacts DEF Page, Placed, Control
    <2> DEFINE w == Item("finish", target, generations[target], 0, 0)
    <2>2. w \in Record /\ KnownNext(w) /\ w.slot % WORKERS = target % WORKERS
      <3>1. w \in Record
        BY <2>1, PacketType
      <3>2. generations'[target] = generations[target] /\ generations[target] \in Nat
        BY <1>3, <2>1, TypeParts DEF Page, shared, AllTypes
      <3> QED BY <2>1, <3>1, <3>2 DEF KnownNext, Item
    <2>3. UNCHANGED <<at, work>> /\ (SendTo(target % WORKERS, w) \/ UNCHANGED inputs)
      BY <1>3 DEF Page, thread
    <2> HIDE DEF w
    <2> QED BY <2>1, <2>2, <2>3, LineSends, LineKept, LinesKnownKept
  <1>4. CASE Retire
    BY <1>4, LineKept, LinesKnownKept DEF Retire, queues, thread
  <1>5. CASE Clear
    <2>1. target \in Slots /\ target % WORKERS \in Threads
      BY <1>5, SlotFacts DEF Clear, Placed, Control
    <2> DEFINE w == Item("deactivate", target, generations[target], 0, 0)
    <2>2. w \in Record /\ KnownNext(w) /\ w.slot % WORKERS = target % WORKERS
      <3>1. w \in Record
        BY <2>1, PacketType
      <3>2. generations'[target] = generations[target] /\ generations[target] \in Nat
        BY <1>5, <2>1, TypeParts DEF Clear, AllTypes
      <3> QED BY <2>1, <3>1, <3>2 DEF KnownNext, Item
    <2>3. UNCHANGED <<at, work>> /\ (SendTo(target % WORKERS, w) \/ UNCHANGED inputs)
      BY <1>5 DEF Clear, thread, AfterBump
    <2> HIDE DEF w
    <2> QED BY <2>1, <2>2, <2>3, LineSends, LineKept, LinesKnownKept
  <1>6. CASE Ack
    BY <1>6, LineKept, LinesKnownKept DEF Ack, queues, thread
  <1>7. CASE Notice
    BY <1>7, LineKept, LinesKnownKept DEF Notice, queues, thread
  <1>8. CASE StopFailed
    BY <1>8, LineKept, LinesKnownKept DEF StopFailed, queues, thread
  <1>9. CASE Joined
    BY <1>9, LineKept, LinesKnownKept DEF Joined, queues, thread
  <1>10. CASE Poll
    BY <1>10, LineKept, LinesKnownKept DEF Poll, queues, thread
  <1>11. CASE ResetSession
    BY <1>11, LineKept, LinesKnownKept DEF ResetSession, queues, thread
  <1>12. CASE Drop
    BY <1>12, LineKept, LinesKnownKept DEF Drop, queues, thread
  <1>13. ASSUME NEW then \in {"return", "page"}, NEW s \in Slots, Finish(then, s) PROVE LinesKnown'
    BY <1>13, LineKept, LinesKnownKept DEF Finish, queues, thread
  <1>14. ASSUME NEW s \in Slots, Submit(s) PROVE LinesKnown'
    <2>1. s % WORKERS \in Threads
      BY SlotFacts
    <2> DEFINE w == Item("iq", s, generations[s], source[s].id, source[s].seq)
    <2>2. w \in Record /\ KnownNext(w) /\ w.slot % WORKERS = s % WORKERS
      <3>1. w \in Record
        BY PacketType
      <3>2. generations'[s] = generations[s] /\ generations[s] \in Nat
        BY <1>14, TypeParts DEF Submit, AllTypes
      <3> QED BY <3>1, <3>2 DEF KnownNext, Item
    <2>3. UNCHANGED <<at, work>> /\ (SendTo(s % WORKERS, w) \/ UNCHANGED inputs)
      BY <1>14 DEF Submit, thread
    <2> HIDE DEF w
    <2> QED BY <2>1, <2>2, <2>3, LineSends, LineKept, LinesKnownKept
  <1>15. ASSUME NEW s \in Slots, Recapture(s) PROVE LinesKnown'
    BY <1>15, LineKept, LinesKnownKept DEF Recapture, queues, thread
  <1>16. ASSUME NEW s \in Slots, NEW on \in BOOLEAN, Configure(s, on) PROVE LinesKnown'
    BY <1>16, LineKept, LinesKnownKept DEF Configure, queues, thread
  <1>17. CASE SearchLeave
    BY <1>17, LineKept, LinesKnownKept DEF SearchLeave, queues, thread
  <1>18. CASE SearchRecv
    BY <1>18, LineKept, LinesKnownKept DEF SearchRecv, queues, thread
  <1>19. CASE SearchDone
    <2>1. /\ job \in Record /\ Known(job) /\ job.slot \in Slots
          /\ job.slot % WORKERS \in Threads
      BY <1>19, SlotFacts, TypeParts DEF SearchDone, Placed, JobsKnown, Known, AllTypes
    <2>2. KnownNext(job)
      <3>1. \A r \in Record : Known(r) => KnownNext(r)
        BY KnownKept
      <3> QED BY <2>1, <3>1
    <2>3. UNCHANGED <<at, work>> /\ (SendTo(job.slot % WORKERS, job) \/ UNCHANGED inputs)
      BY <1>19 DEF SearchDone, thread
    <2> QED BY <2>1, <2>2, <2>3, LineSends, LineKept, LinesKnownKept
  <1>20. ASSUME NEW t \in Threads, Leave(t) PROVE LinesKnown'
    BY <1>20, LineLeaves, LinesKnownKept
  <1>21. ASSUME NEW t \in Threads, Recv(t) PROVE LinesKnown'
    BY <1>21, LineReceives, LinesKnownKept
  <1>22. ASSUME NEW t \in Threads, ProcessPacket(t) PROVE LinesKnown'
    BY <1>22, PacketUsed, LinesKnownKept
  <1>23. ASSUME NEW t \in Threads, ProcessOther(t) PROVE LinesKnown'
    BY <1>23, PacketUsed, LinesKnownKept
  <1>24. ASSUME NEW t \in Threads, Output(t) PROVE LinesKnown'
    BY <1>24, LineOutput, LinesKnownKept
  <1>25. CASE UNCHANGED vars
    BY <1>25, LineKept, LinesKnownKept DEF vars, queues, thread
  <1>26. First \in Slots
    BY SlotFacts
  <1> QED BY <1>1, <1>2, <1>3, <1>4, <1>5, <1>6, <1>7, <1>8, <1>9, <1>10, <1>11,
    <1>12, <1>13, <1>14, <1>15, <1>16, <1>17, <1>18, <1>19, <1>20, <1>21,
    <1>22, <1>23, <1>24, <1>25, <1>26 DEF Next, InCall, Free, Search, Realtime

(* The work in a thread's hands.                                           *)
LEMMA WorkKnown ==
  ASSUME TypeOK, LinesKnown, NEW t \in Threads, at[t] = "work"
  PROVE  /\ work[t] \in Record /\ Known(work[t]) /\ work[t].slot \in Slots
         /\ work[t].slot % WORKERS = t /\ states[work[t].slot] \in ChannelState
  <1>1. /\ work[t] \in Record /\ Line(t)[1] = work[t] /\ 1 \in 1..Len(Line(t))
    BY LineType
  <1>2. Known(work[t]) /\ work[t].slot % WORKERS = t
    BY <1>1 DEF LinesKnown
  <1> QED BY <1>1, <1>2, TypeParts DEF Known, AllTypes

(* A sequence whose elements are in a set is a sequence over it.           *)
LEMMA SeqOfSubset ==
  ASSUME NEW T, NEW U, NEW s \in Seq(T), \A i \in 1..Len(s) : s[i] \in U
  PROVE  s \in Seq(U)
  <1>1. s = [i \in 1..Len(s) |-> s[i]] /\ Len(s) \in Nat
    OBVIOUS
  <1> QED BY <1>1

(* A step that leaves the search queue alone keeps its jobs known.         *)
LEMMA JobsKept ==
  ASSUME TypeOK, TypeOK', GensGrow, JobsKnown, UNCHANGED <<jobs, searcher, job>>
  PROVE  JobsKnown'
  <1>1. \A r \in Record : Known(r) => KnownNext(r)
    BY KnownKept
  <1>2. job \in Record /\ \A i \in 1..Len(jobs) : jobs[i] \in Record
    BY TypeParts, ElementOfSeq DEF AllTypes, JobsType
  <1> QED BY <1>1, <1>2 DEF JobsKnown, Known, KnownNext

(* Every step keeps the jobs known.                                        *)
LEMMA JobsKnownStep ==
  ASSUME TypeOK, TypeOK', GensGrow, LinesKnown, JobsKnown, [Next]_vars PROVE JobsKnown'
  <1>1. CASE FinishPoll
    BY <1>1, JobsKept DEF FinishPoll, queues, search
  <1>2. CASE FinishEnd
    BY <1>2, JobsKept DEF FinishEnd, queues, search
  <1>3. CASE Page
    BY <1>3, JobsKept DEF Page, queues, search
  <1>4. CASE Retire
    BY <1>4, JobsKept DEF Retire, queues, search
  <1>5. CASE Clear
    BY <1>5, JobsKept DEF Clear, queues, search
  <1>6. CASE Ack
    BY <1>6, JobsKept DEF Ack, queues, search
  <1>7. CASE Notice
    BY <1>7, JobsKept DEF Notice, queues, search
  <1>8. CASE StopFailed
    BY <1>8, JobsKept DEF StopFailed, queues, search
  <1>9. CASE Joined
    BY <1>9, JobsKept DEF Joined, queues, search
  <1>10. CASE Poll
    BY <1>10, JobsKept DEF Poll, queues, search
  <1>11. CASE ResetSession
    BY <1>11, JobsKept DEF ResetSession, queues, search
  <1>12. CASE Drop
    BY <1>12, JobsKept DEF Drop, queues, search
  <1>13. ASSUME NEW then \in {"return", "page"}, NEW s \in Slots, Finish(then, s) PROVE JobsKnown'
    BY <1>13, JobsKept DEF Finish, queues, search
  <1>14. ASSUME NEW s \in Slots, Submit(s) PROVE JobsKnown'
    BY <1>14, JobsKept DEF Submit, queues, search
  <1>15. ASSUME NEW s \in Slots, Recapture(s) PROVE JobsKnown'
    BY <1>15, JobsKept DEF Recapture, queues, search
  <1>16. ASSUME NEW s \in Slots, NEW on \in BOOLEAN, Configure(s, on) PROVE JobsKnown'
    BY <1>16, JobsKept DEF Configure, queues, search
  <1>17. CASE SearchLeave
    <2>1. jobs' = <<>> /\ searcher' = "gone" /\ \A i \in 1..Len(jobs') : FALSE
      BY <1>17 DEF SearchLeave
    <2> QED BY <2>1 DEF JobsKnown
  <1>18. CASE SearchRecv
    <2>1. jobs \in Seq(Record) /\ jobs # <<>> /\ jobs' = Tail(jobs) /\ UNCHANGED shared
      BY <1>18, TypeParts DEF SearchRecv, AllTypes, JobsType
    <2>2. \A i \in 1..Len(jobs') : i + 1 \in 1..Len(jobs) /\ jobs'[i] = jobs[i + 1]
      BY <2>1
    <2>3. 1 \in 1..Len(jobs) /\ Head(jobs) = jobs[1]
      BY <2>1
    <2>4. searcher' = "decode" => job' = jobs[1]
      BY <1>18, <2>3 DEF SearchRecv, LoopTop
    <2> QED BY <2>1, <2>2, <2>3, <2>4 DEF JobsKnown, Known, shared
  <1>19. CASE SearchDone
    <2>1. searcher' # "decode" /\ UNCHANGED <<generations, jobs>>
      BY <1>19 DEF SearchDone, LoopTop
    <2> QED BY <2>1 DEF JobsKnown, Known
  <1>20. ASSUME NEW t \in Threads, Leave(t) PROVE JobsKnown'
    BY <1>20, JobsKept DEF Leave, queues, search
  <1>21. ASSUME NEW t \in Threads, Recv(t) PROVE JobsKnown'
    BY <1>21, JobsKept DEF Recv, queues, search
  <1>22. ASSUME NEW t \in Threads, ProcessPacket(t) PROVE JobsKnown'
    <2>1. at[t] = "work" /\ UNCHANGED <<generations, searcher, job>>
      BY <1>22 DEF ProcessPacket, search
    <2>2. work[t] \in Record /\ Known(work[t])
      BY <2>1, WorkKnown
    <2>3. UNCHANGED jobs \/ jobs' = Append(jobs, [work[t] EXCEPT !.kind = "search"])
      BY <1>22 DEF ProcessPacket
    <2> DEFINE w == [work[t] EXCEPT !.kind = "search"]
    <2>4. w \in Record /\ Known(w) /\ w.kind = "search"
      BY <2>2 DEF Record, Known
    <2> HIDE DEF w
    <2>5. CASE UNCHANGED jobs
      BY <2>1, <2>5 DEF JobsKnown, Known
    <2>6. CASE jobs' = Append(jobs, w)
      <3>1. jobs \in Seq(Record)
        BY TypeParts DEF AllTypes, JobsType
      <3>2. \A i \in 1..Len(jobs') : jobs'[i] = w \/ (i \in 1..Len(jobs) /\ jobs'[i] = jobs[i])
        BY <2>4, <2>6, <3>1
      <3> QED BY <2>1, <2>4, <3>2 DEF JobsKnown, Known
    <2> QED BY <2>3, <2>5, <2>6 DEF w
  <1>23. ASSUME NEW t \in Threads, ProcessOther(t) PROVE JobsKnown'
    BY <1>23, JobsKept DEF ProcessOther, queues, search
  <1>24. ASSUME NEW t \in Threads, Output(t) PROVE JobsKnown'
    BY <1>24, JobsKept DEF Output, queues, search
  <1>25. CASE UNCHANGED vars
    BY <1>25, JobsKept DEF vars, queues, search
  <1>26. First \in Slots
    BY SlotFacts
  <1> QED BY <1>1, <1>2, <1>3, <1>4, <1>5, <1>6, <1>7, <1>8, <1>9, <1>10, <1>11,
    <1>12, <1>13, <1>14, <1>15, <1>16, <1>17, <1>18, <1>19, <1>20, <1>21,
    <1>22, <1>23, <1>24, <1>25, <1>26 DEF Next, InCall, Free, Search, Realtime

(* Results that are known, as a set.                                       *)
KnownOutcomes == {o \in Outcome : Known(o.of)}
KnownOutcomesNext == {o \in Outcome : KnownNext(o.of)}

(* The results are known when they are of the set.                         *)
LEMMA OutcomesAre ==
  ASSUME TypeOK
  PROVE  OutcomesKnown <=>
           /\ \A t \in Threads : at[t] = "out" => made[t] \in KnownOutcomes
           /\ outputs \in Seq(KnownOutcomes) /\ deferred \in Seq(KnownOutcomes)
  <1>1. outputs \in Seq(Outcome) /\ deferred \in Seq(Outcome) /\ \A t \in Threads : made[t] \in Outcome
    BY TypeParts DEF AllTypes, OutputsType
  <1>2. ASSUME NEW s \in Seq(Outcome)
        PROVE  (\A i \in 1..Len(s) : Known(s[i].of)) <=> s \in Seq(KnownOutcomes)
    <2>1. \A i \in 1..Len(s) : s[i] \in Outcome
      BY ElementOfSeq
    <2>2. ASSUME \A i \in 1..Len(s) : Known(s[i].of) PROVE s \in Seq(KnownOutcomes)
      <3>1. \A i \in 1..Len(s) : s[i] \in KnownOutcomes
        BY <2>1, <2>2 DEF KnownOutcomes
      <3> QED BY <3>1, SeqOfSubset
    <2>3. ASSUME s \in Seq(KnownOutcomes) PROVE \A i \in 1..Len(s) : Known(s[i].of)
      <3>1. \A i \in 1..Len(s) : s[i] \in KnownOutcomes
        BY <2>3, ElementOfSeq
      <3> QED BY <3>1 DEF KnownOutcomes
    <2> QED BY <2>2, <2>3
  <1> QED BY <1>1, <1>2 DEF OutcomesKnown, KnownOutcomes

(* A step that takes its results from the known ones keeps them known.     *)
LEMMA OutcomesKept ==
  ASSUME TypeOK, TypeOK', GensGrow, OutcomesKnown,
         \A t \in Threads : at'[t] = "out" =>
           made'[t] \in KnownOutcomes \/ (at[t] = "out" /\ made'[t] = made[t]),
         outputs' \in Seq(KnownOutcomes), deferred' \in Seq(KnownOutcomes)
  PROVE  OutcomesKnown'
  <1>1. \A r \in Record : Known(r) => KnownNext(r)
    BY KnownKept
  <1>2. \A o \in KnownOutcomes : KnownNext(o.of)
    BY <1>1, RecordType DEF KnownOutcomes
  <1>3. /\ \A i \in 1..Len(outputs') : outputs'[i] \in KnownOutcomes
        /\ \A i \in 1..Len(deferred') : deferred'[i] \in KnownOutcomes
    BY ElementOfSeq
  <1>4. \A t \in Threads : at'[t] = "out" => made'[t] \in KnownOutcomes
    BY OutcomesAre
  <1> QED BY <1>2, <1>3, <1>4 DEF OutcomesKnown, Known, KnownNext

(* Every step keeps the results known.                                     *)
LEMMA OutcomesKnownStep ==
  ASSUME TypeOK, TypeOK', GensGrow, LinesKnown, OutcomesKnown, [Next]_vars PROVE OutcomesKnown'
  <1>1. CASE FinishPoll
    <2>1. outputs' = <<>> /\ deferred' = <<>> /\ UNCHANGED <<at, made>>
      BY <1>1 DEF FinishPoll, TakeOutputs, thread
    <2>2. <<>> \in Seq(KnownOutcomes)
      OBVIOUS
    <2> QED BY <2>1, <2>2, OutcomesKept
  <1>2. CASE FinishEnd
    <2>1. outputs' = <<>> /\ deferred' = <<>> /\ UNCHANGED <<at, made>>
      BY <1>2 DEF FinishEnd, TakeOutputs, thread
    <2>2. <<>> \in Seq(KnownOutcomes)
      OBVIOUS
    <2> QED BY <2>1, <2>2, OutcomesKept
  <1>3. CASE Page
    <2>1. UNCHANGED <<outputs, deferred, at, made>>
      BY <1>3 DEF Page, owner, queues, thread
    <2> QED BY <2>1, OutcomesAre, OutcomesKept
  <1>4. CASE Retire
    <2>1. /\ deferred' = deferred \o Valid(outputs) /\ outputs' = <<>> /\ UNCHANGED <<at, made>>
      BY <1>4 DEF Retire, thread
    <2>2. outputs \in Seq(KnownOutcomes) /\ deferred \in Seq(KnownOutcomes)
      BY OutcomesAre
    <2>3. Valid(outputs) \in Seq(KnownOutcomes)
      BY <2>2, AmongType DEF Valid
    <2>4. deferred \o Valid(outputs) \in Seq(KnownOutcomes) /\ <<>> \in Seq(KnownOutcomes)
      BY <2>2, <2>3, ConcatProperties
    <2> QED BY <2>1, <2>4, OutcomesKept
  <1>5. CASE Clear
    <2>1. UNCHANGED <<outputs, deferred, at, made>>
      BY <1>5 DEF Clear, owner, queues, thread
    <2> QED BY <2>1, OutcomesAre, OutcomesKept
  <1>6. CASE Ack
    <2>1. UNCHANGED <<outputs, deferred, at, made>>
      BY <1>6 DEF Ack, owner, queues, thread
    <2> QED BY <2>1, OutcomesAre, OutcomesKept
  <1>7. CASE Notice
    <2>1. UNCHANGED <<outputs, deferred, at, made>>
      BY <1>7 DEF Notice, owner, queues, thread
    <2> QED BY <2>1, OutcomesAre, OutcomesKept
  <1>8. CASE StopFailed
    <2>1. UNCHANGED <<outputs, deferred, at, made>>
      BY <1>8 DEF StopFailed, owner, queues, thread
    <2> QED BY <2>1, OutcomesAre, OutcomesKept
  <1>9. CASE Joined
    <2>1. UNCHANGED <<outputs, deferred, at, made>>
      BY <1>9 DEF Joined, owner, queues, thread
    <2> QED BY <2>1, OutcomesAre, OutcomesKept
  <1>10. CASE Poll
    <2>1. /\ UNCHANGED <<outputs, deferred>> \/ (outputs' = <<>> /\ deferred' = <<>>)
          /\ UNCHANGED <<at, made>>
      BY <1>10 DEF Poll, TakeOutputs, thread
    <2>2. <<>> \in Seq(KnownOutcomes)
      OBVIOUS
    <2> QED BY <2>1, <2>2, OutcomesAre, OutcomesKept
  <1>11. CASE ResetSession
    <2>1. UNCHANGED <<outputs, deferred, at, made>>
      BY <1>11 DEF ResetSession, owner, queues, thread
    <2> QED BY <2>1, OutcomesAre, OutcomesKept
  <1>12. CASE Drop
    <2>1. UNCHANGED <<outputs, deferred, at, made>>
      BY <1>12 DEF Drop, owner, queues, thread
    <2> QED BY <2>1, OutcomesAre, OutcomesKept
  <1>13. ASSUME NEW then \in {"return", "page"}, NEW s \in Slots, Finish(then, s) PROVE OutcomesKnown'
    <2>1. UNCHANGED <<outputs, deferred, at, made>>
      BY <1>13 DEF Finish, owner, queues, thread
    <2> QED BY <2>1, OutcomesAre, OutcomesKept
  <1>14. ASSUME NEW s \in Slots, Submit(s) PROVE OutcomesKnown'
    <2>1. UNCHANGED <<outputs, deferred, at, made>>
      BY <1>14 DEF Submit, owner, queues, thread
    <2> QED BY <2>1, OutcomesAre, OutcomesKept
  <1>15. ASSUME NEW s \in Slots, Recapture(s) PROVE OutcomesKnown'
    <2>1. UNCHANGED <<outputs, deferred, at, made>>
      BY <1>15 DEF Recapture, owner, queues, thread
    <2> QED BY <2>1, OutcomesAre, OutcomesKept
  <1>16. ASSUME NEW s \in Slots, NEW on \in BOOLEAN, Configure(s, on) PROVE OutcomesKnown'
    <2>1. UNCHANGED <<outputs, deferred, at, made>>
      BY <1>16 DEF Configure, owner, queues, thread
    <2> QED BY <2>1, OutcomesAre, OutcomesKept
  <1>17. CASE SearchLeave
    <2>1. UNCHANGED <<outputs, deferred, at, made>>
      BY <1>17 DEF SearchLeave, owner, queues, thread
    <2> QED BY <2>1, OutcomesAre, OutcomesKept
  <1>18. CASE SearchRecv
    <2>1. UNCHANGED <<outputs, deferred, at, made>>
      BY <1>18 DEF SearchRecv, owner, queues, thread
    <2> QED BY <2>1, OutcomesAre, OutcomesKept
  <1>19. CASE SearchDone
    <2>1. UNCHANGED <<outputs, deferred, at, made>>
      BY <1>19 DEF SearchDone, owner, queues, thread
    <2> QED BY <2>1, OutcomesAre, OutcomesKept
  <1>20. ASSUME NEW t \in Threads, Leave(t) PROVE OutcomesKnown'
    <2>1. UNCHANGED <<outputs, deferred, made>> /\ \A u \in Threads : at'[u] = "out" => at[u] = "out"
      BY <1>20, TypeParts DEF Leave, owner, AllTypes, AtType
    <2> QED BY <2>1, OutcomesAre, OutcomesKept
  <1>21. ASSUME NEW t \in Threads, Recv(t) PROVE OutcomesKnown'
    <2>1. UNCHANGED <<outputs, deferred, made>> /\ \A u \in Threads : at'[u] = "out" => at[u] = "out"
      BY <1>21, TypeParts DEF Recv, owner, AllTypes, AtType
    <2> QED BY <2>1, OutcomesAre, OutcomesKept
  <1>22. ASSUME NEW t \in Threads, ProcessPacket(t) PROVE OutcomesKnown'
    <2>1. UNCHANGED <<outputs, deferred>> /\ at[t] = "work"
      BY <1>22 DEF ProcessPacket, owner, queues
    <2>2. work[t] \in Record /\ Known(work[t]) /\ states[work[t].slot] \in ChannelState
      BY <2>1, WorkKnown
    <2>3. \A id \in Nat : /\ [of |-> work[t], as |-> id] \in KnownOutcomes
                         /\ [of |-> [work[t] EXCEPT !.id = id], as |-> id] \in KnownOutcomes
      <3>1. \A id \in Nat : /\ [work[t] EXCEPT !.id = id] \in Record
                           /\ Known([work[t] EXCEPT !.id = id])
        BY <2>2 DEF Record, Known
      <3> QED BY <2>2, <3>1, RecordType DEF KnownOutcomes
    <2>4. work[t].id \in Nat /\ states[work[t].slot].id \in Nat
      BY <2>2, RecordType
    <2>5. \/ Done(t) /\ UNCHANGED made
          \/ \E o \in KnownOutcomes : Makes(t, o)
      <3> DEFINE w == work[t]
                 id == states[w.slot].id
      <3>1. (Done(t) /\ UNCHANGED made) \/ Makes(t, [of |-> w, as |-> w.id])
        BY <1>22 DEF ProcessPacket
      <3> HIDE DEF w, id
      <3> QED BY <2>3, <2>4, <3>1 DEF w, id
    <2>6. \A u \in Threads : at'[u] = "out" =>
            made'[u] \in KnownOutcomes \/ (at[u] = "out" /\ made'[u] = made[u])
      <3>1. made \in [Threads -> Outcome] /\ at \in [Threads -> {"recv", "work", "out", "leaving", "gone"}]
        BY TypeParts DEF AllTypes, AtType
      <3>2. CASE Done(t) /\ UNCHANGED made
        BY <3>1, <3>2 DEF Done, LoopTop
      <3>3. ASSUME NEW o \in KnownOutcomes, Makes(t, o)
            PROVE  \A u \in Threads : at'[u] = "out" =>
                     made'[u] \in KnownOutcomes \/ (at[u] = "out" /\ made'[u] = made[u])
        BY <3>1, <3>3 DEF Makes
      <3> QED BY <2>5, <3>2, <3>3
    <2> QED BY <2>1, <2>6, OutcomesAre, OutcomesKept
  <1>23. ASSUME NEW t \in Threads, ProcessOther(t) PROVE OutcomesKnown'
    <2>1. UNCHANGED <<outputs, deferred>> /\ at[t] = "work"
      BY <1>23 DEF ProcessOther, owner, queues
    <2>2. work[t] \in Record /\ Known(work[t]) /\ states[work[t].slot] \in ChannelState
      BY <2>1, WorkKnown
    <2>3. \A id \in Nat : /\ [of |-> work[t], as |-> id] \in KnownOutcomes
                         /\ [of |-> [work[t] EXCEPT !.id = id], as |-> id] \in KnownOutcomes
      <3>1. \A id \in Nat : /\ [work[t] EXCEPT !.id = id] \in Record
                           /\ Known([work[t] EXCEPT !.id = id])
        BY <2>2 DEF Record, Known
      <3> QED BY <2>2, <3>1, RecordType DEF KnownOutcomes
    <2>4. work[t].id \in Nat /\ states[work[t].slot].id \in Nat
      BY <2>2, RecordType
    <2>5. \/ Done(t) /\ UNCHANGED made
          \/ \E o \in KnownOutcomes : Makes(t, o)
      <3> DEFINE w == work[t]
                 id == states[w.slot].id
      <3>1. \/ Done(t) /\ UNCHANGED made
            \/ Makes(t, [of |-> w, as |-> id])
            \/ Makes(t, [of |-> [w EXCEPT !.id = id], as |-> id])
        BY <1>23 DEF ProcessOther
      <3> HIDE DEF w, id
      <3> QED BY <2>3, <2>4, <3>1 DEF w, id
    <2>6. \A u \in Threads : at'[u] = "out" =>
            made'[u] \in KnownOutcomes \/ (at[u] = "out" /\ made'[u] = made[u])
      <3>1. made \in [Threads -> Outcome] /\ at \in [Threads -> {"recv", "work", "out", "leaving", "gone"}]
        BY TypeParts DEF AllTypes, AtType
      <3>2. CASE Done(t) /\ UNCHANGED made
        BY <3>1, <3>2 DEF Done, LoopTop
      <3>3. ASSUME NEW o \in KnownOutcomes, Makes(t, o)
            PROVE  \A u \in Threads : at'[u] = "out" =>
                     made'[u] \in KnownOutcomes \/ (at[u] = "out" /\ made'[u] = made[u])
        BY <3>1, <3>3 DEF Makes
      <3> QED BY <2>5, <3>2, <3>3
    <2> QED BY <2>1, <2>6, OutcomesAre, OutcomesKept
  <1>24. ASSUME NEW t \in Threads, Output(t) PROVE OutcomesKnown'
    <2>1. outputs \in Seq(KnownOutcomes) /\ deferred \in Seq(KnownOutcomes) /\ made[t] \in KnownOutcomes
      BY <1>24, OutcomesAre DEF Output
    <2>2. UNCHANGED deferred /\ (UNCHANGED outputs \/ outputs' = Append(outputs, made[t]))
      BY <1>24 DEF Output, owner
    <2>3. Append(outputs, made[t]) \in Seq(KnownOutcomes)
      BY <2>1
    <2>4. \A u \in Threads : at'[u] = "out" => at[u] = "out" /\ made'[u] = made[u]
      <3>1. made \in [Threads -> Outcome] /\ at \in [Threads -> {"recv", "work", "out", "leaving", "gone"}]
        BY TypeParts DEF AllTypes, AtType
      <3> QED BY <1>24, <3>1 DEF Output, Done, LoopTop
    <2> QED BY <2>1, <2>2, <2>3, <2>4, OutcomesKept
  <1>25. CASE UNCHANGED vars
    <2>1. UNCHANGED <<outputs, deferred, at, made>>
      BY <1>25 DEF vars, owner, queues, thread
    <2> QED BY <2>1, OutcomesAre, OutcomesKept
  <1>26. First \in Slots
    BY SlotFacts
  <1> QED BY <1>1, <1>2, <1>3, <1>4, <1>5, <1>6, <1>7, <1>8, <1>9, <1>10, <1>11,
    <1>12, <1>13, <1>14, <1>15, <1>16, <1>17, <1>18, <1>19, <1>20, <1>21,
    <1>22, <1>23, <1>24, <1>25, <1>26 DEF Next, InCall, Free, Search, Realtime

(* A call of the owner is about a slot when it needs one.                  *)
LEMMA ControlStep ==
  ASSUME TypeOK, Control, [Next]_vars PROVE Control'
  <1> USE DEF Control
  <1>1. CASE FinishPoll
    BY <1>1 DEF FinishPoll, owner
  <1>2. CASE FinishEnd
    BY <1>2, SlotFacts DEF FinishEnd, Return
  <1>3. CASE Page
    BY <1>3 DEF Page, owner
  <1>4. CASE Retire
    BY <1>4 DEF Retire, Return
  <1>5. CASE Clear
    BY <1>5 DEF Clear, owner
  <1>6. CASE Ack
    BY <1>6, SlotFacts DEF Ack, Return
  <1>7. CASE Notice
    BY <1>7 DEF Notice, owner
  <1>8. CASE StopFailed
    BY <1>8 DEF StopFailed, owner
  <1>9. CASE Joined
    BY <1>9 DEF Joined, owner
  <1>10. CASE Poll
    BY <1>10 DEF Poll, owner
  <1>11. CASE ResetSession
    BY <1>11 DEF ResetSession, owner
  <1>12. CASE Drop
    BY <1>12 DEF Drop, owner
  <1>13. ASSUME NEW then \in {"return", "page"}, NEW s \in Slots, Finish(then, s) PROVE Control'
    BY <1>13 DEF Finish, owner
  <1>14. ASSUME NEW s \in Slots, Submit(s) PROVE Control'
    BY <1>14 DEF Submit, owner
  <1>15. ASSUME NEW s \in Slots, Recapture(s) PROVE Control'
    BY <1>15 DEF Recapture, owner
  <1>16. ASSUME NEW s \in Slots, NEW on \in BOOLEAN, Configure(s, on) PROVE Control'
    BY <1>16 DEF Configure, owner
  <1>17. CASE SearchLeave
    BY <1>17 DEF SearchLeave, owner
  <1>18. CASE SearchRecv
    BY <1>18 DEF SearchRecv, owner
  <1>19. CASE SearchDone
    BY <1>19 DEF SearchDone, owner
  <1>20. ASSUME NEW t \in Threads, Leave(t) PROVE Control'
    BY <1>20 DEF Leave, owner
  <1>21. ASSUME NEW t \in Threads, Recv(t) PROVE Control'
    BY <1>21 DEF Recv, owner
  <1>22. ASSUME NEW t \in Threads, ProcessPacket(t) PROVE Control'
    BY <1>22 DEF ProcessPacket, owner
  <1>23. ASSUME NEW t \in Threads, ProcessOther(t) PROVE Control'
    BY <1>23 DEF ProcessOther, owner
  <1>24. ASSUME NEW t \in Threads, Output(t) PROVE Control'
    BY <1>24 DEF Output, owner
  <1>25. CASE UNCHANGED vars
    BY <1>25 DEF vars, owner
  <1>26. First \in Slots
    BY SlotFacts
  <1> QED BY <1>1, <1>2, <1>3, <1>4, <1>5, <1>6, <1>7, <1>8, <1>9, <1>10, <1>11,
    <1>12, <1>13, <1>14, <1>15, <1>16, <1>17, <1>18, <1>19, <1>20, <1>21,
    <1>22, <1>23, <1>24, <1>25, <1>26 DEF Next, InCall, Free, Search, Realtime

(* Every step keeps all work, jobs and results where they can be.          *)
LEMMA PlacedStep ==
  ASSUME TypeOK, TypeOK', Placed, [Next]_vars PROVE Placed'
  <1>1. GensGrow
    BY GenerationsGrow
  <1>2. LinesKnown /\ JobsKnown /\ OutcomesKnown /\ Control
    BY DEF Placed
  <1> QED BY <1>1, <1>2, LinesKnownStep, JobsKnownStep, OutcomesKnownStep, ControlStep DEF Placed

-----------------------------------------------------------------------------
(* What a step does to the work of a kind in line.                         *)
LEMMA LineAmongSame ==
  ASSUME NEW t \in Threads, NEW kept, Line(t)' = Line(t)
  PROVE  Among(Line(t)', kept) = Among(Line(t), kept)
  OBVIOUS

(* What is selected from a line when work is sent.                         *)
LEMMA LineAmongSent ==
  ASSUME TypeOK, NEW t \in Threads, NEW w \in Record, LineSent(t, w), NEW kept
  PROVE  Among(Line(t)', kept) =
           IF w \in kept THEN Append(Among(Line(t), kept), w) ELSE Among(Line(t), kept)
  <1>1. Line(t) \in Seq(Record) /\ Line(t)' = Append(Line(t), w)
    BY LineType DEF LineSent
  <1>2. Among(Append(Line(t), w), kept) =
          IF w \in kept THEN Append(Among(Line(t), kept), w) ELSE Among(Line(t), kept)
    BY <1>1, AmongAppend
  <1> QED BY <1>1, <1>2

(* What is selected from a sequence and from its tail.                     *)
LEMMA AmongHead ==
  ASSUME NEW T, NEW s \in Seq(T), s # <<>>, NEW kept
  PROVE  /\ Head(s) \in kept => /\ Among(s, kept) # <<>> /\ Head(Among(s, kept)) = Head(s)
                                /\ Tail(Among(s, kept)) = Among(Tail(s), kept)
         /\ Head(s) \notin kept => Among(s, kept) = Among(Tail(s), kept)
  <1>1. /\ Head(s) \in T /\ Tail(s) \in Seq(T) /\ <<Head(s)>> \in Seq(T)
        /\ s = <<Head(s)>> \o Tail(s) /\ <<>> \in Seq(T)
        /\ <<Head(s)>> = Append(<<>>, Head(s))
    OBVIOUS
  <1>2. Among(s, kept) = Among(<<Head(s)>>, kept) \o Among(Tail(s), kept)
    <2>1. \A a, b \in Seq(T) : Among(a \o b, kept) = Among(a, kept) \o Among(b, kept)
      BY AmongConcat
    <2>2. Among(<<Head(s)>> \o Tail(s), kept) = Among(<<Head(s)>>, kept) \o Among(Tail(s), kept)
      BY <1>1, <2>1, Zenon
    <2> QED BY <1>1, <2>2, Zenon
  <1>3. Among(<<Head(s)>>, kept) =
          IF Head(s) \in kept THEN Append(Among(<<>>, kept), Head(s)) ELSE Among(<<>>, kept)
    <2>1. Among(Append(<<>>, Head(s)), kept) =
            IF Head(s) \in kept THEN Append(Among(<<>>, kept), Head(s)) ELSE Among(<<>>, kept)
      BY <1>1, AmongAppend
    <2> QED BY <1>1, <2>1
  <1>4. Among(<<>>, kept) = <<>> /\ Among(Tail(s), kept) \in Seq(T)
    BY <1>1, AmongType, AmongEmpty
  <1>5. ASSUME NEW r \in Seq(T), NEW h \in T
        PROVE  <<h>> \o r # <<>> /\ Head(<<h>> \o r) = h /\ Tail(<<h>> \o r) = r /\ <<>> \o r = r
    OBVIOUS
  <1>6. CASE Head(s) \in kept
    <2>1. Among(<<Head(s)>>, kept) = <<Head(s)>>
      BY <1>1, <1>3, <1>4, <1>6, Zenon
    <2> DEFINE r == Among(Tail(s), kept)
               h == Head(s)
    <2>2. Among(s, kept) = <<h>> \o r
      BY <1>2, <2>1, Zenon
    <2>3. r \in Seq(T) /\ h \in T
      BY <1>1, <1>4
    <2> HIDE DEF r, h
    <2>4. <<h>> \o r # <<>> /\ Head(<<h>> \o r) = h /\ Tail(<<h>> \o r) = r
      BY <2>3, <1>5, Zenon
    <2> QED BY <1>6, <2>2, <2>4 DEF r, h
  <1>7. CASE Head(s) \notin kept
    <2>1. Among(<<Head(s)>>, kept) = <<>>
      BY <1>3, <1>4, <1>7, Zenon
    <2> QED BY <1>1, <1>2, <1>4, <1>5, <1>7, <2>1, Zenon
  <1> QED BY <1>6, <1>7

(* What is selected from a line when work is done.                         *)
LEMMA LineAmongUsed ==
  ASSUME TypeOK, NEW t \in Threads, LineUsed(t), NEW kept
  PROVE  /\ work[t] \in kept =>
              /\ Among(Line(t), kept) # <<>> /\ Head(Among(Line(t), kept)) = work[t]
              /\ Among(Line(t)', kept) = Tail(Among(Line(t), kept))
         /\ work[t] \notin kept => Among(Line(t)', kept) = Among(Line(t), kept)
  <1>1. Line(t) \in Seq(Record) /\ Line(t) # <<>> /\ Head(Line(t)) = work[t] /\ Line(t)' = Tail(Line(t))
    BY LineType DEF LineUsed
  <1> QED BY <1>1, AmongHead

(* While the workers run, a step fails nothing and ends no thread.         *)
LEMMA Running ==
  ASSUME [Next]_vars, ~stopping', TypeOK PROVE ~stopping
  <1>0. stopping \in BOOLEAN
    BY TypeParts DEF AllTypes, FailType
  <1>a. ASSUME stopping PROVE stopping'
    <2>1. CASE FinishPoll
      BY <1>a, <2>1 DEF FinishPoll, shared
    <2>2. CASE FinishEnd
      BY <1>a, <2>2 DEF FinishEnd, shared
    <2>3. CASE Page
      BY <1>a, <2>3 DEF Page, shared
    <2>4. CASE Retire
      BY <1>a, <2>4 DEF Retire, shared
    <2>5. CASE Clear
      BY <1>a, <2>5 DEF Clear, Fail
    <2>6. CASE Ack
      BY <1>a, <2>6 DEF Ack, shared
    <2>7. CASE Notice
      BY <1>a, <2>7 DEF Notice, shared
    <2>8. CASE StopFailed
      BY <1>a, <2>8 DEF StopFailed, shared
    <2>9. CASE Joined
      BY <1>a, <2>9 DEF Joined, shared
    <2>10. CASE Poll
      BY <1>a, <2>10 DEF Poll, shared
    <2>11. CASE ResetSession
      BY <1>a, <2>11 DEF ResetSession, shared
    <2>12. CASE Drop
      BY <1>a, <2>12 DEF Drop, shared
    <2>13. ASSUME NEW then \in {"return", "page"}, NEW s \in Slots, Finish(then, s) PROVE stopping'
      BY <1>a, <2>13 DEF Finish, shared
    <2>14. ASSUME NEW s \in Slots, Submit(s) PROVE stopping'
      BY <1>a, <2>14 DEF Submit, Fail
    <2>15. ASSUME NEW s \in Slots, Recapture(s) PROVE stopping'
      BY <1>a, <2>15 DEF Recapture, shared
    <2>16. ASSUME NEW s \in Slots, NEW on \in BOOLEAN, Configure(s, on) PROVE stopping'
      BY <1>a, <2>16 DEF Configure, shared
    <2>17. CASE SearchLeave
      BY <1>a, <2>17 DEF SearchLeave, shared
    <2>18. CASE SearchRecv
      BY <1>a, <2>18 DEF SearchRecv, shared
    <2>19. CASE SearchDone
      BY <1>a, <2>19 DEF SearchDone, Fail
    <2>20. ASSUME NEW t \in Threads, Leave(t) PROVE stopping'
      BY <1>a, <2>20 DEF Leave, shared
    <2>21. ASSUME NEW t \in Threads, Recv(t) PROVE stopping'
      BY <1>a, <2>21 DEF Recv, shared
    <2>22. ASSUME NEW t \in Threads, ProcessPacket(t) PROVE stopping'
      BY <1>a, <2>22 DEF ProcessPacket, Fail
    <2>23. ASSUME NEW t \in Threads, ProcessOther(t) PROVE stopping'
      BY <1>a, <2>23 DEF ProcessOther, shared
    <2>24. ASSUME NEW t \in Threads, Output(t) PROVE stopping'
      BY <1>a, <2>24 DEF Output, Fail
    <2>25. CASE UNCHANGED vars
      BY <1>a, <2>25 DEF vars, shared
    <2>26. First \in Slots
      BY SlotFacts
    <2> QED BY <2>1, <2>2, <2>3, <2>4, <2>5, <2>6, <2>7, <2>8, <2>9, <2>10, <2>11,
      <2>12, <2>13, <2>14, <2>15, <2>16, <2>17, <2>18, <2>19, <2>20, <2>21,
      <2>22, <2>23, <2>24, <2>25, <2>26 DEF Next, InCall, Free, Search, Realtime
  <1> QED BY <1>0, <1>a

-----------------------------------------------------------------------------
(* What a step does to the packets of a slot, its stream and its receiver. *)
StreamKept(s) == source'[s] = source[s] /\ generations'[s] = generations[s]

(* It leaves all of the slot alone.                                        *)
SlotKept(s) == StreamKept(s) /\ IqLine(s)' = IqLine(s) /\ states'[s] = states[s]

(* It submits a packet of the slot.                                        *)
SlotSubmitted(s) ==
  /\ Submit(s) /\ IqLine(s)' = Append(IqLine(s), NextPacket(s))
  /\ source'[s] = [source[s] EXCEPT !.seq = @ + 1]
  /\ generations'[s] = generations[s] /\ states'[s] = states[s]

(* It gives the slot's source a new identity.                              *)
SlotRecaptured(s) ==
  /\ Recapture(s) /\ IqLine(s)' = IqLine(s)
  /\ source'[s] = [id |-> source[s].id + 1, seq |-> 0]
  /\ generations'[s] = generations[s] /\ states'[s] = states[s]

(* It retires what the slot has.                                           *)
SlotBumped(s) ==
  /\ generations'[s] = generations[s] + 1 /\ IqLine(s)' = <<>>
  /\ source'[s] = [id |-> source[s].id + 1, seq |-> 0] /\ states'[s] = states[s]

(* It works on the slot's first packet.                                    *)
SlotProcessed(s) ==
  /\ StreamKept(s) /\ IqLine(s) # <<>> /\ IqLine(s)' = Tail(IqLine(s))
  /\ states'[s] = [gen |-> generations[s], id |-> Head(IqLine(s)).id,
                   next |-> Head(IqLine(s)).seq + 1]

(* It drops the slot's receiver.                                           *)
SlotForgotten(s) ==
  /\ call = "ack" /\ target = s /\ call' = "ack" /\ acked'
  /\ StreamKept(s) /\ IqLine(s)' = IqLine(s) /\ states'[s] = NoState

(* One of those.                                                           *)
SlotStep(s) == \/ SlotKept(s) \/ SlotSubmitted(s) \/ SlotRecaptured(s)
               \/ SlotBumped(s) \/ SlotProcessed(s) \/ SlotForgotten(s)

(* The packets of a slot in a generation, and those it has in line.        *)
LEMMA PacketsFacts ==
  /\ \A s, g, r : r \in Packets(s, g) <=> (r \in Record /\ r.kind = "iq" /\ r.slot = s /\ r.gen = g)
  /\ \A s : IqLine(s) = Among(Line(s % WORKERS), Packets(s, generations[s]))
  /\ \A s : IqLine(s)' = Among(Line(s % WORKERS)', Packets(s, generations'[s]))
  BY DEF Packets, IqLine, Iq

(* The packets in line are packets of the slot and its generation.         *)
LEMMA IqLineType ==
  ASSUME TypeOK, NEW s \in Slots
  PROVE  IqLine(s) \in Seq(Record) /\ \A i \in 1..Len(IqLine(s)) :
            IqLine(s)[i] \in Record /\ IqLine(s)[i] \in Packets(s, generations[s])
  <1>1. Line(s % WORKERS) \in Seq(Record)
    BY SlotFacts, LineType
  <1> QED BY <1>1, AmongType, AmongElements, PacketsFacts

(* Lines and generations that are kept keep the packets in line.           *)
LEMMA IqLineSame ==
  ASSUME LineSame, UNCHANGED generations
  PROVE  \A s \in Slots : IqLine(s)' = IqLine(s)
  BY SlotFacts, PacketsFacts DEF LineSame

(* So does other work that is sent.                                        *)
LEMMA IqLineOther ==
  ASSUME TypeOK, NEW t \in Threads, NEW w \in Record, LineSent(t, w), w.kind # "iq",
         UNCHANGED generations
  PROVE  \A s \in Slots : IqLine(s)' = IqLine(s)
  <1> SUFFICES ASSUME NEW s \in Slots PROVE IqLine(s)' = IqLine(s)
    OBVIOUS
  <1>1. s % WORKERS \in Threads
    BY SlotFacts
  <1>2. w \notin Packets(s, generations[s])
    BY PacketsFacts
  <1>3. CASE s % WORKERS = t
    BY <1>2, <1>3, LineAmongSent, PacketsFacts
  <1>4. CASE s % WORKERS # t
    BY <1>1, <1>4, PacketsFacts DEF LineSent
  <1> QED BY <1>3, <1>4

(* A packet that is submitted is the last in line of its slot.             *)
LEMMA IqLineSubmitted ==
  ASSUME TypeOK, NEW s \in Slots, LineSent(s % WORKERS, NextPacket(s)), UNCHANGED generations
  PROVE  /\ IqLine(s)' = Append(IqLine(s), NextPacket(s))
         /\ \A r \in Slots \ {s} : IqLine(r)' = IqLine(r)
  <1>1. s % WORKERS \in Threads /\ NextPacket(s) \in Record
    BY SlotFacts, PacketType DEF NextPacket
  <1>2. NextPacket(s) \in Packets(s, generations[s])
    BY <1>1, PacketsFacts DEF NextPacket, Item
  <1>3. IqLine(s)' = Append(IqLine(s), NextPacket(s))
    BY <1>1, <1>2, LineAmongSent, PacketsFacts
  <1>4. ASSUME NEW r \in Slots \ {s} PROVE IqLine(r)' = IqLine(r)
    <2>1. NextPacket(s) \notin Packets(r, generations[r])
      BY PacketsFacts DEF NextPacket, Item
    <2>2. r % WORKERS \in Threads
      BY SlotFacts
    <2>3. CASE r % WORKERS = s % WORKERS
      BY <1>1, <2>1, <2>3, LineAmongSent, PacketsFacts
    <2>4. CASE r % WORKERS # s % WORKERS
      BY <2>2, <2>4, PacketsFacts DEF LineSent
    <2> QED BY <2>3, <2>4
  <1> QED BY <1>3, <1>4

(* A packet that was worked on was the first in line of its slot.          *)
LEMMA IqLineUsed ==
  ASSUME TypeOK, LinesKnown, NEW t \in Threads, LineUsed(t), UNCHANGED generations
  PROVE  \A s \in Slots :
           IF work[t] \in Packets(s, generations[s])
           THEN IqLine(s) # <<>> /\ Head(IqLine(s)) = work[t] /\ IqLine(s)' = Tail(IqLine(s))
           ELSE IqLine(s)' = IqLine(s)
  <1> SUFFICES ASSUME NEW s \in Slots
               PROVE  IF work[t] \in Packets(s, generations[s])
                      THEN IqLine(s) # <<>> /\ Head(IqLine(s)) = work[t] /\ IqLine(s)' = Tail(IqLine(s))
                      ELSE IqLine(s)' = IqLine(s)
    OBVIOUS
  <1>1. s % WORKERS \in Threads /\ work[t] \in Record /\ work[t].slot % WORKERS = t
    BY SlotFacts, WorkKnown DEF LineUsed
  <1>2. work[t] \in Packets(s, generations[s]) => s % WORKERS = t
    BY <1>1, PacketsFacts
  <1>3. CASE s % WORKERS = t
    BY <1>3, LineAmongUsed, PacketsFacts
  <1>4. CASE s % WORKERS # t
    BY <1>1, <1>2, <1>4, PacketsFacts DEF LineUsed
  <1> QED BY <1>3, <1>4

(* A slot whose generation is bumped has no packet in line.                *)
LEMMA IqLineBumped ==
  ASSUME TypeOK, LinesKnown, NEW s \in Slots, LineSame, generations'[s] = generations[s] + 1
  PROVE  IqLine(s)' = <<>>
  <1>1. Line(s % WORKERS) \in Seq(Record) /\ s % WORKERS \in Threads /\ generations[s] \in Nat
    BY SlotFacts, LineType, TypeParts DEF AllTypes
  <1>2. ASSUME NEW i \in 1..Len(Line(s % WORKERS))
        PROVE  Line(s % WORKERS)[i] \notin Packets(s, generations'[s])
    <2>1. Known(Line(s % WORKERS)[i]) /\ Line(s % WORKERS)[i] \in Record
      BY <1>1, ElementOfSeq DEF LinesKnown
    <2>2. Line(s % WORKERS)[i].slot = s => Line(s % WORKERS)[i].gen # generations[s] + 1
      BY <1>1, <2>1, RecordType DEF Known
    <2> QED BY <2>2, PacketsFacts
  <1>3. Among(Line(s % WORKERS), Packets(s, generations'[s])) = <<>>
    BY <1>1, <1>2, AmongNone
  <1> QED BY <1>1, <1>3, PacketsFacts DEF LineSame

(* A bump starts the streams of the slots it is about and keeps the        *)
(* others.                                                                 *)
LEMMA BumpEffect ==
  ASSUME TypeOK, LinesKnown, NEW slots \in SUBSET Slots, Bump(slots), LineSame, UNCHANGED states
  PROVE  \A s \in Slots : IF s \in slots THEN SlotBumped(s) ELSE SlotKept(s)
  <1> SUFFICES ASSUME NEW s \in Slots PROVE IF s \in slots THEN SlotBumped(s) ELSE SlotKept(s)
    OBVIOUS
  <1>1. generations[s] \in Nat
    BY TypeParts DEF AllTypes
  <1>2. CASE s \in slots
    <2>1. generations'[s] = generations[s] + 1 /\ source'[s] = [id |-> source[s].id + 1, seq |-> 0]
      BY <1>2 DEF Bump
    <2> QED BY <1>2, <2>1, IqLineBumped DEF SlotBumped
  <1>3. CASE s \notin slots
    <2>1. generations'[s] = generations[s] /\ source'[s] = source[s]
      BY <1>1, <1>3 DEF Bump
    <2>2. IqLine(s)' = IqLine(s)
      BY <2>1, SlotFacts, PacketsFacts DEF LineSame
    <2> QED BY <1>3, <2>1, <2>2 DEF SlotKept, StreamKept
  <1> QED BY <1>2, <1>3

(* The deactivation in hand is the one the owner waits for.                *)
LEMMA DeactivationKnown ==
  ASSUME TypeOK, Deactivations, ~stopping, NEW t \in Threads, at[t] = "work",
         work[t].kind = "deactivate"
  PROVE  /\ call = "ack" /\ ~acked /\ t = target % WORKERS
         /\ work[t] = Item("deactivate", target, generations[target], 0, 0)
         /\ Deacts(t) = <<work[t]>>
  <1>1. Line(t) \in Seq(Record) /\ Line(t) # <<>> /\ Head(Line(t)) = work[t] /\ work[t] \in Record
    BY LineType
  <1>2. work[t] \in {r \in Record : r.kind = "deactivate"}
    BY <1>1
  <1>3. Deacts(t) # <<>> /\ Head(Deacts(t)) = work[t]
    BY <1>1, <1>2, AmongHead DEF Deacts
  <1>4. /\ call = "ack" /\ ~acked /\ t = target % WORKERS
        /\ Deacts(t) = <<Item("deactivate", target, generations[target], 0, 0)>>
    BY <1>3 DEF Deactivations
  <1>5. \A x : Head(<<x>>) = x
    OBVIOUS
  <1> QED BY <1>3, <1>4, <1>5

(* Every step, seen from a slot.                                           *)
LEMMA SlotSteps ==
  ASSUME TypeOK, Placed, Deactivations, [Next]_vars, ~stopping'
  PROVE  \A q \in Slots : SlotStep(q)
  <1>0. ~stopping /\ LinesKnown
    BY Running DEF Placed
  <1> USE <1>0
  <1>1. CASE FinishPoll
    <2>1. LineSame /\ UNCHANGED <<generations, states, source>>
      BY <1>1, LineKept DEF FinishPoll, shared, queues, thread, past, TakeOutputs
    <2> QED BY <2>1, IqLineSame DEF SlotStep, SlotKept, StreamKept
  <1>2. CASE FinishEnd
    <2>1. LineSame /\ UNCHANGED <<generations, states, source>>
      BY <1>2, LineKept DEF FinishEnd, shared, queues, thread, past, TakeOutputs
    <2> QED BY <2>1, IqLineSame DEF SlotStep, SlotKept, StreamKept
  <1>3. CASE Page
    <2>1. target \in Slots /\ target % WORKERS \in Threads
      BY <1>3, SlotFacts DEF Page, Placed, Control
    <2> DEFINE w == Item("finish", target, generations[target], 0, 0)
    <2>2. w \in Record /\ w.kind # "iq"
      BY <2>1, PacketType DEF Item
    <2>3. /\ UNCHANGED <<at, work>> /\ (SendTo(target % WORKERS, w) \/ UNCHANGED inputs)
          /\ UNCHANGED <<generations, source, states>>
      BY <1>3 DEF Page, thread, shared, past
    <2> HIDE DEF w
    <2>4. \A s \in Slots : IqLine(s)' = IqLine(s)
      BY <2>1, <2>2, <2>3, LineSends, LineKept, IqLineOther, IqLineSame
    <2> QED BY <2>3, <2>4 DEF SlotStep, SlotKept, StreamKept
  <1>4. CASE Retire
    <2>1. LineSame /\ UNCHANGED <<generations, states, source>>
      BY <1>4, LineKept DEF Retire, shared, queues, thread, past, TakeOutputs
    <2> QED BY <2>1, IqLineSame DEF SlotStep, SlotKept, StreamKept
  <1>5. CASE Clear
    <2>1. target \in Slots /\ target % WORKERS \in Threads
      BY <1>5, SlotFacts DEF Clear, Placed, Control
    <2> DEFINE w == Item("deactivate", target, generations[target], 0, 0)
    <2>2. w \in Record /\ w.kind # "iq"
      BY <2>1, PacketType DEF Item
    <2>3. /\ UNCHANGED <<at, work>> /\ (SendTo(target % WORKERS, w) \/ UNCHANGED inputs)
          /\ UNCHANGED <<generations, source, states>>
      BY <1>5 DEF Clear, thread, past, AfterBump
    <2> HIDE DEF w
    <2>4. \A s \in Slots : IqLine(s)' = IqLine(s)
      BY <2>1, <2>2, <2>3, LineSends, LineKept, IqLineOther, IqLineSame
    <2> QED BY <2>3, <2>4 DEF SlotStep, SlotKept, StreamKept
  <1>6. CASE Ack
    <2>1. LineSame /\ UNCHANGED <<generations, states, source>>
      BY <1>6, LineKept DEF Ack, shared, queues, thread, past, TakeOutputs
    <2> QED BY <2>1, IqLineSame DEF SlotStep, SlotKept, StreamKept
  <1>7. CASE Notice
    <2>1. LineSame /\ UNCHANGED <<generations, states, source>>
      BY <1>7, LineKept DEF Notice, shared, queues, thread, past, TakeOutputs
    <2> QED BY <2>1, IqLineSame DEF SlotStep, SlotKept, StreamKept
  <1>8. CASE StopFailed
    BY <1>8 DEF StopFailed
  <1>9. CASE Joined
    <2>1. LineSame /\ UNCHANGED <<generations, states, source>>
      BY <1>9, LineKept DEF Joined, shared, queues, thread, past, TakeOutputs
    <2> QED BY <2>1, IqLineSame DEF SlotStep, SlotKept, StreamKept
  <1>10. CASE Poll
    <2>1. LineSame /\ UNCHANGED <<generations, states, source>>
      BY <1>10, LineKept DEF Poll, shared, queues, thread, past, TakeOutputs
    <2> QED BY <2>1, IqLineSame DEF SlotStep, SlotKept, StreamKept
  <1>11. CASE ResetSession
    <2>1. LineSame /\ UNCHANGED states /\ Bump(Slots)
      BY <1>11, LineKept DEF ResetSession, queues, thread
    <2> QED BY <2>1, BumpEffect DEF SlotStep
  <1>12. CASE Drop
    BY <1>12 DEF Drop
  <1>13. ASSUME NEW then \in {"return", "page"}, NEW s \in Slots, Finish(then, s) PROVE \A q \in Slots : SlotStep(q)
    <2>1. LineSame /\ UNCHANGED <<generations, states, source>>
      BY <1>13, LineKept DEF Finish, shared, queues, thread, past, TakeOutputs
    <2> QED BY <2>1, IqLineSame DEF SlotStep, SlotKept, StreamKept
  <1>14. ASSUME NEW s \in Slots, Submit(s) PROVE \A q \in Slots : SlotStep(q)
    <2>1. s % WORKERS \in Threads /\ NextPacket(s) \in Record
      BY SlotFacts, PacketType DEF NextPacket
    <2>2. /\ SendTo(s % WORKERS, NextPacket(s)) /\ UNCHANGED <<at, work, generations, states>>
          /\ source' = [source EXCEPT ![s].seq = @ + 1]
      BY <1>14 DEF Submit, thread, NextPacket, Fail
    <2>3. /\ IqLine(s)' = Append(IqLine(s), NextPacket(s))
          /\ \A r \in Slots \ {s} : IqLine(r)' = IqLine(r)
      BY <2>1, <2>2, LineSends, IqLineSubmitted
    <2>4. /\ source'[s] = [source[s] EXCEPT !.seq = @ + 1]
          /\ \A r \in Slots \ {s} : source'[r] = source[r]
      BY <2>2, TypeParts DEF AllTypes, HistoryType
    <2> QED BY <1>14, <2>2, <2>3, <2>4 DEF SlotStep, SlotKept, StreamKept, SlotSubmitted
  <1>15. ASSUME NEW s \in Slots, Recapture(s) PROVE \A q \in Slots : SlotStep(q)
    <2>1. LineSame /\ UNCHANGED <<generations, states>>
      BY <1>15, LineKept DEF Recapture, queues, thread, shared
    <2>2. \A r \in Slots : IqLine(r)' = IqLine(r)
      BY <2>1, IqLineSame
    <2>3. /\ source'[s] = [id |-> source[s].id + 1, seq |-> 0]
          /\ \A r \in Slots \ {s} : source'[r] = source[r]
      BY <1>15, TypeParts DEF Recapture, AllTypes, HistoryType
    <2> QED BY <1>15, <2>1, <2>2, <2>3 DEF SlotStep, SlotKept, StreamKept, SlotRecaptured
  <1>16. ASSUME NEW s \in Slots, NEW on \in BOOLEAN, Configure(s, on) PROVE \A q \in Slots : SlotStep(q)
    <2>1. LineSame /\ UNCHANGED states /\ Bump({s})
      BY <1>16, LineKept DEF Configure, queues, thread
    <2> QED BY <2>1, BumpEffect DEF SlotStep
  <1>17. CASE SearchLeave
    <2>1. LineSame /\ UNCHANGED <<generations, states, source>>
      BY <1>17, LineKept DEF SearchLeave, shared, queues, thread, past, TakeOutputs
    <2> QED BY <2>1, IqLineSame DEF SlotStep, SlotKept, StreamKept
  <1>18. CASE SearchRecv
    <2>1. LineSame /\ UNCHANGED <<generations, states, source>>
      BY <1>18, LineKept DEF SearchRecv, shared, queues, thread, past, TakeOutputs
    <2> QED BY <2>1, IqLineSame DEF SlotStep, SlotKept, StreamKept
  <1>19. CASE SearchDone
    <2>1. job \in Record /\ job.kind # "iq" /\ job.slot % WORKERS \in Threads
      BY <1>19, SlotFacts, TypeParts DEF SearchDone, Placed, JobsKnown, Known, AllTypes
    <2>2. /\ UNCHANGED <<at, work>> /\ (SendTo(job.slot % WORKERS, job) \/ UNCHANGED inputs)
          /\ UNCHANGED <<generations, source, states>>
      BY <1>19 DEF SearchDone, thread, past
    <2>3. \A s \in Slots : IqLine(s)' = IqLine(s)
      BY <2>1, <2>2, LineSends, LineKept, IqLineOther, IqLineSame
    <2> QED BY <2>2, <2>3 DEF SlotStep, SlotKept, StreamKept
  <1>20. ASSUME NEW t \in Threads, Leave(t) PROVE \A q \in Slots : SlotStep(q)
    BY <1>20, <1>0 DEF Leave, OnStopping
  <1>21. ASSUME NEW t \in Threads, Recv(t) PROVE \A q \in Slots : SlotStep(q)
    <2>1. LineSame /\ UNCHANGED <<generations, states, source>>
      BY <1>21, LineReceives DEF Recv, shared, past
    <2> QED BY <2>1, IqLineSame DEF SlotStep, SlotKept, StreamKept
  <1>22. ASSUME NEW t \in Threads, ProcessPacket(t) PROVE \A q \in Slots : SlotStep(q)
    <2> DEFINE p == work[t]
    <2>1. LineUsed(t) /\ UNCHANGED <<generations, source>> /\ at[t] = "work" /\ p.kind = "iq"
      BY <1>22, PacketUsed DEF ProcessPacket, past
    <2>2. p \in Record /\ Known(p) /\ p.slot \in Slots
      BY <2>1, WorkKnown DEF Placed
    <2>3. \A s \in Slots : p \in Packets(s, generations[s]) <=> s = p.slot /\ Current(p.slot, p.gen)
      BY <1>0, <2>1, <2>2, PacketsFacts DEF Current
    <2>4. \A s \in Slots :
            IF s = p.slot /\ Current(p.slot, p.gen)
            THEN IqLine(s) # <<>> /\ Head(IqLine(s)) = p /\ IqLine(s)' = Tail(IqLine(s))
            ELSE IqLine(s)' = IqLine(s)
      BY <2>1, <2>3, IqLineUsed DEF Placed
    <2>5. IF Current(p.slot, p.gen)
          THEN states' = [states EXCEPT ![p.slot] = [gen |-> p.gen, id |-> p.id, next |-> p.seq + 1]]
          ELSE UNCHANGED states
      <3> DEFINE old == states[p.slot]
                 reset == NeedsReset(old, p)
                 state == IF reset THEN [gen |-> p.gen, id |-> p.id, next |-> 0] ELSE old
                 broken == \/ reset /\ old # NoState /\ old.id = p.id
                           \/ p.seq # state.next
      <3>1. CASE ~Current(p.slot, p.gen)
        BY <1>22, <3>1 DEF ProcessPacket
      <3>2. CASE Current(p.slot, p.gen)
        <4>1. ~broken /\ states' = [states EXCEPT ![p.slot] = [state EXCEPT !.next = @ + 1]]
          <5>1. \/ Fail("contract") \/ Fail("fault")
                \/ ~broken /\ states' = [states EXCEPT ![p.slot] = [state EXCEPT !.next = @ + 1]]
            BY <1>22, <3>2 DEF ProcessPacket
          <5> QED BY <5>1 DEF Fail
        <4>2. old \in ChannelState
          BY <2>2, TypeParts DEF AllTypes
        <4>3. [state EXCEPT !.next = @ + 1] = [gen |-> p.gen, id |-> p.id, next |-> p.seq + 1]
          <5>1. CASE reset
            BY <4>1, <5>1
          <5>2. CASE ~reset
            <6>1. old.gen = p.gen /\ old.id = p.id /\ old.next = p.seq
              BY <4>1, <5>2 DEF NeedsReset
            <6>2. old = [gen |-> p.gen, id |-> p.id, next |-> p.seq]
              BY <4>2, <6>1 DEF ChannelState
            <6> QED BY <5>2, <6>2
          <5> QED BY <5>1, <5>2
        <4> HIDE DEF p, state
        <4> QED BY <3>2, <4>1, <4>3
      <3> QED BY <3>1, <3>2
    <2>6. states \in [Slots -> ChannelState]
      BY TypeParts DEF AllTypes
    <2> HIDE DEF p
    <2> SUFFICES ASSUME NEW s \in Slots PROVE SlotStep(s)
      OBVIOUS
    <2>7. CASE s = p.slot /\ Current(p.slot, p.gen)
      <3>1. /\ IqLine(s) # <<>> /\ Head(IqLine(s)) = p /\ IqLine(s)' = Tail(IqLine(s))
            /\ states'[s] = [gen |-> p.gen, id |-> p.id, next |-> p.seq + 1]
            /\ p.gen = generations[s]
        BY <2>2, <2>4, <2>5, <2>6, <2>7 DEF Current
      <3> QED BY <2>1, <3>1 DEF SlotStep, SlotProcessed, StreamKept
    <2>8. CASE ~(s = p.slot /\ Current(p.slot, p.gen))
      <3>1. IqLine(s)' = IqLine(s) /\ states'[s] = states[s]
        BY <2>4, <2>5, <2>6, <2>8
      <3> QED BY <2>1, <3>1 DEF SlotStep, SlotKept, StreamKept
    <2> QED BY <2>7, <2>8
  <1>23. ASSUME NEW t \in Threads, ProcessOther(t) PROVE \A q \in Slots : SlotStep(q)
    <2> DEFINE w == work[t]
    <2>1. LineUsed(t) /\ UNCHANGED <<generations, source, call, target>> /\ at[t] = "work" /\ w.kind # "iq"
      BY <1>23, PacketUsed DEF ProcessOther, past, shared
    <2>2. \A s \in Slots : IqLine(s)' = IqLine(s)
      BY <2>1, IqLineUsed, PacketsFacts DEF Placed
    <2>3. \/ UNCHANGED states
          \/ w.kind = "deactivate" /\ acked' /\ states' = [states EXCEPT ![w.slot] = NoState]
      BY <1>23 DEF ProcessOther
    <2>4. CASE UNCHANGED states
      BY <2>1, <2>2, <2>4 DEF SlotStep, SlotKept, StreamKept
    <2>5. CASE w.kind = "deactivate" /\ acked' /\ states' = [states EXCEPT ![w.slot] = NoState]
      <3>1. call = "ack" /\ w.slot = target
        BY <1>0, <2>1, <2>5, DeactivationKnown DEF Item
      <3>2. states \in [Slots -> ChannelState]
        BY TypeParts DEF AllTypes
      <3> HIDE DEF w
      <3>3. \A s \in Slots : IF s = target THEN states'[s] = NoState ELSE states'[s] = states[s]
        BY <2>5, <3>1, <3>2
      <3> QED BY <2>1, <2>2, <2>5, <3>1, <3>3 DEF SlotStep, SlotKept, StreamKept, SlotForgotten
    <2> QED BY <2>3, <2>4, <2>5
  <1>24. ASSUME NEW t \in Threads, Output(t) PROVE \A q \in Slots : SlotStep(q)
    <2>1. LineSame /\ UNCHANGED <<generations, states, source>>
      BY <1>24, LineOutput DEF Output, past
    <2> QED BY <2>1, IqLineSame DEF SlotStep, SlotKept, StreamKept
  <1>25. CASE UNCHANGED vars
    <2>1. LineSame /\ UNCHANGED <<generations, states, source>>
      BY <1>25, LineKept DEF vars, shared, queues, thread, past, TakeOutputs
    <2> QED BY <2>1, IqLineSame DEF SlotStep, SlotKept, StreamKept
  <1>26. First \in Slots
    BY SlotFacts
  <1> QED BY <1>1, <1>2, <1>3, <1>4, <1>5, <1>6, <1>7, <1>8, <1>9, <1>10, <1>11,
    <1>12, <1>13, <1>14, <1>15, <1>16, <1>17, <1>18, <1>19, <1>20, <1>21,
    <1>22, <1>23, <1>24, <1>25, <1>26 DEF Next, InCall, Free, Search, Realtime

-----------------------------------------------------------------------------
(* The first state.                                                        *)
LEMMA FirstLines ==
  ASSUME Init PROVE \A t \in Threads : Line(t) = <<>>
  <1>1. /\ at = [t \in Threads |-> "recv"] /\ inputs = [t \in Threads |-> <<>>]
    BY DEF Init
  <1>2. <<>> \o <<>> = <<>>
    OBVIOUS
  <1> QED BY <1>1, <1>2 DEF Line

(* Work, jobs, results and the owner at first.                             *)
LEMMA PlacedInit ==
  ASSUME Init PROVE Placed /\ Stopped
  <1>1. LinesKnown
    BY FirstLines DEF LinesKnown
  <1>2. JobsKnown /\ OutcomesKnown
    BY DEF Init, JobsKnown, OutcomesKnown
  <1>3. Control /\ Stopped
    BY DEF Init, Control, Stopped
  <1> QED BY <1>1, <1>2, <1>3 DEF Placed

-----------------------------------------------------------------------------
(* Results.                                                                *)
LEMMA TakenFrom ==
  ASSUME NEW U, deferred \in Seq(U), outputs \in Seq(U), got \in [Slots -> Seq(U)], TakeOutputs
  PROVE  got' \in [Slots -> Seq(U)] /\ deferred' \in Seq(U) /\ outputs' \in Seq(U)
  <1> DEFINE os == DeferredFirst(Checked(deferred), Valid(outputs))
  <1>1. Valid(deferred) \in Seq(U) /\ Valid(outputs) \in Seq(U)
    BY AmongType DEF Valid
  <1>2. os \in Seq(U)
    BY <1>1, ConcatProperties DEF DeferredFirst, Checked
  <1>3. Give(os) /\ deferred' = <<>> /\ outputs' = <<>>
    BY DEF TakeOutputs
  <1> HIDE DEF os
  <1>4. ASSUME NEW s \in Slots
        PROVE  got[s] \o Among(os, {o \in Outcome : o.of.slot = s}) \in Seq(U)
    <2>1. Among(os, {o \in Outcome : o.of.slot = s}) \in Seq(U)
      BY <1>2, AmongType
    <2> QED BY <2>1, ConcatProperties
  <1>5. got' = [s \in Slots |-> got[s] \o Among(os, {o \in Outcome : o.of.slot = s})]
    BY <1>3 DEF Give
  <1> QED BY <1>3, <1>4, <1>5

(* A result that a thread makes carries the identity of the stream whose   *)
(* samples it decodes.                                                     *)
LEMMA OwnMade ==
  ASSUME TypeOK, LinesKnown, OwnLabels, NEW t \in Threads, ProcessPacket(t) \/ ProcessOther(t)
  PROVE  made' \in [Threads -> OwnOutcome]
  <1> DEFINE w == work[t]
             id == states[w.slot].id
  <1>1. at[t] = "work"
    BY DEF ProcessPacket, ProcessOther
  <1>2. w \in Record /\ states[w.slot] \in ChannelState /\ made \in [Threads -> OwnOutcome]
    BY <1>1, WorkKnown DEF OwnLabels
  <1>3. w.id \in Nat /\ id \in Nat
    BY <1>2, RecordType
  <1>4. \/ UNCHANGED made
        \/ Makes(t, [of |-> w, as |-> w.id])
        \/ w.id = id /\ Makes(t, [of |-> w, as |-> id])
        \/ Makes(t, [of |-> [w EXCEPT !.id = id], as |-> id])
    <2>1. CASE ProcessPacket(t)
      BY <2>1 DEF ProcessPacket
    <2>2. CASE ProcessOther(t)
      BY <2>2 DEF ProcessOther, Asked
    <2> QED BY <2>1, <2>2
  <1>5. /\ [of |-> w, as |-> w.id] \in OwnOutcome
        /\ [of |-> [w EXCEPT !.id = id], as |-> id] \in OwnOutcome
    <2>1. [of |-> w, as |-> w.id] \in Outcome /\ [of |-> [w EXCEPT !.id = id], as |-> id] \in Outcome
      BY <1>2, <1>3, RecordType
    <2>2. [w EXCEPT !.id = id].id = id
      BY <1>2 DEF Record
    <2> QED BY <2>1, <2>2 DEF OwnOutcome
  <1> HIDE DEF w, id
  <1>6. ASSUME NEW o \in OwnOutcome, Makes(t, o) PROVE made' \in [Threads -> OwnOutcome]
    BY <1>2, <1>6 DEF Makes
  <1> QED BY <1>2, <1>4, <1>5, <1>6

(* Every step keeps every result labelled with its own stream.             *)
LEMMA OwnLabelsStep ==
  ASSUME TypeOK, LinesKnown, OwnLabels, [Next]_vars PROVE OwnLabels'
  <1>1. CASE FinishPoll
    <2>1. TakeOutputs /\ UNCHANGED made
      BY <1>1 DEF FinishPoll, thread
    <2> QED BY <2>1, TakenFrom DEF OwnLabels
  <1>2. CASE FinishEnd
    <2>1. TakeOutputs /\ UNCHANGED made
      BY <1>2 DEF FinishEnd, thread
    <2> QED BY <2>1, TakenFrom DEF OwnLabels
  <1>3. CASE Page
    <2>1. UNCHANGED <<made, outputs, deferred, got>>
      BY <1>3 DEF Page, owner, queues, thread, past
    <2> QED BY <2>1 DEF OwnLabels
  <1>4. CASE Retire
    <2>1. deferred' = deferred \o Valid(outputs) /\ outputs' = <<>> /\ UNCHANGED <<made, got>>
      BY <1>4 DEF Retire, thread, past
    <2>2. deferred \o Valid(outputs) \in Seq(OwnOutcome)
      <3>1. Valid(outputs) \in Seq(OwnOutcome)
        BY AmongType DEF OwnLabels, Valid
      <3> QED BY <3>1, ConcatProperties DEF OwnLabels
    <2> QED BY <2>1, <2>2 DEF OwnLabels
  <1>5. CASE Clear
    <2>1. UNCHANGED <<made, outputs, deferred, got>>
      BY <1>5 DEF Clear, owner, queues, thread, past
    <2> QED BY <2>1 DEF OwnLabels
  <1>6. CASE Ack
    <2>1. UNCHANGED <<made, outputs, deferred, got>>
      BY <1>6 DEF Ack, owner, queues, thread, past
    <2> QED BY <2>1 DEF OwnLabels
  <1>7. CASE Notice
    <2>1. UNCHANGED <<made, outputs, deferred, got>>
      BY <1>7 DEF Notice, owner, queues, thread, past
    <2> QED BY <2>1 DEF OwnLabels
  <1>8. CASE StopFailed
    <2>1. UNCHANGED <<made, outputs, deferred>> /\ got' \in [Slots -> Seq(OwnOutcome)]
      BY <1>8 DEF StopFailed, LastCall, OwnLabels, owner, queues, thread
    <2> QED BY <2>1 DEF OwnLabels
  <1>9. CASE Joined
    <2>1. UNCHANGED <<made, outputs, deferred, got>>
      BY <1>9 DEF Joined, owner, queues, thread, past
    <2> QED BY <2>1 DEF OwnLabels
  <1>10. CASE Poll
    <2>1. (TakeOutputs \/ UNCHANGED <<got, deferred, outputs>>) /\ UNCHANGED made
      BY <1>10 DEF Poll, thread
    <2> QED BY <2>1, TakenFrom DEF OwnLabels
  <1>11. CASE ResetSession
    <2>1. UNCHANGED <<made, outputs, deferred>> /\ got' \in [Slots -> Seq(OwnOutcome)]
      BY <1>11 DEF ResetSession, Bump, OwnLabels, owner, queues, thread
    <2> QED BY <2>1 DEF OwnLabels
  <1>12. CASE Drop
    <2>1. UNCHANGED <<made, outputs, deferred>> /\ got' \in [Slots -> Seq(OwnOutcome)]
      BY <1>12 DEF Drop, LastCall, OwnLabels, owner, queues, thread
    <2> QED BY <2>1 DEF OwnLabels
  <1>13. ASSUME NEW then \in {"return", "page"}, NEW s \in Slots, Finish(then, s) PROVE OwnLabels'
    <2>1. UNCHANGED <<made, outputs, deferred, got>>
      BY <1>13 DEF Finish, owner, queues, thread, past
    <2> QED BY <2>1 DEF OwnLabels
  <1>14. ASSUME NEW s \in Slots, Submit(s) PROVE OwnLabels'
    <2>1. UNCHANGED <<made, outputs, deferred, got>>
      BY <1>14 DEF Submit, owner, queues, thread, past
    <2> QED BY <2>1 DEF OwnLabels
  <1>15. ASSUME NEW s \in Slots, Recapture(s) PROVE OwnLabels'
    <2>1. UNCHANGED <<made, outputs, deferred, got>>
      BY <1>15 DEF Recapture, owner, queues, thread, past
    <2> QED BY <2>1 DEF OwnLabels
  <1>16. ASSUME NEW s \in Slots, NEW on \in BOOLEAN, Configure(s, on) PROVE OwnLabels'
    <2>1. UNCHANGED <<made, outputs, deferred>> /\ got' \in [Slots -> Seq(OwnOutcome)]
      BY <1>16 DEF Configure, Bump, OwnLabels, owner, queues, thread
    <2> QED BY <2>1 DEF OwnLabels
  <1>17. CASE SearchLeave
    <2>1. UNCHANGED <<made, outputs, deferred, got>>
      BY <1>17 DEF SearchLeave, owner, queues, thread, past
    <2> QED BY <2>1 DEF OwnLabels
  <1>18. CASE SearchRecv
    <2>1. UNCHANGED <<made, outputs, deferred, got>>
      BY <1>18 DEF SearchRecv, owner, queues, thread, past
    <2> QED BY <2>1 DEF OwnLabels
  <1>19. CASE SearchDone
    <2>1. UNCHANGED <<made, outputs, deferred, got>>
      BY <1>19 DEF SearchDone, owner, queues, thread, past
    <2> QED BY <2>1 DEF OwnLabels
  <1>20. ASSUME NEW t \in Threads, Leave(t) PROVE OwnLabels'
    <2>1. UNCHANGED <<made, outputs, deferred, got>>
      BY <1>20 DEF Leave, owner, queues, thread, past
    <2> QED BY <2>1 DEF OwnLabels
  <1>21. ASSUME NEW t \in Threads, Recv(t) PROVE OwnLabels'
    <2>1. UNCHANGED <<made, outputs, deferred, got>>
      BY <1>21 DEF Recv, owner, queues, thread, past
    <2> QED BY <2>1 DEF OwnLabels
  <1>22. ASSUME NEW t \in Threads, ProcessPacket(t) PROVE OwnLabels'
    <2>1. UNCHANGED <<outputs, deferred, got>>
      BY <1>22 DEF ProcessPacket, owner, queues, past
    <2> QED BY <1>22, <2>1, OwnMade DEF OwnLabels
  <1>23. ASSUME NEW t \in Threads, ProcessOther(t) PROVE OwnLabels'
    <2>1. UNCHANGED <<outputs, deferred, got>>
      BY <1>23 DEF ProcessOther, owner, queues, past
    <2> QED BY <1>23, <2>1, OwnMade DEF OwnLabels
  <1>24. ASSUME NEW t \in Threads, Output(t) PROVE OwnLabels'
    <2>1. NoOutput \in OwnOutcome
      BY RecordType DEF OwnOutcome, NoOutput, None
    <2>2. /\ made' = [made EXCEPT ![t] = NoOutput] /\ UNCHANGED <<deferred, got>>
          /\ UNCHANGED outputs \/ outputs' = Append(outputs, made[t])
      BY <1>24 DEF Output, owner, past
    <2>3. /\ made \in [Threads -> OwnOutcome] /\ outputs \in Seq(OwnOutcome)
          /\ deferred \in Seq(OwnOutcome) /\ got \in [Slots -> Seq(OwnOutcome)]
      BY DEF OwnLabels
    <2>4. made' \in [Threads -> OwnOutcome]
      BY <2>1, <2>2, <2>3
    <2>5. outputs' \in Seq(OwnOutcome)
      <3>1. made[t] \in OwnOutcome
        BY <2>3
      <3>2. Append(outputs, made[t]) \in Seq(OwnOutcome)
        BY <2>3, <3>1
      <3> QED BY <2>2, <2>3, <3>2
    <2> QED BY <2>2, <2>3, <2>4, <2>5 DEF OwnLabels
  <1>25. CASE UNCHANGED vars
    <2>1. UNCHANGED <<made, outputs, deferred, got>>
      BY <1>25 DEF vars, owner, queues, thread, past
    <2> QED BY <2>1 DEF OwnLabels
  <1>26. First \in Slots
    BY SlotFacts
  <1> QED BY <1>1, <1>2, <1>3, <1>4, <1>5, <1>6, <1>7, <1>8, <1>9, <1>10, <1>11,
    <1>12, <1>13, <1>14, <1>15, <1>16, <1>17, <1>18, <1>19, <1>20, <1>21,
    <1>22, <1>23, <1>24, <1>25, <1>26 DEF Next, InCall, Free, Search, Realtime

(* There is no result at first.                                            *)
LEMMA OwnLabelsInit ==
  ASSUME Init PROVE OwnLabels
  <1>1. NoOutput \in OwnOutcome
    BY RecordType DEF OwnOutcome, NoOutput, None
  <1> QED BY <1>1 DEF Init, OwnLabels

(* So the caller only sees own labels.                                     *)
LEMMA OwnLabelsMean ==
  ASSUME OwnLabels PROVE OwnStream
  <1> SUFFICES ASSUME NEW s \in Slots, NEW i \in 1..Len(got[s]) PROVE got[s][i].of.id = got[s][i].as
    BY DEF OwnStream
  <1>1. got[s] \in Seq(OwnOutcome)
    BY DEF OwnLabels
  <1>2. got[s][i] \in OwnOutcome
    BY <1>1, ElementOfSeq
  <1> QED BY <1>2 DEF OwnOutcome

-----------------------------------------------------------------------------
(* The caller's outputs are of the current generation.                     *)
InTime(s) == {o \in Outcome : o.of.gen = generations[s]}

(* The caller was given no others since the last bump.                     *)
AllInTime == \A s \in Slots : got[s] \in Seq(InTime(s))

(* What poll gives is current.                                             *)
LEMMA InTimeTaken ==
  ASSUME TypeOK, AllInTime, TakeOutputs, UNCHANGED generations PROVE AllInTime'
  <1> DEFINE os == DeferredFirst(Checked(deferred), Valid(outputs))
             U == {o \in Outcome : Current(o.of.slot, o.of.gen)}
  <1>1. deferred \in Seq(Outcome) /\ outputs \in Seq(Outcome)
    BY TypeParts DEF AllTypes, OutputsType
  <1>2. Valid(deferred) \in Seq(Outcome \cap U) /\ Valid(outputs) \in Seq(Outcome \cap U)
    BY <1>1, AmongType DEF Valid
  <1>3. os \in Seq(Outcome \cap U)
    BY <1>2, ConcatProperties DEF DeferredFirst, Checked
  <1>4. Give(os)
    BY DEF TakeOutputs
  <1>5. \A o \in Outcome \cap U : o \in Outcome /\ generations[o.of.slot] = o.of.gen
    BY DEF Current
  <1> HIDE DEF os, U
  <1> SUFFICES ASSUME NEW s \in Slots PROVE got'[s] \in Seq(InTime(s))
    BY DEF AllInTime, InTime
  <1>6. Among(os, {o \in Outcome : o.of.slot = s}) \in Seq(InTime(s))
    <2> DEFINE V == (Outcome \cap U) \cap {o \in Outcome : o.of.slot = s}
               a == Among(os, {o \in Outcome : o.of.slot = s})
    <2>1. a \in Seq(V)
      BY <1>3, AmongType
    <2>2. V \subseteq InTime(s)
      BY <1>5 DEF InTime
    <2> HIDE DEF V, a
    <2>3. \A i \in 1..Len(a) : a[i] \in V
      BY <2>1, ElementOfSeq
    <2>4. \A i \in 1..Len(a) : a[i] \in InTime(s)
      BY <2>2, <2>3
    <2>5. a \in Seq(InTime(s))
      BY <2>1, <2>4, SeqOfSubset
    <2> QED BY <2>5 DEF a
  <1>7. got[s] \o Among(os, {o \in Outcome : o.of.slot = s}) \in Seq(InTime(s))
    BY <1>6, ConcatProperties DEF AllInTime
  <1> QED BY <1>4, <1>7 DEF Give

(* What was given stays current until its slot is bumped, and is then      *)
(* forgotten.                                                              *)
LEMMA InTimeKept ==
  ASSUME AllInTime, \A s \in Slots : got'[s] = <<>> \/ (got'[s] = got[s] /\ generations'[s] = generations[s])
  PROVE  AllInTime'
  <1> SUFFICES ASSUME NEW s \in Slots PROVE (got[s] \in Seq(InTime(s)))'
    BY DEF AllInTime
  <1>1. CASE got'[s] = <<>>
    BY <1>1
  <1>2. CASE got'[s] = got[s] /\ generations'[s] = generations[s]
    BY <1>2 DEF AllInTime, InTime
  <1> QED BY <1>1, <1>2

(* Every step keeps the caller's outputs current.                          *)
LEMMA InTimeStep ==
  ASSUME TypeOK, AllInTime, [Next]_vars PROVE AllInTime'
  <1>1. CASE FinishPoll
    <2>1. TakeOutputs /\ UNCHANGED generations
      BY <1>1 DEF FinishPoll, shared
    <2> QED BY <2>1, InTimeTaken
  <1>2. CASE FinishEnd
    <2>1. TakeOutputs /\ UNCHANGED generations
      BY <1>2 DEF FinishEnd, shared
    <2> QED BY <2>1, InTimeTaken
  <1>3. CASE Page
    <2>1. UNCHANGED <<got, generations>>
      BY <1>3 DEF Page, past, shared
    <2> QED BY <2>1, InTimeKept
  <1>4. CASE Retire
    <2>1. UNCHANGED <<got, generations>>
      BY <1>4 DEF Retire, past, shared
    <2> QED BY <2>1, InTimeKept
  <1>5. CASE Clear
    <2>1. UNCHANGED <<got, generations>>
      BY <1>5 DEF Clear, past, shared
    <2> QED BY <2>1, InTimeKept
  <1>6. CASE Ack
    <2>1. UNCHANGED <<got, generations>>
      BY <1>6 DEF Ack, past, shared
    <2> QED BY <2>1, InTimeKept
  <1>7. CASE Notice
    <2>1. UNCHANGED <<got, generations>>
      BY <1>7 DEF Notice, past, shared
    <2> QED BY <2>1, InTimeKept
  <1>8. CASE StopFailed
    <2>0. \A r \in Slots : generations[r] \in Nat
      BY TypeParts DEF AllTypes
    <2>1. \A r \in Slots : got'[r] = <<>> \/ (got'[r] = got[r] /\ generations'[r] = generations[r])
      BY <1>8, <2>0 DEF StopFailed, LastCall
    <2> QED BY <2>1, InTimeKept
  <1>9. CASE Joined
    <2>1. UNCHANGED <<got, generations>>
      BY <1>9 DEF Joined, past, shared
    <2> QED BY <2>1, InTimeKept
  <1>10. CASE Poll
    <2>1. (TakeOutputs \/ UNCHANGED got) /\ UNCHANGED generations
      BY <1>10 DEF Poll, shared
    <2> QED BY <2>1, InTimeTaken, InTimeKept
  <1>11. CASE ResetSession
    <2>0. \A r \in Slots : generations[r] \in Nat
      BY TypeParts DEF AllTypes
    <2>1. \A r \in Slots : got'[r] = <<>> \/ (got'[r] = got[r] /\ generations'[r] = generations[r])
      BY <1>11, <2>0 DEF ResetSession, Bump
    <2> QED BY <2>1, InTimeKept
  <1>12. CASE Drop
    <2>0. \A r \in Slots : generations[r] \in Nat
      BY TypeParts DEF AllTypes
    <2>1. \A r \in Slots : got'[r] = <<>> \/ (got'[r] = got[r] /\ generations'[r] = generations[r])
      BY <1>12, <2>0 DEF Drop, LastCall
    <2> QED BY <2>1, InTimeKept
  <1>13. ASSUME NEW then \in {"return", "page"}, NEW s \in Slots, Finish(then, s) PROVE AllInTime'
    <2>1. UNCHANGED <<got, generations>>
      BY <1>13 DEF Finish, past, shared
    <2> QED BY <2>1, InTimeKept
  <1>14. ASSUME NEW s \in Slots, Submit(s) PROVE AllInTime'
    <2>1. UNCHANGED <<got, generations>>
      BY <1>14 DEF Submit, past, shared
    <2> QED BY <2>1, InTimeKept
  <1>15. ASSUME NEW s \in Slots, Recapture(s) PROVE AllInTime'
    <2>1. UNCHANGED <<got, generations>>
      BY <1>15 DEF Recapture, past, shared
    <2> QED BY <2>1, InTimeKept
  <1>16. ASSUME NEW s \in Slots, NEW on \in BOOLEAN, Configure(s, on) PROVE AllInTime'
    <2>0. \A r \in Slots : generations[r] \in Nat
      BY TypeParts DEF AllTypes
    <2>1. \A r \in Slots : got'[r] = <<>> \/ (got'[r] = got[r] /\ generations'[r] = generations[r])
      BY <1>16, <2>0 DEF Configure, Bump
    <2> QED BY <2>1, InTimeKept
  <1>17. CASE SearchLeave
    <2>1. UNCHANGED <<got, generations>>
      BY <1>17 DEF SearchLeave, past, shared
    <2> QED BY <2>1, InTimeKept
  <1>18. CASE SearchRecv
    <2>1. UNCHANGED <<got, generations>>
      BY <1>18 DEF SearchRecv, past, shared
    <2> QED BY <2>1, InTimeKept
  <1>19. CASE SearchDone
    <2>1. UNCHANGED <<got, generations>>
      BY <1>19 DEF SearchDone, past, shared
    <2> QED BY <2>1, InTimeKept
  <1>20. ASSUME NEW t \in Threads, Leave(t) PROVE AllInTime'
    <2>1. UNCHANGED <<got, generations>>
      BY <1>20 DEF Leave, past, shared
    <2> QED BY <2>1, InTimeKept
  <1>21. ASSUME NEW t \in Threads, Recv(t) PROVE AllInTime'
    <2>1. UNCHANGED <<got, generations>>
      BY <1>21 DEF Recv, past, shared
    <2> QED BY <2>1, InTimeKept
  <1>22. ASSUME NEW t \in Threads, ProcessPacket(t) PROVE AllInTime'
    <2>1. UNCHANGED <<got, generations>>
      BY <1>22 DEF ProcessPacket, past, shared
    <2> QED BY <2>1, InTimeKept
  <1>23. ASSUME NEW t \in Threads, ProcessOther(t) PROVE AllInTime'
    <2>1. UNCHANGED <<got, generations>>
      BY <1>23 DEF ProcessOther, past, shared
    <2> QED BY <2>1, InTimeKept
  <1>24. ASSUME NEW t \in Threads, Output(t) PROVE AllInTime'
    <2>1. UNCHANGED <<got, generations>>
      BY <1>24 DEF Output, past, shared
    <2> QED BY <2>1, InTimeKept
  <1>25. CASE UNCHANGED vars
    <2>1. UNCHANGED <<got, generations>>
      BY <1>25 DEF vars, past, shared
    <2> QED BY <2>1, InTimeKept
  <1>26. First \in Slots
    BY SlotFacts
  <1> QED BY <1>1, <1>2, <1>3, <1>4, <1>5, <1>6, <1>7, <1>8, <1>9, <1>10, <1>11,
    <1>12, <1>13, <1>14, <1>15, <1>16, <1>17, <1>18, <1>19, <1>20, <1>21,
    <1>22, <1>23, <1>24, <1>25, <1>26 DEF Next, InCall, Free, Search, Realtime

(* Nothing was given at first.                                             *)
LEMMA InTimeInit ==
  ASSUME Init PROVE AllInTime
  <1>1. \A s \in Slots : got[s] = <<>>
    BY DEF Init
  <1>2. \A s \in Slots : <<>> \in Seq(InTime(s))
    OBVIOUS
  <1> QED BY <1>1, <1>2 DEF AllInTime

(* This is CurrentOnly.                                                    *)
LEMMA InTimeMeans ==
  ASSUME AllInTime PROVE CurrentOnly
  <1> SUFFICES ASSUME NEW s \in Slots, NEW i \in 1..Len(got[s]) PROVE got[s][i].of.gen = generations[s]
    BY DEF CurrentOnly
  <1>1. got[s] \in Seq(InTime(s))
    BY DEF AllInTime
  <1>2. got[s][i] \in InTime(s)
    BY <1>1, ElementOfSeq
  <1> QED BY <1>2 DEF InTime

-----------------------------------------------------------------------------
(* While they run, no thread ends and one deactivation is on its way at    *)
(* most.                                                                   *)
LEMMA AliveKept ==
  ASSUME Alive, ~stopping, \A u \in Threads : at'[u] = at[u] \/ at'[u] # "gone"
  PROVE  Alive'
  BY DEF Alive

(* No thread ends while the workers run.                                   *)
LEMMA AliveStep ==
  ASSUME TypeOK, Alive, [Next]_vars, ~stopping' PROVE Alive'
  <1>0. ~stopping
    BY Running
  <1> USE <1>0
  <1>1. CASE FinishPoll
    BY <1>1, AliveKept DEF FinishPoll, thread
  <1>2. CASE FinishEnd
    BY <1>2, AliveKept DEF FinishEnd, thread
  <1>3. CASE Page
    BY <1>3, AliveKept DEF Page, thread
  <1>4. CASE Retire
    BY <1>4, AliveKept DEF Retire, thread
  <1>5. CASE Clear
    BY <1>5, AliveKept DEF Clear, thread
  <1>6. CASE Ack
    BY <1>6, AliveKept DEF Ack, thread
  <1>7. CASE Notice
    BY <1>7, AliveKept DEF Notice, thread
  <1>8. CASE StopFailed
    BY <1>8, AliveKept DEF StopFailed, thread
  <1>9. CASE Joined
    BY <1>9, AliveKept DEF Joined, thread
  <1>10. CASE Poll
    BY <1>10, AliveKept DEF Poll, thread
  <1>11. CASE ResetSession
    BY <1>11, AliveKept DEF ResetSession, thread
  <1>12. CASE Drop
    BY <1>12, AliveKept DEF Drop, thread
  <1>13. ASSUME NEW then \in {"return", "page"}, NEW s \in Slots, Finish(then, s) PROVE Alive'
    BY <1>13, AliveKept DEF Finish, thread
  <1>14. ASSUME NEW s \in Slots, Submit(s) PROVE Alive'
    BY <1>14, AliveKept DEF Submit, thread
  <1>15. ASSUME NEW s \in Slots, Recapture(s) PROVE Alive'
    BY <1>15, AliveKept DEF Recapture, thread
  <1>16. ASSUME NEW s \in Slots, NEW on \in BOOLEAN, Configure(s, on) PROVE Alive'
    BY <1>16, AliveKept DEF Configure, thread
  <1>17. CASE SearchLeave
    BY <1>17, AliveKept DEF SearchLeave, thread
  <1>18. CASE SearchRecv
    BY <1>18, AliveKept DEF SearchRecv, thread
  <1>19. CASE SearchDone
    BY <1>19, AliveKept DEF SearchDone, thread
  <1>20. ASSUME NEW t \in Threads, Leave(t) PROVE Alive'
    BY <1>20, <1>0 DEF Leave, OnStopping
  <1>21. ASSUME NEW t \in Threads, Recv(t) PROVE Alive'
    <2>1. at \in [Threads -> {"recv", "work", "out", "leaving", "gone"}]
      BY TypeParts DEF AllTypes, AtType
    <2>2. at' = [at EXCEPT ![t] = "work"]
      BY <1>21 DEF Recv
    <2> QED BY <2>1, <2>2, AliveKept
  <1>22. ASSUME NEW t \in Threads, ProcessPacket(t) PROVE Alive'
    <2>1. at \in [Threads -> {"recv", "work", "out", "leaving", "gone"}]
      BY TypeParts DEF AllTypes, AtType
    <2>2. \E place \in {"recv", "out", "leaving"} : at' = [at EXCEPT ![t] = place]
      <3>1. Done(t) \/ \E o : Makes(t, o)
        BY <1>22 DEF ProcessPacket
      <3>2. CASE Done(t)
        BY <3>2 DEF Done, LoopTop
      <3>3. CASE \E o : Makes(t, o)
        BY <3>3 DEF Makes
      <3> QED BY <3>1, <3>2, <3>3
    <2> QED BY <2>1, <2>2, AliveKept
  <1>23. ASSUME NEW t \in Threads, ProcessOther(t) PROVE Alive'
    <2>1. at \in [Threads -> {"recv", "work", "out", "leaving", "gone"}]
      BY TypeParts DEF AllTypes, AtType
    <2>2. \E place \in {"recv", "out", "leaving"} : at' = [at EXCEPT ![t] = place]
      <3>1. Done(t) \/ \E o : Makes(t, o)
        BY <1>23 DEF ProcessOther
      <3>2. CASE Done(t)
        BY <3>2 DEF Done, LoopTop
      <3>3. CASE \E o : Makes(t, o)
        BY <3>3 DEF Makes
      <3> QED BY <3>1, <3>2, <3>3
    <2> QED BY <2>1, <2>2, AliveKept
  <1>24. ASSUME NEW t \in Threads, Output(t) PROVE Alive'
    <2>1. at \in [Threads -> {"recv", "work", "out", "leaving", "gone"}]
      BY TypeParts DEF AllTypes, AtType
    <2>2. Done(t)
      BY <1>24 DEF Output
    <2> QED BY <2>1, <2>2, AliveKept DEF Done, LoopTop
  <1>25. CASE UNCHANGED vars
    BY <1>25, AliveKept DEF vars, thread
  <1>26. First \in Slots
    BY SlotFacts
  <1> QED BY <1>1, <1>2, <1>3, <1>4, <1>5, <1>6, <1>7, <1>8, <1>9, <1>10, <1>11,
    <1>12, <1>13, <1>14, <1>15, <1>16, <1>17, <1>18, <1>19, <1>20, <1>21,
    <1>22, <1>23, <1>24, <1>25, <1>26 DEF Next, InCall, Free, Search, Realtime

(* Work of the kind.                                                       *)
Deactivate == {r \in Record : r.kind = "deactivate"}

(* The deactivations in line, in this state and the next.                  *)
LEMMA DeactsFacts ==
  /\ \A t : Deacts(t) = Among(Line(t), Deactivate)
  /\ \A t : Deacts(t)' = Among(Line(t)', Deactivate)
  /\ \A r : r \in Deactivate <=> (r \in Record /\ r.kind = "deactivate")
  BY DEF Deacts, Deactivate

(* No deactivation is in line while none is waited for.                    *)
LEMMA NoDeacts ==
  ASSUME Deactivations, ~stopping, call # "ack" \/ acked
  PROVE  /\ \A t \in Threads : Deacts(t) = <<>>
         /\ call # "ack" => ~acked
  BY DEF Deactivations

(* A step that leaves the lines, and the call that waits, alone.           *)
LEMMA DeactsKept ==
  ASSUME Deactivations, ~stopping, \A t \in Threads : Deacts(t)' = Deacts(t),
         \/ UNCHANGED <<call, target, acked, generations>>
         \/ call # "ack" /\ UNCHANGED acked
  PROVE  Deactivations'
  <1>1. CASE UNCHANGED <<call, target, acked, generations>>
    BY <1>1 DEF Deactivations
  <1>2. CASE call # "ack" /\ UNCHANGED acked
    BY <1>2, NoDeacts DEF Deactivations
  <1> QED BY <1>1, <1>2

(* Work of another kind that is sent is no deactivation.                   *)
LEMMA DeactsSent ==
  ASSUME TypeOK, NEW t \in Threads, NEW w \in Record, LineSent(t, w), w.kind # "deactivate"
  PROVE  \A u \in Threads : Deacts(u)' = Deacts(u)
  BY LineAmongSent, DeactsFacts DEF LineSent

(* Nor is work of another kind that is done.                               *)
LEMMA DeactsUsed ==
  ASSUME TypeOK, NEW t \in Threads, LineUsed(t), work[t].kind # "deactivate"
  PROVE  \A u \in Threads : Deacts(u)' = Deacts(u)
  BY LineAmongUsed, DeactsFacts DEF LineUsed

(* Every step keeps one deactivation at most, for the owner that waits for *)
(* it.                                                                     *)
LEMMA DeactivationsStep ==
  ASSUME TypeOK, Placed, Alive, Deactivations, [Next]_vars, ~stopping' PROVE Deactivations'
  <1>0. ~stopping
    BY Running
  <1> USE <1>0
  <1>1. CASE FinishPoll
    <2>1. LineSame /\ UNCHANGED acked /\ call # "ack"
      BY <1>1, LineKept DEF FinishPoll, owner, queues, thread
    <2> QED BY <2>1, DeactsFacts, DeactsKept DEF LineSame
  <1>2. CASE FinishEnd
    <2>1. LineSame /\ UNCHANGED acked /\ call # "ack"
      BY <1>2, LineKept DEF FinishEnd, owner, TakeOutputs, queues, thread
    <2> QED BY <2>1, DeactsFacts, DeactsKept DEF LineSame
  <1>3. CASE Page
    <2>1. target \in Slots /\ target % WORKERS \in Threads
      BY <1>3, SlotFacts DEF Page, Placed, Control
    <2> DEFINE w == Item("finish", target, generations[target], 0, 0)
    <2>2. w \in Record /\ w.kind # "deactivate"
      BY <2>1, PacketType DEF Item
    <2>3. /\ UNCHANGED <<at, work, acked>> /\ (SendTo(target % WORKERS, w) \/ UNCHANGED inputs)
          /\ call # "ack"
      BY <1>3 DEF Page, thread
    <2> HIDE DEF w
    <2>4. LineSent(target % WORKERS, w) \/ LineSame
      BY <2>1, <2>2, <2>3, LineSends, LineKept
    <2>5. \A u \in Threads : Deacts(u)' = Deacts(u)
      BY <2>1, <2>2, <2>4, DeactsSent, DeactsFacts DEF LineSame
    <2> QED BY <2>3, <2>5, DeactsKept
  <1>4. CASE Retire
    <2>1. LineSame /\ UNCHANGED acked /\ call # "ack"
      BY <1>4, LineKept DEF Retire, owner, queues, thread
    <2> QED BY <2>1, DeactsFacts, DeactsKept DEF LineSame
  <1>5. CASE Clear
    <2>1. target \in Slots /\ target % WORKERS \in Threads
      BY <1>5, SlotFacts DEF Clear, Placed, Control
    <2> DEFINE w == Item("deactivate", target, generations[target], 0, 0)
    <2>2. w \in Deactivate /\ w \in Record
      BY <2>1, PacketType, DeactsFacts DEF Item
    <2>3. /\ UNCHANGED <<at, work, acked, generations, target>> /\ call # "ack"
          /\ (SendTo(target % WORKERS, w) /\ call' = "ack") \/ UNCHANGED inputs
      BY <1>5 DEF Clear, thread, AfterBump
    <2>4. CASE UNCHANGED inputs
      <3>1. LineSame
        BY <2>3, <2>4, LineKept
      <3> QED BY <2>3, <3>1, DeactsFacts, DeactsKept DEF LineSame
    <2>5. CASE SendTo(target % WORKERS, w) /\ call' = "ack"
      <3>1. PICK u \in Threads, v \in Record : u = target % WORKERS /\ v = w
        BY <2>1, <2>2
      <3>2. LineSent(u, v)
        BY <2>3, <2>5, <3>1, LineSends
      <3>3. ~acked /\ \A r \in Threads : Deacts(r) = <<>>
        BY <2>3, NoDeacts
      <3>4. v \in Deactivate /\ Append(<<>>, v) = <<v>>
        BY <2>2, <3>1
      <3>5. Deacts(u)' = Append(Deacts(u), v)
        BY <3>2, <3>4, LineAmongSent, DeactsFacts
      <3>6. Deacts(u)' = <<v>>
        BY <3>3, <3>4, <3>5
      <3>7. \A r \in Threads \ {u} : Deacts(r)' = <<>>
        BY <3>2, <3>3, DeactsFacts DEF LineSent
      <3>8. v = Item("deactivate", target', generations'[target'], 0, 0) /\ u = target' % WORKERS
        BY <2>3, <3>1
      <3>9. \A r \in Threads :
              Deacts(r)' = <<>> \/ (r = target' % WORKERS /\ Deacts(r)' = <<v>>)
        BY <3>6, <3>7, <3>8
      <3> QED BY <2>3, <2>5, <3>3, <3>8, <3>9 DEF Deactivations
    <2> QED BY <2>3, <2>4, <2>5
  <1>6. CASE Ack
    <2>1. target \in Slots /\ target % WORKERS \in Threads
      BY <1>6, SlotFacts DEF Ack, Placed, Control
    <2>2. acked /\ acked' = FALSE
      BY <1>6, <2>1 DEF Ack, Alive
    <2>3. LineSame
      BY <1>6, LineKept DEF Ack, queues, thread
    <2>4. \A u \in Threads : Deacts(u)' = <<>>
      BY <2>2, <2>3, NoDeacts, DeactsFacts DEF LineSame
    <2> QED BY <2>2, <2>4 DEF Deactivations
  <1>7. CASE Notice
    <2>1. LineSame /\ UNCHANGED acked /\ call # "ack"
      BY <1>7, LineKept DEF Notice, owner, queues, thread
    <2> QED BY <2>1, DeactsFacts, DeactsKept DEF LineSame
  <1>8. CASE StopFailed
    BY <1>8 DEF StopFailed
  <1>9. CASE Joined
    <2>1. LineSame /\ UNCHANGED acked /\ call # "ack"
      BY <1>9, LineKept DEF Joined, owner, queues, thread
    <2> QED BY <2>1, DeactsFacts, DeactsKept DEF LineSame
  <1>10. CASE Poll
    <2>1. LineSame /\ UNCHANGED acked /\ call # "ack"
      BY <1>10, LineKept DEF Poll, owner, TakeOutputs, queues, thread
    <2> QED BY <2>1, DeactsFacts, DeactsKept DEF LineSame
  <1>11. CASE ResetSession
    <2>1. LineSame /\ UNCHANGED acked /\ call # "ack"
      BY <1>11, LineKept DEF ResetSession, owner, queues, thread
    <2> QED BY <2>1, DeactsFacts, DeactsKept DEF LineSame
  <1>12. CASE Drop
    BY <1>12 DEF Drop
  <1>13. ASSUME NEW then \in {"return", "page"}, NEW s \in Slots, Finish(then, s) PROVE Deactivations'
    <2>1. LineSame /\ UNCHANGED acked /\ call # "ack"
      BY <1>13, LineKept DEF Finish, owner, queues, thread
    <2> QED BY <2>1, DeactsFacts, DeactsKept DEF LineSame
  <1>14. ASSUME NEW s \in Slots, Submit(s) PROVE Deactivations'
    <2>1. s % WORKERS \in Threads /\ NextPacket(s) \in Record /\ NextPacket(s).kind # "deactivate"
      BY SlotFacts, PacketType DEF NextPacket, Item
    <2>2. SendTo(s % WORKERS, NextPacket(s)) /\ UNCHANGED <<at, work, acked>> /\ call # "ack"
      BY <1>14 DEF Submit, thread, NextPacket, Fail
    <2>3. \A u \in Threads : Deacts(u)' = Deacts(u)
      BY <2>1, <2>2, LineSends, DeactsSent
    <2> QED BY <2>2, <2>3, DeactsKept
  <1>15. ASSUME NEW s \in Slots, Recapture(s) PROVE Deactivations'
    <2>1. LineSame /\ UNCHANGED acked /\ call # "ack"
      BY <1>15, LineKept DEF Recapture, owner, queues, thread
    <2> QED BY <2>1, DeactsFacts, DeactsKept DEF LineSame
  <1>16. ASSUME NEW s \in Slots, NEW on \in BOOLEAN, Configure(s, on) PROVE Deactivations'
    <2>1. LineSame /\ UNCHANGED acked /\ call # "ack"
      BY <1>16, LineKept DEF Configure, owner, queues, thread
    <2> QED BY <2>1, DeactsFacts, DeactsKept DEF LineSame
  <1>17. CASE SearchLeave
    <2>1. LineSame /\ UNCHANGED <<call, target, acked, generations>>
      BY <1>17, LineKept DEF SearchLeave, owner, queues, thread, shared, past
    <2> QED BY <2>1, DeactsFacts, DeactsKept DEF LineSame
  <1>18. CASE SearchRecv
    <2>1. LineSame /\ UNCHANGED <<call, target, acked, generations>>
      BY <1>18, LineKept DEF SearchRecv, owner, queues, thread, shared, past
    <2> QED BY <2>1, DeactsFacts, DeactsKept DEF LineSame
  <1>19. CASE SearchDone
    <2>1. job \in Record /\ job.kind # "deactivate" /\ job.slot % WORKERS \in Threads
      BY <1>19, SlotFacts, TypeParts DEF SearchDone, Placed, JobsKnown, Known, AllTypes
    <2>2. /\ UNCHANGED <<at, work>> /\ (SendTo(job.slot % WORKERS, job) \/ UNCHANGED inputs)
          /\ UNCHANGED <<call, target, acked, generations>>
      BY <1>19 DEF SearchDone, thread, owner
    <2>3. LineSent(job.slot % WORKERS, job) \/ LineSame
      BY <2>1, <2>2, LineSends, LineKept
    <2>4. \A u \in Threads : Deacts(u)' = Deacts(u)
      BY <2>1, <2>3, DeactsSent, DeactsFacts DEF LineSame
    <2> QED BY <2>2, <2>4, DeactsKept
  <1>20. ASSUME NEW t \in Threads, Leave(t) PROVE Deactivations'
    BY <1>20 DEF Leave, OnStopping
  <1>21. ASSUME NEW t \in Threads, Recv(t) PROVE Deactivations'
    <2>1. LineSame /\ UNCHANGED <<call, target, acked, generations>>
      BY <1>21, LineReceives DEF Recv, owner, queues, thread, shared, past
    <2> QED BY <2>1, DeactsFacts, DeactsKept DEF LineSame
  <1>22. ASSUME NEW t \in Threads, ProcessPacket(t) PROVE Deactivations'
    <2>1. /\ LineUsed(t) /\ work[t].kind # "deactivate"
          /\ UNCHANGED <<call, target, acked, generations>>
      BY <1>22, PacketUsed DEF ProcessPacket, owner
    <2> QED BY <2>1, DeactsUsed, DeactsKept
  <1>23. ASSUME NEW t \in Threads, ProcessOther(t) PROVE Deactivations'
    <2>1. LineUsed(t) /\ at[t] = "work" /\ UNCHANGED <<call, target, generations>>
      BY <1>23, PacketUsed DEF ProcessOther, shared
    <2>2. CASE work[t].kind # "deactivate"
      <3>1. UNCHANGED acked
        BY <1>23, <2>2 DEF ProcessOther
      <3> QED BY <2>1, <2>2, <3>1, DeactsUsed, DeactsKept
    <2>3. CASE work[t].kind = "deactivate"
      <3>1. call = "ack" /\ ~acked /\ t = target % WORKERS /\ Deacts(t) = <<work[t]>>
        BY <2>1, <2>3, DeactivationKnown
      <3>2. \A u \in Threads \ {t} : Deacts(u)' = <<>>
        <4>1. \A u \in Threads \ {t} : Deacts(u) = <<>>
          BY <3>1 DEF Deactivations
        <4> QED BY <2>1, <4>1, DeactsFacts DEF LineUsed
      <3>3. Deacts(t)' = <<>>
        <4>1. work[t] \in Deactivate
          BY <2>1, <2>3, LineType, DeactsFacts
        <4>2. Deacts(t)' = Tail(Deacts(t))
          BY <2>1, <4>1, LineAmongUsed, DeactsFacts
        <4>3. \A x : Tail(<<x>>) = <<>>
          OBVIOUS
        <4> QED BY <3>1, <4>2, <4>3
      <3> QED BY <2>1, <3>1, <3>2, <3>3 DEF Deactivations
    <2> QED BY <2>2, <2>3
  <1>24. ASSUME NEW t \in Threads, Output(t) PROVE Deactivations'
    <2>1. LineSame /\ UNCHANGED <<call, target, acked, generations>>
      BY <1>24, LineOutput DEF Output, owner, queues, thread, shared, past
    <2> QED BY <2>1, DeactsFacts, DeactsKept DEF LineSame
  <1>25. CASE UNCHANGED vars
    <2>1. LineSame /\ UNCHANGED <<call, target, acked, generations>>
      BY <1>25, LineKept DEF vars, owner, queues, thread, shared, past
    <2> QED BY <2>1, DeactsFacts, DeactsKept DEF LineSame
  <1>26. First \in Slots
    BY SlotFacts
  <1> QED BY <1>1, <1>2, <1>3, <1>4, <1>5, <1>6, <1>7, <1>8, <1>9, <1>10, <1>11,
    <1>12, <1>13, <1>14, <1>15, <1>16, <1>17, <1>18, <1>19, <1>20, <1>21,
    <1>22, <1>23, <1>24, <1>25, <1>26 DEF Next, InCall, Free, Search, Realtime

-----------------------------------------------------------------------------
(* A slot whose call waits for its threads has no packet left and a new    *)
(* stream.                                                                 *)
LEMMA FreshKept ==
  ASSUME NEW s \in Slots, Fresh(s), SlotStep(s), ~Submit(s)
  PROVE  Fresh(s)'
  BY DEF Fresh, SlotStep, SlotKept, StreamKept, SlotSubmitted, SlotRecaptured,
         SlotBumped, SlotProcessed, SlotForgotten

(* A bump leaves a slot without packets, at the start of a stream.         *)
LEMMA FreshBumped ==
  ASSUME NEW s \in Slots, SlotBumped(s)
  PROVE  Fresh(s)'
  BY DEF Fresh, SlotBumped

(* A step that leaves the owner where it is, or takes it to a call that    *)
(* waits for nothing.                                                      *)
LEMMA QuietKept ==
  ASSUME Control, Quiet, ~stopping, \A s \in Slots : SlotStep(s) /\ ~Submit(s),
         \/ UNCHANGED <<call, target, after>>
         \/ call' \notin {"retire", "clear", "ack", "finish"}
         \/ call' = "finish" /\ after' \in {"return", "page"}
  PROVE  Quiet'
  <1>1. \A s \in Slots : Fresh(s) => Fresh(s)'
    BY FreshKept
  <1>2. CASE UNCHANGED <<call, target, after>>
    <2>1. call \in {"retire", "clear", "ack"} => Fresh(target)'
      <3>1. ASSUME call \in {"retire", "clear", "ack"} PROVE Fresh(target)'
        <4>1. PICK s \in Slots : s = target
          BY <3>1 DEF Control
        <4>2. Fresh(s)'
          BY <1>1, <3>1, <4>1 DEF Quiet
        <4> QED BY <1>2, <4>1, <4>2 DEF Fresh
      <3> QED BY <3>1
    <2>2. Resetting => \A s \in Slots : Fresh(s)'
      BY <1>1 DEF Quiet
    <2> QED BY <1>2, <2>1, <2>2 DEF Quiet, Resetting
  <1>3. CASE call' \notin {"retire", "clear", "ack", "finish"}
    BY <1>3 DEF Quiet, Resetting
  <1>4. CASE call' = "finish" /\ after' \in {"return", "page"}
    BY <1>4 DEF Quiet, Resetting
  <1> QED BY <1>2, <1>3, <1>4

(* Every step keeps quiet the slots that a call waits for.                 *)
LEMMA QuietStep ==
  ASSUME TypeOK, Placed, Deactivations, Quiet, [Next]_vars, ~stopping' PROVE Quiet'
  <1>0. ~stopping /\ Control /\ LinesKnown /\ \A s \in Slots : SlotStep(s)
    BY Running, SlotSteps DEF Placed
  <1> USE <1>0
  <1>1. CASE FinishPoll
    <2>1. /\ \A s \in Slots : ~Submit(s)
          /\ \/ UNCHANGED <<call, target, after>>
             \/ call' \notin {"retire", "clear", "ack", "finish"}
             \/ call' = "finish" /\ after' \in {"return", "page"}
      BY <1>1 DEF FinishPoll, Submit, owner
    <2> QED BY <2>1, QuietKept
  <1>2. CASE FinishEnd
    <2>1. call # "idle" /\ \A s \in Slots : ~Submit(s)
      BY <1>2 DEF FinishEnd, Submit
    <2>2. \A s \in Slots : Fresh(s) => Fresh(s)'
      BY <2>1, FreshKept
    <2>3. CASE after = "session" /\ call' = "clear"
      <3>1. target' \in Slots /\ \A s \in Slots : Fresh(s)'
        BY <1>2, <2>2, <2>3, SlotFacts DEF FinishEnd, Quiet, Resetting
      <3>2. Fresh(target)'
        BY <3>1 DEF Fresh
      <3> QED BY <3>1, <3>2 DEF Quiet, Resetting
    <2>4. CASE call' \in {"idle", "page"}
      BY <2>4 DEF Quiet, Resetting
    <2> QED BY <1>2, <2>3, <2>4 DEF FinishEnd, Return
  <1>3. CASE Page
    <2>1. /\ \A s \in Slots : ~Submit(s)
          /\ \/ UNCHANGED <<call, target, after>>
             \/ call' \notin {"retire", "clear", "ack", "finish"}
             \/ call' = "finish" /\ after' \in {"return", "page"}
      BY <1>3 DEF Page, Submit, owner
    <2> QED BY <2>1, QuietKept
  <1>4. CASE Retire
    <2>1. call # "idle" /\ \A s \in Slots : ~Submit(s)
      BY <1>4 DEF Retire, Submit
    <2>2. \A s \in Slots : Fresh(s) => Fresh(s)'
      BY <2>1, FreshKept
    <2>3. CASE call' = "clear" /\ target' = target /\ after' = "disable"
      <3>1. PICK s \in Slots : s = target
        BY <1>4 DEF Control, Retire
      <3>2. Fresh(s)'
        BY <1>4, <2>2, <3>1 DEF Retire, Quiet, Resetting
      <3>3. Fresh(target)'
        BY <2>3, <3>1, <3>2 DEF Fresh
      <3> QED BY <2>3, <3>3 DEF Quiet, Resetting
    <2>4. CASE UNCHANGED <<call, target, after>>
      BY <2>1, <2>4, QuietKept
    <2>5. CASE call' = "idle"
      BY <2>5 DEF Quiet, Resetting
    <2> QED BY <1>4, <2>3, <2>4, <2>5 DEF Retire, Return
  <1>5. CASE Clear
    <2>1. call # "idle" /\ \A s \in Slots : ~Submit(s)
      BY <1>5 DEF Clear, Submit
    <2>2. \A s \in Slots : Fresh(s) => Fresh(s)'
      BY <2>1, FreshKept
    <2>3. call' \in {"ack", "failed"} /\ target' = target /\ after' = after /\ call = "clear"
      BY <1>5 DEF Clear
    <2>4. PICK s \in Slots : s = target
      BY <2>3 DEF Control
    <2>5. Fresh(s)'
      BY <2>2, <2>3, <2>4 DEF Quiet, Resetting
    <2>6. Fresh(target)'
      BY <2>3, <2>4, <2>5 DEF Fresh
    <2>7. after = "session" => \A r \in Slots : Fresh(r)'
      BY <2>2, <2>3 DEF Quiet, Resetting
    <2> QED BY <2>3, <2>6, <2>7 DEF Quiet, Resetting
  <1>6. CASE Ack
    <2>1. call # "idle" /\ \A s \in Slots : ~Submit(s)
      BY <1>6 DEF Ack, Submit
    <2>2. \A s \in Slots : Fresh(s) => Fresh(s)'
      BY <2>1, FreshKept
    <2>3. CASE after = "session" /\ call' = "clear" /\ target' = NextSlot(target) /\ ~IsLast(target)
      <3>1. target' \in Slots /\ \A s \in Slots : Fresh(s)'
        BY <1>6, <2>2, <2>3, SlotFacts DEF Ack, Quiet, Resetting, Control
      <3>2. Fresh(target)'
        BY <3>1 DEF Fresh
      <3> QED BY <3>1, <3>2 DEF Quiet, Resetting
    <2>4. CASE call' \in {"idle", "failed"}
      BY <2>4 DEF Quiet, Resetting
    <2>5. CASE call' = "finish" /\ after = "session"
      <3>1. \A s \in Slots : Fresh(s)'
        BY <1>6, <2>2, <2>5 DEF Ack, Quiet, Resetting
      <3> QED BY <2>5, <3>1 DEF Quiet, Resetting
    <2> QED BY <1>6, <2>3, <2>4, <2>5 DEF Ack, Return
  <1>7. CASE Notice
    <2>1. /\ \A s \in Slots : ~Submit(s)
          /\ \/ UNCHANGED <<call, target, after>>
             \/ call' \notin {"retire", "clear", "ack", "finish"}
             \/ call' = "finish" /\ after' \in {"return", "page"}
      BY <1>7 DEF Notice, Submit, owner
    <2> QED BY <2>1, QuietKept
  <1>8. CASE StopFailed
    BY <1>8 DEF StopFailed
  <1>9. CASE Joined
    <2>1. /\ \A s \in Slots : ~Submit(s)
          /\ \/ UNCHANGED <<call, target, after>>
             \/ call' \notin {"retire", "clear", "ack", "finish"}
             \/ call' = "finish" /\ after' \in {"return", "page"}
      BY <1>9 DEF Joined, Submit, owner
    <2> QED BY <2>1, QuietKept
  <1>10. CASE Poll
    <2>1. call' \notin {"retire", "clear", "ack", "finish"}
      BY <1>10 DEF Poll, owner
    <2> QED BY <2>1 DEF Quiet, Resetting
  <1>11. CASE ResetSession
    <2>1. LineSame /\ UNCHANGED states /\ Bump(Slots) /\ call' = "finish"
      BY <1>11, LineKept DEF ResetSession, queues, thread
    <2>2. \A s \in Slots : Fresh(s)'
      BY <2>1, BumpEffect, FreshBumped
    <2> QED BY <2>1, <2>2 DEF Quiet, Resetting
  <1>12. CASE Drop
    BY <1>12 DEF Drop
  <1>13. ASSUME NEW then \in {"return", "page"}, NEW s \in Slots, Finish(then, s) PROVE Quiet'
    <2>1. call' = "finish" /\ after' \in {"return", "page"}
      BY <1>13 DEF Finish
    <2> QED BY <2>1 DEF Quiet, Resetting
  <1>14. ASSUME NEW s \in Slots, Submit(s) PROVE Quiet'
    <2>1. call' \notin {"retire", "clear", "ack", "finish"}
      BY <1>14 DEF Submit
    <2> QED BY <2>1 DEF Quiet, Resetting
  <1>15. ASSUME NEW s \in Slots, Recapture(s) PROVE Quiet'
    <2>1. call' \notin {"retire", "clear", "ack", "finish"}
      BY <1>15 DEF Recapture, owner
    <2> QED BY <2>1 DEF Quiet, Resetting
  <1>16. ASSUME NEW s \in Slots, NEW on \in BOOLEAN, Configure(s, on) PROVE Quiet'
    <2>1. /\ LineSame /\ UNCHANGED states /\ Bump({s})
          /\ call' = "retire" /\ after' # "session" /\ target' = s
      BY <1>16, LineKept DEF Configure, queues, thread
    <2>2. Fresh(s)'
      BY <2>1, BumpEffect, FreshBumped
    <2>3. Fresh(target)'
      BY <2>1, <2>2 DEF Fresh
    <2> QED BY <2>1, <2>3 DEF Quiet, Resetting
  <1>17. CASE SearchLeave
    <2>1. UNCHANGED <<call, target, after, submits>>
      BY <1>17 DEF SearchLeave, owner, bounds
    <2>2. \A s \in Slots : ~Submit(s)
      BY <2>1, TypeParts DEF Submit, AllTypes, BoundsType
    <2> QED BY <2>1, <2>2, QuietKept
  <1>18. CASE SearchRecv
    <2>1. UNCHANGED <<call, target, after, submits>>
      BY <1>18 DEF SearchRecv, owner, bounds
    <2>2. \A s \in Slots : ~Submit(s)
      BY <2>1, TypeParts DEF Submit, AllTypes, BoundsType
    <2> QED BY <2>1, <2>2, QuietKept
  <1>19. CASE SearchDone
    <2>1. UNCHANGED <<call, target, after, submits>>
      BY <1>19 DEF SearchDone, owner, bounds
    <2>2. \A s \in Slots : ~Submit(s)
      BY <2>1, TypeParts DEF Submit, AllTypes, BoundsType
    <2> QED BY <2>1, <2>2, QuietKept
  <1>20. ASSUME NEW t \in Threads, Leave(t) PROVE Quiet'
    BY <1>20 DEF Leave, OnStopping
  <1>21. ASSUME NEW t \in Threads, Recv(t) PROVE Quiet'
    <2>1. UNCHANGED <<call, target, after, submits>>
      BY <1>21 DEF Recv, owner, bounds
    <2>2. \A s \in Slots : ~Submit(s)
      BY <2>1, TypeParts DEF Submit, AllTypes, BoundsType
    <2> QED BY <2>1, <2>2, QuietKept
  <1>22. ASSUME NEW t \in Threads, ProcessPacket(t) PROVE Quiet'
    <2>1. UNCHANGED <<call, target, after, submits>>
      BY <1>22 DEF ProcessPacket, owner, bounds
    <2>2. \A s \in Slots : ~Submit(s)
      BY <2>1, TypeParts DEF Submit, AllTypes, BoundsType
    <2> QED BY <2>1, <2>2, QuietKept
  <1>23. ASSUME NEW t \in Threads, ProcessOther(t) PROVE Quiet'
    <2>1. UNCHANGED <<call, target, after, submits>>
      BY <1>23 DEF ProcessOther, owner, bounds
    <2>2. \A s \in Slots : ~Submit(s)
      BY <2>1, TypeParts DEF Submit, AllTypes, BoundsType
    <2> QED BY <2>1, <2>2, QuietKept
  <1>24. ASSUME NEW t \in Threads, Output(t) PROVE Quiet'
    <2>1. UNCHANGED <<call, target, after, submits>>
      BY <1>24 DEF Output, owner, bounds
    <2>2. \A s \in Slots : ~Submit(s)
      BY <2>1, TypeParts DEF Submit, AllTypes, BoundsType
    <2> QED BY <2>1, <2>2, QuietKept
  <1>25. CASE UNCHANGED vars
    <2>1. UNCHANGED <<call, target, after, submits>>
      BY <1>25 DEF vars, owner, bounds
    <2>2. \A s \in Slots : ~Submit(s)
      BY <2>1, TypeParts DEF Submit, AllTypes, BoundsType
    <2> QED BY <2>1, <2>2, QuietKept
  <1>26. First \in Slots
    BY SlotFacts
  <1> QED BY <1>1, <1>2, <1>3, <1>4, <1>5, <1>6, <1>7, <1>8, <1>9, <1>10, <1>11,
    <1>12, <1>13, <1>14, <1>15, <1>16, <1>17, <1>18, <1>19, <1>20, <1>21,
    <1>22, <1>23, <1>24, <1>25, <1>26 DEF Next, InCall, Free, Search, Realtime

-----------------------------------------------------------------------------
(* The identities and numbers of the packets in line continue each other   *)
(* and the receiver's state, up to the packet the source gives next.       *)
LEMMA SlotTypes ==
  ASSUME TypeOK, NEW s \in Slots
  PROVE  /\ generations[s] \in Nat /\ source[s] \in Position /\ states[s] \in ChannelState
         /\ source[s].id \in Nat /\ source[s].seq \in Nat
         /\ states[s].gen \in Nat /\ states[s].id \in Nat /\ states[s].next \in Nat
  <1>1. generations[s] \in Nat /\ source[s] \in Position /\ states[s] \in ChannelState
    BY TypeParts DEF AllTypes, HistoryType
  <1> QED BY <1>1, RecordType

(* The fields of the next packet.                                          *)
LEMMA PacketOf ==
  /\ \A s : NextPacket(s).id = source[s].id /\ NextPacket(s).seq = source[s].seq
  /\ \A s : (NextPacket(s).id)' = source'[s].id /\ (NextPacket(s).seq)' = source'[s].seq
  BY DEF NextPacket, Item

(* Every step keeps the identities and generations of a slot in their      *)
(* order.                                                                  *)
LEMMA NumberedStep ==
  ASSUME TypeOK, NEW s \in Slots, Numbered(s), SlotStep(s)
  PROVE  Numbered(s)'
  <1> DEFINE q == IqLine(s)
  <1>1. q \in Seq(Record) /\ NextPacket(s) \in Record
    BY IqLineType, PacketType DEF NextPacket
  <1>2. \A r \in Record : r.id \in Nat /\ r.seq \in Nat
    BY RecordType
  <1>3. /\ generations[s] \in Nat /\ source[s].id \in Nat
        /\ states[s].gen \in Nat /\ states[s].id \in Nat
    BY SlotTypes
  <1>4. /\ generations[s] > 0 /\ source[s].id > 0
        /\ states[s].gen <= generations[s] /\ states[s].id <= source[s].id
        /\ \A i \in 1..Len(q) : q[i].id <= source[s].id
    BY DEF Numbered
  <1>5. \A i \in 1..Len(q) : q[i].id \in Nat
    BY <1>1, <1>2, ElementOfSeq
  <1>6. CASE SlotKept(s)
    BY <1>6 DEF SlotKept, StreamKept, Numbered
  <1>7. CASE SlotSubmitted(s)
    <2>1. /\ source'[s].id = source[s].id /\ generations'[s] = generations[s]
          /\ states'[s] = states[s] /\ IqLine(s)' = Append(q, NextPacket(s))
      BY <1>7, SlotTypes DEF SlotSubmitted, Position
    <2>2. \A i \in 1..Len(Append(q, NextPacket(s))) : Append(q, NextPacket(s))[i].id <= source[s].id
      <3> HIDE DEF q
      <3>1. \A i \in 1..Len(Append(q, NextPacket(s))) :
              \/ Append(q, NextPacket(s))[i] = NextPacket(s)
              \/ i \in 1..Len(q) /\ Append(q, NextPacket(s))[i] = q[i]
        BY <1>1
      <3> QED BY <1>3, <1>4, <3>1, PacketOf
    <2> QED BY <1>4, <2>1, <2>2 DEF Numbered
  <1>8. CASE SlotRecaptured(s)
    <2>1. /\ source'[s].id = source[s].id + 1 /\ generations'[s] = generations[s]
          /\ states'[s] = states[s] /\ IqLine(s)' = q
      BY <1>8 DEF SlotRecaptured
    <2> HIDE DEF q
    <2>2. \A i \in 1..Len(q) : q[i].id <= source[s].id + 1
      BY <1>3, <1>4, <1>5
    <2> QED BY <1>3, <1>4, <2>1, <2>2 DEF Numbered
  <1>9. CASE SlotBumped(s)
    <2>1. /\ source'[s].id = source[s].id + 1 /\ generations'[s] = generations[s] + 1
          /\ states'[s] = states[s] /\ IqLine(s)' = <<>>
      BY <1>9 DEF SlotBumped
    <2>2. \A i \in 1..Len(IqLine(s)') : FALSE
      BY <2>1
    <2> QED BY <1>3, <1>4, <2>1, <2>2 DEF Numbered
  <1>10. CASE SlotProcessed(s)
    <2>1. /\ source'[s] = source[s] /\ generations'[s] = generations[s]
          /\ states'[s].gen = generations[s] /\ states'[s].id = Head(q).id
          /\ q # <<>> /\ IqLine(s)' = Tail(q)
      BY <1>10 DEF SlotProcessed, StreamKept
    <2> HIDE DEF q
    <2>2. Head(q) = q[1] /\ 1 \in 1..Len(q)
      BY <1>1, <2>1
    <2>3. \A i \in 1..Len(Tail(q)) : i + 1 \in 1..Len(q) /\ Tail(q)[i] = q[i + 1]
      BY <1>1, <2>1
    <2>4. states'[s].id <= source[s].id /\ \A i \in 1..Len(Tail(q)) : Tail(q)[i].id <= source[s].id
      BY <1>4, <2>1, <2>2, <2>3
    <2> QED BY <1>3, <1>4, <2>1, <2>4 DEF Numbered
  <1>11. CASE SlotForgotten(s)
    <2>1. /\ source'[s] = source[s] /\ generations'[s] = generations[s]
          /\ states'[s].gen = 0 /\ states'[s].id = 0 /\ IqLine(s)' = q
      BY <1>11 DEF SlotForgotten, StreamKept, NoState
    <2> QED BY <1>3, <1>4, <2>1 DEF Numbered
  <1> QED BY <1>6, <1>7, <1>8, <1>9, <1>10, <1>11 DEF SlotStep

(* The packets that are to come, as functions of their places.             *)
LEMMA ComingFacts ==
  ASSUME NEW q \in Seq(Record), NEW n \in Record
  PROVE  /\ Append(q, n) \in Seq(Record) /\ Len(Append(q, n)) = Len(q) + 1 /\ Len(q) \in Nat
         /\ \A i \in 1..Len(q) : Append(q, n)[i] = q[i] /\ q[i] \in Record
         /\ Append(q, n)[Len(q) + 1] = n
         /\ q # <<>> => Len(q) > 0 /\ Append(q, n)[1] = q[1] /\ q[1] = Head(q)
         /\ q = <<>> => Len(q) = 0 /\ Append(q, n)[1] = n
         /\ q # <<>> => Append(Tail(q), n) = Tail(Append(q, n))
  <1>1. q # <<>> => Append(Tail(q), n) = Tail(Append(q, n))
    <2>1. ASSUME q # <<>> PROVE Append(Tail(q), n) = Tail(Append(q, n))
      <3> HIDE DEF Record
      <3> QED BY <2>1
    <2> QED BY <2>1
  <1> HIDE DEF Record
  <1> QED BY <1>1

(* Every step of a slot keeps the packets that are to come continuous.     *)
LEMMA ContinuesStep ==
  ASSUME TypeOK, NEW s \in Slots, Numbered(s), Continues(s), SlotStep(s),
         SlotForgotten(s) => Fresh(s)
  PROVE  Continues(s)'
  <1> DEFINE q == IqLine(s)
             n == NextPacket(s)
             c == Append(q, n)
  <1>1. q \in Seq(Record) /\ n \in Record
    BY IqLineType, PacketType DEF NextPacket
  <1>2. \A r \in Record : r.id \in Nat /\ r.seq \in Nat
    BY RecordType
  <1>3. /\ generations[s] \in Nat /\ source[s].id \in Nat /\ source[s].seq \in Nat
        /\ states[s].gen \in Nat /\ states[s].id \in Nat /\ states[s].next \in Nat
    BY SlotTypes
  <1>4. /\ generations[s] > 0 /\ source[s].id > 0
        /\ states[s].gen <= generations[s] /\ states[s].id <= source[s].id
        /\ \A i \in 1..Len(q) : q[i].id <= source[s].id
    BY DEF Numbered
  <1>5. /\ \A i \in 1..(Len(c) - 1) : Follows(c[i].id, c[i].seq + 1, c[i + 1])
        /\ IF states[s].gen = generations[s]
           THEN Follows(states[s].id, states[s].next, c[1])
           ELSE c[1].id > states[s].id /\ c[1].seq = 0
    BY DEF Continues, Coming
  <1>6. n.id = source[s].id /\ n.seq = source[s].seq
    BY PacketOf
  <1>7. /\ c \in Seq(Record) /\ Len(c) = Len(q) + 1 /\ Len(q) \in Nat
        /\ \A i \in 1..Len(q) : c[i] = q[i] /\ q[i] \in Record
        /\ c[Len(q) + 1] = n
        /\ q # <<>> => Len(q) > 0 /\ c[1] = q[1] /\ q[1] = Head(q)
        /\ q = <<>> => Len(q) = 0 /\ c[1] = n
        /\ q # <<>> => Append(Tail(q), n) = Tail(c)
    BY <1>1, ComingFacts
  <1>8. Continues(s)' <=>
          /\ \A i \in 1..(Len(Coming(s)') - 1) :
               Follows(Coming(s)'[i].id, Coming(s)'[i].seq + 1, Coming(s)'[i + 1])
          /\ IF states'[s].gen = generations'[s]
             THEN Follows(states'[s].id, states'[s].next, Coming(s)'[1])
             ELSE Coming(s)'[1].id > states'[s].id /\ Coming(s)'[1].seq = 0
    BY DEF Continues, Follows
  <1>9. Coming(s)' = Append(IqLine(s)', NextPacket(s)')
    BY DEF Coming
  <1>10. /\ NextPacket(s)' = Item("iq", s, generations'[s], source'[s].id, source'[s].seq)
         /\ NextPacket(s)'.id = source'[s].id /\ NextPacket(s)'.seq = source'[s].seq
    BY DEF NextPacket, Item
  <1>11. \A kind \in {"iq"} : \A g, id, seq \in Nat : Item(kind, s, g, id, seq) \in Record
    BY RecordType, SlotFacts
  <1>12. CASE SlotKept(s)
    <2>1. Coming(s)' = c /\ states'[s] = states[s] /\ generations'[s] = generations[s]
      BY <1>9, <1>10, <1>12 DEF SlotKept, StreamKept, NextPacket
    <2> QED BY <1>5, <1>8, <2>1
  <1>13. CASE SlotSubmitted(s)
    <2> DEFINE m == NextPacket(s)'
    <2>1. /\ source'[s].id = source[s].id /\ source'[s].seq = source[s].seq + 1
          /\ generations'[s] = generations[s] /\ states'[s] = states[s] /\ IqLine(s)' = c
      BY <1>13, SlotTypes DEF SlotSubmitted, Position
    <2>2. m \in Record /\ m.id = n.id /\ m.seq = n.seq + 1 /\ Coming(s)' = Append(c, m)
      BY <1>3, <1>6, <1>9, <1>10, <1>11, <2>1
    <2> HIDE DEF m, n, c, q
    <2>3. /\ Len(Append(c, m)) = Len(c) + 1 /\ Append(c, m)[Len(c) + 1] = m
          /\ \A i \in 1..Len(c) : Append(c, m)[i] = c[i]
      BY <1>7, <2>2, ComingFacts
    <2>4. \A i \in 1..Len(c) : Follows(Append(c, m)[i].id, Append(c, m)[i].seq + 1, Append(c, m)[i + 1])
      <3> SUFFICES ASSUME NEW i \in 1..Len(c)
                   PROVE  Follows(Append(c, m)[i].id, Append(c, m)[i].seq + 1, Append(c, m)[i + 1])
        OBVIOUS
      <3>1. CASE i = Len(c)
        <4>1. Append(c, m)[i] = n /\ Append(c, m)[i + 1] = m
          BY <1>7, <2>3, <3>1
        <4> QED BY <2>2, <4>1 DEF Follows
      <3>2. CASE i # Len(c)
        <4>1. i \in 1..(Len(c) - 1) /\ i + 1 \in 1..Len(c)
          BY <1>7, <3>2
        <4>2. Append(c, m)[i] = c[i] /\ Append(c, m)[i + 1] = c[i + 1]
          BY <2>3, <4>1
        <4> QED BY <1>5, <4>1, <4>2
      <3> QED BY <3>1, <3>2
    <2>5. Append(c, m)[1] = c[1] /\ Len(Append(c, m)) - 1 = Len(c)
      BY <1>7, <2>3
    <2> QED BY <1>5, <1>8, <2>1, <2>2, <2>4, <2>5
  <1>14. CASE SlotRecaptured(s)
    <2> DEFINE m == NextPacket(s)'
               d == Append(q, m)
    <2>1. /\ source'[s].id = source[s].id + 1 /\ source'[s].seq = 0
          /\ generations'[s] = generations[s] /\ states'[s] = states[s] /\ IqLine(s)' = q
      BY <1>14 DEF SlotRecaptured
    <2>2. m \in Record /\ m.id = source[s].id + 1 /\ m.seq = 0 /\ Coming(s)' = d
      <3>1. source'[s].id \in Nat /\ source'[s].seq \in Nat /\ generations'[s] \in Nat
        BY <1>3, <2>1
      <3>2. m \in Record
        BY <1>10, <1>11, <3>1
      <3> QED BY <1>9, <1>10, <2>1, <3>2
    <2>3. /\ Len(d) = Len(q) + 1 /\ d[Len(q) + 1] = m
          /\ \A i \in 1..Len(q) : d[i] = q[i]
          /\ q # <<>> => d[1] = q[1]
          /\ q = <<>> => d[1] = m
      BY <1>1, <2>2, ComingFacts
    <2> HIDE DEF m, n, c, q, d
    <2>4. \A i \in 1..(Len(d) - 1) : Follows(d[i].id, d[i].seq + 1, d[i + 1])
      <3> SUFFICES ASSUME NEW i \in 1..Len(q) PROVE Follows(d[i].id, d[i].seq + 1, d[i + 1])
        BY <1>7, <2>3
      <3>1. CASE i = Len(q)
        <4>1. d[i] = q[i] /\ d[i + 1] = m /\ q[i].id \in Nat /\ q[i].id <= source[s].id
          BY <1>2, <1>4, <1>7, <2>3, <3>1
        <4> QED BY <1>3, <2>2, <4>1, SMTT(40) DEF Follows
      <3>2. CASE i # Len(q)
        <4>1. i \in 1..(Len(c) - 1) /\ i + 1 \in 1..Len(q)
          BY <1>7, <3>2
        <4>2. d[i] = c[i] /\ d[i + 1] = c[i + 1]
          BY <1>7, <2>3, <4>1
        <4> QED BY <1>5, <4>1, <4>2
      <3> QED BY <3>1, <3>2
    <2>5. IF states[s].gen = generations[s]
          THEN Follows(states[s].id, states[s].next, d[1])
          ELSE d[1].id > states[s].id /\ d[1].seq = 0
      <3>1. CASE q = <<>>
        BY <1>3, <1>4, <2>2, <2>3, <3>1 DEF Follows
      <3>2. CASE q # <<>>
        <4>1. d[1] = c[1]
          BY <1>7, <2>3, <3>2
        <4> QED BY <1>5, <4>1
      <3> QED BY <3>1, <3>2
    <2> QED BY <1>8, <2>1, <2>2, <2>4, <2>5
  <1>15. CASE SlotBumped(s)
    <2> DEFINE m == NextPacket(s)'
    <2>1. /\ source'[s].id = source[s].id + 1 /\ source'[s].seq = 0
          /\ generations'[s] = generations[s] + 1 /\ states'[s] = states[s] /\ IqLine(s)' = <<>>
      BY <1>15 DEF SlotBumped
    <2>2. m.id = source[s].id + 1 /\ m.seq = 0 /\ Coming(s)' = Append(<<>>, m)
      BY <1>3, <1>9, <1>10, <2>1
    <2> HIDE DEF m
    <2>3. Append(<<>>, m)[1] = m /\ \A i \in 1..(Len(Append(<<>>, m)) - 1) : FALSE
      OBVIOUS
    <2>4. states[s].gen # generations'[s] /\ m.id > states[s].id
      BY <1>3, <1>4, <2>1, <2>2
    <2> QED BY <1>8, <2>1, <2>2, <2>3, <2>4
  <1>16. CASE SlotProcessed(s)
    <2>1. /\ source'[s] = source[s] /\ generations'[s] = generations[s]
          /\ states'[s].gen = generations[s] /\ states'[s].id = Head(q).id
          /\ states'[s].next = Head(q).seq + 1
          /\ q # <<>> /\ IqLine(s)' = Tail(q)
      BY <1>16 DEF SlotProcessed, StreamKept
    <2>2. Coming(s)' = Append(Tail(q), n)
      BY <1>9, <1>10, <2>1 DEF NextPacket
    <2> HIDE DEF n, c, q
    <2>3. Coming(s)' = Tail(c) /\ Head(q) = c[1] /\ Len(c) > 1
      BY <1>7, <2>1, <2>2
    <2>4. /\ Len(Tail(c)) = Len(c) - 1 /\ Tail(c)[1] = c[2]
          /\ \A i \in 1..(Len(Tail(c)) - 1) : Tail(c)[i] = c[i + 1] /\ Tail(c)[i + 1] = c[(i + 1) + 1]
                                            /\ i + 1 \in 1..(Len(c) - 1)
      <3> HIDE DEF Record
      <3> QED BY <1>7, <2>3
    <2>5. \A i \in 1..(Len(Tail(c)) - 1) : Follows(Tail(c)[i].id, Tail(c)[i].seq + 1, Tail(c)[i + 1])
      BY <1>5, <2>4
    <2>6. Follows(c[1].id, c[1].seq + 1, c[2])
      <3>1. 1 \in 1..(Len(c) - 1) /\ 1 + 1 = 2
        BY <1>7, <2>3
      <3> QED BY <1>5, <3>1
    <2> QED BY <1>8, <2>1, <2>3, <2>4, <2>5, <2>6
  <1>17. CASE SlotForgotten(s)
    <2>1. /\ source'[s] = source[s] /\ generations'[s] = generations[s]
          /\ states'[s].gen = 0 /\ states'[s].id = 0 /\ IqLine(s)' = q
      BY <1>17 DEF SlotForgotten, StreamKept, NoState
    <2>2. q = <<>> /\ source[s].seq = 0
      BY <1>17 DEF Fresh
    <2>3. Coming(s)' = c
      BY <1>9, <1>10, <2>1 DEF NextPacket
    <2> HIDE DEF n, c, q
    <2>4. c[1] = n /\ \A i \in 1..(Len(c) - 1) : FALSE
      BY <1>7, <2>2
    <2> QED BY <1>3, <1>4, <1>6, <1>8, <2>1, <2>2, <2>3, <2>4
  <1> QED BY <1>12, <1>13, <1>14, <1>15, <1>16, <1>17 DEF SlotStep

(* So every step keeps this of all slots.                                  *)
LEMMA StreamsStep ==
  ASSUME TypeOK, Placed, Deactivations, Quiet, Numbers, Continued, [Next]_vars, ~stopping'
  PROVE  Numbers' /\ Continued'
  <1>1. ~stopping /\ \A s \in Slots : SlotStep(s)
    BY Running, SlotSteps
  <1>2. ASSUME NEW s \in Slots PROVE SlotForgotten(s) => Fresh(s)
    BY <1>1 DEF SlotForgotten, Quiet
  <1>3. ASSUME NEW s \in Slots PROVE Numbered(s)' /\ Continues(s)'
    BY <1>1, <1>2, NumberedStep, ContinuesStep DEF Numbers, Continued
  <1> QED BY <1>3 DEF Numbers, Continued

(* The packet in hand is the one that is due.                              *)
LEMMA PacketDue ==
  ASSUME TypeOK, LinesKnown, Numbers, Continued, NEW t \in Threads, at[t] = "work",
         work[t].kind = "iq", Current(work[t].slot, work[t].gen)
  PROVE  LET p == work[t]
             old == states[p.slot]
             reset == NeedsReset(old, p)
             state == IF reset THEN [gen |-> p.gen, id |-> p.id, next |-> 0] ELSE old
         IN  ~(reset /\ old # NoState /\ old.id = p.id) /\ p.seq = state.next
  <1> DEFINE p == work[t]
             s == p.slot
             old == states[s]
             reset == NeedsReset(old, p)
             state == IF reset THEN [gen |-> p.gen, id |-> p.id, next |-> 0] ELSE old
  <1>1. p \in Record /\ s \in Slots /\ s % WORKERS = t /\ p.gen = generations[s] /\ ~stopping
    BY WorkKnown DEF Current
  <1>2. Line(t) \in Seq(Record) /\ Line(t) # <<>> /\ Head(Line(t)) = p
    BY LineType
  <1>3. p \in Packets(s, generations[s])
    BY <1>1, PacketsFacts
  <1>4. IqLine(s) # <<>> /\ Head(IqLine(s)) = p
    BY <1>1, <1>2, <1>3, AmongHead, PacketsFacts
  <1>5. IqLine(s) \in Seq(Record) /\ NextPacket(s) \in Record
    BY <1>1, IqLineType, PacketType DEF NextPacket
  <1>6. Coming(s)[1] = p
    BY <1>4, <1>5, ComingFacts DEF Coming
  <1>7. IF old.gen = generations[s] THEN Follows(old.id, old.next, p)
        ELSE p.id > old.id /\ p.seq = 0
    BY <1>1, <1>6 DEF Continued, Continues
  <1>8. generations[s] > 0 /\ NoState.gen = 0
    BY <1>1 DEF Numbers, Numbered, NoState
  <1>9. old.gen \in Nat /\ old.id \in Nat /\ p.id \in Nat /\ generations[s] \in Nat
    BY <1>1, SlotTypes, RecordType
  <1> HIDE DEF p, s, old
  <1>10. ~(reset /\ old # NoState /\ old.id = p.id) /\ p.seq = state.next
    <2>1. CASE old.gen = generations[s] /\ p.id = old.id /\ p.seq = old.next
      BY <1>1, <1>8, <1>9, <2>1 DEF NeedsReset
    <2>2. CASE p.id > old.id /\ p.seq = 0
      <3>1. reset /\ old.id # p.id
        BY <1>9, <2>2 DEF NeedsReset
      <3> QED BY <2>2, <3>1
    <2> QED BY <1>7, <2>1, <2>2 DEF Follows
  <1> QED BY <1>10 DEF p, s, old

(* A failure keeps its first reason.                                       *)
LEMMA FailWhy ==
  ASSUME NEW why, Fail(why), failure # "contract", why # "contract" PROVE failure' # "contract"
  BY DEF Fail

(* So no packet is ever found to break the contract of the source.         *)
LEMMA ContractStep ==
  ASSUME TypeOK, Placed, Numbers, Continued, ContractKept, [Next]_vars PROVE ContractKept'
  <1>1. CASE FinishPoll
    BY <1>1 DEF FinishPoll, ContractKept, shared
  <1>2. CASE FinishEnd
    BY <1>2 DEF FinishEnd, ContractKept, shared
  <1>3. CASE Page
    BY <1>3 DEF Page, ContractKept, shared
  <1>4. CASE Retire
    BY <1>4 DEF Retire, ContractKept, shared
  <1>5. CASE Clear
    BY <1>5 DEF Clear, ContractKept, shared, Fail
  <1>6. CASE Ack
    BY <1>6 DEF Ack, ContractKept, shared
  <1>7. CASE Notice
    BY <1>7 DEF Notice, ContractKept, shared
  <1>8. CASE StopFailed
    BY <1>8 DEF StopFailed, ContractKept, shared, Fail
  <1>9. CASE Joined
    BY <1>9 DEF Joined, ContractKept, shared
  <1>10. CASE Poll
    BY <1>10 DEF Poll, ContractKept, shared
  <1>11. CASE ResetSession
    BY <1>11 DEF ResetSession, ContractKept, shared, Fail
  <1>12. CASE Drop
    BY <1>12 DEF Drop, ContractKept, shared, Fail
  <1>13. ASSUME NEW then \in {"return", "page"}, NEW s \in Slots, Finish(then, s) PROVE ContractKept'
    BY <1>13 DEF Finish, ContractKept, shared
  <1>14. ASSUME NEW s \in Slots, Submit(s) PROVE ContractKept'
    BY <1>14 DEF Submit, ContractKept, shared, Fail
  <1>15. ASSUME NEW s \in Slots, Recapture(s) PROVE ContractKept'
    BY <1>15 DEF Recapture, ContractKept, shared
  <1>16. ASSUME NEW s \in Slots, NEW on \in BOOLEAN, Configure(s, on) PROVE ContractKept'
    BY <1>16 DEF Configure, ContractKept, shared, Fail
  <1>17. CASE SearchLeave
    BY <1>17 DEF SearchLeave, ContractKept, shared
  <1>18. CASE SearchRecv
    BY <1>18 DEF SearchRecv, ContractKept, shared
  <1>19. CASE SearchDone
    BY <1>19 DEF SearchDone, ContractKept, shared, Fail
  <1>20. ASSUME NEW t \in Threads, Leave(t) PROVE ContractKept'
    BY <1>20 DEF Leave, ContractKept, shared
  <1>21. ASSUME NEW t \in Threads, Recv(t) PROVE ContractKept'
    BY <1>21 DEF Recv, ContractKept, shared
  <1>22. ASSUME NEW t \in Threads, ProcessPacket(t) PROVE ContractKept'
    <2> DEFINE p == work[t]
               old == states[p.slot]
               reset == NeedsReset(old, p)
               state == IF reset THEN [gen |-> p.gen, id |-> p.id, next |-> 0] ELSE old
               broken == \/ reset /\ old # NoState /\ old.id = p.id
                         \/ p.seq # state.next
    <2>1. /\ at[t] = "work" /\ p.kind = "iq"
          /\ \/ UNCHANGED failure \/ Fail("fault")
             \/ Current(p.slot, p.gen) /\ broken
      BY <1>22 DEF ProcessPacket
    <2>2. ~(Current(p.slot, p.gen) /\ broken)
      BY <2>1, PacketDue DEF Placed
    <2> QED BY <2>1, <2>2, FailWhy DEF ContractKept
  <1>23. ASSUME NEW t \in Threads, ProcessOther(t) PROVE ContractKept'
    BY <1>23 DEF ProcessOther, ContractKept, shared
  <1>24. ASSUME NEW t \in Threads, Output(t) PROVE ContractKept'
    BY <1>24 DEF Output, ContractKept, shared, Fail
  <1>25. CASE UNCHANGED vars
    BY <1>25 DEF ContractKept, vars, shared
  <1>26. First \in Slots
    BY SlotFacts
  <1> QED BY <1>1, <1>2, <1>3, <1>4, <1>5, <1>6, <1>7, <1>8, <1>9, <1>10, <1>11,
    <1>12, <1>13, <1>14, <1>15, <1>16, <1>17, <1>18, <1>19, <1>20, <1>21,
    <1>22, <1>23, <1>24, <1>25, <1>26 DEF Next, InCall, Free, Search, Realtime

(* What the contract rests on, while the workers run.                      *)
Streams == Alive /\ Deactivations /\ Quiet /\ Numbers /\ Continued

(* The streams at first.                                                   *)
LEMMA StreamsInit ==
  ASSUME Init PROVE Streams
  <1>1. /\ call = "idle" /\ after = "return" /\ acked = FALSE
        /\ at = [t \in Threads |-> "recv"] /\ states = [s \in Slots |-> NoState]
        /\ generations = [s \in Slots |-> 1] /\ source = [s \in Slots |-> [id |-> 1, seq |-> 0]]
    BY DEF Init
  <1>2. \A t \in Threads : Deacts(t) = <<>>
    BY FirstLines, AmongEmpty, DeactsFacts
  <1>3. \A s \in Slots : IqLine(s) = <<>>
    BY FirstLines, AmongEmpty, PacketsFacts, SlotFacts
  <1>4. Alive /\ Deactivations /\ Quiet
    BY <1>1, <1>2, SMTT(60) DEF Alive, Deactivations, Quiet, Resetting, Fresh
  <1>5. ASSUME NEW s \in Slots PROVE Numbered(s) /\ Continues(s)
    <2>1. /\ generations[s] = 1 /\ source[s].id = 1 /\ source[s].seq = 0
          /\ states[s].gen = 0 /\ states[s].id = 0
      BY <1>1 DEF NoState
    <2>2. \A i \in 1..Len(IqLine(s)) : FALSE
      BY <1>3
    <2>3. Numbered(s)
      BY <2>1, <2>2 DEF Numbered
    <2> DEFINE n == NextPacket(s)
    <2>4. n.id = 1 /\ n.seq = 0 /\ Coming(s) = Append(<<>>, n)
      BY <1>3, <2>1, PacketOf DEF Coming
    <2> HIDE DEF n
    <2>5. Append(<<>>, n)[1] = n /\ \A i \in 1..(Len(Append(<<>>, n)) - 1) : FALSE
      OBVIOUS
    <2>6. Continues(s)
      BY <2>1, <2>4, <2>5 DEF Continues
    <2> QED BY <2>3, <2>6
  <1> QED BY <1>4, <1>5 DEF Streams, Numbers, Continued

(* Every step keeps them, and a step that stops the workers ends the       *)
(* matter.                                                                 *)
LEMMA StreamsStepAll ==
  ASSUME TypeOK, TypeOK', Placed, Streams, [Next]_vars PROVE Streams'
  <1>0. stopping' \in BOOLEAN
    BY TypeParts DEF AllTypes, FailType
  <1>1. CASE stopping'
    BY <1>1 DEF Streams, Alive, Deactivations, Quiet, Numbers, Continued
  <1>2. CASE ~stopping'
    BY <1>2, AliveStep, DeactivationsStep, QuietStep, StreamsStep DEF Streams
  <1> QED BY <1>0, <1>1, <1>2

-----------------------------------------------------------------------------
(* Every packet is somewhere: with the caller, put aside, in the result    *)
(* queue, in a thread's hands, or in line.                                 *)
Chosen(os, kept) == Among(Works(os), kept)

(* The result in a thread's hands.                                         *)
Ready(t) == IF at[t] = "out" THEN <<made[t].of>> ELSE <<>>

(* The packets whose outputs the caller has.                               *)
Given(s) == Chosen(got[s], Packets(s, generations[s]))
PutAside(s) == Chosen(deferred, Packets(s, generations[s]))
Queued(s) == Chosen(outputs, Packets(s, generations[s]))
IqReady(s) == Among(Ready(s % WORKERS), Packets(s, generations[s]))

(* The places of packets, one after the other.                             *)
Whole(g, d, o, m, l) == g \o d \o o \o m \o l

(* The packets that were accepted are in those places.                     *)
Conserved(s) == sent[s] = Whole(Given(s), PutAside(s), Queued(s), IqReady(s), IqLine(s))

(* This holds of every slot while the workers run.                         *)
AllConserved == ~stopping => \A s \in Slots : Conserved(s)

(* A result in a thread's hands is of a slot of that thread.               *)
MadeHere == \A t \in Threads : at[t] = "out" => made[t].of.slot % WORKERS = t

(* Concatenation associates.                                               *)
LEMMA RecordsAssociate ==
  \A a, b, c \in Seq(Record) : (a \o b) \o c = a \o (b \o c)
  BY Associative

(* What concatenation does with nothing and with one more element.         *)
LEMMA ConcatFacts ==
  /\ \A a, b \in Seq(Record) : a \o b \in Seq(Record)
  /\ \A a \in Seq(Record) : a \o <<>> = a /\ <<>> \o a = a
  /\ \A a \in Seq(Record) : \A p \in Record : a \o <<p>> = Append(a, p) /\ <<p>> \in Seq(Record)
  /\ <<>> \in Seq(Record)
  /\ \A a, b \in Seq(Record) : \A p \in Record : a \o Append(b, p) = Append(a \o b, p)
  <1>1. ASSUME NEW a \in Seq(Record), NEW b \in Seq(Record), NEW p \in Record
        PROVE  a \o Append(b, p) = Append(a \o b, p)
    BY ConcatAppend
  <1> HIDE DEF Record
  <1> QED BY <1>1

(* The places are the same whole when the caller is given what was         *)
(* deferred and queued.                                                    *)
LEMMA WholeTaken ==
  \A g, d, o, m, l \in Seq(Record) :
    Whole(g \o (d \o o), <<>>, <<>>, m, l) = Whole(g, d, o, m, l)
  <1> SUFFICES ASSUME NEW g \in Seq(Record), NEW d \in Seq(Record), NEW o \in Seq(Record),
                      NEW m \in Seq(Record), NEW l \in Seq(Record)
               PROVE  Whole(g \o (d \o o), <<>>, <<>>, m, l) = Whole(g, d, o, m, l)
    OBVIOUS
  <1>1. g \o (d \o o) = (g \o d) \o o
    BY RecordsAssociate, ZenonT(60)
  <1>2. PICK x \in Seq(Record) : x = (g \o d) \o o
    BY ConcatFacts
  <1>3. (x \o <<>>) \o <<>> = x
    BY ConcatFacts, ZenonT(60)
  <1> QED BY <1>1, <1>2, <1>3, ZenonT(60) DEF Whole

(* And when what was queued is deferred.                                   *)
LEMMA WholeRetired ==
  \A g, d, o, m, l \in Seq(Record) :
    Whole(g, d \o o, <<>>, m, l) = Whole(g, d, o, m, l)
  <1> SUFFICES ASSUME NEW g \in Seq(Record), NEW d \in Seq(Record), NEW o \in Seq(Record),
                      NEW m \in Seq(Record), NEW l \in Seq(Record)
               PROVE  Whole(g, d \o o, <<>>, m, l) = Whole(g, d, o, m, l)
    OBVIOUS
  <1>1. g \o (d \o o) = (g \o d) \o o
    BY RecordsAssociate, ZenonT(60)
  <1>2. PICK x \in Seq(Record) : x = (g \o d) \o o
    BY ConcatFacts
  <1>3. x \o <<>> = x
    BY ConcatFacts, ZenonT(60)
  <1> QED BY <1>1, <1>2, <1>3, ZenonT(60) DEF Whole

(* And when a thread makes a result of the first packet in line.           *)
LEMMA WholeWorked ==
  \A g, d, o, l \in Seq(Record) :
    l # <<>> => Whole(g, d, o, <<Head(l)>>, Tail(l)) = Whole(g, d, o, <<>>, l)
  <1> SUFFICES ASSUME NEW g \in Seq(Record), NEW d \in Seq(Record), NEW o \in Seq(Record),
                      NEW l \in Seq(Record), l # <<>>
               PROVE  Whole(g, d, o, <<Head(l)>>, Tail(l)) = Whole(g, d, o, <<>>, l)
    OBVIOUS
  <1>1. PICK x \in Seq(Record) : x = g \o d \o o
    BY ConcatFacts
  <1>2. <<Head(l)>> \in Seq(Record) /\ Tail(l) \in Seq(Record) /\ <<Head(l)>> \o Tail(l) = l
    <2> HIDE DEF Record
    <2> QED OBVIOUS
  <1>3. (x \o <<Head(l)>>) \o Tail(l) = x \o (<<Head(l)>> \o Tail(l))
    BY <1>2, RecordsAssociate, ZenonT(60)
  <1>4. (x \o <<>>) \o l = x \o l
    BY ConcatFacts, ZenonT(60)
  <1> QED BY <1>1, <1>2, <1>3, <1>4, ZenonT(60) DEF Whole

(* And when the result in hand is queued.                                  *)
LEMMA WholeQueued ==
  \A g, d, o, l \in Seq(Record) : \A p \in Record :
    Whole(g, d, Append(o, p), <<>>, l) = Whole(g, d, o, <<p>>, l)
  <1> SUFFICES ASSUME NEW g \in Seq(Record), NEW d \in Seq(Record), NEW o \in Seq(Record),
                      NEW l \in Seq(Record), NEW p \in Record
               PROVE  Whole(g, d, Append(o, p), <<>>, l) = Whole(g, d, o, <<p>>, l)
    OBVIOUS
  <1>1. PICK x \in Seq(Record) : x = g \o d
    BY ConcatFacts
  <1>2. PICK y \in Seq(Record) : y = x \o o
    BY ConcatFacts
  <1>3. x \o Append(o, p) = Append(y, p)
    BY <1>2, ConcatFacts, ZenonT(60)
  <1>6. y \o <<p>> = Append(y, p)
    BY ConcatFacts, ZenonT(60)
  <1>4. Append(y, p) \in Seq(Record)
    BY <1>2
  <1>5. Append(y, p) \o <<>> = Append(y, p)
    BY <1>4, ConcatFacts, ZenonT(60)
  <1> QED BY <1>1, <1>2, <1>3, <1>5, <1>6, ZenonT(60) DEF Whole

(* A whole that is with the caller.                                        *)
LEMMA WholeGiven ==
  \A g \in Seq(Record) : Whole(g, <<>>, <<>>, <<>>, <<>>) = g
  BY ConcatFacts, ZenonT(60) DEF Whole

(* The packets of a slot among outputs.                                    *)
LEMMA ChosenFacts ==
  /\ \A s, os : IqOf(s, os) = Chosen(os, Packets(s, generations[s]))
  /\ \A kept : Chosen(<<>>, kept) = <<>>
  <1>1. Works(<<>>) = <<>>
    BY DEF Works
  <1> QED BY <1>1, IqOfIs, AmongEmpty DEF Iq, Chosen

(* The packets among outputs and one more.                                 *)
LEMMA ChosenAppend ==
  ASSUME NEW os \in Seq(Outcome), NEW o \in Outcome, NEW kept
  PROVE  Chosen(Append(os, o), kept) =
           IF o.of \in kept THEN Append(Chosen(os, kept), o.of) ELSE Chosen(os, kept)
  <1>1. Works(os) \in Seq(Record) /\ Len(Works(os)) = Len(os) /\ o.of \in Record
    BY WorksType, RecordType
  <1>2. Works(Append(os, o)) = Append(Works(os), o.of)
    <2>1. /\ Append(os, o) \in Seq(Outcome) /\ Len(Append(os, o)) = Len(os) + 1 /\ Len(os) \in Nat
          /\ \A i \in 1..(Len(os) + 1) : Append(os, o)[i] = IF i = Len(os) + 1 THEN o ELSE os[i]
      OBVIOUS
    <2>2. Works(Append(os, o)) = [i \in 1..(Len(os) + 1) |-> IF i = Len(os) + 1 THEN o.of ELSE os[i].of]
      BY <2>1 DEF Works
    <2>3. \A i \in 1..Len(os) : Works(os)[i] = os[i].of
      BY DEF Works
    <2>4. Append(Works(os), o.of) = [i \in 1..(Len(os) + 1) |-> IF i = Len(os) + 1 THEN o.of ELSE Works(os)[i]]
      <3> HIDE DEF Record
      <3> QED BY <1>1, <2>1
    <2> QED BY <2>1, <2>2, <2>3, <2>4
  <1>3. Among(Append(Works(os), o.of), kept) =
          IF o.of \in kept THEN Append(Among(Works(os), kept), o.of) ELSE Among(Works(os), kept)
    <2>1. PICK x \in Seq(Record) : x = Works(os)
      BY <1>1
    <2>2. PICK y \in Record : y = o.of
      BY <1>1
    <2> HIDE DEF Record
    <2>3. Among(Append(x, y), kept) = IF y \in kept THEN Append(Among(x, kept), y) ELSE Among(x, kept)
      BY AmongAppend
    <2> QED BY <2>1, <2>2, <2>3
  <1> QED BY <1>2, <1>3 DEF Chosen

(* Outputs that are made of other work have no packet.                     *)
LEMMA ChosenNone ==
  ASSUME NEW os \in Seq(Outcome), NEW kept, \A i \in 1..Len(os) : os[i].of \notin kept
  PROVE  Chosen(os, kept) = <<>>
  <1>1. Works(os) \in Seq(Record) /\ Len(Works(os)) = Len(os)
    BY WorksType
  <1>2. \A i \in 1..Len(Works(os)) : Works(os)[i] \notin kept
    BY <1>1 DEF Works
  <1> QED BY <1>1, <1>2, AmongNone DEF Chosen

(* The places hold packets.                                                *)
LEMMA PartsType ==
  ASSUME TypeOK, NEW s \in Slots
  PROVE  /\ Given(s) \in Seq(Record) /\ PutAside(s) \in Seq(Record) /\ Queued(s) \in Seq(Record)
         /\ IqReady(s) \in Seq(Record) /\ IqLine(s) \in Seq(Record)
  <1>1. got[s] \in Seq(Outcome) /\ deferred \in Seq(Outcome) /\ outputs \in Seq(Outcome)
    BY TypeParts DEF AllTypes, HistoryType, OutputsType
  <1>2. \A os \in Seq(Outcome) : \A kept : Chosen(os, kept) \in Seq(Record)
    BY WorksType, AmongType DEF Chosen
  <1>3. Ready(s % WORKERS) \in Seq(Record)
    <2>1. made[s % WORKERS] \in Outcome
      BY SlotFacts, TypeParts DEF AllTypes
    <2>2. made[s % WORKERS].of \in Record
      BY <2>1, RecordType
    <2> QED BY <2>2 DEF Ready
  <1>4. IqReady(s) \in Seq(Record)
    BY <1>3, AmongType DEF IqReady
  <1> QED BY <1>1, <1>2, <1>4, IqLineType DEF Given, PutAside, Queued

(* A whole without a result in hand and a line.                            *)
LEMMA WholeTakenAll ==
  ASSUME TypeOK, NEW s \in Slots
  PROVE  Whole(Given(s), PutAside(s), Queued(s), <<>>, <<>>) = Given(s) \o (PutAside(s) \o Queued(s))
  <1>1. Given(s) \o (PutAside(s) \o Queued(s)) = (Given(s) \o PutAside(s)) \o Queued(s)
    BY PartsType, RecordsAssociate, ZenonT(60)
  <1>2. PICK x \in Seq(Record) : x = (Given(s) \o PutAside(s)) \o Queued(s)
    BY PartsType, ConcatFacts
  <1>3. (x \o <<>>) \o <<>> = x
    BY ConcatFacts, ZenonT(60)
  <1> QED BY <1>1, <1>2, <1>3, ZenonT(60) DEF Whole

(* NothingLost is that every slot's packets are in their places.           *)
LEMMA NothingLostIs ==
  TypeOK => (NothingLost <=> AllConserved)
  <1> SUFFICES ASSUME TypeOK, NEW s \in Slots
      PROVE  LET t == s % WORKERS
                 inHand == IF at[t] = "work" THEN <<work[t]>>
                           ELSE IF at[t] = "out" THEN <<made[t].of>> ELSE <<>>
             IN  IqOf(s, got[s]) \o IqOf(s, deferred) \o IqOf(s, outputs)
                   \o Iq(s, inHand) \o Iq(s, inputs[t])
                 = Whole(Given(s), PutAside(s), Queued(s), IqReady(s), IqLine(s))
    BY DEF NothingLost, Conserved, AllConserved
  <1> DEFINE t == s % WORKERS
             inHand == IF at[t] = "work" THEN <<work[t]>>
                       ELSE IF at[t] = "out" THEN <<made[t].of>> ELSE <<>>
             kept == Packets(s, generations[s])
             x == IqOf(s, got[s]) \o IqOf(s, deferred) \o IqOf(s, outputs)
  <1>1. t \in Threads /\ inputs[t] \in Seq(Record) /\ work[t] \in Record /\ made[t].of \in Record
    BY SlotFacts, TypeParts, RecordType DEF AllTypes, InputsType
  <1>2. /\ IqOf(s, got[s]) = Given(s) /\ IqOf(s, deferred) = PutAside(s) /\ IqOf(s, outputs) = Queued(s)
        /\ Iq(s, inHand) = Among(inHand, kept) /\ Iq(s, inputs[t]) = Among(inputs[t], kept)
    BY ChosenFacts DEF Given, PutAside, Queued, Iq
  <1>3. x \in Seq(Record)
    BY <1>2, PartsType, ConcatProperties
  <1>4. \A a \in Seq(Record) : a \o <<>> = a /\ <<>> \o a = a
    <2> HIDE DEF Record
    <2> QED OBVIOUS
  <1>5. \A a, b, c \in Seq(Record) : (a \o b) \o c = a \o (b \o c)
    BY RecordsAssociate
  <1>6. /\ Among(<<>>, kept) = <<>> /\ Among(inputs[t], kept) \in Seq(Record)
        /\ Among(<<work[t]>>, kept) \in Seq(Record) /\ <<work[t]>> \in Seq(Record)
        /\ <<>> \in Seq(Record)
    <2>1. <<work[t]>> \in Seq(Record) /\ <<>> \in Seq(Record)
      BY <1>1
    <2>2. \A a \in Seq(Record) : Among(a, kept) \in Seq(Record)
      BY AmongType
    <2>3. Among(<<>>, kept) = <<>>
      BY AmongEmpty
    <2> QED BY <1>1, <2>1, <2>2, <2>3, ZenonT(60)
  <1>7. (x \o Iq(s, inHand)) \o Iq(s, inputs[t]) = (x \o IqReady(s)) \o IqLine(s)
    <2>1. CASE at[t] = "work"
      <3>1. /\ inHand = <<work[t]>> /\ IqReady(s) = <<>> /\ Line(t) = <<work[t]>> \o inputs[t]
            /\ IqLine(s) = Among(Line(t), kept)
        BY <1>6, <2>1, PacketsFacts DEF IqReady, Ready, Line
      <3>2. Among(<<work[t]>> \o inputs[t], kept) = Among(<<work[t]>>, kept) \o Among(inputs[t], kept)
        <4>1. \A a, b \in Seq(Record) : Among(a \o b, kept) = Among(a, kept) \o Among(b, kept)
          BY AmongConcat
        <4> QED BY <1>1, <1>6, <4>1, ZenonT(60)
      <3> HIDE DEF x, t, kept, inHand
      <3>3. (x \o Among(<<work[t]>>, kept)) \o Among(inputs[t], kept)
              = x \o (Among(<<work[t]>>, kept) \o Among(inputs[t], kept))
        BY <1>3, <1>5, <1>6, ZenonT(60)
      <3>4. x \o <<>> = x
        BY <1>3, <1>4, ZenonT(60)
      <3> QED BY <1>2, <3>1, <3>2, <3>3, <3>4, ZenonT(60)
    <2>2. CASE at[t] # "work"
      <3>1. Line(t) = <<>> \o inputs[t] /\ IqLine(s) = Among(Line(t), kept)
            /\ inHand = Ready(t) /\ IqReady(s) = Among(Ready(t), kept)
        BY <2>2, PacketsFacts DEF Line, Ready, IqReady
      <3>2. Line(t) = inputs[t]
        BY <1>1, <1>4, <3>1, ZenonT(60)
      <3> QED BY <1>2, <3>1, <3>2
    <2> QED BY <2>1, <2>2
  <1> QED BY <1>2, <1>7 DEF Whole

(* And so after a step.                                                    *)
LEMMA NothingLostNext ==
  TypeOK' => (NothingLost' <=> AllConserved')
  BY NothingLostIs, PTL

(* The result in a thread's hands is of a slot of the thread.              *)
LEMMA MadeHereKept ==
  ASSUME MadeHere, \A u \in Threads : at'[u] = "out" =>
           (at[u] = "out" /\ made'[u] = made[u]) \/ made'[u].of.slot % WORKERS = u
  PROVE  MadeHere'
  BY DEF MadeHere

(* Every step keeps this.                                                  *)
LEMMA MadeHereStep ==
  ASSUME TypeOK, LinesKnown, MadeHere, [Next]_vars PROVE MadeHere'
  <1>1. CASE FinishPoll
    BY <1>1, MadeHereKept DEF FinishPoll, thread
  <1>2. CASE FinishEnd
    BY <1>2, MadeHereKept DEF FinishEnd, thread
  <1>3. CASE Page
    BY <1>3, MadeHereKept DEF Page, thread
  <1>4. CASE Retire
    BY <1>4, MadeHereKept DEF Retire, thread
  <1>5. CASE Clear
    BY <1>5, MadeHereKept DEF Clear, thread
  <1>6. CASE Ack
    BY <1>6, MadeHereKept DEF Ack, thread
  <1>7. CASE Notice
    BY <1>7, MadeHereKept DEF Notice, thread
  <1>8. CASE StopFailed
    BY <1>8, MadeHereKept DEF StopFailed, thread
  <1>9. CASE Joined
    BY <1>9, MadeHereKept DEF Joined, thread
  <1>10. CASE Poll
    BY <1>10, MadeHereKept DEF Poll, thread
  <1>11. CASE ResetSession
    BY <1>11, MadeHereKept DEF ResetSession, thread
  <1>12. CASE Drop
    BY <1>12, MadeHereKept DEF Drop, thread
  <1>13. ASSUME NEW then \in {"return", "page"}, NEW s \in Slots, Finish(then, s) PROVE MadeHere'
    BY <1>13, MadeHereKept DEF Finish, thread
  <1>14. ASSUME NEW s \in Slots, Submit(s) PROVE MadeHere'
    BY <1>14, MadeHereKept DEF Submit, thread
  <1>15. ASSUME NEW s \in Slots, Recapture(s) PROVE MadeHere'
    BY <1>15, MadeHereKept DEF Recapture, thread
  <1>16. ASSUME NEW s \in Slots, NEW on \in BOOLEAN, Configure(s, on) PROVE MadeHere'
    BY <1>16, MadeHereKept DEF Configure, thread
  <1>17. CASE SearchLeave
    BY <1>17, MadeHereKept DEF SearchLeave, thread
  <1>18. CASE SearchRecv
    BY <1>18, MadeHereKept DEF SearchRecv, thread
  <1>19. CASE SearchDone
    BY <1>19, MadeHereKept DEF SearchDone, thread
  <1>20. ASSUME NEW t \in Threads, Leave(t) PROVE MadeHere'
    <2>1. /\ at \in [Threads -> {"recv", "work", "out", "leaving", "gone"}]
          /\ made \in [Threads -> Outcome]
      BY TypeParts DEF AllTypes, AtType
    <2> QED BY <1>20, <2>1, MadeHereKept DEF Leave
  <1>21. ASSUME NEW t \in Threads, Recv(t) PROVE MadeHere'
    <2>1. /\ at \in [Threads -> {"recv", "work", "out", "leaving", "gone"}]
          /\ made \in [Threads -> Outcome]
      BY TypeParts DEF AllTypes, AtType
    <2> QED BY <1>21, <2>1, MadeHereKept DEF Recv
  <1>22. ASSUME NEW t \in Threads, ProcessPacket(t) PROVE MadeHere'
    <2>1. /\ at \in [Threads -> {"recv", "work", "out", "leaving", "gone"}]
          /\ made \in [Threads -> Outcome]
      BY TypeParts DEF AllTypes, AtType
    <2> DEFINE w == work[t]
               id == states[w.slot].id
    <2>2. /\ at[t] = "work"
          /\ \/ Done(t) /\ UNCHANGED made
             \/ Makes(t, [of |-> w, as |-> w.id])
      BY <1>22 DEF ProcessPacket
    <2>3. w \in Record /\ w.slot % WORKERS = t
      BY <2>2, WorkKnown
    <2>4. [w EXCEPT !.id = id].slot = w.slot
      BY <2>3 DEF Record
    <2> HIDE DEF w, id
    <2>5. CASE Done(t) /\ UNCHANGED made
      BY <2>1, <2>5, MadeHereKept DEF Done, LoopTop
    <2>6. ASSUME NEW o, o.of.slot = w.slot, Makes(t, o) PROVE MadeHere'
      <3>1. made'[t] = o /\ \A u \in Threads \ {t} : at'[u] = at[u] /\ made'[u] = made[u]
        BY <2>1, <2>6 DEF Makes
      <3> QED BY <2>3, <2>6, <3>1, MadeHereKept
    <2> QED BY <2>2, <2>4, <2>5, <2>6
  <1>23. ASSUME NEW t \in Threads, ProcessOther(t) PROVE MadeHere'
    <2>1. /\ at \in [Threads -> {"recv", "work", "out", "leaving", "gone"}]
          /\ made \in [Threads -> Outcome]
      BY TypeParts DEF AllTypes, AtType
    <2> DEFINE w == work[t]
               id == states[w.slot].id
    <2>2. /\ at[t] = "work"
          /\ \/ Done(t) /\ UNCHANGED made
             \/ Makes(t, [of |-> w, as |-> id])
             \/ Makes(t, [of |-> [w EXCEPT !.id = id], as |-> id])
      BY <1>23 DEF ProcessOther
    <2>3. w \in Record /\ w.slot % WORKERS = t
      BY <2>2, WorkKnown
    <2>4. [w EXCEPT !.id = id].slot = w.slot
      BY <2>3 DEF Record
    <2> HIDE DEF w, id
    <2>5. CASE Done(t) /\ UNCHANGED made
      BY <2>1, <2>5, MadeHereKept DEF Done, LoopTop
    <2>6. ASSUME NEW o, o.of.slot = w.slot, Makes(t, o) PROVE MadeHere'
      <3>1. made'[t] = o /\ \A u \in Threads \ {t} : at'[u] = at[u] /\ made'[u] = made[u]
        BY <2>1, <2>6 DEF Makes
      <3> QED BY <2>3, <2>6, <3>1, MadeHereKept
    <2> QED BY <2>2, <2>4, <2>5, <2>6
  <1>24. ASSUME NEW t \in Threads, Output(t) PROVE MadeHere'
    <2>1. /\ at \in [Threads -> {"recv", "work", "out", "leaving", "gone"}]
          /\ made \in [Threads -> Outcome]
      BY TypeParts DEF AllTypes, AtType
    <2> QED BY <1>24, <2>1, MadeHereKept DEF Output, Done, LoopTop
  <1>25. CASE UNCHANGED vars
    BY <1>25, MadeHereKept DEF vars, thread
  <1>26. First \in Slots
    BY SlotFacts
  <1> QED BY <1>1, <1>2, <1>3, <1>4, <1>5, <1>6, <1>7, <1>8, <1>9, <1>10, <1>11,
    <1>12, <1>13, <1>14, <1>15, <1>16, <1>17, <1>18, <1>19, <1>20, <1>21,
    <1>22, <1>23, <1>24, <1>25, <1>26 DEF Next, InCall, Free, Search, Realtime

-----------------------------------------------------------------------------
(* What a step does to the packets of a slot.                              *)
LEMMA HistoryKept ==
  ASSUME NEW s \in Slots, got'[s] = got[s], UNCHANGED <<deferred, outputs>>,
         generations'[s] = generations[s]
  PROVE  Given(s)' = Given(s) /\ PutAside(s)' = PutAside(s) /\ Queued(s)' = Queued(s)
  BY DEF Given, PutAside, Queued, Chosen, Works, Packets

(* The packets in a thread's hands that are a slot's.                      *)
LEMMA ReadyIs ==
  /\ \A s : IqReady(s) = Among(Ready(s % WORKERS), Packets(s, generations[s]))
  /\ \A s : IqReady(s)' = Among(Ready(s % WORKERS)', Packets(s, generations'[s]))
  /\ \A kept : Among(<<>>, kept) = <<>>
  BY AmongEmpty DEF IqReady, Packets

(* A thread whose result is kept, or that has none, keeps them.            *)
LEMMA ReadyKept ==
  ASSUME NEW s \in Slots, generations'[s] = generations[s],
         \/ at'[s % WORKERS] = at[s % WORKERS] /\ made'[s % WORKERS] = made[s % WORKERS]
         \/ at'[s % WORKERS] # "out" /\ at[s % WORKERS] # "out"
  PROVE  IqReady(s)' = IqReady(s)
  <1>1. Ready(s % WORKERS)' = Ready(s % WORKERS)
    BY DEF Ready
  <1> QED BY <1>1, ReadyIs

(* A slot whose places are kept.                                           *)
LEMMA ConservedKept ==
  ASSUME NEW s \in Slots, Conserved(s), sent'[s] = sent[s],
         Given(s)' = Given(s), PutAside(s)' = PutAside(s), Queued(s)' = Queued(s),
         IqReady(s)' = IqReady(s), IqLine(s)' = IqLine(s)
  PROVE  Conserved(s)'
  BY DEF Conserved, Whole

(* A step that leaves all places alone.                                    *)
LEMMA PartsKept ==
  ASSUME AllConserved, ~stopping, UNCHANGED <<sent, got, deferred, outputs, generations, at, made>>,
         \A s \in Slots : IqLine(s)' = IqLine(s)
  PROVE  AllConserved'
  BY HistoryKept, ReadyKept, ConservedKept DEF AllConserved

(* A single element is chosen or not.                                      *)
LEMMA AmongOne ==
  ASSUME NEW r \in Record, NEW kept
  PROVE  Among(<<r>>, kept) = IF r \in kept THEN <<r>> ELSE <<>>
  <1>1. <<>> \in Seq(Record) /\ Append(<<>>, r) = <<r>>
    OBVIOUS
  <1>2. Among(Append(<<>>, r), kept) =
          IF r \in kept THEN Append(Among(<<>>, kept), r) ELSE Among(<<>>, kept)
    BY <1>1, AmongAppend
  <1> QED BY <1>1, <1>2, AmongEmpty

(* The packets of the current generation are among the outputs that are    *)
(* valid.                                                                  *)
LEMMA ChosenValid ==
  ASSUME ~stopping, NEW s, NEW os \in Seq(Outcome)
  PROVE  Chosen(Valid(os), Packets(s, generations[s])) = Chosen(os, Packets(s, generations[s]))
  <1> DEFINE kept == {o \in Outcome : Current(o.of.slot, o.of.gen)}
  <1>1. \A o \in Outcome : o.of \in Packets(s, generations[s]) => o \in kept
    BY PacketsFacts DEF Current
  <1> HIDE DEF kept
  <1>2. IqOf(s, Among(os, kept)) = IqOf(s, os)
    BY <1>1, IqOfAmong
  <1> QED BY <1>2, ChosenFacts DEF Valid, kept

(* What becomes of the places when the caller is given what there is.      *)
LEMMA TakenParts ==
  ASSUME TypeOK, ~stopping, TakeOutputs, UNCHANGED generations, NEW s \in Slots
  PROVE  /\ Given(s)' = Given(s) \o (PutAside(s) \o Queued(s))
         /\ PutAside(s)' = <<>> /\ Queued(s)' = <<>>
  <1> DEFINE kept == Packets(s, generations[s])
             own == {o \in Outcome : o.of.slot = s}
             os == Valid(deferred) \o Valid(outputs)
  <1>1. deferred \in Seq(Outcome) /\ outputs \in Seq(Outcome) /\ got[s] \in Seq(Outcome)
    BY TypeParts DEF AllTypes, HistoryType, OutputsType
  <1>2. Valid(deferred) \in Seq(Outcome) /\ Valid(outputs) \in Seq(Outcome)
    BY <1>1, TakeType
  <1>3. os \in Seq(Outcome)
    BY <1>2, ConcatProperties
  <1>4. IqOf(s, os) = IqOf(s, Valid(deferred)) \o IqOf(s, Valid(outputs))
    BY <1>2, IqOfConcat
  <1>5. IqOf(s, Valid(deferred)) = PutAside(s) /\ IqOf(s, Valid(outputs)) = Queued(s)
    BY <1>1, ChosenValid, ChosenFacts DEF PutAside, Queued
  <1>6. /\ got'[s] = got[s] \o Among(os, own) /\ deferred' = <<>> /\ outputs' = <<>>
    BY DEF TakeOutputs, Give, DeferredFirst, Checked
  <1>7. \A o \in Outcome : o.of \in Packets(s, generations[s]) => o \in own
    BY PacketsFacts
  <1> HIDE DEF os, own
  <1>8. Among(os, own) \in Seq(Outcome) /\ IqOf(s, Among(os, own)) = IqOf(s, os)
    BY <1>3, <1>7, AmongType, IqOfAmong
  <1>9. IqOf(s, got[s] \o Among(os, own)) = IqOf(s, got[s]) \o IqOf(s, Among(os, own))
    BY <1>1, <1>8, IqOfConcat
  <1>10. Chosen(got'[s], kept) = Given(s) \o (PutAside(s) \o Queued(s))
    BY <1>4, <1>5, <1>6, <1>8, <1>9, ChosenFacts, ZenonT(60) DEF Given
  <1>11. Given(s)' = Chosen(got'[s], kept) /\ PutAside(s)' = Chosen(deferred', kept)
         /\ Queued(s)' = Chosen(outputs', kept)
    BY DEF Given, PutAside, Queued, Chosen, Works, Packets
  <1> QED BY <1>6, <1>10, <1>11, ChosenFacts

(* Nothing is lost when the caller is given what there is.                 *)
LEMMA TakenConserved ==
  ASSUME TypeOK, AllConserved, ~stopping, TakeOutputs,
         UNCHANGED <<sent, generations, at, made, work, inputs>>
  PROVE  AllConserved'
  <1> SUFFICES ASSUME NEW s \in Slots PROVE Conserved(s)'
    BY DEF AllConserved
  <1>1. IqReady(s)' = IqReady(s) /\ IqLine(s)' = IqLine(s)
    BY ReadyKept, LineKept, IqLineSame
  <1>2. /\ Given(s)' = Given(s) \o (PutAside(s) \o Queued(s))
        /\ PutAside(s)' = <<>> /\ Queued(s)' = <<>>
    BY TakenParts
  <1>3. Whole(Given(s) \o (PutAside(s) \o Queued(s)), <<>>, <<>>, IqReady(s), IqLine(s))
          = Whole(Given(s), PutAside(s), Queued(s), IqReady(s), IqLine(s))
    <2>1. /\ Given(s) \in Seq(Record) /\ PutAside(s) \in Seq(Record)
          /\ Queued(s) \in Seq(Record) /\ IqReady(s) \in Seq(Record) /\ IqLine(s) \in Seq(Record)
      BY PartsType
    <2> QED BY <2>1, WholeTaken
  <1>4. sent[s] = Whole(Given(s), PutAside(s), Queued(s), IqReady(s), IqLine(s)) /\ sent'[s] = sent[s]
    BY DEF AllConserved, Conserved
  <1>5. Conserved(s)' <=>
          sent'[s] = Whole(Given(s)', PutAside(s)', Queued(s)', IqReady(s)', IqLine(s)')
    BY DEF Conserved, Whole
  <1> QED BY <1>1, <1>2, <1>3, <1>4, <1>5

(* A bump retires what was sent with the places it was in.                 *)
LEMMA BumpedConserved ==
  ASSUME TypeOK, Placed, AllConserved, ~stopping, NEW slots \in SUBSET Slots, Bump(slots),
         UNCHANGED <<deferred, outputs, at, made, work, inputs, states>>
  PROVE  AllConserved'
  <1> SUFFICES ASSUME NEW s \in Slots PROVE Conserved(s)'
    BY DEF AllConserved
  <1>0. LineSame /\ generations[s] \in Nat /\ LinesKnown /\ OutcomesKnown
    BY LineKept, TypeParts DEF AllTypes, Placed
  <1>1. CASE s \notin slots
    <2>1. SlotKept(s) /\ sent'[s] = sent[s] /\ got'[s] = got[s]
      BY <1>0, <1>1, BumpEffect DEF Bump
    <2>2. generations'[s] = generations[s] /\ IqLine(s)' = IqLine(s)
      BY <2>1 DEF SlotKept, StreamKept
    <2> QED BY <2>1, <2>2, HistoryKept, ReadyKept, ConservedKept DEF AllConserved
  <1>2. CASE s \in slots
    <2> DEFINE kept == Packets(s, generations'[s])
    <2>1. SlotBumped(s) /\ sent'[s] = <<>> /\ got'[s] = <<>>
      BY <1>0, <1>2, BumpEffect DEF Bump
    <2>2. generations'[s] = generations[s] + 1 /\ IqLine(s)' = <<>>
      BY <2>1 DEF SlotBumped
    <2>3. \A r \in Record : Known(r) => r \notin kept
      <3>1. \A r \in Record : Known(r) /\ r.slot = s => r.gen # generations[s] + 1
        BY <1>0, RecordType DEF Known
      <3> QED BY <2>2, <3>1, PacketsFacts
    <2>4. deferred \in Seq(Outcome) /\ outputs \in Seq(Outcome)
      BY TypeParts DEF AllTypes, OutputsType
    <2>5. /\ \A i \in 1..Len(deferred) : deferred[i].of \in Record /\ Known(deferred[i].of)
          /\ \A i \in 1..Len(outputs) : outputs[i].of \in Record /\ Known(outputs[i].of)
      BY <1>0, <2>4, ElementOfSeq, RecordType DEF OutcomesKnown
    <2> HIDE DEF kept
    <2>6. Chosen(deferred, kept) = <<>> /\ Chosen(outputs, kept) = <<>> /\ Chosen(<<>>, kept) = <<>>
      BY <2>3, <2>4, <2>5, ChosenNone, ChosenFacts
    <2>7. Given(s)' = Chosen(got'[s], kept) /\ PutAside(s)' = Chosen(deferred', kept)
          /\ Queued(s)' = Chosen(outputs', kept)
      BY DEF Given, PutAside, Queued, Chosen, Works, Packets, kept
    <2>8. Given(s)' = <<>> /\ PutAside(s)' = <<>> /\ Queued(s)' = <<>>
      BY <2>1, <2>6, <2>7
    <2>9. IqReady(s)' = <<>>
      <3>1. s % WORKERS \in Threads /\ made[s % WORKERS].of \in Record
        BY SlotFacts, TypeParts, RecordType DEF AllTypes
      <3>2. at[s % WORKERS] = "out" => made[s % WORKERS].of \notin kept
        BY <1>0, <2>3, <3>1 DEF OutcomesKnown
      <3>3. Ready(s % WORKERS)' = IF at[s % WORKERS] = "out" THEN <<made[s % WORKERS].of>> ELSE <<>>
        BY DEF Ready
      <3>4. Among(Ready(s % WORKERS)', kept) = <<>>
        BY <3>1, <3>2, <3>3, AmongOne, AmongEmpty
      <3> QED BY <3>4, ReadyIs DEF kept
    <2>10. Conserved(s)' <=>
             sent'[s] = Whole(Given(s)', PutAside(s)', Queued(s)', IqReady(s)', IqLine(s)')
      BY DEF Conserved, Whole
    <2>11. Whole(<<>>, <<>>, <<>>, <<>>, <<>>) = <<>>
      <3>1. <<>> \in Seq(Record)
        OBVIOUS
      <3> QED BY <3>1, WholeGiven, ZenonT(60)
    <2> QED BY <2>1, <2>2, <2>8, <2>9, <2>10, <2>11
  <1> QED BY <1>1, <1>2

(* Conservation after a step.                                              *)
LEMMA WholeNext ==
  \A s : Conserved(s)' <=>
    sent'[s] = Whole(Given(s)', PutAside(s)', Queued(s)', IqReady(s)', IqLine(s)')
  BY DEF Conserved, Whole

(* A thread makes a result of the work in its hands, or nothing.           *)
LEMMA WorkConserved ==
  ASSUME TypeOK, LinesKnown, AllConserved, ~stopping, NEW t \in Threads, LineUsed(t),
         UNCHANGED <<sent, got, deferred, outputs, generations>>,
         \A u \in Threads \ {t} : at'[u] = at[u] /\ made'[u] = made[u],
         \/ \A s \in Slots : work[t] \notin Packets(s, generations[s])
         \/ at'[t] = "out" /\ made'[t].of = work[t],
         at'[t] = "out" =>
           made'[t].of \in Record /\ (made'[t].of = work[t] \/ made'[t].of.kind # "iq")
  PROVE  AllConserved'
  <1> SUFFICES ASSUME NEW s \in Slots PROVE Conserved(s)'
    BY DEF AllConserved
  <1> DEFINE kept == Packets(s, generations[s])
  <1>1. /\ Given(s)' = Given(s) /\ PutAside(s)' = PutAside(s) /\ Queued(s)' = Queued(s)
    BY HistoryKept
  <1>2. at[t] = "work" /\ work[t] \in Record /\ work[t].slot % WORKERS = t
    BY WorkKnown DEF LineUsed
  <1>3. IF work[t] \in kept
        THEN IqLine(s) # <<>> /\ Head(IqLine(s)) = work[t] /\ IqLine(s)' = Tail(IqLine(s))
        ELSE IqLine(s)' = IqLine(s)
    BY IqLineUsed
  <1>4. CASE s % WORKERS # t
    <2>1. work[t] \notin kept
      BY <1>2, <1>4, PacketsFacts
    <2>2. IqReady(s)' = IqReady(s)
      BY <1>4, SlotFacts, ReadyKept
    <2> QED BY <1>1, <1>3, <2>1, <2>2, ConservedKept DEF AllConserved
  <1>5. CASE s % WORKERS = t
    <2>1. IqReady(s) = <<>>
      BY <1>2, <1>5, ReadyIs DEF Ready
    <2>2. IqReady(s)' = IF at'[t] = "out" THEN Among(<<made'[t].of>>, kept) ELSE <<>>
      <3>1. IqReady(s)' = Among(Ready(t)', kept)
        BY <1>5, ReadyIs
      <3>2. Ready(t)' = IF at'[t] = "out" THEN <<made'[t].of>> ELSE <<>>
        BY DEF Ready
      <3> QED BY <3>1, <3>2, AmongEmpty
    <2>3. CASE work[t] \in kept
      <3>1. at'[t] = "out" /\ made'[t].of = work[t]
        BY <2>3
      <3>2. IqReady(s)' = <<work[t]>>
        BY <1>2, <2>2, <2>3, <3>1, AmongOne
      <3>3. /\ IqLine(s) # <<>> /\ IqLine(s)' = Tail(IqLine(s))
            /\ IqReady(s)' = <<Head(IqLine(s))>>
        BY <1>3, <2>3, <3>2
      <3>4. Whole(Given(s), PutAside(s), Queued(s), <<Head(IqLine(s))>>, Tail(IqLine(s)))
              = Whole(Given(s), PutAside(s), Queued(s), <<>>, IqLine(s))
        <4>1. /\ Given(s) \in Seq(Record) /\ PutAside(s) \in Seq(Record)
              /\ Queued(s) \in Seq(Record) /\ IqReady(s) \in Seq(Record) /\ IqLine(s) \in Seq(Record)
          BY PartsType
        <4> QED BY <3>3, <4>1, WholeWorked
      <3> QED BY <1>1, <2>1, <3>3, <3>4, WholeNext DEF AllConserved, Conserved
    <2>4. CASE work[t] \notin kept
      <3>1. at'[t] = "out" => made'[t].of \in Record /\ made'[t].of \notin kept
        BY <2>4, PacketsFacts
      <3>2. IqReady(s)' = <<>>
        BY <2>2, <3>1, AmongOne
      <3> QED BY <1>1, <1>3, <2>1, <2>4, <3>2, ConservedKept DEF AllConserved
    <2> QED BY <2>3, <2>4
  <1> QED BY <1>4, <1>5

(* Nothing is lost when a result is queued.                                *)
LEMMA OutputConserved ==
  ASSUME TypeOK, MadeHere, AllConserved, ~stopping, NEW t \in Threads, Output(t), ~stopping'
  PROVE  AllConserved'
  <1> SUFFICES ASSUME NEW s \in Slots PROVE Conserved(s)'
    BY DEF AllConserved
  <1> DEFINE kept == Packets(s, generations[s])
             r == made[t].of
  <1>1. /\ at[t] = "out" /\ at'[t] # "out" /\ outputs' = Append(outputs, made[t])
        /\ \A u \in Threads \ {t} : at'[u] = at[u] /\ made'[u] = made[u]
        /\ UNCHANGED <<sent, got, deferred, generations>>
    <2>1. /\ at \in [Threads -> {"recv", "work", "out", "leaving", "gone"}]
          /\ made \in [Threads -> Outcome]
      BY TypeParts DEF AllTypes, AtType
    <2> QED BY <2>1 DEF Output, Done, LoopTop, past, owner, Fail
  <1>2. IqLine(s)' = IqLine(s)
    BY <1>1, LineOutput, IqLineSame
  <1>3. outputs \in Seq(Outcome) /\ made[t] \in Outcome /\ r \in Record
    BY TypeParts, RecordType DEF AllTypes, OutputsType
  <1>4. Given(s)' = Given(s) /\ PutAside(s)' = PutAside(s) /\ Queued(s)' = Chosen(outputs', kept)
    BY <1>1 DEF Given, PutAside, Queued, Chosen, Works, Packets
  <1>5. Chosen(outputs', kept) = IF r \in kept THEN Append(Queued(s), r) ELSE Queued(s)
    BY <1>1, <1>3, ChosenAppend DEF Queued
  <1> HIDE DEF r
  <1>6. CASE s % WORKERS # t
    <2>1. r \notin kept
      BY <1>1, <1>6, PacketsFacts DEF MadeHere, r
    <2>2. IqReady(s)' = IqReady(s)
      BY <1>1, <1>6, SlotFacts, ReadyKept
    <2> QED BY <1>1, <1>2, <1>4, <1>5, <2>1, <2>2, ConservedKept DEF AllConserved
  <1>7. CASE s % WORKERS = t
    <2>1. IqReady(s) = Among(<<r>>, kept) /\ IqReady(s)' = <<>>
      <3>1. Ready(t) = <<r>> /\ Ready(t)' = <<>>
        BY <1>1 DEF Ready, r
      <3> QED BY <1>7, <3>1, ReadyIs
    <2>2. CASE r \in kept
      <3>1. IqReady(s) = <<r>> /\ Queued(s)' = Append(Queued(s), r)
        BY <1>3, <1>4, <1>5, <2>1, <2>2, AmongOne
      <3>2. Whole(Given(s), PutAside(s), Append(Queued(s), r), <<>>, IqLine(s))
              = Whole(Given(s), PutAside(s), Queued(s), <<r>>, IqLine(s))
        <4>1. /\ Given(s) \in Seq(Record) /\ PutAside(s) \in Seq(Record)
              /\ Queued(s) \in Seq(Record) /\ IqReady(s) \in Seq(Record) /\ IqLine(s) \in Seq(Record)
          BY PartsType
        <4> QED BY <1>3, <4>1, WholeQueued
      <3>3. sent'[s] = sent[s]
        BY <1>1
      <3> QED BY <1>2, <1>4, <2>1, <3>1, <3>2, <3>3, WholeNext DEF AllConserved, Conserved
    <2>3. CASE r \notin kept
      <3>1. IqReady(s)' = IqReady(s) /\ Queued(s)' = Queued(s)
        BY <1>3, <1>4, <1>5, <2>1, <2>3, AmongOne
      <3> QED BY <1>1, <1>2, <1>4, <3>1, ConservedKept DEF AllConserved
    <2> QED BY <2>2, <2>3
  <1> QED BY <1>6, <1>7

(* A packet that is submitted is one more of the whole.                    *)
LEMMA WholeSent ==
  ASSUME TypeOK, NEW s \in Slots, NEW p \in Record
  PROVE  Whole(Given(s), PutAside(s), Queued(s), IqReady(s), Append(IqLine(s), p))
           = Append(Whole(Given(s), PutAside(s), Queued(s), IqReady(s), IqLine(s)), p)
  <1>1. PICK x \in Seq(Record) : x = Given(s) \o PutAside(s) \o Queued(s) \o IqReady(s)
    BY PartsType, ConcatFacts
  <1>2. PICK l \in Seq(Record) : l = IqLine(s)
    BY PartsType
  <1>3. x \o Append(l, p) = Append(x \o l, p)
    BY ConcatFacts, ZenonT(60)
  <1> QED BY <1>1, <1>2, <1>3, ZenonT(60) DEF Whole

(* Every step that does not stop the workers keeps every packet in its     *)
(* place.                                                                  *)
LEMMA ConservedStep ==
  ASSUME TypeOK, Placed, MadeHere, AllConserved, [Next]_vars, ~stopping' PROVE AllConserved'
  <1>0. ~stopping /\ LinesKnown
    BY Running DEF Placed
  <1> USE <1>0
  <1>1. CASE FinishPoll
    <2>1. TakeOutputs /\ UNCHANGED <<sent, generations, at, made, work, inputs>>
      BY <1>1 DEF FinishPoll, thread, shared
    <2> QED BY <2>1, TakenConserved
  <1>2. CASE FinishEnd
    <2>1. TakeOutputs /\ UNCHANGED <<sent, generations, at, made, work, inputs>>
      BY <1>2 DEF FinishEnd, thread, shared
    <2> QED BY <2>1, TakenConserved
  <1>3. CASE Page
    <2>1. target \in Slots /\ target % WORKERS \in Threads
      BY <1>3, SlotFacts DEF Page, Placed, Control
    <2> DEFINE w == Item("finish", target, generations[target], 0, 0)
    <2>2. w \in Record /\ w.kind # "iq"
      BY <2>1, PacketType DEF Item
    <2>3. /\ UNCHANGED <<at, work>> /\ (SendTo(target % WORKERS, w) \/ UNCHANGED inputs)
          /\ UNCHANGED <<sent, got, deferred, outputs, generations, at, made>>
      BY <1>3 DEF Page, thread, past, shared
    <2> HIDE DEF w
    <2>4. \A s \in Slots : IqLine(s)' = IqLine(s)
      BY <2>1, <2>2, <2>3, LineSends, LineKept, IqLineOther, IqLineSame
    <2> QED BY <2>3, <2>4, PartsKept
  <1>4. CASE Retire
    <2>1. /\ deferred' = deferred \o Valid(outputs) /\ outputs' = <<>>
          /\ UNCHANGED <<sent, got, generations, at, made, work, inputs>>
      BY <1>4 DEF Retire, thread, shared, past
    <2>2. deferred \in Seq(Outcome) /\ outputs \in Seq(Outcome) /\ Valid(outputs) \in Seq(Outcome)
      BY TypeParts, TakeType DEF AllTypes, OutputsType
    <2> SUFFICES ASSUME NEW s \in Slots PROVE Conserved(s)'
      BY DEF AllConserved
    <2>3. IqReady(s)' = IqReady(s) /\ IqLine(s)' = IqLine(s)
      BY <2>1, ReadyKept, LineKept, IqLineSame
    <2> DEFINE kept == Packets(s, generations[s])
    <2>4. IqOf(s, deferred \o Valid(outputs)) = IqOf(s, deferred) \o IqOf(s, Valid(outputs))
      BY <2>2, IqOfConcat
    <2>5. Chosen(deferred', kept) = PutAside(s) \o Queued(s) /\ Chosen(outputs', kept) = <<>>
      BY <2>1, <2>2, <2>4, ChosenValid, ChosenFacts DEF PutAside, Queued
    <2>6. Given(s)' = Given(s) /\ PutAside(s)' = Chosen(deferred', kept) /\ Queued(s)' = Chosen(outputs', kept)
      BY <2>1 DEF Given, PutAside, Queued, Chosen, Works, Packets
    <2>7. Whole(Given(s), PutAside(s) \o Queued(s), <<>>, IqReady(s), IqLine(s))
            = Whole(Given(s), PutAside(s), Queued(s), IqReady(s), IqLine(s))
      <3>1. /\ Given(s) \in Seq(Record) /\ PutAside(s) \in Seq(Record)
            /\ Queued(s) \in Seq(Record) /\ IqReady(s) \in Seq(Record) /\ IqLine(s) \in Seq(Record)
        BY PartsType
      <3> QED BY <3>1, WholeRetired
    <2> QED BY <2>1, <2>3, <2>5, <2>6, <2>7, WholeNext DEF AllConserved, Conserved
  <1>5. CASE Clear
    <2>1. target \in Slots /\ target % WORKERS \in Threads
      BY <1>5, SlotFacts DEF Clear, Placed, Control
    <2> DEFINE w == Item("deactivate", target, generations[target], 0, 0)
    <2>2. w \in Record /\ w.kind # "iq"
      BY <2>1, PacketType DEF Item
    <2>3. /\ UNCHANGED <<at, work>> /\ (SendTo(target % WORKERS, w) \/ UNCHANGED inputs)
          /\ UNCHANGED <<sent, got, deferred, outputs, generations, at, made>>
      BY <1>5 DEF Clear, thread, past, AfterBump
    <2> HIDE DEF w
    <2>4. \A s \in Slots : IqLine(s)' = IqLine(s)
      BY <2>1, <2>2, <2>3, LineSends, LineKept, IqLineOther, IqLineSame
    <2> QED BY <2>3, <2>4, PartsKept
  <1>6. CASE Ack
    <2>1. /\ LineSame
          /\ UNCHANGED <<sent, got, deferred, outputs, generations, at, made>>
      BY <1>6, LineKept DEF Ack, owner, queues, thread, shared, past
    <2> QED BY <2>1, IqLineSame, PartsKept
  <1>7. CASE Notice
    <2>1. /\ LineSame
          /\ UNCHANGED <<sent, got, deferred, outputs, generations, at, made>>
      BY <1>7, LineKept DEF Notice, owner, queues, thread, shared, past
    <2> QED BY <2>1, IqLineSame, PartsKept
  <1>8. CASE StopFailed
    BY <1>8 DEF StopFailed
  <1>9. CASE Joined
    <2>1. /\ LineSame
          /\ UNCHANGED <<sent, got, deferred, outputs, generations, at, made>>
      BY <1>9, LineKept DEF Joined, owner, queues, thread, shared, past
    <2> QED BY <2>1, IqLineSame, PartsKept
  <1>10. CASE Poll
    <2>1. CASE TakeOutputs
      <3>1. UNCHANGED <<sent, generations, at, made, work, inputs>>
        BY <1>10 DEF Poll, thread, shared
      <3> QED BY <2>1, <3>1, TakenConserved
    <2>2. CASE UNCHANGED <<got, deferred, outputs>>
      <3>1. /\ LineSame
            /\ UNCHANGED <<sent, got, deferred, outputs, generations, at, made>>
        BY <1>10, <2>2, LineKept DEF Poll, thread, shared
      <3> QED BY <3>1, IqLineSame, PartsKept
    <2> QED BY <1>10, <2>1, <2>2 DEF Poll
  <1>11. CASE ResetSession
    <2>1. Bump(Slots) /\ UNCHANGED <<deferred, outputs, at, made, work, inputs, states>>
      BY <1>11 DEF ResetSession, thread, queues
    <2> QED BY <2>1, BumpedConserved
  <1>12. CASE Drop
    BY <1>12 DEF Drop
  <1>13. ASSUME NEW then \in {"return", "page"}, NEW s \in Slots, Finish(then, s) PROVE AllConserved'
    <2>1. /\ LineSame
          /\ UNCHANGED <<sent, got, deferred, outputs, generations, at, made>>
      BY <1>13, LineKept DEF Finish, owner, queues, thread, shared, past
    <2> QED BY <2>1, IqLineSame, PartsKept
  <1>14. ASSUME NEW s \in Slots, Submit(s) PROVE AllConserved'
    <2>1. s % WORKERS \in Threads /\ NextPacket(s) \in Record
      BY SlotFacts, PacketType DEF NextPacket
    <2>2. /\ SendTo(s % WORKERS, NextPacket(s)) /\ UNCHANGED <<at, work, made, generations>>
          /\ UNCHANGED <<got, deferred, outputs>> /\ sent' = [sent EXCEPT ![s] = Append(@, NextPacket(s))]
      BY <1>14 DEF Submit, thread, NextPacket, Fail
    <2>3. /\ IqLine(s)' = Append(IqLine(s), NextPacket(s))
          /\ \A r \in Slots \ {s} : IqLine(r)' = IqLine(r)
      BY <2>1, <2>2, LineSends, IqLineSubmitted
    <2>4. /\ sent'[s] = Append(sent[s], NextPacket(s))
          /\ \A r \in Slots \ {s} : sent'[r] = sent[r]
      BY <2>2, TypeParts DEF AllTypes, HistoryType
    <2>5. ASSUME NEW r \in Slots \ {s} PROVE Conserved(r)'
      BY <2>2, <2>3, <2>4, HistoryKept, ReadyKept, ConservedKept DEF AllConserved
    <2>6. Conserved(s)'
      <3>1. /\ Given(s)' = Given(s) /\ PutAside(s)' = PutAside(s) /\ Queued(s)' = Queued(s)
            /\ IqReady(s)' = IqReady(s)
        BY <2>2, HistoryKept, ReadyKept
      <3>2. Whole(Given(s), PutAside(s), Queued(s), IqReady(s), Append(IqLine(s), NextPacket(s)))
              = Append(Whole(Given(s), PutAside(s), Queued(s), IqReady(s), IqLine(s)), NextPacket(s))
        BY <2>1, WholeSent
      <3> QED BY <2>3, <2>4, <3>1, <3>2, WholeNext DEF AllConserved, Conserved
    <2> QED BY <2>5, <2>6 DEF AllConserved
  <1>15. ASSUME NEW s \in Slots, Recapture(s) PROVE AllConserved'
    <2>1. /\ LineSame
          /\ UNCHANGED <<sent, got, deferred, outputs, generations, at, made>>
      BY <1>15, LineKept DEF Recapture, owner, queues, thread, shared, past
    <2> QED BY <2>1, IqLineSame, PartsKept
  <1>16. ASSUME NEW s \in Slots, NEW on \in BOOLEAN, Configure(s, on) PROVE AllConserved'
    <2>1. Bump({s}) /\ UNCHANGED <<deferred, outputs, at, made, work, inputs, states>>
      BY <1>16 DEF Configure, thread, queues
    <2> QED BY <2>1, BumpedConserved
  <1>17. CASE SearchLeave
    <2>1. /\ LineSame
          /\ UNCHANGED <<sent, got, deferred, outputs, generations, at, made>>
      BY <1>17, LineKept DEF SearchLeave, owner, queues, thread, shared, past
    <2> QED BY <2>1, IqLineSame, PartsKept
  <1>18. CASE SearchRecv
    <2>1. /\ LineSame
          /\ UNCHANGED <<sent, got, deferred, outputs, generations, at, made>>
      BY <1>18, LineKept DEF SearchRecv, owner, queues, thread, shared, past
    <2> QED BY <2>1, IqLineSame, PartsKept
  <1>19. CASE SearchDone
    <2>1. job \in Record /\ job.kind # "iq" /\ job.slot % WORKERS \in Threads
      BY <1>19, SlotFacts, TypeParts DEF SearchDone, Placed, JobsKnown, Known, AllTypes
    <2>2. /\ UNCHANGED <<at, work>> /\ (SendTo(job.slot % WORKERS, job) \/ UNCHANGED inputs)
          /\ UNCHANGED <<sent, got, deferred, outputs, generations, at, made>>
      BY <1>19 DEF SearchDone, thread, past, owner
    <2>3. \A s \in Slots : IqLine(s)' = IqLine(s)
      BY <2>1, <2>2, LineSends, LineKept, IqLineOther, IqLineSame
    <2> QED BY <2>2, <2>3, PartsKept
  <1>20. ASSUME NEW t \in Threads, Leave(t) PROVE AllConserved'
    BY <1>20 DEF Leave, OnStopping
  <1>21. ASSUME NEW t \in Threads, Recv(t) PROVE AllConserved'
    <2>1. at \in [Threads -> {"recv", "work", "out", "leaving", "gone"}]
      BY TypeParts DEF AllTypes, AtType
    <2>2. /\ at[t] = "recv" /\ at' = [at EXCEPT ![t] = "work"]
          /\ UNCHANGED <<sent, got, deferred, outputs, generations, made>>
      BY <1>21 DEF Recv, owner, shared, past
    <2>3. \A s \in Slots : IqLine(s)' = IqLine(s)
      BY <1>21, <2>2, LineReceives, IqLineSame
    <2>4. \A s \in Slots : IqReady(s)' = IqReady(s)
      BY <2>1, <2>2, SlotFacts, ReadyKept
    <2> QED BY <2>2, <2>3, <2>4, HistoryKept, ConservedKept DEF AllConserved
  <1>22. ASSUME NEW t \in Threads, ProcessPacket(t) PROVE AllConserved'
    <2> DEFINE w == work[t]
               id == states[w.slot].id
    <2>1. /\ at \in [Threads -> {"recv", "work", "out", "leaving", "gone"}]
          /\ made \in [Threads -> Outcome]
      BY TypeParts DEF AllTypes, AtType
    <2>2. /\ at[t] = "work" /\ UNCHANGED <<sent, got, deferred, outputs, generations>>
          /\ w.kind = "iq"
          /\ \/ Done(t) /\ ~Current(w.slot, w.gen) /\ UNCHANGED made
             \/ Makes(t, [of |-> w, as |-> w.id])
      BY <1>22 DEF ProcessPacket, owner, queues, past, shared, Fail
    <2>3. LineUsed(t)
      BY <1>22, PacketUsed
    <2>4. w \in Record /\ Known(w)
      BY <2>2, WorkKnown
    <2>5. [w EXCEPT !.id = id].kind = w.kind /\ (id \in Nat => [w EXCEPT !.id = id] \in Record)
      BY <2>4 DEF Record
    <2>6. id \in Nat
      BY <2>2, WorkKnown, RecordType
    <2>7. \A u \in Threads \ {t} : at'[u] = at[u] /\ made'[u] = made[u]
      BY <2>1, <2>2 DEF Done, Makes
    <2> HIDE DEF w, id
    <2>8. CASE Done(t) /\ ~Current(w.slot, w.gen) /\ UNCHANGED made
      <3>1. \A s \in Slots : w \notin Packets(s, generations[s])
        BY <2>8, PacketsFacts DEF Current
      <3>2. at'[t] # "out"
        BY <2>1, <2>8 DEF Done, LoopTop
      <3> QED BY <2>2, <2>3, <2>7, <3>1, <3>2, WorkConserved DEF w
    <2>9. CASE Makes(t, [of |-> w, as |-> w.id])
      <3>1. at'[t] = "out" /\ made'[t].of = w
        BY <2>1, <2>9 DEF Makes
      <3> QED BY <2>2, <2>3, <2>4, <2>7, <3>1, WorkConserved DEF w
    <2> QED BY <2>2, <2>8, <2>9
  <1>23. ASSUME NEW t \in Threads, ProcessOther(t) PROVE AllConserved'
    <2> DEFINE w == work[t]
               id == states[w.slot].id
    <2>1. /\ at \in [Threads -> {"recv", "work", "out", "leaving", "gone"}]
          /\ made \in [Threads -> Outcome]
      BY TypeParts DEF AllTypes, AtType
    <2>2. /\ at[t] = "work" /\ UNCHANGED <<sent, got, deferred, outputs, generations>>
          /\ w.kind # "iq"
          /\ \/ Done(t) /\ UNCHANGED made
             \/ Makes(t, [of |-> w, as |-> id])
             \/ Makes(t, [of |-> [w EXCEPT !.id = id], as |-> id])
      BY <1>23 DEF ProcessOther, owner, queues, past, shared, Fail
    <2>3. LineUsed(t)
      BY <1>23, PacketUsed
    <2>4. w \in Record /\ Known(w)
      BY <2>2, WorkKnown
    <2>5. [w EXCEPT !.id = id].kind = w.kind /\ (id \in Nat => [w EXCEPT !.id = id] \in Record)
      BY <2>4 DEF Record
    <2>6. id \in Nat
      BY <2>2, WorkKnown, RecordType
    <2>7. \A u \in Threads \ {t} : at'[u] = at[u] /\ made'[u] = made[u]
      BY <2>1, <2>2 DEF Done, Makes
    <2>8. \A s \in Slots : w \notin Packets(s, generations[s])
      BY <2>2, PacketsFacts
    <2> HIDE DEF w, id
    <2>9. at'[t] = "out" => made'[t].of \in Record /\ made'[t].of.kind # "iq"
      <3>1. CASE Done(t)
        BY <2>1, <3>1 DEF Done, LoopTop
      <3>2. CASE Makes(t, [of |-> w, as |-> id])
        BY <2>1, <2>2, <2>4, <3>2 DEF Makes
      <3>3. CASE Makes(t, [of |-> [w EXCEPT !.id = id], as |-> id])
        BY <2>1, <2>2, <2>5, <2>6, <3>3 DEF Makes
      <3> QED BY <2>2, <3>1, <3>2, <3>3
    <2> QED BY <2>2, <2>3, <2>7, <2>8, <2>9, WorkConserved DEF w
  <1>24. ASSUME NEW t \in Threads, Output(t) PROVE AllConserved'
    BY <1>24, OutputConserved
  <1>25. CASE UNCHANGED vars
    <2>1. /\ LineSame
          /\ UNCHANGED <<sent, got, deferred, outputs, generations, at, made>>
      BY <1>25, LineKept DEF vars, owner, queues, thread, shared, past
    <2> QED BY <2>1, IqLineSame, PartsKept
  <1>26. First \in Slots
    BY SlotFacts
  <1> QED BY <1>1, <1>2, <1>3, <1>4, <1>5, <1>6, <1>7, <1>8, <1>9, <1>10, <1>11,
    <1>12, <1>13, <1>14, <1>15, <1>16, <1>17, <1>18, <1>19, <1>20, <1>21,
    <1>22, <1>23, <1>24, <1>25, <1>26 DEF Next, InCall, Free, Search, Realtime

(* Nothing was sent at first.                                              *)
LEMMA ConservedInit ==
  ASSUME Init PROVE MadeHere /\ AllConserved
  <1>1. /\ at = [t \in Threads |-> "recv"] /\ deferred = <<>> /\ outputs = <<>>
        /\ sent = [s \in Slots |-> <<>>] /\ got = [s \in Slots |-> <<>>]
    BY DEF Init
  <1>2. ASSUME NEW s \in Slots PROVE Conserved(s)
    <2>1. Given(s) = <<>> /\ PutAside(s) = <<>> /\ Queued(s) = <<>>
      BY <1>1, ChosenFacts DEF Given, PutAside, Queued
    <2>2. IqReady(s) = <<>>
      BY <1>1, SlotFacts, ReadyIs DEF Ready
    <2>3. IqLine(s) = <<>>
      BY FirstLines, AmongEmpty, PacketsFacts, SlotFacts
    <2>4. Whole(<<>>, <<>>, <<>>, <<>>, <<>>) = <<>>
      BY ConcatFacts, WholeGiven
    <2> QED BY <1>1, <2>1, <2>2, <2>3, <2>4 DEF Conserved
  <1> QED BY <1>1, <1>2 DEF MadeHere, AllConserved

(* Every step keeps it, and one that stops the workers ends the matter.    *)
LEMMA AllConservedStep ==
  ASSUME TypeOK, TypeOK', Placed, MadeHere, AllConserved, [Next]_vars PROVE (MadeHere /\ AllConserved)'
  <1>0. stopping' \in BOOLEAN
    BY TypeParts DEF AllTypes, FailType
  <1>1. MadeHere'
    BY MadeHereStep DEF Placed
  <1>2. CASE stopping'
    BY <1>1, <1>2 DEF AllConserved
  <1>3. CASE ~stopping'
    BY <1>1, <1>3, ConservedStep
  <1> QED BY <1>0, <1>1, <1>2, <1>3

(* When nothing is pending, every packet is with the caller.               *)
LEMMA AllGiven ==
  ASSUME TypeOK, AllConserved, ~stopping, NEW s \in Slots,
         at[s % WORKERS] \notin Guarded, inputs[s % WORKERS] = <<>>
  PROVE  IqLine(s) = <<>> /\ IqReady(s) = <<>>
  <1> DEFINE t == s % WORKERS
  <1>1. at[t] # "work" /\ at[t] # "out" /\ inputs[t] = <<>>
    BY DEF Guarded
  <1>2. Line(t) = <<>>
    <2>1. <<>> \o <<>> = <<>>
      OBVIOUS
    <2> QED BY <1>1, <2>1 DEF Line
  <1>3. Ready(t) = <<>>
    BY <1>1 DEF Ready
  <1> QED BY <1>2, <1>3, ReadyIs, AmongEmpty, PacketsFacts

(* When finish returns, the caller has every packet's output.              *)
LEMMA AllReturned ==
  ASSUME TypeOK, Placed, Stopped, AllConserved, [Next]_vars, call = "finish", call' = "idle",
         NEW s \in Slots
  PROVE  IqOf(s, got'[s]) = sent[s]
  <1>1. FinishEnd
    BY DEF Next, InCall, Free, Search, Realtime, FinishPoll, Page, Retire, Clear, Ack, Notice,
           StopFailed, Joined, Poll, ResetSession, Drop, Finish, Submit, Recapture, Configure,
           SearchLeave, SearchRecv, SearchDone, Leave, Recv, ProcessPacket, ProcessOther, Output,
           vars, owner
  <1>2. ~stopping
    BY <1>1 DEF FinishEnd, Stopped
  <1>3. TakeOutputs /\ ~Pending /\ UNCHANGED <<generations, sent>>
    BY <1>1 DEF FinishEnd, shared
  <1>4. at[s % WORKERS] \notin Guarded /\ inputs[s % WORKERS] = <<>>
    BY <1>3, SlotFacts DEF Pending
  <1>5. IqLine(s) = <<>> /\ IqReady(s) = <<>>
    BY <1>2, <1>4, AllGiven
  <1>6. sent[s] = Whole(Given(s), PutAside(s), Queued(s), <<>>, <<>>)
    BY <1>2, <1>5 DEF AllConserved, Conserved
  <1>7. Given(s)' = Given(s) \o (PutAside(s) \o Queued(s))
    BY <1>2, <1>3, TakenParts
  <1>8. sent[s] = Given(s)'
    BY <1>6, <1>7, WholeTakenAll
  <1>9. Given(s)' = Chosen(got'[s], Packets(s, generations[s]))
    BY <1>3 DEF Given, Chosen, Works, Packets
  <1> QED BY <1>8, <1>9, ChosenFacts

-----------------------------------------------------------------------------
(* A slot that was switched off, and every slot of a session that was      *)
(* reset, keeps no receiver.                                               *)
LEMMA NoStateKept ==
  ASSUME TypeOK, NEW s \in Slots, SlotStep(s), states[s] = NoState, IqLine(s) = <<>>
  PROVE  states'[s] = NoState
  BY DEF SlotStep, SlotKept, StreamKept, SlotSubmitted, SlotRecaptured,
         SlotBumped, SlotProcessed, SlotForgotten

(* A slot that is switched off gets neither.                               *)
LEMMA DisabledKept ==
  ASSUME TypeOK, NEW s \in Slots, SlotStep(s), ~enabled[s], states[s] = NoState, IqLine(s) = <<>>
  PROVE  states'[s] = NoState /\ IqLine(s)' = <<>>
  <1>1. ~Submit(s)
    BY DEF Submit
  <1> QED BY <1>1 DEF SlotStep, SlotKept, StreamKept, SlotSubmitted, SlotRecaptured,
         SlotBumped, SlotProcessed, SlotForgotten

(* A step that switches nothing off, and leaves the owner where it is or   *)
(* takes it to a call that has forgotten nothing yet.                      *)
LEMMA ForgettingKept ==
  ASSUME TypeOK, Control, Quiet, Forgetting, ~stopping, \A s \in Slots : SlotStep(s),
         \A s \in Slots : ~enabled'[s] => ~enabled[s],
         \/ /\ UNCHANGED <<call, target, after>>
            /\ call = "ack" /\ acked' => acked \/ states'[target] = NoState
         \/ call' \notin {"clear", "ack", "finish"}
         \/ call' = "clear" /\ after' = "disable"
         \/ call' = "ack" /\ after' = "disable" /\ ~acked'
         \/ call' = "finish" /\ after' \in {"return", "page", "session"}
  PROVE  Forgetting'
  <1>1. \A s \in Slots : ~enabled'[s] => states'[s] = NoState /\ IqLine(s)' = <<>>
    BY DisabledKept DEF Forgetting
  <1>2. CASE /\ UNCHANGED <<call, target, after>>
             /\ call = "ack" /\ acked' => acked \/ states'[target] = NoState
    <2>1. call = "ack" /\ acked' => states'[target] = NoState
      <3>1. ASSUME call = "ack", acked PROVE states'[target] = NoState
        <4>1. PICK s \in Slots : s = target
          BY <3>1 DEF Control
        <4>2. states[s] = NoState /\ IqLine(s) = <<>>
          BY <3>1, <4>1 DEF Quiet, Fresh, Forgetting
        <4> QED BY <4>1, <4>2, NoStateKept
      <3> QED BY <1>2, <3>1
    <2>2. Resetting => \A s \in Slots : IqLine(s) = <<>>
      BY DEF Quiet, Fresh
    <2>3. after = "session" /\ call \in {"clear", "ack"} =>
            \A r \in Slots : r < target => states'[r] = NoState
      BY <2>2, NoStateKept DEF Forgetting, Resetting
    <2>4. after = "end" /\ call = "finish" => \A r \in Slots : states'[r] = NoState
      BY <2>2, NoStateKept DEF Forgetting, Resetting
    <2> QED BY <1>1, <1>2, <2>1, <2>3, <2>4 DEF Forgetting
  <1>3. CASE call' \notin {"clear", "ack", "finish"}
    BY <1>1, <1>3 DEF Forgetting
  <1>4. CASE call' = "clear" /\ after' = "disable"
    BY <1>1, <1>4 DEF Forgetting
  <1>5. CASE call' = "ack" /\ after' = "disable" /\ ~acked'
    BY <1>1, <1>5 DEF Forgetting
  <1>6. CASE call' = "finish" /\ after' \in {"return", "page", "session"}
    BY <1>1, <1>6 DEF Forgetting
  <1> QED BY <1>2, <1>3, <1>4, <1>5, <1>6

(* A reset goes through the slots from the first to the last.              *)
LEMMA SlotOrder ==
  /\ \A r \in Slots : ~(r < First)
  /\ \A s, r \in Slots : ~IsLast(s) /\ r < NextSlot(s) => r = s \/ r < s
  /\ \A s, r \in Slots : IsLast(s) => r = s \/ r < s
  <1>0. Slots \in SUBSET Nat /\ Slots # {}
    BY ReceiverAssumption
  <1>1. \A r \in Slots : First <= r
    <2>1. \E s \in Slots : \A r \in Slots : s <= r
      BY <1>0, Least
    <2> QED BY <2>1 DEF First
  <1>2. ASSUME NEW s \in Slots, ~IsLast(s)
        PROVE  NextSlot(s) \in Slots /\ \A q \in Slots : q > s => NextSlot(s) <= q
    <2> DEFINE above == {r \in Slots : r > s}
    <2>1. above \in SUBSET Nat /\ above # {}
      <3>1. PICK r \in Slots : ~(r <= s)
        BY <1>2 DEF IsLast
      <3>2. r > s
        BY <1>0, <3>1
      <3> QED BY <1>0, <3>1, <3>2
    <2> HIDE DEF above
    <2>2. PICK r \in above : \A q \in above : r <= q
      BY <2>1, Least
    <2>3. r \in Slots /\ r > s /\ \A q \in Slots : q > s => r <= q
      BY <2>2 DEF above
    <2> QED BY <2>3 DEF NextSlot
  <1>3. ASSUME NEW s \in Slots, NEW r \in Slots, ~IsLast(s), r < NextSlot(s)
        PROVE  r = s \/ r < s
    <2>1. NextSlot(s) \in Slots /\ (r > s => NextSlot(s) <= r)
      BY <1>2, <1>3
    <2>2. PICK n \in Slots : n = NextSlot(s)
      BY <2>1
    <2>3. n \in Nat /\ r \in Nat /\ s \in Nat
      BY <1>0
    <2> QED BY <1>3, <2>1, <2>2, <2>3
  <1>4. First \in Slots
    BY SlotFacts
  <1> QED BY <1>0, <1>1, <1>3, <1>4 DEF IsLast

(* Every step keeps forgotten what was forgotten.                          *)
LEMMA ForgettingStep ==
  ASSUME TypeOK, Placed, Deactivations, Quiet, Forgetting, [Next]_vars, ~stopping' PROVE Forgetting'
  <1>0. ~stopping /\ Control /\ LinesKnown /\ \A s \in Slots : SlotStep(s)
    BY Running, SlotSteps DEF Placed
  <1> USE <1>0
  <1>1. CASE FinishPoll
    <2>1. UNCHANGED <<call, target, after, enabled, acked>>
      BY <1>1 DEF FinishPoll, owner
    <2> QED BY <2>1, ForgettingKept
  <1>2. CASE FinishEnd
    <2>1. UNCHANGED <<enabled, states, acked>>
      BY <1>2 DEF FinishEnd, thread
    <2>2. CASE call' \in {"idle", "page"}
      BY <2>1, <2>2, ForgettingKept
    <2>3. CASE call' = "clear" /\ target' = First /\ after = "session"
      <3>1. \A s \in Slots : ~enabled'[s] => states'[s] = NoState /\ IqLine(s)' = <<>>
        BY <2>1, DisabledKept DEF Forgetting
      <3> QED BY <2>3, <3>1, SlotOrder DEF Forgetting
    <2> QED BY <1>2, <2>2, <2>3 DEF FinishEnd, Return
  <1>3. CASE Page
    <2>1. (call' = "failed" \/ (call' = "finish" /\ after' = "return")) /\ UNCHANGED enabled
      BY <1>3 DEF Page, owner
    <2> QED BY <2>1, ForgettingKept
  <1>4. CASE Retire
    <2>1. /\ \A s \in Slots : ~enabled'[s] => ~enabled[s]
          /\ \/ UNCHANGED <<call, target, after, acked>>
             \/ call' = "clear" /\ after' = "disable"
             \/ call' = "idle"
      <3>1. enabled \in [Slots -> BOOLEAN]
        BY TypeParts DEF AllTypes
      <3> QED BY <1>4, <3>1 DEF Retire, Return
    <2> QED BY <2>1, ForgettingKept
  <1>5. CASE Clear
    <2>1. call = "clear" /\ UNCHANGED <<target, after, enabled, states, acked>> /\ call' \in {"ack", "failed"}
      BY <1>5 DEF Clear, thread
    <2>2. ~acked
      BY <2>1 DEF Deactivations
    <2>3. CASE after = "session" /\ call' = "ack"
      <3>1. \A s \in Slots : ~enabled'[s] => states'[s] = NoState /\ IqLine(s)' = <<>>
        BY <2>1, DisabledKept DEF Forgetting
      <3>2. \A r \in Slots : r < target => states[r] = NoState
        BY <2>1, <2>3 DEF Forgetting
      <3> QED BY <2>1, <2>2, <2>3, <3>1, <3>2 DEF Forgetting
    <2>4. CASE after = "disable" \/ call' = "failed"
      BY <2>1, <2>2, <2>4, ForgettingKept
    <2> QED BY <2>1, <2>3, <2>4 DEF Control
  <1>6. CASE Ack
    <2>1. call = "ack" /\ UNCHANGED states /\ target \in Slots /\ ~acked'
      BY <1>6 DEF Ack, thread, Control
    <2>2. enabled \in [Slots -> BOOLEAN]
      BY TypeParts DEF AllTypes
    <2>3. acked => states[target] = NoState /\ IqLine(target) = <<>>
      BY <2>1 DEF Forgetting, Quiet, Fresh
    <2>4. \A s \in Slots : ~enabled'[s] => states'[s] = NoState /\ IqLine(s)' = <<>>
      <3>1. \A s \in Slots : ~enabled'[s] => ~enabled[s] \/ (acked /\ s = target)
        BY <1>6, <2>1, <2>2 DEF Ack
      <3>2. \A s \in Slots : IqLine(s) = <<>> => IqLine(s)' = <<>>
        <4>1. \A s \in Slots : ~Submit(s)
          BY <2>1 DEF Submit
        <4> QED BY <4>1 DEF SlotStep, SlotKept, SlotSubmitted, SlotRecaptured, SlotBumped,
                            SlotProcessed, SlotForgotten
      <3>3. \A s \in Slots : ~enabled[s] => states[s] = NoState /\ IqLine(s) = <<>>
        BY DEF Forgetting
      <3> QED BY <2>1, <2>3, <3>1, <3>2, <3>3
    <2>5. CASE acked /\ after = "disable" /\ call' = "idle"
      BY <2>4, <2>5 DEF Forgetting
    <2>6. CASE acked /\ after = "session" /\ ~IsLast(target) /\ call' = "clear" /\ target' = NextSlot(target)
      <3>1. \A r \in Slots : r < target' => states'[r] = NoState
        BY <2>1, <2>3, <2>6, SlotOrder DEF Forgetting
      <3> QED BY <2>4, <2>6, <3>1 DEF Forgetting
    <2>7. CASE acked /\ after = "session" /\ IsLast(target) /\ call' = "finish" /\ after' = "end"
      <3>1. \A r \in Slots : states'[r] = NoState
        BY <2>1, <2>3, <2>7, SlotOrder DEF Forgetting
      <3> QED BY <2>4, <2>7, <3>1 DEF Forgetting
    <2>8. CASE call' = "failed"
      BY <2>4, <2>8 DEF Forgetting
    <2> QED BY <1>6, <2>5, <2>6, <2>7, <2>8 DEF Ack, Return
  <1>7. CASE Notice
    <2>1. call' = "failed" /\ UNCHANGED enabled
      BY <1>7 DEF Notice, owner
    <2> QED BY <2>1, ForgettingKept
  <1>8. CASE StopFailed
    BY <1>8 DEF StopFailed
  <1>9. CASE Joined
    <2>1. call' = "gone" /\ UNCHANGED enabled
      BY <1>9 DEF Joined, owner
    <2> QED BY <2>1, ForgettingKept
  <1>10. CASE Poll
    <2>1. call' \in {"idle", "failed"} /\ UNCHANGED enabled
      BY <1>10 DEF Poll, owner
    <2> QED BY <2>1, ForgettingKept
  <1>11. CASE ResetSession
    <2>1. call' = "finish" /\ after' = "session" /\ UNCHANGED enabled
      BY <1>11 DEF ResetSession, owner
    <2> QED BY <2>1, ForgettingKept
  <1>12. CASE Drop
    BY <1>12 DEF Drop
  <1>13. ASSUME NEW then \in {"return", "page"}, NEW s \in Slots, Finish(then, s) PROVE Forgetting'
    <2>1. call' = "finish" /\ after' \in {"return", "page"} /\ UNCHANGED enabled
      BY <1>13 DEF Finish, owner
    <2> QED BY <2>1, ForgettingKept
  <1>14. ASSUME NEW s \in Slots, Submit(s) PROVE Forgetting'
    <2>1. call' \in {"idle", "failed"} /\ UNCHANGED enabled
      BY <1>14 DEF Submit, owner
    <2> QED BY <2>1, ForgettingKept
  <1>15. ASSUME NEW s \in Slots, Recapture(s) PROVE Forgetting'
    <2>1. call' = "idle" /\ UNCHANGED enabled
      BY <1>15 DEF Recapture, owner
    <2> QED BY <2>1, ForgettingKept
  <1>16. ASSUME NEW s \in Slots, NEW on \in BOOLEAN, Configure(s, on) PROVE Forgetting'
    <2>1. call' = "retire" /\ UNCHANGED enabled
      BY <1>16 DEF Configure, owner
    <2> QED BY <2>1, ForgettingKept
  <1>17. CASE SearchLeave
    <2>1. UNCHANGED <<call, target, after, enabled, acked>>
      BY <1>17 DEF SearchLeave, owner
    <2> QED BY <2>1, ForgettingKept
  <1>18. CASE SearchRecv
    <2>1. UNCHANGED <<call, target, after, enabled, acked>>
      BY <1>18 DEF SearchRecv, owner
    <2> QED BY <2>1, ForgettingKept
  <1>19. CASE SearchDone
    <2>1. UNCHANGED <<call, target, after, enabled, acked>>
      BY <1>19 DEF SearchDone, owner
    <2> QED BY <2>1, ForgettingKept
  <1>20. ASSUME NEW t \in Threads, Leave(t) PROVE Forgetting'
    BY <1>20 DEF Leave, OnStopping
  <1>21. ASSUME NEW t \in Threads, Recv(t) PROVE Forgetting'
    <2>1. UNCHANGED <<call, target, after, enabled, acked>>
      BY <1>21 DEF Recv, owner
    <2> QED BY <2>1, ForgettingKept
  <1>22. ASSUME NEW t \in Threads, ProcessPacket(t) PROVE Forgetting'
    <2>1. UNCHANGED <<call, target, after, enabled, acked>>
      BY <1>22 DEF ProcessPacket, owner
    <2> QED BY <2>1, ForgettingKept
  <1>23. ASSUME NEW t \in Threads, ProcessOther(t) PROVE Forgetting'
    <2>1. UNCHANGED <<call, target, after, enabled>> /\ at[t] = "work" /\ UNCHANGED generations
      BY <1>23 DEF ProcessOther, shared
    <2>2. CASE UNCHANGED acked
      BY <2>1, <2>2, ForgettingKept
    <2>3. CASE work[t].kind = "deactivate"
      <3>1. work[t] = Item("deactivate", target, generations[target], 0, 0) /\ call = "ack"
        BY <2>1, <2>3, DeactivationKnown
      <3>2. PICK s \in Slots : s = target
        BY <3>1 DEF Control
      <3>3. work[t].slot = s /\ work[t].gen = generations[s]
        BY <3>1, <3>2 DEF Item
      <3>4. Current(s, generations[s])
        BY DEF Current
      <3>5. states' = [states EXCEPT ![s] = NoState]
        BY <1>23, <2>3, <3>3, <3>4 DEF ProcessOther
      <3>6. states'[s] = NoState
        <4>1. states \in [Slots -> ChannelState]
          BY TypeParts DEF AllTypes
        <4> QED BY <3>5, <4>1
      <3> QED BY <2>1, <3>2, <3>6, ForgettingKept
    <2> QED BY <1>23, <2>2, <2>3 DEF ProcessOther
  <1>24. ASSUME NEW t \in Threads, Output(t) PROVE Forgetting'
    <2>1. UNCHANGED <<call, target, after, enabled, acked>>
      BY <1>24 DEF Output, owner
    <2> QED BY <2>1, ForgettingKept
  <1>25. CASE UNCHANGED vars
    <2>1. UNCHANGED <<call, target, after, enabled, acked>>
      BY <1>25 DEF vars, owner
    <2> QED BY <2>1, ForgettingKept
  <1>26. First \in Slots
    BY SlotFacts
  <1> QED BY <1>1, <1>2, <1>3, <1>4, <1>5, <1>6, <1>7, <1>8, <1>9, <1>10, <1>11,
    <1>12, <1>13, <1>14, <1>15, <1>16, <1>17, <1>18, <1>19, <1>20, <1>21,
    <1>22, <1>23, <1>24, <1>25, <1>26 DEF Next, InCall, Free, Search, Realtime

-----------------------------------------------------------------------------
(* A session that is being reset gives nothing, and what is left of it is  *)
(* retired.                                                                *)
LEMMA StaleFacts ==
  /\ \A r : r \in StaleWork <=> r \in Record /\ Stale(r)
  /\ \A r : r \in StaleLine <=> r \in Record /\ (r.kind = "deactivate" \/ Stale(r))
  /\ \A o : o \in StaleOutcomes <=> o \in Outcome /\ Stale(o.of)
  /\ \A r : Stale(r) => ~Current(r.slot, r.gen)
  /\ UNCHANGED generations =>
       StaleWork' = StaleWork /\ StaleLine' = StaleLine /\ StaleOutcomes' = StaleOutcomes
  BY DEF StaleWork, StaleLine, StaleOutcomes, Stale, Current

(* A step that adds nothing but retired work.                              *)
LEMMA EmptyKept ==
  ASSUME EmptyNow, UNCHANGED <<generations, got>>,
         outputs' \in Seq(StaleOutcomes), deferred' \in Seq(StaleOutcomes),
         jobs' \in Seq(StaleWork), searcher' # "decode" \/ UNCHANGED <<searcher, job>>,
         \A t \in Threads : at'[t] = "out" => at[t] = "out" /\ made'[t] = made[t],
         \A t \in Threads : Line(t)' \in Seq(StaleLine)
  PROVE  EmptyNow'
  BY StaleFacts DEF EmptyNow

(* Nothing of a retired session is given or deferred.                      *)
LEMMA StaleTaken ==
  ASSUME TypeOK, EmptyNow, TakeOutputs
  PROVE  /\ Valid(outputs) = <<>> /\ UNCHANGED got
         /\ outputs' = <<>> /\ deferred' = <<>>
  <1> DEFINE U == {o \in Outcome : Current(o.of.slot, o.of.gen)}
  <1>1. ASSUME NEW os \in Seq(StaleOutcomes) PROVE Valid(os) = <<>>
    <2>1. \A i \in 1..Len(os) : os[i] \in StaleOutcomes
      BY ElementOfSeq
    <2>2. \A i \in 1..Len(os) : os[i] \notin U
      BY <2>1, StaleFacts
    <2> HIDE DEF U
    <2>3. Among(os, U) = <<>>
      BY <2>2, AmongNone
    <2> QED BY <2>3 DEF Valid, U
  <1>2. Valid(outputs) = <<>> /\ Valid(deferred) = <<>>
    BY <1>1 DEF EmptyNow
  <1>3. <<>> \o <<>> = <<>>
    OBVIOUS
  <1>4. Give(<<>>) /\ outputs' = <<>> /\ deferred' = <<>>
    BY <1>2, <1>3 DEF TakeOutputs, DeferredFirst, Checked
  <1>5. got' = [s \in Slots |-> <<>>]
    BY <1>3, <1>4, AmongEmpty DEF Give, EmptyNow
  <1>6. got = [s \in Slots |-> <<>>]
    <2>1. got = [s \in Slots |-> got[s]]
      BY TypeParts DEF AllTypes, HistoryType
    <2> QED BY <2>1 DEF EmptyNow
  <1> QED BY <1>2, <1>4, <1>5, <1>6

(* When the generations of all slots are bumped, all work is retired.      *)
LEMMA BumpedEmpty ==
  ASSUME TypeOK, Placed, Bump(Slots), LineSame,
         UNCHANGED <<deferred, outputs, jobs, searcher, job, at, made>>
  PROVE  EmptyNow'
  <1>0. LinesKnown /\ JobsKnown /\ OutcomesKnown
    BY DEF Placed
  <1>1. \A s \in Slots : generations[s] \in Nat /\ generations'[s] = generations[s] + 1 /\ got'[s] = <<>>
    BY TypeParts DEF AllTypes, Bump
  <1>2. \A r \in Record : Known(r) => generations'[r.slot] # r.gen
    BY <1>1, RecordType DEF Known
  <1>3. /\ outputs \in Seq(Outcome) /\ deferred \in Seq(Outcome) /\ jobs \in Seq(Record) /\ job \in Record
        /\ \A t \in Threads : made[t] \in Outcome
    BY TypeParts DEF AllTypes, OutputsType, JobsType
  <1>4. ASSUME NEW os \in Seq(Outcome), \A i \in 1..Len(os) : Known(os[i].of)
        PROVE  os \in Seq(StaleOutcomes')
    <2>1. \A i \in 1..Len(os) : os[i] \in Outcome /\ os[i].of \in Record
      BY ElementOfSeq, RecordType
    <2>2. \A i \in 1..Len(os) : os[i] \in StaleOutcomes'
      BY <1>2, <1>4, <2>1 DEF StaleOutcomes, Stale
    <2> QED BY <2>2, SeqOfSubset
  <1>5. outputs' \in Seq(StaleOutcomes') /\ deferred' \in Seq(StaleOutcomes')
    BY <1>0, <1>3, <1>4 DEF OutcomesKnown
  <1>6. jobs' \in Seq(StaleWork')
    <2>1. \A i \in 1..Len(jobs) : jobs[i] \in Record
      BY <1>3, ElementOfSeq
    <2>2. \A i \in 1..Len(jobs) : jobs[i] \in StaleWork'
      BY <1>0, <1>2, <2>1 DEF JobsKnown, StaleWork, Stale
    <2> QED BY <1>3, <2>2, SeqOfSubset
  <1>7. searcher' = "decode" => job' \in StaleWork'
    BY <1>0, <1>2, <1>3 DEF JobsKnown, StaleWork, Stale
  <1>8. \A t \in Threads : at'[t] = "out" => made'[t] \in StaleOutcomes'
    BY <1>0, <1>2, <1>3, RecordType DEF OutcomesKnown, StaleOutcomes, Stale
  <1>9. ASSUME NEW t \in Threads PROVE Line(t)' \in Seq(StaleLine')
    <2>1. Line(t) \in Seq(Record)
      BY LineType
    <2>2. \A i \in 1..Len(Line(t)) : Line(t)[i] \in Record
      BY <2>1, ElementOfSeq
    <2>3. \A i \in 1..Len(Line(t)) : Line(t)[i] \in StaleLine'
      BY <1>0, <1>2, <2>2 DEF LinesKnown, StaleLine, Stale
    <2>4. Line(t) \in Seq(StaleLine')
      BY <2>1, <2>3, SeqOfSubset
    <2> QED BY <2>4 DEF LineSame
  <1> QED BY <1>1, <1>5, <1>6, <1>7, <1>8, <1>9 DEF EmptyNow

(* Work in the hands of a thread of a retired session makes no result.     *)
LEMMA StaleUsed ==
  ASSUME TypeOK, EmptyNow, ~stopping, NEW t \in Threads, ProcessPacket(t) \/ ProcessOther(t)
  PROVE  /\ \A u \in Threads : at'[u] = "out" => at[u] = "out" /\ made'[u] = made[u]
         /\ \A u \in Threads : Line(u)' \in Seq(StaleLine)
         /\ UNCHANGED jobs
  <1>1. LineUsed(t)
    BY PacketUsed
  <1>2. \A u \in Threads : Line(u) \in Seq(StaleLine)
    BY DEF EmptyNow
  <1>3. Line(t) # <<>> /\ Head(Line(t)) = work[t] /\ Line(t)' = Tail(Line(t))
    BY <1>1 DEF LineUsed
  <1>4. work[t] \in StaleLine /\ Line(t)' \in Seq(StaleLine)
    BY <1>2, <1>3
  <1>5. \A u \in Threads : Line(u)' \in Seq(StaleLine)
    BY <1>1, <1>2, <1>4 DEF LineUsed
  <1> DEFINE w == work[t]
  <1>6. w.kind = "deactivate" \/ ~Current(w.slot, w.gen)
    BY <1>4, StaleFacts
  <1>7. Done(t) /\ UNCHANGED <<made, jobs>>
    <2>1. CASE ProcessPacket(t)
      BY <1>6, <2>1 DEF ProcessPacket
    <2>2. CASE ProcessOther(t)
      BY <1>6, <2>2 DEF ProcessOther, queues
    <2> QED BY <2>1, <2>2
  <1>8. at \in [Threads -> {"recv", "work", "out", "leaving", "gone"}]
    BY TypeParts DEF AllTypes, AtType
  <1>9. \A u \in Threads : at'[u] = "out" => at[u] = "out" /\ made'[u] = made[u]
    BY <1>7, <1>8 DEF Done, LoopTop
  <1> QED BY <1>5, <1>7, <1>9

(* A step of the owner that gives nothing and of no thread.                *)
LEMMA StillEmpty ==
  ASSUME Emptied, ~stopping, Resetting' => Resetting, LineSame,
         UNCHANGED <<generations, got, outputs, deferred, jobs, searcher, job, at, made>>
  PROVE  Emptied'
  <1> SUFFICES ASSUME EmptyNow PROVE EmptyNow'
    BY DEF Emptied
  <1> QED BY EmptyKept DEF EmptyNow, LineSame

(* There is nothing to say when no session is being reset.                 *)
LEMMA NotResetting ==
  ASSUME ~Resetting' PROVE Emptied'
  BY DEF Emptied

(* The owner that polls is given nothing.                                  *)
LEMMA TakenEmpty ==
  ASSUME TypeOK, Emptied, ~stopping, Resetting' => Resetting, LineSame, TakeOutputs,
         UNCHANGED <<generations, jobs, searcher, job, at, made>>
  PROVE  Emptied'
  <1> SUFFICES ASSUME EmptyNow PROVE EmptyNow'
    BY DEF Emptied
  <1>1. UNCHANGED got /\ outputs' = <<>> /\ deferred' = <<>>
    BY StaleTaken
  <1>2. <<>> \in Seq(StaleOutcomes)
    OBVIOUS
  <1>3. \A t \in Threads : Line(t)' \in Seq(StaleLine)
    BY DEF EmptyNow, LineSame
  <1>4. jobs' \in Seq(StaleWork)
    BY DEF EmptyNow
  <1> QED BY <1>1, <1>2, <1>3, <1>4, EmptyKept

(* Every step keeps it.                                                    *)
LEMMA EmptiedStep ==
  ASSUME TypeOK, Placed, Emptied, [Next]_vars, ~stopping' PROVE Emptied'
  <1>0. ~stopping /\ Control
    BY Running DEF Placed
  <1> USE <1>0
  <1>1. CASE FinishPoll
    <2>1. Resetting' => Resetting
      BY <1>1 DEF FinishPoll, Resetting
    <2>2. /\ LineSame /\ TakeOutputs
          /\ UNCHANGED <<generations, jobs, searcher, job, at, made>>
      BY <1>1, LineKept DEF FinishPoll, shared, thread, search
    <2> QED BY <2>1, <2>2, TakenEmpty
  <1>2. CASE FinishEnd
    <2>1. Resetting' => Resetting
      BY <1>2 DEF FinishEnd, Resetting, Return
    <2>2. /\ LineSame /\ TakeOutputs
          /\ UNCHANGED <<generations, jobs, searcher, job, at, made>>
      BY <1>2, LineKept DEF FinishEnd, shared, thread, search
    <2> QED BY <2>1, <2>2, TakenEmpty
  <1>3. CASE Page
    <2>1. ~Resetting'
      BY <1>3 DEF Page, Resetting, owner
    <2> QED BY <2>1, NotResetting
  <1>4. CASE Retire
    <2>1. ~Resetting'
      BY <1>4 DEF Retire, Resetting, Return, Control
    <2> QED BY <2>1, NotResetting
  <1>5. CASE Clear
    <2>1. /\ Resetting' => Resetting
          /\ UNCHANGED <<generations, got, outputs, deferred, jobs, searcher, job, at, made, work>>
      BY <1>5 DEF Clear, Resetting, thread, search, past
    <2> SUFFICES ASSUME EmptyNow PROVE EmptyNow'
      BY <2>1 DEF Emptied
    <2>2. target \in Slots /\ target % WORKERS \in Threads
      BY <1>5, SlotFacts DEF Clear, Control
    <2> DEFINE w == Item("deactivate", target, generations[target], 0, 0)
    <2>3. w \in Record /\ w.kind = "deactivate"
      BY <2>2, PacketType DEF Item
    <2>4. SendTo(target % WORKERS, w) \/ UNCHANGED inputs
      BY <1>5 DEF Clear, AfterBump
    <2>5. w \in StaleLine
      BY <2>3, StaleFacts
    <2> HIDE DEF w
    <2>6. \A u \in Threads : Line(u)' = Line(u) \/ Line(u)' = Append(Line(u), w)
      <3>1. CASE UNCHANGED inputs
        BY <2>1, <3>1, LineKept DEF LineSame
      <3>2. CASE SendTo(target % WORKERS, w)
        <4>1. PICK t \in Threads : t = target % WORKERS
          BY <2>2
        <4>2. LineSent(t, w)
          BY <2>1, <2>3, <3>2, <4>1, LineSends
        <4> QED BY <4>2 DEF LineSent
      <3> QED BY <2>4, <3>1, <3>2
    <2>7. \A u \in Threads : Line(u)' \in Seq(StaleLine)
      <3>1. \A l \in Seq(StaleLine) : Append(l, w) \in Seq(StaleLine)
        BY <2>5
      <3> QED BY <2>6, <3>1 DEF EmptyNow
    <2> QED BY <2>1, <2>7, EmptyKept DEF EmptyNow
  <1>6. CASE Ack
    <2>1. Resetting' => Resetting
      BY <1>6 DEF Ack, Resetting, Return
    <2>2. /\ LineSame
          /\ UNCHANGED <<generations, got, outputs, deferred, jobs, searcher, job, at, made>>
      BY <1>6, LineKept DEF Ack, owner, shared, queues, thread, search, past
    <2> QED BY <2>1, <2>2, StillEmpty
  <1>7. CASE Notice
    <2>1. ~Resetting'
      BY <1>7 DEF Notice, Resetting, owner
    <2> QED BY <2>1, NotResetting
  <1>8. CASE StopFailed
    BY <1>8 DEF StopFailed
  <1>9. CASE Joined
    <2>1. ~Resetting'
      BY <1>9 DEF Joined, Resetting, owner
    <2> QED BY <2>1, NotResetting
  <1>10. CASE Poll
    <2>1. ~Resetting'
      BY <1>10 DEF Poll, Resetting, owner
    <2> QED BY <2>1, NotResetting
  <1>11. CASE ResetSession
    <2>1. /\ Bump(Slots) /\ LineSame
          /\ UNCHANGED <<deferred, outputs, jobs, searcher, job, at, made>>
      BY <1>11, LineKept DEF ResetSession, queues, thread, search
    <2>2. EmptyNow'
      BY <2>1, BumpedEmpty
    <2> QED BY <2>2 DEF Emptied
  <1>12. CASE Drop
    BY <1>12 DEF Drop
  <1>13. ASSUME NEW then \in {"return", "page"}, NEW s \in Slots, Finish(then, s) PROVE Emptied'
    <2>1. ~Resetting'
      BY <1>13 DEF Finish, Resetting, owner
    <2> QED BY <2>1, NotResetting
  <1>14. ASSUME NEW s \in Slots, Submit(s) PROVE Emptied'
    <2>1. ~Resetting'
      BY <1>14 DEF Submit, Resetting, owner
    <2> QED BY <2>1, NotResetting
  <1>15. ASSUME NEW s \in Slots, Recapture(s) PROVE Emptied'
    <2>1. ~Resetting'
      BY <1>15 DEF Recapture, Resetting, owner
    <2> QED BY <2>1, NotResetting
  <1>16. ASSUME NEW s \in Slots, NEW on \in BOOLEAN, Configure(s, on) PROVE Emptied'
    <2>1. ~Resetting'
      BY <1>16 DEF Configure, Resetting, owner
    <2> QED BY <2>1, NotResetting
  <1>17. CASE SearchLeave
    BY <1>17 DEF SearchLeave, OnStopping
  <1>18. CASE SearchRecv
    <2>1. (Resetting' <=> Resetting) /\ UNCHANGED <<generations, got>>
      BY <1>18 DEF SearchRecv, Resetting, owner, shared, past
    <2> SUFFICES ASSUME EmptyNow PROVE EmptyNow'
      BY <2>1 DEF Emptied
    <2>2. jobs \in Seq(StaleWork) /\ jobs # <<>> /\ jobs' = Tail(jobs)
      BY <1>18 DEF SearchRecv, EmptyNow
    <2>3. Head(jobs) \in StaleWork /\ jobs' \in Seq(StaleWork)
      BY <2>2
    <2>4. searcher' # "decode"
      BY <1>18, <2>3, StaleFacts DEF SearchRecv, LoopTop
    <2>5. LineSame /\ UNCHANGED <<outputs, deferred, at, made>>
      BY <1>18, LineKept DEF SearchRecv, owner, thread
    <2> QED BY <2>1, <2>3, <2>4, <2>5, EmptyKept DEF EmptyNow, LineSame
  <1>19. CASE SearchDone
    <2>1. (Resetting' <=> Resetting) /\ UNCHANGED <<generations, got>>
      BY <1>19 DEF SearchDone, Resetting, owner, past
    <2> SUFFICES ASSUME EmptyNow PROVE EmptyNow'
      BY <2>1 DEF Emptied
    <2>2. job \in StaleWork
      BY <1>19 DEF SearchDone, EmptyNow
    <2>3. UNCHANGED <<inputs, jobs, outputs, deferred, at, work, made>> /\ searcher' # "decode"
      BY <1>19, <2>2, StaleFacts DEF SearchDone, LoopTop, owner, thread
    <2>4. LineSame
      BY <2>3, LineKept
    <2> QED BY <2>1, <2>3, <2>4, EmptyKept DEF EmptyNow, LineSame
  <1>20. ASSUME NEW t \in Threads, Leave(t) PROVE Emptied'
    BY <1>20 DEF Leave, OnStopping
  <1>21. ASSUME NEW t \in Threads, Recv(t) PROVE Emptied'
    <2>1. (Resetting' <=> Resetting) /\ UNCHANGED <<generations, got>>
      BY <1>21 DEF Recv, Resetting, owner, shared, past
    <2> SUFFICES ASSUME EmptyNow PROVE EmptyNow'
      BY <2>1 DEF Emptied
    <2>2. LineSame
      BY <1>21, LineReceives
    <2>3. /\ UNCHANGED <<outputs, deferred, jobs, searcher, job, made>>
          /\ \A u \in Threads : at'[u] = "out" => at[u] = "out"
      BY <1>21, TypeParts DEF Recv, owner, search, AllTypes, AtType
    <2> QED BY <2>1, <2>2, <2>3, EmptyKept DEF EmptyNow, LineSame
  <1>22. ASSUME NEW t \in Threads, ProcessPacket(t) PROVE Emptied'
    <2>1. (Resetting' <=> Resetting) /\ UNCHANGED <<generations, got, outputs, deferred, searcher, job>>
      BY <1>22 DEF ProcessPacket, Resetting, owner, search, past
    <2> SUFFICES ASSUME EmptyNow PROVE EmptyNow'
      BY <2>1 DEF Emptied
    <2>2. /\ \A u \in Threads : at'[u] = "out" => at[u] = "out" /\ made'[u] = made[u]
          /\ \A u \in Threads : Line(u)' \in Seq(StaleLine)
          /\ UNCHANGED jobs
      BY <1>22, StaleUsed
    <2> QED BY <2>1, <2>2, EmptyKept DEF EmptyNow
  <1>23. ASSUME NEW t \in Threads, ProcessOther(t) PROVE Emptied'
    <2>1. (Resetting' <=> Resetting) /\ UNCHANGED <<generations, got, outputs, deferred, searcher, job>>
      BY <1>23 DEF ProcessOther, Resetting, shared, queues, search, past
    <2> SUFFICES ASSUME EmptyNow PROVE EmptyNow'
      BY <2>1 DEF Emptied
    <2>2. /\ \A u \in Threads : at'[u] = "out" => at[u] = "out" /\ made'[u] = made[u]
          /\ \A u \in Threads : Line(u)' \in Seq(StaleLine)
          /\ UNCHANGED jobs
      BY <1>23, StaleUsed
    <2> QED BY <2>1, <2>2, EmptyKept DEF EmptyNow
  <1>24. ASSUME NEW t \in Threads, Output(t) PROVE Emptied'
    <2>1. (Resetting' <=> Resetting) /\ UNCHANGED <<generations, got, deferred, jobs, searcher, job>>
      BY <1>24 DEF Output, Resetting, owner, search, past
    <2> SUFFICES ASSUME EmptyNow PROVE EmptyNow'
      BY <2>1 DEF Emptied
    <2>2. LineSame
      BY <1>24, LineOutput
    <2>3. made[t] \in StaleOutcomes /\ outputs \in Seq(StaleOutcomes)
      BY <1>24 DEF Output, EmptyNow
    <2>4. UNCHANGED outputs \/ outputs' = Append(outputs, made[t])
      BY <1>24 DEF Output
    <2>5. outputs' \in Seq(StaleOutcomes)
      BY <2>3, <2>4
    <2>6. \A u \in Threads : at'[u] = "out" => at[u] = "out" /\ made'[u] = made[u]
      <3>1. made \in [Threads -> Outcome] /\ at \in [Threads -> {"recv", "work", "out", "leaving", "gone"}]
        BY TypeParts DEF AllTypes, AtType
      <3> QED BY <1>24, <3>1 DEF Output, Done, LoopTop
    <2> QED BY <2>1, <2>2, <2>5, <2>6, EmptyKept DEF EmptyNow, LineSame
  <1>25. CASE UNCHANGED vars
    <2>1. Resetting' => Resetting
      BY <1>25 DEF vars, Resetting, owner
    <2>2. /\ LineSame
          /\ UNCHANGED <<generations, got, outputs, deferred, jobs, searcher, job, at, made>>
      BY <1>25, LineKept DEF vars, owner, shared, queues, thread, search, past
    <2> QED BY <2>1, <2>2, StillEmpty
  <1>26. First \in Slots
    BY SlotFacts
  <1> QED BY <1>1, <1>2, <1>3, <1>4, <1>5, <1>6, <1>7, <1>8, <1>9, <1>10, <1>11,
    <1>12, <1>13, <1>14, <1>15, <1>16, <1>17, <1>18, <1>19, <1>20, <1>21,
    <1>22, <1>23, <1>24, <1>25, <1>26 DEF Next, InCall, Free, Search, Realtime

(* So a slot that is off has no receiver once the owner's call has         *)
(* returned.                                                               *)
LEMMA DisabledMeans ==
  Stopped /\ Forgetting => DisabledForgotten
  BY DEF Stopped, Forgetting, DisabledForgotten

(* And a session that was reset has no receiver, no output and no work.    *)
LEMMA ResetForgets ==
  ASSUME TypeOK, Placed, Stopped, Forgetting, Emptied, [Next]_vars,
         call = "finish", after = "end", call' = "idle"
  PROVE  /\ \A s \in Slots : states'[s] = NoState /\ got'[s] = <<>>
         /\ ~Pending' /\ deferred' = <<>> /\ outputs' = <<>>
  <1>1. FinishEnd
    BY DEF Next, InCall, Free, Search, Realtime, FinishPoll, Page, Retire, Clear, Ack, Notice,
           StopFailed, Joined, Poll, ResetSession, Drop, Finish, Submit, Recapture, Configure,
           SearchLeave, SearchRecv, SearchDone, Leave, Recv, ProcessPacket, ProcessOther, Output,
           vars, owner
  <1>2. ~stopping
    BY <1>1 DEF FinishEnd, Stopped
  <1>3. EmptyNow
    BY <1>2 DEF Emptied, Resetting
  <1>4. /\ TakeOutputs /\ ~Pending /\ UNCHANGED <<states, at, inputs, jobs, searcher>>
    BY <1>1 DEF FinishEnd, thread, search
  <1>5. UNCHANGED got /\ deferred' = <<>> /\ outputs' = <<>>
    BY <1>3, <1>4, StaleTaken
  <1>6. \A s \in Slots : states[s] = NoState /\ got[s] = <<>>
    BY <1>2, <1>3 DEF Forgetting, EmptyNow
  <1>7. ~Pending'
    BY <1>4 DEF Pending
  <1> QED BY <1>4, <1>5, <1>6, <1>7

(* All slots are on at first.                                              *)
LEMMA ForgottenInit ==
  ASSUME Init PROVE Forgetting /\ Emptied
  <1>1. call = "idle" /\ enabled = [s \in Slots |-> TRUE]
    BY DEF Init
  <1> QED BY <1>1 DEF Forgetting, Emptied, Resetting

(* Every step keeps what was forgotten, and one that stops the workers     *)
(* ends the matter.                                                        *)
LEMMA ForgottenStep ==
  ASSUME TypeOK, TypeOK', Placed, Streams, Forgetting, Emptied, [Next]_vars
  PROVE  (Forgetting /\ Emptied)'
  <1>0. stopping' \in BOOLEAN
    BY TypeParts DEF AllTypes, FailType
  <1>1. CASE stopping'
    BY <1>1 DEF Forgetting, Emptied
  <1>2. CASE ~stopping'
    BY <1>2, ForgettingStep, EmptiedStep DEF Streams
  <1> QED BY <1>0, <1>1, <1>2

-----------------------------------------------------------------------------
(* Every state is typed; all work in line, all jobs and all results are of *)
(* a slot, in a generation that slot has had, at the thread the slot       *)
(* belongs to; and a call of the owner that needs a slot has one           *)
(* (receiver_workers.rs, RealtimeOwner and run_realtime).                  *)
THEOREM WorkersType == Spec => [](TypeOK /\ Placed)
  <1>1. Init => TypeOK /\ Placed
    BY TypeInit, PlacedInit
  <1>2. TypeOK /\ Placed /\ [Next]_vars => (TypeOK /\ Placed)'
    BY TypeStep, PlacedStep
  <1> QED BY <1>1, <1>2, PTL DEF Spec

(* OwnStream: an output is labelled with the identity of the stream whose  *)
(* samples it decodes. A search answer is accepted only by the receiver of *)
(* the identity that asked (process_search), although the slot may have    *)
(* changed its stream while the job was decoded.                           *)
THEOREM WorkersOwnStream == Spec => []OwnStream
  <1>1. Init => OwnLabels
    BY OwnLabelsInit
  <1>2. TypeOK /\ Placed /\ OwnLabels /\ [Next]_vars => OwnLabels'
    BY OwnLabelsStep DEF Placed
  <1>3. OwnLabels => OwnStream
    BY OwnLabelsMean
  <1> QED BY <1>1, <1>2, <1>3, WorkersType, PTL DEF Spec

(* CurrentOnly: the caller is never given an output of a generation that   *)
(* was retired before the output reached it, wherever it waited (poll,     *)
(* valid_output and configure).                                            *)
THEOREM WorkersCurrentOnly == Spec => []CurrentOnly
  <1>1. Init => AllInTime
    BY InTimeInit
  <1>2. TypeOK /\ Placed /\ AllInTime /\ [Next]_vars => AllInTime'
    BY InTimeStep
  <1>3. AllInTime => CurrentOnly
    BY InTimeMeans
  <1> QED BY <1>1, <1>2, <1>3, WorkersType, PTL DEF Spec

(* While the workers run, the packets that a slot has in line continue     *)
(* each other and its receiver's state up to the packet the source gives   *)
(* next, and the owner's calls find their slots quiet; so process_packet   *)
(* never finds the contract of the source broken.                          *)
THEOREM WorkersStreams == Spec => [](Streams /\ ContractKept)
  <1>1. Init => Streams /\ ContractKept
    BY StreamsInit DEF Init, ContractKept
  <1>2. TypeOK /\ TypeOK' /\ Placed /\ Streams /\ [Next]_vars => Streams'
    BY StreamsStepAll
  <1>3. TypeOK /\ Placed /\ Streams /\ ContractKept /\ [Next]_vars => ContractKept'
    BY ContractStep DEF Streams
  <1> QED BY <1>1, <1>2, <1>3, WorkersType, PTL DEF Spec

(* ContractKept: a source that starts every identity at sequence zero and  *)
(* takes a new identity for every configuration is never found at fault    *)
(* (process_packet's check of the sequence number).                        *)
THEOREM WorkersContractKept == Spec => []ContractKept
  BY WorkersStreams, PTL

(* While the workers run, the packets that the input queues accepted of a  *)
(* slot in its current generation are, in their order, those of the        *)
(* outputs the caller was given, of what configure deferred, of the result *)
(* queue, in the thread's hands and in line.                               *)
THEOREM WorkersConserve == Spec => [](MadeHere /\ AllConserved)
  <1>1. Init => MadeHere /\ AllConserved
    BY ConservedInit
  <1>2. TypeOK /\ TypeOK' /\ Placed /\ MadeHere /\ AllConserved /\ [Next]_vars
          => (MadeHere /\ AllConserved)'
    BY AllConservedStep
  <1> QED BY <1>1, <1>2, WorkersType, PTL DEF Spec

(* The workers stop after a failure or for an owner that ends them, never  *)
(* by themselves.                                                          *)
THEOREM WorkersStopped == Spec => []Stopped
  <1>1. Init => Stopped
    BY PlacedInit
  <1>2. TypeOK /\ Stopped /\ [Next]_vars => Stopped'
    BY StoppedStep
  <1> QED BY <1>1, <1>2, WorkersType, PTL DEF Spec

(* Complete: nothing is lost while the workers run, and when finish        *)
(* returns the caller has the output of every packet that was submitted    *)
(* (poll's drain in finish, with the guard of Pending).                    *)
THEOREM WorkersComplete == Spec => Complete
  <1> DEFINE Given1 == call = "finish" /\ call' = "idle" => \A s \in Slots : IqOf(s, got'[s]) = sent[s]
  <1>1. TypeOK /\ Placed /\ Stopped /\ AllConserved /\ [Next]_vars => Given1
    BY AllReturned
  <1>2. TypeOK /\ AllConserved => NothingLost
    BY NothingLostIs
  <1>3. TypeOK' /\ NothingLost' /\ Given1 => [TypeOK' /\ NothingLost' /\ Given1]_vars
    OBVIOUS
  <1> QED BY <1>1, <1>2, WorkersType, WorkersStopped, WorkersConserve, PTL DEF Spec, Complete

(* Forgotten: a slot that was switched off keeps no receiver once          *)
(* configure has returned, and when reset_session has returned no slot has *)
(* a receiver, no output is left and no work is pending.                   *)
THEOREM WorkersForgotten == Spec => Forgotten
  <1> DEFINE Reset1 == call = "finish" /\ after = "end" /\ call' = "idle" =>
                         /\ \A s \in Slots : states'[s] = NoState /\ got'[s] = <<>>
                         /\ ~Pending' /\ deferred' = <<>> /\ outputs' = <<>>
  <1>1. Init => Forgetting /\ Emptied
    BY ForgottenInit
  <1>2. TypeOK /\ TypeOK' /\ Placed /\ Streams /\ Forgetting /\ Emptied /\ [Next]_vars
          => (Forgetting /\ Emptied)'
    BY ForgottenStep
  <1>3. TypeOK /\ Placed /\ Stopped /\ Forgetting /\ Emptied /\ [Next]_vars => Reset1
    BY ResetForgets
  <1>4. Stopped /\ Forgetting => DisabledForgotten
    BY DisabledMeans
  <1>5. DisabledForgotten' /\ Reset1 => [DisabledForgotten' /\ Reset1]_vars
    OBVIOUS
  <1> QED BY <1>1, <1>2, <1>3, <1>4, <1>5, WorkersType, WorkersStopped, WorkersStreams, PTL
          DEF Spec, Forgotten

=============================================================================
