----------------------- MODULE SubscriberStreamProofs -----------------------
(***************************************************************************)
(* Proofs about SubscriberStream, for every number of slots, table size,   *)
(* sequence limit and bound: what a subscriber is sent is numbered without *)
(* a gap, and successive numbers stand for successive source numbers,      *)
(* whatever the sources do, faults included.                               *)
(*                                                                         *)
(* Both follow from one fact, that a cursor has the numbers of the last    *)
(* message its identity was sent.  And that a table agrees with its        *)
(* eviction order, keeps the cursors of the live identities and serves its *)
(* subscriber to the end, wherever there is a cursor for every slot: an    *)
(* identity and a slot have one cursor each, so such a table evicts none.  *)
(***************************************************************************)
EXTENDS SubscriberStream, SequenceFacts, FiniteSetTheorems

Agree(t, h) ==
  /\ DOMAIN t = {"cur", "ord"}
  /\ \A k \in DOMAIN t.cur :
       /\ {"src", "sub"} \subseteq DOMAIN t.cur[k]
       /\ k \in DOMAIN h /\ h[k].sub = t.cur[k].sub /\ h[k].src = t.cur[k].src

Tracked == Agree(table, last)

Good(h, o) == Joins(h, o) /\ \A i \in 1..Len(o) : Follows(h, o, i)

(* Insertion adds one identity, and changes no other cursor it keeps.      *)
LEMMA InsertFacts ==
  ASSUME NEW t, NEW id, NEW c
  PROVE  /\ id \in DOMAIN InsertCursor(t, id, c).cur
         /\ InsertCursor(t, id, c).cur[id] = c
         /\ \A k \in DOMAIN InsertCursor(t, id, c).cur \ {id} :
              k \in DOMAIN t.cur /\ InsertCursor(t, id, c).cur[k] = t.cur[k]
  <1> DEFINE kept == Keep(t, {k \in DOMAIN t.cur : k[1] # id[1]})
             full == Cardinality(DOMAIN kept.cur) = MAX_IDENTITIES /\ kept.ord # <<>>
             room == IF full THEN Keep(kept, DOMAIN kept.cur \ {Head(kept.ord)}) ELSE kept
  <1>1. \A k \in DOMAIN kept.cur : k \in DOMAIN t.cur /\ kept.cur[k] = t.cur[k]
    BY DEF Keep
  <1>2. \A k \in DOMAIN room.cur : k \in DOMAIN kept.cur /\ room.cur[k] = kept.cur[k]
    BY DEF Keep
  <1>3. InsertCursor(t, id, c).cur = Put(room.cur, id, c)
    BY DEF InsertCursor
  <1> HIDE DEF kept, full, room
  <1> QED BY <1>1, <1>2, <1>3 DEF Put

LEMMA InsertAgrees ==
  ASSUME NEW t, NEW h, NEW id, NEW c, NEW v, Agree(t, h),
         {"src", "sub"} \subseteq DOMAIN c, v.sub = c.sub, v.src = c.src
  PROVE  Agree(InsertCursor(t, id, c), Put(h, id, v))
  <1> DEFINE r == InsertCursor(t, id, c)
  <1>1. \A k \in DOMAIN r.cur \ {id} : k \in DOMAIN t.cur /\ r.cur[k] = t.cur[k]
    BY InsertFacts
  <1>2. r.cur[id] = c
    BY InsertFacts
  <1>3. DOMAIN r = {"cur", "ord"}
    BY DEF InsertCursor
  <1> HIDE DEF r
  <1> QED BY <1>1, <1>2, <1>3 DEF Agree, Put, r

(* Any other table agrees with the history that agrees with it.            *)
LEMMA PutAgrees ==
  ASSUME NEW t, NEW h, NEW id, NEW c, NEW v, Agree(t, h),
         {"src", "sub"} \subseteq DOMAIN c, v.sub = c.sub, v.src = c.src
  PROVE  Agree([t EXCEPT !.cur = Put(t.cur, id, c)], Put(h, id, v))
  <1> DEFINE r == [t EXCEPT !.cur = Put(t.cur, id, c)]
  <1>1. DOMAIN r = {"cur", "ord"} /\ r.cur = Put(t.cur, id, c)
    BY DEF Agree
  <1> HIDE DEF r
  <1> QED BY <1>1 DEF Agree, Put, r

LEMMA AdvanceFacts ==
  ASSUME NEW c, {"src", "sub"} \subseteq DOMAIN c
  PROVE  /\ {"src", "sub"} \subseteq DOMAIN Advance(c)
         /\ Advance(c).src = c.src + 1 /\ Advance(c).sub = c.sub + 1
  BY DEF Advance

(* A message that has the next numbers keeps table and history in step.    *)
LEMMA AdvanceAgrees ==
  ASSUME NEW t, NEW h, NEW id, NEW v, Agree(t, h), id \in DOMAIN t.cur,
         v.sub = t.cur[id].sub + 1, v.src = t.cur[id].src + 1
  PROVE  Agree(Advanced(t, id), Put(h, id, v))
  <1>1. {"src", "sub"} \subseteq DOMAIN t.cur[id]
    BY DEF Agree
  <1>2. /\ {"src", "sub"} \subseteq DOMAIN Advance(t.cur[id])
        /\ Advance(t.cur[id]).sub = v.sub /\ Advance(t.cur[id]).src = v.src
    BY <1>1, AdvanceFacts
  <1>3. Agree([t EXCEPT !.cur = Put(t.cur, id, Advance(t.cur[id]))], Put(h, id, v))
    BY <1>2, PutAgrees
  <1> QED BY <1>3 DEF Advanced

LEMMA PutTwice ==
  ASSUME NEW h, NEW id, NEW u, NEW v
  PROVE  Put(Put(h, id, u), id, v) = Put(h, id, v)
  BY DEF Put

LEMMA SilentStep ==
  ASSUME NEW t, NEW h, Agree(t, h)
  PROVE  Agree(t, Note(h, <<>>)) /\ Good(h, <<>>)
  BY DEF Note, Good, Joins

(* One message: a start, or the successor of the last one.                 *)
LEMMA OneStep ==
  ASSUME NEW t, NEW h, NEW o,
         o.sub = 0 \/ (/\ o.id \in DOMAIN h /\ o.sub = h[o.id].sub + 1
                       /\ o.src = h[o.id].src + 1)
  PROVE  Good(h, <<o>>) /\ Note(h, <<o>>) = Put(h, o.id, o)
  BY DEF Note, Good, Joins, Follows

(* A start made for a block that has no cursor, and the block.             *)
LEMMA TwoStep ==
  ASSUME NEW h, NEW m
  PROVE  /\ Good(h, <<Sent(m, 0), Sent(m, 1)>>)
         /\ Note(h, <<Sent(m, 0), Sent(m, 1)>>) = Put(h, m.id, Sent(m, 1))
  <1> DEFINE o == <<Sent(m, 0), Sent(m, 1)>>
  <1>1. Len(o) = 2 /\ o[1] = Sent(m, 0) /\ o[2] = Sent(m, 1)
    OBVIOUS
  <1>2. o # <<>>
    BY <1>1
  <1> HIDE DEF o
  <1>3. Joins(h, o)
    BY <1>1 DEF Joins, Sent
  <1>4. \A i \in 1..Len(o) : Follows(h, o, i)
    <2> TAKE i \in 1..Len(o)
    <2>1. CASE i = 1
      BY <1>1, <2>1 DEF Follows, Sent
    <2>2. CASE i = 2
      BY <1>1, <2>2 DEF Follows, Sent
    <2> QED BY <1>1, <2>1, <2>2
  <1>5. Note(h, o) = Put(h, m.id, Sent(m, 1))
    BY <1>1, <1>2 DEF Note, Sent
  <1> QED BY <1>3, <1>4, <1>5 DEF Good, o

(* What a handler returns keeps the table and the history in step, and     *)
(* puts out nothing but successors.                                        *)
InStep(h, r) == Agree(r.table, Note(h, r.out)) /\ Good(h, r.out)

LEMMA ReplyNothing ==
  ASSUME NEW t, NEW h, Agree(t, h)
  PROVE  InStep(h, Reply(t, <<>>)) /\ InStep(h, Refuse(t))
  BY SilentStep DEF InStep, Reply, Refuse

LEMMA ReplyInsert ==
  ASSUME NEW t, NEW h, NEW m, NEW c, Agree(t, h),
         {"src", "sub"} \subseteq DOMAIN c, c.sub = 0, c.src = m.seq
  PROVE  InStep(h, Reply(InsertCursor(t, m.id, c), <<Sent(m, 0)>>))
  <1> DEFINE r == InsertCursor(t, m.id, c)
             o == Sent(m, 0)
  <1>1. o.sub = 0 /\ o.src = m.seq /\ o.id = m.id
    BY DEF Sent
  <1>2. Agree(r, Put(h, m.id, o))
    <2> HIDE DEF o
    <2> QED BY <1>1, InsertAgrees
  <1>3. Good(h, <<o>>) /\ Note(h, <<o>>) = Put(h, m.id, o)
    <2> HIDE DEF o
    <2> QED BY <1>1, OneStep
  <1> HIDE DEF r, o
  <1>4. InStep(h, Reply(r, <<o>>))
    BY <1>2, <1>3 DEF InStep, Reply
  <1> QED BY <1>4 DEF r, o

LEMMA ReplyAdvance ==
  ASSUME NEW t, NEW h, NEW m, Agree(t, h), m.id \in DOMAIN t.cur,
         CanAdvance(t.cur[m.id], m.seq)
  PROVE  InStep(h, Reply(Advanced(t, m.id), <<Sent(m, t.cur[m.id].sub + 1)>>))
  <1> DEFINE r == Advanced(t, m.id)
             o == Sent(m, t.cur[m.id].sub + 1)
  <1>1. o.sub = t.cur[m.id].sub + 1 /\ o.src = t.cur[m.id].src + 1 /\ o.id = m.id
    BY DEF Sent, CanAdvance
  <1>2. /\ m.id \in DOMAIN h /\ h[m.id].sub = t.cur[m.id].sub
        /\ h[m.id].src = t.cur[m.id].src
    BY DEF Agree
  <1> HIDE DEF o
  <1>3. Agree(r, Put(h, m.id, o))
    BY <1>1, AdvanceAgrees
  <1>4. Good(h, <<o>>) /\ Note(h, <<o>>) = Put(h, m.id, o)
    BY <1>1, <1>2, OneStep
  <1> HIDE DEF r
  <1>5. InStep(h, Reply(r, <<o>>))
    BY <1>3, <1>4 DEF InStep, Reply
  <1> QED BY <1>5 DEF r, o

LEMMA ReplyFirst ==
  ASSUME NEW t, NEW h, NEW m, Agree(t, Put(h, m.id, Sent(m, 1)))
  PROVE  InStep(h, Reply(t, <<Sent(m, 0), Sent(m, 1)>>))
  BY TwoStep DEF InStep, Reply

LEMMA AudioStep ==
  ASSUME NEW t, NEW h, NEW m, Agree(t, h)
  PROVE  InStep(h, AudioFrames(t, m))
  <1>1. CASE (m.seq = 0) # m.empty
    BY <1>1, ReplyNothing DEF AudioFrames
  <1>2. CASE (m.seq = 0) = m.empty /\ m.seq = 0
    <2>1. AudioFrames(t, m) = Reply(InsertCursor(t, m.id, AudioCursor(0, 0, m.fmt)), <<Sent(m, 0)>>)
      BY <1>2 DEF AudioFrames
    <2>2. LET c == AudioCursor(0, 0, m.fmt) IN
            {"src", "sub"} \subseteq DOMAIN c /\ c.sub = 0 /\ c.src = m.seq
      BY <1>2 DEF AudioCursor
    <2> QED BY <2>1, <2>2, ReplyInsert
  <1>3. CASE (m.seq = 0) = m.empty /\ m.seq # 0 /\ m.id \in DOMAIN t.cur
    <2>1. AudioFrames(t, m) = AudioBlock(t, m, FALSE)
      BY <1>3 DEF AudioFrames
    <2>2. \/ AudioBlock(t, m, FALSE) = Refuse(t)
          \/ /\ CanAdvance(t.cur[m.id], m.seq)
             /\ AudioBlock(t, m, FALSE)
                  = Reply(Advanced(t, m.id), <<Sent(m, t.cur[m.id].sub + 1)>>)
      BY DEF AudioBlock
    <2> QED BY <1>3, <2>1, <2>2, ReplyNothing, ReplyAdvance
  <1>4. CASE (m.seq = 0) = m.empty /\ m.seq # 0 /\ m.id \notin DOMAIN t.cur
    <2> DEFINE c == AudioCursor(m.seq - 1, 0, m.fmt)
               r == InsertCursor(t, m.id, c)
    <2>1. AudioFrames(t, m) = AudioBlock(t, m, TRUE)
      BY <1>4 DEF AudioFrames
    <2>2. m.id \in DOMAIN r.cur /\ r.cur[m.id] = c
      BY InsertFacts
    <2>3. {"src", "sub"} \subseteq DOMAIN c /\ c.sub = 0
      BY DEF AudioCursor
    <2>4. \/ AudioBlock(t, m, TRUE) = Refuse(t)
          \/ /\ CanAdvance(c, m.seq)
             /\ AudioBlock(t, m, TRUE)
                  = Reply(Advanced(r, m.id), <<Sent(m, 0), Sent(m, 1)>>)
      <3> HIDE DEF c
      <3> QED BY <2>2 DEF AudioBlock, r, c
    <2>5. ASSUME CanAdvance(c, m.seq)
          PROVE  Agree(Advanced(r, m.id), Put(h, m.id, Sent(m, 1)))
      <3> DEFINE u == [id |-> m.id, sub |-> c.sub, src |-> c.src]
                 v == Sent(m, 1)
      <3>1. u.sub = c.sub /\ u.src = c.src
        OBVIOUS
      <3>2. v.sub = c.sub + 1 /\ v.src = c.src + 1
        <4>1. v.sub = 1 /\ v.src = m.seq
          BY DEF Sent
        <4> HIDE DEF c, v
        <4> QED BY <2>3, <2>5, <4>1 DEF CanAdvance
      <3> HIDE DEF c, u, v, r
      <3>3. Agree(r, Put(h, m.id, u))
        BY <2>3, <3>1, InsertAgrees DEF r
      <3>4. Agree(Advanced(r, m.id), Put(Put(h, m.id, u), m.id, v))
        BY <2>2, <3>2, <3>3, AdvanceAgrees
      <3>5. Put(Put(h, m.id, u), m.id, v) = Put(h, m.id, v)
        BY PutTwice
      <3>6. Agree(Advanced(r, m.id), Put(h, m.id, v))
        BY <3>4, <3>5
      <3> QED BY <3>6 DEF v
    <2> HIDE DEF c, r
    <2> QED BY <2>1, <2>4, <2>5, ReplyNothing, ReplyFirst
  <1> QED BY <1>1, <1>2, <1>3, <1>4

LEMMA KeepAgrees ==
  ASSUME NEW t, NEW h, Agree(t, h), NEW K \in SUBSET DOMAIN t.cur
  PROVE  Agree(Keep(t, K), h)
  BY DEF Agree, Keep

LEMMA UnboundFacts ==
  ASSUME NEW t, NEW h, NEW id, Agree(t, h)
  PROVE  Agree(Unbound(t, id), h) /\ DOMAIN Unbound(t, id).cur = DOMAIN t.cur
  <1>1. CASE id \notin DOMAIN t.cur
    BY <1>1 DEF Unbound
  <1>2. CASE id \in DOMAIN t.cur
    <2> DEFINE c == [t.cur[id] EXCEPT !.bound = {}]
    <2>1. c.src = t.cur[id].src /\ c.sub = t.cur[id].sub /\ {"src", "sub"} \subseteq DOMAIN c
      BY <1>2 DEF Agree
    <2>2. Unbound(t, id) = [t EXCEPT !.cur = Put(t.cur, id, c)]
      BY <1>2 DEF Unbound
    <2> HIDE DEF c
    <2>3. DOMAIN Unbound(t, id) = {"cur", "ord"} /\ Unbound(t, id).cur = Put(t.cur, id, c)
      BY <2>2 DEF Agree
    <2> QED BY <1>2, <2>1, <2>3 DEF Agree, Put
  <1> QED BY <1>1, <1>2

LEMMA DecodeFirstStep ==
  ASSUME NEW t, NEW h, NEW m, Agree(t, h)
  PROVE  InStep(h, DecodeFirst(t, m))
  <1> DEFINE others == Keep(t, {k \in DOMAIN t.cur : t.cur[k].ch # m.ch})
             c(sub) == DecodeCursor(m.seq, sub, m.ch, {})
  <1>1. Agree(others, h)
    BY KeepAgrees
  <1>2. ASSUME NEW sub
        PROVE  {"src", "sub"} \subseteq DOMAIN c(sub) /\ c(sub).sub = sub /\ c(sub).src = m.seq
    BY DEF DecodeCursor
  <1>3. CASE m.seq = 0 /\ ~m.start
    BY <1>3, ReplyNothing DEF DecodeFirst
  <1>4. CASE m.start
    <2>1. DecodeFirst(t, m) = Reply(InsertCursor(others, m.id, c(0)), <<Sent(m, 0)>>)
      BY <1>4 DEF DecodeFirst
    <2> HIDE DEF others, c
    <2> QED BY <1>1, <1>2, <2>1, ReplyInsert
  <1>5. CASE m.seq # 0 /\ ~m.start
    <2>1. DecodeFirst(t, m)
            = Reply(InsertCursor(others, m.id, c(1)), <<Sent(m, 0), Sent(m, 1)>>)
      BY <1>5 DEF DecodeFirst
    <2> DEFINE v == Sent(m, 1)
    <2>2. v.sub = c(1).sub /\ v.src = c(1).src
      BY <1>2 DEF Sent
    <2>3. Agree(InsertCursor(others, m.id, c(1)), Put(h, m.id, v))
      <3> HIDE DEF others, c, v
      <3> QED BY <1>1, <1>2, <2>2, InsertAgrees
    <2> HIDE DEF others, c
    <2> QED BY <2>1, <2>3, ReplyFirst
  <1> QED BY <1>3, <1>4, <1>5

LEMMA DecodeNextStep ==
  ASSUME NEW t, NEW h, NEW m, Agree(t, h), m.id \in DOMAIN t.cur
  PROVE  InStep(h, DecodeNext(t, m))
  <1>1. \/ DecodeNext(t, m) = Refuse(t)
        \/ /\ CanAdvance(t.cur[m.id], m.seq)
           /\ DecodeNext(t, m)
                = Reply(Advanced(t, m.id), <<Sent(m, t.cur[m.id].sub + 1)>>)
    BY DEF DecodeNext
  <1> QED BY <1>1, ReplyNothing, ReplyAdvance

LEMMA DecodeStep ==
  ASSUME NEW t, NEW h, NEW m, Agree(t, h)
  PROVE  InStep(h, DecodeFrames(t, m))
  <1> DEFINE u == Unbound(t, m.id)
  <1>1. Agree(u, h) /\ DOMAIN u.cur = DOMAIN t.cur
    BY UnboundFacts
  <1>2. \/ DecodeFrames(t, m) = Reply(t, <<>>)
        \/ DecodeFrames(t, m) = DecodeFirst(u, m)
        \/ m.id \in DOMAIN t.cur /\ DecodeFrames(t, m) = DecodeNext(u, m)
    BY DEF DecodeFrames
  <1> HIDE DEF u
  <1> QED BY <1>1, <1>2, ReplyNothing, DecodeFirstStep, DecodeNextStep

(* The snapshot of a slot is sent as numbers 0 to sub.                     *)
LEMMA SeedStep ==
  ASSUME NEW s \in Slots, Seed(s), Tracked
  PROVE  Tracked' /\ Good(last, out')
  <1> SUFFICES ASSUME NEW b \in Boundaries(s), NEW sub \in 0..b,
                      table' = SeedDecode(table, s, live[s].id, b, sub),
                      out' = [i \in 1..(sub + 1) |-> [id |-> live[s].id, sub |-> i - 1, src |-> b]],
                      last' = Note(last, out')
               PROVE  Tracked' /\ Good(last, out')
    BY DEF Seed
  <1> DEFINE id == live[s].id
             o  == out'
             c  == DecodeCursor(b, sub, s, {b})
  <1>1. b \in Nat /\ sub \in Nat
    BY TableAssumption DEF Boundaries
  <1>2. /\ Len(o) = sub + 1 /\ o # <<>>
        /\ \A i \in 1..(sub + 1) : o[i].id = id /\ o[i].sub = i - 1 /\ o[i].src = b
    BY <1>1
  <1>3. c.sub = sub /\ c.src = b /\ {"src", "sub"} \subseteq DOMAIN c
    BY DEF DecodeCursor
  <1>4. table' = InsertCursor(table, id, c)
    BY DEF SeedDecode
  <1> HIDE DEF o, c, id
  <1>5. Good(last, o)
    <2>1. Joins(last, o)
      BY <1>1, <1>2 DEF Joins
    <2>2. \A i \in 1..Len(o) : Follows(last, o, i)
      <3> SUFFICES ASSUME NEW i \in 1..(sub + 1) PROVE Follows(last, o, i)
        BY <1>2
      <3>1. CASE i = 1
        BY <1>1, <1>2, <3>1 DEF Follows
      <3>2. CASE i > 1
        <4>1. i - 1 \in 1..(sub + 1)
          BY <1>1, <3>2
        <4>2. o[i].sub = i - 1 /\ o[i - 1].sub = (i - 1) - 1 /\ o[i].id = o[i - 1].id
          BY <1>2, <4>1
        <4> QED BY <1>1, <3>2, <4>2 DEF Follows
      <3> QED BY <1>1, <3>1, <3>2
    <2> QED BY <2>1, <2>2 DEF Good
  <1>6. sub + 1 \in 1..(sub + 1)
    BY <1>1
  <1>7. last' = Put(last, id, o[sub + 1])
    BY <1>2, <1>6 DEF Note, o
  <1>8. o[sub + 1].sub = c.sub /\ o[sub + 1].src = c.src
    BY <1>1, <1>2, <1>3, <1>6
  <1>9. Agree(InsertCursor(table, id, c), Put(last, id, o[sub + 1]))
    BY <1>3, <1>8, InsertAgrees DEF Tracked
  <1> QED BY <1>4, <1>5, <1>7, <1>9 DEF Tracked, o

LEMMA DeliverStep ==
  ASSUME NEW m, Deliver(m), Tracked
  PROVE  Tracked' /\ Good(last, out')
  <1>1. InStep(last, frames(m))
    BY AudioStep, DecodeStep DEF Tracked, frames
  <1>2. CASE phase = "open" /\ ~failed
    <2>1. table' = frames(m).table /\ out' = frames(m).out /\ last' = Note(last, frames(m).out)
      BY <1>2 DEF Deliver
    <2> QED BY <1>1, <2>1 DEF InStep, Tracked
  <1>3. CASE ~(phase = "open" /\ ~failed)
    <2>1. table' = table /\ last' = last /\ out' = <<>>
      BY <1>3 DEF Deliver, client
    <2> QED BY <2>1, SilentStep DEF Tracked
  <1> QED BY <1>2, <1>3

LEMMA QuietStep ==
  ASSUME table' = table, last' = last, out' = <<>>, Tracked
  PROVE  Tracked' /\ Good(last, out')
  BY SilentStep DEF Tracked

LEMMA NextTracked ==
  ASSUME Tracked, Next
  PROVE  Tracked' /\ Good(last, out')
  <1>1. ASSUME NEW s \in Slots, Block(s) PROVE Tracked' /\ Good(last, out')
    BY <1>1, DeliverStep DEF Block
  <1>2. ASSUME NEW s \in Slots, Remark(s) PROVE Tracked' /\ Good(last, out')
    BY <1>2, DeliverStep DEF Remark
  <1>3. ASSUME NEW s \in Slots, Retune(s) PROVE Tracked' /\ Good(last, out')
    BY <1>3, QuietStep DEF Retune, client
  <1>4. ASSUME NEW s \in Slots, Lose(s) PROVE Tracked' /\ Good(last, out')
    BY <1>4, QuietStep DEF Lose, client
  <1>5. ASSUME NEW s \in Slots, Reformat(s) PROVE Tracked' /\ Good(last, out')
    BY <1>5, QuietStep DEF Reformat, client
  <1>6. ASSUME NEW s \in Slots, Seed(s) PROVE Tracked' /\ Good(last, out')
    BY <1>6, SeedStep
  <1>7. ASSUME NEW s \in Slots, NoSnapshot(s) PROVE Tracked' /\ Good(last, out')
    BY <1>7, QuietStep DEF NoSnapshot
  <1>8. ASSUME Recapture PROVE Tracked' /\ Good(last, out')
    BY <1>8, QuietStep DEF Recapture, client
  <1>9. ASSUME Join PROVE Tracked' /\ Good(last, out')
    BY <1>9, QuietStep DEF Join
  <1> QED BY <1>1, <1>2, <1>3, <1>4, <1>5, <1>6, <1>7, <1>8, <1>9 DEF Next

LEMMA InitTracked == Init => Tracked
  BY DEF Init, Tracked, Agree, EmptyTable

LEMMA StillTracked == Tracked /\ UNCHANGED vars => Tracked'
  BY DEF Tracked, vars, client

(* A cursor always has the numbers of the last message that its identity   *)
(* was sent: insert_cursor, advance, eviction and seeding keep it so.      *)
THEOREM CursorsTrack == Spec => []Tracked
  <1>1. Tracked /\ [Next]_vars => Tracked'
    BY NextTracked, StillTracked
  <1> QED BY InitTracked, <1>1, PTL DEF Spec

(* What a subscriber is sent of an identity has the numbers 0, 1, 2, ...   *)
(* from every start, for any sources and any eviction.                     *)
THEOREM SubscriberNumbered == Spec => Numbered
  <1>1. Tracked /\ [Next]_vars => [\A i \in 1..Len(out') : Follows(last, out', i)]_vars
    BY NextTracked DEF Good
  <1> QED BY CursorsTrack, <1>1, PTL DEF Spec, Numbered

(* Successive numbers stand for successive numbers of the source, so a gap *)
(* of a source is never hidden by the renumbering.                         *)
THEOREM GapsNeverJoined == Spec => SourceKept
  <1>1. Tracked /\ [Next]_vars => [Joins(last, out')]_vars
    BY NextTracked DEF Good
  <1> QED BY CursorsTrack, <1>1, PTL DEF Spec, SourceKept

-----------------------------------------------------------------------------
(* The cursors and what is live.                                           *)

(* A table that its eviction order describes, with one identity of a       *)
(* channel id, and with cursors of a type.                                 *)
Sound(t, C) ==
  /\ DOMAIN t = {"cur", "ord"}
  /\ DOMAIN t.cur \subseteq Identity /\ t.ord \in Seq(Identity)
  /\ ToSet(t.ord) = DOMAIN t.cur /\ IsInjective(t.ord) /\ Len(t.ord) <= MAX_IDENTITIES
  /\ \A j, k \in DOMAIN t.cur : j # k => j[1] # k[1]
  /\ \A k \in DOMAIN t.cur : t.cur[k] \in C

(* The cursors: a subscriber never has more numbers than the source, and   *)
(* a boundary is where the cursor still is.                                *)
AudioCursors ==
  {c \in [src : Nat, sub : Nat, fmt : Formats] : c.sub <= c.src /\ c.src <= SeqLimit}
DecodeCursors ==
  {c \in [src : Nat, sub : Nat, ch : Slots, bound : SUBSET Nat] :
     c.sub <= c.src /\ c.src <= SeqLimit /\ c.bound \subseteq {c.src}}

(* One cursor of a channel.                                                *)
OneEach(t) == \A j, k \in DOMAIN t.cur : j # k => t.cur[j].ch # t.cur[k].ch

TableSound ==
  IF kind = "audio" THEN Sound(table, AudioCursors)
  ELSE Sound(table, DecodeCursors) /\ OneEach(table)

(* Identities are not used twice: what was sent is of an identity that was *)
(* live, and the channel ids of an epoch are counted.                      *)
Older(k) == k[2] < epoch \/ (k[2] = epoch /\ k[1] <= ids)
Origins ==
  /\ ids >= Cardinality(Slots)
  /\ \A s \in Slots : /\ live[s].id[2] = epoch /\ live[s].id[1] <= ids
                      /\ live[s].next <= SeqLimit + 1
  /\ \A r, s \in Slots : r # s => live[r].id[1] # live[s].id[1]
  /\ \A k \in DOMAIN last : Older(k)

(* Nothing was sent before the client joined, and no slot whose snapshot   *)
(* is still to be considered has a cursor.                                 *)
Joining ==
  /\ phase = "away" => DOMAIN last = {}
  /\ phase = "join" => /\ kind = "decode"
                       /\ \A k \in DOMAIN table.cur : table.cur[k].ch \notin todo

(* The cursor of a live identity is its slot's, and it is there once       *)
(* something was sent.                                                     *)
OwnChannel ==
  kind = "decode" =>
    \A s \in Slots : live[s].id \in DOMAIN table.cur => table.cur[live[s].id].ch = s

(* A cursor waits for the number its source has next, or its boundary      *)
(* covers that.                                                            *)
Waits(c, s) ==
  \/ c.src + 1 = live[s].next /\ (kind = "audio" => c.fmt = live[s].fmt)
  \/ kind = "decode" /\ c.src = live[s].next /\ c.bound = {c.src}
Fed(s) ==
  /\ live[s].id \in DOMAIN table.cur => Waits(table.cur[live[s].id], s)
  /\ live[s].id \in DOMAIN last => last[live[s].id].src + 1 >= live[s].next
Healthy == faults = 0 => ~failed /\ \A s \in Slots : Fed(s)

Kept ==
  TypeOK /\ Tracked /\ TableSound /\ Origins /\ Joining /\ OwnChannel /\ LiveKept /\ Healthy

-----------------------------------------------------------------------------
(* What the handlers make of a sound table.                                *)

(* The table is as long as its eviction order.                             *)
LEMMA SoundSize ==
  ASSUME NEW t, NEW C, Sound(t, C)
  PROVE  IsFiniteSet(DOMAIN t.cur) /\ Cardinality(DOMAIN t.cur) = Len(t.ord)
  <1> DEFINE n == Len(t.ord)
  <1>1. t.ord \in Seq(Identity) /\ n \in Nat /\ DOMAIN t.ord = 1..n
    BY DEF Sound
  <1>2. t.ord \in [1..n -> DOMAIN t.cur]
    BY <1>1 DEF Sound, ToSet
  <1>3. t.ord \in Bijection(1..n, DOMAIN t.cur)
    BY <1>1, <1>2 DEF Sound, ToSet, IsInjective, Bijection, Injection, Surjection
  <1>4. ExistsBijection(1..n, DOMAIN t.cur)
    BY <1>3 DEF ExistsBijection
  <1>5. IsFiniteSet(1..n)
    BY <1>1, FS_Interval
  <1> QED BY <1>1, <1>4, <1>5, FS_Bijection, FS_CountingElements

LEMMA KeepSound ==
  ASSUME NEW t, NEW C, Sound(t, C), NEW K \in SUBSET DOMAIN t.cur
  PROVE  /\ Sound(Keep(t, K), C) /\ DOMAIN Keep(t, K).cur = K
         /\ \A k \in K : Keep(t, K).cur[k] = t.cur[k]
  <1> DEFINE r == Keep(t, K)
  <1> PICK a : a = Among(t.ord, K)
    OBVIOUS
  <1>1. /\ DOMAIN r = {"cur", "ord"} /\ DOMAIN r.cur = K /\ r.ord = a
        /\ \A k \in K : r.cur[k] = t.cur[k]
    BY DEF Keep
  <1>2. t.ord \in Seq(Identity) /\ ToSet(t.ord) = DOMAIN t.cur /\ IsInjective(t.ord)
    BY DEF Sound
  <1>3. a \in Seq(Identity)
    <2>1. Among(t.ord, K) \in Seq(Identity)
      BY <1>2, AmongType
    <2> QED BY <2>1
  <1>4. ToSet(a) = K /\ IsInjective(a) /\ Len(a) <= Len(t.ord)
    <2>1. /\ ToSet(Among(t.ord, K)) = ToSet(t.ord) \cap K
          /\ IsInjective(t.ord) => IsInjective(Among(t.ord, K))
          /\ Len(Among(t.ord, K)) <= Len(t.ord)
      BY <1>2, AmongSet, ZenonT(60)
    <2>2. DOMAIN t.cur \cap K = K
      OBVIOUS
    <2> QED BY <1>2, <2>1, <2>2
  <1>5. Len(a) <= MAX_IDENTITIES
    BY <1>2, <1>3, <1>4, TableAssumption DEF Sound
  <1> HIDE DEF r
  <1>6. Sound(r, C)
    BY <1>1, <1>3, <1>4, <1>5 DEF Sound
  <1> QED BY <1>1, <1>6 DEF r

(* The cursors that insertion must keep if there is room for them.         *)
Others(t, id) == {k \in DOMAIN t.cur : k[1] # id[1]}

LEMMA InsertSound ==
  ASSUME NEW t, NEW C, Sound(t, C), NEW id \in Identity, NEW c \in C
  PROVE  /\ Sound(InsertCursor(t, id, c), C)
         /\ DOMAIN InsertCursor(t, id, c).cur \subseteq Others(t, id) \cup {id}
         /\ Cardinality(Others(t, id)) < MAX_IDENTITIES =>
              DOMAIN InsertCursor(t, id, c).cur = Others(t, id) \cup {id}
  <1> DEFINE kept == Keep(t, Others(t, id))
             full == Cardinality(DOMAIN kept.cur) = MAX_IDENTITIES /\ kept.ord # <<>>
             less == Keep(kept, DOMAIN kept.cur \ {Head(kept.ord)})
             room == IF full THEN less ELSE kept
             r    == InsertCursor(t, id, c)
  <1>1. /\ DOMAIN r = {"cur", "ord"}
        /\ r.cur = Put(room.cur, id, c) /\ r.ord = Append(room.ord, id)
    BY DEF InsertCursor, Others
  <1>2. Sound(kept, C) /\ DOMAIN kept.cur = Others(t, id)
    BY KeepSound DEF Others
  <1>3. IsFiniteSet(DOMAIN kept.cur) /\ Cardinality(DOMAIN kept.cur) = Len(kept.ord)
        /\ Len(kept.ord) \in Nat /\ Len(kept.ord) <= MAX_IDENTITIES
    <2> HIDE DEF kept
    <2>1. kept.ord \in Seq(Identity) /\ Len(kept.ord) <= MAX_IDENTITIES
      BY <1>2 DEF Sound
    <2> QED BY <1>2, <2>1, SoundSize
  <1>4. /\ Sound(room, C) /\ DOMAIN room.cur \subseteq Others(t, id)
        /\ Len(room.ord) < MAX_IDENTITIES
        /\ (~full => DOMAIN room.cur = Others(t, id))
    <2>1. CASE full
      <3>1. Head(kept.ord) \in DOMAIN kept.cur
        <4> HIDE DEF kept
        <4>1. kept.ord \in Seq(Identity) /\ kept.ord # <<>>
              /\ ToSet(kept.ord) = DOMAIN kept.cur
          BY <1>2, <2>1 DEF Sound
        <4>2. 1 \in DOMAIN kept.ord /\ Head(kept.ord) = kept.ord[1]
          BY <4>1
        <4> QED BY <4>1, <4>2 DEF ToSet
      <3>2. Sound(less, C) /\ DOMAIN less.cur = DOMAIN kept.cur \ {Head(kept.ord)}
        <4> HIDE DEF kept
        <4> QED BY <1>2, KeepSound
      <3>3. Cardinality(DOMAIN less.cur) = Cardinality(DOMAIN kept.cur) - 1
        <4> HIDE DEF kept, less
        <4> QED BY <1>3, <3>1, <3>2, FS_RemoveElement
      <3>4. Cardinality(DOMAIN less.cur) = Len(less.ord)
        <4> HIDE DEF kept, less
        <4> QED BY <3>2, SoundSize
      <3>5. room = less
        BY <2>1
      <3> HIDE DEF kept, less, room
      <3> QED BY <1>2, <1>3, <2>1, <3>2, <3>3, <3>4, <3>5, TableAssumption
    <2>2. CASE ~full
      <3>1. room = kept
        BY <2>2
      <3>2. Len(kept.ord) < MAX_IDENTITIES
        <4> HIDE DEF kept
        <4>1. kept.ord = <<>> => Len(kept.ord) = 0
          OBVIOUS
        <4> QED BY <1>3, <2>2, <4>1, TableAssumption
      <3> HIDE DEF kept, room
      <3> QED BY <1>2, <2>2, <3>1, <3>2
    <2> QED BY <2>1, <2>2
  <1>5. Cardinality(Others(t, id)) < MAX_IDENTITIES => ~full
    <2> HIDE DEF kept
    <2> QED BY <1>2, <1>3, TableAssumption
  <1>6. id \notin Others(t, id) /\ \A k \in Others(t, id) : k[1] # id[1]
    BY DEF Others
  <1> HIDE DEF kept, full, less, room, r
  <1>7. DOMAIN r.cur = DOMAIN room.cur \cup {id}
    BY <1>1 DEF Put
  <1>8. Sound(r, C)
    <2>1. /\ room.ord \in Seq(Identity) /\ ToSet(room.ord) = DOMAIN room.cur
          /\ IsInjective(room.ord) /\ Len(room.ord) \in Nat
      BY <1>4 DEF Sound
    <2>2. id \notin ToSet(room.ord)
      BY <1>4, <1>6, <2>1
    <2>3. /\ r.ord \in Seq(Identity) /\ Len(r.ord) = Len(room.ord) + 1
          /\ ToSet(r.ord) = ToSet(room.ord) \cup {id} /\ IsInjective(r.ord)
      BY <1>1, <2>1, <2>2, AppendElements
    <2>4. Len(r.ord) <= MAX_IDENTITIES
      BY <1>4, <2>1, <2>3, TableAssumption
    <2>5. \A k \in DOMAIN r.cur : r.cur[k] \in C
      BY <1>1, <1>4 DEF Put, Sound
    <2>6. \A j, k \in DOMAIN r.cur : j # k => j[1] # k[1]
      BY <1>4, <1>6, <1>7 DEF Sound
    <2>7. DOMAIN r.cur \subseteq Identity
      BY <1>4, <1>7 DEF Sound
    <2>8. ToSet(r.ord) = DOMAIN r.cur
      BY <1>7, <2>1, <2>3
    <2>9. DOMAIN r = {"cur", "ord"}
      BY <1>1
    <2> QED BY <2>3, <2>4, <2>5, <2>6, <2>7, <2>8, <2>9 DEF Sound
  <1>9. DOMAIN r.cur \subseteq Others(t, id) \cup {id}
    BY <1>4, <1>7
  <1>10. Cardinality(Others(t, id)) < MAX_IDENTITIES => DOMAIN r.cur = Others(t, id) \cup {id}
    BY <1>4, <1>5, <1>7
  <1> QED BY <1>8, <1>9, <1>10, ZenonT(60) DEF r

(* Another cursor for an identity of the table.                            *)
LEMMA PutSound ==
  ASSUME NEW t, NEW C, Sound(t, C), NEW id \in DOMAIN t.cur, NEW c \in C
  PROVE  /\ Sound([t EXCEPT !.cur = Put(t.cur, id, c)], C)
         /\ [t EXCEPT !.cur = Put(t.cur, id, c)].cur = [t.cur EXCEPT ![id] = c]
  <1> DEFINE r == [t EXCEPT !.cur = Put(t.cur, id, c)]
  <1>1. DOMAIN r = {"cur", "ord"} /\ r.cur = Put(t.cur, id, c) /\ r.ord = t.ord
    BY DEF Sound
  <1> HIDE DEF r
  <1>2. DOMAIN r.cur = DOMAIN t.cur /\ \A k \in DOMAIN r.cur : r.cur[k] = IF k = id THEN c ELSE t.cur[k]
    BY <1>1 DEF Put
  <1>3. Sound(r, C)
    BY <1>1, <1>2 DEF Sound
  <1>4. r.cur = [t.cur EXCEPT ![id] = c]
    BY <1>1 DEF Put
  <1> QED BY <1>3, <1>4 DEF r

(* A message that a source can send.                                       *)
Proper(m) ==
  /\ m.id \in Identity /\ m.seq \in Nat /\ m.seq <= SeqLimit
  /\ m.fmt \in Formats /\ m.ch \in Slots
  /\ m.empty = (m.seq = 0) /\ m.start = (m.seq = 0)

(* An answer that shows the message to the subscriber, last of all.        *)
Shows(r, m) ==
  /\ r.err = FALSE /\ r.out \in Seq(SentMessage) /\ r.out # <<>>
  /\ r.out[Len(r.out)].id = m.id /\ r.out[Len(r.out)].src = m.seq

LEMMA RepliesShow ==
  ASSUME NEW t, NEW m, Proper(m), NEW n \in Nat
  PROVE  /\ Shows(Reply(t, <<Sent(m, n)>>), m)
         /\ Shows(Reply(t, <<Sent(m, 0), Sent(m, 1)>>), m)
  <1>1. \A i \in Nat : Sent(m, i) \in SentMessage /\ Sent(m, i).id = m.id /\ Sent(m, i).src = m.seq
    BY DEF Sent, SentMessage, Proper
  <1>2. PICK a, b, c \in SentMessage : a = Sent(m, n) /\ b = Sent(m, 0) /\ c = Sent(m, 1)
    BY <1>1
  <1>3. /\ <<a>> \in Seq(SentMessage) /\ <<a>> # <<>> /\ <<a>>[Len(<<a>>)] = a
        /\ <<b, c>> \in Seq(SentMessage) /\ <<b, c>> # <<>> /\ <<b, c>>[Len(<<b, c>>)] = c
    OBVIOUS
  <1>4. a.id = m.id /\ a.src = m.seq /\ c.id = m.id /\ c.src = m.seq
    BY <1>1, <1>2
  <1>5. \A o : Reply(t, o).err = FALSE /\ Reply(t, o).out = o
    BY DEF Reply
  <1> QED BY <1>2, <1>3, <1>4, <1>5 DEF Shows

(* A cursor that can advance becomes the cursor of the message.            *)
LEMMA AdvanceTyped ==
  ASSUME NEW c, NEW seq, CanAdvance(c, seq)
  PROVE  /\ c \in AudioCursors =>
              /\ Advance(c) \in AudioCursors /\ Advance(c).src = seq
              /\ Advance(c).fmt = c.fmt
         /\ c \in DecodeCursors /\ c.bound = {} =>
              /\ Advance(c) \in DecodeCursors /\ Advance(c).src = seq
              /\ Advance(c).ch = c.ch /\ Advance(c).bound = {}
  <1> DEFINE d == Advance(c)
  <1>1. c.src + 1 <= SeqLimit /\ seq = c.src + 1 /\ c.sub + 1 <= SeqLimit
    BY DEF CanAdvance
  <1>2. ASSUME c \in AudioCursors
        PROVE  d \in AudioCursors /\ d.src = seq /\ d.fmt = c.fmt
    <2>1. c \in [src : Nat, sub : Nat, fmt : Formats] /\ c.sub <= c.src
      BY <1>2 DEF AudioCursors
    <2> PICK i \in Nat, j \in Nat, f \in Formats : c = [src |-> i, sub |-> j, fmt |-> f]
      BY <2>1
    <2>2. d = [src |-> i + 1, sub |-> j + 1, fmt |-> f]
      <3>1. [c EXCEPT !.src = @ + 1] = [src |-> i + 1, sub |-> j, fmt |-> f]
        OBVIOUS
      <3>2. d = [[c EXCEPT !.src = @ + 1] EXCEPT !.sub = @ + 1]
        BY DEF Advance
      <3> QED BY <3>1, <3>2
    <2> HIDE DEF d
    <2> QED BY <1>1, <2>1, <2>2 DEF AudioCursors
  <1>3. ASSUME c \in DecodeCursors, c.bound = {}
        PROVE  d \in DecodeCursors /\ d.src = seq /\ d.ch = c.ch /\ d.bound = {}
    <2>1. c \in [src : Nat, sub : Nat, ch : Slots, bound : SUBSET Nat] /\ c.sub <= c.src
      BY <1>3 DEF DecodeCursors
    <2> PICK i \in Nat, j \in Nat, s \in Slots, b \in SUBSET Nat :
                c = [src |-> i, sub |-> j, ch |-> s, bound |-> b]
      BY <2>1
    <2>2. d = [src |-> i + 1, sub |-> j + 1, ch |-> s, bound |-> b]
      <3>1. [c EXCEPT !.src = @ + 1] = [src |-> i + 1, sub |-> j, ch |-> s, bound |-> b]
        OBVIOUS
      <3>2. d = [[c EXCEPT !.src = @ + 1] EXCEPT !.sub = @ + 1]
        BY DEF Advance
      <3> QED BY <3>1, <3>2
    <2> HIDE DEF d
    <2> QED BY <1>1, <1>3, <2>1, <2>2 DEF DecodeCursors
  <1> QED BY <1>2, <1>3

(* One that cannot waits for another number.                               *)
LEMMA RefusedNumber ==
  ASSUME NEW c \in AudioCursors \cup DecodeCursors, NEW seq \in Nat, seq <= SeqLimit,
         ~CanAdvance(c, seq)
  PROVE  c.src + 1 # seq
  BY TableAssumption DEF CanAdvance, AudioCursors, DecodeCursors

LEMMA AudioKept ==
  ASSUME NEW t, NEW m, Sound(t, AudioCursors), Proper(m)
  PROVE  LET r == AudioFrames(t, m) IN
         /\ Sound(r.table, AudioCursors)
         /\ \A k \in DOMAIN r.table.cur \ {m.id} :
              k \in DOMAIN t.cur /\ r.table.cur[k] = t.cur[k]
         /\ \/ /\ Shows(r, m) /\ m.id \in DOMAIN r.table.cur
               /\ r.table.cur[m.id].src = m.seq /\ r.table.cur[m.id].fmt = m.fmt
            \/ /\ r = Refuse(t) /\ m.id \in DOMAIN t.cur /\ m.seq # 0
               /\ ~(t.cur[m.id].src + 1 = m.seq /\ t.cur[m.id].fmt = m.fmt)
  <1> DEFINE r == AudioFrames(t, m)
             Goal == /\ Sound(r.table, AudioCursors)
                     /\ \A k \in DOMAIN r.table.cur \ {m.id} :
                          k \in DOMAIN t.cur /\ r.table.cur[k] = t.cur[k]
                     /\ \/ /\ Shows(r, m) /\ m.id \in DOMAIN r.table.cur
                           /\ r.table.cur[m.id].src = m.seq /\ r.table.cur[m.id].fmt = m.fmt
                        \/ /\ r = Refuse(t) /\ m.id \in DOMAIN t.cur /\ m.seq # 0
                           /\ ~(t.cur[m.id].src + 1 = m.seq /\ t.cur[m.id].fmt = m.fmt)
  <1>0. m.id \in Identity /\ m.seq \in Nat /\ m.seq <= SeqLimit /\ m.fmt \in Formats
        /\ (m.seq = 0) = m.empty
    BY DEF Proper
  <1>1. ASSUME m.seq = 0 PROVE Goal
    <2> DEFINE c == AudioCursor(0, 0, m.fmt)
               u == InsertCursor(t, m.id, c)
    <2>1. c \in AudioCursors /\ c.src = 0 /\ c.fmt = m.fmt
      BY <1>0, TableAssumption DEF AudioCursor, AudioCursors
    <2>2. r = Reply(u, <<Sent(m, 0)>>)
      BY <1>0, <1>1 DEF AudioFrames
    <2>3. r.table = u
      BY <2>2 DEF Reply
    <2> HIDE DEF c
    <2>4. Sound(u, AudioCursors)
      BY <1>0, <2>1, InsertSound
    <2>5. /\ m.id \in DOMAIN u.cur /\ u.cur[m.id] = c
          /\ \A k \in DOMAIN u.cur \ {m.id} : k \in DOMAIN t.cur /\ u.cur[k] = t.cur[k]
      BY InsertFacts
    <2> HIDE DEF u
    <2>6. Shows(r, m)
      BY <2>2, RepliesShow
    <2> HIDE DEF r
    <2> QED BY <1>1, <2>1, <2>3, <2>4, <2>5, <2>6
  <1>2. ASSUME m.seq # 0, m.id \in DOMAIN t.cur PROVE Goal
    <2>1. r = AudioBlock(t, m, FALSE)
      BY <1>0, <1>2 DEF AudioFrames
    <2>2. t.cur[m.id] \in AudioCursors
      BY <1>2 DEF Sound
    <2>3. CASE t.cur[m.id].fmt = m.fmt /\ CanAdvance(t.cur[m.id], m.seq)
      <3> DEFINE c == Advance(t.cur[m.id])
                 u == Advanced(t, m.id)
      <3>1. r = Reply(u, <<Sent(m, t.cur[m.id].sub + 1)>>)
        BY <2>1, <2>3 DEF AudioBlock
      <3>2. c \in AudioCursors /\ c.src = m.seq /\ c.fmt = m.fmt
        BY <2>2, <2>3, AdvanceTyped
      <3>3. t.cur[m.id].sub + 1 \in Nat
        BY <2>2 DEF AudioCursors
      <3>4. Shows(r, m)
        BY <3>1, <3>3, RepliesShow
      <3>5. r.table = [t EXCEPT !.cur = Put(t.cur, m.id, c)]
        BY <3>1 DEF Reply, Advanced
      <3> HIDE DEF c, u, r
      <3>6. Sound(r.table, AudioCursors) /\ r.table.cur = [t.cur EXCEPT ![m.id] = c]
        BY <1>2, <3>2, <3>5, PutSound
      <3> QED BY <1>2, <3>2, <3>4, <3>6
    <2>4. CASE ~(t.cur[m.id].fmt = m.fmt /\ CanAdvance(t.cur[m.id], m.seq))
      <3>1. r = Refuse(t)
        BY <2>1, <2>4 DEF AudioBlock
      <3>2. r.table = t
        BY <3>1 DEF Refuse
      <3>3. ~(t.cur[m.id].src + 1 = m.seq /\ t.cur[m.id].fmt = m.fmt)
        BY <1>0, <2>2, <2>4, RefusedNumber
      <3> HIDE DEF r
      <3> QED BY <1>2, <3>1, <3>2, <3>3
    <2> QED BY <2>3, <2>4
  <1>3. ASSUME m.seq # 0, m.id \notin DOMAIN t.cur PROVE Goal
    <2> DEFINE c == AudioCursor(m.seq - 1, 0, m.fmt)
               u == InsertCursor(t, m.id, c)
               d == Advance(c)
    <2>1. r = AudioBlock(t, m, TRUE)
      BY <1>0, <1>3 DEF AudioFrames
    <2>2. c \in AudioCursors /\ c.fmt = m.fmt /\ c.sub = 0 /\ c.src = m.seq - 1
      BY <1>0, <1>3, TableAssumption DEF AudioCursor, AudioCursors
    <2>3. /\ m.id \in DOMAIN u.cur /\ u.cur[m.id] = c
          /\ \A k \in DOMAIN u.cur \ {m.id} : k \in DOMAIN t.cur /\ u.cur[k] = t.cur[k]
      BY InsertFacts
    <2>4. CanAdvance(c, m.seq)
      <3> HIDE DEF c
      <3> QED BY <1>0, <1>3, <2>2, TableAssumption DEF CanAdvance
    <2>5. r = Reply(Advanced(u, m.id), <<Sent(m, 0), Sent(m, 1)>>)
      <3> HIDE DEF c
      <3> QED BY <2>1, <2>2, <2>3, <2>4 DEF AudioBlock, u, c
    <2>6. d \in AudioCursors /\ d.src = m.seq /\ d.fmt = m.fmt
      <3> HIDE DEF c
      <3> QED BY <2>2, <2>4, AdvanceTyped
    <2> HIDE DEF c
    <2>7. Sound(u, AudioCursors)
      BY <1>0, <2>2, InsertSound
    <2> HIDE DEF u
    <2>8. r.table = [u EXCEPT !.cur = Put(u.cur, m.id, d)]
      BY <2>3, <2>5 DEF Reply, Advanced
    <2>9. Shows(r, m)
      BY <2>5, RepliesShow
    <2> HIDE DEF d, r
    <2>10. Sound(r.table, AudioCursors) /\ r.table.cur = [u.cur EXCEPT ![m.id] = d]
      BY <2>3, <2>6, <2>7, <2>8, PutSound
    <2> QED BY <2>3, <2>6, <2>9, <2>10
  <1> QED BY <1>1, <1>2, <1>3

(* A table without a cursor of one of the channels is not full.            *)
LEMMA ChannelRoom ==
  ASSUME NEW t, Sound(t, DecodeCursors), OneEach(t), NEW ch \in Slots, NEW id,
         \A k \in DOMAIN t.cur : t.cur[k].ch # ch,
         Cardinality(Slots) <= MAX_IDENTITIES
  PROVE  Cardinality(Others(t, id)) < MAX_IDENTITIES
  <1> DEFINE K == DOMAIN t.cur
             f == [k \in K |-> t.cur[k].ch]
  <1>1. IsFiniteSet(K)
    BY SoundSize
  <1>2. f \in Injection(K, Slots \ {ch})
    <2>1. \A k \in K : t.cur[k].ch \in Slots
      BY DEF Sound, DecodeCursors
    <2> QED BY <2>1 DEF Injection, IsInjective, OneEach
  <1>3. IsFiniteSet(Slots) /\ Cardinality(Slots) \in Nat
    BY StreamAssumption, FS_CardinalityType
  <1>4. IsFiniteSet(Slots \ {ch}) /\ Cardinality(Slots \ {ch}) = Cardinality(Slots) - 1
    BY <1>3, FS_RemoveElement
  <1> HIDE DEF K, f
  <1>5. Cardinality(K) <= Cardinality(Slots \ {ch})
    BY <1>2, <1>4, FS_Injection
  <1>6. IsFiniteSet(Others(t, id)) /\ Cardinality(Others(t, id)) <= Cardinality(K)
    BY <1>1, FS_Subset DEF Others, K
  <1>7. Cardinality(K) \in Nat /\ Cardinality(Others(t, id)) \in Nat
    BY <1>1, <1>6, FS_CardinalityType
  <1> QED BY <1>3, <1>4, <1>5, <1>6, <1>7, TableAssumption

(* Without its boundary a cursor is otherwise the same.                    *)
LEMMA UnboundSound ==
  ASSUME NEW t, Sound(t, DecodeCursors), OneEach(t), NEW id
  PROVE  LET u == Unbound(t, id) IN
         /\ Sound(u, DecodeCursors) /\ OneEach(u) /\ DOMAIN u.cur = DOMAIN t.cur
         /\ \A k \in DOMAIN t.cur : /\ u.cur[k].src = t.cur[k].src /\ u.cur[k].ch = t.cur[k].ch
                                    /\ k # id => u.cur[k] = t.cur[k]
         /\ id \in DOMAIN t.cur => u.cur[id].bound = {}
  <1>1. CASE id \notin DOMAIN t.cur
    BY <1>1 DEF Unbound
  <1>2. CASE id \in DOMAIN t.cur
    <2> DEFINE c == [t.cur[id] EXCEPT !.bound = {}]
               u == Unbound(t, id)
    <2>1. t.cur[id] \in DecodeCursors
      BY <1>2 DEF Sound
    <2>2. /\ c \in DecodeCursors /\ c.src = t.cur[id].src /\ c.ch = t.cur[id].ch
          /\ c.bound = {}
      BY <2>1 DEF DecodeCursors
    <2>3. u = [t EXCEPT !.cur = Put(t.cur, id, c)]
      BY <1>2 DEF Unbound
    <2> HIDE DEF c, u
    <2>4. Sound(u, DecodeCursors) /\ u.cur = [t.cur EXCEPT ![id] = c]
      BY <1>2, <2>2, <2>3, PutSound
    <2>5. OneEach(u)
      BY <2>2, <2>4 DEF OneEach
    <2> QED BY <1>2, <2>2, <2>4, <2>5 DEF u
  <1> QED BY <1>1, <1>2

(* What a shown message leaves: its cursor, and the other channels'.       *)
ShownIn(t, r, m) ==
  /\ Shows(r, m) /\ m.id \in DOMAIN r.table.cur
  /\ r.table.cur[m.id].src = m.seq /\ r.table.cur[m.id].ch = m.ch
  /\ \A k \in DOMAIN t.cur :
       k[1] # m.id[1] /\ t.cur[k].ch # m.ch => k \in DOMAIN r.table.cur

(* A table in which only the message's identity is new or changed.         *)
OnlyItsOwn(t, u, m) ==
  /\ Sound(u, DecodeCursors) /\ OneEach(u)
  /\ \A k \in DOMAIN u.cur \ {m.id} : k \in DOMAIN t.cur /\ u.cur[k] = t.cur[k]

LEMMA FirstKept ==
  ASSUME NEW t, NEW m, Sound(t, DecodeCursors), OneEach(t), Proper(m),
         Cardinality(Slots) <= MAX_IDENTITIES
  PROVE  LET r == DecodeFirst(t, m) IN OnlyItsOwn(t, r.table, m) /\ ShownIn(t, r, m)
  <1> DEFINE K == {k \in DOMAIN t.cur : t.cur[k].ch # m.ch}
             others == Keep(t, K)
             sub == IF m.start THEN 0 ELSE 1
             c == DecodeCursor(m.seq, sub, m.ch, {})
             u == InsertCursor(others, m.id, c)
             r == DecodeFirst(t, m)
  <1>0. m.id \in Identity /\ m.seq \in Nat /\ m.seq <= SeqLimit /\ m.ch \in Slots
        /\ m.start = (m.seq = 0)
    BY DEF Proper
  <1>1. c \in DecodeCursors /\ c.src = m.seq /\ c.ch = m.ch
    <2>1. sub \in Nat /\ sub <= m.seq
      <3>1. sub = IF m.seq = 0 THEN 0 ELSE 1
        BY <1>0, Zenon
      <3> HIDE DEF sub
      <3> QED BY <1>0, <3>1
    <2> HIDE DEF sub
    <2>2. c = [src |-> m.seq, sub |-> sub, ch |-> m.ch, bound |-> {}]
      BY DEF DecodeCursor
    <2> QED BY <1>0, <2>1, <2>2 DEF DecodeCursors
  <1>2. /\ Sound(others, DecodeCursors) /\ DOMAIN others.cur = K
        /\ \A k \in K : others.cur[k] = t.cur[k]
    BY KeepSound
  <1>3. r = Reply(u, IF m.start THEN <<Sent(m, 0)>> ELSE <<Sent(m, 0), Sent(m, 1)>>)
    BY <1>0 DEF DecodeFirst
  <1>4. r.table = u
    BY <1>3 DEF Reply
  <1>5. Shows(r, m)
    BY <1>3, RepliesShow
  <1>6. K \subseteq DOMAIN t.cur /\ \A k \in K : t.cur[k].ch # m.ch
    OBVIOUS
  <1>7. \A k \in DOMAIN t.cur : t.cur[k].ch # m.ch => k \in K
    OBVIOUS
  <1> HIDE DEF K, others, c, r
  <1>8. Sound(u, DecodeCursors) /\ DOMAIN u.cur = Others(others, m.id) \cup {m.id}
    <2>1. OneEach(others)
      BY <1>2, <1>6 DEF OneEach
    <2>2. Cardinality(Others(others, m.id)) < MAX_IDENTITIES
      BY <1>0, <1>2, <1>6, <2>1, ChannelRoom
    <2> QED BY <1>0, <1>1, <1>2, <2>2, InsertSound
  <1>9. /\ m.id \in DOMAIN u.cur /\ u.cur[m.id] = c
        /\ \A k \in DOMAIN u.cur \ {m.id} : k \in K /\ u.cur[k] = t.cur[k]
    BY <1>2, InsertFacts
  <1> HIDE DEF u
  <1>10. OneEach(u)
    BY <1>1, <1>6, <1>9 DEF OneEach
  <1>11. \A k \in DOMAIN t.cur : k[1] # m.id[1] /\ t.cur[k].ch # m.ch => k \in DOMAIN u.cur
    BY <1>2, <1>7, <1>8 DEF Others
  <1> QED BY <1>1, <1>4, <1>5, <1>6, <1>8, <1>9, <1>10, <1>11 DEF OnlyItsOwn, ShownIn, r

(* A refused message leaves the cursors where they are.                    *)
RefusedIn(t, r, m) ==
  /\ r.err = TRUE /\ r.out = <<>> /\ DOMAIN r.table.cur = DOMAIN t.cur
  /\ m.id \in DOMAIN t.cur /\ r.table.cur[m.id].ch = t.cur[m.id].ch
  /\ ~(t.cur[m.id].ch = m.ch /\ t.cur[m.id].src + 1 = m.seq)

LEMMA NextKept ==
  ASSUME NEW t, NEW m, Sound(t, DecodeCursors), OneEach(t), Proper(m),
         m.id \in DOMAIN t.cur, t.cur[m.id].bound = {}
  PROVE  LET r == DecodeNext(t, m) IN
         OnlyItsOwn(t, r.table, m) /\ (ShownIn(t, r, m) \/ RefusedIn(t, r, m))
  <1> DEFINE c == t.cur[m.id]
             d == Advance(c)
             u == Advanced(t, m.id)
             r == DecodeNext(t, m)
  <1>0. m.id \in Identity /\ m.seq \in Nat /\ m.seq <= SeqLimit
    BY DEF Proper
  <1>1. c \in DecodeCursors /\ c.sub + 1 \in Nat
    BY DEF Sound, DecodeCursors
  <1>2. CASE c.ch = m.ch /\ CanAdvance(c, m.seq)
    <2>1. r = Reply(u, <<Sent(m, c.sub + 1)>>)
      BY <1>2 DEF DecodeNext
    <2>2. d \in DecodeCursors /\ d.src = m.seq /\ d.ch = c.ch
      BY <1>1, <1>2, AdvanceTyped
    <2>3. Shows(r, m)
      BY <1>1, <2>1, RepliesShow
    <2>4. r.table = [t EXCEPT !.cur = Put(t.cur, m.id, d)]
      BY <2>1 DEF Reply, Advanced
    <2> HIDE DEF d, u, r
    <2>5. Sound(r.table, DecodeCursors) /\ r.table.cur = [t.cur EXCEPT ![m.id] = d]
      BY <2>2, <2>4, PutSound
    <2>6. OneEach(r.table)
      BY <2>2, <2>5 DEF OneEach
    <2> QED BY <1>2, <2>2, <2>3, <2>5, <2>6 DEF OnlyItsOwn, ShownIn, r
  <1>3. CASE ~(c.ch = m.ch /\ CanAdvance(c, m.seq))
    <2>1. r = Refuse(t)
      BY <1>3 DEF DecodeNext
    <2>2. r.table = t /\ r.err = TRUE /\ r.out = <<>>
      BY <2>1 DEF Refuse
    <2>3. ~(c.ch = m.ch /\ c.src + 1 = m.seq)
      BY <1>0, <1>1, <1>3, RefusedNumber
    <2> HIDE DEF r
    <2> QED BY <2>2, <2>3 DEF OnlyItsOwn, RefusedIn, r
  <1> QED BY <1>2, <1>3

LEMMA DecodeKept ==
  ASSUME NEW t, NEW m, Sound(t, DecodeCursors), OneEach(t), Proper(m),
         Cardinality(Slots) <= MAX_IDENTITIES
  PROVE  LET r == DecodeFrames(t, m) IN
         /\ OnlyItsOwn(t, r.table, m)
         /\ \/ r = Reply(t, <<>>) /\ Covered(t, m)
            \/ ShownIn(t, r, m)
            \/ RefusedIn(t, r, m) /\ ~Covered(t, m)
  <1> DEFINE u == Unbound(t, m.id)
             r == DecodeFrames(t, m)
  <1>1. /\ Sound(u, DecodeCursors) /\ OneEach(u) /\ DOMAIN u.cur = DOMAIN t.cur
        /\ \A k \in DOMAIN t.cur : /\ u.cur[k].src = t.cur[k].src /\ u.cur[k].ch = t.cur[k].ch
                                   /\ k # m.id => u.cur[k] = t.cur[k]
        /\ m.id \in DOMAIN t.cur => u.cur[m.id].bound = {}
    BY UnboundSound
  <1>2. CASE Covered(t, m)
    <2>1. r = Reply(t, <<>>)
      BY <1>2 DEF DecodeFrames
    <2>2. r.table = t
      BY <2>1 DEF Reply
    <2> HIDE DEF r
    <2> QED BY <1>2, <2>1, <2>2 DEF OnlyItsOwn, r
  <1>3. CASE ~Covered(t, m) /\ (m.seq = 0 \/ m.id \notin DOMAIN t.cur)
    <2>1. r = DecodeFirst(u, m)
      BY <1>3 DEF DecodeFrames
    <2> HIDE DEF r, u
    <2>2. OnlyItsOwn(u, r.table, m) /\ ShownIn(u, r, m)
      BY <1>1, <2>1, FirstKept
    <2> QED BY <1>1, <2>2 DEF OnlyItsOwn, ShownIn, r
  <1>4. CASE ~Covered(t, m) /\ m.seq # 0 /\ m.id \in DOMAIN t.cur
    <2>1. r = DecodeNext(u, m)
      BY <1>4 DEF DecodeFrames
    <2> HIDE DEF r, u
    <2>2. OnlyItsOwn(u, r.table, m) /\ (ShownIn(u, r, m) \/ RefusedIn(u, r, m))
      BY <1>1, <1>4, <2>1, NextKept
    <2> QED BY <1>1, <1>4, <2>2 DEF OnlyItsOwn, ShownIn, RefusedIn, r
  <1> QED BY <1>2, <1>3, <1>4

-----------------------------------------------------------------------------
(* The steps.                                                              *)

(* A cursor is of an identity that was sent.                               *)
LEMMA CursorsSent ==
  ASSUME Tracked
  PROVE  /\ DOMAIN table.cur \subseteq DOMAIN last
         /\ \A k \in DOMAIN table.cur : last[k].src = table.cur[k].src
  BY DEF Tracked, Agree

(* The sources move on while the client hears nothing: a slot stays as it  *)
(* is, goes wrong, or takes an identity that nothing was sent of.          *)
Elsewhere ==
  /\ UNCHANGED <<client, last>> /\ out' = <<>>
  /\ live' \in [Slots -> [id : Identity, next : Nat, fmt : Formats]]
  /\ ids' \in Nat /\ epoch' \in Nat \ {0}
  /\ changes' \in 0..MaxChanges /\ faults' \in 0..MaxFaults
  /\ faults' = faults \/ faults' # 0
  /\ \A s \in Slots : \/ live'[s] = live[s]
                      \/ live'[s].id = live[s].id /\ faults' # 0
                      \/ live'[s].id \notin DOMAIN last

LEMMA ElsewhereKept ==
  ASSUME Kept, Elsewhere, Origins'
  PROVE  Kept'
  <1>1. /\ kind' = kind /\ phase' = phase /\ todo' = todo /\ table' = table
        /\ failed' = failed /\ last' = last /\ out' = <<>>
    BY DEF Elsewhere, client
  <1>2. DOMAIN table.cur \subseteq DOMAIN last
    BY CursorsSent DEF Kept
  <1>3. TypeOK'
    BY <1>1 DEF Kept, TypeOK, Elsewhere
  <1>4. Tracked' /\ TableSound' /\ Joining'
    BY <1>1 DEF Kept, Tracked, TableSound, OneEach, Joining
  <1>5. OwnChannel' /\ LiveKept'
    BY <1>1, <1>2 DEF Kept, OwnChannel, LiveKept, Elsewhere
  <1>6. Healthy'
    <2> SUFFICES ASSUME faults' = 0 PROVE Healthy'
      BY DEF Healthy
    <2>1. faults = 0 /\ ~failed'
      BY <1>1 DEF Kept, Healthy, Elsewhere
    <2>2. ASSUME NEW s \in Slots PROVE Fed(s)'
      <3>1. live'[s] = live[s] \/ live'[s].id \notin DOMAIN last
        BY <2>2 DEF Elsewhere
      <3>2. Fed(s)
        BY <2>1, <2>2 DEF Kept, Healthy
      <3> QED BY <1>1, <1>2, <3>1, <3>2 DEF Fed, Waits
    <2> QED BY <2>1, <2>2 DEF Healthy
  <1> QED BY <1>3, <1>4, <1>5, <1>6 DEF Kept

LEMMA RetuneKept ==
  ASSUME Kept, NEW s \in Slots, Retune(s)
  PROVE  Kept'
  <1> DEFINE new == <<ids + 1, epoch>>
  <1>0. live' = [live EXCEPT ![s].id = new, ![s].next = 0]
    BY DEF Retune
  <1>1. /\ ids' = ids + 1 /\ changes' = changes + 1 /\ changes < MaxChanges
        /\ epoch' = epoch /\ faults' = faults /\ UNCHANGED <<client, last>> /\ out' = <<>>
    BY DEF Retune
  <1>2. /\ live \in [Slots -> [id : Identity, next : Nat, fmt : Formats]]
        /\ ids \in Nat /\ epoch \in Nat \ {0} /\ changes \in 0..MaxChanges
        /\ faults \in 0..MaxFaults
    BY DEF Kept, TypeOK
  <1>3. new \in Identity /\ new[1] = ids + 1 /\ new[2] = epoch
    BY <1>2 DEF Identity
  <1>4. new \notin DOMAIN last
    BY <1>2, <1>3 DEF Kept, Origins, Older
  <1> HIDE DEF new
  <1>5. /\ live' \in [Slots -> [id : Identity, next : Nat, fmt : Formats]]
        /\ live'[s].id = new /\ live'[s].next = 0
        /\ \A r \in Slots : r # s => live'[r] = live[r]
    BY <1>0, <1>2, <1>3
  <1>6. Elsewhere
    <2>1. ids' \in Nat /\ changes' \in 0..MaxChanges
      <3>1. MaxChanges \in Nat
        BY StreamAssumption
      <3> QED BY <1>1, <1>2, <3>1
    <2> QED BY <1>1, <1>2, <1>4, <1>5, <2>1 DEF Elsewhere
  <1>7. Origins'
    <2>1. last' = last
      BY DEF Retune
    <2>2. /\ ids >= Cardinality(Slots) /\ Cardinality(Slots) \in Nat
          /\ \A k \in DOMAIN last : k[1] \in Nat /\ Older(k)
      BY StreamAssumption, FS_CardinalityType DEF Kept, Origins, TypeOK, Identity
    <2>3. \A r \in Slots : /\ live[r].id[1] \in Nat /\ live[r].id[2] = epoch /\ live[r].id[1] <= ids
                           /\ live[r].next <= SeqLimit + 1
      BY <1>2 DEF Kept, Origins, Identity
    <2>4. \A r, q \in Slots : r # q => live[r].id[1] # live[q].id[1]
      BY DEF Kept, Origins
    <2>5. ids' >= Cardinality(Slots) /\ \A k \in DOMAIN last' : Older(k)'
      BY <1>1, <1>2, <2>1, <2>2 DEF Older
    <2>6. \A r \in Slots : /\ live'[r].id[2] = epoch' /\ live'[r].id[1] <= ids'
                          /\ live'[r].next <= SeqLimit + 1
      BY <1>1, <1>2, <1>3, <1>5, <2>3, TableAssumption, SMTT(30)
    <2>7. \A r, q \in Slots : r # q => live'[r].id[1] # live'[q].id[1]
      BY <1>1, <1>2, <1>3, <1>5, <2>3, <2>4, SMTT(30)
    <2> QED BY <2>5, <2>6, <2>7 DEF Origins
  <1> QED BY <1>6, <1>7, ElsewhereKept

LEMMA RecaptureKept ==
  ASSUME Kept, Recapture
  PROVE  Kept'
  <1> DEFINE new == [s \in Slots |-> <<s, epoch + 1>>]
  <1>0. live' = [s \in Slots |-> [live[s] EXCEPT !.id = new[s], !.next = 0]]
    BY DEF Recapture
  <1>1. /\ ids' = Cardinality(Slots) /\ epoch' = epoch + 1
        /\ changes' = changes + 1 /\ changes < MaxChanges /\ faults' = faults
        /\ UNCHANGED <<client, last>> /\ out' = <<>>
    BY DEF Recapture
  <1>2. /\ live \in [Slots -> [id : Identity, next : Nat, fmt : Formats]]
        /\ ids \in Nat /\ epoch \in Nat \ {0} /\ changes \in 0..MaxChanges
        /\ faults \in 0..MaxFaults
    BY DEF Kept, TypeOK
  <1>3. Cardinality(Slots) \in Nat /\ Slots = 1..Cardinality(Slots)
    BY StreamAssumption, FS_CardinalityType
  <1>4. \A s \in Slots : new[s] \in Identity /\ new[s][1] = s /\ new[s][2] = epoch + 1
    BY <1>2, <1>3 DEF Identity
  <1>5. \A s \in Slots : new[s] \notin DOMAIN last
    BY <1>2, <1>4 DEF Kept, Origins, Older
  <1> HIDE DEF new
  <1>6. /\ live' \in [Slots -> [id : Identity, next : Nat, fmt : Formats]]
        /\ \A s \in Slots : live'[s].id = new[s] /\ live'[s].next = 0
    BY <1>0, <1>2, <1>4, ZenonT(60)
  <1>7. Elsewhere
    <2>1. ids' \in Nat /\ epoch' \in Nat \ {0} /\ changes' \in 0..MaxChanges
      BY <1>1, <1>2, <1>3, StreamAssumption
    <2> QED BY <1>1, <1>2, <1>5, <1>6, <2>1 DEF Elsewhere
  <1>8. Origins'
    <2>1. last' = last
      BY DEF Recapture
    <2>2. \A k \in DOMAIN last : k[2] \in Nat /\ Older(k)
      BY DEF Kept, Origins, TypeOK, Identity
    <2>3. \A k \in DOMAIN last' : Older(k)'
      BY <1>1, <1>2, <2>1, <2>2 DEF Older
    <2>4. \A r \in Slots : /\ live'[r].id[2] = epoch' /\ live'[r].id[1] <= ids'
                          /\ live'[r].next <= SeqLimit + 1
      BY <1>1, <1>3, <1>4, <1>6, TableAssumption
    <2>5. \A r, q \in Slots : r # q => live'[r].id[1] # live'[q].id[1]
      BY <1>4, <1>6
    <2> QED BY <1>1, <1>3, <2>3, <2>4, <2>5 DEF Origins
  <1> QED BY <1>7, <1>8, ElsewhereKept

(* A faulty source keeps its identity.                                     *)
LEMMA FaultKept ==
  ASSUME Kept, NEW s \in Slots, Lose(s) \/ Reformat(s)
  PROVE  Kept'
  <1>1. /\ live \in [Slots -> [id : Identity, next : Nat, fmt : Formats]]
        /\ ids \in Nat /\ epoch \in Nat \ {0} /\ changes \in 0..MaxChanges
        /\ faults \in 0..MaxFaults
    BY DEF Kept, TypeOK
  <1>2. /\ ids' = ids /\ epoch' = epoch /\ changes' = changes /\ faults' = faults + 1
        /\ faults < MaxFaults /\ UNCHANGED <<client, last>> /\ out' = <<>>
    BY DEF Lose, Reformat
  <1>3. /\ live' \in [Slots -> [id : Identity, next : Nat, fmt : Formats]]
        /\ live'[s].id = live[s].id
        /\ \/ live'[s].next = live[s].next
           \/ live'[s].next = live[s].next + 1 /\ live[s].next \in 1..SeqLimit
        /\ \A r \in Slots : r # s => live'[r] = live[r]
    <2>1. CASE Lose(s)
      BY <1>1, <2>1 DEF Lose
    <2>2. CASE Reformat(s)
      <3> PICK fmt \in Formats : live' = [live EXCEPT ![s].fmt = fmt]
        BY <2>2 DEF Reformat
      <3> QED BY <1>1
    <2> QED BY <2>1, <2>2
  <1>4. Elsewhere
    BY <1>1, <1>2, <1>3, StreamAssumption DEF Elsewhere
  <1>5. Origins'
    <2>1. \A r \in Slots : /\ live'[r].id = live[r].id /\ live[r].next \in Nat
                           /\ live[r].next <= SeqLimit + 1
      BY <1>1, <1>3 DEF Kept, Origins
    <2>2. \A r \in Slots : live'[r].next <= SeqLimit + 1
      BY <1>1, <1>3, <2>1, TableAssumption
    <2> QED BY <1>2, <2>1, <2>2 DEF Kept, Origins, Older
  <1> QED BY <1>4, <1>5, ElsewhereKept

LEMMA JoinKept ==
  ASSUME Kept, Join
  PROVE  Kept'
  <1>1. /\ phase = "away" /\ UNCHANGED <<source, kind, table, failed, last, bounds>> /\ out' = <<>>
        /\ phase' = IF kind = "decode" THEN "join" ELSE "open"
        /\ todo' = IF kind = "decode" THEN Slots ELSE {}
    BY DEF Join
  <1>2. DOMAIN last = {} /\ DOMAIN table.cur = {}
    BY <1>1, CursorsSent DEF Kept, Joining
  <1>3. TypeOK'
    BY <1>1 DEF Kept, TypeOK, source, bounds
  <1>4. Joining'
    BY <1>1, <1>2 DEF Joining
  <1>5. Tracked' /\ TableSound' /\ Origins' /\ OwnChannel' /\ LiveKept' /\ Healthy'
    BY <1>1 DEF Kept, Tracked, TableSound, OneEach, Origins, Older, OwnChannel, LiveKept, Healthy,
                Fed, Waits, source, bounds
  <1> QED BY <1>3, <1>4, <1>5 DEF Kept

LEMMA NoSnapshotKept ==
  ASSUME Kept, NEW s \in Slots, NoSnapshot(s)
  PROVE  Kept'
  <1>1. /\ phase = "join" /\ UNCHANGED <<source, kind, table, failed, last, bounds>> /\ out' = <<>>
        /\ todo' = todo \ {s} /\ phase' = IF todo' = {} THEN "open" ELSE "join"
    BY DEF NoSnapshot
  <1>2. TypeOK'
    BY <1>1 DEF Kept, TypeOK, source, bounds
  <1>3. Joining'
    BY <1>1 DEF Kept, Joining
  <1>4. Tracked' /\ TableSound' /\ Origins' /\ OwnChannel' /\ LiveKept' /\ Healthy'
    BY <1>1 DEF Kept, Tracked, TableSound, OneEach, Origins, Older, OwnChannel, LiveKept, Healthy,
                Fed, Waits, source, bounds
  <1> QED BY <1>2, <1>3, <1>4 DEF Kept

(* The identities of two slots differ.                                     *)
LEMMA Distinct ==
  ASSUME Kept, NEW s \in Slots
  PROVE  /\ live[s].id \in Identity /\ live[s].next \in Nat /\ live[s].fmt \in Formats
         /\ live[s].next <= SeqLimit + 1 /\ Older(live[s].id)
         /\ \A r \in Slots : r # s => live[r].id # live[s].id /\ live[r].id[1] # live[s].id[1]
  BY DEF Kept, TypeOK, Origins, Older

LEMMA SeedKept ==
  ASSUME Kept, NEW s \in Slots, Seed(s), Cardinality(Slots) <= MAX_IDENTITIES
  PROVE  Kept'
  <1> DEFINE id == live[s].id
  <1> PICK b \in Boundaries(s) : \E sub \in 0..b :
         /\ table' = SeedDecode(table, s, id, b, sub)
         /\ out' = [i \in 1..(sub + 1) |-> [id |-> id, sub |-> i - 1, src |-> b]]
         /\ last' = Note(last, out')
    BY DEF Seed
  <1> PICK sub \in 0..b :
         /\ table' = SeedDecode(table, s, id, b, sub)
         /\ out' = [i \in 1..(sub + 1) |-> [id |-> id, sub |-> i - 1, src |-> b]]
         /\ last' = Note(last, out')
    OBVIOUS
  <1>0. /\ phase = "join" /\ s \in todo /\ todo' = todo \ {s}
        /\ phase' = IF todo' = {} THEN "open" ELSE "join"
        /\ UNCHANGED <<source, kind, failed, bounds>>
    BY DEF Seed
  <1>1. /\ b \in Nat /\ sub \in Nat /\ sub <= b /\ b <= SeqLimit
        /\ b = live[s].next \/ b + 1 = live[s].next
    <2>1. live[s].next \in Nat
      BY Distinct
    <2> QED BY <2>1, TableAssumption DEF Boundaries
  <1>2. /\ id \in Identity /\ Older(id)
        /\ \A r \in Slots : r # s => live[r].id # id /\ live[r].id[1] # id[1]
    BY Distinct
  <1> DEFINE c == DecodeCursor(b, sub, s, {b})
  <1>3. c \in DecodeCursors /\ c.src = b /\ c.ch = s /\ c.bound = {b}
    BY <1>1 DEF DecodeCursor, DecodeCursors
  <1>4. kind = "decode" /\ \A k \in DOMAIN table.cur : table.cur[k].ch \notin todo
    BY <1>0 DEF Kept, Joining
  <1>5. Sound(table, DecodeCursors) /\ OneEach(table)
    BY <1>4 DEF Kept, TableSound
  <1>6. Cardinality(Others(table, id)) < MAX_IDENTITIES
    BY <1>0, <1>4, <1>5, ChannelRoom
  <1>7. table' = InsertCursor(table, id, c)
    BY DEF SeedDecode
  <1>8. /\ out' \in Seq(SentMessage) /\ DOMAIN last' = DOMAIN last \cup {id}
        /\ last'[id] \in SentMessage /\ last'[id].src = b
        /\ \A k \in DOMAIN last \ {id} : last'[k] = last[k]
    <2>1. \A i \in 1..(sub + 1) : /\ [id |-> id, sub |-> i - 1, src |-> b] \in SentMessage
                                 /\ out'[i] = [id |-> id, sub |-> i - 1, src |-> b]
      BY <1>1, <1>2 DEF SentMessage
    <2>2. out' \in Seq(SentMessage) /\ Len(out') = sub + 1 /\ sub + 1 \in 1..(sub + 1)
      <3> DEFINE n == sub + 1
                 f == [i \in 1..n |-> [id |-> id, sub |-> i - 1, src |-> b]]
      <3>1. n \in Nat /\ n \in 1..n
        BY <1>1
      <3>2. out' = f
        OBVIOUS
      <3>3. f \in [1..n -> SentMessage]
        BY <2>1
      <3> HIDE DEF n, f
      <3>4. f \in Seq(SentMessage) /\ Len(f) = n
        BY <3>1, <3>3
      <3> QED BY <3>1, <3>2, <3>4 DEF n
    <2>3. last' = Put(last, id, out'[sub + 1])
      <3>1. out'[Len(out')].id = id
        BY <2>1, <2>2
      <3>2. out' # <<>>
        BY <1>1, <2>2
      <3> QED BY <2>2, <3>1, <3>2 DEF Note
    <2>4. out'[sub + 1] \in SentMessage /\ out'[sub + 1].src = b
      BY <2>1, <2>2
    <2> QED BY <2>2, <2>3, <2>4 DEF Put
  <1> HIDE DEF id, c
  <1>9. /\ Sound(table', DecodeCursors)
        /\ DOMAIN table'.cur = Others(table, id) \cup {id}
    BY <1>2, <1>3, <1>5, <1>6, <1>7, InsertSound
  <1>10. /\ table'.cur[id] = c
         /\ \A k \in DOMAIN table'.cur \ {id} : k \in DOMAIN table.cur /\ table'.cur[k] = table.cur[k]
    BY <1>7, InsertFacts
  <1>11. TableSound'
    <2>1. OneEach(table')
      BY <1>0, <1>3, <1>4, <1>5, <1>10 DEF OneEach
    <2> QED BY <1>0, <1>4, <1>9, <2>1 DEF TableSound, OneEach
  <1>12. TypeOK'
    <2>1. /\ live' = live /\ ids' = ids /\ epoch' = epoch /\ changes' = changes
          /\ faults' = faults /\ kind' = kind /\ failed' = failed
      BY <1>0 DEF source, bounds
    <2>2. /\ DOMAIN table'.cur \subseteq Identity /\ table'.ord \in Seq(Identity)
          /\ \A k \in DOMAIN table'.cur : table'.cur[k].src \in Nat /\ table'.cur[k].sub \in Nat
      BY <1>9 DEF Sound, DecodeCursors
    <2>3. DOMAIN last' \subseteq Identity /\ \A k \in DOMAIN last' : last'[k] \in SentMessage
      BY <1>2, <1>8 DEF Kept, TypeOK
    <2> QED BY <1>0, <1>8, <2>1, <2>2, <2>3 DEF Kept, TypeOK
  <1>13. Tracked'
    BY SeedStep DEF Kept
  <1>14. Origins'
    BY <1>0, <1>2, <1>8 DEF Kept, Origins, Older, source
  <1>15. Joining'
    BY <1>0, <1>3, <1>4, <1>10 DEF Joining
  <1>16. OwnChannel'
    <2> SUFFICES ASSUME NEW r \in Slots, live[r].id \in DOMAIN table'.cur
                 PROVE  table'.cur[live[r].id].ch = r
      BY <1>0 DEF OwnChannel, source
    <2>1. CASE r = s
      BY <1>3, <1>10, <2>1 DEF id
    <2>2. CASE r # s
      BY <1>2, <1>4, <1>10, <2>2 DEF Kept, OwnChannel
    <2> QED BY <2>1, <2>2
  <1>17. LiveKept'
    <2> SUFFICES ASSUME ~failed, NEW r \in Slots, live[r].id \in DOMAIN last'
                 PROVE  live[r].id \in DOMAIN table'.cur
      BY <1>0 DEF LiveKept, source
    <2>1. CASE r = s
      BY <1>10, <1>9, <2>1 DEF id
    <2>2. CASE r # s
      <3>1. live[r].id \in DOMAIN table.cur
        BY <1>2, <1>4, <1>8, <2>2 DEF Kept, LiveKept
      <3> QED BY <1>2, <1>9, <2>2, <3>1 DEF Others
    <2> QED BY <2>1, <2>2
  <1>18. Healthy'
    <2> SUFFICES ASSUME faults = 0 PROVE ~failed /\ \A r \in Slots : Fed(r)'
      BY <1>0 DEF Healthy, bounds
    <2>1. ~failed /\ \A r \in Slots : Fed(r)
      BY DEF Kept, Healthy
    <2>2. live' = live /\ kind' = kind
      BY <1>0 DEF source
    <2>3. ASSUME NEW r \in Slots PROVE Fed(r)'
      <3>1. CASE r = s
        <4>1. id \in DOMAIN table'.cur /\ id \in DOMAIN last'
          BY <1>8, <1>9
        <4>2. last'[id].src + 1 >= live[s].next /\ live[s].next \in Nat
          BY <1>1, <1>8, Distinct
        <4>3. \/ c.src + 1 = live[s].next
              \/ c.src = live[s].next /\ c.bound = {c.src}
          BY <1>1, <1>3
        <4> QED BY <1>4, <1>10, <2>2, <3>1, <4>2, <4>3 DEF Fed, Waits, id
      <3>2. CASE r # s
        BY <1>2, <1>8, <1>10, <2>1, <2>2, <3>2 DEF Fed, Waits
      <3> QED BY <3>1, <3>2
    <2> QED BY <2>1, <2>3
  <1> QED BY <1>11, <1>12, <1>13, <1>14, <1>15, <1>16, <1>17, <1>18 DEF Kept

(* What a delivery changes: the cursor and the history of the message's    *)
(* identity, and nothing else unless the subscription ends.                *)
Received(s, m) ==
  /\ kind' = kind /\ phase' = phase /\ todo' = todo
  /\ TableSound' /\ failed' \in BOOLEAN /\ out' \in Seq(SentMessage)
  /\ \A k \in DOMAIN table'.cur \ {m.id} : k \in DOMAIN table.cur /\ table'.cur[k] = table.cur[k]
  /\ \A k \in DOMAIN last' \ {m.id} : k \in DOMAIN last /\ last'[k] = last[k]
  /\ m.id \in DOMAIN last' => last'[m.id] \in SentMessage
  /\ phase = "away" => DOMAIN last' = {}
  /\ kind = "decode" /\ m.id \in DOMAIN table'.cur => table'.cur[m.id].ch = s
  /\ kind = "decode" /\ ~failed' =>
       /\ ~failed
       /\ m.id \in DOMAIN last' => m.id \in DOMAIN table'.cur
       /\ \A k \in DOMAIN table.cur :
            k[1] # m.id[1] /\ table.cur[k].ch # s => k \in DOMAIN table'.cur
  /\ faults = 0 =>
       /\ ~failed'
       /\ m.id \in DOMAIN table'.cur =>
            /\ table'.cur[m.id].src = m.seq
            /\ kind = "audio" => table'.cur[m.id].fmt = m.fmt
       /\ m.id \in DOMAIN last' => last'[m.id].src >= m.seq

(* The message that a source sends: its next output, or for audio a start. *)
Sends(s, m) ==
  /\ Proper(m) /\ m.id = live[s].id /\ m.ch = s
  /\ \/ m.seq = live[s].next /\ m.fmt = live[s].fmt
     \/ kind = "audio" /\ m.seq = 0

LEMMA NoteShown ==
  ASSUME NEW h, NEW r, NEW m, Shows(r, m)
  PROVE  /\ DOMAIN Note(h, r.out) = DOMAIN h \cup {m.id}
         /\ Note(h, r.out)[m.id] \in SentMessage /\ Note(h, r.out)[m.id].src = m.seq
         /\ \A k \in DOMAIN h \ {m.id} : Note(h, r.out)[k] = h[k]
  <1>1. PICK o \in Seq(SentMessage) : o = r.out
    BY DEF Shows
  <1>2. o # <<>> /\ o[Len(o)].id = m.id /\ o[Len(o)].src = m.seq /\ o[Len(o)] \in SentMessage
    <2>1. o # <<>> => Len(o) \in 1..Len(o)
      OBVIOUS
    <2>2. o # <<>> => o[Len(o)] \in SentMessage
      BY <2>1
    <2> QED BY <1>1, <2>2 DEF Shows
  <1>3. Note(h, o) = Put(h, m.id, o[Len(o)])
    BY <1>2 DEF Note
  <1> QED BY <1>1, <1>2, <1>3 DEF Put

LEMMA AudioReceived ==
  ASSUME Kept, NEW s \in Slots, NEW m, Sends(s, m), Deliver(m),
         kind = "audio", phase = "open", ~failed
  PROVE  Received(s, m)
  <1> DEFINE r == AudioFrames(table, m)
  <1>1. /\ table' = r.table /\ failed' = r.err /\ out' = r.out /\ last' = Note(last, r.out)
        /\ kind' = kind /\ phase' = phase /\ todo' = todo
    BY DEF Deliver, frames
  <1>2. Sound(table, AudioCursors) /\ Proper(m)
    BY DEF Kept, TableSound, Sends
  <1>3. /\ Sound(r.table, AudioCursors)
        /\ \A k \in DOMAIN r.table.cur \ {m.id} :
             k \in DOMAIN table.cur /\ r.table.cur[k] = table.cur[k]
        /\ \/ /\ Shows(r, m) /\ m.id \in DOMAIN r.table.cur
              /\ r.table.cur[m.id].src = m.seq /\ r.table.cur[m.id].fmt = m.fmt
           \/ /\ r = Refuse(table) /\ m.id \in DOMAIN table.cur /\ m.seq # 0
              /\ ~(table.cur[m.id].src + 1 = m.seq /\ table.cur[m.id].fmt = m.fmt)
    BY <1>2, AudioKept
  <1> HIDE DEF r
  <1>4. /\ TableSound'
        /\ \A k \in DOMAIN table'.cur \ {m.id} : k \in DOMAIN table.cur /\ table'.cur[k] = table.cur[k]
    BY <1>1, <1>3 DEF TableSound
  <1>5. CASE Shows(r, m)
    <2>1. /\ DOMAIN last' = DOMAIN last \cup {m.id}
          /\ last'[m.id] \in SentMessage /\ last'[m.id].src = m.seq
          /\ \A k \in DOMAIN last \ {m.id} : last'[k] = last[k]
      <3>1. /\ DOMAIN Note(last, r.out) = DOMAIN last \cup {m.id}
            /\ Note(last, r.out)[m.id] \in SentMessage /\ Note(last, r.out)[m.id].src = m.seq
            /\ \A k \in DOMAIN last \ {m.id} : Note(last, r.out)[k] = last[k]
        BY <1>5, NoteShown, ZenonT(60)
      <3> QED BY <1>1, <3>1
    <2>2. r.err = FALSE /\ r.out \in Seq(SentMessage) /\ m.seq \in Nat
      BY <1>2, <1>5 DEF Shows, Proper
    <2>3. m.id \in DOMAIN r.table.cur => r.table.cur[m.id].src = m.seq /\ r.table.cur[m.id].fmt = m.fmt
      <3>1. Refuse(table).err = TRUE
        BY DEF Refuse
      <3> QED BY <1>3, <2>2, <3>1
    <2>4. /\ failed' = FALSE /\ out' \in Seq(SentMessage) /\ kind' = kind /\ phase' = phase
          /\ todo' = todo
          /\ m.id \in DOMAIN table'.cur => table'.cur[m.id].src = m.seq /\ table'.cur[m.id].fmt = m.fmt
      BY <1>1, <2>2, <2>3
    <2>5. \A k \in DOMAIN last' \ {m.id} : k \in DOMAIN last /\ last'[k] = last[k]
      BY <2>1
    <2>6. last'[m.id].src >= m.seq
      BY <2>1, <2>2
    <2>7. kind # "decode" /\ phase # "away"
      OBVIOUS
    <2> QED BY <1>4, <2>1, <2>4, <2>5, <2>6, <2>7 DEF Received
  <1>6. CASE /\ r = Refuse(table) /\ m.id \in DOMAIN table.cur /\ m.seq # 0
             /\ ~(table.cur[m.id].src + 1 = m.seq /\ table.cur[m.id].fmt = m.fmt)
    <2>1. r.table = table /\ r.err = TRUE /\ r.out = <<>>
      BY <1>6 DEF Refuse
    <2>2. last' = last
      BY <1>1, <2>1 DEF Note
    <2>3. faults # 0
      <3>1. m.id = live[s].id /\ m.seq = live[s].next /\ m.fmt = live[s].fmt
        BY <1>6 DEF Sends
      <3>2. faults = 0 => table.cur[m.id].src + 1 = m.seq /\ table.cur[m.id].fmt = m.fmt
        BY <1>6, <3>1 DEF Kept, Healthy, Fed, Waits
      <3> QED BY <1>6, <3>2
    <2>4. failed' = TRUE /\ out' = <<>> /\ out' \in Seq(SentMessage)
      BY <1>1, <2>1
    <2>5. m.id \in DOMAIN last => last[m.id] \in SentMessage
      BY DEF Kept, TypeOK
    <2>6. kind # "decode" /\ phase # "away"
      OBVIOUS
    <2> QED BY <1>1, <1>4, <2>2, <2>3, <2>4, <2>5, <2>6 DEF Received
  <1> QED BY <1>3, <1>5, <1>6

LEMMA DecodeReceived ==
  ASSUME Kept, NEW s \in Slots, NEW m, Sends(s, m), Deliver(m),
         kind = "decode", phase = "open", ~failed, Cardinality(Slots) <= MAX_IDENTITIES
  PROVE  Received(s, m)
  <1> DEFINE r == DecodeFrames(table, m)
  <1>1. /\ table' = r.table /\ failed' = r.err /\ out' = r.out /\ last' = Note(last, r.out)
        /\ kind' = kind /\ phase' = phase /\ todo' = todo
    BY DEF Deliver, frames
  <1>2. /\ Sound(table, DecodeCursors) /\ OneEach(table) /\ Proper(m)
        /\ m.id = live[s].id /\ m.ch = s /\ m.seq = live[s].next /\ m.seq \in Nat
    BY DEF Kept, TableSound, Sends, Proper
  <1>3. /\ OnlyItsOwn(table, r.table, m)
        /\ \/ r = Reply(table, <<>>) /\ Covered(table, m)
           \/ ShownIn(table, r, m)
           \/ RefusedIn(table, r, m) /\ ~Covered(table, m)
    BY <1>2, DecodeKept
  <1> HIDE DEF r
  <1>4. /\ TableSound'
        /\ \A k \in DOMAIN table'.cur \ {m.id} : k \in DOMAIN table.cur /\ table'.cur[k] = table.cur[k]
    BY <1>1, <1>3 DEF TableSound, OnlyItsOwn, OneEach
  <1>5. /\ m.id \in DOMAIN table.cur => table.cur[m.id].ch = s
        /\ m.id \in DOMAIN last => m.id \in DOMAIN table.cur /\ last[m.id] \in SentMessage
                                /\ last[m.id].src = table.cur[m.id].src
        /\ faults = 0 /\ m.id \in DOMAIN table.cur =>
             \/ table.cur[m.id].src + 1 = m.seq
             \/ table.cur[m.id].src = m.seq /\ table.cur[m.id].bound = {m.seq}
    <2>1. m.id \in DOMAIN last => m.id \in DOMAIN table.cur
      BY <1>2 DEF Kept, LiveKept
    <2>2. m.id \in DOMAIN last => last[m.id] \in SentMessage
      BY DEF Kept, TypeOK
    <2>3. m.id \in DOMAIN table.cur => last[m.id].src = table.cur[m.id].src
      BY CursorsSent DEF Kept
    <2>4. m.id \in DOMAIN table.cur => table.cur[m.id].ch = s
      BY <1>2 DEF Kept, OwnChannel
    <2>5. faults = 0 /\ m.id \in DOMAIN table.cur => Waits(table.cur[m.id], s)
      BY <1>2 DEF Kept, Healthy, Fed
    <2> QED BY <1>2, <2>1, <2>2, <2>3, <2>4, <2>5 DEF Waits
  <1>6. phase # "away" /\ kind # "audio"
    OBVIOUS
  <1>7. CASE r = Reply(table, <<>>) /\ Covered(table, m)
    <2>1. table' = table /\ failed' = FALSE /\ out' = <<>> /\ out' \in Seq(SentMessage) /\ last' = last
      BY <1>1, <1>7 DEF Reply, Note
    <2>2. m.id \in DOMAIN table.cur /\ m.seq <= table.cur[m.id].src /\ table.cur[m.id].src \in Nat
      BY <1>2, <1>7 DEF Covered, Sound, DecodeCursors
    <2>3. faults = 0 => table.cur[m.id].src = m.seq
      BY <1>2, <1>5, <2>2
    <2>4. m.id \in DOMAIN last => last[m.id].src >= m.seq
      BY <1>5, <2>2
    <2> QED BY <1>1, <1>4, <1>5, <1>6, <2>1, <2>3, <2>4 DEF Received
  <1>8. CASE ShownIn(table, r, m)
    <2>1. /\ DOMAIN last' = DOMAIN last \cup {m.id}
          /\ last'[m.id] \in SentMessage /\ last'[m.id].src = m.seq
          /\ \A k \in DOMAIN last \ {m.id} : last'[k] = last[k]
      <3>1. /\ DOMAIN Note(last, r.out) = DOMAIN last \cup {m.id}
            /\ Note(last, r.out)[m.id] \in SentMessage /\ Note(last, r.out)[m.id].src = m.seq
            /\ \A k \in DOMAIN last \ {m.id} : Note(last, r.out)[k] = last[k]
        <4>1. Shows(r, m)
          BY <1>8 DEF ShownIn
        <4> QED BY <4>1, NoteShown, ZenonT(60)
      <3> QED BY <1>1, <3>1
    <2>2. /\ failed' = FALSE /\ out' \in Seq(SentMessage)
          /\ m.id \in DOMAIN table'.cur
          /\ table'.cur[m.id].src = m.seq /\ table'.cur[m.id].ch = s
          /\ \A k \in DOMAIN table.cur :
               k[1] # m.id[1] /\ table.cur[k].ch # s => k \in DOMAIN table'.cur
      BY <1>1, <1>2, <1>8 DEF ShownIn, Shows
    <2>3. \A k \in DOMAIN last' \ {m.id} : k \in DOMAIN last /\ last'[k] = last[k]
      BY <2>1
    <2>4. last'[m.id].src >= m.seq
      BY <1>2, <2>1
    <2> QED BY <1>1, <1>4, <1>6, <2>1, <2>2, <2>3, <2>4 DEF Received
  <1>9. CASE RefusedIn(table, r, m) /\ ~Covered(table, m)
    <2>1. /\ failed' = TRUE /\ out' = <<>> /\ out' \in Seq(SentMessage) /\ last' = last
          /\ m.id \in DOMAIN table.cur /\ table'.cur[m.id].ch = s
      BY <1>1, <1>5, <1>9 DEF RefusedIn, Note
    <2>2. faults # 0
      <3>1. ~(table.cur[m.id].src = m.seq /\ table.cur[m.id].bound = {m.seq})
        <4>1. ASSUME table.cur[m.id].bound = {m.seq} PROVE Covered(table, m)
          <5>1. m.seq \in table.cur[m.id].bound /\ m.seq <= m.seq
            BY <1>2, <4>1
          <5> QED BY <2>1, <5>1, Zenon DEF Covered
        <4> QED BY <1>9, <4>1
      <3>2. table.cur[m.id].src + 1 # m.seq
        BY <1>2, <1>5, <1>9, <2>1 DEF RefusedIn
      <3> QED BY <1>5, <2>1, <3>1, <3>2
    <2> QED BY <1>1, <1>4, <1>5, <1>6, <2>1, <2>2 DEF Received
  <1> QED BY <1>3, <1>7, <1>8, <1>9

(* A client that is away or has ended receives nothing.                    *)
LEMMA Deaf ==
  ASSUME Kept, NEW s \in Slots, NEW m, Sends(s, m), Deliver(m),
         phase # "join", ~(phase = "open" /\ ~failed)
  PROVE  Received(s, m)
  <1>1. /\ table' = table /\ failed' = failed /\ out' = <<>> /\ out' \in Seq(SentMessage)
        /\ last' = last /\ kind' = kind /\ phase' = phase /\ todo' = todo
    <2>1. UNCHANGED <<client, last>> /\ out' = <<>>
      BY Zenon DEF Deliver
    <2> QED BY <2>1 DEF client
  <1>2. TableSound' /\ failed' \in BOOLEAN
    BY <1>1 DEF Kept, TableSound, OneEach, TypeOK
  <1>3. phase = "away" \/ failed
    BY DEF Kept, TypeOK
  <1>4. phase = "away" => DOMAIN last = {} /\ DOMAIN table.cur = {}
    BY CursorsSent DEF Kept, Joining
  <1>5. m.id \in DOMAIN last => last[m.id] \in SentMessage
    BY DEF Kept, TypeOK
  <1>6. kind = "decode" /\ m.id \in DOMAIN table.cur => table.cur[m.id].ch = s
    BY DEF Kept, OwnChannel, Sends
  <1>7. faults = 0 => ~failed
    BY DEF Kept, Healthy
  <1> QED BY <1>1, <1>2, <1>3, <1>4, <1>5, <1>6, <1>7 DEF Received

LEMMA DeliverReceived ==
  ASSUME Kept, NEW s \in Slots, NEW m, Sends(s, m), Deliver(m),
         phase # "join", Cardinality(Slots) <= MAX_IDENTITIES
  PROVE  Received(s, m)
  <1>1. kind = "audio" \/ kind = "decode"
    BY StreamAssumption DEF Kept, TypeOK
  <1> QED BY <1>1, AudioReceived, DecodeReceived, Deaf

(* The source of the message goes on behind it.                            *)
Follow(s, m) ==
  /\ live' \in [Slots -> [id : Identity, next : Nat, fmt : Formats]]
  /\ live'[s].id = live[s].id /\ live'[s].next = m.seq + 1 /\ live'[s].fmt = m.fmt
  /\ \A r \in Slots : r # s => live'[r] = live[r]
  /\ ids' = ids /\ epoch' = epoch /\ faults' = faults /\ changes' \in 0..MaxChanges

LEMMA ReceivedKept ==
  ASSUME Kept, NEW s \in Slots, NEW m, Sends(s, m), Received(s, m), Follow(s, m),
         Tracked', phase # "join"
  PROVE  Kept'
  <1>1. /\ m.id = live[s].id /\ m.id \in Identity /\ m.seq \in Nat /\ m.seq <= SeqLimit
        /\ Older(m.id)
        /\ \A r \in Slots : r # s => live[r].id # m.id /\ live[r].id[1] # m.id[1]
    BY Distinct DEF Sends, Proper
  <1>2. kind' = kind /\ phase' = phase /\ todo' = todo /\ TableSound'
    BY DEF Received
  <1>3. DOMAIN last' \subseteq DOMAIN last \cup {m.id}
    BY DEF Received
  <1>4. TypeOK'
    <2>1. /\ DOMAIN table'.cur \subseteq Identity /\ table'.ord \in Seq(Identity)
          /\ \A k \in DOMAIN table'.cur : table'.cur[k].src \in Nat /\ table'.cur[k].sub \in Nat
      BY <1>2 DEF TableSound, Sound, AudioCursors, DecodeCursors
    <2>2. DOMAIN last' \subseteq Identity /\ \A k \in DOMAIN last' : last'[k] \in SentMessage
      BY <1>1, <1>3 DEF Kept, TypeOK, Received
    <2> QED BY <1>2, <2>1, <2>2 DEF Kept, TypeOK, Received, Follow
  <1>5. Origins'
    <2>1. \A k \in DOMAIN last' : Older(k)'
      BY <1>1, <1>3 DEF Kept, Origins, Older, Follow
    <2>2. \A r \in Slots : live'[r].id = live[r].id /\ live'[r].next <= SeqLimit + 1
      BY <1>1, TableAssumption DEF Kept, Origins, Follow
    <2> QED BY <2>1, <2>2 DEF Kept, Origins, Follow
  <1>6. Joining'
    BY <1>2 DEF Kept, Joining, Received
  <1>7. OwnChannel'
    <2> SUFFICES ASSUME kind = "decode", NEW r \in Slots, live'[r].id \in DOMAIN table'.cur
                 PROVE  table'.cur[live'[r].id].ch = r
      BY <1>2 DEF OwnChannel
    <2>1. CASE r = s
      BY <1>1, <2>1 DEF Received, Follow
    <2>2. CASE r # s
      BY <1>1, <2>2 DEF Kept, OwnChannel, Received, Follow
    <2> QED BY <2>1, <2>2
  <1>8. LiveKept'
    <2> SUFFICES ASSUME kind = "decode", ~failed', NEW r \in Slots, live'[r].id \in DOMAIN last'
                 PROVE  live'[r].id \in DOMAIN table'.cur
      BY <1>2 DEF LiveKept
    <2>1. CASE r = s
      BY <1>1, <2>1 DEF Received, Follow
    <2>2. CASE r # s
      <3>1. live'[r].id = live[r].id /\ live[r].id \in DOMAIN last
        BY <1>1, <1>3, <2>2 DEF Follow
      <3>2. ~failed /\ \A k \in DOMAIN table.cur :
              k[1] # m.id[1] /\ table.cur[k].ch # s => k \in DOMAIN table'.cur
        BY DEF Received
      <3>3. live[r].id \in DOMAIN table.cur /\ table.cur[live[r].id].ch = r
        BY <3>1, <3>2 DEF Kept, LiveKept, OwnChannel
      <3> QED BY <1>1, <2>2, <3>1, <3>2, <3>3
    <2> QED BY <2>1, <2>2
  <1>9. Healthy'
    <2> SUFFICES ASSUME faults = 0 PROVE ~failed' /\ \A r \in Slots : Fed(r)'
      BY DEF Healthy, Follow
    <2>1. \A r \in Slots : Fed(r)
      BY DEF Kept, Healthy
    <2>2. ~failed'
      BY DEF Received
    <2>3. ASSUME NEW r \in Slots PROVE Fed(r)'
      <3>1. CASE r = s
        <4>1. live'[s].id = m.id /\ live'[s].next = m.seq + 1 /\ live'[s].fmt = m.fmt
          BY <1>1 DEF Follow
        <4>2. m.id \in DOMAIN table'.cur =>
                /\ table'.cur[m.id].src = m.seq
                /\ kind = "audio" => table'.cur[m.id].fmt = m.fmt
          BY DEF Received
        <4>3. m.id \in DOMAIN last' => last'[m.id].src >= m.seq /\ last'[m.id].src \in Nat
          BY DEF Received, SentMessage
        <4>4. m.id \in DOMAIN last' => last'[m.id].src + 1 >= m.seq + 1
          BY <1>1, <4>3
        <4> QED BY <1>2, <3>1, <4>1, <4>2, <4>4 DEF Fed, Waits
      <3>2. CASE r # s
        <4>1. live'[r] = live[r] /\ live[r].id # m.id
          BY <1>1, <3>2 DEF Follow
        <4>2. /\ live[r].id \in DOMAIN table'.cur =>
                  live[r].id \in DOMAIN table.cur /\ table'.cur[live[r].id] = table.cur[live[r].id]
              /\ live[r].id \in DOMAIN last' =>
                  live[r].id \in DOMAIN last /\ last'[live[r].id] = last[live[r].id]
          BY <4>1 DEF Received
        <4>3. Fed(r)
          BY <2>1
        <4> QED BY <1>2, <4>1, <4>2, <4>3 DEF Fed, Waits
      <3> QED BY <3>1, <3>2
    <2> QED BY <2>2, <2>3
  <1> QED BY <1>2, <1>4, <1>5, <1>6, <1>7, <1>8, <1>9 DEF Kept

LEMMA BlockKept ==
  ASSUME Kept, NEW s \in Slots, Block(s), Cardinality(Slots) <= MAX_IDENTITIES
  PROVE  Kept'
  <1> DEFINE m == Message(s, live[s].next, live[s].fmt)
  <1>1. /\ phase # "join" /\ live[s].next <= SeqLimit /\ Deliver(m)
        /\ live' = [live EXCEPT ![s].next = @ + 1] /\ UNCHANGED <<ids, epoch, bounds>>
    BY DEF Block
  <1>2. Sends(s, m) /\ m.seq = live[s].next /\ m.fmt = live[s].fmt
    BY <1>1, Distinct DEF Sends, Proper, Message
  <1> HIDE DEF m
  <1>3. Follow(s, m)
    <2>1. live \in [Slots -> [id : Identity, next : Nat, fmt : Formats]]
      BY DEF Kept, TypeOK
    <2>2. changes' \in 0..MaxChanges /\ faults' = faults /\ ids' = ids /\ epoch' = epoch
      BY <1>1 DEF Kept, TypeOK, bounds
    <2> QED BY <1>1, <1>2, <2>1, <2>2 DEF Follow
  <1>4. Tracked'
    BY <1>1, DeliverStep DEF Kept
  <1> QED BY <1>1, <1>2, <1>3, <1>4, DeliverReceived, ReceivedKept

LEMMA RemarkKept ==
  ASSUME Kept, NEW s \in Slots, Remark(s), Cardinality(Slots) <= MAX_IDENTITIES
  PROVE  Kept'
  <1> PICK fmt \in Formats : /\ Deliver(Message(s, 0, fmt))
                             /\ live' = [live EXCEPT ![s].next = 1, ![s].fmt = fmt]
    BY DEF Remark
  <1> DEFINE m == Message(s, 0, fmt)
  <1>1. /\ phase # "join" /\ kind = "audio" /\ Deliver(m)
        /\ changes' = changes + 1 /\ changes < MaxChanges
        /\ ids' = ids /\ epoch' = epoch /\ faults' = faults
    BY DEF Remark
  <1>2. Sends(s, m) /\ m.seq = 0 /\ m.fmt = fmt
    BY <1>1, Distinct, TableAssumption DEF Sends, Proper, Message
  <1> HIDE DEF m
  <1>3. Follow(s, m)
    <2>1. live \in [Slots -> [id : Identity, next : Nat, fmt : Formats]]
      BY DEF Kept, TypeOK
    <2>2. changes' \in 0..MaxChanges
      <3>1. MaxChanges \in Nat /\ changes \in 0..MaxChanges
        BY StreamAssumption DEF Kept, TypeOK
      <3> QED BY <1>1, <3>1
    <2>3. /\ live' \in [Slots -> [id : Identity, next : Nat, fmt : Formats]]
          /\ live'[s].id = live[s].id /\ live'[s].next = 1 /\ live'[s].fmt = fmt
          /\ \A r \in Slots : r # s => live'[r] = live[r]
      BY <2>1
    <2> QED BY <1>1, <1>2, <2>2, <2>3 DEF Follow
  <1>4. Tracked'
    BY <1>1, DeliverStep DEF Kept
  <1> QED BY <1>1, <1>2, <1>3, <1>4, DeliverReceived, ReceivedKept

LEMMA NextKeeps ==
  ASSUME Kept, Next, Cardinality(Slots) <= MAX_IDENTITIES
  PROVE  Kept'
  BY BlockKept, RemarkKept, RetuneKept, FaultKept, SeedKept, NoSnapshotKept, RecaptureKept,
     JoinKept DEF Next

LEMMA StillKept == Kept /\ UNCHANGED vars => Kept'
  BY DEF Kept, TypeOK, Tracked, TableSound, OneEach, Origins, Older, Joining, OwnChannel, LiveKept,
         Healthy, Fed, Waits, vars, source, client, bounds

LEMMA InitKept == Init => Kept
  <1> SUFFICES ASSUME Init PROVE Kept
    OBVIOUS
  <1>1. /\ DOMAIN table = {"cur", "ord"} /\ table.ord = <<>> /\ DOMAIN table.cur = {}
        /\ DOMAIN last = {} /\ out = <<>> /\ phase = "away" /\ todo = {} /\ failed = FALSE
        /\ ids = Cardinality(Slots) /\ epoch = 1 /\ changes = 0 /\ faults = 0 /\ kind \in Kinds
    BY DEF Init, EmptyTable
  <1>2. Cardinality(Slots) \in Nat /\ Slots = 1..Cardinality(Slots)
    BY StreamAssumption, FS_CardinalityType
  <1>3. \A s \in Slots : /\ live[s].id = <<s, 1>> /\ live[s].next = 0 /\ live[s].fmt \in Formats
                         /\ <<s, 1>> \in Identity
    BY <1>2 DEF Init, Identity
  <1>4. live \in [Slots -> [id : Identity, next : Nat, fmt : Formats]]
    <2>1. {<<s, 1>> : s \in Slots} \subseteq Identity
      BY <1>3
    <2>2. live \in [Slots -> [id : {<<s, 1>> : s \in Slots}, next : {0}, fmt : Formats]]
      BY DEF Init
    <2> QED BY <2>1, <2>2
  <1>5. <<>> \in Seq(Identity) /\ <<>> \in Seq(SentMessage) /\ Len(<<>>) = 0 /\ DOMAIN <<>> = {}
    OBVIOUS
  <1>6. TypeOK
    <2>1. /\ kind \in Kinds /\ phase \in {"away", "join", "open"} /\ todo \subseteq Slots
          /\ failed \in BOOLEAN
      BY <1>1
    <2>2. /\ DOMAIN table.cur \subseteq Identity /\ table.ord \in Seq(Identity)
          /\ \A k \in DOMAIN table.cur : table.cur[k].src \in Nat /\ table.cur[k].sub \in Nat
      BY <1>1, <1>5
    <2>3. /\ out \in Seq(SentMessage)
          /\ DOMAIN last \subseteq Identity /\ \A k \in DOMAIN last : last[k] \in SentMessage
      BY <1>1, <1>5
    <2>4. 1 \in Nat \ {0} /\ 0 \in 0..MaxChanges /\ 0 \in 0..MaxFaults
      BY StreamAssumption
    <2>5. /\ ids \in Nat /\ epoch \in Nat \ {0}
          /\ changes \in 0..MaxChanges /\ faults \in 0..MaxFaults
      BY <1>1, <1>2, <2>4
    <2> QED BY <1>4, <2>1, <2>2, <2>3, <2>5 DEF TypeOK
  <1>7. TableSound
    BY <1>1, <1>5, TableAssumption DEF TableSound, Sound, OneEach, ToSet, IsInjective
  <1>8. Origins
    <2>1. ids >= Cardinality(Slots) /\ \A k \in DOMAIN last : Older(k)
      BY <1>1, <1>2
    <2>2. ASSUME NEW s \in Slots
          PROVE  /\ live[s].id[1] = s /\ live[s].id[2] = epoch /\ live[s].id[1] <= ids
                 /\ live[s].next <= SeqLimit + 1
      <3>1. live[s].id[1] = s /\ live[s].id[2] = 1 /\ live[s].next = 0
        <4>1. live[s].id = <<s, 1>> /\ live[s].next = 0
          BY <1>3
        <4>2. <<s, 1>>[1] = s /\ <<s, 1>>[2] = 1
          OBVIOUS
        <4> QED BY <4>1, <4>2
      <3>2. s \in 1..Cardinality(Slots) /\ 0 <= SeqLimit + 1
        BY <1>2, TableAssumption
      <3> QED BY <1>1, <1>2, <3>1, <3>2
    <2> QED BY <2>1, <2>2 DEF Origins
  <1>9. Tracked /\ Joining /\ OwnChannel /\ LiveKept /\ Healthy
    BY <1>1, InitTracked DEF Joining, OwnChannel, LiveKept, Healthy, Fed
  <1> QED BY <1>6, <1>7, <1>8, <1>9 DEF Kept

(* As long as there are cursors for all slots, the eviction order and the  *)
(* table hold the same identities, a live decoding keeps its cursor, and a *)
(* subscription whose sources keep their contract neither ends nor misses  *)
(* a message (insert_cursor, audio_frames, decode_frames, seed_decode).    *)
THEOREM SubscribersServed ==
  ASSUME Cardinality(Slots) <= MAX_IDENTITIES
  PROVE  Spec => []KeptAndServed
  <1>1. Kept /\ [Next]_vars => Kept'
    BY NextKeeps, StillKept
  <1>2. Kept => KeptAndServed
    <2> SUFFICES ASSUME Kept PROVE KeptAndServed
      OBVIOUS
    <2>1. TableAgrees
      <3> PICK C : Sound(table, C) /\ (kind = "decode" => OneEach(table))
        BY DEF Kept, TableSound
      <3>1. table.ord \in Seq(Identity) /\ ToSet(table.ord) = DOMAIN table.cur
        BY DEF Sound
      <3>2. {table.ord[i] : i \in 1..Len(table.ord)} = DOMAIN table.cur
        BY <3>1 DEF ToSet
      <3>3. Len(table.ord) = Cardinality(DOMAIN table.cur)
        BY SoundSize
      <3> QED BY <3>2, <3>3 DEF TableAgrees, Sound, OneEach
    <2>2. UpToDate
      BY DEF Kept, Healthy, Fed, UpToDate
    <2> QED BY <2>1, <2>2 DEF Kept, Healthy, KeptAndServed, CursorsKept, Served, NeverFails
  <1> QED BY InitKept, <1>1, <1>2, PTL DEF Spec
=============================================================================
