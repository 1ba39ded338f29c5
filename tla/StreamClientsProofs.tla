------------------------ MODULE StreamClientsProofs ------------------------
(***************************************************************************)
(* Proofs about StreamClients, for every size of the queue, the            *)
(* reservation and the window and every bound: what a socket is sent is    *)
(* numbered without a gap and complete as long as no flag is set, both     *)
(* limits of a slow peer are exact, and nothing of restarted receivers     *)
(* reaches an old socket.                                                  *)
(*                                                                         *)
(* The argument is an order of the events.  What has been sent, what is in *)
(* the packet in hand, what is queued and what comes next follow each      *)
(* other strictly, so the next event either continues the stream of the    *)
(* last message, whose cursor the table then has, or starts one that was   *)
(* never sent, which the table then does not know.                         *)
(***************************************************************************)
EXTENDS StreamClients, SequenceFacts, FiniteSetTheorems

-----------------------------------------------------------------------------
(* The table.                                                              *)

Shaped(t) ==
  /\ DOMAIN t = {"cur", "ord"}
  /\ \A k \in DOMAIN t.cur : /\ {"src", "sub"} \subseteq DOMAIN t.cur[k]
                             /\ kind # "audio" => "bound" \in DOMAIN t.cur[k]
Typed(t) == DOMAIN t.cur \subseteq Ids /\ t.ord \in Seq(Ids)

(* One table has a cursor of an identity and nothing else that is new.     *)
Grown(t, u, k) ==
  /\ k \in DOMAIN u.cur
  /\ \A j \in DOMAIN u.cur \ {k} : j \in DOMAIN t.cur /\ u.cur[j] = t.cur[j]

LEMMA KeepFacts ==
  ASSUME NEW t, Shaped(t), Typed(t), NEW K, K \subseteq DOMAIN t.cur
  PROVE  /\ Shaped(Keep(t, K)) /\ Typed(Keep(t, K))
         /\ DOMAIN Keep(t, K).cur = K
         /\ \A k \in K : Keep(t, K).cur[k] = t.cur[k]
  <1> DEFINE u == Keep(t, K)
  <1>1. DOMAIN u = {"cur", "ord"} /\ u.cur = [k \in K |-> t.cur[k]] /\ u.ord = Among(t.ord, K)
    BY DEF Keep
  <1>2. Among(t.ord, K) \in Seq(Ids)
    BY AmongType DEF Typed
  <1> HIDE DEF u
  <1>3. DOMAIN u.cur = K /\ \A k \in K : u.cur[k] = t.cur[k]
    BY <1>1
  <1>4. Shaped(u) /\ Typed(u)
    BY <1>1, <1>2, <1>3 DEF Shaped, Typed
  <1> QED BY <1>3, <1>4 DEF u

(* Insertion adds one cursor and changes no other that it keeps.           *)
LEMMA InsertFacts ==
  ASSUME NEW t, Shaped(t), Typed(t), NEW k \in Ids, NEW c,
         {"src", "sub"} \subseteq DOMAIN c, kind # "audio" => "bound" \in DOMAIN c
  PROVE  LET u == InsertCursor(t, k, c)
         IN  Shaped(u) /\ Typed(u) /\ Grown(t, u, k) /\ u.cur[k] = c
  <1> DEFINE kept == Keep(t, {j \in DOMAIN t.cur : j[1] # k[1]})
             full == Cardinality(DOMAIN kept.cur) = MAX_IDENTITIES /\ kept.ord # <<>>
             rest == Keep(kept, DOMAIN kept.cur \ {Head(kept.ord)})
             room == IF full THEN rest ELSE kept
             u == InsertCursor(t, k, c)
  <1>1. /\ Shaped(kept) /\ Typed(kept)
        /\ \A j \in DOMAIN kept.cur : j \in DOMAIN t.cur /\ kept.cur[j] = t.cur[j]
    BY KeepFacts
  <1>2. /\ Shaped(rest) /\ Typed(rest)
        /\ \A j \in DOMAIN rest.cur : j \in DOMAIN kept.cur /\ rest.cur[j] = kept.cur[j]
    <2> DEFINE K == DOMAIN kept.cur \ {Head(kept.ord)}
    <2> HIDE DEF kept
    <2>1. rest = Keep(kept, K)
      OBVIOUS
    <2> HIDE DEF rest
    <2>2. K \subseteq DOMAIN kept.cur
      OBVIOUS
    <2> HIDE DEF K
    <2> QED BY <1>1, <2>1, <2>2, KeepFacts
  <1>3. DOMAIN u = {"cur", "ord"} /\ u.cur = Put(room.cur, k, c) /\ u.ord = Append(room.ord, k)
    BY DEF InsertCursor
  <1> HIDE DEF kept, full, rest
  <1>4. /\ Shaped(room) /\ Typed(room)
        /\ \A j \in DOMAIN room.cur : j \in DOMAIN t.cur /\ room.cur[j] = t.cur[j]
    BY <1>1, <1>2
  <1> HIDE DEF room, u
  <1>5. /\ DOMAIN u.cur = DOMAIN room.cur \cup {k} /\ u.cur[k] = c
        /\ \A j \in DOMAIN u.cur \ {k} : j \in DOMAIN room.cur /\ u.cur[j] = room.cur[j]
    BY <1>3 DEF Put
  <1>6. u.ord \in Seq(Ids)
    BY <1>3, <1>4 DEF Typed
  <1>7. Shaped(u)
    BY <1>3, <1>4, <1>5 DEF Shaped
  <1>8. Typed(u) /\ Grown(t, u, k)
    BY <1>4, <1>5, <1>6 DEF Typed, Grown
  <1> QED BY <1>5, <1>7, <1>8 DEF u

(* A table in which one cursor is another.                                 *)
LEMMA PutFacts ==
  ASSUME NEW t, Shaped(t), Typed(t), NEW k \in DOMAIN t.cur, NEW c,
         {"src", "sub"} \subseteq DOMAIN c, kind # "audio" => "bound" \in DOMAIN c
  PROVE  LET u == [t EXCEPT !.cur = Put(t.cur, k, c)]
         IN  /\ Shaped(u) /\ Typed(u) /\ Grown(t, u, k) /\ u.cur[k] = c
             /\ DOMAIN u.cur = DOMAIN t.cur
  <1> DEFINE u == [t EXCEPT !.cur = Put(t.cur, k, c)]
  <1>1. DOMAIN u = {"cur", "ord"} /\ u.cur = Put(t.cur, k, c) /\ u.ord = t.ord
    BY DEF Shaped
  <1> HIDE DEF u
  <1>2. /\ DOMAIN u.cur = DOMAIN t.cur /\ u.cur[k] = c
        /\ \A j \in DOMAIN u.cur \ {k} : u.cur[j] = t.cur[j]
    BY <1>1 DEF Put
  <1>3. Shaped(u)
    BY <1>1, <1>2 DEF Shaped
  <1>4. Typed(u) /\ Grown(t, u, k)
    BY <1>1, <1>2 DEF Typed, Grown
  <1> QED BY <1>2, <1>3, <1>4 DEF u

LEMMA AdvanceFacts ==
  ASSUME NEW t, Shaped(t), Typed(t), NEW k \in DOMAIN t.cur
  PROVE  LET u == Advanced(t, k)
         IN  /\ Shaped(u) /\ Typed(u) /\ Grown(t, u, k)
             /\ u.cur[k].sub = t.cur[k].sub + 1
             /\ kind # "audio" => u.cur[k].bound = t.cur[k].bound
  <1> DEFINE c == Advance(t.cur[k])
             u == Advanced(t, k)
  <1>1. /\ {"src", "sub"} \subseteq DOMAIN c /\ c.sub = t.cur[k].sub + 1
        /\ kind # "audio" => "bound" \in DOMAIN c /\ c.bound = t.cur[k].bound
    BY DEF Advance, Shaped
  <1>2. u = [t EXCEPT !.cur = Put(t.cur, k, c)]
    BY DEF Advanced
  <1> HIDE DEF c
  <1>3. Shaped(u) /\ Typed(u) /\ Grown(t, u, k) /\ u.cur[k] = c
    BY <1>1, <1>2, PutFacts
  <1> HIDE DEF u
  <1>4. u.cur[k].sub = t.cur[k].sub + 1 /\ (kind # "audio" => u.cur[k].bound = t.cur[k].bound)
    BY <1>1, <1>3
  <1> QED BY <1>3, <1>4 DEF u

LEMMA ReplyFacts ==
  ASSUME NEW t, NEW o
  PROVE  Reply(t, o).table = t /\ Reply(t, o).out = o
  BY DEF Reply

(* What a message makes of the table, and what it is sent as: a start, a   *)
(* start made for it and the message, or the successor.                    *)
Kept(t, m, r) ==
  /\ Shaped(r.table) /\ Typed(r.table) /\ Grown(t, r.table, m.id)
  /\ r.table.cur[m.id].sub = r.out[Len(r.out)].sub
  /\ kind # "audio" => r.table.cur[m.id].bound = {}
SentAs(t, m, o) ==
  \/ m.seq = 0 /\ o = <<Sent(m, 0)>>
  \/ m.seq # 0 /\ m.id \notin DOMAIN t.cur /\ o = <<Sent(m, 0), Sent(m, 1)>>
  \/ m.seq # 0 /\ m.id \in DOMAIN t.cur /\ o = <<Sent(m, t.cur[m.id].sub + 1)>>

LEMMA AudioFacts ==
  ASSUME NEW t, kind = "audio", Shaped(t), Typed(t), NEW m, m.id \in Ids, m.seq \in Nat,
         m.empty = (m.seq = 0), ~AudioFrames(t, m).err
  PROVE  Kept(t, m, AudioFrames(t, m)) /\ SentAs(t, m, AudioFrames(t, m).out)
  <1>1. CASE m.seq = 0
    <2> DEFINE c == AudioCursor(0, 0, m.fmt)
               u == InsertCursor(t, m.id, c)
               o == Sent(m, 0)
    <2>1. AudioFrames(t, m) = Reply(u, <<o>>)
      BY <1>1 DEF AudioFrames
    <2>2. {"src", "sub"} \subseteq DOMAIN c /\ c.sub = 0 /\ o.sub = 0
      BY DEF AudioCursor, Sent
    <2> HIDE DEF c, o
    <2>3. Shaped(u) /\ Typed(u) /\ Grown(t, u, m.id) /\ u.cur[m.id] = c
      BY <2>2, InsertFacts
    <2> HIDE DEF u
    <2>4. Kept(t, m, Reply(u, <<o>>))
      <3> DEFINE p == <<o>>
      <3>1. p[Len(p)].sub = u.cur[m.id].sub
        BY <2>2, <2>3
      <3> HIDE DEF p
      <3>2. Kept(t, m, Reply(u, p))
        BY <2>3, <3>1, ReplyFacts DEF Kept
      <3> QED BY <3>2 DEF p
    <2>5. SentAs(t, m, <<o>>)
      BY <1>1 DEF SentAs, o
    <2> QED BY <2>1, <2>4, <2>5, ReplyFacts
  <1>2. CASE m.seq # 0 /\ m.id \in DOMAIN t.cur
    <2> DEFINE u == Advanced(t, m.id)
               o == Sent(m, t.cur[m.id].sub + 1)
    <2>1. AudioFrames(t, m) = AudioBlock(t, m, FALSE)
      BY <1>2 DEF AudioFrames
    <2>2. AudioFrames(t, m) = Reply(u, <<o>>)
      BY <2>1 DEF AudioBlock, Refuse
    <2>3. o.sub = t.cur[m.id].sub + 1
      BY DEF Sent
    <2>4. /\ Shaped(u) /\ Typed(u) /\ Grown(t, u, m.id)
          /\ u.cur[m.id].sub = t.cur[m.id].sub + 1
      BY <1>2, AdvanceFacts
    <2>5. SentAs(t, m, <<o>>)
      BY <1>2 DEF SentAs
    <2> HIDE DEF u, o
    <2>6. Kept(t, m, Reply(u, <<o>>))
      BY <2>3, <2>4, ReplyFacts DEF Kept
    <2> QED BY <2>2, <2>5, <2>6, ReplyFacts
  <1>3. CASE m.seq # 0 /\ m.id \notin DOMAIN t.cur
    <2> DEFINE c == AudioCursor(m.seq - 1, 0, m.fmt)
               v == InsertCursor(t, m.id, c)
               u == Advanced(v, m.id)
               o == <<Sent(m, 0), Sent(m, 1)>>
    <2>1. AudioFrames(t, m) = AudioBlock(t, m, TRUE)
      BY <1>3 DEF AudioFrames
    <2>2. AudioFrames(t, m) = Reply(u, o)
      BY <2>1 DEF AudioBlock, Refuse
    <2>3. {"src", "sub"} \subseteq DOMAIN c /\ c.sub = 0
      BY DEF AudioCursor
    <2>4. o[Len(o)].sub = 1
      BY DEF Sent
    <2>5. SentAs(t, m, o)
      BY <1>3 DEF SentAs
    <2> HIDE DEF c, o
    <2>6. Shaped(v) /\ Typed(v) /\ Grown(t, v, m.id) /\ v.cur[m.id] = c
      BY <2>3, InsertFacts
    <2> HIDE DEF v
    <2>7. /\ Shaped(u) /\ Typed(u) /\ Grown(v, u, m.id)
          /\ u.cur[m.id].sub = v.cur[m.id].sub + 1
      BY <2>6, AdvanceFacts DEF Grown
    <2> HIDE DEF u
    <2>8. Grown(t, u, m.id)
      BY <2>6, <2>7 DEF Grown
    <2>9. Kept(t, m, Reply(u, o))
      BY <2>3, <2>4, <2>6, <2>7, <2>8, ReplyFacts DEF Kept
    <2> QED BY <2>2, <2>5, <2>9, ReplyFacts
  <1> QED BY <1>1, <1>2, <1>3

LEMMA DecodeFacts ==
  ASSUME NEW t, kind # "audio", Shaped(t), Typed(t), NEW m, m.id \in Ids, m.seq \in Nat,
         m.start = (m.seq = 0), ~Covered(t, m), ~DecodeFrames(t, m).err
  PROVE  Kept(t, m, DecodeFrames(t, m)) /\ SentAs(t, m, DecodeFrames(t, m).out)
  <1> DEFINE v == Unbound(t, m.id)
  <1>1. /\ Shaped(v) /\ Typed(v) /\ DOMAIN v.cur = DOMAIN t.cur
        /\ \A j \in DOMAIN t.cur \ {m.id} : v.cur[j] = t.cur[j]
        /\ m.id \in DOMAIN t.cur => v.cur[m.id].sub = t.cur[m.id].sub /\ v.cur[m.id].bound = {}
    <2>1. CASE m.id \notin DOMAIN t.cur
      BY <2>1 DEF Unbound
    <2>2. CASE m.id \in DOMAIN t.cur
      <3> DEFINE c == [t.cur[m.id] EXCEPT !.bound = {}]
      <3>1. /\ {"src", "sub"} \subseteq DOMAIN c /\ "bound" \in DOMAIN c
            /\ c.sub = t.cur[m.id].sub /\ c.bound = {}
        BY <2>2 DEF Shaped
      <3>2. v = [t EXCEPT !.cur = Put(t.cur, m.id, c)]
        BY <2>2 DEF Unbound
      <3> HIDE DEF c, v
      <3>3. /\ Shaped(v) /\ Typed(v) /\ Grown(t, v, m.id) /\ v.cur[m.id] = c
            /\ DOMAIN v.cur = DOMAIN t.cur
        BY <2>2, <3>1, <3>2, PutFacts
      <3> QED BY <2>2, <3>1, <3>3 DEF Grown
    <2> QED BY <2>1, <2>2
  <1>2. DecodeFrames(t, m) = IF m.seq = 0 \/ m.id \notin DOMAIN t.cur
                             THEN DecodeFirst(v, m) ELSE DecodeNext(v, m)
    BY DEF DecodeFrames
  <1> HIDE DEF v
  <1>3. CASE m.seq = 0 \/ m.id \notin DOMAIN t.cur
    <2> DEFINE K == {k \in DOMAIN v.cur : v.cur[k].ch # m.ch}
               w == Keep(v, K)
               n == IF m.seq = 0 THEN 0 ELSE 1
               c == DecodeCursor(m.seq, n, m.ch, {})
               u == InsertCursor(w, m.id, c)
               o == IF m.seq = 0 THEN <<Sent(m, 0)>> ELSE <<Sent(m, 0), Sent(m, 1)>>
    <2>1. DecodeFrames(t, m) = Reply(u, o)
      BY <1>2, <1>3 DEF DecodeFirst
    <2>2. /\ {"src", "sub"} \subseteq DOMAIN c /\ "bound" \in DOMAIN c
          /\ c.sub = n /\ c.bound = {}
      BY DEF DecodeCursor
    <2>3. o[Len(o)].sub = n
      <3>1. CASE m.seq = 0
        BY <3>1 DEF Sent
      <3>2. CASE m.seq # 0
        BY <3>2 DEF Sent
      <3> QED BY <3>1, <3>2
    <2>4. SentAs(t, m, o)
      BY <1>3 DEF SentAs
    <2>5. /\ Shaped(w) /\ Typed(w)
          /\ \A j \in DOMAIN w.cur : j \in DOMAIN v.cur /\ w.cur[j] = v.cur[j]
      <3>1. K \subseteq DOMAIN v.cur
        OBVIOUS
      <3> HIDE DEF K
      <3> QED BY <1>1, <3>1, KeepFacts
    <2> HIDE DEF w, c, o, n
    <2>6. Shaped(u) /\ Typed(u) /\ Grown(w, u, m.id) /\ u.cur[m.id] = c
      BY <2>2, <2>5, InsertFacts
    <2> HIDE DEF u
    <2>7. Grown(t, u, m.id)
      BY <1>1, <2>5, <2>6 DEF Grown
    <2>8. Kept(t, m, Reply(u, o))
      BY <2>2, <2>3, <2>6, <2>7, ReplyFacts DEF Kept
    <2> QED BY <2>1, <2>4, <2>8, ReplyFacts
  <1>4. CASE m.seq # 0 /\ m.id \in DOMAIN t.cur
    <2> DEFINE u == Advanced(v, m.id)
               o == Sent(m, v.cur[m.id].sub + 1)
    <2>1. DecodeFrames(t, m) = Reply(u, <<o>>)
      BY <1>2, <1>4 DEF DecodeNext, Refuse
    <2>2. o.sub = v.cur[m.id].sub + 1
      BY DEF Sent
    <2>3. SentAs(t, m, <<o>>)
      BY <1>1, <1>4 DEF SentAs
    <2> HIDE DEF o
    <2>4. /\ Shaped(u) /\ Typed(u) /\ Grown(v, u, m.id)
          /\ u.cur[m.id].sub = v.cur[m.id].sub + 1 /\ u.cur[m.id].bound = v.cur[m.id].bound
      BY <1>1, <1>4, AdvanceFacts
    <2> HIDE DEF u
    <2>5. Grown(t, u, m.id)
      BY <1>1, <1>4, <2>4 DEF Grown
    <2>6. Kept(t, m, Reply(u, <<o>>))
      <3> DEFINE p == <<o>>
      <3>1. p[Len(p)].sub = u.cur[m.id].sub
        BY <2>2, <2>4
      <3> HIDE DEF p
      <3>2. Kept(t, m, Reply(u, p))
        BY <1>1, <1>4, <2>4, <2>5, <3>1, ReplyFacts DEF Kept
      <3> QED BY <3>2 DEF p
    <2> QED BY <2>1, <2>3, <2>6, ReplyFacts
  <1> QED BY <1>3, <1>4

-----------------------------------------------------------------------------
(* The inductive invariant.                                                *)

Messages == got \o todo
Flight   == hand \o FlattenSeq(fifo)
Upcoming == Event(next)
Shown(m) == [id |-> m.id, seq |-> m.src]
Live     == pc \notin {"close", "leave", "gone"}
Open     == registered /\ ~Slow

(* An event is of an earlier stream than another, or earlier in the same.  *)
Before(a, e) == a.id[1] < e.id[1] \/ (a.id = e.id /\ a.seq < e.seq)
(* It was made since the socket was opened.                                *)
Since(e) == joined.id[1] < e.id[1] \/ (joined.id = e.id /\ joined.next <= e.seq)

Ascending(s) == \A i, j \in 1..Len(s) : i < j => Before(s[i], s[j])
Numbered(s) ==
  \A i \in 1..Len(s) : s[i].sub = Cardinality({j \in 1..(i - 1) : s[j].id = s[i].id})
Grouped(s) ==
  \A i, j \in 1..Len(s) : i < j => s[i].id = s[j].id \/ s[i].id[1] < s[j].id[1]

Bounded ==
  /\ id[1] <= retunes + 1
  /\ id[2] = IF failure = "none" THEN failures + 1 ELSE failures
  /\ next <= events
  /\ snapshot # {} => failure = "none" /\ next > 0 /\ snapshot = {next - 1}

(* What the loop holds at which point.                                     *)
Control ==
  /\ registered <=> pc \notin {"away", "gone"}
  /\ pc \in {"away", "gone"} => fifo = <<>> /\ reserved = 0
  /\ pc \notin {"packet", "send"} => hand = <<>> /\ held = 0
  /\ pc \notin {"initial", "send"} => todo = <<>>
  /\ pc = "away" => got = <<>> /\ made = <<>> /\ table = EmptyTable /\ ~Slow

Budget ==
  /\ kind = "audio" => reserved = 0 /\ held = 0
  /\ kind # "audio" => reserved = Len(FlattenSeq(fifo)) + held /\ reserved <= PendingLimit

(* A socket that is not flagged is of the epoch it joined, and everything  *)
(* on its way is.                                                          *)
Epochs ==
  /\ registered /\ ~receiver_failed => id[2] = joined.id[2] /\ failure # "published"
  /\ \A i \in 1..Len(Flight) : Flight[i].id[2] = joined.id[2]
  /\ \A i \in 1..Len(Messages) : Messages[i].id[2] = joined.id[2]

Ordered ==
  /\ Ascending(Flight)
  /\ \A i \in 1..Len(Flight) : Since(Flight[i])
  /\ Live => \A i \in 1..Len(Messages) : \A j \in 1..Len(Flight) :
               Before(Shown(Messages[i]), Flight[j])
  /\ Open => /\ Since(Upcoming)
             /\ \A i \in 1..Len(Flight) : Before(Flight[i], Upcoming)
             /\ \A i \in 1..Len(Messages) : Before(Shown(Messages[i]), Upcoming)

Renumbered ==
  /\ Numbered(Messages) /\ Grouped(Messages)
  /\ \A i \in 1..Len(Messages) : Messages[i].sub <= Messages[i].src

(* The stream of the last message has a cursor with its number, and no     *)
(* stream without a message has one.                                       *)
Continues(t, ms) ==
  ms # <<>> => /\ ms[Len(ms)].id \in DOMAIN t.cur
               /\ t.cur[ms[Len(ms)].id].sub = ms[Len(ms)].sub
Begun(t, ms) ==
  \A k \in DOMAIN t.cur : \E i \in 1..Len(ms) :
    ms[i].id = k /\ (kind # "audio" => t.cur[k].bound \subseteq {ms[i].src})
Cursors ==
  /\ Shaped(table)
  /\ Live => Continues(table, Messages) /\ Begun(table, Messages)

Complete ==
  Open /\ Live => Among(Once(Pairs(Messages)), AfterJoin) \o Waiting(Flight) = Waiting(made)

Covers(a) == \A e \in ToSet(got) : e.id = a.id /\ e.sub <= a.sub => e \in acked
Credits ==
  /\ kind # "acked" => credit = <<>>
  /\ Len(credit) <= AckWindow /\ ToSet(credit) \subseteq ToSet(got)
  /\ kind = "acked" =>
       \A m \in ToSet(got) \ acked :
         \/ m \in ToSet(credit)
         \/ \E a \in guessed : Arrived(a) /\ a.id = m.id /\ m.sub <= a.sub
  /\ \A i \in 1..Len(acks) : acks[i] \in guessed \/ (Arrived(acks[i]) /\ Covers(acks[i]))

IInv == /\ TypeOK /\ Bounded /\ Control /\ Budget /\ Epochs
        /\ Ordered /\ Renumbered /\ Cursors /\ Complete /\ Credits

(* Which states the invariant holds in at the start.                       *)
LEMMA InitHolds == Init => IInv
  <1> SUFFICES ASSUME Init PROVE IInv
    OBVIOUS
  <1> USE ClientsAssumption
  <1>1. id = <<1, 1>> /\ id \in Ids
    BY DEF Init, Ids
  <1>2. TypeOK
    <2>1. joined \in [id : Ids, next : 0..MaxEvents]
      BY <1>1 DEF Init
    <2>2. DOMAIN table.cur \subseteq Ids /\ table.ord \in Seq(Ids)
      BY DEF Init, EmptyTable
    <2>3. /\ fifo \in Seq(Seq(AnEvent)) /\ Len(fifo) <= FifoSlots /\ hand \in Seq(AnEvent)
          /\ todo \in Seq(AMessage) /\ credit \in Seq(AMessage) /\ got \in Seq(AMessage)
          /\ acks \in Seq(AnAck) /\ made \in Seq(AnEvent)
      BY DEF Init
    <2>4. acked \subseteq AMessage /\ guessed \subseteq AnAck /\ snapshot \subseteq 0..MaxEvents
      BY DEF Init
    <2>5. /\ next \in 0..MaxEvents /\ reserved \in Nat /\ held \in 0..PendingLimit
          /\ events \in 0..MaxEvents /\ retunes \in 0..MaxRetunes /\ failures \in 0..MaxFailures
      BY DEF Init
    <2>6. /\ failure \in {"none", "pending", "published"} /\ kind \in Kinds
          /\ registered \in BOOLEAN /\ overflow \in BOOLEAN /\ receiver_failed \in BOOLEAN
          /\ wake \in BOOLEAN /\ pc \in {"away", "initial", "top", "select", "packet", "send",
                                         "close", "leave", "gone"}
      BY DEF Init
    <2> QED BY <1>1, <2>1, <2>2, <2>3, <2>4, <2>5, <2>6 DEF TypeOK
  <1>3. Flight = <<>> /\ Messages = <<>>
    <2>1. hand = <<>> /\ fifo = <<>> /\ got = <<>> /\ todo = <<>>
      BY DEF Init
    <2>2. <<>> \o <<>> = <<>>
      OBVIOUS
    <2> QED BY <2>1, <2>2, FlattenEmpty DEF Flight, Messages
  <1>4. Bounded /\ Control
    BY <1>1 DEF Init, Bounded, Control, Slow
  <1>5. Budget
    BY FlattenEmpty DEF Init, Budget
  <1>6. Epochs
    BY <1>3 DEF Init, Epochs
  <1>7. Ordered
    BY <1>3 DEF Init, Ordered, Open, Ascending
  <1>8. Renumbered
    BY <1>3 DEF Renumbered, Numbered, Grouped
  <1>9. Cursors
    BY <1>3 DEF Init, Cursors, Continues, Begun, Shaped, EmptyTable
  <1>10. Complete
    BY DEF Init, Complete, Open
  <1>11. Credits
    <2>1. credit = <<>> /\ got = <<>> /\ acks = <<>>
      BY DEF Init
    <2>2. ToSet(credit) = {} /\ ToSet(got) = {} /\ Len(credit) = 0 /\ Len(acks) = 0
      BY <2>1 DEF ToSet
    <2> QED BY <2>1, <2>2 DEF Credits
  <1> QED BY <1>2, <1>4, <1>5, <1>6, <1>7, <1>8, <1>9, <1>10, <1>11 DEF IInv

-----------------------------------------------------------------------------
(* The sequences the invariant speaks of.                                  *)

LEMMA Types ==
  ASSUME TypeOK
  PROVE  /\ Messages \in Seq(AMessage) /\ Flight \in Seq(AnEvent)
         /\ FlattenSeq(fifo) \in Seq(AnEvent) /\ hand \in Seq(AnEvent)
         /\ got \in Seq(AMessage) /\ todo \in Seq(AMessage)
         /\ Len(Flight) = Len(hand) + Len(FlattenSeq(fifo))
         /\ Len(Messages) = Len(got) + Len(todo)
  <1>1. /\ fifo \in Seq(Seq(AnEvent)) /\ hand \in Seq(AnEvent)
        /\ got \in Seq(AMessage) /\ todo \in Seq(AMessage)
    BY DEF TypeOK
  <1>2. FlattenSeq(fifo) \in Seq(AnEvent)
    BY <1>1, FlattenType
  <1> QED BY <1>1, <1>2 DEF Messages, Flight

Runs(s) == [i \in DOMAIN s |-> IF i > 1 /\ s[i] = s[i - 1] THEN <<>> ELSE <<s[i]>>]

LEMMA OnceIs == \A s : Once(s) = FlattenSeq(Runs(s))
  BY DEF Once, Runs

LEMMA RunsType ==
  ASSUME NEW T, NEW s \in Seq(T)
  PROVE  Runs(s) \in Seq(Seq(T)) /\ Len(Runs(s)) = Len(s)
  <1>1. ASSUME NEW i \in DOMAIN s
        PROVE  (IF i > 1 /\ s[i] = s[i - 1] THEN <<>> ELSE <<s[i]>>) \in Seq(T)
    OBVIOUS
  <1>2. DOMAIN Runs(s) = 1..Len(s) /\ Len(s) \in Nat
    BY DEF Runs
  <1>3. \A i \in 1..Len(s) : Runs(s)[i] \in Seq(T)
    BY <1>1 DEF Runs
  <1>4. Runs(s) = [i \in 1..Len(s) |-> Runs(s)[i]]
    BY DEF Runs
  <1> QED BY <1>2, <1>3, <1>4

LEMMA OnceType ==
  ASSUME NEW T, NEW s \in Seq(T)
  PROVE  Once(s) \in Seq(T)
  BY RunsType, FlattenType, OnceIs

(* Another element shows up in Once unless it repeats the last one.        *)
LEMMA OnceAppend ==
  ASSUME NEW T, NEW s \in Seq(T), NEW e \in T
  PROVE  Once(Append(s, e)) =
           IF s # <<>> /\ s[Len(s)] = e THEN Once(s) ELSE Append(Once(s), e)
  <1> DEFINE x == IF s # <<>> /\ s[Len(s)] = e THEN <<>> ELSE <<e>>
             a == Append(s, e)
  <1>1. /\ a \in Seq(T) /\ Len(a) = Len(s) + 1 /\ a[Len(s) + 1] = e
        /\ \A i \in 1..Len(s) : a[i] = s[i]
        /\ Len(s) \in Nat /\ x \in Seq(T)
        /\ s # <<>> <=> Len(s) > 0
    OBVIOUS
  <1>2. Runs(s) \in Seq(Seq(T)) /\ Len(Runs(s)) = Len(s) /\ Runs(a) \in Seq(Seq(T))
        /\ Len(Runs(a)) = Len(s) + 1
    BY <1>1, RunsType
  <1>3. \A i \in 1..Len(s) : Runs(a)[i] = Runs(s)[i]
    <2> TAKE i \in 1..Len(s)
    <2>1. a[i] = s[i] /\ (i > 1 => a[i - 1] = s[i - 1])
      BY <1>1
    <2>2. i \in DOMAIN s /\ i \in DOMAIN a
      BY <1>1
    <2> HIDE DEF a
    <2> QED BY <2>1, <2>2 DEF Runs
  <1>4. Runs(a)[Len(s) + 1] = x
    <2>1. Len(s) + 1 \in DOMAIN a
      BY <1>1
    <2>2. Len(s) > 0 => a[Len(s)] = s[Len(s)]
      BY <1>1
    <2> HIDE DEF a
    <2>3. Runs(a)[Len(s) + 1] = IF Len(s) + 1 > 1 /\ a[Len(s) + 1] = a[Len(s) + 1 - 1]
                               THEN <<>> ELSE <<a[Len(s) + 1]>>
      BY <2>1 DEF Runs
    <2> QED BY <1>1, <2>2, <2>3
  <1> HIDE DEF x, a
  <1>5. Runs(a) = Append(Runs(s), x)
    BY <1>1, <1>2, <1>3, <1>4
  <1>6. Once(a) = Once(s) \o x
    BY <1>1, <1>2, <1>5, FlattenAppend, OnceIs
  <1>7. Once(s) \in Seq(T)
    BY OnceType
  <1> QED BY <1>6, <1>7 DEF x, a

-----------------------------------------------------------------------------
(* Steps that leave the stream of events alone.                            *)

(* What is sent, queued and made stays the same.                           *)
Still ==
  /\ Flight' = Flight /\ Messages' = Messages
  /\ made' = made /\ table' = table /\ joined' = joined /\ kind' = kind
  /\ Open' => Open /\ id' = id /\ next' = next
  /\ Live' => Live

(* The loop is left: the packet in hand is dropped, and what was to be     *)
(* sent of it.                                                             *)
Left ==
  /\ Flight' \in Seq(AnEvent) /\ Len(Flight') <= Len(Flight)
  /\ \A i \in 1..Len(Flight') : Flight'[i] = Flight[Len(Flight) - Len(Flight') + i]
  /\ Messages' = got
  /\ table' = table /\ joined' = joined /\ kind' = kind
  /\ Open' => Open /\ id' = id /\ next' = next
  /\ ~Live'

(* What the streams of an epoch are of.                                    *)
OneEpoch ==
  /\ \A i \in 1..Len(Flight) : Flight[i].id[2] = joined.id[2]
  /\ \A i \in 1..Len(Messages) : Messages[i].id[2] = joined.id[2]
Stream == Ordered /\ Renumbered /\ Cursors /\ Complete /\ OneEpoch

LEMMA StillKeeps ==
  ASSUME Stream, Still
  PROVE  Stream'
  <1>1. /\ Flight' = Flight /\ Messages' = Messages
        /\ made' = made /\ table' = table /\ joined' = joined /\ kind' = kind
        /\ Open' => Open /\ id' = id /\ next' = next
        /\ Live' => Live
    BY DEF Still
  <1>2. Open' => Upcoming' = Upcoming
    BY <1>1 DEF Upcoming, Event
  <1>3. Ordered'
    BY <1>1, <1>2 DEF Stream, Ordered, Since
  <1>4. Renumbered'
    BY <1>1 DEF Stream, Renumbered
  <1>5. Cursors'
    BY <1>1 DEF Stream, Cursors, Shaped, Begun, Continues
  <1>6. Complete'
    BY <1>1 DEF Stream, Complete, AfterJoin
  <1>7. OneEpoch'
    BY <1>1 DEF Stream, OneEpoch
  <1> QED BY <1>3, <1>4, <1>5, <1>6, <1>7 DEF Stream

LEMMA LeftKeeps ==
  ASSUME TypeOK, Stream, Left
  PROVE  Stream'
  <1>1. /\ Messages' = got
        /\ table' = table /\ joined' = joined /\ kind' = kind
        /\ Open' => Open /\ id' = id /\ next' = next
        /\ ~Live'
    BY DEF Left
  <1> DEFINE n == Len(Messages')
             k == Len(Flight) - Len(Flight')
  <1>2. /\ n \in Nat /\ n <= Len(Messages) /\ Len(Messages) \in Nat
        /\ \A i \in 1..n : Messages'[i] = Messages[i]
    <2>1. got \in Seq(AMessage) /\ todo \in Seq(AMessage)
      BY Types
    <2> QED BY <1>1, <2>1 DEF Messages
  <1>3. /\ k \in Nat /\ Len(Flight') \in Nat /\ k + Len(Flight') = Len(Flight)
        /\ \A i \in 1..Len(Flight') : Flight'[i] = Flight[k + i]
    <2>1. Len(Flight) \in Nat
      BY Types
    <2>2. Len(Flight') \in Nat
      BY DEF Left
    <2> QED BY <2>1, <2>2 DEF Left
  <1> HIDE DEF n, k
  <1>4. \A i \in 1..n : i \in 1..Len(Messages)
    BY <1>2
  <1>5. \A i \in 1..Len(Flight') : k + i \in 1..Len(Flight)
    BY <1>3
  <1>6. Open' => Upcoming' = Upcoming
    BY <1>1 DEF Upcoming, Event
  <1>7. Ordered'
    <2>1. Ascending(Flight')
      <3>1. ASSUME NEW i \in 1..Len(Flight'), NEW j \in 1..Len(Flight'), i < j
            PROVE  Before(Flight'[i], Flight'[j])
        <4>1. k + i < k + j /\ k + i \in 1..Len(Flight) /\ k + j \in 1..Len(Flight)
          BY <1>3, <1>5, <3>1
        <4>2. Before(Flight[k + i], Flight[k + j])
          BY <4>1 DEF Stream, Ordered, Ascending
        <4> QED BY <1>3, <4>2
      <3> QED BY <3>1 DEF Ascending
    <2>2. (\A i \in 1..Len(Flight) : Since(Flight[i]))'
      BY <1>1, <1>3, <1>5 DEF Stream, Ordered, Since
    <2>3. Open' => Since(Upcoming)'
      BY <1>1, <1>6 DEF Stream, Ordered, Since
    <2>4. Open' => \A i \in 1..Len(Flight') : Before(Flight'[i], Upcoming')
      BY <1>1, <1>3, <1>5, <1>6 DEF Stream, Ordered
    <2>5. Open' => \A i \in 1..n : Before(Shown(Messages'[i]), Upcoming')
      BY <1>1, <1>2, <1>4, <1>6 DEF Stream, Ordered
    <2>6. Open' => \A i \in 1..Len(Messages') : Before(Shown(Messages'[i]), Upcoming')
      BY <2>5 DEF n
    <2> QED BY <1>1, <2>1, <2>2, <2>3, <2>4, <2>6 DEF Ordered
  <1>8. Renumbered'
    <2>1. Numbered(Messages')
      <3> SUFFICES ASSUME NEW i \in 1..Len(Messages')
                   PROVE  Messages'[i].sub =
                            Cardinality({j \in 1..(i - 1) : Messages'[j].id = Messages'[i].id})
        BY DEF Numbered
      <3>1. \A j \in 1..(i - 1) : Messages'[j] = Messages[j]
        BY <1>2 DEF n
      <3>2. Messages'[i] = Messages[i] /\ i \in 1..Len(Messages)
        BY <1>2, <1>4 DEF n
      <3>3. {j \in 1..(i - 1) : Messages'[j].id = Messages'[i].id}
              = {j \in 1..(i - 1) : Messages[j].id = Messages[i].id}
        BY <3>1, <3>2
      <3> QED BY <3>2, <3>3 DEF Stream, Renumbered, Numbered
    <2>2. Grouped(Messages')
      BY <1>2, <1>4 DEF n, Stream, Renumbered, Grouped
    <2>3. \A i \in 1..Len(Messages') : Messages'[i].sub <= Messages'[i].src
      BY <1>2, <1>4 DEF n, Stream, Renumbered
    <2> QED BY <2>1, <2>2, <2>3 DEF Renumbered
  <1>9. Cursors'
    BY <1>1 DEF Stream, Cursors, Shaped
  <1>10. Complete'
    BY <1>1 DEF Complete
  <1>11. OneEpoch'
    <2>1. \A i \in 1..Len(Flight') : Flight'[i].id[2] = joined'.id[2]
      BY <1>1, <1>3, <1>5 DEF Stream, OneEpoch
    <2>2. \A i \in 1..Len(Messages') : Messages'[i].id[2] = joined'.id[2]
      BY <1>1, <1>2, <1>4 DEF n, Stream, OneEpoch
    <2> QED BY <2>1, <2>2 DEF OneEpoch
  <1> QED BY <1>7, <1>8, <1>9, <1>10, <1>11 DEF Stream

-----------------------------------------------------------------------------
(* Deliveries.                                                             *)

LEMMA IdFacts ==
  /\ \A k \in Ids : k[1] \in Nat /\ k[2] \in Nat
  /\ \A e \in AnEvent : e.id \in Ids /\ e.seq \in Nat /\ e.id[1] \in Nat
  /\ \A m \in AMessage : /\ m.id \in Ids /\ m.src \in Nat /\ m.sub \in Nat /\ m.id[1] \in Nat
                         /\ Shown(m) \in AnEvent /\ Shown(m).id = m.id /\ Shown(m).seq = m.src
  <1>1. \A k \in Ids : k[1] \in Nat /\ k[2] \in Nat
    BY ClientsAssumption DEF Ids
  <1>2. \A e \in AnEvent : e.id \in Ids /\ e.seq \in Nat
    BY ClientsAssumption DEF AnEvent
  <1>3. \A m \in AMessage : m.id \in Ids /\ m.src \in Nat /\ m.sub \in Nat /\ m.src \in 0..MaxEvents
    BY ClientsAssumption DEF AMessage
  <1>4. \A m \in AMessage : Shown(m) \in AnEvent /\ Shown(m).id = m.id /\ Shown(m).seq = m.src
    BY <1>3 DEF Shown, AnEvent
  <1> QED BY <1>1, <1>2, <1>3, <1>4

LEMMA EventsFacts ==
  ASSUME TypeOK, Bounded, NEW n \in Nat, n = 0 \/ events + n <= MaxEvents
  PROVE  /\ Events(n) \in Seq(AnEvent) /\ Len(Events(n)) = n
         /\ \A i \in 1..n : Events(n)[i].id = id /\ Events(n)[i].seq = next + i - 1
  <1>1. /\ id \in Ids /\ next \in Nat /\ events \in Nat /\ MaxEvents \in Nat
        /\ next <= events
    BY ClientsAssumption DEF TypeOK, Bounded
  <1>2. ASSUME NEW i \in 1..n
        PROVE  /\ Event(next + i - 1) \in AnEvent
               /\ Event(next + i - 1).id = id /\ Event(next + i - 1).seq = next + i - 1
    <2>1. next + i - 1 \in 0..MaxEvents
      BY <1>1
    <2> QED BY <1>1, <2>1 DEF Event, AnEvent
  <1>3. Events(n) = [i \in 1..n |-> Event(next + i - 1)]
    BY DEF Events
  <1> QED BY <1>2, <1>3

LEMMA WaitingFacts ==
  ASSUME NEW s \in Seq(AnEvent), NEW t \in Seq(AnEvent)
  PROVE  /\ Waiting(s) \in Seq(Ids \X Nat) /\ Len(Waiting(s)) = Len(s)
         /\ Waiting(s \o t) = Waiting(s) \o Waiting(t)
  <1>1. ASSUME NEW u \in Seq(AnEvent)
        PROVE  /\ Waiting(u) \in Seq(Ids \X Nat) /\ Len(Waiting(u)) = Len(u)
               /\ \A i \in 1..Len(u) : Waiting(u)[i] = <<u[i].id, u[i].seq>>
    <2>1. \A i \in 1..Len(u) : <<u[i].id, u[i].seq>> \in Ids \X Nat
      BY IdFacts
    <2>2. Waiting(u) = [i \in 1..Len(u) |-> <<u[i].id, u[i].seq>>]
      BY DEF Waiting
    <2> HIDE DEF Waiting
    <2> QED BY <2>1, <2>2
  <1>2. s \o t \in Seq(AnEvent) /\ Len(s \o t) = Len(s) + Len(t)
        /\ \A i \in 1..Len(s \o t) : (s \o t)[i] = IF i <= Len(s) THEN s[i] ELSE t[i - Len(s)]
    OBVIOUS
  <1>3. \A i \in 1..Len(s \o t) : i > Len(s) => i - Len(s) \in 1..Len(t)
    BY <1>2
  <1> DEFINE a == Waiting(s)
             b == Waiting(t)
             c == Waiting(s \o t)
  <1>4. /\ a \in Seq(Ids \X Nat) /\ b \in Seq(Ids \X Nat) /\ c \in Seq(Ids \X Nat)
        /\ Len(a) = Len(s) /\ Len(b) = Len(t) /\ Len(c) = Len(a) + Len(b)
    BY <1>1, <1>2
  <1>5. /\ \A i \in 1..Len(c) : i <= Len(a) => c[i] = a[i]
        /\ \A i \in 1..Len(c) : i > Len(a) => c[i] = b[i - Len(a)]
    <2>1. ASSUME NEW i \in 1..Len(c), i <= Len(a)
          PROVE  c[i] = a[i]
      <3>1. i \in 1..Len(s) /\ i \in 1..Len(s \o t) /\ (s \o t)[i] = s[i]
        BY <1>2, <1>4, <2>1
      <3>2. a[i] = <<s[i].id, s[i].seq>> /\ c[i] = <<(s \o t)[i].id, (s \o t)[i].seq>>
        BY <1>1, <1>2, <3>1
      <3> QED BY <3>1, <3>2
    <2>2. ASSUME NEW i \in 1..Len(c), i > Len(a)
          PROVE  c[i] = b[i - Len(a)]
      <3> DEFINE j == i - Len(s)
      <3>1. j \in 1..Len(t) /\ i \in 1..Len(s \o t) /\ (s \o t)[i] = t[j] /\ Len(a) = Len(s)
        BY <1>2, <1>3, <1>4, <2>2
      <3>2. b[j] = <<t[j].id, t[j].seq>> /\ c[i] = <<(s \o t)[i].id, (s \o t)[i].seq>>
        BY <1>1, <1>2, <3>1
      <3> QED BY <3>1, <3>2
    <2> QED BY <2>1, <2>2
  <1> HIDE DEF a, b, c
  <1>6. c = a \o b
    <2>1. \A i \in 1..Len(c) : c[i] = IF i <= Len(a) THEN a[i] ELSE b[i - Len(a)]
      BY <1>4, <1>5
    <2> QED BY <1>4, <2>1, ConcatIs
  <1> QED BY <1>4, <1>6 DEF a, b, c

LEMMA PairsFacts ==
  ASSUME NEW ms \in Seq(AMessage)
  PROVE  /\ Pairs(ms) \in Seq(Ids \X Nat) /\ Len(Pairs(ms)) = Len(ms)
         /\ \A i \in 1..Len(ms) : Pairs(ms)[i] = <<ms[i].id, ms[i].src>>
         /\ Among(Once(Pairs(ms)), AfterJoin) \in Seq(Ids \X Nat)
  <1>1. \A i \in 1..Len(ms) : <<ms[i].id, ms[i].src>> \in Ids \X Nat
    BY IdFacts
  <1>2. Pairs(ms) = [i \in 1..Len(ms) |-> <<ms[i].id, ms[i].src>>]
    BY DEF Pairs
  <1>3. /\ Pairs(ms) \in Seq(Ids \X Nat) /\ Len(Pairs(ms)) = Len(ms)
        /\ \A i \in 1..Len(ms) : Pairs(ms)[i] = <<ms[i].id, ms[i].src>>
    BY <1>1, <1>2
  <1>4. Once(Pairs(ms)) \in Seq(Ids \X Nat)
    BY <1>3, OnceType
  <1> QED BY <1>3, <1>4, AmongType

(* Events of the stream of the slot join the queue, or the socket gets no  *)
(* more of them; the next event follows.                                   *)
Brought(es) ==
  /\ \/ ~Open' /\ Flight' = Flight
     \/ Open /\ Flight' = Flight \o es /\ made' = made \o es
  /\ Messages' = Messages /\ table' = table /\ joined' = joined /\ kind' = kind
  /\ Live' => Live
  /\ id[1] < id'[1] \/ (id' = id /\ next' = next + Len(es))
  /\ next' \in Nat /\ id' \in Ids

LEMMA BroughtKeeps ==
  ASSUME TypeOK, Stream, Epochs, NEW es \in Seq(AnEvent), Brought(es),
         \A i \in 1..Len(es) : es[i].id = id /\ es[i].seq = next + i - 1
  PROVE  Stream'
  <1>1. /\ Messages' = Messages /\ table' = table /\ joined' = joined /\ kind' = kind
        /\ Live' => Live
        /\ id[1] < id'[1] \/ (id' = id /\ next' = next + Len(es))
        /\ next' \in Nat /\ id' \in Ids
    BY DEF Brought
  <1>2. Renumbered'
    BY <1>1 DEF Stream, Renumbered
  <1>3. Cursors'
    BY <1>1 DEF Stream, Cursors, Shaped, Begun, Continues
  <1>4. CASE ~Open' /\ Flight' = Flight
    <2>1. Ordered'
      BY <1>1, <1>4 DEF Stream, Ordered, Since
    <2>2. Complete'
      BY <1>4 DEF Complete
    <2>3. OneEpoch'
      BY <1>1, <1>4 DEF Stream, OneEpoch
    <2> QED BY <1>2, <1>3, <2>1, <2>2, <2>3 DEF Stream
  <1>5. CASE Open /\ Flight' = Flight \o es /\ made' = made \o es
    <2>1. /\ Flight \in Seq(AnEvent) /\ Messages \in Seq(AMessage) /\ made \in Seq(AnEvent)
          /\ id \in Ids /\ next \in Nat
          /\ id[1] \in Nat /\ id'[1] \in Nat
      BY SMTT(30), <1>1, Types, IdFacts DEF TypeOK
    <2>2. Upcoming.id = id /\ Upcoming.seq = next /\ Upcoming'.id = id' /\ Upcoming'.seq = next'
      BY DEF Upcoming, Event
    <2> DEFINE n == Len(Flight)
    <2>3. /\ n \in Nat /\ Len(Flight') = n + Len(es) /\ Len(es) \in Nat
          /\ \A i \in 1..Len(Flight') : Flight'[i] = IF i <= n THEN Flight[i] ELSE es[i - n]
          /\ \A i \in 1..Len(Flight') : i <= n => i \in 1..n
          /\ \A i \in 1..Len(Flight') : i > n => i - n \in 1..Len(es)
      BY <1>5, <2>1
    <2> HIDE DEF n
    <2>4. ASSUME NEW a \in AnEvent, Before(a, Upcoming), NEW i \in 1..Len(es)
          PROVE  Before(a, es[i])
      BY SMTT(30), <2>1, <2>2, <2>4, IdFacts DEF Before
    <2>5. ASSUME NEW a \in AnEvent, Before(a, Upcoming)
          PROVE  Before(a, Upcoming')
      <3>1. a.id[1] < id[1] \/ (a.id = id /\ a.seq < next)
        BY <2>2, <2>5 DEF Before
      <3>2. a.id[1] \in Nat /\ a.seq \in Nat
        BY IdFacts
      <3>3. a.id[1] < id'[1] \/ (a.id = id' /\ a.seq < next')
        <4>1. CASE id[1] < id'[1]
          BY <2>1, <3>1, <3>2, <4>1
        <4>2. CASE id' = id /\ next' = next + Len(es)
          BY <1>1, <2>1, <2>3, <3>1, <3>2, <4>2
        <4> QED BY <1>1, <4>1, <4>2
      <3> QED BY <2>2, <3>3 DEF Before
    <2>6. ASSUME NEW i \in 1..Len(es)
          PROVE  Before(es[i], Upcoming')
      BY <1>1, <2>1, <2>2, <2>3 DEF Before
    <2>7. \A i \in 1..n : Flight[i] \in AnEvent /\ Before(Flight[i], Upcoming)
      BY <1>5, <2>1 DEF Stream, Ordered, n
    <2>8. \A i \in 1..Len(Messages) : /\ Shown(Messages[i]) \in AnEvent
                                      /\ Before(Shown(Messages[i]), Upcoming)
      BY <1>5, <2>1, IdFacts DEF Stream, Ordered
    <2>9. Since(Upcoming) /\ joined.id \in Ids /\ joined.next \in Nat
      BY <1>5, ClientsAssumption DEF Stream, Ordered, TypeOK
    <2>10. Ascending(Flight')
      <3>1. ASSUME NEW i \in 1..Len(Flight'), NEW j \in 1..Len(Flight'), i < j
            PROVE  Before(Flight'[i], Flight'[j])
        <4>1. CASE j <= n
          <5>1. Before(Flight[i], Flight[j])
            BY <2>3, <3>1, <4>1 DEF Stream, Ordered, Ascending, n
          <5> QED BY <2>3, <3>1, <4>1, <5>1
        <4>2. CASE i <= n /\ j > n
          <5>1. /\ Flight'[i] = Flight[i] /\ i \in 1..n
                /\ Flight'[j] = es[j - n] /\ j - n \in 1..Len(es)
            BY <2>3, <3>1, <4>2
          <5>2. Flight[i] \in AnEvent /\ Before(Flight[i], Upcoming)
            BY <2>7, <5>1
          <5>3. Before(Flight[i], es[j - n])
            BY <2>4, <5>1, <5>2
          <5> QED BY <5>1, <5>3
        <4>3. CASE i > n /\ j > n
          <5>1. /\ Flight'[i] = es[i - n] /\ Flight'[j] = es[j - n]
                /\ i - n \in 1..Len(es) /\ j - n \in 1..Len(es) /\ i - n < j - n
            BY <2>3, <3>1, <4>3
          <5> QED BY SMTT(30), <2>1, <5>1 DEF Before
        <4> QED BY <2>3, <3>1, <4>1, <4>2, <4>3
      <3> QED BY <3>1 DEF Ascending
    <2>11. (\A i \in 1..Len(Flight) : Since(Flight[i]))'
      <3>1. ASSUME NEW i \in 1..Len(Flight')
            PROVE  joined.id[1] < Flight'[i].id[1]
                     \/ (joined.id = Flight'[i].id /\ joined.next <= Flight'[i].seq)
        <4>1. CASE i <= n
          <5>1. Since(Flight[i])
            BY <2>3, <4>1 DEF Stream, Ordered, n
          <5> QED BY <2>3, <4>1, <5>1 DEF Since
        <4>2. CASE i > n
          <5>1. i - n \in 1..Len(es) /\ Flight'[i] = es[i - n]
            BY <2>3, <4>2
          <5>2. es[i - n].id = id /\ es[i - n].seq = next + (i - n) - 1
            BY <5>1
          <5>3. next <= es[i - n].seq
            BY <2>1, <5>1, <5>2
          <5> QED BY <2>1, <2>2, <2>9, <5>1, <5>2, <5>3 DEF Since
        <4> QED BY <2>3, <4>1, <4>2
      <3> QED BY <1>1, <3>1 DEF Since
    <2>12. Live' => \A i \in 1..Len(Messages') : \A j \in 1..Len(Flight') :
                      Before(Shown(Messages'[i]), Flight'[j])
      <3>1. ASSUME Live', NEW i \in 1..Len(Messages), NEW j \in 1..Len(Flight')
            PROVE  Before(Shown(Messages[i]), Flight'[j])
        <4>1. CASE j <= n
          <5>1. Before(Shown(Messages[i]), Flight[j])
            BY <1>1, <2>3, <3>1, <4>1 DEF Stream, Ordered, n
          <5> QED BY <2>3, <4>1, <5>1
        <4>2. CASE j > n
          <5>1. Flight'[j] = es[j - n] /\ j - n \in 1..Len(es)
            BY <2>3, <4>2
          <5>2. Before(Shown(Messages[i]), es[j - n])
            BY <2>4, <2>8, <3>1, <5>1
          <5> QED BY <5>1, <5>2
        <4> QED BY <2>3, <4>1, <4>2
      <3> QED BY <1>1, <3>1
    <2>13. /\ Since(Upcoming)'
           /\ \A i \in 1..Len(Flight') : Before(Flight'[i], Upcoming')
           /\ \A i \in 1..Len(Messages') : Before(Shown(Messages'[i]), Upcoming')
      <3>1. Since(Upcoming)'
        <4>1. joined.id[1] \in Nat
          BY <2>9, IdFacts
        <4>2. joined.id[1] < id'[1] \/ (joined.id = id' /\ joined.next <= next')
          BY SMTT(30), <1>1, <2>1, <2>2, <2>3, <2>9, <4>1 DEF Since
        <4> QED BY <1>1, <2>2, <4>2 DEF Since
      <3>2. \A i \in 1..Len(Flight') : Before(Flight'[i], Upcoming')
        <4> TAKE i \in 1..Len(Flight')
        <4>1. CASE i <= n
          <5>1. Flight'[i] = Flight[i] /\ i \in 1..n
            BY <2>3, <4>1
          <5> QED BY <2>5, <2>7, <5>1
        <4>2. CASE i > n
          <5>1. Flight'[i] = es[i - n] /\ i - n \in 1..Len(es)
            BY <2>3, <4>2
          <5> QED BY <2>6, <5>1
        <4> QED BY <2>3, <4>1, <4>2
      <3>3. \A i \in 1..Len(Messages') : Before(Shown(Messages'[i]), Upcoming')
        BY <1>1, <2>5, <2>8
      <3> QED BY <3>1, <3>2, <3>3
    <2>14. Ordered'
      BY <2>10, <2>11, <2>12, <2>13 DEF Ordered
    <2>15. Complete'
      <3> SUFFICES ASSUME Live
                   PROVE  (Among(Once(Pairs(Messages)), AfterJoin) \o Waiting(Flight))'
                            = Waiting(made')
        BY <1>1 DEF Complete
      <3> DEFINE x == Among(Once(Pairs(Messages)), AfterJoin)
                 w == Waiting(Flight)
                 u == Waiting(es)
      <3>1. x' = x
        BY <1>1 DEF AfterJoin
      <3>2. x \o w = Waiting(made)
        BY <1>5 DEF Stream, Complete
      <3>3. x \in Seq(Ids \X Nat) /\ w \in Seq(Ids \X Nat) /\ u \in Seq(Ids \X Nat)
        BY <2>1, PairsFacts, WaitingFacts
      <3>4. w' = w \o u /\ Waiting(made') = Waiting(made) \o u
        BY <1>5, <2>1, WaitingFacts
      <3> HIDE DEF x, w, u
      <3>6. (x \o w) \o u = x \o (w \o u)
        <4> DEFINE T == Ids \X Nat
        <4>1. x \in Seq(T) /\ w \in Seq(T) /\ u \in Seq(T)
          BY <3>3
        <4> HIDE DEF T
        <4> QED BY SMTT(30), <4>1, Associative
      <3>5. x' \o w' = Waiting(made')
        BY <3>1, <3>2, <3>4, <3>6
      <3> QED BY <3>5 DEF x, w
    <2>16. OneEpoch'
      <3>1. id[2] = joined.id[2]
        BY <1>5 DEF Epochs, Open, Slow
      <3>2. \A i \in 1..Len(Flight') : Flight'[i].id[2] = joined.id[2]
        <4> TAKE i \in 1..Len(Flight')
        <4>1. CASE i <= n
          BY <2>3, <4>1 DEF Stream, OneEpoch, n
        <4>2. CASE i > n
          BY SMTT(30), <2>3, <3>1, <4>2
        <4> QED BY <2>3, <4>1, <4>2
      <3> QED BY <1>1, <3>2 DEF Stream, OneEpoch
    <2> QED BY <1>2, <1>3, <2>14, <2>15, <2>16 DEF Stream
  <1> QED BY <1>4, <1>5 DEF Brought

-----------------------------------------------------------------------------
(* Messages that are added.                                                *)

(* The messages of a stream among the first n.                             *)
Earlier(s, n, k) == {j \in 1..n : s[j].id = k}

LEMMA EarlierFinite ==
  ASSUME NEW s, NEW n \in Int, NEW k
  PROVE  IsFiniteSet(Earlier(s, n, k)) /\ Cardinality(Earlier(s, n, k)) \in Nat
  <1>1. IsFiniteSet(1..n) /\ Earlier(s, n, k) \in SUBSET (1..n)
    BY FS_Interval DEF Earlier
  <1>2. IsFiniteSet(Earlier(s, n, k))
    BY <1>1, FS_Subset
  <1> QED BY <1>2, FS_CardinalityType

LEMMA EarlierNext ==
  ASSUME NEW s, NEW n \in Nat, NEW k
  PROVE  Cardinality(Earlier(s, n + 1, k)) =
           IF s[n + 1].id = k THEN Cardinality(Earlier(s, n, k)) + 1
           ELSE Cardinality(Earlier(s, n, k))
  <1>1. CASE s[n + 1].id = k
    <2>1. Earlier(s, n + 1, k) = Earlier(s, n, k) \cup {n + 1} /\ n + 1 \notin Earlier(s, n, k)
      BY <1>1 DEF Earlier
    <2>2. IsFiniteSet(Earlier(s, n, k))
      BY EarlierFinite
    <2>3. Cardinality(Earlier(s, n, k) \cup {n + 1}) = Cardinality(Earlier(s, n, k)) + 1
      BY <2>1, <2>2, FS_AddElement
    <2> QED BY <1>1, <2>1, <2>3
  <1>2. CASE s[n + 1].id # k
    <2>1. Earlier(s, n + 1, k) = Earlier(s, n, k)
      BY <1>2 DEF Earlier
    <2> QED BY <1>2, <2>1
  <1> QED BY <1>1, <1>2

(* Two messages of a stream have different numbers, the later a larger one.*)
LEMMA LaterLarger ==
  ASSUME NEW s \in Seq(AMessage), Numbered(s),
         NEW i \in 1..Len(s), NEW j \in 1..Len(s), i < j, s[i].id = s[j].id
  PROVE  s[i].sub < s[j].sub
  <1> DEFINE k == s[i].id
             A == Earlier(s, i - 1, k)
             B == Earlier(s, j - 1, k)
  <1>1. s[i].sub = Cardinality(A) /\ s[j].sub = Cardinality(B)
    BY DEF Numbered, Earlier
  <1>2. i \in Nat /\ j \in Nat /\ i - 1 \in Int /\ j - 1 \in Int
    OBVIOUS
  <1>3. IsFiniteSet(A) /\ IsFiniteSet(B) /\ Cardinality(A) \in Nat /\ Cardinality(B) \in Nat
    BY <1>2, EarlierFinite
  <1>4. i \notin A /\ A \cup {i} \in SUBSET B
    BY DEF Earlier
  <1> HIDE DEF A, B, k
  <1>5. Cardinality(A \cup {i}) = Cardinality(A) + 1
    BY <1>3, <1>4, FS_AddElement
  <1>6. Cardinality(A \cup {i}) <= Cardinality(B)
    BY <1>3, <1>4, FS_Subset
  <1> QED BY <1>1, <1>3, <1>5, <1>6

(* The messages so far, each a sound one.                                  *)
Sound(s) == Numbered(s) /\ Grouped(s) /\ \A i \in 1..Len(s) : s[i].sub <= s[i].src
Next1(s, a) ==
  /\ a.sub = Cardinality(Earlier(s, Len(s), a.id)) /\ a.sub <= a.src
  /\ \A i \in 1..Len(s) : s[i].id = a.id \/ s[i].id[1] < a.id[1]

LEMMA AppendSound ==
  ASSUME NEW s \in Seq(AMessage), NEW a \in AMessage, Sound(s), Next1(s, a)
  PROVE  Append(s, a) \in Seq(AMessage) /\ Sound(Append(s, a))
  <1> DEFINE n == Len(s)
             t == Append(s, a)
  <1>1. /\ t \in Seq(AMessage) /\ Len(t) = n + 1 /\ t[n + 1] = a /\ n \in Nat
        /\ \A i \in 1..n : t[i] = s[i]
        /\ \A i \in 1..(n + 1) : i \in 1..n \/ i = n + 1
    OBVIOUS
  <1> HIDE DEF t
  <1>2. Numbered(t)
    <2> SUFFICES ASSUME NEW i \in 1..Len(t)
                 PROVE  t[i].sub = Cardinality({j \in 1..(i - 1) : t[j].id = t[i].id})
      BY DEF Numbered
    <2>1. CASE i \in 1..n
      <3>1. {j \in 1..(i - 1) : t[j].id = t[i].id} = {j \in 1..(i - 1) : s[j].id = s[i].id}
        <4>1. \A j \in 1..(i - 1) : j \in 1..n
          BY <1>1, <2>1
        <4> QED BY <1>1, <2>1, <4>1
      <3>2. s[i].sub = Cardinality({j \in 1..(i - 1) : s[j].id = s[i].id})
        BY <2>1 DEF Sound, Numbered
      <3> QED BY <1>1, <2>1, <3>1, <3>2
    <2>2. CASE i = n + 1
      <3>1. {j \in 1..(i - 1) : t[j].id = t[i].id} = Earlier(s, n, a.id)
        <4>1. i - 1 = n
          BY <1>1, <2>2
        <4> QED BY <1>1, <2>2, <4>1 DEF Earlier
      <3> QED BY <1>1, <2>2, <3>1 DEF Next1
    <2> QED BY <1>1, <2>1, <2>2
  <1>3. Grouped(t)
    <2> SUFFICES ASSUME NEW i \in 1..Len(t), NEW j \in 1..Len(t), i < j
                 PROVE  t[i].id = t[j].id \/ t[i].id[1] < t[j].id[1]
      BY DEF Grouped
    <2>1. i \in 1..n /\ t[i] = s[i]
      BY <1>1
    <2>2. CASE j \in 1..n
      BY <1>1, <2>1, <2>2 DEF Sound, Grouped
    <2>3. CASE j = n + 1
      BY <1>1, <2>1, <2>3 DEF Next1
    <2> QED BY <1>1, <2>2, <2>3
  <1>4. \A i \in 1..Len(t) : t[i].sub <= t[i].src
    BY <1>1 DEF Sound, Next1
  <1> QED BY <1>1, <1>2, <1>3, <1>4 DEF Sound, t

(* What has been sent and waits to be sent of the events since the socket  *)
(* was opened.                                                             *)
Shows(ms) == Among(Once(Pairs(ms)), AfterJoin)

LEMMA AppendShows ==
  ASSUME NEW s \in Seq(AMessage), NEW a \in AMessage, <<a.id, a.src>> \in AfterJoin
  PROVE  Shows(Append(s, a)) =
           IF s # <<>> /\ s[Len(s)].id = a.id /\ s[Len(s)].src = a.src
           THEN Shows(s) ELSE Append(Shows(s), <<a.id, a.src>>)
  <1> DEFINE T == Ids \X Nat
             p == <<a.id, a.src>>
             ps == Pairs(s)
             t == Append(s, a)
             n == Len(s)
  <1>1. /\ t \in Seq(AMessage) /\ Len(t) = n + 1 /\ t[n + 1] = a /\ n \in Nat
        /\ \A i \in 1..n : t[i] = s[i]
        /\ s # <<>> <=> n > 0
    OBVIOUS
  <1>2. p \in T /\ p \in AfterJoin
    BY IdFacts
  <1>3. /\ ps \in Seq(T) /\ Len(ps) = n
        /\ \A i \in 1..n : ps[i] = <<s[i].id, s[i].src>>
    BY PairsFacts
  <1>4. /\ Pairs(t) \in Seq(T) /\ Len(Pairs(t)) = n + 1
        /\ \A i \in 1..(n + 1) : Pairs(t)[i] = <<t[i].id, t[i].src>>
    BY <1>1, PairsFacts
  <1>5. Pairs(t) = Append(ps, p)
    <2>1. \A i \in 1..n : Pairs(t)[i] = ps[i]
      <3> TAKE i \in 1..n
      <3>1. Pairs(t)[i] = <<t[i].id, t[i].src>> /\ t[i] = s[i] /\ ps[i] = <<s[i].id, s[i].src>>
        BY <1>1, <1>3, <1>4
      <3> QED BY <3>1
    <2>2. Pairs(t)[n + 1] = p
      BY <1>1, <1>4
    <2> HIDE DEF p, ps, t, T, n
    <2> QED BY <1>1, <1>2, <1>3, <1>4, <2>1, <2>2
  <1>6. ps # <<>> /\ ps[Len(ps)] = p <=> s # <<>> /\ s[n].id = a.id /\ s[n].src = a.src
    <2>1. CASE n > 0
      <3>1. ps[n] = <<s[n].id, s[n].src>>
        BY <1>1, <1>3, <2>1
      <3>2. ps[n] = p <=> s[n].id = a.id /\ s[n].src = a.src
        BY <3>1
      <3>3. ps # <<>> /\ s # <<>>
        BY <1>1, <1>3, <2>1
      <3> QED BY <1>3, <3>2, <3>3
    <2>2. CASE n = 0
      <3>1. ps = <<>>
        BY <1>3, <2>2
      <3> QED BY <1>1, <2>2, <3>1
    <2> QED BY <1>1, <2>1, <2>2
  <1>7. Once(ps) \in Seq(T)
    BY <1>3, OnceType
  <1> HIDE DEF p, ps, t, T
  <1>8. Once(Pairs(t)) = IF s # <<>> /\ s[n].id = a.id /\ s[n].src = a.src
                         THEN Once(ps) ELSE Append(Once(ps), p)
    BY <1>2, <1>3, <1>5, <1>6, OnceAppend
  <1>9. Among(Append(Once(ps), p), AfterJoin) = Append(Among(Once(ps), AfterJoin), p)
    BY <1>2, <1>7, AmongAppend
  <1> QED BY <1>8, <1>9 DEF Shows, p, ps, t

(* The next event of the packet: where its stream stands.                  *)
Picked == Head(hand)
Behind == Tail(hand) \o FlattenSeq(fifo)

LEMMA PickedFacts ==
  ASSUME TypeOK, Stream, pc = "packet", todo = <<>>, hand # <<>>
  PROVE  /\ Picked \in AnEvent /\ Behind \in Seq(AnEvent) /\ Messages = got
         /\ Flight = <<Picked>> \o Behind /\ Len(Flight) = Len(Behind) + 1
         /\ Flight[1] = Picked /\ \A i \in 1..Len(Behind) : Flight[i + 1] = Behind[i]
         /\ \A i \in 1..Len(got) : Before(Shown(got[i]), Picked)
         /\ Since(Picked)
  <1>1. /\ hand \in Seq(AnEvent) /\ FlattenSeq(fifo) \in Seq(AnEvent)
        /\ got \in Seq(AMessage) /\ Flight \in Seq(AnEvent)
    BY Types
  <1>2. Picked \in AnEvent /\ Tail(hand) \in Seq(AnEvent) /\ hand = <<Picked>> \o Tail(hand)
    BY <1>1 DEF Picked
  <1>3. Behind \in Seq(AnEvent)
    BY <1>1, <1>2 DEF Behind
  <1>4. Flight = <<Picked>> \o Behind
    <2>1. <<Picked>> \in Seq(AnEvent)
      BY <1>2
    <2>2. (<<Picked>> \o Tail(hand)) \o FlattenSeq(fifo)
            = <<Picked>> \o (Tail(hand) \o FlattenSeq(fifo))
      BY <1>1, <1>2, <2>1, Associative
    <2> QED BY <1>2, <2>2 DEF Flight, Behind
  <1>5. Messages = got
    BY <1>1 DEF Messages
  <1>6. /\ Len(Flight) = Len(Behind) + 1 /\ Len(Behind) \in Nat
        /\ Flight[1] = Picked /\ \A i \in 1..Len(Behind) : Flight[i + 1] = Behind[i]
    BY <1>2, <1>3, <1>4
  <1>7. 1 \in 1..Len(Flight) /\ Live
    BY <1>6 DEF Live
  <1>8. \A i \in 1..Len(got) : Before(Shown(got[i]), Picked)
    BY <1>5, <1>6, <1>7 DEF Stream, Ordered
  <1>9. Since(Picked)
    BY <1>6, <1>7 DEF Stream, Ordered
  <1> QED BY <1>2, <1>3, <1>4, <1>5, <1>6, <1>8, <1>9

(* Its stream is the one of the last message, which the table has, or new  *)
(* to peer and table.                                                      *)
LEMMA PickedStream ==
  ASSUME TypeOK, Stream, pc = "packet", todo = <<>>, hand # <<>>
  PROVE  \/ /\ Picked.id \in DOMAIN table.cur /\ Picked.seq # 0 /\ got # <<>>
            /\ got[Len(got)].id = Picked.id /\ got[Len(got)].src < Picked.seq
            /\ table.cur[Picked.id].sub = got[Len(got)].sub
            /\ \A i \in 1..Len(got) : got[i].id = Picked.id \/ got[i].id[1] < Picked.id[1]
         \/ /\ Picked.id \notin DOMAIN table.cur
            /\ \A i \in 1..Len(got) : got[i].id # Picked.id /\ got[i].id[1] < Picked.id[1]
  <1> DEFINE n == Len(got)
             k == Picked.id
  <1>1. /\ got \in Seq(AMessage) /\ Messages = got /\ n \in Nat
        /\ Picked \in AnEvent /\ k \in Ids /\ k[1] \in Nat /\ Picked.seq \in Nat
        /\ \A i \in 1..n : Before(Shown(got[i]), Picked)
        /\ Live
    BY PickedFacts, Types, IdFacts DEF Live
  <1>2. \A i \in 1..n : /\ got[i].id \in Ids /\ got[i].id[1] \in Nat /\ got[i].src \in Nat
                        /\ got[i].id[1] < k[1] \/ (got[i].id = k /\ got[i].src < Picked.seq)
    <2> TAKE i \in 1..n
    <2>1. got[i] \in AMessage /\ Before(Shown(got[i]), Picked)
      BY <1>1
    <2>2. /\ got[i].id \in Ids /\ got[i].id[1] \in Nat /\ got[i].src \in Nat
          /\ Shown(got[i]).id = got[i].id /\ Shown(got[i]).seq = got[i].src
      BY <2>1, IdFacts
    <2> QED BY <2>1, <2>2 DEF Before
  <1>3. Continues(table, got) /\ Begun(table, got) /\ Grouped(got)
    BY <1>1 DEF Stream, Cursors, Renumbered
  <1>4. CASE \E i \in 1..n : got[i].id = k
    <2>1. PICK i \in 1..n : got[i].id = k
      BY <1>4
    <2>2. n \in 1..n /\ got # <<>>
      BY <1>1, <2>1
    <2>3. got[n].id = k
      <3>1. ~(got[n].id[1] < k[1])
        <4>1. i = n \/ i < n
          BY <1>1, <2>1
        <4>2. i < n => k = got[n].id \/ k[1] < got[n].id[1]
          BY <1>3, <2>1, <2>2 DEF Grouped
        <4> QED BY <1>1, <1>2, <2>1, <2>2, <4>1, <4>2
      <3> QED BY <1>2, <2>2, <3>1
    <2>4. got[n].src < Picked.seq /\ Picked.seq # 0
      BY <1>1, <1>2, <2>2, <2>3
    <2>5. k \in DOMAIN table.cur /\ table.cur[k].sub = got[n].sub
      BY <1>3, <2>2, <2>3 DEF Continues
    <2>6. \A j \in 1..n : got[j].id = k \/ got[j].id[1] < k[1]
      BY <1>2
    <2> QED BY <2>2, <2>3, <2>4, <2>5, <2>6
  <1>5. CASE ~\E i \in 1..n : got[i].id = k
    <2>1. k \notin DOMAIN table.cur
      BY <1>3, <1>5 DEF Begun
    <2>2. \A i \in 1..n : got[i].id # k /\ got[i].id[1] < k[1]
      BY <1>2, <1>5
    <2> QED BY <2>1, <2>2
  <1> QED BY <1>4, <1>5

(* No event of the packet is one that the snapshot covers.                 *)
LEMMA PickedUncovered ==
  ASSUME TypeOK, Stream, pc = "packet", todo = <<>>, hand # <<>>, kind # "audio",
         NEW m, m.id = Picked.id, m.seq = Picked.seq
  PROVE  ~Covered(table, m)
  <1> SUFFICES ASSUME m.id \in DOMAIN table.cur, NEW b \in table.cur[m.id].bound, m.seq <= b
               PROVE  FALSE
    BY DEF Covered
  <1>1. /\ got \in Seq(AMessage) /\ Messages = got /\ Picked \in AnEvent
        /\ \A i \in 1..Len(got) : Before(Shown(got[i]), Picked)
        /\ Live
    BY PickedFacts, Types DEF Live
  <1>2. PICK i \in 1..Len(got) : got[i].id = m.id /\ table.cur[m.id].bound \subseteq {got[i].src}
    BY <1>1 DEF Stream, Cursors, Begun
  <1>3. b = got[i].src /\ got[i] \in AMessage
    BY <1>1, <1>2
  <1>4. got[i].src < Picked.seq
    <2>1. Shown(got[i]).id = got[i].id /\ Shown(got[i]).seq = got[i].src /\ Picked.id[1] \in Nat
      BY <1>1, <1>3, IdFacts
    <2>2. Before(Shown(got[i]), Picked)
      BY <1>1
    <2> QED BY <1>2, <2>1, <2>2 DEF Before
  <1> QED BY <1>1, <1>3, <1>4, IdFacts

(* What it is sent as.                                                     *)
Made(sub) == [id |-> Picked.id, sub |-> sub, src |-> Picked.seq]

LEMMA MadeType ==
  ASSUME Picked \in AnEvent, NEW sub \in Nat, sub <= Picked.seq
  PROVE  /\ Made(sub) \in AMessage /\ Made(sub).id = Picked.id /\ Made(sub).sub = sub
         /\ Made(sub).src = Picked.seq /\ Shown(Made(sub)) = Picked
  <1>1. Picked = [id |-> Picked.id, seq |-> Picked.seq] /\ Picked.id \in Ids
        /\ Picked.seq \in 0..MaxEvents
    BY ClientsAssumption DEF AnEvent
  <1>2. sub \in 0..(MaxEvents + 1)
    BY <1>1, ClientsAssumption
  <1> QED BY <1>1, <1>2 DEF Made, AMessage, Shown

(* The handler accepts it.                                                 *)
LEMMA RenumberFacts ==
  ASSUME TypeOK, Control, Stream, Renumber, pc' = "send"
  PROVE  /\ pc = "packet" /\ todo = <<>> /\ hand # <<>>
         /\ hand' = Tail(hand) /\ got' = got /\ fifo' = fifo
         /\ Shaped(table') /\ Typed(table') /\ Grown(table, table', Picked.id)
         /\ table'.cur[Picked.id].sub = todo'[Len(todo')].sub
         /\ kind # "audio" => table'.cur[Picked.id].bound = {}
         /\ \/ Picked.seq = 0 /\ todo' = <<Made(0)>>
            \/ Picked.seq # 0 /\ Picked.id \notin DOMAIN table.cur /\ todo' = <<Made(0), Made(1)>>
            \/ /\ Picked.seq # 0 /\ Picked.id \in DOMAIN table.cur
               /\ todo' = <<Made(table.cur[Picked.id].sub + 1)>>
  <1> DEFINE m == Message(Picked)
             r == IF kind = "audio" THEN AudioFrames(table, m) ELSE DecodeFrames(table, m)
  <1>1. pc = "packet" /\ hand # <<>> /\ got' = got /\ fifo' = fifo
    BY DEF Renumber, peer
  <1>2. todo = <<>>
    BY <1>1 DEF Control
  <1>3. ~r.err /\ table' = r.table /\ todo' = r.out /\ hand' = Tail(hand)
    BY DEF Renumber, Exit, Picked
  <1>4. /\ m.id = Picked.id /\ m.seq = Picked.seq
        /\ m.empty = (m.seq = 0) /\ m.start = (m.seq = 0)
    BY DEF Message
  <1>5. Picked \in AnEvent /\ m.id \in Ids /\ m.seq \in Nat
    BY <1>1, <1>2, <1>4, PickedFacts, IdFacts
  <1>6. Shaped(table) /\ Typed(table)
    BY DEF Stream, Cursors, TypeOK, Typed
  <1>7. \A n : Sent(m, n) = Made(n)
    BY <1>4 DEF Sent, Made
  <1> HIDE DEF m
  <1>8. Kept(table, m, r) /\ SentAs(table, m, r.out)
    <2>1. CASE kind = "audio"
      BY <1>3, <1>4, <1>5, <1>6, <2>1, AudioFacts
    <2>2. CASE kind # "audio"
      <3>1. ~Covered(table, m)
        BY <1>1, <1>2, <1>4, <2>2, PickedUncovered
      <3> QED BY <1>3, <1>4, <1>5, <1>6, <2>2, <3>1, DecodeFacts
    <2> QED BY <2>1, <2>2
  <1> HIDE DEF r
  <1>9. /\ Shaped(table') /\ Typed(table') /\ Grown(table, table', Picked.id)
        /\ table'.cur[Picked.id].sub = todo'[Len(todo')].sub
        /\ kind # "audio" => table'.cur[Picked.id].bound = {}
    BY <1>3, <1>4, <1>8 DEF Kept
  <1>10. \/ Picked.seq = 0 /\ todo' = <<Made(0)>>
         \/ Picked.seq # 0 /\ Picked.id \notin DOMAIN table.cur /\ todo' = <<Made(0), Made(1)>>
         \/ /\ Picked.seq # 0 /\ Picked.id \in DOMAIN table.cur
            /\ todo' = <<Made(table.cur[Picked.id].sub + 1)>>
    BY <1>3, <1>4, <1>7, <1>8 DEF SentAs
  <1> QED BY <1>1, <1>2, <1>3, <1>9, <1>10

LEMMA PickedAfterJoin ==
  ASSUME TypeOK, Picked \in AnEvent, Since(Picked)
  PROVE  <<Picked.id, Picked.seq>> \in AfterJoin
  <1>1. /\ Picked.id \in Ids /\ Picked.seq \in Nat /\ Picked.id[1] \in Nat
        /\ joined.id \in Ids /\ joined.next \in Nat /\ joined.id[1] \in Nat
    BY IdFacts, ClientsAssumption DEF TypeOK
  <1>2. ~(Picked.id = joined.id /\ Picked.seq < joined.next)
    BY <1>1 DEF Since
  <1> QED BY <1>1, <1>2 DEF AfterJoin

(* The messages with those of the picked event.                            *)
LEMMA RenumberMessages ==
  ASSUME TypeOK, Control, Stream, Renumber, pc' = "send"
  PROVE  /\ Messages' \in Seq(AMessage) /\ todo' \in Seq(AMessage) /\ Sound(Messages')
         /\ Messages' # <<>> /\ Len(Messages') > Len(got)
         /\ Messages'[Len(Messages')].id = Picked.id
         /\ Messages'[Len(Messages')].sub = todo'[Len(todo')].sub
         /\ \A i \in 1..Len(Messages') :
              IF i <= Len(got) THEN Messages'[i] = got[i] ELSE Shown(Messages'[i]) = Picked
         /\ Shows(Messages') = Append(Shows(got), <<Picked.id, Picked.seq>>)
  <1> DEFINE n == Len(got)
             k == Picked.id
             p == <<Picked.id, Picked.seq>>
  <1>1. /\ pc = "packet" /\ todo = <<>> /\ hand # <<>> /\ got' = got
        /\ \/ Picked.seq = 0 /\ todo' = <<Made(0)>>
           \/ Picked.seq # 0 /\ k \notin DOMAIN table.cur /\ todo' = <<Made(0), Made(1)>>
           \/ /\ Picked.seq # 0 /\ k \in DOMAIN table.cur
              /\ todo' = <<Made(table.cur[k].sub + 1)>>
    BY RenumberFacts
  <1>2. /\ Picked \in AnEvent /\ Messages = got /\ got \in Seq(AMessage) /\ n \in Nat
        /\ p \in AfterJoin /\ Picked.seq \in Nat
    BY <1>1, PickedFacts, Types, PickedAfterJoin, IdFacts
  <1>3. Sound(got)
    BY <1>2 DEF Stream, Renumbered, Sound
  <1>4. Messages' = got \o todo'
    BY <1>1 DEF Messages
  <1> HIDE DEF k, n, p
  <1>5. ASSUME NEW sub \in Nat, sub <= Picked.seq, todo' = <<Made(sub)>>,
               Next1(got, Made(sub)),
               ~(got # <<>> /\ got[n].id = k /\ got[n].src = Picked.seq)
        PROVE  /\ Messages' \in Seq(AMessage) /\ todo' \in Seq(AMessage) /\ Sound(Messages')
               /\ Messages' # <<>> /\ Len(Messages') > n
               /\ Messages'[Len(Messages')].id = k
               /\ Messages'[Len(Messages')].sub = todo'[Len(todo')].sub
               /\ \A i \in 1..Len(Messages') :
                    IF i <= n THEN Messages'[i] = got[i] ELSE Shown(Messages'[i]) = Picked
               /\ Shows(Messages') = Append(Shows(got), p)
    <2> DEFINE a == Made(sub)
    <2>1. a \in AMessage /\ a.id = k /\ a.sub = sub /\ a.src = Picked.seq /\ Shown(a) = Picked
      BY <1>2, <1>5, MadeType DEF k
    <2>2. todo' = <<a>>
      BY <1>5
    <2> HIDE DEF a
    <2>3. /\ Messages' = Append(got, a) /\ todo' \in Seq(AMessage)
          /\ todo'[Len(todo')] = a
      BY <1>2, <1>4, <2>1, <2>2
    <2>4. /\ Len(Messages') = n + 1 /\ Messages'[n + 1] = a
          /\ \A i \in 1..n : Messages'[i] = got[i]
      BY <1>2, <2>1, <2>3 DEF n
    <2>5. Messages' \in Seq(AMessage) /\ Sound(Messages')
      BY <1>2, <1>3, <1>5, <2>1, <2>3, AppendSound DEF a
    <2>6. Shows(Messages') = Append(Shows(got), p)
      BY <1>2, <1>5, <2>1, <2>3, AppendShows DEF n, k, p
    <2>7. /\ Messages' # <<>> /\ Len(Messages') > n
          /\ Messages'[Len(Messages')] = a
          /\ \A i \in 1..Len(Messages') :
               IF i <= n THEN Messages'[i] = got[i] ELSE Shown(Messages'[i]) = Picked
      BY <1>2, <2>1, <2>4, <2>5
    <2> QED BY <2>1, <2>3, <2>5, <2>6, <2>7
  <1>6. CASE /\ k \in DOMAIN table.cur /\ Picked.seq # 0 /\ got # <<>>
             /\ got[n].id = k /\ got[n].src < Picked.seq
             /\ table.cur[k].sub = got[n].sub
             /\ \A i \in 1..n : got[i].id = k \/ got[i].id[1] < k[1]
    <2> DEFINE sub == table.cur[k].sub + 1
    <2>1. n \in 1..n /\ n - 1 \in Nat
      BY <1>2, <1>6 DEF n
    <2>2. got[n].sub \in Nat /\ got[n].src \in Nat /\ got[n].sub <= got[n].src
          /\ got[n].sub = Cardinality(Earlier(got, n - 1, k))
      <3>1. got[n] \in AMessage
        BY <1>2, <2>1 DEF n
      <3>2. got[n].sub = Cardinality({j \in 1..(n - 1) : got[j].id = got[n].id})
        BY <1>3, <2>1 DEF Sound, Numbered, n
      <3> QED BY <1>3, <1>6, <2>1, <3>1, <3>2, IdFacts DEF Sound, Earlier, n
    <2>3. sub \in Nat /\ sub <= Picked.seq
      BY <1>2, <1>6, <2>2
    <2>4. Cardinality(Earlier(got, n, k)) = sub
      <3>1. n - 1 + 1 = n
        BY <2>1
      <3> QED BY <1>6, <2>1, <2>2, <3>1, EarlierNext
    <2>5. todo' = <<Made(sub)>>
      BY <1>1, <1>6
    <2> HIDE DEF sub
    <2>6. Next1(got, Made(sub))
      BY <1>2, <1>6, <2>3, <2>4, MadeType DEF Next1, k, n
    <2>7. ~(got # <<>> /\ got[n].id = k /\ got[n].src = Picked.seq)
      BY <1>2, <1>6, <2>2
    <2> QED BY <1>5, <2>3, <2>5, <2>6, <2>7 DEF k, n, p
  <1>7. CASE /\ k \notin DOMAIN table.cur
             /\ \A i \in 1..n : got[i].id # k /\ got[i].id[1] < k[1]
    <2>1. Earlier(got, n, k) = {} /\ Cardinality(Earlier(got, n, k)) = 0
      <3>1. Earlier(got, n, k) = {}
        BY <1>7 DEF Earlier
      <3> QED BY <3>1, FS_EmptySet
    <2> DEFINE a == Made(0)
    <2>2. a \in AMessage /\ a.id = k /\ a.sub = 0 /\ a.src = Picked.seq /\ Shown(a) = Picked
      BY <1>2, MadeType DEF k
    <2>3. Next1(got, a)
      <3>1. a.sub <= a.src
        BY <1>2, <2>2
      <3>2. \A i \in 1..Len(got) : got[i].id[1] < a.id[1]
        BY <1>7, <2>2 DEF n
      <3> HIDE DEF a
      <3> QED BY <2>1, <2>2, <3>1, <3>2 DEF Next1, n
    <2>4. ~(got # <<>> /\ got[n].id = k /\ got[n].src = Picked.seq)
      <3>1. got # <<>> => n \in 1..n
        BY <1>2 DEF n
      <3> QED BY <1>7, <3>1
    <2>5. CASE Picked.seq = 0
      <3>1. todo' = <<Made(0)>>
        BY <1>1, <2>5
      <3> QED BY <1>2, <1>5, <2>3, <2>4, <3>1 DEF k, n, p
    <2>6. CASE Picked.seq # 0
      <3> DEFINE b == Made(1)
                 s == Append(got, a)
      <3>1. todo' = <<a, b>>
        BY <1>1, <1>7, <2>6
      <3>2. b \in AMessage /\ b.id = k /\ b.sub = 1 /\ b.src = Picked.seq /\ Shown(b) = Picked
        BY <1>2, <2>6, MadeType DEF k
      <3> HIDE DEF a, b
      <3>3. s \in Seq(AMessage) /\ Sound(s)
        BY <1>2, <1>3, <2>2, <2>3, AppendSound
      <3>4. Shows(s) = Append(Shows(got), p)
        BY <1>2, <2>2, <2>4, AppendShows DEF n, k, p
      <3>5. /\ Len(s) = n + 1 /\ s[n + 1] = a /\ s # <<>> /\ n + 1 \in Nat
            /\ \A i \in 1..n : s[i] = got[i]
        BY <1>2, <2>2 DEF n
      <3>6. Messages' = Append(s, b) /\ todo' \in Seq(AMessage) /\ todo'[Len(todo')] = b
        <4>1. <<a>> \in Seq(AMessage) /\ todo' = Append(<<a>>, b) /\ got \o <<a>> = s
          BY <1>2, <2>2, <3>1, <3>2
        <4>2. got \o Append(<<a>>, b) = Append(got \o <<a>>, b)
          BY <1>2, <3>2, <4>1, ConcatAppend
        <4>3. Len(todo') = 2 /\ todo'[2] = b
          BY <3>1
        <4> QED BY <1>4, <3>2, <4>1, <4>2, <4>3
      <3> HIDE DEF s
      <3>7. Next1(s, b)
        <4>1. Cardinality(Earlier(s, n + 1, k)) = Cardinality(Earlier(s, n, k)) + 1
          BY <1>2, <2>2, <3>5, EarlierNext
        <4>2. Earlier(s, n, k) = Earlier(got, n, k)
          BY <3>5 DEF Earlier
        <4>3. \A i \in 1..Len(s) : s[i].id = b.id \/ s[i].id[1] < b.id[1]
          <5> TAKE i \in 1..Len(s)
          <5>1. i \in 1..n \/ i = n + 1
            BY <1>2, <3>5
          <5> QED BY <1>7, <2>2, <3>2, <3>5, <5>1
        <4> QED BY <1>2, <2>1, <2>6, <3>2, <3>5, <4>1, <4>2, <4>3 DEF Next1
      <3>8. Messages' \in Seq(AMessage) /\ Sound(Messages')
        BY <3>2, <3>3, <3>6, <3>7, AppendSound
      <3>9. Shows(Messages') = Append(Shows(got), p)
        <4>1. <<b.id, b.src>> \in AfterJoin
          BY <1>2, <3>2 DEF p, k
        <4>2. s[Len(s)].id = b.id /\ s[Len(s)].src = b.src
          BY <2>2, <3>2, <3>5
        <4> QED BY <3>2, <3>3, <3>4, <3>5, <3>6, <4>1, <4>2, AppendShows
      <3>10. /\ Len(Messages') = n + 2 /\ Messages'[n + 2] = b /\ Messages'[n + 1] = a
             /\ \A i \in 1..n : Messages'[i] = got[i]
        <4>1. /\ Len(Messages') = Len(s) + 1 /\ Messages'[Len(s) + 1] = b
              /\ \A i \in 1..Len(s) : Messages'[i] = s[i]
          BY <3>2, <3>3, <3>6
        <4>2. n + 1 + 1 = n + 2 /\ n + 1 \in 1..Len(s) /\ \A i \in 1..n : i \in 1..Len(s)
          BY <1>2, <3>5
        <4> QED BY <3>5, <4>1, <4>2
      <3>11. /\ Messages' # <<>> /\ Len(Messages') > n /\ Messages'[Len(Messages')] = b
             /\ \A i \in 1..Len(Messages') :
                  IF i <= n THEN Messages'[i] = got[i] ELSE Shown(Messages'[i]) = Picked
        <4>1. \A i \in 1..(n + 2) : i \in 1..n \/ i = n + 1 \/ i = n + 2
          BY <1>2
        <4> QED BY <1>2, <2>2, <3>2, <3>8, <3>10, <4>1
      <3> QED BY <3>2, <3>6, <3>8, <3>9, <3>11 DEF k, n, p
    <2> QED BY <2>5, <2>6
  <1> QED BY <1>1, <1>6, <1>7, PickedStream DEF k, n

(* A message of the packet keeps the stream.                               *)
LEMMA RenumberKeeps ==
  ASSUME TypeOK, Control, Stream, Renumber, pc' = "send"
  PROVE  Stream'
  <1> DEFINE n == Len(got)
             p == <<Picked.id, Picked.seq>>
  <1>1. /\ pc = "packet" /\ todo = <<>> /\ hand # <<>>
        /\ hand' = Tail(hand) /\ got' = got /\ fifo' = fifo
        /\ Shaped(table') /\ Typed(table') /\ Grown(table, table', Picked.id)
        /\ table'.cur[Picked.id].sub = todo'[Len(todo')].sub
        /\ kind # "audio" => table'.cur[Picked.id].bound = {}
    BY RenumberFacts
  <1>2. /\ id' = id /\ next' = next /\ joined' = joined /\ kind' = kind /\ made' = made
        /\ registered' = registered /\ overflow' = overflow /\ receiver_failed' = receiver_failed
    BY DEF Renumber, device, history
  <1>3. /\ Messages' \in Seq(AMessage) /\ Sound(Messages')
        /\ Messages' # <<>> /\ Len(Messages') > n
        /\ Messages'[Len(Messages')].id = Picked.id
        /\ Messages'[Len(Messages')].sub = todo'[Len(todo')].sub
        /\ \A i \in 1..Len(Messages') :
             IF i <= n THEN Messages'[i] = got[i] ELSE Shown(Messages'[i]) = Picked
        /\ Shows(Messages') = Append(Shows(got), p)
    BY RenumberMessages
  <1>4. /\ Picked \in AnEvent /\ Behind \in Seq(AnEvent) /\ Messages = got
        /\ Flight = <<Picked>> \o Behind /\ Len(Flight) = Len(Behind) + 1
        /\ Flight[1] = Picked /\ \A i \in 1..Len(Behind) : Flight[i + 1] = Behind[i]
        /\ \A i \in 1..n : Before(Shown(got[i]), Picked)
        /\ got \in Seq(AMessage) /\ n \in Nat /\ Len(Behind) \in Nat
    BY <1>1, PickedFacts, Types
  <1>5. Flight' = Behind
    BY <1>1 DEF Flight, Behind
  <1>6. Live /\ Live' /\ (Open' <=> Open) /\ (Upcoming' = Upcoming)
    BY <1>1, <1>2 DEF Live, Open, Slow, Upcoming, Event
  <1>7. \A i \in 1..Len(Behind) : i + 1 \in 1..Len(Flight) /\ 1 < i + 1
    BY <1>4
  <1>8. 1 \in 1..Len(Flight)
    BY <1>4
  <1>9. \A i \in 1..Len(Messages') : i <= n => i \in 1..n
    BY <1>4
  <1> HIDE DEF n, p
  <1>10. Ordered'
    <2>1. Ascending(Behind)
      <3>1. ASSUME NEW i \in 1..Len(Behind), NEW j \in 1..Len(Behind), i < j
            PROVE  Before(Behind[i], Behind[j])
        <4>1. i + 1 < j + 1
          BY <3>1
        <4>2. Before(Flight[i + 1], Flight[j + 1])
          BY <1>7, <4>1 DEF Stream, Ordered, Ascending
        <4> QED BY <1>4, <4>2
      <3> QED BY <3>1 DEF Ascending
    <2>2. (\A i \in 1..Len(Flight) : Since(Flight[i]))'
      BY <1>2, <1>4, <1>5, <1>7 DEF Stream, Ordered, Since
    <2>3. \A j \in 1..Len(Behind) : Before(Picked, Behind[j])
      BY <1>4, <1>7, <1>8 DEF Stream, Ordered, Ascending
    <2>4. \A i \in 1..n : \A j \in 1..Len(Behind) : Before(Shown(got[i]), Behind[j])
      BY <1>4, <1>6, <1>7 DEF Stream, Ordered, n
    <2>5. \A i \in 1..Len(Messages') : \A j \in 1..Len(Behind) :
            Before(Shown(Messages'[i]), Behind[j])
      BY <1>3, <1>9, <2>3, <2>4
    <2>6. Open => Before(Picked, Upcoming)
      BY <1>4, <1>8 DEF Stream, Ordered
    <2>7. Open => \A i \in 1..Len(Messages') : Before(Shown(Messages'[i]), Upcoming)
      BY <1>3, <1>4, <1>9, <2>6 DEF Stream, Ordered, n
    <2>8. Open => \A i \in 1..Len(Behind) : Before(Behind[i], Upcoming)
      BY <1>4, <1>7 DEF Stream, Ordered
    <2>9. Open' => Since(Upcoming)'
      BY <1>2, <1>6 DEF Stream, Ordered, Since
    <2> QED BY <1>5, <1>6, <2>1, <2>2, <2>5, <2>7, <2>8, <2>9 DEF Ordered
  <1>11. Renumbered'
    BY <1>3 DEF Sound, Renumbered
  <1>12. Cursors'
    <2>1. Continues(table', Messages')
      BY <1>1, <1>3 DEF Continues, Grown
    <2>2. ASSUME NEW k \in DOMAIN table'.cur
          PROVE  \E i \in 1..Len(Messages') : Messages'[i].id = k
                   /\ (kind # "audio" => table'.cur[k].bound \subseteq {Messages'[i].src})
      <3>1. CASE k = Picked.id
        <4>1. Len(Messages') \in 1..Len(Messages')
          BY <1>3, <1>4 DEF n
        <4> QED BY <1>1, <1>3, <3>1, <4>1
      <3>2. CASE k # Picked.id
        <4>1. k \in DOMAIN table.cur /\ table'.cur[k] = table.cur[k]
          BY <1>1, <3>2 DEF Grown
        <4>2. PICK i \in 1..n : got[i].id = k
                /\ (kind # "audio" => table.cur[k].bound \subseteq {got[i].src})
          BY <1>4, <1>6, <4>1 DEF Stream, Cursors, Begun, n
        <4>3. i \in 1..Len(Messages') /\ Messages'[i] = got[i]
          BY <1>3, <1>4, <4>2 DEF n
        <4> QED BY <4>1, <4>2, <4>3
      <3> QED BY <3>1, <3>2
    <2>3. Shaped(table)'
      BY <1>1, <1>2 DEF Shaped
    <2>4. (Begun(table, Messages))'
      BY <1>2, <2>2 DEF Begun
    <2>5. (Continues(table, Messages))'
      BY <2>1 DEF Continues
    <2> QED BY <2>3, <2>4, <2>5 DEF Cursors
  <1>13. Complete'
    <2> SUFFICES ASSUME Open
                 PROVE  Shows(Messages)' \o Waiting(Flight)' = Waiting(made)'
      BY <1>6 DEF Complete, Shows
    <2> DEFINE x == Shows(got)
               w == Waiting(Behind)
    <2>1. Shows(Messages)' = Shows(Messages')
      BY <1>2 DEF Shows, AfterJoin
    <2>2. x \o Waiting(Flight) = Waiting(made)
      BY <1>4, <1>6 DEF Stream, Complete, Shows
    <2>3. <<Picked>> \in Seq(AnEvent) /\ Waiting(<<Picked>>) = <<p>>
      BY <1>4 DEF Waiting, p
    <2>4. Waiting(Flight) = <<p>> \o w
      BY <1>4, <2>3, WaitingFacts
    <2>5. x \in Seq(Ids \X Nat) /\ w \in Seq(Ids \X Nat) /\ <<p>> \in Seq(Ids \X Nat)
      <3>1. x \in Seq(Ids \X Nat) /\ w \in Seq(Ids \X Nat)
        BY <1>4, PairsFacts, WaitingFacts DEF Shows
      <3>2. p \in Ids \X Nat
        BY <1>4, IdFacts DEF p
      <3> QED BY <3>1, <3>2
    <2> HIDE DEF x, w
    <2>6. Append(x, p) \o w = x \o (<<p>> \o w)
      <3> DEFINE T == Ids \X Nat
      <3>1. x \in Seq(T) /\ w \in Seq(T) /\ <<p>> \in Seq(T)
        BY <2>5
      <3> HIDE DEF T
      <3>2. (x \o <<p>>) \o w = x \o (<<p>> \o w)
        BY <3>1, Associative
      <3>3. x \o <<p>> = Append(x, p)
        BY <3>1
      <3> QED BY <3>2, <3>3
    <2>7. Waiting(Flight)' = w /\ Waiting(made)' = Waiting(made)
      BY <1>2, <1>5 DEF Waiting, w
    <2> QED BY <1>3, <2>1, <2>2, <2>4, <2>6, <2>7 DEF x
  <1>14. OneEpoch'
    <2>1. Picked.id[2] = joined.id[2] /\ \A i \in 1..Len(Behind) : Behind[i].id[2] = joined.id[2]
      BY <1>4, <1>7, <1>8 DEF Stream, OneEpoch
    <2>2. \A i \in 1..n : got[i].id[2] = joined.id[2]
      BY <1>4 DEF Stream, OneEpoch, n
    <2>3. \A i \in 1..Len(Messages') : Messages'[i].id[2] = joined.id[2]
      <3> TAKE i \in 1..Len(Messages')
      <3>1. Shown(Messages'[i]).id = Messages'[i].id
        BY DEF Shown
      <3> QED BY <1>3, <1>9, <2>1, <2>2, <3>1
    <2> QED BY <1>2, <1>5, <2>1, <2>3 DEF OneEpoch
  <1> QED BY <1>10, <1>11, <1>12, <1>13, <1>14 DEF Stream

-----------------------------------------------------------------------------
(* The opening of the socket, with the snapshot there is.                  *)

LEMMA JoinCases ==
  ASSUME TypeOK, Bounded, Control, Join
  PROVE  /\ hand' = <<>> /\ fifo' = <<>> /\ got' = <<>> /\ made' = <<>> /\ id' = id /\ next' = next
         /\ kind' = kind /\ joined' = [id |-> id, next |-> next]
         /\ \/ todo' = <<>> /\ table' = EmptyTable
            \/ /\ next > 0 /\ kind # "audio"
               /\ todo' = Snapshot(next - 1)
               /\ table' = SeedDecode(EmptyTable, 1, id, next - 1, Len(Snapshot(next - 1)) - 1)
  <1>1. pc = "away"
    BY DEF Join
  <1>2. /\ hand = <<>> /\ fifo = <<>> /\ got = <<>> /\ made = <<>> /\ todo = <<>>
        /\ table = EmptyTable
    BY <1>1 DEF Control
  <1>3. /\ hand' = hand /\ fifo' = fifo /\ got' = got /\ made' = made /\ id' = id /\ next' = next
        /\ kind' = kind /\ joined' = [id |-> id, next |-> next]
    BY DEF Join, device, queue, peer
  <1>4. CASE kind = "audio" \/ snapshot = {}
    BY <1>2, <1>3, <1>4 DEF Join
  <1>5. CASE kind # "audio" /\ snapshot # {}
    <2>1. PICK b \in snapshot :
            /\ todo' = Snapshot(b)
            /\ table' = SeedDecode(table, 1, id, b, Len(Snapshot(b)) - 1)
      BY <1>5 DEF Join
    <2>2. b = next - 1 /\ next > 0
      BY <1>5, <2>1 DEF Bounded
    <2> QED BY <1>2, <1>3, <1>5, <2>1, <2>2
  <1> QED BY <1>4, <1>5

LEMMA SnapshotFacts ==
  ASSUME TypeOK, next > 0
  PROVE  LET s == Snapshot(next - 1)
         IN  /\ s \in Seq(AMessage) /\ s # <<>> /\ Len(s) \in 1..2 /\ (Len(s) = 2 => next > 1)
             /\ \A i \in 1..Len(s) : s[i].id = id /\ s[i].sub = i - 1 /\ s[i].src = next - 1
             /\ Sound(s)
  <1> DEFINE n == IF next - 1 = 0 THEN 1 ELSE 2
             s == Snapshot(next - 1)
  <1>1. id \in Ids /\ next \in 0..MaxEvents /\ next - 1 \in 0..MaxEvents /\ MaxEvents \in Nat
    BY ClientsAssumption DEF TypeOK
  <1>2. s = [i \in 1..n |-> [id |-> id, sub |-> i - 1, src |-> next - 1]]
    BY DEF Snapshot
  <1>3. n \in 1..2 /\ (n = 2 => next > 1)
    BY <1>1
  <1> HIDE DEF n, s
  <1>4. \A i \in 1..n : [id |-> id, sub |-> i - 1, src |-> next - 1] \in AMessage
    BY <1>1, <1>3 DEF AMessage
  <1>5. s \in Seq(AMessage) /\ Len(s) = n /\ s # <<>>
    BY <1>2, <1>3, <1>4
  <1>6. \A i \in 1..Len(s) : s[i].id = id /\ s[i].sub = i - 1 /\ s[i].src = next - 1
    BY <1>2, <1>5
  <1>7. Numbered(s)
    <2> SUFFICES ASSUME NEW i \in 1..Len(s)
                 PROVE  s[i].sub = Cardinality({j \in 1..(i - 1) : s[j].id = s[i].id})
      BY DEF Numbered
    <2>1. {j \in 1..(i - 1) : s[j].id = s[i].id} = 1..(i - 1)
      BY <1>6
    <2>2. Cardinality(1..(i - 1)) = i - 1
      <3>1. i - 1 \in Int /\ 1 \in Int
        OBVIOUS
      <3>2. Cardinality(1..(i - 1)) = IF 1 > i - 1 THEN 0 ELSE i - 1 - 1 + 1
        BY <3>1, FS_Interval
      <3> QED BY <3>2
    <2> QED BY <1>6, <2>1, <2>2
  <1>8. Grouped(s)
    BY <1>6 DEF Grouped
  <1>9. \A i \in 1..Len(s) : s[i].sub <= s[i].src
    BY <1>1, <1>3, <1>5, <1>6
  <1> QED BY <1>3, <1>5, <1>6, <1>7, <1>8, <1>9 DEF Sound, s

LEMMA JoinKeeps ==
  ASSUME TypeOK, Bounded, Control, Join
  PROVE  Stream' /\ Typed(table') /\ todo' \in Seq(AMessage)
  <1> DEFINE s == todo'
  <1>1. /\ hand' = <<>> /\ fifo' = <<>> /\ got' = <<>> /\ made' = <<>> /\ id' = id /\ next' = next
        /\ kind' = kind /\ joined' = [id |-> id, next |-> next]
        /\ \/ todo' = <<>> /\ table' = EmptyTable
           \/ /\ next > 0 /\ kind # "audio"
              /\ todo' = Snapshot(next - 1)
              /\ table' = SeedDecode(EmptyTable, 1, id, next - 1, Len(Snapshot(next - 1)) - 1)
    BY JoinCases
  <1>2. id \in Ids /\ id[1] \in Nat /\ next \in Nat
    BY IdFacts, ClientsAssumption DEF TypeOK
  <1>3. /\ s \in Seq(AMessage) /\ Sound(s)
        /\ \A i \in 1..Len(s) : s[i].id = id /\ s[i].src = next - 1 /\ next > 0
    <2>1. CASE todo' = <<>>
      BY <2>1 DEF Sound, Numbered, Grouped
    <2>2. CASE next > 0 /\ todo' = Snapshot(next - 1)
      BY <2>2, SnapshotFacts
    <2> QED BY <1>1, <2>1, <2>2
  <1>4. Messages' = s /\ Flight' = <<>>
    <2>1. <<>> \o s = s /\ <<>> \o <<>> = <<>>
      BY <1>3
    <2> QED BY <1>1, <2>1, FlattenEmpty DEF Messages, Flight
  <1>5. /\ Shaped(table') /\ Typed(table')
        /\ s # <<>> => /\ id \in DOMAIN table'.cur
                       /\ table'.cur[id].sub = s[Len(s)].sub
                       /\ kind # "audio" => table'.cur[id].bound = {next - 1}
        /\ \A k \in DOMAIN table'.cur : k = id /\ s # <<>>
    <2>1. Shaped(EmptyTable) /\ Typed(EmptyTable) /\ DOMAIN EmptyTable.cur = {}
      BY DEF Shaped, Typed, EmptyTable
    <2>2. CASE todo' = <<>> /\ table' = EmptyTable
      BY <2>1, <2>2
    <2>3. CASE /\ next > 0 /\ kind # "audio"
               /\ todo' = Snapshot(next - 1)
               /\ table' = SeedDecode(EmptyTable, 1, id, next - 1, Len(Snapshot(next - 1)) - 1)
      <3> DEFINE c == DecodeCursor(next - 1, Len(s) - 1, 1, {next - 1})
      <3>1. /\ {"src", "sub"} \subseteq DOMAIN c /\ "bound" \in DOMAIN c
            /\ c.sub = Len(s) - 1 /\ c.bound = {next - 1}
        BY DEF DecodeCursor
      <3>2. table' = InsertCursor(EmptyTable, id, c)
        BY <2>3 DEF SeedDecode
      <3> HIDE DEF c
      <3>3. /\ Shaped(table') /\ Typed(table') /\ Grown(EmptyTable, table', id)
            /\ table'.cur[id] = c
        BY <1>2, <2>1, <3>1, <3>2, InsertFacts
      <3>4. s # <<>> /\ s[Len(s)].sub = Len(s) - 1
        <4>1. Len(s) \in 1..2 /\ s # <<>> /\ \A i \in 1..Len(s) : s[i].sub = i - 1
          BY <2>3, SnapshotFacts
        <4> QED BY <4>1
      <3> HIDE DEF s
      <3>5. \A k \in DOMAIN table'.cur : k = id
        BY <2>1, <3>3 DEF Grown
      <3> QED BY <3>1, <3>3, <3>4, <3>5 DEF Grown
    <2> QED BY <1>1, <2>2, <2>3
  <1> HIDE DEF s
  <1>6. joined'.id = id /\ joined'.next = next /\ Upcoming'.id = id /\ Upcoming'.seq = next
    BY <1>1 DEF Upcoming, Event
  <1>7. Len(Flight') = 0
    BY <1>4
  <1>8. Ordered'
    <2>1. Since(Upcoming)'
      BY <1>2, <1>6 DEF Since
    <2>2. \A i \in 1..Len(s) : Before(Shown(s[i]), Upcoming')
      BY <1>2, <1>3, <1>6 DEF Shown, Before
    <2> QED BY <1>4, <1>7, <2>1, <2>2 DEF Ordered, Ascending
  <1>9. Renumbered'
    BY <1>3, <1>4 DEF Renumbered, Sound
  <1>10. Cursors'
    <2>1. Shaped(table)'
      BY <1>1, <1>5 DEF Shaped
    <2>2. s # <<>> => Len(s) \in 1..Len(s)
      BY <1>3
    <2>3. Continues(table', s)
      BY <1>3, <1>5, <2>2 DEF Continues
    <2>4. \A k \in DOMAIN table'.cur : \E i \in 1..Len(s) :
            s[i].id = k /\ (kind # "audio" => table'.cur[k].bound \subseteq {s[i].src})
      BY <1>3, <1>5, <2>2
    <2>5. (Continues(table, Messages))'
      BY <1>4, <2>3 DEF Continues
    <2>6. (Begun(table, Messages))'
      BY <1>1, <1>4, <2>4 DEF Begun
    <2> QED BY <2>1, <2>5, <2>6 DEF Cursors
  <1>11. Complete'
    <2> DEFINE P == {<<id, next - 1>>}
               J == AfterJoin'
    <2>1. Pairs(s) \in Seq(P)
      <3>1. Pairs(s) = [i \in 1..Len(s) |-> <<s[i].id, s[i].src>>]
        BY <1>3 DEF Pairs
      <3>2. \A i \in 1..Len(s) : <<s[i].id, s[i].src>> \in P
        BY <1>3
      <3>3. Len(s) \in Nat
        BY <1>3
      <3> HIDE DEF P
      <3> QED BY <3>1, <3>2, <3>3
    <2>2. Once(Pairs(s)) \in Seq(P)
      <3> HIDE DEF P
      <3> QED BY <2>1, OnceType
    <2>3. <<id, next - 1>> \notin J
      <3>1. next - 1 < next
        BY <1>2
      <3> QED BY <1>6, <3>1 DEF AfterJoin
    <2>4. \A i \in 1..Len(Once(Pairs(s))) : Once(Pairs(s))[i] \notin J
      <3>1. \A x \in P : x \notin J
        BY <2>3
      <3> HIDE DEF P, J
      <3> QED BY <2>2, <3>1
    <2>5. Among(Once(Pairs(s)), J) = <<>>
      <3> HIDE DEF P, J
      <3> QED BY <2>2, <2>4, AmongNone
    <2>6. Waiting(<<>>) = <<>> /\ <<>> \o <<>> = <<>>
      BY DEF Waiting
    <2>7. Among(Once(Pairs(Messages)), AfterJoin)' = <<>>
      BY <1>4, <2>5
    <2> HIDE DEF J, P
    <2> QED BY <1>1, <1>4, <2>6, <2>7 DEF Complete
  <1>12. OneEpoch'
    BY <1>3, <1>4, <1>6, <1>7 DEF OneEpoch
  <1> QED BY <1>3, <1>5, <1>8, <1>9, <1>10, <1>11, <1>12 DEF Stream, s

-----------------------------------------------------------------------------
(* What a delivery does to the queue.                                      *)

Weight(es) == IF kind = "audio" THEN 0 ELSE Len(es)
Queued(es) ==
  /\ registered /\ es # <<>> /\ ~Slow
  /\ reserved + Weight(es) <= PendingLimit /\ Len(fifo) # FifoSlots
  /\ fifo' = Append(fifo, es) /\ reserved' = reserved + Weight(es)
  /\ made' = made \o es /\ overflow' = overflow /\ wake' = wake
Dropped(es) ==
  /\ registered /\ fifo' = fifo /\ reserved' = reserved /\ made' = made \o es
  /\ \/ overflow' = TRUE /\ wake' = TRUE
     \/ Slow /\ overflow' = overflow /\ wake' = wake
Ignored(es) ==
  /\ ~registered \/ es = <<>>
  /\ fifo' = fifo /\ reserved' = reserved /\ made' = made
  /\ overflow' = overflow /\ wake' = wake

LEMMA DeliverCases ==
  ASSUME TypeOK, NEW es \in Seq(AnEvent), Deliver(es)
  PROVE  /\ events' = events + Len(es)
         /\ Queued(es) \/ Dropped(es) \/ Ignored(es)
  <1>1. reserved \in Nat /\ PendingLimit \in Nat /\ Len(es) \in Nat /\ Weight(es) \in Nat
    BY ClientsAssumption DEF TypeOK, Weight
  <1>2. CASE registered /\ es # <<>>
    <2>1. Enqueue(es, Weight(es)) /\ made' = made \o es /\ events' = events + Len(es)
      BY <1>2 DEF Deliver, Weight
    <2> HIDE DEF Weight
    <2>2. CASE reserved + Weight(es) > PendingLimit \/ (~Slow /\ Len(fifo) = FifoSlots)
      BY <1>2, <2>1, <2>2 DEF Enqueue, Overflowed, Dropped
    <2>3. CASE ~(reserved + Weight(es) > PendingLimit \/ (~Slow /\ Len(fifo) = FifoSlots)) /\ Slow
      BY <1>2, <2>1, <2>3 DEF Enqueue, Dropped, queue
    <2>4. CASE ~(reserved + Weight(es) > PendingLimit \/ (~Slow /\ Len(fifo) = FifoSlots)) /\ ~Slow
      BY <1>1, <1>2, <2>1, <2>4 DEF Enqueue, Queued
    <2> QED BY <2>1, <2>2, <2>3, <2>4
  <1>3. CASE ~(registered /\ es # <<>>)
    BY <1>3 DEF Deliver, Ignored, queue
  <1> QED BY <1>2, <1>3

LEMMA DeliverTypes ==
  ASSUME TypeOK, Budget, held' = held, kind' = kind, NEW es \in Seq(AnEvent), Deliver(es)
  PROVE  /\ fifo' \in Seq(Seq(AnEvent)) /\ Len(fifo') <= FifoSlots /\ reserved' \in Nat
         /\ made' \in Seq(AnEvent) /\ overflow' \in BOOLEAN /\ wake' \in BOOLEAN
         /\ Budget'
  <1>1. /\ fifo \in Seq(Seq(AnEvent)) /\ Len(fifo) <= FifoSlots /\ reserved \in Nat
        /\ made \in Seq(AnEvent) /\ overflow \in BOOLEAN /\ wake \in BOOLEAN
        /\ FifoSlots \in Nat /\ Len(es) \in Nat /\ held \in Nat
    BY ClientsAssumption DEF TypeOK
  <1>2. CASE Queued(es)
    <2>1. fifo' = Append(fifo, es) /\ reserved' = reserved + Weight(es) /\ made' = made \o es
          /\ overflow' = overflow /\ wake' = wake /\ Len(fifo) # FifoSlots
          /\ reserved + Weight(es) <= PendingLimit
      BY <1>2 DEF Queued
    <2>2. fifo' \in Seq(Seq(AnEvent)) /\ Len(fifo') = Len(fifo) + 1
      BY <1>1, <2>1
    <2>3. FlattenSeq(fifo') = FlattenSeq(fifo) \o es /\ FlattenSeq(fifo) \in Seq(AnEvent)
      BY <1>1, <2>1, FlattenAppend, FlattenType
    <2>4. Len(FlattenSeq(fifo')) = Len(FlattenSeq(fifo)) + Len(es) /\ Len(FlattenSeq(fifo)) \in Nat
      BY <2>3
    <2>5. Budget'
      <3>1. CASE kind = "audio"
        BY <2>1, <3>1 DEF Budget, Weight
      <3>2. CASE kind # "audio"
        BY <1>1, <2>1, <2>4, <3>2 DEF Budget, Weight
      <3> QED BY <3>1, <3>2
    <2>6. reserved' \in Nat
      BY <1>1, <2>1 DEF Weight
    <2> QED BY <1>1, <2>1, <2>2, <2>5, <2>6
  <1>3. CASE Dropped(es)
    <2>1. fifo' = fifo /\ reserved' = reserved /\ made' = made \o es
      BY <1>3 DEF Dropped
    <2>2. made' \in Seq(AnEvent)
      <3> HIDE DEF AnEvent
      <3> QED BY <1>1, <2>1
    <2>3. overflow' \in BOOLEAN /\ wake' \in BOOLEAN
      BY <1>1, <1>3 DEF Dropped
    <2>4. Budget'
      BY <2>1 DEF Budget
    <2> QED BY <1>1, <2>1, <2>2, <2>3, <2>4
  <1>4. CASE Ignored(es)
    <2>1. /\ fifo' = fifo /\ reserved' = reserved /\ made' = made
          /\ overflow' = overflow /\ wake' = wake
      BY <1>4 DEF Ignored
    <2>2. Budget'
      BY <2>1 DEF Budget
    <2> QED BY <1>1, <2>1, <2>2
  <1> QED BY <1>2, <1>3, <1>4, DeliverCases

LEMMA DeliverBrings ==
  ASSUME TypeOK, NEW es \in Seq(AnEvent), Deliver(es),
         hand' = hand, got' = got, todo' = todo, table' = table, joined' = joined, kind' = kind,
         pc' = pc, registered' = registered, receiver_failed' = receiver_failed,
         id[1] < id'[1] \/ (id' = id /\ next' = next + Len(es)),
         next' \in Nat, id' \in Ids
  PROVE  Brought(es)
  <1>1. Messages' = Messages /\ (Live' => Live)
    BY DEF Messages, Live
  <1>2. Flight \in Seq(AnEvent) /\ made \in Seq(AnEvent) /\ hand \in Seq(AnEvent)
        /\ FlattenSeq(fifo) \in Seq(AnEvent) /\ fifo \in Seq(Seq(AnEvent))
    BY Types DEF TypeOK
  <1>3. CASE Queued(es)
    <2>1. Open /\ made' = made \o es /\ fifo' = Append(fifo, es)
      BY <1>3 DEF Queued, Open
    <2>2. FlattenSeq(fifo') = FlattenSeq(fifo) \o es
      BY <1>2, <2>1, FlattenAppend
    <2>3. (hand \o FlattenSeq(fifo)) \o es = hand \o (FlattenSeq(fifo) \o es)
      <3> DEFINE f == FlattenSeq(fifo)
      <3>1. f \in Seq(AnEvent)
        BY <1>2
      <3> HIDE DEF f, AnEvent
      <3>2. (hand \o f) \o es = hand \o (f \o es)
        <4>1. \A a, b, c \in Seq(AnEvent) : (a \o b) \o c = a \o (b \o c)
          BY SMTT(30), Associative
        <4> QED BY ZenonT(60), <1>2, <3>1, <4>1
      <3> QED BY <3>2 DEF f
    <2>4. Flight' = Flight \o es
      BY <2>2, <2>3 DEF Flight
    <2> QED BY <1>1, <2>1, <2>4 DEF Brought
  <1>4. CASE Dropped(es)
    <2>1. ~Open' /\ Flight' = Flight
      BY <1>4 DEF Dropped, Open, Slow, Flight
    <2> QED BY <1>1, <2>1 DEF Brought
  <1>5. CASE Ignored(es)
    <2>1. Flight' = Flight /\ (Open' <=> Open)
      BY <1>5 DEF Ignored, Open, Slow, Flight
    <2>2. CASE Open
      <3>1. es = <<>> /\ made' = made
        BY <1>5, <2>2 DEF Ignored, Open
      <3>2. Flight' = Flight \o es /\ made' = made \o es
        BY <1>2, <2>1, <3>1
      <3> QED BY <1>1, <2>2, <3>2 DEF Brought
    <2>3. CASE ~Open
      BY <1>1, <2>1, <2>3 DEF Brought
    <2> QED BY <2>2, <2>3
  <1> QED BY <1>3, <1>4, <1>5, DeliverCases

(* The two deliveries: of an output, and of the last event of a stream     *)
(* that is retired.                                                        *)
LEMMA OutputFacts ==
  ASSUME TypeOK, Bounded, NEW n \in 1..2, Output(n)
  PROVE  /\ Events(n) \in Seq(AnEvent) /\ Deliver(Events(n)) /\ Len(Events(n)) = n
         /\ \A i \in 1..n : Events(n)[i].id = id /\ Events(n)[i].seq = next + i - 1
         /\ id' = id /\ next' = next + n /\ next + n <= MaxEvents
         /\ next' \in 0..MaxEvents /\ events' = events + n /\ events' \in 0..MaxEvents
  <1>1. /\ events + n <= MaxEvents /\ Deliver(Events(n)) /\ id' = id /\ next' = next + n
        /\ n \in Nat
    BY DEF Output
  <1>2. /\ Events(n) \in Seq(AnEvent) /\ Len(Events(n)) = n
        /\ \A i \in 1..n : Events(n)[i].id = id /\ Events(n)[i].seq = next + i - 1
    BY <1>1, EventsFacts
  <1>3. events' = events + n
    BY <1>1, <1>2, DeliverCases
  <1>4. events \in Nat /\ next \in Nat /\ next <= events /\ MaxEvents \in Nat
    BY ClientsAssumption DEF TypeOK, Bounded
  <1> QED BY <1>1, <1>2, <1>3, <1>4

LEMMA RetuneFacts ==
  ASSUME TypeOK, Bounded, Retune
  PROVE  LET n == IF next = 0 THEN 0 ELSE 1
         IN  /\ Events(n) \in Seq(AnEvent) /\ Deliver(Events(n)) /\ Len(Events(n)) = n
             /\ \A i \in 1..n : Events(n)[i].id = id /\ Events(n)[i].seq = next + i - 1
             /\ id' = <<id[1] + 1, id[2]>> /\ id' \in Ids /\ id'[1] = id[1] + 1 /\ id'[2] = id[2]
             /\ next' = 0 /\ events' = events + n /\ events' \in 0..MaxEvents
             /\ retunes' \in 0..MaxRetunes /\ id'[1] <= retunes' + 1
  <1> DEFINE n == IF next = 0 THEN 0 ELSE 1
  <1>1. /\ next > 0 => events < MaxEvents
        /\ Deliver(Events(n)) /\ id' = <<id[1] + 1, id[2]>> /\ next' = 0
        /\ retunes < MaxRetunes /\ retunes' = retunes + 1
    BY DEF Retune
  <1>2. /\ events \in Nat /\ next \in Nat /\ next <= events /\ MaxEvents \in Nat
        /\ events <= MaxEvents
        /\ retunes \in Nat /\ MaxRetunes \in Nat /\ MaxFailures \in Nat
        /\ id \in (1..(MaxRetunes + 1)) \X (1..(MaxFailures + 1)) /\ id[1] <= retunes + 1
    BY ClientsAssumption DEF TypeOK, Bounded, Ids
  <1>3. n \in Nat /\ (n = 0 \/ events + n <= MaxEvents) /\ events + n \in 0..MaxEvents
    BY <1>1, <1>2
  <1>4. /\ Events(n) \in Seq(AnEvent) /\ Len(Events(n)) = n
        /\ \A i \in 1..n : Events(n)[i].id = id /\ Events(n)[i].seq = next + i - 1
    <2> HIDE DEF n
    <2> QED BY <1>3, EventsFacts
  <1>5. events' = events + n
    <2> HIDE DEF n
    <2> QED BY <1>1, <1>4, DeliverCases
  <1>6. id'[1] = id[1] + 1 /\ id'[2] = id[2]
    BY <1>1
  <1>7. id' \in Ids /\ id'[1] <= retunes' + 1 /\ retunes' \in 0..MaxRetunes
    <2>1. /\ id[1] + 1 \in 1..(MaxRetunes + 1) /\ id[2] \in 1..(MaxFailures + 1)
      BY <1>1, <1>2
    <2> QED BY <1>1, <1>2, <1>6, <2>1 DEF Ids
  <1> HIDE DEF n
  <1>8. /\ Events(n) \in Seq(AnEvent) /\ Deliver(Events(n)) /\ Len(Events(n)) = n
        /\ \A i \in 1..n : Events(n)[i].id = id /\ Events(n)[i].seq = next + i - 1
        /\ next' = 0 /\ events' = events + n /\ events' \in 0..MaxEvents
    BY <1>1, <1>3, <1>4, <1>5
  <1> QED BY <1>1, <1>6, <1>7, <1>8 DEF n
-----------------------------------------------------------------------------
(* The steps.                                                              *)

Steps ==
  \/ \E n \in 1..2 : Output(n)
  \/ Retune \/ LatchFailure \/ PublishFailure \/ Restart \/ Join
  \/ Send \/ AllSent \/ AckTimeout \/ Top \/ Woken \/ Receive \/ Renumber
  \/ PacketDone \/ Close \/ Removed \/ Acknowledge \/ Gone
  \/ kind = "acked" /\ \E m \in ToSet(got) : PeerAck(m)
  \/ kind = "acked" /\ \E m \in ToSet(got) : PeerGuess(m)

LEMMA NextSteps == Next => Steps
  BY DEF Next, Device, Loop, Peer, Steps

(* The handler refuses an event, or a flag is set.                         *)
Refused == Renumber /\ pc' # "send"
LEMMA RenumberCases ==
  ASSUME Renumber
  PROVE  /\ \/ pc' = "send" /\ hand' = Tail(hand) /\ held' = held /\ reserved' = reserved
            \/ pc' = "close" /\ Exit("close") /\ table' = table
         /\ pc = "packet" /\ hand # <<>>
         /\ UNCHANGED <<kind, device, registered, receiver_failed, fifo, overflow, wake, credit,
                        peer, history, bounds>>
  <1> DEFINE m == Message(Head(hand))
             r == IF kind = "audio" THEN AudioFrames(table, m) ELSE DecodeFrames(table, m)
  <1>1. IF Slow \/ r.err THEN Exit("close") /\ UNCHANGED table
        ELSE /\ table' = r.table /\ todo' = r.out /\ hand' = Tail(hand) /\ pc' = "send"
             /\ UNCHANGED <<held, reserved>>
    BY DEF Renumber
  <1>2. pc = "packet" /\ hand # <<>>
        /\ UNCHANGED <<kind, device, registered, receiver_failed, fifo, overflow, wake, credit,
                       peer, history, bounds>>
    BY DEF Renumber
  <1> HIDE DEF r, m
  <1>3. Exit("close") => pc' = "close"
    BY DEF Exit
  <1> QED BY <1>1, <1>2, <1>3

LEMMA SendKeepsMessages ==
  ASSUME TypeOK, Send
  PROVE  Messages' = Messages
  <1> DEFINE a == Append(got, Head(todo)) \o Tail(todo)
             b == got \o todo
  <1>1. got \in Seq(AMessage) /\ todo \in Seq(AMessage) /\ todo # <<>>
        /\ got' = Append(got, Head(todo)) /\ todo' = Tail(todo)
    BY DEF TypeOK, Send, Sending
  <1>2. Head(todo) \in AMessage /\ Tail(todo) \in Seq(AMessage) /\ todo[1] = Head(todo)
        /\ Len(Tail(todo)) = Len(todo) - 1 /\ Len(todo) \in Nat \ {0}
        /\ \A i \in 1..Len(Tail(todo)) : Tail(todo)[i] = todo[i + 1]
    BY <1>1
  <1>3. a = b
    <2> DEFINE h == Head(todo)
               t == Tail(todo)
    <2> HIDE DEF AMessage, h, t
    <2>1. /\ h \in AMessage /\ t \in Seq(AMessage) /\ Len(todo) = Len(t) + 1 /\ todo[1] = h
          /\ \A i \in 1..Len(t) : t[i] = todo[i + 1]
      BY <1>2 DEF h, t
    <2>2. Append(got, h) \o t = got \o todo
      <3> DEFINE u == Append(got, h)
                 c == got \o todo
      <3>1. /\ u \in Seq(AMessage) /\ Len(u) = Len(got) + 1 /\ u[Len(got) + 1] = h
            /\ \A i \in 1..Len(got) : u[i] = got[i]
            /\ Len(got) \in Nat /\ Len(t) \in Nat
        BY <1>1, <2>1
      <3>2. /\ c \in Seq(AMessage) /\ Len(c) = Len(got) + Len(todo)
            /\ \A i \in 1..Len(c) : c[i] = IF i <= Len(got) THEN got[i] ELSE todo[i - Len(got)]
        BY <1>1
      <3> HIDE DEF u, c
      <3>3. Len(c) = Len(u) + Len(t)
        BY <2>1, <3>1, <3>2
      <3>4. \A i \in 1..Len(c) : c[i] = IF i <= Len(u) THEN u[i] ELSE t[i - Len(u)]
        <4> TAKE i \in 1..Len(c)
        <4>1. CASE i <= Len(got)
          BY <3>1, <3>2, <4>1
        <4>2. CASE i = Len(got) + 1
          BY <2>1, <3>1, <3>2, <4>2
        <4>3. CASE i > Len(got) + 1
          <5>1. i - Len(u) \in 1..Len(t) /\ i - Len(u) + 1 = i - Len(got)
            BY <3>1, <3>2, <3>3, <4>3
          <5>2. t[i - Len(u)] = todo[i - Len(got)]
            BY <2>1, <5>1
          <5> QED BY <3>1, <3>2, <4>3, <5>2
        <4> QED BY <3>1, <3>2, <4>1, <4>2, <4>3
      <3>5. c = u \o t
        BY <2>1, <3>1, <3>2, <3>3, <3>4, ConcatIs
      <3> QED BY <3>5 DEF u, c
    <2> QED BY <2>2 DEF h, t
  <1> QED BY <1>1, <1>3 DEF Messages

LEMMA ReceiveKeepsFlight ==
  ASSUME TypeOK, Control, Receive
  PROVE  Flight' = Flight
  <1>1. /\ fifo \in Seq(Seq(AnEvent)) /\ fifo # <<>> /\ hand = <<>>
        /\ hand' = Head(fifo) /\ fifo' = Tail(fifo)
    BY DEF TypeOK, Control, Receive
  <1>2. FlattenSeq(fifo) = Head(fifo) \o FlattenSeq(Tail(fifo))
    BY <1>1, FlattenHead
  <1>3. <<>> \o FlattenSeq(fifo) = FlattenSeq(fifo)
    <2>1. FlattenSeq(fifo) \in Seq(AnEvent)
      BY Types
    <2> QED BY <2>1
  <1> QED BY <1>1, <1>2, <1>3 DEF Flight

LEMMA StillCases ==
  ASSUME TypeOK, Control, Epochs,
         \/ LatchFailure \/ PublishFailure \/ Restart \/ Send \/ AllSent \/ Top \/ Woken
         \/ Receive \/ PacketDone \/ Close \/ Acknowledge
         \/ (\E m \in ToSet(got) : PeerAck(m)) \/ (\E m \in ToSet(got) : PeerGuess(m))
         \/ UNCHANGED vars
  PROVE  Still
  <1>1. CASE LatchFailure
    BY <1>1 DEF LatchFailure, Still, Flight, Messages, Open, Live, Slow, shared, queue, packet,
                peer, history
  <1>2. CASE PublishFailure
    BY <1>2 DEF PublishFailure, Still, Flight, Messages, Open, Live, Slow, packet, peer, history
  <1>3. CASE Restart
    BY <1>3 DEF Restart, Epochs, Still, Flight, Messages, Open, Live, Slow, shared, queue, packet,
                peer, history
  <1>4. CASE Send
    <2>1. Messages' = Messages
      BY <1>4, SendKeepsMessages
    <2> QED BY <1>4, <2>1 DEF Send, Still, Flight, Open, Live, Slow, device, shared, queue,
                              history
  <1>5. CASE AllSent
    BY <1>5 DEF AllSent, Still, Flight, Messages, Open, Live, Slow, device, shared, queue, packet,
                peer, history
  <1>6. CASE Top
    BY <1>6 DEF Top, Still, Flight, Messages, Open, Live, Slow, device, shared, queue, packet,
                peer, history
  <1>7. CASE Woken
    BY <1>7 DEF Woken, Still, Flight, Messages, Open, Live, Slow, device, packet, peer, history
  <1>8. CASE Receive
    <2>1. Flight' = Flight
      BY <1>8, ReceiveKeepsFlight
    <2> QED BY <1>8, <2>1 DEF Receive, Still, Messages, Open, Live, Slow, device, peer, history
  <1>9. CASE PacketDone
    <2>1. todo = <<>> /\ hand = <<>> /\ hand' = <<>> /\ todo' = <<>> /\ pc = "packet"
      BY <1>9 DEF PacketDone, Exit, Control
    <2> QED BY <1>9, <2>1 DEF PacketDone, Still, Flight, Messages, Open, Live, Slow, device,
                              peer, history
  <1>10. CASE Close
    BY <1>10 DEF Close, Still, Flight, Messages, Open, Live, Slow, device, shared, queue, packet,
                 peer, history
  <1>11. CASE Acknowledge
    <2>1. (pc' = "top" /\ pc = "select") \/ pc' = pc
      BY <1>11 DEF Acknowledge
    <2> QED BY <1>11, <2>1 DEF Acknowledge, Still, Flight, Messages, Open, Live, Slow, device,
                               shared, queue, packet, history
  <1>12. CASE \E m \in ToSet(got) : PeerAck(m)
    BY <1>12 DEF PeerAck, Still, Flight, Messages, Open, Live, Slow, device, shared, queue,
                 packet, history
  <1>13. CASE \E m \in ToSet(got) : PeerGuess(m)
    BY <1>13 DEF PeerGuess, Still, Flight, Messages, Open, Live, Slow, device, shared, queue,
                 packet
  <1>14. CASE UNCHANGED vars
    BY <1>14 DEF vars, Still, Flight, Messages, Open, Live, Slow, device, shared, queue, packet,
                 peer, history
  <1> QED BY <1>1, <1>2, <1>3, <1>4, <1>5, <1>6, <1>7, <1>8, <1>9, <1>10, <1>11, <1>12, <1>13,
             <1>14

LEMMA LeftCases ==
  ASSUME TypeOK, Control, AckTimeout \/ Gone \/ Refused \/ Removed
  PROVE  Left
  <1>1. /\ hand \in Seq(AnEvent) /\ FlattenSeq(fifo) \in Seq(AnEvent)
        /\ Flight \in Seq(AnEvent) /\ got \in Seq(AMessage)
        /\ Len(Flight) = Len(hand) + Len(FlattenSeq(fifo))
    BY Types
  <1>2. CASE AckTimeout \/ Gone \/ Refused
    <2>1. /\ hand' = <<>> /\ todo' = <<>> /\ fifo' = fifo /\ got' = got /\ table' = table
          /\ joined' = joined /\ kind' = kind /\ id' = id /\ next' = next
          /\ registered' = registered /\ (overflow => overflow')
          /\ receiver_failed' = receiver_failed
          /\ pc' \in {"close", "leave"}
      <3>1. CASE AckTimeout
        BY <3>1 DEF AckTimeout, Exit, device, peer, history
      <3>2. CASE Gone
        BY <3>2 DEF Gone, Exit, device, peer, history
      <3>3. CASE Refused
        BY <3>3, RenumberCases DEF Refused, Exit, device, peer, history
      <3> QED BY <1>2, <3>1, <3>2, <3>3
    <2> DEFINE f == FlattenSeq(fifo)
    <2>2. Flight' = <<>> \o f /\ Flight = hand \o f /\ Messages' = got \o <<>>
      BY <2>1 DEF Flight, Messages
    <2>3. Flight' = f /\ Messages' = got
      <3>1. f \in Seq(AnEvent)
        BY <1>1
      <3> HIDE DEF f, AnEvent, AMessage
      <3> QED BY <1>1, <2>2, <3>1
    <2>4. \A i \in 1..Len(f) : f[i] = Flight[Len(Flight) - Len(f) + i]
      <3>1. f \in Seq(AnEvent)
        BY <1>1
      <3> HIDE DEF f, AnEvent
      <3> QED BY <1>1, <2>2, <3>1
    <2>5. Flight' \in Seq(AnEvent) /\ Len(Flight') <= Len(Flight)
          /\ \A i \in 1..Len(Flight') : Flight'[i] = Flight[Len(Flight) - Len(Flight') + i]
      BY <1>1, <2>3, <2>4
    <2>6. (Open' => Open) /\ ~Live'
      BY <2>1 DEF Open, Slow, Live
    <2> QED BY <2>1, <2>3, <2>5, <2>6 DEF Left
  <1>3. CASE Removed
    <2>1. /\ hand' = <<>> /\ todo' = <<>> /\ fifo' = <<>> /\ got' = got /\ table' = table
          /\ joined' = joined /\ kind' = kind /\ id' = id /\ next' = next
          /\ registered' = FALSE /\ pc' = "gone"
      BY <1>3 DEF Removed, Control, packet, device, peer, history
    <2>2. Flight' = <<>> /\ Messages' = got
      <3>1. <<>> \o <<>> = <<>> /\ got \o <<>> = got
        BY <1>1
      <3> QED BY <2>1, <3>1, FlattenEmpty DEF Flight, Messages
    <2>3. Len(Flight') = 0 /\ Flight' \in Seq(AnEvent)
      BY <2>2
    <2>4. ~Open' /\ ~Live'
      BY <2>1 DEF Open, Live
    <2> QED BY <1>1, <2>1, <2>2, <2>3, <2>4 DEF Left
  <1> QED BY <1>2, <1>3

LEMMA BroughtCases ==
  ASSUME TypeOK, Bounded, (\E n \in 1..2 : Output(n)) \/ Retune
  PROVE  \E es \in Seq(AnEvent) :
           Brought(es) /\ \A i \in 1..Len(es) : es[i].id = id /\ es[i].seq = next + i - 1
  <1>1. ASSUME NEW n \in 1..2, Output(n)
        PROVE  \E es \in Seq(AnEvent) :
                 Brought(es) /\ \A i \in 1..Len(es) : es[i].id = id /\ es[i].seq = next + i - 1
    <2> DEFINE es == Events(n)
    <2>1. /\ es \in Seq(AnEvent) /\ Deliver(es) /\ Len(es) = n
          /\ \A i \in 1..n : es[i].id = id /\ es[i].seq = next + i - 1
          /\ id' = id /\ next' = next + n /\ next' \in 0..MaxEvents /\ id \in Ids
      BY <1>1, OutputFacts DEF TypeOK
    <2>2. /\ hand' = hand /\ got' = got /\ todo' = todo /\ table' = table /\ joined' = joined
          /\ kind' = kind /\ pc' = pc /\ registered' = registered
          /\ receiver_failed' = receiver_failed
      BY <1>1 DEF Output, packet, peer
    <2> HIDE DEF es
    <2>3. Brought(es)
      BY <2>1, <2>2, DeliverBrings
    <2> QED BY <2>1, <2>3
  <1>2. ASSUME Retune
        PROVE  \E es \in Seq(AnEvent) :
                 Brought(es) /\ \A i \in 1..Len(es) : es[i].id = id /\ es[i].seq = next + i - 1
    <2> DEFINE n == IF next = 0 THEN 0 ELSE 1
               es == Events(n)
    <2>1. /\ es \in Seq(AnEvent) /\ Deliver(es) /\ Len(es) = n
          /\ \A i \in 1..n : es[i].id = id /\ es[i].seq = next + i - 1
          /\ id' \in Ids /\ id'[1] = id[1] + 1 /\ next' = 0 /\ id \in Ids
      BY <1>2, RetuneFacts DEF TypeOK
    <2>2. /\ hand' = hand /\ got' = got /\ todo' = todo /\ table' = table /\ joined' = joined
          /\ kind' = kind /\ pc' = pc /\ registered' = registered
          /\ receiver_failed' = receiver_failed
      BY <1>2 DEF Retune, packet, peer
    <2> HIDE DEF es, n
    <2>3. id[1] < id'[1] /\ next' \in Nat
      BY <2>1, IdFacts
    <2>4. Brought(es)
      BY <2>1, <2>2, <2>3, DeliverBrings
    <2> QED BY <2>1, <2>4
  <1> QED BY <1>1, <1>2

(* Every step keeps the stream.                                            *)
LEMMA StreamKeeps ==
  ASSUME IInv, Next \/ UNCHANGED vars
  PROVE  Stream'
  <1>1. /\ TypeOK /\ Bounded /\ Control /\ Epochs
    BY DEF IInv
  <1>2. Stream
    BY DEF IInv, Stream, Epochs, OneEpoch
  <1>3. CASE (\E n \in 1..2 : Output(n)) \/ Retune
    <2>1. PICK es \in Seq(AnEvent) :
            Brought(es) /\ \A i \in 1..Len(es) : es[i].id = id /\ es[i].seq = next + i - 1
      BY <1>1, <1>3, BroughtCases
    <2> QED BY <1>1, <1>2, <2>1, BroughtKeeps
  <1>4. CASE Join
    BY <1>1, <1>4, JoinKeeps
  <1>5. CASE Renumber /\ pc' = "send"
    BY <1>1, <1>2, <1>5, RenumberKeeps
  <1>6. CASE AckTimeout \/ Gone \/ Refused \/ Removed
    <2>1. Left
      BY <1>1, <1>6, LeftCases
    <2> QED BY <1>1, <1>2, <2>1, LeftKeeps
  <1>7. CASE \/ LatchFailure \/ PublishFailure \/ Restart \/ Send \/ AllSent \/ Top \/ Woken
             \/ Receive \/ PacketDone \/ Close \/ Acknowledge
             \/ (\E m \in ToSet(got) : PeerAck(m)) \/ (\E m \in ToSet(got) : PeerGuess(m))
             \/ UNCHANGED vars
    <2>1. Still
      BY <1>1, <1>7, StillCases
    <2> QED BY <1>2, <2>1, StillKeeps
  <1> QED BY <1>3, <1>4, <1>5, <1>6, <1>7, NextSteps DEF Steps, Refused
-----------------------------------------------------------------------------
(* The types and what the loop holds.                                      *)

ClockType ==
  /\ id \in Ids /\ next \in 0..MaxEvents
  /\ failure \in {"none", "pending", "published"} /\ snapshot \subseteq 0..MaxEvents
  /\ events \in 0..MaxEvents /\ retunes \in 0..MaxRetunes /\ failures \in 0..MaxFailures
FlagType ==
  /\ kind \in Kinds /\ registered \in BOOLEAN
  /\ overflow \in BOOLEAN /\ receiver_failed \in BOOLEAN /\ wake \in BOOLEAN
  /\ pc \in {"away", "initial", "top", "select", "packet", "send", "close", "leave", "gone"}
QueueType ==
  /\ fifo \in Seq(Seq(AnEvent)) /\ Len(fifo) <= FifoSlots /\ reserved \in Nat
  /\ hand \in Seq(AnEvent) /\ held \in 0..PendingLimit
SendType ==
  /\ DOMAIN table.cur \subseteq Ids /\ table.ord \in Seq(Ids)
  /\ todo \in Seq(AMessage)
PeerType ==
  /\ credit \in Seq(AMessage) /\ got \in Seq(AMessage) /\ acks \in Seq(AnAck)
  /\ acked \subseteq AMessage /\ guessed \subseteq AnAck
PastType ==
  made \in Seq(AnEvent) /\ joined \in [id : Ids, next : 0..MaxEvents]

LEMMA TypeParts ==
  TypeOK <=> ClockType /\ FlagType /\ QueueType /\ SendType /\ PeerType /\ PastType
  BY DEF TypeOK, ClockType, FlagType, QueueType, SendType, PeerType, PastType

(* The loop, the peer and the socket leave what is behind the lock alone.  *)
LEMMA AsideClock ==
  ASSUME \/ Join \/ Send \/ AllSent \/ AckTimeout \/ Top \/ Woken \/ Receive \/ Renumber
         \/ PacketDone \/ Close \/ Removed \/ Acknowledge \/ Gone
         \/ (\E m \in ToSet(got) : PeerAck(m)) \/ (\E m \in ToSet(got) : PeerGuess(m))
         \/ UNCHANGED vars
  PROVE  UNCHANGED <<kind, device, bounds>>
  <1>1. CASE Join \/ Send \/ AllSent \/ AckTimeout \/ Top \/ Woken \/ Receive \/ Renumber
    BY <1>1 DEF Join, Send, AllSent, AckTimeout, Top, Woken, Receive, Renumber
  <1>2. CASE \/ PacketDone \/ Close \/ Removed \/ Acknowledge \/ Gone
             \/ (\E m \in ToSet(got) : PeerAck(m)) \/ (\E m \in ToSet(got) : PeerGuess(m))
    BY <1>2 DEF PacketDone, Close, Removed, Acknowledge, Gone, PeerAck, PeerGuess
  <1>3. CASE UNCHANGED vars
    BY <1>3 DEF vars
  <1> QED BY <1>1, <1>2, <1>3

LEMMA ClockKeeps ==
  ASSUME TypeOK, Bounded, Next \/ UNCHANGED vars
  PROVE  ClockType' /\ Bounded' /\ kind' = kind
  <1>1. /\ ClockType /\ MaxEvents \in Nat /\ MaxRetunes \in Nat /\ MaxFailures \in Nat
    BY TypeParts, ClientsAssumption
  <1>2. /\ id[1] \in Nat /\ id[2] \in Nat /\ next \in Nat /\ events \in Nat
        /\ retunes \in Nat /\ failures \in Nat
    BY <1>1, IdFacts DEF ClockType
  <1>3. ASSUME NEW n \in 1..2, Output(n)
        PROVE  ClockType' /\ Bounded' /\ kind' = kind
    <2>1. /\ id' = id /\ next' = next + n /\ next + n <= MaxEvents
          /\ events' = events + n /\ events' \in 0..MaxEvents
      BY <1>3, OutputFacts
    <2>2. /\ failure = "none" /\ failure' = failure /\ snapshot' = {next + n - 1}
          /\ retunes' = retunes /\ failures' = failures /\ kind' = kind
      BY <1>3 DEF Output
    <2>3. next + n - 1 \in 0..MaxEvents /\ next' \in 0..MaxEvents /\ next' > 0
          /\ next + n - 1 = next' - 1
      BY <1>1, <1>2, <2>1
    <2>4. ClockType'
      BY <1>1, <2>1, <2>2, <2>3 DEF ClockType
    <2>5. Bounded'
      BY <1>2, <2>1, <2>2, <2>3 DEF Bounded
    <2> QED BY <2>2, <2>4, <2>5
  <1>4. CASE Retune
    <2>1. /\ id' \in Ids /\ id'[2] = id[2] /\ id'[1] <= retunes' + 1 /\ next' = 0
          /\ events' \in 0..MaxEvents /\ retunes' \in 0..MaxRetunes
      BY <1>4, RetuneFacts
    <2>2. /\ failure = "none" /\ failure' = failure /\ snapshot' = {}
          /\ failures' = failures /\ kind' = kind
      BY <1>4 DEF Retune
    <2>3. ClockType'
      BY <1>1, <2>1, <2>2 DEF ClockType
    <2>4. Bounded'
      BY <1>2, <2>1, <2>2 DEF Bounded
    <2> QED BY <2>2, <2>3, <2>4
  <1>5. CASE LatchFailure
    <2>1. /\ failure = "none" /\ failures < MaxFailures /\ failures' = failures + 1
          /\ failure' = "pending" /\ snapshot' = {}
          /\ kind' = kind /\ id' = id /\ next' = next /\ events' = events /\ retunes' = retunes
      BY <1>5 DEF LatchFailure
    <2> QED BY <1>1, <1>2, <2>1 DEF ClockType, Bounded
  <1>6. CASE PublishFailure
    <2>1. /\ failure = "pending" /\ failure' = "published"
          /\ kind' = kind /\ id' = id /\ next' = next /\ snapshot' = snapshot
          /\ UNCHANGED <<events, retunes, failures>>
      BY <1>6 DEF PublishFailure, bounds
    <2> QED BY <1>1, <1>2, <2>1 DEF ClockType, Bounded
  <1>7. CASE Restart
    <2>1. /\ failure = "published" /\ failure' = "none" /\ id' = <<1, id[2] + 1>> /\ next' = 0
          /\ kind' = kind /\ snapshot' = snapshot /\ UNCHANGED <<events, retunes, failures>>
      BY <1>7 DEF Restart, bounds
    <2>2. snapshot = {} /\ id[2] = failures /\ failures <= MaxFailures
      BY <1>1, <2>1 DEF Bounded, ClockType
    <2>3. id' \in Ids /\ id'[1] = 1 /\ id'[2] = failures' + 1
      BY <1>1, <1>2, <2>1, <2>2 DEF Ids
    <2>4. ClockType'
      BY <1>1, <2>1, <2>3 DEF ClockType
    <2>5. Bounded'
      BY <1>2, <2>1, <2>2, <2>3 DEF Bounded
    <2> QED BY <2>1, <2>4, <2>5
  <1>8. CASE UNCHANGED <<kind, device, bounds>>
    <2>1. UNCHANGED <<kind, id, next, failure, snapshot, events, retunes, failures>>
      BY <1>8 DEF device, bounds
    <2> QED BY <1>1, <2>1 DEF ClockType, Bounded
  <1> QED BY <1>3, <1>4, <1>5, <1>6, <1>7, <1>8, AsideClock, NextSteps DEF Steps

(* What a delivery of the publisher or of a command does to the queue.     *)
LEMMA DeliveryTypes ==
  ASSUME TypeOK, Bounded, Budget, (\E n \in 1..2 : Output(n)) \/ Retune
  PROVE  /\ fifo' \in Seq(Seq(AnEvent)) /\ Len(fifo') <= FifoSlots /\ reserved' \in Nat
         /\ made' \in Seq(AnEvent) /\ overflow' \in BOOLEAN /\ wake' \in BOOLEAN
         /\ Budget'
         /\ UNCHANGED <<kind, failure, registered, receiver_failed, pc, packet, credit, peer,
                        joined, guessed>>
         /\ id'[2] = id[2]
         /\ ~registered => UNCHANGED <<queue, made>>
  <1>1. ASSUME NEW es \in Seq(AnEvent), Deliver(es), held' = held, kind' = kind
        PROVE  /\ fifo' \in Seq(Seq(AnEvent)) /\ Len(fifo') <= FifoSlots /\ reserved' \in Nat
               /\ made' \in Seq(AnEvent) /\ overflow' \in BOOLEAN /\ wake' \in BOOLEAN
               /\ Budget' /\ (~registered => UNCHANGED <<queue, made>>)
    <2>1. ~registered => UNCHANGED <<queue, made>>
      BY <1>1 DEF Deliver
    <2> QED BY <1>1, <2>1, DeliverTypes
  <1>2. ASSUME NEW n \in 1..2, Output(n)
        PROVE  /\ UNCHANGED <<kind, failure, registered, receiver_failed, pc, packet, credit,
                              peer, joined, guessed>>
               /\ Events(n) \in Seq(AnEvent) /\ Deliver(Events(n)) /\ id' = id
    BY <1>2, OutputFacts DEF Output
  <1>3. ASSUME Retune
        PROVE  /\ UNCHANGED <<kind, failure, registered, receiver_failed, pc, packet, credit,
                              peer, joined, guessed>>
               /\ \E es \in Seq(AnEvent) : Deliver(es)
               /\ id'[2] = id[2]
    BY <1>3, RetuneFacts DEF Retune
  <1>4. \E es \in Seq(AnEvent) : Deliver(es)
    BY <1>2, <1>3
  <1>5. /\ UNCHANGED <<kind, failure, registered, receiver_failed, pc, packet, credit, peer,
                       joined, guessed>>
        /\ id'[2] = id[2]
    BY <1>2, <1>3
  <1>6. held' = held /\ kind' = kind
    BY <1>5 DEF packet
  <1> QED BY <1>1, <1>4, <1>5, <1>6
LEMMA FlagKeeps ==
  ASSUME IInv, Next \/ UNCHANGED vars
  PROVE  FlagType'
  <1>1. TypeOK /\ Bounded /\ Budget /\ FlagType
    BY TypeParts DEF IInv
  <1>2. CASE (\E n \in 1..2 : Output(n)) \/ Retune
    BY <1>1, <1>2, DeliveryTypes DEF FlagType
  <1>3. CASE LatchFailure \/ Restart \/ Send \/ AllSent \/ Top \/ Close
    BY <1>1, <1>3 DEF LatchFailure, Restart, Send, AllSent, Top, Close, shared, queue, FlagType
  <1>4. CASE PublishFailure \/ Join \/ Woken \/ Receive \/ Removed
    BY <1>1, <1>4 DEF PublishFailure, Wakes, Join, FlaggedAtJoin, Woken, Receive, Removed, queue,
                      FlagType
  <1>5. CASE AckTimeout \/ Gone \/ PacketDone
    BY <1>1, <1>5 DEF AckTimeout, Gone, PacketDone, Exit, FlagType
  <1>6. CASE Renumber
    <2>1. /\ pc' \in {"send", "close"}
          /\ UNCHANGED <<kind, registered, receiver_failed, overflow, wake>>
      BY <1>6, RenumberCases
    <2> QED BY <1>1, <2>1 DEF FlagType
  <1>7. CASE Acknowledge
    BY <1>1, <1>7 DEF Acknowledge, shared, queue, FlagType
  <1>8. CASE (\E m \in ToSet(got) : PeerAck(m)) \/ (\E m \in ToSet(got) : PeerGuess(m))
    BY ZenonT(60), <1>1, <1>8 DEF PeerAck, PeerGuess, shared, queue, FlagType
  <1>9. CASE UNCHANGED vars
    BY <1>1, <1>9 DEF vars, shared, queue, FlagType
  <1> QED BY <1>2, <1>3, <1>4, <1>5, <1>6, <1>7, <1>8, <1>9, NextSteps DEF Steps

(* A way out of the loop, or the end of a packet: the reservation of the   *)
(* packet in hand goes with it.                                            *)
LEMMA ExitQueue ==
  ASSUME QueueType, Budget, NEW c, Exit(c), fifo' = fifo, kind' = kind
  PROVE  QueueType' /\ Budget'
  <1>1. /\ hand' = <<>> /\ held' = 0 /\ reserved' = reserved - held
    BY DEF Exit
  <1>2. /\ fifo \in Seq(Seq(AnEvent)) /\ reserved \in Nat /\ held \in Nat /\ PendingLimit \in Nat
    BY ClientsAssumption DEF QueueType
  <1>3. FlattenSeq(fifo) \in Seq(AnEvent)
    BY <1>2, FlattenType
  <1> DEFINE n == Len(FlattenSeq(fifo))
  <1>4. n \in Nat /\ Len(FlattenSeq(fifo')) = n
    BY <1>3
  <1> HIDE DEF n
  <1>5. CASE kind = "audio"
    <2>1. reserved = 0 /\ held = 0 /\ reserved' = 0 /\ held' = 0
      BY <1>1, <1>5 DEF Budget
    <2> QED BY <1>1, <1>5, <2>1 DEF Budget, QueueType
  <1>6. CASE kind # "audio"
    <2>1. reserved = n + held /\ reserved <= PendingLimit
      BY <1>6 DEF Budget, n
    <2>2. reserved' = n /\ reserved' \in Nat /\ reserved' <= PendingLimit
      BY <1>1, <1>2, <1>4, <2>1
    <2>3. Budget'
      BY <1>1, <1>4, <1>6, <2>2 DEF Budget
    <2>4. QueueType'
      BY <1>1, <1>2, <2>2 DEF QueueType
    <2> QED BY <2>3, <2>4
  <1> QED BY <1>5, <1>6

LEMMA QueueSame ==
  ASSUME QueueType, Budget, UNCHANGED <<kind, fifo, reserved, hand, held>>
  PROVE  QueueType' /\ Budget'
  BY DEF QueueType, Budget

LEMMA QueueKeeps ==
  ASSUME IInv, Next \/ UNCHANGED vars
  PROVE  QueueType' /\ Budget'
  <1>1. TypeOK /\ Bounded /\ Budget /\ QueueType /\ Control
    BY TypeParts DEF IInv
  <1>2. /\ fifo \in Seq(Seq(AnEvent)) /\ reserved \in Nat /\ held \in Nat /\ PendingLimit \in Nat
        /\ FifoSlots \in Nat /\ hand \in Seq(AnEvent)
    BY <1>1, ClientsAssumption DEF QueueType
  <1>3. CASE (\E n \in 1..2 : Output(n)) \/ Retune
    <2>1. /\ fifo' \in Seq(Seq(AnEvent)) /\ Len(fifo') <= FifoSlots /\ reserved' \in Nat
          /\ Budget' /\ hand' = hand /\ held' = held
      BY <1>1, <1>3, DeliveryTypes DEF packet
    <2> QED BY <1>1, <2>1 DEF QueueType
  <1>4. CASE AckTimeout
    <2>1. Exit("close") /\ fifo' = fifo /\ kind' = kind
      BY <1>4 DEF AckTimeout
    <2> QED BY <1>1, <2>1, ExitQueue
  <1>5. CASE Gone
    <2>1. Exit("close") \/ Exit("leave")
      BY <1>5 DEF Gone
    <2>2. fifo' = fifo /\ kind' = kind
      BY <1>5 DEF Gone
    <2> QED BY <1>1, <2>1, <2>2, ExitQueue
  <1>6. CASE PacketDone
    <2>1. Exit("top") /\ fifo' = fifo /\ kind' = kind
      BY <1>6 DEF PacketDone
    <2> QED BY <1>1, <2>1, ExitQueue
  <1>7. CASE Renumber
    <2>1. CASE Exit("close")
      BY <1>1, <1>7, <2>1, ExitQueue, RenumberCases
    <2>2. CASE ~Exit("close")
      <3>1. /\ hand' = Tail(hand) /\ held' = held /\ reserved' = reserved /\ hand # <<>>
            /\ fifo' = fifo /\ kind' = kind
        BY <1>7, <2>2, RenumberCases
      <3>2. hand' \in Seq(AnEvent)
        <4> HIDE DEF AnEvent
        <4> QED BY <1>2, <3>1
      <3> QED BY <1>1, <3>1, <3>2 DEF QueueType, Budget
    <2> QED BY <2>1, <2>2
  <1>8. CASE Receive
    <2>1. /\ fifo # <<>> /\ hand' = Head(fifo) /\ fifo' = Tail(fifo) /\ kind' = kind
          /\ held' = IF kind = "audio" THEN 0 ELSE Len(Head(fifo))
          /\ reserved' = reserved /\ held = 0
      BY <1>1, <1>8 DEF Receive, Control
    <2>2. /\ Head(fifo) \in Seq(AnEvent) /\ Tail(fifo) \in Seq(Seq(AnEvent))
          /\ Len(Tail(fifo)) <= Len(fifo) /\ Len(Tail(fifo)) \in Nat /\ Len(fifo) \in Nat
      <3> HIDE DEF AnEvent
      <3> QED BY <1>2, <2>1
    <2>3. FlattenSeq(fifo) = Head(fifo) \o FlattenSeq(Tail(fifo))
      BY <1>2, <2>1, FlattenHead
    <2>4. FlattenSeq(Tail(fifo)) \in Seq(AnEvent)
      BY <2>2, FlattenType
    <2> DEFINE n == Len(FlattenSeq(Tail(fifo)))
               h == Len(Head(fifo))
    <2>5. Len(FlattenSeq(fifo)) = h + n /\ h \in Nat /\ n \in Nat
      BY <2>2, <2>3, <2>4
    <2>6. Len(FlattenSeq(fifo')) = n /\ held' = IF kind = "audio" THEN 0 ELSE h
      BY <2>1
    <2> HIDE DEF n, h
    <2>7. Budget' /\ held' \in 0..PendingLimit
      <3>1. CASE kind = "audio"
        BY <1>1, <1>2, <2>1, <2>6, <3>1 DEF Budget
      <3>2. CASE kind # "audio"
        <4>1. reserved = h + n /\ reserved <= PendingLimit
          BY <1>1, <2>1, <2>5, <3>2 DEF Budget
        <4>2. reserved' = h + n /\ held' = h /\ h <= PendingLimit /\ h + n = n + h
          BY <1>2, <2>1, <2>5, <2>6, <3>2, <4>1
        <4>3. Budget'
          BY <2>1, <2>6, <3>2, <4>1, <4>2 DEF Budget
        <4> QED BY <1>2, <2>5, <4>2, <4>3
      <3> QED BY <3>1, <3>2
    <2>8. Len(fifo) <= FifoSlots
      BY <1>1 DEF QueueType
    <2> QED BY <1>2, <2>1, <2>2, <2>7, <2>8 DEF QueueType
  <1>9. CASE Removed
    <2>1. /\ fifo' = <<>> /\ reserved' = 0 /\ hand' = hand /\ held' = held /\ kind' = kind
          /\ held = 0
      BY <1>1, <1>9 DEF Removed, Control, packet
    <2>2. FlattenSeq(fifo') = <<>> /\ Len(<<>>) = 0
      BY <2>1, FlattenEmpty
    <2>3. Budget'
      BY <1>2, <2>1, <2>2 DEF Budget
    <2>4. QueueType'
      BY <1>1, <1>2, <2>1 DEF QueueType
    <2> QED BY <2>3, <2>4
  <1>10. CASE \/ LatchFailure \/ PublishFailure \/ Restart \/ Join \/ Send \/ AllSent \/ Top
              \/ Woken \/ Close \/ Acknowledge
              \/ (\E m \in ToSet(got) : PeerAck(m)) \/ (\E m \in ToSet(got) : PeerGuess(m))
              \/ UNCHANGED vars
    <2>1. CASE LatchFailure \/ PublishFailure \/ Restart \/ Join
      BY <1>1, <2>1, QueueSame DEF LatchFailure, PublishFailure, Restart, Join, shared, queue,
                                   packet
    <2>2. CASE Send \/ AllSent \/ Top \/ Woken \/ Close \/ Acknowledge
      BY <1>1, <2>2, QueueSame DEF Send, AllSent, Top, Woken, Close, Acknowledge, shared, queue,
                                   packet
    <2>3. CASE (\E m \in ToSet(got) : PeerAck(m)) \/ (\E m \in ToSet(got) : PeerGuess(m))
      BY <1>1, <2>3, QueueSame DEF PeerAck, PeerGuess, shared, queue, packet
    <2>4. CASE UNCHANGED vars
      BY <1>1, <2>4, QueueSame DEF vars, shared, queue, packet
    <2> QED BY <1>10, <2>1, <2>2, <2>3, <2>4
  <1> QED BY <1>3, <1>4, <1>5, <1>6, <1>7, <1>8, <1>9, <1>10, NextSteps DEF Steps

LEMMA SendKeeps ==
  ASSUME IInv, Next \/ UNCHANGED vars
  PROVE  SendType'
  <1>1. TypeOK /\ Bounded /\ Budget /\ SendType /\ Control /\ Stream
    BY TypeParts DEF IInv, Stream, Epochs, OneEpoch
  <1>2. CASE (\E n \in 1..2 : Output(n)) \/ Retune
    BY <1>1, <1>2, DeliveryTypes DEF packet, SendType
  <1>3. CASE Join
    BY <1>1, <1>3, JoinKeeps DEF SendType, Typed
  <1>4. CASE Renumber /\ pc' = "send"
    <2>1. Typed(table') /\ todo' \in Seq(AMessage)
      BY <1>1, <1>4, RenumberFacts, RenumberMessages
    <2> QED BY <2>1 DEF SendType, Typed
  <1>5. CASE AckTimeout \/ Gone \/ PacketDone \/ Refused
    <2>1. todo' = <<>> /\ table' = table
      BY <1>5, RenumberCases DEF AckTimeout, Gone, PacketDone, Refused, Exit
    <2> QED BY <1>1, <2>1 DEF SendType
  <1>6. CASE Send
    <2>1. todo' = Tail(todo) /\ todo # <<>> /\ table' = table
      BY <1>6 DEF Send, Sending
    <2>2. todo' \in Seq(AMessage)
      <3>1. todo \in Seq(AMessage)
        BY <1>1 DEF SendType
      <3> HIDE DEF AMessage
      <3> QED BY <2>1, <3>1
    <2> QED BY <1>1, <2>1, <2>2 DEF SendType
  <1>7. CASE \/ LatchFailure \/ PublishFailure \/ Restart \/ AllSent \/ Top \/ Woken \/ Receive
             \/ Close \/ Removed \/ Acknowledge
             \/ (\E m \in ToSet(got) : PeerAck(m)) \/ (\E m \in ToSet(got) : PeerGuess(m))
             \/ UNCHANGED vars
    <2>1. UNCHANGED <<table, todo>>
      <3>1. CASE LatchFailure \/ PublishFailure \/ Restart \/ AllSent \/ Top \/ Woken \/ Receive
        BY <3>1 DEF LatchFailure, PublishFailure, Restart, AllSent, Top, Woken, Receive, packet
      <3>2. CASE \/ Close \/ Removed \/ Acknowledge \/ UNCHANGED vars
                 \/ (\E m \in ToSet(got) : PeerAck(m)) \/ (\E m \in ToSet(got) : PeerGuess(m))
        BY <3>2 DEF Close, Removed, Acknowledge, PeerAck, PeerGuess, vars, packet
      <3> QED BY <1>7, <3>1, <3>2
    <2> QED BY <1>1, <2>1 DEF SendType
  <1> QED BY <1>2, <1>3, <1>4, <1>5, <1>6, <1>7, NextSteps DEF Steps, Refused
LEMMA PastKeeps ==
  ASSUME IInv, Next \/ UNCHANGED vars
  PROVE  PastType'
  <1>1. TypeOK /\ Bounded /\ Budget /\ PastType /\ ClockType
    BY TypeParts DEF IInv
  <1>2. CASE (\E n \in 1..2 : Output(n)) \/ Retune
    BY <1>1, <1>2, DeliveryTypes DEF PastType
  <1>3. CASE Join
    BY <1>1, <1>3 DEF Join, PastType, ClockType
  <1>4. CASE \/ LatchFailure \/ PublishFailure \/ Restart \/ Send \/ AllSent \/ AckTimeout \/ Top
             \/ Woken \/ Receive \/ PacketDone
    BY <1>1, <1>4 DEF LatchFailure, PublishFailure, Restart, Send, AllSent, AckTimeout, Top,
                      Woken, Receive, PacketDone, history, PastType
  <1>5. CASE \/ Renumber \/ Close \/ Removed \/ Acknowledge \/ Gone \/ UNCHANGED vars
             \/ (\E m \in ToSet(got) : PeerAck(m)) \/ (\E m \in ToSet(got) : PeerGuess(m))
    BY <1>1, <1>5 DEF Renumber, Close, Removed, Acknowledge, Gone, PeerAck, PeerGuess, vars,
                      history, PastType
  <1> QED BY <1>2, <1>3, <1>4, <1>5, NextSteps DEF Steps

LEMMA ControlKeeps ==
  ASSUME IInv, Next \/ UNCHANGED vars
  PROVE  Control'
  <1>1. TypeOK /\ Bounded /\ Budget /\ Control /\ FlagType
    BY TypeParts DEF IInv
  <1>2. CASE (\E n \in 1..2 : Output(n)) \/ Retune
    <2>1. /\ UNCHANGED <<registered, receiver_failed, pc, hand, held, todo, got, table>>
          /\ ~registered => UNCHANGED <<fifo, reserved, overflow, made>>
      BY <1>1, <1>2, DeliveryTypes DEF packet, peer, queue
    <2> QED BY <1>1, <2>1 DEF Control, Slow
  <1>3. CASE LatchFailure \/ Restart
    BY <1>1, <1>3 DEF LatchFailure, Restart, shared, queue, packet, peer, history, Control, Slow
  <1>4. CASE PublishFailure
    BY <1>1, <1>4 DEF PublishFailure, packet, peer, history, Control, Slow
  <1>5. CASE Join
    <2>1. /\ pc = "away" /\ pc' = "initial" /\ registered' = TRUE
          /\ UNCHANGED <<fifo, reserved, hand, held>>
      BY <1>5 DEF Join, queue
    <2> QED BY <1>1, <2>1 DEF Control
  <1>6. CASE Send
    <2>1. /\ pc \in {"initial", "send"}
          /\ UNCHANGED <<pc, registered, fifo, reserved, hand, held>>
      BY <1>6 DEF Send, Sending, shared, queue
    <2> QED BY <1>1, <2>1 DEF Control
  <1>7. CASE AllSent
    <2>1. /\ pc \in {"initial", "send"} /\ todo = <<>>
          /\ pc' = IF pc = "initial" THEN "top" ELSE "packet"
          /\ UNCHANGED <<registered, fifo, reserved, hand, held, todo>>
      BY <1>7 DEF AllSent, shared, queue, packet
    <2> QED BY <1>1, <2>1 DEF Control
  <1>8. CASE AckTimeout \/ Gone \/ PacketDone \/ Refused
    <2>1. /\ hand' = <<>> /\ held' = 0 /\ todo' = <<>> /\ pc' \in {"close", "leave", "top"}
          /\ pc \notin {"away", "gone"} /\ UNCHANGED <<registered, fifo>>
      <3>1. CASE AckTimeout
        BY <3>1 DEF AckTimeout, Exit, Sending
      <3>2. CASE Gone
        BY <3>2 DEF Gone, Exit, Sending
      <3>3. CASE PacketDone
        BY <3>3 DEF PacketDone, Exit
      <3>4. CASE Refused
        BY <3>4, RenumberCases DEF Refused, Exit
      <3> QED BY <1>8, <3>1, <3>2, <3>3, <3>4
    <2> QED BY <1>1, <2>1 DEF Control
  <1>9. CASE Renumber /\ pc' = "send"
    BY <1>1, <1>9, RenumberCases DEF Control
  <1>10. CASE Top
    <2>1. /\ pc = "top" /\ pc' \in {"close", "select"}
          /\ UNCHANGED <<registered, fifo, reserved, hand, held, todo>>
      BY <1>10 DEF Top, shared, queue, packet
    <2> QED BY <1>1, <2>1 DEF Control
  <1>11. CASE Woken
    <2>1. /\ pc = "select" /\ pc' = "top"
          /\ UNCHANGED <<registered, fifo, reserved, hand, held, todo>>
      BY <1>11 DEF Woken, packet
    <2> QED BY <1>1, <2>1 DEF Control
  <1>12. CASE Receive
    BY <1>1, <1>12 DEF Receive, Control
  <1>13. CASE Close
    <2>1. /\ pc = "close" /\ pc' = "leave"
          /\ UNCHANGED <<registered, fifo, reserved, hand, held, todo>>
      BY <1>13 DEF Close, shared, queue, packet
    <2> QED BY <1>1, <2>1 DEF Control
  <1>14. CASE Removed
    <2>1. /\ pc = "leave" /\ pc' = "gone" /\ registered' = FALSE /\ fifo' = <<>>
          /\ reserved' = 0 /\ UNCHANGED <<hand, held, todo>>
      BY <1>14 DEF Removed, packet
    <2> QED BY <1>1, <2>1 DEF Control
  <1>15. CASE Acknowledge
    <2>1. /\ \/ pc = "select" /\ pc' = "top"
             \/ pc \in {"initial", "send"} /\ pc' = pc
          /\ UNCHANGED <<registered, fifo, reserved, hand, held, todo>>
      BY <1>15 DEF Acknowledge, Sending, shared, queue, packet
    <2> QED BY <1>1, <2>1 DEF Control
  <1>16. CASE (\E m \in ToSet(got) : PeerAck(m)) \/ (\E m \in ToSet(got) : PeerGuess(m))
    <2>1. UNCHANGED <<registered, receiver_failed, overflow, fifo, reserved, pc, hand, held, todo,
                      table, got, made>>
      BY <1>16 DEF PeerAck, PeerGuess, shared, queue, packet, history
    <2> QED BY <1>1, <2>1 DEF Control, Slow
  <1>17. CASE UNCHANGED vars
    <2>1. UNCHANGED <<registered, receiver_failed, overflow, fifo, reserved, pc, hand, held, todo,
                      table, got, made>>
      BY <1>17 DEF vars, shared, queue, packet, history, peer
    <2> QED BY <1>1, <2>1 DEF Control, Slow
  <1> QED BY <1>2, <1>3, <1>4, <1>5, <1>6, <1>7, <1>8, <1>9, <1>10, <1>11, <1>12, <1>13, <1>14,
             <1>15, <1>16, <1>17, NextSteps DEF Steps, Refused

(* The epoch of a socket that is not flagged.                              *)
InEpoch == registered /\ ~receiver_failed => id[2] = joined.id[2] /\ failure # "published"

LEMMA EpochKeeps ==
  ASSUME IInv, Next \/ UNCHANGED vars
  PROVE  InEpoch'
  <1>1. TypeOK /\ Bounded /\ Budget /\ InEpoch /\ FlagType
    BY TypeParts DEF IInv, Epochs, InEpoch
  <1>2. CASE (\E n \in 1..2 : Output(n)) \/ Retune
    BY <1>1, <1>2, DeliveryTypes DEF InEpoch
  <1>3. CASE LatchFailure
    BY <1>1, <1>3 DEF LatchFailure, shared, history, InEpoch
  <1>4. CASE PublishFailure
    BY <1>1, <1>4 DEF PublishFailure, InEpoch
  <1>5. CASE Restart
    BY <1>1, <1>5 DEF Restart, shared, history, InEpoch
  <1>6. CASE Join
    BY <1>1, <1>6 DEF Join, FlaggedAtJoin, device, InEpoch
  <1>7. CASE Removed
    BY <1>1, <1>7 DEF Removed, InEpoch
  <1>8. CASE \/ Send \/ AllSent \/ AckTimeout \/ Top \/ Woken \/ Receive \/ Renumber
             \/ PacketDone \/ Close \/ Acknowledge \/ Gone
             \/ (\E m \in ToSet(got) : PeerAck(m)) \/ (\E m \in ToSet(got) : PeerGuess(m))
             \/ UNCHANGED vars
    <2>1. UNCHANGED <<registered, receiver_failed, id, failure, joined>>
      <3>1. CASE Send \/ AllSent \/ AckTimeout \/ Top \/ Woken \/ Receive \/ Renumber
        BY <3>1 DEF Send, AllSent, AckTimeout, Top, Woken, Receive, Renumber, device, shared,
                    history
      <3>2. CASE PacketDone \/ Close \/ Acknowledge \/ Gone
        BY <3>2 DEF PacketDone, Close, Acknowledge, Gone, device, shared, history
      <3>3. CASE (\E m \in ToSet(got) : PeerAck(m)) \/ (\E m \in ToSet(got) : PeerGuess(m))
        BY <3>3 DEF PeerAck, PeerGuess, device, shared, history
      <3>4. CASE UNCHANGED vars
        BY <3>4 DEF vars, device, shared, history
      <3> QED BY <1>8, <3>1, <3>2, <3>3, <3>4
    <2> QED BY <1>1, <2>1 DEF InEpoch
  <1> QED BY <1>2, <1>3, <1>4, <1>5, <1>6, <1>7, <1>8, NextSteps DEF Steps
-----------------------------------------------------------------------------
(* The credit of the peer.                                                 *)

HasCome(ms, a)  == \E i \in DOMAIN ms : ms[i].id = a.id /\ ms[i].sub = a.sub
Known(ms, S, a) == \A e \in ToSet(ms) : e.id = a.id /\ e.sub <= a.sub => e \in S

Credited(k, ms, S, c, g) ==
  k = "acked" =>
    \A m \in ToSet(ms) \ S :
      \/ m \in ToSet(c)
      \/ \E a \in g : HasCome(ms, a) /\ a.id = m.id /\ m.sub <= a.sub
Founded(as, ms, S, g) ==
  \A i \in 1..Len(as) : as[i] \in g \/ (HasCome(ms, as[i]) /\ Known(ms, S, as[i]))
CreditsOf(k, ms, S, c, as, g) ==
  /\ k # "acked" => c = <<>>
  /\ Len(c) <= AckWindow /\ ToSet(c) \subseteq ToSet(ms)
  /\ Credited(k, ms, S, c, g) /\ Founded(as, ms, S, g)

LEMMA CreditParts ==
  /\ Credits <=> CreditsOf(kind, got, acked, credit, acks, guessed)
  /\ Credits' <=> CreditsOf(kind', got', acked', credit', acks', guessed')
  BY DEF Credits, Credited, Founded, CreditsOf, HasCome, Known, Arrived, Covers

LEMMA ElementsOf ==
  ASSUME NEW T, NEW s \in Seq(T)
  PROVE  /\ ToSet(s) = {s[i] : i \in 1..Len(s)} /\ ToSet(s) \subseteq T
         /\ \A x \in ToSet(s) : \E i \in 1..Len(s) : s[i] = x
         /\ \A i \in 1..Len(s) : s[i] \in ToSet(s)
  BY DEF ToSet

(* A message arrives.                                                      *)
LEMMA SendCredits ==
  ASSUME IInv, Send
  PROVE  PeerType' /\ Credits'
  <1> DEFINE m == Head(todo)
  <1>1. TypeOK /\ PeerType /\ Credits /\ Numbered(Messages) /\ kind' = kind
    BY TypeParts DEF IInv, Renumbered, Send
  <1>2. /\ got' = Append(got, m) /\ (kind = "acked" => Len(credit) < AckWindow)
        /\ credit' = IF kind = "acked" THEN Append(credit, m) ELSE credit
        /\ UNCHANGED <<acks, acked, guessed>> /\ todo # <<>>
    BY DEF Send, CanSend, Sending, history
  <1>3. /\ got \in Seq(AMessage) /\ credit \in Seq(AMessage) /\ acks \in Seq(AnAck)
        /\ todo \in Seq(AMessage) /\ AckWindow \in Nat
    BY <1>1, ClientsAssumption DEF TypeOK
  <1>4. m \in AMessage /\ m = todo[1] /\ Len(todo) \in Nat \ {0}
    <2> HIDE DEF AMessage
    <2> QED BY <1>2, <1>3
  <1>5. \A i \in 1..Len(got) : got[i].id = m.id => got[i].sub < m.sub
    <2> TAKE i \in 1..Len(got)
    <2> HAVE got[i].id = m.id
    <2>1. /\ Messages \in Seq(AMessage) /\ Messages[i] = got[i] /\ Messages[Len(got) + 1] = m
          /\ i \in 1..Len(Messages) /\ Len(got) + 1 \in 1..Len(Messages) /\ i < Len(got) + 1
      <3>1. Messages \in Seq(AMessage) /\ Len(Messages) = Len(got) + Len(todo)
        BY <1>1, Types
      <3>2. \A j \in 1..(Len(got) + Len(todo)) :
              Messages[j] = IF j <= Len(got) THEN got[j] ELSE todo[j - Len(got)]
        BY <1>3 DEF Messages
      <3>3. /\ i \in 1..(Len(got) + Len(todo)) /\ i <= Len(got)
            /\ Len(got) + 1 \in 1..(Len(got) + Len(todo)) /\ ~(Len(got) + 1 <= Len(got))
            /\ Len(got) + 1 - Len(got) = 1 /\ i < Len(got) + 1
        BY <1>3, <1>4
      <3> HIDE DEF AMessage, m
      <3> QED BY <1>4, <3>1, <3>2, <3>3
    <2> HIDE DEF m
    <2> QED BY <1>1, <2>1, LaterLarger
  <1> HIDE DEF m
  <1>6. /\ got' \in Seq(AMessage) /\ ToSet(got') = ToSet(got) \cup {m}
        /\ Append(credit, m) \in Seq(AMessage) /\ Len(Append(credit, m)) = Len(credit) + 1
        /\ ToSet(Append(credit, m)) = ToSet(credit) \cup {m}
    BY <1>2, <1>3, <1>4, AppendElements
  <1>7. PeerType'
    BY <1>1, <1>2, <1>6 DEF PeerType
  <1>8. /\ ToSet(credit') = IF kind = "acked" THEN ToSet(credit) \cup {m} ELSE ToSet(credit)
        /\ Len(credit') <= AckWindow
    <2>1. ToSet(credit') = IF kind = "acked" THEN ToSet(credit) \cup {m} ELSE ToSet(credit)
      BY <1>2, <1>6
    <2>2. Len(credit) <= AckWindow /\ Len(credit) \in Nat
      BY <1>1, <1>3, CreditParts DEF CreditsOf
    <2>3. CASE kind = "acked"
      <3>1. Len(credit') = Len(credit) + 1 /\ Len(credit) < AckWindow
        BY <1>2, <1>6, <2>3
      <3> QED BY <1>3, <2>1, <2>2, <3>1
    <2>4. CASE kind # "acked"
      BY <1>2, <2>1, <2>2, <2>4
    <2> QED BY <2>3, <2>4
  <1>9. \A a : HasCome(got, a) => HasCome(got', a)
    <2> TAKE a
    <2> HAVE HasCome(got, a)
    <2>0. DOMAIN got = 1..Len(got)
      BY <1>3
    <2>1. PICK i \in 1..Len(got) : got[i].id = a.id /\ got[i].sub = a.sub
      BY <2>0 DEF HasCome
    <2>2. i \in DOMAIN got' /\ got'[i] = got[i]
      BY <1>2, <1>3, <1>4
    <2> QED BY <2>1, <2>2 DEF HasCome
  <1>10. Credited(kind', got', acked', credit', guessed')
    <2> SUFFICES ASSUME kind = "acked", NEW x \in ToSet(got') \ acked
                 PROVE  \/ x \in ToSet(credit')
                        \/ \E a \in guessed : HasCome(got', a) /\ a.id = x.id /\ x.sub <= a.sub
      BY <1>1, <1>2 DEF Credited
    <2>1. CASE x = m
      BY <1>8, <2>1
    <2>2. CASE x # m
      <3>1. x \in ToSet(got) \ acked
        BY <1>6, <2>2
      <3>2. \/ x \in ToSet(credit)
            \/ \E a \in guessed : HasCome(got, a) /\ a.id = x.id /\ x.sub <= a.sub
        BY <1>1, <3>1, CreditParts DEF CreditsOf, Credited
      <3> QED BY <1>8, <1>9, <3>2
    <2> QED BY <2>1, <2>2
  <1>11. Founded(acks', got', acked', guessed')
    <2> SUFFICES ASSUME NEW i \in 1..Len(acks)
                 PROVE  \/ acks[i] \in guessed
                        \/ HasCome(got', acks[i]) /\ Known(got', acked', acks[i])
      BY <1>2 DEF Founded
    <2>1. CASE acks[i] \in guessed
      BY <2>1
    <2>2. CASE HasCome(got, acks[i]) /\ Known(got, acked, acks[i])
      <3> DEFINE a == acks[i]
      <3>1. a \in AnAck
        BY <1>3
      <3>0. DOMAIN got = 1..Len(got)
        BY <1>3
      <3>2. PICK j \in 1..Len(got) : got[j].id = a.id /\ got[j].sub = a.sub
        BY <2>2, <3>0 DEF HasCome
      <3>3. got[j] \in AMessage /\ got[j].sub \in Nat /\ m.sub \in Nat /\ a.sub \in Nat
        BY <1>3, <1>4, <3>1, IdFacts DEF AnAck
      <3>4. m.id = a.id => ~(m.sub <= a.sub)
        BY <1>5, <3>2, <3>3
      <3>5. \A e \in ToSet(got) : e.id = a.id /\ e.sub <= a.sub => e \in acked
        BY <2>2 DEF Known
      <3> HIDE DEF a
      <3>6. \A e \in ToSet(got') : e.id = a.id /\ e.sub <= a.sub => e \in acked'
        BY <1>2, <1>6, <3>4, <3>5
      <3>7. Known(got', acked', a)
        BY <3>6 DEF Known, a
      <3>8. HasCome(got', a)
        BY <1>9, <2>2 DEF a
      <3> QED BY <3>7, <3>8 DEF a
    <2> QED BY <1>1, <2>1, <2>2, CreditParts DEF CreditsOf, Founded
  <1>12. /\ kind # "acked" => credit' = <<>>
         /\ ToSet(credit') \subseteq ToSet(got')
    BY <1>1, <1>2, <1>6, <1>8, CreditParts DEF CreditsOf
  <1>13. Credits'
    BY <1>1, <1>8, <1>10, <1>11, <1>12, CreditParts DEF CreditsOf
  <1> QED BY <1>7, <1>13

(* An acknowledgement releases what the peer has acknowledged.             *)
LEMMA AcknowledgeCredits ==
  ASSUME IInv, Acknowledge
  PROVE  PeerType' /\ Credits'
  <1> DEFINE a == Head(acks)
             rest == Among(credit, Unreleased(a))
  <1>1. TypeOK /\ PeerType /\ Credits
    BY TypeParts DEF IInv
  <1>2. /\ acks # <<>> /\ acks' = Tail(acks) /\ credit' = Released(a)
        /\ UNCHANGED <<kind, got, acked, guessed>>
    BY DEF Acknowledge, history
  <1>3. /\ got \in Seq(AMessage) /\ credit \in Seq(AMessage) /\ acks \in Seq(AnAck)
        /\ AckWindow \in Nat
    BY <1>1, ClientsAssumption DEF TypeOK
  <1>4. /\ a \in AnAck /\ a = acks[1] /\ 1 \in 1..Len(acks)
        /\ Tail(acks) \in Seq(AnAck) /\ Len(Tail(acks)) = Len(acks) - 1 /\ Len(acks) \in Nat
        /\ \A i \in 1..Len(Tail(acks)) : i + 1 \in 1..Len(acks) /\ Tail(acks)[i] = acks[i + 1]
    <2> HIDE DEF AnAck
    <2> QED BY <1>2, <1>3
  <1> HIDE DEF a
  <1>5. /\ rest \in Seq(AMessage) /\ ToSet(rest) = ToSet(credit) \cap Unreleased(a)
        /\ Len(rest) <= Len(credit) /\ Len(rest) \in Nat /\ Len(credit) \in Nat
    <2> DEFINE K == Unreleased(a)
    <2> HIDE DEF K
    <2>1. rest = Among(credit, K)
      BY DEF K
    <2> HIDE DEF rest, AMessage
    <2>2. rest \in Seq(AMessage)
      BY <1>3, <2>1, AmongType
    <2>3. ToSet(rest) = ToSet(credit) \cap K /\ Len(rest) <= Len(credit)
      BY <1>3, <2>1, AmongSet
    <2> QED BY <1>3, <2>2, <2>3 DEF K
  <1>6. \/ credit' = credit
        \/ /\ credit' = rest
           /\ \E i \in DOMAIN credit : credit[i].id = a.id /\ credit[i].sub = a.sub
    BY <1>2 DEF Released
  <1> HIDE DEF rest
  <1>7. PeerType'
    BY <1>1, <1>2, <1>4, <1>5, <1>6 DEF PeerType
  <1>8. /\ Len(credit') <= AckWindow /\ ToSet(credit') \subseteq ToSet(got')
        /\ kind' # "acked" => credit' = <<>>
    <2>1. /\ Len(credit) <= AckWindow /\ ToSet(credit) \subseteq ToSet(got)
          /\ kind # "acked" => credit = <<>>
      BY <1>1, CreditParts DEF CreditsOf
    <2>2. \A i \in DOMAIN credit : credit # <<>>
      BY <1>3
    <2> QED BY <1>2, <1>3, <1>5, <1>6, <2>1, <2>2
  <1>9. \A b : /\ HasCome(got', b) <=> HasCome(got, b)
               /\ Known(got', acked', b) <=> Known(got, acked, b)
    BY <1>2 DEF HasCome, Known
  <1>10. Founded(acks', got', acked', guessed')
    <2> SUFFICES ASSUME NEW i \in 1..Len(Tail(acks))
                 PROVE  \/ Tail(acks)[i] \in guessed
                        \/ HasCome(got', Tail(acks)[i]) /\ Known(got', acked', Tail(acks)[i])
      BY <1>2 DEF Founded
    <2>1. i + 1 \in 1..Len(acks) /\ Tail(acks)[i] = acks[i + 1]
      BY <1>4
    <2>2. acks[i + 1] \in guessed \/ (HasCome(got, acks[i + 1]) /\ Known(got, acked, acks[i + 1]))
      BY <1>1, <2>1, CreditParts DEF CreditsOf, Founded
    <2> QED BY <1>9, <2>1, <2>2
  <1>11. Credited(kind', got', acked', credit', guessed')
    <2> SUFFICES ASSUME kind = "acked", NEW x \in ToSet(got) \ acked
                 PROVE  \/ x \in ToSet(credit')
                        \/ \E b \in guessed : HasCome(got', b) /\ b.id = x.id /\ x.sub <= b.sub
      BY <1>2 DEF Credited
    <2>1. \/ x \in ToSet(credit)
          \/ \E b \in guessed : HasCome(got, b) /\ b.id = x.id /\ x.sub <= b.sub
      BY <1>1, CreditParts DEF CreditsOf, Credited
    <2>2. CASE x \in ToSet(credit) /\ x \notin ToSet(credit')
      <3>1. /\ x \notin Unreleased(a)
            /\ \E i \in DOMAIN credit : credit[i].id = a.id /\ credit[i].sub = a.sub
        BY <1>5, <1>6, <2>2
      <3>2. x.id = a.id /\ x.sub <= a.sub
        BY <2>2, <3>1 DEF Unreleased
      <3>3. PICK i \in 1..Len(credit) : credit[i].id = a.id /\ credit[i].sub = a.sub
        BY <1>3, <3>1
      <3>4. credit[i] \in ToSet(got)
        <4>1. ToSet(credit) \subseteq ToSet(got)
          BY <1>1, CreditParts DEF CreditsOf
        <4>2. credit[i] \in ToSet(credit)
          BY <1>3, ElementsOf
        <4> QED BY <4>1, <4>2
      <3>5. HasCome(got, a)
        <4>1. PICK j \in 1..Len(got) : got[j] = credit[i]
          BY <1>3, <3>4, ElementsOf
        <4>2. j \in DOMAIN got
          BY <1>3
        <4> QED BY <3>3, <4>1, <4>2 DEF HasCome
      <3>6. a \in guessed \/ Known(got, acked, a)
        BY <1>1, <1>4, CreditParts DEF CreditsOf, Founded
      <3>7. ~Known(got, acked, a)
        BY <3>2 DEF Known
      <3> QED BY <1>9, <3>2, <3>5, <3>6, <3>7
    <2> QED BY <1>9, <2>1, <2>2
  <1>12. Credits'
    BY <1>8, <1>10, <1>11, CreditParts DEF CreditsOf
  <1> QED BY <1>7, <1>12

(* The peer acknowledges what has arrived, and what comes next.            *)
LEMMA AckType ==
  ASSUME TypeOK, NEW m \in ToSet(got)
  PROVE  /\ m \in AMessage /\ m.id \in Ids /\ m.sub \in 0..(MaxEvents + 1)
         /\ [id |-> m.id, sub |-> m.sub] \in AnAck
         /\ [id |-> m.id, sub |-> m.sub + 1] \in AnAck
         /\ HasCome(got, [id |-> m.id, sub |-> m.sub])
  <1>1. got \in Seq(AMessage) /\ MaxEvents \in Nat
    BY ClientsAssumption DEF TypeOK
  <1>2. m \in AMessage /\ \E i \in 1..Len(got) : got[i] = m
    BY <1>1, ElementsOf
  <1>3. m.id \in Ids /\ m.sub \in 0..(MaxEvents + 1)
    BY <1>2 DEF AMessage
  <1>4. m.sub \in 0..(MaxEvents + 2) /\ m.sub + 1 \in 0..(MaxEvents + 2)
    BY <1>1, <1>3
  <1>5. [id |-> m.id, sub |-> m.sub] \in AnAck /\ [id |-> m.id, sub |-> m.sub + 1] \in AnAck
    BY <1>3, <1>4 DEF AnAck
  <1>6. HasCome(got, [id |-> m.id, sub |-> m.sub])
    <2>1. PICK i \in 1..Len(got) : got[i] = m
      BY <1>2
    <2>2. i \in DOMAIN got
      BY <1>1
    <2> QED BY <2>1, <2>2 DEF HasCome
  <1> QED BY <1>2, <1>3, <1>5, <1>6

LEMMA PeerAckCredits ==
  ASSUME IInv, NEW m \in ToSet(got), PeerAck(m)
  PROVE  PeerType' /\ Credits'
  <1> DEFINE a == [id |-> m.id, sub |-> m.sub]
  <1>1. TypeOK /\ PeerType /\ Credits
    BY TypeParts DEF IInv
  <1>2. /\ acks' = Append(acks, a)
        /\ acked' = acked \cup {e \in ToSet(got) : e.id = m.id /\ e.sub <= m.sub}
        /\ UNCHANGED <<kind, credit, got, guessed>>
    BY DEF PeerAck, history
  <1>3. a \in AnAck /\ HasCome(got, a) /\ a.id = m.id /\ a.sub = m.sub
    BY <1>1, AckType
  <1>4. acks \in Seq(AnAck) /\ ToSet(got) \subseteq AMessage
    BY <1>1, ElementsOf DEF TypeOK
  <1> HIDE DEF a
  <1>5. acks' \in Seq(AnAck) /\ Len(acks') = Len(acks) + 1 /\ acks'[Len(acks) + 1] = a
        /\ Len(acks) \in Nat /\ \A i \in 1..Len(acks) : acks'[i] = acks[i]
    <2> HIDE DEF AnAck
    <2> QED BY <1>2, <1>3, <1>4
  <1>6. PeerType'
    BY <1>1, <1>2, <1>4, <1>5 DEF PeerType
  <1>7. \A b : /\ HasCome(got, b) => HasCome(got', b)
               /\ Known(got, acked, b) => Known(got', acked', b)
    BY <1>2 DEF HasCome, Known
  <1>8. Known(got', acked', a)
    BY <1>2, <1>3 DEF Known
  <1>9. Founded(acks', got', acked', guessed')
    <2> SUFFICES ASSUME NEW i \in 1..Len(acks')
                 PROVE  \/ acks'[i] \in guessed'
                        \/ HasCome(got', acks'[i]) /\ Known(got', acked', acks'[i])
      BY DEF Founded
    <2>1. CASE i = Len(acks) + 1
      BY <1>3, <1>5, <1>7, <1>8, <2>1
    <2>2. CASE i # Len(acks) + 1
      <3>1. i \in 1..Len(acks) /\ acks'[i] = acks[i]
        BY <1>5, <2>2
      <3>2. acks[i] \in guessed \/ (HasCome(got, acks[i]) /\ Known(got, acked, acks[i]))
        BY <1>1, <3>1, CreditParts DEF CreditsOf, Founded
      <3> QED BY <1>2, <1>7, <3>1, <3>2
    <2> QED BY <2>1, <2>2
  <1>10. Credited(kind', got', acked', credit', guessed')
    BY <1>1, <1>2, <1>7, CreditParts DEF CreditsOf, Credited
  <1>11. /\ Len(credit') <= AckWindow /\ ToSet(credit') \subseteq ToSet(got')
         /\ kind' # "acked" => credit' = <<>>
    BY <1>1, <1>2, CreditParts DEF CreditsOf
  <1>12. Credits'
    BY <1>9, <1>10, <1>11, CreditParts DEF CreditsOf
  <1> QED BY <1>6, <1>12

LEMMA PeerGuessCredits ==
  ASSUME IInv, NEW m \in ToSet(got), PeerGuess(m)
  PROVE  PeerType' /\ Credits'
  <1> DEFINE a == [id |-> m.id, sub |-> m.sub + 1]
  <1>1. TypeOK /\ PeerType /\ Credits
    BY TypeParts DEF IInv
  <1>2. /\ acks' = Append(acks, a) /\ guessed' = guessed \cup {a}
        /\ UNCHANGED <<kind, credit, got, acked>>
    BY DEF PeerGuess
  <1>3. a \in AnAck
    BY <1>1, AckType
  <1>4. acks \in Seq(AnAck)
    BY <1>1 DEF TypeOK
  <1> HIDE DEF a
  <1>5. acks' \in Seq(AnAck) /\ Len(acks') = Len(acks) + 1 /\ acks'[Len(acks) + 1] = a
        /\ Len(acks) \in Nat /\ \A i \in 1..Len(acks) : acks'[i] = acks[i]
    <2> HIDE DEF AnAck
    <2> QED BY <1>2, <1>3, <1>4
  <1>6. PeerType'
    BY <1>1, <1>2, <1>3, <1>5 DEF PeerType
  <1>7. \A b : /\ HasCome(got, b) => HasCome(got', b)
               /\ Known(got, acked, b) => Known(got', acked', b)
    BY <1>2 DEF HasCome, Known
  <1>8. Founded(acks', got', acked', guessed')
    <2> SUFFICES ASSUME NEW i \in 1..Len(acks')
                 PROVE  \/ acks'[i] \in guessed'
                        \/ HasCome(got', acks'[i]) /\ Known(got', acked', acks'[i])
      BY DEF Founded
    <2>1. CASE i = Len(acks) + 1
      BY <1>2, <1>5, <2>1
    <2>2. CASE i # Len(acks) + 1
      <3>1. i \in 1..Len(acks) /\ acks'[i] = acks[i]
        BY <1>5, <2>2
      <3>2. acks[i] \in guessed \/ (HasCome(got, acks[i]) /\ Known(got, acked, acks[i]))
        BY <1>1, <3>1, CreditParts DEF CreditsOf, Founded
      <3> QED BY <1>2, <1>7, <3>1, <3>2
    <2> QED BY <2>1, <2>2
  <1>9. Credited(kind', got', acked', credit', guessed')
    <2> SUFFICES ASSUME kind = "acked", NEW x \in ToSet(got) \ acked
                 PROVE  \/ x \in ToSet(credit)
                        \/ \E b \in guessed' : HasCome(got', b) /\ b.id = x.id /\ x.sub <= b.sub
      BY <1>2 DEF Credited
    <2>1. \/ x \in ToSet(credit)
          \/ \E b \in guessed : HasCome(got, b) /\ b.id = x.id /\ x.sub <= b.sub
      BY <1>1, CreditParts DEF CreditsOf, Credited
    <2> QED BY <1>2, <1>7, <2>1
  <1>10. /\ Len(credit') <= AckWindow /\ ToSet(credit') \subseteq ToSet(got')
         /\ kind' # "acked" => credit' = <<>>
    BY <1>1, <1>2, CreditParts DEF CreditsOf
  <1>11. Credits'
    BY <1>8, <1>9, <1>10, CreditParts DEF CreditsOf
  <1> QED BY <1>6, <1>11

LEMMA CreditKeeps ==
  ASSUME IInv, Next \/ UNCHANGED vars
  PROVE  PeerType' /\ Credits'
  <1>1. TypeOK /\ Bounded /\ Budget /\ PeerType /\ Credits
    BY TypeParts DEF IInv
  <1>2. CASE Send
    BY <1>2, SendCredits
  <1>3. CASE Acknowledge
    BY <1>3, AcknowledgeCredits
  <1>4. CASE \E m \in ToSet(got) : PeerAck(m)
    BY <1>4, PeerAckCredits
  <1>5. CASE \E m \in ToSet(got) : PeerGuess(m)
    BY <1>5, PeerGuessCredits
  <1>6. CASE UNCHANGED <<kind, credit, peer, guessed>>
    <2>1. UNCHANGED <<kind, credit, got, acks, acked, guessed>>
      BY <1>6 DEF peer
    <2>2. PeerType'
      BY <1>1, <2>1 DEF PeerType
    <2>3. Credits'
      BY <1>1, <2>1 DEF Credits, Arrived, Covers
    <2> QED BY <2>2, <2>3
  <1>7. CASE (\E n \in 1..2 : Output(n)) \/ Retune
    BY <1>1, <1>6, <1>7, DeliveryTypes
  <1>8. CASE LatchFailure \/ PublishFailure \/ Restart \/ Join \/ AllSent \/ AckTimeout \/ Top
    BY <1>6, <1>8 DEF LatchFailure, PublishFailure, Restart, Join, AllSent, AckTimeout, Top,
                      history, peer
  <1>9. CASE \/ Woken \/ Receive \/ Renumber \/ PacketDone \/ Close \/ Removed \/ Gone
             \/ UNCHANGED vars
    BY <1>6, <1>9 DEF Woken, Receive, Renumber, PacketDone, Close, Removed, Gone, vars, history,
                      peer
  <1> QED BY <1>2, <1>3, <1>4, <1>5, <1>7, <1>8, <1>9, NextSteps DEF Steps
-----------------------------------------------------------------------------
(* The theorems.                                                           *)

LEMMA StepKeeps == IInv /\ [Next]_vars => IInv'
  <1> SUFFICES ASSUME IInv, Next \/ UNCHANGED vars PROVE IInv'
    OBVIOUS
  <1>1. TypeOK /\ Bounded /\ Control /\ Budget
    BY DEF IInv
  <1>2. Stream'
    BY StreamKeeps
  <1>3. ClockType' /\ Bounded'
    BY <1>1, ClockKeeps
  <1>4. FlagType' /\ QueueType' /\ Budget' /\ SendType' /\ PastType' /\ PeerType' /\ Credits'
    BY FlagKeeps, QueueKeeps, SendKeeps, PastKeeps, CreditKeeps
  <1>5. TypeOK'
    BY <1>3, <1>4 DEF TypeOK, ClockType, FlagType, QueueType, SendType, PeerType, PastType
  <1>6. Control' /\ InEpoch'
    BY ControlKeeps, EpochKeeps
  <1>7. Epochs' /\ Ordered' /\ Renumbered' /\ Cursors' /\ Complete'
    BY <1>2, <1>6 DEF Stream, OneEpoch, InEpoch, Epochs
  <1> QED BY <1>3, <1>4, <1>5, <1>6, <1>7 DEF IInv

(* The invariant of a socket, which the three properties below follow     *)
(* from, holds in every reachable state.                                   *)
THEOREM Invariant == Spec => []IInv
  <1>1. Init => IInv
    BY InitHolds
  <1>2. IInv /\ [Next]_vars => IInv'
    BY StepKeeps
  <1> QED BY <1>1, <1>2, PTL DEF Spec

(* Both limits of a slow peer are kept exactly: the credit and the         *)
(* reservation.                                                            *)
THEOREM SlowPeerBounded == Spec => []LimitsExact
  <1>1. IInv => LimitsExact
    <2> SUFFICES ASSUME IInv PROVE LimitsExact
      OBVIOUS
    <2>1. TypeOK /\ Budget /\ Credits
      BY DEF IInv
    <2>2. WindowKept
      BY <2>1 DEF Credits, WindowKept
    <2>3. ReservedExactly
      BY <2>1 DEF Budget, ReservedExactly
    <2> QED BY <2>1, <2>2, <2>3 DEF LimitsExact
  <1> QED BY <1>1, Invariant, PTL

(* The messages that have arrived are the first of all messages.           *)
LEMMA GotFirst ==
  ASSUME TypeOK
  PROVE  /\ DOMAIN got = 1..Len(got) /\ Len(got) \in Nat
         /\ \A i \in 1..Len(got) : i \in 1..Len(Messages) /\ Messages[i] = got[i]
  <1>1. got \in Seq(AMessage) /\ todo \in Seq(AMessage)
    BY DEF TypeOK
  <1>2. /\ Len(Messages) = Len(got) + Len(todo)
        /\ \A i \in 1..(Len(got) + Len(todo)) :
             Messages[i] = IF i <= Len(got) THEN got[i] ELSE todo[i - Len(got)]
    BY <1>1 DEF Messages
  <1>3. Len(got) \in Nat /\ Len(todo) \in Nat /\ DOMAIN got = 1..Len(got)
    BY <1>1
  <1>4. \A i \in 1..Len(got) : i \in 1..(Len(got) + Len(todo)) /\ i <= Len(got)
    BY <1>3
  <1> QED BY <1>2, <1>3, <1>4

(* A socket that was open when the receivers failed gets nothing of the    *)
(* restarted streams.                                                      *)
THEOREM NothingRestarted == Spec => []FailureFinal
  <1>1. IInv => FailureFinal
    <2> SUFFICES ASSUME IInv PROVE FailureFinal
      OBVIOUS
    <2>1. TypeOK /\ \A i \in 1..Len(Messages) : Messages[i].id[2] = joined.id[2]
      BY DEF IInv, Epochs
    <2> QED BY <2>1, GotFirst DEF FailureFinal
  <1> QED BY <1>1, Invariant, PTL

(* The messages of every stream are numbered without a gap, and a socket   *)
(* that is not flagged is sent every event once and in order.              *)
THEOREM DeliveredOnce == Spec => []Delivered
  <1>1. IInv => Delivered
    <2> SUFFICES ASSUME IInv PROVE Delivered
      OBVIOUS
    <2>1. TypeOK /\ Control /\ Complete /\ Numbered(Messages)
      BY DEF IInv, Renumbered
    <2>2. ASSUME NEW i \in DOMAIN got
          PROVE  got[i].sub = Cardinality({j \in 1..(i - 1) : got[j].id = got[i].id})
      <3>1. i \in 1..Len(Messages) /\ Messages[i] = got[i] /\ i \in 1..Len(got)
        BY <2>1, <2>2, GotFirst
      <3>2. \A j \in 1..(i - 1) : Messages[j] = got[j]
        <4>1. \A j \in 1..(i - 1) : j \in 1..Len(got)
          BY <2>1, <3>1, GotFirst
        <4> QED BY <2>1, <4>1, GotFirst
      <3>3. {j \in 1..(i - 1) : Messages[j].id = Messages[i].id}
              = {j \in 1..(i - 1) : got[j].id = got[i].id}
        BY <3>1, <3>2
      <3>4. Messages[i].sub = Cardinality({j \in 1..(i - 1) : Messages[j].id = Messages[i].id})
        BY <2>1, <3>1 DEF Numbered
      <3> QED BY <3>1, <3>3, <3>4
    <2>3. registered /\ ~Slow /\ pc \notin {"close", "leave"} =>
            Among(Once(Pairs(got \o todo)), AfterJoin)
              \o Waiting(hand \o FlattenSeq(fifo)) = Waiting(made)
      BY <2>1 DEF Complete, Open, Live, Control, Messages, Flight
    <2> QED BY <2>2, <2>3 DEF Delivered
  <1> QED BY <1>1, Invariant, PTL

=============================================================================
