-------------------------- MODULE SubscriberTable --------------------------
(***************************************************************************)
(* The cursors of one audio or decode subscriber,                          *)
(* backend/src/bin/websad/subscriber_stream.rs: a table from stream        *)
(* identities to cursors, bounded and evicted in insertion order, by which *)
(* the source's sequence numbers are renumbered for the subscriber.        *)
(*                                                                         *)
(* An identity is <<channel id, epoch>>.  A cursor has the last source and *)
(* subscriber numbers; an audio cursor also the format, a decode cursor    *)
(* the channel and the boundary of the snapshot it was seeded with (a set  *)
(* of at most one number).  What a handler returns is a record: whether it *)
(* failed, the table it leaves and the messages it puts out.               *)
(***************************************************************************)
EXTENDS Selection, FiniteSets

CONSTANTS
  MAX_IDENTITIES, \* cursors of a table
  SeqLimit        \* the largest sequence number, 2^32 - 1 in the program

ASSUME TableAssumption ==
  MAX_IDENTITIES \in Nat \ {0} /\ SeqLimit \in Nat \ {0}

EmptyTable == [cur |-> [k \in {} |-> 0], ord |-> <<>>]

Put(f, k, v) == [j \in DOMAIN f \cup {k} |-> IF j = k THEN v ELSE f[j]]

Keep(t, K) == [cur |-> [k \in K |-> t.cur[k]],
               ord |-> Among(t.ord, K)]

(* One identity per channel id; the oldest insertion leaves a full table.  *)
InsertCursor(t, id, c) ==
  LET kept == Keep(t, {k \in DOMAIN t.cur : k[1] # id[1]})
      full == Cardinality(DOMAIN kept.cur) = MAX_IDENTITIES /\ kept.ord # <<>>
      room == IF full THEN Keep(kept, DOMAIN kept.cur \ {Head(kept.ord)}) ELSE kept
  IN  [cur |-> Put(room.cur, id, c), ord |-> Append(room.ord, id)]

(* The fault accepts any later source number.                              *)
CanAdvanceAny(c, src) ==
  src <= SeqLimit /\ src > c.src /\ c.sub + 1 <= SeqLimit
CanAdvance(c, src) ==
  c.src + 1 <= SeqLimit /\ src = c.src + 1 /\ c.sub + 1 <= SeqLimit
Advance(c) == [c EXCEPT !.src = @ + 1, !.sub = @ + 1]
Advanced(t, id) == [t EXCEPT !.cur = Put(t.cur, id, Advance(t.cur[id]))]

Reply(t, out) == [err |-> FALSE, table |-> t, out |-> out]
Refuse(t)     == [err |-> TRUE, table |-> t, out |-> <<>>]
Sent(m, sub)  == [id |-> m.id, sub |-> sub, src |-> m.seq]

AudioCursor(src, sub, fmt) == [src |-> src, sub |-> sub, fmt |-> fmt]
DecodeCursor(src, sub, ch, bound) ==
  [src |-> src, sub |-> sub, ch |-> ch, bound |-> bound]

(* The fault makes no marker.                                              *)
AudioBlockUnmarked(t, m, new) ==
  LET known == IF new THEN InsertCursor(t, m.id, AudioCursor(m.seq - 1, 0, m.fmt)) ELSE t
      c     == known.cur[m.id]
  IN  IF c.fmt = m.fmt /\ CanAdvance(c, m.seq)
      THEN Reply(Advanced(known, m.id), <<Sent(m, c.sub + 1)>>)
      ELSE Refuse(t)
(* A marker has number zero and no samples.  A block of an identity        *)
(* without cursor is preceded by a marker made from its header.            *)
AudioBlock(t, m, new) ==
  LET known == IF new THEN InsertCursor(t, m.id, AudioCursor(m.seq - 1, 0, m.fmt)) ELSE t
      c     == known.cur[m.id]
  IN  IF c.fmt = m.fmt /\ CanAdvance(c, m.seq)
      THEN Reply(Advanced(known, m.id),
                 IF new THEN <<Sent(m, 0), Sent(m, 1)>> ELSE <<Sent(m, c.sub + 1)>>)
      ELSE Refuse(t)

AudioFrames(t, m) ==
  IF (m.seq = 0) # m.empty THEN Refuse(t)
  ELSE IF m.seq = 0
  THEN Reply(InsertCursor(t, m.id, AudioCursor(0, 0, m.fmt)), <<Sent(m, 0)>>)
  ELSE AudioBlock(t, m, m.id \notin DOMAIN t.cur)

(* What the snapshot of the identity already holds is dropped, without a   *)
(* message; the first event after it removes the boundary.                 *)
Covered(t, m) == m.id \in DOMAIN t.cur /\ \E b \in t.cur[m.id].bound : m.seq <= b
Unbound(t, id) ==
  IF id \in DOMAIN t.cur THEN [t EXCEPT !.cur = Put(t.cur, id, [t.cur[id] EXCEPT !.bound = {}])]
  ELSE t

(* The fault leaves the channel's retired identities in the table.         *)
DecodeFirstKeeping(t, m) ==
  LET sub == IF m.start THEN 0 ELSE 1 IN
  IF m.seq = 0 /\ ~m.start THEN Refuse(t)
  ELSE Reply(InsertCursor(t, m.id, DecodeCursor(m.seq, sub, m.ch, {})),
             IF m.start THEN <<Sent(m, 0)>> ELSE <<Sent(m, 0), Sent(m, 1)>>)
(* The first event of an identity drops the channel's other identities.    *)
DecodeFirst(t, m) ==
  LET others == Keep(t, {k \in DOMAIN t.cur : t.cur[k].ch # m.ch})
      sub    == IF m.start THEN 0 ELSE 1
  IN  IF m.seq = 0 /\ ~m.start THEN Refuse(t)
      ELSE Reply(InsertCursor(others, m.id, DecodeCursor(m.seq, sub, m.ch, {})),
                 IF m.start THEN <<Sent(m, 0)>> ELSE <<Sent(m, 0), Sent(m, 1)>>)

DecodeNext(t, m) ==
  LET c == t.cur[m.id] IN
  IF c.ch = m.ch /\ CanAdvance(c, m.seq)
  THEN Reply(Advanced(t, m.id), <<Sent(m, c.sub + 1)>>)
  ELSE Refuse(t)

DecodeFrames(t, m) ==
  IF Covered(t, m) THEN Reply(t, <<>>)
  ELSE IF m.seq = 0 \/ m.id \notin DOMAIN t.cur THEN DecodeFirst(Unbound(t, m.id), m)
  ELSE DecodeNext(Unbound(t, m.id), m)

(* A snapshot of an identity up to source number src was sent as messages  *)
(* 0 to sub.                                                               *)
SeedDecode(t, ch, id, src, sub) ==
  InsertCursor(t, id, DecodeCursor(src, sub, ch, {src}))
=============================================================================
