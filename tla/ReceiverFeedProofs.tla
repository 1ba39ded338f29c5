------------------------ MODULE ReceiverFeedProofs ------------------------
(***************************************************************************)
(* Proofs about ReceiverFeed, for any number of slots and any bounds.  The *)
(* four properties of its runs follow from one inductive invariant, IInv,  *)
(* which is kept slot by slot:                                             *)
(*                                                                         *)
(*   - everything that is somewhere is a frame that was made, or the end   *)
(*     of the page of an identity there has been (Exist);                  *)
(*   - what the IQ clients were sent, what the publisher holds for them    *)
(*     and what is pending make one line in order, with all the frames of  *)
(*     the current identity (IqKept);                                      *)
(*   - so do what the subscribers heard of that identity, what is queued   *)
(*     at the workers and what is pending and not consumed (Line), of      *)
(*     which the part that was heard is a beginning (Current);             *)
(*   - what was heard of an older identity, with the tails that retire, is *)
(*     a beginning of it, with the end of its page or without (Older), and *)
(*     all of it unless the capture or the workers failed (Healthy).       *)
(*                                                                         *)
(* A step makes at most one frame of a slot and leaves its identity, takes *)
(* it away or gives the next one (Advance).  What it does to the line of   *)
(* the subscribers is one of a few kinds: it changes nothing, queues all,  *)
(* takes a part or the whole of the queue, ends the page, or drops all     *)
(* (QuietLines to DrainLines); what it does to the line of the clients is  *)
(* one of four (IqAppended to IqStopped).  The actions are put together    *)
(* from these.                                                             *)
(***************************************************************************)
EXTENDS ReceiverFeed, SequenceFacts, FiniteSetTheorems
-----------------------------------------------------------------------------
(* Items and selections of them.                                           *)

(* Items have an identity, which is not 0, and a number.                   *)
LEMMA ItemFacts ==
  /\ \A i \in Items : i.id \in Nat /\ i.id # 0 /\ i.id >= 1 /\ i.n \in Nat
  /\ \A id \in Nat, n \in Nat :
       /\ Item(id, n).id = id /\ Item(id, n).n = n
       /\ id # 0 => Item(id, n) \in Items
  /\ \A i, j \in Items : i.id = j.id /\ i.n = j.n => i = j
  BY DEF Items, Item

(* A sequence over a set is one over every larger set.                     *)
LEMMA SeqMonotone ==
  ASSUME NEW S, NEW T, S \subseteq T
  PROVE  \A q \in Seq(S) : q \in Seq(T)
  <1> SUFFICES ASSUME NEW q \in Seq(S) PROVE q \in Seq(T)
    OBVIOUS
  <1>1. /\ \A i \in 1..Len(q) : q[i] \in T
        /\ q = [i \in 1..Len(q) |-> q[i]] /\ Len(q) \in Nat
    <2>1. \A i \in 1..Len(q) : q[i] \in S
      BY ElementOfSeq
    <2> QED BY <2>1
  <1> QED BY <1>1

(* What follows from the elements of two sequences for those of both.      *)
LEMMA ConcatElements ==
  ASSUME NEW T, NEW a \in Seq(T), NEW b \in Seq(T)
  PROVE  /\ a \o b \in Seq(T) /\ Len(a \o b) = Len(a) + Len(b)
         /\ Len(a) \in Nat /\ Len(b) \in Nat
         /\ \A i \in 1..Len(a) : (a \o b)[i] = a[i]
         /\ \A i \in 1..Len(b) : (a \o b)[Len(a) + i] = b[i]
         /\ \A i \in 1..Len(a \o b) :
              \/ i \in 1..Len(a) /\ (a \o b)[i] = a[i]
              \/ /\ i - Len(a) \in 1..Len(b) /\ (a \o b)[i] = b[i - Len(a)]
                 /\ i \notin 1..Len(a)
         /\ a \o b = <<>> <=> a = <<>> /\ b = <<>>
         /\ a \o <<>> = a /\ <<>> \o a = a
  OBVIOUS

(* The selection of an identity is a sequence of elements of that identity.*)
LEMMA OfType ==
  ASSUME NEW T, T \subseteq Items, NEW q \in Seq(T), NEW id
  PROVE  /\ Of(q, id) \in Seq(T) /\ Of(q, id) \in Seq(Items)
         /\ \A i \in 1..Len(Of(q, id)) : Of(q, id)[i] \in T /\ Of(q, id)[i].id = id
  <1>1. Of(q, id) \in Seq(T)
    BY AmongType DEF Of
  <1>2. Of(q, id) \in Seq(Items)
    BY <1>1, SeqMonotone
  <1>3. \A i \in 1..Len(Of(q, id)) :
           Of(q, id)[i] \in T /\ Of(q, id)[i] \in {j \in Items : j.id = id}
    BY AmongElements DEF Of
  <1> QED BY <1>1, <1>2, <1>3

LEMMA OfConcat ==
  ASSUME NEW a \in Seq(Items), NEW b \in Seq(Items), NEW id
  PROVE  Of(a \o b, id) = Of(a, id) \o Of(b, id)
  BY AmongConcat DEF Of

LEMMA OfEmpty == \A id : Of(<<>>, id) = <<>>
  BY AmongEmpty DEF Of

LEMMA OfNone ==
  ASSUME NEW q \in Seq(Items), NEW id, \A i \in 1..Len(q) : q[i].id # id
  PROVE  Of(q, id) = <<>>
  <1>1. \A i \in 1..Len(q) : q[i] \notin {j \in Items : j.id = id}
    OBVIOUS
  <1> QED BY <1>1, AmongNone DEF Of

LEMMA OfAll ==
  ASSUME NEW q \in Seq(Items), NEW id, \A i \in 1..Len(q) : q[i].id = id
  PROVE  Of(q, id) = q
  <1>1. \A i \in 1..Len(q) : q[i] \in {j \in Items : j.id = id}
    BY ElementOfSeq
  <1> QED BY <1>1, AmongAll DEF Of

LEMMA OfAppend ==
  ASSUME NEW q \in Seq(Items), NEW e \in Items, NEW id
  PROVE  Of(Append(q, e), id) = IF e.id = id THEN Append(Of(q, id), e) ELSE Of(q, id)
  BY AmongAppend DEF Of

(* Selecting twice.                                                        *)
LEMMA OfOf ==
  ASSUME NEW q \in Seq(Items), NEW a, NEW id
  PROVE  Of(Of(q, a), id) = IF a = id THEN Of(q, id) ELSE <<>>
  <1>1. Of(q, a) \in Seq(Items) /\ \A i \in 1..Len(Of(q, a)) : Of(q, a)[i].id = a
    BY OfType
  <1>2. CASE a = id
    BY <1>1, <1>2, OfAll
  <1>3. CASE a # id
    BY <1>1, <1>3, OfNone
  <1> QED BY <1>2, <1>3

LEMMA AmongTwice ==
  ASSUME NEW T, NEW A, NEW B, NEW C, \A x \in T : x \in C <=> x \in A /\ x \in B
  PROVE  \A q \in Seq(T) : Among(q, C) = Among(Among(q, A), B)
  <1> DEFINE U == {q \in Seq(T) : Among(q, C) = Among(Among(q, A), B)}
  <1>1. <<>> \in U
    BY AmongEmpty
  <1>2. ASSUME NEW q \in Seq(T), NEW e \in T, q \in U PROVE Append(q, e) \in U
    <2>1. /\ Among(Append(q, e), C) = IF e \in C THEN Append(Among(q, C), e) ELSE Among(q, C)
          /\ Among(Append(q, e), A) = IF e \in A THEN Append(Among(q, A), e) ELSE Among(q, A)
      BY AmongAppend
    <2>2. Among(q, A) \in Seq(T)
      BY AmongType
    <2>3. Among(Append(Among(q, A), e), B) =
            IF e \in B THEN Append(Among(Among(q, A), B), e) ELSE Among(Among(q, A), B)
      BY <2>2, AmongAppend
    <2>4. Among(q, C) = Among(Among(q, A), B) /\ Append(q, e) \in Seq(T)
      BY <1>2
    <2>5. Among(Append(q, e), C) = Among(Among(Append(q, e), A), B)
      <3>1. CASE e \in A
        BY <3>1, <2>1, <2>3, <2>4
      <3>2. CASE e \notin A
        BY <3>2, <2>1, <2>4
      <3> QED BY <3>1, <3>2
    <2> QED BY <2>4, <2>5
  <1> HIDE DEF U
  <1>3. \A q \in Seq(T) : q \in U
    BY <1>1, <1>2, SequenceInduct
  <1> QED BY <1>3 DEF U

(* What is selected was there.                                             *)
LEMMA AmongWas ==
  ASSUME NEW T, NEW q \in Seq(T), NEW K
  PROVE  \A i \in 1..Len(Among(q, K)) : Among(q, K)[i] \in ToSet(q) \cap K
  <1>1. q \in Seq(ToSet(q))
    <2>1. q = [i \in 1..Len(q) |-> q[i]] /\ Len(q) \in Nat /\ \A i \in 1..Len(q) : q[i] \in ToSet(q)
      BY DEF ToSet
    <2> QED BY <2>1
  <1> QED BY <1>1, AmongElements
-----------------------------------------------------------------------------
(* Whole streams.                                                          *)

LEMMA WholeType ==
  ASSUME NEW id \in Nat \ {0}
  PROVE  \A k \in Nat : /\ Whole(id, k) \in Seq(Items) /\ Len(Whole(id, k)) = k
                        /\ \A i \in 1..k : Whole(id, k)[i] = Item(id, i)
                        /\ \A i \in 1..k : Whole(id, k)[i].id = id
                        /\ Whole(id, k) = <<>> <=> k = 0
  <1> SUFFICES ASSUME NEW k \in Nat
               PROVE  /\ Whole(id, k) \in Seq(Items) /\ Len(Whole(id, k)) = k
                      /\ \A i \in 1..k : Whole(id, k)[i] = Item(id, i)
                      /\ \A i \in 1..k : Whole(id, k)[i].id = id
                      /\ Whole(id, k) = <<>> <=> k = 0
    OBVIOUS
  <1>1. \A i \in 1..k : Item(id, i) \in Items /\ Item(id, i).id = id
    BY ItemFacts
  <1>2. /\ Whole(id, k) \in Seq(Items) /\ Len(Whole(id, k)) = k
        /\ \A i \in 1..k : Whole(id, k)[i] = Item(id, i)
    BY <1>1 DEF Whole
  <1>3. Whole(id, k) = <<>> <=> k = 0
    BY <1>2
  <1> QED BY <1>1, <1>2, <1>3

LEMMA WholeNext ==
  ASSUME NEW id \in Nat \ {0}, NEW k \in Nat
  PROVE  /\ Whole(id, k + 1) = Append(Whole(id, k), Item(id, k + 1))
         /\ Whole(id, k + 1) = Whole(id, k) \o <<Item(id, k + 1)>>
  <1> DEFINE e == Item(id, k + 1)
             a == Append(Whole(id, k), e)
             w == Whole(id, k + 1)
  <1>1. /\ Whole(id, k) \in Seq(Items) /\ Len(Whole(id, k)) = k
        /\ \A i \in 1..k : Whole(id, k)[i] = Item(id, i)
    BY WholeType
  <1>2. w \in Seq(Items) /\ Len(w) = k + 1 /\ \A i \in 1..(k + 1) : w[i] = Item(id, i)
    BY WholeType
  <1>3. e \in Items
    BY ItemFacts
  <1> HIDE DEF e
  <1>4. a \in Seq(Items) /\ Len(a) = k + 1 /\ a[k + 1] = e /\ \A i \in 1..k : a[i] = Whole(id, k)[i]
    BY <1>1, <1>3
  <1> HIDE DEF a, w
  <1>5. ASSUME NEW i \in 1..(k + 1) PROVE a[i] = w[i]
    <2>1. CASE i = k + 1
      BY <2>1, <1>2, <1>4 DEF e
    <2>2. CASE i \in 1..k
      BY <2>2, <1>1, <1>2, <1>4
    <2> QED BY <2>1, <2>2
  <1>6. a = w
    BY <1>2, <1>4, <1>5, SeqEqual
  <1>7. Append(Whole(id, k), e) = Whole(id, k) \o <<e>>
    BY <1>1, <1>3, AppendIsConcat
  <1> QED BY <1>6, <1>7 DEF a, w, e

LEMMA ClosedType ==
  ASSUME NEW id \in Nat \ {0}
  PROVE  \A k \in Nat : /\ Closed(id, k) \in Seq(Items) /\ Len(Closed(id, k)) = k + 1
                        /\ Closed(id, k) = Whole(id, k) \o <<Item(id, 0)>>
                        /\ \A i \in 1..k : Closed(id, k)[i] = Item(id, i)
  <1> SUFFICES ASSUME NEW k \in Nat
               PROVE  /\ Closed(id, k) \in Seq(Items) /\ Len(Closed(id, k)) = k + 1
                      /\ Closed(id, k) = Whole(id, k) \o <<Item(id, 0)>>
                      /\ \A i \in 1..k : Closed(id, k)[i] = Item(id, i)
    OBVIOUS
  <1> DEFINE w == Whole(id, k)
             e == Item(id, 0)
  <1>1. w \in Seq(Items) /\ Len(w) = k /\ \A i \in 1..k : w[i] = Item(id, i)
    BY WholeType
  <1>2. e \in Items
    BY ItemFacts
  <1>3. Closed(id, k) = Append(w, e)
    BY DEF Closed
  <1> HIDE DEF w, e
  <1>4. /\ Append(w, e) \in Seq(Items) /\ Len(Append(w, e)) = k + 1
        /\ \A i \in 1..k : Append(w, e)[i] = w[i]
    BY <1>1, <1>2
  <1>5. Append(w, e) = w \o <<e>>
    BY <1>1, <1>2, AppendIsConcat
  <1> QED BY <1>1, <1>3, <1>4, <1>5 DEF w, e

(* The beginning of a whole stream is whole.                               *)
LEMMA WholeSplit ==
  ASSUME NEW id \in Nat \ {0}, NEW m \in Nat, NEW a \in Seq(Items), NEW b \in Seq(Items),
         a \o b = Whole(id, m)
  PROVE  Len(a) \in 0..m /\ a = Whole(id, Len(a))
  <1>1. /\ Len(a \o b) = Len(a) + Len(b) /\ Len(a) \in Nat /\ Len(b) \in Nat
        /\ \A i \in 1..Len(a) : (a \o b)[i] = a[i]
    BY ConcatElements
  <1>0. Len(Whole(id, m)) = m /\ \A i \in 1..m : Whole(id, m)[i] = Item(id, i)
    BY WholeType
  <1>2. Len(a) \in 0..m
    BY <1>0, <1>1
  <1> DEFINE w == Whole(id, Len(a))
  <1>3. w \in Seq(Items) /\ Len(w) = Len(a) /\ \A i \in 1..Len(a) : w[i] = Item(id, i)
    BY <1>1, WholeType
  <1>4. \A i \in 1..Len(a) : a[i] = w[i]
    BY <1>0, <1>1, <1>2, <1>3
  <1>5. a = w
    BY <1>3, <1>4, SeqEqual
  <1> QED BY <1>2, <1>5

(* The first frames of a stream in their order, its page closed or not.    *)
UpTo(id, m, items) == \E k \in 0..m : items \in {Whole(id, k), Closed(id, k)}

LEMMA UpToSplit ==
  ASSUME NEW id \in Nat \ {0}, NEW m \in Nat, NEW a \in Seq(Items), NEW b \in Seq(Items),
         UpTo(id, m, a \o b)
  PROVE  UpTo(id, m, a)
  <1>1. PICK k \in 0..m : a \o b \in {Whole(id, k), Closed(id, k)}
    BY DEF UpTo
  <1>2. CASE a \o b = Whole(id, k)
    <2>0. k \in Nat
      OBVIOUS
    <2>1. Len(a) \in 0..k /\ a = Whole(id, Len(a))
      BY <1>2, <2>0, WholeSplit
    <2> QED BY <2>1 DEF UpTo
  <1>3. CASE a \o b = Closed(id, k) /\ b = <<>>
    <2>1. a = Closed(id, k)
      BY <1>3, ConcatElements
    <2> QED BY <2>1 DEF UpTo
  <1>4. CASE a \o b = Closed(id, k) /\ b # <<>>
    <2>0. k \in Nat
      OBVIOUS
    <2>1. /\ Len(a \o b) = Len(a) + Len(b) /\ Len(a) \in Nat /\ Len(b) \in Nat
          /\ \A i \in 1..Len(a) : (a \o b)[i] = a[i]
      BY ConcatElements
    <2>2. Len(b) # 0
      BY <1>4, EmptySeq
    <2>3. Len(Closed(id, k)) = k + 1 /\ \A i \in 1..k : Closed(id, k)[i] = Item(id, i)
      BY <2>0, ClosedType
    <2>7. Len(a) \in 0..k
      BY <1>4, <2>1, <2>2, <2>3
    <2> DEFINE w == Whole(id, Len(a))
    <2>4. w \in Seq(Items) /\ Len(w) = Len(a) /\ \A i \in 1..Len(a) : w[i] = Item(id, i)
      BY <2>1, WholeType
    <2>5. \A i \in 1..Len(a) : a[i] = w[i]
      BY <1>4, <2>1, <2>3, <2>4, <2>7
    <2>6. a = Whole(id, Len(a))
      BY <2>4, <2>5, SeqEqual
    <2> QED BY <2>6, <2>7 DEF UpTo
  <1> QED BY <1>1, <1>2, <1>3, <1>4

LEMMA UpToMore ==
  ASSUME NEW id, NEW m \in Nat, NEW l \in Nat, m <= l, NEW items, UpTo(id, m, items)
  PROVE  UpTo(id, l, items)
  BY DEF UpTo

LEMMA UpToWhole ==
  ASSUME NEW id, NEW m \in Nat, NEW k \in 0..m
  PROVE  UpTo(id, m, Whole(id, k)) /\ UpTo(id, m, Closed(id, k))
  BY DEF UpTo
-----------------------------------------------------------------------------
(* What the workers put out.                                               *)

LEMMA ClosingType ==
  ASSUME NEW p \in Nat, NEW id \in Nat
  PROVE  /\ Closing(p, id) \in Seq(Items)
         /\ p \in {0, id} => Closing(p, id) = <<>>
         /\ p \notin {0, id} => Closing(p, id) = <<Item(p, 0)>> /\ Item(p, 0) \in Items
  BY ItemFacts DEF Closing

Pieces(p, q) ==
  [i \in 1..Len(q) |-> Append(Closing(IF i = 1 THEN p ELSE q[i - 1].id, q[i].id), q[i])]

LEMMA PiecesType ==
  ASSUME NEW p \in Nat, NEW q \in Seq(Items)
  PROVE  Pieces(p, q) \in Seq(Seq(Items)) /\ Len(Pieces(p, q)) = Len(q)
  <1>1. ASSUME NEW i \in 1..Len(q)
        PROVE  Append(Closing(IF i = 1 THEN p ELSE q[i - 1].id, q[i].id), q[i]) \in Seq(Items)
    <2>1. q[i] \in Items /\ (i # 1 => q[i - 1] \in Items)
      BY ElementOfSeq
    <2>2. (IF i = 1 THEN p ELSE q[i - 1].id) \in Nat /\ q[i].id \in Nat
      BY <2>1, ItemFacts
    <2>3. Closing(IF i = 1 THEN p ELSE q[i - 1].id, q[i].id) \in Seq(Items)
      BY <2>2, ClosingType
    <2> QED BY <2>1, <2>3
  <1>2. Len(q) \in Nat
    OBVIOUS
  <1> QED BY <1>1, <1>2 DEF Pieces

LEMMA ProcessIs == \A p, q : Process(p, q) = FlattenSeq(Pieces(p, q))
  BY DEF Process, Pieces

LEMMA ProcessType ==
  ASSUME NEW p \in Nat, NEW q \in Seq(Items)
  PROVE  /\ Process(p, q) \in Seq(Items)
         /\ PageAfter(p, q) \in Nat
  <1>1. Process(p, q) \in Seq(Items)
    BY PiecesType, ProcessIs, FlattenType
  <1>2. PageAfter(p, q) \in Nat
    <2>1. q # <<>> => Len(q) \in 1..Len(q)
      OBVIOUS
    <2>2. q # <<>> => q[Len(q)] \in Items
      BY <2>1, ElementOfSeq
    <2> QED BY <2>2, ItemFacts DEF PageAfter
  <1> QED BY <1>1, <1>2

LEMMA ProcessEmpty == \A p : Process(p, <<>>) = <<>> /\ PageAfter(p, <<>>) = p
  <1> SUFFICES ASSUME NEW p PROVE Process(p, <<>>) = <<>> /\ PageAfter(p, <<>>) = p
    OBVIOUS
  <1>1. Pieces(p, <<>>) = <<>>
    BY DEF Pieces
  <1> QED BY <1>1, ProcessIs, FlattenEmpty DEF PageAfter

(* One frame more: the page of another stream is closed before it.         *)
LEMMA ProcessAppend ==
  ASSUME NEW p \in Nat, NEW q \in Seq(Items), NEW f \in Items
  PROVE  /\ Process(p, Append(q, f)) =
              Process(p, q) \o Append(Closing(PageAfter(p, q), f.id), f)
         /\ Append(Closing(PageAfter(p, q), f.id), f) \in Seq(Items)
         /\ PageAfter(p, Append(q, f)) = f.id
  <1> DEFINE r == Append(q, f)
             n == Len(q)
             e == Append(Closing(PageAfter(p, q), f.id), f)
  <1>1. /\ r \in Seq(Items) /\ Len(r) = n + 1 /\ n \in Nat /\ r[n + 1] = f /\ r # <<>>
        /\ \A i \in 1..n : r[i] = q[i]
    OBVIOUS
  <1>2. PageAfter(p, q) = IF n = 0 THEN p ELSE q[n].id
    <2>1. q = <<>> <=> n = 0
      OBVIOUS
    <2> QED BY <2>1 DEF PageAfter
  <1>3. e \in Seq(Items)
    <2>1. PageAfter(p, q) \in Nat /\ f.id \in Nat
      BY ProcessType, ItemFacts
    <2>2. Closing(PageAfter(p, q), f.id) \in Seq(Items)
      BY <2>1, ClosingType
    <2> QED BY <2>2
  <1>4. PageAfter(p, r) = f.id
    BY <1>1 DEF PageAfter
  <1> HIDE DEF r, n
  <1>5. /\ Pieces(p, q) \in Seq(Seq(Items)) /\ Len(Pieces(p, q)) = n
        /\ Pieces(p, r) \in Seq(Seq(Items)) /\ Len(Pieces(p, r)) = n + 1
    BY <1>1, PiecesType DEF n
  <1>6. Pieces(p, r)[n + 1] = e
    <2>1. n + 1 \in 1..Len(r) /\ (n + 1) - 1 = n /\ (n + 1 = 1 <=> n = 0)
      BY <1>1
    <2>2. Pieces(p, r)[n + 1] =
            Append(Closing(IF n + 1 = 1 THEN p ELSE r[(n + 1) - 1].id, r[n + 1].id), r[n + 1])
      BY <2>1 DEF Pieces
    <2>3. n # 0 => r[n] = q[n]
      BY <1>1
    <2> QED BY <2>1, <2>2, <2>3, <1>1, <1>2
  <1>7. ASSUME NEW i \in 1..n PROVE Pieces(p, r)[i] = Pieces(p, q)[i]
    <2>1. i \in 1..Len(r) /\ i \in 1..Len(q) /\ r[i] = q[i] /\ (i # 1 => r[i - 1] = q[i - 1])
      BY <1>1 DEF n
    <2> QED BY <2>1 DEF Pieces
  <1> HIDE DEF e
  <1>8. Pieces(p, r) = Append(Pieces(p, q), e)
    <2> DEFINE a == Append(Pieces(p, q), e)
    <2>1. /\ a \in Seq(Seq(Items)) /\ Len(a) = n + 1 /\ a[n + 1] = e
          /\ \A i \in 1..n : a[i] = Pieces(p, q)[i]
      BY <1>1, <1>3, <1>5
    <2> HIDE DEF a
    <2>2. \A i \in 1..(n + 1) : i = n + 1 \/ i \in 1..n
      BY <1>1
    <2>3. \A i \in 1..(n + 1) : Pieces(p, r)[i] = a[i]
      BY <2>1, <2>2, <1>6, <1>7
    <2>4. Pieces(p, r) = a
      BY <2>1, <2>3, <1>5, SeqEqual
    <2> QED BY <2>4 DEF a
  <1>9. FlattenSeq(Append(Pieces(p, q), e)) = FlattenSeq(Pieces(p, q)) \o e
    BY <1>3, <1>5, FlattenAppend
  <1> QED BY <1>3, <1>4, <1>8, <1>9, ProcessIs DEF r, e

(* What is put out is what came in and the ends of its pages.              *)
LEMMA ProcessElements ==
  ASSUME NEW K, K \subseteq Items, NEW T, T \subseteq K, NEW p \in Nat,
         p # 0 => Item(p, 0) \in K, \A f \in T : Item(f.id, 0) \in K
  PROVE  \A q \in Seq(T) : /\ Process(p, q) \in Seq(K)
                           /\ PageAfter(p, q) # 0 => Item(PageAfter(p, q), 0) \in K
  <1> DEFINE U == {q \in Seq(T) : /\ Process(p, q) \in Seq(K)
                                  /\ PageAfter(p, q) # 0 => Item(PageAfter(p, q), 0) \in K}
  <1>1. <<>> \in U
    <2>1. <<>> \in Seq(T) /\ <<>> \in Seq(K)
      OBVIOUS
    <2> QED BY <2>1, ProcessEmpty
  <1>2. ASSUME NEW q \in Seq(T), NEW f \in T, q \in U PROVE Append(q, f) \in U
    <2>1. q \in Seq(Items) /\ f \in Items /\ f \in K
      BY SeqMonotone
    <2>2. /\ Process(p, Append(q, f)) =
               Process(p, q) \o Append(Closing(PageAfter(p, q), f.id), f)
          /\ PageAfter(p, Append(q, f)) = f.id
      BY <2>1, ProcessAppend
    <2>3. PageAfter(p, q) \in Nat /\ f.id \in Nat
      BY <2>1, ProcessType, ItemFacts
    <2>4. /\ Closing(PageAfter(p, q), f.id) \in {<<>>, <<Item(PageAfter(p, q), 0)>>}
          /\ PageAfter(p, q) = 0 => Closing(PageAfter(p, q), f.id) = <<>>
      BY <2>3 DEF Closing
    <2>5. Process(p, q) \in Seq(K) /\ (PageAfter(p, q) # 0 => Item(PageAfter(p, q), 0) \in K)
      BY <1>2
    <2>6. Closing(PageAfter(p, q), f.id) \in Seq(K)
      <3>1. CASE PageAfter(p, q) = 0 \/ Closing(PageAfter(p, q), f.id) = <<>>
        <4>1. <<>> \in Seq(K)
          OBVIOUS
        <4> QED BY <4>1, <3>1, <2>4
      <3>2. CASE PageAfter(p, q) # 0 /\ Closing(PageAfter(p, q), f.id) # <<>>
        <4> DEFINE x == Item(PageAfter(p, q), 0)
        <4>1. Closing(PageAfter(p, q), f.id) = <<x>> /\ x \in K
          BY <3>2, <2>4, <2>5
        <4> HIDE DEF x
        <4>2. <<x>> \in Seq(K)
          BY <4>1
        <4> QED BY <4>1, <4>2
      <3> QED BY <3>1, <3>2
    <2>7. Append(Closing(PageAfter(p, q), f.id), f) \in Seq(K)
      BY <2>6, <2>1
    <2>8. Process(p, Append(q, f)) \in Seq(K)
      BY <2>2, <2>5, <2>7
    <2>9. Append(q, f) \in Seq(T) /\ Item(f.id, 0) \in K
      OBVIOUS
    <2> QED BY <2>2, <2>8, <2>9
  <1> HIDE DEF U
  <1>3. \A q \in Seq(T) : q \in U
    BY <1>1, <1>2, SequenceInduct
  <1> QED BY <1>3 DEF U

(* The identities of a sequence do not fall.                               *)
Rising(q) == \A i, j \in 1..Len(q) : i < j => q[i].id <= q[j].id
Within(p, q, c) == \A i \in 1..Len(q) : p <= q[i].id /\ q[i].id <= c

LEMMA RisingAppend ==
  ASSUME NEW q \in Seq(Items), NEW f \in Items, NEW p \in Nat, NEW c \in Nat,
         Rising(Append(q, f)), Within(p, Append(q, f), c)
  PROVE  /\ Rising(q) /\ Within(p, q, c) /\ p <= f.id /\ f.id <= c
         /\ \A i \in 1..Len(q) : q[i].id <= f.id
  <1> DEFINE r == Append(q, f)
             n == Len(q)
  <1>1. /\ Len(r) = n + 1 /\ n \in Nat /\ r[n + 1] = f
        /\ \A i \in 1..n : r[i] = q[i]
    OBVIOUS
  <1>2. Rising(r) /\ Within(p, r, c)
    OBVIOUS
  <1> HIDE DEF r
  <1>3. \A i \in 1..n : i \in 1..Len(r) /\ i < n + 1
    BY <1>1
  <1>4. n + 1 \in 1..Len(r)
    BY <1>1
  <1>5. \A i, j \in 1..n : i < j => q[i].id <= q[j].id
    BY <1>1, <1>2, <1>3 DEF Rising
  <1>6. \A i \in 1..n : q[i].id <= f.id
    BY <1>1, <1>2, <1>3, <1>4 DEF Rising
  <1>7. (\A i \in 1..n : p <= q[i].id /\ q[i].id <= c) /\ p <= f.id /\ f.id <= c
    BY <1>1, <1>2, <1>3, <1>4 DEF Within
  <1> QED BY <1>5, <1>6, <1>7 DEF Rising, Within

LEMMA RisingConcat ==
  ASSUME NEW a \in Seq(Items), NEW b \in Seq(Items), Rising(a), NEW c \in Nat,
         \A i \in 1..Len(a) : a[i].id <= c, \A i \in 1..Len(b) : b[i].id = c
  PROVE  Rising(a \o b)
  <1>1. \A i \in 1..Len(a \o b) :
              \/ i \in 1..Len(a) /\ (a \o b)[i] = a[i]
              \/ i - Len(a) \in 1..Len(b) /\ (a \o b)[i] = b[i - Len(a)] /\ i \notin 1..Len(a)
    BY ConcatElements
  <1>2. Len(a) \in Nat /\ Len(b) \in Nat /\ Len(a \o b) \in Nat
    BY ConcatElements
  <1> SUFFICES ASSUME NEW i \in 1..Len(a \o b), NEW j \in 1..Len(a \o b), i < j
               PROVE  (a \o b)[i].id <= (a \o b)[j].id
    BY DEF Rising
  <1>3. CASE i \in 1..Len(a) /\ j \in 1..Len(a)
    BY <1>1, <1>3 DEF Rising
  <1>4. CASE i \in 1..Len(a) /\ j \notin 1..Len(a)
    BY <1>1, <1>4
  <1>5. CASE i \notin 1..Len(a)
    <2>1. j \notin 1..Len(a)
      BY <1>5, <1>2
    <2>2. (a \o b)[i].id = c /\ (a \o b)[j].id = c
      BY <1>1, <1>5, <2>1
    <2> QED BY <2>2
  <1> QED BY <1>3, <1>4, <1>5

LEMMA PageAfterWithin ==
  ASSUME NEW q \in Seq(Items), NEW p \in Nat, NEW c \in Nat, Rising(q), Within(p, q, c), p <= c
  PROVE  /\ PageAfter(p, q) \in Nat /\ p <= PageAfter(p, q) /\ PageAfter(p, q) <= c
         /\ \A i \in 1..Len(q) : q[i].id <= PageAfter(p, q)
         /\ PageAfter(p, q) = c <=> p = c \/ Of(q, c) # <<>>
  <1>1. CASE q = <<>>
    <2>1. PageAfter(p, q) = p /\ Of(q, c) = <<>> /\ Len(q) = 0
      BY <1>1, ProcessEmpty, OfEmpty
    <2> QED BY <2>1
  <1>2. CASE q # <<>>
    <2> DEFINE n == Len(q)
    <2>1. n \in Nat /\ n \in 1..n /\ q[n] \in Items
      BY <1>2, ElementOfSeq
    <2>2. PageAfter(p, q) = q[n].id /\ q[n].id \in Nat
      BY <1>2, <2>1, ItemFacts DEF PageAfter
    <2>3. p <= q[n].id /\ q[n].id <= c
      BY <2>1 DEF Within
    <2>4. \A i \in 1..n : i < n \/ i = n
      BY <2>1
    <2>5. \A i \in 1..n : q[i].id <= q[n].id
      BY <2>1, <2>2, <2>4 DEF Rising
    <2>6. CASE q[n].id = c
      <3> DEFINE front == SubSeq(q, 1, n - 1)
      <3>1. front \in Seq(Items) /\ q = Append(front, q[n])
        BY <2>1
      <3> HIDE DEF front
      <3>2. Of(Append(front, q[n]), c) = Append(Of(front, c), q[n])
        BY <3>1, <2>1, <2>6, OfAppend
      <3>3. Of(front, c) \in Seq(Items)
        BY <3>1, OfType
      <3>4. \A x \in Seq(Items), e \in Items : Len(Append(x, e)) = Len(x) + 1 /\ Len(x) \in Nat
        OBVIOUS
      <3>6. \A x \in Seq(Items), e \in Items : Append(x, e) # <<>>
        BY <3>4, EmptySeq
      <3>5. Of(q, c) # <<>>
        BY <3>1, <3>2, <3>3, <3>6, <2>1
      <3> QED BY <2>2, <2>3, <2>5, <2>6, <3>5
    <2>7. CASE q[n].id # c
      <3>1. ASSUME NEW i \in 1..n PROVE q[i].id # c
        <4>1. q[i] \in Items /\ q[i].id \in Nat
          BY ElementOfSeq, ItemFacts
        <4> QED BY <4>1, <2>2, <2>3, <2>5, <2>7
      <3>2. Of(q, c) = <<>>
        BY <3>1, OfNone
      <3> QED BY <2>2, <2>3, <2>5, <2>7, <3>2
    <2> QED BY <2>6, <2>7
  <1> QED BY <1>1, <1>2

(* Of the newest stream the workers put out what came in.                  *)
LEMMA ProcessOf ==
  ASSUME NEW p \in Nat, NEW c \in Nat, p <= c
  PROVE  \A q \in Seq(Items) : Rising(q) /\ Within(p, q, c) => Of(Process(p, q), c) = Of(q, c)
  <1> DEFINE U == {q \in Seq(Items) :
                     Rising(q) /\ Within(p, q, c) => Of(Process(p, q), c) = Of(q, c)}
  <1>1. <<>> \in U
    BY ProcessEmpty, OfEmpty
  <1>2. ASSUME NEW q \in Seq(Items), NEW f \in Items, q \in U PROVE Append(q, f) \in U
    <2> SUFFICES ASSUME Rising(Append(q, f)), Within(p, Append(q, f), c)
                 PROVE  Of(Process(p, Append(q, f)), c) = Of(Append(q, f), c)
      OBVIOUS
    <2> DEFINE pa == PageAfter(p, q)
               e == Closing(pa, f.id)
    <2>1. Rising(q) /\ Within(p, q, c) /\ p <= f.id /\ f.id <= c /\ \A i \in 1..Len(q) : q[i].id <= f.id
      BY RisingAppend
    <2>2. f.id \in Nat
      BY ItemFacts
    <2>3. pa \in Nat /\ pa <= f.id
      <3>1. Within(p, q, f.id)
        BY <2>1 DEF Within
      <3> QED BY <3>1, <2>1, <2>2, PageAfterWithin
    <2>4. e \in Seq(Items) /\ Of(e, c) = <<>>
      <3>1. CASE pa \in {0, f.id}
        BY <3>1, <2>2, <2>3, ClosingType, OfEmpty
      <3>2. CASE pa \notin {0, f.id}
        <4>1. e = <<Item(pa, 0)>> /\ Item(pa, 0) \in Items /\ Item(pa, 0).id = pa
          BY <3>2, <2>2, <2>3, ClosingType, ItemFacts
        <4>2. pa # c
          BY <3>2, <2>1, <2>2, <2>3
        <4>3. e \in Seq(Items) /\ Len(e) = 1 /\ e[1].id = pa
          BY <4>1
        <4>4. \A i \in 1..Len(e) : e[i].id # c
          BY <4>2, <4>3
        <4> QED BY <4>3, <4>4, OfNone
      <3> QED BY <3>1, <3>2
    <2>5. Process(p, Append(q, f)) = Process(p, q) \o Append(e, f)
      BY ProcessAppend
    <2>6. Process(p, q) \in Seq(Items)
      BY ProcessType
    <2>7. Of(Process(p, q), c) = Of(q, c)
      BY <1>2, <2>1
    <2> HIDE DEF e
    <2>8. Append(e, f) \in Seq(Items)
      BY <2>4
    <2>9. Of(Append(e, f), c) = IF f.id = c THEN Append(Of(e, c), f) ELSE Of(e, c)
      BY <2>4, OfAppend
    <2>10. Of(Process(p, q) \o Append(e, f), c) = Of(Process(p, q), c) \o Of(Append(e, f), c)
      BY <2>6, <2>8, OfConcat
    <2>11. Of(Append(q, f), c) = IF f.id = c THEN Append(Of(q, c), f) ELSE Of(q, c)
      BY OfAppend
    <2>12. Of(q, c) \in Seq(Items)
      BY OfType
    <2>13. CASE f.id = c
      <3>1. Of(Append(e, f), c) = <<f>>
        BY <2>4, <2>9, <2>13
      <3>2. Append(Of(q, c), f) = Of(q, c) \o <<f>>
        BY <2>12, AppendIsConcat
      <3> QED BY <3>1, <3>2, <2>5, <2>7, <2>10, <2>11, <2>13
    <2>14. CASE f.id # c
      <3>1. Of(Append(e, f), c) = <<>>
        BY <2>4, <2>9, <2>14
      <3> QED BY <3>1, <2>5, <2>7, <2>10, <2>11, <2>12, <2>14, ConcatEmptySeq
    <2> QED BY <2>13, <2>14
  <1> HIDE DEF U
  <1>3. \A q \in Seq(Items) : q \in U
    BY <1>1, <1>2, SequenceInduct
  <1> QED BY <1>3 DEF U

(* Finishing a stream puts out the rest of it and the end of its page.     *)
LEMMA FinishOf ==
  ASSUME NEW p \in Nat, NEW c \in Nat \ {0}, p <= c, NEW q \in Seq(Items), Rising(q), Within(p, q, c)
  PROVE  Of(Process(p, q) \o Closing(PageAfter(p, q), 0), c) =
           Of(q, c) \o (IF PageAfter(p, q) = c THEN <<Item(c, 0)>> ELSE <<>>)
  <1> DEFINE pa == PageAfter(p, q)
             e == Closing(pa, 0)
  <1>1. Process(p, q) \in Seq(Items) /\ pa \in Nat
    BY ProcessType
  <1>2. /\ e \in Seq(Items) /\ (pa = 0 => e = <<>>)
        /\ pa # 0 => e = <<Item(pa, 0)>> /\ Item(pa, 0) \in Items /\ Item(pa, 0).id = pa
    <2> HIDE DEF pa
    <2> QED BY <1>1, ClosingType, ItemFacts
  <1>3. Of(e, c) = IF pa = c THEN <<Item(c, 0)>> ELSE <<>>
    <2> HIDE DEF pa, e
    <2>1. CASE pa = 0
      BY <2>1, <1>2, OfEmpty
    <2>2. CASE pa # 0
      <3>1. Len(e) = 1 /\ e[1].id = pa
        BY <2>2, <1>2
      <3>2. pa = c => Of(e, c) = e
        BY <3>1, <1>2, OfAll
      <3>3. pa # c => Of(e, c) = <<>>
        BY <3>1, <1>2, OfNone
      <3> QED BY <3>2, <3>3, <2>2, <1>2
    <2> QED BY <2>1, <2>2
  <1>4. Of(Process(p, q), c) = Of(q, c)
    BY ProcessOf
  <1>5. Of(Process(p, q) \o e, c) = Of(Process(p, q), c) \o Of(e, c)
    BY <1>1, <1>2, OfConcat
  <1> QED BY <1>3, <1>4, <1>5
-----------------------------------------------------------------------------
(* The inductive invariant.                                                *)

(* What of a slot exists: the frames made of its identities, and these     *)
(* with the ends of their pages.                                           *)
Known(s)  == {i \in Items : i.id <= ids[s] /\ i.n <= made[s][i.id]}
Frames(s) == {f \in Known(s) : f.n # 0}
Exist(s) ==
  /\ shown[s] \in Seq(Frames(s)) /\ hand[s] \in Seq(Frames(s)) /\ pending_iq[s] \in Seq(Frames(s))
  /\ queued[s] \in Seq(Frames(s)) /\ consumed[s] \subseteq Frames(s)
  /\ heard[s] \in Seq(Known(s)) /\ pending_receiver[s] \in Seq(Known(s))
  /\ page[s] <= ids[s] /\ retiring[s] <= ids[s]
  /\ exempt[s] <= ids[s] /\ fence[s] <= ids[s]
  /\ registry[s] # 0 => registry[s] = ids[s] /\ registry[s] > fence[s]

(* The publisher holds a batch between its poll and its send; without a    *)
(* pipeline the slots have no identity.                                    *)
Control ==
  /\ pc = "poll" => hand = Nothing /\ ~stale
  /\ ~pipeline => registry = None
  /\ stale => ~pipeline
  /\ ~sdr => pending_iq = Nothing

(* Workers that do not work have nothing.                                  *)
Resting ==
  /\ receivers # "live" => queued = Nothing /\ page = None
  /\ receivers \in {"none", "stopping", "stopped"} => consumed = [s \in Slots |-> {}]
  /\ failure # "none" => /\ receivers \in {"none", "stopping", "stopped"}
                         /\ pending_receiver = Nothing

(* The IQ clients' line: what they were sent, what is in the publisher's   *)
(* hand for them, what is pending.                                         *)
Held(s) == IF stale THEN <<>> ELSE hand[s]
IqLine(s) == (shown[s] \o Held(s)) \o pending_iq[s]
Precedes(f, g) == f.id < g.id \/ (f.id = g.id /\ f.n < g.n)
Increasing(q) == \A i, j \in 1..Len(q) : i < j => Precedes(q[i], q[j])
After(q, id) == \A i \in 1..Len(q) : q[i].id > id
IqKept(s) ==
  /\ Increasing(IqLine(s))
  /\ registry[s] # 0 => Of(IqLine(s), registry[s]) = Whole(registry[s], made[s][registry[s]])
  /\ hw = 0 => After(pending_iq[s], fence[s]) /\ After(Held(s), fence[s])

(* The subscribers' line of the current identity: what they heard, what is *)
(* queued, what is pending and not consumed.  The page of the identity is  *)
(* open when something of it was heard.                                    *)
QueueInOrder(s) ==
  /\ Rising(queued[s]) /\ \A i \in 1..Len(queued[s]) : page[s] <= queued[s][i].id
  /\ Unheard[s] # <<>> => page[s] = 0 /\ queued[s] = <<>>
Line(s) ==
  failure = "none" /\ registry[s] # 0 =>
    LET r == registry[s] IN
    /\ (Of(heard[s], r) \o Of(queued[s], r)) \o Of(Unheard[s], r) = Whole(r, made[s][r])
    /\ page[s] = r <=> Of(heard[s], r) # <<>>
    /\ receivers \in {"none", "broken"} => made[s][r] = 0
Current(s) ==
  registry[s] # 0 =>
    /\ \E k \in 0..made[s][registry[s]] : Of(heard[s], registry[s]) = Whole(registry[s], k)
    /\ Of(pending_receiver[s], registry[s]) = <<>>

(* What was heard of an older identity, and what will be.                  *)
Tails(s, id) == IF retiring[s] = id THEN Of(pending_receiver[s], id) ELSE <<>>
Total(s, id) == Of(heard[s], id) \o Tails(s, id)
Older(s) ==
  \A id \in 1..ids[s] : id # registry[s] => UpTo(id, made[s][id], Total(s, id))

(* Without a failure of the capture.                                       *)
Settled(s, id) == Of(heard[s], id) = IF made[s][id] = 0 THEN <<>> ELSE Closed(id, made[s][id])
Healthy(s) ==
  hw = 0 =>
    /\ pending_receiver[s] = <<>> /\ Rising(heard[s])
    /\ receivers # "broken" => consumed[s] \subseteq ToSet(pending_iq[s])
    /\ failure = "none" =>
         /\ page[s] \in {0, registry[s]}
         /\ \A i \in 1..Len(queued[s]) : queued[s][i].id = registry[s]
         /\ \A i \in 1..Len(Unheard[s]) :
              Unheard[s][i].id = registry[s] \/ Unheard[s][i].id <= exempt[s]
         /\ \A id \in (exempt[s] + 1)..ids[s] : id # registry[s] => Settled(s, id)

Slot(s) == /\ Exist(s) /\ IqKept(s) /\ QueueInOrder(s) /\ Line(s) /\ Current(s)
           /\ Older(s) /\ Healthy(s)
IInv == TypeOK /\ Control /\ Resting /\ \A s \in Slots : Slot(s)

-----------------------------------------------------------------------------
(* Types.                                                                  *)

Streams == [Slots -> Seq(Items)]

LEMMA NothingType ==
  /\ Nothing \in Streams /\ None \in [Slots -> Nat]
  /\ [s \in Slots |-> {}] \in [Slots -> SUBSET Items]
  /\ \A s \in Slots : Nothing[s] = <<>> /\ None[s] = 0
  <1>1. <<>> \in Seq(Items)
    OBVIOUS
  <1> QED BY <1>1 DEF Nothing, None, Streams

LEMMA ExtendType ==
  ASSUME NEW fs \in Streams, NEW gs \in Streams
  PROVE  Extend(fs, gs) \in Streams /\ \A s \in Slots : Extend(fs, gs)[s] = fs[s] \o gs[s]
  <1>1. \A s \in Slots : fs[s] \o gs[s] \in Seq(Items)
    <2> SUFFICES ASSUME NEW s \in Slots PROVE fs[s] \o gs[s] \in Seq(Items)
      OBVIOUS
    <2>1. fs[s] \in Seq(Items) /\ gs[s] \in Seq(Items)
      BY DEF Streams
    <2> QED BY <2>1
  <1> QED BY <1>1 DEF Extend, Streams

LEMMA AdmittedType ==
  ASSUME NEW fs \in Streams, NEW adm
  PROVE  Admitted(fs, adm) \in Streams /\ \A s \in Slots : Admitted(fs, adm)[s] = Of(fs[s], adm[s])
  <1>1. \A s \in Slots : Of(fs[s], adm[s]) \in Seq(Items)
    BY OfType DEF Streams
  <1>2. Admitted(fs, adm) = [s \in Slots |-> Of(fs[s], adm[s])]
    BY DEF Admitted, Of
  <1> QED BY <1>1, <1>2 DEF Streams

LEMMA AcceptedType ==
  ASSUME NEW fs \in Streams, NEW reg
  PROVE  Accepted(fs, reg) \in Streams
  <1>1. \A s \in Slots : Among(fs[s], {f \in Items : f.id = reg[s] /\ f \notin consumed[s]}) \in Seq(Items)
    BY AmongType DEF Streams
  <1> QED BY <1>1 DEF Accepted, Streams

LEMMA FinishType ==
  ASSUME page \in [Slots -> Nat], NEW q \in Streams
  PROVE  FinishOut(q) \in Streams /\ FinishPage(q) \in [Slots -> Nat]
  <1>1. \A s \in Slots : Process(page[s], q[s]) \in Seq(Items) /\ PageAfter(page[s], q[s]) \in Nat
    BY ProcessType DEF Streams
  <1> QED BY <1>1 DEF FinishOut, FinishPage, Streams

LEMMA CloseType ==
  ASSUME NEW pg \in [Slots -> Nat], NEW S
  PROVE  CloseOut(pg, S) \in Streams /\ ClosePage(pg, S) \in [Slots -> Nat]
  <1>1. \A s \in Slots : Closing(pg[s], 0) \in Seq(Items) /\ <<>> \in Seq(Items)
    BY ClosingType
  <1> QED BY <1>1 DEF CloseOut, ClosePage, Streams

LEMMA ConsumedType ==
  ASSUME TypeOK, NEW fs \in Streams, NEW gs \in Streams
  PROVE  /\ Remembered(fs, gs) \in [Slots -> SUBSET Items]
         /\ Forgotten(fs) \in [Slots -> SUBSET Items]
  <1>1. \A s \in Slots : ToSet(fs[s]) \subseteq Items /\ ToSet(gs[s]) \subseteq Items /\ consumed[s] \subseteq Items
    <2> SUFFICES ASSUME NEW s \in Slots
                 PROVE  ToSet(fs[s]) \subseteq Items /\ ToSet(gs[s]) \subseteq Items /\ consumed[s] \subseteq Items
      OBVIOUS
    <2>1. fs[s] \in Seq(Items) /\ gs[s] \in Seq(Items) /\ consumed[s] \subseteq Items
      BY DEF Streams, TypeOK
    <2> QED BY <2>1 DEF ToSet
  <1> QED BY <1>1 DEF Remembered, Forgotten

LEMMA IdsType ==
  ASSUME TypeOK
  PROVE  /\ ids \in [Slots -> Nat]
         /\ \A s \in Slots : ids[s] = Len(made[s]) /\ made[s] \in Seq(Nat)
         /\ \A s \in Slots : \A id \in 1..ids[s] : made[s][id] \in Nat
  <1>1. \A s \in Slots : made[s] \in Seq(Nat) /\ Len(made[s]) \in Nat
    BY DEF TypeOK
  <1>2. \A s \in Slots : \A id \in 1..Len(made[s]) : made[s][id] \in Nat
    BY <1>1, ElementOfSeq
  <1> QED BY <1>1, <1>2 DEF ids

(* The identities that are given are the newest.                           *)
Given == \A s \in Slots : registry[s] # 0 => registry[s] = ids[s]

LEMMA BatchType ==
  ASSUME TypeOK, Given, NEW B \in Batches
  PROVE  /\ Batch(B) \in Streams /\ Made(B) \in [Slots -> Seq(Nat)]
         /\ frames + Cardinality(B) \in 0..MaxFrames
         /\ B \subseteq Slots /\ \A s \in B : registry[s] # 0
         /\ \A s \in Slots : Len(Made(B)[s]) = ids[s]
  <1>1. /\ B \subseteq Slots /\ (\A s \in B : registry[s] # 0)
        /\ frames + Cardinality(B) <= MaxFrames
    BY DEF Batches
  <1>2. IsFiniteSet(B)
    BY <1>1, FeedAssumption, FS_Subset
  <1>3. Cardinality(B) \in Nat
    BY <1>2, FS_CardinalityType
  <1>4. frames + Cardinality(B) \in 0..MaxFrames
    BY <1>1, <1>3, FeedAssumption DEF TypeOK
  <1>5. \A s \in B : registry[s] \in 1..ids[s] /\ made[s][registry[s]] \in Nat /\ registry[s] \in Nat
    <2> SUFFICES ASSUME NEW s \in B PROVE registry[s] \in 1..ids[s]
      BY <1>1, IdsType
    <2>1. registry[s] = ids[s] /\ registry[s] # 0 /\ registry[s] \in Nat
      BY <1>1 DEF Given, TypeOK
    <2> QED BY <2>1
  <1>6. Batch(B) \in Streams
    <2>1. \A s \in B : <<Item(registry[s], made[s][registry[s]] + 1)>> \in Seq(Items)
      <3> SUFFICES ASSUME NEW s \in B
                   PROVE  <<Item(registry[s], made[s][registry[s]] + 1)>> \in Seq(Items)
        OBVIOUS
      <3>1. Item(registry[s], made[s][registry[s]] + 1) \in Items
        BY <1>1, <1>5, ItemFacts
      <3> QED BY <3>1
    <2>2. <<>> \in Seq(Items)
      OBVIOUS
    <2> QED BY <2>1, <2>2 DEF Batch, Streams
  <1>7. ASSUME NEW s \in Slots PROVE Made(B)[s] \in Seq(Nat) /\ Len(Made(B)[s]) = ids[s]
    <2>1. made[s] \in Seq(Nat) /\ Len(made[s]) = ids[s]
      BY IdsType
    <2>2. CASE s \in B
      <3>1. Made(B)[s] = [made[s] EXCEPT ![registry[s]] = @ + 1]
        BY <2>2 DEF Made
      <3>2. registry[s] \in 1..Len(made[s]) /\ made[s][registry[s]] + 1 \in Nat
        BY <1>5, <2>1, <2>2
      <3> QED BY <2>1, <3>1, <3>2
    <2>3. CASE s \notin B
      BY <2>1, <2>3 DEF Made
    <2> QED BY <2>2, <2>3
  <1>8. Made(B) \in [Slots -> Seq(Nat)]
    BY <1>7 DEF Made
  <1> QED BY <1>1, <1>4, <1>6, <1>7, <1>8

LEMMA RenamedType ==
  ASSUME NEW reg \in [Slots -> Nat], NEW m \in [Slots -> Seq(Nat)], NEW S, NEW Off
  PROVE  Renamed(reg, m, S, Off) \in [Slots -> Nat] /\ Counted(m, S, Off) \in [Slots -> Seq(Nat)]
  <1>1. \A s \in Slots : Append(m[s], 0) \in Seq(Nat) /\ Len(m[s]) + 1 \in Nat
    OBVIOUS
  <1> QED BY <1>1 DEF Renamed, Counted
-----------------------------------------------------------------------------
(* The type invariant is preserved.                                        *)

LEMMA Registry ==
  ASSUME TypeOK, Control
  PROVE  stream_registry = registry /\ stream_registry \in [Slots -> Nat]
  BY DEF TypeOK, Control, stream_registry

(* Batches of frames that are finished by the workers.                     *)
LEMMA FinishedType ==
  ASSUME TypeOK, NEW fs \in Streams, NEW reg \in [Slots -> Nat], NEW S
  PROVE  LET q == Extend(queued, Accepted(fs, reg)) pg == FinishPage(q) IN
         /\ q \in Streams /\ pg \in [Slots -> Nat] /\ FinishOut(q) \in Streams
         /\ Extend(FinishOut(q), CloseOut(pg, S)) \in Streams
         /\ Extend(pending_receiver, Extend(FinishOut(q), CloseOut(pg, S))) \in Streams
         /\ ClosePage(pg, S) \in [Slots -> Nat]
  <1> DEFINE q == Extend(queued, Accepted(fs, reg))
             pg == FinishPage(q)
  <1>1. queued \in Streams /\ page \in [Slots -> Nat] /\ pending_receiver \in Streams
    BY DEF TypeOK, Streams
  <1>2. q \in Streams
    BY <1>1, AcceptedType, ExtendType
  <1> HIDE DEF q
  <1>3. FinishOut(q) \in Streams /\ pg \in [Slots -> Nat]
    BY <1>1, <1>2, FinishType
  <1> HIDE DEF pg
  <1>4. CloseOut(pg, S) \in Streams /\ ClosePage(pg, S) \in [Slots -> Nat]
    BY <1>3, CloseType
  <1>5. Extend(FinishOut(q), CloseOut(pg, S)) \in Streams
    BY <1>3, <1>4, ExtendType
  <1>6. Extend(pending_receiver, Extend(FinishOut(q), CloseOut(pg, S))) \in Streams
    BY <1>1, <1>5, ExtendType
  <1> QED BY <1>2, <1>3, <1>4, <1>5, <1>6 DEF q, pg

(* Delivered output.                                                       *)
LEMMA DeliverType ==
  ASSUME TypeOK, NEW pend \in Streams, NEW adm, Deliver(pend, adm)
  PROVE  /\ heard' \in Streams /\ pending_receiver' \in Streams
         /\ pending_receiver' = Nothing
         /\ \A s \in Slots : heard'[s] = heard[s] \o Of(pend[s], adm[s])
  <1>1. Admitted(pend, adm) \in Streams /\ heard \in Streams
    BY AdmittedType DEF TypeOK, Streams
  <1>2. heard' = Extend(heard, Admitted(pend, adm)) /\ pending_receiver' = Nothing
    BY DEF Deliver
  <1>3. /\ Extend(heard, Admitted(pend, adm)) \in Streams
        /\ \A s \in Slots : Extend(heard, Admitted(pend, adm))[s] = heard[s] \o Admitted(pend, adm)[s]
    BY <1>1, ExtendType
  <1>4. \A s \in Slots : Admitted(pend, adm)[s] = Of(pend[s], adm[s])
    BY AdmittedType
  <1> QED BY <1>2, <1>3, <1>4, NothingType

Typed == TypeOK /\ Control /\ Given

LEMMA FailedTypes ==
  ASSUME Typed, PresentationFailed
  PROVE  /\ pipeline' = FALSE /\ registry' \in [Slots -> Nat] /\ sdr' = sdr
         /\ pending_iq' \in Streams /\ consumed' \in [Slots -> SUBSET Items]
         /\ receivers' \in {"none", "live", "broken", "stopping", "stopped"}
         /\ failure' \in {"none", "pending", "published"}
         /\ pending_receiver' \in Streams /\ retiring' \in [Slots -> Nat]
         /\ queued' \in Streams /\ page' \in [Slots -> Nat]
         /\ exempt' \in [Slots -> Nat]
         /\ frames' = frames /\ commands' = commands
         /\ hw' \in 0..MaxFailures /\ faults' \in 0..MaxFailures
  <1> DEFINE reg == stream_registry
             q == Extend(queued, Accepted(pending_iq, reg))
             out == Extend(pending_receiver, Extend(FinishOut(q), CloseOut(FinishPage(q), Slots)))
  <1>1. reg \in [Slots -> Nat]
    BY Registry DEF Typed
  <1>2. pending_iq \in Streams
    BY DEF Typed, TypeOK, Streams
  <1>3. out \in Streams
    BY <1>1, <1>2, FinishedType DEF Typed
  <1>4. hw' \in 0..MaxFailures
    BY FeedAssumption DEF PresentationFailed, Typed, TypeOK
  <1>5. \/ UNCHANGED <<workers, feed, output, exempt, faults>>
        \/ /\ receivers' = "live" /\ failure' = failure /\ exempt' = exempt
           /\ queued' = Nothing /\ page' = None /\ UNCHANGED faults
           /\ pending_receiver' = out /\ retiring' = reg
           /\ pending_iq' = Nothing /\ consumed' = consumed
        \/ /\ Broken \/ Break
           /\ Latch /\ pending_iq' = Nothing /\ Forget
           /\ pending_receiver' = Nothing /\ retiring' = None
    BY DEF PresentationFailed, Works
  <1>6. /\ pipeline' = FALSE /\ registry' = None /\ UNCHANGED <<sdr, frames, commands>>
    BY DEF PresentationFailed
  <1>7. ids \in [Slots -> Nat]
    BY IdsType DEF Typed
  <1> HIDE DEF reg, out
  <1>8. CASE UNCHANGED <<workers, feed, output, exempt, faults>>
    BY <1>8, <1>4, <1>6, NothingType DEF workers, feed, output, Typed, TypeOK, Streams
  <1>9. CASE /\ receivers' = "live" /\ failure' = failure /\ exempt' = exempt
             /\ queued' = Nothing /\ page' = None /\ UNCHANGED faults
             /\ pending_receiver' = out /\ retiring' = reg
             /\ pending_iq' = Nothing /\ consumed' = consumed
    BY <1>9, <1>1, <1>3, <1>4, <1>6, NothingType DEF Typed, TypeOK, Streams
  <1>10. CASE /\ Broken \/ Break
              /\ Latch /\ pending_iq' = Nothing /\ Forget
              /\ pending_receiver' = Nothing /\ retiring' = None
    <2>1. faults' \in 0..MaxFailures
      BY <1>10, FeedAssumption DEF Broken, Break, Typed, TypeOK
    <2>2. failure' = "pending" /\ receivers' \in {"none", "stopping"}
          /\ queued' = Nothing /\ page' = None /\ exempt' = ids /\ consumed' = [s \in Slots |-> {}]
      BY <1>10 DEF Latch, Forget
    <2> QED BY <1>10, <2>1, <2>2, <1>4, <1>6, <1>7, NothingType
  <1> QED BY <1>5, <1>8, <1>9, <1>10

LEMMA StartTypes ==
  ASSUME Typed, Start PROVE TypeOK'
  <1>1. PICK Off \in SUBSET (Slots \ {1}) :
            registry' = Renamed(None, made, Slots, Off) /\ made' = Counted(made, Slots, Off)
    BY DEF Start
  <1>2. registry' \in [Slots -> Nat] /\ made' \in [Slots -> Seq(Nat)]
    BY <1>1, RenamedType, NothingType DEF Typed, TypeOK
  <1>3. receivers' \in {"none", "live", "broken", "stopping", "stopped"}
    BY DEF Start, Typed, TypeOK
  <1> QED BY <1>2, <1>3 DEF Start, Typed, TypeOK, feed, output, publisher, bounds

LEMMA PollTypes ==
  ASSUME Typed, NEW B \in Batches, Poll(B) PROVE TypeOK'
  <1> DEFINE fs == Extend(pending_iq, Batch(B))
             q == Extend(queued, Accepted(fs, registry))
  <1>1. /\ Batch(B) \in Streams /\ Made(B) \in [Slots -> Seq(Nat)]
        /\ frames + Cardinality(B) \in 0..MaxFrames
    BY BatchType DEF Typed
  <1>2. pending_iq \in Streams /\ queued \in Streams /\ registry \in [Slots -> Nat]
    BY DEF Typed, TypeOK, Streams
  <1>3. fs \in Streams
    BY <1>1, <1>2, ExtendType
  <1>4. q \in Streams /\ Forgotten(fs) \in [Slots -> SUBSET Items]
    BY <1>2, <1>3, FinishedType, ConsumedType DEF Typed
  <1>5. /\ hand' = fs /\ made' = Made(B) /\ frames' = frames + Cardinality(B)
        /\ pending_iq' = Nothing /\ pc' = "finish" /\ stale' = FALSE
        /\ UNCHANGED <<device, identities, heard, shown, fence, commands, hw>>
        /\ \/ UNCHANGED <<workers, output, consumed, exempt, faults>>
           \/ /\ queued' = q /\ consumed' = Forgotten(fs) /\ receivers' = "live"
              /\ UNCHANGED <<failure, page, output, exempt, faults>>
           \/ /\ Broken \/ Break
              /\ Latch /\ Forget /\ pending_receiver' = Nothing /\ retiring' = None
    BY DEF Poll, Count, Works
  <1> HIDE DEF fs, q
  <1>6. ids \in [Slots -> Nat]
    BY IdsType DEF Typed
  <1> DEFINE Rest == /\ receivers' \in {"none", "live", "broken", "stopping", "stopped"}
                     /\ failure' \in {"none", "pending", "published"}
                     /\ queued' \in Streams /\ page' \in [Slots -> Nat]
                     /\ pending_receiver' \in Streams /\ retiring' \in [Slots -> Nat]
                     /\ consumed' \in [Slots -> SUBSET Items] /\ exempt' \in [Slots -> Nat]
                     /\ faults' \in 0..MaxFailures
  <1>7. Rest
    <2>1. CASE UNCHANGED <<workers, output, consumed, exempt, faults>>
      BY <2>1 DEF Typed, TypeOK, Streams, workers, output
    <2>2. CASE /\ queued' = q /\ consumed' = Forgotten(fs) /\ receivers' = "live"
               /\ UNCHANGED <<failure, page, output, exempt, faults>>
      BY <2>2, <1>4 DEF Typed, TypeOK, Streams, output
    <2>3. CASE /\ Broken \/ Break
               /\ Latch /\ Forget /\ pending_receiver' = Nothing /\ retiring' = None
      <3>1. faults' \in 0..MaxFailures
        BY <2>3, FeedAssumption DEF Broken, Break, Typed, TypeOK
      <3>2. failure' = "pending" /\ receivers' \in {"none", "stopping"}
            /\ queued' = Nothing /\ page' = None /\ exempt' = ids /\ consumed' = [s \in Slots |-> {}]
        BY <2>3 DEF Latch, Forget
      <3> QED BY <2>3, <3>1, <3>2, <1>6, NothingType
    <2> QED BY <1>5, <2>1, <2>2, <2>3
  <1> QED BY <1>1, <1>3, <1>5, <1>7, NothingType DEF Typed, TypeOK, Streams, device

LEMMA FailedPublisherTypes ==
  ASSUME Typed, PollFailed \/ FinishFailed PROVE TypeOK'
  <1>1. /\ PresentationFailed /\ pc' = "drain" /\ hand' = Nothing /\ stale' \in {FALSE, stale}
        /\ UNCHANGED <<identities, made, heard, shown, fence>>
    BY DEF PollFailed, FinishFailed
  <1> QED BY <1>1, FailedTypes, NothingType DEF Typed, TypeOK, Streams

LEMMA DrainTypes ==
  ASSUME Typed, Drain PROVE TypeOK'
  <1>1. identities' \in [Slots -> Nat]
    BY Registry DEF Drain, Typed
  <1>2. /\ pc' = "send"
        /\ UNCHANGED <<device, pending_iq, hand, stale, made, shown, fence, frames, commands, hw>>
    BY DEF Drain
  <1>3. /\ receivers' \in {"none", "live", "broken", "stopping", "stopped"}
        /\ failure' \in {"none", "pending", "published"}
        /\ queued' \in Streams /\ page' \in [Slots -> Nat]
        /\ pending_receiver' \in Streams /\ retiring' \in [Slots -> Nat]
        /\ consumed' \in [Slots -> SUBSET Items] /\ exempt' \in [Slots -> Nat]
        /\ heard' \in Streams /\ faults' \in 0..MaxFailures
    <2>1. CASE failure = "none" /\ Works /\ UNCHANGED <<receivers, failure, exempt, consumed, output>>
                 /\ \E k \in Parts(queued) :
                      LET part == [s \in Slots |-> SubSeq(queued[s], 1, k[s])] IN
                      /\ queued' = [s \in Slots |-> SubSeq(queued[s], k[s] + 1, Len(queued[s]))]
                      /\ page' = FinishPage(part)
                      /\ heard' = Extend(heard, Admitted(FinishOut(part), identities'))
      <3>1. PICK k \in Parts(queued) :
               /\ queued' = [s \in Slots |-> SubSeq(queued[s], k[s] + 1, Len(queued[s]))]
               /\ page' = FinishPage([s \in Slots |-> SubSeq(queued[s], 1, k[s])])
               /\ heard' = Extend(heard, Admitted(FinishOut([s \in Slots |-> SubSeq(queued[s], 1, k[s])]), identities'))
        BY <2>1
      <3> DEFINE part == [s \in Slots |-> SubSeq(queued[s], 1, k[s])]
      <3>2. ASSUME NEW s \in Slots
            PROVE  /\ SubSeq(queued[s], 1, k[s]) \in Seq(Items)
                   /\ SubSeq(queued[s], k[s] + 1, Len(queued[s])) \in Seq(Items)
        <4>1. queued[s] \in Seq(Items) /\ k[s] \in 0..MaxFrames /\ k[s] <= Len(queued[s])
          BY DEF Typed, TypeOK, Parts
        <4>2. k[s] \in Nat /\ Len(queued[s]) \in Nat
          BY <4>1, FeedAssumption
        <4> QED BY <4>1, <4>2
      <3>3. part \in Streams /\ queued' \in Streams
        BY <3>1, <3>2 DEF Streams
      <3> HIDE DEF part
      <3>4. FinishOut(part) \in Streams /\ FinishPage(part) \in [Slots -> Nat]
        BY <3>3, FinishType DEF Typed, TypeOK
      <3>5. heard' \in Streams
        <4>1. heard \in Streams
          BY DEF Typed, TypeOK, Streams
        <4> QED BY <3>1, <3>4, <4>1, AdmittedType, ExtendType DEF part
      <3>6. page' \in [Slots -> Nat]
        BY <3>1, <3>4 DEF part
      <3> QED BY <2>1, <3>3, <3>5, <3>6 DEF Works, Typed, TypeOK, Streams, output
    <2>2. CASE /\ failure = "none" /\ receivers # "none" /\ (Broken \/ Break)
               /\ failure' = "published" /\ receivers' = "stopping"
               /\ queued' = Nothing /\ page' = None /\ exempt' = ids
               /\ Forget /\ pending_receiver' = Nothing /\ retiring' = None
               /\ UNCHANGED heard
      <3>1. faults' \in 0..MaxFailures
        BY <2>2, FeedAssumption DEF Broken, Break, Typed, TypeOK
      <3>2. ids \in [Slots -> Nat] /\ heard' \in Streams
        BY <2>2, IdsType DEF Typed, TypeOK, Streams
      <3> QED BY <2>2, <3>1, <3>2, NothingType DEF Forget
    <2>3. CASE /\ failure # "none" /\ failure' = "published"
               /\ receivers' = IF failure = "published" /\ receivers = "stopped" THEN "none" ELSE receivers
               /\ UNCHANGED <<queued, page, exempt, consumed, output, heard, faults>>
      BY <2>3 DEF Typed, TypeOK, Streams, output
    <2> QED BY <2>1, <2>2, <2>3 DEF Drain
  <1> QED BY <1>1, <1>2, <1>3 DEF Typed, TypeOK, Streams, device

LEMMA QuietTypes ==
  ASSUME Typed, Blocked \/ Finish \/ Send \/ Stop PROVE TypeOK'
  <1>1. CASE Blocked
    BY <1>1 DEF Blocked, Typed, TypeOK, device, feed, workers, output, history, bounds
  <1>3. CASE Finish
    BY <1>3 DEF Finish, Typed, TypeOK, device, feed, workers, output, history, bounds
  <1>4. CASE Stop
    BY <1>4 DEF Stop, Typed, TypeOK, device, feed, output, publisher, history, bounds
  <1>2. CASE Send
    <2>1. shown \in Streams /\ hand \in Streams
      BY DEF Typed, TypeOK, Streams
    <2>2. shown' \in Streams
      BY <1>2, <2>1, ExtendType DEF Send
    <2> QED BY <1>2, <2>2, NothingType DEF Send, Typed, TypeOK, Streams, device, feed, workers, output, bounds
  <1> QED BY <1>1, <1>2, <1>3, <1>4

(* A command cuts the streams.                                             *)
LEMMA ChangeTypes ==
  ASSUME Typed, NEW S, NEW Off, NEW B \in Batches, Change(S, Off, B) PROVE TypeOK'
  <1> DEFINE drained == Batch(B)
             fs == Extend(pending_iq, drained)
             old == stream_registry
             new == Renamed(registry, made, S, Off)
             q == Extend(queued, Accepted(fs, old))
             pg == FinishPage(q)
             out == Extend(pending_receiver, Extend(FinishOut(q), CloseOut(pg, Changed(old, new))))
  <1>1. /\ drained \in Streams /\ Made(B) \in [Slots -> Seq(Nat)]
        /\ frames + Cardinality(B) \in 0..MaxFrames
    BY BatchType DEF Typed
  <1>2. pending_iq \in Streams /\ queued \in Streams /\ pending_receiver \in Streams
    BY DEF Typed, TypeOK, Streams
  <1>3. fs \in Streams /\ old \in [Slots -> Nat]
    BY <1>1, <1>2, ExtendType, Registry DEF Typed
  <1>4. new \in [Slots -> Nat] /\ Counted(Made(B), S, Off) \in [Slots -> Seq(Nat)]
    <2>1. new \in [Slots -> Nat]
      BY RenamedType DEF Typed, TypeOK
    <2>2. Counted(Made(B), S, Off) \in [Slots -> Seq(Nat)]
      BY <1>1, RenamedType DEF Typed, TypeOK
    <2> QED BY <2>1, <2>2
  <1> HIDE DEF fs, new, drained, old
  <1>5. out \in Streams /\ ClosePage(pg, Changed(old, new)) \in [Slots -> Nat]
    BY <1>3, FinishedType DEF Typed
  <1>6. Remembered(pending_iq, drained) \in [Slots -> SUBSET Items]
    BY <1>1, <1>2, ConsumedType DEF Typed
  <1> HIDE DEF out, pg, q
  <1>7. /\ registry' = new /\ made' = Counted(Made(B), S, Off) /\ frames' = frames + Cardinality(B)
        /\ identities' = new /\ sdr /\ pipeline /\ commands' = commands + 1 /\ commands < MaxCommands
        /\ UNCHANGED <<sdr, pipeline, publisher, shown, fence, hw>>
    BY DEF Change, Count, new
  <1>8. \/ /\ Deliver(pending_receiver, retiring)
           /\ queued' = [s \in Slots |-> IF s \in S THEN <<>> ELSE queued[s]]
           /\ UNCHANGED <<feed, receivers, failure, page, retiring, exempt, faults>>
        \/ /\ pending_iq' = fs /\ retiring' = old
           /\ UNCHANGED <<consumed, workers, exempt, faults>>
           /\ Deliver(pending_receiver, retiring')
        \/ /\ pending_iq' = fs /\ retiring' = old
           /\ consumed' = Remembered(pending_iq, drained)
           /\ queued' = Nothing /\ page' = ClosePage(pg, Changed(old, new))
           /\ receivers' = "live" /\ Deliver(out, retiring')
           /\ UNCHANGED <<failure, exempt, faults>>
        \/ /\ pending_iq' = fs /\ retiring' = old
           /\ Broken \/ Break
           /\ failure' = "pending" /\ exempt' = ids'
           /\ receivers' = IF receivers = "none" THEN "none" ELSE "stopping"
           /\ queued' = Nothing /\ page' = None /\ Forget
           /\ Deliver(Nothing, None)
    BY DEF Change, Works, Retiring, fs, new, drained, old, out, pg, q
  <1> HIDE DEF drained
  <1> DEFINE Rest == /\ receivers' \in {"none", "live", "broken", "stopping", "stopped"}
                     /\ failure' \in {"none", "pending", "published"}
                     /\ queued' \in Streams /\ page' \in [Slots -> Nat]
                     /\ pending_iq' \in Streams
                     /\ pending_receiver' \in Streams /\ retiring' \in [Slots -> Nat]
                     /\ consumed' \in [Slots -> SUBSET Items] /\ exempt' \in [Slots -> Nat]
                     /\ heard' \in Streams /\ faults' \in 0..MaxFailures
  <1>9. Rest
    <2>1. CASE /\ Deliver(pending_receiver, retiring)
               /\ queued' = [s \in Slots |-> IF s \in S THEN <<>> ELSE queued[s]]
               /\ UNCHANGED <<feed, receivers, failure, page, retiring, exempt, faults>>
      <3>1. queued' \in Streams
        <4>1. <<>> \in Seq(Items)
          OBVIOUS
        <4> QED BY <2>1, <4>1, <1>2 DEF Streams
      <3>2. heard' \in Streams /\ pending_receiver' \in Streams
        BY <2>1, <1>2, DeliverType DEF Typed
      <3> QED BY <2>1, <3>1, <3>2 DEF Typed, TypeOK, Streams, feed
    <2>2. CASE /\ pending_iq' = fs /\ retiring' = old
               /\ UNCHANGED <<consumed, workers, exempt, faults>>
               /\ Deliver(pending_receiver, retiring')
      <3>2. heard' \in Streams /\ pending_receiver' \in Streams
        BY <2>2, <1>2, DeliverType DEF Typed
      <3> QED BY <2>2, <3>2, <1>3 DEF Typed, TypeOK, Streams, workers
    <2>3. CASE /\ pending_iq' = fs /\ retiring' = old
               /\ consumed' = Remembered(pending_iq, drained)
               /\ queued' = Nothing /\ page' = ClosePage(pg, Changed(old, new))
               /\ receivers' = "live" /\ Deliver(out, retiring')
               /\ UNCHANGED <<failure, exempt, faults>>
      <3>2. heard' \in Streams /\ pending_receiver' \in Streams
        BY <2>3, <1>5, DeliverType DEF Typed
      <3> QED BY <2>3, <3>2, <1>3, <1>5, <1>6, NothingType DEF Typed, TypeOK, Streams
    <2>4. CASE /\ pending_iq' = fs /\ retiring' = old
               /\ Broken \/ Break
               /\ failure' = "pending" /\ exempt' = ids'
               /\ receivers' = IF receivers = "none" THEN "none" ELSE "stopping"
               /\ queued' = Nothing /\ page' = None /\ Forget
               /\ Deliver(Nothing, None)
      <3>1. faults' \in 0..MaxFailures
        BY <2>4, FeedAssumption DEF Broken, Break, Typed, TypeOK
      <3>2. heard' \in Streams /\ pending_receiver' \in Streams
        BY <2>4, NothingType, DeliverType DEF Typed
      <3>3. ids' \in [Slots -> Nat]
        <4>1. made' \in [Slots -> Seq(Nat)]
          BY <1>4, <1>7
        <4>2. \A s \in Slots : Len(made'[s]) \in Nat
          BY <4>1
        <4> QED BY <4>2 DEF ids
      <3> QED BY <2>4, <3>1, <3>2, <3>3, <1>3, NothingType DEF Forget
    <2> QED BY <1>8, <2>1, <2>2, <2>3, <2>4
  <1>10. /\ sdr' = TRUE /\ pipeline' = TRUE /\ commands' \in 0..MaxCommands
         /\ pc' \in {"poll", "finish", "drain", "send"} /\ hand' \in [Slots -> Seq(Items)] /\ stale' \in BOOLEAN
         /\ shown' \in [Slots -> Seq(Items)] /\ fence' \in [Slots -> Nat] /\ hw' \in 0..MaxFailures
    BY <1>7, FeedAssumption DEF Typed, TypeOK, publisher
  <1>11. /\ registry' \in [Slots -> Nat] /\ identities' \in [Slots -> Nat]
         /\ made' \in [Slots -> Seq(Nat)] /\ frames' \in 0..MaxFrames
    BY <1>1, <1>4, <1>7
  <1> QED BY <1>9, <1>10, <1>11 DEF TypeOK, Streams

LEMMA ChangeStoppedTypes ==
  ASSUME Typed, ChangeStopped PROVE TypeOK'
  <1>1. pending_iq \in Streams /\ queued \in Streams /\ pending_receiver \in Streams /\ page \in [Slots -> Nat]
    BY DEF Typed, TypeOK, Streams
  <1>2. heard' \in Streams /\ pending_receiver' \in Streams
    <2>1. \E adm : Deliver(pending_receiver, adm)
      BY DEF ChangeStopped
    <2> QED BY <2>1, <1>1, DeliverType DEF Typed
  <1>3. /\ identities' = None /\ commands' = commands + 1 /\ commands < MaxCommands
        /\ UNCHANGED <<device, pending_iq, publisher, made, shown, fence, frames, hw>>
    BY DEF ChangeStopped
  <1>4. \/ UNCHANGED <<consumed, workers, retiring, exempt, faults>>
        \/ /\ retiring' = None
           /\ page' = FinishPage(queued) /\ queued' = Nothing
           /\ consumed' = Remembered(pending_iq, Nothing)
           /\ UNCHANGED <<receivers, failure, exempt, faults>>
        \/ retiring' = None /\ (Broken \/ Break) /\ Latch /\ Forget
        \/ retiring' = None /\ UNCHANGED <<consumed, workers, exempt, faults>>
    BY DEF ChangeStopped, Works
  <1>5. FinishPage(queued) \in [Slots -> Nat] /\ Remembered(pending_iq, Nothing) \in [Slots -> SUBSET Items]
    BY <1>1, FinishType, ConsumedType, NothingType DEF Typed
  <1> DEFINE Rest == /\ receivers' \in {"none", "live", "broken", "stopping", "stopped"}
                     /\ failure' \in {"none", "pending", "published"}
                     /\ queued' \in Streams /\ page' \in [Slots -> Nat]
                     /\ retiring' \in [Slots -> Nat]
                     /\ consumed' \in [Slots -> SUBSET Items] /\ exempt' \in [Slots -> Nat]
                     /\ faults' \in 0..MaxFailures
  <1>6. Rest
    <2>1. CASE UNCHANGED <<consumed, workers, retiring, exempt, faults>>
      BY <2>1 DEF Typed, TypeOK, Streams, workers
    <2>2. CASE /\ retiring' = None
               /\ page' = FinishPage(queued) /\ queued' = Nothing
               /\ consumed' = Remembered(pending_iq, Nothing)
               /\ UNCHANGED <<receivers, failure, exempt, faults>>
      BY <2>2, <1>5, NothingType DEF Typed, TypeOK, Streams
    <2>3. CASE retiring' = None /\ (Broken \/ Break) /\ Latch /\ Forget
      <3>1. faults' \in 0..MaxFailures
        BY <2>3, FeedAssumption DEF Broken, Break, Typed, TypeOK
      <3>2. ids \in [Slots -> Nat]
        BY IdsType DEF Typed
      <3> QED BY <2>3, <3>1, <3>2, NothingType DEF Latch, Forget
    <2>4. CASE retiring' = None /\ UNCHANGED <<consumed, workers, exempt, faults>>
      BY <2>4, NothingType DEF Typed, TypeOK, Streams, workers
    <2> QED BY <1>4, <2>1, <2>2, <2>3, <2>4
  <1>7. /\ sdr' \in BOOLEAN /\ pipeline' \in BOOLEAN /\ (pipeline' => sdr')
        /\ registry' \in [Slots -> Nat] /\ identities' \in [Slots -> Nat]
        /\ pending_iq' \in [Slots -> Seq(Items)]
        /\ pc' \in {"poll", "finish", "drain", "send"} /\ hand' \in [Slots -> Seq(Items)] /\ stale' \in BOOLEAN
    BY <1>3, NothingType DEF Typed, TypeOK, device, publisher
  <1>8. /\ made' \in [Slots -> Seq(Nat)] /\ shown' \in [Slots -> Seq(Items)]
        /\ fence' \in [Slots -> Nat] /\ frames' \in 0..MaxFrames
        /\ commands' \in 0..MaxCommands /\ hw' \in 0..MaxFailures
    BY <1>3, FeedAssumption DEF Typed, TypeOK
  <1> QED BY <1>2, <1>6, <1>7, <1>8 DEF TypeOK, Streams

LEMMA RestartTypes ==
  ASSUME Typed, NEW B \in Batches, Restart(B) PROVE TypeOK'
  <1> DEFINE Off == {s \in Slots : registry[s] = 0}
  <1>1. /\ Batch(B) \in Streams /\ Made(B) \in [Slots -> Seq(Nat)]
        /\ frames + Cardinality(B) \in 0..MaxFrames
    BY BatchType DEF Typed
  <1>2. pending_iq \in Streams /\ pending_receiver \in Streams
    BY DEF Typed, TypeOK, Streams
  <1>3. Extend(pending_iq, Batch(B)) \in Streams
    BY <1>1, <1>2, ExtendType
  <1>4. Renamed(registry, made, Slots, Off) \in [Slots -> Nat]
    BY RenamedType DEF Typed, TypeOK
  <1>5. Counted(Made(B), Slots, Off) \in [Slots -> Seq(Nat)]
    BY <1>1, RenamedType DEF Typed, TypeOK
  <1>6. heard' \in Streams /\ pending_receiver' \in Streams
    <2>1. \E adm : Deliver(pending_receiver, adm)
      BY DEF Restart
    <2> QED BY <2>1, <1>2, DeliverType DEF Typed
  <1>7. ids \in [Slots -> Nat]
    BY IdsType DEF Typed
  <1> HIDE DEF Off
  <1>8. /\ sdr /\ commands' = commands + 1 /\ commands < MaxCommands
        /\ receivers' = "none" /\ failure' = "none" /\ consumed' = [s \in Slots |-> {}]
        /\ exempt' = ids /\ identities' = registry'
        /\ UNCHANGED <<sdr, pipeline, queued, page, publisher, shown, fence, hw, faults>>
    BY DEF Restart, Forget
  <1>9. \/ /\ registry' = Renamed(registry, made, Slots, Off)
           /\ made' = Counted(Made(B), Slots, Off) /\ frames' = frames + Cardinality(B)
           /\ pending_iq' = Extend(pending_iq, Batch(B))
           /\ retiring' \in {registry, retiring}
        \/ UNCHANGED <<registry, made, frames, pending_iq, retiring>>
    BY DEF Restart, Count, Off
  <1>10. /\ registry' \in [Slots -> Nat] /\ made' \in [Slots -> Seq(Nat)]
         /\ frames' \in 0..MaxFrames /\ pending_iq' \in Streams /\ retiring' \in [Slots -> Nat]
    BY <1>1, <1>3, <1>4, <1>5, <1>9 DEF Typed, TypeOK, Streams
  <1> QED BY <1>6, <1>7, <1>8, <1>10, NothingType, FeedAssumption, SMTT(20) DEF Typed, TypeOK, Streams, publisher

LEMMA LeaveTypes ==
  ASSUME Typed, NEW B \in Batches, LeaveSdr(B) PROVE TypeOK'
  <1> DEFINE fs == Extend(pending_iq, Batch(B))
             old == stream_registry
             q == Extend(queued, Accepted(fs, old))
             out == Extend(pending_receiver, Extend(FinishOut(q), CloseOut(FinishPage(q), Slots)))
  <1>1. /\ Batch(B) \in Streams /\ Made(B) \in [Slots -> Seq(Nat)]
        /\ frames + Cardinality(B) \in 0..MaxFrames
    BY BatchType DEF Typed
  <1>2. pending_iq \in Streams /\ pending_receiver \in Streams
    BY DEF Typed, TypeOK, Streams
  <1>3. fs \in Streams /\ old \in [Slots -> Nat]
    BY <1>1, <1>2, ExtendType, Registry DEF Typed
  <1> HIDE DEF fs, old
  <1>4. out \in Streams
    BY <1>3, FinishedType DEF Typed
  <1> HIDE DEF q, out
  <1>5. heard' \in Streams /\ pending_receiver' \in Streams
    <2>1. \E adm : Deliver(pending_receiver, adm) \/ Deliver(out, adm)
      BY DEF LeaveSdr, fs, old, q, out
    <2> QED BY <2>1, <1>2, <1>4, DeliverType DEF Typed
  <1>6. /\ pipeline' = FALSE /\ registry' = None /\ made' = Made(B) /\ frames' = frames + Cardinality(B)
        /\ commands' = commands + 1 /\ commands < MaxCommands /\ NewEpoch
        /\ pending_iq' = Nothing /\ identities' = None
        /\ UNCHANGED <<pc, hand, shown, hw>>
    BY DEF LeaveSdr, Count, Retained
  <1>7. ids' \in [Slots -> Nat] /\ ids \in [Slots -> Nat]
    <2>1. \A s \in Slots : Len(made'[s]) \in Nat
      BY <1>1, <1>6
    <2> QED BY <2>1, IdsType DEF ids, Typed
  <1>8. /\ sdr' \in BOOLEAN
        /\ receivers' \in {"none", "live", "broken", "stopping", "stopped"}
        /\ failure' \in {"none", "pending", "published"}
        /\ \/ UNCHANGED <<queued, page>>
           \/ queued' = Nothing /\ page' = None
        /\ retiring' \in {old, retiring}
        /\ consumed' \in {consumed, [s \in Slots |-> {}]}
        /\ exempt' \in {exempt, ids'}
        /\ \/ UNCHANGED faults \/ Broken \/ Break
    <2>1. \/ /\ sdr' = FALSE /\ failure' = "none" /\ Forget
             /\ receivers' \in {"live", receivers}
             /\ queued' = Nothing /\ page' = None
             /\ retiring' \in {old, retiring} /\ UNCHANGED <<exempt, faults>>
          \/ /\ sdr' = FALSE /\ failure' = "none" /\ Forget
             /\ receivers' = "none" /\ exempt' = ids'
             /\ UNCHANGED <<queued, page, retiring, faults>>
          \/ /\ Broken \/ Break
             /\ receivers' \in {"none", "broken"}
             /\ queued' = Nothing /\ page' = None /\ exempt' = ids'
             /\ retiring' \in {old, retiring}
             /\ UNCHANGED <<sdr, failure, consumed>>
      <3> DEFINE A1 == /\ failure = "none" /\ Works
                       /\ sdr' = FALSE /\ failure' = "none" /\ Forget
                       /\ receivers' = IF fs # Nothing THEN "live" ELSE receivers
                       /\ queued' = Nothing /\ page' = None
                       /\ retiring' = IF receivers' = "none" THEN retiring ELSE old
                       /\ UNCHANGED exempt
                 A2 == /\ sdr' = FALSE /\ failure' = "none" /\ Forget
                       /\ receivers' = "none" /\ exempt' = ids'
                       /\ UNCHANGED <<queued, page, retiring, faults>>
                 A3 == /\ Broken \/ Break
                       /\ receivers' \in IF receivers = "none" THEN {"none", "broken"} ELSE {"broken"}
                       /\ queued' = Nothing /\ page' = None /\ exempt' = ids'
                       /\ retiring' = retiring \/ retiring' = old
                       /\ UNCHANGED <<sdr, failure, consumed>>
      <3>1. A1 \/ A2 \/ A3
        BY DEF LeaveSdr, fs, old
      <3>2. A1 => UNCHANGED faults
        BY DEF Works
      <3> QED BY <3>1, <3>2
    <2> QED BY <2>1 DEF Forget, Typed, TypeOK
  <1>9. faults' \in 0..MaxFailures
    BY <1>8, FeedAssumption DEF Broken, Break, Typed, TypeOK
  <1>10. stale' \in BOOLEAN /\ fence' \in [Slots -> Nat]
    BY <1>6, <1>7 DEF NewEpoch
  <1>11. /\ queued' \in Streams /\ page' \in [Slots -> Nat] /\ retiring' \in [Slots -> Nat]
         /\ consumed' \in [Slots -> SUBSET Items] /\ exempt' \in [Slots -> Nat]
    BY <1>3, <1>7, <1>8, NothingType DEF Typed, TypeOK, Streams
  <1>12. /\ registry' \in [Slots -> Nat] /\ identities' \in [Slots -> Nat] /\ pending_iq' \in Streams
         /\ pipeline' = FALSE /\ made' \in [Slots -> Seq(Nat)] /\ frames' \in 0..MaxFrames
    BY <1>1, <1>6, NothingType
  <1>13. /\ pc' \in {"poll", "finish", "drain", "send"} /\ hand' \in [Slots -> Seq(Items)]
         /\ shown' \in [Slots -> Seq(Items)] /\ hw' \in 0..MaxFailures /\ commands' \in 0..MaxCommands
    BY <1>6, FeedAssumption DEF Typed, TypeOK
  <1> QED BY <1>5, <1>8, <1>9, <1>10, <1>11, <1>12, <1>13 DEF TypeOK, Streams

LEMMA LeaveFailedTypes ==
  ASSUME Typed, LeaveFailed PROVE TypeOK'
  <1>1. pending_receiver \in Streams
    BY DEF Typed, TypeOK, Streams
  <1>2. heard' \in Streams /\ pending_receiver' \in Streams
    BY <1>1, DeliverType DEF Typed, LeaveFailed
  <1>3. stale' \in BOOLEAN /\ fence' \in [Slots -> Nat]
    BY IdsType DEF NewEpoch, LeaveFailed, Typed
  <1>4. hw' \in 0..MaxFailures /\ receivers' \in {"none", receivers}
    BY FeedAssumption DEF LeaveFailed, Typed, TypeOK
  <1>5. /\ pipeline' = FALSE /\ registry' = None /\ identities' = None
        /\ commands' = commands + 1 /\ commands < MaxCommands
        /\ UNCHANGED <<sdr, feed, failure, queued, page, retiring, pc, hand,
                       made, shown, exempt, frames, faults>>
    BY DEF LeaveFailed
  <1>6. /\ registry' \in [Slots -> Nat] /\ identities' \in [Slots -> Nat]
        /\ pipeline' = FALSE /\ sdr' \in BOOLEAN
        /\ pending_iq' \in [Slots -> Seq(Items)] /\ consumed' \in [Slots -> SUBSET Items]
        /\ receivers' \in {"none", "live", "broken", "stopping", "stopped"}
        /\ failure' \in {"none", "pending", "published"}
        /\ retiring' \in [Slots -> Nat] /\ queued' \in [Slots -> Seq(Items)] /\ page' \in [Slots -> Nat]
    BY <1>4, <1>5, NothingType DEF Typed, TypeOK, feed
  <1>7. /\ pc' \in {"poll", "finish", "drain", "send"}
        /\ hand' \in [Slots -> Seq(Items)] /\ shown' \in [Slots -> Seq(Items)]
        /\ made' \in [Slots -> Seq(Nat)] /\ exempt' \in [Slots -> Nat]
        /\ frames' \in 0..MaxFrames /\ faults' \in 0..MaxFailures /\ commands' \in 0..MaxCommands
    BY <1>5, FeedAssumption DEF Typed, TypeOK
  <1> QED BY <1>2, <1>3, <1>4, <1>6, <1>7 DEF TypeOK, Streams

LEMMA EnterTypes ==
  ASSUME Typed, EnterSdr PROVE TypeOK'
  <1> DEFINE pg == FinishPage(queued)
             out == Extend(pending_receiver, Extend(FinishOut(queued), CloseOut(pg, Slots)))
  <1>1. pending_receiver \in Streams /\ queued \in Streams /\ page \in [Slots -> Nat]
    BY DEF Typed, TypeOK, Streams
  <1>2. FinishOut(queued) \in Streams /\ pg \in [Slots -> Nat]
    BY <1>1, FinishType
  <1> HIDE DEF pg
  <1>3. CloseOut(pg, Slots) \in Streams
    BY <1>2, CloseType
  <1>4. Extend(FinishOut(queued), CloseOut(pg, Slots)) \in Streams
    BY <1>2, <1>3, ExtendType
  <1>5. out \in Streams
    BY <1>1, <1>4, ExtendType
  <1> HIDE DEF out
  <1>6. Deliver(out, retiring')
    BY DEF EnterSdr, out, pg
  <1>7. heard' \in Streams /\ pending_receiver' \in Streams
    BY <1>5, <1>6, DeliverType DEF Typed
  <1>8. ids \in [Slots -> Nat]
    BY IdsType DEF Typed
  <1>9. stale' \in BOOLEAN /\ fence' \in [Slots -> Nat] /\ exempt' \in [Slots -> Nat]
    BY <1>8 DEF NewEpoch, EnterSdr, Typed, TypeOK
  <1>10. receivers' \in {"none", receivers} /\ retiring' \in {None, retiring} /\ consumed' = [s \in Slots |-> {}]
    BY DEF EnterSdr, Forget
  <1> QED BY <1>7, <1>9, <1>10, NothingType, FeedAssumption DEF EnterSdr, Typed, TypeOK, Streams

LEMMA TypePreserved ==
  ASSUME Typed, [Next]_vars PROVE TypeOK'
  <1>1. CASE Publisher \/ Stop
    BY <1>1, StartTypes, PollTypes, FailedPublisherTypes, DrainTypes, QuietTypes DEF Publisher
  <1>2. CASE Command
    <2>1. \E S, Off : \E B \in Batches : Change(S, Off, B)
      BY <1>2 DEF Command
    <2> QED BY <2>1, ChangeTypes
  <1>3. CASE ChangeStopped \/ LeaveFailed \/ EnterSdr
    BY <1>3, ChangeStoppedTypes, LeaveFailedTypes, EnterTypes
  <1>4. CASE \E B \in Batches : Restart(B) \/ LeaveSdr(B)
    BY <1>4, RestartTypes, LeaveTypes
  <1>5. CASE UNCHANGED vars
    BY <1>5 DEF vars, device, feed, workers, output, publisher, history, bounds, Typed, TypeOK
  <1> QED BY <1>1, <1>2, <1>3, <1>4, <1>5 DEF Next
-----------------------------------------------------------------------------
(* What a step does to the frames made of a slot and to its identity: it   *)
(* makes the frames b, one of the current identity or none, and the        *)
(* identity stays, is taken away or is replaced by the next one.           *)
Adds(s, b) ==
  \/ b = <<>> /\ \A id \in 1..ids[s] : made'[s][id] = made[s][id]
  \/ /\ registry[s] # 0 /\ b = <<Item(registry[s], made[s][registry[s]] + 1)>>
     /\ \A id \in 1..ids[s] :
          made'[s][id] = IF id = registry[s] THEN made[s][id] + 1 ELSE made[s][id]
Names(s) ==
  \/ ids'[s] = ids[s] /\ registry'[s] \in {0, registry[s]}
  \/ ids'[s] = ids[s] + 1 /\ registry'[s] = ids'[s] /\ made'[s][ids'[s]] = 0
Advance(s, b) == Adds(s, b) /\ Names(s)

LEMMA AdvanceCounts ==
  ASSUME Typed, TypeOK', NEW s \in Slots, NEW b, Advance(s, b)
  PROVE  /\ ids[s] \in Nat /\ ids'[s] \in Nat /\ ids'[s] \in {ids[s], ids[s] + 1} /\ ids[s] <= ids'[s]
         /\ registry[s] \in Nat /\ registry'[s] \in Nat
         /\ registry[s] # 0 => registry[s] = ids[s] /\ registry[s] \in 1..ids[s]
         /\ registry'[s] # 0 => registry'[s] = ids'[s]
         /\ \A id \in 1..ids[s] :
              /\ made[s][id] \in Nat /\ made'[s][id] \in Nat /\ made[s][id] <= made'[s][id]
              /\ id # registry[s] => made'[s][id] = made[s][id]
         /\ \A id \in 1..ids'[s] : made'[s][id] \in Nat
  <1>1. ids[s] \in Nat /\ \A id \in 1..ids[s] : made[s][id] \in Nat
    BY IdsType DEF Typed
  <1>2. ids'[s] \in Nat /\ \A id \in 1..ids'[s] : made'[s][id] \in Nat
    <2>1. made'[s] \in Seq(Nat) /\ ids'[s] = Len(made'[s])
      BY DEF TypeOK, ids
    <2> QED BY <2>1, ElementOfSeq
  <1>3. registry[s] \in Nat /\ registry'[s] \in Nat /\ (registry[s] # 0 => registry[s] = ids[s])
    BY DEF Typed, TypeOK, Given
  <1>4. ids'[s] \in {ids[s], ids[s] + 1} /\ (registry'[s] # 0 => registry'[s] = ids'[s])
    BY <1>3 DEF Advance, Names
  <1>5. ASSUME NEW id \in 1..ids[s]
        PROVE  /\ made'[s][id] \in Nat /\ made[s][id] <= made'[s][id]
               /\ id # registry[s] => made'[s][id] = made[s][id]
    <2>1. made[s][id] \in Nat
      BY <1>1
    <2>2. made'[s][id] \in {made[s][id], made[s][id] + 1} /\ (id # registry[s] => made'[s][id] = made[s][id])
      BY DEF Advance, Adds
    <2> QED BY <2>1, <2>2
  <1> QED BY <1>1, <1>2, <1>3, <1>4, <1>5

LEMMA KnownGrows ==
  ASSUME Typed, TypeOK', NEW s \in Slots, NEW b, Advance(s, b)
  PROVE  Known(s) \subseteq Known(s)' /\ Frames(s) \subseteq Frames(s)' /\ Known(s)' \subseteq Items
  <1>1. ASSUME NEW i \in Known(s) PROVE i \in Known(s)'
    <2>1. i \in Items /\ i.id <= ids[s] /\ i.n <= made[s][i.id]
      BY DEF Known
    <2>2. i.id \in Nat \ {0} /\ i.n \in Nat
      BY <2>1, ItemFacts
    <2>3. i.id \in 1..ids[s]
      BY <2>1, <2>2, AdvanceCounts
    <2>4. ids[s] \in Nat /\ ids'[s] \in Nat /\ ids[s] <= ids'[s]
          /\ made[s][i.id] \in Nat /\ made'[s][i.id] \in Nat /\ made[s][i.id] <= made'[s][i.id]
      BY <2>3, AdvanceCounts
    <2>5. i.id <= ids'[s] /\ i.n <= made'[s][i.id]
      BY <2>1, <2>2, <2>4
    <2> QED BY <2>1, <2>5 DEF Known
  <1> QED BY <1>1 DEF Frames, Known

LEMMA AdvanceFrames ==
  ASSUME Typed, TypeOK', NEW s \in Slots, NEW b, Advance(s, b)
  PROVE  /\ b \in Seq(Frames(s)') /\ b \in Seq(Items)
         /\ \A i \in 1..Len(b) : b[i].id = registry[s] /\ b[i] \notin Known(s)
         /\ registry[s] = 0 => b = <<>>
         /\ registry[s] # 0 => Whole(registry[s], made[s][registry[s]]) \o b
                                 = Whole(registry[s], made'[s][registry[s]])
         /\ \A i \in 1..Len(b) : b[i] \in Items /\ b[i].n = made[s][registry[s]] + 1
  <1> DEFINE r == registry[s]
             f == Item(r, made[s][r] + 1)
  <1>1. CASE b = <<>> /\ \A id \in 1..ids[s] : made'[s][id] = made[s][id]
    <2>1. r # 0 => Whole(r, made[s][r]) \o b = Whole(r, made'[s][r])
      <3> SUFFICES ASSUME r # 0 PROVE Whole(r, made[s][r]) \o b = Whole(r, made'[s][r])
        OBVIOUS
      <3>1. r \in Nat \ {0} /\ r \in 1..ids[s] /\ made[s][r] \in Nat
        BY AdvanceCounts
      <3>2. made'[s][r] = made[s][r]
        BY <1>1, <3>1
      <3>3. Whole(r, made[s][r]) \in Seq(Items)
        BY <3>1, WholeType
      <3> QED BY <1>1, <3>2, <3>3, ConcatEmptySeq
    <2> QED BY <1>1, <2>1
  <1>2. CASE /\ r # 0 /\ b = <<f>>
             /\ \A id \in 1..ids[s] : made'[s][id] = IF id = r THEN made[s][id] + 1 ELSE made[s][id]
    <2>1. /\ r \in Nat \ {0} /\ r \in 1..ids[s] /\ made[s][r] \in Nat /\ ids[s] \in Nat /\ ids'[s] \in Nat
          /\ ids[s] <= ids'[s]
      BY <1>2, AdvanceCounts
    <2>2. made'[s][r] = made[s][r] + 1
      BY <1>2, <2>1
    <2>3. f \in Items /\ f.id = r /\ f.n = made[s][r] + 1
      BY <2>1, ItemFacts
    <2>4. f \in Frames(s)'
      <3>1. f.id <= ids'[s] /\ f.n <= made'[s][f.id] /\ f.n # 0
        BY <2>1, <2>2, <2>3
      <3> QED BY <3>1, <2>3 DEF Frames, Known
    <2>5. f \notin Known(s)
      <3>1. ~(f.n <= made[s][f.id])
        BY <2>1, <2>3
      <3> QED BY <3>1 DEF Known
    <2>6. Whole(r, made[s][r] + 1) = Whole(r, made[s][r]) \o <<f>>
      BY <2>1, WholeNext
    <2> HIDE DEF f
    <2>7. Len(b) = 1 /\ b[1] = f
      BY <1>2
    <2>8. b \in Seq(Frames(s)') /\ b \in Seq(Items)
      BY <1>2, <2>3, <2>4
    <2> QED BY <1>2, <2>2, <2>3, <2>5, <2>6, <2>7, <2>8
  <1> QED BY <1>1, <1>2 DEF Advance, Adds

LEMMA AdvanceOf ==
  ASSUME Typed, TypeOK', NEW s \in Slots, NEW b, Advance(s, b)
  PROVE  /\ Of(b, registry[s]) = b
         /\ \A id : id # registry[s] => Of(b, id) = <<>>
  <1>1. b \in Seq(Items) /\ \A i \in 1..Len(b) : b[i].id = registry[s]
    BY AdvanceFrames
  <1>2. Of(b, registry[s]) = b
    BY <1>1, OfAll
  <1>3. ASSUME NEW id, id # registry[s] PROVE Of(b, id) = <<>>
    BY <1>1, <1>3, OfNone
  <1> QED BY <1>2, <1>3

(* How the actions advance a slot.                                         *)
LEMMA AdvanceNot ==
  ASSUME Typed, NEW s \in Slots, made' = made, registry'[s] \in {0, registry[s]}
  PROVE  Advance(s, <<>>)
  BY DEF Advance, Adds, Names, ids

LEMMA MadeAdds ==
  ASSUME Typed, NEW s \in Slots, NEW B \in Batches,
         \A id \in 1..ids[s] : made'[s][id] = Made(B)[s][id]
  PROVE  Adds(s, Batch(B)[s])
  <1>1. CASE s \in B
    <2>1. registry[s] # 0
      BY <1>1, BatchType DEF Typed
    <2>2. Batch(B)[s] = <<Item(registry[s], made[s][registry[s]] + 1)>>
      BY <1>1 DEF Batch
    <2>3. Made(B)[s] = [made[s] EXCEPT ![registry[s]] = @ + 1]
      BY <1>1 DEF Made
    <2>4. made[s] \in Seq(Nat) /\ DOMAIN made[s] = 1..ids[s]
      <3>1. made[s] \in Seq(Nat) /\ ids[s] = Len(made[s])
        BY IdsType DEF Typed
      <3> QED BY <3>1
    <2>5. \A id \in 1..ids[s] : Made(B)[s][id] = IF id = registry[s] THEN made[s][id] + 1 ELSE made[s][id]
      BY <2>3, <2>4
    <2> QED BY <2>1, <2>2, <2>5 DEF Adds
  <1>2. CASE s \notin B
    <2>1. Batch(B)[s] = <<>> /\ Made(B)[s] = made[s]
      BY <1>2 DEF Batch, Made
    <2> QED BY <2>1 DEF Adds
  <1> QED BY <1>1, <1>2

LEMMA AdvanceMade ==
  ASSUME Typed, NEW s \in Slots, NEW B \in Batches, made' = Made(B), registry'[s] \in {0, registry[s]}
  PROVE  Advance(s, Batch(B)[s])
  <1>1. Adds(s, Batch(B)[s])
    BY MadeAdds
  <1>2. Len(Made(B)[s]) = ids[s]
    BY BatchType DEF Typed
  <1>3. ids'[s] = ids[s]
    BY <1>2 DEF ids
  <1> QED BY <1>1, <1>3 DEF Advance, Names

LEMMA AdvanceNamed ==
  ASSUME Typed, NEW s \in Slots, NEW m \in [Slots -> Seq(Nat)], Len(m[s]) = ids[s], NEW S, NEW Off,
         NEW reg \in [Slots -> Nat], reg[s] = registry[s],
         registry' = Renamed(reg, made, S, Off), made' = Counted(m, S, Off)
  PROVE  Names(s) /\ (\A id \in 1..ids[s] : made'[s][id] = m[s][id])
         /\ registry'[s] = IF s \in Off THEN 0 ELSE IF s \in S THEN ids[s] + 1 ELSE registry[s]
  <1>1. registry'[s] = IF s \in Off THEN 0 ELSE IF s \in S THEN ids[s] + 1 ELSE registry[s]
    BY DEF Renamed, ids
  <1>2. made'[s] = IF s \in S \ Off THEN Append(m[s], 0) ELSE m[s]
    BY DEF Counted
  <1>3. ids'[s] = Len(made'[s]) /\ m[s] \in Seq(Nat) /\ ids[s] \in Nat
    BY IdsType DEF ids, Typed
  <1>4. CASE s \in S \ Off
    <2>1. /\ Len(Append(m[s], 0)) = ids[s] + 1 /\ Append(m[s], 0)[ids[s] + 1] = 0
          /\ \A id \in 1..ids[s] : Append(m[s], 0)[id] = m[s][id]
      BY <1>3
    <2>2. /\ ids'[s] = ids[s] + 1 /\ made'[s][ids[s] + 1] = 0
          /\ \A id \in 1..ids[s] : made'[s][id] = m[s][id]
      BY <1>2, <1>3, <1>4, <2>1
    <2> QED BY <1>1, <1>4, <2>2 DEF Names
  <1>5. CASE s \notin S \ Off
    <2>1. made'[s] = m[s] /\ ids'[s] = ids[s]
      BY <1>2, <1>3, <1>5
    <2> QED BY <1>1, <1>5, <2>1 DEF Names
  <1> QED BY <1>4, <1>5, <1>1

LEMMA AdvanceChanged ==
  ASSUME Typed, NEW s \in Slots, NEW B \in Batches, NEW S, NEW Off,
         registry' = Renamed(registry, made, S, Off), made' = Counted(Made(B), S, Off)
  PROVE  /\ Advance(s, Batch(B)[s])
         /\ registry'[s] = IF s \in Off THEN 0 ELSE IF s \in S THEN ids[s] + 1 ELSE registry[s]
  <1>1. Made(B) \in [Slots -> Seq(Nat)] /\ Len(Made(B)[s]) = ids[s]
    BY BatchType DEF Typed
  <1>2. registry \in [Slots -> Nat]
    BY DEF Typed, TypeOK
  <1>3. /\ Names(s) /\ (\A id \in 1..ids[s] : made'[s][id] = Made(B)[s][id])
        /\ registry'[s] = IF s \in Off THEN 0 ELSE IF s \in S THEN ids[s] + 1 ELSE registry[s]
    BY <1>1, <1>2, AdvanceNamed
  <1>4. Adds(s, Batch(B)[s])
    BY <1>3, MadeAdds
  <1> QED BY <1>3, <1>4 DEF Advance

LEMMA AdvanceStarted ==
  ASSUME Typed, Start, NEW s \in Slots
  PROVE  /\ registry[s] = 0 /\ Advance(s, <<>>) /\ registry'[s] \in {0, ids[s] + 1}
  <1>1. registry[s] = 0
    BY NothingType DEF Start, Typed, Control
  <1>2. PICK Off \in SUBSET (Slots \ {1}) :
            registry' = Renamed(None, made, Slots, Off) /\ made' = Counted(made, Slots, Off)
    BY DEF Start
  <1>3. /\ made \in [Slots -> Seq(Nat)] /\ Len(made[s]) = ids[s]
        /\ None \in [Slots -> Nat] /\ None[s] = registry[s]
    BY <1>1, NothingType, IdsType DEF Typed, TypeOK
  <1>4. /\ Names(s) /\ (\A id \in 1..ids[s] : made'[s][id] = made[s][id])
        /\ registry'[s] = IF s \in Off THEN 0 ELSE IF s \in Slots THEN ids[s] + 1 ELSE registry[s]
    BY <1>2, <1>3, AdvanceNamed
  <1> QED BY <1>1, <1>4 DEF Advance, Adds
-----------------------------------------------------------------------------
(* The IQ clients' line.                                                   *)

LEMMA IncreasingConcat ==
  ASSUME NEW a \in Seq(Items), NEW b \in Seq(Items)
  PROVE  Increasing(a \o b) <=> /\ Increasing(a) /\ Increasing(b)
                                /\ \A i \in 1..Len(a), j \in 1..Len(b) : Precedes(a[i], b[j])
  <1> DEFINE c == a \o b
             n == Len(a)
  <1>1. /\ Len(c) = n + Len(b) /\ n \in Nat /\ Len(b) \in Nat
        /\ \A i \in 1..n : c[i] = a[i]
        /\ \A i \in 1..Len(b) : c[n + i] = b[i]
        /\ \A i \in 1..Len(c) : i \in 1..n \/ i - n \in 1..Len(b)
    BY ConcatElements
  <1> HIDE DEF c, n
  <1>2. ASSUME Increasing(c)
        PROVE  /\ Increasing(a) /\ Increasing(b)
               /\ \A i \in 1..n, j \in 1..Len(b) : Precedes(a[i], b[j])
    <2>1. \A i \in 1..n : i \in 1..Len(c)
      BY <1>1
    <2>2. \A i \in 1..Len(b) : n + i \in 1..Len(c) /\ i \in Nat
      BY <1>1
    <2>3. \A i, j \in 1..n : i < j => Precedes(a[i], a[j])
      BY <1>1, <1>2, <2>1 DEF Increasing
    <2>4. ASSUME NEW i \in 1..Len(b), NEW j \in 1..Len(b), i < j PROVE Precedes(b[i], b[j])
      <3>1. n + i < n + j /\ n + i \in 1..Len(c) /\ n + j \in 1..Len(c)
        BY <1>1, <2>2, <2>4
      <3>2. Precedes(c[n + i], c[n + j])
        BY <3>1, <1>2 DEF Increasing
      <3> QED BY <3>2, <1>1
    <2>5. ASSUME NEW i \in 1..n, NEW j \in 1..Len(b) PROVE Precedes(a[i], b[j])
      <3>1. i < n + j /\ i \in 1..Len(c) /\ n + j \in 1..Len(c)
        BY <1>1, <2>1, <2>2
      <3>2. Precedes(c[i], c[n + j])
        BY <3>1, <1>2 DEF Increasing
      <3> QED BY <3>2, <1>1
    <2> QED BY <2>3, <2>4, <2>5 DEF Increasing, n
  <1>3. ASSUME Increasing(a), Increasing(b),
               \A i \in 1..n, j \in 1..Len(b) : Precedes(a[i], b[j])
        PROVE  Increasing(c)
    <2> SUFFICES ASSUME NEW i \in 1..Len(c), NEW j \in 1..Len(c), i < j
                 PROVE  Precedes(c[i], c[j])
      BY DEF Increasing
    <2>1. CASE i \in 1..n /\ j \in 1..n
      BY <1>1, <1>3, <2>1 DEF Increasing, n
    <2>2. CASE i \in 1..n /\ j \notin 1..n
      <3>1. j - n \in 1..Len(b) /\ n + (j - n) = j
        BY <1>1, <2>2
      <3>2. c[j] = b[j - n] /\ c[i] = a[i]
        BY <1>1, <2>2, <3>1
      <3>3. Precedes(a[i], b[j - n])
        BY <1>3, <2>2, <3>1
      <3> QED BY <3>2, <3>3
    <2>3. CASE i \notin 1..n
      <3>1. i - n \in 1..Len(b) /\ n + (i - n) = i /\ j - n \in 1..Len(b) /\ n + (j - n) = j /\ i - n < j - n
        BY <1>1, <2>3
      <3>2. c[j] = b[j - n] /\ c[i] = b[i - n]
        BY <1>1, <3>1
      <3>3. Precedes(b[i - n], b[j - n])
        BY <1>3, <3>1 DEF Increasing
      <3> QED BY <3>2, <3>3
    <2> QED BY <2>1, <2>2, <2>3
  <1> QED BY <1>2, <1>3 DEF c, n

LEMMA LineTyped ==
  ASSUME NEW s \in Slots, Exist(s)
  PROVE  /\ shown[s] \in Seq(Frames(s)) /\ Held(s) \in Seq(Frames(s)) /\ pending_iq[s] \in Seq(Frames(s))
         /\ shown[s] \o Held(s) \in Seq(Frames(s))
         /\ IqLine(s) \in Seq(Frames(s)) /\ IqLine(s) \in Seq(Items)
         /\ \A i \in 1..Len(IqLine(s)) : IqLine(s)[i] \in Frames(s)
         /\ Frames(s) \subseteq Items
  <1>1. shown[s] \in Seq(Frames(s)) /\ Held(s) \in Seq(Frames(s)) /\ pending_iq[s] \in Seq(Frames(s))
    <2>1. <<>> \in Seq(Frames(s))
      OBVIOUS
    <2> QED BY <2>1 DEF Exist, Held
  <1>2. shown[s] \o Held(s) \in Seq(Frames(s))
    BY <1>1, ConcatElements
  <1>3. IqLine(s) \in Seq(Frames(s))
    BY <1>1, <1>2, ConcatElements DEF IqLine
  <1>4. Frames(s) \subseteq Items
    BY DEF Frames, Known
  <1> QED BY <1>1, <1>2, <1>3, <1>4, SeqMonotone, ElementOfSeq

IqInOrder(s) ==
  /\ Increasing(IqLine(s))
  /\ registry[s] # 0 => Of(IqLine(s), registry[s]) = Whole(registry[s], made[s][registry[s]])

(* Elements of what exists are of the identities there have been.          *)
LEMMA KnownIds ==
  ASSUME Typed, NEW s \in Slots
  PROVE  \A f \in Known(s) : /\ f \in Items /\ f.id \in 1..ids[s] /\ f.n \in Nat /\ f.n <= made[s][f.id]
                             /\ made[s][f.id] \in Nat
  <1> SUFFICES ASSUME NEW f \in Known(s)
               PROVE  /\ f \in Items /\ f.id \in 1..ids[s] /\ f.n \in Nat /\ f.n <= made[s][f.id]
                      /\ made[s][f.id] \in Nat
    OBVIOUS
  <1>1. f \in Items /\ f.id <= ids[s] /\ f.n <= made[s][f.id]
    BY DEF Known
  <1>2. f.id \in Nat /\ f.id # 0 /\ f.n \in Nat
    BY <1>1, ItemFacts
  <1>3. ids[s] \in Nat /\ \A id \in 1..ids[s] : made[s][id] \in Nat
    BY IdsType DEF Typed
  <1>4. f.id \in 1..ids[s]
    BY <1>1, <1>2, <1>3
  <1> QED BY <1>1, <1>2, <1>3, <1>4

LEMMA IqGrown ==
  ASSUME Typed, TypeOK', NEW s \in Slots, Exist(s), IqInOrder(s), NEW b, Advance(s, b),
         IqLine(s)' = IqLine(s) \o b
  PROVE  IqInOrder(s)'
  <1> DEFINE q == IqLine(s)
             r == registry[s]
  <1>1. q \in Seq(Items) /\ \A i \in 1..Len(q) : q[i] \in Frames(s)
    BY LineTyped
  <1>2. b \in Seq(Items) /\ \A i \in 1..Len(b) : b[i].id = r /\ b[i].n = made[s][r] + 1
    BY AdvanceFrames
  <1>3. /\ ids[s] \in Nat /\ (r # 0 => r = ids[s] /\ r \in 1..ids[s]) /\ r \in Nat
        /\ registry'[s] \in Nat /\ (registry'[s] # 0 => registry'[s] = ids'[s]) /\ ids'[s] \in Nat
    BY AdvanceCounts
  <1>4. \A i \in 1..Len(q) : q[i].id \in 1..ids[s] /\ q[i].n \in Nat /\ q[i].n <= made[s][q[i].id]
    BY <1>1, KnownIds DEF Frames
  <1> HIDE DEF q
  <1>5. Increasing(q \o b)
    <2>1. Increasing(b)
      <3>1. Len(b) \in {0, 1}
        BY DEF Advance, Adds
      <3> QED BY <3>1 DEF Increasing
    <2>2. ASSUME NEW i \in 1..Len(q), NEW j \in 1..Len(b) PROVE Precedes(q[i], b[j])
      <3>1. r # 0
        BY <2>2, AdvanceFrames
      <3>2. q[i].id \in 1..ids[s] /\ q[i].n \in Nat /\ q[i].n <= made[s][q[i].id]
            /\ b[j].id = r /\ b[j].n = made[s][r] + 1 /\ r = ids[s] /\ made[s][r] \in Nat
        BY <3>1, <1>2, <1>3, <1>4, AdvanceCounts
      <3>3. q[i].id < r \/ q[i].id = r
        BY <3>2, <1>3
      <3>4. q[i].id = r => q[i].n < made[s][r] + 1
        BY <3>2
      <3> QED BY <3>2, <3>3, <3>4 DEF Precedes
    <2>3. Increasing(q)
      BY DEF IqInOrder, q
    <2> QED BY <1>1, <1>2, <2>1, <2>2, <2>3, IncreasingConcat
  <1>6. ASSUME registry'[s] # 0
        PROVE  Of(q \o b, registry'[s]) = Whole(registry'[s], made'[s][registry'[s]])
    <2>1. Of(q \o b, registry'[s]) = Of(q, registry'[s]) \o Of(b, registry'[s])
      BY <1>1, <1>2, OfConcat
    <2>2. CASE registry'[s] = r
      <3>1. Of(b, r) = b /\ Whole(r, made[s][r]) \o b = Whole(r, made'[s][r])
        BY <1>6, <2>2, AdvanceOf, AdvanceFrames
      <3>2. Of(q, r) = Whole(r, made[s][r])
        BY <1>6, <2>2 DEF IqInOrder, q
      <3> QED BY <2>1, <2>2, <3>1, <3>2
    <2>3. CASE registry'[s] # r
      <3>1. registry'[s] = ids[s] + 1 /\ made'[s][registry'[s]] = 0
        BY <1>6, <2>3 DEF Advance, Names
      <3>2. \A i \in 1..Len(q) : q[i].id # registry'[s]
        BY <3>1, <1>3, <1>4
      <3>3. Of(q, registry'[s]) = <<>>
        BY <3>2, <1>1, OfNone
      <3>4. Of(b, registry'[s]) = <<>>
        BY <2>3, AdvanceOf
      <3>5. registry'[s] \in Nat \ {0} /\ 0 \in Nat
        BY <1>3, <1>6
      <3>6. Whole(registry'[s], 0) = <<>>
        BY <3>5, WholeType, SMTT(20)
      <3> QED BY <2>1, <3>1, <3>3, <3>4, <3>6
    <2> QED BY <2>2, <2>3
  <1> QED BY <1>5, <1>6 DEF IqInOrder, q

LEMMA IqCut ==
  ASSUME NEW s \in Slots, Exist(s), IqInOrder(s), registry'[s] = 0,
         shown'[s] = shown[s], Held(s)' \in {<<>>, Held(s)}, pending_iq'[s] \in {<<>>, pending_iq[s]}
  PROVE  IqInOrder(s)'
  <1> DEFINE a == shown[s]
             h == Held(s)
             p == pending_iq[s]
  <1>1. a \in Seq(Items) /\ h \in Seq(Items) /\ p \in Seq(Items) /\ a \o h \in Seq(Items)
    BY LineTyped, SeqMonotone
  <1>2. Increasing((a \o h) \o p) /\ IqLine(s)' = (shown'[s] \o Held(s)') \o pending_iq'[s]
    BY DEF IqInOrder, IqLine
  <1> HIDE DEF a, h, p
  <1>3. /\ Increasing(a \o h) /\ Increasing(p)
        /\ \A i \in 1..Len(a \o h), j \in 1..Len(p) : Precedes((a \o h)[i], p[j])
    BY <1>1, <1>2, IncreasingConcat
  <1>4. Increasing(a)
    BY <1>1, <1>3, IncreasingConcat
  <1>5. Increasing(a \o p)
    <2>1. ASSUME NEW i \in 1..Len(a), NEW j \in 1..Len(p) PROVE Precedes(a[i], p[j])
      <3>1. i \in 1..Len(a \o h) /\ (a \o h)[i] = a[i]
        <4>1. Len(a \o h) = Len(a) + Len(h) /\ Len(a) \in Nat /\ Len(h) \in Nat
              /\ \A k \in 1..Len(a) : (a \o h)[k] = a[k]
          BY <1>1, ConcatElements
        <4> QED BY <4>1
      <3> QED BY <3>1, <1>3
    <2> QED BY <1>1, <1>3, <1>4, <2>1, IncreasingConcat
  <1>6. a \o <<>> = a /\ (a \o h) \o <<>> = a \o h
    BY <1>1, ConcatEmptySeq
  <1>7. IqLine(s)' \in {a, a \o h, a \o p, (a \o h) \o p}
    BY <1>2, <1>6 DEF a, h, p
  <1> QED BY <1>2, <1>3, <1>4, <1>5, <1>7 DEF IqInOrder
-----------------------------------------------------------------------------
(* What exists after a step of the identities there were before it.        *)

Old(s) == {i \in Known(s)' : i.id <= ids[s]}
OldFrames(s) == {f \in Old(s) : f.n # 0}

LEMMA OldFacts ==
  ASSUME Typed, TypeOK', NEW s \in Slots, NEW b, Advance(s, b)
  PROVE  /\ Known(s) \subseteq Old(s) /\ Frames(s) \subseteq OldFrames(s)
         /\ OldFrames(s) \subseteq Old(s) /\ Old(s) \subseteq Items /\ Old(s) \subseteq Known(s)'
         /\ OldFrames(s) \subseteq Frames(s)' /\ OldFrames(s) \subseteq Items
         /\ b \in Seq(OldFrames(s))
         /\ \A i \in Old(s) : i.id \in 1..ids[s] /\ i.n \in Nat
         /\ \A id \in 1..ids[s] : Item(id, 0) \in Old(s)
  <1>1. /\ ids[s] \in Nat /\ ids'[s] \in Nat /\ ids[s] <= ids'[s]
        /\ registry[s] # 0 => registry[s] = ids[s]
        /\ \A id \in 1..ids[s] : made'[s][id] \in Nat
    BY AdvanceCounts
  <1>2. \A i \in Known(s) : i \in Known(s)' /\ i.id <= ids[s] /\ i \in Items
    BY KnownGrows DEF Known
  <1>3. Known(s) \subseteq Old(s) /\ Frames(s) \subseteq OldFrames(s)
    BY <1>2 DEF Old, OldFrames, Frames
  <1>4. /\ OldFrames(s) \subseteq Old(s) /\ Old(s) \subseteq Items /\ Old(s) \subseteq Known(s)'
        /\ OldFrames(s) \subseteq Frames(s)' /\ OldFrames(s) \subseteq Items
    BY KnownGrows DEF Old, OldFrames, Frames
  <1>5. b \in Seq(OldFrames(s))
    <2>1. b \in Seq(Frames(s)') /\ \A i \in 1..Len(b) : b[i].id = registry[s] /\ b[i] \in Frames(s)'
      BY AdvanceFrames, ElementOfSeq
    <2>2. \A i \in 1..Len(b) : registry[s] # 0
      BY AdvanceFrames
    <2>3. \A i \in 1..Len(b) : b[i] \in OldFrames(s)
      BY <1>1, <2>1, <2>2 DEF Frames, Old, OldFrames
    <2>4. b = [i \in 1..Len(b) |-> b[i]] /\ Len(b) \in Nat
      BY <2>1
    <2> QED BY <2>3, <2>4
  <1>6. \A i \in Old(s) : i.id \in 1..ids[s] /\ i.n \in Nat
    <2>1. \A i \in Old(s) : i \in Items /\ i.id <= ids[s]
      BY <1>4 DEF Old
    <2> QED BY <1>1, <2>1, ItemFacts
  <1>7. ASSUME NEW id \in 1..ids[s] PROVE Item(id, 0) \in Old(s)
    <2>1. id \in Nat /\ id # 0 /\ id <= ids[s] /\ id <= ids'[s] /\ made'[s][id] \in Nat
      BY <1>1
    <2>2. Item(id, 0) \in Items /\ Item(id, 0).id = id /\ Item(id, 0).n = 0
      BY <2>1, ItemFacts
    <2>3. Item(id, 0).n <= made'[s][Item(id, 0).id]
      BY <2>1, <2>2
    <2> QED BY <2>1, <2>2, <2>3 DEF Old, Known
  <1> QED BY <1>3, <1>4, <1>5, <1>6, <1>7

LEMMA OldSeq ==
  ASSUME Typed, TypeOK', NEW s \in Slots, NEW b, Advance(s, b)
  PROVE  /\ \A q \in Seq(Known(s)) : q \in Seq(Old(s))
         /\ \A q \in Seq(Frames(s)) : q \in Seq(OldFrames(s))
         /\ \A q \in Seq(OldFrames(s)) : q \in Seq(Old(s)) /\ q \in Seq(Frames(s)') /\ q \in Seq(Items)
         /\ \A q \in Seq(Old(s)) : q \in Seq(Known(s)') /\ q \in Seq(Items)
         /\ \A q \in Seq(Old(s)) : \A i \in 1..Len(q) : q[i].id \in 1..ids[s]
         /\ \A q \in Seq(Old(s)) : \A id : Of(q, id) \in Seq(Old(s))
         /\ \A p, q \in Seq(Old(s)) : p \o q \in Seq(Old(s))
         /\ \A p, q \in Seq(OldFrames(s)) : p \o q \in Seq(OldFrames(s))
         /\ <<>> \in Seq(Old(s)) /\ <<>> \in Seq(OldFrames(s))
  <1>1. /\ Known(s) \subseteq Old(s) /\ Frames(s) \subseteq OldFrames(s)
        /\ OldFrames(s) \subseteq Old(s) /\ Old(s) \subseteq Items /\ Old(s) \subseteq Known(s)'
        /\ OldFrames(s) \subseteq Frames(s)' /\ OldFrames(s) \subseteq Items
        /\ \A i \in Old(s) : i.id \in 1..ids[s]
    BY OldFacts
  <1>2. \A q \in Seq(Old(s)) : \A i \in 1..Len(q) : q[i].id \in 1..ids[s]
    BY <1>1, ElementOfSeq
  <1>3. \A q \in Seq(Old(s)) : \A id : Of(q, id) \in Seq(Old(s))
    BY <1>1, OfType
  <1>4. /\ \A q \in Seq(Known(s)) : q \in Seq(Old(s))
        /\ \A q \in Seq(Frames(s)) : q \in Seq(OldFrames(s))
    BY <1>1, SeqMonotone
  <1>5. \A q \in Seq(OldFrames(s)) : q \in Seq(Old(s)) /\ q \in Seq(Frames(s)') /\ q \in Seq(Items)
    BY <1>1, SeqMonotone
  <1>6. \A q \in Seq(Old(s)) : q \in Seq(Known(s)') /\ q \in Seq(Items)
    BY <1>1, SeqMonotone
  <1>7. /\ \A p, q \in Seq(Old(s)) : p \o q \in Seq(Old(s))
        /\ \A p, q \in Seq(OldFrames(s)) : p \o q \in Seq(OldFrames(s))
        /\ <<>> \in Seq(Old(s)) /\ <<>> \in Seq(OldFrames(s))
    <2> DEFINE O == Old(s)
               P == OldFrames(s)
    <2> HIDE DEF O, P
    <2>1. (\A p, q \in Seq(O) : p \o q \in Seq(O)) /\ (\A p, q \in Seq(P) : p \o q \in Seq(P))
          /\ <<>> \in Seq(O) /\ <<>> \in Seq(P)
      OBVIOUS
    <2> QED BY <2>1 DEF O, P
  <1> QED BY <1>2, <1>3, <1>4, <1>5, <1>6, <1>7

(* What a slot has after a step that brings in nothing of a new identity.  *)
LEMMA ExistKept ==
  ASSUME Typed, TypeOK', NEW s \in Slots, NEW b, Advance(s, b), Exist(s),
         shown'[s] \in Seq(OldFrames(s)), hand'[s] \in Seq(OldFrames(s)),
         pending_iq'[s] \in Seq(OldFrames(s)), queued'[s] \in Seq(OldFrames(s)),
         consumed'[s] \subseteq OldFrames(s),
         heard'[s] \in Seq(Old(s)), pending_receiver'[s] \in Seq(Old(s)),
         page'[s] <= ids[s], retiring'[s] <= ids[s],
         exempt'[s] \in {exempt[s], ids[s], ids'[s]},
         fence'[s] = fence[s] \/ (fence'[s] = ids[s] /\ registry'[s] = 0)
  PROVE  Exist(s)'
  <1>1. /\ ids[s] \in Nat /\ ids'[s] \in Nat /\ ids[s] <= ids'[s] /\ ids'[s] \in {ids[s], ids[s] + 1}
        /\ registry'[s] # 0 => registry'[s] = ids'[s]
    BY AdvanceCounts
  <1>2. /\ page'[s] \in Nat /\ retiring'[s] \in Nat /\ exempt[s] \in Nat /\ fence[s] \in Nat
        /\ exempt'[s] \in Nat /\ fence'[s] \in Nat
    BY DEF TypeOK, Typed
  <1>3. exempt[s] <= ids[s] /\ fence[s] <= ids[s] /\ (registry[s] # 0 => registry[s] > fence[s])
    BY DEF Exist
  <1>4. /\ shown'[s] \in Seq(Frames(s)') /\ hand'[s] \in Seq(Frames(s)')
        /\ pending_iq'[s] \in Seq(Frames(s)') /\ queued'[s] \in Seq(Frames(s)')
        /\ heard'[s] \in Seq(Known(s)') /\ pending_receiver'[s] \in Seq(Known(s)')
        /\ consumed'[s] \subseteq Frames(s)'
    BY OldSeq, OldFacts
  <1>5. /\ page'[s] <= ids'[s] /\ retiring'[s] <= ids'[s] /\ exempt'[s] <= ids'[s] /\ fence'[s] <= ids'[s]
    BY <1>1, <1>2, <1>3, SMTT(20)
  <1>6. registry'[s] # 0 => registry'[s] = ids'[s] /\ registry'[s] > fence'[s]
    <2>1. registry'[s] # 0 => registry'[s] = registry[s] \/ ids'[s] = ids[s] + 1
      BY DEF Advance, Names
    <2> QED BY <2>1, <1>1, <1>2, <1>3
  <1> QED BY <1>4, <1>5, <1>6 DEF Exist

-----------------------------------------------------------------------------
(* The subscribers' line.                                                  *)

LEMMA ItemsAssociative ==
  \A a, b, c \in Seq(Items) : (a \o b) \o c = a \o (b \o c)
  BY Associative

LEMMA UnheardType ==
  ASSUME NEW s \in Slots, Exist(s)
  PROVE  /\ Unheard[s] = Among(pending_iq[s], {f \in Items : f \notin consumed[s]})
         /\ Unheard[s] \in Seq(Frames(s)) /\ Unheard[s] \in Seq(Items)
  <1>1. Unheard[s] = Among(pending_iq[s], {f \in Items : f \notin consumed[s]})
    BY DEF Unheard
  <1>2. pending_iq[s] \in Seq(Frames(s)) /\ Frames(s) \subseteq Items
    BY DEF Exist, Frames, Known
  <1>3. Unheard[s] \in Seq(Frames(s))
    BY <1>1, <1>2, AmongType
  <1> QED BY <1>1, <1>2, <1>3, SeqMonotone

LEMMA UnheardNext ==
  ASSUME NEW s \in Slots
  PROVE  /\ Unheard'[s] = Among(pending_iq'[s], {f \in Items : f \notin consumed'[s]})
         /\ pending_iq'[s] = pending_iq[s] /\ consumed'[s] = consumed[s] => Unheard'[s] = Unheard[s]
         /\ pending_iq'[s] = <<>> => Unheard'[s] = <<>>
         /\ pending_iq'[s] \in Seq(Items) /\ ToSet(pending_iq'[s]) \subseteq consumed'[s] => Unheard'[s] = <<>>
  <1>1. Unheard'[s] = Among(pending_iq'[s], {f \in Items : f \notin consumed'[s]})
    BY DEF Unheard
  <1>2. pending_iq'[s] = pending_iq[s] /\ consumed'[s] = consumed[s] => Unheard'[s] = Unheard[s]
    BY <1>1 DEF Unheard
  <1>3. pending_iq'[s] = <<>> => Unheard'[s] = <<>>
    BY <1>1, AmongEmpty
  <1>4. ASSUME pending_iq'[s] \in Seq(Items), ToSet(pending_iq'[s]) \subseteq consumed'[s]
        PROVE  Unheard'[s] = <<>>
    <2>1. \A i \in 1..Len(pending_iq'[s]) : pending_iq'[s][i] \in ToSet(pending_iq'[s])
      BY <1>4 DEF ToSet
    <2>2. \A i \in 1..Len(pending_iq'[s]) : pending_iq'[s][i] \notin {f \in Items : f \notin consumed'[s]}
      BY <1>4, <2>1
    <2> QED BY <1>1, <1>4, <2>2, AmongNone
  <1> QED BY <1>1, <1>2, <1>3, <1>4

(* What the workers accept of what is pending and of a new batch, and what *)
(* they have then.                                                         *)
Acc(s, b) == Of(Unheard[s], registry[s]) \o b
All(s, b) == queued[s] \o Acc(s, b)

LEMMA AcceptedIs ==
  ASSUME Typed, TypeOK', NEW s \in Slots, NEW b, Advance(s, b), Exist(s),
         NEW fs, fs[s] = pending_iq[s] \o b
  PROVE  Accepted(fs, registry)[s] = Acc(s, b)
  <1> DEFINE r == registry[s]
             p == pending_iq[s]
             A == {f \in Items : f \notin consumed[s]}
             I == {i \in Items : i.id = r}
             K == {f \in Items : f.id = r /\ f \notin consumed[s]}
  <1>1. p \in Seq(Items) /\ b \in Seq(Items) /\ \A i \in 1..Len(b) : b[i] \in Items /\ b[i].id = r /\ b[i] \notin Known(s)
    BY LineTyped, SeqMonotone, AdvanceFrames
  <1>2. Accepted(fs, registry)[s] = Among(p \o b, K)
    BY DEF Accepted
  <1>3. Among(p \o b, K) = Among(p, K) \o Among(b, K)
    <2> HIDE DEF K, p
    <2> QED BY <1>1, AmongConcat
  <1>4. Among(p, K) = Among(Among(p, A), I)
    <2>1. \A x \in Items : x \in K <=> x \in A /\ x \in I
      OBVIOUS
    <2> HIDE DEF K, A, I
    <2> QED BY <1>1, <2>1, AmongTwice
  <1>5. Among(Among(p, A), I) = Of(Unheard[s], r)
    BY UnheardType DEF Of
  <1>6. Among(b, K) = b
    <2>1. consumed[s] \subseteq Known(s)
      BY DEF Exist, Frames
    <2>2. \A i \in 1..Len(b) : b[i] \in K
      BY <1>1, <2>1
    <2> QED BY <1>1, <2>2, AmongAll
  <1> QED BY <1>2, <1>3, <1>4, <1>5, <1>6 DEF Acc

LEMMA AllType ==
  ASSUME Typed, TypeOK', NEW s \in Slots, NEW b, Advance(s, b), Exist(s), QueueInOrder(s)
  PROVE  /\ Acc(s, b) \in Seq(OldFrames(s)) /\ All(s, b) \in Seq(OldFrames(s)) /\ All(s, b) \in Seq(Items)
         /\ \A i \in 1..Len(Acc(s, b)) : Acc(s, b)[i].id = registry[s]
         /\ registry[s] = 0 => Acc(s, b) = <<>> /\ All(s, b) = queued[s]
         /\ Rising(All(s, b)) /\ Within(page[s], All(s, b), ids[s])
         /\ page[s] \in Nat /\ page[s] <= ids[s] /\ ids[s] \in Nat
  <1> DEFINE r == registry[s]
             u == Of(Unheard[s], r)
             a == Acc(s, b)
             q == queued[s]
  <1>1. /\ page[s] \in Nat /\ page[s] <= ids[s] /\ ids[s] \in Nat /\ r \in Nat
        /\ (r # 0 => r = ids[s])
    BY AdvanceCounts DEF Exist, Typed, TypeOK
  <1>2. /\ Unheard[s] \in Seq(Items) /\ Unheard[s] \in Seq(Frames(s)) /\ q \in Seq(Frames(s))
        /\ q \in Seq(OldFrames(s)) /\ q \in Seq(Items) /\ Frames(s) \subseteq Items
    BY UnheardType, OldSeq DEF Exist, Frames, Known
  <1>3. u \in Seq(Frames(s)) /\ u \in Seq(Items) /\ \A i \in 1..Len(u) : u[i].id = r /\ u[i] \in Frames(s)
    BY <1>2, OfType
  <1>4. b \in Seq(OldFrames(s)) /\ b \in Seq(Items) /\ (\A i \in 1..Len(b) : b[i].id = r) /\ (r = 0 => b = <<>>)
    BY AdvanceFrames, OldFacts
  <1>5. u \in Seq(OldFrames(s))
    BY <1>3, OldSeq
  <1>6. a = u \o b
    BY DEF Acc
  <1>7. a \in Seq(OldFrames(s)) /\ a \in Seq(Items)
    BY <1>4, <1>5, <1>6, OldSeq
  <1> HIDE DEF u, q
  <1>8. \A i \in 1..Len(a) : a[i].id = r
    <2> HIDE DEF a
    <2> QED BY <1>3, <1>4, <1>6, ConcatElements
  <1>9. r = 0 => a = <<>>
    <2>1. \A i \in 1..Len(Unheard[s]) : Unheard[s][i].id # 0
      BY <1>2, ElementOfSeq, ItemFacts
    <2>2. r = 0 => u = <<>>
      BY <1>2, <2>1, OfNone DEF u
    <2> QED BY <1>4, <1>6, <2>2
  <1> HIDE DEF a
  <1>10. All(s, b) = q \o a
    BY DEF All, a, q
  <1>11. q \o a \in Seq(OldFrames(s)) /\ q \o a \in Seq(Items)
    BY <1>2, <1>7, OldSeq
  <1>12. Rising(q) /\ \A i \in 1..Len(q) : page[s] <= q[i].id /\ q[i].id <= ids[s]
    <2>1. \A i \in 1..Len(q) : q[i] \in Frames(s)
      BY <1>2, ElementOfSeq
    <2> QED BY <2>1, KnownIds DEF QueueInOrder, q, Frames
  <1>13. r = 0 => q \o a = q
    BY <1>2, <1>9, ConcatEmptySeq
  <1>14. CASE r = 0
    BY <1>1, <1>7, <1>8, <1>9, <1>10, <1>11, <1>12, <1>13, <1>14 DEF Within, a, q
  <1>15. CASE r # 0
    <2>1. Rising(q \o a)
      BY <1>1, <1>2, <1>7, <1>8, <1>12, <1>15, RisingConcat
    <2>2. \A i \in 1..Len(q \o a) : page[s] <= (q \o a)[i].id /\ (q \o a)[i].id <= ids[s]
      <3>1. \A i \in 1..Len(q \o a) :
              \/ i \in 1..Len(q) /\ (q \o a)[i] = q[i]
              \/ i - Len(q) \in 1..Len(a) /\ (q \o a)[i] = a[i - Len(q)]
        BY <1>2, <1>7, ConcatElements
      <3>2. \A i \in 1..Len(a) : page[s] <= a[i].id /\ a[i].id <= ids[s]
        BY <1>1, <1>8, <1>15
      <3> QED BY <3>1, <3>2, <1>12
    <2> QED BY <1>1, <1>7, <1>8, <1>10, <1>11, <1>15, <2>1, <2>2 DEF Within, a, q
  <1> QED BY <1>14, <1>15

(* What finishing the workers puts out.                                    *)
Done(s, b) == Process(page[s], All(s, b))
LastPage(s, b) == PageAfter(page[s], All(s, b))
Ended(s, b) == Done(s, b) \o Closing(LastPage(s, b), 0)

LEMMA DoneType ==
  ASSUME Typed, TypeOK', NEW s \in Slots, NEW b, Advance(s, b), Exist(s), QueueInOrder(s)
  PROVE  /\ Done(s, b) \in Seq(Old(s)) /\ Ended(s, b) \in Seq(Old(s))
         /\ LastPage(s, b) \in Nat /\ LastPage(s, b) <= ids[s]
         /\ Done(s, b) \in Seq(Items) /\ Closing(LastPage(s, b), 0) \in Seq(Items)
  <1> DEFINE q == All(s, b)
             p == page[s]
  <1>1. q \in Seq(OldFrames(s)) /\ q \in Seq(Items) /\ Rising(q) /\ Within(p, q, ids[s])
        /\ p \in Nat /\ p <= ids[s] /\ ids[s] \in Nat
    BY AllType
  <1>2. /\ Old(s) \subseteq Items /\ OldFrames(s) \subseteq Old(s)
        /\ \A f \in OldFrames(s) : f.id \in 1..ids[s]
        /\ \A id \in 1..ids[s] : Item(id, 0) \in Old(s)
    BY OldFacts
  <1>3. p # 0 => Item(p, 0) \in Old(s)
    BY <1>1, <1>2
  <1>4. \A f \in OldFrames(s) : Item(f.id, 0) \in Old(s)
    BY <1>2
  <1> HIDE DEF q, p
  <1>5. \A x \in Seq(OldFrames(s)) : Process(p, x) \in Seq(Old(s)) /\ (PageAfter(p, x) # 0 => Item(PageAfter(p, x), 0) \in Old(s))
    BY <1>1, <1>2, <1>3, <1>4, ProcessElements
  <1>6. LastPage(s, b) \in Nat /\ LastPage(s, b) <= ids[s]
    BY <1>1, PageAfterWithin DEF LastPage, q, p
  <1>7. Done(s, b) \in Seq(Old(s)) /\ (LastPage(s, b) # 0 => Item(LastPage(s, b), 0) \in Old(s))
    BY <1>1, <1>5 DEF Done, LastPage, q, p
  <1>8. Closing(LastPage(s, b), 0) \in Seq(Old(s))
    <2> DEFINE e == Item(LastPage(s, b), 0)
    <2>1. Closing(LastPage(s, b), 0) \in {<<>>, <<e>>} /\ (LastPage(s, b) = 0 => Closing(LastPage(s, b), 0) = <<>>)
      BY DEF Closing
    <2> HIDE DEF e
    <2>2. e \in Old(s) => <<e>> \in Seq(Old(s))
      OBVIOUS
    <2> QED BY <2>1, <2>2, <1>7, OldSeq DEF e
  <1> QED BY <1>6, <1>7, <1>8, OldSeq DEF Ended

LEMMA FinishFacts ==
  ASSUME Typed, TypeOK', NEW s \in Slots, NEW b, Advance(s, b), Exist(s), QueueInOrder(s), Line(s),
         failure = "none", registry[s] # 0
  PROVE  LET r == registry[s] m == made'[s][r] IN
         /\ Of(heard[s], r) \o Of(All(s, b), r) = Whole(r, m)
         /\ LastPage(s, b) = r <=> m # 0
         /\ Of(heard[s], r) \o Of(Done(s, b), r) = Whole(r, m)
         /\ Of(heard[s], r) \o Of(Ended(s, b), r) = IF m = 0 THEN <<>> ELSE Closed(r, m)
         /\ Of(Done(s, b), r) = Of(All(s, b), r)
  <1> DEFINE r == registry[s]
             m == made'[s][r]
             h == Of(heard[s], r)
             q == Of(queued[s], r)
             u == Of(Unheard[s], r)
             a == Of(All(s, b), r)
  <1>1. r \in Nat \ {0} /\ r = ids[s] /\ m \in Nat /\ made[s][r] \in Nat
    BY AdvanceCounts
  <1>2. h \in Seq(Items) /\ q \in Seq(Items) /\ u \in Seq(Items) /\ b \in Seq(Items) /\ queued[s] \in Seq(Items)
        /\ Unheard[s] \in Seq(Items)
    <2>1. Frames(s) \subseteq Items /\ Known(s) \subseteq Items
      BY DEF Frames, Known
    <2>2. heard[s] \in Seq(Items) /\ queued[s] \in Seq(Items) /\ Unheard[s] \in Seq(Items)
      BY UnheardType DEF Typed, TypeOK
    <2> QED BY <2>2, OfType, AdvanceFrames
  <1>3. (h \o q) \o u = Whole(r, made[s][r]) /\ (page[s] = r <=> h # <<>>)
    BY DEF Line
  <1>4. Whole(r, made[s][r]) \o b = Whole(r, m)
    BY AdvanceFrames
  <1>5. a = q \o (u \o b)
    <2> DEFINE y == queued[s]
               x == u \o b
    <2>1. Of(u, r) = u
      BY <1>2, OfOf
    <2>2. Of(b, r) = b
      BY AdvanceOf
    <2> HIDE DEF u, r
    <2>3. x \in Seq(Items)
      BY <1>2, ConcatElements
    <2>7. u \in Seq(Items) /\ b \in Seq(Items)
      BY <1>2
    <2>4. Of(u \o b, r) = Of(u, r) \o Of(b, r)
      BY <2>7, OfConcat
    <2>5. y \in Seq(Items)
      BY <1>2
    <2> HIDE DEF x, y
    <2>6. Of(y \o x, r) = Of(y, r) \o Of(x, r)
      BY <2>3, <2>5, OfConcat
    <2> QED BY <2>1, <2>2, <2>4, <2>6 DEF All, Acc, x, y, u, r
  <1> HIDE DEF h, q, u, m, r
  <1>6. h \o a = Whole(r, m)
    <2>1. ((h \o q) \o u) \o b = h \o (q \o (u \o b))
      <3> DEFINE x == u \o b
                 y == h \o q
      <3>1. y \in Seq(Items) /\ x \in Seq(Items) /\ u \in Seq(Items) /\ b \in Seq(Items)
        BY <1>2, ConcatElements
      <3> HIDE DEF y
      <3>2. (y \o u) \o b = y \o (u \o b)
        BY <3>1, ItemsAssociative
      <3> HIDE DEF x
      <3>4. h \in Seq(Items) /\ q \in Seq(Items) /\ x \in Seq(Items)
        BY <1>2, <3>1
      <3>3. (h \o q) \o x = h \o (q \o x)
        BY <3>4, ItemsAssociative
      <3> QED BY <3>2, <3>3 DEF x, y
    <2> QED BY <2>1, <1>3, <1>4, <1>5
  <1>7. /\ All(s, b) \in Seq(Items) /\ Rising(All(s, b)) /\ Within(page[s], All(s, b), r)
        /\ page[s] \in Nat /\ page[s] <= r
    BY AllType, <1>1 DEF r
  <1>8. a \in Seq(Items)
    BY <1>7, OfType DEF r
  <1> HIDE DEF a
  <1>9. LastPage(s, b) = r <=> m # 0
    <2>1. LastPage(s, b) = r <=> page[s] = r \/ a # <<>>
      BY <1>1, <1>7, PageAfterWithin DEF LastPage, a, r
    <2>2. h \o a = <<>> <=> h = <<>> /\ a = <<>>
      BY <1>2, <1>8, ConcatElements
    <2>3. Whole(r, m) = <<>> <=> m = 0
      BY <1>1, WholeType
    <2> QED BY <2>1, <2>2, <2>3, <1>3, <1>6
  <1>10. Of(Done(s, b), r) = a
    BY <1>1, <1>7, ProcessOf DEF Done, a, r
  <1>11. Of(Ended(s, b), r) = a \o (IF LastPage(s, b) = r THEN <<Item(r, 0)>> ELSE <<>>)
    BY <1>1, <1>7, FinishOf DEF Ended, Done, LastPage, a, r
  <1>12. h \o Of(Ended(s, b), r) = IF m = 0 THEN <<>> ELSE Closed(r, m)
    <2>1. CASE m = 0
      <3>1. Of(Ended(s, b), r) = a
        BY <1>8, <1>9, <1>11, <2>1, ConcatEmptySeq
      <3>2. Whole(r, m) = <<>>
        BY <1>1, <2>1, WholeType
      <3> QED BY <3>1, <3>2, <1>6, <2>1
    <2>2. CASE m # 0
      <3> DEFINE e == <<Item(r, 0)>>
      <3>1. Of(Ended(s, b), r) = a \o e
        BY <1>9, <1>11, <2>2
      <3>2. e \in Seq(Items)
        <4>1. Item(r, 0) \in Items
          BY <1>1, ItemFacts
        <4> QED BY <4>1
      <3>3. Closed(r, m) = Whole(r, m) \o e
        BY <1>1, ClosedType
      <3> HIDE DEF e
      <3>5. h \in Seq(Items) /\ a \in Seq(Items) /\ e \in Seq(Items)
        BY <1>2, <1>8, <3>2
      <3>4. (h \o a) \o e = h \o (a \o e)
        BY <3>5, ItemsAssociative
      <3> QED BY <3>1, <3>3, <3>4, <1>6, <2>2
    <2> QED BY <2>1, <2>2
  <1> QED BY <1>6, <1>9, <1>10, <1>12 DEF h, a, m, r

Lines(s) == QueueInOrder(s) /\ Line(s) /\ Current(s) /\ Older(s) /\ Healthy(s)

(* A step from a slot in order.                                            *)
Stepped(s, b) ==
  Typed /\ TypeOK' /\ Advance(s, b) /\ Exist(s) /\ Lines(s) /\ (hw' = 0 => hw = 0)

(* What a step lets the subscribers hear: nothing, what was retiring, what *)
(* the workers put out when they finish, with or without the end of a page.*)
NothingHeard(s) ==
  /\ heard'[s] = heard[s]
  /\ \/ pending_receiver'[s] = <<>>
     \/ pending_receiver'[s] = pending_receiver[s] /\ retiring'[s] = retiring[s]
Delivered(s, out, id) ==
  heard'[s] = heard[s] \o Of(pending_receiver[s] \o out, id) /\ pending_receiver'[s] = <<>>
TailsHeard(s) == Delivered(s, <<>>, retiring[s])

LEMMA OldTyped ==
  ASSUME NEW s \in Slots, NEW b, Stepped(s, b)
  PROVE  /\ heard[s] \in Seq(Old(s)) /\ pending_receiver[s] \in Seq(Old(s))
         /\ heard[s] \in Seq(Items) /\ pending_receiver[s] \in Seq(Items)
         /\ queued[s] \in Seq(OldFrames(s)) /\ pending_iq[s] \in Seq(OldFrames(s))
         /\ queued[s] \in Seq(Items) /\ pending_iq[s] \in Seq(Items)
         /\ shown[s] \in Seq(OldFrames(s)) /\ hand[s] \in Seq(OldFrames(s))
         /\ Unheard[s] \in Seq(OldFrames(s)) /\ Unheard[s] \in Seq(Items)
         /\ page[s] \in Nat /\ page[s] <= ids[s] /\ retiring[s] \in Nat /\ retiring[s] <= ids[s]
         /\ exempt[s] \in Nat /\ exempt[s] <= ids[s] /\ consumed[s] \subseteq OldFrames(s)
         /\ b \in Seq(OldFrames(s))
  <1>1. Typed /\ TypeOK' /\ Advance(s, b) /\ Exist(s)
    BY DEF Stepped
  <1>2. /\ heard[s] \in Seq(Old(s)) /\ pending_receiver[s] \in Seq(Old(s))
        /\ queued[s] \in Seq(OldFrames(s)) /\ pending_iq[s] \in Seq(OldFrames(s))
        /\ shown[s] \in Seq(OldFrames(s)) /\ hand[s] \in Seq(OldFrames(s))
    BY <1>1, OldSeq DEF Exist
  <1>3. /\ heard[s] \in Seq(Items) /\ pending_receiver[s] \in Seq(Items)
        /\ queued[s] \in Seq(Items) /\ pending_iq[s] \in Seq(Items)
        /\ page[s] \in Nat /\ retiring[s] \in Nat /\ exempt[s] \in Nat
    BY <1>1 DEF Typed, TypeOK
  <1>4. page[s] <= ids[s] /\ retiring[s] <= ids[s] /\ exempt[s] <= ids[s] /\ consumed[s] \subseteq Frames(s)
    BY <1>1 DEF Exist
  <1>5. Unheard[s] \in Seq(Frames(s)) /\ Unheard[s] \in Seq(Items)
    BY <1>1, UnheardType
  <1>6. Unheard[s] \in Seq(OldFrames(s)) /\ consumed[s] \subseteq OldFrames(s) /\ b \in Seq(OldFrames(s))
    BY <1>1, <1>4, <1>5, OldSeq, OldFacts
  <1> QED BY <1>2, <1>3, <1>4, <1>5, <1>6

(* What delivered output adds to what was heard of an identity.            *)
LEMMA DeliveredOf ==
  ASSUME NEW s \in Slots, NEW b, Stepped(s, b), NEW out \in Seq(Items), NEW id, Delivered(s, out, id)
  PROVE  /\ \A i : i # id => Of(heard'[s], i) = Of(heard[s], i)
         /\ Of(heard'[s], id) = Of(heard[s], id) \o (Of(pending_receiver[s], id) \o Of(out, id))
         /\ out \in Seq(Old(s)) => heard'[s] \in Seq(Old(s))
         /\ id = 0 => heard'[s] = heard[s]
  <1> DEFINE h == heard[s]
             x == pending_receiver[s] \o out
             o == Of(x, id)
  <1>1. h \in Seq(Items) /\ pending_receiver[s] \in Seq(Items) /\ heard'[s] = h \o o /\ h \in Seq(Old(s))
        /\ pending_receiver[s] \in Seq(Old(s))
    BY OldTyped DEF Delivered
  <1>2. x \in Seq(Items) /\ Of(x, id) = Of(pending_receiver[s], id) \o Of(out, id)
    <2> DEFINE p == pending_receiver[s]
    <2>1. p \in Seq(Items)
      BY <1>1
    <2> HIDE DEF p
    <2>2. p \o out \in Seq(Items)
      BY <2>1, ConcatElements
    <2>3. Of(p \o out, id) = Of(p, id) \o Of(out, id)
      BY <2>1, OfConcat
    <2> QED BY <2>2, <2>3 DEF p
  <1>3. out \in Seq(Old(s)) => x \in Seq(Old(s))
    BY <1>1, OldSeq DEF Stepped
  <1> HIDE DEF h, x
  <1>4. o \in Seq(Items) /\ (x \in Seq(Old(s)) => o \in Seq(Old(s)))
    BY <1>2, OfType, OldSeq DEF Stepped
  <1>5. \A i : Of(o, i) = IF id = i THEN Of(x, i) ELSE <<>>
    BY <1>2, OfOf
  <1> HIDE DEF o
  <1>6. \A i : Of(h \o o, i) = Of(h, i) \o Of(o, i)
    BY <1>1, <1>4, OfConcat
  <1>7. \A i : i # id => Of(h \o o, i) = Of(h, i)
    <2> SUFFICES ASSUME NEW i, i # id PROVE Of(h \o o, i) = Of(h, i)
      OBVIOUS
    <2>1. Of(h, i) \in Seq(Items)
      BY <1>1, OfType
    <2> QED BY <2>1, <1>5, <1>6, ConcatEmptySeq
  <1>8. Of(h \o o, id) = Of(h, id) \o Of(x, id)
    BY <1>5, <1>6
  <1>9. x \in Seq(Old(s)) => h \o o \in Seq(Old(s))
    BY <1>1, <1>4, OldSeq DEF Stepped
  <1>10. id = 0 => o = <<>>
    <2>1. \A i \in 1..Len(x) : x[i].id # 0
      BY <1>2, ElementOfSeq, ItemFacts
    <2> QED BY <2>1, <1>2, OfNone DEF o
  <1> QED BY <1>1, <1>2, <1>3, <1>7, <1>8, <1>9, <1>10, ConcatEmptySeq DEF h

LEMMA DeliveredHere ==
  ASSUME NEW s \in Slots, NEW b, Stepped(s, b), NEW out \in Seq(Items), NEW id, Delivered(s, out, id)
  PROVE  Of(heard'[s], id) = Of(heard[s], id) \o (Of(pending_receiver[s], id) \o Of(out, id))
  BY DeliveredOf

LEMMA DeliveredElsewhere ==
  ASSUME NEW s \in Slots, NEW b, Stepped(s, b), NEW out \in Seq(Items), NEW id, Delivered(s, out, id),
         NEW i, i # id
  PROVE  Of(heard'[s], i) = Of(heard[s], i)
  BY DeliveredOf

LEMMA RisingHeard ==
  ASSUME NEW s \in Slots, NEW b, Stepped(s, b), Rising(heard[s]), NEW out \in Seq(Items),
         Delivered(s, out, registry[s])
  PROVE  Rising(heard'[s])
  <1> DEFINE o == Of(pending_receiver[s] \o out, registry[s])
  <1>1. heard'[s] = heard[s] \o o /\ heard[s] \in Seq(Items) /\ heard[s] \in Seq(Old(s))
        /\ pending_receiver[s] \in Seq(Items)
    BY OldTyped DEF Delivered
  <1>2. pending_receiver[s] \o out \in Seq(Items)
    BY <1>1, ConcatElements
  <1>3. o \in Seq(Items) /\ \A i \in 1..Len(o) : o[i].id = registry[s]
    <2> DEFINE x == pending_receiver[s] \o out
    <2>1. x \in Seq(Items)
      BY <1>2
    <2> HIDE DEF x
    <2>2. Of(x, registry[s]) \in Seq(Items) /\ \A i \in 1..Len(Of(x, registry[s])) : Of(x, registry[s])[i].id = registry[s]
      BY <2>1, OfType
    <2> QED BY <2>2 DEF x
  <1>4. registry[s] = 0 \/ registry[s] = ids[s]
    BY AdvanceCounts DEF Stepped
  <1>5. CASE registry[s] = 0
    BY <1>5, DeliveredOf
  <1>6. CASE registry[s] = ids[s]
    <2>1. \A i \in 1..Len(heard[s]) : heard[s][i].id <= ids[s]
      BY <1>1, OldSeq DEF Stepped
    <2>2. ids[s] \in Nat
      BY AdvanceCounts DEF Stepped
    <2> HIDE DEF o
    <2>3. Rising(heard[s] \o o)
      BY <1>1, <1>3, <1>6, <2>1, <2>2, RisingConcat
    <2> QED BY <1>1, <2>3
  <1> QED BY <1>4, <1>5, <1>6

(* The output of the workers for older identities does not change, or is   *)
(* delivered, or is dropped.                                               *)
LEMMA OlderKept ==
  ASSUME NEW s \in Slots, NEW b, Stepped(s, b),
         \A id \in 1..ids[s] : id # registry[s] => Total(s, id)' \in {Total(s, id), Of(heard[s], id)},
         \A id \in 1..ids[s] :
           id = registry[s] /\ registry'[s] # id => UpTo(id, made'[s][id], Total(s, id)')
  PROVE  Older(s)'
  <1>1. Typed /\ TypeOK' /\ Advance(s, b) /\ Exist(s) /\ Older(s)
    BY DEF Stepped, Lines
  <1>2. /\ ids[s] \in Nat /\ ids'[s] \in {ids[s], ids[s] + 1}
        /\ registry[s] \in Nat
        /\ ids'[s] = ids[s] + 1 => registry'[s] = ids'[s]
    BY <1>1, AdvanceCounts DEF Advance, Names
  <1> SUFFICES ASSUME NEW id \in 1..ids'[s], id # registry'[s]
               PROVE  UpTo(id, made'[s][id], Total(s, id)')
    BY DEF Older
  <1>3. id \in 1..ids[s] /\ id \in Nat \ {0}
    BY <1>2
  <1>4. CASE id = registry[s]
    BY <1>3, <1>4
  <1>5. CASE id # registry[s]
    <2>1. UpTo(id, made[s][id], Total(s, id))
      BY <1>1, <1>3, <1>5 DEF Older
    <2>2. made[s][id] \in Nat /\ made'[s][id] \in Nat /\ made[s][id] <= made'[s][id]
      BY <1>1, <1>3, AdvanceCounts
    <2>3. Of(heard[s], id) \in Seq(Items) /\ Tails(s, id) \in Seq(Items)
      <3>1. heard[s] \in Seq(Items) /\ pending_receiver[s] \in Seq(Items)
        BY OldTyped
      <3>2. <<>> \in Seq(Items)
        OBVIOUS
      <3> QED BY <3>1, <3>2, OfType DEF Tails
    <2>4. UpTo(id, made[s][id], Of(heard[s], id))
      BY <1>3, <2>1, <2>2, <2>3, UpToSplit DEF Total
    <2>5. Total(s, id)' \in {Total(s, id), Of(heard[s], id)}
      BY <1>3, <1>5
    <2> QED BY <2>1, <2>2, <2>4, <2>5, UpToMore
  <1> QED BY <1>4, <1>5

(* A slot whose identity is new or taken away has nothing of it.           *)
LEMMA FreshCurrent ==
  ASSUME NEW s \in Slots, NEW b, Stepped(s, b), registry'[s] \in {0, ids[s] + 1},
         heard'[s] \in Seq(Old(s)), queued'[s] \in Seq(Old(s)), Unheard'[s] \in Seq(Old(s)),
         pending_receiver'[s] \in Seq(Old(s)), page'[s] <= ids[s]
  PROVE  Line(s)' /\ Current(s)'
  <1> DEFINE r == registry'[s]
  <1>1. Typed /\ TypeOK' /\ Advance(s, b)
    BY DEF Stepped
  <1>2. /\ ids[s] \in Nat /\ registry[s] \in Nat /\ (registry[s] # 0 => registry[s] = ids[s])
    BY <1>1, AdvanceCounts
  <1>3. CASE r = 0
    BY <1>3 DEF Line, Current
  <1>4. CASE r # 0
    <2>1. r = ids[s] + 1 /\ made'[s][r] = 0 /\ r \in Nat \ {0} /\ page'[s] # r
      <3>1. r = ids[s] + 1 /\ r \in Nat /\ r # registry[s] /\ r # 0
        BY <1>2, <1>4
      <3>2. made'[s][r] = 0
        BY <1>1, <3>1 DEF Advance, Names
      <3>3. page'[s] \in Nat
        BY <1>1 DEF TypeOK
      <3> QED BY <3>1, <3>2, <3>3, <1>2
    <2>2. ASSUME NEW q \in Seq(Old(s)) PROVE Of(q, r) = <<>>
      <3>1. q \in Seq(Items) /\ \A i \in 1..Len(q) : q[i].id \in 1..ids[s]
        BY <1>1, OldSeq
      <3>2. \A i \in 1..Len(q) : q[i].id # r
        BY <3>1, <2>1, <1>2
      <3> QED BY <3>1, <3>2, OfNone
    <2>3. Whole(r, 0) = <<>>
      BY <2>1, WholeType, ZenonT(40)
    <2> HIDE DEF r
    <2>4. /\ Of(heard'[s], r) = <<>> /\ Of(queued'[s], r) = <<>> /\ Of(Unheard'[s], r) = <<>>
          /\ Of(pending_receiver'[s], r) = <<>>
      BY <2>2
    <2>5. Line(s)'
      <3>1. (<<>> \o <<>>) \o <<>> = <<>>
        OBVIOUS
      <3> QED BY <2>1, <2>3, <2>4, <3>1 DEF Line, r
    <2>6. Current(s)'
      <3>1. Of(heard'[s], r) = Whole(r, 0) /\ 0 \in 0..made'[s][r]
        BY <2>1, <2>3, <2>4
      <3> QED BY <3>1, <2>4 DEF Current, r
    <2> QED BY <2>5, <2>6
  <1> QED BY <1>3, <1>4

LEMMA EmptyQueue ==
  ASSUME NEW s \in Slots, queued'[s] = <<>>, page'[s] = 0 \/ Unheard'[s] = <<>>
  PROVE  QueueInOrder(s)'
  <1>1. Len(queued'[s]) = 0
    OBVIOUS
  <1> QED BY <1>1 DEF QueueInOrder, Rising

(* The tails that a step leaves.                                           *)
LEMMA TailsAfter ==
  ASSUME NEW s \in Slots, NEW b, Stepped(s, b), NothingHeard(s) \/ TailsHeard(s)
  PROVE  /\ \A id : Total(s, id)' \in {Total(s, id), Of(heard[s], id)}
         /\ heard'[s] \in Seq(Old(s)) /\ pending_receiver'[s] \in Seq(Old(s))
         /\ \A id : id = registry[s] /\ id # 0 =>
                     /\ Of(heard'[s], id) = Of(heard[s], id)
                     /\ Of(pending_receiver'[s], id) = <<>>
                     /\ Total(s, id)' = Of(heard[s], id)
         /\ hw = 0 => /\ pending_receiver'[s] = <<>> /\ Rising(heard'[s])
                      /\ \A id : Of(heard'[s], id) = Of(heard[s], id)
  <1> DEFINE h == heard[s]
             p == pending_receiver[s]
             t == retiring[s]
             r == registry[s]
  <1>1. h \in Seq(Old(s)) /\ p \in Seq(Old(s)) /\ h \in Seq(Items) /\ p \in Seq(Items)
    BY OldTyped
  <1>2. \A id : Of(h, id) \in Seq(Items) /\ Of(p, id) \in Seq(Items)
    BY <1>1, OfType
  <1>3. \A id : Of(h, id) \o <<>> = Of(h, id)
    BY <1>2, ConcatEmptySeq
  <1>4. <<>> \in Seq(Old(s)) /\ p \o <<>> = p /\ <<>> \in Seq(Items)
    BY <1>1, OldSeq, ConcatEmptySeq DEF Stepped
  <1>5. r # 0 => Of(p, r) = <<>>
    BY DEF Stepped, Lines, Current
  <1>6. hw = 0 => p = <<>> /\ Rising(h)
    BY DEF Stepped, Lines, Healthy
  <1>7. CASE NothingHeard(s)
    <2>1. heard'[s] = h /\ \/ pending_receiver'[s] = <<>>
                           \/ pending_receiver'[s] = p /\ retiring'[s] = t
      BY <1>7 DEF NothingHeard
    <2> HIDE DEF h, p, t, r
    <2>2. \A id : Total(s, id)' \in {Total(s, id), Of(h, id)}
      BY <2>1, <1>3, OfEmpty DEF Total, Tails, h, p, t
    <2>3. ASSUME NEW id, id = r, r # 0
          PROVE  Total(s, id)' = Of(h, id) /\ Of(pending_receiver'[s], id) = <<>>
      <3>1. Of(pending_receiver'[s], id) = <<>>
        BY <2>1, <2>3, <1>5, OfEmpty
      <3>2. Tails(s, id)' = <<>>
        BY <3>1 DEF Tails
      <3> QED BY <2>1, <3>1, <3>2, <1>3 DEF Total
    <2> QED BY <2>1, <2>2, <2>3, <1>1, <1>4, <1>5, <1>6 DEF h, p, t, r
  <1>8. CASE TailsHeard(s)
    <2>1. Delivered(s, <<>>, t) /\ heard'[s] = h \o Of(p \o <<>>, t) /\ pending_receiver'[s] = <<>>
      BY <1>8 DEF TailsHeard, Delivered
    <2>2. /\ \A i : i # t => Of(heard'[s], i) = Of(h, i)
          /\ Of(heard'[s], t) = Of(h, t) \o (Of(p, t) \o Of(<<>>, t))
          /\ heard'[s] \in Seq(Old(s))
      <3>1. <<>> \in Seq(Items) /\ <<>> \in Seq(Old(s))
        BY <1>4
      <3>2. Delivered(s, <<>>, retiring[s])
        BY <2>1
      <3>3. /\ \A i : i # retiring[s] => Of(heard'[s], i) = Of(heard[s], i)
            /\ Of(heard'[s], retiring[s]) =
                 Of(heard[s], retiring[s]) \o (Of(pending_receiver[s], retiring[s]) \o Of(<<>>, retiring[s]))
            /\ heard'[s] \in Seq(Old(s))
        <4> DEFINE e == <<>>
        <4>1. e \in Seq(Items) /\ e \in Seq(Old(s)) /\ Delivered(s, e, retiring[s])
          BY <3>1, <3>2
        <4> HIDE DEF e
        <4>2. \A i : i # retiring[s] => Of(heard'[s], i) = Of(heard[s], i)
          BY <4>1, DeliveredOf, SMTT(20)
        <4>3. Of(heard'[s], retiring[s]) =
                Of(heard[s], retiring[s]) \o (Of(pending_receiver[s], retiring[s]) \o Of(e, retiring[s]))
          BY <4>1, DeliveredOf
        <4>4. heard'[s] \in Seq(Old(s))
          BY <4>1, DeliveredOf
        <4> QED BY <4>2, <4>3, <4>4 DEF e
      <3> QED BY <3>3
    <2>3. Of(heard'[s], t) = Of(h, t) \o Of(p, t)
      BY <2>2, <1>2, OfEmpty, ConcatEmptySeq
    <2> HIDE DEF h, p, t, r
    <2>4. \A id : Total(s, id)' = Of(heard'[s], id) \o <<>>
      BY <2>1, OfEmpty DEF Total, Tails
    <2>5. \A id : Of(heard'[s], id) \o <<>> = Of(heard'[s], id)
      <3>1. \A id : Of(heard'[s], id) \in Seq(Items)
        <4>1. heard'[s] \in Seq(Items)
          BY <2>2, OldSeq DEF Stepped
        <4> QED BY <4>1, OfType
      <3> QED BY <3>1, ConcatEmptySeq
    <2>6. ASSUME NEW id PROVE Total(s, id)' \in {Total(s, id), Of(h, id)}
      <3>1. CASE id = t
        <4>1. Total(s, id) = Of(h, id) \o Of(p, id)
          BY <3>1 DEF Total, Tails, h, p, t
        <4> QED BY <3>1, <4>1, <2>3, <2>4, <2>5
      <3>2. CASE id # t
        BY <3>2, <2>2, <2>4, <2>5
      <3> QED BY <3>1, <3>2
    <2>7. r # 0 => Of(heard'[s], r) = Of(h, r)
      <3>1. CASE r = t
        BY <2>3, <1>3, <1>5, <3>1
      <3>2. CASE r # t
        BY <2>2, <3>2
      <3> QED BY <3>1, <3>2
    <2>8. \A id : id = r /\ r # 0 => Total(s, id)' = Of(h, id)
      BY <2>7, <2>4, <2>5
    <2>9. hw = 0 => heard'[s] = h
      BY <2>1, <1>1, <1>4, <1>6, OfEmpty, ConcatEmptySeq
    <2> QED BY <2>1, <2>2, <2>6, <2>7, <2>8, <2>9, <1>4, <1>6, OfEmpty DEF h, p, t, r
  <1> QED BY <1>7, <1>8

(* What has been heard of the current identity is the beginning of it.     *)
LEMMA CurrentUpTo ==
  ASSUME NEW s \in Slots, NEW b, Stepped(s, b), registry[s] # 0
  PROVE  UpTo(registry[s], made'[s][registry[s]], Of(heard[s], registry[s]))
  <1> DEFINE r == registry[s]
  <1>1. r \in 1..ids[s] /\ made[s][r] \in Nat /\ made'[s][r] \in Nat /\ made[s][r] <= made'[s][r]
    BY AdvanceCounts DEF Stepped
  <1>2. PICK k \in 0..made[s][r] : Of(heard[s], r) = Whole(r, k)
    BY DEF Stepped, Lines, Current
  <1>3. k \in 0..made'[s][r]
    BY <1>1
  <1> QED BY <1>2, <1>3 DEF UpTo

LEMMA SettledKept ==
  ASSUME NEW s \in Slots, NEW b, Stepped(s, b), NEW id \in 1..ids[s], id # registry[s],
         Of(heard'[s], id) = Of(heard[s], id), Settled(s, id)
  PROVE  Settled(s, id)'
  <1>1. made'[s][id] = made[s][id]
    BY AdvanceCounts DEF Stepped
  <1> QED BY <1>1 DEF Settled
-----------------------------------------------------------------------------
(* What the kinds of steps do to the lines of a slot.                      *)

LEMMA OlderHeard ==
  ASSUME NEW s \in Slots, NEW b, Stepped(s, b), NothingHeard(s) \/ TailsHeard(s)
  PROVE  Older(s)'
  <1>1. \A id : /\ Total(s, id)' \in {Total(s, id), Of(heard[s], id)}
                /\ id = registry[s] /\ id # 0 => Total(s, id)' = Of(heard[s], id)
    BY TailsAfter
  <1>2. ids[s] \in Nat
    BY AdvanceCounts DEF Stepped
  <1>3. ASSUME NEW id \in 1..ids[s], id = registry[s] PROVE UpTo(id, made'[s][id], Total(s, id)')
    <2>1. id # 0
      BY <1>2
    <2>2. UpTo(id, made'[s][id], Of(heard[s], id))
      BY <1>3, <2>1, CurrentUpTo
    <2> QED BY <1>1, <1>3, <2>1, <2>2
  <1> QED BY <1>1, <1>3, OlderKept

(* The pages of a slot are closed when its identity ends.                  *)
LEMMA EndedFacts ==
  ASSUME NEW s \in Slots, NEW b, Stepped(s, b), failure = "none",
         Delivered(s, Ended(s, b), registry[s])
  PROVE  /\ heard'[s] \in Seq(Old(s)) /\ pending_receiver'[s] = <<>>
         /\ \A id : id # registry[s] => Of(heard'[s], id) = Of(heard[s], id)
         /\ \A id : id = registry[s] /\ id # 0 => Settled(s, id)'
         /\ Older(s)'
         /\ Rising(heard[s]) => Rising(heard'[s])
  <1> DEFINE e == Ended(s, b)
             r == registry[s]
  <1>1. Typed /\ TypeOK' /\ Advance(s, b) /\ Exist(s) /\ QueueInOrder(s) /\ Line(s) /\ Current(s)
    BY DEF Stepped, Lines
  <1>2. e \in Seq(Old(s)) /\ e \in Seq(Items)
    BY <1>1, DoneType, OldSeq
  <1>3. Delivered(s, e, r)
    OBVIOUS
  <1> HIDE DEF e
  <1>4. \A i : i # r => Of(heard'[s], i) = Of(heard[s], i)
    BY <1>2, <1>3, DeliveredOf
  <1>5. Of(heard'[s], r) = Of(heard[s], r) \o (Of(pending_receiver[s], r) \o Of(e, r))
    BY <1>2, <1>3, DeliveredOf
  <1>6. heard'[s] \in Seq(Old(s)) /\ pending_receiver'[s] = <<>>
    <2>1. heard'[s] \in Seq(Old(s))
      BY <1>2, <1>3, DeliveredOf
    <2> QED BY <2>1, <1>3 DEF Delivered
  <1>7. Rising(heard[s]) => Rising(heard'[s])
    BY <1>2, <1>3, RisingHeard
  <1>8. ASSUME r # 0
        PROVE  Of(heard'[s], r) = IF made'[s][r] = 0 THEN <<>> ELSE Closed(r, made'[s][r])
    <2>1. Of(pending_receiver[s], r) = <<>>
      BY <1>1, <1>8 DEF Current
    <2>2. Of(e, r) \in Seq(Items)
      BY <1>2, OfType
    <2>3. <<>> \o Of(e, r) = Of(e, r)
      BY <2>2
    <2>4. Of(heard[s], r) \o Of(Ended(s, b), r) = IF made'[s][r] = 0 THEN <<>> ELSE Closed(r, made'[s][r])
      BY <1>1, <1>8, FinishFacts
    <2> QED BY <1>5, <2>1, <2>3, <2>4 DEF e
  <1>9. \A id : id = r /\ id # 0 => Settled(s, id)'
    BY <1>8 DEF Settled
  <1>10. Older(s)'
    <2>1. ASSUME NEW id PROVE Total(s, id)' = Of(heard'[s], id)
      <3>1. heard'[s] \in Seq(Items)
        BY <1>1, <1>6, OldSeq
      <3>2. Of(heard'[s], id) \o <<>> = Of(heard'[s], id)
        BY <3>1, OfType, ConcatEmptySeq
      <3>3. Tails(s, id)' = <<>>
        BY <1>6, OfEmpty DEF Tails
      <3> QED BY <3>2, <3>3 DEF Total
    <2>2. \A id \in 1..ids[s] : id # r => Total(s, id)' \in {Total(s, id), Of(heard[s], id)}
      BY <1>4, <2>1
    <2>3. ASSUME NEW id \in 1..ids[s], id = r PROVE UpTo(id, made'[s][id], Total(s, id)')
      <3>1. id # 0 /\ made'[s][id] \in Nat /\ id \in Nat \ {0}
        BY <1>1, AdvanceCounts
      <3>2. Total(s, id)' = IF made'[s][id] = 0 THEN <<>> ELSE Closed(id, made'[s][id])
        BY <1>8, <2>1, <2>3, <3>1
      <3>3. Whole(id, 0) = <<>>
        BY <3>1, WholeType
      <3>4. 0 \in 0..made'[s][id] /\ made'[s][id] \in 0..made'[s][id]
        BY <3>1
      <3> QED BY <3>1, <3>2, <3>3, <3>4, UpToWhole
    <2> QED BY <2>2, <2>3, OlderKept
  <1> QED BY <1>4, <1>6, <1>7, <1>9, <1>10

(* Without a failure of the capture.                                       *)
Memory(s) ==
  hw' = 0 /\ receivers' # "broken" => consumed'[s] \subseteq ToSet(pending_iq'[s])
Clean(s) ==
  /\ page'[s] \in {0, registry'[s]}
  /\ \A i \in 1..Len(queued'[s]) : queued'[s][i].id = registry'[s]
  /\ \A i \in 1..Len(Unheard'[s]) :
       Unheard'[s][i].id = registry'[s] \/ Unheard'[s][i].id <= exempt'[s]
Settles(s) ==
  \/ exempt'[s] \in {ids[s], ids'[s]}
  \/ /\ failure = "none" /\ exempt'[s] = exempt[s]
     /\ \A id : id # registry[s] => Of(heard'[s], id) = Of(heard[s], id)
     /\ \A id : id = registry[s] /\ id # 0 /\ registry'[s] # id => Settled(s, id)'

LEMMA HealthyAfter ==
  ASSUME NEW s \in Slots, NEW b, Stepped(s, b), Memory(s),
         hw = 0 => pending_receiver'[s] = <<>> /\ Rising(heard'[s]),
         failure' = "none" /\ hw = 0 => Clean(s) /\ Settles(s)
  PROVE  Healthy(s)'
  <1>1. Typed /\ TypeOK' /\ Advance(s, b) /\ Exist(s) /\ Healthy(s) /\ (hw' = 0 => hw = 0)
    BY DEF Stepped, Lines
  <1>2. /\ ids[s] \in Nat /\ ids'[s] \in {ids[s], ids[s] + 1} /\ registry[s] \in Nat
        /\ ids'[s] = ids[s] + 1 => registry'[s] = ids'[s]
        /\ exempt[s] \in Nat
    <2>1. exempt[s] \in Nat
      BY <1>1 DEF Typed, TypeOK
    <2> QED BY <1>1, <2>1, AdvanceCounts DEF Advance, Names
  <1> SUFFICES ASSUME hw' = 0, failure' = "none"
               PROVE  /\ Clean(s)
                      /\ \A id \in (exempt'[s] + 1)..ids'[s] : id # registry'[s] => Settled(s, id)'
    BY <1>1 DEF Healthy, Memory, Clean
  <1>3. hw = 0 /\ Clean(s) /\ Settles(s)
    BY <1>1
  <1>4. ASSUME NEW id \in (exempt'[s] + 1)..ids'[s], id # registry'[s] PROVE Settled(s, id)'
    <2>1. ~(exempt'[s] \in {ids[s], ids'[s]})
      BY <1>2, <1>4
    <2>2. /\ failure = "none" /\ exempt'[s] = exempt[s]
          /\ \A i : i # registry[s] => Of(heard'[s], i) = Of(heard[s], i)
          /\ \A i : i = registry[s] /\ i # 0 /\ registry'[s] # i => Settled(s, i)'
      BY <1>3, <2>1 DEF Settles
    <2>3. id \in (exempt[s] + 1)..ids[s] /\ id \in 1..ids[s] /\ id # 0
      BY <1>2, <1>4, <2>2
    <2>4. CASE id = registry[s]
      BY <1>4, <2>2, <2>3, <2>4
    <2>5. CASE id # registry[s]
      <3>1. Settled(s, id)
        BY <1>1, <1>3, <2>2, <2>3, <2>5 DEF Healthy
      <3>2. Of(heard'[s], id) = Of(heard[s], id)
        BY <2>2, <2>5
      <3> QED BY <2>3, <2>5, <3>1, <3>2, SettledKept
    <2> QED BY <2>4, <2>5
  <1> QED BY <1>3, <1>4

LEMMA UnheardOld ==
  ASSUME NEW s \in Slots, NEW b, Stepped(s, b), pending_iq'[s] \in Seq(OldFrames(s))
  PROVE  Unheard'[s] \in Seq(OldFrames(s)) /\ Unheard'[s] \in Seq(Old(s)) /\ Unheard'[s] \in Seq(Items)
  <1>1. Unheard'[s] = Among(pending_iq'[s], {f \in Items : f \notin consumed'[s]})
    BY UnheardNext
  <1>2. Unheard'[s] \in Seq(OldFrames(s))
    BY <1>1, AmongType
  <1> QED BY <1>2, OldSeq DEF Stepped

(* The current identity stays, and what was heard of it.                   *)
LEMMA CurrentKept ==
  ASSUME NEW s \in Slots, NEW b, Stepped(s, b), registry'[s] = registry[s],
         NothingHeard(s) \/ TailsHeard(s)
  PROVE  Current(s)'
  <1> SUFFICES ASSUME NEW r, r = registry[s], r # 0
               PROVE  /\ \E k \in 0..made'[s][r] : Of(heard'[s], r) = Whole(r, k)
                      /\ Of(pending_receiver'[s], r) = <<>>
    BY DEF Current
  <1>1. r \in 1..ids[s] /\ made[s][r] \in Nat /\ made'[s][r] \in Nat /\ made[s][r] <= made'[s][r]
    BY AdvanceCounts DEF Stepped
  <1>2. PICK k \in 0..made[s][r] : Of(heard[s], r) = Whole(r, k)
    BY DEF Stepped, Lines, Current
  <1>3. Of(heard'[s], r) = Of(heard[s], r) /\ Of(pending_receiver'[s], r) = <<>>
    BY TailsAfter
  <1>4. k \in 0..made'[s][r]
    BY <1>1
  <1> QED BY <1>2, <1>3, <1>4

(* Nothing happens to what the subscribers have, or retiring output comes. *)
LEMMA QuietLines ==
  ASSUME NEW s \in Slots, Stepped(s, <<>>), registry'[s] = registry[s],
         NothingHeard(s) \/ TailsHeard(s), Memory(s),
         queued'[s] = queued[s], page'[s] = page[s], Unheard'[s] = Unheard[s],
         failure' = failure, exempt'[s] = exempt[s],
         receivers' \in {"none", "broken"} => receivers \in {"none", "broken"}
  PROVE  Lines(s)'
  <1>1. QueueInOrder(s) /\ Line(s) /\ Healthy(s) /\ Typed /\ TypeOK' /\ Advance(s, <<>>) /\ (hw' = 0 => hw = 0)
    BY DEF Stepped, Lines
  <1>2. QueueInOrder(s)'
    BY <1>1 DEF QueueInOrder
  <1>3. Current(s)' /\ Older(s)'
    BY CurrentKept, OlderHeard
  <1>4. Line(s)'
    <2> SUFFICES ASSUME failure' = "none", NEW r, r = registry[s], r # 0
                 PROVE  /\ (Of(heard'[s], r) \o Of(queued'[s], r)) \o Of(Unheard'[s], r) = Whole(r, made'[s][r])
                        /\ page'[s] = r <=> Of(heard'[s], r) # <<>>
                        /\ receivers' \in {"none", "broken"} => made'[s][r] = 0
      BY DEF Line
    <2>1. Of(heard'[s], r) = Of(heard[s], r)
      BY TailsAfter
    <2>2. made'[s][r] = made[s][r]
      <3>1. r \in 1..ids[s]
        BY <1>1, AdvanceCounts
      <3>2. \A x : <<>> # <<x>>
        OBVIOUS
      <3> QED BY <1>1, <3>1, <3>2 DEF Advance, Adds
    <2>3. /\ (Of(heard[s], r) \o Of(queued[s], r)) \o Of(Unheard[s], r) = Whole(r, made[s][r])
          /\ page[s] = r <=> Of(heard[s], r) # <<>>
          /\ receivers \in {"none", "broken"} => made[s][r] = 0
      BY <1>1 DEF Line
    <2> QED BY <2>1, <2>2, <2>3
  <1>5. Healthy(s)'
    <2>1. hw = 0 => /\ pending_receiver'[s] = <<>> /\ Rising(heard'[s])
                    /\ \A id : Of(heard'[s], id) = Of(heard[s], id)
      BY TailsAfter
    <2>2. failure' = "none" /\ hw = 0 => Clean(s) /\ Settles(s)
      BY <1>1, <2>1 DEF Healthy, Clean, Settles
    <2> QED BY <2>1, <2>2, HealthyAfter
  <1> QED BY <1>2, <1>3, <1>4, <1>5 DEF Lines

(* Workers that have failed have nothing.                                  *)
LEMMA RestLines ==
  ASSUME NEW s \in Slots, NEW b, Stepped(s, b), Memory(s), pending_iq'[s] \in Seq(OldFrames(s)),
         failure' # "none", heard'[s] = heard[s], pending_receiver'[s] = <<>>,
         queued'[s] = <<>>, page'[s] = 0
  PROVE  Lines(s)'
  <1>1. Typed /\ TypeOK' /\ Advance(s, b)
    BY DEF Stepped
  <1>2. NothingHeard(s)
    BY DEF NothingHeard
  <1>3. QueueInOrder(s)' /\ Older(s)'
    BY <1>2, EmptyQueue, OlderHeard
  <1>4. Line(s)'
    BY DEF Line
  <1>5. Current(s)'
    <2>1. CASE registry'[s] = registry[s]
      BY <1>2, <2>1, CurrentKept
    <2>2. CASE registry'[s] # registry[s]
      <3>1. registry'[s] \in {0, ids[s] + 1}
        BY <1>1, <2>2 DEF Advance, Names
      <3>2. heard'[s] \in Seq(Old(s)) /\ queued'[s] \in Seq(Old(s)) /\ pending_receiver'[s] \in Seq(Old(s))
        BY <1>1, OldTyped, OldSeq
      <3>3. Unheard'[s] \in Seq(Old(s))
        BY UnheardOld
      <3>4. page'[s] <= ids[s]
        BY <1>1, AdvanceCounts
      <3> QED BY <3>1, <3>2, <3>3, <3>4, FreshCurrent
    <2> QED BY <2>1, <2>2
  <1>6. Healthy(s)'
    <2>1. hw = 0 => Rising(heard'[s])
      BY DEF Stepped, Lines, Healthy
    <2> QED BY <2>1, HealthyAfter
  <1> QED BY <1>3, <1>4, <1>5, <1>6 DEF Lines

LEMMA OfHas ==
  ASSUME NEW q \in Seq(Items), NEW id, Of(q, id) = <<>>
  PROVE  \A i \in 1..Len(q) : q[i].id # id
  <1>1. ToSet(Of(q, id)) = ToSet(q) \cap {i \in Items : i.id = id}
    BY AmongSet DEF Of
  <1>2. ToSet(Of(q, id)) = {}
    BY DEF ToSet
  <1>3. ASSUME NEW i \in 1..Len(q), q[i].id = id PROVE FALSE
    <2>1. q[i] \in Items /\ q[i] \in ToSet(q)
      BY ElementOfSeq DEF ToSet
    <2> QED BY <1>1, <1>2, <1>3, <2>1
  <1> QED BY <1>3

(* An identity of which the workers have had nothing.                      *)
LEMMA NothingOf ==
  ASSUME NEW s \in Slots, NEW b, Stepped(s, b), failure = "none",
         registry[s] # 0 => made'[s][registry[s]] = 0
  PROVE  /\ registry[s] # 0 => Of(heard[s], registry[s]) = <<>>
         /\ hw = 0 => /\ page[s] = 0 /\ queued[s] = <<>>
                      /\ \A i \in 1..Len(Unheard[s]) : Unheard[s][i].id <= exempt[s]
  <1> DEFINE r == registry[s]
             h == Of(heard[s], r)
             q == Of(queued[s], r)
             u == Of(Unheard[s], r)
  <1>1. Typed /\ TypeOK' /\ Advance(s, b) /\ Exist(s) /\ Line(s) /\ Healthy(s)
    BY DEF Stepped, Lines
  <1>2. /\ heard[s] \in Seq(Items) /\ queued[s] \in Seq(Items) /\ Unheard[s] \in Seq(Items)
        /\ page[s] \in Nat
    BY OldTyped
  <1>3. h \in Seq(Items) /\ q \in Seq(Items) /\ u \in Seq(Items)
    BY <1>2, OfType
  <1>4. r # 0 => /\ h = <<>> /\ u = <<>> /\ page[s] # r
    <2> SUFFICES ASSUME r # 0 PROVE h = <<>> /\ u = <<>> /\ page[s] # r
      OBVIOUS
    <2>1. made[s][r] = 0 /\ r \in Nat \ {0}
      <3>1. r \in 1..ids[s] /\ ids[s] \in Nat
        BY <1>1, AdvanceCounts
      <3>2. made[s][r] \in Nat /\ made'[s][r] \in Nat /\ made[s][r] <= made'[s][r]
        BY <1>1, <3>1, AdvanceCounts
      <3> QED BY <3>1, <3>2
    <2>2. (h \o q) \o u = Whole(r, made[s][r]) /\ (page[s] = r <=> h # <<>>)
      BY <1>1 DEF Line
    <2>3. Whole(r, 0) = <<>>
      BY <2>1, WholeType
    <2> HIDE DEF h, q, u
    <2>4. h \o q \in Seq(Items)
      BY <1>3, ConcatElements
    <2>5. h \o q = <<>> /\ u = <<>>
      BY <1>3, <2>1, <2>2, <2>3, <2>4, ConcatElements
    <2>6. h = <<>>
      BY <1>3, <2>5, ConcatElements
    <2> QED BY <2>2, <2>5, <2>6
  <1>5. ASSUME hw = 0
        PROVE  /\ page[s] = 0 /\ queued[s] = <<>>
               /\ \A i \in 1..Len(Unheard[s]) : Unheard[s][i].id <= exempt[s]
    <2>1. /\ page[s] \in {0, r}
          /\ \A i \in 1..Len(queued[s]) : queued[s][i].id = r
          /\ \A i \in 1..Len(Unheard[s]) : Unheard[s][i].id = r \/ Unheard[s][i].id <= exempt[s]
      BY <1>1, <1>5 DEF Healthy
    <2>2. page[s] = 0
      BY <2>1, <1>4
    <2>3. queued[s] = <<>>
      <3>1. CASE r = 0
        <4>1. \A i \in 1..Len(queued[s]) : queued[s][i].id # 0
          BY <1>2, ElementOfSeq, ItemFacts
        <4>2. Len(queued[s]) = 0
          <5>1. ~(1 \in 1..Len(queued[s]))
            BY <2>1, <3>1, <4>1
          <5> QED BY <1>2, <5>1
        <4> QED BY <1>2, <4>2
      <3>2. CASE r # 0
        <4>1. q = queued[s]
          BY <1>2, <2>1, OfAll
        <4>2. (h \o q) \o u = <<>>
          <5>1. made[s][r] = 0 /\ r \in Nat \ {0}
            <6>1. r \in 1..ids[s] /\ ids[s] \in Nat
              BY <1>1, <3>2, AdvanceCounts
            <6>2. made[s][r] \in Nat /\ made'[s][r] \in Nat /\ made[s][r] <= made'[s][r]
              BY <1>1, <6>1, AdvanceCounts
            <6> QED BY <3>2, <6>1, <6>2
          <5>2. Whole(r, 0) = <<>>
            BY <5>1, WholeType
          <5> QED BY <1>1, <3>2, <5>1, <5>2 DEF Line
        <4> HIDE DEF h, q, u
        <4>3. h \o q \in Seq(Items)
          BY <1>3, ConcatElements
        <4>4. h \o q = <<>>
          BY <1>3, <4>2, <4>3, ConcatElements
        <4>5. q = <<>>
          BY <1>3, <4>4, ConcatElements
        <4> QED BY <4>1, <4>5
      <3> QED BY <3>1, <3>2
    <2>4. \A i \in 1..Len(Unheard[s]) : Unheard[s][i].id # r
      <3>1. CASE r = 0
        BY <1>2, <3>1, ElementOfSeq, ItemFacts
      <3>2. CASE r # 0
        <4>1. Of(Unheard[s], registry[s]) = <<>>
          BY <1>4, <3>2
        <4> QED BY <1>2, <4>1, OfHas
      <3> QED BY <3>1, <3>2
    <2> QED BY <2>1, <2>2, <2>3, <2>4
  <1> QED BY <1>4, <1>5

(* The identity ends or is replaced, nothing having been made of it.       *)
LEMMA BareLines ==
  ASSUME NEW s \in Slots, NEW b, Stepped(s, b), registry'[s] \in {0, ids[s] + 1},
         failure' = failure, exempt'[s] = exempt[s], Memory(s),
         NothingHeard(s) \/ TailsHeard(s), pending_iq'[s] \in Seq(OldFrames(s)),
         failure = "none" /\ registry[s] # 0 => made'[s][registry[s]] = 0,
         \/ queued'[s] = queued[s] /\ page'[s] = page[s] /\ Unheard'[s] = Unheard[s]
         \/ /\ queued'[s] = <<>> /\ Unheard'[s] = <<>> /\ page'[s] <= ids[s]
            /\ page[s] = 0 /\ queued[s] = <<>> => page'[s] = 0
  PROVE  Lines(s)'
  <1>1. Typed /\ TypeOK' /\ Advance(s, b) /\ QueueInOrder(s) /\ (hw' = 0 => hw = 0)
    BY DEF Stepped, Lines
  <1>2. QueueInOrder(s)'
    <2>1. CASE queued'[s] = queued[s] /\ page'[s] = page[s] /\ Unheard'[s] = Unheard[s]
      BY <1>1, <2>1 DEF QueueInOrder
    <2>2. CASE queued'[s] = <<>> /\ Unheard'[s] = <<>>
      BY <2>2, EmptyQueue
    <2> QED BY <2>1, <2>2
  <1>3. Line(s)' /\ Current(s)'
    <2>1. heard'[s] \in Seq(Old(s)) /\ pending_receiver'[s] \in Seq(Old(s))
      BY TailsAfter
    <2>2. Unheard'[s] \in Seq(Old(s))
      BY UnheardOld
    <2>3. queued'[s] \in Seq(Old(s))
      BY <1>1, OldTyped, OldSeq
    <2>4. page'[s] <= ids[s]
      BY OldTyped
    <2> QED BY <2>1, <2>2, <2>3, <2>4, FreshCurrent
  <1>4. Older(s)'
    BY OlderHeard
  <1>5. Healthy(s)'
    <2>1. hw = 0 => /\ pending_receiver'[s] = <<>> /\ Rising(heard'[s])
                    /\ \A id : Of(heard'[s], id) = Of(heard[s], id)
      BY TailsAfter
    <2>2. ASSUME failure' = "none", hw = 0 PROVE Clean(s) /\ Settles(s)
      <3>1. /\ registry[s] # 0 => Of(heard[s], registry[s]) = <<>>
            /\ page[s] = 0 /\ queued[s] = <<>>
            /\ \A i \in 1..Len(Unheard[s]) : Unheard[s][i].id <= exempt[s]
        BY <2>2, NothingOf
      <3>2. Clean(s)
        <4>1. page'[s] = 0 /\ queued'[s] = <<>> /\ (Unheard'[s] = Unheard[s] \/ Unheard'[s] = <<>>)
          BY <3>1
        <4>2. Len(queued'[s]) = 0 /\ (Unheard'[s] = <<>> => Len(Unheard'[s]) = 0)
          BY <4>1
        <4> QED BY <3>1, <4>1, <4>2 DEF Clean
      <3>3. \A id : id = registry[s] /\ id # 0 => Settled(s, id)'
        BY <2>1, <2>2, <3>1 DEF Settled
      <3> QED BY <2>1, <2>2, <3>2, <3>3 DEF Settles
    <2> QED BY <2>1, <2>2, HealthyAfter
  <1> QED BY <1>2, <1>3, <1>4, <1>5 DEF Lines

(* The workers start anew.                                                 *)
LEMMA CutLines ==
  ASSUME NEW s \in Slots, NEW b, Stepped(s, b), registry'[s] \in {0, ids[s] + 1},
         exempt'[s] \in {ids[s], ids'[s]}, Memory(s), pending_iq'[s] \in Seq(OldFrames(s)),
         queued'[s] = <<>>, page'[s] = 0,
         \/ NothingHeard(s) \/ TailsHeard(s)
         \/ failure = "none" /\ Delivered(s, Ended(s, b), registry[s])
  PROVE  Lines(s)'
  <1>1. Typed /\ TypeOK' /\ Advance(s, b) /\ (hw' = 0 => hw = 0) /\ ids[s] \in Nat /\ ids[s] <= ids'[s]
    BY AdvanceCounts DEF Stepped
  <1>2. /\ heard'[s] \in Seq(Old(s)) /\ pending_receiver'[s] \in Seq(Old(s)) /\ Older(s)'
        /\ hw = 0 => pending_receiver'[s] = <<>> /\ Rising(heard'[s])
    <2>1. CASE NothingHeard(s) \/ TailsHeard(s)
      BY <2>1, TailsAfter, OlderHeard
    <2>2. CASE failure = "none" /\ Delivered(s, Ended(s, b), registry[s])
      <3>1. hw = 0 => Rising(heard[s])
        BY DEF Stepped, Lines, Healthy
      <3> QED BY <2>2, <3>1, <1>1, EndedFacts, OldSeq
    <2> QED BY <2>1, <2>2
  <1>3. QueueInOrder(s)'
    BY EmptyQueue
  <1>4. Unheard'[s] \in Seq(Old(s)) /\ queued'[s] \in Seq(Old(s)) /\ page'[s] <= ids[s]
    BY <1>1, UnheardOld, OldSeq
  <1>5. Line(s)' /\ Current(s)'
    BY <1>2, <1>4, FreshCurrent
  <1>6. Healthy(s)'
    <2>1. \A i \in 1..Len(Unheard'[s]) : Unheard'[s][i].id <= exempt'[s]
      <3>1. \A i \in 1..Len(Unheard'[s]) : Unheard'[s][i].id \in 1..ids[s]
        BY <1>1, <1>4, OldSeq
      <3>2. exempt'[s] \in Nat /\ ids[s] <= exempt'[s] /\ ids'[s] \in Nat
        BY <1>1, AdvanceCounts
      <3> QED BY <1>1, <3>1, <3>2
    <2>2. Len(queued'[s]) = 0
      OBVIOUS
    <2>3. Clean(s) /\ Settles(s)
      BY <2>1, <2>2 DEF Clean, Settles
    <2> QED BY <1>2, <2>3, HealthyAfter
  <1> QED BY <1>2, <1>3, <1>5, <1>6 DEF Lines

(* The capture has failed.                                                 *)
LEMMA LostLines ==
  ASSUME NEW s \in Slots, NEW b, Stepped(s, b), registry'[s] = 0, hw' # 0,
         queued'[s] = queued[s], page'[s] = page[s], Unheard'[s] = Unheard[s],
         NothingHeard(s) \/ TailsHeard(s)
  PROVE  Lines(s)'
  <1>1. QueueInOrder(s)'
    BY DEF Stepped, Lines, QueueInOrder
  <1>2. Line(s)' /\ Current(s)' /\ Healthy(s)'
    BY DEF Line, Current, Healthy
  <1> QED BY <1>1, <1>2, OlderHeard DEF Lines

(* The same when the workers are drained for the last time: what they put  *)
(* out waits to be delivered.                                              *)
LEMMA FailedLines ==
  ASSUME NEW s \in Slots, NEW b, Stepped(s, b), registry'[s] = 0, hw' # 0, failure = "none",
         queued'[s] = <<>>, page'[s] = 0, heard'[s] = heard[s],
         pending_receiver'[s] = pending_receiver[s] \o Ended(s, b), retiring'[s] = registry[s]
  PROVE  Lines(s)'
  <1> DEFINE e == Ended(s, b)
             p == pending_receiver[s]
             r == registry[s]
             h == heard[s]
  <1>1. Typed /\ TypeOK' /\ Advance(s, b) /\ Exist(s) /\ QueueInOrder(s) /\ Line(s) /\ Current(s)
    BY DEF Stepped, Lines
  <1>2. QueueInOrder(s)' /\ Line(s)' /\ Current(s)' /\ Healthy(s)'
    <2>1. Line(s)' /\ Current(s)' /\ Healthy(s)'
      BY DEF Line, Current, Healthy
    <2> QED BY <2>1, EmptyQueue
  <1>3. e \in Seq(Items) /\ p \in Seq(Items) /\ h \in Seq(Items)
    BY <1>1, DoneType, OldSeq, OldTyped
  <1>4. \A id : Of(p \o e, id) = Of(p, id) \o Of(e, id)
    <2> HIDE DEF p, e
    <2> QED BY <1>3, OfConcat
  <1>5. \A id : Of(h, id) \in Seq(Items) /\ Of(p, id) \in Seq(Items) /\ Of(e, id) \in Seq(Items)
    <2> HIDE DEF p, e, h
    <2> QED BY <1>3, OfType
  <1>6. ASSUME NEW id, id # r PROVE Total(s, id)' = Of(h, id)
    <2>1. Tails(s, id)' = <<>>
      BY <1>6 DEF Tails
    <2>2. Of(h, id) \o <<>> = Of(h, id)
      BY <1>5, ConcatEmptySeq
    <2> QED BY <2>1, <2>2 DEF Total
  <1>7. ASSUME NEW id \in 1..ids[s], id = r PROVE UpTo(id, made'[s][id], Total(s, id)')
    <2>1. id # 0 /\ made'[s][id] \in Nat /\ id \in Nat \ {0}
      BY <1>1, AdvanceCounts
    <2>2. Tails(s, id)' = Of(p, id) \o Of(e, id)
      BY <1>4, <1>7 DEF Tails
    <2>3. Of(p, id) = <<>>
      BY <1>1, <1>7, <2>1 DEF Current
    <2>4. <<>> \o Of(e, id) = Of(e, id)
      BY <1>5, ConcatEmptySeq
    <2>5. Of(h, id) \o Of(e, id) = IF made'[s][id] = 0 THEN <<>> ELSE Closed(id, made'[s][id])
      BY <1>1, <1>7, <2>1, FinishFacts
    <2>6. Total(s, id)' = IF made'[s][id] = 0 THEN <<>> ELSE Closed(id, made'[s][id])
      BY <2>2, <2>3, <2>4, <2>5 DEF Total
    <2>7. Whole(id, 0) = <<>> /\ 0 \in 0..made'[s][id] /\ made'[s][id] \in 0..made'[s][id]
      BY <2>1, WholeType
    <2> QED BY <2>1, <2>6, <2>7, UpToWhole
  <1>8. Older(s)'
    <2>1. \A id \in 1..ids[s] : id # registry[s] => Total(s, id)' \in {Total(s, id), Of(heard[s], id)}
      BY <1>6
    <2> QED BY <1>7, <2>1, OlderKept
  <1> QED BY <1>2, <1>8 DEF Lines

(* The identity ends with its page.                                        *)
LEMMA EndLines ==
  ASSUME NEW s \in Slots, NEW b, Stepped(s, b), failure = "none", failure' = "none",
         registry'[s] \in {0, ids[s] + 1}, Delivered(s, Ended(s, b), registry[s]),
         queued'[s] = <<>>, page'[s] = 0, Unheard'[s] = <<>>, exempt'[s] = exempt[s],
         Memory(s), pending_iq'[s] \in Seq(OldFrames(s))
  PROVE  Lines(s)'
  <1>1. Typed /\ TypeOK' /\ Advance(s, b) /\ (hw' = 0 => hw = 0) /\ ids[s] \in Nat
    BY AdvanceCounts DEF Stepped
  <1>2. /\ heard'[s] \in Seq(Old(s)) /\ pending_receiver'[s] = <<>> /\ Older(s)'
        /\ \A id : id # registry[s] => Of(heard'[s], id) = Of(heard[s], id)
        /\ \A id : id = registry[s] /\ id # 0 => Settled(s, id)'
        /\ Rising(heard[s]) => Rising(heard'[s])
    BY EndedFacts
  <1>3. hw = 0 => Rising(heard'[s])
    BY <1>2 DEF Stepped, Lines, Healthy
  <1>4. QueueInOrder(s)'
    BY EmptyQueue
  <1>5. Unheard'[s] \in Seq(Old(s)) /\ queued'[s] \in Seq(Old(s)) /\ page'[s] <= ids[s]
        /\ pending_receiver'[s] \in Seq(Old(s))
    BY <1>1, <1>2, OldSeq
  <1>6. Line(s)' /\ Current(s)'
    BY <1>2, <1>5, FreshCurrent
  <1>7. Healthy(s)'
    <2>1. Len(queued'[s]) = 0 /\ Len(Unheard'[s]) = 0
      OBVIOUS
    <2>2. Clean(s) /\ Settles(s)
      BY <1>2, <2>1 DEF Clean, Settles
    <2> QED BY <1>2, <1>3, <2>2, HealthyAfter
  <1> QED BY <1>2, <1>4, <1>6, <1>7 DEF Lines

(* What is heard of the identities when output of one of them is admitted. *)
LEMMA HeardMore ==
  ASSUME NEW s \in Slots, NEW b, Stepped(s, b), NEW x \in Seq(Old(s)), NEW r, r = registry[s],
         heard'[s] = heard[s] \o Of(x, r)
  PROVE  /\ heard'[s] \in Seq(Old(s))
         /\ \A i : i # r => Of(heard'[s], i) = Of(heard[s], i)
         /\ Of(heard'[s], r) = Of(heard[s], r) \o Of(x, r)
         /\ r = 0 => heard'[s] = heard[s]
         /\ Rising(heard[s]) => Rising(heard'[s])
  <1> DEFINE h == heard[s]
             o == Of(x, r)
  <1>1. Typed /\ TypeOK' /\ Advance(s, b)
    BY DEF Stepped
  <1>2. h \in Seq(Items) /\ h \in Seq(Old(s)) /\ x \in Seq(Items)
    BY <1>1, OldTyped, OldSeq
  <1>3. o \in Seq(Items) /\ o \in Seq(Old(s)) /\ \A i \in 1..Len(o) : o[i].id = r
    BY <1>1, <1>2, OfType, OldSeq
  <1>4. \A i : Of(o, i) = IF r = i THEN Of(x, i) ELSE <<>>
    BY <1>2, OfOf
  <1>5. heard'[s] = h \o o
    OBVIOUS
  <1>6. ids[s] \in Nat /\ (r # 0 => r = ids[s])
    BY <1>1, AdvanceCounts
  <1>7. \A i \in 1..Len(h) : h[i].id <= ids[s]
    BY <1>1, <1>2, <1>6, OldSeq
  <1>8. r = 0 => o = <<>>
    <2>1. \A i \in 1..Len(x) : x[i].id # 0
      BY <1>2, ElementOfSeq, ItemFacts
    <2> QED BY <2>1, <1>2, OfNone
  <1> HIDE DEF h, o
  <1>9. h \o o \in Seq(Old(s))
    BY <1>1, <1>2, <1>3, OldSeq
  <1>10. \A i : Of(h \o o, i) = Of(h, i) \o Of(o, i)
    BY <1>2, <1>3, OfConcat
  <1>11. \A i : Of(h, i) \in Seq(Items)
    BY <1>2, OfType
  <1>12. \A i : i # r => Of(h \o o, i) = Of(h, i)
    BY <1>4, <1>10, <1>11, ConcatEmptySeq
  <1>13. r = 0 => h \o o = h
    BY <1>2, <1>8, ConcatEmptySeq
  <1>14. Rising(h) => Rising(h \o o)
    <2>1. CASE r = 0
      BY <1>13, <2>1
    <2>2. CASE r # 0
      BY <1>2, <1>3, <1>6, <1>7, <2>2, RisingConcat
    <2> QED BY <2>1, <2>2
  <1>15. Of(h \o o, r) = Of(h, r) \o Of(x, r)
    BY <1>4, <1>10
  <1> QED BY <1>5, <1>9, <1>12, <1>13, <1>14, <1>15 DEF h

(* The publisher queues what is pending and what it has polled.            *)
LEMMA PollLines ==
  ASSUME NEW s \in Slots, NEW b, Stepped(s, b), failure = "none", failure' = "none",
         registry'[s] = registry[s], queued'[s] = All(s, b), page'[s] = page[s],
         Unheard'[s] = <<>>, NothingHeard(s), exempt'[s] = exempt[s], Memory(s),
         receivers' = "live"
  PROVE  Lines(s)'
  <1>1. /\ Typed /\ TypeOK' /\ Advance(s, b) /\ Exist(s) /\ QueueInOrder(s) /\ Line(s) /\ Healthy(s)
        /\ (hw' = 0 => hw = 0)
    BY DEF Stepped, Lines
  <1>2. /\ Acc(s, b) \in Seq(Items) /\ \A i \in 1..Len(Acc(s, b)) : Acc(s, b)[i].id = registry[s]
        /\ Rising(All(s, b)) /\ Within(page[s], All(s, b), ids[s]) /\ queued[s] \in Seq(Items)
    BY <1>1, AllType, OldSeq, OldTyped
  <1>3. QueueInOrder(s)'
    BY <1>2 DEF QueueInOrder, Within
  <1>4. Current(s)' /\ Older(s)'
    BY CurrentKept, OlderHeard
  <1>5. Line(s)'
    <2> SUFFICES ASSUME NEW r, r = registry[s], r # 0
                 PROVE  /\ (Of(heard'[s], r) \o Of(queued'[s], r)) \o Of(Unheard'[s], r) = Whole(r, made'[s][r])
                        /\ page'[s] = r <=> Of(heard'[s], r) # <<>>
      BY DEF Line
    <2>1. Of(heard'[s], r) = Of(heard[s], r) /\ (page[s] = r <=> Of(heard[s], r) # <<>>)
      BY <1>1 DEF Line, NothingHeard
    <2>2. Of(heard[s], r) \o Of(All(s, b), r) = Whole(r, made'[s][r])
      BY <1>1, FinishFacts
    <2>3. Whole(r, made'[s][r]) \o <<>> = Whole(r, made'[s][r])
      <3>1. r \in Nat \ {0} /\ made'[s][r] \in Nat
        BY <1>1, AdvanceCounts
      <3> QED BY <3>1, WholeType, ConcatEmptySeq
    <2>4. Of(Unheard'[s], r) = <<>>
      BY OfEmpty
    <2> QED BY <2>1, <2>2, <2>3, <2>4
  <1>6. Healthy(s)'
    <2>1. hw = 0 => /\ pending_receiver'[s] = <<>> /\ Rising(heard'[s])
                    /\ \A id : Of(heard'[s], id) = Of(heard[s], id)
      BY TailsAfter
    <2>2. ASSUME hw = 0 PROVE Clean(s) /\ Settles(s)
      <3>1. /\ page[s] \in {0, registry[s]}
            /\ \A i \in 1..Len(queued[s]) : queued[s][i].id = registry[s]
        BY <1>1, <2>2 DEF Healthy
      <3>2. \A i \in 1..Len(All(s, b)) : All(s, b)[i].id = registry[s]
        <4> DEFINE q == queued[s]
                   a == Acc(s, b)
        <4>1. q \in Seq(Items) /\ a \in Seq(Items)
              /\ (\A i \in 1..Len(q) : q[i].id = registry[s]) /\ (\A i \in 1..Len(a) : a[i].id = registry[s])
          BY <1>2, <3>1
        <4> HIDE DEF q, a
        <4>2. \A i \in 1..Len(q \o a) : (q \o a)[i].id = registry[s]
          <5>1. \A i \in 1..Len(q \o a) :
                   \/ i \in 1..Len(q) /\ (q \o a)[i] = q[i]
                   \/ i - Len(q) \in 1..Len(a) /\ (q \o a)[i] = a[i - Len(q)]
            BY <4>1, ConcatElements
          <5> QED BY <4>1, <5>1
        <4> QED BY <4>2 DEF All, q, a
      <3>3. Len(Unheard'[s]) = 0
        OBVIOUS
      <3> QED BY <2>1, <2>2, <3>1, <3>2, <3>3 DEF Clean, Settles
    <2> QED BY <2>1, <2>2, HealthyAfter
  <1> QED BY <1>3, <1>4, <1>5, <1>6 DEF Lines

(* The workers put out all they have, and their page stays open.           *)
LEMMA FlushLines ==
  ASSUME NEW s \in Slots, NEW b, Stepped(s, b), failure = "none", failure' = "none",
         registry'[s] = registry[s], queued'[s] = <<>>, page'[s] = LastPage(s, b),
         Unheard'[s] = <<>>, Delivered(s, Done(s, b), registry[s]), exempt'[s] = exempt[s], Memory(s),
         receivers' = "live"
  PROVE  Lines(s)'
  <1>1. /\ Typed /\ TypeOK' /\ Advance(s, b) /\ Exist(s) /\ QueueInOrder(s) /\ Line(s) /\ Healthy(s)
        /\ (hw' = 0 => hw = 0) /\ Current(s)
    BY DEF Stepped, Lines
  <1> DEFINE d == Done(s, b)
  <1>2. d \in Seq(Items) /\ d \in Seq(Old(s)) /\ Delivered(s, d, registry[s])
    BY <1>1, DoneType
  <1> HIDE DEF d
  <1>3. ASSUME NEW i, i # registry[s] PROVE Of(heard'[s], i) = Of(heard[s], i)
    BY <1>2, <1>3, DeliveredElsewhere
  <1>4. Of(heard'[s], registry[s]) =
          Of(heard[s], registry[s]) \o (Of(pending_receiver[s], registry[s]) \o Of(d, registry[s]))
    BY <1>2, DeliveredHere
  <1>5. pending_receiver'[s] = <<>>
    BY DEF Delivered
  <1>6. ASSUME NEW r, r = registry[s], r # 0
        PROVE  /\ r \in Nat \ {0} /\ made'[s][r] \in Nat
               /\ Of(heard'[s], r) = Whole(r, made'[s][r])
    <2>1. r \in Nat \ {0} /\ made'[s][r] \in Nat
      BY <1>1, <1>6, AdvanceCounts
    <2>2. Of(pending_receiver[s], r) = <<>>
      BY <1>1, <1>6 DEF Current
    <2>3. Of(d, r) \in Seq(Items)
      BY <1>2, OfType
    <2>4. <<>> \o Of(d, r) = Of(d, r)
      BY <2>3
    <2>5. Of(heard[s], r) \o Of(Done(s, b), r) = Whole(r, made'[s][r])
      BY <1>1, <1>6, FinishFacts
    <2> QED BY <1>4, <1>6, <2>1, <2>2, <2>4, <2>5 DEF d
  <1>7. QueueInOrder(s)'
    BY EmptyQueue
  <1>8. Line(s)'
    <2> SUFFICES ASSUME NEW r, r = registry[s], r # 0
                 PROVE  /\ (Of(heard'[s], r) \o Of(queued'[s], r)) \o Of(Unheard'[s], r) = Whole(r, made'[s][r])
                        /\ page'[s] = r <=> Of(heard'[s], r) # <<>>
      BY DEF Line
    <2>1. Of(heard'[s], r) = Whole(r, made'[s][r]) /\ r \in Nat \ {0} /\ made'[s][r] \in Nat
      BY <1>6
    <2>2. Whole(r, made'[s][r]) \in Seq(Items) /\ (Whole(r, made'[s][r]) = <<>> <=> made'[s][r] = 0)
      BY <2>1, WholeType
    <2>3. (Whole(r, made'[s][r]) \o <<>>) \o <<>> = Whole(r, made'[s][r])
      BY <2>2, ConcatEmptySeq
    <2>4. Of(queued'[s], r) = <<>> /\ Of(Unheard'[s], r) = <<>>
      BY OfEmpty
    <2>5. LastPage(s, b) = r <=> made'[s][r] # 0
      BY <1>1, FinishFacts
    <2> QED BY <2>1, <2>2, <2>3, <2>4, <2>5
  <1>9. Current(s)'
    <2> SUFFICES ASSUME NEW r, r = registry[s], r # 0
                 PROVE  /\ \E k \in 0..made'[s][r] : Of(heard'[s], r) = Whole(r, k)
                        /\ Of(pending_receiver'[s], r) = <<>>
      BY DEF Current
    <2>1. made'[s][r] \in 0..made'[s][r] /\ Of(heard'[s], r) = Whole(r, made'[s][r])
      BY <1>6
    <2> QED BY <1>5, <2>1, OfEmpty
  <1>10. Older(s)'
    <2>1. ASSUME NEW id, id # registry[s] PROVE Total(s, id)' = Of(heard[s], id)
      <3>1. Tails(s, id)' = <<>>
        BY <1>5, OfEmpty DEF Tails
      <3>2. Of(heard[s], id) \o <<>> = Of(heard[s], id)
        BY OldTyped, OfType, ConcatEmptySeq
      <3> QED BY <1>3, <2>1, <3>1, <3>2 DEF Total
    <2> QED BY <2>1, OlderKept
  <1>11. Healthy(s)'
    <2>1. hw = 0 => Rising(heard[s])
      BY <1>1 DEF Healthy
    <2>2. hw = 0 => Rising(heard'[s])
      BY <1>2, <2>1, RisingHeard
    <2>3. Len(queued'[s]) = 0 /\ Len(Unheard'[s]) = 0
      OBVIOUS
    <2>4. ASSUME hw = 0 PROVE page'[s] \in {0, registry[s]}
      <3>1. CASE registry[s] # 0
        <4>1. made'[s][registry[s]] # 0 => LastPage(s, b) = registry[s]
          BY <1>1, <3>1, FinishFacts
        <4>2. ASSUME made'[s][registry[s]] = 0 PROVE LastPage(s, b) = 0
          <5>1. page[s] = 0 /\ queued[s] = <<>>
            BY <2>4, <4>2, NothingOf
          <5>2. Of(heard[s], registry[s]) \o Of(All(s, b), registry[s]) = Whole(registry[s], 0)
            BY <1>1, <3>1, <4>2, FinishFacts
          <5>3. Whole(registry[s], 0) = <<>>
            BY <1>6, <3>1, WholeType
          <5> DEFINE x == Of(heard[s], registry[s])
                     y == Of(All(s, b), registry[s])
          <5>4. x \in Seq(Items) /\ y \in Seq(Items)
            BY <1>1, OldTyped, AllType, OfType
          <5>5. x \o y = <<>>
            BY <5>2, <5>3
          <5> HIDE DEF x, y
          <5>6. y = <<>>
            BY <5>4, <5>5, ConcatElements
          <5>7. All(s, b) = Acc(s, b)
            <6>1. Acc(s, b) \in Seq(Items)
              BY <1>1, AllType, OldSeq
            <6> QED BY <5>1, <6>1, ConcatElements DEF All
          <5>8. All(s, b) = y
            BY <1>1, <5>7, AllType, OfAll DEF y
          <5> QED BY <5>1, <5>6, <5>8, ProcessEmpty DEF LastPage
        <4> QED BY <4>1, <4>2
      <3>2. CASE registry[s] = 0
        <4>1. page[s] = 0 /\ queued[s] = <<>>
          BY <2>4, <3>2, NothingOf
        <4>2. All(s, b) = <<>>
          BY <1>1, <3>2, <4>1, AllType
        <4> QED BY <4>1, <4>2, ProcessEmpty DEF LastPage
      <3> QED BY <3>1, <3>2
    <2>5. hw = 0 => Clean(s) /\ Settles(s)
      BY <1>3, <2>3, <2>4 DEF Clean, Settles
    <2> QED BY <1>5, <2>2, <2>5, HealthyAfter
  <1> QED BY <1>7, <1>8, <1>9, <1>10, <1>11 DEF Lines

LEMMA RisingSplit ==
  ASSUME NEW a \in Seq(Items), NEW b \in Seq(Items), Rising(a \o b)
  PROVE  /\ Rising(a) /\ Rising(b)
         /\ \A i \in 1..Len(a), j \in 1..Len(b) : a[i].id <= b[j].id
  <1> DEFINE c == a \o b
             n == Len(a)
  <1>1. /\ Len(c) = n + Len(b) /\ n \in Nat /\ Len(b) \in Nat
        /\ \A i \in 1..n : c[i] = a[i]
        /\ \A i \in 1..Len(b) : c[n + i] = b[i]
    BY ConcatElements
  <1>2. Rising(c)
    OBVIOUS
  <1> HIDE DEF c, n
  <1>3. \A i \in 1..n : i \in 1..Len(c)
    BY <1>1
  <1>4. \A i \in 1..Len(b) : n + i \in 1..Len(c)
    BY <1>1
  <1>5. \A i, j \in 1..n : i < j => a[i].id <= a[j].id
    BY <1>1, <1>2, <1>3 DEF Rising
  <1>6. ASSUME NEW i \in 1..Len(b), NEW j \in 1..Len(b), i < j PROVE b[i].id <= b[j].id
    <2>1. n + i < n + j
      BY <1>1, <1>6
    <2>2. c[n + i].id <= c[n + j].id
      BY <1>2, <1>4, <2>1 DEF Rising
    <2> QED BY <1>1, <2>2
  <1>7. ASSUME NEW i \in 1..n, NEW j \in 1..Len(b) PROVE a[i].id <= b[j].id
    <2>1. i < n + j
      BY <1>1
    <2>2. c[i].id <= c[n + j].id
      BY <1>2, <1>3, <1>4, <2>1 DEF Rising
    <2> QED BY <1>1, <2>2
  <1> QED BY <1>5, <1>6, <1>7 DEF Rising, n

(* The workers put out a part of what they have.                           *)
LEMMA DrainLines ==
  ASSUME NEW s \in Slots, Stepped(s, <<>>), failure = "none", failure' = "none",
         registry'[s] = registry[s], NEW part \in Seq(Items), NEW rest \in Seq(Items),
         queued[s] = part \o rest, queued'[s] = rest, page'[s] = PageAfter(page[s], part),
         heard'[s] = heard[s] \o Of(Process(page[s], part), registry[s]),
         pending_receiver'[s] = pending_receiver[s], retiring'[s] = retiring[s],
         Unheard'[s] = Unheard[s], exempt'[s] = exempt[s], Memory(s),
         receivers' \in {"none", "broken"} => receivers \in {"none", "broken"}
  PROVE  Lines(s)' /\ heard'[s] \in Seq(Old(s)) /\ page'[s] <= ids[s]
  <1> DEFINE p == page[s]
             x == Process(p, part)
             c == ids[s]
  <1>1. /\ Typed /\ TypeOK' /\ Advance(s, <<>>) /\ Exist(s) /\ QueueInOrder(s) /\ Line(s) /\ Healthy(s)
        /\ (hw' = 0 => hw = 0) /\ Current(s)
    BY DEF Stepped, Lines
  <1>2. /\ p \in Nat /\ p <= c /\ c \in Nat /\ registry[s] \in Nat
        /\ (registry[s] # 0 => registry[s] = c /\ registry[s] \in 1..c)
    BY <1>1, OldTyped, AdvanceCounts
  <1>3. /\ Rising(part) /\ Rising(rest)
        /\ \A i \in 1..Len(part), j \in 1..Len(rest) : part[i].id <= rest[j].id
        /\ Rising(queued[s]) /\ \A i \in 1..Len(queued[s]) : p <= queued[s][i].id
    BY <1>1, RisingSplit DEF QueueInOrder
  <1>4. /\ Len(part) \in Nat /\ Len(rest) \in Nat /\ Len(queued[s]) = Len(part) + Len(rest)
        /\ \A i \in 1..Len(part) : i \in 1..Len(queued[s]) /\ queued[s][i] = part[i]
        /\ \A i \in 1..Len(rest) : Len(part) + i \in 1..Len(queued[s]) /\ queued[s][Len(part) + i] = rest[i]
    BY ConcatElements
  <1>5. queued[s] \in Seq(OldFrames(s)) /\ \A i \in 1..Len(queued[s]) : queued[s][i].id <= c /\ queued[s][i] \in OldFrames(s)
    <2>1. queued[s] \in Seq(OldFrames(s))
      BY OldTyped
    <2> QED BY <1>1, <1>2, <2>1, ElementOfSeq, OldFacts
  <1>6. Within(p, part, c)
    BY <1>3, <1>4, <1>5 DEF Within
  <1>7. x \in Seq(Old(s)) /\ x \in Seq(Items)
    <2>1. part \in Seq(OldFrames(s))
      <3>1. \A i \in 1..Len(part) : part[i] \in OldFrames(s)
        BY <1>4, <1>5
      <3>2. part = [i \in 1..Len(part) |-> part[i]]
        OBVIOUS
      <3> QED BY <1>4, <3>1, <3>2
    <2>2. /\ Old(s) \subseteq Items /\ OldFrames(s) \subseteq Old(s)
          /\ \A f \in OldFrames(s) : Item(f.id, 0) \in Old(s)
          /\ (p # 0 => Item(p, 0) \in Old(s))
      <3>1. /\ Old(s) \subseteq Items /\ OldFrames(s) \subseteq Old(s)
            /\ \A f \in Old(s) : f.id \in 1..c
            /\ \A id \in 1..c : Item(id, 0) \in Old(s)
        BY <1>1, OldFacts
      <3> QED BY <1>2, <3>1
    <2>3. x \in Seq(Old(s))
      BY <1>2, <2>1, <2>2, ProcessElements
    <2> QED BY <1>1, <2>3, OldSeq
  <1> HIDE DEF x
  <1>8. heard'[s] = heard[s] \o Of(x, registry[s])
    BY DEF x
  <1>9. /\ heard'[s] \in Seq(Old(s))
        /\ \A i : i # registry[s] => Of(heard'[s], i) = Of(heard[s], i)
        /\ Of(heard'[s], registry[s]) = Of(heard[s], registry[s]) \o Of(x, registry[s])
        /\ Rising(heard[s]) => Rising(heard'[s])
    BY <1>7, <1>8, HeardMore
  <1>10. registry[s] # 0 => Of(x, registry[s]) = Of(part, registry[s])
    BY <1>2, <1>3, <1>6, ProcessOf DEF x
  <1>11. /\ page'[s] \in Nat /\ p <= page'[s] /\ page'[s] <= c
         /\ page'[s] = c <=> p = c \/ Of(part, c) # <<>>
    BY <1>2, <1>3, <1>6, PageAfterWithin
  <1>12. /\ part = <<>> => page'[s] = p
         /\ part # <<>> => Len(part) \in 1..Len(part) /\ page'[s] = part[Len(part)].id
    BY <1>4 DEF PageAfter
  <1>13. QueueInOrder(s)'
    <2>1. \A i \in 1..Len(rest) : page'[s] <= rest[i].id
      BY <1>3, <1>4, <1>12
    <2>2. ASSUME Unheard[s] # <<>> PROVE page'[s] = 0 /\ rest = <<>>
      <3>1. p = 0 /\ part \o rest = <<>>
        BY <1>1, <2>2 DEF QueueInOrder
      <3>2. part = <<>> /\ rest = <<>>
        BY <3>1, ConcatElements
      <3> QED BY <3>1, <3>2, <1>12
    <2> QED BY <1>3, <2>1, <2>2 DEF QueueInOrder
  <1>14. ASSUME NEW r, r = registry[s], r # 0
         PROVE  /\ r \in Nat \ {0} /\ made'[s][r] = made[s][r] /\ made[s][r] \in Nat
                /\ (Of(heard'[s], r) \o Of(rest, r)) \o Of(Unheard[s], r) = Whole(r, made[s][r])
                /\ Of(heard'[s], r) \in Seq(Items)
    <2> DEFINE h == Of(heard[s], r)
               a == Of(part, r)
               e == Of(rest, r)
               u == Of(Unheard[s], r)
    <2>1. r \in Nat \ {0} /\ made[s][r] \in Nat /\ r \in 1..ids[s]
      BY <1>1, <1>2, <1>14, AdvanceCounts
    <2>2. made'[s][r] = made[s][r]
      <3>1. \A y : <<>> # <<y>>
        OBVIOUS
      <3> QED BY <1>1, <2>1, <3>1 DEF Advance, Adds
    <2>3. h \in Seq(Items) /\ a \in Seq(Items) /\ e \in Seq(Items) /\ u \in Seq(Items)
      BY OldTyped, OfType
    <2>4. Of(queued[s], r) = a \o e
      BY OfConcat
    <2>5. (h \o Of(queued[s], r)) \o u = Whole(r, made[s][r])
      BY <1>1, <1>14 DEF Line
    <2>6. Of(heard'[s], r) = h \o a
      BY <1>9, <1>10, <1>14
    <2> HIDE DEF h, a, e, u
    <2>7. h \o (a \o e) = (h \o a) \o e
      <3>1. h \in Seq(Items) /\ a \in Seq(Items) /\ e \in Seq(Items)
        BY <2>3
      <3>2. (h \o a) \o e = h \o (a \o e)
        BY <3>1, ItemsAssociative, SMTT(20)
      <3> QED BY <3>2
    <2>8. h \o a \in Seq(Items)
      BY <2>3, ConcatElements
    <2>9. ((h \o a) \o e) \o u = Whole(r, made[s][r])
      BY <2>4, <2>5, <2>7
    <2> QED BY <2>1, <2>2, <2>6, <2>8, <2>9 DEF e, u
  <1>15. Line(s)'
    <2> SUFFICES ASSUME NEW r, r = registry[s], r # 0
                 PROVE  /\ (Of(heard'[s], r) \o Of(queued'[s], r)) \o Of(Unheard'[s], r) = Whole(r, made'[s][r])
                        /\ page'[s] = r <=> Of(heard'[s], r) # <<>>
                        /\ receivers' \in {"none", "broken"} => made'[s][r] = 0
      BY DEF Line
    <2>1. page'[s] = r <=> page[s] = r \/ Of(part, r) # <<>>
      BY <1>2, <1>11
    <2>2. page[s] = r <=> Of(heard[s], r) # <<>>
      BY <1>1 DEF Line
    <2>3. Of(heard'[s], r) = Of(heard[s], r) \o Of(part, r)
      BY <1>9, <1>10
    <2>4. Of(heard[s], r) \in Seq(Items) /\ Of(part, r) \in Seq(Items)
      BY OldTyped, OfType
    <2>5. Of(heard'[s], r) = <<>> <=> Of(heard[s], r) = <<>> /\ Of(part, r) = <<>>
      <3> DEFINE y == Of(heard[s], r)
                 z == Of(part, r)
      <3> HIDE DEF y, z
      <3>1. y \o z = <<>> <=> y = <<>> /\ z = <<>>
        BY <2>4, ConcatElements DEF y, z
      <3> QED BY <2>3, <3>1 DEF y, z
    <2>6. receivers \in {"none", "broken"} => made[s][r] = 0
      BY <1>1 DEF Line
    <2> QED BY <1>14, <2>1, <2>2, <2>5, <2>6
  <1>16. Current(s)'
    <2> SUFFICES ASSUME NEW r, r = registry[s], r # 0
                 PROVE  /\ \E k \in 0..made'[s][r] : Of(heard'[s], r) = Whole(r, k)
                        /\ Of(pending_receiver'[s], r) = <<>>
      BY DEF Current
    <2> DEFINE h == Of(heard'[s], r)
               e == Of(rest, r)
               u == Of(Unheard[s], r)
    <2>1. h \in Seq(Items) /\ e \in Seq(Items) /\ u \in Seq(Items)
      BY <1>14, OldTyped, OfType
    <2>2. (h \o e) \o u = Whole(r, made[s][r]) /\ r \in Nat \ {0} /\ made[s][r] \in Nat /\ made'[s][r] = made[s][r]
      BY <1>14
    <2> HIDE DEF h, e, u
    <2>3. h \o (e \o u) = Whole(r, made[s][r]) /\ e \o u \in Seq(Items)
      <3>1. (h \o e) \o u = h \o (e \o u)
        BY <2>1, ItemsAssociative, ZenonT(40)
      <3>2. e \o u \in Seq(Items)
        BY <2>1, ConcatElements
      <3> QED BY <2>2, <3>1, <3>2
    <2>4. Len(h) \in 0..made[s][r] /\ h = Whole(r, Len(h))
      <3> DEFINE y == e \o u
      <3>1. h \o y = Whole(r, made[s][r]) /\ y \in Seq(Items)
        BY <2>3
      <3> HIDE DEF y
      <3> QED BY <2>1, <2>2, <3>1, WholeSplit
    <2>5. Of(pending_receiver[s], r) = <<>>
      BY <1>1 DEF Current
    <2> QED BY <2>2, <2>4, <2>5 DEF h
  <1>17. Older(s)'
    <2>1. \A id : id # registry[s] => Total(s, id)' = Total(s, id)
      BY <1>9 DEF Total, Tails
    <2> QED BY <2>1, OlderKept
  <1>18. Healthy(s)'
    <2>1. hw = 0 => pending_receiver'[s] = <<>> /\ Rising(heard'[s])
      BY <1>1, <1>9 DEF Healthy
    <2>2. ASSUME hw = 0 PROVE Clean(s) /\ Settles(s)
      <3>1. /\ p \in {0, registry[s]}
            /\ \A i \in 1..Len(queued[s]) : queued[s][i].id = registry[s]
            /\ \A i \in 1..Len(Unheard[s]) :
                  Unheard[s][i].id = registry[s] \/ Unheard[s][i].id <= exempt[s]
        BY <1>1, <2>2 DEF Healthy
      <3>2. page'[s] \in {0, registry[s]} /\ \A i \in 1..Len(rest) : rest[i].id = registry[s]
        BY <3>1, <1>4, <1>12
      <3> QED BY <1>9, <3>1, <3>2 DEF Clean, Settles
    <2> QED BY <2>1, <2>2, HealthyAfter
  <1> QED BY <1>9, <1>11, <1>13, <1>15, <1>16, <1>17, <1>18 DEF Lines
-----------------------------------------------------------------------------
(* What the actions have in common.                                        *)

LEMMA InvFacts ==
  ASSUME IInv
  PROVE  /\ Typed /\ Control /\ Resting
         /\ \A s \in Slots : Exist(s) /\ IqKept(s) /\ Lines(s)
  <1>1. TypeOK /\ Control /\ Resting /\ \A s \in Slots : Slot(s)
    BY DEF IInv
  <1>2. \A s \in Slots : Exist(s) /\ IqKept(s) /\ Lines(s)
    BY <1>1 DEF Slot, Lines
  <1>3. Given
    BY <1>2 DEF Given, Exist
  <1> QED BY <1>1, <1>2, <1>3 DEF Typed

LEMMA StepFacts ==
  ASSUME IInv, [Next]_vars, NEW s \in Slots, NEW b, Advance(s, b), hw' = 0 => hw = 0
  PROVE  Stepped(s, b)
  BY InvFacts, TypePreserved DEF Stepped

(* What a slot may have after a step.                                      *)
LEMMA StoreFacts ==
  ASSUME NEW s \in Slots, NEW b, Stepped(s, b)
  PROVE  /\ pending_iq[s] \o b \in Seq(OldFrames(s)) /\ pending_iq[s] \in Seq(OldFrames(s))
         /\ shown[s] \in Seq(OldFrames(s)) /\ hand[s] \in Seq(OldFrames(s))
         /\ shown[s] \o hand[s] \in Seq(OldFrames(s))
         /\ queued[s] \in Seq(OldFrames(s)) /\ All(s, b) \in Seq(OldFrames(s))
         /\ <<>> \in Seq(OldFrames(s)) /\ <<>> \in Seq(Old(s))
         /\ consumed[s] \subseteq OldFrames(s) /\ ToSet(pending_iq[s] \o b) \subseteq OldFrames(s)
         /\ ToSet(pending_iq[s] \o b) = ToSet(pending_iq[s]) \cup ToSet(b)
         /\ heard[s] \in Seq(Old(s)) /\ pending_receiver[s] \in Seq(Old(s))
         /\ pending_receiver[s] \o Ended(s, b) \in Seq(Old(s))
         /\ ids[s] \in Nat /\ 0 <= ids[s] /\ page[s] <= ids[s] /\ retiring[s] <= ids[s]
         /\ registry[s] <= ids[s] /\ LastPage(s, b) <= ids[s]
  <1>1. Typed /\ TypeOK' /\ Advance(s, b) /\ Exist(s) /\ QueueInOrder(s)
    BY DEF Stepped, Lines
  <1>2. /\ pending_iq[s] \in Seq(OldFrames(s)) /\ b \in Seq(OldFrames(s))
        /\ shown[s] \in Seq(OldFrames(s)) /\ hand[s] \in Seq(OldFrames(s))
        /\ queued[s] \in Seq(OldFrames(s)) /\ consumed[s] \subseteq OldFrames(s)
        /\ heard[s] \in Seq(Old(s)) /\ pending_receiver[s] \in Seq(Old(s))
        /\ page[s] <= ids[s] /\ retiring[s] <= ids[s]
    BY OldTyped
  <1>3. pending_iq[s] \o b \in Seq(OldFrames(s)) /\ shown[s] \o hand[s] \in Seq(OldFrames(s))
        /\ <<>> \in Seq(OldFrames(s)) /\ <<>> \in Seq(Old(s))
    BY <1>1, <1>2, OldSeq
  <1>4. ToSet(pending_iq[s] \o b) \subseteq OldFrames(s)
        /\ ToSet(pending_iq[s] \o b) = ToSet(pending_iq[s]) \cup ToSet(b)
    <2> DEFINE p == pending_iq[s]
               F == OldFrames(s)
    <2>1. p \in Seq(F) /\ b \in Seq(F) /\ p \o b \in Seq(F)
      BY <1>2, <1>3
    <2> HIDE DEF p, F
    <2>2. ToSet(p \o b) = ToSet(p) \cup ToSet(b)
      <3>1. /\ ToSet(p) = {p[i] : i \in 1..Len(p)} /\ ToSet(b) = {b[i] : i \in 1..Len(b)}
            /\ ToSet(p \o b) = {(p \o b)[i] : i \in 1..Len(p \o b)}
        BY <2>1 DEF ToSet
      <3>2. /\ \A i \in 1..Len(p) : i \in 1..Len(p \o b) /\ (p \o b)[i] = p[i]
            /\ \A i \in 1..Len(b) : Len(p) + i \in 1..Len(p \o b) /\ (p \o b)[Len(p) + i] = b[i]
            /\ \A i \in 1..Len(p \o b) :
                 \/ i \in 1..Len(p) /\ (p \o b)[i] = p[i]
                 \/ i - Len(p) \in 1..Len(b) /\ (p \o b)[i] = b[i - Len(p)]
        BY <2>1, ConcatElements
      <3> QED BY <3>1, <3>2
    <2>3. ToSet(p) \subseteq F /\ ToSet(b) \subseteq F
      BY <2>1 DEF ToSet
    <2> QED BY <2>2, <2>3 DEF p, F
  <1>5. All(s, b) \in Seq(OldFrames(s)) /\ Ended(s, b) \in Seq(Old(s)) /\ LastPage(s, b) <= ids[s]
    BY <1>1, AllType, DoneType
  <1>6. pending_receiver[s] \o Ended(s, b) \in Seq(Old(s))
    BY <1>1, <1>2, <1>5, OldSeq
  <1>7. ids[s] \in Nat /\ 0 <= ids[s] /\ registry[s] <= ids[s]
    BY <1>1, AdvanceCounts
  <1> QED BY <1>2, <1>3, <1>4, <1>5, <1>6, <1>7

LEMMA HeldFacts ==
  ASSUME NEW s \in Slots
  PROVE  /\ Held(s)' = IF stale' THEN <<>> ELSE hand'[s]
         /\ IqLine(s)' = (shown'[s] \o Held(s)') \o pending_iq'[s]
  BY DEF Held, IqLine

(* What is pending and in the hand is of the capture epoch.                *)
LEMMA IqAfter ==
  ASSUME NEW s \in Slots, NEW b, Stepped(s, b), IqKept(s), hw' = 0, fence'[s] = fence[s],
         NEW q, q \in {<<>>, pending_iq[s], Held(s), pending_iq[s] \o b}
  PROVE  After(q, fence'[s])
  <1>1. After(pending_iq[s], fence[s]) /\ After(Held(s), fence[s])
    BY DEF IqKept, Stepped
  <1>2. After(<<>>, fence[s])
    BY DEF After
  <1>3. After(pending_iq[s] \o b, fence[s])
    <2> DEFINE p == pending_iq[s]
    <2>1. p \in Seq(Items) /\ b \in Seq(Items) /\ \A i \in 1..Len(b) : b[i].id = registry[s] /\ registry[s] # 0
      BY OldTyped, AdvanceFrames DEF Stepped
    <2>2. registry[s] # 0 => registry[s] > fence[s]
      BY DEF Stepped, Exist
    <2>3. After(p, fence[s])
      BY <1>1
    <2> HIDE DEF p
    <2>4. \A i \in 1..Len(p \o b) : \/ i \in 1..Len(p) /\ (p \o b)[i] = p[i]
                                    \/ i - Len(p) \in 1..Len(b) /\ (p \o b)[i] = b[i - Len(p)]
      BY <2>1, ConcatElements
    <2>5. After(p \o b, fence[s])
      BY <2>1, <2>2, <2>3, <2>4 DEF After
    <2> QED BY <2>5 DEF p
  <1> QED BY <1>1, <1>2, <1>3

(* What a command drains is appended to what is pending.                   *)
LEMMA IqAppended ==
  ASSUME NEW s \in Slots, NEW b, Stepped(s, b), IqKept(s), fence'[s] = fence[s],
         shown'[s] = shown[s], hand'[s] = hand[s], stale' = stale, pending_iq'[s] = pending_iq[s] \o b
  PROVE  IqKept(s)'
  <1>1. Typed /\ TypeOK' /\ Advance(s, b) /\ Exist(s)
    BY DEF Stepped
  <1>2. Held(s)' = Held(s) /\ IqLine(s)' = (shown[s] \o Held(s)) \o (pending_iq[s] \o b)
    BY HeldFacts DEF Held
  <1>3. IqLine(s)' = IqLine(s) \o b
    <2> DEFINE x == shown[s] \o Held(s)
               p == pending_iq[s]
    <2>1. x \in Seq(Items) /\ p \in Seq(Items) /\ b \in Seq(Items)
      BY <1>1, LineTyped, SeqMonotone, AdvanceFrames
    <2>2. IqLine(s) = x \o p /\ IqLine(s)' = x \o (p \o b)
      BY <1>2 DEF IqLine
    <2> HIDE DEF x, p
    <2>3. (x \o p) \o b = x \o (p \o b)
      BY <2>1, ItemsAssociative
    <2> QED BY <2>2, <2>3
  <1>4. IqInOrder(s)'
    BY <1>1, <1>3, IqGrown DEF IqKept, IqInOrder
  <1>5. hw' = 0 => After(pending_iq'[s], fence'[s]) /\ After(Held(s)', fence'[s])
    BY <1>2, IqAfter
  <1> QED BY <1>4, <1>5 DEF IqKept, IqInOrder

(* The poll takes what is pending and what has come.                       *)
LEMMA IqPolled ==
  ASSUME NEW s \in Slots, NEW b, Stepped(s, b), IqKept(s), fence'[s] = fence[s],
         shown'[s] = shown[s], hand[s] = <<>>, stale' = FALSE,
         hand'[s] = pending_iq[s] \o b, pending_iq'[s] = <<>>
  PROVE  IqKept(s)'
  <1>1. Typed /\ TypeOK' /\ Advance(s, b) /\ Exist(s)
    BY DEF Stepped
  <1>2. Held(s) = <<>>
    BY DEF Held
  <1>3. Held(s)' = pending_iq[s] \o b /\ IqLine(s)' = (shown[s] \o (pending_iq[s] \o b)) \o <<>>
    BY HeldFacts
  <1>4. IqLine(s)' = IqLine(s) \o b
    <2> DEFINE x == shown[s]
               p == pending_iq[s]
    <2>1. x \in Seq(Items) /\ p \in Seq(Items) /\ b \in Seq(Items)
      BY <1>1, LineTyped, SeqMonotone, AdvanceFrames
    <2>2. IqLine(s) = (x \o <<>>) \o p /\ IqLine(s)' = (x \o (p \o b)) \o <<>>
      BY <1>2, <1>3 DEF IqLine
    <2> HIDE DEF x, p
    <2>3. (x \o p) \o b = x \o (p \o b)
      BY <2>1, ItemsAssociative
    <2>4. p \o b \in Seq(Items)
      BY <2>1, ConcatElements
    <2>5. x \o <<>> = x
      BY <2>1, ConcatEmptySeq
    <2>6. (x \o (p \o b)) \o <<>> = x \o (p \o b)
      <3> DEFINE y == p \o b
      <3>1. y \in Seq(Items)
        BY <2>4
      <3> HIDE DEF y
      <3>2. x \o y \in Seq(Items)
        BY <2>1, <3>1, ConcatElements
      <3>3. (x \o y) \o <<>> = x \o y
        BY <3>2, ConcatEmptySeq
      <3> QED BY <3>3 DEF y
    <2> QED BY <2>2, <2>3, <2>5, <2>6
  <1>5. IqInOrder(s)'
    BY <1>1, <1>4, IqGrown DEF IqKept, IqInOrder
  <1>6. hw' = 0 => After(pending_iq'[s], fence'[s]) /\ After(Held(s)', fence'[s])
    BY <1>3, IqAfter
  <1> QED BY <1>5, <1>6 DEF IqKept, IqInOrder

(* The hand goes to the IQ clients.                                        *)
LEMMA IqSent ==
  ASSUME NEW s \in Slots, Stepped(s, <<>>), IqKept(s), fence'[s] = fence[s],
         shown'[s] = (IF stale THEN shown[s] ELSE shown[s] \o hand[s]),
         hand'[s] = <<>>, stale' = FALSE, pending_iq'[s] = pending_iq[s]
  PROVE  IqKept(s)'
  <1>1. Typed /\ TypeOK' /\ Advance(s, <<>>) /\ Exist(s)
    BY DEF Stepped
  <1>2. /\ shown[s] \in Seq(Items) /\ Held(s) \in Seq(Items) /\ shown[s] \o Held(s) \in Seq(Items)
        /\ IqLine(s) \in Seq(Items)
    BY <1>1, LineTyped, SeqMonotone
  <1>3. shown'[s] = shown[s] \o Held(s)
    BY <1>2, ConcatEmptySeq DEF Held
  <1>4. Held(s)' = <<>> /\ IqLine(s)' = ((shown[s] \o Held(s)) \o <<>>) \o pending_iq[s]
    BY <1>3, HeldFacts
  <1>5. IqLine(s)' = IqLine(s) /\ IqLine(s) \o <<>> = IqLine(s)
    BY <1>2, <1>4, ConcatEmptySeq DEF IqLine
  <1>6. IqInOrder(s)'
    BY <1>1, <1>5, IqGrown DEF IqKept, IqInOrder
  <1>7. hw' = 0 => After(pending_iq'[s], fence'[s]) /\ After(Held(s)', fence'[s])
    BY <1>4, IqAfter
  <1> QED BY <1>6, <1>7 DEF IqKept, IqInOrder

(* The capture has stopped.                                                *)
LEMMA IqStopped ==
  ASSUME NEW s \in Slots, NEW b, Stepped(s, b), IqKept(s), registry'[s] = 0,
         shown'[s] = shown[s], Held(s)' = <<>>, pending_iq'[s] \in {<<>>, pending_iq[s]},
         \/ fence'[s] = fence[s] \/ hw' # 0 \/ pending_iq'[s] = <<>>
  PROVE  IqKept(s)'
  <1>1. Exist(s) /\ IqInOrder(s)
    BY DEF Stepped, IqKept, IqInOrder
  <1>2. IqInOrder(s)'
    BY <1>1, IqCut
  <1>3. After(Held(s)', fence'[s]) /\ (pending_iq'[s] = <<>> => After(pending_iq'[s], fence'[s]))
    BY DEF After
  <1>4. hw' = 0 => After(pending_iq'[s], fence'[s])
    BY <1>3, IqAfter
  <1> QED BY <1>2, <1>3, <1>4 DEF IqKept, IqInOrder

Keeps == Control' /\ Resting' /\ \A s \in Slots : Exist(s)' /\ IqKept(s)' /\ Lines(s)'

LEMMA ExistStep ==
  ASSUME NEW s \in Slots, NEW b, Stepped(s, b),
         shown'[s] \in {shown[s], shown[s] \o hand[s]},
         hand'[s] \in {<<>>, hand[s], pending_iq[s] \o b},
         pending_iq'[s] \in {<<>>, pending_iq[s], pending_iq[s] \o b},
         queued'[s] \in Seq(OldFrames(s)), consumed'[s] \subseteq OldFrames(s),
         heard'[s] \in Seq(Old(s)), pending_receiver'[s] \in Seq(Old(s)),
         page'[s] <= ids[s], retiring'[s] <= ids[s],
         exempt'[s] \in {exempt[s], ids[s], ids'[s]},
         fence'[s] = fence[s] \/ (fence'[s] = ids[s] /\ registry'[s] = 0)
  PROVE  Exist(s)' /\ pending_iq'[s] \in Seq(OldFrames(s))
  <1>1. shown'[s] \in Seq(OldFrames(s)) /\ hand'[s] \in Seq(OldFrames(s)) /\ pending_iq'[s] \in Seq(OldFrames(s))
    <2>1. /\ <<>> \in Seq(OldFrames(s)) /\ hand[s] \in Seq(OldFrames(s))
          /\ shown[s] \in Seq(OldFrames(s)) /\ shown[s] \o hand[s] \in Seq(OldFrames(s))
      BY StoreFacts
    <2>2. pending_iq[s] \in Seq(OldFrames(s)) /\ pending_iq[s] \o b \in Seq(OldFrames(s))
      BY StoreFacts
    <2>3. shown'[s] \in Seq(OldFrames(s))
      BY <2>1
    <2>4. hand'[s] \in Seq(OldFrames(s))
      BY <2>1, <2>2
    <2>5. pending_iq'[s] \in Seq(OldFrames(s))
      BY <2>1, <2>2
    <2> QED BY <2>3, <2>4, <2>5
  <1>2. Typed /\ TypeOK' /\ Advance(s, b) /\ Exist(s)
    BY DEF Stepped
  <1> QED BY <1>1, <1>2, ExistKept

(* The workers finish what they have, the frames that a command drains     *)
(* with them, and close the pages of the slots S.                          *)
LEMMA FinishedSlot ==
  ASSUME NEW s \in Slots, NEW b, Stepped(s, b), NEW fs \in Streams, fs[s] = pending_iq[s] \o b, NEW S
  PROVE  LET q   == Extend(queued, Accepted(fs, registry))
             pg  == FinishPage(q)
             out == Extend(pending_receiver, Extend(FinishOut(q), CloseOut(pg, S)))
         IN
         /\ q[s] = All(s, b) /\ pg[s] = LastPage(s, b) /\ out \in Streams
         /\ s \in S => out[s] = pending_receiver[s] \o Ended(s, b) /\ ClosePage(pg, S)[s] = 0
         /\ s \notin S => out[s] = pending_receiver[s] \o Done(s, b) /\ ClosePage(pg, S)[s] = LastPage(s, b)
  <1> DEFINE a   == Accepted(fs, registry)
             q   == Extend(queued, a)
             pg  == FinishPage(q)
             o   == FinishOut(q)
             c   == CloseOut(pg, S)
  <1>1. Typed /\ TypeOK' /\ Advance(s, b) /\ Exist(s) /\ QueueInOrder(s)
    BY DEF Stepped, Lines
  <1>2. queued \in Streams /\ pending_receiver \in Streams /\ page \in [Slots -> Nat] /\ TypeOK
        /\ registry \in [Slots -> Nat]
    BY <1>1 DEF Typed, TypeOK, Streams
  <1>3. a \in Streams /\ a[s] = Acc(s, b)
    BY <1>1, AcceptedType, AcceptedIs
  <1> HIDE DEF a
  <1>4. q \in Streams /\ q[s] = All(s, b)
    <2>1. q \in Streams /\ q[s] = queued[s] \o a[s]
      BY <1>2, <1>3, ExtendType
    <2> QED BY <1>3, <2>1 DEF All
  <1> HIDE DEF q
  <1>5. o \in Streams /\ pg \in [Slots -> Nat]
    BY <1>2, <1>4, FinishType
  <1>6. o[s] = Done(s, b) /\ pg[s] = LastPage(s, b)
    BY <1>4 DEF FinishOut, FinishPage, Done, LastPage
  <1> HIDE DEF o, pg
  <1>7. c \in Streams /\ c[s] = IF s \in S THEN Closing(LastPage(s, b), 0) ELSE <<>>
    BY <1>5, <1>6, CloseType DEF CloseOut
  <1> HIDE DEF c
  <1>8. Extend(o, c) \in Streams /\ Extend(o, c)[s] = o[s] \o c[s]
    BY <1>5, <1>7, ExtendType
  <1> DEFINE e == Extend(o, c)
  <1>9. e \in Streams
    BY <1>8
  <1> HIDE DEF e
  <1>10. Extend(pending_receiver, e) \in Streams
         /\ Extend(pending_receiver, e)[s] = pending_receiver[s] \o e[s]
    BY <1>2, <1>9, ExtendType
  <1>11. e[s] = IF s \in S THEN Ended(s, b) ELSE Done(s, b)
    <2>1. Done(s, b) \in Seq(Items)
      BY <1>1, DoneType
    <2>2. Done(s, b) \o <<>> = Done(s, b)
      BY <2>1, ConcatEmptySeq
    <2> QED BY <2>2, <1>6, <1>7, <1>8 DEF e, Ended
  <1>12. ClosePage(pg, S)[s] = IF s \in S THEN 0 ELSE LastPage(s, b)
    BY <1>6 DEF ClosePage
  <1> QED BY <1>4, <1>6, <1>10, <1>11, <1>12 DEF a, q, pg, o, c, e

-----------------------------------------------------------------------------
(* The publisher.                                                          *)

LEMMA StartKeeps ==
  ASSUME IInv, Start PROVE Keeps
  <1>1. Typed /\ Control /\ Resting /\ [Next]_vars
    BY InvFacts DEF Next, Publisher
  <1>2. Control'
    BY <1>1 DEF Start, Control, publisher, feed
  <1>3. Resting'
    BY <1>1 DEF Start, Resting, output, feed
  <1>4. ASSUME NEW s \in Slots PROVE Exist(s)' /\ IqKept(s)' /\ Lines(s)'
    <2>1. registry[s] = 0 /\ Advance(s, <<>>) /\ registry'[s] \in {0, ids[s] + 1}
      BY <1>1, AdvanceStarted
    <2>2. /\ pending_iq' = pending_iq /\ consumed' = consumed /\ queued' = queued /\ page' = page
          /\ heard' = heard /\ pending_receiver' = pending_receiver /\ retiring' = retiring
          /\ shown' = shown /\ hand' = hand /\ stale' = stale /\ exempt' = exempt /\ fence' = fence
          /\ hw' = hw /\ failure' = failure
          /\ receivers' = IF receivers = "none" /\ failure = "none" THEN "live" ELSE receivers
      BY DEF Start, feed, output, publisher, bounds
    <2>3. Stepped(s, <<>>) /\ IqKept(s) /\ Healthy(s)
      <3>1. Stepped(s, <<>>)
        BY <1>1, <2>1, <2>2, StepFacts
      <3> QED BY <3>1, InvFacts DEF Lines
    <2>4. Exist(s)' /\ pending_iq'[s] \in Seq(OldFrames(s))
      <3>1. /\ queued'[s] \in Seq(OldFrames(s)) /\ consumed'[s] \subseteq OldFrames(s)
            /\ heard'[s] \in Seq(Old(s)) /\ pending_receiver'[s] \in Seq(Old(s))
            /\ page'[s] <= ids[s] /\ retiring'[s] <= ids[s]
        <4>1. /\ queued[s] \in Seq(OldFrames(s)) /\ consumed[s] \subseteq OldFrames(s)
              /\ heard[s] \in Seq(Old(s)) /\ pending_receiver[s] \in Seq(Old(s))
              /\ page[s] <= ids[s] /\ retiring[s] <= ids[s]
          BY <2>3, StoreFacts
        <4> QED BY <2>2, <4>1
      <3> QED BY <2>2, <2>3, <3>1, ExistStep
    <2>5. IqKept(s)'
      <3>1. pending_iq[s] \o <<>> = pending_iq[s]
        BY <2>3, OldTyped, ConcatEmptySeq
      <3> QED BY <2>2, <2>3, <3>1, IqAppended
    <2>6. NothingHeard(s)
      BY <2>2 DEF NothingHeard
    <2>7. Memory(s)
      BY <2>2, <2>3 DEF Healthy, Memory
    <2>8. Unheard'[s] = Unheard[s]
      BY <2>2, UnheardNext
    <2>9. Lines(s)'
      BY <2>1, <2>2, <2>3, <2>4, <2>6, <2>7, <2>8, BareLines
    <2> QED BY <2>4, <2>5, <2>9
  <1> QED BY <1>2, <1>3, <1>4 DEF Keeps

(* Steps that move nothing but the publisher, or the state of workers that *)
(* have failed.                                                            *)
LEMMA QuietKeeps ==
  ASSUME IInv, Blocked \/ Finish \/ Send \/ Stop \/ UNCHANGED vars PROVE Keeps
  <1>1. Typed /\ Control /\ Resting /\ [Next]_vars
    BY InvFacts DEF Next, Publisher
  <1>2. /\ pending_iq' = pending_iq /\ consumed' = consumed /\ queued' = queued /\ page' = page
        /\ heard' = heard /\ pending_receiver' = pending_receiver /\ retiring' = retiring
        /\ exempt' = exempt /\ fence' = fence /\ made' = made /\ registry' = registry
        /\ hw' = hw /\ failure' = failure /\ pipeline' = pipeline /\ sdr' = sdr
    <2>1. CASE Blocked
      BY <2>1 DEF Blocked, device, feed, workers, output, history, bounds
    <2>2. CASE Finish
      BY <2>2 DEF Finish, device, feed, workers, output, history, bounds
    <2>3. CASE Send
      BY <2>3 DEF Send, device, feed, workers, output, bounds
    <2>4. CASE Stop
      BY <2>4 DEF Stop, device, feed, output, history, bounds
    <2>5. CASE UNCHANGED vars
      BY <2>5 DEF vars, device, feed, workers, output, history, bounds
    <2> QED BY <2>1, <2>2, <2>3, <2>4, <2>5
  <1>3. receivers' = receivers \/ (receivers = "stopping" /\ receivers' = "stopped")
    BY DEF Blocked, Finish, Send, Stop, vars, workers
  <1>4. \/ hand' = hand /\ stale' = stale /\ shown' = shown /\ (pc' = "poll" => pc = "poll")
        \/ /\ hand' = hand /\ stale' = FALSE /\ shown' = shown /\ pc = "poll" /\ pc' = "drain"
        \/ /\ hand' = Nothing /\ stale' = FALSE /\ shown' = IF stale THEN shown ELSE Extend(shown, hand)
    BY DEF Blocked, Finish, Send, Stop, vars, publisher, history
  <1>5. Control'
    BY <1>1, <1>2, <1>4 DEF Control
  <1>6. Resting'
    BY <1>1, <1>2, <1>3 DEF Resting
  <1>7. ASSUME NEW s \in Slots PROVE Exist(s)' /\ IqKept(s)' /\ Lines(s)'
    <2>1. Stepped(s, <<>>) /\ IqKept(s) /\ Healthy(s)
      <3>1. Advance(s, <<>>)
        BY <1>1, <1>2, AdvanceNot
      <3>2. Stepped(s, <<>>)
        BY <1>1, <1>2, <3>1, StepFacts
      <3> QED BY <3>2, InvFacts DEF Lines
    <2>2. pending_iq[s] \o <<>> = pending_iq[s]
      BY <2>1, OldTyped, ConcatEmptySeq
    <2>3. /\ hand'[s] \in {<<>>, hand[s]} /\ shown'[s] \in {shown[s], shown[s] \o hand[s]}
          /\ (hand' = Nothing /\ stale' = FALSE /\ shown' = (IF stale THEN shown ELSE Extend(shown, hand)) =>
                 hand'[s] = <<>> /\ shown'[s] = IF stale THEN shown[s] ELSE shown[s] \o hand[s])
      <3>1. hand \in Streams /\ shown \in Streams
        BY <1>1 DEF Typed, TypeOK, Streams
      <3>2. Extend(shown, hand)[s] = shown[s] \o hand[s] /\ Nothing[s] = <<>>
        BY <3>1, ExtendType, NothingType
      <3> QED BY <1>4, <3>2
    <2>4. Exist(s)'
      <3>1. /\ queued'[s] \in Seq(OldFrames(s)) /\ consumed'[s] \subseteq OldFrames(s)
            /\ heard'[s] \in Seq(Old(s)) /\ pending_receiver'[s] \in Seq(Old(s))
            /\ page'[s] <= ids[s] /\ retiring'[s] <= ids[s]
        <4>1. /\ queued[s] \in Seq(OldFrames(s)) /\ consumed[s] \subseteq OldFrames(s)
              /\ heard[s] \in Seq(Old(s)) /\ pending_receiver[s] \in Seq(Old(s))
              /\ page[s] <= ids[s] /\ retiring[s] <= ids[s]
          BY <2>1, StoreFacts
        <4> QED BY <1>2, <4>1
      <3> QED BY <1>2, <2>1, <2>3, <3>1, ExistStep
    <2>5. IqKept(s)'
      <3>1. CASE hand' = hand /\ stale' = stale /\ shown' = shown
        BY <1>2, <2>1, <2>2, <3>1, IqAppended
      <3>2. CASE hand' = hand /\ stale' = FALSE /\ shown' = shown /\ pc = "poll"
        <4>1. stale' = stale
          BY <1>1, <3>2 DEF Control, Typed, TypeOK
        <4> QED BY <1>2, <2>1, <2>2, <3>2, <4>1, IqAppended
      <3>3. CASE hand' = Nothing /\ stale' = FALSE /\ shown' = IF stale THEN shown ELSE Extend(shown, hand)
        BY <1>2, <2>1, <2>3, <3>3, IqSent
      <3> QED BY <1>4, <3>1, <3>2, <3>3
    <2>6. NothingHeard(s)
      BY <1>2 DEF NothingHeard
    <2>7. Memory(s)
      BY <1>2, <1>3, <2>1 DEF Healthy, Memory
    <2>8. Unheard'[s] = Unheard[s]
      BY <1>2, UnheardNext
    <2>9. Lines(s)'
      BY <1>2, <1>3, <2>1, <2>6, <2>7, <2>8, QuietLines
    <2> QED BY <2>4, <2>5, <2>9
  <1> QED BY <1>5, <1>6, <1>7 DEF Keeps

LEMMA PollKeeps ==
  ASSUME IInv, NEW B \in Batches, Poll(B) PROVE Keeps
  <1> DEFINE fs == Extend(pending_iq, Batch(B))
  <1>1. Typed /\ Control /\ Resting /\ [Next]_vars
    BY InvFacts DEF Next, Publisher
  <1>2. /\ pc = "poll" /\ sdr /\ pipeline /\ sdr' = sdr /\ pipeline' = pipeline /\ registry' = registry
        /\ hand' = fs /\ made' = Made(B) /\ pending_iq' = Nothing /\ pc' = "finish" /\ stale' = FALSE
        /\ heard' = heard /\ shown' = shown /\ fence' = fence /\ hw' = hw
    BY DEF Poll, device
  <1> DEFINE Rest  == /\ failure # "none" /\ UNCHANGED <<workers, output, consumed, exempt>>
             Queue == /\ failure = "none" /\ receivers \in {"none", "live"}
                      /\ queued' = Extend(queued, Accepted(fs, registry)) /\ consumed' = Forgotten(fs)
                      /\ receivers' = "live" /\ UNCHANGED <<failure, page, output, exempt>>
             Fail  == /\ Latch /\ Forget /\ pending_receiver' = Nothing /\ retiring' = None
  <1>3. Rest \/ Queue \/ Fail
    <2>1. CASE failure # "none"
      BY <2>1 DEF Poll
    <2>2. CASE failure = "none"
      BY <2>2 DEF Poll, Works
    <2> QED BY <2>1, <2>2
  <1>4. fs \in Streams /\ \A s \in Slots : fs[s] = pending_iq[s] \o Batch(B)[s]
    <2>1. pending_iq \in Streams /\ Batch(B) \in Streams
      BY <1>1, BatchType DEF Typed, TypeOK, Streams
    <2> QED BY <2>1, ExtendType
  <1> HIDE DEF fs
  <1>5. Control'
    BY <1>2 DEF Control
  <1>6. Resting'
    <2>1. CASE Rest
      BY <1>1, <2>1 DEF Resting, workers, output
    <2>2. CASE Queue
      BY <2>2 DEF Resting
    <2>3. CASE Fail
      BY <2>3 DEF Resting, Latch, Forget
    <2> QED BY <1>3, <2>1, <2>2, <2>3
  <1>7. ASSUME NEW s \in Slots PROVE Exist(s)' /\ IqKept(s)' /\ Lines(s)'
    <2> DEFINE b == Batch(B)[s]
    <2>1. Stepped(s, b) /\ IqKept(s) /\ Healthy(s)
      <3>1. Advance(s, b)
        BY <1>1, <1>2, AdvanceMade
      <3>2. Stepped(s, b)
        BY <1>1, <1>2, <3>1, StepFacts
      <3> QED BY <3>2, InvFacts DEF Lines
    <2>2. hand'[s] = pending_iq[s] \o b /\ fs[s] = pending_iq[s] \o b
      BY <1>2, <1>4
    <2> HIDE DEF b
    <2>3. pending_iq'[s] = <<>> /\ Unheard'[s] = <<>>
      BY <1>2, NothingType, UnheardNext
    <2>4. IqKept(s)'
      <3>1. hand[s] = <<>>
        BY <1>1, <1>2, NothingType DEF Control
      <3> QED BY <1>2, <2>1, <2>2, <2>3, <3>1, IqPolled
    <2>5. /\ queued[s] \in Seq(OldFrames(s)) /\ consumed[s] \subseteq OldFrames(s)
          /\ heard[s] \in Seq(Old(s)) /\ pending_receiver[s] \in Seq(Old(s))
          /\ page[s] <= ids[s] /\ retiring[s] <= ids[s] /\ 0 <= ids[s]
          /\ <<>> \in Seq(OldFrames(s)) /\ <<>> \in Seq(Old(s)) /\ All(s, b) \in Seq(OldFrames(s))
      BY <2>1, StoreFacts
    <2>6. CASE Rest
      <3>1. /\ failure' # "none" /\ queued' = queued /\ page' = page /\ consumed' = consumed
            /\ pending_receiver' = pending_receiver /\ retiring' = retiring /\ exempt' = exempt
            /\ receivers' = receivers /\ failure # "none"
        BY <2>6 DEF workers, output
      <3>2. /\ queued'[s] = <<>> /\ page'[s] = 0 /\ pending_receiver'[s] = <<>> /\ consumed'[s] = {}
        BY <1>1, <3>1, NothingType DEF Resting
      <3>3. Exist(s)' /\ pending_iq'[s] \in Seq(OldFrames(s))
        BY <1>2, <2>1, <2>2, <2>3, <2>5, <3>1, <3>2, ExistStep
      <3>4. Memory(s)
        BY <3>2 DEF Memory
      <3>5. Lines(s)'
        BY <1>2, <2>1, <3>1, <3>2, <3>3, <3>4, RestLines
      <3> QED BY <2>4, <3>3, <3>5
    <2>7. CASE Queue
      <3>1. queued'[s] = All(s, b)
        <4>1. Extend(queued, Accepted(fs, registry))[s] = All(s, b)
          BY <1>4, <2>1, <2>2, FinishedSlot
        <4> QED BY <2>7, <4>1
      <3>2. consumed'[s] = consumed[s] \ ToSet(fs[s])
        BY <2>7 DEF Forgotten
      <3>3. /\ failure = "none" /\ failure' = "none" /\ page' = page /\ receivers # "broken"
            /\ pending_receiver' = pending_receiver /\ retiring' = retiring /\ exempt' = exempt
            /\ receivers' = "live"
        BY <2>7 DEF output
      <3>4. Exist(s)' /\ pending_iq'[s] \in Seq(OldFrames(s))
        <4>1. consumed'[s] \subseteq OldFrames(s) /\ queued'[s] \in Seq(OldFrames(s))
          BY <2>5, <3>1, <3>2
        <4> QED BY <1>2, <2>1, <2>2, <2>3, <2>5, <3>3, <4>1, ExistStep
      <3>5. Memory(s)
        <4> SUFFICES ASSUME hw' = 0 PROVE consumed'[s] \subseteq ToSet(pending_iq'[s])
          BY DEF Memory
        <4>1. consumed[s] \subseteq ToSet(pending_iq[s])
          BY <1>2, <2>1, <3>3 DEF Healthy
        <4>2. ToSet(fs[s]) = ToSet(pending_iq[s]) \cup ToSet(b)
          BY <2>1, <2>2, StoreFacts
        <4> QED BY <3>2, <4>1, <4>2
      <3>6. NothingHeard(s)
        BY <1>2, <3>3 DEF NothingHeard
      <3>7. Lines(s)'
        BY <1>2, <2>1, <2>3, <3>1, <3>3, <3>5, <3>6, PollLines
      <3> QED BY <2>4, <3>4, <3>7
    <2>8. CASE Fail
      <3>1. /\ failure' = "pending" /\ queued'[s] = <<>> /\ page'[s] = 0 /\ consumed'[s] = {}
            /\ pending_receiver'[s] = <<>> /\ retiring'[s] = 0 /\ exempt'[s] = ids[s]
        BY <2>8, NothingType DEF Latch, Forget
      <3>2. Exist(s)' /\ pending_iq'[s] \in Seq(OldFrames(s))
        BY <1>2, <2>1, <2>2, <2>3, <2>5, <3>1, ExistStep
      <3>3. Memory(s)
        BY <3>1 DEF Memory
      <3>4. Lines(s)'
        BY <1>2, <2>1, <3>1, <3>2, <3>3, RestLines
      <3> QED BY <2>4, <3>2, <3>4
    <2> QED BY <1>3, <2>6, <2>7, <2>8
  <1> QED BY <1>5, <1>6, <1>7 DEF Keeps

(* The pipeline is dropped after the workers have been drained.            *)
LEMMA FailedKeeps ==
  ASSUME IInv, [Next]_vars, PresentationFailed, made' = made, heard' = heard, shown' = shown,
         fence' = fence, hand' = Nothing, stale' \in {FALSE, stale}, pc' = "drain"
  PROVE  Keeps
  <1>1. Typed /\ Control /\ Resting /\ stream_registry = registry
    BY InvFacts, Registry DEF Typed
  <1> DEFINE q    == Extend(queued, Accepted(pending_iq, registry))
             pg   == FinishPage(q)
             out  == Extend(pending_receiver, Extend(FinishOut(q), CloseOut(pg, Slots)))
             Same == /\ failure # "none" \/ (pending_iq = Nothing /\ receivers = "none")
                     /\ UNCHANGED <<workers, feed, output, exempt>>
             Gone == /\ failure = "none" /\ receivers' = "live" /\ failure' = failure /\ exempt' = exempt
                     /\ queued' = Nothing /\ page' = None /\ pending_receiver' = out
                     /\ retiring' = registry /\ pending_iq' = Nothing /\ consumed' = consumed
             Fail == /\ Latch /\ Forget /\ pending_iq' = Nothing
                     /\ pending_receiver' = Nothing /\ retiring' = None
  <1>2. /\ hw' = hw + 1 /\ pipeline' = FALSE /\ registry' = None /\ sdr' = sdr
        /\ Same \/ Gone \/ Fail
    BY <1>1 DEF PresentationFailed
  <1>3. hw' # 0
    <2>1. hw \in Nat
      BY <1>1, FeedAssumption DEF Typed, TypeOK
    <2> QED BY <1>2, <2>1
  <1>4. pending_iq \in Streams
    BY <1>1 DEF Typed, TypeOK, Streams
  <1>5. Control'
    <2>1. ~sdr' => pending_iq' = Nothing
      BY <1>1, <1>2 DEF Control, feed
    <2> QED BY <1>2, <2>1 DEF Control
  <1>6. Resting'
    <2>1. CASE Same
      BY <1>1, <2>1 DEF Resting, workers, output, feed
    <2>2. CASE Gone
      BY <2>2 DEF Resting
    <2>3. CASE Fail
      BY <2>3 DEF Resting, Latch, Forget
    <2> QED BY <1>2, <2>1, <2>2, <2>3
  <1>7. ASSUME NEW s \in Slots PROVE Exist(s)' /\ IqKept(s)' /\ Lines(s)'
    <2>1. Stepped(s, <<>>) /\ IqKept(s) /\ registry'[s] = 0 /\ hand'[s] = <<>>
      <3>1. registry'[s] = 0 /\ hand'[s] = <<>>
        BY <1>2, NothingType
      <3>2. Advance(s, <<>>)
        BY <1>1, <3>1, AdvanceNot
      <3>3. Stepped(s, <<>>)
        BY <1>3, <3>2, StepFacts
      <3> QED BY <3>1, <3>3, InvFacts
    <2>2. pending_iq[s] \o <<>> = pending_iq[s]
      BY <2>1, OldTyped, ConcatEmptySeq
    <2>3. Held(s)' = <<>>
      BY <2>1, HeldFacts
    <2>4. pending_iq'[s] \in {<<>>, pending_iq[s]}
      BY <1>2, NothingType DEF feed
    <2>5. IqKept(s)'
      BY <2>1, <2>3, <2>4, IqStopped
    <2>6. /\ queued[s] \in Seq(OldFrames(s)) /\ consumed[s] \subseteq OldFrames(s)
          /\ heard[s] \in Seq(Old(s)) /\ pending_receiver[s] \in Seq(Old(s))
          /\ page[s] <= ids[s] /\ retiring[s] <= ids[s] /\ 0 <= ids[s] /\ registry[s] <= ids[s]
          /\ <<>> \in Seq(OldFrames(s)) /\ <<>> \in Seq(Old(s))
          /\ pending_receiver[s] \o Ended(s, <<>>) \in Seq(Old(s))
      BY <2>1, StoreFacts
    <2>7. CASE Same
      <3>1. /\ failure' = failure /\ queued' = queued /\ page' = page /\ consumed' = consumed
            /\ pending_receiver' = pending_receiver /\ retiring' = retiring /\ exempt' = exempt
            /\ receivers' = receivers /\ pending_iq' = pending_iq
        BY <2>7 DEF workers, output, feed
      <3>2. Exist(s)' /\ pending_iq'[s] \in Seq(OldFrames(s))
        BY <2>1, <2>4, <2>6, <3>1, ExistStep
      <3>3. NothingHeard(s) /\ Unheard'[s] = Unheard[s]
        BY <3>1, UnheardNext DEF NothingHeard
      <3>4. Lines(s)'
        BY <1>3, <2>1, <3>1, <3>3, LostLines
      <3> QED BY <2>5, <3>2, <3>4
    <2>8. CASE Gone
      <3>1. out[s] = pending_receiver[s] \o Ended(s, <<>>)
        <4>1. pending_iq \in Streams /\ pending_iq[s] = pending_iq[s] \o <<>>
          BY <1>4, <2>2
        <4>2. PICK e : e = <<>>
          OBVIOUS
        <4>3. Stepped(s, e) /\ pending_iq[s] = pending_iq[s] \o e
          BY <2>1, <4>1, <4>2
        <4>4. s \in Slots => out[s] = pending_receiver[s] \o Ended(s, e)
          BY <4>1, <4>3, FinishedSlot
        <4> QED BY <4>2, <4>4
      <3> HIDE DEF out
      <3>2. /\ failure = "none" /\ queued'[s] = <<>> /\ page'[s] = 0 /\ consumed' = consumed
            /\ pending_receiver'[s] = pending_receiver[s] \o Ended(s, <<>>)
            /\ retiring'[s] = registry[s] /\ exempt' = exempt
        BY <2>8, <3>1, NothingType
      <3>3. Exist(s)'
        BY <2>1, <2>4, <2>6, <3>2, ExistStep
      <3>4. Lines(s)'
        BY <1>3, <2>1, <3>2, FailedLines
      <3> QED BY <2>5, <3>3, <3>4
    <2>9. CASE Fail
      <3>1. /\ failure' = "pending" /\ queued'[s] = <<>> /\ page'[s] = 0 /\ consumed'[s] = {}
            /\ pending_receiver'[s] = <<>> /\ retiring'[s] = 0 /\ exempt'[s] = ids[s]
        BY <2>9, NothingType DEF Latch, Forget
      <3>2. Exist(s)' /\ pending_iq'[s] \in Seq(OldFrames(s))
        BY <2>1, <2>4, <2>6, <3>1, ExistStep
      <3>3. Memory(s)
        BY <3>1 DEF Memory
      <3>4. Lines(s)'
        BY <2>1, <3>1, <3>2, <3>3, RestLines
      <3> QED BY <2>5, <3>2, <3>4
    <2> QED BY <1>2, <2>7, <2>8, <2>9
  <1> QED BY <1>5, <1>6, <1>7 DEF Keeps

LEMMA FailedPublisherKeeps ==
  ASSUME IInv, PollFailed \/ FinishFailed PROVE Keeps
  <1>1. [Next]_vars
    BY DEF Next, Publisher
  <1>2. /\ PresentationFailed /\ made' = made /\ heard' = heard /\ shown' = shown
        /\ fence' = fence /\ hand' = Nothing /\ stale' \in {FALSE, stale} /\ pc' = "drain"
    BY DEF PollFailed, FinishFailed
  <1> QED BY <1>1, <1>2, FailedKeeps

LEMMA SubSeqSplit ==
  ASSUME NEW T, NEW q \in Seq(T), NEW k \in 0..Len(q)
  PROVE  /\ SubSeq(q, 1, k) \in Seq(T) /\ SubSeq(q, k + 1, Len(q)) \in Seq(T)
         /\ q = SubSeq(q, 1, k) \o SubSeq(q, k + 1, Len(q))
  <1> DEFINE a == SubSeq(q, 1, k)
             b == SubSeq(q, k + 1, Len(q))
  <1>1. Len(q) \in Nat /\ k \in Nat /\ k <= Len(q)
    OBVIOUS
  <1>2. a \in Seq(T) /\ Len(a) = k /\ \A i \in 1..k : a[i] = q[i]
    BY <1>1
  <1>3. b \in Seq(T) /\ Len(b) = Len(q) - k /\ \A i \in 1..(Len(q) - k) : b[i] = q[k + i]
    BY <1>1
  <1> HIDE DEF a, b
  <1>4. \A i \in 1..Len(q) : q[i] = IF i <= Len(a) THEN a[i] ELSE b[i - Len(a)]
    <2> SUFFICES ASSUME NEW i \in 1..Len(q)
                 PROVE  q[i] = IF i <= Len(a) THEN a[i] ELSE b[i - Len(a)]
      OBVIOUS
    <2>1. CASE i <= k
      BY <1>1, <1>2, <2>1
    <2>2. CASE ~(i <= k)
      <3>1. i - k \in 1..(Len(q) - k) /\ k + (i - k) = i
        BY <1>1, <2>2
      <3> QED BY <1>2, <1>3, <2>2, <3>1
    <2> QED BY <2>1, <2>2
  <1>5. Len(q) = Len(a) + Len(b)
    BY <1>1, <1>2, <1>3
  <1>6. q = a \o b
    BY <1>2, <1>3, <1>4, <1>5, ConcatIs
  <1> QED BY <1>2, <1>3, <1>6 DEF a, b

LEMMA DrainKeeps ==
  ASSUME IInv, Drain PROVE Keeps
  <1> DEFINE Part(k) == [s \in Slots |-> SubSeq(queued[s], 1, k[s])]
             Left(k) == [s \in Slots |-> SubSeq(queued[s], k[s] + 1, Len(queued[s]))]
             Gives(k) == /\ failure = "none" /\ receivers \in {"none", "live"} /\ queued' = Left(k) /\ page' = FinishPage(Part(k))
                         /\ heard' = Extend(heard, Admitted(FinishOut(Part(k)), registry))
                         /\ UNCHANGED <<receivers, failure, exempt, consumed, output>>
             Fail == /\ failure' = "published" /\ receivers' = "stopping"
                     /\ queued' = Nothing /\ page' = None /\ exempt' = ids
                     /\ Forget /\ pending_receiver' = Nothing /\ retiring' = None
                     /\ UNCHANGED heard
             Late == /\ failure # "none" /\ failure' = "published"
                     /\ receivers' \in {"none", receivers}
                     /\ UNCHANGED <<queued, page, exempt, consumed, output, heard>>
  <1>1. Typed /\ Control /\ Resting /\ [Next]_vars /\ stream_registry = registry
    BY InvFacts, Registry DEF Next, Publisher, Typed
  <1>2. /\ pc' = "send" /\ sdr' = sdr /\ pipeline' = pipeline /\ registry' = registry
        /\ pending_iq' = pending_iq /\ hand' = hand /\ stale' = stale /\ made' = made
        /\ shown' = shown /\ fence' = fence /\ hw' = hw
    BY DEF Drain, device
  <1>3. (\E k \in Parts(queued) : Gives(k)) \/ Fail \/ Late
    <2>1. identities' = registry
      BY <1>1 DEF Drain
    <2>2. CASE failure # "none"
      BY <2>2 DEF Drain
    <2>3. CASE failure = "none"
      BY <1>1, <2>1, <2>3 DEF Drain, Works
    <2> QED BY <2>2, <2>3
  <1>4. Control'
    BY <1>1, <1>2 DEF Control
  <1>5. ASSUME NEW s \in Slots PROVE Stepped(s, <<>>) /\ IqKept(s)' /\ Healthy(s)
    <2>1. Stepped(s, <<>>) /\ IqKept(s) /\ Healthy(s)
      <3>1. Advance(s, <<>>)
        BY <1>1, <1>2, AdvanceNot
      <3>2. Stepped(s, <<>>)
        BY <1>1, <1>2, <3>1, StepFacts
      <3> QED BY <3>2, InvFacts DEF Lines
    <2>2. pending_iq[s] \o <<>> = pending_iq[s]
      BY <2>1, OldTyped, ConcatEmptySeq
    <2> QED BY <1>2, <2>1, <2>2, IqAppended
  <1>6. ASSUME NEW s \in Slots
        PROVE  /\ shown'[s] \in {shown[s], shown[s] \o hand[s]}
               /\ hand'[s] \in {<<>>, hand[s], pending_iq[s] \o <<>>}
               /\ pending_iq'[s] \in {<<>>, pending_iq[s], pending_iq[s] \o <<>>}
               /\ fence'[s] = fence[s]
               /\ queued[s] \in Seq(OldFrames(s)) /\ consumed[s] \subseteq OldFrames(s)
               /\ heard[s] \in Seq(Old(s)) /\ pending_receiver[s] \in Seq(Old(s))
               /\ page[s] <= ids[s] /\ retiring[s] <= ids[s] /\ 0 <= ids[s]
               /\ <<>> \in Seq(OldFrames(s)) /\ <<>> \in Seq(Old(s))
    BY <1>2, <1>5, StoreFacts
  <1>7. CASE \E k \in Parts(queued) : Gives(k)
    <2>1. PICK k \in Parts(queued) : Gives(k)
      BY <1>7
    <2>2. /\ failure = "none" /\ receivers \in {"none", "live"} /\ receivers' = receivers /\ failure' = failure
          /\ exempt' = exempt /\ consumed' = consumed
          /\ pending_receiver' = pending_receiver /\ retiring' = retiring
      BY <2>1 DEF output
    <2>3. ASSUME NEW s \in Slots
          PROVE  /\ queued[s] \in Seq(Items)
                 /\ Part(k)[s] \in Seq(Items) /\ Left(k)[s] \in Seq(Items)
                 /\ Part(k)[s] \in Seq(OldFrames(s)) /\ Left(k)[s] \in Seq(OldFrames(s))
                 /\ queued[s] = Part(k)[s] \o Left(k)[s]
      <3>1. queued[s] \in Seq(Items) /\ queued[s] \in Seq(OldFrames(s))
        BY <1>5, OldTyped
      <3>2. k[s] \in 0..Len(queued[s])
        <4>1. k[s] \in 0..MaxFrames /\ k[s] <= Len(queued[s])
          BY DEF Parts
        <4>2. k[s] \in Nat /\ Len(queued[s]) \in Nat
          BY <3>1, <4>1, FeedAssumption
        <4> QED BY <4>1, <4>2
      <3> QED BY <3>1, <3>2, SubSeqSplit
    <2>4. Part(k) \in Streams
      BY <2>3 DEF Streams
    <2> DEFINE part == Part(k)
               rest == Left(k)
    <2> HIDE DEF part, rest, Part, Left
    <2>5. ASSUME NEW s \in Slots
          PROVE  heard'[s] = heard[s] \o Of(Process(page[s], part[s]), registry[s])
      <3>1. page \in [Slots -> Nat] /\ heard \in Streams
        BY <1>1 DEF Typed, TypeOK, Streams
      <3>2. FinishOut(part) \in Streams /\ FinishOut(part)[s] = Process(page[s], part[s])
        BY <2>4, <3>1, FinishType DEF part, FinishOut
      <3>3. /\ Admitted(FinishOut(part), registry) \in Streams
            /\ Admitted(FinishOut(part), registry)[s] = Of(FinishOut(part)[s], registry[s])
        BY <3>2, AdmittedType
      <3> DEFINE a == Admitted(FinishOut(part), registry)
      <3>4. a \in Streams /\ a[s] = Of(Process(page[s], part[s]), registry[s]) /\ heard' = Extend(heard, a)
        BY <2>1, <3>2, <3>3 DEF part
      <3> HIDE DEF a
      <3>5. Extend(heard, a)[s] = heard[s] \o a[s]
        BY <3>1, <3>4, ExtendType
      <3> QED BY <3>4, <3>5
    <2>6. ASSUME NEW s \in Slots
          PROVE  Lines(s)' /\ heard'[s] \in Seq(Old(s)) /\ page'[s] <= ids[s]
      <3>1. queued'[s] = rest[s] /\ page'[s] = PageAfter(page[s], part[s])
        BY <2>1 DEF FinishPage, part, rest
      <3>2. part[s] \in Seq(Items) /\ rest[s] \in Seq(Items) /\ queued[s] = part[s] \o rest[s]
        BY <2>3 DEF part, rest
      <3>3. Unheard'[s] = Unheard[s]
        BY <1>2, <2>2, UnheardNext
      <3>4. Memory(s)
        BY <1>2, <1>5, <2>2 DEF Memory, Healthy
      <3> QED BY <1>2, <1>5, <2>2, <2>5, <3>1, <3>2, <3>3, <3>4, DrainLines
    <2>7. ASSUME NEW s \in Slots PROVE Exist(s)'
      <3>1. queued'[s] \in Seq(OldFrames(s))
        BY <2>1, <2>3 DEF rest
      <3> QED BY <1>5, <1>6, <2>2, <2>6, <3>1, ExistStep
    <2>8. Resting'
      <3>1. ASSUME receivers # "live" PROVE queued' = Nothing /\ page' = None
        <4>1. ASSUME NEW s \in Slots PROVE queued'[s] = <<>> /\ page'[s] = 0
          <5>1. queued[s] = <<>> /\ page[s] = 0
            BY <1>1, <3>1, NothingType DEF Resting
          <5>2. /\ part[s] \in Seq(Items) /\ rest[s] \in Seq(Items) /\ part[s] \o rest[s] = <<>>
            BY <2>3, <5>1 DEF part, rest
          <5>3. part[s] = <<>> /\ rest[s] = <<>>
            <6> DEFINE x == part[s]
                       y == rest[s]
            <6>1. x \in Seq(Items) /\ y \in Seq(Items) /\ x \o y = <<>>
              BY <5>2
            <6> HIDE DEF x, y
            <6>2. Len(x) + Len(y) = Len(x \o y) /\ Len(x) \in Nat /\ Len(y) \in Nat
              BY <6>1
            <6>3. Len(x \o y) = 0
              BY <6>1
            <6>4. Len(x) = 0 /\ Len(y) = 0
              BY <6>2, <6>3
            <6>5. x = <<>> /\ y = <<>>
              BY <6>1, <6>4, EmptySeq
            <6> QED BY <6>5 DEF x, y
          <5> QED BY <2>1, <5>1, <5>3, ProcessEmpty DEF FinishPage, part, rest
        <4>2. queued' \in [Slots -> Seq(Items)] /\ page' \in [Slots -> Nat]
          <5>1. TypeOK'
            BY <1>1, TypePreserved
          <5> QED BY <5>1 DEF TypeOK
        <4> QED BY <4>1, <4>2 DEF Nothing, None
      <3> QED BY <1>1, <2>2, <3>1 DEF Resting
    <2> QED BY <1>4, <1>5, <2>6, <2>7, <2>8 DEF Keeps
  <1>8. CASE Fail
    <2>1. Resting'
      BY <1>8 DEF Resting, Forget
    <2>2. ASSUME NEW s \in Slots PROVE Exist(s)' /\ Lines(s)'
      <3>1. /\ failure' # "none" /\ queued'[s] = <<>> /\ page'[s] = 0 /\ consumed'[s] = {}
            /\ pending_receiver'[s] = <<>> /\ retiring'[s] = 0 /\ exempt'[s] = ids[s] /\ heard' = heard
        BY <1>8, NothingType DEF Forget
      <3>2. Exist(s)' /\ pending_iq'[s] \in Seq(OldFrames(s))
        BY <1>5, <1>6, <3>1, ExistStep
      <3>3. Memory(s)
        BY <3>1 DEF Memory
      <3>4. Lines(s)'
        BY <1>5, <3>1, <3>2, <3>3, RestLines
      <3> QED BY <3>2, <3>4
    <2> QED BY <1>4, <1>5, <2>1, <2>2 DEF Keeps
  <1>9. CASE Late
    <2>1. /\ failure # "none" /\ failure' # "none" /\ queued' = queued /\ page' = page /\ consumed' = consumed
          /\ pending_receiver' = pending_receiver /\ retiring' = retiring /\ exempt' = exempt
          /\ receivers' \in {"none", receivers} /\ heard' = heard
      BY <1>9 DEF output
    <2>2. /\ queued = Nothing /\ page = None /\ pending_receiver = Nothing
          /\ consumed = [s \in Slots |-> {}] /\ receivers \in {"none", "stopping", "stopped"}
      BY <1>1, <2>1 DEF Resting
    <2>3. Resting'
      BY <2>1, <2>2 DEF Resting
    <2>4. ASSUME NEW s \in Slots PROVE Exist(s)' /\ Lines(s)'
      <3>1. /\ queued'[s] = <<>> /\ page'[s] = 0 /\ consumed'[s] = {} /\ pending_receiver'[s] = <<>>
        BY <2>1, <2>2, NothingType
      <3>2. Exist(s)' /\ pending_iq'[s] \in Seq(OldFrames(s))
        BY <1>5, <1>6, <2>1, <3>1, ExistStep
      <3>3. Memory(s)
        BY <3>1 DEF Memory
      <3>4. Lines(s)'
        BY <1>5, <2>1, <3>1, <3>2, <3>3, RestLines
      <3> QED BY <3>2, <3>4
    <2> QED BY <1>4, <1>5, <2>3, <2>4 DEF Keeps
  <1> QED BY <1>3, <1>7, <1>8, <1>9
-----------------------------------------------------------------------------
(* Commands.                                                               *)

(* What a delivery lets the subscribers of a slot hear.                    *)
LEMMA DeliveredSlot ==
  ASSUME NEW s \in Slots, NEW b, Stepped(s, b), NEW pend \in Streams, NEW adm, Deliver(pend, adm),
         NEW out, out \in Seq(Old(s)), pend[s] = pending_receiver[s] \o out
  PROVE  /\ Delivered(s, out, adm[s]) /\ heard'[s] \in Seq(Old(s)) /\ pending_receiver'[s] = <<>>
         /\ adm[s] = 0 => heard'[s] = heard[s] /\ NothingHeard(s)
  <1>1. Typed /\ TypeOK /\ out \in Seq(Items)
    BY OldSeq DEF Stepped, Typed
  <1>2. heard'[s] = heard[s] \o Of(pend[s], adm[s]) /\ pending_receiver'[s] = <<>>
    BY <1>1, DeliverType, NothingType
  <1>3. Delivered(s, out, adm[s])
    BY <1>2 DEF Delivered
  <1>4. heard'[s] \in Seq(Old(s)) /\ (adm[s] = 0 => heard'[s] = heard[s])
    BY <1>1, <1>3, DeliveredOf
  <1> QED BY <1>2, <1>3, <1>4 DEF NothingHeard

LEMMA TailsDelivered ==
  ASSUME NEW s \in Slots, NEW b, Stepped(s, b), NEW adm, Deliver(pending_receiver, adm)
  PROVE  /\ Delivered(s, <<>>, adm[s]) /\ heard'[s] \in Seq(Old(s)) /\ pending_receiver'[s] = <<>>
         /\ adm[s] = 0 => heard'[s] = heard[s] /\ NothingHeard(s)
         /\ adm = retiring => TailsHeard(s)
         /\ pending_receiver[s] = <<>> => heard'[s] = heard[s]
  <1>1. pending_receiver \in Streams /\ pending_receiver[s] \in Seq(Items) /\ heard[s] \in Seq(Items) /\ TypeOK
    BY DEF Stepped, Typed, TypeOK, Streams
  <1> DEFINE o == <<>>
  <1>2. pending_receiver[s] = pending_receiver[s] \o o /\ o \in Seq(Old(s)) /\ o = <<>>
    BY <1>1, ConcatEmptySeq
  <1> HIDE DEF o
  <1>3. /\ Delivered(s, o, adm[s]) /\ heard'[s] \in Seq(Old(s)) /\ pending_receiver'[s] = <<>>
        /\ adm[s] = 0 => heard'[s] = heard[s] /\ NothingHeard(s)
    BY <1>1, <1>2, DeliveredSlot
  <1>4. pending_receiver[s] = <<>> => heard'[s] = heard[s]
    <2>1. heard'[s] = heard[s] \o Of(pending_receiver[s], adm[s])
      BY <1>1, DeliverType
    <2> QED BY <1>1, <2>1, OfEmpty, ConcatEmptySeq
  <1> QED BY <1>2, <1>3, <1>4 DEF TailsHeard

(* The identity of a slot is cut before the frames of its workers come:    *)
(* with no workers nothing was made of it.                                 *)
LEMMA NothingMade ==
  ASSUME NEW s \in Slots, Stepped(s, <<>>), receivers \in {"none", "broken"},
         failure = "none", registry[s] # 0
  PROVE  made'[s][registry[s]] = 0
  <1>1. made[s][registry[s]] = 0
    BY DEF Stepped, Lines, Line
  <1>2. registry[s] \in 1..ids[s]
    BY AdvanceCounts DEF Stepped
  <1>3. \A id \in 1..ids[s] : made'[s][id] = made[s][id]
    BY DEF Stepped, Advance, Adds
  <1> QED BY <1>1, <1>2, <1>3

LEMMA ChangeKeeps ==
  ASSUME IInv, NEW S \in SUBSET Slots, NEW Off, NEW B \in Batches, Change(S, Off, B), [Next]_vars
  PROVE  Keeps
  <1> DEFINE fs   == Extend(pending_iq, Batch(B))
             q    == Extend(queued, Accepted(fs, registry))
             pg   == FinishPage(q)
             C    == Changed(registry, registry')
             out  == Extend(pending_receiver, Extend(FinishOut(q), CloseOut(pg, C)))
             Idle == /\ Batch(B) = Nothing /\ receivers = "none"
                     /\ Deliver(pending_receiver, retiring)
                     /\ queued' = [s \in Slots |-> IF s \in S THEN <<>> ELSE queued[s]]
                     /\ UNCHANGED <<feed, receivers, failure, page, retiring, exempt>>
             Rest == /\ failure # "none" /\ pending_iq' = fs /\ retiring' = registry
                     /\ UNCHANGED <<consumed, workers, exempt>>
                     /\ Deliver(pending_receiver, registry)
             Work == /\ failure = "none" /\ receivers \in {"none", "live"}
                     /\ pending_iq' = fs /\ retiring' = registry
                     /\ consumed' = Remembered(pending_iq, Batch(B))
                     /\ queued' = Nothing /\ page' = ClosePage(pg, C) /\ receivers' = "live"
                     /\ Deliver(out, registry)
                     /\ UNCHANGED <<failure, exempt>>
             Fail == /\ pending_iq' = fs /\ retiring' = registry
                     /\ failure' = "pending" /\ exempt' = ids' /\ receivers' \in {"none", "stopping"}
                     /\ queued' = Nothing /\ page' = None /\ Forget
                     /\ Deliver(Nothing, None)
  <1>1. Typed /\ Control /\ Resting /\ stream_registry = registry
    BY InvFacts, Registry DEF Typed
  <1>2. /\ sdr /\ pipeline /\ sdr' = sdr /\ pipeline' = pipeline
        /\ registry' = Renamed(registry, made, S, Off) /\ made' = Counted(Made(B), S, Off)
        /\ pc' = pc /\ hand' = hand /\ stale' = stale
        /\ shown' = shown /\ fence' = fence /\ hw' = hw
    BY DEF Change, publisher
  <1>3. Idle \/ Rest \/ Work \/ Fail
    <2>1. CASE ~Drains(Batch(B))
      BY <2>1 DEF Change, Drains
    <2>2. CASE Drains(Batch(B)) /\ failure # "none"
      BY <1>1, <2>2 DEF Change, Retiring
    <2>3. CASE Drains(Batch(B)) /\ failure = "none"
      BY <1>1, <1>2, <2>3 DEF Change, Retiring, Works
    <2> QED BY <2>1, <2>2, <2>3
  <1>4. pending_iq \in Streams /\ Batch(B) \in Streams /\ fs \in Streams
        /\ \A s \in Slots : fs[s] = pending_iq[s] \o Batch(B)[s]
    <2>1. pending_iq \in Streams /\ Batch(B) \in Streams
      BY <1>1, BatchType DEF Typed, TypeOK, Streams
    <2> QED BY <2>1, ExtendType
  <1>5. Control'
    BY <1>1, <1>2 DEF Control
  <1>6. pending_receiver' = Nothing /\ pending_receiver \in Streams
    BY <1>1, <1>3 DEF Deliver, Typed, TypeOK, Streams
  <1>7. Resting'
    <2>1. CASE Idle
      <3>1. /\ queued = Nothing /\ page = None /\ consumed' = consumed /\ receivers' = receivers
            /\ page' = page /\ failure' = failure
        BY <1>1, <2>1 DEF Resting, feed
      <3>2. queued' = Nothing
        BY <2>1, <3>1 DEF Nothing
      <3> QED BY <1>1, <1>6, <3>1, <3>2 DEF Resting
    <2>2. CASE Rest
      BY <1>1, <1>6, <2>2 DEF Resting, workers
    <2>3. CASE Work
      BY <2>3 DEF Resting
    <2>4. CASE Fail
      BY <1>6, <2>4 DEF Resting, Forget
    <2> QED BY <1>3, <2>1, <2>2, <2>3, <2>4
  <1> HIDE DEF fs
  <1>8. ASSUME NEW s \in Slots PROVE Exist(s)' /\ IqKept(s)' /\ Lines(s)'
    <2> DEFINE b == Batch(B)[s]
    <2>1. /\ Stepped(s, b) /\ IqKept(s) /\ Healthy(s)
          /\ registry'[s] \in {0, registry[s], ids[s] + 1}
      <3>1. Advance(s, b) /\ registry'[s] \in {0, registry[s], ids[s] + 1}
        BY <1>1, <1>2, AdvanceChanged
      <3>2. Stepped(s, b)
        BY <1>1, <1>2, <3>1, StepFacts
      <3> QED BY <3>1, <3>2, InvFacts DEF Lines
    <2>2. fs[s] = pending_iq[s] \o b /\ (Batch(B) = Nothing => b = <<>>)
      BY <1>4, NothingType
    <2> HIDE DEF b
    <2>3. pending_iq'[s] = pending_iq[s] \o b
      <3>1. CASE Idle
        <4>1. pending_iq' = pending_iq /\ b = <<>>
          BY <2>2, <3>1 DEF feed
        <4> QED BY <2>1, <4>1, OldTyped, ConcatEmptySeq
      <3>2. CASE ~Idle
        BY <1>3, <2>2, <3>2
      <3> QED BY <3>1, <3>2
    <2>4. IqKept(s)'
      BY <1>2, <2>1, <2>3, IqAppended
    <2>5. /\ queued[s] \in Seq(OldFrames(s)) /\ consumed[s] \subseteq OldFrames(s)
          /\ page[s] <= ids[s] /\ retiring[s] <= ids[s] /\ 0 <= ids[s] /\ registry[s] <= ids[s]
          /\ <<>> \in Seq(OldFrames(s)) /\ <<>> \in Seq(Old(s)) /\ LastPage(s, b) <= ids[s]
          /\ ToSet(pending_iq[s] \o b) \subseteq OldFrames(s)
          /\ ToSet(pending_iq[s] \o b) = ToSet(pending_iq[s]) \cup ToSet(b)
      BY <2>1, StoreFacts
    <2>6. pending_receiver'[s] = <<>>
      BY <1>6, NothingType
    <2>7. ASSUME queued'[s] \in Seq(OldFrames(s)), consumed'[s] \subseteq OldFrames(s),
                 heard'[s] \in Seq(Old(s)), page'[s] <= ids[s], retiring'[s] <= ids[s],
                 exempt'[s] \in {exempt[s], ids[s], ids'[s]}
          PROVE  Exist(s)' /\ pending_iq'[s] \in Seq(OldFrames(s))
      BY <1>2, <2>1, <2>3, <2>5, <2>6, <2>7, ExistStep
    <2>8. CASE Idle
      <3>1. /\ receivers = "none" /\ receivers' = receivers /\ failure' = failure /\ page' = page
            /\ consumed' = consumed /\ retiring' = retiring /\ exempt' = exempt /\ b = <<>>
            /\ pending_iq' = pending_iq
        BY <2>2, <2>8 DEF feed
      <3>2. queued'[s] = queued[s]
        <4>1. queued[s] = <<>>
          BY <1>1, <3>1, NothingType DEF Resting
        <4> QED BY <2>8, <4>1
      <3>3. TailsHeard(s) /\ heard'[s] \in Seq(Old(s))
        BY <2>1, <2>8, TailsDelivered
      <3>4. Exist(s)' /\ pending_iq'[s] \in Seq(OldFrames(s))
        BY <2>5, <2>7, <3>1, <3>2, <3>3
      <3>5. Memory(s) /\ Unheard'[s] = Unheard[s]
        BY <1>2, <2>1, <3>1, UnheardNext DEF Memory, Healthy
      <3>6. Stepped(s, <<>>) /\ page'[s] = page[s] /\ exempt'[s] = exempt[s]
        BY <2>1, <3>1
      <3>7. CASE registry'[s] = registry[s]
        <4>1. Lines(s)'
          BY <3>1, <3>2, <3>3, <3>5, <3>7, <3>6, QuietLines
        <4> QED BY <2>4, <3>4, <4>1
      <3>8. CASE registry'[s] # registry[s]
        <4>1. failure = "none" /\ registry[s] # 0 => made'[s][registry[s]] = 0
          BY <3>1, <3>6, NothingMade
        <4>2. registry'[s] \in {0, ids[s] + 1}
          BY <2>1, <3>8
        <4>3. Lines(s)'
          BY <2>1, <3>1, <3>2, <3>3, <3>4, <3>5, <3>6, <4>1, <4>2, BareLines
        <4> QED BY <2>4, <3>4, <4>3
      <3> QED BY <2>4, <3>4, <3>7, <3>8 
    <2>9. CASE Rest
      <3>1. /\ failure' # "none" /\ queued' = queued /\ page' = page /\ consumed' = consumed
            /\ retiring' = registry /\ exempt' = exempt
        BY <2>9 DEF workers
      <3>2. /\ queued[s] = <<>> /\ page[s] = 0 /\ pending_receiver[s] = <<>> /\ consumed[s] = {}
        BY <1>1, <2>9, NothingType DEF Resting
      <3>3. heard'[s] = heard[s] /\ heard'[s] \in Seq(Old(s))
        BY <2>1, <2>9, <3>2, TailsDelivered
      <3>4. Exist(s)' /\ pending_iq'[s] \in Seq(OldFrames(s))
        BY <2>5, <2>7, <3>1, <3>3
      <3>5. Memory(s)
        BY <3>1, <3>2 DEF Memory
      <3> QED BY <2>1, <2>4, <2>6, <3>1, <3>2, <3>3, <3>4, <3>5, RestLines
    <2>10. CASE Work
      <3>1. /\ failure = "none" /\ failure' = "none" /\ receivers # "broken" /\ receivers' = "live"
            /\ exempt' = exempt /\ retiring' = registry /\ queued'[s] = <<>>
            /\ consumed'[s] = (consumed[s] \cup ToSet(pending_iq[s])) \cup ToSet(b)
        BY <2>10, NothingType DEF Remembered, b
      <3>2. /\ s \in C => out[s] = pending_receiver[s] \o Ended(s, b) /\ page'[s] = 0
            /\ s \notin C => out[s] = pending_receiver[s] \o Done(s, b) /\ page'[s] = LastPage(s, b)
            /\ out \in Streams
        <4>1. /\ s \in C => out[s] = pending_receiver[s] \o Ended(s, b) /\ ClosePage(pg, C)[s] = 0
              /\ s \notin C => out[s] = pending_receiver[s] \o Done(s, b) /\ ClosePage(pg, C)[s] = LastPage(s, b)
              /\ out \in Streams
          BY <1>4, <2>1, <2>2, FinishedSlot
        <4> QED BY <2>10, <4>1
      <3>3. Done(s, b) \in Seq(Old(s)) /\ Ended(s, b) \in Seq(Old(s))
        BY <2>1, DoneType DEF Stepped, Lines
      <3>4. s \in C <=> registry[s] # 0 /\ registry[s] # registry'[s]
        BY DEF Changed
      <3>5. Deliver(out, registry)
        BY <2>10
      <3> HIDE DEF out, C, pg
      <3>6. /\ s \in C => Delivered(s, Ended(s, b), registry[s])
            /\ s \notin C => Delivered(s, Done(s, b), registry[s])
            /\ heard'[s] \in Seq(Old(s)) /\ (registry[s] = 0 => NothingHeard(s))
        BY <2>1, <3>2, <3>3, <3>5, DeliveredSlot
      <3>7. /\ consumed'[s] \subseteq OldFrames(s) /\ page'[s] <= ids[s]
            /\ ToSet(pending_iq'[s]) \subseteq consumed'[s]
        BY <2>3, <2>5, <3>1, <3>2
      <3>8. Exist(s)' /\ pending_iq'[s] \in Seq(OldFrames(s))
        BY <2>5, <2>7, <3>1, <3>6, <3>7
      <3>9. Memory(s)
        <4>1. hw = 0 => consumed[s] \subseteq ToSet(pending_iq[s])
          BY <2>1, <3>1 DEF Healthy
        <4> QED BY <1>2, <2>3, <2>5, <3>1, <4>1 DEF Memory
      <3>10. Unheard'[s] = <<>>
        <4>1. pending_iq'[s] \in Seq(Items)
          BY <2>1, <3>8, OldSeq, UnheardOld DEF Stepped
        <4> QED BY <3>7, <4>1, UnheardNext
      <3>11. CASE s \in C
        BY <2>1, <2>4, <3>1, <3>2, <3>4, <3>6, <3>8, <3>9, <3>10, <3>11, EndLines
      <3>12. CASE registry'[s] = registry[s]
        <4>1. s \notin C
          BY <3>4, <3>12
        <4> QED BY <2>1, <2>4, <3>1, <3>2, <3>6, <3>8, <3>9, <3>10, <3>12, <4>1, FlushLines
      <3>13. CASE registry[s] = 0 /\ registry'[s] # registry[s]
        <4>1. s \notin C /\ NothingHeard(s)
          BY <3>4, <3>6, <3>13
        <4>2. page[s] = 0 /\ queued[s] = <<>> => page'[s] = 0
          <5>1. All(s, b) = queued[s]
            BY <2>1, <3>13, AllType DEF Stepped, Lines
          <5> QED BY <3>2, <4>1, <5>1, ProcessEmpty DEF LastPage
        <4> QED BY <2>1, <2>4, <3>1, <3>7, <3>8, <3>9, <3>10, <3>13, <4>1, <4>2, BareLines
      <3> QED BY <3>4, <3>11, <3>12, <3>13
    <2>11. CASE Fail
      <3>1. /\ failure' # "none" /\ queued'[s] = <<>> /\ page'[s] = 0 /\ consumed'[s] = {}
            /\ retiring'[s] = registry[s] /\ exempt'[s] = ids'[s]
        BY <2>11, NothingType DEF Forget
      <3>2. heard'[s] = heard[s]
        <4>1. heard'[s] = heard[s] \o Of(Nothing[s], None[s])
          BY <1>1, <2>11, NothingType, DeliverType DEF Typed
        <4>2. heard[s] \in Seq(Items) /\ Of(Nothing[s], None[s]) = <<>>
          BY <2>1, OldTyped, NothingType, OfEmpty
        <4> QED BY <4>1, <4>2, ConcatEmptySeq
      <3>3. heard[s] \in Seq(Old(s))
        BY <2>1, OldTyped
      <3>4. Exist(s)' /\ pending_iq'[s] \in Seq(OldFrames(s))
        BY <2>5, <2>7, <3>1, <3>2, <3>3
      <3>5. Memory(s)
        BY <3>1 DEF Memory
      <3> QED BY <2>1, <2>4, <2>6, <3>1, <3>2, <3>4, <3>5, RestLines
    <2> QED BY <1>3, <2>8, <2>9, <2>10, <2>11
  <1> QED BY <1>5, <1>7, <1>8 DEF Keeps

LEMMA CommandKeeps ==
  ASSUME IInv, Command PROVE Keeps
  <1>1. [Next]_vars
    BY DEF Next
  <1>2. PICK B \in Batches :
          \/ \E s \in Slots : Change({s}, {}, B)
          \/ \E s \in Slots \ {1} : registry[s] # 0 /\ Change({s}, {s}, B)
          \/ Change(Slots, {s \in Slots : registry[s] = 0}, B)
          \/ Change({}, {}, B)
    BY DEF Command
  <1>3. \E S \in SUBSET Slots, Off \in SUBSET Slots : Change(S, Off, B)
    <2>1. ASSUME NEW s \in Slots, Change({s}, {}, B) \/ Change({s}, {s}, B)
          PROVE  \E S \in SUBSET Slots, Off \in SUBSET Slots : Change(S, Off, B)
      <3>1. {s} \in SUBSET Slots /\ {} \in SUBSET Slots
        OBVIOUS
      <3> QED BY <2>1, <3>1
    <2>2. Slots \in SUBSET Slots /\ {s \in Slots : registry[s] = 0} \in SUBSET Slots /\ {} \in SUBSET Slots
      OBVIOUS
    <2> QED BY <1>2, <2>1, <2>2
  <1>4. PICK S \in SUBSET Slots, Off \in SUBSET Slots : Change(S, Off, B)
    BY <1>3
  <1> QED BY <1>1, <1>4, ChangeKeeps

(* The same while no pipeline runs.                                        *)
LEMMA ChangeStoppedKeeps ==
  ASSUME IInv, ChangeStopped PROVE Keeps
  <1> DEFINE Idle == /\ receivers = "none" /\ Deliver(pending_receiver, retiring)
                     /\ UNCHANGED <<consumed, workers, retiring, exempt>>
             Work == /\ failure = "none" /\ receivers = "live"
                     /\ retiring' = None /\ Deliver(pending_receiver, None)
                     /\ page' = FinishPage(queued) /\ queued' = Nothing
                     /\ consumed' = Remembered(pending_iq, Nothing)
                     /\ UNCHANGED <<receivers, failure, exempt>>
             Fail == /\ retiring' = None /\ Deliver(pending_receiver, None) /\ Latch /\ Forget
                     /\ failure = "none" /\ receivers # "none"
             Rest == /\ retiring' = None /\ Deliver(pending_receiver, None)
                     /\ failure # "none" /\ UNCHANGED <<consumed, workers, exempt>>
  <1>1. Typed /\ Control /\ Resting /\ [Next]_vars
    BY InvFacts DEF Next
  <1>2. /\ sdr /\ ~pipeline /\ sdr' = sdr /\ pipeline' = pipeline /\ registry' = registry
        /\ pc' = pc /\ hand' = hand /\ stale' = stale /\ pending_iq' = pending_iq /\ made' = made
        /\ shown' = shown /\ fence' = fence /\ hw' = hw
    BY DEF ChangeStopped, device, publisher
  <1>3. Idle \/ Work \/ Fail \/ Rest
    <2>1. CASE receivers = "none"
      BY <2>1 DEF ChangeStopped
    <2>2. CASE receivers # "none" /\ failure # "none"
      BY <2>2 DEF ChangeStopped
    <2>3. CASE receivers # "none" /\ failure = "none"
      BY <2>3 DEF ChangeStopped, Works
    <2> QED BY <2>1, <2>2, <2>3
  <1>4. Control'
    BY <1>1, <1>2 DEF Control
  <1>5. pending_receiver' = Nothing
    BY <1>3 DEF Deliver
  <1>6. Resting'
    <2>1. CASE Idle
      BY <1>1, <1>5, <2>1 DEF Resting, workers
    <2>2. CASE Work
      BY <2>2 DEF Resting
    <2>3. CASE Fail
      BY <1>5, <2>3 DEF Resting, Latch, Forget
    <2>4. CASE Rest
      BY <1>1, <1>5, <2>4 DEF Resting, workers
    <2> QED BY <1>3, <2>1, <2>2, <2>3, <2>4
  <1>7. ASSUME NEW s \in Slots PROVE Exist(s)' /\ IqKept(s)' /\ Lines(s)'
    <2>1. /\ Stepped(s, <<>>) /\ IqKept(s) /\ Healthy(s)
          /\ registry[s] = 0 /\ registry'[s] = 0 /\ ids[s] = ids'[s]
      <3>1. registry[s] = 0 /\ registry'[s] = 0
        BY <1>1, <1>2, NothingType DEF Control
      <3>2. Advance(s, <<>>)
        BY <1>1, <1>2, AdvanceNot
      <3>3. Stepped(s, <<>>)
        BY <1>1, <1>2, <3>2, StepFacts
      <3> QED BY <1>2, <3>1, <3>3, InvFacts DEF Lines, ids
    <2>2. pending_iq[s] \o <<>> = pending_iq[s]
      BY <2>1, OldTyped, ConcatEmptySeq
    <2>3. IqKept(s)'
      BY <1>2, <2>1, <2>2, IqAppended
    <2>4. /\ queued[s] \in Seq(OldFrames(s)) /\ consumed[s] \subseteq OldFrames(s)
          /\ page[s] <= ids[s] /\ retiring[s] <= ids[s] /\ 0 <= ids[s]
          /\ <<>> \in Seq(OldFrames(s)) /\ <<>> \in Seq(Old(s)) /\ LastPage(s, <<>>) <= ids[s]
          /\ ToSet(pending_iq[s]) \subseteq OldFrames(s) /\ pending_iq[s] \in Seq(OldFrames(s))
      BY <2>1, <2>2, StoreFacts
    <2>5. pending_receiver'[s] = <<>>
      BY <1>5, NothingType
    <2>6. ASSUME queued'[s] \in Seq(OldFrames(s)), consumed'[s] \subseteq OldFrames(s),
                 heard'[s] \in Seq(Old(s)), page'[s] <= ids[s], retiring'[s] <= ids[s],
                 exempt'[s] \in {exempt[s], ids[s]}
          PROVE  Exist(s)'
      BY <1>2, <2>1, <2>2, <2>4, <2>5, <2>6, ExistStep
    <2>7. /\ Deliver(pending_receiver, retiring) => TailsHeard(s) /\ heard'[s] \in Seq(Old(s))
          /\ Deliver(pending_receiver, None) =>
               NothingHeard(s) /\ heard'[s] = heard[s] /\ heard'[s] \in Seq(Old(s))
      BY <2>1, NothingType, TailsDelivered
    <2>8. CASE Idle
      <3>1. /\ receivers' = receivers /\ failure' = failure /\ page' = page /\ queued' = queued
            /\ consumed' = consumed /\ retiring' = retiring /\ exempt' = exempt
        BY <2>8 DEF workers
      <3>2. Memory(s) /\ Unheard'[s] = Unheard[s]
        BY <1>2, <2>1, <3>1, UnheardNext DEF Memory, Healthy
      <3>3. Exist(s)'
        BY <2>4, <2>6, <2>7, <2>8, <3>1
      <3>4. Lines(s)'
        BY <2>1, <2>7, <2>8, <3>1, <3>2, QuietLines
      <3> QED BY <2>3, <3>3, <3>4
    <2>9. CASE Work
      <3>1. /\ failure' = failure /\ receivers = "live" /\ receivers' = "live"
            /\ exempt' = exempt /\ retiring'[s] = 0 /\ queued'[s] = <<>>
        BY <2>9, NothingType
      <3>2. consumed'[s] = consumed[s] \cup ToSet(pending_iq[s])
        <4>1. consumed'[s] = (consumed[s] \cup ToSet(pending_iq[s])) \cup ToSet(Nothing[s])
          BY <2>9 DEF Remembered
        <4>2. ToSet(Nothing[s]) = {}
          BY NothingType DEF ToSet
        <4> QED BY <4>1, <4>2
      <3>3. page'[s] = LastPage(s, <<>>) /\ (page[s] = 0 /\ queued[s] = <<>> => page'[s] = 0)
        <4>1. All(s, <<>>) = queued[s]
          BY <2>1, AllType DEF Stepped, Lines
        <4>2. page'[s] = PageAfter(page[s], queued[s])
          BY <2>9 DEF FinishPage
        <4> QED BY <4>1, <4>2, ProcessEmpty DEF LastPage
      <3>4. consumed'[s] \subseteq OldFrames(s) /\ ToSet(pending_iq'[s]) \subseteq consumed'[s]
        BY <1>2, <2>4, <3>2
      <3>5. Exist(s)'
        BY <2>4, <2>6, <2>7, <2>9, <3>1, <3>3, <3>4
      <3>6. Memory(s)
        <4>1. hw = 0 => consumed[s] \subseteq ToSet(pending_iq[s])
          BY <2>1, <3>1 DEF Healthy
        <4> QED BY <1>2, <3>2, <4>1 DEF Memory
      <3>7. Unheard'[s] = <<>>
        <4>1. pending_iq'[s] \in Seq(Items)
          BY <1>2, <2>1, OldTyped
        <4> QED BY <3>4, <4>1, UnheardNext
      <3>8. Lines(s)'
        BY <1>2, <2>1, <2>4, <2>7, <2>9, <3>1, <3>3, <3>6, <3>7, BareLines
      <3> QED BY <2>3, <3>5, <3>8
    <2>10. CASE Fail
      <3>1. /\ failure' # "none" /\ queued'[s] = <<>> /\ page'[s] = 0 /\ consumed'[s] = {}
            /\ retiring'[s] = 0 /\ exempt'[s] = ids[s]
        BY <2>10, NothingType DEF Forget, Latch
      <3>2. Exist(s)'
        BY <2>4, <2>6, <2>7, <2>10, <3>1
      <3>3. Memory(s)
        BY <3>1 DEF Memory
      <3>4. Lines(s)'
        BY <1>2, <2>1, <2>4, <2>5, <2>7, <2>10, <3>1, <3>3, RestLines
      <3> QED BY <2>3, <3>2, <3>4
    <2>11. CASE Rest
      <3>1. /\ failure' # "none" /\ queued' = queued /\ page' = page /\ consumed' = consumed
            /\ retiring'[s] = 0 /\ exempt' = exempt
        BY <2>11, NothingType DEF workers
      <3>2. /\ queued[s] = <<>> /\ page[s] = 0 /\ consumed[s] = {}
        BY <1>1, <2>11, NothingType DEF Resting
      <3>3. Exist(s)'
        BY <2>4, <2>6, <2>7, <2>11, <3>1
      <3>4. Memory(s)
        BY <3>1, <3>2 DEF Memory
      <3>5. Lines(s)'
        BY <1>2, <2>1, <2>4, <2>5, <2>7, <2>11, <3>1, <3>2, <3>4, RestLines
      <3> QED BY <2>3, <3>3, <3>5
    <2> QED BY <1>3, <2>8, <2>9, <2>10, <2>11
  <1> QED BY <1>4, <1>6, <1>7 DEF Keeps

(* The workers start anew.                                                 *)
LEMMA RestartKeeps ==
  ASSUME IInv, NEW B \in Batches, Restart(B) PROVE Keeps
  <1> DEFINE fs == Extend(pending_iq, Batch(B))
             Runs == /\ pipeline /\ registry' = Renamed(registry, made, Slots, {s \in Slots : registry[s] = 0})
                     /\ made' = Counted(Made(B), Slots, {s \in Slots : registry[s] = 0})
                     /\ pending_iq' = fs /\ retiring' \in {registry, retiring}
             Stops == ~pipeline /\ UNCHANGED <<registry, made, pending_iq, retiring>>
  <1>1. Typed /\ Control /\ Resting /\ [Next]_vars
    BY InvFacts DEF Next
  <1>2. /\ sdr /\ sdr' = sdr /\ pipeline' = pipeline /\ Reaped
        /\ receivers' = "none" /\ failure' = "none" /\ Forget /\ exempt' = ids
        /\ queued' = queued /\ page' = page /\ pc' = pc /\ hand' = hand /\ stale' = stale
        /\ shown' = shown /\ fence' = fence /\ hw' = hw /\ Deliver(pending_receiver, retiring')
    BY DEF Restart, publisher
  <1>3. Runs \/ Stops
    BY DEF Restart
  <1>4. pending_iq \in Streams /\ Batch(B) \in Streams
        /\ \A s \in Slots : fs[s] = pending_iq[s] \o Batch(B)[s]
    <2>1. pending_iq \in Streams /\ Batch(B) \in Streams
      BY <1>1, BatchType DEF Typed, TypeOK, Streams
    <2> QED BY <2>1, ExtendType
  <1> HIDE DEF fs
  <1>5. Control'
    BY <1>1, <1>2, <1>3 DEF Control
  <1>6. /\ queued = Nothing /\ page = None /\ pending_receiver = Nothing /\ pending_receiver' = Nothing
        /\ failure # "none"
    BY <1>1, <1>2 DEF Resting, Deliver, Reaped
  <1>7. Resting'
    BY <1>2, <1>6 DEF Resting, Forget
  <1>8. ASSUME NEW s \in Slots PROVE Exist(s)' /\ IqKept(s)' /\ Lines(s)'
    <2>1. PICK b : /\ Advance(s, b) /\ pending_iq'[s] = pending_iq[s] \o b
                   /\ registry'[s] \in {0, ids[s] + 1}
                   /\ retiring'[s] \in {registry[s], retiring[s]}
      <3>1. CASE Runs
        <4>1. /\ Advance(s, Batch(B)[s])
              /\ registry'[s] = IF s \in {t \in Slots : registry[t] = 0} THEN 0 ELSE IF s \in Slots THEN ids[s] + 1 ELSE registry[s]
          BY <1>1, <3>1, AdvanceChanged
        <4> QED BY <1>4, <3>1, <4>1
      <3>2. CASE Stops
        <4>1. registry[s] = 0
          BY <1>1, <3>2, NothingType DEF Control
        <4>2. Advance(s, <<>>)
          BY <1>1, <3>2, AdvanceNot
        <4>3. pending_iq[s] \o <<>> = pending_iq[s]
          BY <1>1, ConcatEmptySeq DEF Typed, TypeOK
        <4> QED BY <3>2, <4>1, <4>2, <4>3
      <3> QED BY <1>3, <3>1, <3>2
    <2>2. Stepped(s, b) /\ IqKept(s)
      BY <1>1, <1>2, <2>1, StepFacts, InvFacts
    <2>3. IqKept(s)'
      BY <1>2, <2>1, <2>2, IqAppended
    <2>4. /\ queued'[s] = <<>> /\ page'[s] = 0 /\ pending_receiver'[s] = <<>> /\ consumed'[s] = {}
          /\ exempt'[s] = ids[s] /\ pending_receiver[s] = <<>>
      BY <1>2, <1>6, NothingType DEF Forget
    <2>5. heard'[s] = heard[s] /\ heard'[s] \in Seq(Old(s)) /\ NothingHeard(s)
      <3>1. heard'[s] = heard[s] /\ heard'[s] \in Seq(Old(s))
        BY <1>2, <2>2, <2>4, TailsDelivered
      <3> QED BY <2>4, <3>1 DEF NothingHeard
    <2>6. /\ retiring[s] <= ids[s] /\ 0 <= ids[s] /\ registry[s] <= ids[s]
          /\ <<>> \in Seq(OldFrames(s)) /\ <<>> \in Seq(Old(s))
      BY <2>2, StoreFacts
    <2>7. Exist(s)' /\ pending_iq'[s] \in Seq(OldFrames(s))
      BY <1>2, <2>1, <2>2, <2>4, <2>5, <2>6, ExistStep
    <2>8. Memory(s)
      BY <2>4 DEF Memory
    <2>9. Lines(s)'
      BY <2>1, <2>2, <2>4, <2>5, <2>7, <2>8, CutLines
    <2> QED BY <2>3, <2>7, <2>9
  <1> QED BY <1>5, <1>7, <1>8 DEF Keeps
-----------------------------------------------------------------------------
(* Mode changes.                                                           *)

(* The batch in the publisher's hand is of another capture epoch.          *)
LEMMA EpochFacts ==
  ASSUME Typed, NewEpoch, hand' = hand, pc' = pc
  PROVE  /\ \A s \in Slots : Held(s)' = <<>> /\ fence'[s] = ids[s]
         /\ pc' = "poll" => hand' = Nothing /\ ~stale'
  <1>1. stale' = (hand # Nothing) /\ fence' = ids
    BY DEF NewEpoch
  <1>2. pc = "poll" => hand = Nothing
    BY DEF Typed, Control
  <1>3. ASSUME NEW s \in Slots PROVE Held(s)' = <<>>
    <2>1. CASE hand = Nothing
      BY <2>1, NothingType, HeldFacts
    <2>2. CASE hand # Nothing
      BY <1>1, <2>2, HeldFacts
    <2> QED BY <2>1, <2>2
  <1> QED BY <1>1, <1>2, <1>3

(* Workers that have nothing put out nothing.                              *)
LEMMA IdleEnded ==
  ASSUME NEW s \in Slots, NEW b, Stepped(s, b), b = <<>>, queued[s] = <<>>, page[s] = 0,
         pending_iq[s] = <<>> \/ registry[s] = 0
  PROVE  Ended(s, b) = <<>>
  <1>1. Acc(s, b) = <<>>
    <2>1. CASE registry[s] = 0
      BY <2>1, AllType DEF Stepped, Lines
    <2>2. CASE pending_iq[s] = <<>>
      <3>1. Unheard[s] = <<>>
        BY <2>2, UnheardType, AmongEmpty DEF Stepped
      <3>2. Of(Unheard[s], registry[s]) = <<>>
        BY <3>1, OfEmpty
      <3> QED BY <3>2 DEF Acc
    <2> QED BY <2>1, <2>2
  <1>2. All(s, b) = <<>>
    BY <1>1 DEF All
  <1>3. Done(s, b) = <<>> /\ LastPage(s, b) = 0
    BY <1>2, ProcessEmpty DEF Done, LastPage
  <1> QED BY <1>3 DEF Ended, Closing

LEMMA LeaveKeeps ==
  ASSUME IInv, NEW B \in Batches, LeaveSdr(B) PROVE Keeps
  <1> DEFINE fs   == Extend(pending_iq, Batch(B))
             q    == Extend(queued, Accepted(fs, registry))
             pg   == FinishPage(q)
             out  == Extend(pending_receiver, Extend(FinishOut(q), CloseOut(pg, Slots)))
             Work == /\ failure = "none" /\ receivers \in {"none", "live"} /\ failure' = "none" /\ Forget
                     /\ receivers' = IF fs # Nothing THEN "live" ELSE receivers
                     /\ retiring' = (IF receivers' = "none" THEN retiring ELSE registry)
                     /\ Deliver(out, retiring') /\ exempt' = exempt
                     /\ queued' = Nothing /\ page' = None
             New  == /\ Reaped /\ failure' = "none" /\ Forget /\ receivers' = "none" /\ exempt' = ids'
                     /\ Deliver(pending_receiver, retiring)
                     /\ UNCHANGED <<queued, page, retiring>>
             Fail == /\ failure = "none" /\ failure' = "none" /\ consumed' = consumed
                     /\ receivers' = "broken" \/ (receivers = "none" /\ receivers' = "none")
                     /\ queued' = Nothing /\ page' = None /\ exempt' = ids'
                     /\ \/ retiring' = retiring /\ Deliver(pending_receiver, retiring)
                        \/ retiring' = registry /\ Deliver(out, registry)
  <1>1. Typed /\ Control /\ Resting /\ [Next]_vars /\ stream_registry = registry
    BY InvFacts, Registry DEF Next, Typed
  <1>2. /\ pipeline' = FALSE /\ registry' = None /\ made' = Made(B) /\ pending_iq' = Nothing
        /\ NewEpoch /\ pc' = pc /\ hand' = hand /\ shown' = shown /\ hw' = hw
    BY DEF LeaveSdr, Retained
  <1>3. Work \/ New \/ Fail
    <2>1. CASE Reaped
      BY <2>1 DEF LeaveSdr, Reaped
    <2>2. CASE failure = "none"
      BY <1>1, <2>2 DEF LeaveSdr, Works, Reaped
    <2> QED BY <2>1, <2>2 DEF LeaveSdr
  <1>4. pending_iq \in Streams /\ Batch(B) \in Streams /\ fs \in Streams
        /\ \A s \in Slots : fs[s] = pending_iq[s] \o Batch(B)[s]
    <2>1. pending_iq \in Streams /\ Batch(B) \in Streams
      BY <1>1, BatchType DEF Typed, TypeOK, Streams
    <2> QED BY <2>1, ExtendType
  <1>5. Control'
    BY <1>1, <1>2, EpochFacts DEF Control
  <1>6. pending_receiver' = Nothing
    BY <1>3 DEF Deliver
  <1>7. Resting'
    <2>1. CASE Work
      BY <2>1 DEF Resting, Forget
    <2>2. CASE New
      BY <1>1, <2>2 DEF Resting, Forget, Reaped
    <2>3. CASE Fail
      BY <1>1, <2>3 DEF Resting
    <2> QED BY <1>3, <2>1, <2>2, <2>3
  <1> HIDE DEF fs
  <1>8. ASSUME NEW s \in Slots PROVE Exist(s)' /\ IqKept(s)' /\ Lines(s)'
    <2> DEFINE b == Batch(B)[s]
    <2>1. Stepped(s, b) /\ IqKept(s) /\ Healthy(s) /\ registry'[s] = 0 /\ pending_iq'[s] = <<>>
      <3>1. registry'[s] = 0 /\ pending_iq'[s] = <<>>
        BY <1>2, NothingType
      <3>2. Advance(s, b)
        BY <1>1, <1>2, <3>1, AdvanceMade
      <3>3. Stepped(s, b)
        BY <1>1, <1>2, <3>2, StepFacts
      <3> QED BY <3>1, <3>3, InvFacts DEF Lines
    <2>2. fs[s] = pending_iq[s] \o b
      BY <1>4
    <2> HIDE DEF b
    <2>3. IqKept(s)' /\ fence'[s] = ids[s]
      <3>1. Held(s)' = <<>> /\ fence'[s] = ids[s]
        BY <1>1, <1>2, EpochFacts
      <3> QED BY <1>2, <2>1, <3>1, IqStopped
    <2>4. /\ queued[s] \in Seq(OldFrames(s)) /\ consumed[s] \subseteq OldFrames(s)
          /\ page[s] <= ids[s] /\ retiring[s] <= ids[s] /\ 0 <= ids[s] /\ registry[s] <= ids[s]
          /\ <<>> \in Seq(OldFrames(s)) /\ <<>> \in Seq(Old(s))
      BY <2>1, StoreFacts
    <2>5. pending_receiver'[s] = <<>> /\ Unheard'[s] = <<>>
      BY <1>6, <2>1, NothingType, UnheardNext
    <2>6. ASSUME queued'[s] = <<>>, consumed'[s] \subseteq OldFrames(s),
                 heard'[s] \in Seq(Old(s)), page'[s] = 0, retiring'[s] <= ids[s],
                 exempt'[s] \in {exempt[s], ids'[s]}
          PROVE  Exist(s)' /\ pending_iq'[s] \in Seq(OldFrames(s))
      BY <1>2, <2>1, <2>3, <2>4, <2>5, <2>6, ExistStep
    <2>7. Deliver(pending_receiver, retiring) => TailsHeard(s) /\ heard'[s] \in Seq(Old(s))
      BY <2>1, TailsDelivered
    <2>8. /\ out \in Streams /\ out[s] = pending_receiver[s] \o Ended(s, b)
          /\ Ended(s, b) \in Seq(Old(s))
      <3>1. out \in Streams /\ out[s] = pending_receiver[s] \o Ended(s, b)
        BY <1>4, <2>1, <2>2, FinishedSlot
      <3>2. Ended(s, b) \in Seq(Old(s))
        BY <2>1, DoneType DEF Stepped, Lines
      <3> QED BY <3>1, <3>2
    <2> HIDE DEF out
    <2>9. Deliver(out, registry) => Delivered(s, Ended(s, b), registry[s]) /\ heard'[s] \in Seq(Old(s))
      BY <2>1, <2>8, DeliveredSlot
    <2>10. CASE Work
      <3>1. /\ failure = "none" /\ failure' = "none" /\ exempt' = exempt
            /\ queued'[s] = <<>> /\ page'[s] = 0 /\ consumed'[s] = {}
        BY <2>10, NothingType DEF Forget
      <3>2. Memory(s)
        BY <3>1 DEF Memory
      <3>3. CASE receivers' # "none"
        <4>1. retiring' = registry /\ Deliver(out, registry)
          BY <2>10, <3>3
        <4>2. Exist(s)' /\ pending_iq'[s] \in Seq(OldFrames(s))
          BY <2>4, <2>6, <2>9, <3>1, <4>1
        <4>3. Lines(s)'
          BY <2>1, <2>5, <2>9, <3>1, <3>2, <4>1, <4>2, EndLines
        <4> QED BY <2>3, <4>2, <4>3
      <3>4. CASE receivers' = "none"
        <4>1. fs = Nothing /\ receivers = "none" /\ retiring' = retiring /\ Deliver(out, retiring)
          BY <2>10, <3>4
        <4>2. queued[s] = <<>> /\ page[s] = 0
          BY <1>1, <4>1, NothingType DEF Resting
        <4>3. pending_iq[s] = <<>> /\ b = <<>>
          <5> DEFINE x == pending_iq[s]
          <5>1. x \in Seq(Items) /\ b \in Seq(Items) /\ x \o b = <<>>
            BY <1>4, <2>2, <4>1, NothingType DEF b, Streams
          <5> HIDE DEF x
          <5>2. Len(x) + Len(b) = Len(x \o b) /\ Len(x) \in Nat /\ Len(b) \in Nat
            BY <5>1
          <5>3. Len(x \o b) = 0
            BY <5>1
          <5>4. Len(x) = 0 /\ Len(b) = 0
            BY <5>2, <5>3
          <5>5. x = <<>> /\ b = <<>>
            BY <5>1, <5>4, EmptySeq
          <5> QED BY <5>5 DEF x
        <4>4. Ended(s, b) = <<>>
          BY <2>1, <4>2, <4>3, IdleEnded
        <4>5. TailsHeard(s) /\ heard'[s] \in Seq(Old(s))
          <5>1. Delivered(s, Ended(s, b), retiring[s]) /\ heard'[s] \in Seq(Old(s))
            BY <2>1, <2>8, <4>1, DeliveredSlot
          <5> QED BY <4>4, <5>1 DEF TailsHeard
        <4>6. Exist(s)' /\ pending_iq'[s] \in Seq(OldFrames(s))
          BY <2>4, <2>6, <3>1, <4>1, <4>5
        <4>7. Stepped(s, <<>>)
          BY <2>1, <4>3
        <4>8. failure = "none" /\ registry[s] # 0 => made'[s][registry[s]] = 0
          BY <4>1, <4>7, NothingMade
        <4>9. Lines(s)'
          BY <2>1, <2>4, <2>5, <3>1, <3>2, <4>5, <4>6, <4>8, BareLines
        <4> QED BY <2>3, <4>6, <4>9
      <3> QED BY <3>3, <3>4
    <2>11. CASE New
      <3>1. /\ failure # "none" /\ exempt' = ids' /\ retiring' = retiring
            /\ queued' = queued /\ page' = page /\ consumed'[s] = {}
            /\ Deliver(pending_receiver, retiring)
        BY <2>11, NothingType DEF Forget, Reaped
      <3>2. queued'[s] = <<>> /\ page'[s] = 0
        BY <1>1, <2>11, <3>1, NothingType DEF Resting, Reaped
      <3>3. Memory(s)
        BY <3>1 DEF Memory
      <3>4. Exist(s)' /\ pending_iq'[s] \in Seq(OldFrames(s))
        BY <2>4, <2>6, <2>7, <3>1, <3>2
      <3>5. Lines(s)'
        BY <2>1, <2>7, <3>1, <3>2, <3>3, <3>4, CutLines
      <3> QED BY <2>3, <3>4, <3>5
    <2>12. CASE Fail
      <3>1. /\ failure = "none" /\ exempt' = ids' /\ queued'[s] = <<>> /\ page'[s] = 0
            /\ consumed' = consumed
        BY <2>12, NothingType
      <3>2. Memory(s)
        <4>1. receivers = "none" => consumed[s] = {}
          BY <1>1 DEF Resting
        <4> QED BY <2>12, <4>1 DEF Memory
      <3>3. /\ heard'[s] \in Seq(Old(s)) /\ retiring'[s] <= ids[s]
            /\ TailsHeard(s) \/ Delivered(s, Ended(s, b), registry[s])
        BY <2>4, <2>7, <2>9, <2>12
      <3>4. Exist(s)' /\ pending_iq'[s] \in Seq(OldFrames(s))
        BY <2>4, <2>6, <3>1, <3>3
      <3>5. Lines(s)'
        BY <2>1, <3>1, <3>2, <3>3, <3>4, CutLines
      <3> QED BY <2>3, <3>4, <3>5
    <2> QED BY <1>3, <2>10, <2>11, <2>12
  <1> QED BY <1>5, <1>7, <1>8 DEF Keeps

(* The pipeline cannot be stopped.                                         *)
LEMMA LeaveFailedKeeps ==
  ASSUME IInv, LeaveFailed PROVE Keeps
  <1>1. Typed /\ Control /\ Resting /\ [Next]_vars
    BY InvFacts DEF Next
  <1>2. /\ sdr /\ sdr' = sdr /\ pipeline' = FALSE /\ registry' = None /\ NewEpoch
        /\ receivers' = (IF Reaped THEN "none" ELSE receivers)
        /\ Deliver(pending_receiver, retiring) /\ hw' = hw + 1
        /\ pending_iq' = pending_iq /\ consumed' = consumed /\ failure' = failure
        /\ queued' = queued /\ page' = page /\ retiring' = retiring /\ pc' = pc /\ hand' = hand
        /\ made' = made /\ shown' = shown /\ exempt' = exempt
    BY DEF LeaveFailed, feed
  <1>3. hw' # 0
    <2>1. hw \in Nat
      BY <1>1, FeedAssumption DEF Typed, TypeOK
    <2> QED BY <1>2, <2>1
  <1>4. Control'
    BY <1>1, <1>2, EpochFacts DEF Control
  <1>5. Resting'
    BY <1>1, <1>2 DEF Resting, Reaped, Deliver
  <1>6. ASSUME NEW s \in Slots PROVE Exist(s)' /\ IqKept(s)' /\ Lines(s)'
    <2>1. Stepped(s, <<>>) /\ IqKept(s) /\ registry'[s] = 0
      <3>1. registry'[s] = 0
        BY <1>2, NothingType
      <3>2. Advance(s, <<>>)
        BY <1>1, <1>2, <3>1, AdvanceNot
      <3>3. Stepped(s, <<>>)
        BY <1>1, <1>3, <3>2, StepFacts
      <3> QED BY <3>1, <3>3, InvFacts
    <2>2. IqKept(s)' /\ fence'[s] = ids[s]
      <3>1. Held(s)' = <<>> /\ fence'[s] = ids[s]
        BY <1>1, <1>2, EpochFacts
      <3> QED BY <1>2, <1>3, <2>1, <3>1, IqStopped
    <2>3. TailsHeard(s) /\ heard'[s] \in Seq(Old(s)) /\ pending_receiver'[s] = <<>>
      BY <1>2, <2>1, TailsDelivered
    <2>4. /\ queued[s] \in Seq(OldFrames(s)) /\ consumed[s] \subseteq OldFrames(s)
          /\ page[s] <= ids[s] /\ retiring[s] <= ids[s]
          /\ <<>> \in Seq(OldFrames(s)) /\ <<>> \in Seq(Old(s))
      BY <2>1, StoreFacts
    <2>5. Exist(s)'
      BY <1>2, <2>1, <2>2, <2>3, <2>4, ExistStep
    <2>6. Unheard'[s] = Unheard[s]
      BY <1>2, UnheardNext
    <2>7. Lines(s)'
      BY <1>2, <1>3, <2>1, <2>3, <2>6, LostLines
    <2> QED BY <2>2, <2>5, <2>7
  <1> QED BY <1>4, <1>5, <1>6 DEF Keeps

LEMMA EnterKeeps ==
  ASSUME IInv, EnterSdr PROVE Keeps
  <1> DEFINE pg  == FinishPage(queued)
             o   == FinishOut(queued)
             c   == CloseOut(pg, Slots)
             out == Extend(pending_receiver, Extend(o, c))
  <1>1. Typed /\ Control /\ Resting /\ [Next]_vars
    BY InvFacts DEF Next
  <1>2. /\ ~sdr /\ (failure = "none" \/ Reaped)
        /\ sdr' = TRUE /\ failure' = "none" /\ NewEpoch
        /\ receivers' = (IF Reaped THEN "none" ELSE receivers)
        /\ retiring' = (IF receivers' = "none" THEN retiring ELSE None)
        /\ Deliver(out, retiring') /\ queued' = Nothing /\ page' = None /\ Forget
        /\ exempt' = (IF Reaped THEN ids ELSE exempt)
        /\ pipeline' = pipeline /\ registry' = registry /\ pending_iq' = pending_iq
        /\ pc' = pc /\ hand' = hand /\ made' = made /\ shown' = shown /\ hw' = hw
    BY DEF EnterSdr
  <1>3. ~pipeline /\ pending_iq = Nothing
    BY <1>1, <1>2 DEF Control, Typed, TypeOK
  <1>4. Control'
    BY <1>1, <1>2, <1>3, EpochFacts DEF Control
  <1>5. Resting'
    BY <1>2 DEF Resting, Forget
  <1>6. queued \in Streams /\ pending_receiver \in Streams /\ page \in [Slots -> Nat]
    BY <1>1 DEF Typed, TypeOK, Streams
  <1>7. o \in Streams /\ pg \in [Slots -> Nat]
    BY <1>6, FinishType
  <1>8. c \in Streams
    BY <1>7, CloseType
  <1>9. ASSUME NEW s \in Slots PROVE o[s] = Process(page[s], queued[s]) /\ pg[s] = PageAfter(page[s], queued[s])
    BY DEF FinishOut, FinishPage
  <1>10. ASSUME NEW s \in Slots PROVE c[s] = Closing(PageAfter(page[s], queued[s]), 0)
    BY <1>9 DEF CloseOut
  <1> HIDE DEF o, c, pg
  <1>11. out \in Streams /\ \A s \in Slots : out[s] = pending_receiver[s] \o (o[s] \o c[s])
    <2> DEFINE e == Extend(o, c)
    <2>1. e \in Streams /\ \A s \in Slots : e[s] = o[s] \o c[s]
      BY <1>7, <1>8, ExtendType
    <2> HIDE DEF e
    <2>2. Extend(pending_receiver, e) \in Streams
          /\ \A s \in Slots : Extend(pending_receiver, e)[s] = pending_receiver[s] \o e[s]
      BY <1>6, <2>1, ExtendType
    <2> QED BY <2>1, <2>2 DEF e
  <1> HIDE DEF out
  <1>12. ASSUME NEW s \in Slots PROVE Exist(s)' /\ IqKept(s)' /\ Lines(s)'
    <2>1. /\ Stepped(s, <<>>) /\ IqKept(s) /\ registry[s] = 0 /\ registry'[s] = 0
          /\ pending_iq[s] = <<>> /\ pending_iq'[s] = <<>>
      <3>1. registry[s] = 0 /\ registry'[s] = 0 /\ pending_iq[s] = <<>> /\ pending_iq'[s] = <<>>
        BY <1>1, <1>2, <1>3, NothingType DEF Control
      <3>2. Advance(s, <<>>)
        BY <1>1, <1>2, AdvanceNot
      <3>3. Stepped(s, <<>>)
        BY <1>1, <1>2, <3>2, StepFacts
      <3> QED BY <3>1, <3>3, InvFacts
    <2>2. IqKept(s)' /\ fence'[s] = ids[s]
      <3>1. Held(s)' = <<>> /\ fence'[s] = ids[s]
        BY <1>1, <1>2, EpochFacts
      <3> QED BY <1>2, <2>1, <3>1, IqStopped
    <2>3. /\ <<>> \in Seq(OldFrames(s)) /\ <<>> \in Seq(Old(s)) /\ retiring[s] <= ids[s] /\ 0 <= ids[s]
      BY <2>1, StoreFacts
    <2>4. /\ queued'[s] = <<>> /\ page'[s] = 0 /\ consumed'[s] = {}
          /\ pending_receiver'[s] = <<>> /\ Unheard'[s] = <<>> /\ retiring'[s] <= ids[s]
      <3>1. pending_receiver'[s] = <<>> /\ retiring'[s] \in {0, retiring[s]}
        BY <1>2, NothingType DEF Deliver
      <3> QED BY <1>2, <2>1, <2>3, <3>1, NothingType, UnheardNext DEF Forget
    <2>5. out[s] = pending_receiver[s] \o Ended(s, <<>>) /\ Ended(s, <<>>) \in Seq(Old(s))
      <3>1. All(s, <<>>) = queued[s] /\ Ended(s, <<>>) \in Seq(Old(s))
        BY <2>1, AllType, DoneType DEF Stepped, Lines
      <3>2. Ended(s, <<>>) = Process(page[s], queued[s]) \o Closing(PageAfter(page[s], queued[s]), 0)
        BY <3>1 DEF Ended, Done, LastPage
      <3> QED BY <1>9, <1>10, <1>11, <3>1, <3>2
    <2>6. NothingHeard(s) \/ TailsHeard(s)
      <3>1. CASE receivers' # "none"
        <4>1. Deliver(out, None) /\ None[s] = 0
          BY <1>2, <3>1, NothingType
        <4> QED BY <1>11, <2>1, <2>5, <4>1, DeliveredSlot
      <3>2. CASE receivers' = "none"
        <4>1. queued[s] = <<>> /\ page[s] = 0
          <5>1. receivers # "live"
            BY <1>2, <3>2 DEF Reaped
          <5> QED BY <1>1, <5>1, NothingType DEF Resting
        <4>2. PICK e : e = Ended(s, <<>>)
          OBVIOUS
        <4>3. e = <<>>
          BY <2>1, <4>1, <4>2, IdleEnded
        <4>4. Deliver(out, retiring) /\ e \in Seq(Old(s)) /\ out[s] = pending_receiver[s] \o e
          BY <1>2, <2>5, <3>2, <4>2
        <4>5. Delivered(s, e, retiring[s])
          BY <1>11, <2>1, <4>4, DeliveredSlot
        <4> QED BY <4>3, <4>5 DEF TailsHeard
      <3> QED BY <3>1, <3>2
    <2>7. heard'[s] \in Seq(Old(s))
      BY <2>1, <2>6, TailsAfter
    <2>8. Exist(s)' /\ pending_iq'[s] \in Seq(OldFrames(s))
      BY <1>2, <2>1, <2>2, <2>3, <2>4, <2>7, ExistStep
    <2>9. Memory(s)
      BY <2>4 DEF Memory
    <2>10. CASE ~Reaped
      <3>1. failure' = failure /\ exempt' = exempt
        BY <1>2, <2>10
      <3> QED BY <2>1, <2>2, <2>3, <2>4, <2>6, <2>8, <2>9, <3>1, BareLines
    <2>11. CASE Reaped
      BY <1>2, <2>1, <2>2, <2>4, <2>6, <2>8, <2>9, <2>11, CutLines
    <2> QED BY <2>10, <2>11
  <1> QED BY <1>4, <1>5, <1>12 DEF Keeps

-----------------------------------------------------------------------------
(* The inductive invariant.                                                *)

LEMMA Induction ==
  ASSUME IInv, [Next]_vars PROVE IInv'
  <1>1. TypeOK'
    BY InvFacts, TypePreserved
  <1>2. Keeps
    <2>1. CASE Start
      BY <2>1, StartKeeps
    <2>2. CASE \E B \in Batches : Poll(B)
      BY <2>2, PollKeeps
    <2>3. CASE PollFailed \/ FinishFailed
      BY <2>3, FailedPublisherKeeps
    <2>4. CASE Blocked \/ Finish \/ Send \/ Stop \/ UNCHANGED vars
      BY <2>4, QuietKeeps
    <2>5. CASE Drain
      BY <2>5, DrainKeeps
    <2>6. CASE Command
      BY <2>6, CommandKeeps
    <2>7. CASE ChangeStopped
      BY <2>7, ChangeStoppedKeeps
    <2>8. CASE LeaveFailed
      BY <2>8, LeaveFailedKeeps
    <2>9. CASE EnterSdr
      BY <2>9, EnterKeeps
    <2>10. CASE \E B \in Batches : Restart(B) \/ LeaveSdr(B)
      BY <2>10, RestartKeeps, LeaveKeeps
    <2> QED BY <2>1, <2>2, <2>3, <2>4, <2>5, <2>6, <2>7, <2>8, <2>9, <2>10 DEF Next, Publisher
  <1> QED BY <1>1, <1>2 DEF Keeps, IInv, Slot, Lines

LEMMA Beginning ==
  ASSUME Init PROVE IInv
  <1>1. /\ sdr = TRUE /\ pipeline = FALSE /\ registry = None
        /\ pending_iq = Nothing /\ consumed = [s \in Slots |-> {}]
        /\ receivers = "none" /\ failure = "none"
        /\ pending_receiver = Nothing /\ retiring = None
        /\ queued = Nothing /\ page = None /\ identities = None
        /\ pc = "poll" /\ hand = Nothing /\ stale = FALSE
        /\ made = Nothing /\ exempt = None /\ fence = None
        /\ heard = Nothing /\ shown = Nothing
        /\ frames = 0 /\ commands = 0 /\ hw = 0 /\ faults = 0
    BY DEF Init
  <1>2. TypeOK
    <2>1. made \in [Slots -> Seq(Nat)]
      <3>1. <<>> \in Seq(Nat)
        OBVIOUS
      <3> QED BY <1>1, <3>1 DEF Nothing
    <2>2. frames \in 0..MaxFrames /\ commands \in 0..MaxCommands
          /\ hw \in 0..MaxFailures /\ faults \in 0..MaxFailures
      BY <1>1, FeedAssumption
    <2>3. pipeline => sdr
      BY <1>1
    <2>4. sdr \in BOOLEAN /\ pipeline \in BOOLEAN /\ stale \in BOOLEAN
      BY <1>1
    <2> QED BY <1>1, <2>1, <2>2, <2>3, <2>4, NothingType DEF TypeOK, Streams
  <1>3. Control /\ Resting
    BY <1>1 DEF Control, Resting
  <1>4. ASSUME NEW s \in Slots PROVE Slot(s)
    <2>1. /\ registry[s] = 0 /\ pending_iq[s] = <<>> /\ consumed[s] = {} /\ pending_receiver[s] = <<>>
          /\ retiring[s] = 0 /\ queued[s] = <<>> /\ page[s] = 0 /\ hand[s] = <<>>
          /\ made[s] = <<>> /\ exempt[s] = 0 /\ fence[s] = 0 /\ heard[s] = <<>> /\ shown[s] = <<>>
          /\ ids[s] = 0
      BY <1>1, NothingType DEF ids, None, Nothing
    <2>2. Exist(s)
      <3>1. <<>> \in Seq(Frames(s)) /\ <<>> \in Seq(Known(s))
        OBVIOUS
      <3> QED BY <2>1, <3>1 DEF Exist
    <2>3. Unheard[s] = <<>>
      BY <2>1, <2>2, UnheardType, AmongEmpty
    <2>4. IqKept(s)
      <3>1. IqLine(s) = <<>> /\ Held(s) = <<>>
        <4>1. Held(s) = <<>>
          BY <2>1 DEF Held
        <4> QED BY <2>1, <4>1 DEF IqLine
      <3> QED BY <2>1, <3>1 DEF IqKept, Increasing, After
    <2>5. QueueInOrder(s) /\ Line(s) /\ Current(s) /\ Older(s)
      BY <2>1, <2>3 DEF QueueInOrder, Rising, Line, Current, Older
    <2>6. Healthy(s)
      BY <2>1, <2>3 DEF Healthy, Rising
    <2> QED BY <2>2, <2>4, <2>5, <2>6 DEF Slot
  <1> QED BY <1>2, <1>3, <1>4 DEF IInv

LEMMA Invariance == Spec => []IInv
  BY Beginning, Induction, PTL DEF Spec
-----------------------------------------------------------------------------
(* The properties follow.                                                  *)

LEMMA RisingAmong ==
  ASSUME NEW c \in Nat, NEW S
  PROVE  \A q \in Seq(Items) : Rising(q) /\ Within(0, q, c) => Rising(Among(q, S))
  <1> DEFINE U == {q \in Seq(Items) : Rising(q) /\ Within(0, q, c) => Rising(Among(q, S))}
  <1>1. <<>> \in U
    <2>1. Rising(Among(<<>>, S)) /\ <<>> \in Seq(Items)
      BY AmongEmpty DEF Rising
    <2> QED BY <2>1
  <1>2. ASSUME NEW q \in Seq(Items), NEW f \in Items, q \in U PROVE Append(q, f) \in U
    <2> SUFFICES ASSUME Rising(Append(q, f)), Within(0, Append(q, f), c)
                 PROVE  Rising(Among(Append(q, f), S))
      OBVIOUS
    <2> DEFINE a == Among(q, S)
               T == {i \in Items : i.id <= f.id}
    <2>1. Rising(q) /\ Within(0, q, c) /\ \A i \in 1..Len(q) : q[i].id <= f.id
      BY RisingAppend
    <2>2. Rising(a)
      BY <1>2, <2>1
    <2>3. q \in Seq(T) /\ f \in T /\ f.id \in Nat
      <3>1. f.id \in Nat
        BY ItemFacts
      <3>2. \A i \in 1..Len(q) : q[i] \in T
        BY <2>1, ElementOfSeq
      <3> QED BY <3>1, <3>2
    <2>4. a \in Seq(Items) /\ \A i \in 1..Len(a) : a[i] \in T
      BY <2>3, AmongType, AmongElements
    <2>5. Among(Append(q, f), S) = IF f \in S THEN Append(a, f) ELSE a
      BY AmongAppend
    <2> HIDE DEF a
    <2>6. Rising(a \o <<f>>)
      <3> DEFINE e == <<f>>
      <3>1. e \in Seq(Items) /\ Len(e) = 1 /\ e[1].id = f.id
        OBVIOUS
      <3>2. \A i \in 1..Len(a) : a[i].id <= f.id
        BY <2>4
      <3>3. \A i \in 1..Len(e) : e[i].id = f.id
        BY <3>1
      <3> HIDE DEF e
      <3>4. Rising(a \o e)
        BY <2>2, <2>3, <2>4, <3>1, <3>2, <3>3, RisingConcat
      <3> QED BY <3>4 DEF e
    <2>7. Append(a, f) = a \o <<f>>
      BY <2>4, AppendIsConcat
    <2> QED BY <2>2, <2>5, <2>6, <2>7
  <1> HIDE DEF U
  <1>3. \A q \in Seq(Items) : q \in U
    BY <1>1, <1>2, SequenceInduct
  <1> QED BY <1>3 DEF U

LEMMA HearsInOrder ==
  ASSUME IInv PROVE OnceInOrder
  <1>1. TypeOK /\ Typed
    BY InvFacts DEF Typed
  <1>2. ASSUME NEW s \in Slots, NEW id \in 1..ids[s]
        PROVE  UpTo(id, made[s][id], Of(heard[s], id))
    <2>1. Current(s) /\ Older(s) /\ Exist(s)
      BY InvFacts DEF Lines
    <2>2. made[s][id] \in Nat /\ id \in Nat \ {0} /\ heard[s] \in Seq(Items) /\ pending_receiver[s] \in Seq(Items)
      <3>1. ids[s] \in Nat /\ made[s][id] \in Nat
        BY <1>1, IdsType
      <3>2. id \in Nat \ {0}
        BY <3>1
      <3> QED BY <1>1, <3>1, <3>2 DEF TypeOK
    <2>3. CASE id = registry[s]
      BY <2>1, <2>2, <2>3 DEF Current, UpTo
    <2>4. CASE id # registry[s]
      <3>1. UpTo(id, made[s][id], Of(heard[s], id) \o Tails(s, id))
        BY <2>1, <2>4 DEF Older, Total
      <3>2. Of(heard[s], id) \in Seq(Items) /\ Of(pending_receiver[s], id) \in Seq(Items) /\ <<>> \in Seq(Items)
        BY <2>2, OfType
      <3>3. Tails(s, id) \in Seq(Items)
        BY <3>2 DEF Tails
      <3> QED BY <2>2, <3>1, <3>2, <3>3, UpToSplit
    <2> QED BY <2>3, <2>4
  <1> QED BY <1>1, <1>2 DEF OnceInOrder, UpTo

(* What is on its way to the subscribers of a slot.                        *)
LEMMA OnItsWayIs ==
  ASSUME IInv, NEW s \in Slots, NEW id, hw = 0
  PROVE  LET q == queued[s] \o Unheard[s] IN
         /\ q \in Seq(Items) /\ Of(OnItsWay[s], id) = Of(heard[s], id) \o Of(Process(page[s], q), id)
         /\ Process(page[s], q) \in Seq(Items)
  <1>1. /\ Typed /\ queued \in Streams /\ heard \in Streams /\ pending_receiver \in Streams
        /\ page \in [Slots -> Nat]
    BY InvFacts DEF Typed, TypeOK, Streams
  <1>2. Unheard \in Streams
    <2>1. \A t \in Slots : Unheard[t] \in Seq(Items)
      BY InvFacts, UnheardType
    <2> QED BY <2>1 DEF Unheard, Streams
  <1> DEFINE e == Extend(queued, Unheard)
             o == FinishOut(e)
             x == Extend(pending_receiver, o)
             q == queued[s] \o Unheard[s]
  <1>3. e \in Streams /\ e[s] = q
    BY <1>1, <1>2, ExtendType
  <1>4. OnItsWay = Extend(heard, x)
    BY DEF OnItsWay
  <1> HIDE DEF e
  <1>5. o \in Streams /\ o[s] = Process(page[s], e[s])
    BY <1>1, <1>3, FinishType DEF FinishOut
  <1> HIDE DEF o
  <1>6. x \in Streams /\ x[s] = pending_receiver[s] \o o[s]
    BY <1>1, <1>5, ExtendType
  <1> HIDE DEF x
  <1>7. OnItsWay[s] = heard[s] \o x[s]
    BY <1>1, <1>4, <1>6, ExtendType
  <1>8. pending_receiver[s] = <<>>
    BY InvFacts DEF Lines, Healthy
  <1>9. o[s] \in Seq(Items) /\ x[s] = o[s] /\ heard[s] \in Seq(Items) /\ q \in Seq(Items)
    <2>1. o[s] \in Seq(Items) /\ heard[s] \in Seq(Items) /\ q \in Seq(Items)
      BY <1>1, <1>3, <1>5 DEF Streams
    <2> QED BY <2>1, <1>6, <1>8, ConcatEmptySeq
  <1>10. Of(OnItsWay[s], id) = Of(heard[s], id) \o Of(o[s], id)
    <2> DEFINE h == heard[s]
               y == o[s]
    <2>1. h \in Seq(Items) /\ y \in Seq(Items) /\ OnItsWay[s] = h \o y
      BY <1>7, <1>9
    <2> HIDE DEF h, y
    <2>2. Of(h \o y, id) = Of(h, id) \o Of(y, id)
      BY <2>1, OfConcat
    <2> QED BY <2>1, <2>2 DEF h, y
  <1>11. o[s] = Process(page[s], q)
    BY <1>3, <1>5
  <1> QED BY <1>9, <1>10, <1>11

LEMMA LosesNothing ==
  ASSUME IInv PROVE NothingLost
  <1> SUFFICES ASSUME hw = 0, failure = "none", NEW s \in Slots, NEW id \in (exempt[s] + 1)..ids[s]
               PROVE  Of(OnItsWay[s], id) = IF made[s][id] = 0 THEN <<>>
                                            ELSE IF id = stream_registry[s] THEN Whole(id, made[s][id])
                                            ELSE Closed(id, made[s][id])
    BY DEF NothingLost
  <1> DEFINE q == queued[s] \o Unheard[s]
             r == registry[s]
             p == page[s]
             u == Unheard[s]
  <1>1. /\ Typed /\ Exist(s) /\ QueueInOrder(s) /\ Line(s) /\ Healthy(s) /\ IqKept(s)
        /\ stream_registry = registry
    BY InvFacts, Registry DEF Lines, Typed
  <1>2. /\ q \in Seq(Items) /\ Of(OnItsWay[s], id) = Of(heard[s], id) \o Of(Process(p, q), id)
        /\ Process(p, q) \in Seq(Items)
    BY OnItsWayIs
  <1>3. /\ exempt[s] \in Nat /\ ids[s] \in Nat /\ id \in Nat \ {0} /\ id \in 1..ids[s] /\ made[s][id] \in Nat
        /\ r \in Nat /\ p \in Nat /\ p <= ids[s] /\ exempt[s] < id
        /\ u \in Seq(Items) /\ queued[s] \in Seq(Items) /\ heard[s] \in Seq(Items)
    <2>1. exempt[s] \in Nat /\ ids[s] \in Nat /\ r \in Nat /\ p \in Nat /\ queued[s] \in Seq(Items) /\ heard[s] \in Seq(Items)
      BY <1>1, IdsType DEF Typed, TypeOK
    <2>2. id \in Nat \ {0} /\ id \in 1..ids[s] /\ exempt[s] < id
      BY <2>1
    <2>3. made[s][id] \in Nat
      BY <1>1, <2>2, IdsType DEF Typed
    <2> QED BY <1>1, <2>1, <2>2, <2>3, UnheardType DEF Exist
  <1>4. /\ p \in {0, r} /\ (\A i \in 1..Len(queued[s]) : queued[s][i].id = r)
        /\ \A i \in 1..Len(u) : u[i].id = r \/ u[i].id <= exempt[s]
    BY <1>1 DEF Healthy
  <1>5. CASE id = r
    <2>1. Of(q, r) = Of(queued[s], r) \o Of(u, r)
      <3> HIDE DEF u, r
      <3> QED BY <1>3, OfConcat, ZenonT(40) DEF u
    <2>2. Of(heard[s], r) \in Seq(Items) /\ Of(queued[s], r) \in Seq(Items) /\ Of(u, r) \in Seq(Items)
      BY <1>3, OfType
    <2>3. Of(heard[s], r) \o Of(q, r) = Whole(r, made[s][r])
      <3>1. (Of(heard[s], r) \o Of(queued[s], r)) \o Of(u, r) = Whole(r, made[s][r])
        BY <1>1, <1>3, <1>5 DEF Line
      <3> DEFINE x == Of(heard[s], r)
                 y == Of(queued[s], r)
                 z == Of(u, r)
      <3>2. x \in Seq(Items) /\ y \in Seq(Items) /\ z \in Seq(Items)
        BY <2>2
      <3> HIDE DEF x, y, z
      <3>3. (x \o y) \o z = x \o (y \o z)
        BY <3>2, ItemsAssociative
      <3> QED BY <2>1, <3>1, <3>3 DEF x, y, z
    <2>4. Rising(q) /\ Within(p, q, r)
      <3>1. CASE u = <<>>
        <4>1. q = queued[s]
          BY <1>3, <3>1, ConcatEmptySeq
        <4> QED BY <1>1, <1>3, <1>4, <4>1 DEF QueueInOrder, Within
      <3>2. CASE u # <<>>
        <4>1. p = 0 /\ queued[s] = <<>>
          BY <1>1, <3>2 DEF QueueInOrder
        <4>2. q = u
          <5> HIDE DEF u
          <5>1. <<>> \o u = u
            BY <1>3, ConcatElements
          <5> QED BY <4>1, <5>1 DEF u
        <4>3. \A i \in 1..Len(u) : 0 <= u[i].id /\ u[i].id <= r
          <5> SUFFICES ASSUME NEW i \in 1..Len(u) PROVE 0 <= u[i].id /\ u[i].id <= r
            OBVIOUS
          <5>1. u[i] \in Items
            BY <1>3, ElementOfSeq
          <5>2. u[i].id \in Nat
            BY <5>1, ItemFacts
          <5> QED BY <1>3, <1>4, <1>5, <5>2, SMTT(20)
        <4>4. Rising(pending_iq[s]) /\ Within(0, pending_iq[s], ids[s]) /\ pending_iq[s] \in Seq(Items)
          <5>1. /\ pending_iq[s] \in Seq(Items) /\ shown[s] \o Held(s) \in Seq(Items)
                /\ \A i \in 1..Len(pending_iq[s]) : pending_iq[s][i] \in Known(s)
            <6>1. pending_iq[s] \in Seq(Frames(s)) /\ shown[s] \o Held(s) \in Seq(Frames(s)) /\ Frames(s) \subseteq Items
              BY <1>1, LineTyped
            <6>2. \A i \in 1..Len(pending_iq[s]) : pending_iq[s][i] \in Frames(s)
              BY <6>1, ElementOfSeq
            <6> QED BY <6>1, <6>2, SeqMonotone DEF Frames
          <5>2. Increasing(pending_iq[s])
            BY <1>1, <5>1, IncreasingConcat DEF IqKept, IqLine
          <5>3. \A i \in 1..Len(pending_iq[s]) : pending_iq[s][i].id \in 1..ids[s]
            BY <1>1, <5>1, KnownIds
          <5>4. Rising(pending_iq[s])
            <6> SUFFICES ASSUME NEW i \in 1..Len(pending_iq[s]), NEW j \in 1..Len(pending_iq[s]), i < j
                         PROVE  pending_iq[s][i].id <= pending_iq[s][j].id
              BY DEF Rising
            <6>1. Precedes(pending_iq[s][i], pending_iq[s][j])
              BY <5>2 DEF Increasing
            <6>2. pending_iq[s][i].id \in 1..ids[s] /\ pending_iq[s][j].id \in 1..ids[s]
              BY <5>3
            <6>3. \A n \in Nat : \A k \in 1..n : k \in Nat
              OBVIOUS
            <6>4. pending_iq[s][i].id \in Nat /\ pending_iq[s][j].id \in Nat
              BY <1>3, <6>2, <6>3
            <6> QED BY <6>1, <6>4 DEF Precedes
          <5>5. Within(0, pending_iq[s], ids[s])
            BY <1>3, <5>3, SMTT(20) DEF Within
          <5> QED BY <5>1, <5>4, <5>5
        <4>5. Rising(u)
          BY <1>1, <1>3, <4>4, RisingAmong, UnheardType
        <4> QED BY <4>1, <4>2, <4>3, <4>5 DEF Within
      <3> QED BY <3>1, <3>2
    <2>5. Of(Process(p, q), r) = Of(q, r)
      <3>1. p <= r
        BY <1>3, <1>4
      <3> HIDE DEF q, p, r
      <3> QED BY <1>2, <1>3, <2>4, <3>1, ProcessOf DEF p, r
    <2>6. Whole(id, made[s][id]) = <<>> <=> made[s][id] = 0
      BY <1>3, WholeType
    <2> QED BY <1>1, <1>2, <1>5, <2>3, <2>5, <2>6
  <1>6. CASE id # r
    <2> DEFINE K == {i \in Items : i.id # id}
    <2>1. q \in Seq(K)
      <3>1. \A i \in 1..Len(queued[s]) : queued[s][i] \in K
        BY <1>3, <1>4, <1>6, ElementOfSeq
      <3>2. \A i \in 1..Len(u) : u[i] \in K
        <4> SUFFICES ASSUME NEW i \in 1..Len(u) PROVE u[i] \in K
          OBVIOUS
        <4>1. u[i] \in Items /\ (u[i].id = r \/ u[i].id <= exempt[s])
          BY <1>3, <1>4, ElementOfSeq
        <4>2. u[i].id \in Nat
          BY <4>1, ItemFacts
        <4> QED BY <1>3, <1>6, <4>1, <4>2
      <3>3. queued[s] \in Seq(K) /\ u \in Seq(K)
        <4>1. \A a \in Seq(Items) : (\A i \in 1..Len(a) : a[i] \in K) => a \in Seq(K)
          OBVIOUS
        <4> QED BY <1>3, <3>1, <3>2, <4>1
      <3> HIDE DEF K, u
      <3> QED BY <3>3, ConcatElements DEF u
    <2>2. p # 0 => Item(p, 0) \in K
      BY <1>3, <1>4, <1>6, ItemFacts
    <2>3. \A f \in K : Item(f.id, 0) \in K
      BY ItemFacts
    <2>4. Process(p, q) \in Seq(K)
      <3>1. K \subseteq Items
        OBVIOUS
      <3> HIDE DEF K, q, p
      <3> QED BY <1>3, <2>1, <2>2, <2>3, <3>1, ProcessElements DEF p
    <2>5. Of(Process(p, q), id) = <<>>
      <3>1. \A i \in 1..Len(Process(p, q)) : Process(p, q)[i].id # id
        BY <2>4, ElementOfSeq
      <3> QED BY <1>2, <3>1, OfNone
    <2>6. Of(heard[s], id) = IF made[s][id] = 0 THEN <<>> ELSE Closed(id, made[s][id])
      BY <1>1, <1>6 DEF Healthy, Settled
    <2>7. Of(heard[s], id) \in Seq(Items)
      BY <1>3, OfType
    <2>8. Of(heard[s], id) \o <<>> = Of(heard[s], id)
      BY <2>7, ConcatEmptySeq
    <2> QED BY <1>1, <1>2, <1>6, <2>5, <2>6, <2>8
  <1> QED BY <1>5, <1>6

LEMMA IqIsComplete ==
  ASSUME IInv PROVE IqComplete
  <1>1. ASSUME NEW s \in Slots
        PROVE  \A i, j \in DOMAIN shown[s] :
                 i < j => \/ shown[s][i].id < shown[s][j].id
                          \/ shown[s][i].id = shown[s][j].id /\ shown[s][i].n < shown[s][j].n
    <2>1. /\ shown[s] \in Seq(Items) /\ Held(s) \in Seq(Items) /\ pending_iq[s] \in Seq(Items)
          /\ shown[s] \o Held(s) \in Seq(Items)
      <3>1. /\ shown[s] \in Seq(Frames(s)) /\ Held(s) \in Seq(Frames(s)) /\ pending_iq[s] \in Seq(Frames(s))
            /\ shown[s] \o Held(s) \in Seq(Frames(s)) /\ Frames(s) \subseteq Items
        BY InvFacts, LineTyped
      <3> QED BY <3>1, SeqMonotone
    <2>2. Increasing((shown[s] \o Held(s)) \o pending_iq[s])
      BY InvFacts DEF IqKept, IqLine
    <2>3. Increasing(shown[s])
      BY <2>1, <2>2, IncreasingConcat
    <2>4. DOMAIN shown[s] = 1..Len(shown[s])
      BY <2>1
    <2> QED BY <2>3, <2>4 DEF Increasing, Precedes
  <1>2. ASSUME NEW s \in Slots, registry[s] # 0
        PROVE  Of(shown[s] \o (IF stale THEN <<>> ELSE hand[s]) \o pending_iq[s], registry[s])
                 = Whole(registry[s], made[s][registry[s]])
    <2>1. IqLine(s) = shown[s] \o (IF stale THEN <<>> ELSE hand[s]) \o pending_iq[s]
      BY DEF IqLine, Held
    <2> QED BY <1>2, <2>1, InvFacts DEF IqKept
  <1>3. ASSUME hw = 0, ~stale, NEW s \in Slots, NEW f \in ToSet(hand[s])
        PROVE  f.id > fence[s]
    <2>1. hand[s] \in Seq(Items) /\ hand[s] = Held(s)
      BY <1>3, InvFacts DEF Held, Typed, TypeOK
    <2>2. \E i \in 1..Len(hand[s]) : f = hand[s][i]
      BY <2>1 DEF ToSet
    <2> QED BY <1>3, <2>1, <2>2, InvFacts DEF IqKept, After
  <1> QED BY <1>1, <1>2, <1>3 DEF IqComplete, NoReplay

LEMMA TailsComeFirst ==
  ASSUME IInv PROVE TailsFirst
  <1> SUFFICES ASSUME hw = 0
               PROVE  /\ pending_receiver = Nothing
                      /\ \A s \in Slots : \A i, j \in DOMAIN heard[s] :
                           i < j => heard[s][i].id <= heard[s][j].id
                      /\ receivers # "broken" => \A s \in Slots : consumed[s] \subseteq ToSet(pending_iq[s])
    BY DEF TailsFirst
  <1>1. /\ \A s \in Slots : Healthy(s)
        /\ pending_receiver \in [Slots -> Seq(Items)] /\ heard \in [Slots -> Seq(Items)]
    BY InvFacts DEF Lines, Typed, TypeOK
  <1>2. \A s \in Slots : /\ pending_receiver[s] = <<>> /\ Rising(heard[s])
                         /\ receivers # "broken" => consumed[s] \subseteq ToSet(pending_iq[s])
    BY <1>1 DEF Healthy
  <1>3. pending_receiver = Nothing
    BY <1>1, <1>2 DEF Nothing
  <1>4. ASSUME NEW s \in Slots
        PROVE  \A i, j \in DOMAIN heard[s] : i < j => heard[s][i].id <= heard[s][j].id
    <2>1. DOMAIN heard[s] = 1..Len(heard[s])
      BY <1>1
    <2> QED BY <1>2, <2>1 DEF Rising
  <1> QED BY <1>2, <1>3, <1>4

-----------------------------------------------------------------------------
(* Whatever fails, a subscriber hears the frames of a stream once and in   *)
(* order, and the end of its page after the last of them: what the         *)
(* publisher queues, what commands drain and what is delivered late are    *)
(* never the same frame twice.                                             *)
THEOREM OutputOnceInOrder == Spec => []OnceInOrder
  BY Invariance, HearsInOrder, PTL

(* Without a failure of the capture or the workers no frame of a stream is *)
(* lost between the pipeline and the subscribers, and a stream that has    *)
(* been cut has put out all of it and closed its page.                     *)
THEOREM OutputComplete == Spec => []NothingLost
  BY Invariance, LosesNothing, PTL

(* The IQ clients get the frames of a stream once, in order and all of     *)
(* them, and while the capture does not fail none of an earlier epoch.     *)
THEOREM ClientsComplete == Spec => []IqComplete
  BY Invariance, IqIsComplete, PTL

(* While the capture does not fail, the tails of a stream that is cut are  *)
(* delivered before anything of its successor, and what a command has      *)
(* submitted is remembered no longer than it is pending.                   *)
THEOREM TailsBeforeSuccessor == Spec => []TailsFirst
  BY Invariance, TailsComeFirst, PTL
=============================================================================
