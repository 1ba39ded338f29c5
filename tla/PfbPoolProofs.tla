--------------------------- MODULE PfbPoolProofs ---------------------------
(***************************************************************************)
(* Proofs about PfbPool, for every number of workers, history length, hop, *)
(* packet size, selection and bound.                                       *)
(***************************************************************************)
EXTENDS PfbPool, FiniteSetTheorems, SequenceTheorems, TLAPS

(* Every task that was sent and not received is in one of three places.    *)
Counted == in_flight = Len(tasks) + Cardinality(Busy) + Len(results)

TypeInv == TypeOK /\ Counted

LEMMA GroupsOfType == ASSUME NEW t \in Task PROVE GroupsOf(t) \in Nat
  <1>1. t.index \in Nat /\ t.len \in Nat /\ Hop \in Nat \ {0}
    BY PoolAssumption DEF Task
  <1>2. t.index % Hop \in 0..(Hop - 1)
    BY <1>1
  <1>3. (t.index % Hop) + t.len \in Nat
    BY <1>1, <1>2
  <1>4. ASSUME NEW a \in Nat PROVE a \div Hop \in Nat
    BY <1>1
  <1> QED BY <1>3, <1>4 DEF GroupsOf

(* The tail stays a window.                                                *)
LEMMA AdvanceTailType ==
  ASSUME tail \in Window, input_index \in Nat, NEW n \in PacketSizes
  PROVE  AdvanceTail(n) \in Window
  <1>1. n \in Nat \ {0} /\ HistoryLen \in Nat \ {0}
    BY PoolAssumption
  <1>2. ASSUME NEW i \in 1..HistoryLen, n >= HistoryLen \/ i > HistoryLen - n
        PROVE  i - (HistoryLen - n) \in 1..n
    BY <1>1, <1>2
  <1>3. ASSUME NEW i \in 1..HistoryLen, ~(n >= HistoryLen \/ i > HistoryLen - n)
        PROVE  i + n \in 1..HistoryLen
    BY <1>1, <1>3
  <1> QED BY <1>1, <1>2, <1>3 DEF AdvanceTail, Samples, Window, Index

LEMMA InitType == Init => TypeInv
  <1> SUFFICES ASSUME Init PROVE TypeInv
    OBVIOUS
  <1>1. tail \in Window
    BY PoolAssumption DEF Init, HistoryBefore, Window, Index
  <1>2. TypeOK
    <2>1. tasks \in Seq(Task) /\ results \in Seq(Task) /\ ready \in Seq(Task)
      BY DEF Init
    <2>2. holding \in [Workers -> Task \cup {None}]
      BY DEF Init
    <2>3. delivered \in Seq(Nat)
      BY DEF Init
    <2>4. op \in {"idle", "submit", "admit", "flush", "finish"}
      BY DEF Init
    <2> QED BY <1>1, <2>1, <2>2, <2>3, <2>4 DEF Init, TypeOK
  <1>3. Busy = {}
    BY DEF Init, Busy
  <1>4. Cardinality(Busy) = 0
    BY <1>3, FS_EmptySet
  <1> QED BY <1>2, <1>4 DEF Init, Counted, TypeInv

(* Taking a task makes one worker busy, sending its result frees it.       *)
LEMMA BusyFinite == IsFiniteSet(Busy) /\ Cardinality(Busy) \in Nat
  <1>1. Busy \subseteq Workers /\ IsFiniteSet(Workers)
    BY PoolAssumption DEF Busy
  <1> QED BY <1>1, FS_Subset, FS_CardinalityType

LEMMA BusyTake ==
  ASSUME TypeInv, NEW w \in Workers, WorkerTake(w)
  PROVE  Cardinality(Busy') = Cardinality(Busy) + 1
  <1>1. Head(tasks) \in Task /\ Head(tasks) # None
    BY NoneAssumption DEF TypeInv, TypeOK, WorkerTake
  <1>2. Busy' = Busy \cup {w} /\ w \notin Busy
    BY <1>1 DEF TypeInv, TypeOK, WorkerTake, Busy
  <1> QED BY <1>2, BusyFinite, FS_AddElement

LEMMA BusySend ==
  ASSUME TypeInv, NEW w \in Workers, WorkerSend(w)
  PROVE  Cardinality(Busy') = Cardinality(Busy) - 1
  <1>1. Busy' = Busy \ {w} /\ w \in Busy
    BY DEF TypeInv, TypeOK, WorkerSend, AfterSend, Busy
  <1> QED BY <1>1, BusyFinite, FS_RemoveElement

(* Receive: the count is positive when a result is in the channel.         *)
LEMMA ReceiveType ==
  ASSUME TypeInv, Receive
  PROVE  /\ in_flight' \in Nat /\ results' \in Seq(Task)
         /\ pending' \subseteq Task /\ reordering' \in BOOLEAN
         /\ Counted'
  <1>1. Len(results) >= 1 /\ Len(results') = Len(results) - 1
        /\ results' \in Seq(Task) /\ Head(results) \in Task
    BY DEF TypeInv, TypeOK, Receive
  <1>2. Busy' = Busy /\ tasks' = tasks /\ in_flight' = in_flight - 1
    BY DEF Receive, Busy
  <1>3. Counted'
    BY <1>1, <1>2, BusyFinite, SMTT(30) DEF TypeInv, TypeOK, Counted
  <1>4. in_flight' \in Nat
    BY <1>1, <1>2, <1>3, BusyFinite, SMTT(30) DEF TypeInv, TypeOK, Counted
  <1>5. pending' \subseteq Task /\ reordering' \in BOOLEAN
    BY <1>1 DEF TypeInv, TypeOK, Receive
  <1> QED BY <1>1, <1>3, <1>4, <1>5

LEMMA NextType == TypeInv /\ [Next]_vars => TypeInv'
  <1> SUFFICES ASSUME TypeInv, [Next]_vars PROVE TypeInv'
    OBVIOUS
  <1> USE DEF TypeInv
  <1>1. ASSUME NEW n \in PacketSizes, SubmitBegin(n) PROVE TypeInv'
    BY <1>1 DEF SubmitBegin, TypeOK, Counted, Busy, stream, counts, threads, order
  <1>2. CASE Take
    <2>1. Head(ready) \in Task /\ ready' \in Seq(Task)
      BY <1>2 DEF Take, TypeOK
    <2>2. delivered' \in Seq(Nat)
      BY <1>2, <2>1 DEF Take, TypeOK, Task
    <2> QED BY <1>2, <2>1, <2>2
            DEF Take, TypeOK, Counted, Busy, call, stream, counts, threads
  <1>3. CASE FlushBegin
    BY <1>3 DEF FlushBegin, TypeOK, Counted, Busy, stream, counts, threads, order
  <1>4. ASSUME NEW b \in Selections, ReplaceBins(b) PROVE TypeInv'
    BY <1>4 DEF ReplaceBins, TypeOK, Counted, Busy, call, counts, threads, order
  <1>5. CASE FinishBegin
    BY <1>5 DEF FinishBegin, TypeOK, Counted, Busy, counts, threads, order
  <1>6. CASE Reorder
    <2>1. PICK t \in RipeIn(pending, expected_output) :
             /\ pending' = Without(t)
             /\ ready' = Append(ready, t)
             /\ groups' = groups + GroupsOf(t)
      BY <1>6 DEF Reorder
    <2>2. t \in Task
      BY <2>1 DEF RipeIn, TypeOK
    <2>3. pending' \subseteq Task /\ ready' \in Seq(Task) /\ groups' \in Nat
      BY <2>1, <2>2, GroupsOfType DEF Without, TypeOK
    <2>4. reordering' \in BOOLEAN
      BY <1>6 DEF Reorder, Continues
    <2> QED BY <1>6, <2>3, <2>4
            DEF Reorder, TypeOK, Counted, Busy, call, stream, threads
  <1>7. CASE SubmitReceive
    <2>1. op' \in {"idle", "submit", "admit", "flush", "finish"}
      BY <1>7 DEF SubmitReceive, TypeOK
    <2> QED BY <1>7, <2>1, ReceiveType
            DEF SubmitReceive, Receive, TypeOK, stream
  <1>8. CASE SubmitRefused
    BY <1>8 DEF SubmitRefused, TypeOK, Counted, Busy, stream, counts, threads, order
  <1>9. CASE SubmitSend
    <2> DEFINE new == [seq |-> expected_submit, index |-> input_index,
                       len |-> packet, hist |-> tail, sel |-> bins]
    <2>1. new \in Task
      BY DEF TypeOK, Task
    <2>2. tasks' \in Seq(Task) /\ Len(tasks') = Len(tasks) + 1
      BY <1>9, <2>1 DEF SubmitSend, TypeOK
    <2>3. tail' \in Window
      BY <1>9, AdvanceTailType DEF SubmitSend, TypeOK
    <2>4. input_index' \in Nat
      BY <1>9, PoolAssumption DEF SubmitSend, TypeOK
    <2>5. op' \in {"idle", "submit", "admit", "flush", "finish"}
      BY <1>9 DEF SubmitSend, TypeOK
    <2>6. Counted'
      <3>1. Busy' = Busy /\ results' = results /\ in_flight' = in_flight + 1
        BY <1>9 DEF SubmitSend, Busy
      <3> QED BY <3>1, <2>2, BusyFinite DEF TypeOK, Counted
    <2> QED BY <1>9, <2>2, <2>3, <2>4, <2>5, <2>6 DEF SubmitSend, TypeOK, order
  <1>10. CASE FlushReceive
    BY <1>10, ReceiveType DEF FlushReceive, Receive, TypeOK, call, stream
  <1>11. CASE FlushEnd
    BY <1>11 DEF FlushEnd, TypeOK, Counted, Busy, stream, counts, threads, order
  <1>12. CASE FinishReceive
    BY <1>12, ReceiveType DEF FinishReceive, Receive, TypeOK, call, stream
  <1>13. CASE FinishJoin
    BY <1>13 DEF FinishJoin, TypeOK, Counted, Busy, stream, counts, threads, order
  <1>14. ASSUME NEW w \in Workers, WorkerTake(w) PROVE TypeInv'
    <2>1. Head(tasks) \in Task /\ tasks' \in Seq(Task)
          /\ Len(tasks') = Len(tasks) - 1
      BY <1>14 DEF WorkerTake, TypeOK
    <2>2. holding' \in [Workers -> Task \cup {None}]
      BY <1>14, <2>1 DEF WorkerTake, TypeOK
    <2>3. Counted'
      <3>1. Cardinality(Busy') = Cardinality(Busy) + 1
        BY <1>14, BusyTake
      <3>2. in_flight' = in_flight /\ results' = results
        BY <1>14 DEF WorkerTake, counts
      <3> QED BY <2>1, <3>1, <3>2, BusyFinite DEF TypeOK, Counted
    <2> QED BY <1>14, <2>1, <2>2, <2>3
            DEF WorkerTake, TypeOK, call, stream, counts, order
  <1>15. ASSUME NEW w \in Workers, WorkerSend(w) PROVE TypeInv'
    <2>1. holding[w] \in Task
      BY <1>15 DEF WorkerSend, TypeOK
    <2>2. results' \in Seq(Task) /\ Len(results') = Len(results) + 1
      BY <1>15, <2>1 DEF WorkerSend, TypeOK
    <2>3. holding' \in [Workers -> Task \cup {None}]
      BY <1>15 DEF WorkerSend, AfterSend, TypeOK
    <2>4. Counted'
      <3>1. Cardinality(Busy') = Cardinality(Busy) - 1
        BY <1>15, BusySend
      <3>2. in_flight' = in_flight /\ tasks' = tasks
        BY <1>15 DEF WorkerSend, counts
      <3>3. Len(tasks) \in Nat /\ Len(results) \in Nat
        BY DEF TypeOK
      <3>4. in_flight = Len(tasks) + Cardinality(Busy) + Len(results)
        BY DEF Counted
      <3>5. Len(results') = Len(results) + 1
        BY <2>2
      <3> HIDE DEF TypeInv
      <3> QED BY <3>1, <3>2, <3>3, <3>4, <3>5, BusyFinite DEF Counted
    <2> QED BY <1>15, <2>2, <2>3, <2>4
            DEF WorkerSend, TypeOK, call, stream, counts, order
  <1>16. ASSUME NEW w \in Workers, WorkerExit(w) PROVE TypeInv'
    BY <1>16 DEF WorkerExit, TypeOK, Counted, Busy, call, stream, counts, order
  <1>17. CASE UNCHANGED vars
    BY <1>17 DEF vars, TypeOK, Counted, Busy, call, stream, counts, threads, order
  <1> QED
    BY <1>1, <1>2, <1>3, <1>4, <1>5, <1>6, <1>7, <1>8, <1>9, <1>10, <1>11,
       <1>12, <1>13, <1>14, <1>15, <1>16, <1>17
       DEF Next, OwnerStep, Worker, Stopped

(* The pool's variables keep their types: in particular in_flight, an      *)
(* unsigned counter that every received result decrements, never           *)
(* underflows, because it counts exactly the tasks in the two channels and *)
(* in the workers.                                                         *)
THEOREM TypeCorrect == Spec => []TypeOK
  <1>1. TypeInv => TypeOK
    BY DEF TypeInv
  <1> QED BY InitType, NextType, <1>1, PTL DEF Spec

THEOREM CountedAlways == Spec => []TypeInv
  BY InitType, NextType, PTL DEF Spec

-----------------------------------------------------------------------------
(***************************************************************************)
(* Every outstanding number is in exactly one place.  The four places are  *)
(* treated as sets; a step of the pool moves one task from one to the next.*)
(***************************************************************************)
InTasks   == Range(tasks)
InHands   == {holding[w] : w \in Busy}
InResults == Range(results)

NoTwins(q)  == \A i, j \in 1..Len(q) : q[i].seq = q[j].seq => i = j
Apart(A, B) == \A a \in A, b \in B : a.seq # b.seq

Distinct ==
  /\ NoTwins(tasks) /\ NoTwins(results)
  /\ \A v, w \in Busy : holding[v].seq = holding[w].seq => v = w
  /\ \A r, t \in pending : r.seq = t.seq => r = t
  /\ Apart(InTasks, InHands) /\ Apart(InTasks, InResults)
  /\ Apart(InTasks, pending) /\ Apart(InHands, InResults)
  /\ Apart(InHands, pending) /\ Apart(InResults, pending)

Numbered ==
  /\ \A t \in Carried : t.seq \in expected_output..(expected_submit - 1)
  /\ \A n \in expected_output..(expected_submit - 1) :
       \E t \in Carried : t.seq = n

PendingCounted ==
  IsFiniteSet(pending) /\ in_flight + Cardinality(pending) = Outstanding

Settled == reordering = (RipeIn(pending, expected_output) # {})

PlaceInv == TypeInv /\ Distinct /\ Numbered /\ PendingCounted /\ Settled

(* Popping and pushing, seen as sets.                                      *)
LEMMA PopFacts ==
  ASSUME NEW q \in Seq(Task), q # <<>>, NoTwins(q)
  PROVE  /\ Head(q) \in Range(q)
         /\ Range(q) = Range(Tail(q)) \cup {Head(q)}
         /\ \A t \in Range(Tail(q)) : t.seq # Head(q).seq
         /\ NoTwins(Tail(q))
  <1>1. Len(q) \in Nat /\ Len(q) >= 1 /\ Head(q) = q[1] /\ DOMAIN q = 1..Len(q)
    OBVIOUS
  <1>2. /\ Len(Tail(q)) = Len(q) - 1 /\ DOMAIN Tail(q) = 1..(Len(q) - 1)
        /\ \A k \in 1..(Len(q) - 1) : Tail(q)[k] = q[k + 1]
    OBVIOUS
  <1>3. Range(q) = Range(Tail(q)) \cup {Head(q)}
    <2>1. ASSUME NEW k \in 1..Len(q) PROVE q[k] \in Range(Tail(q)) \cup {Head(q)}
      <3>1. CASE k = 1
        BY <3>1, <1>1
      <3>2. CASE k # 1
        <4>1. k - 1 \in 1..(Len(q) - 1) /\ (k - 1) + 1 = k
          BY <3>2, <1>1
        <4> QED BY <4>1, <1>2 DEF Range
      <3> QED BY <3>1, <3>2
    <2>2. ASSUME NEW k \in 1..(Len(q) - 1) PROVE Tail(q)[k] \in Range(q)
      <3>1. k + 1 \in 1..Len(q)
        BY <1>1
      <3> QED BY <3>1, <1>1, <1>2 DEF Range
    <2>3. Head(q) \in Range(q)
      BY <1>1 DEF Range
    <2>4. Range(q) \subseteq Range(Tail(q)) \cup {Head(q)}
      <3>1. ASSUME NEW x \in Range(q) PROVE x \in Range(Tail(q)) \cup {Head(q)}
        <4>1. PICK k \in 1..Len(q) : x = q[k]
          BY <1>1 DEF Range
        <4> QED BY <4>1, <2>1
      <3> QED BY <3>1
    <2>5. Range(Tail(q)) \subseteq Range(q)
      BY <2>2, <1>2 DEF Range
    <2> QED BY <2>3, <2>4, <2>5
  <1>4. \A t \in Range(Tail(q)) : t.seq # Head(q).seq
    <2>1. ASSUME NEW k \in 1..(Len(q) - 1) PROVE Tail(q)[k].seq # Head(q).seq
      <3>1. k + 1 \in 1..Len(q) /\ 1 \in 1..Len(q) /\ k + 1 # 1
        BY <1>1
      <3> QED BY <3>1, <1>1, <1>2 DEF NoTwins
    <2> QED BY <2>1, <1>2 DEF Range
  <1>5. NoTwins(Tail(q))
    <2>1. ASSUME NEW j \in 1..(Len(q) - 1), NEW k \in 1..(Len(q) - 1),
                 Tail(q)[j].seq = Tail(q)[k].seq
          PROVE  j = k
      <3>1. j + 1 \in 1..Len(q) /\ k + 1 \in 1..Len(q)
        BY <1>1
      <3>2. j + 1 = k + 1
        BY <3>1, <2>1, <1>2 DEF NoTwins
      <3> QED BY <3>2
    <2> QED BY <2>1, <1>2 DEF NoTwins
  <1> QED BY <1>3, <1>4, <1>5

LEMMA PushFacts ==
  ASSUME NEW q \in Seq(Task), NEW t \in Task, NoTwins(q),
         \A r \in Range(q) : r.seq # t.seq
  PROVE  Range(Append(q, t)) = Range(q) \cup {t} /\ NoTwins(Append(q, t))
  <1>1. /\ Len(q) \in Nat /\ DOMAIN q = 1..Len(q)
        /\ DOMAIN Append(q, t) = 1..(Len(q) + 1)
        /\ Len(Append(q, t)) = Len(q) + 1
        /\ Append(q, t)[Len(q) + 1] = t
        /\ \A k \in 1..Len(q) : Append(q, t)[k] = q[k]
    OBVIOUS
  <1>2. \A k \in 1..(Len(q) + 1) : k \in 1..Len(q) \/ k = Len(q) + 1
    BY <1>1
  <1>3. Range(Append(q, t)) = Range(q) \cup {t}
    BY <1>1, <1>2 DEF Range
  <1>4. NoTwins(Append(q, t))
    BY <1>1, <1>2 DEF NoTwins, Range
  <1> QED BY <1>3, <1>4

LEMMA InitPlaces == Init => PlaceInv
  <1> SUFFICES ASSUME Init PROVE PlaceInv
    OBVIOUS
  <1>1. Busy = {} /\ tasks = <<>> /\ results = <<>> /\ pending = {}
    BY DEF Init, Busy
  <1>2. InTasks = {} /\ InHands = {} /\ InResults = {}
    BY <1>1 DEF InTasks, InHands, InResults, Range
  <1>3. Carried = {}
    BY <1>1, <1>2 DEF Carried, InTasks, InHands, InResults
  <1>4. Distinct
    BY <1>1, <1>2 DEF Distinct, NoTwins, Apart
  <1>5. Numbered
    BY <1>3 DEF Init, Numbered
  <1>6. PendingCounted
    BY <1>1, FS_EmptySet DEF Init, PendingCounted, Outstanding
  <1>7. Settled
    BY DEF Init, Settled, RipeIn
  <1> QED BY <1>4, <1>5, <1>6, <1>7, InitType DEF PlaceInv

LEMMA CarriedParts ==
  Carried = InTasks \cup InHands \cup InResults \cup pending
  BY DEF Carried, InTasks, InHands, InResults

LEMMA PlacesAreTasks ==
  ASSUME TypeInv
  PROVE  /\ InTasks \subseteq Task /\ InHands \subseteq Task
         /\ InResults \subseteq Task /\ pending \subseteq Task
  <1>1. tasks \in Seq(Task) /\ results \in Seq(Task) /\ pending \subseteq Task
    BY DEF TypeInv, TypeOK
  <1>2. InTasks \subseteq Task /\ InResults \subseteq Task
    BY <1>1 DEF InTasks, InResults, Range
  <1>3. InHands \subseteq Task
    BY DEF TypeInv, TypeOK, InHands, Busy
  <1> QED BY <1>1, <1>2, <1>3

(* submit puts the next number into the task channel.                      *)
LEMMA SendPlaces == PlaceInv /\ SubmitSend => PlaceInv'
  <1> SUFFICES ASSUME PlaceInv, SubmitSend PROVE PlaceInv'
    OBVIOUS
  <1> DEFINE new == [seq |-> expected_submit, index |-> input_index,
                     len |-> packet, hist |-> tail, sel |-> bins]
  <1>1. new \in Task /\ new.seq = expected_submit /\ tasks' = Append(tasks, new)
    BY DEF SubmitSend, PlaceInv, TypeInv, TypeOK, Task
  <1>2. /\ expected_submit \in Nat /\ expected_output \in Nat /\ in_flight \in Nat
        /\ tasks \in Seq(Task)
    BY DEF PlaceInv, TypeInv, TypeOK
  <1>3. /\ expected_submit' = expected_submit + 1 /\ in_flight' = in_flight + 1
        /\ expected_output' = expected_output /\ pending' = pending
        /\ reordering' = reordering /\ results' = results /\ holding' = holding
    BY DEF SubmitSend, order
  <1>4. Busy' = Busy /\ InHands' = InHands /\ InResults' = InResults
    BY <1>3 DEF Busy, InHands, InResults
  <1>5. \A t \in Carried : t.seq # new.seq
    BY <1>1, <1>2 DEF PlaceInv, Numbered
  <1>6. InTasks' = InTasks \cup {new} /\ NoTwins(tasks')
    BY <1>1, <1>2, <1>5, PushFacts, CarriedParts DEF InTasks, PlaceInv, Distinct
  <1>7. Carried' = Carried \cup {new}
    BY <1>3, <1>4, <1>6 DEF Carried, InTasks, InHands, InResults
  <1>8. Distinct'
    BY <1>3, <1>4, <1>5, <1>6, CarriedParts DEF PlaceInv, Distinct, Apart, NoTwins
  <1>9. Outstanding' = Outstanding + 1 /\ Outstanding \in Nat
    <2>1. Outstanding' = Outstanding + 1 /\ Outstanding \in Int
      BY <1>2, <1>3 DEF Outstanding
    <2>2. in_flight + Cardinality(pending) = Outstanding
          /\ Cardinality(pending) \in Nat
      BY FS_CardinalityType DEF PlaceInv, PendingCounted
    <2> QED BY <1>2, <2>1, <2>2
  <1>10. Numbered'
    <2>1. \A n : n \in expected_output'..(expected_submit' - 1)
                 <=> n \in expected_output..(expected_submit - 1)
                     \/ n = expected_submit
      BY <1>2, <1>3, <1>9 DEF Outstanding
    <2> QED BY <2>1, <1>1, <1>7 DEF PlaceInv, Numbered
  <1>11. PendingCounted'
    <2>1. Cardinality(pending) \in Nat
      BY FS_CardinalityType DEF PlaceInv, PendingCounted
    <2> QED BY <2>1, <1>2, <1>3, <1>9 DEF PlaceInv, PendingCounted
  <1>12. Settled'
    BY <1>3 DEF PlaceInv, Settled, RipeIn
  <1>13. TypeInv'
    BY NextType DEF PlaceInv, Next, OwnerStep
  <1> QED BY <1>8, <1>10, <1>11, <1>12, <1>13 DEF PlaceInv

(* A worker takes the oldest task.                                         *)
LEMMA TakePlaces ==
  ASSUME PlaceInv, NEW w \in Workers, WorkerTake(w)
  PROVE  PlaceInv'
  <1> DEFINE h == Head(tasks)
  <1>1. /\ tasks \in Seq(Task) /\ tasks # <<>> /\ NoTwins(tasks)
        /\ holding \in [Workers -> Task \cup {None}]
    BY DEF WorkerTake, PlaceInv, TypeInv, TypeOK, Distinct
  <1>2. /\ h \in InTasks /\ InTasks = InTasks' \cup {h} /\ NoTwins(tasks')
        /\ \A t \in InTasks' : t.seq # h.seq
    BY <1>1, PopFacts DEF WorkerTake, InTasks
  <1>3. h \in Task /\ h # None
    BY <1>1, NoneAssumption
  <1>4. w \notin Busy /\ Busy' = Busy \cup {w} /\ holding'[w] = h
        /\ \A v \in Busy : holding'[v] = holding[v]
    BY <1>1, <1>3 DEF WorkerTake, Busy
  <1>5. InHands' = InHands \cup {h}
    BY <1>4 DEF InHands
  <1>6. /\ pending' = pending /\ results' = results /\ in_flight' = in_flight
        /\ expected_submit' = expected_submit /\ reordering' = reordering
        /\ expected_output' = expected_output /\ InResults' = InResults
    BY DEF WorkerTake, counts, order, InResults
  <1>7. Carried' = Carried
    BY <1>2, <1>5, <1>6, CarriedParts DEF Carried, InTasks, InHands, InResults
  <1>8. Distinct'
    <2>1. \A v, u \in Busy' : holding'[v].seq = holding'[u].seq => v = u
      BY <1>2, <1>4 DEF PlaceInv, Distinct, Apart, InHands
    <2>2. Apart(InTasks', InHands') /\ Apart(InHands', InResults')
          /\ Apart(InHands', pending')
      BY <1>2, <1>5, <1>6 DEF PlaceInv, Distinct, Apart
    <2>3. Apart(InTasks', InResults') /\ Apart(InTasks', pending')
          /\ Apart(InResults', pending')
      BY <1>2, <1>6 DEF PlaceInv, Distinct, Apart
    <2>4. NoTwins(results') /\ \A r, t \in pending' : r.seq = t.seq => r = t
      BY <1>6 DEF PlaceInv, Distinct
    <2> QED BY <1>2, <2>1, <2>2, <2>3, <2>4 DEF Distinct, Apart
  <1>9. Numbered' /\ PendingCounted' /\ Settled'
    BY <1>6, <1>7 DEF PlaceInv, Numbered, PendingCounted, Settled, RipeIn,
                      Outstanding
  <1>10. TypeInv'
    BY NextType DEF PlaceInv, Next, Worker
  <1> QED BY <1>8, <1>9, <1>10 DEF PlaceInv

(* A worker sends its result.                                              *)
LEMMA ResultPlaces ==
  ASSUME PlaceInv, NEW w \in Workers, WorkerSend(w)
  PROVE  PlaceInv'
  <1> DEFINE h == holding[w]
  <1>1. /\ results \in Seq(Task) /\ NoTwins(results)
        /\ holding \in [Workers -> Task \cup {None}]
    BY DEF PlaceInv, TypeInv, TypeOK, Distinct
  <1>2. w \in Busy /\ h \in Task /\ h \in InHands
    BY <1>1 DEF WorkerSend, Busy, InHands
  <1>3. InResults' = InResults \cup {h} /\ NoTwins(results')
    <2>1. \A r \in Range(results) : r.seq # h.seq
      BY <1>2 DEF PlaceInv, Distinct, Apart, InResults
    <2> QED BY <1>1, <1>2, <2>1, PushFacts DEF WorkerSend, InResults
  <1>4. Busy' = Busy \ {w} /\ \A v \in Busy' : holding'[v] = holding[v]
    BY <1>1 DEF WorkerSend, AfterSend, Busy
  <1>5. InHands = InHands' \cup {h} /\ \A t \in InHands' : t.seq # h.seq
    BY <1>2, <1>4 DEF InHands, PlaceInv, Distinct
  <1>6. /\ pending' = pending /\ tasks' = tasks /\ in_flight' = in_flight
        /\ expected_submit' = expected_submit /\ reordering' = reordering
        /\ expected_output' = expected_output /\ InTasks' = InTasks
    BY DEF WorkerSend, counts, order, InTasks
  <1>7. Carried' = Carried
    BY <1>3, <1>5, <1>6, CarriedParts DEF Carried, InTasks, InHands, InResults
  <1>8. Distinct'
    <2>1. \A v, u \in Busy' : holding'[v].seq = holding'[u].seq => v = u
      BY <1>4 DEF PlaceInv, Distinct
    <2>2. Apart(InTasks', InHands') /\ Apart(InHands', InResults')
          /\ Apart(InHands', pending')
      BY <1>3, <1>5, <1>6 DEF PlaceInv, Distinct, Apart
    <2>3. Apart(InTasks', InResults') /\ Apart(InTasks', pending')
          /\ Apart(InResults', pending')
      BY <1>2, <1>3, <1>6 DEF PlaceInv, Distinct, Apart
    <2>4. NoTwins(tasks') /\ \A r, t \in pending' : r.seq = t.seq => r = t
      BY <1>6 DEF PlaceInv, Distinct
    <2> QED BY <1>3, <2>1, <2>2, <2>3, <2>4 DEF Distinct, Apart
  <1>9. Numbered' /\ PendingCounted' /\ Settled'
    BY <1>6, <1>7 DEF PlaceInv, Numbered, PendingCounted, Settled, RipeIn,
                      Outstanding
  <1>10. TypeInv'
    BY NextType DEF PlaceInv, Next, Worker
  <1> QED BY <1>8, <1>9, <1>10 DEF PlaceInv

(* The owner receives a result into `pending'.                             *)
LEMMA ReceivePlaces ==
  ASSUME PlaceInv, TypeInv', Receive
  PROVE  PlaceInv'
  <1> DEFINE h == Head(results)
  <1>1. /\ results \in Seq(Task) /\ results # <<>> /\ NoTwins(results)
        /\ in_flight \in Nat /\ expected_submit \in Nat /\ expected_output \in Nat
    BY DEF Receive, PlaceInv, TypeInv, TypeOK, Distinct
  <1>2. /\ h \in InResults /\ InResults = InResults' \cup {h}
        /\ NoTwins(results') /\ \A t \in InResults' : t.seq # h.seq
    BY <1>1, PopFacts DEF Receive, InResults
  <1>3. pending' = pending \cup {h} /\ h \notin pending
    BY <1>2 DEF Receive, PlaceInv, Distinct, Apart
  <1>4. /\ tasks' = tasks /\ holding' = holding /\ in_flight' = in_flight - 1
        /\ expected_submit' = expected_submit
        /\ expected_output' = expected_output
    BY DEF Receive
  <1>5. InTasks' = InTasks /\ Busy' = Busy /\ InHands' = InHands
    BY <1>4 DEF InTasks, Busy, InHands
  <1>6. Carried' = Carried
    BY <1>2, <1>3, <1>5, CarriedParts DEF Carried, InTasks, InHands, InResults
  <1>7. Distinct'
    <2>1. \A r, t \in pending' : r.seq = t.seq => r = t
      BY <1>2, <1>3 DEF PlaceInv, Distinct, Apart
    <2>2. Apart(InTasks', pending') /\ Apart(InHands', pending')
          /\ Apart(InResults', pending')
      BY <1>2, <1>3, <1>5 DEF PlaceInv, Distinct, Apart
    <2>3. Apart(InTasks', InHands') /\ Apart(InTasks', InResults')
          /\ Apart(InHands', InResults')
      BY <1>2, <1>5 DEF PlaceInv, Distinct, Apart
    <2>4. /\ NoTwins(tasks')
          /\ \A v, u \in Busy' : holding'[v].seq = holding'[u].seq => v = u
      BY <1>4, <1>5 DEF PlaceInv, Distinct
    <2> QED BY <1>2, <2>1, <2>2, <2>3, <2>4 DEF Distinct, Apart
  <1>8. Numbered'
    BY <1>4, <1>6 DEF PlaceInv, Numbered
  <1>9. PendingCounted'
    <2>1. IsFiniteSet(pending) /\ Cardinality(pending) \in Nat
      BY FS_CardinalityType DEF PlaceInv, PendingCounted
    <2>2. /\ IsFiniteSet(pending')
          /\ Cardinality(pending') = Cardinality(pending) + 1
      BY <1>3, <2>1, FS_AddElement
    <2>3. Outstanding' = Outstanding
      BY <1>4 DEF Outstanding
    <2>4. in_flight + Cardinality(pending) = Outstanding
      BY DEF PlaceInv, PendingCounted
    <2> QED BY <1>1, <1>4, <2>1, <2>2, <2>3, <2>4 DEF PendingCounted
  <1>10. Settled'
    BY <1>4 DEF Receive, Settled
  <1> QED BY <1>7, <1>8, <1>9, <1>10 DEF PlaceInv

(* The loop of receive_one moves the next number out of `pending'.         *)
LEMMA ReorderPlaces == PlaceInv /\ Reorder => PlaceInv'
  <1> SUFFICES ASSUME PlaceInv, Reorder PROVE PlaceInv'
    OBVIOUS
  <1>1. PICK t \in RipeIn(pending, expected_output) : pending' = pending \ {t}
    BY DEF Reorder, Without
  <1>2. /\ t \in pending /\ t.seq = expected_output
        /\ expected_output \in Nat /\ expected_submit \in Nat
    BY <1>1 DEF RipeIn, PlaceInv, TypeInv, TypeOK
  <1>3. /\ tasks' = tasks /\ holding' = holding /\ results' = results
        /\ expected_output' = expected_output + 1
        /\ expected_submit' = expected_submit /\ in_flight' = in_flight
    BY DEF Reorder, threads
  <1>4. /\ InTasks' = InTasks /\ InResults' = InResults
        /\ Busy' = Busy /\ InHands' = InHands
    BY <1>3 DEF InTasks, InResults, Busy, InHands
  <1>5. Carried' = {r \in Carried : r.seq # expected_output}
    BY <1>1, <1>2, <1>3, <1>4, CarriedParts
       DEF PlaceInv, Distinct, Apart, Carried, InTasks, InHands, InResults
  <1>6. Distinct'
    BY <1>1, <1>3, <1>4 DEF PlaceInv, Distinct, Apart, NoTwins
  <1>7. Numbered'
    <2>1. \A n : n \in expected_output'..(expected_submit' - 1)
                 <=> n \in expected_output..(expected_submit - 1)
                     /\ n # expected_output
      BY <1>2, <1>3
    <2> QED BY <1>5, <2>1 DEF PlaceInv, Numbered
  <1>8. PendingCounted'
    <2>1. /\ IsFiniteSet(pending) /\ Cardinality(pending) \in Nat
          /\ in_flight + Cardinality(pending) = Outstanding
      BY FS_CardinalityType DEF PlaceInv, PendingCounted
    <2>2. /\ IsFiniteSet(pending')
          /\ Cardinality(pending') = Cardinality(pending) - 1
      BY <1>1, <1>2, <2>1, FS_RemoveElement
    <2>3. Outstanding' = Outstanding - 1 /\ Outstanding \in Int
      BY <1>2, <1>3 DEF Outstanding
    <2>4. in_flight \in Nat
      BY DEF PlaceInv, TypeInv, TypeOK
    <2> QED BY <1>3, <2>1, <2>2, <2>3, <2>4 DEF PendingCounted
  <1>9. Settled'
    BY DEF Reorder, Continues, Settled
  <1>10. TypeInv'
    BY NextType DEF PlaceInv, Next, OwnerStep
  <1> QED BY <1>6, <1>7, <1>8, <1>9, <1>10 DEF PlaceInv

(* What the other steps leave alone.                                       *)
LEMMA StillPlaces ==
  ASSUME PlaceInv, TypeInv',
         UNCHANGED <<tasks, holding, results, pending, reordering, in_flight,
                     expected_submit, expected_output>>
  PROVE  PlaceInv'
  <1>1. Busy' = Busy /\ InTasks' = InTasks /\ InResults' = InResults
        /\ InHands' = InHands
    BY DEF Busy, InTasks, InResults, InHands
  <1>2. Carried' = Carried
    BY <1>1, CarriedParts DEF Carried, InTasks, InHands, InResults
  <1>3. Distinct'
    BY <1>1 DEF PlaceInv, Distinct, NoTwins, Apart
  <1> QED BY <1>2, <1>3
          DEF PlaceInv, Numbered, PendingCounted, Settled, RipeIn, Outstanding

LEMMA NextPlaces == PlaceInv /\ [Next]_vars => PlaceInv'
  <1> SUFFICES ASSUME PlaceInv, [Next]_vars PROVE PlaceInv'
    OBVIOUS
  <1>0. TypeInv'
    BY NextType DEF PlaceInv
  <1>1. ASSUME NEW n \in PacketSizes, SubmitBegin(n) PROVE PlaceInv'
    BY <1>0, <1>1, StillPlaces DEF SubmitBegin, counts, threads, order
  <1>2. CASE Take
    BY <1>0, <1>2, StillPlaces DEF Take, counts, threads
  <1>3. CASE FlushBegin
    BY <1>0, <1>3, StillPlaces DEF FlushBegin, counts, threads, order
  <1>4. ASSUME NEW b \in Selections, ReplaceBins(b) PROVE PlaceInv'
    BY <1>0, <1>4, StillPlaces DEF ReplaceBins, counts, threads, order
  <1>5. CASE FinishBegin
    BY <1>0, <1>5, StillPlaces DEF FinishBegin, counts, threads, order
  <1>6. CASE Reorder
    BY <1>6, ReorderPlaces
  <1>7. CASE SubmitReceive
    BY <1>0, <1>7, ReceivePlaces DEF SubmitReceive
  <1>8. CASE SubmitRefused
    BY <1>0, <1>8, StillPlaces DEF SubmitRefused, counts, threads, order
  <1>9. CASE SubmitSend
    BY <1>9, SendPlaces
  <1>10. CASE FlushReceive
    BY <1>0, <1>10, ReceivePlaces DEF FlushReceive
  <1>11. CASE FlushEnd
    BY <1>0, <1>11, StillPlaces DEF FlushEnd, counts, threads, order
  <1>12. CASE FinishReceive
    BY <1>0, <1>12, ReceivePlaces DEF FinishReceive
  <1>13. CASE FinishJoin
    BY <1>0, <1>13, StillPlaces DEF FinishJoin, counts, threads, order
  <1>14. ASSUME NEW w \in Workers, WorkerTake(w) PROVE PlaceInv'
    BY <1>14, TakePlaces
  <1>15. ASSUME NEW w \in Workers, WorkerSend(w) PROVE PlaceInv'
    BY <1>15, ResultPlaces
  <1>16. ASSUME NEW w \in Workers, WorkerExit(w) PROVE PlaceInv'
    BY <1>0, <1>16, StillPlaces DEF WorkerExit, counts, order
  <1>17. CASE UNCHANGED vars
    BY <1>0, <1>17, StillPlaces DEF vars, counts, threads, order
  <1> QED
    BY <1>1, <1>2, <1>3, <1>4, <1>5, <1>6, <1>7, <1>8, <1>9, <1>10, <1>11,
       <1>12, <1>13, <1>14, <1>15, <1>16, <1>17
       DEF Next, OwnerStep, Worker, Stopped

THEOREM PlacesAlways == Spec => []PlaceInv
  BY InitPlaces, NextPlaces, PTL DEF Spec

(* No packet is lost or doubled between submit and its turn, and both      *)
(* counters agree with where the packets are.                              *)
THEOREM NothingLost == Spec => []Conserved
  <1>1. PlaceInv => Conserved
    <2> SUFFICES ASSUME PlaceInv PROVE Conserved
      OBVIOUS
    <2>1. {t.seq : t \in Carried} = expected_output..(expected_submit - 1)
      BY DEF PlaceInv, Numbered
    <2>2. in_flight = Len(tasks) + Cardinality(Busy) + Len(results)
      BY DEF PlaceInv, TypeInv, Counted
    <2>3. in_flight + Cardinality(pending) = Outstanding
      BY DEF PlaceInv, PendingCounted
    <2> QED BY <2>1, <2>2, <2>3 DEF Conserved
  <1> QED BY <1>1, PlacesAlways, PTL

(* Once every task has answered, the reordering map is empty, so neither   *)
(* flush_pending nor finish can report a missing ordered output.           *)
THEOREM FlushLeavesNothing == Spec => []FlushComplete
  <1>1. PlaceInv => FlushComplete
    <2> SUFFICES ASSUME PlaceInv, ~reordering, in_flight = 0
                 PROVE  pending = {} /\ Outstanding = 0
      BY DEF FlushComplete
    <2>1. tasks \in Seq(Task) /\ results \in Seq(Task)
          /\ expected_output \in Nat /\ expected_submit \in Nat
      BY DEF PlaceInv, TypeInv, TypeOK
    <2>2. Len(tasks) = 0 /\ Len(results) = 0 /\ Cardinality(Busy) = 0
      <3>1. Len(tasks) \in Nat /\ Len(results) \in Nat
        BY <2>1
      <3>2. 0 = Len(tasks) + Cardinality(Busy) + Len(results)
        BY DEF PlaceInv, TypeInv, Counted
      <3> QED BY <3>1, <3>2, BusyFinite
    <2>3. Busy = {} /\ tasks = <<>> /\ results = <<>>
      BY <2>1, <2>2, BusyFinite, FS_EmptySet
    <2>4. Carried = pending
      BY <2>3 DEF Carried, Range
    <2>5. IsFiniteSet(pending) /\ Cardinality(pending) \in Nat
          /\ 0 + Cardinality(pending) = Outstanding
      BY FS_CardinalityType DEF PlaceInv, PendingCounted
    <2>6. Outstanding = 0
      <3>1. CASE Outstanding > 0
        <4>1. expected_output \in expected_output..(expected_submit - 1)
          BY <2>1, <3>1 DEF Outstanding
        <4>2. \E t \in pending : t.seq = expected_output
          BY <2>4, <4>1 DEF PlaceInv, Numbered
        <4> QED BY <4>2 DEF PlaceInv, Settled, RipeIn
      <3> QED BY <2>5, <3>1
    <2> QED BY <2>5, <2>6, FS_EmptySet
  <1> QED BY <1>1, PlacesAlways, PTL

-----------------------------------------------------------------------------
(* Results come out in submission order with no gap: receive_one appends   *)
(* only the number it waits for.                                           *)
LEMMA NextInOrder == PlaceInv /\ InOrder /\ [Next]_vars => InOrder'
  <1> SUFFICES ASSUME PlaceInv, InOrder, [Next]_vars PROVE InOrder'
    OBVIOUS
  <1>1. /\ ready \in Seq(Task) /\ delivered \in Seq(Nat) /\ expected_output \in Nat
        /\ Len(ready) \in Nat /\ Len(delivered) \in Nat
    BY DEF PlaceInv, TypeInv, TypeOK
  <1>2. CASE UNCHANGED <<ready, delivered, expected_output>>
    BY <1>2 DEF InOrder
  <1>3. CASE Take
    <2>1. /\ ready # <<>> /\ delivered' = Append(delivered, Head(ready).seq)
          /\ ready' = Tail(ready) /\ expected_output' = expected_output
      BY <1>3 DEF Take, counts
    <2>2. /\ Len(ready) >= 1 /\ Head(ready) = ready[1]
          /\ Len(ready') = Len(ready) - 1
          /\ \A k \in 1..(Len(ready) - 1) : ready'[k] = ready[k + 1]
      BY <1>1, <2>1
    <2>3. Head(ready).seq = Len(delivered) /\ Head(ready).seq \in Nat
      BY <1>1, <2>2 DEF InOrder
    <2>4. /\ Len(delivered') = Len(delivered) + 1
          /\ delivered'[Len(delivered) + 1] = Len(delivered)
          /\ \A k \in 1..Len(delivered) : delivered'[k] = delivered[k]
      BY <1>1, <2>1, <2>3
    <2>5. Len(delivered') + Len(ready') = expected_output'
      <3>1. Len(delivered) + Len(ready) = expected_output
        BY DEF InOrder
      <3>2. Len(delivered') = Len(delivered) + 1
        BY <2>4
      <3>3. Len(ready') = Len(ready) - 1 /\ expected_output' = expected_output
        BY <2>1, <2>2
      <3>4. Len(ready) \in Nat /\ Len(delivered) \in Nat
        BY <1>1
      <3> QED BY <3>1, <3>2, <3>3, <3>4
    <2>6. \A k \in 1..Len(delivered') : delivered'[k] = k - 1
      <3>1. ASSUME NEW k \in 1..(Len(delivered) + 1) PROVE delivered'[k] = k - 1
        <4>1. CASE k \in 1..Len(delivered)
          BY <4>1, <2>4 DEF InOrder
        <4>2. CASE k = Len(delivered) + 1
          BY <4>2, <1>1, <2>4
        <4> QED BY <4>1, <4>2, <1>1
      <3> QED BY <3>1, <2>4
    <2>7. \A k \in 1..Len(ready') : ready'[k].seq = Len(delivered') + k - 1
      <3>1. ASSUME NEW k \in 1..(Len(ready) - 1)
            PROVE  ready'[k].seq = Len(delivered') + k - 1
        <4>1. k + 1 \in 1..Len(ready)
          BY <1>1
        <4>2. ready[k + 1].seq = Len(delivered) + (k + 1) - 1
          BY <4>1 DEF InOrder
        <4> QED BY <4>2, <1>1, <2>2, <2>4
      <3> QED BY <3>1, <2>2
    <2> QED BY <2>5, <2>6, <2>7 DEF InOrder
  <1>4. CASE Reorder
    <2>1. PICK t \in RipeIn(pending, expected_output) : ready' = Append(ready, t)
      BY <1>4 DEF Reorder
    <2>2. t \in Task /\ t.seq = expected_output
      BY <2>1 DEF RipeIn, PlaceInv, TypeInv, TypeOK
    <2>3. /\ Len(ready') = Len(ready) + 1 /\ ready'[Len(ready) + 1] = t
          /\ \A k \in 1..Len(ready) : ready'[k] = ready[k]
      BY <1>1, <2>1, <2>2
    <2>4. delivered' = delivered /\ expected_output' = expected_output + 1
      BY <1>4 DEF Reorder
    <2>5. ASSUME NEW k \in 1..(Len(ready) + 1)
          PROVE  ready'[k].seq = Len(delivered) + k - 1
      <3>1. CASE k \in 1..Len(ready)
        BY <3>1, <2>3 DEF InOrder
      <3>2. CASE k = Len(ready) + 1
        <4>1. ready'[k] = t /\ t.seq = Len(delivered) + Len(ready)
          BY <3>2, <2>2, <2>3 DEF InOrder
        <4> QED BY <4>1, <3>2, <1>1
      <3> QED BY <3>1, <3>2, <1>1
    <2>6. Len(delivered') + Len(ready') = expected_output'
      <3>1. Len(delivered) + Len(ready) = expected_output
        BY DEF InOrder
      <3> QED BY <3>1, <1>1, <2>3, <2>4, SMTT(30)
    <2> QED BY <2>3, <2>4, <2>5, <2>6 DEF InOrder
  <1>5. Take \/ Reorder \/ UNCHANGED <<ready, delivered, expected_output>>
    BY DEF Next, OwnerStep, Worker, SubmitBegin, FlushBegin, ReplaceBins,
           FinishBegin, SubmitReceive, SubmitRefused, SubmitSend, FlushReceive,
           FlushEnd, FinishReceive, FinishJoin, Stopped, Receive, WorkerTake,
           WorkerSend, WorkerExit, vars, counts, order
  <1> QED BY <1>2, <1>3, <1>4, <1>5

THEOREM OrderedDelivery == Spec => []InOrder
  <1>1. Init => InOrder
    BY DEF Init, InOrder
  <1> QED BY <1>1, PlacesAlways, NextInOrder, PTL DEF Spec

-----------------------------------------------------------------------------
(* The tasks the pool holds, ready results included.  Only submit adds to  *)
(* them, so a property of every new task is one of every task.             *)
Held    == Carried \cup Range(ready)
NewTask == [seq |-> expected_submit, index |-> input_index,
            len |-> packet, hist |-> tail, sel |-> bins]

LEMMA RangeTail ==
  ASSUME NEW q \in Seq(Task), q # <<>>
  PROVE  Range(Tail(q)) \subseteq Range(q) /\ Head(q) \in Range(q)
  <1>1. /\ Len(q) \in Nat /\ Len(q) >= 1 /\ Head(q) = q[1] /\ DOMAIN q = 1..Len(q)
        /\ DOMAIN Tail(q) = 1..(Len(q) - 1)
        /\ \A k \in 1..(Len(q) - 1) : Tail(q)[k] = q[k + 1]
    OBVIOUS
  <1>2. ASSUME NEW k \in 1..(Len(q) - 1) PROVE Tail(q)[k] \in Range(q)
    <2>1. k + 1 \in 1..Len(q)
      BY <1>1
    <2> QED BY <2>1, <1>1 DEF Range
  <1> QED BY <1>1, <1>2 DEF Range

LEMMA RangeAppend ==
  ASSUME NEW q \in Seq(Task), NEW t \in Task
  PROVE  Range(Append(q, t)) = Range(q) \cup {t}
  <1>1. /\ Len(q) \in Nat /\ DOMAIN q = 1..Len(q)
        /\ DOMAIN Append(q, t) = 1..(Len(q) + 1)
        /\ Append(q, t)[Len(q) + 1] = t
        /\ \A k \in 1..Len(q) : Append(q, t)[k] = q[k]
        /\ \A k \in 1..(Len(q) + 1) : k \in 1..Len(q) \/ k = Len(q) + 1
    OBVIOUS
  <1> QED BY <1>1 DEF Range

(* Tasks move between the places without a change; only Reorder lets one   *)
(* go and only submit adds one.                                            *)
LEMMA CarriedByStep ==
  ASSUME TypeInv, [Next]_vars
  PROVE  \/ /\ Carried' \subseteq Carried
            /\ UNCHANGED <<expected_submit, expected_output, input_index, groups>>
         \/ Reorder
         \/ SubmitSend /\ Carried' \subseteq Carried \cup {NewTask}
  <1>1. TypeInv /\ tasks \in Seq(Task) /\ results \in Seq(Task)
        /\ holding \in [Workers -> Task \cup {None}]
    BY DEF TypeInv, TypeOK
  <1>2. CASE SubmitSend
    <2>1. NewTask \in Task
      BY DEF NewTask, TypeInv, TypeOK, Task
    <2>2. Range(tasks') = Range(tasks) \cup {NewTask}
      BY <1>1, <1>2, <2>1, RangeAppend DEF SubmitSend, NewTask
    <2> QED BY <1>2, <2>2 DEF SubmitSend, order, Carried, Busy
  <1>3. CASE Receive
    <2>1. Range(results') \subseteq Range(results) /\ Head(results) \in Range(results)
      BY <1>1, <1>3, RangeTail DEF Receive
    <2>2. Carried' \subseteq Carried
      BY <1>3, <2>1 DEF Receive, Carried, Busy
    <2>3. UNCHANGED <<expected_submit, expected_output, input_index, groups>>
      BY <1>3 DEF Receive, stream
    <2> QED BY <2>2, <2>3
  <1>4. ASSUME NEW w \in Workers, WorkerTake(w)
        PROVE  /\ Carried' \subseteq Carried
               /\ UNCHANGED <<expected_submit, expected_output, input_index, groups>>
    <2>1. Range(tasks') \subseteq Range(tasks) /\ Head(tasks) \in Range(tasks)
      BY <1>1, <1>4, RangeTail DEF WorkerTake
    <2>2. {holding'[v] : v \in Busy'} \subseteq
            {holding[v] : v \in Busy} \cup {Head(tasks)}
      BY <1>1, <1>4 DEF WorkerTake, Busy
    <2> QED BY <1>4, <2>1, <2>2 DEF WorkerTake, order, counts, stream, Carried
  <1>5. ASSUME NEW w \in Workers, WorkerSend(w)
        PROVE  /\ Carried' \subseteq Carried
               /\ UNCHANGED <<expected_submit, expected_output, input_index, groups>>
    <2>1. holding[w] \in Task /\ w \in Busy
      BY <1>1, <1>5 DEF WorkerSend, Busy
    <2>2. Range(results') = Range(results) \cup {holding[w]}
      BY <1>1, <1>5, <2>1, RangeAppend DEF WorkerSend
    <2>3. {holding'[v] : v \in Busy'} \subseteq {holding[v] : v \in Busy}
      BY <1>1, <1>5 DEF WorkerSend, AfterSend, Busy
    <2> QED BY <1>5, <2>1, <2>2, <2>3
            DEF WorkerSend, order, counts, stream, Carried
  <1>6. CASE UNCHANGED <<tasks, holding, results, pending, expected_submit,
                         expected_output, input_index, groups>>
    BY <1>6 DEF Carried, Busy, Range
  <1>7. \/ Reorder \/ SubmitSend \/ Receive
        \/ \E w \in Workers : WorkerTake(w) \/ WorkerSend(w)
        \/ UNCHANGED <<tasks, holding, results, pending, expected_submit,
                       expected_output, input_index, groups>>
    BY DEF Next, OwnerStep, Worker, SubmitBegin, FlushBegin, ReplaceBins, Take,
           FinishBegin, SubmitReceive, SubmitRefused, FlushReceive, FlushEnd,
           FinishReceive, FinishJoin, Stopped, WorkerExit, vars, threads, order,
           counts, stream
  <1> QED BY <1>2, <1>3, <1>4, <1>5, <1>6, <1>7

LEMMA HeldByStep ==
  ASSUME TypeInv, [Next]_vars
  PROVE  Held' \subseteq Held \/ (SubmitSend /\ Held' \subseteq Held \cup {NewTask})
  <1>1. ready \in Seq(Task) /\ pending \subseteq Task
    BY DEF TypeInv, TypeOK
  <1>2. CASE Reorder
    <2>1. PICK t \in pending : pending' = pending \ {t} /\ ready' = Append(ready, t)
      BY <1>2 DEF Reorder, RipeIn, Without
    <2>2. Range(ready') = Range(ready) \cup {t}
      BY <1>1, <2>1, RangeAppend
    <2> QED BY <1>2, <2>1, <2>2 DEF Reorder, threads, Held, Carried, Busy
  <1>3. CASE ~Reorder
    <2>1. ready' = ready \/ (Take /\ ready # <<>> /\ ready' = Tail(ready))
      BY <1>3
         DEF Next, OwnerStep, Worker, SubmitBegin, FlushBegin, ReplaceBins, Take,
             FinishBegin, SubmitReceive, SubmitRefused, SubmitSend, FlushReceive,
             FlushEnd, FinishReceive, FinishJoin, Stopped, Receive, WorkerTake,
             WorkerSend, WorkerExit, vars, order
    <2>2. Range(ready') \subseteq Range(ready)
      BY <1>1, <2>1, RangeTail
    <2> QED BY <1>3, <2>2, CarriedByStep DEF Held
  <1> QED BY <1>2, <1>3

(* The samples a worker filters with are the ones before its packet, for   *)
(* packets shorter and longer than the history alike.                      *)
LEMMA TailAdvances ==
  ASSUME input_index \in Nat, tail = HistoryBefore(input_index),
         NEW n \in PacketSizes
  PROVE  AdvanceTail(n) = HistoryBefore(input_index + n)
  <1>1. n \in Nat \ {0} /\ HistoryLen \in Nat \ {0}
    BY PoolAssumption
  <1>2. ASSUME NEW i \in 1..HistoryLen
        PROVE  AdvanceTail(n)[i] = input_index + n - HistoryLen + i - 1
    <2>1. CASE n >= HistoryLen \/ i > HistoryLen - n
      <3>1. i - (HistoryLen - n) \in 1..n
        BY <1>1, <2>1
      <3>2. AdvanceTail(n)[i] = input_index + (i - (HistoryLen - n)) - 1
        BY <2>1, <3>1 DEF AdvanceTail, Samples
      <3> QED BY <1>1, <3>2
    <2>2. CASE ~(n >= HistoryLen \/ i > HistoryLen - n)
      <3>1. i + n \in 1..HistoryLen
        BY <1>1, <2>2
      <3>2. AdvanceTail(n)[i] = input_index - HistoryLen + (i + n) - 1
        BY <2>2, <3>1 DEF AdvanceTail, HistoryBefore
      <3> QED BY <1>1, <3>2
    <2> QED BY <2>1, <2>2
  <1>3. AdvanceTail(n) = [i \in 1..HistoryLen |-> AdvanceTail(n)[i]]
    BY DEF AdvanceTail
  <1> DEFINE f == AdvanceTail(n)
             g == HistoryBefore(input_index + n)
  <1>4. g = [i \in 1..HistoryLen |-> g[i]]
        /\ \A i \in 1..HistoryLen :
             g[i] = (input_index + n) - HistoryLen + i - 1
    BY DEF HistoryBefore
  <1>5. \A i \in 1..HistoryLen :
          f[i] = input_index + n - HistoryLen + i - 1
    BY <1>2
  <1> HIDE DEF f, g
  <1>6. f = g
    BY <1>1, <1>3, <1>4, <1>5 DEF f
  <1> QED BY <1>6 DEF f, g

LEMMA NextHistory == TypeInv /\ HistoryExact /\ [Next]_vars => HistoryExact'
  <1> SUFFICES ASSUME TypeInv, HistoryExact, [Next]_vars PROVE HistoryExact'
    OBVIOUS
  <1>1. tail = HistoryBefore(input_index)
        /\ \A t \in Held : t.hist = HistoryBefore(t.index)
    BY DEF HistoryExact, Held
  <1>2. CASE SubmitSend
    <2>1. /\ tail' = AdvanceTail(packet) /\ input_index' = input_index + packet
          /\ packet \in PacketSizes /\ input_index \in Nat
      BY <1>2 DEF SubmitSend, TypeInv, TypeOK
    <2>2. tail' = HistoryBefore(input_index')
      BY <1>1, <2>1, TailAdvances
    <2>3. NewTask.hist = HistoryBefore(NewTask.index)
      BY <1>1 DEF NewTask
    <2>4. Held' \subseteq Held \cup {NewTask}
      BY HeldByStep
    <2> QED BY <1>1, <2>2, <2>3, <2>4 DEF HistoryExact, Held
  <1>3. CASE ~SubmitSend
    <2>1. tail' = tail /\ input_index' = input_index
      BY <1>3
         DEF Next, OwnerStep, Worker, Reorder, Take, SubmitBegin, FlushBegin,
             ReplaceBins, FinishBegin, SubmitReceive, SubmitRefused,
             FlushReceive, FlushEnd, FinishReceive, FinishJoin, Stopped, Receive,
             WorkerTake, WorkerSend, WorkerExit, vars, stream
    <2>2. Held' \subseteq Held
      BY <1>3, HeldByStep
    <2> QED BY <1>1, <2>1, <2>2 DEF HistoryExact, Held
  <1> QED BY <1>2, <1>3

THEOREM HistoryIsExact == Spec => []HistoryExact
  <1>1. Init => HistoryExact
    <2> SUFFICES ASSUME Init PROVE HistoryExact
      OBVIOUS
    <2>1. Busy = {} /\ tasks = <<>> /\ results = <<>> /\ pending = {}
          /\ ready = <<>>
      BY DEF Init, Busy
    <2>2. Carried \cup Range(ready) = {}
      BY <2>1 DEF Carried, Range
    <2> QED BY <2>2 DEF Init, HistoryExact
  <1> QED BY <1>1, CountedAlways, NextHistory, PTL DEF Spec

(* The columns of every result the consumer will see match its fine bank,  *)
(* because replace_bins finds the pool empty.                              *)
LEMMA DrainedIsEmpty ==
  ASSUME PlaceInv, Drained
  PROVE  Held = {}
  <1>1. ready = <<>> /\ expected_submit = expected_output
        /\ expected_output \in Nat
    BY DEF Drained, PlaceInv, TypeInv, TypeOK
  <1>2. expected_output..(expected_submit - 1) = {}
    BY <1>1
  <1>3. Carried = {}
    BY <1>2 DEF PlaceInv, Numbered
  <1> QED BY <1>1, <1>3 DEF Held, Range

SelInv == ColumnsMatchBank /\ bins = bank

LEMMA NextColumns == PlaceInv /\ SelInv /\ [Next]_vars => SelInv'
  <1> SUFFICES ASSUME PlaceInv, SelInv, [Next]_vars PROVE SelInv'
    OBVIOUS
  <1>1. bins = bank /\ \A t \in Held : t.sel = bank
    BY DEF SelInv, ColumnsMatchBank, Held
  <1>2. CASE SubmitSend
    <2>1. Held' \subseteq Held \cup {NewTask} /\ NewTask.sel = bins
          /\ bins' = bins /\ bank' = bank
      BY <1>2, HeldByStep DEF PlaceInv, NewTask, SubmitSend
    <2> QED BY <1>1, <2>1 DEF SelInv, ColumnsMatchBank, Held
  <1>3. ASSUME NEW b \in Selections, ReplaceBins(b) PROVE SelInv'
    <2>1. Held = {} /\ bins' = b /\ bank' = b
      BY <1>3, DrainedIsEmpty DEF ReplaceBins
    <2>2. Held' = Held
      BY <1>3 DEF ReplaceBins, threads, order, Held, Carried, Busy, Range
    <2> QED BY <2>1, <2>2 DEF SelInv, ColumnsMatchBank, Held
  <1>4. CASE ~SubmitSend /\ ~(\E b \in Selections : ReplaceBins(b))
    <2>1. bins' = bins /\ bank' = bank
      BY <1>4
         DEF Next, OwnerStep, Worker, Reorder, Take, SubmitBegin, FlushBegin,
             FinishBegin, SubmitReceive, SubmitRefused, FlushReceive, FlushEnd,
             FinishReceive, FinishJoin, Stopped, Receive, WorkerTake,
             WorkerSend, WorkerExit, vars, stream
    <2>2. Held' \subseteq Held
      BY <1>4, HeldByStep DEF PlaceInv
    <2> QED BY <1>1, <2>1, <2>2 DEF SelInv, ColumnsMatchBank, Held
  <1> QED BY <1>2, <1>3, <1>4

THEOREM ColumnsAlwaysMatch == Spec => []ColumnsMatchBank
  <1>1. Init => SelInv
    <2> SUFFICES ASSUME Init PROVE SelInv
      OBVIOUS
    <2>1. Busy = {} /\ tasks = <<>> /\ results = <<>> /\ pending = {}
          /\ ready = <<>> /\ bank = bins
      BY DEF Init, Busy
    <2>2. Carried \cup Range(ready) = {}
      BY <2>1 DEF Carried, Range
    <2> QED BY <2>1, <2>2 DEF SelInv, ColumnsMatchBank
  <1>2. SelInv => ColumnsMatchBank
    BY DEF SelInv
  <1> QED BY <1>1, <1>2, PlacesAlways, NextColumns, PTL DEF Spec

-----------------------------------------------------------------------------
(* Admission: submit sends only with room, so at most ADMIT packets are    *)
(* outstanding, and no send on either channel ever finds it full.          *)
Bounded == Outstanding <= ADMIT /\ Len(ready) + Outstanding <= ADMIT + READY - 1

LEMMA NextBounded == PlaceInv /\ Bounded /\ [Next]_vars => Bounded'
  <1> SUFFICES ASSUME PlaceInv, Bounded, [Next]_vars PROVE Bounded'
    OBVIOUS
  <1>1. /\ ADMIT \in Nat /\ READY \in Nat /\ expected_submit \in Nat
        /\ expected_output \in Nat /\ ready \in Seq(Task) /\ Len(ready) \in Nat
    BY PoolAssumption DEF PlaceInv, TypeInv, TypeOK
  <1>2. /\ expected_submit - expected_output <= ADMIT
        /\ Len(ready) + (expected_submit - expected_output) <= ADMIT + READY - 1
    BY DEF Bounded, Outstanding
  <1>3. CASE UNCHANGED <<expected_submit, expected_output, ready>>
    BY <1>2, <1>3 DEF Bounded, Outstanding
  <1>4. CASE Take
    <2>1. Len(ready') = Len(ready) - 1
      BY <1>1, <1>4 DEF Take
    <2>2. expected_submit' = expected_submit /\ expected_output' = expected_output
      BY <1>4 DEF Take, counts
    <2> QED BY <1>1, <1>2, <2>1, <2>2 DEF Bounded, Outstanding
  <1>5. CASE Reorder
    <2>1. Len(ready') = Len(ready) + 1
      BY <1>1, <1>5 DEF Reorder, RipeIn, PlaceInv, TypeInv, TypeOK
    <2>2. expected_submit' = expected_submit
          /\ expected_output' = expected_output + 1
      BY <1>5 DEF Reorder
    <2> QED BY <1>1, <1>2, <2>1, <2>2 DEF Bounded, Outstanding
  <1>6. CASE SubmitSend
    <2>1. /\ expected_submit - expected_output < ADMIT /\ Len(ready) < READY
          /\ expected_submit' = expected_submit + 1
          /\ expected_output' = expected_output /\ ready' = ready
      BY <1>6 DEF SubmitSend, Room, Outstanding, order
    <2> QED BY <1>1, <2>1 DEF Bounded, Outstanding
  <1>7. \/ Take \/ Reorder \/ SubmitSend
        \/ UNCHANGED <<expected_submit, expected_output, ready>>
    BY DEF Next, OwnerStep, Worker, SubmitBegin, FlushBegin, ReplaceBins,
           FinishBegin, SubmitReceive, SubmitRefused, FlushReceive, FlushEnd,
           FinishReceive, FinishJoin, Stopped, Receive, WorkerTake, WorkerSend,
           WorkerExit, vars, counts, order
  <1> QED BY <1>3, <1>4, <1>5, <1>6, <1>7

THEOREM AdmissionHolds == Spec => []AdmissionBound
  <1>1. Init => Bounded
    BY PoolAssumption DEF Init, Bounded, Outstanding
  <1>2. PlaceInv /\ Bounded => AdmissionBound
    <2> SUFFICES ASSUME PlaceInv, Bounded PROVE AdmissionBound
      OBVIOUS
    <2>1. /\ Len(tasks) \in Nat /\ Len(results) \in Nat /\ in_flight \in Nat
          /\ Outstanding \in Int
      BY DEF PlaceInv, TypeInv, TypeOK, Outstanding
    <2>2. in_flight = Len(tasks) + Cardinality(Busy) + Len(results)
      BY DEF PlaceInv, TypeInv, Counted
    <2>3. Cardinality(pending) \in Nat /\ in_flight + Cardinality(pending) = Outstanding
      BY FS_CardinalityType DEF PlaceInv, PendingCounted
    <2>4. ADMIT \in Nat /\ MAX_IN_FLIGHT \in Nat /\ MAX_IN_FLIGHT > ADMIT
      BY PoolAssumption
    <2>5. Outstanding <= ADMIT /\ Len(ready) + Outstanding <= ADMIT + READY - 1
      BY DEF Bounded
    <2>6. in_flight <= ADMIT
      BY <2>1, <2>3, <2>4, <2>5
    <2>7. Len(tasks) < MAX_IN_FLIGHT /\ Len(results) < MAX_IN_FLIGHT
      BY <2>1, <2>2, <2>4, <2>6, BusyFinite
    <2> QED BY <2>5, <2>6, <2>7 DEF AdmissionBound
  <1> QED BY <1>1, <1>2, PlacesAlways, NextBounded, PTL DEF Spec

-----------------------------------------------------------------------------
(* The output clock.  Packets tile the capture: each begins where the one  *)
(* before ends, and the last ends where the next will begin.               *)
LEMMA HopArithmetic ==
  ASSUME NEW a \in Nat, NEW n \in Nat, NEW h \in Nat \ {0}
  PROVE  (a \div h) + (((a % h) + n) \div h) = (a + n) \div h
  <1>1. a = h * (a \div h) + (a % h) /\ a \div h \in Nat /\ a % h \in Nat
    OBVIOUS
  <1> DEFINE x == (a % h) + n
  <1>2. x = h * (x \div h) + (x % h) /\ x \div h \in Nat /\ x % h \in 0..(h - 1)
    BY <1>1
  <1>3. a + n = h * ((a \div h) + (x \div h)) + (x % h)
    BY <1>1, <1>2
  <1>4. (h * ((a \div h) + (x \div h)) + (x % h)) \div h = (a \div h) + (x \div h)
    BY <1>1, <1>2
  <1> QED BY <1>3, <1>4

Tiled ==
  \A t \in Carried :
    /\ t.seq = expected_submit - 1 => t.index + t.len = input_index
    /\ \A u \in Carried : u.seq = t.seq + 1 => u.index = t.index + t.len

(* The clock without the choice of CompletedSamples.                       *)
Clock ==
  /\ Outstanding = 0 => groups = input_index \div Hop
  /\ \A t \in Carried : t.seq = expected_output => groups = t.index \div Hop

ClockInv == Tiled /\ Clock

LEMMA CarriedUnique ==
  ASSUME PlaceInv, NEW t \in Carried, NEW u \in Carried, t.seq = u.seq
  PROVE  t = u
  <1>1. \A a, b \in InTasks : a.seq = b.seq => a = b
    <2>1. tasks \in Seq(Task)
      BY DEF PlaceInv, TypeInv, TypeOK
    <2> QED BY <2>1 DEF PlaceInv, Distinct, NoTwins, InTasks, Range
  <1>2. \A a, b \in InResults : a.seq = b.seq => a = b
    <2>1. results \in Seq(Task)
      BY DEF PlaceInv, TypeInv, TypeOK
    <2> QED BY <2>1 DEF PlaceInv, Distinct, NoTwins, InResults, Range
  <1>3. \A a, b \in InHands : a.seq = b.seq => a = b
    BY DEF PlaceInv, Distinct, InHands
  <1>4. \A a, b \in pending : a.seq = b.seq => a = b
    BY DEF PlaceInv, Distinct
  <1> QED BY <1>1, <1>2, <1>3, <1>4, CarriedParts DEF PlaceInv, Distinct, Apart

LEMMA CarriedTasks == ASSUME TypeInv PROVE Carried \subseteq Task
  BY PlacesAreTasks, CarriedParts

LEMMA NextClock == PlaceInv /\ ClockInv /\ [Next]_vars => ClockInv'
  <1> SUFFICES ASSUME PlaceInv, ClockInv, [Next]_vars PROVE ClockInv'
    OBVIOUS
  <1>1. /\ expected_submit \in Nat /\ expected_output \in Nat
        /\ input_index \in Nat /\ groups \in Nat /\ TypeInv
        /\ \A t \in Carried : t.seq \in expected_output..(expected_submit - 1)
    BY DEF PlaceInv, TypeInv, TypeOK, Numbered
  <1>2. CASE /\ Carried' \subseteq Carried
             /\ UNCHANGED <<expected_submit, expected_output, input_index, groups>>
    BY <1>2 DEF ClockInv, Tiled, Clock, Outstanding
  <1>3. CASE SubmitSend /\ Carried' \subseteq Carried \cup {NewTask}
    <2>1. /\ expected_submit' = expected_submit + 1 /\ groups' = groups
          /\ expected_output' = expected_output
          /\ input_index' = input_index + packet
          /\ packet \in Nat \ {0}
      BY <1>3, PoolAssumption DEF SubmitSend, PlaceInv, TypeInv, TypeOK
    <2>2. /\ NewTask.seq = expected_submit /\ NewTask.index = input_index
          /\ NewTask.len = packet
      BY DEF NewTask
    <2>3. \A t \in Carried : t.seq # expected_submit /\ t.seq + 1 # expected_output
                             /\ t.seq # expected_submit + 1 /\ t.seq \in Int
      BY <1>1
    <2>4. Tiled'
      <3>1. ASSUME NEW t \in Carried', t.seq = expected_submit' - 1
            PROVE  t.index + t.len = input_index'
        <4>1. t.seq = expected_submit
          BY <3>1, <2>1, <1>1
        <4> QED BY <4>1, <1>3, <2>1, <2>2, <2>3
      <3>2. ASSUME NEW t \in Carried', NEW u \in Carried', u.seq = t.seq + 1
            PROVE  u.index = t.index + t.len
        <4>1. CASE u = NewTask
          <5>1. t # NewTask
            BY <3>2, <4>1, <2>2, <1>1
          <5>2. t \in Carried /\ t.seq = expected_submit - 1
            BY <5>1, <1>3, <3>2, <4>1, <2>2, <2>3, <1>1
          <5> QED BY <5>2, <4>1, <2>2 DEF ClockInv, Tiled
        <4>2. CASE u # NewTask /\ t = NewTask
          BY <4>2, <3>2, <1>3, <2>2, <2>3
        <4>3. CASE u # NewTask /\ t # NewTask
          BY <4>3, <3>2, <1>3 DEF ClockInv, Tiled
        <4> QED BY <4>1, <4>2, <4>3
      <3> QED BY <3>1, <3>2 DEF Tiled
    <2>5. Clock'
      <3>1. Outstanding \in Nat /\ Outstanding' # 0
        <4>1. Cardinality(pending) \in Nat /\ in_flight \in Nat
              /\ in_flight + Cardinality(pending) = Outstanding
          BY FS_CardinalityType DEF PlaceInv, PendingCounted, TypeInv, TypeOK
        <4>2. Outstanding \in Nat
          BY <4>1
        <4> QED BY <4>2, <1>1, <2>1 DEF Outstanding
      <3>2. ASSUME NEW t \in Carried', t.seq = expected_output'
            PROVE  groups' = t.index \div Hop
        <4>1. CASE t = NewTask
          <5>1. Outstanding = 0
            BY <4>1, <3>2, <2>1, <2>2, <1>1 DEF Outstanding
          <5> QED BY <5>1, <4>1, <2>1, <2>2 DEF ClockInv, Clock
        <4>2. CASE t # NewTask
          BY <4>2, <3>2, <1>3, <2>1 DEF ClockInv, Clock
        <4> QED BY <4>1, <4>2
      <3> QED BY <3>1, <3>2 DEF Clock
    <2> QED BY <2>4, <2>5 DEF ClockInv
  <1>4. CASE Reorder
    <2>1. PICK t \in RipeIn(pending, expected_output) :
             /\ pending' = pending \ {t} /\ groups' = groups + GroupsOf(t)
      BY <1>4 DEF Reorder, Without
    <2>2. t \in Carried /\ t \in Task /\ t.seq = expected_output
      BY <2>1 DEF RipeIn, Carried, PlaceInv, TypeInv, TypeOK
    <2>3. /\ expected_output' = expected_output + 1
          /\ expected_submit' = expected_submit /\ input_index' = input_index
      BY <1>4 DEF Reorder, stream
    <2>4. Carried' \subseteq Carried
      BY <1>4, <2>1 DEF Reorder, threads, Carried, Busy, Range
    <2>5. groups' = (t.index + t.len) \div Hop
      <3>1. groups = t.index \div Hop
        BY <2>2 DEF ClockInv, Clock
      <3>2. t.index \in Nat /\ t.len \in Nat /\ Hop \in Nat \ {0}
        BY <2>2, PoolAssumption DEF Task
      <3> QED BY <2>1, <3>1, <3>2, HopArithmetic DEF GroupsOf
    <2>6. Tiled'
      BY <2>3, <2>4 DEF ClockInv, Tiled
    <2>7. Clock'
      <3>1. ASSUME Outstanding' = 0 PROVE groups' = input_index' \div Hop
        <4>1. t.seq = expected_submit - 1
          BY <3>1, <1>1, <2>2, <2>3 DEF Outstanding
        <4> QED BY <4>1, <2>2, <2>3, <2>5 DEF ClockInv, Tiled
      <3>2. ASSUME NEW u \in Carried', u.seq = expected_output'
            PROVE  groups' = u.index \div Hop
        BY <3>2, <2>2, <2>3, <2>4, <2>5 DEF ClockInv, Tiled
      <3> QED BY <3>1, <3>2 DEF Clock
    <2> QED BY <2>6, <2>7 DEF ClockInv
  <1> QED BY <1>1, <1>2, <1>3, <1>4, CarriedByStep

(* The output clock is the input clock divided by the hop, although every  *)
(* worker counts the groups of its packet from the packet's position alone.*)
THEOREM ClockHolds == Spec => []GroupClock
  <1>1. Init => ClockInv
    <2> SUFFICES ASSUME Init PROVE ClockInv
      OBVIOUS
    <2>1. Busy = {} /\ tasks = <<>> /\ results = <<>> /\ pending = {}
      BY DEF Init, Busy
    <2>2. Carried = {}
      BY <2>1 DEF Carried, Range
    <2>3. 0 = 0 \div Hop
      BY PoolAssumption
    <2> QED BY <2>2, <2>3 DEF Init, ClockInv, Tiled, Clock
  <1>2. PlaceInv /\ ClockInv => GroupClock
    <2> SUFFICES ASSUME PlaceInv, ClockInv PROVE GroupClock
      OBVIOUS
    <2>1. CASE Outstanding = 0
      BY <2>1 DEF ClockInv, Clock, GroupClock, CompletedSamples
    <2>2. CASE Outstanding # 0
      <3>1. expected_output \in expected_output..(expected_submit - 1)
        <4>1. Cardinality(pending) \in Nat /\ in_flight \in Nat
              /\ in_flight + Cardinality(pending) = Outstanding
              /\ expected_output \in Nat /\ expected_submit \in Nat
          BY FS_CardinalityType DEF PlaceInv, PendingCounted, TypeInv, TypeOK
        <4> QED BY <4>1, <2>2 DEF Outstanding
      <3>2. \E t \in Carried : t.seq = expected_output
        BY <3>1 DEF PlaceInv, Numbered
      <3>3. PICK t \in Carried : /\ t.seq = expected_output
                                 /\ CompletedSamples = t.index
        BY <2>2, <3>2 DEF CompletedSamples
      <3> QED BY <3>3 DEF ClockInv, Clock, GroupClock
    <2> QED BY <2>1, <2>2
  <1> QED BY <1>1, <1>2, PlacesAlways, NextClock, PTL DEF Spec

(* Results leave the pool in the order of their submission, and a flush    *)
(* leaves nothing behind.                                                  *)
THEOREM OrderKept == Spec => []Ordered
  <1>1. InOrder /\ FlushComplete => Ordered
    BY DEF Ordered
  <1> QED BY <1>1, OrderedDelivery, FlushLeavesNothing, PTL

(* A packet is filtered with its own history, for the columns its bank     *)
(* expects, and at its place on the output clock.                          *)
THEOREM TasksExact == Spec => []TaskExact
  <1>1. HistoryExact /\ ColumnsMatchBank /\ GroupClock => TaskExact
    BY DEF TaskExact
  <1> QED BY <1>1, HistoryIsExact, ColumnsAlwaysMatch, ClockHolds, PTL

-----------------------------------------------------------------------------
(***************************************************************************)
(* The pool is an OrderedPipe.  Its k-th element is the k-th ready result, *)
(* or the carried task that has the number of that place; the steps of the *)
(* workers and the channels move tasks and leave every element in place.   *)
(***************************************************************************)
Entry     == [index : Nat, len : PacketSizes, sel : Selections]
Holder(n) == CHOOSE t \in Carried : t.seq = n
Element(k) ==
  IF k <= Len(ready) THEN ready[k] ELSE Holder(expected_output + (k - Len(ready)) - 1)
QueueLength == Len(ready) + Outstanding

(* Every outstanding number has one holder.                                *)
LEMMA HolderIs ==
  ASSUME PlaceInv, NEW n \in expected_output..(expected_submit - 1)
  PROVE  /\ Holder(n) \in Carried /\ Holder(n).seq = n
         /\ \A t \in Carried : t.seq = n => t = Holder(n)
  <1>1. \E t \in Carried : t.seq = n
    BY DEF PlaceInv, Numbered
  <1>2. Holder(n) \in Carried /\ Holder(n).seq = n
    BY <1>1 DEF Holder
  <1> QED BY <1>2, CarriedUnique

(* The counters are ordered, since there is a task for every number.       *)
LEMMA CountersOrdered ==
  ASSUME PlaceInv
  PROVE  /\ Outstanding \in Nat /\ Outstanding = expected_submit - expected_output
         /\ expected_submit \in Nat /\ expected_output \in Nat
         /\ ready \in Seq(Task) /\ Len(ready) \in Nat /\ QueueLength \in Nat
  <1>1. Cardinality(pending) \in Nat /\ in_flight \in Nat
        /\ in_flight + Cardinality(pending) = Outstanding
        /\ expected_output \in Nat /\ expected_submit \in Nat /\ ready \in Seq(Task)
    BY FS_CardinalityType DEF PlaceInv, PendingCounted, TypeInv, TypeOK
  <1>2. Len(ready) \in Nat
    BY <1>1
  <1> QED BY <1>1, <1>2 DEF Outstanding, QueueLength

(* Every element is a task.                                                *)
LEMMA ElementIsTask ==
  ASSUME PlaceInv, NEW k \in 1..QueueLength
  PROVE  /\ Element(k) \in Task
         /\ k > Len(ready) =>
              expected_output + (k - Len(ready)) - 1 \in expected_output..(expected_submit - 1)
  <1>1. CASE k <= Len(ready)
    <2>1. k \in 1..Len(ready)
      BY <1>1, CountersOrdered
    <2>2. ready[k] \in Task
      BY <2>1, CountersOrdered, ElementOfSeq
    <2> QED BY <1>1, <2>2, CountersOrdered DEF Element
  <1>2. CASE ~(k <= Len(ready))
    <2>1. expected_output + (k - Len(ready)) - 1 \in expected_output..(expected_submit - 1)
      BY <1>2, CountersOrdered DEF QueueLength
    <2>2. Holder(expected_output + (k - Len(ready)) - 1) \in Task
      BY <2>1, HolderIs, CarriedTasks DEF PlaceInv
    <2> QED BY <1>2, <2>1, <2>2 DEF Element
  <1> QED BY <1>1, <1>2

(* The queue of the pipe is the sequence of these elements.                *)
Shape ==
  /\ PipeQueue = [k \in 1..QueueLength |-> Descriptor(Element(k))]
  /\ PipeQueue \in Seq(Entry) /\ Len(PipeQueue) = QueueLength
  /\ \A k \in 1..QueueLength : PipeQueue[k] = Descriptor(Element(k))

LEMMA QueueIs ==
  ASSUME PlaceInv PROVE Shape
  <1>1. \A k \in 1..Outstanding : OutstandingInOrder[k] = Holder(expected_output + k - 1)
    BY DEF OutstandingInOrder, Holder
  <1>2. OutstandingInOrder \in Seq(Task) /\ Len(OutstandingInOrder) = Outstanding
    <2>1. \A k \in 1..Outstanding : OutstandingInOrder[k] \in Task
      <3> SUFFICES ASSUME NEW k \in 1..Outstanding PROVE OutstandingInOrder[k] \in Task
        OBVIOUS
      <3>1. expected_output + k - 1 \in expected_output..(expected_submit - 1)
        BY CountersOrdered
      <3>2. Holder(expected_output + k - 1) \in Task
        BY <3>1, HolderIs, CarriedTasks DEF PlaceInv
      <3> QED BY <1>1, <3>2
    <2>2. OutstandingInOrder = [k \in 1..Outstanding |-> OutstandingInOrder[k]]
      BY DEF OutstandingInOrder
    <2> QED BY <2>1, <2>2, CountersOrdered, SMTT(30)
  <1>3. \A k \in 1..QueueLength : (ready \o OutstandingInOrder)[k] = Element(k)
    <2> SUFFICES ASSUME NEW k \in 1..QueueLength
                 PROVE  (ready \o OutstandingInOrder)[k] = Element(k)
      OBVIOUS
    <2>1. (ready \o OutstandingInOrder)[k] =
            IF k <= Len(ready) THEN ready[k] ELSE OutstandingInOrder[k - Len(ready)]
      BY <1>2, CountersOrdered DEF QueueLength
    <2>2. CASE k <= Len(ready)
      BY <2>1, <2>2 DEF Element
    <2>3. CASE ~(k <= Len(ready))
      <3>1. k - Len(ready) \in 1..Outstanding
        BY <2>3, CountersOrdered DEF QueueLength
      <3> QED BY <1>1, <2>1, <2>3, <3>1 DEF Element
    <2> QED BY <2>2, <2>3
  <1>4. PipeQueue = [k \in 1..QueueLength |-> Descriptor(Element(k))]
    BY <1>3 DEF PipeQueue, QueueLength
  <1>5. \A k \in 1..QueueLength : Descriptor(Element(k)) \in Entry
    BY ElementIsTask DEF Descriptor, Task, Entry
  <1> QED BY <1>4, <1>5, CountersOrdered DEF Shape

(* The same of every number, for a step.                                   *)
Held1 ==
  \A n \in expected_output..(expected_submit - 1) :
    Holder(n) \in Carried /\ Holder(n).seq = n
LEMMA HoldersAre == PlaceInv => Held1
  BY HolderIs DEF Held1

LEMMA HoldersAfter ==
  ASSUME PlaceInv', NEW n \in expected_output'..(expected_submit' - 1)
  PROVE  Holder(n)' \in Carried' /\ Holder(n)'.seq = n
  <1>1. Held1'
    BY HoldersAre, PTL
  <1> QED BY <1>1 DEF Held1

(* A holder that a step does not remove is the holder after it.            *)
LEMMA HolderStays ==
  ASSUME PlaceInv, PlaceInv', NEW n \in expected_output..(expected_submit - 1),
         n \in expected_output'..(expected_submit' - 1), Holder(n)' \in Carried
  PROVE  Holder(n)' = Holder(n)
  <1>1. Holder(n)'.seq = n
    BY HoldersAfter
  <1> QED BY <1>1, HolderIs

(* The queue after a step, by its elements.                                *)
LEMMA ShapeIs == PlaceInv => Shape
  BY QueueIs DEF Shape

LEMMA QueueAfter ==
  ASSUME PlaceInv'
  PROVE  /\ PipeQueue' = [k \in 1..QueueLength' |-> Descriptor(Element(k)')]
         /\ PipeQueue' \in Seq(Entry) /\ Len(PipeQueue') = QueueLength'
         /\ \A k \in 1..QueueLength' : PipeQueue'[k] = Descriptor(Element(k)')
  <1>1. Shape'
    BY ShapeIs, PTL
  <1> QED BY <1>1 DEF Shape, Descriptor

(* A step of the workers or the channels leaves the queue alone.           *)
LEMMA QueueSame ==
  ASSUME PlaceInv, PlaceInv', Carried' \subseteq Carried,
         UNCHANGED <<ready, expected_output, expected_submit>>
  PROVE  PipeQueue' = PipeQueue
  <1>1. QueueLength' = QueueLength
    BY DEF QueueLength, Outstanding
  <1>2. ASSUME NEW k \in 1..QueueLength PROVE Element(k)' = Element(k)
    <2>1. CASE k <= Len(ready)
      BY <2>1 DEF Element
    <2>2. CASE ~(k <= Len(ready))
      <3> DEFINE n == expected_output + (k - Len(ready)) - 1
      <3>1. n \in expected_output..(expected_submit - 1) /\ n' = n
        BY <2>2, ElementIsTask, CountersOrdered, SMTT(30)
      <3>2. Holder(n)' \in Carried
        BY <3>1, HoldersAfter
      <3>3. Holder(n)' = Holder(n)
        BY <3>1, <3>2, HolderStays
      <3> QED BY <2>2, <3>1, <3>3 DEF Element
    <2> QED BY <2>1, <2>2
  <1> QED BY <1>1, <1>2, QueueIs, QueueAfter DEF Shape

(* A result that becomes ready stays where it is in the queue.             *)
LEMMA QueueReorder ==
  ASSUME PlaceInv, PlaceInv', Reorder
  PROVE  PipeQueue' = PipeQueue
  <1>1. PICK t \in pending : /\ t.seq = expected_output /\ pending' = pending \ {t}
                             /\ ready' = Append(ready, t)
    BY DEF Reorder, RipeIn, Without
  <1>2. /\ expected_output' = expected_output + 1 /\ expected_submit' = expected_submit
        /\ Carried' \subseteq Carried /\ t \in Carried
    BY <1>1 DEF Reorder, threads, Carried, Busy
  <1>3. t \in Task /\ expected_output \in expected_output..(expected_submit - 1)
    <2>1. t \in Task
      BY <1>2, CarriedTasks DEF PlaceInv
    <2>2. t.seq \in expected_output..(expected_submit - 1)
      BY <1>2 DEF PlaceInv, Numbered
    <2> QED BY <1>1, <2>1, <2>2
  <1>4. /\ Len(ready') = Len(ready) + 1 /\ ready'[Len(ready) + 1] = t
        /\ \A k \in 1..Len(ready) : ready'[k] = ready[k]
    <2>1. ready \in Seq(Task) /\ t \in Task /\ ready' = Append(ready, t)
      BY <1>1, <1>3, CountersOrdered
    <2> HIDE DEF Task
    <2> QED BY <2>1
  <1>5. QueueLength' = QueueLength
    <2>1. QueueLength = Len(ready) + (expected_submit - expected_output)
          /\ QueueLength' = Len(ready') + (expected_submit' - expected_output')
      BY DEF QueueLength, Outstanding
    <2>2. expected_submit \in Nat /\ expected_output \in Nat /\ Len(ready) \in Nat
      BY CountersOrdered
    <2> QED BY <1>2, <1>4, <2>1, <2>2
  <1>6. ASSUME NEW k \in 1..QueueLength PROVE Element(k)' = Element(k)
    <2>1. CASE k <= Len(ready)
      <3>1. k \in 1..Len(ready) /\ k <= Len(ready')
        BY <1>4, <2>1, CountersOrdered
      <3> QED BY <1>4, <2>1, <3>1 DEF Element
    <2>2. CASE k = Len(ready) + 1
      <3>1. ~(k <= Len(ready)) /\ k <= Len(ready')
            /\ expected_output + (k - Len(ready)) - 1 = expected_output
        BY <1>4, <2>2, CountersOrdered
      <3>2. Element(k) = Holder(expected_output)
        BY <3>1 DEF Element
      <3>3. t = Holder(expected_output)
        BY <1>1, <1>2, <1>3, HolderIs
      <3> QED BY <1>4, <2>2, <3>1, <3>2, <3>3 DEF Element
    <2>3. CASE k > Len(ready) + 1
      <3> DEFINE n == expected_output + (k - Len(ready)) - 1
      <3>1. ~(k <= Len(ready)) /\ ~(k <= Len(ready'))
            /\ expected_output' + (k - Len(ready')) - 1 = n
            /\ n \in expected_output..(expected_submit - 1)
            /\ n \in expected_output'..(expected_submit' - 1)
        <4>1. n \in expected_output..(expected_submit - 1)
          BY <2>3, ElementIsTask, CountersOrdered
        <4> QED BY <1>2, <1>4, <2>3, <4>1, CountersOrdered, SMTT(30)
      <3> HIDE DEF n
      <3>2. PICK m \in Int : m = n
        BY <3>1, CountersOrdered
      <3>3. Holder(m)' \in Carried'
        BY <3>1, <3>2, HoldersAfter
      <3>4. Holder(m)' = Holder(m)
        BY <1>2, <3>1, <3>2, <3>3, HolderStays
      <3> QED BY <3>1, <3>2, <3>4 DEF Element, n
    <2> QED BY <2>1, <2>2, <2>3, CountersOrdered
  <1> QED BY <1>5, <1>6, QueueIs, QueueAfter DEF Shape


(* submit puts a packet behind all others.                                 *)
LEMMA QueueAccept ==
  ASSUME PlaceInv, PlaceInv', SubmitSend, Carried' \subseteq Carried \cup {NewTask}
  PROVE  /\ QueueLength < ADMIT + READY - 1
         /\ PipeQueue' = Append(PipeQueue, Descriptor(NewTask))
  <1>1. /\ ready' = ready /\ expected_output' = expected_output
        /\ expected_submit' = expected_submit + 1
        /\ Outstanding < ADMIT /\ Len(ready) < READY
    BY DEF SubmitSend, order, Room
  <1>2. QueueLength' = QueueLength + 1 /\ QueueLength < ADMIT + READY - 1
    <2>1. /\ QueueLength = Len(ready) + Outstanding
          /\ Outstanding = expected_submit - expected_output
          /\ Outstanding' = expected_submit' - expected_output'
          /\ QueueLength' = Len(ready') + Outstanding'
      BY DEF QueueLength, Outstanding
    <2>2. /\ expected_submit \in Nat /\ expected_output \in Nat /\ Len(ready) \in Nat
          /\ ADMIT \in Nat /\ READY \in Nat
      BY CountersOrdered, PoolAssumption
    <2> QED BY <1>1, <2>1, <2>2
  <1>3. NewTask.seq = expected_submit
    BY DEF NewTask
  <1>4. ASSUME NEW k \in 1..QueueLength PROVE Element(k)' = Element(k)
    <2>1. CASE k <= Len(ready)
      BY <1>1, <2>1 DEF Element
    <2>2. CASE ~(k <= Len(ready))
      <3>1. PICK n \in Int : n = expected_output + (k - Len(ready)) - 1
        BY CountersOrdered
      <3>2. n \in expected_output..(expected_submit - 1)
        BY <2>2, <3>1, ElementIsTask
      <3>3. n \in expected_output'..(expected_submit' - 1) /\ n # expected_submit
        BY <1>1, <3>2, CountersOrdered
      <3>4. Holder(n)' \in Carried
        <4>1. Holder(n)' \in Carried' /\ Holder(n)'.seq = n
          BY <3>3, HoldersAfter
        <4> QED BY <1>3, <3>3, <4>1
      <3>5. Holder(n)' = Holder(n)
        BY <3>2, <3>3, <3>4, HolderStays
      <3>6. Element(k)' = Holder(n)'
        BY <1>1, <2>2, <3>1 DEF Element
      <3> QED BY <2>2, <3>1, <3>5, <3>6 DEF Element
    <2> QED BY <2>1, <2>2
  <1>5. ASSUME NEW k \in Nat, k = QueueLength + 1 PROVE Element(k)' = NewTask
    <2>2. ~(k <= Len(ready)) /\ expected_output + (k - Len(ready)) - 1 = expected_submit
      BY <1>5, CountersOrdered, SMTT(30) DEF QueueLength
    <2>3. PICK n \in Nat : n = expected_submit
      BY CountersOrdered
    <2>4. n \in expected_output'..(expected_submit' - 1)
      BY <1>1, <2>3, CountersOrdered
    <2>5. Holder(n)' \in Carried' /\ Holder(n)'.seq = n
      BY <2>4, HoldersAfter
    <2>6. \A t \in Carried : t.seq # n
      <3>1. \A t \in Carried : t.seq \in expected_output..(expected_submit - 1)
        BY DEF PlaceInv, Numbered
      <3> QED BY <2>3, <3>1, CountersOrdered
    <2>7. Holder(n)' = NewTask
      BY <2>5, <2>6
    <2>8. Element(k)' = Holder(n)'
      BY <1>1, <2>2, <2>3 DEF Element
    <2> QED BY <2>7, <2>8
  <1>6. PICK e \in Entry : e = Descriptor(NewTask)
    <2>1. NewTask.index \in Nat /\ NewTask.len \in PacketSizes /\ NewTask.sel \in Selections
      BY DEF PlaceInv, TypeInv, TypeOK, NewTask
    <2> QED BY <2>1 DEF Descriptor, Entry
  <1>7. PICK n \in Nat : n = QueueLength /\ n + 1 = QueueLength'
    BY <1>2, CountersOrdered
  <1>8. /\ PipeQueue \in Seq(Entry) /\ Len(PipeQueue) = n
        /\ PipeQueue' \in Seq(Entry) /\ Len(PipeQueue') = n + 1
        /\ \A k \in 1..n : PipeQueue'[k] = PipeQueue[k]
        /\ PipeQueue'[n + 1] = e
    <2>1. /\ PipeQueue \in Seq(Entry) /\ Len(PipeQueue) = n
          /\ PipeQueue' \in Seq(Entry) /\ Len(PipeQueue') = n + 1
          /\ \A k \in 1..n : PipeQueue[k] = Descriptor(Element(k))
          /\ \A k \in 1..(n + 1) : PipeQueue'[k] = Descriptor(Element(k)')
      BY <1>7, QueueIs, QueueAfter DEF Shape
    <2>2. \A k \in 1..n : Element(k)' = Element(k) /\ k \in 1..(n + 1)
      BY <1>4, <1>7
    <2>3. n + 1 \in 1..(n + 1)
      OBVIOUS
    <2>4. PipeQueue'[n + 1] = Descriptor(NewTask)
      <3>1. PICK k \in 1..(n + 1) : k = n + 1
        BY <2>3
      <3>2. PipeQueue'[k] = Descriptor(Element(k)') /\ Element(k)' = NewTask
        BY <1>5, <1>7, <2>1, <3>1
      <3> QED BY <3>1, <3>2
    <2> QED BY <1>6, <2>1, <2>2, <2>4
  <1>9. PipeQueue' = Append(PipeQueue, e)
    <2>1. PICK q \in Seq(Entry) : q = PipeQueue
      BY <1>8
    <2>2. PICK r \in Seq(Entry) : r = PipeQueue'
      BY <1>8
    <2> HIDE DEF Entry
    <2>3. /\ Append(q, e) \in Seq(Entry) /\ Len(Append(q, e)) = n + 1
          /\ Append(q, e)[n + 1] = e /\ \A k \in 1..n : Append(q, e)[k] = q[k]
      BY <1>8, <2>1
    <2>4. Len(r) = n + 1 /\ \A k \in 1..(n + 1) : r[k] = Append(q, e)[k]
      <3>1. \A k \in 1..(n + 1) : k \in 1..n \/ k = n + 1
        OBVIOUS
      <3> QED BY <1>8, <2>1, <2>2, <2>3, <3>1
    <2>5. r = Append(q, e)
      BY <2>3, <2>4, SeqEqual
    <2> QED BY <2>1, <2>2, <2>5
  <1> QED BY <1>2, <1>6, <1>9

(* take gives the head of the queue.                                       *)
LEMMA QueueEmit ==
  ASSUME PlaceInv, PlaceInv', Take, Carried' = Carried
  PROVE  PipeQueue # <<>> /\ PipeQueue' = Tail(PipeQueue)
  <1>1. /\ ready # <<>> /\ ready' = Tail(ready) /\ expected_output' = expected_output
        /\ expected_submit' = expected_submit
    BY DEF Take, counts
  <1>2. /\ ready \in Seq(Task) /\ Len(ready) \in Nat \ {0} /\ Len(ready') = Len(ready) - 1
        /\ \A k \in 1..(Len(ready) - 1) : ready'[k] = ready[k + 1]
    <2>1. ready \in Seq(Task) /\ ready # <<>> /\ ready' = Tail(ready)
      BY <1>1, CountersOrdered
    <2> HIDE DEF Task
    <2> QED BY <2>1
  <1>3. QueueLength' = QueueLength - 1 /\ QueueLength \in Nat \ {0}
    <2>1. /\ QueueLength = Len(ready) + Outstanding
          /\ QueueLength' = Len(ready') + Outstanding' /\ Outstanding' = Outstanding
      BY <1>1 DEF QueueLength, Outstanding
    <2> QED BY <1>2, <2>1, CountersOrdered
  <1>4. ASSUME NEW k \in 1..(QueueLength - 1), NEW j \in 1..QueueLength, j = k + 1
        PROVE  Element(k)' = Element(j)
    <2>1. CASE j <= Len(ready)
      <3>1. k \in 1..(Len(ready) - 1) /\ k <= Len(ready')
        BY <1>2, <1>4, <2>1
      <3> QED BY <1>2, <1>4, <2>1, <3>1 DEF Element
    <2>2. CASE ~(j <= Len(ready))
      <3>1. PICK n \in Int : n = expected_output + (j - Len(ready)) - 1
        BY CountersOrdered
      <3>2. n \in expected_output..(expected_submit - 1)
        BY <2>2, <3>1, ElementIsTask
      <3>3. /\ ~(k <= Len(ready'))
            /\ expected_output' + (k - Len(ready')) - 1 = n
            /\ n \in expected_output'..(expected_submit' - 1)
        BY <1>1, <1>2, <1>4, <2>2, <3>1, <3>2, CountersOrdered
      <3>4. Holder(n)' \in Carried
        BY <3>3, HoldersAfter
      <3>5. Holder(n)' = Holder(n)
        BY <3>2, <3>3, <3>4, HolderStays
      <3>6. Element(k)' = Holder(n)'
        BY <3>3 DEF Element
      <3> QED BY <2>2, <3>1, <3>5, <3>6 DEF Element
    <2> QED BY <2>1, <2>2
  <1>5. PICK n \in Nat : QueueLength = n + 1 /\ QueueLength' = n
    BY <1>3
  <1>6. /\ PipeQueue \in Seq(Entry) /\ Len(PipeQueue) = n + 1
        /\ PipeQueue' \in Seq(Entry) /\ Len(PipeQueue') = n
        /\ \A k \in 1..n : PipeQueue'[k] = PipeQueue[k + 1]
    <2>1. /\ PipeQueue \in Seq(Entry) /\ Len(PipeQueue) = n + 1
          /\ PipeQueue' \in Seq(Entry) /\ Len(PipeQueue') = n
          /\ \A k \in 1..(n + 1) : PipeQueue[k] = Descriptor(Element(k))
          /\ \A k \in 1..n : PipeQueue'[k] = Descriptor(Element(k)')
      BY <1>5, QueueIs, QueueAfter DEF Shape
    <2>2. ASSUME NEW k \in 1..n PROVE PipeQueue'[k] = PipeQueue[k + 1]
      <3>1. PICK j \in 1..(n + 1) : j = k + 1
        OBVIOUS
      <3>2. Element(k)' = Element(j)
        BY <1>4, <1>5, <3>1
      <3> QED BY <2>1, <3>1, <3>2
    <2> QED BY <2>1, <2>2
  <1>7. PICK q \in Seq(Entry) : q = PipeQueue
    BY <1>6
  <1>8. PICK r \in Seq(Entry) : r = PipeQueue'
    BY <1>6
  <1> HIDE DEF Entry
  <1>9. /\ Tail(q) \in Seq(Entry) /\ Len(Tail(q)) = n /\ q # <<>>
        /\ \A k \in 1..n : Tail(q)[k] = q[k + 1]
    BY <1>6, <1>7
  <1>10. r = Tail(q)
    BY <1>6, <1>7, <1>8, <1>9, SeqEqual
  <1> QED BY <1>7, <1>8, <1>9, <1>10

(* At first nothing is carried, and the pipe is empty.                     *)
LEMMA PipeInit == Init => Pipe!Init
  <1> SUFFICES ASSUME Init PROVE Pipe!Init
    OBVIOUS
  <1>1. PlaceInv
    BY InitPlaces
  <1>2. QueueLength = 0
    BY DEF Init, QueueLength, Outstanding
  <1>3. PipeQueue \in Seq(Entry) /\ Len(PipeQueue) = 0
    BY <1>1, <1>2, QueueIs DEF Shape
  <1>4. PipeQueue = <<>>
    BY <1>3
  <1>5. input_index = 0 /\ bins \in Selections /\ Len(delivered) = 0 /\ stopped = FALSE
    BY DEF Init
  <1> QED BY <1>4, <1>5 DEF Pipe!Init

(* The steps of the pool that the pipe sees.                               *)
Visible == SubmitSend \/ Take \/ FinishBegin \/ \E b \in Selections : ReplaceBins(b)

(* A submit that has begun was not refused, and finish waits for its end.  *)
SubmitOpen == op = "submit" => ~stopped
LEMMA SubmitStaysOpen == TypeOK /\ SubmitOpen /\ [Next]_vars => SubmitOpen'
  BY DEF TypeOK, SubmitOpen, Next, OwnerStep, Worker, SubmitBegin, Take, FlushBegin, ReplaceBins,
       FinishBegin, Reorder, SubmitReceive, SubmitRefused, SubmitSend, FlushReceive,
       FlushEnd, FinishReceive, FinishJoin, Stopped, Receive, WorkerTake, WorkerSend,
       WorkerExit, Idle, vars, call, stream

(* Every step of the pool is one of the pipe, or none.                     *)
LEMMA PipeStep ==
  PlaceInv /\ PlaceInv' /\ SubmitOpen /\ [Next]_vars => [Pipe!Next]_Pipe!pipeVars
  <1> SUFFICES ASSUME PlaceInv, PlaceInv', SubmitOpen, [Next]_vars PROVE [Pipe!Next]_Pipe!pipeVars
    OBVIOUS
  <1>0. TypeInv
    BY DEF PlaceInv
  <1>1. CASE SubmitSend
    <2>1. Carried' \subseteq Carried \cup {NewTask}
      <3>1. ~Reorder
        BY <1>1 DEF SubmitSend, Reorder
      <3>2. expected_submit' # expected_submit
        BY <1>1, CountersOrdered DEF SubmitSend
      <3> QED BY <1>0, <3>1, <3>2, CarriedByStep
    <2>2. Len(PipeQueue) < ADMIT + READY - 1
          /\ PipeQueue' = Append(PipeQueue, Descriptor(NewTask))
      BY <1>1, <2>1, QueueAccept, QueueIs DEF Shape
    <2>3. Descriptor(NewTask) = [index |-> input_index, len |-> packet, sel |-> bins]
      BY DEF Descriptor, NewTask
    <2>4. packet \in PacketSizes
      BY DEF PlaceInv, TypeInv, TypeOK
    <2>5. ~stopped
      BY <1>1 DEF SubmitOpen, SubmitSend
    <2>6. Pipe!Accept(packet)
      BY <1>1, <2>2, <2>3, <2>5 DEF SubmitSend, Pipe!Accept
    <2> QED BY <2>4, <2>6 DEF Pipe!Next
  <1>2. CASE Take
    <2>1. Carried' = Carried
      BY <1>2 DEF Take, threads, Carried, Busy
    <2>2. PipeQueue # <<>> /\ PipeQueue' = Tail(PipeQueue)
      BY <1>2, <2>1, QueueEmit
    <2>3. Len(delivered') = Len(delivered) + 1
      <3>1. delivered \in Seq(Nat) /\ Head(ready).seq \in Nat
        <4>1. ready \in Seq(Task) /\ ready # <<>>
          BY <1>2, CountersOrdered DEF Take
        <4>2. Head(ready) \in Task
          BY <4>1
        <4> QED BY <4>2 DEF PlaceInv, TypeInv, TypeOK, Task
      <3> QED BY <1>2, <3>1 DEF Take
    <2> QED BY <1>2, <2>2, <2>3 DEF Take, stream, Pipe!Emit, Pipe!Next
  <1>3. ASSUME NEW b \in Selections, ReplaceBins(b) PROVE Pipe!Next
    <2>1. PipeQueue' = PipeQueue
      <3>1. Carried' = Carried
        BY <1>3 DEF ReplaceBins, threads, order, Carried, Busy
      <3> QED BY <1>3, <3>1, QueueSame DEF ReplaceBins, order, counts
    <2>2. PipeQueue = <<>>
      <3>1. QueueLength = 0
        BY <1>3, CountersOrdered DEF ReplaceBins, Drained, QueueLength, Outstanding
      <3> QED BY <3>1, QueueIs DEF Shape
    <2> QED BY <1>3, <2>1, <2>2 DEF ReplaceBins, Pipe!Reselect, Pipe!Next
  <1>4. CASE FinishBegin
    <2>1. Carried' = Carried
      BY <1>4 DEF FinishBegin, threads, order, Carried, Busy
    <2>2. PipeQueue' = PipeQueue
      BY <1>4, <2>1, QueueSame DEF FinishBegin, order, counts
    <2> QED BY <1>4, <2>2 DEF FinishBegin, Pipe!Close, Pipe!Next
  <1>5. CASE ~Visible
    <2>1. UNCHANGED <<input_index, bins, delivered, stopped>>
      BY <1>5 DEF Visible, Next, OwnerStep, Worker, SubmitBegin, FlushBegin,
           SubmitReceive, SubmitRefused, FlushReceive, FlushEnd, FinishReceive,
           FinishJoin, Stopped, Receive, Reorder, WorkerTake, WorkerSend, WorkerExit,
           vars, stream
    <2>2. PipeQueue' = PipeQueue
      <3>1. CASE Reorder
        BY <3>1, QueueReorder
      <3>2. CASE ~Reorder
        <4>1. Carried' \subseteq Carried /\ UNCHANGED <<expected_submit, expected_output>>
          BY <1>0, <1>5, <3>2, CarriedByStep DEF Visible
        <4>2. ready' = ready
          BY <1>5, <3>2 DEF Visible, Next, OwnerStep, Worker, SubmitBegin, FlushBegin,
               SubmitReceive, SubmitRefused, FlushReceive, FlushEnd, FinishReceive,
               FinishJoin, Stopped, Receive, WorkerTake, WorkerSend, WorkerExit,
               vars, order
        <4> QED BY <4>1, <4>2, QueueSame
      <3> QED BY <3>1, <3>2
    <2> QED BY <2>1, <2>2 DEF Pipe!pipeVars
  <1> QED BY <1>1, <1>2, <1>3, <1>4, <1>5 DEF Visible

(* The pool implements the ordered pipe: however the workers and the two   *)
(* channels interleave, a caller of PfbStream sees packets come out one by *)
(* one, in order, with the position and the selection they went in with,   *)
(* and a selection that changes only while nothing is inside.              *)
THEOREM PoolImplementsPipe == Spec => ImplementsPipe
  <1>1. Init => Pipe!Init
    BY PipeInit
  <1>2. Init => SubmitOpen
    BY DEF Init, SubmitOpen
  <1>3. Spec => []SubmitOpen
    BY <1>2, SubmitStaysOpen, TypeCorrect, PTL DEF Spec
  <1>4. PlaceInv /\ PlaceInv' /\ SubmitOpen /\ [Next]_vars => [Pipe!Next]_Pipe!pipeVars
    BY PipeStep
  <1> QED BY <1>1, <1>3, <1>4, PlacesAlways, PTL DEF Spec, ImplementsPipe, Pipe!Spec
=============================================================================
