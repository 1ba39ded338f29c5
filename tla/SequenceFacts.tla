--------------------------- MODULE SequenceFacts ---------------------------
(***************************************************************************)
(* Facts about sequences that the proofs share.  Natural induction is      *)
(* stated with a set in place of a predicate, from the well-foundedness of *)
(* the naturals; a recursive function then exists by that induction, and   *)
(* the concatenation of a sequence of sequences obeys its recursion from   *)
(* either end, and so does a selection from a sequence.                    *)
(***************************************************************************)
EXTENDS Selection, SequenceTheorems, WellFoundedInduction, TLAPS

(* Every set of numbers that is not empty has a least one.                 *)
LEMMA Least ==
  ASSUME NEW T \in SUBSET Nat, T # {}
  PROVE  \E n \in T : \A m \in T : n <= m
  <1> DEFINE R == OpToRel(<, Nat)
  <1>1. IsWellFoundedOn(R, Nat)
    BY NatLessThanWellFounded
  <1>2. \A x, y \in Nat : <<y, x>> \in R <=> y < x
    BY DEF OpToRel
  <1> HIDE DEF R
  <1>3. \E x \in T : \A y \in T : ~(<<y, x>> \in R)
    BY <1>1, WFMin
  <1>4. PICK n \in T : \A m \in T : ~(<<m, n>> \in R)
    BY <1>3
  <1>5. ASSUME NEW m \in T PROVE n <= m
    <2>1. n \in Nat /\ m \in Nat /\ ~(<<m, n>> \in R)
      BY <1>4
    <2>2. ~(m < n)
      BY <2>1, <1>2
    <2> QED BY <2>1, <2>2
  <1> QED BY <1>4, <1>5

(* Induction over the numbers, for a set instead of a predicate.           *)
LEMMA Induct ==
  ASSUME NEW T, 0 \in T, \A n \in Nat : n \in T => n + 1 \in T
  PROVE  \A n \in Nat : n \in T
  <1> SUFFICES ASSUME NEW n \in Nat, n \notin T PROVE FALSE
    OBVIOUS
  <1> DEFINE U == {i \in Nat : i \notin T}
  <1>1. PICK m \in U : \A k \in U : m <= k
    <2>1. U \in SUBSET Nat /\ U # {}
      OBVIOUS
    <2> HIDE DEF U
    <2> QED BY <2>1, Least
  <1>2. m # 0 /\ m \in Nat
    BY <1>1
  <1>3. m - 1 \in Nat /\ m - 1 \notin U
    BY <1>1, <1>2
  <1> QED BY <1>1, <1>2, <1>3

Flattens(f, ss, n) ==
  f = [i \in 1..n |-> IF i = 1 THEN ss[i] ELSE f[i - 1] \o ss[i]]

(* There is a function of the running concatenations of any n sequences.   *)
LEMMA FlattensExists ==
  ASSUME NEW ss PROVE \A n \in Nat : \E f : Flattens(f, ss, n)
  <1> DEFINE T == {n \in Nat : \E f : Flattens(f, ss, n)}
  <1>1. 0 \in T
    <2> DEFINE e == [i \in 1..0 |-> IF i = 1 THEN ss[i] ELSE <<>>]
    <2>1. Flattens(e, ss, 0)
      BY DEF Flattens
    <2> QED BY <2>1
  <1>2. ASSUME NEW n \in Nat, n \in T PROVE n + 1 \in T
    <2>1. PICK f : Flattens(f, ss, n)
      BY <1>2
    <2> DEFINE g == [i \in 1..(n + 1) |->
                       IF i <= n THEN f[i]
                       ELSE IF i = 1 THEN ss[i] ELSE f[i - 1] \o ss[i]]
    <2>2. \A i \in 1..(n + 1) :
            g[i] = IF i = 1 THEN ss[i] ELSE g[i - 1] \o ss[i]
      <3> SUFFICES ASSUME NEW i \in 1..(n + 1)
                   PROVE  g[i] = IF i = 1 THEN ss[i] ELSE g[i - 1] \o ss[i]
        OBVIOUS
      <3>1. CASE i <= n
        <4>0. i \in 1..n
          BY <3>1
        <4>1. f[i] = IF i = 1 THEN ss[i] ELSE f[i - 1] \o ss[i]
          <5> DEFINE e(j) == IF j = 1 THEN ss[j] ELSE f[j - 1] \o ss[j]
          <5>1. f = [j \in 1..n |-> e(j)]
            BY <2>1 DEF Flattens
          <5> HIDE DEF e
          <5>2. f[i] = e(i)
            BY <4>0, <5>1
          <5> QED BY <5>2 DEF e
        <4>2. i # 1 => i - 1 \in 1..(n + 1) /\ i - 1 <= n
          BY <3>1
        <4> QED BY <3>1, <4>1, <4>2
      <3>2. CASE i = n + 1
        <4>1. i # 1 => i - 1 \in 1..(n + 1) /\ i - 1 <= n
          BY <3>2
        <4> QED BY <3>2, <4>1
      <3> QED BY <3>1, <3>2
    <2>3. Flattens(g, ss, n + 1)
      <3>1. g = [i \in 1..(n + 1) |-> g[i]]
        OBVIOUS
      <3> HIDE DEF g
      <3> QED BY <2>2, <3>1 DEF Flattens
    <2> QED BY <2>3
  <1> HIDE DEF T
  <1>3. \A n \in Nat : n \in T
    BY <1>1, <1>2, Induct
  <1> QED BY <1>3 DEF T

(* FlattenSeq is the last of them.                                         *)
LEMMA FlattenIs ==
  ASSUME NEW ss, Len(ss) \in Nat \ {0}
  PROVE  \E f : Flattens(f, ss, Len(ss)) /\ FlattenSeq(ss) = f[Len(ss)]
  <1>1. \E f : Flattens(f, ss, Len(ss))
    BY FlattensExists
  <1> DEFINE fl == CHOOSE f : Flattens(f, ss, Len(ss))
  <1>2. Flattens(fl, ss, Len(ss))
    BY <1>1
  <1>3. FlattenSeq(ss) = fl[Len(ss)]
    BY DEF FlattenSeq, Flattens
  <1> QED BY <1>2, <1>3

(* Two of these functions agree as far as their sequences agree.           *)
LEMMA FlattensAgree ==
  ASSUME NEW ss, NEW tt, NEW f, NEW g, NEW k \in Nat, NEW m \in Nat, k <= m,
         Flattens(f, ss, k), Flattens(g, tt, m),
         \A i \in 1..k : ss[i] = tt[i]
  PROVE  \A i \in 1..k : f[i] = g[i]
  <1> DEFINE e(h, s, j) == IF j = 1 THEN s[j] ELSE h[j - 1] \o s[j]
             T == {i \in Nat : i \in 1..k => f[i] = g[i]}
  <1>1. ASSUME NEW i \in 1..k PROVE f[i] = e(f, ss, i) /\ g[i] = e(g, tt, i)
    <2>1. f = [j \in 1..k |-> e(f, ss, j)] /\ g = [j \in 1..m |-> e(g, tt, j)]
      BY DEF Flattens
    <2>2. i \in 1..k /\ i \in 1..m
      OBVIOUS
    <2> HIDE DEF e
    <2> QED BY <2>1, <2>2
  <1>2. 0 \in T
    OBVIOUS
  <1>3. ASSUME NEW i \in Nat, i \in T PROVE i + 1 \in T
    <2> SUFFICES ASSUME i + 1 \in 1..k PROVE f[i + 1] = g[i + 1]
      OBVIOUS
    <2>1. f[i + 1] = e(f, ss, i + 1) /\ g[i + 1] = e(g, tt, i + 1)
      BY <1>1
    <2>2. ss[i + 1] = tt[i + 1]
      OBVIOUS
    <2>3. i + 1 # 1 => f[i] = g[i]
      BY <1>3
    <2>4. (i + 1) - 1 = i
      OBVIOUS
    <2> QED BY <2>1, <2>2, <2>3, <2>4
  <1> HIDE DEF T
  <1>4. \A i \in Nat : i \in T
    BY <1>2, <1>3, Induct
  <1> QED BY <1>4 DEF T

(* Nothing flattens to nothing.                                            *)
LEMMA FlattenEmpty == FlattenSeq(<<>>) = <<>>
  BY DEF FlattenSeq

(* Induction over the sequences of a set, with a set instead of a predicate. *)
LEMMA SequenceInduct ==
  ASSUME NEW T, NEW U, <<>> \in U,
         \A s \in Seq(T) : \A e \in T : s \in U => Append(s, e) \in U
  PROVE  \A s \in Seq(T) : s \in U
  <1> SUFFICES ASSUME NEW s \in Seq(T) PROVE s \in U
    OBVIOUS
  <1> DEFINE Part(k) == SubSeq(s, 1, k)
             K == {k \in Nat : k <= Len(s) => Part(k) \in U}
  <1>1. 0 \in K
    <2>1. Part(0) = <<>>
      OBVIOUS
    <2> QED BY <2>1
  <1>2. ASSUME NEW k \in Nat, k \in K PROVE k + 1 \in K
    <2> SUFFICES ASSUME k + 1 <= Len(s) PROVE Part(k + 1) \in U
      OBVIOUS
    <2>1. k + 1 \in 1..Len(s) /\ k \in 0..Len(s)
      OBVIOUS
    <2>2. s[k + 1] \in T
      BY <2>1, ElementOfSeq
    <2>3. Part(k) \in Seq(T) /\ Len(Part(k)) = k /\ \A i \in 1..k : Part(k)[i] = s[i]
      BY <2>1
    <2>4. /\ Part(k + 1) \in Seq(T) /\ Len(Part(k + 1)) = k + 1
          /\ \A i \in 1..(k + 1) : Part(k + 1)[i] = s[i]
      BY <2>1
    <2>5. Part(k) \in U
      BY <1>2
    <2> HIDE DEF Part
    <2>6. /\ Append(Part(k), s[k + 1]) \in Seq(T) /\ Len(Append(Part(k), s[k + 1])) = k + 1
          /\ \A i \in 1..(k + 1) : Append(Part(k), s[k + 1])[i] = s[i]
      BY <2>2, <2>3
    <2>7. Part(k + 1) = Append(Part(k), s[k + 1])
      BY <2>4, <2>6, SeqEqual
    <2> QED BY <2>2, <2>3, <2>5, <2>7
  <1> HIDE DEF K
  <1>3. Len(s) \in K
    <2>1. Len(s) \in Nat
      BY LenProperties
    <2> QED BY <1>1, <1>2, <2>1, Induct
  <1>4. Part(Len(s)) = s
    BY SubSeqFull
  <1>5. Part(Len(s)) \in U
    BY <1>3 DEF K
  <1> QED BY <1>4, <1>5

(* Flattening sequences over T gives a sequence over T.                    *)
LEMMA FlattenType ==
  ASSUME NEW T, NEW ss \in Seq(Seq(T))
  PROVE  FlattenSeq(ss) \in Seq(T)
  <1>1. CASE ss = <<>>
    <2>1. FlattenSeq(ss) = <<>>
      BY <1>1, FlattenEmpty
    <2>2. <<>> \in Seq(T)
      OBVIOUS
    <2> QED BY <2>1, <2>2
  <1>2. CASE ss # <<>>
    <2>1. Len(ss) \in Nat \ {0}
      BY <1>2, EmptySeq
    <2>2. PICK f : Flattens(f, ss, Len(ss)) /\ FlattenSeq(ss) = f[Len(ss)]
      BY <2>1, FlattenIs
    <2> DEFINE e(j) == IF j = 1 THEN ss[j] ELSE f[j - 1] \o ss[j]
               U == {i \in Nat : i \in 1..Len(ss) => f[i] \in Seq(T)}
    <2>3. ASSUME NEW i \in 1..Len(ss) PROVE f[i] = e(i)
      <3>1. f = [j \in 1..Len(ss) |-> e(j)]
        BY <2>2 DEF Flattens
      <3> HIDE DEF e
      <3> QED BY <3>1
    <2>4. 0 \in U
      OBVIOUS
    <2>5. ASSUME NEW i \in Nat, i \in U PROVE i + 1 \in U
      <3> SUFFICES ASSUME i + 1 \in 1..Len(ss) PROVE f[i + 1] \in Seq(T)
        OBVIOUS
      <3>1. ss[i + 1] \in Seq(T)
        BY ElementOfSeq
      <3>2. i + 1 # 1 => f[i] \in Seq(T)
        BY <2>5, <2>1
      <3>3. f[i + 1] = e(i + 1) /\ (i + 1) - 1 = i
        BY <2>3
      <3> QED BY <3>1, <3>2, <3>3
    <2> HIDE DEF U
    <2>6. \A i \in Nat : i \in U
      BY <2>4, <2>5, Induct
    <2> QED BY <2>1, <2>2, <2>6 DEF U
  <1> QED BY <1>1, <1>2

(* A sequence appended adds its elements at the end.                       *)
LEMMA FlattenAppend ==
  ASSUME NEW T, NEW ss \in Seq(Seq(T)), NEW s \in Seq(T)
  PROVE  FlattenSeq(Append(ss, s)) = FlattenSeq(ss) \o s
  <1> DEFINE tt == Append(ss, s)
             n == Len(ss)
  <1>1. /\ n \in Nat /\ Len(tt) = n + 1 /\ tt[n + 1] = s
        /\ \A i \in 1..n : ss[i] = tt[i]
    OBVIOUS
  <1> HIDE DEF tt, n
  <1>2. PICK f : Flattens(f, tt, n + 1) /\ FlattenSeq(tt) = f[n + 1]
    BY <1>1, FlattenIs
  <1>3. f[n + 1] = IF n + 1 = 1 THEN tt[n + 1] ELSE f[(n + 1) - 1] \o tt[n + 1]
    <2> DEFINE e(j) == IF j = 1 THEN tt[j] ELSE f[j - 1] \o tt[j]
    <2>1. f = [j \in 1..(n + 1) |-> e(j)]
      BY <1>2 DEF Flattens
    <2>2. n + 1 \in 1..(n + 1)
      BY <1>1
    <2> HIDE DEF e
    <2>3. f[n + 1] = e(n + 1)
      BY <2>1, <2>2
    <2> QED BY <2>3 DEF e
  <1>4. CASE n = 0
    <2>1. ss = <<>>
      BY <1>4, EmptySeq DEF n
    <2>2. FlattenSeq(tt) = s
      BY <1>1, <1>2, <1>3, <1>4
    <2>3. FlattenSeq(ss) = <<>>
      BY <2>1, FlattenEmpty
    <2> QED BY <2>2, <2>3 DEF tt
  <1>5. CASE n # 0
    <2>1. PICK g : Flattens(g, ss, n) /\ FlattenSeq(ss) = g[n]
      BY <1>1, <1>5, FlattenIs DEF n
    <2>2. f[n] = g[n]
      <3>1. n \in Nat /\ n + 1 \in Nat /\ n <= n + 1 /\ n \in 1..n
        BY <1>1, <1>5
      <3>2. /\ Flattens(g, ss, n) /\ Flattens(f, tt, n + 1)
            /\ \A i \in 1..n : ss[i] = tt[i]
        BY <1>1, <1>2, <2>1
      <3>3. \A i \in 1..n : g[i] = f[i]
        BY ONLY <3>1, <3>2, FlattensAgree, SMT
      <3> QED BY <3>1, <3>3
    <2>3. (n + 1) - 1 = n /\ n + 1 # 1
      BY <1>1, <1>5
    <2> QED BY <1>1, <1>2, <1>3, <2>1, <2>2, <2>3 DEF tt
  <1> QED BY <1>4, <1>5

(* Appending goes through concatenation.                                   *)
LEMMA ConcatAppend ==
  ASSUME NEW S, NEW s \in Seq(S), NEW t \in Seq(S), NEW e \in S
  PROVE  s \o Append(t, e) = Append(s \o t, e)
  <1>1. s \o t \in Seq(S) /\ <<e>> \in Seq(S)
    OBVIOUS
  <1>2. Append(t, e) = t \o <<e>> /\ Append(s \o t, e) = (s \o t) \o <<e>>
    BY <1>1, AppendIsConcat
  <1> QED BY <1>1, <1>2, ConcatAssociative

(* Concatenation is associative.                                           *)
LEMMA Associative ==
  ASSUME NEW T
  PROVE  \A a, b, c \in Seq(T) : (a \o b) \o c = a \o (b \o c)
  OBVIOUS

(* Flattening a concatenation concatenates what the two flatten to.        *)
LEMMA FlattenConcat ==
  ASSUME NEW T, NEW ss \in Seq(Seq(T)), NEW tt \in Seq(Seq(T))
  PROVE  FlattenSeq(ss \o tt) = FlattenSeq(ss) \o FlattenSeq(tt)
  <1> DEFINE Part(k) == SubSeq(tt, 1, k)
             U == {k \in Nat : k <= Len(tt) =>
                     FlattenSeq(ss \o Part(k)) = FlattenSeq(ss) \o FlattenSeq(Part(k))}
  <1>0. FlattenSeq(ss) \in Seq(T)
    BY FlattenType
  <1>1. 0 \in U
    <2>1. Part(0) = <<>>
      OBVIOUS
    <2>2. ss \o <<>> = ss /\ FlattenSeq(ss) \o <<>> = FlattenSeq(ss)
      BY <1>0, ConcatEmptySeq
    <2> QED BY <2>1, <2>2, FlattenEmpty
  <1>2. ASSUME NEW k \in Nat, k \in U PROVE k + 1 \in U
    <2> SUFFICES ASSUME k + 1 <= Len(tt)
                 PROVE  FlattenSeq(ss \o Part(k + 1)) = FlattenSeq(ss) \o FlattenSeq(Part(k + 1))
      OBVIOUS
    <2> DEFINE p == Part(k)
               s == tt[k + 1]
    <2>1. /\ p \in Seq(Seq(T)) /\ s \in Seq(T)
          /\ Part(k + 1) = Append(p, s)
      <3>1. k + 1 \in 1..Len(tt) /\ k \in 0..Len(tt)
        OBVIOUS
      <3>2. p \in Seq(Seq(T)) /\ Len(p) = k /\ \A i \in 1..k : p[i] = tt[i]
        BY <3>1
      <3>3. /\ Part(k + 1) \in Seq(Seq(T)) /\ Len(Part(k + 1)) = k + 1
            /\ \A i \in 1..(k + 1) : Part(k + 1)[i] = tt[i]
        BY <3>1
      <3>4. s \in Seq(T)
        BY <3>1, ElementOfSeq
      <3> HIDE DEF p, Part
      <3>5. /\ Append(p, s) \in Seq(Seq(T)) /\ Len(Append(p, s)) = k + 1
            /\ \A i \in 1..(k + 1) : Append(p, s)[i] = tt[i]
        BY <3>2, <3>4
      <3>6. Part(k + 1) = Append(p, s)
        BY <3>3, <3>5, SeqEqual
      <3> QED BY <3>2, <3>4, <3>6
    <2>2. FlattenSeq(ss \o p) = FlattenSeq(ss) \o FlattenSeq(p)
      BY <1>2
    <2> HIDE DEF p, s, Part
    <2>3. /\ FlattenSeq(Append(p, s)) = FlattenSeq(p) \o s
          /\ FlattenSeq(Append(ss \o p, s)) = FlattenSeq(ss \o p) \o s
      <3>1. ss \o p \in Seq(Seq(T))
        BY <2>1
      <3> QED BY <2>1, <3>1, FlattenAppend
    <2>4. ss \o Append(p, s) = Append(ss \o p, s)
      BY <2>1, ConcatAppend, SMTT(40)
    <2>5. FlattenSeq(p) \in Seq(T)
      BY <2>1, FlattenType
    <2>6. (FlattenSeq(ss) \o FlattenSeq(p)) \o s = FlattenSeq(ss) \o (FlattenSeq(p) \o s)
      <3>1. \A a, b, c \in Seq(T) : (a \o b) \o c = a \o (b \o c)
        BY ONLY Associative, SMTT(40)
      <3>2. FlattenSeq(ss) \in Seq(T) /\ FlattenSeq(p) \in Seq(T) /\ s \in Seq(T)
        BY <1>0, <2>1, <2>5
      <3> QED BY <3>1, <3>2, Zenon
    <2> QED BY <2>1, <2>2, <2>3, <2>4, <2>6
  <1> HIDE DEF U
  <1>3. Len(tt) \in U
    <2>1. Len(tt) \in Nat
      BY LenProperties
    <2> QED BY <1>1, <1>2, <2>1, Induct
  <1>4. Part(Len(tt)) = tt
    BY SubSeqFull
  <1>5. FlattenSeq(ss \o Part(Len(tt))) = FlattenSeq(ss) \o FlattenSeq(Part(Len(tt)))
    BY <1>3 DEF U
  <1> QED BY <1>4, <1>5

(* A sequence that has the elements of two is their concatenation.         *)
LEMMA ConcatIs ==
  ASSUME NEW T, NEW a \in Seq(T), NEW b \in Seq(T), NEW c \in Seq(T),
         Len(c) = Len(a) + Len(b),
         \A i \in 1..Len(c) : c[i] = IF i <= Len(a) THEN a[i] ELSE b[i - Len(a)]
  PROVE  c = a \o b
  <1>1. /\ a \o b \in Seq(T) /\ Len(a \o b) = Len(a) + Len(b)
        /\ \A i \in 1..Len(c) : (a \o b)[i] = IF i <= Len(a) THEN a[i] ELSE b[i - Len(a)]
    OBVIOUS
  <1> QED BY <1>1, SeqEqual

(* A single sequence flattens to itself.                                   *)
LEMMA FlattenOne ==
  ASSUME NEW T, NEW s \in Seq(T)
  PROVE  FlattenSeq(<<s>>) = s
  <1>1. <<s>> = Append(<<>>, s) /\ <<>> \in Seq(Seq(T)) /\ <<>> \o s = s
    OBVIOUS
  <1>2. FlattenSeq(Append(<<>>, s)) = FlattenSeq(<<>>) \o s
    BY <1>1, FlattenAppend
  <1> QED BY <1>1, <1>2, FlattenEmpty

(* The first sequence gives the first elements.                            *)
LEMMA FlattenHead ==
  ASSUME NEW T, NEW ss \in Seq(Seq(T)), ss # <<>>
  PROVE  FlattenSeq(ss) = Head(ss) \o FlattenSeq(Tail(ss))
  <1>1. /\ Head(ss) \in Seq(T) /\ Tail(ss) \in Seq(Seq(T))
        /\ <<Head(ss)>> \in Seq(Seq(T)) /\ ss = <<Head(ss)>> \o Tail(ss)
    OBVIOUS
  <1>2. FlattenSeq(<<Head(ss)>> \o Tail(ss)) = FlattenSeq(<<Head(ss)>>) \o FlattenSeq(Tail(ss))
    BY <1>1, FlattenConcat
  <1> QED BY <1>1, <1>2, FlattenOne

-----------------------------------------------------------------------------
(* What a selection from a sequence contains.                              *)

(* Each element of a sequence, alone, if it is selected.                   *)
Singles(os, kept) == [i \in 1..Len(os) |-> IF os[i] \in kept THEN <<os[i]>> ELSE <<>>]

(* One sequence of at most one element for each element of os.             *)
LEMMA SinglesType ==
  ASSUME NEW T, NEW os \in Seq(T), NEW kept
  PROVE  Singles(os, kept) \in Seq(Seq(T \cap kept)) /\ Len(Singles(os, kept)) = Len(os)
  <1>1. \A i \in 1..Len(os) : (IF os[i] \in kept THEN <<os[i]>> ELSE <<>>) \in Seq(T \cap kept)
    <2> SUFFICES ASSUME NEW i \in 1..Len(os)
                 PROVE  (IF os[i] \in kept THEN <<os[i]>> ELSE <<>>) \in Seq(T \cap kept)
      OBVIOUS
    <2>1. os[i] \in T
      BY ElementOfSeq
    <2>2. CASE os[i] \in kept
      <3>1. os[i] \in T \cap kept
        BY <2>1, <2>2
      <3> QED BY <2>2, <3>1
    <2>3. CASE os[i] \notin kept
      BY <2>3
    <2> QED BY <2>2, <2>3
  <1>2. Len(os) \in Nat
    OBVIOUS
  <1> QED BY <1>1, <1>2 DEF Singles

(* A selection is the concatenation of those.                              *)
LEMMA AmongIs ==
  \A os, kept : Among(os, kept) = FlattenSeq(Singles(os, kept))
  BY DEF Among, Singles

(* A selection from a sequence is a sequence over its elements and over    *)
(* the set selected.                                                       *)
LEMMA AmongType ==
  ASSUME NEW T, NEW os \in Seq(T), NEW kept
  PROVE  Among(os, kept) \in Seq(T \cap kept) /\ Among(os, kept) \in Seq(T)
  <1>1. Among(os, kept) \in Seq(T \cap kept)
    BY SinglesType, FlattenType, AmongIs
  <1>2. \A s \in Seq(T \cap kept) : s \in Seq(T)
    <2> SUFFICES ASSUME NEW s \in Seq(T \cap kept) PROVE s \in Seq(T)
      OBVIOUS
    <2>1. \A i \in 1..Len(s) : s[i] \in T \cap kept
      BY ElementOfSeq
    <2>2. s = [i \in 1..Len(s) |-> s[i]] /\ Len(s) \in Nat
      OBVIOUS
    <2>3. \A i \in 1..Len(s) : s[i] \in T
      BY <2>1
    <2> QED BY <2>2, <2>3
  <1> QED BY <1>1, <1>2

(* Each element selected is one of the sequence and of the set.            *)
LEMMA AmongElements ==
  ASSUME NEW T, NEW os \in Seq(T), NEW kept
  PROVE  \A i \in 1..Len(Among(os, kept)) : Among(os, kept)[i] \in T /\ Among(os, kept)[i] \in kept
  <1>1. Among(os, kept) \in Seq(T \cap kept)
    BY AmongType
  <1> QED BY <1>1, ElementOfSeq

(* Nothing is selected from nothing.                                       *)
LEMMA AmongEmpty ==
  \A kept : Among(<<>>, kept) = <<>>
  <1> SUFFICES ASSUME NEW kept PROVE Among(<<>>, kept) = <<>>
    OBVIOUS
  <1>1. Singles(<<>>, kept) = <<>>
    BY DEF Singles
  <1> QED BY <1>1, AmongIs, FlattenEmpty

(* Selecting from a sequence with one more element.                        *)
LEMMA AmongAppend ==
  ASSUME NEW T, NEW os \in Seq(T), NEW e \in T, NEW kept
  PROVE  Among(Append(os, e), kept) =
           IF e \in kept THEN Append(Among(os, kept), e) ELSE Among(os, kept)
  <1> DEFINE x == IF e \in kept THEN <<e>> ELSE <<>>
             ss == Singles(os, kept)
             tt == Singles(Append(os, e), kept)
  <1>1. /\ ss \in Seq(Seq(T \cap kept)) /\ tt \in Seq(Seq(T \cap kept))
        /\ Len(ss) = Len(os) /\ Len(tt) = Len(os) + 1
    <2>1. Append(os, e) \in Seq(T) /\ Len(Append(os, e)) = Len(os) + 1
      OBVIOUS
    <2> QED BY <2>1, SinglesType
  <1>2. x \in Seq(T \cap kept)
    <2>1. CASE e \in kept
      <3>1. e \in T \cap kept
        BY <2>1
      <3> QED BY <2>1, <3>1
    <2>2. CASE e \notin kept
      BY <2>2
    <2> QED BY <2>1, <2>2
  <1>3. tt = Append(ss, x)
    <2>1. \A i \in 1..Len(os) : tt[i] = ss[i]
      BY DEF Singles
    <2>2. tt[Len(os) + 1] = x
      BY DEF Singles
    <2>3. Len(os) \in Nat
      OBVIOUS
    <2> HIDE DEF tt, ss, x
    <2>4. /\ Append(ss, x) \in Seq(Seq(T \cap kept)) /\ Len(Append(ss, x)) = Len(os) + 1
          /\ \A i \in 1..Len(os) : Append(ss, x)[i] = ss[i]
          /\ Append(ss, x)[Len(os) + 1] = x
      BY <1>1, <1>2, <2>3
    <2>5. \A i \in 1..Len(tt) : tt[i] = Append(ss, x)[i]
      BY <1>1, <2>1, <2>2, <2>3, <2>4
    <2> QED BY <1>1, <2>4, <2>5, SeqEqual
  <1>4. FlattenSeq(tt) = FlattenSeq(ss) \o x
    <2> HIDE DEF tt, ss, x
    <2> QED BY <1>1, <1>2, <1>3, FlattenAppend
  <1>5. Among(os, kept) \in Seq(T \cap kept)
    BY AmongType
  <1>6. Among(os, kept) = FlattenSeq(ss) /\ Among(Append(os, e), kept) = FlattenSeq(tt)
    BY AmongIs
  <1> HIDE DEF tt, ss
  <1>7. CASE e \in kept
    <2>1. e \in T \cap kept
      BY <1>7
    <2>2. Among(os, kept) \o <<e>> = Append(Among(os, kept), e)
      BY <1>5, <2>1, AppendIsConcat
    <2> QED BY <1>4, <1>6, <1>7, <2>2
  <1>8. CASE e \notin kept
    <2>1. Among(os, kept) \o <<>> = Among(os, kept)
      BY <1>5, ConcatEmptySeq
    <2> QED BY <1>4, <1>6, <1>8, <2>1
  <1> QED BY <1>7, <1>8

(* Selecting from a concatenation.                                         *)
LEMMA AmongConcat ==
  ASSUME NEW T, NEW os \in Seq(T), NEW ps \in Seq(T), NEW kept
  PROVE  Among(os \o ps, kept) = Among(os, kept) \o Among(ps, kept)
  <1> DEFINE ss == Singles(os, kept)
             tt == Singles(ps, kept)
             uu == Singles(os \o ps, kept)
  <1>1. /\ ss \in Seq(Seq(T \cap kept)) /\ tt \in Seq(Seq(T \cap kept))
        /\ uu \in Seq(Seq(T \cap kept))
        /\ Len(ss) = Len(os) /\ Len(tt) = Len(ps) /\ Len(uu) = Len(os) + Len(ps)
    <2>1. os \o ps \in Seq(T) /\ Len(os \o ps) = Len(os) + Len(ps)
      OBVIOUS
    <2> QED BY <2>1, SinglesType
  <1>2. uu = ss \o tt
    <2>1. \A i \in 1..Len(uu) : uu[i] = IF i <= Len(ss) THEN ss[i] ELSE tt[i - Len(ss)]
      <3>1. \A i \in 1..(Len(os) + Len(ps)) :
              (os \o ps)[i] = IF i <= Len(os) THEN os[i] ELSE ps[i - Len(os)]
        OBVIOUS
      <3>2. Len(os) \in Nat /\ Len(ps) \in Nat /\ Len(os \o ps) = Len(os) + Len(ps)
        OBVIOUS
      <3> DEFINE e(x) == IF x \in kept THEN <<x>> ELSE <<>>
      <3>3. /\ \A i \in 1..Len(os) : ss[i] = e(os[i])
            /\ \A i \in 1..Len(ps) : tt[i] = e(ps[i])
            /\ \A i \in 1..(Len(os) + Len(ps)) : uu[i] = e((os \o ps)[i])
        BY <3>2 DEF Singles
      <3> HIDE DEF ss, tt, uu, e
      <3> SUFFICES ASSUME NEW i \in 1..Len(uu)
                   PROVE  uu[i] = IF i <= Len(ss) THEN ss[i] ELSE tt[i - Len(ss)]
        OBVIOUS
      <3>4. CASE i <= Len(os)
        <4>1. i \in 1..Len(os) /\ i \in 1..(Len(os) + Len(ps)) /\ i <= Len(ss)
          BY <1>1, <3>2, <3>4
        <4>2. (os \o ps)[i] = os[i] /\ uu[i] = e((os \o ps)[i]) /\ ss[i] = e(os[i])
          BY <3>1, <3>3, <3>4, <4>1
        <4> QED BY <4>1, <4>2
      <3>5. CASE ~(i <= Len(os))
        <4>1. i - Len(os) \in 1..Len(ps)
          BY <1>1, <3>2, <3>5
        <4> QED BY <1>1, <3>1, <3>2, <3>3, <3>5, <4>1
      <3> QED BY <3>4, <3>5
    <2>2. Len(uu) = Len(ss) + Len(tt)
      BY <1>1
    <2> HIDE DEF ss, tt, uu
    <2> QED BY <1>1, <2>1, <2>2, ConcatIs
  <1> HIDE DEF ss, tt, uu
  <1>3. FlattenSeq(ss \o tt) = FlattenSeq(ss) \o FlattenSeq(tt)
    BY <1>1, FlattenConcat
  <1> QED BY <1>2, <1>3, AmongIs DEF ss, tt, uu

(* A selection of nothing, and of everything.                              *)
LEMMA AmongNone ==
  ASSUME NEW T, NEW kept, NEW os \in Seq(T), \A i \in 1..Len(os) : os[i] \notin kept
  PROVE  Among(os, kept) = <<>>
  <1> DEFINE U == {s \in Seq(T) : (\A i \in 1..Len(s) : s[i] \notin kept) => Among(s, kept) = <<>>}
  <1>2. <<>> \in U
    BY AmongEmpty
  <1>3. ASSUME NEW s \in Seq(T), NEW e \in T, s \in U PROVE Append(s, e) \in U
    <2>1. ASSUME \A i \in 1..Len(Append(s, e)) : Append(s, e)[i] \notin kept
          PROVE  Among(Append(s, e), kept) = <<>>
      <3>1. /\ Len(Append(s, e)) = Len(s) + 1 /\ Len(s) \in Nat /\ Append(s, e)[Len(s) + 1] = e
            /\ \A i \in 1..Len(s) : Append(s, e)[i] = s[i]
        OBVIOUS
      <3>2. e \notin kept /\ \A i \in 1..Len(s) : s[i] \notin kept
        BY <2>1, <3>1
      <3>3. Among(s, kept) = <<>>
        BY <1>3, <3>2
      <3> QED BY <3>2, <3>3, AmongAppend
    <2>2. Append(s, e) \in Seq(T)
      OBVIOUS
    <2> QED BY <2>1, <2>2
  <1> HIDE DEF U
  <1>4. os \in U
    BY <1>2, <1>3, SequenceInduct
  <1> QED BY <1>4 DEF U

(* A selection of everything is the sequence itself.                       *)
LEMMA AmongAll ==
  ASSUME NEW T, NEW kept, NEW os \in Seq(T), \A i \in 1..Len(os) : os[i] \in kept
  PROVE  Among(os, kept) = os
  <1> DEFINE U == {s \in Seq(T) : (\A i \in 1..Len(s) : s[i] \in kept) => Among(s, kept) = s}
  <1>2. <<>> \in U
    BY AmongEmpty
  <1>3. ASSUME NEW s \in Seq(T), NEW e \in T, s \in U PROVE Append(s, e) \in U
    <2>1. ASSUME \A i \in 1..Len(Append(s, e)) : Append(s, e)[i] \in kept
          PROVE  Among(Append(s, e), kept) = Append(s, e)
      <3>1. /\ Len(Append(s, e)) = Len(s) + 1 /\ Len(s) \in Nat /\ Append(s, e)[Len(s) + 1] = e
            /\ \A i \in 1..Len(s) : Append(s, e)[i] = s[i]
        OBVIOUS
      <3>2. e \in kept /\ \A i \in 1..Len(s) : s[i] \in kept
        BY <2>1, <3>1
      <3>3. Among(s, kept) = s
        BY <1>3, <3>2
      <3> QED BY <3>2, <3>3, AmongAppend
    <2>2. Append(s, e) \in Seq(T)
      OBVIOUS
    <2> QED BY <2>1, <2>2
  <1> HIDE DEF U
  <1>4. os \in U
    BY <1>2, <1>3, SequenceInduct
  <1> QED BY <1>4 DEF U

(* What is in a sequence with one element more, and whether it is there    *)
(* only once.                                                              *)
LEMMA AppendElements ==
  ASSUME NEW T, NEW s \in Seq(T), NEW e \in T
  PROVE  /\ Append(s, e) \in Seq(T) /\ Len(Append(s, e)) = Len(s) + 1
         /\ ToSet(Append(s, e)) = ToSet(s) \cup {e}
         /\ IsInjective(s) /\ e \notin ToSet(s) => IsInjective(Append(s, e))
         /\ IsInjective(Append(s, e)) => IsInjective(s) /\ e \notin ToSet(s)
  <1> DEFINE r == Append(s, e)
  <1>1. /\ r \in Seq(T) /\ Len(s) \in Nat /\ Len(r) = Len(s) + 1
        /\ r[Len(s) + 1] = e
        /\ \A i \in 1..Len(s) : r[i] = s[i]
        /\ DOMAIN s = 1..Len(s) /\ DOMAIN r = 1..(Len(s) + 1)
    OBVIOUS
  <1>2. /\ 1..(Len(s) + 1) = (1..Len(s)) \cup {Len(s) + 1}
        /\ Len(s) + 1 \notin 1..Len(s)
    BY <1>1
  <1> HIDE DEF r
  <1>3. ToSet(r) = ToSet(s) \cup {e}
    BY <1>1, <1>2 DEF ToSet
  <1>4. ASSUME IsInjective(s), e \notin ToSet(s) PROVE IsInjective(r)
    BY <1>1, <1>2, <1>4 DEF IsInjective, ToSet
  <1>5. ASSUME IsInjective(r) PROVE IsInjective(s) /\ e \notin ToSet(s)
    BY <1>1, <1>2, <1>5 DEF IsInjective, ToSet
  <1> QED BY <1>1, <1>3, <1>4, <1>5 DEF r

(* A selection has the elements selected, each once if each was there once, *)
(* and it is not longer.                                                   *)
LEMMA AmongSet ==
  ASSUME NEW T, NEW os \in Seq(T), NEW kept
  PROVE  /\ ToSet(Among(os, kept)) = ToSet(os) \cap kept
         /\ IsInjective(os) => IsInjective(Among(os, kept))
         /\ Len(Among(os, kept)) <= Len(os)
  <1> DEFINE Holds(s, a) == /\ ToSet(a) = ToSet(s) \cap kept
                            /\ IsInjective(s) => IsInjective(a)
                            /\ Len(a) <= Len(s)
             U == {s \in Seq(T) : Holds(s, Among(s, kept))}
  <1>1. <<>> \in U
    <2>1. Among(<<>>, kept) = <<>> /\ <<>> \in Seq(T)
      BY AmongEmpty
    <2> QED BY <2>1 DEF ToSet
  <1>2. ASSUME NEW s \in Seq(T), NEW e \in T, s \in U PROVE Append(s, e) \in U
    <2> PICK a \in Seq(T) : a = Among(s, kept)
      BY AmongType
    <2>1. Holds(s, a) /\ Append(s, e) \in Seq(T)
      BY <1>2
    <2>2. Len(s) \in Nat /\ Len(a) \in Nat
      OBVIOUS
    <2> HIDE DEF U
    <2>3. CASE e \in kept
      <3>1. Among(Append(s, e), kept) = Append(a, e)
        BY <2>3, AmongAppend
      <3>2. /\ Len(Append(s, e)) = Len(s) + 1 /\ Len(Append(a, e)) = Len(a) + 1
            /\ ToSet(Append(s, e)) = ToSet(s) \cup {e} /\ ToSet(Append(a, e)) = ToSet(a) \cup {e}
        BY AppendElements
      <3>3. IsInjective(Append(s, e)) => IsInjective(s) /\ e \notin ToSet(s)
        BY AppendElements
      <3>4. IsInjective(a) /\ e \notin ToSet(a) => IsInjective(Append(a, e))
        BY AppendElements
      <3>5. Holds(Append(s, e), Append(a, e))
        BY <2>1, <2>2, <2>3, <3>2, <3>3, <3>4
      <3> QED BY <2>1, <3>1, <3>5 DEF U
    <2>4. CASE e \notin kept
      <3>1. Among(Append(s, e), kept) = a
        BY <2>4, AmongAppend
      <3>2. /\ Len(Append(s, e)) = Len(s) + 1 /\ ToSet(Append(s, e)) = ToSet(s) \cup {e}
            /\ (IsInjective(Append(s, e)) => IsInjective(s))
        BY AppendElements
      <3>3. Holds(Append(s, e), a)
        BY <2>1, <2>2, <2>4, <3>2
      <3> QED BY <2>1, <3>1, <3>3 DEF U
    <2> QED BY <2>3, <2>4
  <1> HIDE DEF U
  <1>3. os \in U
    BY <1>1, <1>2, SequenceInduct
  <1> QED BY <1>3 DEF U
=============================================================================
