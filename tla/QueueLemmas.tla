----------------------------- MODULE QueueLemmas -----------------------------
(***************************************************************************)
(* Facts about the List<Thread*> queues of threads/list.h, as sequences:   *)
(* what List::Append and List::Remove do to the set of listed threads and  *)
(* to the absence of repetitions.  Used by the proofs about the ready list *)
(* and about the queues of the synchronization objects.  With them, what   *)
(* BitMap::Find relies on: a set of numbers has a least one.               *)
(***************************************************************************)
EXTENDS Integers, Sequences, SequenceTheorems, WellFoundedInduction, TLAPS

(* An element is listed in a sequence.                                     *)
Listed(list, t) == \E i \in 1..Len(list) : list[i] = t

(* No entry of the sequence occurs twice.                                  *)
Distinct(list) == \A i, j \in 1..Len(list) : list[i] = list[j] => i = j

(* List::Append adds the element it is given and no other, and keeps the   *)
(* entries distinct when that element was not listed.                      *)
LEMMA AppendListed ==
  ASSUME NEW S, NEW list \in Seq(S), NEW t \in S
  PROVE  /\ Append(list, t) \in Seq(S)
         /\ \A u \in S : Listed(Append(list, t), u) <=> (Listed(list, u) \/ u = t)
         /\ Distinct(list) /\ ~ Listed(list, t) => Distinct(Append(list, t))
  <1>1. /\ Append(list, t) \in Seq(S)
        /\ Len(Append(list, t)) = Len(list) + 1
        /\ Len(list) \in Nat
        /\ \A i \in 1..Len(list) : Append(list, t)[i] = list[i]
        /\ Append(list, t)[Len(list) + 1] = t
    OBVIOUS
  <1>2. ASSUME NEW u \in S
        PROVE  Listed(Append(list, t), u) <=> (Listed(list, u) \/ u = t)
    <2>1. ASSUME Listed(Append(list, t), u)
          PROVE  Listed(list, u) \/ u = t
      BY <1>1, <2>1 DEF Listed
    <2>2. ASSUME Listed(list, u) PROVE Listed(Append(list, t), u)
      <3>1. PICK i \in 1..Len(list) : list[i] = u
        BY <2>2 DEF Listed
      <3>2. i \in 1..Len(Append(list, t)) /\ Append(list, t)[i] = u
        BY <1>1, <3>1
      <3>3. QED BY <3>2 DEF Listed
    <2>3. Listed(Append(list, t), t)
      <3>1. Len(list) + 1 \in 1..Len(Append(list, t))
        BY <1>1
      <3>2. QED BY <1>1, <3>1 DEF Listed
    <2>4. QED BY <2>1, <2>2, <2>3
  <1>3. ASSUME Distinct(list), ~ Listed(list, t)
        PROVE  Distinct(Append(list, t))
    BY <1>1, <1>3 DEF Listed, Distinct
  <1>4. QED BY <1>1, <1>2, <1>3

(* List::Remove, on a list without repetitions, removes its first element  *)
(* and no other.                                                           *)
LEMMA RemoveListed ==
  ASSUME NEW S, NEW list \in Seq(S), list # <<>>, Distinct(list)
  PROVE  /\ Head(list) \in S
         /\ Listed(list, Head(list))
         /\ Tail(list) \in Seq(S)
         /\ Distinct(Tail(list))
         /\ \A u \in S : Listed(Tail(list), u) <=> (Listed(list, u) /\ u # Head(list))
  <1>1. /\ Len(list) \in Nat \ {0}
        /\ Head(list) = list[1]
        /\ Head(list) \in S
        /\ Tail(list) \in Seq(S)
        /\ Len(Tail(list)) = Len(list) - 1
        /\ \A i \in 1..Len(list) - 1 : Tail(list)[i] = list[i + 1]
    OBVIOUS
  <1>2. Listed(list, Head(list))
    BY <1>1 DEF Listed
  <1>3. Distinct(Tail(list))
    <2> SUFFICES ASSUME NEW i \in 1..Len(Tail(list)), NEW j \in 1..Len(Tail(list)),
                        Tail(list)[i] = Tail(list)[j]
                 PROVE  i = j
      BY DEF Distinct
    <2>1. i + 1 \in 1..Len(list) /\ j + 1 \in 1..Len(list)
      BY <1>1
    <2>2. list[i + 1] = list[j + 1]
      BY <1>1
    <2>3. QED BY <2>1, <2>2 DEF Distinct
  <1>4. ASSUME NEW u \in S
        PROVE  Listed(Tail(list), u) <=> (Listed(list, u) /\ u # Head(list))
    <2>1. ASSUME Listed(Tail(list), u)
          PROVE  Listed(list, u) /\ u # Head(list)
      <3>1. PICK i \in 1..Len(Tail(list)) : Tail(list)[i] = u
        BY <2>1 DEF Listed
      <3>2. i + 1 \in 1..Len(list) /\ list[i + 1] = u /\ i + 1 # 1
        BY <1>1, <3>1
      <3>3. 1 \in 1..Len(list)
        BY <1>1
      <3>4. QED BY <1>1, <3>2, <3>3 DEF Listed, Distinct
    <2>2. ASSUME Listed(list, u), u # Head(list)
          PROVE  Listed(Tail(list), u)
      <3>1. PICK i \in 1..Len(list) : list[i] = u
        BY <2>2 DEF Listed
      <3>2. i # 1
        BY <1>1, <2>2, <3>1
      <3>3. i - 1 \in 1..Len(Tail(list)) /\ Tail(list)[i - 1] = u
        BY <1>1, <3>1, <3>2
      <3>4. QED BY <3>3 DEF Listed
    <2>3. QED BY <2>1, <2>2
  <1>5. QED BY <1>1, <1>2, <1>3, <1>4

(* Appending behind the second of two queues appends behind both.          *)
LEMMA ConcatAppend ==
  ASSUME NEW S, NEW s \in Seq(S), NEW t \in Seq(S), NEW x \in S
  PROVE  s \o Append(t, x) = Append(s \o t, x)
  <1>1. /\ Append(t, x) = t \o <<x>> /\ <<x>> \in Seq(S) /\ s \o t \in Seq(S)
    BY AppendIsConcat, ConcatProperties
  <1>2. Append(s \o t, x) = (s \o t) \o <<x>>
    BY <1>1, AppendIsConcat
  <1>3. QED BY <1>1, <1>2, ConcatAssociative

(* The first element and the rest make up the queue.                       *)
LEMMA HeadThenTail ==
  ASSUME NEW S, NEW t \in Seq(S), t # <<>>
  PROVE  /\ Head(t) \in S /\ Tail(t) \in Seq(S) /\ <<Head(t)>> \in Seq(S)
         /\ <<Head(t)>> \o Tail(t) = t
  <1>1. /\ Head(t) \in S /\ Tail(t) \in Seq(S) /\ Len(t) \in Nat \ {0}
        /\ Head(t) = t[1] /\ Tail(t) = SubSeq(t, 2, Len(t))
    BY HeadTailProperties, TailIsSubSeq, EmptySeq
  <1>2. SubSeq(t, 1, Len(t)) = t
    BY SubSeqFull
  <1>3. 1 \in 1..Len(t) /\ Len(t) \in 1..Len(t)
    BY <1>1
  <1>4. SubSeq(t, 1, Len(t)) = <<t[1]>> \o SubSeq(t, 1 + 1, Len(t))
    BY <1>3, SubSeqRecursiveFirst
  <1>5. <<Head(t)>> \in Seq(S)
    BY <1>1
  <1>6. QED BY <1>1, <1>2, <1>4, <1>5

(* Moving the first element of the second queue behind the first queue     *)
(* leaves the order of the elements in both together as it was.            *)
LEMMA MoveHead ==
  ASSUME NEW S, NEW s \in Seq(S), NEW t \in Seq(S), t # <<>>
  PROVE  Append(s, Head(t)) \o Tail(t) = s \o t
  <1>1. /\ Head(t) \in S /\ Tail(t) \in Seq(S) /\ <<Head(t)>> \in Seq(S)
        /\ <<Head(t)>> \o Tail(t) = t
    BY HeadThenTail
  <1>2. Append(s, Head(t)) = s \o <<Head(t)>>
    BY <1>1, AppendIsConcat
  <1>3. (s \o <<Head(t)>>) \o Tail(t) = s \o (<<Head(t)>> \o Tail(t))
    BY <1>1, ConcatAssociative
  <1>4. QED BY <1>1, <1>2, <1>3

(* The first clear bit BitMap::Find looks for exists: a set of natural     *)
(* numbers that is not empty has a least element.                          *)
LEMMA LeastNatural ==
  ASSUME NEW T, T \subseteq Nat, T # {}
  PROVE  \E x \in T : \A y \in T : x <= y
  <1>1. PICK x \in T : \A y \in T : ~(<<y, x>> \in OpToRel(<, Nat))
    BY NatLessThanWellFounded, WFMin
  <1>2. \A y \in T : ~(y < x)
    BY <1>1 DEF OpToRel
  <1>3. QED BY <1>2

(* What holds at first and is kept by each of n turns holds after them.    *)
LEMMA LoopInvariant ==
  ASSUME NEW n \in Nat, NEW S, 0 \in S, \A i \in 1..n : i - 1 \in S => i \in S
  PROVE  0..n \subseteq S
  <1> DEFINE Bad == (0..n) \ S
  <1>1. SUFFICES ASSUME Bad # {} PROVE FALSE
    OBVIOUS
  <1>2. Bad \subseteq Nat
    OBVIOUS
  <1>3. PICK m \in Bad : \A k \in Bad : m <= k
    BY <1>1, <1>2, LeastNatural
  <1>4. m \in 1..n /\ m \notin S
    OBVIOUS
  <1>5. m - 1 \notin Bad
    BY <1>3, <1>4
  <1>6. m - 1 \in 0..n
    BY <1>4
  <1>7. QED BY <1>4, <1>5, <1>6

(* A loop of n turns over a value of X, first a, has a run: the function   *)
(* of its values after each turn.                                          *)
HasRun(n, X, a, turn) ==
  \E g \in [0..n -> X] :
    \A i \in 0..n : g[i] = IF i = 0 THEN a ELSE turn[<<i, g[i - 1]>>]

(* Every such loop has a run, so that a recursive function exists.         *)
LEMMA Iteration ==
  ASSUME NEW n \in Nat, NEW X, NEW a \in X, NEW turn \in [(1..n) \X X -> X]
  PROVE  HasRun(n, X, a, turn)
  <1> DEFINE Upto(m, g) ==
        \A i \in 0..m : g[i] = IF i = 0 THEN a ELSE turn[<<i, g[i - 1]>>]
  <1> DEFINE Bad == {m \in 0..n : ~ \E g \in [0..m -> X] : Upto(m, g)}
  <1>1. SUFFICES ASSUME Bad # {} PROVE FALSE
    <2>1. n \in 0..n
      OBVIOUS
    <2>2. QED BY <1>1, <2>1 DEF HasRun
  <1>2. PICK m \in Bad : \A k \in Bad : m <= k
    <2>1. Bad \subseteq Nat
      OBVIOUS
    <2>2. QED BY <1>1, <2>1, LeastNatural
  <1>3. m # 0
    <2>1. [i \in 0..0 |-> a] \in [0..0 -> X] /\ Upto(0, [i \in 0..0 |-> a])
      OBVIOUS
    <2>2. 0 \notin Bad
      BY <2>1
    <2>3. QED BY <2>2
  <1>4. m - 1 \in 0..n /\ m \in 1..n /\ m - 1 \notin Bad
    <2>1. m \in 0..n
      OBVIOUS
    <2> HIDE DEF Bad
    <2>2. QED BY <1>2, <1>3, <2>1
  <1>5. PICK g \in [0..(m - 1) -> X] : Upto(m - 1, g)
    BY <1>4
  <1> DEFINE h == [i \in 0..m |-> IF i = m THEN turn[<<m, g[m - 1]>>] ELSE g[i]]
  <1>6. m - 1 \in 0..(m - 1) /\ \A i \in 0..m : i # m => i \in 0..(m - 1)
    BY <1>4
  <1>7. g[m - 1] \in X /\ turn[<<m, g[m - 1]>>] \in X
    BY <1>4, <1>5, <1>6
  <1>8. h \in [0..m -> X]
    BY <1>5, <1>6, <1>7
  <1>9. Upto(m, h)
    <2> SUFFICES ASSUME NEW i \in 0..m
                 PROVE  h[i] = IF i = 0 THEN a ELSE turn[<<i, h[i - 1]>>]
      OBVIOUS
    <2>1. CASE i = m
      BY <1>4, <1>6, <2>1
    <2>2. CASE i # m
      <3>1. i \in 0..(m - 1) /\ h[i] = g[i]
        BY <1>6, <2>2
      <3>2. i # 0 => i - 1 \in 0..m /\ i - 1 # m /\ h[i - 1] = g[i - 1]
        BY <1>4, <3>1
      <3>3. QED BY <1>5, <3>1, <3>2
    <2>3. QED BY <2>1, <2>2
  <1>10. QED BY <1>2, <1>8, <1>9
=============================================================================
