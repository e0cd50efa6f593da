--------------------------- MODULE MsgQueueProofs ---------------------------
(***************************************************************************)
(* What msg_queue_remove leaves, for queues of any length.                 *)
(***************************************************************************)
EXTENDS MsgQueue, WellFoundedInduction, TLAPS

(* Induction on the natural numbers, as the existence of a least one. *)
LEMMA Least ==
    ASSUME NEW T \in SUBSET Nat, T # {}
    PROVE  \E n \in T : \A m \in T : m >= n
<1>1. PICK n \in T : \A m \in T : ~(<<m, n>> \in OpToRel(<, Nat))
  BY WFMin, NatLessThanWellFounded, Zenon
<1>2. \A m \in T : ~(m < n)
  BY <1>1 DEF OpToRel
<1> QED BY <1>2

(* Removing messages leaves a queue of messages. *)
LEMMA WithoutType ==
    ASSUME NEW S, NEW queue \in Seq(S), NEW removed
    PROVE  Without(queue, removed) \in Seq(S)
<1> DEFINE G(h, n) == IF n = 0 THEN <<>>
                      ELSE IF queue[n] \in removed THEN h[n - 1]
                      ELSE Append(h[n - 1], queue[n])
<1> DEFINE Is(h, n) == h = [i \in 0 .. n |-> G(h, i)]
<1> DEFINE left == CHOOSE h : Is(h, Len(queue))
<1>1. Without(queue, removed) = left[Len(queue)]
  BY DEF Without
<1>2. \A n \in Nat : \E h : Is(h, n)
  <2> DEFINE T == {n \in Nat : ~\E h : Is(h, n)}
  <2> SUFFICES ASSUME T # {} PROVE FALSE
    OBVIOUS
  <2>1. PICK n \in T : \A m \in T : m >= n
    <3> HIDE DEF Is
    <3> QED BY Least
  <2>2. n # 0
    <3> DEFINE h0 == [i \in 0 .. 0 |-> <<>>]
    <3>1. Is(h0, 0)
      OBVIOUS
    <3> QED BY <3>1, <2>1
  <2>3. n - 1 \in Nat /\ n - 1 \notin T
    <3> HIDE DEF Is
    <3>1. n \in Nat /\ n - 1 \in Nat /\ ~(n - 1 >= n)
      BY <2>2
    <3> HIDE DEF T
    <3> QED BY <2>1, <3>1
  <2>4. PICK h : Is(h, n - 1)
    BY <2>3
  <2> DEFINE h1 == [i \in 0 .. n |-> IF i = n THEN G(h, n) ELSE h[i]]
  <2>5. \A i \in 0 .. n : h1[i] = G(h1, i)
    <3> TAKE i \in 0 .. n
    <3>1. i - 1 \in 0 .. n - 1 => h1[i - 1] = h[i - 1]
      BY <2>3
    <3>2. G(h1, i) = G(h, i)
      BY <3>1
    <3>3. i # n => h[i] = G(h, i)
      <4>1. i # n => i \in 0 .. n - 1
        BY <2>3
      <4> QED BY <4>1, <2>4
    <3> HIDE DEF G
    <3> QED BY <3>2, <3>3
  <2>6. Is(h1, n)
    <3> HIDE DEF G
    <3> QED BY <2>5
  <2> QED BY <2>1, <2>6
<1>3. Is(left, Len(queue))
  <2> HIDE DEF Is
  <2>1. Len(queue) \in Nat
    OBVIOUS
  <2>2. \E h : Is(h, Len(queue))
    BY <1>2, <2>1
  <2> QED BY <2>2, Zenon
<1>4. \A n \in 0 .. Len(queue) : left[n] \in Seq(S)
  <2> HIDE DEF left
  <2> DEFINE T == {n \in 0 .. Len(queue) : left[n] \notin Seq(S)}
  <2> SUFFICES ASSUME T # {} PROVE FALSE
    OBVIOUS
  <2>0. T \in SUBSET Nat
    OBVIOUS
  <2>1. PICK n \in T : \A m \in T : m >= n
    BY <2>0, Least
  <2>2. left[n] = G(left, n)
    BY <1>3
  <2>3. n # 0
    <3>1. <<>> \in Seq(S)
      OBVIOUS
    <3> QED BY <2>1, <2>2, <3>1
  <2>4. left[n - 1] \in Seq(S) /\ queue[n] \in S
    BY <2>1, <2>3
  <2>5. Append(left[n - 1], queue[n]) \in Seq(S)
    BY <2>4
  <2> QED BY <2>1, <2>2, <2>3, <2>4, <2>5
<1> QED
  <2> HIDE DEF left
  <2> QED BY <1>1, <1>4
=============================================================================
