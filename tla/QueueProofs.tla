---------------------------- MODULE QueueProofs -----------------------------
(***************************************************************************)
(* Proofs about the queues of dynamicQ.c and sleepQ.c, and the lists of    *)
(* picoro.c.                                                               *)
(*                                                                         *)
(* DynamicQueue: it is a first-in first-out queue, and a filter returns    *)
(* the items that pass, in their order, for every set of items and every   *)
(* number of them.                                                         *)
(*                                                                         *)
(* SleepQ: the lists of picoro.c are sequences, and a coroutine's context  *)
(* tells which one it is on, where (Holds); so resumable() is right, the   *)
(* running list is a stack of calls, and with the queue behind the one     *)
(* that is being woken (SleepInv) coroutines wake in the order they went   *)
(* to sleep.                                                               *)
(***************************************************************************)
EXTENDS DynamicQueue, SleepQ, TableLemmas, SequenceTheorems

(* Part of a sequence *)

\* If the items that are in P come first, they are what remains.
LEMMA AmongPrefix ==
  ASSUME NEW T, NEW s \in Seq(T), NEW P, NEW m \in 0..Len(s),
         \A i \in 1..Len(s) : s[i] \in P <=> i <= m
  PROVE  Among(s, P) = [i \in 1..m |-> s[i]]
<1> DEFINE n == Len(s)
           Up(i) == [j \in 1..i |-> s[j]]
           Bound(i) == IF i <= m THEN i ELSE m
<1>1. n \in Nat /\ m \in Nat /\ m <= n /\ \A i \in 1..n : s[i] \in T
  OBVIOUS
<1>2. PICK k : /\ DOMAIN k = 0..n /\ k[0] = <<>>
               /\ \A i \in 1..n : k[i] = IF s[i] \in P THEN Append(k[i - 1], s[i])
                                         ELSE k[i - 1]
               /\ Among(s, P) = k[n]
  BY <1>1, AmongIs
<1>3. ASSUME NEW i \in 1..n PROVE Append(Up(i - 1), s[i]) = Up(i)
  <2>1. Up(i - 1) \in Seq(T) /\ Len(Up(i - 1)) = i - 1
    BY <1>1
  <2>2. /\ Append(Up(i - 1), s[i]) \in Seq(T)
        /\ Len(Append(Up(i - 1), s[i])) = i
        /\ \A j \in 1..i : Append(Up(i - 1), s[i])[j] = s[j]
    BY <1>1, <2>1
  <2>3. Up(i) \in Seq(T) /\ Len(Up(i)) = i /\ \A j \in 1..i : Up(i)[j] = s[j]
    BY <1>1
  <2> DEFINE a == Append(Up(i - 1), s[i])
             b == Up(i)
  <2>4. a \in Seq(T) /\ b \in Seq(T) /\ Len(a) = Len(b)
        /\ \A j \in 1..Len(a) : a[j] = b[j]
    BY <2>2, <2>3
  <2> HIDE DEF a, b
  <2>5. a = b
    BY <2>4, SeqEqual
  <2> QED BY <2>5 DEF a, b
<1> DEFINE Bad == {i \in 0..n : k[i] # Up(Bound(i))}
<1>4. Bad = {}
  <2> SUFFICES ASSUME Bad # {} PROVE FALSE
    OBVIOUS
  <2>1. Bad \subseteq Nat
    OBVIOUS
  <2>2. PICK i \in Bad : \A j \in Bad : i <= j
    <3> HIDE DEF Bad
    <3> QED BY <2>1, MinOfNats
  <2>3. i # 0
    <3>1. Up(0) = <<>>
      OBVIOUS
    <3>2. 0 <= m /\ Bound(0) = 0
      BY <1>1
    <3> HIDE DEF Up, Bound
    <3> QED BY <1>2, <2>2, <3>1, <3>2
  <2>4. i \in 1..n /\ i - 1 \in 0..n
    BY <2>2, <2>3
  <2>5. i - 1 \notin Bad
    <3> HIDE DEF Bad
    <3> QED BY <2>1, <2>2, <2>4
  <2>6. k[i - 1] = Up(Bound(i - 1))
    <3> HIDE DEF Up, Bound
    <3> QED BY <2>4, <2>5
  <2>7. CASE i <= m
    <3>1. Bound(i) = i /\ Bound(i - 1) = i - 1 /\ s[i] \in P
      BY <1>1, <2>4, <2>7
    <3> HIDE DEF Up, Bound
    <3> QED BY <1>2, <1>3, <2>2, <2>4, <2>6, <3>1
  <2>8. CASE ~ (i <= m)
    <3>1. Bound(i) = m /\ Bound(i - 1) = m /\ s[i] \notin P
      BY <1>1, <2>4, <2>8
    <3> HIDE DEF Up, Bound
    <3> QED BY <1>2, <2>2, <2>4, <2>6, <3>1
  <2> QED BY <2>7, <2>8
<1>5. k[n] = Up(Bound(n)) /\ Bound(n) = m
  <2>1. n \in 0..n /\ Bound(n) = m
    BY <1>1
  <2> HIDE DEF Up, Bound
  <2> QED BY <1>4, <2>1
<1> QED BY <1>2, <1>5

\* It is what remains of the first item, and what remains of the others.
LEMMA AmongFront ==
  ASSUME NEW T, NEW s \in Seq(T), s # <<>>, NEW P
  PROVE  Among(s, P) = (IF s[1] \in P THEN <<s[1]>> ELSE <<>>)
                         \o Among(Tail(s), P)
<1> DEFINE n == Len(s)
           t == Tail(s)
           f == IF s[1] \in P THEN <<s[1]>> ELSE <<>>
<1>1. /\ n \in Nat /\ n > 0 /\ t \in Seq(T) /\ Len(t) = n - 1
      /\ \A i \in 1..(n - 1) : t[i] = s[i + 1]
      /\ \A i \in 1..n : s[i] \in T
  OBVIOUS
<1>2. PICK k : /\ DOMAIN k = 0..n /\ k[0] = <<>>
               /\ \A i \in 1..n : k[i] = IF s[i] \in P THEN Append(k[i - 1], s[i])
                                         ELSE k[i - 1]
               /\ Among(s, P) = k[n]
  BY <1>1, AmongIs
<1>3. PICK h : /\ DOMAIN h = 0..(n - 1) /\ h[0] = <<>>
               /\ \A i \in 1..(n - 1) :
                    h[i] = IF t[i] \in P THEN Append(h[i - 1], t[i])
                           ELSE h[i - 1]
               /\ Among(t, P) = h[n - 1]
  <2>1. Len(t) = n - 1 /\ Len(t) \in Nat
    BY <1>1
  <2> HIDE DEF t, n
  <2> DEFINE l == Len(t)
  <2>2. \E h : /\ DOMAIN h = 0..l /\ h[0] = <<>>
               /\ \A i \in 1..l : h[i] = IF t[i] \in P THEN Append(h[i - 1], t[i])
                                         ELSE h[i - 1]
               /\ Among(t, P) = h[l]
    BY <2>1, AmongIs
  <2>3. l = n - 1
    BY <2>1
  <2> HIDE DEF l
  <2> QED BY <2>2, <2>3
<1>4. f \in Seq(T)
  BY <1>1
<1> DEFINE Bad == {i \in 0..(n - 1) :
                     ~ (h[i] \in Seq(T) /\ k[i + 1] = f \o h[i])}
<1>5. Bad = {}
  <2> SUFFICES ASSUME Bad # {} PROVE FALSE
    OBVIOUS
  <2>1. Bad \subseteq Nat
    <3> HIDE DEF f, t, n
    <3> QED OBVIOUS
  <2>2. PICK i \in Bad : \A j \in Bad : i <= j
    <3> HIDE DEF Bad
    <3> QED BY <2>1, MinOfNats
  <2>3. i # 0
    <3>1. h[0] \in Seq(T) /\ f \o h[0] = f
      BY <1>3, <1>4
    <3>2. k[1] = f
      <4>1. k[1] = IF s[1] \in P THEN Append(k[0], s[1]) ELSE k[0]
        <5>1. 1 \in 1..n /\ 1 - 1 = 0
          BY <1>1
        <5> QED BY <1>2, <5>1
      <4>2. Append(<<>>, s[1]) = <<s[1]>>
        OBVIOUS
      <4> QED BY <1>2, <4>1, <4>2
    <3> HIDE DEF f
    <3> QED BY <2>2, <3>1, <3>2
  <2>4. i \in 1..(n - 1) /\ i - 1 \in 0..(n - 1) /\ i + 1 \in 1..n
        /\ (i - 1) + 1 = i /\ (i + 1) - 1 = i
    BY <1>1, <2>2, <2>3
  <2>5. i - 1 \notin Bad
    <3> HIDE DEF Bad
    <3> QED BY <2>1, <2>2, <2>4
  <2> HIDE DEF f, t, n
  <2>6. h[i - 1] \in Seq(T) /\ k[i] = f \o h[i - 1]
    BY <2>4, <2>5
  <2>7. t[i] = s[i + 1] /\ t[i] \in T
    BY <1>1, <2>4
  <2>8. CASE t[i] \in P
    <3>1. k[i + 1] = Append(k[i], t[i]) /\ h[i] = Append(h[i - 1], t[i])
      BY <1>2, <1>3, <2>4, <2>7, <2>8
    <3>2. ASSUME NEW a \in Seq(T), NEW b \in Seq(T), NEW x \in T
          PROVE  /\ Append(b, x) \in Seq(T)
                 /\ Append(a \o b, x) = a \o Append(b, x)
      <4> HIDE DEF Bad
      <4>1. a \o b \in Seq(T) /\ <<x>> \in Seq(T) /\ Append(b, x) \in Seq(T)
        OBVIOUS
      <4>2. \A c \in Seq(T) : Append(c, x) = c \o <<x>>
        BY AppendIsConcat
      <4>3. (a \o b) \o <<x>> = a \o (b \o <<x>>)
        BY <4>1, ConcatAssociative
      <4> QED BY <4>1, <4>2, <4>3
    <3>3. /\ Append(h[i - 1], t[i]) \in Seq(T)
          /\ Append(f \o h[i - 1], t[i]) = f \o Append(h[i - 1], t[i])
      BY <1>4, <2>6, <2>7, <3>2
    <3>4. h[i] \in Seq(T) /\ k[i + 1] = f \o h[i]
      BY <2>6, <3>1, <3>3
    <3> QED BY <2>2, <3>4
  <2>9. CASE t[i] \notin P
    <3>1. k[i + 1] = k[i] /\ h[i] = h[i - 1]
      BY <1>2, <1>3, <2>4, <2>7, <2>9
    <3> QED BY <2>2, <2>6, <3>1
  <2> QED BY <2>8, <2>9
<1>6. k[n] = f \o h[n - 1]
  <2>1. n - 1 \in 0..(n - 1) /\ (n - 1) + 1 = n
    BY <1>1
  <2> HIDE DEF f, n
  <2> QED BY <1>5, <2>1
<1> QED BY <1>2, <1>3, <1>6

-----------------------------------------------------------------------------
(* Module DynamicQueue *)

Good(q) == IsQueue(q) /\ WellFormed(q)

\* Advancing an index with `% length`, as incHead and incTail do.
LEMMA Advance ==
  ASSUME NEW n \in Nat \ {0}, NEW k \in 0..(n - 1)
  PROVE  (k + 1) % n = IF k + 1 = n THEN 0 ELSE k + 1
<1>1. CASE k + 1 = n
  <2>1. n % n = 0
    BY SMT
  <2> QED BY <1>1, <2>1
<1>2. CASE k + 1 # n
  BY <1>2, SMT
<1> QED BY <1>1, <1>2

\* What the three updates of a queue change, field by field.
LEMMA GrowFields ==
  ASSUME NEW q, IsQueue(q), NEW A, NEW n, NEW t, NEW g,
         g = [q EXCEPT !.length = n, !.arr = A, !.tail = t]
  PROVE  g = [arr |-> A, alloced |-> q.alloced, length |-> n,
              head |-> q.head, tail |-> t]
<1> DEFINE S == [0..(q.length - 1) -> Item \cup {Blank}]
           H == 0..(q.length - 1)
<1>1. q \in [arr : S, alloced : Nat, length : Nat, head : H, tail : H]
  BY DEF IsQueue
<1> HIDE DEF S, H
<1> QED BY <1>1

LEMMA PutFields ==
  ASSUME NEW q, IsQueue(q), NEW A, NEW a, NEW t, NEW g,
         g = [q EXCEPT !.arr = A, !.alloced = a, !.tail = t]
  PROVE  g = [arr |-> A, alloced |-> a, length |-> q.length,
              head |-> q.head, tail |-> t]
<1> DEFINE S == [0..(q.length - 1) -> Item \cup {Blank}]
           H == 0..(q.length - 1)
<1>1. q \in [arr : S, alloced : Nat, length : Nat, head : H, tail : H]
  BY DEF IsQueue
<1> HIDE DEF S, H
<1> QED BY <1>1

LEMMA DeQueueFields ==
  ASSUME NEW q, IsQueue(q), NEW a, NEW h, NEW g,
         g = [q EXCEPT !.alloced = a, !.head = h]
  PROVE  g = [arr |-> q.arr, alloced |-> a, length |-> q.length,
              head |-> h, tail |-> q.tail]
<1> DEFINE S == [0..(q.length - 1) -> Item \cup {Blank}]
           H == 0..(q.length - 1)
<1>1. q \in [arr : S, alloced : Nat, length : Nat, head : H, tail : H]
  BY DEF IsQueue
<1> HIDE DEF S, H
<1> QED BY <1>1

LEMMA EmptyIsGood == Good(EmptyQ) /\ Items(EmptyQ) = <<>>
<1>1. IsQueue(EmptyQ)
  BY DEF IsQueue, EmptyQ
<1>2. WellFormed(EmptyQ)
  BY DEF WellFormed, EmptyQ, Cell, Wrap
<1>3. Items(EmptyQ) = <<>>
  BY DEF Items, EmptyQ
<1> QED BY <1>1, <1>2, <1>3 DEF Good

\* The items of a queue are a sequence of its length.
LEMMA ItemsType ==
  ASSUME NEW q, Good(q)
  PROVE  /\ Items(q) \in Seq(Item)
         /\ Len(Items(q)) = q.alloced
         /\ \A i \in 1..q.alloced : Cell(q, i) \in 0..(q.length - 1)
<1>1. q.alloced \in Nat
  BY DEF Good, IsQueue
<1>2. \A i \in 1..q.alloced : q.arr[Cell(q, i)] \in Item
  BY DEF Good, WellFormed
<1>3. \A i \in 1..q.alloced : Cell(q, i) \in 0..(q.length - 1)
  BY DEF Good, IsQueue, WellFormed, Cell, Wrap
<1> QED BY <1>1, <1>2, <1>3 DEF Items

\* Doubling the array keeps the items and their order.
LEMMA GrowKeepsItems ==
  ASSUME NEW q, Good(q), MustGrow(q)
  PROVE  Good(Grow(q)) /\ Items(Grow(q)) = Items(q) /\ ~ MustGrow(Grow(q))
<1> DEFINE g == Grow(q)
<1>1. /\ q.length \in Nat /\ q.length >= 4 /\ q.alloced = q.length - 2
      /\ q.head \in 0..(q.length - 1) /\ q.tail \in 0..(q.length - 1)
      /\ q.arr \in [0..(q.length - 1) -> Item \cup {Blank}]
  BY DEF Good, IsQueue, WellFormed, MustGrow
<1>2. g = [arr |-> [i \in 0..(2 * q.length - 1) |->
                      IF i < q.length THEN q.arr[i]
                      ELSE IF i - q.length < (IF Wraps(q) THEN q.tail ELSE 0)
                      THEN q.arr[i - q.length] ELSE Blank],
           alloced |-> q.alloced, length |-> 2 * q.length, head |-> q.head,
           tail |-> IF Wraps(q) THEN q.tail + q.length ELSE q.tail]
  <2> DEFINE A == [i \in 0..(2 * q.length - 1) |->
                     IF i < q.length THEN q.arr[i]
                     ELSE IF i - q.length < (IF Wraps(q) THEN q.tail ELSE 0)
                     THEN q.arr[i - q.length] ELSE Blank]
             n == 2 * q.length
             t == IF Wraps(q) THEN q.tail + q.length ELSE q.tail
  <2>1. g = [q EXCEPT !.length = n, !.arr = A, !.tail = t]
    BY DEF Grow
  <2> HIDE DEF g, A, n, t
  <2>2. g = [arr |-> A, alloced |-> q.alloced, length |-> n,
             head |-> q.head, tail |-> t]
    BY <2>1, GrowFields DEF Good
  <2> QED BY <2>2 DEF A, n, t
<1>3. /\ g.length = 2 * q.length /\ g.alloced = q.alloced /\ g.head = q.head
      /\ g.tail = IF q.tail < q.head THEN q.tail + q.length ELSE q.tail
      /\ g.arr = [i \in 0..(2 * q.length - 1) |->
                    IF i < q.length THEN q.arr[i]
                    ELSE IF i - q.length < (IF q.tail < q.head THEN q.tail ELSE 0)
                    THEN q.arr[i - q.length] ELSE Blank]
  BY <1>2 DEF Wraps
<1> HIDE DEF g
<1>4. IsQueue(g)
  <2>1. g.arr \in [0..(g.length - 1) -> Item \cup {Blank}]
    <3>1. \A i \in 0..(q.length - 1) : q.arr[i] \in Item \cup {Blank}
      BY <1>1
    <3> DEFINE wrapped == IF q.tail < q.head THEN q.tail ELSE 0
    <3>2. ASSUME NEW i \in 0..(2 * q.length - 1)
          PROVE  (IF i < q.length THEN q.arr[i]
                  ELSE IF i - q.length < wrapped
                  THEN q.arr[i - q.length] ELSE Blank) \in Item \cup {Blank}
      <4>1. wrapped \in 0..(q.length - 1)
        BY <1>1
      <4> HIDE DEF wrapped
      <4>2. CASE i < q.length
        <5>1. i \in 0..(q.length - 1)
          BY <1>1, <4>2
        <5> QED BY <3>1, <4>2, <5>1
      <4>3. CASE ~ (i < q.length) /\ i - q.length < wrapped
        <5>1. i - q.length \in 0..(q.length - 1)
          BY <1>1, <4>1, <4>3
        <5> QED BY <3>1, <4>3, <5>1
      <4>4. CASE ~ (i < q.length) /\ ~ (i - q.length < wrapped)
        BY <4>4
      <4> QED BY <4>2, <4>3, <4>4
    <3> QED BY <1>3, <3>2
  <2>2. g.tail \in 0..(g.length - 1) /\ g.head \in 0..(g.length - 1)
    BY <1>1, <1>3
  <2>3. g.length \in Nat \ {0} /\ g.alloced \in Nat
    BY <1>1, <1>3
  <2> QED BY <1>2, <2>1, <2>2, <2>3 DEF IsQueue
<1>5. g.tail = Cell(g, g.alloced + 1)
  <2>1. q.tail = Cell(q, q.alloced + 1)
    BY DEF Good, WellFormed
  <2> QED BY <1>1, <1>3, <2>1 DEF Cell, Wrap
<1>6. \A i \in 1..q.alloced : g.arr[Cell(g, i)] = q.arr[Cell(q, i)]
  <2> SUFFICES ASSUME NEW i \in 1..q.alloced
               PROVE  g.arr[Cell(g, i)] = q.arr[Cell(q, i)]
    OBVIOUS
  <2>1. q.tail = Cell(q, q.alloced + 1)
    BY DEF Good, WellFormed
  <2>2. Cell(g, i) = q.head + i - 1
    BY <1>1, <1>3 DEF Cell, Wrap
  <2>3. CASE q.head + i - 1 < q.length
    <3>1. Cell(q, i) = q.head + i - 1
      BY <1>1, <2>3 DEF Cell, Wrap
    <3> QED BY <1>1, <1>3, <2>2, <2>3, <3>1
  <2>4. CASE q.head + i - 1 >= q.length
    <3>1. PICK j \in 0..(2 * q.length - 1) : j = q.head + i - 1
      BY <1>1
    <3>2. Cell(g, i) = j /\ Cell(q, i) = j - q.length
      BY <1>1, <2>2, <2>4, <3>1 DEF Cell, Wrap
    <3>3. q.tail < q.head /\ j - q.length < q.tail /\ ~ (j < q.length)
      BY <1>1, <2>1, <2>4, <3>1 DEF Cell, Wrap
    <3>4. g.arr[j] = q.arr[j - q.length]
      BY <1>3, <3>3
    <3> QED BY <3>2, <3>4
  <2> QED BY <1>1, <2>3, <2>4
<1>7. WellFormed(g)
  <2>1. \A i \in 1..g.alloced : g.arr[Cell(g, i)] \in Item
    BY <1>3, <1>6 DEF Good, WellFormed
  <2>2. g.length >= 4 /\ g.alloced <= g.length - 2
    BY <1>1, <1>3
  <2> QED BY <1>5, <2>1, <2>2 DEF WellFormed
<1>8. Items(g) = Items(q)
  BY <1>3, <1>6 DEF Items
<1>9. ~ MustGrow(g)
  BY <1>1, <1>3 DEF MustGrow
<1> QED BY <1>4, <1>7, <1>8, <1>9 DEF Good, g

\* Storing an item where three cells are free appends it.
LEMMA PutAppends ==
  ASSUME NEW q, Good(q), q.alloced <= q.length - 3, NEW x \in Item
  PROVE  Good(Put(q, x)) /\ Items(Put(q, x)) = Append(Items(q), x)
<1> DEFINE e == Put(q, x)
<1>1. /\ q.length \in Nat /\ q.length >= 4 /\ q.alloced \in Nat
      /\ q.head \in 0..(q.length - 1) /\ q.tail \in 0..(q.length - 1)
      /\ q.arr \in [0..(q.length - 1) -> Item \cup {Blank}]
      /\ q.tail = Cell(q, q.alloced + 1)
  BY DEF Good, IsQueue, WellFormed
<1>2. e = [arr |-> [q.arr EXCEPT ![q.tail] = x], alloced |-> q.alloced + 1,
           length |-> q.length, head |-> q.head,
           tail |-> (q.tail + 1) % q.length]
  <2> DEFINE A == [q.arr EXCEPT ![q.tail] = x]
             a == q.alloced + 1
             t == (q.tail + 1) % q.length
  <2>1. e = [q EXCEPT !.arr = A, !.alloced = a, !.tail = t]
    BY DEF Put
  <2> HIDE DEF e, A, a, t
  <2>2. e = [arr |-> A, alloced |-> a, length |-> q.length,
             head |-> q.head, tail |-> t]
    BY <2>1, PutFields DEF Good
  <2> QED BY <2>2 DEF A, a, t
<1>3. /\ e.length = q.length /\ e.alloced = q.alloced + 1 /\ e.head = q.head
      /\ e.tail = IF q.tail + 1 = q.length THEN 0 ELSE q.tail + 1
      /\ e.arr = [q.arr EXCEPT ![q.tail] = x]
  BY <1>1, <1>2, Advance
<1> HIDE DEF e
<1>4. IsQueue(e)
  <2>1. e.arr \in [0..(e.length - 1) -> Item \cup {Blank}]
    BY <1>1, <1>3
  <2>2. e.tail \in 0..(e.length - 1) /\ e.head \in 0..(e.length - 1)
    BY <1>1, <1>3
  <2>3. e.length \in Nat \ {0} /\ e.alloced \in Nat
    BY <1>1, <1>3
  <2> QED BY <1>2, <2>1, <2>2, <2>3 DEF IsQueue
<1>5. e.tail = Cell(e, e.alloced + 1)
  <2>1. q.tail = Wrap(q.length, q.head + q.alloced)
    BY <1>1 DEF Cell
  <2>2. Wrap(q.length, q.head + (q.alloced + 1))
          = IF q.tail + 1 = q.length THEN 0 ELSE q.tail + 1
    <3>1. PICK n \in Nat, h \in Nat, a \in Nat, t \in Nat :
            n = q.length /\ h = q.head /\ a = q.alloced /\ t = q.tail
      BY <1>1
    <3>2. n >= 4 /\ h < n /\ a <= n - 3 /\ t = Wrap(n, h + a)
      BY <1>1, <2>1, <3>1
    <3>3. Wrap(n, h + (a + 1)) = IF t + 1 = n THEN 0 ELSE t + 1
      BY <3>2 DEF Wrap
    <3> QED BY <3>1, <3>3
  <2>3. Cell(e, e.alloced + 1) = Wrap(q.length, q.head + (q.alloced + 1))
    BY <1>1, <1>3 DEF Cell
  <2> QED BY <1>3, <2>2, <2>3
<1>6. \A i \in 1..q.alloced : e.arr[Cell(e, i)] = q.arr[Cell(q, i)]
  <2> SUFFICES ASSUME NEW i \in 1..q.alloced
               PROVE  e.arr[Cell(e, i)] = q.arr[Cell(q, i)]
    OBVIOUS
  <2>1. Cell(e, i) = Cell(q, i)
    BY <1>1, <1>3 DEF Cell, Wrap
  <2>2. Cell(q, i) # q.tail /\ Cell(q, i) \in 0..(q.length - 1)
    <3>1. PICK n \in Nat, h \in Nat, a \in Nat, t \in Nat :
            n = q.length /\ h = q.head /\ a = q.alloced /\ t = q.tail
      BY <1>1
    <3>2. n >= 4 /\ h < n /\ a <= n - 3 /\ t = Wrap(n, h + a)
      BY <1>1, <3>1 DEF Cell
    <3>3. i \in Nat /\ 1 <= i /\ i <= a
      BY <3>1
    <3>4. Wrap(n, h + (i - 1)) # t /\ Wrap(n, h + (i - 1)) \in 0..(n - 1)
      BY <3>2, <3>3 DEF Wrap
    <3>5. Cell(q, i) = Wrap(n, h + (i - 1))
      BY <3>1 DEF Cell
    <3> QED BY <3>1, <3>4, <3>5
  <2> QED BY <1>1, <1>3, <2>1, <2>2
<1>7. e.arr[Cell(e, e.alloced)] = x
  <2>1. Cell(e, e.alloced) = q.tail
    BY <1>1, <1>3 DEF Cell, Wrap
  <2> QED BY <1>1, <1>3, <2>1
<1>8. WellFormed(e)
  <2>1. \A i \in 1..e.alloced : e.arr[Cell(e, i)] \in Item
    <3> SUFFICES ASSUME NEW i \in 1..e.alloced
                 PROVE  e.arr[Cell(e, i)] \in Item
      OBVIOUS
    <3>1. CASE i = e.alloced
      BY <1>7, <3>1
    <3>2. CASE i # e.alloced
      <4>1. i \in 1..q.alloced
        BY <1>1, <1>3, <3>2
      <4> QED BY <1>6, <4>1 DEF Good, WellFormed
    <3> QED BY <3>1, <3>2
  <2>2. e.length >= 4 /\ e.alloced <= e.length - 2
    BY <1>1, <1>3
  <2> QED BY <1>5, <2>1, <2>2 DEF WellFormed
<1>9. Items(e) = Append(Items(q), x)
  <2>1. /\ Items(q) \in Seq(Item) /\ Len(Items(q)) = q.alloced
        /\ Items(e) \in Seq(Item) /\ Len(Items(e)) = q.alloced + 1
    BY <1>3, <1>4, <1>8, ItemsType DEF Good
  <2>2. \A i \in 1..q.alloced : Items(e)[i] = Items(q)[i]
    BY <1>1, <1>3, <1>6 DEF Items
  <2>3. Items(e)[q.alloced + 1] = x
    BY <1>1, <1>3, <1>7 DEF Items
  <2> QED BY <1>1, <2>1, <2>2, <2>3
<1> QED BY <1>4, <1>8, <1>9 DEF Good, e

LEMMA EnQueueAppends ==
  ASSUME NEW q, Good(q), NEW x \in Item
  PROVE  Good(EnQueue(q, x)) /\ Items(EnQueue(q, x)) = Append(Items(q), x)
<1>1. CASE MustGrow(q)
  <2> DEFINE g == Grow(q)
  <2>1. Good(g) /\ Items(g) = Items(q) /\ ~ MustGrow(g)
    BY <1>1, GrowKeepsItems
  <2> HIDE DEF g
  <2>2. g.alloced <= g.length - 3
    <3>1. /\ g.alloced \in Nat /\ g.length \in Nat
          /\ g.alloced <= g.length - 2
      BY <2>1 DEF Good, IsQueue, WellFormed
    <3>2. g.alloced # g.length - 2
      BY <2>1 DEF MustGrow
    <3> QED BY <3>1, <3>2
  <2>3. EnQueue(q, x) = Put(g, x)
    BY <1>1 DEF EnQueue, g
  <2> QED BY <2>1, <2>2, <2>3, PutAppends
<1>2. CASE ~ MustGrow(q)
  <2>1. q.alloced <= q.length - 3
    <3>1. /\ q.alloced \in Nat /\ q.length \in Nat
          /\ q.alloced <= q.length - 2
      BY DEF Good, IsQueue, WellFormed
    <3>2. q.alloced # q.length - 2
      BY <1>2 DEF MustGrow
    <3> QED BY <3>1, <3>2
  <2> QED BY <1>2, <2>1, PutAppends DEF EnQueue
<1> QED BY <1>1, <1>2

LEMMA DeQueueTakesFirst ==
  ASSUME NEW q, Good(q), ~ IsEmpty(q)
  PROVE  /\ Good(DeQueue(q))
         /\ Items(q) # <<>>
         /\ First(q) = Head(Items(q)) /\ First(q) \in Item
         /\ Items(DeQueue(q)) = Tail(Items(q))
<1> DEFINE d == DeQueue(q)
<1>1. /\ q.length \in Nat /\ q.length >= 4
      /\ q.alloced \in Nat /\ q.alloced > 0 /\ q.alloced <= q.length - 2
      /\ q.head \in 0..(q.length - 1) /\ q.tail \in 0..(q.length - 1)
      /\ q.arr \in [0..(q.length - 1) -> Item \cup {Blank}]
      /\ q.tail = Cell(q, q.alloced + 1)
  BY DEF Good, IsQueue, WellFormed, IsEmpty
<1>2. d = [arr |-> q.arr, alloced |-> q.alloced - 1, length |-> q.length,
           head |-> (q.head + 1) % q.length, tail |-> q.tail]
  <2> DEFINE a == q.alloced - 1
             h == (q.head + 1) % q.length
  <2>1. d = [q EXCEPT !.alloced = a, !.head = h]
    BY DEF DeQueue
  <2> HIDE DEF d, a, h
  <2>2. d = [arr |-> q.arr, alloced |-> a, length |-> q.length,
             head |-> h, tail |-> q.tail]
    BY <2>1, DeQueueFields DEF Good
  <2> QED BY <2>2 DEF a, h
<1>3. /\ d.length = q.length /\ d.alloced = q.alloced - 1 /\ d.tail = q.tail
      /\ d.head = IF q.head + 1 = q.length THEN 0 ELSE q.head + 1
      /\ d.arr = q.arr
  <2>1. (q.head + 1) % q.length = IF q.head + 1 = q.length THEN 0
                                  ELSE q.head + 1
    <3>1. PICK n \in Nat \ {0} : n = q.length
      BY <1>1
    <3>2. PICK h \in 0..(n - 1) : h = q.head
      BY <1>1, <3>1
    <3>3. (h + 1) % n = IF h + 1 = n THEN 0 ELSE h + 1
      BY Advance
    <3> QED BY <3>1, <3>2, <3>3
  <2> QED BY <1>2, <2>1
<1> HIDE DEF d
<1>4. IsQueue(d)
  <2>1. d.tail \in 0..(d.length - 1) /\ d.head \in 0..(d.length - 1)
    BY <1>1, <1>3
  <2>2. d.length \in Nat \ {0} /\ d.alloced \in Nat
    BY <1>1, <1>3
  <2>3. d.arr \in [0..(d.length - 1) -> Item \cup {Blank}]
    BY <1>1, <1>3
  <2> QED BY <1>2, <2>1, <2>2, <2>3 DEF IsQueue
<1>5. \A i \in 1..q.alloced : Cell(d, i) = Cell(q, i + 1)
  <2> SUFFICES ASSUME NEW i \in 1..q.alloced
               PROVE  Cell(d, i) = Cell(q, i + 1)
    OBVIOUS
  <2>1. d.head \in 0..(q.length - 1)
    BY <1>1, <1>3
  <2>2. Wrap(q.length, d.head + (i - 1)) = Wrap(q.length, q.head + i)
    <3>1. PICK n \in Nat, h \in Nat, k \in Nat, a \in Nat :
            n = q.length /\ h = q.head /\ k = d.head /\ a = q.alloced
      BY <1>1, <2>1
    <3>2. n >= 4 /\ h < n /\ a <= n - 2 /\ k = IF h + 1 = n THEN 0 ELSE h + 1
      BY <1>1, <1>3, <3>1
    <3>3. i \in Nat /\ 1 <= i /\ i <= a
      BY <3>1
    <3>4. Wrap(n, k + (i - 1)) = Wrap(n, h + i)
      BY <3>2, <3>3 DEF Wrap
    <3> QED BY <3>1, <3>4
  <2>3. (i + 1) - 1 = i
    OBVIOUS
  <2> QED BY <1>3, <2>2, <2>3 DEF Cell
<1>6. WellFormed(d)
  <2>1. \A i \in 1..d.alloced : d.arr[Cell(d, i)] \in Item
    <3>1. \A i \in 1..d.alloced : i \in 1..q.alloced /\ i + 1 \in 1..q.alloced
      BY <1>1, <1>3
    <3> QED BY <1>3, <1>5, <3>1 DEF Good, WellFormed
  <2>2. d.length >= 4 /\ d.alloced <= d.length - 2
    BY <1>1, <1>3
  <2>3. d.tail = Cell(d, d.alloced + 1)
    <3>1. d.alloced + 1 = q.alloced /\ q.alloced \in 1..q.alloced
      BY <1>1, <1>3
    <3> QED BY <1>1, <1>3, <1>5, <3>1
  <2> QED BY <2>1, <2>2, <2>3 DEF WellFormed
<1>7. /\ Items(q) \in Seq(Item) /\ Len(Items(q)) = q.alloced
      /\ Items(d) \in Seq(Item) /\ Len(Items(d)) = q.alloced - 1
  BY <1>3, <1>4, <1>6, ItemsType DEF Good
<1>8. First(q) = Items(q)[1]
  <2>1. Cell(q, 1) = q.head
    BY <1>1 DEF Cell, Wrap
  <2>2. Items(q)[1] = q.arr[Cell(q, 1)]
    BY <1>1 DEF Items
  <2> QED BY <2>1, <2>2 DEF First
<1>9. \A i \in 1..(q.alloced - 1) : Items(d)[i] = Items(q)[i + 1]
  <2> SUFFICES ASSUME NEW i \in 1..(q.alloced - 1)
               PROVE  Items(d)[i] = Items(q)[i + 1]
    OBVIOUS
  <2>1. i \in 1..q.alloced /\ i + 1 \in 1..q.alloced
    BY <1>1
  <2>2. Items(q)[i + 1] = q.arr[Cell(q, i + 1)]
    BY <2>1 DEF Items
  <2>3. Items(d)[i] = q.arr[Cell(d, i)]
    BY <1>3 DEF Items
  <2> QED BY <1>5, <2>1, <2>2, <2>3
<1>10. Items(d) = Tail(Items(q))
  BY <1>1, <1>7, <1>9
<1> QED BY <1>1, <1>4, <1>6, <1>7, <1>8, <1>10 DEF Good, d

-----------------------------------------------------------------------------
(***************************************************************************)
(* The inductive invariant.  To the representation of both queues it adds  *)
(* that no filter leaves its queue behind: the next one starts empty.      *)
(***************************************************************************)
IInv ==
  /\ Good(dq) /\ Good(new)
  /\ passing \subseteq Item /\ filtering \in BOOLEAN
  /\ ~ filtering => new = EmptyQ

LEMMA InitIInv == Init => IInv
  BY EmptyIsGood DEF Init, IInv

LEMMA NextIInv == IInv /\ [Next]_vars => IInv'
<1> SUFFICES ASSUME IInv, [Next]_vars
             PROVE  IInv'
  OBVIOUS
<1>1. CASE \E x \in Item : Add(x)
  <2>1. PICK x \in Item : Add(x)
    BY <1>1
  <2>2. Good(dq')
    BY <2>1, EnQueueAppends DEF IInv, Add
  <2> QED BY <2>1, <2>2 DEF IInv, Add
<1>2. CASE Remove
  <2>1. Good(DeQueue(dq))
    BY DeQueueTakesFirst DEF IInv, DeQueue
  <2> QED BY <1>2, <2>1 DEF IInv, Remove
<1>3. CASE \E pass \in SUBSET Item : BeginFilter(pass)
  BY <1>3, EmptyIsGood DEF IInv, BeginFilter
<1>4. CASE FilterStep
  <2>1. Good(DeQueue(dq)) /\ First(dq) \in Item
    BY <1>4, DeQueueTakesFirst DEF IInv, FilterStep
  <2>2. Good(EnQueue(new, First(dq)))
    BY <2>1, EnQueueAppends DEF IInv
  <2> QED BY <1>4, <2>1, <2>2 DEF IInv, FilterStep
<1>5. CASE EndFilter
  BY <1>5, EmptyIsGood DEF IInv, EndFilter
<1>6. CASE UNCHANGED vars
  BY <1>6 DEF IInv, vars
<1> QED BY <1>1, <1>2, <1>3, <1>4, <1>5, <1>6 DEF Next

LEMMA InvariantHolds == Spec => []IInv
<1> QED BY InitIInv, NextIInv, PTL DEF Spec

(***************************************************************************)
(* The records of both queues keep the types of struct DynamicQ_s, head    *)
(* and tail inside the array, whatever is added, removed and filtered.     *)
(***************************************************************************)
THEOREM TypeCorrect == Spec => []TypeOK
<1>1. IInv => TypeOK
  BY DEF IInv, Good, TypeOK
<1> QED BY <1>1, InvariantHolds, PTL

(***************************************************************************)
(* Both queues always keep two cells free and the tail behind the last     *)
(* item: enQueue's test `head > tail` never mistakes a full array.         *)
(***************************************************************************)
THEOREM RepresentationKept == Spec => []QueuesWellFormed
<1>1. IInv => QueuesWellFormed
  BY DEF IInv, Good, TypeOK, QueuesWellFormed
<1> QED BY <1>1, InvariantHolds, PTL

LEMMA InitMaps == Init => Fifos!Init
  BY EmptyIsGood DEF Init, Fifos!Init

LEMMA NextMaps == IInv /\ [Next]_vars => [Fifos!Next]_(Fifos!vars)
<1> SUFFICES ASSUME IInv, [Next]_vars
             PROVE  [Fifos!Next]_(Fifos!vars)
  OBVIOUS
<1>1. CASE \E x \in Item : Add(x)
  <2>1. PICK x \in Item : Add(x)
    BY <1>1
  <2>2. Items(dq') = Append(Items(dq), x) /\ Items(new') = Items(new)
    BY <2>1, EnQueueAppends DEF IInv, Add
  <2>3. Fifos!Enter(x)
    BY <2>2 DEF Fifos!Enter
  <2> QED BY <2>3 DEF Fifos!Next
<1>2. CASE Remove
  <2>1. CASE IsEmpty(dq)
    BY <1>2, <2>1 DEF Remove, DeQueue, Fifos!vars
  <2>2. CASE ~ IsEmpty(dq)
    <3>1. Items(dq) # <<>> /\ Items(dq') = Tail(Items(dq))
          /\ Items(new') = Items(new)
      BY <1>2, <2>2, DeQueueTakesFirst DEF IInv, Remove
    <3>2. Fifos!Leave
      BY <3>1 DEF Fifos!Leave
    <3> QED BY <3>2 DEF Fifos!Next
  <2> QED BY <2>1, <2>2
<1>3. CASE \E pass \in SUBSET Item : BeginFilter(pass)
  <2>1. Items(dq') = Items(dq) /\ Items(new') = Items(new)
    BY <1>3 DEF IInv, BeginFilter
  <2> QED BY <2>1 DEF Fifos!vars
<1>4. CASE FilterStep
  <2>1. /\ Items(dq) # <<>> /\ Items(dq') = Tail(Items(dq))
        /\ First(dq) = Head(Items(dq)) /\ First(dq) \in Item
    BY <1>4, DeQueueTakesFirst DEF IInv, FilterStep
  <2>2. CASE First(dq) \in passing
    <3>1. Items(new') = Append(Items(new), First(dq))
      BY <1>4, <2>1, <2>2, EnQueueAppends DEF IInv, FilterStep
    <3>2. Fifos!Keep
      BY <2>1, <3>1 DEF Fifos!Keep
    <3> QED BY <3>2 DEF Fifos!Next
  <2>3. CASE First(dq) \notin passing
    <3>1. Items(new') = Items(new)
      BY <1>4, <2>3 DEF FilterStep
    <3>2. Fifos!Leave
      BY <2>1, <3>1 DEF Fifos!Leave
    <3> QED BY <3>2 DEF Fifos!Next
  <2> QED BY <2>2, <2>3
<1>5. CASE EndFilter
  <2>1. Items(dq) = <<>>
    BY <1>5 DEF EndFilter, IsEmpty, Items
  <2>2. Items(dq') = Items(new) /\ Items(new') = <<>>
    BY <1>5, EmptyIsGood DEF EndFilter
  <2>3. Fifos!Replace
    BY <2>1, <2>2 DEF Fifos!Replace
  <2> QED BY <2>3 DEF Fifos!Next
<1>6. CASE UNCHANGED vars
  <2>1. Items(dq') = Items(dq) /\ Items(new') = Items(new)
    BY <1>6 DEF vars
  <2> QED BY <2>1 DEF Fifos!vars
<1> QED BY <1>1, <1>2, <1>3, <1>4, <1>5, <1>6 DEF Next

(***************************************************************************)
(* Whatever is queued and however often the array doubles or wraps, the    *)
(* queue and the one a filter builds are first-in first-out queues.        *)
(***************************************************************************)
THEOREM QueueIsFifo == Spec => ImplementsFifo
<1> QED BY InvariantHolds, InitMaps, NextMaps, PTL
        DEF Spec, ImplementsFifo, Fifos!Spec
-----------------------------------------------------------------------------
(* What a filter has built, and what it has still to look at. *)

LEMMA InitFilter == Init => FilterReturnsPassing
  BY DEF Init, FilterReturnsPassing

\* One round moves the first item from what is left to what is built.
LEMMA NextFilter ==
  IInv /\ FilterReturnsPassing /\ [Next]_vars => FilterReturnsPassing'
<1> SUFFICES ASSUME IInv, FilterReturnsPassing, [Next]_vars, filtering'
             PROVE  expected' = Items(new') \o Among(Items(dq'), passing')
  BY DEF FilterReturnsPassing
<1>1. /\ Good(dq) /\ Good(new) /\ Items(dq) \in Seq(Item) /\ Items(new) \in Seq(Item)
      /\ Among(Items(dq), passing) \in Seq(Item)
  BY ItemsType, AmongType DEF IInv
<1>2. ASSUME NEW pass \in SUBSET Item, BeginFilter(pass)
      PROVE  expected' = Items(new') \o Among(Items(dq'), passing')
  <2>1. Items(new') = <<>> /\ Items(dq') = Items(dq) /\ passing' = pass
        /\ expected' = Among(Items(dq), pass)
    BY <1>2, EmptyIsGood DEF BeginFilter
  <2>2. Among(Items(dq), pass) \in Seq(Item)
    BY <1>1, AmongType
  <2> QED BY <2>1, <2>2
<1>3. ASSUME FilterStep
      PROVE  expected' = Items(new') \o Among(Items(dq'), passing')
  <2> DEFINE s == Items(dq)
             t == Items(new)
             f == First(dq)
             a == Among(Tail(s), passing)
  <2>1. /\ s # <<>> /\ f = Head(s) /\ f \in Item /\ Items(dq') = Tail(s)
        /\ expected' = expected /\ passing' = passing
        /\ expected = t \o Among(s, passing)
    BY <1>1, <1>3, DeQueueTakesFirst DEF FilterStep, FilterReturnsPassing
  <2>2. /\ s \in Seq(Item) /\ t \in Seq(Item) /\ f = s[1]
        /\ Tail(s) \in Seq(Item) /\ a \in Seq(Item)
    <3>1. s \in Seq(Item) /\ t \in Seq(Item)
      BY <1>1
    <3> HIDE DEF s, t, f
    <3>2. f = s[1] /\ Tail(s) \in Seq(Item)
      BY <2>1, <3>1
    <3> QED BY <3>1, <3>2, AmongType
  <2>3. Among(s, passing) = (IF f \in passing THEN <<f>> ELSE <<>>) \o a
    <3> HIDE DEF s, t, f
    <3> QED BY <2>1, <2>2, AmongFront DEF a
  <2>4. Items(new') = IF f \in passing THEN Append(t, f) ELSE t
    BY <1>1, <1>3, <2>1, EnQueueAppends DEF FilterStep
  <2> HIDE DEF s, t, f, a
  <2>5. CASE f \in passing
    <3>1. t \o (<<f>> \o a) = Append(t, f) \o a
      <4> DEFINE u == t \o (<<f>> \o a)
                 v == Append(t, f) \o a
      <4>1. u \in Seq(Item) /\ v \in Seq(Item) /\ Len(u) = Len(v)
        BY <2>1, <2>2
      <4>2. \A j \in 1..Len(u) : u[j] = v[j]
        BY <2>1, <2>2
      <4> HIDE DEF u, v
      <4>3. u = v
        BY <4>1, <4>2, SeqEqual
      <4> QED BY <4>3 DEF u, v
    <3> QED BY <2>1, <2>3, <2>4, <2>5, <3>1 DEF a
  <2>6. CASE f \notin passing
    <3>1. <<>> \o a = a
      BY <2>2
    <3> QED BY <2>1, <2>3, <2>4, <2>6, <3>1 DEF a
  <2> QED BY <2>5, <2>6
<1>4. CASE UNCHANGED vars
  BY <1>4 DEF vars, FilterReturnsPassing
<1>5. \/ \E pass \in SUBSET Item : BeginFilter(pass)
      \/ FilterStep \/ UNCHANGED vars
  BY DEF Next, Add, Remove, EndFilter
<1> QED BY <1>2, <1>3, <1>4, <1>5

(***************************************************************************)
(* DynamicQ__filter returns the items of its argument that pass, in order, *)
(* however many there are and whichever pass.                              *)
(***************************************************************************)
THEOREM FilterKeepsOrder == Spec => []FilterReturnsPassing
<1> QED BY InvariantHolds, InitFilter, NextFilter, PTL DEF Spec

-----------------------------------------------------------------------------
(* Module SleepQ *)

(* Lists and jumps *)

CoOK(q) ==
  q \in [next : [0..NCoro -> 0..NCoro \cup {NULL}], running : 0..NCoro,
         idle : Coro \cup {NULL}, ctx : [0..NCoro -> Context]]

Co(next, running, idle, ctx) ==
  [next |-> next, running |-> running, idle |-> idle, ctx |-> ctx]

LEMMA CoIs ==
  ASSUME NEW q, CoOK(q)
  PROVE  q = Co(q.next, q.running, q.idle, q.ctx)
<1> DEFINE A == [0..NCoro -> 0..NCoro \cup {NULL}]
           B == [0..NCoro -> Context]
<1>1. q \in [next : A, running : 0..NCoro, idle : Coro \cup {NULL}, ctx : B]
  BY DEF CoOK
<1> HIDE DEF A, B
<1> QED BY <1>1 DEF Co

HeadOf(q, list) == q[list]

PutAt(f, c, v) == [f EXCEPT ![c] = v]

Hop(x, me, there, to) == [x EXCEPT ![me] = there, ![to] = "run"]

Relisted(q, list, f, c) == [q EXCEPT !.next = f, ![list] = c]

LEMMA ListSet ==
  ASSUME NEW n, NEW r, NEW i, NEW x, NEW f, NEW c
  PROVE  LET q == Co(n, r, i, x)
         IN  /\ Relisted(q, "running", f, c) = Co(f, c, i, x)
             /\ Relisted(q, "idle", f, c) = Co(f, r, c, x)
             /\ HeadOf(q, "running") = r /\ HeadOf(q, "idle") = i
             /\ q.next = n
<1> DEFINE q == Co(n, r, i, x)
           e == Co(f, r, i, x)
<1>1. [q EXCEPT !.next = f] = e
  BY DEF Co
<1>2. [e EXCEPT !["running"] = c] = Co(f, c, i, x)
  BY DEF Co
<1>3. [e EXCEPT !["idle"] = c] = Co(f, r, c, x)
  BY DEF Co
<1>4. q["running"] = r
  BY DEF Co
<1>5. q["idle"] = i
  BY DEF Co
<1>6. q.next = n
  BY DEF Co
<1> HIDE DEF q, e
<1>7. Relisted(q, "running", f, c) = Co(f, c, i, x)
  <2>1. [q EXCEPT !.next = f, !["running"] = c]
          = [[q EXCEPT !.next = f] EXCEPT !["running"] = c]
    OBVIOUS
  <2>2. Relisted(q, "running", f, c) = [[q EXCEPT !.next = f] EXCEPT !["running"] = c]
    BY <2>1 DEF Relisted
  <2> QED BY <1>1, <1>2, <2>2
<1>8. Relisted(q, "idle", f, c) = Co(f, r, c, x)
  <2>1. [q EXCEPT !.next = f, !["idle"] = c]
          = [[q EXCEPT !.next = f] EXCEPT !["idle"] = c]
    OBVIOUS
  <2>2. Relisted(q, "idle", f, c) = [[q EXCEPT !.next = f] EXCEPT !["idle"] = c]
    BY <2>1 DEF Relisted
  <2> QED BY <1>1, <1>3, <2>2
<1>9. HeadOf(q, "running") = r
  BY <1>4 DEF HeadOf
<1>10. HeadOf(q, "idle") = i
  BY <1>5 DEF HeadOf
<1> QED BY <1>6, <1>7, <1>8, <1>9, <1>10 DEF q

LEMMA PushSets ==
  ASSUME NEW q, NEW list, NEW c
  PROVE  Push(q, list, c)
           = Relisted(q, list, PutAt(q.next, c, HeadOf(q, list)), c)
BY DEF Push, Relisted, HeadOf, PutAt

LEMMA PopSets ==
  ASSUME NEW q, NEW list
  PROVE  Pop(q, list)
           = Relisted(q, list, PutAt(q.next, HeadOf(q, list), NULL),
                      q.next[HeadOf(q, list)])
BY DEF Pop, Relisted, HeadOf, PutAt

LEMMA PushRunning ==
  ASSUME NEW n, NEW r, NEW i, NEW x, NEW c
  PROVE  Push(Co(n, r, i, x), "running", c) = Co(PutAt(n, c, r), c, i, x)
<1> DEFINE q == Co(n, r, i, x)
<1>1. /\ HeadOf(q, "running") = r /\ HeadOf(q, "idle") = i /\ q.next = n
      /\ \A f : Relisted(q, "running", f, c) = Co(f, c, i, x)
  BY ListSet
<1> HIDE DEF q
<1>2. Push(q, "running", c) = Relisted(q, "running", PutAt(n, c, r), c)
  BY <1>1, PushSets
<1> QED BY <1>1, <1>2 DEF q

LEMMA PushIdle ==
  ASSUME NEW n, NEW r, NEW i, NEW x, NEW c
  PROVE  Push(Co(n, r, i, x), "idle", c) = Co(PutAt(n, c, i), r, c, x)
<1> DEFINE q == Co(n, r, i, x)
<1>1. /\ HeadOf(q, "running") = r /\ HeadOf(q, "idle") = i /\ q.next = n
      /\ \A f : Relisted(q, "idle", f, c) = Co(f, r, c, x)
  BY ListSet
<1> HIDE DEF q
<1>2. Push(q, "idle", c) = Relisted(q, "idle", PutAt(n, c, i), c)
  BY <1>1, PushSets
<1> QED BY <1>1, <1>2 DEF q

LEMMA PopRunning ==
  ASSUME NEW n, NEW r, NEW i, NEW x
  PROVE  Pop(Co(n, r, i, x), "running") = Co(PutAt(n, r, NULL), n[r], i, x)
<1> DEFINE q == Co(n, r, i, x)
<1>1. /\ HeadOf(q, "running") = r /\ HeadOf(q, "idle") = i /\ q.next = n
      /\ \A f, c : Relisted(q, "running", f, c) = Co(f, c, i, x)
  BY ListSet
<1> HIDE DEF q
<1>2. Pop(q, "running") = Relisted(q, "running", PutAt(n, r, NULL), n[r])
  BY <1>1, PopSets
<1> QED BY <1>1, <1>2 DEF q

LEMMA PopIdle ==
  ASSUME NEW n, NEW r, NEW i, NEW x
  PROVE  Pop(Co(n, r, i, x), "idle") = Co(PutAt(n, i, NULL), r, n[i], x)
<1> DEFINE q == Co(n, r, i, x)
<1>1. /\ HeadOf(q, "running") = r /\ HeadOf(q, "idle") = i /\ q.next = n
      /\ \A f, c : Relisted(q, "idle", f, c) = Co(f, r, c, x)
  BY ListSet
<1> HIDE DEF q
<1>2. Pop(q, "idle") = Relisted(q, "idle", PutAt(n, i, NULL), n[i])
  BY <1>1, PopSets
<1> QED BY <1>1, <1>2 DEF q

LEMMA PassIs ==
  ASSUME NEW n, NEW r, NEW i, NEW x, NEW me, NEW there
  PROVE  Pass(Co(n, r, i, x), me, there) = Co(n, r, i, Hop(x, me, there, r))
BY DEF Pass, Co, Hop

Freshened(q, c) == [q EXCEPT !.ctx = [@ EXCEPT ![c] = "fresh"]]

LEMMA FreshIs ==
  ASSUME NEW n, NEW r, NEW i, NEW x, NEW c
  PROVE  Freshened(Co(n, r, i, x), c) = Co(n, r, i, PutAt(x, c, "fresh"))
BY DEF Co, PutAt, Freshened

LEMMA CoFields ==
  ASSUME NEW n, NEW r, NEW i, NEW x
  PROVE  LET q == Co(n, r, i, x)
         IN  q.next = n /\ q.running = r /\ q.idle = i /\ q.ctx = x
BY DEF Co

(* Lists of coroutines *)

Links == [0..NCoro -> 0..NCoro \cup {NULL}]

Of(s) == {s[k] : k \in 1..Len(s)}

LastOf(s) == s[Len(s)]

Onto(c, s) == <<c>> \o s

Below(s) == Tail(s)

\* The coroutines of s, each once, are a list that starts at h.
IsList(f, h, s) ==
  /\ s \in Seq(0..NCoro)
  /\ h = IF s = <<>> THEN NULL ELSE s[1]
  /\ \A k \in 1..Len(s) : f[s[k]] = IF k = Len(s) THEN NULL ELSE s[k + 1]
  /\ \A k, l \in 1..Len(s) : s[k] = s[l] => k = l

LEMMA ItemsAre ==
  ASSUME NEW T, NEW s \in Seq(T)
  PROVE  /\ Len(s) \in Nat /\ (s = <<>> <=> Len(s) = 0)
         /\ \A k \in 1..Len(s) : s[k] \in T
OBVIOUS

LEMMA TailIs ==
  ASSUME NEW T, NEW s \in Seq(T), s # <<>>
  PROVE  /\ Len(s) \in Nat /\ Len(s) > 0
         /\ Tail(s) \in Seq(T) /\ Len(Tail(s)) = Len(s) - 1
         /\ \A k \in 1..(Len(s) - 1) : Tail(s)[k] = s[k + 1]
OBVIOUS

LEMMA ListFacts ==
  ASSUME NEW f \in Links, NEW h, NEW s, IsList(f, h, s)
  PROVE  /\ s \in Seq(0..NCoro) /\ Of(s) \subseteq 0..NCoro
         /\ h = NULL <=> s = <<>>
         /\ h # NULL => h = s[1] /\ h \in Of(s) /\ Len(s) > 0
         /\ h \in 0..NCoro \cup {NULL}
         /\ s = <<>> <=> Of(s) = {}
         /\ s # <<>> => LastOf(s) \in Of(s) /\ f[LastOf(s)] = NULL
         /\ \A c \in Of(s) : f[c] = NULL => c = LastOf(s)
<1>1. /\ s \in Seq(0..NCoro) /\ Len(s) \in Nat
      /\ \A k \in 1..Len(s) : s[k] \in 0..NCoro
  BY ItemsAre DEF IsList
<1>2. Of(s) \subseteq 0..NCoro
  BY <1>1 DEF Of
<1>3. NULL \notin 0..NCoro
  BY CoroAssumption
<1>4. s = <<>> <=> Len(s) = 0
  BY <1>1
<1>5. s # <<>> => Len(s) > 0 /\ 1 \in 1..Len(s) /\ Len(s) \in 1..Len(s)
  BY <1>1, <1>4
<1>6. h = IF s = <<>> THEN NULL ELSE s[1]
  BY DEF IsList
<1>7. h = NULL <=> s = <<>>
  BY <1>1, <1>3, <1>5, <1>6
<1>8. h # NULL => h = s[1] /\ h \in Of(s) /\ Len(s) > 0
  BY <1>5, <1>6, <1>7 DEF Of
<1>9. s = <<>> <=> Of(s) = {}
  BY <1>4, <1>5 DEF Of
<1>10. s # <<>> => LastOf(s) \in Of(s) /\ f[LastOf(s)] = NULL
  BY <1>5 DEF IsList, LastOf, Of
<1>11. ASSUME NEW c \in Of(s), f[c] = NULL PROVE c = LastOf(s)
  <2>1. PICK k \in 1..Len(s) : c = s[k]
    BY DEF Of
  <2>2. k # Len(s) => k + 1 \in 1..Len(s)
    BY <1>1
  <2>3. k = Len(s)
    BY <1>1, <1>3, <1>11, <2>1, <2>2 DEF IsList
  <2> QED BY <2>1, <2>3 DEF LastOf
<1> QED BY <1>1, <1>2, <1>6, <1>7, <1>8, <1>9, <1>10, <1>11

LEMMA PushList ==
  ASSUME NEW f \in Links, NEW h, NEW s, IsList(f, h, s),
         NEW c \in 0..NCoro, c \notin Of(s)
  PROVE  LET t == Onto(c, s)
         IN  /\ PutAt(f, c, h) \in Links
             /\ IsList(PutAt(f, c, h), c, t)
             /\ Of(t) = Of(s) \cup {c} /\ t # <<>>
             /\ s # <<>> => LastOf(t) = LastOf(s)
             /\ s = <<>> => LastOf(t) = c
<1> DEFINE t == Onto(c, s)
           g == PutAt(f, c, h)
           n == Len(s)
<1>1. /\ s \in Seq(0..NCoro) /\ n \in Nat
      /\ h = IF s = <<>> THEN NULL ELSE s[1]
      /\ \A k \in 1..n : f[s[k]] = IF k = n THEN NULL ELSE s[k + 1]
      /\ \A k, l \in 1..n : s[k] = s[l] => k = l
      /\ \A k \in 1..n : s[k] # c /\ s[k] \in 0..NCoro
  <2>1. s \in Seq(0..NCoro)
    BY DEF IsList
  <2>2. n \in Nat /\ \A k \in 1..n : s[k] \in 0..NCoro
    BY <2>1, ItemsAre
  <2>3. \A k \in 1..n : s[k] # c
    BY DEF Of
  <2>4. /\ h = IF s = <<>> THEN NULL ELSE s[1]
        /\ \A k \in 1..n : f[s[k]] = IF k = n THEN NULL ELSE s[k + 1]
        /\ \A k, l \in 1..n : s[k] = s[l] => k = l
    BY DEF IsList
  <2> QED BY <2>1, <2>2, <2>3, <2>4
<1>2. s = <<>> <=> n = 0
  BY <1>1
<1>3. /\ t \in Seq(0..NCoro) /\ Len(t) = n + 1 /\ t[1] = c
      /\ \A k \in 1..n : t[k + 1] = s[k]
  BY <1>1 DEF Onto
<1>4. h \in 0..NCoro \cup {NULL}
  BY ListFacts
<1>5. g \in Links /\ g[c] = h /\ \A d \in 0..NCoro : d # c => g[d] = f[d]
  BY <1>4 DEF Links, PutAt
<1>6. t # <<>>
  BY <1>1, <1>3
<1>7. \A k \in 1..(n + 1) : k = 1 \/ (k - 1 \in 1..n /\ t[k] = s[k - 1])
  <2>1. \A k \in 1..(n + 1) : k = 1 \/ (k - 1 \in 1..n /\ (k - 1) + 1 = k)
    BY <1>1
  <2> HIDE DEF t
  <2> QED BY <1>3, <2>1
<1> HIDE DEF t, g
<1>8. \A k \in 1..Len(t) : g[t[k]] = IF k = Len(t) THEN NULL ELSE t[k + 1]
  <2> SUFFICES ASSUME NEW k \in 1..(n + 1)
               PROVE  g[t[k]] = IF k = n + 1 THEN NULL ELSE t[k + 1]
    BY <1>3
  <2>1. CASE k = 1
    <3>1. n = 0 => g[t[1]] = NULL
      BY <1>1, <1>2, <1>3, <1>5
    <3>2. n # 0 => 1 \in 1..n /\ g[t[1]] = s[1] /\ t[1 + 1] = s[1]
      BY <1>1, <1>2, <1>3, <1>5
    <3> QED BY <1>1, <2>1, <3>1, <3>2
  <2>2. CASE k # 1
    <3>1. k - 1 \in 1..n /\ t[k] = s[k - 1]
      BY <1>7, <2>2
    <3>2. g[t[k]] = f[s[k - 1]]
      BY <1>1, <1>5, <3>1
    <3>3. f[s[k - 1]] = IF k - 1 = n THEN NULL ELSE s[(k - 1) + 1]
      BY <1>1, <3>1
    <3>4. k - 1 # n => k \in 1..n /\ (k - 1) + 1 = k /\ t[k + 1] = s[k]
      BY <1>1, <1>3, <3>1
    <3> QED BY <1>1, <3>1, <3>2, <3>3, <3>4
  <2> QED BY <2>1, <2>2
<1>9. \A k, l \in 1..Len(t) : t[k] = t[l] => k = l
  <2> SUFFICES ASSUME NEW k \in 1..(n + 1), NEW l \in 1..(n + 1), t[k] = t[l]
               PROVE  k = l
    BY <1>3
  <2>1. k = 1 <=> l = 1
    BY <1>1, <1>3, <1>7
  <2>2. CASE k # 1
    <3>1. k - 1 \in 1..n /\ l - 1 \in 1..n /\ s[k - 1] = s[l - 1]
      BY <1>7, <2>1, <2>2
    <3>2. k - 1 = l - 1
      BY <1>1, <3>1
    <3> QED BY <3>2
  <2> QED BY <2>1, <2>2
<1>10. IsList(g, c, t)
  BY <1>3, <1>6, <1>8, <1>9 DEF IsList
<1>11. Of(t) = Of(s) \cup {c}
  <2>1. \A k \in 1..n : k + 1 \in 1..Len(t)
    BY <1>1, <1>3
  <2>2. 1 \in 1..Len(t)
    BY <1>1, <1>3
  <2>3. Of(s) \subseteq Of(t)
    BY <1>3, <2>1 DEF Of
  <2>4. c \in Of(t)
    BY <1>3, <2>2 DEF Of
  <2>5. Of(t) \subseteq Of(s) \cup {c}
    <3> SUFFICES ASSUME NEW d \in Of(t) PROVE d = c \/ d \in Of(s)
      OBVIOUS
    <3>1. PICK k \in 1..Len(t) : d = t[k]
      BY DEF Of
    <3>2. k = 1 \/ (k - 1 \in 1..n /\ t[k] = s[k - 1])
      BY <1>3, <1>7
    <3>3. k - 1 \in 1..n => s[k - 1] \in Of(s)
      BY DEF Of
    <3> QED BY <1>3, <3>1, <3>2, <3>3
  <2> QED BY <2>3, <2>4, <2>5
<1>12. /\ s # <<>> => LastOf(t) = LastOf(s)
       /\ s = <<>> => LastOf(t) = c
  <2>1. n # 0 => n \in 1..n
    BY <1>1
  <2> QED BY <1>1, <1>2, <1>3, <2>1 DEF LastOf
<1> QED BY <1>5, <1>6, <1>10, <1>11, <1>12 DEF g, t

LEMMA PopList ==
  ASSUME NEW f \in Links, NEW h, NEW s, IsList(f, h, s), s # <<>>
  PROVE  LET t == Below(s)
         IN  /\ PutAt(f, h, NULL) \in Links
             /\ IsList(PutAt(f, h, NULL), f[h], t)
             /\ Of(t) = Of(s) \ {h} /\ h = s[1]
             /\ t # <<>> => LastOf(t) = LastOf(s)
<1> DEFINE t == Below(s)
           g == PutAt(f, h, NULL)
           n == Len(s)
<1>1. /\ s \in Seq(0..NCoro) /\ n \in Nat /\ n > 0 /\ h = s[1]
      /\ \A k \in 1..n : f[s[k]] = IF k = n THEN NULL ELSE s[k + 1]
      /\ \A k, l \in 1..n : s[k] = s[l] => k = l
      /\ \A k \in 1..n : s[k] \in 0..NCoro
  <2>1. s \in Seq(0..NCoro)
    BY DEF IsList
  <2>2. n \in Nat /\ n > 0 /\ \A k \in 1..n : s[k] \in 0..NCoro
    <3>1. n \in Nat /\ \A k \in 1..n : s[k] \in 0..NCoro
      BY <2>1, ItemsAre
    <3>2. n # 0
      BY <2>1, ItemsAre
    <3> HIDE DEF n
    <3> QED BY <3>1, <3>2
  <2>3. /\ h = s[1]
        /\ \A k \in 1..n : f[s[k]] = IF k = n THEN NULL ELSE s[k + 1]
        /\ \A k, l \in 1..n : s[k] = s[l] => k = l
    BY DEF IsList
  <2> QED BY <2>1, <2>2, <2>3
<1>2. /\ t \in Seq(0..NCoro) /\ Len(t) = n - 1
      /\ \A k \in 1..(n - 1) : t[k] = s[k + 1] /\ k + 1 \in 1..n
      /\ (t = <<>> <=> n = 1) /\ 1 \in 1..n
  <2>1. /\ t \in Seq(0..NCoro) /\ Len(t) = n - 1
        /\ \A k \in 1..(n - 1) : t[k] = s[k + 1]
    BY <1>1, TailIs DEF Below
  <2> HIDE DEF t
  <2>2. t = <<>> <=> Len(t) = 0
    BY <2>1, ItemsAre
  <2>3. 1 \in 1..n /\ \A k \in 1..(n - 1) : k + 1 \in 1..n
    BY <1>1
  <2> QED BY <1>1, <2>1, <2>2, <2>3
<1>3. h \in 0..NCoro /\ \A k \in 1..n : (s[k] = h) <=> (k = 1)
  <2> HIDE DEF t, n
  <2> QED BY <1>1, <1>2
<1>4. g \in Links /\ \A d \in 0..NCoro : d # h => g[d] = f[d]
  BY <1>3 DEF Links, PutAt
<1> HIDE DEF t, g
<1>5. f[h] = IF t = <<>> THEN NULL ELSE t[1]
  <2>1. n # 1 => 1 \in 1..(n - 1) /\ t[1] = s[1 + 1]
    BY <1>1, <1>2
  <2>2. f[h] = IF 1 = n THEN NULL ELSE s[1 + 1]
    BY <1>1, <1>2
  <2> QED BY <1>2, <2>1, <2>2
<1>6. \A k \in 1..Len(t) : g[t[k]] = IF k = Len(t) THEN NULL ELSE t[k + 1]
  <2> SUFFICES ASSUME NEW k \in 1..(n - 1)
               PROVE  g[t[k]] = IF k = n - 1 THEN NULL ELSE t[k + 1]
    BY <1>2
  <2>1. t[k] = s[k + 1] /\ k + 1 \in 1..n /\ k + 1 # 1
    BY <1>2
  <2>2. g[t[k]] = f[s[k + 1]]
    BY <1>1, <1>3, <1>4, <2>1
  <2>3. f[s[k + 1]] = IF k + 1 = n THEN NULL ELSE s[(k + 1) + 1]
    BY <1>1, <2>1
  <2>4. k + 1 # n => k + 1 \in 1..(n - 1) /\ t[k + 1] = s[(k + 1) + 1]
    BY <1>1, <1>2
  <2> QED BY <1>1, <2>2, <2>3, <2>4
<1>7. \A k, l \in 1..Len(t) : t[k] = t[l] => k = l
  <2> SUFFICES ASSUME NEW k \in 1..(n - 1), NEW l \in 1..(n - 1), t[k] = t[l]
               PROVE  k = l
    BY <1>2
  <2>1. s[k + 1] = s[l + 1] /\ k + 1 \in 1..n /\ l + 1 \in 1..n
    BY <1>2
  <2>2. k + 1 = l + 1
    BY <1>1, <2>1
  <2> QED BY <2>2
<1>8. IsList(g, f[h], t)
  BY <1>2, <1>5, <1>6, <1>7 DEF IsList
<1>9. Of(t) = Of(s) \ {h}
  <2>1. \A k \in 1..n : k = 1 \/ (k - 1 \in 1..(n - 1) /\ t[k - 1] = s[k])
    <3>1. \A k \in 1..n : k = 1 \/ (k - 1 \in 1..(n - 1) /\ (k - 1) + 1 = k)
      BY <1>1
    <3> SUFFICES ASSUME NEW k \in 1..n, k # 1
                 PROVE  k - 1 \in 1..(n - 1) /\ t[k - 1] = s[k]
      OBVIOUS
    <3>2. k - 1 \in 1..(n - 1) /\ (k - 1) + 1 = k
      BY <3>1
    <3>3. t[k - 1] = s[(k - 1) + 1]
      BY <1>2, <3>2
    <3> QED BY <3>2, <3>3
  <2>2. Of(s) \subseteq Of(t) \cup {h}
    <3> SUFFICES ASSUME NEW d \in Of(s) PROVE d = h \/ d \in Of(t)
      OBVIOUS
    <3>1. PICK k \in 1..n : d = s[k]
      BY DEF Of
    <3>2. k # 1 => t[k - 1] \in Of(t)
      BY <1>2, <2>1 DEF Of
    <3> QED BY <1>1, <2>1, <3>1, <3>2
  <2>3. Of(t) \subseteq Of(s)
    BY <1>2 DEF Of
  <2>4. h \notin Of(t)
    <3>1. \A k \in 1..(n - 1) : k + 1 # 1
      BY <1>1
    <3> QED BY <1>2, <1>3, <3>1 DEF Of
  <2> QED BY <2>2, <2>3, <2>4
<1>10. t # <<>> => LastOf(t) = LastOf(s)
  <2>1. n # 1 => n - 1 \in 1..(n - 1) /\ (n - 1) + 1 = n
    <3>1. n \in Nat /\ n > 0
      BY <1>1
    <3> HIDE DEF n
    <3> QED BY <3>1
  <2>2. n # 1 => t[n - 1] = s[n]
    BY <1>2, <2>1
  <2>3. LastOf(t) = t[n - 1] /\ LastOf(s) = s[n]
    BY <1>2 DEF LastOf
  <2> QED BY <1>2, <2>2, <2>3
<1> QED BY <1>1, <1>4, <1>8, <1>9, <1>10 DEF g, t

LEMMA OtherList ==
  ASSUME NEW f \in Links, NEW h, NEW s, IsList(f, h, s),
         NEW c \in 0..NCoro, c \notin Of(s), NEW v
  PROVE  IsList(PutAt(f, c, v), h, s)
<1> DEFINE g == PutAt(f, c, v)
<1>1. \A k \in 1..Len(s) : s[k] # c /\ s[k] \in 0..NCoro
  BY ItemsAre DEF IsList, Of
<1>2. \A d \in 0..NCoro : d # c => g[d] = f[d]
  BY DEF Links, PutAt
<1>3. \A k \in 1..Len(s) : g[s[k]] = f[s[k]]
  BY <1>1, <1>2
<1> HIDE DEF g
<1>4. IsList(g, h, s)
  BY <1>3 DEF IsList
<1> QED BY <1>4 DEF g

LEMMA ListsFrom ==
  ASSUME NEW f \in Links, NEW g \in Links, NEW h, NEW s, IsList(f, h, s),
         \A c \in Of(s) : g[c] = f[c]
  PROVE  IsList(g, h, s)
<1>1. \A k \in 1..Len(s) : g[s[k]] = f[s[k]]
  BY DEF Of
<1> QED BY <1>1 DEF IsList

\* No list is longer than there are coroutines.
LEMMA ListShort ==
  ASSUME NEW f, NEW h, NEW s, IsList(f, h, s)
  PROVE  Len(s) <= NCoro + 1
<1> DEFINE n == Len(s)
           S == 1..n
           T == 0..NCoro
           g == [k \in S |-> s[k]]
<1>1. n \in Nat /\ \A k \in S : s[k] \in T
  BY ItemsAre DEF IsList
<1>2. NCoro \in Nat
  BY CoroAssumption
<1>3. IsFiniteSet(S) /\ Cardinality(S) = n
  <2>1. (1 > n) <=> (n = 0)
    BY <1>1
  <2>2. n - 1 + 1 = n
    BY <1>1
  <2> HIDE DEF n
  <2> QED BY <1>1, <2>1, <2>2, FS_Interval
<1>4. IsFiniteSet(T) /\ Cardinality(T) = NCoro + 1
  <2>1. ~ (0 > NCoro) /\ NCoro - 0 + 1 = NCoro + 1
    BY <1>2
  <2> QED BY <1>2, <2>1, FS_Interval
<1>5. \A k, l \in S : s[k] = s[l] => k = l
  BY DEF IsList
<1>6. g \in [S -> T] /\ \A k \in S : g[k] = s[k]
  <2> HIDE DEF S, T
  <2> QED BY <1>1
<1> SUFFICES ASSUME ~ (n <= NCoro + 1) PROVE FALSE
  OBVIOUS
<1>7. Cardinality(T) < Cardinality(S)
  <2> HIDE DEF n, S, T
  <2> QED BY <1>1, <1>2, <1>3, <1>4
<1>8. \E k, l \in S : k # l /\ g[k] = g[l]
  <2> HIDE DEF n, S, T, g
  <2> QED BY <1>3, <1>4, <1>6, <1>7, FS_PigeonHole
<1> QED BY <1>5, <1>6, <1>8

\* Walking the list from its head visits it.
LEMMA ChainIs ==
  ASSUME NEW q, q.next \in Links, NEW h, NEW s, IsList(q.next, h, s)
  PROVE  Chain(q, h) = s
<1> DEFINE next == [c \in 0..NCoro \cup {NULL} |->
                      IF c = NULL THEN NULL ELSE q.next[c]]
           m == NCoro + 1
           at == Steps(next, m, h)
           n == Len(s)
           T == 0..NCoro \cup {NULL}
           w == [i \in 1..(NCoro + 2) |-> at[i - 1]]
<1>1. Chain(q, h) = Among(w, 0..NCoro)
  BY DEF Chain, Steps
<1>2. /\ n \in Nat /\ m \in Nat /\ n <= m /\ NULL \notin 0..NCoro
      /\ (s = <<>> <=> n = 0) /\ \A k \in 1..n : s[k] \in 0..NCoro
      /\ h = (IF s = <<>> THEN NULL ELSE s[1]) /\ h \in T
      /\ \A k \in 1..n : q.next[s[k]] = IF k = n THEN NULL ELSE s[k + 1]
  <2>1. s \in Seq(0..NCoro)
    BY DEF IsList
  <2>2. n \in Nat /\ (s = <<>> <=> n = 0) /\ \A k \in 1..n : s[k] \in 0..NCoro
    BY <2>1, ItemsAre
  <2>3. m \in Nat /\ NULL \notin 0..NCoro
    BY CoroAssumption
  <2>4. n <= m
    BY ListShort
  <2>5. h \in T
    BY ListFacts
  <2>6. /\ h = IF s = <<>> THEN NULL ELSE s[1]
        /\ \A k \in 1..n : q.next[s[k]] = IF k = n THEN NULL ELSE s[k + 1]
    BY DEF IsList
  <2> QED BY <2>2, <2>3, <2>4, <2>5, <2>6
<1>3. next[NULL] = NULL /\ \A c \in 0..NCoro : next[c] = q.next[c]
  BY <1>2
<1>4. \A x \in T : next[x] \in T
  BY <1>3 DEF Links
<1> HIDE DEF next, T, m
<1>5. /\ DOMAIN at = 0..m /\ at[0] = h
      /\ \A k \in 1..m : at[k] = next[at[k - 1]]
      /\ \A k \in 0..m : at[k] \in T
  <2>1. m \in Nat /\ h \in T
    BY <1>2
  <2> QED BY <1>4, <2>1, WalkIn
<1> HIDE DEF at, n
<1> DEFINE Bad == {k \in 0..m : at[k] # IF k < n THEN s[k + 1] ELSE NULL}
<1>6. Bad = {}
  <2> SUFFICES ASSUME Bad # {} PROVE FALSE
    OBVIOUS
  <2>1. Bad \subseteq Nat
    BY <1>2
  <2>2. PICK k \in Bad : \A j \in Bad : k <= j
    <3> HIDE DEF Bad
    <3> QED BY <2>1, MinOfNats
  <2>3. k # 0
    BY <1>2, <1>5, <2>2
  <2>4. k \in 1..m /\ k - 1 \in 0..m /\ k - 1 < k /\ (k - 1) + 1 = k
    BY <1>2, <2>2, <2>3
  <2>5. k - 1 \notin Bad
    <3> HIDE DEF Bad
    <3> QED BY <2>1, <2>2, <2>4
  <2>6. at[k - 1] = IF k - 1 < n THEN s[k] ELSE NULL
    BY <2>4, <2>5
  <2>7. at[k] = next[at[k - 1]]
    BY <1>5, <2>4
  <2>8. CASE k - 1 < n
    <3>1. k \in 1..n /\ (k < n <=> k # n)
      BY <1>2, <2>4, <2>8
    <3>2. at[k] = IF k = n THEN NULL ELSE s[k + 1]
      BY <1>2, <1>3, <2>6, <2>7, <2>8, <3>1
    <3> QED BY <2>2, <3>1, <3>2
  <2>9. CASE ~ (k - 1 < n)
    <3>1. ~ (k < n)
      BY <1>2, <2>4, <2>9
    <3>2. at[k] = NULL
      BY <1>3, <2>6, <2>7, <2>9
    <3> QED BY <2>2, <3>1, <3>2
  <2> QED BY <2>8, <2>9
<1>7. \A i \in 1..(NCoro + 2) :
        w[i] \in T /\ w[i] = IF i <= n THEN s[i] ELSE NULL
  <2> SUFFICES ASSUME NEW i \in 1..(NCoro + 2)
               PROVE  w[i] \in T /\ w[i] = IF i <= n THEN s[i] ELSE NULL
    OBVIOUS
  <2>1. i - 1 \in 0..m /\ (i - 1) + 1 = i /\ (i - 1 < n <=> i <= n)
    BY <1>2, CoroAssumption DEF m
  <2>2. w[i] = at[i - 1]
    OBVIOUS
  <2>3. at[i - 1] = IF i - 1 < n THEN s[i] ELSE NULL
    BY <1>6, <2>1
  <2>4. at[i - 1] \in T
    BY <1>5, <2>1
  <2> HIDE DEF w
  <2> QED BY <2>1, <2>2, <2>3, <2>4
<1>8. w \in Seq(T) /\ Len(w) = NCoro + 2
  <2>1. NCoro + 2 \in Nat
    BY CoroAssumption
  <2>2. w \in [1..(NCoro + 2) -> T]
    BY <1>7
  <2>3. w \in Seq(T)
    BY <2>1, <2>2
  <2>4. Len(w) = NCoro + 2
    BY <2>1, <2>3
  <2> QED BY <2>3, <2>4
<1> HIDE DEF w
<1>9. n \in 0..Len(w) /\ \A i \in 1..Len(w) : w[i] \in 0..NCoro <=> i <= n
  <2>1. n \in 0..(NCoro + 2)
    BY <1>2, CoroAssumption DEF m
  <2>2. \A i \in 1..(NCoro + 2) : i <= n => i \in 1..n
    BY <1>2
  <2> QED BY <1>2, <1>7, <1>8, <2>1, <2>2
<1>10. Among(w, 0..NCoro) = [i \in 1..n |-> w[i]]
  BY <1>8, <1>9, AmongPrefix
<1>11. [i \in 1..n |-> w[i]] = s
  <2>1. s \in Seq(0..NCoro) /\ Len(s) = n
    BY DEF IsList, n
  <2>2. \A i \in 1..n : i \in 1..(NCoro + 2) /\ i <= n
    BY <1>2, CoroAssumption DEF m
  <2>3. \A i \in 1..n : w[i] = s[i]
    BY <1>7, <2>2
  <2>4. s = [i \in 1..n |-> s[i]]
    BY <2>1
  <2> QED BY <2>3, <2>4
<1> QED BY <1>1, <1>10, <1>11

(* The lists and the contexts *)

\* R are those on the running list, which a heads, and I those on the idle
\* list; there are n frames.
Kinds(f, a, x, R, I, n) ==
  \A c \in 0..NCoro :
    /\ x[c] = "run" <=> c = a
    /\ x[c] = "resume" <=> c \in R \ {a}
    /\ x[c] \in {"fresh", "done"} <=> c \in I
    /\ x[c] = "fresh" <=> c = n /\ n > 0
    /\ x[c] = "none" <=> c > n
    /\ x[c] \in {"none", "start", "yield", "sleep"} => f[c] = NULL

\* The lists r and i, and the n frames, of the record with links f, heads a
\* and b and contexts x.  The last of r is the program's own coroutine, and
\* the last of i is the frame made last.
Holds(f, a, b, x, r, i, n) ==
  /\ f \in Links /\ x \in [0..NCoro -> Context] /\ n \in 0..NCoro
  /\ IsList(f, a, r) /\ r # <<>> /\ LastOf(r) = FirstCo
  /\ IsList(f, b, i)
  /\ n > 0 => i # <<>> /\ LastOf(i) = n
  /\ Kinds(f, a, x, Of(r), Of(i), n)

LEMMA HoldsFacts ==
  ASSUME NEW f, NEW a, NEW b, NEW x, NEW r, NEW i, NEW n,
         Holds(f, a, b, x, r, i, n)
  PROVE  /\ NCoro \in Nat /\ NCoro > 0 /\ NULL \notin 0..NCoro
         /\ n \in Nat /\ n <= NCoro
         /\ f \in Links /\ x \in [0..NCoro -> Context]
         /\ a \in 0..NCoro /\ a \in Of(r) /\ FirstCo \in Of(r)
         /\ r \in Seq(0..NCoro) /\ Of(r) \subseteq 0..n
         /\ i \in Seq(Coro) /\ Of(i) \subseteq 1..n
         /\ Of(r) \cap Of(i) = {}
         /\ b \in Coro \cup {NULL} /\ (b = NULL <=> i = <<>>)
         /\ b # NULL => b \in Of(i)
         /\ i = <<>> <=> n = 0
<1>1. NCoro \in Nat /\ NCoro > 0 /\ NULL \notin 0..NCoro
  BY CoroAssumption
<1>2. /\ n \in 0..NCoro /\ f \in Links /\ x \in [0..NCoro -> Context]
      /\ IsList(f, a, r) /\ r # <<>> /\ LastOf(r) = FirstCo
      /\ IsList(f, b, i)
      /\ n > 0 => i # <<>> /\ LastOf(i) = n
      /\ Kinds(f, a, x, Of(r), Of(i), n)
  BY DEF Holds
<1>3. n \in Nat /\ n <= NCoro
  BY <1>1, <1>2
<1>4. /\ r \in Seq(0..NCoro) /\ Of(r) \subseteq 0..NCoro /\ FirstCo \in Of(r)
      /\ a # NULL /\ a \in Of(r) /\ a \in 0..NCoro
  BY <1>2, ListFacts
<1>5. /\ i \in Seq(0..NCoro) /\ Of(i) \subseteq 0..NCoro
      /\ b \in 0..NCoro \cup {NULL} /\ (b = NULL <=> i = <<>>)
      /\ (b # NULL => b \in Of(i)) /\ (i = <<>> <=> Of(i) = {})
  BY <1>2, ListFacts
<1>6. \A c \in 0..NCoro :
        /\ x[c] = "run" <=> c = a
        /\ x[c] = "resume" <=> c \in Of(r) \ {a}
        /\ x[c] \in {"fresh", "done"} <=> c \in Of(i)
        /\ x[c] = "none" <=> c > n
  BY <1>2 DEF Kinds
<1>7. \A c \in Of(r) \cup Of(i) : c \in 0..NCoro /\ c <= n
  <2> SUFFICES ASSUME NEW c \in Of(r) \cup Of(i) PROVE c \in 0..NCoro /\ c <= n
    OBVIOUS
  <2>1. c \in 0..NCoro
    BY <1>4, <1>5
  <2>2. x[c] # "none"
    BY <1>6, <2>1
  <2>3. ~ (c > n)
    BY <1>6, <2>1, <2>2
  <2> QED BY <1>3, <2>1, <2>3
<1>8. Of(r) \cap Of(i) = {}
  <2> SUFFICES ASSUME NEW c \in Of(r), c \in Of(i) PROVE FALSE
    OBVIOUS
  <2>1. c \in 0..NCoro
    BY <1>4
  <2>2. x[c] = "run" \/ x[c] = "resume"
    BY <1>6, <2>1
  <2> QED BY <1>6, <2>1, <2>2
<1>9. FirstCo \notin Of(i)
  BY <1>4, <1>8
<1>10. Of(r) \subseteq 0..n
  BY <1>3, <1>7
<1>11. Of(i) \subseteq 1..n
  <2> SUFFICES ASSUME NEW c \in Of(i) PROVE c \in 1..n
    OBVIOUS
  <2>1. c \in 0..NCoro /\ c <= n /\ c # 0
    BY <1>7, <1>9 DEF FirstCo
  <2> QED BY <1>3, <2>1
<1>12. i \in Seq(Coro)
  <2>1. \A k \in 1..Len(i) : i[k] \in 1..n
    BY <1>11 DEF Of
  <2>2. \A k \in 1..Len(i) : i[k] \in Coro
    BY <1>1, <1>3, <2>1 DEF Coro
  <2> QED BY <1>5, <2>2
<1>13. b \in Coro \cup {NULL}
  <2>1. b # NULL => b \in 1..n
    BY <1>5, <1>11
  <2> QED BY <1>1, <1>3, <2>1 DEF Coro
<1>14. i = <<>> <=> n = 0
  <2>1. n = 0 => Of(i) = {}
    BY <1>11
  <2> QED BY <1>2, <1>3, <1>5, <2>1
<1> QED BY <1>1, <1>2, <1>3, <1>4, <1>5, <1>8, <1>10, <1>11, <1>12, <1>13, <1>14

(* What the calls do *)

Waits == {"start", "yield", "sleep"}

LEMMA ResumeHolds ==
  ASSUME NEW f, NEW a, NEW b, NEW x, NEW r, NEW i, NEW n,
         Holds(f, a, b, x, r, i, n), NEW c \in Coro, x[c] \in Waits,
         NEW g, g = PutAt(f, c, a), NEW y, y = Hop(x, a, "resume", c),
         NEW s, s = Onto(c, r)
  PROVE  /\ Resume(Co(f, a, b, x), c) = Co(g, c, b, y)
         /\ Holds(g, c, b, y, s, i, n)
         /\ y \in [0..NCoro -> Context] /\ y[c] = "run" /\ y[a] = "resume"
         /\ \A d \in 0..NCoro : d # a /\ d # c => y[d] = x[d]
         /\ c # a
<1>1. /\ NCoro \in Nat /\ f \in Links /\ x \in [0..NCoro -> Context]
      /\ a \in 0..NCoro /\ a \in Of(r) /\ Of(r) \cap Of(i) = {}
  BY HoldsFacts
<1>2. /\ n \in 0..NCoro
      /\ IsList(f, a, r) /\ r # <<>> /\ LastOf(r) = FirstCo
      /\ IsList(f, b, i)
      /\ n > 0 => i # <<>> /\ LastOf(i) = n
      /\ Kinds(f, a, x, Of(r), Of(i), n)
  BY DEF Holds
<1>3. c \in 0..NCoro
  BY <1>1 DEF Coro
<1>4. c # a /\ c \notin Of(r) /\ c \notin Of(i)
  BY <1>2, <1>3 DEF Kinds, Waits
<1>5. Resume(Co(f, a, b, x), c) = Co(g, c, b, y)
  <2> DEFINE q == Co(g, c, b, x)
  <2>1. Push(Co(f, a, b, x), "running", c) = q
    BY PushRunning
  <2>2. q.next[c] = a
    <3>1. q.next = g
      BY CoFields
    <3>2. g[c] = a
      BY <1>1, <1>3 DEF Links, PutAt
    <3> QED BY <3>1, <3>2
  <2>3. Pass(q, a, "resume") = Co(g, c, b, y)
    BY PassIs
  <2> HIDE DEF q
  <2>4. Resume(Co(f, a, b, x), c) = Pass(q, q.next[c], "resume")
    BY <2>1 DEF Resume
  <2> QED BY <2>2, <2>3, <2>4
<1>6. /\ g \in Links /\ IsList(g, c, s)
      /\ Of(s) = Of(r) \cup {c} /\ s # <<>> /\ LastOf(s) = LastOf(r)
  BY <1>1, <1>2, <1>3, <1>4, PushList
<1>7. IsList(g, b, i)
  BY <1>1, <1>2, <1>3, <1>4, OtherList
<1>8. /\ y \in [0..NCoro -> Context]
      /\ y[c] = "run" /\ y[a] = "resume"
      /\ \A d \in 0..NCoro : d # a /\ d # c => y[d] = x[d] /\ g[d] = f[d]
  BY <1>1, <1>3, <1>4 DEF Context, Links, PutAt, Hop
<1>9. Kinds(g, c, y, Of(s), Of(i), n)
  <2> SUFFICES ASSUME NEW d \in 0..NCoro
               PROVE  /\ y[d] = "run" <=> d = c
                      /\ y[d] = "resume" <=> d \in Of(s) \ {c}
                      /\ y[d] \in {"fresh", "done"} <=> d \in Of(i)
                      /\ y[d] = "fresh" <=> d = n /\ n > 0
                      /\ y[d] = "none" <=> d > n
                      /\ y[d] \in {"none", "start", "yield", "sleep"}
                           => g[d] = NULL
    BY DEF Kinds
  <2>1. /\ x[d] = "run" <=> d = a
        /\ x[d] = "resume" <=> d \in Of(r) \ {a}
        /\ x[d] \in {"fresh", "done"} <=> d \in Of(i)
        /\ x[d] = "fresh" <=> d = n /\ n > 0
        /\ x[d] = "none" <=> d > n
        /\ x[d] \in {"none", "start", "yield", "sleep"} => f[d] = NULL
    BY <1>2 DEF Kinds
  <2>2. CASE d = a
    <3>1. x[d] = "run" /\ y[d] = "resume"
      BY <1>8, <2>1, <2>2
    <3> QED BY <1>1, <1>4, <1>6, <2>1, <2>2, <3>1
  <2>3. CASE d = c
    <3>1. x[d] \in {"start", "yield", "sleep"} /\ y[d] = "run"
      BY <1>8, <2>3 DEF Waits
    <3> QED BY <1>4, <2>1, <2>3, <3>1
  <2>4. CASE d # a /\ d # c
    <3>1. y[d] = x[d] /\ g[d] = f[d]
      BY <1>8, <2>4
    <3> QED BY <1>6, <2>1, <2>4, <3>1
  <2> QED BY <2>2, <2>3, <2>4
<1>10. Holds(g, c, b, y, s, i, n)
  BY <1>2, <1>6, <1>7, <1>8, <1>9 DEF Holds
<1> QED BY <1>4, <1>5, <1>8, <1>10

\* The one that has the CPU, if it is not the program, leaves the running list
\* to the one that has resumed it.
LEMMA RunnerLeaves ==
  ASSUME NEW f, NEW a, NEW b, NEW x, NEW r, NEW i, NEW n,
         Holds(f, a, b, x, r, i, n), a # FirstCo,
         NEW g, g = PutAt(f, a, NULL), NEW t, t = Below(r)
  PROVE  /\ a \in Coro /\ a \in 1..n /\ r # <<>> /\ r[1] = a
         /\ g \in Links /\ IsList(g, f[a], t) /\ IsList(g, b, i)
         /\ Of(t) = Of(r) \ {a} /\ t # <<>> /\ LastOf(t) = FirstCo
         /\ f[a] \in Of(t) /\ f[a] \in 0..NCoro /\ f[a] # a
<1>1. /\ NCoro \in Nat /\ NCoro > 0 /\ f \in Links /\ NULL \notin 0..NCoro
      /\ a \in 0..NCoro /\ a \in Of(r) /\ Of(r) \subseteq 0..n
      /\ n \in Nat /\ n <= NCoro /\ Of(r) \cap Of(i) = {}
      /\ r \in Seq(0..NCoro) /\ FirstCo \in Of(r)
  BY HoldsFacts
<1>2. IsList(f, a, r) /\ r # <<>> /\ LastOf(r) = FirstCo /\ IsList(f, b, i)
  BY DEF Holds
<1>3. a \in 1..n /\ a \in Coro
  BY <1>1 DEF FirstCo, Coro
<1>4. /\ g \in Links /\ IsList(g, f[a], t) /\ Of(t) = Of(r) \ {a} /\ a = r[1]
      /\ t # <<>> => LastOf(t) = LastOf(r)
  BY <1>1, <1>2, PopList
<1>5. IsList(g, b, i)
  BY <1>1, <1>2, OtherList
<1>6. t # <<>>
  <2>1. FirstCo \in Of(t)
    BY <1>1, <1>4
  <2> QED BY <1>4, <2>1, ListFacts
<1>7. f[a] \in Of(t) /\ f[a] \in 0..NCoro
  <2>1. f[a] = t[1] /\ f[a] # NULL
    <3>1. f[a] = NULL <=> t = <<>>
      BY <1>4, ListFacts
    <3>2. f[a] # NULL => f[a] = t[1]
      BY <1>4, ListFacts
    <3> QED BY <1>6, <3>1, <3>2
  <2>2. f[a] \in Of(t)
    BY <1>4, <2>1, ListFacts
  <2> QED BY <1>4, <2>1, <2>2, ListFacts
<1> QED BY <1>2, <1>3, <1>4, <1>5, <1>6, <1>7

LEMMA YieldHolds ==
  ASSUME NEW f, NEW a, NEW b, NEW x, NEW r, NEW i, NEW n,
         Holds(f, a, b, x, r, i, n), a # FirstCo,
         NEW there \in {"yield", "sleep"},
         NEW e, e = f[a], NEW g, g = PutAt(f, a, NULL),
         NEW y, y = Hop(x, a, there, e),
         NEW t, t = Below(r)
  PROVE  /\ Yield(Co(f, a, b, x), there) = Co(g, e, b, y)
         /\ Holds(g, e, b, y, t, i, n)
         /\ y \in [0..NCoro -> Context] /\ y[e] = "run" /\ y[a] = there
         /\ \A d \in 0..NCoro : d # a /\ d # e => y[d] = x[d]
         /\ a # e /\ e \in 0..NCoro /\ x[e] = "resume"
<1>1. /\ NCoro \in Nat /\ f \in Links /\ x \in [0..NCoro -> Context]
      /\ a \in 0..NCoro /\ a \in Of(r) /\ Of(r) \cap Of(i) = {}
  BY HoldsFacts
<1>2. /\ n \in 0..NCoro
      /\ IsList(f, a, r) /\ r # <<>> /\ LastOf(r) = FirstCo
      /\ IsList(f, b, i)
      /\ n > 0 => i # <<>> /\ LastOf(i) = n
      /\ Kinds(f, a, x, Of(r), Of(i), n)
  BY DEF Holds
<1>3. /\ g \in Links /\ IsList(g, e, t) /\ IsList(g, b, i)
      /\ Of(t) = Of(r) \ {a} /\ t # <<>> /\ LastOf(t) = FirstCo
      /\ e \in Of(t) /\ e \in 0..NCoro /\ e # a
  BY RunnerLeaves
<1>4. Yield(Co(f, a, b, x), there) = Co(g, e, b, y)
  <2>1. Pop(Co(f, a, b, x), "running") = Co(g, e, b, x)
    BY PopRunning
  <2>2. Co(f, a, b, x).running = a
    BY CoFields
  <2>3. Pass(Co(g, e, b, x), a, there) = Co(g, e, b, y)
    BY PassIs
  <2> DEFINE q == Co(f, a, b, x)
             u == Co(g, e, b, x)
             v == Co(g, e, b, y)
  <2> HIDE DEF q, u, v
  <2>4. Pop(q, "running") = u /\ q.running = a /\ Pass(u, a, there) = v
    BY <2>1, <2>2, <2>3 DEF q, u, v
  <2>5. Yield(q, there) = v
    BY <2>4 DEF Yield
  <2> QED BY <2>5 DEF q, v
<1>5. /\ y \in [0..NCoro -> Context]
      /\ y[e] = "run" /\ y[a] = there /\ g[a] = NULL
      /\ \A d \in 0..NCoro : d # a /\ d # e => y[d] = x[d]
      /\ \A d \in 0..NCoro : d # a => g[d] = f[d]
  <2>1. g[a] = NULL /\ \A d \in 0..NCoro : d # a => g[d] = f[d]
    BY <1>1 DEF Links, PutAt
  <2>2. /\ y \in [0..NCoro -> Context]
        /\ y[e] = "run" /\ y[a] = there
        /\ \A d \in 0..NCoro : d # a /\ d # e => y[d] = x[d]
    BY <1>1, <1>3 DEF Context, Hop
  <2> QED BY <2>1, <2>2
<1>6. Kinds(g, e, y, Of(t), Of(i), n)
  <2> SUFFICES ASSUME NEW d \in 0..NCoro
               PROVE  /\ y[d] = "run" <=> d = e
                      /\ y[d] = "resume" <=> d \in Of(t) \ {e}
                      /\ y[d] \in {"fresh", "done"} <=> d \in Of(i)
                      /\ y[d] = "fresh" <=> d = n /\ n > 0
                      /\ y[d] = "none" <=> d > n
                      /\ y[d] \in {"none", "start", "yield", "sleep"}
                           => g[d] = NULL
    BY DEF Kinds
  <2>1. /\ x[d] = "run" <=> d = a
        /\ x[d] = "resume" <=> d \in Of(r) \ {a}
        /\ x[d] \in {"fresh", "done"} <=> d \in Of(i)
        /\ x[d] = "fresh" <=> d = n /\ n > 0
        /\ x[d] = "none" <=> d > n
        /\ x[d] \in {"none", "start", "yield", "sleep"} => f[d] = NULL
    BY <1>2 DEF Kinds
  <2>2. CASE d = a
    <3>1. x[d] = "run" /\ y[d] \in {"yield", "sleep"} /\ g[d] = NULL
      BY <1>5, <2>1, <2>2
    <3> QED BY <1>1, <1>3, <2>1, <2>2, <3>1
  <2>3. CASE d = e
    <3>1. x[d] = "resume" /\ y[d] = "run"
      BY <1>3, <1>5, <2>1, <2>3
    <3> QED BY <2>1, <2>3, <3>1
  <2>4. CASE d # a /\ d # e
    <3>1. y[d] = x[d] /\ g[d] = f[d]
      BY <1>5, <2>4
    <3> QED BY <1>3, <2>1, <2>4, <3>1
  <2> QED BY <2>2, <2>3, <2>4
<1>7. Holds(g, e, b, y, t, i, n)
  BY <1>2, <1>3, <1>5, <1>6 DEF Holds
<1>8. x[e] = "resume"
  BY <1>2, <1>3 DEF Kinds
<1> QED BY <1>3, <1>4, <1>5, <1>7, <1>8

LEMMA YieldIs ==
  ASSUME NEW f, NEW a, NEW b, NEW x, NEW there
  PROVE  Yield(Co(f, a, b, x), there)
           = Co(PutAt(f, a, NULL), f[a], b, Hop(x, a, there, f[a]))
<1> DEFINE q == Co(f, a, b, x)
           u == Co(PutAt(f, a, NULL), f[a], b, x)
           v == Co(PutAt(f, a, NULL), f[a], b, Hop(x, a, there, f[a]))
<1>1. Pop(q, "running") = u
  BY PopRunning
<1>2. q.running = a
  BY CoFields
<1>3. Pass(u, a, there) = v
  BY PassIs
<1> HIDE DEF q, u, v
<1>4. Yield(q, there) = v
  BY <1>1, <1>2, <1>3 DEF Yield
<1> QED BY <1>4 DEF q, v

LEMMA FinishHolds ==
  ASSUME NEW f, NEW a, NEW b, NEW x, NEW r, NEW i, NEW n,
         Holds(f, a, b, x, r, i, n), a # FirstCo,
         NEW e, e = f[a], NEW g, g = PutAt(f, a, NULL), NEW h, h = PutAt(g, a, b),
         NEW y, y = Hop(x, a, "done", e),
         NEW t, t = Below(r), NEW j, j = Onto(a, i)
  PROVE  /\ Finish(Co(f, a, b, x)) = Co(h, e, a, y)
         /\ Holds(h, e, a, y, t, j, n)
         /\ y \in [0..NCoro -> Context] /\ y[e] = "run" /\ y[a] = "done"
         /\ \A d \in 0..NCoro : d # a /\ d # e => y[d] = x[d]
         /\ a # e /\ e \in 0..NCoro /\ x[e] = "resume"
<1>1. /\ NCoro \in Nat /\ f \in Links /\ x \in [0..NCoro -> Context]
      /\ a \in 0..NCoro /\ a \in Of(r) /\ Of(r) \cap Of(i) = {}
      /\ b \in Coro \cup {NULL} /\ n \in Nat
  BY HoldsFacts
<1>2. /\ n \in 0..NCoro
      /\ IsList(f, a, r) /\ r # <<>> /\ LastOf(r) = FirstCo
      /\ IsList(f, b, i)
      /\ n > 0 => i # <<>> /\ LastOf(i) = n
      /\ Kinds(f, a, x, Of(r), Of(i), n)
  BY DEF Holds
<1>3. /\ g \in Links /\ IsList(g, e, t) /\ IsList(g, b, i) /\ a \in 1..n
      /\ Of(t) = Of(r) \ {a} /\ t # <<>> /\ LastOf(t) = FirstCo
      /\ e \in Of(t) /\ e \in 0..NCoro /\ e # a
  BY RunnerLeaves
<1>4. Finish(Co(f, a, b, x)) = Co(h, e, a, y)
  <2> DEFINE q == Co(f, a, b, x)
             u == Co(g, e, b, x)
             v == Co(h, e, a, x)
             w == Co(h, e, a, y)
  <2>1. Pop(q, "running") = u
    BY PopRunning
  <2>2. q.running = a
    BY CoFields
  <2>3. Push(u, "idle", a) = v
    BY PushIdle
  <2>4. Pass(v, a, "done") = w
    BY PassIs
  <2> HIDE DEF q, u, v, w
  <2>5. Finish(q) = w
    BY <2>1, <2>2, <2>3, <2>4 DEF Finish
  <2> QED BY <2>5 DEF q, w
<1>5. a \notin Of(i) /\ a \notin Of(t)
  BY <1>1, <1>3
<1>6. /\ h \in Links /\ IsList(h, a, j) /\ Of(j) = Of(i) \cup {a} /\ j # <<>>
      /\ i # <<>> => LastOf(j) = LastOf(i)
  BY <1>1, <1>3, <1>5, PushList
<1>7. IsList(h, e, t)
  BY <1>1, <1>3, <1>5, OtherList
<1>8. \A d \in 0..NCoro : d # a => h[d] = f[d]
  BY <1>1, <1>3 DEF Links, PutAt
<1>9. /\ y \in [0..NCoro -> Context]
      /\ y[e] = "run" /\ y[a] = "done"
      /\ \A d \in 0..NCoro : d # a /\ d # e => y[d] = x[d]
  BY <1>1, <1>3 DEF Context, Hop
<1>10. Kinds(h, e, y, Of(t), Of(j), n)
  <2> SUFFICES ASSUME NEW d \in 0..NCoro
               PROVE  /\ y[d] = "run" <=> d = e
                      /\ y[d] = "resume" <=> d \in Of(t) \ {e}
                      /\ y[d] \in {"fresh", "done"} <=> d \in Of(j)
                      /\ y[d] = "fresh" <=> d = n /\ n > 0
                      /\ y[d] = "none" <=> d > n
                      /\ y[d] \in {"none", "start", "yield", "sleep"}
                           => h[d] = NULL
    BY DEF Kinds
  <2>1. /\ x[d] = "run" <=> d = a
        /\ x[d] = "resume" <=> d \in Of(r) \ {a}
        /\ x[d] \in {"fresh", "done"} <=> d \in Of(i)
        /\ x[d] = "fresh" <=> d = n /\ n > 0
        /\ x[d] = "none" <=> d > n
        /\ x[d] \in {"none", "start", "yield", "sleep"} => f[d] = NULL
    BY <1>2 DEF Kinds
  <2>2. CASE d = a
    <3>1. x[d] = "run" /\ y[d] = "done"
      BY <1>9, <2>1, <2>2
    <3> QED BY <1>3, <1>6, <2>1, <2>2, <3>1
  <2>3. CASE d = e
    <3>1. x[d] = "resume" /\ y[d] = "run"
      BY <1>3, <1>9, <2>1, <2>3
    <3> QED BY <1>3, <1>6, <2>1, <2>3, <3>1
  <2>4. CASE d # a /\ d # e
    <3>1. y[d] = x[d] /\ h[d] = f[d]
      BY <1>8, <1>9, <2>4
    <3> QED BY <1>3, <1>6, <2>1, <2>4, <3>1
  <2> QED BY <2>2, <2>3, <2>4
<1>11. n > 0 => j # <<>> /\ LastOf(j) = n
  BY <1>2, <1>6
<1>12. Holds(h, e, a, y, t, j, n)
  BY <1>2, <1>3, <1>6, <1>7, <1>9, <1>10, <1>11 DEF Holds
<1>13. x[e] = "resume"
  BY <1>2, <1>3 DEF Kinds
<1> QED BY <1>3, <1>4, <1>9, <1>12, <1>13

LEMMA ForkIs ==
  ASSUME NEW f, NEW a, NEW b, NEW x, NEW n \in 0..NCoro,
         \A c \in 0..NCoro : x[c] = "none" <=> c > n
  PROVE  /\ Cardinality(Frames(Co(f, a, b, x))) = n
         /\ Fork(Co(f, a, b, x))
              = Co(PutAt(f, n + 1, b), a, n + 1, PutAt(x, n + 1, "fresh"))
<1> DEFINE q == Co(f, a, b, x)
           m == n + 1
           u == Co(PutAt(f, m, b), a, m, x)
           v == Co(PutAt(f, m, b), a, m, PutAt(x, m, "fresh"))
<1>1. NCoro \in Nat /\ n \in Nat
  BY CoroAssumption
<1>2. q.ctx = x
  BY CoFields
<1>3. Push(q, "idle", m) = u
  BY PushIdle
<1>4. Freshened(u, m) = v
  BY FreshIs
<1> HIDE DEF q, u, v
<1>5. Frames(q) = 1..n
  <2>1. Frames(q) = {c \in 1..NCoro : x[c] # "none"}
    BY <1>2 DEF Frames, Coro
  <2>2. \A c \in 1..NCoro : x[c] # "none" <=> c <= n
    BY <1>1
  <2>3. \A c \in 1..n : c \in 1..NCoro /\ c <= n
    BY <1>1
  <2>4. \A c \in 1..NCoro : c <= n => c \in 1..n
    BY <1>1
  <2> QED BY <2>1, <2>2, <2>3, <2>4
<1>6. Cardinality(Frames(q)) = n
  <2>1. (1 > n) <=> (n = 0)
    BY <1>1
  <2>2. n - 1 + 1 = n
    BY <1>1
  <2> QED BY <1>1, <1>5, <2>1, <2>2, FS_Interval
<1>7. Fork(q) = Freshened(Push(q, "idle", m), m)
  BY <1>6 DEF Fork, Freshened
<1>8. Fork(q) = v
  BY <1>3, <1>4, <1>7
<1> QED BY <1>6, <1>8 DEF q, v

LEMMA SingleList ==
  ASSUME NEW f \in Links, NEW c \in 0..NCoro, f[c] = NULL
  PROVE  LET j == Onto(c, <<>>)
         IN  IsList(f, c, j) /\ Of(j) = {c} /\ j # <<>> /\ LastOf(j) = c
<1> DEFINE j == Onto(c, <<>>)
<1>1. j \in Seq(0..NCoro) /\ Len(j) = 1 /\ j[1] = c
  BY DEF Onto
<1> HIDE DEF j
<1>2. j # <<>>
  BY <1>1, ItemsAre
<1>3. \A k \in 1..1 : k = 1
  OBVIOUS
<1>4. IsList(f, c, j)
  BY <1>1, <1>2, <1>3 DEF IsList
<1>5. Of(j) = {c}
  BY <1>1, <1>3 DEF Of
<1>6. LastOf(j) = c
  BY <1>1 DEF LastOf
<1> QED BY <1>2, <1>4, <1>5, <1>6 DEF j

\* After coroutine_start there is one coroutine, and it is fresh.
LEMMA FirstFork ==
  ASSUME NEW f, NEW a, NEW x, NEW r, NEW i, NEW n,
         Holds(f, a, NULL, x, r, i, n),
         NEW g, g = PutAt(f, 1, NULL), NEW y, y = PutAt(x, 1, "fresh"),
         NEW j, j = Onto(1, <<>>)
  PROVE  /\ n = 0 /\ Fork(Co(f, a, NULL, x)) = Co(g, a, 1, y)
         /\ Holds(g, a, 1, y, r, j, 1)
         /\ y \in [0..NCoro -> Context] /\ y[1] = "fresh" /\ x[1] = "none"
         /\ \A d \in 0..NCoro : d # 1 => y[d] = x[d]
<1>1. /\ NCoro \in Nat /\ NCoro > 0 /\ f \in Links /\ x \in [0..NCoro -> Context]
      /\ a \in Of(r) /\ n = 0 /\ Of(r) \subseteq 0..n /\ i = <<>>
      /\ Of(i) \subseteq 1..n
  BY HoldsFacts
<1>2. /\ IsList(f, a, r) /\ r # <<>> /\ LastOf(r) = FirstCo
      /\ Kinds(f, a, x, Of(r), Of(i), n)
  BY DEF Holds
<1>3. 1 \in 0..NCoro /\ 1 \notin Of(r) /\ \A d \in Of(r) : d = 0
  <2>1. \A d \in 0..0 : d = 0
    OBVIOUS
  <2> QED BY <1>1, <2>1
<1>4. \A c \in 0..NCoro : x[c] = "none" <=> c > 0
  BY <1>1, <1>2 DEF Kinds
<1>5. Fork(Co(f, a, NULL, x)) = Co(g, a, 1, y)
  <2>1. 0 \in 0..NCoro /\ 0 + 1 = 1
    BY <1>1
  <2> DEFINE z == 0
  <2>2. z \in 0..NCoro /\ \A c \in 0..NCoro : x[c] = "none" <=> c > z
    BY <1>4, <2>1
  <2>3. z + 1 = 1
    BY <2>1
  <2> HIDE DEF z
  <2>4. Fork(Co(f, a, NULL, x))
          = Co(PutAt(f, z + 1, NULL), a, z + 1, PutAt(x, z + 1, "fresh"))
    BY <2>2, ForkIs
  <2> QED BY <2>3, <2>4
<1>6. g \in Links /\ g[1] = NULL /\ \A d \in 0..NCoro : d # 1 => g[d] = f[d]
  BY <1>1, <1>3 DEF Links, PutAt
<1>7. IsList(g, a, r)
  BY <1>1, <1>2, <1>3, OtherList
<1>8. IsList(g, 1, j) /\ Of(j) = {1} /\ j # <<>> /\ LastOf(j) = 1
  BY <1>3, <1>6, SingleList
<1>9. /\ y \in [0..NCoro -> Context] /\ y[1] = "fresh"
      /\ \A d \in 0..NCoro : d # 1 => y[d] = x[d]
  BY <1>1, <1>3 DEF Context, PutAt
<1>10. Kinds(g, a, y, Of(r), Of(j), 1)
  <2> SUFFICES ASSUME NEW d \in 0..NCoro
               PROVE  /\ y[d] = "run" <=> d = a
                      /\ y[d] = "resume" <=> d \in Of(r) \ {a}
                      /\ y[d] \in {"fresh", "done"} <=> d \in Of(j)
                      /\ y[d] = "fresh" <=> d = 1 /\ 1 > 0
                      /\ y[d] = "none" <=> d > 1
                      /\ y[d] \in {"none", "start", "yield", "sleep"}
                           => g[d] = NULL
    BY DEF Kinds
  <2>1. /\ x[d] = "run" <=> d = a
        /\ x[d] = "resume" <=> d \in Of(r) \ {a}
        /\ x[d] \in {"fresh", "done"} <=> d \in Of(i)
        /\ x[d] = "fresh" <=> d = n /\ n > 0
        /\ x[d] = "none" <=> d > n
        /\ x[d] \in {"none", "start", "yield", "sleep"} => f[d] = NULL
    BY <1>2 DEF Kinds
  <2>2. CASE d = 1
    <3>1. y[d] = "fresh"
      BY <1>9, <2>2
    <3> QED BY <1>1, <1>3, <1>8, <2>2, <3>1
  <2>3. CASE d # 1
    <3>1. y[d] = x[d] /\ g[d] = f[d]
      BY <1>6, <1>9, <2>3
    <3>2. (d > 1 <=> d > n) /\ d \notin Of(i) /\ x[d] # "fresh"
      BY <1>1, <2>1, <2>3
    <3> QED BY <1>8, <2>1, <2>3, <3>1, <3>2
  <2> QED BY <2>2, <2>3
<1>11. Holds(g, a, 1, y, r, j, 1)
  BY <1>2, <1>3, <1>6, <1>7, <1>8, <1>9, <1>10 DEF Holds
<1>12. x[1] = "none"
  BY <1>3, <1>4
<1> QED BY <1>1, <1>5, <1>9, <1>11, <1>12

\* An idle coroutine that is resumed has the CPU.
LEMMA ActivationBegins ==
  ASSUME NEW f, NEW a, NEW b, NEW x, NEW r, NEW i, NEW n,
         Holds(f, a, b, x, r, i, n), b # NULL,
         NEW g, g = PutAt(PutAt(f, b, NULL), b, a),
         NEW y, y = Hop(x, a, "resume", b)
  PROVE  /\ Resume(Pop(Co(f, a, b, x), "idle"), b) = Co(g, b, f[b], y)
         /\ g \in Links /\ g[b] = a
         /\ \A d \in 0..NCoro : d # b => g[d] = f[d]
         /\ y \in [0..NCoro -> Context] /\ y[a] = "resume" /\ y[b] = "run"
         /\ \A d \in 0..NCoro : d # a /\ d # b => y[d] = x[d]
         /\ a # b /\ a \in 0..NCoro /\ b \in 0..NCoro
         /\ x[a] = "run" /\ x[b] \in {"fresh", "done"}
<1>1. /\ NCoro \in Nat /\ f \in Links /\ x \in [0..NCoro -> Context]
      /\ a \in 0..NCoro /\ a \in Of(r) /\ Of(r) \cap Of(i) = {}
      /\ b \in Coro \cup {NULL} /\ b \in Of(i)
  BY HoldsFacts
<1>2. b \in 0..NCoro /\ a # b
  BY <1>1 DEF Coro
<1>3. x[a] = "run" /\ x[b] \in {"fresh", "done"}
  BY <1>1, <1>2 DEF Holds, Kinds
<1>4. g \in Links /\ g[b] = a /\ \A d \in 0..NCoro : d # b => g[d] = f[d]
  BY <1>1, <1>2 DEF Links, PutAt
<1>5. /\ y \in [0..NCoro -> Context] /\ y[a] = "resume" /\ y[b] = "run"
      /\ \A d \in 0..NCoro : d # a /\ d # b => y[d] = x[d]
  BY <1>1, <1>2 DEF Context, Hop
<1>6. Resume(Pop(Co(f, a, b, x), "idle"), b) = Co(g, b, f[b], y)
  <2> DEFINE q == Co(f, a, b, x)
             u == Co(PutAt(f, b, NULL), a, f[b], x)
             v == Co(g, b, f[b], x)
             w == Co(g, b, f[b], y)
  <2>1. Pop(q, "idle") = u
    BY PopIdle
  <2>2. Push(u, "running", b) = v
    BY PushRunning
  <2>3. v.next = g
    BY CoFields
  <2>4. Pass(v, a, "resume") = w
    BY PassIs
  <2> HIDE DEF q, u, v, w
  <2>5. Resume(u, b) = Pass(v, v.next[b], "resume")
    BY <2>2 DEF Resume
  <2>6. Resume(Pop(q, "idle"), b) = w
    BY <1>4, <2>1, <2>3, <2>4, <2>5
  <2> QED BY <2>6 DEF q, w
<1> QED BY <1>1, <1>2, <1>3, <1>4, <1>5, <1>6

\* From the one record to the other, the coroutine c was made ready.
Readied(f, a, b, x, r, c, g, e, z, j, m) ==
  /\ Holds(g, a, e, z, r, j, m)
  /\ c \in Coro /\ x[c] \in {"none", "fresh", "done"} /\ z[c] = "start"
  /\ \A d \in 0..NCoro : d # c => (z[d] = x[d]
                          \/ (x[d] = "none" /\ z[d] = "fresh"))

\* What coroutine() does to an idle list that is not empty: its head is taken
\* off it and waits, and if it was fresh another one is there instead.
LEMMA ActivateHolds ==
  ASSUME NEW f, NEW a, NEW b, NEW x, NEW r, NEW i, NEW n,
         Holds(f, a, b, x, r, i, n), b # NULL,
         x[b] = "fresh" => n + 1 <= NCoro
  PROVE  \E h, e, z, j, m :
           /\ Activated(Co(f, a, b, x), b) = Co(h, a, e, z)
           /\ Readied(f, a, b, x, r, b, h, e, z, j, m)
<1> DEFINE g == PutAt(PutAt(f, b, NULL), b, a)
           y == Hop(x, a, "resume", b)
           q == Co(g, b, f[b], y)
<1>1. /\ NCoro \in Nat /\ f \in Links /\ x \in [0..NCoro -> Context]
      /\ a \in 0..NCoro /\ a \in Of(r) /\ Of(r) \cap Of(i) = {}
      /\ b \in Coro \cup {NULL} /\ b \in Of(i) /\ n \in Nat /\ n <= NCoro
      /\ Of(r) \subseteq 0..n /\ Of(i) \subseteq 1..n /\ NULL \notin 0..NCoro
      /\ i # <<>>
  BY HoldsFacts
<1>2. /\ n \in 0..NCoro
      /\ IsList(f, a, r) /\ r # <<>> /\ LastOf(r) = FirstCo
      /\ IsList(f, b, i)
      /\ n > 0 => i # <<>> /\ LastOf(i) = n
      /\ Kinds(f, a, x, Of(r), Of(i), n)
  BY DEF Holds
<1>3. /\ Resume(Pop(Co(f, a, b, x), "idle"), b) = q
      /\ g \in Links /\ g[b] = a
      /\ \A d \in 0..NCoro : d # b => g[d] = f[d]
      /\ y \in [0..NCoro -> Context] /\ y[a] = "resume" /\ y[b] = "run"
      /\ \A d \in 0..NCoro : d # a /\ d # b => y[d] = x[d]
      /\ a # b /\ a \in 0..NCoro /\ b \in 0..NCoro
      /\ x[a] = "run" /\ x[b] \in {"fresh", "done"}
  <2> HIDE DEF g, y
  <2>1. g = PutAt(PutAt(f, b, NULL), b, a) /\ y = Hop(x, a, "resume", b)
    BY DEF g, y
  <2> QED BY <2>1, ActivationBegins
<1>4. Co(f, a, b, x).ctx = x
  BY CoFields
<1>5. b \in Coro /\ b \in 1..n /\ n > 0 /\ LastOf(i) = n
  <2>1. b \in 1..n
    BY <1>1
  <2> QED BY <1>1, <1>2, <2>1
<1>6. \A c \in 0..NCoro :
        /\ x[c] = "run" <=> c = a
        /\ x[c] = "resume" <=> c \in Of(r) \ {a}
        /\ x[c] \in {"fresh", "done"} <=> c \in Of(i)
        /\ x[c] = "fresh" <=> c = n /\ n > 0
        /\ x[c] = "none" <=> c > n
        /\ x[c] \in {"none", "start", "yield", "sleep"} => f[c] = NULL
  BY <1>2 DEF Kinds
<1> HIDE DEF g, y
<1>7. CASE x[b] = "done"
  <2> DEFINE h == PutAt(g, b, NULL)
             z == Hop(y, b, "start", a)
             j == Below(i)
             e == f[b]
  <2>1. Activated(Co(f, a, b, x), b) = Co(h, a, e, z)
    <3>1. Yield(q, "start") = Co(h, a, e, z)
      BY <1>3, YieldIs
    <3> DEFINE o == Co(f, a, b, x)
               v == Co(h, a, e, z)
    <3> HIDE DEF q, o, v
    <3>2. Resume(Pop(o, "idle"), b) = q /\ o.ctx = x /\ Yield(q, "start") = v
      BY <1>3, <1>4, <3>1 DEF o, v
    <3>3. Activated(o, b) = v
      BY <1>7, <3>2 DEF Activated
    <3> QED BY <3>3 DEF o, v
  <2>2. /\ h \in Links /\ h[b] = NULL
        /\ \A d \in 0..NCoro : d # b => h[d] = f[d]
    BY <1>3 DEF Links, PutAt
  <2>3. /\ z \in [0..NCoro -> Context] /\ z[b] = "start" /\ z[a] = "run"
        /\ \A d \in 0..NCoro : d # a /\ d # b => z[d] = x[d]
    BY <1>3 DEF Context, Hop
  <2>4. /\ IsList(h, e, j) /\ Of(j) = Of(i) \ {b}
        /\ j # <<>> => LastOf(j) = LastOf(i)
    <3>1. /\ IsList(PutAt(f, b, NULL), e, j) /\ Of(j) = Of(i) \ {b}
          /\ PutAt(f, b, NULL) \in Links
          /\ j # <<>> => LastOf(j) = LastOf(i)
      BY <1>1, <1>2, PopList
    <3>2. \A d \in 0..NCoro : d # b => PutAt(f, b, NULL)[d] = f[d]
      BY <1>1 DEF Links, PutAt
    <3> HIDE DEF h, j, e
    <3>3. \A d \in Of(j) : d \in 0..NCoro /\ d # b
      BY <1>2, <3>1, ListFacts
    <3>4. \A d \in Of(j) : h[d] = PutAt(f, b, NULL)[d]
      BY <2>2, <3>2, <3>3
    <3>5. IsList(h, e, j)
      BY <2>2, <3>1, <3>4, ListsFrom
    <3> QED BY <3>1, <3>5
  <2> HIDE DEF h, z, j, e
  <2>5. IsList(h, a, r)
    <3>1. \A d \in Of(r) : d \in 0..NCoro /\ d # b
      BY <1>1, <1>2, ListFacts
    <3> QED BY <1>1, <1>2, <2>2, <3>1, ListsFrom
  <2>6. j # <<>> /\ LastOf(j) = n
    <3>1. n \in Of(i) /\ n # b
      <4>1. n \in Of(i)
        BY <1>1, <1>2, <1>5, ListFacts
      <4> QED BY <1>2, <1>5, <1>6, <1>7, <4>1
    <3>2. n \in Of(j)
      BY <2>4, <3>1
    <3> QED BY <1>5, <2>2, <2>4, <3>2, ListFacts
  <2>7. Kinds(h, a, z, Of(r), Of(j), n)
    <3> SUFFICES ASSUME NEW d \in 0..NCoro
                 PROVE  /\ z[d] = "run" <=> d = a
                        /\ z[d] = "resume" <=> d \in Of(r) \ {a}
                        /\ z[d] \in {"fresh", "done"} <=> d \in Of(j)
                        /\ z[d] = "fresh" <=> d = n /\ n > 0
                        /\ z[d] = "none" <=> d > n
                        /\ z[d] \in {"none", "start", "yield", "sleep"}
                             => h[d] = NULL
      BY DEF Kinds
    <3>1. CASE d = b
      BY <1>1, <1>3, <1>6, <1>7, <2>2, <2>3, <2>4, <3>1
    <3>2. CASE d = a
      BY <1>1, <1>3, <1>6, <2>2, <2>3, <2>4, <3>2
    <3>3. CASE d # a /\ d # b
      <4>1. z[d] = x[d] /\ h[d] = f[d]
        BY <2>2, <2>3, <3>3
      <4> QED BY <1>6, <2>4, <3>3, <4>1
    <3> QED BY <3>1, <3>2, <3>3
  <2>8. Holds(h, a, e, z, r, j, n)
    BY <1>2, <2>2, <2>3, <2>4, <2>5, <2>6, <2>7 DEF Holds
  <2>9. \A d \in 0..NCoro : d # b => z[d] = x[d]
    BY <1>3, <2>3
  <2>10. Readied(f, a, b, x, r, b, h, e, z, j, n)
    BY <1>3, <1>5, <2>3, <2>8, <2>9 DEF Readied
  <2> QED BY <2>1, <2>10
<1>8. CASE x[b] = "fresh"
  <2>1. /\ b = n /\ n + 1 \in 0..NCoro /\ n + 1 # n /\ n + 1 # a
        /\ f[b] = NULL
    <3>1. b = n
      BY <1>3, <1>6, <1>8
    <3>2. a <= n
      BY <1>1
    <3>3. f[b] = NULL
      BY <1>1, <1>2, <1>5, <3>1, ListFacts
    <3> QED BY <1>1, <1>8, <3>1, <3>2, <3>3
  <2> DEFINE m == n + 1
             h == PutAt(PutAt(g, m, NULL), b, NULL)
             z == Hop(PutAt(y, m, "fresh"), b, "start", a)
             j == Onto(m, <<>>)
             u == Co(PutAt(g, m, NULL), b, m, PutAt(y, m, "fresh"))
  <2>2. Activated(Co(f, a, b, x), b) = Co(h, a, m, z)
    <3>1. \A c \in 0..NCoro : y[c] = "none" <=> c > n
      <4> SUFFICES ASSUME NEW c \in 0..NCoro PROVE y[c] = "none" <=> c > n
        OBVIOUS
      <4>1. CASE c = a \/ c = b
        BY <1>3, <1>6, <4>1
      <4>2. CASE c # a /\ c # b
        BY <1>3, <1>6, <4>2
      <4> QED BY <4>1, <4>2
    <3>2. Fork(q) = u
      BY <1>2, <2>1, <3>1, ForkIs
    <3>3. PutAt(g, m, NULL)[b] = a
      BY <1>3, <2>1 DEF Links, PutAt
    <3>4. Yield(u, "start") = Co(h, a, m, z)
      BY <3>3, YieldIs
    <3> DEFINE o == Co(f, a, b, x)
               v == Co(h, a, m, z)
    <3> HIDE DEF q, o, v, u
    <3>5. /\ Resume(Pop(o, "idle"), b) = q /\ o.ctx = x /\ Yield(u, "start") = v
          /\ Fork(q) = u
      BY <1>3, <1>4, <3>2, <3>4 DEF o, v
    <3>6. Activated(o, b) = v
      BY <1>8, <3>5 DEF Activated
    <3> QED BY <3>6 DEF o, v
  <2>3. m \in 0..NCoro /\ m > n /\ m # a /\ m # b /\ m \in Nat
    BY <1>1, <2>1
  <2> HIDE DEF m
  <2>4. /\ h \in Links /\ h[b] = NULL /\ h[m] = NULL
        /\ \A d \in 0..NCoro : d # b /\ d # m => h[d] = f[d]
    BY <1>3, <2>3 DEF Links, PutAt
  <2>5. /\ z \in [0..NCoro -> Context] /\ z[b] = "start" /\ z[a] = "run"
        /\ z[m] = "fresh"
        /\ \A d \in 0..NCoro : d # a /\ d # b /\ d # m => z[d] = x[d]
    BY <1>3, <2>3 DEF Context, Hop, PutAt
  <2> HIDE DEF h, z
  <2>6. IsList(h, m, j) /\ Of(j) = {m} /\ j # <<>> /\ LastOf(j) = m
    BY <2>3, <2>4, SingleList
  <2> HIDE DEF j
  <2>7. \A d \in Of(r) : d \in 0..NCoro /\ d # b /\ d # m
    <3>1. \A d \in 0..n : d # m /\ d \in 0..NCoro
      BY <1>1, <2>3
    <3> QED BY <1>1, <3>1
  <2>8. IsList(h, a, r)
    BY <1>1, <1>2, <2>4, <2>7, ListsFrom
  <2>9. Of(i) = {b}
    <3>1. Len(i) = 1
      <4>1. i \in Seq(0..NCoro) /\ Len(i) \in Nat /\ (i = <<>> <=> Len(i) = 0)
        BY <1>2, ItemsAre DEF IsList
      <4>2. i[1] = b /\ i[Len(i)] = b
        BY <1>1, <1>2, <1>5, <2>1 DEF IsList, LastOf
      <4>3. 1 \in 1..Len(i) /\ Len(i) \in 1..Len(i)
        BY <1>1, <4>1
      <4> QED BY <1>2, <4>2, <4>3 DEF IsList
    <3>2. i[1] = b
      BY <1>1, <1>2 DEF IsList
    <3>3. \A k \in 1..1 : k = 1
      OBVIOUS
    <3> QED BY <3>1, <3>2, <3>3 DEF Of
  <2>10. Kinds(h, a, z, Of(r), Of(j), m)
    <3> SUFFICES ASSUME NEW d \in 0..NCoro
                 PROVE  /\ z[d] = "run" <=> d = a
                        /\ z[d] = "resume" <=> d \in Of(r) \ {a}
                        /\ z[d] \in {"fresh", "done"} <=> d \in Of(j)
                        /\ z[d] = "fresh" <=> d = m /\ m > 0
                        /\ z[d] = "none" <=> d > m
                        /\ z[d] \in {"none", "start", "yield", "sleep"}
                             => h[d] = NULL
      BY DEF Kinds
    <3>0. /\ a \in Nat /\ a <= n /\ b <= n /\ m = n + 1 /\ n \in Nat
          /\ d \in Nat
      BY <1>1, <2>1 DEF m
    <3>1. CASE d = b
      <4>1. z[d] = "start" /\ h[d] = NULL /\ d # a /\ d # m /\ ~ (d > m)
            /\ d \notin Of(r)
        BY <1>3, <2>3, <2>4, <2>5, <2>7, <3>0, <3>1
      <4> QED BY <2>6, <4>1
    <3>2. CASE d = a
      <4>1. z[d] = "run" /\ d # m /\ ~ (d > m)
        BY <2>3, <2>5, <3>0, <3>2
      <4> QED BY <2>6, <3>2, <4>1
    <3>3. CASE d = m
      <4>1. z[d] = "fresh" /\ d # a /\ ~ (d > m) /\ m > 0 /\ d \notin Of(r)
        BY <2>3, <2>5, <2>7, <3>0, <3>3
      <4> QED BY <2>6, <3>3, <4>1
    <3>4. CASE d # a /\ d # b /\ d # m
      <4>1. z[d] = x[d] /\ h[d] = f[d]
        BY <2>4, <2>5, <3>4
      <4>2. d > n <=> d > m
        BY <3>0, <3>4
      <4>3. x[d] \notin {"fresh", "done"}
        BY <1>6, <2>9, <3>4
      <4> QED BY <1>6, <2>6, <3>4, <4>1, <4>2, <4>3
    <3> QED BY <3>1, <3>2, <3>3, <3>4
  <2>11. Holds(h, a, m, z, r, j, m)
    BY <1>2, <2>3, <2>4, <2>5, <2>6, <2>8, <2>10 DEF Holds
  <2>12. \A d \in 0..NCoro : d # b => (z[d] = x[d]
                             \/ (x[d] = "none" /\ z[d] = "fresh"))
    <3> SUFFICES ASSUME NEW d \in 0..NCoro, d # b
                 PROVE  z[d] = x[d] \/ (x[d] = "none" /\ z[d] = "fresh")
      OBVIOUS
    <3>1. x[m] = "none"
      BY <1>6, <2>3
    <3> QED BY <1>3, <2>5, <3>1
  <2>13. Readied(f, a, b, x, r, b, h, m, z, j, m)
    BY <1>3, <1>5, <2>5, <2>11, <2>12 DEF Readied
  <2> QED BY <2>2, <2>13
<1> QED BY <1>3, <1>7, <1>8

LEMMA CreateHolds ==
  ASSUME NEW f, NEW a, NEW b, NEW x, NEW r, NEW i, NEW n,
         Holds(f, a, b, x, r, i, n),
         Cardinality(Frames(Co(f, a, b, x))) + Forks(Co(f, a, b, x)) <= NCoro
  PROVE  \E c, g, e, z, j, m :
           /\ Coroutine(Co(f, a, b, x)) = Co(g, a, e, z)
           /\ Readied(f, a, b, x, r, c, g, e, z, j, m)
<1> DEFINE q == Co(f, a, b, x)
<1>1. NCoro \in Nat /\ NCoro > 0 /\ n \in Nat /\ n <= NCoro /\ NULL \notin 0..NCoro
  BY HoldsFacts
<1>2. q.idle = b /\ q.ctx = x
  BY CoFields
<1>3. Cardinality(Frames(q)) = n
  <2>1. n \in 0..NCoro /\ \A c \in 0..NCoro : x[c] = "none" <=> c > n
    BY DEF Holds, Kinds
  <2> QED BY <2>1, ForkIs
<1>4. n + Forks(q) <= NCoro
  BY <1>3
<1> HIDE DEF q
<1>5. CASE b = NULL
  <2> DEFINE g == PutAt(f, 1, NULL)
             y == PutAt(x, 1, "fresh")
             j == Onto(1, <<>>)
             u == Co(g, a, 1, y)
  <2>1. /\ n = 0 /\ Fork(Co(f, a, NULL, x)) = u
        /\ Holds(g, a, 1, y, r, j, 1)
        /\ y[1] = "fresh" /\ x[1] = "none"
        /\ \A d \in 0..NCoro : d # 1 => y[d] = x[d]
    <3> HIDE DEF g, y, j
    <3>1. g = PutAt(f, 1, NULL) /\ y = PutAt(x, 1, "fresh") /\ j = Onto(1, <<>>)
      BY DEF g, y, j
    <3> QED BY <1>5, <3>1, FirstFork
  <2>2. 1 # NULL /\ 1 + 1 <= NCoro
    <3>1. Forks(q) = 2
      BY <1>2, <1>5 DEF Forks
    <3>2. 1 \in 0..NCoro
      BY <1>1
    <3> QED BY <1>1, <1>4, <2>1, <3>1, <3>2
  <2>3. u.idle = 1
    BY CoFields
  <2> HIDE DEF g, y, j
  <2>4. PICK h, e, z, k, m :
          /\ Activated(u, 1) = Co(h, a, e, z)
          /\ Readied(g, a, 1, y, r, 1, h, e, z, k, m)
    BY <2>1, <2>2, ActivateHolds
  <2> HIDE DEF u
  <2>5. Coroutine(q) = Co(h, a, e, z)
    <3>1. Fork(q) = u
      BY <1>5, <2>1 DEF q
    <3> QED BY <1>2, <1>5, <2>3, <2>4, <3>1 DEF Coroutine
  <2>6. Readied(f, a, b, x, r, 1, h, e, z, k, m)
    <3>1. \A d \in 0..NCoro : d # 1 => (z[d] = x[d]
                              \/ (x[d] = "none" /\ z[d] = "fresh"))
      BY <2>1, <2>4 DEF Readied
    <3> QED BY <2>1, <2>4, <3>1 DEF Readied
  <2> QED BY <2>5, <2>6 DEF q
<1>6. CASE b # NULL
  <2>1. x[b] = "fresh" => n + 1 <= NCoro
    <3>1. x[b] = "fresh" => Forks(q) = 1
      BY <1>2, <1>6 DEF Forks
    <3> QED BY <1>4, <3>1
  <2>2. PICK h, e, z, k, m :
          /\ Activated(Co(f, a, b, x), b) = Co(h, a, e, z)
          /\ Readied(f, a, b, x, r, b, h, e, z, k, m)
    BY <1>6, <2>1, ActivateHolds
  <2>3. Coroutine(q) = Activated(q, b)
    BY <1>2, <1>6 DEF Coroutine
  <2> QED BY <2>2, <2>3 DEF q
<1> QED BY <1>5, <1>6

(* The record as a whole *)

\* r is on the running list of q and i on its idle list; it has n frames.
State(q, r, i, n) ==
  /\ q = Co(q.next, q.running, q.idle, q.ctx)
  /\ Holds(q.next, q.running, q.idle, q.ctx, r, i, n)

Asleep(q) == {c \in Coro : q.ctx[c] = "sleep"}

LEMMA StateIs ==
  ASSUME NEW f, NEW a, NEW b, NEW x, NEW r, NEW i, NEW n,
         Holds(f, a, b, x, r, i, n), NEW q, q = Co(f, a, b, x)
  PROVE  /\ State(q, r, i, n)
         /\ q.next = f /\ q.running = a /\ q.idle = b /\ q.ctx = x
         /\ Suspended(q) = {c \in Coro : x[c] \in Waits}
         /\ Asleep(q) = {c \in Coro : x[c] = "sleep"}
<1>1. q.next = f /\ q.running = a /\ q.idle = b /\ q.ctx = x
  BY CoFields
<1>2. State(q, r, i, n)
  BY <1>1 DEF State
<1> QED BY <1>1, <1>2 DEF Suspended, Asleep, Waits

LEMMA StateParts ==
  ASSUME NEW q, NEW r, NEW i, NEW n, State(q, r, i, n)
  PROVE  \E f, a, b, x :
           /\ q = Co(f, a, b, x) /\ Holds(f, a, b, x, r, i, n)
           /\ q.next = f /\ q.running = a /\ q.idle = b /\ q.ctx = x
           /\ Suspended(q) = {c \in Coro : x[c] \in Waits}
           /\ Asleep(q) = {c \in Coro : x[c] = "sleep"}
BY DEF State, Suspended, Asleep, Waits

LEMMA InitState == State(NoCoros, Onto(FirstCo, <<>>), <<>>, 0)
<1> DEFINE f == [c \in 0..NCoro |-> NULL]
           x == [c \in 0..NCoro |-> IF c = FirstCo THEN "run" ELSE "none"]
           r == Onto(FirstCo, <<>>)
<1>1. NCoro \in Nat /\ FirstCo \in 0..NCoro
  BY CoroAssumption DEF FirstCo
<1>2. NoCoros = Co(f, FirstCo, NULL, x)
  BY DEF NoCoros, Co
<1>3. f \in Links /\ \A c \in 0..NCoro : f[c] = NULL
  BY DEF Links
<1>4. /\ x \in [0..NCoro -> Context] /\ x[FirstCo] = "run"
      /\ \A c \in 0..NCoro : c # FirstCo => x[c] = "none"
  BY <1>1 DEF Context
<1> HIDE DEF f, x
<1>5. IsList(f, FirstCo, r) /\ Of(r) = {FirstCo} /\ r # <<>> /\ LastOf(r) = FirstCo
  BY <1>1, <1>3, SingleList
<1> HIDE DEF r
<1>6. IsList(f, NULL, <<>>)
  BY DEF IsList
<1>7. Of(<<>>) = {}
  BY <1>3, <1>6, ListFacts
<1>8. Kinds(f, FirstCo, x, Of(r), {}, 0)
  <2> SUFFICES ASSUME NEW c \in 0..NCoro
               PROVE  /\ x[c] = "run" <=> c = FirstCo
                      /\ x[c] = "resume" <=> c \in Of(r) \ {FirstCo}
                      /\ x[c] \in {"fresh", "done"} <=> c \in {}
                      /\ x[c] = "fresh" <=> c = 0 /\ 0 > 0
                      /\ x[c] = "none" <=> c > 0
                      /\ x[c] \in {"none", "start", "yield", "sleep"}
                           => f[c] = NULL
    BY DEF Kinds
  <2>1. c = FirstCo <=> ~ (c > 0)
    BY <1>1 DEF FirstCo
  <2> QED BY <1>3, <1>4, <1>5, <2>1
<1>9. Holds(f, FirstCo, NULL, x, r, <<>>, 0)
  BY <1>1, <1>3, <1>4, <1>5, <1>6, <1>7, <1>8 DEF Holds
<1>10. State(NoCoros, r, <<>>, 0)
  BY <1>2, <1>9, StateIs
<1> QED BY <1>10 DEF r

LEMMA CreateStep ==
  ASSUME NEW q, NEW r, NEW i, NEW n, State(q, r, i, n),
         Cardinality(Frames(q)) + Forks(q) <= NCoro,
         NEW e, e = Coroutine(q)
  PROVE  \E c, j, m :
           /\ c \in Coro /\ State(e, r, j, m) /\ e.running = q.running
           /\ c \notin Suspended(q) \cup Of(r)
           /\ Suspended(e) = Suspended(q) \cup {c} /\ Asleep(e) = Asleep(q)
<1>1. PICK f, a, b, x :
        /\ q = Co(f, a, b, x) /\ Holds(f, a, b, x, r, i, n)
        /\ q.running = a
        /\ Suspended(q) = {c \in Coro : x[c] \in Waits}
        /\ Asleep(q) = {c \in Coro : x[c] = "sleep"}
  BY StateParts
<1>2. PICK c, g, d, z, j, m :
        /\ e = Co(g, a, d, z)
        /\ Readied(f, a, b, x, r, c, g, d, z, j, m)
  BY <1>1, CreateHolds
<1>3. Holds(g, a, d, z, r, j, m)
  BY <1>2 DEF Readied
<1>4. /\ State(e, r, j, m) /\ e.running = a
      /\ Suspended(e) = {k \in Coro : z[k] \in Waits}
      /\ Asleep(e) = {k \in Coro : z[k] = "sleep"}
  BY <1>2, <1>3, StateIs
<1>5. /\ c \in Coro /\ x[c] \in {"none", "fresh", "done"} /\ z[c] = "start"
      /\ \A k \in 0..NCoro : k # c => (z[k] = x[k]
                              \/ (x[k] = "none" /\ z[k] = "fresh"))
  BY <1>2 DEF Readied
<1>6. \A k \in Coro : k \in 0..NCoro
  BY CoroAssumption DEF Coro
<1>7. c \notin Of(r)
  <2>1. c \in Of(r) => x[c] \in {"run", "resume"}
    BY <1>1, <1>5, <1>6 DEF Holds, Kinds
  <2> QED BY <1>5, <2>1
<1>8. c \notin Suspended(q) /\ Suspended(e) = Suspended(q) \cup {c}
  BY <1>1, <1>4, <1>5, <1>6 DEF Waits
<1>9. Asleep(e) = Asleep(q)
  BY <1>1, <1>4, <1>5, <1>6
<1> QED BY <1>1, <1>4, <1>5, <1>7, <1>8, <1>9

LEMMA ResumeStep ==
  ASSUME NEW q, NEW r, NEW i, NEW n, State(q, r, i, n),
         NEW c \in Suspended(q), NEW e, e = Resume(q, c)
  PROVE  /\ State(e, Onto(c, r), i, n) /\ e.running = c
         /\ Suspended(e) = Suspended(q) \ {c} /\ Asleep(e) = Asleep(q) \ {c}
<1>1. PICK f, a, b, x :
        /\ q = Co(f, a, b, x) /\ Holds(f, a, b, x, r, i, n)
        /\ Suspended(q) = {k \in Coro : x[k] \in Waits}
        /\ Asleep(q) = {k \in Coro : x[k] = "sleep"}
  BY StateParts
<1> DEFINE g == PutAt(f, c, a)
           y == Hop(x, a, "resume", c)
           s == Onto(c, r)
<1>2. g = PutAt(f, c, a) /\ y = Hop(x, a, "resume", c) /\ s = Onto(c, r)
  OBVIOUS
<1>3. c \in Coro /\ x[c] \in Waits
  BY <1>1
<1> HIDE DEF g, y, s
<1>4. /\ e = Co(g, c, b, y) /\ Holds(g, c, b, y, s, i, n)
      /\ y[c] = "run" /\ y[a] = "resume"
      /\ \A d \in 0..NCoro : d # a /\ d # c => y[d] = x[d]
      /\ c # a
  BY <1>1, <1>2, <1>3, ResumeHolds
<1>5. /\ State(e, s, i, n) /\ e.running = c
      /\ Suspended(e) = {k \in Coro : y[k] \in Waits}
      /\ Asleep(e) = {k \in Coro : y[k] = "sleep"}
  BY <1>4, StateIs
<1>6. \A k \in Coro : k \in 0..NCoro
  BY CoroAssumption DEF Coro
<1>7. a \in Coro => x[a] = "run"
  BY <1>1, <1>6 DEF Holds, Kinds
<1>8. Suspended(e) = Suspended(q) \ {c}
  BY <1>1, <1>3, <1>4, <1>5, <1>6, <1>7 DEF Waits
<1>9. Asleep(e) = Asleep(q) \ {c}
  BY <1>1, <1>4, <1>5, <1>6, <1>7
<1> QED BY <1>5, <1>8, <1>9 DEF s

LEMMA YieldStep ==
  ASSUME NEW q, NEW r, NEW i, NEW n, State(q, r, i, n), q.running # FirstCo,
         NEW there \in {"yield", "sleep"}, NEW e, e = Yield(q, there)
  PROVE  LET c == q.running
         IN  /\ State(e, Below(r), i, n)
             /\ c \in Coro /\ r # <<>> /\ r[1] = c /\ Below(r) # <<>>
             /\ Suspended(e) = Suspended(q) \cup {c} /\ c \notin Suspended(q)
             /\ there = "sleep" => Asleep(e) = Asleep(q) \cup {c}
             /\ there = "yield" => Asleep(e) = Asleep(q)
<1>1. PICK f, a, b, x :
        /\ q = Co(f, a, b, x) /\ Holds(f, a, b, x, r, i, n)
        /\ q.running = a
        /\ Suspended(q) = {k \in Coro : x[k] \in Waits}
        /\ Asleep(q) = {k \in Coro : x[k] = "sleep"}
  BY StateParts
<1> DEFINE u == f[a]
           g == PutAt(f, a, NULL)
           y == Hop(x, a, there, u)
           t == Below(r)
<1>2. u = f[a] /\ g = PutAt(f, a, NULL) /\ y = Hop(x, a, there, u) /\ t = Below(r)
  OBVIOUS
<1> HIDE DEF u, g, y, t
<1>3. a # FirstCo
  BY <1>1
<1>4. /\ e = Co(g, u, b, y) /\ Holds(g, u, b, y, t, i, n)
      /\ y[u] = "run" /\ y[a] = there
      /\ \A d \in 0..NCoro : d # a /\ d # u => y[d] = x[d]
      /\ a # u /\ u \in 0..NCoro /\ x[u] = "resume"
  BY <1>1, <1>2, <1>3, YieldHolds
<1>5. /\ State(e, t, i, n)
      /\ Suspended(e) = {k \in Coro : y[k] \in Waits}
      /\ Asleep(e) = {k \in Coro : y[k] = "sleep"}
  BY <1>4, StateIs
<1>6. \A k \in Coro : k \in 0..NCoro
  BY CoroAssumption DEF Coro
<1>7. a \in Coro /\ r # <<>> /\ r[1] = a /\ t # <<>>
  BY <1>1, <1>2, <1>3, RunnerLeaves
<1>8. x[a] = "run"
  BY <1>1, <1>6, <1>7 DEF Holds, Kinds
<1>9. Suspended(e) = Suspended(q) \cup {a} /\ a \notin Suspended(q)
  BY <1>1, <1>4, <1>5, <1>6, <1>7, <1>8 DEF Waits
<1>10. /\ there = "sleep" => Asleep(e) = Asleep(q) \cup {a}
       /\ there = "yield" => Asleep(e) = Asleep(q)
  BY <1>1, <1>4, <1>5, <1>6, <1>7, <1>8
<1> QED BY <1>1, <1>5, <1>7, <1>9, <1>10 DEF t

LEMMA FinishStep ==
  ASSUME NEW q, NEW r, NEW i, NEW n, State(q, r, i, n), q.running # FirstCo,
         NEW e, e = Finish(q)
  PROVE  /\ State(e, Below(r), Onto(q.running, i), n)
         /\ r # <<>> /\ r[1] = q.running /\ Below(r) # <<>>
         /\ Suspended(e) = Suspended(q) /\ Asleep(e) = Asleep(q)
<1>1. PICK f, a, b, x :
        /\ q = Co(f, a, b, x) /\ Holds(f, a, b, x, r, i, n)
        /\ q.running = a
        /\ Suspended(q) = {k \in Coro : x[k] \in Waits}
        /\ Asleep(q) = {k \in Coro : x[k] = "sleep"}
  BY StateParts
<1> DEFINE u == f[a]
           g == PutAt(f, a, NULL)
           h == PutAt(g, a, b)
           y == Hop(x, a, "done", u)
           t == Below(r)
           j == Onto(a, i)
<1>2. /\ u = f[a] /\ g = PutAt(f, a, NULL) /\ h = PutAt(g, a, b)
      /\ y = Hop(x, a, "done", u) /\ t = Below(r) /\ j = Onto(a, i)
  OBVIOUS
<1> HIDE DEF u, g, h, y, t, j
<1>3. a # FirstCo
  BY <1>1
<1>4. /\ e = Co(h, u, a, y) /\ Holds(h, u, a, y, t, j, n)
      /\ y[u] = "run" /\ y[a] = "done"
      /\ \A d \in 0..NCoro : d # a /\ d # u => y[d] = x[d]
      /\ a # u /\ u \in 0..NCoro /\ x[u] = "resume"
  BY <1>1, <1>2, <1>3, FinishHolds
<1>5. /\ State(e, t, j, n)
      /\ Suspended(e) = {k \in Coro : y[k] \in Waits}
      /\ Asleep(e) = {k \in Coro : y[k] = "sleep"}
  BY <1>4, StateIs
<1>6. \A k \in Coro : k \in 0..NCoro
  BY CoroAssumption DEF Coro
<1>7. a \in Coro /\ r # <<>> /\ r[1] = a /\ t # <<>>
  BY <1>1, <1>2, <1>3, RunnerLeaves
<1>8. x[a] = "run"
  BY <1>1, <1>6, <1>7 DEF Holds, Kinds
<1>9. Suspended(e) = Suspended(q)
  BY <1>1, <1>4, <1>5, <1>6, <1>7, <1>8 DEF Waits
<1>10. Asleep(e) = Asleep(q)
  BY <1>1, <1>4, <1>5, <1>6, <1>7, <1>8
<1> QED BY <1>1, <1>5, <1>7, <1>9, <1>10 DEF t, j

(* What the lists tell *)

LEMMA ListsAre ==
  ASSUME NEW q, NEW r, NEW i, NEW n, State(q, r, i, n)
  PROVE  Chain(q, q.running) = r /\ Chain(q, q.idle) = i
<1>1. /\ q.next \in Links /\ IsList(q.next, q.running, r)
      /\ IsList(q.next, q.idle, i)
  BY DEF State, Holds
<1> QED BY <1>1, ChainIs

LEMMA SuspendedCanResume ==
  ASSUME NEW q, NEW r, NEW i, NEW n, State(q, r, i, n), NEW c \in Active(q)
  PROVE  Resumable(q, c) <=> c \in Suspended(q)
<1>1. PICK f, a, b, x :
        /\ Holds(f, a, b, x, r, i, n) /\ q.next = f /\ q.ctx = x
        /\ Suspended(q) = {k \in Coro : x[k] \in Waits}
  BY StateParts
<1>2. c \in Coro /\ c \in 0..NCoro /\ x[c] \notin {"none", "fresh", "done"}
  BY <1>1, CoroAssumption DEF Active, Coro
<1>3. x \in [0..NCoro -> Context] /\ f \in Links /\ a \in Of(r) /\ IsList(f, a, r)
      /\ LastOf(r) = FirstCo
  BY <1>1, HoldsFacts DEF Holds
<1>4. CASE x[c] \in Waits
  <2>1. f[c] = NULL
    BY <1>1, <1>2, <1>4 DEF Holds, Kinds, Waits
  <2> QED BY <1>1, <1>2, <1>4, <2>1 DEF Resumable
<1>5. CASE x[c] \notin Waits
  <2>1. x[c] \in {"run", "resume"}
    BY <1>2, <1>3, <1>5 DEF Waits, Context
  <2>2. c \in Of(r)
    BY <1>1, <1>2, <1>3, <2>1 DEF Holds, Kinds
  <2>3. c # FirstCo
    BY <1>2, CoroAssumption DEF Coro, FirstCo
  <2>4. f[c] # NULL
    BY <1>3, <2>2, <2>3, ListFacts
  <2> QED BY <1>1, <1>2, <1>5, <2>4 DEF Resumable
<1> QED BY <1>4, <1>5

LEMMA OfIs ==
  ASSUME NEW T, NEW s \in Seq(T)
  PROVE  /\ Range(s) = Of(s)
         /\ IsInjective(s) <=>
              \A k, l \in 1..Len(s) : s[k] = s[l] => k = l
         /\ s # <<>> => s[Len(s)] = LastOf(s)
<1>1. DOMAIN s = 1..Len(s)
  OBVIOUS
<1> QED BY <1>1 DEF Range, Of, IsInjective, LastOf

LEMMA StateTells ==
  ASSUME NEW r, NEW i, NEW n, State(p, r, i, n)
  PROVE  ListsTellStates
<1>1. PICK f, a, b, x :
        /\ p = Co(f, a, b, x) /\ Holds(f, a, b, x, r, i, n)
        /\ p.next = f /\ p.running = a /\ p.idle = b /\ p.ctx = x
  BY StateParts
<1>2. Chain(p, p.running) = r /\ Chain(p, p.idle) = i
  BY ListsAre
<1>3. /\ NCoro \in Nat /\ r \in Seq(0..NCoro) /\ Of(r) \cap Of(i) = {}
      /\ i \in Seq(Coro) /\ (i = <<>> <=> n = 0) /\ n \in Nat /\ n <= NCoro
      /\ a \in Of(r) /\ Of(i) \subseteq 1..n
  BY <1>1, HoldsFacts
<1>4. /\ IsList(f, a, r) /\ r # <<>> /\ LastOf(r) = FirstCo /\ IsList(f, b, i)
      /\ n > 0 => i # <<>> /\ LastOf(i) = n
      /\ f \in Links
  BY <1>1 DEF Holds
<1>5. \A c \in 0..NCoro :
        /\ x[c] = "run" <=> c = a
        /\ x[c] = "resume" <=> c \in Of(r) \ {a}
        /\ x[c] \in {"fresh", "done"} <=> c \in Of(i)
        /\ x[c] = "fresh" <=> c = n /\ n > 0
        /\ x[c] = "none" <=> c > n
  BY <1>1 DEF Holds, Kinds
<1>6. /\ Range(r) = Of(r) /\ IsInjective(r) /\ r[Len(r)] = LastOf(r)
      /\ Range(i) = Of(i) /\ IsInjective(i)
      /\ i # <<>> => i[Len(i)] = LastOf(i)
  BY <1>3, <1>4, OfIs DEF IsList
<1>7. Range(Tail(r)) = Of(r) \ {a}
  <2>1. Of(Below(r)) = Of(r) \ {a}
    BY <1>4, PopList
  <2>2. Tail(r) \in Seq(0..NCoro)
    BY <1>3, <1>4, TailIs
  <2>3. Range(Tail(r)) = Of(Tail(r))
    BY <2>2, OfIs
  <2> QED BY <2>1, <2>3 DEF Below
<1>8. ResumableIffSuspended
  BY SuspendedCanResume DEF ResumableIffSuspended
<1>9. RunningInResume
  <2> DEFINE R == Chain(p, p.running)
             I == Chain(p, p.idle)
  <2>1. R = r /\ I = i
    BY <1>2
  <2> HIDE DEF R, I
  <2>2. /\ IsInjective(R) /\ R[Len(R)] = FirstCo
        /\ \A c \in 0..NCoro :
             /\ p.ctx[c] = "run" <=> c = p.running
             /\ p.ctx[c] = "resume" <=> c \in Range(Tail(R))
        /\ Range(R) \cap Range(I) = {}
    BY <1>1, <1>3, <1>4, <1>5, <1>6, <1>7, <2>1
  <2> QED BY <2>2 DEF RunningInResume, R, I
<1>10. FreshIsLast
  <2> DEFINE I == Chain(p, p.idle)
             F == Frames(p)
             k == Cardinality(F)
  <2>1. I = i
    BY <1>2
  <2>2. k = n
    <3>1. n \in 0..NCoro /\ \A c \in 0..NCoro : x[c] = "none" <=> c > n
      BY <1>3, <1>5
    <3> QED BY <1>1, <3>1, ForkIs
  <2>3. Coro = 1..NCoro
    BY DEF Coro
  <2>4. F # {} => n > 0
    <3>1. \A c \in Coro : p.ctx[c] # "none" => n > 0
      BY <1>1, <1>3, <1>5, <2>3
    <3> QED BY <3>1 DEF Frames
  <2>5. Range(i) = {c \in Coro : p.ctx[c] \in {"fresh", "done"}}
    <3>1. \A c \in Coro : x[c] \in {"fresh", "done"} <=> c \in Of(i)
      BY <1>3, <1>5, <2>3
    <3>2. Of(i) \subseteq Coro
      BY <1>3, <2>3
    <3> QED BY <1>1, <1>6, <3>1, <3>2
  <2>6. n > 0 => {c \in Coro : p.ctx[c] = "fresh"} = {n}
    BY <1>1, <1>3, <1>5, <2>3
  <2>7. n > 0 => i[Len(i)] = n
    BY <1>4, <1>6
  <2> HIDE DEF I, F, k
  <2>8. /\ IsInjective(I)
        /\ Range(I) = {c \in Coro : p.ctx[c] \in {"fresh", "done"}}
        /\ F # {} => {c \in Coro : p.ctx[c] = "fresh"} = {k} /\ I[Len(I)] = k
    BY <1>6, <2>1, <2>2, <2>4, <2>5, <2>6, <2>7
  <2> QED BY <2>8 DEF FreshIsLast, I, F, k
<1> QED BY <1>8, <1>9, <1>10 DEF ListsTellStates

(* The sleep queue *)

\* The queue behind an entry that is being woken has each coroutine that
\* sleeps once.
Queued(s, S) ==
  /\ s \in Seq(Coro) /\ Of(s) = S
  /\ \A k, l \in 1..Len(s) : s[k] = s[l] => k = l

OneWaking == waking = {} \/ \E c \in 0..NCoro : waking = {c}

\* At most one call of tryWake is under way, and its entry is still queued.
SleepInv ==
  /\ \E r, i, n : State(p, r, i, n)
  /\ sleeping \in Seq(Coro)
  /\ OneWaking
  /\ waking # {} => sleeping # <<>>
  /\ Queued(Behind, Asleep(p))

LEMMA QueueAppend ==
  ASSUME NEW s, NEW S, Queued(s, S), NEW c \in Coro, c \notin S
  PROVE  Queued(Append(s, c), S \cup {c})
<1> DEFINE t == Append(s, c)
           n == Len(s)
<1>1. /\ s \in Seq(Coro) /\ n \in Nat /\ \A k \in 1..n : s[k] \in S
      /\ \A d \in S : \E k \in 1..n : s[k] = d
      /\ \A k, l \in 1..n : s[k] = s[l] => k = l
  BY DEF Queued, Of
<1>2. /\ t \in Seq(Coro) /\ Len(t) = n + 1 /\ t[n + 1] = c
      /\ \A k \in 1..n : t[k] = s[k]
  BY <1>1
<1> HIDE DEF t, n
<1>3. \A k \in 1..(n + 1) : k \in 1..n \/ k = n + 1
  BY <1>1
<1>4. (\A k \in 1..n : k \in 1..(n + 1)) /\ n + 1 \in 1..(n + 1)
  BY <1>1
<1>5. Of(t) = S \cup {c}
  <2>1. \A k \in 1..Len(t) : t[k] \in S \cup {c}
    BY <1>1, <1>2, <1>3
  <2>2. \A d \in S \cup {c} : \E k \in 1..Len(t) : t[k] = d
    <3>1. ASSUME NEW d \in S PROVE \E k \in 1..Len(t) : t[k] = d
      <4>1. PICK k \in 1..n : s[k] = d
        BY <1>1
      <4> QED BY <1>2, <1>4, <4>1
    <3>2. \E k \in 1..Len(t) : t[k] = c
      BY <1>2, <1>4
    <3> QED BY <3>1, <3>2
  <2> QED BY <2>1, <2>2 DEF Of
<1>6. \A k, l \in 1..Len(t) : t[k] = t[l] => k = l
  <2> SUFFICES ASSUME NEW k \in 1..(n + 1), NEW l \in 1..(n + 1), t[k] = t[l]
               PROVE  k = l
    BY <1>2
  <2>1. k \in 1..n => t[k] \in S
    BY <1>1, <1>2
  <2>2. l \in 1..n => t[l] \in S
    BY <1>1, <1>2
  <2> QED BY <1>1, <1>2, <1>3, <2>1, <2>2
<1>7. Queued(t, S \cup {c})
  BY <1>2, <1>5, <1>6 DEF Queued
<1> QED BY <1>7 DEF t

LEMMA QueueTail ==
  ASSUME NEW s, NEW S, Queued(s, S), s # <<>>
  PROVE  Queued(Tail(s), S \ {s[1]}) /\ s[1] \in S
<1> DEFINE t == Tail(s)
           n == Len(s)
<1>1. /\ s \in Seq(Coro) /\ Of(s) = S
      /\ \A k, l \in 1..n : s[k] = s[l] => k = l
  BY DEF Queued
<1>2. /\ n \in Nat /\ n > 0 /\ t \in Seq(Coro) /\ Len(t) = n - 1
      /\ \A k \in 1..(n - 1) : t[k] = s[k + 1]
  BY <1>1, TailIs
<1>3. /\ \A k \in 1..n : s[k] \in S
      /\ \A d \in S : \E k \in 1..n : s[k] = d
  BY <1>1 DEF Of
<1> HIDE DEF t, n
<1>4. /\ 1 \in 1..n
      /\ \A k \in 1..(n - 1) : k + 1 \in 1..n /\ k + 1 # 1
      /\ \A k \in 1..n : k # 1 => k - 1 \in 1..(n - 1) /\ (k - 1) + 1 = k
  BY <1>2
<1>5. Of(t) = S \ {s[1]}
  <2>1. \A k \in 1..Len(t) : t[k] \in S \ {s[1]}
    <3> SUFFICES ASSUME NEW k \in 1..(n - 1)
                 PROVE  t[k] \in S /\ t[k] # s[1]
      BY <1>2
    <3>1. t[k] = s[k + 1] /\ k + 1 \in 1..n /\ k + 1 # 1
      BY <1>2, <1>4
    <3>2. s[k + 1] \in S
      BY <1>3, <3>1
    <3>3. s[k + 1] # s[1]
      BY <1>1, <1>4, <3>1
    <3> QED BY <3>1, <3>2, <3>3
  <2>2. \A d \in S \ {s[1]} : \E k \in 1..Len(t) : t[k] = d
    <3> SUFFICES ASSUME NEW d \in S \ {s[1]} PROVE \E k \in 1..(n - 1) : t[k] = d
      BY <1>2
    <3>1. PICK k \in 1..n : s[k] = d
      BY <1>3
    <3>2. k # 1
      BY <3>1
    <3>3. k - 1 \in 1..(n - 1) /\ t[k - 1] = s[k]
      BY <1>2, <1>4, <3>2
    <3> QED BY <3>1, <3>3
  <2> QED BY <2>1, <2>2 DEF Of
<1>6. \A k, l \in 1..Len(t) : t[k] = t[l] => k = l
  <2> SUFFICES ASSUME NEW k \in 1..(n - 1), NEW l \in 1..(n - 1), t[k] = t[l]
               PROVE  k = l
    BY <1>2
  <2>1. k + 1 = l + 1
    BY <1>1, <1>2, <1>4
  <2> QED BY <2>1
<1>7. Queued(t, S \ {s[1]})
  BY <1>2, <1>5, <1>6 DEF Queued
<1> QED BY <1>3, <1>4, <1>7 DEF t

LEMMA SleepInit0 == ASSUME SleepInit PROVE SleepInv
<1>1. State(p, Onto(FirstCo, <<>>), <<>>, 0) /\ p = NoCoros
  BY InitState DEF SleepInit, CoInit
<1>2. sleeping = <<>> /\ waking = {} /\ Behind = <<>>
  BY DEF SleepInit, Behind
<1>3. Asleep(p) = {}
  BY <1>1, CoroAssumption DEF NoCoros, Asleep, Coro
<1>4. <<>> \in Seq(Coro) /\ Len(<<>>) = 0 /\ 1..0 = {}
  OBVIOUS
<1>5. Queued(<<>>, {})
  BY <1>4 DEF Queued, Of
<1> QED BY <1>1, <1>2, <1>3, <1>4, <1>5 DEF SleepInv, OneWaking

\* What a step does to the stack of those who run, and to those who wait,
StackMove(r, s, S, T) ==
  \/ s = r /\ T = S
  \/ \E c \in T : c \notin S \cup Of(r) /\ s = r /\ T = S \cup {c}
  \/ \E c \in S : s = Onto(c, r) /\ T = S \ {c}
  \/ Below(r) # <<>> /\ r # <<>> /\ s = Below(r) /\ T = S \cup {r[1]}
  \/ Below(r) # <<>> /\ r # <<>> /\ s = Below(r) /\ T = S

\* and to the queue.
QueueMove(s, t) ==
  \/ t = s
  \/ \E c \in Coro : t = Append(s, c)
  \/ s # <<>> /\ t = Tail(s)

Moved(r) ==
  /\ SleepInv'
  /\ \E s, j, m : State(p', s, j, m)
                  /\ StackMove(r, s, Suspended(p), Suspended(p'))
  /\ QueueMove(Behind, Behind')

LEMMA InvParts ==
  ASSUME SleepInv
  PROVE  /\ sleeping \in Seq(Coro) /\ OneWaking
         /\ waking # {} => sleeping # <<>>
         /\ Queued(Behind, Asleep(p)) /\ Behind \in Seq(Coro)
         /\ waking = {} => Behind = sleeping
         /\ waking # {} => Behind = Tail(sleeping)
BY DEF SleepInv, Queued, Behind

LEMMA CreateMoves ==
  ASSUME SleepInv, NEW r, NEW i, NEW n, State(p, r, i, n), Create
  PROVE  Moved(r)
<1>1. /\ Cardinality(Frames(p)) + Forks(p) <= NCoro /\ p' = Coroutine(p)
      /\ sleeping' = sleeping /\ waking' = waking
  BY DEF Create, CoCreate
<1>2. PICK c, j, m :
        /\ c \in Coro /\ State(p', r, j, m)
        /\ c \notin Suspended(p) \cup Of(r)
        /\ Suspended(p') = Suspended(p) \cup {c} /\ Asleep(p') = Asleep(p)
  BY <1>1, CreateStep
<1>3. Behind' = Behind
  BY <1>1 DEF Behind
<1>4. SleepInv'
  BY <1>1, <1>2, <1>3, InvParts DEF SleepInv, OneWaking
<1>5. c \in Suspended(p')
  BY <1>2
<1>6. StackMove(r, r, Suspended(p), Suspended(p'))
  BY <1>2, <1>5 DEF StackMove
<1> QED BY <1>2, <1>3, <1>4, <1>6 DEF Moved, QueueMove

LEMMA ResumeMoves ==
  ASSUME SleepInv, NEW r, NEW i, NEW n, State(p, r, i, n),
         NEW c \in Coro, ResumeOther(c)
  PROVE  Moved(r)
<1>1. /\ c \in Active(p) /\ p.ctx[c] # "sleep" /\ Resumable(p, c)
      /\ p' = Resume(p, c) /\ sleeping' = sleeping /\ waking' = waking
  BY DEF ResumeOther, CoResume
<1>2. c \in Suspended(p)
  BY <1>1, SuspendedCanResume
<1>3. /\ State(p', Onto(c, r), i, n)
      /\ Suspended(p') = Suspended(p) \ {c} /\ Asleep(p') = Asleep(p) \ {c}
  BY <1>1, <1>2, ResumeStep
<1>4. Asleep(p') = Asleep(p)
  BY <1>1, <1>3 DEF Asleep
<1>5. Behind' = Behind
  BY <1>1 DEF Behind
<1>6. SleepInv'
  BY <1>1, <1>3, <1>4, <1>5, InvParts DEF SleepInv, OneWaking
<1>7. StackMove(r, Onto(c, r), Suspended(p), Suspended(p'))
  BY <1>2, <1>3 DEF StackMove
<1> QED BY <1>3, <1>5, <1>6, <1>7 DEF Moved, QueueMove

LEMMA YieldMoves ==
  ASSUME SleepInv, NEW r, NEW i, NEW n, State(p, r, i, n),
         NEW c, YieldUp(c)
  PROVE  Moved(r)
<1>1. /\ p.running = c /\ c # FirstCo /\ p' = Yield(p, "yield")
      /\ sleeping' = sleeping /\ waking' = waking
  BY DEF YieldUp, CoYield
<1>2. /\ State(p', Below(r), i, n) /\ r # <<>> /\ r[1] = c /\ Below(r) # <<>>
      /\ Suspended(p') = Suspended(p) \cup {c} /\ Asleep(p') = Asleep(p)
  BY <1>1, YieldStep
<1>3. Behind' = Behind
  BY <1>1 DEF Behind
<1>4. SleepInv'
  BY <1>1, <1>2, <1>3, InvParts DEF SleepInv, OneWaking
<1>5. StackMove(r, Below(r), Suspended(p), Suspended(p'))
  BY <1>2 DEF StackMove
<1> QED BY <1>2, <1>3, <1>4, <1>5 DEF Moved, QueueMove

LEMMA ReturnMoves ==
  ASSUME SleepInv, NEW r, NEW i, NEW n, State(p, r, i, n),
         NEW c, Return(c)
  PROVE  Moved(r)
<1>1. /\ p.running = c /\ c # FirstCo /\ p' = Finish(p)
      /\ sleeping' = sleeping /\ waking' = waking
  BY DEF Return, CoReturn
<1>2. /\ State(p', Below(r), Onto(c, i), n) /\ r # <<>> /\ Below(r) # <<>>
      /\ Suspended(p') = Suspended(p) /\ Asleep(p') = Asleep(p)
  BY <1>1, FinishStep
<1>3. Behind' = Behind
  BY <1>1 DEF Behind
<1>4. SleepInv'
  BY <1>1, <1>2, <1>3, InvParts DEF SleepInv, OneWaking
<1>5. StackMove(r, Below(r), Suspended(p), Suspended(p'))
  BY <1>2 DEF StackMove
<1> QED BY <1>2, <1>3, <1>4, <1>5 DEF Moved, QueueMove

LEMMA TailAppend ==
  ASSUME NEW T, NEW s \in Seq(T), s # <<>>, NEW c \in T
  PROVE  Tail(Append(s, c)) = Append(Tail(s), c) /\ Append(s, c) # <<>>
<1> DEFINE u == Tail(Append(s, c))
           v == Append(Tail(s), c)
           n == Len(s)
<1>1. n \in Nat /\ n > 0 /\ \A k \in 1..n : s[k] \in T
  BY TailIs
<1>2. /\ Append(s, c) \in Seq(T) /\ Append(s, c) # <<>>
      /\ Len(Append(s, c)) = n + 1 /\ Append(s, c)[n + 1] = c
      /\ \A k \in 1..n : Append(s, c)[k] = s[k]
  BY <1>1
<1>3. /\ u \in Seq(T) /\ Len(u) = n
      /\ \A k \in 1..n : u[k] = Append(s, c)[k + 1]
  BY <1>1, <1>2
<1>4. /\ v \in Seq(T) /\ Len(v) = n /\ v[n] = c
      /\ \A k \in 1..(n - 1) : v[k] = s[k + 1]
  BY <1>1, TailIs
<1> HIDE DEF u, v, n
<1>5. \A k \in 1..n : u[k] = v[k]
  <2> SUFFICES ASSUME NEW k \in 1..n PROVE u[k] = v[k]
    OBVIOUS
  <2>1. CASE k = n
    BY <1>1, <1>2, <1>3, <1>4, <2>1
  <2>2. CASE k # n
    <3>1. k \in 1..(n - 1) /\ k + 1 \in 1..n
      BY <1>1, <2>2
    <3> QED BY <1>2, <1>3, <1>4, <3>1
  <2> QED BY <2>1, <2>2
<1>6. u = v
  BY <1>1, <1>3, <1>4, <1>5, SeqEqual
<1> QED BY <1>2, <1>6 DEF u, v

LEMMA SleepMoves ==
  ASSUME SleepInv, NEW r, NEW i, NEW n, State(p, r, i, n),
         NEW c, Sleep(c)
  PROVE  Moved(r)
<1>1. /\ p.running = c /\ c # FirstCo /\ p' = Yield(p, "sleep")
      /\ sleeping' = Append(sleeping, c) /\ waking' = waking
  BY DEF Sleep, CoYield
<1>2. /\ State(p', Below(r), i, n) /\ r # <<>> /\ r[1] = c /\ Below(r) # <<>>
      /\ Suspended(p') = Suspended(p) \cup {c} /\ c \notin Suspended(p)
      /\ Asleep(p') = Asleep(p) \cup {c} /\ c \in Coro
  BY <1>1, YieldStep
<1>3. c \notin Asleep(p)
  BY <1>2 DEF Asleep, Suspended
<1>4. Behind' = Append(Behind, c)
  <2>1. CASE waking = {}
    BY <1>1, <2>1 DEF Behind
  <2>2. CASE waking # {}
    <3>1. sleeping # <<>> /\ sleeping \in Seq(Coro)
      BY <2>2, InvParts
    <3>2. Tail(Append(sleeping, c)) = Append(Tail(sleeping), c)
      BY <1>2, <3>1, TailAppend
    <3>3. Behind' = Tail(Append(sleeping, c)) /\ Behind = Tail(sleeping)
      BY <1>1, <2>2 DEF Behind
    <3> QED BY <3>2, <3>3
  <2> QED BY <2>1, <2>2
<1>5. Queued(Append(Behind, c), Asleep(p) \cup {c})
  BY <1>2, <1>3, InvParts, QueueAppend
<1>6. sleeping' \in Seq(Coro) /\ sleeping' # <<>>
  BY <1>1, <1>2, InvParts
<1>7. Queued(Behind', Asleep(p'))
  BY <1>2, <1>4, <1>5
<1>8. SleepInv'
  BY <1>1, <1>2, <1>6, <1>7, InvParts DEF SleepInv, OneWaking
<1>9. StackMove(r, Below(r), Suspended(p), Suspended(p'))
  BY <1>2 DEF StackMove
<1> QED BY <1>2, <1>4, <1>8, <1>9 DEF Moved, QueueMove

LEMMA TryWakeMoves ==
  ASSUME SleepInv, NEW r, NEW i, NEW n, State(p, r, i, n),
         NEW c \in 0..NCoro, TryWake(c)
  PROVE  Moved(r)
<1>1. /\ waking = {} /\ sleeping # <<>> /\ p' = Resume(p, Head(sleeping))
      /\ waking' = {c} /\ sleeping' = sleeping
  BY DEF TryWake, MayWake, CoResume, Target
<1>2. Behind = sleeping /\ Behind' = Tail(sleeping)
  BY <1>1 DEF Behind
<1>3. Queued(sleeping, Asleep(p)) /\ sleeping \in Seq(Coro)
  BY <1>2, InvParts
<1>4. Head(sleeping) = sleeping[1]
  BY <1>1, <1>3
<1> DEFINE t == sleeping[1]
<1>5. Queued(Tail(sleeping), Asleep(p) \ {t}) /\ t \in Asleep(p)
  BY <1>1, <1>3, QueueTail
<1>6. t \in Suspended(p) /\ p' = Resume(p, t)
  BY <1>1, <1>4, <1>5 DEF Asleep, Suspended
<1> HIDE DEF t
<1>7. /\ State(p', Onto(t, r), i, n)
      /\ Suspended(p') = Suspended(p) \ {t} /\ Asleep(p') = Asleep(p) \ {t}
  BY <1>6, ResumeStep
<1>8. Queued(Behind', Asleep(p'))
  BY <1>2, <1>5, <1>7
<1>9. SleepInv'
  BY <1>1, <1>3, <1>7, <1>8 DEF SleepInv, OneWaking
<1>10. StackMove(r, Onto(t, r), Suspended(p), Suspended(p'))
  BY <1>6, <1>7 DEF StackMove
<1>11. QueueMove(Behind, Behind')
  BY <1>1, <1>2 DEF QueueMove
<1> QED BY <1>7, <1>9, <1>10, <1>11 DEF Moved

LEMMA AwokenMoves ==
  ASSUME SleepInv, NEW r, NEW i, NEW n, State(p, r, i, n),
         NEW c, Awoken(c)
  PROVE  Moved(r)
<1>1. c \in waking /\ sleeping' = Tail(sleeping) /\ waking' = waking \ {c} /\ p' = p
  BY DEF Awoken, Remaining
<1>2. waking' = {} /\ waking # {}
  BY <1>1, InvParts DEF OneWaking
<1>3. sleeping # <<>> /\ sleeping \in Seq(Coro)
  BY <1>2, InvParts
<1>4. sleeping' \in Seq(Coro)
  BY <1>1, <1>3, TailIs
<1>5. Behind' = Behind
  BY <1>1, <1>2 DEF Behind
<1>6. SleepInv'
  BY <1>1, <1>2, <1>4, <1>5, InvParts DEF SleepInv, OneWaking
<1>7. StackMove(r, r, Suspended(p), Suspended(p'))
  BY <1>1 DEF StackMove
<1>8. State(p', r, i, n)
  BY <1>1
<1> QED BY <1>5, <1>6, <1>7, <1>8 DEF Moved, QueueMove

LEMMA NextMoves ==
  ASSUME SleepInv, NEW r, NEW i, NEW n, State(p, r, i, n), [SleepNext]_sleepVars
  PROVE  Moved(r)
<1>1. CASE SleepNext
  BY <1>1, CreateMoves, ResumeMoves, YieldMoves, ReturnMoves, SleepMoves,
     TryWakeMoves, AwokenMoves DEF SleepNext
<1>2. CASE UNCHANGED sleepVars
  <2>1. p' = p /\ sleeping' = sleeping /\ waking' = waking
    BY <1>2 DEF sleepVars
  <2>2. Behind' = Behind
    BY <2>1 DEF Behind
  <2>3. SleepInv'
    BY <2>1, <2>2 DEF SleepInv, OneWaking
  <2>4. State(p', r, i, n) /\ StackMove(r, r, Suspended(p), Suspended(p'))
    BY <2>1 DEF StackMove
  <2> QED BY <2>2, <2>3, <2>4 DEF Moved, QueueMove
<1> QED BY <1>1, <1>2

THEOREM SleepQHolds == SleepSpec => []SleepInv
<1>1. SleepInit => SleepInv
  BY SleepInit0
<1>2. SleepInv /\ [SleepNext]_sleepVars => SleepInv'
  <2> SUFFICES ASSUME SleepInv, [SleepNext]_sleepVars PROVE SleepInv'
    OBVIOUS
  <2>1. PICK r, i, n : State(p, r, i, n)
    BY DEF SleepInv
  <2> QED BY <2>1, NextMoves DEF Moved
<1> QED BY <1>1, <1>2, PTL DEF SleepSpec

(***************************************************************************)
(* Whatever is created, resumed, put to sleep or returns, the lists of     *)
(* picoro.c tell what each coroutine is doing, and resumable() is right.   *)
(***************************************************************************)
THEOREM ListsTell == SleepSpec => []ListsTellStates
<1>1. SleepInv => ListsTellStates
  BY StateTells DEF SleepInv
<1> QED BY <1>1, SleepQHolds, PTL

(***************************************************************************)
(* The sleep queue has each coroutine that sleeps, once, behind an entry   *)
(* that is being woken; so SleepQ__tryWake only resumes one that may be.   *)
(***************************************************************************)
THEOREM SleepersHold == SleepSpec => []SleepersQueued
<1>1. SleepInv => SleepersQueued
  <2> SUFFICES ASSUME SleepInv PROVE SleepersQueued
    OBVIOUS
  <2>1. PICK r, i, n : State(p, r, i, n)
    BY DEF SleepInv
  <2>2. PICK f, a, b, x :
          /\ p = Co(f, a, b, x) /\ Holds(f, a, b, x, r, i, n)
          /\ p.next = f /\ p.ctx = x
    BY <2>1, StateParts
  <2>3. /\ sleeping \in Seq(Coro) /\ OneWaking
        /\ Queued(Behind, Asleep(p)) /\ Behind \in Seq(Coro)
        /\ waking = {} => Behind = sleeping
    BY InvParts
  <2>4. /\ f \in Links /\ x \in [0..NCoro -> Context] /\ a \in 0..NCoro
        /\ b \in Coro \cup {NULL}
    BY <2>2, HoldsFacts
  <2>5. CoroOK
    <3> DEFINE A == [0..NCoro -> 0..NCoro \cup {NULL}]
               B == [0..NCoro -> Context]
    <3>1. f \in A /\ x \in B
      BY <2>4 DEF Links
    <3> HIDE DEF A, B
    <3>2. Co(f, a, b, x) \in [next : A, running : 0..NCoro,
                              idle : Coro \cup {NULL}, ctx : B]
      BY <2>4, <3>1 DEF Co
    <3> QED BY <2>2, <3>2 DEF CoroOK, A, B
  <2>6. SleepTypeOK
    BY <2>3, <2>5 DEF SleepTypeOK, OneWaking
  <2>7. IsInjective(Behind) /\ Range(Behind) = Asleep(p)
    BY <2>3, OfIs DEF Queued
  <2>8. MayWake => Resumable(p, Target)
    <3> SUFFICES ASSUME MayWake PROVE Resumable(p, Target)
      OBVIOUS
    <3>1. sleeping # <<>> /\ Behind = sleeping
      BY <2>3 DEF MayWake
    <3>2. sleeping[1] \in Asleep(p) /\ Target = sleeping[1]
      <4>1. sleeping[1] \in Asleep(p)
        BY <2>3, <3>1, QueueTail
      <4>2. Target = sleeping[1]
        BY <2>3, <3>1 DEF Target
      <4> QED BY <4>1, <4>2
    <3>3. Target \in Coro /\ x[Target] = "sleep" /\ Target \in 0..NCoro
      BY <2>2, <3>2, CoroAssumption DEF Asleep, Coro
    <3>4. f[Target] = NULL
      BY <2>2, <3>3 DEF Holds, Kinds
    <3> QED BY <2>2, <3>4 DEF Resumable
  <2> QED BY <2>6, <2>7, <2>8 DEF SleepersQueued, Asleep
<1> QED BY <1>1, SleepQHolds, PTL

\* Those who sleep are the queue behind the entry that is being woken.
LEMMA QueueWhole ==
  ASSUME NEW s, NEW S, Queued(s, S)
  PROVE  Among(s, S) = s
<1> DEFINE n == Len(s)
<1>1. s \in Seq(Coro) /\ \A k \in 1..n : s[k] \in S
  BY DEF Queued, Of
<1>2. n \in Nat /\ n \in 0..n /\ \A k \in 1..n : s[k] \in S <=> k <= n
  <2>1. n \in Nat
    BY <1>1
  <2> HIDE DEF n
  <2> QED BY <1>1, <2>1
<1>3. Among(s, S) = [k \in 1..n |-> s[k]]
  BY <1>1, <1>2, AmongPrefix
<1>4. [k \in 1..n |-> s[k]] = s
  BY <1>1
<1> QED BY <1>3, <1>4

(***************************************************************************)
(* Coroutines wake in the order they went to sleep: to sleep is to enter a *)
(* first-in first-out queue, to be woken is to leave it.                   *)
(***************************************************************************)
THEOREM WakesInOrder == SleepSpec => WokenInOrder
<1>1. SleepInit => Queue!Init
  <2> SUFFICES ASSUME SleepInit PROVE Queue!Init
    OBVIOUS
  <2>1. Sleepers = Behind
    BY SleepInit0, InvParts, QueueWhole DEF Sleepers, Asleep
  <2>2. Behind = <<>>
    BY DEF SleepInit, Behind
  <2> QED BY <2>1, <2>2 DEF Queue!Init
<1>2. SleepInv /\ SleepInv' /\ [SleepNext]_sleepVars => [Queue!Next]_(Queue!vars)
  <2> SUFFICES ASSUME SleepInv, SleepInv', [SleepNext]_sleepVars
               PROVE  [Queue!Next]_(Queue!vars)
    OBVIOUS
  <2>1. PICK r, i, n : State(p, r, i, n)
    BY DEF SleepInv
  <2>2. QueueMove(Behind, Behind')
    BY <2>1, NextMoves DEF Moved
  <2>3. Sleepers = Behind
    BY QueueWhole DEF SleepInv, Sleepers, Asleep
  <2>4. Sleepers' = Behind'
    BY QueueWhole DEF SleepInv, Sleepers, Asleep
  <2>5. QueueMove(Sleepers, Sleepers')
    BY <2>2, <2>3, <2>4
  <2> QED BY <2>5 DEF QueueMove, Queue!Next, Queue!Enter, Queue!Leave, Queue!vars
<1> QED BY <1>1, <1>2, SleepQHolds, PTL DEF SleepSpec, WokenInOrder, Queue!Spec

(***************************************************************************)
(* The lists and jumps of picoro.c are a stack of calls: resume() calls    *)
(* one that is suspended, yield() and the end of a function return.        *)
(***************************************************************************)
THEOREM StackHolds == SleepSpec => ImplementsStack
<1>1. SleepInit => Stack!Init
  <2> SUFFICES ASSUME SleepInit PROVE Stack!Init
    OBVIOUS
  <2>1. State(p, Onto(FirstCo, <<>>), <<>>, 0) /\ p = NoCoros
    BY InitState DEF SleepInit, CoInit
  <2>2. Chain(p, p.running) = Onto(FirstCo, <<>>)
    BY <2>1, ListsAre
  <2>3. Suspended(p) = {}
    BY <2>1, CoroAssumption DEF NoCoros, Suspended, Coro
  <2>4. Onto(FirstCo, <<>>) = <<FirstCo>>
    BY DEF Onto
  <2> QED BY <2>2, <2>3, <2>4 DEF Stack!Init
<1>2. SleepInv /\ SleepInv' /\ [SleepNext]_sleepVars => [Stack!Next]_(Stack!vars)
  <2> SUFFICES ASSUME SleepInv, [SleepNext]_sleepVars
               PROVE  [Stack!Next]_(Stack!vars)
    OBVIOUS
  <2>1. PICK r, i, n : State(p, r, i, n)
    BY DEF SleepInv
  <2>2. PICK s, j, m : /\ State(p', s, j, m)
                       /\ StackMove(r, s, Suspended(p), Suspended(p'))
    BY <2>1, NextMoves DEF Moved
  <2> DEFINE R == Chain(p, p.running)
             S == Suspended(p)
             R2 == Chain(p', p'.running)
             S2 == Suspended(p')
  <2>3. R = r
    BY <2>1, ListsAre
  <2>4. R2 = s
    BY <2>2, ListsAre
  <2>5. R' = R2 /\ S' = S2
    OBVIOUS
  <2>6. r \in Seq(0..NCoro)
    BY <2>1 DEF State, Holds, IsList
  <2>7. Stack!Range(R) = Of(R)
    <3>1. DOMAIN r = 1..Len(r)
      BY <2>6
    <3> HIDE DEF R
    <3> QED BY <2>3, <3>1 DEF Stack!Range, Of
  <2>8. Below(r) # <<>> /\ r # <<>> => Len(r) > 1 /\ Head(r) = r[1]
    BY <2>6 DEF Below
  <2>9. StackMove(R, R', S, S')
    BY <2>2, <2>3, <2>4, <2>5
  <2>10. Below(R) # <<>> /\ R # <<>> => Len(R) > 1 /\ Head(R) = R[1]
    BY <2>3, <2>8
  <2> HIDE DEF R, S
  <2>11. CASE R' = R /\ S' = S
    BY <2>11 DEF Stack!vars, R, S
  <2>12. CASE \E c \in S' : c \notin S \cup Of(R) /\ R' = R /\ S' = S \cup {c}
    BY <2>7, <2>12 DEF Stack!Next, Stack!Create, R, S
  <2>13. CASE \E c \in S : R' = Onto(c, R) /\ S' = S \ {c}
    BY <2>13 DEF Stack!Next, Stack!Resume, R, S, Onto
  <2>14. CASE Below(R) # <<>> /\ R # <<>> /\ R' = Below(R) /\ S' = S \cup {R[1]}
    BY <2>10, <2>14 DEF Stack!Next, Stack!Yield, R, S, Below
  <2>15. CASE Below(R) # <<>> /\ R # <<>> /\ R' = Below(R) /\ S' = S
    BY <2>10, <2>15 DEF Stack!Next, Stack!Finish, R, S, Below
  <2> QED BY <2>9, <2>11, <2>12, <2>13, <2>14, <2>15 DEF StackMove
<1> QED BY <1>1, <1>2, SleepQHolds, PTL DEF SleepSpec, ImplementsStack, Stack!Spec
=============================================================================
