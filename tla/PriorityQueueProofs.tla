------------------------ MODULE PriorityQueueProofs ------------------------
(***************************************************************************)
(* The heap is ordered, and pop takes a most important item, whatever the  *)
(* items and however many: theorems about every behaviour of PriorityQueue.*)
(***************************************************************************)
EXTENDS PriorityQueue, FiniteSetTheorems, WellFoundedInduction, TLAPS

-----------------------------------------------------------------------------
(* Indices and swaps *)

LEMMA UpBelow ==
  \A i \in Nat \ {0} :
    /\ Up(i) \in Nat /\ Up(i) < i
    /\ i = 2 * Up(i) + 1 \/ i = 2 * Up(i) + 2
BY DEF Up

LEMMA ParentIsUp == \A i \in Nat \ {0} : Parent(i) = Up(i)
BY DEF Parent, Up

LEMMA UpOfChild ==
  ASSUME NEW i \in Nat
  PROVE  /\ Child(i) \in Nat /\ Child(i) > i
         /\ Up(Child(i)) = i /\ Up(Child(i) + 1) = i
BY DEF Child, Up

LEMMA SwapOfTwo ==
  ASSUME TypeOK, NEW a \in 0..(len - 1), NEW b \in 0..(len - 1), a # b
  PROVE  /\ Swapped(a, b) \in [0..(len - 1) -> Item \cup {Unset}]
         /\ Swapped(a, b)[a] = queue[b] /\ Swapped(a, b)[b] = queue[a]
         /\ \A i \in 0..(len - 1) : i # a /\ i # b => Swapped(a, b)[i] = queue[i]
BY DEF Swapped, TypeOK

\* The child that sifting looks at, and what it knows of the other.
LEMMA SuccessorOfCurr ==
  ASSUME TypeOK, Child(curr) < tail
  PROVE  /\ Successor \in Nat /\ Successor < tail /\ Successor > curr
         /\ Up(Successor) = curr
         /\ \A i \in 1..(tail - 1) : Up(i) = curr => AtMost(i, Successor)
<1> DEFINE left == Child(curr)
<1>1. /\ curr \in Nat /\ tail \in Nat /\ tail <= len /\ left < tail
      /\ \A i \in 0..(tail - 1) : queue[i] \in Item
  BY DEF TypeOK
<1>2. \A i \in 0..(tail - 1) : Prio[queue[i]] \in Int
  BY <1>1, ItemAssumption
<1>3. /\ left \in Nat /\ left > curr /\ left = 2 * curr + 1
      /\ Up(left) = curr /\ Up(left + 1) = curr
  BY <1>1, UpOfChild DEF Child
<1>4. \A i \in 1..(tail - 1) : Up(i) = curr => i = left \/ i = left + 1
  BY <1>1, <1>3, UpBelow
<1> HIDE DEF left
<1>5. CASE left + 1 < tail /\ MoreImportant(left + 1, left)
  <2>1. Successor = left + 1
    BY <1>5 DEF Successor, left
  <2>2. Prio[queue[left]] <= Prio[queue[left + 1]]
    BY <1>1, <1>2, <1>3, <1>5 DEF MoreImportant
  <2>3. \A i \in 1..(tail - 1) : Up(i) = curr => AtMost(i, left + 1)
    BY <1>1, <1>2, <1>3, <1>4, <1>5, <2>2 DEF AtMost
  <2> QED BY <1>1, <1>3, <1>5, <2>1, <2>3
<1>6. CASE ~ (left + 1 < tail /\ MoreImportant(left + 1, left))
  <2>1. Successor = left
    BY <1>6 DEF Successor, left
  <2>2. left + 1 < tail => Prio[queue[left + 1]] <= Prio[queue[left]]
    BY <1>1, <1>2, <1>3, <1>6 DEF MoreImportant
  <2>3. \A i \in 1..(tail - 1) : Up(i) = curr => AtMost(i, left)
    BY <1>1, <1>2, <1>3, <1>4, <2>2 DEF AtMost
  <2> QED BY <1>1, <1>3, <2>1, <2>3
<1> QED BY <1>5, <1>6

-----------------------------------------------------------------------------
(* The order *)

\* HeapOrder of one cell.
Placed(i) ==
  /\ \/ AtMost(i, Up(i))
     \/ at = "bubble" /\ i = curr
     \/ at = "sift" /\ Up(i) = curr
  /\ at # "idle" /\ Up(i) = curr /\ curr # 0 => AtMost(i, Up(curr))

LEMMA HeapIsPlaced == HeapOrder <=> TypeOK /\ \A i \in 1..(tail - 1) : Placed(i)
BY DEF HeapOrder, Placed

LEMMA PlacedNext ==
  ASSUME NEW i,
         \/ Prio[queue'[i]] <= Prio[queue'[Up(i)]]
         \/ at' = "bubble" /\ i = curr'
         \/ at' = "sift" /\ Up(i) = curr',
         at' # "idle" /\ Up(i) = curr' /\ curr' # 0 =>
           Prio[queue'[i]] <= Prio[queue'[Up(curr')]]
  PROVE  Placed(i)'
BY DEF Placed, AtMost, Up

LEMMA Typed ==
  ASSUME TypeOK
  PROVE  /\ len \in Nat /\ tail \in Nat /\ curr \in Nat /\ tail < len /\ curr < len
         /\ \A i \in 0..(tail - 1) : Prio[queue[i]] \in Int
BY ItemAssumption DEF TypeOK

LEMMA InitOrder == Init => HeapOrder
<1> SUFFICES ASSUME Init PROVE HeapOrder
  OBVIOUS
<1>1. TypeOK
  BY DEF Init, TypeOK
<1> QED BY <1>1 DEF Init, HeapOrder

\* The item is added at the end, from where it may have to bubble up.
LEMMA AddKeepsOrder ==
  ASSUME HeapOrder, NEW x \in Item, Add(x)
  PROVE  HeapOrder'
<1>1. /\ TypeOK /\ at = "idle" /\ curr' = tail /\ at' = "bubble" /\ got' = got
      /\ tail' = tail + 1
      /\ len' = IF IsFull THEN 2 * len ELSE len
      /\ queue' = [i \in 0..(len' - 1) |->
                     IF i = tail THEN x ELSE IF i < len THEN queue[i] ELSE Unset]
  BY DEF HeapOrder, Add
<1>2. len' \in Nat /\ tail + 1 < len' /\ len <= len' /\ tail \in Nat
  BY <1>1, Typed DEF IsFull
<1> HIDE DEF IsFull
<1>3. /\ queue'[tail] = x
      /\ \A i \in 0..(tail - 1) : queue'[i] = queue[i]
  BY <1>1, <1>2, Typed
<1>4. TypeOK'
  <2>1. queue' \in [0..(len' - 1) -> Item \cup {Unset}]
    BY <1>1, <1>2, Typed DEF TypeOK
  <2>2. \A i \in 0..(tail' - 1) : queue'[i] \in Item
    BY <1>1, <1>3, Typed DEF TypeOK
  <2>3. /\ tail' \in 0..(len' - 1) /\ at' \in {"idle", "bubble", "sift"}
        /\ curr' \in 0..(len' - 1) /\ (at' = "bubble" => curr' < tail')
        /\ got' \in Item \cup {Unset}
    BY <1>1, <1>2, Typed DEF TypeOK
  <2> QED BY <1>2, <2>1, <2>2, <2>3 DEF TypeOK
<1>5. ASSUME NEW i \in 1..(tail' - 1)
      PROVE  Placed(i)'
  <2>1. CASE i = tail
    <3>1. Up(i) # tail
      BY <2>1, UpBelow, Typed
    <3> QED BY <1>1, <2>1, <3>1, PlacedNext
  <2>2. CASE i # tail
    <3>1. i \in 1..(tail - 1) /\ i \in Nat \ {0}
      BY <1>1, <2>2, Typed
    <3>2. Up(i) \in 0..(tail - 1) /\ Up(i) # tail
      BY <1>2, <3>1, UpBelow
    <3>3. AtMost(i, Up(i))
      BY <1>1, <3>1 DEF HeapOrder
    <3>4. Prio[queue'[i]] <= Prio[queue'[Up(i)]]
      BY <1>3, <3>1, <3>2, <3>3 DEF AtMost
    <3> QED BY <1>1, <3>2, <3>4, PlacedNext
  <2> QED BY <2>1, <2>2
<1> QED BY <1>4, <1>5, HeapIsPlaced DEF HeapOrder, Placed

\* The item and the one above it change places.
LEMMA BubbleKeepsOrder ==
  ASSUME HeapOrder, Bubble
  PROVE  HeapOrder'
<1> DEFINE p == Up(curr)
<1>1. /\ TypeOK /\ at = "bubble" /\ at' = "bubble" /\ len' = len /\ tail' = tail
      /\ got' = got /\ curr # 0
      /\ \A i \in 1..(tail - 1) : Placed(i)
  BY HeapIsPlaced DEF Bubble, MustBubble, HeapOrder
<1>2. /\ p \in Nat /\ p < curr /\ curr \in 1..(tail - 1)
      /\ curr \in 0..(len - 1) /\ p \in 0..(len - 1) /\ p \in 0..(tail - 1)
  BY <1>1, Typed, UpBelow DEF TypeOK
<1>3. /\ Parent(curr) = p /\ curr' = p /\ queue' = Swapped(curr, p)
      /\ Prio[queue[curr]] > Prio[queue[p]]
  BY <1>1, <1>2, ParentIsUp DEF Bubble, MustBubble, MoreImportant
<1>4. /\ queue' \in [0..(len - 1) -> Item \cup {Unset}]
      /\ queue'[curr] = queue[p] /\ queue'[p] = queue[curr]
      /\ \A i \in 0..(tail - 1) : i # curr /\ i # p => queue'[i] = queue[i]
  <2>1. p # curr /\ \A i \in 0..(tail - 1) : i \in 0..(len - 1)
    BY <1>1, <1>2, Typed
  <2> HIDE DEF p
  <2> QED BY <1>1, <1>2, <1>3, <2>1, SwapOfTwo
<1>5. \A i \in 0..(tail - 1) : queue[i] \in Item /\ Prio[queue[i]] \in Int
  BY <1>1, Typed DEF TypeOK
<1> HIDE DEF p
<1>6. TypeOK'
  <2>1. \A i \in 0..(tail - 1) : queue'[i] \in Item
    BY <1>2, <1>4, <1>5
  <2> QED BY <1>1, <1>2, <1>3, <1>4, <2>1 DEF TypeOK
<1>7. p # 0 => p \in 1..(tail - 1) /\ Prio[queue[p]] <= Prio[queue[Up(p)]]
               /\ Up(p) \in 0..(tail - 1) /\ Up(p) # p /\ Up(p) # curr
  <2> SUFFICES ASSUME p # 0
               PROVE  p \in 1..(tail - 1) /\ Prio[queue[p]] <= Prio[queue[Up(p)]]
                      /\ Up(p) \in 0..(tail - 1) /\ Up(p) # p /\ Up(p) # curr
    OBVIOUS
  <2>1. p \in 1..(tail - 1) /\ Up(p) \in Nat /\ Up(p) < p
    BY <1>2, UpBelow
  <2>2. Placed(p)
    BY <1>1, <2>1
  <2> QED BY <1>1, <1>2, <2>1, <2>2, Typed DEF Placed, AtMost
<1>8. ASSUME NEW i \in 1..(tail - 1)
      PROVE  /\ i # p => Prio[queue'[i]] <= Prio[queue'[Up(i)]]
             /\ Up(i) = p /\ p # 0 => Prio[queue'[i]] <= Prio[queue'[Up(p)]]
  <2>1. /\ i \in 0..(tail - 1) /\ Up(i) \in 0..(tail - 1) /\ Up(i) # i
    BY <1>1, UpBelow, Typed
  <2>2. Placed(i)
    BY <1>1
  <2>3. CASE i = curr
    <3>1. Up(i) = p
      BY <2>3 DEF p
    <3>2. Prio[queue'[i]] <= Prio[queue'[p]]
      BY <1>2, <1>3, <1>4, <1>5, <2>3
    <3>3. p # 0 => Prio[queue'[i]] <= Prio[queue'[Up(p)]]
      BY <1>2, <1>4, <1>7, <2>3
    <3> QED BY <3>1, <3>2, <3>3
  <2>4. CASE i # curr /\ Up(i) = curr
    <3>1. Prio[queue[i]] <= Prio[queue[p]]
      BY <1>1, <1>2, <2>2, <2>4 DEF Placed, AtMost, p
    <3>2. i # p
      BY <1>2, <2>4, UpBelow
    <3>3. Prio[queue'[i]] <= Prio[queue'[Up(i)]]
      BY <1>4, <2>1, <2>4, <3>1, <3>2
    <3> QED BY <1>2, <2>4, <3>3
  <2>5. CASE i # curr /\ Up(i) = p
    <3>1. Prio[queue[i]] <= Prio[queue[p]]
      BY <1>1, <1>2, <2>2, <2>5 DEF Placed, AtMost
    <3>2. i # p
      BY <2>1, <2>5
    <3>3. Prio[queue'[i]] <= Prio[queue'[p]]
      BY <1>2, <1>3, <1>4, <1>5, <2>1, <2>5, <3>1, <3>2
    <3>4. p # 0 => Prio[queue'[i]] <= Prio[queue'[Up(p)]]
      <4> SUFFICES ASSUME p # 0
                   PROVE  Prio[queue'[i]] <= Prio[queue'[Up(p)]]
        OBVIOUS
      <4>1. queue'[i] = queue[i] /\ queue'[Up(p)] = queue[Up(p)]
        BY <1>4, <1>7, <2>1, <2>5, <3>2
      <4> QED BY <1>2, <1>5, <1>7, <2>1, <3>1, <4>1
    <3> QED BY <2>5, <3>3, <3>4
  <2>6. CASE i # curr /\ i # p /\ Up(i) # curr /\ Up(i) # p
    BY <1>1, <1>4, <2>1, <2>2, <2>6 DEF Placed, AtMost
  <2>7. CASE i = p /\ i # curr /\ Up(i) # curr /\ Up(i) # p
    BY <2>7
  <2> QED BY <2>3, <2>4, <2>5, <2>6, <2>7
<1>9. \A i \in 1..(tail' - 1) : Placed(i)'
  <2> SUFFICES ASSUME NEW i \in 1..(tail - 1) PROVE Placed(i)'
    BY <1>1
  <2> QED BY <1>1, <1>3, <1>8, PlacedNext
<1> QED BY <1>6, <1>9, HeapIsPlaced DEF HeapOrder, Placed

LEMMA BubbledKeepsOrder ==
  ASSUME HeapOrder, Bubbled
  PROVE  HeapOrder'
<1>1. /\ TypeOK /\ at = "bubble" /\ at' = "idle" /\ ~ MustBubble
      /\ UNCHANGED <<queue, len, tail, curr, got>>
      /\ \A i \in 1..(tail - 1) : Placed(i)
  BY HeapIsPlaced DEF Bubbled, HeapOrder
<1>2. TypeOK'
  BY <1>1 DEF TypeOK
<1>3. ASSUME NEW i \in 1..(tail - 1)
      PROVE  AtMost(i, Up(i))
  <2>1. CASE i = curr
    <3>1. i \in 0..(tail - 1) /\ Up(i) \in 0..(tail - 1)
      BY <1>1, UpBelow, Typed
    <3>2. ~ (Prio[queue[i]] > Prio[queue[Up(i)]])
      BY <1>1, <2>1, ParentIsUp DEF MustBubble, MoreImportant
    <3> QED BY <1>1, <3>1, <3>2, Typed DEF AtMost
  <2>2. CASE i # curr
    BY <1>1, <2>2 DEF Placed
  <2> QED BY <2>1, <2>2
<1>4. \A i \in 1..(tail' - 1) : Placed(i)'
  BY <1>1, <1>3 DEF Placed, AtMost, Up
<1> QED BY <1>2, <1>4, HeapIsPlaced DEF HeapOrder, Placed

\* The last item comes to the root, from where it may have to sift down.
LEMMA PopKeepsOrder ==
  ASSUME HeapOrder, Pop
  PROVE  HeapOrder'
<1>1. /\ TypeOK /\ at = "idle" /\ at' = "sift" /\ tail # 0 /\ len' = len
      /\ tail' = tail - 1 /\ curr' = 0 /\ got' = queue[0]
      /\ queue' = Swapped(0, tail - 1)
      /\ \A i \in 1..(tail - 1) : Placed(i)
  BY HeapIsPlaced DEF Pop, HeapOrder
<1>2. /\ 0 \in 0..(len - 1) /\ tail - 1 \in 0..(len - 1) /\ tail - 1 \in Nat
      /\ tail \in Nat
  BY <1>1, Typed
<1>3. /\ queue' \in [0..(len - 1) -> Item \cup {Unset}]
      /\ queue'[0] = queue[tail - 1]
      /\ \A i \in 1..(tail - 2) : queue'[i] = queue[i]
  <2>1. CASE tail - 1 = 0
    <3>1. queue' = Swapped(0, 0)
      BY <1>1, <2>1
    <3>2. queue' = queue
      BY <1>1, <1>2, <3>1 DEF Swapped, TypeOK
    <3> QED BY <1>1, <2>1, <3>2 DEF TypeOK
  <2>2. CASE tail - 1 # 0
    <3>1. \A i \in 1..(tail - 2) : i \in 0..(len - 1) /\ i # 0 /\ i # tail - 1
      BY <1>1, <1>2, Typed
    <3> QED BY <1>1, <1>2, <2>2, <3>1, SwapOfTwo
  <2> QED BY <2>1, <2>2
<1>4. \A i \in 0..(tail - 1) : queue[i] \in Item
  BY <1>1 DEF TypeOK
<1>5. TypeOK'
  <2>1. \A i \in 0..(tail' - 1) : queue'[i] \in Item
    BY <1>1, <1>2, <1>3, <1>4
  <2> QED BY <1>1, <1>2, <1>3, <1>4, <2>1 DEF TypeOK
<1>6. ASSUME NEW i \in 1..(tail - 2)
      PROVE  Up(i) # 0 => Prio[queue'[i]] <= Prio[queue'[Up(i)]]
  <2>1. /\ i \in 1..(tail - 1) /\ Up(i) \in Nat /\ Up(i) < i
    BY <1>2, UpBelow
  <2>2. AtMost(i, Up(i))
    BY <1>1, <2>1 DEF Placed
  <2>3. Up(i) # 0 => Up(i) \in 1..(tail - 2)
    BY <1>2, <2>1
  <2>4. Up(i) # 0 => Prio[queue'[i]] <= Prio[queue'[Up(i)]]
    BY <1>3, <2>2, <2>3 DEF AtMost
  <2> QED BY <2>4
<1>7. \A i \in 1..(tail' - 1) : Placed(i)'
  <2>1. tail' - 1 = tail - 2
    BY <1>1, <1>2
  <2> SUFFICES ASSUME NEW i \in 1..(tail - 2) PROVE Placed(i)'
    BY <2>1
  <2> QED BY <1>1, <1>6, PlacedNext
<1> QED BY <1>5, <1>7, HeapIsPlaced DEF HeapOrder, Placed

\* The item and the more important of those below it change places.
LEMMA SiftKeepsOrder ==
  ASSUME HeapOrder, Sift
  PROVE  HeapOrder'
<1> DEFINE s == Successor
<1>1. /\ TypeOK /\ at = "sift" /\ at' = "sift" /\ len' = len /\ tail' = tail
      /\ got' = got /\ Child(curr) < tail /\ curr' = s
      /\ queue' = Swapped(curr, s) /\ Prio[queue[s]] > Prio[queue[curr]]
      /\ \A i \in 1..(tail - 1) : Placed(i)
  BY HeapIsPlaced DEF Sift, MustSift, MoreImportant, HeapOrder
<1>2. /\ s \in Nat /\ s < tail /\ s > curr /\ Up(s) = curr
      /\ \A i \in 1..(tail - 1) : Up(i) = curr => Prio[queue[i]] <= Prio[queue[s]]
  BY <1>1, SuccessorOfCurr DEF AtMost
<1> HIDE DEF s
<1>3. /\ curr \in 0..(len - 1) /\ s \in 0..(len - 1) /\ curr \in 0..(tail - 1)
      /\ s \in 1..(tail - 1) /\ s \in 0..(tail - 1) /\ curr # s
  BY <1>1, <1>2, Typed
<1>4. /\ queue' \in [0..(len - 1) -> Item \cup {Unset}]
      /\ queue'[curr] = queue[s] /\ queue'[s] = queue[curr]
      /\ \A i \in 0..(tail - 1) : i # curr /\ i # s => queue'[i] = queue[i]
  BY <1>1, <1>3, SwapOfTwo, Typed
<1>5. \A i \in 0..(tail - 1) : queue[i] \in Item /\ Prio[queue[i]] \in Int
  BY <1>1, Typed DEF TypeOK
<1>6. TypeOK'
  <2>1. \A i \in 0..(tail - 1) : queue'[i] \in Item
    BY <1>3, <1>4, <1>5
  <2> QED BY <1>1, <1>3, <1>4, <2>1 DEF TypeOK
<1>7. ASSUME NEW i \in 1..(tail - 1)
      PROVE  /\ Up(i) # s => Prio[queue'[i]] <= Prio[queue'[Up(i)]]
             /\ Up(i) = s => Prio[queue'[i]] <= Prio[queue'[curr]]
  <2>1. /\ i \in 0..(tail - 1) /\ Up(i) \in 0..(tail - 1) /\ Up(i) < i /\ Up(i) # i
    BY <1>1, UpBelow, Typed
  <2>2. Placed(i)
    BY <1>1
  <2>3. CASE i = s
    <3>1. Prio[queue'[i]] <= Prio[queue'[Up(i)]]
      BY <1>1, <1>2, <1>3, <1>4, <1>5, <2>3
    <3> QED BY <2>1, <2>3, <3>1
  <2>4. CASE i = curr
    <3>1. Prio[queue[i]] <= Prio[queue[s]] /\ Up(i) # curr
      BY <1>1, <1>3, <1>5, <2>1, <2>4
    <3>2. Up(s) = curr /\ curr # 0 /\ Placed(s)
      BY <1>1, <1>2, <1>3, <2>4
    <3>3. Prio[queue[s]] <= Prio[queue[Up(curr)]]
      BY <1>1, <3>2 DEF Placed, AtMost
    <3>4. Up(i) # s
      BY <1>2, <2>1, <2>4, Typed
    <3>5. Prio[queue'[i]] <= Prio[queue'[Up(i)]]
      BY <1>3, <1>4, <2>1, <2>4, <3>1, <3>3, <3>4
    <3> QED BY <3>4, <3>5
  <2>5. CASE i # s /\ i # curr /\ Up(i) = curr
    <3>1. Prio[queue[i]] <= Prio[queue[s]]
      BY <1>2, <2>5
    <3>2. Prio[queue'[i]] <= Prio[queue'[Up(i)]]
      BY <1>3, <1>4, <2>1, <2>5, <3>1
    <3> QED BY <1>3, <2>5, <3>2
  <2>6. CASE i # s /\ i # curr /\ Up(i) = s
    <3>1. Prio[queue[i]] <= Prio[queue[s]]
      BY <1>1, <1>3, <2>2, <2>6 DEF Placed, AtMost
    <3>2. Prio[queue'[i]] <= Prio[queue'[curr]]
      BY <1>4, <2>1, <2>6, <3>1
    <3> QED BY <2>6, <3>2
  <2>7. CASE i # s /\ i # curr /\ Up(i) # curr /\ Up(i) # s
    <3>1. AtMost(i, Up(i))
      BY <1>1, <2>2, <2>7 DEF Placed
    <3>2. Prio[queue'[i]] <= Prio[queue'[Up(i)]]
      BY <1>4, <2>1, <2>7, <3>1 DEF AtMost
    <3> QED BY <2>7, <3>2
  <2> QED BY <2>3, <2>4, <2>5, <2>6, <2>7
<1>8. \A i \in 1..(tail' - 1) : Placed(i)'
  <2> SUFFICES ASSUME NEW i \in 1..(tail - 1) PROVE Placed(i)'
    BY <1>1
  <2>1. Up(curr') = curr
    BY <1>1, <1>2
  <2> QED BY <1>1, <1>7, <2>1, PlacedNext
<1> QED BY <1>6, <1>8, HeapIsPlaced DEF HeapOrder, Placed

LEMMA SiftedKeepsOrder ==
  ASSUME HeapOrder, Sifted
  PROVE  HeapOrder'
<1>1. /\ TypeOK /\ at = "sift" /\ at' = "idle" /\ ~ MustSift
      /\ UNCHANGED <<queue, len, tail, curr, got>>
      /\ \A i \in 1..(tail - 1) : Placed(i)
  BY HeapIsPlaced DEF Sifted, HeapOrder
<1>2. TypeOK'
  BY <1>1 DEF TypeOK
<1>3. ASSUME NEW i \in 1..(tail - 1)
      PROVE  AtMost(i, Up(i))
  <2>1. CASE Up(i) = curr
    <3>1. Child(curr) < tail
      BY <1>1, <2>1, UpBelow, Typed DEF Child
    <3>2. /\ Successor \in 0..(tail - 1) /\ curr \in 0..(tail - 1)
          /\ i \in 0..(tail - 1) /\ Prio[queue[i]] <= Prio[queue[Successor]]
      BY <1>1, <2>1, <3>1, SuccessorOfCurr, Typed DEF AtMost
    <3>3. ~ (Prio[queue[Successor]] > Prio[queue[curr]])
      BY <1>1, <3>1 DEF MustSift, MoreImportant
    <3> QED BY <1>1, <2>1, <3>2, <3>3, Typed DEF AtMost
  <2>2. CASE Up(i) # curr
    BY <1>1, <2>2 DEF Placed
  <2> QED BY <2>1, <2>2
<1>4. \A i \in 1..(tail' - 1) : Placed(i)'
  BY <1>1, <1>3 DEF Placed, AtMost, Up
<1> QED BY <1>2, <1>4, HeapIsPlaced DEF HeapOrder, Placed

LEMMA NextKeepsOrder == HeapOrder /\ [Next]_vars => HeapOrder'
<1> SUFFICES ASSUME HeapOrder, [Next]_vars PROVE HeapOrder'
  OBVIOUS
<1>1. ASSUME NEW x \in Item, Add(x) PROVE HeapOrder'
  BY <1>1, AddKeepsOrder
<1>2. CASE UNCHANGED vars
  BY <1>2 DEF vars, HeapOrder, TypeOK, AtMost
<1> QED BY <1>1, <1>2, BubbleKeepsOrder, BubbledKeepsOrder, PopKeepsOrder,
           SiftKeepsOrder, SiftedKeepsOrder DEF Next

(***************************************************************************)
(* In the heap of priority_q.c no item is above a more important one, but  *)
(* for the one that a call of add or pop still moves.                      *)
(***************************************************************************)
THEOREM HeapStaysOrdered == Spec => []HeapOrder
BY InitOrder, NextKeepsOrder, PTL DEF Spec

-----------------------------------------------------------------------------
(* The bag *)

\* The cells before n of queue q that hold x.
Cells(q, n, x) == {i \in 0..(n - 1) : q[i] = x}

Count == [x \in Item |-> Cardinality(Cells(queue, tail, x))]

LEMMA CellsHold ==
  ASSUME NEW q, NEW n, NEW x, NEW i
  PROVE  i \in Cells(q, n, x) <=> i \in 0..(n - 1) /\ q[i] = x
BY DEF Cells

LEMMA CellsUpTo ==
  ASSUME NEW q, NEW n \in Nat, NEW x, NEW i
  PROVE  i \in Cells(q, n + 1, x) <=> i \in 0..n /\ q[i] = x
<1>1. 0..(n + 1 - 1) = 0..n
  OBVIOUS
<1> QED BY <1>1 DEF Cells

LEMMA CellsFinite ==
  ASSUME NEW q, NEW n \in Nat, NEW x
  PROVE  /\ IsFiniteSet(Cells(q, n, x)) /\ Cardinality(Cells(q, n, x)) \in Nat
         /\ Cardinality(Cells(q, n, x)) > 0 <=> Cells(q, n, x) # {}
<1>1. IsFiniteSet(0..(n - 1))
  BY FS_Interval
<1>2. IsFiniteSet(Cells(q, n, x))
  BY <1>1, FS_Subset DEF Cells
<1> QED BY <1>2, FS_CardinalityType, FS_EmptySet

LEMMA SwapKeepsCount ==
  ASSUME NEW q, NEW r, NEW n \in Nat, NEW x,
         NEW a \in 0..(n - 1), NEW b \in 0..(n - 1), r[a] = q[b], r[b] = q[a],
         \A i \in 0..(n - 1) : i # a /\ i # b => r[i] = q[i]
  PROVE  Cardinality(Cells(r, n, x)) = Cardinality(Cells(q, n, x))
<1> DEFINE S == Cells(q, n, x)
           T == Cells(r, n, x)
           f == [i \in S |-> IF i = a THEN b ELSE IF i = b THEN a ELSE i]
<1>1. f \in [S -> T]
  BY DEF Cells
<1>2. \A i, j \in S : f[i] = f[j] => i = j
  OBVIOUS
<1>3. ASSUME NEW j \in T
      PROVE  \E i \in S : f[i] = j
  <2> DEFINE i == IF j = a THEN b ELSE IF j = b THEN a ELSE j
  <2>1. i \in S
    BY DEF Cells
  <2>2. f[i] = j
    BY <2>1
  <2> QED BY <2>1, <2>2
<1> HIDE DEF f, S, T
<1>4. f \in Injection(S, T)
  BY <1>1, <1>2 DEF Injection, IsInjective
<1>5. f \in Surjection(S, T)
  BY <1>1, <1>3 DEF Surjection
<1>6. ExistsBijection(S, T)
  BY <1>4, <1>5 DEF Bijection, ExistsBijection
<1>7. IsFiniteSet(S)
  BY CellsFinite DEF S
<1> QED BY <1>6, <1>7, FS_Bijection DEF S, T

\* Were some item more important than the root, the first such would be below
\* one that is not.
LEMMA RootIsMost ==
  ASSUME HeapOrder, at = "idle", NEW k \in 0..(tail - 1)
  PROVE  Prio[queue[k]] <= Prio[queue[0]]
<1> DEFINE S == {i \in 0..(tail - 1) : ~ (Prio[queue[i]] <= Prio[queue[0]])}
<1>1. TypeOK /\ \A i \in 1..(tail - 1) : AtMost(i, Up(i))
  BY HeapIsPlaced DEF Placed
<1>2. tail \in Nat /\ \A i \in 0..(tail - 1) : Prio[queue[i]] \in Int
  BY <1>1, Typed
<1> SUFFICES ASSUME S # {} PROVE FALSE
  OBVIOUS
<1>3. PICK n \in S : \A m \in S : ~ (<<m, n>> \in OpToRel(<, Nat))
  <2>1. S \subseteq Nat
    BY <1>2
  <2> HIDE DEF S
  <2> QED BY <2>1, NatLessThanWellFounded, WFMin
<1>4. n \in 0..(tail - 1) /\ ~ (Prio[queue[n]] <= Prio[queue[0]])
  OBVIOUS
<1>5. n # 0
  BY <1>2, <1>4
<1>6. n \in Nat \ {0} /\ n \in 1..(tail - 1)
  BY <1>2, <1>4, <1>5
<1>7. Up(n) \in Nat /\ Up(n) < n /\ Up(n) \in 0..(tail - 1)
  BY <1>2, <1>6, UpBelow
<1>8. Up(n) \notin S
  BY <1>3, <1>6, <1>7 DEF OpToRel
<1>9. Prio[queue[n]] <= Prio[queue[Up(n)]]
  BY <1>1, <1>6 DEF AtMost
<1>10. Prio[queue[Up(n)]] <= Prio[queue[0]]
  BY <1>7, <1>8
<1>11. /\ Prio[queue[n]] \in Int /\ Prio[queue[Up(n)]] \in Int
       /\ Prio[queue[0]] \in Int
  BY <1>2, <1>4, <1>7
<1> QED BY <1>4, <1>9, <1>10, <1>11

LEMMA AddMaps ==
  ASSUME HeapOrder, NEW x \in Item, Add(x)
  PROVE  Bag!Add(x)
<1>1. /\ TypeOK /\ got' = got /\ tail' = tail + 1 /\ tail \in Nat /\ len \in Nat
      /\ tail < len /\ len' = IF IsFull THEN 2 * len ELSE len
      /\ queue' = [i \in 0..(len' - 1) |->
                     IF i = tail THEN x ELSE IF i < len THEN queue[i] ELSE Unset]
  BY Typed DEF HeapOrder, Add
<1>2. len' \in Nat /\ tail < len' /\ len <= len'
  BY <1>1
<1>3. queue'[tail] = x /\ \A i \in 0..(tail - 1) : queue'[i] = queue[i]
  BY <1>1, <1>2
<1>4. ASSUME NEW y \in Item
      PROVE  Count'[y] = IF y = x THEN Count[y] + 1 ELSE Count[y]
  <2> DEFINE C == Cells(queue, tail, y)
             D == Cells(queue', tail + 1, y)
  <2>1. Count[y] = Cardinality(C) /\ Count'[y] = Cardinality(D)
    BY <1>1 DEF Count, Cells
  <2>2. /\ \A i : i \in D <=> i \in 0..tail /\ queue'[i] = y
        /\ \A i : i \in C <=> i \in 0..(tail - 1) /\ queue[i] = y
    BY <1>1, CellsHold, CellsUpTo
  <2>3. IsFiniteSet(C)
    BY <1>1, CellsFinite
  <2> HIDE DEF C, D
  <2>4. /\ \A i : i \in 0..tail <=> (i \in 0..(tail - 1) \/ i = tail)
        /\ tail \notin 0..(tail - 1)
    BY <1>1
  <2>5. CASE y = x
    <3>1. \A i : i \in D <=> i \in C \cup {tail}
      BY <1>3, <2>2, <2>4, <2>5
    <3>2. D = C \cup {tail} /\ tail \notin C
      BY <2>2, <2>4, <3>1
    <3> QED BY <2>1, <2>3, <2>5, <3>2, FS_AddElement
  <2>6. CASE y # x
    <3>1. \A i : i \in D <=> i \in C
      BY <1>3, <2>2, <2>4, <2>6
    <3>2. D = C
      BY <3>1
    <3> QED BY <2>1, <2>6, <3>2
  <2> QED BY <2>5, <2>6
<1>5. Count' = [Count EXCEPT ![x] = @ + 1]
  BY <1>4 DEF Count
<1> QED BY <1>1, <1>5 DEF Bag!Add, Count, Cells

LEMMA PopMaps ==
  ASSUME HeapOrder, Pop
  PROVE  Bag!Pop(queue[0])
<1> DEFINE x == queue[0]
<1>1. /\ TypeOK /\ at = "idle" /\ tail # 0 /\ tail' = tail - 1 /\ got' = x
      /\ queue' = Swapped(0, tail - 1) /\ tail \in Nat /\ tail < len /\ len \in Nat
  BY Typed DEF HeapOrder, Pop
<1>2. 0 \in 0..(tail - 1) /\ tail - 1 \in 0..(tail - 1) /\ tail - 1 \in Nat
  BY <1>1
<1>3. x \in Item
  BY <1>1, <1>2 DEF TypeOK
<1>4. /\ queue'[0] = queue[tail - 1] /\ queue'[tail - 1] = queue[0]
      /\ \A i \in 0..(tail - 1) : i # 0 /\ i # tail - 1 => queue'[i] = queue[i]
  BY <1>1, <1>2 DEF Swapped, TypeOK
<1>5. Count[x] > 0
  <2>1. 0 \in Cells(queue, tail, x)
    BY <1>2 DEF Cells
  <2> QED BY <1>1, <1>3, <2>1, CellsFinite DEF Count
<1>6. ASSUME NEW y \in Item, Count[y] > 0
      PROVE  Prio[y] <= Prio[x]
  <2>1. Cells(queue, tail, y) # {}
    BY <1>1, <1>6, CellsFinite DEF Count
  <2>2. PICK i \in 0..(tail - 1) : queue[i] = y
    BY <2>1 DEF Cells
  <2> QED BY <1>1, <2>2, RootIsMost
<1>7. ASSUME NEW y \in Item
      PROVE  Count'[y] = IF y = x THEN Count[y] - 1 ELSE Count[y]
  <2> DEFINE C == Cells(queue', tail, y)
             D == Cells(queue', tail - 1, y)
  <2>1. Count[y] = Cardinality(C)
    BY <1>1, <1>2, <1>4, SwapKeepsCount DEF Count
  <2>2. Count'[y] = Cardinality(D)
    BY <1>1 DEF Count, Cells
  <2>3. D = C \ {tail - 1}
    BY <1>1, <1>2 DEF Cells
  <2>4. tail - 1 \in C <=> y = x
    BY <1>2, <1>4 DEF Cells
  <2>5. IsFiniteSet(C)
    BY <1>1, CellsFinite
  <2> HIDE DEF C, D
  <2>6. CASE y = x
    BY <2>1, <2>2, <2>3, <2>4, <2>5, <2>6, FS_RemoveElement
  <2>7. CASE y # x
    BY <2>1, <2>2, <2>3, <2>4, <2>7
  <2> QED BY <2>6, <2>7
<1>8. Count' = [Count EXCEPT ![x] = @ - 1]
  BY <1>3, <1>7 DEF Count
<1> QED BY <1>1, <1>5, <1>6, <1>8 DEF Bag!Pop, Count, Cells

LEMMA SwapStutters ==
  ASSUME TypeOK, NEW a \in 0..(tail - 1), NEW b \in 0..(tail - 1),
         queue' = Swapped(a, b), tail' = tail
  PROVE  Count' = Count
<1>1. tail \in Nat /\ tail < len /\ len \in Nat
  BY Typed
<1>2. /\ queue'[a] = queue[b] /\ queue'[b] = queue[a]
      /\ \A i \in 0..(tail - 1) : i # a /\ i # b => queue'[i] = queue[i]
  BY <1>1 DEF Swapped, TypeOK
<1>3. \A y \in Item : Cardinality(Cells(queue', tail, y))
                        = Cardinality(Cells(queue, tail, y))
  BY <1>1, <1>2, SwapKeepsCount
<1> QED BY <1>3 DEF Count, Cells

LEMMA InitMaps == Init => Bag!Init
<1> SUFFICES ASSUME Init PROVE Bag!Init
  OBVIOUS
<1>1. got \notin Item
  BY ItemAssumption DEF Init
<1>2. \A x \in Item : Cardinality(Cells(queue, tail, x)) = 0
  <2>1. \A x : Cells(queue, tail, x) = {}
    BY DEF Init, Cells
  <2> QED BY <2>1, FS_EmptySet
<1>3. Count = [x \in Item |-> 0]
  BY <1>2 DEF Count
<1> QED BY <1>1, <1>3 DEF Bag!Init, Count, Cells

LEMMA NextMaps == HeapOrder /\ [Next]_vars => [Bag!Next]_(Bag!vars)
<1> SUFFICES ASSUME HeapOrder, [Next]_vars PROVE [Bag!Next]_(Bag!vars)
  OBVIOUS
<1>1. TypeOK /\ curr \in Nat /\ tail \in Nat
  BY Typed DEF HeapOrder
<1>2. ASSUME NEW x \in Item, Add(x)
      PROVE  Bag!Next
  BY <1>2, AddMaps DEF Bag!Next
<1>3. ASSUME Pop
      PROVE  Bag!Next
  <2>1. queue[0] \in Item
    BY <1>1 , <1>3 DEF Pop, TypeOK
  <2> QED BY <1>3, <2>1, PopMaps DEF Bag!Next
<1>4. ASSUME Count' = Count, got' = got
      PROVE  UNCHANGED Bag!vars
  BY <1>4 DEF Bag!vars, Count, Cells
<1>5. CASE Bubble
  <2>1. /\ at = "bubble" /\ curr # 0 /\ tail' = tail /\ got' = got
        /\ queue' = Swapped(curr, Parent(curr))
    BY <1>5 DEF Bubble, MustBubble
  <2>2. curr \in 0..(tail - 1) /\ Parent(curr) \in 0..(tail - 1)
    BY <1>1, <2>1, ParentIsUp, UpBelow DEF TypeOK
  <2> QED BY <1>1, <1>4, <2>1, <2>2, SwapStutters
<1>6. CASE Sift
  <2>1. /\ Child(curr) < tail /\ tail' = tail /\ got' = got
        /\ queue' = Swapped(curr, Successor)
    BY <1>6 DEF Sift, MustSift
  <2>2. curr \in 0..(tail - 1) /\ Successor \in 0..(tail - 1)
    BY <1>1, <2>1, SuccessorOfCurr
  <2> QED BY <1>1, <1>4, <2>1, <2>2, SwapStutters
<1>7. CASE Bubbled \/ Sifted \/ UNCHANGED vars
  <2>1. queue' = queue /\ tail' = tail /\ got' = got
    BY <1>7 DEF Bubbled, Sifted, vars
  <2>2. Count' = Count
    BY <2>1 DEF Count, Cells
  <2> QED BY <1>4, <2>1, <2>2
<1> QED BY <1>2, <1>3, <1>5, <1>6, <1>7 DEF Next

(***************************************************************************)
(* Growth, swaps and the loops lose no item and double none, and pop takes *)
(* out and returns one that none is more important than.                   *)
(***************************************************************************)
THEOREM PopsMostImportant == Spec => ImplementsBag
BY HeapStaysOrdered, InitMaps, NextMaps, PTL DEF Spec, ImplementsBag, Bag!Spec

=============================================================================
