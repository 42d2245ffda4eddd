--------------------------- MODULE LibraryProofs ---------------------------
(***************************************************************************)
(* The shape of the memory: which blocks a list, a configuration and each  *)
(* object of the application consist of.  From it, that the operations on  *)
(* nodes and pointers are those on a sequence, and that no block is lost.  *)
(***************************************************************************)
EXTENDS Library, SequenceProofs, FiniteSetTheorems

-----------------------------------------------------------------------------
(* The total of the blocks.                                                *)

\* f adds up the weights of the blocks of m, up to the address last.
Adds(f, m, last) ==
    f = [a \in 0..last |-> IF a = 0 THEN 0 ELSE f[a - 1] + Weight(m, a)]

Balanced(m) ==
    \E last \in Nat : \E f : /\ Adds(f, m, last) /\ \A a \in Live(m) : a <= last
                             /\ m.TotalUsedMemory = f[last]

IsBlock(b) ==
    /\ b = Block(b.size, b.pointer, b.value) /\ b.size \in Nat
    /\ b.pointer = [field \in DOMAIN b.pointer |-> b.pointer[field]]

Blocks(m) ==
    /\ m = [block |-> m.block, TotalUsedMemory |-> m.TotalUsedMemory]
    /\ IsFiniteSet(Live(m)) /\ Live(m) \subseteq Nat \ {0}
    /\ m.block = [a \in Live(m) |-> m.block[a]]
    /\ \A a \in Live(m) : IsBlock(m.block[a])

Heap(m) == Blocks(m) /\ m.TotalUsedMemory \in Nat /\ Balanced(m)

\* A block weighs a natural number, and an address without a block nothing.
LEMMA WeightType ==
  ASSUME NEW m, Blocks(m), NEW a
  PROVE  Weight(m, a) \in Nat
<1>1. CASE a \in Live(m)
  <2>1. m.block[a].size \in Nat
    BY <1>1, Zenon DEF Blocks, IsBlock
  <2>2. QED
    BY <1>1, <2>1 DEF Weight, HeaderSize
<1>2. CASE a \notin Live(m)
  BY <1>2 DEF Weight
<1>3. QED
  BY <1>1, <1>2

\* The running total exists, as a recursive function.
LEMMA AddsExist ==
  ASSUME NEW m, NEW last \in Nat
  PROVE  \E f : Adds(f, m, last)
<1> DEFINE S == {n \in Nat : \E f : Adds(f, m, n)}
<1>1. 0 \in S
  <2> DEFINE f == [a \in 0..0 |-> 0]
  <2>1. f = [a \in 0..0 |-> IF a = 0 THEN 0 ELSE f[a - 1] + Weight(m, a)]
    OBVIOUS
  <2>2. Adds(f, m, 0)
    BY <2>1, Zenon DEF Adds
  <2>3. QED
    BY <2>2
<1>2. ASSUME NEW n \in Nat, n \in S PROVE n + 1 \in S
  <2>1. PICK f : Adds(f, m, n)
    BY <1>2
  <2> DEFINE g == [a \in 0..(n + 1) |-> IF a = n + 1 THEN f[n] + Weight(m, a) ELSE f[a]]
             h == [a \in 0..(n + 1) |-> IF a = 0 THEN 0 ELSE g[a - 1] + Weight(m, a)]
  <2>2. ASSUME NEW a \in 0..(n + 1) PROVE g[a] = h[a]
    <3>1. CASE a = n + 1
      <4>1. a # 0 /\ a - 1 = n /\ a - 1 \in 0..(n + 1) /\ n # n + 1
        BY <3>1
      <4>2. g[a] = f[n] + Weight(m, a) /\ g[a - 1] = f[n]
        BY <3>1, <4>1
      <4>3. QED
        BY <4>1, <4>2
    <3>2. CASE a # n + 1
      <4>1. a \in 0..n /\ g[a] = f[a]
        BY <3>2
      <4>2. f[a] = IF a = 0 THEN 0 ELSE f[a - 1] + Weight(m, a)
        BY <2>1, <4>1 DEF Adds
      <4>3. a # 0 => a - 1 \in 0..(n + 1) /\ a - 1 # n + 1
        BY <4>1
      <4>4. a # 0 => g[a - 1] = f[a - 1]
        BY <4>3
      <4>5. QED
        BY <4>1, <4>2, <4>4
    <3>3. QED
      BY <3>1, <3>2
  <2>3. g = h
    BY <2>2
  <2>4. Adds(g, m, n + 1)
    BY <2>3, Zenon DEF Adds
  <2>5. QED
    BY <2>4
<1> HIDE DEF S
<1>3. last \in S
  BY <1>1, <1>2, NatSetInduction
<1>4. QED
  BY <1>3 DEF S

\* What a change at one address does to the total.
LEMMA AddsChange ==
  ASSUME NEW m, Blocks(m), NEW k, Blocks(k), NEW last \in Nat, NEW f, Adds(f, m, last),
         NEW g, Adds(g, k, last), NEW a \in 1..last,
         \A b \in 1..last : b # a => Weight(k, b) = Weight(m, b)
  PROVE  /\ f[last] \in Nat /\ g[last] \in Nat /\ Weight(m, a) <= f[last]
         /\ g[last] + Weight(m, a) = f[last] + Weight(k, a)
<1> DEFINE S == {n \in Nat : n <= last =>
                   /\ f[n] \in Nat /\ g[n] \in Nat
                   /\ n < a => g[n] = f[n]
                   /\ a <= n => /\ Weight(m, a) <= f[n]
                                /\ g[n] + Weight(m, a) = f[n] + Weight(k, a)}
<1>1. 0 \in S
  <2>1. f[0] = 0 /\ g[0] = 0
    BY DEF Adds
  <2>2. QED
    BY <2>1
<1>2. ASSUME NEW n \in Nat, n \in S PROVE n + 1 \in S
  <2>1. SUFFICES ASSUME n + 1 <= last
        PROVE  /\ f[n + 1] \in Nat /\ g[n + 1] \in Nat
               /\ n + 1 < a => g[n + 1] = f[n + 1]
               /\ a <= n + 1 => /\ Weight(m, a) <= f[n + 1]
                                /\ g[n + 1] + Weight(m, a) = f[n + 1] + Weight(k, a)
    OBVIOUS
  <2>2. n + 1 \in 0..last /\ n + 1 # 0 /\ (n + 1) - 1 = n /\ n + 1 \in 1..last
    BY <2>1
  <2>3. f[n + 1] = f[n] + Weight(m, n + 1) /\ g[n + 1] = g[n] + Weight(k, n + 1)
    BY <2>2 DEF Adds
  <2>4. PICK x \in Nat, y \in Nat, p \in Nat, q \in Nat, v \in Nat, w \in Nat :
          /\ x = f[n] /\ y = g[n] /\ p = Weight(m, n + 1) /\ q = Weight(k, n + 1)
          /\ v = Weight(m, a) /\ w = Weight(k, a)
    <3>1. Weight(m, n + 1) \in Nat /\ Weight(k, n + 1) \in Nat
      BY WeightType
    <3>2. Weight(m, a) \in Nat /\ Weight(k, a) \in Nat
      BY WeightType
    <3>3. f[n] \in Nat /\ g[n] \in Nat
      BY <1>2, <2>1
    <3>4. QED
      BY <3>1, <3>2, <3>3, Zenon
  <2>5. f[n + 1] = x + p /\ g[n + 1] = y + q
    BY <2>3, <2>4
  <2>6. n < a => y = x
    BY <1>2, <2>1, <2>4
  <2>7. a <= n => v <= x /\ y + v = x + w
    BY <1>2, <2>1, <2>4
  <2>8. n + 1 # a => p = q
    BY <2>2, <2>4
  <2>9. n + 1 = a => p = v /\ q = w
    BY <2>4
  <2>10. x + p \in Nat /\ y + q \in Nat /\ (n + 1 < a => y + q = x + p)
    BY <2>6, <2>8
  <2>11. a <= n + 1 => v <= x + p /\ (y + q) + v = (x + p) + w
    <3>1. CASE n + 1 = a
      BY <2>6, <2>9, <3>1
    <3>2. CASE n + 1 # a
      BY <2>7, <2>8, <3>2
    <3>3. QED
      BY <3>1, <3>2
  <2>12. QED
    BY <2>4, <2>5, <2>10, <2>11
<1>3. last \in S
  <2> HIDE DEF S
  <2>1. QED
    BY <1>1, <1>2, NatSetInduction
<1>4. a <= last
  OBVIOUS
<1>5. QED
  BY <1>3, <1>4

\* m and k differ at most in the block at this address.
Elsewhere(m, k, a) ==
    \A c : c # a => /\ c \in Live(k) <=> c \in Live(m)
                    /\ c \in Live(m) => k.block[c] = m.block[c]

\* No address behind the last one adds anything.
LEMMA AddsLonger ==
  ASSUME NEW m, Blocks(m), NEW last \in Nat, NEW f, Adds(f, m, last),
         \A a \in Live(m) : a <= last, NEW n \in Nat, last <= n, NEW g, Adds(g, m, n)
  PROVE  g[n] = f[last]
<1> DEFINE S == {j \in Nat : j <= n => /\ g[j] \in Nat
                                       /\ j <= last => g[j] = f[j]
                                       /\ last <= j => g[j] = f[last]}
<1>1. 0 \in S
  <2>1. f[0] = 0 /\ g[0] = 0
    BY DEF Adds
  <2>2. QED
    BY <2>1
<1>2. ASSUME NEW j \in Nat, j \in S PROVE j + 1 \in S
  <2>1. SUFFICES ASSUME j + 1 <= n
        PROVE  /\ g[j + 1] \in Nat
               /\ j + 1 <= last => g[j + 1] = f[j + 1]
               /\ last <= j + 1 => g[j + 1] = f[last]
    OBVIOUS
  <2>2. j + 1 \in 0..n /\ j + 1 # 0 /\ (j + 1) - 1 = j
    BY <2>1
  <2>3. g[j + 1] = g[j] + Weight(m, j + 1)
    BY <2>2 DEF Adds
  <2>4. g[j] \in Nat /\ Weight(m, j + 1) \in Nat
    BY <1>2, <2>1, WeightType
  <2>5. CASE j + 1 <= last
    <3>1. f[j + 1] = f[j] + Weight(m, j + 1)
      BY <2>2, <2>5 DEF Adds
    <3>2. g[j] = f[j]
      BY <1>2, <2>1, <2>5
    <3>3. g[j + 1] = f[j + 1] /\ (last <= j + 1 => last = j + 1)
      BY <2>3, <2>5, <3>1, <3>2
    <3>4. g[j + 1] \in Nat
      BY <2>3, <2>4
    <3>5. QED
      BY <3>3, <3>4
  <2>6. CASE ~(j + 1 <= last)
    <3>1. Weight(m, j + 1) = 0
      BY <2>6 DEF Weight
    <3>2. g[j] = f[last]
      BY <1>2, <2>1, <2>6
    <3>3. QED
      BY <2>3, <2>4, <2>6, <3>1, <3>2
  <2>7. QED
    BY <2>5, <2>6
<1> HIDE DEF S
<1>3. n \in S
  BY <1>1, <1>2, NatSetInduction
<1>4. QED
  BY <1>3 DEF S

\* When the total follows the weight at the one address that changes, it stays the sum.
LEMMA BalancedChange ==
  ASSUME NEW m, Blocks(m), Balanced(m), NEW k, Blocks(k), NEW a \in Nat \ {0},
         Elsewhere(m, k, a),
         Weight(m, a) <= m.TotalUsedMemory =>
           k.TotalUsedMemory + Weight(m, a) = m.TotalUsedMemory + Weight(k, a),
         k.TotalUsedMemory \in Int
  PROVE  Balanced(k) /\ k.TotalUsedMemory \in Nat /\ Weight(m, a) <= m.TotalUsedMemory
<1> PICK last \in Nat : \E f : /\ Adds(f, m, last) /\ \A b \in Live(m) : b <= last
                               /\ m.TotalUsedMemory = f[last]
  BY DEF Balanced
<1>1. PICK f : /\ Adds(f, m, last) /\ \A b \in Live(m) : b <= last
               /\ m.TotalUsedMemory = f[last]
  OBVIOUS
<1>2. PICK n \in Nat : last <= n /\ a <= n
  <2>1. CASE a <= last
    BY <2>1
  <2>2. CASE ~(a <= last)
    BY <2>2
  <2>3. QED
    BY <2>1, <2>2
<1>3. PICK g : Adds(g, m, n)
  BY AddsExist
<1>4. PICK h : Adds(h, k, n)
  BY AddsExist
<1>5. g[n] = m.TotalUsedMemory
  BY <1>1, <1>2, <1>3, AddsLonger
<1>6. a \in 1..n
  BY <1>2
<1>7. \A b \in 1..n : b # a => Weight(k, b) = Weight(m, b)
  BY DEF Elsewhere, Weight
<1>8. /\ g[n] \in Nat /\ h[n] \in Nat /\ Weight(m, a) <= g[n]
      /\ h[n] + Weight(m, a) = g[n] + Weight(k, a)
  BY <1>3, <1>4, <1>6, <1>7, AddsChange
<1>9. Weight(m, a) \in Nat /\ Weight(k, a) \in Nat
  BY WeightType
<1>10. h[n] = k.TotalUsedMemory
  <2>1. PICK u \in Nat, v \in Nat, w \in Nat, z \in Nat, t \in Int :
          /\ u = Weight(m, a) /\ v = Weight(k, a) /\ w = g[n] /\ z = h[n]
          /\ t = k.TotalUsedMemory
    BY <1>8, <1>9, Zenon
  <2>2. z + u = w + v /\ t + u = w + v
    BY <1>5, <1>8, <2>1
  <2>3. QED
    BY <2>1, <2>2
<1>11. \A b \in Live(k) : b <= n
  <2>1. ASSUME NEW b \in Live(k) PROVE b <= n
    <3>1. CASE b = a
      BY <1>2, <3>1
    <3>2. CASE b # a
      <4>1. b \in Live(m) /\ b \in Nat
        BY <3>2 DEF Blocks, Elsewhere
      <4>2. QED
        BY <1>1, <1>2, <4>1
    <3>3. QED
      BY <3>1, <3>2
  <2>2. QED
    BY <2>1
<1>12. QED
  BY <1>4, <1>5, <1>8, <1>10, <1>11, Zenon DEF Balanced

\* The running totals are those that Accounted computes.
LEMMA HeapAccounted ==
  ASSUME NEW m, Heap(m)
  PROVE  Accounted(m)
<1> DEFINE last == Max(Live(m) \cup {Null})
           total == CHOOSE f : f = [a \in 0..last |->
                                     IF a = 0 THEN 0 ELSE f[a - 1] + Weight(m, a)]
<1>0. PICK n \in Nat : \E g : /\ Adds(g, m, n) /\ \A b \in Live(m) : b <= n
                            /\ m.TotalUsedMemory = g[n]
  BY DEF Heap, Balanced
<1>1. PICK g : /\ Adds(g, m, n) /\ \A b \in Live(m) : b <= n
               /\ m.TotalUsedMemory = g[n]
  BY <1>0, Zenon
<1>2. last \in Live(m) \cup {0} /\ \A b \in Live(m) \cup {0} : b <= last
  <2>1. Live(m) \cup {0} \in SUBSET (0..n) /\ Live(m) \cup {0} # {}
    BY <1>1 DEF Heap, Blocks
  <2>2. QED
    BY <2>1, MaxLemma DEF Null
<1>3. last \in Nat /\ last <= n /\ \A b \in Live(m) : b <= last
  BY <1>1, <1>2 DEF Heap, Blocks
<1> HIDE DEF last
<1>4. Adds(total, m, last)
  <2>1. \E f : f = [a \in 0..last |-> IF a = 0 THEN 0 ELSE f[a - 1] + Weight(m, a)]
    BY <1>3, AddsExist, Zenon DEF Adds
  <2>2. QED
    BY <2>1, Zenon DEF Adds
<1> HIDE DEF total
<1>5. g[n] = total[last]
  BY <1>1, <1>3, <1>4, AddsLonger DEF Heap
<1>6. m.TotalUsedMemory = total[last]
  BY <1>1, <1>5
<1>7. QED
  BY <1>6, Zenon DEF Accounted, last, total

-----------------------------------------------------------------------------
(* What the operations of Memory leave behind.                             *)

\* There is a free address among one more than there are blocks.
LEMMA NewAddressFacts ==
  ASSUME NEW m, Blocks(m)
  PROVE  NewAddress(m) \in Nat \ {0} /\ NewAddress(m) \notin Live(m)
<1>1. PICK n \in Nat : n = Cardinality(Live(m))
  BY FS_CardinalityType DEF Blocks
<1>2. \E a \in 1..(n + 1) : a \notin Live(m)
  <2>1. SUFFICES ASSUME 1..(n + 1) \subseteq Live(m) PROVE FALSE
    OBVIOUS
  <2>2. Cardinality(1..(n + 1)) <= n
    BY <1>1, <2>1, FS_Subset DEF Blocks
  <2>3. Cardinality(1..(n + 1)) = n + 1
    <3>1. 1 \in Int /\ n + 1 \in Int /\ ~(1 > n + 1) /\ (n + 1) - 1 + 1 = n + 1
      OBVIOUS
    <3>2. QED
      BY <3>1, FS_Interval
  <2>4. QED
    BY <2>2, <2>3
<1>3. NewAddress(m) \in 1..(n + 1) /\ NewAddress(m) \notin Live(m)
  BY <1>1, <1>2, Zenon DEF NewAddress
<1>4. QED
  BY <1>3

\* A new block is added and counted.
LEMMA Allocated ==
  ASSUME NEW m, Heap(m), NEW b, IsBlock(b)
  PROVE  LET a == NewAddress(m)
             k == AllocateMemory(m, b)
         IN  /\ a \in Nat \ {0} /\ a \notin Live(m)
             /\ Heap(k) /\ a \in Live(k) /\ k.block[a] = b /\ Elsewhere(m, k, a)
<1>1. PICK a : a = NewAddress(m)
  OBVIOUS
<1>2. a \in Nat \ {0} /\ a \notin Live(m)
  BY <1>1, NewAddressFacts DEF Heap
<1>3. PICK k : k = AllocateMemory(m, b)
  OBVIOUS
<1>4. /\ k.block = [c \in Live(m) \cup {a} |-> IF c = a THEN b ELSE m.block[c]]
      /\ k.TotalUsedMemory = m.TotalUsedMemory + b.size + HeaderSize
      /\ k = [block |-> k.block, TotalUsedMemory |-> k.TotalUsedMemory]
  BY <1>1, <1>3 DEF AllocateMemory
<1>5. Live(k) = Live(m) \cup {a}
  BY <1>4 DEF Live
<1>6. k.block[a] = b /\ Elsewhere(m, k, a)
  BY <1>2, <1>4, <1>5 DEF Elsewhere
<1>7. Blocks(k)
  <2>1. IsFiniteSet(Live(k)) /\ Live(k) \subseteq Nat \ {0}
    BY <1>2, <1>5, FS_AddElement DEF Heap, Blocks
  <2>2. k.block = [c \in Live(k) |-> k.block[c]]
    BY <1>4, <1>5
  <2>3. ASSUME NEW c \in Live(k) PROVE IsBlock(k.block[c])
    <3>1. CASE c = a
      BY <1>6, <3>1, Zenon
    <3>2. CASE c # a
      <4>1. c \in Live(m) /\ k.block[c] = m.block[c]
        BY <1>5, <1>6, <3>2 DEF Elsewhere
      <4>2. QED
        BY <4>1, Zenon DEF Heap, Blocks
    <3>3. QED
      BY <3>1, <3>2
  <2>4. QED
    BY <1>4, <2>1, <2>2, <2>3, Zenon DEF Blocks
<1>8. Heap(k)
  <2>1. b.size \in Nat
    BY DEF IsBlock
  <2>2. Weight(m, a) = 0 /\ Weight(k, a) = b.size + HeaderSize
    BY <1>2, <1>5, <1>6 DEF Weight
  <2>3. m.TotalUsedMemory \in Nat /\ HeaderSize \in Nat
    BY DEF Heap, HeaderSize
  <2>4. /\ k.TotalUsedMemory + Weight(m, a) = m.TotalUsedMemory + Weight(k, a)
        /\ k.TotalUsedMemory \in Int
    BY <1>4, <2>1, <2>2, <2>3
  <2>5. QED
    BY <1>2, <1>6, <1>7, <2>4, BalancedChange DEF Heap
<1>9. QED
  BY <1>1, <1>2, <1>3, <1>5, <1>6, <1>8

\* A block is taken out, and out of the total.
LEMMA Freed ==
  ASSUME NEW m, Heap(m), NEW a \in Live(m)
  PROVE  LET k == FreeMemory(m, a)
         IN  Heap(k) /\ a \notin Live(k) /\ Elsewhere(m, k, a)
<1>1. a \in Nat \ {0} /\ IsBlock(m.block[a])
  BY DEF Heap, Blocks
<1>2. PICK k : k = FreeMemory(m, a)
  OBVIOUS
<1>3. /\ k.block = [c \in Live(m) \ {a} |-> m.block[c]]
      /\ k.TotalUsedMemory = m.TotalUsedMemory - (m.block[a].size + HeaderSize)
      /\ k = [block |-> k.block, TotalUsedMemory |-> k.TotalUsedMemory]
  BY <1>2 DEF FreeMemory
<1>4. Live(k) = Live(m) \ {a}
  BY <1>3 DEF Live
<1>5. Elsewhere(m, k, a)
  BY <1>3, <1>4 DEF Elsewhere
<1>6. Blocks(k)
  <2>1. IsFiniteSet(Live(k)) /\ Live(k) \subseteq Nat \ {0}
    BY <1>4, FS_RemoveElement DEF Heap, Blocks
  <2>2. k.block = [c \in Live(k) |-> k.block[c]]
    BY <1>3, <1>4
  <2>3. ASSUME NEW c \in Live(k) PROVE IsBlock(k.block[c])
    <3>1. c \in Live(m) /\ k.block[c] = m.block[c]
      BY <1>3, <1>4
    <3>2. QED
      BY <3>1, Zenon DEF Heap, Blocks
  <2>4. QED
    BY <1>3, <2>1, <2>2, <2>3, Zenon DEF Blocks
<1>7. Heap(k)
  <2>1. m.block[a].size \in Nat /\ m.TotalUsedMemory \in Nat /\ HeaderSize \in Nat
    BY <1>1 DEF IsBlock, Heap, HeaderSize
  <2>2. Weight(k, a) = 0 /\ Weight(m, a) = m.block[a].size + HeaderSize
    BY <1>4 DEF Weight
  <2>3. /\ k.TotalUsedMemory + Weight(m, a) = m.TotalUsedMemory + Weight(k, a)
        /\ k.TotalUsedMemory \in Int
    BY <1>3, <2>1, <2>2
  <2>4. QED
    BY <1>1, <1>5, <1>6, <2>3, BalancedChange DEF Heap
<1>8. QED
  BY <1>2, <1>4, <1>5, <1>7

\* One block is written, and the total follows its size.
Written(m, k, a, b) ==
    k = [block |-> [m.block EXCEPT ![a] = b],
         TotalUsedMemory |-> m.TotalUsedMemory - (m.block[a].size + HeaderSize)
                               + (b.size + HeaderSize)]

\* A block is written over, and the total follows its size.
LEMMA Rewritten ==
  ASSUME NEW m, Heap(m), NEW a \in Live(m), NEW b, IsBlock(b), NEW k, Written(m, k, a, b)
  PROVE  Heap(k) /\ a \in Live(k) /\ k.block[a] = b /\ Elsewhere(m, k, a)
<1>1. a \in Nat \ {0} /\ IsBlock(m.block[a])
  BY DEF Heap, Blocks
<1>2. /\ k.block = [m.block EXCEPT ![a] = b]
      /\ k.TotalUsedMemory = m.TotalUsedMemory - (m.block[a].size + HeaderSize)
                                    + (b.size + HeaderSize)
      /\ k = [block |-> k.block, TotalUsedMemory |-> k.TotalUsedMemory]
  BY DEF Written
<1>3. m.block = [c \in Live(m) |-> m.block[c]]
  BY DEF Heap, Blocks
<1>4. k.block = [c \in Live(m) |-> IF c = a THEN b ELSE m.block[c]]
  BY <1>2, <1>3
<1>5. Live(k) = Live(m)
  BY <1>4 DEF Live
<1>6. k.block[a] = b /\ Elsewhere(m, k, a)
  BY <1>4, <1>5 DEF Elsewhere
<1>7. Blocks(k)
  <2>1. IsFiniteSet(Live(k)) /\ Live(k) \subseteq Nat \ {0}
    BY <1>5 DEF Heap, Blocks
  <2>2. k.block = [c \in Live(k) |-> k.block[c]]
    BY <1>4, <1>5
  <2>3. ASSUME NEW c \in Live(k) PROVE IsBlock(k.block[c])
    <3>1. CASE c = a
      BY <1>6, <3>1, Zenon
    <3>2. CASE c # a
      <4>1. c \in Live(m) /\ k.block[c] = m.block[c]
        BY <1>4, <1>5, <3>2
      <4>2. QED
        BY <4>1, Zenon DEF Heap, Blocks
    <3>3. QED
      BY <3>1, <3>2
  <2>4. QED
    BY <1>2, <2>1, <2>2, <2>3, Zenon DEF Blocks
<1>8. Heap(k)
  <2>1. /\ m.block[a].size \in Nat /\ b.size \in Nat /\ m.TotalUsedMemory \in Nat
        /\ HeaderSize \in Nat
    BY <1>1 DEF IsBlock, Heap, HeaderSize
  <2>2. Weight(k, a) = b.size + HeaderSize /\ Weight(m, a) = m.block[a].size + HeaderSize
    BY <1>5, <1>6 DEF Weight
  <2>3. /\ k.TotalUsedMemory + Weight(m, a) = m.TotalUsedMemory + Weight(k, a)
        /\ k.TotalUsedMemory \in Int
    <3>1. PICK u \in Nat, v \in Nat, w \in Nat, h \in Nat :
            /\ u = m.block[a].size /\ v = b.size /\ w = m.TotalUsedMemory /\ h = HeaderSize
      BY <2>1, Zenon
    <3>2. k.TotalUsedMemory = w - (u + h) + (v + h)
      BY <1>2, <3>1
    <3>3. Weight(k, a) = v + h /\ Weight(m, a) = u + h
      BY <2>2, <3>1
    <3>4. QED
      BY <3>1, <3>2, <3>3
  <2>4. QED
    BY <1>1, <1>6, <1>7, <2>3, BalancedChange DEF Heap
<1>9. QED
  BY <1>5, <1>6, <1>8

Repointed(b, field, to) == Block(b.size, [b.pointer EXCEPT ![field] = to], b.value)
Revalued(b, v) == Block(b.size, b.pointer, v)

LEMMA RepointedBlock ==
  ASSUME NEW b, IsBlock(b), NEW field \in DOMAIN b.pointer, NEW to
  PROVE  IsBlock(Repointed(b, field, to))
<1>1. PICK p : p = [b.pointer EXCEPT ![field] = to]
  OBVIOUS
<1>2. p = [f \in DOMAIN b.pointer |-> IF f = field THEN to ELSE b.pointer[f]]
  BY <1>1 DEF IsBlock
<1>3. p = [f \in DOMAIN p |-> p[f]]
  BY <1>2
<1>4. PICK c : c = Block(b.size, p, b.value)
  OBVIOUS
<1>5. c.size = b.size /\ c.pointer = p /\ c.value = b.value
  BY <1>4 DEF Block
<1>6. b.size \in Nat
  BY DEF IsBlock
<1>7. IsBlock(c)
  BY <1>3, <1>4, <1>5, <1>6, Zenon DEF IsBlock
<1>8. QED
  BY <1>1, <1>4, <1>7, Zenon DEF Repointed

LEMMA RevaluedBlock ==
  ASSUME NEW b, IsBlock(b), NEW v
  PROVE  IsBlock(Revalued(b, v))
<1>1. PICK c : c = Block(b.size, b.pointer, v)
  OBVIOUS
<1>2. c.size = b.size /\ c.pointer = b.pointer /\ c.value = v
  BY <1>1 DEF Block
<1>3. IsBlock(c)
  BY <1>1, <1>2, Zenon DEF IsBlock
<1>4. QED
  BY <1>1, <1>3, Zenon DEF Revalued

\* A pointer is set: the total stays.
LEMMA PointerSet ==
  ASSUME NEW m, Heap(m), NEW a \in Live(m), NEW field \in DOMAIN m.block[a].pointer, NEW to
  PROVE  LET k == SetPointer(m, a, field, to)
         IN  /\ Heap(k) /\ a \in Live(k) /\ k.block[a] = Repointed(m.block[a], field, to)
             /\ Elsewhere(m, k, a)
<1>1. PICK b : b = m.block[a]
  OBVIOUS
<1>2. IsBlock(b)
  BY <1>1 DEF Heap, Blocks
<1>3. PICK c : c = Repointed(b, field, to)
  OBVIOUS
<1>4. IsBlock(c)
  BY <1>1, <1>2, <1>3, RepointedBlock
<1>5. c.size = b.size
  BY <1>3 DEF Repointed, Block
<1>6. SetPointer(m, a, field, to) = [block |-> [m.block EXCEPT ![a] = c],
                                     TotalUsedMemory |-> m.TotalUsedMemory]
  <2>1. [b EXCEPT !.pointer[field] = to] = c
    <3>1. b = [size |-> b.size, pointer |-> b.pointer, value |-> b.value]
      BY <1>2 DEF IsBlock, Block
    <3>2. QED
      BY <1>3, <3>1 DEF Repointed, Block
  <2>2. m = [block |-> m.block, TotalUsedMemory |-> m.TotalUsedMemory]
    BY DEF Heap, Blocks
  <2>3. QED
    BY <1>1, <2>1, <2>2 DEF SetPointer
<1>7. m.TotalUsedMemory = m.TotalUsedMemory - (m.block[a].size + HeaderSize)
                            + (c.size + HeaderSize)
  BY <1>1, <1>2, <1>5 DEF IsBlock, Heap, HeaderSize
<1>8. PICK k : k = SetPointer(m, a, field, to)
  OBVIOUS
<1>9. Written(m, k, a, c)
  BY <1>6, <1>7, <1>8 DEF Written
<1>10. Heap(k) /\ a \in Live(k) /\ k.block[a] = c /\ Elsewhere(m, k, a)
  BY <1>4, <1>9, Rewritten
<1>11. QED
  BY <1>1, <1>3, <1>8, <1>10

\* The content of a block is set: the total stays.
LEMMA ValueSet ==
  ASSUME NEW m, Heap(m), NEW a \in Live(m), NEW v
  PROVE  LET k == [m EXCEPT !.block[a].value = v]
         IN  /\ Heap(k) /\ a \in Live(k) /\ k.block[a] = Revalued(m.block[a], v)
             /\ Elsewhere(m, k, a)
<1>1. PICK b : b = m.block[a]
  OBVIOUS
<1>2. IsBlock(b)
  BY <1>1 DEF Heap, Blocks
<1>3. PICK c : c = Revalued(b, v)
  OBVIOUS
<1>4. IsBlock(c)
  BY <1>2, <1>3, RevaluedBlock
<1>5. c.size = b.size
  BY <1>3 DEF Revalued, Block
<1>6. PICK k : k = [m EXCEPT !.block[a].value = v]
  OBVIOUS
<1>7. k = [block |-> [m.block EXCEPT ![a] = c], TotalUsedMemory |-> m.TotalUsedMemory]
  <2>1. [b EXCEPT !.value = v] = c
    <3>1. b = [size |-> b.size, pointer |-> b.pointer, value |-> b.value]
      BY <1>2 DEF IsBlock, Block
    <3>2. QED
      BY <1>3, <3>1 DEF Revalued, Block
  <2>2. m = [block |-> m.block, TotalUsedMemory |-> m.TotalUsedMemory]
    BY DEF Heap, Blocks
  <2>3. QED
    BY <1>1, <1>6, <2>1, <2>2
<1>8. m.TotalUsedMemory = m.TotalUsedMemory - (m.block[a].size + HeaderSize)
                            + (c.size + HeaderSize)
  BY <1>1, <1>2, <1>5 DEF IsBlock, Heap, HeaderSize
<1>9. Written(m, k, a, c)
  BY <1>7, <1>8 DEF Written
<1>10. Heap(k) /\ a \in Live(k) /\ k.block[a] = c /\ Elsewhere(m, k, a)
  BY <1>4, <1>9, Rewritten
<1>11. QED
  BY <1>1, <1>3, <1>6, <1>10

-----------------------------------------------------------------------------
(* A part of the memory becomes another, and the rest stays.               *)

\* All but S of m is all but T of k.
Becomes(m, S, k, T) ==
    /\ Heap(m) /\ S \subseteq Live(m)
    /\ Heap(k) /\ T \subseteq Live(k)
    /\ \A c : (c \in Live(m) /\ c \notin S) <=> (c \in Live(k) /\ c \notin T)
    /\ \A c : c \in Live(m) /\ c \notin S => k.block[c] = m.block[c]

\* One change after another, when the second starts from what the first has made.
LEMMA BecomesTrans ==
  ASSUME NEW m, NEW S, NEW k, NEW T, NEW j, NEW U, Becomes(m, S, k, T), Becomes(k, T, j, U)
  PROVE  Becomes(m, S, j, U)
BY DEF Becomes

\* What stays may be counted among what changes.
LEMMA BecomesWider ==
  ASSUME NEW m, NEW S, NEW k, NEW T, Becomes(m, S, k, T), NEW V, V \subseteq Live(m),
         S \subseteq V
  PROVE  Becomes(m, V, k, T \cup (V \ S))
BY DEF Becomes

\* The next step starts from a part of its own.
LEMMA BecomesThen ==
  ASSUME NEW m, NEW S, NEW k, NEW T, Becomes(m, S, k, T),
         NEW V, NEW j, NEW W, Becomes(k, V, j, W)
  PROVE  Becomes(m, S \cup (V \ T), j, W \cup (T \ V))
BY DEF Becomes

\* The next step starts from some of what has changed.
LEMMA BecomesWithin ==
  ASSUME NEW m, NEW S, NEW k, NEW T, Becomes(m, S, k, T),
         NEW V, NEW j, NEW W, Becomes(k, V, j, W), V \subseteq T
  PROVE  Becomes(m, S, j, W \cup (T \ V))
BY DEF Becomes

\* Nothing happens.
LEMMA BecomesSame ==
  ASSUME NEW m, Heap(m), NEW S, S \subseteq Live(m)
  PROVE  Becomes(m, S, m, S)
BY DEF Becomes

\* What is beside the part that changes stays as it is.
LEMMA BecomesKept ==
  ASSUME NEW m, NEW S, NEW k, NEW T, Becomes(m, S, k, T),
         NEW A, A \subseteq Live(m), \A a \in A : a \notin S
  PROVE  /\ A \subseteq Live(k) /\ \A a \in A : a \notin T
         /\ \A a \in A : k.block[a] = m.block[a]
BY DEF Becomes

\* rmqsAllocateMemory: nothing becomes a block.
LEMMA AllocatedBecomes ==
  ASSUME NEW m, Heap(m), NEW b, IsBlock(b), NEW a, a = NewAddress(m),
         NEW k, k = AllocateMemory(m, b)
  PROVE  /\ Becomes(m, {}, k, {a}) /\ k.block[a] = b
         /\ a \in Nat \ {0} /\ a \notin Live(m) /\ a \in Live(k)
<1>1. /\ a \in Nat \ {0} /\ a \notin Live(m)
      /\ Heap(k) /\ a \in Live(k) /\ k.block[a] = b /\ Elsewhere(m, k, a)
  BY Allocated
<1>2. QED
  BY <1>1 DEF Becomes, Elsewhere

\* rmqsFreeMemory: a block becomes nothing.
LEMMA FreedBecomes ==
  ASSUME NEW m, Heap(m), NEW a \in Live(m), NEW k, k = FreeMemory(m, a)
  PROVE  Becomes(m, {a}, k, {})
<1>1. Heap(k) /\ a \notin Live(k) /\ Elsewhere(m, k, a)
  BY Freed
<1>2. QED
  BY <1>1 DEF Becomes, Elsewhere

LEMMA ElsewhereBecomes ==
  ASSUME NEW m, Heap(m), NEW k, Heap(k), NEW a, a \in Live(m), a \in Live(k),
         Elsewhere(m, k, a)
  PROVE  Becomes(m, {a}, k, {a})
BY DEF Becomes, Elsewhere

LEMMA PointerBecomes ==
  ASSUME NEW m, Heap(m), NEW a \in Live(m), NEW field \in DOMAIN m.block[a].pointer, NEW to,
         NEW k, k = SetPointer(m, a, field, to)
  PROVE  /\ Becomes(m, {a}, k, {a})
         /\ k.block[a] = Repointed(m.block[a], field, to)
<1>1. /\ Heap(k) /\ a \in Live(k) /\ k.block[a] = Repointed(m.block[a], field, to)
      /\ Elsewhere(m, k, a)
  BY PointerSet
<1>2. QED
  BY <1>1, ElsewhereBecomes

SetValue(m, a, v) == [m EXCEPT !.block[a].value = v]

LEMMA ValueBecomes ==
  ASSUME NEW m, Heap(m), NEW a \in Live(m), NEW v, NEW k, k = SetValue(m, a, v)
  PROVE  Becomes(m, {a}, k, {a}) /\ k.block[a] = Revalued(m.block[a], v)
<1>1. /\ Heap(k) /\ a \in Live(k) /\ k.block[a] = Revalued(m.block[a], v)
      /\ Elsewhere(m, k, a)
  BY ValueSet DEF SetValue
<1>2. QED
  BY <1>1, ElsewhereBecomes

-----------------------------------------------------------------------------
(* Sequences.                                                              *)

\* A set of natural numbers has a least one, which Min returns.
LEMMA MinLemma ==
  ASSUME NEW s, s \subseteq Nat, s # {}
  PROVE  Min(s) \in s /\ \A y \in s : Min(s) <= y
<1>1. PICK x \in s : \A y \in s : ~(y < x)
  BY LeastExists
<1>2. \A y \in s : x <= y
  BY <1>1
<1>3. QED
  BY <1>2, Zenon DEF Min

\* The elements of a part of a sequence.
LEMMA PartFacts ==
  ASSUME NEW S, NEW s \in Seq(S), NEW a \in Nat \ {0}, NEW b \in Nat, a <= b + 1, b <= Len(s)
  PROVE  /\ SubSeq(s, a, b) \in Seq(S) /\ Len(SubSeq(s, a, b)) = b + 1 - a
         /\ \A j \in 1..(b + 1 - a) : SubSeq(s, a, b)[j] = s[a + j - 1]
<1>1. PICK n \in Nat : n = Len(s) /\ DOMAIN s = 1..n
  OBVIOUS
<1>2. \A j \in 1..(b + 1 - a) : a + j - 1 \in 1..n
  BY <1>1
<1>3. QED
  BY <1>1, <1>2

\* The elements of two sequences in a row.
LEMMA ConcatFacts ==
  ASSUME NEW S, NEW u \in Seq(S), NEW v \in Seq(S)
  PROVE  /\ u \o v \in Seq(S) /\ Len(u \o v) = Len(u) + Len(v)
         /\ \A j \in 1..Len(u) : (u \o v)[j] = u[j]
         /\ \A j \in (Len(u) + 1)..(Len(u) + Len(v)) : (u \o v)[j] = v[j - Len(u)]
OBVIOUS

\* The elements of the front of a sequence.
LEMMA FrontFacts ==
  ASSUME NEW S, NEW s \in Seq(S), NEW b \in Nat, b <= Len(s)
  PROVE  /\ SubSeq(s, 1, b) \in Seq(S) /\ Len(SubSeq(s, 1, b)) = b
         /\ \A j \in 1..b : SubSeq(s, 1, b)[j] = s[j]
<1>1. PICK n \in Nat : n = Len(s) /\ DOMAIN s = 1..n
  OBVIOUS
<1>2. \A j \in 1..b : 1 + j - 1 = j /\ j \in 1..n
  BY <1>1
<1>3. QED
  BY <1>1, <1>2

Inserted(S, s, i, e, t) ==
    /\ t \in Seq(S) /\ Len(t) = Len(s) + 1 /\ t[i + 1] = e
    /\ \A j \in 1..i : t[j] = s[j]
    /\ \A j \in (i + 2)..(Len(s) + 1) : t[j] = s[j - 1]

\* InsertAt moves what is behind by one place.
LEMMA InsertedFacts ==
  ASSUME NEW S, NEW s \in Seq(S), NEW e \in S, NEW i \in 0..Len(s)
  PROVE  Inserted(S, s, i, e, InsertAt(s, i + 1, e))
<1> PICK t : t = InsertAt(s, i + 1, e)
  OBVIOUS
<1> PICK n \in Nat : n = Len(s)
  OBVIOUS
<1>0. PICK p \in Nat, q \in Nat : /\ p = i + 1 /\ q = n - i /\ p + q = n + 1
                                  /\ p - 1 = i /\ i + 1 - 1 = i /\ n + 1 - p = q
                                  /\ i \in Nat /\ p \in Nat \ {0} /\ i <= n /\ p <= n + 1
  <2>1. i \in Nat /\ i <= n
    OBVIOUS
  <2>2. /\ i + 1 \in Nat /\ n - i \in Nat /\ (i + 1) + (n - i) = n + 1
        /\ (i + 1) - 1 = i /\ i + 1 - 1 = i /\ n + 1 - (i + 1) = n - i
        /\ i + 1 \in Nat \ {0} /\ i + 1 <= n + 1
    BY <2>1
  <2>3. QED
    BY <2>1, <2>2, Zenon
<1>1. PICK u \in Seq(S) : u = SubSeq(s, 1, i) /\ Len(u) = i /\ \A j \in 1..i : u[j] = s[j]
  <2>1. i \in Nat /\ i <= Len(s)
    BY <1>0
  <2>2. /\ SubSeq(s, 1, i) \in Seq(S) /\ Len(SubSeq(s, 1, i)) = i
        /\ \A j \in 1..i : SubSeq(s, 1, i)[j] = s[j]
    BY <2>1, FrontFacts
  <2>3. QED
    BY <2>2, Zenon
<1>2. PICK v \in Seq(S) : /\ v = SubSeq(s, p, n) /\ Len(v) = q
                          /\ \A j \in 1..q : v[j] = s[p + j - 1]
  <2>1. /\ SubSeq(s, p, n) \in Seq(S) /\ Len(SubSeq(s, p, n)) = n + 1 - p
        /\ \A j \in 1..(n + 1 - p) : SubSeq(s, p, n)[j] = s[p + j - 1]
    BY <1>0, PartFacts
  <2>2. QED
    BY <1>0, <2>1
<1>3. t = u \o <<e>> \o v
  BY <1>0, <1>1, <1>2 DEF InsertAt
<1>4. PICK x \in Seq(S) : x = <<e>> /\ Len(x) = 1 /\ x[1] = e
  <2>1. <<e>> \in Seq(S) /\ Len(<<e>>) = 1 /\ <<e>>[1] = e
    OBVIOUS
  <2>2. QED
    BY <2>1, Zenon
<1>5. PICK w \in Seq(S) : /\ w = u \o x /\ Len(w) = p /\ w[p] = e
                          /\ \A j \in 1..i : w[j] = s[j]
  <2>1. /\ u \o x \in Seq(S) /\ Len(u \o x) = i + 1
        /\ \A j \in 1..i : (u \o x)[j] = u[j]
        /\ \A j \in (i + 1)..(i + 1) : (u \o x)[j] = x[j - i]
    <3>1. /\ u \o x \in Seq(S) /\ Len(u \o x) = Len(u) + Len(x)
          /\ \A j \in 1..Len(u) : (u \o x)[j] = u[j]
          /\ \A j \in (Len(u) + 1)..(Len(u) + Len(x)) : (u \o x)[j] = x[j - Len(u)]
      BY ConcatFacts, Zenon
    <3>2. Len(u) = i /\ Len(x) = 1
      BY <1>1, <1>4
    <3>3. QED
      BY <3>1, <3>2, Zenon
  <2>2. (u \o x)[p] = x[1]
    BY <1>0, <2>1
  <2>3. QED
    BY <1>0, <1>1, <1>4, <2>1, <2>2
<1>6. t = w \o v
  BY <1>3, <1>4, <1>5
<1>9. /\ t \in Seq(S) /\ Len(t) = p + q
      /\ \A j \in 1..p : t[j] = w[j]
      /\ \A j \in (p + 1)..(p + q) : t[j] = v[j - p]
  <2>1. /\ w \o v \in Seq(S) /\ Len(w \o v) = Len(w) + Len(v)
        /\ \A j \in 1..Len(w) : (w \o v)[j] = w[j]
        /\ \A j \in (Len(w) + 1)..(Len(w) + Len(v)) : (w \o v)[j] = v[j - Len(w)]
    BY ConcatFacts, Zenon
  <2>2. Len(w) = p /\ Len(v) = q
    BY <1>2, <1>5
  <2>3. QED
    BY <1>6, <2>1, <2>2, Zenon
<1>10. t \in Seq(S) /\ Len(t) = n + 1 /\ t[i + 1] = e /\ \A j \in 1..i : t[j] = s[j]
  <2>1. p \in 1..p /\ \A j \in 1..i : j \in 1..p
    BY <1>0
  <2>2. QED
    BY <1>0, <1>5, <1>9, <2>1
<1>11. ASSUME NEW j \in (i + 2)..(n + 1) PROVE t[j] = s[j - 1]
  <2>1. j \in (p + 1)..(p + q) /\ j - p \in 1..q /\ p + (j - p) - 1 = j - 1
    BY <1>0
  <2>2. t[j] = v[j - p] /\ v[j - p] = s[p + (j - p) - 1]
    BY <1>2, <1>9, <2>1
  <2>3. QED
    BY <2>1, <2>2
<1>12. QED
  BY <1>10, <1>11 DEF Inserted

Removed(S, s, i, t) ==
    /\ t \in Seq(S) /\ Len(t) = Len(s) - 1
    /\ \A j \in 1..(i - 1) : t[j] = s[j]
    /\ \A j \in i..(Len(s) - 1) : t[j] = s[j + 1]

\* RemoveAt moves what is behind back by one place.
LEMMA RemovedFacts ==
  ASSUME NEW S, NEW s \in Seq(S), NEW i \in 1..Len(s)
  PROVE  Removed(S, s, i, RemoveAt(s, i))
<1> PICK t : t = RemoveAt(s, i)
  OBVIOUS
<1> PICK n \in Nat : n = Len(s)
  OBVIOUS
<1>0. PICK p \in Nat, q \in Nat, r \in Nat \ {0} :
        /\ p = i - 1 /\ q = n - i /\ r = i + 1 /\ p + q = n - 1
        /\ p <= n /\ r <= n + 1 /\ i \in Nat /\ p + 1 - 1 = p /\ n + 1 - r = q
  <2>1. i \in Nat /\ 1 <= i /\ i <= n
    OBVIOUS
  <2>2. /\ i - 1 \in Nat /\ n - i \in Nat /\ i + 1 \in Nat \ {0}
        /\ (i - 1) + (n - i) = n - 1 /\ i - 1 <= n /\ i + 1 <= n + 1
        /\ (i - 1) + 1 - 1 = i - 1 /\ n + 1 - (i + 1) = n - i
    BY <2>1
  <2>3. QED
    BY <2>1, <2>2, Zenon
<1>1. PICK u \in Seq(S) : u = SubSeq(s, 1, p) /\ Len(u) = p /\ \A j \in 1..p : u[j] = s[j]
  <2>1. p \in Nat /\ p <= Len(s)
    BY <1>0
  <2>2. /\ SubSeq(s, 1, p) \in Seq(S) /\ Len(SubSeq(s, 1, p)) = p
        /\ \A j \in 1..p : SubSeq(s, 1, p)[j] = s[j]
    BY <2>1, FrontFacts
  <2>3. QED
    BY <2>2, Zenon
<1>2. PICK v \in Seq(S) : /\ v = SubSeq(s, r, n) /\ Len(v) = q
                          /\ \A j \in 1..q : v[j] = s[r + j - 1]
  <2>1. /\ SubSeq(s, r, n) \in Seq(S) /\ Len(SubSeq(s, r, n)) = n + 1 - r
        /\ \A j \in 1..(n + 1 - r) : SubSeq(s, r, n)[j] = s[r + j - 1]
    BY <1>0, PartFacts
  <2>2. QED
    BY <1>0, <2>1
<1>3. t = u \o v
  BY <1>0, <1>1, <1>2 DEF RemoveAt
<1>4. /\ t \in Seq(S) /\ Len(t) = p + q
      /\ \A j \in 1..p : t[j] = u[j]
      /\ \A j \in (p + 1)..(p + q) : t[j] = v[j - p]
  <2>1. /\ u \o v \in Seq(S) /\ Len(u \o v) = Len(u) + Len(v)
        /\ \A j \in 1..Len(u) : (u \o v)[j] = u[j]
        /\ \A j \in (Len(u) + 1)..(Len(u) + Len(v)) : (u \o v)[j] = v[j - Len(u)]
    BY ConcatFacts, Zenon
  <2>2. QED
    BY <1>1, <1>2, <1>3, <2>1
<1>5. ASSUME NEW j \in i..(n - 1) PROVE t[j] = s[j + 1]
  <2>1. j \in (p + 1)..(p + q) /\ j - p \in 1..q /\ r + (j - p) - 1 = j + 1
    BY <1>0
  <2>2. t[j] = v[j - p] /\ v[j - p] = s[r + (j - p) - 1]
    BY <1>2, <1>4, <2>1
  <2>3. QED
    BY <2>1, <2>2
<1>6. /\ t \in Seq(S) /\ Len(t) = n - 1
      /\ \A j \in 1..(i - 1) : t[j] = s[j]
  BY <1>0, <1>1, <1>4
<1>7. QED
  BY <1>5, <1>6 DEF Removed

-----------------------------------------------------------------------------
(* Lists.                                                                  *)

Address == Nat \ {0}

HeadBlock(first, count) == Block(1, [First |-> first], count)
NodeBlock(next, data) == Block(1, [Next |-> next, Data |-> data], 0)

LEMMA HeadBlockFacts ==
  ASSUME NEW x, NEW n
  PROVE  /\ IsBlock(HeadBlock(x, n)) /\ HeadBlock(x, n).pointer["First"] = x
         /\ DOMAIN HeadBlock(x, n).pointer = {"First"} /\ HeadBlock(x, n).value = n
         /\ \A y : Repointed(HeadBlock(x, n), "First", y) = HeadBlock(y, n)
         /\ \A k : Revalued(HeadBlock(x, n), k) = HeadBlock(x, k)
<1>1. PICK p : p = [First |-> x]
  OBVIOUS
<1>2. DOMAIN p = {"First"} /\ p["First"] = x /\ p = [f \in DOMAIN p |-> p[f]]
  BY <1>1
<1>3. HeadBlock(x, n) = [size |-> 1, pointer |-> p, value |-> n]
  BY <1>1 DEF HeadBlock, Block
<1>4. \A y : [p EXCEPT !["First"] = y] = [First |-> y]
  BY <1>1
<1>5. QED
  BY <1>2, <1>3, <1>4 DEF IsBlock, HeadBlock, Block, Repointed, Revalued

LEMMA NodeBlockFacts ==
  ASSUME NEW x, NEW d
  PROVE  /\ IsBlock(NodeBlock(x, d)) /\ NodeBlock(x, d).pointer["Next"] = x
         /\ NodeBlock(x, d).pointer["Data"] = d
         /\ DOMAIN NodeBlock(x, d).pointer = {"Next", "Data"}
         /\ \A y : Repointed(NodeBlock(x, d), "Next", y) = NodeBlock(y, d)
<1>1. PICK p : p = [Next |-> x, Data |-> d]
  OBVIOUS
<1>2. /\ DOMAIN p = {"Next", "Data"} /\ p["Next"] = x /\ p["Data"] = d
      /\ p = [f \in DOMAIN p |-> p[f]]
  BY <1>1
<1>3. NodeBlock(x, d) = [size |-> 1, pointer |-> p, value |-> 0]
  BY <1>1 DEF NodeBlock, Block
<1>4. \A y : [p EXCEPT !["Next"] = y] = [Next |-> y, Data |-> d]
  BY <1>1
<1>5. QED
  BY <1>2, <1>3, <1>4 DEF IsBlock, NodeBlock, Block, Repointed

\* Node i, or 0 past the end.
At(ns, i) == IF i \in DOMAIN ns THEN ns[i] ELSE Null

\* The list at l has these nodes with this data, which are all blocks of their own.
Apart(l, ns, ds) ==
    \A i, j \in DOMAIN ns :
      /\ ns[i] # l /\ ds[i] # l /\ ns[i] # ds[j]
      /\ i # j => ns[i] # ns[j] /\ ds[i] # ds[j]

ListAt(m, l, ns, ds) ==
    /\ ns \in Seq(Address) /\ ds \in Seq(Address) /\ Len(ds) = Len(ns)
    /\ l \in Live(m) /\ m.block[l] = HeadBlock(At(ns, 1), Len(ns))
    /\ \A i \in DOMAIN ns :
         /\ ns[i] \in Live(m) /\ m.block[ns[i]] = NodeBlock(At(ns, i + 1), ds[i])
         /\ ds[i] \in Live(m) /\ m.block[ds[i]].pointer = NoPointers
    /\ Apart(l, ns, ds)

Feet(l, ns, ds) == {l} \cup ToSet(ns) \cup ToSet(ds)

\* Following Next from First on, rmqsListSearchByPosition finds the nodes of the shape.
LEMMA NodesOfList ==
  ASSUME NEW m, Heap(m), NEW l, NEW ns, NEW ds, ListAt(m, l, ns, ds)
  PROVE  Nodes(m, l) = ns
<1>1. PICK n \in Nat : n = Len(ns) /\ DOMAIN ns = 1..n /\ ns \in [1..n -> Address]
  BY DEF ListAt
<1>2. PICK N \in Nat : N = Cardinality(Live(m))
  BY FS_CardinalityType DEF Heap, Blocks
<1>3. n <= N
  <2>1. ns \in Injection(1..n, Live(m))
    <3>1. ns \in [1..n -> Live(m)]
      BY <1>1 DEF ListAt
    <3>2. \A i, j \in DOMAIN ns : ns[i] = ns[j] => i = j
      BY DEF ListAt, Apart
    <3>3. QED
      BY <3>1, <3>2 DEF Injection, IsInjective
  <2>2. Cardinality(1..n) <= N
    BY <1>2, <2>1, FS_Injection DEF Heap, Blocks
  <2>3. Cardinality(1..n) = n
    <3>1. CASE n = 0
      BY <3>1, FS_EmptySet
    <3>2. CASE n # 0
      <4>1. 1 \in Int /\ n \in Int /\ ~(1 > n) /\ n - 1 + 1 = n
        BY <3>2
      <4>2. QED
        BY <4>1, FS_Interval
    <3>3. QED
      BY <3>1, <3>2
  <2>4. QED
    BY <2>2, <2>3
<1>4. First(m, l) = At(ns, 1)
  BY HeadBlockFacts DEF ListAt, First, PointerIn
<1>5. \A i \in 1..n : PointerIn(m, ns[i], "Next") = At(ns, i + 1)
  BY <1>1, NodeBlockFacts DEF ListAt, PointerIn
<1> DEFINE D == 1..(Cardinality(Live(m)) + 1)
           node == CHOOSE f : f = [i \in D |->
                     IF i = 1 THEN First(m, l)
                     ELSE IF f[i - 1] = Null THEN Null ELSE PointerIn(m, f[i - 1], "Next")]
           length == CHOOSE k \in 0..Cardinality(Live(m)) :
                       node[k + 1] = Null /\ \A i \in 1..k : node[i] # Null
<1>6. Nodes(m, l) = [i \in 1..length |-> node[i]]
  BY Zenon DEF Nodes
<1> DEFINE w == [i \in D |-> At(ns, i)]
<1>7. w = [i \in D |-> IF i = 1 THEN First(m, l)
                       ELSE IF w[i - 1] = Null THEN Null ELSE PointerIn(m, w[i - 1], "Next")]
  <2>1. ASSUME NEW i \in D, i # 1
        PROVE  At(ns, i) = IF w[i - 1] = Null THEN Null ELSE PointerIn(m, w[i - 1], "Next")
    <3>1. i - 1 \in D /\ (i - 1) + 1 = i /\ i \in Nat
      BY <1>2, <2>1
    <3>2. w[i - 1] = At(ns, i - 1)
      BY <3>1
    <3>3. CASE i - 1 \in 1..n
      <4>1. w[i - 1] = ns[i - 1] /\ ns[i - 1] # Null
        BY <1>1, <3>2, <3>3 DEF At, Address, Null
      <4>2. QED
        BY <1>5, <3>1, <3>3, <4>1
    <3>4. CASE i - 1 \notin 1..n
      <4>1. i \notin 1..n
        BY <1>2, <2>1, <3>4
      <4>2. QED
        BY <1>1, <3>2, <3>4, <4>1 DEF At
    <3>5. QED
      BY <3>3, <3>4
  <2>2. \A i \in D : At(ns, i) = IF i = 1 THEN First(m, l)
                       ELSE IF w[i - 1] = Null THEN Null ELSE PointerIn(m, w[i - 1], "Next")
    BY <1>4, <2>1
  <2> HIDE DEF D
  <2>3. QED
    BY <2>2
<1> HIDE DEF w
<1>8. node = [i \in D |-> IF i = 1 THEN First(m, l)
                 ELSE IF node[i - 1] = Null THEN Null ELSE PointerIn(m, node[i - 1], "Next")]
  BY <1>7, Zenon
<1>9. \A i \in D : node[i] = At(ns, i)
  <2> DEFINE S == {i \in Nat : i + 1 <= N + 1 => node[i + 1] = At(ns, i + 1)}
  <2> HIDE DEF node
  <2>1. 0 \in S
    BY <1>2, <1>4, <1>8
  <2>2. ASSUME NEW i \in Nat, i \in S PROVE i + 1 \in S
    <3>1. SUFFICES ASSUME (i + 1) + 1 <= N + 1 PROVE node[(i + 1) + 1] = At(ns, (i + 1) + 1)
      OBVIOUS
    <3>2. i + 1 \in D /\ (i + 1) + 1 \in D /\ ((i + 1) + 1) - 1 = i + 1 /\ (i + 1) + 1 # 1
      BY <1>2, <3>1
    <3>3. node[(i + 1) + 1] = IF node[i + 1] = Null THEN Null
                              ELSE PointerIn(m, node[i + 1], "Next")
      BY <1>8, <3>2
    <3>4. w[(i + 1) + 1] = IF w[i + 1] = Null THEN Null ELSE PointerIn(m, w[i + 1], "Next")
      BY <1>7, <3>2
    <3>5. w[(i + 1) + 1] = At(ns, (i + 1) + 1) /\ w[i + 1] = At(ns, i + 1)
      BY <3>2 DEF w
    <3>6. node[i + 1] = At(ns, i + 1)
      BY <2>2, <3>1
    <3>7. QED
      BY <3>3, <3>4, <3>5, <3>6
  <2>3. Nat \subseteq S
    <3> HIDE DEF S
    <3>1. QED
      BY <2>1, <2>2, NatSetInduction
  <2>4. ASSUME NEW i \in D PROVE node[i] = At(ns, i)
    <3>1. i - 1 \in Nat /\ (i - 1) + 1 = i /\ i <= N + 1
      BY <1>2
    <3>2. QED
      BY <2>3, <3>1
  <2>5. QED
    BY <2>4
<1> HIDE DEF node
<1>10. length = n
  <2>1. n + 1 \in D /\ n \in 0..Cardinality(Live(m)) /\ n + 1 \notin 1..n
    BY <1>2, <1>3
  <2>2. node[n + 1] = Null /\ \A i \in 1..n : node[i] # Null
    BY <1>1, <1>2, <1>3, <1>9, <2>1 DEF At, Address, Null
  <2>3. length \in 0..N /\ node[length + 1] = Null /\ \A i \in 1..length : node[i] # Null
    BY <1>2, <2>1, <2>2, Zenon
  <2> HIDE DEF length
  <2>4. ~(length < n)
    <3>1. SUFFICES ASSUME length < n PROVE FALSE
      OBVIOUS
    <3>2. length + 1 \in 1..n
      BY <2>3, <3>1
    <3>3. QED
      BY <2>2, <2>3, <3>2
  <2>5. ~(n < length)
    <3>1. SUFFICES ASSUME n < length PROVE FALSE
      OBVIOUS
    <3>2. n + 1 \in 1..length
      BY <2>3, <3>1
    <3>3. QED
      BY <2>2, <2>3, <3>2
  <2>6. QED
    BY <2>3, <2>4, <2>5
<1> HIDE DEF length
<1>11. \A i \in 1..n : node[i] = ns[i]
  BY <1>1, <1>2, <1>3, <1>9 DEF At
<1>12. QED
  BY <1>1, <1>6, <1>10, <1>11

\* Where no block of the list changes, the list stays.
LEMMA ListKept ==
  ASSUME NEW m, NEW S, NEW k, NEW T, Becomes(m, S, k, T),
         NEW l, NEW ns, NEW ds, ListAt(m, l, ns, ds), \A c \in Feet(l, ns, ds) : c \notin S
  PROVE  ListAt(k, l, ns, ds) /\ \A c \in Feet(l, ns, ds) : c \notin T
<1>1. Feet(l, ns, ds) \subseteq Live(m)
  BY DEF Feet, ToSet, ListAt
<1>2. \A c \in Feet(l, ns, ds) : c \in Live(k) /\ c \notin T /\ k.block[c] = m.block[c]
  BY <1>1 DEF Becomes
<1>3. DOMAIN ds = DOMAIN ns
  BY DEF ListAt
<1>4. l \in Feet(l, ns, ds) /\ \A i \in DOMAIN ns : {ns[i], ds[i]} \subseteq Feet(l, ns, ds)
  BY <1>3 DEF Feet, ToSet
<1>5. k.block[l] = m.block[l] /\ l \in Live(k)
  BY <1>2, <1>4
<1>6. \A i \in DOMAIN ns : /\ ns[i] \in Live(k) /\ k.block[ns[i]] = m.block[ns[i]]
                           /\ ds[i] \in Live(k) /\ k.block[ds[i]] = m.block[ds[i]]
  BY <1>2, <1>4
<1>7. QED
  BY <1>2, <1>5, <1>6 DEF ListAt

LEMMA FeetOfList ==
  ASSUME NEW m, NEW l, NEW ns, NEW ds, ListAt(m, l, ns, ds), NEW c
  PROVE  c \in Feet(l, ns, ds) <=> c = l \/ \E x \in DOMAIN ns : c = ns[x] \/ c = ds[x]
<1>1. DOMAIN ds = DOMAIN ns
  BY DEF ListAt
<1>2. QED
  BY <1>1 DEF Feet, ToSet

\* The blocks of a list are in use.
LEMMA ListTypes ==
  ASSUME NEW m, Heap(m), NEW l, NEW ns, NEW ds, ListAt(m, l, ns, ds)
  PROVE  /\ Len(ns) \in Nat /\ DOMAIN ns = 1..Len(ns) /\ DOMAIN ds = 1..Len(ns)
         /\ Len(ds) = Len(ns) /\ Feet(l, ns, ds) \subseteq Live(m)
         /\ l \in Live(m) /\ l \in Address /\ l \in Feet(l, ns, ds)
<1>1. Len(ns) \in Nat /\ DOMAIN ns = 1..Len(ns) /\ DOMAIN ds = 1..Len(ns) /\ Len(ds) = Len(ns)
  BY DEF ListAt
<1>2. \A c : c \in Feet(l, ns, ds) <=> c = l \/ \E x \in DOMAIN ns : c = ns[x] \/ c = ds[x]
  BY FeetOfList
<1>3. l \in Live(m) /\ \A x \in DOMAIN ns : ns[x] \in Live(m) /\ ds[x] \in Live(m)
  BY DEF ListAt
<1>4. l \in Address
  BY <1>3 DEF Heap, Blocks, Address
<1>5. QED
  BY <1>1, <1>2, <1>3, <1>4

\* A node behind another, or in front.
LinkedAt(m, k, l, ns, ds, i, x) ==
    /\ i = 0 => Becomes(m, {l}, k, {l}) /\ k.block[l] = HeadBlock(x, Len(ns))
    /\ i # 0 => /\ Becomes(m, {ns[i]}, k, {ns[i]})
                /\ k.block[ns[i]] = NodeBlock(x, ds[i])

\* The pointer to node i + 1, in the head or in node i, is turned to x.
LEMMA Linked ==
  ASSUME NEW m, Heap(m), NEW l, NEW ns, NEW ds, ListAt(m, l, ns, ds),
         NEW i \in 0..Len(ns), NEW x
  PROVE  LinkedAt(m, Link(m, l, i, x), l, ns, ds, i, x)
<1> PICK k : k = Link(m, l, i, x)
  OBVIOUS
<1>0. PICK n \in Nat : n = Len(ns) /\ i \in 0..n
  BY ListTypes
<1>1. Nodes(m, l) = ns
  BY NodesOfList
<1>2. CASE i = 0
  <2>1. k = SetPointer(m, l, "First", x)
    BY <1>2 DEF Link
  <2>2. l \in Live(m) /\ m.block[l] = HeadBlock(At(ns, 1), n)
    BY <1>0 DEF ListAt
  <2>3. "First" \in DOMAIN m.block[l].pointer
    BY <2>2, HeadBlockFacts
  <2>4. Becomes(m, {l}, k, {l}) /\ k.block[l] = Repointed(m.block[l], "First", x)
    BY <2>1, <2>2, <2>3, PointerBecomes
  <2>5. k.block[l] = HeadBlock(x, n)
    <3>1. Repointed(HeadBlock(At(ns, 1), n), "First", x) = HeadBlock(x, n)
      BY HeadBlockFacts
    <3>2. QED
      BY <2>2, <2>4, <3>1
  <2>6. QED
    BY <1>0, <1>2, <2>4, <2>5 DEF LinkedAt
<1>3. CASE i # 0
  <2>1. k = SetPointer(m, ns[i], "Next", x)
    BY <1>1, <1>3 DEF Link
  <2>2. i \in DOMAIN ns
    BY <1>0, <1>3 DEF ListAt
  <2>3. PICK c : c = ns[i]
    OBVIOUS
  <2>4. c \in Live(m) /\ m.block[c] = NodeBlock(At(ns, i + 1), ds[i]) /\ c # l
    BY <2>2, <2>3 DEF ListAt, Apart
  <2>5. "Next" \in DOMAIN m.block[c].pointer
    BY <2>4, NodeBlockFacts
  <2>6. Becomes(m, {c}, k, {c}) /\ k.block[c] = Repointed(m.block[c], "Next", x)
    <3>1. k = SetPointer(m, c, "Next", x)
      BY <2>1, <2>3
    <3>2. QED
      BY <2>4, <2>5, <3>1, PointerBecomes, Zenon
  <2>7. k.block[c] = NodeBlock(x, ds[i])
    BY <2>4, <2>6, NodeBlockFacts
  <2>8. QED
    BY <1>3, <2>3, <2>6, <2>7 DEF LinkedAt
<1>4. QED
  BY <1>2, <1>3

\* What AddNode changes: the new node, the pointer to it, and Count.
Prev(l, ns, i) == IF i = 0 THEN l ELSE ns[i]

AddedAt(m, k, l, ns, ds, i, a, d) ==
    /\ Heap(k) /\ a \in Address /\ a \notin Live(m)
    /\ \A c : c \in Live(k) <=> c \in Live(m) \/ c = a
    /\ \A c \in Live(m) : c # l /\ c # Prev(l, ns, i) => k.block[c] = m.block[c]
    /\ i # 0 => k.block[ns[i]] = NodeBlock(a, ds[i])
    /\ k.block[a] = NodeBlock(At(ns, i + 1), d)
    /\ k.block[l] = HeadBlock(IF i = 0 THEN a ELSE At(ns, 1), Len(ns) + 1)

\* What rmqsListAdd... does to each block: a new node between nodes i and i + 1.
LEMMA AddNodeChanges ==
  ASSUME NEW m, Heap(m), NEW l, NEW ns, NEW ds, ListAt(m, l, ns, ds),
         NEW i \in 0..Len(ns), NEW d
  PROVE  AddedAt(m, AddNode(m, l, i, d), l, ns, ds, i, NewAddress(m), d)
<1>0. PICK n \in Nat : n = Len(ns) /\ DOMAIN ns = 1..n /\ i \in 0..n
  BY ListTypes
<1>1. Nodes(m, l) = ns
  BY NodesOfList
<1> PICK a : a = NewAddress(m)
  OBVIOUS
<1> PICK b : b = NodeBlock(At(ns, i + 1), d)
  OBVIOUS
<1>2. PICK k1 : k1 = AllocateMemory(m, b)
  OBVIOUS
<1>3. /\ Becomes(m, {}, k1, {a}) /\ k1.block[a] = b /\ a \in Address /\ a \notin Live(m)
      /\ a \in Live(k1)
  <2>1. IsBlock(b)
    BY NodeBlockFacts
  <2>2. QED
    BY <1>2, <2>1, AllocatedBecomes DEF Address
<1>4. ListAt(k1, l, ns, ds) /\ Heap(k1)
  <2>1. \A c \in Feet(l, ns, ds) : c \notin {}
    OBVIOUS
  <2>2. ListAt(k1, l, ns, ds)
    BY <1>3, <2>1, ListKept
  <2>3. QED
    BY <1>3, <2>2 DEF Becomes
<1>5. PICK k2 : k2 = Link(k1, l, i, a)
  OBVIOUS
<1>6. PICK k : k = AddNode(m, l, i, d)
  OBVIOUS
<1>7. k = [k2 EXCEPT !.block[l].value = k2.block[l].value + 1]
  BY <1>1, <1>2, <1>5, <1>6 DEF AddNode, NodeOr0, At, NodeBlock
<1>8. /\ i = 0 => Becomes(k1, {l}, k2, {l}) /\ k2.block[l] = HeadBlock(a, n)
      /\ i # 0 => /\ Becomes(k1, {ns[i]}, k2, {ns[i]})
                  /\ k2.block[ns[i]] = NodeBlock(a, ds[i])
  <2>1. LinkedAt(k1, k2, l, ns, ds, i, a)
    BY <1>4, <1>5, Linked
  <2>2. QED
    BY <1>0, <2>1 DEF LinkedAt
<1>9. PICK prev : prev = Prev(l, ns, i) /\ Becomes(k1, {prev}, k2, {prev})
  BY <1>8 DEF Prev
<1>10. i # 0 => i \in 1..n /\ ns[i] # l /\ ns[i] \in Live(m)
  BY <1>0 DEF ListAt, Apart
<1>11. PICK f : f = IF i = 0 THEN a ELSE At(ns, 1)
  OBVIOUS
<1>12. k2.block[l] = HeadBlock(f, n)
  <2>1. CASE i = 0
    BY <1>8, <1>11, <2>1
  <2>2. CASE i # 0
    <3>1. k2.block[l] = k1.block[l]
      BY <1>4, <1>8, <1>10, <2>2 DEF Becomes, ListAt
    <3>2. QED
      BY <1>0, <1>4, <1>11, <2>2, <3>1 DEF ListAt
  <2>3. QED
    BY <2>1, <2>2
<1>13. Heap(k2) /\ l \in Live(k2) /\ k2.block[l].value = n
  BY <1>4, <1>9, <1>12, HeadBlockFacts DEF Becomes, ListAt
<1>14. PICK n1 : n1 = n + 1
  OBVIOUS
<1>15. Becomes(k2, {l}, k, {l}) /\ k.block[l] = HeadBlock(f, n1)
  <2>1. k = SetValue(k2, l, n1)
    BY <1>7, <1>13, <1>14 DEF SetValue
  <2>2. Becomes(k2, {l}, k, {l}) /\ k.block[l] = Revalued(k2.block[l], n1)
    BY <1>13, <2>1, ValueBecomes
  <2>3. QED
    BY <1>12, <2>2, HeadBlockFacts
<1>16. /\ \A c : c \in Live(k) <=> c \in Live(m) \/ c = a
       /\ \A c \in Live(m) : c # l /\ c # prev => k.block[c] = m.block[c]
       /\ Heap(k)
  BY <1>3, <1>9, <1>15 DEF Becomes
<1>17. i # 0 => k.block[ns[i]] = NodeBlock(a, ds[i])
  BY <1>3, <1>8, <1>9, <1>10, <1>15 DEF Becomes, Prev
<1>18. a # l /\ a # prev
  BY <1>3, <1>9, <1>10 DEF ListAt, Prev
<1>19. k.block[a] = b
  BY <1>3, <1>9, <1>15, <1>18 DEF Becomes
<1>20. AddedAt(m, k, l, ns, ds, i, a, d)
  BY <1>0, <1>3, <1>9, <1>11, <1>14, <1>15, <1>16, <1>17, <1>19 DEF AddedAt
<1>21. QED
  BY <1>6, <1>20

\* After it the list has one more node and item, and is a list.
LEMMA NodeAdded ==
  ASSUME NEW m, Heap(m), NEW l, NEW ns, NEW ds, ListAt(m, l, ns, ds),
         NEW i \in 0..Len(ns), NEW a, NEW d, d \in Live(m), m.block[d].pointer = NoPointers,
         d \notin Feet(l, ns, ds), NEW k, AddedAt(m, k, l, ns, ds, i, a, d),
         NEW ns2, ns2 = InsertAt(ns, i + 1, a), NEW ds2, ds2 = InsertAt(ds, i + 1, d)
  PROVE  /\ ListAt(k, l, ns2, ds2)
         /\ Becomes(m, Feet(l, ns, ds) \cup {d}, k, Feet(l, ns2, ds2))
<1>0. PICK n \in Nat, n1 \in Nat :
        /\ n = Len(ns) /\ n1 = n + 1 /\ DOMAIN ns = 1..n /\ DOMAIN ds = 1..n /\ Len(ds) = n
        /\ i \in 0..n
  BY ListTypes
<1>b. PICK prev : prev = IF i = 0 THEN l ELSE ns[i]
  OBVIOUS
<1>12. /\ \A c : c \in Live(k) <=> c \in Live(m) \/ c = a
       /\ \A c \in Live(m) : c # l /\ c # prev => k.block[c] = m.block[c]
       /\ i # 0 => k.block[ns[i]] = NodeBlock(a, ds[i])
       /\ k.block[a] = NodeBlock(At(ns, i + 1), d)
       /\ Heap(k)
  BY <1>b DEF AddedAt, Prev
<1>3. a \in Address /\ a \notin Live(m)
  BY DEF AddedAt
<1>8. PICK f : f = (IF i = 0 THEN a ELSE At(ns, 1)) /\ k.block[l] = HeadBlock(f, n1)
  BY <1>0 DEF AddedAt
<1>a. d \in Address
  BY DEF Heap, Blocks, Address
<1>13. ns \in Seq(Address) /\ ds \in Seq(Address)
  BY DEF ListAt
<1>14. /\ ns2 \in Seq(Address) /\ Len(ns2) = n1 /\ ns2[i + 1] = a
       /\ \A j \in 1..i : ns2[j] = ns[j]
       /\ \A j \in (i + 2)..n1 : ns2[j] = ns[j - 1]
  <2>1. Inserted(Address, ns, i, a, ns2)
    BY <1>3, <1>13, InsertedFacts
  <2>2. QED
    BY <1>0, <2>1 DEF Inserted
<1>15. /\ ds2 \in Seq(Address) /\ Len(ds2) = n1 /\ ds2[i + 1] = d
       /\ \A j \in 1..i : ds2[j] = ds[j]
       /\ \A j \in (i + 2)..n1 : ds2[j] = ds[j - 1]
  <2>1. i \in 0..Len(ds)
    BY <1>0
  <2>2. Inserted(Address, ds, i, d, ds2)
    BY <1>a, <1>13, <2>1, InsertedFacts
  <2>3. QED
    BY <1>0, <2>2 DEF Inserted
<1>16. DOMAIN ns2 = 1..n1 /\ DOMAIN ds2 = 1..n1 /\ f = At(ns2, 1)
  <2>1. DOMAIN ns2 = 1..n1 /\ DOMAIN ds2 = 1..n1
    BY <1>14, <1>15
  <2>2. CASE i = 0
    BY <1>8, <1>0, <1>14, <2>1, <2>2 DEF At
  <2>3. CASE i # 0
    BY <1>8, <1>0, <1>0, <1>13, <1>14, <2>1, <2>3 DEF At
  <2>4. QED
    BY <2>1, <2>2, <2>3
<1>17. \A x \in 1..n : /\ ns[x] \in Live(m) /\ m.block[ns[x]] = NodeBlock(At(ns, x + 1), ds[x])
                       /\ ds[x] \in Live(m) /\ m.block[ds[x]].pointer = NoPointers
                       /\ ns[x] # l /\ ds[x] # l /\ ns[x] # d /\ ds[x] # d
                       /\ ns[x] # a /\ ds[x] # a
  <2>1. \A x \in 1..n : ns[x] # d /\ ds[x] # d
    <3>1. \A c : c \in Feet(l, ns, ds) <=> c = l \/ \E x \in DOMAIN ns : c = ns[x] \/ c = ds[x]
      BY FeetOfList
    <3>2. QED
      BY <1>0, <3>1
  <2>2. QED
    BY <1>0, <1>3, <2>1 DEF ListAt, Apart
<1>18. \A x, y \in 1..n : ns[x] # ds[y] /\ (x # y => ns[x] # ns[y] /\ ds[x] # ds[y])
  BY <1>0, <1>13 DEF ListAt, Apart
\* Which element each of the new ones was.
<1>19. \A j \in 1..n1 : \/ j \in 1..i /\ j \in 1..n /\ ns2[j] = ns[j] /\ ds2[j] = ds[j]
                        \/ j = i + 1 /\ ns2[j] = a /\ ds2[j] = d
                        \/ /\ j \in (i + 2)..n1 /\ j - 1 \in 1..n
                           /\ ns2[j] = ns[j - 1] /\ ds2[j] = ds[j - 1]
  BY <1>0, <1>14, <1>15
<1>20. d # l /\ a # l /\ a # d /\ l \in Live(m) /\ l \in Feet(l, ns, ds)
  BY <1>3, ListTypes
<1>21. \A x, y \in 1..n1 : /\ ns2[x] # l /\ ds2[x] # l /\ ns2[x] # ds2[y]
                           /\ x # y => ns2[x] # ns2[y] /\ ds2[x] # ds2[y]
  <2>1. ASSUME NEW x \in 1..n1 PROVE ns2[x] # l /\ ds2[x] # l /\ ns2[x] # ds2[x]
    <3>1. \/ \E v \in 1..n : ns2[x] = ns[v] /\ ds2[x] = ds[v]
          \/ ns2[x] = a /\ ds2[x] = d
      BY <1>19
    <3>2. QED
      BY <1>17, <1>18, <1>20, <3>1
  <2>2. ASSUME NEW x \in 1..n1, NEW y \in 1..n1, x # y
        PROVE  ns2[x] # ns2[y] /\ ds2[x] # ds2[y] /\ ns2[x] # ds2[y]
    <3>1. CASE x = i + 1
      <4>1. PICK v \in 1..n : ns2[y] = ns[v] /\ ds2[y] = ds[v]
        BY <1>19, <2>2, <3>1
      <4>2. ns2[x] = a /\ ds2[x] = d
        BY <1>14, <1>15, <3>1
      <4>3. QED
        BY <1>17, <4>1, <4>2
    <3>2. CASE y = i + 1
      <4>1. PICK v \in 1..n : ns2[x] = ns[v] /\ ds2[x] = ds[v]
        BY <1>19, <2>2, <3>2
      <4>2. ns2[y] = a /\ ds2[y] = d
        BY <1>14, <1>15, <3>2
      <4>3. QED
        BY <1>17, <4>1, <4>2
    <3>3. CASE x # i + 1 /\ y # i + 1
      <4>1. PICK u \in 1..n : /\ ns2[x] = ns[u] /\ ds2[x] = ds[u]
                              /\ u = IF x <= i THEN x ELSE x - 1
        BY <1>19, <3>3
      <4>2. PICK v \in 1..n : /\ ns2[y] = ns[v] /\ ds2[y] = ds[v]
                              /\ v = IF y <= i THEN y ELSE y - 1
        BY <1>19, <3>3
      <4>3. u # v
        BY <2>2, <3>3, <4>1, <4>2
      <4>4. QED
        BY <1>18, <4>1, <4>2, <4>3
    <3>4. QED
      BY <3>1, <3>2, <3>3
  <2>3. QED
    BY <2>1, <2>2
<1>22. ASSUME NEW j \in 1..n1
       PROVE  /\ ns2[j] \in Live(k) /\ k.block[ns2[j]] = NodeBlock(At(ns2, j + 1), ds2[j])
              /\ ds2[j] \in Live(k) /\ k.block[ds2[j]].pointer = NoPointers
  <2>1. CASE j \in 1..i
    <3>1. j \in 1..n /\ ns2[j] = ns[j] /\ ds2[j] = ds[j] /\ prev = ns[i] /\ i \in 1..n
      BY <1>0, <1>b, <1>14, <1>15, <2>1
    <3>2. /\ ns2[j] \in Live(k) /\ ds2[j] \in Live(k)
          /\ k.block[ds2[j]].pointer = NoPointers
      BY <1>12, <1>17, <1>18, <3>1
    <3>3. CASE j = i
      <4>1. At(ns2, j + 1) = a
        BY <1>0, <1>14, <1>16, <3>3 DEF At
      <4>2. QED
        BY <1>12, <2>1, <3>1, <3>2, <3>3, <4>1
    <3>4. CASE j # i
      <4>1. j + 1 \in 1..i /\ j + 1 \in 1..n /\ j + 1 \in 1..n1
        BY <1>0, <2>1, <3>4
      <4>2. At(ns2, j + 1) = At(ns, j + 1)
        BY <1>0, <1>13, <1>14, <1>16, <4>1 DEF At
      <4>3. k.block[ns[j]] = m.block[ns[j]]
        BY <1>12, <1>17, <1>18, <3>1, <3>4
      <4>4. QED
        BY <1>17, <3>1, <3>2, <4>2, <4>3
    <3>5. QED
      BY <3>3, <3>4
  <2>2. CASE j = i + 1
    <3>1. ns2[j] = a /\ ds2[j] = d
      BY <1>14, <1>15, <2>2
    <3>2. At(ns2, j + 1) = At(ns, i + 1)
      <4>1. CASE i = n
        BY <1>0, <1>0, <1>13, <1>16, <2>2, <4>1 DEF At
      <4>2. CASE i # n
        <5>1. j + 1 \in (i + 2)..n1 /\ (j + 1) - 1 = i + 1 /\ i + 1 \in 1..n /\ j + 1 \in 1..n1
          BY <1>0, <2>2, <4>2
        <5>2. QED
          BY <1>0, <1>13, <1>14, <1>16, <5>1 DEF At
      <4>3. QED
        BY <4>1, <4>2
    <3>3. d # prev
      BY <1>0, <1>b, <1>17, <1>20
    <3>4. QED
      BY <1>12, <1>20, <3>1, <3>2, <3>3
  <2>3. CASE j \in (i + 2)..n1
    <3>1. PICK x \in 1..n : x = j - 1 /\ ns2[j] = ns[x] /\ ds2[j] = ds[x] /\ x # i
      BY <1>0, <1>14, <1>15, <2>3
    <3>2. At(ns2, j + 1) = At(ns, x + 1)
      <4>1. CASE j = n1
        BY <1>0, <1>0, <1>13, <1>16, <3>1, <4>1 DEF At
      <4>2. CASE j # n1
        <5>1. j + 1 \in (i + 2)..n1 /\ (j + 1) - 1 = x + 1 /\ x + 1 \in 1..n /\ j + 1 \in 1..n1
          BY <1>0, <2>3, <3>1, <4>2
        <5>2. QED
          BY <1>0, <1>13, <1>14, <1>16, <5>1 DEF At
      <4>3. QED
        BY <4>1, <4>2
    <3>3. i # 0 => i \in 1..n
      BY <1>0
    <3>4. ns[x] # prev /\ ds[x] # prev
      BY <1>b, <1>17, <1>18, <3>1, <3>3
    <3>5. QED
      BY <1>12, <1>17, <3>1, <3>2, <3>4
  <2>4. QED
    BY <1>19, <2>1, <2>2, <2>3
<1>23. ListAt(k, l, ns2, ds2)
  <2>1. l \in Live(k) /\ k.block[l] = HeadBlock(At(ns2, 1), n1)
    BY <1>8, <1>12, <1>16, <1>20
  <2>2. Apart(l, ns2, ds2)
    BY <1>16, <1>21 DEF Apart
  <2>3. QED
    BY <1>14, <1>15, <1>16, <1>22, <2>1, <2>2 DEF ListAt
<1>24. \A c : c \in Feet(l, ns2, ds2) <=> c \in Feet(l, ns, ds) \/ c = d \/ c = a
  <2>1. \A c : c \in Feet(l, ns, ds) <=> c = l \/ \E x \in 1..n : c = ns[x] \/ c = ds[x]
    <3>1. \A c : c \in Feet(l, ns, ds) <=> c = l \/ \E x \in DOMAIN ns : c = ns[x] \/ c = ds[x]
      BY FeetOfList
    <3>2. QED
      BY <1>0, <3>1
  <2>2. \A c : c \in Feet(l, ns2, ds2) <=> c = l \/ \E x \in 1..n1 : c = ns2[x] \/ c = ds2[x]
    <3>1. \A c : c \in Feet(l, ns2, ds2) <=> c = l \/ \E x \in DOMAIN ns2 : c = ns2[x] \/ c = ds2[x]
      BY <1>23, FeetOfList
    <3>2. QED
      BY <1>16, <3>1
  <2>3. ASSUME NEW x \in 1..n
        PROVE  \E j \in 1..n1 : ns2[j] = ns[x] /\ ds2[j] = ds[x]
    <3>1. CASE x <= i
      <4>1. x \in 1..i /\ x \in 1..n1
        BY <1>0, <3>1
      <4>2. QED
        BY <1>14, <1>15, <4>1
    <3>2. CASE ~(x <= i)
      <4>1. x + 1 \in (i + 2)..n1 /\ (x + 1) - 1 = x /\ x + 1 \in 1..n1
        BY <1>0, <3>2
      <4>2. QED
        BY <1>14, <1>15, <4>1
    <3>3. QED
      BY <3>1, <3>2
  <2>4. i + 1 \in 1..n1
    BY <1>0
  <2>5. ASSUME NEW x \in 1..n1
        PROVE  \/ \E v \in 1..n : ns2[x] = ns[v] /\ ds2[x] = ds[v]
               \/ ns2[x] = a /\ ds2[x] = d
    BY <1>19
  <2>6. \E x \in 1..n1 : ns2[x] = a /\ ds2[x] = d
    BY <1>14, <1>15, <2>4
  <2>7. ASSUME NEW c, c \in Feet(l, ns2, ds2) PROVE c \in Feet(l, ns, ds) \/ c = d \/ c = a
    BY <2>1, <2>2, <2>5, <2>7
  <2>8. ASSUME NEW c, c \in Feet(l, ns, ds) \/ c = d \/ c = a PROVE c \in Feet(l, ns2, ds2)
    BY <2>1, <2>2, <2>3, <2>6, <2>8
  <2>9. QED
    BY <2>7, <2>8
<1>25. Becomes(m, Feet(l, ns, ds) \cup {d}, k, Feet(l, ns2, ds2))
  <2>1. Feet(l, ns, ds) \subseteq Live(m) /\ Feet(l, ns2, ds2) \subseteq Live(k)
    BY <1>12, <1>23, ListTypes
  <2>2. prev \in Feet(l, ns, ds)
    <3>1. \A c : c \in Feet(l, ns, ds) <=> c = l \/ \E x \in DOMAIN ns : c = ns[x] \/ c = ds[x]
      BY FeetOfList
    <3>2. i # 0 => i \in DOMAIN ns
      BY <1>0
    <3>3. QED
      BY <1>b, <3>1, <3>2
  <2>3. QED
    BY <1>3, <1>12, <1>20, <1>24, <2>1, <2>2 DEF Becomes
<1>26. QED
  BY <1>23, <1>25

\* What RemoveNode changes.
RemovedFrom(m, k, l, ns, ds, i) ==
    /\ Heap(k)
    /\ \A c : c \in Live(k) <=> c \in Live(m) /\ c # ns[i] /\ c # ds[i]
    /\ \A c \in Live(k) : c # l /\ c # Prev(l, ns, i - 1) => k.block[c] = m.block[c]
    /\ i # 1 => k.block[ns[i - 1]] = NodeBlock(At(ns, i + 1), ds[i - 1])
    /\ k.block[l] = HeadBlock(IF i = 1 THEN At(ns, 2) ELSE At(ns, 1), Len(ns) - 1)

\* What rmqsListDelete... does to each block: node i and its data are freed.
LEMMA RemoveNodeChanges ==
  ASSUME NEW m, Heap(m), NEW l, NEW ns, NEW ds, ListAt(m, l, ns, ds), NEW i \in 1..Len(ns)
  PROVE  RemovedFrom(m, RemoveNode(m, l, i), l, ns, ds, i)
<1>0. PICK n \in Nat : /\ n = Len(ns) /\ DOMAIN ns = 1..n /\ i \in 1..n /\ i - 1 \in 0..n
                       /\ i \in DOMAIN ns
  <2>1. Len(ns) \in Nat /\ DOMAIN ns = 1..Len(ns)
    BY ListTypes
  <2>2. i - 1 \in 0..Len(ns) /\ i \in DOMAIN ns
    BY <2>1
  <2>3. QED
    BY <2>1, <2>2, Zenon
<1>1. Nodes(m, l) = ns
  BY NodesOfList
<1> PICK node : node = ns[i]
  OBVIOUS
<1> PICK d : d = ds[i]
  OBVIOUS
<1>j. PICK j : j = i - 1
  OBVIOUS
<1>x. PICK x : x = At(ns, i + 1)
  OBVIOUS
<1>2. /\ node \in Live(m) /\ m.block[node] = NodeBlock(x, d)
      /\ d \in Live(m) /\ node # l /\ d # l /\ node # d /\ l \in Live(m)
  BY <1>0, <1>x DEF ListAt, Apart
<1>3. Data(m, node) = d /\ PointerIn(m, node, "Next") = x
  BY <1>2, NodeBlockFacts DEF Data, PointerIn
<1>k1. PICK k1 : k1 = Link(m, l, j, x)
  OBVIOUS
<1>k2. PICK k2 : k2 = FreeMemory(k1, d)
  OBVIOUS
<1>k3. PICK k3 : k3 = FreeMemory(k2, node)
  OBVIOUS
<1>k. PICK k : k = RemoveNode(m, l, i)
  OBVIOUS
<1>4. k = [k3 EXCEPT !.block[l].value = k3.block[l].value - 1]
  BY <1>1, <1>3, <1>j, <1>x, <1>k1, <1>k2, <1>k3, <1>k DEF RemoveNode
<1>5. /\ j = 0 => Becomes(m, {l}, k1, {l}) /\ k1.block[l] = HeadBlock(x, n)
      /\ j # 0 => /\ Becomes(m, {ns[j]}, k1, {ns[j]})
                  /\ k1.block[ns[j]] = NodeBlock(x, ds[j])
  <2>1. j \in 0..Len(ns)
    BY <1>0, <1>j
  <2>2. LinkedAt(m, k1, l, ns, ds, j, x)
    BY <1>k1, <2>1, Linked
  <2>3. QED
    BY <1>0, <2>2 DEF LinkedAt
<1>6. PICK prev : prev = Prev(l, ns, j) /\ Becomes(m, {prev}, k1, {prev})
  BY <1>5 DEF Prev
<1>7. j # 0 => j \in 1..n /\ ns[j] # l /\ ns[j] \in Live(m) /\ ns[j] # node /\ ns[j] # d
  <2>1. j # 0 => j \in DOMAIN ns /\ j # i
    BY <1>0, <1>j
  <2>2. QED
    BY <1>0, <2>1 DEF ListAt, Apart
<1>8. PICK f : f = IF i = 1 THEN At(ns, 2) ELSE At(ns, 1)
  OBVIOUS
<1>9. k1.block[l] = HeadBlock(f, n)
  <2>1. CASE j = 0
    <3>1. i = 1 /\ i + 1 = 2
      BY <1>0, <1>j, <2>1
    <3>2. QED
      BY <1>5, <1>8, <1>x, <2>1, <3>1
  <2>2. CASE j # 0
    <3>1. k1.block[l] = m.block[l]
      BY <1>2, <1>5, <1>7, <2>2 DEF Becomes
    <3>2. i # 1
      BY <1>0, <1>j, <2>2
    <3>3. QED
      BY <1>0, <1>8, <2>2, <3>1, <3>2 DEF ListAt
  <2>3. QED
    BY <2>1, <2>2
<1>10. Heap(k1) /\ d \in Live(k1)
  BY <1>2, <1>6 DEF Becomes
<1>11. Becomes(k1, {d}, k2, {})
  BY <1>10, <1>k2, FreedBecomes
<1>12. Heap(k2) /\ node \in Live(k2)
  BY <1>2, <1>6, <1>11 DEF Becomes
<1>13. Becomes(k2, {node}, k3, {})
  BY <1>12, <1>k3, FreedBecomes
<1>14. Heap(k3) /\ l \in Live(k3) /\ k3.block[l] = HeadBlock(f, n)
  <2>1. l \in Live(k1)
    BY <1>2, <1>6 DEF Becomes
  <2>2. l \in Live(k2) /\ k2.block[l] = k1.block[l]
    BY <1>2, <1>11, <2>1 DEF Becomes
  <2>3. l \in Live(k3) /\ k3.block[l] = k2.block[l]
    BY <1>2, <1>13, <2>2 DEF Becomes
  <2>4. QED
    BY <1>9, <1>13, <2>2, <2>3 DEF Becomes
<1>n1. PICK n1 : n1 = n - 1
  OBVIOUS
<1>15. Becomes(k3, {l}, k, {l}) /\ k.block[l] = HeadBlock(f, n1)
  <2>1. k = SetValue(k3, l, n1)
    BY <1>4, <1>14, <1>n1, HeadBlockFacts DEF SetValue
  <2>2. Becomes(k3, {l}, k, {l}) /\ k.block[l] = Revalued(k3.block[l], n1)
    BY <1>14, <2>1, ValueBecomes
  <2>3. QED
    BY <1>14, <2>2, HeadBlockFacts
<1>16. /\ \A c : c \in Live(k) <=> c \in Live(m) /\ c # node /\ c # d
       /\ \A c \in Live(k) : c # l /\ c # prev => k.block[c] = m.block[c]
       /\ Heap(k)
  <2>1. \A c : c \in Live(k2) <=> c \in Live(m) /\ c # d
    BY <1>2, <1>6, <1>11 DEF Becomes
  <2>2. \A c : c \in Live(k) <=> c \in Live(m) /\ c # node /\ c # d
    BY <1>2, <1>13, <1>15, <2>1 DEF Becomes
  <2>3. \A c \in Live(k2) : c # prev => k2.block[c] = m.block[c]
    BY <1>2, <1>6, <1>11 DEF Becomes
  <2>4. \A c \in Live(k) : c # l /\ c # prev => k.block[c] = m.block[c]
    BY <1>2, <1>13, <1>15, <2>2, <2>3 DEF Becomes
  <2>5. QED
    BY <1>15, <2>2, <2>4 DEF Becomes
<1>17. j # 0 => k.block[ns[j]] = NodeBlock(x, ds[j])
  <2>1. SUFFICES ASSUME j # 0 PROVE k.block[ns[j]] = NodeBlock(x, ds[j])
    OBVIOUS
  <2>2. PICK c : c = ns[j] /\ c \in Live(m) /\ c # l /\ c # node /\ c # d
    BY <1>7, <2>1
  <2>3. c \in Live(k1) /\ k1.block[c] = NodeBlock(x, ds[j])
    BY <1>5, <2>1, <2>2 DEF Becomes
  <2>4. c \in Live(k2) /\ k2.block[c] = k1.block[c]
    BY <1>11, <2>2, <2>3 DEF Becomes
  <2>5. c \in Live(k3) /\ k3.block[c] = k2.block[c]
    BY <1>13, <2>2, <2>4 DEF Becomes
  <2>6. k.block[c] = k3.block[c]
    BY <1>15, <2>2, <2>5 DEF Becomes
  <2>7. QED
    BY <2>2, <2>3, <2>4, <2>5, <2>6
<1>18. j # 0 <=> i # 1
  BY <1>0, <1>j
<1>19. RemovedFrom(m, k, l, ns, ds, i)
  BY <1>0, <1>6, <1>8, <1>15, <1>16, <1>17, <1>18, <1>j, <1>x, <1>n1 DEF RemovedFrom
<1>20. QED
  BY <1>19, <1>k

\* After it the list has one node and item less, and is a list.
LEMMA NodeRemoved ==
  ASSUME NEW m, Heap(m), NEW l, NEW ns, NEW ds, ListAt(m, l, ns, ds),
         NEW i \in 1..Len(ns), NEW k, RemovedFrom(m, k, l, ns, ds, i),
         NEW ns2, ns2 = RemoveAt(ns, i), NEW ds2, ds2 = RemoveAt(ds, i)
  PROVE  /\ ListAt(k, l, ns2, ds2)
         /\ Becomes(m, Feet(l, ns, ds), k, Feet(l, ns2, ds2))
<1>0. PICK n \in Nat : /\ n = Len(ns) /\ DOMAIN ns = 1..n /\ DOMAIN ds = 1..n /\ Len(ds) = n
                       /\ i \in 1..n
  BY ListTypes
<1>1. PICK n1 \in Nat : n1 = n - 1
  BY <1>0
<1>2. PICK node, d : node = ns[i] /\ d = ds[i]
  OBVIOUS
<1>3. PICK prev : prev = IF i = 1 THEN l ELSE ns[i - 1]
  OBVIOUS
<1>4. /\ \A c : c \in Live(k) <=> c \in Live(m) /\ c # node /\ c # d
      /\ \A c \in Live(k) : c # l /\ c # prev => k.block[c] = m.block[c]
      /\ i # 1 => k.block[ns[i - 1]] = NodeBlock(At(ns, i + 1), ds[i - 1])
      /\ Heap(k)
  <2>1. prev = Prev(l, ns, i - 1)
    BY <1>0, <1>3 DEF Prev
  <2>2. QED
    BY <1>2, <2>1 DEF RemovedFrom
<1>5. PICK f : f = (IF i = 1 THEN At(ns, 2) ELSE At(ns, 1)) /\ k.block[l] = HeadBlock(f, n1)
  BY <1>0, <1>1 DEF RemovedFrom
<1>6. ns \in Seq(Address) /\ ds \in Seq(Address)
  BY DEF ListAt
<1>7. /\ ns2 \in Seq(Address) /\ Len(ns2) = n1
      /\ \A j \in 1..(i - 1) : ns2[j] = ns[j]
      /\ \A j \in i..n1 : ns2[j] = ns[j + 1]
  <2>1. Removed(Address, ns, i, ns2)
    BY <1>6, RemovedFacts
  <2>2. QED
    BY <1>0, <1>1, <2>1 DEF Removed
<1>8. /\ ds2 \in Seq(Address) /\ Len(ds2) = n1
      /\ \A j \in 1..(i - 1) : ds2[j] = ds[j]
      /\ \A j \in i..n1 : ds2[j] = ds[j + 1]
  <2>1. i \in 1..Len(ds)
    BY <1>0
  <2>2. Removed(Address, ds, i, ds2)
    BY <1>6, <2>1, RemovedFacts
  <2>3. QED
    BY <1>0, <1>1, <2>2 DEF Removed
<1>9. DOMAIN ns2 = 1..n1 /\ DOMAIN ds2 = 1..n1
  BY <1>7, <1>8
<1>10. f = At(ns2, 1)
  <2>1. CASE i = 1
    <3>1. CASE n1 = 0
      BY <1>0, <1>1, <1>5, <1>9, <2>1, <3>1 DEF At
    <3>2. CASE n1 # 0
      <4>1. 1 \in i..n1 /\ 1 \in 1..n1 /\ 2 \in 1..n /\ 1 + 1 = 2
        BY <1>0, <1>1, <2>1, <3>2
      <4>2. QED
        BY <1>0, <1>5, <1>7, <1>9, <2>1, <4>1 DEF At
    <3>3. QED
      BY <3>1, <3>2
  <2>2. CASE i # 1
    <3>1. 1 \in 1..(i - 1) /\ 1 \in 1..n1 /\ 1 \in 1..n
      BY <1>0, <1>1, <2>2
    <3>2. QED
      BY <1>0, <1>5, <1>7, <1>9, <2>2, <3>1 DEF At
  <2>3. QED
    BY <2>1, <2>2
<1>11. \A x \in 1..n : /\ ns[x] \in Live(m) /\ m.block[ns[x]] = NodeBlock(At(ns, x + 1), ds[x])
                       /\ ds[x] \in Live(m) /\ m.block[ds[x]].pointer = NoPointers
                       /\ ns[x] # l /\ ds[x] # l
  BY <1>0 DEF ListAt, Apart
<1>12. \A x, y \in 1..n : ns[x] # ds[y] /\ (x # y => ns[x] # ns[y] /\ ds[x] # ds[y])
  BY <1>0 DEF ListAt, Apart
\* Which element each of those that are left was.
<1>13. \A j \in 1..n1 : \E x \in 1..n : /\ ns2[j] = ns[x] /\ ds2[j] = ds[x]
                                        /\ x # i /\ x = IF j < i THEN j ELSE j + 1
  <2>1. ASSUME NEW j \in 1..n1, j < i PROVE j \in 1..(i - 1) /\ j \in 1..n /\ j # i
    BY <1>0, <1>1, <2>1
  <2>2. ASSUME NEW j \in 1..n1, ~(j < i) PROVE j \in i..n1 /\ j + 1 \in 1..n /\ j + 1 # i
    BY <1>0, <1>1, <2>2
  <2>3. QED
    BY <1>7, <1>8, <2>1, <2>2
<1>14. \A x, y \in 1..n1 : /\ ns2[x] # l /\ ds2[x] # l /\ ns2[x] # ds2[y]
                           /\ x # y => ns2[x] # ns2[y] /\ ds2[x] # ds2[y]
  <2>1. ASSUME NEW x \in 1..n1, NEW y \in 1..n1
        PROVE  /\ ns2[x] # l /\ ds2[x] # l /\ ns2[x] # ds2[y]
               /\ x # y => ns2[x] # ns2[y] /\ ds2[x] # ds2[y]
    <3>1. PICK u \in 1..n : /\ ns2[x] = ns[u] /\ ds2[x] = ds[u]
                            /\ u = IF x < i THEN x ELSE x + 1
      BY <1>13
    <3>2. PICK v \in 1..n : /\ ns2[y] = ns[v] /\ ds2[y] = ds[v]
                            /\ v = IF y < i THEN y ELSE y + 1
      BY <1>13
    <3>3. x # y => u # v
      BY <1>0, <3>1, <3>2
    <3>4. QED
      BY <1>11, <1>12, <3>1, <3>2, <3>3
  <2>2. QED
    BY <2>1
<1>15. ASSUME NEW j \in 1..n1
       PROVE  /\ ns2[j] \in Live(k) /\ k.block[ns2[j]] = NodeBlock(At(ns2, j + 1), ds2[j])
              /\ ds2[j] \in Live(k) /\ k.block[ds2[j]].pointer = NoPointers
  <2>1. PICK x \in 1..n : /\ ns2[j] = ns[x] /\ ds2[j] = ds[x]
                          /\ x # i /\ x = IF j < i THEN j ELSE j + 1
    BY <1>13
  <2>2. ns[x] \in Live(k) /\ ds[x] \in Live(k)
    BY <1>0, <1>2, <1>4, <1>11, <1>12, <2>1
  <2>3. i # 1 => i - 1 \in 1..n
    BY <1>0
  <2>4. ds[x] # prev /\ (x # i - 1 => ns[x] # prev)
    BY <1>3, <1>11, <1>12, <2>3
  <2>5. k.block[ds[x]].pointer = NoPointers
    BY <1>4, <1>11, <2>2, <2>4
  <2>6. CASE x = i - 1
    <3>1. j = i - 1 /\ i # 1 /\ j + 1 = i
      BY <1>0, <2>1, <2>6
    <3>2. k.block[ns[x]] = NodeBlock(At(ns, i + 1), ds[x])
      BY <1>4, <2>6, <3>1
    <3>3. At(ns2, j + 1) = At(ns, i + 1)
      <4>1. CASE i = n
        BY <1>0, <1>1, <1>9, <3>1, <4>1 DEF At
      <4>2. CASE i # n
        <5>1. i \in i..n1 /\ i + 1 \in 1..n /\ i \in 1..n1
          BY <1>0, <1>1, <4>2
        <5>2. QED
          BY <1>0, <1>7, <1>9, <3>1, <5>1 DEF At
      <4>3. QED
        BY <4>1, <4>2
    <3>4. QED
      BY <2>1, <2>2, <2>5, <3>2, <3>3
  <2>7. CASE x # i - 1
    <3>1. k.block[ns[x]] = NodeBlock(At(ns, x + 1), ds[x])
      BY <1>4, <1>11, <2>2, <2>4, <2>7
    <3>2. At(ns2, j + 1) = At(ns, x + 1)
      <4>1. CASE j < i
        <5>1. j + 1 \in 1..(i - 1) /\ x = j /\ j + 1 \in 1..n1 /\ j + 1 \in 1..n
          BY <1>0, <1>1, <2>1, <2>7, <4>1
        <5>2. QED
          BY <1>0, <1>7, <1>9, <5>1 DEF At
      <4>2. CASE ~(j < i) /\ j = n1
        <5>1. j + 1 \notin 1..n1 /\ x + 1 \notin 1..n
          BY <1>0, <1>1, <2>1, <4>2
        <5>2. QED
          BY <1>0, <1>9, <5>1 DEF At
      <4>3. CASE ~(j < i) /\ j # n1
        <5>1. /\ j + 1 \in i..n1 /\ x + 1 = (j + 1) + 1 /\ j + 1 \in 1..n1
              /\ (j + 1) + 1 \in 1..n
          BY <1>0, <1>1, <2>1, <4>3
        <5>2. QED
          BY <1>0, <1>7, <1>9, <5>1 DEF At
      <4>4. QED
        BY <4>1, <4>2, <4>3
    <3>3. QED
      BY <2>1, <2>2, <2>5, <3>1, <3>2
  <2>8. QED
    BY <2>6, <2>7
<1>16. l \in Live(k)
  BY <1>0, <1>2, <1>4, <1>11 DEF ListAt
<1>17. ListAt(k, l, ns2, ds2)
  <2>1. k.block[l] = HeadBlock(At(ns2, 1), n1)
    BY <1>5, <1>10
  <2>2. Apart(l, ns2, ds2)
    BY <1>9, <1>14 DEF Apart
  <2>3. QED
    BY <1>7, <1>8, <1>9, <1>15, <1>16, <2>1, <2>2 DEF ListAt
<1>18. \A c : c \in Feet(l, ns2, ds2) <=> c \in Feet(l, ns, ds) /\ c # node /\ c # d
  <2>1. \A c : c \in Feet(l, ns, ds) <=> c = l \/ \E x \in 1..n : c = ns[x] \/ c = ds[x]
    <3>1. \A c : c \in Feet(l, ns, ds) <=> c = l \/ \E x \in DOMAIN ns : c = ns[x] \/ c = ds[x]
      BY FeetOfList
    <3>2. QED
      BY <1>0, <3>1
  <2>2. \A c : c \in Feet(l, ns2, ds2) <=> c = l \/ \E x \in 1..n1 : c = ns2[x] \/ c = ds2[x]
    <3>1. \A c : c \in Feet(l, ns2, ds2) <=> c = l \/ \E x \in DOMAIN ns2 : c = ns2[x] \/ c = ds2[x]
      BY <1>17, FeetOfList
    <3>2. QED
      BY <1>9, <3>1
  <2>3. ASSUME NEW x \in 1..n, x # i
        PROVE  \E j \in 1..n1 : ns2[j] = ns[x] /\ ds2[j] = ds[x]
    <3>1. CASE x < i
      <4>1. x \in 1..(i - 1) /\ x \in 1..n1
        BY <1>0, <1>1, <3>1
      <4>2. QED
        BY <1>7, <1>8, <4>1
    <3>2. CASE ~(x < i)
      <4>1. x - 1 \in i..n1 /\ (x - 1) + 1 = x /\ x - 1 \in 1..n1
        BY <1>0, <1>1, <2>3, <3>2
      <4>2. QED
        BY <1>7, <1>8, <4>1
    <3>3. QED
      BY <3>1, <3>2
  <2>4. ASSUME NEW c, c \in Feet(l, ns2, ds2)
        PROVE  c \in Feet(l, ns, ds) /\ c # node /\ c # d
    <3>1. CASE c = l
      BY <1>0, <1>2, <1>11, <2>1, <3>1
    <3>2. CASE c # l
      <4>1. PICK j \in 1..n1 : c = ns2[j] \/ c = ds2[j]
        BY <2>2, <2>4, <3>2
      <4>2. PICK x \in 1..n : ns2[j] = ns[x] /\ ds2[j] = ds[x] /\ x # i
        BY <1>13
      <4>3. QED
        BY <1>0, <1>2, <1>12, <2>1, <4>1, <4>2
    <3>3. QED
      BY <3>1, <3>2
  <2>5. ASSUME NEW c, c \in Feet(l, ns, ds), c # node, c # d
        PROVE  c \in Feet(l, ns2, ds2)
    <3>1. CASE c = l
      BY <2>2, <3>1
    <3>2. CASE c # l
      <4>1. PICK x \in 1..n : c = ns[x] \/ c = ds[x]
        BY <2>1, <2>5, <3>2
      <4>2. x # i
        BY <1>2, <2>5, <4>1
      <4>3. QED
        BY <2>2, <2>3, <4>1, <4>2
    <3>3. QED
      BY <3>1, <3>2
  <2>6. QED
    BY <2>4, <2>5
<1>19. Becomes(m, Feet(l, ns, ds), k, Feet(l, ns2, ds2))
  <2>1. /\ Feet(l, ns, ds) \subseteq Live(m) /\ Feet(l, ns2, ds2) \subseteq Live(k)
        /\ l \in Feet(l, ns, ds)
    BY <1>4, <1>17, ListTypes
  <2>2. {prev, node, d} \subseteq Feet(l, ns, ds)
    <3>1. \A c : c \in Feet(l, ns, ds) <=> c = l \/ \E x \in DOMAIN ns : c = ns[x] \/ c = ds[x]
      BY FeetOfList
    <3>2. (i # 1 => i - 1 \in DOMAIN ns) /\ i \in DOMAIN ns
      BY <1>0
    <3>3. QED
      BY <1>2, <1>3, <3>1, <3>2
  <2>3. QED
    BY <1>4, <1>18, <2>1, <2>2 DEF Becomes
<1>20. QED
  BY <1>17, <1>19

\* What a list is to its users.
LEMMA ListItems ==
  ASSUME NEW m, Heap(m), NEW l, NEW ns, NEW ds, ListAt(m, l, ns, ds)
  PROVE  Items(m, l) = ds /\ Count(m, l) = Len(ds)
<1>1. Nodes(m, l) = ns
  BY NodesOfList
<1>2. \A i \in DOMAIN ns : Data(m, ns[i]) = ds[i]
  BY NodeBlockFacts DEF ListAt, Data, PointerIn
<1>3. ds = [i \in DOMAIN ns |-> ds[i]]
  BY DEF ListAt
<1>4. Items(m, l) = ds
  BY <1>1, <1>2, <1>3 DEF Items
<1>5. Count(m, l) = Len(ds)
  BY HeadBlockFacts DEF ListAt, Count
<1>6. QED
  BY <1>4, <1>5

\* An item is added, and no other block than the list and the item changes.
LEMMA AddedItem ==
  ASSUME NEW m, Heap(m), NEW l, NEW ns, NEW ds, ListAt(m, l, ns, ds),
         NEW i \in 0..Len(ds), NEW d, d \in Live(m), m.block[d].pointer = NoPointers,
         d \notin Feet(l, ns, ds), NEW k, k = AddNode(m, l, i, d)
  PROVE  \E ns2 : LET ds2 == InsertAt(ds, i + 1, d)
                  IN  /\ ListAt(k, l, ns2, ds2)
                      /\ Becomes(m, Feet(l, ns, ds) \cup {d}, k, Feet(l, ns2, ds2))
<1>1. i \in 0..Len(ns)
  BY ListTypes
<1>2. AddedAt(m, k, l, ns, ds, i, NewAddress(m), d)
  BY <1>1, AddNodeChanges
<1>3. PICK ns2, ds2 : ns2 = InsertAt(ns, i + 1, NewAddress(m)) /\ ds2 = InsertAt(ds, i + 1, d)
  OBVIOUS
<1>4. /\ ListAt(k, l, ns2, ds2)
      /\ Becomes(m, Feet(l, ns, ds) \cup {d}, k, Feet(l, ns2, ds2))
  BY <1>1, <1>2, <1>3, NodeAdded
<1>5. QED
  BY <1>3, <1>4

\* An item is taken out with its data.
LEMMA RemovedItem ==
  ASSUME NEW m, Heap(m), NEW l, NEW ns, NEW ds, ListAt(m, l, ns, ds),
         NEW i \in 1..Len(ds), NEW k, k = RemoveNode(m, l, i)
  PROVE  \E ns2 : LET ds2 == RemoveAt(ds, i)
                  IN  /\ ListAt(k, l, ns2, ds2)
                      /\ Becomes(m, Feet(l, ns, ds), k, Feet(l, ns2, ds2))
<1>1. i \in 1..Len(ns)
  BY ListTypes
<1>2. RemovedFrom(m, k, l, ns, ds, i)
  BY <1>1, RemoveNodeChanges
<1>3. PICK ns2, ds2 : ns2 = RemoveAt(ns, i) /\ ds2 = RemoveAt(ds, i)
  OBVIOUS
<1>4. /\ ListAt(k, l, ns2, ds2)
      /\ Becomes(m, Feet(l, ns, ds), k, Feet(l, ns2, ds2))
  BY <1>1, <1>2, <1>3, NodeRemoved
<1>5. QED
  BY <1>3, <1>4

\* The memory after each step of ListDestroy.
Emptied(f, m, l, c) ==
    f = [n \in 0..c |-> IF n = 0 THEN m ELSE ListDeleteBegin(f[n - 1], l)]

\* The loop of rmqsListDestroy, turn by turn.
LEMMA EmptiedExists ==
  ASSUME NEW m, NEW l, NEW last \in Nat
  PROVE  \E f : Emptied(f, m, l, last)
<1> DEFINE S == {c \in Nat : \E f : Emptied(f, m, l, c)}
<1>1. 0 \in S
  <2> DEFINE f == [n \in 0..0 |-> m]
  <2>1. f = [n \in 0..0 |-> IF n = 0 THEN m ELSE ListDeleteBegin(f[n - 1], l)]
    OBVIOUS
  <2>2. Emptied(f, m, l, 0)
    BY <2>1, Zenon DEF Emptied
  <2>3. QED
    BY <2>2
<1>2. ASSUME NEW c \in Nat, c \in S PROVE c + 1 \in S
  <2>1. PICK f : Emptied(f, m, l, c)
    BY <1>2
  <2> DEFINE g == [n \in 0..(c + 1) |-> IF n = c + 1 THEN ListDeleteBegin(f[c], l) ELSE f[n]]
             h == [n \in 0..(c + 1) |-> IF n = 0 THEN m ELSE ListDeleteBegin(g[n - 1], l)]
  <2>2. ASSUME NEW n \in 0..(c + 1) PROVE g[n] = h[n]
    <3>1. CASE n = c + 1
      <4>1. n # 0 /\ n - 1 = c /\ n - 1 \in 0..(c + 1) /\ c # c + 1
        BY <3>1
      <4>2. g[n] = ListDeleteBegin(f[c], l) /\ g[n - 1] = f[c]
        BY <3>1, <4>1
      <4>3. h[n] = ListDeleteBegin(g[n - 1], l)
        BY <4>1
      <4>4. QED
        BY <4>2, <4>3
    <3>2. CASE n # c + 1
      <4>1. n \in 0..c /\ g[n] = f[n]
        BY <3>2
      <4>2. f[n] = IF n = 0 THEN m ELSE ListDeleteBegin(f[n - 1], l)
        BY <2>1, <4>1 DEF Emptied
      <4>3. n # 0 => n - 1 \in 0..(c + 1) /\ n - 1 # c + 1
        BY <4>1
      <4>4. n # 0 => g[n - 1] = f[n - 1]
        BY <4>3
      <4>5. QED
        BY <4>1, <4>2, <4>4
    <3>3. QED
      BY <3>1, <3>2
  <2>3. g = h
    BY <2>2
  <2>4. Emptied(g, m, l, c + 1)
    BY <2>3, Zenon DEF Emptied
  <2>5. QED
    BY <2>4
<1> HIDE DEF S
<1>3. last \in S
  BY <1>1, <1>2, NatSetInduction
<1>4. QED
  BY <1>3 DEF S

\* rmqsListDestroy frees the head, every node and every item, and nothing else.
LEMMA ListDestroyed ==
  ASSUME NEW m, Heap(m), NEW l, NEW ns, NEW ds, ListAt(m, l, ns, ds),
         NEW k, k = ListDestroy(m, l)
  PROVE  Becomes(m, Feet(l, ns, ds), k, {})
<1>1. PICK c \in Nat : c = Len(ds) /\ c = Count(m, l)
  BY ListItems, ListTypes
<1> DEFINE left == CHOOSE f : f = [n \in 0..Count(m, l) |->
                     IF n = 0 THEN m ELSE ListDeleteBegin(f[n - 1], l)]
<1>2. k = FreeMemory(left[c], l)
  BY <1>1, Zenon DEF ListDestroy
<1>3. Emptied(left, m, l, c)
  <2>1. \E f : f = [n \in 0..Count(m, l) |->
                     IF n = 0 THEN m ELSE ListDeleteBegin(f[n - 1], l)]
    <3>1. \E f : Emptied(f, m, l, c)
      BY EmptiedExists
    <3>2. QED
      BY <1>1, <3>1, Zenon DEF Emptied
  <2>2. QED
    BY <1>1, <2>1, Zenon DEF Emptied
<1> HIDE DEF left
<1> DEFINE Rest(n) == \E ns2, ds2 : /\ ListAt(left[n], l, ns2, ds2) /\ Len(ds2) = c - n
                                    /\ Becomes(m, Feet(l, ns, ds), left[n], Feet(l, ns2, ds2))
           S == {n \in Nat : n <= c => Rest(n)}
<1>4. 0 \in S
  <2>1. left[0] = m /\ c - 0 = c
    BY <1>3 DEF Emptied
  <2>2. Becomes(m, Feet(l, ns, ds), m, Feet(l, ns, ds))
    BY ListTypes, BecomesSame
  <2>3. Rest(0)
    BY <1>1, <2>1, <2>2
  <2>4. QED
    BY <2>3
<1>5. ASSUME NEW n \in Nat, n \in S PROVE n + 1 \in S
  <2>1. SUFFICES ASSUME n + 1 <= c PROVE Rest(n + 1)
    OBVIOUS
  <2>2. PICK j : j = left[n]
    OBVIOUS
  <2>3. PICK ns1, ds1 : /\ ListAt(j, l, ns1, ds1) /\ Len(ds1) = c - n
                        /\ Becomes(m, Feet(l, ns, ds), j, Feet(l, ns1, ds1))
    BY <1>5, <2>1, <2>2
  <2>4. Heap(j)
    BY <2>3 DEF Becomes
  <2>5. left[n + 1] = ListDeleteBegin(j, l)
    <3>1. n + 1 \in 0..c /\ n + 1 # 0 /\ (n + 1) - 1 = n
      BY <2>1
    <3>2. QED
      BY <1>3, <2>2, <3>1 DEF Emptied
  <2>6. ListDeleteBegin(j, l) = RemoveNode(j, l, 1)
    <3>1. Nodes(j, l) = ns1 /\ Len(ns1) = Len(ds1)
      BY <2>3, <2>4, NodesOfList, ListTypes
    <3>2. 0 < Len(ns1) /\ 0 + 1 = 1
      BY <2>1, <2>3, <3>1
    <3>3. QED
      BY <3>1, <3>2 DEF ListDeleteBegin, ListDeletePosition
  <2>7. 1 \in 1..Len(ds1)
    BY <2>1, <2>3
  <2>8. PICK ns2, ds2, k1 :
          /\ k1 = RemoveNode(j, l, 1) /\ ds2 = RemoveAt(ds1, 1) /\ ListAt(k1, l, ns2, ds2)
          /\ Becomes(j, Feet(l, ns1, ds1), k1, Feet(l, ns2, ds2))
    BY <2>3, <2>4, <2>7, RemovedItem
  <2>9. Becomes(m, Feet(l, ns, ds), k1, Feet(l, ns2, ds2))
    BY <2>3, <2>8, BecomesTrans
  <2>10. Len(ds2) = c - (n + 1)
    <3>1. Removed(Address, ds1, 1, ds2)
      BY <2>3, <2>7, <2>8, RemovedFacts DEF ListAt
    <3>2. QED
      BY <2>1, <2>3, <3>1 DEF Removed
  <2>11. QED
    BY <2>5, <2>6, <2>8, <2>9, <2>10
<1>6. Rest(c)
  <2> HIDE DEF Rest
  <2>1. c \in S
    <3> HIDE DEF S
    <3>1. QED
      BY <1>4, <1>5, NatSetInduction
  <2>2. QED
    BY <2>1
<1>7. PICK j : j = left[c]
  OBVIOUS
<1>8. PICK ns2, ds2 : /\ ListAt(j, l, ns2, ds2) /\ Len(ds2) = 0
                      /\ Becomes(m, Feet(l, ns, ds), j, Feet(l, ns2, ds2))
  <2>1. c - c = 0
    OBVIOUS
  <2>2. QED
    BY <1>6, <1>7, <2>1
<1>9. Feet(l, ns2, ds2) = {l}
  <2>1. Heap(j)
    BY <1>8 DEF Becomes
  <2>2. DOMAIN ns2 = {}
    BY <1>8, <2>1, ListTypes
  <2>3. \A a : a \in Feet(l, ns2, ds2) <=> a = l \/ \E x \in DOMAIN ns2 : a = ns2[x] \/ a = ds2[x]
    BY <1>8, FeetOfList
  <2>4. QED
    BY <2>2, <2>3
<1>10. Becomes(j, {l}, k, {})
  <2>1. Heap(j) /\ l \in Live(j)
    BY <1>8 DEF Becomes, ListAt
  <2>2. k = FreeMemory(j, l)
    BY <1>2, <1>7
  <2>3. QED
    BY <2>1, <2>2, FreedBecomes
<1>11. QED
  BY <1>8, <1>9, <1>10, BecomesTrans

-----------------------------------------------------------------------------
(* Blocks that own the blocks they point to.                               *)

Fields(m, a) == DOMAIN m.block[a].pointer

\* What the pointers of a block lead to is its own, and leads nowhere.
Owner(m, a) ==
    /\ a \in Live(m)
    /\ \A f \in Fields(m, a) : PointerIn(m, a, f) # Null =>
         /\ PointerIn(m, a, f) \in Live(m) /\ PointerIn(m, a, f) # a
         /\ m.block[PointerIn(m, a, f)].pointer = NoPointers
    /\ \A f, g \in Fields(m, a) :
         PointerIn(m, a, f) = PointerIn(m, a, g) /\ PointerIn(m, a, f) # Null => f = g

Owned(m, a) == {a} \cup Pointers(m, a)

LEMMA InPointers ==
  ASSUME NEW m, NEW a, NEW c
  PROVE  c \in Pointers(m, a) <=> c # Null /\ \E f \in Fields(m, a) : c = PointerIn(m, a, f)
BY DEF Pointers, Fields

LEMMA OwnedLive ==
  ASSUME NEW m, NEW a, Owner(m, a)
  PROVE  Owned(m, a) \subseteq Live(m) /\ a \in Owned(m, a)
<1>1. \A c : c \in Pointers(m, a) <=> c # Null /\ \E f \in Fields(m, a) : c = PointerIn(m, a, f)
  BY InPointers
<1>2. QED
  BY <1>1 DEF Owner, Owned

\* A change beside an owner and what it owns leaves both as they are.
LEMMA OwnerKept ==
  ASSUME NEW m, NEW S, NEW k, NEW T, Becomes(m, S, k, T),
         NEW a, Owner(m, a), \A c \in Owned(m, a) : c \notin S
  PROVE  /\ Owner(k, a) /\ Owned(k, a) = Owned(m, a) /\ k.block[a] = m.block[a]
         /\ \A c \in Owned(k, a) : c \notin T
<1>1. Owned(m, a) \subseteq Live(m) /\ a \in Owned(m, a)
  BY OwnedLive
<1>2. \A c \in Owned(m, a) : c \in Live(k) /\ c \notin T /\ k.block[c] = m.block[c]
  BY <1>1 DEF Becomes
<1>3. k.block[a] = m.block[a] /\ a \in Live(k)
  BY <1>1, <1>2
<1>4. Fields(k, a) = Fields(m, a) /\ \A f : PointerIn(k, a, f) = PointerIn(m, a, f)
  BY <1>3 DEF Fields, PointerIn
<1>5. Owned(k, a) = Owned(m, a)
  BY <1>4 DEF Owned, Pointers, Fields
<1>6. \A f \in Fields(m, a) : PointerIn(m, a, f) # Null => PointerIn(m, a, f) \in Owned(m, a)
  BY InPointers DEF Owned
<1>7. Owner(k, a)
  BY <1>2, <1>3, <1>4, <1>6 DEF Owner
<1>8. QED
  BY <1>2, <1>3, <1>5, <1>7

\* A new block behind a pointer that was 0.
LEMMA OwnerGrows ==
  ASSUME NEW m, Heap(m), NEW a, Owner(m, a), NEW f \in Fields(m, a),
         PointerIn(m, a, f) = Null, NEW b, IsBlock(b), b.pointer = NoPointers,
         NEW k, k = AllocateInto(m, a, f, b)
  PROVE  /\ Owner(k, a) /\ Becomes(m, Owned(m, a), k, Owned(k, a))
         /\ \E x : x # Null /\ k.block[a] = Repointed(m.block[a], f, x)
<1>1. PICK x : x = NewAddress(m)
  OBVIOUS
<1>2. PICK k1 : k1 = AllocateMemory(m, b)
  OBVIOUS
<1>3. /\ Becomes(m, {}, k1, {x}) /\ k1.block[x] = b /\ x \in Nat \ {0}
      /\ x \notin Live(m) /\ x \in Live(k1)
  BY <1>1, <1>2, AllocatedBecomes
<1>4. k = SetPointer(k1, a, f, x)
  BY <1>1, <1>2 DEF AllocateInto
<1>5. a \in Live(m) /\ Owned(m, a) \subseteq Live(m) /\ a \in Owned(m, a)
  BY OwnedLive DEF Owner
<1>6. a \in Live(k1) /\ k1.block[a] = m.block[a] /\ Heap(k1) /\ x # a
  BY <1>3, <1>5 DEF Becomes
<1>7. f \in DOMAIN k1.block[a].pointer
  BY <1>6 DEF Fields
<1>8. Becomes(k1, {a}, k, {a}) /\ k.block[a] = Repointed(k1.block[a], f, x)
  BY <1>4, <1>6, <1>7, PointerBecomes
<1>9. k.block[a] = Repointed(m.block[a], f, x)
  BY <1>6, <1>8
<1>10. /\ Fields(k, a) = Fields(m, a) /\ PointerIn(k, a, f) = x
       /\ \A g \in Fields(m, a) : g # f => PointerIn(k, a, g) = PointerIn(m, a, g)
  <2>1. IsBlock(m.block[a])
    BY <1>5 DEF Heap, Blocks
  <2>2. PICK p : p = m.block[a].pointer /\ p = [g \in DOMAIN p |-> p[g]]
    BY <2>1 DEF IsBlock
  <2>3. k.block[a].pointer = [p EXCEPT ![f] = x]
    BY <1>9, <2>2 DEF Repointed, Block
  <2>4. QED
    BY <2>2, <2>3 DEF Fields, PointerIn
<1>11. \A c : c \in Live(k) <=> c \in Live(m) \/ c = x
  BY <1>3, <1>8 DEF Becomes
<1>12. k.block[x] = b /\ \A c \in Live(m) : c # a => k.block[c] = m.block[c]
  BY <1>3, <1>6, <1>8 DEF Becomes
<1>13. Owner(k, a)
  <2>1. x # Null
    BY <1>3 DEF Null
  <2>2. ASSUME NEW g \in Fields(k, a), PointerIn(k, a, g) # Null
        PROVE  /\ PointerIn(k, a, g) \in Live(k) /\ PointerIn(k, a, g) # a
               /\ k.block[PointerIn(k, a, g)].pointer = NoPointers
    <3>1. CASE g = f
      BY <1>6, <1>10, <1>11, <1>12, <3>1
    <3>2. CASE g # f
      BY <1>10, <1>11, <1>12, <2>2, <3>2 DEF Owner
    <3>3. QED
      BY <3>1, <3>2
  <2>3. ASSUME NEW g \in Fields(k, a), NEW h \in Fields(k, a),
               PointerIn(k, a, g) = PointerIn(k, a, h), PointerIn(k, a, g) # Null
        PROVE  g = h
    <3>1. \A e \in Fields(k, a) : e # f /\ PointerIn(k, a, e) # Null => PointerIn(k, a, e) # x
      BY <1>3, <1>10 DEF Owner
    <3>2. CASE g = f \/ h = f
      BY <1>10, <2>3, <3>1, <3>2
    <3>3. CASE g # f /\ h # f
      BY <1>10, <2>3, <3>3 DEF Owner
    <3>4. QED
      BY <3>2, <3>3
  <2>4. QED
    BY <1>5, <1>11, <2>2, <2>3 DEF Owner
<1>14. \A c : c \in Owned(k, a) <=> c \in Owned(m, a) \/ c = x
  <2>1. \A c : c \in Pointers(k, a) <=> c # Null /\ \E g \in Fields(k, a) : c = PointerIn(k, a, g)
    BY InPointers
  <2>2. \A c : c \in Pointers(m, a) <=> c # Null /\ \E g \in Fields(m, a) : c = PointerIn(m, a, g)
    BY InPointers
  <2>3. x # Null
    BY <1>3 DEF Null
  <2>4. \A c : c \in Pointers(k, a) <=> c \in Pointers(m, a) \/ c = x
    BY <1>10, <2>1, <2>2, <2>3
  <2>5. QED
    BY <2>4 DEF Owned
<1>15. Becomes(m, Owned(m, a), k, Owned(k, a))
  BY <1>3, <1>5, <1>8, <1>11, <1>12, <1>14 DEF Becomes
<1>16. QED
  BY <1>3, <1>9, <1>13, <1>15 DEF Null

\* The same block but for the pointers.
SameBut(m, k, a) ==
    /\ Fields(k, a) = Fields(m, a)
    /\ k.block[a].size = m.block[a].size /\ k.block[a].value = m.block[a].value

Distinct(fields) == \A i, j \in DOMAIN fields : fields[i] = fields[j] => i = j

Made(f, m, owner, fields, c) ==
    f = [n \in 0..c |-> IF n = 0 THEN m ELSE AllocateInto(f[n - 1], owner, fields[n], Plain)]

\* The allocations of AllocateEach, one by one.
LEMMA MadeExists ==
  ASSUME NEW m, NEW owner, NEW fields, NEW last \in Nat
  PROVE  \E f : Made(f, m, owner, fields, last)
<1> DEFINE S == {c \in Nat : \E f : Made(f, m, owner, fields, c)}
<1>1. 0 \in S
  <2> DEFINE f == [n \in 0..0 |-> m]
  <2>1. f = [n \in 0..0 |-> IF n = 0 THEN m ELSE AllocateInto(f[n - 1], owner, fields[n], Plain)]
    OBVIOUS
  <2>2. Made(f, m, owner, fields, 0)
    BY <2>1, Zenon DEF Made
  <2>3. QED
    BY <2>2
<1>2. ASSUME NEW c \in Nat, c \in S PROVE c + 1 \in S
  <2>1. PICK f : Made(f, m, owner, fields, c)
    BY <1>2
  <2> DEFINE g == [n \in 0..(c + 1) |-> IF n = c + 1
                                        THEN AllocateInto(f[c], owner, fields[n], Plain)
                                        ELSE f[n]]
             h == [n \in 0..(c + 1) |-> IF n = 0 THEN m ELSE AllocateInto(g[n - 1], owner, fields[n], Plain)]
  <2>2. ASSUME NEW n \in 0..(c + 1) PROVE g[n] = h[n]
    <3>1. CASE n = c + 1
      <4>1. n # 0 /\ n - 1 = c /\ n - 1 \in 0..(c + 1) /\ c # c + 1
        BY <3>1
      <4>2. g[n] = AllocateInto(f[c], owner, fields[n], Plain) /\ g[n - 1] = f[c]
        BY <3>1, <4>1
      <4>3. h[n] = AllocateInto(g[n - 1], owner, fields[n], Plain)
        BY <4>1
      <4>4. QED
        BY <4>2, <4>3
    <3>2. CASE n # c + 1
      <4>1. n \in 0..c /\ g[n] = f[n]
        BY <3>2
      <4>2. f[n] = IF n = 0 THEN m ELSE AllocateInto(f[n - 1], owner, fields[n], Plain)
        BY <2>1, <4>1 DEF Made
      <4>3. n # 0 => n - 1 \in 0..(c + 1) /\ n - 1 # c + 1
        BY <4>1
      <4>4. n # 0 => g[n - 1] = f[n - 1]
        BY <4>3
      <4>5. QED
        BY <4>1, <4>2, <4>4
    <3>3. QED
      BY <3>1, <3>2
  <2>3. g = h
    BY <2>2
  <2>4. Made(g, m, owner, fields, c + 1)
    BY <2>3, Zenon DEF Made
  <2>5. QED
    BY <2>4
<1> HIDE DEF S
<1>3. last \in S
  BY <1>1, <1>2, NatSetInduction
<1>4. QED
  BY <1>3 DEF S

LEMMA PlainBlock == IsBlock(Plain) /\ Plain.pointer = NoPointers
BY DEF IsBlock, Plain, Block, NoPointers

\* Blocks for fields that had none: the owner owns them, each apart from the others.
LEMMA EachAllocated ==
  ASSUME NEW m, Heap(m), NEW a, Owner(m, a), NEW fields \in Seq(Fields(m, a)),
         Distinct(fields), \A i \in DOMAIN fields : PointerIn(m, a, fields[i]) = Null,
         NEW k, k = AllocateEach(m, a, fields)
  PROVE  /\ Owner(k, a) /\ Becomes(m, Owned(m, a), k, Owned(k, a)) /\ SameBut(m, k, a)
         /\ \A f \in Fields(m, a) : PointerIn(k, a, f) # Null =>
              PointerIn(m, a, f) # Null \/ \E i \in DOMAIN fields : f = fields[i]
<1>1. PICK c \in Nat : c = Len(fields) /\ DOMAIN fields = 1..c
  OBVIOUS
<1> DEFINE made == CHOOSE f : f = [n \in 0..Len(fields) |->
                     IF n = 0 THEN m ELSE AllocateInto(f[n - 1], a, fields[n], Plain)]
<1>2. k = made[c]
  BY <1>1, Zenon DEF AllocateEach
<1>3. Made(made, m, a, fields, c)
  <2>1. \E f : f = [n \in 0..Len(fields) |->
                     IF n = 0 THEN m ELSE AllocateInto(f[n - 1], a, fields[n], Plain)]
    <3>1. \E f : Made(f, m, a, fields, c)
      BY MadeExists
    <3>2. QED
      BY <1>1, <3>1, Zenon DEF Made
  <2>2. QED
    BY <1>1, <2>1, Zenon DEF Made
<1> HIDE DEF made
<1> DEFINE Done(n) ==
             /\ Owner(made[n], a) /\ Becomes(m, Owned(m, a), made[n], Owned(made[n], a))
             /\ SameBut(m, made[n], a)
             /\ \A f \in Fields(m, a) : PointerIn(made[n], a, f) # Null =>
                  PointerIn(m, a, f) # Null \/ \E i \in 1..n : f = fields[i]
           S == {n \in Nat : n <= c => Done(n)}
<1>4. 0 \in S
  <2>1. made[0] = m
    BY <1>3 DEF Made
  <2>2. Becomes(m, Owned(m, a), m, Owned(m, a))
    BY OwnedLive, BecomesSame
  <2>3. Done(0)
    BY <2>1, <2>2 DEF SameBut
  <2>4. QED
    BY <2>3
<1>5. ASSUME NEW n \in Nat, n \in S PROVE n + 1 \in S
  <2>1. SUFFICES ASSUME n + 1 <= c PROVE Done(n + 1)
    OBVIOUS
  <2>2. PICK j : j = made[n]
    OBVIOUS
  <2>3. /\ Owner(j, a) /\ Becomes(m, Owned(m, a), j, Owned(j, a)) /\ SameBut(m, j, a)
        /\ \A f \in Fields(m, a) : PointerIn(j, a, f) # Null =>
             PointerIn(m, a, f) # Null \/ \E i \in 1..n : f = fields[i]
    BY <1>5, <2>1, <2>2
  <2>4. PICK f : f = fields[n + 1]
    OBVIOUS
  <2>5. n + 1 \in 1..c /\ n + 1 \in 0..c /\ n + 1 # 0 /\ (n + 1) - 1 = n
    BY <2>1
  <2>6. PICK k1 : k1 = made[n + 1]
    OBVIOUS
  <2>7. k1 = AllocateInto(j, a, f, Plain)
    BY <1>3, <2>2, <2>4, <2>5, <2>6 DEF Made
  <2>8. f \in Fields(m, a) /\ PointerIn(m, a, f) = Null
    BY <1>1, <2>4, <2>5
  <2>9. f \in Fields(j, a) /\ PointerIn(j, a, f) = Null
    <3>1. \A i \in 1..n : f # fields[i]
      <4>1. \A i \in 1..n : i \in DOMAIN fields /\ n + 1 \in DOMAIN fields /\ i # n + 1
        BY <1>1, <2>1
      <4>2. QED
        BY <2>4, <4>1 DEF Distinct
    <3>2. QED
      BY <2>3, <2>8, <3>1 DEF SameBut
  <2>10. Heap(j)
    BY <2>3 DEF Becomes
  <2>11. /\ Owner(k1, a) /\ Becomes(j, Owned(j, a), k1, Owned(k1, a))
         /\ \E x : x # Null /\ k1.block[a] = Repointed(j.block[a], f, x)
    BY <2>3, <2>7, <2>9, <2>10, PlainBlock, OwnerGrows
  <2>12. Becomes(m, Owned(m, a), k1, Owned(k1, a))
    BY <2>3, <2>11, BecomesTrans
  <2>13. PICK x : x # Null /\ k1.block[a] = Repointed(j.block[a], f, x)
    BY <2>11
  <2>14. SameBut(j, k1, a) /\ \A g \in Fields(j, a) : g # f => PointerIn(k1, a, g) = PointerIn(j, a, g)
    <3>1. IsBlock(j.block[a])
      BY <2>3, <2>10 DEF Owner, Heap, Blocks
    <3>2. PICK p : p = j.block[a].pointer /\ p = [g \in DOMAIN p |-> p[g]]
      BY <3>1 DEF IsBlock
    <3>3. k1.block[a] = Block(j.block[a].size, [p EXCEPT ![f] = x], j.block[a].value)
      BY <2>13, <3>2 DEF Repointed
    <3>4. QED
      BY <3>2, <3>3 DEF SameBut, Fields, PointerIn, Block
  <2>15. \A g \in Fields(m, a) : PointerIn(k1, a, g) # Null =>
             PointerIn(m, a, g) # Null \/ \E i \in 1..(n + 1) : g = fields[i]
    <3>1. \A i \in 1..n : i \in 1..(n + 1)
      OBVIOUS
    <3>2. n + 1 \in 1..(n + 1)
      OBVIOUS
    <3>3. Fields(j, a) = Fields(m, a)
      BY <2>3 DEF SameBut
    <3>4. QED
      BY <2>3, <2>4, <2>14, <3>1, <3>2, <3>3
  <2>16. SameBut(m, k1, a)
    BY <2>3, <2>14 DEF SameBut
  <2>17. QED
    BY <2>6, <2>11, <2>12, <2>15, <2>16
<1>6. Done(c)
  <2> HIDE DEF Done
  <2>1. c \in S
    <3> HIDE DEF S
    <3>1. QED
      BY <1>4, <1>5, NatSetInduction
  <2>2. QED
    BY <2>1
<1>7. QED
  BY <1>1, <1>2, <1>6

-----------------------------------------------------------------------------
(* A block is freed with what its pointers lead to.                        *)

Rid(f, m, a, fields, c) ==
    f = [n \in 0..c |->
           IF n = 0 THEN m ELSE FreeIfAny(f[n - 1], PointerIn(m, a, fields[n]))]

\* The calls of rmqsFreeMemory in FreeWith, one by one.
LEMMA RidExists ==
  ASSUME NEW m, NEW a, NEW fields, NEW last \in Nat
  PROVE  \E f : Rid(f, m, a, fields, last)
<1> DEFINE S == {c \in Nat : \E f : Rid(f, m, a, fields, c)}
<1>1. 0 \in S
  <2> DEFINE f == [n \in 0..0 |-> m]
  <2>1. f = [n \in 0..0 |-> IF n = 0 THEN m ELSE FreeIfAny(f[n - 1], PointerIn(m, a, fields[n]))]
    OBVIOUS
  <2>2. Rid(f, m, a, fields, 0)
    BY <2>1, Zenon DEF Rid
  <2>3. QED
    BY <2>2
<1>2. ASSUME NEW c \in Nat, c \in S PROVE c + 1 \in S
  <2>1. PICK f : Rid(f, m, a, fields, c)
    BY <1>2
  <2> DEFINE g == [n \in 0..(c + 1) |-> IF n = c + 1
                                        THEN FreeIfAny(f[c], PointerIn(m, a, fields[n]))
                                        ELSE f[n]]
             h == [n \in 0..(c + 1) |-> IF n = 0 THEN m ELSE FreeIfAny(g[n - 1], PointerIn(m, a, fields[n]))]
  <2>2. ASSUME NEW n \in 0..(c + 1) PROVE g[n] = h[n]
    <3>1. CASE n = c + 1
      <4>1. n # 0 /\ n - 1 = c /\ n - 1 \in 0..(c + 1) /\ c # c + 1
        BY <3>1
      <4>2. g[n] = FreeIfAny(f[c], PointerIn(m, a, fields[n])) /\ g[n - 1] = f[c]
        BY <3>1, <4>1
      <4>3. h[n] = FreeIfAny(g[n - 1], PointerIn(m, a, fields[n]))
        BY <4>1
      <4>4. QED
        BY <4>2, <4>3
    <3>2. CASE n # c + 1
      <4>1. n \in 0..c /\ g[n] = f[n]
        BY <3>2
      <4>2. f[n] = IF n = 0 THEN m ELSE FreeIfAny(f[n - 1], PointerIn(m, a, fields[n]))
        BY <2>1, <4>1 DEF Rid
      <4>3. n # 0 => n - 1 \in 0..(c + 1) /\ n - 1 # c + 1
        BY <4>1
      <4>4. n # 0 => g[n - 1] = f[n - 1]
        BY <4>3
      <4>5. QED
        BY <4>1, <4>2, <4>4
    <3>3. QED
      BY <3>1, <3>2
  <2>3. g = h
    BY <2>2
  <2>4. Rid(g, m, a, fields, c + 1)
    BY <2>3, Zenon DEF Rid
  <2>5. QED
    BY <2>4
<1> HIDE DEF S
<1>3. last \in S
  BY <1>1, <1>2, NatSetInduction
<1>4. QED
  BY <1>3 DEF S

\* What the first n of these fields lead to.
Part(m, a, fields, n) == {PointerIn(m, a, fields[i]) : i \in 1..n} \ {Null}

\* When the fields are all that are set, an owner is freed with all it owns, each once.
LEMMA FreedWith ==
  ASSUME NEW m, Heap(m), NEW a, Owner(m, a), NEW fields \in Seq(Fields(m, a)),
         Distinct(fields),
         \A f \in Fields(m, a) : PointerIn(m, a, f) # Null => \E i \in DOMAIN fields : f = fields[i],
         NEW k, k = FreeWith(m, a, fields)
  PROVE  Becomes(m, Owned(m, a), k, {})
<1>1. PICK c \in Nat : c = Len(fields) /\ DOMAIN fields = 1..c
  OBVIOUS
<1> DEFINE freed == CHOOSE f : f = [n \in 0..Len(fields) |->
                      IF n = 0 THEN m ELSE FreeIfAny(f[n - 1], PointerIn(m, a, fields[n]))]
<1>2. k = FreeMemory(freed[c], a)
  BY <1>1, Zenon DEF FreeWith
<1>3. Rid(freed, m, a, fields, c)
  <2>1. \E f : f = [n \in 0..Len(fields) |->
                     IF n = 0 THEN m ELSE FreeIfAny(f[n - 1], PointerIn(m, a, fields[n]))]
    <3>1. \E f : Rid(f, m, a, fields, c)
      BY RidExists
    <3>2. QED
      BY <1>1, <3>1, Zenon DEF Rid
  <2>2. QED
    BY <1>1, <2>1, Zenon DEF Rid
<1> HIDE DEF freed
<1> DEFINE Done(n) == Becomes(m, Part(m, a, fields, n), freed[n], {})
           S == {n \in Nat : n <= c => Done(n)}
<1>4. 0 \in S
  <2>1. freed[0] = m
    BY <1>3 DEF Rid
  <2>2. Part(m, a, fields, 0) = {}
    BY DEF Part
  <2>3. Becomes(m, {}, m, {})
    BY BecomesSame
  <2>4. QED
    BY <2>1, <2>2, <2>3
<1>5. ASSUME NEW n \in Nat, n \in S PROVE n + 1 \in S
  <2>1. SUFFICES ASSUME n + 1 <= c PROVE Done(n + 1)
    OBVIOUS
  <2>2. PICK j : j = freed[n]
    OBVIOUS
  <2>3. Becomes(m, Part(m, a, fields, n), j, {})
    BY <1>5, <2>1, <2>2
  <2>4. PICK p : p = PointerIn(m, a, fields[n + 1])
    OBVIOUS
  <2>5. n + 1 \in 1..c /\ n + 1 \in 0..c /\ n + 1 # 0 /\ (n + 1) - 1 = n
    BY <2>1
  <2>6. PICK k1 : k1 = freed[n + 1]
    OBVIOUS
  <2>7. k1 = FreeIfAny(j, p)
    BY <1>3, <2>2, <2>4, <2>5, <2>6 DEF Rid
  <2>8. Part(m, a, fields, n + 1) = Part(m, a, fields, n) \cup ({p} \ {Null})
    <3>1. \A i : i \in 1..(n + 1) <=> i \in 1..n \/ i = n + 1
      OBVIOUS
    <3>2. QED
      BY <2>4, <3>1 DEF Part
  <2>9. CASE p = Null
    <3>1. k1 = j
      BY <2>7, <2>9 DEF FreeIfAny
    <3>2. Part(m, a, fields, n + 1) = Part(m, a, fields, n)
      BY <2>8, <2>9
    <3>3. QED
      BY <2>3, <2>6, <3>1, <3>2
  <2>10. CASE p # Null
    <3>1. k1 = FreeMemory(j, p)
      BY <2>7, <2>10 DEF FreeIfAny
    <3>2. fields[n + 1] \in Fields(m, a)
      BY <1>1, <2>5
    <3>3. p \in Live(m)
      BY <2>4, <2>10, <3>2 DEF Owner
    <3>4. p \notin Part(m, a, fields, n)
      <4>1. ASSUME NEW i \in 1..n PROVE PointerIn(m, a, fields[i]) # p
        <5>1. i \in DOMAIN fields /\ n + 1 \in DOMAIN fields /\ i # n + 1
          BY <1>1, <2>1
        <5>2. fields[i] # fields[n + 1]
          BY <5>1 DEF Distinct
        <5>3. fields[i] \in Fields(m, a)
          BY <5>1
        <5>4. QED
          BY <2>4, <2>10, <3>2, <5>2, <5>3 DEF Owner
      <4>2. QED
        BY <4>1 DEF Part
    <3>5. p \in Live(j) /\ Heap(j)
      BY <2>3, <3>3, <3>4 DEF Becomes
    <3>6. Becomes(j, {p}, k1, {})
      BY <3>1, <3>5, FreedBecomes
    <3>7. Becomes(m, Part(m, a, fields, n) \cup ({p} \ {}), k1, {} \cup ({} \ {p}))
      BY <2>3, <3>6, BecomesThen
    <3>8. /\ Part(m, a, fields, n + 1) = Part(m, a, fields, n) \cup ({p} \ {})
          /\ {} = {} \cup ({} \ {p})
      BY <2>8, <2>10
    <3>9. QED
      BY <2>6, <3>7, <3>8
  <2>11. QED
    BY <2>9, <2>10
<1>6. Becomes(m, Part(m, a, fields, c), freed[c], {})
  <2> HIDE DEF Done
  <2>1. c \in S
    <3> HIDE DEF S
    <3>1. QED
      BY <1>4, <1>5, NatSetInduction
  <2>2. Done(c)
    BY <2>1
  <2>3. QED
    BY <2>2 DEF Done
<1>7. Part(m, a, fields, c) = Pointers(m, a)
  <2>1. \A x : x \in Pointers(m, a) <=> x # Null /\ \E f \in Fields(m, a) : x = PointerIn(m, a, f)
    BY InPointers
  <2>2. \A i \in 1..c : fields[i] \in Fields(m, a)
    BY <1>1
  <2>3. \A x : x \in Part(m, a, fields, c) <=> x # Null /\ \E i \in 1..c : x = PointerIn(m, a, fields[i])
    BY DEF Part
  <2>4. QED
    BY <1>1, <2>1, <2>2, <2>3
<1>8. a \in Live(m) /\ a \notin Pointers(m, a)
  <2>1. \A x : x \in Pointers(m, a) <=> x # Null /\ \E f \in Fields(m, a) : x = PointerIn(m, a, f)
    BY InPointers
  <2>2. QED
    BY <2>1 DEF Owner
<1>9. PICK j : j = freed[c]
  OBVIOUS
<1>10. Becomes(m, Pointers(m, a), j, {})
  BY <1>6, <1>7, <1>9
<1>11. a \in Live(j) /\ Heap(j)
  BY <1>8, <1>10 DEF Becomes
<1>12. Becomes(j, {a}, k, {})
  BY <1>2, <1>9, <1>11, FreedBecomes
<1>13. Becomes(m, Pointers(m, a) \cup ({a} \ {}), k, {} \cup ({} \ {a}))
  BY <1>10, <1>12, BecomesThen
<1>14. Owned(m, a) = Pointers(m, a) \cup ({a} \ {}) /\ {} = {} \cup ({} \ {a})
  BY DEF Owned
<1>15. QED
  BY <1>13, <1>14

-----------------------------------------------------------------------------
(* Blocks that are made and freed in a row.                                *)

\* Two parts are freed, which therefore were apart.
LEMMA BecomesFreed ==
  ASSUME NEW m, NEW S, NEW k, Becomes(m, S, k, {}), NEW V, NEW j, Becomes(k, V, j, {})
  PROVE  Becomes(m, S \cup V, j, {}) /\ \A c \in S : c \notin V
<1>1. Becomes(m, S \cup (V \ {}), j, {} \cup ({} \ V))
  BY BecomesThen
<1>2. S \cup (V \ {}) = S \cup V /\ {} \cup ({} \ V) = {}
  OBVIOUS
<1>3. \A c \in S : c \notin V
  BY DEF Becomes
<1>4. QED
  BY <1>1, <1>2, <1>3

\* Two parts are made, which therefore are apart.
LEMMA BecomesMade ==
  ASSUME NEW m, NEW S, NEW k, NEW T, Becomes(m, S, k, T), NEW j, NEW W, Becomes(k, {}, j, W)
  PROVE  Becomes(m, S, j, T \cup W) /\ \A c \in T : c \notin W
<1>1. Becomes(m, S \cup ({} \ T), j, W \cup (T \ {}))
  BY BecomesThen
<1>2. S \cup ({} \ T) = S /\ W \cup (T \ {}) = T \cup W
  OBVIOUS
<1>3. \A c \in T : c \notin W
  BY DEF Becomes
<1>4. QED
  BY <1>1, <1>2, <1>3

\* A new block, and a pointer to it.
LEMMA IntoBecomes ==
  ASSUME NEW m, Heap(m), NEW a \in Live(m), NEW f \in Fields(m, a), NEW b, IsBlock(b),
         NEW x, x = NewAddress(m), NEW k, k = AllocateInto(m, a, f, b)
  PROVE  /\ Becomes(m, {a}, k, {a, x}) /\ x \in Address /\ x \notin Live(m) /\ x # a
         /\ k.block[x] = b /\ k.block[a] = Repointed(m.block[a], f, x)
<1>1. PICK k1 : k1 = AllocateMemory(m, b)
  OBVIOUS
<1>2. /\ Becomes(m, {}, k1, {x}) /\ k1.block[x] = b /\ x \in Nat \ {0}
      /\ x \notin Live(m) /\ x \in Live(k1)
  BY <1>1, AllocatedBecomes
<1>3. k = SetPointer(k1, a, f, x)
  BY <1>1 DEF AllocateInto
<1>4. a \in Live(k1) /\ k1.block[a] = m.block[a] /\ Heap(k1) /\ x # a
  BY <1>2 DEF Becomes
<1>5. f \in DOMAIN k1.block[a].pointer
  BY <1>4 DEF Fields
<1>6. Becomes(k1, {a}, k, {a}) /\ k.block[a] = Repointed(k1.block[a], f, x)
  BY <1>3, <1>4, <1>5, PointerBecomes
<1>7. Becomes(m, {a}, k, {a, x})
  BY <1>2, <1>4, <1>6 DEF Becomes
<1>8. k.block[x] = b
  BY <1>2, <1>4, <1>6 DEF Becomes
<1>9. QED
  BY <1>2, <1>4, <1>6, <1>7, <1>8 DEF Address

Blank(b) == IsBlock(b) /\ \A f \in DOMAIN b.pointer : b.pointer[f] = Null

\* A block whose pointers are all 0 owns itself.
LEMMA BlankOwner ==
  ASSUME NEW m, Heap(m), NEW a \in Live(m), NEW b, Blank(b), m.block[a] = b
  PROVE  /\ Owner(m, a) /\ Owned(m, a) = {a} /\ Fields(m, a) = DOMAIN b.pointer
         /\ \A f \in Fields(m, a) : PointerIn(m, a, f) = Null
<1>1. Fields(m, a) = DOMAIN b.pointer /\ \A f \in Fields(m, a) : PointerIn(m, a, f) = Null
  BY DEF Fields, PointerIn, Blank
<1>2. Pointers(m, a) = {}
  BY <1>1, InPointers
<1>3. QED
  BY <1>1, <1>2 DEF Owner, Owned

\* These fields are all that lead anywhere.
Keeps(m, a, fields) ==
    /\ Owner(m, a) /\ fields \in Seq(Fields(m, a)) /\ Distinct(fields)
    /\ \A f \in Fields(m, a) :
         PointerIn(m, a, f) # Null => \E i \in DOMAIN fields : f = fields[i]

Unset(m, a, fields) ==
    /\ fields \in Seq(Fields(m, a)) /\ Distinct(fields)
    /\ \A i \in DOMAIN fields : PointerIn(m, a, fields[i]) = Null

Grown(m, k, a, fields) ==
    /\ Owner(k, a) /\ Becomes(m, Owned(m, a), k, Owned(k, a)) /\ SameBut(m, k, a)
    /\ \A f \in Fields(m, a) : PointerIn(k, a, f) # Null =>
         PointerIn(m, a, f) # Null \/ \E i \in DOMAIN fields : f = fields[i]

LEMMA UnsetGrown ==
  ASSUME NEW m, Heap(m), NEW a, Owner(m, a), NEW fields, Unset(m, a, fields),
         NEW k, k = AllocateEach(m, a, fields)
  PROVE  Grown(m, k, a, fields)
<1>1. /\ fields \in Seq(Fields(m, a)) /\ Distinct(fields)
      /\ \A i \in DOMAIN fields : PointerIn(m, a, fields[i]) = Null
  BY DEF Unset
<1>2. /\ Owner(k, a) /\ Becomes(m, Owned(m, a), k, Owned(k, a)) /\ SameBut(m, k, a)
      /\ \A f \in Fields(m, a) : PointerIn(k, a, f) # Null =>
           PointerIn(m, a, f) # Null \/ \E i \in DOMAIN fields : f = fields[i]
  BY <1>1, EachAllocated
<1>3. QED
  BY <1>2 DEF Grown

Fit(b, fields) == Blank(b) /\ fields \in Seq(DOMAIN b.pointer) /\ Distinct(fields)

\* A blank block gets blocks for these fields, and keeps just those.
LEMMA KeepsMade ==
  ASSUME NEW m, Heap(m), NEW a \in Live(m), NEW b, m.block[a] = b,
         NEW fields, Fit(b, fields),
         NEW k, k = AllocateEach(m, a, fields)
  PROVE  /\ Keeps(k, a, fields) /\ Becomes(m, {a}, k, Owned(k, a))
         /\ Fields(k, a) = DOMAIN b.pointer /\ k.block[a].value = b.value
<1>1. /\ Owner(m, a) /\ Owned(m, a) = {a} /\ Fields(m, a) = DOMAIN b.pointer
      /\ \A f \in Fields(m, a) : PointerIn(m, a, f) = Null
  BY BlankOwner DEF Fit
<1>2. fields \in Seq(Fields(m, a)) /\ Distinct(fields)
  BY <1>1 DEF Fit
<1>3. Unset(m, a, fields)
  <2>1. \A i \in DOMAIN fields : fields[i] \in Fields(m, a)
    BY <1>2
  <2>2. QED
    BY <1>1, <1>2, <2>1 DEF Unset
<1>8. Grown(m, k, a, fields)
  BY <1>1, <1>3, UnsetGrown
<1>4. /\ Owner(k, a) /\ Becomes(m, Owned(m, a), k, Owned(k, a)) /\ SameBut(m, k, a)
      /\ \A f \in Fields(m, a) : PointerIn(k, a, f) # Null =>
           PointerIn(m, a, f) # Null \/ \E i \in DOMAIN fields : f = fields[i]
  BY <1>8 DEF Grown
<1>5. Fields(k, a) = Fields(m, a) /\ k.block[a].value = b.value
  BY <1>4 DEF SameBut
<1>6. Keeps(k, a, fields)
  BY <1>1, <1>2, <1>4, <1>5 DEF Keeps
<1>7. QED
  BY <1>1, <1>4, <1>5, <1>6

LEMMA KeepsKept ==
  ASSUME NEW m, NEW S, NEW k, NEW T, Becomes(m, S, k, T),
         NEW a, NEW fields, Keeps(m, a, fields), \A c \in Owned(m, a) : c \notin S
  PROVE  /\ Keeps(k, a, fields) /\ Owned(k, a) = Owned(m, a) /\ k.block[a] = m.block[a]
         /\ Fields(k, a) = Fields(m, a) /\ \A c \in Owned(k, a) : c \notin T
<1>1. Owner(m, a)
  BY DEF Keeps
<1>2. /\ Owner(k, a) /\ Owned(k, a) = Owned(m, a) /\ k.block[a] = m.block[a]
      /\ \A c \in Owned(k, a) : c \notin T
  BY <1>1, OwnerKept
<1>3. Fields(k, a) = Fields(m, a) /\ \A f : PointerIn(k, a, f) = PointerIn(m, a, f)
  BY <1>2 DEF Fields, PointerIn
<1>4. Keeps(k, a, fields)
  BY <1>2, <1>3 DEF Keeps
<1>5. QED
  BY <1>2, <1>3, <1>4

\* A block that keeps these fields is freed with them.
LEMMA KeepsFreed ==
  ASSUME NEW m, Heap(m), NEW a, NEW fields, Keeps(m, a, fields),
         NEW k, k = FreeWith(m, a, fields)
  PROVE  Becomes(m, Owned(m, a), k, {})
<1>1. /\ Owner(m, a) /\ fields \in Seq(Fields(m, a)) /\ Distinct(fields)
      /\ \A f \in Fields(m, a) :
           PointerIn(m, a, f) # Null => \E i \in DOMAIN fields : f = fields[i]
  BY DEF Keeps
<1>2. QED
  BY <1>1, FreedWith

-----------------------------------------------------------------------------
(* Buffers.                                                                *)

\* An owner may note something in itself.
LEMMA OwnerRevalued ==
  ASSUME NEW m, Heap(m), NEW a, Owner(m, a), NEW v, NEW k, k = SetValue(m, a, v)
  PROVE  /\ Owner(k, a) /\ Owned(k, a) = Owned(m, a) /\ Fields(k, a) = Fields(m, a)
         /\ Becomes(m, Owned(m, a), k, Owned(k, a))
<1>1. a \in Live(m) /\ Owned(m, a) \subseteq Live(m) /\ a \in Owned(m, a)
  BY OwnedLive DEF Owner
<1>2. Becomes(m, {a}, k, {a}) /\ k.block[a] = Revalued(m.block[a], v)
  BY <1>1, ValueBecomes
<1>3. k.block[a].pointer = m.block[a].pointer
  BY <1>2 DEF Revalued, Block
<1>4. Fields(k, a) = Fields(m, a) /\ \A f : PointerIn(k, a, f) = PointerIn(m, a, f)
  BY <1>3 DEF Fields, PointerIn
<1>5. Owned(k, a) = Owned(m, a)
  BY <1>3, <1>4 DEF Owned, Pointers
<1>6. \A c \in Live(m) : c # a => c \in Live(k) /\ k.block[c] = m.block[c]
  BY <1>2 DEF Becomes
<1>7. Owner(k, a)
  BY <1>2, <1>4, <1>6 DEF Owner, Becomes
<1>8. Becomes(m, Owned(m, a), k, {a} \cup (Owned(m, a) \ {a}))
  BY <1>1, <1>2, BecomesWider
<1>9. {a} \cup (Owned(m, a) \ {a}) = Owned(k, a)
  BY <1>1, <1>5
<1>10. QED
  BY <1>4, <1>5, <1>7, <1>8, <1>9

\* What an owner points to may grow (rmqsRellocateMemory).
LEMMA OwnerResized ==
  ASSUME NEW m, Heap(m), NEW a, Owner(m, a), NEW f \in Fields(m, a), NEW x,
         x = PointerIn(m, a, f), x # Null, NEW n \in Nat, NEW k, k = RellocateMemory(m, x, n)
  PROVE  /\ Owner(k, a) /\ Owned(k, a) = Owned(m, a) /\ Fields(k, a) = Fields(m, a)
         /\ Becomes(m, Owned(m, a), k, Owned(k, a))
<1>1. a \in Live(m) /\ Owned(m, a) \subseteq Live(m) /\ a \in Owned(m, a)
  BY OwnedLive DEF Owner
<1>2. x \in Live(m) /\ x # a /\ m.block[x].pointer = NoPointers /\ x \in Owned(m, a)
  BY InPointers DEF Owner, Owned
<1>3. PICK b : b = Block(n, m.block[x].pointer, m.block[x].value)
  OBVIOUS
<1>4. IsBlock(m.block[x])
  BY <1>2 DEF Heap, Blocks
<1>5. IsBlock(b) /\ b.pointer = NoPointers /\ b.size = n
  BY <1>2, <1>3, <1>4 DEF IsBlock, Block
<1>6. [m.block[x] EXCEPT !.size = n] = b
  BY <1>3, <1>4 DEF IsBlock, Block
<1>7. [m.block EXCEPT ![x].size = n] = [m.block EXCEPT ![x] = b]
  BY <1>6
<1>8. Written(m, k, x, b)
  BY <1>5, <1>7 DEF Written, RellocateMemory
<1>9. Heap(k) /\ x \in Live(k) /\ k.block[x] = b /\ Elsewhere(m, k, x)
  BY <1>2, <1>5, <1>8, Rewritten
<1>10. Becomes(m, {x}, k, {x})
  BY <1>2, <1>9, ElsewhereBecomes
<1>11. k.block[a] = m.block[a] /\ a \in Live(k)
  BY <1>1, <1>2, <1>10 DEF Becomes
<1>12. Fields(k, a) = Fields(m, a) /\ \A g : PointerIn(k, a, g) = PointerIn(m, a, g)
  BY <1>11 DEF Fields, PointerIn
<1>13. Owned(k, a) = Owned(m, a)
  BY <1>11, <1>12 DEF Owned, Pointers
<1>14. \A c \in Live(m) : c \in Live(k) /\ (c # x => k.block[c] = m.block[c])
  BY <1>9, <1>10 DEF Becomes
<1>15. Owner(k, a)
  BY <1>5, <1>9, <1>11, <1>12, <1>14 DEF Owner
<1>16. Becomes(m, Owned(m, a), k, {x} \cup (Owned(m, a) \ {x}))
  BY <1>1, <1>2, <1>10, BecomesWider
<1>17. {x} \cup (Owned(m, a) \ {x}) = Owned(k, a)
  BY <1>2, <1>13
<1>18. QED
  BY <1>12, <1>13, <1>15, <1>16, <1>17

BufferAt(m, t) == Owner(m, t) /\ Fields(m, t) = {"Data"}

\* rmqsBufferSetMemorySize makes or enlarges the one block a buffer owns.
LEMMA BufferSized ==
  ASSUME NEW m, Heap(m), NEW t, BufferAt(m, t), NEW n \in Nat,
         NEW k, k = BufferSetMemorySize(m, t, n)
  PROVE  BufferAt(k, t) /\ Becomes(m, Owned(m, t), k, Owned(k, t))
<1>1. Owner(m, t) /\ "Data" \in Fields(m, t) /\ Fields(m, t) = {"Data"}
  BY DEF BufferAt
<1>2. PICK x : x = PointerIn(m, t, "Data")
  OBVIOUS
<1>3. ASSUME NEW j, Owner(j, t), Fields(j, t) = Fields(m, t),
             Becomes(m, Owned(m, t), j, Owned(j, t)), k = SetValue(j, t, n)
      PROVE  BufferAt(k, t) /\ Becomes(m, Owned(m, t), k, Owned(k, t))
  <2>1. Heap(j)
    BY <1>3 DEF Becomes
  <2>2. /\ Owner(k, t) /\ Owned(k, t) = Owned(j, t) /\ Fields(k, t) = Fields(j, t)
        /\ Becomes(j, Owned(j, t), k, Owned(k, t))
    BY <1>3, <2>1, OwnerRevalued
  <2>3. Becomes(m, Owned(m, t), k, Owned(k, t))
    BY <1>3, <2>2, BecomesTrans
  <2>4. QED
    BY <1>1, <1>3, <2>2, <2>3 DEF BufferAt
<1>4. CASE x = Null
  <2>1. PICK b : b = Block(n, NoPointers, 0)
    OBVIOUS
  <2>2. IsBlock(b) /\ b.pointer = NoPointers
    BY <2>1 DEF IsBlock, Block, NoPointers
  <2>3. PICK j : j = AllocateInto(m, t, "Data", b)
    OBVIOUS
  <2>4. /\ Owner(j, t) /\ Becomes(m, Owned(m, t), j, Owned(j, t))
        /\ \E y : y # Null /\ j.block[t] = Repointed(m.block[t], "Data", y)
    BY <1>1, <1>2, <1>4, <2>2, <2>3, OwnerGrows
  <2>5. Fields(j, t) = Fields(m, t)
    <3>1. \A y : DOMAIN Repointed(m.block[t], "Data", y).pointer = DOMAIN m.block[t].pointer
      BY DEF Repointed, Block
    <3>2. QED
      BY <2>4, <3>1 DEF Fields
  <2>6. k = SetValue(j, t, n)
    BY <1>2, <1>4, <2>1, <2>3 DEF BufferSetMemorySize, SetValue
  <2>7. QED
    BY <1>3, <2>4, <2>5, <2>6
<1>5. CASE x # Null /\ n <= m.block[t].value
  <2>1. k = m
    BY <1>2, <1>5 DEF BufferSetMemorySize
  <2>2. Becomes(m, Owned(m, t), m, Owned(m, t))
    BY <1>1, OwnedLive, BecomesSame
  <2>3. QED
    BY <2>1, <2>2
<1>6. CASE x # Null /\ ~(n <= m.block[t].value)
  <2>1. PICK j : j = RellocateMemory(m, x, n)
    OBVIOUS
  <2>2. /\ Owner(j, t) /\ Owned(j, t) = Owned(m, t) /\ Fields(j, t) = Fields(m, t)
        /\ Becomes(m, Owned(m, t), j, Owned(j, t))
    BY <1>1, <1>2, <1>6, <2>1, OwnerResized
  <2>3. k = SetValue(j, t, n)
    BY <1>2, <1>6, <2>1 DEF BufferSetMemorySize, SetValue
  <2>4. QED
    BY <1>3, <2>2, <2>3
<1>7. QED
  BY <1>4, <1>5, <1>6

\* rmqsBufferDestroy frees a buffer with its memory, if it has any.
LEMMA BufferFreed ==
  ASSUME NEW m, Heap(m), NEW t, BufferAt(m, t), NEW k, k = BufferDestroy(m, t)
  PROVE  Becomes(m, Owned(m, t), k, {})
<1>1. PICK fields : fields = <<"Data">>
  OBVIOUS
<1>2. fields \in Seq({"Data"}) /\ DOMAIN fields = {1} /\ fields[1] = "Data"
  BY <1>1
<1>3. Distinct(fields)
  BY <1>2 DEF Distinct
<1>4. Keeps(m, t, fields)
  BY <1>2, <1>3 DEF Keeps, BufferAt
<1>5. k = FreeWith(m, t, fields)
  BY <1>1 DEF BufferDestroy
<1>6. QED
  BY <1>4, <1>5, KeepsFreed

LEMMA BufferKept ==
  ASSUME NEW m, NEW S, NEW k, NEW T, Becomes(m, S, k, T),
         NEW t, BufferAt(m, t), \A c \in Owned(m, t) : c \notin S
  PROVE  BufferAt(k, t) /\ Owned(k, t) = Owned(m, t) /\ \A c \in Owned(k, t) : c \notin T
<1>1. /\ Owner(k, t) /\ Owned(k, t) = Owned(m, t) /\ k.block[t] = m.block[t]
      /\ \A c \in Owned(k, t) : c \notin T
  BY OwnerKept DEF BufferAt
<1>2. QED
  BY <1>1 DEF BufferAt, Fields

LEMMA BufferBlockBlank == Blank(BufferBlock) /\ DOMAIN BufferBlock.pointer = {"Data"}
BY DEF Blank, IsBlock, BufferBlock, Block, Null

-----------------------------------------------------------------------------
(* Publishers and consumers, with their clients.                           *)

ObjectBlock(c) == Block(1, [Client |-> c], 0)

ClientBlock(configuration, o, t, r) ==
    Block(1, [ClientConfiguration |-> configuration, ParentObject |-> o,
              TxQueue |-> t, RxQueue |-> r], 0)

LEMMA ObjectBlockFacts ==
  ASSUME NEW c
  PROVE  /\ IsBlock(ObjectBlock(c)) /\ ObjectBlock(c).pointer["Client"] = c
         /\ DOMAIN ObjectBlock(c).pointer = {"Client"}
         /\ \A d : Repointed(ObjectBlock(c), "Client", d) = ObjectBlock(d)
BY DEF IsBlock, ObjectBlock, Block, Repointed

LEMMA ClientBlockFacts ==
  ASSUME NEW g, NEW o, NEW t, NEW r
  PROVE  /\ IsBlock(ClientBlock(g, o, t, r))
         /\ ClientBlock(g, o, t, r).pointer["ClientConfiguration"] = g
         /\ ClientBlock(g, o, t, r).pointer["ParentObject"] = o
         /\ ClientBlock(g, o, t, r).pointer["TxQueue"] = t
         /\ ClientBlock(g, o, t, r).pointer["RxQueue"] = r
         /\ DOMAIN ClientBlock(g, o, t, r).pointer =
              {"ClientConfiguration", "ParentObject", "TxQueue", "RxQueue"}
         /\ \A x : Repointed(ClientBlock(g, o, t, r), "TxQueue", x) = ClientBlock(g, o, x, r)
         /\ \A x : Repointed(ClientBlock(g, o, t, r), "RxQueue", x) = ClientBlock(g, o, t, x)
BY DEF IsBlock, ClientBlock, Block, Repointed

\* The object at o has the client c with the buffers t and r, each a block of its own.
ClientAt(m, g, o, c, t, r) ==
    /\ o \in Live(m) /\ m.block[o] = ObjectBlock(c)
    /\ c \in Live(m) /\ m.block[c] = ClientBlock(g, o, t, r)
    /\ BufferAt(m, t) /\ BufferAt(m, r)
    /\ o # c /\ o \notin Owned(m, t) /\ o \notin Owned(m, r)
    /\ c \notin Owned(m, t) /\ c \notin Owned(m, r)
    /\ \A x \in Owned(m, t) : x \notin Owned(m, r)

ClientFeet(m, o, c, t, r) == {o, c} \cup Owned(m, t) \cup Owned(m, r)

LEMMA ClientKept ==
  ASSUME NEW m, NEW S, NEW k, NEW T, Becomes(m, S, k, T),
         NEW g, NEW o, NEW c, NEW t, NEW r, ClientAt(m, g, o, c, t, r),
         \A x \in ClientFeet(m, o, c, t, r) : x \notin S
  PROVE  /\ ClientAt(k, g, o, c, t, r)
         /\ ClientFeet(k, o, c, t, r) = ClientFeet(m, o, c, t, r)
<1>1. /\ \A x \in Owned(m, t) : x \notin S
      /\ \A x \in Owned(m, r) : x \notin S
      /\ o \notin S /\ c \notin S
  BY DEF ClientFeet
<1>2. BufferAt(m, t) /\ BufferAt(m, r)
  BY DEF ClientAt
<1>3. BufferAt(k, t) /\ Owned(k, t) = Owned(m, t)
  BY <1>1, <1>2, BufferKept
<1>4. BufferAt(k, r) /\ Owned(k, r) = Owned(m, r)
  BY <1>1, <1>2, BufferKept
<1>5. /\ o \in Live(k) /\ k.block[o] = m.block[o]
      /\ c \in Live(k) /\ k.block[c] = m.block[c]
  BY <1>1 DEF Becomes, ClientAt
<1>6. QED
  BY <1>3, <1>4, <1>5 DEF ClientAt, ClientFeet

\* A publisher or consumer is made with its client and two buffers.
LEMMA ClientMade ==
  ASSUME NEW m, Heap(m), NEW o, o = NewAddress(m),
         NEW bare, bare = AllocateMemory(m, ObjectBlock(Null)), NEW c, c = NewAddress(bare),
         NEW k, k = SetPointer(ClientCreate(bare, o), o, "Client", c)
  PROVE  \E t, r : /\ ClientAt(k, ClientConfiguration, o, c, t, r)
                   /\ Becomes(m, {}, k, ClientFeet(k, o, c, t, r))
<1> DEFINE g == ClientConfiguration
<1>1. /\ Becomes(m, {}, bare, {o}) /\ bare.block[o] = ObjectBlock(Null)
      /\ o \in Live(bare)
  BY ObjectBlockFacts, AllocatedBecomes
<1>2. PICK m2 : m2 = AllocateMemory(bare, ClientBlock(g, o, Null, Null))
  OBVIOUS
<1>3. Heap(bare)
  BY <1>1 DEF Becomes
<1>4. /\ Becomes(bare, {}, m2, {c}) /\ m2.block[c] = ClientBlock(g, o, Null, Null)
      /\ c \in Live(m2) /\ c \notin Live(bare)
  BY <1>2, <1>3, ClientBlockFacts, AllocatedBecomes
<1>5. /\ Heap(m2) /\ o # c /\ o \in Live(m2) /\ m2.block[o] = ObjectBlock(Null)
  BY <1>1, <1>4 DEF Becomes
<1>6. PICK t : t = NewAddress(m2)
  OBVIOUS
<1>7. PICK m3 : m3 = AllocateInto(m2, c, "TxQueue", BufferBlock)
  OBVIOUS
<1>8. "TxQueue" \in Fields(m2, c) /\ IsBlock(BufferBlock)
  BY <1>4, ClientBlockFacts, BufferBlockBlank DEF Fields, Blank
<1>9. /\ Becomes(m2, {c}, m3, {c, t}) /\ t \notin Live(m2) /\ t # c
      /\ m3.block[t] = BufferBlock
      /\ m3.block[c] = Repointed(m2.block[c], "TxQueue", t)
  BY <1>4, <1>5, <1>6, <1>7, <1>8, IntoBecomes
<1>10. m3.block[c] = ClientBlock(g, o, t, Null)
  BY <1>4, <1>9, ClientBlockFacts
<1>11. /\ Heap(m3) /\ o # t /\ o \in Live(m3) /\ m3.block[o] = ObjectBlock(Null)
       /\ c \in Live(m3) /\ t \in Live(m3)
  BY <1>5, <1>9 DEF Becomes
<1>12. PICK r : r = NewAddress(m3)
  OBVIOUS
<1>13. PICK m4 : m4 = AllocateInto(m3, c, "RxQueue", BufferBlock)
  OBVIOUS
<1>14. "RxQueue" \in Fields(m3, c)
  BY <1>10, ClientBlockFacts DEF Fields
<1>15. /\ Becomes(m3, {c}, m4, {c, r}) /\ r \notin Live(m3) /\ r # c
       /\ m4.block[r] = BufferBlock
       /\ m4.block[c] = Repointed(m3.block[c], "RxQueue", r)
  BY <1>8, <1>11, <1>12, <1>13, <1>14, IntoBecomes
<1>16. m4.block[c] = ClientBlock(g, o, t, r)
  BY <1>10, <1>15, ClientBlockFacts
<1>17. /\ Heap(m4) /\ o # r /\ o \in Live(m4) /\ m4.block[o] = ObjectBlock(Null)
       /\ c \in Live(m4) /\ t \in Live(m4) /\ m4.block[t] = BufferBlock /\ r \in Live(m4)
  BY <1>5, <1>9, <1>11, <1>15 DEF Becomes
<1>18. k = SetPointer(m4, o, "Client", c)
  BY <1>2, <1>7, <1>13 DEF ClientCreate, ClientBlock
<1>19. "Client" \in DOMAIN m4.block[o].pointer
  BY <1>17, ObjectBlockFacts
<1>20. /\ Becomes(m4, {o}, k, {o}) /\ k.block[o] = Repointed(m4.block[o], "Client", c)
  <2>1. Heap(m4) /\ o \in Live(m4)
    BY <1>17
  <2>2. PICK e : e = SetPointer(m4, o, "Client", c)
    OBVIOUS
  <2>3. Becomes(m4, {o}, e, {o}) /\ e.block[o] = Repointed(m4.block[o], "Client", c)
    BY <1>19, <2>1, <2>2, PointerBecomes
  <2>4. QED
    BY <1>18, <2>2, <2>3
<1>21. k.block[o] = ObjectBlock(c)
  BY <1>17, <1>20, ObjectBlockFacts
<1>22. /\ o \in Live(k) /\ c \in Live(k) /\ t \in Live(k) /\ r \in Live(k) /\ Heap(k)
       /\ k.block[c] = ClientBlock(g, o, t, r)
       /\ k.block[t] = BufferBlock /\ k.block[r] = BufferBlock
  BY <1>5, <1>11, <1>15, <1>16, <1>17, <1>20 DEF Becomes
<1>23. BufferAt(k, t) /\ Owned(k, t) = {t}
  BY <1>22, BufferBlockBlank, BlankOwner DEF BufferAt
<1>24. BufferAt(k, r) /\ Owned(k, r) = {r}
  BY <1>22, BufferBlockBlank, BlankOwner DEF BufferAt
<1>25. t # r
  BY <1>11, <1>15
<1>26. ClientAt(k, g, o, c, t, r)
  BY <1>5, <1>9, <1>11, <1>15, <1>17, <1>21, <1>22, <1>23, <1>24, <1>25 DEF ClientAt
<1>27. Becomes(m, {}, k, {o, c, t, r})
  <2>1. Becomes(m, {}, m2, {o} \cup {c})
    BY <1>1, <1>4, BecomesMade
  <2>2. Becomes(m, {}, m3, {c, t} \cup (({o} \cup {c}) \ {c}))
    BY <1>9, <2>1, BecomesWithin
  <2>3. {c, t} \cup (({o} \cup {c}) \ {c}) = {o, c, t}
    BY <1>5
  <2>4. Becomes(m, {}, m3, {o, c, t})
    BY <2>2, <2>3
  <2>5. Becomes(m, {}, m4, {c, r} \cup ({o, c, t} \ {c}))
    BY <1>15, <2>4, BecomesWithin
  <2>6. {c, r} \cup ({o, c, t} \ {c}) = {o, c, t, r}
    OBVIOUS
  <2>7. Becomes(m, {}, m4, {o, c, t, r})
    BY <2>5, <2>6
  <2>8. Becomes(m, {}, k, {o} \cup ({o, c, t, r} \ {o}))
    BY <1>20, <2>7, BecomesWithin
  <2>9. {o} \cup ({o, c, t, r} \ {o}) = {o, c, t, r}
    OBVIOUS
  <2>10. QED
    BY <2>8, <2>9
<1>28. ClientFeet(k, o, c, t, r) = {o, c, t, r}
  BY <1>23, <1>24 DEF ClientFeet
<1>29. QED
  BY <1>26, <1>27, <1>28

\* One of the buffers becomes another one.
LEMMA ClientResized ==
  ASSUME NEW m, Heap(m), NEW g, NEW o, NEW c, NEW t, NEW r, ClientAt(m, g, o, c, t, r),
         NEW b \in {t, r}, NEW n \in Nat, NEW k, k = BufferSetMemorySize(m, b, n)
  PROVE  /\ ClientAt(k, g, o, c, t, r)
         /\ Becomes(m, ClientFeet(m, o, c, t, r), k, ClientFeet(k, o, c, t, r))
<1>1. BufferAt(m, t) /\ BufferAt(m, r) /\ o \in Live(m) /\ c \in Live(m)
  BY DEF ClientAt
<1>2. BufferAt(k, b) /\ Becomes(m, Owned(m, b), k, Owned(k, b))
  BY <1>1, BufferSized
<1>3. Owned(m, t) \subseteq Live(m) /\ Owned(m, r) \subseteq Live(m)
  BY <1>1, OwnedLive DEF BufferAt
<1>4. PICK d : d \in {t, r} /\ {t, r} = {b, d} /\ d # b
  <2>1. t # r
    BY <1>1, OwnedLive DEF ClientAt, BufferAt
  <2>2. QED
    BY <2>1
<1>5. \A x \in Owned(m, d) : x \notin Owned(m, b)
  BY <1>4 DEF ClientAt
<1>6. BufferAt(m, d)
  BY <1>1, <1>4
<1>7. BufferAt(k, d) /\ Owned(k, d) = Owned(m, d) /\ \A x \in Owned(k, d) : x \notin Owned(k, b)
  BY <1>2, <1>5, <1>6, BufferKept
<1>8. o \notin Owned(m, b) /\ c \notin Owned(m, b) /\ o \notin Owned(m, d) /\ c \notin Owned(m, d)
  BY <1>4 DEF ClientAt
<1>9. /\ o \in Live(k) /\ k.block[o] = m.block[o] /\ o \notin Owned(k, b)
      /\ c \in Live(k) /\ k.block[c] = m.block[c] /\ c \notin Owned(k, b)
  BY <1>1, <1>2, <1>8 DEF Becomes
<1>10. /\ BufferAt(k, t) /\ BufferAt(k, r) /\ o \notin Owned(k, t) /\ o \notin Owned(k, r)
       /\ c \notin Owned(k, t) /\ c \notin Owned(k, r)
       /\ \A x \in Owned(k, t) : x \notin Owned(k, r)
  <2>1. CASE b = t /\ d = r
    BY <1>2, <1>7, <1>8, <1>9, <2>1
  <2>2. CASE b = r /\ d = t
    BY <1>2, <1>7, <1>8, <1>9, <2>2
  <2>3. QED
    BY <1>4, <2>1, <2>2
<1>11. ClientAt(k, g, o, c, t, r)
  BY <1>9, <1>10 DEF ClientAt
<1>12. PICK V : V = ClientFeet(m, o, c, t, r) /\ V = {o, c} \cup Owned(m, b) \cup Owned(m, d)
  BY <1>4 DEF ClientFeet
<1>13. Becomes(m, V, k, Owned(k, b) \cup (V \ Owned(m, b)))
  <2>1. V \subseteq Live(m) /\ Owned(m, b) \subseteq V
    BY <1>1, <1>3, <1>4, <1>12
  <2>2. QED
    BY <1>2, <2>1, BecomesWider
<1>14. Owned(k, b) \cup (V \ Owned(m, b)) = {o, c} \cup Owned(k, b) \cup Owned(m, d)
  BY <1>5, <1>8, <1>12
<1>15. ClientFeet(k, o, c, t, r) = {o, c} \cup Owned(k, b) \cup Owned(m, d)
  BY <1>4, <1>7 DEF ClientFeet
<1>16. QED
  BY <1>11, <1>12, <1>13, <1>14, <1>15

\* It is destroyed with all of them, whatever memory the buffers got.
LEMMA ClientFreed ==
  ASSUME NEW m, Heap(m), NEW g, NEW o, NEW c, NEW t, NEW r, ClientAt(m, g, o, c, t, r),
         NEW k, k = FreeMemory(ClientDestroy(m, c), o)
  PROVE  Becomes(m, ClientFeet(m, o, c, t, r), k, {})
<1>1. PICK m1 : m1 = BufferDestroy(m, t)
  OBVIOUS
<1>2. PICK m2 : m2 = BufferDestroy(m1, r)
  OBVIOUS
<1>3. PICK m3 : m3 = FreeMemory(m2, c)
  OBVIOUS
<1>4. PointerIn(m, c, "TxQueue") = t /\ PointerIn(m, c, "RxQueue") = r
  BY ClientBlockFacts DEF ClientAt, PointerIn
<1>5. k = FreeMemory(m3, o)
  BY <1>1, <1>2, <1>3, <1>4 DEF ClientDestroy
<1>6. BufferAt(m, t) /\ BufferAt(m, r) /\ \A x \in Owned(m, r) : x \notin Owned(m, t)
  BY DEF ClientAt
<1>7. Becomes(m, Owned(m, t), m1, {})
  BY <1>1, <1>6, BufferFreed
<1>8. BufferAt(m1, r) /\ Owned(m1, r) = Owned(m, r) /\ Heap(m1)
  <2>1. Heap(m1)
    BY <1>7 DEF Becomes
  <2>2. QED
    BY <1>6, <1>7, <2>1, BufferKept
<1>9. Becomes(m1, Owned(m, r), m2, {})
  BY <1>2, <1>8, BufferFreed
<1>10. Becomes(m, Owned(m, t) \cup Owned(m, r), m2, {})
  BY <1>7, <1>9, BecomesFreed
<1>11. /\ o \in Live(m2) /\ c \in Live(m2) /\ Heap(m2) /\ o # c
  BY <1>10 DEF Becomes, ClientAt
<1>12. Becomes(m2, {c}, m3, {})
  BY <1>3, <1>11, FreedBecomes
<1>13. o \in Live(m3) /\ Heap(m3)
  BY <1>11, <1>12 DEF Becomes
<1>14. Becomes(m3, {o}, k, {})
  BY <1>5, <1>13, FreedBecomes
<1>15. Becomes(m, (Owned(m, t) \cup Owned(m, r)) \cup {c}, m3, {})
  BY <1>10, <1>12, BecomesFreed
<1>16. Becomes(m, ((Owned(m, t) \cup Owned(m, r)) \cup {c}) \cup {o}, k, {})
  BY <1>14, <1>15, BecomesFreed
<1>17. ClientFeet(m, o, c, t, r) = ((Owned(m, t) \cup Owned(m, r)) \cup {c}) \cup {o}
  BY DEF ClientFeet
<1>18. QED
  BY <1>16, <1>17

-----------------------------------------------------------------------------
(* Messages, batches and metadata.                                         *)

\* Messages and batches: the fields with data of their own are in the value.
FilledAt(m, a) == Keeps(m, a, m.block[a].value)

\* A message or batch is made, with the data that is copied.
LEMMA FilledMade ==
  ASSUME NEW m, Heap(m), NEW b, NEW fields, Fit(b, fields), b.value = fields,
         NEW a, a = NewAddress(m),
         NEW k, k = AllocateEach(AllocateMemory(m, b), a, fields)
  PROVE  FilledAt(k, a) /\ Becomes(m, {}, k, Owned(k, a))
<1>1. PICK m1 : m1 = AllocateMemory(m, b)
  OBVIOUS
<1>2. Becomes(m, {}, m1, {a}) /\ m1.block[a] = b /\ a \in Live(m1)
  BY <1>1, AllocatedBecomes DEF Blank, Fit
<1>3. Heap(m1)
  BY <1>2 DEF Becomes
<1>4. PICK k1 : k1 = AllocateEach(m1, a, fields)
  OBVIOUS
<1>5. k = k1
  BY <1>1, <1>4
<1>6. /\ Keeps(k1, a, fields) /\ Becomes(m1, {a}, k1, Owned(k1, a))
      /\ Fields(k1, a) = DOMAIN b.pointer /\ k1.block[a].value = b.value
  BY <1>2, <1>3, <1>4, KeepsMade
<1>7. Becomes(m, {}, k1, Owned(k1, a))
  BY <1>2, <1>6, BecomesTrans
<1>8. QED
  BY <1>5, <1>6, <1>7 DEF FilledAt

LEMMA FilledKept ==
  ASSUME NEW m, NEW S, NEW k, NEW T, Becomes(m, S, k, T),
         NEW a, FilledAt(m, a), \A c \in Owned(m, a) : c \notin S
  PROVE  FilledAt(k, a) /\ Owned(k, a) = Owned(m, a)
<1>1. PICK fields : fields = m.block[a].value
  OBVIOUS
<1>2. Keeps(m, a, fields)
  BY <1>1 DEF FilledAt
<1>3. Keeps(k, a, fields) /\ Owned(k, a) = Owned(m, a) /\ k.block[a] = m.block[a]
  BY <1>2, KeepsKept
<1>4. QED
  BY <1>1, <1>3 DEF FilledAt

LEMMA SomeFacts ==
  ASSUME NEW n \in Nat, NEW s \in Some(n)
  PROVE  s \in Seq(1..n) /\ Distinct(s)
<1>1. s \in SeqOf(1..n, n) /\ \A i, j \in DOMAIN s : i < j => s[i] < s[j]
  BY DEF Some
<1>2. PICK c \in 0..n : s \in [1..c -> 1..n]
  BY <1>1, Zenon DEF SeqOf
<1>3. s \in Seq(1..n)
  BY <1>2
<1>4. ASSUME NEW i \in DOMAIN s, NEW j \in DOMAIN s, s[i] = s[j] PROVE i = j
  <2>1. i \in 1..c /\ j \in 1..c /\ s[i] \in 1..n /\ s[j] \in 1..n
    BY <1>2
  <2>2. ~(i < j) /\ ~(j < i)
    BY <1>1, <1>4, <2>1
  <2>3. QED
    BY <2>1, <2>2
<1>5. QED
  BY <1>3, <1>4 DEF Distinct

MetadataBlock(b, s) == Block(1, [BrokerMetadataList |-> b, StreamMetadataList |-> s], 0)

LEMMA MetadataBlockFacts ==
  ASSUME NEW b, NEW s
  PROVE  /\ IsBlock(MetadataBlock(b, s))
         /\ MetadataBlock(b, s).pointer["BrokerMetadataList"] = b
         /\ MetadataBlock(b, s).pointer["StreamMetadataList"] = s
         /\ DOMAIN MetadataBlock(b, s).pointer = {"BrokerMetadataList", "StreamMetadataList"}
         /\ \A x : Repointed(MetadataBlock(b, s), "BrokerMetadataList", x) = MetadataBlock(x, s)
         /\ \A x : Repointed(MetadataBlock(b, s), "StreamMetadataList", x) = MetadataBlock(b, x)
         /\ MetadataBlock(b, s).pointer = NoMetadata => b = Null /\ s = Null
BY DEF IsBlock, MetadataBlock, Block, Repointed, NoMetadata

Its(m, x) == IF x = Null THEN {} ELSE Owned(m, x)

StreamsAt(m, s) == Owner(m, s) /\ \E n \in Nat : Fields(m, s) = 1..n

MetadataAt(m, a, b, s) ==
    /\ a \in Live(m) /\ m.block[a] = MetadataBlock(b, s)
    /\ b # Null => b \in Live(m) /\ b # a /\ m.block[b].pointer = NoPointers
    /\ s # Null => StreamsAt(m, s) /\ a \notin Owned(m, s) /\ b \notin Owned(m, s)

MetadataFeet(m, a, b, s) == {a} \cup ({b} \ {Null}) \cup Its(m, s)

LEMMA MetadataKept ==
  ASSUME NEW m, NEW S, NEW k, NEW T, Becomes(m, S, k, T),
         NEW a, NEW b, NEW s, MetadataAt(m, a, b, s),
         \A x \in MetadataFeet(m, a, b, s) : x \notin S
  PROVE  MetadataAt(k, a, b, s) /\ MetadataFeet(k, a, b, s) = MetadataFeet(m, a, b, s)
<1>1. /\ a \notin S
      /\ b # Null => b \notin S
      /\ s # Null => \A x \in Owned(m, s) : x \notin S
  BY DEF MetadataFeet, Its
<1>2. a \in Live(k) /\ k.block[a] = m.block[a]
  BY <1>1 DEF Becomes, MetadataAt
<1>3. b # Null => b \in Live(k) /\ k.block[b] = m.block[b]
  BY <1>1 DEF Becomes, MetadataAt
<1>4. ASSUME s # Null PROVE StreamsAt(k, s) /\ Owned(k, s) = Owned(m, s)
  <2>1. Owner(m, s)
    BY <1>4 DEF MetadataAt, StreamsAt
  <2>2. Owner(k, s) /\ Owned(k, s) = Owned(m, s) /\ k.block[s] = m.block[s]
    BY <1>1, <1>4, <2>1, OwnerKept
  <2>3. QED
    BY <1>4, <2>2 DEF MetadataAt, StreamsAt, Fields
<1>5. QED
  BY <1>2, <1>3, <1>4 DEF MetadataAt, MetadataFeet, Its

\* rmqsMetadataCreate.
LEMMA MetadataMade ==
  ASSUME NEW m, Heap(m), NEW a, a = NewAddress(m),
         NEW k, k = AllocateMemory(m, MetadataBlock(Null, Null))
  PROVE  /\ MetadataAt(k, a, Null, Null)
         /\ Becomes(m, {}, k, MetadataFeet(k, a, Null, Null))
<1>1. /\ Becomes(m, {}, k, {a}) /\ k.block[a] = MetadataBlock(Null, Null) /\ a \in Live(k)
  BY MetadataBlockFacts, AllocatedBecomes
<1>2. MetadataFeet(k, a, Null, Null) = {a}
  BY DEF MetadataFeet, Its
<1>3. QED
  BY <1>1, <1>2 DEF MetadataAt

\* rmqsMetadata allocates the list of brokers, if the answer has any.
LEMMA BrokersListed ==
  ASSUME NEW m, Heap(m), NEW a, MetadataAt(m, a, Null, Null), NEW brokers,
         NEW k, k = IF brokers THEN AllocateInto(m, a, "BrokerMetadataList", Plain) ELSE m
  PROVE  \E b : /\ MetadataAt(k, a, b, Null)
                /\ Becomes(m, {a}, k, MetadataFeet(k, a, b, Null))
<1>1. a \in Live(m) /\ m.block[a] = MetadataBlock(Null, Null)
  BY DEF MetadataAt
<1>2. CASE brokers
  <2>1. PICK x : x = NewAddress(m)
    OBVIOUS
  <2>2. "BrokerMetadataList" \in Fields(m, a)
    BY <1>1, MetadataBlockFacts DEF Fields
  <2>3. k = AllocateInto(m, a, "BrokerMetadataList", Plain)
    BY <1>2
  <2>4. PICK j : j = AllocateInto(m, a, "BrokerMetadataList", Plain)
    OBVIOUS
  <2>5. /\ Becomes(m, {a}, j, {a, x}) /\ x \in Address /\ x # a
        /\ j.block[x] = Plain /\ j.block[a] = Repointed(m.block[a], "BrokerMetadataList", x)
    BY <1>1, <2>1, <2>2, <2>4, PlainBlock, IntoBecomes
  <2>6. j.block[a] = MetadataBlock(x, Null)
    BY <1>1, <2>5, MetadataBlockFacts
  <2>7. a \in Live(j) /\ x \in Live(j) /\ x # Null
    BY <2>5 DEF Becomes, Address, Null
  <2>8. MetadataAt(j, a, x, Null)
    BY <2>5, <2>6, <2>7, PlainBlock DEF MetadataAt
  <2>9. MetadataFeet(j, a, x, Null) = {a, x}
    BY <2>7 DEF MetadataFeet, Its
  <2>10. QED
    BY <2>3, <2>4, <2>5, <2>8, <2>9
<1>3. CASE ~brokers
  <2>1. k = m
    BY <1>3
  <2>2. Becomes(m, {a}, m, {a})
    BY <1>1, BecomesSame
  <2>3. MetadataFeet(m, a, Null, Null) = {a}
    BY DEF MetadataFeet, Its
  <2>4. QED
    BY <2>1, <2>2, <2>3
<1>4. QED
  BY <1>2, <1>3

StreamsBlock(n) == Block(1, [k \in 1..n |-> Null], 0)

\* rmqsMetadata allocates the streams, and replicas for some of them.
LEMMA StreamsListed ==
  ASSUME NEW m, Heap(m), NEW a, NEW b, MetadataAt(m, a, b, Null), NEW n \in Nat,
         NEW fields \in Some(n), NEW s, s = NewAddress(m), NEW k,
         k = AllocateEach(AllocateInto(m, a, "StreamMetadataList", StreamsBlock(n)), s, fields)
  PROVE  /\ MetadataAt(k, a, b, s)
         /\ Becomes(m, MetadataFeet(m, a, b, Null), k, MetadataFeet(k, a, b, s))
<1>1. a \in Live(m) /\ m.block[a] = MetadataBlock(b, Null)
  BY DEF MetadataAt
<1>2. "StreamMetadataList" \in Fields(m, a)
  BY <1>1, MetadataBlockFacts DEF Fields
<1>3. PICK p : p = StreamsBlock(n)
  OBVIOUS
<1>4. Blank(p) /\ DOMAIN p.pointer = 1..n
  BY <1>3 DEF Blank, IsBlock, StreamsBlock, Block
<1>5. PICK j : j = AllocateInto(m, a, "StreamMetadataList", p)
  OBVIOUS
<1>6. IsBlock(p)
  BY <1>4 DEF Blank
<1>7. /\ Becomes(m, {a}, j, {a, s}) /\ s \in Address /\ s \notin Live(m) /\ s # a
      /\ j.block[s] = p /\ j.block[a] = Repointed(m.block[a], "StreamMetadataList", s)
  BY <1>1, <1>2, <1>5, <1>6, IntoBecomes
<1>8. j.block[a] = MetadataBlock(b, s)
  BY <1>1, <1>7, MetadataBlockFacts
<1>9. a \in Live(j) /\ s \in Live(j) /\ Heap(j) /\ s # Null
  BY <1>7 DEF Becomes, Address, Null
<1>10. b # Null => /\ b \in Live(j) /\ b # a /\ b # s
                   /\ j.block[b].pointer = NoPointers
  BY <1>7 DEF MetadataAt, Becomes
<1>11. Fit(p, fields)
  BY <1>4, SomeFacts DEF Fit
<1>12. PICK i : i = AllocateEach(j, s, fields)
  OBVIOUS
<1>13. k = i
  BY <1>3, <1>5, <1>12
<1>14. /\ Keeps(i, s, fields) /\ Becomes(j, {s}, i, Owned(i, s))
       /\ Fields(i, s) = DOMAIN p.pointer
  BY <1>7, <1>9, <1>11, <1>12, KeepsMade
<1>15. StreamsAt(i, s)
  BY <1>4, <1>14 DEF StreamsAt, Keeps
<1>16. a \in Live(i) /\ i.block[a] = j.block[a] /\ a \notin Owned(i, s)
  BY <1>7, <1>9, <1>14 DEF Becomes
<1>17. b # Null => b \in Live(i) /\ i.block[b] = j.block[b] /\ b \notin Owned(i, s)
  BY <1>10, <1>14 DEF Becomes
<1>18. b \notin Owned(i, s)
  <2>1. Heap(i) /\ Owned(i, s) \subseteq Live(i)
    BY <1>14, <1>15, OwnedLive DEF Becomes, StreamsAt
  <2>2. Null \notin Live(i)
    BY <2>1 DEF Heap, Blocks, Null
  <2>3. QED
    BY <1>17, <2>1, <2>2
<1>19. MetadataAt(i, a, b, s)
  BY <1>8, <1>10, <1>15, <1>16, <1>17, <1>18 DEF MetadataAt
<1>20. PICK B : B = {b} \ {Null}
  OBVIOUS
<1>21. MetadataFeet(m, a, b, Null) = {a} \cup B
  BY <1>20 DEF MetadataFeet, Its
<1>22. MetadataFeet(i, a, b, s) = {a} \cup B \cup Owned(i, s)
  BY <1>9, <1>20 DEF MetadataFeet, Its
<1>23. B \subseteq Live(m) /\ a \notin B /\ s \notin B
  BY <1>7, <1>20 DEF MetadataAt
<1>24. Becomes(m, {a} \cup B, j, {a, s} \cup (({a} \cup B) \ {a}))
  <2>1. {a} \subseteq {a} \cup B /\ {a} \cup B \subseteq Live(m)
    BY <1>1, <1>23
  <2>2. QED
    BY <1>7, <2>1, BecomesWider
<1>25. {a, s} \cup (({a} \cup B) \ {a}) = {a, s} \cup B
  OBVIOUS
<1>26. Becomes(m, {a} \cup B, j, {a, s} \cup B)
  BY <1>24, <1>25
<1>27. Becomes(m, {a} \cup B, i, Owned(i, s) \cup (({a, s} \cup B) \ {s}))
  BY <1>14, <1>26, BecomesWithin
<1>28. s \in Owned(i, s)
  BY DEF Owned
<1>29. Owned(i, s) \cup (({a, s} \cup B) \ {s}) = {a} \cup B \cup Owned(i, s)
  BY <1>7, <1>23, <1>28
<1>30. QED
  BY <1>13, <1>19, <1>21, <1>22, <1>27, <1>29

\* Streams are freed with the replicas of those that have them.
LEMMA StreamsAreFreed ==
  ASSUME NEW m, Heap(m), NEW s, StreamsAt(m, s),
         NEW k, k = FreeWith(m, s, [i \in DOMAIN m.block[s].pointer |-> i])
  PROVE  Becomes(m, Owned(m, s), k, {})
<1>1. PICK n \in Nat : Fields(m, s) = 1..n
  BY DEF StreamsAt
<1>2. PICK fields : fields = [i \in 1..n |-> i]
  OBVIOUS
<1>3. fields \in Seq(1..n) /\ DOMAIN fields = 1..n /\ \A i \in 1..n : fields[i] = i
  BY <1>2
<1>4. Distinct(fields)
  BY <1>3 DEF Distinct
<1>5. Keeps(m, s, fields)
  BY <1>1, <1>3, <1>4 DEF Keeps, StreamsAt
<1>6. k = FreeWith(m, s, fields)
  BY <1>1, <1>2 DEF Fields
<1>7. QED
  BY <1>5, <1>6, KeepsFreed

\* rmqsMetadataDestroy, whatever rmqsMetadata has allocated.
LEMMA MetadataFreed ==
  ASSUME NEW m, Heap(m), NEW a, NEW b, NEW s, MetadataAt(m, a, b, s),
         NEW k, k = FreeMemory(StreamsFreed(FreeIfAny(m, PointerIn(m, a, "BrokerMetadataList")), a), a)
  PROVE  Becomes(m, MetadataFeet(m, a, b, s), k, {})
<1>1. PICK m1 : m1 = FreeIfAny(m, b)
  OBVIOUS
<1>2. PICK m2 : m2 = StreamsFreed(m1, a)
  OBVIOUS
<1>3. PointerIn(m, a, "BrokerMetadataList") = b
  BY MetadataBlockFacts DEF MetadataAt, PointerIn
<1>4. k = FreeMemory(m2, a)
  BY <1>1, <1>2, <1>3
<1>5. Becomes(m, {b} \ {Null}, m1, {})
  <2>1. CASE b = Null
    <3>1. Becomes(m, {}, m, {})
      BY BecomesSame
    <3>2. m1 = m /\ {b} \ {Null} = {}
      BY <1>1, <2>1 DEF FreeIfAny
    <3>3. QED
      BY <3>1, <3>2
  <2>2. CASE b # Null
    <3>1. m1 = FreeMemory(m, b) /\ {b} \ {Null} = {b} /\ b \in Live(m)
      BY <1>1, <2>2 DEF FreeIfAny, MetadataAt
    <3>2. Becomes(m, {b}, m1, {})
      BY <3>1, FreedBecomes
    <3>3. QED
      BY <3>1, <3>2
  <2>3. QED
    BY <2>1, <2>2
<1>6. a \in Live(m1) /\ m1.block[a] = MetadataBlock(b, s) /\ Heap(m1)
  BY <1>5 DEF Becomes, MetadataAt
<1>7. PointerIn(m1, a, "StreamMetadataList") = s
  BY <1>6, MetadataBlockFacts DEF PointerIn
<1>8. Becomes(m1, Its(m, s), m2, {})
  <2>1. CASE s = Null
    <3>1. Becomes(m1, {}, m1, {})
      BY <1>6, BecomesSame
    <3>2. m2 = m1 /\ Its(m, s) = {}
      BY <1>2, <1>7, <2>1 DEF StreamsFreed, Its
    <3>3. QED
      BY <3>1, <3>2
  <2>2. CASE s # Null
    <3>1. m2 = FreeWith(m1, s, [i \in DOMAIN m1.block[s].pointer |-> i])
      BY <1>2, <1>7, <2>2 DEF StreamsFreed
    <3>2. StreamsAt(m, s) /\ \A x \in Owned(m, s) : x \notin {b} \ {Null}
      BY <2>2 DEF MetadataAt
    <3>3. Owner(m1, s) /\ Owned(m1, s) = Owned(m, s) /\ m1.block[s] = m.block[s]
      BY <1>5, <3>2, OwnerKept DEF StreamsAt
    <3>4. StreamsAt(m1, s)
      BY <3>2, <3>3 DEF StreamsAt, Fields
    <3>5. Becomes(m1, Owned(m1, s), m2, {})
      BY <1>6, <3>1, <3>4, StreamsAreFreed
    <3>6. QED
      BY <2>2, <3>3, <3>5 DEF Its
  <2>3. QED
    BY <2>1, <2>2
<1>9. a \in Live(m2) /\ Heap(m2)
  <2>1. a \notin Its(m, s)
    BY DEF MetadataAt, Its
  <2>2. QED
    BY <1>6, <1>8, <2>1 DEF Becomes
<1>10. Becomes(m2, {a}, k, {})
  BY <1>4, <1>9, FreedBecomes
<1>11. Becomes(m, ({b} \ {Null}) \cup Its(m, s), m2, {})
  BY <1>5, <1>8, BecomesFreed
<1>12. Becomes(m, (({b} \ {Null}) \cup Its(m, s)) \cup {a}, k, {})
  BY <1>10, <1>11, BecomesFreed
<1>13. MetadataFeet(m, a, b, s) = (({b} \ {Null}) \cup Its(m, s)) \cup {a}
  BY DEF MetadataFeet
<1>14. QED
  BY <1>12, <1>13

-----------------------------------------------------------------------------
(* Lists that grow with new items.                                         *)

\* rmqsListCreate: a list of nothing.
LEMMA ListMade ==
  ASSUME NEW m, Heap(m), NEW l, l = NewAddress(m), NEW k, k = ListCreate(m)
  PROVE  ListAt(k, l, << >>, << >>) /\ Becomes(m, {}, k, Feet(l, << >>, << >>))
<1>1. PICK b : b = HeadBlock(Null, 0)
  OBVIOUS
<1>2. k = AllocateMemory(m, b) /\ IsBlock(b)
  BY <1>1, HeadBlockFacts DEF ListCreate, HeadBlock
<1>3. /\ Becomes(m, {}, k, {l}) /\ k.block[l] = b /\ l \in Nat \ {0} /\ l \in Live(k)
  BY <1>2, AllocatedBecomes
<1>4. ListAt(k, l, << >>, << >>)
  BY <1>1, <1>3 DEF ListAt, Apart, At
<1>5. Feet(l, << >>, << >>) = {l}
  BY DEF Feet, ToSet
<1>6. QED
  BY <1>3, <1>4, <1>5

\* A block is allocated and put behind node i.
LEMMA ItemMade ==
  ASSUME NEW m, Heap(m), NEW l, NEW ns, NEW ds, ListAt(m, l, ns, ds),
         NEW b, IsBlock(b), b.pointer = NoPointers, NEW d, d = NewAddress(m),
         NEW m1, m1 = AllocateMemory(m, b), NEW i \in 0..Len(ds), NEW k, k = AddNode(m1, l, i, d)
  PROVE  \E ns2 : LET ds2 == InsertAt(ds, i + 1, d)
                  IN  /\ ListAt(k, l, ns2, ds2)
                      /\ Becomes(m, Feet(l, ns, ds), k, Feet(l, ns2, ds2))
<1>1. /\ Becomes(m, {}, m1, {d}) /\ m1.block[d] = b /\ d \notin Live(m) /\ d \in Live(m1)
  BY AllocatedBecomes
<1>2. ListAt(m1, l, ns, ds)
  BY <1>1, ListKept
<1>3. Heap(m1) /\ Feet(l, ns, ds) \subseteq Live(m)
  BY <1>1, ListTypes DEF Becomes
<1>4. d \notin Feet(l, ns, ds) /\ m1.block[d].pointer = NoPointers
  BY <1>1, <1>3
<1>5. \E ns2 : LET ds2 == InsertAt(ds, i + 1, d)
               IN  /\ ListAt(k, l, ns2, ds2)
                   /\ Becomes(m1, Feet(l, ns, ds) \cup {d}, k, Feet(l, ns2, ds2))
  BY <1>1, <1>2, <1>3, <1>4, AddedItem
<1>6. PICK ds2 : ds2 = InsertAt(ds, i + 1, d)
  OBVIOUS
<1>7. PICK ns2 : /\ ListAt(k, l, ns2, ds2)
                 /\ Becomes(m1, Feet(l, ns, ds) \cup {d}, k, Feet(l, ns2, ds2))
  BY <1>5, <1>6
<1>8. PICK F, G : F = Feet(l, ns, ds) /\ G = Feet(l, ns2, ds2)
  OBVIOUS
<1>9. Becomes(m1, F \cup {d}, k, G)
  BY <1>7, <1>8
<1>10. Becomes(m, {} \cup ((F \cup {d}) \ {d}), k, G \cup ({d} \ (F \cup {d})))
  BY <1>1, <1>9, BecomesThen
<1>11. {} \cup ((F \cup {d}) \ {d}) = F /\ G \cup ({d} \ (F \cup {d})) = G
  BY <1>4, <1>8
<1>12. Becomes(m, Feet(l, ns, ds), k, Feet(l, ns2, ds2))
  BY <1>8, <1>10, <1>11
<1>13. QED
  BY <1>6, <1>7, <1>12

\* The list at l is another one, and nothing else has changed.
Changed(m, k, l, ns, ds) ==
    \E ns2, ds2 : /\ ListAt(k, l, ns2, ds2)
                  /\ Becomes(m, Feet(l, ns, ds), k, Feet(l, ns2, ds2))

LEMMA NothingChanged ==
  ASSUME NEW m, Heap(m), NEW l, NEW ns, NEW ds, ListAt(m, l, ns, ds)
  PROVE  Changed(m, m, l, ns, ds)
<1>1. Becomes(m, Feet(l, ns, ds), m, Feet(l, ns, ds))
  BY ListTypes, BecomesSame
<1>2. QED
  BY <1>1 DEF Changed

\* A new block is added at the end of a list.
LEMMA ItemAtEnd ==
  ASSUME NEW m, Heap(m), NEW l, NEW ns, NEW ds, ListAt(m, l, ns, ds),
         NEW b, IsBlock(b), b.pointer = NoPointers,
         NEW k, k = ListAddEnd(AllocateMemory(m, b), l, NewAddress(m))
  PROVE  Changed(m, k, l, ns, ds)
<1>1. PICK d : d = NewAddress(m)
  OBVIOUS
<1>2. PICK m1 : m1 = AllocateMemory(m, b)
  OBVIOUS
<1>3. Becomes(m, {}, m1, {d})
  BY <1>1, <1>2, AllocatedBecomes
<1>12. ListAt(m1, l, ns, ds)
  BY <1>3, ListKept
<1>4. ListAt(m1, l, ns, ds) /\ Heap(m1)
  BY <1>3, <1>12 DEF Becomes
<1>5. Nodes(m1, l) = ns
  BY <1>4, NodesOfList
<1>6. PICK i : i = Len(ns)
  OBVIOUS
<1>7. i \in 0..Len(ds)
  BY <1>6, ListTypes
<1>8. k = AddNode(m1, l, i, d)
  BY <1>1, <1>2, <1>5, <1>6 DEF ListAddEnd
<1>9. PICK k1 : k1 = AddNode(m1, l, i, d)
  OBVIOUS
<1>10. \E ns2 : LET ds2 == InsertAt(ds, i + 1, d)
                IN  /\ ListAt(k1, l, ns2, ds2)
                    /\ Becomes(m, Feet(l, ns, ds), k1, Feet(l, ns2, ds2))
  BY <1>1, <1>2, <1>7, <1>9, ItemMade
<1>11. QED
  BY <1>8, <1>9, <1>10 DEF Changed

LEMMA ChangedTrans ==
  ASSUME NEW m, NEW l, NEW ns, NEW ds, NEW j, NEW k, NEW ns1, NEW ds1,
         Becomes(m, Feet(l, ns, ds), j, Feet(l, ns1, ds1)), Changed(j, k, l, ns1, ds1)
  PROVE  Changed(m, k, l, ns, ds)
<1>1. PICK ns2, ds2 : /\ ListAt(k, l, ns2, ds2)
                      /\ Becomes(j, Feet(l, ns1, ds1), k, Feet(l, ns2, ds2))
  BY DEF Changed
<1>2. Becomes(m, Feet(l, ns, ds), k, Feet(l, ns2, ds2))
  BY <1>1, BecomesTrans
<1>3. QED
  BY <1>1, <1>2 DEF Changed

AllListed(f, m, l, parts, c) ==
    f = [n \in 0..c |->
           IF n = 0 THEN m
           ELSE ListAddEnd(AllocateMemory(f[n - 1], Block(1, NoPointers, parts[n])), l,
                           NewAddress(f[n - 1]))]

\* The loop over the parts of the string, turn by turn.
LEMMA AllListedExists ==
  ASSUME NEW m, NEW l, NEW parts, NEW last \in Nat
  PROVE  \E f : AllListed(f, m, l, parts, last)
<1> DEFINE S == {c \in Nat : \E f : AllListed(f, m, l, parts, c)}
<1>1. 0 \in S
  <2> DEFINE f == [n \in 0..0 |-> m]
  <2>1. f = [n \in 0..0 |-> IF n = 0
                            THEN m
                            ELSE ListAddEnd(AllocateMemory(f[n - 1], Block(1, NoPointers, parts[n])), l, NewAddress(f[n - 1]))]
    OBVIOUS
  <2>2. AllListed(f, m, l, parts, 0)
    BY <2>1, Zenon DEF AllListed
  <2>3. QED
    BY <2>2
<1>2. ASSUME NEW c \in Nat, c \in S PROVE c + 1 \in S
  <2>1. PICK f : AllListed(f, m, l, parts, c)
    BY <1>2
  <2> DEFINE g == [n \in 0..(c + 1) |-> IF n = c + 1
                                        THEN ListAddEnd(AllocateMemory(f[c], Block(1, NoPointers, parts[n])), l, NewAddress(f[c]))
                                        ELSE f[n]]
             h == [n \in 0..(c + 1) |-> IF n = 0
                                        THEN m
                                        ELSE ListAddEnd(AllocateMemory(g[n - 1], Block(1, NoPointers, parts[n])), l, NewAddress(g[n - 1]))]
  <2>2. ASSUME NEW n \in 0..(c + 1) PROVE g[n] = h[n]
    <3>1. CASE n = c + 1
      <4>1. n # 0 /\ n - 1 = c /\ n - 1 \in 0..(c + 1) /\ c # c + 1
        BY <3>1
      <4>2. /\ g[n] = ListAddEnd(AllocateMemory(f[c], Block(1, NoPointers, parts[n])), l, NewAddress(f[c]))
            /\ g[n - 1] = f[c]
        BY <3>1, <4>1
      <4>3. h[n] =
            ListAddEnd(AllocateMemory(g[n - 1], Block(1, NoPointers, parts[n])), l, NewAddress(g[n - 1]))
        BY <4>1
      <4>4. QED
        BY <4>2, <4>3
    <3>2. CASE n # c + 1
      <4>1. n \in 0..c /\ g[n] = f[n]
        BY <3>2
      <4>2. f[n] = IF n = 0
                   THEN m
                   ELSE ListAddEnd(AllocateMemory(f[n - 1], Block(1, NoPointers, parts[n])), l, NewAddress(f[n - 1]))
        BY <2>1, <4>1 DEF AllListed
      <4>3. n # 0 => n - 1 \in 0..(c + 1) /\ n - 1 # c + 1
        BY <4>1
      <4>4. n # 0 => g[n - 1] = f[n - 1]
        BY <4>3
      <4>5. QED
        BY <4>1, <4>2, <4>4
    <3>3. QED
      BY <3>1, <3>2
  <2>3. g = h
    BY <2>2
  <2>4. AllListed(g, m, l, parts, c + 1)
    BY <2>3, Zenon DEF AllListed
  <2>5. QED
    BY <2>4
<1> HIDE DEF S
<1>3. last \in S
  BY <1>1, <1>2, NatSetInduction
<1>4. QED
  BY <1>3 DEF S

\* After it the list of strings is a list, and nothing else has changed.
LEMMA StringsListed ==
  ASSUME NEW m, Heap(m), NEW l, NEW ns, NEW ds, ListAt(m, l, ns, ds),
         NEW parts, Len(parts) \in Nat, NEW k, k = ListStrings(m, l, parts)
  PROVE  Changed(m, k, l, ns, ds)
<1>1. PICK c \in Nat : c = Len(parts)
  OBVIOUS
<1> DEFINE listed == CHOOSE f : f = [n \in 0..Len(parts) |->
             IF n = 0 THEN m
             ELSE ListAddEnd(AllocateMemory(f[n - 1], Block(1, NoPointers, parts[n])), l,
                             NewAddress(f[n - 1]))]
<1>2. k = listed[c]
  BY <1>1, Zenon DEF ListStrings
<1>3. AllListed(listed, m, l, parts, c)
  <2>1. \E f : f = [n \in 0..Len(parts) |->
             IF n = 0 THEN m
             ELSE ListAddEnd(AllocateMemory(f[n - 1], Block(1, NoPointers, parts[n])), l,
                             NewAddress(f[n - 1]))]
    <3>1. \E f : AllListed(f, m, l, parts, c)
      BY AllListedExists
    <3>2. QED
      BY <1>1, <3>1, Zenon DEF AllListed
  <2>2. QED
    BY <1>1, <2>1, Zenon DEF AllListed
<1> HIDE DEF listed
<1> DEFINE S == {n \in Nat : n <= c => Changed(m, listed[n], l, ns, ds)}
<1>4. 0 \in S
  <2>1. listed[0] = m
    BY <1>3 DEF AllListed
  <2>2. QED
    BY <2>1, NothingChanged
<1>5. ASSUME NEW n \in Nat, n \in S PROVE n + 1 \in S
  <2>1. SUFFICES ASSUME n + 1 <= c PROVE Changed(m, listed[n + 1], l, ns, ds)
    OBVIOUS
  <2>2. PICK j : j = listed[n]
    OBVIOUS
  <2>3. Changed(m, j, l, ns, ds)
    BY <1>5, <2>1, <2>2
  <2>4. PICK b : b = Block(1, NoPointers, parts[n + 1])
    OBVIOUS
  <2>5. n + 1 \in 0..c /\ n + 1 # 0 /\ (n + 1) - 1 = n
    BY <2>1
  <2>6. PICK k1 : k1 = listed[n + 1]
    OBVIOUS
  <2>7. k1 = ListAddEnd(AllocateMemory(j, b), l, NewAddress(j))
    BY <1>3, <2>2, <2>4, <2>5, <2>6 DEF AllListed
  <2>8. IsBlock(b) /\ b.pointer = NoPointers
    BY <2>4 DEF IsBlock, Block, NoPointers
  <2>9. PICK ns1, ds1 : /\ ListAt(j, l, ns1, ds1)
                        /\ Becomes(m, Feet(l, ns, ds), j, Feet(l, ns1, ds1))
    BY <2>3 DEF Changed
  <2>10. Heap(j)
    BY <2>9 DEF Becomes
  <2>11. Changed(j, k1, l, ns1, ds1)
    BY <2>7, <2>8, <2>9, <2>10, ItemAtEnd
  <2>12. Changed(m, k1, l, ns, ds)
    BY <2>9, <2>11, ChangedTrans
  <2>13. QED
    BY <2>6, <2>12
<1> HIDE DEF S
<1>6. c \in S
  BY <1>4, <1>5, NatSetInduction
<1>7. Changed(m, listed[c], l, ns, ds)
  BY <1>6 DEF S
<1>8. QED
  BY <1>2, <1>7

\* A broker is parsed: listed, or freed again; the list is a list either way.
LEMMA BrokerParsed ==
  ASSUME NEW m, Heap(m), NEW l, NEW ns, NEW ds, ListAt(m, l, ns, ds), NEW string,
         NEW k, k = ParseInto(m, l, string)
  PROVE  Changed(m, k, l, ns, ds)
<1>1. PICK d : d = NewAddress(m)
  OBVIOUS
<1>2. PICK b : b = Block(1, NoPointers, BrokerParse(string).broker)
  OBVIOUS
<1>3. PICK m1 : m1 = AllocateMemory(m, b)
  OBVIOUS
<1>4. IsBlock(b) /\ b.pointer = NoPointers
  BY <1>2 DEF IsBlock, Block, NoPointers
<1>5. k = IF BrokerParse(string).ok THEN ListAddEnd(m1, l, d) ELSE FreeMemory(m1, d)
  BY <1>1, <1>2, <1>3 DEF ParseInto
<1>6. CASE BrokerParse(string).ok
  <2>1. k = ListAddEnd(AllocateMemory(m, b), l, NewAddress(m))
    BY <1>1, <1>3, <1>5, <1>6
  <2>2. QED
    BY <1>4, <2>1, ItemAtEnd
<1>7. CASE ~BrokerParse(string).ok
  <2>1. k = FreeMemory(m1, d)
    BY <1>5, <1>7
  <2>2. Becomes(m, {}, m1, {d}) /\ d \in Live(m1)
    BY <1>1, <1>3, <1>4, AllocatedBecomes
  <2>3. Heap(m1)
    BY <2>2 DEF Becomes
  <2>4. Becomes(m1, {d}, k, {})
    BY <2>1, <2>2, <2>3, FreedBecomes
  <2>5. Becomes(m, {}, k, {})
    BY <2>2, <2>4, BecomesTrans
  <2>6. ListAt(k, l, ns, ds)
    BY <2>5, ListKept
  <2>7. PICK F : F = Feet(l, ns, ds)
    OBVIOUS
  <2>8. F \subseteq Live(m)
    BY <2>7, ListTypes
  <2>9. Becomes(m, F, k, {} \cup (F \ {}))
    BY <2>5, <2>8, BecomesWider
  <2>10. {} \cup (F \ {}) = F
    OBVIOUS
  <2>11. Becomes(m, Feet(l, ns, ds), k, Feet(l, ns, ds))
    BY <2>7, <2>9, <2>10
  <2>12. QED
    BY <2>6, <2>11 DEF Changed
<1>8. QED
  BY <1>6, <1>7

AllParsed(f, m, a, strings, c) ==
    f = [n \in 0..c |->
           IF n = 0 THEN m
           ELSE ParseInto(f[n - 1], BrokerList(f[n - 1], a),
                  f[n - 1].block[ListGetDataByPosition(f[n - 1], strings, n - 1)].value)]

\* The loop over the listed strings, turn by turn.
LEMMA AllParsedExists ==
  ASSUME NEW m, NEW a, NEW strings, NEW last \in Nat
  PROVE  \E f : AllParsed(f, m, a, strings, last)
<1> DEFINE S == {c \in Nat : \E f : AllParsed(f, m, a, strings, c)}
<1>1. 0 \in S
  <2> DEFINE f == [n \in 0..0 |-> m]
  <2>1. f = [n \in 0..0 |-> IF n = 0
                            THEN m
                            ELSE ParseInto(f[n - 1], BrokerList(f[n - 1], a), f[n - 1].block[ListGetDataByPosition(f[n - 1], strings, n - 1)].value)]
    OBVIOUS
  <2>2. AllParsed(f, m, a, strings, 0)
    BY <2>1, Zenon DEF AllParsed
  <2>3. QED
    BY <2>2
<1>2. ASSUME NEW c \in Nat, c \in S PROVE c + 1 \in S
  <2>1. PICK f : AllParsed(f, m, a, strings, c)
    BY <1>2
  <2> DEFINE g == [n \in 0..(c + 1) |-> IF n = c + 1
                                        THEN ParseInto(f[c], BrokerList(f[c], a), f[c].block[ListGetDataByPosition(f[c], strings, n - 1)].value)
                                        ELSE f[n]]
             h == [n \in 0..(c + 1) |-> IF n = 0
                                        THEN m
                                        ELSE ParseInto(g[n - 1], BrokerList(g[n - 1], a), g[n - 1].block[ListGetDataByPosition(g[n - 1], strings, n - 1)].value)]
  <2>2. ASSUME NEW n \in 0..(c + 1) PROVE g[n] = h[n]
    <3>1. CASE n = c + 1
      <4>1. n # 0 /\ n - 1 = c /\ n - 1 \in 0..(c + 1) /\ c # c + 1
        BY <3>1
      <4>2. /\ g[n] = ParseInto(f[c], BrokerList(f[c], a), f[c].block[ListGetDataByPosition(f[c], strings, n - 1)].value)
            /\ g[n - 1] = f[c]
        BY <3>1, <4>1
      <4>3. h[n] =
            ParseInto(g[n - 1], BrokerList(g[n - 1], a), g[n - 1].block[ListGetDataByPosition(g[n - 1], strings, n - 1)].value)
        BY <4>1
      <4>4. QED
        BY <4>2, <4>3
    <3>2. CASE n # c + 1
      <4>1. n \in 0..c /\ g[n] = f[n]
        BY <3>2
      <4>2. f[n] = IF n = 0
                   THEN m
                   ELSE ParseInto(f[n - 1], BrokerList(f[n - 1], a), f[n - 1].block[ListGetDataByPosition(f[n - 1], strings, n - 1)].value)
        BY <2>1, <4>1 DEF AllParsed
      <4>3. n # 0 => n - 1 \in 0..(c + 1) /\ n - 1 # c + 1
        BY <4>1
      <4>4. n # 0 => g[n - 1] = f[n - 1]
        BY <4>3
      <4>5. QED
        BY <4>1, <4>2, <4>4
    <3>3. QED
      BY <3>1, <3>2
  <2>3. g = h
    BY <2>2
  <2>4. AllParsed(g, m, a, strings, c + 1)
    BY <2>3, Zenon DEF AllParsed
  <2>5. QED
    BY <2>4
<1> HIDE DEF S
<1>3. last \in S
  BY <1>1, <1>2, NatSetInduction
<1>4. QED
  BY <1>3 DEF S

\* After it the list of brokers is a list, and nothing else has changed.
LEMMA StringsParsed ==
  ASSUME NEW m, Heap(m), NEW a \in Live(m), NEW l, l = BrokerList(m, a),
         NEW ns, NEW ds, ListAt(m, l, ns, ds), a \notin Feet(l, ns, ds),
         NEW strings, Count(m, strings) \in Nat, NEW k, k = ParseStrings(m, a, strings)
  PROVE  Changed(m, k, l, ns, ds)
<1>1. PICK c \in Nat : c = Count(m, strings)
  OBVIOUS
<1> DEFINE parsed == CHOOSE f : f = [n \in 0..Count(m, strings) |->
             IF n = 0 THEN m
             ELSE ParseInto(f[n - 1], BrokerList(f[n - 1], a),
                    f[n - 1].block[ListGetDataByPosition(f[n - 1], strings, n - 1)].value)]
<1>2. k = parsed[c]
  BY <1>1, Zenon DEF ParseStrings
<1>3. AllParsed(parsed, m, a, strings, c)
  <2>1. \E f : f = [n \in 0..Count(m, strings) |->
             IF n = 0 THEN m
             ELSE ParseInto(f[n - 1], BrokerList(f[n - 1], a),
                    f[n - 1].block[ListGetDataByPosition(f[n - 1], strings, n - 1)].value)]
    <3>1. \E f : AllParsed(f, m, a, strings, c)
      BY AllParsedExists
    <3>2. QED
      BY <1>1, <3>1, Zenon DEF AllParsed
  <2>2. QED
    BY <1>1, <2>1, Zenon DEF AllParsed
<1> HIDE DEF parsed
<1> DEFINE S == {n \in Nat : n <= c => Changed(m, parsed[n], l, ns, ds)}
<1>4. 0 \in S
  <2>1. parsed[0] = m
    BY <1>3 DEF AllParsed
  <2>2. QED
    BY <2>1, NothingChanged
<1>5. ASSUME NEW n \in Nat, n \in S PROVE n + 1 \in S
  <2>1. SUFFICES ASSUME n + 1 <= c PROVE Changed(m, parsed[n + 1], l, ns, ds)
    OBVIOUS
  <2>2. PICK j : j = parsed[n]
    OBVIOUS
  <2>3. Changed(m, j, l, ns, ds)
    BY <1>5, <2>1, <2>2
  <2>4. PICK string : string = j.block[ListGetDataByPosition(j, strings, (n + 1) - 1)].value
    OBVIOUS
  <2>5. n + 1 \in 0..c /\ n + 1 # 0 /\ (n + 1) - 1 = n
    BY <2>1
  <2>6. PICK k1 : k1 = parsed[n + 1]
    OBVIOUS
  <2>7. k1 = ParseInto(j, BrokerList(j, a), string)
    BY <1>3, <2>2, <2>4, <2>5, <2>6 DEF AllParsed
  <2>8. PICK ns1, ds1 : /\ ListAt(j, l, ns1, ds1)
                        /\ Becomes(m, Feet(l, ns, ds), j, Feet(l, ns1, ds1))
    BY <2>3 DEF Changed
  <2>9. Heap(j) /\ j.block[a] = m.block[a]
    BY <2>8 DEF Becomes
  <2>10. BrokerList(j, a) = l
    BY <2>9 DEF BrokerList, PointerIn
  <2>11. k1 = ParseInto(j, l, string)
    BY <2>7, <2>10
  <2>12. Changed(j, k1, l, ns1, ds1)
    BY <2>8, <2>9, <2>11, BrokerParsed
  <2>13. Changed(m, k1, l, ns, ds)
    BY <2>8, <2>12, ChangedTrans
  <2>14. QED
    BY <2>6, <2>13
<1> HIDE DEF S
<1>6. c \in S
  BY <1>4, <1>5, NatSetInduction
<1>7. Changed(m, parsed[c], l, ns, ds)
  BY <1>6 DEF S
<1>8. QED
  BY <1>2, <1>7

-----------------------------------------------------------------------------
(* The string with the definitions of brokers.                             *)

LEMMA SeqOfFacts ==
  ASSUME NEW S, NEW n \in Nat, NEW s \in SeqOf(S, n)
  PROVE  s \in Seq(S)
<1>1. PICK c \in 0..n : s \in [1..c -> S]
  BY Zenon DEF SeqOf
<1>2. QED
  BY <1>1

LEMMA WiderSeq ==
  ASSUME NEW S, NEW T, S \subseteq T, NEW s \in Seq(S)
  PROVE  s \in Seq(T)
<1>1. Len(s) \in Nat /\ s = [i \in 1..Len(s) |-> s[i]] /\ \A i \in 1..Len(s) : s[i] \in T
  OBVIOUS
<1>2. QED
  BY <1>1

LEMMA ShortSeqs ==
  ASSUME NEW S
  PROVE  << >> \in Seq(S) /\ \A e \in S : <<e>> \in Seq(S)
OBVIOUS

\* What a string is made of: words, and the characters that separate them.
Words == STRING \cup {":", "/", "@", ";"}

LEMMA WordsAreSequences ==
  ASSUME NEW s \in Seq(STRING)
  PROVE  s \in Seq(Words)
<1>1. PICK W : W = Words
  OBVIOUS
<1>2. STRING \subseteq W
  BY <1>1 DEF Words
<1>3. PICK A : A = STRING
  OBVIOUS
<1>4. A \subseteq W /\ s \in Seq(A)
  BY <1>2, <1>3
<1>5. s \in Seq(W)
  BY <1>4, WiderSeq
<1>6. QED
  BY <1>1, <1>5

\* A definition is written as words.
LEMMA RenderType ==
  ASSUME NEW d \in Definition
  PROVE  Render(d) \in Seq(Words)
<1>1. /\ d.DBSchema \in Seq(Words) /\ d.Username \in Seq(Words) /\ d.Password \in Seq(Words)
      /\ d.Hostname \in Seq(Words) /\ d.Port \in Words /\ d.VirtualHost \in Seq(Words)
  <2>1. /\ d.DBSchema \in Seq(STRING) /\ d.Username \in Seq(STRING)
        /\ d.Password \in Seq(STRING) /\ d.Hostname \in Seq(STRING)
        /\ d.Port \in STRING /\ d.VirtualHost \in Seq(STRING)
    BY ConfigurationAssumption DEF Text
  <2>2. \A s \in Seq(STRING) : s \in Seq(Words)
    BY WordsAreSequences
  <2>3. d.Port \in Words
    BY <2>1 DEF Words
  <2>4. QED
    BY <2>1, <2>2, <2>3
<1>2. PICK u, v, w, x : u = <<":", "/", "/">> /\ v = <<":">> /\ w = <<"@">> /\ x = <<":", d.Port>>
  OBVIOUS
<1>3. u \in Seq(Words) /\ v \in Seq(Words) /\ w \in Seq(Words) /\ x \in Seq(Words)
  <2>1. u \in Seq(Words)
    <3>1. ":" \in Words /\ "/" \in Words
      BY DEF Words
    <3>2. QED
      BY <1>2, <3>1
  <2>2. v \in Seq(Words)
    <3>1. ":" \in Words
      BY DEF Words
    <3>2. QED
      BY <1>2, <3>1
  <2>3. w \in Seq(Words)
    <3>1. "@" \in Words
      BY DEF Words
    <3>2. QED
      BY <1>2, <3>1
  <2>4. x \in Seq(Words)
    <3>1. ":" \in Words
      BY DEF Words
    <3>2. QED
      BY <1>1, <1>2, <3>1
  <2>5. QED
    BY <2>1, <2>2, <2>3, <2>4
<1>4. d.DBSchema \o u \in Seq(Words)
  BY <1>1, <1>3, ConcatFacts
<1>5. (d.DBSchema \o u) \o d.Username \in Seq(Words)
  BY <1>1, <1>4, ConcatFacts
<1>6. ((d.DBSchema \o u) \o d.Username) \o v \in Seq(Words)
  BY <1>3, <1>5, ConcatFacts
<1>7. (((d.DBSchema \o u) \o d.Username) \o v) \o d.Password \in Seq(Words)
  BY <1>1, <1>6, ConcatFacts
<1>8. ((((d.DBSchema \o u) \o d.Username) \o v) \o d.Password) \o w \in Seq(Words)
  BY <1>3, <1>7, ConcatFacts
<1>9. (((((d.DBSchema \o u) \o d.Username) \o v) \o d.Password) \o w) \o d.Hostname \in Seq(Words)
  BY <1>1, <1>8, ConcatFacts
<1>10. ((((((d.DBSchema \o u) \o d.Username) \o v) \o d.Password) \o w) \o d.Hostname) \o x
         \in Seq(Words)
  BY <1>3, <1>9, ConcatFacts
<1>11. (((((((d.DBSchema \o u) \o d.Username) \o v) \o d.Password) \o w) \o d.Hostname) \o x)
         \o d.VirtualHost \in Seq(Words)
  BY <1>1, <1>10, ConcatFacts
<1>12. Render(d) = (((((((d.DBSchema \o u) \o d.Username) \o v) \o d.Password) \o w)
                       \o d.Hostname) \o x) \o d.VirtualHost
       \/ Render(d) = d.Hostname
  BY <1>2, Zenon DEF Render
<1>13. QED
  BY <1>1, <1>11, <1>12

JoinedTo(u, definitions, n) ==
    u \o (IF n = 1 THEN << >> ELSE <<";">>) \o Render(definitions[n])

Joined(f, m, definitions, c) ==
    f = [n \in 0..c |-> IF n = 0 THEN m ELSE JoinedTo(f[n - 1], definitions, n)]

\* The string after each of the definitions.
LEMMA JoinedExists ==
  ASSUME NEW m, NEW definitions, NEW last \in Nat
  PROVE  \E f : Joined(f, m, definitions, last)
<1> DEFINE S == {c \in Nat : \E f : Joined(f, m, definitions, c)}
<1>1. 0 \in S
  <2> DEFINE f == [n \in 0..0 |-> m]
  <2>1. f = [n \in 0..0 |-> IF n = 0 THEN m ELSE JoinedTo(f[n - 1], definitions, n)]
    OBVIOUS
  <2>2. Joined(f, m, definitions, 0)
    BY <2>1, Zenon DEF Joined
  <2>3. QED
    BY <2>2
<1>2. ASSUME NEW c \in Nat, c \in S PROVE c + 1 \in S
  <2>1. PICK f : Joined(f, m, definitions, c)
    BY <1>2
  <2> DEFINE g == [n \in 0..(c + 1) |-> IF n = c + 1 THEN JoinedTo(f[c], definitions, n) ELSE f[n]]
             h == [n \in 0..(c + 1) |-> IF n = 0 THEN m ELSE JoinedTo(g[n - 1], definitions, n)]
  <2>2. ASSUME NEW n \in 0..(c + 1) PROVE g[n] = h[n]
    <3>1. CASE n = c + 1
      <4>1. n # 0 /\ n - 1 = c /\ n - 1 \in 0..(c + 1) /\ c # c + 1
        BY <3>1
      <4>2. g[n] = JoinedTo(f[c], definitions, n) /\ g[n - 1] = f[c]
        BY <3>1, <4>1
      <4>3. h[n] = JoinedTo(g[n - 1], definitions, n)
        BY <4>1
      <4>4. QED
        BY <4>2, <4>3
    <3>2. CASE n # c + 1
      <4>1. n \in 0..c /\ g[n] = f[n]
        BY <3>2
      <4>2. f[n] = IF n = 0 THEN m ELSE JoinedTo(f[n - 1], definitions, n)
        BY <2>1, <4>1 DEF Joined
      <4>3. n # 0 => n - 1 \in 0..(c + 1) /\ n - 1 # c + 1
        BY <4>1
      <4>4. n # 0 => g[n - 1] = f[n - 1]
        BY <4>3
      <4>5. QED
        BY <4>1, <4>2, <4>4
    <3>3. QED
      BY <3>1, <3>2
  <2>3. g = h
    BY <2>2
  <2>4. Joined(g, m, definitions, c + 1)
    BY <2>3, Zenon DEF Joined
  <2>5. QED
    BY <2>4
<1> HIDE DEF S
<1>3. last \in S
  BY <1>1, <1>2, NatSetInduction
<1>4. QED
  BY <1>3 DEF S

\* A string of definitions is a sequence of words.
LEMMA StringType ==
  ASSUME NEW definitions \in Seq(Definition)
  PROVE  BrokersString(definitions) \in Seq(Words)
<1>1. PICK c \in Nat : c = Len(definitions) /\ DOMAIN definitions = 1..c
  OBVIOUS
<1>2. PICK m : m = << >>
  OBVIOUS
<1> DEFINE string == CHOOSE f : f = [n \in 0..Len(definitions) |->
             IF n = 0 THEN << >>
             ELSE f[n - 1] \o (IF n = 1 THEN << >> ELSE <<";">>) \o Render(definitions[n])]
<1>3. BrokersString(definitions) = string[c]
  BY <1>1, Zenon DEF BrokersString
<1>4. Joined(string, m, definitions, c)
  <2>1. \E f : f = [n \in 0..Len(definitions) |->
             IF n = 0 THEN << >>
             ELSE f[n - 1] \o (IF n = 1 THEN << >> ELSE <<";">>) \o Render(definitions[n])]
    <3>1. \E f : Joined(f, m, definitions, c)
      BY JoinedExists
    <3>2. QED
      BY <1>1, <1>2, <3>1, Zenon DEF Joined, JoinedTo
  <2>2. QED
    BY <1>1, <1>2, <2>1, Zenon DEF Joined, JoinedTo
<1> HIDE DEF string
<1> DEFINE S == {n \in Nat : n <= c => string[n] \in Seq(Words)}
<1>5. 0 \in S
  <2>1. string[0] = m
    BY <1>4 DEF Joined
  <2>2. m \in Seq(Words)
    BY <1>2, ShortSeqs
  <2>3. QED
    BY <2>1, <2>2
<1>6. ASSUME NEW n \in Nat, n \in S PROVE n + 1 \in S
  <2>1. SUFFICES ASSUME n + 1 <= c PROVE string[n + 1] \in Seq(Words)
    OBVIOUS
  <2>2. PICK u : u = string[n]
    OBVIOUS
  <2>3. u \in Seq(Words)
    BY <1>6, <2>1, <2>2
  <2>4. n + 1 \in 0..c /\ n + 1 # 0 /\ (n + 1) - 1 = n /\ n + 1 \in 1..c
    BY <2>1
  <2>5. PICK v : v = IF n + 1 = 1 THEN << >> ELSE <<";">>
    OBVIOUS
  <2>6. PICK w : w = Render(definitions[n + 1])
    OBVIOUS
  <2>13. string[n + 1] = JoinedTo(u, definitions, n + 1)
    BY <1>4, <2>2, <2>4 DEF Joined
  <2>7. string[n + 1] = u \o v \o w
    BY <2>5, <2>6, <2>13 DEF JoinedTo
  <2>8. v \in Seq(Words)
    <3>1. ";" \in Words
      BY DEF Words
    <3>2. <<";">> \in Seq(Words) /\ << >> \in Seq(Words)
      BY <3>1, ShortSeqs
    <3>3. QED
      BY <2>5, <3>2
  <2>9. w \in Seq(Words)
    <3>1. definitions[n + 1] \in Definition
      BY <1>1, <2>4
    <3>2. QED
      BY <2>6, <3>1, RenderType
  <2>10. u \o v \in Seq(Words)
    BY <2>3, <2>8, ConcatFacts
  <2>11. (u \o v) \o w \in Seq(Words)
    BY <2>9, <2>10, ConcatFacts
  <2>12. QED
    BY <2>7, <2>11
<1> HIDE DEF S
<1>7. c \in S
  BY <1>5, <1>6, NatSetInduction
<1>8. string[c] \in Seq(Words)
  BY <1>7 DEF S
<1>9. QED
  BY <1>3, <1>8

CutTo(u, string, n) ==
    IF string[n] = ";" /\ n < Len(string) THEN Append(u, << >>)
    ELSE [u EXCEPT ![Len(u)] = Append(@, string[n])]

CutUp(f, m, string, c) ==
    f = [n \in 0..c |-> IF n = 0 THEN m ELSE CutTo(f[n - 1], string, n)]

\* The parts after each character of the string.
LEMMA CutUpExists ==
  ASSUME NEW m, NEW string, NEW last \in Nat
  PROVE  \E f : CutUp(f, m, string, last)
<1> DEFINE S == {c \in Nat : \E f : CutUp(f, m, string, c)}
<1>1. 0 \in S
  <2> DEFINE f == [n \in 0..0 |-> m]
  <2>1. f = [n \in 0..0 |-> IF n = 0 THEN m ELSE CutTo(f[n - 1], string, n)]
    OBVIOUS
  <2>2. CutUp(f, m, string, 0)
    BY <2>1, Zenon DEF CutUp
  <2>3. QED
    BY <2>2
<1>2. ASSUME NEW c \in Nat, c \in S PROVE c + 1 \in S
  <2>1. PICK f : CutUp(f, m, string, c)
    BY <1>2
  <2> DEFINE g == [n \in 0..(c + 1) |-> IF n = c + 1 THEN CutTo(f[c], string, n) ELSE f[n]]
             h == [n \in 0..(c + 1) |-> IF n = 0 THEN m ELSE CutTo(g[n - 1], string, n)]
  <2>2. ASSUME NEW n \in 0..(c + 1) PROVE g[n] = h[n]
    <3>1. CASE n = c + 1
      <4>1. n # 0 /\ n - 1 = c /\ n - 1 \in 0..(c + 1) /\ c # c + 1
        BY <3>1
      <4>2. g[n] = CutTo(f[c], string, n) /\ g[n - 1] = f[c]
        BY <3>1, <4>1
      <4>3. h[n] = CutTo(g[n - 1], string, n)
        BY <4>1
      <4>4. QED
        BY <4>2, <4>3
    <3>2. CASE n # c + 1
      <4>1. n \in 0..c /\ g[n] = f[n]
        BY <3>2
      <4>2. f[n] = IF n = 0 THEN m ELSE CutTo(f[n - 1], string, n)
        BY <2>1, <4>1 DEF CutUp
      <4>3. n # 0 => n - 1 \in 0..(c + 1) /\ n - 1 # c + 1
        BY <4>1
      <4>4. n # 0 => g[n - 1] = f[n - 1]
        BY <4>3
      <4>5. QED
        BY <4>1, <4>2, <4>4
    <3>3. QED
      BY <3>1, <3>2
  <2>3. g = h
    BY <2>2
  <2>4. CutUp(g, m, string, c + 1)
    BY <2>3, Zenon DEF CutUp
  <2>5. QED
    BY <2>4
<1> HIDE DEF S
<1>3. last \in S
  BY <1>1, <1>2, NatSetInduction
<1>4. QED
  BY <1>3 DEF S

\* A string has finitely many parts.
LEMMA SplitType ==
  ASSUME NEW string \in Seq(Words)
  PROVE  Len(Split(string)) \in Nat
<1>1. PICK c \in Nat : c = Len(string)
  OBVIOUS
<1>2. PICK m : m = << << >> >>
  OBVIOUS
<1> DEFINE cut == CHOOSE f : f = [n \in 0..Len(string) |->
             IF n = 0 THEN << << >> >>
             ELSE IF string[n] = ";" /\ n < Len(string) THEN Append(f[n - 1], << >>)
                  ELSE [f[n - 1] EXCEPT ![Len(f[n - 1])] = Append(@, string[n])]]
<1>3. Split(string) = cut[c]
  BY <1>1, Zenon DEF Split
<1>4. CutUp(cut, m, string, c)
  <2>1. \E f : f = [n \in 0..Len(string) |->
             IF n = 0 THEN << << >> >>
             ELSE IF string[n] = ";" /\ n < Len(string) THEN Append(f[n - 1], << >>)
                  ELSE [f[n - 1] EXCEPT ![Len(f[n - 1])] = Append(@, string[n])]]
    <3>1. \E f : CutUp(f, m, string, c)
      BY CutUpExists
    <3>2. QED
      BY <1>1, <1>2, <3>1, Zenon DEF CutUp, CutTo
  <2>2. QED
    BY <1>1, <1>2, <2>1, Zenon DEF CutUp, CutTo
<1> HIDE DEF cut
<1> DEFINE S == {n \in Nat : n <= c => cut[n] \in Seq(Seq(Words)) /\ cut[n] # << >>}
<1>5. 0 \in S
  <2>1. cut[0] = m
    BY <1>4 DEF CutUp
  <2>2. << >> \in Seq(Words)
    OBVIOUS
  <2>3. << << >> >> \in Seq(Seq(Words)) /\ << << >> >> # << >>
    BY <2>2
  <2>4. QED
    BY <1>2, <2>1, <2>3
<1>6. ASSUME NEW n \in Nat, n \in S PROVE n + 1 \in S
  <2>1. SUFFICES ASSUME n + 1 <= c
                 PROVE  cut[n + 1] \in Seq(Seq(Words)) /\ cut[n + 1] # << >>
    OBVIOUS
  <2>2. PICK u : u = cut[n]
    OBVIOUS
  <2>3. u \in Seq(Seq(Words)) /\ u # << >>
    BY <1>6, <2>1, <2>2
  <2>4. n + 1 \in 0..c /\ n + 1 # 0 /\ (n + 1) - 1 = n /\ n + 1 \in 1..c
    BY <2>1
  <2>5. PICK e : e = string[n + 1]
    OBVIOUS
  <2>6. e \in Words
    BY <1>1, <2>4, <2>5
  <2>12. cut[n + 1] = CutTo(u, string, n + 1)
    BY <1>4, <2>2, <2>4 DEF CutUp
  <2>7. cut[n + 1] = IF e = ";" /\ n + 1 < Len(string) THEN Append(u, << >>)
                     ELSE [u EXCEPT ![Len(u)] = Append(@, e)]
    BY <2>5, <2>12 DEF CutTo
  <2>8. Append(u, << >>) \in Seq(Seq(Words)) /\ Append(u, << >>) # << >>
    <3>1. PICK T : T = Seq(Words)
      OBVIOUS
    <3>2. << >> \in T
      BY <3>1
    <3>3. u \in Seq(T)
      BY <2>3, <3>1
    <3>4. Append(u, << >>) \in Seq(T) /\ Append(u, << >>) # << >>
      BY <3>2, <3>3
    <3>5. QED
      BY <3>1, <3>4
  <2>9. [u EXCEPT ![Len(u)] = Append(@, e)] \in Seq(Seq(Words))
        /\ [u EXCEPT ![Len(u)] = Append(@, e)] # << >>
    <3>1. PICK T : T = Seq(Words)
      OBVIOUS
    <3>2. u \in Seq(T) /\ Len(u) \in 1..Len(u)
      BY <2>3, <3>1
    <3>3. PICK w : w = u[Len(u)]
      OBVIOUS
    <3>4. w \in T
      BY <3>2, <3>3
    <3>5. PICK x : x = Append(w, e)
      OBVIOUS
    <3>6. x \in T
      BY <2>6, <3>1, <3>4, <3>5
    <3>7. [u EXCEPT ![Len(u)] = x] \in Seq(T) /\ [u EXCEPT ![Len(u)] = x] # << >>
      BY <3>2, <3>6
    <3>8. [u EXCEPT ![Len(u)] = Append(@, e)] = [u EXCEPT ![Len(u)] = x]
      BY <3>3, <3>5
    <3>9. QED
      BY <3>1, <3>7, <3>8
  <2>10. QED
    BY <2>7, <2>8, <2>9
<1> HIDE DEF S
<1>7. c \in S
  BY <1>5, <1>6, NatSetInduction
<1>8. cut[c] \in Seq(Seq(Words))
  BY <1>7 DEF S
<1>9. QED
  BY <1>3, <1>8

-----------------------------------------------------------------------------
(* Configurations.                                                         *)

ConfigBlock(l, t, g) == Block(1, [BrokerList |-> l, WaitReplyTimer |-> t, Logger |-> g], 0)

LEMMA ConfigBlockFacts ==
  ASSUME NEW l, NEW t, NEW g
  PROVE  /\ IsBlock(ConfigBlock(l, t, g))
         /\ ConfigBlock(l, t, g).pointer["BrokerList"] = l
         /\ ConfigBlock(l, t, g).pointer["WaitReplyTimer"] = t
         /\ ConfigBlock(l, t, g).pointer["Logger"] = g
         /\ DOMAIN ConfigBlock(l, t, g).pointer = {"BrokerList", "WaitReplyTimer", "Logger"}
         /\ \A x : Repointed(ConfigBlock(l, t, g), "BrokerList", x) = ConfigBlock(x, t, g)
         /\ \A x : Repointed(ConfigBlock(l, t, g), "WaitReplyTimer", x) = ConfigBlock(l, x, g)
         /\ \A x : Repointed(ConfigBlock(l, t, g), "Logger", x) = ConfigBlock(l, t, x)
BY DEF IsBlock, ConfigBlock, Block, Repointed

LoggerAt(m, g) == Keeps(m, g, LoggerFields)

\* rmqsLoggerCreate.
LEMMA LoggerMade ==
  ASSUME NEW m, Heap(m), NEW g, g = NewAddress(m), NEW k, k = LoggerCreate(m)
  PROVE  /\ LoggerAt(k, g) /\ Becomes(m, {}, k, Owned(k, g))
         /\ g \notin Live(m) /\ g # Null
<1>1. PICK b : b = Block(1, [f \in ToSet(LoggerFields) |-> Null], 0)
  OBVIOUS
<1>2. PICK fields : fields = LoggerFields
  OBVIOUS
<1>3. Fit(b, fields)
  <2>1. DOMAIN fields = 1..3 /\ fields[1] = "FileName" /\ fields[2] = "Mutex" /\ fields[3] = "Timer"
        /\ Len(fields) = 3
    BY <1>2 DEF LoggerFields
  <2>2. Distinct(fields)
    BY <2>1 DEF Distinct
  <2>3. DOMAIN b.pointer = {fields[i] : i \in DOMAIN fields}
    BY <1>1, <1>2 DEF Block, ToSet
  <2>4. Blank(b)
    BY <1>1 DEF Blank, IsBlock, Block
  <2>5. fields \in Seq(DOMAIN b.pointer)
    <3>1. PICK D : D = DOMAIN b.pointer
      OBVIOUS
    <3>2. "FileName" \in D /\ "Mutex" \in D /\ "Timer" \in D
      BY <2>1, <2>3, <3>1
    <3>3. <<"FileName", "Mutex", "Timer">> \in Seq(D)
      BY <3>2
    <3>4. QED
      BY <1>2, <3>1, <3>3 DEF LoggerFields
  <2>6. QED
    BY <2>2, <2>4, <2>5 DEF Fit
<1>4. PICK m1 : m1 = AllocateMemory(m, b)
  OBVIOUS
<1>5. /\ Becomes(m, {}, m1, {g}) /\ m1.block[g] = b /\ g \in Live(m1)
      /\ g \notin Live(m) /\ g # Null
  BY <1>3, <1>4, AllocatedBecomes DEF Fit, Blank, Null
<1>6. Heap(m1)
  BY <1>5 DEF Becomes
<1>7. PICK j : j = AllocateEach(m1, g, fields)
  OBVIOUS
<1>8. k = j
  BY <1>1, <1>2, <1>4, <1>7 DEF LoggerCreate
<1>9. Keeps(j, g, fields) /\ Becomes(m1, {g}, j, Owned(j, g))
  BY <1>3, <1>5, <1>6, <1>7, KeepsMade
<1>10. Becomes(m, {}, j, Owned(j, g))
  BY <1>5, <1>9, BecomesTrans
<1>11. QED
  BY <1>2, <1>5, <1>8, <1>9, <1>10 DEF LoggerAt

\* The configuration at a has the list at l, a timer, and a logger if it has one.
ConfigAt(m, a, l, ns, ds, t, g) ==
    /\ a \in Live(m) /\ m.block[a] = ConfigBlock(l, t, g)
    /\ ListAt(m, l, ns, ds) /\ a \notin Feet(l, ns, ds) /\ t \notin Feet(l, ns, ds)
    /\ t \in Live(m) /\ t # a /\ m.block[t].pointer = NoPointers
    /\ g # Null => /\ LoggerAt(m, g) /\ a \notin Owned(m, g) /\ t \notin Owned(m, g)
                   /\ \A x \in Feet(l, ns, ds) : x \notin Owned(m, g)

ConfigFeet(m, a, l, ns, ds, t, g) == {a, t} \cup Feet(l, ns, ds) \cup Its(m, g)

LEMMA ConfigLive ==
  ASSUME NEW m, Heap(m), NEW a, NEW l, NEW ns, NEW ds, NEW t, NEW g,
         ConfigAt(m, a, l, ns, ds, t, g)
  PROVE  ConfigFeet(m, a, l, ns, ds, t, g) \subseteq Live(m)
<1>1. Feet(l, ns, ds) \subseteq Live(m) /\ a \in Live(m) /\ t \in Live(m)
  BY ListTypes DEF ConfigAt
<1>2. g # Null => Owned(m, g) \subseteq Live(m)
  BY OwnedLive DEF ConfigAt, LoggerAt, Keeps
<1>3. QED
  BY <1>1, <1>2 DEF ConfigFeet, Its

LEMMA ConfigKept ==
  ASSUME NEW m, NEW S, NEW k, NEW T, Becomes(m, S, k, T),
         NEW a, NEW l, NEW ns, NEW ds, NEW t, NEW g, ConfigAt(m, a, l, ns, ds, t, g),
         \A x \in ConfigFeet(m, a, l, ns, ds, t, g) : x \notin S
  PROVE  /\ ConfigAt(k, a, l, ns, ds, t, g)
         /\ ConfigFeet(k, a, l, ns, ds, t, g) = ConfigFeet(m, a, l, ns, ds, t, g)
<1>1. /\ a \notin S /\ t \notin S
      /\ \A x \in Feet(l, ns, ds) : x \notin S
      /\ g # Null => \A x \in Owned(m, g) : x \notin S
  BY DEF ConfigFeet, Its
<1>2. /\ a \in Live(k) /\ k.block[a] = m.block[a]
      /\ t \in Live(k) /\ k.block[t] = m.block[t]
  BY <1>1 DEF Becomes, ConfigAt
<1>3. ListAt(k, l, ns, ds)
  BY <1>1, ListKept DEF ConfigAt
<1>4. ASSUME g # Null PROVE LoggerAt(k, g) /\ Owned(k, g) = Owned(m, g)
  <2>1. Keeps(m, g, LoggerFields)
    BY <1>4 DEF ConfigAt, LoggerAt
  <2>2. Keeps(k, g, LoggerFields) /\ Owned(k, g) = Owned(m, g)
    BY <1>1, <1>4, <2>1, KeepsKept
  <2>3. QED
    BY <2>2 DEF LoggerAt
<1>5. QED
  BY <1>2, <1>3, <1>4 DEF ConfigAt, ConfigFeet, Its

\* The list becomes another one.
LEMMA ConfigEdited ==
  ASSUME NEW m, NEW a, NEW l, NEW ns, NEW ds, NEW t, NEW g, ConfigAt(m, a, l, ns, ds, t, g),
         NEW k, NEW ns2, NEW ds2, ListAt(k, l, ns2, ds2),
         Becomes(m, Feet(l, ns, ds), k, Feet(l, ns2, ds2))
  PROVE  /\ ConfigAt(k, a, l, ns2, ds2, t, g)
         /\ Becomes(m, ConfigFeet(m, a, l, ns, ds, t, g),
                    k, ConfigFeet(k, a, l, ns2, ds2, t, g))
<1>1. PICK F, G : F = Feet(l, ns, ds) /\ G = Feet(l, ns2, ds2)
  OBVIOUS
<1>2. Becomes(m, F, k, G) /\ Heap(m)
  BY <1>1 DEF Becomes
<1>3. /\ a \in Live(k) /\ k.block[a] = m.block[a] /\ a \notin G
      /\ t \in Live(k) /\ k.block[t] = m.block[t] /\ t \notin G
  BY <1>1, <1>2 DEF Becomes, ConfigAt
<1>4. ASSUME g # Null
      PROVE  /\ LoggerAt(k, g) /\ Owned(k, g) = Owned(m, g)
             /\ \A x \in Owned(k, g) : x \notin G
  <2>1. Keeps(m, g, LoggerFields) /\ \A x \in Owned(m, g) : x \notin F
    BY <1>1, <1>4 DEF ConfigAt, LoggerAt
  <2>2. /\ Keeps(k, g, LoggerFields) /\ Owned(k, g) = Owned(m, g)
        /\ \A x \in Owned(k, g) : x \notin G
    BY <1>2, <2>1, KeepsKept
  <2>3. QED
    BY <2>2 DEF LoggerAt
<1>5. ConfigAt(k, a, l, ns2, ds2, t, g)
  BY <1>1, <1>3, <1>4 DEF ConfigAt
<1>6. PICK R : R = Its(m, g)
  OBVIOUS
<1>7. Its(k, g) = R /\ a \notin F /\ t \notin F /\ \A x \in R : x \notin F
  BY <1>1, <1>4, <1>6 DEF Its, ConfigAt
<1>8. PICK V : V = {a, t} \cup F \cup R
  OBVIOUS
<1>9. ConfigFeet(m, a, l, ns, ds, t, g) = V /\ ConfigFeet(k, a, l, ns2, ds2, t, g) = {a, t} \cup G \cup R
  BY <1>1, <1>6, <1>7, <1>8 DEF ConfigFeet
<1>10. V \subseteq Live(m)
  BY <1>2, <1>9, ConfigLive
<1>11. F \subseteq V
  BY <1>8
<1>12. Becomes(m, V, k, G \cup (V \ F))
  BY <1>2, <1>10, <1>11, BecomesWider
<1>13. G \cup (V \ F) = {a, t} \cup G \cup R
  BY <1>7, <1>8
<1>14. QED
  BY <1>5, <1>9, <1>12, <1>13

\* A configuration is begun without a logger.
LEMMA ConfigBare ==
  ASSUME NEW m, Heap(m), NEW a, a = NewAddress(m),
         NEW k, k = ConfigurationBegin(m, FALSE)
  PROVE  \E l, t : /\ ConfigAt(k, a, l, << >>, << >>, t, Null)
                   /\ Becomes(m, {}, k, ConfigFeet(k, a, l, << >>, << >>, t, Null))
                   /\ l # Null
<1>1. PICK m1 : m1 = AllocateMemory(m, ConfigBlock(Null, Null, Null))
  OBVIOUS
<1>2. /\ Becomes(m, {}, m1, {a}) /\ m1.block[a] = ConfigBlock(Null, Null, Null) /\ a \in Live(m1)
  BY <1>1, ConfigBlockFacts, AllocatedBecomes
<1>3. Heap(m1)
  BY <1>2 DEF Becomes
<1>4. PICK l : l = NewAddress(m1)
  OBVIOUS
<1>5. PICK m2 : m2 = ListCreate(m1)
  OBVIOUS
<1>6. PICK F : F = Feet(l, << >>, << >>)
  OBVIOUS
<1>7. ListAt(m2, l, << >>, << >>) /\ Becomes(m1, {}, m2, F)
  BY <1>3, <1>4, <1>5, <1>6, ListMade
<1>8. /\ Heap(m2) /\ a \in Live(m2) /\ m2.block[a] = ConfigBlock(Null, Null, Null) /\ a \notin F
      /\ F \subseteq Live(m2)
  BY <1>2, <1>7 DEF Becomes
<1>9. PICK m3 : m3 = SetPointer(m2, a, "BrokerList", l)
  OBVIOUS
<1>10. "BrokerList" \in DOMAIN m2.block[a].pointer
  BY <1>8, ConfigBlockFacts
<1>11. Becomes(m2, {a}, m3, {a}) /\ m3.block[a] = Repointed(m2.block[a], "BrokerList", l)
  <2>1. Heap(m2) /\ a \in Live(m2)
    BY <1>8
  <2>2. QED
    BY <1>9, <1>10, <2>1, PointerBecomes
<1>12. m3.block[a] = ConfigBlock(l, Null, Null)
  BY <1>8, <1>11, ConfigBlockFacts
<1>13. ListAt(m3, l, << >>, << >>)
  <2>1. \A x \in Feet(l, << >>, << >>) : x \notin {a}
    BY <1>6, <1>8
  <2>2. QED
    BY <1>7, <1>11, <2>1, ListKept
<1>14. Heap(m3) /\ a \in Live(m3) /\ F \subseteq Live(m3)
  BY <1>8, <1>11 DEF Becomes
<1>15. PICK t : t = NewAddress(m3)
  OBVIOUS
<1>16. PICK m4 : m4 = AllocateMemory(m3, Plain)
  OBVIOUS
<1>17. /\ Becomes(m3, {}, m4, {t}) /\ m4.block[t] = Plain /\ t \notin Live(m3) /\ t \in Live(m4)
  BY <1>14, <1>15, <1>16, PlainBlock, AllocatedBecomes
<1>18. /\ Heap(m4) /\ a \in Live(m4) /\ m4.block[a] = ConfigBlock(l, Null, Null) /\ t # a
       /\ t \notin F
  BY <1>12, <1>14, <1>17 DEF Becomes
<1>19. ListAt(m4, l, << >>, << >>)
  <2>1. \A x \in Feet(l, << >>, << >>) : x \notin {}
    OBVIOUS
  <2>2. QED
    BY <1>13, <1>17, <2>1, ListKept
<1>20. PICK m5 : m5 = SetPointer(m4, a, "WaitReplyTimer", t)
  OBVIOUS
<1>21. k = m5
  BY <1>1, <1>4, <1>5, <1>9, <1>15, <1>16, <1>20 DEF ConfigurationBegin, ConfigBlock, TimerCreate
<1>22. "WaitReplyTimer" \in DOMAIN m4.block[a].pointer
  BY <1>18, ConfigBlockFacts
<1>23. Becomes(m4, {a}, m5, {a}) /\ m5.block[a] = Repointed(m4.block[a], "WaitReplyTimer", t)
  BY <1>18, <1>20, <1>22, PointerBecomes
<1>24. m5.block[a] = ConfigBlock(l, t, Null)
  BY <1>18, <1>23, ConfigBlockFacts
<1>25. ListAt(m5, l, << >>, << >>)
  <2>1. \A x \in Feet(l, << >>, << >>) : x \notin {a}
    BY <1>6, <1>8
  <2>2. QED
    BY <1>19, <1>23, <2>1, ListKept
<1>26. a \in Live(m5) /\ t \in Live(m5) /\ m5.block[t] = Plain
  BY <1>17, <1>18, <1>23 DEF Becomes
<1>27. ConfigAt(m5, a, l, << >>, << >>, t, Null)
  BY <1>6, <1>8, <1>18, <1>24, <1>25, <1>26, PlainBlock DEF ConfigAt
<1>28. Becomes(m, {}, m5, {a, t} \cup F)
  <2>1. Becomes(m, {}, m2, {a} \cup F)
    BY <1>2, <1>7, BecomesMade
  <2>2. Becomes(m, {}, m3, {a} \cup (({a} \cup F) \ {a}))
    BY <1>11, <2>1, BecomesWithin
  <2>3. {a} \cup (({a} \cup F) \ {a}) = {a} \cup F
    OBVIOUS
  <2>4. Becomes(m, {}, m3, {a} \cup F)
    BY <2>2, <2>3
  <2>5. Becomes(m, {}, m4, ({a} \cup F) \cup {t})
    BY <1>17, <2>4, BecomesMade
  <2>6. Becomes(m, {}, m5, {a} \cup ((({a} \cup F) \cup {t}) \ {a}))
    BY <1>23, <2>5, BecomesWithin
  <2>7. {a} \cup ((({a} \cup F) \cup {t}) \ {a}) = {a, t} \cup F
    OBVIOUS
  <2>8. QED
    BY <2>6, <2>7
<1>29. ConfigFeet(m5, a, l, << >>, << >>, t, Null) = {a, t} \cup F
  BY <1>6 DEF ConfigFeet, Its
<1>30. l # Null
  <2>1. l \in Live(m5)
    BY <1>25 DEF ListAt
  <2>2. Heap(m5)
    BY <1>23 DEF Becomes
  <2>3. QED
    BY <2>1, <2>2 DEF Heap, Blocks, Null
<1>31. QED
  BY <1>21, <1>27, <1>28, <1>29, <1>30

\* A logger is made for a configuration that has none.
LEMMA ConfigLogged ==
  ASSUME NEW m, Heap(m), NEW a, NEW l, NEW ns, NEW ds, NEW t, ConfigAt(m, a, l, ns, ds, t, Null),
         NEW g, g = NewAddress(m), NEW k, k = SetPointer(LoggerCreate(m), a, "Logger", g)
  PROVE  /\ ConfigAt(k, a, l, ns, ds, t, g)
         /\ Becomes(m, ConfigFeet(m, a, l, ns, ds, t, Null),
                    k, ConfigFeet(k, a, l, ns, ds, t, g))
<1>1. PICK j : j = LoggerCreate(m)
  OBVIOUS
<1>2. LoggerAt(j, g) /\ Becomes(m, {}, j, Owned(j, g)) /\ g \notin Live(m) /\ g # Null
  BY <1>1, LoggerMade
<1>3. PICK F : F = Feet(l, ns, ds)
  OBVIOUS
<1>4. PICK V : V = ConfigFeet(m, a, l, ns, ds, t, Null) /\ V = {a, t} \cup F
  BY <1>3 DEF ConfigFeet, Its
<1>5. V \subseteq Live(m)
  BY <1>4, ConfigLive
<1>6. /\ Heap(j) /\ a \in Live(j) /\ j.block[a] = ConfigBlock(l, t, Null)
      /\ \A x \in V : x \notin Owned(j, g)
  BY <1>2, <1>4, <1>5 DEF Becomes, ConfigAt
<1>7. ConfigAt(j, a, l, ns, ds, t, Null)
  <2>1. \A x \in ConfigFeet(m, a, l, ns, ds, t, Null) : x \notin {}
    OBVIOUS
  <2>2. QED
    BY <1>2, <2>1, ConfigKept
<1>8. PICK e : e = SetPointer(j, a, "Logger", g)
  OBVIOUS
<1>9. k = e
  BY <1>1, <1>8
<1>10. "Logger" \in DOMAIN j.block[a].pointer
  BY <1>6, ConfigBlockFacts
<1>11. Becomes(j, {a}, e, {a}) /\ e.block[a] = Repointed(j.block[a], "Logger", g)
  BY <1>6, <1>8, <1>10, PointerBecomes
<1>12. e.block[a] = ConfigBlock(l, t, g)
  BY <1>6, <1>11, ConfigBlockFacts
<1>13. Keeps(e, g, LoggerFields) /\ Owned(e, g) = Owned(j, g)
  <2>1. Keeps(j, g, LoggerFields) /\ \A x \in Owned(j, g) : x \notin {a}
    BY <1>2, <1>4, <1>6 DEF LoggerAt
  <2>2. QED
    BY <1>11, <2>1, KeepsKept
<1>14. ListAt(e, l, ns, ds)
  <2>1. ListAt(j, l, ns, ds) /\ \A x \in Feet(l, ns, ds) : x \notin {a}
    BY <1>7 DEF ConfigAt
  <2>2. QED
    BY <1>11, <2>1, ListKept
<1>15. /\ a \in Live(e) /\ t \in Live(e) /\ t # a /\ e.block[t].pointer = NoPointers
       /\ a \notin F /\ t \notin F
  BY <1>3, <1>7, <1>11 DEF ConfigAt, Becomes
<1>16. a \notin Owned(e, g) /\ t \notin Owned(e, g) /\ \A x \in F : x \notin Owned(e, g)
  BY <1>4, <1>6, <1>13
<1>17. ConfigAt(e, a, l, ns, ds, t, g)
  BY <1>3, <1>12, <1>13, <1>14, <1>15, <1>16 DEF ConfigAt, LoggerAt
<1>18. ConfigFeet(e, a, l, ns, ds, t, g) = V \cup Owned(j, g)
  BY <1>2, <1>3, <1>4, <1>13 DEF ConfigFeet, Its
<1>19. Becomes(m, V, j, Owned(j, g) \cup (V \ {}))
  BY <1>2, <1>5, BecomesWider
<1>20. {a} \subseteq Owned(j, g) \cup (V \ {})
  BY <1>4
<1>21. Becomes(m, V, e, {a} \cup ((Owned(j, g) \cup (V \ {})) \ {a}))
  BY <1>11, <1>19, <1>20, BecomesWithin
<1>22. {a} \cup ((Owned(j, g) \cup (V \ {})) \ {a}) = V \cup Owned(j, g)
  BY <1>4
<1>23. Becomes(m, V, e, V \cup Owned(j, g))
  BY <1>21, <1>22
<1>24. QED
  BY <1>4, <1>9, <1>17, <1>18, <1>23

\* A configuration is begun, with a logger or without.
LEMMA ConfigBegun ==
  ASSUME NEW m, Heap(m), NEW a, a = NewAddress(m), NEW EnableLogging,
         NEW k, k = ConfigurationBegin(m, EnableLogging)
  PROVE  \E l, t, g : /\ ConfigAt(k, a, l, << >>, << >>, t, g)
                      /\ Becomes(m, {}, k, ConfigFeet(k, a, l, << >>, << >>, t, g))
<1>1. PICK j : j = ConfigurationBegin(m, FALSE)
  OBVIOUS
<1>2. PICK l, t : /\ ConfigAt(j, a, l, << >>, << >>, t, Null)
                  /\ Becomes(m, {}, j, ConfigFeet(j, a, l, << >>, << >>, t, Null))
  BY <1>1, ConfigBare
<1>3. CASE EnableLogging
  <2>1. PICK g : g = NewAddress(j)
    OBVIOUS
  <2>2. PICK e : e = SetPointer(LoggerCreate(j), a, "Logger", g)
    OBVIOUS
  <2>3. k = e
    BY <1>1, <1>3, <2>1, <2>2 DEF ConfigurationBegin
  <2>4. Heap(j)
    BY <1>2 DEF Becomes
  <2>5. PICK ns, ds : ns = << >> /\ ds = << >>
    OBVIOUS
  <2>6. ConfigAt(j, a, l, ns, ds, t, Null) /\ Becomes(m, {}, j, ConfigFeet(j, a, l, ns, ds, t, Null))
    BY <1>2, <2>5
  <2>7. /\ ConfigAt(e, a, l, ns, ds, t, g)
        /\ Becomes(j, ConfigFeet(j, a, l, ns, ds, t, Null),
                   e, ConfigFeet(e, a, l, ns, ds, t, g))
    BY <2>1, <2>2, <2>4, <2>6, ConfigLogged
  <2>8. Becomes(m, {}, e, ConfigFeet(e, a, l, ns, ds, t, g))
    BY <2>6, <2>7, BecomesTrans
  <2>9. QED
    BY <2>3, <2>5, <2>7, <2>8
<1>4. CASE ~EnableLogging
  <2>1. k = j
    BY <1>1, <1>4 DEF ConfigurationBegin
  <2>2. QED
    BY <1>2, <2>1
<1>5. QED
  BY <1>3, <1>4

\* rmqsClientConfigurationDestroy frees all that belongs to a configuration, listed brokers or none.
LEMMA ConfigFreed ==
  ASSUME NEW m, Heap(m), NEW a, NEW l, NEW ns, NEW ds, NEW t, NEW g,
         ConfigAt(m, a, l, ns, ds, t, g), NEW k, k = ConfigurationDestroy(m, a)
  PROVE  Becomes(m, ConfigFeet(m, a, l, ns, ds, t, g), k, {})
<1>1. /\ PointerIn(m, a, "BrokerList") = l /\ PointerIn(m, a, "WaitReplyTimer") = t
      /\ PointerIn(m, a, "Logger") = g
  BY ConfigBlockFacts DEF ConfigAt, PointerIn
<1>2. PICK m1 : m1 = ListDestroy(m, l)
  OBVIOUS
<1>3. PICK m2 : m2 = FreeMemory(m1, t)
  OBVIOUS
<1>4. PICK m3 : m3 = IF g = Null THEN m2 ELSE FreeWith(m2, g, LoggerFields)
  OBVIOUS
<1>5. k = FreeMemory(m3, a)
  BY <1>1, <1>2, <1>3, <1>4 DEF ConfigurationDestroy, BrokerList, LoggerDestroy
<1>6. PICK F : F = Feet(l, ns, ds)
  OBVIOUS
<1>7. Becomes(m, F, m1, {})
  BY <1>2, <1>6, ListDestroyed DEF ConfigAt
<1>8. t \in Live(m1) /\ a \in Live(m1) /\ t # a /\ Heap(m1)
  BY <1>6, <1>7 DEF Becomes, ConfigAt
<1>9. Becomes(m1, {t}, m2, {})
  BY <1>3, <1>8, FreedBecomes
<1>10. Becomes(m, F \cup {t}, m2, {})
  BY <1>7, <1>9, BecomesFreed
<1>11. a \in Live(m2) /\ Heap(m2)
  BY <1>8, <1>9 DEF Becomes
<1>12. Becomes(m2, Its(m, g), m3, {})
  <2>1. CASE g = Null
    <3>1. Becomes(m2, {}, m2, {})
      BY <1>11, BecomesSame
    <3>2. m3 = m2 /\ Its(m, g) = {}
      BY <1>4, <2>1 DEF Its
    <3>3. QED
      BY <3>1, <3>2
  <2>2. CASE g # Null
    <3>1. Keeps(m, g, LoggerFields) /\ \A x \in Owned(m, g) : x \notin F \cup {t}
      BY <1>6, <2>2 DEF ConfigAt, LoggerAt
    <3>2. Keeps(m2, g, LoggerFields) /\ Owned(m2, g) = Owned(m, g)
      BY <1>10, <3>1, KeepsKept
    <3>3. PICK fields : fields = LoggerFields
      OBVIOUS
    <3>4. m3 = FreeWith(m2, g, fields) /\ Keeps(m2, g, fields)
      BY <1>4, <2>2, <3>2, <3>3
    <3>5. Becomes(m2, Owned(m2, g), m3, {})
      BY <1>11, <3>4, KeepsFreed
    <3>6. QED
      BY <2>2, <3>2, <3>5 DEF Its
  <2>3. QED
    BY <2>1, <2>2
<1>13. a \in Live(m3) /\ Heap(m3)
  <2>1. a \notin Its(m, g)
    BY DEF ConfigAt, Its
  <2>2. QED
    BY <1>11, <1>12, <2>1 DEF Becomes
<1>14. Becomes(m3, {a}, k, {})
  BY <1>5, <1>13, FreedBecomes
<1>15. Becomes(m, (F \cup {t}) \cup Its(m, g), m3, {})
  BY <1>10, <1>12, BecomesFreed
<1>16. Becomes(m, ((F \cup {t}) \cup Its(m, g)) \cup {a}, k, {})
  BY <1>14, <1>15, BecomesFreed
<1>17. ConfigFeet(m, a, l, ns, ds, t, g) = ((F \cup {t}) \cup Its(m, g)) \cup {a}
  BY <1>6 DEF ConfigFeet
<1>18. QED
  BY <1>16, <1>17

\* The memory after a configuration is made, or not made.
LEMMA ConfigMade ==
  ASSUME NEW m, Heap(m), NEW string, Len(Split(string)) \in Nat, NEW EnableLogging,
         NEW made, made = ConfigurationCreate(m, string, EnableLogging)
  PROVE  \/ made.returned = Null /\ Becomes(m, {}, made.memory, {})
         \/ \E l, ns, ds, t, g :
              /\ made.returned \in Address
              /\ ConfigAt(made.memory, made.returned, l, ns, ds, t, g)
              /\ Becomes(m, {}, made.memory,
                         ConfigFeet(made.memory, made.returned, l, ns, ds, t, g))
<1>1. PICK a : a = NewAddress(m)
  OBVIOUS
<1>2. PICK begun : begun = ConfigurationBegin(m, EnableLogging)
  OBVIOUS
<1>3. PICK l, t, g : /\ ConfigAt(begun, a, l, << >>, << >>, t, g)
                     /\ Becomes(m, {}, begun, ConfigFeet(begun, a, l, << >>, << >>, t, g))
  BY <1>1, <1>2, ConfigBegun
<1>4. PICK none : none = << >>
  OBVIOUS
<1>5. PICK C : C = ConfigFeet(begun, a, l, none, none, t, g)
  OBVIOUS
<1>6. ConfigAt(begun, a, l, none, none, t, g) /\ Becomes(m, {}, begun, C)
  BY <1>3, <1>4, <1>5
<1>7. Heap(begun) /\ C \subseteq Live(begun)
  BY <1>6 DEF Becomes
<1>8. PICK strings : strings = NewAddress(begun)
  OBVIOUS
<1>9. PICK m1 : m1 = ListCreate(begun)
  OBVIOUS
<1>10. /\ ListAt(m1, strings, none, none)
       /\ Becomes(begun, {}, m1, Feet(strings, none, none))
  BY <1>4, <1>7, <1>8, <1>9, ListMade
<1>11. Heap(m1)
  BY <1>10 DEF Becomes
<1>12. PICK split : split = ListStrings(m1, strings, Split(string))
  OBVIOUS
<1>13. Changed(m1, split, strings, none, none)
  BY <1>10, <1>11, <1>12, StringsListed
<1>14. PICK ns1, ds1 : /\ ListAt(split, strings, ns1, ds1)
                       /\ Becomes(m1, Feet(strings, none, none), split, Feet(strings, ns1, ds1))
  BY <1>13 DEF Changed
<1>15. PICK S : S = Feet(strings, ns1, ds1)
  OBVIOUS
<1>16. Becomes(begun, {}, split, S)
  BY <1>10, <1>14, <1>15, BecomesTrans
<1>17. ConfigAt(split, a, l, none, none, t, g) /\ C = ConfigFeet(split, a, l, none, none, t, g)
  <2>1. \A x \in ConfigFeet(begun, a, l, none, none, t, g) : x \notin {}
    OBVIOUS
  <2>2. QED
    BY <1>5, <1>6, <1>16, <2>1, ConfigKept
<1>18. Becomes(m, {}, split, C \cup S) /\ \A x \in C : x \notin S
  BY <1>6, <1>16, BecomesMade
<1>19. PICK parsed : parsed = ParseStrings(split, a, strings)
  OBVIOUS
<1>20. Changed(split, parsed, l, none, none)
  <2>1. Heap(split)
    BY <1>16 DEF Becomes
  <2>2. a \in Live(split) /\ ListAt(split, l, none, none) /\ a \notin Feet(l, none, none)
    BY <1>17 DEF ConfigAt
  <2>3. l = BrokerList(split, a)
    BY <1>17, ConfigBlockFacts DEF ConfigAt, BrokerList, PointerIn
  <2>4. Count(split, strings) \in Nat
    <3>1. Count(split, strings) = Len(ds1)
      BY <1>14, <2>1, ListItems
    <3>2. QED
      BY <1>14, <2>1, <3>1, ListTypes
  <2>5. QED
    BY <1>19, <2>1, <2>2, <2>3, <2>4, StringsParsed
<1>21. PICK ns, ds : /\ ListAt(parsed, l, ns, ds)
                     /\ Becomes(split, Feet(l, none, none), parsed, Feet(l, ns, ds))
  BY <1>20 DEF Changed
<1>22. PICK D : D = ConfigFeet(parsed, a, l, ns, ds, t, g)
  OBVIOUS
<1>23. ConfigAt(parsed, a, l, ns, ds, t, g) /\ Becomes(split, C, parsed, D)
  BY <1>17, <1>21, <1>22, ConfigEdited
<1>24. ListAt(parsed, strings, ns1, ds1) /\ \A x \in S : x \notin D
  <2>1. \A x \in Feet(strings, ns1, ds1) : x \notin C
    BY <1>15, <1>18
  <2>2. QED
    BY <1>14, <1>15, <1>23, <2>1, ListKept
<1>25. Becomes(m, {}, parsed, D \cup S)
  <2>1. C \subseteq C \cup S
    OBVIOUS
  <2>2. Becomes(m, {}, parsed, D \cup ((C \cup S) \ C))
    BY <1>18, <1>23, <2>1, BecomesWithin
  <2>3. (C \cup S) \ C = S
    BY <1>18
  <2>4. QED
    BY <2>2, <2>3
<1>26. Heap(parsed)
  BY <1>25 DEF Becomes
<1>27. BrokerList(parsed, a) = l
  BY <1>23, ConfigBlockFacts DEF ConfigAt, BrokerList, PointerIn
<1>28. PICK empty : empty = (Count(parsed, l) = 0)
  OBVIOUS
<1>29. PICK last : last = IF empty THEN ConfigurationDestroy(parsed, a) ELSE parsed
  OBVIOUS
<1>30. PICK k : k = ListDestroy(last, strings)
  OBVIOUS
<1>31. made = [memory |-> k, returned |-> IF empty THEN Null ELSE a]
  BY <1>1, <1>2, <1>8, <1>9, <1>12, <1>19, <1>27, <1>28, <1>29, <1>30, Zenon
     DEF ConfigurationCreate
<1>32. CASE empty
  <2>1. last = ConfigurationDestroy(parsed, a)
    BY <1>29, <1>32
  <2>2. Becomes(parsed, D, last, {})
    BY <1>22, <1>23, <1>26, <2>1, ConfigFreed
  <2>3. Heap(last) /\ ListAt(last, strings, ns1, ds1)
    <3>1. \A x \in Feet(strings, ns1, ds1) : x \notin D
      BY <1>15, <1>24
    <3>2. ListAt(last, strings, ns1, ds1)
      BY <1>24, <2>2, <3>1, ListKept
    <3>3. QED
      BY <2>2, <3>2 DEF Becomes
  <2>4. Becomes(last, S, k, {})
    BY <1>15, <1>30, <2>3, ListDestroyed
  <2>5. Becomes(parsed, D \cup S, k, {})
    BY <2>2, <2>4, BecomesFreed
  <2>6. Becomes(m, {}, k, {})
    BY <1>25, <2>5, BecomesTrans
  <2>7. QED
    BY <1>31, <1>32, <2>6
<1>33. CASE ~empty
  <2>1. k = ListDestroy(parsed, strings)
    BY <1>29, <1>30, <1>33
  <2>2. Becomes(parsed, S, k, {})
    BY <1>15, <1>24, <1>26, <2>1, ListDestroyed
  <2>3. ConfigAt(k, a, l, ns, ds, t, g) /\ ConfigFeet(k, a, l, ns, ds, t, g) = D
    <3>1. \A x \in ConfigFeet(parsed, a, l, ns, ds, t, g) : x \notin S
      BY <1>22, <1>24
    <3>2. QED
      BY <1>22, <1>23, <2>2, <3>1, ConfigKept
  <2>4. S \subseteq D \cup S
    OBVIOUS
  <2>5. Becomes(m, {}, k, {} \cup ((D \cup S) \ S))
    BY <1>25, <2>2, <2>4, BecomesWithin
  <2>6. {} \cup ((D \cup S) \ S) = D
    BY <1>24
  <2>7. Becomes(m, {}, k, ConfigFeet(k, a, l, ns, ds, t, g))
    BY <2>3, <2>5, <2>6
  <2>8. a \in Address
    BY <1>1, NewAddressFacts DEF Heap, Address
  <2>9. made.memory = k /\ made.returned = a
    BY <1>31, <1>33
  <2>10. QED
    BY <2>3, <2>7, <2>8, <2>9
<1>34. QED
  BY <1>32, <1>33

-----------------------------------------------------------------------------
(* All of the memory.                                                      *)

Roots == Handles \cup {"configuration"}

\* What is at the address a of this root, in a memory where the configuration is at g,
\* consists of the blocks F.
Shaped(m, g, r, a, F) ==
    /\ a = Null => F = {}
    /\ a # Null =>
         /\ r = "configuration" =>
              \E l, ns, ds, t, o : /\ ConfigAt(m, a, l, ns, ds, t, o)
                                   /\ F = ConfigFeet(m, a, l, ns, ds, t, o)
         /\ r \in PublisherOrConsumer =>
              /\ g # Null
              /\ \E c, t, x : ClientAt(m, g, a, c, t, x) /\ F = ClientFeet(m, a, c, t, x)
         /\ r \in {"message", "batch"} => FilledAt(m, a) /\ F = Owned(m, a)
         /\ r = "metadata" =>
              \E b, s : MetadataAt(m, a, b, s) /\ F = MetadataFeet(m, a, b, s)

\* A change beside a shape leaves it as it is.
LEMMA ShapedKept ==
  ASSUME NEW m, NEW S, NEW k, NEW T, Becomes(m, S, k, T),
         NEW g, NEW r, NEW a, NEW F, Shaped(m, g, r, a, F), \A x \in F : x \notin S
  PROVE  Shaped(k, g, r, a, F)
<1>1. ASSUME a # Null, r = "configuration"
      PROVE  \E l, ns, ds, t, o : /\ ConfigAt(k, a, l, ns, ds, t, o)
                                  /\ F = ConfigFeet(k, a, l, ns, ds, t, o)
  <2>1. PICK l, ns, ds, t, o : /\ ConfigAt(m, a, l, ns, ds, t, o)
                               /\ F = ConfigFeet(m, a, l, ns, ds, t, o)
    BY <1>1 DEF Shaped
  <2>2. \A x \in ConfigFeet(m, a, l, ns, ds, t, o) : x \notin S
    BY <2>1
  <2>3. /\ ConfigAt(k, a, l, ns, ds, t, o)
        /\ ConfigFeet(k, a, l, ns, ds, t, o) = ConfigFeet(m, a, l, ns, ds, t, o)
    BY <2>1, <2>2, ConfigKept
  <2>4. QED
    BY <2>1, <2>3
<1>2. ASSUME a # Null, r \in PublisherOrConsumer
      PROVE  /\ g # Null
             /\ \E c, t, x : ClientAt(k, g, a, c, t, x) /\ F = ClientFeet(k, a, c, t, x)
  <2>1. PICK c, t, x : ClientAt(m, g, a, c, t, x) /\ F = ClientFeet(m, a, c, t, x)
    BY <1>2 DEF Shaped
  <2>2. \A y \in ClientFeet(m, a, c, t, x) : y \notin S
    BY <2>1
  <2>3. ClientAt(k, g, a, c, t, x) /\ ClientFeet(k, a, c, t, x) = ClientFeet(m, a, c, t, x)
    BY <2>1, <2>2, ClientKept
  <2>4. g # Null
    BY <1>2 DEF Shaped
  <2>5. QED
    BY <2>1, <2>3, <2>4
<1>3. ASSUME a # Null, r \in {"message", "batch"}
      PROVE  FilledAt(k, a) /\ F = Owned(k, a)
  <2>1. FilledAt(m, a) /\ F = Owned(m, a)
    BY <1>3 DEF Shaped
  <2>2. \A y \in Owned(m, a) : y \notin S
    BY <2>1
  <2>3. QED
    BY <2>1, <2>2, FilledKept
<1>4. ASSUME a # Null, r = "metadata"
      PROVE  \E b, s : MetadataAt(k, a, b, s) /\ F = MetadataFeet(k, a, b, s)
  <2>1. PICK b, s : MetadataAt(m, a, b, s) /\ F = MetadataFeet(m, a, b, s)
    BY <1>4 DEF Shaped
  <2>2. \A y \in MetadataFeet(m, a, b, s) : y \notin S
    BY <2>1
  <2>3. MetadataAt(k, a, b, s) /\ MetadataFeet(k, a, b, s) = MetadataFeet(m, a, b, s)
    BY <2>1, <2>2, MetadataKept
  <2>4. QED
    BY <2>1, <2>3
<1>5. a = Null => F = {}
  BY DEF Shaped
<1>6. QED
  BY <1>1, <1>2, <1>3, <1>4, <1>5 DEF Shaped

\* The memory consists of what is at these addresses, each with blocks of its own.
Laid(m, g, at, feet) ==
    /\ Heap(m)
    /\ \A r \in Roots : Shaped(m, g, r, at[r], feet[r])
    /\ \A r, s \in Roots : r # s => \A x \in feet[r] : x \notin feet[s]
    /\ \A x : x \in Live(m) <=> \E r \in Roots : x \in feet[r]

\* What is at one of the addresses changes.
LEMMA LaidStep ==
  ASSUME NEW m, NEW g, NEW at, NEW feet, Laid(m, g, at, feet),
         NEW r \in Roots, NEW k, NEW G, Becomes(m, feet[r], k, G),
         NEW h, NEW b, Shaped(k, h, r, b, G),
         h = g \/ \A s \in Roots : s # r => at[s] = Null,
         NEW at2, \A s \in Roots : at2[s] = IF s = r THEN b ELSE at[s],
         NEW feet2, \A s \in Roots : feet2[s] = IF s = r THEN G ELSE feet[s]
  PROVE  Laid(k, h, at2, feet2)
<1>1. \A s \in Roots : s # r => \A x \in feet[s] : x \notin feet[r]
  BY DEF Laid
<1>2. \A s \in Roots : feet[s] \subseteq Live(m)
  BY DEF Laid
<1>3. \A s \in Roots : s # r => \A x \in feet[s] : x \notin G /\ x \in Live(k)
  BY <1>1, <1>2 DEF Becomes
<1>4. Heap(k) /\ G \subseteq Live(k)
  BY DEF Becomes
<1>5. ASSUME NEW s \in Roots PROVE Shaped(k, h, s, at2[s], feet2[s])
  <2>1. CASE s = r
    BY <2>1
  <2>2. CASE s # r
    <3>1. PICK a, F : a = at[s] /\ F = feet[s]
      OBVIOUS
    <3>2. at2[s] = a /\ feet2[s] = F
      BY <2>2, <3>1
    <3>3. Shaped(m, g, s, a, F)
      BY <3>1 DEF Laid
    <3>4. CASE h = g
      <4>1. PICK R : R = feet[r]
        OBVIOUS
      <4>2. Becomes(m, R, k, G) /\ \A x \in F : x \notin R
        BY <1>1, <2>2, <3>1, <4>1
      <4>3. Shaped(k, g, s, a, F)
        BY <3>3, <4>2, ShapedKept
      <4>4. QED
        BY <3>2, <3>4, <4>3
    <3>5. CASE h # g
      <4>1. a = Null
        BY <2>2, <3>1, <3>5
      <4>2. F = {}
        BY <3>3, <4>1 DEF Shaped
      <4>3. QED
        BY <3>2, <4>1, <4>2 DEF Shaped
    <3>6. QED
      BY <3>4, <3>5
  <2>3. QED
    BY <2>1, <2>2
<1>6. \A s, u \in Roots : s # u => \A x \in feet2[s] : x \notin feet2[u]
  BY <1>3 DEF Laid
<1>7. ASSUME NEW x PROVE x \in Live(k) <=> \E s \in Roots : x \in feet2[s]
  <2>1. ASSUME x \in Live(k) PROVE \E s \in Roots : x \in feet2[s]
    <3>1. CASE x \in G
      BY <3>1
    <3>2. CASE x \notin G
      <4>1. x \in Live(m) /\ x \notin feet[r]
        BY <2>1, <3>2 DEF Becomes
      <4>2. PICK s \in Roots : x \in feet[s]
        BY <4>1 DEF Laid
      <4>3. s # r /\ feet2[s] = feet[s]
        BY <4>1, <4>2
      <4>4. QED
        BY <4>2, <4>3
    <3>3. QED
      BY <3>1, <3>2
  <2>2. ASSUME NEW s \in Roots, x \in feet2[s] PROVE x \in Live(k)
    BY <1>3, <1>4, <2>2
  <2>3. QED
    BY <2>1, <2>2
<1>8. QED
  BY <1>4, <1>5, <1>6, <1>7 DEF Laid

Addresses == [r \in Roots |-> IF r = "configuration" THEN ClientConfiguration ELSE handle[r]]

\* The inductive invariant: the memory consists of what the configuration and the
\* objects of the application lead to, and each of these has its shape.
LibInv ==
    /\ ClientConfiguration \in Nat /\ handle \in [Handles -> Nat] /\ written \in Seq(Definition)
    /\ \E feet : Laid(memory, ClientConfiguration, Addresses, feet)

\* What is at a root, and consists of F, is now at b.
Moves(m, F, k, g, r, b) == \E G : Becomes(m, F, k, G) /\ Shaped(k, g, r, b, G)

\* What the list of a configuration says of itself is what its shape says.
LEMMA ConfigFacts ==
  ASSUME NEW m, Heap(m), NEW a, NEW l, NEW ns, NEW ds, NEW t, NEW o,
         ConfigAt(m, a, l, ns, ds, t, o)
  PROVE  /\ BrokerList(m, a) = l /\ Nodes(m, l) = ns /\ Items(m, l) = ds
         /\ Count(m, l) = Len(ds) /\ ListAt(m, l, ns, ds)
<1>1. ListAt(m, l, ns, ds)
  BY DEF ConfigAt
<1>2. BrokerList(m, a) = l
  BY ConfigBlockFacts DEF ConfigAt, BrokerList, PointerIn
<1>3. Nodes(m, l) = ns
  BY <1>1, NodesOfList
<1>4. Items(m, l) = ds /\ Count(m, l) = Len(ds)
  BY <1>1, ListItems
<1>5. QED
  BY <1>1, <1>2, <1>3, <1>4

\* The list of the configuration is not touched by what happens elsewhere.
LEMMA ItemsKept ==
  ASSUME NEW m, NEW g, NEW a, NEW F, Shaped(m, g, "configuration", a, F), a # Null,
         NEW S, NEW k, NEW T, Becomes(m, S, k, T), \A x \in F : x \notin S
  PROVE  Items(k, BrokerList(k, a)) = Items(m, BrokerList(m, a))
<1>1. PICK l, ns, ds, t, o : /\ ConfigAt(m, a, l, ns, ds, t, o)
                             /\ F = ConfigFeet(m, a, l, ns, ds, t, o)
  BY DEF Shaped
<1>2. \A x \in ConfigFeet(m, a, l, ns, ds, t, o) : x \notin S
  BY <1>1
<1>3. ConfigAt(k, a, l, ns, ds, t, o)
  BY <1>1, <1>2, ConfigKept
<1>4. Heap(m) /\ Heap(k)
  BY DEF Becomes
<1>5. BrokerList(m, a) = l /\ Items(m, l) = ds
  BY <1>1, <1>4, ConfigFacts
<1>6. BrokerList(k, a) = l /\ Items(k, l) = ds
  BY <1>3, <1>4, ConfigFacts
<1>7. QED
  BY <1>5, <1>6

\* A change at one root leaves the memory laid out.
LEMMA RootMoves ==
  ASSUME NEW m, NEW g, NEW at, NEW feet, Laid(m, g, at, feet), NEW r \in Roots,
         NEW k, NEW h, NEW b, Moves(m, feet[r], k, h, r, b),
         h = g \/ \A s \in Roots : s # r => at[s] = Null,
         NEW at2, \A s \in Roots : at2[s] = IF s = r THEN b ELSE at[s]
  PROVE  \E feet2 : Laid(k, h, at2, feet2)
<1>1. PICK G : Becomes(m, feet[r], k, G) /\ Shaped(k, h, r, b, G)
  BY DEF Moves
<1>2. PICK feet2 : feet2 = [s \in Roots |-> IF s = r THEN G ELSE feet[s]]
  OBVIOUS
<1>3. \A s \in Roots : feet2[s] = IF s = r THEN G ELSE feet[s]
  BY <1>2
<1>4. Laid(k, h, at2, feet2)
  BY <1>1, <1>3, LaidStep
<1>5. QED
  BY <1>4

\* A change at one object keeps the invariant and the list of brokers.
LEMMA ObjectMoves ==
  ASSUME LibInv, NEW h \in Handles, NEW b \in Nat, NEW feet,
         Laid(memory, ClientConfiguration, Addresses, feet),
         Moves(memory, feet[h], memory', ClientConfiguration, h, b),
         handle' = [handle EXCEPT ![h] = b],
         UNCHANGED <<ClientConfiguration, written>>
  PROVE  LibInv' /\ BrokerItems' = BrokerItems
<1>1. handle \in [Handles -> Nat] /\ h \in Roots /\ h # "configuration"
  BY DEF LibInv, Roots, Handles
<1>2. handle' \in [Handles -> Nat] /\ \A s \in Handles : handle'[s] = IF s = h THEN b ELSE handle[s]
  BY <1>1
<1>3. ASSUME NEW s \in Roots PROVE Addresses'[s] = IF s = h THEN b ELSE Addresses[s]
  <2>1. s # "configuration" => s \in Handles
    BY DEF Roots
  <2>2. QED
    BY <1>1, <1>2, <2>1 DEF Addresses
<1>4. PICK at2 : at2 = Addresses'
  OBVIOUS
<1>5. \A s \in Roots : at2[s] = IF s = h THEN b ELSE Addresses[s]
  BY <1>3, <1>4
<1>6. PICK k, g : k = memory' /\ g = ClientConfiguration
  OBVIOUS
<1>7. PICK at : at = Addresses
  OBVIOUS
<1>8. PICK m : m = memory
  OBVIOUS
<1>9. Laid(m, g, at, feet) /\ Moves(m, feet[h], k, g, h, b)
  BY <1>6, <1>7, <1>8
<1>10. \E feet2 : Laid(k, g, at2, feet2)
  BY <1>1, <1>5, <1>7, <1>9, RootMoves
<1>11. LibInv'
  BY <1>2, <1>4, <1>6, <1>10 DEF LibInv
<1>12. BrokerItems' = BrokerItems
  <2>1. CASE g = Null
    BY <1>6, <2>1 DEF BrokerItems
  <2>2. CASE g # Null
    <3>1. PICK F, S : F = feet["configuration"] /\ S = feet[h]
      OBVIOUS
    <3>2. "configuration" \in Roots /\ at["configuration"] = g
      BY <1>6, <1>7 DEF Roots, Addresses
    <3>3. Shaped(m, g, "configuration", g, F) /\ \A x \in F : x \notin S
      BY <1>1, <1>9, <3>1, <3>2 DEF Laid
    <3>4. PICK G : Becomes(m, S, k, G)
      BY <1>9, <3>1 DEF Moves
    <3>5. Items(k, BrokerList(k, g)) = Items(m, BrokerList(m, g))
      BY <2>2, <3>3, <3>4, ItemsKept
    <3>6. QED
      BY <1>6, <1>8, <2>2, <3>5 DEF BrokerItems, list
  <2>3. QED
    BY <2>1, <2>2
<1>13. QED
  BY <1>11, <1>12

\* An object that is made, used or given up.
LEMMA ObjectMade ==
  ASSUME LibInv, NEW h \in Handles, NEW after, Make(h, after),
         Moves(memory, {}, after, ClientConfiguration, h, NewAddress(memory))
  PROVE  LibInv' /\ BrokerItems' = BrokerItems
<1>1. PICK feet : Laid(memory, ClientConfiguration, Addresses, feet)
  BY DEF LibInv
<1>2. Addresses[h] = handle[h] /\ h \in Roots
  BY DEF Addresses, Roots, Handles
<1>3. handle[h] = Null
  BY DEF Make
<1>4. Shaped(memory, ClientConfiguration, h, Addresses[h], feet[h]) /\ Heap(memory)
  BY <1>1, <1>2 DEF Laid
<1>5. feet[h] = {}
  BY <1>2, <1>3, <1>4 DEF Shaped
<1>6. PICK b : b = NewAddress(memory)
  OBVIOUS
<1>7. b \in Nat
  BY <1>4, <1>6, NewAddressFacts DEF Heap
<1>8. /\ Moves(memory, feet[h], memory', ClientConfiguration, h, b)
      /\ handle' = [handle EXCEPT ![h] = b] /\ UNCHANGED <<ClientConfiguration, written>>
  BY <1>5, <1>6 DEF Make
<1>9. QED
  BY <1>1, <1>7, <1>8, ObjectMoves

\* An object that is used keeps its shape.
LEMMA ObjectUsed ==
  ASSUME LibInv, NEW h \in Handles, NEW after, Use(h, after),
         \A F : Shaped(memory, ClientConfiguration, h, handle[h], F) =>
           Moves(memory, F, after, ClientConfiguration, h, handle[h])
  PROVE  LibInv' /\ BrokerItems' = BrokerItems
<1>1. PICK feet : Laid(memory, ClientConfiguration, Addresses, feet)
  BY DEF LibInv
<1>2. Addresses[h] = handle[h] /\ h \in Roots
  BY DEF Addresses, Roots, Handles
<1>3. Shaped(memory, ClientConfiguration, h, Addresses[h], feet[h])
  BY <1>1, <1>2 DEF Laid
<1>4. PICK b : b = handle[h]
  OBVIOUS
<1>5. b \in Nat /\ [handle EXCEPT ![h] = b] = handle
  BY <1>4 DEF LibInv
<1>6. Moves(memory, feet[h], after, ClientConfiguration, h, b)
  BY <1>2, <1>3, <1>4
<1>7. /\ Moves(memory, feet[h], memory', ClientConfiguration, h, b)
      /\ handle' = [handle EXCEPT ![h] = b] /\ UNCHANGED <<ClientConfiguration, written>>
  BY <1>5, <1>6 DEF Use
<1>8. QED
  BY <1>1, <1>5, <1>7, ObjectMoves

\* An object that is destroyed leaves none of its blocks.
LEMMA ObjectDisposed ==
  ASSUME LibInv, NEW h \in Handles, NEW after, Dispose(h, after),
         \A F : Shaped(memory, ClientConfiguration, h, handle[h], F) =>
           Becomes(memory, F, after, {})
  PROVE  LibInv' /\ BrokerItems' = BrokerItems
<1>1. PICK feet : Laid(memory, ClientConfiguration, Addresses, feet)
  BY DEF LibInv
<1>2. Addresses[h] = handle[h] /\ h \in Roots
  BY DEF Addresses, Roots, Handles
<1>3. Shaped(memory, ClientConfiguration, h, Addresses[h], feet[h])
  BY <1>1, <1>2 DEF Laid
<1>4. Becomes(memory, feet[h], after, {})
  BY <1>2, <1>3
<1>5. Shaped(after, ClientConfiguration, h, Null, {})
  BY DEF Shaped
<1>6. Moves(memory, feet[h], after, ClientConfiguration, h, Null)
  BY <1>4, <1>5 DEF Moves
<1>7. /\ Moves(memory, feet[h], memory', ClientConfiguration, h, Null) /\ Null \in Nat
      /\ handle' = [handle EXCEPT ![h] = Null] /\ UNCHANGED <<ClientConfiguration, written>>
  BY <1>6 DEF Dispose, Null
<1>8. QED
  BY <1>1, <1>7, ObjectMoves

-----------------------------------------------------------------------------
(* The objects of the application, one action after the other.             *)

\* The memory is always well formed and its total right.
LEMMA LaidHeap ==
  ASSUME LibInv
  PROVE  Heap(memory)
BY DEF LibInv, Laid

LEMMA ClientObjectCreated ==
  ASSUME LibInv, NEW h \in PublisherOrConsumer, ClientObjectCreate(h)
  PROVE  LibInv' /\ BrokerItems' = BrokerItems
<1>1. PICK o : o = NewAddress(memory)
  OBVIOUS
<1>2. PICK bare : bare = AllocateMemory(memory, ObjectBlock(Null))
  OBVIOUS
<1>3. PICK c : c = NewAddress(bare)
  OBVIOUS
<1>4. PICK k : k = SetPointer(ClientCreate(bare, o), o, "Client", c)
  OBVIOUS
<1>5. ClientConfiguration # Null /\ Make(h, k)
  BY <1>1, <1>2, <1>3, <1>4 DEF ClientObjectCreate, ObjectBlock
<1>6. Heap(memory)
  BY LaidHeap
<1>7. \E t, r : /\ ClientAt(k, ClientConfiguration, o, c, t, r)
                /\ Becomes(memory, {}, k, ClientFeet(k, o, c, t, r))
  BY <1>1, <1>2, <1>3, <1>4, <1>6, ClientMade
<1>8. PICK t, r : /\ ClientAt(k, ClientConfiguration, o, c, t, r)
                  /\ Becomes(memory, {}, k, ClientFeet(k, o, c, t, r))
  BY <1>7
<1>9. o # Null
  BY <1>1, <1>6, NewAddressFacts DEF Heap, Null
<1>10. Shaped(k, ClientConfiguration, h, o, ClientFeet(k, o, c, t, r))
  BY <1>5, <1>8, <1>9 DEF Shaped, PublisherOrConsumer
<1>11. Moves(memory, {}, k, ClientConfiguration, h, NewAddress(memory))
  BY <1>1, <1>8, <1>10 DEF Moves
<1>12. h \in Handles
  BY DEF Handles, PublisherOrConsumer
<1>13. QED
  BY <1>5, <1>11, <1>12, ObjectMade

\* The client that is found through the handle.
LEMMA ClientFound ==
  ASSUME NEW m, NEW g, NEW o, NEW c, NEW t, NEW r, ClientAt(m, g, o, c, t, r)
  PROVE  /\ PointerIn(m, o, "Client") = c
         /\ PointerIn(m, c, "TxQueue") = t /\ PointerIn(m, c, "RxQueue") = r
BY ObjectBlockFacts, ClientBlockFacts DEF ClientAt, PointerIn

LEMMA BuffersUsed ==
  ASSUME LibInv, NEW h \in PublisherOrConsumer, handle[h] # Null, Buffers(h)
  PROVE  LibInv' /\ BrokerItems' = BrokerItems
<1>1. PICK queue \in {"TxQueue", "RxQueue"}, n \in 1..MaxChunks :
        Use(h, BufferSetMemorySize(memory, PointerIn(memory, ClientOf(h), queue), n))
  BY DEF Buffers
<1>2. PICK k : k = BufferSetMemorySize(memory, PointerIn(memory, ClientOf(h), queue), n)
  OBVIOUS
<1>3. Use(h, k)
  BY <1>1, <1>2
<1>4. Heap(memory)
  BY LaidHeap
<1>5. ASSUME NEW F, Shaped(memory, ClientConfiguration, h, handle[h], F)
      PROVE  Moves(memory, F, k, ClientConfiguration, h, handle[h])
  <2>1. PICK o, g : o = handle[h] /\ g = ClientConfiguration
    OBVIOUS
  <2>2. g # Null /\ \E c, t, r : ClientAt(memory, g, o, c, t, r) /\ F = ClientFeet(memory, o, c, t, r)
    BY <1>5, <2>1 DEF Shaped
  <2>3. PICK c, t, r : ClientAt(memory, g, o, c, t, r) /\ F = ClientFeet(memory, o, c, t, r)
    BY <2>2
  <2>4. PICK b : b = PointerIn(memory, ClientOf(h), queue)
    OBVIOUS
  <2>5. b \in {t, r}
    BY <1>1, <2>1, <2>3, <2>4, ClientFound DEF ClientOf
  <2>6. k = BufferSetMemorySize(memory, b, n) /\ n \in Nat
    BY <1>2, <2>4
  <2>7. /\ ClientAt(k, g, o, c, t, r)
        /\ Becomes(memory, ClientFeet(memory, o, c, t, r), k, ClientFeet(k, o, c, t, r))
    BY <1>4, <2>3, <2>5, <2>6, ClientResized
  <2>8. Shaped(k, g, h, o, ClientFeet(k, o, c, t, r))
    BY <2>1, <2>2, <2>7 DEF Shaped, PublisherOrConsumer
  <2>9. QED
    BY <2>1, <2>3, <2>7, <2>8 DEF Moves
<1>6. h \in Handles
  BY DEF Handles, PublisherOrConsumer
<1>7. QED
  BY <1>3, <1>5, <1>6, ObjectUsed

LEMMA ClientObjectDestroyed ==
  ASSUME LibInv, NEW h \in PublisherOrConsumer, ClientObjectDestroy(h)
  PROVE  LibInv' /\ BrokerItems' = BrokerItems
<1>1. PICK k : k = FreeMemory(ClientDestroy(memory, ClientOf(h)), handle[h])
  OBVIOUS
<1>2. handle[h] # Null /\ Dispose(h, k)
  BY <1>1 DEF ClientObjectDestroy
<1>3. Heap(memory)
  BY LaidHeap
<1>4. ASSUME NEW F, Shaped(memory, ClientConfiguration, h, handle[h], F)
      PROVE  Becomes(memory, F, k, {})
  <2>1. PICK o, g : o = handle[h] /\ g = ClientConfiguration
    OBVIOUS
  <2>2. PICK c, t, r : ClientAt(memory, g, o, c, t, r) /\ F = ClientFeet(memory, o, c, t, r)
    BY <1>2, <1>4, <2>1 DEF Shaped
  <2>3. ClientOf(h) = c
    BY <2>1, <2>2, ClientFound DEF ClientOf
  <2>4. k = FreeMemory(ClientDestroy(memory, c), o)
    BY <1>1, <2>1, <2>3
  <2>5. QED
    BY <1>3, <2>2, <2>4, ClientFreed
<1>5. h \in Handles
  BY DEF Handles, PublisherOrConsumer
<1>6. QED
  BY <1>2, <1>4, <1>5, ObjectDisposed

LEMMA FilledCreated ==
  ASSUME LibInv, NEW h \in {"message", "batch"}, NEW b, NEW fields, Fit(b, fields),
         b.value = fields,
         Make(h, AllocateEach(AllocateMemory(memory, b), NewAddress(memory), fields))
  PROVE  LibInv' /\ BrokerItems' = BrokerItems
<1>1. PICK a : a = NewAddress(memory)
  OBVIOUS
<1>2. PICK k : k = AllocateEach(AllocateMemory(memory, b), a, fields)
  OBVIOUS
<1>3. Heap(memory)
  BY LaidHeap
<1>4. FilledAt(k, a) /\ Becomes(memory, {}, k, Owned(k, a))
  BY <1>1, <1>2, <1>3, FilledMade
<1>5. a # Null
  BY <1>1, <1>3, NewAddressFacts DEF Heap, Null
<1>6. Shaped(k, ClientConfiguration, h, a, Owned(k, a))
  BY <1>4, <1>5 DEF Shaped, PublisherOrConsumer
<1>7. Moves(memory, {}, k, ClientConfiguration, h, NewAddress(memory))
  BY <1>1, <1>4, <1>6 DEF Moves
<1>8. Make(h, k) /\ h \in Handles
  BY <1>1, <1>2 DEF Handles
<1>9. QED
  BY <1>7, <1>8, ObjectMade

LEMMA FilledDestroyed ==
  ASSUME LibInv, NEW h \in {"message", "batch"}, handle[h] # Null,
         Dispose(h, FreeWith(memory, handle[h], memory.block[handle[h]].value))
  PROVE  LibInv' /\ BrokerItems' = BrokerItems
<1>1. PICK a : a = handle[h]
  OBVIOUS
<1>2. PICK fields : fields = memory.block[a].value
  OBVIOUS
<1>3. PICK k : k = FreeWith(memory, a, fields)
  OBVIOUS
<1>4. Heap(memory)
  BY LaidHeap
<1>5. ASSUME NEW F, Shaped(memory, ClientConfiguration, h, handle[h], F)
      PROVE  Becomes(memory, F, k, {})
  <2>1. FilledAt(memory, a) /\ F = Owned(memory, a)
    BY <1>1, <1>5 DEF Shaped
  <2>2. Keeps(memory, a, fields)
    BY <1>2, <2>1 DEF FilledAt
  <2>3. QED
    BY <1>3, <1>4, <2>1, <2>2, KeepsFreed
<1>6. Dispose(h, k) /\ h \in Handles
  BY <1>1, <1>2, <1>3 DEF Handles
<1>7. QED
  BY <1>5, <1>6, ObjectDisposed

LEMMA MessageCreated ==
  ASSUME LibInv, NEW CopyData \in BOOLEAN, MessageCreate(CopyData)
  PROVE  LibInv' /\ BrokerItems' = BrokerItems
<1>1. PICK fields : fields = IF CopyData THEN <<"Data">> ELSE << >>
  OBVIOUS
<1>2. PICK b : b = Block(1, [Data |-> Null], fields)
  OBVIOUS
<1>3. Fit(b, fields) /\ b.value = fields
  <2>1. Blank(b) /\ DOMAIN b.pointer = {"Data"} /\ b.value = fields
    BY <1>2 DEF Blank, IsBlock, Block
  <2>2. fields \in Seq({"Data"})
    BY <1>1, ShortSeqs
  <2>3. Distinct(fields)
    <3>1. DOMAIN fields \subseteq {1}
      BY <1>1
    <3>2. QED
      BY <3>1 DEF Distinct
  <2>4. QED
    BY <2>1, <2>2, <2>3 DEF Fit
<1>4. Make("message", AllocateEach(AllocateMemory(memory, b), NewAddress(memory), fields))
  BY <1>1, <1>2 DEF MessageCreate
<1>5. QED
  BY <1>3, <1>4, FilledCreated

LEMMA BatchCreated ==
  ASSUME LibInv, NEW copied \in Some(2), BatchCreate(copied)
  PROVE  LibInv' /\ BrokerItems' = BrokerItems
<1>1. PICK b : b = Block(1, [k \in 1..2 |-> Null], copied)
  OBVIOUS
<1>2. Fit(b, copied) /\ b.value = copied
  <2>1. Blank(b) /\ DOMAIN b.pointer = 1..2 /\ b.value = copied
    BY <1>1 DEF Blank, IsBlock, Block
  <2>2. copied \in Seq(1..2) /\ Distinct(copied)
    BY SomeFacts
  <2>3. QED
    BY <2>1, <2>2 DEF Fit
<1>3. Make("batch", AllocateEach(AllocateMemory(memory, b), NewAddress(memory), copied))
  BY <1>1 DEF BatchCreate
<1>4. QED
  BY <1>2, <1>3, FilledCreated

LEMMA MetadataCreated ==
  ASSUME LibInv, MetadataCreate
  PROVE  LibInv' /\ BrokerItems' = BrokerItems
<1>1. PICK a : a = NewAddress(memory)
  OBVIOUS
<1>2. PICK k : k = AllocateMemory(memory, MetadataBlock(Null, Null))
  OBVIOUS
<1>3. Make("metadata", k)
  BY <1>2 DEF MetadataCreate, MetadataBlock, NoMetadata
<1>4. Heap(memory)
  BY LaidHeap
<1>5. /\ MetadataAt(k, a, Null, Null)
      /\ Becomes(memory, {}, k, MetadataFeet(k, a, Null, Null))
  BY <1>1, <1>2, <1>4, MetadataMade
<1>6. Shaped(k, ClientConfiguration, "metadata", a, MetadataFeet(k, a, Null, Null))
  BY <1>5, <1>1, <1>4, NewAddressFacts DEF Shaped, PublisherOrConsumer, Heap, Null
<1>7. Moves(memory, {}, k, ClientConfiguration, "metadata", NewAddress(memory))
  BY <1>1, <1>5, <1>6 DEF Moves
<1>8. "metadata" \in Handles
  BY DEF Handles
<1>9. QED
  BY <1>3, <1>7, <1>8, ObjectMade

LEMMA MetadataFilled ==
  ASSUME LibInv, NEW brokers \in BOOLEAN, NEW n \in 0..MaxListed, NEW replicated \in Some(n),
         Metadata(brokers, n, replicated)
  PROVE  LibInv' /\ BrokerItems' = BrokerItems
<1>1. PICK a : a = handle["metadata"]
  OBVIOUS
<1>2. PICK m1 : m1 = IF brokers THEN AllocateInto(memory, a, "BrokerMetadataList", Plain)
                     ELSE memory
  OBVIOUS
<1>3. PICK s : s = NewAddress(m1)
  OBVIOUS
<1>4. PICK m2 : m2 = AllocateEach(AllocateInto(m1, a, "StreamMetadataList", StreamsBlock(n)),
                                  s, replicated)
  OBVIOUS
<1>5. PICK k : k = IF n = 0 THEN m1 ELSE m2
  OBVIOUS
<1>6. a # Null /\ memory.block[a].pointer = NoMetadata /\ Use("metadata", k)
  BY <1>1, <1>2, <1>3, <1>4, <1>5, Zenon DEF Metadata, StreamsBlock
<1>7. Heap(memory) /\ n \in Nat
  BY LaidHeap
<1>8. ASSUME NEW F, Shaped(memory, ClientConfiguration, "metadata", handle["metadata"], F)
      PROVE  Moves(memory, F, k, ClientConfiguration, "metadata", handle["metadata"])
  <2>1. PICK b0, s0 : MetadataAt(memory, a, b0, s0) /\ F = MetadataFeet(memory, a, b0, s0)
    BY <1>1, <1>6, <1>8 DEF Shaped
  <2>2. b0 = Null /\ s0 = Null
    BY <1>6, <2>1, MetadataBlockFacts DEF MetadataAt
  <2>3. MetadataAt(memory, a, Null, Null) /\ F = {a}
    BY <2>1, <2>2 DEF MetadataFeet, Its
  <2>4. \E b : /\ MetadataAt(m1, a, b, Null)
               /\ Becomes(memory, {a}, m1, MetadataFeet(m1, a, b, Null))
    BY <1>2, <1>7, <2>3, BrokersListed
  <2>5. PICK b : /\ MetadataAt(m1, a, b, Null)
                 /\ Becomes(memory, {a}, m1, MetadataFeet(m1, a, b, Null))
    BY <2>4
  <2>6. ASSUME NEW j, NEW x, MetadataAt(j, a, b, x), Becomes(memory, {a}, j, MetadataFeet(j, a, b, x))
        PROVE  Moves(memory, F, j, ClientConfiguration, "metadata", a)
    <3>1. Shaped(j, ClientConfiguration, "metadata", a, MetadataFeet(j, a, b, x))
      BY <1>6, <2>6 DEF Shaped, PublisherOrConsumer
    <3>2. QED
      BY <2>3, <2>6, <3>1 DEF Moves
  <2>7. CASE n = 0
    <3>1. k = m1
      BY <1>5, <2>7
    <3>2. Moves(memory, F, m1, ClientConfiguration, "metadata", a)
      BY <2>5, <2>6
    <3>3. QED
      BY <1>1, <3>1, <3>2
  <2>8. CASE n # 0
    <3>1. k = m2
      BY <1>5, <2>8
    <3>2. Heap(m1)
      BY <2>5 DEF Becomes
    <3>3. /\ MetadataAt(m2, a, b, s)
          /\ Becomes(m1, MetadataFeet(m1, a, b, Null), m2, MetadataFeet(m2, a, b, s))
      BY <1>3, <1>4, <1>7, <2>5, <3>2, StreamsListed
    <3>4. Becomes(memory, {a}, m2, MetadataFeet(m2, a, b, s))
      BY <2>5, <3>3, BecomesTrans
    <3>5. Moves(memory, F, m2, ClientConfiguration, "metadata", a)
      BY <2>6, <3>3, <3>4
    <3>6. QED
      BY <1>1, <3>1, <3>5
  <2>9. QED
    BY <2>7, <2>8
<1>9. "metadata" \in Handles
  BY DEF Handles
<1>10. QED
  BY <1>6, <1>8, <1>9, ObjectUsed

LEMMA MetadataDestroyed ==
  ASSUME LibInv, MetadataDestroy
  PROVE  LibInv' /\ BrokerItems' = BrokerItems
<1>1. PICK a : a = handle["metadata"]
  OBVIOUS
<1>2. PICK k : k = FreeMemory(StreamsFreed(FreeIfAny(memory,
                     PointerIn(memory, a, "BrokerMetadataList")), a), a)
  OBVIOUS
<1>3. a # Null /\ Dispose("metadata", k)
  BY <1>1, <1>2, Zenon DEF MetadataDestroy
<1>4. Heap(memory)
  BY LaidHeap
<1>5. ASSUME NEW F, Shaped(memory, ClientConfiguration, "metadata", handle["metadata"], F)
      PROVE  Becomes(memory, F, k, {})
  <2>1. PICK b, s : MetadataAt(memory, a, b, s) /\ F = MetadataFeet(memory, a, b, s)
    BY <1>1, <1>3, <1>5 DEF Shaped
  <2>2. Becomes(memory, MetadataFeet(memory, a, b, s), k, {})
    BY <1>2, <1>4, <2>1, MetadataFreed
  <2>3. QED
    BY <2>1, <2>2
<1>6. "metadata" \in Handles
  BY DEF Handles
<1>7. QED
  BY <1>3, <1>5, <1>6, ObjectDisposed

\* No action on an object disturbs the invariant or the list.
LEMMA ObjectsStep ==
  ASSUME LibInv, Objects
  PROVE  LibInv' /\ BrokerItems' = BrokerItems
<1>1. ASSUME NEW h \in PublisherOrConsumer,
             ClientObjectCreate(h) \/ (handle[h] # Null /\ Buffers(h)) \/ ClientObjectDestroy(h)
      PROVE  LibInv' /\ BrokerItems' = BrokerItems
  <2>1. CASE ClientObjectCreate(h)
    BY <2>1, ClientObjectCreated
  <2>2. CASE handle[h] # Null /\ Buffers(h)
    BY <2>2, BuffersUsed
  <2>3. CASE ClientObjectDestroy(h)
    BY <2>3, ClientObjectDestroyed
  <2>4. QED
    BY <1>1, <2>1, <2>2, <2>3
<1>2. ASSUME NEW CopyData \in BOOLEAN, MessageCreate(CopyData)
      PROVE  LibInv' /\ BrokerItems' = BrokerItems
  BY <1>2, MessageCreated
<1>3. CASE MessageDestroy
  BY <1>3, FilledDestroyed DEF MessageDestroy
<1>4. ASSUME NEW copied \in Some(2), BatchCreate(copied)
      PROVE  LibInv' /\ BrokerItems' = BrokerItems
  BY <1>4, BatchCreated
<1>5. CASE BatchDestroy
  BY <1>5, FilledDestroyed DEF BatchDestroy
<1>6. CASE MetadataCreate
  BY <1>6, MetadataCreated
<1>7. CASE MetadataDestroy
  BY <1>7, MetadataDestroyed
<1>8. ASSUME NEW brokers \in BOOLEAN, NEW streams \in 0..MaxListed,
             NEW replicated \in Some(streams), Metadata(brokers, streams, replicated)
      PROVE  LibInv' /\ BrokerItems' = BrokerItems
  BY <1>8, MetadataFilled
<1>9. QED
  BY <1>1, <1>2, <1>3, <1>4, <1>5, <1>6, <1>7, <1>8 DEF Objects

-----------------------------------------------------------------------------
(* The configuration.                                                      *)

\* The operators of ListSpec on sequences are those used here.
LEMMA SameOperators ==
  /\ \A s, i : Sequence!RemoveAt(s, i) = RemoveAt(s, i)
  /\ \A s, i, e : Sequence!InsertAt(s, i, e) = InsertAt(s, i, e)
  /\ \A S : Sequence!Min(S) = Min(S)
<1>1. \A s, i : Sequence!RemoveAt(s, i) = RemoveAt(s, i)
  BY DEF Sequence!RemoveAt, RemoveAt
<1>2. \A s, i, e : Sequence!InsertAt(s, i, e) = InsertAt(s, i, e)
  BY DEF Sequence!InsertAt, InsertAt
<1>3. \A S : Sequence!Min(S) = Min(S)
  BY Zenon DEF Sequence!Min, Min
<1>4. QED
  BY <1>1, <1>2, <1>3

LEMMA AddressesHere ==
  ASSUME LibInv
  PROVE  Addresses["configuration"] = ClientConfiguration /\ "configuration" \in Roots
BY DEF Addresses, Roots

Alone(at, r) == \A s \in Roots : s # r => at[s] = Null

Moved(at2, at, r, b) == \A s \in Roots : at2[s] = IF s = r THEN b ELSE at[s]

\* The only root there is may become another.
LEMMA AloneMoves ==
  ASSUME NEW m, NEW g, NEW at, NEW feet, Laid(m, g, at, feet), NEW r, r \in Roots,
         NEW k, NEW h, NEW b, Moves(m, feet[r], k, h, r, b), Alone(at, r),
         NEW at2, Moved(at2, at, r, b)
  PROVE  \E feet2 : Laid(k, h, at2, feet2)
<1>1. h = g \/ \A s \in Roots : s # r => at[s] = Null
  BY DEF Alone
<1>2. \A s \in Roots : at2[s] = IF s = r THEN b ELSE at[s]
  BY DEF Moved
<1>3. PICK G : Becomes(m, feet[r], k, G) /\ Shaped(k, h, r, b, G)
  BY DEF Moves
<1>4. PICK feet2 : feet2 = [s \in Roots |-> IF s = r THEN G ELSE feet[s]]
  OBVIOUS
<1>5. \A s \in Roots : feet2[s] = IF s = r THEN G ELSE feet[s]
  BY <1>4
<1>6. Laid(k, h, at2, feet2)
  BY <1>1, <1>2, <1>3, <1>5, LaidStep
<1>7. QED
  BY <1>6

\* A change at the configuration keeps the invariant.
LEMMA ConfigMoves ==
  ASSUME LibInv, Open = {}, NEW feet, Laid(memory, ClientConfiguration, Addresses, feet),
         Moves(memory, feet["configuration"], memory', ClientConfiguration', "configuration",
               ClientConfiguration'),
         ClientConfiguration' \in Nat, written' \in Seq(Definition), handle' = handle
  PROVE  LibInv'
<1>1. PICK at : at = Addresses
  OBVIOUS
<1>2. PICK at2 : at2 = Addresses'
  OBVIOUS
<1>3. PICK m, k, g, h : /\ m = memory /\ k = memory' /\ g = ClientConfiguration
                        /\ h = ClientConfiguration'
  OBVIOUS
<1>4. \A s \in Roots : s # "configuration" => at[s] = Null
  <2>1. \A s \in Handles : handle[s] = Null
    BY DEF Open
  <2>2. QED
    BY <1>1, <2>1 DEF Addresses, Roots
<1>5. \A s \in Roots : at2[s] = IF s = "configuration" THEN h ELSE at[s]
  BY <1>1, <1>2, <1>3 DEF Addresses
<1>6. Laid(m, g, at, feet) /\ Moves(m, feet["configuration"], k, h, "configuration", h)
  BY <1>1, <1>3
<1>7. "configuration" \in Roots
  BY AddressesHere
<1>8. \E feet2 : Laid(k, h, at2, feet2)
  <2>1. Alone(at, "configuration") /\ Moved(at2, at, "configuration", h)
    BY <1>4, <1>5 DEF Alone, Moved
  <2>2. QED
    BY <1>6, <1>7, <2>1, AloneMoves
<1>9. handle' \in [Handles -> Nat]
  BY DEF LibInv
<1>10. QED
  BY <1>2, <1>3, <1>8, <1>9 DEF LibInv

\* The configuration and its blocks, in a memory that has one.
Held(feet, l, ns, ds, t, o) ==
    /\ Laid(memory, ClientConfiguration, Addresses, feet)
    /\ ConfigAt(memory, ClientConfiguration, l, ns, ds, t, o)
    /\ feet["configuration"] = ConfigFeet(memory, ClientConfiguration, l, ns, ds, t, o)

\* A configuration that there is has its shape.
LEMMA ConfigHeld ==
  ASSUME LibInv, ClientConfiguration # Null
  PROVE  \E feet, l, ns, ds, t, o : Held(feet, l, ns, ds, t, o)
<1>1. PICK feet : Laid(memory, ClientConfiguration, Addresses, feet)
  BY DEF LibInv
<1>2. Shaped(memory, ClientConfiguration, "configuration", ClientConfiguration,
             feet["configuration"])
  BY <1>1, AddressesHere DEF Laid
<1>3. PICK l, ns, ds, t, o :
        /\ ConfigAt(memory, ClientConfiguration, l, ns, ds, t, o)
        /\ feet["configuration"] = ConfigFeet(memory, ClientConfiguration, l, ns, ds, t, o)
  BY <1>2 DEF Shaped
<1>4. Held(feet, l, ns, ds, t, o)
  BY <1>1, <1>3 DEF Held
<1>5. QED
  BY <1>4

\* The items that ListSpec speaks of are those of the shape.
LEMMA HeldItems ==
  ASSUME LibInv, ClientConfiguration # Null, NEW feet, NEW l, NEW ns, NEW ds, NEW t, NEW o,
         Held(feet, l, ns, ds, t, o)
  PROVE  /\ list = l /\ Nodes(memory, l) = ns /\ Items(memory, l) = ds
         /\ Count(memory, l) = Len(ds) /\ ListAt(memory, l, ns, ds)
         /\ BrokerItems = ds
<1>1. Heap(memory)
  BY LaidHeap
<1>2. ConfigAt(memory, ClientConfiguration, l, ns, ds, t, o)
  BY DEF Held
<1>3. /\ BrokerList(memory, ClientConfiguration) = l /\ Nodes(memory, l) = ns
      /\ Items(memory, l) = ds /\ Count(memory, l) = Len(ds) /\ ListAt(memory, l, ns, ds)
  BY <1>1, <1>2, ConfigFacts
<1>4. QED
  BY <1>3 DEF list, BrokerItems

\* The list becomes another one, and nothing else is touched.
LEMMA ListEdited ==
  ASSUME LibInv, Open = {}, ClientConfiguration # Null,
         NEW feet, NEW l, NEW ns, NEW ds, NEW t, NEW o, Held(feet, l, ns, ds, t, o),
         NEW ns2, NEW ds2, ListAt(memory', l, ns2, ds2),
         Becomes(memory, Feet(l, ns, ds), memory', Feet(l, ns2, ds2)),
         UNCHANGED <<ClientConfiguration, written, handle>>
  PROVE  LibInv' /\ BrokerItems' = ds2
<1>1. PICK m, k, g : m = memory /\ k = memory' /\ g = ClientConfiguration
  OBVIOUS
<1>2. ConfigAt(m, g, l, ns, ds, t, o) /\ g # Null
  BY <1>1 DEF Held
<1>3. ListAt(k, l, ns2, ds2) /\ Becomes(m, Feet(l, ns, ds), k, Feet(l, ns2, ds2))
  BY <1>1
<1>4. /\ ConfigAt(k, g, l, ns2, ds2, t, o)
      /\ Becomes(m, ConfigFeet(m, g, l, ns, ds, t, o), k, ConfigFeet(k, g, l, ns2, ds2, t, o))
  BY <1>2, <1>3, ConfigEdited
<1>5. Shaped(k, g, "configuration", g, ConfigFeet(k, g, l, ns2, ds2, t, o))
  BY <1>2, <1>4 DEF Shaped, PublisherOrConsumer
<1>6. Moves(m, ConfigFeet(m, g, l, ns, ds, t, o), k, g, "configuration", g)
  BY <1>4, <1>5 DEF Moves
<1>7. /\ Laid(memory, ClientConfiguration, Addresses, feet)
      /\ Moves(memory, feet["configuration"], memory', ClientConfiguration', "configuration",
               ClientConfiguration')
  BY <1>1, <1>6 DEF Held
<1>8. LibInv'
  <2>1. ClientConfiguration' \in Nat /\ written' \in Seq(Definition) /\ handle' = handle
    BY DEF LibInv
  <2>2. QED
    BY <1>7, <2>1, ConfigMoves
<1>9. BrokerItems' = ds2
  <2>1. Heap(k)
    BY <1>4 DEF Becomes
  <2>2. BrokerList(k, g) = l /\ Items(k, l) = ds2
    BY <1>4, <2>1, ConfigFacts
  <2>3. QED
    BY <1>1, <1>2, <2>2 DEF BrokerItems, list
<1>10. QED
  BY <1>8, <1>9

LEMMA NothingMoves ==
  ASSUME LibInv, UNCHANGED <<memory, ClientConfiguration, handle>>, written' \in Seq(Definition)
  PROVE  LibInv' /\ BrokerItems' = BrokerItems
BY DEF LibInv, Addresses, BrokerItems, list

\* No memory is in use at first.
LEMMA EmptyHeap == Heap(NoMemory)
<1>1. PICK m : m = NoMemory
  OBVIOUS
<1>2. m.block = [a \in {} |-> Null] /\ m.TotalUsedMemory = 0
      /\ m = [block |-> m.block, TotalUsedMemory |-> m.TotalUsedMemory]
  BY <1>1 DEF NoMemory
<1>3. Live(m) = {}
  BY <1>2 DEF Live
<1>4. IsFiniteSet(Live(m))
  BY <1>3, FS_EmptySet
<1>5. m.block = [a \in Live(m) |-> m.block[a]]
  BY <1>2, <1>3
<1>6. Blocks(m)
  BY <1>2, <1>3, <1>4, <1>5 DEF Blocks
<1>7. Balanced(m)
  <2>1. PICK f : f = [a \in 0..0 |-> 0]
    OBVIOUS
  <2>2. f = [a \in 0..0 |-> IF a = 0 THEN 0 ELSE f[a - 1] + Weight(m, a)]
    BY <2>1
  <2>3. Adds(f, m, 0)
    BY <2>2 DEF Adds
  <2>4. m.TotalUsedMemory = f[0]
    BY <1>2, <2>1
  <2>5. QED
    BY <1>3, <2>3, <2>4 DEF Balanced
<1>8. QED
  BY <1>1, <1>2, <1>6, <1>7 DEF Heap

\* Initially there is nothing, which is laid out.
LEMMA EmptyLaid ==
  ASSUME LibraryInit
  PROVE  LibInv
<1>1. Heap(NoMemory)
  BY EmptyHeap
<1>2. PICK feet : feet = [r \in Roots |-> {}]
  OBVIOUS
<1>3. \A r \in Roots : Addresses[r] = Null /\ feet[r] = {}
  BY <1>2 DEF LibraryInit, Init, Addresses, Roots
<1>4. \A r \in Roots : Shaped(memory, ClientConfiguration, r, Addresses[r], feet[r])
  BY <1>3 DEF Shaped
<1>5. Live(memory) = {}
  BY DEF LibraryInit, Init, NoMemory, Live
<1>6. Laid(memory, ClientConfiguration, Addresses, feet)
  BY <1>1, <1>3, <1>4, <1>5 DEF Laid, LibraryInit, Init
<1>7. written \in Seq(Definition)
  BY ShortSeqs DEF LibraryInit, Init
<1>8. QED
  BY <1>6, <1>7 DEF LibInv, LibraryInit, Init, Null

\* rmqsClientConfigurationCreate, whether it makes a configuration or gives it up.
LEMMA Created ==
  ASSUME LibInv, Open = {}, handle' = handle, NEW definitions \in SeqOf(Definition, MaxDefinitions),
         NEW EnableLogging \in BOOLEAN, Create(definitions, EnableLogging)
  PROVE  LibInv' /\ Sequence!Fill
<1>1. definitions \in Seq(Definition)
  <2>1. MaxDefinitions \in Nat
    BY ConfigurationAssumption
  <2>2. QED
    BY <2>1, SeqOfFacts
<1>2. PICK string : string = BrokersString(definitions)
  OBVIOUS
<1>3. string \in Seq(Words)
  BY <1>1, <1>2, StringType
<1>4. Len(Split(string)) \in Nat
  BY <1>3, SplitType
<1>5. PICK made : made = ConfigurationCreate(memory, string, EnableLogging)
  OBVIOUS
<1>6. /\ ClientConfiguration = Null /\ written' = definitions /\ call'.op = "Create"
      /\ Rejected(string) => memory' = memory /\ ClientConfiguration' = Null
      /\ ~Rejected(string) => memory' = made.memory /\ ClientConfiguration' = made.returned
  BY <1>2, <1>5 DEF Create, Call
<1>7. BrokerItems = << >>
  BY <1>6 DEF BrokerItems
<1>8. CASE Rejected(string)
  <2>1. LibInv' /\ BrokerItems' = BrokerItems
    BY <1>1, <1>6, <1>8, NothingMoves
  <2>2. << >> \in Seq(Nat)
    BY ShortSeqs
  <2>3. QED
    BY <1>6, <1>7, <2>1, <2>2 DEF Sequence!Fill, Sequence!Called
<1>9. CASE ~Rejected(string)
  <2>1. Heap(memory)
    BY LaidHeap
  <2>2. PICK m, k, h : m = memory /\ k = memory' /\ h = ClientConfiguration'
    OBVIOUS
  <2>3. /\ made.memory = k /\ made.returned = h
    BY <1>6, <1>9, <2>2
  <2>4. \/ made.returned = Null /\ Becomes(m, {}, made.memory, {})
        \/ \E l, ns, ds, t, g :
             /\ made.returned \in Address
             /\ ConfigAt(made.memory, made.returned, l, ns, ds, t, g)
             /\ Becomes(m, {}, made.memory,
                        ConfigFeet(made.memory, made.returned, l, ns, ds, t, g))
    BY <1>4, <1>5, <2>1, <2>2, ConfigMade
  <2>5. \/ h = Null /\ Becomes(m, {}, k, {})
        \/ \E l, ns, ds, t, g :
             /\ h \in Address /\ ConfigAt(k, h, l, ns, ds, t, g)
             /\ Becomes(m, {}, k, ConfigFeet(k, h, l, ns, ds, t, g))
    BY <2>3, <2>4
  <2>6. PICK feet : Laid(memory, ClientConfiguration, Addresses, feet)
    BY DEF LibInv
  <2>7. feet["configuration"] = {}
    <3>1. Shaped(memory, ClientConfiguration, "configuration", Null, feet["configuration"])
      BY <1>6, <2>6, AddressesHere DEF Laid
    <3>2. QED
      BY <3>1 DEF Shaped
  <2>8. ASSUME Moves(m, {}, k, h, "configuration", h), h \in Nat
        PROVE  LibInv'
    <3>1. Moves(memory, feet["configuration"], memory', ClientConfiguration', "configuration",
                ClientConfiguration')
      BY <2>2, <2>7, <2>8
    <3>2. ClientConfiguration' \in Nat /\ written' \in Seq(Definition)
      BY <1>1, <1>6, <2>2, <2>8
    <3>3. QED
      BY <2>6, <3>1, <3>2, ConfigMoves
  <2>9. ASSUME BrokerItems' \in Seq(Nat) PROVE Sequence!Fill
    BY <1>6, <1>7, <2>9 DEF Sequence!Fill, Sequence!Called
  <2>10. CASE h = Null /\ Becomes(m, {}, k, {})
    <3>1. Shaped(k, h, "configuration", h, {})
      BY <2>10 DEF Shaped
    <3>2. Moves(m, {}, k, h, "configuration", h) /\ h \in Nat
      BY <2>10, <3>1 DEF Moves, Null
    <3>3. BrokerItems' = << >>
      BY <2>2, <2>10 DEF BrokerItems
    <3>4. BrokerItems' \in Seq(Nat)
      BY <3>3, ShortSeqs
    <3>5. QED
      BY <2>8, <2>9, <3>2, <3>4
  <2>11. ASSUME NEW l, NEW ns, NEW ds, NEW t, NEW g,
                h \in Address, ConfigAt(k, h, l, ns, ds, t, g),
                Becomes(m, {}, k, ConfigFeet(k, h, l, ns, ds, t, g))
         PROVE  LibInv' /\ Sequence!Fill
    <3>1. h # Null /\ h \in Nat
      BY <2>11 DEF Address, Null
    <3>2. Shaped(k, h, "configuration", h, ConfigFeet(k, h, l, ns, ds, t, g))
      BY <2>11, <3>1 DEF Shaped, PublisherOrConsumer
    <3>3. Moves(m, {}, k, h, "configuration", h)
      BY <2>11, <3>2 DEF Moves
    <3>4. Heap(k)
      BY <2>11 DEF Becomes
    <3>5. /\ BrokerList(k, h) = l /\ Items(k, l) = ds /\ ListAt(k, l, ns, ds)
      BY <2>11, <3>4, ConfigFacts
    <3>6. BrokerItems' = ds
      BY <2>2, <3>1, <3>5 DEF BrokerItems, list
    <3>7. ds \in Seq(Address) /\ Address \subseteq Nat
      BY <3>5 DEF ListAt, Address
    <3>8. BrokerItems' \in Seq(Nat)
      BY <3>6, <3>7, WiderSeq
    <3>9. QED
      BY <2>8, <2>9, <3>1, <3>3, <3>8
  <2>12. QED
    BY <2>5, <2>10, <2>11
<1>10. QED
  BY <1>8, <1>9

\* rmqsClientConfigurationDestroy.
LEMMA Destroyed ==
  ASSUME LibInv, Open = {}, handle' = handle, Destroy
  PROVE  LibInv' /\ Sequence!Destroy
<1>1. /\ ClientConfiguration' = Null /\ written' = << >> /\ call'.op = "Destroy"
      /\ ClientConfiguration = Null => memory' = memory
      /\ ClientConfiguration # Null => memory' = ConfigurationDestroy(memory, ClientConfiguration)
  BY DEF Destroy, Call
<1>2. BrokerItems' = << >>
  BY <1>1 DEF BrokerItems
<1>3. Sequence!Destroy
  BY <1>1, <1>2 DEF Sequence!Destroy, Sequence!Called
<1>4. written' \in Seq(Definition)
  BY <1>1, ShortSeqs
<1>5. CASE ClientConfiguration = Null
  BY <1>1, <1>3, <1>4, <1>5, NothingMoves
<1>6. CASE ClientConfiguration # Null
  <2>1. PICK feet, l, ns, ds, t, o : Held(feet, l, ns, ds, t, o)
    BY <1>6, ConfigHeld
  <2>2. PICK m, k, g : m = memory /\ k = memory' /\ g = ClientConfiguration
    OBVIOUS
  <2>3. Heap(m) /\ ConfigAt(m, g, l, ns, ds, t, o) /\ k = ConfigurationDestroy(m, g)
    BY <1>1, <1>6, <2>1, <2>2, LaidHeap DEF Held
  <2>4. Becomes(m, ConfigFeet(m, g, l, ns, ds, t, o), k, {})
    BY <2>3, ConfigFreed
  <2>5. Shaped(k, Null, "configuration", Null, {})
    BY DEF Shaped
  <2>6. Moves(m, ConfigFeet(m, g, l, ns, ds, t, o), k, Null, "configuration", Null)
    BY <2>4, <2>5 DEF Moves
  <2>7. /\ Laid(memory, ClientConfiguration, Addresses, feet)
        /\ Moves(memory, feet["configuration"], memory', ClientConfiguration', "configuration",
                 ClientConfiguration')
    BY <1>1, <2>1, <2>2, <2>6 DEF Held
  <2>8. ClientConfiguration' \in Nat
    BY <1>1 DEF Null
  <2>9. QED
    BY <1>3, <1>4, <2>7, <2>8, ConfigMoves
<1>7. QED
  BY <1>5, <1>6

-----------------------------------------------------------------------------
(* The list of a configuration is edited.                                  *)

LEMMA InsertedAtEnds ==
  ASSUME NEW S, NEW s \in Seq(S), NEW e \in S
  PROVE  InsertAt(s, 1, e) = <<e>> \o s /\ InsertAt(s, Len(s) + 1, e) = Append(s, e)
<1>1. PICK n \in Nat : n = Len(s)
  OBVIOUS
<1>2. PICK t : t = InsertAt(s, 1, e)
  OBVIOUS
<1>3. PICK u : u = InsertAt(s, n + 1, e)
  OBVIOUS
<1>4. t = <<e>> \o s
  <2>1. Inserted(S, s, 0, e, InsertAt(s, 0 + 1, e)) /\ 0 + 1 = 1
    BY <1>1, InsertedFacts
  <2>2. Inserted(S, s, 0, e, t)
    BY <1>2, <2>1
  <2>3. t \in Seq(S) /\ Len(t) = n + 1 /\ t[1] = e /\ \A j \in 2..(n + 1) : t[j] = s[j - 1]
    BY <1>1, <2>2 DEF Inserted
  <2>4. PICK v : v = <<e>> \o s
    OBVIOUS
  <2>5. <<e>> \in Seq(S) /\ Len(<<e>>) = 1 /\ <<e>>[1] = e
    OBVIOUS
  <2>6. /\ v \in Seq(S) /\ Len(v) = n + 1 /\ v[1] = e
        /\ \A j \in 2..(n + 1) : v[j] = s[j - 1]
    BY <1>1, <2>4
  <2>7. t = v
    BY <1>1, <2>3, <2>6
  <2>8. QED
    BY <2>4, <2>7
<1>5. u = Append(s, e)
  <2>1. Inserted(S, s, n, e, InsertAt(s, n + 1, e))
    BY <1>1, InsertedFacts
  <2>2. Inserted(S, s, n, e, u)
    BY <1>3, <2>1
  <2>3. u \in Seq(S) /\ Len(u) = n + 1 /\ u[n + 1] = e /\ \A j \in 1..n : u[j] = s[j]
    BY <1>1, <2>2 DEF Inserted
  <2>4. PICK v : v = Append(s, e)
    OBVIOUS
  <2>5. v \in Seq(S) /\ Len(v) = n + 1 /\ v[n + 1] = e /\ \A j \in 1..n : v[j] = s[j]
    BY <1>1, <2>4
  <2>6. u = v
    BY <1>1, <2>3, <2>5
  <2>7. QED
    BY <2>4, <2>6
<1>6. QED
  BY <1>1, <1>2, <1>3, <1>4, <1>5

\* A broker is added behind the first i of the list.
LEMMA ItemAdded ==
  ASSUME LibInv, Open = {}, ClientConfiguration # Null,
         NEW feet, NEW l, NEW ns, NEW ds, NEW t, NEW o, Held(feet, l, ns, ds, t, o),
         NEW b, NEW d, d = NewAddress(memory),
         NEW m1, m1 = AllocateMemory(memory, Block(1, NoPointers, b)),
         NEW i \in 0..Len(ds), memory' = AddNode(m1, l, i, d),
         UNCHANGED <<ClientConfiguration, written, handle>>
  PROVE  LibInv' /\ BrokerItems' = InsertAt(ds, i + 1, d)
<1>1. PICK c : c = Block(1, NoPointers, b)
  OBVIOUS
<1>2. IsBlock(c) /\ c.pointer = NoPointers
  BY <1>1 DEF IsBlock, Block, NoPointers
<1>3. PICK m : m = memory
  OBVIOUS
<1>4. Heap(m) /\ ListAt(m, l, ns, ds)
  BY <1>3, LaidHeap, HeldItems
<1>5. PICK k : k = AddNode(m1, l, i, d)
  OBVIOUS
<1>6. d = NewAddress(m) /\ m1 = AllocateMemory(m, c)
  BY <1>1, <1>3
<1>7. \E ns2 : LET ds2 == InsertAt(ds, i + 1, d)
               IN  /\ ListAt(k, l, ns2, ds2)
                   /\ Becomes(m, Feet(l, ns, ds), k, Feet(l, ns2, ds2))
  BY <1>2, <1>4, <1>5, <1>6, ItemMade
<1>8. PICK ns2, ds2 : /\ ds2 = InsertAt(ds, i + 1, d)
                      /\ ListAt(k, l, ns2, ds2)
                      /\ Becomes(m, Feet(l, ns, ds), k, Feet(l, ns2, ds2))
  BY <1>7
<1>9. ListAt(memory', l, ns2, ds2) /\ Becomes(memory, Feet(l, ns, ds), memory', Feet(l, ns2, ds2))
  BY <1>3, <1>5, <1>8
<1>10. LibInv' /\ BrokerItems' = ds2
  BY <1>9, ListEdited
<1>11. QED
  BY <1>8, <1>10

\* rmqsListAddBegin, rmqsListAddEnd and rmqsListAddPosition do what ListSpec promises.
LEMMA BrokerAdded ==
  ASSUME LibInv, Open = {}, handle' = handle, AddBroker
  PROVE  LibInv' /\ Sequence!Add
<1>1. ClientConfiguration # Null
  BY DEF AddBroker
<1>2. PICK b : LET broker == NewAddress(memory)
                   m == AllocateMemory(memory, Block(1, NoPointers, b))
               IN  \/ Edit("AddBegin", 0, broker, ListAddBegin(m, list, broker))
                   \/ Edit("AddEnd", 0, broker, ListAddEnd(m, list, broker))
                   \/ \E position \in 0..MaxBrokers :
                        Edit("AddPosition", position, broker,
                             ListAddPosition(m, list, position, broker))
  BY DEF AddBroker
<1>3. PICK d : d = NewAddress(memory)
  OBVIOUS
<1>4. PICK m1 : m1 = AllocateMemory(memory, Block(1, NoPointers, b))
  OBVIOUS
<1>5. PICK feet, l, ns, ds, t, o : Held(feet, l, ns, ds, t, o)
  BY <1>1, ConfigHeld
<1>6. /\ list = l /\ ListAt(memory, l, ns, ds) /\ BrokerItems = ds
      /\ Heap(memory)
  BY <1>1, <1>5, HeldItems, LaidHeap
<1>7. \/ Edit("AddBegin", 0, d, ListAddBegin(m1, l, d))
      \/ Edit("AddEnd", 0, d, ListAddEnd(m1, l, d))
      \/ \E position \in 0..MaxBrokers :
           Edit("AddPosition", position, d, ListAddPosition(m1, l, position, d))
  BY <1>2, <1>3, <1>4, <1>6
<1>8. Nodes(m1, l) = ns
  <2>1. PICK m, c : m = memory /\ c = Block(1, NoPointers, b)
    OBVIOUS
  <2>2. IsBlock(c)
    BY <2>1 DEF IsBlock, Block, NoPointers
  <2>3. Becomes(m, {}, m1, {d})
    BY <1>3, <1>4, <1>6, <2>1, <2>2, AllocatedBecomes
  <2>4. ListAt(m, l, ns, ds)
    BY <1>6, <2>1
  <2>5. ListAt(m1, l, ns, ds)
    BY <2>3, <2>4, ListKept
  <2>6. Heap(m1)
    BY <2>3 DEF Becomes
  <2>7. QED
    BY <2>5, <2>6, NodesOfList
<1>9. Len(ds) \in Nat /\ Len(ns) = Len(ds) /\ ds \in Seq(Address) /\ d \in Address
  <2>1. d \in Nat \ {0}
    BY <1>3, <1>6, NewAddressFacts DEF Heap
  <2>2. QED
    BY <1>6, <2>1 DEF ListAt, Address
<1>10. ASSUME NEW i \in 0..Len(ds), memory' = AddNode(m1, l, i, d),
              UNCHANGED <<ClientConfiguration, written>>
       PROVE  LibInv' /\ BrokerItems' = InsertAt(ds, i + 1, d)
  BY <1>1, <1>3, <1>4, <1>5, <1>10, ItemAdded
<1>11. ASSUME NEW op, NEW position, NEW after, Edit(op, position, d, after)
       PROVE  /\ memory' = after /\ UNCHANGED <<ClientConfiguration, written>>
              /\ call'.op = op /\ call'.position = position /\ call'.item = d
  BY <1>11 DEF Edit, Call
<1>12. CASE Edit("AddBegin", 0, d, ListAddBegin(m1, l, d))
  <2>1. PICK k : k = ListAddBegin(m1, l, d)
    OBVIOUS
  <2>2. /\ memory' = k /\ UNCHANGED <<ClientConfiguration, written>>
        /\ call'.op = "AddBegin" /\ call'.item = d
    BY <1>11, <1>12, <2>1
  <2>3. k = AddNode(m1, l, 0, d)
    BY <2>1 DEF ListAddBegin
  <2>4. 0 \in 0..Len(ds) /\ 0 + 1 = 1
    BY <1>9
  <2>5. LibInv' /\ BrokerItems' = InsertAt(ds, 0 + 1, d)
    BY <1>10, <2>2, <2>3, <2>4
  <2>6. BrokerItems' = <<d>> \o ds
    BY <1>9, <2>4, <2>5, InsertedAtEnds
  <2>7. Sequence!Add
    BY <1>6, <2>2, <2>6 DEF Sequence!Add, Sequence!Called
  <2>8. QED
    BY <2>5, <2>7
<1>13. CASE Edit("AddEnd", 0, d, ListAddEnd(m1, l, d))
  <2>1. PICK k : k = ListAddEnd(m1, l, d)
    OBVIOUS
  <2>2. /\ memory' = k /\ UNCHANGED <<ClientConfiguration, written>>
        /\ call'.op = "AddEnd" /\ call'.item = d
    BY <1>11, <1>13, <2>1
  <2>3. k = AddNode(m1, l, Len(ds), d)
    BY <1>8, <1>9, <2>1 DEF ListAddEnd
  <2>4. Len(ds) \in 0..Len(ds)
    BY <1>9
  <2>5. LibInv' /\ BrokerItems' = InsertAt(ds, Len(ds) + 1, d)
    BY <1>10, <2>2, <2>3, <2>4
  <2>6. BrokerItems' = Append(ds, d)
    BY <1>9, <2>5, InsertedAtEnds
  <2>7. Sequence!Add
    BY <1>6, <2>2, <2>6 DEF Sequence!Add, Sequence!Called
  <2>8. QED
    BY <2>5, <2>7
<1>14. ASSUME NEW position \in 0..MaxBrokers,
              Edit("AddPosition", position, d, ListAddPosition(m1, l, position, d))
       PROVE  LibInv' /\ Sequence!Add
  <2>1. PICK k : k = ListAddPosition(m1, l, position, d)
    OBVIOUS
  <2>2. /\ memory' = k /\ UNCHANGED <<ClientConfiguration, written>>
        /\ call'.op = "AddPosition" /\ call'.item = d /\ call'.position = position
    BY <1>11, <1>14, <2>1
  <2>3. PICK i : i = Min({position, Len(ds)})
    OBVIOUS
  <2>4. i \in 0..Len(ds)
    <3>1. position \in Nat
      BY ConfigurationAssumption
    <3>2. {position, Len(ds)} \subseteq Nat /\ {position, Len(ds)} # {}
      BY <1>9, <3>1
    <3>3. i \in {position, Len(ds)} /\ \A y \in {position, Len(ds)} : i <= y
      BY <2>3, <3>2, MinLemma
    <3>4. QED
      BY <1>9, <3>1, <3>3
  <2>5. k = AddNode(m1, l, i, d)
    BY <1>8, <1>9, <2>1, <2>3 DEF ListAddPosition
  <2>6. LibInv' /\ BrokerItems' = InsertAt(ds, i + 1, d)
    BY <1>10, <2>2, <2>4, <2>5
  <2>7. Sequence!Behind(position) = i
    BY <1>6, <2>3, SameOperators DEF Sequence!Behind
  <2>8. BrokerItems' = Sequence!InsertAt(BrokerItems, Sequence!Behind(call'.position) + 1, call'.item)
    BY <1>6, <2>2, <2>6, <2>7, SameOperators
  <2>9. Sequence!Add
    BY <2>2, <2>8 DEF Sequence!Add, Sequence!Called
  <2>10. QED
    BY <2>6, <2>9
<1>15. QED
  BY <1>7, <1>12, <1>13, <1>14

\* Broker i is deleted, or nothing where there is none.
LEMMA ItemTaken ==
  ASSUME LibInv, Open = {}, ClientConfiguration # Null,
         NEW feet, NEW l, NEW ns, NEW ds, NEW t, NEW o, Held(feet, l, ns, ds, t, o),
         NEW i, memory' = IF i \in 1..Len(ds) THEN RemoveNode(memory, l, i) ELSE memory,
         UNCHANGED <<ClientConfiguration, written, handle>>
  PROVE  LibInv' /\ BrokerItems' = Sequence!Without(i)
<1>1. BrokerItems = ds /\ ListAt(memory, l, ns, ds) /\ Heap(memory)
  BY HeldItems, LaidHeap
<1>2. DOMAIN ds = 1..Len(ds)
  BY <1>1 DEF ListAt
<1>3. CASE i \in 1..Len(ds)
  <2>1. PICK m, k : m = memory /\ k = RemoveNode(m, l, i)
    OBVIOUS
  <2>2. Heap(m) /\ ListAt(m, l, ns, ds)
    BY <1>1, <2>1
  <2>3. \E ns2 : LET ds2 == RemoveAt(ds, i)
                 IN  /\ ListAt(k, l, ns2, ds2)
                     /\ Becomes(m, Feet(l, ns, ds), k, Feet(l, ns2, ds2))
    BY <1>3, <2>1, <2>2, RemovedItem
  <2>4. PICK ns2, ds2 : /\ ds2 = RemoveAt(ds, i)
                        /\ ListAt(k, l, ns2, ds2)
                        /\ Becomes(m, Feet(l, ns, ds), k, Feet(l, ns2, ds2))
    BY <2>3
  <2>5. /\ ListAt(memory', l, ns2, ds2)
        /\ Becomes(memory, Feet(l, ns, ds), memory', Feet(l, ns2, ds2))
    BY <1>3, <2>1, <2>4
  <2>6. LibInv' /\ BrokerItems' = ds2
    BY <2>5, ListEdited
  <2>7. Sequence!Without(i) = ds2
    BY <1>1, <1>2, <1>3, <2>4, SameOperators DEF Sequence!Without
  <2>8. QED
    BY <2>6, <2>7
<1>4. CASE i \notin 1..Len(ds)
  <2>1. memory' = memory /\ written' \in Seq(Definition)
    BY <1>4 DEF LibInv
  <2>2. LibInv' /\ BrokerItems' = BrokerItems
    BY <2>1, NothingMoves
  <2>3. Sequence!Without(i) = ds
    BY <1>1, <1>2, <1>4 DEF Sequence!Without
  <2>4. QED
    BY <1>1, <2>2, <2>3
<1>5. QED
  BY <1>3, <1>4

\* rmqsListSearchByData finds the first node with the data, or passes the end.
LEMMA WhereIsIndex ==
  ASSUME LibInv, ClientConfiguration # Null,
         NEW feet, NEW l, NEW ns, NEW ds, NEW t, NEW o, Held(feet, l, ns, ds, t, o),
         NEW item
  PROVE  /\ Where(memory, l, item) = Sequence!Index(item)
         /\ Where(memory, l, item) \in 1..(Len(ds) + 1)
<1>1. /\ BrokerItems = ds /\ Nodes(memory, l) = ns /\ Items(memory, l) = ds
      /\ ListAt(memory, l, ns, ds)
  BY HeldItems
<1>2. PICK n \in Nat : n = Len(ds) /\ n = Len(ns) /\ DOMAIN ns = 1..n /\ DOMAIN ds = 1..n
  BY <1>1 DEF ListAt
<1>3. PICK S : S = {i \in 1..n : ds[i] = item} \cup {n + 1}
  OBVIOUS
<1>4. Where(memory, l, item) = Min(S)
  BY <1>1, <1>2, <1>3 DEF Where
<1>5. Sequence!Index(item) = Min(S)
  BY <1>1, <1>2, <1>3, SameOperators DEF Sequence!Index
<1>6. S \subseteq Nat /\ S # {} /\ S \subseteq 1..(n + 1)
  BY <1>3
<1>7. Min(S) \in S
  BY <1>6, MinLemma
<1>8. QED
  BY <1>2, <1>4, <1>5, <1>6, <1>7

\* The four functions that delete do what ListSpec promises.
LEMMA BrokerDeleted ==
  ASSUME LibInv, Open = {}, handle' = handle, DeleteBroker
  PROVE  LibInv' /\ Sequence!Delete
<1>1. ClientConfiguration # Null
  BY DEF DeleteBroker
<1>2. PICK feet, l, ns, ds, t, o : Held(feet, l, ns, ds, t, o)
  BY <1>1, ConfigHeld
<1>3. /\ list = l /\ ListAt(memory, l, ns, ds) /\ BrokerItems = ds /\ Items(memory, l) = ds
      /\ Nodes(memory, l) = ns /\ Heap(memory)
  BY <1>1, <1>2, HeldItems, LaidHeap
<1>4. PICK n \in Nat : n = Len(ds) /\ n = Len(ns)
  BY <1>3 DEF ListAt
<1>5. \/ Edit("DeleteBegin", 0, Null, ListDeleteBegin(memory, l))
      \/ Edit("DeleteEnd", 0, Null, ListDeleteEnd(memory, l))
      \/ \E position \in 0..MaxBrokers :
           Edit("DeletePosition", position, Null, ListDeletePosition(memory, l, position))
      \/ \E item : Edit("DeleteData", 0, item, ListDeleteData(memory, l, item))
  BY <1>3 DEF DeleteBroker
<1>6. ASSUME NEW op, NEW position, NEW item, NEW after, Edit(op, position, item, after)
      PROVE  /\ memory' = after /\ UNCHANGED <<ClientConfiguration, written>>
             /\ call'.op = op /\ call'.position = position /\ call'.item = item
  BY <1>6 DEF Edit, Call
<1>7. ASSUME NEW i, UNCHANGED <<ClientConfiguration, written>>,
             memory' = IF i \in 1..Len(ds) THEN RemoveNode(memory, l, i) ELSE memory
      PROVE  LibInv' /\ BrokerItems' = Sequence!Without(i)
  BY <1>1, <1>2, <1>7, ItemTaken
<1>8. ASSUME NEW p \in Nat
      PROVE  ListDeletePosition(memory, l, p) =
               IF p + 1 \in 1..Len(ds) THEN RemoveNode(memory, l, p + 1) ELSE memory
  BY <1>3, <1>4 DEF ListDeletePosition
<1>9. CASE Edit("DeleteBegin", 0, Null, ListDeleteBegin(memory, l))
  <2>1. PICK k : k = ListDeleteBegin(memory, l)
    OBVIOUS
  <2>2. memory' = k /\ UNCHANGED <<ClientConfiguration, written>> /\ call'.op = "DeleteBegin"
    BY <1>6, <1>9, <2>1
  <2>3. k = IF 1 \in 1..Len(ds) THEN RemoveNode(memory, l, 1) ELSE memory
    <3>1. 0 \in Nat /\ 0 + 1 = 1
      OBVIOUS
    <3>2. QED
      BY <1>8, <2>1, <3>1 DEF ListDeleteBegin
  <2>4. LibInv' /\ BrokerItems' = Sequence!Without(1)
    BY <1>7, <2>2, <2>3
  <2>5. QED
    BY <2>2, <2>4 DEF Sequence!Delete, Sequence!Called
<1>10. CASE Edit("DeleteEnd", 0, Null, ListDeleteEnd(memory, l))
  <2>1. PICK k : k = ListDeleteEnd(memory, l)
    OBVIOUS
  <2>2. memory' = k /\ UNCHANGED <<ClientConfiguration, written>> /\ call'.op = "DeleteEnd"
    BY <1>6, <1>10, <2>1
  <2>3. k = IF Len(ds) \in 1..Len(ds) THEN RemoveNode(memory, l, Len(ds)) ELSE memory
    <3>1. ns = << >> <=> n = 0
      BY <1>3, <1>4 DEF ListAt
    <3>2. Len(ds) \in 1..Len(ds) <=> n # 0
      BY <1>4
    <3>3. QED
      BY <1>3, <1>4, <2>1, <3>1, <3>2 DEF ListDeleteEnd
  <2>4. LibInv' /\ BrokerItems' = Sequence!Without(Len(ds))
    BY <1>7, <2>2, <2>3
  <2>5. QED
    BY <1>3, <2>2, <2>4 DEF Sequence!Delete, Sequence!Called
<1>11. ASSUME NEW position \in 0..MaxBrokers,
              Edit("DeletePosition", position, Null, ListDeletePosition(memory, l, position))
       PROVE  LibInv' /\ Sequence!Delete
  <2>1. PICK k : k = ListDeletePosition(memory, l, position)
    OBVIOUS
  <2>2. /\ memory' = k /\ UNCHANGED <<ClientConfiguration, written>>
        /\ call'.op = "DeletePosition" /\ call'.position = position
    BY <1>6, <1>11, <2>1
  <2>3. position \in Nat
    BY ConfigurationAssumption
  <2>4. k = IF position + 1 \in 1..Len(ds) THEN RemoveNode(memory, l, position + 1) ELSE memory
    BY <1>8, <2>1, <2>3
  <2>5. LibInv' /\ BrokerItems' = Sequence!Without(position + 1)
    BY <1>7, <2>2, <2>4
  <2>6. QED
    BY <2>2, <2>5 DEF Sequence!Delete, Sequence!Called
<1>12. ASSUME NEW item, Edit("DeleteData", 0, item, ListDeleteData(memory, l, item))
       PROVE  LibInv' /\ Sequence!Delete
  <2>1. PICK k : k = ListDeleteData(memory, l, item)
    OBVIOUS
  <2>2. /\ memory' = k /\ UNCHANGED <<ClientConfiguration, written>>
        /\ call'.op = "DeleteData" /\ call'.item = item
    BY <1>6, <1>12, <2>1
  <2>3. PICK w : w = Where(memory, l, item)
    OBVIOUS
  <2>4. w = Sequence!Index(item) /\ w \in Nat
    BY <1>1, <1>2, <1>4, <2>3, WhereIsIndex
  <2>5. PICK p : p = IF w = 1 THEN 0 ELSE w
    OBVIOUS
  <2>6. PICK i : i = IF w = 1 THEN 1 ELSE w + 1
    OBVIOUS
  <2>7. p \in Nat /\ p + 1 = i
    BY <2>4, <2>5, <2>6
  <2>8. k = ListDeletePosition(memory, l, p)
    BY <2>1, <2>3, <2>5 DEF ListDeleteData
  <2>9. k = IF i \in 1..Len(ds) THEN RemoveNode(memory, l, i) ELSE memory
    BY <1>8, <2>7, <2>8
  <2>10. LibInv' /\ BrokerItems' = Sequence!Without(i)
    BY <1>7, <2>2, <2>9
  <2>11. QED
    BY <2>2, <2>4, <2>6, <2>10 DEF Sequence!Delete, Sequence!Called
<1>13. QED
  BY <1>5, <1>9, <1>10, <1>11, <1>12

\* The functions that search return what ListSpec promises.
LEMMA BrokerSearched ==
  ASSUME LibInv, handle' = handle, SearchBroker
  PROVE  LibInv' /\ Sequence!Search
<1>1. ClientConfiguration # Null /\ UNCHANGED <<memory, ClientConfiguration, written>>
  BY DEF SearchBroker
<1>2. written' \in Seq(Definition)
  BY <1>1 DEF LibInv
<1>3. LibInv' /\ BrokerItems' = BrokerItems
  BY <1>1, <1>2, NothingMoves
<1>4. PICK feet, l, ns, ds, t, o : Held(feet, l, ns, ds, t, o)
  BY <1>1, ConfigHeld
<1>5. /\ list = l /\ ListAt(memory, l, ns, ds) /\ BrokerItems = ds /\ Items(memory, l) = ds
      /\ Nodes(memory, l) = ns
  BY <1>1, <1>4, HeldItems
<1>6. PICK n \in Nat : n = Len(ds) /\ n = Len(ns) /\ DOMAIN ns = 1..n /\ DOMAIN ds = 1..n
  BY <1>5 DEF ListAt
<1>7. \A i \in 1..n : ns[i] # Null /\ Data(memory, ns[i]) = ds[i]
  <2>1. \A i \in 1..n : ns[i] \in Address
    BY <1>5, <1>6 DEF ListAt
  <2>2. \A i \in 1..n : Items(memory, l)[i] = Data(memory, ns[i])
    BY <1>5, <1>6, Zenon DEF Items
  <2>3. QED
    BY <1>5, <2>1, <2>2 DEF Address, Null
<1>8. ASSUME NEW i, NEW node, node = NodeOr0(memory, l, i)
      PROVE  (IF node = Null THEN Null ELSE Data(memory, node)) = Sequence!ItemAt(i)
  <2>1. node = IF i \in 1..n THEN ns[i] ELSE Null
    BY <1>5, <1>6, <1>8 DEF NodeOr0
  <2>2. Sequence!ItemAt(i) = IF i \in 1..n THEN ds[i] ELSE Null
    BY <1>5, <1>6 DEF Sequence!ItemAt
  <2>3. QED
    BY <1>7, <2>1, <2>2
<1>9. ASSUME NEW position,
             call' = Call("GetDataByPosition", position, Null,
                          ListGetDataByPosition(memory, list, position))
      PROVE  Sequence!Search
  <2>1. PICK x : x = ListGetDataByPosition(memory, l, position)
    OBVIOUS
  <2>2. call'.op = "GetDataByPosition" /\ call'.position = position /\ call'.returned = x
    BY <1>5, <1>9, <2>1 DEF Call
  <2>3. PICK node : node = NodeOr0(memory, l, position + 1)
    OBVIOUS
  <2>4. x = IF node = Null THEN Null ELSE Data(memory, node)
    BY <2>1, <2>3 DEF ListGetDataByPosition, ListSearchByPosition
  <2>5. x = Sequence!ItemAt(position + 1)
    BY <1>8, <2>3, <2>4
  <2>6. QED
    BY <1>3, <2>2, <2>5 DEF Sequence!Search, Sequence!Called
<1>10. ASSUME NEW item,
              LET node == ListSearchByData(memory, list, item)
              IN  call' = Call("SearchByData", 0, item,
                               IF node = Null THEN Null ELSE Data(memory, node))
       PROVE  Sequence!Search
  <2>1. PICK node : node = ListSearchByData(memory, l, item)
    OBVIOUS
  <2>2. PICK x : x = IF node = Null THEN Null ELSE Data(memory, node)
    OBVIOUS
  <2>3. call'.op = "SearchByData" /\ call'.item = item /\ call'.returned = x
    BY <1>5, <1>10, <2>1, <2>2 DEF Call
  <2>4. node = NodeOr0(memory, l, Where(memory, l, item))
    BY <2>1 DEF ListSearchByData
  <2>5. Where(memory, l, item) = Sequence!Index(item)
    BY <1>1, <1>4, WhereIsIndex
  <2>6. x = Sequence!ItemAt(Sequence!Index(item))
    BY <1>8, <2>2, <2>4, <2>5
  <2>7. QED
    BY <1>3, <2>3, <2>6 DEF Sequence!Search, Sequence!Called
<1>11. QED
  BY <1>1, <1>3, <1>9, <1>10 DEF SearchBroker

LEMMA ObjectsCallNothing ==
  ASSUME Objects
  PROVE  call' = call
<1>1. \A h, after : Make(h, after) \/ Use(h, after) \/ Dispose(h, after) => call' = call
  BY DEF Make, Use, Dispose
<1>2. ASSUME NEW h, ClientObjectCreate(h) \/ Buffers(h) \/ ClientObjectDestroy(h)
      PROVE  call' = call
  BY <1>1, <1>2, Zenon DEF ClientObjectCreate, Buffers, ClientObjectDestroy
<1>3. ASSUME NEW copied, MessageCreate(copied) \/ MessageDestroy \/ BatchCreate(copied) \/ BatchDestroy
      PROVE  call' = call
  BY <1>1, <1>3, Zenon DEF MessageCreate, MessageDestroy, BatchCreate, BatchDestroy
<1>4. ASSUME MetadataCreate \/ MetadataDestroy \/
               \E brokers, streams, replicated : Metadata(brokers, streams, replicated)
      PROVE  call' = call
  BY <1>1, <1>4, Zenon DEF MetadataCreate, MetadataDestroy, Metadata
<1>5. QED
  BY <1>2, <1>3, <1>4, Zenon DEF Objects

ListStep ==
    \/ Sequence!Fill \/ Sequence!Destroy \/ Sequence!Add \/ Sequence!Delete \/ Sequence!Search
    \/ UNCHANGED <<BrokerItems, call>>

\* Every step keeps the invariant, and is a step of ListSpec or leaves it alone.
LEMMA LibraryStep ==
  ASSUME LibInv, [Next]_vars
  PROVE  LibInv' /\ ListStep
<1>1. CASE Objects
  <2>1. LibInv' /\ BrokerItems' = BrokerItems
    BY <1>1, ObjectsStep
  <2>2. call' = call
    BY <1>1, ObjectsCallNothing
  <2>3. QED
    BY <2>1, <2>2 DEF ListStep
<1>2. CASE Open = {} /\ ConfigurationNext /\ UNCHANGED handle
  <2>1. Open = {} /\ handle' = handle
    BY <1>2
  <2>2. ASSUME NEW definitions \in SeqOf(Definition, MaxDefinitions),
               NEW EnableLogging \in BOOLEAN, Create(definitions, EnableLogging)
        PROVE  LibInv' /\ ListStep
    BY <2>1, <2>2, Created DEF ListStep
  <2>3. CASE Destroy
    BY <2>1, <2>3, Destroyed DEF ListStep
  <2>4. CASE AddBroker
    BY <2>1, <2>4, BrokerAdded DEF ListStep
  <2>5. CASE DeleteBroker
    BY <2>1, <2>5, BrokerDeleted DEF ListStep
  <2>6. CASE SearchBroker
    BY <2>1, <2>6, BrokerSearched DEF ListStep
  <2>7. QED
    BY <1>2, <2>2, <2>3, <2>4, <2>5, <2>6 DEF ConfigurationNext
<1>3. CASE UNCHANGED vars
  <2>1. /\ UNCHANGED <<memory, ClientConfiguration, handle>> /\ call' = call
        /\ written' \in Seq(Definition)
    BY <1>3 DEF vars, configurationVars, LibInv
  <2>2. LibInv' /\ BrokerItems' = BrokerItems
    BY <2>1, NothingMoves
  <2>3. QED
    BY <2>1, <2>2 DEF ListStep
<1>4. QED
  BY <1>1, <1>2, <1>3 DEF Next

\* In every state the memory consists of the blocks that the configuration and the
\* objects of the application lead to, each with the shape that its functions of
\* rmqsClientConfiguration.c, rmqsList.c, rmqsClient.c, rmqsBuffer.c or rmqsMessage.c
\* give it, and no block belongs to two of them.
THEOREM ShapesKept == LibrarySpec => []LibInv
<1>1. LibraryInit => LibInv
  BY EmptyLaid
<1>2. LibInv /\ [Next]_vars => LibInv'
  BY LibraryStep
<1>3. QED
  BY <1>1, <1>2, PTL DEF LibrarySpec

\* The nodes and pointers of rmqsList.c are a sequence to their users: whatever calls
\* are made, every one does to the list of brokers, and returns, what ListSpec promises.
THEOREM ListImplemented == LibrarySpec => ImplementsList
<1>1. LibraryInit => Sequence!Init
  BY DEF LibraryInit, Init, Call, BrokerItems, Sequence!Init
<1>2. LibInv /\ [Next]_vars =>
        [Sequence!Fill \/ Sequence!Destroy \/ Sequence!Add \/ Sequence!Delete
           \/ Sequence!Search]_(Sequence!listVars)
  BY LibraryStep DEF ListStep, Sequence!listVars
<1>3. QED
  BY <1>1, <1>2, ShapesKept, PTL DEF LibrarySpec, ImplementsList, Sequence!List

-----------------------------------------------------------------------------
(* What the pointers in the memory lead to.                                *)

Closed(m, C) == \A x \in C : Pointers(m, x) \subseteq C

\* The blocks F are found from the one at a, and their pointers lead to no others but g.
Spans(m, a, F, g) ==
    /\ a \in F
    /\ \A x \in F : \A c \in Pointers(m, x) : c \in F \/ c = g
    /\ \A C : Closed(m, C) /\ a \in C => F \subseteq C

LEMMA LeafPointers ==
  ASSUME NEW m, NEW x, m.block[x].pointer = NoPointers
  PROVE  Pointers(m, x) = {}
BY DEF Pointers, NoPointers

\* An owner spans what it owns.
LEMMA OwnerSpans ==
  ASSUME NEW m, NEW a, Owner(m, a), NEW g
  PROVE  Spans(m, a, Owned(m, a), g)
<1>1. ASSUME NEW x \in Owned(m, a), NEW c \in Pointers(m, x) PROVE c \in Owned(m, a)
  <2>1. CASE x = a
    BY <1>1, <2>1 DEF Owned
  <2>2. CASE x # a
    <3>1. PICK f \in Fields(m, a) : x # Null /\ x = PointerIn(m, a, f)
      BY <2>2, InPointers DEF Owned
    <3>2. m.block[x].pointer = NoPointers
      BY <3>1 DEF Owner
    <3>3. QED
      BY <1>1, <3>2, LeafPointers
  <2>3. QED
    BY <2>1, <2>2
<1>2. ASSUME NEW C, Closed(m, C), a \in C PROVE Owned(m, a) \subseteq C
  BY <1>2 DEF Owned, Closed
<1>3. QED
  BY <1>1, <1>2 DEF Spans, Owned

LEMMA HeadPointers ==
  ASSUME NEW m, NEW l, NEW x, NEW n, m.block[l] = HeadBlock(x, n)
  PROVE  Pointers(m, l) = {x} \ {Null}
<1>1. DOMAIN m.block[l].pointer = {"First"} /\ PointerIn(m, l, "First") = x
  BY HeadBlockFacts DEF PointerIn
<1>2. QED
  BY <1>1 DEF Pointers

LEMMA NodePointers ==
  ASSUME NEW m, NEW a, NEW x, NEW d, m.block[a] = NodeBlock(x, d)
  PROVE  Pointers(m, a) = {x, d} \ {Null}
<1>1. /\ DOMAIN m.block[a].pointer = {"Next", "Data"}
      /\ PointerIn(m, a, "Next") = x /\ PointerIn(m, a, "Data") = d
  BY NodeBlockFacts DEF PointerIn
<1>2. QED
  BY <1>1 DEF Pointers

\* The head of a list spans its nodes and items, by way of Next and Data.
LEMMA ListSpans ==
  ASSUME NEW m, NEW l, NEW ns, NEW ds, ListAt(m, l, ns, ds), NEW g
  PROVE  Spans(m, l, Feet(l, ns, ds), g)
<1>1. PICK n \in Nat : n = Len(ns) /\ n = Len(ds) /\ DOMAIN ns = 1..n /\ DOMAIN ds = 1..n
  BY DEF ListAt
<1>2. Pointers(m, l) = {At(ns, 1)} \ {Null}
  BY HeadPointers DEF ListAt
<1>3. \A i \in 1..n : /\ Pointers(m, ns[i]) = {At(ns, i + 1), ds[i]} \ {Null}
                      /\ ns[i] # Null /\ ds[i] # Null /\ Pointers(m, ds[i]) = {}
  <2>1. SUFFICES ASSUME NEW i \in 1..n
                 PROVE  /\ Pointers(m, ns[i]) = {At(ns, i + 1), ds[i]} \ {Null}
                        /\ ns[i] # Null /\ ds[i] # Null /\ Pointers(m, ds[i]) = {}
    OBVIOUS
  <2>2. /\ m.block[ns[i]] = NodeBlock(At(ns, i + 1), ds[i])
        /\ m.block[ds[i]].pointer = NoPointers
    BY <1>1 DEF ListAt
  <2>3. ns[i] \in Address /\ ds[i] \in Address
    BY <1>1 DEF ListAt
  <2>4. ns[i] # Null /\ ds[i] # Null
    BY <2>3 DEF Address, Null
  <2>5. QED
    BY <2>2, <2>4, NodePointers, LeafPointers
<1>4. \A i \in 1..n : At(ns, i) = ns[i]
  BY <1>1 DEF At
<1>5. \A i \in 1..n : At(ns, i + 1) = Null \/ At(ns, i + 1) \in ToSet(ns)
  BY <1>1 DEF At, ToSet
<1>6. At(ns, 1) = Null \/ At(ns, 1) \in ToSet(ns)
  BY <1>1 DEF At, ToSet
<1>7. /\ \A x : x \in ToSet(ns) <=> \E i \in 1..n : x = ns[i]
      /\ \A x : x \in ToSet(ds) <=> \E i \in 1..n : x = ds[i]
  BY <1>1 DEF ToSet
<1>8. ASSUME NEW x \in Feet(l, ns, ds), NEW c \in Pointers(m, x) PROVE c \in Feet(l, ns, ds)
  <2>1. CASE x = l
    BY <1>2, <1>6, <1>8, <2>1 DEF Feet
  <2>2. CASE x \in ToSet(ns)
    <3>1. PICK i \in 1..n : x = ns[i]
      BY <1>7, <2>2
    <3>2. c = At(ns, i + 1) \/ c = ds[i]
      BY <1>3, <1>8, <3>1
    <3>3. c # Null
      BY <1>8 DEF Pointers
    <3>4. QED
      BY <1>5, <1>7, <3>2, <3>3 DEF Feet
  <2>3. CASE x \in ToSet(ds)
    BY <1>3, <1>7, <1>8, <2>3
  <2>4. QED
    BY <1>8, <2>1, <2>2, <2>3 DEF Feet
<1>9. ASSUME NEW C, Closed(m, C), l \in C PROVE Feet(l, ns, ds) \subseteq C
  <2>1. PICK T : T = {i \in 1..n : ns[i] \notin C}
    OBVIOUS
  <2>2. T = {}
    <3>1. SUFFICES ASSUME T # {} PROVE FALSE
      OBVIOUS
    <3>2. T \subseteq Nat
      BY <2>1
    <3>3. PICK i \in T : \A y \in T : ~(y < i)
      BY <3>1, <3>2, LeastExists
    <3>4. i \in 1..n /\ ns[i] \notin C
      BY <2>1
    <3>5. CASE i = 1
      <4>1. ns[1] \in Pointers(m, l)
        BY <1>2, <1>3, <1>4, <3>4, <3>5
      <4>2. QED
        BY <1>9, <3>4, <3>5, <4>1 DEF Closed
    <3>6. CASE i # 1
      <4>1. PICK j \in 1..n : j = i - 1 /\ j + 1 = i /\ j < i
        BY <3>4, <3>6
      <4>2. ns[j] \in C
        BY <2>1, <3>3, <4>1
      <4>3. ns[i] \in Pointers(m, ns[j])
        BY <1>3, <1>4, <3>4, <4>1
      <4>4. QED
        BY <1>9, <3>4, <4>2, <4>3 DEF Closed
    <3>7. QED
      BY <3>5, <3>6
  <2>3. \A i \in 1..n : ns[i] \in C
    BY <2>1, <2>2
  <2>4. \A i \in 1..n : ds[i] \in Pointers(m, ns[i])
    BY <1>3
  <2>5. \A i \in 1..n : ds[i] \in C
    BY <1>9, <2>3, <2>4 DEF Closed
  <2>6. QED
    BY <1>7, <1>9, <2>3, <2>5 DEF Feet
<1>10. QED
  BY <1>8, <1>9 DEF Spans, Feet

\* A configuration spans its list, timer and logger.
LEMMA ConfigSpans ==
  ASSUME NEW m, Heap(m), NEW a, NEW l, NEW ns, NEW ds, NEW t, NEW o,
         ConfigAt(m, a, l, ns, ds, t, o), NEW g
  PROVE  Spans(m, a, ConfigFeet(m, a, l, ns, ds, t, o), g)
<1>1. PICK F : F = Feet(l, ns, ds)
  OBVIOUS
<1>2. PICK R : R = Its(m, o)
  OBVIOUS
<1>3. PICK V : V = ConfigFeet(m, a, l, ns, ds, t, o) /\ V = {a, t} \cup F \cup R
  BY <1>1, <1>2 DEF ConfigFeet
<1>4. Pointers(m, a) = {l, t, o} \ {Null}
  <2>1. m.block[a] = ConfigBlock(l, t, o)
    BY DEF ConfigAt
  <2>2. /\ DOMAIN m.block[a].pointer = {"BrokerList", "WaitReplyTimer", "Logger"}
        /\ PointerIn(m, a, "BrokerList") = l /\ PointerIn(m, a, "WaitReplyTimer") = t
        /\ PointerIn(m, a, "Logger") = o
    BY <2>1, ConfigBlockFacts DEF PointerIn
  <2>3. QED
    BY <2>2 DEF Pointers
<1>5. l # Null /\ t # Null
  <2>1. l \in Live(m) /\ t \in Live(m)
    BY DEF ConfigAt, ListAt
  <2>2. QED
    BY <2>1 DEF Heap, Blocks, Null
<1>6. Pointers(m, t) = {}
  BY LeafPointers DEF ConfigAt
<1>7. Spans(m, l, F, g) /\ l \in F
  BY <1>1, ListSpans DEF ConfigAt, Feet
<1>8. o # Null => Spans(m, o, R, g) /\ o \in R
  BY <1>2, OwnerSpans DEF ConfigAt, LoggerAt, Keeps, Its, Owned
<1>9. o = Null => R = {}
  BY <1>2 DEF Its
<1>10. ASSUME NEW x \in V, NEW c \in Pointers(m, x) PROVE c \in V \/ c = g
  <2>1. CASE x = a
    BY <1>3, <1>4, <1>7, <1>8, <1>10, <2>1
  <2>2. CASE x = t
    BY <1>6, <1>10, <2>2
  <2>3. CASE x \in F
    BY <1>3, <1>7, <1>10, <2>3 DEF Spans
  <2>4. CASE x \in R
    BY <1>3, <1>8, <1>9, <1>10, <2>4 DEF Spans
  <2>5. QED
    BY <1>3, <1>10, <2>1, <2>2, <2>3, <2>4
<1>11. ASSUME NEW C, Closed(m, C), a \in C PROVE V \subseteq C
  <2>1. {l, t, o} \ {Null} \subseteq C
    BY <1>4, <1>11 DEF Closed
  <2>2. F \subseteq C
    BY <1>5, <1>7, <1>11, <2>1 DEF Spans
  <2>3. R \subseteq C
    BY <1>8, <1>9, <1>11, <2>1 DEF Spans
  <2>4. QED
    BY <1>3, <1>5, <1>11, <2>1, <2>2, <2>3
<1>12. QED
  BY <1>3, <1>10, <1>11 DEF Spans

\* A publisher or consumer spans its client and buffers; the client also knows its configuration.
LEMMA ClientSpans ==
  ASSUME NEW m, Heap(m), NEW g, NEW a, NEW c, NEW t, NEW r, ClientAt(m, g, a, c, t, r)
  PROVE  Spans(m, a, ClientFeet(m, a, c, t, r), g)
<1>1. PICK T, R : T = Owned(m, t) /\ R = Owned(m, r)
  OBVIOUS
<1>2. PICK V : V = ClientFeet(m, a, c, t, r) /\ V = {a, c} \cup T \cup R
  BY <1>1 DEF ClientFeet
<1>3. Pointers(m, a) = {c} \ {Null}
  <2>1. DOMAIN m.block[a].pointer = {"Client"} /\ PointerIn(m, a, "Client") = c
    BY ObjectBlockFacts DEF PointerIn, ClientAt
  <2>2. QED
    BY <2>1 DEF Pointers
<1>4. Pointers(m, c) = {g, a, t, r} \ {Null}
  <2>1. m.block[c] = ClientBlock(g, a, t, r)
    BY DEF ClientAt
  <2>2. /\ DOMAIN m.block[c].pointer =
             {"ClientConfiguration", "ParentObject", "TxQueue", "RxQueue"}
        /\ PointerIn(m, c, "ClientConfiguration") = g /\ PointerIn(m, c, "ParentObject") = a
        /\ PointerIn(m, c, "TxQueue") = t /\ PointerIn(m, c, "RxQueue") = r
    BY <2>1, ClientBlockFacts DEF PointerIn
  <2>3. QED
    BY <2>2 DEF Pointers
<1>5. c # Null /\ t # Null /\ r # Null
  <2>1. c \in Live(m) /\ t \in Live(m) /\ r \in Live(m)
    BY DEF ClientAt, BufferAt, Owner
  <2>2. QED
    BY <2>1 DEF Heap, Blocks, Null
<1>6. Spans(m, t, T, g) /\ t \in T /\ Spans(m, r, R, g) /\ r \in R
  BY <1>1, OwnerSpans DEF ClientAt, BufferAt, Owned
<1>7. ASSUME NEW x \in V, NEW y \in Pointers(m, x) PROVE y \in V \/ y = g
  <2>1. CASE x = a
    BY <1>2, <1>3, <1>7, <2>1
  <2>2. CASE x = c
    BY <1>2, <1>4, <1>6, <1>7, <2>2
  <2>3. CASE x \in T
    BY <1>2, <1>6, <1>7, <2>3 DEF Spans
  <2>4. CASE x \in R
    BY <1>2, <1>6, <1>7, <2>4 DEF Spans
  <2>5. QED
    BY <1>2, <1>7, <2>1, <2>2, <2>3, <2>4
<1>8. ASSUME NEW C, Closed(m, C), a \in C PROVE V \subseteq C
  <2>1. c \in C
    BY <1>3, <1>5, <1>8 DEF Closed
  <2>2. t \in C /\ r \in C
    BY <1>4, <1>5, <1>8, <2>1 DEF Closed
  <2>3. T \subseteq C /\ R \subseteq C
    BY <1>6, <1>8, <2>2 DEF Spans
  <2>4. QED
    BY <1>2, <1>8, <2>1, <2>3
<1>9. QED
  BY <1>2, <1>7, <1>8 DEF Spans

\* Metadata spans its lists and what is in them.
LEMMA MetadataSpans ==
  ASSUME NEW m, NEW a, NEW b, NEW s, MetadataAt(m, a, b, s), NEW g
  PROVE  Spans(m, a, MetadataFeet(m, a, b, s), g)
<1>1. PICK R : R = Its(m, s)
  OBVIOUS
<1>2. PICK V : V = MetadataFeet(m, a, b, s) /\ V = {a} \cup ({b} \ {Null}) \cup R
  BY <1>1 DEF MetadataFeet
<1>3. Pointers(m, a) = {b, s} \ {Null}
  <2>1. m.block[a] = MetadataBlock(b, s)
    BY DEF MetadataAt
  <2>2. /\ DOMAIN m.block[a].pointer = {"BrokerMetadataList", "StreamMetadataList"}
        /\ PointerIn(m, a, "BrokerMetadataList") = b
        /\ PointerIn(m, a, "StreamMetadataList") = s
    BY <2>1, MetadataBlockFacts DEF PointerIn
  <2>3. QED
    BY <2>2 DEF Pointers
<1>4. b # Null => Pointers(m, b) = {}
  BY LeafPointers DEF MetadataAt
<1>5. s # Null => Spans(m, s, R, g) /\ s \in R
  BY <1>1, OwnerSpans DEF MetadataAt, StreamsAt, Its, Owned
<1>6. s = Null => R = {}
  BY <1>1 DEF Its
<1>7. ASSUME NEW x \in V, NEW y \in Pointers(m, x) PROVE y \in V \/ y = g
  <2>1. CASE x = a
    BY <1>2, <1>3, <1>5, <1>7, <2>1
  <2>2. CASE x = b /\ b # Null
    BY <1>4, <1>7, <2>2
  <2>3. CASE x \in R
    BY <1>2, <1>5, <1>6, <1>7, <2>3 DEF Spans
  <2>4. QED
    BY <1>2, <1>7, <2>1, <2>2, <2>3
<1>8. ASSUME NEW C, Closed(m, C), a \in C PROVE V \subseteq C
  <2>1. {b, s} \ {Null} \subseteq C
    BY <1>3, <1>8 DEF Closed
  <2>2. R \subseteq C
    BY <1>5, <1>6, <1>8, <2>1 DEF Spans
  <2>3. QED
    BY <1>2, <1>8, <2>1, <2>2
<1>9. QED
  BY <1>2, <1>7, <1>8 DEF Spans

\* Every shape is spanned by its root.
LEMMA ShapeSpans ==
  ASSUME NEW m, Heap(m), NEW g, NEW r \in Roots, NEW a, NEW F, Shaped(m, g, r, a, F), a # Null
  PROVE  Spans(m, a, F, g)
<1>1. \/ r = "configuration" \/ r \in PublisherOrConsumer \/ r \in {"message", "batch"}
      \/ r = "metadata"
  BY DEF Roots, Handles, PublisherOrConsumer
<1>2. CASE r = "configuration"
  <2>1. PICK l, ns, ds, t, o : /\ ConfigAt(m, a, l, ns, ds, t, o)
                               /\ F = ConfigFeet(m, a, l, ns, ds, t, o)
    BY <1>2 DEF Shaped
  <2>2. QED
    BY <2>1, ConfigSpans
<1>3. CASE r \in PublisherOrConsumer
  <2>1. PICK c, t, x : ClientAt(m, g, a, c, t, x) /\ F = ClientFeet(m, a, c, t, x)
    BY <1>3 DEF Shaped
  <2>2. QED
    BY <2>1, ClientSpans
<1>4. CASE r \in {"message", "batch"}
  <2>1. FilledAt(m, a) /\ F = Owned(m, a)
    BY <1>4 DEF Shaped
  <2>2. QED
    BY <2>1, OwnerSpans DEF FilledAt, Keeps
<1>5. CASE r = "metadata"
  <2>1. PICK b, s : MetadataAt(m, a, b, s) /\ F = MetadataFeet(m, a, b, s)
    BY <1>5 DEF Shaped
  <2>2. QED
    BY <2>1, MetadataSpans
<1>6. QED
  BY <1>1, <1>2, <1>3, <1>4, <1>5

-----------------------------------------------------------------------------
(* What can be reached from the roots is all of the memory.                *)

Onward(m, some) == some \cup UNION {Pointers(m, a) : a \in some}

Reaching(f, roots, m, last) ==
    f = [n \in 0..last |-> IF n = 0 THEN roots ELSE Onward(m, f[n - 1])]

\* The sets reached after each number of steps.
LEMMA ReachingExists ==
  ASSUME NEW roots, NEW m, NEW last \in Nat
  PROVE  \E f : Reaching(f, roots, m, last)
<1> DEFINE S == {c \in Nat : \E f : Reaching(f, roots, m, c)}
<1>1. 0 \in S
  <2> DEFINE f == [n \in 0..0 |-> roots]
  <2>1. f = [n \in 0..0 |-> IF n = 0 THEN roots ELSE Onward(m, f[n - 1])]
    OBVIOUS
  <2>2. Reaching(f, roots, m, 0)
    BY <2>1, Zenon DEF Reaching
  <2>3. QED
    BY <2>2
<1>2. ASSUME NEW c \in Nat, c \in S PROVE c + 1 \in S
  <2>1. PICK f : Reaching(f, roots, m, c)
    BY <1>2
  <2> DEFINE g == [n \in 0..(c + 1) |-> IF n = c + 1 THEN Onward(m, f[c]) ELSE f[n]]
             h == [n \in 0..(c + 1) |-> IF n = 0 THEN roots ELSE Onward(m, g[n - 1])]
  <2>2. ASSUME NEW n \in 0..(c + 1) PROVE g[n] = h[n]
    <3>1. CASE n = c + 1
      <4>1. n # 0 /\ n - 1 = c /\ n - 1 \in 0..(c + 1) /\ c # c + 1
        BY <3>1
      <4>2. g[n] = Onward(m, f[c]) /\ g[n - 1] = f[c]
        BY <3>1, <4>1
      <4>3. h[n] = Onward(m, g[n - 1])
        BY <4>1
      <4>4. QED
        BY <4>2, <4>3
    <3>2. CASE n # c + 1
      <4>1. n \in 0..c /\ g[n] = f[n]
        BY <3>2
      <4>2. f[n] = IF n = 0 THEN roots ELSE Onward(m, f[n - 1])
        BY <2>1, <4>1 DEF Reaching
      <4>3. n # 0 => n - 1 \in 0..(c + 1) /\ n - 1 # c + 1
        BY <4>1
      <4>4. n # 0 => g[n - 1] = f[n - 1]
        BY <4>3
      <4>5. QED
        BY <4>1, <4>2, <4>4
    <3>3. QED
      BY <3>1, <3>2
  <2>3. g = h
    BY <2>2
  <2>4. Reaching(g, roots, m, c + 1)
    BY <2>3, Zenon DEF Reaching
  <2>5. QED
    BY <2>4
<1> HIDE DEF S
<1>3. last \in S
  BY <1>1, <1>2, NatSetInduction
<1>4. QED
  BY <1>3 DEF S

\* Reachable is the one after as many steps as there are blocks.
LEMMA ReachableIs ==
  ASSUME NEW m, NEW roots, NEW c \in Nat, c = Cardinality(Live(m))
  PROVE  \E f : Reaching(f, roots, m, c) /\ Reachable(m, roots) = f[c]
<1> DEFINE R(f) == Reaching(f, roots, m, c)
           more == CHOOSE f : f = [n \in 0..c |-> IF n = 0 THEN roots
                                    ELSE LET some == f[n - 1]
                                         IN some \cup UNION {Pointers(m, a) : a \in some}]
<1>1. \E f : R(f)
  BY ReachingExists
<1>2. \A f : R(f) <=> f = [n \in 0..c |-> IF n = 0 THEN roots
                                          ELSE LET some == f[n - 1]
                                               IN some \cup UNION {Pointers(m, a) : a \in some}]
  BY Zenon DEF Reaching, Onward
<1>3. R(more)
  BY <1>1, <1>2, Zenon
<1>4. Reachable(m, roots) = more[c]
  BY Zenon DEF Reachable
<1>5. QED
  BY <1>3, <1>4, Zenon

\* A set with what it points to: it grows unless it is closed.
LEMMA OnwardFacts ==
  ASSUME NEW m, NEW some
  PROVE  /\ some \subseteq Onward(m, some)
         /\ Closed(m, some) <=> Onward(m, some) = some
         /\ NoDangling(m) /\ some \subseteq Live(m) => Onward(m, some) \subseteq Live(m)
BY DEF Onward, Closed, NoDangling

\* Reachable is closed: a set cannot grow as often as there are blocks and still be among them.
LEMMA Reached ==
  ASSUME NEW m, Heap(m), NoDangling(m), NEW roots, roots \subseteq Live(m)
  PROVE  /\ Reachable(m, roots) \subseteq Live(m) /\ roots \subseteq Reachable(m, roots)
         /\ Closed(m, Reachable(m, roots))
<1>1. PICK L : L = Live(m)
  OBVIOUS
<1>2. IsFiniteSet(L)
  BY <1>1 DEF Heap, Blocks
<1>3. PICK c \in Nat : c = Cardinality(L)
  BY <1>2, FS_CardinalityType
<1>4. PICK f : Reaching(f, roots, m, c) /\ Reachable(m, roots) = f[c]
  BY <1>1, <1>3, ReachableIs
<1>5. f[0] = roots /\ \A n \in 0..c : n # 0 => f[n] = Onward(m, f[n - 1])
  BY <1>4 DEF Reaching
<1>6. \A F : F \subseteq L => IsFiniteSet(F) /\ Cardinality(F) \in Nat
  BY <1>2, FS_Subset, FS_CardinalityType
<1> DEFINE Good(F, n) == /\ F \subseteq L /\ roots \subseteq F
                         /\ Closed(m, F) \/ n <= Cardinality(F)
           S == {n \in Nat : n <= c => Good(f[n], n)}
<1>7. 0 \in S
  <2>1. Cardinality(roots) \in Nat
    BY <1>1, <1>6
  <2>2. Good(f[0], 0)
    BY <1>1, <1>5, <2>1
  <2>3. QED
    BY <2>2
<1>8. ASSUME NEW n \in Nat, n \in S PROVE n + 1 \in S
  <2>1. SUFFICES ASSUME n + 1 <= c PROVE Good(f[n + 1], n + 1)
    OBVIOUS
  <2>2. PICK F : F = f[n]
    OBVIOUS
  <2>3. Good(F, n)
    BY <1>8, <2>1, <2>2
  <2>4. PICK G : G = Onward(m, F)
    OBVIOUS
  <2>5. f[n + 1] = G
    <3>1. n + 1 \in 0..c /\ n + 1 # 0 /\ n + 1 - 1 = n
      BY <2>1
    <3>2. QED
      BY <1>5, <2>2, <2>4, <3>1
  <2>6. F \subseteq G /\ G \subseteq L
    BY <1>1, <2>3, <2>4, OnwardFacts
  <2>7. roots \subseteq G
    BY <2>3, <2>6
  <2>8. CASE Closed(m, F)
    <3>1. G = F
      BY <2>4, <2>8, OnwardFacts
    <3>2. QED
      BY <2>5, <2>6, <2>7, <2>8, <3>1
  <2>9. CASE ~Closed(m, F)
    <3>1. G # F
      BY <2>4, <2>9, OnwardFacts
    <3>2. IsFiniteSet(G) /\ Cardinality(G) \in Nat /\ Cardinality(F) \in Nat
      BY <1>6, <2>3, <2>6
    <3>3. Cardinality(F) <= Cardinality(G) /\ Cardinality(G) # Cardinality(F)
      BY <2>6, <3>1, <3>2, FS_Subset
    <3>4. n <= Cardinality(F)
      BY <2>3, <2>9
    <3>5. n + 1 <= Cardinality(G)
      BY <3>2, <3>3, <3>4
    <3>6. QED
      BY <2>5, <2>6, <2>7, <3>5
  <2>10. QED
    BY <2>8, <2>9
<1> HIDE DEF S
<1>9. c \in S
  BY <1>7, <1>8, NatSetInduction
<1>10. Good(f[c], c)
  BY <1>9 DEF S
<1>11. Closed(m, f[c])
  <2>1. SUFFICES ASSUME ~Closed(m, f[c]) PROVE FALSE
    OBVIOUS
  <2>2. PICK F : F = f[c]
    OBVIOUS
  <2>3. F \subseteq L /\ Cardinality(F) \in Nat /\ c <= Cardinality(F)
    BY <1>6, <1>10, <2>1, <2>2
  <2>4. Cardinality(F) <= Cardinality(L) /\ (Cardinality(L) = Cardinality(F) => L = F)
    BY <1>2, <2>3, FS_Subset
  <2>5. F = L
    BY <1>3, <2>3, <2>4
  <2>6. QED
    BY <1>1, <2>1, <2>2, <2>5 DEF Closed, NoDangling
<1>12. QED
  BY <1>1, <1>4, <1>10, <1>11

LEMMA LaidSpans ==
  ASSUME LibInv, NEW feet, Laid(memory, ClientConfiguration, Addresses, feet),
         NEW r \in Roots, feet[r] # {}
  PROVE  Addresses[r] # Null /\ Spans(memory, Addresses[r], feet[r], ClientConfiguration)
<1>1. PICK F : F = feet[r]
  OBVIOUS
<1>2. Shaped(memory, ClientConfiguration, r, Addresses[r], F) /\ Heap(memory) /\ F # {}
  BY <1>1 DEF Laid
<1>3. Addresses[r] # Null
  BY <1>2 DEF Shaped
<1>4. QED
  BY <1>1, <1>2, <1>3, ShapeSpans

LEMMA RootLaid ==
  ASSUME LibInv, NEW feet, Laid(memory, ClientConfiguration, Addresses, feet),
         NEW r \in Roots, Addresses[r] # Null
  PROVE  Addresses[r] \in feet[r] /\ Addresses[r] \in Live(memory)
<1>1. Shaped(memory, ClientConfiguration, r, Addresses[r], feet[r]) /\ Heap(memory)
  BY DEF Laid
<1>2. Spans(memory, Addresses[r], feet[r], ClientConfiguration)
  BY <1>1, ShapeSpans
<1>3. QED
  BY <1>2 DEF Spans, Laid

\* No pointer in a block leads to where there is none.
LEMMA PointersLive ==
  ASSUME LibInv
  PROVE  NoDangling(memory) /\ ClientConfiguration \in Live(memory) \cup {Null}
<1>1. PICK feet : Laid(memory, ClientConfiguration, Addresses, feet)
  BY DEF LibInv
<1>2. ClientConfiguration \in Live(memory) \cup {Null}
  BY <1>1, AddressesHere, RootLaid
<1>3. ASSUME NEW x \in Live(memory), NEW c \in Pointers(memory, x) PROVE c \in Live(memory)
  <2>1. PICK r \in Roots : x \in feet[r]
    BY <1>1 DEF Laid
  <2>2. Spans(memory, Addresses[r], feet[r], ClientConfiguration)
    BY <1>1, <2>1, LaidSpans
  <2>3. c \in feet[r] \/ c = ClientConfiguration
    BY <1>3, <2>1, <2>2 DEF Spans
  <2>4. c # Null
    BY <1>3 DEF Pointers
  <2>5. QED
    BY <1>1, <1>2, <2>3, <2>4 DEF Laid
<1>4. QED
  BY <1>2, <1>3 DEF NoDangling

\* The blocks in use are those that can be reached, each counted.
LEMMA NothingLostNow ==
  ASSUME LibInv
  PROVE  NothingLost
<1>1. PICK feet : Laid(memory, ClientConfiguration, Addresses, feet)
  BY DEF LibInv
<1>2. PICK roots : roots = ({ClientConfiguration} \cup {handle[h] : h \in Handles}) \ {Null}
  OBVIOUS
<1>3. \A a : a \in roots <=> a # Null /\ \E r \in Roots : a = Addresses[r]
  BY <1>2 DEF Addresses, Roots, Handles
<1>4. roots \subseteq Live(memory)
  BY <1>1, <1>3, RootLaid
<1>5. PICK C : C = Reachable(memory, roots)
  OBVIOUS
<1>6. C \subseteq Live(memory) /\ roots \subseteq C /\ Closed(memory, C)
  BY <1>4, <1>5, LaidHeap, PointersLive, Reached
<1>7. ASSUME NEW x \in Live(memory) PROVE x \in C
  <2>1. PICK r \in Roots : x \in feet[r]
    BY <1>1 DEF Laid
  <2>2. Addresses[r] # Null /\ Spans(memory, Addresses[r], feet[r], ClientConfiguration)
    BY <1>1, <2>1, LaidSpans
  <2>3. Addresses[r] \in C
    BY <1>3, <1>6, <2>2
  <2>4. QED
    BY <1>6, <2>1, <2>2, <2>3 DEF Spans
<1>8. Live(memory) = C
  BY <1>6, <1>7
<1>9. Accounted(memory)
  BY LaidHeap, HeapAccounted
<1>10. QED
  BY <1>2, <1>5, <1>8, <1>9 DEF NothingLost

\* The invariant implies the type invariant.
LEMMA TypeNow ==
  ASSUME LibInv
  PROVE  TypeOK
<1>1. Heap(memory)
  BY LaidHeap
<1>2. DOMAIN memory = {"block", "TotalUsedMemory"} /\ memory.TotalUsedMemory \in Nat
  <2>1. PICK b, u : b = memory.block /\ u = memory.TotalUsedMemory
    OBVIOUS
  <2>2. memory = [block |-> b, TotalUsedMemory |-> u] /\ u \in Nat
    BY <1>1, <2>1 DEF Heap, Blocks
  <2>3. QED
    BY <2>1, <2>2
<1>3. ASSUME ClientConfiguration # Null PROVE Count(memory, list) = Len(BrokerItems)
  <2>1. PICK feet, l, ns, ds, t, o : Held(feet, l, ns, ds, t, o)
    BY <1>3, ConfigHeld
  <2>2. QED
    BY <1>3, <2>1, HeldItems
<1>4. written \in Seq(Definition)
  BY DEF LibInv
<1>5. QED
  BY <1>2, <1>3, <1>4, PointersLive DEF TypeOK

\* No pointer in a block is left behind when what it leads to is freed, in a list that is
\* edited as in a client, a configuration or metadata that is destroyed part by part,
\* and Count stays the number of nodes (rmqsList.c).
THEOREM TypeCorrect == LibrarySpec => []TypeOK
<1>1. LibInv => TypeOK
  BY TypeNow
<1>2. QED
  BY <1>1, ShapesKept, PTL

\* No block of the library is lost and none is counted wrong: the blocks in use are at
\* any time those that the application can still reach, and rmqsGetUsedMemory adds up
\* their sizes.
THEOREM NothingEverLost == LibrarySpec => []NothingLost
<1>1. LibInv => NothingLost
  BY NothingLostNow
<1>2. QED
  BY <1>1, ShapesKept, PTL
=============================================================================
