--------------------------- MODULE SequenceProofs ---------------------------
(***************************************************************************)
(* Sequences that grow at one end and are taken from at the other, as the  *)
(* channels of Requests are; induction over the naturals, and what it      *)
(* gives for Sums: the sum of a sequence is what its running totals end    *)
(* with; and walks along a sequence, from a value before its first element *)
(* to one after its last.                                                  *)
(***************************************************************************)
EXTENDS Sums, Calls, WellFoundedInduction, TLAPS

\* A set of numbers that is not empty has a least one.
LEMMA LeastExists ==
  ASSUME NEW T, T \subseteq Nat, T # {}
  PROVE  \E x \in T : \A y \in T : ~(y < x)
<1> DEFINE below == {ss \in Nat \X Nat : ss[1] < ss[2]}
<1>1. IsWellFoundedOn(below, Nat)
  BY NatLessThanWellFounded, Zenon DEF OpToRel
<1>2. \E x \in T : \A y \in T : ~(<<y, x>> \in below)
  BY <1>1, WFMin
<1>3. \A x, y \in T : y < x => <<y, x>> \in below
  OBVIOUS
<1>4. QED
  BY <1>2, <1>3

\* Induction: a set with 0 and with the successors of its members is all of Nat.
LEMMA NatSetInduction ==
  ASSUME NEW S, 0 \in S, \A n \in Nat : n \in S => n + 1 \in S
  PROVE  Nat \subseteq S
<1>1. SUFFICES ASSUME Nat \ S # {} PROVE FALSE
  OBVIOUS
<1>2. PICK x \in Nat \ S : \A y \in Nat \ S : ~(y < x)
  BY <1>1, LeastExists
<1>3. x # 0 /\ x - 1 \in Nat /\ x - 1 < x
  BY <1>2
<1>4. x - 1 \in S
  BY <1>2, <1>3
<1>5. (x - 1) + 1 \in S
  BY <1>3, <1>4
<1>6. QED
  BY <1>2, <1>5

\* The library folds a sequence from its greatest index down.
LEMMA MaxLemma ==
  ASSUME NEW n \in Nat, NEW s \in SUBSET (0..n), s # {}
  PROVE  Max(s) \in s /\ \A y \in s : y <= Max(s)
<1> DEFINE bounds == {u \in Nat : \A y \in s : y <= u}
<1>1. n \in bounds
  OBVIOUS
<1>2. PICK u \in bounds : \A v \in bounds : ~(v < u)
  BY <1>1, LeastExists
<1>3. u \in s
  <2>1. SUFFICES ASSUME u \notin s PROVE FALSE
    OBVIOUS
  <2>2. \A y \in s : y <= u - 1 /\ y >= 0
    BY <1>2, <2>1
  <2>3. u - 1 \in Nat
    <3>1. PICK y \in s : y <= u - 1 /\ y >= 0
      BY <2>2
    <3>2. u \in Nat /\ y \in Nat
      BY <1>2
    <3>3. QED
      BY <3>1, <3>2
  <2>4. u - 1 \in bounds
    BY <2>2, <2>3
  <2>5. QED
    BY <1>2, <2>3, <2>4
<1>4. \A y \in s : u >= y
  BY <1>2
<1> HIDE DEF bounds
<1>5. Max(s) \in s /\ \A y \in s : Max(s) >= y
  BY <1>3, <1>4 DEF Max
<1>6. QED
  BY <1>5

LEMMA MaxOfInterval ==
  ASSUME NEW n \in Nat, NEW s \in SUBSET (0..n), n \in s
  PROVE  Max(s) = n
<1>1. Max(s) \in s /\ n <= Max(s)
  BY MaxLemma
<1>2. Max(s) \in 0..n
  BY <1>1
<1> QED
  BY <1>1, <1>2

\* The totals of the weights over any set of indices, the way the library's fold
\* computes them.
TotalOver(f, D, w) ==
    f = [s \in SUBSET D |-> IF s = {} THEN 0 ELSE f[s \ {Max(s)}] + w[Max(s)]]

LEMMA TotalsExist ==
  ASSUME NEW w \in Seq(Nat)
  PROVE  \E f \in [SUBSET (1..Len(w)) -> Nat] : TotalOver(f, 1..Len(w), w)
<1> DEFINE S == {m \in Nat : m <= Len(w) =>
                    \E f \in [SUBSET (1..m) -> Nat] : TotalOver(f, 1..m, w)}
<1>1. 0 \in S
  <2> DEFINE f == [s \in SUBSET (1..0) |-> 0]
  <2>1. SUBSET (1..0) = {{}}
    OBVIOUS
  <2>2. f \in [SUBSET (1..0) -> Nat] /\ TotalOver(f, 1..0, w)
    BY <2>1 DEF TotalOver
  <2>3. QED
    BY <2>2
<1>2. ASSUME NEW m \in Nat, m \in S PROVE m + 1 \in S
  <2>0. m + 1 \in Nat
    OBVIOUS
  <2>1. SUFFICES ASSUME m + 1 <= Len(w)
                 PROVE  \E f \in [SUBSET (1..(m + 1)) -> Nat] : TotalOver(f, 1..(m + 1), w)
    BY <2>0, Zenon
  <2>2. Len(w) \in Nat /\ m + 1 \in 1..Len(w) /\ \A i \in 1..Len(w) : w[i] \in Nat
    BY <2>1
  <2>3. PICK f \in [SUBSET (1..m) -> Nat] : TotalOver(f, 1..m, w)
    <3>1. m <= Len(w)
      BY <2>1, <2>2
    <3>2. QED
      BY <1>2, <3>1, Zenon
  <2> DEFINE D == 1..(m + 1)
             g == [s \in SUBSET D |-> IF m + 1 \in s THEN f[s \ {m + 1}] + w[m + 1] ELSE f[s]]
  <2>4. \A s \in SUBSET D : s \ {m + 1} \in SUBSET (1..m)
    OBVIOUS
  <2>5. g \in [SUBSET D -> Nat]
    BY <2>2, <2>4
  <2>6. ASSUME NEW s \in SUBSET D
        PROVE  g[s] = IF s = {} THEN 0 ELSE g[s \ {Max(s)}] + w[Max(s)]
    <3>1. CASE m + 1 \in s
      <4>1. Max(s) = m + 1
        BY <3>1, MaxOfInterval
      <4>2. s \ {m + 1} \in SUBSET D /\ m + 1 \notin s \ {m + 1}
        OBVIOUS
      <4>3. (s \ {m + 1}) \ {m + 1} = s \ {m + 1}
        OBVIOUS
      <4>4. g[s \ {m + 1}] = f[s \ {m + 1}]
        BY <4>2
      <4>5. QED
        BY <3>1, <4>1, <4>4
    <3>2. CASE m + 1 \notin s /\ s # {}
      <4>1. s \in SUBSET (1..m)
        BY <2>4, <3>2
      <4>2. Max(s) \in s
        <5>1. s \in SUBSET (0..m)
          BY <4>1
        <5>2. QED
          BY <3>2, <5>1, MaxLemma
      <4>3. f[s] = f[s \ {Max(s)}] + w[Max(s)]
        BY <2>3, <3>2, <4>1 DEF TotalOver
      <4>4. g[s] = f[s] /\ g[s \ {Max(s)}] = f[s \ {Max(s)}]
        BY <3>2
      <4>5. QED
        BY <3>2, <4>3, <4>4
    <3>3. CASE s = {}
      <4>1. f[{}] = 0
        BY <2>3 DEF TotalOver
      <4>2. QED
        BY <3>3, <4>1
    <3>4. QED
      BY <3>1, <3>2, <3>3
  <2>7. TotalOver(g, D, w)
    BY <2>6 DEF TotalOver
  <2>8. QED
    BY <2>5, <2>7
<1> HIDE DEF S
<1>3. Nat \subseteq S
  BY <1>1, <1>2, NatSetInduction
<1>4. Len(w) \in S /\ Len(w) <= Len(w)
  BY <1>3
<1>5. QED
  BY <1>4, Zenon DEF S

\* The running totals of a sequence.
Running(g, w) ==
    /\ g \in [0..Len(w) -> Nat] /\ g[0] = 0
    /\ \A i \in 1..Len(w) : g[i] = g[i - 1] + w[i]

\* The sum is the last of the running totals, whoever keeps them.
LEMMA SumIsRunning ==
  ASSUME NEW w \in Seq(Nat), NEW g, Running(g, w)
  PROVE  Sum(w) = g[Len(w)]
<1> DEFINE D == 1..Len(w)
           f == CHOOSE f : f = [s \in SUBSET D |->
                     IF s = {} THEN 0 ELSE f[s \ {Max(s)}] + w[Max(s)]]
<1>1. DOMAIN w = D /\ Len(w) \in Nat
  OBVIOUS
<1>2. Sum(w) = f[D]
  BY <1>1, Zenon DEF Sum, FoldLeft, MapThenFoldSet
<1>3. f = [s \in SUBSET D |-> IF s = {} THEN 0 ELSE f[s \ {Max(s)}] + w[Max(s)]]
  BY TotalsExist, Zenon DEF TotalOver
<1> HIDE DEF f
<1> DEFINE S == {i \in Nat : i <= Len(w) => f[1..i] = g[i]}
<1>4. 0 \in S
  <2>1. 1..0 = {}
    OBVIOUS
  <2>2. f[{}] = 0
    BY <1>3
  <2>3. QED
    BY <2>1, <2>2 DEF Running
<1>5. ASSUME NEW i \in Nat, i \in S PROVE i + 1 \in S
  <2>1. SUFFICES ASSUME i + 1 <= Len(w) PROVE f[1..(i + 1)] = g[i + 1]
    OBVIOUS
  <2>2. 1..(i + 1) \in SUBSET D /\ 1..(i + 1) # {} /\ i + 1 \in 1..(i + 1)
    <3>1. \A j \in 1..(i + 1) : j \in D
      BY <1>1, <2>1
    <3>2. QED
      BY <3>1
  <2>3. Max(1..(i + 1)) = i + 1
    BY <2>2, MaxOfInterval
  <2>4. (1..(i + 1)) \ {i + 1} = 1..i
    OBVIOUS
  <2>5. f[1..(i + 1)] = f[1..i] + w[i + 1]
    BY <1>3, <2>2, <2>3, <2>4
  <2>6. f[1..i] = g[i] /\ g[i + 1] = g[i] + w[i + 1]
    BY <1>1, <1>5, <2>1 DEF Running
  <2>7. QED
    BY <2>5, <2>6
<1> HIDE DEF S
<1>6. Len(w) \in S
  BY <1>1, <1>4, <1>5, NatSetInduction
<1>7. QED
  BY <1>1, <1>2, <1>6 DEF S

LEMMA RunningExists ==
  ASSUME NEW w \in Seq(Nat)
  PROVE  \E g : Running(g, w)
<1>1. PICK f \in [SUBSET (1..Len(w)) -> Nat] : TotalOver(f, 1..Len(w), w)
  BY TotalsExist
<1> DEFINE g == [i \in 0..Len(w) |-> f[1..i]]
<1>2. ASSUME NEW i \in 0..Len(w) PROVE 1..i \in SUBSET (1..Len(w))
  <2>1. \A j \in 1..i : j \in 1..Len(w)
    OBVIOUS
  <2>2. QED
    BY <2>1
<1>3. g \in [0..Len(w) -> Nat]
  BY <1>2
<1>4. g[0] = 0
  <2>1. 1..0 = {} /\ 0 \in 0..Len(w)
    OBVIOUS
  <2>2. f[{}] = 0
    BY <1>1 DEF TotalOver
  <2>3. QED
    BY <2>1, <2>2
<1>5. ASSUME NEW i \in 1..Len(w) PROVE g[i] = g[i - 1] + w[i]
  <2>1. i \in Nat /\ i \in 0..Len(w) /\ i - 1 \in 0..Len(w) /\ i \in 1..i
    OBVIOUS
  <2>2. Max(1..i) = i
    BY <2>1, MaxOfInterval
  <2>3. (1..i) \ {i} = 1..(i - 1) /\ 1..i # {}
    <3>1. \A j : (j \in 1..i /\ j # i) <=> j \in 1..(i - 1)
      BY <2>1
    <3>2. QED
      BY <2>1, <3>1
  <2>4. f[1..i] = f[1..(i - 1)] + w[i]
    BY <1>1, <1>2, <2>1, <2>2, <2>3 DEF TotalOver
  <2>5. QED
    BY <2>1, <2>4
<1>6. QED
  BY <1>3, <1>4, <1>5 DEF Running

LEMMA SumType ==
  ASSUME NEW w \in Seq(Nat)
  PROVE  Sum(w) \in Nat
<1>1. PICK g : Running(g, w)
  BY RunningExists
<1>2. Sum(w) = g[Len(w)] /\ Len(w) \in 0..Len(w)
  BY <1>1, SumIsRunning
<1>3. QED
  BY <1>1, <1>2 DEF Running

LEMMA SumEmpty == Sum(<< >>) = 0
<1> DEFINE w == << >>
           g == [i \in 0..0 |-> 0]
<1>1. w \in Seq(Nat) /\ Len(w) = 0
  OBVIOUS
<1>2. Running(g, w)
  BY <1>1 DEF Running
<1> HIDE DEF g
<1>3. Sum(w) = g[0]
  BY <1>1, <1>2, SumIsRunning
<1>4. QED
  BY <1>2, <1>3 DEF Running

LEMMA SumSingle ==
  ASSUME NEW x \in Nat
  PROVE  Sum(<<x>>) = x
<1> DEFINE w == <<x>>
           g == [i \in 0..1 |-> IF i = 0 THEN 0 ELSE x]
<1>1. w \in Seq(Nat) /\ Len(w) = 1 /\ w[1] = x
  OBVIOUS
<1>2. Running(g, w)
  BY <1>1 DEF Running
<1>3. g[1] = x
  OBVIOUS
<1> HIDE DEF g, w
<1>4. Sum(w) = g[1]
  BY <1>1, <1>2, SumIsRunning
<1>5. QED
  BY <1>3, <1>4 DEF w

LEMMA SumConcat ==
  ASSUME NEW v \in Seq(Nat), NEW w \in Seq(Nat)
  PROVE  Sum(v \o w) = Sum(v) + Sum(w)
<1>1. PICK f : Running(f, v)
  BY RunningExists
<1>2. PICK g : Running(g, w)
  BY RunningExists
<1>3. PICK m \in Nat, n \in Nat : m = Len(v) /\ n = Len(w)
  OBVIOUS
<1>4. /\ f \in [0..m -> Nat] /\ f[0] = 0 /\ \A i \in 1..m : f[i] = f[i - 1] + v[i]
      /\ g \in [0..n -> Nat] /\ g[0] = 0 /\ \A i \in 1..n : g[i] = g[i - 1] + w[i]
  BY <1>1, <1>2, <1>3 DEF Running
<1>5. /\ v \o w \in Seq(Nat) /\ Len(v \o w) = m + n
      /\ \A i \in 1..m : (v \o w)[i] = v[i]
      /\ \A i \in (m + 1)..(m + n) : (v \o w)[i] = w[i - m]
  BY <1>3
<1> DEFINE h == [i \in 0..(m + n) |-> IF i <= m THEN f[i] ELSE f[m] + g[i - m]]
<1>6. h \in [0..(m + n) -> Nat]
  <2>1. ASSUME NEW i \in 0..(m + n) PROVE (IF i <= m THEN f[i] ELSE f[m] + g[i - m]) \in Nat
    <3>1. CASE i <= m
      BY <1>4, <3>1
    <3>2. CASE i > m
      <4>1. i - m \in 0..n /\ m \in 0..m /\ ~(i <= m)
        BY <3>2
      <4>2. f[m] \in Nat /\ g[i - m] \in Nat
        BY <1>4, <4>1
      <4>3. QED
        BY <4>1, <4>2
    <3>3. QED
      BY <3>1, <3>2
  <2>2. QED
    BY <2>1
<1>7. h[0] = 0
  BY <1>4
<1>8. ASSUME NEW i \in 1..(m + n) PROVE h[i] = h[i - 1] + (v \o w)[i]
  <2>1. i \in 0..(m + n) /\ i - 1 \in 0..(m + n)
    OBVIOUS
  <2>2. CASE i <= m
    BY <1>4, <1>5, <2>1, <2>2
  <2>3. CASE i = m + 1
    <3>1. h[i] = f[m] + g[1] /\ h[i - 1] = f[m] /\ (v \o w)[i] = w[1]
      <4>1. i - m = 1 /\ i - 1 = m /\ ~(i <= m) /\ i - 1 <= m /\ i \in (m + 1)..(m + n)
        BY <2>3
      <4>2. h[i] = f[m] + g[i - m] /\ h[i - 1] = f[i - 1]
        BY <2>1, <4>1
      <4>3. QED
        BY <1>5, <4>1, <4>2
    <3>2. 1 \in 1..n
      BY <2>3
    <3>3. g[1] = g[0] + w[1] /\ g[0] = 0 /\ g[1] \in Nat /\ f[m] \in Nat
      BY <1>4, <3>2
    <3>4. w[1] \in Nat
      BY <1>3, <3>2
    <3>5. QED
      BY <3>1, <3>3, <3>4
  <2>4. CASE i > m + 1
    <3>1. i - m \in 1..n /\ (i - 1) - m = (i - m) - 1 /\ (i - m) - 1 \in 0..n
      BY <2>4
    <3>2. h[i] = f[m] + g[i - m] /\ h[i - 1] = f[m] + g[(i - m) - 1]
          /\ (v \o w)[i] = w[i - m]
      BY <1>5, <2>1, <2>4, <3>1
    <3>3. /\ g[i - m] = g[(i - m) - 1] + w[i - m]
          /\ f[m] \in Nat /\ g[(i - m) - 1] \in Nat /\ w[i - m] \in Nat
      <4>1. PICK j \in 1..n : j = i - m
        BY <3>1
      <4>2. j - 1 \in 0..n /\ m \in 0..m
        OBVIOUS
      <4>3. /\ g[j] = g[j - 1] + w[j] /\ g[j - 1] \in Nat /\ f[m] \in Nat
        BY <1>4, <4>2
      <4>4. w[j] \in Nat
        BY <1>3
      <4>5. QED
        BY <4>1, <4>3, <4>4
    <3>4. QED
      BY <3>2, <3>3
  <2> HIDE DEF h
  <2>5. i <= m \/ i = m + 1 \/ i > m + 1
    OBVIOUS
  <2>6. QED
    BY <2>2, <2>3, <2>4, <2>5
<1>9. Running(h, v \o w)
  BY <1>5, <1>6, <1>7, <1>8 DEF Running
<1>10. h[m + n] = f[m] + g[n]
  <2>1. m + n \in 0..(m + n)
    OBVIOUS
  <2>2. CASE n = 0
    <3>1. f[m] \in Nat /\ g[n] = 0
      BY <1>4, <2>2
    <3>2. QED
      BY <2>1, <2>2, <3>1
  <2>3. CASE n > 0
    BY <2>1, <2>3
  <2>4. QED
    BY <2>2, <2>3
<1> HIDE DEF h
<1>11. Sum(v \o w) = h[m + n] /\ Sum(v) = f[m] /\ Sum(w) = g[n]
  BY <1>1, <1>2, <1>3, <1>5, <1>9, SumIsRunning
<1>12. QED
  BY <1>10, <1>11

LEMMA SumTail ==
  ASSUME NEW w \in Seq(Nat), Len(w) > 0
  PROVE  Sum(w) = w[1] + Sum(Tail(w))
<1>1. w[1] \in Nat /\ <<w[1]>> \in Seq(Nat) /\ Tail(w) \in Seq(Nat)
  OBVIOUS
<1>2. w = <<w[1]>> \o Tail(w)
  OBVIOUS
<1>3. Sum(<<w[1]>> \o Tail(w)) = Sum(<<w[1]>>) + Sum(Tail(w))
  BY <1>1, SumConcat
<1>4. QED
  BY <1>1, <1>2, <1>3, SumSingle

LEMMA SumAppend ==
  ASSUME NEW w \in Seq(Nat), NEW x \in Nat
  PROVE  Sum(Append(w, x)) = Sum(w) + x
<1>1. Append(w, x) = w \o <<x>> /\ <<x>> \in Seq(Nat)
  OBVIOUS
<1>2. QED
  BY <1>1, SumConcat, SumSingle

-----------------------------------------------------------------------------
(* The elements of a sequence.                                             *)

LEMMA ElementOf ==
  ASSUME NEW S, NEW s \in Seq(S), NEW i \in DOMAIN s
  PROVE  s[i] \in S
OBVIOUS

LEMMA TailFacts ==
  ASSUME NEW S, NEW s \in Seq(S), s # << >>
  PROVE  /\ Tail(s) \in Seq(S) /\ Len(Tail(s)) = Len(s) - 1 /\ Head(s) = s[1]
         /\ Len(s) \in Nat \ {0} /\ 1 \in DOMAIN s
         /\ \A j \in DOMAIN Tail(s) : j + 1 \in DOMAIN s /\ Tail(s)[j] = s[j + 1]
OBVIOUS

LEMMA AppendFacts ==
  ASSUME NEW S, NEW s \in Seq(S), NEW e \in S
  PROVE  /\ Append(s, e) \in Seq(S) /\ Len(s) \in Nat /\ DOMAIN s = 1..Len(s)
         /\ Len(Append(s, e)) = Len(s) + 1 /\ DOMAIN Append(s, e) = 1..(Len(s) + 1)
         /\ Append(s, e)[Len(s) + 1] = e /\ \A j \in 1..Len(s) : Append(s, e)[j] = s[j]
OBVIOUS

LEMMA SeqWider ==
  ASSUME NEW S, NEW T, \A x \in S : x \in T, NEW s \in Seq(S)
  PROVE  s \in Seq(T)
OBVIOUS

LEMMA RestFacts ==
  ASSUME NEW S, NEW s \in Seq(S), NEW n \in 1..Len(s)
  PROVE  /\ SubSeq(s, n + 1, Len(s)) \in Seq(S)
         /\ Len(SubSeq(s, n + 1, Len(s))) = Len(s) - n
         /\ DOMAIN SubSeq(s, n + 1, Len(s)) = 1..(Len(s) - n)
         /\ \A k \in DOMAIN SubSeq(s, n + 1, Len(s)) : SubSeq(s, n + 1, Len(s))[k] = s[n + k]
<1>1. PICK l \in Nat : l = Len(s)
  OBVIOUS
<1>2. n \in Nat /\ n <= l
  BY <1>1
<1>3. Len(SubSeq(s, n + 1, l)) = l - n
  BY <1>1, <1>2
<1>4. QED
  BY <1>1, <1>2, <1>3

LEMMA GrownBy ==
  ASSUME NEW S, NEW s \in Seq(S), NEW e, NEW t, t = s \/ t = Append(s, e)
  PROVE  \E n \in Nat :
           /\ DOMAIN s = 1..n
           /\ \A j \in DOMAIN t : \/ j \in 1..n /\ t[j] = s[j]
                                  \/ j = n + 1 /\ t[j] = e
<1>1. PICK n \in Nat : n = Len(s) /\ DOMAIN s = 1..n
  OBVIOUS
<1>2. CASE t = s
  BY <1>1, <1>2
<1>3. CASE t = Append(s, e)
  <2>1. DOMAIN t = 1..(n + 1) /\ t[n + 1] = e /\ \A j \in 1..n : t[j] = s[j]
    BY <1>1, <1>3
  <2>2. \A j \in 1..(n + 1) : j \in 1..n \/ j = n + 1
    BY <1>1
  <2>3. QED
    BY <1>1, <2>1, <2>2
<1>4. QED
  BY <1>2, <1>3

\* Sequences of one length with the same elements are the same.
LEMMA SameSequence ==
  ASSUME NEW S, NEW s \in Seq(S), NEW t \in Seq(S), NEW n \in Nat, Len(s) = n, Len(t) = n,
         \A j \in 1..n : s[j] = t[j]
  PROVE  s = t
OBVIOUS

LEMMA AppendTwo ==
  ASSUME NEW S, NEW s \in Seq(S), NEW a \in S, NEW b \in S
  PROVE  s \o (<<a>> \o <<b>>) = Append(Append(s, a), b)
<1>1. PICK n \in Nat : n = Len(s)
  OBVIOUS
<1>2. PICK t \in Seq(S) : t = <<a>> \o <<b>> /\ Len(t) = 2 /\ t[1] = a /\ t[2] = b
  <2>1. <<a>> \in Seq(S) /\ <<b>> \in Seq(S)
    OBVIOUS
  <2>2. <<a>> \o <<b>> \in Seq(S)
    BY <2>1
  <2>3. Len(<<a>> \o <<b>>) = 2 /\ (<<a>> \o <<b>>)[1] = a /\ (<<a>> \o <<b>>)[2] = b
    BY <2>1
  <2>4. QED
    BY <2>2, <2>3
<1>3. PICK u \in Seq(S) : /\ u = Append(s, a) /\ Len(u) = n + 1 /\ u[n + 1] = a
                          /\ \A i \in 1..n : u[i] = s[i]
  <2>1. /\ Append(s, a) \in Seq(S) /\ Len(Append(s, a)) = n + 1 /\ Append(s, a)[n + 1] = a
        /\ \A i \in 1..n : Append(s, a)[i] = s[i]
    BY <1>1
  <2>2. QED
    BY <2>1
<1>4. PICK v \in Seq(S) : /\ v = Append(u, b) /\ Len(v) = n + 2 /\ v[n + 2] = b
                          /\ \A i \in 1..(n + 1) : v[i] = u[i]
  <2>1. /\ Append(u, b) \in Seq(S) /\ Len(Append(u, b)) = n + 2 /\ Append(u, b)[n + 2] = b
        /\ \A i \in 1..(n + 1) : Append(u, b)[i] = u[i]
    BY <1>3
  <2>2. QED
    BY <2>1
<1>5. PICK w \in Seq(S) : /\ w = s \o t /\ Len(w) = n + 2
                          /\ \A i \in 1..n : w[i] = s[i]
                          /\ w[n + 1] = t[1] /\ w[n + 2] = t[2]
  <2>1. /\ s \o t \in Seq(S) /\ Len(s \o t) = n + 2
        /\ \A i \in 1..n : (s \o t)[i] = s[i]
        /\ (s \o t)[n + 1] = t[1] /\ (s \o t)[n + 2] = t[2]
    BY <1>1, <1>2
  <2>2. QED
    BY <2>1
<1>6. \A i \in 1..(n + 2) : i \in 1..n \/ i = n + 1 \/ i = n + 2
  BY <1>1
<1>7. \A i \in 1..(n + 2) : w[i] = v[i]
  <2>1. \A i \in 1..n : i \in 1..(n + 1)
    OBVIOUS
  <2>2. n + 1 \in 1..(n + 1)
    OBVIOUS
  <2>3. QED
    BY <1>2, <1>3, <1>4, <1>5, <1>6, <2>1, <2>2
<1>8. w = v
  <2>1. \A x, y \in Seq(S) : Len(x) = n + 2 /\ Len(y) = n + 2
          /\ (\A i \in 1..(n + 2) : x[i] = y[i]) => x = y
    OBVIOUS
  <2>2. QED
    BY <1>4, <1>5, <1>7, <2>1
<1>9. QED
  BY <1>2, <1>3, <1>4, <1>5, <1>8

\* A sequence with another element in the same place.
LEMMA ReplaceFacts ==
  ASSUME NEW S, NEW s \in Seq(S), NEW e \in DOMAIN s, NEW x \in S,
         NEW t, t = [s EXCEPT ![e] = x]
  PROVE  /\ t \in Seq(S) /\ Len(t) = Len(s) /\ DOMAIN t = DOMAIN s /\ t[e] = x
         /\ \A i \in DOMAIN s : i # e => t[i] = s[i]
<1>1. PICK n \in Nat : n = Len(s) /\ DOMAIN s = 1..n
  OBVIOUS
<1>2. t \in [1..n -> S] /\ t[e] = x /\ \A i \in 1..n : i # e => t[i] = s[i]
  BY <1>1, ElementOf
<1>3. t \in Seq(S) /\ Len(t) = n
  BY <1>2
<1>4. QED
  BY <1>1, <1>2, <1>3

-----------------------------------------------------------------------------
(* Walks.  R holds the steps <<x, e, y>>: at element e the value x before it *)
(* becomes y.                                                              *)

Walk(v, s, R, V) ==
    /\ v \in [1..(Len(s) + 1) -> V]
    /\ \A j \in 1..Len(s) : <<v[j], s[j], v[j + 1]>> \in R

\* Along s the value a becomes b.
Leads(a, s, b, R, V) == \E v : Walk(v, s, R, V) /\ v[1] = a /\ v[Len(s) + 1] = b

LEMMA LeadsType ==
  ASSUME NEW V, NEW R, NEW S, NEW s \in Seq(S), NEW a, NEW b, Leads(a, s, b, R, V)
  PROVE  a \in V /\ b \in V
<1>1. PICK n \in Nat : n = Len(s)
  OBVIOUS
<1>2. PICK v : Walk(v, s, R, V) /\ v[1] = a /\ v[n + 1] = b
  BY <1>1 DEF Leads
<1>3. v \in [1..(n + 1) -> V] /\ 1 \in 1..(n + 1) /\ n + 1 \in 1..(n + 1)
  BY <1>1, <1>2 DEF Walk
<1>4. QED
  BY <1>2, <1>3

LEMMA LeadsEmpty ==
  ASSUME NEW V, NEW R, NEW a \in V
  PROVE  Leads(a, << >>, a, R, V)
<1> DEFINE v == [j \in 1..1 |-> a]
<1>1. Walk(v, << >>, R, V) /\ v[1] = a /\ v[Len(<< >>) + 1] = a
  BY DEF Walk
<1>2. QED
  BY <1>1, Zenon DEF Leads

LEMMA LeadsTail ==
  ASSUME NEW V, NEW R, NEW S, NEW s \in Seq(S), s # << >>, NEW a, NEW b, Leads(a, s, b, R, V)
  PROVE  \E x \in V : <<a, Head(s), x>> \in R /\ Leads(x, Tail(s), b, R, V)
<1>1. PICK n \in Nat \ {0} : n = Len(s)
  OBVIOUS
<1>2. PICK v : Walk(v, s, R, V) /\ v[1] = a /\ v[n + 1] = b
  BY <1>1 DEF Leads
<1>3. v \in [1..(n + 1) -> V] /\ \A j \in 1..n : <<v[j], s[j], v[j + 1]>> \in R
  BY <1>1, <1>2 DEF Walk
<1>4. PICK t \in Seq(S) : /\ t = Tail(s) /\ Len(t) = n - 1 /\ Head(s) = s[1]
                          /\ \A j \in 1..(n - 1) : t[j] = s[j + 1]
  <2>1. /\ Tail(s) \in Seq(S) /\ Len(Tail(s)) = n - 1 /\ Head(s) = s[1]
        /\ \A j \in 1..(n - 1) : Tail(s)[j] = s[j + 1]
    BY <1>1
  <2>2. QED
    BY <2>1
<1> DEFINE w == [j \in 1..n |-> v[j + 1]]
<1>5. w \in [1..n -> V] /\ \A j \in 1..n : w[j] = v[j + 1]
  BY <1>3
<1> HIDE DEF w
<1>6. \A j \in 1..(n - 1) : <<w[j], t[j], w[j + 1]>> \in R
  BY <1>3, <1>4, <1>5
<1>7. Walk(w, t, R, V)
  <2>1. (n - 1) + 1 = n
    OBVIOUS
  <2>2. QED
    BY <1>4, <1>5, <1>6, <2>1, Zenon DEF Walk
<1>8. w[1] = v[2] /\ w[Len(t) + 1] = b
  BY <1>2, <1>4, <1>5
<1>9. Leads(v[2], t, b, R, V)
  BY <1>7, <1>8, Zenon DEF Leads
<1>10. v[2] \in V /\ <<a, Head(s), v[2]>> \in R
  BY <1>2, <1>3, <1>4
<1>11. QED
  BY <1>4, <1>9, <1>10

LEMMA LeadsAppend ==
  ASSUME NEW V, NEW R, NEW S, NEW s \in Seq(S), NEW a, NEW b, Leads(a, s, b, R, V),
         NEW e \in S, NEW c \in V, <<b, e, c>> \in R
  PROVE  Leads(a, Append(s, e), c, R, V)
<1>1. PICK n \in Nat : n = Len(s)
  OBVIOUS
<1>2. PICK v : Walk(v, s, R, V) /\ v[1] = a /\ v[n + 1] = b
  BY <1>1 DEF Leads
<1>3. v \in [1..(n + 1) -> V] /\ \A j \in 1..n : <<v[j], s[j], v[j + 1]>> \in R
  BY <1>1, <1>2 DEF Walk
<1>4. PICK t \in Seq(S) : /\ t = Append(s, e) /\ Len(t) = n + 1 /\ t[n + 1] = e
                          /\ \A j \in 1..n : t[j] = s[j]
  <2>1. /\ Append(s, e) \in Seq(S) /\ Len(Append(s, e)) = n + 1 /\ Append(s, e)[n + 1] = e
        /\ \A j \in 1..n : Append(s, e)[j] = s[j]
    BY <1>1
  <2>2. QED
    BY <2>1
<1> DEFINE w == [j \in 1..(n + 2) |-> IF j = n + 2 THEN c ELSE v[j]]
<1>5. w \in [1..(n + 2) -> V] /\ w[n + 2] = c /\ \A j \in 1..(n + 1) : w[j] = v[j]
  BY <1>3
<1> HIDE DEF w
<1>6. ASSUME NEW j \in 1..(n + 1) PROVE <<w[j], t[j], w[j + 1]>> \in R
  <2>1. CASE j = n + 1
    BY <1>2, <1>4, <1>5, <2>1
  <2>2. CASE j # n + 1
    <3>1. j \in 1..n /\ j + 1 \in 1..(n + 1)
      BY <2>2
    <3>2. QED
      BY <1>3, <1>4, <1>5, <3>1
  <2>3. QED
    BY <2>1, <2>2
<1>7. (n + 1) + 1 = n + 2 /\ w[1] = a
  BY <1>2, <1>5
<1>8. Walk(w, t, R, V)
  BY <1>4, <1>5, <1>6, <1>7, Zenon DEF Walk
<1>9. QED
  BY <1>4, <1>5, <1>7, <1>8, Zenon DEF Leads

LEMMA LeadsFront ==
  ASSUME NEW V, NEW R, NEW S, NEW s \in Seq(S), NEW a, NEW b, Leads(a, s, b, R, V),
         NEW n \in 0..Len(s)
  PROVE  \E c \in V : Leads(a, SubSeq(s, 1, n), c, R, V)
<1>1. PICK l \in Nat : l = Len(s) /\ n \in Nat /\ n <= l
  OBVIOUS
<1>2. PICK v : Walk(v, s, R, V) /\ v[1] = a
  BY DEF Leads
<1>3. v \in [1..(l + 1) -> V] /\ \A j \in 1..l : <<v[j], s[j], v[j + 1]>> \in R
  BY <1>1, <1>2 DEF Walk
<1>4. PICK t \in Seq(S) : t = SubSeq(s, 1, n) /\ Len(t) = n /\ \A j \in 1..n : t[j] = s[j]
  <2>1. SubSeq(s, 1, n) \in Seq(S) /\ Len(SubSeq(s, 1, n)) = n
        /\ \A j \in 1..n : SubSeq(s, 1, n)[j] = s[j]
    BY <1>1
  <2>2. QED
    BY <2>1
<1> DEFINE w == [j \in 1..(n + 1) |-> v[j]]
<1>5. w \in [1..(n + 1) -> V] /\ \A j \in 1..(n + 1) : w[j] = v[j]
  BY <1>1, <1>3
<1> HIDE DEF w
<1>6. ASSUME NEW j \in 1..n PROVE <<w[j], t[j], w[j + 1]>> \in R
  <2>1. j \in 1..l /\ w[j] = v[j] /\ w[j + 1] = v[j + 1] /\ t[j] = s[j]
    BY <1>1, <1>4, <1>5
  <2>2. QED
    BY <1>3, <2>1
<1>7. Walk(w, t, R, V)
  BY <1>4, <1>5, <1>6, Zenon DEF Walk
<1>8. w[1] = a /\ w[n + 1] \in V
  BY <1>1, <1>2, <1>5
<1>9. Leads(a, t, w[n + 1], R, V)
  BY <1>4, <1>7, <1>8, Zenon DEF Leads
<1>10. QED
  BY <1>4, <1>8, <1>9

\* The same walk by other steps, that the elements allow as well.
LEMMA LeadsOtherwise ==
  ASSUME NEW V, NEW R, NEW Q, NEW S, NEW s \in Seq(S), NEW a, NEW b, Leads(a, s, b, R, V),
         \A j \in DOMAIN s : \A x, y \in V : <<x, s[j], y>> \in R => <<x, s[j], y>> \in Q
  PROVE  Leads(a, s, b, Q, V)
<1>1. PICK n \in Nat : n = Len(s) /\ DOMAIN s = 1..n
  OBVIOUS
<1>2. PICK v : Walk(v, s, R, V) /\ v[1] = a /\ v[n + 1] = b
  BY <1>1 DEF Leads
<1>3. v \in [1..(n + 1) -> V] /\ \A j \in 1..n : <<v[j], s[j], v[j + 1]>> \in R
  BY <1>1, <1>2 DEF Walk
<1>4. ASSUME NEW j \in 1..n PROVE <<v[j], s[j], v[j + 1]>> \in Q
  <2>1. v[j] \in V /\ v[j + 1] \in V
    BY <1>3
  <2>2. QED
    BY <1>1, <1>3, <2>1
<1>5. Walk(v, s, Q, V)
  BY <1>1, <1>3, <1>4, Zenon DEF Walk
<1>6. QED
  BY <1>1, <1>2, <1>5, Zenon DEF Leads

\* A walk that stays where it is.
LEMMA LeadsInPlace ==
  ASSUME NEW V, NEW R, NEW S, NEW s \in Seq(S), NEW a \in V,
         \A j \in DOMAIN s : <<a, s[j], a>> \in R
  PROVE  Leads(a, s, a, R, V)
<1>1. PICK n \in Nat : n = Len(s) /\ DOMAIN s = 1..n
  OBVIOUS
<1> DEFINE v == [j \in 1..(n + 1) |-> a]
<1>2. /\ v \in [1..(n + 1) -> V] /\ \A j \in 1..n : v[j] = a /\ v[j + 1] = a
      /\ v[1] = a /\ v[n + 1] = a
  OBVIOUS
<1> HIDE DEF v
<1>3. Walk(v, s, R, V)
  <2>1. \A j \in 1..n : <<v[j], s[j], v[j + 1]>> \in R
    BY <1>1, <1>2
  <2>2. QED
    BY <1>1, <1>2, <2>1, Zenon DEF Walk
<1>4. QED
  BY <1>1, <1>2, <1>3, Zenon DEF Leads

\* A walk in which no element changes the value.
LEMMA LeadsNowhere ==
  ASSUME NEW V, NEW R, NEW S, NEW s \in Seq(S), NEW a, NEW b, Leads(a, s, b, R, V),
         \A j \in DOMAIN s : \A x, y \in V : <<x, s[j], y>> \in R => y = x
  PROVE  b = a /\ \A j \in DOMAIN s : <<a, s[j], a>> \in R
<1>1. PICK n \in Nat : n = Len(s) /\ DOMAIN s = 1..n
  OBVIOUS
<1>2. PICK v : Walk(v, s, R, V) /\ v[1] = a /\ v[n + 1] = b
  BY <1>1 DEF Leads
<1>3. v \in [1..(n + 1) -> V] /\ \A j \in 1..n : <<v[j], s[j], v[j + 1]>> \in R
  BY <1>1, <1>2 DEF Walk
<1> DEFINE T == {k \in Nat : k <= n => v[k + 1] = a}
<1>4. 0 \in T
  BY <1>2
<1>5. ASSUME NEW k \in Nat, k \in T PROVE k + 1 \in T
  <2>1. CASE k + 1 <= n
    <3>1. k + 1 \in 1..n /\ k + 1 \in 1..(n + 1) /\ (k + 1) + 1 \in 1..(n + 1)
      BY <2>1
    <3>2. v[k + 1] \in V /\ v[(k + 1) + 1] \in V /\ <<v[k + 1], s[k + 1], v[(k + 1) + 1]>> \in R
      BY <1>3, <3>1
    <3>3. v[(k + 1) + 1] = v[k + 1]
      BY <1>1, <3>1, <3>2
    <3>4. v[k + 1] = a
      BY <1>5, <2>1
    <3>5. QED
      BY <3>3, <3>4
  <2>2. CASE ~(k + 1 <= n)
    BY <2>2
  <2>3. QED
    BY <2>1, <2>2
<1> HIDE DEF T
<1>6. Nat \subseteq T
  BY <1>4, <1>5, NatSetInduction
<1>7. \A k \in 0..n : v[k + 1] = a
  BY <1>6 DEF T
<1>8. ASSUME NEW j \in 1..n PROVE <<a, s[j], a>> \in R
  <2>1. v[j + 1] = a
    BY <1>7
  <2>2. v[j] = a
    <3>1. j - 1 \in 0..n /\ (j - 1) + 1 = j
      OBVIOUS
    <3>2. QED
      BY <1>7, <3>1
  <2>3. QED
    BY <1>3, <2>1, <2>2
<1>9. QED
  BY <1>1, <1>2, <1>7, <1>8

-----------------------------------------------------------------------------
(* What Requests gives to the modules that extend it: the request that     *)
(* waits is the last one on its way, it is answered at most once, and no   *)
(* other frame has its correlation id.  A request that ran out of time     *)
(* leaves its frame or its answer behind, with an older id.                *)

\* For the frames tb and tc on their way, the last correlation id and the call c.
InTurn(tb, tc, last, c) ==
    /\ \A j \in DOMAIN tb : tb[j].corr <= last
    /\ \A j \in DOMAIN tc : tc[j].corr <= last
    /\ c # NoCall =>
         /\ \A j \in DOMAIN tb : tb[j].corr = c.corr =>
              /\ tb[j].key = c.key /\ tb[j].arg = c.arg
              /\ \A k \in DOMAIN tb : j < k => tb[k].corr = 0
         /\ \A j \in DOMAIN tc : tc[j].corr = c.corr =>
              /\ tc[j].key = c.key
              /\ \A k \in DOMAIN tb : tb[k].corr = 0
              /\ \A k \in DOMAIN tc : tc[k].corr = c.corr => k = j

LEMMA InTurnAtFirst == InTurn(<< >>, << >>, 0, NoCall)
BY DEF InTurn

LEMMA InTurnEnds ==
  ASSUME NEW tb, NEW tc, NEW last, NEW c, InTurn(tb, tc, last, c)
  PROVE  InTurn(tb, tc, last, NoCall)
BY DEF InTurn

\* The client takes a frame; when it is the response, no other one comes.
LEMMA InTurnTail ==
  ASSUME NEW B, NEW tb, NEW tc \in Seq(B), tc # << >>, NEW last, NEW c, InTurn(tb, tc, last, c)
  PROVE  /\ InTurn(tb, Tail(tc), last, c)
         /\ c # NoCall /\ Head(tc).corr = c.corr =>
              /\ Head(tc).key = c.key /\ \A k \in DOMAIN tb : tb[k].corr = 0
              /\ \A j \in DOMAIN Tail(tc) : Tail(tc)[j].corr # c.corr
<1>1. PICK t : t = Tail(tc)
  OBVIOUS
<1>2. /\ Head(tc) = tc[1] /\ 1 \in DOMAIN tc
      /\ \A j \in DOMAIN t : j \in Nat \ {0} /\ j + 1 \in DOMAIN tc /\ t[j] = tc[j + 1]
  <2>1. DOMAIN Tail(tc) \subseteq Nat \ {0}
    OBVIOUS
  <2>2. QED
    BY <1>1, <2>1, TailFacts
<1>3. \A j \in DOMAIN t : t[j].corr <= last
  BY <1>2 DEF InTurn
<1>4. ASSUME c # NoCall, NEW j \in DOMAIN t, t[j].corr = c.corr
      PROVE  /\ t[j].key = c.key
             /\ \A k \in DOMAIN tb : tb[k].corr = 0
             /\ \A k \in DOMAIN t : t[k].corr = c.corr => k = j
  <2>1. \A k \in DOMAIN t : t[k].corr = c.corr => k + 1 = j + 1
    BY <1>2, <1>4 DEF InTurn
  <2>2. QED
    BY <1>2, <1>4, <2>1 DEF InTurn
<1>5. InTurn(tb, t, last, c)
  BY <1>3, <1>4 DEF InTurn
<1>6. ASSUME c # NoCall, Head(tc).corr = c.corr
      PROVE  /\ Head(tc).key = c.key /\ \A k \in DOMAIN tb : tb[k].corr = 0
             /\ \A j \in DOMAIN t : t[j].corr # c.corr
  <2>1. /\ tc[1].key = c.key /\ \A k \in DOMAIN tb : tb[k].corr = 0
        /\ \A k \in DOMAIN tc : tc[k].corr = c.corr => k = 1
    BY <1>2, <1>6 DEF InTurn
  <2>2. ASSUME NEW j \in DOMAIN t PROVE t[j].corr # c.corr
    <3>1. j + 1 \in DOMAIN tc /\ t[j] = tc[j + 1] /\ j + 1 # 1
      BY <1>2
    <3>2. QED
      BY <2>1, <3>1
  <2>3. QED
    BY <1>2, <2>1, <2>2
<1>7. QED
  BY <1>1, <1>5, <1>6

\* What the client sends without waiting for an answer.
LEMMA InTurnPush ==
  ASSUME NEW A, NEW tb \in Seq(A), NEW m, m.corr = 0, NEW tc, NEW last \in Nat, NEW c,
         c # NoCall => c.corr \in Nat \ {0}, InTurn(tb, tc, last, c)
  PROVE  InTurn(Append(tb, m), tc, last, c)
<1>1. PICK t : t = Append(tb, m)
  OBVIOUS
<1>2. PICK n \in Nat :
        /\ DOMAIN tb = 1..n
        /\ \A j \in DOMAIN t : \/ j \in 1..n /\ t[j] = tb[j]
                               \/ j = n + 1 /\ t[j] = m
  BY <1>1, GrownBy
<1>3. \A j \in DOMAIN t : t[j].corr <= last
  BY <1>2 DEF InTurn
<1>4. ASSUME c # NoCall, NEW j \in DOMAIN t, t[j].corr = c.corr
      PROVE  /\ t[j].key = c.key /\ t[j].arg = c.arg
             /\ \A k \in DOMAIN t : j < k => t[k].corr = 0
  <2>1. j \in DOMAIN tb /\ t[j] = tb[j]
    BY <1>2, <1>4
  <2>2. QED
    BY <1>2, <1>4, <2>1 DEF InTurn
<1>5. ASSUME c # NoCall, NEW j \in DOMAIN tc, tc[j].corr = c.corr, NEW k \in DOMAIN t
      PROVE  t[k].corr = 0
  BY <1>2, <1>5 DEF InTurn
<1>6. QED
  BY <1>1, <1>3, <1>4, <1>5 DEF InTurn

\* What the broker sends on its own.
LEMMA InTurnTells ==
  ASSUME NEW B, NEW tc \in Seq(B), NEW m, m.corr = 0, NEW tb, NEW last \in Nat, NEW c,
         c # NoCall => c.corr \in Nat \ {0}, InTurn(tb, tc, last, c)
  PROVE  InTurn(tb, Append(tc, m), last, c)
<1>1. PICK t : t = Append(tc, m)
  OBVIOUS
<1>2. PICK n \in Nat :
        /\ DOMAIN tc = 1..n
        /\ \A j \in DOMAIN t : \/ j \in 1..n /\ t[j] = tc[j]
                               \/ j = n + 1 /\ t[j] = m
  BY <1>1, GrownBy
<1>3. \A j \in DOMAIN t : t[j].corr <= last
  BY <1>2 DEF InTurn
<1>4. ASSUME c # NoCall, NEW j \in DOMAIN t, t[j].corr = c.corr
      PROVE  /\ t[j].key = c.key
             /\ \A k \in DOMAIN tb : tb[k].corr = 0
             /\ \A k \in DOMAIN t : t[k].corr = c.corr => k = j
  <2>1. \A k \in DOMAIN t : t[k].corr = c.corr => k \in DOMAIN tc /\ t[k] = tc[k]
    BY <1>2, <1>4
  <2>2. QED
    BY <1>4, <2>1 DEF InTurn
<1>5. QED
  BY <1>1, <1>3, <1>4 DEF InTurn

\* The broker takes a frame.
LEMMA InTurnTaken ==
  ASSUME NEW A, NEW tb \in Seq(A), tb # << >>, NEW tc, NEW last, NEW c, InTurn(tb, tc, last, c)
  PROVE  /\ InTurn(Tail(tb), tc, last, c)
         /\ Head(tb).corr <= last
         /\ c # NoCall /\ Head(tb).corr = c.corr =>
              /\ Head(tb).key = c.key /\ Head(tb).arg = c.arg
              /\ \A k \in DOMAIN Tail(tb) : Tail(tb)[k].corr = 0
         /\ c # NoCall /\ Head(tb).corr # 0 => \A k \in DOMAIN tc : tc[k].corr # c.corr
<1>1. PICK t : t = Tail(tb)
  OBVIOUS
<1>2. /\ Head(tb) = tb[1] /\ 1 \in DOMAIN tb
      /\ \A j \in DOMAIN t : j \in Nat \ {0} /\ j + 1 \in DOMAIN tb /\ t[j] = tb[j + 1]
  <2>1. DOMAIN Tail(tb) \subseteq Nat \ {0}
    OBVIOUS
  <2>2. QED
    BY <1>1, <2>1, TailFacts
<1>3. \A j \in DOMAIN t : t[j].corr <= last
  BY <1>2 DEF InTurn
<1>4. ASSUME c # NoCall, NEW j \in DOMAIN t, t[j].corr = c.corr
      PROVE  /\ t[j].key = c.key /\ t[j].arg = c.arg
             /\ \A k \in DOMAIN t : j < k => t[k].corr = 0
  <2>1. ASSUME NEW k \in DOMAIN t, j < k PROVE t[k].corr = 0
    <3>1. j + 1 \in DOMAIN tb /\ k + 1 \in DOMAIN tb /\ j + 1 < k + 1
      BY <1>2, <2>1
    <3>2. QED
      BY <1>2, <1>4, <3>1 DEF InTurn
  <2>2. QED
    BY <1>2, <1>4, <2>1 DEF InTurn
<1>5. ASSUME c # NoCall, NEW j \in DOMAIN tc, tc[j].corr = c.corr
      PROVE  \A k \in DOMAIN t : t[k].corr = 0
  BY <1>2, <1>5 DEF InTurn
<1>6. InTurn(t, tc, last, c)
  BY <1>3, <1>4, <1>5 DEF InTurn
<1>7. ASSUME c # NoCall, Head(tb).corr = c.corr
      PROVE  /\ Head(tb).key = c.key /\ Head(tb).arg = c.arg
             /\ \A k \in DOMAIN t : t[k].corr = 0
  <2>1. ASSUME NEW k \in DOMAIN t PROVE t[k].corr = 0
    <3>1. k + 1 \in DOMAIN tb /\ 1 < k + 1
      BY <1>2
    <3>2. QED
      BY <1>2, <1>7, <3>1 DEF InTurn
  <2>2. QED
    BY <1>2, <1>7, <2>1 DEF InTurn
<1>8. ASSUME c # NoCall, Head(tb).corr # 0
      PROVE  \A k \in DOMAIN tc : tc[k].corr # c.corr
  BY <1>2, <1>8 DEF InTurn
<1>9. Head(tb).corr <= last
  BY <1>2 DEF InTurn
<1>10. QED
  BY <1>1, <1>6, <1>7, <1>8, <1>9

\* The broker takes a request and answers it.
LEMMA InTurnReply ==
  ASSUME NEW A, NEW tb \in Seq(A), tb # << >>, NEW B, NEW tc \in Seq(B), NEW last, NEW c,
         InTurn(tb, tc, last, c),
         NEW m, m.corr = Head(tb).corr, m.key = Head(tb).key, m.corr # 0
  PROVE  InTurn(Tail(tb), Append(tc, m), last, c)
<1>1. PICK t, u : t = Append(tc, m) /\ u = Tail(tb)
  OBVIOUS
<1>2. PICK n \in Nat :
        /\ DOMAIN tc = 1..n
        /\ \A j \in DOMAIN t : \/ j \in 1..n /\ t[j] = tc[j]
                               \/ j = n + 1 /\ t[j] = m
  BY <1>1, GrownBy
<1>3. /\ InTurn(u, tc, last, c) /\ Head(tb).corr <= last
      /\ c # NoCall /\ m.corr = c.corr => m.key = c.key /\ \A k \in DOMAIN u : u[k].corr = 0
      /\ c # NoCall => \A k \in DOMAIN tc : tc[k].corr # c.corr
  BY <1>1, InTurnTaken
<1>4. \A j \in DOMAIN t : t[j].corr <= last
  BY <1>2, <1>3 DEF InTurn
<1>5. ASSUME c # NoCall, NEW j \in DOMAIN t, t[j].corr = c.corr
      PROVE  /\ t[j].key = c.key
             /\ \A k \in DOMAIN u : u[k].corr = 0
             /\ \A k \in DOMAIN t : t[k].corr = c.corr => k = j
  <2>1. \A k \in DOMAIN t : t[k].corr = c.corr => k = n + 1 /\ t[k] = m
    BY <1>2, <1>3, <1>5
  <2>2. QED
    BY <1>3, <1>5, <2>1
<1>6. QED
  BY <1>1, <1>3, <1>4, <1>5 DEF InTurn

\* A new request: no frame on its way has its id, but its own when it is sent.
LEMMA InTurnNew ==
  ASSUME NEW A, NEW tb \in Seq(A), \A m \in A : m.corr \in Nat,
         NEW B, NEW tc \in Seq(B), \A m \in B : m.corr \in Nat,
         NEW last \in Nat, NEW c, InTurn(tb, tc, last, c), NEW key, NEW arg,
         NEW t, t = tb \/ t = Append(tb, Message(key, last + 1, "none", arg))
  PROVE  /\ InTurn(t, tc, last + 1, [key |-> key, corr |-> last + 1, arg |-> arg])
         /\ \A j \in DOMAIN tc : tc[j].corr # last + 1
         /\ \A j \in DOMAIN tb : tb[j].corr # last + 1
<1> DEFINE m == Message(key, last + 1, "none", arg)
           d == [key |-> key, corr |-> last + 1, arg |-> arg]
<1>1. m.corr = last + 1 /\ m.key = key /\ m.arg = arg
  BY DEF Message
<1>2. d.corr = last + 1 /\ d.key = key /\ d.arg = arg
  OBVIOUS
<1> HIDE DEF m, d
<1>3. PICK n \in Nat :
        /\ DOMAIN tb = 1..n
        /\ \A j \in DOMAIN t : \/ j \in 1..n /\ t[j] = tb[j]
                               \/ j = n + 1 /\ t[j] = m
  BY GrownBy DEF m
<1>4. /\ \A j \in DOMAIN tb : tb[j].corr <= last + 1 /\ tb[j].corr # last + 1
      /\ \A j \in DOMAIN tc : tc[j].corr <= last + 1 /\ tc[j].corr # last + 1
  <2>1. \A j \in DOMAIN tb : tb[j].corr \in Nat
    BY ElementOf
  <2>2. \A j \in DOMAIN tc : tc[j].corr \in Nat
    BY ElementOf
  <2>3. QED
    BY <2>1, <2>2 DEF InTurn
<1>5. \A j \in DOMAIN t : t[j].corr <= last + 1
  BY <1>1, <1>3, <1>4
<1>6. ASSUME NEW j \in DOMAIN t, t[j].corr = d.corr
      PROVE  /\ t[j].key = d.key /\ t[j].arg = d.arg
             /\ \A k \in DOMAIN t : j < k => t[k].corr = 0
  <2>1. j = n + 1 /\ t[j] = m
    BY <1>2, <1>3, <1>4, <1>6
  <2>2. \A k \in DOMAIN t : ~(j < k)
    BY <1>3, <2>1
  <2>3. QED
    BY <1>1, <1>2, <2>1, <2>2
<1>7. InTurn(t, tc, last + 1, d)
  BY <1>2, <1>4, <1>5, <1>6 DEF InTurn
<1>8. QED
  BY <1>4, <1>7 DEF d

\* The connection breaks.
LEMMA InTurnLost ==
  ASSUME NEW B, NEW tc \in Seq(B), NEW n \in 0..Len(tc), NEW tb, NEW last, NEW c,
         InTurn(tb, tc, last, c)
  PROVE  InTurn(<< >>, SubSeq(tc, 1, n), last, c)
<1>1. PICK t : t = SubSeq(tc, 1, n)
  OBVIOUS
<1>2. \A j \in DOMAIN t : j \in DOMAIN tc /\ t[j] = tc[j]
  BY <1>1
<1>3. QED
  BY <1>1, <1>2 DEF InTurn
=============================================================================
