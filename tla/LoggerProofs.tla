---------------------------- MODULE LoggerProofs ----------------------------
(***************************************************************************)
(* The log file reads as whole entries: the mutex has one holder, who      *)
(* alone writes, and what stands behind the last separator is the part of  *)
(* its entry that it has written.  For any number of threads and entries   *)
(* of any length.                                                          *)
(***************************************************************************)
EXTENDS Logger, SequenceProofs

-----------------------------------------------------------------------------
(* The pieces of an entry.                                                 *)

Texts == {Pieces(e) : e \in Entry}

Words == {"comment", "message", "header", "row", "separator"}

\* An entry ends with its only separator.
EndsAtSeparator(text) ==
    /\ text \in Seq(Words) /\ Len(text) \in Nat \ {0}
    /\ \A k \in 1..Len(text) : text[k] = "separator" <=> k = Len(text)

LEMMA PiecesEnd ==
  ASSUME NEW e \in Entry
  PROVE  EndsAtSeparator(Pieces(e))
<1>1. e.kind \in {"log", "dump"} /\ e.comment \in BOOLEAN /\ e.length \in Nat
  BY LoggerAssumption
<1> DEFINE two == <<"message", "separator">>
           three == <<"comment", "message", "separator">>
<1>2. CASE e.kind = "log" /\ e.comment
  <2>1. Pieces(e) = <<"comment">> \o two
    BY <1>2 DEF Pieces
  <2>2. two \in Seq(Words) /\ <<"comment">> \in Seq(Words)
    BY DEF Words
  <2>3. <<"comment">> \o two = three
    <3>1. PICK f : f = <<"comment">> \o two
      OBVIOUS
    <3>2. f \in Seq(Words) /\ Len(f) = 3
      BY <2>2, <3>1
    <3>3. f[1] = "comment" /\ f[2] = "message" /\ f[3] = "separator"
      BY <2>2, <3>1
    <3>4. three \in Seq(Words) /\ Len(three) = 3
      BY DEF Words
    <3>5. \A j \in 1..3 : f[j] = three[j]
      BY <3>3
    <3>6. QED
      BY <3>1, <3>2, <3>4, <3>5, SameSequence
  <2>4. EndsAtSeparator(three)
    BY DEF EndsAtSeparator, Words
  <2>5. QED
    BY <2>1, <2>3, <2>4
<1>3. CASE e.kind = "log" /\ ~e.comment
  <2>1. Pieces(e) = << >> \o two
    BY <1>3 DEF Pieces
  <2>2. two \in Seq(Words)
    BY DEF Words
  <2>3. << >> \o two = two
    BY <2>2
  <2>4. EndsAtSeparator(two)
    BY DEF EndsAtSeparator, Words
  <2>5. QED
    BY <2>1, <2>3, <2>4
<1>4. CASE e.kind # "log"
  <2> DEFINE n == (e.length + 15) \div 16
             header == IF e.length > 0 THEN <<"header">> ELSE << >>
             rows == [row \in 1..n |-> "row"]
  <2>1. Pieces(e) = header \o rows \o <<"separator">>
    BY <1>4, Zenon DEF Pieces
  <2>2. n \in Nat
    BY <1>1
  <2> HIDE DEF n
  <2>3. rows \in Seq(Words) /\ Len(rows) = n /\ \A k \in 1..n : rows[k] = "row"
    <3>1. rows \in [1..n -> Words] /\ DOMAIN rows = 1..n /\ \A k \in 1..n : rows[k] = "row"
      BY <2>2 DEF Words
    <3> HIDE DEF rows
    <3>2. QED
      BY <2>2, <3>1
  <2>4. /\ header \in Seq(Words) /\ Len(header) \in {0, 1}
        /\ \A k \in 1..Len(header) : header[k] = "header"
    <3>1. header = << >> \/ header = <<"header">>
      OBVIOUS
    <3> HIDE DEF header
    <3>2. CASE header = << >>
      BY <3>2
    <3>3. CASE header = <<"header">>
      BY <3>3 DEF Words
    <3>4. QED
      BY <3>1, <3>2, <3>3
  <2> HIDE DEF header, rows
  <2>5. PICK front : front = header \o rows
    OBVIOUS
  <2>6. /\ front \in Seq(Words) /\ Len(front) = Len(header) + n
        /\ \A k \in 1..Len(front) : front[k] \in {"header", "row"}
    BY <2>2, <2>3, <2>4, <2>5
  <2>7. Pieces(e) = Append(front, "separator")
    BY <2>1, <2>5, <2>6
  <2>8. EndsAtSeparator(Append(front, "separator"))
    BY <2>6 DEF EndsAtSeparator, Words
  <2>9. QED
    BY <2>7, <2>8
<1>5. QED
  BY <1>2, <1>3, <1>4

-----------------------------------------------------------------------------
(* What can be read in a file.                                             *)

\* A file: pieces, and whose they are.
Files == Seq(Threads \X Words)

IsEnded(f, c, last) ==
    f = [n \in 0..last |-> IF n = 0 \/ c[n][2] = "separator" THEN n ELSE f[n - 1]]

IsParts(f, ended, c, last) ==
    f = [n \in 0..last |->
            IF n = 0 THEN << >>
            ELSE IF c[n][2] = "separator"
                 THEN Append(f[n - 1], Part(SubSeq(c, ended[n - 1] + 1, n)))
                 ELSE f[n - 1]]

LEMMA EndedExists ==
  ASSUME NEW c, NEW last \in Nat
  PROVE  \E f : IsEnded(f, c, last)
<1> DEFINE S == {m \in Nat : \E f : IsEnded(f, c, m)}
<1>1. 0 \in S
  <2> DEFINE f == [n \in 0..0 |-> n]
  <2>1. IsEnded(f, c, 0)
    BY DEF IsEnded
  <2>2. QED
    BY <2>1
<1>2. ASSUME NEW m \in Nat, m \in S PROVE m + 1 \in S
  <2>1. PICK f : IsEnded(f, c, m)
    BY <1>2
  <2> DEFINE top == IF c[m + 1][2] = "separator" THEN m + 1 ELSE f[m]
             g == [n \in 0..(m + 1) |-> IF n = m + 1 THEN top ELSE f[n]]
  <2>2. ASSUME NEW n \in 0..(m + 1)
        PROVE  g[n] = IF n = 0 \/ c[n][2] = "separator" THEN n ELSE g[n - 1]
    <3>1. CASE n = m + 1
      BY <3>1
    <3>2. CASE n \in 0..m
      <4>1. f[n] = IF n = 0 \/ c[n][2] = "separator" THEN n ELSE f[n - 1]
        BY <2>1, <3>2 DEF IsEnded
      <4>2. g[n] = f[n] /\ (n # 0 => g[n - 1] = f[n - 1])
        BY <3>2
      <4>3. QED
        BY <4>1, <4>2
    <3>3. QED
      BY <3>1, <3>2
  <2>3. IsEnded(g, c, m + 1)
    BY <2>2 DEF IsEnded
  <2>4. QED
    BY <2>3
<1>3. QED
  BY <1>1, <1>2, NatSetInduction

LEMMA PartsExist ==
  ASSUME NEW c, NEW ended, NEW last \in Nat
  PROVE  \E f : IsParts(f, ended, c, last)
<1> DEFINE S == {m \in Nat : \E f : IsParts(f, ended, c, m)}
           Next1(p, n) == IF c[n][2] = "separator"
                          THEN Append(p, Part(SubSeq(c, ended[n - 1] + 1, n))) ELSE p
<1>1. 0 \in S
  <2> DEFINE f == [n \in 0..0 |-> << >>]
  <2>1. IsParts(f, ended, c, 0)
    BY DEF IsParts
  <2>2. QED
    BY <2>1
<1>2. ASSUME NEW m \in Nat, m \in S PROVE m + 1 \in S
  <2>1. PICK f : IsParts(f, ended, c, m)
    BY <1>2
  <2> DEFINE g == [n \in 0..(m + 1) |-> IF n = m + 1 THEN Next1(f[m], m + 1) ELSE f[n]]
  <2>2. ASSUME NEW n \in 0..(m + 1)
        PROVE  g[n] = IF n = 0 THEN << >> ELSE Next1(g[n - 1], n)
    <3>1. CASE n = m + 1
      <4>1. g[n] = Next1(f[m], n) /\ n # 0
        BY <3>1
      <4>2. g[n - 1] = f[m]
        BY <3>1
      <4>3. QED
        BY <4>1, <4>2
    <3>2. CASE n \in 0..m
      <4>1. f[n] = IF n = 0 THEN << >> ELSE Next1(f[n - 1], n)
        BY <2>1, <3>2 DEF IsParts
      <4>2. g[n] = f[n] /\ (n # 0 => g[n - 1] = f[n - 1])
        BY <3>2
      <4>3. QED
        BY <4>1, <4>2
    <3>3. QED
      BY <3>1, <3>2
  <2>3. IsParts(g, ended, c, m + 1)
    BY <2>2 DEF IsParts
  <2>4. QED
    BY <2>3
<1>3. QED
  BY <1>1, <1>2, NatSetInduction

\* One more piece.
LEMMA EndedAppend ==
  ASSUME NEW c \in Files, NEW p \in Threads \X Words, NEW last \in Nat, last = Len(c),
         NEW f, IsEnded(f, c, last), NEW g, IsEnded(g, Append(c, p), last + 1)
  PROVE  /\ \A n \in 0..last : g[n] = f[n] /\ f[n] \in 0..n
         /\ g[last + 1] = IF p[2] = "separator" THEN last + 1 ELSE f[last]
<1>1. PICK d : d = Append(c, p)
  OBVIOUS
<1>2. /\ d \in Files /\ Len(d) = last + 1 /\ d[last + 1] = p
      /\ \A n \in 1..last : d[n] = c[n]
  BY <1>1 DEF Files
<1> DEFINE S == {m \in Nat : m <= last => g[m] = f[m] /\ f[m] \in 0..m}
<1>3. 0 \in S
  <2>1. f[0] = 0 /\ g[0] = 0
    BY DEF IsEnded
  <2>2. QED
    BY <2>1
<1>4. ASSUME NEW m \in Nat, m \in S PROVE m + 1 \in S
  <2>1. SUFFICES ASSUME m + 1 <= last PROVE g[m + 1] = f[m + 1] /\ f[m + 1] \in 0..(m + 1)
    OBVIOUS
  <2>2. m + 1 \in 1..last /\ m + 1 \in 0..last /\ m + 1 \in 0..(last + 1) /\ m + 1 # 0
        /\ (m + 1) - 1 = m
    BY <2>1
  <2>3. f[m + 1] = IF c[m + 1][2] = "separator" THEN m + 1 ELSE f[m]
    BY <2>2 DEF IsEnded
  <2>4. g[m + 1] = IF c[m + 1][2] = "separator" THEN m + 1 ELSE g[m]
    BY <1>1, <1>2, <2>2 DEF IsEnded
  <2>5. QED
    BY <1>4, <2>1, <2>3, <2>4
<1>5. Nat \subseteq S
  BY <1>3, <1>4, NatSetInduction
<1>6. g[last + 1] = IF d[last + 1][2] = "separator" THEN last + 1 ELSE g[last]
  BY <1>1 DEF IsEnded
<1>7. QED
  BY <1>2, <1>5, <1>6

LEMMA PartsAppend ==
  ASSUME NEW c \in Files, NEW p \in Threads \X Words, NEW last \in Nat, last = Len(c),
         NEW f, IsEnded(f, c, last), NEW g, IsEnded(g, Append(c, p), last + 1),
         NEW u, IsParts(u, f, c, last), NEW v, IsParts(v, g, Append(c, p), last + 1)
  PROVE  v[last + 1] = IF p[2] = "separator"
                       THEN Append(u[last], Part(SubSeq(Append(c, p), f[last] + 1, last + 1)))
                       ELSE u[last]
<1>1. PICK d : d = Append(c, p)
  OBVIOUS
<1>2. /\ d \in Files /\ Len(d) = last + 1 /\ d[last + 1] = p
      /\ \A n \in 1..last : d[n] = c[n]
  BY <1>1 DEF Files
<1>3. \A n \in 0..last : g[n] = f[n] /\ f[n] \in 0..n
  BY EndedAppend
<1>4. ASSUME NEW n \in 1..last PROVE SubSeq(d, g[n - 1] + 1, n) = SubSeq(c, f[n - 1] + 1, n)
  <2>1. PICK a \in 1..n : a = f[n - 1] + 1 /\ a = g[n - 1] + 1
    BY <1>3
  <2>2. SubSeq(d, a, n) = SubSeq(c, a, n)
    <3>1. PICK s, t, len : s = SubSeq(c, a, n) /\ t = SubSeq(d, a, n) /\ len = n - a + 1
      OBVIOUS
    <3>2. len \in Nat /\ s \in Files /\ t \in Files /\ Len(s) = len /\ Len(t) = len
      BY <1>2, <3>1 DEF Files
    <3>3. \A j \in 1..len : s[j] = c[a + j - 1] /\ t[j] = d[a + j - 1]
      BY <1>2, <3>1 DEF Files
    <3>4. \A j \in 1..len : s[j] = t[j]
      BY <1>2, <3>1, <3>3
    <3>5. s = t
      BY <3>2, <3>4, SameSequence DEF Files
    <3>6. QED
      BY <3>1, <3>5
  <2>3. QED
    BY <2>1, <2>2
<1> DEFINE S == {m \in Nat : m <= last => v[m] = u[m]}
<1>5. 0 \in S
  <2>1. u[0] = << >> /\ v[0] = << >>
    BY DEF IsParts
  <2>2. QED
    BY <2>1
<1>6. ASSUME NEW m \in Nat, m \in S PROVE m + 1 \in S
  <2>1. SUFFICES ASSUME m + 1 <= last PROVE v[m + 1] = u[m + 1]
    OBVIOUS
  <2>2. m + 1 \in 1..last /\ m + 1 \in 0..last /\ m + 1 \in 0..(last + 1) /\ m + 1 # 0
        /\ (m + 1) - 1 = m
    BY <2>1
  <2>3. u[m + 1] = IF c[m + 1][2] = "separator"
                   THEN Append(u[m], Part(SubSeq(c, f[m] + 1, m + 1))) ELSE u[m]
    BY <2>2 DEF IsParts
  <2>4. v[m + 1] = IF d[m + 1][2] = "separator"
                   THEN Append(v[m], Part(SubSeq(d, g[m] + 1, m + 1))) ELSE v[m]
    BY <1>1, <2>2 DEF IsParts
  <2>5. d[m + 1] = c[m + 1] /\ SubSeq(d, g[m] + 1, m + 1) = SubSeq(c, f[m] + 1, m + 1)
    BY <1>2, <1>4, <2>2
  <2>6. v[m] = u[m]
    BY <1>6, <2>1
  <2>7. QED
    BY <2>3, <2>4, <2>5, <2>6
<1>7. v[last] = u[last]
  <2>1. Nat \subseteq S
    BY <1>5, <1>6, NatSetInduction
  <2>2. QED
    BY <2>1
<1>8. v[last + 1] = IF d[last + 1][2] = "separator"
                    THEN Append(v[last], Part(SubSeq(d, g[last] + 1, last + 1))) ELSE v[last]
  <2>1. last + 1 \in 0..(last + 1) /\ last + 1 # 0 /\ (last + 1) - 1 = last
    OBVIOUS
  <2>2. QED
    BY <1>1, <2>1 DEF IsParts
<1>9. g[last] = f[last]
  BY <1>3
<1>10. QED
  BY <1>1, <1>2, <1>7, <1>8, <1>9

\* The definitions of the model are such functions.
LEMMA ReadingIs ==
  content \in Files =>
    IsEnded(Ended, content, Len(content)) /\ IsParts(Parts, Ended, content, Len(content))
<1> SUFFICES ASSUME content \in Files
             PROVE  /\ IsEnded(Ended, content, Len(content))
                    /\ IsParts(Parts, Ended, content, Len(content))
  OBVIOUS
<1>1. PICK last \in Nat : last = Len(content)
  BY DEF Files
<1>2. IsEnded(Ended, content, last)
  <2>1. Ended = CHOOSE f : IsEnded(f, content, last)
    BY <1>1, Zenon DEF Ended, IsEnded
  <2>2. QED
    BY <2>1, EndedExists, Zenon
<1>3. IsParts(Parts, Ended, content, last)
  <2>1. Parts = CHOOSE f : IsParts(f, Ended, content, last)
    BY <1>1, Zenon DEF Parts, IsParts
  <2>2. QED
    BY <2>1, PartsExist, Zenon
<1>4. QED
  BY <1>1, <1>2, <1>3

-----------------------------------------------------------------------------
(* The holder of the mutex.                                                *)

Typed ==
    /\ content \in Files /\ Mutex \in Threads \cup {None}
    /\ asked \in [Threads -> Entry \cup {Nothing}] /\ written \in [Threads -> Nat]

\* Only the holder of the mutex has written anything of its entry.
OneWriter ==
    /\ Mutex # None => asked[Mutex] # Nothing
    /\ \A t \in Threads : asked[t] # Nothing =>
         IF Mutex = t THEN written[t] <= Len(Pieces(asked[t])) ELSE written[t] = 0

\* The pieces of text up to n, as t writes them.
Written(t, text, n) == [k \in 1..n |-> <<t, text[k]>>]

\* Behind the last separator stands what the holder has written of an entry that is
\* not whole yet.
Tailed ==
    \E n \in Nat :
        /\ Ended[Len(content)] + n = Len(content)
        /\ IF Mutex # None /\ Unwritten(Mutex)
           THEN /\ n = written[Mutex]
                /\ \A k \in 1..n : content[Ended[Len(content)] + k]
                                     = <<Mutex, Pieces(asked[Mutex])[k]>>
           ELSE n = 0

LInv == Typed /\ OneWriter /\ Tailed

LEMMA InitLInv == Init => LInv
<1> SUFFICES ASSUME Init PROVE LInv
  OBVIOUS
<1>1. Typed
  BY DEF Init, Typed, Files
<1>2. OneWriter
  BY DEF Init, OneWriter
<1>3. Tailed
  <2>1. content = << >> /\ content \in Files /\ Len(content) = 0
    BY <1>1 DEF Init, Typed
  <2>2. IsEnded(Ended, content, 0)
    BY <2>1, ReadingIs
  <2>3. Ended[0] = 0
    BY <2>2 DEF IsEnded
  <2>4. Mutex = None
    BY DEF Init
  <2>5. QED
    BY <2>1, <2>3, <2>4 DEF Tailed
<1>4. QED
  BY <1>1, <1>2, <1>3 DEF LInv

LEMMA ThreadFacts ==
  ASSUME LInv, NEW t \in Threads, asked[t] # Nothing
  PROVE  /\ asked[t] \in Entry /\ EndsAtSeparator(Pieces(asked[t]))
         /\ t # None /\ written[t] \in Nat
<1>1. asked[t] \in Entry /\ written[t] \in Nat
  BY DEF LInv, Typed
<1>2. QED
  BY <1>1, PiecesEnd, LoggerAssumption

\* Nothing is an entry nobody asks for.
LEMMA NothingIsNoEntry == Nothing \notin Entry
<1>1. \A e \in Entry : e.kind \in {"log", "dump"}
  BY LoggerAssumption
<1>2. QED
  BY <1>1 DEF Nothing, None

\* A step that writes nothing keeps Tailed if it keeps what the holder has to write.
LEMMA TailedStays ==
  ASSUME Tailed, content' = content,
         \/ /\ Mutex' = Mutex
            /\ Mutex # None => asked'[Mutex] = asked[Mutex] /\ written'[Mutex] = written[Mutex]
         \/ /\ ~(Mutex # None /\ Unwritten(Mutex))
            /\ Mutex' # None /\ Unwritten(Mutex)' => written'[Mutex'] = 0
  PROVE  Tailed'
<1>1. Ended' = Ended
  BY DEF Ended
<1>2. PICK n \in Nat :
        /\ Ended[Len(content)] + n = Len(content)
        /\ IF Mutex # None /\ Unwritten(Mutex)
           THEN /\ n = written[Mutex]
                /\ \A k \in 1..n : content[Ended[Len(content)] + k]
                                     = <<Mutex, Pieces(asked[Mutex])[k]>>
           ELSE n = 0
  BY DEF Tailed
<1>3. CASE /\ Mutex' = Mutex
           /\ Mutex # None => asked'[Mutex] = asked[Mutex] /\ written'[Mutex] = written[Mutex]
  <2>1. Mutex # None => (Unwritten(Mutex)' <=> Unwritten(Mutex))
    BY <1>3 DEF Unwritten
  <2>2. IF Mutex' # None /\ Unwritten(Mutex)'
        THEN /\ n = written'[Mutex']
             /\ \A k \in 1..n : content'[Ended'[Len(content')] + k]
                                  = <<Mutex', Pieces(asked'[Mutex'])[k]>>
        ELSE n = 0
    BY <1>1, <1>2, <1>3, <2>1
  <2>3. Ended'[Len(content')] + n = Len(content')
    BY <1>1, <1>2
  <2>4. QED
    BY <2>2, <2>3 DEF Tailed
<1>4. CASE /\ ~(Mutex # None /\ Unwritten(Mutex))
           /\ Mutex' # None /\ Unwritten(Mutex)' => written'[Mutex'] = 0
  <2>1. n = 0
    BY <1>2, <1>4
  <2>2. IF Mutex' # None /\ Unwritten(Mutex)'
        THEN /\ n = written'[Mutex']
             /\ \A k \in 1..n : content'[Ended'[Len(content')] + k]
                                  = <<Mutex', Pieces(asked'[Mutex'])[k]>>
        ELSE n = 0
    BY <1>4, <2>1
  <2>3. Ended'[Len(content')] + n = Len(content')
    BY <1>1, <1>2
  <2>4. QED
    BY <2>2, <2>3 DEF Tailed
<1>5. QED
  BY <1>3, <1>4

-----------------------------------------------------------------------------
(* The abstract log: each step is one of LogSpec, or changes nothing of it.  *)

\* What t has asked for and is not whole in the file yet.
Open == [t \in Threads |-> IF Unwritten(t) THEN Pieces(asked[t]) ELSE << >>]

Logged == Parts[Len(content)]

LEMMA SameReading ==
  ASSUME content' = content
  PROVE  Logged' = Logged
<1>1. Ended' = Ended
  BY DEF Ended
<1>2. Parts' = Parts
  BY <1>1 DEF Parts
<1>3. QED
  BY <1>2 DEF Logged

LEMMA CallStep ==
  ASSUME LInv, NEW t \in Threads, NEW e \in Entry, Call(t, e)
  PROVE  LInv' /\ Logged' = Logged /\ Open[t] = << >> /\ Open' = [Open EXCEPT ![t] = Pieces(e)]
<1>1. asked[t] = Nothing /\ Mutex # t /\ Mutex' = Mutex /\ content' = content
  BY LoggerAssumption DEF Call, LInv, OneWriter, Typed
<1>2. /\ asked' = [asked EXCEPT ![t] = e] /\ written' = [written EXCEPT ![t] = 0]
      /\ Typed
  BY DEF Call, LInv
<1>3. /\ asked'[t] = e /\ written'[t] = 0
      /\ \A u \in Threads : u # t => asked'[u] = asked[u] /\ written'[u] = written[u]
  BY <1>2 DEF Typed
<1>4. Typed'
  BY <1>1, <1>2 DEF Typed
<1>5. OneWriter'
  BY <1>1, <1>3 DEF LInv, OneWriter, Typed
<1>6. Tailed'
  <2>1. Mutex # None => asked'[Mutex] = asked[Mutex] /\ written'[Mutex] = written[Mutex]
    BY <1>1, <1>2, <1>3 DEF Typed
  <2>2. QED
    BY <1>1, <2>1, TailedStays DEF LInv
<1>7. Unwritten(t)' /\ ~Unwritten(t)
  <2>1. e # Nothing
    BY NothingIsNoEntry
  <2>2. Len(Pieces(e)) \in Nat \ {0}
    BY PiecesEnd DEF EndsAtSeparator
  <2>3. QED
    BY <1>1, <1>3, <2>1, <2>2 DEF Unwritten
<1>8. \A u \in Threads : u # t => (Unwritten(u)' <=> Unwritten(u))
  BY <1>3 DEF Unwritten
<1>9. Open' = [Open EXCEPT ![t] = Pieces(e)]
  <2>1. \A u \in Threads : Open'[u] = IF u = t THEN Pieces(e) ELSE Open[u]
    BY <1>3, <1>7, <1>8 DEF Open
  <2>2. QED
    BY <2>1 DEF Open
<1>10. Open[t] = << >>
  BY <1>7 DEF Open
<1>11. QED
  BY <1>1, <1>4, <1>5, <1>6, <1>9, <1>10, SameReading DEF LInv

\* A step that leaves what is to be written and the file alone.
LEMMA LockStep ==
  ASSUME LInv, NEW t \in Threads, Lock(t)
  PROVE  LInv' /\ Logged' = Logged /\ Open' = Open
<1>1. /\ asked[t] # Nothing /\ Mutex = None /\ Mutex' = t /\ content' = content
      /\ asked' = asked /\ written' = written
  BY DEF Lock
<1>2. t # None /\ written[t] = 0 /\ Len(Pieces(asked[t])) \in Nat
  BY <1>1, ThreadFacts DEF LInv, OneWriter, EndsAtSeparator
<1>3. Typed'
  BY <1>1 DEF LInv, Typed
<1>4. OneWriter'
  <2>1. \A u \in Threads : asked[u] # Nothing => written[u] = 0 \/ Mutex = u
    BY DEF LInv, OneWriter
  <2>2. \A u \in Threads : u # None
    BY LoggerAssumption
  <2>3. QED
    BY <1>1, <1>2, <2>1, <2>2 DEF OneWriter
<1>5. Tailed'
  BY <1>1, <1>2, TailedStays DEF LInv
<1>6. Open' = Open
  BY <1>1 DEF Open, Unwritten
<1>7. QED
  BY <1>1, <1>3, <1>4, <1>5, <1>6, SameReading DEF LInv

LEMMA UnlockStep ==
  ASSUME LInv, NEW t \in Threads, Unlock(t)
  PROVE  LInv' /\ Logged' = Logged /\ Open' = Open
<1>1. /\ Mutex = t /\ written[t] = Len(Pieces(asked[t])) /\ Mutex' = None
      /\ asked' = [asked EXCEPT ![t] = Nothing] /\ content' = content /\ written' = written
      /\ t # None
  BY LoggerAssumption DEF Unlock
<1>2. /\ asked'[t] = Nothing /\ \A u \in Threads : u # t => asked'[u] = asked[u]
  BY <1>1 DEF LInv, Typed
<1>3. Typed'
  BY <1>1 DEF LInv, Typed
<1>4. OneWriter'
  <2>1. \A u \in Threads : asked'[u] # Nothing => written'[u] = 0 /\ u # None
    BY <1>1, <1>2, LoggerAssumption DEF LInv, OneWriter, Typed
  <2>2. QED
    BY <1>1, <2>1 DEF OneWriter
<1>5. ~Unwritten(t) /\ ~Unwritten(t)'
  <2>1. asked[t] # Nothing
    BY <1>1 DEF LInv, OneWriter
  <2>2. written[t] \in Nat
    BY <2>1, ThreadFacts
  <2>3. QED
    BY <1>1, <1>2, <2>2 DEF Unwritten
<1>6. Tailed'
  BY <1>1, <1>5, TailedStays DEF LInv
<1>7. Open' = Open
  <2>1. \A u \in Threads : u # t => (Unwritten(u)' <=> Unwritten(u))
    BY <1>1, <1>2 DEF Unwritten
  <2>2. \A u \in Threads : Open'[u] = Open[u]
    BY <1>2, <1>5, <2>1 DEF Open
  <2>3. QED
    BY <2>2 DEF Open
<1>8. QED
  BY <1>1, <1>3, <1>4, <1>6, <1>7, SameReading DEF LInv

\* The pieces of one thread, from the first to the last of its entry, read as the entry.
LEMMA PartOfOne ==
  ASSUME NEW t \in Threads, NEW text \in Seq(Words), NEW n \in Nat \ {0}, Len(text) = n,
         NEW part \in Files, Len(part) = n, \A k \in 1..n : part[k] = <<t, text[k]>>
  PROVE  Part(part) = <<t, text>>
<1>1. DOMAIN part = 1..n /\ 1 \in 1..n
  BY DEF Files
<1>2. \A k \in 1..n : part[k][1] = t /\ part[k][2] = text[k]
  OBVIOUS
<1>3. PICK read : read = [k \in 1..n |-> part[k][2]]
  OBVIOUS
<1>4. Part(part) = <<t, read>>
  BY <1>1, <1>2, <1>3 DEF Part
<1>5. read = text
  <2>1. \A k \in 1..n : text[k] \in Words
    OBVIOUS
  <2>2. read \in [1..n -> Words] /\ \A k \in 1..n : read[k] = text[k]
    BY <1>2, <1>3, <2>1
  <2>3. text \in [1..n -> Words]
    BY <2>1
  <2>4. QED
    BY <2>2, <2>3
<1>6. QED
  BY <1>4, <1>5

LEMMA PutStep ==
  ASSUME LInv, NEW t \in Threads, Put(t)
  PROVE  /\ LInv'
         /\ \/ Logged' = Logged /\ Open' = Open
            \/ /\ Open[t] # << >>
               /\ Logged' = Append(Logged, <<t, Open[t]>>)
               /\ Open' = [Open EXCEPT ![t] = << >>]
<1>1. PICK text, n, last, start :
        /\ text = Pieces(asked[t]) /\ n = written[t] /\ last = Len(content)
        /\ start = Ended[Len(content)]
  OBVIOUS
<1>2. /\ Mutex = t /\ n < Len(text) /\ Mutex' = t /\ asked' = asked
      /\ content' = Append(content, <<t, text[n + 1]>>)
      /\ written' = [written EXCEPT ![t] = n + 1]
  BY <1>1 DEF Put
<1>3. asked[t] # Nothing /\ t # None
  BY <1>2, LoggerAssumption DEF LInv, OneWriter
<1>4. /\ n \in Nat /\ EndsAtSeparator(text) /\ content \in Files /\ last \in Nat
  BY <1>1, <1>3, ThreadFacts DEF LInv, Typed, Files
<1>5. Unwritten(t)
  BY <1>1, <1>2, <1>3 DEF Unwritten
<1>6. start + n = last /\ \A k \in 1..n : content[start + k] = <<t, text[k]>>
  <2>1. PICK m \in Nat :
          /\ Ended[Len(content)] + m = Len(content)
          /\ IF Mutex # None /\ Unwritten(Mutex)
             THEN /\ m = written[Mutex]
                  /\ \A k \in 1..m : content[Ended[Len(content)] + k]
                                       = <<Mutex, Pieces(asked[Mutex])[k]>>
             ELSE m = 0
    BY DEF LInv, Tailed
  <2>2. Mutex # None /\ Unwritten(Mutex)
    BY <1>2, <1>3, <1>5
  <2>3. m = n /\ start + m = last
    BY <1>1, <1>2, <2>1, <2>2
  <2>4. QED
    BY <1>1, <1>2, <2>1, <2>2, <2>3
<1>7. PICK p : p = <<t, text[n + 1]>> /\ p \in Threads \X Words
  <2>1. n + 1 \in 1..Len(text)
    BY <1>2, <1>4 DEF EndsAtSeparator
  <2>2. text[n + 1] \in Words
    BY <1>4, <2>1 DEF EndsAtSeparator
  <2>3. PICK piece \in Words : piece = text[n + 1]
    BY <2>2
  <2>4. <<t, piece>> \in Threads \X Words
    OBVIOUS
  <2>5. QED
    BY <2>3, <2>4
<1>8. content' \in Files /\ Len(content') = last + 1 /\ content' = Append(content, p)
  BY <1>1, <1>2, <1>4, <1>7 DEF Files
<1>9. /\ content'[last + 1] = <<t, text[n + 1]>>
      /\ \A k \in 1..last : content'[k] = content[k]
  BY <1>1, <1>4, <1>7, <1>8 DEF Files
<1>10. IsEnded(Ended, content, last) /\ IsParts(Parts, Ended, content, last)
  BY <1>1, <1>4, ReadingIs
<1>11. IsEnded(Ended', Append(content, p), last + 1)
       /\ IsParts(Parts', Ended', Append(content, p), last + 1)
  <2>1. (content \in Files => /\ IsEnded(Ended, content, Len(content))
                              /\ IsParts(Parts, Ended, content, Len(content)))'
    BY ReadingIs, PTL
  <2>2. QED
    BY <1>8, <2>1
<1>12. /\ start \in 0..last
       /\ Ended'[last + 1] = IF text[n + 1] = "separator" THEN last + 1 ELSE start
  BY <1>1, <1>4, <1>7, <1>10, <1>11, EndedAppend
<1>13. Logged' = IF text[n + 1] = "separator"
                 THEN Append(Logged, Part(SubSeq(content', start + 1, last + 1)))
                 ELSE Logged
  <2>1. Parts'[last + 1] = IF p[2] = "separator"
                           THEN Append(Parts[last], Part(SubSeq(Append(content, p),
                                                         Ended[last] + 1, last + 1)))
                           ELSE Parts[last]
    <3>1. PICK f, g, u, v : f = Ended /\ g = Ended' /\ u = Parts /\ v = Parts'
      OBVIOUS
    <3>2. IsEnded(f, content, last) /\ IsParts(u, f, content, last)
      BY <1>10, <3>1
    <3>3. IsEnded(g, Append(content, p), last + 1) /\ IsParts(v, g, Append(content, p), last + 1)
      BY <1>11, <3>1
    <3>4. p \in Threads \X Words /\ last \in Nat /\ last = Len(content) /\ content \in Files
      BY <1>1, <1>4, <1>7
    <3>5. v[last + 1] = IF p[2] = "separator"
                        THEN Append(u[last], Part(SubSeq(Append(content, p), f[last] + 1, last + 1)))
                        ELSE u[last]
      BY <3>2, <3>3, <3>4, PartsAppend
    <3>6. QED
      BY <3>1, <3>5
  <2>2. Logged' = Parts'[last + 1] /\ Logged = Parts[last] /\ Ended[last] = start
        /\ p[2] = text[n + 1]
    BY <1>1, <1>7, <1>8 DEF Logged
  <2>3. QED
    BY <1>8, <2>1, <2>2
<1>14. /\ written'[t] = n + 1
       /\ \A u \in Threads : u # t => written'[u] = written[u]
  BY <1>2 DEF LInv, Typed
<1>15. Typed'
  BY <1>2, <1>4, <1>8 DEF LInv, Typed
<1>16. OneWriter'
  <2>1. Len(text) \in Nat /\ n + 1 <= Len(text)
    BY <1>2, <1>4 DEF EndsAtSeparator
  <2>2. QED
    BY <1>1, <1>2, <1>3, <1>14, <2>1 DEF LInv, OneWriter
<1>17. Unwritten(t)' <=> n + 1 < Len(text)
  BY <1>1, <1>2, <1>3, <1>14 DEF Unwritten
<1>18. \A u \in Threads : u # t => Open'[u] = Open[u]
  BY <1>2, <1>14 DEF Open, Unwritten
<1>19. Open[t] = text /\ Open'[t] = IF n + 1 < Len(text) THEN text ELSE << >>
  BY <1>1, <1>2, <1>5, <1>17 DEF Open
<1>20. \A k \in 1..(n + 1) : content'[start + k] = <<t, text[k]>>
  <2>1. SUFFICES ASSUME NEW k \in 1..(n + 1) PROVE content'[start + k] = <<t, text[k]>>
    OBVIOUS
  <2>2. CASE k \in 1..n
    <3>1. start + k \in 1..last
      BY <1>4, <1>6, <1>12, <2>2
    <3>2. QED
      BY <1>6, <1>9, <2>2, <3>1
  <2>3. CASE k = n + 1
    <3>1. start + k = last + 1
      BY <1>4, <1>6, <1>12, <2>3
    <3>2. QED
      BY <1>9, <2>3, <3>1
  <2>4. QED
    BY <1>4, <2>2, <2>3
<1>21. CASE n + 1 < Len(text)
  <2>1. text[n + 1] # "separator"
    <3>1. n + 1 \in 1..Len(text) /\ n + 1 # Len(text)
      BY <1>4, <1>21 DEF EndsAtSeparator
    <3>2. QED
      BY <1>4, <3>1 DEF EndsAtSeparator
  <2>2. Ended'[Len(content')] = start /\ Logged' = Logged
    BY <1>8, <1>12, <1>13, <2>1
  <2>3. Tailed'
    <3>1. start + (n + 1) = Len(content') /\ n + 1 \in Nat
      BY <1>4, <1>6, <1>8, <1>12
    <3>2. /\ n + 1 = written'[Mutex']
          /\ \A k \in 1..(n + 1) : content'[Ended'[Len(content')] + k]
                                     = <<Mutex', Pieces(asked'[Mutex'])[k]>>
      BY <1>1, <1>2, <1>14, <1>20, <2>2
    <3>3. Mutex' # None /\ Unwritten(Mutex)'
      BY <1>2, <1>3, <1>17, <1>21
    <3>4. QED
      BY <2>2, <3>1, <3>2, <3>3 DEF Tailed
  <2>4. Open' = Open
    BY <1>18, <1>19, <1>21 DEF Open
  <2>5. QED
    BY <1>15, <1>16, <2>2, <2>3, <2>4 DEF LInv
<1>22. CASE n + 1 = Len(text)
  <2>1. text[n + 1] = "separator"
    <3>1. n + 1 \in 1..Len(text)
      BY <1>4, <1>22
    <3>2. QED
      BY <1>4, <1>22, <3>1 DEF EndsAtSeparator
  <2>2. Ended'[Len(content')] = last + 1 /\ Ended'[Len(content')] + 0 = Len(content')
    BY <1>4, <1>8, <1>12, <2>1
  <2>3. Tailed'
    <3>1. ~(Mutex' # None /\ Unwritten(Mutex)')
      BY <1>2, <1>4, <1>17, <1>22
    <3>2. QED
      BY <2>2, <3>1 DEF Tailed
  <2>4. PICK part : part = SubSeq(content', start + 1, last + 1)
    OBVIOUS
  <2>5. part \in Files /\ Len(part) = n + 1 /\ \A k \in 1..(n + 1) : part[k] = content'[start + k]
    BY <1>4, <1>6, <1>8, <1>12, <2>4 DEF Files
  <2>6. Part(part) = <<t, text>>
    <3>1. text \in Seq(Words) /\ n + 1 \in Nat \ {0}
      BY <1>4 DEF EndsAtSeparator
    <3>2. \A k \in 1..(n + 1) : part[k] = <<t, text[k]>>
      BY <1>20, <2>5
    <3>3. QED
      BY <1>22, <2>5, <3>1, <3>2, PartOfOne
  <2>7. Logged' = Append(Logged, <<t, Open[t]>>)
    BY <1>13, <1>19, <2>1, <2>4, <2>6
  <2>8. Open' = [Open EXCEPT ![t] = << >>]
    <3>1. ~(n + 1 < Len(text))
      BY <1>4, <1>22 DEF EndsAtSeparator
    <3>2. \A u \in Threads : Open'[u] = IF u = t THEN << >> ELSE Open[u]
      BY <1>18, <1>19, <3>1
    <3>3. Open \in [Threads -> {Open[u] : u \in Threads}] /\ DOMAIN Open' = Threads
          /\ Open' = [u \in Threads |-> Open'[u]] /\ DOMAIN Open = Threads
      BY DEF Open
    <3>4. QED
      BY <3>2, <3>3
  <2>9. Open[t] # << >>
    BY <1>4, <1>19 DEF EndsAtSeparator
  <2>10. QED
    BY <1>15, <1>16, <2>3, <2>7, <2>8, <2>9 DEF LInv
<1>23. QED
  BY <1>2, <1>4, <1>21, <1>22 DEF EndsAtSeparator

-----------------------------------------------------------------------------
LEMMA NextStep ==
  ASSUME LInv, [Next]_vars
  PROVE  /\ LInv'
         /\ \/ Logged' = Logged /\ Open' = Open
            \/ \E t \in Threads : \/ /\ Open[t] # << >>
                                     /\ Logged' = Append(Logged, <<t, Open[t]>>)
                                     /\ Open' = [Open EXCEPT ![t] = << >>]
                                  \/ \E text \in Texts : /\ Open[t] = << >> /\ Logged' = Logged
                                                         /\ Open' = [Open EXCEPT ![t] = text]
<1>1. ASSUME NEW t \in Threads, NEW e \in Entry, Call(t, e)
      PROVE  LInv' /\ \E text \in Texts : /\ Open[t] = << >> /\ Logged' = Logged
                                          /\ Open' = [Open EXCEPT ![t] = text]
  BY <1>1, CallStep DEF Texts
<1>2. ASSUME NEW t \in Threads, Lock(t) \/ Unlock(t)
      PROVE  LInv' /\ Logged' = Logged /\ Open' = Open
  BY <1>2, LockStep, UnlockStep
<1>3. ASSUME NEW t \in Threads, Put(t)
      PROVE  /\ LInv'
             /\ \/ Logged' = Logged /\ Open' = Open
                \/ /\ Open[t] # << >>
                   /\ Logged' = Append(Logged, <<t, Open[t]>>)
                   /\ Open' = [Open EXCEPT ![t] = << >>]
  BY <1>3, PutStep
<1>4. CASE UNCHANGED vars
  <2>1. /\ content' = content /\ Mutex' = Mutex /\ asked' = asked /\ written' = written
    BY <1>4 DEF vars
  <2>2. Typed' /\ OneWriter'
    BY <2>1 DEF LInv, Typed, OneWriter
  <2>3. Tailed'
    BY <2>1, TailedStays DEF LInv
  <2>4. Open' = Open
    BY <2>1 DEF Open, Unwritten
  <2>5. QED
    BY <2>1, <2>2, <2>3, <2>4, SameReading DEF LInv
<1>5. QED
  BY <1>1, <1>2, <1>3, <1>4 DEF Next, Steps

\* rmqsLogger.c with its mutex implements the log of whole entries, but for what must
\* happen in the end: the pieces of two entries are never mixed, no entry is lost, cut
\* short or written twice, and the entries of a thread stand in the order of its calls.
THEOREM ImplementsSafeLog == Spec => Promise!SafeLog
<1>1. Init => LInv
  BY InitLInv
<1>2. LInv /\ [Next]_vars => LInv'
  BY NextStep
<1>3. Init => Promise!Init
  <2>1. SUFFICES ASSUME Init PROVE Promise!Init
    OBVIOUS
  <2>2. \A t \in Threads : ~Unwritten(t)
    BY <2>1 DEF Init, Unwritten
  <2>3. [t \in Threads |-> IF Unwritten(t) THEN Pieces(asked[t]) ELSE << >>]
          = [t \in Threads |-> << >>]
    BY <2>2
  <2>4. Parts[Len(content)] = << >>
    <3>1. content = << >> /\ content \in Files /\ Len(content) = 0
      BY <2>1 DEF Init, Files
    <3>2. IsParts(Parts, Ended, content, 0)
      BY <3>1, ReadingIs
    <3>3. Parts[0] = << >>
      BY <3>2 DEF IsParts
    <3>4. QED
      BY <3>1, <3>3
  <2>5. QED
    BY <2>3, <2>4 DEF Promise!Init
<1>4. LInv /\ [Next]_vars => [Promise!Next]_(Promise!logVars)
  <2>1. SUFFICES ASSUME LInv, [Next]_vars PROVE [Promise!Next]_(Promise!logVars)
    OBVIOUS
  <2>2. CASE Logged' = Logged /\ Open' = Open
    BY <2>2 DEF Promise!logVars, Open, Logged
  <2>3. ASSUME NEW t \in Threads, Open[t] # << >>,
               Logged' = Append(Logged, <<t, Open[t]>>), Open' = [Open EXCEPT ![t] = << >>]
        PROVE  Promise!Next
    <3>1. Promise!Write(t)
      BY <2>3, Zenon DEF Promise!Write, Open, Logged
    <3>2. QED
      BY <3>1, Zenon DEF Promise!Next
  <2>4. ASSUME NEW t \in Threads, NEW text \in Texts, Open[t] = << >>, Logged' = Logged,
               Open' = [Open EXCEPT ![t] = text]
        PROVE  Promise!Next
    <3>1. Promise!Ask(t, text)
      BY <2>4, Zenon DEF Promise!Ask, Open, Logged
    <3>2. QED
      BY <3>1, Zenon DEF Promise!Next, Texts
  <2>5. QED
    BY <2>1, <2>2, <2>3, <2>4, NextStep, Zenon
<1>5. QED
  BY <1>1, <1>2, <1>3, <1>4, PTL DEF Spec, Promise!SafeLog
=============================================================================
