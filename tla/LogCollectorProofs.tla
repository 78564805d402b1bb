------------------------ MODULE LogCollectorProofs ------------------------
(***************************************************************************)
(* Proofs about the sentinel's log collector, for any log, any size of     *)
(* the channel and of a batch, any reconnections and any order in which a  *)
(* flush sends the levels.                                                 *)
(***************************************************************************)
EXTENDS LogCollector, FiniteSetTheorems, SequenceTheorems, WellFoundedInduction, TLAPS

(* Induction over the natural numbers, stated with a set.                  *)
LEMMA LeastNatural ==
  ASSUME NEW T \in SUBSET Nat, T # {}
  PROVE  \E x \in T : \A y \in T : ~(y < x)
<1> DEFINE R == OpToRel(<, Nat)
<1>1. IsWellFoundedOn(R, Nat)
  BY NatLessThanWellFounded, Zenon
<1>2. \A x, y \in Nat : y < x => <<y, x>> \in R
  BY DEF OpToRel
<1> HIDE DEF R
<1>3. PICK x \in T : \A y \in T : ~(<<y, x>> \in R)
  BY <1>1, WFMin, Zenon
<1> QED  BY <1>2, <1>3, Zenon

LEMMA SetInduction ==
  ASSUME NEW S, 0 \in S, \A n \in Nat : n \in S => n + 1 \in S
  PROVE  \A n \in Nat : n \in S
<1> SUFFICES ASSUME Nat \ S # {} PROVE FALSE
  OBVIOUS
<1>1. PICK x \in Nat \ S : \A y \in Nat \ S : ~(y < x)
  BY LeastNatural
<1>2. x # 0
  BY <1>1
<1>3. x - 1 \in Nat /\ x - 1 < x /\ (x - 1) + 1 = x
  BY <1>1, <1>2
<1>4. x - 1 \in S
  BY <1>1, <1>3
<1> QED  BY <1>1, <1>3, <1>4
-----------------------------------------------------------------------------
(* LinesOf is the last value of the one function that goes through the     *)
(* sequence: Selected is its step, Selects(f, s, l) its definition.        *)
Selected(s, l, j, before) ==
  IF j = 0 THEN <<>> ELSE IF s[j].level = l THEN Append(before, s[j]) ELSE before

Selects(f, s, l) == f = [j \in 0..Len(s) |-> Selected(s, l, j, f[j - 1])]

LEMMA LinesOfChoice ==
  ASSUME NEW s, NEW l
  PROVE  LinesOf(s, l) = (CHOOSE f : Selects(f, s, l))[Len(s)]
BY DEF LinesOf, Selects, Selected

(* There is such a function: it is built line by line.                     *)
LEMMA SelectsExists ==
  ASSUME NEW s \in Seq(Line), NEW l
  PROVE  \E f : Selects(f, s, l) /\ f \in [0..Len(s) -> Seq(Line)]
<1> DEFINE Upto(n, g) == /\ g \in [0..n -> Seq(Line)]
                         /\ \A j \in 0..n : g[j] = Selected(s, l, j, g[j - 1])
           S == {n \in Nat : n <= Len(s) => \E g : Upto(n, g)}
<1>0. Len(s) \in Nat /\ \A j \in 1..Len(s) : s[j] \in Line
  OBVIOUS
<1>m. \A n \in Nat : n \in S <=> (n <= Len(s) => \E g : Upto(n, g))
  BY Zenon
<1> HIDE DEF S
<1>1. 0 \in S
  <2> DEFINE g == [j \in 0..0 |-> <<>>]
  <2>1. Upto(0, g)
    BY DEF Selected
  <2> QED  BY <1>m, <2>1
<1>2. ASSUME NEW n \in Nat, n \in S PROVE n + 1 \in S
  <2>0. SUFFICES ASSUME n + 1 <= Len(s) PROVE \E g : Upto(n + 1, g)
    <3> HIDE DEF Upto
    <3> QED  BY <1>m
  <2>1. PICK g : Upto(n, g)
    <3>1. n <= Len(s)
      BY <1>0, <2>0
    <3> QED  BY <1>2, <1>m, <3>1, Zenon
  <2> DEFINE x == Selected(s, l, n + 1, g[n])
             h == [j \in 0..(n + 1) |-> IF j <= n THEN g[j] ELSE x]
  <2>2. g[n] \in Seq(Line) /\ n + 1 \in 1..Len(s)
    BY <1>0, <2>0, <2>1
  <2>3. x \in Seq(Line)
    BY <1>0, <2>2 DEF Selected
  <2>4. h \in [0..(n + 1) -> Seq(Line)]
    BY <2>1, <2>3
  <2>5. ASSUME NEW j \in 0..(n + 1) PROVE h[j] = Selected(s, l, j, h[j - 1])
    <3>1. CASE j = 0
      BY <2>1, <3>1 DEF Selected
    <3>2. CASE j \in 1..n
      <4>1. j \in 0..(n + 1) /\ j - 1 \in 0..(n + 1) /\ j <= n /\ j - 1 <= n /\ j \in 0..n
        BY <3>2
      <4>2. h[j] = g[j] /\ h[j - 1] = g[j - 1]
        BY <4>1
      <4> QED  BY <2>1, <4>1, <4>2
    <3>3. CASE j = n + 1
      <4>1. h[j] = x /\ h[j - 1] = g[n] /\ j # 0
        BY <3>3
      <4> QED  BY <3>3, <4>1
    <3> QED  BY <3>1, <3>2, <3>3
  <2> QED  BY <2>4, <2>5
<1>3. PICK g : Upto(Len(s), g)
  <2>1. Len(s) \in S /\ Len(s) <= Len(s)
    BY <1>0, <1>1, <1>2, SetInduction
  <2> QED  BY <1>0, <1>m, <2>1, Zenon
<1>4. Selects(g, s, l)
  BY <1>3 DEF Selects
<1> QED  BY <1>3, <1>4

(* And only one.                                                           *)
LEMMA SelectsUnique ==
  ASSUME NEW s \in Seq(Line), NEW l, NEW f, NEW g, Selects(f, s, l), Selects(g, s, l)
  PROVE  f = g
<1> DEFINE S == {n \in Nat : n <= Len(s) => f[n] = g[n]}
<1>n. Len(s) \in Nat
  OBVIOUS
<1>0. /\ f = [j \in 0..Len(s) |-> Selected(s, l, j, f[j - 1])]
      /\ g = [j \in 0..Len(s) |-> Selected(s, l, j, g[j - 1])]
  BY Zenon DEF Selects
<1>1. \A j \in 0..Len(s) : f[j] = Selected(s, l, j, f[j - 1]) /\ g[j] = Selected(s, l, j, g[j - 1])
  BY <1>0, Zenon
<1>2. 0 \in S
  <2>1. f[0] = <<>> /\ g[0] = <<>>
    BY <1>n, <1>1 DEF Selected
  <2> QED  BY <2>1
<1>3. ASSUME NEW n \in Nat, n \in S PROVE n + 1 \in S
  <2> SUFFICES ASSUME n + 1 <= Len(s) PROVE f[n + 1] = g[n + 1]
    OBVIOUS
  <2>1. n + 1 \in 0..Len(s) /\ (n + 1) - 1 = n /\ f[n] = g[n]
    BY <1>n, <1>3
  <2>2. f[n + 1] = Selected(s, l, n + 1, f[n]) /\ g[n + 1] = Selected(s, l, n + 1, g[n])
    BY <1>1, <2>1
  <2> QED  BY <2>1, <2>2
<1>4. \A n \in Nat : n \in S
  BY <1>2, <1>3, SetInduction
<1>5. \A j \in 0..Len(s) : f[j] = g[j]
  BY <1>n, <1>4
<1>6. f = [j \in 0..Len(s) |-> f[j]] /\ g = [j \in 0..Len(s) |-> g[j]]
  BY <1>0, <1>1, Zenon
<1> QED  BY <1>5, <1>6

LEMMA LinesOfSelects ==
  ASSUME NEW s \in Seq(Line), NEW l, NEW f, Selects(f, s, l)
  PROVE  LinesOf(s, l) = f[Len(s)] /\ f \in [0..Len(s) -> Seq(Line)]
<1>1. PICK g : Selects(g, s, l) /\ g \in [0..Len(s) -> Seq(Line)]
  BY SelectsExists
<1>2. g = f
  BY <1>1, SelectsUnique
<1>3. Selects((CHOOSE h : Selects(h, s, l)), s, l)
  BY <1>1
<1>4. (CHOOSE h : Selects(h, s, l)) = f
  BY <1>3, SelectsUnique, Zenon
<1> QED  BY <1>1, <1>2, <1>4, LinesOfChoice

LEMMA LinesOfType ==
  ASSUME NEW s \in Seq(Line), NEW l
  PROVE  LinesOf(s, l) \in Seq(Line)
<1>1. PICK f : Selects(f, s, l)
  BY SelectsExists
<1>2. Len(s) \in 0..Len(s)
  OBVIOUS
<1> QED  BY <1>1, <1>2, LinesOfSelects

LEMMA LinesOfEmpty ==
  ASSUME NEW l
  PROVE  LinesOf(<<>>, l) = <<>>
<1>1. <<>> \in Seq(Line) /\ Len(<<>>) = 0
  OBVIOUS
<1>2. PICK f : Selects(f, <<>>, l)
  BY <1>1, SelectsExists
<1>3. f[0] = <<>>
  BY <1>1, <1>2 DEF Selects, Selected
<1> QED  BY <1>1, <1>2, <1>3, LinesOfSelects

(* What the scanner adds to the channel.                                   *)
LEMMA LinesOfAppend ==
  ASSUME NEW s \in Seq(Line), NEW x \in Line, NEW l
  PROVE  LinesOf(Append(s, x), l) =
           IF x.level = l THEN Append(LinesOf(s, l), x) ELSE LinesOf(s, l)
<1> DEFINE t == Append(s, x)
           N == Len(s)
<1>1. /\ t \in Seq(Line) /\ N \in Nat /\ Len(t) = N + 1
      /\ t[N + 1] = x /\ \A j \in 1..N : t[j] = s[j]
  OBVIOUS
<1> HIDE DEF t, N
<1>2. PICK f : Selects(f, t, l)
  BY <1>1, SelectsExists
<1>3. \A j \in 0..(N + 1) : f[j] = Selected(t, l, j, f[j - 1])
  BY <1>1, <1>2 DEF Selects
<1> DEFINE g == [j \in 0..N |-> f[j]]
<1>4. ASSUME NEW j \in 0..N PROVE g[j] = Selected(s, l, j, g[j - 1])
  <2>1. f[j] = Selected(t, l, j, f[j - 1])
    BY <1>1, <1>3
  <2>2. CASE j = 0
    BY <2>1, <2>2 DEF Selected
  <2>3. CASE j # 0
    <3>1. g[j - 1] = f[j - 1] /\ t[j] = s[j]
      BY <1>1, <2>3
    <3> QED  BY <2>1, <3>1 DEF Selected
  <2> QED  BY <2>2, <2>3
<1>5. Selects(g, s, l)
  BY <1>4 DEF Selects, N
<1>6. LinesOf(s, l) = f[N]
  <2>1. LinesOf(s, l) = g[N]
    BY <1>5, LinesOfSelects DEF N
  <2> QED  BY <1>1, <2>1
<1>7. LinesOf(t, l) = f[N + 1]
  BY <1>1, <1>2, LinesOfSelects
<1>8. f[N + 1] = Selected(t, l, N + 1, f[N])
  BY <1>1, <1>3
<1> QED  BY <1>1, <1>6, <1>7, <1>8 DEF Selected, t

(* Appending to the second part is appending to the whole.                 *)
LEMMA AppendLast ==
  ASSUME NEW u \in Seq(Line), NEW v \in Seq(Line), NEW x \in Line
  PROVE  u \o Append(v, x) = Append(u \o v, x)
OBVIOUS

(* What the loop takes from the channel.                                   *)
LEMMA LinesOfTail ==
  ASSUME NEW s \in Seq(Line), s # <<>>, NEW l
  PROVE  LinesOf(s, l) =
           (IF Head(s).level = l THEN <<Head(s)>> ELSE <<>>) \o LinesOf(Tail(s), l)
<1> DEFINE t == Tail(s)
           N == Len(t)
           h == IF Head(s).level = l THEN <<Head(s)>> ELSE <<>>
<1>1. /\ t \in Seq(Line) /\ N \in Nat /\ Len(s) = N + 1 /\ Head(s) = s[1]
      /\ \A j \in 1..N : t[j] = s[j + 1]
  OBVIOUS
<1>2. s[1] \in Line /\ h \in Seq(Line) /\ \A j \in 1..(N + 1) : s[j] \in Line
  BY <1>1
<1>h. h = IF s[1].level = l THEN <<s[1]>> ELSE <<>>
  BY <1>1
<1> HIDE DEF t, N, h
<1>3. PICK g : Selects(g, t, l)
  BY <1>1, SelectsExists
<1>4. g \in [0..N -> Seq(Line)] /\ LinesOf(t, l) = g[N]
  BY <1>1, <1>3, LinesOfSelects DEF N
<1>5. \A j \in 0..N : g[j] = Selected(t, l, j, g[j - 1])
  BY <1>3 DEF Selects, N
<1> DEFINE f == [j \in 0..(N + 1) |-> IF j = 0 THEN <<>> ELSE h \o g[j - 1]]
<1>6. ASSUME NEW j \in 0..(N + 1) PROVE f[j] = Selected(s, l, j, f[j - 1])
  <2>1. CASE j = 0
    BY <2>1 DEF Selected
  <2>2. CASE j = 1
    <3>1. f[1] = h \o g[0] /\ f[0] = <<>> /\ g[0] = <<>>
      BY <1>1, <1>5 DEF Selected
    <3>2. f[1] = h
      BY <1>2, <3>1, ConcatEmptySeq
    <3>3. h = Selected(s, l, 1, <<>>)
      BY <1>h DEF Selected
    <3> HIDE DEF f
    <3>4. j - 1 = 0
      BY <2>2
    <3> QED  BY <2>2, <3>1, <3>2, <3>3, <3>4
  <2>3. CASE j > 1
    <3>1. /\ j - 1 \in 0..N /\ j - 2 \in 0..N /\ (j - 1) - 1 = j - 2 /\ j - 1 \in 1..N
          /\ (j - 1) + 1 = j /\ j # 0 /\ j - 1 # 0 /\ j - 1 \in 0..(N + 1)
      BY <1>1, <2>3
    <3>2. f[j] = h \o g[j - 1] /\ f[j - 1] = h \o g[j - 2]
      BY <3>1
    <3>3. g[j - 1] = Selected(t, l, j - 1, g[j - 2]) /\ t[j - 1] = s[j]
      BY <1>1, <1>5, <3>1
    <3>4. g[j - 2] \in Seq(Line) /\ s[j] \in Line
      BY <1>2, <1>4, <3>1
    <3>5. h \o Append(g[j - 2], s[j]) = Append(h \o g[j - 2], s[j])
      BY <1>2, <3>4, AppendLast
    <3> HIDE DEF f
    <3>6. g[j - 1] = IF s[j].level = l THEN Append(g[j - 2], s[j]) ELSE g[j - 2]
      BY <3>1, <3>3 DEF Selected
    <3> QED  BY <3>1, <3>2, <3>5, <3>6 DEF Selected
  <2> QED  BY <1>1, <2>1, <2>2, <2>3
<1>7. Selects(f, s, l)
  BY <1>1, <1>6 DEF Selects
<1>9. f[N + 1] = h \o g[N]
  BY <1>1
<1> HIDE DEF f
<1>8. LinesOf(s, l) = f[N + 1]
  BY <1>1, <1>7, LinesOfSelects
<1> QED  BY <1>4, <1>8, <1>9 DEF h, t
-----------------------------------------------------------------------------
LEMMA LogConstants ==
  /\ MinLevel \in Nat /\ BatchSize \in Nat /\ BatchSize > 0 /\ ChanCap \in Nat /\ Lookback \in Nat
  /\ MaxLines \in Nat /\ MaxConnects \in Nat /\ MaxStreamEnds \in Nat /\ MaxTime \in Nat
BY LogAssumption

LEMMA LevelFacts ==
  /\ \A l \in Levels : LevelRank(l) \in Nat
  /\ \A kind : ParseLevel(kind) \in Levels
BY DEF Levels, LevelRank, ParseLevel

(* Reconnecting, the scanner begins somewhere in the log.                  *)
LEMMA ResumeInLog ==
  ASSUME log \in Seq([kind : Kinds, at : 0..MaxTime])
  PROVE  ResumePoint \in 0..Len(log)
<1> DEFINE N == Len(log)
           old == {n \in 1..N : log[n].at < now - Lookback}
<1>1. N \in Nat /\ DOMAIN log = 1..N
  OBVIOUS
<1>2. IsFiniteSet(1..N) /\ Cardinality(1..N) = N
  <2>1. 1 \in Int /\ N \in Int /\ (1 <= N \/ N = 0) /\ N - 1 + 1 = N
    BY <1>1
  <2>2. IsFiniteSet(1..N) /\ Cardinality(1..N) = IF 1 > N THEN 0 ELSE N - 1 + 1
    BY <2>1, FS_Interval, Zenon
  <2> QED  BY <2>1, <2>2
<1>3. old \subseteq 1..N
  OBVIOUS
<1> HIDE DEF N, old
<1>4. IsFiniteSet(old) /\ Cardinality(old) <= N
  BY <1>2, <1>3, FS_Subset
<1>5. Cardinality(old) \in Nat
  BY <1>4, FS_CardinalityType
<1>6. ResumePoint = IF Lookback > 0 THEN Cardinality(old) ELSE N
  BY <1>1 DEF ResumePoint, old, N
<1>7. ResumePoint \in 0..N
  BY <1>1, <1>4, <1>5, <1>6
<1> QED  BY <1>7 DEF N

(* The size of a batch.                                                    *)
Size(acc) == Len(acc["debug"]) + Len(acc["info"]) + Len(acc["warn"]) + Len(acc["error"])

LEMMA SizeAppend ==
  ASSUME NEW acc \in ByLevel, NEW l \in Levels, NEW x \in Line
  PROVE  /\ [acc EXCEPT ![l] = Append(@, x)] \in ByLevel
         /\ Size([acc EXCEPT ![l] = Append(@, x)]) = Size(acc) + 1
         /\ Size(acc) \in Nat
<1> DEFINE b == [acc EXCEPT ![l] = Append(@, x)]
<1>1. b \in ByLevel /\ \A k \in Levels : b[k] = IF k = l THEN Append(acc[l], x) ELSE acc[k]
  BY DEF ByLevel
<1>2. \A k \in Levels : acc[k] \in Seq(Line) /\ Len(acc[k]) \in Nat
  BY DEF ByLevel
<1>3. Len(Append(acc[l], x)) = Len(acc[l]) + 1
  BY <1>2
<1> HIDE DEF b
<1>5. \A k \in Levels : Len(b[k]) = IF k = l THEN Len(acc[k]) + 1 ELSE Len(acc[k])
  BY <1>1, <1>3
<1>k. /\ "debug" \in Levels /\ "info" \in Levels /\ "warn" \in Levels /\ "error" \in Levels
      /\ l = "debug" \/ l = "info" \/ l = "warn" \/ l = "error"
  BY DEF Levels
<1>n. /\ Len(acc["debug"]) \in Nat /\ Len(acc["info"]) \in Nat
      /\ Len(acc["warn"]) \in Nat /\ Len(acc["error"]) \in Nat
  BY <1>2, <1>k, Zenon
<1>p. PICK d \in Nat, i \in Nat, w \in Nat, e \in Nat :
        d = Len(acc["debug"]) /\ i = Len(acc["info"]) /\ w = Len(acc["warn"]) /\ e = Len(acc["error"])
  BY <1>n, Zenon
<1>q. Size(acc) = d + i + w + e
  BY <1>p, Zenon DEF Size
<1>6. Size(b) = Size(acc) + 1
  <2>1. /\ Len(b["debug"]) = IF "debug" = l THEN d + 1 ELSE d
        /\ Len(b["info"]) = IF "info" = l THEN i + 1 ELSE i
        /\ Len(b["warn"]) = IF "warn" = l THEN w + 1 ELSE w
        /\ Len(b["error"]) = IF "error" = l THEN e + 1 ELSE e
    BY <1>5, <1>k, <1>p, Zenon
  <2>2. Size(b) = (IF "debug" = l THEN d + 1 ELSE d) + (IF "info" = l THEN i + 1 ELSE i)
                    + (IF "warn" = l THEN w + 1 ELSE w) + (IF "error" = l THEN e + 1 ELSE e)
    BY <2>1, Zenon DEF Size
  <2> QED  BY <1>k, <1>q, <2>2
<1>7. Size(acc) \in Nat
  BY <1>q
<1> QED  BY <1>1, <1>6, <1>7 DEF b

LEMMA SizeEmpty == NoLines \in ByLevel /\ Size(NoLines) = 0
<1>1. \A l \in Levels : NoLines[l] = <<>>
  BY DEF NoLines
<1>2. Len(<<>>) = 0
  OBVIOUS
<1>3. "debug" \in Levels /\ "info" \in Levels /\ "warn" \in Levels /\ "error" \in Levels
  BY DEF Levels
<1>4. /\ Len(NoLines["debug"]) = 0 /\ Len(NoLines["info"]) = 0
      /\ Len(NoLines["warn"]) = 0 /\ Len(NoLines["error"]) = 0
  BY <1>1, <1>2, <1>3, Zenon
<1>5. Size(NoLines) = 0 + 0 + 0 + 0
  BY <1>4, Zenon DEF Size
<1>6. NoLines \in ByLevel
  BY DEF NoLines, ByLevel
<1> QED  BY <1>5, <1>6

(* TypeOK, with what the loop's state is made of kept apart, and that no   *)
(* line is read before Tail was called.                                    *)
LoopTypes ==
  /\ pc \in {"select", "flush", "last_flush", "stopped"}
  /\ accumulated \in ByLevel
  /\ totalBytes = Size(accumulated)
  /\ pc = "select" /\ ~cancelled => totalBytes < BatchSize
  /\ todo \subseteq Levels
  /\ emitted \in ByLevel

TailTypes ==
  /\ log \in Seq([kind : Kinds, at : 0..MaxTime]) /\ Len(log) <= MaxLines
  /\ now \in 0..MaxTime
  /\ cancelled \in BOOLEAN
  /\ tail \in {"backoff", "scan", "ended"}
  /\ pos \in 0..Len(log)
  /\ connects \in 0..MaxConnects
  /\ streamEnds \in 0..MaxStreamEnds
  /\ lineCh \in Seq(Line) /\ Len(lineCh) <= ChanCap
  /\ received \in ByLevel
  /\ tail = "scan" => connects > 0

TypeInv == TailTypes /\ LoopTypes

LEMMA TypesAreOK == TypeInv => TypeOK
BY Zenon DEF TypeInv, TailTypes, LoopTypes, TypeOK, Size

LEMMA TypeInit == Init => TypeInv
<1> SUFFICES ASSUME Init PROVE TypeInv
  OBVIOUS
<1>1. TailTypes
  <2>1. <<>> \in Seq([kind : Kinds, at : 0..MaxTime]) /\ <<>> \in Seq(Line) /\ Len(<<>>) = 0
    OBVIOUS
  <2>2. /\ 0 \in 0..0 /\ 0 \in 0..MaxTime /\ 0 \in 0..MaxConnects /\ 0 \in 0..MaxStreamEnds
        /\ 0 <= MaxLines /\ 0 <= ChanCap
    BY LogConstants
  <2> QED  BY <2>1, <2>2, SizeEmpty DEF Init, TailTypes
<1>2. LoopTypes
  <2>1. BatchSize > 0 /\ NoLines \in ByLevel /\ Size(NoLines) = 0
    BY LogConstants, SizeEmpty
  <2> QED  BY <2>1 DEF Init, LoopTypes
<1> QED  BY <1>1, <1>2 DEF TypeInv

LEMMA TailStep == TailTypes /\ TailGoroutine => TailTypes'
<1> SUFFICES ASSUME TailTypes, TailGoroutine PROVE TailTypes'
  OBVIOUS
<1> USE LogConstants
<1>0. UNCHANGED <<log, now, cancelled>>
  BY DEF TailGoroutine, Connect, Scan, TooLong, StreamEnds, EndTail
<1>1. ASSUME lineCh' \in Seq(Line), Len(lineCh') <= ChanCap, received' \in ByLevel,
             tail' \in {"backoff", "scan", "ended"}, pos' \in 0..Len(log),
             connects' \in 0..MaxConnects, streamEnds' \in 0..MaxStreamEnds,
             tail' = "scan" => connects' > 0
      PROVE  TailTypes'
  BY <1>0, <1>1 DEF TailTypes
<1>2. CASE Connect
  BY <1>1, <1>2, ResumeInLog DEF Connect, TailTypes
<1>3. CASE Scan
  <2> DEFINE l == ParseLevel(log[pos + 1].kind)
             x == [conn |-> connects, n |-> pos + 1, level |-> l]
  <2>1. /\ pos < Len(log) /\ tail = "scan" /\ pos \in Nat /\ Len(log) \in Nat /\ Len(log) <= MaxLines
        /\ connects \in 1..MaxConnects
    BY <1>3 DEF Scan, TailTypes
  <2>2. x \in Line /\ l \in Levels
    BY <2>1, LevelFacts DEF Line
  <2>3. \/ UNCHANGED <<lineCh, received>>
        \/ /\ Len(lineCh) < ChanCap /\ lineCh' = Append(lineCh, x)
           /\ received' = [received EXCEPT ![l] = Append(@, x)] \/ received' = received
    BY <1>3 DEF Scan
  <2> HIDE DEF l, x
  <2>4. lineCh \in Seq(Line) /\ Len(lineCh) <= ChanCap /\ received \in ByLevel
    BY DEF TailTypes
  <2>5. lineCh' \in Seq(Line) /\ Len(lineCh') <= ChanCap
    BY <2>2, <2>3, <2>4
  <2>6. received' \in ByLevel
    BY <2>2, <2>3, <2>4, SizeAppend
  <2>7. UNCHANGED <<tail, connects, streamEnds>> /\ pos' = pos + 1
    BY <1>3 DEF Scan
  <2> QED  BY <1>1, <2>1, <2>5, <2>6, <2>7 DEF TailTypes
<1>4. CASE TooLong
  BY <1>1, <1>4 DEF TooLong, TailTypes
<1>5. CASE StreamEnds
  BY <1>1, <1>5 DEF StreamEnds, TailTypes
<1>6. CASE EndTail
  BY <1>1, <1>6 DEF EndTail, TailTypes
<1> QED  BY <1>2, <1>3, <1>4, <1>5, <1>6 DEF TailGoroutine

LEMMA LoopStep == TypeInv /\ Run => TypeInv'
<1> SUFFICES ASSUME TypeInv, Run PROVE TypeInv'
  OBVIOUS
<1> USE LogConstants
<1>0. UNCHANGED <<log, now, cancelled, tailVars>>
  BY DEF Run, TakeLine, BatchTimeout, Done, Flush, SendLevel, Flushed, FlushInterrupted
<1>1. ASSUME lineCh' = lineCh PROVE TailTypes'
  BY <1>0, <1>1 DEF TypeInv, TailTypes, tailVars
<1>2. CASE TakeLine
  <2> DEFINE x == Head(lineCh)
             acc == [accumulated EXCEPT ![x.level] = Append(@, x)]
  <2>1. lineCh \in Seq(Line) /\ lineCh # <<>> /\ lineCh' = Tail(lineCh) /\ emitted' = emitted
    BY <1>2 DEF TakeLine, TypeInv, TailTypes
  <2>2. x \in Line /\ lineCh' \in Seq(Line) /\ Len(lineCh') <= ChanCap
    BY <2>1 DEF TypeInv, TailTypes
  <2>3. TailTypes'
    BY <1>0, <2>2 DEF TypeInv, TailTypes, tailVars
  <2>4. x.level \in Levels
    BY <2>2 DEF Line
  <2>5. \/ UNCHANGED <<pc, accumulated, totalBytes, todo>>
        \/ /\ accumulated' = acc /\ totalBytes' = totalBytes + 1
           /\ \/ Large(totalBytes + 1) /\ pc' = "flush" /\ todo' = {l \in Levels : acc[l] # <<>>}
              \/ ~Large(totalBytes + 1) /\ UNCHANGED <<pc, todo>>
    BY <1>2 DEF TakeLine, BeginFlush
  <2>6. accumulated \in ByLevel /\ totalBytes = Size(accumulated)
    BY DEF TypeInv, LoopTypes
  <2> HIDE DEF x, acc
  <2>7. acc \in ByLevel /\ Size(acc) = totalBytes + 1 /\ totalBytes \in Nat
    BY <2>2, <2>4, <2>6, SizeAppend DEF acc
  <2>8. CASE UNCHANGED <<pc, accumulated, totalBytes, todo>>
    BY <1>0, <2>1, <2>3, <2>8 DEF TypeInv, LoopTypes
  <2>9. CASE /\ accumulated' = acc /\ totalBytes' = totalBytes + 1
             /\ Large(totalBytes + 1) /\ pc' = "flush" /\ todo' = {l \in Levels : acc[l] # <<>>}
    BY <2>1, <2>3, <2>7, <2>9 DEF TypeInv, LoopTypes
  <2>10. CASE /\ accumulated' = acc /\ totalBytes' = totalBytes + 1
              /\ ~Large(totalBytes + 1) /\ UNCHANGED <<pc, todo>>
    BY <2>1, <2>3, <2>7, <2>10 DEF TypeInv, LoopTypes, Large
  <2> QED  BY <2>5, <2>8, <2>9, <2>10
<1>3. CASE BatchTimeout
  BY <1>1, <1>3 DEF BatchTimeout, BeginFlush, TypeInv, LoopTypes
<1>4. CASE Done
  BY <1>1, <1>4 DEF Done, BeginFlush, TypeInv, LoopTypes
<1>5. ASSUME NEW l \in Levels, SendLevel(l) PROVE TypeInv'
  <2>1. emitted' \in ByLevel
    <3>1. emitted \in ByLevel /\ accumulated \in ByLevel
      BY DEF TypeInv, LoopTypes
    <3>2. emitted[l] \o accumulated[l] \in Seq(Line)
      BY <3>1, ConcatProperties DEF ByLevel
    <3> QED  BY <1>5, <3>1, <3>2 DEF SendLevel, ByLevel
  <2> QED  BY <1>0, <1>1, <1>5, <2>1 DEF SendLevel, TypeInv, LoopTypes
<1>6. CASE Flushed
  BY <1>1, <1>6, SizeEmpty DEF Flushed, AfterFlush, TypeInv, LoopTypes
<1>7. CASE FlushInterrupted
  BY <1>1, <1>7 DEF FlushInterrupted, AfterFlush, TypeInv, LoopTypes
<1> QED  BY <1>2, <1>3, <1>4, <1>5, <1>6, <1>7 DEF Run, Flush

LEMMA TypeStep == TypeInv /\ [Next]_vars => TypeInv'
<1> SUFFICES ASSUME TypeInv, [Next]_vars PROVE TypeInv'
  OBVIOUS
<1>1. ASSUME NEW kind \in Kinds, Write(kind) PROVE TypeInv'
  <2>1. [kind |-> kind, at |-> now] \in [kind : Kinds, at : 0..MaxTime]
    BY <1>1 DEF TypeInv, TailTypes
  <2>2. TailTypes'
    BY <1>1, <2>1, LogConstants DEF Write, TypeInv, TailTypes, tailVars
  <2> QED  BY <1>1, <2>2 DEF Write, TypeInv, LoopTypes, loopVars
<1>2. CASE Tick
  BY <1>2, LogConstants DEF Tick, TypeInv, TailTypes, LoopTypes, tailVars, loopVars
<1>3. CASE Cancel
  BY <1>3 DEF Cancel, TypeInv, TailTypes, LoopTypes, tailVars, loopVars
<1>4. CASE TailGoroutine
  <2>1. UNCHANGED <<cancelled, loopVars>>
    BY <1>4 DEF TailGoroutine, Connect, Scan, TooLong, StreamEnds, EndTail
  <2> QED  BY <1>4, <2>1, TailStep DEF TypeInv, LoopTypes, loopVars
<1>5. CASE Run
  BY <1>5, LoopStep
<1>6. CASE UNCHANGED vars
  BY <1>6 DEF vars, TypeInv, TailTypes, LoopTypes, tailVars, loopVars
<1> QED  BY <1>1, <1>2, <1>3, <1>4, <1>5, <1>6 DEF Next

(* The state of the collector is well typed, totalBytes is the size of the *)
(* batch, and before a cancellation the loop never goes back to waiting    *)
(* with a batch that has reached batch_size (collector.go, the flush in    *)
(* the line case).                                                         *)
THEOREM LogTypeCorrect == Spec => []TypeOK
BY TypeInit, TypeStep, TypesAreOK, PTL DEF Spec
-----------------------------------------------------------------------------
(* Every line received is one the scanner has passed, and they come in the *)
(* order of the log, connection after connection.                          *)
Passed(x) == x.conn < connects \/ (x.conn = connects /\ x.n <= pos)

ReadOK(l) ==
  /\ \A a \in DOMAIN received[l] : Passed(received[l][a])
  /\ \A a, b \in DOMAIN received[l] : a < b => Before(received[l][a], received[l][b])

ReadInv == TypeInv /\ \A l \in Levels : ReadOK(l)

LEMMA ReadStep == ReadInv /\ [Next]_vars => ReadInv'
<1> SUFFICES ASSUME ReadInv, [Next]_vars PROVE ReadInv'
  OBVIOUS
<1>0. TypeInv /\ TypeInv'
  BY TypeStep DEF ReadInv
<1>r. \A l \in Levels : /\ received[l] \in Seq(Line) /\ Len(received[l]) \in Nat
                         /\ DOMAIN received[l] = 1..Len(received[l])
                         /\ \A a \in 1..Len(received[l]) : received[l][a] \in Line
  <2>1. \A l \in Levels : received[l] \in Seq(Line)
    BY <1>0 DEF TypeInv, TailTypes, ByLevel
  <2> QED  BY <2>1
<1>n. \A x \in Line : x.conn \in Nat /\ x.n \in Nat
  BY LogConstants DEF Line
<1>t. connects \in Nat /\ pos \in Nat
  BY <1>0, LogConstants DEF TypeInv, TailTypes
<1>1. CASE Connect
  <2>1. received' = received /\ connects' = connects + 1
    BY <1>1 DEF Connect
  <2>2. ASSUME NEW l \in Levels, NEW a \in DOMAIN received[l] PROVE Passed(received[l][a])'
    <3>1. Passed(received[l][a]) /\ received[l][a] \in Line
      BY <1>r, <2>2 DEF ReadInv, ReadOK
    <3> QED  BY <1>n, <1>t, <2>1, <3>1 DEF Passed
  <2> QED  BY <1>0, <2>1, <2>2 DEF ReadInv, ReadOK
<1>2. CASE Scan
  <2>1. PICK k, x :
          /\ k \in Levels
          /\ x = [conn |-> connects, n |-> pos + 1, level |-> k]
          /\ pos' = pos + 1 /\ connects' = connects
          /\ received' = [received EXCEPT ![k] = Append(@, x)] \/ received' = received
    BY <1>2, LevelFacts DEF Scan
  <2>k. k \in Levels
    BY <2>1
  <2>2. x.conn = connects /\ x.n = pos + 1
    BY <2>1
  <2>3. ASSUME NEW y \in Line, Passed(y) PROVE Passed(y)' /\ Before(y, x)
    BY <1>n, <1>t, <2>1, <2>2, <2>3 DEF Passed, Before
  <2>4. Passed(x)'
    BY <1>t, <2>1, <2>2 DEF Passed
  <2>5. CASE received' = received
    BY <1>0, <1>r, <2>3, <2>5 DEF ReadInv, ReadOK
  <2>6. CASE received' = [received EXCEPT ![k] = Append(@, x)]
    <3>1. \A l \in Levels : received'[l] = IF l = k THEN Append(received[k], x) ELSE received[l]
      BY <1>0, <2>6 DEF TypeInv, TailTypes, ByLevel
    <3>2. ASSUME NEW l \in Levels, l # k PROVE ReadOK(l)'
      BY <1>r, <2>3, <3>1, <3>2 DEF ReadInv, ReadOK
    <3>3. ReadOK(k)'
      <4>0. PICK r, N, q : r = received[k] /\ N = Len(r) /\ q = Append(r, x)
        OBVIOUS
      <4>1. N \in Nat /\ DOMAIN r = 1..N /\ r \in Seq(Line) /\ \A a \in 1..N : r[a] \in Line
        BY <1>r, <2>k, <4>0
      <4>2. DOMAIN q = 1..(N + 1) /\ q[N + 1] = x /\ \A a \in 1..N : q[a] = r[a]
        BY <4>0, <4>1
      <4>3. received'[k] = q
        BY <2>k, <3>1, <4>0
      <4>4. /\ \A a \in 1..N : Passed(r[a])
            /\ \A a, b \in 1..N : a < b => Before(r[a], r[b])
        BY <2>k, <4>0, <4>1 DEF ReadInv, ReadOK
      <4>5. ASSUME NEW a \in 1..(N + 1) PROVE Passed(q[a])' /\ (a < N + 1 => Before(q[a], x))
        <5>1. CASE a = N + 1
          BY <2>4, <4>2, <5>1, <4>1
        <5>2. CASE a \in 1..N
          BY <2>3, <4>1, <4>2, <4>4, <5>2
        <5> QED  BY <4>1, <5>1, <5>2
      <4>6. ASSUME NEW a \in 1..(N + 1), NEW b \in 1..(N + 1), a < b PROVE Before(q[a], q[b])
        <5>1. CASE b = N + 1
          BY <4>2, <4>5, <4>6, <5>1
        <5>2. CASE b \in 1..N
          <6>1. a \in 1..N
            BY <4>1, <4>6, <5>2
          <6> QED  BY <4>2, <4>4, <4>6, <5>2, <6>1
        <5> QED  BY <4>1, <5>1, <5>2
      <4>7. \A a \in DOMAIN q : Passed(q[a])'
        BY <4>2, <4>5
      <4>8. \A a, b \in DOMAIN q : a < b => Before(q[a], q[b])
        BY <4>2, <4>6
      <4> QED  BY <4>3, <4>7, <4>8 DEF ReadOK, Before
    <3> QED  BY <1>0, <3>2, <3>3 DEF ReadInv
  <2> QED  BY <2>1, <2>5, <2>6
<1>3. ASSUME UNCHANGED <<connects, pos, received>> PROVE ReadInv'
  BY <1>0, <1>3 DEF ReadInv, ReadOK, Passed
<1>4. CASE TooLong \/ StreamEnds \/ EndTail
  BY <1>3, <1>4 DEF TooLong, StreamEnds, EndTail
<1>5. CASE Run
  BY <1>3, <1>5 DEF Run, TakeLine, BatchTimeout, Done, Flush, SendLevel, Flushed, FlushInterrupted, tailVars
<1>6. CASE (\E kind \in Kinds : Write(kind)) \/ Tick \/ Cancel \/ UNCHANGED vars
  BY <1>3, <1>6 DEF Write, Tick, Cancel, vars, tailVars
<1> QED  BY <1>1, <1>2, <1>4, <1>5, <1>6 DEF Next, TailGoroutine
-----------------------------------------------------------------------------
(* Where the lines of a level are.                                         *)
Waiting(l) == IF pc = "select" \/ l \in todo THEN accumulated[l] ELSE <<>>
Queued(l) == IF LevelRank(l) >= MinLevel THEN LinesOf(lineCh, l) ELSE <<>>
Chain(l) == emitted[l] \o Waiting(l) \o Queued(l) = received[l]

ChainInv == TypeInv /\ (~cancelled => \A l \in Levels : Chain(l))

LEMMA ChainTypes ==
  ASSUME TypeInv, NEW l \in Levels
  PROVE  /\ emitted[l] \in Seq(Line) /\ accumulated[l] \in Seq(Line) /\ received[l] \in Seq(Line)
         /\ Waiting(l) \in Seq(Line) /\ Queued(l) \in Seq(Line) /\ lineCh \in Seq(Line)
<1>1. /\ emitted[l] \in Seq(Line) /\ accumulated[l] \in Seq(Line) /\ received[l] \in Seq(Line)
      /\ lineCh \in Seq(Line) /\ <<>> \in Seq(Line)
  BY DEF TypeInv, TailTypes, LoopTypes, ByLevel
<1> QED  BY <1>1, LinesOfType DEF Waiting, Queued

LEMMA AssociateLines ==
  ASSUME NEW s \in Seq(Line), NEW t \in Seq(Line), NEW u \in Seq(Line)
  PROVE  (s \o t) \o u = s \o (t \o u)
BY ConcatAssociative, SMTT(30)

(* Lines move from the channel to the batch and from the batch to out.     *)
LEMMA MoveLine ==
  ASSUME NEW e \in Seq(Line), NEW w \in Seq(Line), NEW x \in Line, NEW q \in Seq(Line)
  PROVE  e \o w \o (<<x>> \o q) = e \o Append(w, x) \o q
<1>1. <<x>> \in Seq(Line) /\ Append(w, x) = w \o <<x>>
  OBVIOUS
<1>2. e \o w \in Seq(Line)
  BY ConcatProperties
<1>3. (e \o w) \o (<<x>> \o q) = ((e \o w) \o <<x>>) \o q
  BY <1>1, <1>2, AssociateLines, ZenonT(40)
<1>4. (e \o w) \o <<x>> = e \o (w \o <<x>>)
  BY <1>1, AssociateLines, ZenonT(40)
<1> QED  BY <1>1, <1>3, <1>4, Zenon

LEMMA ChainTail == ChainInv /\ TailGoroutine => ChainInv'
<1> SUFFICES ASSUME ChainInv, TailGoroutine PROVE ChainInv'
  OBVIOUS
<1>0. TypeInv /\ TypeInv'
  <2>1. [Next]_vars
    BY DEF Next
  <2> QED  BY <2>1, TypeStep DEF ChainInv
<1>1. UNCHANGED <<cancelled, loopVars>>
  BY DEF TailGoroutine, Connect, Scan, TooLong, StreamEnds, EndTail
<1>2. ASSUME UNCHANGED <<lineCh, received>> PROVE ChainInv'
  BY <1>0, <1>1, <1>2 DEF ChainInv, Chain, Waiting, Queued, loopVars
<1>3. CASE Connect \/ TooLong \/ StreamEnds \/ EndTail
  BY <1>2, <1>3 DEF Connect, TooLong, StreamEnds, EndTail
<1>4. CASE Scan
  <2>1. PICK k \in Levels, x \in Line :
          /\ x.level = k
          /\ \/ UNCHANGED <<lineCh, received>>
             \/ /\ lineCh' = Append(lineCh, x)
                /\ received' = IF LevelRank(k) >= MinLevel
                               THEN [received EXCEPT ![k] = Append(@, x)] ELSE received
    <3> DEFINE k == ParseLevel(log[pos + 1].kind)
               x == [conn |-> connects, n |-> pos + 1, level |-> k]
    <3>1. /\ pos < Len(log) /\ tail = "scan" /\ pos \in Nat /\ Len(log) \in Nat /\ Len(log) <= MaxLines
          /\ connects \in 1..MaxConnects
      BY <1>0, <1>4, LogConstants DEF Scan, TypeInv, TailTypes
    <3>2. x \in Line /\ x.level = k /\ k \in Levels
      BY <3>1, LevelFacts, LogConstants DEF Line
    <3> QED  BY <1>4, <3>2 DEF Scan
  <2>2. CASE UNCHANGED <<lineCh, received>>
    BY <1>2, <2>2
  <2>3. CASE /\ lineCh' = Append(lineCh, x)
             /\ received' = IF LevelRank(k) >= MinLevel
                            THEN [received EXCEPT ![k] = Append(@, x)] ELSE received
    <3>1. SUFFICES ASSUME ~cancelled, NEW l \in Levels PROVE Chain(l)'
      BY <1>0, <1>1 DEF ChainInv
    <3>2. Chain(l) /\ emitted'[l] = emitted[l] /\ Waiting(l)' = Waiting(l)
      BY <1>1, <3>1 DEF ChainInv, Waiting, loopVars
    <3>3. lineCh \in Seq(Line) /\ received[l] \in Seq(Line)
      BY <1>0, ChainTypes
    <3>4. LinesOf(lineCh', l) = IF k = l THEN Append(LinesOf(lineCh, l), x) ELSE LinesOf(lineCh, l)
      BY <2>1, <2>3, <3>3, LinesOfAppend
    <3>5. CASE k = l /\ LevelRank(k) >= MinLevel
      <4>1. Queued(l)' = Append(Queued(l), x)
        BY <3>4, <3>5 DEF Queued
      <4>2. received'[l] = Append(received[l], x)
        BY <1>0, <2>3, <3>5 DEF TypeInv, TailTypes, ByLevel
      <4>3. emitted[l] \o Waiting(l) \in Seq(Line) /\ Queued(l) \in Seq(Line)
        BY <1>0, ChainTypes, ConcatProperties
      <4>4. \A p, q \in Seq(Line) : p \o Append(q, x) = Append(p \o q, x)
        OBVIOUS
      <4>5. (emitted[l] \o Waiting(l)) \o Append(Queued(l), x)
              = Append((emitted[l] \o Waiting(l)) \o Queued(l), x)
        BY <4>3, <4>4, Zenon
      <4> QED  BY <3>2, <4>1, <4>2, <4>5, Zenon DEF Chain
    <3>6. CASE ~(k = l /\ LevelRank(k) >= MinLevel)
      <4>1. Queued(l)' = Queued(l)
        BY <3>4, <3>6 DEF Queued
      <4>2. received'[l] = received[l]
        BY <1>0, <2>3, <3>6 DEF TypeInv, TailTypes, ByLevel
      <4> QED  BY <3>2, <4>1, <4>2, Zenon DEF Chain
    <3> QED  BY <3>5, <3>6
  <2> QED  BY <2>1, <2>2, <2>3
<1> QED  BY <1>3, <1>4 DEF TailGoroutine

LEMMA ChainLoop == ChainInv /\ Run => ChainInv'
<1> SUFFICES ASSUME ChainInv, Run PROVE ChainInv'
  OBVIOUS
<1>0. TypeInv /\ TypeInv'
  <2>1. [Next]_vars
    BY DEF Next
  <2> QED  BY <2>1, TypeStep DEF ChainInv
<1>1. UNCHANGED <<cancelled, received>>
  BY DEF Run, TakeLine, BatchTimeout, Done, Flush, SendLevel, Flushed, FlushInterrupted, tailVars
<1>2. SUFFICES ASSUME ~cancelled, NEW l \in Levels PROVE Chain(l)'
  BY <1>0, <1>1 DEF ChainInv
<1>3. /\ Chain(l) /\ received'[l] = received[l]
      /\ emitted[l] \in Seq(Line) /\ accumulated[l] \in Seq(Line) /\ lineCh \in Seq(Line)
      /\ Waiting(l) \in Seq(Line) /\ Queued(l) \in Seq(Line)
  BY <1>0, <1>1, <1>2, ChainTypes DEF ChainInv
<1>4. ASSUME emitted'[l] = emitted[l], Waiting(l)' = Waiting(l), lineCh' = lineCh PROVE Chain(l)'
  BY <1>3, <1>4 DEF Chain, Queued
<1>5. CASE TakeLine
  <2>1. PICK x \in Line : x = Head(lineCh)
    BY <1>3, <1>5 DEF TakeLine
  <2>2. /\ lineCh # <<>> /\ lineCh' = Tail(lineCh) /\ pc = "select" /\ emitted' = emitted
        /\ x.level \in Levels /\ Tail(lineCh) \in Seq(Line)
    BY <1>3, <1>5, <2>1 DEF TakeLine, Line
  <2>3. LinesOf(lineCh, l) = (IF x.level = l THEN <<x>> ELSE <<>>) \o LinesOf(lineCh', l)
    BY <1>3, <2>1, <2>2, LinesOfTail
  <2>4. LinesOf(lineCh', l) \in Seq(Line)
    BY <2>2, LinesOfType
  <2>5. Waiting(l) = accumulated[l]
    BY <2>2 DEF Waiting
  <2>6. CASE LevelRank(x.level) < MinLevel
    <3>1. UNCHANGED <<pc, accumulated, todo>>
      BY <1>5, <2>1, <2>6 DEF TakeLine
    <3>2. Queued(l)' = Queued(l)
      <4>1. CASE x.level = l
        BY <2>6, <4>1, LevelFacts, LogConstants DEF Queued
      <4>2. CASE x.level # l
        BY <2>3, <2>4, <4>2, ConcatEmptySeq DEF Queued
      <4> QED  BY <4>1, <4>2
    <3> QED  BY <1>3, <2>2, <3>1, <3>2 DEF Chain, Waiting
  <2>7. CASE ~(LevelRank(x.level) < MinLevel)
    <3> DEFINE acc == [accumulated EXCEPT ![x.level] = Append(@, x)]
    <3>1. /\ accumulated' = acc
          /\ (pc' = "flush" /\ todo' = {k \in Levels : acc[k] # <<>>}) \/ UNCHANGED <<pc, todo>>
      BY <1>5, <2>1, <2>7 DEF TakeLine, BeginFlush
    <3>2. acc[l] = IF x.level = l THEN Append(accumulated[l], x) ELSE accumulated[l]
      BY <1>0 DEF TypeInv, LoopTypes, ByLevel
    <3> HIDE DEF acc
    <3>3. Waiting(l)' = acc[l]
      BY <2>2, <3>1 DEF Waiting
    <3>4. CASE x.level = l
      <4>1. LevelRank(l) >= MinLevel
        BY <2>7, <3>4, LevelFacts, LogConstants
      <4>2. Queued(l) = <<x>> \o Queued(l)' /\ Queued(l)' \in Seq(Line)
        BY <2>3, <2>4, <3>4, <4>1 DEF Queued
      <4> DEFINE q == Queued(l)'
      <4>a. emitted[l] \in Seq(Line) /\ accumulated[l] \in Seq(Line) /\ q \in Seq(Line) /\ x \in Line
        BY <1>3, <2>3, <4>2
      <4> HIDE DEF q
      <4>b. ASSUME NEW e \in Seq(Line), NEW w \in Seq(Line), NEW r \in Seq(Line)
            PROVE  e \o w \o (<<x>> \o r) = e \o Append(w, x) \o r
        BY MoveLine, Zenon
      <4>c. ASSUME NEW r \in Seq(Line)
            PROVE  emitted[l] \o accumulated[l] \o (<<x>> \o r)
                     = emitted[l] \o Append(accumulated[l], x) \o r
        BY <4>a, <4>b, Zenon
      <4>3. emitted[l] \o accumulated[l] \o (<<x>> \o Queued(l)')
              = emitted[l] \o Append(accumulated[l], x) \o Queued(l)'
        BY <4>a, <4>c, Zenon DEF q
      <4> QED  BY <1>3, <2>2, <2>5, <3>2, <3>3, <3>4, <4>2, <4>3 DEF Chain
    <3>5. CASE x.level # l
      <4>1. Queued(l)' = Queued(l)
        BY <2>3, <2>4, <3>5, ConcatEmptySeq DEF Queued
      <4> QED  BY <1>3, <2>2, <2>5, <3>2, <3>3, <3>5, <4>1 DEF Chain
    <3> QED  BY <3>4, <3>5
  <2> QED  BY <2>6, <2>7
<1>6. CASE BatchTimeout
  BY <1>4, <1>6 DEF BatchTimeout, BeginFlush, Waiting
<1>7. CASE Done
  BY <1>2, <1>7 DEF Done
<1>8. ASSUME NEW k \in Levels, SendLevel(k) PROVE Chain(l)'
  <2>1. /\ todo' = todo \ {k} /\ k \in todo /\ UNCHANGED <<pc, accumulated, lineCh>> /\ pc # "select"
        /\ emitted' = [emitted EXCEPT ![k] = @ \o accumulated[k]]
    BY <1>2, <1>8 DEF SendLevel
  <2>2. CASE k = l
    <3>1. Waiting(l) = accumulated[l] /\ Waiting(l)' = <<>> /\ Queued(l)' = Queued(l)
      BY <2>1, <2>2 DEF Waiting, Queued
    <3>2. emitted'[l] = emitted[l] \o accumulated[l]
      BY <1>0, <2>1, <2>2 DEF TypeInv, LoopTypes, ByLevel
    <3>3. emitted[l] \o accumulated[l] \in Seq(Line)
      BY <1>3, ConcatProperties
    <3>4. (emitted[l] \o accumulated[l]) \o <<>> = emitted[l] \o accumulated[l]
      BY <3>3, ConcatEmptySeq
    <3> QED  BY <1>3, <3>1, <3>2, <3>4, Zenon DEF Chain
  <2>3. CASE k # l
    <3>1. emitted'[l] = emitted[l]
      BY <1>0, <2>1, <2>3 DEF TypeInv, LoopTypes, ByLevel
    <3>2. Waiting(l)' = Waiting(l)
      BY <2>1, <2>3 DEF Waiting
    <3> QED  BY <1>4, <2>1, <3>1, <3>2
  <2> QED  BY <2>2, <2>3
<1>9. CASE Flushed
  <2>1. /\ Waiting(l) = <<>> /\ Waiting(l)' = <<>> /\ emitted' = emitted /\ lineCh' = lineCh
    BY <1>9 DEF Flushed, AfterFlush, Waiting, NoLines
  <2> QED  BY <1>4, <2>1
<1>10. CASE FlushInterrupted
  BY <1>2, <1>10 DEF FlushInterrupted
<1> QED  BY <1>5, <1>6, <1>7, <1>8, <1>9, <1>10 DEF Run, Flush

LEMMA ChainStep == ChainInv /\ [Next]_vars => ChainInv'
<1> SUFFICES ASSUME ChainInv, [Next]_vars PROVE ChainInv'
  OBVIOUS
<1>0. TypeInv'
  BY TypeStep DEF ChainInv
<1>1. ASSUME UNCHANGED <<lineCh, received, loopVars>>, ~cancelled' => ~cancelled PROVE ChainInv'
  BY <1>0, <1>1 DEF ChainInv, Chain, Waiting, Queued, loopVars
<1>2. CASE (\E kind \in Kinds : Write(kind)) \/ Tick \/ Cancel \/ UNCHANGED vars
  <2>1. UNCHANGED <<lineCh, received, loopVars>> /\ (cancelled' = TRUE \/ cancelled' = cancelled)
    BY <1>2 DEF Write, Tick, Cancel, vars, tailVars
  <2> QED  BY <1>1, <2>1
<1> QED  BY <1>2, ChainTail, ChainLoop DEF Next

(* Until a cancellation the collector neither loses, repeats nor reorders  *)
(* a line Tail delivered (collector.go Run, docker.go Tail): of each level *)
(* the lines emitted, waiting in the batch and queued on the channel are   *)
(* together what was received, which comes in the order of the log.        *)
THEOREM LinesStayInOrder == Spec => []LinesInOrder
<1>1. Init => ReadInv
  <2> SUFFICES ASSUME Init PROVE ReadInv
    OBVIOUS
  <2>1. \A l \in Levels : received[l] = <<>>
    BY DEF Init, NoLines
  <2>2. DOMAIN <<>> = {}
    OBVIOUS
  <2> QED  BY <2>1, <2>2, TypeInit DEF ReadInv, ReadOK
<1>2. Init => ChainInv
  <2> SUFFICES ASSUME Init PROVE ChainInv
    OBVIOUS
  <2>1. ASSUME NEW l \in Levels PROVE Chain(l)
    <3>1. emitted[l] = <<>> /\ received[l] = <<>> /\ accumulated[l] = <<>> /\ lineCh = <<>>
      BY DEF Init, NoLines
    <3>2. Waiting(l) = <<>> /\ Queued(l) = <<>>
      BY <3>1, LinesOfEmpty DEF Waiting, Queued
    <3>3. <<>> \o <<>> \o <<>> = <<>>
      OBVIOUS
    <3> QED  BY <3>1, <3>2, <3>3 DEF Chain
  <2> QED  BY <2>1, TypeInit DEF ChainInv
<1>3. ReadInv /\ ChainInv => LinesInOrder
  BY DEF ReadInv, ReadOK, ChainInv, Chain, Waiting, Queued, LinesInOrder
<1> QED  BY <1>1, <1>2, <1>3, ReadStep, ChainStep, PTL DEF Spec
=============================================================================
