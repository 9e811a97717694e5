-------------------------- MODULE NetworkSinkProofs --------------------------
(***************************************************************************)
(* Proofs about NetworkSink for any events, batches, segments and limits,  *)
(* and any number of failures, kills and power cuts.                       *)
(*                                                                         *)
(* What the sink still owes the server is followed through every step: it  *)
(* is in pending_ while the process lives, in the segments a restart would *)
(* load, and what a rewrite has hardened is in the lines a power cut       *)
(* leaves.  A rewrite moves it from the old generation of segments to the  *)
(* new one, and RewriteInv says how far that is.                           *)
(***************************************************************************)
EXTENDS NetworkSink, SumLemmas

Elems(s) == {s[p] : p \in DOMAIN s}

\* The lines of some segments that a power cut leaves.
OnMedium(S) == UNION {{segs[i][p] : p \in 1..synced[i]} : i \in S}

\* What is owed to the server: the accepted events, unless an append may
\* garble them, and what a rewrite has hardened.
\* The events a load has missed are not, until a later load reads them.
Owed == ({e \in accepted \ (forfeited \cup overlooked) : ~TornAppends}
           \cup hardened) \ received

\* The segments below the next number: those the worker has loaded or written
\* itself, which no rename replaces.
Lower == {i \in dir : i < wal.index}

Rewriting == pc \in {"stage", "rename", "publish"}

TypeInv ==
  /\ TypeOK
  /\ pc # "down" => wal.current > 0 /\ wal.current < wal.index
  /\ \A i \in Indices : synced[i] <= Len(segs[i])
  /\ ~TornAppends => \A i \in Indices : Torn \notin Elems(segs[i])

\* Nothing that is owed is lost.
OwedInv ==
  /\ ~TornAppends => Owed \subseteq LinesOf(Lower)
  /\ hardened \ received \subseteq OnMedium(Lower \cap ddir)
  /\ pc # "down" => Owed \subseteq Elems(pending)

\* How far a rewrite is.  What it leaves out has been received; until it is
\* published nothing below its base changes, and then nothing it removes is
\* needed.
RewriteInv ==
  /\ Rewriting =>
       /\ rw.acked <= Len(pending)
       /\ \A p \in 1..rw.acked :
            pending[p] \in Events => pending[p] \in received
  /\ pc = "stage" => rw.done = 0
  /\ pc \in {"rename", "publish"} =>
       /\ rw.done <= Len(rw.staged)
       /\ pc = "rename" => rw.done < Len(rw.staged)
       /\ pc = "publish" => rw.done = Len(rw.staged) /\ rw.done > 0
       /\ rw.base >= wal.index /\ rw.base + Len(rw.staged) - 1 <= MaxIndex
       /\ \A i \in rw.old : i < rw.base
       /\ Elems(Remaining)
            = UNION {Elems(rw.staged[k]) : k \in DOMAIN rw.staged}
       /\ \A k \in 1..rw.done :
            /\ rw.base + k - 1 \in dir
            /\ segs[rw.base + k - 1] = rw.staged[k]
            /\ synced[rw.base + k - 1] = Len(rw.staged[k])
  /\ pc = "remove" => Owed \subseteq OnMedium((Lower \cap ddir) \ rw.old)

Undelivered(s) == \A p \in DOMAIN s : s[p] \in Events /\ deliveries[s[p]] = 0

\* Without a failure, what is pending is new to the server and there is
\* nothing else to load.
QuietInv ==
  faults = 0 /\ crashes = 0 =>
    /\ \A p, q \in DOMAIN pending : pending[p] = pending[q] => p = q
    /\ \A p \in DOMAIN pending : pending[p] \in Events /\ pending[p] < next
    /\ \A e \in Events : deliveries[e] <= 1 /\ (e >= next => deliveries[e] = 0)
    /\ Undelivered(IF Rewriting THEN Remaining ELSE pending)
    /\ pc = "down" => pending = <<>>
    /\ pc # "remove" => LinesOf(dir) \subseteq Elems(pending)
    /\ pc = "remove" => LinesOf(dir \ rw.old) \subseteq Elems(pending)
    /\ pc \in {"rename", "publish"} =>
         LinesOf(dir \ rw.old) \subseteq Elems(Remaining)

IInv == TypeInv /\ OwedInv /\ RewriteInv /\ QuietInv

---------------------------------------------------------------------------
\* The constants that bound the model.
LEMMA Sizes ==
  /\ BatchSize \in Nat \ {0} /\ SegmentLines \in Nat \ {0}
  /\ MaxIndex \in Nat \ {0} /\ MaxEvents \in Nat
BY SizesAssumption, NetworkBoundsAssumption

\* A piece of a sequence.
LEMMA Piece ==
  ASSUME NEW S, NEW s \in Seq(S), NEW m \in Nat \ {0}, NEW n \in Nat,
         n <= Len(s), m <= n + 1
  PROVE  /\ SubSeq(s, m, n) \in Seq(S) /\ Len(SubSeq(s, m, n)) = n - m + 1
         /\ DOMAIN SubSeq(s, m, n) = 1..(n - m + 1)
         /\ \A p \in 1..(n - m + 1) : SubSeq(s, m, n)[p] = s[m + p - 1]
OBVIOUS

\* What a segment holds after a line was written to it.
LEMMA AppendedFacts ==
  ASSUME NEW s \in Seq(Lines), NEW x \in Lines
  PROVE  /\ Appended(s, x) \in Seq(Lines)
         /\ Len(s) <= Len(Appended(s, x))
         /\ \A p \in DOMAIN s : s[p] # Torn => Appended(s, x)[p] = s[p]
         /\ Elems(Appended(s, x)) \subseteq Elems(s) \cup {x, Garbled}
         /\ Torn \notin Elems(s) =>
              Elems(Appended(s, x)) = Elems(s) \cup {x}
<1>1. CASE s # <<>> /\ s[Len(s)] = Torn
  <2>1. Garbled \in Lines /\ Torn \in Lines /\ Len(s) \in DOMAIN s
    BY <1>1 DEF Lines, Records
  <2>2. Torn \in Elems(s)
    BY <1>1, <2>1 DEF Elems
  <2> DEFINE y == IF x = Torn THEN Torn ELSE Garbled
  <2>3. /\ Appended(s, x) = [s EXCEPT ![Len(s)] = y]
        /\ y \in {Torn, Garbled} /\ (y = Torn => x = Torn \/ y = Garbled)
    BY <1>1 DEF Appended
  <2> HIDE DEF y
  <2> DEFINE t == [s EXCEPT ![Len(s)] = y]
  <2>4. /\ t \in Seq(Lines) /\ DOMAIN t = DOMAIN s /\ Len(t) = Len(s)
        /\ \A p \in DOMAIN s : p # Len(s) => t[p] = s[p]
        /\ t[Len(s)] = y
    BY <2>1, <2>3
  <2> HIDE DEF t
  <2>5. Elems(t) \subseteq Elems(s) \cup {x, Garbled}
    BY <2>3, <2>4 DEF Elems
  <2>6. \A p \in DOMAIN s : s[p] # Torn => t[p] = s[p]
    BY <1>1, <2>4
  <2>7. Appended(s, x) = t
    BY <2>3 DEF t
  <2> QED BY <2>2, <2>4, <2>5, <2>6, <2>7
<1>2. CASE ~(s # <<>> /\ s[Len(s)] = Torn)
  <2>1. Appended(s, x) = Append(s, x)
    BY <1>2 DEF Appended
  <2>2. /\ Append(s, x) \in Seq(Lines) /\ Len(Append(s, x)) = Len(s) + 1
        /\ DOMAIN Append(s, x) = 1..(Len(s) + 1) /\ DOMAIN s = 1..Len(s)
        /\ \A p \in 1..Len(s) : Append(s, x)[p] = s[p]
        /\ Append(s, x)[Len(s) + 1] = x
    OBVIOUS
  <2>3. 1..(Len(s) + 1) = 1..Len(s) \cup {Len(s) + 1}
    OBVIOUS
  <2>4. Elems(Append(s, x)) = Elems(s) \cup {x}
    BY <2>2, <2>3 DEF Elems
  <2> QED BY <2>1, <2>2, <2>4
<1> QED BY <1>1, <1>2

\* The highest of some indices.
LEMMA MaxOfFacts ==
  ASSUME NEW S \in SUBSET Indices
  PROVE  MaxOf(S) \in 0..MaxIndex /\ \A i \in S : i <= MaxOf(S)
<1>1. CASE S = {}
  BY <1>1, Sizes DEF MaxOf
<1>2. CASE S # {}
  <2> DEFINE T == {MaxIndex - i : i \in S}
  <2>0. \A i \in S : MaxIndex - i \in Nat /\ i \in Nat /\ i <= MaxIndex
    BY Sizes DEF Indices
  <2>1. T \subseteq Nat /\ T # {}
    BY <1>2, <2>0
  <2>2. PICK x \in T : \A y \in T : x <= y
    BY <2>1, Smallest
  <2>3. PICK m \in S : x = MaxIndex - m
    BY <2>2
  <2>4. \A n \in S : n <= m
    <3> SUFFICES ASSUME NEW n \in S PROVE n <= m
      OBVIOUS
    <3>1. x <= MaxIndex - n
      BY <2>2
    <3> HIDE DEF T
    <3> QED BY <2>0, <2>3, <3>1, Sizes
  <2>5. \E k \in S : \A n \in S : n <= k
    BY <2>3, <2>4
  <2> HIDE DEF T
  <2>6. MaxOf(S) \in S /\ \A n \in S : n <= MaxOf(S)
    BY <1>2, <2>5, Zenon DEF MaxOf
  <2> QED BY <2>0, <2>6, Sizes
<1> QED BY <1>1, <1>2

\* Every record read back is a line, and every event is read back as it is.
LEMMA ReadBackFacts ==
  ASSUME NEW s \in Seq(Lines)
  PROVE  /\ ReadBack(s) \in Seq(Records) /\ DOMAIN ReadBack(s) = DOMAIN s
         /\ \A p \in DOMAIN s : s[p] \in Events => ReadBack(s)[p] = s[p]
<1>1. \A p \in DOMAIN s : s[p] \in Lines
  OBVIOUS
<1>2. \A x \in Lines : (IF x = Torn THEN Garbled ELSE x) \in Records
  BY DEF Lines, Records
<1>3. Torn \notin Events
  BY Sizes DEF Torn, Events
<1>4. DOMAIN s = 1..Len(s) /\ Len(s) \in Nat
  OBVIOUS
<1>5. ReadBack(s) \in [1..Len(s) -> Records]
  BY <1>1, <1>2, <1>4 DEF ReadBack
<1>6. ReadBack(s) \in Seq(Records)
  BY <1>4, <1>5
<1> QED BY <1>3, <1>6 DEF ReadBack

\* One step of load_wal: what it has after the segment i, from what it had
\* before.
Gathered(read, f, i) ==
  IF i = 0 THEN <<>>
  ELSE IF i \in DOMAIN read
  THEN f[i - 1] \o ReadBack(SubSeq(segs[i], 1, read[i]))
  ELSE f[i - 1]

UpTo(read) == CHOOSE f : f = [i \in 0..MaxIndex |-> Gathered(read, f, i)]

\* The recursion of load_wal has a solution.
LEMMA UpToDef ==
  ASSUME NEW read
  PROVE  UpTo(read) = [i \in 0..MaxIndex |-> Gathered(read, UpTo(read), i)]
<1> DEFINE B(f, i) == Gathered(read, f, i)
           Solved(n) == \E f : f = [i \in 0..n |-> B(f, i)]
           T == {n \in Nat : ~Solved(n)}
<1>a. \A f, g, i : f[i - 1] = g[i - 1] => B(f, i) = B(g, i)
  BY DEF Gathered
<1>b. \A f, g : B(f, 0) = B(g, 0)
  BY DEF Gathered
<1> HIDE DEF B
<1>1. Solved(0)
  <2> DEFINE g == [i \in 0..0 |-> B(<<>>, i)]
  <2>1. \A i \in 0..0 : i = 0
    OBVIOUS
  <2>2. g = [i \in 0..0 |-> B(g, i)]
    BY <1>b, <2>1
  <2> QED BY <2>2
<1>2. ASSUME NEW n \in Nat, Solved(n) PROVE Solved(n + 1)
  <2>1. PICK f : f = [i \in 0..n |-> B(f, i)]
    BY <1>2
  <2> DEFINE g == [i \in 0..(n + 1) |-> IF i = n + 1 THEN B(f, i) ELSE f[i]]
  <2>2. ASSUME NEW i \in 0..(n + 1) PROVE g[i] = B(g, i)
    <3>1. CASE i = 0
      BY <1>b, <2>1, <3>1
    <3>2. CASE i # 0
      <4>1. i - 1 \in 0..n /\ i - 1 \in 0..(n + 1) /\ i - 1 # n + 1
        BY <3>2
      <4>2. g[i - 1] = f[i - 1]
        BY <4>1
      <4>3. g[i] = B(f, i)
        <5>1. CASE i = n + 1
          BY <5>1
        <5>2. CASE i # n + 1
          <6>1. i \in 0..n
            BY <5>2
          <6> QED BY <2>1, <5>2, <6>1
        <5> QED BY <5>1, <5>2
      <4> QED BY <1>a, <4>2, <4>3
    <3> QED BY <3>1, <3>2
  <2>3. g = [i \in 0..(n + 1) |-> B(g, i)]
    BY <2>2
  <2> HIDE DEF g
  <2> QED BY <2>3
<1> HIDE DEF Solved
<1>3. T = {}
  <2> SUFFICES ASSUME T # {} PROVE FALSE
    OBVIOUS
  <2>1. PICK x \in T : \A y \in T : x <= y
    BY Smallest
  <2>2. x \in Nat /\ x # 0
    BY <1>1
  <2>3. x - 1 \in Nat /\ x - 1 \notin T
    BY <2>1, <2>2
  <2>4. Solved((x - 1) + 1)
    BY <1>2, <2>3
  <2> QED BY <2>1, <2>2, <2>4
<1>4. Solved(MaxIndex)
  BY <1>3, Sizes
<1> QED BY <1>4 DEF UpTo, Solved, B

\* load_wal returns records only, every event it reads is among them, and
\* nothing is when the segments are empty.
LEMMA LoadedFacts ==
  ASSUME TypeOK, NEW read, DOMAIN read \subseteq dir,
         \A i \in DOMAIN read : read[i] \in 0..Len(segs[i])
  PROVE  /\ Loaded(read) \in Seq(Records)
         /\ EventsRead(read) \subseteq Elems(Loaded(read))
         /\ LinesOf(dir) = {} => Loaded(read) = <<>>
<1> DEFINE f == UpTo(read)
           Below(n) == {i \in DOMAIN read : i <= n}
           Lot(i) == {segs[i][p] : p \in 1..read[i]}
           Got(n) == UNION {Lot(i) : i \in Below(n)}
           Right(n) == /\ f[n] \in Seq(Records)
                       /\ Got(n) \cap Events \subseteq Elems(f[n])
                       /\ LinesOf(dir) = {} => f[n] = <<>>
           T == {n \in 0..MaxIndex : ~Right(n)}
<1>0. /\ segs \in [Indices -> Seq(Lines)] /\ dir \subseteq Indices
      /\ MaxIndex \in Nat \ {0} /\ Indices = 1..MaxIndex
  BY Sizes DEF TypeOK, Indices
<1>a. \A i \in DOMAIN read : i \in Nat /\ 1 <= i /\ i <= MaxIndex
  <2> SUFFICES ASSUME NEW i \in DOMAIN read
               PROVE  i \in Nat /\ 1 <= i /\ i <= MaxIndex
    OBVIOUS
  <2>1. i \in 1..MaxIndex
    BY <1>0, Zenon
  <2> QED BY <1>0, <2>1
<1>1. /\ f[0] = <<>>
      /\ \A i \in 1..MaxIndex :
           f[i] = IF i \in DOMAIN read
                  THEN f[i - 1] \o ReadBack(SubSeq(segs[i], 1, read[i]))
                  ELSE f[i - 1]
  <2>1. ASSUME NEW i \in 0..MaxIndex
        PROVE  f[i] = Gathered(read, f, i)
    BY UpToDef, Zenon
  <2> HIDE DEF f
  <2>2. 0 \in 0..MaxIndex /\ 1..MaxIndex \subseteq 0..MaxIndex
        /\ \A i \in 1..MaxIndex : i # 0
    BY Sizes
  <2> QED BY <2>1, <2>2 DEF Gathered
<1>b. Loaded(read) = f[MaxIndex]
  BY DEF Loaded, UpTo, Gathered
<1> HIDE DEF f
<1>2. Right(0)
  <2>1. Below(0) = {}
    BY <1>a
  <2>2. Got(0) = {}
    BY <2>1
  <2> QED BY <1>1, <2>2
<1>3. ASSUME NEW i \in 1..MaxIndex, Right(i - 1) PROVE Right(i)
  <2>0. i - 1 \in Nat /\ i \in Indices
    BY <1>0
  <2>1. CASE i \notin DOMAIN read
    <3>1. Below(i) = Below(i - 1)
      BY <1>a, <2>1, <2>0
    <3>2. f[i] = f[i - 1]
      BY <1>1, <2>1
    <3> QED BY <1>3, <3>1, <3>2
  <2>2. CASE i \in DOMAIN read
    <3> DEFINE a == f[i - 1]
               c == SubSeq(segs[i], 1, read[i])
               b == ReadBack(c)
    <3>1. f[i] = a \o b
      BY <1>1, <2>2
    <3>2. /\ segs[i] \in Seq(Lines) /\ read[i] \in Nat
          /\ read[i] <= Len(segs[i])
      BY <1>0, <2>0, <2>2
    <3>3. /\ c \in Seq(Lines) /\ DOMAIN c = 1..read[i]
          /\ \A p \in 1..read[i] : c[p] = segs[i][p]
      <4>1. /\ read[i] - 1 + 1 = read[i] /\ 1 <= read[i] + 1
            /\ \A p \in 1..read[i] : 1 + p - 1 = p
        BY <3>2
      <4> QED BY <3>2, <4>1, Piece
    <3> HIDE DEF c
    <3>4. /\ b \in Seq(Records) /\ DOMAIN b = DOMAIN c
          /\ \A p \in DOMAIN c : c[p] \in Events => b[p] = c[p]
      BY <3>3, ReadBackFacts
    <3>5. a \in Seq(Records)
      BY <1>3
    <3> HIDE DEF a, b
    <3>6. /\ a \o b \in Seq(Records) /\ Len(a \o b) = Len(a) + Len(b)
          /\ DOMAIN (a \o b) = 1..(Len(a) + Len(b))
          /\ DOMAIN a = 1..Len(a) /\ DOMAIN b = 1..Len(b)
          /\ Len(a) \in Nat /\ Len(b) \in Nat
          /\ \A p \in 1..Len(a) : (a \o b)[p] = a[p]
          /\ \A p \in 1..Len(b) : (a \o b)[Len(a) + p] = b[p]
      BY <3>4, <3>5
    <3>7. \A p \in 1..Len(b) : Len(a) + p \in 1..(Len(a) + Len(b))
      BY <3>6
    <3>8. \A p \in 1..Len(a) : p \in 1..(Len(a) + Len(b))
      BY <3>6
    <3>9. Elems(a) \cup Elems(b) \subseteq Elems(a \o b)
      BY <3>6, <3>7, <3>8 DEF Elems
    <3>10. Below(i) = Below(i - 1) \cup {i}
      <4>1. \A j \in DOMAIN read : j <= i <=> j <= i - 1 \/ j = i
        BY <1>a, <2>2
      <4>2. i <= i
        BY <1>a, <2>2
      <4> QED BY <2>2, <4>1, <4>2
    <3>11. Got(i) = Got(i - 1) \cup Lot(i)
      BY <3>10
    <3>12. Lot(i) \cap Events \subseteq Elems(b)
      BY <3>3, <3>4 DEF Elems
    <3>13. Got(i - 1) \cap Events \subseteq Elems(a)
      BY <1>3 DEF a
    <3>14. Got(i) \cap Events \subseteq Elems(f[i])
      <4> HIDE DEF Got, Lot
      <4> QED BY <3>1, <3>9, <3>11, <3>12, <3>13
    <3>15. ASSUME LinesOf(dir) = {} PROVE f[i] = <<>>
      <4>1. a = <<>>
        BY <1>3, <3>15 DEF a
      <4>2. DOMAIN segs[i] = {}
        <5> SUFFICES ASSUME NEW p \in DOMAIN segs[i] PROVE FALSE
          OBVIOUS
        <5>1. i \in dir
          BY <2>2
        <5>2. segs[i][p] \in LinesOf(dir)
          BY <5>1 DEF LinesOf
        <5> QED BY <3>15, <5>2
      <4>3. Len(segs[i]) = 0
        <5>1. DOMAIN segs[i] = 1..Len(segs[i]) /\ Len(segs[i]) \in Nat
          BY <3>2
        <5>2. Len(segs[i]) # 0 => 1 \in 1..Len(segs[i])
          BY <5>1
        <5> QED BY <4>2, <5>1, <5>2
      <4>4. 1..read[i] = {}
        BY <3>2, <4>3
      <4>5. DOMAIN b = {}
        BY <3>3, <3>4, <4>4, Zenon
      <4>6. b = <<>>
        BY <3>4, <4>5
      <4> QED BY <3>1, <4>1, <4>6
    <3> HIDE DEF Got
    <3> QED BY <3>1, <3>6, <3>14, <3>15
  <2> QED BY <2>1, <2>2
<1> HIDE DEF Right
<1>4. T = {}
  <2> SUFFICES ASSUME T # {} PROVE FALSE
    OBVIOUS
  <2>1. T \subseteq Nat
    BY <1>0
  <2>2. PICK x \in T : \A y \in T : x <= y
    BY <2>1, Smallest
  <2>3. x \in 1..MaxIndex /\ x # 0
    BY <1>0, <1>2
  <2>4. x - 1 \in 0..MaxIndex /\ ~(x <= x - 1)
    BY <1>0, <2>3
  <2>5. Right(x - 1)
    BY <2>2, <2>4
  <2>6. Right(x)
    BY <1>3, <2>3, <2>5
  <2> QED BY <2>2, <2>6
<1>5. Right(MaxIndex)
  BY <1>0, <1>4
<1>6. Below(MaxIndex) = DOMAIN read
  BY <1>a
<1> HIDE DEF Below
<1>7. EventsRead(read) = Got(MaxIndex) \cap Events
  <2> DEFINE All(S) == UNION {Lot(i) : i \in S}
  <2>1. EventsRead(read) = All(DOMAIN read) \cap Events
    BY DEF EventsRead
  <2>2. Got(MaxIndex) = All(Below(MaxIndex))
    OBVIOUS
  <2> HIDE DEF All, Got
  <2> QED BY <1>6, <2>1, <2>2
<1> QED BY <1>5, <1>7, <1>b DEF Right

\* How many pieces of at most S lines L lines make, and where they begin.
LEMMA PieceBounds ==
  ASSUME NEW L \in Nat, NEW S \in Nat \ {0}, NEW n,
         n = IF L = 0 THEN 1 ELSE (L + S - 1) \div S
  PROVE  /\ n \in Nat \ {0}
         /\ \A k \in 1..n : /\ (k - 1) * S \in Nat /\ k * S \in Nat
                            /\ (k - 1) * S <= L /\ (k - 1) * S <= k * S
         /\ \A p \in 1..L :
              \E k \in 1..n : (k - 1) * S + 1 <= p /\ p <= k * S
<1>1. n \in Nat \ {0}
  <2>1. CASE L = 0
    BY <2>1
  <2>2. CASE L # 0
    BY <2>2
  <2> QED BY <2>1, <2>2
<1>2. ASSUME NEW k \in 1..n
      PROVE  /\ (k - 1) * S \in Nat /\ k * S \in Nat
             /\ (k - 1) * S <= L /\ (k - 1) * S <= k * S
  <2>1. k \in Nat /\ k - 1 \in Nat /\ k <= n
    BY <1>1
  <2>2. (k - 1) * S \in Nat /\ k * S \in Nat /\ (k - 1) * S <= k * S
    BY <2>1
  <2>3. (k - 1) * S <= L
    <3>1. CASE L = 0
      BY <2>1, <3>1
    <3>2. CASE L # 0
      <4>1. n = (L + S - 1) \div S
        BY <3>2
      <4>2. n * S <= L + S - 1
        BY <4>1
      <4>3. (k - 1) * S <= (n - 1) * S
        BY <1>1, <2>1
      <4>4. (n - 1) * S = n * S - S
        BY <1>1
      <4> QED BY <1>1, <2>1, <4>2, <4>3, <4>4
    <3> QED BY <3>1, <3>2
  <2> QED BY <2>2, <2>3
<1>3. ASSUME NEW p \in 1..L
      PROVE  \E k \in 1..n : (k - 1) * S + 1 <= p /\ p <= k * S
  <2> DEFINE k == (p - 1) \div S + 1
  <2>1. L # 0
    OBVIOUS
  <2>2. k \in 1..n
    BY <2>1
  <2>3. ((p - 1) \div S) * S + 1 <= p /\ p <= ((p - 1) \div S + 1) * S
    OBVIOUS
  <2>4. k - 1 = (p - 1) \div S
    OBVIOUS
  <2> QED BY <2>2, <2>3, <2>4
<1> QED BY <1>1, <1>2, <1>3

\* The segments of a sequence of records hold exactly its records.
LEMMA ChunksFacts ==
  ASSUME NEW s \in Seq(Records)
  PROVE  /\ Chunks(s) \in Seq(Seq(Records)) /\ Len(Chunks(s)) > 0
         /\ Elems(s) = UNION {Elems(Chunks(s)[k]) : k \in DOMAIN Chunks(s)}
<1> DEFINE L == Len(s)
           S == SegmentLines
           n == IF L = 0 THEN 1 ELSE (L + S - 1) \div S
           last(k) == IF k * S < L THEN k * S ELSE L
           piece(k) == SubSeq(s, (k - 1) * S + 1, last(k))
           c == [k \in 1..n |-> piece(k)]
<1>1. Chunks(s) = c
  <2>1. s = <<>> <=> L = 0
    OBVIOUS
  <2> QED BY <2>1 DEF Chunks
<1>2. L \in Nat /\ S \in Nat \ {0} /\ DOMAIN s = 1..L
  BY Sizes
<1>3. /\ n \in Nat \ {0}
      /\ \A k \in 1..n : /\ (k - 1) * S \in Nat /\ k * S \in Nat
                         /\ (k - 1) * S <= L /\ (k - 1) * S <= k * S
      /\ \A p \in 1..L :
           \E k \in 1..n : (k - 1) * S + 1 <= p /\ p <= k * S
  <2> HIDE DEF L, S
  <2> QED BY <1>2, PieceBounds
<1> HIDE DEF n, S
<1>4. ASSUME NEW k \in 1..n
      PROVE  /\ piece(k) \in Seq(Records)
             /\ DOMAIN piece(k) = 1..(last(k) - (k - 1) * S)
             /\ \A p \in 1..(last(k) - (k - 1) * S) :
                  /\ piece(k)[p] = s[(k - 1) * S + p]
                  /\ (k - 1) * S + p \in 1..L
  <2> DEFINE b == (k - 1) * S
             t == last(k)
  <2>1. b \in Nat /\ t \in Nat /\ b <= t /\ t <= L
    BY <1>2, <1>3
  <2> HIDE DEF b, t
  <2>2. b + 1 \in Nat \ {0} /\ t - (b + 1) + 1 = t - b /\ b + 1 <= t + 1
        /\ \A p \in 1..(t - b) : (b + 1) + p - 1 = b + p /\ b + p \in 1..L
    BY <1>2, <2>1
  <2> HIDE DEF L
  <2>3. /\ SubSeq(s, b + 1, t) \in Seq(Records)
        /\ DOMAIN SubSeq(s, b + 1, t) = 1..(t - b)
        /\ \A p \in 1..(t - b) : SubSeq(s, b + 1, t)[p] = s[b + p]
    BY <2>1, <2>2, Piece DEF L
  <2> QED BY <2>2, <2>3 DEF b, t
<1> HIDE DEF piece
<1>5. c \in Seq(Seq(Records)) /\ Len(c) = n /\ DOMAIN c = 1..n
  BY <1>3, <1>4
<1>a. \A k \in 1..n : c[k] = piece(k)
  OBVIOUS
<1> HIDE DEF c
<1>6. Elems(s) \subseteq UNION {Elems(c[k]) : k \in DOMAIN c}
  <2> SUFFICES ASSUME NEW x \in Elems(s)
               PROVE  \E k \in DOMAIN c : x \in Elems(c[k])
    OBVIOUS
  <2>0. PICK p \in 1..L : s[p] = x
    BY <1>2 DEF Elems
  <2>1. PICK k \in 1..n : (k - 1) * S + 1 <= p /\ p <= k * S
    BY <1>3
  <2> DEFINE b == (k - 1) * S
             q == p - b
  <2>2. b \in Nat /\ last(k) \in Nat /\ p <= last(k) /\ b + 1 <= p
    BY <1>2, <1>3, <2>1
  <2> HIDE DEF b, last
  <2>3. q \in 1..(last(k) - b) /\ b + q = p
    BY <1>2, <2>2
  <2>4. piece(k)[q] = s[p] /\ q \in DOMAIN piece(k)
    BY <1>4, <2>3 DEF b
  <2>5. x \in Elems(piece(k))
    BY <2>0, <2>4 DEF Elems
  <2> QED BY <1>5, <1>a, <2>5
<1>7. UNION {Elems(c[k]) : k \in DOMAIN c} \subseteq Elems(s)
  <2> SUFFICES ASSUME NEW k \in 1..n, NEW p \in DOMAIN piece(k)
               PROVE  piece(k)[p] \in Elems(s)
    BY <1>5, <1>a DEF Elems
  <2> QED BY <1>2, <1>4 DEF Elems
<1> QED BY <1>1, <1>3, <1>5, <1>6, <1>7

\* How often a batch holds an event.
LEMMA CountFacts ==
  ASSUME NEW s \in Seq(Records), NEW e
  PROVE  LET c == Cardinality({p \in DOMAIN s : s[p] = e})
         IN  /\ c \in Nat
             /\ e \in Elems(s) <=> c > 0
             /\ (\A p, q \in DOMAIN s : s[p] = s[q] => p = q) => c <= 1
<1> DEFINE T == {p \in DOMAIN s : s[p] = e}
<1>1. DOMAIN s = 1..Len(s) /\ Len(s) \in Nat
  OBVIOUS
<1>2. IsFiniteSet(1..Len(s))
  BY <1>1, FS_Interval
<1>3. IsFiniteSet(T)
  BY <1>1, <1>2, FS_Subset
<1>4. Cardinality(T) \in Nat /\ (Cardinality(T) = 0 <=> T = {})
  BY <1>3, FS_CardinalityType, FS_EmptySet
<1>5. e \in Elems(s) <=> T # {}
  BY DEF Elems
<1>6. ASSUME \A p, q \in DOMAIN s : s[p] = s[q] => p = q
      PROVE  Cardinality(T) <= 1
  <2>1. CASE T = {}
    BY <1>4, <2>1
  <2>2. CASE T # {}
    <3>1. PICK p \in T : TRUE
      BY <2>2
    <3>2. T = {p}
      BY <1>6, <3>1
    <3> HIDE DEF T
    <3>3. Cardinality(T) = 1
      BY <3>2, FS_Singleton, Zenon
    <3> QED BY <3>3
  <2> QED BY <2>1, <2>2
<1> QED BY <1>4, <1>5, <1>6

\* What remains of pending_ after a rewrite.
LEMMA RemainingFacts ==
  ASSUME TypeOK, rw.acked <= Len(pending)
  PROVE  /\ Remaining \in Seq(Records)
         /\ DOMAIN Remaining = 1..(Len(pending) - rw.acked)
         /\ \A p \in DOMAIN Remaining :
              /\ Remaining[p] = pending[rw.acked + p]
              /\ rw.acked + p \in DOMAIN pending
         /\ \A p \in DOMAIN pending :
              p > rw.acked => pending[p] \in Elems(Remaining)
         /\ Elems(Remaining) \subseteq Elems(pending)
<1> DEFINE a == rw.acked
           L == Len(pending)
<1>1. /\ pending \in Seq(Records) /\ a \in Nat /\ L \in Nat /\ a <= L
      /\ DOMAIN pending = 1..L
  BY DEF TypeOK
<1> HIDE DEF a, L
<1>2. /\ a + 1 \in Nat \ {0} /\ a + 1 <= L + 1 /\ L - (a + 1) + 1 = L - a
      /\ \A p \in 1..(L - a) : (a + 1) + p - 1 = a + p /\ a + p \in 1..L
      /\ \A p \in 1..L : p > a => p - a \in 1..(L - a) /\ a + (p - a) = p
  BY <1>1
<1>3. Remaining = SubSeq(pending, a + 1, L)
  BY DEF Remaining, a, L
<1>4. L <= Len(pending)
  BY <1>1 DEF L
<1>5. /\ Remaining \in Seq(Records) /\ DOMAIN Remaining = 1..(L - a)
      /\ \A p \in 1..(L - a) : Remaining[p] = pending[a + p]
  BY <1>1, <1>2, <1>3, <1>4, Piece
<1>6. \A p \in 1..L : p > a => pending[p] \in Elems(Remaining)
  BY <1>2, <1>5 DEF Elems
<1>7. Elems(Remaining) \subseteq Elems(pending)
  BY <1>1, <1>2, <1>5 DEF Elems
<1> QED BY <1>1, <1>2, <1>5, <1>6, <1>7 DEF a, L

\* A batch is a beginning of pending_.
LEMMA BatchFacts ==
  ASSUME TypeOK
  PROVE  /\ Batch \in Seq(Records) /\ Len(Batch) \in 0..Len(pending)
         /\ DOMAIN Batch = 1..Len(Batch)
         /\ \A p \in 1..Len(Batch) : Batch[p] = pending[p]
         /\ pending # <<>> => Len(Batch) > 0
<1> DEFINE n == IF Len(pending) < BatchSize THEN Len(pending) ELSE BatchSize
<1>1. pending \in Seq(Records)
  BY DEF TypeOK
<1>2. n \in Nat /\ n <= Len(pending) /\ n \in 0..Len(pending)
      /\ (pending # <<>> => n > 0)
  BY <1>1, Sizes
<1>3. Batch = SubSeq(pending, 1, n)
  BY DEF Batch
<1> HIDE DEF n
<1>4. 1 <= n + 1 /\ n - 1 + 1 = n /\ \A p \in 1..n : 1 + p - 1 = p
  BY <1>2
<1>5. /\ Batch \in Seq(Records) /\ Len(Batch) = n /\ DOMAIN Batch = 1..n
      /\ \A p \in 1..n : Batch[p] = pending[p]
  BY <1>1, <1>2, <1>3, <1>4, Piece
<1> QED BY <1>2, <1>5

\* What the server has seen after a batch.
LEMMA ServerSeesFacts ==
  ASSUME TypeOK, ServerSees
  PROVE  /\ deliveries' \in [Events -> Nat]
         /\ received' = received \cup (Elems(Batch) \cap Events)
         /\ \A e \in Events \ Elems(Batch) : deliveries'[e] = deliveries[e]
         /\ (\A p, q \in DOMAIN pending : pending[p] = pending[q] => p = q) =>
              \A e \in Events : deliveries'[e] <= deliveries[e] + 1
<1> DEFINE c(e) == Cardinality({p \in DOMAIN Batch : Batch[p] = e})
<1>1. deliveries \in [Events -> Nat] /\ Batch \in Seq(Records)
  BY BatchFacts DEF TypeOK
<1>2. ASSUME NEW e \in Events
      PROVE  /\ c(e) \in Nat /\ (e \in Elems(Batch) <=> c(e) > 0)
             /\ (\A p, q \in DOMAIN Batch : Batch[p] = Batch[q] => p = q)
                  => c(e) <= 1
  BY <1>1, CountFacts
<1>3. deliveries' = [e \in Events |-> deliveries[e] + c(e)]
  BY DEF ServerSees
<1> HIDE DEF c
<1>4. deliveries' \in [Events -> Nat]
  BY <1>1, <1>2, <1>3
<1>5. \A e \in Events : deliveries'[e] > 0
                          <=> deliveries[e] > 0 \/ e \in Elems(Batch)
  BY <1>1, <1>2, <1>3
<1>6. received' = received \cup (Elems(Batch) \cap Events)
  BY <1>5 DEF received
<1>7. \A e \in Events \ Elems(Batch) : deliveries'[e] = deliveries[e]
  BY <1>1, <1>2, <1>3
<1>8. ASSUME \A p, q \in DOMAIN pending : pending[p] = pending[q] => p = q
      PROVE  \A e \in Events : deliveries'[e] <= deliveries[e] + 1
  <2>1. \A p, q \in DOMAIN Batch : Batch[p] = Batch[q] => p = q
    <3>1. pending \in Seq(Records) /\ DOMAIN pending = 1..Len(pending)
      BY DEF TypeOK
    <3>2. DOMAIN Batch \subseteq DOMAIN pending
      BY <3>1, BatchFacts
    <3> QED BY <1>8, <3>2, BatchFacts
  <2>2. \A e \in Events : c(e) <= 1
    BY <1>2, <2>1
  <2> QED BY <1>1, <1>2, <1>3, <2>2
<1> QED BY <1>4, <1>6, <1>7, <1>8

\* What writing a line to a segment does to the log.
LEMMA WriteLineFacts ==
  ASSUME TypeInv, NEW i \in Indices, NEW x \in Lines, WriteLine(i, x),
         wal'.index \in Nat, wal.index <= wal'.index, i < wal'.index
  PROVE  /\ segs' \in [Indices -> Seq(Lines)] /\ dir' \subseteq Indices
         /\ synced' \in [Indices -> Nat] /\ ddir' \subseteq Indices
         /\ \A j \in Indices : synced'[j] <= Len(segs'[j])
         /\ x # Torn /\ (\A j \in Indices : Torn \notin Elems(segs[j])) =>
              \A j \in Indices : Torn \notin Elems(segs'[j])
         /\ Torn \notin LinesOf(dir) =>
              /\ LinesOf(dir)' = LinesOf(dir) \cup {x}
              /\ LinesOf(Lower) \cup {x} \subseteq LinesOf(Lower)'
         /\ OnMedium(Lower \cap ddir) \cap Events
              \subseteq OnMedium(Lower \cap ddir)'
<1> DEFINE s == IF i \in dir THEN segs[i] ELSE <<>>
           t == Appended(s, x)
<1>0. /\ segs \in [Indices -> Seq(Lines)] /\ dir \subseteq Indices
      /\ synced \in [Indices -> Nat]
      /\ \A j \in Indices : synced[j] <= Len(segs[j])
      /\ ddir \subseteq Indices /\ wal.index \in Nat
  BY DEF TypeInv, TypeOK
<1>1. s \in Seq(Lines)
  BY <1>0
<1>2. /\ t \in Seq(Lines) /\ Len(s) <= Len(t)
      /\ \A p \in DOMAIN s : s[p] # Torn => t[p] = s[p]
      /\ Torn \notin Elems(s) => Elems(t) = Elems(s) \cup {x}
  BY <1>1, AppendedFacts
<1>3. /\ segs' = [segs EXCEPT ![i] = t] /\ dir' = dir \cup {i}
      /\ synced' = [synced EXCEPT ![i] = IF i \in dir THEN @ ELSE 0]
      /\ ddir' = IF i \in dir THEN ddir ELSE ddir \ {i}
  BY DEF WriteLine
<1>4. /\ i \in dir => s = segs[i]
      /\ i \notin dir => s = <<>> /\ Elems(s) = {}
  BY DEF Elems
<1>a. \A j \in Indices : segs[j] \in Seq(Lines) /\ synced[j] \in Nat
  BY <1>0
<1> HIDE DEF t, s
<1>5. /\ segs' \in [Indices -> Seq(Lines)] /\ dir' \subseteq Indices
      /\ synced' \in [Indices -> Nat] /\ ddir' \subseteq Indices
      /\ segs'[i] = t /\ \A j \in Indices : j # i => segs'[j] = segs[j]
      /\ synced'[i] = IF i \in dir THEN synced[i] ELSE 0
      /\ \A j \in Indices : j # i => synced'[j] = synced[j]
  BY <1>0, <1>2, <1>3
<1>6. ASSUME NEW j \in Indices PROVE synced'[j] <= Len(segs'[j])
  <2>1. CASE j # i
    BY <1>0, <1>5, <2>1
  <2>2. CASE j = i /\ i \in dir
    <3>1. synced[i] <= Len(s) /\ Len(s) \in Nat /\ Len(t) \in Nat
      BY <1>0, <1>1, <1>2, <1>4, <2>2
    <3> QED BY <1>2, <1>5, <1>a, <2>2, <3>1
  <2>3. CASE j = i /\ i \notin dir
    BY <1>2, <1>5, <2>3
  <2> QED BY <2>1, <2>2, <2>3
<1>7. ASSUME x # Torn, \A j \in Indices : Torn \notin Elems(segs[j]),
             NEW j \in Indices
      PROVE  Torn \notin Elems(segs'[j])
  <2>1. CASE j # i
    BY <1>5, <1>7, <2>1
  <2>2. CASE j = i
    <3>1. Torn \notin Elems(s)
      BY <1>4, <1>7
    <3>2. Torn \notin Elems(t)
      BY <1>2, <1>7, <3>1
    <3> QED BY <1>5, <2>2, <3>2
  <2> QED BY <2>1, <2>2
<1>8. ASSUME Torn \notin LinesOf(dir)
      PROVE  LinesOf(dir)' = LinesOf(dir) \cup {x}
  <2>1. i \in dir => Elems(segs[i]) \subseteq LinesOf(dir)
    BY DEF LinesOf, Elems
  <2>2. Torn \notin Elems(s)
    BY <1>4, <1>8, <2>1
  <2>3. Elems(segs'[i]) = Elems(s) \cup {x}
    BY <1>2, <1>5, <2>2
  <2>4. LinesOf(dir) = UNION {Elems(segs[j]) : j \in dir}
        /\ LinesOf(dir)' = UNION {Elems(segs'[j]) : j \in dir'}
    BY DEF LinesOf, Elems
  <2>5. \A j \in dir : j # i => Elems(segs'[j]) = Elems(segs[j])
    BY <1>0, <1>5
  <2>6. CASE i \in dir
    <3>1. dir' = dir /\ Elems(segs'[i]) = Elems(segs[i]) \cup {x}
      BY <1>3, <1>4, <2>3, <2>6
    <3> QED BY <2>4, <2>5, <2>6, <3>1
  <2>7. CASE i \notin dir
    <3>1. dir' = dir \cup {i} /\ Elems(segs'[i]) = {x}
      BY <1>3, <1>4, <2>3, <2>7
    <3>2. \A j \in dir : Elems(segs'[j]) = Elems(segs[j])
      BY <2>5, <2>7
    <3> QED BY <2>4, <3>1, <3>2
  <2> QED BY <2>6, <2>7
<1>b. Lower \subseteq Lower' /\ i \in Lower'
  <2>1. \A j \in Indices : j \in Nat
    BY DEF Indices
  <2>2. \A j \in Indices : j < wal.index => j < wal'.index
    BY <1>0, <2>1
  <2> QED BY <1>0, <1>3, <2>2 DEF Lower
<1>c. ASSUME Torn \notin LinesOf(dir)
      PROVE  LinesOf(Lower) \cup {x} \subseteq LinesOf(Lower)'
  <2>1. i \in dir => Elems(segs[i]) \subseteq LinesOf(dir)
    BY DEF LinesOf, Elems
  <2>2. Torn \notin Elems(s)
    BY <1>4, <1>c, <2>1
  <2>3. Elems(segs'[i]) = Elems(s) \cup {x}
    BY <1>2, <1>5, <2>2
  <2>4. LinesOf(Lower) = UNION {Elems(segs[j]) : j \in Lower}
        /\ LinesOf(Lower)' = UNION {Elems(segs'[j]) : j \in Lower'}
    BY DEF LinesOf, Elems
  <2>5. \A j \in Lower : Elems(segs[j]) \subseteq Elems(segs'[j])
    <3>1. \A j \in Lower : j \in dir /\ j \in Indices
      BY <1>0 DEF Lower
    <3> QED BY <1>4, <1>5, <2>3, <3>1
  <2> QED BY <1>b, <2>3, <2>4, <2>5
<1>9. OnMedium(Lower \cap ddir) \cap Events
        \subseteq OnMedium(Lower \cap ddir)'
  <2>0. Lower \cap ddir \subseteq Lower' \cap ddir'
    BY <1>3, <1>b DEF Lower
  <2> SUFFICES ASSUME NEW j \in Lower \cap ddir, NEW p \in 1..synced[j],
                      segs[j][p] \in Events
               PROVE  p \in 1..synced'[j] /\ segs'[j][p] = segs[j][p]
    BY <2>0 DEF OnMedium
  <2>a. j \in dir /\ j \in Indices
    BY <1>0 DEF Lower
  <2>1. CASE j # i
    BY <1>5, <2>1, <2>a
  <2>2. CASE j = i
    <3>1. s = segs[i] /\ synced[i] <= Len(s) /\ synced'[i] = synced[i]
      BY <1>0, <1>4, <1>5, <2>2, <2>a
    <3>2. p \in DOMAIN s
      BY <1>1, <1>a, <2>2, <3>1
    <3>3. segs[j][p] # Torn
      BY Sizes DEF Events, Torn
    <3> QED BY <1>2, <1>5, <2>2, <3>1, <3>2, <3>3
  <2> QED BY <2>1, <2>2
<1> QED BY <1>5, <1>6, <1>7, <1>8, <1>9, <1>c

\* The locals of a rewrite, one by one.
LEMMA RwFields ==
  ASSUME TypeOK
  PROVE  /\ rw.acked \in Nat /\ rw.staged \in Seq(Seq(Records))
         /\ rw.base \in Nat /\ rw.done \in Nat /\ rw.old \in SUBSET Indices
         /\ rw = [acked |-> rw.acked, staged |-> rw.staged, base |-> rw.base,
                  done |-> rw.done, old |-> rw.old]
BY DEF TypeOK

\* A caller that is not in a rewrite.
LEMMA NoRewriteFacts ==
  /\ NoRewrite \in [acked : Nat, staged : Seq(Seq(Records)), base : Nat,
                    done : Nat, old : SUBSET Indices]
  /\ NoRewrite.acked = 0 /\ NoRewrite.done = 0
  /\ \A n \in Nat :
       /\ [NoRewrite EXCEPT !.acked = n]
            \in [acked : Nat, staged : Seq(Seq(Records)), base : Nat,
                 done : Nat, old : SUBSET Indices]
       /\ [NoRewrite EXCEPT !.acked = n].acked = n
       /\ [NoRewrite EXCEPT !.acked = n].done = 0
<1>1. \A n \in Nat : [NoRewrite EXCEPT !.acked = n]
        = [acked |-> n, staged |-> <<>>, base |-> 0, done |-> 0, old |-> {}]
  BY DEF NoRewrite
<1>2. <<>> \in Seq(Seq(Records)) /\ {} \in SUBSET Indices
  OBVIOUS
<1>3. \A n \in Nat :
        [acked |-> n, staged |-> <<>>, base |-> 0, done |-> 0, old |-> {}]
          \in [acked : Nat, staged : Seq(Seq(Records)), base : Nat,
               done : Nat, old : SUBSET Indices]
  BY <1>2
<1> QED BY <1>1, <1>3 DEF NoRewrite

\* Initially there is nothing.
LEMMA InitIInv == Init => IInv
<1> SUFFICES ASSUME Init PROVE IInv
  OBVIOUS
<1>1. TypeInv
  <2>1. segs \in [Indices -> Seq(Lines)] /\ synced \in [Indices -> Nat]
    BY DEF Init
  <2>2. \A i \in Indices : segs[i] = <<>> /\ synced[i] = 0
    BY DEF Init
  <2>3. /\ \A i \in Indices : synced[i] <= Len(segs[i])
        /\ \A i \in Indices : Torn \notin Elems(segs[i])
    BY <2>2 DEF Elems
  <2>4. wal \in [current : Nat, size : Nat, index : Nat \ {0}]
    BY DEF Init
  <2>5. /\ next \in 1..(MaxEvents + 1) /\ deliveries \in [Events -> Nat]
        /\ faults \in 0..MaxFaults /\ crashes \in 0..MaxCrashes
    BY NetworkBoundsAssumption DEF Init
  <2>6. /\ rw \in [acked : Nat, staged : Seq(Seq(Records)), base : Nat,
                   done : Nat, old : SUBSET Indices]
        /\ pending \in Seq(Records)
    BY NoRewriteFacts DEF Init
  <2>7. /\ pc = "down" /\ phase = "loop" /\ running \in BOOLEAN
        /\ dir = {} /\ ddir = {} /\ accepted = {} /\ hardened = {}
        /\ forfeited = {} /\ overlooked = {}
    BY DEF Init
  <2>8. TypeOK
    BY <2>1, <2>4, <2>5, <2>6, <2>7 DEF TypeOK
  <2> QED BY <2>3, <2>7, <2>8 DEF TypeInv
<1>2. received = {} /\ Owed = {} /\ LinesOf(dir) = {}
  BY DEF Init, received, Owed, LinesOf
<1>3. OwedInv
  BY <1>2 DEF Init, OwedInv
<1>4. RewriteInv
  BY DEF Init, RewriteInv, Rewriting
<1>5. QuietInv
  BY <1>2 DEF Init, QuietInv, Rewriting, Undelivered
<1> QED BY <1>1, <1>3, <1>4, <1>5 DEF IInv

---------------------------------------------------------------------------
(***************************************************************************)
(* Steps that change neither a segment nor what is pending or owed.        *)
(***************************************************************************)
DataSame == UNCHANGED <<segs, dir, synced, ddir, pending, wal, accepted,
                        deliveries, hardened, forfeited, overlooked>>

\* Nothing is lost by such a step.
LEMMA SameOwed ==
  ASSUME TypeInv, OwedInv, DataSame, pc # "down" \/ pc' = "down"
  PROVE  /\ OwedInv' /\ Owed' = Owed /\ received' = received
         /\ \A i \in Indices : synced'[i] <= Len(segs'[i])
         /\ ~TornAppends => \A i \in Indices : Torn \notin Elems(segs'[i])
<1>1. Lower' = Lower
  BY DEF DataSame, Lower
<1>2. /\ received' = received /\ Owed' = Owed
      /\ LinesOf(Lower)' = LinesOf(Lower)
      /\ OnMedium(Lower \cap ddir)' = OnMedium(Lower \cap ddir)
  BY <1>1 DEF DataSame, received, Owed, LinesOf, OnMedium
<1> QED BY <1>2 DEF OwedInv, TypeInv, DataSame

\* Nor is a first delivery put in doubt.
LEMMA SameQuiet ==
  ASSUME TypeInv, QuietInv, DataSame, faults' = faults, crashes' = crashes,
         next' \in {next, next + 1}, ~Rewriting, pc # "remove",
         pc' \in {"head", "drain", "flush"} \/
           (pc' = "down" /\ (pc = "down" \/ pending = <<>>))
  PROVE  QuietInv'
<1>1. /\ LinesOf(dir)' = LinesOf(dir) /\ ~Rewriting' /\ pc' # "remove"
      /\ pc' \notin {"rename", "publish"}
  BY DEF DataSame, LinesOf, Rewriting
<1>2. next \in Nat /\ \A p \in DOMAIN pending : pending[p] \in Records
  BY DEF TypeInv, TypeOK
<1>3. Events \subseteq Nat
  BY DEF Events
<1> SUFFICES ASSUME faults = 0, crashes = 0 PROVE QuietInv'
  BY DEF QuietInv
<1>4. /\ \A p, q \in DOMAIN pending : pending[p] = pending[q] => p = q
      /\ \A p \in DOMAIN pending : pending[p] \in Events /\ pending[p] < next
      /\ \A e \in Events : deliveries[e] <= 1
      /\ \A e \in Events : e >= next => deliveries[e] = 0
      /\ Undelivered(pending)
      /\ pc = "down" => pending = <<>>
      /\ LinesOf(dir) \subseteq Elems(pending)
  BY DEF QuietInv
<1>5. \A n \in Nat : n < next => n < next'
  BY <1>2
<1>6. \A n \in Nat : n >= next' => n >= next
  BY <1>2
<1>7. /\ pending' = pending /\ deliveries' = deliveries
      /\ Undelivered(pending)' = Undelivered(pending)
      /\ Elems(pending)' = Elems(pending)
  BY DEF DataSame, Undelivered
<1>8. \A p \in DOMAIN pending : pending[p] \in Events /\ pending[p] < next'
  BY <1>3, <1>4, <1>5
<1>9. \A e \in Events : e >= next' => deliveries[e] = 0
  BY <1>3, <1>4, <1>6
<1>10. Undelivered(IF Rewriting THEN Remaining ELSE pending)'
  BY <1>1, <1>4, <1>7
<1> QED BY <1>1, <1>4, <1>7, <1>8, <1>9, <1>10 DEF QuietInv

\* The types after such a step.
LEMMA SameTypes ==
  ASSUME TypeInv, OwedInv, DataSame, pc # "down" \/ pc' = "down",
         running' \in BOOLEAN, phase' \in {"loop", "final"},
         pc' \in {"down", "head", "drain", "flush", "stage", "rename",
                  "publish", "remove"},
         rw' \in [acked : Nat, staged : Seq(Seq(Records)), base : Nat,
                  done : Nat, old : SUBSET Indices],
         next' \in 1..(MaxEvents + 1), faults' \in 0..MaxFaults,
         crashes' \in 0..MaxCrashes
  PROVE  TypeInv'
<1>1. TypeOK'
  BY DEF TypeInv, TypeOK, DataSame
<1>2. pc' # "down" => wal'.current > 0 /\ wal'.current < wal'.index
  BY DEF TypeInv, DataSame
<1> QED BY <1>1, <1>2, SameOwed DEF TypeInv

\* A step that may still fail counts its failure.
LEMMA FaultCounts ==
  ASSUME TypeOK, Fault
  PROVE  faults' \in 0..MaxFaults /\ faults' # 0
BY NetworkBoundsAssumption DEF TypeOK, Fault

\* A call whose answer may be wrong may have failed.
LEMMA AnswerCounts ==
  ASSUME TypeOK, faults' = faults \/ Fault
  PROVE  faults' \in 0..MaxFaults /\ (faults' = faults \/ faults' # 0)
BY FaultCounts DEF TypeOK

\* After a failure QuietInv says nothing.
LEMMA NotQuiet ==
  ASSUME faults' # 0 \/ crashes' # 0
  PROVE  QuietInv'
BY DEF QuietInv

\* Outside a rewrite RewriteInv says nothing.
LEMMA NoRewriting ==
  ASSUME pc' \in {"down", "head", "drain", "flush"}
  PROVE  RewriteInv'
BY DEF RewriteInv, Rewriting

\* A stop leaves everything but the flag alone.
LEMMA StopStep == ASSUME IInv, stop PROVE IInv'
<1>1. /\ DataSame /\ pc # "down" /\ wal' = wal /\ running' \in BOOLEAN
      /\ UNCHANGED <<segs, dir, synced, ddir, pending, wal, pc, phase, rw,
                     next, accepted, deliveries, hardened, forfeited, faults,
                     crashes>>
  BY DEF stop, DataSame, disk, history
<1>2. TypeInv'
  BY <1>1, SameTypes DEF IInv, TypeInv, TypeOK
<1>3. OwedInv' /\ Owed' = Owed /\ received' = received
  BY <1>1, SameOwed DEF IInv
<1>4. /\ Remaining' = Remaining /\ Rewriting' = Rewriting
      /\ OnMedium((Lower \cap ddir) \ rw.old)'
           = OnMedium((Lower \cap ddir) \ rw.old)
      /\ LinesOf(dir)' = LinesOf(dir)
      /\ LinesOf(dir \ rw.old)' = LinesOf(dir \ rw.old)
  BY <1>1 DEF Remaining, Rewriting, OnMedium, LinesOf, Lower
<1>5. RewriteInv'
  BY <1>1, <1>3, <1>4 DEF IInv, RewriteInv
<1>6. Undelivered(IF Rewriting THEN Remaining ELSE pending)'
        = Undelivered(IF Rewriting THEN Remaining ELSE pending)
  BY <1>1, <1>4 DEF Undelivered
<1>7. Elems(pending)' = Elems(pending) /\ Elems(Remaining)' = Elems(Remaining)
  BY <1>1, <1>4
<1>8. QuietInv'
  BY <1>1, <1>4, <1>6, <1>7 DEF IInv, QuietInv
<1> QED BY <1>2, <1>3, <1>5, <1>8 DEF IInv

\* The head of the loop.
LEMMA LoopHeadStep == ASSUME IInv, LoopHead PROVE IInv'
<1>1. /\ DataSame /\ pc = "head" /\ pc' = "drain" /\ wal' = wal
      /\ phase' \in {"loop", "final"}
      /\ UNCHANGED <<running, rw, next, faults, crashes>>
  BY DEF LoopHead, DataSame, disk, history
<1>2. TypeInv'
  BY <1>1, SameTypes DEF IInv, TypeInv, TypeOK
<1>3. OwedInv'
  BY <1>1, SameOwed DEF IInv
<1>4. RewriteInv'
  BY <1>1, NoRewriting
<1>5. QuietInv'
  BY <1>1, SameQuiet DEF IInv, Rewriting
<1> QED BY <1>2, <1>3, <1>4, <1>5 DEF IInv

\* An event that is dropped was never accepted.
LEMMA DropStep == ASSUME IInv, DropOverLimit PROVE IInv'
<1>1. /\ DataSame /\ pc = "drain" /\ pc' = "drain"
      /\ next' = next + 1 /\ next <= MaxEvents
      /\ UNCHANGED <<running, rw, phase, crashes>>
      /\ faults' = faults \/ Fault
  BY DEF DropOverLimit, Pops, Answers, DataSame, disk
<1>2. next' \in 1..(MaxEvents + 1)
  BY <1>1, Sizes DEF IInv, TypeInv, TypeOK
<1>a. faults' \in 0..MaxFaults /\ (faults' = faults \/ faults' # 0)
  BY <1>1, AnswerCounts DEF IInv, TypeInv
<1>3. TypeInv'
  BY <1>1, <1>2, <1>a, SameTypes DEF IInv, TypeInv, TypeOK
<1>4. OwedInv'
  BY <1>1, SameOwed DEF IInv
<1>5. RewriteInv'
  BY <1>1, NoRewriting
<1>6. QuietInv'
  BY <1>1, <1>a, SameQuiet, NotQuiet DEF IInv, Rewriting
<1> QED BY <1>3, <1>4, <1>5, <1>6 DEF IInv

\* With nothing to send the worker goes on, or ends with nothing pending.
LEMMA NoFlushStep == ASSUME IInv, NoFlush PROVE IInv'
<1>1. /\ DataSame /\ pc = "flush" /\ wal' = wal
      /\ pc' \in {"head", "down"} /\ (pc' = "down" => pending = <<>>)
      /\ UNCHANGED <<running, rw, phase, next, faults, crashes>>
  BY DEF NoFlush, DataSame, disk, history
<1>2. TypeInv'
  BY <1>1, SameTypes DEF IInv, TypeInv, TypeOK
<1>3. OwedInv'
  BY <1>1, SameOwed DEF IInv
<1>4. RewriteInv'
  BY <1>1, NoRewriting
<1>5. QuietInv'
  BY <1>1, SameQuiet DEF IInv, Rewriting
<1> QED BY <1>2, <1>3, <1>4, <1>5 DEF IInv

\* A rewrite that fails leaves memory and the old generation as they are.
LEMMA RewriteFailsStep == ASSUME IInv, RewriteFails PROVE IInv'
<1>1. /\ DataSame /\ pc # "down" /\ wal' = wal
      /\ pc' \in {"flush", "head", "down"}
      /\ rw' = NoRewrite /\ Fault
      /\ UNCHANGED <<running, phase, next, crashes>>
  BY DEF RewriteFails, AfterRewrite, DataSame, disk, history
<1>2. TypeInv'
  BY <1>1, SameTypes, NoRewriteFacts, FaultCounts DEF IInv, TypeInv, TypeOK
<1>3. OwedInv'
  BY <1>1, SameOwed DEF IInv
<1>4. RewriteInv' /\ QuietInv'
  BY <1>1, NoRewriting, NotQuiet, FaultCounts DEF IInv, TypeInv
<1> QED BY <1>2, <1>3, <1>4 DEF IInv

\* Once the queues are empty a rewrite may begin that leaves nothing out.
LEMMA DrainedStep ==
  ASSUME IInv, NEW over \in BOOLEAN, Drained(over) PROVE IInv'
<1>0. /\ DataSame /\ pc = "drain"
      /\ \/ pc' = "flush" /\ rw' = rw
         \/ pc' = "stage" /\ rw' = [NoRewrite EXCEPT !.acked = 0]
      /\ UNCHANGED <<running, phase, next, crashes>>
      /\ faults' = faults \/ Fault
  BY DEF Drained, Answers, DataSame, disk, history
<1>a. faults' \in 0..MaxFaults /\ (faults' = faults \/ faults' # 0)
  BY <1>0, AnswerCounts DEF IInv, TypeInv
<1>1. OwedInv'
  BY <1>0, SameOwed DEF IInv
<1>2. CASE pc' = "flush"
  <2>1. rw' = rw
    BY <1>0, <1>2
  <2>2. TypeInv'
    BY <1>0, <1>2, <1>a, <2>1, SameTypes DEF IInv, TypeInv, TypeOK
  <2>3. RewriteInv' /\ QuietInv'
    BY <1>0, <1>2, <1>a, NoRewriting, SameQuiet, NotQuiet DEF IInv, Rewriting
  <2> QED BY <1>1, <2>2, <2>3 DEF IInv
<1>3. CASE pc' = "stage"
  <2>1. /\ rw' \in [acked : Nat, staged : Seq(Seq(Records)), base : Nat,
                    done : Nat, old : SUBSET Indices]
        /\ rw'.acked = 0 /\ rw'.done = 0
    BY <1>0, <1>3, NoRewriteFacts
  <2>2. TypeInv'
    BY <1>0, <1>3, <1>a, <2>1, SameTypes DEF IInv, TypeInv, TypeOK
  <2>3. pending' = pending /\ pending \in Seq(Records)
    BY <1>0 DEF DataSame, IInv, TypeInv, TypeOK
  <2>4. rw'.acked <= Len(pending') /\ 1..rw'.acked = {}
    BY <2>1, <2>3
  <2>5. RewriteInv'
    BY <1>3, <2>1, <2>4 DEF RewriteInv, Rewriting
  <2>6. Remaining' = pending
    BY <2>1, <2>3 DEF Remaining
  <2>7. /\ ~Rewriting /\ Rewriting' /\ LinesOf(dir)' = LinesOf(dir)
        /\ Undelivered(IF Rewriting THEN Remaining ELSE pending)'
             = Undelivered(pending)
        /\ UNCHANGED <<pending, next, deliveries, dir, crashes>>
    BY <1>0, <1>3, <2>6 DEF Rewriting, LinesOf, Undelivered, DataSame
  <2>8. CASE faults' = faults
    <3>1. QuietInv'
      BY <1>0, <1>3, <2>7, <2>8 DEF IInv, QuietInv, Elems
    <3> QED BY <1>1, <2>2, <2>5, <3>1 DEF IInv
  <2>9. CASE faults' # 0
    BY <1>1, <2>2, <2>5, <2>9, NotQuiet DEF IInv
  <2> QED BY <1>a, <2>8, <2>9
<1> QED BY <1>0, <1>2, <1>3

\* What the medium keeps, a restart would load.
LEMMA MediumIsLines ==
  ASSUME TypeInv, NEW S \in SUBSET Indices
  PROVE  OnMedium(S) \subseteq LinesOf(S)
<1> SUFFICES ASSUME NEW i \in S, NEW p \in 1..synced[i]
             PROVE  p \in DOMAIN segs[i]
  BY DEF OnMedium, LinesOf
<1>1. segs[i] \in Seq(Lines) /\ synced[i] \in Nat /\ synced[i] <= Len(segs[i])
  BY DEF TypeInv, TypeOK
<1> QED BY <1>1

\* The lines of fewer segments are fewer.
LEMMA LinesMonotone ==
  ASSUME NEW S, NEW T, S \subseteq T
  PROVE  LinesOf(S) \subseteq LinesOf(T) /\ OnMedium(S) \subseteq OnMedium(T)
BY DEF LinesOf, OnMedium

\* The lower segments are segments, and what is on the medium is in them.
LEMMA LowerFacts ==
  ASSUME TypeInv
  PROVE  /\ Lower \subseteq dir /\ Lower \subseteq Indices
         /\ LinesOf(Lower) \subseteq LinesOf(dir)
         /\ OnMedium(Lower \cap ddir) \subseteq OnMedium(dir \cap ddir)
         /\ OnMedium(Lower \cap ddir) \subseteq LinesOf(Lower)
<1>1. Lower \subseteq dir /\ Lower \subseteq Indices
  BY DEF Lower, TypeInv, TypeOK
<1>2. Lower \cap ddir \subseteq dir \cap ddir /\ Lower \cap ddir \subseteq Lower
  BY <1>1
<1>3. OnMedium(Lower) \subseteq LinesOf(Lower)
  BY <1>1, MediumIsLines
<1>4. OnMedium(Lower \cap ddir) \subseteq OnMedium(Lower)
  BY <1>2, LinesMonotone
<1>5. OnMedium(Lower \cap ddir) \subseteq OnMedium(dir \cap ddir)
  BY <1>2, LinesMonotone
<1>6. LinesOf(Lower) \subseteq LinesOf(dir)
  BY <1>1, LinesMonotone
<1> QED BY <1>1, <1>3, <1>4, <1>5, <1>6

\* The segments an append or a rotation leaves alone keep what they held.
LEMMA LowerGrows ==
  ASSUME TypeInv, UNCHANGED <<segs, dir, synced, ddir>>,
         wal'.index \in Nat, wal.index <= wal'.index
  PROVE  /\ LinesOf(Lower) \subseteq LinesOf(Lower)'
         /\ OnMedium(Lower \cap ddir) \subseteq OnMedium(Lower \cap ddir)'
<1>1. \A j \in Indices : j < wal.index => j < wal'.index
  BY DEF TypeInv, TypeOK, Indices
<1>2. Lower \subseteq Lower'
  BY <1>1 DEF Lower, TypeInv, TypeOK
<1> QED BY <1>2 DEF LinesOf, OnMedium

\* At any time, what is owed would be loaded by a restart that reads all.
LEMMA OwedIsLoaded ==
  ASSUME TypeInv, OwedInv
  PROVE  Owed \subseteq LinesOf(Lower) /\ Owed \subseteq Events
<1>1. CASE ~TornAppends
  BY <1>1 DEF OwedInv, Owed, TypeInv, TypeOK
<1>2. CASE TornAppends
  <2>1. Owed = hardened \ received /\ hardened \subseteq Events
    BY <1>2 DEF Owed, TypeInv, TypeOK
  <2> QED BY <2>1, LowerFacts DEF OwedInv
<1> QED BY <1>1, <1>2

\* What a start may find to read: every segment, or none, each up to a line.
LEMMA ReadingsFacts ==
  ASSUME TypeInv, NEW listed \in {dir, {}}, NEW read \in Readings(listed)
  PROVE  /\ DOMAIN read = listed /\ DOMAIN read \subseteq dir
         /\ \A i \in DOMAIN read : read[i] \in 0..Len(segs[i])
         /\ EventsRead(read) \subseteq LinesOf(dir) \cap Events
<1>1. /\ DOMAIN read = listed /\ listed \subseteq dir
      /\ \A i \in DOMAIN read : read[i] <= Len(segs[i])
      /\ \A i \in DOMAIN read :
           read[i] \in UNION {0..Len(segs[j]) : j \in listed}
  BY DEF Readings
<1>2. \A i \in dir : segs[i] \in Seq(Lines) /\ Len(segs[i]) \in Nat
  BY DEF TypeInv, TypeOK
<1>3. \A i \in DOMAIN read : read[i] \in 0..Len(segs[i])
  <2> SUFFICES ASSUME NEW i \in DOMAIN read PROVE read[i] \in 0..Len(segs[i])
    OBVIOUS
  <2>1. PICK j \in listed : read[i] \in 0..Len(segs[j])
    BY <1>1
  <2> QED BY <1>1, <1>2, <2>1
<1>4. ASSUME NEW i \in DOMAIN read, NEW p \in 1..read[i]
      PROVE  p \in DOMAIN segs[i]
  BY <1>1, <1>2, <1>3
<1>5. EventsRead(read) \subseteq LinesOf(dir) \cap Events
  <2> SUFFICES ASSUME NEW e \in EventsRead(read) PROVE e \in LinesOf(dir)
    BY DEF EventsRead
  <2>1. PICK i \in DOMAIN read : e \in {segs[i][p] : p \in 1..read[i]}
    BY DEF EventsRead
  <2>2. PICK p \in 1..read[i] : e = segs[i][p]
    BY <2>1
  <2>3. i \in dir /\ p \in DOMAIN segs[i]
    BY <1>1, <1>4
  <2> QED BY <2>2, <2>3 DEF LinesOf
<1> QED BY <1>1, <1>3, <1>5

\* A start has everything again that is owed, unless it does not read it, and
\* nothing to send twice when nothing has failed.
LEMMA StartStep ==
  ASSUME IInv, NEW listed \in {dir, {}}, NEW read \in Readings(listed),
         start(read)
  PROVE  IInv'
<1> DEFINE m == MaxOf(DOMAIN read)
<1>1. /\ pc = "down" /\ pc' = "head" /\ pending' = Loaded(read)
      /\ running' = TRUE /\ phase' = "loop" /\ rw' = NoRewrite
      /\ wal' = [current |-> m + 1, size |-> 0, index |-> m + 2]
      /\ overlooked' = (overlooked \cup (LinesOf(dir) \cap Events))
                          \ EventsRead(read)
      /\ hardened' = hardened \ overlooked'
      /\ (read = Whole /\ faults' = faults) \/ Fault
      /\ UNCHANGED <<segs, dir, synced, ddir, next, accepted, deliveries,
                     forfeited, crashes>>
  BY DEF start, disk
<1>2. /\ DOMAIN read = listed /\ DOMAIN read \subseteq dir
      /\ \A i \in DOMAIN read : read[i] \in 0..Len(segs[i])
      /\ EventsRead(read) \subseteq LinesOf(dir) \cap Events
  BY ReadingsFacts DEF IInv
<1>3. m \in Nat /\ \A i \in DOMAIN read : i <= m
  <2>1. DOMAIN read \in SUBSET Indices
    BY <1>2 DEF IInv, TypeInv, TypeOK
  <2> QED BY <2>1, MaxOfFacts, Sizes
<1> HIDE DEF m
<1>4. /\ wal' \in [current : Nat, size : Nat, index : Nat \ {0}]
      /\ wal'.current > 0 /\ wal'.current < wal'.index
  BY <1>1, <1>3
<1>5. /\ Loaded(read) \in Seq(Records)
      /\ EventsRead(read) \subseteq Elems(Loaded(read))
      /\ LinesOf(dir) = {} => Loaded(read) = <<>>
  BY <1>2, LoadedFacts DEF IInv, TypeInv
<1>6. TypeInv'
  <2>1. faults' \in 0..MaxFaults
    BY <1>1, FaultCounts DEF IInv, TypeInv, TypeOK
  <2>2. hardened' \subseteq Events /\ overlooked' \subseteq Events
    BY <1>1 DEF IInv, TypeInv, TypeOK
  <2>3. TypeOK'
    BY <1>1, <1>4, <1>5, <2>1, <2>2, NoRewriteFacts DEF IInv, TypeInv, TypeOK
  <2> QED BY <1>1, <1>4, <2>3 DEF IInv, TypeInv
<1>7. received' = received /\ LinesOf(dir)' = LinesOf(dir)
  BY <1>1 DEF received, LinesOf
<1>8. Owed' \subseteq EventsRead(read)
  <2>1. Owed \subseteq LinesOf(dir) \cap Events
    BY OwedIsLoaded, LowerFacts DEF IInv
  <2>2. Owed' \subseteq Owed \cup overlooked
    BY <1>1, <1>7 DEF Owed
  <2>3. Owed' \cap overlooked' = {}
    BY <1>1 DEF Owed
  <2> QED BY <1>1, <2>1, <2>2, <2>3
<1>9. OwedInv'
  <2>1. Owed' \subseteq Elems(pending)'
    BY <1>1, <1>5, <1>8
  <2>2. CASE listed = {}
    <3>1. EventsRead(read) = {}
      BY <1>2, <2>2 DEF EventsRead
    <3>2. Owed' = {} /\ (hardened \ received)' = {}
      BY <1>8, <3>1 DEF Owed
    <3> QED BY <2>1, <3>2 DEF OwedInv
  <2>3. CASE listed = dir
    <3>1. \A i \in dir : i < m + 2
      BY <1>2, <1>3, <2>3 DEF IInv, TypeInv, TypeOK, Indices
    <3>2. Lower' = dir
      BY <1>1, <3>1 DEF Lower
    <3>3. LinesOf(Lower)' = LinesOf(dir)
      BY <1>1, <3>2 DEF LinesOf
    <3>4. OnMedium(Lower \cap ddir)' = OnMedium(dir \cap ddir)
      BY <1>1, <3>2 DEF OnMedium
    <3>5. hardened' \ received' \subseteq OnMedium(dir \cap ddir)
      BY <1>1, <1>7, LowerFacts DEF IInv, OwedInv
    <3> QED BY <1>2, <1>8, <2>1, <3>3, <3>4, <3>5 DEF OwedInv
  <2> QED BY <2>2, <2>3
<1>10. RewriteInv'
  BY <1>1, NoRewriting
<1>11. QuietInv'
  <2>1. CASE Fault
    BY <2>1, NotQuiet, FaultCounts DEF IInv, TypeInv
  <2> SUFFICES ASSUME faults = 0, crashes = 0, faults' = faults
               PROVE  QuietInv'
    BY <1>1, <2>1 DEF QuietInv
  <2>2. pending = <<>> /\ LinesOf(dir) \subseteq Elems(pending)
    BY <1>1 DEF IInv, QuietInv
  <2>3. LinesOf(dir) = {}
    BY <2>2 DEF Elems
  <2>4. pending' = <<>> /\ ~Rewriting'
    BY <1>1, <1>5, <2>3 DEF Rewriting
  <2>5. Undelivered(IF Rewriting THEN Remaining ELSE pending)'
    BY <2>4 DEF Undelivered
  <2> QED BY <1>1, <1>7, <2>3, <2>4, <2>5 DEF IInv, QuietInv
<1> QED BY <1>6, <1>9, <1>10, <1>11 DEF IInv

\* Where the next line goes.
LEMMA RotatedFacts ==
  ASSUME TypeInv, pc # "down"
  PROVE  /\ Rotated \in [current : Nat, size : Nat, index : Nat \ {0}]
         /\ Rotated.current > 0 /\ Rotated.current < Rotated.index
         /\ wal.index <= Rotated.index /\ wal.index \in Nat
<1>1. /\ wal \in [current : Nat, size : Nat, index : Nat \ {0}]
      /\ wal.current > 0 /\ wal.current < wal.index
  BY DEF TypeInv, TypeOK
<1> QED BY <1>1 DEF Rotated

\* A failing append adds no event, and at most a torn line.
LEMMA AppendFailsStep ==
  ASSUME IInv, NEW torn \in BOOLEAN, AppendFails(torn) PROVE IInv'
<1> DEFINE i == Rotated.current
<1>1. /\ pc = "drain" /\ pc' = "drain" /\ next <= MaxEvents
      /\ next' = next + 1 /\ (torn => TornAppends) /\ i <= MaxIndex
      /\ Fault /\ wal' = Rotated
      /\ UNCHANGED <<pending, running, phase, rw, accepted, deliveries,
                     hardened, forfeited, overlooked, crashes>>
  BY DEF AppendFails, Pops
<1>2. \/ ~torn /\ UNCHANGED <<segs, dir, synced, ddir>>
      \/ torn /\ WriteLine(i, Torn)
  BY DEF AppendFails, disk
<1>3. /\ Rotated \in [current : Nat, size : Nat, index : Nat \ {0}]
      /\ Rotated.current > 0 /\ i < wal'.index /\ i \in Indices
      /\ wal'.index \in Nat /\ wal.index <= wal'.index
  BY <1>1, RotatedFacts DEF IInv, Indices
<1>4. next' \in 1..(MaxEvents + 1)
  BY <1>1, Sizes DEF IInv, TypeInv, TypeOK
<1>5. RewriteInv' /\ QuietInv'
  BY <1>1, NoRewriting, NotQuiet, FaultCounts DEF IInv, TypeInv
<1>6. received' = received /\ Owed' = Owed
  BY <1>1 DEF received, Owed
<1>7. CASE ~torn
  <2>1. TypeOK'
    BY <1>1, <1>2, <1>3, <1>4, <1>7, FaultCounts DEF IInv, TypeInv, TypeOK
  <2>2. TypeInv'
    BY <1>1, <1>2, <1>3, <1>7, <2>1 DEF IInv, TypeInv
  <2>3. /\ LinesOf(Lower) \subseteq LinesOf(Lower)'
        /\ OnMedium(Lower \cap ddir) \subseteq OnMedium(Lower \cap ddir)'
    BY <1>2, <1>3, <1>7, LowerGrows DEF IInv
  <2>4. OwedInv'
    BY <1>1, <1>6, <2>3 DEF IInv, OwedInv
  <2> QED BY <1>5, <2>2, <2>4 DEF IInv
<1>8. CASE torn
  <2>1. TornAppends
    BY <1>1, <1>8
  <2>2. WriteLine(i, Torn)
    BY <1>2, <1>8
  <2> HIDE DEF i
  <2>3. /\ segs' \in [Indices -> Seq(Lines)] /\ dir' \subseteq Indices
        /\ synced' \in [Indices -> Nat] /\ ddir' \subseteq Indices
        /\ \A k \in Indices : synced'[k] <= Len(segs'[k])
        /\ OnMedium(Lower \cap ddir) \cap Events
             \subseteq OnMedium(Lower \cap ddir)'
    <3>1. Torn \in Lines
      BY DEF Lines
    <3> QED BY <1>3, <2>2, <3>1, WriteLineFacts DEF IInv
  <2>4. TypeOK'
    BY <1>1, <1>3, <1>4, <2>3, FaultCounts DEF IInv, TypeInv, TypeOK
  <2>5. TypeInv'
    BY <1>1, <1>3, <2>1, <2>3, <2>4 DEF TypeInv, i
  <2>6. hardened \ received \subseteq OnMedium(Lower \cap ddir) \cap Events
    BY DEF IInv, OwedInv, TypeInv, TypeOK
  <2>7. OwedInv'
    BY <1>1, <1>6, <2>1, <2>3, <2>6 DEF IInv, OwedInv
  <2> QED BY <1>5, <2>5, <2>7 DEF IInv
<1> QED BY <1>7, <1>8

\* An accepted event is in the log before it is in memory.
LEMMA AppendStep == ASSUME IInv, append_wal PROVE IInv'
<1> DEFINE i == Rotated.current
<1>1. /\ pc = "drain" /\ pc' = "drain" /\ next <= MaxEvents
      /\ next' = next + 1 /\ i <= MaxIndex
      /\ wal' = [Rotated EXCEPT !.size = @ + 1]
      /\ WriteLine(i, next) /\ pending' = Append(pending, next)
      /\ accepted' = accepted \cup {next}
      /\ UNCHANGED <<running, phase, rw, deliveries, hardened, forfeited,
                     overlooked, crashes>>
      /\ faults' = faults \/ Fault
  BY DEF append_wal, Pops, Answers
<1>a. faults' \in 0..MaxFaults /\ (faults' = faults \/ faults' # 0)
  BY <1>1, AnswerCounts DEF IInv, TypeInv
<1>2. next \in Events /\ next \in Records /\ next \in Lines /\ next # Torn
  BY <1>1, Sizes
     DEF IInv, TypeInv, TypeOK, Events, Records, Lines, Torn
<1>3. /\ wal' \in [current : Nat, size : Nat, index : Nat \ {0}]
      /\ wal'.current > 0 /\ wal'.current < wal'.index /\ i \in Indices
      /\ i < wal'.index /\ wal'.index \in Nat /\ wal.index <= wal'.index
  <2>1. /\ Rotated \in [current : Nat, size : Nat, index : Nat \ {0}]
        /\ Rotated.current > 0 /\ Rotated.current < Rotated.index
        /\ wal.index <= Rotated.index
    BY <1>1, RotatedFacts DEF IInv
  <2>2. Rotated.size + 1 \in Nat
    BY <2>1
  <2> QED BY <1>1, <2>1, <2>2 DEF Indices
<1>4. next' \in 1..(MaxEvents + 1)
  BY <1>1, Sizes DEF IInv, TypeInv, TypeOK
<1>5. PICK j \in Indices : WriteLine(j, next) /\ j < wal'.index
  BY <1>1, <1>3
<1>6. PICK x \in Lines : x = next
  BY <1>2
<1>7. WriteLine(j, x)
  BY <1>5, <1>6
<1>8. /\ segs' \in [Indices -> Seq(Lines)] /\ dir' \subseteq Indices
      /\ synced' \in [Indices -> Nat] /\ ddir' \subseteq Indices
      /\ \A k \in Indices : synced'[k] <= Len(segs'[k])
      /\ (\A k \in Indices : Torn \notin Elems(segs[k])) =>
            \A k \in Indices : Torn \notin Elems(segs'[k])
      /\ Torn \notin LinesOf(dir) =>
           /\ LinesOf(dir)' = LinesOf(dir) \cup {x}
           /\ LinesOf(Lower) \cup {x} \subseteq LinesOf(Lower)'
      /\ OnMedium(Lower \cap ddir) \cap Events
           \subseteq OnMedium(Lower \cap ddir)'
  BY <1>2, <1>3, <1>5, <1>6, <1>7, WriteLineFacts DEF IInv
<1>9. /\ pending \in Seq(Records) /\ pending' \in Seq(Records)
      /\ DOMAIN pending = 1..Len(pending)
      /\ DOMAIN pending' = 1..(Len(pending) + 1)
      /\ \A p \in DOMAIN pending : pending'[p] = pending[p]
      /\ pending'[Len(pending) + 1] = next
      /\ \A p \in DOMAIN pending' : p \in DOMAIN pending \/ p = Len(pending) + 1
      /\ DOMAIN pending \subseteq DOMAIN pending'
      /\ Len(pending) + 1 \in DOMAIN pending'
  BY <1>1, <1>2 DEF IInv, TypeInv, TypeOK
<1>10. Elems(pending)' = Elems(pending) \cup {next}
  BY <1>9 DEF Elems
<1>11. TypeInv'
  <2>1. TypeOK'
    BY <1>1, <1>2, <1>3, <1>4, <1>8, <1>9, <1>a DEF IInv, TypeInv, TypeOK
  <2> QED BY <1>1, <1>3, <1>8, <2>1 DEF IInv, TypeInv
<1>12. received' = received /\ Owed' \subseteq Owed \cup {next}
  BY <1>1 DEF received, Owed
<1>13. OwedInv'
  <2>1. hardened \ received \subseteq OnMedium(Lower \cap ddir) \cap Events
    BY DEF IInv, OwedInv, TypeInv, TypeOK
  <2>2. hardened' \ received' \subseteq OnMedium(Lower \cap ddir)'
    BY <1>1, <1>8, <1>12, <2>1
  <2>3. ASSUME ~TornAppends PROVE Owed' \subseteq LinesOf(Lower)'
    <3>1. Torn \notin LinesOf(dir)
      BY <2>3 DEF IInv, TypeInv, TypeOK, LinesOf, Elems
    <3> QED BY <1>6, <1>8, <1>12, <2>3, <3>1 DEF IInv, OwedInv
  <2>4. Owed' \subseteq Elems(pending)'
    BY <1>1, <1>10, <1>12 DEF IInv, OwedInv
  <2> QED BY <2>2, <2>3, <2>4 DEF OwedInv
<1>14. RewriteInv'
  BY <1>1, NoRewriting
<1>15. QuietInv'
  <2> SUFFICES ASSUME faults = 0, crashes = 0, faults' = faults
               PROVE  QuietInv'
    BY <1>1, <1>a, NotQuiet DEF QuietInv
  <2>1. /\ \A p, q \in DOMAIN pending : pending[p] = pending[q] => p = q
        /\ \A p \in DOMAIN pending : pending[p] \in Events /\ pending[p] < next
        /\ \A e \in Events : deliveries[e] <= 1
        /\ \A e \in Events : e >= next => deliveries[e] = 0
        /\ Undelivered(pending) /\ LinesOf(dir) \subseteq Elems(pending)
    BY <1>1 DEF IInv, QuietInv, Rewriting
  <2>2. next \in Nat /\ Events \subseteq Nat /\ ~Rewriting'
    BY <1>1, <1>2 DEF Events, Rewriting
  <2>3. /\ \A p \in DOMAIN pending : pending[p] # next /\ pending[p] < next'
        /\ next < next'
        /\ \A e \in Events : e >= next' => e >= next
    BY <1>1, <2>1, <2>2
  <2>4. \A p, q \in DOMAIN pending' : pending'[p] = pending'[q] => p = q
    BY <1>9, <2>1, <2>3
  <2>5. \A p \in DOMAIN pending' : pending'[p] \in Events /\ pending'[p] < next'
    BY <1>2, <1>9, <2>1, <2>3
  <2>6. deliveries[next] = 0
    BY <1>2, <2>1, <2>2
  <2>7. Undelivered(pending)'
    BY <1>1, <1>2, <1>9, <2>1, <2>6 DEF Undelivered
  <2>8. LinesOf(dir)' \subseteq Elems(pending)'
    <3>1. Torn \notin Elems(pending)
      BY <1>9, Sizes DEF Elems, Records, Torn, Events, Garbled
    <3> QED BY <1>6, <1>8, <1>10, <2>1, <3>1
  <2>9. Undelivered(IF Rewriting THEN Remaining ELSE pending)'
    BY <2>2, <2>7
  <2>10. \A e \in Events : deliveries'[e] <= 1
                            /\ (e >= next' => deliveries'[e] = 0)
    BY <1>1, <2>1, <2>3
  <2> QED BY <1>1, <2>4, <2>5, <2>8, <2>9, <2>10 DEF QuietInv
<1> QED BY <1>11, <1>13, <1>14, <1>15 DEF IInv

\* Whatever the server sees more of, no more is owed.
LEMMA SeenMore ==
  ASSUME TypeInv, OwedInv, received \subseteq received',
         UNCHANGED <<segs, dir, synced, ddir, pending, wal, accepted,
                     hardened, forfeited, overlooked>>,
         pc # "down" \/ pc' = "down"
  PROVE  OwedInv'
<1>1. /\ Owed' \subseteq Owed
      /\ hardened' \ received' \subseteq hardened \ received
  BY DEF Owed
<1>2. Lower' = Lower
  BY DEF Lower
<1>3. /\ LinesOf(Lower)' = LinesOf(Lower)
      /\ OnMedium(Lower \cap ddir)' = OnMedium(Lower \cap ddir)
  BY <1>2 DEF LinesOf, OnMedium
<1> QED BY <1>1, <1>3 DEF OwedInv

\* A batch that is acknowledged has been received.
LEMMA PostAcknowledgedStep == ASSUME IInv, PostAcknowledged PROVE IInv'
<1> DEFINE n == Len(Batch)
<1>1. /\ pc = "flush" /\ pc' = "stage" /\ pending # <<>> /\ ServerSees
      /\ rw' = [NoRewrite EXCEPT !.acked = n]
      /\ UNCHANGED <<segs, dir, synced, ddir, pending, wal, running, phase,
                     next, accepted, hardened, forfeited, overlooked, faults,
                     crashes>>
  BY DEF PostAcknowledged, disk
<1>2. /\ n \in 0..Len(pending) /\ n \in Nat /\ n <= Len(pending) /\ n > 0
      /\ DOMAIN Batch = 1..n
      /\ \A p \in 1..n : Batch[p] = pending[p]
      /\ pending \in Seq(Records) /\ DOMAIN pending = 1..Len(pending)
  BY <1>1, BatchFacts DEF IInv, TypeInv, TypeOK
<1>3. /\ deliveries' \in [Events -> Nat]
      /\ received' = received \cup (Elems(Batch) \cap Events)
      /\ \A e \in Events \ Elems(Batch) : deliveries'[e] = deliveries[e]
      /\ (\A p, q \in DOMAIN pending : pending[p] = pending[q] => p = q) =>
           \A e \in Events : deliveries'[e] <= deliveries[e] + 1
  BY <1>1, ServerSeesFacts DEF IInv, TypeInv
<1> HIDE DEF n
<1>4. /\ rw' \in [acked : Nat, staged : Seq(Seq(Records)), base : Nat,
                  done : Nat, old : SUBSET Indices]
      /\ rw'.acked = n /\ rw'.done = 0
  BY <1>1, <1>2, NoRewriteFacts
<1>5. TypeInv'
  <2>1. TypeOK'
    BY <1>1, <1>3, <1>4 DEF IInv, TypeInv, TypeOK
  <2> QED BY <1>1, <2>1 DEF IInv, TypeInv
<1>6. OwedInv'
  BY <1>1, <1>3, SeenMore DEF IInv
<1>7. \A p \in 1..n : pending[p] \in Elems(Batch)
  BY <1>2 DEF Elems
<1>8. RewriteInv'
  BY <1>1, <1>2, <1>3, <1>4, <1>7 DEF RewriteInv, Rewriting
<1>9. QuietInv'
  <2> SUFFICES ASSUME faults = 0, crashes = 0 PROVE QuietInv'
    BY <1>1 DEF QuietInv
  <2>1. /\ \A p, q \in DOMAIN pending : pending[p] = pending[q] => p = q
        /\ \A p \in DOMAIN pending : pending[p] \in Events /\ pending[p] < next
        /\ \A e \in Events : deliveries[e] <= 1
        /\ \A e \in Events : e >= next => deliveries[e] = 0
        /\ Undelivered(pending) /\ LinesOf(dir) \subseteq Elems(pending)
    BY <1>1 DEF IInv, QuietInv, Rewriting
  <2>2. \A p \in DOMAIN Batch : p \in DOMAIN pending
    BY <1>2
  <2>3. ASSUME NEW e \in Events
        PROVE  deliveries'[e] <= 1 /\ (e >= next => deliveries'[e] = 0)
    <3>1. deliveries[e] \in Nat /\ next \in Nat /\ e \in Nat
      BY DEF IInv, TypeInv, TypeOK, Events
    <3>2. CASE e \in Elems(Batch)
      <4>1. PICK p \in DOMAIN pending : pending[p] = e
        BY <1>2, <2>2, <3>2 DEF Elems
      <4>2. deliveries[e] = 0 /\ e < next
        BY <2>1, <4>1 DEF Undelivered
      <4>3. deliveries'[e] <= deliveries[e] + 1
        BY <1>3, <2>1
      <4> QED BY <1>3, <3>1, <4>2, <4>3
    <3>3. CASE e \notin Elems(Batch)
      BY <1>3, <2>1, <3>3
    <3> QED BY <3>2, <3>3
  <2>4. /\ Remaining' \in Seq(Records)
        /\ DOMAIN Remaining' = 1..(Len(pending) - n)
        /\ \A p \in DOMAIN Remaining' : /\ Remaining'[p] = pending[n + p]
                                        /\ n + p \in DOMAIN pending
    <3>1. Remaining' = SubSeq(pending, n + 1, Len(pending))
      BY <1>1, <1>4 DEF Remaining
    <3>2. /\ n + 1 \in Nat \ {0} /\ n + 1 <= Len(pending) + 1
          /\ Len(pending) \in Nat
          /\ Len(pending) - (n + 1) + 1 = Len(pending) - n
          /\ \A p \in 1..(Len(pending) - n) :
               (n + 1) + p - 1 = n + p /\ n + p \in 1..Len(pending)
      BY <1>2
    <3>3. Len(pending) <= Len(pending)
      BY <3>2
    <3> QED BY <1>2, <3>1, <3>2, <3>3, Piece
  <2>5. ASSUME NEW p \in DOMAIN Remaining'
        PROVE  /\ Remaining'[p] \in Events
               /\ deliveries'[Remaining'[p]] = 0
    <3>1. /\ Remaining'[p] = pending[n + p] /\ n + p \in DOMAIN pending
          /\ p \in Nat /\ p > 0
      BY <1>2, <2>4
    <3>2. pending[n + p] \in Events /\ deliveries[pending[n + p]] = 0
      BY <2>1, <3>1 DEF Undelivered
    <3>3. pending[n + p] \notin Elems(Batch)
      <4> SUFFICES ASSUME NEW q \in DOMAIN Batch, Batch[q] = pending[n + p]
                   PROVE  FALSE
        BY DEF Elems
      <4>1. q = n + p
        BY <1>2, <2>1, <2>2, <3>1
      <4> QED BY <1>2, <3>1, <4>1
    <3> QED BY <1>3, <3>1, <3>2, <3>3
  <2>6. Rewriting' /\ LinesOf(dir)' = LinesOf(dir)
    BY <1>1 DEF Rewriting, LinesOf
  <2>7. Undelivered(IF Rewriting THEN Remaining ELSE pending)'
    BY <2>5, <2>6 DEF Undelivered
  <2> QED BY <1>1, <2>1, <2>3, <2>6, <2>7 DEF QuietInv, Elems
<1> QED BY <1>5, <1>6, <1>8, <1>9 DEF IInv

\* A post that fails may have been received all the same.
LEMMA PostFailsStep ==
  ASSUME IInv, NEW arrived \in BOOLEAN, PostFails(arrived) PROVE IInv'
<1>1. /\ pc = "flush" /\ pc' \in {"head", "down"} /\ Fault
      /\ UNCHANGED <<segs, dir, synced, ddir, pending, wal, running, phase,
                     rw, next, accepted, hardened, forfeited, overlooked,
                     crashes>>
      /\ ServerSees \/ deliveries' = deliveries
  BY DEF PostFails, disk
<1>2. deliveries' \in [Events -> Nat] /\ received \subseteq received'
  <2>1. CASE ServerSees
    BY <2>1, ServerSeesFacts DEF IInv, TypeInv
  <2>2. CASE deliveries' = deliveries
    BY <2>2 DEF IInv, TypeInv, TypeOK, received
  <2> QED BY <1>1, <2>1, <2>2
<1>3. TypeInv'
  <2>1. TypeOK'
    BY <1>1, <1>2, FaultCounts DEF IInv, TypeInv, TypeOK
  <2> QED BY <1>1, <2>1 DEF IInv, TypeInv
<1>4. OwedInv'
  BY <1>1, <1>2, SeenMore DEF IInv
<1>5. RewriteInv' /\ QuietInv'
  BY <1>1, NoRewriting, NotQuiet, FaultCounts DEF IInv, TypeInv
<1> QED BY <1>3, <1>4, <1>5 DEF IInv

\* A killed process leaves what is owed in its segments.
LEMMA KillStep == ASSUME IInv, Kill PROVE IInv'
<1>1. /\ pc' = "down" /\ phase' = "loop" /\ rw' = NoRewrite
      /\ running' = FALSE /\ pending' = <<>> /\ crashes < MaxCrashes
      /\ crashes' = crashes + 1
      /\ UNCHANGED <<segs, dir, synced, ddir, wal, next, accepted,
                     deliveries, hardened, forfeited, overlooked, faults>>
  BY DEF Kill, Dies, disk
<1>2. crashes' \in 0..MaxCrashes /\ crashes' # 0 /\ pending' \in Seq(Records)
  BY <1>1, NetworkBoundsAssumption DEF IInv, TypeInv, TypeOK
<1>3. TypeInv'
  <2>1. TypeOK'
    BY <1>1, <1>2, NoRewriteFacts DEF IInv, TypeInv, TypeOK
  <2> QED BY <1>1, <2>1 DEF IInv, TypeInv
<1>4. /\ Owed' = Owed /\ LinesOf(Lower)' = LinesOf(Lower)
      /\ OnMedium(Lower \cap ddir)' = OnMedium(Lower \cap ddir)
      /\ received' = received
  BY <1>1 DEF received, Owed, LinesOf, OnMedium, Lower
<1>5. OwedInv'
  BY <1>1, <1>4 DEF IInv, OwedInv
<1>6. RewriteInv' /\ QuietInv'
  BY <1>1, <1>2, NoRewriting, NotQuiet
<1> QED BY <1>3, <1>5, <1>6 DEF IInv

\* A power cut leaves what a rewrite has hardened.
LEMMA PowerCutStep == ASSUME IInv, PowerCut PROVE IInv'
<1>1. /\ pc' = "down" /\ phase' = "loop" /\ rw' = NoRewrite
      /\ running' = FALSE /\ pending' = <<>> /\ crashes < MaxCrashes
      /\ crashes' = crashes + 1
      /\ synced' = [i \in Indices |-> Len(segs'[i])]
      /\ forfeited' = forfeited \cup (accepted \ hardened)
      /\ UNCHANGED <<wal, next, accepted, deliveries, hardened, overlooked,
                     faults>>
  BY DEF PowerCut, Dies
<1>2. PICK kept \in SUBSET (dir \cup ddir) :
        /\ dir \cap ddir \subseteq kept /\ dir' = kept /\ ddir' = kept
        /\ \E left \in [{i \in kept : synced[i] < Len(segs[i])}
                         -> UNION {synced[i]..Len(segs[i]) : i \in kept}] :
             /\ \A i \in DOMAIN left : left[i] \in synced[i]..Len(segs[i])
             /\ segs' = [i \in Indices |->
                           IF i \in DOMAIN left THEN SubSeq(segs[i], 1, left[i])
                           ELSE segs[i]]
  BY DEF PowerCut
<1>3. PICK left :
        /\ \A i \in DOMAIN left : left[i] \in synced[i]..Len(segs[i])
        /\ segs' = [i \in Indices |->
                      IF i \in DOMAIN left THEN SubSeq(segs[i], 1, left[i])
                      ELSE segs[i]]
  BY <1>2
<1>4. kept \subseteq Indices
  BY <1>2 DEF IInv, TypeInv, TypeOK
<1>5. ASSUME NEW i \in Indices
      PROVE  /\ segs'[i] \in Seq(Lines) /\ synced[i] <= Len(segs'[i])
             /\ synced[i] \in Nat /\ Len(segs'[i]) \in Nat
             /\ \A p \in DOMAIN segs'[i] :
                  p \in DOMAIN segs[i] /\ segs'[i][p] = segs[i][p]
             /\ \A p \in 1..synced[i] : p \in 1..Len(segs'[i])
  <2>1. /\ segs[i] \in Seq(Lines) /\ synced[i] \in Nat
        /\ synced[i] <= Len(segs[i])
    BY DEF IInv, TypeInv, TypeOK
  <2>2. CASE i \in DOMAIN left
    <3> DEFINE n == left[i]
    <3>1. /\ n \in synced[i]..Len(segs[i])
          /\ segs'[i] = SubSeq(segs[i], 1, n)
      BY <1>3, <2>2
    <3> HIDE DEF n
    <3>2. /\ n \in Nat /\ n <= Len(segs[i]) /\ synced[i] <= n
          /\ 1 <= n + 1 /\ n - 1 + 1 = n
          /\ \A p \in 1..n : 1 + p - 1 = p /\ p \in 1..Len(segs[i])
      BY <2>1, <3>1
    <3>3. /\ segs'[i] \in Seq(Lines) /\ Len(segs'[i]) = n
          /\ DOMAIN segs'[i] = 1..n
          /\ \A p \in 1..n : segs'[i][p] = segs[i][p]
      BY <2>1, <3>1, <3>2, Piece
    <3> QED BY <2>1, <3>2, <3>3
  <2>3. CASE i \notin DOMAIN left
    <3>1. segs'[i] = segs[i]
      BY <1>3, <2>3
    <3> QED BY <2>1, <3>1
  <2> QED BY <2>2, <2>3
<1>6. /\ segs' \in [Indices -> Seq(Lines)] /\ synced' \in [Indices -> Nat]
      /\ \A i \in Indices : synced'[i] = Len(segs'[i])
  <2>1. segs' = [i \in Indices |-> segs'[i]]
    BY <1>3
  <2> QED BY <1>1, <1>5, <2>1
<1>7. crashes' \in 0..MaxCrashes /\ crashes' # 0 /\ pending' \in Seq(Records)
  BY <1>1, NetworkBoundsAssumption DEF IInv, TypeInv, TypeOK
<1>8. TypeInv'
  <2>1. TypeOK'
    BY <1>1, <1>2, <1>4, <1>6, <1>7, NoRewriteFacts DEF IInv, TypeInv, TypeOK
  <2>2. \A i \in Indices : synced'[i] <= Len(segs'[i])
    BY <1>5, <1>6
  <2>3. ASSUME ~TornAppends, NEW i \in Indices
        PROVE  Torn \notin Elems(segs'[i])
    <3>1. Torn \notin Elems(segs[i])
      BY <2>3 DEF IInv, TypeInv
    <3> QED BY <1>5, <3>1 DEF Elems
  <2> QED BY <1>1, <2>1, <2>2, <2>3 DEF TypeInv
<1>9. OnMedium(Lower \cap ddir) \subseteq OnMedium(Lower \cap ddir)'
  <2> SUFFICES ASSUME NEW i \in Lower \cap ddir, NEW p \in 1..synced[i]
               PROVE  /\ i \in Lower' \cap ddir' /\ p \in 1..synced'[i]
                      /\ segs'[i][p] = segs[i][p]
    BY DEF OnMedium
  <2>1. i \in kept /\ i \in Indices /\ i < wal.index
    BY <1>2, <1>4 DEF Lower
  <2>2. p \in 1..Len(segs'[i]) /\ synced'[i] = Len(segs'[i])
    BY <1>5, <1>6, <2>1
  <2>3. p \in DOMAIN segs'[i]
    BY <1>5, <2>1, <2>2
  <2>4. i \in Lower' \cap ddir'
    BY <1>1, <1>2, <2>1 DEF Lower
  <2> QED BY <1>5, <2>1, <2>2, <2>3, <2>4
<1>10. received' = received /\ Owed' \subseteq hardened \ received
  BY <1>1 DEF received, Owed
<1>11. hardened \ received \subseteq OnMedium(Lower \cap ddir)
  BY DEF IInv, OwedInv
<1>12. hardened' \ received' \subseteq OnMedium(Lower \cap ddir)'
  BY <1>1, <1>9, <1>10, <1>11
<1>13. Owed' \subseteq LinesOf(Lower)'
  <2>1. OnMedium(Lower \cap ddir)' \subseteq LinesOf(Lower)'
    <3> SUFFICES ASSUME NEW i \in Lower' \cap ddir', NEW p \in 1..synced'[i]
                 PROVE  p \in DOMAIN segs'[i]
      BY DEF OnMedium, LinesOf
    <3>1. i \in Indices
      BY <1>2, <1>4
    <3> QED BY <1>5, <1>6, <3>1
  <2> QED BY <1>9, <1>10, <1>11, <2>1
<1>14. OwedInv'
  BY <1>1, <1>12, <1>13 DEF OwedInv
<1>15. RewriteInv' /\ QuietInv'
  BY <1>1, <1>7, NoRewriting, NotQuiet
<1> QED BY <1>8, <1>14, <1>15 DEF IInv

(***************************************************************************)
(* The steps of a rewrite.                                                 *)
(***************************************************************************)
\* The new generation is written above what the listing of the directory gave.
LEMMA StageStep ==
  ASSUME IInv, NEW listed \in BOOLEAN, Stage(listed) PROVE IInv'
<1> DEFINE c == Chunks(Remaining)
           old == IF listed THEN dir ELSE {}
           m == MaxOf(old)
           first == IF wal.index > m THEN wal.index ELSE m + 1
<1>1. /\ pc = "stage" /\ pc' = "rename" /\ DataSame
      /\ first + Len(c) - 1 <= MaxIndex
      /\ rw' = [rw EXCEPT !.staged = c, !.base = first, !.old = old]
      /\ UNCHANGED <<running, phase, next, crashes>>
      /\ (listed /\ faults' = faults) \/ Fault
  BY DEF Stage, DataSame, disk, history
<1>2. /\ rw.acked \in Nat /\ rw.done = 0 /\ rw.acked <= Len(pending)
      /\ rw = [acked |-> rw.acked, staged |-> rw.staged, base |-> rw.base,
               done |-> rw.done, old |-> rw.old]
      /\ old \in SUBSET Indices /\ wal.index \in Nat /\ wal.index > 0
      /\ \A p \in 1..rw.acked : pending[p] \in Events => pending[p] \in received
  BY <1>1, RwFields DEF IInv, TypeInv, TypeOK, RewriteInv, Rewriting
<1>3. m \in Nat /\ \A i \in old : i <= m
  <2> HIDE DEF old
  <2> QED BY <1>2, MaxOfFacts, Sizes
<1>4. Remaining \in Seq(Records)
  BY <1>2, RemainingFacts DEF IInv, TypeInv
<1>5. /\ c \in Seq(Seq(Records)) /\ Len(c) > 0
      /\ Elems(Remaining) = UNION {Elems(c[k]) : k \in DOMAIN c}
  BY <1>4, ChunksFacts
<1> HIDE DEF c, m
<1>6. /\ first \in Nat /\ first > 0 /\ \A i \in old : i < first
      /\ first >= wal.index
  <2>1. \A i \in old : i \in Nat
    BY <1>2 DEF Indices
  <2> HIDE DEF old
  <2> QED BY <1>2, <1>3, <2>1
<1> HIDE DEF first
<1>7. rw' = [acked |-> rw.acked, staged |-> c, base |-> first, done |-> 0,
             old |-> old]
  BY <1>1, <1>2
<1>8. rw' \in [acked : Nat, staged : Seq(Seq(Records)), base : Nat,
               done : Nat, old : SUBSET Indices]
  BY <1>2, <1>5, <1>6, <1>7
<1>c. faults' \in 0..MaxFaults
  BY <1>1, FaultCounts DEF IInv, TypeInv, TypeOK
<1>9. TypeInv'
  BY <1>1, <1>8, <1>c, SameTypes DEF IInv, TypeInv, TypeOK
<1>10. OwedInv' /\ received' = received
  BY <1>1, SameOwed DEF IInv
<1>a. /\ rw'.acked = rw.acked /\ rw'.staged = c /\ rw'.base = first
      /\ rw'.done = 0 /\ rw'.old = old
  BY <1>7
<1>b. dir' = dir /\ pending' = pending /\ segs' = segs /\ wal' = wal
  BY <1>1 DEF DataSame
<1>11. /\ Remaining' = Remaining /\ Rewriting /\ Rewriting'
       /\ LinesOf(dir)' = LinesOf(dir)
  <2>1. Rewriting /\ Rewriting'
    BY <1>1 DEF Rewriting
  <2>2. Remaining' = Remaining
    BY <1>a, <1>b DEF Remaining
  <2>3. LinesOf(dir)' = LinesOf(dir)
    BY <1>b DEF LinesOf
  <2> QED BY <2>1, <2>2, <2>3
<1>12. RewriteInv'
  <2>1. Elems(Remaining)' = UNION {Elems(c[k]) : k \in DOMAIN c}
    BY <1>5, <1>11
  <2>2. /\ Len(c) \in Nat /\ 0 <= Len(c) /\ 0 < Len(c)
        /\ 1..0 = {}
    BY <1>5
  <2> HIDE DEF first, c, old
  <2> QED BY <1>1, <1>2, <1>6, <1>10, <1>a, <1>b, <2>1, <2>2
          DEF RewriteInv, Rewriting
<1>13. QuietInv'
  <2>1. CASE Fault
    BY <2>1, NotQuiet, FaultCounts DEF IInv, TypeInv
  <2>2. CASE listed /\ faults' = faults
    <3>1. dir' \ rw'.old = {}
      BY <1>a, <1>b, <2>2
    <3>2. LinesOf(dir \ rw.old)' = {}
      BY <3>1 DEF LinesOf
    <3>3. /\ Undelivered(IF Rewriting THEN Remaining ELSE pending)'
               = Undelivered(IF Rewriting THEN Remaining ELSE pending)
          /\ Elems(pending)' = Elems(pending)
          /\ UNCHANGED <<pending, next, deliveries, dir, faults, crashes>>
      BY <1>1, <1>11, <2>2 DEF Undelivered, DataSame
    <3> QED BY <1>1, <1>11, <3>2, <3>3 DEF IInv, QuietInv
  <2> QED BY <1>1, <2>1, <2>2
<1> QED BY <1>9, <1>10, <1>12, <1>13 DEF IInv

\* A segment at or above the next number may be written over: the lower ones
\* stay as they are.
LEMMA NewSegment ==
  ASSUME TypeInv, NEW i \in Indices, NEW s \in Seq(Lines),
         segs' = [segs EXCEPT ![i] = s], dir' = dir \cup {i},
         synced' = [synced EXCEPT ![i] = Len(s)], ddir' = ddir \ {i},
         wal' = wal, wal.index <= i
  PROVE  /\ segs' \in [Indices -> Seq(Lines)]
         /\ synced' \in [Indices -> Nat] /\ dir' \subseteq Indices
         /\ ddir' \subseteq Indices
         /\ segs'[i] = s /\ synced'[i] = Len(s)
         /\ \A j \in Indices \ {i} : /\ segs'[j] = segs[j]
                                     /\ synced'[j] = synced[j]
         /\ \A S \in SUBSET Indices :
              LinesOf(dir \ S)' \subseteq LinesOf(dir \ S) \cup Elems(s)
         /\ LinesOf(Lower)' = LinesOf(Lower)
         /\ OnMedium(Lower \cap ddir)' = OnMedium(Lower \cap ddir)
<1>1. /\ segs \in [Indices -> Seq(Lines)] /\ dir \subseteq Indices
      /\ synced \in [Indices -> Nat] /\ Len(s) \in Nat
      /\ ddir \subseteq Indices /\ wal.index \in Nat
  BY DEF TypeInv, TypeOK
<1>2. /\ segs' \in [Indices -> Seq(Lines)]
      /\ synced' \in [Indices -> Nat] /\ dir' \subseteq Indices
      /\ ddir' \subseteq Indices
      /\ segs'[i] = s /\ synced'[i] = Len(s)
      /\ \A j \in Indices \ {i} : /\ segs'[j] = segs[j]
                                  /\ synced'[j] = synced[j]
  BY <1>1
<1>3. /\ Lower' = Lower /\ i \notin Lower
      /\ Lower' \cap ddir' = Lower \cap ddir
  <2>1. ~(i < wal.index)
    BY <1>1 DEF Indices
  <2>2. Lower' = Lower /\ i \notin Lower
    BY <2>1 DEF Lower
  <2> QED BY <2>2
<1>4. \A j \in Lower : segs'[j] = segs[j] /\ synced'[j] = synced[j]
  BY <1>1, <1>2, <1>3 DEF Lower
<1>5. ASSUME NEW S \in SUBSET Indices
      PROVE  LinesOf(dir \ S)' \subseteq LinesOf(dir \ S) \cup Elems(s)
  <2>1. /\ LinesOf(dir \ S) = UNION {Elems(segs[j]) : j \in dir \ S}
        /\ LinesOf(dir \ S)' = UNION {Elems(segs'[j]) : j \in dir' \ S}
    BY DEF LinesOf, Elems
  <2> SUFFICES ASSUME NEW j \in dir' \ S
               PROVE  Elems(segs'[j]) \subseteq LinesOf(dir \ S) \cup Elems(s)
    BY <2>1
  <2>2. CASE j = i
    BY <1>2, <2>2
  <2>3. CASE j # i
    <3>1. j \in dir \ S /\ Elems(segs'[j]) = Elems(segs[j])
      BY <1>1, <1>2, <2>3
    <3> QED BY <2>1, <3>1
  <2> QED BY <2>2, <2>3
<1>6. /\ LinesOf(Lower)' = LinesOf(Lower)
      /\ OnMedium(Lower \cap ddir)' = OnMedium(Lower \cap ddir)
  BY <1>3, <1>4 DEF LinesOf, OnMedium
<1> QED BY <1>2, <1>5, <1>6

\* The number of the next segment of a new generation.
LEMMA NextNumber ==
  ASSUME NEW b \in Nat \ {0}, NEW d \in Nat, NEW n \in Nat, NEW m \in Nat,
         d < n, b + n - 1 <= m
  PROVE  /\ b + d \in 1..m /\ b + d >= b /\ b + d = b + (d + 1) - 1
         /\ d + 1 \in 1..n
OBVIOUS

\* A staged segment is renamed into the log.
LEMMA RenameStep == ASSUME IInv, Rename PROVE IInv'
<1> DEFINE i == rw.base + rw.done
           s == rw.staged[rw.done + 1]
<1>1. /\ pc = "rename" /\ segs' = [segs EXCEPT ![i] = s]
      /\ synced' = [synced EXCEPT ![i] = Len(s)] /\ dir' = dir \cup {i}
      /\ ddir' = ddir \ {i}
      /\ rw' = [rw EXCEPT !.done = @ + 1]
      /\ pc' = IF rw.done + 1 = Len(rw.staged) THEN "publish" ELSE "rename"
      /\ UNCHANGED <<pending, wal, running, phase, next, accepted, deliveries,
                     hardened, forfeited, overlooked, faults, crashes>>
  BY DEF Rename, history
<1>2. /\ rw.acked \in Nat /\ rw.base \in Nat /\ rw.done \in Nat
      /\ rw.staged \in Seq(Seq(Records)) /\ rw.old \in SUBSET Indices
      /\ rw = [acked |-> rw.acked, staged |-> rw.staged, base |-> rw.base,
               done |-> rw.done, old |-> rw.old]
      /\ wal.index \in Nat \ {0}
  BY RwFields DEF IInv, TypeInv, TypeOK
<1>3. /\ rw.done < Len(rw.staged) /\ rw.base >= wal.index
      /\ rw.base + Len(rw.staged) - 1 <= MaxIndex
      /\ \A j \in rw.old : j < rw.base
      /\ Elems(Remaining)
           = UNION {Elems(rw.staged[k]) : k \in DOMAIN rw.staged}
      /\ \A k \in 1..rw.done :
           /\ rw.base + k - 1 \in dir
           /\ segs[rw.base + k - 1] = rw.staged[k]
           /\ synced[rw.base + k - 1] = Len(rw.staged[k])
      /\ rw.acked <= Len(pending)
      /\ \A p \in 1..rw.acked : pending[p] \in Events => pending[p] \in received
  BY <1>1 DEF IInv, RewriteInv, Rewriting
<1>4. /\ i \in Indices /\ rw.done + 1 \in DOMAIN rw.staged
      /\ i >= rw.base /\ i = rw.base + (rw.done + 1) - 1 /\ wal.index <= i
  <2>1. /\ rw.base \in Nat \ {0} /\ Len(rw.staged) \in Nat
        /\ MaxIndex \in Nat
    BY <1>2, <1>3, Sizes
  <2>a. /\ rw.done < Len(rw.staged) /\ rw.done \in Nat
        /\ rw.base + Len(rw.staged) - 1 <= MaxIndex
    BY <1>2, <1>3, Zenon
  <2>2. /\ i \in 1..MaxIndex /\ i \in Nat
        /\ i >= rw.base /\ i = rw.base + (rw.done + 1) - 1
        /\ rw.done + 1 \in 1..Len(rw.staged)
    BY <2>1, <2>a, NextNumber
  <2>3. DOMAIN rw.staged = 1..Len(rw.staged)
    BY <1>2
  <2>4. wal.index <= i
    BY <1>2, <1>3, <2>2
  <2> QED BY <2>2, <2>3, <2>4 DEF Indices
<1>5. s \in Seq(Records)
  BY <1>2, <1>4
<1>6. s \in Seq(Lines) /\ Elems(s) \subseteq Records
  <2>1. Records \subseteq Lines
    BY DEF Lines
  <2> QED BY <1>5, <2>1 DEF Elems
<1> HIDE DEF i, s
<1>8. /\ segs' \in [Indices -> Seq(Lines)]
      /\ synced' \in [Indices -> Nat] /\ dir' \subseteq Indices
      /\ ddir' \subseteq Indices
      /\ segs'[i] = s /\ synced'[i] = Len(s)
      /\ \A k \in Indices \ {i} : /\ segs'[k] = segs[k]
                                  /\ synced'[k] = synced[k]
      /\ \A S \in SUBSET Indices :
           LinesOf(dir \ S)' \subseteq LinesOf(dir \ S) \cup Elems(s)
      /\ LinesOf(Lower)' = LinesOf(Lower)
      /\ OnMedium(Lower \cap ddir)' = OnMedium(Lower \cap ddir)
  BY <1>1, <1>4, <1>6, NewSegment DEF IInv
<1>9. rw' = [acked |-> rw.acked, staged |-> rw.staged, base |-> rw.base,
             done |-> rw.done + 1, old |-> rw.old]
  BY <1>1, <1>2
<1>10. rw' \in [acked : Nat, staged : Seq(Seq(Records)), base : Nat,
                done : Nat, old : SUBSET Indices]
  BY <1>2, <1>9
<1>11. TypeInv'
  <2>1. TypeOK'
    BY <1>1, <1>8, <1>10 DEF IInv, TypeInv, TypeOK
  <2>2. \A k \in Indices : synced'[k] <= Len(segs'[k])
    <3>1. Len(s) <= Len(s)
      BY <1>6
    <3> QED BY <1>8, <3>1 DEF IInv, TypeInv
  <2>3. Torn \notin Records
    BY Sizes DEF Records, Torn, Events, Garbled
  <2>4. ~TornAppends => \A k \in Indices : Torn \notin Elems(segs'[k])
    BY <1>6, <1>8, <2>3 DEF IInv, TypeInv
  <2> QED BY <1>1, <2>1, <2>2, <2>4 DEF IInv, TypeInv
<1>12. received' = received /\ Owed' = Owed
  BY <1>1 DEF received, Owed
<1>13. OwedInv'
  BY <1>1, <1>8, <1>12 DEF IInv, OwedInv
<1>14. Remaining' = Remaining
  BY <1>1, <1>9 DEF Remaining
<1>15. RewriteInv'
  <2>1. /\ rw'.acked = rw.acked /\ rw'.staged = rw.staged
        /\ rw'.base = rw.base /\ rw'.done = rw.done + 1 /\ rw'.old = rw.old
    BY <1>9
  <2>2. /\ rw.done + 1 <= Len(rw.staged) /\ Len(rw.staged) \in Nat
        /\ rw.done + 1 # Len(rw.staged) => rw.done + 1 < Len(rw.staged)
        /\ rw.done + 1 > 0
    BY <1>2, <1>3
  <2>5. ASSUME NEW k \in 1..(rw.done + 1)
        PROVE  /\ rw.base + k - 1 \in dir'
               /\ segs'[rw.base + k - 1] = rw.staged[k]
               /\ synced'[rw.base + k - 1] = Len(rw.staged[k])
    <3>1. CASE k = rw.done + 1
      BY <1>1, <1>4, <1>8, <3>1 DEF s
    <3>2. CASE k # rw.done + 1
      <4>1. k \in 1..rw.done
        BY <1>2, <3>2
      <4>2. rw.base + k - 1 \in dir
        BY <1>3, <4>1
      <4>a. rw.base + k - 1 # i
        BY <1>2, <4>1 DEF i
      <4>3. rw.base + k - 1 \in Indices \ {i}
        BY <4>2, <4>a DEF IInv, TypeInv, TypeOK
      <4> QED BY <1>1, <1>3, <1>8, <4>1, <4>2, <4>3
    <3> QED BY <3>1, <3>2
  <2>6. Elems(Remaining)' = Elems(Remaining)
    BY <1>14
  <2>7. pc' \in {"rename", "publish"} /\ Rewriting'
    BY <1>1 DEF Rewriting
  <2> QED BY <1>1, <1>3, <1>12, <2>1, <2>2, <2>5, <2>6, <2>7 DEF RewriteInv
<1>16. QuietInv'
  <2> SUFFICES ASSUME faults = 0, crashes = 0 PROVE QuietInv'
    BY <1>1 DEF QuietInv
  <2>1. Elems(s) \subseteq Elems(Remaining)
    BY <1>3, <1>4 DEF s
  <2>2. Elems(Remaining) \subseteq Elems(pending)
    BY <1>3, RemainingFacts DEF IInv, TypeInv
  <2>3. /\ Rewriting /\ Rewriting' /\ pc' \in {"rename", "publish"}
        /\ Elems(pending)' = Elems(pending)
        /\ Elems(Remaining)' = Elems(Remaining)
    BY <1>1, <1>14 DEF Rewriting
  <2>4. /\ LinesOf(dir \ rw.old)' \subseteq LinesOf(dir \ rw.old) \cup Elems(s)
        /\ LinesOf(dir)' \subseteq LinesOf(dir) \cup Elems(s)
    <3>1. rw'.old = rw.old /\ dir' \ {} = dir' /\ dir \ {} = dir
      BY <1>9
    <3>2. PICK S \in SUBSET Indices : S = rw.old
      BY <1>2
    <3>3. LinesOf(dir \ S)' \subseteq LinesOf(dir \ S) \cup Elems(s)
      BY <1>8
    <3>4. LinesOf(dir \ rw.old)' = LinesOf(dir \ S)'
      BY <3>1, <3>2 DEF LinesOf
    <3>5. LinesOf(dir \ {})' \subseteq LinesOf(dir \ {}) \cup Elems(s)
      BY <1>8
    <3>6. LinesOf(dir \ {})' = LinesOf(dir)' /\ LinesOf(dir \ {}) = LinesOf(dir)
      BY <3>1 DEF LinesOf
    <3> QED BY <3>2, <3>3, <3>4, <3>5, <3>6
  <2>5. Undelivered(IF Rewriting THEN Remaining ELSE pending)'
          = Undelivered(IF Rewriting THEN Remaining ELSE pending)
    BY <1>1, <1>14, <2>3 DEF Undelivered
  <2>6. /\ LinesOf(dir) \subseteq Elems(pending)
        /\ LinesOf(dir \ rw.old) \subseteq Elems(Remaining)
    BY <1>1 DEF IInv, QuietInv
  <2>7. /\ LinesOf(dir)' \subseteq Elems(pending)'
        /\ LinesOf(dir \ rw.old)' \subseteq Elems(Remaining)'
    BY <2>1, <2>2, <2>3, <2>4, <2>6
  <2> QED BY <1>1, <2>3, <2>5, <2>7 DEF IInv, QuietInv
<1> QED BY <1>11, <1>13, <1>15, <1>16 DEF IInv

\* Once the new generation is on the medium, all that is owed is in it.
LEMMA PublishStep == ASSUME IInv, Publish PROVE IInv'
<1>1. /\ pc = "publish" /\ pc' = "remove" /\ ddir' = dir
      /\ pending' = Remaining
      /\ wal' = [current |-> rw.base + rw.done - 1,
                 size |-> Len(rw.staged[rw.done]),
                 index |-> rw.base + rw.done]
      /\ hardened' = hardened \cup EventsOf(Remaining)
      /\ UNCHANGED <<segs, dir, synced, running, phase, rw, next, accepted,
                     deliveries, forfeited, overlooked, faults, crashes>>
  BY DEF Publish
<1>2. /\ rw.acked \in Nat /\ rw.base \in Nat /\ rw.done \in Nat
      /\ rw.staged \in Seq(Seq(Records)) /\ rw.old \in SUBSET Indices
      /\ wal.index \in Nat \ {0}
  BY RwFields DEF IInv, TypeInv, TypeOK
<1>3. /\ rw.done = Len(rw.staged) /\ rw.done > 0 /\ rw.base >= wal.index
      /\ \A i \in rw.old : i < rw.base
      /\ Elems(Remaining)
           = UNION {Elems(rw.staged[k]) : k \in DOMAIN rw.staged}
      /\ \A k \in 1..rw.done :
           /\ rw.base + k - 1 \in dir
           /\ segs[rw.base + k - 1] = rw.staged[k]
           /\ synced[rw.base + k - 1] = Len(rw.staged[k])
      /\ rw.acked <= Len(pending)
      /\ \A p \in 1..rw.acked : pending[p] \in Events => pending[p] \in received
  BY <1>1 DEF IInv, RewriteInv, Rewriting
<1>4. /\ DOMAIN rw.staged = 1..rw.done
      /\ \A k \in 1..rw.done : /\ rw.staged[k] \in Seq(Records)
                               /\ Len(rw.staged[k]) \in Nat
                               /\ Elems(rw.staged[k]) = {rw.staged[k][p] :
                                             p \in 1..Len(rw.staged[k])}
  <2>1. rw.done = Len(rw.staged)
    BY <1>3, Zenon
  <2>2. DOMAIN rw.staged = 1..rw.done
        /\ \A k \in 1..rw.done : rw.staged[k] \in Seq(Records)
    BY <1>2, <2>1
  <2>3. \A t \in Seq(Records) : DOMAIN t = 1..Len(t) /\ Len(t) \in Nat
    OBVIOUS
  <2> QED BY <2>2, <2>3, Zenon DEF Elems
<1>5. /\ wal' \in [current : Nat, size : Nat, index : Nat \ {0}]
      /\ wal'.current > 0 /\ wal'.current < wal'.index
      /\ wal'.index = rw.base + rw.done
  <2>1. /\ rw.base + rw.done - 1 \in Nat /\ rw.base + rw.done - 1 > 0
        /\ rw.base + rw.done - 1 < rw.base + rw.done
        /\ rw.base + rw.done \in Nat \ {0} /\ rw.done \in 1..rw.done
    BY <1>2, <1>3
  <2> QED BY <1>1, <1>4, <2>1
<1>6. /\ Remaining \in Seq(Records)
      /\ DOMAIN Remaining = 1..(Len(pending) - rw.acked)
      /\ \A p \in DOMAIN Remaining :
           /\ Remaining[p] = pending[rw.acked + p]
           /\ rw.acked + p \in DOMAIN pending
      /\ \A p \in DOMAIN pending :
           p > rw.acked => pending[p] \in Elems(Remaining)
      /\ Elems(Remaining) \subseteq Elems(pending)
  BY <1>3, RemainingFacts DEF IInv, TypeInv
<1>7. EventsOf(Remaining) = Elems(Remaining) \cap Events
  BY DEF EventsOf, Elems
<1>8. TypeInv'
  <2>1. TypeOK'
    BY <1>1, <1>5, <1>6, <1>7 DEF IInv, TypeInv, TypeOK
  <2> QED BY <1>1, <1>5, <2>1 DEF IInv, TypeInv
<1>9. received' = received /\ Owed' \subseteq Elems(Remaining)
  <2>1. received' = received /\ Owed' \subseteq Owed \cup Elems(Remaining)
    BY <1>1, <1>7 DEF received, Owed
  <2>2. Owed \subseteq Elems(Remaining)
    <3> SUFFICES ASSUME NEW e \in Owed PROVE e \in Elems(Remaining)
      OBVIOUS
    <3>1. /\ e \in Elems(pending) /\ e \in Events /\ e \notin received
      BY <1>1, OwedIsLoaded DEF IInv, OwedInv, Owed
    <3>2. PICK p \in DOMAIN pending : pending[p] = e
      BY <3>1 DEF Elems
    <3>3. p \in Nat /\ p > 0 /\ p \notin 1..rw.acked
      BY <1>3, <3>1, <3>2 DEF IInv, TypeInv, TypeOK
    <3>4. p > rw.acked
      BY <1>2, <3>3
    <3> QED BY <1>6, <3>2, <3>4
  <2> QED BY <2>1, <2>2
<1>10. Elems(Remaining) \subseteq OnMedium((Lower \cap ddir) \ rw.old)'
  <2> SUFFICES ASSUME NEW k \in 1..rw.done
               PROVE  Elems(rw.staged[k])
                        \subseteq OnMedium((Lower \cap ddir) \ rw.old)'
    BY <1>3, <1>4
  <2> DEFINE i == rw.base + k - 1
  <2>1. /\ i \in dir /\ segs[i] = rw.staged[k]
        /\ synced[i] = Len(rw.staged[k])
    BY <1>3
  <2>2. i >= rw.base /\ ~(i < rw.base) /\ i < rw.base + rw.done
    BY <1>2
  <2> HIDE DEF i
  <2>3. i \in (Lower' \cap ddir') \ rw'.old
    BY <1>1, <1>3, <1>5, <2>1, <2>2 DEF Lower
  <2>4. Elems(rw.staged[k]) = {segs'[i][p] : p \in 1..synced'[i]}
    BY <1>1, <1>4, <2>1
  <2> QED BY <2>3, <2>4 DEF OnMedium
<1>12. RewriteInv'
  BY <1>1, <1>9, <1>10 DEF RewriteInv, Rewriting
<1>13. OwedInv'
  <2>1. /\ OnMedium((Lower \cap ddir) \ rw.old)'
             \subseteq OnMedium(Lower \cap ddir)'
        /\ OnMedium((Lower \cap ddir) \ rw.old)' \subseteq OnMedium(Lower)'
    BY DEF OnMedium
  <2>2. OnMedium(Lower)' \subseteq LinesOf(Lower)'
    <3>1. Lower' \subseteq Indices
      BY <1>1 DEF Lower, IInv, TypeInv, TypeOK
    <3>2. OnMedium(Lower') \subseteq LinesOf(Lower')
      BY <3>1, MediumIsLines DEF IInv
    <3>3. segs' = segs /\ synced' = synced
      BY <1>1
    <3> QED BY <3>2, <3>3 DEF OnMedium, LinesOf
  <2>4. (hardened \ received)' \subseteq Owed'
    BY DEF Owed
  <2>6. Elems(pending)' = Elems(Remaining)
    BY <1>1
  <2> QED BY <1>9, <1>10, <2>1, <2>2, <2>4, <2>6 DEF OwedInv
<1>14. QuietInv'
  <2> SUFFICES ASSUME faults = 0, crashes = 0 PROVE QuietInv'
    BY <1>1 DEF QuietInv
  <2>1. /\ \A p, q \in DOMAIN pending : pending[p] = pending[q] => p = q
        /\ \A p \in DOMAIN pending : pending[p] \in Events /\ pending[p] < next
        /\ \A e \in Events : deliveries[e] <= 1
                             /\ (e >= next => deliveries[e] = 0)
        /\ Undelivered(Remaining)
        /\ LinesOf(dir \ rw.old) \subseteq Elems(Remaining)
    BY <1>1 DEF IInv, QuietInv, Rewriting
  <2>2. ASSUME NEW p \in DOMAIN Remaining, NEW q \in DOMAIN Remaining,
               Remaining[p] = Remaining[q]
        PROVE  p = q
    <3>1. rw.acked + p = rw.acked + q
      BY <1>6, <2>1, <2>2
    <3>2. p \in Nat /\ q \in Nat
      BY <1>6
    <3> QED BY <1>2, <3>1, <3>2
  <2>3. \A p \in DOMAIN Remaining : Remaining[p] \in Events
                                    /\ Remaining[p] < next
    BY <1>6, <2>1
  <2>4. /\ ~Rewriting' /\ Undelivered(pending)' = Undelivered(Remaining)
        /\ LinesOf(dir \ rw.old)' = LinesOf(dir \ rw.old)
        /\ Elems(pending)' = Elems(Remaining)
    BY <1>1 DEF Rewriting, Undelivered, LinesOf
  <2> QED BY <1>1, <2>1, <2>2, <2>3, <2>4 DEF QuietInv
<1> QED BY <1>8, <1>12, <1>13, <1>14 DEF IInv

\* The old generation may go, whole or in part.
LEMMA RemoveOldStep ==
  ASSUME IInv, NEW i \in Indices, NEW ok \in BOOLEAN, RemoveOld(i, ok)
  PROVE  IInv'
<1>1. /\ pc = "remove" /\ pc' = "remove" /\ i \in rw.old
      /\ rw' = [rw EXCEPT !.old = @ \ {i}]
      /\ \/ ok /\ dir' = dir \ {i} /\ faults' = faults
         \/ ~ok /\ dir' = dir /\ Fault
      /\ UNCHANGED <<segs, synced, ddir, pending, wal, running, phase, next,
                     accepted, deliveries, hardened, forfeited, overlooked,
                     crashes>>
  BY DEF RemoveOld, history
<1>2. /\ rw.acked \in Nat /\ rw.base \in Nat /\ rw.done \in Nat
      /\ rw.staged \in Seq(Seq(Records)) /\ rw.old \in SUBSET Indices
      /\ rw = [acked |-> rw.acked, staged |-> rw.staged, base |-> rw.base,
               done |-> rw.done, old |-> rw.old]
  BY RwFields DEF IInv, TypeInv
<1>3. rw' = [acked |-> rw.acked, staged |-> rw.staged, base |-> rw.base,
             done |-> rw.done, old |-> rw.old \ {i}]
  BY <1>1, <1>2
<1>4. /\ rw' \in [acked : Nat, staged : Seq(Seq(Records)), base : Nat,
                  done : Nat, old : SUBSET Indices]
      /\ rw'.old = rw.old \ {i}
  BY <1>2, <1>3
<1>5. faults' \in 0..MaxFaults /\ dir' \subseteq dir
  BY <1>1, FaultCounts DEF IInv, TypeInv, TypeOK
<1>6. TypeInv'
  <2>1. TypeOK'
    BY <1>1, <1>4, <1>5 DEF IInv, TypeInv, TypeOK
  <2> QED BY <1>1, <2>1 DEF IInv, TypeInv
<1>7. received' = received /\ Owed' = Owed
  BY <1>1 DEF received, Owed
<1>8. (Lower \cap ddir) \ rw.old \subseteq (Lower' \cap ddir') \ rw'.old
  BY <1>1, <1>4 DEF Lower
<1>9. Owed \subseteq OnMedium((Lower \cap ddir) \ rw.old)
  BY <1>1 DEF IInv, RewriteInv
<1>10. OnMedium((Lower \cap ddir) \ rw.old)
          \subseteq OnMedium((Lower \cap ddir) \ rw.old)'
  BY <1>1, <1>8 DEF OnMedium
<1>11. RewriteInv'
  BY <1>1, <1>7, <1>9, <1>10 DEF RewriteInv, Rewriting
<1>12. OwedInv'
  <2>1. /\ OnMedium((Lower \cap ddir) \ rw.old)'
             \subseteq OnMedium(Lower \cap ddir)'
        /\ OnMedium((Lower \cap ddir) \ rw.old)' \subseteq OnMedium(Lower)'
    BY DEF OnMedium
  <2>2. OnMedium(Lower)' \subseteq LinesOf(Lower)'
    <3>1. Lower' \subseteq Indices
      BY <1>5 DEF Lower, IInv, TypeInv, TypeOK
    <3>2. OnMedium(Lower') \subseteq LinesOf(Lower')
      BY <3>1, MediumIsLines DEF IInv
    <3>3. segs' = segs /\ synced' = synced
      BY <1>1
    <3> QED BY <3>2, <3>3 DEF OnMedium, LinesOf
  <2>3. hardened' \ received' \subseteq Owed
    BY <1>1, <1>7 DEF Owed
  <2>4. Elems(pending)' = Elems(pending)
    BY <1>1
  <2> QED BY <1>1, <1>7, <1>9, <1>10, <2>1, <2>2, <2>3, <2>4
          DEF IInv, OwedInv
<1>13. QuietInv'
  <2> SUFFICES ASSUME faults' = 0, crashes = 0 PROVE QuietInv'
    BY <1>1 DEF QuietInv
  <2>1. ok /\ dir' = dir \ {i} /\ faults = 0
    BY <1>1, FaultCounts DEF IInv, TypeInv
  <2>2. dir' \ rw'.old = dir \ rw.old
    BY <1>1, <1>4, <2>1
  <2>3. /\ LinesOf(dir \ rw.old)' = LinesOf(dir \ rw.old)
        /\ ~Rewriting /\ ~Rewriting' /\ Elems(pending)' = Elems(pending)
        /\ Undelivered(pending)' = Undelivered(pending)
    BY <1>1, <2>2 DEF LinesOf, Rewriting, Undelivered
  <2> QED BY <1>1, <2>1, <2>3 DEF IInv, QuietInv
<1> QED BY <1>6, <1>11, <1>12, <1>13 DEF IInv

\* With the old generation gone the rewrite is over.
LEMMA CleanedUpStep ==
  ASSUME IInv, NEW ok \in BOOLEAN, CleanedUp(ok) PROVE IInv'
<1>1. /\ pc = "remove" /\ rw.old = {} /\ rw' = NoRewrite
      /\ pc' \in {"flush", "head"}
      /\ \/ ok /\ ddir' = dir /\ faults' = faults
         \/ ~ok /\ ddir' = ddir /\ Fault
      /\ UNCHANGED <<segs, dir, synced, pending, wal, running, phase, next,
                     accepted, deliveries, hardened, forfeited, overlooked,
                     crashes>>
  BY DEF CleanedUp, AfterRewrite, history
<1>2. faults' \in 0..MaxFaults
  BY <1>1, FaultCounts DEF IInv, TypeInv, TypeOK
<1>3. TypeInv'
  <2>1. TypeOK'
    BY <1>1, <1>2, NoRewriteFacts DEF IInv, TypeInv, TypeOK
  <2> QED BY <1>1, <2>1 DEF IInv, TypeInv
<1>4. /\ received' = received /\ Owed' = Owed
      /\ LinesOf(dir)' = LinesOf(dir)
  BY <1>1 DEF received, Owed, LinesOf
<1>5. OwedInv'
  <2>1. Lower' = Lower /\ Lower \cap ddir \subseteq Lower' \cap ddir'
    BY <1>1 DEF Lower
  <2>2. /\ OnMedium(Lower \cap ddir) \subseteq OnMedium(Lower \cap ddir)'
        /\ LinesOf(Lower)' = LinesOf(Lower)
    BY <1>1, <2>1 DEF OnMedium, LinesOf
  <2> QED BY <1>1, <1>4, <2>2 DEF IInv, OwedInv
<1>6. RewriteInv'
  BY <1>1, NoRewriting
<1>7. QuietInv'
  <2> SUFFICES ASSUME faults' = 0, crashes = 0 PROVE QuietInv'
    BY <1>1 DEF QuietInv
  <2>1. faults = 0 /\ dir \ rw.old = dir
    BY <1>1, FaultCounts DEF IInv, TypeInv
  <2>2. /\ ~Rewriting /\ ~Rewriting' /\ Elems(pending)' = Elems(pending)
        /\ Undelivered(pending)' = Undelivered(pending)
        /\ LinesOf(dir) \subseteq Elems(pending)
    BY <1>1, <2>1 DEF Rewriting, Undelivered, IInv, QuietInv
  <2> QED BY <1>1, <1>4, <2>1, <2>2 DEF IInv, QuietInv
<1> QED BY <1>3, <1>5, <1>6, <1>7 DEF IInv

\* A step that changes nothing.
LEMMA StutterStep == ASSUME IInv, UNCHANGED vars PROVE IInv'
<1>1. /\ UNCHANGED <<segs, dir, synced, ddir, pending, wal, running, pc,
                     phase, rw, next, accepted, deliveries, hardened,
                     forfeited, overlooked, faults, crashes>>
  BY DEF vars, disk, history
<1>2. TypeInv'
  BY <1>1 DEF IInv, TypeInv, TypeOK, Elems
<1>3. /\ received' = received /\ Owed' = Owed /\ Rewriting' = Rewriting
      /\ Remaining' = Remaining /\ LinesOf(dir)' = LinesOf(dir)
      /\ LinesOf(dir \ rw.old)' = LinesOf(dir \ rw.old)
      /\ LinesOf(Lower)' = LinesOf(Lower)
      /\ OnMedium(Lower \cap ddir)' = OnMedium(Lower \cap ddir)
      /\ OnMedium((Lower \cap ddir) \ rw.old)'
           = OnMedium((Lower \cap ddir) \ rw.old)
  BY <1>1 DEF received, Owed, Rewriting, Remaining, LinesOf, Lower, OnMedium
<1>4. /\ Elems(pending)' = Elems(pending)
      /\ Elems(Remaining)' = Elems(Remaining)
      /\ Undelivered(IF Rewriting THEN Remaining ELSE pending)'
           = Undelivered(IF Rewriting THEN Remaining ELSE pending)
  BY <1>1, <1>3 DEF Undelivered
<1>5. OwedInv'
  BY <1>1, <1>3, <1>4 DEF IInv, OwedInv
<1>6. RewriteInv'
  BY <1>1, <1>3, <1>4 DEF IInv, RewriteInv
<1>7. QuietInv'
  BY <1>1, <1>3, <1>4 DEF IInv, QuietInv
<1> QED BY <1>2, <1>5, <1>6, <1>7 DEF IInv

\* Every step keeps the invariant: the worker's, its failures, the calls of
\* start and stop, and the deaths of the process (NetworkEventSink).
LEMMA NextIInv == IInv /\ [Next]_vars => IInv'
<1> SUFFICES ASSUME IInv, [Next]_vars PROVE IInv'
  OBVIOUS
<1>1. ASSUME NEW listed \in {dir, {}}, NEW read \in Readings(listed),
             start(read)
      PROVE  IInv'
  BY <1>1, StartStep
<1>2. CASE stop
  BY <1>2, StopStep
<1>3. CASE Worker
  <2>1. CASE LoopHead \/ DropOverLimit \/ append_wal
    BY <2>1, LoopHeadStep, DropStep, AppendStep
  <2>6. ASSUME NEW over \in BOOLEAN, Drained(over) PROVE IInv'
    BY <2>6, DrainedStep
  <2>2. CASE NoFlush \/ PostAcknowledged
    BY <2>2, NoFlushStep, PostAcknowledgedStep
  <2>3. CASE Stage(TRUE) \/ Rename \/ Publish
    BY <2>3, StageStep, RenameStep, PublishStep
  <2>4. ASSUME NEW i \in Indices, RemoveOld(i, TRUE) PROVE IInv'
    BY <2>4, RemoveOldStep
  <2>5. CASE CleanedUp(TRUE)
    BY <2>5, CleanedUpStep
  <2> QED BY <1>3, <2>1, <2>2, <2>3, <2>4, <2>5, <2>6 DEF Worker
<1>4. CASE Faulty
  <2>1. ASSUME NEW torn \in BOOLEAN, AppendFails(torn) PROVE IInv'
    BY <2>1, AppendFailsStep
  <2>2. ASSUME NEW arrived \in BOOLEAN, PostFails(arrived) PROVE IInv'
    BY <2>2, PostFailsStep
  <2>3. CASE Stage(FALSE) \/ RewriteFails
    BY <2>3, StageStep, RewriteFailsStep
  <2>4. ASSUME NEW i \in Indices, RemoveOld(i, FALSE) PROVE IInv'
    BY <2>4, RemoveOldStep
  <2>5. CASE CleanedUp(FALSE)
    BY <2>5, CleanedUpStep
  <2> QED BY <1>4, <2>1, <2>2, <2>3, <2>4, <2>5 DEF Faulty
<1>5. CASE Kill
  BY <1>5, KillStep
<1>6. CASE PowerCut
  BY <1>6, PowerCutStep
<1>7. CASE UNCHANGED vars
  BY <1>7, StutterStep
<1> QED BY <1>1, <1>2, <1>3, <1>4, <1>5, <1>6, <1>7 DEF Next

---------------------------------------------------------------------------
\* The invariant holds in every state of NetworkEventSink, whatever fails.
THEOREM InductiveInvariant == Spec => []IInv
BY InitIInv, NextIInv, PTL DEF Spec

\* Every variable keeps its type, and the log, the batch and the locals of a
\* rewrite stay within their bounds.
THEOREM TypeCorrect == Spec => []TypeOK
<1>1. IInv => TypeOK
  BY DEF IInv, TypeInv
<1> QED BY <1>1, InductiveInvariant, PTL

\* An accepted event the server has not seen is always in a segment, whatever
\* call of the file system fails, in any number, and whatever a misread
\* directory makes start and a rewrite write over, provided that a failing
\* append leaves nothing behind.  Not so what a load_wal failed to read, which
\* the next rewrite removes, until a later load_wal has read it.
THEOREM AtLeastOnceCorrect ==
  ASSUME ~TornAppends
  PROVE  Spec => []AtLeastOnce
<1>1. IInv => AtLeastOnce
  <2> SUFFICES ASSUME IInv PROVE AtLeastOnce
    OBVIOUS
  <2>1. Owed \subseteq LinesOf(dir)
    BY LowerFacts DEF IInv, OwedInv
  <2>2. accepted \ (received \cup forfeited \cup overlooked) \subseteq Owed
    BY DEF Owed
  <2> QED BY <2>1, <2>2 DEF AtLeastOnce
<1> QED BY <1>1, InductiveInvariant, PTL

\* What rewrite_wal_locked has put on the medium and the server has not seen
\* survives a power cut at any time, with torn appends or without, as long as
\* every load_wal after it has read it.
THEOREM DurableBacklogCorrect == Spec => []DurableBacklog
<1>1. IInv => DurableBacklog
  BY LowerFacts DEF IInv, OwedInv, DurableBacklog, OnMedium
<1> QED BY <1>1, InductiveInvariant, PTL

\* Without a failure or a death no event is posted twice, whatever is stopped,
\* started again or compacted meanwhile.
THEOREM NoDuplicatesCorrect == Spec => []NoNeedlessDuplicates
<1>1. IInv => NoNeedlessDuplicates
  BY DEF IInv, QuietInv, NoNeedlessDuplicates
<1> QED BY <1>1, InductiveInvariant, PTL
=============================================================================
