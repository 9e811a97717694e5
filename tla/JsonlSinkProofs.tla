--------------------------- MODULE JsonlSinkProofs ---------------------------
(***************************************************************************)
(* Proofs about JsonlSink for any events, sizes, limits, failures and      *)
(* kills.                                                                  *)
(*                                                                         *)
(* What the sink vouches for is settled when the worker leaves             *)
(* fsync_if_allowed, and stays so.  The limiter's count bounds the syncs   *)
(* since its start, and MaxSyncs those of the minute before.  The cache    *)
(* limit knows the sum of the sizes that are left, and when only the files *)
(* of the newest event are left, that sum is within the limit.             *)
(***************************************************************************)
EXTENDS JsonlSink, SumLemmas

Busy == pc \notin {"down", "head"}

\* The worker has written the event it is about.
Written == Busy /\ pc \notin {"open", "write"}

Synced == Written /\ pc \notin {"summary", "sync"}

\* The streams write the file of part, which is in the directory, and only
\* the cache limit takes files away.
StreamInv ==
  /\ ddir \subseteq dir \cup removed
  /\ stream.part = 0 => stream = Closed
  /\ stream.part # 0 =>
       /\ <<"jsonl", part>> \in dir
       /\ ~needs_directory_sync => <<"jsonl", part>> \in ddir
  /\ pc \in {"down", "open", "rotated"} => stream.part = 0
  /\ pc \in {"write", "summary", "sync"} => stream.part # 0
  /\ pc \in {"summary", "sync"} => ~stream.bad
  /\ summary.part \in {0, part}
  /\ summary.part = 0 => summary = NoSummary

\* No file has more lines than rotation allows.
SizeInv ==
  /\ pc \notin {"summary", "sync", "rotate", "rotated"} =>
       current_size < RotateLines
  /\ stream.part # 0 => Len(files[part]) + Len(stream.buf) <= current_size
  /\ summary.part # 0 => sums[part] + summary.buf <= current_size
  /\ pc = "summary" /\ summary.part # 0 =>
       sums[part] + summary.buf < current_size
  /\ \A p \in Parts : Len(files[p]) <= RotateLines /\ sums[p] <= RotateLines
  /\ \A p \in Parts : p > part => files[p] = <<>> /\ sums[p] = 0

\* Which event the worker is about.
EventInv ==
  /\ pc \in {"down", "head"} => event = 0
  /\ Busy => event \in Events /\ event + 1 = next /\ event \notin done
  /\ \A d \in done : d < next
  /\ \A d \in Events : home[d] # 0 => d < next
  /\ pc \in {"open", "write"} => home[event] = 0
  /\ pc \in {"summary", "sync"} => home[event] = part

\* Which events are where.
HomeInv ==
  /\ pc \in {"summary", "sync"} =>
       event \in LinesOf(files[part]) \cup LinesOf(stream.buf)
  /\ \A d \in Events : home[d] <= part
  /\ \A d, e \in Events : d < e /\ home[d] # 0 /\ home[e] # 0 =>
       home[d] <= home[e]
  /\ \A p \in Parts : \A d \in LinesOf(files[p]) : home[d] = p
  /\ \A d \in LinesOf(stream.buf) : home[d] = part
  /\ \A p \in Parts : sums[p] # 0 => \E d \in Events : home[d] = p
  /\ summary.buf # 0 => \E d \in Events : home[d] = part

Settled(e) ==
  critical_fsync /\ e \in CriticalEvents \ failed =>
    /\ InFile(e)
    /\ FileOf(e) \in dir \cup removed
    /\ e \notin limited => e \in medium /\ FileOf(e) \in ddir \cup removed

SettledInv ==
  /\ \A e \in done : Settled(e)
  /\ Synced => Settled(event)

Between(a, b) == {u \in 0..MaxTime : a <= u /\ u < b}

\* What a limiter m may know of the syncs w.
Limits(w, m) ==
  /\ \A u \in 0..MaxTime :
       u > now \/ u >= m.start + Minute => w[u] = 0
  /\ SumOver(w, Between(m.start, MaxTime + 1)) <= m.count
  /\ \A t \in 0..MaxTime :
       t + Minute > m.start => SumOver(w, Between(t, m.start)) <= MaxSyncs

SyncInv == Limits(syncs, limiter)

Sizes == [f \in Files |-> SizeOf(f)]

\* What the cache limit knows of the files.
ScanInv ==
  pc = "remove" =>
    scan.total = SumOver(Sizes, scan.todo) /\ scan.total > CacheLines

IInv == /\ TypeOK /\ StreamInv /\ SizeInv /\ EventInv /\ HomeInv
        /\ SettledInv /\ SyncInv /\ SyncRate /\ ScanInv

---------------------------------------------------------------------------
(***************************************************************************)
(* The streams and their files.                                            *)
(***************************************************************************)
\* The constants that bound the model.
LEMMA Bounds ==
  /\ MaxEvents \in Nat /\ MaxTime \in Nat /\ MaxParts \in Nat
  /\ MaxSyncs \in Nat /\ Minute \in Nat \ {0} /\ RotateLines \in Nat \ {0}
  /\ CacheLines \in Nat \ {0} /\ BufferLines \in Nat
  /\ MaxFaults \in Nat /\ MaxKills \in Nat
  /\ critical_fsync \in BOOLEAN
BY JsonlSizesAssumption, JsonlBoundsAssumption

\* What a concatenation holds.
LEMMA ConcatFacts ==
  ASSUME NEW S, NEW a \in Seq(S), NEW b \in Seq(S)
  PROVE  /\ a \o b \in Seq(S) /\ Len(a \o b) = Len(a) + Len(b)
         /\ LinesOf(a \o b) = LinesOf(a) \cup LinesOf(b)
<1>1. /\ Len(a) \in Nat /\ DOMAIN a = 1..Len(a)
      /\ Len(b) \in Nat /\ DOMAIN b = 1..Len(b)
  OBVIOUS
<1>2. /\ a \o b \in Seq(S) /\ Len(a \o b) = Len(a) + Len(b)
      /\ DOMAIN (a \o b) = 1..(Len(a) + Len(b))
      /\ \A q \in 1..Len(a) : (a \o b)[q] = a[q]
      /\ \A q \in 1..Len(b) : (a \o b)[Len(a) + q] = b[q]
  OBVIOUS
<1>3. /\ \A q \in 1..Len(a) : q \in 1..(Len(a) + Len(b))
      /\ \A q \in 1..Len(b) : Len(a) + q \in 1..(Len(a) + Len(b))
      /\ \A q \in 1..(Len(a) + Len(b)) :
           q \in 1..Len(a)
           \/ (q - Len(a) \in 1..Len(b) /\ Len(a) + (q - Len(a)) = q)
  BY <1>1
<1>4. LinesOf(a) \subseteq LinesOf(a \o b)
  BY <1>1, <1>2, <1>3 DEF LinesOf
<1>5. LinesOf(b) \subseteq LinesOf(a \o b)
  <2>1. ASSUME NEW q \in 1..Len(b) PROVE b[q] \in LinesOf(a \o b)
    <3>1. Len(a) + q \in DOMAIN (a \o b) /\ (a \o b)[Len(a) + q] = b[q]
      BY <1>2, <1>3
    <3> QED BY <3>1 DEF LinesOf
  <2> QED BY <1>1, <2>1 DEF LinesOf
<1>6. ASSUME NEW q \in 1..(Len(a) + Len(b))
      PROVE  (a \o b)[q] \in LinesOf(a) \cup LinesOf(b)
  <2>1. CASE q \in 1..Len(a)
    BY <1>1, <1>2, <2>1 DEF LinesOf
  <2>2. CASE q - Len(a) \in 1..Len(b) /\ Len(a) + (q - Len(a)) = q
    <3>1. (a \o b)[q] = b[q - Len(a)]
      BY <1>2, <2>2
    <3> QED BY <1>1, <2>2, <3>1 DEF LinesOf
  <2> QED BY <1>3, <2>1, <2>2
<1>7. LinesOf(a \o b) \subseteq LinesOf(a) \cup LinesOf(b)
  BY <1>2, <1>6 DEF LinesOf
<1> QED BY <1>2, <1>4, <1>5, <1>7

\* What k lines leave of a buffer.
Rest(buf, k) == SubSeq(buf, k + 1, Len(buf))

\* The two parts of a buffer.
LEMMA RestFacts ==
  ASSUME NEW S, NEW buf \in Seq(S), NEW k \in 0..Len(buf)
  PROVE  /\ SubSeq(buf, 1, k) \in Seq(S) /\ Len(SubSeq(buf, 1, k)) = k
         /\ Rest(buf, k) \in Seq(S) /\ Len(Rest(buf, k)) = Len(buf) - k
         /\ LinesOf(buf) = LinesOf(SubSeq(buf, 1, k)) \cup LinesOf(Rest(buf, k))
<1> DEFINE b == SubSeq(buf, 1, k)
           rest == Rest(buf, k)
<1>1. /\ b \in Seq(S) /\ Len(b) = k /\ DOMAIN b = 1..k
      /\ \A q \in 1..k : b[q] = buf[q]
      /\ k \in Nat /\ Len(buf) \in Nat /\ k <= Len(buf)
      /\ DOMAIN buf = 1..Len(buf)
  OBVIOUS
<1>2. /\ rest \in Seq(S) /\ Len(rest) = Len(buf) - k
      /\ DOMAIN rest = 1..(Len(buf) - k)
      /\ \A q \in 1..(Len(buf) - k) : rest[q] = buf[q + k]
  BY DEF Rest
<1> HIDE DEF b, rest
<1>3. /\ \A q \in 1..k : q \in 1..Len(buf)
      /\ \A q \in 1..(Len(buf) - k) : q + k \in 1..Len(buf)
      /\ \A q \in 1..Len(buf) :
           q \in 1..k \/ (q - k \in 1..(Len(buf) - k) /\ (q - k) + k = q)
  BY <1>1
<1>4. LinesOf(b) \subseteq LinesOf(buf)
  BY <1>1, <1>3 DEF LinesOf
<1>5. LinesOf(rest) \subseteq LinesOf(buf)
  <2>1. ASSUME NEW q \in 1..(Len(buf) - k)
        PROVE  rest[q] \in LinesOf(buf)
    <3>1. q + k \in DOMAIN buf /\ rest[q] = buf[q + k]
      BY <1>1, <1>2, <1>3
    <3> QED BY <3>1 DEF LinesOf
  <2> QED BY <1>2, <2>1 DEF LinesOf
<1>6. ASSUME NEW q \in 1..Len(buf)
      PROVE  buf[q] \in LinesOf(b) \cup LinesOf(rest)
  <2>1. CASE q \in 1..k
    BY <1>1, <2>1 DEF LinesOf
  <2>2. CASE q - k \in 1..(Len(buf) - k) /\ (q - k) + k = q
    <3>1. rest[q - k] = buf[q]
      BY <1>2, <2>2
    <3> QED BY <1>2, <2>2, <3>1 DEF LinesOf
  <2> QED BY <1>3, <2>1, <2>2
<1>7. LinesOf(buf) \subseteq LinesOf(b) \cup LinesOf(rest)
  BY <1>1, <1>6 DEF LinesOf
<1>8. LinesOf(buf) = LinesOf(b) \cup LinesOf(rest)
  BY <1>4, <1>5, <1>7
<1> QED BY <1>1, <1>2, <1>8 DEF b, rest

\* The files after the first k lines of a buffer went to file p.
Extended(F, p, buf, k) == [F EXCEPT ![p] = @ \o SubSeq(buf, 1, k)]

\* What that leaves in the file and in the buffer.
LEMMA ReachFacts ==
  ASSUME NEW F \in [Parts -> Seq(Events)], NEW p \in Parts,
         NEW buf \in Seq(Events), NEW k \in 0..Len(buf)
  PROVE  /\ Extended(F, p, buf, k) \in [Parts -> Seq(Events)]
         /\ \A q \in Parts : q # p => Extended(F, p, buf, k)[q] = F[q]
         /\ Len(Extended(F, p, buf, k)[p]) = Len(F[p]) + k
         /\ LinesOf(F[p]) \subseteq LinesOf(Extended(F, p, buf, k)[p])
         /\ LinesOf(Extended(F, p, buf, k)[p])
              \subseteq LinesOf(F[p]) \cup LinesOf(buf)
         /\ Rest(buf, k) \in Seq(Events) /\ Len(Rest(buf, k)) = Len(buf) - k
         /\ LinesOf(Rest(buf, k)) \subseteq LinesOf(buf)
         /\ LinesOf(F[p]) \cup LinesOf(buf)
              = LinesOf(Extended(F, p, buf, k)[p]) \cup LinesOf(Rest(buf, k))
<1> DEFINE a == F[p]
           b == SubSeq(buf, 1, k)
           G == Extended(F, p, buf, k)
<1>1. /\ b \in Seq(Events) /\ Len(b) = k
      /\ Rest(buf, k) \in Seq(Events) /\ Len(Rest(buf, k)) = Len(buf) - k
      /\ LinesOf(buf) = LinesOf(b) \cup LinesOf(Rest(buf, k))
  BY RestFacts
<1>2. G[p] = a \o b /\ \A q \in Parts : q # p => G[q] = F[q]
  BY DEF Extended
<1>3. a \in Seq(Events)
  OBVIOUS
<1> HIDE DEF a, b, G
<1>4. a \o b \in Seq(Events)
  BY <1>1, <1>3, ConcatFacts
<1>6. Len(a \o b) = Len(a) + Len(b)
  BY <1>1, <1>3, ConcatFacts
<1>7. LinesOf(a \o b) = LinesOf(a) \cup LinesOf(b)
  BY <1>1, <1>3, ConcatFacts
<1>5. G \in [Parts -> Seq(Events)]
  BY <1>2, <1>4 DEF Extended, a, b, G
<1> QED BY <1>1, <1>2, <1>4, <1>5, <1>6, <1>7 DEF a, G

\* A buffer after a line was added to it.
LEMMA AppendFacts ==
  ASSUME NEW buf \in Seq(Events), NEW e \in Events
  PROVE  /\ Append(buf, e) \in Seq(Events)
         /\ Len(Append(buf, e)) = Len(buf) + 1
         /\ LinesOf(Append(buf, e)) = LinesOf(buf) \cup {e}
<1>1. /\ Append(buf, e) \in Seq(Events)
      /\ Len(Append(buf, e)) = Len(buf) + 1
      /\ DOMAIN Append(buf, e) = 1..(Len(buf) + 1)
      /\ DOMAIN buf = 1..Len(buf)
      /\ \A q \in 1..Len(buf) : Append(buf, e)[q] = buf[q]
      /\ Append(buf, e)[Len(buf) + 1] = e
  OBVIOUS
<1>2. 1..(Len(buf) + 1) = 1..Len(buf) \cup {Len(buf) + 1}
  OBVIOUS
<1> QED BY <1>1, <1>2 DEF LinesOf

\* What a step does with the streams when it writes no new line: some of the
\* buffer reaches the file, and the stream is closed or keeps the rest.
Shifted ==
  /\ files' \in [Parts -> Seq(Events)]
  /\ \A p \in Parts : LinesOf(files[p]) \subseteq LinesOf(files'[p])
  /\ \A p \in Parts : p # stream.part => files'[p] = files[p]
  /\ stream.part # 0 =>
       /\ LinesOf(files'[part]) \subseteq
            LinesOf(files[part]) \cup LinesOf(stream.buf)
       /\ Len(files'[part]) <= Len(files[part]) + Len(stream.buf)
  /\ \/ stream' = Closed
     \/ /\ stream'.part = stream.part /\ stream'.bad \in BOOLEAN
        /\ stream' \in [part : {0, part}, bad : BOOLEAN, buf : Seq(Events)]
        /\ LinesOf(stream'.buf) \subseteq LinesOf(stream.buf)
        /\ stream.part # 0 =>
             Len(files'[part]) + Len(stream'.buf)
               <= Len(files[part]) + Len(stream.buf)
        /\ stream.part = 0 => stream' = stream

\* The types the lemmas about the streams need.
LEMMA StreamFacts ==
  ASSUME TypeOK
  PROVE  /\ files \in [Parts -> Seq(Events)]
         /\ stream \in [part : {0, part}, bad : BOOLEAN, buf : Seq(Events)]
         /\ stream.part \in {0, part} /\ stream.buf \in Seq(Events)
         /\ stream.bad \in BOOLEAN /\ part \in 0..MaxParts
         /\ stream.part # 0 => stream.part = part /\ part \in Parts
         /\ \A p \in Parts : files[p] \in Seq(Events) /\ Len(files[p]) \in Nat
         /\ Len(stream.buf) \in Nat
BY Bounds DEF TypeOK, Parts

\* Writing and closing.
LEMMA ReachClosed ==
  ASSUME TypeOK, stream.part # 0,
         NEW k \in 0..Len(stream.buf), Reach(stream, k), stream' = Closed
  PROVE  Shifted
<1> DEFINE p == stream.part
           buf == stream.buf
<1>1. /\ files \in [Parts -> Seq(Events)] /\ p \in Parts /\ p = part
      /\ buf \in Seq(Events) /\ k \in 0..Len(buf) /\ k <= Len(buf)
      /\ Len(files[p]) \in Nat /\ Len(buf) \in Nat /\ k \in Nat
  BY StreamFacts
<1>2. files' = Extended(files, p, buf, k)
  BY DEF Reach, Extended
<1> HIDE DEF p, buf
<1>3. /\ files' \in [Parts -> Seq(Events)]
      /\ \A q \in Parts : q # p => files'[q] = files[q]
      /\ Len(files'[p]) = Len(files[p]) + k
      /\ LinesOf(files[p]) \subseteq LinesOf(files'[p])
      /\ LinesOf(files'[p]) \subseteq LinesOf(files[p]) \cup LinesOf(buf)
  <2>1. files' \in [Parts -> Seq(Events)]
    BY <1>1, <1>2, ReachFacts
  <2>2. \A q \in Parts : q # p => files'[q] = files[q]
    BY <1>1, <1>2, ReachFacts
  <2>3. Len(files'[p]) = Len(files[p]) + k
    BY <1>1, <1>2, ReachFacts
  <2>4. LinesOf(files[p]) \subseteq LinesOf(files'[p])
    BY <1>1, <1>2, ReachFacts
  <2>5. LinesOf(files'[p]) \subseteq LinesOf(files[p]) \cup LinesOf(buf)
    BY <1>1, <1>2, ReachFacts
  <2> QED BY <2>1, <2>2, <2>3, <2>4, <2>5
<1>4. Len(files'[p]) <= Len(files[p]) + Len(buf)
  BY <1>1, <1>3
<1> QED BY <1>1, <1>3, <1>4 DEF Shifted, p, buf

\* Writing and going on.
LEMMA ReachOpen ==
  ASSUME TypeOK, stream.part # 0, NEW bad \in BOOLEAN,
         NEW k \in 0..Len(stream.buf), Reach(stream, k),
         stream' = [part |-> stream.part, bad |-> bad,
                    buf |-> Rest(stream.buf, k)]
  PROVE  /\ Shifted
         /\ stream'.part = stream.part /\ stream'.bad = bad
         /\ LinesOf(files[part]) \cup LinesOf(stream.buf)
              = LinesOf(files'[part]) \cup LinesOf(stream'.buf)
<1> DEFINE p == stream.part
           buf == stream.buf
           rest == Rest(buf, k)
<1>1. /\ files \in [Parts -> Seq(Events)] /\ p \in Parts /\ p = part
      /\ buf \in Seq(Events) /\ k \in 0..Len(buf) /\ k <= Len(buf)
      /\ Len(files[p]) \in Nat /\ Len(buf) \in Nat /\ k \in Nat
  BY StreamFacts
<1>2. files' = Extended(files, p, buf, k)
  BY DEF Reach, Extended
<1>3. stream'.part = p /\ stream'.bad = bad /\ stream'.buf = rest
  OBVIOUS
<1> HIDE DEF p, buf
<1>4. /\ files' \in [Parts -> Seq(Events)]
      /\ \A q \in Parts : q # p => files'[q] = files[q]
      /\ Len(files'[p]) = Len(files[p]) + k
      /\ LinesOf(files[p]) \subseteq LinesOf(files'[p])
      /\ LinesOf(files'[p]) \subseteq LinesOf(files[p]) \cup LinesOf(buf)
      /\ rest \in Seq(Events) /\ Len(rest) = Len(buf) - k
      /\ LinesOf(rest) \subseteq LinesOf(buf)
      /\ LinesOf(files[p]) \cup LinesOf(buf)
           = LinesOf(files'[p]) \cup LinesOf(rest)
  <2>1. files' \in [Parts -> Seq(Events)]
    BY <1>1, <1>2, ReachFacts
  <2>2. \A q \in Parts : q # p => files'[q] = files[q]
    BY <1>1, <1>2, ReachFacts
  <2>3. Len(files'[p]) = Len(files[p]) + k
    BY <1>1, <1>2, ReachFacts
  <2>4. LinesOf(files[p]) \subseteq LinesOf(files'[p])
    BY <1>1, <1>2, ReachFacts
  <2>5. LinesOf(files'[p]) \subseteq LinesOf(files[p]) \cup LinesOf(buf)
    BY <1>1, <1>2, ReachFacts
  <2>6. rest \in Seq(Events) /\ Len(rest) = Len(buf) - k
    BY <1>1, <1>2, ReachFacts
  <2>7. LinesOf(rest) \subseteq LinesOf(buf)
    BY <1>1, <1>2, ReachFacts
  <2>8. LinesOf(files[p]) \cup LinesOf(buf)
           = LinesOf(files'[p]) \cup LinesOf(rest)
    BY <1>1, <1>2, ReachFacts
  <2> QED BY <2>1, <2>2, <2>3, <2>4, <2>5, <2>6, <2>7, <2>8
<1>5. stream' = [part |-> p, bad |-> bad, buf |-> rest]
  BY DEF p, buf
<1> HIDE DEF rest
<1>6. /\ Len(files'[p]) <= Len(files[p]) + Len(buf)
      /\ Len(files'[p]) + Len(rest) <= Len(files[p]) + Len(buf)
  BY <1>1, <1>4
<1>7. stream' \in [part : {0, part}, bad : BOOLEAN, buf : Seq(Events)]
  BY <1>1, <1>4, <1>5
<1>8. p # 0
  BY DEF p
<1> QED BY <1>1, <1>3, <1>4, <1>6, <1>7, <1>8 DEF Shifted, p, buf

\* A step that leaves files and stream alone.
LEMMA NothingShifted ==
  ASSUME TypeOK, UNCHANGED <<files, stream>>
  PROVE  Shifted
<1>1. stream.part # 0 => Len(files[part]) <= Len(files[part]) + Len(stream.buf)
  BY StreamFacts
<1>2. stream.part # 0 => Len(files[part]) + Len(stream.buf)
                           <= Len(files[part]) + Len(stream.buf)
  BY StreamFacts
<1> QED BY <1>1, <1>2, StreamFacts DEF Shifted

\* Closing writes what the stream held, or a part of it.
LEMMA CloseShifts ==
  ASSUME TypeOK, CloseStream
  PROVE  Shifted /\ stream' = Closed /\ summary' = NoSummary
<1>1. CASE stream.part = 0
  BY <1>1, StreamFacts DEF CloseStream, Shifted
<1>2. CASE stream.part # 0
  BY <1>2, ReachClosed DEF CloseStream
<1> QED BY <1>1, <1>2 DEF CloseStream

\* After a flush every line is in the file.
LEMMA FlushShifts ==
  ASSUME TypeOK, Flushed, stream.part # 0
  PROVE  /\ Shifted
         /\ stream'.part = stream.part /\ stream'.bad = stream.bad
         /\ LinesOf(files[part]) \cup LinesOf(stream.buf)
              = LinesOf(files'[part])
<1> DEFINE k == Len(stream.buf)
<1>1. k \in 0..Len(stream.buf) /\ Reach(stream, k)
  BY StreamFacts DEF Flushed
<1>2. Rest(stream.buf, k) = <<>>
  BY StreamFacts DEF Rest
<1>3. stream' = [part |-> stream.part, bad |-> stream.bad,
                 buf |-> Rest(stream.buf, k)]
  BY <1>2, StreamFacts DEF Flushed
<1>4. stream'.buf = <<>>
  BY StreamFacts DEF Flushed
<1>5. LinesOf(<<>>) = {}
  BY DEF LinesOf
<1> HIDE DEF k
<1> QED BY <1>1, <1>3, <1>4, <1>5, ReachOpen, StreamFacts

---------------------------------------------------------------------------
(***************************************************************************)
(* Every variable keeps its type.                                          *)
(***************************************************************************)
\* Every stretch of time is finite.
LEMMA BetweenFacts ==
  ASSUME NEW a, NEW b
  PROVE  Between(a, b) \subseteq 0..MaxTime /\ IsFiniteSet(Between(a, b))
<1>1. Between(a, b) \subseteq 0..MaxTime
  BY DEF Between
<1>2. IsFiniteSet(0..MaxTime)
  BY Bounds, FS_Interval
<1> QED BY <1>1, <1>2, FS_Subset

\* The invariant holds at first.
LEMMA InitIInv == Init => IInv
<1> SUFFICES ASSUME Init PROVE IInv
  OBVIOUS
<1>1. TypeOK
  <2>1. <<>> \in Seq(Events) /\ 0 \in Nat /\ {} \in SUBSET Files
    OBVIOUS
  <2>2. files \in [Parts -> Seq(Events)]
    BY <2>1 DEF Init
  <2>3. stream \in [part : {0, part}, bad : BOOLEAN, buf : Seq(Events)]
    BY <2>1 DEF Init, Closed
  <2>4. summary \in [part : 0..MaxParts, buf : 0..BufferLines]
    BY Bounds DEF Init, NoSummary
  <2>5. limiter \in [start : 0..now, count : 0..MaxSyncs]
    BY Bounds DEF Init
  <2>6. scan \in [total : Nat, todo : SUBSET Files]
    BY <2>1 DEF Init, NoScan
  <2>7. sums \in [Parts -> Nat] /\ syncs \in [0..MaxTime -> Nat]
    BY DEF Init
  <2>8. home \in [Events -> 0..MaxParts]
    BY Bounds DEF Init
  <2>9. next \in 1..(MaxEvents + 1)
    BY Bounds DEF Init
  <2>10. /\ part \in 0..MaxParts /\ current_size \in 0..RotateLines
         /\ event \in 0..MaxEvents /\ now \in 0..MaxTime
         /\ faults \in 0..MaxFaults /\ kills \in 0..MaxKills
    BY Bounds DEF Init
  <2> QED BY <2>2, <2>3, <2>4, <2>5, <2>6, <2>7, <2>8, <2>9, <2>10
          DEF Init, TypeOK
<1>2. StreamInv
  BY DEF Init, StreamInv, Closed, NoSummary
<1>3. SizeInv
  BY Bounds DEF Init, SizeInv, Closed, NoSummary, Parts
<1>4. EventInv /\ HomeInv
  BY Bounds DEF Init, EventInv, HomeInv, Closed, NoSummary, Parts, Events,
                LinesOf, Busy
<1>5. SettledInv
  BY DEF Init, SettledInv, Synced, Written, Busy
<1>6. \A a, b : SumOver(syncs, Between(a, b)) = 0
  <2> SUFFICES ASSUME NEW a, NEW b PROVE SumOver(syncs, Between(a, b)) = 0
    OBVIOUS
  <2>1. \A u \in Between(a, b) : syncs[u] = 0
    BY BetweenFacts DEF Init
  <2> QED BY <2>1, BetweenFacts, SumZero
<1>7. SyncInv
  BY <1>6, Bounds DEF Init, SyncInv, Limits
<1>8. SyncRate
  <2>1. \A t \in 0..MaxTime :
          SumOver(syncs, Between(t, t + Minute)) <= 2 * MaxSyncs
    BY <1>6, Bounds
  <2> QED BY <2>1 DEF SyncRate, SumOver, Between
<1>9. ScanInv
  BY DEF Init, ScanInv
<1> QED BY <1>1, <1>2, <1>3, <1>4, <1>5, <1>7, <1>8, <1>9 DEF IInv

\* What the invariant says of one part: enough for most steps.
LEMMA Parted ==
  ASSUME IInv
  PROVE  /\ part \in Nat /\ part <= MaxParts /\ \A p \in Parts : p \in Nat \ {0}
         /\ \A p \in Parts : sums[p] \in Nat /\ files[p] \in Seq(Events)
         /\ summary.part # 0 => summary.part = part /\ part \in Parts
         /\ summary.buf \in Nat /\ current_size \in Nat
         /\ current_size <= RotateLines
         /\ summary \in [part : 0..MaxParts, buf : 0..BufferLines]
<1>1. TypeOK /\ StreamInv
  BY DEF IInv
<1>2. /\ summary \in [part : 0..MaxParts, buf : 0..BufferLines]
      /\ part \in 0..MaxParts /\ current_size \in 0..RotateLines
  BY <1>1 DEF TypeOK
<1>3. summary.part \in {0, part} /\ summary.buf \in 0..BufferLines
  BY <1>1, <1>2 DEF StreamInv
<1>4. sums \in [Parts -> Nat] /\ files \in [Parts -> Seq(Events)]
  BY <1>1 DEF TypeOK
<1> QED BY <1>2, <1>3, <1>4, Bounds DEF Parts

\* A summary that is closed holds what its buffer held.
LEMMA ClosedSumsFacts ==
  ASSUME IInv, sums' = ClosedSums
  PROVE  /\ sums' \in [Parts -> Nat]
         /\ \A p \in Parts : sums'[p] <= RotateLines
         /\ \A p \in Parts : p > part => sums'[p] = 0
         /\ \A p \in Parts : sums'[p] # 0 => \E d \in Events : home[d] = p
<1>1. /\ \A p \in Parts : sums[p] <= RotateLines
      /\ \A p \in Parts : p > part => sums[p] = 0
      /\ summary.part # 0 => sums[part] + summary.buf <= current_size
  BY DEF IInv, SizeInv
<1>2. /\ \A p \in Parts : sums[p] # 0 => \E d \in Events : home[d] = p
      /\ summary.buf # 0 => \E d \in Events : home[d] = part
  BY DEF IInv, HomeInv
<1>3. sums \in [Parts -> Nat]
  BY DEF IInv, TypeOK
<1>4. CASE summary.part = 0
  BY <1>1, <1>2, <1>3, <1>4 DEF ClosedSums
<1>5. CASE summary.part # 0
  <2>1. /\ part \in Parts /\ part \in Nat
        /\ sums' = [sums EXCEPT ![part] = @ + summary.buf]
    BY <1>5, Parted DEF ClosedSums
  <2>2. /\ sums'[part] = sums[part] + summary.buf
        /\ \A p \in Parts : p # part => sums'[p] = sums[p]
    BY <1>3, <2>1
  <2>3. /\ summary.buf \in Nat /\ current_size \in Nat /\ sums[part] \in Nat
        /\ current_size <= RotateLines /\ RotateLines \in Nat
    BY <2>1, Parted, Bounds
  <2>4. sums'[part] <= RotateLines /\ sums'[part] \in Nat
    BY <1>1, <1>5, <2>2, <2>3
  <2>5. sums'[part] # 0 => \E d \in Events : home[d] = part
    BY <1>2, <2>1, <2>2, <2>3
  <2>6. sums' \in [Parts -> Nat]
    BY <1>3, <2>1, <2>3
  <2>7. ASSUME NEW p \in Parts
        PROVE  /\ sums'[p] <= RotateLines
               /\ p > part => sums'[p] = 0
               /\ sums'[p] # 0 => \E d \in Events : home[d] = p
    <3>1. CASE p = part
      BY <2>1, <2>4, <2>5, <3>1
    <3>2. CASE p # part
      BY <1>1, <1>2, <2>2, <3>2
    <3> QED BY <3>1, <3>2
  <2> QED BY <2>6, <2>7
<1> QED BY <1>4, <1>5

\* What open_next_file leaves behind, whether or not it could open the files.
LEMMA OpenFacts ==
  ASSUME IInv, NEW ok \in BOOLEAN, NEW summary_ok \in BOOLEAN,
         open_next_file(ok, summary_ok)
  PROVE  /\ part' = part + 1 /\ part' \in 0..MaxParts /\ part' \in Parts
         /\ current_size' = 0 /\ needs_directory_sync' = ok
         /\ stream' = [part |-> IF ok THEN part' ELSE 0, bad |-> FALSE,
                       buf |-> <<>>]
         /\ summary'.part \in {0, part'} /\ summary'.buf = 0
         /\ summary'.part = 0 => summary' = NoSummary
         /\ summary' \in [part : 0..MaxParts, buf : 0..BufferLines]
         /\ sums' = ClosedSums
         /\ dir \subseteq dir' /\ dir' \subseteq Files
         /\ ok => <<"jsonl", part'>> \in dir'
         /\ faults' \in 0..MaxFaults
<1>1. /\ dir \subseteq Files /\ faults \in 0..MaxFaults
  BY DEF IInv, TypeOK
<1>2. part < MaxParts /\ part \in Nat
  BY Parted DEF open_next_file
<1>3. part' = part + 1 /\ part' \in 0..MaxParts /\ part' \in Parts
  BY <1>2, Bounds DEF open_next_file, Parts
<1>4. stream' = [part |-> IF ok THEN part' ELSE 0, bad |-> FALSE, buf |-> <<>>]
  BY <1>3 DEF open_next_file, Closed
<1>5. summary' \in {[part |-> part + 1, buf |-> 0], NoSummary}
  BY DEF open_next_file
<1>6. /\ summary'.part \in {0, part'} /\ summary'.buf = 0
      /\ summary'.part = 0 => summary' = NoSummary
      /\ summary' \in [part : 0..MaxParts, buf : 0..BufferLines]
  BY <1>2, <1>3, <1>5, Bounds DEF NoSummary
<1>7. /\ dir \subseteq dir' /\ ok => <<"jsonl", part'>> \in dir'
      /\ dir' \subseteq dir \cup {<<"jsonl", part'>>, <<"summary", part'>>}
  BY <1>3 DEF open_next_file
<1>8. dir' \subseteq Files
  BY <1>1, <1>3, <1>7 DEF Files
<1>9. faults' \in 0..MaxFaults
  BY <1>1, Bounds DEF open_next_file, Outcome, Fault
<1> QED BY <1>3, <1>4, <1>6, <1>7, <1>8, <1>9 DEF open_next_file

\* The event in flight is one of the events.
LEMMA InFlight ==
  ASSUME IInv, Busy
  PROVE  event \in Events /\ event < next /\ event \in Nat /\ event \notin done
<1>1. event + 1 = next /\ event \notin done /\ event \in Events
  BY DEF IInv, EventInv
<1>2. event \in Nat
  BY <1>1, Bounds DEF Events
<1> QED BY <1>1, <1>2

\* The steps that open a file.
LEMMA OpenTypes ==
  ASSUME IInv, NEW ok \in BOOLEAN, NEW summary_ok \in BOOLEAN,
         \/ start(ok, summary_ok)
         \/ Reopen(ok, summary_ok)
         \/ OpenNext(ok, summary_ok)
  PROVE  TypeOK'
<1>1. open_next_file(ok, summary_ok)
  BY DEF start, Reopen, OpenNext
<1>2. /\ part' \in 0..MaxParts /\ part' \in Parts
      /\ current_size' = 0 /\ needs_directory_sync' = ok
      /\ stream' = [part |-> IF ok THEN part' ELSE 0, bad |-> FALSE,
                    buf |-> <<>>]
      /\ summary' \in [part : 0..MaxParts, buf : 0..BufferLines]
      /\ dir' \subseteq Files /\ faults' \in 0..MaxFaults
  BY <1>1, OpenFacts
<1>3. sums' \in [Parts -> Nat]
  BY <1>1, OpenFacts, ClosedSumsFacts
<1>4. stream' \in [part : {0, part'}, bad : BOOLEAN, buf : Seq(Events)]
  BY <1>2
<1>5. current_size' \in 0..RotateLines /\ needs_directory_sync' \in BOOLEAN
  BY <1>2, Bounds
<1>6. /\ UNCHANGED <<files, ddir, medium, limiter, scan, now, next, home,
                     limited, removed, syncs, kills>>
      /\ running' \in BOOLEAN /\ event' \in {0, event}
      /\ pc' \in {"head", "write", "enforce"}
      /\ done' \subseteq done \cup ({event} \cap Events)
      /\ failed' \subseteq failed \cup ({event} \cap Events)
  <2>1. TypeOK
    BY DEF IInv
  <2>2. CASE start(ok, summary_ok)
    BY <2>1, <2>2 DEF start, history, TypeOK
  <2>3. CASE Reopen(ok, summary_ok)
    <3>1. event \in Events
      BY <2>3, InFlight DEF Reopen, Busy
    <3> QED BY <2>1, <2>3, <3>1 DEF Reopen, Return, TypeOK
  <2>4. CASE OpenNext(ok, summary_ok)
    BY <2>1, <2>4 DEF OpenNext, history, TypeOK
  <2> QED BY <2>2, <2>3, <2>4
<1>7. TypeOK
  BY DEF IInv
<1>8. /\ pc' \in {"down", "head", "open", "write", "summary", "sync", "rotate",
                "rotated", "enforce", "remove"}
      /\ event' \in 0..MaxEvents
      /\ done' \subseteq Events /\ failed' \subseteq Events
  BY <1>6, <1>7, Bounds DEF TypeOK
<1> QED BY <1>2, <1>3, <1>4, <1>5, <1>6, <1>7, <1>8 DEF TypeOK

\* What CloseStream changes.
LEMMA CloseTypes ==
  ASSUME IInv, CloseStream
  PROVE  /\ files' \in [Parts -> Seq(Events)] /\ sums' \in [Parts -> Nat]
         /\ stream' = [part |-> 0, bad |-> FALSE, buf |-> <<>>]
         /\ summary' \in [part : 0..MaxParts, buf : 0..BufferLines]
         /\ faults' \in 0..MaxFaults
<1>1. TypeOK
  BY DEF IInv
<1>2. Shifted /\ stream' = Closed /\ summary' = NoSummary
  BY <1>1, CloseShifts
<1>3. sums' \in [Parts -> Nat]
  BY ClosedSumsFacts DEF CloseStream
<1>4. faults' \in 0..MaxFaults
  <2>1. faults \in 0..MaxFaults
    BY <1>1 DEF TypeOK
  <2>2. faults' = faults \/ (faults < MaxFaults /\ faults' = faults + 1)
    BY DEF CloseStream, Outcome, Fault
  <2> QED BY <2>1, <2>2, Bounds
<1>5. summary' \in [part : 0..MaxParts, buf : 0..BufferLines]
  BY <1>2, Bounds DEF NoSummary
<1> QED BY <1>2, <1>3, <1>4, <1>5 DEF Shifted, Closed

\* What WriteLine changes: the event is in the file or in the buffer.
LEMMA WriteFacts ==
  ASSUME IInv, WriteLine
  PROVE  /\ files' \in [Parts -> Seq(Events)]
         /\ \A p \in Parts : p # part => files'[p] = files[p]
         /\ LinesOf(files[part]) \subseteq LinesOf(files'[part])
         /\ LinesOf(files'[part]) \cup LinesOf(stream'.buf)
              = LinesOf(files[part]) \cup LinesOf(stream.buf) \cup {event}
         /\ Len(files'[part]) + Len(stream'.buf)
              = Len(files[part]) + Len(stream.buf) + 1
         /\ stream' \in [part : {0, part}, bad : BOOLEAN, buf : Seq(Events)]
         /\ stream'.part = part /\ ~stream'.bad /\ stream.part = part
         /\ part \in Parts /\ part # 0
<1> DEFINE p == part
           buf == Append(stream.buf, event)
<1>1. TypeOK /\ event \in Events /\ stream.part # 0
  BY InFlight DEF IInv, StreamInv, WriteLine, Busy
<1>2. /\ files \in [Parts -> Seq(Events)] /\ p \in Parts /\ p = stream.part
      /\ stream.buf \in Seq(Events) /\ files[p] \in Seq(Events)
      /\ Len(files[p]) \in Nat /\ Len(stream.buf) \in Nat /\ p # 0
  BY <1>1, StreamFacts
<1>3. /\ buf \in Seq(Events) /\ Len(buf) = Len(stream.buf) + 1
      /\ LinesOf(buf) = LinesOf(stream.buf) \cup {event}
  BY <1>1, <1>2, AppendFacts
<1>4. PICK k \in 0..Len(buf) :
        /\ files' = Extended(files, p, buf, k)
        /\ stream' = [stream EXCEPT !.buf = Rest(buf, k)]
  <2>1. PICK k \in 0..Len(buf) :
          /\ Reach([stream EXCEPT !.buf = buf], k)
          /\ stream' = [stream EXCEPT !.buf = SubSeq(buf, k + 1, Len(buf))]
    BY DEF WriteLine
  <2>2. [stream EXCEPT !.buf = buf].part = p
        /\ [stream EXCEPT !.buf = buf].buf = buf
    BY <1>1, <1>2, StreamFacts
  <2> HIDE DEF p, buf
  <2>3. files' = Extended(files, p, buf, k)
    BY <2>1, <2>2 DEF Reach, Extended
  <2>4. stream' = [stream EXCEPT !.buf = Rest(buf, k)]
    BY <2>1 DEF Rest
  <2> QED BY <2>3, <2>4
<1>5. stream' = [part |-> p, bad |-> FALSE, buf |-> Rest(buf, k)]
  BY <1>1, <1>2, <1>4, StreamFacts DEF WriteLine
<1> HIDE DEF p, buf
<1>a. files \in [Parts -> Seq(Events)] /\ p \in Parts /\ buf \in Seq(Events)
  BY <1>2, <1>3
<1>b. files' = Extended(files, p, buf, k)
  BY <1>4
<1>6. k \in Nat /\ Len(buf) \in Nat
  BY <1>2, <1>3
<1>7. files' \in [Parts -> Seq(Events)]
  BY <1>a, <1>b, ReachFacts
<1>8. \A q \in Parts : q # p => files'[q] = files[q]
  BY <1>a, <1>b, ReachFacts
<1>9. Len(files'[p]) = Len(files[p]) + k
  BY <1>a, <1>b, ReachFacts
<1>10. LinesOf(files[p]) \subseteq LinesOf(files'[p])
  BY <1>a, <1>b, ReachFacts
<1>11. Rest(buf, k) \in Seq(Events) /\ Len(Rest(buf, k)) = Len(buf) - k
  BY <1>a, <1>b, ReachFacts
<1>12. LinesOf(files[p]) \cup LinesOf(buf)
         = LinesOf(files'[p]) \cup LinesOf(Rest(buf, k))
  BY <1>a, <1>b, ReachFacts
<1>13. stream'.part = p /\ ~stream'.bad /\ stream'.buf = Rest(buf, k)
  BY <1>5
<1>14. stream' \in [part : {0, part}, bad : BOOLEAN, buf : Seq(Events)]
  BY <1>5, <1>11 DEF p
<1>15. Len(files'[p]) + Len(stream'.buf) = Len(files[p]) + Len(stream.buf) + 1
  <2>1. Len(stream'.buf) = Len(stream.buf) + 1 - k
    BY <1>3, <1>11, <1>13
  <2>2. Len(files[p]) \in Nat /\ Len(stream.buf) \in Nat /\ k \in Nat
    BY <1>2, <1>6
  <2>3. \A a, b, c \in Nat : (a + c) + ((b + 1) - c) = (a + b) + 1
    OBVIOUS
  <2>4. Len(files'[p]) + Len(stream'.buf)
          = (Len(files[p]) + k) + ((Len(stream.buf) + 1) - k)
    BY <1>9, <2>1
  <2> QED BY <2>2, <2>3, <2>4
<1>16. LinesOf(files'[p]) \cup LinesOf(stream'.buf)
         = LinesOf(files[p]) \cup LinesOf(stream.buf) \cup {event}
  BY <1>3, <1>12, <1>13
<1> QED BY <1>2, <1>7, <1>8, <1>10, <1>13, <1>14, <1>15, <1>16 DEF p

\* Failing writes and flushes.
LEMMA WriteFailsFacts ==
  ASSUME IInv, WriteFails
  PROVE  Shifted /\ stream' = Closed
<1>1. TypeOK /\ stream.part # 0
  BY DEF IInv, StreamInv, WriteFails
<1> QED BY <1>1, ReachClosed DEF WriteFails

\* A flush that fails leaves the rest in the buffer of a bad stream.
LEMMA FlushFailsFacts ==
  ASSUME IInv, FlushFails
  PROVE  Shifted /\ stream'.part = stream.part /\ stream.part # 0
<1>1. TypeOK /\ stream.part # 0
  BY DEF IInv, StreamInv, FlushFails
<1>2. PICK k \in 0..Len(stream.buf) :
        /\ Reach(stream, k)
        /\ stream' = [stream EXCEPT
             !.buf = SubSeq(@, k + 1, Len(@)), !.bad = TRUE]
  BY DEF FlushFails
<1>3. stream' = [part |-> stream.part, bad |-> TRUE,
                 buf |-> Rest(stream.buf, k)]
  BY <1>1, <1>2, StreamFacts DEF Rest
<1> QED BY <1>1, <1>2, <1>3, ReachOpen

\* A sync that got as far as the flush has the event in the file.
LEMMA FlushedFacts ==
  ASSUME IInv, pc = "sync", Flushed
  PROVE  /\ Shifted
         /\ stream'.part = stream.part /\ stream.part # 0
         /\ stream'.bad = stream.bad
         /\ part \in Parts /\ event \in LinesOf(files'[part])
         /\ home[event] = part
<1>1. TypeOK /\ stream.part # 0
  BY DEF IInv, StreamInv
<1>2. /\ event \in LinesOf(files[part]) \cup LinesOf(stream.buf)
      /\ home[event] = part
  BY DEF IInv, EventInv, HomeInv
<1>3. part \in Parts
  BY <1>1, StreamFacts
<1> QED BY <1>1, <1>2, <1>3, FlushShifts

\* The files are finitely many.
LEMMA FilesFinite == IsFiniteSet(Files)
<1>1. IsFiniteSet(Parts)
  BY Bounds, FS_Interval DEF Parts
<1>2. IsFiniteSet({"jsonl"})
  <2>1. IsFiniteSet({} \cup {"jsonl"})
    BY FS_EmptySet, FS_AddElement
  <2>2. {} \cup {"jsonl"} = {"jsonl"}
    OBVIOUS
  <2> QED BY <2>1, <2>2
<1>3. IsFiniteSet({"jsonl", "summary"})
  <2>1. IsFiniteSet({"jsonl"} \cup {"summary"})
    BY <1>2, FS_AddElement
  <2>2. {"jsonl"} \cup {"summary"} = {"jsonl", "summary"}
    OBVIOUS
  <2> QED BY <2>1, <2>2
<1> QED BY <1>1, <1>3, FS_Product DEF Files

\* The size of a file is a number of lines.
LEMMA SizesFacts ==
  ASSUME TypeOK
  PROVE  /\ Sizes \in [Files -> Nat]
         /\ \A S : S \subseteq Files => /\ IsFiniteSet(S)
                                        /\ SumOver(Sizes, S) \in Nat
<1>1. ASSUME NEW f \in Files PROVE SizeOf(f) \in Nat
  BY <1>1 DEF SizeOf, Files, TypeOK
<1>2. Sizes \in [Files -> Nat]
  BY <1>1 DEF Sizes
<1>3. ASSUME NEW S, S \subseteq Files
      PROVE  IsFiniteSet(S) /\ SumOver(Sizes, S) \in Nat
  <2>1. IsFiniteSet(S)
    BY <1>3, FilesFinite, FS_Subset
  <2>2. \A f \in S : Sizes[f] \in Nat
    BY <1>2, <1>3
  <2> QED BY <2>1, <2>2, SumInsert
<1> QED BY <1>2, <1>3

\* TotalOf is the sum of the sizes.
LEMMA TotalFacts ==
  ASSUME TypeOK, NEW S, S \subseteq Files
  PROVE  TotalOf(S) = SumOver(Sizes, S)
<1> DEFINE iter == CHOOSE g : g = [s \in SUBSET S |->
                      IF s = {} THEN 0
                      ELSE SizeOf(Pick(s)) + g[s \ {Pick(s)}]]
<1>0. IsFiniteSet(S)
  BY FilesFinite, FS_Subset
<1>1. TotalOf(S) = iter[S]
  BY DEF TotalOf, MapThenSumSet, MapThenFoldSet, Pick
<1>2. \A s \in SUBSET S : s # {} => /\ Pick(s) \in s
                                    /\ Sizes[Pick(s)] = SizeOf(Pick(s))
  BY DEF Pick, Sizes
<1>a. PICK w : w = Sizes
  OBVIOUS
<1> DEFINE g == CHOOSE f : f = [s \in SUBSET S |-> Summed(f, w, s)]
<1>3. g = [s \in SUBSET S |-> Summed(g, w, s)]
  BY <1>0, SumSolved
<1> HIDE DEF g
<1>4. g = [s \in SUBSET S |-> IF s = {} THEN 0
                              ELSE SizeOf(Pick(s)) + g[s \ {Pick(s)}]]
  BY <1>2, <1>3, <1>a DEF Summed
<1>5. iter = [s \in SUBSET S |-> IF s = {} THEN 0
                                 ELSE SizeOf(Pick(s)) + iter[s \ {Pick(s)}]]
  BY <1>4
<1> HIDE DEF iter
<1>6. \A s \in SUBSET S : iter[s] = IF s = {} THEN 0
                          ELSE Sizes[Pick(s)] + iter[s \ {Pick(s)}]
  BY <1>2, <1>5
<1> DEFINE Q == {n \in Nat : \A s \in SUBSET S :
                   Cardinality(s) = n => iter[s] = SumOver(Sizes, s)}
<1>7. \A s \in SUBSET S : IsFiniteSet(s) /\ Cardinality(s) \in Nat
  BY <1>0, FS_Subset, FS_CardinalityType
<1>8. \A s \in SUBSET S :
        SumOver(Sizes, s) = IF s = {} THEN 0
                            ELSE Sizes[Pick(s)]
                                   + SumOver(Sizes, s \ {Pick(s)})
  BY <1>7, SumStep
<1>9. 0 \in Q
  <2>1. \A s \in SUBSET S : Cardinality(s) = 0 => s = {}
    BY <1>7, FS_EmptySet
  <2> QED BY <1>6, <1>8, <2>1
<1>10. ASSUME NEW n \in Nat, n \in Q PROVE n + 1 \in Q
  <2> SUFFICES ASSUME NEW s \in SUBSET S, Cardinality(s) = n + 1
               PROVE  iter[s] = SumOver(Sizes, s)
    OBVIOUS
  <2>1. s # {}
    <3>1. IsFiniteSet(s) /\ n + 1 # 0
      BY <1>7
    <3> QED BY <3>1, FS_EmptySet
  <2>2. Cardinality(s \ {Pick(s)}) = n
    <3>1. Cardinality(s \ {Pick(s)}) = Cardinality(s) - 1
      BY <1>2, <1>7, <2>1, FS_RemoveElement
    <3> QED BY <3>1
  <2>3. iter[s \ {Pick(s)}] = SumOver(Sizes, s \ {Pick(s)})
    BY <1>10, <2>2
  <2> QED BY <1>6, <1>8, <2>1, <2>3
<1> HIDE DEF Q
<1>11. Nat \subseteq Q
  BY <1>9, <1>10, NumbersFrom0
<1>12. iter[S] = SumOver(Sizes, S)
  <2>1. Cardinality(S) \in Q /\ S \in SUBSET S
    BY <1>7, <1>11
  <2> QED BY <2>1 DEF Q
<1> QED BY <1>1, <1>12

\* What GoOn does.
LEMMA GoOnTypes ==
  ASSUME IInv, Busy, NEW s \in [total : Nat, todo : SUBSET Files], GoOn(s)
  PROVE  /\ pc' \in {"head", "remove"} /\ event' \in 0..MaxEvents
         /\ scan' \in [total : Nat, todo : SUBSET Files]
         /\ done' \subseteq Events
<1>1. event \in Events /\ done \subseteq Events /\ event \in 0..MaxEvents
  BY InFlight DEF IInv, TypeOK
<1>2. NoScan \in [total : Nat, todo : SUBSET Files]
  BY DEF NoScan
<1>3. CASE pc' = "head"
  <2>1. Return /\ scan' = NoScan
    BY <1>3 DEF GoOn
  <2> QED BY <1>1, <1>2, <2>1, Bounds DEF Return
<1>4. CASE pc' = "remove"
  <2>1. scan' = s /\ UNCHANGED <<event, done>>
    BY <1>4 DEF GoOn, Return
  <2> QED BY <1>1, <1>4, <2>1
<1>5. pc' \in {"head", "remove"}
  BY DEF GoOn, Return
<1> QED BY <1>3, <1>4, <1>5

\* The directory scan keeps the types.
LEMMA ScanTypes ==
  ASSUME IInv, ScanCache
  PROVE  TypeOK'
<1> DEFINE s == [total |-> TotalOf(dir), todo |-> dir]
<1>1. TypeOK /\ Busy
  BY DEF IInv, ScanCache, Busy
<1>2. dir \subseteq Files
  BY <1>1 DEF TypeOK
<1>3. TotalOf(dir) \in Nat
  BY <1>1, <1>2, TotalFacts, SizesFacts
<1>4. s \in [total : Nat, todo : SUBSET Files]
  BY <1>2, <1>3
<1>5. GoOn(s)
  BY DEF ScanCache
<1> HIDE DEF s
<1>6. /\ pc' \in {"head", "remove"} /\ event' \in 0..MaxEvents
      /\ scan' \in [total : Nat, todo : SUBSET Files]
      /\ done' \subseteq Events
  BY <1>1, <1>4, <1>5, GoOnTypes
<1> QED BY <1>1, <1>6 DEF ScanCache, disk, streams, bounds, TypeOK

\* What RemoveOldest goes on with.
Left(f) == [total |-> IF scan.total > SizeOf(f) THEN scan.total - SizeOf(f)
                      ELSE 0,
            todo |-> scan.todo \ {f}]

\* So does the removal of a file.
LEMMA RemoveTypes ==
  ASSUME IInv, NEW f \in dir, NEW ok \in BOOLEAN, RemoveOldest(f, ok)
  PROVE  TypeOK'
<1>1. TypeOK /\ Busy
  BY DEF IInv, RemoveOldest, Busy
<1>2. dir \subseteq Files /\ f \in Files
  BY <1>1 DEF TypeOK
<1>3. SizeOf(f) \in Nat
  BY <1>1, <1>2, SizesFacts DEF Sizes
<1>4. scan.total \in Nat /\ scan.todo \subseteq Files
  BY <1>1 DEF TypeOK
<1>5. Left(f) \in [total : Nat, todo : SUBSET Files]
  BY <1>3, <1>4 DEF Left
<1>6. GoOn(Left(f))
  BY DEF RemoveOldest, Left
<1>7. /\ pc' \in {"head", "remove"} /\ event' \in 0..MaxEvents
      /\ scan' \in [total : Nat, todo : SUBSET Files]
      /\ done' \subseteq Events
  BY <1>1, <1>5, <1>6, GoOnTypes
<1>8. dir' \subseteq Files /\ removed' \subseteq Files
  BY <1>1, <1>2 DEF RemoveOldest, TypeOK
<1>9. faults' \in 0..MaxFaults
  BY <1>1, Bounds DEF RemoveOldest, Outcome, Fault, TypeOK
<1> QED BY <1>1, <1>7, <1>8, <1>9 DEF RemoveOldest, streams, TypeOK

\* Every step keeps the types.
LEMMA TypesKept ==
  ASSUME IInv, [Next]_vars
  PROVE  TypeOK'
<1>0. TypeOK
  BY DEF IInv
<1> DEFINE Streams ==
      /\ files' \in [Parts -> Seq(Events)]
      /\ stream' \in [part : {0, part}, bad : BOOLEAN, buf : Seq(Events)]
<1>i. Fault \/ UNCHANGED faults => faults' \in 0..MaxFaults
  BY <1>0, Bounds DEF Fault, TypeOK
<1>a. Shifted => Streams
  <2>1. Closed \in [part : {0, part}, bad : BOOLEAN, buf : Seq(Events)]
    BY DEF Closed
  <2> QED BY <2>1 DEF Shifted
<1> HIDE DEF Streams
<1>1. ASSUME NEW ok \in BOOLEAN, NEW summary_ok \in BOOLEAN,
             \/ start(ok, summary_ok)
             \/ Reopen(ok, summary_ok)
             \/ OpenNext(ok, summary_ok)
      PROVE  TypeOK'
  BY <1>1, OpenTypes
<1>2. CASE stop
  BY <1>0, <1>2 DEF stop, disk, streams, history, bounds, TypeOK
<1>3. CASE CloseStreams
  <2>1. stream' \in [part : {0, part'}, bad : BOOLEAN, buf : Seq(Events)]
    <3>1. stream' = [part |-> 0, bad |-> FALSE, buf |-> <<>>]
      BY <1>3, CloseTypes DEF CloseStreams
    <3> QED BY <3>1
  <2> QED BY <1>0, <1>3, <2>1, CloseTypes DEF CloseStreams, history, TypeOK
<1>4. CASE Pop
  <2>1. next' \in 1..(MaxEvents + 1) /\ event' \in 0..MaxEvents
    BY <1>0, <1>4, Bounds DEF Pop, TypeOK
  <2> QED BY <1>0, <1>4, <2>1 DEF Pop, disk, streams, bounds, TypeOK
<1>5. CASE WriteLine
  <2>1. /\ files' \in [Parts -> Seq(Events)]
        /\ stream' \in [part : {0, part}, bad : BOOLEAN, buf : Seq(Events)]
    BY <1>5, WriteFacts
  <2>2. current_size' \in 0..RotateLines
    <3>1. current_size < RotateLines
      BY <1>5 DEF WriteLine, IInv, SizeInv
    <3>2. current_size' = current_size + 1 /\ current_size \in Nat
      BY <1>5, Parted DEF WriteLine
    <3> QED BY <3>1, <3>2, Bounds
  <2>3. home' \in [Events -> 0..MaxParts]
    <3>1. home' = [home EXCEPT ![event] = part] /\ part \in 0..MaxParts
      BY <1>0, <1>5, WriteFacts DEF WriteLine, TypeOK
    <3> QED BY <1>0, <3>1 DEF TypeOK
  <2> QED BY <1>0, <1>5, <2>1, <2>2, <2>3 DEF WriteLine, bounds, TypeOK
<1>6. CASE WriteFails
  <2>1. Streams
    BY <1>6, <1>a, WriteFailsFacts
  <2>2. event \in Events
    BY <1>6, InFlight DEF WriteFails, Busy
  <2>3. done' \subseteq Events /\ failed' \subseteq Events
    BY <1>0, <1>6, <2>2 DEF WriteFails, Return, TypeOK
  <2>4. faults' \in 0..MaxFaults /\ event' \in 0..MaxEvents
    BY <1>0, <1>6, Bounds DEF WriteFails, Return, Outcome, Fault, TypeOK
  <2> QED BY <1>0, <1>6, <2>1, <2>3, <2>4
          DEF WriteFails, Return, TypeOK, Streams
<1>7. ASSUME NEW ok \in BOOLEAN, write_summary(ok) PROVE TypeOK'
  <2>1. /\ sums' \in [Parts -> Nat]
        /\ summary' \in [part : 0..MaxParts, buf : 0..BufferLines]
        /\ faults' \in 0..MaxFaults
    <3>1. CASE summary.part = 0
      BY <1>0, <1>7, <3>1 DEF write_summary, TypeOK
    <3>2. CASE summary.part # 0
      <4>1. PICK k \in 0..(summary.buf + 1) :
              /\ sums' = [sums EXCEPT ![summary.part] = @ + k]
              /\ IF ok
                 THEN /\ summary.buf + 1 - k <= BufferLines
                      /\ summary' = [summary EXCEPT !.buf = @ + 1 - k]
                 ELSE summary' = NoSummary
        BY <1>7, <3>2 DEF write_summary
      <4>2. /\ summary.part \in Parts /\ summary.buf \in Nat
            /\ summary \in [part : 0..MaxParts, buf : 0..BufferLines]
        BY <3>2, Parted
      <4>3. k \in Nat /\ summary.buf + 1 - k \in Nat
        BY <4>2
      <4>4. sums' \in [Parts -> Nat]
        <5>1. sums \in [Parts -> Nat]
          BY <1>0 DEF TypeOK
        <5>a. sums[summary.part] \in Nat
          BY <4>2, <5>1
        <5>2. sums[summary.part] + k \in Nat
          BY <4>3, <5>a
        <5> QED BY <4>1, <4>2, <5>1, <5>2
      <4>5. summary' \in [part : 0..MaxParts, buf : 0..BufferLines]
        <5>1. CASE ok
          <6>1. summary' = [part |-> summary.part, buf |-> summary.buf + 1 - k]
            BY <4>1, <4>2, <5>1
          <6>2. summary.buf + 1 - k \in 0..BufferLines
            BY <4>1, <4>3, <5>1, Bounds
          <6> QED BY <4>2, <6>1, <6>2
        <5>2. CASE ~ok
          BY <4>1, <5>2, Bounds DEF NoSummary
        <5> QED BY <5>1, <5>2
      <4>6. faults' \in 0..MaxFaults
        BY <1>7, <1>i, <3>2 DEF write_summary, Outcome
      <4> QED BY <4>4, <4>5, <4>6
    <3> QED BY <3>1, <3>2
  <2> QED BY <1>0, <1>7, <2>1 DEF write_summary, history, TypeOK
<1>8. CASE NoSync \/ NoRotation
  BY <1>0, <1>8
     DEF NoSync, NoRotation, disk, streams, history, bounds, TypeOK
<1>9. CASE FlushFails
  <2>1. Streams
    BY <1>9, <1>a, FlushFailsFacts
  <2>2. event \in Events
    BY <1>9, InFlight DEF FlushFails, Busy
  <2>3. faults' \in 0..MaxFaults
    BY <1>9, <1>i DEF FlushFails
  <2> QED BY <1>0, <1>9, <2>1, <2>2, <2>3 DEF FlushFails, TypeOK, Streams
<1>b. Flushed /\ pc = "sync" => Streams
  BY <1>a, FlushedFacts
<1>c. /\ ThisMinute \in [start : 0..now, count : 0..MaxSyncs]
      /\ now \in 0..MaxTime
  BY <1>0, Bounds DEF ThisMinute, TypeOK
<1>d. pc = "sync" => event \in Events
  BY InFlight DEF Busy
<1>10. CASE RateLimited
  <2>1. Streams /\ event \in Events
    BY <1>10, <1>b, <1>d DEF RateLimited
  <2> QED BY <1>0, <1>10, <1>c, <2>1
          DEF RateLimited, bounds, TypeOK, Streams
<1>e. Attempt =>
        /\ Streams
        /\ limiter' \in [start : 0..now, count : 0..MaxSyncs]
        /\ event \in Events
  <2> SUFFICES ASSUME Attempt
               PROVE  /\ Streams
                      /\ limiter' \in [start : 0..now, count : 0..MaxSyncs]
                      /\ event \in Events
    OBVIOUS
  <2>1. /\ ThisMinute.count < MaxSyncs
        /\ limiter' = [ThisMinute EXCEPT !.count = @ + 1]
    BY DEF Attempt, Allowed
  <2>2. ThisMinute.count + 1 \in 0..MaxSyncs
    BY <1>c, <2>1, Bounds
  <2>3. limiter' = [start |-> ThisMinute.start, count |-> ThisMinute.count + 1]
    BY <1>c, <2>1
  <2> QED BY <1>b, <1>c, <1>d, <2>2, <2>3 DEF Attempt
<1>f. FdatasyncCalled => syncs' \in [0..MaxTime -> Nat]
  BY <1>0, <1>c DEF FdatasyncCalled, TypeOK
<1>g. Streams /\ part' = part => medium \cup LinesOf(files'[stream.part])
                                   \subseteq Events \/ stream.part \notin Parts
  BY <1>0 DEF Streams, LinesOf, TypeOK
<1>h. pc = "sync" => stream.part \in Parts
  BY <1>0, StreamFacts DEF IInv, StreamInv
<1>11. CASE SyncDone
  <2>1. medium' \subseteq Events
    BY <1>11, <1>e, <1>g, <1>h DEF SyncDone, Attempt
  <2> QED BY <1>0, <1>11, <1>e, <1>f, <2>1
          DEF SyncDone, Attempt, TypeOK, Streams
<1>12. ASSUME NEW step \in {"open", "data", "directory"}, SyncFails(step)
       PROVE  TypeOK'
  <2>1. medium' \subseteq Events
    BY <1>0, <1>12, <1>e, <1>g, <1>h DEF SyncFails, Attempt, TypeOK
  <2>2. faults' \in 0..MaxFaults
    BY <1>12, <1>i DEF SyncFails
  <2>4. syncs' \in [0..MaxTime -> Nat]
    BY <1>0, <1>12, <1>f DEF SyncFails, TypeOK
  <2>3. failed' \subseteq Events
    BY <1>0, <1>12, <1>e DEF SyncFails, TypeOK
  <2> QED BY <1>0, <1>12, <1>e, <2>1, <2>2, <2>3, <2>4
          DEF SyncFails, Attempt, TypeOK, Streams
<1>13. CASE CloseFull
  <2>1. stream' \in [part : {0, part'}, bad : BOOLEAN, buf : Seq(Events)]
    <3>1. stream' = [part |-> 0, bad |-> FALSE, buf |-> <<>>]
      BY <1>13, CloseTypes DEF CloseFull
    <3> QED BY <3>1
  <2> QED BY <1>0, <1>13, <2>1, CloseTypes DEF CloseFull, history, TypeOK
<1>14. CASE ScanCache
  BY <1>14, ScanTypes
<1>15. ASSUME NEW f \in dir, NEW ok \in BOOLEAN, RemoveOldest(f, ok)
       PROVE  TypeOK'
  BY <1>15, RemoveTypes
<1>16. CASE Kill
  <2>1. stream' \in [part : {0, part'}, bad : BOOLEAN, buf : Seq(Events)]
    BY <1>16 DEF Kill, Closed
  <2>2. summary' \in [part : 0..MaxParts, buf : 0..BufferLines]
    BY <1>16, Bounds DEF Kill, NoSummary
  <2>3. /\ limiter' \in [start : 0..now', count : 0..MaxSyncs]
        /\ kills' \in 0..MaxKills
    BY <1>0, <1>16, Bounds DEF Kill, TypeOK
  <2>4. scan' \in [total : Nat, todo : SUBSET Files]
    BY <1>16 DEF Kill, NoScan
  <2>5. event' \in 0..MaxEvents /\ current_size' \in 0..RotateLines
    BY <1>16, Bounds DEF Kill
  <2>6. syncs' \in [0..MaxTime -> Nat]
    BY <1>16 DEF Kill
  <2> QED BY <1>0, <1>16, <2>1, <2>2, <2>3, <2>4, <2>5, <2>6
          DEF Kill, disk, TypeOK
<1>17. CASE Tick
  <2>1. now' \in 0..MaxTime /\ 0..now \subseteq 0..now'
    BY <1>0, <1>17, Bounds DEF Tick, TypeOK
  <2>2. limiter' \in [start : 0..now', count : 0..MaxSyncs]
    BY <1>0, <1>17, <2>1 DEF Tick, TypeOK
  <2> QED BY <1>0, <1>17, <2>1, <2>2
          DEF Tick, disk, streams, history, bounds, TypeOK
<1>18. CASE UNCHANGED vars
  BY <1>0, <1>18 DEF vars, disk, streams, history, bounds, TypeOK
<1> QED BY <1>1, <1>2, <1>3, <1>4, <1>5, <1>6, <1>7, <1>8, <1>9, <1>10, <1>11,
           <1>12, <1>13, <1>14, <1>15, <1>16, <1>17, <1>18 DEF Next

---------------------------------------------------------------------------
(***************************************************************************)
(* The streams write the file of part.                                     *)
(***************************************************************************)
\* The steps that open a file.
LEMMA OpenStreams ==
  ASSUME IInv, NEW ok \in BOOLEAN, NEW summary_ok \in BOOLEAN,
         \/ start(ok, summary_ok)
         \/ Reopen(ok, summary_ok)
         \/ OpenNext(ok, summary_ok)
  PROVE  StreamInv'
<1>1. open_next_file(ok, summary_ok)
  BY DEF start, Reopen, OpenNext
<1>a. ddir' \subseteq dir' \cup removed'
  <2>1. UNCHANGED <<ddir, removed>>
    BY DEF start, Reopen, OpenNext, history
  <2> QED BY <1>1, <2>1 DEF open_next_file, IInv, StreamInv
<1>2. /\ part' \in Parts /\ needs_directory_sync' = ok
      /\ stream' = [part |-> IF ok THEN part' ELSE 0, bad |-> FALSE,
                    buf |-> <<>>]
      /\ summary'.part \in {0, part'}
      /\ summary'.part = 0 => summary' = NoSummary
      /\ ok => <<"jsonl", part'>> \in dir'
  BY <1>1, OpenFacts
<1>3. /\ stream'.part = IF ok THEN part' ELSE 0
      /\ stream'.bad = FALSE
      /\ stream'.part = 0 => stream' = Closed
  BY <1>2 DEF Closed
<1>4. pc' \in {"head", "write", "enforce"} /\ (pc' = "write" => ok)
  BY DEF start, Reopen, OpenNext, Return
<1>5. part' # 0
  BY <1>2, Bounds DEF Parts
<1> QED BY <1>a, <1>2, <1>3, <1>4, <1>5 DEF StreamInv

\* Every other step.
LEMMA StreamKept ==
  ASSUME IInv, [Next]_vars
  PROVE  StreamInv'
<1>0. StreamInv /\ TypeOK
  BY DEF IInv
<1>a. /\ stream.part \in {0, part} /\ (stream.part # 0 => part \in Parts)
      /\ Closed.part = 0 /\ NoSummary.part = 0
  BY <1>0, StreamFacts DEF Closed, NoSummary
<1>b. /\ Shifted => \/ stream' = Closed
                    \/ /\ stream'.part = stream.part
                       /\ stream.part = 0 => stream' = stream
  BY DEF Shifted
<1>1. ASSUME NEW ok \in BOOLEAN, NEW summary_ok \in BOOLEAN,
             \/ start(ok, summary_ok)
             \/ Reopen(ok, summary_ok)
             \/ OpenNext(ok, summary_ok)
      PROVE  StreamInv'
  BY <1>1, OpenStreams
<1>2. CASE stop
  BY <1>0, <1>2 DEF stop, disk, streams, history, StreamInv
<1>3. CASE CloseStreams
  BY <1>0, <1>3, <1>a, CloseShifts DEF CloseStreams, history, StreamInv
<1>4. CASE Pop
  BY <1>0, <1>4 DEF Pop, disk, streams, history, StreamInv
<1>5. CASE WriteLine
  <2>1. stream'.part = part /\ ~stream'.bad /\ stream.part = part /\ part # 0
    BY <1>5, WriteFacts
  <2> QED BY <1>0, <1>5, <2>1 DEF WriteLine, history, StreamInv
<1>6. CASE WriteFails
  BY <1>0, <1>6, <1>a, WriteFailsFacts
     DEF WriteFails, Return, history, StreamInv
<1>7. ASSUME NEW ok \in BOOLEAN, write_summary(ok) PROVE StreamInv'
  <2>1. summary' = summary
        \/ (summary'.part = summary.part /\ summary.part # 0)
        \/ summary' = NoSummary
    <3>1. CASE summary.part = 0
      BY <1>7, <3>1 DEF write_summary
    <3>2. CASE summary.part # 0
      <4>1. summary \in [part : 0..MaxParts, buf : 0..BufferLines]
        BY <1>0 DEF TypeOK
      <4> QED BY <1>7, <3>2, <4>1 DEF write_summary
    <3> QED BY <3>1, <3>2
  <2> QED BY <1>0, <1>7, <1>a, <2>1 DEF write_summary, history, StreamInv
<1>8. CASE NoSync \/ NoRotation
  BY <1>0, <1>8 DEF NoSync, NoRotation, disk, streams, history, StreamInv
<1>9. CASE FlushFails
  <2>1. Shifted /\ stream'.part = stream.part /\ stream.part # 0
    BY <1>9, FlushFailsFacts
  <2> QED BY <1>0, <1>9, <2>1 DEF FlushFails, history, StreamInv
<1>c. Flushed /\ pc = "sync" => stream'.part = stream.part /\ stream.part # 0
  BY FlushedFacts
<1>10. CASE RateLimited
  BY <1>0, <1>10, <1>c DEF RateLimited, history, StreamInv
<1>11. CASE SyncDone
  BY <1>0, <1>11, <1>c DEF SyncDone, Attempt, history, StreamInv
<1>12. ASSUME NEW step \in {"open", "data", "directory"}, SyncFails(step)
       PROVE  StreamInv'
  BY <1>0, <1>12, <1>c DEF SyncFails, Attempt, history, StreamInv
<1>13. CASE CloseFull
  BY <1>0, <1>13, <1>a, CloseShifts DEF CloseFull, history, StreamInv
<1>14. CASE ScanCache
  BY <1>0, <1>14 DEF ScanCache, GoOn, Return, disk, streams, history, StreamInv
<1>15. ASSUME NEW f \in dir, NEW ok \in BOOLEAN, RemoveOldest(f, ok)
       PROVE  StreamInv'
  <2>1. f # <<"jsonl", part>>
    BY <1>15 DEF RemoveOldest, Oldest, Removable
  <2>2. pc' \in {"head", "remove"}
    BY <1>15 DEF RemoveOldest, GoOn, Return
  <2>3. <<"jsonl", part>> \in dir => <<"jsonl", part>> \in dir'
    BY <1>15, <2>1 DEF RemoveOldest
  <2> QED BY <1>0, <1>15, <2>2, <2>3
          DEF RemoveOldest, streams, history, StreamInv
<1>16. CASE Kill
  BY <1>0, <1>16, <1>a DEF Kill, disk, history, StreamInv
<1>17. CASE Tick
  BY <1>0, <1>17 DEF Tick, disk, streams, history, StreamInv
<1>18. CASE UNCHANGED vars
  BY <1>0, <1>18 DEF vars, disk, streams, history, StreamInv
<1> QED BY <1>1, <1>2, <1>3, <1>4, <1>5, <1>6, <1>7, <1>8, <1>9, <1>10, <1>11,
           <1>12, <1>13, <1>14, <1>15, <1>16, <1>17, <1>18 DEF Next

---------------------------------------------------------------------------
(***************************************************************************)
(* Which event the worker is about.                                        *)
(***************************************************************************)
\* Return gives up an event that is done.
LEMMA ReturnEvents ==
  ASSUME IInv, Busy, Return, UNCHANGED <<next, home, part>>
  PROVE  EventInv'
<1>1. /\ EventInv /\ event < next
  BY InFlight DEF IInv
<1>2. pc' = "head" /\ event' = 0 /\ done' = done \cup {event}
  BY DEF Return
<1>3. pc' \notin {"open", "write", "summary", "sync"} /\ ~Busy'
  BY <1>2 DEF Busy
<1> QED BY <1>1, <1>2, <1>3 DEF EventInv

\* A step of the worker with the event in flight.
LEMMA SameEvent ==
  ASSUME IInv, Busy, UNCHANGED <<event, next, done, home, part>>,
         pc' \in {"sync", "rotate", "rotated", "enforce", "remove"},
         pc' = "sync" => pc = "summary"
  PROVE  EventInv'
<1>1. EventInv
  BY DEF IInv
<1>2. Busy' /\ pc' \notin {"down", "head", "open", "write", "summary"}
  BY DEF Busy
<1> QED BY <1>1, <1>2 DEF EventInv

\* Every step.
LEMMA EventKept ==
  ASSUME IInv, [Next]_vars
  PROVE  EventInv'
<1>0. EventInv /\ TypeOK
  BY DEF IInv
<1>1. ASSUME NEW ok \in BOOLEAN, NEW summary_ok \in BOOLEAN,
             start(ok, summary_ok)
      PROVE  EventInv'
  BY <1>0, <1>1 DEF start, history, EventInv, Busy
<1>2. ASSUME NEW ok \in BOOLEAN, NEW summary_ok \in BOOLEAN,
             Reopen(ok, summary_ok)
      PROVE  EventInv'
  <2>1. event < next /\ Busy
    BY <1>2, InFlight DEF Reopen, Busy
  <2> QED BY <1>0, <1>2, <2>1 DEF Reopen, Return, EventInv, Busy
<1>3. ASSUME NEW ok \in BOOLEAN, NEW summary_ok \in BOOLEAN,
             OpenNext(ok, summary_ok)
      PROVE  EventInv'
  BY <1>0, <1>3 DEF OpenNext, history, EventInv, Busy
<1>4. CASE stop
  BY <1>0, <1>4 DEF stop, streams, history, EventInv, Busy
<1>5. CASE CloseStreams
  BY <1>0, <1>5 DEF CloseStreams, history, EventInv, Busy
<1>6. CASE Pop
  <2>1. next \in Nat \ {0} /\ next <= MaxEvents /\ next \in Events
    BY <1>0, <1>6, Bounds DEF Pop, TypeOK, Events
  <2>2. /\ event' = next /\ next' = next + 1 /\ UNCHANGED <<done, home>>
        /\ pc' \in {"open", "write"}
    BY <1>6 DEF Pop
  <2>3. next \notin done /\ ~(next < next)
    BY <1>0, <2>1 DEF EventInv
  <2>4. home[next] = 0
    BY <1>0, <2>1, <2>3 DEF EventInv
  <2>5. \A d \in Events : d < next => d < next + 1
    BY <2>1, Bounds DEF Events
  <2>6. done \subseteq Events
    BY <1>0 DEF TypeOK
  <2> QED BY <1>0, <2>1, <2>2, <2>3, <2>4, <2>5, <2>6 DEF EventInv, Busy
<1>7. CASE WriteLine
  <2>a. event \in Events /\ event < next
    BY <1>7, InFlight DEF WriteLine, Busy
  <2>b. home' = [home EXCEPT ![event] = part]
    BY <1>7, WriteFacts DEF WriteLine
  <2>c. home \in [Events -> 0..MaxParts]
    BY <1>0 DEF TypeOK
  <2>1. /\ event \in Events /\ event < next
        /\ UNCHANGED <<event, next, done, part>> /\ pc' = "summary"
        /\ home' = [home EXCEPT ![event] = part]
        /\ home \in [Events -> 0..MaxParts]
    BY <1>7, <2>a, <2>b, <2>c DEF WriteLine
  <2>2. home'[event] = part
        /\ \A d \in Events : d # event => home'[d] = home[d]
    BY <2>1
  <2>3. \A d \in Events : home'[d] # 0 => d < next
    BY <1>0, <2>1, <2>2 DEF EventInv
  <2> QED BY <1>0, <1>7, <2>1, <2>2, <2>3 DEF EventInv, Busy, WriteLine
<1>8. CASE WriteFails
  BY <1>8, ReturnEvents DEF WriteFails, Busy
<1>9. ASSUME NEW ok \in BOOLEAN, write_summary(ok) PROVE EventInv'
  BY <1>9, SameEvent DEF write_summary, history, Busy
<1>10. CASE NoSync \/ NoRotation
  BY <1>10, SameEvent DEF NoSync, NoRotation, history, streams, Busy
<1>11. CASE FlushFails \/ RateLimited
  BY <1>11, SameEvent DEF FlushFails, RateLimited, Busy
<1>12. CASE SyncDone
  BY <1>12, SameEvent DEF SyncDone, Attempt, Busy
<1>13. ASSUME NEW step \in {"open", "data", "directory"}, SyncFails(step)
       PROVE  EventInv'
  BY <1>13, SameEvent DEF SyncFails, Attempt, Busy
<1>14. CASE CloseFull
  BY <1>14, SameEvent DEF CloseFull, history, Busy
<1>15. ASSUME Busy, NEW s, GoOn(s), UNCHANGED <<next, home, part>>
       PROVE  EventInv'
  <2>1. CASE Return
    BY <1>15, <2>1, ReturnEvents
  <2>2. CASE pc' = "remove" /\ UNCHANGED <<event, done>>
    BY <1>15, <2>2, SameEvent
  <2> QED BY <1>15, <2>1, <2>2 DEF GoOn
<1>16. CASE ScanCache
  BY <1>15, <1>16 DEF ScanCache, streams, Busy
<1>17. ASSUME NEW f \in dir, NEW ok \in BOOLEAN, RemoveOldest(f, ok)
       PROVE  EventInv'
  BY <1>15, <1>17 DEF RemoveOldest, streams, Busy
<1>18. CASE Kill
  BY <1>0, <1>18 DEF Kill, EventInv, Busy
<1>19. CASE Tick
  BY <1>0, <1>19 DEF Tick, streams, history, EventInv, Busy
<1>20. CASE UNCHANGED vars
  BY <1>0, <1>20 DEF vars, streams, history, EventInv, Busy
<1> QED BY <1>1, <1>2, <1>3, <1>4, <1>5, <1>6, <1>7, <1>8, <1>9, <1>10, <1>11,
           <1>12, <1>13, <1>14, <1>16, <1>17, <1>18, <1>19, <1>20 DEF Next

---------------------------------------------------------------------------
(***************************************************************************)
(* No file has more lines than rotation allows.                            *)
(***************************************************************************)
\* What SizeInv says of the files.
FileSizes ==
  /\ stream.part # 0 => Len(files[part]) + Len(stream.buf) <= current_size
  /\ \A p \in Parts : Len(files[p]) <= RotateLines
  /\ \A p \in Parts : p > part => files[p] = <<>>

\* And of the summaries.
SummarySizes ==
  /\ summary.part # 0 => sums[part] + summary.buf <= current_size
  /\ pc = "summary" /\ summary.part # 0 =>
       sums[part] + summary.buf < current_size
  /\ \A p \in Parts : sums[p] <= RotateLines
  /\ \A p \in Parts : p > part => sums[p] = 0

\* And of current_size.
Filled ==
  pc \notin {"summary", "sync", "rotate", "rotated"} =>
    current_size < RotateLines

\* SizeInv is these three.
LEMMA SizeParts ==
  /\ SizeInv => FileSizes /\ SummarySizes /\ Filled
  /\ FileSizes' /\ SummarySizes' /\ Filled' => SizeInv'
BY DEF SizeInv, FileSizes, SummarySizes, Filled

\* What is at most a part of what fits.
LEMMA AtMost ==
  \A a, b, c, d, e \in Nat : a <= b + c /\ b + c <= d /\ d <= e => a <= e
OBVIOUS

\* The same with a sum on the left.
LEMMA SumsAtMost ==
  \A a, b, c, d, e \in Nat : a + b <= c + d /\ c + d <= e => a + b <= e
OBVIOUS

\* Shifting lines out of the buffer makes no file too large.
LEMMA ShiftSizes ==
  ASSUME IInv, Shifted, UNCHANGED part,
         current_size' = current_size \/ stream' = Closed
  PROVE  FileSizes'
<1>1. FileSizes /\ TypeOK
  BY SizeParts DEF IInv
<1>2. /\ stream.part # 0 => stream.part = part /\ part \in Parts
      /\ Len(stream.buf) \in Nat
      /\ \A p \in Parts : files[p] \in Seq(Events) /\ Len(files[p]) \in Nat
  BY <1>1, StreamFacts
<1>3. /\ current_size \in Nat /\ current_size <= RotateLines
      /\ RotateLines \in Nat /\ part \in Nat
  BY Parted, Bounds
<1>4. \A p \in Parts : Len(files'[p]) \in Nat
  BY DEF Shifted
<1>5. stream.part # 0 => Len(files'[part]) <= RotateLines
  <2> SUFFICES ASSUME stream.part # 0
               PROVE  Len(files'[part]) <= RotateLines
    OBVIOUS
  <2>1. Len(files'[part]) <= Len(files[part]) + Len(stream.buf)
    BY DEF Shifted
  <2>2. Len(files[part]) + Len(stream.buf) <= current_size
    BY <1>1 DEF FileSizes
  <2>3. /\ Len(files'[part]) \in Nat /\ Len(files[part]) \in Nat
        /\ Len(stream.buf) \in Nat
    BY <1>2, <1>4
  <2> QED BY <1>3, <2>1, <2>2, <2>3, AtMost, Zenon
<1>6. \A p \in Parts : p # stream.part => files'[p] = files[p]
  BY DEF Shifted
<1>7. \A p \in Parts : Len(files'[p]) <= RotateLines
  <2> SUFFICES ASSUME NEW p \in Parts PROVE Len(files'[p]) <= RotateLines
    OBVIOUS
  <2>1. CASE p = stream.part
    <3>1. stream.part # 0
      BY <2>1, Parted
    <3> QED BY <1>2, <1>5, <2>1, <3>1
  <2>2. CASE p # stream.part
    <3>1. files'[p] = files[p] /\ Len(files[p]) <= RotateLines
      BY <1>1, <1>6, <2>2 DEF FileSizes
    <3> QED BY <3>1
  <2> QED BY <2>1, <2>2
<1>8. \A p \in Parts : p > part => files'[p] = <<>>
  <2>1. \A p \in Parts : p > part => p # stream.part
    BY <1>1, <1>3, StreamFacts, Bounds DEF Parts
  <2> QED BY <1>1, <1>6, <2>1 DEF FileSizes
<1>9. stream'.part # 0 =>
        Len(files'[part]) + Len(stream'.buf) <= current_size'
  <2> SUFFICES ASSUME stream'.part # 0
               PROVE  Len(files'[part]) + Len(stream'.buf) <= current_size'
    OBVIOUS
  <2>1. stream' # Closed
    BY DEF Closed
  <2>2. /\ stream'.part = stream.part
        /\ Len(files'[part]) + Len(stream'.buf)
             <= Len(files[part]) + Len(stream.buf)
        /\ stream'.buf \in Seq(Events)
    BY <2>1 DEF Shifted
  <2>3. Len(files[part]) + Len(stream.buf) <= current_size
    BY <1>1, <2>2 DEF FileSizes
  <2>4. /\ Len(stream'.buf) \in Nat /\ Len(files'[part]) \in Nat
        /\ Len(files[part]) \in Nat /\ Len(stream.buf) \in Nat
    BY <1>2, <1>4, <2>2
  <2>5. current_size' = current_size
    BY <2>1
  <2>6. Len(files'[part]) + Len(stream'.buf)
          <= Len(files[part]) + Len(stream.buf)
    BY <2>2
  <2> QED BY <1>3, <2>3, <2>4, <2>5, <2>6, SumsAtMost, Zenon
<1> QED BY <1>7, <1>8, <1>9 DEF FileSizes

\* A step that leaves the summaries alone.
LEMMA SameSummaries ==
  ASSUME IInv, UNCHANGED <<part, summary, sums, current_size>>,
         pc' # "summary"
  PROVE  SummarySizes'
<1>1. SummarySizes
  BY SizeParts DEF IInv
<1> QED BY <1>1 DEF SummarySizes

\* A step that closes the summary.
LEMMA ClosedSummaries ==
  ASSUME IInv, sums' = ClosedSums, summary' = NoSummary, UNCHANGED part
  PROVE  SummarySizes'
<1>1. summary'.part = 0
  BY DEF NoSummary
<1> QED BY <1>1, ClosedSumsFacts DEF SummarySizes

\* The steps that open a file.
LEMMA OpenSizes ==
  ASSUME IInv, NEW ok \in BOOLEAN, NEW summary_ok \in BOOLEAN,
         \/ start(ok, summary_ok)
         \/ Reopen(ok, summary_ok)
         \/ OpenNext(ok, summary_ok)
  PROVE  SizeInv'
<1>1. open_next_file(ok, summary_ok) /\ UNCHANGED files
  BY DEF start, Reopen, OpenNext
<1>2. /\ part' = part + 1 /\ part' \in Parts /\ current_size' = 0
      /\ stream' = [part |-> IF ok THEN part' ELSE 0, bad |-> FALSE,
                    buf |-> <<>>]
      /\ summary'.part \in {0, part'} /\ summary'.buf = 0
      /\ sums' = ClosedSums
  BY <1>1, OpenFacts
<1>3. FileSizes /\ part \in Nat /\ RotateLines \in Nat \ {0}
  BY SizeParts, Parted, Bounds DEF IInv
<1>4. /\ \A p \in Parts : sums'[p] <= RotateLines
      /\ \A p \in Parts : p > part => sums'[p] = 0
  BY <1>2, ClosedSumsFacts
<1>5. part' > part /\ \A p \in Parts : p > part' => p > part
  BY <1>2, <1>3, Bounds DEF Parts
<1>6. files[part'] = <<>> /\ sums'[part'] = 0
  BY <1>2, <1>3, <1>4, <1>5 DEF FileSizes
<1>7. FileSizes'
  <2>1. Len(files'[part']) + Len(stream'.buf) <= current_size'
    BY <1>1, <1>2, <1>6
  <2> QED BY <1>1, <1>3, <1>5, <2>1 DEF FileSizes
<1>8. pc' # "summary"
  BY DEF start, Reopen, OpenNext, Return
<1>9. SummarySizes'
  BY <1>2, <1>4, <1>5, <1>6, <1>8 DEF SummarySizes
<1>10. Filled'
  BY <1>2, <1>3 DEF Filled
<1> QED BY <1>7, <1>9, <1>10, SizeParts

\* Every other step.
LEMMA SizeKept ==
  ASSUME IInv, [Next]_vars
  PROVE  SizeInv'
<1>0. SizeInv /\ TypeOK /\ FileSizes /\ SummarySizes /\ Filled /\ StreamInv
  BY SizeParts DEF IInv
<1>1. ASSUME NEW ok \in BOOLEAN, NEW summary_ok \in BOOLEAN,
             \/ start(ok, summary_ok)
             \/ Reopen(ok, summary_ok)
             \/ OpenNext(ok, summary_ok)
      PROVE  SizeInv'
  BY <1>1, OpenSizes
<1>2. CASE stop
  BY <1>0, <1>2 DEF stop, disk, streams, SizeInv
<1>3. CASE CloseStreams
  <2>1. FileSizes' /\ SummarySizes'
    BY <1>0, <1>3, CloseShifts, ShiftSizes, ClosedSummaries
       DEF CloseStreams, CloseStream
  <2>2. Filled'
    BY <1>0, <1>3 DEF CloseStreams, Filled
  <2> QED BY <2>1, <2>2, SizeParts
<1>4. CASE Pop
  BY <1>0, <1>4 DEF Pop, disk, streams, SizeInv
<1>5. CASE WriteLine
  <2>1. /\ \A p \in Parts : p # part => files'[p] = files[p]
        /\ Len(files'[part]) + Len(stream'.buf)
             = Len(files[part]) + Len(stream.buf) + 1
        /\ stream.part = part /\ part \in Parts /\ part # 0
    BY <1>5, WriteFacts
  <2>a. Len(files'[part]) \in Nat /\ Len(stream'.buf) \in Nat
    <3>1. /\ files' \in [Parts -> Seq(Events)] /\ part \in Parts
          /\ stream' \in [part : {0, part}, bad : BOOLEAN, buf : Seq(Events)]
      BY <1>5, WriteFacts
    <3>2. files'[part] \in Seq(Events) /\ stream'.buf \in Seq(Events)
      BY <3>1
    <3> QED BY <3>2
  <2>2. /\ current_size < RotateLines /\ current_size' = current_size + 1
        /\ current_size \in Nat /\ part \in Nat /\ RotateLines \in Nat
    BY <1>0, <1>5, Parted, Bounds DEF WriteLine, Filled
  <2>3. Len(files[part]) + Len(stream.buf) <= current_size
    BY <1>0, <2>1 DEF FileSizes
  <2>4. /\ Len(files[part]) \in Nat /\ Len(stream.buf) \in Nat
    BY <1>0, <2>1, StreamFacts
  <2>b. /\ Len(files'[part]) + Len(stream'.buf) <= current_size + 1
        /\ Len(files'[part]) <= RotateLines
    <3> DEFINE a == Len(files'[part])
               b == Len(stream'.buf)
               c == Len(files[part])
               d == Len(stream.buf)
    <3>1. /\ a \in Nat /\ b \in Nat /\ c \in Nat /\ d \in Nat
          /\ a + b = c + d + 1 /\ c + d <= current_size
      BY <2>1, <2>3, <2>4, <2>a
    <3> HIDE DEF a, b, c, d
    <3>2. a + b <= current_size + 1 /\ a <= RotateLines
      BY <2>2, <3>1
    <3> QED BY <3>2 DEF a, b
  <2>5. Len(files'[part]) + Len(stream'.buf) <= current_size'
    BY <2>2, <2>b
  <2>6. Len(files'[part]) <= RotateLines
    BY <2>b
  <2>7. \A p \in Parts : p > part => p # part
    BY <2>2
  <2>8. FileSizes'
    <3>1. UNCHANGED part
      BY <1>5 DEF WriteLine
    <3> QED BY <1>0, <2>1, <2>5, <2>6, <2>7, <3>1 DEF FileSizes
  <2>9. SummarySizes'
    <3>1. UNCHANGED <<part, summary, sums>> /\ pc' = "summary"
      BY <1>5 DEF WriteLine
    <3>2. summary.part # 0 => sums[part] + summary.buf \in Nat
      BY Parted
    <3>3. summary.part # 0 => sums[part] + summary.buf < current_size + 1
      BY <1>0, <2>2, <3>2 DEF SummarySizes
    <3>4. summary.part # 0 => sums[part] + summary.buf <= current_size + 1
      BY <2>2, <3>2, <3>3
    <3> QED BY <1>0, <2>2, <3>1, <3>3, <3>4 DEF SummarySizes
  <2>10. Filled'
    BY <1>5 DEF WriteLine, Filled
  <2> QED BY <2>8, <2>9, <2>10, SizeParts
<1>6. CASE WriteFails
  <2>1. FileSizes' /\ SummarySizes'
    BY <1>6, WriteFailsFacts, ShiftSizes, SameSummaries
       DEF WriteFails, Return
  <2>2. Filled'
    BY <1>0, <1>6 DEF WriteFails, Filled
  <2> QED BY <2>1, <2>2, SizeParts
<1>7. ASSUME NEW ok \in BOOLEAN, write_summary(ok) PROVE SizeInv'
  <2>1. UNCHANGED <<files, stream, part, current_size>>
        /\ pc' = "sync" /\ pc = "summary"
    BY <1>7 DEF write_summary
  <2>2. FileSizes'
    BY <1>0, <2>1 DEF FileSizes
  <2>3. Filled'
    BY <2>1 DEF Filled
  <2>4. SummarySizes'
    <3>1. CASE summary.part = 0
      <4>1. UNCHANGED <<summary, sums>>
        BY <1>7, <3>1 DEF write_summary
      <4> QED BY <2>1, <4>1, SameSummaries
    <3>2. CASE summary.part # 0
      <4>1. PICK k \in 0..(summary.buf + 1) :
              /\ sums' = [sums EXCEPT ![summary.part] = @ + k]
              /\ IF ok
                 THEN /\ summary.buf + 1 - k <= BufferLines
                      /\ summary' = [summary EXCEPT !.buf = @ + 1 - k]
                 ELSE summary' = NoSummary
        BY <1>7, <3>2 DEF write_summary
      <4>2. /\ part \in Parts /\ summary.buf \in Nat /\ summary.part = part
            /\ summary \in [part : 0..MaxParts, buf : 0..BufferLines]
            /\ sums[part] \in Nat /\ k \in Nat /\ k <= summary.buf + 1
            /\ current_size \in Nat /\ current_size <= RotateLines
            /\ RotateLines \in Nat /\ part \in Nat
        BY <3>2, <4>1, Parted, Bounds
      <4>3. sums[part] + summary.buf < current_size
        BY <1>0, <2>1, <3>2 DEF SummarySizes
      <4>4. /\ sums'[part] = sums[part] + k
            /\ \A p \in Parts : p # part => sums'[p] = sums[p]
        BY <1>0, <4>1, <4>2 DEF TypeOK
      <4>5. sums'[part] <= current_size /\ sums'[part] <= RotateLines
        BY <4>2, <4>3, <4>4
      <4>6. summary'.part # 0 => sums'[part] + summary'.buf <= current_size
        <5> SUFFICES ASSUME summary'.part # 0
                     PROVE  sums'[part] + summary'.buf <= current_size
          OBVIOUS
        <5>1. summary' = [summary EXCEPT !.buf = @ + 1 - k]
          BY <4>1 DEF NoSummary
        <5>2. summary'.buf = summary.buf + 1 - k
          BY <4>2, <5>1
        <5> QED BY <4>2, <4>3, <4>4, <5>2
      <4>7. \A p \in Parts : p > part => p # part
        BY <4>2
      <4>8. \A p \in Parts : sums'[p] <= RotateLines
        BY <1>0, <4>4, <4>5 DEF SummarySizes
      <4>9. \A p \in Parts : p > part => sums'[p] = 0
        BY <1>0, <4>4, <4>7 DEF SummarySizes
      <4> QED BY <2>1, <4>6, <4>8, <4>9 DEF SummarySizes
    <3> QED BY <3>1, <3>2
  <2> QED BY <2>2, <2>3, <2>4, SizeParts
<1>a. ASSUME Shifted, UNCHANGED <<part, summary, sums, current_size>>,
             pc' = "rotate"
      PROVE  SizeInv'
  <2>1. FileSizes' /\ SummarySizes'
    BY <1>a, ShiftSizes, SameSummaries
  <2>2. Filled'
    BY <1>a DEF Filled
  <2> QED BY <2>1, <2>2, SizeParts
<1>8. CASE NoSync
  BY <1>0, <1>8 DEF NoSync, disk, streams, SizeInv
<1>9. CASE FlushFails
  BY <1>9, <1>a, FlushFailsFacts DEF FlushFails
<1>10. CASE RateLimited
  BY <1>10, <1>a, FlushedFacts DEF RateLimited
<1>11. CASE SyncDone
  BY <1>11, <1>a, FlushedFacts DEF SyncDone, Attempt
<1>12. ASSUME NEW step \in {"open", "data", "directory"}, SyncFails(step)
       PROVE  SizeInv'
  BY <1>12, <1>a, FlushedFacts DEF SyncFails, Attempt
<1>13. CASE NoRotation
  BY <1>0, <1>13 DEF NoRotation, disk, streams, SizeInv
<1>14. CASE CloseFull
  <2>1. FileSizes' /\ SummarySizes'
    BY <1>0, <1>14, CloseShifts, ShiftSizes, ClosedSummaries
       DEF CloseFull, CloseStream
  <2>2. Filled'
    BY <1>14 DEF CloseFull, Filled
  <2> QED BY <2>1, <2>2, SizeParts
<1>15. CASE ScanCache
  BY <1>0, <1>15 DEF ScanCache, GoOn, Return, disk, streams, SizeInv
<1>16. ASSUME NEW f \in dir, NEW ok \in BOOLEAN, RemoveOldest(f, ok)
       PROVE  SizeInv'
  BY <1>0, <1>16 DEF RemoveOldest, GoOn, Return, streams, SizeInv
<1>17. CASE Kill
  <2>1. /\ stream'.part = 0 /\ summary'.part = 0 /\ current_size' = 0
        /\ UNCHANGED <<files, sums, part>> /\ pc' = "down"
    BY <1>17 DEF Kill, Closed, NoSummary, disk
  <2>2. 0 < RotateLines
    BY Bounds
  <2> QED BY <1>0, <2>1, <2>2 DEF SizeInv
<1>18. CASE Tick
  BY <1>0, <1>18 DEF Tick, disk, streams, SizeInv
<1>19. CASE UNCHANGED vars
  BY <1>0, <1>19 DEF vars, disk, streams, SizeInv
<1> QED BY <1>1, <1>2, <1>3, <1>4, <1>5, <1>6, <1>7, <1>8, <1>9, <1>10, <1>11,
           <1>12, <1>13, <1>14, <1>15, <1>16, <1>17, <1>18, <1>19 DEF Next

---------------------------------------------------------------------------
(***************************************************************************)
(* Which events are where.                                                 *)
(***************************************************************************)
\* What HomeInv says of the order of the events.
Ordered ==
  /\ \A d \in Events : home[d] <= part
  /\ \A d, e \in Events : d < e /\ home[d] # 0 /\ home[e] # 0 =>
       home[d] <= home[e]

\* Of the JSONL lines.
LinesAtHome ==
  /\ pc \in {"summary", "sync"} =>
       event \in LinesOf(files[part]) \cup LinesOf(stream.buf)
  /\ \A p \in Parts : \A d \in LinesOf(files[p]) : home[d] = p
  /\ \A d \in LinesOf(stream.buf) : home[d] = part

\* And of the summaries.
SummariesAtHome ==
  /\ \A p \in Parts : sums[p] # 0 => \E d \in Events : home[d] = p
  /\ summary.buf # 0 => \E d \in Events : home[d] = part

\* HomeInv is these three.
LEMMA HomeParts ==
  /\ HomeInv => Ordered /\ LinesAtHome /\ SummariesAtHome
  /\ Ordered' /\ LinesAtHome' /\ SummariesAtHome' => HomeInv'
BY DEF HomeInv, Ordered, LinesAtHome, SummariesAtHome

\* Lines that are shifted out of the buffer stay in their file.
LEMMA ShiftHomes ==
  ASSUME IInv, Shifted, UNCHANGED <<part, home>>, pc' \notin {"summary", "sync"}
  PROVE  LinesAtHome' /\ Ordered'
<1>1. LinesAtHome /\ Ordered /\ TypeOK
  BY HomeParts DEF IInv
<1>2. stream.part # 0 => stream.part = part
  BY <1>1, StreamFacts
<1>3. ASSUME NEW p \in Parts, NEW d \in LinesOf(files'[p])
      PROVE  home[d] = p
  <2>1. CASE p = stream.part
    <3>1. p # 0 /\ p = part
      BY <1>2, <2>1, Parted
    <3>2. d \in LinesOf(files[part]) \cup LinesOf(stream.buf)
      BY <1>3, <2>1, <3>1 DEF Shifted
    <3> QED BY <1>1, <3>1, <3>2 DEF LinesAtHome
  <2>2. CASE p # stream.part
    <3>1. files'[p] = files[p]
      BY <2>2 DEF Shifted
    <3> QED BY <1>1, <1>3, <3>1 DEF LinesAtHome
  <2> QED BY <2>1, <2>2
<1>4. LinesOf(stream'.buf) \subseteq LinesOf(stream.buf)
  <2>1. LinesOf(Closed.buf) = {}
    BY DEF Closed, LinesOf
  <2> QED BY <2>1 DEF Shifted
<1>5. \A d \in LinesOf(stream'.buf) : home[d] = part
  BY <1>1, <1>4 DEF LinesAtHome
<1> QED BY <1>1, <1>3, <1>5 DEF LinesAtHome, Ordered

\* A step that leaves the summaries alone, or closes them.
LEMMA SummariesKept ==
  ASSUME IInv, UNCHANGED home,
         \/ UNCHANGED <<part, summary, sums>>
         \/ sums' = ClosedSums /\ summary'.buf = 0
  PROVE  SummariesAtHome'
<1>1. SummariesAtHome
  BY HomeParts DEF IInv
<1>2. CASE UNCHANGED <<part, summary, sums>>
  BY <1>1, <1>2 DEF SummariesAtHome
<1>3. CASE sums' = ClosedSums /\ summary'.buf = 0
  BY <1>3, ClosedSumsFacts DEF SummariesAtHome
<1> QED BY <1>2, <1>3

\* The steps that open a file.
LEMMA OpenHomes ==
  ASSUME IInv, NEW ok \in BOOLEAN, NEW summary_ok \in BOOLEAN,
         \/ start(ok, summary_ok)
         \/ Reopen(ok, summary_ok)
         \/ OpenNext(ok, summary_ok)
  PROVE  HomeInv'
<1>1. open_next_file(ok, summary_ok) /\ UNCHANGED <<files, home>>
  BY DEF start, Reopen, OpenNext, history
<1>2. /\ part' = part + 1 /\ summary'.buf = 0 /\ sums' = ClosedSums
      /\ stream' = [part |-> IF ok THEN part' ELSE 0, bad |-> FALSE,
                    buf |-> <<>>]
  BY <1>1, OpenFacts
<1>3. Ordered /\ LinesAtHome /\ part \in Nat /\ home \in [Events -> 0..MaxParts]
  BY HomeParts, Parted DEF IInv, TypeOK
<1>4. pc' \notin {"summary", "sync"}
  BY DEF start, Reopen, OpenNext, Return
<1>5. Ordered'
  <2>1. \A d \in Events : home[d] <= part /\ home[d] \in Nat
    BY <1>3, Bounds DEF Ordered
  <2>2. \A d \in Events : home[d] <= part + 1
    BY <1>3, <2>1
  <2> QED BY <1>1, <1>2, <1>3, <2>2 DEF Ordered
<1>6. LinesAtHome'
  <2>1. stream'.buf = <<>>
    BY <1>2
  <2>2. LinesOf(stream'.buf) = {}
    BY <2>1 DEF LinesOf
  <2> QED BY <1>1, <1>3, <1>4, <2>2 DEF LinesAtHome
<1>7. SummariesAtHome'
  BY <1>1, <1>2, SummariesKept
<1> QED BY <1>5, <1>6, <1>7, HomeParts

\* The new event is the last of the newest file.
LEMMA WriteHomes ==
  ASSUME IInv, WriteLine
  PROVE  HomeInv'
<1>1. /\ Ordered /\ LinesAtHome /\ SummariesAtHome /\ EventInv /\ TypeOK
  BY HomeParts DEF IInv
<1>2. /\ \A p \in Parts : p # part => files'[p] = files[p]
      /\ LinesOf(files'[part]) \cup LinesOf(stream'.buf)
           = LinesOf(files[part]) \cup LinesOf(stream.buf) \cup {event}
      /\ part \in Parts /\ stream.part = part
  BY WriteFacts
<1>3. event \in Events /\ event + 1 = next /\ home[event] = 0
  BY <1>1 DEF EventInv, WriteLine, Busy
<1>4. /\ home' = [home EXCEPT ![event] = part]
      /\ UNCHANGED <<part, sums, summary, event>> /\ pc' = "summary"
  BY <1>2 DEF WriteLine
<1>5. home \in [Events -> 0..MaxParts]
  BY <1>1 DEF TypeOK
<1>6. home'[event] = part /\ \A d \in Events : d # event => home'[d] = home[d]
  BY <1>3, <1>4, <1>5
<1>7. ASSUME NEW d \in Events, home[d] # 0 PROVE d < event
  <2>1. d < next /\ d # event
    BY <1>1, <1>3, <1>7 DEF EventInv
  <2> QED BY <1>3, <2>1, Bounds DEF Events
<1>8. \A d \in Events : home[d] <= part /\ home[d] \in Nat
  BY <1>1, <1>5, Bounds DEF Ordered
<1>9. part \in Nat /\ \A d \in Events : d \in Nat
  BY Parted, Bounds DEF Events
<1>10. Ordered'
  <2>1. \A d \in Events : home'[d] <= part
    BY <1>6, <1>8, <1>9
  <2>2. ASSUME NEW d \in Events, NEW e \in Events,
               d < e, home'[d] # 0, home'[e] # 0
        PROVE  home'[d] <= home'[e]
    <3>1. CASE e = event
      BY <1>6, <2>1, <3>1
    <3>2. CASE e # event
      <4>1. home[e] # 0 /\ e < event /\ home'[e] = home[e]
        BY <1>6, <1>7, <2>2, <3>2
      <4>2. d # event
        BY <1>3, <1>9, <2>2, <4>1
      <4>3. home'[d] = home[d]
        BY <1>6, <4>2
      <4> QED BY <1>1, <2>2, <4>1, <4>3 DEF Ordered
    <3> QED BY <3>1, <3>2
  <2> QED BY <1>4, <2>1, <2>2 DEF Ordered
<1>11. \A d \in LinesOf(files[part]) \cup LinesOf(stream.buf) \cup {event} :
         home'[d] = part
  <2>1. \A d \in LinesOf(files[part]) \cup LinesOf(stream.buf) :
          home[d] = part /\ d \in Events
    <3>1. \A d \in LinesOf(files[part]) \cup LinesOf(stream.buf) : d \in Events
      <4>1. files[part] \in Seq(Events) /\ stream.buf \in Seq(Events)
        BY <1>1, <1>2, StreamFacts
      <4> QED BY <4>1 DEF LinesOf
    <3> QED BY <1>1, <1>2, <3>1 DEF LinesAtHome
  <2> QED BY <1>6, <2>1
<1>12. ASSUME NEW p \in Parts, NEW d \in LinesOf(files'[p])
       PROVE  home'[d] = p
  <2>1. CASE p = part
    <3>1. d \in LinesOf(files[part]) \cup LinesOf(stream.buf) \cup {event}
      BY <1>2, <1>12, <2>1
    <3> QED BY <1>11, <2>1, <3>1
  <2>2. CASE p # part
    <3>1. d \in LinesOf(files[p]) /\ d \in Events
      <4>1. files'[p] = files[p] /\ files[p] \in Seq(Events)
        BY <1>2, <2>2, Parted
      <4> QED BY <1>12, <4>1 DEF LinesOf
    <3>2. home[d] = p /\ p # 0
      BY <1>1, <3>1, Parted DEF LinesAtHome
    <3> QED BY <1>3, <1>6, <3>1, <3>2
  <2> QED BY <2>1, <2>2
<1>13. LinesAtHome'
  <2>1. event \in LinesOf(files'[part]) \cup LinesOf(stream'.buf)
    BY <1>2
  <2>2. \A d \in LinesOf(stream'.buf) : home'[d] = part
    BY <1>2, <1>11
  <2> QED BY <1>4, <1>12, <2>1, <2>2 DEF LinesAtHome
<1>14. SummariesAtHome'
  <2>1. ASSUME NEW p, p # 0, \E d \in Events : home[d] = p
        PROVE  \E d \in Events : home'[d] = p
    BY <1>3, <1>6, <2>1
  <2>2. \A p \in Parts : p # 0
    BY Parted
  <2>3. \A p \in Parts : sums[p] # 0 => \E d \in Events : home'[d] = p
    BY <1>1, <2>1, <2>2 DEF SummariesAtHome
  <2>4. \E d \in Events : home'[d] = part
    BY <1>3, <1>6
  <2> QED BY <1>4, <2>3, <2>4 DEF SummariesAtHome
<1> QED BY <1>10, <1>13, <1>14, HomeParts

\* Every other step.
LEMMA HomeKept ==
  ASSUME IInv, [Next]_vars
  PROVE  HomeInv'
<1>0. /\ HomeInv /\ TypeOK /\ Ordered /\ LinesAtHome /\ SummariesAtHome
      /\ StreamInv
  BY HomeParts DEF IInv
<1>a. ASSUME Shifted, UNCHANGED <<part, home>>,
             pc' \notin {"summary", "sync"},
             \/ UNCHANGED <<summary, sums>>
             \/ sums' = ClosedSums /\ summary' = NoSummary
      PROVE  HomeInv'
  <2>1. LinesAtHome' /\ Ordered'
    BY <1>a, ShiftHomes
  <2>2. SummariesAtHome'
    BY <1>a, SummariesKept DEF NoSummary
  <2> QED BY <2>1, <2>2, HomeParts
<1>1. ASSUME NEW ok \in BOOLEAN, NEW summary_ok \in BOOLEAN,
             \/ start(ok, summary_ok)
             \/ Reopen(ok, summary_ok)
             \/ OpenNext(ok, summary_ok)
      PROVE  HomeInv'
  BY <1>1, OpenHomes
<1>2. CASE stop
  BY <1>0, <1>2 DEF stop, disk, streams, history, HomeInv
<1>3. CASE CloseStreams
  BY <1>0, <1>3, <1>a, CloseShifts DEF CloseStreams, CloseStream, history
<1>4. CASE Pop
  <2>1. pc' \notin {"summary", "sync"}
    BY <1>4 DEF Pop
  <2> QED BY <1>0, <1>4, <2>1 DEF Pop, disk, streams, HomeInv
<1>5. CASE WriteLine
  BY <1>5, WriteHomes
<1>6. CASE WriteFails
  BY <1>6, <1>a, WriteFailsFacts DEF WriteFails, Return
<1>7. ASSUME NEW ok \in BOOLEAN, write_summary(ok) PROVE HomeInv'
  <2>1. /\ UNCHANGED <<files, stream, part, home, event>>
        /\ pc' = "sync" /\ pc = "summary"
    BY <1>7 DEF write_summary, history
  <2>2. Ordered' /\ LinesAtHome'
    BY <1>0, <2>1 DEF Ordered, LinesAtHome
  <2>3. event \in Events /\ home[event] = part
    BY <2>1, InFlight DEF Busy, IInv, EventInv
  <2>4. /\ \A p \in Parts : p # part => sums'[p] = sums[p]
    <3>1. CASE summary.part = 0
      BY <1>7, <3>1 DEF write_summary
    <3>2. CASE summary.part # 0
      <4>1. summary.part = part
        BY <3>2, Parted
      <4>2. \E k : sums' = [sums EXCEPT ![part] = @ + k]
        BY <1>7, <3>2, <4>1 DEF write_summary
      <4> QED BY <1>0, <4>2 DEF TypeOK
    <3> QED BY <3>1, <3>2
  <2>5. SummariesAtHome'
    BY <1>0, <2>1, <2>3, <2>4 DEF SummariesAtHome
  <2> QED BY <2>2, <2>5, HomeParts
<1>8. CASE NoSync \/ NoRotation
  BY <1>0, <1>8, <1>a, NothingShifted
     DEF NoSync, NoRotation, disk, streams, history
<1>9. CASE FlushFails
  BY <1>9, <1>a, FlushFailsFacts DEF FlushFails
<1>10. CASE RateLimited
  BY <1>10, <1>a, FlushedFacts DEF RateLimited
<1>11. CASE SyncDone
  BY <1>11, <1>a, FlushedFacts DEF SyncDone, Attempt
<1>12. ASSUME NEW step \in {"open", "data", "directory"}, SyncFails(step)
       PROVE  HomeInv'
  BY <1>12, <1>a, FlushedFacts DEF SyncFails, Attempt
<1>13. CASE CloseFull
  BY <1>0, <1>13, <1>a, CloseShifts DEF CloseFull, CloseStream, history
<1>14. CASE ScanCache
  BY <1>0, <1>14, <1>a, NothingShifted
     DEF ScanCache, GoOn, Return, disk, streams
<1>15. ASSUME NEW f \in dir, NEW ok \in BOOLEAN, RemoveOldest(f, ok)
       PROVE  HomeInv'
  BY <1>0, <1>15, <1>a, NothingShifted DEF RemoveOldest, GoOn, Return, streams
<1>16. CASE Kill
  <2>1. /\ UNCHANGED <<files, sums, part, home>> /\ pc' = "down"
        /\ stream'.buf = <<>> /\ summary'.buf = 0
    BY <1>16 DEF Kill, disk, Closed, NoSummary
  <2>2. LinesOf(stream'.buf) = {}
    BY <2>1 DEF LinesOf
  <2> QED BY <1>0, <2>1, <2>2 DEF HomeInv
<1>17. CASE Tick
  BY <1>0, <1>17 DEF Tick, disk, streams, history, HomeInv
<1>18. CASE UNCHANGED vars
  BY <1>0, <1>18 DEF vars, disk, streams, history, HomeInv
<1> QED BY <1>1, <1>2, <1>3, <1>4, <1>5, <1>6, <1>7, <1>8, <1>9, <1>10, <1>11,
           <1>12, <1>13, <1>14, <1>15, <1>16, <1>17, <1>18 DEF Next

---------------------------------------------------------------------------
(***************************************************************************)
(* What the sink vouches for stays so.                                     *)
(***************************************************************************)
\* What no step takes back.
Growing ==
  /\ \A p \in Parts : LinesOf(files[p]) \subseteq LinesOf(files'[p])
  /\ \A d \in Events : home[d] # 0 => home'[d] = home[d]
  /\ dir \cup removed \subseteq dir' \cup removed'
  /\ ddir \cup removed \subseteq ddir' \cup removed'
  /\ medium \subseteq medium' /\ failed \subseteq failed'
  /\ limited \subseteq limited'

\* A step that settles nothing new.
SettlesNoOther ==
  /\ done' \subseteq done \cup (IF Synced THEN {event} ELSE {}) \cup failed'
  /\ Synced' => (Synced /\ event' = event) \/ event' \in failed'

\* What is settled stays settled.
LEMMA SettledStays ==
  ASSUME IInv, Growing, NEW e, Settled(e)
  PROVE  Settled(e)'
<1> SUFFICES ASSUME critical_fsync, e \in CriticalEvents \ failed'
             PROVE  /\ InFile(e)'
                    /\ (FileOf(e) \in dir \cup removed)'
                    /\ e \notin limited' =>
                         e \in medium' /\ (FileOf(e) \in ddir \cup removed)'
  BY DEF Settled
<1>1. e \in CriticalEvents \ failed /\ e \in Events
  BY JsonlBoundsAssumption DEF Growing, Events
<1>2. /\ InFile(e)
      /\ FileOf(e) \in dir \cup removed
      /\ e \notin limited => e \in medium /\ FileOf(e) \in ddir \cup removed
  BY <1>1 DEF Settled
<1>3. home'[e] = home[e] /\ home[e] \in Parts
  <2>1. home[e] # 0 /\ home[e] \in 0..MaxParts
    BY <1>1, <1>2 DEF InFile, IInv, TypeOK
  <2>2. home[e] \in Parts
    BY <2>1, Bounds DEF Parts
  <2> QED BY <1>1, <2>1, <2>2 DEF Growing
<1>4. FileOf(e)' = FileOf(e)
  BY <1>3 DEF FileOf
<1>5. InFile(e)'
  BY <1>2, <1>3 DEF Growing, InFile
<1>6. FileOf(e) \in dir' \cup removed'
  BY <1>2 DEF Growing
<1>7. e \notin limited' => e \in medium' /\ FileOf(e) \in ddir' \cup removed'
  BY <1>2 DEF Growing
<1> QED BY <1>4, <1>5, <1>6, <1>7

\* Most steps settle nothing new.
LEMMA SettledSame ==
  ASSUME IInv, Growing, SettlesNoOther
  PROVE  SettledInv'
<1>1. SettledInv
  BY DEF IInv
<1>2. \A e : Settled(e) => Settled(e)'
  BY SettledStays
<1>3. \A e \in failed' : Settled(e)'
  BY DEF Settled
<1>4. \A e \in done' : Settled(e)'
  BY <1>1, <1>2, <1>3 DEF SettledInv, SettlesNoOther
<1>5. Synced' => Settled(event)'
  <2>1. CASE Synced /\ event' = event
    BY <1>1, <1>2, <2>1 DEF SettledInv, Settled, InFile, FileOf
  <2>2. CASE event' \in failed'
    BY <2>2 DEF Settled
  <2> QED BY <2>1, <2>2 DEF SettlesNoOther
<1> QED BY <1>4, <1>5 DEF SettledInv

\* After a flush the event is in its file, which is in the directory.
LEMMA FlushSettles ==
  ASSUME IInv, pc = "sync", Flushed, UNCHANGED <<part, home, event>>
  PROVE  /\ \A p \in Parts : LinesOf(files[p]) \subseteq LinesOf(files'[p])
         /\ InFile(event)' /\ FileOf(event)' = <<"jsonl", part>>
         /\ FileOf(event)' \in dir
         /\ ~needs_directory_sync => FileOf(event)' \in ddir
<1>1. /\ Shifted /\ part \in Parts /\ stream.part # 0
      /\ event \in LinesOf(files'[part]) /\ home[event] = part
  BY FlushedFacts
<1>2. /\ <<"jsonl", part>> \in dir
      /\ ~needs_directory_sync => <<"jsonl", part>> \in ddir
  BY <1>1 DEF IInv, StreamInv
<1>3. FileOf(event)' = <<"jsonl", part>>
  BY <1>1 DEF FileOf
<1>4. part # 0
  BY <1>1, Parted
<1>5. InFile(event)'
  BY <1>1, <1>4 DEF InFile
<1> QED BY <1>1, <1>2, <1>3, <1>5 DEF Shifted

\* Every step.
LEMMA SettledKept ==
  ASSUME IInv, [Next]_vars
  PROVE  SettledInv'
<1>0. TypeOK /\ SettledInv /\ StreamInv
  BY DEF IInv
<1>a. ASSUME Shifted, UNCHANGED <<ddir, home, medium, limited, removed>>,
             dir \subseteq dir', failed \subseteq failed'
      PROVE  Growing
  BY <1>a DEF Shifted, Growing
<1>b. ASSUME UNCHANGED <<files, ddir, home, medium, limited, removed>>,
             dir \subseteq dir', failed \subseteq failed'
      PROVE  Growing
  BY <1>b DEF Growing
<1>1. ASSUME NEW ok \in BOOLEAN, NEW summary_ok \in BOOLEAN,
             start(ok, summary_ok)
      PROVE  SettledInv'
  <2>1. Growing
    BY <1>1, <1>b, OpenFacts DEF start, history
  <2>2. SettlesNoOther
    BY <1>1 DEF start, history, SettlesNoOther, Synced, Written, Busy
  <2> QED BY <2>1, <2>2, SettledSame
<1>2. ASSUME NEW ok \in BOOLEAN, NEW summary_ok \in BOOLEAN,
             Reopen(ok, summary_ok)
      PROVE  SettledInv'
  <2>1. Growing
    BY <1>2, <1>b, OpenFacts DEF Reopen
  <2>2. SettlesNoOther
    BY <1>2 DEF Reopen, Return, SettlesNoOther, Synced, Written, Busy
  <2> QED BY <2>1, <2>2, SettledSame
<1>3. ASSUME NEW ok \in BOOLEAN, NEW summary_ok \in BOOLEAN,
             OpenNext(ok, summary_ok)
      PROVE  SettledInv'
  <2>1. Growing
    BY <1>3, <1>b, OpenFacts DEF OpenNext, history
  <2>2. SettlesNoOther
    BY <1>3 DEF OpenNext, history, SettlesNoOther, Synced, Written, Busy
  <2> QED BY <2>1, <2>2, SettledSame
<1>4. CASE stop
  <2>1. Growing /\ SettlesNoOther
    BY <1>4, <1>b DEF stop, disk, streams, history, SettlesNoOther, Synced,
                     Written, Busy
  <2> QED BY <2>1, SettledSame
<1>5. CASE CloseStreams
  <2>1. Growing
    BY <1>0, <1>5, <1>a, CloseShifts DEF CloseStreams, history
  <2>2. SettlesNoOther
    BY <1>5 DEF CloseStreams, history, SettlesNoOther, Synced, Written, Busy
  <2> QED BY <2>1, <2>2, SettledSame
<1>6. CASE Pop
  <2>1. Growing /\ SettlesNoOther
    BY <1>6, <1>b DEF Pop, disk, streams, SettlesNoOther, Synced, Written, Busy
  <2> QED BY <2>1, SettledSame
<1>7. CASE WriteLine
  <2>1. /\ \A p \in Parts : p # part => files'[p] = files[p]
        /\ LinesOf(files[part]) \subseteq LinesOf(files'[part])
    BY <1>7, WriteFacts
  <2>2. \A p \in Parts : LinesOf(files[p]) \subseteq LinesOf(files'[p])
    BY <2>1
  <2>3. \A d \in Events : home[d] # 0 => home'[d] = home[d]
    <3>1. home[event] = 0
      BY <1>7 DEF WriteLine, IInv, EventInv
    <3>2. home' = [home EXCEPT ![event] = stream.part]
      BY <1>7 DEF WriteLine
    <3> QED BY <1>0, <3>1, <3>2 DEF TypeOK
  <2>4. Growing
    BY <1>7, <2>2, <2>3 DEF WriteLine, Growing
  <2>5. SettlesNoOther
    BY <1>7 DEF WriteLine, SettlesNoOther, Synced, Written, Busy
  <2> QED BY <2>4, <2>5, SettledSame
<1>8. CASE WriteFails
  <2>1. Growing
    BY <1>8, <1>a, WriteFailsFacts DEF WriteFails
  <2>2. SettlesNoOther
    BY <1>8 DEF WriteFails, Return, SettlesNoOther, Synced, Written, Busy
  <2> QED BY <2>1, <2>2, SettledSame
<1>9. ASSUME NEW ok \in BOOLEAN, write_summary(ok) PROVE SettledInv'
  <2>1. Growing
    BY <1>9, <1>b DEF write_summary, history
  <2>2. SettlesNoOther
    BY <1>9 DEF write_summary, history, SettlesNoOther, Synced, Written, Busy
  <2> QED BY <2>1, <2>2, SettledSame
<1>c. ASSUME Growing, UNCHANGED <<done, event>>, pc = "sync",
             Settled(event)'
      PROVE  SettledInv'
  <2>1. \A e \in done : Settled(e)'
    BY <1>0, <1>c, SettledStays DEF SettledInv
  <2> QED BY <1>c, <2>1 DEF SettledInv
<1>10. CASE NoSync
  <2>1. Growing
    BY <1>10, <1>b DEF NoSync, disk, history
  <2>2. Settled(event)'
    BY <1>10 DEF NoSync, NeedsSync, Settled
  <2> QED BY <1>10, <1>c, <2>1, <2>2 DEF NoSync, history
<1>11. CASE FlushFails
  <2>1. Growing
    BY <1>11, <1>a, FlushFailsFacts DEF FlushFails
  <2>2. Settled(event)'
    BY <1>11 DEF FlushFails, Settled
  <2> QED BY <1>11, <1>c, <2>1, <2>2 DEF FlushFails
<1>12. CASE RateLimited
  <2>1. /\ pc = "sync" /\ Flushed
        /\ UNCHANGED <<part, home, event, done, dir, ddir, medium, removed,
                       failed>>
        /\ limited' = limited \cup {event}
    BY <1>12 DEF RateLimited
  <2>2. /\ \A p \in Parts : LinesOf(files[p]) \subseteq LinesOf(files'[p])
        /\ InFile(event)' /\ FileOf(event)' \in dir
    BY <2>1, FlushSettles
  <2>3. Growing
    BY <2>1, <2>2 DEF Growing
  <2>4. Settled(event)'
    BY <2>1, <2>2 DEF Settled
  <2> QED BY <1>c, <2>1, <2>3, <2>4
<1>13. CASE SyncDone
  <2>1. /\ pc = "sync" /\ Flushed
        /\ UNCHANGED <<part, home, event, done, dir, removed, failed, limited>>
        /\ medium' = medium \cup LinesOf(files'[stream.part])
        /\ ddir' = IF needs_directory_sync THEN dir ELSE ddir
    BY <1>13 DEF SyncDone, Attempt
  <2>2. /\ \A p \in Parts : LinesOf(files[p]) \subseteq LinesOf(files'[p])
        /\ InFile(event)' /\ FileOf(event)' \in dir
        /\ ~needs_directory_sync => FileOf(event)' \in ddir
    BY <2>1, FlushSettles
  <2>3. stream.part = part /\ event \in LinesOf(files'[part])
    BY <1>0, <2>1, FlushedFacts, StreamFacts
  <2>4. ddir \cup removed \subseteq ddir' \cup removed'
        \/ \E f \in ddir : f \notin dir \cup removed
    BY <2>1
  <2>5. ddir \subseteq dir \cup removed
    BY DEF IInv, StreamInv
  <2>6. Growing
    BY <2>1, <2>2, <2>4, <2>5 DEF Growing
  <2>7. Settled(event)'
    BY <2>1, <2>2, <2>3 DEF Settled
  <2> QED BY <1>c, <2>1, <2>6, <2>7
<1>14. ASSUME NEW step \in {"open", "data", "directory"}, SyncFails(step)
       PROVE  SettledInv'
  <2>1. /\ pc = "sync" /\ Flushed
        /\ UNCHANGED <<part, home, event, done, dir, ddir, removed, limited>>
        /\ medium \subseteq medium' /\ failed' = failed \cup {event}
    BY <1>14 DEF SyncFails, Attempt
  <2>2. \A p \in Parts : LinesOf(files[p]) \subseteq LinesOf(files'[p])
    BY <2>1, FlushSettles
  <2>3. Growing
    BY <2>1, <2>2 DEF Growing
  <2>4. Settled(event)'
    BY <2>1 DEF Settled
  <2> QED BY <1>c, <2>1, <2>3, <2>4
<1>15. CASE NoRotation
  <2>1. Growing /\ SettlesNoOther
    BY <1>15, <1>b DEF NoRotation, disk, history, SettlesNoOther, Synced,
                      Written, Busy
  <2> QED BY <2>1, SettledSame
<1>16. CASE CloseFull
  <2>1. Growing
    BY <1>0, <1>16, <1>a, CloseShifts DEF CloseFull, history
  <2>2. SettlesNoOther
    BY <1>16 DEF CloseFull, history, SettlesNoOther, Synced, Written, Busy
  <2> QED BY <2>1, <2>2, SettledSame
<1>d. ASSUME NEW s, GoOn(s), Synced, failed' = failed
      PROVE  SettlesNoOther
  BY <1>d DEF GoOn, Return, SettlesNoOther, Synced, Written, Busy
<1>17. CASE ScanCache
  <2>1. Growing
    BY <1>17, <1>b DEF ScanCache, disk
  <2>2. SettlesNoOther
    BY <1>17, <1>d DEF ScanCache, Synced, Written, Busy
  <2> QED BY <2>1, <2>2, SettledSame
<1>18. ASSUME NEW f \in dir, NEW ok \in BOOLEAN, RemoveOldest(f, ok)
       PROVE  SettledInv'
  <2>1. Growing
    BY <1>18 DEF RemoveOldest, Growing
  <2>2. SettlesNoOther
    BY <1>18, <1>d DEF RemoveOldest, Synced, Written, Busy
  <2> QED BY <2>1, <2>2, SettledSame
<1>19. CASE Kill
  <2>1. Growing
    BY <1>19, <1>b DEF Kill, disk
  <2>2. SettlesNoOther
    BY <1>19 DEF Kill, SettlesNoOther, Synced, Written, Busy
  <2> QED BY <2>1, <2>2, SettledSame
<1>20. CASE Tick
  <2>1. Growing /\ SettlesNoOther
    BY <1>20, <1>b DEF Tick, disk, history, SettlesNoOther, Synced, Written,
                      Busy
  <2> QED BY <2>1, SettledSame
<1>21. CASE UNCHANGED vars
  <2>1. Growing /\ SettlesNoOther
    BY <1>21, <1>b DEF vars, disk, history, SettlesNoOther, Synced, Written,
                      Busy
  <2> QED BY <2>1, SettledSame
<1> QED BY <1>1, <1>2, <1>3, <1>4, <1>5, <1>6, <1>7, <1>8, <1>9, <1>10, <1>11,
           <1>12, <1>13, <1>14, <1>15, <1>16, <1>17, <1>18, <1>19, <1>20,
           <1>21 DEF Next

---------------------------------------------------------------------------
(***************************************************************************)
(* The limiter bounds the syncs.                                           *)
(***************************************************************************)
\* The sums of syncs are numbers, and those of a part are not larger.
LEMMA SyncSums ==
  ASSUME NEW w \in [0..MaxTime -> Nat], NEW S, NEW T,
         S \subseteq T, T \subseteq 0..MaxTime
  PROVE  /\ SumOver(w, S) \in Nat /\ SumOver(w, T) \in Nat
         /\ SumOver(w, S) <= SumOver(w, T)
<1>1. IsFiniteSet(0..MaxTime)
  BY Bounds, FS_Interval
<1>2. IsFiniteSet(T)
  BY <1>1, FS_Subset
<1>3. \A u \in T : w[u] \in Nat
  OBVIOUS
<1> QED BY <1>2, <1>3, SumPart

\* The limiter of this minute: when a new minute starts, the syncs of the
\* last one are those before it.
LEMMA ThisMinuteFacts ==
  ASSUME IInv
  PROVE  /\ ThisMinute \in [start : 0..now, count : 0..MaxSyncs]
         /\ now < ThisMinute.start + Minute
         /\ Limits(syncs, ThisMinute)
<1>0. /\ limiter \in [start : 0..now, count : 0..MaxSyncs]
      /\ now \in 0..MaxTime /\ syncs \in [0..MaxTime -> Nat]
      /\ Limits(syncs, limiter)
  BY DEF IInv, TypeOK, SyncInv
<1>a. /\ limiter.start \in Nat /\ now \in Nat /\ Minute \in Nat \ {0}
      /\ limiter.start <= now /\ limiter.count \in Nat
      /\ limiter.count <= MaxSyncs /\ MaxTime \in Nat /\ MaxSyncs \in Nat
  BY <1>0, Bounds
<1>1. CASE now - limiter.start < Minute
  <2>1. ThisMinute = limiter
    BY <1>1, <1>a DEF ThisMinute
  <2> QED BY <1>0, <1>1, <1>a, <2>1
<1>2. CASE now - limiter.start >= Minute
  <2> DEFINE m == [start |-> now, count |-> 0]
  <2>1. ThisMinute = m /\ m.start = now /\ m.count = 0
    BY <1>2 DEF ThisMinute
  <2>2. now < now + Minute /\ m \in [start : 0..now, count : 0..MaxSyncs]
    BY <1>a
  <2> HIDE DEF m
  <2>3. \A u \in 0..MaxTime : u >= now => syncs[u] = 0
    BY <1>0, <1>2, <1>a DEF Limits
  <2>4. \A u \in 0..MaxTime : u > now \/ u >= m.start + Minute => syncs[u] = 0
    BY <1>a, <2>1, <2>3
  <2>5. SumOver(syncs, Between(m.start, MaxTime + 1)) <= m.count
    <3>1. \A u \in Between(now, MaxTime + 1) : syncs[u] = 0
      BY <2>3 DEF Between
    <3>2. SumOver(syncs, Between(now, MaxTime + 1)) = 0
      BY <3>1, BetweenFacts, SumZero
    <3> QED BY <2>1, <3>2
  <2>6. ASSUME NEW t \in 0..MaxTime, t + Minute > m.start
        PROVE  SumOver(syncs, Between(t, m.start)) <= MaxSyncs
    <3>1. Between(t, now) \subseteq Between(limiter.start, MaxTime + 1)
      BY <1>2, <1>a, <2>1, <2>6 DEF Between
    <3>2. Between(limiter.start, MaxTime + 1) \subseteq 0..MaxTime
      BY BetweenFacts
    <3>3. /\ SumOver(syncs, Between(t, now)) \in Nat
          /\ SumOver(syncs, Between(limiter.start, MaxTime + 1)) \in Nat
          /\ SumOver(syncs, Between(t, now))
               <= SumOver(syncs, Between(limiter.start, MaxTime + 1))
      BY <1>0, <3>1, <3>2, SyncSums
    <3>4. SumOver(syncs, Between(limiter.start, MaxTime + 1))
            <= limiter.count
      BY <1>0 DEF Limits
    <3> QED BY <1>a, <2>1, <3>3, <3>4
  <2> QED BY <2>1, <2>2, <2>4, <2>5, <2>6 DEF Limits
<1> QED BY <1>1, <1>2, <1>a

\* The syncs after one attempt: it may fail before fdatasync is called.
Attempted(w, v) == v = w \/ v = [w EXCEPT ![now] = @ + 1]

\* A sync the limiter counts, whether or not fdatasync is reached.
LEMMA CountedSync ==
  ASSUME NEW w \in [0..MaxTime -> Nat], NEW v, now \in 0..MaxTime,
         Attempted(w, v),
         NEW m \in [start : 0..now, count : 0..MaxSyncs],
         now < m.start + Minute, m.count < MaxSyncs, Limits(w, m),
         NEW n, n = [start |-> m.start, count |-> m.count + 1],
         \A t \in 0..MaxTime :
           SumOver(w, Between(t, t + Minute)) <= 2 * MaxSyncs
  PROVE  /\ Limits(v, n)
         /\ \A t \in 0..MaxTime :
              SumOver(v, Between(t, t + Minute)) <= 2 * MaxSyncs
<1>a. /\ m.start \in Nat /\ now \in Nat /\ Minute \in Nat \ {0}
      /\ m.start <= now /\ m.count \in Nat
      /\ MaxTime \in Nat /\ MaxSyncs \in Nat
      /\ n.start = m.start /\ n.count = m.count + 1
  BY Bounds
<1>b. v \in [0..MaxTime -> Nat]
  <2>1. w[now] + 1 \in Nat
    OBVIOUS
  <2> QED BY <2>1 DEF Attempted
<1>1. ASSUME NEW S, S \subseteq 0..MaxTime
      PROVE  /\ SumOver(w, S) \in Nat /\ SumOver(v, S) \in Nat
             /\ SumOver(v, S) <= SumOver(w, S) + 1
             /\ now \notin S => SumOver(v, S) = SumOver(w, S)
  <2>1. SumOver(w, S) \in Nat /\ SumOver(v, S) \in Nat
    BY <1>1, <1>b, SyncSums
  <2>2. CASE v = w
    BY <2>1, <2>2
  <2>3. CASE v = [w EXCEPT ![now] = @ + 1]
    <3>1. IsFiniteSet(S)
      <4>1. IsFiniteSet(0..MaxTime)
        BY Bounds, FS_Interval
      <4> QED BY <1>1, <4>1, FS_Subset
    <3>a. PICK c : c = now
      OBVIOUS
    <3>b. \A u \in S : w[u] \in Nat
      BY <1>1
    <3>2. \A u \in S : v[u] = IF u = c THEN w[u] + 1 ELSE w[u]
      BY <1>1, <2>3, <3>a
    <3>3. c \in S => SumOver(v, S) = SumOver(w, S) + 1
      BY <3>1, <3>2, <3>b, SumCount
    <3>c. c \notin S => \A u \in S : v[u] = w[u]
      BY <3>2
    <3>4. c \notin S => SumOver(v, S) = SumOver(w, S)
      BY <3>1, <3>b, <3>c, SumSame
    <3> QED BY <2>1, <3>a, <3>3, <3>4
  <2> QED BY <2>2, <2>3 DEF Attempted
<1>2. \A u \in 0..MaxTime :
        u > now \/ u >= n.start + Minute => v[u] = 0
  <2>1. \A u \in 0..MaxTime :
          u > now \/ u >= m.start + Minute => w[u] = 0 /\ u # now
    BY <1>a DEF Limits
  <2> QED BY <1>a, <2>1 DEF Attempted
<1>3. SumOver(v, Between(n.start, MaxTime + 1)) <= n.count
  <2> DEFINE S == Between(m.start, MaxTime + 1)
  <2>1. S \subseteq 0..MaxTime /\ SumOver(w, S) <= m.count
    BY BetweenFacts DEF Limits
  <2> HIDE DEF S
  <2>2. /\ SumOver(w, S) \in Nat /\ SumOver(v, S) \in Nat
        /\ SumOver(v, S) <= SumOver(w, S) + 1
    BY <1>1, <2>1
  <2>3. SumOver(v, S) <= m.count + 1
    BY <1>a, <2>1, <2>2
  <2> QED BY <1>a, <2>3 DEF S
<1>4. ASSUME NEW t \in 0..MaxTime, t + Minute > n.start
      PROVE  SumOver(v, Between(t, n.start)) <= MaxSyncs
  <2> DEFINE S == Between(t, m.start)
  <2>1. S \subseteq 0..MaxTime /\ now \notin S
    BY <1>a, BetweenFacts DEF Between
  <2>2. SumOver(w, S) <= MaxSyncs
    BY <1>4, <1>a DEF Limits
  <2> HIDE DEF S
  <2>3. SumOver(v, S) <= MaxSyncs
    BY <1>1, <2>1, <2>2
  <2> QED BY <1>a, <2>3 DEF S
<1>5. ASSUME NEW t \in 0..MaxTime
      PROVE  SumOver(v, Between(t, t + Minute)) <= 2 * MaxSyncs
  <2> DEFINE S == Between(t, t + Minute)
  <2>1. S \subseteq 0..MaxTime
    BY BetweenFacts
  <2>2. CASE now \notin S
    <3>1. SumOver(w, S) <= 2 * MaxSyncs
      OBVIOUS
    <3> HIDE DEF S
    <3>2. SumOver(v, S) <= 2 * MaxSyncs
      BY <1>1, <2>1, <2>2, <3>1
    <3> QED BY <3>2 DEF S
  <2>3. CASE now \in S /\ t >= m.start
    <3> DEFINE T == Between(m.start, MaxTime + 1)
    <3>1. S \subseteq T /\ T \subseteq 0..MaxTime
      BY <1>a, <2>3, BetweenFacts DEF Between
    <3>2. SumOver(v, T) <= m.count + 1
      BY <1>3, <1>a
    <3> HIDE DEF S, T
    <3>3. SumOver(v, S) \in Nat /\ SumOver(v, T) \in Nat
          /\ SumOver(v, S) <= SumOver(v, T)
      BY <1>b, <3>1, SyncSums
    <3>4. SumOver(v, S) <= 2 * MaxSyncs
      BY <1>a, <3>2, <3>3
    <3> QED BY <3>4 DEF S
  <2>4. CASE now \in S /\ t < m.start
    <3> DEFINE T == Between(t, m.start)
               U == Between(m.start, t + Minute)
               V == Between(m.start, MaxTime + 1)
    <3>0. /\ t \in Nat /\ t + Minute \in Nat /\ t + Minute > m.start
          /\ t + Minute > t
      BY <1>a, <2>4 DEF Between
    <3>a. \A u \in Nat : (t <= u /\ u < t + Minute)
            <=> (t <= u /\ u < m.start) \/ (m.start <= u /\ u < t + Minute)
      BY <1>a, <2>4, <3>0
    <3>b. \A u \in 0..MaxTime : u \in Nat /\ u < MaxTime + 1
      BY <1>a
    <3>c. T \cap U = {}
      BY <1>a, <3>b DEF Between
    <3>d. T \cup U = S
      BY <3>a, <3>b DEF Between
    <3>e. U \subseteq V
      BY <3>b DEF Between
    <3>1. /\ T \cap U = {} /\ T \cup U = S /\ U \subseteq V
          /\ t + Minute > m.start
      BY <3>0, <3>c, <3>d, <3>e
    <3>2. /\ T \subseteq 0..MaxTime /\ V \subseteq 0..MaxTime
          /\ IsFiniteSet(T) /\ IsFiniteSet(U)
      BY BetweenFacts
    <3>3. SumOver(v, V) <= m.count + 1 /\ SumOver(v, T) <= MaxSyncs
      BY <1>3, <1>4, <1>a, <3>1
    <3> HIDE DEF S, T, U, V
    <3>4. /\ SumOver(v, U) \in Nat /\ SumOver(v, V) \in Nat
          /\ SumOver(v, U) <= SumOver(v, V)
      BY <1>b, <3>1, <3>2, SyncSums
    <3>5. SumOver(v, T) \in Nat
      BY <1>b, <3>2, SyncSums
    <3>6. \A u \in T \cup U : v[u] \in Nat
      BY <1>b, <3>1, <3>2
    <3>7. SumOver(v, S) = SumOver(v, T) + SumOver(v, U)
      BY <3>1, <3>2, <3>6, SumUnion
    <3>8. SumOver(v, S) <= 2 * MaxSyncs
      BY <1>a, <3>3, <3>4, <3>5, <3>7
    <3> QED BY <3>8 DEF S
  <2> QED BY <1>a, <2>2, <2>3, <2>4
<1> QED BY <1>2, <1>3, <1>4, <1>5 DEF Limits

\* Steps that sync nothing.
LEMMA SameSyncs ==
  ASSUME IInv, UNCHANGED syncs,
         \/ UNCHANGED <<limiter, now>>
         \/ limiter' = ThisMinute /\ UNCHANGED now
         \/ UNCHANGED limiter /\ now' = now + 1
  PROVE  SyncInv' /\ SyncRate'
<1>a. \A t \in 0..MaxTime :
        SumOver(syncs, Between(t, t + Minute)) <= 2 * MaxSyncs
  BY DEF IInv, SyncRate, SumOver, Between
<1>b. \A t \in 0..MaxTime :
        SumOver(syncs', Between(t, t + Minute)) <= 2 * MaxSyncs
  BY <1>a
<1>1. SyncRate'
  BY <1>b DEF SyncRate, SumOver, Between, MapThenSumSet, MapThenFoldSet
<1>2. Limits(syncs, limiter) /\ Limits(syncs, ThisMinute)
  BY ThisMinuteFacts DEF IInv, SyncInv
<1>3. now \in Nat
  BY Bounds DEF IInv, TypeOK
<1>4. SyncInv'
  <2>1. CASE UNCHANGED <<limiter, now>>
    BY <1>2, <2>1 DEF SyncInv, Limits
  <2>2. CASE limiter' = ThisMinute /\ UNCHANGED now
    <3>1. PICK m : m = ThisMinute
      OBVIOUS
    <3>2. Limits(syncs, m) /\ limiter' = m
      BY <1>2, <2>2, <3>1
    <3> QED BY <2>2, <3>2 DEF SyncInv, Limits
  <2>3. CASE UNCHANGED limiter /\ now' = now + 1
    <3>1. \A u \in 0..MaxTime : u > now' => u > now
      BY <1>3, <2>3
    <3> QED BY <1>2, <2>3, <3>1 DEF SyncInv, Limits
  <2> QED BY <2>1, <2>2, <2>3
<1> QED BY <1>1, <1>4

\* Steps that use up the budget of the minute.
LEMMA Synchronised ==
  ASSUME IInv, Attempt, UNCHANGED syncs \/ FdatasyncCalled
  PROVE  SyncInv' /\ SyncRate'
<1>1. PICK m : m = ThisMinute
  OBVIOUS
<1>2. PICK w : w = syncs
  OBVIOUS
<1>3. PICK v : v = syncs'
  OBVIOUS
<1>4. /\ w \in [0..MaxTime -> Nat] /\ now \in 0..MaxTime
      /\ Attempted(w, v)
  BY <1>2, <1>3 DEF Attempted, FdatasyncCalled, IInv, TypeOK
<1>5. /\ m \in [start : 0..now, count : 0..MaxSyncs]
      /\ now < m.start + Minute /\ m.count < MaxSyncs /\ Limits(w, m)
  BY <1>1, <1>2, ThisMinuteFacts DEF Attempt, Allowed
<1>6. UNCHANGED now /\ limiter' = [m EXCEPT !.count = @ + 1]
  BY <1>1 DEF Attempt
<1>7. PICK n : n = [start |-> m.start, count |-> m.count + 1]
  OBVIOUS
<1>8. limiter' = n
  BY <1>5, <1>6, <1>7
<1>a. \A t \in 0..MaxTime :
        SumOver(syncs, Between(t, t + Minute)) <= 2 * MaxSyncs
  BY DEF IInv, SyncRate, SumOver, Between
<1>9. \A t \in 0..MaxTime :
        SumOver(w, Between(t, t + Minute)) <= 2 * MaxSyncs
  BY <1>2, <1>a
<1>c. Limits(v, n)
  BY <1>4, <1>5, <1>7, <1>9, CountedSync
<1>10. /\ Limits(v, n)
       /\ \A t \in 0..MaxTime :
            SumOver(v, Between(t, t + Minute)) <= 2 * MaxSyncs
  BY <1>4, <1>5, <1>7, <1>9, CountedSync
<1>11. SyncInv'
  <2>1. Limits(v, n)'
    BY <1>6, <1>10 DEF Limits
  <2> QED BY <1>3, <1>8, <2>1 DEF SyncInv
<1>b. \A t \in 0..MaxTime :
        SumOver(syncs', Between(t, t + Minute)) <= 2 * MaxSyncs
  BY <1>3, <1>10
<1>12. SyncRate'
  BY <1>b DEF SyncRate, SumOver, Between, MapThenSumSet, MapThenFoldSet
<1> QED BY <1>11, <1>12

\* Every step.
LEMMA SyncKept ==
  ASSUME IInv, [Next]_vars
  PROVE  SyncInv' /\ SyncRate'
<1>1. ASSUME NEW ok \in BOOLEAN, NEW summary_ok \in BOOLEAN,
             \/ start(ok, summary_ok)
             \/ Reopen(ok, summary_ok)
             \/ OpenNext(ok, summary_ok)
      PROVE  UNCHANGED <<syncs, limiter, now>>
  BY <1>1 DEF start, Reopen, OpenNext, history
<1>2. stop \/ CloseStreams \/ Pop => UNCHANGED <<syncs, limiter, now>>
  BY DEF stop, CloseStreams, Pop, history
<1>3. WriteLine \/ WriteFails => UNCHANGED <<syncs, limiter, now>>
  BY DEF WriteLine, WriteFails
<1>4. ASSUME NEW ok \in BOOLEAN, write_summary(ok)
      PROVE  UNCHANGED <<syncs, limiter, now>>
  BY <1>4 DEF write_summary, history
<1>5. NoSync \/ FlushFails \/ NoRotation \/ CloseFull
        => UNCHANGED <<syncs, limiter, now>>
  BY DEF NoSync, FlushFails, NoRotation, CloseFull, history
<1>6. ScanCache => UNCHANGED <<syncs, limiter, now>>
  BY DEF ScanCache
<1>7. ASSUME NEW f \in dir, NEW ok \in BOOLEAN, RemoveOldest(f, ok)
      PROVE  UNCHANGED <<syncs, limiter, now>>
  BY <1>7 DEF RemoveOldest
<1>8. UNCHANGED vars => UNCHANGED <<syncs, limiter, now>>
  BY DEF vars, history
<1>9. RateLimited =>
        limiter' = ThisMinute /\ UNCHANGED <<syncs, now>>
  BY DEF RateLimited
<1>10. Tick => now' = now + 1 /\ UNCHANGED <<syncs, limiter>>
  BY DEF Tick, history
<1>11. SyncDone => Attempt /\ FdatasyncCalled
  BY DEF SyncDone
<1>12. ASSUME NEW step \in {"open", "data", "directory"}, SyncFails(step)
       PROVE  Attempt /\ (UNCHANGED syncs \/ FdatasyncCalled)
  BY <1>12 DEF SyncFails
<1>13. CASE Kill
  <2>1. /\ syncs' = [t \in 0..MaxTime |-> 0]
        /\ limiter' = [start |-> 0, count |-> 0] /\ now' = now
    BY <1>13 DEF Kill
  <2>2. PICK w : w = syncs'
    OBVIOUS
  <2>3. \A a, b : SumOver(w, Between(a, b)) = 0
    <3> SUFFICES ASSUME NEW a, NEW b PROVE SumOver(w, Between(a, b)) = 0
      OBVIOUS
    <3>1. \A u \in Between(a, b) : w[u] = 0
      BY <2>1, <2>2, BetweenFacts
    <3> QED BY <3>1, BetweenFacts, SumZero
  <2>4. Limits(w, [start |-> 0, count |-> 0])
    <3>1. \A u \in 0..MaxTime : w[u] = 0
      BY <2>1, <2>2
    <3> QED BY <2>3, <3>1, Bounds DEF Limits
  <2>5. SyncInv'
    BY <2>1, <2>2, <2>4 DEF SyncInv, Limits
  <2>6. \A t \in 0..MaxTime :
          SumOver(w, Between(t, t + Minute)) <= 2 * MaxSyncs
    BY <2>3, Bounds
  <2>a. \A t \in 0..MaxTime :
          SumOver(syncs', Between(t, t + Minute)) <= 2 * MaxSyncs
    BY <2>2, <2>6
  <2>7. SyncRate'
    BY <2>a DEF SyncRate, SumOver, Between, MapThenSumSet, MapThenFoldSet
  <2> QED BY <2>5, <2>7
<1>14. CASE UNCHANGED <<syncs, limiter, now>>
  BY <1>14, SameSyncs
<1>15. CASE RateLimited \/ Tick
  BY <1>9, <1>10, <1>15, SameSyncs
<1>16. CASE Attempt /\ (UNCHANGED syncs \/ FdatasyncCalled)
  BY <1>16, Synchronised
<1> QED BY <1>1, <1>2, <1>3, <1>4, <1>5, <1>6, <1>7, <1>8, <1>11, <1>12,
           <1>13, <1>14, <1>15, <1>16 DEF Next

---------------------------------------------------------------------------
(***************************************************************************)
(* The cache limit.                                                        *)
(***************************************************************************)
\* The worker goes on to remove files only while they are too large.
LEMMA GoOnRemoves ==
  ASSUME NEW s, GoOn(s), pc' = "remove", s.total \in Nat
  PROVE  scan' = s /\ s.total > CacheLines
BY Bounds DEF GoOn, Return

\* Every step.
LEMMA ScanKept ==
  ASSUME IInv, [Next]_vars
  PROVE  ScanInv'
<1>0. /\ TypeOK /\ ScanInv /\ dir \subseteq Files /\ scan.todo \subseteq Files
      /\ scan.total \in Nat
  BY DEF IInv, TypeOK
<1>1. CASE UNCHANGED <<pc, scan, files, sums>>
  <2>1. Sizes' = Sizes
    BY <1>1 DEF Sizes, SizeOf
  <2> QED BY <1>0, <1>1, <2>1 DEF ScanInv
<1>2. CASE ScanCache
  <2> SUFFICES ASSUME pc' = "remove"
               PROVE  /\ scan'.total = SumOver(Sizes', scan'.todo)
                      /\ scan'.total > CacheLines
    BY DEF ScanInv
  <2>1. Sizes' = Sizes
    BY <1>2 DEF ScanCache, disk, Sizes, SizeOf
  <2> DEFINE s == [total |-> TotalOf(dir), todo |-> dir]
  <2>2. GoOn(s) /\ s.total = TotalOf(dir) /\ s.todo = dir
    BY <1>2 DEF ScanCache
  <2>3. TotalOf(dir) = SumOver(Sizes, dir) /\ SumOver(Sizes, dir) \in Nat
    BY <1>0, TotalFacts, SizesFacts
  <2> HIDE DEF s
  <2>4. scan' = s /\ s.total > CacheLines
    BY <2>2, <2>3, GoOnRemoves
  <2>5. scan'.total = SumOver(Sizes, dir) /\ scan'.todo = dir
    BY <2>2, <2>3, <2>4
  <2> QED BY <2>1, <2>2, <2>4, <2>5
<1>3. ASSUME NEW f \in dir, NEW ok \in BOOLEAN, RemoveOldest(f, ok)
      PROVE  ScanInv'
  <2> SUFFICES ASSUME pc' = "remove"
               PROVE  /\ scan'.total = SumOver(Sizes', scan'.todo)
                      /\ scan'.total > CacheLines
    BY DEF ScanInv
  <2>1. Sizes' = Sizes
    BY <1>3 DEF RemoveOldest, Sizes, SizeOf
  <2>2. /\ pc = "remove" /\ f \in scan.todo /\ GoOn(Left(f))
    BY <1>3 DEF RemoveOldest, Oldest, Removable, Left
  <2>3. scan.total = SumOver(Sizes, scan.todo)
    BY <1>0, <2>2 DEF ScanInv
  <2>4. SizeOf(f) = Sizes[f] /\ Sizes[f] \in Nat
    BY <1>0, SizesFacts DEF Sizes
  <2>5. IsFiniteSet(scan.todo) /\ \A x \in scan.todo : Sizes[x] \in Nat
    BY <1>0, SizesFacts
  <2>6. SumOver(Sizes, scan.todo)
          = Sizes[f] + SumOver(Sizes, scan.todo \ {f})
    BY <2>2, <2>5, SumInsert
  <2>7. SumOver(Sizes, scan.todo \ {f}) \in Nat
    BY <1>0, SizesFacts
  <2>8. /\ Left(f).total = SumOver(Sizes, scan.todo \ {f})
        /\ Left(f).todo = scan.todo \ {f}
    BY <2>3, <2>4, <2>6, <2>7 DEF Left
  <2>9. scan' = Left(f) /\ Left(f).total > CacheLines
    BY <2>2, <2>7, <2>8, GoOnRemoves
  <2> QED BY <2>1, <2>8, <2>9
<1>4. CASE pc' # "remove"
  BY <1>4 DEF ScanInv
<1>5. ASSUME NEW ok \in BOOLEAN, NEW summary_ok \in BOOLEAN,
             \/ start(ok, summary_ok)
             \/ Reopen(ok, summary_ok)
             \/ OpenNext(ok, summary_ok)
      PROVE  pc' # "remove"
  BY <1>5 DEF start, Reopen, OpenNext, Return
<1>6. stop \/ UNCHANGED vars => UNCHANGED <<pc, scan, files, sums>>
  BY DEF stop, vars, disk
<1>7. CloseStreams \/ Pop \/ WriteLine \/ WriteFails => pc' # "remove"
  BY DEF CloseStreams, Pop, WriteLine, WriteFails, Return
<1>8. ASSUME NEW ok \in BOOLEAN, write_summary(ok) PROVE pc' # "remove"
  BY <1>8 DEF write_summary
<1>9. NoSync \/ FlushFails \/ RateLimited \/ NoRotation \/ CloseFull
        => pc' # "remove"
  BY DEF NoSync, FlushFails, RateLimited, NoRotation, CloseFull
<1>10. SyncDone \/ Kill \/ Tick => pc' # "remove"
  BY DEF SyncDone, Attempt, Kill, Tick
<1>11. ASSUME NEW step \in {"open", "data", "directory"}, SyncFails(step)
       PROVE  pc' # "remove"
  BY <1>11 DEF SyncFails, Attempt
<1> QED BY <1>1, <1>2, <1>3, <1>4, <1>5, <1>6, <1>7, <1>8, <1>9, <1>10, <1>11
        DEF Next

\* The strengthened invariant is inductive.
LEMMA NextIInv ==
  ASSUME IInv, [Next]_vars
  PROVE  IInv'
BY TypesKept, StreamKept, EventKept, SizeKept, HomeKept, SettledKept,
   SyncKept, ScanKept DEF IInv

\* Every behaviour of the sink keeps the strengthened invariant: the types,
\* where the streams and the lines are, what has been vouched for, and what
\* the limiter and the cache limit have counted.
THEOREM InductiveInvariant == Spec => []IInv
<1>1. Init => IInv
  BY InitIInv
<1>2. IInv /\ [Next]_vars => IInv'
  BY NextIInv
<1> QED BY <1>1, <1>2, PTL DEF Spec

\* Every variable keeps its type: a file has no event that was not offered,
\* the sizes stay within file_rotate_mb, and the limiter within max_per_minute.
THEOREM TypeCorrect == Spec => []TypeOK
<1>1. IInv => TypeOK
  BY DEF IInv
<1> QED BY <1>1, InductiveInvariant, PTL

\* A Critical event that write_event has returned from, and for which no
\* failure was counted, is in its file, whatever was killed or failed since,
\* until enforce_cache_limit removes that file.
THEOREM CriticalFlushedCorrect == Spec => []CriticalFlushed
<1>1. IInv => CriticalFlushed
  BY DEF IInv, SettledInv, Settled, CriticalFlushed, Vouched
<1> QED BY <1>1, InductiveInvariant, PTL

\* When the limiter let it pass as well, its line and the directory entry of
\* its file are on the medium: needs_directory_sync_ is never lost.
THEOREM CriticalDurableCorrect == Spec => []CriticalDurable
<1>1. IInv => CriticalDurable
  BY DEF IInv, SettledInv, Settled, CriticalDurable, Vouched
<1> QED BY <1>1, InductiveInvariant, PTL

\* No stretch of a minute sees more than twice max_fsync_per_minute calls of
\* fdatasync, wherever it lies across the fixed minutes the limiter counts in.
THEOREM SyncRateCorrect == Spec => []SyncRate
<1>1. IInv => SyncRate
  BY DEF IInv
<1> QED BY <1>1, InductiveInvariant, PTL

---------------------------------------------------------------------------
(***************************************************************************)
(* The newest event keeps its file.                                        *)
(***************************************************************************)
\* No event after e has been written.
Newest(e) == \A d \in Events : d > e => home[d] = 0

\* Lines are only written to the file of part, which is in the directory.
LEMMA NewestStays ==
  ASSUME IInv, NewestKept, dir \subseteq dir',
         \A p \in Parts :
           files'[p] = files[p] \/ (p = part /\ stream.part # 0),
         \A d \in Events :
           \/ home'[d] = home[d]
           \/ home[d] = 0 /\ home'[d] = part /\ stream.part # 0,
         home' \in [Events -> 0..MaxParts]
  PROVE  NewestKept'
<1> SUFFICES ASSUME NEW e \in Events, InFile(e)',
                    \A d \in Events : d > e => home'[d] = 0
             PROVE  FileOf(e)' \in dir'
  BY DEF NewestKept
<1>1. home'[e] \in Parts /\ e \in LinesOf(files'[home'[e]])
  BY Bounds DEF InFile, Parts
<1>2. CASE home'[e] = part /\ stream.part # 0
  <2>1. <<"jsonl", part>> \in dir
    BY <1>2 DEF IInv, StreamInv
  <2> QED BY <1>2, <2>1 DEF FileOf
<1>3. CASE ~(home'[e] = part /\ stream.part # 0)
  <2>1. home'[e] = home[e] /\ files'[home[e]] = files[home[e]]
    BY <1>1, <1>3
  <2>2. InFile(e)
    BY <1>1, <2>1, Bounds DEF InFile, Parts
  <2>3. \A d \in Events : d > e => home[d] = 0
    BY Bounds, Parted
  <2>4. FileOf(e) \in dir
    BY <2>2, <2>3 DEF NewestKept
  <2> QED BY <2>1, <2>4 DEF FileOf
<1> QED BY <1>2, <1>3

\* The cache limit stops before it comes to the file of the newest event:
\* what is left then is that file and its summary, and no more than
\* cache_max_mb.
LEMMA NewestSpared ==
  ASSUME IInv, CacheLines >= 2 * RotateLines, NEW f,
         pc = "remove", f \in Oldest(Removable(scan.todo)),
         NEW e \in Events, InFile(e), Newest(e)
  PROVE  f # FileOf(e)
<1> DEFINE h == home[e]
           s == <<"summary", h>>
           T == scan.todo
<1> SUFFICES ASSUME f = <<"jsonl", h>> PROVE FALSE
  BY DEF FileOf
<1>0. /\ TypeOK /\ T \subseteq Files /\ Sizes \in [Files -> Nat]
      /\ h \in Parts /\ part \in Nat /\ h <= part /\ h # 0
      /\ files[h] \in Seq(Events) /\ e \in LinesOf(files[h])
  <2>1. TypeOK /\ T \subseteq Files /\ home[e] \in 0..MaxParts
    BY DEF IInv, TypeOK
  <2>2. h \in Parts
    BY <2>1, Bounds DEF InFile, Parts
  <2> QED BY <2>1, <2>2, Parted, SizesFacts DEF InFile, IInv, HomeInv
<1>1. Len(files[h]) > 0
  BY <1>0 DEF LinesOf
<1>2. ASSUME NEW g \in T, Sizes[g] # 0
      PROVE  g \in {f, s}
  <2>1. /\ g \in Files /\ SizeOf(g) = Sizes[g] /\ Sizes[g] \in Nat
        /\ g[2] \in Parts /\ g[2] \in Nat
    BY <1>0, <1>2, Parted DEF Sizes, Files
  <2>2. g[2] >= h
    <3>1. CASE g[2] = part
      BY <1>0, <3>1, Parted
    <3>2. CASE g[2] # part
      <4>1. g \in Removable(T) /\ SizeOf(g) > 0
        BY <1>2, <2>1, <3>2 DEF Removable
      <4>2. SizeOf(f) > 0 /\ f[2] = h
        BY <1>1 DEF SizeOf
      <4> QED BY <1>0, <2>1, <4>1, <4>2, Parted DEF Oldest
    <3> QED BY <3>1, <3>2
  <2>3. \E d \in Events : home[d] = g[2]
    <3>1. CASE g[1] = "jsonl"
      <4>1. files[g[2]] \in Seq(Events) /\ Len(files[g[2]]) # 0
        BY <1>2, <2>1, <3>1, Parted DEF SizeOf
      <4>2. files[g[2]][1] \in Events /\ files[g[2]][1] \in LinesOf(files[g[2]])
        BY <4>1 DEF LinesOf
      <4> QED BY <2>1, <4>2 DEF IInv, HomeInv
    <3>2. CASE g[1] = "summary"
      <4>1. sums[g[2]] # 0
        BY <1>2, <2>1, <3>2 DEF SizeOf
      <4> QED BY <2>1, <4>1 DEF IInv, HomeInv
    <3> QED BY <2>1, <3>1, <3>2 DEF Files
  <2>4. PICK d \in Events : home[d] = g[2]
    BY <2>3
  <2>5. d <= e
    <3>1. home[d] # 0
      BY <2>1, <2>4, Parted
    <3> QED BY <3>1, Bounds DEF Newest, Events
  <2>6. home[d] <= h
    <3>1. CASE d = e
      BY <1>0, <3>1, Parted
    <3>2. CASE d < e
      BY <1>0, <2>1, <2>4, <3>2, Parted DEF IInv, HomeInv
    <3> QED BY <2>5, <3>1, <3>2, Bounds DEF Events
  <2>7. g[2] = h
    BY <1>0, <2>1, <2>2, <2>4, <2>6, Parted
  <2> QED BY <2>1, <2>7 DEF Files
<1> DEFINE U == T \cap {f, s}
           V == T \ {f, s}
<1>3. f \in Files /\ s \in Files /\ f # s
  BY <1>0 DEF Files
<1>4. /\ U \subseteq Files /\ V \subseteq Files /\ {f, s} \subseteq Files
      /\ {s} \subseteq Files /\ {} \subseteq Files
      /\ U \subseteq {f, s} /\ U \cap V = {} /\ U \cup V = T
  BY <1>0, <1>3
<1>5. \A S : S \subseteq Files =>
        IsFiniteSet(S) /\ \A x \in S : Sizes[x] \in Nat
  BY <1>0, SizesFacts
<1>6. SumOver(Sizes, V) = 0
  <2>1. \A x \in V : Sizes[x] = 0
    BY <1>2
  <2> HIDE DEF V
  <2> QED BY <1>4, <1>5, <2>1, SumZero
<1>7. Sizes[f] <= RotateLines /\ Sizes[s] <= RotateLines
  <2>1. Sizes[f] = Len(files[h]) /\ Sizes[s] = sums[h]
    BY <1>3 DEF Sizes, SizeOf
  <2> QED BY <1>0, <2>1 DEF IInv, SizeInv
<1> HIDE DEF U, V
<1>8. SumOver(Sizes, {f, s}) = Sizes[f] + Sizes[s]
  <2>1. {f, s} \ {f} = {s} /\ {s} \ {s} = {}
    BY <1>3
  <2>2. SumOver(Sizes, {f, s}) = Sizes[f] + SumOver(Sizes, {f, s} \ {f})
    BY <1>4, <1>5, SumInsert
  <2>3. SumOver(Sizes, {s}) = Sizes[s] + SumOver(Sizes, {s} \ {s})
    BY <1>4, <1>5, SumInsert
  <2>4. SumOver(Sizes, {}) = 0
    BY FS_EmptySet, SumStep
  <2>5. SumOver(Sizes, {s}) = Sizes[s] + SumOver(Sizes, {})
    BY <2>1, <2>3
  <2>6. SumOver(Sizes, {f, s}) = Sizes[f] + SumOver(Sizes, {s})
    BY <2>1, <2>2
  <2>7. Sizes[s] \in Nat
    BY <1>0, <1>3
  <2> QED BY <2>4, <2>5, <2>6, <2>7
<1>9. /\ SumOver(Sizes, U) <= SumOver(Sizes, {f, s})
      /\ SumOver(Sizes, U) \in Nat
  BY <1>4, <1>5, SumPart
<1>10. SumOver(Sizes, T) = SumOver(Sizes, U) + SumOver(Sizes, V)
  BY <1>4, <1>5, SumUnion
<1>11. SumOver(Sizes, T) > CacheLines
  BY DEF IInv, ScanInv
<1> QED BY <1>0, <1>3, <1>6, <1>7, <1>8, <1>9, <1>10, <1>11, Bounds

\* Every step.
LEMMA NewestKeptNext ==
  ASSUME IInv, CacheLines >= 2 * RotateLines, NewestKept, [Next]_vars
  PROVE  NewestKept'
<1>0. /\ TypeOK /\ StreamInv /\ EventInv /\ TypeOK'
      /\ home' \in [Events -> 0..MaxParts]
  BY TypesKept DEF IInv, TypeOK
<1>a. Shifted => \A p \in Parts :
                   files'[p] = files[p] \/ (p = part /\ stream.part # 0)
  BY <1>0, StreamFacts DEF Shifted, Parts
<1>b. ASSUME Shifted \/ UNCHANGED files, UNCHANGED home, dir \subseteq dir'
      PROVE  NewestKept'
  <2>1. \A p \in Parts :
          files'[p] = files[p] \/ (p = part /\ stream.part # 0)
    BY <1>a, <1>b
  <2>2. \A d \in Events : \/ home'[d] = home[d]
                          \/ /\ home[d] = 0 /\ home'[d] = part
                             /\ stream.part # 0
    BY <1>b
  <2> QED BY <1>0, <1>b, <2>1, <2>2, NewestStays
<1>1. ASSUME NEW ok \in BOOLEAN, NEW summary_ok \in BOOLEAN,
             \/ start(ok, summary_ok)
             \/ Reopen(ok, summary_ok)
             \/ OpenNext(ok, summary_ok)
      PROVE  NewestKept'
  <2>1. UNCHANGED <<files, home>> /\ open_next_file(ok, summary_ok)
    BY <1>1 DEF start, Reopen, OpenNext, history
  <2>2. dir \subseteq dir'
    BY <2>1 DEF open_next_file
  <2> QED BY <1>b, <2>1, <2>2
<1>2. CASE stop \/ Pop \/ NoSync \/ NoRotation \/ ScanCache \/ Kill \/ Tick
           \/ UNCHANGED vars
  <2>1. UNCHANGED <<files, dir, home>>
    BY <1>2 DEF stop, Pop, NoSync, NoRotation, ScanCache, Kill, Tick, vars,
                disk, history
  <2> QED BY <1>b, <2>1
<1>3. CASE CloseStreams \/ CloseFull
  <2>1. Shifted /\ UNCHANGED <<dir, home>>
    BY <1>0, <1>3, CloseShifts DEF CloseStreams, CloseFull, history
  <2> QED BY <1>b, <2>1
<1>4. CASE WriteLine
  <2>1. /\ \A p \in Parts : p # part => files'[p] = files[p]
        /\ stream.part = part /\ part # 0
    BY <1>4, WriteFacts
  <2>2. /\ home[event] = 0 /\ dir' = dir
        /\ home' = [home EXCEPT ![event] = stream.part]
    BY <1>0, <1>4 DEF WriteLine, EventInv
  <2>3. \A d \in Events : \/ home'[d] = home[d]
                          \/ /\ home[d] = 0 /\ home'[d] = part
                             /\ stream.part # 0
    BY <1>0, <2>1, <2>2 DEF TypeOK
  <2>4. \A p \in Parts :
          files'[p] = files[p] \/ (p = part /\ stream.part # 0)
    BY <2>1
  <2>5. dir \subseteq dir'
    BY <2>2
  <2> QED BY <1>0, <2>3, <2>4, <2>5, NewestStays
<1>5. CASE WriteFails
  <2>1. Shifted /\ UNCHANGED <<dir, home>>
    BY <1>5, WriteFailsFacts DEF WriteFails
  <2> QED BY <1>b, <2>1
<1>6. ASSUME NEW ok \in BOOLEAN, write_summary(ok) PROVE NewestKept'
  BY <1>6, <1>b DEF write_summary, history
<1>7. CASE FlushFails
  <2>1. Shifted /\ UNCHANGED <<dir, home>>
    BY <1>7, FlushFailsFacts DEF FlushFails
  <2> QED BY <1>b, <2>1
<1>8. CASE RateLimited \/ Attempt
  <2>1. pc = "sync" /\ Flushed /\ UNCHANGED <<dir, home>>
    BY <1>8 DEF RateLimited, Attempt
  <2> QED BY <1>b, <2>1, FlushedFacts
<1>9. ASSUME NEW f \in dir, NEW ok \in BOOLEAN, RemoveOldest(f, ok)
      PROVE  NewestKept'
  <2> SUFFICES ASSUME NEW e \in Events, InFile(e)',
                      \A d \in Events : d > e => home'[d] = 0
               PROVE  FileOf(e)' \in dir'
    BY DEF NewestKept
  <2>1. /\ UNCHANGED <<files, home>> /\ dir \ {f} \subseteq dir'
        /\ pc = "remove" /\ f \in Oldest(Removable(scan.todo))
    BY <1>9 DEF RemoveOldest
  <2>2. InFile(e) /\ Newest(e) /\ FileOf(e)' = FileOf(e)
    BY <2>1 DEF InFile, Newest, FileOf
  <2>3. FileOf(e) \in dir
    BY <2>2 DEF NewestKept, Newest
  <2>4. f # FileOf(e)
    BY <2>1, <2>2, NewestSpared
  <2> QED BY <2>1, <2>2, <2>3, <2>4
<1>10. SyncDone => Attempt
  BY DEF SyncDone
<1>11. ASSUME NEW step \in {"open", "data", "directory"}, SyncFails(step)
       PROVE  Attempt
  BY <1>11 DEF SyncFails
<1> QED BY <1>1, <1>2, <1>3, <1>4, <1>5, <1>6, <1>7, <1>8, <1>9, <1>10, <1>11
        DEF Next

\* While cache_max_mb leaves room for one full file and its summary,
\* enforce_cache_limit removes the files of older events and never that of
\* the newest one, whatever it still has to remove.
THEOREM NewestKeptCorrect ==
  ASSUME CacheLines >= 2 * RotateLines
  PROVE  Spec => []NewestKept
<1>1. Init => NewestKept
  BY Bounds DEF Init, NewestKept, InFile
<1>2. IInv /\ NewestKept /\ [Next]_vars => NewestKept'
  BY NewestKeptNext
<1> QED BY <1>1, <1>2, InductiveInvariant, PTL DEF Spec

=============================================================================
