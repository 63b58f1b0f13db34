------------------------------ MODULE WalProofs ------------------------------
(***************************************************************************)
(* Proofs about the example log, the fixed one with the safe repair: for   *)
(* every block size, both profiles and any number of crashes, each crash   *)
(* state of the workload and of the repairs has a prefix of the puts with  *)
(* all that were acknowledged, and a finished repair has left no tail.     *)
(***************************************************************************)
EXTENDS CrashProofs, Wal, SequenceTheorems

\* The log as it should be written: with checksums and the directory synced,
\* repaired by truncation, on a directory that is empty at first.
FixedLog ==
    /\ Fixed /\ Safe /\ KvLog \in Seq(Names)
    /\ \A tree \in InitialTrees : DOMAIN tree = {}

-----------------------------------------------------------------------------
(* What the log holds *)

\* The first n records of d are the first n puts.
Recorded(d, n) == \A i \in 0..(n-1), k \in 1..4 : d[4 * i + k] = encode(value(i))[k]

\* d is the first n puts, or has a torn put after them: as long as a record,
\* but any of its bytes may read as a hole.
Exact(d, n) == d \in Seq(Nat) /\ Len(d) = 4 * n /\ Recorded(d, n)
Torn(d, n) ==
    /\ d \in Seq(Nat) /\ Len(d) = 4 * n + 4 /\ Recorded(d, n)
    /\ \A k \in 1..4 : d[4 * n + k] \in {encode(value(n))[k], 0}

\* A directory with nothing in it, or with nothing but the log.
IsEmpty(tree) == DOMAIN tree = {}
LogTree(d) == [p \in {KvLog} |-> FileEntry(d)]
IsLog(tree) == tree = LogTree(LogIn(tree))
HoldsAll(tree, n) == IsLog(tree) /\ Exact(LogIn(tree), n)
HoldsTorn(tree, n) == IsLog(tree) /\ Torn(LogIn(tree), n)

\* What a crash may leave after a puts were acknowledged.
Good(tree, a) ==
    \/ IsEmpty(tree) /\ a = 0
    \/ \E n \in a..PUTS : HoldsAll(tree, n) \/ (n < PUTS /\ HoldsTorn(tree, n))

-----------------------------------------------------------------------------
(* The inductive invariant *)

\* Nothing is in flight, or only what an fsync of path makes durable.
AllDurable == \A j \in DOMAIN micro : micro[j].durable_at # NEVER
AwaitsFsync(path) ==
    \A j \in DOMAIN micro :
        micro[j].durable_at = NEVER => FlushedWith(micro[j].m) = Lookup(v, path)

\* The first k ops of the workload are done.
Done(k) == todo = SubSeq(workload, k + 1, Len(workload))

\* The log is opened, and each put goes on from all the puts before it: it is
\* written, synced and acknowledged.
Opening ==
    /\ Marks = 0
    /\ \/ Done(0) /\ AllDurable /\ IsEmpty(ToTree(v))
       \/ Done(1) /\ AwaitsFsync(<<>>) /\ HoldsAll(ToTree(v), 0)
Putting(i) ==
    /\ Marks = i
    /\ \/ Done(3 * i + 2) /\ AllDurable /\ HoldsAll(ToTree(v), i)
       \/ i < PUTS /\ Done(3 * i + 3) /\ AwaitsFsync(KvLog) /\ HoldsAll(ToTree(v), i + 1)
       \/ i < PUTS /\ Done(3 * i + 4) /\ AllDurable /\ HoldsAll(ToTree(v), i + 1)
Working == ~repairing /\ (Opening \/ \E i \in 0..PUTS : Putting(i))

\* A repair has a torn put to cut off, or has cut it off, or is finished.
Mending(n) ==
    \/ n < PUTS /\ todo = Truncation(<<>>, 4 * n) /\ AllDurable /\ HoldsTorn(ToTree(v), n)
    \/ todo = Tail(Truncation(<<>>, 4 * n)) /\ AwaitsFsync(KvLog) /\ HoldsAll(ToTree(v), n)
    \/ todo = <<>> /\ AllDurable /\ HoldsAll(ToTree(v), n)
Repairing ==
    /\ repairing /\ acked \in 0..PUTS
    /\ \/ \E n \in acked..PUTS : Mending(n)
       \/ acked = 0 /\ todo = <<>> /\ AllDurable /\ IsEmpty(ToTree(v))

-----------------------------------------------------------------------------
(* Reading a log *)

\* What read_log does at a place, when reading is what it does behind it.
ReadAt(reading, log, at) ==
    IF /\ Len(log) - at >= header
       /\ log[at + 1] # 0
       /\ Len(log) - at >= header + log[at + 1]
       /\ Intact(log, at)
    THEN LET rest == reading[at + header + log[at + 1]]
         IN  [records |-> <<Payload(log, at)>> \o rest.records, valid |-> rest.valid]
    ELSE [records |-> <<>>, valid |-> at]

\* It goes on only behind the place, and not behind the end.
LEMMA ReadsOn ==
    ASSUME NEW log \in Seq(Nat), NEW at \in 0..Len(log), NEW f, NEW g,
           \A b \in (at + 1)..Len(log) : f[b] = g[b]
    PROVE  ReadAt(f, log, at) = ReadAt(g, log, at)
<1>1. header \in {1, 2} /\ Len(log) \in Nat
  BY DEF header
<1>2. CASE Len(log) - at >= header /\ log[at + 1] # 0 /\ Len(log) - at >= header + log[at + 1]
  <2>1. at + 1 \in 1..Len(log)
    BY <1>1, <1>2
  <2>2. log[at + 1] \in Nat
    BY <2>1
  <2>3. at + header + log[at + 1] \in (at + 1)..Len(log)
    BY <1>1, <1>2, <2>2
  <2>4. f[at + header + log[at + 1]] = g[at + header + log[at + 1]]
    BY <2>3
  <2> QED BY <1>2, <2>4 DEF ReadAt
<1>3. CASE ~(Len(log) - at >= header /\ log[at + 1] # 0 /\ Len(log) - at >= header + log[at + 1])
  BY <1>3 DEF ReadAt
<1> QED BY <1>2, <1>3

\* From the end to the start there is a reading.
LEMMA ReadingExists ==
    ASSUME NEW log \in Seq(Nat)
    PROVE  \E f : f = [at \in 0..Len(log) |-> ReadAt(f, log, at)]
<1> DEFINE N == Len(log)
           ReadFrom(f, low) == \A at \in low..N : f[at] = ReadAt(f, log, at)
           S == {m \in 0..N : \E f : ReadFrom(f, N - m)}
<1>1. N \in Nat
  OBVIOUS
<1>2. 0 \in S
  <2> DEFINE f == [at \in 0..N |-> [records |-> <<>>, valid |-> at]]
  <2>1. f[N] = ReadAt(f, log, N)
    <3>1. ~(N - N >= header)
      BY <1>1 DEF header
    <3> QED BY <1>1, <3>1 DEF ReadAt
  <2> HIDE DEF f
  <2>2. ReadFrom(f, N - 0)
    BY <1>1, <2>1
  <2> HIDE DEF ReadFrom
  <2> QED BY <1>1, <2>2
<1>3. ASSUME NEW m \in 0..(N-1), m \in S PROVE m + 1 \in S
  <2>1. PICK f : ReadFrom(f, N - m)
    BY <1>3
  <2> DEFINE low == N - (m + 1)
             g == [at \in 0..N |-> IF at = low THEN ReadAt(f, log, low) ELSE f[at]]
  <2>2. low \in 0..N /\ low + 1 = N - m
    BY <1>1
  <2>a. \A at \in (low + 1)..N : at \in 0..N /\ at # low
    <3> HIDE DEF N, low
    <3> QED BY <1>1, <2>2
  <2>3. g[low] = ReadAt(f, log, low) /\ \A at \in (low + 1)..N : g[at] = f[at]
    <3> HIDE DEF N, low
    <3> QED BY <2>2, <2>a
  <2> HIDE DEF g, low
  <2>4. ASSUME NEW at \in low..N PROVE g[at] = ReadAt(g, log, at)
    <3>1. at \in 0..N /\ \A b \in (at + 1)..N : f[b] = g[b]
      BY <1>1, <2>2, <2>3
    <3>2. ReadAt(f, log, at) = ReadAt(g, log, at)
      <4> HIDE DEF ReadFrom
      <4> QED BY <3>1, ReadsOn
    <3>3. g[at] = ReadAt(f, log, at)
      <4>1. CASE at = low
        BY <2>3, <4>1
      <4>2. CASE at # low
        <5>1. at \in (low + 1)..N /\ at \in (N - m)..N
          BY <1>1, <2>2, <4>2
        <5> QED BY <2>1, <2>3, <5>1
      <4> QED BY <4>1, <4>2
    <3> QED BY <3>2, <3>3
  <2>5. ReadFrom(g, N - (m + 1))
    BY <2>4 DEF low
  <2> HIDE DEF ReadFrom
  <2> QED BY <1>1, <2>5
<1>4. N \in S
  <2> HIDE DEF S
  <2>1. 0..N \subseteq S
    BY <1>1, <1>2, <1>3, UpTo
  <2> QED BY <1>1, <2>1
<1>5. PICK f : \A at \in 0..N : f[at] = ReadAt(f, log, at)
  <2>1. N - N = 0
    BY <1>1
  <2> QED BY <1>4, <2>1
<1> DEFINE F == [at \in 0..N |-> f[at]]
<1>6. ASSUME NEW at \in 0..N PROVE F[at] = ReadAt(F, log, at)
  <2>1. \A b \in (at + 1)..N : f[b] = F[b]
    BY <1>1
  <2>2. F[at] = f[at]
    OBVIOUS
  <2> HIDE DEF F
  <2>3. ReadAt(f, log, at) = ReadAt(F, log, at)
    BY <2>1, ReadsOn
  <2> QED BY <1>5, <2>2, <2>3
<1>7. F = [at \in 0..N |-> ReadAt(F, log, at)]
  <2>1. F = [at \in 0..N |-> F[at]]
    OBVIOUS
  <2> HIDE DEF F
  <2> QED BY <1>6, <2>1
<1> QED BY <1>7

\* read_log is what the reading says at the start.
LEMMA ReadLogIs ==
    ASSUME NEW log \in Seq(Nat)
    PROVE  \E f : /\ read_log(log) = f[0]
                  /\ \A at \in 0..Len(log) : f[at] = ReadAt(f, log, at)
<1> DEFINE f == CHOOSE f : f = [at \in 0..Len(log) |-> ReadAt(f, log, at)]
<1>1. read_log(log) = f[0]
  BY DEF read_log, ReadAt
<1>2. f = [at \in 0..Len(log) |-> ReadAt(f, log, at)]
  BY ReadingExists
<1> HIDE DEF f
<1> QED BY <1>1, <1>2


\* Sequences with the same elements are the same.
LEMMA SameSeq ==
    ASSUME NEW S, NEW s \in Seq(S), NEW T, NEW t \in Seq(T), Len(s) = Len(t),
           \A k \in 1..Len(s) : s[k] = t[k]
    PROVE  s = t
<1>1. s = [k \in 1..Len(s) |-> s[k]] /\ t = [k \in 1..Len(t) |-> t[k]]
  BY SeqAsFunction
<1> QED BY <1>1

\* The bytes of two sequences of bytes, one behind the other.
LEMMA BytesJoined ==
    ASSUME NEW s \in Seq(Nat), NEW t \in Seq(Nat)
    PROVE  /\ s \o t \in Seq(Nat) /\ Len(s \o t) = Len(s) + Len(t)
           /\ \A k \in 1..Len(s) : (s \o t)[k] = s[k]
           /\ \A k \in 1..Len(t) : (s \o t)[Len(s) + k] = t[k]
  OBVIOUS

\* A record: its length, its checksum, its payload.
LEMMA EncodedIs ==
    ASSUME FixedLog, NEW i \in Nat
    PROVE  /\ header = 2 /\ encode(value(i)) \in Seq(Nat) /\ Len(encode(value(i))) = 4
           /\ value(i) \in Seq(Nat) /\ Len(value(i)) = 2
           /\ value(i)[1] = 10 + i /\ value(i)[2] = 20 + i
           /\ encode(value(i))[1] = 2
           /\ encode(value(i))[2] = 1000 + 50 * (10 + i) + (20 + i)
           /\ encode(value(i))[3] = 10 + i /\ encode(value(i))[4] = 20 + i
<1> DEFINE p == value(i)
           e == encode(value(i))
<1>1. p \in Seq(Nat) /\ Len(p) = 2 /\ p[1] = 10 + i /\ p[2] = 20 + i
  BY DEF value
<1> HIDE DEF p
<1>2. e = (<<2>> \o <<crc(p)>>) \o p /\ header = 2
  BY <1>1 DEF p, FixedLog, encode, header
<1>3. crc(p) = 1000 + 50 * (10 + i) + (20 + i) /\ crc(p) \in Nat
  BY <1>1 DEF crc
<1> DEFINE h == <<2>> \o <<crc(p)>>
<1>4. h \in Seq(Nat) /\ Len(h) = 2 /\ h[1] = 2 /\ h[2] = crc(p)
  BY <1>3
<1>5. e = h \o p
  BY <1>2
<1> HIDE DEF e, h
<1>6. e \in Seq(Nat) /\ Len(e) = 4 /\ e[1] = h[1] /\ e[2] = h[2] /\ e[3] = p[1] /\ e[4] = p[2]
  <2>1. /\ e \in Seq(Nat) /\ Len(e) = Len(h) + Len(p)
        /\ \A k \in 1..Len(h) : e[k] = h[k]
        /\ \A k \in 1..Len(p) : e[Len(h) + k] = p[k]
    BY <1>1, <1>4, <1>5, BytesJoined
  <2>2. \A k \in 1..2 : e[k] = h[k] /\ e[2 + k] = p[k]
    BY <1>1, <1>4, <2>1
  <2> QED BY <1>1, <1>4, <2>1, <2>2
<1> QED BY <1>1, <1>2, <1>3, <1>4, <1>6 DEF p, e

\* Two bytes behind the header.
PayloadOf(d, at, p) ==
    /\ p \in Seq(Nat) /\ Len(p) = 2 /\ p[1] = d[at + 3] /\ p[2] = d[at + 4]
    /\ Intact(d, at) <=> 1000 + 50 * d[at + 3] + d[at + 4] = d[at + 2]

\* A record's payload is the two bytes behind its header.
LEMMA PayloadIs ==
    ASSUME FixedLog, NEW d \in Seq(Nat), NEW at \in Nat, at + 4 <= Len(d), d[at + 1] = 2
    PROVE  PayloadOf(d, at, Payload(d, at))
<1> DEFINE p == Payload(d, at)
<1>1. header = 2
  BY DEF FixedLog, header
<1>2. p = SubSeq(d, at + 3, at + 4)
  BY <1>1 DEF Payload
<1>3. at + 3 \in 1..Len(d) /\ at + 4 \in 1..Len(d) /\ (at + 4) - (at + 3) + 1 = 2
      /\ (at + 3) + 1 - 1 = at + 3 /\ (at + 3) + 2 - 1 = at + 4
  OBVIOUS
<1>4. p \in Seq(Nat) /\ Len(p) = 2 /\ p[1] = d[at + 3] /\ p[2] = d[at + 4]
  <2> HIDE DEF p
  <2> QED BY <1>2, <1>3
<1>5. crc(p) = 1000 + 50 * d[at + 3] + d[at + 4]
  BY <1>4 DEF crc
<1> QED BY <1>4, <1>5 DEF FixedLog, Intact, PayloadOf

\* read_log passes over a record that is there and goes on behind it.
LEMMA ReadsRecord ==
    ASSUME FixedLog, NEW d \in Seq(Nat), NEW i \in Nat, 4 * i + 4 <= Len(d),
           \A k \in 1..4 : d[4 * i + k] = encode(value(i))[k], NEW f
    PROVE  ReadAt(f, d, 4 * i) = [records |-> <<value(i)>> \o f[4 * i + 4].records,
                                  valid |-> f[4 * i + 4].valid]
<1> DEFINE at == 4 * i
<1>1. at \in Nat /\ at + 4 <= Len(d) /\ Len(d) \in Nat
  OBVIOUS
<1>a. 1 \in 1..4 /\ 2 \in 1..4 /\ 3 \in 1..4 /\ 4 \in 1..4
  OBVIOUS
<1>b. \A k \in 1..4 : d[at + k] = encode(value(i))[k]
  OBVIOUS
<1> HIDE DEF at
<1>2. /\ d[at + 1] = 2 /\ d[at + 2] = 1000 + 50 * (10 + i) + (20 + i)
      /\ d[at + 3] = 10 + i /\ d[at + 4] = 20 + i
  <2>1. /\ d[at + 1] = encode(value(i))[1] /\ d[at + 2] = encode(value(i))[2]
        /\ d[at + 3] = encode(value(i))[3] /\ d[at + 4] = encode(value(i))[4]
    BY <1>a, <1>b
  <2> QED BY <2>1, EncodedIs
<1>3. /\ header = 2 /\ value(i) \in Seq(Nat) /\ Len(value(i)) = 2
      /\ value(i)[1] = 10 + i /\ value(i)[2] = 20 + i
  BY EncodedIs
<1>c. PayloadOf(d, at, Payload(d, at))
  <2>1. d[at + 1] = 2
    BY <1>2
  <2> QED BY <1>1, <2>1, PayloadIs
<1>d. Payload(d, at) = value(i)
  <2> DEFINE p == Payload(d, at)
  <2>1. p \in Seq(Nat) /\ Len(p) = 2 /\ p[1] = d[at + 3] /\ p[2] = d[at + 4]
    BY <1>c DEF PayloadOf
  <2> HIDE DEF p
  <2>2. Len(p) = Len(value(i)) /\ \A k \in 1..Len(p) : p[k] = value(i)[k]
    BY <1>2, <1>3, <2>1
  <2>3. p = value(i)
    BY <1>3, <2>1, <2>2, SameSeq
  <2> QED BY <2>3 DEF p
<1>4. Payload(d, at) = value(i) /\ Intact(d, at)
  BY <1>2, <1>c, <1>d DEF PayloadOf
<1>5. Len(d) - at >= header /\ d[at + 1] # 0 /\ Len(d) - at >= header + d[at + 1]
  BY <1>1, <1>2, <1>3
<1>6. at + header + d[at + 1] = at + 4
  BY <1>1, <1>2, <1>3
<1>7. ReadAt(f, d, at) = [records |-> <<value(i)>> \o f[at + 4].records, valid |-> f[at + 4].valid]
  BY <1>4, <1>5, <1>6 DEF ReadAt
<1> QED BY <1>7 DEF at

\* What read_log makes of n records.
ReadsAll(log, n) ==
    read_log(log) = [records |-> [i \in 1..n |-> value(i - 1)], valid |-> 4 * n]

\* One record more in front.
LEMMA OneMore ==
    ASSUME NEW n \in Nat, NEW m \in 0..(n - 1)
    PROVE  <<value(n - (m + 1))>> \o [i \in 1..m |-> value((n - m) + i - 1)]
             = [i \in 1..(m + 1) |-> value((n - (m + 1)) + i - 1)]
<1> DEFINE s == <<value(n - (m + 1))>>
           t == [i \in 1..m |-> value((n - m) + i - 1)]
           u == [i \in 1..(m + 1) |-> value((n - (m + 1)) + i - 1)]
<1>1. s \in Seq(Range(s)) /\ Len(s) = 1 /\ s[1] = value(n - (m + 1))
  BY ShortSeqs
<1>2. t \in Seq(Range(t)) /\ Len(t) = m
  <2>1. t = [i \in 1..m |-> t[i]]
    OBVIOUS
  <2> HIDE DEF t
  <2> QED BY <2>1, FunctionIsSeq
<1>3. \A i \in 1..m : t[i] = value((n - m) + i - 1)
  OBVIOUS
<1> HIDE DEF s, t
<1>4. /\ s \o t \in Seq(Range(s \o t)) /\ Len(s \o t) = m + 1
      /\ \A k \in 1..(m + 1) : (s \o t)[k] = IF k <= 1 THEN s[k] ELSE t[k - 1]
  <2>1. Len(s) + Len(t) = m + 1
    BY <1>1, <1>2
  <2> QED BY <1>1, <1>2, <2>1, ConcatIs
<1>5. ASSUME NEW k \in 1..(m + 1) PROVE (s \o t)[k] = value((n - (m + 1)) + k - 1)
  <2>1. CASE k = 1
    <3>1. (n - (m + 1)) + k - 1 = n - (m + 1)
      BY <2>1
    <3> QED BY <1>1, <1>4, <2>1, <3>1
  <2>2. CASE k # 1
    <3>1. k - 1 \in 1..m /\ ~(k <= 1) /\ (n - m) + (k - 1) - 1 = (n - (m + 1)) + k - 1
      BY <2>2
    <3> QED BY <1>3, <1>4, <3>1
  <2> QED BY <2>1, <2>2
<1>6. s \o t = [k \in 1..(m + 1) |-> (s \o t)[k]]
  BY <1>4, SeqAsFunction
<1>7. s \o t = u
  BY <1>5, <1>6
<1> QED BY <1>7 DEF s, t

\* If it stops behind n records, it has those.
LEMMA ReadsToStop ==
    ASSUME FixedLog, NEW d \in Seq(Nat), NEW n \in Nat, 4 * n <= Len(d), Recorded(d, n),
           NEW f, \A at \in 0..Len(d) : f[at] = ReadAt(f, d, at),
           f[4 * n] = [records |-> <<>>, valid |-> 4 * n]
    PROVE  f[0] = [records |-> [i \in 1..n |-> value(i - 1)], valid |-> 4 * n]
<1> DEFINE Last(m) == [records |-> [i \in 1..m |-> value((n - m) + i - 1)], valid |-> 4 * n]
           S == {m \in 0..n : f[4 * (n - m)] = Last(m)}
<1>1. 0 \in S
  <2>1. [i \in 1..0 |-> value((n - 0) + i - 1)] = <<>>
    OBVIOUS
  <2>2. 4 * (n - 0) = 4 * n
    OBVIOUS
  <2> QED BY <2>1, <2>2
<1>2. ASSUME NEW m \in 0..(n-1), m \in S PROVE m + 1 \in S
  <2> DEFINE i == n - (m + 1)
  <2>1. i \in Nat /\ i \in 0..(n-1) /\ 4 * i + 4 <= Len(d) /\ 4 * i \in 0..Len(d)
        /\ 4 * i + 4 = 4 * (n - m) /\ m + 1 \in 0..n
    OBVIOUS
  <2>2. f[4 * i + 4] = Last(m)
    BY <1>2, <2>1
  <2> HIDE DEF i
  <2>3. \A k \in 1..4 : d[4 * i + k] = encode(value(i))[k]
    BY <2>1 DEF Recorded
  <2>4. f[4 * i] = [records |-> <<value(i)>> \o f[4 * i + 4].records, valid |-> f[4 * i + 4].valid]
    BY <2>1, <2>3, ReadsRecord
  <2>5. f[4 * i + 4].records = [j \in 1..m |-> value((n - m) + j - 1)] /\ f[4 * i + 4].valid = 4 * n
    BY <2>2
  <2>6. <<value(i)>> \o [j \in 1..m |-> value((n - m) + j - 1)]
          = [j \in 1..(m + 1) |-> value((n - (m + 1)) + j - 1)]
    BY OneMore DEF i
  <2>7. f[4 * i] = Last(m + 1)
    BY <2>4, <2>5, <2>6
  <2> QED BY <2>1, <2>7 DEF i
<1>3. n \in S
  <2> HIDE DEF S
  <2>1. 0..n \subseteq S
    BY <1>1, <1>2, UpTo
  <2> QED BY <2>1
<1>4. f[4 * (n - n)] = Last(n) /\ 4 * (n - n) = 0
  BY <1>3
<1>5. Last(n).records = [i \in 1..n |-> value(i - 1)]
  <2>1. \A i \in 1..n : (n - n) + i - 1 = i - 1
    OBVIOUS
  <2> QED BY <2>1
<1> QED BY <1>4, <1>5

\* Behind the last record read_log stops.
LEMMA ExactReads ==
    ASSUME FixedLog, NEW n \in Nat, NEW d, Exact(d, n)
    PROVE  ReadsAll(d, n)
<1>1. d \in Seq(Nat) /\ Len(d) = 4 * n /\ Recorded(d, n)
  BY DEF Exact
<1>2. PICK f : /\ read_log(d) = f[0]
               /\ \A at \in 0..Len(d) : f[at] = ReadAt(f, d, at)
  BY <1>1, ReadLogIs
<1>3. f[4 * n] = [records |-> <<>>, valid |-> 4 * n]
  <2> DEFINE at == 4 * n
  <2>1. at \in 0..Len(d) /\ Len(d) - at = 0
    BY <1>1
  <2> HIDE DEF at
  <2>2. ~(Len(d) - at >= header)
    BY <2>1 DEF header
  <2>3. f[at] = [records |-> <<>>, valid |-> at]
    BY <1>2, <2>1, <2>2 DEF ReadAt
  <2> QED BY <2>3 DEF at
<1>4. f[0] = [records |-> [i \in 1..n |-> value(i - 1)], valid |-> 4 * n]
  BY <1>1, <1>2, <1>3, ReadsToStop
<1> QED BY <1>2, <1>4 DEF ReadsAll

\* It stops at a record some of whose bytes are holes, too.
LEMMA TornStops ==
    ASSUME FixedLog, NEW n \in Nat, NEW d, Torn(d, n), d[4 * n + 1] # 0, Intact(d, 4 * n)
    PROVE  Exact(d, n + 1)
<1> DEFINE at == 4 * n
           e == encode(value(n))
<1>1. d \in Seq(Nat) /\ at \in Nat /\ Len(d) = at + 4 /\ Recorded(d, n)
  BY DEF Torn
<1>2. \A k \in 1..4 : d[at + k] \in {e[k], 0}
  BY DEF Torn
<1>a. d[at + 1] # 0 /\ Intact(d, at)
  OBVIOUS
<1>3. e[1] = 2 /\ e[2] = 1000 + 50 * (10 + n) + (20 + n) /\ e[3] = 10 + n /\ e[4] = 20 + n
  BY EncodedIs
<1> HIDE DEF e
<1>b. at + 4 = 4 * (n + 1)
  OBVIOUS
<1> HIDE DEF at
<1>4. /\ d[at + 1] \in {e[1], 0} /\ d[at + 2] \in {e[2], 0}
      /\ d[at + 3] \in {e[3], 0} /\ d[at + 4] \in {e[4], 0}
  BY <1>2
<1>5. d[at + 1] = 2
  BY <1>3, <1>4, <1>a
<1>6. PayloadOf(d, at, Payload(d, at))
  <2>1. at + 4 <= Len(d)
    BY <1>1
  <2> QED BY <1>1, <1>5, <2>1, PayloadIs
<1>7. 1000 + 50 * d[at + 3] + d[at + 4] = d[at + 2]
  BY <1>6, <1>a DEF PayloadOf
<1>8. d[at + 2] = e[2] /\ d[at + 3] = e[3] /\ d[at + 4] = e[4]
  BY <1>3, <1>4, <1>7
<1>9. \A k \in 1..4 : d[at + k] = e[k]
  <2> TAKE k \in 1..4
  <2>1. k = 1 \/ k = 2 \/ k = 3 \/ k = 4
    OBVIOUS
  <2> QED BY <1>3, <1>5, <1>8, <2>1
<1>10. Recorded(d, n + 1)
  <2>1. ASSUME NEW i \in 0..((n + 1) - 1), NEW k \in 1..4
        PROVE  d[4 * i + k] = encode(value(i))[k]
    <3>1. CASE i \in 0..(n - 1)
      BY <1>1, <3>1 DEF Recorded
    <3>2. CASE i \notin 0..(n - 1)
      <4>1. i = n
        BY <3>2
      <4> QED BY <1>9, <4>1 DEF at, e
    <3> QED BY <3>1, <3>2
  <2> QED BY <2>1 DEF Recorded
<1> QED BY <1>1, <1>10, <1>b DEF Exact

\* A torn put is not read, unless all of it is there.
LEMMA TornReads ==
    ASSUME FixedLog, NEW n \in Nat, NEW d, Torn(d, n)
    PROVE  ReadsAll(d, n) \/ Exact(d, n + 1)
<1> SUFFICES ASSUME ~Exact(d, n + 1) PROVE ReadsAll(d, n)
  OBVIOUS
<1> DEFINE at == 4 * n
<1>1. d \in Seq(Nat) /\ at \in Nat /\ Len(d) = at + 4 /\ Recorded(d, n)
  BY DEF Torn
<1>2. PICK f : /\ read_log(d) = f[0]
               /\ \A b \in 0..Len(d) : f[b] = ReadAt(f, d, b)
  BY <1>1, ReadLogIs
<1>3. f[at] = [records |-> <<>>, valid |-> at]
  <2>1. at \in 0..Len(d)
    BY <1>1
  <2>2. ~(d[at + 1] # 0 /\ Intact(d, at))
    BY TornStops
  <2> HIDE DEF at
  <2> QED BY <1>2, <2>1, <2>2 DEF ReadAt
<1>4. f[0] = [records |-> [i \in 1..n |-> value(i - 1)], valid |-> 4 * n]
  <2>1. 4 * n <= Len(d)
    BY <1>1
  <2>2. f[4 * n] = [records |-> <<>>, valid |-> 4 * n]
    BY <1>3
  <2> HIDE DEF at
  <2> QED BY <1>1, <1>2, <2>1, <2>2, ReadsToStop
<1> QED BY <1>2, <1>4 DEF ReadsAll

\* An empty directory has an empty log.
LEMMA NoLogIsEmpty ==
    ASSUME NEW tree, IsEmpty(tree)
    PROVE  Exact(LogIn(tree), 0)
<1>1. LogIn(tree) = <<>>
  BY DEF IsEmpty, LogIn
<1>2. Recorded(<<>>, 0)
  BY DEF Recorded
<1> QED BY <1>1, <1>2 DEF Exact

\* A crash state that is good is read as one of its prefixes, and accepted.
LEMMA GoodReads ==
    ASSUME FixedLog, NEW a \in 0..PUTS, NEW tree, Good(tree, a)
    PROVE  \E n \in a..PUTS :
              /\ ReadsAll(LogIn(tree), n)
              /\ \/ a = 0 /\ n = 0 /\ IsEmpty(tree) /\ Len(LogIn(tree)) = 4 * n
                 \/ HoldsAll(tree, n) /\ Len(LogIn(tree)) = 4 * n
                 \/ n < PUTS /\ HoldsTorn(tree, n) /\ Len(LogIn(tree)) = 4 * n + 4
<1>p. PUTS = 3
  BY DEF PUTS
<1>1. CASE IsEmpty(tree) /\ a = 0
  <2>1. Exact(LogIn(tree), 0)
    BY <1>1, NoLogIsEmpty
  <2>2. ReadsAll(LogIn(tree), 0) /\ Len(LogIn(tree)) = 4 * 0
    BY <2>1, ExactReads DEF Exact
  <2>3. 0 \in a..PUTS
    BY <1>1, <1>p
  <2> QED BY <1>1, <2>2, <2>3
<1>2. ASSUME NEW n \in a..PUTS, HoldsAll(tree, n)
      PROVE  ReadsAll(LogIn(tree), n) /\ Len(LogIn(tree)) = 4 * n
  <2>1. n \in Nat /\ Exact(LogIn(tree), n)
    BY <1>2, <1>p DEF HoldsAll
  <2> QED BY <2>1, ExactReads DEF Exact
<1>3. ASSUME NEW n \in a..PUTS, n < PUTS, HoldsTorn(tree, n), ~HoldsAll(tree, n + 1)
      PROVE  ReadsAll(LogIn(tree), n) /\ Len(LogIn(tree)) = 4 * n + 4
  <2>1. n \in Nat /\ Torn(LogIn(tree), n) /\ IsLog(tree)
    BY <1>3, <1>p DEF HoldsTorn
  <2>2. ~Exact(LogIn(tree), n + 1)
    BY <1>3, <2>1 DEF HoldsAll
  <2> QED BY <2>1, <2>2, TornReads DEF Torn
<1>4. \A n \in a..PUTS : n < PUTS => n + 1 \in a..PUTS
  BY <1>p
<1> QED BY <1>1, <1>2, <1>3, <1>4 DEF Good

\* So the checker accepts it.
LEMMA GoodIsAccepted ==
    ASSUME FixedLog, NEW a \in 0..PUTS, a = Acknowledged, NEW tree, Good(tree, a)
    PROVE  Accepts(tree)
<1>1. PICK n \in a..PUTS : ReadsAll(LogIn(tree), n)
  BY GoodReads
<1> DEFINE got == read_log(LogIn(tree)).records
<1>2. got = [i \in 1..n |-> value(i - 1)]
  BY <1>1 DEF ReadsAll
<1>3. n \in Nat /\ a \in Nat /\ n >= a /\ n <= PUTS
  BY DEF PUTS
<1> HIDE DEF got
<1>4. DOMAIN got = 1..n /\ \A i \in 1..n : got[i] = value(i - 1)
  BY <1>2
<1>5. Len(got) = n
  <2>1. got = [i \in 1..n |-> got[i]]
    BY <1>2
  <2> QED BY <1>3, <2>1, FunctionIsSeq
<1> QED BY <1>3, <1>4, <1>5 DEF Accepts, got

\* What the repair of a good crash state does: it cuts off a torn put.
Repairs(tree, a, ops) ==
    \/ \E n \in a..PUTS : HoldsAll(tree, n) /\ ops = <<>>
    \/ \E n \in a..PUTS : n < PUTS /\ HoldsTorn(tree, n) /\ ops = Truncation(<<>>, 4 * n)
    \/ a = 0 /\ IsEmpty(tree) /\ ops = <<>>

\* repair cuts a torn put off and leaves whole ones alone.
LEMMA GoodIsRepaired ==
    ASSUME FixedLog, NEW a \in 0..PUTS, NEW tree, Good(tree, a)
    PROVE  Repairs(tree, a, repair(tree))
<1> DEFINE log == LogIn(tree)
<1>1. PICK n \in a..PUTS :
        /\ ReadsAll(log, n)
        /\ \/ a = 0 /\ n = 0 /\ IsEmpty(tree) /\ Len(log) = 4 * n
           \/ HoldsAll(tree, n) /\ Len(log) = 4 * n
           \/ n < PUTS /\ HoldsTorn(tree, n) /\ Len(log) = 4 * n + 4
  BY GoodReads
<1>2. read_log(log).valid = 4 * n /\ n \in Nat
  BY <1>1 DEF ReadsAll, PUTS
<1>3. repair(tree) = IF IsTorn(log, 4 * n) THEN Cut(log, 4 * n) ELSE <<>>
  BY <1>2 DEF repair
<1>4. Cut(log, 4 * n) = Truncation(<<>>, 4 * n)
  BY DEF FixedLog, Cut, Truncation
<1>5. CASE Len(log) = 4 * n
  <2>1. ~IsTorn(log, 4 * n)
    BY <1>2, <1>5 DEF IsTorn
  <2>2. (a = 0 /\ IsEmpty(tree)) \/ HoldsAll(tree, n)
    <3>1. Len(log) # 4 * n + 4
      BY <1>2, <1>5
    <3> QED BY <1>1, <3>1
  <2> QED BY <1>3, <2>1, <2>2 DEF Repairs
<1>6. CASE Len(log) # 4 * n
  <2>1. n < PUTS /\ HoldsTorn(tree, n) /\ Len(log) = 4 * n + 4
    BY <1>1, <1>6
  <2>2. IsTorn(log, 4 * n)
    BY <1>2, <2>1 DEF IsTorn
  <2> QED BY <1>3, <1>4, <2>1, <2>2 DEF Repairs
<1> QED BY <1>5, <1>6

-----------------------------------------------------------------------------
(* Crash states of a program with little in flight *)

\* A crash keeps all that is durable, of what was issued.
CrashKeeps(s) ==
    /\ s \subseteq DOMAIN micro
    /\ \A j \in DOMAIN micro : micro[j].durable_at # NEVER => j \in s

\* close takes nothing that is durable.
LEMMA CrashKeepsDurable ==
    ASSUME TypeOK, NEW s \in CrashSets
    PROVE  CrashKeeps(s)
<1>1. Legal(Program, CrashPoint, s) /\ Before(Program, CrashPoint) = DOMAIN micro
  BY CrashSetsLegal
<1>2. Program.micro = micro /\ CrashPoint = OpIndex /\ OpIndex \in Nat
  BY TablesType DEF Program, CrashPoint
<1>3. ASSUME NEW j \in DOMAIN micro, micro[j].durable_at # NEVER PROVE j \in s
  <2>1. micro[j].durable_at \in (micro[j].op + 1)..(OpIndex - 1)
    BY <1>3 DEF TypeOK
  <2>2. micro[j].durable_at < CrashPoint
    BY <1>2, <2>1
  <2>3. j \in Durable(Program, CrashPoint)
    BY <1>1, <1>2, <2>2 DEF Durable
  <2> QED BY <1>1, <2>3 DEF Legal
<1> QED BY <1>1, <1>3 DEF Legal, CrashKeeps

\* When nothing is in flight a crash loses nothing.
LEMMA QuietCrash ==
    ASSUME TypeOK, ImageOK, AllDurable, NEW s \in CrashSets
    PROVE  CrashFs(Program, s) = v
<1>1. s = DOMAIN micro
  BY CrashKeepsDurable DEF CrashKeeps, AllDurable
<1> QED BY <1>1, ProgramIsSound

\* What every crash state of the log is.
CrashesGood == \A s \in CrashSets : Good(Materialize(Program, s), Acknowledged)

\* The two facts a step needs of the state it leads to: what a crash keeps, and
\* that it is harmless while nothing is in flight.
CrashRules ==
    /\ TypeOK => \A s \in CrashSets : CrashKeeps(s)
    /\ TypeOK /\ ImageOK /\ AllDurable /\ Good(ToTree(v), Acknowledged) => CrashesGood

\* They hold in every state.
LEMMA CrashRulesHold == CrashRules
<1>1. TypeOK => \A s \in CrashSets : CrashKeeps(s)
  BY CrashKeepsDurable
<1>2. ASSUME TypeOK, ImageOK, AllDurable, Good(ToTree(v), Acknowledged) PROVE CrashesGood
  <2>1. \A s \in CrashSets : CrashFs(Program, s) = v
    BY <1>2, QuietCrash
  <2> QED BY <1>2, <2>1 DEF CrashesGood, Materialize
<1> QED BY <1>1, <1>2 DEF CrashRules

\* The micro-ops before the last op lead to the image it works on.
LEMMA BeforeLast ==
    ASSUME TypeOK, ImageOK, NEW fs, NEW ms, EmitsFitting(fs, ms)
    PROVE  ApplyAll(base', Issued, 1..Len(Issued)) = fs
<1> DEFINE a == Len(Issued)
           old == Issued
<1>1. /\ IsImage(v) /\ Len(v) \in Nat /\ IsImage(base) /\ Len(base) = Len(v)
      /\ a \in Nat /\ DOMAIN old = 1..a /\ Fitting(old, Len(base))
  BY ImageShape DEF ImageOK
<1>2. ApplyAll(base, old, 1..a) = v
  BY <1>1 DEF ImageOK, Replay
<1>3. CASE fs = v /\ base' = base
  BY <1>2, <1>3
<1>4. CASE ~(fs = v /\ base' = base)
  <2>1. PICK node : fs = Append(v, node) /\ base' = Append(base, node)
    BY <1>4 DEF EmitsFitting, EmitsOn
  <2>2. RunFits(base, old, 1..a, Len(old)) /\ Len(old) \in Nat
    BY <1>1 DEF RunFits, Fitting
  <2> HIDE DEF old, a
  <2>3. ApplyAll(Append(base, node), old, 1..a) = Append(ApplyAll(base, old, 1..a), node)
    BY <1>1, <2>2, RunFrame
  <2>4. ApplyAll(base', old, 1..a) = fs
    BY <1>2, <2>1, <2>3
  <2> QED BY <2>4 DEF a, old
<1> QED BY <1>3, <1>4

\* When all before the last op is durable, a crash leaves a selection of the
\* micro-ops of that op.
LEMMA EmitCrash ==
    ASSUME TypeOK, ImageOK, AllDurable, NEW fs, NEW ms, EmitsFitting(fs, ms),
           NEW s, CrashKeeps(s)'
    PROVE  \E kept, f : Steps(f, fs, ms, kept, Len(ms)) /\ CrashFs(Program', s) = f[Len(ms)]
<1> DEFINE a == Len(micro)
           b == Len(ms)
           old == Issued
           new == [j \in DOMAIN micro' |-> micro'[j].m]
<1>1. /\ a \in Nat /\ b \in Nat /\ DOMAIN micro = 1..a /\ DOMAIN micro' = 1..(a + b)
      /\ \A j \in 1..a : micro'[j] = micro[j]
      /\ \A k \in 1..b : micro'[a + k].m = ms[k]
  BY EmitAppends
<1>2. CrashFs(Program', s) = ApplyAll(base', new, s)
  BY DEF CrashFs, Program
<1>3. 1..a \subseteq s
  BY <1>1 DEF CrashKeeps, AllDurable
<1>4. Len(new) = a + b /\ Len(old) = a
  <2>1. new = [j \in 1..(a + b) |-> new[j]] /\ old = [j \in 1..a |-> old[j]]
    BY <1>1 DEF Issued
  <2> HIDE DEF new, old, a, b
  <2> QED BY <1>1, <2>1, FunctionIsSeq
<1>5. /\ \A j \in 1..a : new[j] = old[j]
      /\ \A k \in 1..b : new[a + k] = ms[k]
  BY <1>1 DEF Issued
<1>6. ApplyAll(base', old, 1..a) = fs
  BY <1>4, BeforeLast
<1> HIDE DEF a, b, old, new
<1>7. PICK h : Steps(h, base', new, s, a + b) /\ ApplyAll(base', new, s) = h[a + b]
  <2>1. Len(new) \in Nat
    BY <1>1, <1>4
  <2> QED BY <1>4, <2>1, ApplyAllRun
<1>8. h[a] = fs
  <2>1. IsPrefix(1..a, s, a)
    BY <1>3 DEF IsPrefix
  <2>2. a \in 0..(a + b) /\ a + b \in Nat
    BY <1>1
  <2>3. ApplyAll(base', new, 1..a) = h[a]
    BY <1>4, <1>7, <2>1, <2>2, PrefixRun
  <2>4. a \in 0..Len(old) /\ Len(old) <= Len(new) /\ Len(old) \in Nat /\ Len(new) \in Nat
    BY <1>1, <1>4
  <2>5. \A k \in 1..Len(old) : new[k] = old[k]
    BY <1>4, <1>5
  <2>6. ApplyAll(base', new, 1..a) = ApplyAll(base', old, 1..a)
    BY <2>4, <2>5, FirstOnes
  <2> QED BY <1>6, <2>3, <2>6
<1> DEFINE kept == {k \in 1..b : a + k \in s}
           f == [k \in 0..b |-> h[a + k]]
<1>9. f[0] = fs /\ f[b] = h[a + b]
  BY <1>1, <1>8
<1>10. ASSUME NEW k \in 1..b
       PROVE  f[k] = IF k \in kept THEN Apply(f[k-1], ms[k]) ELSE f[k-1]
  <2>1. a + k \in 1..(a + b) /\ (a + k) - 1 = a + (k - 1) /\ k \in 0..b /\ k - 1 \in 0..b
    BY <1>1
  <2>2. h[a + k] = IF a + k \in s THEN Apply(h[(a + k) - 1], new[a + k]) ELSE h[(a + k) - 1]
    BY <1>7, <2>1 DEF Steps
  <2>3. f[k] = h[a + k] /\ f[k-1] = h[(a + k) - 1] /\ (k \in kept <=> a + k \in s)
    BY <2>1
  <2> HIDE DEF f, kept
  <2> QED BY <1>5, <2>2, <2>3
<1> HIDE DEF f, kept
<1>11. Steps(f, fs, ms, kept, b)
  BY <1>9, <1>10 DEF Steps
<1> QED BY <1>2, <1>7, <1>9, <1>11 DEF b

\* After one micro-op, a crash has it or not.
LEMMA OneCrash ==
    ASSUME TypeOK, ImageOK, AllDurable, NEW fs, NEW m, EmitsFitting(fs, <<m>>),
           NEW s, CrashKeeps(s)'
    PROVE  CrashFs(Program', s) = fs \/ CrashFs(Program', s) = Apply(fs, m)
<1> DEFINE ms == <<m>>
<1>1. Len(ms) = 1 /\ ms[1] = m /\ EmitsFitting(fs, ms)
  OBVIOUS
<1> HIDE DEF ms
<1>2. PICK kept, f : Steps(f, fs, ms, kept, Len(ms)) /\ CrashFs(Program', s) = f[Len(ms)]
  BY <1>1, EmitCrash
<1>3. f[0] = fs /\ 1 \in 1..Len(ms) /\ 1 - 1 = 0
  BY <1>1, <1>2 DEF Steps
<1>4. f[1] = IF 1 \in kept THEN Apply(f[1 - 1], ms[1]) ELSE f[1 - 1]
  BY <1>2, <1>3 DEF Steps
<1> QED BY <1>1, <1>2, <1>3, <1>4

-----------------------------------------------------------------------------
(* The log in an image *)

\* The log lies in the root.
LEMMA LogPath ==
    ASSUME FixedLog
    PROVE  KvLog \in Seq(Names) /\ KvLog # <<>> /\ Parent(KvLog) = <<>>
  BY DEF FixedLog, KvLog, Parent

\* A tree that is the log leads to a file that has it.
LEMMA LogIsFile ==
    ASSUME FixedLog, NEW fs, Treelike(fs), IsLog(PathTree(fs))
    PROVE  /\ IsFile(fs, Lookup(fs, KvLog))
           /\ Content(fs[Lookup(fs, KvLog)]) = LogIn(PathTree(fs))
           /\ KvLog \in DOMAIN PathTree(fs) /\ PathTree(fs)[KvLog] = FileEntry(LogIn(PathTree(fs)))
<1> DEFINE T == PathTree(fs)
           d == LogIn(T)
           ino == Lookup(fs, KvLog)
<1>1. T = LogTree(d)
  BY DEF IsLog
<1> HIDE DEF d
<1>2. KvLog \in DOMAIN T /\ T[KvLog] = FileEntry(d)
  <2> HIDE DEF T
  <2> QED BY <1>1 DEF LogTree
<1>3. ino \in 1..Len(fs) /\ T[KvLog] = NodeEntry(fs[ino]) /\ IsImage(fs)
  BY <1>2, TreePaths
<1>4. fs[ino].kind \in {"dir", "file"}
  BY <1>3, ImageShape
<1>5. fs[ino].kind = "file" /\ FileEntry(Content(fs[ino])) = FileEntry(d)
  BY <1>2, <1>3, <1>4 DEF NodeEntry, DirEntry, FileEntry
<1>6. Content(fs[ino]) = d
  BY <1>5 DEF FileEntry
<1>7. IsFile(fs, ino)
  <2>1. Len(fs) \in Nat
    BY <1>3, ImageShape
  <2> QED BY <1>3, <1>5, <2>1 DEF IsFile, NoIno
<1> QED BY <1>2, <1>6, <1>7 DEF d

\* In an empty directory there is none, and it can be made.
LEMMA LogToMake ==
    ASSUME FixedLog, NEW fs, Treelike(fs), IsEmpty(PathTree(fs))
    PROVE  Lookup(fs, KvLog) = NoIno /\ IsDir(fs, Lookup(fs, Parent(KvLog)))
           /\ Lookup(fs, Parent(KvLog)) = Root
<1>1. Lookup(fs, KvLog) = NoIno
  BY LogPath, TreePaths DEF IsEmpty
<1>2. Lookup(fs, Parent(KvLog)) = Root
  BY LogPath, LookupRoot
<1> QED BY <1>1, <1>2 DEF Treelike, IsDir, Root, NoIno

\* A node that no entry names is not seen.
LEMMA OrphanUnseen ==
    ASSUME NEW fs, Treelike(fs), NEW node, node \in {EmptyDir, EmptyFile}
    PROVE  ToTree(Append(fs, node)) = PathTree(fs)
<1> DEFINE x == Append(fs, node)
<1>1. IsImage(fs) /\ Len(fs) \in Nat /\ Len(fs) # 0 /\ fs[Root].kind = "dir" /\ Root \in 1..Len(fs)
  BY ImageShape DEF Treelike, Root
<1>2. /\ Len(x) = Len(fs) + 1 /\ x[Len(fs) + 1] = node
      /\ \A i \in 1..Len(fs) : x[i] = fs[i]
      /\ IsImage(x)
  <2>1. IsNode(node, Len(fs) + 1)
    BY <1>1, NewNodes
  <2>2. Append(fs, node) = [i \in 1..(Len(fs) + 1) |-> IF i <= Len(fs) THEN fs[i] ELSE node]
    BY <1>1, Appended
  <2>3. Append(fs, node)[Len(fs) + 1] = node
    <3>1. Len(fs) + 1 \in 1..(Len(fs) + 1) /\ ~(Len(fs) + 1 <= Len(fs))
      BY <1>1
    <3> QED BY <2>2, <3>1
  <2> QED BY <1>1, <2>1, <2>3, Appended
<1>3. \A q \in Seq(Names) : Lookup(x, q) = Lookup(fs, q)
  BY <1>1, AppendedLooks
<1> HIDE DEF x
<1>4. Found(x) = Found(fs)
  BY <1>3 DEF Found
<1>5. OneWay(x)
  BY <1>3, <1>4 DEF Treelike, OneWay, Found
<1>6. Few(x)
  <2>1. ASSUME NEW i \in 1..Len(x), x[i].kind = "dir"
        PROVE  IsFiniteSet({n \in Names : x[i].entries[n] # NoIno})
    <3>1. CASE i \in 1..Len(fs)
      BY <1>2, <2>1, <3>1 DEF Treelike, Few
    <3>2. CASE i \notin 1..Len(fs)
      <4>1. i = Len(fs) + 1
        BY <1>1, <1>2, <3>2
      <4>2. node = EmptyDir
        BY <1>2, <2>1, <4>1 DEF EmptyFile, File
      <4>3. \A n \in Names : x[i].entries[n] = NoIno
        BY <1>2, <4>1, <4>2 DEF EmptyDir, Dir
      <4>4. {n \in Names : x[i].entries[n] # NoIno} = {}
        BY <4>3
      <4> QED BY <4>4, FS_EmptySet
    <3> QED BY <3>1, <3>2
  <2> QED BY <2>1 DEF Few
<1>7. Treelike(x)
  <2>1. Len(x) # 0 /\ x[Root].kind = "dir"
    BY <1>1, <1>2
  <2> QED BY <1>2, <1>5, <1>6, <2>1 DEF Treelike
<1>8. PathTree(x) = PathTree(fs)
  <2>1. \A p \in Found(fs) : Lookup(x, p) = Lookup(fs, p) /\ x[Lookup(fs, p)] = fs[Lookup(fs, p)]
    <3>1. \A p \in Found(fs) : p \in Seq(Names) /\ Lookup(fs, p) \in 0..Len(fs) /\ Lookup(fs, p) # NoIno
      BY <1>1, LookupIn DEF Found
    <3>2. \A p \in Found(fs) : Lookup(fs, p) \in 1..Len(fs)
      BY <1>1, <3>1 DEF NoIno
    <3> QED BY <1>2, <1>3, <3>1, <3>2
  <2>2. \A p \in Found(fs) : x[Lookup(x, p)] = fs[Lookup(fs, p)]
    BY <2>1
  <2> QED BY <1>4, <2>2 DEF PathTree
<1> QED BY <1>7, <1>8, ToTreeIs DEF x

-----------------------------------------------------------------------------
(* A put that is torn *)

\* Some of the micro-ops of a file change nothing else.
SomeRun(h, ms, kept, n) ==
    \A k \in 1..n : h[k] = IF k \in kept THEN OnFile(h[k-1], ms[k]) ELSE h[k-1]

\* A crash that keeps some of the micro-ops of a file's data changes that file alone, by those.
LEMMA SomeData ==
    ASSUME NEW fs, IsImage(fs), NEW ino \in 1..Len(fs), fs[ino].kind = "file",
           NEW ms, DataOps(ms, ino), NEW kept, NEW f, Steps(f, fs, ms, kept, Len(ms)),
           NEW x, x = f[Len(ms)]
    PROVE  /\ OtherFile(x, fs, ino)
           /\ \E h : h[0] = fs[ino] /\ h[Len(ms)] = x[ino] /\ SomeRun(h, ms, kept, Len(ms))
<1> DEFINE n == Len(ms)
<1>1. n \in Nat /\ \A k \in 1..n : ToFile(ms[k], ino)
  BY DEF DataOps
<1>2. f[0] = fs /\ \A k \in 1..n : f[k] = IF k \in kept THEN Apply(f[k-1], ms[k]) ELSE f[k-1]
  BY DEF Steps
<1>n. x = f[n]
  OBVIOUS
<1> HIDE DEF n
<1> DEFINE OK(k) == /\ IsImage(f[k]) /\ Len(f[k]) = Len(fs) /\ f[k][ino].kind = "file"
                    /\ \A i \in 1..Len(fs) : i # ino => f[k][i] = fs[i]
           S == {k \in 0..n : OK(k)}
<1>3. 0 \in S
  BY <1>1, <1>2
<1>4. ASSUME NEW k \in 0..(n-1), OK(k)
      PROVE  OK(k + 1) /\ f[k+1][ino] = IF k + 1 \in kept THEN OnFile(f[k][ino], ms[k+1]) ELSE f[k][ino]
  <2>1. k + 1 \in 1..n /\ (k + 1) - 1 = k
    BY <1>1
  <2>2. f[k+1] = IF k + 1 \in kept THEN Apply(f[k], ms[k+1]) ELSE f[k]
    BY <1>2, <2>1
  <2>3. CASE k + 1 \notin kept
    BY <1>4, <2>2, <2>3
  <2>4. CASE k + 1 \in kept
    <3> DEFINE gs == f[k]
               m == ms[k+1]
               y == f[k+1]
    <3>1. m.kind \in {"Write", "SetLen"} /\ m.ino = ino
      BY <1>1, <2>1 DEF ToFile
    <3>2. IsImage(gs) /\ Len(gs) = Len(fs) /\ gs[ino].kind = "file" /\ y = Apply(gs, m)
          /\ \A i \in 1..Len(fs) : i # ino => gs[i] = fs[i]
      BY <1>4, <2>2, <2>4
    <3> HIDE DEF gs, m, y
    <3>3. m.ino \in 1..Len(gs)
      BY <3>1, <3>2
    <3>4. /\ IsImage(y) /\ Len(y) = Len(gs)
          /\ \A i \in 1..Len(gs) :
                /\ y[i].kind = gs[i].kind
                /\ i # m.ino \/ gs[i].kind = "dir" => y[i] = gs[i]
                /\ i = m.ino /\ gs[i].kind = "file" => y[i] = OnFile(gs[i], m)
      BY <3>1, <3>2, <3>3, ApplyData
    <3>5. /\ IsImage(y) /\ Len(y) = Len(fs) /\ y[ino].kind = "file"
          /\ y[ino] = OnFile(gs[ino], m)
          /\ \A i \in 1..Len(fs) : i # ino => y[i] = fs[i]
      BY <3>1, <3>2, <3>4
    <3> QED BY <2>4, <3>5 DEF gs, m, y
  <2> QED BY <2>3, <2>4
<1>5. \A k \in 0..n : OK(k)
  <2>1. ASSUME NEW k \in 0..(n-1), k \in S PROVE k + 1 \in S
    <3>1. OK(k) /\ k + 1 \in 0..n
      BY <1>1, <2>1
    <3>2. OK(k + 1)
      <4> HIDE DEF OK
      <4> QED BY <1>4, <3>1
    <3> HIDE DEF OK
    <3> QED BY <3>1, <3>2
  <2> HIDE DEF S
  <2>2. 0..n \subseteq S
    BY <1>1, <1>3, <2>1, UpTo
  <2> QED BY <2>2 DEF S
<1>6. OtherFile(x, fs, ino)
  <2>1. OK(n)
    <3> HIDE DEF OK
    <3> QED BY <1>1, <1>5
  <2> QED BY <1>n, <2>1 DEF OtherFile
<1> DEFINE h == [k \in 0..n |-> f[k][ino]]
<1>7. h[0] = fs[ino] /\ h[n] = x[ino]
  BY <1>1, <1>2, <1>n
<1>8. ASSUME NEW k \in 1..n
      PROVE  h[k] = IF k \in kept THEN OnFile(h[k-1], ms[k]) ELSE h[k-1]
  <2>1. k - 1 \in 0..(n-1) /\ (k - 1) + 1 = k /\ k \in 0..n /\ k - 1 \in 0..n
    BY <1>1
  <2>2. OK(k - 1)
    <3> HIDE DEF OK
    <3> QED BY <1>5, <2>1
  <2>3. f[k][ino] = IF k \in kept THEN OnFile(f[k-1][ino], ms[k]) ELSE f[k-1][ino]
    <3> HIDE DEF OK
    <3> QED BY <1>4, <2>1, <2>2
  <2> QED BY <2>1, <2>3
<1> HIDE DEF h
<1> QED BY <1>6, <1>7, <1>8 DEF n, SomeRun

\* A file with the first i puts and some of the next one: its size may be the
\* old one or the new one, and each of its bytes written or not.
PartPut(y, x, i) ==
    /\ TypedFile(y) /\ y.len \in {4 * i, 4 * i + 4}
    /\ \A k \in 1..(4 * i) : ByteAt(y.buf, k) = ByteAt(x.buf, k)
    /\ \A k \in 1..4 : ByteAt(y.buf, 4 * i + k) \in {encode(value(i))[k], 0}

\* A block of the put leaves a part of it.
LEMMA PieceIsPart ==
    ASSUME FixedLog, NEW i \in Nat, NEW x, NEW y, PartPut(y, x, i), NEW ino,
           NEW m, Piece(m, ino, 4 * i, encode(value(i)))
    PROVE  PartPut(OnFile(y, m), x, i)
<1> DEFINE e == encode(value(i))
           o == 4 * i
           z == OnFile(y, m)
<1>1. o \in Nat /\ Len(e) = 4 /\ e \in Seq(Nat)
  BY EncodedIs
<1>2. /\ TypedFile(y) /\ y.len \in {o, o + 4}
      /\ \A k \in 1..o : ByteAt(y.buf, k) = ByteAt(x.buf, k)
      /\ \A k \in 1..4 : ByteAt(y.buf, o + k) \in {e[k], 0}
  BY DEF PartPut
<1>3. /\ m.kind = "Write" /\ m.offset \in Nat /\ m.data \in Seq(Nat) /\ Len(m.data) \in Nat
      /\ o <= m.offset /\ m.offset + Len(m.data) <= o + Len(e)
      /\ \A j \in 1..Len(m.data) : m.data[j] = e[(m.offset - o) + j]
  BY DEF Piece
<1>4. TypedFile(z) /\ z.len = y.len /\ Overwrites(z.buf, y.buf, m.offset, m.data)
  BY <1>2, <1>3, WriteOf
<1> HIDE DEF e, o, z
<1>5. ASSUME NEW k \in 1..o PROVE ByteAt(z.buf, k) = ByteAt(x.buf, k)
  <2>1. k \in Nat \ {0} /\ ~(m.offset < k)
    BY <1>1, <1>3
  <2> QED BY <1>2, <1>4, <2>1 DEF Overwrites
<1>6. ASSUME NEW k \in 1..4 PROVE ByteAt(z.buf, o + k) \in {e[k], 0}
  <2>1. o + k \in Nat \ {0}
    BY <1>1
  <2>2. CASE m.offset < o + k /\ o + k <= m.offset + Len(m.data)
    <3>1. (o + k) - m.offset \in 1..Len(m.data) /\ (m.offset - o) + ((o + k) - m.offset) = k
      BY <1>1, <1>3, <2>2
    <3>2. ByteAt(z.buf, o + k) = m.data[(o + k) - m.offset]
      BY <1>4, <2>1, <2>2 DEF Overwrites
    <3> QED BY <1>3, <3>1, <3>2
  <2>3. CASE ~(m.offset < o + k /\ o + k <= m.offset + Len(m.data))
    <3>1. ByteAt(z.buf, o + k) = ByteAt(y.buf, o + k)
      BY <1>4, <2>1, <2>3 DEF Overwrites
    <3> QED BY <1>2, <3>1
  <2> QED BY <2>2, <2>3
<1> QED BY <1>2, <1>4, <1>5, <1>6 DEF PartPut, z, o, e

\* So does the size it grows to.
LEMMA SizeIsPart ==
    ASSUME FixedLog, NEW i \in Nat, NEW x, NEW y, PartPut(y, x, i), NEW ino
    PROVE  PartPut(OnFile(y, SetLen(ino, 4 * i + 4, TRUE)), x, i)
<1> DEFINE e == encode(value(i))
           o == 4 * i
           m == SetLen(ino, 4 * i + 4, TRUE)
           z == OnFile(y, m)
<1>1. o \in Nat
  OBVIOUS
<1>2. /\ TypedFile(y) /\ y.len \in {o, o + 4}
      /\ \A k \in 1..o : ByteAt(y.buf, k) = ByteAt(x.buf, k)
      /\ \A k \in 1..4 : ByteAt(y.buf, o + k) \in {e[k], 0}
  BY DEF PartPut
<1>3. TypedFile(y) /\ o + 4 \in Nat /\ TRUE \in BOOLEAN
  BY <1>1, <1>2
<1>4. SizedTo(z, y, o + 4, TRUE)
  BY <1>3, SetLenShows
<1> HIDE DEF e, o, m, z
<1>5. TypedFile(z) /\ z.len = o + 4
  BY <1>4 DEF SizedTo
<1>6. y.len <= o + 4
  BY <1>1, <1>2
<1>7. \A k \in Nat \ {0} : ByteAt(z.buf, k) = ByteAt(y.buf, k)
  BY <1>4, <1>6 DEF SizedTo
<1>8. \A k \in 1..o : ByteAt(z.buf, k) = ByteAt(x.buf, k)
  <2>1. \A k \in 1..o : k \in Nat \ {0}
    BY <1>1
  <2> QED BY <1>2, <1>7, <2>1
<1>9. \A k \in 1..4 : ByteAt(z.buf, o + k) \in {e[k], 0}
  <2>1. \A k \in 1..4 : o + k \in Nat \ {0}
    BY <1>1
  <2> QED BY <1>2, <1>7, <2>1
<1>10. z.len \in {o, o + 4}
  BY <1>5
<1> QED BY <1>5, <1>8, <1>9, <1>10 DEF PartPut, z, o, e, m

\* Whatever micro-ops of the put persisted, the file has part of it.
LEMMA SomePut ==
    ASSUME FixedLog, NEW i \in Nat, NEW x, PartPut(x, x, i), x.len = 4 * i, NEW ino,
           NEW ms, NEW c, Pieces(ms, c, ino, 4 * i, encode(value(i))),
           NEW n \in Nat, EndsWith(ms, n, c, ino, 4 * i, 4 * i + 4),
           NEW kept, NEW h, h[0] = x, SomeRun(h, ms, kept, n)
    PROVE  PartPut(h[n], x, i)
<1> DEFINE S == {k \in 0..n : PartPut(h[k], x, i)}
<1>1. 0 \in S
  OBVIOUS
<1>2. c \in Nat /\ \A k \in 1..c : Piece(ms[k], ino, 4 * i, encode(value(i)))
  BY DEF Pieces
<1>3. n = c + 1 /\ ms[c + 1] = SetLen(ino, 4 * i + 4, TRUE)
  <2>1. 4 * i + 4 > 4 * i
    OBVIOUS
  <2> QED BY <2>1 DEF EndsWith
<1>4. ASSUME NEW k \in 0..(n-1), k \in S PROVE k + 1 \in S
  <2>1. k + 1 \in 1..n /\ k + 1 \in 0..n /\ (k + 1) - 1 = k /\ PartPut(h[k], x, i)
    BY <1>4
  <2>2. h[k+1] = IF k + 1 \in kept THEN OnFile(h[k], ms[k+1]) ELSE h[k]
    BY <2>1 DEF SomeRun
  <2>3. PartPut(OnFile(h[k], ms[k+1]), x, i)
    <3>1. CASE k + 1 \in 1..c
      BY <1>2, <2>1, <3>1, PieceIsPart
    <3>2. CASE k + 1 \notin 1..c
      <4>1. k + 1 = c + 1
        BY <1>2, <1>3, <2>1, <3>2
      <4>2. ms[k+1] = SetLen(ino, 4 * i + 4, TRUE)
        BY <1>3, <4>1
      <4> QED BY <2>1, <4>2, SizeIsPart
    <3> QED BY <3>1, <3>2
  <2> QED BY <2>1, <2>2, <2>3
<1>5. n \in S
  <2> HIDE DEF S
  <2>1. 0..n \subseteq S
    BY <1>1, <1>4, UpTo
  <2> QED BY <2>1
<1> QED BY <1>5

\* A whole file of puts is where a put starts.
LEMMA StartsPart ==
    ASSUME FixedLog, NEW i \in Nat, NEW x, Settled(x), Exact(Content(x), i)
    PROVE  PartPut(x, x, i) /\ x.len = 4 * i
<1>1. /\ TypedFile(x) /\ x.len \in Nat /\ Len(Content(x)) = x.len
  BY ContentBytes DEF Settled
<1>2. x.len = 4 * i
  BY <1>1 DEF Exact
<1>3. \A k \in 1..4 : ByteAt(x.buf, 4 * i + k) = 0
  BY <1>2 DEF Settled
<1> QED BY <1>1, <1>2, <1>3 DEF PartPut

\* What is read of a part of a put is the puts before it, or those and a torn one.
LEMMA PartContent ==
    ASSUME FixedLog, NEW i \in Nat, NEW x, Settled(x), Exact(Content(x), i), NEW y, PartPut(y, x, i)
    PROVE  Exact(Content(y), i) \/ Torn(Content(y), i)
<1> DEFINE o == 4 * i
           e == encode(value(i))
           c == Content(x)
           d == Content(y)
<1>1. /\ o \in Nat /\ x.len = o /\ TypedFile(y) /\ y.len \in {o, o + 4}
      /\ \A k \in 1..o : ByteAt(y.buf, k) = ByteAt(x.buf, k)
      /\ \A k \in 1..4 : ByteAt(y.buf, o + k) \in {e[k], 0}
  BY StartsPart DEF PartPut
<1>2. Len(c) = x.len /\ \A k \in 1..x.len : c[k] = ByteAt(x.buf, k)
  BY ContentBytes
<1>3. y.len \in Nat /\ y.buf \in Seq(Nat)
  BY <1>1 DEF TypedFile
<1>4. d = [k \in 1..y.len |-> ByteAt(y.buf, k)]
  BY DEF Content, Resize, ByteAt
<1>5. ASSUME NEW k \in 1..y.len PROVE ByteAt(y.buf, k) \in Nat
  BY <1>3 DEF ByteAt
<1> HIDE DEF c, d, e
<1>6. d \in Seq(Nat) /\ Len(d) = y.len /\ \A k \in 1..y.len : d[k] = ByteAt(y.buf, k)
  BY <1>3, <1>4, <1>5
<1>7. Recorded(d, i)
  <2>1. ASSUME NEW j \in 0..(i - 1), NEW k \in 1..4 PROVE d[4 * j + k] = encode(value(j))[k]
    <3>1. 4 * j + k \in 1..o
      OBVIOUS
    <3>2. c[4 * j + k] = encode(value(j))[k]
      BY DEF Exact, Recorded, c
    <3> HIDE DEF o
    <3>3. 4 * j + k \in 1..y.len
      BY <1>1, <3>1
    <3> QED BY <1>1, <1>2, <1>6, <3>1, <3>2, <3>3
  <2> QED BY <2>1 DEF Recorded
<1>8. CASE y.len = o
  BY <1>6, <1>7, <1>8 DEF Exact, d
<1>9. CASE y.len = o + 4
  <2>1. \A k \in 1..4 : o + k \in 1..y.len
    BY <1>1, <1>9
  <2>2. \A k \in 1..4 : d[o + k] \in {e[k], 0}
    BY <1>1, <1>6, <2>1
  <2> QED BY <1>6, <1>7, <1>9, <2>2 DEF Torn, d, e
<1> QED BY <1>1, <1>8, <1>9

-----------------------------------------------------------------------------
(* The tree with the log alone *)

\* The tree with the log alone holds what it was made of.
LEMMA LogTreeIs ==
    ASSUME NEW c
    PROVE  LogIn(LogTree(c)) = c /\ IsLog(LogTree(c))
<1>1. LogIn(LogTree(c)) = c
  BY DEF LogIn, LogTree, FileEntry
<1> QED BY <1>1 DEF IsLog

\* Another content of the log is another log.
LEMMA LogChanged ==
    ASSUME NEW T, IsLog(T), NEW c
    PROVE  WithData(T, KvLog, c) = LogTree(c)
<1> DEFINE d == LogIn(T)
<1>1. T = LogTree(d)
  BY DEF IsLog
<1> HIDE DEF d
<1> QED BY <1>1 DEF WithData, LogTree, FileEntry

\* The image that shows that tree has a settled file with the log's bytes.
LEMMA LogInImage ==
    ASSUME FixedLog, NEW fs, Kept(fs), IsLog(PathTree(fs)), NEW ino, ino = Lookup(fs, KvLog)
    PROVE  /\ IsImage(fs) /\ ino \in 1..Len(fs) /\ fs[ino].kind = "file" /\ Settled(fs[ino])
           /\ IsFile(fs, ino) /\ Content(fs[ino]) = LogIn(PathTree(fs))
<1>1. Treelike(fs)
  BY DEF Kept
<1>2. IsFile(fs, ino) /\ Content(fs[ino]) = LogIn(PathTree(fs))
  BY <1>1, LogIsFile
<1> QED BY <1>2, LogPath, FileAt

\* When nothing but the log's file changes, the tree is the log again.
LEMMA LogStays ==
    ASSUME FixedLog, NEW fs, Kept(fs), IsLog(PathTree(fs)), NEW ino, ino = Lookup(fs, KvLog),
           NEW x, OtherFile(x, fs, ino)
    PROVE  ToTree(x) = LogTree(Content(x[ino]))
<1>1. Treelike(fs) /\ ino \in 1..Len(fs) /\ fs[ino].kind = "file" /\ IsFile(fs, ino)
  BY LogInImage DEF Kept
<1>2. FileSet(x, fs, ino, x[ino])
  BY <1>1, FileLooks DEF OtherFile
<1>3. PathTree(x) = WithData(PathTree(fs), KvLog, Content(x[ino]))
  <2> DEFINE node == x[ino]
  <2>1. FileSet(x, fs, Lookup(fs, KvLog), node) /\ node.kind = "file"
    BY <1>2 DEF OtherFile
  <2> HIDE DEF node
  <2>2. PathTree(x) = WithData(PathTree(fs), KvLog, Content(node))
    BY <1>1, <2>1, LogPath, FileTree
  <2> QED BY <2>2 DEF node
<1>4. ToTree(x) = PathTree(x)
  BY <1>2, ToTreeIs DEF FileSet
<1> QED BY <1>3, <1>4, LogChanged

\* The write of put i, as the Recorder logs it.
PutOp(i) == [op |-> "write", path |-> KvLog, offset |-> i * 4, data |-> encode(value(i))]

\* In a crash the put that was being written is torn, if there at all.
LEMMA WriteCrash ==
    ASSUME FixedLog, TypeOK, ImageOK, AllDurable, Kept(v), NEW i \in Nat,
           HoldsAll(ToTree(v), i), WriteFitting(PutOp(i)), NEW s, CrashKeeps(s)'
    PROVE  HoldsAll(Materialize(Program', s), i) \/ HoldsTorn(Materialize(Program', s), i)
<1> DEFINE ino == Lookup(v, KvLog)
           o == 4 * i
           e == encode(value(i))
           ms == Chunks(ino, o, e) \o Grown(ino, o + Len(e))
           w == v[ino]
<1>1. IsLog(PathTree(v)) /\ Exact(LogIn(PathTree(v)), i)
  BY KeptTree DEF HoldsAll
<1>2. /\ IsImage(v) /\ ino \in 1..Len(v) /\ v[ino].kind = "file" /\ Settled(w)
      /\ Content(w) = LogIn(PathTree(v))
  BY <1>1, LogInImage
<1>3. o \in Nat /\ i * 4 = o /\ e \in Seq(Nat) /\ Len(e) = 4
  BY EncodedIs
<1>4. EmitsFitting(v, ms)
  BY <1>3 DEF WriteFitting, PutOp
<1>5. ms = Chunks(ino, o, e) \o Grown(ino, o + Len(e)) /\ Len(ms) \in Nat
  BY <1>4 DEF EmitsFitting
<1> HIDE DEF ms
<1>6. PICK kept, f : Steps(f, v, ms, kept, Len(ms)) /\ CrashFs(Program', s) = f[Len(ms)]
  BY <1>4, EmitCrash
<1>7. /\ DataOps(ms, ino)
      /\ \E c : Pieces(ms, c, ino, o, e) /\ EndsWith(ms, Len(ms), c, ino, v[ino].len, o + Len(e))
  <2> HIDE DEF ino, o, e
  <2> QED BY <1>3, <1>5, PutsOps
<1>8. PICK c : Pieces(ms, c, ino, o, e) /\ EndsWith(ms, Len(ms), c, ino, w.len, o + Len(e))
  BY <1>7
<1> DEFINE x == f[Len(ms)]
<1>9. /\ OtherFile(x, v, ino)
      /\ \E h : h[0] = w /\ h[Len(ms)] = x[ino] /\ SomeRun(h, ms, kept, Len(ms))
  <2> HIDE DEF ino
  <2> QED BY <1>2, <1>6, <1>7, SomeData
<1>10. PICK h : h[0] = w /\ h[Len(ms)] = x[ino] /\ SomeRun(h, ms, kept, Len(ms))
  BY <1>9
<1> HIDE DEF w, x
<1>11. Exact(Content(w), i) /\ PartPut(w, w, i) /\ w.len = 4 * i
  BY <1>1, <1>2, StartsPart
<1>12. PartPut(x[ino], w, i)
  <2>1. Pieces(ms, c, ino, 4 * i, encode(value(i)))
    BY <1>8
  <2>2. EndsWith(ms, Len(ms), c, ino, 4 * i, 4 * i + 4)
    BY <1>3, <1>8, <1>11
  <2>3. PartPut(h[Len(ms)], w, i)
    BY <1>5, <1>10, <1>11, <2>1, <2>2, SomePut
  <2> QED BY <1>10, <2>3
<1>13. Exact(Content(x[ino]), i) \/ Torn(Content(x[ino]), i)
  BY <1>2, <1>11, <1>12, PartContent
<1>14. ToTree(x) = LogTree(Content(x[ino]))
  BY <1>1, <1>9, LogStays
<1>15. Materialize(Program', s) = ToTree(x)
  BY <1>6 DEF Materialize, x
<1> QED BY <1>13, <1>14, <1>15, LogTreeIs DEF HoldsAll, HoldsTorn

-----------------------------------------------------------------------------
(* What the ops of the log do *)

\* An op that emits for one inode waits for its fsync alone.
LEMMA EmitAwaits ==
    ASSUME TypeOK, AllDurable, NEW fs, NEW ms, EmitsFitting(fs, ms), NEW path,
           \A k \in 1..Len(ms) : FlushedWith(ms[k]) = Lookup(v', path)
    PROVE  AwaitsFsync(path)'
<1> DEFINE a == Len(micro)
<1>1. /\ a \in Nat /\ Len(ms) \in Nat
      /\ DOMAIN micro = 1..a /\ DOMAIN micro' = 1..(a + Len(ms))
      /\ \A j \in 1..a : micro'[j] = micro[j]
      /\ \A k \in 1..Len(ms) : micro'[a + k].m = ms[k]
  BY EmitAppends
<1> HIDE DEF a
<1>2. ASSUME NEW j \in DOMAIN micro', micro'[j].durable_at = NEVER
      PROVE  FlushedWith(micro'[j].m) = Lookup(v', path)
  <2>1. CASE j \in 1..a
    <3>1. micro[j].durable_at = NEVER
      BY <1>1, <1>2, <2>1
    <3> QED BY <1>1, <2>1, <3>1 DEF AllDurable
  <2>2. CASE j \notin 1..a
    <3>1. j - a \in 1..Len(ms) /\ a + (j - a) = j
      BY <1>1, <2>2
    <3>2. micro'[j].m = ms[j - a]
      BY <1>1, <3>1
    <3> QED BY <3>1, <3>2
  <2> QED BY <2>1, <2>2
<1> QED BY <1>2 DEF AwaitsFsync

\* An op that emits is no mark and does not fail.
LEMMA EmitOnly ==
    ASSUME TypeOK, NEW fs, NEW ms, EmitsFitting(fs, ms)
    PROVE  Marks' = Marks /\ failed' = failed /\ v' = Replay(fs, ms)
<1>1. marks_before' = Append(marks_before, Marks) /\ failed' = failed /\ v' = Replay(fs, ms)
  BY DEF EmitsFitting, Emit
<1>2. marks_before \in Seq(Nat) /\ Marks \in Nat
  BY TablesType DEF TypeOK
<1> DEFINE m == Marks
<1>3. m \in Nat
  BY <1>2
<1> HIDE DEF m
<1>4. Len(Append(marks_before, m)) = Len(marks_before) + 1
      /\ Append(marks_before, m)[Len(marks_before) + 1] = m
  BY <1>2, <1>3, AppendedNumber
<1>5. marks_before' = Append(marks_before, m)
  BY <1>1 DEF m
<1>6. marks_before'[Len(marks_before')] = m
  BY <1>4, <1>5
<1> QED BY <1>1, <1>6 DEF Marks, m

\* create: the log is there and empty, or in a crash not there.
CreateLog == [op |-> "create", path |-> KvLog]

\* Afterwards an fsync of the root is all that is missing.
LEMMA CreateDone ==
    ASSUME FixedLog, TypeOK, ImageOK, AllDurable, ~failed, Kept(v), IsEmpty(ToTree(v)),
           CompileOp(CreateLog)
    PROVE  /\ ~failed' /\ Kept(v') /\ HoldsAll(ToTree(v'), 0) /\ AwaitsFsync(<<>>)'
           /\ Marks' = Marks
           /\ \A s : CrashKeeps(s)' => \/ IsEmpty(Materialize(Program', s))
                                       \/ HoldsAll(Materialize(Program', s), 0)
<1> DEFINE op == CreateLog
           fs == Append(v, EmptyFile)
           m == Link(Lookup(v, Parent(KvLog)), BaseName(KvLog), Len(v) + 1)
<1>1. op.op = "create" /\ op.path = KvLog
  BY DEF CreateLog
<1>2. CreateOrMkdir(op)
  BY <1>1 DEF CompileOp, WriteOp, Truncate, RenameOp, UnlinkOrRmdir, Fsync, Sync, Mark
<1>3. Treelike(v) /\ ToTree(v) = PathTree(v) /\ IsEmpty(PathTree(v))
  BY KeptTree DEF Kept
<1>4. /\ Lookup(v, KvLog) = NoIno /\ IsDir(v, Lookup(v, Parent(KvLog)))
      /\ Lookup(v, Parent(KvLog)) = Root
  BY <1>3, LogToMake
<1>5. TypedOp(op)
  BY <1>1, LogPath DEF TypedOp
<1>6. ~failed'
  <2>1. Emit(Append(v, EmptyFile), <<Link(Lookup(v, Parent(op.path)), BaseName(op.path), Len(v) + 1)>>)
    BY <1>1, <1>2, <1>4 DEF CreateOrMkdir
  <2> QED BY <2>1 DEF Emit
<1>7. EmitsFitting(fs, <<m>>)
  <2>1. LinksFitting(op)
    BY <1>1, <1>2, <1>4, <1>5, <1>6, CreateFits
  <2> QED BY <1>1, <2>1 DEF LinksFitting
<1>8. Marks' = Marks /\ v' = Replay(fs, <<m>>)
  BY <1>7, EmitOnly
<1>9. NodeEntry(EmptyFile) = FileEntry(<<>>) /\ EmptyFile \in {EmptyDir, EmptyFile}
  <2>1. NodeEntry(EmptyFile) = IF EmptyFile = EmptyDir THEN DirEntry ELSE FileEntry(<<>>)
    BY NewEntry
  <2>2. EmptyDir # EmptyFile
    BY NewEntry
  <2> QED BY <2>1, <2>2
<1>10. /\ Kept(v') /\ PathTree(v') = WithEntry(PathTree(v), KvLog, NodeEntry(EmptyFile))
  BY <1>4, <1>8, <1>9, LogPath, CreateTree
<1>11. ToTree(v') = LogTree(<<>>)
  <2>1. PathTree(v') = LogTree(<<>>)
    BY <1>3, <1>9, <1>10 DEF IsEmpty, WithEntry, LogTree
  <2> QED BY <1>10, <2>1, KeptTree
<1>12. Exact(<<>>, 0)
  BY DEF Exact, Recorded
<1>13. HoldsAll(ToTree(v'), 0)
  BY <1>11, <1>12, LogTreeIs DEF HoldsAll
<1>14. AwaitsFsync(<<>>)'
  <2>1. FlushedWith(m) = Root /\ Lookup(v', <<>>) = Root
    BY <1>4, LookupRoot DEF FlushedWith, IsData, Link
  <2> DEFINE ms == <<m>>
  <2>2. EmitsFitting(fs, ms) /\ \A k \in 1..Len(ms) : FlushedWith(ms[k]) = Lookup(v', <<>>)
    BY <1>7, <2>1
  <2> HIDE DEF ms, fs
  <2> QED BY <2>2, EmitAwaits
<1>15. ASSUME NEW s, CrashKeeps(s)'
       PROVE  IsEmpty(Materialize(Program', s)) \/ HoldsAll(Materialize(Program', s), 0)
  <2>1. CrashFs(Program', s) = fs \/ CrashFs(Program', s) = Apply(fs, m)
    <3> HIDE DEF fs, m
    <3> QED BY <1>7, <1>15, OneCrash
  <2>2. Apply(fs, m) = v'
    BY <1>8, ShortReplay
  <2>3. ToTree(fs) = PathTree(v)
    BY <1>3, <1>9, OrphanUnseen
  <2> QED BY <1>3, <1>13, <2>1, <2>2, <2>3 DEF Materialize
<1> QED BY <1>6, <1>8, <1>10, <1>13, <1>14, <1>15

\* A record is made of bytes.
LEMMA EncodedBytes ==
    ASSUME FixedLog, NEW i \in Nat
    PROVE  \A k \in 1..4 : encode(value(i))[k] \in Nat
<1> DEFINE b == encode(value(i))
<1>1. b[1] = 2 /\ b[2] = 1000 + 50 * (10 + i) + (20 + i) /\ b[3] = 10 + i /\ b[4] = 20 + i
  BY EncodedIs
<1> HIDE DEF b
<1>2. b[1] \in Nat /\ b[2] \in Nat /\ b[3] \in Nat /\ b[4] \in Nat
  BY <1>1
<1>3. 1..4 = {1, 2, 3, 4}
  OBVIOUS
<1>4. \A k \in 1..4 : b[k] \in Nat
  BY <1>2, <1>3
<1> QED BY <1>4 DEF b

\* write: the log has one put more.
LEMMA PutAdds ==
    ASSUME FixedLog, NEW i \in Nat, NEW d, Exact(d, i)
    PROVE  Exact(Written(d, 4 * i, encode(value(i))), i + 1)
<1> DEFINE o == 4 * i
           e == encode(value(i))
           w == Written(d, o, e)
<1>1. o \in Nat /\ e \in Seq(Nat) /\ Len(e) = 4 /\ d \in Seq(Nat) /\ Len(d) = o
  BY EncodedIs DEF Exact
<1> HIDE DEF e
<1>2. Paths!Longest(Len(d), o + Len(e)) = o + 4
  BY <1>1 DEF Paths!Longest
<1>3. Len(Paths!Fit(d, o + 4)) = o + 4 /\ \A k \in 1..(o + 4) : Paths!Fit(d, o + 4)[k] = ByteAt(d, k)
  <2>1. o + 4 \in Nat
    BY <1>1
  <2> HIDE DEF o
  <2> QED BY <2>1, FitOf
<1>4. w = [k \in 1..(o + 4) |-> IF o < k /\ k <= o + 4 THEN e[k - o] ELSE ByteAt(d, k)]
  BY <1>1, <1>2, <1>3 DEF Written
<1> HIDE DEF w
<1>5. \A k \in 1..o : w[k] = d[k] /\ d[k] \in Nat
  <2>1. \A k \in 1..o : k \in 1..(o + 4) /\ ~(o < k) /\ ByteAt(d, k) = d[k]
    BY <1>1 DEF ByteAt
  <2> QED BY <1>1, <1>4, <2>1
<1>6. \A k \in 1..4 : w[o + k] = e[k] /\ e[k] \in Nat
  <2>1. \A k \in 1..4 : o + k \in 1..(o + 4) /\ o < o + k /\ o + k <= o + 4 /\ (o + k) - o = k
    BY <1>1
  <2>2. \A k \in 1..4 : e[k] \in Nat
    BY EncodedBytes DEF e
  <2> HIDE DEF o
  <2>3. \A k \in 1..4 : w[o + k] = e[(o + k) - o]
    BY <1>4, <2>1
  <2> QED BY <2>1, <2>2, <2>3
<1>7. \A k \in 1..(o + 4) : w[k] \in Nat
  <2> TAKE k \in 1..(o + 4)
  <2>1. CASE k \in 1..o
    BY <1>5, <2>1
  <2>2. CASE k \notin 1..o
    <3>1. k - o \in 1..4 /\ o + (k - o) = k
      BY <1>1, <2>2
    <3>2. w[o + (k - o)] \in Nat
      BY <1>6, <3>1
    <3> QED BY <3>1, <3>2
  <2> QED BY <2>1, <2>2
<1>8. w \in Seq(Nat) /\ Len(w) = o + 4
  <2>1. o + 4 \in Nat /\ w = [k \in 1..(o + 4) |-> w[k]]
    BY <1>1, <1>4
  <2> QED BY <1>7, <2>1
<1>9. ASSUME NEW j \in 0..((i + 1) - 1), NEW k \in 1..4
      PROVE  w[4 * j + k] = encode(value(j))[k]
  <2>1. CASE j = i
    <3>1. w[o + k] = e[k]
      BY <1>6
    <3> QED BY <2>1, <3>1 DEF e
  <2>2. CASE j # i
    <3>1. j \in 0..(i - 1) /\ 4 * j + k \in 1..o
      BY <2>2
    <3>2. d[4 * j + k] = encode(value(j))[k]
      BY <3>1 DEF Exact, Recorded
    <3> HIDE DEF o
    <3> QED BY <1>5, <3>1, <3>2
  <2> QED BY <2>1, <2>2
<1>10. Recorded(w, i + 1)
  BY <1>9 DEF Recorded
<1>11. Len(w) = 4 * (i + 1)
  BY <1>8
<1> QED BY <1>8, <1>10, <1>11 DEF Exact, w, e

\* A crash before its fsync leaves the puts before it, or those and a torn one.
LEMMA WriteDone ==
    ASSUME FixedLog, TypeOK, ImageOK, AllDurable, ~failed, Kept(v), NEW i \in Nat,
           HoldsAll(ToTree(v), i), CompileOp(PutOp(i))
    PROVE  /\ ~failed' /\ Kept(v') /\ HoldsAll(ToTree(v'), i + 1) /\ AwaitsFsync(KvLog)'
           /\ Marks' = Marks
           /\ \A s : CrashKeeps(s)' => \/ HoldsAll(Materialize(Program', s), i)
                                       \/ HoldsTorn(Materialize(Program', s), i)
<1> DEFINE op == PutOp(i)
           ino == Lookup(v, KvLog)
           o == 4 * i
           e == encode(value(i))
           ms == Chunks(ino, o, e) \o Grown(ino, o + Len(e))
<1>1. op.op = "write" /\ op.path = KvLog /\ op.offset = o /\ op.data = e
  BY DEF PutOp
<1>2. WriteOp(op)
  BY <1>1 DEF CompileOp, CreateOrMkdir, Truncate, RenameOp, UnlinkOrRmdir, Fsync, Sync, Mark
<1>3. ToTree(v) = PathTree(v) /\ IsLog(PathTree(v)) /\ Exact(LogIn(PathTree(v)), i)
  BY KeptTree DEF HoldsAll
<1>4. /\ IsImage(v) /\ ino \in 1..Len(v) /\ v[ino].kind = "file" /\ IsFile(v, ino)
  BY <1>3, LogInImage
<1>5. o \in Nat /\ e \in Seq(Nat) /\ Len(e) = 4
  BY EncodedIs
<1> HIDE DEF op, e, o
<1>6. TypedOp(op)
  BY <1>1, <1>5, LogPath DEF TypedOp
<1>7. ~failed'
  BY <1>1, <1>2, <1>4 DEF WriteOp, Emit
<1>8. EmitsFitting(v, ms) /\ WriteFitting(op)
  <2>1. WriteFitting(op)
    BY <1>2, <1>6, <1>7, WriteFits
  <2> QED BY <1>1, <2>1 DEF WriteFitting
<1>9. Marks' = Marks /\ v' = Replay(v, ms)
  <2> HIDE DEF ms
  <2> QED BY <1>8, EmitOnly
<1>10. Rewritten(v', KvLog, o, e)
  <2>1. v' = AfterWrite(KvLog, o, e)
    BY <1>9 DEF AfterWrite, WriteOps
  <2> QED BY <1>4, <1>5, <2>1, LogPath, WriteTree
<1>11. HoldsAll(ToTree(v'), i + 1) /\ Kept(v')
  <2> DEFINE d == LogIn(PathTree(v))
             w == Written(d, o, e)
  <2>1. PathTree(v)[KvLog] = FileEntry(d)
    BY <1>3, LogIsFile DEF Kept
  <2>2. PathTree(v)[KvLog].data = d
    BY <2>1 DEF FileEntry
  <2>3. PathTree(v') = WithData(PathTree(v), KvLog, w) /\ Kept(v')
    BY <1>10, <2>2 DEF Rewritten
  <2>4. Exact(w, i + 1)
    BY <1>3, PutAdds DEF o, e
  <2> HIDE DEF w
  <2>5. ToTree(v') = LogTree(w)
    BY <1>3, <2>3, KeptTree, LogChanged
  <2> QED BY <2>3, <2>4, <2>5, LogTreeIs DEF HoldsAll
<1>12. AwaitsFsync(KvLog)'
  <2>1. DataOps(ms, ino)
    <3>1. ms = Chunks(ino, o, e) \o Grown(ino, o + Len(e))
      OBVIOUS
    <3> HIDE DEF ms, ino
    <3> QED BY <1>5, <3>1, PutsOps
  <2> HIDE DEF ms
  <2>2. OtherFile(v', v, ino)
    BY <1>4, <1>9, <2>1, DataRun
  <2>3. Treelike(v)
    BY DEF Kept
  <2>4. FileSet(v', v, ino, v'[ino])
    BY <1>4, <2>2, <2>3, FileLooks DEF OtherFile
  <2>5. Lookup(v', KvLog) = ino
    BY <2>4, LogPath DEF FileSet
  <2>6. \A k \in 1..Len(ms) : FlushedWith(ms[k]) = Lookup(v', KvLog)
    BY <2>1, <2>5 DEF DataOps, ToFile, FlushedWith, IsData
  <2> QED BY <1>8, <2>6, EmitAwaits
<1>13. \A s : CrashKeeps(s)' => \/ HoldsAll(Materialize(Program', s), i)
                                 \/ HoldsTorn(Materialize(Program', s), i)
  BY <1>8, WriteCrash DEF op
<1> QED BY <1>7, <1>9, <1>11, <1>12, <1>13

\* truncate: a torn put is cut off, or in a crash still there.
CutTo(n) == [op |-> "truncate", path |-> KvLog, len |-> 4 * n]

\* A crash before its fsync leaves the torn put or cuts it off.
LEMMA TruncateDone ==
    ASSUME FixedLog, TypeOK, ImageOK, AllDurable, ~failed, Kept(v), NEW n \in Nat,
           HoldsTorn(ToTree(v), n), CompileOp(CutTo(n))
    PROVE  /\ ~failed' /\ Kept(v') /\ HoldsAll(ToTree(v'), n) /\ AwaitsFsync(KvLog)'
           /\ Marks' = Marks
           /\ \A s : CrashKeeps(s)' => \/ HoldsTorn(Materialize(Program', s), n)
                                       \/ HoldsAll(Materialize(Program', s), n)
<1> DEFINE op == CutTo(n)
           ino == Lookup(v, KvLog)
           len == 4 * n
           m == SetLen(ino, len, FALSE)
<1>1. op.op = "truncate" /\ op.path = KvLog /\ op.len = len
  BY DEF CutTo
<1>2. Truncate(op)
  BY <1>1 DEF CompileOp, CreateOrMkdir, WriteOp, RenameOp, UnlinkOrRmdir, Fsync, Sync, Mark
<1>3. ToTree(v) = PathTree(v) /\ IsLog(PathTree(v)) /\ Torn(LogIn(PathTree(v)), n)
  BY KeptTree DEF HoldsTorn
<1>4. /\ IsImage(v) /\ ino \in 1..Len(v) /\ v[ino].kind = "file" /\ IsFile(v, ino)
  BY <1>3, LogInImage
<1>5. len \in Nat
  OBVIOUS
<1> HIDE DEF op, len
<1>6. TypedOp(op)
  BY <1>1, <1>5, LogPath DEF TypedOp
<1>7. ~failed'
  BY <1>1, <1>2, <1>4 DEF Truncate, Emit
<1>8. EmitsFitting(v, <<m>>)
  BY <1>1, <1>2, <1>6, <1>7, TruncateFits
<1>9. Marks' = Marks /\ v' = Replay(v, <<m>>)
  BY <1>8, EmitOnly
<1>10. /\ Kept(v') /\ KvLog \in DOMAIN PathTree(v)
       /\ PathTree(v') = WithData(PathTree(v), KvLog, Paths!Fit(PathTree(v)[KvLog].data, len))
  BY <1>4, <1>5, <1>9, LogPath, TruncateTree
<1>11. HoldsAll(ToTree(v'), n)
  <2> DEFINE d == LogIn(PathTree(v))
             w == Paths!Fit(d, len)
  <2>1. PathTree(v)[KvLog] = FileEntry(d)
    BY <1>3, LogIsFile DEF Kept
  <2>2. PathTree(v)[KvLog].data = d
    BY <2>1 DEF FileEntry
  <2>3. PathTree(v') = WithData(PathTree(v), KvLog, w)
    BY <1>10, <2>2
  <2>4. d \in Seq(Nat) /\ Len(d) = len + 4 /\ Recorded(d, n)
    BY <1>3 DEF Torn, len
  <2>5. w = [k \in 1..len |-> ByteAt(d, k)]
    BY <1>5, FitOf
  <2> HIDE DEF d
  <2>6. \A k \in 1..len : ByteAt(d, k) = d[k] /\ d[k] \in Nat
    BY <1>5, <2>4 DEF ByteAt
  <2> HIDE DEF w
  <2>7. w \in Seq(Nat) /\ Len(w) = len /\ \A k \in 1..len : w[k] = d[k]
    BY <1>5, <2>5, <2>6
  <2>8. ASSUME NEW j \in 0..(n - 1), NEW k \in 1..4 PROVE w[4 * j + k] = encode(value(j))[k]
    <3>1. 4 * j + k \in 1..len
      BY DEF len
    <3>2. d[4 * j + k] = encode(value(j))[k]
      BY <2>4 DEF Recorded
    <3> QED BY <2>7, <3>1, <3>2
  <2>9. Exact(w, n)
    BY <2>7, <2>8 DEF Exact, Recorded, len
  <2>10. ToTree(v') = LogTree(w)
    BY <1>3, <1>10, <2>3, KeptTree, LogChanged
  <2> QED BY <2>9, <2>10, LogTreeIs DEF HoldsAll
<1>12. AwaitsFsync(KvLog)'
  <2>1. OtherFile(v', v, ino)
    BY <1>4, <1>9, SizeRun
  <2>2. Treelike(v)
    BY DEF Kept
  <2>3. FileSet(v', v, ino, v'[ino])
    BY <1>4, <2>1, <2>2, FileLooks DEF OtherFile
  <2>4. Lookup(v', KvLog) = ino
    BY <2>3, LogPath DEF FileSet
  <2>5. FlushedWith(m) = ino
    BY DEF FlushedWith, IsData, SetLen
  <2> DEFINE ms == <<m>>
  <2>6. EmitsFitting(v, ms)
    BY <1>8
  <2>7. \A k \in 1..Len(ms) : FlushedWith(ms[k]) = Lookup(v', KvLog)
    <3>1. Len(ms) = 1 /\ ms[1] = m
      OBVIOUS
    <3> HIDE DEF m, ms
    <3> QED BY <2>4, <2>5, <3>1
  <2> HIDE DEF ms
  <2> QED BY <2>6, <2>7, EmitAwaits
<1>13. ASSUME NEW s, CrashKeeps(s)'
       PROVE  HoldsTorn(Materialize(Program', s), n) \/ HoldsAll(Materialize(Program', s), n)
  <2>1. CrashFs(Program', s) = v \/ CrashFs(Program', s) = Apply(v, m)
    <3> HIDE DEF m
    <3> QED BY <1>8, <1>13, OneCrash
  <2>2. Apply(v, m) = v'
    BY <1>9, ShortReplay
  <2> QED BY <1>11, <2>1, <2>2 DEF Materialize
<1> QED BY <1>7, <1>9, <1>10, <1>11, <1>12, <1>13

\* The marks after an iteration are those it has counted.
LEMMA MarksCount ==
    ASSUME TypeOK, NEW n \in Nat, marks_before' = Append(marks_before, n)
    PROVE  Marks' = n
<1>1. marks_before \in Seq(Nat)
  BY DEF TypeOK
<1>2. Len(Append(marks_before, n)) = Len(marks_before) + 1
      /\ Append(marks_before, n)[Len(marks_before) + 1] = n
  BY <1>1, AppendedNumber
<1>3. marks_before'[Len(marks_before')] = n
  BY <1>2
<1> QED BY <1>3 DEF Marks

\* fsync: all that waited for it is durable.
SyncOp(path) == [op |-> "fsync", path |-> path]

\* It finds its file, loses no other micro-op and counts no mark.
LEMMA FsyncDone ==
    ASSUME TypeOK, PendingOK, TypeOK', NEW path, AwaitsFsync(path), Lookup(v, path) # NoIno,
           CompileOp(SyncOp(path))
    PROVE  ~failed' /\ v' = v /\ AllDurable' /\ Marks' = Marks
<1> DEFINE op == SyncOp(path)
<1>1. op.op = "fsync" /\ op.path = path
  BY DEF SyncOp
<1> HIDE DEF op
<1>2. Fsync(op) /\ ~failed
  BY <1>1 DEF op, CompileOp, CreateOrMkdir, WriteOp, Truncate, RenameOp, UnlinkOrRmdir, Sync, Mark
<1>3. EndOp(Marks) /\ \E listed : Flush(listed)
  BY <1>1, <1>2 DEF Fsync
<1>4. ~failed' /\ marks_before' = Append(marks_before, Marks)
  BY <1>2, <1>3 DEF EndOp
<1>5. Marks' = Marks
  <2>1. Marks \in Nat
    BY TablesType
  <2> DEFINE n == Marks
  <2>2. n \in Nat /\ marks_before' = Append(marks_before, n)
    BY <1>4, <2>1
  <2> HIDE DEF n
  <2>3. Marks' = n
    BY <2>2, MarksCount
  <2> QED BY <2>3 DEF n
<1>6. CompileOp(op)
  BY DEF op
<1>7. /\ v' = v /\ DOMAIN micro' = DOMAIN micro
      /\ \A j \in DOMAIN micro :
            FlushedWith(micro[j].m) = Lookup(v, path) => j \in Durable(Program', CrashPoint')
  BY <1>1, <1>4, <1>6, FsyncIsDurable
<1>8. ASSUME NEW j \in DOMAIN micro' PROVE micro'[j].durable_at # NEVER
  <2>1. CASE micro[j].durable_at # NEVER
    <3>1. PICK listed : Flush(listed)
      BY <1>3
    <3>2. micro'[j].durable_at = IF j \in listed /\ micro[j].durable_at = NEVER
                                 THEN OpIndex ELSE micro[j].durable_at
      BY <1>7, <1>8, <3>1, FlushMicro
    <3> QED BY <2>1, <3>2
  <2>2. CASE micro[j].durable_at = NEVER
    <3>1. j \in Durable(Program', CrashPoint')
      BY <1>7, <1>8, <2>2 DEF AwaitsFsync
    <3>2. micro'[j].durable_at < OpIndex'
      BY <3>1 DEF Durable, Program, CrashPoint
    <3>3. Len(op_end') \in 1..(MaxOps + 1) /\ op_end' \in Seq(Nat)
      BY DEF TypeOK
    <3>4. OpIndex' = Len(op_end') - 1
      BY DEF OpIndex
    <3> QED BY <3>2, <3>3, <3>4, CompileAssumption DEF NEVER
  <2> QED BY <2>1, <2>2
<1> QED BY <1>4, <1>5, <1>7, <1>8 DEF AllDurable

\* mark: a put more is acknowledged.
MarkOp == [op |-> "mark"]

\* It leaves the image and what is durable.
LEMMA MarkDone ==
    ASSUME TypeOK, AllDurable, CompileOp(MarkOp)
    PROVE  ~failed' /\ v' = v /\ AllDurable' /\ Marks' = Marks + 1
<1> DEFINE op == MarkOp
<1>1. op.op = "mark"
  BY DEF MarkOp
<1> HIDE DEF op
<1>2. Mark(op) /\ ~failed
  BY <1>1 DEF op, CompileOp, CreateOrMkdir, WriteOp, Truncate, RenameOp, UnlinkOrRmdir, Sync, Fsync
<1>3. EndOp(Marks + 1) /\ micro' = micro
  BY <1>2 DEF Mark
<1>4. ~failed' /\ v' = v /\ marks_before' = Append(marks_before, Marks + 1)
  BY <1>2, <1>3 DEF EndOp
<1>5. Marks' = Marks + 1
  <2>1. Marks + 1 \in Nat
    BY TablesType
  <2> DEFINE n == Marks + 1
  <2>2. n \in Nat /\ marks_before' = Append(marks_before, n)
    BY <1>4, <2>1
  <2> HIDE DEF n
  <2>3. Marks' = n
    BY <2>2, MarksCount
  <2> QED BY <2>3 DEF n
<1> QED BY <1>3, <1>4, <1>5 DEF AllDurable

-----------------------------------------------------------------------------
(* The workload, op by op *)

\* Three more at the end of a sequence.
Join(s, t) == s \o t

IsJoin(w, s, t) ==
    /\ Len(w) = Len(s) + Len(t)
    /\ \A k \in 1..Len(s) : w[k] = s[k]
    /\ \A k \in 1..Len(t) : w[Len(s) + k] = t[k]

\* It has the elements of both, in turn.
LEMMA JoinIs ==
    ASSUME NEW S, NEW s \in Seq(S), NEW t \in Seq(S)
    PROVE  Join(s, t) \in Seq(S) /\ IsJoin(Join(s, t), s, t)
<1> DEFINE w == Join(s, t)
           n == Len(s)
<1>1. /\ w \in Seq(S) /\ Len(w) = n + Len(t)
      /\ \A k \in 1..(n + Len(t)) : w[k] = IF k <= n THEN s[k] ELSE t[k - n]
  BY ConcatProperties DEF Join
<1>2. n \in Nat /\ Len(t) \in Nat
  OBVIOUS
<1> HIDE DEF w, n
<1>3. \A k \in 1..n : w[k] = s[k]
  BY <1>1, <1>2
<1>4. ASSUME NEW k \in 1..Len(t) PROVE w[n + k] = t[k]
  <2>1. n + k \in 1..(n + Len(t)) /\ ~(n + k <= n) /\ (n + k) - n = k
    BY <1>2, <1>4
  <2> QED BY <1>1, <2>1
<1> QED BY <1>1, <1>3, <1>4 DEF w, n, IsJoin

\* A sequence to which three others are appended in turn.
Grows(f, b0, p) == f = [i \in 0..3 |-> IF i = 0 THEN b0 ELSE Join(f[i-1], p[i-1])]

\* There is one, and it ends with all of them.
LEMMA GrowsTo ==
    ASSUME NEW b0, NEW p, NEW b1, b1 = Join(b0, p[0]), NEW b2, b2 = Join(b1, p[1]),
           NEW b3, b3 = Join(b2, p[2])
    PROVE  (\E f : Grows(f, b0, p)) /\ \A f : Grows(f, b0, p) => f[3] = b3
<1>1. ASSUME NEW f, Grows(f, b0, p) PROVE f[3] = b3
  <2>1. \A i \in 0..3 : f[i] = IF i = 0 THEN b0 ELSE Join(f[i-1], p[i-1])
    BY <1>1 DEF Grows
  <2>2. f[0] = b0
    BY <2>1
  <2>3. f[1] = Join(f[0], p[0])
    BY <2>1
  <2>4. f[2] = Join(f[1], p[1])
    BY <2>1
  <2>5. f[3] = Join(f[2], p[2])
    BY <2>1
  <2>6. f[1] = b1
    BY <2>2, <2>3
  <2>7. f[2] = b2
    BY <2>4, <2>6
  <2> QED BY <2>5, <2>7
<1>2. \E f : Grows(f, b0, p)
  <2> DEFINE g == [i \in 0..3 |-> IF i = 0 THEN b0 ELSE IF i = 1 THEN b1 ELSE IF i = 2 THEN b2 ELSE b3]
  <2>1. g[0] = b0 /\ g[1] = b1 /\ g[2] = b2 /\ g[3] = b3 /\ g = [i \in 0..3 |-> g[i]]
    OBVIOUS
  <2> HIDE DEF g
  <2>2. ASSUME NEW i \in 0..3
        PROVE  g[i] = IF i = 0 THEN b0 ELSE Join(g[i-1], p[i-1])
    <3>1. i = 0 \/ i = 1 \/ i = 2 \/ i = 3
      BY <2>2
    <3>2. CASE i = 0
      BY <2>1, <3>2
    <3>3. CASE i = 1
      <4>1. g[i] = Join(b0, p[0]) /\ i - 1 = 0 /\ i # 0
        BY <2>1, <3>3
      <4> QED BY <2>1, <4>1
    <3>4. CASE i = 2
      <4>1. g[i] = Join(b1, p[1]) /\ i - 1 = 1 /\ i # 0
        BY <2>1, <3>4
      <4> QED BY <2>1, <4>1
    <3>5. CASE i = 3
      <4>1. g[i] = Join(b2, p[2]) /\ i - 1 = 2 /\ i # 0
        BY <2>1, <3>5
      <4> QED BY <2>1, <4>1
    <3> QED BY <3>1, <3>2, <3>3, <3>4, <3>5
  <2> QED BY <2>1, <2>2 DEF Grows
<1> QED BY <1>1, <1>2

\* A put is written, synced and acknowledged.
LEMMA PutIs ==
    ASSUME FixedLog, NEW i \in Nat
    PROVE  Put(i) = <<PutOp(i), SyncOp(KvLog), MarkOp>>
<1>1. header + 2 = 4
  BY EncodedIs
<1>2. i * (header + 2) = i * 4
  BY <1>1
<1> QED BY <1>2 DEF Put, PutOp, SyncOp, MarkOp

\* The log is opened first, then put after put is done.
Flows(s, n) ==
    /\ Len(s) = 3 * n + 2 /\ s[1] = CreateLog /\ s[2] = SyncOp(<<>>)
    /\ \A i \in 0..(n - 1) : /\ s[3 * i + 3] = PutOp(i) /\ s[3 * i + 4] = SyncOp(KvLog)
                             /\ s[3 * i + 5] = MarkOp

\* One more put goes on behind them.
LEMMA FlowsOn ==
    ASSUME FixedLog, NEW n \in Nat, NEW S, NEW s \in Seq(S), Flows(s, n),
           NEW t \in Seq(S), t = <<PutOp(n), SyncOp(KvLog), MarkOp>>
    PROVE  Join(s, t) \in Seq(S) /\ Flows(Join(s, t), n + 1)
<1> DEFINE w == Join(s, t)
           a == PutOp(n)
           b == SyncOp(KvLog)
           m == 3 * n + 2
<1>1. Len(t) = 3 /\ t[1] = a /\ t[2] = b /\ t[3] = MarkOp
  <2> HIDE DEF a, b
  <2>1. t = <<a, b, MarkOp>>
    BY DEF a, b
  <2> QED BY <2>1
<1>2. Len(s) = m /\ m \in Nat
  BY DEF Flows
<1>3. /\ w \in Seq(S) /\ Len(w) = m + 3 /\ \A k \in 1..m : w[k] = s[k]
      /\ \A k \in 1..3 : w[m + k] = t[k]
  <2>1. w \in Seq(S) /\ IsJoin(w, s, t)
    BY JoinIs
  <2> HIDE DEF w, m
  <2>2. Len(t) = 3 /\ Len(s) = m
    BY <1>1, <1>2
  <2> QED BY <2>1, <2>2 DEF IsJoin
<1> HIDE DEF w
<1>4. w[1] = CreateLog /\ w[2] = SyncOp(<<>>)
  <2>1. 1 \in 1..m /\ 2 \in 1..m
    OBVIOUS
  <2> HIDE DEF m
  <2> QED BY <1>3, <2>1 DEF Flows
<1>5. ASSUME NEW i \in 0..((n + 1) - 1)
      PROVE  w[3 * i + 3] = PutOp(i) /\ w[3 * i + 4] = SyncOp(KvLog) /\ w[3 * i + 5] = MarkOp
  <2>1. CASE i = n
    <3>1. w[m + 1] = a /\ w[m + 2] = b /\ w[m + 3] = MarkOp
      BY <1>1, <1>3
    <3>2. m + 1 = 3 * i + 3 /\ m + 2 = 3 * i + 4 /\ m + 3 = 3 * i + 5
      BY <2>1
    <3> QED BY <2>1, <3>1, <3>2
  <2>2. CASE i # n
    <3>1. i \in 0..(n - 1) /\ 3 * i + 3 \in 1..m /\ 3 * i + 4 \in 1..m /\ 3 * i + 5 \in 1..m
      BY <2>2
    <3>2. s[3 * i + 3] = PutOp(i) /\ s[3 * i + 4] = SyncOp(KvLog) /\ s[3 * i + 5] = MarkOp
      BY <3>1 DEF Flows
    <3> QED BY <1>3, <3>1, <3>2
  <2> QED BY <2>1, <2>2
<1>6. Len(w) = 3 * (n + 1) + 2
  BY <1>3
<1> QED BY <1>3, <1>4, <1>5, <1>6 DEF Flows, w

\* That is the workload.
LEMMA WorkloadIs ==
    ASSUME FixedLog
    PROVE  (\E S : workload \in Seq(S)) /\ Flows(workload, PUTS)
<1> DEFINE p == [i \in 0..2 |-> Put(i)]
           b1 == Join(Opened, p[0])
           b2 == Join(b1, p[1])
           b3 == Join(b2, p[2])
           Unrolled(f) == f = [i \in 0..PUTS |-> IF i = 0 THEN Opened ELSE f[i-1] \o Put(i - 1)]
           S == {CreateLog, SyncOp(<<>>), PutOp(0), PutOp(1), PutOp(2), SyncOp(KvLog), MarkOp}
<1>1. workload = (CHOOSE f : Unrolled(f))[PUTS]
  BY DEF workload
<1>2. ASSUME NEW f PROVE Unrolled(f) <=> Grows(f, Opened, p)
  <2>1. Unrolled(f) <=> f = [i \in 0..3 |-> IF i = 0 THEN Opened ELSE Join(f[i-1], Put(i - 1))]
    BY DEF Join, PUTS
  <2>2. \A i \in 0..3 : i # 0 => p[i-1] = Put(i-1)
    OBVIOUS
  <2> HIDE DEF p, Unrolled
  <2>3. [i \in 0..3 |-> IF i = 0 THEN Opened ELSE Join(f[i-1], Put(i - 1))]
          = [i \in 0..3 |-> IF i = 0 THEN Opened ELSE Join(f[i-1], p[i - 1])]
    BY <2>2
  <2> QED BY <2>1, <2>3 DEF Grows
<1>3. p[0] = Put(0) /\ p[1] = Put(1) /\ p[2] = Put(2)
  OBVIOUS
<1> HIDE DEF p, Unrolled
<1>4. (\E f : Grows(f, Opened, p)) /\ \A f : Grows(f, Opened, p) => f[3] = b3
  BY GrowsTo
<1>5. workload = b3
  BY <1>1, <1>2, <1>4 DEF PUTS
<1>6. Opened \in Seq(S) /\ Flows(Opened, 0)
  <2> DEFINE x == <<CreateLog>>
             y == <<SyncOp(<<>>)>>
             c == CreateLog
             d == SyncOp(<<>>)
  <2>1. Opened = Join(x, y)
    BY DEF Opened, FixedLog, CreateLog, SyncOp, Join
  <2>2. c \in S /\ d \in S
    OBVIOUS
  <2> HIDE DEF c, d, S
  <2>3. x = <<c>> /\ y = <<d>>
    BY DEF c, d
  <2>4. x \in Seq(S) /\ y \in Seq(S) /\ Len(x) = 1 /\ Len(y) = 1 /\ x[1] = c /\ y[1] = d
    <3> HIDE DEF x, y
    <3> QED BY <2>2, <2>3
  <2> HIDE DEF x, y
  <2> DEFINE o == Opened
  <2>5. /\ o \in Seq(S) /\ Len(o) = 1 + 1 /\ \A k \in 1..1 : o[k] = x[k]
        /\ \A k \in 1..1 : o[1 + k] = y[k]
    <3>1. o \in Seq(S) /\ IsJoin(o, x, y)
      BY <2>1, <2>4, JoinIs
    <3> HIDE DEF o
    <3>2. Len(x) = 1 /\ Len(y) = 1
      BY <2>4
    <3> QED BY <3>1, <3>2 DEF IsJoin
  <2> HIDE DEF o
  <2>6. o[1] = c /\ o[2] = d /\ Len(o) = 3 * 0 + 2
    BY <2>4, <2>5
  <2> QED BY <2>5, <2>6 DEF Flows, c, d, o
<1>7. ASSUME NEW n \in 0..2
      PROVE  p[n] \in Seq(S) /\ p[n] = <<PutOp(n), SyncOp(KvLog), MarkOp>>
  <2> DEFINE a == PutOp(n)
             b == SyncOp(KvLog)
  <2>1. p[n] = <<a, b, MarkOp>>
    <3>1. p[n] = Put(n)
      BY DEF p
    <3> QED BY <3>1, PutIs
  <2>2. a \in S /\ b \in S /\ MarkOp \in S
    <3>1. n = 0 \/ n = 1 \/ n = 2
      BY <1>7
    <3> QED BY <3>1
  <2> HIDE DEF a, b, S
  <2>3. <<a, b, MarkOp>> \in Seq(S)
    BY <2>2
  <2> QED BY <2>1, <2>3 DEF a, b
<1> HIDE DEF S, b1, b2, b3
<1>8. b1 \in Seq(S) /\ Flows(b1, 0 + 1)
  <2>1. 0 \in 0..2 /\ 0 \in Nat
    OBVIOUS
  <2>2. p[0] \in Seq(S) /\ p[0] = <<PutOp(0), SyncOp(KvLog), MarkOp>>
    BY <1>7, <2>1
  <2> DEFINE t == p[0]
             o == Opened
             z == 0
  <2>3. t \in Seq(S) /\ t = <<PutOp(z), SyncOp(KvLog), MarkOp>> /\ o \in Seq(S) /\ Flows(o, z)
    BY <1>6, <2>2
  <2>4. z \in Nat
    OBVIOUS
  <2> HIDE DEF t, o, z
  <2>5. Join(o, t) \in Seq(S) /\ Flows(Join(o, t), z + 1)
    BY <2>3, <2>4, FlowsOn
  <2> QED BY <2>5 DEF b1, o, t, z
<1>9. b2 \in Seq(S) /\ Flows(b2, 1 + 1)
  <2>1. 0 + 1 = 1 /\ 1 \in 0..2 /\ 1 \in Nat
    OBVIOUS
  <2> QED BY <1>7, <1>8, <2>1, FlowsOn DEF b2
<1>10. b3 \in Seq(S) /\ Flows(b3, 2 + 1)
  <2>1. 1 + 1 = 2 /\ 2 \in 0..2 /\ 2 \in Nat
    OBVIOUS
  <2> QED BY <1>7, <1>9, <2>1, FlowsOn DEF b3
<1>11. 2 + 1 = PUTS
  BY DEF PUTS
<1> QED BY <1>5, <1>10, <1>11

\* What is left of a sequence after its first k elements.
LEMMA RestOf ==
    ASSUME NEW S, NEW s \in Seq(S), NEW k \in 0..(Len(s) - 1)
    PROVE  /\ SubSeq(s, k + 1, Len(s)) # <<>> /\ SubSeq(s, k + 1, Len(s))[1] = s[k + 1]
           /\ Tail(SubSeq(s, k + 1, Len(s))) = SubSeq(s, (k + 1) + 1, Len(s))
<1> DEFINE n == Len(s)
           a == SubSeq(s, k + 1, n)
           b == SubSeq(s, (k + 1) + 1, n)
<1>1. n \in Nat /\ k \in Nat /\ k < n /\ \A i \in 1..n : s[i] \in S
  OBVIOUS
<1> HIDE DEF n
<1>2. a \in Seq(S) /\ Len(a) = n - k /\ \A i \in 1..(n - k) : a[i] = s[k + i]
  <2>1. k + 1 \in Int /\ n \in Int /\ \A i \in (k + 1)..n : s[i] \in S
    BY <1>1
  <2>2. /\ a \in Seq(S) /\ Len(a) = IF k + 1 <= n THEN n - (k + 1) + 1 ELSE 0
        /\ \A i \in 1 .. n - (k + 1) + 1 : a[i] = s[(k + 1) + i - 1]
    BY <2>1, SubSeqProperties
  <2> HIDE DEF a
  <2> QED BY <1>1, <2>2
<1>3. b \in Seq(S) /\ Len(b) = (n - k) - 1 /\ \A i \in 1..((n - k) - 1) : b[i] = s[k + (i + 1)]
  <2>1. (k + 1) + 1 \in Int /\ n \in Int /\ \A i \in ((k + 1) + 1)..n : s[i] \in S
    BY <1>1
  <2>2. /\ b \in Seq(S) /\ Len(b) = IF (k + 1) + 1 <= n THEN n - ((k + 1) + 1) + 1 ELSE 0
        /\ \A i \in 1 .. n - ((k + 1) + 1) + 1 : b[i] = s[((k + 1) + 1) + i - 1]
    BY <2>1, SubSeqProperties
  <2> HIDE DEF b
  <2> QED BY <1>1, <2>2
<1> HIDE DEF a, b
<1>4. a # <<>> /\ a[1] = s[k + 1]
  BY <1>1, <1>2
<1>5. Tail(a) \in Seq(S) /\ Len(Tail(a)) = Len(a) - 1 /\ \A i \in 1..Len(Tail(a)) : Tail(a)[i] = a[i + 1]
  BY <1>2, <1>4, HeadTailProperties
<1> DEFINE t == Tail(a)
<1> HIDE DEF t
<1>6. Len(t) = Len(b) /\ \A i \in 1..Len(t) : t[i] = b[i]
  BY <1>1, <1>2, <1>3, <1>5 DEF t
<1>7. t = b
  BY <1>3, <1>5, <1>6, SameSeq DEF t
<1> QED BY <1>4, <1>7 DEF a, b, n, t

\* While ops are left the next one is the next of the workload.
LEMMA NextOp ==
    ASSUME FixedLog, NEW k \in 0..10, Done(k)
    PROVE  /\ todo # <<>> /\ todo[1] = workload[k + 1]
           /\ todo' = Tail(todo) => Done(k + 1)'
<1> DEFINE s == workload
<1>1. PICK S : s \in Seq(S)
  BY WorkloadIs
<1>2. Len(s) = 11
  BY WorkloadIs DEF Flows, PUTS
<1>3. todo = SubSeq(s, k + 1, Len(s))
  BY DEF Done
<1> HIDE DEF s
<1>4. k \in 0..(Len(s) - 1)
  BY <1>2
<1>5. /\ SubSeq(s, k + 1, Len(s)) # <<>> /\ SubSeq(s, k + 1, Len(s))[1] = s[k + 1]
      /\ Tail(SubSeq(s, k + 1, Len(s))) = SubSeq(s, (k + 1) + 1, Len(s))
  BY <1>1, <1>4, RestOf
<1>6. todo' = Tail(todo) => Done(k + 1)'
  BY <1>3, <1>5 DEF Done, s
<1> QED BY <1>3, <1>5, <1>6 DEF s

\* After its eleven ops nothing is left.
LEMMA NoMoreOps ==
    ASSUME FixedLog, Done(11)
    PROVE  todo = <<>>
<1>1. Len(workload) = 11
  BY WorkloadIs DEF Flows, PUTS
<1>2. todo = SubSeq(workload, 11 + 1, 11)
  BY <1>1 DEF Done
<1> DEFINE s == workload
<1> HIDE DEF s
<1>3. SubSeq(s, 11 + 1, 11) = <<>>
  BY SubSeqEmpty
<1> QED BY <1>2, <1>3 DEF s

\* The log can be synced once it is there.
LEMMA LogSynced ==
    ASSUME FixedLog, Kept(v), NEW n, HoldsAll(ToTree(v), n)
    PROVE  Lookup(v, KvLog) # NoIno
<1>1. IsLog(PathTree(v))
  BY KeptTree DEF HoldsAll
<1>2. IsFile(v, Lookup(v, KvLog))
  BY <1>1, LogInImage
<1> QED BY <1>2 DEF IsFile

-----------------------------------------------------------------------------
(* Each op keeps the invariant *)

\* compile's tables are sound, the log is where the workload or the repair
\* should be, and a crash now leaves it so that repair gets it right.
WalInv ==
    /\ TypeOK /\ PendingOK /\ ImageOK /\ ~failed /\ Kept(v)
    /\ Working \/ Repairing
    /\ CrashesGood

\* The ops of the workload and of a repair are typed.
WalOp(op) ==
    \/ op = CreateLog \/ op = SyncOp(<<>>) \/ op = SyncOp(KvLog) \/ op = MarkOp
    \/ \E i \in Nat : op = PutOp(i) \/ op = CutTo(i)

\* Their paths, offsets and bytes are what compile reads.
LEMMA WalOpsTyped ==
    ASSUME FixedLog, NEW op, WalOp(op)
    PROVE  TypedOp(op)
<1>1. KvLog \in Seq(Names) /\ <<>> \in Seq(Names)
  BY LogPath
<1>2. CASE op = CreateLog
  BY <1>1, <1>2 DEF CreateLog, TypedOp
<1>3. CASE op = SyncOp(<<>>)
  <2>1. op.op = "fsync" /\ op.path = <<>>
    BY <1>3 DEF SyncOp
  <2> QED BY <1>1, <2>1 DEF TypedOp
<1>4. CASE op = SyncOp(KvLog)
  BY <1>1, <1>4 DEF SyncOp, TypedOp
<1>5. CASE op = MarkOp
  BY <1>5 DEF MarkOp, TypedOp
<1>6. ASSUME NEW i \in Nat, op = PutOp(i) PROVE TypedOp(op)
  <2> DEFINE e == encode(value(i))
             o == i * 4
  <2>1. o \in Nat /\ e \in Seq(Nat)
    BY EncodedIs
  <2>2. op.op = "write" /\ op.path = KvLog /\ op.offset = o /\ op.data = e
    BY <1>6 DEF PutOp
  <2> HIDE DEF e, o
  <2> QED BY <1>1, <2>1, <2>2 DEF TypedOp
<1>7. ASSUME NEW i \in Nat, op = CutTo(i) PROVE TypedOp(op)
  <2>1. op.op = "truncate" /\ op.path = KvLog /\ op.len = 4 * i /\ 4 * i \in Nat
    BY <1>7 DEF CutTo
  <2> QED BY <1>1, <2>1 DEF TypedOp
<1> QED BY <1>2, <1>3, <1>4, <1>5, <1>6, <1>7 DEF WalOp

\* So they keep compile's tables.
LEMMA TablesStay ==
    ASSUME FixedLog, TypeOK, PendingOK, ImageOK, NEW op, WalOp(op), CompileOp(op)
    PROVE  TypeOK' /\ PendingOK' /\ ImageOK'
<1>1. TypedOp(op)
  BY WalOpsTyped
<1>2. PlacesData(op)
  BY <1>1 DEF TypedOp, PlacesData
<1>3. OpFits
  BY <1>1, IterationFits
<1> QED BY <1>2, <1>3, OpKeeps, FittingKeepsImage

\* What is left to show of a step.
StepGood == ~failed' /\ Kept(v') /\ (Working \/ Repairing)' /\ CrashesGood'

\* After an op that emits, what a crash keeps decides.
LEMMA LoudStep ==
    ASSUME CrashRules', TypeOK',
           \A s : CrashKeeps(s)' => Good(Materialize(Program', s), Acknowledged')
    PROVE  CrashesGood'
  BY DEF CrashRules, CrashesGood

\* When nothing is in flight the view does.
LEMMA QuietStepGood ==
    ASSUME CrashRules', TypeOK', ImageOK', AllDurable', Good(ToTree(v'), Acknowledged')
    PROVE  CrashesGood'
  BY DEF CrashRules

\* Creating the log and syncing its directory.
LEMMA OpeningStep ==
    ASSUME FixedLog, TypeOK, PendingOK, ImageOK, ~failed, Kept(v), ~repairing, Opening,
           Op, CrashRules'
    PROVE  TypeOK' /\ PendingOK' /\ ImageOK' /\ StepGood
<1>1. CompileOp(todo[1]) /\ todo' = Tail(todo) /\ repairing' = repairing /\ acked' = acked
  BY DEF Op
<1>2. Marks = 0 /\ Acknowledged' = Marks'
  BY <1>1 DEF Opening, Acknowledged
<1>3. CASE Done(0) /\ AllDurable /\ IsEmpty(ToTree(v))
  <2>1. todo[1] = CreateLog /\ Done(1)'
    <3>1. todo[1] = workload[0 + 1] /\ Done(0 + 1)'
      BY <1>1, <1>3, NextOp
    <3> QED BY <3>1, WorkloadIs DEF Flows
  <2>2. CompileOp(CreateLog)
    BY <1>1, <2>1
  <2>3. TypeOK' /\ PendingOK' /\ ImageOK'
    BY <2>2, TablesStay DEF WalOp
  <2>4. /\ ~failed' /\ Kept(v') /\ HoldsAll(ToTree(v'), 0) /\ AwaitsFsync(<<>>)' /\ Marks' = Marks
        /\ \A s : CrashKeeps(s)' => \/ IsEmpty(Materialize(Program', s))
                                    \/ HoldsAll(Materialize(Program', s), 0)
    BY <1>3, <2>2, CreateDone
  <2>5. Acknowledged' = 0 /\ 0 \in 0..PUTS
    BY <1>2, <2>4 DEF PUTS
  <2>6. CrashesGood'
    <3>1. \A s : CrashKeeps(s)' => Good(Materialize(Program', s), Acknowledged')
      BY <2>4, <2>5 DEF Good
    <3> QED BY <2>3, <3>1, LoudStep
  <2>7. Opening' /\ ~repairing'
    BY <1>1, <1>2, <2>1, <2>4 DEF Opening
  <2> QED BY <2>3, <2>4, <2>6, <2>7 DEF StepGood, Working
<1>4. CASE Done(1) /\ AwaitsFsync(<<>>) /\ HoldsAll(ToTree(v), 0)
  <2>1. todo[1] = SyncOp(<<>>) /\ Done(2)'
    <3>1. todo[1] = workload[1 + 1] /\ Done(1 + 1)'
      BY <1>1, <1>4, NextOp
    <3> QED BY <3>1, WorkloadIs DEF Flows
  <2>2. CompileOp(SyncOp(<<>>))
    BY <1>1, <2>1
  <2>3. TypeOK' /\ PendingOK' /\ ImageOK'
    BY <2>2, TablesStay DEF WalOp
  <2>4. Lookup(v, <<>>) # NoIno
    BY LookupRoot DEF Root, NoIno
  <2>5. ~failed' /\ v' = v /\ AllDurable' /\ Marks' = Marks
    BY <1>4, <2>2, <2>3, <2>4, FsyncDone
  <2>6. Kept(v') /\ HoldsAll(ToTree(v'), 0)
    BY <1>4, <2>5
  <2>7. Acknowledged' = 0 /\ 0 \in 0..PUTS
    BY <1>2, <2>5 DEF PUTS
  <2>8. CrashesGood'
    <3>1. Good(ToTree(v'), Acknowledged')
      BY <2>6, <2>7 DEF Good
    <3> QED BY <2>3, <2>5, <3>1, QuietStepGood
  <2>9. Putting(0)' /\ ~repairing'
    <3>1. 3 * 0 + 2 = 2
      OBVIOUS
    <3> QED BY <1>1, <1>2, <2>1, <2>5, <2>6, <3>1 DEF Putting
  <2> QED BY <2>3, <2>5, <2>6, <2>7, <2>8, <2>9 DEF StepGood, Working
<1> QED BY <1>3, <1>4 DEF Opening

\* Writing, syncing and acknowledging a put.
LEMMA PuttingStep ==
    ASSUME FixedLog, TypeOK, PendingOK, ImageOK, ~failed, Kept(v), ~repairing,
           NEW i \in 0..PUTS, Putting(i), Op, CrashRules'
    PROVE  TypeOK' /\ PendingOK' /\ ImageOK' /\ StepGood
<1>1. CompileOp(todo[1]) /\ todo' = Tail(todo) /\ repairing' = repairing /\ todo # <<>>
  BY DEF Op
<1>2. Marks = i /\ Acknowledged' = Marks' /\ i \in Nat
  BY <1>1 DEF Putting, Acknowledged, PUTS
<1>p. i < PUTS => i \in 0..(PUTS - 1) /\ 3 * i + 2 \in 0..10 /\ 3 * i + 3 \in 0..10 /\ 3 * i + 4 \in 0..10
                  /\ i + 1 \in 0..PUTS /\ i \in i..PUTS /\ i + 1 \in i..PUTS /\ i + 1 \in (i + 1)..PUTS
  BY <1>2 DEF PUTS
<1>3. CASE Done(3 * i + 2) /\ AllDurable /\ HoldsAll(ToTree(v), i)
  <2>1. i < PUTS
    <3>1. CASE i = PUTS
      <4>1. 3 * i + 2 = 11
        BY <3>1 DEF PUTS
      <4> QED BY <1>1, <1>3, <4>1, NoMoreOps
    <3> QED BY <3>1 DEF PUTS
  <2>2. todo[1] = PutOp(i) /\ Done(3 * i + 3)'
    <3> DEFINE k == 3 * i + 2
    <3>1. k \in 0..10 /\ Done(k) /\ k + 1 = 3 * i + 3
      BY <1>2, <1>3, <1>p, <2>1
    <3>2. workload[3 * i + 3] = PutOp(i)
      BY <1>p, <2>1, WorkloadIs DEF Flows
    <3> HIDE DEF k
    <3>3. todo[1] = workload[k + 1] /\ Done(k + 1)'
      BY <1>1, <3>1, NextOp
    <3> QED BY <3>1, <3>2, <3>3
  <2>3. CompileOp(PutOp(i))
    BY <1>1, <2>2
  <2>4. TypeOK' /\ PendingOK' /\ ImageOK'
    BY <1>2, <2>3, TablesStay DEF WalOp
  <2>5. /\ ~failed' /\ Kept(v') /\ HoldsAll(ToTree(v'), i + 1) /\ AwaitsFsync(KvLog)' /\ Marks' = Marks
        /\ \A s : CrashKeeps(s)' => \/ HoldsAll(Materialize(Program', s), i)
                                    \/ HoldsTorn(Materialize(Program', s), i)
    BY <1>2, <1>3, <2>3, WriteDone
  <2>6. CrashesGood'
    <3>1. \A s : CrashKeeps(s)' => Good(Materialize(Program', s), Acknowledged')
      BY <1>2, <1>p, <2>1, <2>5 DEF Good
    <3> QED BY <2>4, <3>1, LoudStep
  <2>7. Putting(i)' /\ ~repairing'
    BY <1>1, <1>2, <2>1, <2>2, <2>5 DEF Putting
  <2> QED BY <2>4, <2>5, <2>6, <2>7 DEF StepGood, Working
<1>4. CASE i < PUTS /\ Done(3 * i + 3) /\ AwaitsFsync(KvLog) /\ HoldsAll(ToTree(v), i + 1)
  <2>2. todo[1] = SyncOp(KvLog) /\ Done(3 * i + 4)'
    <3> DEFINE k == 3 * i + 3
    <3>1. k \in 0..10 /\ Done(k) /\ k + 1 = 3 * i + 4
      BY <1>2, <1>4, <1>p
    <3>2. workload[3 * i + 4] = SyncOp(KvLog)
      BY <1>p, <1>4, WorkloadIs DEF Flows
    <3> HIDE DEF k
    <3>3. todo[1] = workload[k + 1] /\ Done(k + 1)'
      BY <1>1, <3>1, NextOp
    <3> QED BY <3>1, <3>2, <3>3
  <2>3. CompileOp(SyncOp(KvLog))
    BY <1>1, <2>2
  <2>4. TypeOK' /\ PendingOK' /\ ImageOK'
    BY <2>3, TablesStay DEF WalOp
  <2>5. ~failed' /\ v' = v /\ AllDurable' /\ Marks' = Marks
    BY <1>4, <2>3, <2>4, LogSynced, FsyncDone
  <2>6. Kept(v') /\ HoldsAll(ToTree(v'), i + 1)
    BY <1>4, <2>5
  <2>7. CrashesGood'
    <3>1. Good(ToTree(v'), Acknowledged')
      BY <1>2, <1>4, <1>p, <2>5, <2>6 DEF Good
    <3> QED BY <2>4, <2>5, <3>1, QuietStepGood
  <2>8. Putting(i)' /\ ~repairing'
    BY <1>1, <1>2, <1>4, <2>2, <2>5, <2>6 DEF Putting
  <2> QED BY <2>4, <2>5, <2>6, <2>7, <2>8 DEF StepGood, Working
<1>5. CASE i < PUTS /\ Done(3 * i + 4) /\ AllDurable /\ HoldsAll(ToTree(v), i + 1)
  <2>2. todo[1] = MarkOp /\ Done(3 * (i + 1) + 2)'
    <3> DEFINE k == 3 * i + 4
    <3>1. k \in 0..10 /\ Done(k) /\ k + 1 = 3 * i + 5 /\ k + 1 = 3 * (i + 1) + 2
      BY <1>2, <1>5, <1>p
    <3>2. workload[3 * i + 5] = MarkOp
      BY <1>p, <1>5, WorkloadIs DEF Flows
    <3> HIDE DEF k
    <3>3. todo[1] = workload[k + 1] /\ Done(k + 1)'
      BY <1>1, <3>1, NextOp
    <3> QED BY <3>1, <3>2, <3>3
  <2>3. CompileOp(MarkOp)
    BY <1>1, <2>2
  <2>4. TypeOK' /\ PendingOK' /\ ImageOK'
    BY <2>3, TablesStay DEF WalOp
  <2>5. ~failed' /\ v' = v /\ AllDurable' /\ Marks' = Marks + 1
    BY <1>5, <2>3, MarkDone
  <2>6. Kept(v') /\ HoldsAll(ToTree(v'), i + 1)
    BY <1>5, <2>5
  <2>7. CrashesGood'
    <3>1. Good(ToTree(v'), Acknowledged')
      BY <1>2, <1>5, <1>p, <2>5, <2>6 DEF Good
    <3> QED BY <2>4, <2>5, <3>1, QuietStepGood
  <2>8. Putting(i + 1)' /\ ~repairing' /\ i + 1 \in 0..PUTS
    BY <1>1, <1>2, <1>5, <1>p, <2>2, <2>5, <2>6 DEF Putting
  <2> QED BY <2>4, <2>5, <2>6, <2>7, <2>8 DEF StepGood, Working
<1> QED BY <1>3, <1>4, <1>5 DEF Putting

\* What a repair does: it cuts the log and syncs it.
LEMMA TruncationIs ==
    ASSUME NEW n
    PROVE  /\ Truncation(<<>>, 4 * n) # <<>> /\ Truncation(<<>>, 4 * n)[1] = CutTo(n)
           /\ Tail(Truncation(<<>>, 4 * n)) # <<>> /\ Tail(Truncation(<<>>, 4 * n))[1] = SyncOp(KvLog)
           /\ Tail(Tail(Truncation(<<>>, 4 * n))) = <<>>
<1> DEFINE a == CutTo(n)
           b == SyncOp(KvLog)
           t == Truncation(<<>>, 4 * n)
<1>1. t = <<a, b>>
  BY DEF Truncation, CutTo, SyncOp
<1> HIDE DEF a, b, t
<1>2. t # <<>> /\ t[1] = a /\ Tail(t) = <<b>>
  BY <1>1
<1>3. Tail(t) # <<>> /\ Tail(t)[1] = b /\ Tail(Tail(t)) = <<>>
  <2> DEFINE u == Tail(t)
  <2>1. u = <<b>>
    BY <1>2
  <2> HIDE DEF u
  <2>2. u # <<>> /\ u[1] = b /\ Tail(u) = <<>>
    BY <2>1
  <2> QED BY <2>2 DEF u
<1> QED BY <1>2, <1>3 DEF a, b, t

\* A repair's ops.
LEMMA RepairStep ==
    ASSUME FixedLog, TypeOK, PendingOK, ImageOK, ~failed, Kept(v), Repairing, Op, CrashRules'
    PROVE  TypeOK' /\ PendingOK' /\ ImageOK' /\ StepGood
<1>1. /\ CompileOp(todo[1]) /\ todo' = Tail(todo) /\ repairing' /\ acked' = acked
      /\ acked \in 0..PUTS /\ todo # <<>> /\ Acknowledged' = acked
  BY DEF Op, Repairing, Acknowledged
<1>2. PICK n \in acked..PUTS : Mending(n)
  BY <1>1 DEF Repairing
<1>3. n \in Nat
  BY <1>1 DEF PUTS
<1>4. CASE n < PUTS /\ todo = Truncation(<<>>, 4 * n) /\ AllDurable /\ HoldsTorn(ToTree(v), n)
  <2>1. CompileOp(CutTo(n))
    BY <1>1, <1>4, TruncationIs
  <2>2. TypeOK' /\ PendingOK' /\ ImageOK'
    BY <1>3, <2>1, TablesStay DEF WalOp
  <2>3. /\ ~failed' /\ Kept(v') /\ HoldsAll(ToTree(v'), n) /\ AwaitsFsync(KvLog)'
        /\ \A s : CrashKeeps(s)' => \/ HoldsTorn(Materialize(Program', s), n)
                                    \/ HoldsAll(Materialize(Program', s), n)
    BY <1>3, <1>4, <2>1, TruncateDone
  <2>4. CrashesGood'
    <3>1. \A s : CrashKeeps(s)' => Good(Materialize(Program', s), Acknowledged')
      BY <1>1, <1>4, <2>3 DEF Good
    <3> QED BY <2>2, <3>1, LoudStep
  <2>5. Mending(n)'
    BY <1>1, <1>4, <2>3 DEF Mending
  <2>6. Repairing'
    BY <1>1, <2>5 DEF Repairing
  <2> QED BY <2>2, <2>3, <2>4, <2>6 DEF StepGood
<1>5. CASE todo = Tail(Truncation(<<>>, 4 * n)) /\ AwaitsFsync(KvLog) /\ HoldsAll(ToTree(v), n)
  <2>1. CompileOp(SyncOp(KvLog)) /\ todo' = <<>>
    BY <1>1, <1>5, TruncationIs
  <2>2. TypeOK' /\ PendingOK' /\ ImageOK'
    BY <2>1, TablesStay DEF WalOp
  <2>3. ~failed' /\ v' = v /\ AllDurable'
    BY <1>5, <2>1, <2>2, LogSynced, FsyncDone
  <2>4. Kept(v') /\ HoldsAll(ToTree(v'), n)
    BY <1>5, <2>3
  <2>5. CrashesGood'
    <3>1. Good(ToTree(v'), Acknowledged')
      BY <1>1, <2>4 DEF Good
    <3> QED BY <2>2, <2>3, <3>1, QuietStepGood
  <2>6. Mending(n)'
    BY <2>1, <2>3, <2>4 DEF Mending
  <2>7. Repairing'
    BY <1>1, <2>6 DEF Repairing
  <2> QED BY <2>2, <2>3, <2>4, <2>5, <2>7 DEF StepGood
<1> QED BY <1>1, <1>2, <1>4, <1>5 DEF Mending

-----------------------------------------------------------------------------
(* The power cut *)

\* A crash state of the log is a directory.
LEMMA GoodIsSnapshot ==
    ASSUME FixedLog, NEW a, NEW tree, Good(tree, a), tree = [p \in DOMAIN tree |-> tree[p]]
    PROVE  /\ IsFiniteSet(DOMAIN tree) /\ DOMAIN tree \subseteq Seq(Names) /\ IsSnapshot(tree)
           /\ \A p \in DOMAIN tree : tree[p].kind # "dir" => tree[p].data \in Seq(Nat)
<1>1. CASE DOMAIN tree = {}
  BY <1>1, FS_EmptySet DEF IsSnapshot
<1>2. CASE DOMAIN tree # {}
  <2> DEFINE d == LogIn(tree)
  <2>1. tree = LogTree(d) /\ d \in Seq(Nat)
    BY <1>2 DEF Good, IsEmpty, HoldsAll, HoldsTorn, IsLog, Exact, Torn
  <2> HIDE DEF d
  <2>2. DOMAIN tree = {KvLog} /\ tree[KvLog] = FileEntry(d)
    BY <2>1 DEF LogTree
  <2>3. tree[KvLog].kind = "file" /\ tree[KvLog].data = d
    BY <2>2 DEF FileEntry
  <2>4. IsFiniteSet({KvLog})
    BY FS_Singleton
  <2>5. IsSnapshot(tree)
    BY <2>2, <2>3, LogPath DEF IsSnapshot
  <2> QED BY <2>1, <2>2, <2>3, <2>4, <2>5, LogPath
<1> QED BY <1>1, <1>2

\* A program that starts is as compile says it is.
FreshRules ==
    /\ Fresh /\ profile \in Profiles /\ failed = FALSE => TypeOK /\ PendingOK
    /\ IsImage(base) /\ Len(base) # 0 /\ v = base /\ micro = <<>> => ImageOK

\* They hold in every state.
LEMMA FreshRulesHold == FreshRules
  BY FreshKeeps, FreshImage DEF FreshRules

\* Never more is acknowledged than was put.
LEMMA AcknowledgedIs ==
    ASSUME Working \/ Repairing
    PROVE  Acknowledged \in 0..PUTS
  BY DEF Working, Repairing, Acknowledged, Opening, Putting, PUTS

\* After a power cut repair has a good state to work on.
LEMMA PowerCutStep ==
    ASSUME FixedLog, WalInv, PowerCut, CrashRules', FreshRules'
    PROVE  TypeOK' /\ PendingOK' /\ ImageOK' /\ StepGood
<1> DEFINE a == Acknowledged
<1>1. a \in 0..PUTS
  BY AcknowledgedIs DEF WalInv
<1>2. PICK s \in CrashSets :
        LET found == Materialize(Program, s)
        IN  base' = FromTree(found) /\ v' = base' /\ todo' = repair(found)
  BY DEF PowerCut
<1> DEFINE found == Materialize(Program, s)
<1>3. Good(found, a)
  BY DEF WalInv, CrashesGood
<1>4. found = [p \in DOMAIN found |-> found[p]]
  BY DEF Materialize, ToTree
<1>5. base' = FromTree(found) /\ v' = base' /\ todo' = repair(found)
  BY <1>2
<1>6. repairing' /\ acked' = a /\ Acknowledged' = a
  BY DEF PowerCut, Acknowledged
<1> HIDE DEF found, a
<1>7. /\ IsFiniteSet(DOMAIN found) /\ DOMAIN found \subseteq Seq(Names) /\ IsSnapshot(found)
      /\ \A p \in DOMAIN found : found[p].kind # "dir" => found[p].data \in Seq(Nat)
  BY <1>3, <1>4, GoodIsSnapshot
<1>8. IsImage(v') /\ Len(v') # 0 /\ FilesWhole(v')
  BY <1>5, <1>7, FromTreeIsImage
<1>9. Treelike(v') /\ PathTree(v') = found
  BY <1>5, <1>7, FromTreeShows
<1>10. Kept(v') /\ ToTree(v') = found
  <2>1. FilesSettled(v')
    BY <1>8, WholeIsSettled DEF FilesWhole, FilesSettled
  <2>2. Kept(v')
    BY <1>9, <2>1 DEF Kept
  <2> QED BY <1>9, <2>2, KeptTree
<1>11. ~failed' /\ micro' = <<>> /\ AllDurable'
  BY DEF PowerCut, AllDurable, WalInv
<1>12. TypeOK' /\ PendingOK'
  <2>1. Fresh'
    BY DEF PowerCut, Fresh
  <2>2. profile' \in Profiles /\ failed' = FALSE
    BY DEF PowerCut, WalInv, TypeOK
  <2> QED BY <2>1, <2>2 DEF FreshRules
<1>13. ImageOK'
  BY <1>5, <1>8, <1>11 DEF FreshRules
<1>14. CrashesGood'
  BY <1>3, <1>6, <1>10, <1>11, <1>12, <1>13, QuietStepGood
<1>15. Repairing'
  <2>1. Repairs(found, a, todo')
    BY <1>1, <1>3, <1>5, GoodIsRepaired
  <2>2. CASE \E n \in a..PUTS : HoldsAll(found, n) /\ todo' = <<>>
    <3>1. PICK n \in a..PUTS : HoldsAll(found, n) /\ todo' = <<>>
      BY <2>2
    <3>2. Mending(n)'
      BY <1>10, <1>11, <3>1 DEF Mending
    <3> QED BY <1>1, <1>6, <3>2 DEF Repairing
  <2>3. CASE \E n \in a..PUTS : n < PUTS /\ HoldsTorn(found, n) /\ todo' = Truncation(<<>>, 4 * n)
    <3>1. PICK n \in a..PUTS : n < PUTS /\ HoldsTorn(found, n) /\ todo' = Truncation(<<>>, 4 * n)
      BY <2>3
    <3>2. Mending(n)'
      BY <1>10, <1>11, <3>1 DEF Mending
    <3> QED BY <1>1, <1>6, <3>2 DEF Repairing
  <2>4. CASE a = 0 /\ IsEmpty(found) /\ todo' = <<>>
    BY <1>1, <1>6, <1>10, <1>11, <2>4 DEF Repairing
  <2> QED BY <2>1, <2>2, <2>3, <2>4 DEF Repairs
<1> QED BY <1>10, <1>11, <1>12, <1>13, <1>14, <1>15 DEF StepGood

-----------------------------------------------------------------------------
(* The theorems *)

\* The invariant holds before the log is there.
LEMMA WalInitGood ==
    ASSUME FixedLog, WalInit
    PROVE  WalInv
<1>1. TypeOK /\ PendingOK /\ ImageOK
  BY InitKeeps, InitImage DEF WalInit
<1>2. Kept(v) /\ ToTree(v) \in InitialTrees
  BY InitShows DEF WalInit, Paths!Init
<1>3. IsEmpty(ToTree(v))
  BY <1>2 DEF FixedLog, IsEmpty
<1>4. ~failed /\ AllDurable /\ Marks = 0 /\ ~repairing
  BY DEF WalInit, Init, AllDurable, Marks
<1>5. Done(0)
  <2>1. PICK S : workload \in Seq(S)
    BY WorkloadIs
  <2> DEFINE w == workload
  <2>2. todo = w /\ w \in Seq(S)
    BY <2>1 DEF WalInit
  <2> HIDE DEF w
  <2>3. SubSeq(w, 1, Len(w)) = w
    BY <2>2, SubSeqFull
  <2> QED BY <2>2, <2>3 DEF Done, w
<1>6. Working
  BY <1>3, <1>4, <1>5 DEF Working, Opening
<1>7. CrashesGood
  <2>1. Good(ToTree(v), Acknowledged)
    BY <1>3, <1>4 DEF Good, Acknowledged
  <2> QED BY <1>1, <1>4, <2>1, CrashRulesHold DEF CrashRules
<1> QED BY <1>1, <1>2, <1>4, <1>6, <1>7 DEF WalInv

\* Every op of the log, every power cut and every op of a repair keeps it.
LEMMA WalStepGood ==
    ASSUME FixedLog, WalInv, [WalNext]_walVars, CrashRules', FreshRules'
    PROVE  WalInv'
<1>1. CASE Op
  <2>1. TypeOK /\ PendingOK /\ ImageOK /\ ~failed /\ Kept(v) /\ (Working \/ Repairing)
    BY DEF WalInv
  <2>2. TypeOK' /\ PendingOK' /\ ImageOK' /\ StepGood
    BY <1>1, <2>1, OpeningStep, PuttingStep, RepairStep DEF Working
  <2> QED BY <2>2 DEF WalInv, StepGood
<1>2. CASE PowerCut
  <2>1. TypeOK' /\ PendingOK' /\ ImageOK' /\ StepGood
    BY <1>2, PowerCutStep
  <2> QED BY <2>1 DEF WalInv, StepGood
<1>3. CASE UNCHANGED walVars
  <2>1. /\ TypeOK' = TypeOK /\ PendingOK' = PendingOK /\ ImageOK' = ImageOK /\ failed' = failed
        /\ Kept(v') = Kept(v) /\ CrashesGood' = CrashesGood
    BY <1>3 DEF walVars, vars, pendings, TypeOK, PendingOK, ImageOK, CrashesGood, CrashSets, CrashPoint,
         Acknowledged, Program, OpIndex, Marks, Issued
  <2>2. (Working \/ Repairing)' = (Working \/ Repairing)
    BY <1>3 DEF walVars, vars, pendings, Working, Repairing, Opening, Putting, Mending, Done, Marks,
         AllDurable, AwaitsFsync
  <2> QED BY <2>1, <2>2 DEF WalInv
<1> QED BY <1>1, <1>2, <1>3 DEF WalNext

\* The log and its repairs keep the invariant.
THEOREM WalInvariant ==
    ASSUME FixedLog
    PROVE  WalSpec => []WalInv
<1>1. WalInit => WalInv
  BY WalInitGood
<1>2. WalInv /\ [WalNext]_walVars /\ CrashRules' /\ FreshRules' => WalInv'
  BY WalStepGood
<1>3. CrashRules /\ FreshRules
  BY CrashRulesHold, FreshRulesHold
<1> QED BY <1>1, <1>2, <1>3, PTL DEF WalSpec

\* The fixed log passes its checker in every crash state of its workload, and
\* of its repair after any number of crashes, for every block size and both
\* profiles (wal.rs, workload, repair and the checker).
THEOREM WalCrashesAccepted ==
    ASSUME FixedLog
    PROVE  WalSpec => []EveryCrashIsAccepted
<1>1. WalInv => EveryCrashIsAccepted
  <2> SUFFICES ASSUME WalInv PROVE EveryCrashIsAccepted
    OBVIOUS
  <2>1. Acknowledged \in 0..PUTS
    BY AcknowledgedIs DEF WalInv
  <2> QED BY <2>1, GoodIsAccepted DEF WalInv, CrashesGood, EveryCrashIsAccepted
<1> QED BY <1>1, WalInvariant, PTL

\* A finished repair of it has left the valid records and no tail (wal.rs,
\* repair: the torn tail is cut off before new appends).
THEOREM WalRepairCuts ==
    ASSUME FixedLog
    PROVE  WalSpec => []RepairCutsTail
<1>1. WalInv => RepairCutsTail
  <2> DEFINE log == LogIn(ToTree(v))
  <2> SUFFICES ASSUME WalInv, repairing, todo = <<>>
               PROVE  ~failed /\ read_log(log).valid = Len(log)
    BY DEF RepairCutsTail
  <2>1. ~failed /\ Repairing /\ acked \in 0..PUTS
    BY DEF WalInv, Working, Repairing
  <2>2. PICK n \in 0..PUTS : Exact(log, n)
    <3>1. CASE IsEmpty(ToTree(v))
      <4>1. Exact(log, 0) /\ 0 \in 0..PUTS
        BY <3>1, NoLogIsEmpty DEF PUTS
      <4> QED BY <4>1
    <3>2. ASSUME NEW n \in acked..PUTS, Mending(n) PROVE n \in 0..PUTS /\ Exact(log, n)
      <4>1. HoldsAll(ToTree(v), n)
        BY <3>2, TruncationIs DEF Mending
      <4> QED BY <2>1, <4>1 DEF HoldsAll, PUTS
    <3> QED BY <2>1, <3>1, <3>2 DEF Repairing
  <2>3. ReadsAll(log, n) /\ Len(log) = 4 * n
    <3>1. n \in Nat
      BY DEF PUTS
    <3> HIDE DEF log
    <3> QED BY <2>2, <3>1, ExactReads DEF Exact
  <2> QED BY <2>1, <2>3 DEF ReadsAll
<1> QED BY <1>1, WalInvariant, PTL
=============================================================================
