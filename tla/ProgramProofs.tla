---------------------------- MODULE ProgramProofs ----------------------------
(***************************************************************************)
(* Proofs about images and about the Program of a trace.                   *)
(*                                                                         *)
(* First what holds of images whatever trace produced the micro-ops:       *)
(* sorting, replaying a selection of micro-ops, which node each kind of    *)
(* micro-op changes, and what the walk of to_tree lists of an image that   *)
(* is a tree.  Then what compile makes of a trace, for every set of ops,   *)
(* every initial tree, every block size and traces of any length, what     *)
(* close and the search find in a Program however it was made, and that    *)
(* the path of an op leads to what its micro-ops are flushed with.         *)
(***************************************************************************)
EXTENDS Compile, Crash, Induction

-----------------------------------------------------------------------------
(* Sequences *)

\* A sequence is a sequence of its own values.
LEMMA SeqOfValues ==
    ASSUME NEW S, NEW s \in Seq(S)
    PROVE  s \in Seq(Range(s))
  BY DEF Range

\* A sequence is the function that lists its values.
LEMMA SeqAsFunction ==
    ASSUME NEW S, NEW s \in Seq(S)
    PROVE  s = [k \in 1..Len(s) |-> s[k]]
  OBVIOUS

\* A function on 1..n is a sequence of length n.
LEMMA FunctionIsSeq ==
    ASSUME NEW n \in Nat, NEW f, f = [k \in 1..n |-> f[k]]
    PROVE  /\ f \in Seq(Range(f))
           /\ Len(f) = n
           /\ DOMAIN f = 1..n
  BY DEF Range

\* Appending the sequence t to s: length, and where the elements come from.
LEMMA ConcatIs ==
    ASSUME NEW s, s \in Seq(Range(s)), NEW t, t \in Seq(Range(t))
    PROVE  /\ s \o t \in Seq(Range(s \o t))
           /\ Len(s \o t) = Len(s) + Len(t)
           /\ DOMAIN (s \o t) = 1..(Len(s) + Len(t))
           /\ \A k \in 1..(Len(s) + Len(t)) :
                 (s \o t)[k] = IF k <= Len(s) THEN s[k] ELSE t[k - Len(s)]
<1> DEFINE S == Range(s) \cup Range(t)
<1>1. s \in Seq(S) /\ t \in Seq(S)
  OBVIOUS
<1>2. /\ s \o t \in Seq(S)
      /\ Len(s \o t) = Len(s) + Len(t)
      /\ \A k \in 1..(Len(s) + Len(t)) :
            (s \o t)[k] = IF k <= Len(s) THEN s[k] ELSE t[k - Len(s)]
  BY <1>1
<1>3. DOMAIN (s \o t) = 1..(Len(s) + Len(t))
  BY <1>1, <1>2
<1>4. s \o t \in Seq(Range(s \o t))
  BY <1>2, SeqOfValues
<1>5. QED
  BY <1>2, <1>3, <1>4

-----------------------------------------------------------------------------
(* Sorting *)

\* A strict total order on S.
Orders(S, R) ==
    /\ \A x \in S : <<x, x>> \notin R
    /\ \A x, y, z \in S : <<x, y>> \in R /\ <<y, z>> \in R => <<x, z>> \in R
    /\ \A x, y \in S : x # y => <<x, y>> \in R \/ <<y, x>> \in R

Below(S, R, x) == {y \in S : <<y, x>> \in R}

\* Ranking a finite set by a strict total order: the number of smaller members
\* maps the set one to one to 0..n-1, so every rank is taken.
LEMMA RankTaken ==
    ASSUME NEW S, IsFiniteSet(S), NEW R, Orders(S, R), NEW k \in 1..Cardinality(S)
    PROVE  \E x \in S : Cardinality(Below(S, R, x)) = k - 1
<1> USE DEF Below
<1> DEFINE n       == Cardinality(S)
           less(x) == Below(S, R, x)
           rank    == [x \in S |-> Cardinality(less(x))]
<1>1. n \in Nat
  BY FS_CardinalityType
<1>2. ASSUME NEW x \in S
      PROVE  IsFiniteSet(less(x)) /\ Cardinality(less(x)) \in 0..(n - 1)
  <2>1. less(x) \subseteq S /\ less(x) # S
    BY <1>2 DEF Orders
  <2>2. /\ IsFiniteSet(less(x)) /\ Cardinality(less(x)) <= n
        /\ Cardinality(less(x)) # n
    <3> HIDE DEF less
    <3> QED BY <2>1, FS_Subset
  <2>3. Cardinality(less(x)) \in Nat
    BY <2>2, FS_CardinalityType
  <2> HIDE DEF less, n
  <2> QED BY <1>1, <2>2, <2>3
<1>3. ASSUME NEW x \in S, NEW z \in S, <<x, z>> \in R
      PROVE  Cardinality(less(x)) # Cardinality(less(z))
  <2>1. less(x) \subseteq less(z) /\ less(x) # less(z)
    <3>1. x \in less(z) /\ x \notin less(x)
      BY <1>3 DEF Orders
    <3>2. ASSUME NEW y \in less(x) PROVE y \in less(z)
      BY <1>3 DEF Orders
    <3> QED BY <3>1, <3>2
  <2>2. IsFiniteSet(less(z)) /\ Cardinality(less(x)) \in Int /\ Cardinality(less(z)) \in Int
    BY <1>2
  <2> HIDE DEF less
  <2> QED BY <2>1, <2>2, FS_Subset
<1>4. rank \in Injection(S, 0..(n - 1))
  <2>1. rank \in [S -> 0..(n - 1)]
    BY <1>2
  <2>2. ASSUME NEW x \in S, NEW z \in S, rank[x] = rank[z] PROVE x = z
    <3>1. <<x, z>> \notin R /\ <<z, x>> \notin R
      BY <1>3, <2>2
    <3> QED BY <3>1 DEF Orders
  <2> HIDE DEF rank, n
  <2> QED BY <2>1, <2>2 DEF Injection, IsInjective
<1>5. rank \in Surjection(S, 0..(n - 1))
  <2>1. IsFiniteSet(0..(n - 1)) /\ Cardinality(0..(n - 1)) = n
    <3> HIDE DEF n
    <3> QED BY <1>1, FS_Interval
  <2> HIDE DEF rank
  <2> QED BY <1>4, <2>1, FS_Injection
<1>6. k - 1 \in 0..(n - 1)
  BY <1>1
<1>7. \E x \in S : rank[x] = k - 1
  <2> HIDE DEF rank, n
  <2> QED BY <1>5, <1>6 DEF Surjection
<1> QED BY <1>7

\* Sorting a finite set of numbers gives each of them one place.
LEMMA SortedPlaces ==
    ASSUME NEW S, S \subseteq Nat, IsFiniteSet(S)
    PROVE  /\ \A k \in 1..Cardinality(S) : Sorted(S, <)[k] \in S
           /\ \A k, l \in 1..Cardinality(S) : Sorted(S, <)[k] = Sorted(S, <)[l] => k = l
           /\ \A x \in S : \E k \in 1..Cardinality(S) : Sorted(S, <)[k] = x
<1> DEFINE R     == {e \in S \X S : e[1] < e[2]}
           at(k) == CHOOSE x \in S : Cardinality({y \in S : y < x}) = k - 1
<1>1. Orders(S, R)
  <2>1. \A x, y \in S : <<x, y>> \in R <=> x < y
    OBVIOUS
  <2>2. \A x, y \in S : x \in Nat /\ y \in Nat
    OBVIOUS
  <2> HIDE DEF R
  <2> QED BY <2>1, <2>2 DEF Orders
<1>2. ASSUME NEW k \in 1..Cardinality(S)
      PROVE  at(k) \in S /\ Cardinality({y \in S : y < at(k)}) = k - 1
  <2>1. \E x \in S : Cardinality(Below(S, R, x)) = k - 1
    <3> HIDE DEF R, at
    <3>1. Orders(S, R)
      BY <1>1
    <3> QED BY <3>1, RankTaken
  <2>2. \A x \in S : Below(S, R, x) = {y \in S : y < x}
    BY DEF Below
  <2>3. \E x \in S : Cardinality({y \in S : y < x}) = k - 1
    BY <2>1, <2>2
  <2> QED BY <2>3
<1>3. \A k \in 1..Cardinality(S) : Sorted(S, <)[k] = at(k)
  BY DEF Sorted
<1>4. \A k \in 1..Cardinality(S) : at(k) \in S
  BY <1>2
<1>5. ASSUME NEW k \in 1..Cardinality(S), NEW l \in 1..Cardinality(S), at(k) = at(l) PROVE k = l
  <2>1. k - 1 = l - 1
    BY <1>2, <1>5
  <2>2. Cardinality(S) \in Nat
    BY FS_CardinalityType
  <2> QED BY <2>1, <2>2
<1>6. ASSUME NEW x \in S PROVE \E k \in 1..Cardinality(S) : at(k) = x
  <2> DEFINE f == [k \in 1..Cardinality(S) |-> at(k)]
  <2>1. IsFiniteSet(1..Cardinality(S)) /\ Cardinality(1..Cardinality(S)) = Cardinality(S)
    BY FS_CardinalityType, FS_Interval
  <2>2. f \in Injection(1..Cardinality(S), S)
    <3>1. f \in [1..Cardinality(S) -> S]
      BY <1>4
    <3>2. \A k, l \in 1..Cardinality(S) : f[k] = f[l] => k = l
      BY <1>5
    <3> HIDE DEF f
    <3> QED BY <3>1, <3>2 DEF Injection, IsInjective
  <2>3. f \in Surjection(1..Cardinality(S), S)
    <3> HIDE DEF f
    <3> QED BY <2>1, <2>2, FS_Injection
  <2>4. \E k \in 1..Cardinality(S) : f[k] = x
    <3> HIDE DEF f
    <3> QED BY <2>3 DEF Surjection
  <2> QED BY <2>4
<1> HIDE DEF at
<1> QED BY <1>3, <1>4, <1>5, <1>6

\* A sorted finite set is as long as it has members.
LEMMA SortedLen ==
    ASSUME NEW S, IsFiniteSet(S)
    PROVE  /\ Cardinality(S) \in Nat
           /\ Sorted(S, <) \in Seq(Range(Sorted(S, <)))
           /\ Len(Sorted(S, <)) = Cardinality(S)
           /\ DOMAIN Sorted(S, <) = 1..Cardinality(S)
<1>1. Cardinality(S) \in Nat
  BY FS_CardinalityType
<1> DEFINE s == Sorted(S, <)
<1>2. s = [k \in 1..Cardinality(S) |-> s[k]]
  <2> DEFINE at(k) == CHOOSE x \in S : Cardinality({y \in S : y < x}) = k - 1
  <2>1. s = [k \in 1..Cardinality(S) |-> at(k)]
    BY DEF Sorted
  <2> HIDE DEF at, s
  <2> QED BY <2>1
<1>3. s \in Seq(Range(s)) /\ Len(s) = Cardinality(S) /\ DOMAIN s = 1..Cardinality(S)
  <2> HIDE DEF s
  <2> QED BY <1>1, <1>2, FunctionIsSeq
<1> QED BY <1>1, <1>3

-----------------------------------------------------------------------------
(* Replaying a selection of micro-ops, one at a time *)

\* f holds the image after each of the first n steps of ApplyAll.
IsRun(f, fs, ms, kept, n) ==
    f = [k \in 0..n |->
            IF k = 0 THEN fs
            ELSE IF k \in kept THEN Apply(f[k-1], ms[k]) ELSE f[k-1]]

\* What a run does at each step.
Steps(f, fs, ms, kept, n) ==
    /\ f[0] = fs
    /\ \A k \in 1..n : f[k] = IF k \in kept THEN Apply(f[k-1], ms[k]) ELSE f[k-1]

\* The recursive function of ApplyAll exists, by induction on its length.
LEMMA RunExists ==
    ASSUME NEW fs, NEW ms, NEW kept, NEW n \in Nat
    PROVE  \E f : IsRun(f, fs, ms, kept, n)
<1> DEFINE S == {k \in 0..n : \E f : IsRun(f, fs, ms, kept, k)}
<1>1. 0 \in S
  <2> DEFINE f == [k \in 0..0 |-> fs]
  <2>1. IsRun(f, fs, ms, kept, 0)
    BY DEF IsRun
  <2> QED BY <2>1
<1>2. ASSUME NEW k \in 0..(n-1), k \in S PROVE k + 1 \in S
  <2>1. PICK f : IsRun(f, fs, ms, kept, k)
    BY <1>2
  <2> DEFINE g == [j \in 0..(k+1) |->
                     IF j = k + 1
                     THEN IF j \in kept THEN Apply(f[k], ms[j]) ELSE f[k]
                     ELSE f[j]]
  <2>2. IsRun(g, fs, ms, kept, k + 1)
    <3>1. \A j \in 0..k :
             f[j] = IF j = 0 THEN fs
                    ELSE IF j \in kept THEN Apply(f[j-1], ms[j]) ELSE f[j-1]
      BY <2>1 DEF IsRun
    <3>2. \A j \in 0..k : g[j] = f[j]
      OBVIOUS
    <3>3. \A j \in 0..(k+1) :
             g[j] = IF j = 0 THEN fs
                    ELSE IF j \in kept THEN Apply(g[j-1], ms[j]) ELSE g[j-1]
      BY <3>1, <3>2
    <3> HIDE DEF g
    <3>4. g = [j \in 0..(k+1) |-> g[j]]
      BY DEF g
    <3> QED BY <3>3, <3>4 DEF IsRun
  <2> HIDE DEF g
  <2> QED BY <2>2, <1>2
<1>3. n \in S
  <2> HIDE DEF S
  <2> QED BY <1>1, <1>2, UpTo
<1> QED BY <1>3

\* ApplyAll ends where its run does.
LEMMA ApplyAllRun ==
    ASSUME NEW fs, NEW ms, NEW kept, Len(ms) \in Nat
    PROVE  \E f : Steps(f, fs, ms, kept, Len(ms)) /\ ApplyAll(fs, ms, kept) = f[Len(ms)]
<1> DEFINE f == CHOOSE g : IsRun(g, fs, ms, kept, Len(ms))
<1>1. IsRun(f, fs, ms, kept, Len(ms))
  BY RunExists
<1>2. ApplyAll(fs, ms, kept) = f[Len(ms)]
  BY DEF ApplyAll, IsRun
<1> HIDE DEF f
<1>3. Steps(f, fs, ms, kept, Len(ms))
  BY <1>1 DEF IsRun, Steps
<1> QED BY <1>2, <1>3

\* The first n steps select the same micro-ops.
SameSteps(ms, kept, mt, kt, n) ==
    \A k \in 1..n : (k \in kept <=> k \in kt) /\ (k \in kept => ms[k] = mt[k])

\* Two runs of the same micro-ops with the same selection go through the same images.
LEMMA RunsAgree ==
    ASSUME NEW n \in Nat, NEW fs,
           NEW f, NEW ms, NEW kept, Steps(f, fs, ms, kept, n),
           NEW g, NEW mt, NEW kt, Steps(g, fs, mt, kt, n),
           SameSteps(ms, kept, mt, kt, n)
    PROVE  \A k \in 0..n : f[k] = g[k]
<1> DEFINE S == {k \in 0..n : f[k] = g[k]}
<1>1. 0 \in S
  BY DEF Steps
<1>2. ASSUME NEW k \in 0..(n-1), k \in S PROVE k + 1 \in S
  <2>1. k + 1 \in 1..n /\ (k + 1) - 1 = k /\ f[k] = g[k]
    BY <1>2
  <2>2. /\ f[k+1] = IF k + 1 \in kept THEN Apply(f[k], ms[k+1]) ELSE f[k]
        /\ g[k+1] = IF k + 1 \in kt THEN Apply(g[k], mt[k+1]) ELSE g[k]
    BY <2>1 DEF Steps
  <2>3. f[k+1] = g[k+1]
    BY <2>1, <2>2 DEF SameSteps
  <2> QED BY <2>1, <2>3
<1>3. 0..n \subseteq S
  <2> HIDE DEF S
  <2> QED BY <1>1, <1>2, UpTo
<1> QED BY <1>3

\* So whatever takes these steps ends where ApplyAll does.
LEMMA StepsGive ==
    ASSUME NEW fs, NEW ms, NEW kept, Len(ms) \in Nat, NEW f, Steps(f, fs, ms, kept, Len(ms))
    PROVE  ApplyAll(fs, ms, kept) = f[Len(ms)]
<1>1. PICK g : Steps(g, fs, ms, kept, Len(ms)) /\ ApplyAll(fs, ms, kept) = g[Len(ms)]
  BY ApplyAllRun
<1>2. SameSteps(ms, kept, ms, kept, Len(ms))
  BY DEF SameSteps
<1>3. \A k \in 0..Len(ms) : f[k] = g[k]
  BY <1>1, <1>2, RunsAgree
<1> QED BY <1>1, <1>3

-----------------------------------------------------------------------------
(* Images and the micro-ops that fit them *)

\* A directory whose entries name inodes up to n, or a file.
IsNode(x, n) ==
    \/ \E e \in [Names -> 0..n] : x = Dir(e)
    \/ \E b, l : x = File(b, l)

IsImage(fs) ==
    /\ fs \in Seq(Range(fs))
    /\ \A i \in 1..Len(fs) : IsNode(fs[i], Len(fs))

\* A micro-op that names inodes up to n.
Fits(m, n) ==
    \/ m.kind = "Link" /\ m.parent \in 0..n /\ m.ino \in 0..n
    \/ m.kind = "Unlink" /\ m.parent \in 0..n
    \/ m.kind = "Rename" /\ m.from \in 0..n /\ m.to \in 0..n /\ m.ino \in 1..n
    \/ m.kind \in {"Write", "SetLen"} /\ m.ino \in 1..n

\* What a data micro-op makes of the file it is about.
OnFile(node, m) ==
    IF m.kind = "Write" THEN [node EXCEPT !.buf = Splice(@, m.offset, m.data)]
    ELSE ApplySetLen(node, m)

\* An image is a function on its inodes, and each node is of one kind.
LEMMA ImageShape ==
    ASSUME NEW fs, IsImage(fs)
    PROVE  /\ Len(fs) \in Nat /\ DOMAIN fs = 1..Len(fs)
           /\ fs = [i \in 1..Len(fs) |-> fs[i]]
           /\ \A i \in 1..Len(fs) :
                 /\ fs[i].kind \in {"dir", "file"}
                 /\ fs[i].kind = "dir" => /\ fs[i].entries \in [Names -> 0..Len(fs)]
                                          /\ fs[i] = Dir(fs[i].entries)
                 /\ fs[i].kind = "file" => fs[i] = File(fs[i].buf, fs[i].len)
<1>1. Len(fs) \in Nat /\ DOMAIN fs = 1..Len(fs) /\ fs = [i \in 1..Len(fs) |-> fs[i]]
  BY DEF IsImage
<1>2. ASSUME NEW i \in 1..Len(fs)
      PROVE  /\ fs[i].kind \in {"dir", "file"}
             /\ fs[i].kind = "dir" => /\ fs[i].entries \in [Names -> 0..Len(fs)]
                                      /\ fs[i] = Dir(fs[i].entries)
             /\ fs[i].kind = "file" => fs[i] = File(fs[i].buf, fs[i].len)
  <2>1. CASE \E e \in [Names -> 0..Len(fs)] : fs[i] = Dir(e)
    <3>1. PICK e \in [Names -> 0..Len(fs)] : fs[i] = Dir(e)
      BY <2>1
    <3>2. fs[i].kind = "dir" /\ fs[i].entries = e
      BY <3>1 DEF Dir
    <3> QED BY <3>1, <3>2
  <2>2. CASE \E b, l : fs[i] = File(b, l)
    <3>1. PICK b, l : fs[i] = File(b, l)
      BY <2>2
    <3>2. fs[i].kind = "file" /\ fs[i].buf = b /\ fs[i].len = l
      BY <3>1 DEF File
    <3> QED BY <3>1, <3>2
  <2> QED BY <2>1, <2>2 DEF IsImage, IsNode
<1> QED BY <1>1, <1>2

\* A function on 1..n whose values are nodes is an image.
LEMMA MakesImage ==
    ASSUME NEW n \in Nat, NEW fs, fs = [i \in 1..n |-> fs[i]], \A i \in 1..n : IsNode(fs[i], n)
    PROVE  IsImage(fs) /\ Len(fs) = n
  BY FunctionIsSeq DEF IsImage

\* Setting an entry changes one entry of one directory.
LEMMA SetEntryOf ==
    ASSUME NEW fs, IsImage(fs), NEW dir \in 0..Len(fs), NEW name, NEW ino \in 0..Len(fs),
           NEW x, x = SetEntry(fs, dir, name, ino)
    PROVE  /\ IsImage(x) /\ Len(x) = Len(fs)
           /\ \A i \in 1..Len(fs) :
                 /\ x[i].kind = fs[i].kind
                 /\ i # dir \/ fs[i].kind = "file" => x[i] = fs[i]
                 /\ i = dir /\ fs[i].kind = "dir" =>
                       \A n \in Names :
                          x[i].entries[n] = IF n = name THEN ino ELSE fs[i].entries[n]
<1>1. /\ Len(fs) \in Nat /\ DOMAIN fs = 1..Len(fs) /\ fs = [i \in 1..Len(fs) |-> fs[i]]
      /\ \A i \in 1..Len(fs) : IsNode(fs[i], Len(fs)) /\ fs[i].kind \in {"dir", "file"}
  BY ImageShape DEF IsImage
<1>2. CASE ~IsDir(fs, dir)
  <2>1. x = fs
    BY <1>2 DEF SetEntry
  <2>2. \A i \in 1..Len(fs) : ~(i = dir /\ fs[i].kind = "dir")
    BY <1>2 DEF IsDir, NoIno
  <2> QED BY <2>1, <2>2
<1>3. CASE IsDir(fs, dir)
  <2>1. dir \in 1..Len(fs) /\ fs[dir].kind = "dir"
    BY <1>1, <1>3 DEF IsDir, NoIno
  <2>2. x = [fs EXCEPT ![dir].entries[name] = ino]
    BY <1>3 DEF SetEntry
  <2>3. PICK e \in [Names -> 0..Len(fs)] : fs[dir] = Dir(e)
    BY <2>1, ImageShape
  <2>4. x = [i \in 1..Len(fs) |-> x[i]]
    BY <1>1, <2>2
  <2>5. \A i \in 1..Len(fs) : i # dir => x[i] = fs[i]
    BY <1>1, <2>2
  <2>6. x[dir] = Dir([e EXCEPT ![name] = ino])
    <3>1. x[dir] = [fs[dir] EXCEPT !.entries[name] = ino]
      BY <1>1, <2>1, <2>2
    <3>2. [Dir(e) EXCEPT !.entries[name] = ino] = Dir([e EXCEPT ![name] = ino])
      BY DEF Dir
    <3> QED BY <2>3, <3>1, <3>2
  <2>7. [e EXCEPT ![name] = ino] \in [Names -> 0..Len(fs)]
    OBVIOUS
  <2>8. /\ x[dir].kind = "dir"
        /\ \A n \in Names : x[dir].entries[n] = IF n = name THEN ino ELSE fs[dir].entries[n]
    <3>1. x[dir].kind = "dir" /\ x[dir].entries = [e EXCEPT ![name] = ino] /\ fs[dir].entries = e
      BY <2>3, <2>6 DEF Dir
    <3> QED BY <3>1
  <2>9. \A i \in 1..Len(fs) : IsNode(x[i], Len(fs))
    <3>1. IsNode(x[dir], Len(fs))
      BY <2>6, <2>7 DEF IsNode
    <3> QED BY <1>1, <2>5, <3>1
  <2>10. IsImage(x) /\ Len(x) = Len(fs)
    BY <1>1, <2>4, <2>9, MakesImage
  <2> QED BY <1>1, <2>1, <2>5, <2>8, <2>10
<1> QED BY <1>2, <1>3

\* A data micro-op changes the file it is about and nothing else.
LEMMA ApplyData ==
    ASSUME NEW fs, IsImage(fs), NEW m, m.kind \in {"Write", "SetLen"}, m.ino \in 1..Len(fs),
           NEW x, x = Apply(fs, m)
    PROVE  /\ IsImage(x) /\ Len(x) = Len(fs)
           /\ \A i \in 1..Len(fs) :
                 /\ x[i].kind = fs[i].kind
                 /\ i # m.ino \/ fs[i].kind = "dir" => x[i] = fs[i]
                 /\ i = m.ino /\ fs[i].kind = "file" => x[i] = OnFile(fs[i], m)
<1>1. /\ Len(fs) \in Nat /\ DOMAIN fs = 1..Len(fs) /\ fs = [i \in 1..Len(fs) |-> fs[i]]
      /\ \A i \in 1..Len(fs) : IsNode(fs[i], Len(fs)) /\ fs[i].kind \in {"dir", "file"}
  BY ImageShape DEF IsImage
<1>2. x = IF IsFile(fs, m.ino) THEN [fs EXCEPT ![m.ino] = OnFile(fs[m.ino], m)] ELSE fs
  <2>1. CASE m.kind = "Write"
    <3>1. x = IF IsFile(fs, m.ino) THEN [fs EXCEPT ![m.ino].buf = Splice(@, m.offset, m.data)] ELSE fs
      BY <2>1 DEF Apply
    <3>2. OnFile(fs[m.ino], m) = [fs[m.ino] EXCEPT !.buf = Splice(@, m.offset, m.data)]
      BY <2>1 DEF OnFile
    <3> QED BY <3>1, <3>2
  <2>2. CASE m.kind = "SetLen"
    <3>1. x = IF IsFile(fs, m.ino) THEN [fs EXCEPT ![m.ino] = ApplySetLen(@, m)] ELSE fs
      BY <2>2 DEF Apply
    <3>2. OnFile(fs[m.ino], m) = ApplySetLen(fs[m.ino], m)
      BY <2>2 DEF OnFile
    <3> QED BY <3>1, <3>2
  <2> QED BY <2>1, <2>2
<1>3. CASE ~IsFile(fs, m.ino)
  <2>1. \A i \in 1..Len(fs) : i = m.ino => fs[i].kind # "file"
    BY <1>3 DEF IsFile, NoIno
  <2> QED BY <1>2, <1>3, <2>1
<1>4. CASE IsFile(fs, m.ino)
  <2>1. fs[m.ino].kind = "file" /\ fs[m.ino] = File(fs[m.ino].buf, fs[m.ino].len)
    BY <1>4, ImageShape DEF IsFile
  <2>2. \E b, l : OnFile(fs[m.ino], m) = File(b, l)
    <3>1. CASE m.kind = "Write"
      <4>1. OnFile(fs[m.ino], m) = File(Splice(fs[m.ino].buf, m.offset, m.data), fs[m.ino].len)
        <5> DEFINE b == Splice(fs[m.ino].buf, m.offset, m.data)
        <5>1. OnFile(fs[m.ino], m) = [fs[m.ino] EXCEPT !.buf = b]
          BY <3>1 DEF OnFile
        <5> HIDE DEF b
        <5>2. [File(fs[m.ino].buf, fs[m.ino].len) EXCEPT !.buf = b] = File(b, fs[m.ino].len)
          BY DEF File
        <5> QED BY <2>1, <5>1, <5>2 DEF b
      <4> QED BY <4>1
    <3>2. CASE m.kind = "SetLen"
      BY <3>2 DEF OnFile, ApplySetLen
    <3> QED BY <3>1, <3>2
  <2>3. x = [i \in 1..Len(fs) |-> x[i]]
    BY <1>1, <1>2, <1>4
  <2>4. \A i \in 1..Len(fs) : i # m.ino => x[i] = fs[i]
    BY <1>1, <1>2, <1>4
  <2>5. x[m.ino] = OnFile(fs[m.ino], m)
    BY <1>1, <1>2, <1>4
  <2>6. IsNode(x[m.ino], Len(fs)) /\ x[m.ino].kind = "file"
    <3>1. PICK b, l : x[m.ino] = File(b, l)
      BY <2>2, <2>5
    <3>2. x[m.ino].kind = "file"
      BY <3>1 DEF File
    <3> QED BY <3>1, <3>2 DEF IsNode
  <2>7. \A i \in 1..Len(fs) : IsNode(x[i], Len(fs))
    BY <1>1, <2>4, <2>6
  <2>8. IsImage(x) /\ Len(x) = Len(fs)
    BY <1>1, <2>3, <2>7, MakesImage
  <2> QED BY <2>1, <2>4, <2>5, <2>6, <2>8
<1> QED BY <1>3, <1>4

\* A rename sets the target entry and removes the source entry if it still
\* names the inode.
LEMMA ApplyRenameOf ==
    ASSUME NEW fs, IsImage(fs), NEW m, m.kind = "Rename", Fits(m, Len(fs)),
           NEW x, x = Apply(fs, m)
    PROVE  /\ IsImage(x) /\ Len(x) = Len(fs)
           /\ \A i \in 1..Len(fs) :
                 /\ x[i].kind = fs[i].kind
                 /\ fs[i].kind = "file" => x[i] = fs[i]
                 /\ fs[i].kind = "dir" =>
                       \A n \in Names :
                          x[i].entries[n] =
                             IF i = m.to /\ n = m.to_name THEN m.ino
                             ELSE IF i = m.from /\ n = m.from_name /\ fs[i].entries[n] = m.ino
                                  THEN NoIno
                             ELSE fs[i].entries[n]
<1> DEFINE moved == IsDir(fs, m.from) /\ fs[m.from].entries[m.from_name] = m.ino
           cut   == IF moved THEN SetEntry(fs, m.from, m.from_name, NoIno) ELSE fs
<1>1. x = SetEntry(cut, m.to, m.to_name, m.ino)
  BY DEF Apply, ApplyRename
<1>2. /\ m.from \in 0..Len(fs) /\ m.to \in 0..Len(fs) /\ m.ino \in 0..Len(fs) /\ NoIno \in 0..Len(fs)
      /\ Len(fs) \in Nat
  BY ImageShape DEF Fits, NoIno
<1>3. /\ IsImage(cut) /\ Len(cut) = Len(fs)
      /\ \A i \in 1..Len(fs) :
            /\ cut[i].kind = fs[i].kind
            /\ fs[i].kind = "file" => cut[i] = fs[i]
            /\ fs[i].kind = "dir" =>
                  \A n \in Names :
                     cut[i].entries[n] =
                        IF i = m.from /\ n = m.from_name /\ fs[i].entries[n] = m.ino
                        THEN NoIno ELSE fs[i].entries[n]
  <2>1. CASE ~moved
    <3>1. cut = fs
      BY <2>1
    <3>2. ASSUME NEW i \in 1..Len(fs), fs[i].kind = "dir", NEW n \in Names,
                 i = m.from, n = m.from_name
          PROVE  fs[i].entries[n] # m.ino
      BY <1>2, <2>1, <3>2 DEF IsDir, NoIno
    <3> HIDE DEF cut, moved
    <3> QED BY <3>1, <3>2
  <2>2. CASE moved
    <3> DEFINE y == SetEntry(fs, m.from, m.from_name, NoIno)
    <3>1. cut = y /\ fs[m.from].entries[m.from_name] = m.ino
      BY <2>2
    <3>2. /\ IsImage(y) /\ Len(y) = Len(fs)
          /\ \A i \in 1..Len(fs) :
                /\ y[i].kind = fs[i].kind
                /\ i # m.from \/ fs[i].kind = "file" => y[i] = fs[i]
                /\ i = m.from /\ fs[i].kind = "dir" =>
                      \A n \in Names :
                         y[i].entries[n] = IF n = m.from_name THEN NoIno ELSE fs[i].entries[n]
      <4>1. y = SetEntry(fs, m.from, m.from_name, NoIno)
        OBVIOUS
      <4> HIDE DEF y
      <4> QED BY <1>2, <4>1, SetEntryOf
    <3>3. ASSUME NEW i \in 1..Len(fs), fs[i].kind = "dir", NEW n \in Names
          PROVE  y[i].entries[n] = IF i = m.from /\ n = m.from_name /\ fs[i].entries[n] = m.ino
                                   THEN NoIno ELSE fs[i].entries[n]
      <4> HIDE DEF y
      <4>2. CASE i = m.from
        <5>1. y[i].entries[n] = IF n = m.from_name THEN NoIno ELSE fs[i].entries[n]
          BY <3>2, <3>3, <4>2
        <5> QED BY <3>1, <4>2, <5>1
      <4>3. CASE i # m.from
        BY <3>2, <4>3
      <4> QED BY <4>2, <4>3
    <3> HIDE DEF y, cut
    <3> QED BY <3>1, <3>2, <3>3
  <2> HIDE DEF cut, moved
  <2> QED BY <2>1, <2>2
<1> HIDE DEF cut, moved
<1>4. /\ IsImage(x) /\ Len(x) = Len(cut)
      /\ \A i \in 1..Len(cut) :
            /\ x[i].kind = cut[i].kind
            /\ i # m.to \/ cut[i].kind = "file" => x[i] = cut[i]
            /\ i = m.to /\ cut[i].kind = "dir" =>
                  \A n \in Names :
                     x[i].entries[n] = IF n = m.to_name THEN m.ino ELSE cut[i].entries[n]
  <2>1. m.to \in 0..Len(cut) /\ m.ino \in 0..Len(cut)
    BY <1>2, <1>3
  <2> QED BY <1>1, <1>3, <2>1, SetEntryOf
<1>5. ASSUME NEW i \in 1..Len(fs), fs[i].kind = "dir", NEW n \in Names
      PROVE  x[i].entries[n] = IF i = m.to /\ n = m.to_name THEN m.ino
                               ELSE IF i = m.from /\ n = m.from_name /\ fs[i].entries[n] = m.ino
                                    THEN NoIno
                               ELSE fs[i].entries[n]
  <2>1. cut[i].kind = "dir" /\ i \in 1..Len(cut)
    BY <1>3, <1>5
  <2>3. cut[i].entries[n] = IF i = m.from /\ n = m.from_name /\ fs[i].entries[n] = m.ino
                            THEN NoIno ELSE fs[i].entries[n]
    BY <1>3, <1>5
  <2>4. CASE i = m.to
    <3>2. x[i].entries[n] = IF n = m.to_name THEN m.ino ELSE cut[i].entries[n]
      BY <1>4, <2>1, <2>4
    <3> QED BY <2>3, <2>4, <3>2
  <2>5. CASE i # m.to
    <3>1. x[i] = cut[i]
      BY <1>4, <2>1, <2>5
    <3> QED BY <2>3, <2>5, <3>1
  <2> QED BY <2>4, <2>5
<1> QED BY <1>3, <1>4, <1>5

\* Whatever the micro-op, the image stays one with the same inodes; a file
\* changes only by a data micro-op about it, a directory never by one.
LEMMA ApplyKeeps ==
    ASSUME NEW fs, IsImage(fs), NEW m, Fits(m, Len(fs)), NEW x, x = Apply(fs, m)
    PROVE  /\ IsImage(x) /\ Len(x) = Len(fs)
           /\ \A i \in 1..Len(fs) :
                 /\ x[i].kind = fs[i].kind
                 /\ fs[i].kind = "file" =>
                       x[i] = IF m.kind \in {"Write", "SetLen"} /\ m.ino = i
                              THEN OnFile(fs[i], m) ELSE fs[i]
                 /\ fs[i].kind = "dir" /\ m.kind \in {"Write", "SetLen"} => x[i] = fs[i]
<1>1. Len(fs) \in Nat /\ NoIno \in 0..Len(fs) /\ \A i \in 1..Len(fs) : fs[i].kind \in {"dir", "file"}
  BY ImageShape DEF NoIno
<1>a. ASSUME NEW dir \in 0..Len(fs), NEW name, NEW ino \in 0..Len(fs),
             x = SetEntry(fs, dir, name, ino)
      PROVE  /\ IsImage(x) /\ Len(x) = Len(fs)
             /\ \A i \in 1..Len(fs) : x[i].kind = fs[i].kind /\ (fs[i].kind = "file" => x[i] = fs[i])
  BY <1>a, SetEntryOf
<1>2. CASE m.kind = "Link"
  <2>1. m.parent \in 0..Len(fs) /\ m.ino \in 0..Len(fs)
    BY <1>2 DEF Fits
  <2>2. Apply(fs, m) = SetEntry(fs, m.parent, m.name, m.ino)
    BY <1>2 DEF Apply
  <2> QED BY <1>2, <1>a, <2>1, <2>2
<1>3. CASE m.kind = "Unlink"
  <2>1. m.parent \in 0..Len(fs)
    BY <1>3 DEF Fits
  <2>2. Apply(fs, m) = SetEntry(fs, m.parent, m.name, NoIno)
    BY <1>3 DEF Apply
  <2> QED BY <1>1, <1>3, <1>a, <2>1, <2>2
<1>4. CASE m.kind = "Rename"
  BY <1>4, ApplyRenameOf
<1>5. CASE m.kind \in {"Write", "SetLen"}
  <2>1. m.ino \in 1..Len(fs)
    BY <1>5 DEF Fits
  <2> QED BY <1>1, <1>5, <2>1, ApplyData
<1> QED BY <1>2, <1>3, <1>4, <1>5 DEF Fits

\* An image with one more node.
LEMMA Appended ==
    ASSUME NEW fs, IsImage(fs), NEW x
    PROVE  /\ Len(Append(fs, x)) = Len(fs) + 1
           /\ Append(fs, x) = [i \in 1..(Len(fs) + 1) |-> IF i <= Len(fs) THEN fs[i] ELSE x]
           /\ \A i \in 1..Len(fs) : Append(fs, x)[i] = fs[i]
           /\ IsNode(x, Len(fs) + 1) => IsImage(Append(fs, x))
<1> DEFINE y == Append(fs, x)
<1>1. Len(fs) \in Nat /\ fs \in Seq(Range(fs))
  BY DEF IsImage
<1>2. fs \in Seq(Range(fs) \cup {x})
  BY <1>1
<1>3. /\ Len(y) = Len(fs) + 1 /\ DOMAIN y = 1..(Len(fs) + 1)
      /\ y \in Seq(Range(fs) \cup {x})
      /\ \A i \in 1..Len(fs) : y[i] = fs[i]
      /\ y[Len(fs) + 1] = x
  BY <1>1, <1>2
<1> HIDE DEF y
<1>4. y = [i \in 1..(Len(fs) + 1) |-> y[i]]
  BY <1>3, SeqAsFunction
<1>5. \A i \in 1..(Len(fs) + 1) : y[i] = IF i <= Len(fs) THEN fs[i] ELSE x
  BY <1>1, <1>3
<1>6. y = [i \in 1..(Len(fs) + 1) |-> IF i <= Len(fs) THEN fs[i] ELSE x]
  BY <1>4, <1>5
<1>7. ASSUME IsNode(x, Len(fs) + 1) PROVE IsImage(y)
  <2>1. ASSUME NEW i \in 1..(Len(fs) + 1) PROVE IsNode(y[i], Len(fs) + 1)
    <3>1. CASE i \in 1..Len(fs)
      <4>1. IsNode(fs[i], Len(fs)) /\ y[i] = fs[i]
        BY <1>3, <3>1 DEF IsImage
      <4>2. 0..Len(fs) \subseteq 0..(Len(fs) + 1)
        BY <1>1
      <4>3. [Names -> 0..Len(fs)] \subseteq [Names -> 0..(Len(fs) + 1)]
        BY <4>2
      <4> QED BY <4>1, <4>3 DEF IsNode
    <3>2. CASE i \notin 1..Len(fs)
      <4>1. i = Len(fs) + 1
        BY <1>1, <3>2
      <4> QED BY <1>3, <1>7, <4>1
    <3> QED BY <3>1, <3>2
  <2>2. Len(fs) + 1 \in Nat
    BY <1>1
  <2> QED BY <1>4, <2>1, <2>2, MakesImage
<1> QED BY <1>3, <1>6, <1>7 DEF y

\* A micro-op that fits an image does to it what it does to a longer one.
LEMMA ApplyFrame ==
    ASSUME NEW fs, IsImage(fs), NEW node, NEW m, Fits(m, Len(fs))
    PROVE  Apply(Append(fs, node), m) = Append(Apply(fs, m), node)
<1> DEFINE N == Len(fs)
           Longer(g) == [i \in 1..(N + 1) |-> IF i <= N THEN g[i] ELSE node]
<1>1. N \in Nat /\ DOMAIN fs = 1..N
  BY ImageShape
<1>2. \A g : IsImage(g) /\ Len(g) = N => Append(g, node) = Longer(g)
  BY Appended
<1>a. ASSUME NEW g, DOMAIN g = 1..N, NEW d \in 1..N, NEW x
      PROVE  [Longer(g) EXCEPT ![d] = x] = Longer([g EXCEPT ![d] = x])
  <2> DEFINE a == [Longer(g) EXCEPT ![d] = x]
             b == [g EXCEPT ![d] = x]
  <2>1. a = [i \in 1..(N + 1) |-> IF i = d THEN x ELSE IF i <= N THEN g[i] ELSE node]
    OBVIOUS
  <2>2. b = [i \in 1..N |-> IF i = d THEN x ELSE g[i]]
    BY <1>a
  <2> HIDE DEF a, b
  <2>3. ASSUME NEW i \in 1..(N + 1)
        PROVE  (IF i <= N THEN b[i] ELSE node) = IF i = d THEN x ELSE IF i <= N THEN g[i] ELSE node
    <3>1. CASE i <= N
      <4>1. i \in 1..N
        BY <1>1, <3>1
      <4> QED BY <2>2, <3>1, <4>1
    <3>2. CASE ~(i <= N)
      <4>1. i # d
        BY <1>1, <3>2
      <4> QED BY <3>2, <4>1
    <3> QED BY <3>1, <3>2
  <2>4. Longer(b) = [i \in 1..(N + 1) |-> IF i = d THEN x ELSE IF i <= N THEN g[i] ELSE node]
    BY <2>3
  <2> QED BY <2>1, <2>4 DEF a, b
<1>3. ASSUME NEW g, IsImage(g), Len(g) = N, NEW dir \in 0..N, NEW name, NEW ino \in 0..N
      PROVE  SetEntry(Longer(g), dir, name, ino) = Longer(SetEntry(g, dir, name, ino))
  <2>1. DOMAIN g = 1..N
    BY <1>3, ImageShape
  <2>2. IsDir(Longer(g), dir) <=> IsDir(g, dir)
    BY <1>1 DEF IsDir, NoIno
  <2>3. CASE ~IsDir(g, dir)
    BY <2>2, <2>3 DEF SetEntry
  <2>4. CASE IsDir(g, dir)
    <3>1. dir \in 1..N
      BY <1>1, <2>4 DEF IsDir, NoIno
    <3> DEFINE x == [g[dir] EXCEPT !.entries[name] = ino]
    <3>3. Longer(g)[dir] = g[dir]
      BY <1>1, <3>1
    <3>2. [Longer(g) EXCEPT ![dir].entries[name] = ino] = Longer([g EXCEPT ![dir].entries[name] = ino])
      <4>1. [g EXCEPT ![dir].entries[name] = ino] = [g EXCEPT ![dir] = x]
        OBVIOUS
      <4>2. [Longer(g) EXCEPT ![dir].entries[name] = ino] = [Longer(g) EXCEPT ![dir] = x]
        <5> HIDE DEF Longer
        <5> QED BY <3>3
      <4>3. [Longer(g) EXCEPT ![dir] = x] = Longer([g EXCEPT ![dir] = x])
        <5> HIDE DEF Longer, x
        <5> QED BY <1>a, <2>1, <3>1
      <4> HIDE DEF Longer, x
      <4> QED BY <4>1, <4>2, <4>3
    <3> QED BY <2>2, <2>4, <3>2 DEF SetEntry
  <2> QED BY <2>3, <2>4
<1>4. NoIno \in 0..N
  BY <1>1 DEF NoIno
<1>5. Apply(Longer(fs), m) = Longer(Apply(fs, m))
  <2>1. CASE m.kind = "Link"
    <3>1. m.parent \in 0..N /\ m.ino \in 0..N
      BY <2>1 DEF Fits
    <3> HIDE DEF Longer
    <3> QED BY <1>3, <2>1, <3>1 DEF Apply
  <2>2. CASE m.kind = "Unlink"
    <3>1. m.parent \in 0..N
      BY <2>2 DEF Fits
    <3> HIDE DEF Longer
    <3> QED BY <1>3, <1>4, <2>2, <3>1 DEF Apply
  <2>3. CASE m.kind = "Rename"
    <3>1. m.from \in 0..N /\ m.to \in 0..N /\ m.ino \in 0..N
      BY <1>1, <2>3 DEF Fits
    <3>2. IsDir(Longer(fs), m.from) <=> IsDir(fs, m.from)
      BY <1>1, <3>1 DEF IsDir, NoIno
    <3>3. IsDir(fs, m.from) => Longer(fs)[m.from] = fs[m.from]
      BY <1>1, <3>1 DEF IsDir, NoIno
    <3> HIDE DEF Longer
    <3>4. CASE IsDir(fs, m.from) /\ fs[m.from].entries[m.from_name] = m.ino
      <4> DEFINE c == SetEntry(fs, m.from, m.from_name, NoIno)
      <4>1. IsImage(c) /\ Len(c) = N
        BY <1>4, <3>1, SetEntryOf
      <4>2. SetEntry(Longer(fs), m.from, m.from_name, NoIno) = Longer(c)
        BY <1>3, <1>4, <3>1
      <4>3. SetEntry(Longer(c), m.to, m.to_name, m.ino) = Longer(SetEntry(c, m.to, m.to_name, m.ino))
        <5> HIDE DEF c
        <5> QED BY <1>3, <3>1, <4>1
      <4>4. Apply(fs, m) = SetEntry(c, m.to, m.to_name, m.ino)
        BY <2>3, <3>4 DEF Apply, ApplyRename
      <4>5. Apply(Longer(fs), m) = SetEntry(SetEntry(Longer(fs), m.from, m.from_name, NoIno),
                                            m.to, m.to_name, m.ino)
        BY <2>3, <3>2, <3>3, <3>4 DEF Apply, ApplyRename
      <4> QED BY <4>2, <4>3, <4>4, <4>5
    <3>5. CASE ~(IsDir(fs, m.from) /\ fs[m.from].entries[m.from_name] = m.ino)
      <4>1. Apply(fs, m) = SetEntry(fs, m.to, m.to_name, m.ino)
        BY <2>3, <3>5 DEF Apply, ApplyRename
      <4>2. Apply(Longer(fs), m) = SetEntry(Longer(fs), m.to, m.to_name, m.ino)
        BY <2>3, <3>2, <3>3, <3>5 DEF Apply, ApplyRename
      <4> QED BY <1>3, <3>1, <4>1, <4>2
    <3> QED BY <3>4, <3>5
  <2>4. CASE m.kind \in {"Write", "SetLen"}
    <3>1. m.ino \in 1..N
      BY <2>4 DEF Fits
    <3>2. Longer(fs)[m.ino] = fs[m.ino] /\ (IsFile(Longer(fs), m.ino) <=> IsFile(fs, m.ino))
      BY <1>1, <3>1 DEF IsFile, NoIno
    <3>3. \A x : [Longer(fs) EXCEPT ![m.ino] = x] = Longer([fs EXCEPT ![m.ino] = x])
      <4> HIDE DEF Longer
      <4> QED BY <1>1, <1>a, <3>1
    <3>4. CASE m.kind = "Write"
      <4> DEFINE y == [fs[m.ino] EXCEPT !.buf = Splice(@, m.offset, m.data)]
      <4>1. Apply(fs, m) = IF IsFile(fs, m.ino) THEN [fs EXCEPT ![m.ino] = y] ELSE fs
        BY <3>4 DEF Apply
      <4>2. Apply(Longer(fs), m) = IF IsFile(fs, m.ino) THEN [Longer(fs) EXCEPT ![m.ino] = y] ELSE Longer(fs)
        <5> HIDE DEF Longer
        <5> QED BY <3>2, <3>4 DEF Apply
      <4> HIDE DEF Longer, y
      <4> QED BY <3>3, <4>1, <4>2
    <3>5. CASE m.kind = "SetLen"
      <4> DEFINE y == ApplySetLen(fs[m.ino], m)
      <4>1. Apply(fs, m) = IF IsFile(fs, m.ino) THEN [fs EXCEPT ![m.ino] = y] ELSE fs
        BY <3>5 DEF Apply
      <4>2. Apply(Longer(fs), m) = IF IsFile(fs, m.ino) THEN [Longer(fs) EXCEPT ![m.ino] = y] ELSE Longer(fs)
        <5> HIDE DEF Longer
        <5> QED BY <3>2, <3>5 DEF Apply
      <4> HIDE DEF Longer, y
      <4> QED BY <3>3, <4>1, <4>2
    <3> QED BY <2>4, <3>4, <3>5
  <2> QED BY <2>1, <2>2, <2>3, <2>4 DEF Fits
<1>6. IsImage(Apply(fs, m)) /\ Len(Apply(fs, m)) = N
  BY ApplyKeeps
<1> HIDE DEF Longer
<1> QED BY <1>2, <1>5, <1>6

-----------------------------------------------------------------------------
(* What a run keeps *)

\* Every selected micro-op of the run fits the image.
RunFits(fs, ms, kept, n) == \A k \in 1..n : k \in kept => Fits(ms[k], Len(fs))

\* Along a run the inodes and their kinds stay.
LEMMA RunKeeps ==
    ASSUME NEW fs, IsImage(fs), NEW ms, NEW kept, NEW n \in Nat, RunFits(fs, ms, kept, n),
           NEW f, Steps(f, fs, ms, kept, n)
    PROVE  \A k \in 0..n : /\ IsImage(f[k]) /\ Len(f[k]) = Len(fs)
                           /\ \A i \in 1..Len(fs) : f[k][i].kind = fs[i].kind
<1> DEFINE OK(k) == /\ IsImage(f[k]) /\ Len(f[k]) = Len(fs)
                    /\ \A i \in 1..Len(fs) : f[k][i].kind = fs[i].kind
           S == {k \in 0..n : OK(k)}
<1>1. 0 \in S
  BY DEF Steps
<1>2. ASSUME NEW k \in 0..(n-1), k \in S PROVE k + 1 \in S
  <2>1. k + 1 \in 1..n /\ k + 1 \in 0..n /\ (k + 1) - 1 = k /\ OK(k)
    BY <1>2
  <2>2. f[k+1] = IF k + 1 \in kept THEN Apply(f[k], ms[k+1]) ELSE f[k]
    BY <2>1 DEF Steps
  <2>3. CASE k + 1 \in kept
    <3>1. Fits(ms[k+1], Len(f[k])) /\ f[k+1] = Apply(f[k], ms[k+1])
      BY <2>1, <2>2, <2>3 DEF RunFits
    <3>2. /\ IsImage(f[k+1]) /\ Len(f[k+1]) = Len(f[k])
          /\ \A i \in 1..Len(f[k]) : f[k+1][i].kind = f[k][i].kind
      BY <2>1, <3>1, ApplyKeeps
    <3> QED BY <2>1, <3>2
  <2>4. CASE k + 1 \notin kept
    BY <2>1, <2>2, <2>4
  <2> QED BY <2>3, <2>4
<1>3. 0..n \subseteq S
  <2> HIDE DEF S
  <2> QED BY <1>1, <1>2, UpTo
<1> QED BY <1>3

\* So they do from the image ApplyAll starts with to the one it ends with.
LEMMA ApplyAllKeeps ==
    ASSUME NEW fs, IsImage(fs), NEW ms, NEW kept, Len(ms) \in Nat, RunFits(fs, ms, kept, Len(ms)),
           NEW x, x = ApplyAll(fs, ms, kept)
    PROVE  /\ IsImage(x) /\ Len(x) = Len(fs)
           /\ \A i \in 1..Len(fs) : x[i].kind = fs[i].kind
<1>1. PICK f : Steps(f, fs, ms, kept, Len(ms)) /\ x = f[Len(ms)]
  BY ApplyAllRun
<1> DEFINE n == Len(ms)
<1>2. n \in 0..n
  OBVIOUS
<1>3. n \in Nat /\ RunFits(fs, ms, kept, n) /\ Steps(f, fs, ms, kept, n) /\ x = f[n]
  BY <1>1
<1> HIDE DEF n
<1>4. \A k \in 0..n : /\ IsImage(f[k]) /\ Len(f[k]) = Len(fs)
                       /\ \A i \in 1..Len(fs) : f[k][i].kind = fs[i].kind
  BY <1>3, RunKeeps
<1> QED BY <1>2, <1>3, <1>4

\* A run on a longer image is the run with the new node appended everywhere.
LEMMA RunFrame ==
    ASSUME NEW fs, IsImage(fs), NEW ms, NEW kept, Len(ms) \in Nat, RunFits(fs, ms, kept, Len(ms)),
           NEW node
    PROVE  ApplyAll(Append(fs, node), ms, kept) = Append(ApplyAll(fs, ms, kept), node)
<1> DEFINE n == Len(ms)
<1>1. PICK f : Steps(f, fs, ms, kept, n) /\ ApplyAll(fs, ms, kept) = f[n]
  BY ApplyAllRun
<1>2. \A k \in 0..n : IsImage(f[k]) /\ Len(f[k]) = Len(fs)
  BY <1>1, RunKeeps
<1> DEFINE g == [k \in 0..n |-> Append(f[k], node)]
<1>3. Steps(g, Append(fs, node), ms, kept, n)
  <2>1. g[0] = Append(fs, node)
    BY <1>1 DEF Steps
  <2>2. ASSUME NEW k \in 1..n PROVE g[k] = IF k \in kept THEN Apply(g[k-1], ms[k]) ELSE g[k-1]
    <3>1. k \in 0..n /\ k - 1 \in 0..n
      OBVIOUS
    <3>2. f[k] = IF k \in kept THEN Apply(f[k-1], ms[k]) ELSE f[k-1]
      BY <1>1 DEF Steps
    <3>3. g[k] = Append(f[k], node) /\ g[k-1] = Append(f[k-1], node)
      BY <3>1
    <3>4. ASSUME k \in kept PROVE Apply(Append(f[k-1], node), ms[k]) = Append(Apply(f[k-1], ms[k]), node)
      <4>1. IsImage(f[k-1]) /\ Fits(ms[k], Len(f[k-1]))
        BY <1>2, <3>1, <3>4 DEF RunFits
      <4> QED BY <4>1, ApplyFrame
    <3> HIDE DEF g
    <3> QED BY <3>2, <3>3, <3>4
  <2> QED BY <2>1, <2>2 DEF Steps
<1>4. g[n] = Append(f[n], node)
  OBVIOUS
<1> HIDE DEF g
<1> QED BY <1>1, <1>3, <1>4, StepsGive

\* mm is the first a of ms and then the first b of mt.
Joins(mm, ms, a, mt, b) ==
    /\ \A k \in 1..a : mm[k] = ms[k]
    /\ \A k \in 1..b : mm[a + k] = mt[k]

Follows(mm, ms, mt) == Len(mm) = Len(ms) + Len(mt) /\ Joins(mm, ms, Len(ms), mt, Len(mt))

\* A run begins with the run of what its micro-ops begin with, and goes on
\* with the run of the rest.
LEMMA RunSplit ==
    ASSUME NEW mm, NEW ms, NEW mt, NEW a \in Nat, NEW b \in Nat,
           Joins(mm, ms, a, mt, b),
           NEW fs, NEW n, n = a + b, NEW h, Steps(h, fs, mm, 1..n, n),
           NEW f, Steps(f, fs, ms, 1..a, a), NEW g, Steps(g, f[a], mt, 1..b, b)
    PROVE  h[n] = g[b]
<1>1. Steps(h, fs, mm, 1..n, a)
  BY DEF Steps
<1>2. h[a] = f[a]
  <2>2. \A k \in 0..a : h[k] = f[k]
    <3>1. SameSteps(mm, 1..n, ms, 1..a, a)
      BY DEF SameSteps, Joins
    <3> QED BY <1>1, <3>1, RunsAgree
  <2> QED BY <2>2
<1> DEFINE r == [k \in 0..b |-> h[a + k]]
<1>3. Steps(r, f[a], mt, 1..b, b)
  <2>1. r[0] = f[a]
    BY <1>2
  <2>2. ASSUME NEW k \in 1..b PROVE r[k] = IF k \in 1..b THEN Apply(r[k-1], mt[k]) ELSE r[k-1]
    <3>1. a + k \in 1..n /\ k \in 0..b /\ k - 1 \in 0..b /\ (a + k) - 1 = a + (k - 1)
      OBVIOUS
    <3>2. h[a + k] = Apply(h[(a + k) - 1], mm[a + k]) /\ mm[a + k] = mt[k]
      BY <3>1 DEF Steps, Joins
    <3>3. r[k] = h[a + k] /\ r[k-1] = h[a + (k - 1)]
      BY <3>1
    <3> HIDE DEF r
    <3> QED BY <3>1, <3>2, <3>3
  <2> HIDE DEF r
  <2> QED BY <2>1, <2>2 DEF Steps
<1>4. r[b] = h[n]
  OBVIOUS
<1> HIDE DEF r
<1>5. \A k \in 0..b : r[k] = g[k]
  <2>1. SameSteps(mt, 1..b, mt, 1..b, b)
    BY DEF SameSteps
  <2> QED BY <1>3, <2>1, RunsAgree
<1> QED BY <1>4, <1>5

\* Replaying one sequence after another is replaying both as one.
LEMMA RunConcat ==
    ASSUME NEW fs, NEW ms, NEW mt, NEW mm, Len(ms) \in Nat, Len(mt) \in Nat,
           Follows(mm, ms, mt)
    PROVE  ApplyAll(fs, mm, 1..Len(mm)) =
               ApplyAll(ApplyAll(fs, ms, 1..Len(ms)), mt, 1..Len(mt))
<1>1. PICK f : Steps(f, fs, ms, 1..Len(ms), Len(ms)) /\ ApplyAll(fs, ms, 1..Len(ms)) = f[Len(ms)]
  BY ApplyAllRun
<1>2. PICK g : /\ Steps(g, f[Len(ms)], mt, 1..Len(mt), Len(mt))
               /\ ApplyAll(f[Len(ms)], mt, 1..Len(mt)) = g[Len(mt)]
  BY ApplyAllRun
<1>3. PICK h : Steps(h, fs, mm, 1..Len(mm), Len(mm)) /\ ApplyAll(fs, mm, 1..Len(mm)) = h[Len(mm)]
  <2>1. Len(mm) \in Nat
    BY DEF Follows
  <2> QED BY <2>1, ApplyAllRun
<1>5. h[Len(mm)] = g[Len(mt)]
  <2> DEFINE a == Len(ms)
             b == Len(mt)
             n == Len(mm)
  <2>1. /\ Steps(h, fs, mm, 1..n, n) /\ Joins(mm, ms, a, mt, b)
        /\ Steps(f, fs, ms, 1..a, a) /\ Steps(g, f[a], mt, 1..b, b)
        /\ a \in Nat /\ b \in Nat /\ n = a + b
    BY <1>1, <1>2, <1>3 DEF Follows
  <2> HIDE DEF a, b, n
  <2>2. h[n] = g[b]
    BY <2>1, RunSplit
  <2> QED BY <2>2 DEF b, n
<1> QED BY <1>1, <1>2, <1>3, <1>5

\* The micro-ops about the data of inode ino.
ToFile(m, ino) == m.kind \in {"Write", "SetLen"} /\ m.ino = ino

\* A step of a run changes a file if it is a selected data micro-op about it.
LEMMA FileStep ==
    ASSUME NEW fs, IsImage(fs), NEW ms, NEW n \in Nat, NEW kept, RunFits(fs, ms, kept, n),
           NEW f, Steps(f, fs, ms, kept, n), NEW ino \in 1..Len(fs), fs[ino].kind = "file"
    PROVE  \A k \in 1..n :
              f[k][ino] = IF k \in kept /\ ToFile(ms[k], ino) THEN OnFile(f[k-1][ino], ms[k])
                          ELSE f[k-1][ino]
<1>1. \A k \in 0..n : IsImage(f[k]) /\ Len(f[k]) = Len(fs) /\ f[k][ino].kind = "file"
  BY RunKeeps
<1> SUFFICES ASSUME NEW k \in 1..n
             PROVE  f[k][ino] = IF k \in kept /\ ToFile(ms[k], ino) THEN OnFile(f[k-1][ino], ms[k])
                                ELSE f[k-1][ino]
  OBVIOUS
<1>2. k - 1 \in 0..n
  OBVIOUS
<1>3. f[k] = IF k \in kept THEN Apply(f[k-1], ms[k]) ELSE f[k-1]
  BY DEF Steps
<1>4. CASE k \in kept
  <2>1. Fits(ms[k], Len(f[k-1])) /\ IsImage(f[k-1])
    BY <1>1, <1>2, <1>4 DEF RunFits
  <2>2. f[k] = Apply(f[k-1], ms[k]) /\ ino \in 1..Len(f[k-1]) /\ f[k-1][ino].kind = "file"
    BY <1>1, <1>2, <1>3, <1>4
  <2>3. f[k][ino] = IF ms[k].kind \in {"Write", "SetLen"} /\ ms[k].ino = ino
                    THEN OnFile(f[k-1][ino], ms[k]) ELSE f[k-1][ino]
    BY <2>1, <2>2, ApplyKeeps
  <2> QED BY <1>4, <2>3 DEF ToFile
<1>5. CASE k \notin kept
  BY <1>3, <1>5
<1> QED BY <1>4, <1>5

\* The first n steps do the same to the file ino.
SameOnFile(ino, ms, kept, mt, kt, n) ==
    \A k \in 1..n : /\ (k \in kept /\ ToFile(ms[k], ino)) <=> (k \in kt /\ ToFile(mt[k], ino))
                    /\ (k \in kept /\ ToFile(ms[k], ino)) => ms[k] = mt[k]

\* A file depends on the data micro-ops about it alone: two runs that do the
\* same to it leave the same file, whatever else the images hold.
LEMMA FilesAgree ==
    ASSUME NEW n \in Nat, NEW ino,
           NEW fs, IsImage(fs), NEW ms, NEW kept, RunFits(fs, ms, kept, n),
           NEW f, Steps(f, fs, ms, kept, n), ino \in 1..Len(fs), fs[ino].kind = "file",
           NEW gs, IsImage(gs), NEW mt, NEW kt, RunFits(gs, mt, kt, n),
           NEW g, Steps(g, gs, mt, kt, n), ino \in 1..Len(gs), gs[ino] = fs[ino],
           SameOnFile(ino, ms, kept, mt, kt, n)
    PROVE  \A k \in 0..n : f[k][ino] = g[k][ino]
<1>1. \A k \in 1..n :
         f[k][ino] = IF k \in kept /\ ToFile(ms[k], ino) THEN OnFile(f[k-1][ino], ms[k])
                     ELSE f[k-1][ino]
  BY FileStep
<1>2. \A k \in 1..n :
         g[k][ino] = IF k \in kt /\ ToFile(mt[k], ino) THEN OnFile(g[k-1][ino], mt[k])
                     ELSE g[k-1][ino]
  <2>1. gs[ino].kind = "file"
    OBVIOUS
  <2> QED BY <2>1, FileStep
<1> DEFINE S == {k \in 0..n : f[k][ino] = g[k][ino]}
<1>3. 0 \in S
  BY DEF Steps
<1>4. ASSUME NEW k \in 0..(n-1), k \in S PROVE k + 1 \in S
  <2>1. k + 1 \in 1..n /\ k + 1 \in 0..n /\ (k + 1) - 1 = k /\ f[k][ino] = g[k][ino]
    BY <1>4
  <2>2. f[k+1][ino] = IF k + 1 \in kept /\ ToFile(ms[k+1], ino) THEN OnFile(f[k][ino], ms[k+1])
                      ELSE f[k][ino]
    BY <1>1, <2>1
  <2>3. g[k+1][ino] = IF k + 1 \in kt /\ ToFile(mt[k+1], ino) THEN OnFile(g[k][ino], mt[k+1])
                      ELSE g[k][ino]
    BY <1>2, <2>1
  <2>4. f[k+1][ino] = g[k+1][ino]
    BY <2>1, <2>2, <2>3 DEF SameOnFile
  <2> QED BY <2>1, <2>4
<1>5. 0..n \subseteq S
  <2> HIDE DEF S
  <2> QED BY <1>3, <1>4, UpTo
<1> QED BY <1>5

\* So two selections that agree on those micro-ops leave the same file.
LEMMA SameFile ==
    ASSUME NEW fs, IsImage(fs), NEW ms, NEW n \in Nat, NEW kept, NEW kt,
           RunFits(fs, ms, kept, n), RunFits(fs, ms, kt, n),
           NEW f, NEW g, Steps(f, fs, ms, kept, n), Steps(g, fs, ms, kt, n),
           NEW ino \in 1..Len(fs), fs[ino].kind = "file",
           \A k \in 1..n : ToFile(ms[k], ino) => (k \in kept <=> k \in kt)
    PROVE  \A k \in 0..n : f[k][ino] = g[k][ino]
<1>1. SameOnFile(ino, ms, kept, ms, kt, n)
  BY DEF SameOnFile
<1> QED BY <1>1, FilesAgree

\* t selects what kept selects among the first n.
IsPrefix(t, kept, n) == t = kept \cap (1..n)

\* What the first n micro-ops of a selection make is what its run has after n steps.
LEMMA PrefixRun ==
    ASSUME NEW fs, NEW ms, NEW kept, NEW N \in Nat, N = Len(ms), NEW f, Steps(f, fs, ms, kept, N),
           NEW n \in 0..N, NEW t, IsPrefix(t, kept, n)
    PROVE  ApplyAll(fs, ms, t) = f[n]
<1>0. t = kept \cap (1..n)
  BY DEF IsPrefix
<1> DEFINE g == [k \in 0..N |-> IF k <= n THEN f[k] ELSE f[n]]
<1>1. Steps(g, fs, ms, t, N)
  <2>1. g[0] = fs
    BY DEF Steps
  <2>2. ASSUME NEW k \in 1..N PROVE g[k] = IF k \in t THEN Apply(g[k-1], ms[k]) ELSE g[k-1]
    <3>1. f[k] = IF k \in kept THEN Apply(f[k-1], ms[k]) ELSE f[k-1]
      BY DEF Steps
    <3>2. k \in 0..N /\ k - 1 \in 0..N
      OBVIOUS
    <3>3. CASE k <= n
      <4>1. k - 1 <= n /\ k \in 1..n
        BY <3>3
      <4>2. g[k] = f[k] /\ g[k-1] = f[k-1] /\ (k \in t <=> k \in kept)
        BY <1>0, <3>2, <3>3, <4>1
      <4> HIDE DEF g
      <4> QED BY <3>1, <4>2
    <3>4. CASE ~(k <= n)
      <4>1. g[k-1] = f[n] /\ g[k] = f[n]
        <5>1. CASE k - 1 = n
          BY <3>2, <3>4, <5>1
        <5>2. CASE k - 1 # n
          <6>1. ~(k - 1 <= n)
            BY <3>4, <5>2
          <6> QED BY <3>2, <3>4, <6>1
        <5> QED BY <5>1, <5>2
      <4>2. k \notin t
        BY <1>0, <3>4
      <4> HIDE DEF g
      <4> QED BY <4>1, <4>2
    <3> QED BY <3>3, <3>4
  <2> HIDE DEF g
  <2> QED BY <2>1, <2>2 DEF Steps
<1>2. g[N] = f[n]
  <2>1. CASE N <= n
    <3>1. N = n
      BY <2>1
    <3> QED BY <3>1
  <2>2. CASE ~(N <= n)
    BY <2>2
  <2> QED BY <2>1, <2>2
<1> HIDE DEF g
<1> QED BY <1>1, <1>2, StepsGive

-----------------------------------------------------------------------------
(* The bytes of a file *)

\* The byte of a buffer at k, where a hole reads 0.
ByteAt(buf, k) == IF k <= Len(buf) THEN buf[k] ELSE 0

\* A reader of the file x finds the byte b at k.
Shows(x, k, b) == k \in 1..x.len /\ ByteAt(x.buf, k) = b

TypedFile(x) == x = File(x.buf, x.len) /\ x.buf \in Seq(Nat) /\ x.len \in Nat

\* A file whose buffer is its content.
Whole(x) == TypedFile(x) /\ x.len = Len(x.buf)

FilesWhole(fs) == \A i \in 1..Len(fs) : fs[i].kind = "file" => Whole(fs[i])

\* An image with the same files is as whole.
LEMMA SameFilesWhole ==
    ASSUME NEW fs, NEW gs, FilesWhole(fs), Len(gs) = Len(fs),
           \A i \in 1..Len(fs) : gs[i].kind = fs[i].kind /\ (fs[i].kind = "file" => gs[i] = fs[i])
    PROVE  FilesWhole(gs)
  BY DEF FilesWhole

TypedData(m) ==
    /\ m.kind = "Write" => m.offset \in Nat /\ m.data \in Seq(Nat)
    /\ m.kind = "SetLen" => m.len \in Nat /\ m.keep_tail \in BOOLEAN

\* What a reader finds is the content.
LEMMA ContentOf ==
    ASSUME NEW x, TypedFile(x)
    PROVE  /\ DOMAIN Content(x) = 1..x.len /\ Len(Content(x)) = x.len
           /\ \A k \in 1..x.len : Shows(x, k, Content(x)[k])
<1> DEFINE c == Content(x)
<1>1. x.len \in Nat /\ Len(x.buf) \in Nat
  BY DEF TypedFile
<1>2. c = [k \in 1..x.len |-> ByteAt(x.buf, k)]
  BY DEF Content, Resize, ByteAt
<1> HIDE DEF c
<1>3. c = [k \in 1..x.len |-> c[k]] /\ \A k \in 1..x.len : c[k] = ByteAt(x.buf, k)
  BY <1>2
<1>4. Len(c) = x.len /\ DOMAIN c = 1..x.len
  BY <1>1, <1>3, FunctionIsSeq
<1> QED BY <1>3, <1>4 DEF c, Shows

\* The buffer y is buf with the bytes of data put behind offset.
Overwrites(y, buf, offset, data) ==
    \A k \in Nat \ {0} :
        ByteAt(y, k) = IF offset < k /\ k <= offset + Len(data) THEN data[k - offset]
                       ELSE ByteAt(buf, k)

\* Splicing overwrites the bytes of the piece and leaves the others.
LEMMA SpliceOf ==
    ASSUME NEW buf \in Seq(Nat), NEW offset \in Nat, NEW data \in Seq(Nat),
           NEW y, y = Splice(buf, offset, data)
    PROVE  y \in Seq(Nat) /\ Overwrites(y, buf, offset, data)
<1> DEFINE old == Len(buf)
           end == offset + Len(data)
           N   == IF old < end THEN end ELSE old
           B(k) == IF offset < k /\ k <= end THEN data[k - offset]
                   ELSE IF k <= old THEN buf[k] ELSE 0
<1>1. y = [k \in 1..N |-> B(k)]
  BY DEF Splice
<1>2. old \in Nat /\ end \in Nat /\ N \in Nat /\ old <= N /\ end <= N
  OBVIOUS
<1>3. ASSUME NEW k \in 1..N PROVE B(k) \in Nat
  <2>1. CASE offset < k /\ k <= end
    <3>1. k - offset \in 1..Len(data)
      BY <1>2, <2>1
    <3> QED BY <2>1, <3>1
  <2>2. CASE ~(offset < k /\ k <= end)
    <3>1. k <= old => k \in 1..Len(buf)
      BY <1>2
    <3> QED BY <2>2, <3>1
  <2> QED BY <2>1, <2>2
<1> HIDE DEF N, B
<1>4. y \in [1..N -> Nat]
  BY <1>1, <1>3
<1>5. y \in Seq(Nat) /\ Len(y) = N
  BY <1>2, <1>4
<1>6. ASSUME NEW k \in Nat \ {0}
      PROVE  ByteAt(y, k) = IF offset < k /\ k <= end THEN data[k - offset] ELSE ByteAt(buf, k)
  <2>1. CASE k <= N
    <3>1. k \in 1..N
      BY <1>2, <2>1
    <3>2. ByteAt(y, k) = B(k)
      BY <1>1, <1>5, <2>1, <3>1 DEF ByteAt
    <3> QED BY <3>2 DEF B, ByteAt
  <2>2. CASE ~(k <= N)
    <3>1. ~(k <= end) /\ ~(k <= old)
      BY <1>2, <2>2
    <3> QED BY <1>5, <2>2, <3>1 DEF ByteAt
  <2> QED BY <2>1, <2>2
<1> QED BY <1>5, <1>6 DEF Overwrites

\* Setting the length cuts what is behind the old and the new one, unless the
\* tail is kept by a length that does not shrink.
LEMMA SetLenOf ==
    ASSUME NEW x, TypedFile(x), NEW m, m.len \in Nat, m.keep_tail \in BOOLEAN,
           NEW y, y = ApplySetLen(x, m)
    PROVE  /\ TypedFile(y) /\ y.len = m.len
           /\ \A k \in Nat \ {0} :
                 ByteAt(y.buf, k) = IF \/ k <= m.len /\ k <= x.len
                                       \/ m.keep_tail /\ x.len <= m.len
                                    THEN ByteAt(x.buf, k) ELSE 0
<1> DEFINE keep == IF m.len < x.len THEN m.len ELSE x.len
           cut  == m.len < x.len \/ ~m.keep_tail
           short == cut /\ keep < Len(x.buf)
           buf  == IF short THEN SubSeq(x.buf, 1, keep) ELSE x.buf
<1>1. y = File(buf, m.len)
  BY DEF ApplySetLen
<1>2. x.buf \in Seq(Nat) /\ x.len \in Nat /\ Len(x.buf) \in Nat /\ keep \in Nat
  BY DEF TypedFile
<1>3. y.buf = buf /\ y.len = m.len
  BY <1>1 DEF File
<1>4. CASE short
  <2> HIDE DEF keep
  <2>1. buf = SubSeq(x.buf, 1, keep)
    BY <1>4
  <2>2. buf \in Seq(Nat) /\ Len(buf) = keep /\ \A k \in 1..keep : buf[k] = x.buf[k]
    BY <1>2, <1>4, <2>1
  <2>3. TypedFile(y)
    BY <1>1, <1>3, <2>2 DEF TypedFile
  <2> HIDE DEF buf
  <2>4. ASSUME NEW k \in Nat \ {0}
        PROVE  ByteAt(buf, k) = IF k <= keep THEN ByteAt(x.buf, k) ELSE 0
    <3>1. k <= keep => k \in 1..keep /\ k <= Len(x.buf)
      BY <1>2, <1>4
    <3> QED BY <2>2, <3>1 DEF ByteAt
  <2>5. ASSUME NEW k \in Nat \ {0}
        PROVE  k <= keep <=> \/ k <= m.len /\ k <= x.len
                             \/ m.keep_tail /\ x.len <= m.len
    BY <1>2, <1>4 DEF keep
  <2> QED BY <1>3, <2>3, <2>4, <2>5
<1>5. CASE ~short
  <2>1. buf = x.buf
    BY <1>5
  <2>2. TypedFile(y)
    BY <1>1, <1>2, <1>3, <2>1 DEF TypedFile
  <2>3. ASSUME NEW k \in Nat \ {0}
        PROVE  ByteAt(x.buf, k) = IF \/ k <= m.len /\ k <= x.len
                                     \/ m.keep_tail /\ x.len <= m.len
                                  THEN ByteAt(x.buf, k) ELSE 0
    <3>1. CASE ~cut
      <4>1. m.keep_tail /\ x.len <= m.len
        BY <1>2, <3>1
      <4> QED BY <4>1
    <3>2. CASE cut
      <4>1. Len(x.buf) <= keep
        BY <1>2, <1>5, <3>2
      <4>2. CASE k <= keep
        <5>1. k <= m.len /\ k <= x.len
          BY <1>2, <4>2
        <5> QED BY <5>1
      <4>3. CASE ~(k <= keep)
        <5>1. ~(k <= Len(x.buf))
          BY <1>2, <4>1, <4>3
        <5> QED BY <5>1 DEF ByteAt
      <4> QED BY <4>2, <4>3
    <3> QED BY <3>1, <3>2
  <2> QED BY <1>3, <2>1, <2>2, <2>3
<1> QED BY <1>4, <1>5

\* A write on a typed file leaves its length.
LEMMA WriteOf ==
    ASSUME NEW x, TypedFile(x), NEW m, m.kind = "Write", m.offset \in Nat, m.data \in Seq(Nat),
           NEW y, y = OnFile(x, m)
    PROVE  TypedFile(y) /\ y.len = x.len /\ Overwrites(y.buf, x.buf, m.offset, m.data)
<1> DEFINE b == Splice(x.buf, m.offset, m.data)
<1>1. y = [x EXCEPT !.buf = b]
  BY DEF OnFile
<1>2. b \in Seq(Nat) /\ Overwrites(b, x.buf, m.offset, m.data)
  <2> DEFINE buf  == x.buf
             data == m.data
             o    == m.offset
  <2>1. buf \in Seq(Nat) /\ data \in Seq(Nat) /\ o \in Nat /\ b = Splice(buf, o, data)
    BY DEF TypedFile
  <2> HIDE DEF b, buf, data, o
  <2>2. b \in Seq(Nat) /\ Overwrites(b, buf, o, data)
    BY <2>1, SpliceOf
  <2> QED BY <2>2 DEF buf, data, o
<1> HIDE DEF b
<1>3. y = File(b, x.len)
  <2>1. x = File(x.buf, x.len)
    BY DEF TypedFile
  <2>2. [File(x.buf, x.len) EXCEPT !.buf = b] = File(b, x.len)
    BY DEF File
  <2> QED BY <1>1, <2>1, <2>2
<1>4. y.buf = b /\ y.len = x.len
  BY <1>3 DEF File
<1> QED BY <1>2, <1>3, <1>4 DEF TypedFile

\* Along a run of typed micro-ops a typed file stays one.
LEMMA FilesTyped ==
    ASSUME NEW fs, IsImage(fs), NEW ms, NEW n \in Nat, NEW kept, RunFits(fs, ms, kept, n),
           NEW f, Steps(f, fs, ms, kept, n), NEW ino \in 1..Len(fs), fs[ino].kind = "file",
           TypedFile(fs[ino]), \A k \in 1..n : TypedData(ms[k])
    PROVE  \A k \in 0..n : TypedFile(f[k][ino])
<1>1. \A k \in 1..n :
         f[k][ino] = IF k \in kept /\ ToFile(ms[k], ino) THEN OnFile(f[k-1][ino], ms[k])
                     ELSE f[k-1][ino]
  BY FileStep
<1> DEFINE S == {k \in 0..n : TypedFile(f[k][ino])}
<1>2. 0 \in S
  BY DEF Steps
<1>3. ASSUME NEW k \in 0..(n-1), k \in S PROVE k + 1 \in S
  <2>1. k + 1 \in 1..n /\ k + 1 \in 0..n /\ (k + 1) - 1 = k /\ TypedFile(f[k][ino])
    BY <1>3
  <2>2. f[k+1][ino] = IF k + 1 \in kept /\ ToFile(ms[k+1], ino) THEN OnFile(f[k][ino], ms[k+1])
                      ELSE f[k][ino]
    BY <1>1, <2>1
  <2>3. ASSUME ToFile(ms[k+1], ino) PROVE TypedFile(OnFile(f[k][ino], ms[k+1]))
    <3>1. TypedData(ms[k+1])
      BY <2>1
    <3>2. CASE ms[k+1].kind = "Write"
      <4>1. ms[k+1].offset \in Nat /\ ms[k+1].data \in Seq(Nat)
        BY <3>1, <3>2 DEF TypedData
      <4> QED BY <2>1, <3>2, <4>1, WriteOf
    <3>3. CASE ms[k+1].kind = "SetLen"
      <4>1. ms[k+1].len \in Nat /\ ms[k+1].keep_tail \in BOOLEAN
        BY <3>1, <3>3 DEF TypedData
      <4>2. OnFile(f[k][ino], ms[k+1]) = ApplySetLen(f[k][ino], ms[k+1])
        BY <3>3 DEF OnFile
      <4> QED BY <2>1, <4>1, <4>2, SetLenOf
    <3> QED BY <2>3, <3>2, <3>3 DEF ToFile
  <2> QED BY <2>1, <2>2, <2>3
<1>4. 0..n \subseteq S
  <2> HIDE DEF S
  <2> QED BY <1>2, <1>3, UpTo
<1> QED BY <1>4

\* The micro-op m writes a piece of data, that starts at offset of the file ino.
Piece(m, ino, offset, data) ==
    /\ m.kind = "Write" /\ m.ino = ino /\ m.offset \in Nat /\ m.data \in Seq(Nat)
    /\ offset <= m.offset /\ m.offset + Len(m.data) <= offset + Len(data)
    /\ \A i \in 1..Len(m.data) : m.data[i] = data[(m.offset - offset) + i]

\* The buffer has the bytes the piece m wrote.
Holds(buf, m) == \A i \in 1..Len(m.data) : ByteAt(buf, m.offset + i) = m.data[i]

\* Writing another piece of the same data leaves those bytes.
LEMMA PiecesAgree ==
    ASSUME NEW ino, NEW offset \in Nat, NEW data \in Seq(Nat), NEW x, TypedFile(x),
           NEW m, Piece(m, ino, offset, data), NEW w, Piece(w, ino, offset, data),
           w = m \/ Holds(x.buf, w),
           NEW y, y = OnFile(x, m)
    PROVE  Holds(y.buf, w)
<1>1. /\ m.offset \in Nat /\ Len(m.data) \in Nat /\ w.offset \in Nat /\ Len(w.data) \in Nat
      /\ offset <= m.offset /\ offset <= w.offset
  BY DEF Piece
<1>2. Overwrites(y.buf, x.buf, m.offset, m.data)
  BY WriteOf DEF Piece
<1>3. ASSUME NEW i \in 1..Len(w.data) PROVE ByteAt(y.buf, w.offset + i) = w.data[i]
  <2> DEFINE k == w.offset + i
  <2>1. k \in Nat \ {0}
    BY <1>1
  <2>2. CASE m.offset < k /\ k <= m.offset + Len(m.data)
    <3>1. k - m.offset \in 1..Len(m.data)
      BY <1>1, <2>2
    <3>2. m.data[k - m.offset] = data[(m.offset - offset) + (k - m.offset)]
      BY <3>1 DEF Piece
    <3>3. w.data[i] = data[(w.offset - offset) + i]
      BY DEF Piece
    <3>4. (m.offset - offset) + (k - m.offset) = (w.offset - offset) + i
      BY <1>1
    <3> QED BY <1>2, <2>1, <2>2, <3>2, <3>3, <3>4 DEF Overwrites
  <2>3. CASE ~(m.offset < k /\ k <= m.offset + Len(m.data))
    <3>1. w # m
      BY <1>1, <2>3
    <3> QED BY <1>2, <2>1, <2>3, <3>1 DEF Holds, Overwrites
  <2> QED BY <2>2, <2>3
<1> QED BY <1>3 DEF Holds

\* A file that gets piece after piece has the bytes of each, and its old length.
LEMMA PiecesHeld ==
    ASSUME NEW ino, NEW offset \in Nat, NEW data \in Seq(Nat),
           NEW ms, NEW n \in Nat, \A k \in 1..n : Piece(ms[k], ino, offset, data),
           NEW h, TypedFile(h[0]), \A k \in 1..n : h[k] = OnFile(h[k-1], ms[k])
    PROVE  /\ TypedFile(h[n]) /\ h[n].len = h[0].len
           /\ \A j \in 1..n : Holds(h[n].buf, ms[j])
<1> DEFINE OK(k) == /\ TypedFile(h[k]) /\ h[k].len = h[0].len
                    /\ \A j \in 1..k : Holds(h[k].buf, ms[j])
           S == {k \in 0..n : OK(k)}
<1>2. 0 \in S
  OBVIOUS
<1>3. ASSUME NEW k \in 0..(n-1), k \in S PROVE k + 1 \in S
  <2>1. k + 1 \in 1..n /\ k + 1 \in 0..n /\ (k + 1) - 1 = k /\ OK(k)
    BY <1>3
  <2>2. Piece(ms[k+1], ino, offset, data)
    BY <2>1
  <2>3. h[k+1] = OnFile(h[k], ms[k+1])
    BY <2>1
  <2>4. TypedFile(h[k+1]) /\ h[k+1].len = h[k].len
    BY <2>1, <2>2, <2>3, WriteOf DEF Piece
  <2>5. ASSUME NEW j \in 1..(k+1) PROVE Holds(h[k+1].buf, ms[j])
    <3>1. j \in 1..n /\ (j = k + 1 \/ j \in 1..k)
      BY <2>1
    <3>2. Piece(ms[j], ino, offset, data) /\ (ms[j] = ms[k+1] \/ Holds(h[k].buf, ms[j]))
      BY <2>1, <3>1
    <3> QED BY <2>1, <2>2, <2>3, <3>2, PiecesAgree
  <2> QED BY <2>1, <2>4, <2>5
<1>4. 0..n \subseteq S
  <2> HIDE DEF S
  <2> QED BY <1>2, <1>3, UpTo
<1>5. n \in S
  BY <1>4
<1> QED BY <1>5

-----------------------------------------------------------------------------
(* Lookup *)

\* f holds the inode reached after each of the first n names of path.
IsWay(f, fs, path, n) ==
    f = [k \in 0..n |->
            IF k = 0 THEN Root
            ELSE IF IsDir(fs, f[k-1]) THEN fs[f[k-1]].entries[path[k]]
            ELSE NoIno]

\* The recursive function of Lookup exists, by induction on the path.
LEMMA WayExists ==
    ASSUME NEW fs, NEW path, NEW n \in Nat
    PROVE  \E f : IsWay(f, fs, path, n)
<1> DEFINE S == {k \in 0..n : \E f : IsWay(f, fs, path, k)}
<1>1. 0 \in S
  <2> DEFINE f == [k \in 0..0 |-> Root]
  <2>1. IsWay(f, fs, path, 0)
    BY DEF IsWay
  <2> QED BY <2>1
<1>2. ASSUME NEW k \in 0..(n-1), k \in S PROVE k + 1 \in S
  <2>1. PICK f : IsWay(f, fs, path, k)
    BY <1>2
  <2> DEFINE g == [j \in 0..(k+1) |->
                     IF j = k + 1
                     THEN IF IsDir(fs, f[k]) THEN fs[f[k]].entries[path[j]] ELSE NoIno
                     ELSE f[j]]
  <2>2. IsWay(g, fs, path, k + 1)
    <3>1. \A j \in 0..k :
             f[j] = IF j = 0 THEN Root
                    ELSE IF IsDir(fs, f[j-1]) THEN fs[f[j-1]].entries[path[j]] ELSE NoIno
      BY <2>1 DEF IsWay
    <3>2. \A j \in 0..k : g[j] = f[j]
      OBVIOUS
    <3>3. \A j \in 0..(k+1) :
             g[j] = IF j = 0 THEN Root
                    ELSE IF IsDir(fs, g[j-1]) THEN fs[g[j-1]].entries[path[j]] ELSE NoIno
      BY <3>1, <3>2
    <3> HIDE DEF g
    <3>4. g = [j \in 0..(k+1) |-> g[j]]
      BY DEF g
    <3> QED BY <3>3, <3>4 DEF IsWay
  <2> HIDE DEF g
  <2> QED BY <2>2, <1>2
<1>3. n \in S
  <2> HIDE DEF S
  <2> QED BY <1>1, <1>2, UpTo
<1> QED BY <1>3

\* A path leads to an inode of the image or to none.
LEMMA LookupIn ==
    ASSUME NEW fs, IsImage(fs), Len(fs) # 0, NEW path \in Seq(Names)
    PROVE  Lookup(fs, path) \in 0..Len(fs)
<1> DEFINE n == Len(path)
           f == CHOOSE g : IsWay(g, fs, path, n)
<1>1. IsWay(f, fs, path, n)
  <2>1. n \in Nat
    OBVIOUS
  <2> HIDE DEF n
  <2> QED BY <2>1, WayExists
<1>2. Lookup(fs, path) = f[n]
  BY DEF Lookup, IsWay
<1> HIDE DEF f
<1>3. /\ f[0] = Root
      /\ \A k \in 1..n : f[k] = IF IsDir(fs, f[k-1]) THEN fs[f[k-1]].entries[path[k]] ELSE NoIno
  <2>1. n \in Nat
    OBVIOUS
  <2> HIDE DEF n
  <2>2. \A k \in 0..n :
           f[k] = IF k = 0 THEN Root
                  ELSE IF IsDir(fs, f[k-1]) THEN fs[f[k-1]].entries[path[k]] ELSE NoIno
    BY <1>1 DEF IsWay
  <2>3. 0 \in 0..n /\ \A k \in 1..n : k \in 0..n /\ k # 0
    BY <2>1
  <2> QED BY <2>2, <2>3
<1>4. Len(fs) \in Nat
  BY ImageShape
<1> DEFINE S == {k \in 0..n : f[k] \in 0..Len(fs)}
<1>5. 0 \in S
  BY <1>3, <1>4 DEF Root
<1>6. ASSUME NEW k \in 0..(n-1), k \in S PROVE k + 1 \in S
  <2>1. k + 1 \in 1..n /\ k + 1 \in 0..n /\ (k + 1) - 1 = k /\ f[k] \in 0..Len(fs)
    BY <1>6
  <2>2. f[k+1] = IF IsDir(fs, f[k]) THEN fs[f[k]].entries[path[k+1]] ELSE NoIno
    <3>1. f[k+1] = IF IsDir(fs, f[(k+1)-1]) THEN fs[f[(k+1)-1]].entries[path[k+1]] ELSE NoIno
      BY <1>3, <2>1
    <3> QED BY <2>1, <3>1
  <2>3. CASE IsDir(fs, f[k])
    <3>1. f[k] \in 1..Len(fs) /\ fs[f[k]].kind = "dir"
      BY <1>4, <2>1, <2>3 DEF IsDir, NoIno
    <3>2. fs[f[k]].entries \in [Names -> 0..Len(fs)]
      BY <3>1, ImageShape
    <3>3. path[k+1] \in Names
      BY <2>1
    <3>4. f[k+1] \in 0..Len(fs)
      BY <2>2, <2>3, <3>2, <3>3
    <3> QED BY <2>1, <3>4
  <2>4. CASE ~IsDir(fs, f[k])
    BY <1>4, <2>1, <2>2, <2>4 DEF NoIno
  <2> QED BY <2>3, <2>4
<1>7. n \in 0..n /\ n \in Nat
  OBVIOUS
<1>8. 0..n \subseteq S
  <2> HIDE DEF S, n
  <2> QED BY <1>5, <1>6, <1>7, UpTo
<1>9. n \in S
  BY <1>7, <1>8
<1> QED BY <1>2, <1>9

\* The parent of a path is a path.
LEMMA ParentIsPath ==
    ASSUME NEW path \in Seq(Names)
    PROVE  Parent(path) \in Seq(Names)
<1>1. CASE Len(path) = 0
  BY <1>1 DEF Parent
<1>2. CASE Len(path) # 0
  BY <1>2 DEF Parent
<1> QED BY <1>1, <1>2

-----------------------------------------------------------------------------
(* The image of a tree *)

\* Where two paths differ first decides their order.
Differs(p, q, k) ==
    /\ k \in 1..Len(p) /\ k \in 1..Len(q) /\ p[k] < q[k]
    /\ \A l \in 1..(k-1) : p[l] = q[l]

Begins(p, q) == Len(p) < Len(q) /\ \A l \in 1..Len(p) : p[l] = q[l]

\* The order of paths, name by name.
LEMMA PathLessMeans ==
    ASSUME NEW p \in Seq(Nat), NEW q \in Seq(Nat)
    PROVE  PathLess(p, q) <=> Begins(p, q) \/ \E k : Differs(p, q, k)
<1>1. Inside(p, q) <=> Begins(p, q)
  <2>1. ASSUME Len(p) < Len(q) PROVE SubSeq(q, 1, Len(p)) = p <=> \A l \in 1..Len(p) : p[l] = q[l]
    <3> DEFINE s == SubSeq(q, 1, Len(p))
    <3>1. s \in Seq(Nat) /\ Len(s) = Len(p) /\ \A l \in 1..Len(p) : s[l] = q[l]
      BY <2>1
    <3> HIDE DEF s
    <3>2. s = [l \in 1..Len(p) |-> s[l]] /\ p = [l \in 1..Len(p) |-> p[l]]
      BY <3>1, SeqAsFunction
    <3>3. (\A l \in 1..Len(p) : p[l] = q[l]) => s = p
      BY <3>1, <3>2
    <3>4. s = p => \A l \in 1..Len(p) : p[l] = q[l]
      BY <3>1
    <3> QED BY <3>3, <3>4 DEF s
  <2> QED BY <2>1 DEF Inside, Begins
<1>2. (\E k \in DOMAIN p \cap DOMAIN q : p[k] < q[k] /\ \A l \in 1..(k-1) : p[l] = q[l])
        <=> \E k : Differs(p, q, k)
  <2>1. DOMAIN p \cap DOMAIN q = {k \in 1..Len(p) : k \in 1..Len(q)}
    OBVIOUS
  <2>2. \A k : Differs(p, q, k) <=>
              k \in DOMAIN p \cap DOMAIN q /\ p[k] < q[k] /\ \A l \in 1..(k-1) : p[l] = q[l]
    BY <2>1 DEF Differs
  <2> QED BY <2>2
<1> QED BY <1>1, <1>2 DEF PathLess

\* Different paths are ordered.
LEMMA PathsCompare ==
    ASSUME NEW p \in Seq(Nat), NEW q \in Seq(Nat), p # q
    PROVE  PathLess(p, q) \/ PathLess(q, p)
<1> DEFINE n == IF Len(p) < Len(q) THEN Len(p) ELSE Len(q)
           D == {k \in 1..n : p[k] # q[k]}
<1>1. n \in Nat /\ n <= Len(p) /\ n <= Len(q) /\ (n = Len(p) \/ n = Len(q))
  OBVIOUS
<1>2. CASE D = {}
  <2>1. \A l \in 1..n : p[l] = q[l]
    BY <1>2
  <2>2. Len(p) # Len(q)
    <3>1. ASSUME Len(p) = Len(q) PROVE FALSE
      <4>1. \A l \in 1..Len(p) : p[l] = q[l]
        BY <2>1, <3>1
      <4>2. p = [l \in 1..Len(p) |-> p[l]] /\ q = [l \in 1..Len(p) |-> q[l]]
        BY <3>1, SeqAsFunction
      <4>3. p = q
        BY <4>1, <4>2
      <4> QED BY <4>3
    <3> QED BY <3>1
  <2>3. Begins(p, q) \/ Begins(q, p)
    BY <1>1, <2>1, <2>2 DEF Begins
  <2> QED BY <2>3, PathLessMeans
<1>3. CASE D # {}
  <2>1. D \subseteq Nat
    OBVIOUS
  <2>2. PICK k \in D : \A l \in D : k <= l
    <3> HIDE DEF D
    <3> QED BY <1>3, <2>1, LeastOf
  <2>3. k \in 1..Len(p) /\ k \in 1..Len(q) /\ p[k] # q[k] /\ p[k] \in Nat /\ q[k] \in Nat
    BY <1>1, <2>2
  <2>4. \A l \in 1..(k-1) : p[l] = q[l]
    BY <1>1, <2>2
  <2>5. Differs(p, q, k) \/ Differs(q, p, k)
    BY <2>3, <2>4 DEF Differs
  <2> QED BY <2>5, PathLessMeans
<1> QED BY <1>2, <1>3

\* The order of paths is transitive.
LEMMA PathsChain ==
    ASSUME NEW p \in Seq(Nat), NEW q \in Seq(Nat), NEW r \in Seq(Nat),
           PathLess(p, q), PathLess(q, r)
    PROVE  PathLess(p, r)
<1>1. \A s \in {p, q, r} : Len(s) \in Nat /\ \A k \in 1..Len(s) : s[k] \in Nat
  OBVIOUS
<1>2. CASE Begins(p, q) /\ Begins(q, r)
  <2>1. Begins(p, r)
    BY <1>1, <1>2 DEF Begins
  <2> QED BY <2>1, PathLessMeans
<1>3. ASSUME Begins(p, q), NEW k, Differs(q, r, k) PROVE PathLess(p, r)
  <2>1. CASE k <= Len(p)
    <3>1. Differs(p, r, k)
      BY <1>1, <1>3, <2>1 DEF Begins, Differs
    <3> QED BY <3>1, PathLessMeans
  <2>2. CASE ~(k <= Len(p))
    <3>1. Begins(p, r)
      BY <1>1, <1>3, <2>2 DEF Begins, Differs
    <3> QED BY <3>1, PathLessMeans
  <2> QED BY <2>1, <2>2
<1>4. ASSUME NEW k, Differs(p, q, k), Begins(q, r) PROVE PathLess(p, r)
  <2>1. Differs(p, r, k)
    BY <1>1, <1>4 DEF Begins, Differs
  <2> QED BY <2>1, PathLessMeans
<1>5. ASSUME NEW k, Differs(p, q, k), NEW j, Differs(q, r, j) PROVE PathLess(p, r)
  <2>1. CASE k <= j
    <3>1. k \in 1..Len(p) /\ k \in 1..Len(r)
      BY <1>1, <1>5, <2>1 DEF Differs
    <3>2. p[k] < r[k]
      <4>1. p[k] < q[k] /\ (q[k] = r[k] \/ q[k] < r[k]) /\ k \in 1..Len(q)
        BY <1>1, <1>5, <2>1 DEF Differs
      <4>2. p[k] \in Nat /\ q[k] \in Nat /\ r[k] \in Nat
        BY <1>1, <3>1, <4>1
      <4> QED
        <5>1. \A a, b, c \in Nat : a < b /\ (b = c \/ b < c) => a < c
          OBVIOUS
        <5> QED BY <4>1, <4>2, <5>1
    <3>3. \A l \in 1..(k-1) : p[l] = r[l]
      BY <1>1, <1>5, <2>1 DEF Differs
    <3>4. Differs(p, r, k)
      BY <3>1, <3>2, <3>3 DEF Differs
    <3> QED BY <3>4, PathLessMeans
  <2>2. CASE ~(k <= j)
    <3>1. /\ j \in 1..Len(q) /\ j \in 1..Len(r) /\ k \in 1..Len(p) /\ j < k
          /\ q[j] < r[j] /\ \A l \in 1..(j-1) : q[l] = r[l]
      BY <1>1, <1>5, <2>2 DEF Differs
    <3>2. \A l \in 1..(k-1) : p[l] = q[l]
      BY <1>5 DEF Differs
    <3>3. j \in 1..Len(p) /\ p[j] = q[j]
      BY <1>1, <3>1, <3>2
    <3>4. \A l \in 1..(j-1) : p[l] = r[l]
      BY <3>1, <3>2
    <3>5. Differs(p, r, j)
      BY <3>1, <3>3, <3>4 DEF Differs
    <3> QED BY <3>5, PathLessMeans
  <2> QED BY <1>5, <2>1, <2>2
<1> QED BY <1>2, <1>3, <1>4, <1>5, PathLessMeans

\* Names are ranks, so a path is a sequence of numbers.
LEMMA PathOfNats ==
    ASSUME NEW x \in Seq(Names)
    PROVE  x \in Seq(Nat)
<1>1. Len(x) \in Nat /\ x = [k \in 1..Len(x) |-> x[k]] /\ \A k \in 1..Len(x) : x[k] \in Names
  OBVIOUS
<1>2. \A k \in 1..Len(x) : x[k] \in Nat
  <2>1. Names \subseteq Nat
    BY NamesAssumption
  <2> QED BY <1>1, <2>1
<1> QED BY <1>1, <1>2

\* Sorting the paths of a tree lists each of them once, in order.
LEMMA SortedPaths ==
    ASSUME NEW S, S \subseteq Seq(Names), IsFiniteSet(S)
    PROVE  /\ Cardinality(S) \in Nat /\ Len(Sorted(S, PathLess)) = Cardinality(S)
           /\ \A k \in 1..Cardinality(S) : Sorted(S, PathLess)[k] \in S
           /\ \A k, l \in 1..Cardinality(S) :
                 /\ Sorted(S, PathLess)[k] = Sorted(S, PathLess)[l] => k = l
                 /\ PathLess(Sorted(S, PathLess)[k], Sorted(S, PathLess)[l]) => k < l
           /\ \A x \in S : \E k \in 1..Cardinality(S) : Sorted(S, PathLess)[k] = x
<1> DEFINE R     == {e \in S \X S : PathLess(e[1], e[2])}
           at(k) == CHOOSE x \in S : Cardinality({y \in S : PathLess(y, x)}) = k - 1
<1>1. S \subseteq Seq(Nat)
  <2> HIDE DEF R, at
  <2> QED BY PathOfNats
<1>2. Orders(S, R)
  <2>1. \A x, y \in S : <<x, y>> \in R <=> PathLess(x, y)
    OBVIOUS
  <2>2. ASSUME NEW x \in S PROVE ~PathLess(x, x)
    <3>1. x \in Seq(Nat)
      BY <1>1
    <3>2. ~Begins(x, x) /\ \A k : ~Differs(x, x, k)
      BY <3>1 DEF Begins, Differs
    <3> QED BY <3>1, <3>2, PathLessMeans
  <2>3. ASSUME NEW x \in S, NEW y \in S, NEW z \in S, PathLess(x, y), PathLess(y, z)
        PROVE  PathLess(x, z)
    <3>1. x \in Seq(Nat) /\ y \in Seq(Nat) /\ z \in Seq(Nat)
      BY <1>1
    <3> QED BY <2>3, <3>1, PathsChain
  <2>4. ASSUME NEW x \in S, NEW y \in S, x # y PROVE PathLess(x, y) \/ PathLess(y, x)
    <3>1. x \in Seq(Nat) /\ y \in Seq(Nat)
      BY <1>1
    <3> QED BY <2>4, <3>1, PathsCompare
  <2> HIDE DEF R
  <2> QED BY <2>1, <2>2, <2>3, <2>4 DEF Orders
<1> DEFINE less(x) == {y \in S : PathLess(y, x)}
<1>3. ASSUME NEW k \in 1..Cardinality(S) PROVE at(k) \in S /\ Cardinality(less(at(k))) = k - 1
  <2>1. \E x \in S : Cardinality(Below(S, R, x)) = k - 1
    <3> HIDE DEF R, at
    <3> QED BY <1>2, RankTaken
  <2>2. \A x \in S : Below(S, R, x) = {y \in S : PathLess(y, x)}
    BY DEF Below
  <2>3. \E x \in S : Cardinality({y \in S : PathLess(y, x)}) = k - 1
    BY <2>1, <2>2
  <2> QED BY <2>3
<1>4. Sorted(S, PathLess) = [k \in 1..Cardinality(S) |-> at(k)]
  BY DEF Sorted
<1>5. Cardinality(S) \in Nat
  BY FS_CardinalityType
<1> HIDE DEF at
<1>6. Len([k \in 1..Cardinality(S) |-> at(k)]) = Cardinality(S)
  BY <1>5
<1>7. \A k \in 1..Cardinality(S) : at(k) \in S
  BY <1>3
<1>8. ASSUME NEW k \in 1..Cardinality(S), NEW l \in 1..Cardinality(S), at(k) = at(l) PROVE k = l
  <2>1. k - 1 = l - 1
    BY <1>3, <1>8
  <2> QED BY <1>5, <2>1
<1>9. ASSUME NEW k \in 1..Cardinality(S), NEW l \in 1..Cardinality(S), PathLess(at(k), at(l))
      PROVE  k < l
  <2>1. ASSUME NEW y \in less(at(k)) PROVE y \in less(at(l))
    <3>1. <<y, at(k)>> \in R /\ <<at(k), at(l)>> \in R /\ y \in S
      BY <1>7, <1>9
    <3>2. <<y, at(l)>> \in R
      BY <1>2, <1>7, <3>1 DEF Orders
    <3> QED BY <3>1, <3>2
  <2>2. IsFiniteSet(less(at(l))) /\ less(at(k)) \subseteq less(at(l))
    <3>1. less(at(l)) \subseteq S
      OBVIOUS
    <3>2. IsFiniteSet(less(at(l)))
      BY <3>1, FS_Subset
    <3> QED BY <2>1, <3>2
  <2>3. at(k) # at(l)
    <3>1. <<at(l), at(l)>> \notin R
      BY <1>2, <1>7 DEF Orders
    <3> QED BY <1>7, <1>9, <3>1
  <2>4. Cardinality(less(at(k))) <= Cardinality(less(at(l)))
    <3> HIDE DEF less
    <3> QED BY <2>2, FS_Subset
  <2>5. k - 1 <= l - 1 /\ k # l
    BY <1>3, <2>3, <2>4
  <2> QED BY <1>5, <2>5
<1>10. ASSUME NEW x \in S PROVE \E k \in 1..Cardinality(S) : at(k) = x
  <2> DEFINE f == [k \in 1..Cardinality(S) |-> at(k)]
  <2>1. IsFiniteSet(1..Cardinality(S)) /\ Cardinality(1..Cardinality(S)) = Cardinality(S)
    BY FS_CardinalityType, FS_Interval
  <2>2. f \in Injection(1..Cardinality(S), S)
    <3>1. f \in [1..Cardinality(S) -> S]
      BY <1>7
    <3>2. \A k, l \in 1..Cardinality(S) : f[k] = f[l] => k = l
      BY <1>8
    <3> HIDE DEF f
    <3> QED BY <3>1, <3>2 DEF Injection, IsInjective
  <2>3. f \in Surjection(1..Cardinality(S), S)
    <3> HIDE DEF f
    <3> QED BY <2>1, <2>2, FS_Injection
  <2>4. \E k \in 1..Cardinality(S) : f[k] = x
    <3> HIDE DEF f
    <3> QED BY <2>3 DEF Surjection
  <2> QED BY <2>4
<1>11. \A k \in 1..Cardinality(S) : Sorted(S, PathLess)[k] = at(k)
  BY <1>4
<1> QED BY <1>4, <1>5, <1>6, <1>7, <1>8, <1>9, <1>10, <1>11

\* One node more, entered into the directory it is in.
Planted(fs, tree, p) ==
    SetEntry(Append(fs, IF tree[p].kind = "dir" THEN EmptyDir
                        ELSE File(tree[p].data, Len(tree[p].data))),
             Lookup(fs, Parent(p)), BaseName(p), Len(fs) + 1)

IsGrowth(f, tree, paths, n) ==
    f = [k \in 0..n |-> IF k = 0 THEN <<EmptyDir>> ELSE Planted(f[k-1], tree, paths[k])]

\* The recursive function of FromTree exists, by induction on the paths.
LEMMA GrowthExists ==
    ASSUME NEW tree, NEW paths, NEW n \in Nat
    PROVE  \E f : IsGrowth(f, tree, paths, n)
<1> DEFINE S == {k \in 0..n : \E f : IsGrowth(f, tree, paths, k)}
<1>1. 0 \in S
  <2> DEFINE f == [k \in 0..0 |-> <<EmptyDir>>]
  <2>1. IsGrowth(f, tree, paths, 0)
    BY DEF IsGrowth
  <2> QED BY <2>1
<1>2. ASSUME NEW k \in 0..(n-1), k \in S PROVE k + 1 \in S
  <2>1. PICK f : IsGrowth(f, tree, paths, k)
    BY <1>2
  <2> DEFINE g == [j \in 0..(k+1) |-> IF j = k + 1 THEN Planted(f[k], tree, paths[j]) ELSE f[j]]
  <2>2. IsGrowth(g, tree, paths, k + 1)
    <3>1. \A j \in 0..k : f[j] = IF j = 0 THEN <<EmptyDir>> ELSE Planted(f[j-1], tree, paths[j])
      BY <2>1 DEF IsGrowth
    <3>2. \A j \in 0..k : g[j] = f[j]
      OBVIOUS
    <3>3. \A j \in 0..(k+1) : g[j] = IF j = 0 THEN <<EmptyDir>> ELSE Planted(g[j-1], tree, paths[j])
      BY <3>1, <3>2
    <3> HIDE DEF g
    <3>4. g = [j \in 0..(k+1) |-> g[j]]
      BY DEF g
    <3> QED BY <3>3, <3>4 DEF IsGrowth
  <2> HIDE DEF g
  <2> QED BY <2>2, <1>2
<1>3. n \in S
  <2> HIDE DEF S
  <2> QED BY <1>1, <1>2, UpTo
<1> QED BY <1>3

\* The image of a snapshot is one, and it has a root.
LEMMA FromTreeIsImage ==
    ASSUME NEW tree, IsFiniteSet(DOMAIN tree), DOMAIN tree \subseteq Seq(Names),
           \A p \in DOMAIN tree : tree[p].kind # "dir" => tree[p].data \in Seq(Nat)
    PROVE  IsImage(FromTree(tree)) /\ Len(FromTree(tree)) # 0 /\ FilesWhole(FromTree(tree))
<1> DEFINE paths == Sorted(DOMAIN tree, PathLess)
           n == Len(paths)
           f == CHOOSE g : IsGrowth(g, tree, paths, n)
<1>1. n \in Nat /\ \A k \in 1..n : paths[k] \in Seq(Names) /\ paths[k] \in DOMAIN tree
  <2> HIDE DEF paths
  <2>1. /\ Cardinality(DOMAIN tree) \in Nat /\ Len(paths) = Cardinality(DOMAIN tree)
        /\ \A k \in 1..Cardinality(DOMAIN tree) : paths[k] \in DOMAIN tree
    BY SortedPaths DEF paths
  <2> QED BY <2>1
<1>2. IsGrowth(f, tree, paths, n)
  <2> HIDE DEF n, paths
  <2> QED BY <1>1, GrowthExists
<1>3. FromTree(tree) = f[n]
  BY DEF FromTree, IsGrowth, Planted
<1> HIDE DEF f, paths, n
<1>4. f[0] = <<EmptyDir>> /\ \A k \in 1..n : f[k] = Planted(f[k-1], tree, paths[k])
  <2>1. n \in Nat
    BY <1>1
  <2> QED BY <1>2, <2>1 DEF IsGrowth
<1> DEFINE OK(k) == IsImage(f[k]) /\ Len(f[k]) # 0 /\ FilesWhole(f[k])
           S == {k \in 0..n : OK(k)}
<1>5. \A m \in Nat : IsNode(EmptyDir, m)
  <2>1. \A m \in Nat : [x \in Names |-> NoIno] \in [Names -> 0..m]
    BY DEF NoIno
  <2> QED BY <2>1 DEF IsNode, EmptyDir
<1>6. 0 \in S
  <2>1. <<EmptyDir>> = [i \in 1..1 |-> EmptyDir] /\ <<EmptyDir>>[1] = EmptyDir
    OBVIOUS
  <2>2. \A i \in 1..1 : IsNode(<<EmptyDir>>[i], 1)
    BY <1>5, <2>1
  <2>3. IsImage(<<EmptyDir>>) /\ Len(<<EmptyDir>>) = 1
    <3> DEFINE e == <<EmptyDir>>
    <3>1. e = [i \in 1..1 |-> e[i]]
      BY <2>1
    <3>2. \A i \in 1..1 : IsNode(e[i], 1)
      BY <2>2
    <3> HIDE DEF e
    <3>3. IsImage(e) /\ Len(e) = 1
      BY <3>1, <3>2, MakesImage
    <3> QED BY <3>3 DEF e
  <2>4. FilesWhole(<<EmptyDir>>)
    <3>1. EmptyDir.kind # "file"
      BY DEF EmptyDir, Dir
    <3> QED BY <2>1, <2>3, <3>1 DEF FilesWhole
  <2>5. f[0] = <<EmptyDir>> /\ n \in Nat
    BY <1>1, <1>4
  <2>6. OK(0)
    BY <2>3, <2>4, <2>5
  <2> HIDE DEF OK
  <2> QED BY <2>5, <2>6
<1>7. ASSUME NEW k \in 0..(n-1), k \in S PROVE k + 1 \in S
  <2>1. k + 1 \in 1..n /\ k + 1 \in 0..n /\ (k + 1) - 1 = k /\ OK(k)
    BY <1>1, <1>7
  <2> DEFINE p    == paths[k+1]
             node == IF tree[p].kind = "dir" THEN EmptyDir ELSE File(tree[p].data, Len(tree[p].data))
             fs   == Append(f[k], node)
             dir  == Lookup(f[k], Parent(p))
  <2>2. f[k+1] = SetEntry(fs, dir, BaseName(p), Len(f[k]) + 1)
    <3>1. f[k+1] = Planted(f[(k+1)-1], tree, paths[k+1])
      BY <1>4, <2>1
    <3> QED BY <2>1, <3>1 DEF Planted
  <2>3. p \in Seq(Names)
    BY <1>1, <2>1
  <2>w. node.kind = "file" => Whole(node)
    <3>1. tree[p].kind # "dir" => tree[p].data \in Seq(Nat)
      BY <1>1, <2>1
    <3>2. EmptyDir.kind # "file"
      BY DEF EmptyDir, Dir
    <3>3. \A d \in Seq(Nat) : Whole(File(d, Len(d)))
      BY DEF File, Whole, TypedFile
    <3> HIDE DEF p
    <3> QED BY <3>1, <3>2, <3>3
  <2>4. dir \in 0..Len(f[k])
    <3>1. Parent(p) \in Seq(Names)
      BY <2>3, ParentIsPath
    <3> HIDE DEF p
    <3> QED BY <2>1, <3>1, LookupIn
  <2>5. Len(f[k]) \in Nat
    BY <2>1, ImageShape
  <2>6. IsNode(node, Len(f[k]) + 1)
    <3>1. IsNode(EmptyDir, Len(f[k]) + 1)
      BY <1>5, <2>5
    <3> HIDE DEF p
    <3> QED BY <3>1 DEF IsNode
  <2> HIDE DEF node, dir, p
  <2>7. /\ IsImage(fs) /\ Len(fs) = Len(f[k]) + 1
        /\ \A i \in 1..(Len(f[k]) + 1) : fs[i] = IF i <= Len(f[k]) THEN f[k][i] ELSE node
    BY <2>1, <2>6, Appended
  <2>f. FilesWhole(fs)
    <3>1. ASSUME NEW i \in 1..Len(fs), fs[i].kind = "file" PROVE Whole(fs[i])
      <4>1. CASE i <= Len(f[k])
        <5>1. i \in 1..Len(f[k]) /\ fs[i] = f[k][i]
          BY <2>5, <2>7, <3>1, <4>1
        <5> QED BY <2>1, <3>1, <5>1 DEF FilesWhole
      <4>2. CASE ~(i <= Len(f[k]))
        <5>1. fs[i] = node
          BY <2>7, <4>2
        <5> QED BY <2>w, <3>1, <5>1
      <4> QED BY <4>1, <4>2
    <3> HIDE DEF fs
    <3> QED BY <3>1 DEF FilesWhole
  <2> HIDE DEF fs
  <2>8. dir \in 0..Len(fs) /\ Len(f[k]) + 1 \in 0..Len(fs) /\ Len(fs) # 0
    BY <2>4, <2>5, <2>7
  <2>9. /\ IsImage(f[k+1]) /\ Len(f[k+1]) = Len(fs)
        /\ \A i \in 1..Len(fs) : f[k+1][i].kind = fs[i].kind
                                 /\ (fs[i].kind = "file" => f[k+1][i] = fs[i])
    <3> DEFINE gs == f[k+1]
               ino == Len(f[k]) + 1
    <3>1. IsImage(fs) /\ dir \in 0..Len(fs) /\ ino \in 0..Len(fs)
          /\ gs = SetEntry(fs, dir, BaseName(p), ino)
      BY <2>2, <2>7, <2>8
    <3> HIDE DEF gs, ino, p, dir
    <3>2. /\ IsImage(gs) /\ Len(gs) = Len(fs)
          /\ \A i \in 1..Len(fs) : gs[i].kind = fs[i].kind /\ (fs[i].kind = "file" => gs[i] = fs[i])
      BY <3>1, SetEntryOf
    <3> QED BY <3>2 DEF gs
  <2>10. FilesWhole(f[k+1])
    <3> DEFINE gs == f[k+1]
    <3>1. /\ Len(gs) = Len(fs)
          /\ \A i \in 1..Len(fs) : gs[i].kind = fs[i].kind /\ (fs[i].kind = "file" => gs[i] = fs[i])
      BY <2>9
    <3> HIDE DEF gs
    <3>2. FilesWhole(gs)
      BY <2>f, <3>1, SameFilesWhole
    <3> QED BY <3>2 DEF gs
  <2> QED BY <2>1, <2>8, <2>9, <2>10
<1>8. 0..n \subseteq S
  <2> HIDE DEF S
  <2> QED BY <1>1, <1>6, <1>7, UpTo
<1>9. n \in S
  BY <1>1, <1>8
<1> QED BY <1>3, <1>9

-----------------------------------------------------------------------------
(* Paths *)

\* Paths of the same names are the same.
LEMMA SamePath ==
    ASSUME NEW p \in Seq(Names), NEW q \in Seq(Names), Len(p) = Len(q),
           \A i \in 1..Len(p) : p[i] = q[i]
    PROVE  p = q
  OBVIOUS

\* One path after another.
LEMMA JoinedPath ==
    ASSUME NEW p \in Seq(Names), NEW q \in Seq(Names)
    PROVE  /\ p \o q \in Seq(Names) /\ Len(p \o q) = Len(p) + Len(q)
           /\ \A i \in 1..Len(p) : (p \o q)[i] = p[i]
           /\ \A i \in 1..Len(q) : (p \o q)[Len(p) + i] = q[i]
<1>1. Len(p) \in Nat /\ Len(q) \in Nat
  OBVIOUS
<1>2. p \o q \in Seq(Names)
  OBVIOUS
<1>3. Len(p \o q) = Len(p) + Len(q)
  OBVIOUS
<1>4. \A i \in 1..Len(p) : (p \o q)[i] = p[i]
  BY <1>1
<1>5. \A i \in 1..Len(q) : (p \o q)[Len(p) + i] = q[i]
  BY <1>1
<1> QED BY <1>2, <1>3, <1>4, <1>5

\* The first m names of a path.
LEMMA CutPath ==
    ASSUME NEW p \in Seq(Names), NEW m \in 0..Len(p)
    PROVE  /\ SubSeq(p, 1, m) \in Seq(Names) /\ Len(SubSeq(p, 1, m)) = m
           /\ \A i \in 1..m : SubSeq(p, 1, m)[i] = p[i]
<1>1. m \in Nat /\ \A i \in 1..m : i \in 1..Len(p)
  OBVIOUS
<1> QED BY <1>1

\* A path is the root or an entry of its parent.
LEMMA PathEnds ==
    ASSUME NEW p \in Seq(Names), p # <<>>
    PROVE  /\ Parent(p) \in Seq(Names) /\ BaseName(p) \in Names
           /\ p = Append(Parent(p), BaseName(p)) /\ Len(Parent(p)) = Len(p) - 1
<1>1. Len(p) \in Nat /\ Len(p) # 0
  OBVIOUS
<1>2. /\ Parent(p) \in Seq(Names) /\ Len(Parent(p)) = Len(p) - 1
      /\ \A i \in 1..(Len(p) - 1) : Parent(p)[i] = p[i]
  <2>1. Len(p) - 1 \in 0..Len(p)
    BY <1>1
  <2> DEFINE m == Len(p) - 1
  <2> HIDE DEF m
  <2>2. /\ SubSeq(p, 1, m) \in Seq(Names) /\ Len(SubSeq(p, 1, m)) = m
        /\ \A i \in 1..m : SubSeq(p, 1, m)[i] = p[i]
    BY <2>1, CutPath DEF m
  <2> QED BY <2>2 DEF m, Parent
<1>3. BaseName(p) \in Names
  BY <1>1 DEF BaseName
<1> DEFINE q == Append(Parent(p), BaseName(p))
<1>4. /\ q \in Seq(Names) /\ Len(q) = Len(p)
      /\ \A i \in 1..(Len(p) - 1) : q[i] = p[i]
      /\ q[Len(p)] = BaseName(p)
  BY <1>1, <1>2, <1>3
<1>5. \A i \in 1..Len(p) : q[i] = p[i]
  <2> HIDE DEF q
  <2> QED BY <1>1, <1>4 DEF BaseName
<1>6. q = p
  <2> HIDE DEF q
  <2> QED BY <1>4, <1>5, SamePath
<1> QED BY <1>2, <1>3, <1>6

\* And an entry of a path has it as its parent.
LEMMA EntryPath ==
    ASSUME NEW p \in Seq(Names), NEW n \in Names
    PROVE  /\ Append(p, n) \in Seq(Names) /\ Append(p, n) # <<>>
           /\ Parent(Append(p, n)) = p /\ BaseName(Append(p, n)) = n
           /\ Len(Append(p, n)) = Len(p) + 1
<1> DEFINE q == Append(p, n)
<1>1. q \in Seq(Names) /\ Len(q) = Len(p) + 1 /\ q[Len(p) + 1] = n /\ q # <<>>
      /\ \A i \in 1..Len(p) : q[i] = p[i]
  OBVIOUS
<1> HIDE DEF q
<1>2. /\ Parent(q) \in Seq(Names) /\ Len(Parent(q)) = Len(p)
      /\ \A i \in 1..Len(p) : Parent(q)[i] = q[i]
  BY <1>1 DEF Parent
<1>3. Parent(q) = p
  BY <1>1, <1>2, SamePath
<1>4. BaseName(q) = n
  BY <1>1 DEF BaseName
<1> QED BY <1>1, <1>3, <1>4 DEF q

\* What holds of the root and goes over to entries holds of every path.
LEMMA EachPath ==
    ASSUME NEW S, <<>> \in S, \A p \in Seq(Names), n \in Names : p \in S => Append(p, n) \in S
    PROVE  Seq(Names) \subseteq S
<1> DEFINE T == {k \in Nat : \A p \in Seq(Names) : Len(p) = k => p \in S}
<1>1. 0 \in T
  <2>1. \A p \in Seq(Names) : Len(p) = 0 => p = <<>>
    OBVIOUS
  <2> QED BY <2>1
<1>2. ASSUME NEW k \in Nat, k \in T PROVE k + 1 \in T
  <2>1. ASSUME NEW p \in Seq(Names), Len(p) = k + 1 PROVE p \in S
    <3>1. p # <<>>
      BY <2>1
    <3>2. /\ Parent(p) \in Seq(Names) /\ BaseName(p) \in Names
          /\ p = Append(Parent(p), BaseName(p)) /\ Len(Parent(p)) = k
      BY <2>1, <3>1, PathEnds
    <3>3. Parent(p) \in S
      BY <1>2, <3>2
    <3> QED BY <3>2, <3>3
  <2> QED BY <2>1
<1>3. Nat \subseteq T
  <2> HIDE DEF T
  <2> QED BY <1>1, <1>2, AllNat
<1> QED BY <1>3

\* p is on the way to q, or is q.
OnWay(p, q) == Len(p) <= Len(q) /\ \A i \in 1..Len(p) : q[i] = p[i]

LEMMA OnWayMeans ==
    ASSUME NEW p \in Seq(Names), NEW q \in Seq(Names)
    PROVE  /\ OnWay(p, q) <=> p = q \/ Inside(p, q)
           /\ OnWay(p, q) <=> Len(p) <= Len(q) /\ SubSeq(q, 1, Len(p)) = p
<1> DEFINE h == SubSeq(q, 1, Len(p))
<1>1. Len(p) \in Nat /\ Len(q) \in Nat
  OBVIOUS
<1>2. ASSUME Len(p) <= Len(q)
      PROVE  h \in Seq(Names) /\ Len(h) = Len(p) /\ \A i \in 1..Len(p) : h[i] = q[i]
  <2>1. \A i \in 1..Len(p) : i \in 1..Len(q)
    BY <1>1, <1>2
  <2> QED BY <1>1, <1>2, <2>1
<1> HIDE DEF h
<1>3. OnWay(p, q) <=> Len(p) <= Len(q) /\ h = p
  <2>1. ASSUME OnWay(p, q) PROVE h = p
    BY <1>2, <2>1, SamePath DEF OnWay
  <2> QED BY <1>2, <2>1 DEF OnWay
<1>4. OnWay(p, q) /\ Len(p) = Len(q) => p = q
  BY SamePath DEF OnWay
<1>5. OnWay(p, p)
  BY <1>1 DEF OnWay
<1> QED BY <1>1, <1>3, <1>4, <1>5 DEF h, Inside

LEMMA OnWayOrder ==
    ASSUME NEW p \in Seq(Names), NEW q \in Seq(Names)
    PROVE  /\ OnWay(p, p) /\ OnWay(<<>>, p) /\ (OnWay(p, <<>>) => p = <<>>)
           /\ OnWay(p, q) /\ OnWay(q, p) => p = q
           /\ OnWay(p, q) => Len(p) <= Len(q)
           /\ \A r \in Seq(Names) : OnWay(p, q) /\ OnWay(q, r) => OnWay(p, r)
           /\ \A r \in Seq(Names) : OnWay(p, r) /\ OnWay(q, r) => OnWay(p, q) \/ OnWay(q, p)
<1>1. Len(p) \in Nat /\ Len(q) \in Nat
  OBVIOUS
<1>2. OnWay(p, q) /\ Len(p) = Len(q) => p = q
  BY SamePath DEF OnWay
<1>3. OnWay(p, p) /\ OnWay(<<>>, p)
  BY <1>1 DEF OnWay
<1>4. OnWay(p, <<>>) => p = <<>>
  BY <1>1 DEF OnWay
<1>5. OnWay(p, q) /\ OnWay(q, p) => p = q
  BY <1>1, <1>2 DEF OnWay
<1>6. ASSUME NEW r \in Seq(Names), OnWay(p, q), OnWay(q, r) PROVE OnWay(p, r)
  <2>1. Len(r) \in Nat
    OBVIOUS
  <2> QED BY <1>1, <1>6, <2>1 DEF OnWay
<1>7. ASSUME NEW r \in Seq(Names), OnWay(p, r), OnWay(q, r) PROVE OnWay(p, q) \/ OnWay(q, p)
  <2>1. CASE Len(p) <= Len(q)
    BY <1>1, <1>7, <2>1 DEF OnWay
  <2>2. CASE Len(q) <= Len(p)
    BY <1>1, <1>7, <2>2 DEF OnWay
  <2> QED BY <1>1, <2>1, <2>2
<1> QED BY <1>3, <1>4, <1>5, <1>6, <1>7 DEF OnWay

\* What is on the way to an entry.
LEMMA OnWayEntry ==
    ASSUME NEW p \in Seq(Names), NEW q \in Seq(Names), NEW n \in Names
    PROVE  OnWay(p, Append(q, n)) <=> OnWay(p, q) \/ p = Append(q, n)
<1> DEFINE r == Append(q, n)
<1>1. Len(p) \in Nat /\ Len(q) \in Nat /\ r \in Seq(Names) /\ Len(r) = Len(q) + 1
      /\ \A i \in 1..Len(q) : r[i] = q[i]
  OBVIOUS
<1> HIDE DEF r
<1>2. OnWay(p, q) => OnWay(p, r)
  BY <1>1 DEF OnWay
<1>3. ASSUME OnWay(p, r), p # r PROVE OnWay(p, q)
  <2>1. Len(p) # Len(r)
    BY <1>1, <1>3, SamePath DEF OnWay
  <2>2. Len(p) <= Len(q)
    BY <1>1, <1>3, <2>1 DEF OnWay
  <2> QED BY <1>1, <1>3, <2>2 DEF OnWay
<1>4. OnWay(r, r)
  BY <1>1, OnWayOrder
<1> QED BY <1>2, <1>3, <1>4 DEF r

-----------------------------------------------------------------------------
(* Lookup, name by name *)

\* Where a name leads from a node.
Down(fs, ino, n) == IF IsDir(fs, ino) THEN fs[ino].entries[n] ELSE NoIno

\* The way of Lookup ends at what it returns.
LEMMA WayOf ==
    ASSUME NEW fs, NEW path \in Seq(Names)
    PROVE  \E f : /\ f[0] = Root /\ Lookup(fs, path) = f[Len(path)]
                  /\ \A k \in 1..Len(path) : f[k] = Down(fs, f[k-1], path[k])
<1> DEFINE n == Len(path)
           f == CHOOSE g : IsWay(g, fs, path, n)
<1>1. n \in Nat
  OBVIOUS
<1>2. IsWay(f, fs, path, n)
  <2> HIDE DEF n
  <2> QED BY <1>1, WayExists
<1>3. Lookup(fs, path) = f[n]
  BY DEF Lookup, IsWay
<1> HIDE DEF f, n
<1>4. \A k \in 0..n :
         f[k] = IF k = 0 THEN Root
                ELSE IF IsDir(fs, f[k-1]) THEN fs[f[k-1]].entries[path[k]] ELSE NoIno
  BY <1>2 DEF IsWay
<1>5. 0 \in 0..n /\ \A k \in 1..n : k \in 0..n /\ k # 0
  BY <1>1
<1>6. f[0] = Root /\ \A k \in 1..n : f[k] = Down(fs, f[k-1], path[k])
  BY <1>4, <1>5 DEF Down
<1> QED BY <1>3, <1>6 DEF n

LEMMA LookupRoot ==
    ASSUME NEW fs PROVE Lookup(fs, <<>>) = Root
<1>1. <<>> \in Seq(Names) /\ Len(<<>>) = 0
  OBVIOUS
<1> QED BY <1>1, WayOf

LEMMA LookupStep ==
    ASSUME NEW fs, NEW path \in Seq(Names), NEW n \in Names
    PROVE  Lookup(fs, Append(path, n)) = Down(fs, Lookup(fs, path), n)
<1> DEFINE m == Len(path)
           q == Append(path, n)
<1>1. m \in Nat /\ q \in Seq(Names) /\ Len(q) = m + 1 /\ q[m + 1] = n
      /\ \A i \in 1..m : q[i] = path[i]
  OBVIOUS
<1>2. PICK f : /\ f[0] = Root /\ Lookup(fs, path) = f[m]
               /\ \A k \in 1..m : f[k] = Down(fs, f[k-1], path[k])
  BY WayOf
<1> HIDE DEF q, m
<1>3. PICK g : /\ g[0] = Root /\ Lookup(fs, q) = g[m + 1]
               /\ \A k \in 1..(m + 1) : g[k] = Down(fs, g[k-1], q[k])
  <2>1. \E g : /\ g[0] = Root /\ Lookup(fs, q) = g[Len(q)]
               /\ \A k \in 1..Len(q) : g[k] = Down(fs, g[k-1], q[k])
    <3>1. q \in Seq(Names)
      BY <1>1
    <3> QED BY <3>1, WayOf
  <2> QED BY <1>1, <2>1
<1> DEFINE S == {k \in 0..m : f[k] = g[k]}
<1>4. 0 \in S
  BY <1>1, <1>2, <1>3
<1>5. ASSUME NEW k \in 0..(m-1), k \in S PROVE k + 1 \in S
  <2>1. k + 1 \in 1..m /\ k + 1 \in 1..(m + 1) /\ (k + 1) - 1 = k /\ f[k] = g[k]
        /\ k + 1 \in 0..m
    BY <1>1, <1>5
  <2>2. f[k + 1] = Down(fs, f[k], path[k + 1]) /\ g[k + 1] = Down(fs, g[k], q[k + 1])
    BY <1>2, <1>3, <2>1
  <2> QED BY <1>1, <2>1, <2>2
<1>6. 0..m \subseteq S
  <2> HIDE DEF S
  <2> QED BY <1>1, <1>4, <1>5, UpTo
<1>7. f[m] = g[m] /\ m + 1 \in 1..(m + 1) /\ (m + 1) - 1 = m
  BY <1>1, <1>6
<1>8. g[m + 1] = Down(fs, g[m], q[m + 1])
  BY <1>3, <1>7
<1>9. Lookup(fs, q) = Down(fs, Lookup(fs, path), n)
  BY <1>1, <1>2, <1>3, <1>7, <1>8
<1> QED BY <1>9 DEF q

\* Found: the paths that lead to a node.
Found(fs) == {p \in Seq(Names) : Lookup(fs, p) # NoIno}

\* On the way to a node there are directories.
LEMMA WayIsThrough ==
    ASSUME NEW fs, NEW p \in Seq(Names), NEW q \in Seq(Names), OnWay(p, q), q \in Found(fs)
    PROVE  p \in Found(fs) /\ (p # q => IsDir(fs, Lookup(fs, p)))
<1> DEFINE S == {r \in Seq(Names) : \A s \in Seq(Names) :
                    OnWay(s, r) /\ r \in Found(fs) =>
                       s \in Found(fs) /\ (s # r => IsDir(fs, Lookup(fs, s)))}
<1>1. <<>> \in S
  <2>1. \A s \in Seq(Names) : OnWay(s, <<>>) => s = <<>>
    BY OnWayOrder
  <2> QED BY <2>1
<1>2. ASSUME NEW r \in Seq(Names), NEW n \in Names, r \in S PROVE Append(r, n) \in S
  <2> DEFINE t == Append(r, n)
  <2>1. t \in Seq(Names) /\ Lookup(fs, t) = Down(fs, Lookup(fs, r), n)
    BY EntryPath, LookupStep
  <2>2. \A s \in Seq(Names) : OnWay(s, t) => OnWay(s, r) \/ s = t
    BY OnWayEntry
  <2> HIDE DEF t
  <2>3. t \in Found(fs) => r \in Found(fs) /\ IsDir(fs, Lookup(fs, r))
    BY <2>1 DEF Down, Found, IsDir
  <2>4. ASSUME NEW s \in Seq(Names), OnWay(s, t), t \in Found(fs)
        PROVE  s \in Found(fs) /\ (s # t => IsDir(fs, Lookup(fs, s)))
    BY <1>2, <2>2, <2>3, <2>4
  <2> QED BY <2>1, <2>4 DEF t
<1>3. Seq(Names) \subseteq S
  <2> HIDE DEF S
  <2> QED BY <1>1, <1>2, EachPath
<1> QED BY <1>3

-----------------------------------------------------------------------------
(* The walk of a directory exists *)

\* Directories with finitely many entries.
Few(fs) ==
    \A i \in 1..Len(fs) : fs[i].kind = "dir" => IsFiniteSet({n \in Names : fs[i].entries[n] # NoIno})

\* The entries of a directory, each once.
LEMMA EnteredOnce ==
    ASSUME NEW fs, IsImage(fs), Few(fs), NEW ino \in Dirs(fs)
    PROVE  /\ Len(Entered(fs, ino)) \in Nat
           /\ \A k \in 1..Len(Entered(fs, ino)) :
                 /\ Entered(fs, ino)[k] \in Names
                 /\ fs[ino].entries[Entered(fs, ino)[k]] \in 1..Len(fs)
           /\ \A k, l \in 1..Len(Entered(fs, ino)) :
                 Entered(fs, ino)[k] = Entered(fs, ino)[l] => k = l
           /\ \A n \in Names : fs[ino].entries[n] # NoIno =>
                 \E k \in 1..Len(Entered(fs, ino)) : Entered(fs, ino)[k] = n
<1> DEFINE S == {n \in Names : fs[ino].entries[n] # NoIno}
           s == Sorted(S, <)
<1>1. ino \in 1..Len(fs) /\ fs[ino].kind = "dir" /\ Len(fs) \in Nat
  BY ImageShape DEF Dirs
<1>2. S \subseteq Nat /\ IsFiniteSet(S)
  BY <1>1, NamesAssumption DEF Few
<1>3. fs[ino].entries \in [Names -> 0..Len(fs)]
  BY <1>1, ImageShape
<1>4. \A n \in S : n \in Names /\ fs[ino].entries[n] \in 1..Len(fs)
  BY <1>1, <1>3 DEF NoIno
<1>5. Cardinality(S) \in Nat /\ Len(s) = Cardinality(S)
  <2> HIDE DEF S
  <2> QED BY <1>2, SortedLen
<1>6. /\ \A k \in 1..Cardinality(S) : s[k] \in S
      /\ \A k, l \in 1..Cardinality(S) : s[k] = s[l] => k = l
      /\ \A x \in S : \E k \in 1..Cardinality(S) : s[k] = x
  <2> HIDE DEF S
  <2> QED BY <1>2, SortedPlaces
<1>7. Entered(fs, ino) = s
  BY DEF Entered
<1>8. \A n \in Names : fs[ino].entries[n] # NoIno => n \in S
  OBVIOUS
<1> HIDE DEF S, s
<1> QED BY <1>4, <1>5, <1>6, <1>7, <1>8

\* u holds what was listed and seen after each of the first n entries.
Visited(u, fs, walk, x, k) ==
    Visit(fs, walk, u[k-1], Append(x.prefix, Entered(fs, x.ino)[k]),
          fs[x.ino].entries[Entered(fs, x.ino)[k]])
AtFirst(x) == [listed |-> {}, seen |-> x.seen \cup {x.ino}]
IsVisits(u, fs, walk, x, n) ==
    u = [k \in 0..n |-> IF k = 0 THEN AtFirst(x) ELSE Visited(u, fs, walk, x, k)]

LEMMA VisitsExist ==
    ASSUME NEW fs, NEW walk, NEW x, NEW n \in Nat
    PROVE  \E u : IsVisits(u, fs, walk, x, n)
<1> DEFINE S == {k \in 0..n : \E u : IsVisits(u, fs, walk, x, k)}
<1>1. 0 \in S
  <2> DEFINE u == [k \in 0..0 |-> AtFirst(x)]
  <2>1. IsVisits(u, fs, walk, x, 0)
    BY DEF IsVisits
  <2> QED BY <2>1
<1>2. ASSUME NEW k \in 0..(n-1), k \in S PROVE k + 1 \in S
  <2>1. PICK u : IsVisits(u, fs, walk, x, k)
    BY <1>2
  <2> DEFINE last == Visit(fs, walk, u[k], Append(x.prefix, Entered(fs, x.ino)[k+1]),
                           fs[x.ino].entries[Entered(fs, x.ino)[k+1]])
             w == [j \in 0..(k+1) |-> IF j = k + 1 THEN last ELSE u[j]]
  <2>2. IsVisits(w, fs, walk, x, k + 1)
    <3>1. \A j \in 0..k : u[j] = IF j = 0 THEN AtFirst(x) ELSE Visited(u, fs, walk, x, j)
      BY <2>1 DEF IsVisits
    <3>2. \A j \in 0..k : w[j] = u[j]
      OBVIOUS
    <3>3. \A j \in 1..k : Visited(w, fs, walk, x, j) = Visited(u, fs, walk, x, j)
      <4>1. \A j \in 1..k : w[j-1] = u[j-1]
        BY <3>2
      <4> HIDE DEF w
      <4> QED BY <4>1 DEF Visited
    <3>4. w[k+1] = last /\ w[(k+1)-1] = u[k]
      OBVIOUS
    <3>5. w = [j \in 0..(k+1) |-> w[j]]
      OBVIOUS
    <3> HIDE DEF w
    <3>6. Visited(w, fs, walk, x, k + 1) = last
      BY <3>4 DEF Visited
    <3> HIDE DEF last
    <3>7. \A j \in 0..(k+1) : w[j] = IF j = 0 THEN AtFirst(x) ELSE Visited(w, fs, walk, x, j)
      BY <3>1, <3>2, <3>3, <3>4, <3>6
    <3> QED BY <3>5, <3>7 DEF IsVisits
  <2> HIDE DEF w
  <2> QED BY <2>2, <1>2
<1>3. n \in S
  <2> HIDE DEF S
  <2> QED BY <1>1, <1>2, UpTo
<1> QED BY <1>3

LEMMA VisitsRun ==
    ASSUME NEW fs, NEW walk, NEW x, Len(Entered(fs, x.ino)) \in Nat
    PROVE  \E u : /\ u[0] = AtFirst(x) /\ Visits(fs, walk, x) = u[Len(Entered(fs, x.ino))]
                  /\ \A k \in 1..Len(Entered(fs, x.ino)) : u[k] = Visited(u, fs, walk, x, k)
<1> DEFINE n == Len(Entered(fs, x.ino))
           u == CHOOSE w : IsVisits(w, fs, walk, x, n)
<1>1. IsVisits(u, fs, walk, x, n)
  <2>1. n \in Nat
    OBVIOUS
  <2> HIDE DEF n
  <2> QED BY <2>1, VisitsExist
<1>2. Visits(fs, walk, x) = u[n]
  BY DEF Visits, IsVisits, Visited, AtFirst
<1> HIDE DEF u, n
<1>3. u[0] = AtFirst(x) /\ \A k \in 1..n : u[k] = Visited(u, fs, walk, x, k)
  BY <1>1 DEF IsVisits, n
<1> QED BY <1>2, <1>3 DEF n

\* The directories the walk from x may still enter.
Left(fs, x) == Cardinality(Dirs(fs) \ x.seen)

\* What a walk from x returns as seen.
SeenGrows(fs, x, seen) == seen \in SUBSET Dirs(fs) /\ x.seen \cup {x.ino} \subseteq seen

\* The walk from where an entry leads.
Callee(acc, path, child) == [ino |-> child, prefix |-> path, seen |-> acc.seen]

LEMMA LeftIs ==
    ASSUME NEW fs, IsImage(fs), NEW x \in Unseen(fs)
    PROVE  /\ Left(fs, x) \in 1..Cardinality(Dirs(fs)) /\ Cardinality(Dirs(fs)) \in Nat
           /\ x.ino \in Dirs(fs) /\ x.prefix \in Seq(Names) /\ x.seen \in SUBSET Dirs(fs)
           /\ x.ino \notin x.seen
<1>1. x.ino \in Dirs(fs) /\ x.prefix \in Seq(Names) /\ x.seen \in SUBSET Dirs(fs)
      /\ x.ino \notin x.seen
  BY DEF Unseen
<1>2. IsFiniteSet(Dirs(fs))
  <2>1. Len(fs) \in Nat /\ DOMAIN fs = 1..Len(fs)
    BY ImageShape
  <2>2. IsFiniteSet(1..Len(fs)) /\ Dirs(fs) \subseteq 1..Len(fs)
    BY <2>1, FS_Interval DEF Dirs
  <2> QED BY <2>2, FS_Subset
<1> DEFINE D == Dirs(fs)
           rest == D \ x.seen
<1> HIDE DEF D
<1>3. IsFiniteSet(rest) /\ Cardinality(rest) <= Cardinality(D)
      /\ Cardinality(D) \in Nat /\ Cardinality(rest) \in Nat
  <2>1. IsFiniteSet(D) /\ rest \subseteq D
    BY <1>2 DEF D
  <2> HIDE DEF rest
  <2> QED BY <2>1, FS_Subset, FS_CardinalityType
<1>4. Cardinality(rest) # 0
  <2>1. x.ino \in rest
    BY <1>1 DEF D
  <2> HIDE DEF rest
  <2> QED BY <1>3, <2>1, FS_EmptySet
<1> QED BY <1>1, <1>3, <1>4 DEF Left, D

LEMMA LeftSinks ==
    ASSUME NEW fs, IsImage(fs), NEW x \in Unseen(fs), NEW y \in Unseen(fs), SeenGrows(fs, x, y.seen)
    PROVE  Left(fs, y) < Left(fs, x)
<1> DEFINE D == Dirs(fs)
           a == D \ x.seen
           b == D \ y.seen
<1>1. IsFiniteSet(D)
  <2>1. Len(fs) \in Nat /\ DOMAIN fs = 1..Len(fs)
    BY ImageShape
  <2>2. IsFiniteSet(1..Len(fs)) /\ Dirs(fs) \subseteq 1..Len(fs)
    BY <2>1, FS_Interval DEF Dirs
  <2> QED BY <2>2, FS_Subset
<1>2. b \subseteq a /\ a # b /\ a \subseteq D
  <2>1. x.ino \in a /\ x.ino \notin b
    BY LeftIs DEF SeenGrows
  <2>2. b \subseteq a
    BY DEF SeenGrows
  <2> QED BY <2>1, <2>2
<1>3. IsFiniteSet(a)
  <2> HIDE DEF a, D
  <2> QED BY <1>1, <1>2, FS_Subset
<1>4. IsFiniteSet(b) /\ Cardinality(b) <= Cardinality(a) /\ Cardinality(b) # Cardinality(a)
  <2> HIDE DEF a, b
  <2> QED BY <1>2, <1>3, FS_Subset
<1>5. Cardinality(a) \in Nat /\ Cardinality(b) \in Nat
  <2> HIDE DEF a, b
  <2> QED BY <1>3, <1>4, FS_CardinalityType
<1>6. Cardinality(b) < Cardinality(a)
  <2> HIDE DEF a, b
  <2> QED BY <1>4, <1>5
<1> QED BY <1>6 DEF Left

\* What entering a directory gives depends on the walk only where fewer
\* directories are left.
LEMMA VisitsAgree ==
    ASSUME NEW fs, IsImage(fs), Few(fs), NEW x \in Unseen(fs), NEW f, NEW g,
           \A y \in Unseen(fs) : Left(fs, y) < Left(fs, x) =>
              f[y] = g[y] /\ SeenGrows(fs, y, f[y].seen)
    PROVE  Visits(fs, f, x) = Visits(fs, g, x) /\ SeenGrows(fs, x, Visits(fs, f, x).seen)
<1> DEFINE names == Entered(fs, x.ino)
           n == Len(names)
<1>1. /\ x.ino \in Dirs(fs) /\ x.prefix \in Seq(Names) /\ x.seen \in SUBSET Dirs(fs)
  BY LeftIs
<1>2. n \in Nat /\ \A k \in 1..n : names[k] \in Names /\ fs[x.ino].entries[names[k]] \in 1..Len(fs)
  <2> HIDE DEF names
  <2> QED BY <1>1, EnteredOnce DEF names
<1>3. PICK u : /\ u[0] = AtFirst(x) /\ Visits(fs, f, x) = u[n]
               /\ \A k \in 1..n : u[k] = Visited(u, fs, f, x, k)
  BY <1>2, VisitsRun
<1>4. PICK w : /\ w[0] = AtFirst(x) /\ Visits(fs, g, x) = w[n]
               /\ \A k \in 1..n : w[k] = Visited(w, fs, g, x, k)
  BY <1>2, VisitsRun
<1> HIDE DEF n
<1> DEFINE S == {k \in 0..n : u[k] = w[k] /\ SeenGrows(fs, x, u[k].seen)}
<1>5. 0 \in S
  <2>1. AtFirst(x).seen = x.seen \cup {x.ino}
    BY DEF AtFirst
  <2>2. SeenGrows(fs, x, AtFirst(x).seen)
    BY <1>1, <2>1 DEF SeenGrows
  <2> QED BY <1>2, <1>3, <1>4, <2>2
<1>6. ASSUME NEW k \in 0..(n-1), k \in S PROVE k + 1 \in S
  <2> DEFINE path  == Append(x.prefix, names[k+1])
             child == fs[x.ino].entries[names[k+1]]
             acc   == u[k]
             y     == Callee(acc, path, child)
  <2>1. k + 1 \in 1..n /\ k + 1 \in 0..n /\ (k + 1) - 1 = k /\ u[k] = w[k]
        /\ SeenGrows(fs, x, acc.seen)
    BY <1>2, <1>6
  <2>2. u[k+1] = Visit(fs, f, acc, path, child)
    <3>1. u[k+1] = Visited(u, fs, f, x, k + 1)
      BY <1>3, <2>1
    <3> QED BY <2>1, <3>1 DEF Visited
  <2>3. w[k+1] = Visit(fs, g, acc, path, child)
    <3>1. w[k+1] = Visited(w, fs, g, x, k + 1)
      BY <1>4, <2>1
    <3> QED BY <2>1, <3>1 DEF Visited
  <2>4. path \in Seq(Names) /\ child \in 1..Len(fs)
    <3>1. names[k+1] \in Names
      BY <1>2, <2>1
    <3> HIDE DEF names
    <3> QED BY <1>1, <1>2, <2>1, <3>1, EntryPath
  <2> HIDE DEF path, child, acc, names
  <2>5. CASE IsDir(fs, child) /\ child \notin acc.seen
    <3>1. child \in Dirs(fs)
      BY <2>4, <2>5, ImageShape DEF IsDir, Dirs
    <3>2. y.seen = acc.seen /\ y \in Unseen(fs)
      BY <2>1, <2>4, <2>5, <3>1 DEF Unseen, Callee, SeenGrows
    <3>3. Left(fs, y) < Left(fs, x)
      <4> HIDE DEF y
      <4> QED BY <2>1, <3>2, LeftSinks
    <3>4. f[y] = g[y] /\ SeenGrows(fs, y, f[y].seen)
      <4> HIDE DEF y
      <4> QED BY <3>2, <3>3
    <3>5. /\ u[k+1] = [listed |-> acc.listed \cup {path} \cup f[y].listed, seen |-> f[y].seen]
          /\ w[k+1] = [listed |-> acc.listed \cup {path} \cup g[y].listed, seen |-> g[y].seen]
      BY <2>2, <2>3, <2>5 DEF Visit, Callee
    <3>6. u[k+1] = w[k+1] /\ u[k+1].seen = f[y].seen
      <4> HIDE DEF y
      <4> QED BY <3>4, <3>5
    <3>7. SeenGrows(fs, x, f[y].seen)
      <4> HIDE DEF y
      <4> QED BY <2>1, <3>2, <3>4 DEF SeenGrows
    <3> QED BY <2>1, <3>6, <3>7
  <2>6. CASE ~(IsDir(fs, child) /\ child \notin acc.seen)
    <3>1. /\ u[k+1] = [listed |-> acc.listed \cup {path}, seen |-> acc.seen]
          /\ w[k+1] = [listed |-> acc.listed \cup {path}, seen |-> acc.seen]
      BY <2>2, <2>3, <2>6 DEF Visit
    <3> QED BY <2>1, <3>1
  <2> QED BY <2>5, <2>6
<1>7. 0..n \subseteq S
  <2> HIDE DEF S
  <2> QED BY <1>2, <1>5, <1>6, UpTo
<1>8. n \in S
  BY <1>2, <1>7
<1> QED BY <1>3, <1>4, <1>8

IsWalk(f, fs) == f = [x \in Unseen(fs) |-> Visits(fs, f, x)]

\* The recursive function of Walk exists, by induction on the directories left.
LEMMA WalkExists ==
    ASSUME NEW fs, IsImage(fs), Few(fs)
    PROVE  \E f : IsWalk(f, fs)
<1> DEFINE U == Unseen(fs)
           Walks(f, n) == \A x \in U : Left(fs, x) <= n =>
                             f[x] = Visits(fs, f, x) /\ SeenGrows(fs, x, f[x].seen)
           S == {n \in Nat : \E f : f = [x \in U |-> f[x]] /\ Walks(f, n)}
<1>1. \A x \in U : Left(fs, x) \in 1..Cardinality(Dirs(fs)) /\ Cardinality(Dirs(fs)) \in Nat
  BY LeftIs
<1>2. 0 \in S
  <2> DEFINE f == [x \in U |-> 0]
  <2>1. f = [x \in U |-> f[x]]
    OBVIOUS
  <2>2. Walks(f, 0)
    <3> HIDE DEF f
    <3>1. \A x \in U : ~(Left(fs, x) <= 0)
      BY <1>1
    <3> QED BY <3>1
  <2> QED BY <2>1, <2>2
<1>3. ASSUME NEW n \in Nat, n \in S PROVE n + 1 \in S
  <2>1. PICK f : f = [x \in U |-> f[x]] /\ Walks(f, n)
    BY <1>3
  <2> DEFINE g == [x \in U |-> Visits(fs, f, x)]
  <2>2. g = [x \in U |-> g[x]] /\ \A x \in U : g[x] = Visits(fs, f, x)
    OBVIOUS
  <2> HIDE DEF g
  <2>3. \A x \in U : Left(fs, x) <= n => f[x] = g[x] /\ SeenGrows(fs, x, f[x].seen)
    BY <2>1, <2>2
  <2>4. ASSUME NEW x \in U, Left(fs, x) <= n + 1
        PROVE  g[x] = Visits(fs, g, x) /\ SeenGrows(fs, x, g[x].seen)
    <3>1. \A y \in Unseen(fs) : Left(fs, y) < Left(fs, x) =>
             f[y] = g[y] /\ SeenGrows(fs, y, f[y].seen)
      <4>1. \A y \in U : Left(fs, y) < Left(fs, x) => Left(fs, y) <= n
        BY <1>1, <2>4
      <4> QED BY <2>3, <4>1
    <3>2. Visits(fs, f, x) = Visits(fs, g, x) /\ SeenGrows(fs, x, Visits(fs, f, x).seen)
      BY <3>1, VisitsAgree
    <3> QED BY <2>2, <3>2
  <2>5. Walks(g, n + 1)
    BY <2>4
  <2> QED BY <2>2, <2>5
<1>4. Nat \subseteq S
  <2> HIDE DEF S
  <2> QED BY <1>2, <1>3, AllNat
<1>5. CASE U = {}
  <2> DEFINE f == [x \in U |-> 0]
  <2>1. f = [x \in Unseen(fs) |-> Visits(fs, f, x)]
    BY <1>5
  <2> QED BY <2>1 DEF IsWalk
<1>6. CASE U # {}
  <2>1. Cardinality(Dirs(fs)) \in Nat
    BY <1>1, <1>6
  <2>2. PICK f : f = [x \in U |-> f[x]] /\ Walks(f, Cardinality(Dirs(fs)))
    BY <1>4, <2>1
  <2>3. \A x \in U : f[x] = Visits(fs, f, x)
    BY <1>1, <2>2
  <2> HIDE DEF Walks
  <2>4. f = [x \in U |-> Visits(fs, f, x)]
    BY <2>2, <2>3
  <2> QED BY <2>4 DEF IsWalk
<1> QED BY <1>5, <1>6

-----------------------------------------------------------------------------
(* What the walk lists *)

\* No node is reached by two paths.
OneWay(fs) == \A p, q \in Found(fs) : Lookup(fs, p) = Lookup(fs, q) => p = q

\* An image a directory tree has: what compile keeps of the volatile view.
Treelike(fs) ==
    IsImage(fs) /\ Few(fs) /\ OneWay(fs) /\ Len(fs) # 0 /\ fs[Root].kind = "dir"

\* The paths at or below p, and the directories they lead to.
Sub(fs, p) == {r \in Found(fs) : OnWay(p, r)}
SubDirs(fs, p) == {i \in Dirs(fs) : \E r \in Sub(fs, p) : Lookup(fs, r) = i}

\* A walk that enters a directory at its path, before anything below it is seen.
Placed(fs, x) ==
    /\ x \in Unseen(fs) /\ x.prefix \in Found(fs) /\ Lookup(fs, x.prefix) = x.ino
    /\ \A p \in Sub(fs, x.prefix) : Lookup(fs, p) \notin x.seen

\* It lists what is below and sees the directories there.
ListsBelow(fs, x, w) ==
    /\ w.listed = Sub(fs, x.prefix) \ {x.prefix}
    /\ w.seen = x.seen \cup SubDirs(fs, x.prefix)

\* Between a path and one below it there is an entry of the first.
LEMMA OnWayVia ==
    ASSUME NEW p \in Seq(Names), NEW q \in Seq(Names), OnWay(p, q), p # q
    PROVE  \E n \in Names : OnWay(Append(p, n), q)
<1> DEFINE m == Len(p) + 1
           s == Append(p, q[m])
<1>1. Len(p) \in Nat /\ Len(q) \in Nat /\ Len(p) # Len(q) /\ Len(p) <= Len(q)
  <2>1. Len(p) # Len(q)
    BY SamePath DEF OnWay
  <2> QED BY <2>1 DEF OnWay
<1>2. m \in 1..Len(q) /\ q[m] \in Names
  BY <1>1
<1>3. Len(s) = m /\ s[m] = q[m] /\ \A i \in 1..Len(p) : s[i] = p[i]
  BY <1>2
<1>4. \A i \in 1..m : i \in 1..Len(p) \/ i = m
  BY <1>1
<1> HIDE DEF s
<1>5. OnWay(s, q)
  BY <1>1, <1>2, <1>3, <1>4 DEF OnWay
<1> QED BY <1>2, <1>5 DEF s

\* Two paths of one length are on the way to one path only if they are the same.
LEMMA OnWaySame ==
    ASSUME NEW p \in Seq(Names), NEW q \in Seq(Names), NEW r \in Seq(Names),
           Len(p) = Len(q), OnWay(p, r), OnWay(q, r)
    PROVE  p = q
BY SamePath DEF OnWay

\* Where the walk is after an entry of the directory it is in.
LEMMA VisitSub ==
    ASSUME NEW fs, Treelike(fs), NEW x, Placed(fs, x), NEW walk,
           \A y \in Unseen(fs) : Placed(fs, y) /\ Left(fs, y) < Left(fs, x) =>
              ListsBelow(fs, y, walk[y]),
           NEW p \in Found(fs), OnWay(x.prefix, p), p # x.prefix,
           NEW acc, SeenGrows(fs, x, acc.seen),
           \A r \in Sub(fs, p) : Lookup(fs, r) \notin acc.seen
    PROVE  /\ Visit(fs, walk, acc, p, Lookup(fs, p)).listed = acc.listed \cup Sub(fs, p)
           /\ Visit(fs, walk, acc, p, Lookup(fs, p)).seen = acc.seen \cup SubDirs(fs, p)
<1> DEFINE c == Lookup(fs, p)
           y == Callee(acc, p, c)
<1>1. p \in Seq(Names) /\ IsImage(fs) /\ x \in Unseen(fs)
  BY DEF Found, Treelike, Placed
<1>2. c \in 1..Len(fs)
  BY <1>1, LookupIn DEF Treelike, Found, NoIno
<1>3. p \in Sub(fs, p)
  BY <1>1, OnWayOrder DEF Sub
<1>4. CASE IsDir(fs, c)
  <2>1. c \in Dirs(fs) /\ c \notin acc.seen
    BY <1>1, <1>2, <1>3, <1>4, ImageShape DEF Dirs, IsDir
  <2>2. y \in Unseen(fs) /\ y.seen = acc.seen /\ y.prefix = p /\ y.ino = c
    BY <1>1, <2>1 DEF Unseen, Callee, SeenGrows
  <2>3. Left(fs, y) < Left(fs, x)
    <3> HIDE DEF y
    <3> QED BY <1>1, <2>2, LeftSinks
  <2>4. Placed(fs, y)
    <3> HIDE DEF y
    <3> QED BY <2>2 DEF Placed
  <2>5. ListsBelow(fs, y, walk[y])
    BY <2>2, <2>3, <2>4
  <2>6. walk[y].listed = Sub(fs, p) \ {p} /\ walk[y].seen = acc.seen \cup SubDirs(fs, p)
    <3> HIDE DEF y
    <3> QED BY <2>2, <2>5 DEF ListsBelow
  <2>7. Visit(fs, walk, acc, p, c) =
           [listed |-> acc.listed \cup {p} \cup walk[y].listed, seen |-> walk[y].seen]
    BY <1>4, <2>1 DEF Visit, Callee
  <2> HIDE DEF y, c
  <2>8. Visit(fs, walk, acc, p, c).listed = acc.listed \cup {p} \cup (Sub(fs, p) \ {p})
        /\ Visit(fs, walk, acc, p, c).seen = acc.seen \cup SubDirs(fs, p)
    BY <2>6, <2>7
  <2> QED BY <1>3, <2>8 DEF c
<1>5. CASE ~IsDir(fs, c)
  <2>1. \A r \in Sub(fs, p) : r = p
    BY <1>1, <1>5, WayIsThrough DEF Sub, Found
  <2>2. Sub(fs, p) = {p}
    BY <1>3, <2>1
  <2>3. SubDirs(fs, p) = {}
    <3>1. \A i \in Dirs(fs) : fs[i].kind = "dir"
      BY DEF Dirs
    <3>2. c \notin Dirs(fs)
      BY <1>2, <1>5, <3>1 DEF IsDir, NoIno
    <3> QED BY <2>2, <3>2 DEF SubDirs
  <2>4. Visit(fs, walk, acc, p, c) = [listed |-> acc.listed \cup {p}, seen |-> acc.seen]
    BY <1>5 DEF Visit
  <2> HIDE DEF c
  <2>5. Visit(fs, walk, acc, p, c).listed = acc.listed \cup {p}
        /\ Visit(fs, walk, acc, p, c).seen = acc.seen
    BY <2>4
  <2> QED BY <2>2, <2>3, <2>5 DEF c
<1> QED BY <1>4, <1>5

\* The path of an entry of the directory a walk is in, and what is below it.
EntryOf(fs, x, j) == Append(x.prefix, Entered(fs, x.ino)[j])

\* The n entries of a directory are paths one name longer, no two the same, that lead to its
\* children, and what lies below the directory lies below one of them.
EntriesBelow(fs, x, n) ==
    /\ n \in Nat /\ x.prefix \in Seq(Names)
    /\ \A j \in 1..n : /\ EntryOf(fs, x, j) \in Found(fs)
                       /\ OnWay(x.prefix, EntryOf(fs, x, j))
                       /\ EntryOf(fs, x, j) # x.prefix
                       /\ Len(EntryOf(fs, x, j)) = Len(x.prefix) + 1
                       /\ Lookup(fs, EntryOf(fs, x, j)) =
                             fs[x.ino].entries[Entered(fs, x.ino)[j]]
    /\ \A j, k \in 1..n : EntryOf(fs, x, j) = EntryOf(fs, x, k) => j = k
    /\ \A r \in Sub(fs, x.prefix) \ {x.prefix} : \E j \in 1..n : r \in Sub(fs, EntryOf(fs, x, j))

LEMMA EntriesOf ==
    ASSUME NEW fs, Treelike(fs), NEW x, Placed(fs, x), NEW n, n = Len(Entered(fs, x.ino))
    PROVE  EntriesBelow(fs, x, n)
<1> DEFINE E == Entered(fs, x.ino)
<1>1. IsImage(fs) /\ Few(fs) /\ x \in Unseen(fs) /\ x.prefix \in Seq(Names)
      /\ Lookup(fs, x.prefix) = x.ino
  BY DEF Treelike, Placed, Found
<1>2. x.ino \in Dirs(fs)
  BY <1>1, LeftIs
<1>3. /\ n \in Nat
      /\ \A k \in 1..n : E[k] \in Names /\ fs[x.ino].entries[E[k]] \in 1..Len(fs)
      /\ \A k, l \in 1..n : E[k] = E[l] => k = l
      /\ \A m \in Names : fs[x.ino].entries[m] # NoIno => \E k \in 1..n : E[k] = m
  <2> HIDE DEF E
  <2> QED BY <1>1, <1>2, EnteredOnce DEF E
<1> HIDE DEF E
<1>4. IsDir(fs, x.ino)
  BY <1>1, <1>2, ImageShape DEF Dirs, IsDir, NoIno
<1>5. \A m \in Names : Lookup(fs, Append(x.prefix, m)) = fs[x.ino].entries[m]
  BY <1>1, <1>4, LookupStep DEF Down
<1>6. ASSUME NEW j \in 1..n
      PROVE  /\ EntryOf(fs, x, j) \in Found(fs) /\ OnWay(x.prefix, EntryOf(fs, x, j))
             /\ EntryOf(fs, x, j) # x.prefix /\ Len(EntryOf(fs, x, j)) = Len(x.prefix) + 1
             /\ Lookup(fs, EntryOf(fs, x, j)) = fs[x.ino].entries[E[j]]
             /\ BaseName(EntryOf(fs, x, j)) = E[j]
  <2> DEFINE s == Append(x.prefix, E[j])
  <2>1. E[j] \in Names /\ s \in Seq(Names) /\ Len(s) = Len(x.prefix) + 1 /\ BaseName(s) = E[j]
    BY <1>1, <1>3, EntryPath
  <2>2. OnWay(x.prefix, s)
    BY <1>1, <2>1, OnWayEntry, OnWayOrder
  <2>3. Lookup(fs, s) = fs[x.ino].entries[E[j]] /\ Lookup(fs, s) # NoIno
    BY <1>3, <1>5, <2>1 DEF NoIno
  <2>4. s # x.prefix
    <3> HIDE DEF s
    <3> QED BY <1>1, <2>1
  <2> QED BY <2>1, <2>2, <2>3, <2>4 DEF EntryOf, E, Found
<1>7. \A j, k \in 1..n : EntryOf(fs, x, j) = EntryOf(fs, x, k) => j = k
  BY <1>3, <1>6
<1>8. ASSUME NEW r \in Sub(fs, x.prefix) \ {x.prefix}
      PROVE  \E j \in 1..n : r \in Sub(fs, EntryOf(fs, x, j))
  <2>1. r \in Seq(Names) /\ r \in Found(fs) /\ OnWay(x.prefix, r) /\ r # x.prefix
    BY DEF Sub, Found
  <2>2. PICK m \in Names : OnWay(Append(x.prefix, m), r)
    BY <1>1, <2>1, OnWayVia
  <2>3. Append(x.prefix, m) \in Found(fs)
    <3>1. Append(x.prefix, m) \in Seq(Names)
      BY <1>1
    <3> QED BY <2>1, <2>2, <3>1, WayIsThrough
  <2>4. PICK k \in 1..n : E[k] = m
    BY <1>3, <1>5, <2>3 DEF Found
  <2> QED BY <2>1, <2>2, <2>4 DEF Sub, EntryOf, E
<1> QED BY <1>1, <1>3, <1>6, <1>7, <1>8 DEF E, EntriesBelow

\* Entering a directory lists what is below it.
LEMMA EntersBelow ==
    ASSUME NEW fs, Treelike(fs), NEW x, Placed(fs, x), NEW walk,
           \A y \in Unseen(fs) : Placed(fs, y) /\ Left(fs, y) < Left(fs, x) =>
              ListsBelow(fs, y, walk[y])
    PROVE  ListsBelow(fs, x, Visits(fs, walk, x))
<1> DEFINE n == Len(Entered(fs, x.ino))
           e(j) == EntryOf(fs, x, j)
           c(j) == Lookup(fs, e(j))
           R(k) == UNION {Sub(fs, e(j)) : j \in 1..k}
           D(k) == UNION {SubDirs(fs, e(j)) : j \in 1..k}
<1>1. /\ n \in Nat /\ x.prefix \in Seq(Names)
      /\ \A j \in 1..n : /\ e(j) \in Found(fs) /\ OnWay(x.prefix, e(j)) /\ e(j) # x.prefix
                         /\ Len(e(j)) = Len(x.prefix) + 1
                         /\ c(j) = fs[x.ino].entries[Entered(fs, x.ino)[j]]
      /\ \A j, k \in 1..n : e(j) = e(k) => j = k
      /\ \A r \in Sub(fs, x.prefix) \ {x.prefix} : \E j \in 1..n : r \in Sub(fs, e(j))
  <2>1. n = Len(Entered(fs, x.ino))
    OBVIOUS
  <2> HIDE DEF n, e, c, R, D
  <2>2. EntriesBelow(fs, x, n)
    BY <2>1, EntriesOf
  <2> QED BY <2>2 DEF EntriesBelow, e, c
<1>2. PICK u : /\ u[0] = AtFirst(x) /\ Visits(fs, walk, x) = u[n]
               /\ \A k \in 1..n : u[k] = Visited(u, fs, walk, x, k)
  BY <1>1, VisitsRun
<1>3. \A k \in 1..n : u[k] = Visit(fs, walk, u[k-1], e(k), c(k))
  BY <1>1, <1>2 DEF Visited, EntryOf
<1>4. x.ino \in Dirs(fs) /\ x.seen \subseteq Dirs(fs) /\ Lookup(fs, x.prefix) = x.ino
      /\ x.prefix \in Found(fs)
  BY LeftIs DEF Treelike, Placed
<1> HIDE DEF n, e
<1>5. \A j \in 1..n : Sub(fs, e(j)) \subseteq Sub(fs, x.prefix) /\ x.prefix \notin Sub(fs, e(j))
  <2>1. ASSUME NEW j \in 1..n, NEW r \in Sub(fs, e(j))
        PROVE  r \in Sub(fs, x.prefix) /\ r # x.prefix
    <3>1. r \in Seq(Names) /\ r \in Found(fs) /\ OnWay(e(j), r) /\ e(j) \in Seq(Names)
      BY <1>1, <2>1 DEF Sub, Found
    <3>2. OnWay(x.prefix, r)
      BY <1>1, <3>1, OnWayOrder
    <3>3. Len(e(j)) <= Len(r)
      BY <3>1 DEF OnWay
    <3>4. Len(r) # Len(x.prefix)
      BY <1>1, <3>1, <3>3
    <3> QED BY <3>1, <3>2, <3>4 DEF Sub
  <2> QED BY <2>1
<1>6. \A j, k \in 1..n : j # k => Sub(fs, e(j)) \cap Sub(fs, e(k)) = {}
  <2>1. ASSUME NEW j \in 1..n, NEW k \in 1..n, NEW r \in Sub(fs, e(j)) \cap Sub(fs, e(k))
        PROVE  j = k
    <3>1. /\ r \in Seq(Names) /\ OnWay(e(j), r) /\ OnWay(e(k), r)
          /\ e(j) \in Seq(Names) /\ e(k) \in Seq(Names) /\ Len(e(j)) = Len(e(k))
      BY <1>1, <2>1 DEF Sub, Found
    <3>2. e(j) = e(k)
      BY <3>1, OnWaySame
    <3> QED BY <1>1, <3>2
  <2> QED BY <2>1
<1>7. OneWay(fs)
  BY DEF Treelike
<1> DEFINE S == {k \in 0..n : /\ u[k].listed = R(k)
                              /\ u[k].seen = x.seen \cup {x.ino} \cup D(k)}
<1>8. 0 \in S
  <2>1. u[0].listed = {} /\ u[0].seen = x.seen \cup {x.ino}
    BY <1>2 DEF AtFirst
  <2>2. R(0) = {} /\ D(0) = {} /\ 0 \in 0..n
    BY <1>1
  <2> QED BY <2>1, <2>2
<1>9. ASSUME NEW k \in 0..(n-1), k \in S PROVE k + 1 \in S
  <2>1. /\ k + 1 \in 1..n /\ k + 1 \in 0..n /\ (k + 1) - 1 = k
        /\ u[k].listed = R(k) /\ u[k].seen = x.seen \cup {x.ino} \cup D(k)
        /\ \A j \in 1..k : j \in 1..n /\ j # k + 1
        /\ \A j \in 1..(k+1) : j \in 1..k \/ j = k + 1
        /\ \A j \in 1..k : j \in 1..(k+1)
        /\ k + 1 \in 1..(k+1)
    BY <1>1, <1>9
  <2> DEFINE p == e(k+1)
             acc == u[k]
  <2>2. p \in Found(fs) /\ OnWay(x.prefix, p) /\ p # x.prefix
    BY <1>1, <2>1
  <2>3. SeenGrows(fs, x, acc.seen)
    <3>1. D(k) \subseteq Dirs(fs)
      BY DEF SubDirs
    <3> QED BY <1>4, <2>1, <3>1 DEF SeenGrows
  <2>4. ASSUME NEW r \in Sub(fs, p) PROVE Lookup(fs, r) \notin acc.seen
    <3>1. r \in Sub(fs, x.prefix) /\ r # x.prefix /\ r \in Found(fs)
      BY <1>5, <2>1 DEF Sub
    <3>2. Lookup(fs, r) \notin x.seen
      BY <3>1 DEF Placed
    <3>3. Lookup(fs, r) # x.ino
      BY <1>4, <1>7, <3>1 DEF OneWay
    <3>4. ASSUME NEW j \in 1..k, Lookup(fs, r) \in SubDirs(fs, e(j)) PROVE FALSE
      <4>1. PICK s \in Sub(fs, e(j)) : Lookup(fs, s) = Lookup(fs, r)
        BY <3>4 DEF SubDirs
      <4>2. s = r
        BY <1>7, <3>1, <4>1 DEF OneWay, Sub
      <4> QED BY <1>6, <2>1, <4>1, <4>2
    <3> QED BY <2>1, <3>2, <3>3, <3>4
  <2>5. /\ Visit(fs, walk, acc, p, Lookup(fs, p)).listed = acc.listed \cup Sub(fs, p)
        /\ Visit(fs, walk, acc, p, Lookup(fs, p)).seen = acc.seen \cup SubDirs(fs, p)
    <3> HIDE DEF p, acc
    <3> QED BY <2>2, <2>3, <2>4, VisitSub
  <2>6. u[k+1].listed = R(k) \cup Sub(fs, p) /\ u[k+1].seen = acc.seen \cup SubDirs(fs, p)
    BY <1>3, <2>1, <2>5
  <2>7. R(k+1) = R(k) \cup Sub(fs, p) /\ D(k+1) = D(k) \cup SubDirs(fs, p)
    BY <2>1
  <2> HIDE DEF p, R, D
  <2> QED BY <2>1, <2>6, <2>7
<1>10. n \in S
  <2>1. 0..n \subseteq S
    <3> HIDE DEF S
    <3> QED BY <1>1, <1>8, <1>9, UpTo
  <2> QED BY <1>1, <2>1
<1>11. R(n) = Sub(fs, x.prefix) \ {x.prefix}
  BY <1>1, <1>5
<1>12. {x.ino} \cup D(n) = SubDirs(fs, x.prefix)
  <2>1. x.prefix \in Sub(fs, x.prefix)
    BY <1>1, <1>4, OnWayOrder DEF Sub
  <2>2. x.ino \in SubDirs(fs, x.prefix)
    BY <1>4, <2>1 DEF SubDirs
  <2>3. \A j \in 1..n : SubDirs(fs, e(j)) \subseteq SubDirs(fs, x.prefix)
    BY <1>5 DEF SubDirs
  <2>4. ASSUME NEW i \in SubDirs(fs, x.prefix), i # x.ino PROVE i \in D(n)
    <3>1. PICK r \in Sub(fs, x.prefix) : Lookup(fs, r) = i
      BY DEF SubDirs
    <3>2. r # x.prefix
      BY <1>4, <2>4, <3>1
    <3>3. PICK j \in 1..n : r \in Sub(fs, e(j))
      BY <1>1, <3>1, <3>2
    <3>4. i \in SubDirs(fs, e(j))
      BY <3>1, <3>3 DEF SubDirs
    <3> QED BY <3>4
  <2> QED BY <2>2, <2>3, <2>4
<1> HIDE DEF R, D
<1> QED BY <1>2, <1>10, <1>11, <1>12 DEF ListsBelow

\* A walk lists what is below where it starts.
LEMMA WalkLists ==
    ASSUME NEW fs, Treelike(fs), NEW f, IsWalk(f, fs), NEW x, Placed(fs, x)
    PROVE  ListsBelow(fs, x, f[x])
<1>1. \A y \in Unseen(fs) : f[y] = Visits(fs, f, y)
  BY DEF IsWalk
<1> DEFINE S == {n \in Nat : \A y \in Unseen(fs) : Placed(fs, y) /\ Left(fs, y) <= n =>
                    ListsBelow(fs, y, f[y])}
<1>2. \A y \in Unseen(fs) : Left(fs, y) \in 1..Cardinality(Dirs(fs)) /\ Cardinality(Dirs(fs)) \in Nat
  BY LeftIs DEF Treelike
<1>3. 0 \in S
  <2>1. \A y \in Unseen(fs) : ~(Left(fs, y) <= 0)
    BY <1>2
  <2> QED BY <2>1
<1>4. ASSUME NEW n \in Nat, n \in S PROVE n + 1 \in S
  <2>1. ASSUME NEW y \in Unseen(fs), Placed(fs, y), Left(fs, y) <= n + 1
        PROVE  ListsBelow(fs, y, f[y])
    <3>1. \A z \in Unseen(fs) : Left(fs, z) < Left(fs, y) => Left(fs, z) <= n
      BY <1>2, <2>1
    <3>2. \A z \in Unseen(fs) : Placed(fs, z) /\ Left(fs, z) < Left(fs, y) =>
             ListsBelow(fs, z, f[z])
      BY <1>4, <3>1
    <3>3. ListsBelow(fs, y, Visits(fs, f, y))
      BY <2>1, <3>2, EntersBelow
    <3> QED BY <1>1, <3>3
  <2> QED BY <2>1
<1>5. Nat \subseteq S
  <2> HIDE DEF S
  <2> QED BY <1>3, <1>4, AllNat
<1>6. x \in Unseen(fs)
  BY DEF Placed
<1>7. Left(fs, x) \in Nat /\ Left(fs, x) <= Left(fs, x)
  BY <1>2, <1>6
<1> QED BY <1>5, <1>6, <1>7

\* The tree of an image has what its paths lead to.
PathTree(fs) == [p \in Found(fs) \ {<<>>} |-> NodeEntry(fs[Lookup(fs, p)])]

LEMMA ToTreeIs ==
    ASSUME NEW fs, Treelike(fs)
    PROVE  ToTree(fs) = PathTree(fs)
<1> DEFINE f == CHOOSE g : IsWalk(g, fs)
           x == [ino |-> Root, prefix |-> <<>>, seen |-> {}]
<1>1. IsWalk(f, fs)
  <2>1. \E g : IsWalk(g, fs)
    BY WalkExists DEF Treelike
  <2> QED BY <2>1
<1>2. Walk(fs) = f[x]
  BY DEF Walk, IsWalk
<1> HIDE DEF f
<1>3. Placed(fs, x) /\ x.prefix = <<>> /\ x.seen = {}
  <2>1. Root \in Dirs(fs)
    BY ImageShape DEF Treelike, Dirs, Root
  <2>2. x \in Unseen(fs)
    BY <2>1 DEF Unseen
  <2>3. Lookup(fs, <<>>) = Root /\ <<>> \in Found(fs)
    BY LookupRoot DEF Found, Root, NoIno
  <2> QED BY <2>2, <2>3 DEF Placed
<1> HIDE DEF x
<1>4. Walk(fs).listed = Sub(fs, <<>>) \ {<<>>}
  BY <1>1, <1>2, <1>3, WalkLists DEF ListsBelow
<1>5. Sub(fs, <<>>) = Found(fs)
  BY OnWayOrder DEF Sub, Found
<1> QED BY <1>4, <1>5 DEF ToTree, PathTree

-----------------------------------------------------------------------------
(* What a change of an entry does to the paths *)

\* An inode from which no name leads, or the node it is the number of.
LEMMA DownIs ==
    ASSUME NEW fs, IsImage(fs), NEW i \in 0..Len(fs), NEW n \in Names
    PROVE  /\ Down(fs, i, n) \in 0..Len(fs)
           /\ i = NoIno => Down(fs, i, n) = NoIno
           /\ i # NoIno => i \in 1..Len(fs) /\ Down(fs, i, n) =
                              IF fs[i].kind = "dir" THEN fs[i].entries[n] ELSE NoIno
<1>1. Len(fs) \in Nat
  BY ImageShape
<1>2. CASE i = NoIno
  BY <1>1, <1>2 DEF Down, IsDir, NoIno
<1>3. CASE i # NoIno
  <2>1. i \in 1..Len(fs)
    BY <1>1, <1>3 DEF NoIno
  <2>2. fs[i].kind = "dir" => fs[i].entries \in [Names -> 0..Len(fs)]
    BY <2>1, ImageShape
  <2>3. Down(fs, i, n) = IF fs[i].kind = "dir" THEN fs[i].entries[n] ELSE NoIno
    BY <1>3 DEF Down, IsDir
  <2> QED BY <1>1, <1>3, <2>1, <2>2, <2>3 DEF NoIno
<1> QED BY <1>2, <1>3

\* Finitely many new entries keep the directories finite.
LEMMA FewStays ==
    ASSUME NEW fs, IsImage(fs), Few(fs), NEW x, IsImage(x), NEW N, IsFiniteSet(N),
           \A i \in 1..Len(x), n \in Names : Down(x, i, n) # NoIno =>
              n \in N \/ (i \in 1..Len(fs) /\ Down(fs, i, n) # NoIno)
    PROVE  Few(x)
<1>1. ASSUME NEW i \in 1..Len(x), x[i].kind = "dir"
      PROVE  IsFiniteSet({n \in Names : x[i].entries[n] # NoIno})
  <2> DEFINE S == {n \in Names : x[i].entries[n] # NoIno}
             T == {n \in Names : i \in 1..Len(fs) /\ Down(fs, i, n) # NoIno}
  <2>1. i \in 0..Len(x) /\ i # NoIno
    BY ImageShape DEF NoIno
  <2>2. S \subseteq N \cup T
    <3>1. \A n \in S : Down(x, i, n) # NoIno
      BY <1>1, <2>1 DEF Down, IsDir
    <3> QED BY <3>1
  <2>3. IsFiniteSet(T)
    <3>1. CASE i \in 1..Len(fs) /\ fs[i].kind = "dir"
      <4>1. \A n \in Names : Down(fs, i, n) = fs[i].entries[n]
        BY <2>1, <3>1 DEF Down, IsDir
      <4>2. T = {n \in Names : fs[i].entries[n] # NoIno}
        BY <3>1, <4>1
      <4> QED BY <3>1, <4>2 DEF Few
    <3>2. CASE ~(i \in 1..Len(fs) /\ fs[i].kind = "dir")
      <4>1. T = {}
        BY <3>2 DEF Down, IsDir
      <4> QED BY <4>1, FS_EmptySet
    <3> QED BY <3>1, <3>2
  <2> HIDE DEF S, T
  <2>4. IsFiniteSet(N \cup T)
    BY <2>3, FS_Union
  <2>5. IsFiniteSet(S)
    BY <2>2, <2>4, FS_Subset
  <2> QED BY <2>5 DEF S
<1> QED BY <1>1 DEF Few

\* Nodes and paths of an image with one node more, found at p.
GrownAt(x, fs, p, node) ==
    /\ Treelike(x) /\ Len(x) = Len(fs) + 1
    /\ \A q \in Seq(Names) : Lookup(x, q) = IF q = p THEN Len(fs) + 1 ELSE Lookup(fs, q)
    /\ \A i \in 1..Len(fs) : x[i].kind = fs[i].kind /\ (fs[i].kind = "file" => x[i] = fs[i])
    /\ x[Len(fs) + 1] = node

LEMMA PlantNodes ==
    ASSUME NEW fs, IsImage(fs), NEW dir \in 1..Len(fs), fs[dir].kind = "dir", NEW name \in Names,
           NEW node, node = EmptyDir \/ (node.kind = "file" /\ node = File(node.buf, node.len)),
           NEW x, x = SetEntry(Append(fs, node), dir, name, Len(fs) + 1)
    PROVE  /\ IsImage(x) /\ Len(fs) \in Nat /\ Len(x) = Len(fs) + 1
           /\ \A i \in 1..Len(fs) : x[i].kind = fs[i].kind /\ (fs[i].kind = "file" => x[i] = fs[i])
           /\ x[Len(fs) + 1] = node
           /\ \A i \in 0..(Len(fs) + 1), n \in Names :
                 Down(x, i, n) = IF i = dir /\ n = name THEN Len(fs) + 1
                                 ELSE IF i = Len(fs) + 1 THEN NoIno ELSE Down(fs, i, n)
<1> DEFINE new == Len(fs) + 1
           g   == Append(fs, node)
<1>1. Len(fs) \in Nat /\ new \in Nat
  BY ImageShape
<1>2. IsNode(node, new)
  <2>1. [n \in Names |-> NoIno] \in [Names -> 0..new]
    BY <1>1 DEF NoIno
  <2> QED BY <2>1 DEF IsNode, EmptyDir
<1>3. /\ Len(g) = new /\ IsImage(g) /\ (\A i \in 1..Len(fs) : g[i] = fs[i])
      /\ g[new] = node
  <2>1. /\ Len(g) = new /\ IsImage(g) /\ (\A i \in 1..Len(fs) : g[i] = fs[i])
        /\ g = [i \in 1..new |-> IF i <= Len(fs) THEN fs[i] ELSE node]
    BY <1>2, Appended
  <2>2. new \in 1..new /\ ~(new <= Len(fs))
    BY <1>1
  <2> HIDE DEF g, new
  <2> QED BY <2>1, <2>2
<1> HIDE DEF g, new
<1>4. /\ IsImage(x) /\ Len(x) = new
      /\ \A i \in 1..new :
            /\ x[i].kind = g[i].kind
            /\ i # dir \/ g[i].kind = "file" => x[i] = g[i]
            /\ i = dir /\ g[i].kind = "dir" =>
                  \A n \in Names : x[i].entries[n] = IF n = name THEN new ELSE g[i].entries[n]
  <2>1. dir \in 0..Len(g) /\ new \in 0..Len(g) /\ x = SetEntry(g, dir, name, new)
    BY <1>1, <1>3 DEF new, g
  <2>2. /\ IsImage(x) /\ Len(x) = Len(g)
        /\ \A i \in 1..Len(g) :
              /\ x[i].kind = g[i].kind
              /\ i # dir \/ g[i].kind = "file" => x[i] = g[i]
              /\ i = dir /\ g[i].kind = "dir" =>
                    \A n \in Names : x[i].entries[n] = IF n = name THEN new ELSE g[i].entries[n]
    BY <1>3, <2>1, SetEntryOf
  <2> QED BY <1>3, <2>2
<1>5. \A i \in 1..Len(fs) : i \in 1..new /\ i # new
  BY <1>1 DEF new
<1>6. new \in 1..new /\ new # dir
  BY <1>1, <1>5 DEF new
<1>7. \A i \in 1..Len(fs) : x[i].kind = fs[i].kind /\ (fs[i].kind = "file" => x[i] = fs[i])
  BY <1>3, <1>4, <1>5
<1>8. x[new] = node
  BY <1>3, <1>4, <1>6
<1>9. ASSUME NEW i \in 0..new, NEW n \in Names
      PROVE  Down(x, i, n) = IF i = dir /\ n = name THEN new
                             ELSE IF i = new THEN NoIno ELSE Down(fs, i, n)
  <2>1. CASE i = NoIno
    <3>1. i # dir /\ i # new
      BY <1>1, <1>6, <2>1 DEF NoIno, new
    <3> QED BY <2>1, <3>1 DEF Down, IsDir
  <2>2. CASE i = new
    <3>1. i # NoIno /\ i # dir
      BY <1>1, <1>6, <2>2 DEF NoIno, new
    <3>2. node.kind = "dir" => node.entries[n] = NoIno
      BY DEF EmptyDir, Dir
    <3> QED BY <1>8, <2>2, <3>1, <3>2 DEF Down, IsDir
  <2>3. CASE i # NoIno /\ i # new
    <3>1. i \in 1..Len(fs)
      BY <1>1, <2>3 DEF NoIno, new
    <3>2. x[i].kind = fs[i].kind /\ i \in 1..new /\ g[i] = fs[i]
      BY <1>3, <1>5, <1>7, <3>1
    <3>3. fs[i].kind = "dir" =>
             x[i].entries[n] = IF i = dir /\ n = name THEN new ELSE fs[i].entries[n]
      BY <1>4, <3>2
    <3> QED BY <2>3, <3>2, <3>3 DEF Down, IsDir
  <2> QED BY <2>1, <2>2, <2>3
<1> QED BY <1>1, <1>4, <1>7, <1>8, <1>9 DEF new

\* Entering a new node makes its path lead to it, and changes no other path.
LEMMA PlantLooks ==
    ASSUME NEW fs, Treelike(fs), NEW p \in Seq(Names), p # <<>>, Lookup(fs, p) = NoIno,
           IsDir(fs, Lookup(fs, Parent(p))),
           NEW node, node = EmptyDir \/ (node.kind = "file" /\ node = File(node.buf, node.len)),
           NEW x, x = SetEntry(Append(fs, node), Lookup(fs, Parent(p)), BaseName(p), Len(fs) + 1)
    PROVE  GrownAt(x, fs, p, node)
<1> DEFINE d    == Lookup(fs, Parent(p))
           name == BaseName(p)
           new  == Len(fs) + 1
<1>1. /\ Parent(p) \in Seq(Names) /\ name \in Names /\ p = Append(Parent(p), name)
  BY PathEnds
<1>2. IsImage(fs) /\ Few(fs) /\ OneWay(fs) /\ Len(fs) # 0 /\ fs[Root].kind = "dir"
  BY DEF Treelike
<1>3. \A q \in Seq(Names) : Lookup(fs, q) \in 0..Len(fs)
  BY <1>2, LookupIn
<1>4. d \in 1..Len(fs) /\ fs[d].kind = "dir" /\ Parent(p) \in Found(fs)
  <2>1. d \in 0..Len(fs) /\ d # NoIno /\ fs[d].kind = "dir"
    BY <1>1, <1>3 DEF IsDir
  <2>2. d \in 1..Len(fs)
    BY <2>1 DEF NoIno
  <2> QED BY <1>1, <2>1, <2>2 DEF Found
<1>5. /\ IsImage(x) /\ Len(fs) \in Nat /\ Len(x) = new
      /\ \A i \in 1..Len(fs) : x[i].kind = fs[i].kind /\ (fs[i].kind = "file" => x[i] = fs[i])
      /\ x[new] = node
      /\ \A i \in 0..new, n \in Names :
            Down(x, i, n) = IF i = d /\ n = name THEN new
                            ELSE IF i = new THEN NoIno ELSE Down(fs, i, n)
  <2> HIDE DEF d, name
  <2> QED BY <1>1, <1>2, <1>4, PlantNodes DEF d, name
<1> HIDE DEF d, name, new
<1>6. new = Len(fs) + 1 /\ new \in 0..new /\ new # NoIno /\ \A i \in 0..Len(fs) : i \in 0..new /\ i # new
  BY <1>5 DEF new, NoIno
<1> DEFINE Is(q) == Lookup(x, q) = IF q = p THEN new ELSE Lookup(fs, q)
           S == {q \in Seq(Names) : Is(q)}
<1>7. <<>> \in S
  BY LookupRoot
<1>8. ASSUME NEW r \in Seq(Names), NEW n \in Names, r \in S PROVE Append(r, n) \in S
  <2> DEFINE q == Append(r, n)
  <2>1. /\ q \in Seq(Names) /\ Parent(q) = r /\ BaseName(q) = n
        /\ Lookup(x, q) = Down(x, Lookup(x, r), n) /\ Lookup(fs, q) = Down(fs, Lookup(fs, r), n)
    BY EntryPath, LookupStep
  <2> HIDE DEF q
  <2>2. CASE r = p
    <3>1. Lookup(x, r) = new /\ new # d /\ Down(fs, NoIno, n) = NoIno
      BY <1>4, <1>6, <1>8, <2>2 DEF Down, IsDir
    <3>2. Lookup(x, q) = NoIno
      BY <1>5, <1>6, <2>1, <3>1
    <3>3. Lookup(fs, q) = NoIno
      BY <2>1, <2>2, <3>1
    <3>4. q # p
      BY <1>1, <2>1, <2>2, PathEnds
    <3> QED BY <2>1, <3>2, <3>3, <3>4 DEF q
  <2>3. CASE r # p
    <3> DEFINE i == Lookup(fs, r)
    <3>1. Lookup(x, r) = i /\ i \in 0..new /\ i # new
      BY <1>3, <1>6, <1>8, <2>3
    <3>2. Lookup(x, q) = IF i = d /\ n = name THEN new ELSE Down(fs, i, n)
      BY <1>5, <2>1, <3>1
    <3>3. i = d => r = Parent(p)
      <4>1. ASSUME i = d PROVE r = Parent(p)
        <5>1. r \in Found(fs)
          BY <1>4, <4>1 DEF Found, NoIno, d
        <5> QED BY <1>2, <1>4, <4>1, <5>1 DEF OneWay, d
      <4> QED BY <4>1
    <3>4. i = d /\ n = name => q = p
      BY <1>1, <3>3 DEF q
    <3>5. q = p => i = d /\ n = name
      BY <2>1 DEF d, name
    <3> HIDE DEF i
    <3>6. Is(q)
      BY <2>1, <3>2, <3>4, <3>5 DEF i
    <3> QED BY <2>1, <3>6 DEF q
  <2> QED BY <2>2, <2>3
<1>9. \A q \in Seq(Names) : Is(q)
  <2>1. Seq(Names) \subseteq S
    <3> HIDE DEF S
    <3> QED BY <1>7, <1>8, EachPath
  <2> QED BY <2>1
<1>10. Few(x)
  <2>1. IsFiniteSet({name})
    BY FS_Singleton
  <2>2. ASSUME NEW i \in 1..Len(x), NEW n \in Names, Down(x, i, n) # NoIno
        PROVE  n \in {name} \/ (i \in 1..Len(fs) /\ Down(fs, i, n) # NoIno)
    <3>1. i \in 0..new /\ (i = new \/ i \in 1..Len(fs))
      BY <1>5, <1>6
    <3>2. new # d
      BY <1>4, <1>6
    <3> QED BY <1>5, <2>2, <3>1, <3>2
  <2> DEFINE N == {name}
  <2> HIDE DEF N
  <2>3. IsFiniteSet(N) /\ \A i \in 1..Len(x), n \in Names : Down(x, i, n) # NoIno =>
              n \in N \/ (i \in 1..Len(fs) /\ Down(fs, i, n) # NoIno)
    BY <2>1, <2>2 DEF N
  <2> QED BY <1>2, <1>5, <2>3, FewStays
<1>11. OneWay(x)
  <2>1. ASSUME NEW q \in Found(x), NEW r \in Found(x), Lookup(x, q) = Lookup(x, r)
        PROVE  q = r
    <3>1. q \in Seq(Names) /\ r \in Seq(Names) /\ Is(q) /\ Is(r)
          /\ Lookup(x, q) # NoIno /\ Lookup(x, r) # NoIno
      BY <1>9 DEF Found
    <3>2. CASE q = p \/ r = p
      BY <1>3, <1>6, <2>1, <3>1, <3>2
    <3>3. CASE q # p /\ r # p
      <4>1. q \in Found(fs) /\ r \in Found(fs) /\ Lookup(fs, q) = Lookup(fs, r)
        BY <2>1, <3>1, <3>3 DEF Found
      <4> QED BY <1>2, <4>1 DEF OneWay
    <3> QED BY <3>2, <3>3
  <2> QED BY <2>1 DEF OneWay
<1>12. Treelike(x)
  <2>1. Root \in 1..Len(fs) /\ Len(x) # 0
    BY <1>2, <1>5, <1>6 DEF Root, NoIno
  <2> QED BY <1>2, <1>5, <1>10, <1>11, <2>1 DEF Treelike
<1> QED BY <1>5, <1>9, <1>12 DEF GrownAt, new

\* The nodes are of the same kinds and the files are the same.
SameNodes(x, fs) ==
    /\ IsImage(x) /\ Len(x) = Len(fs)
    /\ \A i \in 1..Len(fs) : x[i].kind = fs[i].kind /\ (fs[i].kind = "file" => x[i] = fs[i])

\* Nodes and paths of an image whose entry at p is gone.
CutAt(x, fs, p) ==
    /\ Treelike(x) /\ SameNodes(x, fs)
    /\ \A q \in Seq(Names) : Lookup(x, q) = IF OnWay(p, q) THEN NoIno ELSE Lookup(fs, q)

LEMMA CutLooks ==
    ASSUME NEW fs, Treelike(fs), NEW p \in Seq(Names), p # <<>>, Lookup(fs, p) # NoIno,
           NEW x, x = SetEntry(fs, Lookup(fs, Parent(p)), BaseName(p), NoIno)
    PROVE  CutAt(x, fs, p)
<1> DEFINE d    == Lookup(fs, Parent(p))
           name == BaseName(p)
<1>1. /\ Parent(p) \in Seq(Names) /\ name \in Names /\ p = Append(Parent(p), name)
      /\ Len(Parent(p)) = Len(p) - 1 /\ Len(p) \in Nat
  BY PathEnds
<1>2. IsImage(fs) /\ Few(fs) /\ OneWay(fs) /\ Len(fs) # 0 /\ fs[Root].kind = "dir" /\ Len(fs) \in Nat
  BY ImageShape DEF Treelike
<1>3. \A q \in Seq(Names) : Lookup(fs, q) \in 0..Len(fs)
  BY <1>2, LookupIn
<1>4. d \in 1..Len(fs) /\ fs[d].kind = "dir" /\ Parent(p) \in Found(fs)
  <2>1. Lookup(fs, p) = Down(fs, d, name)
    BY <1>1, LookupStep
  <2>2. d \in 0..Len(fs) /\ d # NoIno /\ fs[d].kind = "dir"
    BY <1>1, <1>3, <2>1 DEF Down, IsDir
  <2> QED BY <1>1, <1>2, <2>2 DEF Found, NoIno
<1>5. /\ SameNodes(x, fs)
      /\ \A i \in 0..Len(fs), n \in Names :
            Down(x, i, n) = IF i = d /\ n = name THEN NoIno ELSE Down(fs, i, n)
  <2>1. d \in 0..Len(fs) /\ NoIno \in 0..Len(fs) /\ x = SetEntry(fs, d, name, NoIno)
    BY <1>2, <1>4 DEF NoIno
  <2> HIDE DEF d, name
  <2>2. /\ IsImage(x) /\ Len(x) = Len(fs)
        /\ \A i \in 1..Len(fs) :
              /\ x[i].kind = fs[i].kind
              /\ i # d \/ fs[i].kind = "file" => x[i] = fs[i]
              /\ i = d /\ fs[i].kind = "dir" =>
                    \A n \in Names : x[i].entries[n] = IF n = name THEN NoIno ELSE fs[i].entries[n]
    BY <1>2, <2>1, SetEntryOf
  <2>3. \A i \in 0..Len(fs) : i # NoIno => i \in 1..Len(fs)
    BY <1>2 DEF NoIno
  <2>4. d # NoIno
    BY <1>2, <1>4 DEF NoIno
  <2> QED BY <1>4, <2>2, <2>3, <2>4 DEF SameNodes, Down, IsDir
<1> HIDE DEF d, name
<1> DEFINE Is(q) == Lookup(x, q) = IF OnWay(p, q) THEN NoIno ELSE Lookup(fs, q)
           S == {q \in Seq(Names) : Is(q)}
<1>6. <<>> \in S
  <2>1. <<>> \in Seq(Names) /\ ~OnWay(p, <<>>)
    BY OnWayOrder
  <2> QED BY <2>1, LookupRoot
<1>7. ASSUME NEW r \in Seq(Names), NEW n \in Names, r \in S PROVE Append(r, n) \in S
  <2> DEFINE q == Append(r, n)
             i == Lookup(fs, r)
  <2>1. /\ q \in Seq(Names) /\ Parent(q) = r /\ BaseName(q) = n
        /\ Lookup(x, q) = Down(x, Lookup(x, r), n) /\ Lookup(fs, q) = Down(fs, i, n)
    BY EntryPath, LookupStep
  <2>2. OnWay(p, q) <=> OnWay(p, r) \/ p = q
    BY OnWayEntry
  <2>3. i \in 0..Len(fs)
    BY <1>3
  <2> HIDE DEF q
  <2>4. CASE OnWay(p, r)
    <3>1. Lookup(x, r) = NoIno
      BY <1>7, <2>4
    <3>2. Lookup(x, q) = NoIno
      BY <2>1, <3>1 DEF Down, IsDir
    <3> QED BY <2>1, <2>2, <2>4, <3>2 DEF q
  <2>5. CASE ~OnWay(p, r)
    <3>1. Lookup(x, r) = i
      BY <1>7, <2>5
    <3>2. Lookup(x, q) = IF i = d /\ n = name THEN NoIno ELSE Down(fs, i, n)
      BY <1>5, <2>1, <2>3, <3>1
    <3>3. i = d => r = Parent(p)
      <4>1. ASSUME i = d PROVE r = Parent(p)
        <5>1. r \in Found(fs)
          BY <1>4, <4>1 DEF Found, NoIno, d
        <5> QED BY <1>2, <1>4, <4>1, <5>1 DEF OneWay, d
      <4> QED BY <4>1
    <3>4. i = d /\ n = name <=> p = q
      <4>1. i = d /\ n = name => p = q
        BY <1>1, <3>3 DEF q
      <4>2. p = q => i = d /\ n = name
        BY <2>1 DEF d, name
      <4> QED BY <4>1, <4>2
    <3> HIDE DEF i
    <3>5. Is(q)
      BY <2>1, <2>2, <2>5, <3>2, <3>4 DEF i
    <3> QED BY <2>1, <3>5 DEF q
  <2> QED BY <2>4, <2>5
<1>8. \A q \in Seq(Names) : Is(q)
  <2>1. Seq(Names) \subseteq S
    <3> HIDE DEF S
    <3> QED BY <1>6, <1>7, EachPath
  <2> QED BY <2>1
<1>9. Few(x)
  <2>1. \A i \in 1..Len(x), n \in Names : Down(x, i, n) # NoIno =>
           n \in {} \/ (i \in 1..Len(fs) /\ Down(fs, i, n) # NoIno)
    <3>1. \A i \in 1..Len(x) : i \in 0..Len(fs) /\ i \in 1..Len(fs)
      BY <1>2, <1>5 DEF SameNodes
    <3> QED BY <1>5, <3>1
  <2>2. IsFiniteSet({}) /\ IsImage(x)
    BY <1>5, FS_EmptySet DEF SameNodes
  <2> QED BY <1>2, <2>1, <2>2, FewStays
<1>10. OneWay(x)
  <2>1. \A q \in Found(x) : q \in Found(fs) /\ Lookup(x, q) = Lookup(fs, q)
    BY <1>8 DEF Found
  <2> QED BY <1>2, <2>1 DEF OneWay
<1>11. Treelike(x)
  <2>1. Root \in 1..Len(fs)
    BY <1>2 DEF Root
  <2> QED BY <1>2, <1>5, <1>9, <1>10, <2>1 DEF Treelike, SameNodes
<1> QED BY <1>5, <1>8, <1>11 DEF CutAt

\* Where the path q below to is in the subtree at from.
Taken(q, to, from) == from \o SubSeq(q, Len(to) + 1, Len(q))

LEMMA LongerPath ==
    ASSUME NEW a \in Seq(Names), NEW n \in Names
    PROVE  /\ Append(a, n) \in Seq(Names) /\ Len(Append(a, n)) = Len(a) + 1
           /\ Append(a, n)[Len(a) + 1] = n
           /\ \A i \in 1..Len(a) : Append(a, n)[i] = a[i]
  OBVIOUS

\* t is p with a in place of its first Len(b) names.
TakenIs(t, p, b, a) ==
    /\ t \in Seq(Names) /\ Len(t) = Len(a) + (Len(p) - Len(b))
    /\ \A i \in 1..Len(a) : t[i] = a[i]
    /\ \A i \in 1..(Len(p) - Len(b)) : t[Len(a) + i] = p[Len(b) + i]

LEMMA TakenLooks ==
    ASSUME NEW a \in Seq(Names), NEW b \in Seq(Names), NEW p \in Seq(Names), Len(b) <= Len(p)
    PROVE  TakenIs(Taken(p, b, a), p, b, a)
<1> DEFINE s == SubSeq(p, Len(b) + 1, Len(p))
           m == Len(p) - Len(b)
<1>1. Len(a) \in Nat /\ Len(b) \in Nat /\ Len(p) \in Nat /\ m \in Nat
  OBVIOUS
<1>2. s \in Seq(Names) /\ Len(s) = m /\ \A i \in 1..m : s[i] = p[Len(b) + i]
  BY <1>1
<1> HIDE DEF s, m
<1>3. s \in Seq(Names)
  BY <1>2
<1>4. /\ a \o s \in Seq(Names) /\ Len(a \o s) = Len(a) + Len(s)
      /\ \A i \in 1..Len(a) : (a \o s)[i] = a[i]
      /\ \A i \in 1..Len(s) : (a \o s)[Len(a) + i] = s[i]
  BY <1>3, JoinedPath
<1> QED BY <1>2, <1>4 DEF s, m, Taken, TakenIs

\* A path below to, taken to from and back; a name on, it is a name on there too.
LEMMA TakenOf ==
    ASSUME NEW to \in Seq(Names), NEW from \in Seq(Names), NEW q \in Seq(Names), OnWay(to, q)
    PROVE  /\ Taken(q, to, from) \in Seq(Names) /\ OnWay(from, Taken(q, to, from))
           /\ Len(Taken(q, to, from)) = Len(from) + (Len(q) - Len(to))
           /\ Taken(Taken(q, to, from), from, to) = q
           /\ q = to => Taken(q, to, from) = from
           /\ \A n \in Names : Taken(Append(q, n), to, from) = Append(Taken(q, to, from), n)
<1> DEFINE Is(t, p) == /\ t \in Seq(Names) /\ Len(t) = Len(from) + (Len(p) - Len(to))
                       /\ \A i \in 1..Len(from) : t[i] = from[i]
                       /\ \A i \in 1..(Len(p) - Len(to)) : t[Len(from) + i] = p[Len(to) + i]
<1>1. Len(to) \in Nat /\ Len(from) \in Nat
  OBVIOUS
<1>2. \A a, b, p \in Seq(Names) : Len(b) <= Len(p) => TakenIs(Taken(p, b, a), p, b, a)
  BY TakenLooks
<1>3. Len(to) <= Len(q) /\ Len(q) \in Nat /\ \A i \in 1..Len(to) : q[i] = to[i]
  BY DEF OnWay
<1> DEFINE t == Taken(q, to, from)
<1>4. Is(t, q)
  <2>1. TakenIs(t, q, to, from)
    BY <1>2, <1>3
  <2> HIDE DEF t
  <2> QED BY <2>1 DEF TakenIs
<1> HIDE DEF t
<1>5. OnWay(from, t)
  BY <1>1, <1>3, <1>4 DEF OnWay
<1>6. Taken(t, from, to) = q
  <2> DEFINE z == Taken(t, from, to)
  <2>1. Len(from) <= Len(t)
    BY <1>5 DEF OnWay
  <2>2. /\ z \in Seq(Names) /\ Len(z) = Len(to) + (Len(t) - Len(from))
        /\ \A i \in 1..Len(to) : z[i] = to[i]
        /\ \A i \in 1..(Len(t) - Len(from)) : z[Len(to) + i] = t[Len(from) + i]
    <3>1. TakenIs(z, t, from, to)
      BY <1>2, <1>4, <2>1
    <3> HIDE DEF z
    <3> QED BY <3>1 DEF TakenIs
  <2> HIDE DEF z
  <2>3. Len(z) = Len(q) /\ Len(t) - Len(from) = Len(q) - Len(to)
    BY <1>1, <1>3, <1>4, <2>2
  <2>4. \A i \in 1..(Len(q) - Len(to)) : z[Len(to) + i] = q[Len(to) + i]
    BY <1>4, <2>2, <2>3
  <2>5. ASSUME NEW i \in 1..Len(z) PROVE z[i] = q[i]
    <3>1. CASE i <= Len(to)
      BY <1>1, <1>3, <2>2, <2>5, <3>1
    <3>2. CASE ~(i <= Len(to))
      <4>1. i - Len(to) \in 1..(Len(q) - Len(to)) /\ Len(to) + (i - Len(to)) = i
        BY <1>1, <1>3, <2>3, <3>2
      <4> QED BY <2>4, <4>1
    <3> QED BY <3>1, <3>2
  <2> QED BY <2>2, <2>3, <2>5, SamePath DEF z
<1>7. ASSUME q = to PROVE t = from
  <2>1. Len(t) = Len(from)
    BY <1>1, <1>4, <1>7
  <2> QED BY <1>4, <2>1, SamePath
<1>8. ASSUME NEW n \in Names PROVE Taken(Append(q, n), to, from) = Append(t, n)
  <2> DEFINE p == Append(q, n)
             z == Taken(p, to, from)
             w == Append(t, n)
  <2>1. /\ p \in Seq(Names) /\ Len(p) = Len(q) + 1 /\ p[Len(q) + 1] = n
        /\ \A i \in 1..Len(q) : p[i] = q[i]
    OBVIOUS
  <2>2. /\ w \in Seq(Names) /\ Len(w) = Len(t) + 1 /\ w[Len(t) + 1] = n
        /\ \A i \in 1..Len(t) : w[i] = t[i]
    <3>1. t \in Seq(Names)
      BY <1>4
    <3> HIDE DEF t, p, z
    <3> QED BY <3>1, LongerPath
  <2> HIDE DEF p, w
  <2>3. Is(z, p)
    <3>1. Len(to) <= Len(p)
      BY <1>1, <1>3, <2>1
    <3>2. TakenIs(z, p, to, from)
      BY <1>2, <2>1, <3>1
    <3> HIDE DEF z
    <3> QED BY <3>2 DEF TakenIs
  <2> HIDE DEF z
  <2>4. Len(z) = Len(w) /\ Len(z) = Len(t) + 1 /\ Len(t) \in Nat /\ Len(from) <= Len(t)
    BY <1>1, <1>3, <1>4, <2>1, <2>2, <2>3
  <2>5. ASSUME NEW i \in 1..Len(z) PROVE z[i] = w[i]
    <3>1. CASE i <= Len(from)
      <4>1. z[i] = from[i] /\ t[i] = from[i] /\ w[i] = t[i]
        BY <1>1, <1>4, <2>2, <2>3, <2>4, <3>1
      <4> QED BY <4>1
    <3>2. CASE ~(i <= Len(from)) /\ i <= Len(t)
      <4> DEFINE j == i - Len(from)
      <4>1. j \in 1..(Len(q) - Len(to)) /\ j \in 1..(Len(p) - Len(to)) /\ Len(from) + j = i
            /\ Len(to) + j \in 1..Len(q)
        BY <1>1, <1>3, <1>4, <2>1, <2>4, <3>2
      <4>2. z[Len(from) + j] = p[Len(to) + j] /\ t[Len(from) + j] = q[Len(to) + j]
        BY <1>4, <2>3, <4>1
      <4>3. p[Len(to) + j] = q[Len(to) + j]
        BY <2>1, <4>1
      <4>4. w[i] = t[i]
        BY <2>2, <2>4, <3>2
      <4> QED BY <4>1, <4>2, <4>3, <4>4
    <3>3. CASE i = Len(t) + 1
      <4> DEFINE j == Len(p) - Len(to)
      <4>1. j \in 1..(Len(p) - Len(to)) /\ Len(from) + j = i /\ Len(to) + j = Len(q) + 1
        BY <1>1, <1>3, <1>4, <2>1, <2>4, <3>3
      <4> HIDE DEF j
      <4>2. z[i] = p[Len(q) + 1]
        BY <2>3, <4>1
      <4> QED BY <2>1, <2>2, <3>3, <4>2
    <3> QED BY <2>4, <3>1, <3>2, <3>3
  <2>6. z = w
    BY <2>2, <2>3, <2>4, <2>5, SamePath
  <2> QED BY <2>6 DEF z, w, p
<1> QED BY <1>4, <1>5, <1>6, <1>7, <1>8 DEF t

\* Nodes and paths of an image whose subtree at from is now at to.
MoveAt(x, fs, from, to) ==
    /\ Treelike(x) /\ SameNodes(x, fs)
    /\ \A q \in Seq(Names) :
          Lookup(x, q) = IF OnWay(to, q) THEN Lookup(fs, Taken(q, to, from))
                         ELSE IF OnWay(from, q) THEN NoIno ELSE Lookup(fs, q)

\* The entry of the directory tp that makes of the node at from the node at to.
Relinked(x, fs, from, to) ==
    /\ SameNodes(x, fs)
    /\ \A i \in 0..Len(fs), n \in Names :
          Down(x, i, n) =
             IF i = Lookup(fs, Parent(to)) /\ n = BaseName(to) THEN Lookup(fs, from)
             ELSE IF i = Lookup(fs, Parent(from)) /\ n = BaseName(from) THEN NoIno
             ELSE Down(fs, i, n)

LEMMA MoveLooks ==
    ASSUME NEW fs, Treelike(fs), NEW from \in Seq(Names), from # <<>>, Lookup(fs, from) # NoIno,
           NEW to \in Seq(Names), to # <<>>, ~OnWay(from, to), IsDir(fs, Lookup(fs, Parent(to))),
           NEW x, Relinked(x, fs, from, to)
    PROVE  MoveAt(x, fs, from, to)
<1> DEFINE tp == Lookup(fs, Parent(to))
           fp == Lookup(fs, Parent(from))
           tn == BaseName(to)
           fn == BaseName(from)
<1>1. /\ Parent(from) \in Seq(Names) /\ fn \in Names /\ from = Append(Parent(from), fn)
      /\ Len(Parent(from)) = Len(from) - 1 /\ Len(from) \in Nat
  BY PathEnds
<1>2. /\ Parent(to) \in Seq(Names) /\ tn \in Names /\ to = Append(Parent(to), tn)
      /\ Len(Parent(to)) = Len(to) - 1 /\ Len(to) \in Nat
  BY PathEnds
<1>3. IsImage(fs) /\ Few(fs) /\ OneWay(fs) /\ Len(fs) # 0 /\ fs[Root].kind = "dir" /\ Len(fs) \in Nat
  BY ImageShape DEF Treelike
<1>4. \A q \in Seq(Names) : Lookup(fs, q) \in 0..Len(fs)
  BY <1>3, LookupIn
<1>5. tp # NoIno /\ Parent(to) \in Found(fs)
  BY <1>2 DEF IsDir, Found
<1>6. fp # NoIno /\ Parent(from) \in Found(fs)
  <2>1. Lookup(fs, from) = Down(fs, fp, fn)
    BY <1>1, LookupStep
  <2>2. fp # NoIno
    BY <2>1 DEF Down, IsDir
  <2> QED BY <1>1, <2>2 DEF Found
<1>7. SameNodes(x, fs)
      /\ \A i \in 0..Len(fs), n \in Names :
            Down(x, i, n) = IF i = tp /\ n = tn THEN Lookup(fs, from)
                            ELSE IF i = fp /\ n = fn THEN NoIno ELSE Down(fs, i, n)
  BY DEF Relinked
<1>8. ASSUME NEW r \in Seq(Names)
      PROVE  /\ Lookup(fs, r) = tp => r = Parent(to)
             /\ Lookup(fs, r) = fp => r = Parent(from)
  <2>1. Lookup(fs, r) # NoIno => r \in Found(fs)
    BY DEF Found
  <2> QED BY <1>3, <1>5, <1>6, <2>1 DEF OneWay
<1>9. ~OnWay(from, Parent(to)) /\ ~OnWay(to, Parent(to)) /\ ~OnWay(from, Parent(from))
  <2>1. OnWay(from, Parent(to)) => OnWay(from, to)
    <3> DEFINE a == Parent(to)
    <3>1. a \in Seq(Names) /\ tn \in Names /\ to = Append(a, tn)
      BY <1>2
    <3> HIDE DEF a, tn
    <3>2. OnWay(from, Append(a, tn)) <=> OnWay(from, a) \/ from = Append(a, tn)
      BY <3>1, OnWayEntry
    <3> QED BY <3>1, <3>2 DEF a
  <2>2. ~OnWay(to, Parent(to)) /\ ~OnWay(from, Parent(from))
    BY <1>1, <1>2 DEF OnWay
  <2> QED BY <2>1, <2>2
<1> DEFINE Was(q) == IF OnWay(to, q) THEN Lookup(fs, Taken(q, to, from))
                     ELSE IF OnWay(from, q) THEN NoIno ELSE Lookup(fs, q)
           S == {q \in Seq(Names) : Lookup(x, q) = Was(q)}
<1>10. <<>> \in S
  <2>1. <<>> \in Seq(Names) /\ ~OnWay(to, <<>>) /\ ~OnWay(from, <<>>)
    BY OnWayOrder
  <2> QED BY <2>1, LookupRoot
<1> HIDE DEF tp, fp, tn, fn
<1>11. ASSUME NEW r \in Seq(Names), NEW n \in Names, r \in S PROVE Append(r, n) \in S
  <2> DEFINE q == Append(r, n)
             i == Lookup(fs, r)
  <2>1. /\ q \in Seq(Names) /\ Parent(q) = r /\ BaseName(q) = n
        /\ Lookup(x, q) = Down(x, Lookup(x, r), n) /\ Lookup(fs, q) = Down(fs, i, n)
    BY EntryPath, LookupStep
  <2>2. (OnWay(to, q) <=> OnWay(to, r) \/ to = q) /\ (OnWay(from, q) <=> OnWay(from, r) \/ from = q)
    BY OnWayEntry
  <2>3. i \in 0..Len(fs) /\ Lookup(x, r) = Was(r)
    BY <1>4, <1>11
  <2>4. to = q <=> r = Parent(to) /\ n = tn
    BY <1>2, <2>1 DEF tn, q
  <2>5. from = q <=> r = Parent(from) /\ n = fn
    BY <1>1, <2>1 DEF fn, q
  <2>6. CASE OnWay(to, r)
    <3> DEFINE t == Taken(r, to, from)
               j == Lookup(fs, t)
    <3>1. /\ t \in Seq(Names) /\ OnWay(from, t) /\ Taken(q, to, from) = Append(t, n)
      BY <2>6, TakenOf
    <3>2. Lookup(x, r) = j /\ OnWay(to, q)
      BY <2>2, <2>3, <2>6
    <3>3. j # tp /\ j # fp
      <4> HIDE DEF t
      <4> QED BY <1>8, <1>9, <3>1
    <3>4. j \in 0..Len(fs)
      <4> HIDE DEF t
      <4> QED BY <1>4, <3>1
    <3>5. Lookup(x, q) = Down(fs, j, n)
      <4> HIDE DEF j, q
      <4> QED BY <1>7, <2>1, <3>2, <3>3, <3>4
    <3>6. Lookup(fs, Append(t, n)) = Down(fs, j, n)
      <4> HIDE DEF t
      <4> QED BY <3>1, LookupStep
    <3>7. Lookup(x, q) = Lookup(fs, Taken(q, to, from))
      BY <3>1, <3>5, <3>6
    <3> HIDE DEF q
    <3> QED BY <2>1, <3>2, <3>7 DEF q
  <2>7. CASE ~OnWay(to, r) /\ OnWay(from, r)
    <3>1. Lookup(x, r) = NoIno
      BY <2>3, <2>7
    <3>2. Lookup(x, q) = NoIno
      BY <2>1, <3>1 DEF Down, IsDir
    <3>3. q # to
      BY <1>9, <2>4, <2>7
    <3> HIDE DEF q
    <3>4. Was(q) = NoIno
      BY <2>2, <2>7, <3>3
    <3> QED BY <2>1, <3>2, <3>4 DEF q
  <2>8. CASE ~OnWay(to, r) /\ ~OnWay(from, r)
    <3>1. Lookup(x, r) = i
      BY <2>3, <2>8
    <3> HIDE DEF i, q
    <3>2. Lookup(x, q) = IF i = tp /\ n = tn THEN Lookup(fs, from)
                         ELSE IF i = fp /\ n = fn THEN NoIno ELSE Down(fs, i, n)
      BY <1>7, <2>1, <2>3, <3>1
    <3>3. (i = tp => r = Parent(to)) /\ (i = fp => r = Parent(from))
      BY <1>8 DEF i
    <3>4. (r = Parent(to) => i = tp) /\ (r = Parent(from) => i = fp)
      BY DEF i, tp, fp
    <3>5. CASE q = to
      <4>1. Lookup(x, q) = Lookup(fs, from)
        BY <2>4, <3>2, <3>4, <3>5
      <4>2. Taken(q, to, from) = from /\ OnWay(to, q)
        BY <3>5, TakenOf, OnWayOrder
      <4>3. Lookup(x, q) = Was(q)
        BY <4>1, <4>2
      <4> QED BY <2>1, <4>3 DEF q
    <3>6. CASE q # to
      <4>1. Lookup(x, q) = IF q = from THEN NoIno ELSE Lookup(fs, q)
        BY <2>1, <2>4, <2>5, <3>2, <3>3, <3>4, <3>6
      <4>2. Lookup(x, q) = Was(q)
        BY <2>2, <2>8, <3>6, <4>1
      <4> QED BY <2>1, <4>2 DEF q
    <3> QED BY <3>5, <3>6
  <2> QED BY <2>6, <2>7, <2>8
<1>12. \A q \in Seq(Names) : Lookup(x, q) = Was(q)
  <2>1. Seq(Names) \subseteq S
    <3> HIDE DEF S
    <3> QED BY <1>10, <1>11, EachPath
  <2> QED BY <2>1
<1>13. Few(x)
  <2> DEFINE N == {tn}
  <2>1. \A i \in 1..Len(x), n \in Names : Down(x, i, n) # NoIno =>
           n \in N \/ (i \in 1..Len(fs) /\ Down(fs, i, n) # NoIno)
    <3>1. \A i \in 1..Len(x) : i \in 0..Len(fs) /\ i \in 1..Len(fs)
      BY <1>3, <1>7 DEF SameNodes
    <3> QED BY <1>7, <3>1
  <2>2. IsFiniteSet(N) /\ IsImage(x)
    BY <1>7, FS_Singleton DEF SameNodes
  <2> HIDE DEF N
  <2> QED BY <1>3, <2>1, <2>2, FewStays
<1>14. OneWay(x)
  <2>1. ASSUME NEW q \in Found(x), NEW r \in Found(x), Lookup(x, q) = Lookup(x, r)
        PROVE  q = r
    <3> DEFINE a == Taken(q, to, from)
               b == Taken(r, to, from)
    <3>1. q \in Seq(Names) /\ r \in Seq(Names) /\ Lookup(x, q) = Was(q) /\ Lookup(x, r) = Was(r)
          /\ Lookup(x, q) # NoIno /\ Lookup(x, r) # NoIno
      BY <1>12 DEF Found
    <3>2. OnWay(to, q) => a \in Seq(Names) /\ OnWay(from, a) /\ Taken(a, from, to) = q
      BY <3>1, TakenOf
    <3>3. OnWay(to, r) => b \in Seq(Names) /\ OnWay(from, b) /\ Taken(b, from, to) = r
      BY <3>1, TakenOf
    <3>4. \A s, t \in Seq(Names) : Lookup(fs, s) = Lookup(fs, t) /\ Lookup(fs, s) # NoIno => s = t
      BY <1>3 DEF OneWay, Found
    <3>5. OnWay(to, q) => Lookup(x, q) = Lookup(fs, a)
      BY <3>1
    <3>6. ~OnWay(to, q) => Lookup(x, q) = Lookup(fs, q) /\ ~OnWay(from, q)
      BY <3>1
    <3>7. OnWay(to, r) => Lookup(x, r) = Lookup(fs, b)
      BY <3>1
    <3>8. ~OnWay(to, r) => Lookup(x, r) = Lookup(fs, r) /\ ~OnWay(from, r)
      BY <3>1
    <3> HIDE DEF a, b, Was
    <3>9. CASE OnWay(to, q) /\ OnWay(to, r)
      <4>1. a = b
        BY <2>1, <3>1, <3>2, <3>3, <3>4, <3>5, <3>7, <3>9
      <4> QED BY <3>2, <3>3, <3>9, <4>1
    <3>10. CASE OnWay(to, q) /\ ~OnWay(to, r)
      <4>1. a = r
        BY <2>1, <3>1, <3>2, <3>4, <3>5, <3>8, <3>10
      <4> QED BY <3>2, <3>8, <3>10, <4>1
    <3>11. CASE ~OnWay(to, q) /\ OnWay(to, r)
      <4>1. b = q
        BY <2>1, <3>1, <3>3, <3>4, <3>6, <3>7, <3>11
      <4> QED BY <3>3, <3>6, <3>11, <4>1
    <3>12. CASE ~OnWay(to, q) /\ ~OnWay(to, r)
      BY <2>1, <3>1, <3>4, <3>6, <3>8, <3>12
    <3> QED BY <3>9, <3>10, <3>11, <3>12
  <2> QED BY <2>1 DEF OneWay
<1>15. Treelike(x)
  <2>1. Root \in 1..Len(fs)
    BY <1>3 DEF Root
  <2> QED BY <1>3, <1>7, <1>13, <1>14, <2>1 DEF Treelike, SameNodes
<1> QED BY <1>7, <1>12, <1>15 DEF MoveAt

\* A rename of an entry of a directory to another relinks it.
LEMMA RenameRelinks ==
    ASSUME NEW fs, Treelike(fs), NEW from \in Seq(Names), from # <<>>, Lookup(fs, from) # NoIno,
           NEW to \in Seq(Names), to # <<>>, IsDir(fs, Lookup(fs, Parent(to))), NEW replaces,
           NEW m, m = Rename(Lookup(fs, Parent(from)), BaseName(from),
                             Lookup(fs, Parent(to)), BaseName(to), Lookup(fs, from), replaces),
           NEW x, x = Apply(fs, m)
    PROVE  Relinked(x, fs, from, to)
<1> DEFINE tp == Lookup(fs, Parent(to))
           fp == Lookup(fs, Parent(from))
           tn == BaseName(to)
           fn == BaseName(from)
           ino == Lookup(fs, from)
<1>1. Parent(from) \in Seq(Names) /\ fn \in Names /\ from = Append(Parent(from), fn)
      /\ Parent(to) \in Seq(Names) /\ tn \in Names
  BY PathEnds
<1>2. IsImage(fs) /\ Len(fs) # 0 /\ Len(fs) \in Nat
  BY ImageShape DEF Treelike
<1>3. tp \in 0..Len(fs) /\ fp \in 0..Len(fs) /\ ino \in 0..Len(fs) /\ ino # NoIno
  BY <1>1, <1>2, LookupIn
<1>4. Down(fs, fp, fn) = ino /\ tp # NoIno /\ fs[tp].kind = "dir"
  BY <1>1, LookupStep DEF IsDir
<1>5. /\ m.kind = "Rename" /\ m.from = fp /\ m.from_name = fn /\ m.to = tp /\ m.to_name = tn
      /\ m.ino = ino
  BY DEF Rename
<1>6. Fits(m, Len(fs))
  <2>1. ino \in 1..Len(fs)
    BY <1>2, <1>3 DEF NoIno
  <2> QED BY <1>3, <1>5, <2>1 DEF Fits
<1> HIDE DEF tp, fp, tn, fn, ino
<1>7. /\ IsImage(x) /\ Len(x) = Len(fs)
      /\ \A i \in 1..Len(fs) :
            /\ x[i].kind = fs[i].kind
            /\ fs[i].kind = "file" => x[i] = fs[i]
            /\ fs[i].kind = "dir" =>
                  \A n \in Names :
                     x[i].entries[n] = IF i = tp /\ n = tn THEN ino
                                       ELSE IF i = fp /\ n = fn /\ fs[i].entries[n] = ino THEN NoIno
                                       ELSE fs[i].entries[n]
  BY <1>2, <1>5, <1>6, ApplyRenameOf
<1>8. ASSUME NEW i \in 0..Len(fs), NEW n \in Names
      PROVE  Down(x, i, n) = IF i = tp /\ n = tn THEN ino
                             ELSE IF i = fp /\ n = fn THEN NoIno ELSE Down(fs, i, n)
  <2>1. CASE i = NoIno
    BY <1>4, <2>1 DEF Down, IsDir
  <2>2. CASE i # NoIno /\ fs[i].kind = "dir"
    <3>1. i \in 1..Len(fs) /\ x[i].kind = "dir"
      BY <1>2, <1>7, <2>2 DEF NoIno
    <3>2. Down(fs, i, n) = fs[i].entries[n] /\ Down(x, i, n) = x[i].entries[n]
      BY <2>2, <3>1 DEF Down, IsDir
    <3>3. x[i].entries[n] = IF i = tp /\ n = tn THEN ino
                            ELSE IF i = fp /\ n = fn /\ fs[i].entries[n] = ino THEN NoIno
                            ELSE fs[i].entries[n]
      BY <1>7, <2>2, <3>1
    <3> QED BY <1>4, <3>2, <3>3
  <2>3. CASE i # NoIno /\ fs[i].kind # "dir"
    <3>1. i \in 1..Len(fs) /\ x[i].kind # "dir"
      BY <1>2, <1>7, <2>3 DEF NoIno
    <3>2. Down(fs, i, n) = NoIno /\ Down(x, i, n) = NoIno /\ i # tp
      BY <1>4, <2>3, <3>1 DEF Down, IsDir
    <3> QED BY <3>2
  <2> QED BY <2>1, <2>2, <2>3
<1>9. SameNodes(x, fs)
  BY <1>7 DEF SameNodes
<1> QED BY <1>8, <1>9 DEF Relinked, tp, fp, tn, fn, ino

\* A change of a file leads no path elsewhere.
FileSet(x, fs, ino, node) ==
    /\ Treelike(x) /\ Len(x) = Len(fs) /\ x[ino] = node
    /\ \A q \in Seq(Names) : Lookup(x, q) = Lookup(fs, q)
    /\ \A i \in 1..Len(fs) : x[i].kind = fs[i].kind /\ (i # ino => x[i] = fs[i])

LEMMA FileLooks ==
    ASSUME NEW fs, Treelike(fs), NEW ino \in 1..Len(fs), fs[ino].kind = "file",
           NEW x, IsImage(x), Len(x) = Len(fs), x[ino].kind = "file",
           \A i \in 1..Len(fs) : i # ino => x[i] = fs[i]
    PROVE  FileSet(x, fs, ino, x[ino])
<1>1. IsImage(fs) /\ Few(fs) /\ OneWay(fs) /\ Len(fs) # 0 /\ fs[Root].kind = "dir" /\ Len(fs) \in Nat
  BY ImageShape DEF Treelike
<1>2. \A i \in 0..Len(fs), n \in Names : Down(x, i, n) = Down(fs, i, n)
  <2>1. ASSUME NEW i \in 0..Len(fs), NEW n \in Names PROVE Down(x, i, n) = Down(fs, i, n)
    <3>1. CASE i = NoIno
      BY <3>1 DEF Down, IsDir
    <3>2. CASE i = ino
      BY <3>2 DEF Down, IsDir
    <3>3. CASE i # NoIno /\ i # ino
      <4>1. i \in 1..Len(fs)
        BY <1>1, <3>3 DEF NoIno
      <4>2. x[i] = fs[i]
        BY <3>3, <4>1
      <4> QED BY <4>2 DEF Down, IsDir
    <3> QED BY <3>1, <3>2, <3>3
  <2> QED BY <2>1
<1> DEFINE S == {q \in Seq(Names) : Lookup(x, q) = Lookup(fs, q)}
<1>3. <<>> \in S
  BY LookupRoot
<1>4. ASSUME NEW r \in Seq(Names), NEW n \in Names, r \in S PROVE Append(r, n) \in S
  <2>1. Lookup(fs, r) \in 0..Len(fs) /\ Lookup(x, r) = Lookup(fs, r)
    BY <1>1, <1>4, LookupIn
  <2>2. /\ Append(r, n) \in Seq(Names)
        /\ Lookup(x, Append(r, n)) = Down(x, Lookup(x, r), n)
        /\ Lookup(fs, Append(r, n)) = Down(fs, Lookup(fs, r), n)
    BY EntryPath, LookupStep
  <2> QED BY <1>2, <2>1, <2>2
<1>5. \A q \in Seq(Names) : Lookup(x, q) = Lookup(fs, q)
  <2>1. Seq(Names) \subseteq S
    <3> HIDE DEF S
    <3> QED BY <1>3, <1>4, EachPath
  <2> QED BY <2>1
<1>6. Few(x)
  <2>1. \A i \in 1..Len(x), n \in Names : Down(x, i, n) # NoIno =>
           n \in {} \/ (i \in 1..Len(fs) /\ Down(fs, i, n) # NoIno)
    <3>1. \A i \in 1..Len(x) : i \in 0..Len(fs) /\ i \in 1..Len(fs)
      BY <1>1
    <3> QED BY <1>2, <3>1
  <2>2. IsFiniteSet({})
    BY FS_EmptySet
  <2> QED BY <1>1, <2>1, <2>2, FewStays
<1>7. OneWay(x)
  <2>1. Found(x) = Found(fs) /\ \A q \in Found(fs) : Lookup(x, q) = Lookup(fs, q)
    BY <1>5 DEF Found
  <2> QED BY <1>1, <2>1 DEF OneWay
<1>8. Root \in 1..Len(fs) /\ \A i \in 1..Len(fs) : x[i].kind = fs[i].kind
  BY <1>1 DEF Root
<1> QED BY <1>1, <1>5, <1>6, <1>7, <1>8 DEF FileSet, Treelike

-----------------------------------------------------------------------------
(* The same changes as changes of the tree *)

\* What a reader sees of the nodes that stay.
LEMMA SameEntry ==
    ASSUME NEW fs, IsImage(fs), NEW x, NEW i \in 1..Len(fs),
           x[i].kind = fs[i].kind, fs[i].kind = "file" => x[i] = fs[i]
    PROVE  NodeEntry(x[i]) = NodeEntry(fs[i])
<1>1. fs[i].kind \in {"dir", "file"}
  BY ImageShape
<1> QED BY <1>1 DEF NodeEntry

\* The paths of a tree are those that lead to a node, but the root.
LEMMA TreePaths ==
    ASSUME NEW fs, Treelike(fs)
    PROVE  /\ DOMAIN PathTree(fs) = {q \in Seq(Names) : q # <<>> /\ Lookup(fs, q) # NoIno}
           /\ \A q \in DOMAIN PathTree(fs) :
                 /\ Lookup(fs, q) \in 1..Len(fs)
                 /\ PathTree(fs)[q] = NodeEntry(fs[Lookup(fs, q)])
           /\ \A q \in Seq(Names) : Lookup(fs, q) \in 0..Len(fs)
           /\ PathTree(fs) = [q \in DOMAIN PathTree(fs) |-> PathTree(fs)[q]]
           /\ IsImage(fs) /\ Len(fs) \in Nat
<1>1. IsImage(fs) /\ Len(fs) # 0 /\ Len(fs) \in Nat
  BY ImageShape DEF Treelike
<1>2. \A q \in Seq(Names) : Lookup(fs, q) \in 0..Len(fs)
  BY <1>1, LookupIn
<1>3. DOMAIN PathTree(fs) = {q \in Seq(Names) : q # <<>> /\ Lookup(fs, q) # NoIno}
  BY DEF PathTree, Found
<1>4. \A q \in DOMAIN PathTree(fs) : PathTree(fs)[q] = NodeEntry(fs[Lookup(fs, q)])
  BY DEF PathTree
<1>5. \A q \in DOMAIN PathTree(fs) : Lookup(fs, q) \in 1..Len(fs)
  BY <1>1, <1>2, <1>3 DEF NoIno
<1>6. PathTree(fs) = [q \in DOMAIN PathTree(fs) |-> PathTree(fs)[q]]
  BY DEF PathTree
<1> QED BY <1>1, <1>2, <1>3, <1>4, <1>5, <1>6

\* A tree with the entry e at p.
WithEntry(T, p, e) == [q \in DOMAIN T \cup {p} |-> IF q = p THEN e ELSE T[q]]

\* One entry more in the image is one path more in its tree.
LEMMA GrownTree ==
    ASSUME NEW fs, Treelike(fs), NEW p \in Seq(Names), p # <<>>, Lookup(fs, p) = NoIno,
           NEW x, NEW node, GrownAt(x, fs, p, node)
    PROVE  /\ p \notin DOMAIN PathTree(fs)
           /\ PathTree(x) = WithEntry(PathTree(fs), p, NodeEntry(node))
<1> DEFINE T == PathTree(fs)
           U == PathTree(x)
<1>1. /\ DOMAIN T = {q \in Seq(Names) : q # <<>> /\ Lookup(fs, q) # NoIno}
      /\ \A q \in DOMAIN T : Lookup(fs, q) \in 1..Len(fs) /\ T[q] = NodeEntry(fs[Lookup(fs, q)])
      /\ IsImage(fs) /\ Len(fs) \in Nat
  BY TreePaths
<1>2. Treelike(x) /\ x[Len(fs) + 1] = node
      /\ (\A q \in Seq(Names) : Lookup(x, q) = IF q = p THEN Len(fs) + 1 ELSE Lookup(fs, q))
      /\ (\A i \in 1..Len(fs) : x[i].kind = fs[i].kind /\ (fs[i].kind = "file" => x[i] = fs[i]))
  BY DEF GrownAt
<1>3. /\ DOMAIN U = {q \in Seq(Names) : q # <<>> /\ Lookup(x, q) # NoIno}
      /\ \A q \in DOMAIN U : U[q] = NodeEntry(x[Lookup(x, q)])
      /\ U = [q \in DOMAIN U |-> U[q]]
  BY <1>2, TreePaths
<1> HIDE DEF T, U
<1>4. p \notin DOMAIN T
  BY <1>1
<1>5. DOMAIN U = DOMAIN T \cup {p}
  <2>1. Len(fs) + 1 # NoIno
    BY <1>1 DEF NoIno
  <2> QED BY <1>1, <1>2, <1>3, <2>1
<1>6. ASSUME NEW q \in DOMAIN U PROVE U[q] = IF q = p THEN NodeEntry(node) ELSE T[q]
  <2>1. CASE q = p
    BY <1>2, <1>3, <2>1
  <2>2. CASE q # p
    <3> DEFINE i == Lookup(fs, q)
    <3>1. q \in DOMAIN T /\ q \in Seq(Names)
      BY <1>1, <1>5, <2>2
    <3>2. i \in 1..Len(fs) /\ T[q] = NodeEntry(fs[i]) /\ U[q] = NodeEntry(x[i])
      BY <1>1, <1>2, <1>3, <2>2, <3>1
    <3> HIDE DEF i
    <3>3. NodeEntry(x[i]) = NodeEntry(fs[i])
      BY <1>1, <1>2, <3>2, SameEntry
    <3> QED BY <2>2, <3>2, <3>3
  <2> QED BY <2>1, <2>2
<1>7. U = WithEntry(T, p, NodeEntry(node))
  BY <1>3, <1>5, <1>6 DEF WithEntry
<1> QED BY <1>4, <1>7 DEF T, U

\* What is at or below p in a tree.
UnderOf(T, p) == {q \in DOMAIN T : OnWay(p, q)}

\* A tree without what is at or below p.
WithoutUnder(T, p) == [q \in DOMAIN T \ UnderOf(T, p) |-> T[q]]

\* One entry less in the image is one subtree less in its tree.
LEMMA CutTree ==
    ASSUME NEW fs, Treelike(fs), NEW p \in Seq(Names), NEW x, CutAt(x, fs, p)
    PROVE  PathTree(x) = WithoutUnder(PathTree(fs), p)
<1> DEFINE T == PathTree(fs)
           U == PathTree(x)
<1>1. /\ DOMAIN T = {q \in Seq(Names) : q # <<>> /\ Lookup(fs, q) # NoIno}
      /\ \A q \in DOMAIN T : Lookup(fs, q) \in 1..Len(fs) /\ T[q] = NodeEntry(fs[Lookup(fs, q)])
      /\ IsImage(fs) /\ Len(fs) \in Nat
  BY TreePaths
<1>2. Treelike(x) /\ SameNodes(x, fs)
      /\ (\A q \in Seq(Names) : Lookup(x, q) = IF OnWay(p, q) THEN NoIno ELSE Lookup(fs, q))
  BY DEF CutAt
<1>3. /\ DOMAIN U = {q \in Seq(Names) : q # <<>> /\ Lookup(x, q) # NoIno}
      /\ \A q \in DOMAIN U : U[q] = NodeEntry(x[Lookup(x, q)])
      /\ U = [q \in DOMAIN U |-> U[q]]
  BY <1>2, TreePaths
<1> HIDE DEF T, U
<1>4. DOMAIN U = DOMAIN T \ UnderOf(T, p)
  BY <1>1, <1>2, <1>3 DEF UnderOf
<1>5. ASSUME NEW q \in DOMAIN U PROVE U[q] = T[q]
  <2> DEFINE i == Lookup(fs, q)
  <2>1. q \in DOMAIN T /\ q \in Seq(Names) /\ ~OnWay(p, q)
    BY <1>1, <1>4 DEF UnderOf
  <2>2. i \in 1..Len(fs) /\ T[q] = NodeEntry(fs[i]) /\ U[q] = NodeEntry(x[i])
    BY <1>1, <1>2, <1>3, <2>1
  <2> HIDE DEF i
  <2>3. NodeEntry(x[i]) = NodeEntry(fs[i])
    BY <1>1, <1>2, <2>2, SameEntry DEF SameNodes
  <2> QED BY <2>2, <2>3
<1>6. U = WithoutUnder(T, p)
  BY <1>3, <1>4, <1>5 DEF WithoutUnder
<1> QED BY <1>6 DEF T, U

\* Where what is at or below from goes.
Landing(T, from, to) == {Taken(q, from, to) : q \in UnderOf(T, from)}

\* A tree whose subtree at from takes the place of whatever is at to.
WithMoved(T, from, to) ==
    [q \in (DOMAIN T \ (UnderOf(T, from) \cup UnderOf(T, to))) \cup Landing(T, from, to) |->
        IF q \in Landing(T, from, to) THEN T[Taken(q, to, from)] ELSE T[q]]

\* An entry moved in the image is a subtree moved in its tree.
LEMMA MovedTree ==
    ASSUME NEW fs, Treelike(fs), NEW from \in Seq(Names), from # <<>>,
           NEW to \in Seq(Names), to # <<>>, NEW x, MoveAt(x, fs, from, to)
    PROVE  PathTree(x) = WithMoved(PathTree(fs), from, to)
<1> DEFINE T == PathTree(fs)
           U == PathTree(x)
           L == Landing(T, from, to)
           kept == DOMAIN T \ (UnderOf(T, from) \cup UnderOf(T, to))
<1>1. /\ DOMAIN T = {q \in Seq(Names) : q # <<>> /\ Lookup(fs, q) # NoIno}
      /\ \A q \in DOMAIN T : Lookup(fs, q) \in 1..Len(fs) /\ T[q] = NodeEntry(fs[Lookup(fs, q)])
      /\ IsImage(fs) /\ Len(fs) \in Nat
  BY TreePaths
<1>2. Treelike(x) /\ SameNodes(x, fs)
      /\ (\A q \in Seq(Names) :
             Lookup(x, q) = IF OnWay(to, q) THEN Lookup(fs, Taken(q, to, from))
                            ELSE IF OnWay(from, q) THEN NoIno ELSE Lookup(fs, q))
  BY DEF MoveAt
<1>3. /\ DOMAIN U = {q \in Seq(Names) : q # <<>> /\ Lookup(x, q) # NoIno}
      /\ \A q \in DOMAIN U : U[q] = NodeEntry(x[Lookup(x, q)])
      /\ U = [q \in DOMAIN U |-> U[q]]
  BY <1>2, TreePaths
<1>4. \A i \in 1..Len(fs) : NodeEntry(x[i]) = NodeEntry(fs[i])
  BY <1>1, <1>2, SameEntry DEF SameNodes
<1> HIDE DEF T, U
<1>5. ASSUME NEW q \in Seq(Names)
      PROVE  q \in L <=> OnWay(to, q) /\ Taken(q, to, from) \in DOMAIN T
  <2>1. ASSUME q \in L PROVE OnWay(to, q) /\ Taken(q, to, from) \in DOMAIN T
    <3>1. PICK r \in UnderOf(T, from) : q = Taken(r, from, to)
      BY <2>1 DEF Landing
    <3>2. r \in Seq(Names) /\ OnWay(from, r) /\ r \in DOMAIN T
      BY <1>1, <3>1 DEF UnderOf
    <3>3. OnWay(to, q) /\ Taken(q, to, from) = r
      BY <3>1, <3>2, TakenOf
    <3> QED BY <3>2, <3>3
  <2>2. ASSUME OnWay(to, q), Taken(q, to, from) \in DOMAIN T PROVE q \in L
    <3> DEFINE r == Taken(q, to, from)
    <3>1. OnWay(from, r) /\ Taken(r, from, to) = q
      BY <2>2, TakenOf
    <3> HIDE DEF r
    <3>2. r \in UnderOf(T, from)
      BY <2>2, <3>1 DEF UnderOf, r
    <3> QED BY <3>1, <3>2 DEF Landing
  <2> QED BY <2>1, <2>2
<1>6. ASSUME NEW q \in UnderOf(T, from)
      PROVE  Taken(q, from, to) \in Seq(Names)
  <2>1. q \in Seq(Names) /\ OnWay(from, q)
    BY <1>1 DEF UnderOf
  <2> QED BY <2>1, TakenOf
<1>7. L \subseteq Seq(Names)
  BY <1>6 DEF Landing
<1> HIDE DEF L
<1>8. ASSUME NEW q \in Seq(Names), OnWay(to, q)
      PROVE  /\ q \in DOMAIN U <=> Taken(q, to, from) \in DOMAIN T
             /\ q \in DOMAIN U => U[q] = T[Taken(q, to, from)]
             /\ q \notin kept
  <2> DEFINE r == Taken(q, to, from)
  <2>1. r \in Seq(Names) /\ OnWay(from, r) /\ r # <<>> /\ q # <<>>
    <3>1. r \in Seq(Names) /\ OnWay(from, r)
      BY <1>8, TakenOf
    <3>2. q = <<>> => to = <<>>
      BY <1>8, OnWayOrder
    <3>3. r = <<>> => from = <<>>
      <4> HIDE DEF r
      <4> QED BY <3>1, OnWayOrder
    <3> QED BY <3>1, <3>2, <3>3
  <2>2. Lookup(x, q) = Lookup(fs, r)
    BY <1>2, <1>8
  <2> HIDE DEF r
  <2>3. q \in DOMAIN U <=> r \in DOMAIN T
    BY <1>1, <1>3, <2>1, <2>2
  <2>4. ASSUME q \in DOMAIN U PROVE U[q] = T[r]
    BY <1>1, <1>3, <1>4, <2>2, <2>3, <2>4
  <2>5. q \notin kept
    BY <1>8 DEF UnderOf
  <2> QED BY <2>3, <2>4, <2>5 DEF r
<1>9. ASSUME NEW q \in Seq(Names), ~OnWay(to, q)
      PROVE  /\ q \in DOMAIN U <=> q \in kept
             /\ q \in DOMAIN U => U[q] = T[q]
             /\ q \notin L
  <2>1. Lookup(x, q) = IF OnWay(from, q) THEN NoIno ELSE Lookup(fs, q)
    BY <1>2, <1>9
  <2>2. q \in DOMAIN U <=> q \in kept
    BY <1>1, <1>3, <1>9, <2>1 DEF UnderOf
  <2>3. ASSUME q \in DOMAIN U PROVE U[q] = T[q]
    <3>1. q \in DOMAIN T /\ ~OnWay(from, q)
      BY <2>2, <2>3 DEF UnderOf
    <3> QED BY <1>1, <1>3, <1>4, <2>1, <2>3, <3>1
  <2> QED BY <1>5, <1>9, <2>2, <2>3
<1>10. kept \subseteq Seq(Names) /\ DOMAIN U \subseteq Seq(Names)
  BY <1>1, <1>3
<1> HIDE DEF kept
<1>11. DOMAIN U = kept \cup L
  <2>1. ASSUME NEW q \in Seq(Names) PROVE q \in DOMAIN U <=> q \in kept \cup L
    <3>1. CASE OnWay(to, q)
      BY <1>5, <1>8, <3>1
    <3>2. CASE ~OnWay(to, q)
      BY <1>9, <3>2
    <3> QED BY <3>1, <3>2
  <2> QED BY <1>7, <1>10, <2>1
<1>12. ASSUME NEW q \in DOMAIN U PROVE U[q] = IF q \in L THEN T[Taken(q, to, from)] ELSE T[q]
  <2>1. q \in Seq(Names)
    BY <1>10
  <2>2. CASE OnWay(to, q)
    BY <1>5, <1>8, <2>1, <2>2
  <2>3. CASE ~OnWay(to, q)
    BY <1>9, <2>1, <2>3
  <2> QED BY <2>2, <2>3
<1>13. U = [q \in kept \cup L |-> IF q \in L THEN T[Taken(q, to, from)] ELSE T[q]]
  BY <1>3, <1>11, <1>12
<1> QED BY <1>13 DEF T, U, kept, L, WithMoved

\* A tree with other data at p.
WithData(T, p, data) == [T EXCEPT ![p].data = data]

\* Another content of a file in the image is other data in its tree.
LEMMA FileTree ==
    ASSUME NEW fs, Treelike(fs), NEW p \in Seq(Names), IsFile(fs, Lookup(fs, p)),
           NEW node, node.kind = "file", NEW x, FileSet(x, fs, Lookup(fs, p), node)
    PROVE  /\ p \in DOMAIN PathTree(fs)
           /\ PathTree(fs)[p] = FileEntry(Content(fs[Lookup(fs, p)]))
           /\ PathTree(x) = WithData(PathTree(fs), p, Content(node))
<1> DEFINE T == PathTree(fs)
           U == PathTree(x)
           ino == Lookup(fs, p)
<1>1. /\ DOMAIN T = {q \in Seq(Names) : q # <<>> /\ Lookup(fs, q) # NoIno}
      /\ \A q \in DOMAIN T : Lookup(fs, q) \in 1..Len(fs) /\ T[q] = NodeEntry(fs[Lookup(fs, q)])
      /\ IsImage(fs) /\ Len(fs) \in Nat /\ OneWay(fs) /\ fs[Root].kind = "dir"
      /\ T = [q \in DOMAIN T |-> T[q]]
  BY TreePaths DEF Treelike
<1>2. Treelike(x) /\ x[ino] = node /\ (\A q \in Seq(Names) : Lookup(x, q) = Lookup(fs, q))
      /\ (\A i \in 1..Len(fs) : x[i].kind = fs[i].kind /\ (i # ino => x[i] = fs[i]))
  BY DEF FileSet
<1>3. /\ DOMAIN U = {q \in Seq(Names) : q # <<>> /\ Lookup(x, q) # NoIno}
      /\ \A q \in DOMAIN U : U[q] = NodeEntry(x[Lookup(x, q)])
      /\ U = [q \in DOMAIN U |-> U[q]]
  BY <1>2, TreePaths
<1>4. p \in DOMAIN T
  <2>1. ino # Root
    BY <1>1 DEF IsFile
  <2>2. p # <<>>
    BY <2>1, LookupRoot
  <2> QED BY <1>1, <2>2 DEF IsFile
<1> HIDE DEF T, U
<1>5. T[p] = FileEntry(Content(fs[ino]))
  BY <1>1, <1>4 DEF NodeEntry, IsFile
<1>6. DOMAIN U = DOMAIN T
  BY <1>1, <1>2, <1>3
<1>7. [T EXCEPT ![p].data = Content(node)] =
         [q \in DOMAIN T |-> IF q = p THEN FileEntry(Content(node)) ELSE T[q]]
  <2>1. [T[p] EXCEPT !.data = Content(node)] = FileEntry(Content(node))
    BY <1>5 DEF FileEntry
  <2> QED BY <1>1, <1>4, <2>1
<1>8. ASSUME NEW q \in DOMAIN U
      PROVE  U[q] = IF q = p THEN FileEntry(Content(node)) ELSE T[q]
  <2>1. CASE q = p
    <3>1. U[q] = NodeEntry(node)
      BY <1>2, <1>3, <1>6, <2>1
    <3> QED BY <2>1, <3>1 DEF NodeEntry
  <2>2. CASE q # p
    <3>1. q \in DOMAIN T /\ q \in Seq(Names)
      BY <1>1, <1>6
    <3>2. Lookup(fs, q) # ino
      BY <1>1, <1>4, <2>2, <3>1 DEF OneWay, Found
    <3>3. Lookup(fs, q) \in 1..Len(fs) /\ U[q] = NodeEntry(x[Lookup(fs, q)])
      BY <1>1, <1>2, <1>3, <3>1
    <3> QED BY <1>1, <1>2, <2>2, <3>1, <3>2, <3>3
  <2> QED BY <2>1, <2>2
<1>9. U = [q \in DOMAIN T |-> IF q = p THEN FileEntry(Content(node)) ELSE T[q]]
  BY <1>3, <1>6, <1>8
<1>10. U = WithData(T, p, Content(node))
  BY <1>7, <1>9 DEF WithData
<1> QED BY <1>4, <1>5, <1>10 DEF T, U

-----------------------------------------------------------------------------
(* The image of a snapshot *)

\* A file that was just read in shows its bytes.
LEMMA LoadedContent ==
    ASSUME NEW d \in Seq(Nat)
    PROVE  NodeEntry(File(d, Len(d))) = FileEntry(d)
<1>1. d = [k \in 1..Len(d) |-> d[k]] /\ Len(d) \in Nat
  OBVIOUS
<1>2. Resize(d, Len(d)) = d
  <2>1. [k \in 1..Len(d) |-> IF k <= Len(d) THEN d[k] ELSE 0] = [k \in 1..Len(d) |-> d[k]]
    BY <1>1
  <2> QED BY <1>1, <2>1 DEF Resize
<1>3. /\ File(d, Len(d)).kind = "file" /\ File(d, Len(d)).buf = d
      /\ File(d, Len(d)).len = Len(d)
  BY DEF File
<1> QED BY <1>2, <1>3 DEF NodeEntry, Content

\* The node planted for a tree's entry shows that entry.
LEMMA PlantedEntry ==
    ASSUME NEW e, e = (IF e.kind = "dir" THEN DirEntry ELSE FileEntry(e.data)),
           e.kind # "dir" => e.data \in Seq(Nat),
           NEW node, node = (IF e.kind = "dir" THEN EmptyDir ELSE File(e.data, Len(e.data)))
    PROVE  /\ NodeEntry(node) = e
           /\ node = EmptyDir \/ (node.kind = "file" /\ node = File(node.buf, node.len))
<1>1. CASE e.kind = "dir"
  <2>1. EmptyDir.kind = "dir"
    BY DEF EmptyDir, Dir
  <2> QED BY <1>1, <2>1 DEF NodeEntry
<1>2. CASE e.kind # "dir"
  <2>1. e.data \in Seq(Nat) /\ node = File(e.data, Len(e.data)) /\ e = FileEntry(e.data)
    BY <1>2
  <2>2. NodeEntry(node) = FileEntry(e.data)
    BY <2>1, LoadedContent
  <2>3. node.kind = "file" /\ node.buf = e.data /\ node.len = Len(e.data)
    BY <2>1 DEF File
  <2> QED BY <2>1, <2>2, <2>3
<1> QED BY <1>1, <1>2

\* The image of the first k paths of a snapshot shows those.
ShowsFirst(fs, tree, paths, k) ==
    /\ Treelike(fs) /\ Len(fs) = k + 1
    /\ DOMAIN PathTree(fs) = {paths[j] : j \in 1..k}
    /\ \A j \in 1..k : PathTree(fs)[paths[j]] = tree[paths[j]]

\* An image of a root and nothing else is a tree.
LEMMA RootAlone ==
    ASSUME NEW fs, fs = <<EmptyDir>>
    PROVE  Treelike(fs) /\ Len(fs) = 1 /\ DOMAIN PathTree(fs) = {}
<1>1. fs = [i \in 1..1 |-> fs[i]] /\ fs[1] = EmptyDir
  OBVIOUS
<1>2. IsNode(EmptyDir, 1)
  <2>1. [n \in Names |-> NoIno] \in [Names -> 0..1]
    BY DEF NoIno
  <2> QED BY <2>1 DEF IsNode, EmptyDir
<1>3. IsImage(fs) /\ Len(fs) = 1
  <2>1. \A i \in 1..1 : IsNode(fs[i], 1)
    BY <1>1, <1>2
  <2>2. 1 \in Nat
    OBVIOUS
  <2> QED BY <1>1, <2>1, <2>2, MakesImage
<1>4. fs[Root].kind = "dir" /\ \A n \in Names : fs[Root].entries[n] = NoIno
  BY <1>1 DEF Root, EmptyDir, Dir
<1>5. Few(fs)
  <2>1. {n \in Names : fs[1].entries[n] # NoIno} = {}
    BY <1>4 DEF Root
  <2>2. IsFiniteSet({})
    BY FS_EmptySet
  <2>3. \A i \in 1..1 : i = 1
    OBVIOUS
  <2> QED BY <1>3, <2>1, <2>2, <2>3 DEF Few
<1> DEFINE S == {<<>>} \cup {p \in Seq(Names) : Lookup(fs, p) = NoIno}
<1>6. Seq(Names) \subseteq S
  <2>1. ASSUME NEW p \in Seq(Names), NEW n \in Names, p \in S PROVE Append(p, n) \in S
    <3>1. Append(p, n) \in Seq(Names) /\ Lookup(fs, Append(p, n)) = Down(fs, Lookup(fs, p), n)
      BY EntryPath, LookupStep
    <3>2. Lookup(fs, p) = Root \/ Lookup(fs, p) = NoIno
      BY <2>1, LookupRoot
    <3>3. Down(fs, Root, n) = NoIno /\ Down(fs, NoIno, n) = NoIno
      BY <1>4 DEF Down, IsDir, Root, NoIno
    <3> QED BY <3>1, <3>2, <3>3
  <2>2. <<>> \in S
    OBVIOUS
  <2> HIDE DEF S
  <2> QED BY <2>1, <2>2, EachPath
<1>7. \A p \in Found(fs) : p = <<>>
  BY <1>6 DEF Found
<1>8. OneWay(fs)
  BY <1>7 DEF OneWay
<1>9. Treelike(fs)
  BY <1>3, <1>4, <1>5, <1>8 DEF Treelike
<1>10. DOMAIN PathTree(fs) = {}
  BY <1>7 DEF PathTree
<1> QED BY <1>3, <1>9, <1>10

\* The parent of a path sorts before it.
LEMMA ParentFirst ==
    ASSUME NEW p \in Seq(Names), p # <<>>
    PROVE  PathLess(Parent(p), p)
<1>1. Len(Parent(p)) = Len(p) - 1 /\ Len(p) \in Nat
  BY PathEnds
<1>2. Len(Parent(p)) < Len(p) /\ SubSeq(p, 1, Len(Parent(p))) = Parent(p)
  BY <1>1 DEF Parent
<1> QED BY <1>2 DEF PathLess, Inside

\* What a snapshot's paths are, and how they are sorted.
SnapshotPaths(tree, paths, n) ==
    /\ n \in Nat /\ \A k \in 1..n : paths[k] \in DOMAIN tree
    /\ \A k, l \in 1..n : /\ paths[k] = paths[l] => k = l
                          /\ PathLess(paths[k], paths[l]) => k < l
    /\ \A p \in DOMAIN tree : \E k \in 1..n : paths[k] = p

\* The directory the next path lies in is there already, and the path is not.
LEMMA NextIsListed ==
    ASSUME NEW tree, NEW paths, NEW n, SnapshotPaths(tree, paths, n), NEW k \in 0..(n-1)
    PROVE  n \in Nat /\ k \in Nat /\ k + 1 \in 1..n /\ paths[k+1] \in DOMAIN tree
<1>1. n \in Nat /\ \A j \in 1..n : paths[j] \in DOMAIN tree
  BY DEF SnapshotPaths
<1>2. k \in Nat /\ k + 1 \in 1..n
  BY <1>1
<1> QED BY <1>1, <1>2

LEMMA NextHasParent ==
    ASSUME NEW tree, IsSnapshot(tree), DOMAIN tree \subseteq Seq(Names),
           NEW paths, NEW n, SnapshotPaths(tree, paths, n), NEW k \in 0..(n-1),
           NEW fs, ShowsFirst(fs, tree, paths, k),
           NEW p, p = paths[k+1]
    PROVE  p \in Seq(Names) /\ p # <<>> /\ Lookup(fs, p) = NoIno /\ IsDir(fs, Lookup(fs, Parent(p)))
<1>1. n \in Nat /\ k + 1 \in 1..n /\ p \in DOMAIN tree
  BY NextIsListed
<1>2. p \in Seq(Names) /\ p # <<>>
  <2>1. p \in Seq(Names)
    BY <1>1
  <2>2. \A r \in DOMAIN tree : r # <<>>
    BY DEF IsSnapshot
  <2> QED BY <1>1, <2>1, <2>2
<1>3. Treelike(fs) /\ DOMAIN PathTree(fs) = {paths[j] : j \in 1..k}
      /\ \A j \in 1..k : PathTree(fs)[paths[j]] = tree[paths[j]]
  BY DEF ShowsFirst
<1>4. p \notin DOMAIN PathTree(fs)
  <2>1. \A j \in 1..k : paths[j] # p
    <3>1. ASSUME NEW j \in 1..k PROVE j \in 1..n /\ j # k + 1
      BY <1>1
    <3> QED BY <1>1, <3>1 DEF SnapshotPaths
  <2> QED BY <1>3, <2>1
<1>5. Lookup(fs, p) = NoIno
  BY <1>2, <1>3, <1>4, TreePaths
<1>6. IsDir(fs, Lookup(fs, Parent(p)))
  <2>1. CASE Parent(p) = <<>>
    <3>1. Lookup(fs, Parent(p)) = Root /\ fs[Root].kind = "dir"
      BY <1>3, <2>1, LookupRoot DEF Treelike
    <3> QED BY <3>1 DEF IsDir, Root, NoIno
  <2>2. CASE Parent(p) # <<>>
    <3>1. Parent(p) \in DOMAIN tree /\ tree[Parent(p)].kind = "dir"
      BY <1>1, <2>2 DEF IsSnapshot
    <3>2. PICK l \in 1..n : paths[l] = Parent(p)
      BY <3>1 DEF SnapshotPaths
    <3>3. l < k + 1
      <4>1. PathLess(paths[l], paths[k+1])
        BY <1>2, <3>2, ParentFirst
      <4> QED BY <1>1, <4>1 DEF SnapshotPaths
    <3>4. l \in 1..k
      BY <1>1, <3>3
    <3>5. Parent(p) \in DOMAIN PathTree(fs) /\ PathTree(fs)[Parent(p)] = tree[Parent(p)]
      BY <1>3, <3>2, <3>4
    <3>6. Lookup(fs, Parent(p)) \in 1..Len(fs)
          /\ NodeEntry(fs[Lookup(fs, Parent(p))]) = tree[Parent(p)]
      BY <1>3, <3>5, TreePaths
    <3>7. fs[Lookup(fs, Parent(p))].kind = "dir"
      BY <3>1, <3>6 DEF NodeEntry, FileEntry
    <3> QED BY <3>6, <3>7 DEF IsDir, NoIno
  <2> QED BY <2>1, <2>2
<1> QED BY <1>2, <1>5, <1>6

\* Planting the next path shows one path more.
LEMMA PlantNext ==
    ASSUME NEW tree, IsSnapshot(tree), DOMAIN tree \subseteq Seq(Names),
           \A p \in DOMAIN tree : tree[p].kind # "dir" => tree[p].data \in Seq(Nat),
           NEW paths, NEW n, SnapshotPaths(tree, paths, n), NEW k \in 0..(n-1),
           NEW fs, ShowsFirst(fs, tree, paths, k),
           NEW x, x = Planted(fs, tree, paths[k+1])
    PROVE  ShowsFirst(x, tree, paths, k + 1)
<1> DEFINE p    == paths[k+1]
           e    == tree[p]
           node == IF e.kind = "dir" THEN EmptyDir ELSE File(e.data, Len(e.data))
<1>1. n \in Nat /\ k \in Nat /\ k + 1 \in 1..n /\ p \in DOMAIN tree
  BY NextIsListed
<1>2. p \in Seq(Names) /\ p # <<>> /\ Lookup(fs, p) = NoIno /\ IsDir(fs, Lookup(fs, Parent(p)))
  <2>1. p = paths[k+1]
    OBVIOUS
  <2> HIDE DEF p, e, node
  <2> QED BY <2>1, NextHasParent
<1>3. /\ e = (IF e.kind = "dir" THEN DirEntry ELSE FileEntry(e.data))
      /\ e.kind # "dir" => e.data \in Seq(Nat)
  BY <1>1 DEF IsSnapshot
<1>4. x = SetEntry(Append(fs, node), Lookup(fs, Parent(p)), BaseName(p), Len(fs) + 1)
  BY DEF Planted
<1>5. node = IF e.kind = "dir" THEN EmptyDir ELSE File(e.data, Len(e.data))
  OBVIOUS
<1> HIDE DEF node, e
<1>6. /\ NodeEntry(node) = e
      /\ node = EmptyDir \/ (node.kind = "file" /\ node = File(node.buf, node.len))
  BY <1>3, <1>5, PlantedEntry
<1>7. Treelike(fs) /\ Len(fs) = k + 1 /\ DOMAIN PathTree(fs) = {paths[j] : j \in 1..k}
      /\ \A j \in 1..k : PathTree(fs)[paths[j]] = tree[paths[j]]
  BY DEF ShowsFirst
<1> HIDE DEF p
<1>8. GrownAt(x, fs, p, node)
  BY <1>2, <1>4, <1>6, <1>7, PlantLooks
<1>9. p \notin DOMAIN PathTree(fs) /\ PathTree(x) = WithEntry(PathTree(fs), p, NodeEntry(node))
  BY <1>2, <1>7, <1>8, GrownTree
<1>10. Treelike(x) /\ Len(x) = (k + 1) + 1
  BY <1>7, <1>8 DEF GrownAt
<1>11. \A j \in 1..(k+1) : j \in 1..k \/ j = k + 1
  BY <1>1
<1>12. \A j \in 1..k : j \in 1..(k+1)
  BY <1>1
<1>13. k + 1 \in 1..(k+1)
  BY <1>1
<1>14. DOMAIN PathTree(x) = {paths[j] : j \in 1..(k+1)}
  <2>1. DOMAIN PathTree(x) = {paths[j] : j \in 1..k} \cup {paths[k+1]}
    BY <1>7, <1>9 DEF p, WithEntry
  <2> QED BY <1>11, <1>12, <1>13, <2>1
<1>15. ASSUME NEW j \in 1..(k+1) PROVE PathTree(x)[paths[j]] = tree[paths[j]]
  <2>1. CASE j = k + 1
    <3>1. PathTree(x)[p] = NodeEntry(node)
      BY <1>9 DEF WithEntry
    <3> QED BY <1>6, <2>1, <3>1 DEF p, e
  <2>2. CASE j \in 1..k
    <3>1. paths[j] \in DOMAIN PathTree(fs) /\ paths[j] # p
      BY <1>7, <1>9, <2>2
    <3>2. PathTree(x)[paths[j]] = PathTree(fs)[paths[j]]
      BY <1>9, <3>1 DEF WithEntry
    <3> QED BY <1>7, <2>2, <3>2
  <2> QED BY <1>11, <2>1, <2>2
<1> QED BY <1>10, <1>14, <1>15 DEF ShowsFirst

\* The image of a snapshot is a tree, and shows the snapshot.
LEMMA FromTreeShows ==
    ASSUME NEW tree, IsFiniteSet(DOMAIN tree), DOMAIN tree \subseteq Seq(Names),
           \A p \in DOMAIN tree : tree[p].kind # "dir" => tree[p].data \in Seq(Nat),
           IsSnapshot(tree)
    PROVE  Treelike(FromTree(tree)) /\ PathTree(FromTree(tree)) = tree
<1> DEFINE paths == Sorted(DOMAIN tree, PathLess)
           n == Len(paths)
           f == CHOOSE g : IsGrowth(g, tree, paths, n)
<1>1. SnapshotPaths(tree, paths, n)
  <2> HIDE DEF paths
  <2>1. /\ Cardinality(DOMAIN tree) \in Nat /\ Len(paths) = Cardinality(DOMAIN tree)
        /\ \A k \in 1..Cardinality(DOMAIN tree) : paths[k] \in DOMAIN tree
        /\ \A k, l \in 1..Cardinality(DOMAIN tree) :
              /\ paths[k] = paths[l] => k = l
              /\ PathLess(paths[k], paths[l]) => k < l
        /\ \A p \in DOMAIN tree : \E k \in 1..Cardinality(DOMAIN tree) : paths[k] = p
    BY SortedPaths DEF paths
  <2> QED BY <2>1 DEF SnapshotPaths
<1>2. n \in Nat
  BY <1>1 DEF SnapshotPaths
<1>3. IsGrowth(f, tree, paths, n)
  <2> HIDE DEF n, paths
  <2> QED BY <1>2, GrowthExists
<1>4. FromTree(tree) = f[n]
  BY DEF FromTree, IsGrowth, Planted
<1> HIDE DEF f, paths, n
<1>5. f[0] = <<EmptyDir>> /\ \A k \in 1..n : f[k] = Planted(f[k-1], tree, paths[k])
  BY <1>2, <1>3 DEF IsGrowth
<1> DEFINE S == {k \in 0..n : ShowsFirst(f[k], tree, paths, k)}
<1>6. 0 \in S
  <2>1. Treelike(f[0]) /\ Len(f[0]) = 1 /\ DOMAIN PathTree(f[0]) = {}
    BY <1>5, RootAlone
  <2>2. 1..0 = {}
    OBVIOUS
  <2>3. ShowsFirst(f[0], tree, paths, 0)
    BY <2>1, <2>2 DEF ShowsFirst
  <2> QED BY <1>2, <2>3
<1>7. ASSUME NEW k \in 0..(n-1), k \in S PROVE k + 1 \in S
  <2>1. k + 1 \in 1..n /\ k + 1 \in 0..n /\ (k + 1) - 1 = k /\ ShowsFirst(f[k], tree, paths, k)
    BY <1>2, <1>7
  <2>2. f[k+1] = Planted(f[k], tree, paths[k+1])
    BY <1>5, <2>1
  <2>3. ShowsFirst(f[k+1], tree, paths, k + 1)
    BY <1>1, <2>1, <2>2, PlantNext
  <2> QED BY <2>1, <2>3
<1>8. 0..n \subseteq S
  <2> HIDE DEF S
  <2> QED BY <1>2, <1>6, <1>7, UpTo
<1>9. ShowsFirst(f[n], tree, paths, n)
  BY <1>2, <1>8
<1>10. PathTree(f[n]) = tree
  <2>1. DOMAIN PathTree(f[n]) = DOMAIN tree
    <3>1. DOMAIN PathTree(f[n]) = {paths[j] : j \in 1..n}
      BY <1>9 DEF ShowsFirst
    <3>2. \A p \in DOMAIN tree : \E j \in 1..n : paths[j] = p
      BY <1>1 DEF SnapshotPaths
    <3>3. \A j \in 1..n : paths[j] \in DOMAIN tree
      BY <1>1 DEF SnapshotPaths
    <3> HIDE DEF S
    <3> QED BY <3>1, <3>2, <3>3
  <2>2. \A p \in DOMAIN tree : PathTree(f[n])[p] = tree[p]
    BY <1>1, <1>9 DEF ShowsFirst, SnapshotPaths
  <2>3. PathTree(f[n]) = [p \in DOMAIN tree |-> PathTree(f[n])[p]]
    BY <1>9, <2>1, TreePaths DEF ShowsFirst
  <2>4. tree = [p \in DOMAIN tree |-> tree[p]]
    BY DEF IsSnapshot
  <2> QED BY <2>2, <2>3, <2>4
<1> QED BY <1>4, <1>9, <1>10 DEF ShowsFirst

-----------------------------------------------------------------------------
(* What one iteration does to the micro-ops *)

\* The loop's tables are sequences of naturals.
LEMMA TablesType ==
    ASSUME TypeOK
    PROVE  /\ Len(op_end) \in Nat \ {0} /\ OpIndex \in Nat
           /\ Len(micro) \in Nat /\ DOMAIN micro = 1..Len(micro)
           /\ Marks \in Nat
  BY DEF TypeOK, OpIndex, Marks

\* Emitting keeps the micro-ops there are and appends the new, non-durable ones.
LEMMA EmitMicro ==
    ASSUME TypeOK, NEW fs, NEW ms, ms \in Seq(Range(ms)), Emit(fs, ms)
    PROVE  /\ micro' \in Seq(Range(micro'))
           /\ Len(ms) \in Nat /\ Len(micro') = Len(micro) + Len(ms)
           /\ DOMAIN micro' = 1..(Len(micro) + Len(ms))
           /\ \A j \in DOMAIN micro : micro'[j] = micro[j]
           /\ \A j \in New(ms) : micro'[j] = [m |-> NewMicro(ms, j), op |-> OpIndex,
                                             durable_at |-> NEVER]
<1> DEFINE fresh == [k \in 1..Len(ms) |-> [m |-> ms[k], op |-> OpIndex, durable_at |-> NEVER]]
<1>1. Len(ms) \in Nat /\ Len(micro) \in Nat /\ micro \in Seq(Range(micro))
  BY DEF TypeOK
<1>a. fresh = [k \in 1..Len(ms) |-> fresh[k]]
  OBVIOUS
<1>3. micro' = micro \o fresh
  BY DEF Emit
<1> HIDE DEF fresh
<1>2. fresh \in Seq(Range(fresh)) /\ Len(fresh) = Len(ms)
  BY <1>1, <1>a, FunctionIsSeq
<1>4. /\ micro' \in Seq(Range(micro'))
      /\ Len(micro') = Len(micro) + Len(ms)
      /\ DOMAIN micro' = 1..(Len(micro) + Len(ms))
      /\ \A k \in 1..(Len(micro) + Len(ms)) :
            micro'[k] = IF k <= Len(micro) THEN micro[k] ELSE fresh[k - Len(micro)]
  BY <1>1, <1>2, <1>3, ConcatIs
<1>5. \A j \in DOMAIN micro : micro'[j] = micro[j]
  BY <1>1, <1>4
<1>6. \A j \in New(ms) : j \in 1..(Len(micro) + Len(ms)) /\ ~(j <= Len(micro))
                       /\ j - Len(micro) \in 1..Len(ms)
  BY <1>1 DEF New
<1>7. \A j \in New(ms) : micro'[j] = fresh[j - Len(micro)]
  BY <1>4, <1>6
<1>8. \A j \in New(ms) : micro'[j] = [m |-> NewMicro(ms, j), op |-> OpIndex,
                                    durable_at |-> NEVER]
  BY <1>6, <1>7 DEF fresh, NewMicro
<1>9. QED
  BY <1>1, <1>4, <1>5, <1>8

\* A barrier only stamps the listed micro-ops that are not durable yet.
LEMMA FlushMicro ==
    ASSUME TypeOK, NEW listed, Flush(listed)
    PROVE  /\ micro' \in Seq(Range(micro'))
           /\ Len(micro') = Len(micro) /\ DOMAIN micro' = DOMAIN micro
           /\ \A j \in DOMAIN micro :
                 /\ DOMAIN micro'[j] = {"m", "op", "durable_at"}
                 /\ micro'[j].m = micro[j].m /\ micro'[j].op = micro[j].op
                 /\ micro'[j].durable_at =
                       IF j \in listed /\ micro[j].durable_at = NEVER
                       THEN OpIndex ELSE micro[j].durable_at
<1>1. Len(micro) \in Nat /\ DOMAIN micro = 1..Len(micro)
  BY TablesType
<1>2. micro' = [j \in DOMAIN micro |->
                  IF j \in listed /\ micro[j].durable_at = NEVER
                  THEN [micro[j] EXCEPT !.durable_at = OpIndex] ELSE micro[j]]
  BY DEF Flush
<1>3. micro' = [j \in 1..Len(micro) |-> micro'[j]]
  BY <1>1, <1>2
<1>4. micro' \in Seq(Range(micro')) /\ Len(micro') = Len(micro) /\ DOMAIN micro' = DOMAIN micro
  BY <1>1, <1>3, FunctionIsSeq
<1>5. \A j \in DOMAIN micro : DOMAIN micro[j] = {"m", "op", "durable_at"}
  BY DEF TypeOK
<1>6. QED
  BY <1>2, <1>4, <1>5

-----------------------------------------------------------------------------
(* The tables and the pending lists are kept *)

\* A sequence of numbers with one more at its end.
LEMMA AppendedNumber ==
    ASSUME NEW s \in Seq(Nat), NEW x \in Nat
    PROVE  /\ Append(s, x) \in Seq(Nat) /\ Len(Append(s, x)) = Len(s) + 1
           /\ Append(s, x)[Len(s) + 1] = x
           /\ \A k \in 1..Len(s) : Append(s, x)[k] = s[k]
  OBVIOUS

\* An iteration that emits keeps the tables in step with the micro-ops.
LEMMA EmitKeepsTypeOK ==
    ASSUME TypeOK, OpIndex < MaxOps,
           NEW fs, NEW ms, ms \in Seq(Range(ms)), Emit(fs, ms)
    PROVE  TypeOK'
<1> DEFINE n == Len(op_end)
<1>1. n \in Nat \ {0} /\ OpIndex = n - 1 /\ Len(micro) \in Nat /\ Marks \in Nat
      /\ DOMAIN micro = 1..Len(micro)
  BY TablesType DEF OpIndex
<1>2. /\ op_end \in Seq(Nat) /\ marks_before \in Seq(Nat) /\ Len(marks_before) = n
      /\ op_end[n] = Len(micro) /\ MaxOps \in Nat
  BY CompileAssumption DEF TypeOK
<1>3. /\ micro' \in Seq(Range(micro'))
      /\ Len(ms) \in Nat /\ Len(micro') = Len(micro) + Len(ms)
      /\ DOMAIN micro' = 1..(Len(micro) + Len(ms))
      /\ \A j \in DOMAIN micro : micro'[j] = micro[j]
      /\ \A j \in New(ms) : micro'[j] = [m |-> NewMicro(ms, j), op |-> OpIndex,
                                        durable_at |-> NEVER]
  BY EmitMicro
<1>4. /\ op_end' = Append(op_end, Len(micro'))
      /\ marks_before' = Append(marks_before, Marks)
      /\ profile' = profile /\ failed' = failed
  BY <1>3 DEF Emit
<1>5. /\ op_end' \in Seq(Nat) /\ Len(op_end') = n + 1 /\ op_end'[n + 1] = Len(micro')
      /\ \A k \in 1..n : op_end'[k] = op_end[k]
      /\ marks_before' \in Seq(Nat) /\ Len(marks_before') = n + 1
  <2>1. Len(micro') \in Nat
    BY <1>1, <1>3
  <2>2. /\ op_end' \in Seq(Nat) /\ Len(op_end') = n + 1 /\ op_end'[n + 1] = Len(micro')
        /\ \A k \in 1..n : op_end'[k] = op_end[k]
    BY <1>1, <1>2, <1>3, <1>4, <2>1, AppendedNumber
  <2>3. marks_before' \in Seq(Nat) /\ Len(marks_before') = n + 1
    BY <1>1, <1>2, <1>4
  <2> QED BY <2>2, <2>3
<1>6. OpIndex' = n
  BY <1>1, <1>5 DEF OpIndex
<1>7. ASSUME NEW j \in DOMAIN micro'
      PROVE  /\ DOMAIN micro'[j] = {"m", "op", "durable_at"}
             /\ micro'[j].op \in 0..(OpIndex' - 1)
             /\ op_end'[micro'[j].op + 1] < j /\ j <= op_end'[micro'[j].op + 2]
             /\ micro'[j].durable_at \in (micro'[j].op + 1)..(OpIndex' - 1) \cup {NEVER}
  <2>1. CASE j \in DOMAIN micro
    <3>1. /\ DOMAIN micro[j] = {"m", "op", "durable_at"}
          /\ micro[j].op \in 0..(n - 2)
          /\ op_end[micro[j].op + 1] < j /\ j <= op_end[micro[j].op + 2]
          /\ micro[j].durable_at \in (micro[j].op + 1)..(n - 2) \cup {NEVER}
      BY <1>1, <2>1 DEF TypeOK
    <3>2. micro'[j] = micro[j]
      BY <1>3, <2>1
    <3>a. micro[j].op + 1 \in 1..n /\ micro[j].op + 2 \in 1..n
      <4>1. n \in Int /\ micro[j].op \in 0..(n - 2)
        BY <1>1, <3>1
      <4> QED BY <4>1, SMTT(30)
    <3>3. op_end'[micro[j].op + 1] = op_end[micro[j].op + 1]
          /\ op_end'[micro[j].op + 2] = op_end[micro[j].op + 2]
      BY <1>5, <3>a
    <3>4. micro[j].op \in 0..(n - 1)
          /\ micro[j].durable_at \in (micro[j].op + 1)..(n - 1) \cup {NEVER}
      BY <1>1, <3>1
    <3>5. QED
      BY <1>6, <3>1, <3>2, <3>3, <3>4
  <2>2. CASE j \notin DOMAIN micro
    <3>1. j \in New(ms) /\ Len(micro) < j /\ j <= Len(micro')
      BY <1>1, <1>3, <2>2 DEF New
    <3>2. micro'[j] = [m |-> NewMicro(ms, j), op |-> n - 1, durable_at |-> NEVER]
      BY <1>1, <1>3, <3>1
    <3>a. n \in 1..n
      BY <1>1
    <3>3. op_end'[n] = Len(micro) /\ op_end'[n + 1] = Len(micro')
      BY <1>2, <1>5, <3>a
    <3>4. n - 1 \in 0..(n - 1) /\ (n - 1) + 1 = n /\ (n - 1) + 2 = n + 1
      BY <1>1
    <3>5. op_end'[(n - 1) + 1] < j /\ j <= op_end'[(n - 1) + 2]
      BY <3>1, <3>3, <3>4
    <3>6. QED
      BY <1>6, <3>2, <3>4, <3>5
  <2>3. QED
    BY <2>1, <2>2
<1>8. n + 1 \in 1..(MaxOps + 1)
  BY <1>1, <1>2
<1>b. ASSUME NEW k \in 1..(n + 1) PROVE op_end'[k] <= Len(micro')
  <2>1. CASE k \in 1..n
    <3>1. op_end[k] <= Len(micro) /\ op_end[k] \in Nat
      BY <1>2, <2>1 DEF TypeOK
    <3>2. Len(micro) <= Len(micro') /\ Len(micro') \in Nat
      BY <1>1, <1>3
    <3>3. op_end'[k] = op_end[k]
      BY <1>5, <2>1
    <3>4. QED
      BY <1>1, <3>1, <3>2, <3>3
  <2>2. CASE k = n + 1
    BY <1>1, <1>3, <1>5, <2>2
  <2>3. QED
    BY <1>1, <2>1, <2>2
<1>9. QED
  BY <1>3, <1>4, <1>5, <1>7, <1>8, <1>b DEF TypeOK, NEVER

\* So does an iteration that ends with a barrier or a mark.
LEMMA EndOpKeepsTypeOK ==
    ASSUME TypeOK, OpIndex < MaxOps,
           NEW listed, Flush(listed), NEW marks \in Nat, EndOp(marks)
    PROVE  TypeOK'
<1> DEFINE n == Len(op_end)
<1>1. n \in Nat \ {0} /\ OpIndex = n - 1 /\ Len(micro) \in Nat
      /\ DOMAIN micro = 1..Len(micro)
  BY TablesType DEF OpIndex
<1>2. /\ op_end \in Seq(Nat) /\ marks_before \in Seq(Nat) /\ Len(marks_before) = n
      /\ op_end[n] = Len(micro) /\ MaxOps \in Nat
  BY CompileAssumption DEF TypeOK
<1>3. /\ micro' \in Seq(Range(micro'))
      /\ Len(micro') = Len(micro) /\ DOMAIN micro' = DOMAIN micro
      /\ \A j \in DOMAIN micro :
            /\ DOMAIN micro'[j] = {"m", "op", "durable_at"}
            /\ micro'[j].m = micro[j].m /\ micro'[j].op = micro[j].op
            /\ micro'[j].durable_at = IF j \in listed /\ micro[j].durable_at = NEVER
                                      THEN OpIndex ELSE micro[j].durable_at
  BY FlushMicro
<1>4. /\ op_end' = Append(op_end, Len(micro)) /\ marks_before' = Append(marks_before, marks)
      /\ profile' = profile /\ failed' = failed
  BY DEF EndOp
<1>5. /\ op_end' \in Seq(Nat) /\ Len(op_end') = n + 1 /\ op_end'[n + 1] = Len(micro')
      /\ \A k \in 1..n : op_end'[k] = op_end[k]
      /\ marks_before' \in Seq(Nat) /\ Len(marks_before') = n + 1
  <2>1. Len(micro') \in Nat
    BY <1>1, <1>3
  <2>2. /\ op_end' \in Seq(Nat) /\ Len(op_end') = n + 1 /\ op_end'[n + 1] = Len(micro')
        /\ \A k \in 1..n : op_end'[k] = op_end[k]
    BY <1>1, <1>2, <1>3, <1>4, <2>1, AppendedNumber
  <2>3. marks_before' \in Seq(Nat) /\ Len(marks_before') = n + 1
    BY <1>1, <1>2, <1>4
  <2> QED BY <2>2, <2>3
<1>6. OpIndex' = n
  BY <1>1, <1>5 DEF OpIndex
<1>7. ASSUME NEW j \in DOMAIN micro'
      PROVE  /\ DOMAIN micro'[j] = {"m", "op", "durable_at"}
             /\ micro'[j].op \in 0..(OpIndex' - 1)
             /\ op_end'[micro'[j].op + 1] < j /\ j <= op_end'[micro'[j].op + 2]
             /\ micro'[j].durable_at \in (micro'[j].op + 1)..(OpIndex' - 1) \cup {NEVER}
  <2>1. /\ micro[j].op \in 0..(n - 2)
        /\ op_end[micro[j].op + 1] < j /\ j <= op_end[micro[j].op + 2]
        /\ micro[j].durable_at \in (micro[j].op + 1)..(n - 2) \cup {NEVER}
    BY <1>1, <1>3 DEF TypeOK
  <2>a. micro[j].op + 1 \in 1..n /\ micro[j].op + 2 \in 1..n
    <3>1. n \in Int /\ micro[j].op \in 0..(n - 2)
      BY <1>1, <2>1
    <3> QED BY <3>1, SMTT(30)
  <2>2. op_end'[micro[j].op + 1] = op_end[micro[j].op + 1]
        /\ op_end'[micro[j].op + 2] = op_end[micro[j].op + 2]
    BY <1>5, <2>a
  <2>3. n - 1 \in (micro[j].op + 1)..(n - 1) /\ micro[j].op \in 0..(n - 1)
        /\ micro[j].durable_at \in (micro[j].op + 1)..(n - 1) \cup {NEVER}
    BY <1>1, <2>1
  <2>4. micro'[j].durable_at \in (micro[j].op + 1)..(n - 1) \cup {NEVER}
    BY <1>1, <1>3, <2>3
  <2>5. QED
    BY <1>3, <1>6, <2>1, <2>2, <2>3, <2>4
<1>8. n + 1 \in 1..(MaxOps + 1)
  BY <1>1, <1>2
<1>b. ASSUME NEW k \in 1..(n + 1) PROVE op_end'[k] <= Len(micro')
  <2>1. CASE k \in 1..n
    <3>1. op_end[k] <= Len(micro) /\ op_end[k] \in Nat
      BY <1>2, <2>1 DEF TypeOK
    <3>2. Len(micro) <= Len(micro') /\ Len(micro') \in Nat
      BY <1>1, <1>3
    <3>3. op_end'[k] = op_end[k]
      BY <1>5, <2>1
    <3>4. QED
      BY <1>1, <3>1, <3>2, <3>3
  <2>2. CASE k = n + 1
    BY <1>1, <1>3, <1>5, <2>2
  <2>3. QED
    BY <1>1, <2>1, <2>2
<1>9. QED
  BY <1>3, <1>4, <1>5, <1>7, <1>8, <1>b DEF TypeOK, NEVER

\* Registering lists every new micro-op where its fsync will find it.
LEMMA EmitKeepsPendingOK ==
    ASSUME TypeOK, PendingOK, NEW fs, NEW ms, ms \in Seq(Range(ms)), Emit(fs, ms)
    PROVE  PendingOK'
<1>1. /\ Len(micro) \in Nat /\ DOMAIN micro = 1..Len(micro) /\ Len(ms) \in Nat
      /\ DOMAIN micro' = 1..(Len(micro) + Len(ms))
      /\ \A j \in DOMAIN micro : micro'[j] = micro[j]
      /\ \A j \in New(ms) : micro'[j] = [m |-> NewMicro(ms, j), op |-> OpIndex,
                                        durable_at |-> NEVER]
  BY TablesType, EmitMicro
<1>a. DOMAIN micro' = DOMAIN micro \cup New(ms)
  <2>1. 1..(Len(micro) + Len(ms)) = 1..Len(micro) \cup (Len(micro) + 1)..(Len(micro) + Len(ms))
    BY <1>1
  <2>2. QED
    BY <1>1, <2>1 DEF New
<1>2. /\ \A j \in New(ms) : j \in DOMAIN micro' /\ micro'[j].m = NewMicro(ms, j)
      /\ \A j \in DOMAIN micro : j \in DOMAIN micro'
      /\ \A j \in DOMAIN micro' : j \in DOMAIN micro \/ j \in New(ms)
  <2>1. ASSUME NEW j \in New(ms) PROVE micro'[j].m = NewMicro(ms, j)
    <3>1. micro'[j] = [m |-> NewMicro(ms, j), op |-> OpIndex, durable_at |-> NEVER]
      BY <1>1
    <3>2. QED
      BY <3>1
  <2>2. QED
    BY <1>a, <2>1
<1>3. /\ pending_data' = pending_data \cup
            {<<FlushedWith(NewMicro(ms, j)), j>> : j \in {k \in New(ms) : IsData(NewMicro(ms, k))}}
      /\ pending_dir' = pending_dir \cup
            {<<FlushedWith(NewMicro(ms, j)), j>> : j \in {k \in New(ms) : ~IsData(NewMicro(ms, k))}}
      /\ pending_meta' = pending_meta \cup {j \in New(ms) : IsMeta(NewMicro(ms, j))}
  BY DEF Emit, Register
<1>4. ASSUME NEW j \in DOMAIN micro', micro'[j].durable_at = NEVER
      PROVE  /\ <<FlushedWith(micro'[j].m), j>> \in
                   (IF IsData(micro'[j].m) THEN pending_data' ELSE pending_dir')
             /\ IsMeta(micro'[j].m) => j \in pending_meta'
  <2>1. CASE j \in DOMAIN micro
    BY <1>1, <1>3, <1>4, <2>1 DEF PendingOK
  <2>2. CASE j \in New(ms)
    BY <1>2, <1>3, <2>2
  <2>3. QED
    BY <1>2, <2>1, <2>2
<1>5. ASSUME NEW e \in pending_data' \cup pending_dir'
      PROVE  e[2] \in DOMAIN micro' /\ e[1] = FlushedWith(micro'[e[2]].m)
  <2>1. CASE e \in pending_data \cup pending_dir
    BY <1>1, <1>2, <2>1 DEF PendingOK
  <2>2. CASE \E j \in New(ms) : e = <<FlushedWith(NewMicro(ms, j)), j>>
    BY <1>2, <2>2
  <2>3. QED
    BY <1>3, <2>1, <2>2
<1>6. ASSUME NEW j \in pending_meta'
      PROVE  j \in DOMAIN micro' /\ IsMeta(micro'[j].m)
  <2>1. CASE j \in pending_meta
    BY <1>1, <1>2, <2>1 DEF PendingOK
  <2>2. CASE j \in New(ms) /\ IsMeta(NewMicro(ms, j))
    BY <1>2, <2>2
  <2>3. QED
    BY <1>3, <2>1, <2>2
<1>7. QED
  BY <1>4, <1>5, <1>6 DEF PendingOK

\* A barrier that flushes what it takes off the lists loses nothing.
LEMMA FlushKeepsPendingOK ==
    ASSUME TypeOK, PendingOK, OpIndex < MaxOps, NEW listed, Flush(listed),
           pending_data' \subseteq pending_data, pending_dir' \subseteq pending_dir,
           pending_meta' \subseteq pending_meta,
           \A e \in pending_data \ pending_data' : e[2] \in listed,
           \A e \in pending_dir \ pending_dir' : e[2] \in listed,
           pending_meta \ pending_meta' \subseteq listed
    PROVE  PendingOK'
<1>1. /\ DOMAIN micro' = DOMAIN micro
      /\ \A j \in DOMAIN micro :
            /\ micro'[j].m = micro[j].m
            /\ micro'[j].durable_at = IF j \in listed /\ micro[j].durable_at = NEVER
                                      THEN OpIndex ELSE micro[j].durable_at
  BY FlushMicro
<1>2. OpIndex # NEVER
  BY TablesType, CompileAssumption DEF NEVER
<1>3. ASSUME NEW j \in DOMAIN micro', micro'[j].durable_at = NEVER
      PROVE  /\ <<FlushedWith(micro'[j].m), j>> \in
                   (IF IsData(micro'[j].m) THEN pending_data' ELSE pending_dir')
             /\ IsMeta(micro'[j].m) => j \in pending_meta'
  <2>1. j \in DOMAIN micro /\ micro[j].durable_at = NEVER /\ j \notin listed
    BY <1>1, <1>2, <1>3
  <2>2. /\ <<FlushedWith(micro[j].m), j>> \in
                 (IF IsData(micro[j].m) THEN pending_data ELSE pending_dir)
        /\ IsMeta(micro[j].m) => j \in pending_meta
    BY <2>1 DEF PendingOK
  <2>3. QED
    BY <1>1, <2>1, <2>2
<1>4. \A e \in pending_data' \cup pending_dir' :
         e[2] \in DOMAIN micro' /\ e[1] = FlushedWith(micro'[e[2]].m)
  BY <1>1 DEF PendingOK
<1>5. \A j \in pending_meta' : j \in DOMAIN micro' /\ IsMeta(micro'[j].m)
  BY <1>1 DEF PendingOK
<1>6. QED
  BY <1>3, <1>4, <1>5 DEF PendingOK

-----------------------------------------------------------------------------
(* Every iteration emits, ends with a barrier or a mark, or fails *)

\* What an op that changes the directory emits is a sequence of micro-ops.
LEMMA ShortSeqs ==
    ASSUME NEW x
    PROVE  <<>> \in Seq(Range(<<>>)) /\ <<x>> \in Seq(Range(<<x>>))
<1>1. <<>> \in Seq({}) /\ <<x>> \in Seq({x})
  OBVIOUS
<1>2. QED
  BY <1>1, SeqOfValues

\* The chunks of a write, one per block it touches, are a sequence.
LEMMA ChunksIsSeq ==
    ASSUME NEW ino, NEW offset \in Nat, NEW data, Len(data) \in Nat
    PROVE  Chunks(ino, offset, data) \in Seq(Range(Chunks(ino, offset, data)))
<1> DEFINE end == offset + Len(data)
           first == offset \div BlockSize
           n == IF data = <<>> THEN 0 ELSE (end - 1) \div BlockSize - first + 1
           len == IF n < 0 THEN 0 ELSE n
           cs == Chunks(ino, offset, data)
<1>1. BlockSize \in Nat \ {0}
  BY CompileAssumption
<1>2. end - 1 \in Int /\ first \in Int /\ (end - 1) \div BlockSize \in Int
  BY <1>1
<1>3. n \in Int
  BY <1>2
<1>4. cs = [k \in 1..n |-> cs[k]]
  BY DEF Chunks
<1> HIDE DEF cs, n
<1>5. len \in Nat /\ 1..n = 1..len
  BY <1>3
<1>6. cs = [k \in 1..len |-> cs[k]]
  BY <1>4, <1>5
<1>7. cs \in Seq(Range(cs))
  BY <1>5, <1>6, FunctionIsSeq
<1>8. QED
  BY <1>7 DEF cs

\* What a successful iteration that is no barrier and no mark does.
Emits == \E fs, ms : ms \in Seq(Range(ms)) /\ Emit(fs, ms)

\* What an iteration that returns an error leaves alone.
Stops == UNCHANGED <<profile, micro, op_end, marks_before, pendings>> /\ failed' = TRUE

\* A write has a place and a length (trace.rs, Op::Write).
PlacesData(op) == op.op = "write" => op.offset \in Nat /\ Len(op.data) \in Nat

LEMMA TraceOps == \A op \in Ops : PlacesData(op)
  BY CompileAssumption DEF PlacesData

\* An op that changes the directory either emits or fails.
LEMMA ChangesEmit ==
    ASSUME NEW op, PlacesData(op),
           \/ CreateOrMkdir(op) \/ WriteOp(op) \/ Truncate(op) \/ RenameOp(op)
           \/ UnlinkOrRmdir(op)
    PROVE  Emits \/ Stops
<1>a. Err => Stops
  BY DEF Err, Stops
<1>b. NoEffect => Emits
  BY ShortSeqs DEF NoEffect, Emits
<1>c. ASSUME NEW fs, NEW m, Emit(fs, <<m>>) PROVE Emits
  BY <1>c, ShortSeqs DEF Emits
<1>1. CASE CreateOrMkdir(op)
  BY <1>1, <1>a, <1>b, <1>c DEF CreateOrMkdir
<1>2. CASE WriteOp(op)
  <2> DEFINE ino == Lookup(v, op.path)
             cs == Chunks(ino, op.offset, op.data)
             grow == IF op.offset + Len(op.data) > v[ino].len
                     THEN <<SetLen(ino, op.offset + Len(op.data), TRUE)>> ELSE <<>>
  <2>1. op.op = "write" /\ (Emit(v, cs \o grow) \/ Err)
    BY <1>2 DEF WriteOp
  <2>2. cs \in Seq(Range(cs))
    BY <2>1, ChunksIsSeq DEF PlacesData
  <2>3. grow \in Seq(Range(grow))
    BY ShortSeqs
  <2> HIDE DEF cs, grow
  <2>4. cs \o grow \in Seq(Range(cs \o grow))
    BY <2>2, <2>3, ConcatIs
  <2>5. QED
    BY <2>1, <2>4, <1>a DEF Emits
<1>3. CASE Truncate(op)
  BY <1>3, <1>a, <1>c DEF Truncate
<1>4. CASE RenameOp(op)
  BY <1>4, <1>a, <1>b, <1>c DEF RenameOp
<1>5. CASE UnlinkOrRmdir(op)
  BY <1>5, <1>a, <1>c DEF UnlinkOrRmdir
<1>6. QED
  BY <1>1, <1>2, <1>3, <1>4, <1>5

\* What a barrier or a mark does: flush what it takes off the lists.
Flushes(listed) ==
    /\ Flush(listed)
    /\ \E marks \in Nat : EndOp(marks)
    /\ pending_data' \subseteq pending_data /\ pending_dir' \subseteq pending_dir
    /\ pending_meta' \subseteq pending_meta
    /\ \A e \in (pending_data \ pending_data') \cup (pending_dir \ pending_dir') : e[2] \in listed
    /\ pending_meta \ pending_meta' \subseteq listed

FsyncList(ino) ==
    ListedFor(pending_data, ino) \cup ListedFor(pending_dir, ino)
       \cup JournalCommit

\* Op::Fsync flushes all it takes off the lists, or fails.
LEMMA FsyncFlushes ==
    ASSUME TypeOK, PendingOK, NEW op, Fsync(op)
    PROVE  Flushes(FsyncList(Lookup(v, op.path))) \/ Stops
<1> DEFINE ino == Lookup(v, op.path)
<1>1. CASE Err
  BY <1>1 DEF Err, Stops
<1>2. CASE ~Err
  <2>1. /\ Flush(FsyncList(ino))
        /\ pending_data' = Without(pending_data, ino)
        /\ pending_dir' = Without(pending_dir, ino)
        /\ pending_meta' = pending_meta \ JournalCommit
        /\ EndOp(Marks)
    BY <1>2 DEF Fsync, FsyncList
  <2>2. Marks \in Nat
    BY TablesType
  <2>3. /\ \A e \in pending_data \ Without(pending_data, ino) : e[2] \in ListedFor(pending_data, ino)
        /\ \A e \in pending_dir \ Without(pending_dir, ino) : e[2] \in ListedFor(pending_dir, ino)
        /\ Without(pending_data, ino) \subseteq pending_data
        /\ Without(pending_dir, ino) \subseteq pending_dir
    BY DEF Without, ListedFor
  <2>4. QED
    BY <2>1, <2>2, <2>3 DEF Flushes, FsyncList, JournalCommit
<1>3. QED
  BY <1>1, <1>2

\* Op::Sync flushes everything and empties the lists.
LEMMA SyncFlushes ==
    ASSUME TypeOK, PendingOK, NEW op, Sync(op)
    PROVE  Flushes(DOMAIN micro)
  BY TablesType DEF Sync, Flushes, PendingOK

\* Op::Mark is a barrier that covers nothing.
LEMMA MarkFlushes ==
    ASSUME TypeOK, NEW op, Mark(op)
    PROVE  Flushes({})
<1>1. Marks + 1 \in Nat /\ EndOp(Marks + 1) /\ micro' = micro /\ UNCHANGED pendings
  BY TablesType DEF Mark
<1>2. Flush({})
  BY <1>1 DEF Flush, TypeOK
<1>3. QED
  BY <1>1, <1>2 DEF Flushes, pendings

-----------------------------------------------------------------------------
(* The inductive invariant *)

\* Either the compilation failed or the iteration was one of the two kinds.
LEMMA StepCases ==
    ASSUME TypeOK, PendingOK, NEW op, PlacesData(op), CompileOp(op)
    PROVE  OpIndex < MaxOps /\ (Emits \/ Stops \/ (\E listed : Flushes(listed)))
<1>1. OpIndex < MaxOps
  BY DEF CompileOp
<1>2. CASE \/ CreateOrMkdir(op) \/ WriteOp(op) \/ Truncate(op) \/ RenameOp(op)
           \/ UnlinkOrRmdir(op)
  BY <1>1, <1>2, ChangesEmit
<1>3. CASE Fsync(op)
  BY <1>1, <1>3, FsyncFlushes
<1>4. CASE Sync(op)
  BY <1>1, <1>4, SyncFlushes
<1>5. CASE Mark(op)
  BY <1>1, <1>5, MarkFlushes
<1>6. QED
  BY <1>2, <1>3, <1>4, <1>5 DEF CompileOp

\* Before the first op the tables hold nothing and the lists miss nothing.
Fresh ==
    /\ micro = <<>> /\ op_end = <<0>> /\ marks_before = <<0>>
    /\ pending_data = {} /\ pending_dir = {} /\ pending_meta = {}

LEMMA FreshKeeps ==
    ASSUME Fresh, profile \in Profiles, failed = FALSE
    PROVE  TypeOK /\ PendingOK
<1>1. micro = <<>> /\ op_end = <<0>> /\ marks_before = <<0>> /\ profile \in Profiles
      /\ failed = FALSE
  BY DEF Fresh
<1>2. micro \in Seq(Range(micro)) /\ Len(micro) = 0 /\ DOMAIN micro = {}
  BY <1>1, ShortSeqs
<1>a. /\ op_end \in Seq(Nat) /\ Len(op_end) = 1 /\ op_end[1] = 0
      /\ marks_before \in Seq(Nat) /\ Len(marks_before) = 1
  BY <1>1
<1>b. 1 \in 1..(MaxOps + 1) /\ \A k \in 1..1 : op_end[k] <= 0
  BY <1>a, CompileAssumption
<1>3. TypeOK
  BY <1>1, <1>2, <1>a, <1>b DEF TypeOK
<1>4. PendingOK
  BY <1>2 DEF Fresh, PendingOK
<1>5. QED
  BY <1>3, <1>4

LEMMA InitKeeps ==
    ASSUME Init
    PROVE  TypeOK /\ PendingOK
<1>1. Fresh /\ profile \in Profiles /\ failed = FALSE
  BY DEF Init, Fresh
<1> QED BY <1>1, FreshKeeps

\* Every iteration keeps both.
LEMMA OpKeeps ==
    ASSUME TypeOK, PendingOK, NEW op, PlacesData(op), CompileOp(op)
    PROVE  TypeOK' /\ PendingOK'
<1>1. OpIndex < MaxOps /\ (Emits \/ Stops \/ (\E listed : Flushes(listed)))
  BY StepCases
<1>2. CASE Emits
  <2>1. PICK fs, ms : ms \in Seq(Range(ms)) /\ Emit(fs, ms)
    BY <1>2 DEF Emits
  <2>2. QED
    BY <1>1, <2>1, EmitKeepsTypeOK, EmitKeepsPendingOK
<1>3. CASE Stops
  BY <1>3 DEF Stops, pendings, TypeOK, PendingOK, OpIndex
<1>4. CASE \E listed : Flushes(listed)
  <2>1. PICK listed : Flushes(listed)
    BY <1>4
  <2>2. PICK marks \in Nat : EndOp(marks)
    BY <2>1 DEF Flushes
  <2>3. TypeOK'
    BY <1>1, <2>1, <2>2, EndOpKeepsTypeOK DEF Flushes
  <2>4. PendingOK'
    BY <1>1, <2>1, FlushKeepsPendingOK DEF Flushes
  <2>5. QED
    BY <2>3, <2>4
<1>5. QED
  BY <1>1, <1>2, <1>3, <1>4

LEMMA NextKeeps ==
    ASSUME TypeOK, PendingOK, [Next]_vars
    PROVE  TypeOK' /\ PendingOK'
<1>1. CASE UNCHANGED vars
  BY <1>1 DEF vars, pendings, TypeOK, PendingOK, OpIndex
<1>2. CASE Next
  BY <1>2, TraceOps, OpKeeps DEF Next
<1>3. QED
  BY <1>1, <1>2

\* For every trace, the tables of the compiled program agree with its micro-ops
\* and every micro-op is in the slice of the op that produced it (compile).
THEOREM CompileTypeOK == Spec => []TypeOK
<1>1. Init => TypeOK /\ PendingOK
  BY InitKeeps
<1>2. TypeOK /\ PendingOK /\ [Next]_vars => (TypeOK /\ PendingOK)'
  BY NextKeeps
<1>3. QED
  BY <1>1, <1>2, PTL DEF Spec

\* For every trace, no pending list ever loses a micro-op that is not durable,
\* nor holds one under the wrong inode (compile).
THEOREM CompilePendingOK == Spec => []PendingOK
<1>1. Init => TypeOK /\ PendingOK
  BY InitKeeps
<1>2. TypeOK /\ PendingOK /\ [Next]_vars => (TypeOK /\ PendingOK)'
  BY NextKeeps
<1>3. QED
  BY <1>1, <1>2, PTL DEF Spec

-----------------------------------------------------------------------------
(* The volatile view is the replay of the micro-ops *)

\* The micro-ops, without what compile keeps about them.
Issued == [j \in DOMAIN micro |-> micro[j].m]

Fitting(ms, n) == \A k \in 1..Len(ms) : Fits(ms[k], n)

\* base and v are images of the same inodes, the micro-ops name only those,
\* and replaying them all on base gives v.
ImageOK ==
    /\ IsImage(v) /\ IsImage(base) /\ Len(base) = Len(v) /\ Len(v) # 0
    /\ Issued \in Seq(Range(Issued)) /\ Len(Issued) = Len(micro)
    /\ Fitting(Issued, Len(v))
    /\ Replay(base, Issued) = v

\* The image an iteration emits on: v, or v with the node it creates, which
\* base gets too.
EmitsOn(fs) ==
    \/ fs = v /\ base' = base
    \/ \E node \in {EmptyDir, EmptyFile} : fs = Append(v, node) /\ base' = Append(base, node)

\* Micro-ops that write no bytes.
Plain(ms) == \A k \in 1..Len(ms) : ms[k].kind # "Write" /\ TypedData(ms[k])

\* The size change of a write that ends behind the end of the file.
Grown(ino, end) == IF end > v[ino].len THEN <<SetLen(ino, end, TRUE)>> ELSE <<>>

\* The micro-ops of one write.
Puts(ms) ==
    \E ino \in 1..Len(v), offset \in Nat, data \in Seq(Nat) :
        /\ v[ino].kind = "file"
        /\ ms = Chunks(ino, offset, data) \o Grown(ino, offset + Len(data))

\* An iteration that emits micro-ops that fit.
EmitsFitting(fs, ms) ==
    /\ ms \in Seq(Range(ms)) /\ Fitting(ms, Len(fs)) /\ EmitsOn(fs) /\ Emit(fs, ms)
    /\ Plain(ms) \/ (fs = v /\ Puts(ms))

\* One micro-op that fits, or none.
LEMMA ShortFits ==
    ASSUME NEW n
    PROVE  /\ Fitting(<<>>, n)
           /\ \A m : Fits(m, n) => Fitting(<<m>>, n)
  BY DEF Fitting

\* One micro-op that writes nothing, or none.
LEMMA ShortPlain ==
    /\ Plain(<<>>)
    /\ \A m : m.kind # "Write" /\ TypedData(m) => Plain(<<m>>)
  BY DEF Plain

\* Nothing else of a new node is named yet.
LEMMA NewNodes ==
    ASSUME NEW n \in Nat
    PROVE  IsNode(EmptyDir, n) /\ IsNode(EmptyFile, n)
<1>1. [x \in Names |-> NoIno] \in [Names -> 0..n]
  BY DEF NoIno
<1> QED BY <1>1 DEF IsNode, EmptyDir, EmptyFile

\* An op names its files by paths, its data is bytes and its lengths are numbers.
TypedOp(op) ==
    /\ op.op \notin {"rename", "sync", "mark"} => op.path \in Seq(Names)
    /\ op.op = "rename" => op.from \in Seq(Names) /\ op.to \in Seq(Names)
    /\ op.op = "write" => op.offset \in Nat /\ op.data \in Seq(Nat)
    /\ op.op = "truncate" => op.len \in Nat

\* The ops of a trace are like that.
LEMMA OpsAreTyped == \A op \in Ops : TypedOp(op)
  BY CompileAssumption, PathsAssumption, BytesAssumption DEF TypedOp

\* A new node is linked to its directory.
LinksFitting(op) ==
    EmitsFitting(Append(v, IF op.op = "mkdir" THEN EmptyDir ELSE EmptyFile),
                 <<Link(Lookup(v, Parent(op.path)), BaseName(op.path), Len(v) + 1)>>)

\* create and mkdir add a node and link it.
LEMMA CreateFits ==
    ASSUME ImageOK, NEW op, TypedOp(op), CreateOrMkdir(op), ~failed'
    PROVE  \/ Lookup(v, op.path) # NoIno /\ EmitsFitting(v, <<>>)
           \/ Lookup(v, op.path) = NoIno /\ LinksFitting(op)
<1> DEFINE parent == Lookup(v, Parent(op.path))
           node   == IF op.op = "mkdir" THEN EmptyDir ELSE EmptyFile
           m      == Link(parent, BaseName(op.path), Len(v) + 1)
<1>1. Len(v) \in Nat /\ IsImage(v) /\ Len(v) # 0
  BY ImageShape DEF ImageOK
<1>2. parent \in 0..Len(v)
  <2>1. op.path \in Seq(Names)
    BY DEF TypedOp, CreateOrMkdir
  <2> QED BY <1>1, <2>1, ParentIsPath, LookupIn
<1>3. \/ Lookup(v, op.path) # NoIno /\ Emit(v, <<>>) /\ base' = base
      \/ Lookup(v, op.path) = NoIno /\ Emit(Append(v, node), <<m>>) /\ base' = Append(base, node)
  BY DEF CreateOrMkdir, NoEffect, Err
<1>4. node \in {EmptyDir, EmptyFile} /\ IsNode(node, Len(v) + 1)
  BY <1>1, NewNodes
<1>5. Len(Append(v, node)) = Len(v) + 1
  <2> HIDE DEF node
  <2> QED BY <1>1, Appended
<1>6. Fits(m, Len(v) + 1) /\ m.kind # "Write" /\ TypedData(m)
  <2> HIDE DEF parent
  <2> QED BY <1>1, <1>2 DEF Fits, Link, TypedData
<1> HIDE DEF m, node
<1>7. CASE Lookup(v, op.path) # NoIno /\ Emit(v, <<>>) /\ base' = base
  <2>1. EmitsFitting(v, <<>>)
    BY <1>7, ShortFits, ShortPlain, ShortSeqs DEF EmitsFitting, EmitsOn
  <2> QED BY <1>7, <2>1
<1>8. CASE Lookup(v, op.path) = NoIno /\ Emit(Append(v, node), <<m>>) /\ base' = Append(base, node)
  <2>1. Fitting(<<m>>, Len(Append(v, node)))
    BY <1>5, <1>6, ShortFits
  <2>2. EmitsFitting(Append(v, node), <<m>>)
    BY <1>4, <1>6, <1>8, <2>1, ShortPlain, ShortSeqs DEF EmitsFitting, EmitsOn
  <2>3. LinksFitting(op)
    BY <2>2 DEF LinksFitting, m, node
  <2> QED BY <1>8, <2>3
<1> QED BY <1>3, <1>7, <1>8

\* Every chunk of a write is about the file that is written.
LEMMA ChunksFit ==
    ASSUME NEW n \in Nat, NEW ino \in 1..n, NEW offset \in Nat, NEW data, Len(data) \in Nat
    PROVE  Fitting(Chunks(ino, offset, data), n)
<1> DEFINE cs == Chunks(ino, offset, data)
           end == offset + Len(data)
           first == offset \div BlockSize
           N == IF data = <<>> THEN 0 ELSE (end - 1) \div BlockSize - first + 1
           From(k) == IF k = 1 THEN offset ELSE (first + k - 1) * BlockSize
           To(k)   == IF k = N THEN end ELSE (first + k) * BlockSize
<1>1. cs = [k \in 1..N |-> Write(ino, From(k), SubSeq(data, From(k) - offset + 1, To(k) - offset))]
  BY DEF Chunks
<1>2. \A o, d : Fits(Write(ino, o, d), n)
  BY DEF Fits, Write
<1>3. cs \in Seq(Range(cs))
  BY ChunksIsSeq
<1> HIDE DEF N, From, To, cs
<1>4. \A k \in DOMAIN cs : Fits(cs[k], n)
  BY <1>1, <1>2
<1>5. DOMAIN cs = 1..Len(cs)
  BY <1>3
<1> QED BY <1>4, <1>5 DEF Fitting, cs

\* How many blocks a write touches.
Blocks(offset, data) ==
    IF data = <<>> THEN 0
    ELSE (offset + Len(data) - 1) \div BlockSize - offset \div BlockSize + 1

\* The k-th piece of a write runs from one block border to the next.
AtBorders(m, offset, data, k) ==
    /\ m.offset = IF k = 1 THEN offset ELSE (offset \div BlockSize + k - 1) * BlockSize
    /\ m.offset + Len(m.data) = IF k = Blocks(offset, data) THEN offset + Len(data)
                                ELSE (offset \div BlockSize + k) * BlockSize

\* A write is cut at the block borders: each chunk is a piece of it.
LEMMA ChunksArePieces ==
    ASSUME NEW ino, NEW offset \in Nat, NEW data \in Seq(Nat),
           NEW k \in 1..Len(Chunks(ino, offset, data))
    PROVE  /\ Piece(Chunks(ino, offset, data)[k], ino, offset, data)
           /\ AtBorders(Chunks(ino, offset, data)[k], offset, data, k)
<1> DEFINE b == BlockSize
           cs == Chunks(ino, offset, data)
           end == offset + Len(data)
           first == offset \div b
           last == (end - 1) \div b
           N == IF data = <<>> THEN 0 ELSE last - first + 1
           From(i) == IF i = 1 THEN offset ELSE (first + i - 1) * b
           To(i)   == IF i = N THEN end ELSE (first + i) * b
           Cut(i)  == SubSeq(data, From(i) - offset + 1, To(i) - offset)
<1>1. cs = [i \in 1..N |-> Write(ino, From(i), Cut(i))]
  BY DEF Chunks
<1>2. b \in Nat \ {0}
  BY CompileAssumption
<1>3. k \in DOMAIN cs
  <2>1. cs \in Seq(Range(cs))
    BY ChunksIsSeq
  <2> QED BY <2>1
<1>4. k \in 1..N
  <2> HIDE DEF N, From, Cut
  <2> QED BY <1>1, <1>3
<1>5. data # <<>> /\ Len(data) \in Nat \ {0}
  BY <1>4
<1>6. first \in Nat /\ first * b <= offset /\ offset < first * b + b
  BY <1>2, DivBounds
<1>7. last \in Nat /\ last * b <= end - 1
  <2> DEFINE y == end - 1
  <2>1. y \in Nat
    BY <1>5
  <2> HIDE DEF y
  <2>2. (y \div b) \in Nat /\ (y \div b) * b <= y
    BY <1>2, <2>1, DivBounds
  <2> QED BY <2>2 DEF y
<1>8. N = last - first + 1
  BY <1>5
<1> DEFINE from == From(k)
           to   == To(k)
<1>9. cs[k] = Write(ino, from, SubSeq(data, from - offset + 1, to - offset))
  <2> HIDE DEF N
  <2> QED BY <1>1, <1>4
<1> HIDE DEF b, last, first, N, cs
<1>10. offset <= from /\ from <= end - 1 /\ from \in Nat
  <2>1. CASE k = 1
    BY <1>5, <2>1
  <2>2. CASE k # 1
    <3> DEFINE j == first + k - 1
    <3>1. j \in Nat /\ first + 1 <= j /\ j <= last /\ from = j * b /\ first + 1 \in Nat
      BY <1>4, <1>6, <1>7, <1>8, <2>2
    <3> HIDE DEF j
    <3> DEFINE i == first + 1
    <3>2. (first + 1) * b <= j * b /\ j * b <= last * b /\ j * b \in Nat
      <4>1. i \in Nat /\ i <= j
        BY <3>1
      <4>2. b \in Nat
        BY <1>2
      <4> HIDE DEF i
      <4>3. i * b <= j * b /\ j * b \in Nat
        BY <3>1, <4>1, <4>2, MultiplesAscend
      <4>4. j * b <= last * b
        BY <1>7, <3>1, <4>2, MultiplesAscend
      <4> QED BY <4>3, <4>4 DEF i
    <3>3. (first + 1) * b = first * b + b
      BY <1>2, <1>6
    <3> HIDE DEF from
    <3>4. first * b \in Nat /\ last * b \in Nat /\ b \in Nat /\ end \in Nat
      BY <1>2, <1>6, <1>7, <1>5
    <3> QED BY <1>6, <1>7, <3>1, <3>2, <3>3, <3>4
  <2> QED BY <2>1, <2>2
<1>11. from <= to /\ to <= end /\ to \in Nat
  <2>1. CASE k = N
    BY <1>5, <1>10, <2>1
  <2>2. CASE k # N
    <3> DEFINE j == first + k
    <3>1. j \in Nat /\ j <= last /\ to = j * b
      BY <1>4, <1>6, <1>7, <1>8, <2>2
    <3>2. j * b <= last * b /\ j * b \in Nat
      <4> HIDE DEF j
      <4> QED BY <1>2, <1>7, <3>1, MultiplesAscend
    <3>3. from <= j * b
      <4>1. CASE k = 1
        <5>1. j = first + 1 /\ from = offset /\ first * b \in Nat /\ b \in Nat
          BY <1>2, <1>6, <4>1
        <5>2. (first + 1) * b = first * b + b
          BY <1>2, <1>6
        <5> HIDE DEF j, from
        <5> QED BY <1>6, <5>1, <5>2
      <4>2. CASE k # 1
        <5> DEFINE i == first + k - 1
        <5>1. i \in Nat /\ i <= j /\ from = i * b
          BY <1>4, <1>6, <4>2
        <5> HIDE DEF i, j
        <5> QED BY <1>2, <3>1, <5>1, MultiplesAscend
      <4> QED BY <4>1, <4>2
    <3> HIDE DEF j, from, to
    <3>4. last * b \in Nat /\ end \in Nat
      BY <1>2, <1>7, <1>5
    <3> QED BY <1>7, <3>1, <3>2, <3>3, <3>4
  <2> QED BY <2>1, <2>2
<1> HIDE DEF from, to
<1> DEFINE a == from - offset + 1
           z == to - offset
           d == SubSeq(data, a, z)
<1>12. a \in Nat /\ z \in Nat /\ 1 <= a /\ z <= Len(data) /\ z - a + 1 = to - from
       /\ a <= z + 1
  BY <1>10, <1>11
<1>13. /\ d \in Seq(Nat) /\ Len(d) = to - from
       /\ \A i \in 1..Len(d) : d[i] = data[a + i - 1]
  <2> HIDE DEF a, z
  <2>1. d \in Seq(Nat)
    BY <1>12
  <2>2. Len(d) = z - a + 1
    BY <1>12
  <2>3. \A i \in 1..(z - a + 1) : d[i] = data[a + i - 1]
    BY <1>12
  <2> HIDE DEF d
  <2> QED BY <1>12, <2>1, <2>2, <2>3
<1>14. cs[k].kind = "Write" /\ cs[k].ino = ino /\ cs[k].offset = from /\ cs[k].data = d
  <2> HIDE DEF a, z, d
  <2>1. cs[k] = Write(ino, from, d)
    BY <1>9 DEF d, a, z
  <2> QED BY <2>1 DEF Write
<1>15. \A i \in 1..Len(d) : d[i] = data[(from - offset) + i]
  <2>1. ASSUME NEW i \in 1..Len(d) PROVE a + i - 1 = (from - offset) + i
    <3> HIDE DEF d
    <3> QED BY <1>10, <1>13
  <2> HIDE DEF a, d
  <2> QED BY <1>13, <2>1
<1>16. from + Len(d) = to
  <2> HIDE DEF d
  <2> QED BY <1>10, <1>11, <1>13
<1> HIDE DEF d
<1>17. Piece(cs[k], ino, offset, data)
  BY <1>10, <1>11, <1>13, <1>14, <1>15, <1>16 DEF Piece
<1>18. N = Blocks(offset, data)
  BY DEF N, Blocks, last, first, b
<1>19. cs[k].offset = IF k = 1 THEN offset ELSE (offset \div BlockSize + k - 1) * BlockSize
  BY <1>14 DEF from, first, b
<1>20. cs[k].offset + Len(cs[k].data) = IF k = Blocks(offset, data) THEN offset + Len(data)
                                        ELSE (offset \div BlockSize + k) * BlockSize
  <2>1. cs[k].offset + Len(cs[k].data) = to
    BY <1>14, <1>16
  <2>2. to = IF k = N THEN offset + Len(data) ELSE (offset \div BlockSize + k) * BlockSize
    BY DEF to, first, b
  <2> QED BY <1>18, <2>1, <2>2
<1>21. AtBorders(cs[k], offset, data, k)
  BY <1>19, <1>20 DEF AtBorders
<1> QED BY <1>17, <1>21 DEF cs

\* The micro-op m writes the k-th byte of its file.
Covers(m, k) == m.offset < k /\ k <= m.offset + Len(m.data)

\* No byte of a write is left out.
LEMMA ChunksCover ==
    ASSUME NEW ino, NEW offset \in Nat, NEW data \in Seq(Nat), NEW i \in 1..Len(data)
    PROVE  \E k \in 1..Len(Chunks(ino, offset, data)) : Covers(Chunks(ino, offset, data)[k], offset + i)
<1> DEFINE b == BlockSize
           cs == Chunks(ino, offset, data)
           end == offset + Len(data)
           y == end - 1
           pos == offset + i - 1
           first == offset \div b
           last == y \div b
           q == pos \div b
           k == q - first + 1
           N == Blocks(offset, data)
<1>1. b \in Nat \ {0}
  BY CompileAssumption
<1>2. /\ Len(data) \in Nat /\ data # <<>> /\ end \in Nat /\ y \in Nat /\ pos \in Nat
      /\ offset <= pos /\ pos <= y /\ end = y + 1
  OBVIOUS
<1>3. N = last - first + 1
  BY <1>2 DEF Blocks
<1>4. Len(cs) = N
  <2> DEFINE G(j) == Write(ino, IF j = 1 THEN offset ELSE (first + j - 1) * b,
                           SubSeq(data, (IF j = 1 THEN offset ELSE (first + j - 1) * b) - offset + 1,
                                  (IF j = N THEN end ELSE (first + j) * b) - offset))
  <2>1. cs = [j \in 1..N |-> G(j)]
    BY DEF Chunks, Blocks
  <2>2. first \in Nat /\ last \in Nat
    <3> HIDE DEF y
    <3> QED BY <1>1, <1>2, DivBounds
  <2>3. N \in Int
    BY <1>3, <2>2
  <2>4. cs \in Seq(Range(cs)) /\ DOMAIN cs = 1..N
    <3>1. cs \in Seq(Range(cs))
      BY ChunksIsSeq
    <3> HIDE DEF N, G
    <3> QED BY <2>1, <3>1
  <2>5. N \in Nat
    <3>1. first * b <= offset /\ y < last * b + b
      <4> HIDE DEF y
      <4> QED BY <1>1, <1>2, DivBounds
    <3>2. ASSUME last + 1 < first PROVE FALSE
      <4> DEFINE l == last + 1
      <4>1. l \in Nat /\ l <= first /\ b \in Nat
        BY <1>1, <2>2, <3>2
      <4> HIDE DEF l, first, last, y
      <4>2. l * b <= first * b /\ first * b \in Nat /\ last * b \in Nat
        BY <2>2, <4>1, MultiplesAscend
      <4>3. l * b = last * b + b
        BY <2>2, <4>1 DEF l
      <4> QED BY <1>2, <3>1, <4>1, <4>2, <4>3
    <3> HIDE DEF first, last, y
    <3> QED BY <1>3, <2>2, <3>2
  <2> HIDE DEF cs, N
  <2> QED BY <2>4, <2>5
<1> HIDE DEF b, y, pos, first, last, q, N
<1>5. /\ first \in Nat /\ first * b <= offset /\ offset < first * b + b
      /\ last \in Nat /\ last * b <= y /\ y < last * b + b
      /\ q \in Nat /\ q * b <= pos /\ pos < q * b + b
      /\ first * b \in Nat /\ last * b \in Nat /\ q * b \in Nat
  <2>1. first \in Nat /\ first * b <= offset /\ offset < first * b + b /\ first * b \in Nat
    BY <1>1, DivBounds DEF first
  <2>2. last \in Nat /\ last * b <= y /\ y < last * b + b /\ last * b \in Nat
    BY <1>1, <1>2, DivBounds DEF last
  <2>3. q \in Nat /\ q * b <= pos /\ pos < q * b + b /\ q * b \in Nat
    BY <1>1, <1>2, DivBounds DEF q
  <2> QED BY <2>1, <2>2, <2>3
<1>6. first <= q
  <2>1. ASSUME q < first PROVE FALSE
    <3> DEFINE l == q + 1
    <3>1. l \in Nat /\ l <= first /\ b \in Nat
      BY <1>1, <1>5, <2>1
    <3>2. l * b = q * b + b
      BY <1>5, <3>1
    <3> HIDE DEF l
    <3>3. l * b <= first * b
      BY <1>5, <3>1, MultiplesAscend
    <3> QED BY <1>2, <1>5, <3>1, <3>2, <3>3
  <2> QED BY <1>5, <2>1
<1>7. q <= last
  <2>1. ASSUME last < q PROVE FALSE
    <3> DEFINE l == last + 1
    <3>1. l \in Nat /\ l <= q /\ b \in Nat
      BY <1>1, <1>5, <2>1
    <3>2. l * b = last * b + b
      BY <1>5, <3>1
    <3> HIDE DEF l
    <3>3. l * b <= q * b
      BY <1>5, <3>1, MultiplesAscend
    <3> QED BY <1>2, <1>5, <3>1, <3>2, <3>3
  <2> QED BY <1>5, <2>1
<1>8. k \in 1..Len(cs) /\ first + k - 1 = q /\ first + k = q + 1 /\ N \in Nat
  BY <1>3, <1>4, <1>5, <1>6, <1>7
<1> HIDE DEF k
<1>9. AtBorders(cs[k], offset, data, k) /\ Piece(cs[k], ino, offset, data)
  BY <1>8, ChunksArePieces
<1>10. cs[k].offset <= pos
  <2>1. cs[k].offset = IF k = 1 THEN offset ELSE (first + k - 1) * b
    BY <1>9 DEF AtBorders, first, b
  <2> QED BY <1>2, <1>5, <1>8, <2>1
<1>11. pos < cs[k].offset + Len(cs[k].data)
  <2>1. cs[k].offset + Len(cs[k].data) = IF k = N THEN end ELSE (first + k) * b
    BY <1>9 DEF AtBorders, first, b, N
  <2>2. CASE k = N
    BY <1>2, <2>1, <2>2
  <2>3. CASE k # N
    <3>1. cs[k].offset + Len(cs[k].data) = (q + 1) * b
      BY <1>8, <2>1, <2>3
    <3>2. (q + 1) * b = q * b + b
      BY <1>1, <1>5
    <3> QED BY <1>5, <3>1, <3>2
  <2> QED BY <2>2, <2>3
<1>12. cs[k].offset \in Nat /\ Len(cs[k].data) \in Nat
  BY <1>9 DEF Piece
<1>13. Covers(cs[k], offset + i)
  <2> HIDE DEF cs
  <2> QED BY <1>2, <1>10, <1>11, <1>12 DEF Covers, pos
<1> QED BY <1>8, <1>13

\* A sequence that fits and one more that fits.
LEMMA BothFit ==
    ASSUME NEW n, NEW ms, ms \in Seq(Range(ms)), Fitting(ms, n),
           NEW mt, mt \in Seq(Range(mt)), Fitting(mt, n)
    PROVE  Fitting(ms \o mt, n)
<1>1. Len(ms) \in Nat /\ Len(mt) \in Nat
  OBVIOUS
<1>2. /\ Len(ms \o mt) = Len(ms) + Len(mt)
      /\ \A k \in 1..(Len(ms) + Len(mt)) :
            (ms \o mt)[k] = IF k <= Len(ms) THEN ms[k] ELSE mt[k - Len(ms)]
  BY ConcatIs
<1> QED BY <1>1, <1>2 DEF Fitting

\* c pieces that leave no byte out, then the size change if the write ends behind
\* the end of the file.
CutInto(ms, ino, offset, data, c) ==
    /\ \A k \in 1..c : k <= Len(ms) /\ Piece(ms[k], ino, offset, data)
    /\ \A i \in 1..Len(data) : \E k \in 1..c : Covers(ms[k], offset + i)
    /\ IF offset + Len(data) > v[ino].len
       THEN Len(ms) = c + 1 /\ ms[c + 1] = SetLen(ino, offset + Len(data), TRUE)
       ELSE Len(ms) = c

\* The pieces are micro-ops of the list.
LEMMA CutPieces ==
    ASSUME NEW ms, Len(ms) \in Nat, NEW ino, NEW offset, NEW data, NEW c \in Nat,
           CutInto(ms, ino, offset, data, c)
    PROVE  \A k \in 1..c : k \in 1..Len(ms) /\ Piece(ms[k], ino, offset, data)
<1>1. \A k \in 1..c : k <= Len(ms) /\ Piece(ms[k], ino, offset, data)
  BY DEF CutInto
<1> TAKE k \in 1..c
<1>2. k \in 1..Len(ms)
  BY <1>1
<1> QED BY <1>1, <1>2

\* The micro-ops of a write are these.
LEMMA PutsShape ==
    ASSUME NEW ino, NEW offset \in Nat, NEW data \in Seq(Nat),
           NEW ms, ms = Chunks(ino, offset, data) \o Grown(ino, offset + Len(data))
    PROVE  \E c \in Nat : CutInto(ms, ino, offset, data, c)
<1> DEFINE cs == Chunks(ino, offset, data)
           end == offset + Len(data)
           grow == Grown(ino, end)
           c == Len(cs)
<1>1. cs \in Seq(Range(cs))
  BY ChunksIsSeq
<1>2. \A k \in 1..c : Piece(cs[k], ino, offset, data)
  BY ChunksArePieces
<1>a. \A i \in 1..Len(data) : \E k \in 1..c : Covers(cs[k], offset + i)
  BY ChunksCover
<1>3. grow \in Seq(Range(grow))
  BY ShortSeqs DEF Grown
<1>4. ms = cs \o grow
  OBVIOUS
<1>5. IF end > v[ino].len THEN Len(grow) = 1 /\ grow[1] = SetLen(ino, end, TRUE) ELSE Len(grow) = 0
  <2> HIDE DEF end
  <2> QED BY DEF Grown
<1> HIDE DEF cs, grow, end
<1>6. c \in Nat /\ Len(grow) \in Nat
  BY <1>1, <1>3
<1>7. /\ Len(ms) = c + Len(grow)
      /\ \A k \in 1..(c + Len(grow)) : ms[k] = IF k <= c THEN cs[k] ELSE grow[k - c]
  BY <1>1, <1>3, <1>4, ConcatIs
<1> HIDE DEF c
<1>8. \A k \in 1..c : k <= Len(ms) /\ ms[k] = cs[k]
  BY <1>6, <1>7
<1>b. \A i \in 1..Len(data) : \E k \in 1..c : Covers(ms[k], offset + i)
  BY <1>8, <1>a
<1>9. CASE end > v[ino].len
  <2>1. Len(grow) = 1 /\ grow[1] = SetLen(ino, end, TRUE)
    BY <1>5, <1>9
  <2>2. c + 1 \in 1..(c + Len(grow)) /\ ~(c + 1 <= c) /\ (c + 1) - c = 1
    BY <1>6, <2>1
  <2>3. ms[c + 1] = grow[1] /\ Len(ms) = c + 1
    BY <1>7, <2>1, <2>2
  <2>4. CutInto(ms, ino, offset, data, c)
    BY <1>2, <1>8, <1>b, <1>9, <2>1, <2>3 DEF end, CutInto
  <2> QED BY <1>6, <2>4
<1>10. CASE ~(end > v[ino].len)
  <2>0. Len(grow) = 0
    BY <1>5, <1>10
  <2>1. Len(ms) = c
    <3>1. Len(ms) = c + Len(grow)
      BY <1>7
    <3> QED BY <1>6, <2>0, <3>1
  <2>2. CutInto(ms, ino, offset, data, c)
    BY <1>2, <1>8, <1>b, <1>10, <2>1 DEF end, CutInto
  <2> QED BY <1>6, <2>2
<1> QED BY <1>9, <1>10

\* write and truncate are about a file there is.
LEMMA FileFits ==
    ASSUME ImageOK, NEW op, TypedOp(op), WriteOp(op) \/ Truncate(op), ~failed'
    PROVE  /\ ~Err /\ base' = base /\ Len(v) \in Nat
           /\ Lookup(v, op.path) \in 1..Len(v) /\ IsFile(v, Lookup(v, op.path))
           /\ \A len, keep : Fits(SetLen(Lookup(v, op.path), len, keep), Len(v))
<1> DEFINE ino == Lookup(v, op.path)
<1>1. Len(v) \in Nat /\ IsImage(v) /\ Len(v) # 0
  BY ImageShape DEF ImageOK
<1>2. ino \in 0..Len(v)
  <2>1. op.path \in Seq(Names)
    BY DEF TypedOp, WriteOp, Truncate
  <2> QED BY <1>1, <2>1, LookupIn
<1>3. ~Err
  BY DEF Err
<1>4. IsFile(v, ino) /\ base' = base
  BY <1>3 DEF WriteOp, Truncate
<1>5. ino \in 1..Len(v)
  BY <1>2, <1>4 DEF IsFile, NoIno
<1>6. \A len, keep : Fits(SetLen(ino, len, keep), Len(v))
  BY <1>5 DEF Fits, SetLen
<1> QED BY <1>1, <1>3, <1>4, <1>5, <1>6

\* A write emits its chunks, and the new size when the file grows.
WriteFitting(op) ==
    EmitsFitting(v, Chunks(Lookup(v, op.path), op.offset, op.data) \o
                    Grown(Lookup(v, op.path), op.offset + Len(op.data)))

\* compile's match on a write: the pieces, then the size.
LEMMA WriteFits ==
    ASSUME ImageOK, NEW op, TypedOp(op), WriteOp(op), ~failed'
    PROVE  WriteFitting(op)
<1> DEFINE ino == Lookup(v, op.path)
           cs == Chunks(ino, op.offset, op.data)
           grow == Grown(ino, op.offset + Len(op.data))
<1>1. /\ ~Err /\ base' = base /\ Len(v) \in Nat /\ ino \in 1..Len(v) /\ IsFile(v, ino)
      /\ \A len, keep : Fits(SetLen(ino, len, keep), Len(v))
  BY FileFits
<1>2. op.op = "write" /\ Emit(v, cs \o grow)
  BY <1>1 DEF WriteOp, Grown
<1>3. op.offset \in Nat /\ op.data \in Seq(Nat) /\ Len(op.data) \in Nat
  BY <1>2 DEF TypedOp
<1>4. cs \in Seq(Range(cs)) /\ Fitting(cs, Len(v))
  <2> HIDE DEF ino
  <2> QED BY <1>1, <1>3, ChunksIsSeq, ChunksFit
<1>5. grow \in Seq(Range(grow)) /\ Fitting(grow, Len(v))
  BY <1>1, ShortSeqs, ShortFits DEF Grown
<1>6. Puts(cs \o grow)
  BY <1>1, <1>3 DEF Puts, IsFile
<1> HIDE DEF cs, grow
<1>7. cs \o grow \in Seq(Range(cs \o grow)) /\ Fitting(cs \o grow, Len(v))
  BY <1>4, <1>5, ConcatIs, BothFit
<1>8. EmitsFitting(v, cs \o grow)
  BY <1>1, <1>2, <1>6, <1>7 DEF EmitsFitting, EmitsOn
<1> QED BY <1>8 DEF WriteFitting, cs, grow

\* truncate emits the new size.
LEMMA TruncateFits ==
    ASSUME ImageOK, NEW op, TypedOp(op), Truncate(op), ~failed'
    PROVE  EmitsFitting(v, <<SetLen(Lookup(v, op.path), op.len, FALSE)>>)
<1> DEFINE ino == Lookup(v, op.path)
<1>1. /\ ~Err /\ base' = base /\ \A len, keep : Fits(SetLen(ino, len, keep), Len(v))
  BY FileFits
<1>2. Emit(v, <<SetLen(ino, op.len, FALSE)>>)
  BY <1>1 DEF Truncate
<1>3. Fitting(<<SetLen(ino, op.len, FALSE)>>, Len(v))
  BY <1>1, ShortFits
<1>4. Plain(<<SetLen(ino, op.len, FALSE)>>)
  <2>1. op.len \in Nat
    BY DEF TypedOp, Truncate
  <2> HIDE DEF ino
  <2>2. SetLen(ino, op.len, FALSE).kind # "Write" /\ TypedData(SetLen(ino, op.len, FALSE))
    BY <2>1 DEF SetLen, TypedData
  <2> QED BY <2>2, ShortPlain
<1> QED BY <1>1, <1>2, <1>3, <1>4, ShortSeqs DEF EmitsFitting, EmitsOn

\* write emits its chunks and the size change, truncate a size change.
LEMMA DataFits ==
    ASSUME ImageOK, NEW op, TypedOp(op), WriteOp(op) \/ Truncate(op), ~failed'
    PROVE  \E fs, ms : EmitsFitting(fs, ms)
<1>1. CASE WriteOp(op)
  BY <1>1, WriteFits DEF WriteFitting
<1>2. CASE Truncate(op)
  BY <1>2, TruncateFits
<1> QED BY <1>1, <1>2

\* rename and unlink change entries of directories there are.
LEMMA EntriesFit ==
    ASSUME ImageOK, NEW op, TypedOp(op), RenameOp(op) \/ UnlinkOrRmdir(op), ~failed'
    PROVE  \E fs, ms : EmitsFitting(fs, ms)
<1>1. Len(v) \in Nat /\ IsImage(v) /\ Len(v) # 0
  BY ImageShape DEF ImageOK
<1>2. ~Err
  BY DEF Err
<1>a. ASSUME NEW m, m.kind \in {"Rename", "Unlink"}, Fits(m, Len(v)), Emit(v, <<m>>), base' = base
      PROVE  EmitsFitting(v, <<m>>)
  <2>1. Plain(<<m>>)
    BY <1>a, ShortPlain DEF TypedData
  <2> QED BY <1>a, <2>1, ShortFits, ShortSeqs DEF EmitsFitting, EmitsOn
<1>b. ASSUME NoEffect PROVE EmitsFitting(v, <<>>)
  BY <1>b, ShortFits, ShortPlain, ShortSeqs DEF EmitsFitting, EmitsOn, NoEffect
<1>3. CASE RenameOp(op)
  <2> DEFINE ino    == Lookup(v, op.from)
             target == Lookup(v, op.to)
             fp     == Lookup(v, Parent(op.from))
             tp     == Lookup(v, Parent(op.to))
             m      == Rename(fp, BaseName(op.from), tp, BaseName(op.to), ino, target # NoIno)
  <2>1. op.from \in Seq(Names) /\ op.to \in Seq(Names)
    BY <1>3 DEF TypedOp, RenameOp
  <2>2. ino \in 0..Len(v) /\ fp \in 0..Len(v) /\ tp \in 0..Len(v)
    BY <1>1, <2>1, ParentIsPath, LookupIn
  <2>3. NoEffect \/ (ino # NoIno /\ Emit(v, <<m>>) /\ base' = base)
    BY <1>2, <1>3 DEF RenameOp
  <2>4. m.kind = "Rename" /\ (ino # NoIno => Fits(m, Len(v)))
    <3> HIDE DEF ino, fp, tp, target
    <3> QED BY <1>1, <2>2 DEF Fits, Rename, NoIno
  <2> QED BY <1>a, <1>b, <2>3, <2>4
<1>4. CASE UnlinkOrRmdir(op)
  <2> DEFINE parent == Lookup(v, Parent(op.path))
             m == Unlink(parent, BaseName(op.path))
  <2>1. op.path \in Seq(Names)
    BY <1>4 DEF TypedOp, UnlinkOrRmdir
  <2>2. parent \in 0..Len(v)
    BY <1>1, <2>1, ParentIsPath, LookupIn
  <2>3. Emit(v, <<m>>) /\ base' = base
    BY <1>2, <1>4 DEF UnlinkOrRmdir
  <2>4. Fits(m, Len(v)) /\ m.kind = "Unlink"
    <3> HIDE DEF parent
    <3> QED BY <2>2 DEF Fits, Unlink
  <2> QED BY <1>a, <2>3, <2>4
<1> QED BY <1>3, <1>4

\* A micro-op that fits an image fits a longer one.
LEMMA FitsLonger ==
    ASSUME NEW n \in Nat, NEW k \in Nat, n <= k, NEW m, Fits(m, n)
    PROVE  Fits(m, k)
  BY DEF Fits

\* What is emitted is replayed on top of what was.
LEMMA EmitKeepsImage ==
    ASSUME TypeOK, ImageOK, NEW fs, NEW ms, EmitsFitting(fs, ms)
    PROVE  ImageOK'
<1> DEFINE old == Issued
           new == Issued'
           a == Len(micro)
           b == Len(ms)
<1>1. /\ a \in Nat /\ DOMAIN micro = 1..a /\ b \in Nat
      /\ Len(micro') = a + b /\ DOMAIN micro' = 1..(a + b)
      /\ \A j \in 1..a : micro'[j] = micro[j]
      /\ \A j \in New(ms) : micro'[j] = [m |-> NewMicro(ms, j), op |-> OpIndex,
                                         durable_at |-> NEVER]
  BY TablesType, EmitMicro DEF EmitsFitting
<1>2. old = [j \in 1..a |-> micro[j].m] /\ new = [j \in 1..(a + b) |-> micro'[j].m]
  BY <1>1 DEF Issued
<1>3. new \in Seq(Range(new)) /\ Len(new) = a + b
  <2>1. new = [j \in 1..(a + b) |-> new[j]]
    BY <1>2
  <2> HIDE DEF new, a, b
  <2> QED BY <1>1, <2>1, FunctionIsSeq
<1>4. Len(old) = a /\ Fitting(old, Len(v)) /\ \A j \in 1..a : new[j] = old[j]
  BY <1>1, <1>2 DEF ImageOK
<1>5. ASSUME NEW j \in 1..b PROVE new[a + j] = ms[j]
  <2>1. a + j \in New(ms) /\ (a + j) - a = j /\ a + j \in 1..(a + b)
    BY <1>1 DEF New
  <2>2. micro'[a + j].m = NewMicro(ms, a + j)
    <3>1. micro'[a + j] = [m |-> NewMicro(ms, a + j), op |-> OpIndex, durable_at |-> NEVER]
      BY <1>1, <2>1
    <3> QED BY <3>1
  <2> QED BY <1>2, <2>1, <2>2 DEF NewMicro
<1>6. Follows(new, old, ms)
  <2>1. \A k \in 1..a : new[k] = old[k]
    BY <1>4
  <2> HIDE DEF new, old
  <2> QED BY <1>3, <1>4, <1>5, <2>1 DEF Follows, Joins
<1> HIDE DEF new, old
<1>7. IsImage(v) /\ Len(v) \in Nat /\ IsImage(base) /\ Len(base) = Len(v) /\ Len(v) # 0
  BY ImageShape DEF ImageOK
<1>8. ApplyAll(base, old, 1..a) = v
  <2>1. DOMAIN old = 1..a
    BY <1>2
  <2> QED BY <2>1 DEF ImageOK, Replay, old
<1>9. /\ IsImage(fs) /\ IsImage(base') /\ Len(base') = Len(fs) /\ Len(fs) \in Nat
      /\ Len(v) <= Len(fs) /\ Len(fs) # 0
      /\ ApplyAll(base', old, 1..a) = fs
  <2>1. CASE fs = v /\ base' = base
    BY <1>7, <1>8, <2>1
  <2>2. CASE ~(fs = v /\ base' = base)
    <3>1. PICK node : /\ IsNode(node, Len(v) + 1)
                      /\ fs = Append(v, node) /\ base' = Append(base, node)
      BY <1>7, <2>2, NewNodes DEF EmitsFitting, EmitsOn
    <3>2. IsImage(fs) /\ Len(fs) = Len(v) + 1
      BY <1>7, <3>1, Appended
    <3>3. IsImage(base') /\ Len(base') = Len(v) + 1
      BY <1>7, <3>1, Appended
    <3>4. RunFits(base, old, 1..a, Len(old)) /\ Len(old) \in Nat
      BY <1>1, <1>4, <1>7 DEF RunFits, Fitting
    <3>5. ApplyAll(Append(base, node), old, 1..a) = Append(ApplyAll(base, old, 1..a), node)
      BY <1>7, <3>4, RunFrame
    <3> QED BY <1>7, <1>8, <3>1, <3>2, <3>3, <3>5
  <2> QED BY <2>1, <2>2
<1>10. v' = ApplyAll(fs, ms, 1..b)
  <2>1. DOMAIN ms = 1..b
    BY DEF EmitsFitting
  <2> QED BY <2>1 DEF EmitsFitting, Emit, Replay
<1>11. IsImage(v') /\ Len(v') = Len(fs)
  <2>1. RunFits(fs, ms, 1..b, Len(ms)) /\ Len(ms) \in Nat
    BY <1>1 DEF RunFits, EmitsFitting, Fitting
  <2> QED BY <1>9, <1>10, <2>1, ApplyAllKeeps
<1>12. ApplyAll(base', new, 1..Len(new)) = v'
  <2>1. Len(old) \in Nat /\ Len(ms) \in Nat
    BY <1>1, <1>4
  <2>2. ApplyAll(base', new, 1..Len(new)) =
            ApplyAll(ApplyAll(base', old, 1..Len(old)), ms, 1..Len(ms))
    BY <1>6, <2>1, RunConcat
  <2> QED BY <1>4, <1>9, <1>10, <2>2
<1>13. Fitting(new, Len(v'))
  <2>1. ASSUME NEW k \in 1..(a + b) PROVE Fits(new[k], Len(fs))
    <3>1. CASE k \in 1..a
      <4>1. Fits(old[k], Len(v)) /\ new[k] = old[k]
        BY <1>4, <3>1 DEF Fitting
      <4> QED BY <1>7, <1>9, <4>1, FitsLonger
    <3>2. CASE k \notin 1..a
      <4>1. k - a \in 1..b /\ a + (k - a) = k
        BY <1>1, <3>2
      <4>2. new[k] = ms[k - a]
        BY <1>5, <4>1
      <4>3. Fits(ms[k - a], Len(fs))
        BY <4>1 DEF EmitsFitting, Fitting
      <4> QED BY <4>2, <4>3
    <3> QED BY <3>1, <3>2
  <2> QED BY <1>3, <1>11, <2>1 DEF Fitting
<1>14. Replay(base', new) = v'
  <2>1. DOMAIN new = 1..Len(new)
    BY <1>3
  <2> QED BY <1>12, <2>1 DEF Replay
<1> QED BY <1>1, <1>3, <1>9, <1>11, <1>13, <1>14 DEF ImageOK, new

\* Stamping micro-ops durable changes none of them.
LEMMA FlushKeepsImage ==
    ASSUME TypeOK, ImageOK, NEW listed, Flushes(listed)
    PROVE  ImageOK'
<1>1. Issued' = Issued /\ Len(micro') = Len(micro)
  BY FlushMicro DEF Flushes, Issued
<1>2. v' = v /\ base' = base
  BY DEF Flushes, EndOp
<1> QED BY <1>1, <1>2 DEF ImageOK

\* Before the first op there is an image and nothing to replay.
LEMMA FreshImage ==
    ASSUME IsImage(base), Len(base) # 0, v = base, micro = <<>>
    PROVE  ImageOK
<1>1. Issued = [j \in 1..0 |-> Issued[j]] /\ DOMAIN Issued = {}
  BY DEF Issued
<1>2. Issued \in Seq(Range(Issued)) /\ Len(Issued) = 0
  BY <1>1, FunctionIsSeq
<1>3. Fitting(Issued, Len(v))
  BY <1>2 DEF Fitting
<1>4. Replay(base, Issued) = base
  <2>1. Len(Issued) \in Nat
    BY <1>2
  <2>2. PICK f : Steps(f, base, Issued, {}, Len(Issued)) /\ ApplyAll(base, Issued, {}) = f[Len(Issued)]
    BY <2>1, ApplyAllRun
  <2> QED BY <1>1, <1>2, <2>2 DEF Steps, Replay
<1> QED BY <1>2, <1>3, <1>4 DEF ImageOK

\* It is the image of the snapshot.
LEMMA InitImage == Init => ImageOK
<1> SUFFICES ASSUME Init PROVE ImageOK
  OBVIOUS
<1>1. PICK tree \in InitialTrees : base = FromTree(tree)
  BY DEF Init
<1>2. IsImage(base) /\ Len(base) # 0 /\ v = base /\ micro = <<>>
  BY <1>1, PathsAssumption, BytesAssumption, FromTreeIsImage DEF Init
<1> QED BY <1>2, FreshImage

\* An iteration emits what fits, ends with a barrier or a mark, or changes
\* neither image nor the micro-ops.
OpFits ==
    \/ v' = v /\ base' = base /\ micro' = micro
    \/ \E fs, ms : EmitsFitting(fs, ms)
    \/ \E listed : Flushes(listed)

LEMMA IterationFits ==
    ASSUME TypeOK, PendingOK, ImageOK, NEW op, TypedOp(op), CompileOp(op)
    PROVE  OpFits
<1>1. CASE failed'
  <2>1. Err
    BY <1>1 DEF CompileOp, CreateOrMkdir, NoEffect, Emit, WriteOp, Truncate, RenameOp,
          UnlinkOrRmdir, Fsync, Sync, Mark, EndOp
  <2> QED BY <2>1 DEF Err, OpFits
<1>2. CASE ~failed'
  <2>1. CASE \/ CreateOrMkdir(op) \/ WriteOp(op) \/ Truncate(op) \/ RenameOp(op)
             \/ UnlinkOrRmdir(op)
    BY <1>2, <2>1, CreateFits, DataFits, EntriesFit DEF OpFits, LinksFitting
  <2>2. CASE Fsync(op) \/ Sync(op) \/ Mark(op)
    <3>1. ~Stops
      BY <1>2 DEF Stops
    <3> QED BY <2>2, <3>1, FsyncFlushes, SyncFlushes, MarkFlushes DEF OpFits
  <2> QED BY <2>1, <2>2 DEF CompileOp
<1> QED BY <1>1, <1>2

\* So does a step of compile.
LEMMA StepFits ==
    ASSUME TypeOK, PendingOK, ImageOK, [Next]_vars
    PROVE  \/ v' = v /\ base' = base /\ micro' = micro
           \/ \E fs, ms : EmitsFitting(fs, ms)
           \/ \E listed : Flushes(listed)
<1>1. CASE UNCHANGED vars
  BY <1>1 DEF vars
<1>2. CASE Next
  BY <1>2, OpsAreTyped, IterationFits DEF Next, OpFits
<1> QED BY <1>1, <1>2

\* What fits keeps the images and the micro-ops in agreement.
LEMMA FittingKeepsImage ==
    ASSUME TypeOK, ImageOK, OpFits
    PROVE  ImageOK'
<1>1. CASE v' = v /\ base' = base /\ micro' = micro
  <2>1. Issued' = Issued
    BY <1>1 DEF Issued
  <2> QED BY <1>1, <2>1 DEF ImageOK
<1>2. CASE \E fs, ms : EmitsFitting(fs, ms)
  BY <1>2, EmitKeepsImage
<1>3. CASE \E listed : Flushes(listed)
  BY <1>3, FlushKeepsImage
<1> QED BY <1>1, <1>2, <1>3 DEF OpFits

\* No iteration of compile's loop breaks it.
LEMMA NextKeepsImage ==
    ASSUME TypeOK, PendingOK, ImageOK, [Next]_vars
    PROVE  ImageOK'
<1>1. OpFits
  BY StepFits DEF OpFits
<1> QED BY <1>1, FittingKeepsImage

\* For every trace the two images and the micro-ops agree.
THEOREM CompileImageOK == Spec => []ImageOK
<1>1. Init => ImageOK
  BY InitImage
<1>2. TypeOK /\ PendingOK /\ ImageOK /\ [Next]_vars => ImageOK'
  BY NextKeepsImage
<1> QED BY <1>1, <1>2, CompileTypeOK, CompilePendingOK, PTL DEF Spec

-----------------------------------------------------------------------------
(* close *)

\* One pass of the metadata rule and one of the data rule reach a legal state,
\* and every legal state that has the candidate has all they add.
LEMMA CloseLeast ==
    ASSUME NEW p, NEW point, p.op_end[point + 1] \in Nat,
           NEW s, s \subseteq Before(p, point)
    PROVE  /\ Legal(p, point, Close(p, point, s))
           /\ s \subseteq Close(p, point, s)
           /\ \A t : Legal(p, point, t) /\ s \subseteq t => Close(p, point, s) \subseteq t
<1> DEFINE kept == s \cup Durable(p, point)
           meta == kept \cup EarlierMeta(p, point, kept)
           c    == Close(p, point, s)
<1>1. Before(p, point) \subseteq Int
  BY DEF Before
<1>2. kept \subseteq Before(p, point) /\ EarlierMeta(p, point, kept) \subseteq Before(p, point)
      /\ OrderedData(p, point, meta) \subseteq Before(p, point)
  BY DEF Durable, EarlierMeta, OrderedData
<1>3. c = IF p.profile # "ext4" THEN kept ELSE meta \cup OrderedData(p, point, meta)
  BY DEF Close
<1>4. s \subseteq c /\ Durable(p, point) \subseteq c /\ c \subseteq Before(p, point)
  BY <1>2, <1>3
<1>5. ASSUME p.profile = "ext4", NEW k \in c, NEW j \in Before(p, point), j < k
      PROVE  /\ (IsMeta(p.micro[j].m) /\ IsMeta(p.micro[k].m)) => j \in c
             /\ (OrdersData(p.micro[k].m) /\ p.micro[j].m.kind = "Write"
                   /\ p.micro[j].m.ino = p.micro[k].m.ino) => j \in c
  <2>1. IsMeta(p.micro[k].m) => k \in meta
    BY <1>3, <1>5 DEF OrderedData, IsMeta
  <2>2. ASSUME IsMeta(p.micro[j].m), IsMeta(p.micro[k].m) PROVE j \in meta
    <3>1. CASE k \in kept
      BY <1>5, <2>2, <3>1 DEF EarlierMeta
    <3>2. CASE k \in EarlierMeta(p, point, kept)
      <4>1. PICK i \in kept : k < i /\ IsMeta(p.micro[i].m)
        BY <3>2 DEF EarlierMeta
      <4>2. j \in Int /\ k \in Int /\ i \in Int
        BY <1>1, <1>2, <1>4, <1>5, <4>1
      <4>3. j < i
        BY <1>5, <4>1, <4>2
      <4>4. QED
        BY <1>5, <2>2, <4>1, <4>3 DEF EarlierMeta
    <3>3. QED
      BY <2>1, <2>2, <3>1, <3>2
  <2>3. OrdersData(p.micro[k].m) => IsMeta(p.micro[k].m)
    BY DEF OrdersData, IsMeta
  <2>4. ASSUME OrdersData(p.micro[k].m), p.micro[j].m.kind = "Write",
               p.micro[j].m.ino = p.micro[k].m.ino
        PROVE  j \in OrderedData(p, point, meta)
    BY <1>5, <2>1, <2>3, <2>4 DEF OrderedData
  <2>5. QED
    BY <1>3, <1>5, <2>2, <2>4
<1>6. Legal(p, point, c)
  BY <1>4, <1>5 DEF Legal, OrdersData
<1>7. ASSUME NEW t, Legal(p, point, t), s \subseteq t PROVE c \subseteq t
  <2>1. kept \subseteq t /\ t \subseteq Before(p, point)
    BY <1>7 DEF Legal
  <2>2. ASSUME p.profile = "ext4" PROVE EarlierMeta(p, point, kept) \subseteq t
    BY <1>7, <2>1, <2>2 DEF Legal, EarlierMeta
  <2>3. ASSUME p.profile = "ext4" PROVE OrderedData(p, point, meta) \subseteq t
    <3>1. meta \subseteq t
      BY <2>1, <2>2, <2>3
    <3> HIDE DEF meta
    <3>2. QED
      BY <1>7, <2>3, <3>1 DEF Legal, OrderedData, OrdersData
  <2>4. QED
    BY <1>3, <2>1, <2>2, <2>3
<1>8. QED
  BY <1>4, <1>6, <1>7

-----------------------------------------------------------------------------
(* The masks of the exhaustive search *)

\* As many masks as there are subsets, so finitely many.
LEMMA PowersAreNat == ASSUME NEW n \in Nat PROVE 2^n \in Nat
<1>1. IsFiniteSet(1..n) /\ Cardinality(1..n) = n
  BY FS_Interval
<1>2. IsFiniteSet(SUBSET (1..n)) /\ Cardinality(SUBSET (1..n)) = 2^Cardinality(1..n)
  BY <1>1, FS_SUBSET
<1>3. Cardinality(SUBSET (1..n)) \in Nat
  BY <1>2, FS_CardinalityType
<1> QED BY <1>1, <1>2, <1>3

\* With one element more there are twice as many subsets.
LEMMA PowerDoubles == ASSUME NEW n \in Nat PROVE 2^0 = 1 /\ 2^(n + 1) = 2 * 2^n
<1> DEFINE A == SUBSET (1..n)
           B == {T \in SUBSET (1..(n + 1)) : n + 1 \in T}
           f == [T \in A |-> T \cup {n + 1}]
<1>1. /\ IsFiniteSet(1..n) /\ Cardinality(1..n) = n
      /\ IsFiniteSet(1..(n+1)) /\ Cardinality(1..(n+1)) = n + 1
  <2>1. n + 1 \in Nat
    OBVIOUS
  <2> QED BY <2>1, FS_Interval
<1>2. IsFiniteSet(A) /\ Cardinality(A) = 2^n
  BY <1>1, FS_SUBSET
<1>3. Cardinality(SUBSET (1..(n+1))) = 2^(n+1)
  BY <1>1, FS_SUBSET
<1>4. 1..(n+1) = 1..n \cup {n + 1} /\ n + 1 \notin 1..n
  OBVIOUS
<1>5. SUBSET (1..(n+1)) = A \cup B
  BY <1>4
<1>6. f \in Bijection(A, B)
  <2>1. f \in [A -> B]
    BY <1>4
  <2>2. ASSUME NEW S \in A, NEW T \in A, f[S] = f[T] PROVE S = T
    BY <1>4, <2>2
  <2>3. ASSUME NEW T \in B PROVE \E S \in A : f[S] = T
    <3>1. T \ {n + 1} \in A /\ (T \ {n + 1}) \cup {n + 1} = T
      BY <1>4
    <3> QED BY <3>1
  <2> HIDE DEF f, A, B
  <2> QED BY <2>1, <2>2, <2>3 DEF Bijection, Injection, IsInjective, Surjection
<1>7. A \cap B = {}
  BY <1>4
<1>a. 2^0 = 1
  OBVIOUS
<1> HIDE DEF A, B, f
<1>8. IsFiniteSet(B) /\ Cardinality(B) = Cardinality(A)
  BY <1>2, <1>6, FS_Bijection DEF ExistsBijection
<1>9. Cardinality(A \cup B) = Cardinality(A) + Cardinality(B) - Cardinality(A \cap B)
  BY <1>2, <1>8, FS_Union
<1>10. Cardinality(A \cap B) = 0
  BY <1>7, FS_EmptySet
<1>11. 2^n \in Nat
  BY PowersAreNat
<1>12. 2^(n+1) = 2^n + 2^n - 0
  BY <1>2, <1>3, <1>5, <1>8, <1>9, <1>10
<1> QED BY <1>11, <1>12, <1>a

\* Shifting one bit more is shifting what is left of the first bit.
LEMMA Halves ==
    ASSUME NEW y \in Nat, NEW b \in {0, 1}, NEW d \in Nat \ {0}
    PROVE  (2 * y + b) \div (2 * d) = y \div d
<1>1. (y \div d) \in Nat /\ (y \div d) * d <= y /\ y < (y \div d) * d + d
  BY DivBounds
<1>2. PICK q \in Nat : q = y \div d
  BY <1>1
<1>3. q * (2 * d) <= 2 * y + b /\ 2 * y + b < q * (2 * d) + 2 * d
  BY <1>1, <1>2
<1>4. 2 * y + b \in Nat /\ 2 * d \in Nat \ {0}
  OBVIOUS
<1>5. (2 * y + b) \div (2 * d) = q
  <2> DEFINE z == 2 * y + b
             e == 2 * d
  <2>1. z \in Nat /\ e \in Nat \ {0} /\ q * e <= z /\ z < q * e + e
    BY <1>3, <1>4
  <2> HIDE DEF z, e
  <2>2. z \div e = q
    BY <2>1, DivIs
  <2> QED BY <2>2 DEF z, e
<1> QED BY <1>2, <1>5

\* The bits of the mask x that are set are those in P.
Reads(x, n, P) == \A k \in 0..(n-1) : (x \div 2^k) % 2 = 1 <=> k \in P

\* Every subset of n positions is read by a mask, by induction from the lowest bit.
LEMMA MaskExists ==
    ASSUME NEW n \in Nat, NEW P
    PROVE  \E x \in 0..(2^n - 1) : Reads(x, n, P)
<1> DEFINE S == {k \in Nat : \A Q : \E x \in 0..(2^k - 1) : Reads(x, k, Q)}
<1>1. 0 \in S
  <2>1. \A Q : Reads(0, 0, Q)
    BY DEF Reads
  <2>2. 0 \in 0..(2^0 - 1)
    BY PowerDoubles
  <2> QED BY <2>1, <2>2
<1>2. ASSUME NEW k \in Nat, k \in S PROVE k + 1 \in S
  <2>1. SUFFICES ASSUME NEW Q PROVE \E x \in 0..(2^(k+1) - 1) : Reads(x, k + 1, Q)
    OBVIOUS
  <2> DEFINE R == {j \in Nat : j + 1 \in Q}
             b == IF 0 \in Q THEN 1 ELSE 0
  <2>2. PICK y \in 0..(2^k - 1) : Reads(y, k, R)
    <3>1. \E x \in 0..(2^k - 1) : Reads(x, k, R)
      BY <1>2
    <3> QED BY <3>1
  <2>3. 2^k \in Nat /\ 2^(k+1) = 2 * 2^k /\ 2^0 = 1
    BY PowersAreNat, PowerDoubles
  <2>4. y \in Nat /\ b \in {0, 1} /\ 2 * y + b \in 0..(2^(k+1) - 1)
    <3>1. b \in {0, 1}
      OBVIOUS
    <3> HIDE DEF b
    <3> DEFINE w == 2^k
    <3>2. w \in Nat /\ y \in 0..(w - 1)
      BY <2>3
    <3> HIDE DEF w
    <3>3. y \in Nat /\ 2 * y + b \in 0..(2 * w - 1)
      BY <3>1, <3>2
    <3>4. 2^(k+1) = 2 * w
      BY <2>3 DEF w
    <3> QED BY <3>1, <3>3, <3>4
  <2>5. ASSUME NEW j \in 0..((k + 1) - 1) PROVE ((2 * y + b) \div 2^j) % 2 = 1 <=> j \in Q
    <3>1. CASE j = 0
      <4>1. ((2 * y + b) \div 1) % 2 = b
        <5> HIDE DEF b
        <5> QED BY <2>4
      <4> QED BY <2>3, <3>1, <4>1
    <3>2. CASE j # 0
      <4> DEFINE i == j - 1
      <4>1. i \in 0..(k - 1) /\ i \in Nat /\ i + 1 = j
        BY <3>2
      <4> HIDE DEF i
      <4>2. 2^i \in Nat /\ 2^(i+1) = 2 * 2^i
        BY <4>1, PowersAreNat, PowerDoubles
      <4>3. 2^i # 0
        <5>1. IsFiniteSet(1..i) /\ Cardinality(1..i) = i
          BY <4>1, FS_Interval
        <5>2. IsFiniteSet(SUBSET (1..i)) /\ Cardinality(SUBSET (1..i)) = 2^i
          BY <5>1, FS_SUBSET
        <5>3. SUBSET (1..i) # {}
          OBVIOUS
        <5> QED BY <5>2, <5>3, FS_EmptySet
      <4>4. (2 * y + b) \div (2 * 2^i) = y \div 2^i
        <5> DEFINE d == 2^i
        <5>1. d \in Nat \ {0} /\ y \in Nat /\ b \in {0, 1}
          BY <2>4, <4>2, <4>3
        <5> HIDE DEF d, b
        <5>2. (2 * y + b) \div (2 * d) = y \div d
          BY <5>1, Halves
        <5> QED BY <5>2 DEF d
      <4>5. (y \div 2^i) % 2 = 1 <=> i \in R
        BY <2>2, <4>1 DEF Reads
      <4>6. i \in R <=> j \in Q
        BY <4>1
      <4> HIDE DEF b, R
      <4>7. ((2 * y + b) \div 2^j) % 2 = (y \div 2^i) % 2
        BY <4>1, <4>2, <4>4
      <4> QED BY <4>5, <4>6, <4>7
    <3> QED BY <3>1, <3>2
  <2> HIDE DEF b
  <2>6. Reads(2 * y + b, k + 1, Q)
    BY <2>5 DEF Reads
  <2> QED BY <2>4, <2>6
<1>3. n \in S
  <2>1. Nat \subseteq S
    <3> HIDE DEF S
    <3> QED BY <1>1, <1>2, AllNat
  <2> QED BY <2>1
<1> QED BY <1>3

-----------------------------------------------------------------------------
(* The candidates *)

\* close does not tell apart candidates that differ in what is durable.
LEMMA CloseOfKept ==
    ASSUME NEW p, NEW point, NEW s, NEW t, s \cup Durable(p, point) = t \cup Durable(p, point)
    PROVE  Close(p, point, s) = Close(p, point, t)
  BY DEF Close

\* A state that is legal is what close makes of it.
LEMMA LegalIsClosed ==
    ASSUME NEW p, NEW point, p.op_end[point + 1] \in Nat, NEW s, Legal(p, point, s)
    PROVE  Close(p, point, s) = s
<1>1. s \subseteq Before(p, point)
  BY DEF Legal
<1>2. /\ s \subseteq Close(p, point, s)
      /\ \A t : Legal(p, point, t) /\ s \subseteq t => Close(p, point, s) \subseteq t
  BY <1>1, CloseLeast
<1>3. Close(p, point, s) \subseteq s
  BY <1>2
<1> QED BY <1>2, <1>3

\* What is in flight is listed, each micro-op once, in program order.
Listed(p, point) ==
    /\ InFlight(p, point) \subseteq Nat /\ IsFiniteSet(InFlight(p, point))
    /\ Before(p, point) = InFlight(p, point) \cup Durable(p, point)

\* A program's tables are in order: what compile promises of them (TypeOK) as
\* far as the search depends on it.
InOrder(p) ==
    /\ \A k \in Points(p) : p.op_end[k + 1] \in Nat
    /\ \A j \in Nat, k \in Points(p) : j \in Before(p, k) => p.micro[j].durable_at \in Int
    /\ Points(p) \subseteq Nat

\* At each of its crash points what is in flight is listed.
LEMMA PointListed ==
    ASSUME NEW p, InOrder(p), NEW point \in Points(p)
    PROVE  /\ Listed(p, point) /\ p.op_end[point + 1] \in Nat
           /\ Before(p, point) = 1..p.op_end[point + 1]
           /\ IsFiniteSet(Before(p, point))
<1>1. /\ p.op_end[point + 1] \in Nat /\ Before(p, point) = 1..p.op_end[point + 1]
      /\ point \in Nat
  <2>1. p.op_end[point + 1] \in Nat /\ point \in Nat
    BY DEF InOrder
  <2>2. Before(p, point) = 1..p.op_end[point + 1]
    BY DEF Before
  <2> QED BY <2>1, <2>2
<1>2. IsFiniteSet(Before(p, point))
  <2>1. IsFiniteSet(1..p.op_end[point + 1])
    <3>1. 1 \in Int /\ p.op_end[point + 1] \in Int
      BY <1>1
    <3> QED BY <3>1, FS_Interval
  <2> QED BY <1>1, <2>1
<1>3. InFlight(p, point) \subseteq Before(p, point) /\ Durable(p, point) \subseteq Before(p, point)
  <2>1. InFlight(p, point) \subseteq Before(p, point)
    BY DEF InFlight
  <2>2. Durable(p, point) \subseteq Before(p, point)
    BY DEF Durable
  <2> QED BY <2>1, <2>2
<1>4. ASSUME NEW j \in Before(p, point) PROVE j \in InFlight(p, point) \cup Durable(p, point)
  <2>1. p.micro[j].durable_at \in Int
    BY <1>1 DEF InOrder
  <2>2. p.micro[j].durable_at >= point \/ p.micro[j].durable_at < point
    BY <1>1, <2>1
  <2> QED BY <2>2 DEF InFlight, Durable
<1>5. IsFiniteSet(InFlight(p, point))
  BY <1>2, <1>3, FS_Subset
<1>6. Before(p, point) \subseteq Nat
  BY <1>1
<1> QED BY <1>1, <1>2, <1>3, <1>4, <1>5, <1>6 DEF Listed

\* The flight has one position for each micro-op in flight.
LEMMA FlightPlaces ==
    ASSUME NEW p, NEW point, Listed(p, point)
    PROVE  /\ Len(Flight(p, point)) = Cardinality(InFlight(p, point))
           /\ Len(Flight(p, point)) \in Nat
           /\ DOMAIN Flight(p, point) = 1..Len(Flight(p, point))
           /\ \A k \in 1..Len(Flight(p, point)) : Flight(p, point)[k] \in InFlight(p, point)
           /\ \A j \in InFlight(p, point) : \E k \in 1..Len(Flight(p, point)) : Flight(p, point)[k] = j
           /\ \A k, l \in 1..Len(Flight(p, point)) :
                 Flight(p, point)[k] = Flight(p, point)[l] => k = l
<1> DEFINE I == InFlight(p, point)
<1>1. I \subseteq Nat /\ IsFiniteSet(I) /\ Flight(p, point) = Sorted(I, <)
  BY DEF Listed, Flight
<1> HIDE DEF I
<1>2. /\ Cardinality(I) \in Nat /\ Len(Sorted(I, <)) = Cardinality(I)
      /\ DOMAIN Sorted(I, <) = 1..Cardinality(I)
  BY <1>1, SortedLen
<1>3. /\ \A k \in 1..Cardinality(I) : Sorted(I, <)[k] \in I
      /\ \A k, l \in 1..Cardinality(I) : Sorted(I, <)[k] = Sorted(I, <)[l] => k = l
      /\ \A x \in I : \E k \in 1..Cardinality(I) : Sorted(I, <)[k] = x
  BY <1>1, SortedPlaces
<1> QED BY <1>1, <1>2, <1>3 DEF I

\* As long as there are fewer micro-ops in flight than bits in a word, every
\* selection of them is one of the masks.
LEMMA ExhaustiveHas ==
    ASSUME NEW p, NEW point, Listed(p, point), Cardinality(InFlight(p, point)) < WordBits,
           NEW t, t \subseteq InFlight(p, point)
    PROVE  Durable(p, point) \cup t \in Range(Exhaustive(p, point))
<1> DEFINE flight == Flight(p, point)
           m == Len(flight)
           P == {q \in 0..(m-1) : flight[q + 1] \in t}
           At(x) == {flight[pos] : pos \in {q \in 1..m : Bit(x, q - 1) = 1}}
<1>1. /\ m \in Nat /\ m = Cardinality(InFlight(p, point)) /\ m < WordBits /\ WordBits \in Nat
      /\ \A j \in t : \E k \in 1..m : flight[k] = j
  BY FlightPlaces, WordAssumption
<1>2. PICK x \in 0..(2^m - 1) : Reads(x, m, P)
  <2> HIDE DEF P, m
  <2> QED BY <1>1, MaskExists
<1>3. \A k \in 0..m : k % WordBits = k
  <2> HIDE DEF m
  <2> QED BY <1>1
<1>4. ASSUME NEW q \in 1..m PROVE Bit(x, q - 1) = 1 <=> flight[q] \in t
  <2>1. q - 1 \in 0..(m-1) /\ q - 1 \in 0..m /\ (q - 1) + 1 = q
    BY <1>1
  <2>2. Bit(x, q - 1) = (x \div 2^(q - 1)) % 2
    BY <1>3, <2>1 DEF Bit
  <2>3. (x \div 2^(q - 1)) % 2 = 1 <=> q - 1 \in P
    BY <1>2, <2>1 DEF Reads
  <2>4. q - 1 \in P <=> flight[q] \in t
    BY <2>1
  <2> QED BY <2>2, <2>3, <2>4
<1> HIDE DEF P
<1>5. At(x) = t
  <2>1. ASSUME NEW j \in At(x) PROVE j \in t
    <3>1. PICK q \in 1..m : Bit(x, q - 1) = 1 /\ j = flight[q]
      OBVIOUS
    <3> QED BY <1>4, <3>1
  <2>2. ASSUME NEW j \in t PROVE j \in At(x)
    <3>1. PICK q \in 1..m : flight[q] = j
      BY <1>1
    <3>2. Bit(x, q - 1) = 1
      BY <1>4, <3>1
    <3> QED BY <3>1, <3>2
  <2> HIDE DEF At
  <2> QED BY <2>1, <2>2
<1>6. Masks(m) = 2^m /\ 2^m \in Nat
  <2>1. m \in 0..m
    BY <1>1
  <2>2. m % WordBits = m
    BY <1>3, <2>1
  <2> HIDE DEF m
  <2> QED BY <1>1, <2>2, PowersAreNat DEF Masks
<1>7. x + 1 \in 1..Masks(m) /\ (x + 1) - 1 = x
  BY <1>6
<1>8. Exhaustive(p, point) = [k \in 1..Masks(m) |-> Durable(p, point) \cup At(k - 1)]
  BY DEF Exhaustive
<1> HIDE DEF At, m, flight
<1>9. Exhaustive(p, point)[x + 1] = Durable(p, point) \cup t
  BY <1>5, <1>7, <1>8
<1> QED BY <1>7, <1>8, <1>9 DEF Range

\* A sequence of sets of micro-ops that had been issued.
Tries(cs, p, point) ==
    cs \in Seq(Range(cs)) /\ \A k \in 1..Len(cs) : cs[k] \subseteq Before(p, point)

\* Numbered tries.
LEMMA TriesOf ==
    ASSUME NEW p, NEW point, NEW n \in Nat, NEW cs, cs = [k \in 1..n |-> cs[k]],
           \A k \in 1..n : cs[k] \subseteq Before(p, point)
    PROVE  Tries(cs, p, point) /\ Len(cs) = n
  BY FunctionIsSeq DEF Tries

\* Tries after tries.
LEMMA TriesConcat ==
    ASSUME NEW p, NEW point, NEW cs, Tries(cs, p, point), NEW ct, Tries(ct, p, point)
    PROVE  /\ Tries(cs \o ct, p, point)
           /\ \A k \in 1..Len(cs) : cs[k] \in Range(cs \o ct)
<1>1. cs \in Seq(Range(cs)) /\ ct \in Seq(Range(ct)) /\ Len(cs) \in Nat /\ Len(ct) \in Nat
  BY DEF Tries
<1>2. /\ cs \o ct \in Seq(Range(cs \o ct)) /\ Len(cs \o ct) = Len(cs) + Len(ct)
      /\ DOMAIN (cs \o ct) = 1..(Len(cs) + Len(ct))
      /\ \A k \in 1..(Len(cs) + Len(ct)) :
            (cs \o ct)[k] = IF k <= Len(cs) THEN cs[k] ELSE ct[k - Len(cs)]
  BY <1>1, ConcatIs
<1> DEFINE both == cs \o ct
           a == Len(cs)
           b == Len(ct)
<1>3. /\ a \in Nat /\ b \in Nat /\ both \in Seq(Range(both)) /\ Len(both) = a + b
      /\ DOMAIN both = 1..(a + b)
      /\ \A k \in 1..(a + b) : both[k] = IF k <= a THEN cs[k] ELSE ct[k - a]
      /\ \A k \in 1..a : cs[k] \subseteq Before(p, point)
      /\ \A k \in 1..b : ct[k] \subseteq Before(p, point)
  BY <1>1, <1>2 DEF Tries
<1> HIDE DEF both, a, b
<1>4. ASSUME NEW k \in 1..(a + b) PROVE both[k] \subseteq Before(p, point)
  <2>1. CASE k <= a
    <3>1. k \in 1..a /\ both[k] = cs[k]
      BY <1>3, <2>1
    <3> QED BY <1>3, <3>1
  <2>2. CASE ~(k <= a)
    <3>1. k - a \in 1..b
      BY <1>3, <2>2
    <3>2. both[k] = ct[k - a]
      BY <1>3, <2>2
    <3> QED BY <1>3, <3>1, <3>2
  <2> QED BY <2>1, <2>2
<1>5. ASSUME NEW k \in 1..a PROVE k \in DOMAIN both /\ both[k] = cs[k]
  BY <1>3
<1>6. \A k \in 1..a : cs[k] \in Range(both)
  BY <1>5 DEF Range
<1>7. Tries(both, p, point)
  BY <1>3, <1>4 DEF Tries
<1> QED BY <1>6, <1>7 DEF both, a

\* The exhaustive search tries sets of issued micro-ops.
LEMMA ExhaustiveTries ==
    ASSUME NEW p, NEW point, Listed(p, point)
    PROVE  Tries(Exhaustive(p, point), p, point)
<1> DEFINE flight == Flight(p, point)
           At(x) == {flight[pos] : pos \in {q \in 1..Len(flight) : Bit(x, q - 1) = 1}}
           N  == Masks(Len(flight))
           cs == Exhaustive(p, point)
<1>1. Len(flight) \in Nat /\ \A k \in 1..Len(flight) : flight[k] \in InFlight(p, point)
  BY FlightPlaces
<1>2. N \in Nat
  <2>1. Len(flight) % WordBits \in Nat
    BY <1>1, WordAssumption
  <2> QED BY <2>1, PowersAreNat DEF Masks
<1>3. cs = [k \in 1..N |-> Durable(p, point) \cup At(k - 1)]
  BY DEF Exhaustive
<1>4. \A x : At(x) \subseteq InFlight(p, point)
  BY <1>1
<1>5. InFlight(p, point) \subseteq Before(p, point) /\ Durable(p, point) \subseteq Before(p, point)
  BY DEF InFlight, Durable
<1> HIDE DEF At, N, flight, cs
<1>6. cs = [k \in 1..N |-> cs[k]] /\ \A k \in 1..N : cs[k] \subseteq Before(p, point)
  BY <1>3, <1>4, <1>5
<1>7. Tries(cs, p, point)
  BY <1>2, <1>6, TriesOf
<1> QED BY <1>7 DEF cs

\* The first battery has the set that loses nothing and, for each micro-op in
\* flight, the set of those before it.
LEMMA LoseOneOrCutTries ==
    ASSUME NEW p, NEW point, Listed(p, point)
    PROVE  /\ Tries(LoseOneOrCut(p, point), p, point)
           /\ \E k \in 1..Len(LoseOneOrCut(p, point)) :
                 LoseOneOrCut(p, point)[k] = Durable(p, point) \cup InFlight(p, point)
           /\ \A at \in InFlight(p, point) : \E k \in 1..Len(LoseOneOrCut(p, point)) :
                 LoseOneOrCut(p, point)[k] = Durable(p, point) \cup {j \in InFlight(p, point) : j < at}
<1> DEFINE flight == Flight(p, point)
           all  == InFlight(p, point)
           D    == Durable(p, point)
           ends == <<D \cup all, D>>
           N    == 2 * Len(flight)
           Cut(k) == LET at == flight[(k + 1) \div 2]
                     IN  D \cup (IF k % 2 = 1 THEN all \ {at} ELSE {j \in all : j < at})
           cuts == [k \in 1..N |-> Cut(k)]
<1>1. /\ Len(flight) \in Nat
      /\ \A j \in all : \E k \in 1..Len(flight) : flight[k] = j
  BY FlightPlaces
<1>2. LoseOneOrCut(p, point) = ends \o cuts
  BY DEF LoseOneOrCut
<1>3. D \subseteq Before(p, point) /\ all \subseteq Before(p, point)
  BY DEF InFlight, Durable
<1>4. N \in Nat
  BY <1>1
<1>5. Tries(cuts, p, point) /\ Len(cuts) = N
  <2>1. \A k \in 1..N : Cut(k) \subseteq Before(p, point)
    BY <1>3
  <2> HIDE DEF Cut, N
  <2>2. cuts = [k \in 1..N |-> cuts[k]] /\ \A k \in 1..N : cuts[k] \subseteq Before(p, point)
    BY <2>1
  <2> HIDE DEF cuts
  <2> QED BY <1>4, <2>2, TriesOf
<1>6. Tries(ends, p, point) /\ Len(ends) = 2 /\ ends[1] = D \cup all
  <2> HIDE DEF D, all
  <2>1. ends = [k \in 1..2 |-> IF k = 1 THEN D \cup all ELSE D]
    OBVIOUS
  <2>2. ends[1] = D \cup all
    OBVIOUS
  <2>3. D \cup all \subseteq Before(p, point) /\ D \subseteq Before(p, point)
    BY <1>3
  <2> HIDE DEF ends
  <2>4. ends = [k \in 1..2 |-> ends[k]] /\ \A k \in 1..2 : ends[k] \subseteq Before(p, point)
    BY <2>1, <2>3
  <2>5. Tries(ends, p, point) /\ Len(ends) = 2
    <3>1. 2 \in Nat
      OBVIOUS
    <3> QED BY <2>4, <3>1, TriesOf
  <2> QED BY <2>2, <2>5
<1>7. ASSUME NEW j \in all
      PROVE  \E k \in 1..N : Cut(k) = D \cup {i \in all : i < j}
  <2>1. PICK q \in 1..Len(flight) : flight[q] = j
    BY <1>1
  <2> HIDE DEF flight
  <2>2. 2 * q \in 1..N /\ (2 * q) % 2 # 1 /\ (2 * q + 1) \div 2 = q
    BY <1>1, <2>1
  <2>3. Cut(2 * q) = D \cup {i \in all : i < j}
    BY <2>1, <2>2
  <2> HIDE DEF Cut, N
  <2> QED BY <2>2, <2>3
<1>8. \A k \in 1..N : cuts[k] = Cut(k)
  OBVIOUS
<1> DEFINE both == ends \o cuts
<1> HIDE DEF Cut, N, ends, cuts
<1>9. /\ Tries(both, p, point) /\ Len(both) = 2 + N
      /\ \A k \in 1..(2 + N) : both[k] = IF k <= 2 THEN ends[k] ELSE cuts[k - 2]
  <2>1. ends \in Seq(Range(ends)) /\ cuts \in Seq(Range(cuts))
    BY <1>5, <1>6 DEF Tries
  <2>2. /\ Len(ends \o cuts) = Len(ends) + Len(cuts)
        /\ \A k \in 1..(Len(ends) + Len(cuts)) :
              (ends \o cuts)[k] = IF k <= Len(ends) THEN ends[k] ELSE cuts[k - Len(ends)]
    BY <2>1, ConcatIs
  <2> QED BY <1>5, <1>6, <2>2, TriesConcat
<1> HIDE DEF both
<1>10. 1 \in 1..Len(both) /\ both[1] = D \cup all
  <2>1. 1 \in 1..(2 + N)
    BY <1>4
  <2> QED BY <1>6, <1>9, <2>1
<1>11. ASSUME NEW j \in all
       PROVE  \E k \in 1..Len(both) : both[k] = D \cup {i \in all : i < j}
  <2>1. PICK k \in 1..N : Cut(k) = D \cup {i \in all : i < j}
    BY <1>7
  <2>2. 2 + k \in 1..(2 + N) /\ ~(2 + k <= 2) /\ (2 + k) - 2 = k
    BY <1>4
  <2>3. both[2 + k] = cuts[k]
    BY <1>9, <2>2
  <2> QED BY <1>8, <1>9, <2>1, <2>2, <2>3
<1>12. LoseOneOrCut(p, point) = both
  BY <1>2 DEF both
<1> QED BY <1>9, <1>10, <1>11, <1>12

\* The second battery tries sets of issued micro-ops.
LEMMA LoseOneOpTries ==
    ASSUME NEW p, NEW point, Listed(p, point)
    PROVE  Tries(LoseOneOp(p, point), p, point)
<1> DEFINE all == InFlight(p, point)
           opsOf == {p.micro[j].op : j \in all}
           ops == Sorted(opsOf, <)
           cs == LoseOneOp(p, point)
           f == [j \in all |-> p.micro[j].op]
<1>1. IsFiniteSet(opsOf)
  <2>1. IsFiniteSet(all)
    BY DEF Listed
  <2>2. f \in Surjection(all, opsOf)
    <3> HIDE DEF all
    <3>1. f \in [all -> opsOf] /\ \A o \in opsOf : \E j \in all : f[j] = o
      OBVIOUS
    <3> QED BY <3>1 DEF Surjection
  <2> HIDE DEF f, all, opsOf
  <2> QED BY <2>1, <2>2, FS_Surjection
<1>2. Len(ops) \in Nat
  <2> HIDE DEF opsOf
  <2> QED BY <1>1, SortedLen
<1>3. cs = [k \in 1..Len(ops) |-> Durable(p, point) \cup {j \in all : p.micro[j].op # ops[k]}]
  BY DEF LoseOneOp
<1>4. all \subseteq Before(p, point) /\ Durable(p, point) \subseteq Before(p, point)
  BY DEF InFlight, Durable
<1> HIDE DEF ops, all, cs
<1>5. cs = [k \in 1..Len(ops) |-> cs[k]] /\ \A k \in 1..Len(ops) : cs[k] \subseteq Before(p, point)
  BY <1>3, <1>4
<1>6. Tries(cs, p, point)
  BY <1>2, <1>5, TriesOf
<1> QED BY <1>6 DEF cs

\* Whichever way it goes, the search tries sets of issued micro-ops.
LEMMA CandidatesTry ==
    ASSUME NEW p, NEW point, Listed(p, point), NEW limit,
           NEW sampled, Len(sampled) \in Nat,
           \A k \in 1..Len(sampled) : sampled[k] \subseteq Before(p, point)
    PROVE  Tries(Candidates(p, point, limit, sampled), p, point)
<1> DEFINE drawn == [k \in 1..Len(sampled) |-> Durable(p, point) \cup sampled[k]]
           battery == LoseOneOrCut(p, point) \o LoseOneOp(p, point)
<1>1. CASE Cardinality(InFlight(p, point)) <= limit
  <2>1. Candidates(p, point, limit, sampled) = Exhaustive(p, point)
    BY <1>1 DEF Candidates
  <2> QED BY <2>1, ExhaustiveTries
<1>2. CASE ~(Cardinality(InFlight(p, point)) <= limit)
  <2>1. Candidates(p, point, limit, sampled) = battery \o drawn
    BY <1>2 DEF Candidates
  <2>2. Tries(battery, p, point)
    BY LoseOneOrCutTries, LoseOneOpTries, TriesConcat
  <2>3. Tries(drawn, p, point)
    <3>1. Durable(p, point) \subseteq Before(p, point)
      BY DEF Durable
    <3>2. /\ drawn = [k \in 1..Len(sampled) |-> drawn[k]]
          /\ \A k \in 1..Len(sampled) : drawn[k] \subseteq Before(p, point)
      BY <3>1
    <3> HIDE DEF drawn
    <3> QED BY <3>2, TriesOf
  <2> HIDE DEF battery, drawn
  <2> QED BY <2>1, <2>2, <2>3, TriesConcat
<1> QED BY <1>1, <1>2

\* The search with samples tries whatever it tries without.
LEMMA SamplesAdd ==
    ASSUME NEW p, NEW point, Listed(p, point), NEW limit,
           NEW sampled, Len(sampled) \in Nat,
           \A k \in 1..Len(sampled) : sampled[k] \subseteq Before(p, point)
    PROVE  Range(Candidates(p, point, limit, <<>>)) \subseteq
              Range(Candidates(p, point, limit, sampled))
<1> DEFINE drawn(ss) == [k \in 1..Len(ss) |-> Durable(p, point) \cup ss[k]]
           battery == LoseOneOrCut(p, point) \o LoseOneOp(p, point)
<1>1. CASE Cardinality(InFlight(p, point)) <= limit
  BY <1>1 DEF Candidates
<1>2. CASE ~(Cardinality(InFlight(p, point)) <= limit)
  <2>1. /\ Candidates(p, point, limit, sampled) = battery \o drawn(sampled)
        /\ Candidates(p, point, limit, <<>>) = battery \o drawn(<<>>)
    BY <1>2 DEF Candidates
  <2>2. Tries(battery, p, point)
    BY LoseOneOrCutTries, LoseOneOpTries, TriesConcat
  <2>3. Tries(drawn(sampled), p, point)
    <3> DEFINE d == drawn(sampled)
    <3>1. Durable(p, point) \subseteq Before(p, point)
      BY DEF Durable
    <3>2. d = [k \in 1..Len(sampled) |-> d[k]] /\ \A k \in 1..Len(sampled) : d[k] \subseteq Before(p, point)
      BY <3>1
    <3> HIDE DEF d
    <3>3. Tries(d, p, point)
      BY <3>2, TriesOf
    <3> QED BY <3>3 DEF d
  <2>4. drawn(<<>>) = <<>>
    OBVIOUS
  <2> HIDE DEF battery, drawn
  <2>5. battery \o <<>> = battery
    <3>1. battery \in Seq(Range(battery))
      BY <2>2 DEF Tries
    <3> QED BY <3>1
  <2>6. \A k \in 1..Len(battery) : battery[k] \in Range(battery \o drawn(sampled))
    BY <2>2, <2>3, TriesConcat
  <2>7. DOMAIN battery = 1..Len(battery)
    BY <2>2 DEF Tries
  <2> QED BY <2>1, <2>4, <2>5, <2>6, <2>7 DEF Range
<1> QED BY <1>1, <1>2

\* What is durable and what the first n micro-ops are otherwise, the battery
\* has: the cut before the first micro-op in flight after n, or nothing lost.
LEMMA BatteryHasCuts ==
    ASSUME NEW p, NEW point, Listed(p, point), NEW N \in Nat, Before(p, point) = 1..N,
           NEW n \in 0..N
    PROVE  \E k \in 1..Len(LoseOneOrCut(p, point)) :
              LoseOneOrCut(p, point)[k] \cup Durable(p, point) = 1..n \cup Durable(p, point)
<1> DEFINE all == InFlight(p, point)
           D == Durable(p, point)
           later == {j \in all : n < j}
<1>1. all \subseteq 1..N /\ 1..N = all \cup D
  BY DEF InFlight, Listed
<1>2. CASE later = {}
  <2>1. D \cup all = 1..n \cup D
    <3>1. \A j \in all : j \in 1..n
      BY <1>1, <1>2
    <3>2. 1..n \subseteq 1..N
      OBVIOUS
    <3> QED BY <1>1, <3>1, <3>2
  <2>2. (D \cup all) \cup D = D \cup all
    OBVIOUS
  <2> QED BY <2>1, <2>2, LoseOneOrCutTries
<1>3. CASE later # {}
  <2>1. PICK j \in later : \A k \in later : j <= k
    <3>1. later \subseteq Nat
      BY <1>1
    <3> HIDE DEF later
    <3> QED BY <1>3, <3>1, LeastOf
  <2>2. \A i \in all : i < j <=> i \in 1..n
    BY <1>1, <2>1
  <2>3. D \cup {i \in all : i < j} = 1..n \cup D
    <3>1. 1..n \subseteq 1..N
      OBVIOUS
    <3> QED BY <1>1, <2>2, <3>1
  <2>4. \E k \in 1..Len(LoseOneOrCut(p, point)) :
            LoseOneOrCut(p, point)[k] = D \cup {i \in all : i < j}
    BY <2>1, LoseOneOrCutTries
  <2> QED BY <2>3, <2>4
<1> QED BY <1>2, <1>3

\* Every state the search closes is legal.
LEMMA SearchIsLegal ==
    ASSUME NEW p, InOrder(p), NEW point \in Points(p), NEW cs, Tries(cs, p, point),
           NEW c \in Range(cs)
    PROVE  c \subseteq Before(p, point) /\ Legal(p, point, Close(p, point, c))
<1>1. c \subseteq Before(p, point)
  <2>1. PICK k \in DOMAIN cs : c = cs[k]
    BY DEF Range
  <2>2. DOMAIN cs = 1..Len(cs)
    BY DEF Tries
  <2> QED BY <2>1, <2>2 DEF Tries
<1>2. p.op_end[point + 1] \in Nat
  BY PointListed
<1> QED BY <1>1, <1>2, CloseLeast

-----------------------------------------------------------------------------
(* What a crash state keeps of a file and of a directory *)

IssuedOf(p) == [j \in DOMAIN p.micro |-> p.micro[j].m]

\* A program whose micro-ops fit its image.
Sound(p) ==
    /\ IsImage(p.base)
    /\ Len(IssuedOf(p)) \in Nat /\ DOMAIN p.micro = 1..Len(IssuedOf(p))
    /\ \A j \in DOMAIN p.micro : Fits(p.micro[j].m, Len(p.base))

\* Whatever is selected of such a program fits.
LEMMA SoundFits ==
    ASSUME NEW p, Sound(p), NEW s
    PROVE  RunFits(p.base, IssuedOf(p), s, Len(IssuedOf(p)))
  BY DEF Sound, RunFits, IssuedOf

\* A crash state has the inodes of the program, each of its kind.
LEMMA CrashKeepsKinds ==
    ASSUME NEW p, Sound(p), NEW s
    PROVE  /\ IsImage(CrashFs(p, s)) /\ Len(CrashFs(p, s)) = Len(p.base)
           /\ \A i \in 1..Len(p.base) : CrashFs(p, s)[i].kind = p.base[i].kind
<1>1. /\ IsImage(p.base) /\ Len(IssuedOf(p)) \in Nat
      /\ RunFits(p.base, IssuedOf(p), s, Len(IssuedOf(p)))
  BY SoundFits DEF Sound
<1>2. CrashFs(p, s) = ApplyAll(p.base, IssuedOf(p), s)
  BY DEF CrashFs, IssuedOf
<1> QED BY <1>1, <1>2, ApplyAllKeeps

\* s and t have the same data micro-ops of the file ino.
SameData(p, ino, s, t) ==
    \A j \in DOMAIN p.micro : ToFile(p.micro[j].m, ino) => (j \in s <=> j \in t)

\* Two crash states that agree on the data micro-ops of a file have the same file.
LEMMA FileSurvives ==
    ASSUME NEW p, Sound(p), NEW ino \in 1..Len(p.base), p.base[ino].kind = "file",
           NEW s, NEW t, SameData(p, ino, s, t)
    PROVE  CrashFs(p, s)[ino] = CrashFs(p, t)[ino]
<1> DEFINE ms == IssuedOf(p)
           n  == Len(ms)
           fs == p.base
<1>1. IsImage(fs) /\ n \in Nat /\ RunFits(fs, ms, s, n) /\ RunFits(fs, ms, t, n)
  BY SoundFits DEF Sound
<1>2. CrashFs(p, s) = ApplyAll(fs, ms, s) /\ CrashFs(p, t) = ApplyAll(fs, ms, t)
  BY DEF CrashFs, IssuedOf
<1>3. \A k \in 1..n : ToFile(ms[k], ino) => (k \in s <=> k \in t)
  BY DEF Sound, IssuedOf, SameData
<1> HIDE DEF ms, fs
<1>4. PICK f : Steps(f, fs, ms, s, n) /\ ApplyAll(fs, ms, s) = f[n]
  BY <1>1, ApplyAllRun
<1>5. PICK g : Steps(g, fs, ms, t, n) /\ ApplyAll(fs, ms, t) = g[n]
  BY <1>1, ApplyAllRun
<1>6. ino \in 1..Len(fs) /\ fs[ino].kind = "file"
  BY DEF fs
<1> HIDE DEF n
<1>7. \A k \in 0..n : f[k][ino] = g[k][ino]
  BY <1>1, <1>3, <1>4, <1>5, <1>6, SameFile
<1>8. n \in 0..n
  BY <1>1
<1> QED BY <1>2, <1>4, <1>5, <1>7, <1>8

\* What a micro-op makes of the entry n of the directory i, that was e.
EntryAfter(i, n, e, m) ==
    IF m.kind = "Link" /\ m.parent = i /\ m.name = n THEN m.ino
    ELSE IF m.kind = "Unlink" /\ m.parent = i /\ m.name = n THEN NoIno
    ELSE IF m.kind = "Rename" /\ m.to = i /\ m.to_name = n THEN m.ino
    ELSE IF m.kind = "Rename" /\ m.from = i /\ m.from_name = n /\ e = m.ino THEN NoIno
    ELSE e

\* Each entry of each directory depends on its own value alone.
LEMMA ApplyEntry ==
    ASSUME NEW fs, IsImage(fs), NEW m, Fits(m, Len(fs)),
           NEW i \in 1..Len(fs), fs[i].kind = "dir", NEW n \in Names, NEW x, x = Apply(fs, m)
    PROVE  x[i].entries[n] = EntryAfter(i, n, fs[i].entries[n], m)
<1>1. Len(fs) \in Nat /\ NoIno \in 0..Len(fs)
  BY ImageShape DEF NoIno
<1>a. ASSUME NEW dir \in 0..Len(fs), NEW name, NEW ino \in 0..Len(fs),
             x = SetEntry(fs, dir, name, ino)
      PROVE  x[i].entries[n] = IF i = dir /\ n = name THEN ino ELSE fs[i].entries[n]
  <2>1. /\ i # dir => x[i] = fs[i]
        /\ i = dir => x[i].entries[n] = IF n = name THEN ino ELSE fs[i].entries[n]
    BY <1>a, SetEntryOf
  <2> QED BY <2>1
<1>2. CASE m.kind = "Link"
  <2>1. m.parent \in 0..Len(fs) /\ m.ino \in 0..Len(fs)
    BY <1>2 DEF Fits
  <2>2. x = SetEntry(fs, m.parent, m.name, m.ino)
    BY <1>2 DEF Apply
  <2>3. x[i].entries[n] = IF i = m.parent /\ n = m.name THEN m.ino ELSE fs[i].entries[n]
    BY <1>a, <2>1, <2>2
  <2> QED BY <1>2, <2>3 DEF EntryAfter
<1>3. CASE m.kind = "Unlink"
  <2>1. m.parent \in 0..Len(fs)
    BY <1>3 DEF Fits
  <2>2. x = SetEntry(fs, m.parent, m.name, NoIno)
    BY <1>3 DEF Apply
  <2>3. x[i].entries[n] = IF i = m.parent /\ n = m.name THEN NoIno ELSE fs[i].entries[n]
    BY <1>a, <1>1, <2>1, <2>2
  <2> QED BY <1>3, <2>3 DEF EntryAfter
<1>4. CASE m.kind = "Rename"
  <2>1. x[i].entries[n] =
           IF i = m.to /\ n = m.to_name THEN m.ino
           ELSE IF i = m.from /\ n = m.from_name /\ fs[i].entries[n] = m.ino THEN NoIno
           ELSE fs[i].entries[n]
    BY <1>4, ApplyRenameOf
  <2> QED BY <1>4, <2>1 DEF EntryAfter
<1>5. CASE m.kind \in {"Write", "SetLen"}
  <2>1. x[i] = fs[i]
    BY <1>5, ApplyKeeps
  <2> QED BY <1>5, <2>1 DEF EntryAfter
<1> QED BY <1>2, <1>3, <1>4, <1>5 DEF Fits

\* What an fsync of the directory i covers of its entries.
EntersIn(m, i) ==
    \/ m.kind \in {"Link", "Unlink"} /\ m.parent = i
    \/ m.kind = "Rename" /\ m.to = i

\* m took the entry n of the directory i, which named e, away.
TookAway(m, i, n, e) == m.kind = "Rename" /\ m.from = i /\ m.from_name = n /\ m.ino = e

\* A crash state's entry e against the entry w of a run that lost nothing:
\* the same, or an entry that only a lost rename took away.
EntryKept(e, w, lost) == e = w \/ (w = NoIno /\ lost)

\* One micro-op more, applied to both or lost by the crash state.
LEMMA EntryStep ==
    ASSUME NEW i, NEW n, NEW m, m.kind = "Rename" => m.ino # NoIno,
           NEW e, NEW w, NEW kept \in BOOLEAN, EntersIn(m, i) => kept,
           NEW e2, e2 = IF kept THEN EntryAfter(i, n, e, m) ELSE e,
           NEW w2, w2 = EntryAfter(i, n, w, m),
           NEW lost \in BOOLEAN, EntryKept(e, w, lost)
    PROVE  \/ e2 = w2
           \/ w2 = NoIno /\ e2 = e /\ lost
           \/ w2 = NoIno /\ ~kept /\ TookAway(m, i, n, e2)
<1>1. CASE EntersIn(m, i)
  <2>1. e2 = EntryAfter(i, n, e, m)
    BY <1>1
  <2> QED BY <1>1, <2>1 DEF EntersIn, EntryAfter, EntryKept
<1>2. CASE ~EntersIn(m, i) /\ ~(m.kind = "Rename" /\ m.from = i /\ m.from_name = n)
  <2>1. e2 = e /\ w2 = w
    BY <1>2 DEF EntersIn, EntryAfter
  <2> QED BY <2>1 DEF EntryKept
<1>3. CASE ~EntersIn(m, i) /\ m.kind = "Rename" /\ m.from = i /\ m.from_name = n
  <2>1. w2 = IF w = m.ino THEN NoIno ELSE w
    BY <1>3 DEF EntersIn, EntryAfter
  <2>2. e2 = IF kept /\ e = m.ino THEN NoIno ELSE e
    BY <1>3 DEF EntersIn, EntryAfter
  <2> QED BY <1>3, <2>1, <2>2 DEF EntryKept, TookAway
<1> QED BY <1>1, <1>2, <1>3

\* A directory whose own micro-ops are all kept has the entries it should, but
\* for those a lost rename took away.
LEMMA DirSurvives ==
    ASSUME NEW p, Sound(p), NEW s, NEW i \in 1..Len(p.base), p.base[i].kind = "dir",
           \A j \in DOMAIN p.micro : EntersIn(p.micro[j].m, i) => j \in s,
           NEW n \in Names
    PROVE  \/ CrashFs(p, s)[i].entries[n] = CrashFs(p, DOMAIN p.micro)[i].entries[n]
           \/ /\ CrashFs(p, DOMAIN p.micro)[i].entries[n] = NoIno
              /\ \E j \in DOMAIN p.micro \ s :
                    TookAway(p.micro[j].m, i, n, CrashFs(p, s)[i].entries[n])
<1> DEFINE ms == IssuedOf(p)
           N  == Len(ms)
           fs == p.base
           all == DOMAIN p.micro
<1>1. /\ IsImage(fs) /\ N \in Nat /\ all = 1..N
      /\ RunFits(fs, ms, s, N) /\ RunFits(fs, ms, all, N)
  BY SoundFits DEF Sound
<1>2. CrashFs(p, s) = ApplyAll(fs, ms, s) /\ CrashFs(p, all) = ApplyAll(fs, ms, all)
  BY DEF CrashFs, IssuedOf
<1>3. \A k \in 1..N : /\ ms[k] = p.micro[k].m /\ Fits(ms[k], Len(fs))
                      /\ EntersIn(ms[k], i) => k \in s
  BY DEF Sound, IssuedOf
<1>4. i \in 1..Len(fs) /\ fs[i].kind = "dir"
  OBVIOUS
<1> HIDE DEF ms, fs, all
<1>5. PICK f : Steps(f, fs, ms, s, N) /\ ApplyAll(fs, ms, s) = f[N]
  BY <1>1, ApplyAllRun
<1>6. PICK g : Steps(g, fs, ms, all, N) /\ ApplyAll(fs, ms, all) = g[N]
  BY <1>1, ApplyAllRun
<1> HIDE DEF N
<1>7. \A k \in 0..N : IsImage(f[k]) /\ Len(f[k]) = Len(fs) /\ f[k][i].kind = "dir"
  BY <1>1, <1>4, <1>5, RunKeeps
<1>8. \A k \in 0..N : IsImage(g[k]) /\ Len(g[k]) = Len(fs) /\ g[k][i].kind = "dir"
  BY <1>1, <1>4, <1>6, RunKeeps
<1> DEFINE E(k) == f[k][i].entries[n]
           W(k) == g[k][i].entries[n]
           Lost(k) == \E j \in (1..k) \ s : TookAway(ms[j], i, n, E(k))
           K == {k \in 0..N : E(k) = W(k) \/ (W(k) = NoIno /\ Lost(k))}
<1>9. 0 \in K
  BY <1>1, <1>5, <1>6 DEF Steps
<1>10. ASSUME NEW k \in 0..(N-1), k \in K PROVE k + 1 \in K
  <2>1. k \in 0..N /\ k + 1 \in 1..N /\ k + 1 \in 0..N /\ (k + 1) - 1 = k
    BY <1>1, <1>10
  <2> DEFINE m == ms[k + 1]
             a == f[k]
             b == g[k]
  <2>2. f[k + 1] = (IF k + 1 \in s THEN Apply(a, m) ELSE a) /\ g[k + 1] = Apply(b, m)
    BY <1>1, <1>5, <1>6, <2>1 DEF Steps
  <2>3. Fits(m, Len(fs)) /\ (EntersIn(m, i) => k + 1 \in s)
    BY <1>3, <2>1
  <2>4. IsImage(a) /\ Len(a) = Len(fs) /\ a[i].kind = "dir" /\ IsImage(b) /\ Len(b) = Len(fs) /\ b[i].kind = "dir"
    BY <1>7, <1>8, <2>1
  <2> HIDE DEF m, a, b
  <2>5. ASSUME NEW c, IsImage(c), Len(c) = Len(fs), c[i].kind = "dir"
        PROVE  Apply(c, m)[i].entries[n] = EntryAfter(i, n, c[i].entries[n], m)
    <3>1. Fits(m, Len(c)) /\ i \in 1..Len(c)
      BY <1>4, <2>3, <2>5
    <3> QED BY <2>5, <3>1, ApplyEntry
  <2>6. E(k) = a[i].entries[n] /\ W(k) = b[i].entries[n]
    BY DEF a, b
  <2>7. /\ E(k+1) = IF k + 1 \in s THEN EntryAfter(i, n, E(k), m) ELSE E(k)
        /\ W(k+1) = EntryAfter(i, n, W(k), m)
    BY <2>2, <2>4, <2>5, <2>6
  <2>8. E(k) = W(k) \/ (W(k) = NoIno /\ Lost(k))
    BY <1>10
  <2>9. m.kind = "Rename" => m.ino # NoIno
    BY <2>3 DEF Fits, NoIno
  <2> HIDE DEF E, W
  <2>10. \/ E(k+1) = W(k+1)
         \/ W(k+1) = NoIno /\ E(k+1) = E(k) /\ Lost(k)
         \/ W(k+1) = NoIno /\ k + 1 \notin s /\ TookAway(m, i, n, E(k+1))
    <3> DEFINE kept == k + 1 \in s
               lost == Lost(k)
    <3>1. kept \in BOOLEAN /\ lost \in BOOLEAN /\ (EntersIn(m, i) => kept)
          /\ E(k+1) = (IF kept THEN EntryAfter(i, n, E(k), m) ELSE E(k))
          /\ EntryKept(E(k), W(k), lost)
      BY <2>3, <2>7, <2>8 DEF EntryKept
    <3>2. W(k+1) = EntryAfter(i, n, W(k), m)
      BY <2>7
    <3> HIDE DEF kept, lost
    <3>3. \/ E(k+1) = W(k+1)
          \/ W(k+1) = NoIno /\ E(k+1) = E(k) /\ lost
          \/ W(k+1) = NoIno /\ ~kept /\ TookAway(m, i, n, E(k+1))
      BY <2>9, <3>1, <3>2, EntryStep
    <3> QED BY <3>3 DEF kept, lost
  <2>11. (1..k) \ s \subseteq (1..(k+1)) \ s /\ k + 1 \in 1..(k+1)
    BY <2>1
  <2>12. (E(k+1) = E(k) /\ Lost(k)) => Lost(k+1)
    BY <2>11
  <2>13. (k + 1 \notin s /\ TookAway(m, i, n, E(k+1))) => Lost(k+1)
    BY <2>11 DEF m
  <2> QED BY <2>1, <2>10, <2>12, <2>13
<1>11. N \in K
  <2>1. 0..N \subseteq K
    <3> HIDE DEF K
    <3> QED BY <1>1, <1>9, <1>10, UpTo
  <2>2. N \in 0..N
    BY <1>1
  <2> QED BY <2>1, <2>2
<1>12. E(N) = CrashFs(p, s)[i].entries[n] /\ W(N) = CrashFs(p, all)[i].entries[n]
  BY <1>2, <1>5, <1>6
<1>13. E(N) = W(N) \/ (W(N) = NoIno /\ \E j \in (1..N) \ s : TookAway(ms[j], i, n, E(N)))
  BY <1>11
<1> HIDE DEF E, W
<1>14. all = DOMAIN p.micro
  BY DEF all
<1> QED BY <1>1, <1>3, <1>12, <1>13, <1>14

-----------------------------------------------------------------------------
(* The bytes a crash state shows *)

\* At some moment of the program the file ino showed the byte b at k.
Seen(p, ino, k, b) == \E n \in 0..Len(IssuedOf(p)) : Shows(CrashFs(p, 1..n)[ino], k, b)

\* What m writes goes to a file and was seen where it is written.
WriteSeen(p, m) ==
    m.kind = "Write" =>
        /\ p.base[m.ino].kind = "file"
        /\ \A i \in 1..Len(m.data) : Seen(p, m.ino, m.offset + i, m.data[i])

\* The program starts with whole files and writes bytes.
Typed(p) == FilesWhole(p.base) /\ \A j \in DOMAIN p.micro : TypedData(p.micro[j].m)

\* And all that is written was seen.
Traced(p) == Typed(p) /\ \A j \in DOMAIN p.micro : WriteSeen(p, p.micro[j].m)

\* f and g are the file ino after each micro-op of the crash state s and of the
\* program.
FileRuns(p, ino, s, f, g) ==
    /\ f[0] = p.base[ino] /\ f[Len(IssuedOf(p))] = CrashFs(p, s)[ino]
    /\ \A n \in 0..Len(IssuedOf(p)) : /\ TypedFile(f[n]) /\ TypedFile(g[n])
                                      /\ f[n] = CrashFs(p, s \cap (1..n))[ino]
                                      /\ g[n] = CrashFs(p, 1..n)[ino]
    /\ \A n \in 1..Len(IssuedOf(p)) :
          LET m == p.micro[n].m
          IN  /\ f[n] = IF n \in s /\ ToFile(m, ino) THEN OnFile(f[n-1], m) ELSE f[n-1]
              /\ g[n] = IF ToFile(m, ino) THEN OnFile(g[n-1], m) ELSE g[n-1]

\* Every file has these.
LEMMA FileRunsExist ==
    ASSUME NEW p, Sound(p), Typed(p), NEW ino \in 1..Len(p.base), p.base[ino].kind = "file", NEW s
    PROVE  \E f, g : FileRuns(p, ino, s, f, g)
<1> DEFINE ms == IssuedOf(p)
           N  == Len(ms)
           fs == p.base
<1>1. IsImage(fs) /\ N \in Nat /\ RunFits(fs, ms, s, N) /\ RunFits(fs, ms, 1..N, N)
  BY SoundFits DEF Sound
<1>2. \A t : CrashFs(p, t) = ApplyAll(fs, ms, t)
  BY DEF CrashFs, IssuedOf
<1>3. \A n \in 1..N : n \in DOMAIN p.micro /\ ms[n] = p.micro[n].m
  BY DEF Sound, IssuedOf
<1>4. /\ ino \in 1..Len(fs) /\ fs[ino].kind = "file" /\ TypedFile(fs[ino])
      /\ \A n \in 1..N : TypedData(ms[n])
  BY <1>3 DEF Typed, FilesWhole, Whole
<1> HIDE DEF ms, fs
<1>5. PICK a : Steps(a, fs, ms, s, N) /\ ApplyAll(fs, ms, s) = a[N]
  BY <1>1, ApplyAllRun
<1>6. PICK b : Steps(b, fs, ms, 1..N, N) /\ ApplyAll(fs, ms, 1..N) = b[N]
  BY <1>1, ApplyAllRun
<1>7. ASSUME NEW n \in 0..N PROVE ApplyAll(fs, ms, s \cap (1..n)) = a[n]
  <2> DEFINE t == s \cap (1..n)
  <2>1. N = Len(ms)
    OBVIOUS
  <2> HIDE DEF N
  <2>2. N \in Nat /\ n \in 0..N /\ Steps(a, fs, ms, s, N) /\ IsPrefix(t, s, n)
    BY <1>1, <1>5 DEF IsPrefix
  <2> HIDE DEF t
  <2>3. ApplyAll(fs, ms, t) = a[n]
    BY <2>1, <2>2, PrefixRun
  <2> QED BY <2>3 DEF t
<1>8. ASSUME NEW n \in 0..N PROVE ApplyAll(fs, ms, 1..n) = b[n]
  <2> DEFINE kept == 1..N
  <2>1. Steps(b, fs, ms, kept, N) /\ N = Len(ms)
    BY <1>6
  <2> DEFINE t == 1..n
  <2>2. IsPrefix(t, kept, n) /\ N \in Nat /\ n \in 0..N
    BY <1>1 DEF IsPrefix
  <2> HIDE DEF kept, N, t
  <2>3. ApplyAll(fs, ms, t) = b[n]
    BY <2>1, <2>2, PrefixRun
  <2> QED BY <2>3 DEF t
<1>9. /\ \A n \in 0..N : TypedFile(a[n][ino])
      /\ \A n \in 1..N : a[n][ino] = IF n \in s /\ ToFile(ms[n], ino)
                                     THEN OnFile(a[n-1][ino], ms[n]) ELSE a[n-1][ino]
  <2> HIDE DEF N
  <2> QED BY <1>1, <1>4, <1>5, FileStep, FilesTyped
<1>10. /\ \A n \in 0..N : TypedFile(b[n][ino])
       /\ \A n \in 1..N : b[n][ino] = IF ToFile(ms[n], ino)
                                      THEN OnFile(b[n-1][ino], ms[n]) ELSE b[n-1][ino]
  <2> DEFINE kept == 1..N
  <2>1. RunFits(fs, ms, kept, N) /\ Steps(b, fs, ms, kept, N)
    BY <1>1, <1>6
  <2> HIDE DEF N, kept
  <2>2. \A n \in 0..N : TypedFile(b[n][ino])
    BY <1>1, <1>4, <2>1, FilesTyped
  <2>3. \A n \in 1..N : b[n][ino] = IF n \in kept /\ ToFile(ms[n], ino)
                                   THEN OnFile(b[n-1][ino], ms[n]) ELSE b[n-1][ino]
    BY <1>1, <1>4, <2>1, FileStep
  <2> QED BY <2>2, <2>3 DEF kept
<1>11. a[0] = fs
  BY <1>5 DEF Steps
<1> DEFINE f == [n \in 0..N |-> a[n][ino]]
           g == [n \in 0..N |-> b[n][ino]]
<1>12. N = Len(IssuedOf(p)) /\ fs = p.base
  BY DEF ms, fs
<1> HIDE DEF N
<1>13. /\ f[0] = a[0][ino] /\ f[N] = a[N][ino]
       /\ \A n \in 0..N : f[n] = a[n][ino] /\ g[n] = b[n][ino]
       /\ \A n \in 1..N : f[n-1] = a[n-1][ino] /\ g[n-1] = b[n-1][ino]
  BY <1>1
<1> HIDE DEF f, g
<1>14. \A n \in 0..N : /\ TypedFile(f[n]) /\ TypedFile(g[n])
                       /\ f[n] = CrashFs(p, s \cap (1..n))[ino]
                       /\ g[n] = CrashFs(p, 1..n)[ino]
  BY <1>2, <1>7, <1>8, <1>9, <1>10, <1>13
<1>15. ASSUME NEW n \in 1..N
       PROVE  LET m == p.micro[n].m
              IN  /\ f[n] = IF n \in s /\ ToFile(m, ino) THEN OnFile(f[n-1], m) ELSE f[n-1]
                  /\ g[n] = IF ToFile(m, ino) THEN OnFile(g[n-1], m) ELSE g[n-1]
  <2>1. n \in 0..N
    BY <1>1
  <2> QED BY <1>3, <1>9, <1>10, <1>13, <2>1
<1>16. f[0] = p.base[ino] /\ f[N] = CrashFs(p, s)[ino]
  BY <1>2, <1>5, <1>11, <1>12, <1>13
<1>17. FileRuns(p, ino, s, f, g)
  BY <1>12, <1>14, <1>15, <1>16 DEF FileRuns
<1> QED BY <1>17

\* What a program wrote to a file it showed.
LEMMA WritesSeen ==
    ASSUME NEW p, Traced(p), NEW j \in DOMAIN p.micro, p.micro[j].m.kind = "Write",
           NEW x, TypedFile(x), NEW y, y = OnFile(x, p.micro[j].m), NEW k \in Nat \ {0}
    PROVE  /\ TypedFile(y) /\ y.len = x.len
           /\ \/ ByteAt(y.buf, k) = ByteAt(x.buf, k)
              \/ Seen(p, p.micro[j].m.ino, k, ByteAt(y.buf, k))
<1> DEFINE m == p.micro[j].m
<1>1. m.offset \in Nat /\ m.data \in Seq(Nat) /\ WriteSeen(p, m) /\ m.kind = "Write"
  BY DEF Traced, Typed, TypedData
<1> HIDE DEF m
<1>2. TypedFile(y) /\ y.len = x.len /\ Overwrites(y.buf, x.buf, m.offset, m.data)
  BY <1>1, WriteOf DEF m
<1>3. CASE m.offset < k /\ k <= m.offset + Len(m.data)
  <2>1. k - m.offset \in 1..Len(m.data) /\ m.offset + (k - m.offset) = k
    BY <1>1, <1>3
  <2>2. ByteAt(y.buf, k) = m.data[k - m.offset]
    BY <1>2, <1>3 DEF Overwrites
  <2>3. Seen(p, m.ino, m.offset + (k - m.offset), m.data[k - m.offset])
    BY <1>1, <2>1 DEF WriteSeen
  <2>4. Seen(p, m.ino, k, ByteAt(y.buf, k))
    BY <2>1, <2>2, <2>3
  <2> QED BY <1>2, <2>4 DEF m
<1>4. CASE ~(m.offset < k /\ k <= m.offset + Len(m.data))
  <2>1. ByteAt(y.buf, k) = ByteAt(x.buf, k)
    BY <1>2, <1>4 DEF Overwrites
  <2> QED BY <1>2, <2>1
<1> QED BY <1>3, <1>4

\* Whatever persisted, a byte of a buffer is a zero or was seen there.
LEMMA BytesSeenOrZero ==
    ASSUME NEW p, Sound(p), Traced(p), NEW ino \in 1..Len(p.base), p.base[ino].kind = "file",
           NEW s, NEW k \in Nat \ {0}
    PROVE  LET b == ByteAt(CrashFs(p, s)[ino].buf, k) IN b = 0 \/ Seen(p, ino, k, b)
<1> DEFINE N == Len(IssuedOf(p))
<1>1. N \in Nat /\ \A n \in 1..N : n \in DOMAIN p.micro
  BY DEF Sound
<1>2. PICK f, g : FileRuns(p, ino, s, f, g)
  BY FileRunsExist DEF Traced
<1> DEFINE OK(n) == LET b == ByteAt(f[n].buf, k) IN b = 0 \/ Seen(p, ino, k, b)
           S == {n \in 0..N : OK(n)}
<1>3. 0 \in S
  <2>1. f[0] = p.base[ino] /\ f[0] = CrashFs(p, s \cap (1..0))[ino] /\ g[0] = CrashFs(p, 1..0)[ino]
    BY <1>1, <1>2 DEF FileRuns
  <2>2. s \cap (1..0) = 1..0
    OBVIOUS
  <2>3. f[0].len = Len(f[0].buf) /\ f[0].len \in Nat
    BY <2>1 DEF Traced, Typed, FilesWhole, Whole, TypedFile
  <2>4. CASE k <= f[0].len
    <3>1. k \in 1..f[0].len
      BY <2>3, <2>4
    <3>2. Shows(CrashFs(p, 1..0)[ino], k, ByteAt(f[0].buf, k))
      BY <2>1, <2>2, <3>1 DEF Shows
    <3>3. 0 \in 0..N
      BY <1>1
    <3> QED BY <1>1, <3>2, <3>3 DEF Seen
  <2>5. CASE ~(k <= f[0].len)
    BY <1>1, <2>3, <2>5 DEF ByteAt
  <2> QED BY <2>4, <2>5
<1>4. ASSUME NEW n \in 0..(N-1), n \in S PROVE n + 1 \in S
  <2>1. n + 1 \in 1..N /\ n + 1 \in 0..N /\ (n + 1) - 1 = n /\ OK(n) /\ n \in 0..N
    BY <1>1, <1>4
  <2> DEFINE m == p.micro[n+1].m
             x == f[n]
             y == f[n+1]
  <2>2. TypedFile(x) /\ y = IF n + 1 \in s /\ ToFile(m, ino) THEN OnFile(x, m) ELSE x
    BY <1>2, <2>1 DEF FileRuns
  <2>3. n + 1 \in DOMAIN p.micro /\ TypedData(m)
    BY <1>1, <2>1 DEF Traced, Typed
  <2>4. CASE n + 1 \in s /\ ToFile(m, ino) /\ m.kind = "Write"
    <3>1. y = OnFile(x, m) /\ m.ino = ino
      BY <2>2, <2>4 DEF ToFile
    <3>2. ByteAt(y.buf, k) = ByteAt(x.buf, k) \/ Seen(p, ino, k, ByteAt(y.buf, k))
      <4> HIDE DEF x, y
      <4> QED BY <2>2, <2>3, <2>4, <3>1, WritesSeen
    <3> QED BY <2>1, <3>2
  <2>5. CASE n + 1 \in s /\ ToFile(m, ino) /\ m.kind = "SetLen"
    <3>1. y = ApplySetLen(x, m) /\ m.len \in Nat /\ m.keep_tail \in BOOLEAN
      BY <2>2, <2>3, <2>5 DEF OnFile, TypedData
    <3>2. ByteAt(y.buf, k) = ByteAt(x.buf, k) \/ ByteAt(y.buf, k) = 0
      <4> HIDE DEF x, y, m
      <4> QED BY <2>2, <3>1, SetLenOf
    <3> QED BY <2>1, <3>2
  <2>6. CASE ~(n + 1 \in s /\ ToFile(m, ino))
    BY <2>1, <2>2, <2>6
  <2> QED BY <2>4, <2>5, <2>6 DEF ToFile
<1>5. 0..N \subseteq S
  <2> HIDE DEF S, N
  <2> QED BY <1>1, <1>3, <1>4, UpTo
<1>6. OK(N)
  BY <1>1, <1>5
<1>7. f[N] = CrashFs(p, s)[ino]
  BY <1>2 DEF FileRuns
<1> QED BY <1>6, <1>7

\* In a legal state of ext4 a persisted size extension is preceded by all that
\* was done to the file before.
LEMMA ExtensionWhole ==
    ASSUME NEW p, Sound(p), p.profile = "ext4", NEW point, NEW s, Legal(p, point, s),
           Before(p, point) = DOMAIN p.micro,
           NEW ino \in 1..Len(p.base), p.base[ino].kind = "file",
           NEW n \in DOMAIN p.micro, n \in s, ToFile(p.micro[n].m, ino),
           p.micro[n].m.kind = "SetLen", p.micro[n].m.keep_tail
    PROVE  CrashFs(p, s \cap (1..n))[ino] = CrashFs(p, 1..n)[ino]
<1> DEFINE t == s \cap (1..n)
           u == 1..n
<1>1. ASSUME NEW j \in DOMAIN p.micro, ToFile(p.micro[j].m, ino) PROVE j \in t <=> j \in u
  <2>1. SUFFICES ASSUME j \in u PROVE j \in s
    OBVIOUS
  <2>2. CASE j = n
    BY <2>2
  <2>3. CASE j # n
    <3>1. j < n
      BY <2>1, <2>3 DEF Sound
    <3>2. /\ (IsMeta(p.micro[j].m) /\ IsMeta(p.micro[n].m)) => j \in s
          /\ (p.micro[j].m.kind = "Write" /\ p.micro[j].m.ino = p.micro[n].m.ino) => j \in s
      BY <3>1 DEF Legal
    <3> QED BY <1>1, <3>2 DEF ToFile, IsMeta
  <2> QED BY <2>2, <2>3
<1>2. SameData(p, ino, t, u)
  BY <1>1 DEF SameData
<1> HIDE DEF t, u
<1>3. CrashFs(p, t)[ino] = CrashFs(p, u)[ino]
  BY <1>2, FileSurvives
<1> QED BY <1>3 DEF t, u

\* No size change of ino among the first n micro-ops is lost.
SizesKept(p, ino, s, n) ==
    \A j \in 1..n : ToFile(p.micro[j].m, ino) /\ p.micro[j].m.kind = "SetLen" => j \in s

\* In a legal state of ext4 every byte a reader finds was seen there.
LEMMA BytesSeenOnExt4 ==
    ASSUME NEW p, Sound(p), Traced(p), p.profile = "ext4", NEW point, NEW s, Legal(p, point, s),
           Before(p, point) = DOMAIN p.micro,
           NEW ino \in 1..Len(p.base), p.base[ino].kind = "file"
    PROVE  \A k \in 1..CrashFs(p, s)[ino].len :
              Seen(p, ino, k, ByteAt(CrashFs(p, s)[ino].buf, k))
<1> DEFINE N == Len(IssuedOf(p))
<1>1. N \in Nat /\ DOMAIN p.micro = 1..N
  BY DEF Sound
<1>2. PICK f, g : FileRuns(p, ino, s, f, g)
  BY FileRunsExist DEF Traced
<1> DEFINE OK(n) == /\ \A k \in 1..f[n].len : Seen(p, ino, k, ByteAt(f[n].buf, k))
                    /\ SizesKept(p, ino, s, n) => f[n].len = g[n].len
           S == {n \in 0..N : OK(n)}
<1>a. ASSUME NEW n \in 0..N, NEW k \in 1..g[n].len PROVE Seen(p, ino, k, ByteAt(g[n].buf, k))
  <2>1. g[n] = CrashFs(p, 1..n)[ino]
    BY <1>2 DEF FileRuns
  <2>2. Shows(CrashFs(p, 1..n)[ino], k, ByteAt(g[n].buf, k))
    BY <2>1 DEF Shows
  <2> QED BY <2>2 DEF Seen
<1>3. 0 \in S
  <2>1. f[0] = g[0]
    <3>1. f[0] = CrashFs(p, s \cap (1..0))[ino] /\ g[0] = CrashFs(p, 1..0)[ino]
      <4>1. 0 \in 0..N
        BY <1>1
      <4>2. /\ \A n \in 0..N : f[n] = CrashFs(p, s \cap (1..n))[ino]
            /\ \A n \in 0..N : g[n] = CrashFs(p, 1..n)[ino]
        BY <1>2 DEF FileRuns
      <4> HIDE DEF N
      <4> QED BY <4>1, <4>2
    <3>2. s \cap (1..0) = 1..0
      OBVIOUS
    <3> QED BY <3>1, <3>2
  <2>2. 0 \in 0..N
    BY <1>1
  <2> QED BY <1>a, <2>1, <2>2
<1>4. ASSUME NEW n \in 0..(N-1), n \in S PROVE n + 1 \in S
  <2>1. /\ n + 1 \in 1..N /\ n + 1 \in 0..N /\ (n + 1) - 1 = n /\ OK(n) /\ n \in 0..N
        /\ n + 1 \in DOMAIN p.micro /\ 1..n \subseteq 1..(n + 1)
    BY <1>1, <1>4
  <2> DEFINE m == p.micro[n+1].m
             x == f[n]
             y == f[n+1]
             z == g[n]
             w == g[n+1]
  <2>2. /\ TypedFile(x) /\ TypedFile(y) /\ TypedFile(z) /\ TypedFile(w)
        /\ y = IF n + 1 \in s /\ ToFile(m, ino) THEN OnFile(x, m) ELSE x
        /\ w = IF ToFile(m, ino) THEN OnFile(z, m) ELSE z
        /\ y = CrashFs(p, s \cap (1..(n + 1)))[ino] /\ w = CrashFs(p, 1..(n + 1))[ino]
    BY <1>2, <2>1 DEF FileRuns
  <2>3. TypedData(m)
    BY <2>1 DEF Traced, Typed
  <2>4. /\ x.len \in Nat /\ y.len \in Nat /\ z.len \in Nat
        /\ \A k \in 1..x.len : Seen(p, ino, k, ByteAt(x.buf, k))
        /\ SizesKept(p, ino, s, n) => x.len = z.len
        /\ SizesKept(p, ino, s, n + 1) => SizesKept(p, ino, s, n)
        /\ \A k \in 1..w.len : Seen(p, ino, k, ByteAt(w.buf, k))
    BY <1>a, <2>1, <2>2 DEF TypedFile, SizesKept
  <2> SUFFICES /\ \A k \in 1..y.len : Seen(p, ino, k, ByteAt(y.buf, k))
               /\ SizesKept(p, ino, s, n + 1) => y.len = w.len
    BY <2>1
  <2>5. CASE ~ToFile(m, ino)
    BY <2>2, <2>4, <2>5
  <2>6. CASE ToFile(m, ino) /\ m.kind = "Write"
    <3>1. m.ino = ino /\ w = OnFile(z, m) /\ (y = OnFile(x, m) \/ y = x)
      BY <2>2, <2>6 DEF ToFile
    <3>2. w.len = z.len
      <4>1. m.offset \in Nat /\ m.data \in Seq(Nat)
        BY <2>3, <2>6 DEF TypedData
      <4> HIDE DEF w, z, m
      <4> QED BY <2>2, <2>6, <3>1, <4>1, WriteOf
    <3>3. CASE y = OnFile(x, m)
      <4>1. ASSUME NEW k \in Nat \ {0}
            PROVE  /\ y.len = x.len
                   /\ ByteAt(y.buf, k) = ByteAt(x.buf, k) \/ Seen(p, ino, k, ByteAt(y.buf, k))
        <5> HIDE DEF x, y
        <5> QED BY <2>1, <2>2, <2>6, <3>1, <3>3, WritesSeen
      <4>2. y.len = x.len
        <5>1. 1 \in Nat \ {0}
          OBVIOUS
        <5> HIDE DEF x, y
        <5> QED BY <4>1, <5>1
      <4>3. ASSUME NEW k \in 1..y.len PROVE Seen(p, ino, k, ByteAt(y.buf, k))
        <5>1. k \in Nat \ {0} /\ k \in 1..x.len
          BY <2>4, <4>2
        <5> HIDE DEF x, y
        <5> QED BY <2>4, <4>1, <5>1
      <4> HIDE DEF x, y, z, w
      <4> QED BY <2>4, <3>2, <4>2, <4>3
    <3>4. CASE y = x
      BY <2>4, <3>2, <3>4
    <3> QED BY <3>1, <3>3, <3>4
  <2>7. CASE ToFile(m, ino) /\ m.kind = "SetLen" /\ n + 1 \notin s
    <3>1. ~SizesKept(p, ino, s, n + 1)
      BY <2>1, <2>7 DEF SizesKept
    <3> QED BY <2>2, <2>4, <2>7, <3>1
  <2>8. CASE ToFile(m, ino) /\ m.kind = "SetLen" /\ n + 1 \in s /\ m.keep_tail
    <3>1. y = w
      BY <2>1, <2>2, <2>8, ExtensionWhole
    <3> QED BY <2>4, <3>1
  <2>9. CASE ToFile(m, ino) /\ m.kind = "SetLen" /\ n + 1 \in s /\ ~m.keep_tail
    <3>1. y = ApplySetLen(x, m) /\ w = ApplySetLen(z, m) /\ m.len \in Nat /\ m.keep_tail \in BOOLEAN
      BY <2>2, <2>3, <2>9 DEF OnFile, TypedData
    <3>2. SizesKept(p, ino, s, n)
      <4>1. ASSUME NEW j \in 1..n, p.micro[j].m.kind = "SetLen" PROVE j \in s
        <5>1. j \in DOMAIN p.micro /\ j < n + 1
          BY <1>1, <2>1
        <5>2. IsMeta(p.micro[j].m) /\ IsMeta(m)
          BY <2>9, <4>1 DEF IsMeta
        <5> QED BY <2>1, <2>9, <5>1, <5>2 DEF Legal
      <4> QED BY <4>1 DEF SizesKept
    <3>3. x.len = z.len
      BY <2>4, <3>2
    <3>4. /\ y.len = m.len
          /\ \A k \in Nat \ {0} :
                ByteAt(y.buf, k) = IF k <= m.len /\ k <= x.len THEN ByteAt(x.buf, k) ELSE 0
      <4> HIDE DEF x, y, m
      <4> QED BY <2>2, <2>9, <3>1, SetLenOf
    <3>5. /\ w.len = m.len
          /\ \A k \in Nat \ {0} :
                ByteAt(w.buf, k) = IF k <= m.len /\ k <= z.len THEN ByteAt(z.buf, k) ELSE 0
      <4> HIDE DEF z, w, m
      <4> QED BY <2>2, <2>9, <3>1, SetLenOf
    <3> HIDE DEF x, y, z, w, m
    <3>6. ASSUME NEW k \in 1..y.len PROVE Seen(p, ino, k, ByteAt(y.buf, k))
      <4>1. k \in Nat \ {0} /\ k <= m.len /\ k \in 1..w.len
        BY <2>4, <3>4, <3>5
      <4>2. CASE k <= x.len
        <5>1. k \in 1..x.len /\ ByteAt(y.buf, k) = ByteAt(x.buf, k)
          BY <2>4, <3>4, <4>1, <4>2
        <5> QED BY <2>4, <5>1
      <4>3. CASE ~(k <= x.len)
        <5>1. ByteAt(y.buf, k) = 0 /\ ByteAt(w.buf, k) = 0
          BY <3>3, <3>4, <3>5, <4>1, <4>3
        <5> QED BY <2>4, <4>1, <5>1
      <4> QED BY <4>2, <4>3
    <3> QED BY <3>4, <3>5, <3>6
  <2> QED BY <2>5, <2>6, <2>7, <2>8, <2>9 DEF ToFile
<1>5. 0..N \subseteq S
  <2> HIDE DEF S, N
  <2> QED BY <1>1, <1>3, <1>4, UpTo
<1>6. OK(N)
  BY <1>1, <1>5
<1>7. f[N] = CrashFs(p, s)[ino]
  BY <1>2 DEF FileRuns
<1> QED BY <1>6, <1>7
-----------------------------------------------------------------------------
(* A program that grows *)

\* q has the micro-ops of p first, and on the inodes of p it starts with the same.
Extends(q, p) ==
    /\ Len(IssuedOf(p)) <= Len(IssuedOf(q))
    /\ \A j \in 1..Len(IssuedOf(p)) : q.micro[j].m = p.micro[j].m
    /\ Len(p.base) <= Len(q.base) /\ \A i \in 1..Len(p.base) : q.base[i] = p.base[i]

\* What the first micro-ops make of a file stays what it was.
LEMMA PastStays ==
    ASSUME NEW p, Sound(p), Typed(p), NEW q, Sound(q), Typed(q), Extends(q, p),
           NEW ino \in 1..Len(p.base), p.base[ino].kind = "file"
    PROVE  \A n \in 0..Len(IssuedOf(p)) : CrashFs(q, 1..n)[ino] = CrashFs(p, 1..n)[ino]
<1> DEFINE N == Len(IssuedOf(p))
<1>1. N \in Nat /\ Len(p.base) \in Nat /\ Len(q.base) \in Nat
  BY ImageShape DEF Sound
<1>2. ino \in 1..Len(q.base) /\ q.base[ino].kind = "file" /\ q.base[ino] = p.base[ino]
  BY <1>1 DEF Extends
<1>3. PICK e, g : FileRuns(p, ino, {}, e, g)
  BY FileRunsExist
<1>4. PICK d, h : FileRuns(q, ino, {}, d, h)
  BY <1>2, FileRunsExist
<1>5. \A n \in 0..N : n \in 0..Len(IssuedOf(q))
  BY <1>1 DEF Extends, Sound
<1>6. /\ \A n \in 0..N : g[n] = CrashFs(p, 1..n)[ino] /\ h[n] = CrashFs(q, 1..n)[ino]
      /\ e[0] = p.base[ino] /\ e[0] = CrashFs(p, {} \cap (1..0))[ino]
      /\ d[0] = q.base[ino] /\ d[0] = CrashFs(q, {} \cap (1..0))[ino]
  BY <1>1, <1>3, <1>4, <1>5 DEF FileRuns
<1> DEFINE X == {n \in 0..N : g[n] = h[n]}
<1>7. 0 \in X
  <2>1. {} \cap (1..0) = 1..0
    OBVIOUS
  <2> QED BY <1>1, <1>2, <1>6, <2>1
<1>8. ASSUME NEW n \in 0..(N-1), n \in X PROVE n + 1 \in X
  <2>1. n + 1 \in 1..N /\ n + 1 \in 0..N /\ (n + 1) - 1 = n /\ g[n] = h[n]
        /\ n + 1 \in 1..Len(IssuedOf(q))
    BY <1>1, <1>8 DEF Extends, Sound
  <2>2. q.micro[n+1].m = p.micro[n+1].m
    BY <2>1 DEF Extends
  <2>3. g[n+1] = IF ToFile(p.micro[n+1].m, ino) THEN OnFile(g[n], p.micro[n+1].m) ELSE g[n]
    BY <1>3, <2>1 DEF FileRuns
  <2>4. h[n+1] = IF ToFile(q.micro[n+1].m, ino) THEN OnFile(h[n], q.micro[n+1].m) ELSE h[n]
    BY <1>4, <2>1 DEF FileRuns
  <2> QED BY <2>1, <2>2, <2>3, <2>4
<1>9. 0..N \subseteq X
  <2> HIDE DEF X, N
  <2> QED BY <1>1, <1>7, <1>8, UpTo
<1> QED BY <1>6, <1>9

\* So what was seen stays seen.
LEMMA SeenStays ==
    ASSUME NEW p, Sound(p), Typed(p), NEW q, Sound(q), Typed(q), Extends(q, p),
           NEW ino \in 1..Len(p.base), p.base[ino].kind = "file", NEW k, NEW b, Seen(p, ino, k, b)
    PROVE  Seen(q, ino, k, b)
<1>1. PICK n \in 0..Len(IssuedOf(p)) : Shows(CrashFs(p, 1..n)[ino], k, b)
  BY DEF Seen
<1>2. CrashFs(q, 1..n)[ino] = CrashFs(p, 1..n)[ino]
  BY PastStays
<1>3. n \in 0..Len(IssuedOf(q))
  BY DEF Extends, Sound
<1> QED BY <1>1, <1>2, <1>3 DEF Seen

\* The micro-ops of q after the first N are those of a write to the file ino: c
\* pieces of data, and the size change if the write ends behind the end.
WritesOut(q, N, ino, offset, data, c) ==
    LET last == Len(IssuedOf(q))
        len  == CrashFs(q, 1..N)[ino].len
        end  == offset + Len(data)
    IN  /\ \A j \in 1..c : Piece(q.micro[N + j].m, ino, offset, data)
        /\ \/ last = N + c /\ end <= len
           \/ last = N + c + 1 /\ len < end /\ q.micro[last].m = SetLen(ino, end, TRUE)

\* A byte of a piece lies before its end.
LEMMA InsidePiece ==
    ASSUME NEW offset \in Nat, NEW data \in Seq(Nat), NEW end \in Nat,
           offset + Len(data) <= end, NEW i \in 1..Len(data)
    PROVE  offset + i \in Nat \ {0} /\ offset + i <= end
<1>1. Len(data) \in Nat /\ i \in Nat \ {0} /\ i <= Len(data)
  OBVIOUS
<1> QED BY <1>1

\* At the end of a write all of it is seen.
LEMMA WrittenIsSeen ==
    ASSUME NEW q, Sound(q), Typed(q), NEW ino \in 1..Len(q.base), q.base[ino].kind = "file",
           NEW N \in Nat, NEW offset \in Nat, NEW data \in Seq(Nat), NEW c \in Nat,
           WritesOut(q, N, ino, offset, data, c)
    PROVE  \A j \in (N + 1)..Len(IssuedOf(q)) : WriteSeen(q, q.micro[j].m)
<1> DEFINE last == Len(IssuedOf(q))
           end == offset + Len(data)
<1>1. last \in Nat /\ (last = N + c \/ last = N + c + 1) /\ end \in Nat
  <2>1. last \in Nat /\ end \in Nat
    BY DEF Sound
  <2>2. last = N + c \/ last = N + c + 1
    BY DEF WritesOut
  <2> QED BY <2>1, <2>2
<1>2. PICK d, g : FileRuns(q, ino, {}, d, g)
  BY FileRunsExist
<1>3. \A n \in 0..last : TypedFile(g[n]) /\ g[n] = CrashFs(q, 1..n)[ino]
  BY <1>2 DEF FileRuns
<1>4. \A n \in 1..last : g[n] = IF ToFile(q.micro[n].m, ino) THEN OnFile(g[n-1], q.micro[n].m)
                               ELSE g[n-1]
  BY <1>2 DEF FileRuns
<1> HIDE DEF last
<1> DEFINE h == [k \in 0..c |-> g[N + k]]
           ms == [k \in 1..c |-> q.micro[N + k].m]
<1>5. \A k \in 1..c : Piece(ms[k], ino, offset, data)
  BY DEF WritesOut
<1>6. h[0] = g[N] /\ TypedFile(h[0]) /\ h[c] = g[N + c]
  <2>1. N \in 0..last /\ N + 0 = N
    BY <1>1
  <2> QED BY <1>3, <2>1
<1>7. ASSUME NEW k \in 1..c PROVE h[k] = OnFile(h[k-1], ms[k])
  <2>1. N + k \in 1..last /\ (N + k) - 1 = N + (k - 1) /\ k \in 0..c /\ k - 1 \in 0..c
    BY <1>1
  <2>2. ToFile(q.micro[N + k].m, ino)
    BY DEF WritesOut, Piece, ToFile
  <2>3. g[N + k] = OnFile(g[N + (k - 1)], q.micro[N + k].m)
    BY <1>4, <2>1, <2>2
  <2> QED BY <2>1, <2>3
<1> HIDE DEF h, ms
<1>8. /\ TypedFile(h[c]) /\ h[c].len = h[0].len
      /\ \A j \in 1..c : Holds(h[c].buf, ms[j])
  BY <1>5, <1>6, <1>7, PiecesHeld
<1>9. /\ end <= g[last].len
      /\ \A k \in Nat \ {0} : k <= end => ByteAt(g[last].buf, k) = ByteAt(h[c].buf, k)
  <2>1. g[N].len = CrashFs(q, 1..N)[ino].len /\ h[0].len = g[N].len
    BY <1>1, <1>3, <1>6
  <2>2. CASE last = N + c /\ end <= CrashFs(q, 1..N)[ino].len
    BY <1>6, <1>8, <2>1, <2>2
  <2>3. CASE /\ last = N + c + 1 /\ CrashFs(q, 1..N)[ino].len < end
             /\ q.micro[last].m = SetLen(ino, end, TRUE)
    <3> DEFINE m == SetLen(ino, end, TRUE)
    <3>1. m.kind = "SetLen" /\ m.ino = ino /\ m.len = end /\ m.keep_tail = TRUE
      BY DEF SetLen
    <3>2. last \in 1..last /\ last - 1 = N + c
      BY <1>1, <2>3
    <3>3. g[last] = ApplySetLen(h[c], m)
      <4>1. ToFile(q.micro[last].m, ino) /\ q.micro[last].m = m
        BY <2>3, <3>1 DEF ToFile
      <4>2. g[last] = OnFile(g[N + c], m)
        BY <1>4, <3>2, <4>1
      <4> QED BY <1>6, <3>1, <4>2 DEF OnFile
    <3> HIDE DEF m
    <3>4. /\ g[last].len = end
          /\ \A k \in Nat \ {0} :
                ByteAt(g[last].buf, k) = IF \/ k <= m.len /\ k <= h[c].len
                                            \/ m.keep_tail /\ h[c].len <= m.len
                                         THEN ByteAt(h[c].buf, k) ELSE 0
      <4> DEFINE x == h[c]
                 y == g[last]
      <4>1. TypedFile(x) /\ m.len \in Nat /\ m.keep_tail \in BOOLEAN /\ y = ApplySetLen(x, m)
        BY <1>1, <1>8, <3>1, <3>3
      <4> HIDE DEF x, y
      <4>2. y.len = m.len
        BY <4>1, SetLenOf
      <4>3. \A k \in Nat \ {0} :
               ByteAt(y.buf, k) = IF (k <= m.len /\ k <= x.len) \/ (m.keep_tail /\ x.len <= m.len)
                                  THEN ByteAt(x.buf, k) ELSE 0
        BY <4>1, SetLenOf
      <4> QED BY <3>1, <4>2, <4>3 DEF x, y
    <3>5. h[c].len <= end
      BY <1>1, <1>8, <2>1, <2>3 DEF TypedFile
    <3> QED BY <1>1, <3>1, <3>4, <3>5
  <2> QED BY <2>2, <2>3 DEF WritesOut, last
<1>10. ASSUME NEW j \in (N + 1)..last PROVE WriteSeen(q, q.micro[j].m)
  <2> DEFINE m == q.micro[j].m
  <2>1. SUFFICES ASSUME m.kind = "Write"
                 PROVE  /\ m.ino = ino
                        /\ \A i \in 1..Len(m.data) : Seen(q, ino, m.offset + i, m.data[i])
    BY DEF WriteSeen
  <2>2. j - N \in 1..c /\ N + (j - N) = j
    <3>1. ~(j = N + c + 1)
      <4>1. SUFFICES ASSUME j = N + c + 1 PROVE FALSE
        OBVIOUS
      <4>2. j = last /\ last # N + c
        BY <1>1, <4>1
      <4>3. m = SetLen(ino, end, TRUE)
        BY <1>1, <4>2 DEF WritesOut, last
      <4> QED BY <2>1, <4>3 DEF SetLen
    <3> QED BY <1>1, <3>1
  <2>3. Piece(m, ino, offset, data) /\ Holds(h[c].buf, m)
    <3>1. ms[j - N] = m
      BY <2>2 DEF ms
    <3> QED BY <1>5, <1>8, <2>2, <3>1
  <2> HIDE DEF m
  <2>4. /\ m.ino = ino /\ m.offset \in Nat /\ m.data \in Seq(Nat)
        /\ m.offset + Len(m.data) <= end
    BY <2>3 DEF Piece
  <2> SUFFICES ASSUME NEW i \in 1..Len(m.data) PROVE Seen(q, ino, m.offset + i, m.data[i])
    BY <2>4
  <2>5. m.offset + i \in Nat \ {0} /\ m.offset + i <= end
    <3>1. end \in Nat
      BY <1>1
    <3> HIDE DEF end
    <3> QED BY <2>4, <3>1, InsidePiece
  <2>6. ByteAt(g[last].buf, m.offset + i) = m.data[i]
    BY <1>9, <2>1, <2>3, <2>5 DEF Holds
  <2>7. last \in 0..last /\ g[last].len \in Nat
    BY <1>1, <1>3 DEF TypedFile
  <2>8. Shows(g[last], m.offset + i, m.data[i])
    BY <1>1, <1>9, <2>5, <2>6, <2>7 DEF Shows
  <2>9. Shows(CrashFs(q, 1..last)[ino], m.offset + i, m.data[i])
    BY <1>3, <2>7, <2>8
  <2> QED BY <2>4, <2>7, <2>9 DEF Seen, last
<1> QED BY <1>10 DEF last

\* A program that has grown by micro-ops whose bytes are seen is still traced.
LEMMA TracedGrows ==
    ASSUME NEW p, Sound(p), Traced(p), NEW q, Sound(q), Typed(q), Extends(q, p),
           \A j \in (Len(IssuedOf(p)) + 1)..Len(IssuedOf(q)) : WriteSeen(q, q.micro[j].m)
    PROVE  Traced(q)
<1> DEFINE N == Len(IssuedOf(p))
           M == Len(IssuedOf(q))
<1>1. N \in Nat /\ M \in Nat /\ N <= M /\ DOMAIN p.micro = 1..N /\ DOMAIN q.micro = 1..M
  BY DEF Sound, Extends
<1>2. ASSUME NEW j \in 1..N PROVE WriteSeen(q, q.micro[j].m)
  <2> DEFINE m == p.micro[j].m
  <2>1. q.micro[j].m = m /\ WriteSeen(p, m)
    BY <1>1 DEF Extends, Traced
  <2>2. SUFFICES ASSUME m.kind = "Write"
                 PROVE  /\ q.base[m.ino].kind = "file"
                        /\ \A i \in 1..Len(m.data) : Seen(q, m.ino, m.offset + i, m.data[i])
    BY <2>1 DEF WriteSeen
  <2>3. /\ p.base[m.ino].kind = "file"
        /\ \A i \in 1..Len(m.data) : Seen(p, m.ino, m.offset + i, m.data[i])
    BY <2>1, <2>2 DEF WriteSeen
  <2>4. m.ino \in 1..Len(p.base)
    <3>1. Fits(m, Len(p.base))
      BY <1>1 DEF Sound
    <3> QED BY <2>2, <3>1 DEF Fits
  <2>5. q.base[m.ino] = p.base[m.ino]
    BY <2>4 DEF Extends
  <2> QED BY <2>3, <2>4, <2>5, SeenStays DEF Traced
<1>3. \A j \in 1..M : j \in 1..N \/ j \in (N + 1)..M
  BY <1>1
<1> QED BY <1>1, <1>2, <1>3 DEF Traced

-----------------------------------------------------------------------------
(* Replaying the micro-ops of one op *)

\* The program is one whose micro-ops fit, and replaying them all gives v.
LEMMA ProgramIsSound ==
    ASSUME TypeOK, ImageOK
    PROVE  /\ Sound(Program) /\ Program.micro = micro /\ Program.base = base
           /\ Program.profile = profile
           /\ CrashFs(Program, DOMAIN micro) = v
<1>1. Program.micro = micro /\ Program.base = base /\ Program.profile = profile
  BY DEF Program
<1>2. IssuedOf(Program) = Issued
  BY <1>1 DEF IssuedOf, Issued
<1>3. Len(Issued) = Len(micro) /\ Len(micro) \in Nat /\ DOMAIN micro = 1..Len(micro)
      /\ Len(base) = Len(v) /\ IsImage(base)
  BY TablesType DEF ImageOK
<1>4. \A j \in DOMAIN micro : Fits(micro[j].m, Len(base))
  BY <1>3 DEF ImageOK, Fitting, Issued
<1>5. Sound(Program)
  BY <1>1, <1>2, <1>3, <1>4 DEF Sound
<1>6. CrashFs(Program, DOMAIN micro) = ApplyAll(base, Issued, DOMAIN Issued)
  BY <1>1 DEF CrashFs, Issued
<1>7. CrashFs(Program, DOMAIN micro) = v
  BY <1>6 DEF ImageOK, Replay
<1> QED BY <1>1, <1>5, <1>7

\* Replaying one micro-op is applying it, and replaying none is nothing.
LEMMA ShortReplay ==
    ASSUME NEW fs
    PROVE  Replay(fs, <<>>) = fs /\ \A m : Replay(fs, <<m>>) = Apply(fs, m)
<1>1. Replay(fs, <<>>) = fs
  <2> DEFINE ms == <<>>
  <2>1. Len(ms) = 0
    OBVIOUS
  <2> HIDE DEF ms
  <2>2. PICK f : Steps(f, fs, ms, DOMAIN ms, Len(ms)) /\ ApplyAll(fs, ms, DOMAIN ms) = f[Len(ms)]
    BY <2>1, ApplyAllRun
  <2>3. Replay(fs, ms) = fs
    BY <2>1, <2>2 DEF Steps, Replay
  <2> QED BY <2>3 DEF ms
<1>2. ASSUME NEW m PROVE Replay(fs, <<m>>) = Apply(fs, m)
  <2> DEFINE ms == <<m>>
  <2>1. Len(ms) = 1 /\ DOMAIN ms = 1..1 /\ ms[1] = m
    OBVIOUS
  <2> HIDE DEF ms
  <2>2. PICK f : Steps(f, fs, ms, DOMAIN ms, Len(ms)) /\ ApplyAll(fs, ms, DOMAIN ms) = f[Len(ms)]
    BY <2>1, ApplyAllRun
  <2>3. f[0] = fs /\ f[1] = Apply(f[0], ms[1])
    <3>1. 1 \in 1..Len(ms) /\ 1 \in DOMAIN ms /\ 1 - 1 = 0
      BY <2>1
    <3> QED BY <2>2, <3>1 DEF Steps
  <2>4. Replay(fs, ms) = Apply(fs, m)
    BY <2>1, <2>2, <2>3 DEF Replay
  <2> QED BY <2>4 DEF ms
<1> QED BY <1>1, <1>2

\* Micro-ops about the data of one file.
DataOps(ms, ino) == ms \in Seq(Range(ms)) /\ \A k \in 1..Len(ms) : ToFile(ms[k], ino)

\* What a file is after each of the first n.
FileRun(h, ms, n) == \A k \in 1..n : h[k] = OnFile(h[k-1], ms[k])

\* x is the image fs, but for the file ino.
OtherFile(x, fs, ino) ==
    /\ IsImage(x) /\ Len(x) = Len(fs) /\ x[ino].kind = "file"
    /\ \A i \in 1..Len(fs) : i # ino => x[i] = fs[i]

\* They change that file step by step and nothing else.
LEMMA DataRun ==
    ASSUME NEW fs, IsImage(fs), NEW ino \in 1..Len(fs), fs[ino].kind = "file",
           NEW ms, DataOps(ms, ino), NEW x, x = Replay(fs, ms)
    PROVE  /\ OtherFile(x, fs, ino)
           /\ \E h : h[0] = fs[ino] /\ h[Len(ms)] = x[ino] /\ FileRun(h, ms, Len(ms))
<1> DEFINE n == Len(ms)
<1>1. n \in Nat /\ DOMAIN ms = 1..n
  BY DEF DataOps
<1>2. PICK f : Steps(f, fs, ms, DOMAIN ms, n) /\ x = f[n]
  BY <1>1, ApplyAllRun DEF Replay
<1>3. f[0] = fs /\ \A k \in 1..n : f[k] = Apply(f[k-1], ms[k])
  BY <1>1, <1>2 DEF Steps
<1>4. \A k \in 1..n : ToFile(ms[k], ino)
  BY DEF DataOps
<1> HIDE DEF n
<1> DEFINE OK(k) == /\ IsImage(f[k]) /\ Len(f[k]) = Len(fs) /\ f[k][ino].kind = "file"
                    /\ \A i \in 1..Len(fs) : i # ino => f[k][i] = fs[i]
           S == {k \in 0..n : OK(k)}
<1>5. 0 \in S
  BY <1>1, <1>3
<1>6. ASSUME NEW k \in 0..(n-1), OK(k)
      PROVE  OK(k + 1) /\ f[k+1][ino] = OnFile(f[k][ino], ms[k+1])
  <2>1. k + 1 \in 1..n /\ (k + 1) - 1 = k
    BY <1>1
  <2>2. f[k+1] = Apply(f[k], ms[k+1])
    BY <1>3, <2>1
  <2>3. ms[k+1].kind \in {"Write", "SetLen"} /\ ms[k+1].ino = ino
    BY <1>4, <2>1 DEF ToFile
  <2> DEFINE gs == f[k]
             m == ms[k+1]
             y == f[k+1]
  <2>4. IsImage(gs) /\ Len(gs) = Len(fs) /\ gs[ino].kind = "file"
        /\ y = Apply(gs, m) /\ m.kind \in {"Write", "SetLen"} /\ m.ino = ino
        /\ \A i \in 1..Len(fs) : i # ino => gs[i] = fs[i]
    BY <1>6, <2>2, <2>3
  <2> HIDE DEF gs, m, y
  <2>5. /\ IsImage(y) /\ Len(y) = Len(gs)
        /\ \A i \in 1..Len(gs) :
              /\ y[i].kind = gs[i].kind
              /\ i # m.ino \/ gs[i].kind = "dir" => y[i] = gs[i]
              /\ i = m.ino /\ gs[i].kind = "file" => y[i] = OnFile(gs[i], m)
    <3>1. m.ino \in 1..Len(gs)
      BY <2>4
    <3> QED BY <2>4, <3>1, ApplyData
  <2>6. /\ IsImage(y) /\ Len(y) = Len(fs) /\ y[ino].kind = "file"
        /\ y[ino] = OnFile(gs[ino], m)
        /\ \A i \in 1..Len(fs) : i # ino => y[i] = fs[i]
    BY <2>4, <2>5
  <2> QED BY <2>6 DEF gs, m, y
<1>7. ASSUME NEW k \in 0..(n-1), k \in S PROVE k + 1 \in S
  <2>1. OK(k) /\ k + 1 \in 0..n
    BY <1>1, <1>7
  <2>2. OK(k + 1)
    <3> HIDE DEF OK
    <3> QED BY <1>6, <2>1
  <2> HIDE DEF OK
  <2> QED BY <2>1, <2>2
<1>8. 0..n \subseteq S
  <2> HIDE DEF S
  <2> QED BY <1>1, <1>5, <1>7, UpTo
<1>9. \A k \in 0..n : OK(k)
  BY <1>8
<1> DEFINE h == [k \in 0..n |-> f[k][ino]]
<1>10. \A k \in 1..n : h[k] = OnFile(h[k-1], ms[k])
  <2> SUFFICES ASSUME NEW k \in 1..n PROVE h[k] = OnFile(h[k-1], ms[k])
    OBVIOUS
  <2>1. k - 1 \in 0..(n-1) /\ k - 1 \in 0..n /\ k \in 0..n /\ (k - 1) + 1 = k
    BY <1>1
  <2>2. OK(k - 1)
    BY <1>9, <2>1
  <2>3. f[k][ino] = OnFile(f[k-1][ino], ms[k])
    <3> HIDE DEF OK, S
    <3>1. f[(k-1)+1][ino] = OnFile(f[k-1][ino], ms[(k-1)+1])
      BY <1>6, <2>1, <2>2
    <3> QED BY <2>1, <3>1
  <2> QED BY <2>1, <2>3
<1>11. h[0] = fs[ino] /\ h[n] = x[ino] /\ OK(n)
  BY <1>1, <1>2, <1>3, <1>9
<1>12. OtherFile(x, fs, ino)
  BY <1>2, <1>11 DEF OtherFile
<1>13. FileRun(h, ms, n)
  BY <1>10 DEF FileRun
<1> HIDE DEF h
<1> QED BY <1>11, <1>12, <1>13 DEF n

\* A truncation does one thing to one file.
LEMMA SizeRun ==
    ASSUME NEW fs, IsImage(fs), NEW ino \in 1..Len(fs), fs[ino].kind = "file",
           NEW len, NEW x, x = Replay(fs, <<SetLen(ino, len, FALSE)>>)
    PROVE  OtherFile(x, fs, ino) /\ x[ino] = OnFile(fs[ino], SetLen(ino, len, FALSE))
<1> DEFINE m == SetLen(ino, len, FALSE)
           ms == <<m>>
<1>1. Len(ms) = 1 /\ ms[1] = m /\ ms \in Seq(Range(ms))
  BY ShortSeqs
<1>2. ToFile(m, ino)
  BY DEF SetLen, ToFile
<1> HIDE DEF m, ms
<1>3. DataOps(ms, ino)
  BY <1>1, <1>2 DEF DataOps
<1>4. x = Replay(fs, ms)
  BY DEF ms, m
<1>5. OtherFile(x, fs, ino)
  BY <1>3, <1>4, DataRun
<1>6. PICK h : h[0] = fs[ino] /\ h[Len(ms)] = x[ino] /\ FileRun(h, ms, Len(ms))
  BY <1>3, <1>4, DataRun
<1>7. h[1] = OnFile(h[0], ms[1])
  <2>1. 1 \in 1..Len(ms) /\ 1 - 1 = 0
    BY <1>1
  <2> QED BY <1>6, <2>1 DEF FileRun
<1>8. x[ino] = OnFile(fs[ino], m)
  BY <1>1, <1>6, <1>7
<1> QED BY <1>5, <1>8 DEF m

\* The first c micro-ops are pieces of the data, and with them all of it.
Pieces(ms, c, ino, offset, data) ==
    /\ c \in Nat /\ \A k \in 1..c : Piece(ms[k], ino, offset, data)
    /\ \A i \in 1..Len(data) : \E k \in 1..c : Covers(ms[k], offset + i)

\* n micro-ops: c pieces, and the size change of a write that needs one.
EndsWith(ms, n, c, ino, len, end) ==
    IF end > len THEN n = c + 1 /\ ms[c + 1] = SetLen(ino, end, TRUE) ELSE n = c

\* What is emitted for a write: pieces of the data, then the size change.
LEMMA PutsOps ==
    ASSUME NEW ino, NEW offset \in Nat, NEW data \in Seq(Nat),
           NEW ms, ms = Chunks(ino, offset, data) \o Grown(ino, offset + Len(data))
    PROVE  /\ DataOps(ms, ino)
           /\ \E c : /\ Pieces(ms, c, ino, offset, data)
                     /\ EndsWith(ms, Len(ms), c, ino, v[ino].len, offset + Len(data))
<1> DEFINE end == offset + Len(data)
<1>1. PICK c \in Nat : CutInto(ms, ino, offset, data, c)
  BY PutsShape
<1>2. ms \in Seq(Range(ms))
  <2> DEFINE cs == Chunks(ino, offset, data)
             grow == Grown(ino, end)
  <2>1. cs \in Seq(Range(cs))
    BY ChunksIsSeq
  <2>2. grow \in Seq(Range(grow))
    BY ShortSeqs DEF Grown
  <2>3. ms = cs \o grow
    OBVIOUS
  <2> HIDE DEF cs, grow
  <2> QED BY <2>1, <2>2, <2>3, ConcatIs
<1>3. Len(ms) \in Nat
  BY <1>2
<1>4. \A k \in 1..c : k \in 1..Len(ms) /\ Piece(ms[k], ino, offset, data)
  BY <1>1, <1>3, CutPieces
<1>5. /\ \A i \in 1..Len(data) : \E k \in 1..c : Covers(ms[k], offset + i)
      /\ IF end > v[ino].len THEN Len(ms) = c + 1 /\ ms[c + 1] = SetLen(ino, end, TRUE)
         ELSE Len(ms) = c
  BY <1>1 DEF CutInto
<1>6. Pieces(ms, c, ino, offset, data)
  BY <1>4, <1>5 DEF Pieces
<1> HIDE DEF end
<1>7. ASSUME NEW k \in 1..Len(ms) PROVE ToFile(ms[k], ino)
  <2>1. CASE k \in 1..c
    BY <1>4, <2>1 DEF Piece, ToFile
  <2>2. CASE k \notin 1..c
    <3>1. Len(ms) = c + 1 /\ ms[c + 1] = SetLen(ino, end, TRUE)
      <4>1. Len(ms) # c
        BY <1>3, <2>2
      <4> QED BY <1>5, <4>1
    <3>2. k = c + 1
      BY <1>3, <2>2, <3>1
    <3>3. SetLen(ino, end, TRUE).kind = "SetLen" /\ SetLen(ino, end, TRUE).ino = ino
      BY DEF SetLen
    <3> QED BY <3>1, <3>2, <3>3 DEF ToFile
  <2> QED BY <2>1, <2>2
<1>8. DataOps(ms, ino)
  BY <1>2, <1>7 DEF DataOps
<1>9. EndsWith(ms, Len(ms), c, ino, v[ino].len, end)
  BY <1>5 DEF EndsWith
<1> QED BY <1>6, <1>8, <1>9 DEF end

-----------------------------------------------------------------------------
(* What has to be synced after an op *)

\* No path leads to a node that was only appended.
LEMMA AppendedLooks ==
    ASSUME NEW fs, IsImage(fs), Len(fs) # 0, NEW node, NEW path \in Seq(Names)
    PROVE  Lookup(Append(fs, node), path) = Lookup(fs, path)
<1> DEFINE n == Len(path)
           x == Append(fs, node)
<1>1. n \in Nat /\ Len(fs) \in Nat /\ Root \in 0..Len(fs) /\ \A k \in 1..n : path[k] \in Names
  BY ImageShape DEF Root
<1>2. PICK f : /\ f[0] = Root /\ Lookup(fs, path) = f[n]
               /\ \A k \in 1..n : f[k] = Down(fs, f[k-1], path[k])
  BY WayOf
<1>3. PICK g : /\ g[0] = Root /\ Lookup(x, path) = g[n]
               /\ \A k \in 1..n : g[k] = Down(x, g[k-1], path[k])
  BY WayOf
<1>4. \A i \in 1..Len(fs) : x[i] = fs[i]
  BY Appended
<1> HIDE DEF n, x
<1>5. ASSUME NEW i \in 0..Len(fs), NEW name PROVE Down(x, i, name) = Down(fs, i, name)
  <2>1. i = NoIno \/ i \in 1..Len(fs)
    BY <1>1 DEF NoIno
  <2> QED BY <1>4, <2>1 DEF Down, IsDir
<1> DEFINE S == {k \in 0..n : f[k] = g[k] /\ f[k] \in 0..Len(fs)}
<1>6. 0 \in S
  BY <1>1, <1>2, <1>3
<1>7. ASSUME NEW k \in 0..(n-1), k \in S PROVE k + 1 \in S
  <2>1. k + 1 \in 1..n /\ k + 1 \in 0..n /\ (k + 1) - 1 = k /\ f[k] = g[k] /\ f[k] \in 0..Len(fs)
    BY <1>1, <1>7
  <2>2. f[k + 1] = Down(fs, f[k], path[k + 1]) /\ g[k + 1] = Down(x, g[k], path[k + 1])
    BY <1>2, <1>3, <2>1
  <2>3. path[k + 1] \in Names
    BY <1>1, <2>1
  <2>4. f[k + 1] = g[k + 1] /\ f[k + 1] \in 0..Len(fs)
    BY <1>5, <2>1, <2>2, <2>3, DownIs
  <2> QED BY <2>1, <2>4
<1>8. 0..n \subseteq S
  <2> HIDE DEF S
  <2> QED BY <1>1, <1>6, <1>7, UpTo
<1>9. f[n] = g[n]
  BY <1>1, <1>8
<1> QED BY <1>2, <1>3, <1>9 DEF x

\* The first n of more micro-ops make what the first n made.
LEMMA FirstOnes ==
    ASSUME NEW fs, NEW ms, Len(ms) \in Nat, NEW mt, Len(mt) \in Nat, Len(ms) <= Len(mt),
           \A k \in 1..Len(ms) : mt[k] = ms[k], NEW n \in 0..Len(ms)
    PROVE  ApplyAll(fs, mt, 1..n) = ApplyAll(fs, ms, 1..n)
<1> DEFINE N == Len(ms)
           M == Len(mt)
           s == 1..n
<1>1. PICK f : Steps(f, fs, ms, s, N) /\ ApplyAll(fs, ms, s) = f[N]
  BY ApplyAllRun
<1>2. PICK g : Steps(g, fs, mt, s, M) /\ ApplyAll(fs, mt, s) = g[M]
  BY ApplyAllRun
<1>3. N \in Nat /\ M \in Nat /\ N <= M /\ n \in 0..N /\ n \in 0..M
      /\ \A k \in 1..N : mt[k] = ms[k]
  OBVIOUS
<1>4. ApplyAll(fs, ms, s) = f[n]
  <2>1. IsPrefix(s, s, n)
    BY DEF IsPrefix
  <2> HIDE DEF s, N
  <2> QED BY <1>1, <1>3, <2>1, PrefixRun DEF N
<1>5. ApplyAll(fs, mt, s) = g[n]
  <2>1. IsPrefix(s, s, n)
    BY DEF IsPrefix
  <2> HIDE DEF s, M
  <2> QED BY <1>2, <1>3, <2>1, PrefixRun DEF M
<1>6. f[n] = g[n]
  <2>1. Steps(g, fs, mt, s, N)
    BY <1>2, <1>3 DEF Steps
  <2>2. SameSteps(ms, s, mt, s, N)
    BY <1>3 DEF SameSteps
  <2> HIDE DEF s, N
  <2>3. \A k \in 0..N : f[k] = g[k]
    BY <1>1, <1>3, <2>1, <2>2, RunsAgree
  <2> QED BY <1>3, <2>3
<1> QED BY <1>4, <1>5, <1>6

\* q goes on from p: at most one node more, and more micro-ops.
GoesOn(q, p) ==
    /\ Len(IssuedOf(p)) <= Len(IssuedOf(q))
    /\ \A j \in 1..Len(IssuedOf(p)) : q.micro[j].m = p.micro[j].m
    /\ q.base = p.base \/ \E node : q.base = Append(p.base, node)

\* What a path led to after some micro-ops of p, it leads to after them in q.
LEMMA PastLooks ==
    ASSUME NEW p, Sound(p), Len(p.base) # 0, NEW q, Sound(q), GoesOn(q, p),
           NEW n \in 0..Len(IssuedOf(p)), NEW path \in Seq(Names)
    PROVE  Lookup(CrashFs(q, 1..n), path) = Lookup(CrashFs(p, 1..n), path)
<1> DEFINE ms == IssuedOf(p)
           mt == IssuedOf(q)
           x == ApplyAll(p.base, ms, 1..n)
<1>1. CrashFs(p, 1..n) = x /\ CrashFs(q, 1..n) = ApplyAll(q.base, mt, 1..n)
  BY DEF CrashFs, IssuedOf
<1>2. /\ Len(ms) \in Nat /\ Len(mt) \in Nat /\ Len(ms) <= Len(mt) /\ n \in 0..Len(ms)
      /\ \A k \in 1..Len(ms) : mt[k] = ms[k]
  <2>1. \A k \in 1..Len(ms) : k \in DOMAIN p.micro /\ k \in DOMAIN q.micro
    BY DEF Sound, GoesOn
  <2> QED BY <2>1 DEF Sound, GoesOn, IssuedOf
<1>3. /\ IsImage(p.base) /\ RunFits(p.base, ms, 1..n, Len(ms))
  BY SoundFits DEF Sound
<1> HIDE DEF ms, mt
<1>4. ApplyAll(q.base, mt, 1..n) = ApplyAll(q.base, ms, 1..n)
  BY <1>2, FirstOnes
<1>5. CASE q.base = p.base
  BY <1>1, <1>4, <1>5
<1>6. CASE \E node : q.base = Append(p.base, node)
  <2>1. PICK node : q.base = Append(p.base, node)
    BY <1>6
  <2>2. ApplyAll(q.base, ms, 1..n) = Append(x, node)
    BY <1>2, <1>3, <2>1, RunFrame
  <2>3. IsImage(x) /\ Len(x) # 0
    BY <1>1, CrashKeepsKinds
  <2> HIDE DEF x
  <2>4. Lookup(Append(x, node), path) = Lookup(x, path)
    BY <2>3, AppendedLooks
  <2> QED BY <1>1, <1>4, <2>2, <2>4
<1> QED BY <1>5, <1>6 DEF GoesOn

\* The path to what an fsync has to be called on for a micro-op of op.
FlushPath(op, m) ==
    IF IsData(m) THEN IF op.op = "rename" THEN op.from ELSE op.path
    ELSE Parent(IF op.op = "rename" THEN op.to ELSE op.path)

LeadsTo(x, path, ino) == path \in Seq(Names) /\ Lookup(x, path) = ino

\* In the image x it leads there for each of the micro-ops.
AllLead(x, op, ms) ==
    \A k \in 1..Len(ms) : LeadsTo(x, FlushPath(op, ms[k]), FlushedWith(ms[k]))

\* The op emits micro-ops whose paths lead to what they are flushed with.
EmitsFound(op) ==
    \E fs, ms : ms \in Seq(Range(ms)) /\ Emit(fs, ms) /\ AllLead(v', op, ms)

\* One micro-op, or none.
LEMMA ShortLead ==
    ASSUME NEW x, NEW op
    PROVE  /\ AllLead(x, op, <<>>)
           /\ \A m : LeadsTo(x, FlushPath(op, m), FlushedWith(m)) => AllLead(x, op, <<m>>)
  BY DEF AllLead

LEMMA OneFound ==
    ASSUME NEW op, NEW fs, NEW m, Emit(fs, <<m>>),
           LeadsTo(v', FlushPath(op, m), FlushedWith(m))
    PROVE  EmitsFound(op)
<1>1. <<m>> \in Seq(Range(<<m>>)) /\ AllLead(v', op, <<m>>)
  BY ShortSeqs, ShortLead
<1> QED BY <1>1 DEF EmitsFound

LEMMA NoneFound ==
    ASSUME NEW op, NoEffect
    PROVE  v' = v /\ EmitsFound(op)
<1>1. Emit(v, <<>>)
  BY DEF NoEffect
<1>2. v' = v
  BY <1>1, ShortReplay DEF Emit
<1>3. <<>> \in Seq(Range(<<>>)) /\ AllLead(v', op, <<>>)
  BY ShortSeqs, ShortLead
<1> QED BY <1>1, <1>2, <1>3 DEF EmitsFound

\* A directory above a path stays where it is when the path is created, cut or moved to.
LEMMA ParentAbove ==
    ASSUME NEW p \in Seq(Names), p # <<>>
    PROVE  Parent(p) \in Seq(Names) /\ Parent(p) # p /\ ~OnWay(p, Parent(p)) /\ OnWay(Parent(p), p)
<1>1. Parent(p) \in Seq(Names) /\ Len(Parent(p)) = Len(p) - 1 /\ Len(p) \in Nat
  BY PathEnds
<1>2. ~OnWay(p, Parent(p)) /\ Parent(p) # p
  BY <1>1 DEF OnWay
<1>3. OnWay(Parent(p), p)
  <2>1. p = Append(Parent(p), BaseName(p)) /\ BaseName(p) \in Names
    BY PathEnds
  <2> DEFINE q == Parent(p)
             n == BaseName(p)
  <2>2. q \in Seq(Names) /\ n \in Names /\ p = Append(q, n)
    BY <1>1, <2>1
  <2> HIDE DEF q, n
  <2>3. OnWay(q, q)
    BY <2>2, OnWayOrder
  <2>4. OnWay(q, Append(q, n))
    BY <2>2, <2>3, OnWayEntry
  <2> QED BY <2>2, <2>4 DEF q
<1> QED BY <1>1, <1>2, <1>3

LEMMA CreateFound ==
    ASSUME Treelike(v), NEW op \in Ops, CreateOrMkdir(op), ~failed'
    PROVE  Treelike(v') /\ EmitsFound(op)
<1> DEFINE p == op.path
           node == IF op.op = "mkdir" THEN EmptyDir ELSE EmptyFile
           dir == Lookup(v, Parent(p))
           m == Link(dir, BaseName(p), Len(v) + 1)
<1>1. op.op \in {"create", "mkdir"} /\ p \in Seq(Names)
  BY PathsAssumption DEF CreateOrMkdir
<1>2. \/ NoEffect
      \/ Lookup(v, p) = NoIno /\ IsDir(v, dir) /\ Emit(Append(v, node), <<m>>)
  BY DEF CreateOrMkdir, Err
<1>3. CASE NoEffect
  BY <1>3, NoneFound
<1>4. CASE Lookup(v, p) = NoIno /\ IsDir(v, dir) /\ Emit(Append(v, node), <<m>>)
  <2>1. m.kind = "Link" /\ m.parent = dir /\ m.name = BaseName(p) /\ m.ino = Len(v) + 1
    BY DEF Link
  <2>2. node = EmptyDir \/ (node.kind = "file" /\ node = File(node.buf, node.len))
    BY DEF EmptyDir, EmptyFile, File
  <2>3. p # <<>>
    BY <1>4, LookupRoot DEF Root, NoIno
  <2>4. Emit(Append(v, node), <<m>>)
    BY <1>4
  <2> HIDE DEF m, node
  <2>5. v' = Apply(Append(v, node), m)
    BY <2>4, ShortReplay DEF Emit
  <2>6. v' = SetEntry(Append(v, node), dir, BaseName(p), Len(v) + 1)
    BY <2>1, <2>5 DEF Apply
  <2>7. GrownAt(v', v, p, node)
    BY <1>1, <1>4, <2>2, <2>3, <2>6, PlantLooks
  <2>8. Parent(p) \in Seq(Names) /\ Parent(p) # p
    BY <1>1, <2>3, ParentAbove
  <2>9. Lookup(v', Parent(p)) = dir
    BY <2>7, <2>8 DEF GrownAt
  <2>10. FlushPath(op, m) = Parent(p) /\ FlushedWith(m) = dir
    BY <1>1, <2>1 DEF FlushPath, FlushedWith, IsData
  <2>11. LeadsTo(v', FlushPath(op, m), FlushedWith(m))
    BY <2>8, <2>9, <2>10 DEF LeadsTo
  <2> QED BY <2>4, <2>7, <2>11, OneFound DEF GrownAt
<1> QED BY <1>2, <1>3, <1>4

LEMMA UnlinkFound ==
    ASSUME RootStays, Treelike(v), NEW op \in Ops, UnlinkOrRmdir(op), ~failed'
    PROVE  Treelike(v') /\ EmitsFound(op)
<1> DEFINE p == op.path
           dir == Lookup(v, Parent(p))
           m == Unlink(dir, BaseName(p))
<1>1. op.op \in {"unlink", "rmdir"} /\ p \in Seq(Names)
  BY PathsAssumption DEF UnlinkOrRmdir
<1>2. p # <<>>
  BY <1>1 DEF RootStays
<1>3. Lookup(v, p) # NoIno /\ Emit(v, <<m>>)
  BY DEF UnlinkOrRmdir, Err
<1>4. m.kind = "Unlink" /\ m.parent = dir /\ m.name = BaseName(p)
  BY DEF Unlink
<1> HIDE DEF m
<1>5. v' = Apply(v, m)
  BY <1>3, ShortReplay DEF Emit
<1>6. v' = SetEntry(v, dir, BaseName(p), NoIno)
  BY <1>4, <1>5 DEF Apply
<1>7. CutAt(v', v, p)
  BY <1>1, <1>2, <1>3, <1>6, CutLooks
<1>8. Parent(p) \in Seq(Names) /\ ~OnWay(p, Parent(p))
  BY <1>1, <1>2, ParentAbove
<1>9. Lookup(v', Parent(p)) = dir
  BY <1>7, <1>8 DEF CutAt
<1>10. FlushPath(op, m) = Parent(p) /\ FlushedWith(m) = dir
  BY <1>1, <1>4 DEF FlushPath, FlushedWith, IsData
<1>11. LeadsTo(v', FlushPath(op, m), FlushedWith(m))
  BY <1>8, <1>9, <1>10 DEF LeadsTo
<1> QED BY <1>3, <1>7, <1>11, OneFound DEF CutAt

LEMMA RenameFound ==
    ASSUME RootStays, Treelike(v), NEW op \in Ops, RenameOp(op), ~failed'
    PROVE  Treelike(v') /\ EmitsFound(op)
<1> DEFINE from == op.from
           to == op.to
           tp == Lookup(v, Parent(to))
           m == Rename(Lookup(v, Parent(from)), BaseName(from), tp, BaseName(to),
                       Lookup(v, from), Lookup(v, to) # NoIno)
<1>1. op.op = "rename" /\ from \in Seq(Names) /\ to \in Seq(Names)
  BY PathsAssumption DEF RenameOp
<1>2. from # <<>> /\ to # <<>>
  BY <1>1 DEF RootStays
<1>3. \/ NoEffect
      \/ /\ Lookup(v, from) # NoIno /\ from # to /\ ~Inside(from, to) /\ IsDir(v, tp)
         /\ Emit(v, <<m>>)
  BY DEF RenameOp, Err
<1>4. CASE NoEffect
  BY <1>4, NoneFound
<1>5. CASE /\ Lookup(v, from) # NoIno /\ from # to /\ ~Inside(from, to) /\ IsDir(v, tp)
           /\ Emit(v, <<m>>)
  <2>1. v' = Apply(v, m)
    BY <1>5, ShortReplay DEF Emit
  <2>2. Relinked(v', v, from, to)
    <3> DEFINE replaces == Lookup(v, to) # NoIno
    <3>1. m = Rename(Lookup(v, Parent(from)), BaseName(from), tp, BaseName(to),
                     Lookup(v, from), replaces)
      OBVIOUS
    <3> HIDE DEF m, replaces
    <3> QED BY <1>1, <1>2, <1>5, <2>1, <3>1, RenameRelinks
  <2>3. m.kind = "Rename" /\ m.to = tp /\ Emit(v, <<m>>)
    BY <1>5 DEF Rename
  <2> HIDE DEF m
  <2>4. ~OnWay(from, to)
    BY <1>1, <1>5, OnWayMeans
  <2>5. MoveAt(v', v, from, to)
    BY <1>1, <1>2, <1>5, <2>2, <2>4, MoveLooks
  <2>6. Parent(to) \in Seq(Names) /\ ~OnWay(to, Parent(to)) /\ OnWay(Parent(to), to)
    BY <1>1, <1>2, ParentAbove
  <2>7. ~OnWay(from, Parent(to))
    BY <1>1, <2>4, <2>6, OnWayOrder
  <2>8. Lookup(v', Parent(to)) = tp
    BY <2>5, <2>6, <2>7 DEF MoveAt
  <2>9. FlushPath(op, m) = Parent(to) /\ FlushedWith(m) = tp
    BY <1>1, <2>3 DEF FlushPath, FlushedWith, IsData
  <2>10. LeadsTo(v', FlushPath(op, m), FlushedWith(m))
    BY <2>6, <2>8, <2>9 DEF LeadsTo
  <2> QED BY <2>3, <2>5, <2>10, OneFound DEF MoveAt
<1> QED BY <1>3, <1>4, <1>5

\* Data micro-ops of a file are flushed with it, and lead no path elsewhere.
LEMMA DataFound ==
    ASSUME Treelike(v), NEW op \in Ops, op.op # "rename", op.path \in Seq(Names),
           NEW ino, ino = Lookup(v, op.path), IsFile(v, ino),
           NEW ms, DataOps(ms, ino), Emit(v, ms)
    PROVE  Treelike(v') /\ EmitsFound(op)
<1>1. IsImage(v) /\ ino \in 1..Len(v) /\ v[ino].kind = "file"
  <2>1. IsImage(v) /\ Len(v) # 0 /\ Len(v) \in Nat
    BY ImageShape DEF Treelike
  <2>2. ino \in 0..Len(v)
    BY <2>1, LookupIn
  <2> QED BY <2>1, <2>2 DEF IsFile, NoIno
<1>2. v' = Replay(v, ms)
  BY DEF Emit
<1>3. OtherFile(v', v, ino)
  BY <1>1, <1>2, DataRun
<1>4. FileSet(v', v, ino, v'[ino])
  BY <1>1, <1>3, FileLooks DEF OtherFile
<1>5. ASSUME NEW k \in 1..Len(ms)
      PROVE  LeadsTo(v', FlushPath(op, ms[k]), FlushedWith(ms[k]))
  <2>1. FlushPath(op, ms[k]) = op.path /\ FlushedWith(ms[k]) = ino
    BY DEF DataOps, ToFile, FlushPath, FlushedWith, IsData
  <2> QED BY <1>4, <2>1 DEF LeadsTo, FileSet
<1>6. ms \in Seq(Range(ms)) /\ AllLead(v', op, ms)
  BY <1>5 DEF DataOps, AllLead
<1> QED BY <1>4, <1>6 DEF EmitsFound, FileSet

LEMMA WriteFound ==
    ASSUME Treelike(v), NEW op \in Ops, WriteOp(op), ~failed'
    PROVE  Treelike(v') /\ EmitsFound(op)
<1> DEFINE ino == Lookup(v, op.path)
           ms == Chunks(ino, op.offset, op.data) \o Grown(ino, op.offset + Len(op.data))
<1>1. op.op # "rename" /\ op.path \in Seq(Names) /\ op.offset \in Nat /\ op.data \in Seq(Nat)
  BY PathsAssumption, CompileAssumption, BytesAssumption DEF WriteOp
<1>2. IsFile(v, ino) /\ Emit(v, ms)
  BY DEF WriteOp, Err, Grown
<1>3. DataOps(ms, ino)
  <2>1. ms = Chunks(ino, op.offset, op.data) \o Grown(ino, op.offset + Len(op.data))
    OBVIOUS
  <2> HIDE DEF ms, ino
  <2> QED BY <1>1, <2>1, PutsOps
<1> HIDE DEF ms
<1> QED BY <1>1, <1>2, <1>3, DataFound

LEMMA TruncateFound ==
    ASSUME Treelike(v), NEW op \in Ops, Truncate(op), ~failed'
    PROVE  Treelike(v') /\ EmitsFound(op)
<1> DEFINE ino == Lookup(v, op.path)
           m == SetLen(ino, op.len, FALSE)
           ms == <<m>>
<1>1. op.op # "rename" /\ op.path \in Seq(Names)
  BY PathsAssumption DEF Truncate
<1>2. IsFile(v, ino) /\ Emit(v, ms)
  BY DEF Truncate, Err
<1>3. ToFile(m, ino)
  BY DEF SetLen, ToFile
<1> HIDE DEF m
<1>4. DataOps(ms, ino)
  <2>1. ms \in Seq(Range(ms)) /\ Len(ms) = 1 /\ ms[1] = m
    BY ShortSeqs
  <2> HIDE DEF ms
  <2> QED BY <1>3, <2>1 DEF DataOps
<1> HIDE DEF ms
<1> QED BY <1>1, <1>2, <1>4, DataFound

\* Every op that does not fail emits what can be flushed where it says, or
\* nothing at all.
LEMMA OpIsFound ==
    ASSUME TypeOK, PendingOK, RootStays, Treelike(v), NEW op \in Ops, CompileOp(op), ~failed'
    PROVE  /\ Treelike(v')
           /\ EmitsFound(op) \/ \E listed : Flushes(listed)
<1>1. CASE CreateOrMkdir(op)
  BY <1>1, CreateFound
<1>2. CASE WriteOp(op)
  BY <1>2, WriteFound
<1>3. CASE Truncate(op)
  BY <1>3, TruncateFound
<1>4. CASE RenameOp(op)
  BY <1>4, RenameFound
<1>5. CASE UnlinkOrRmdir(op)
  BY <1>5, UnlinkFound
<1>6. CASE Fsync(op) \/ Sync(op) \/ Mark(op)
  <2>1. ~Stops
    BY DEF Stops
  <2>2. v' = v
    BY <1>6 DEF Fsync, Sync, Mark, EndOp, Err
  <2> QED BY <1>6, <2>1, <2>2, FsyncFlushes, SyncFlushes, MarkFlushes
<1> QED BY <1>1, <1>2, <1>3, <1>4, <1>5, <1>6 DEF CompileOp

\* The program is sound, and replaying its micro-ops gives the volatile view.
Replayed ==
    /\ Sound(Program) /\ Len(base) # 0
    /\ Len(IssuedOf(Program)) = Len(micro)
    /\ CrashFs(Program, 1..Len(micro)) = v

LEMMA NowReplayed ==
    ASSUME TypeOK, ImageOK
    PROVE  Replayed
<1>1. /\ Sound(Program) /\ Program.micro = micro /\ CrashFs(Program, DOMAIN micro) = v
  BY ProgramIsSound
<1>2. Len(micro) \in Nat /\ DOMAIN micro = 1..Len(micro)
  BY TablesType
<1>3. Len(IssuedOf(Program)) = Len(micro)
  BY <1>1, <1>2 DEF Sound
<1>4. Len(base) # 0
  BY DEF ImageOK
<1> QED BY <1>1, <1>2, <1>3, <1>4 DEF Replayed

\* After the op o of the program p, the path for its micro-op j leads to what
\* flushes it, when o is op.
Flushable(p, j, op) ==
    LeadsTo(CrashFs(p, 1..p.op_end[p.micro[j].op + 2]),
            FlushPath(op, p.micro[j].m), FlushedWith(p.micro[j].m))

\* The slices of the ops of p are the same in q.
SameSlices(q, p) ==
    \A j \in DOMAIN p.micro :
        /\ q.micro[j].op = p.micro[j].op
        /\ q.op_end[p.micro[j].op + 2] = p.op_end[p.micro[j].op + 2]
        /\ p.op_end[p.micro[j].op + 2] \in 0..Len(IssuedOf(p))

\* The paths lead there whatever the later ops are.
LEMMA StaysFlushable ==
    ASSUME NEW p, Sound(p), Len(p.base) # 0, NEW q, Sound(q), GoesOn(q, p), SameSlices(q, p),
           NEW j \in DOMAIN p.micro, NEW op, Flushable(p, j, op)
    PROVE  Flushable(q, j, op)
<1> DEFINE n == p.op_end[p.micro[j].op + 2]
           path == FlushPath(op, p.micro[j].m)
<1>1. n \in 0..Len(IssuedOf(p)) /\ q.op_end[q.micro[j].op + 2] = n
  BY DEF SameSlices
<1>2. q.micro[j].m = p.micro[j].m
  BY DEF GoesOn, Sound
<1>3. path \in Seq(Names) /\ Lookup(CrashFs(p, 1..n), path) = FlushedWith(p.micro[j].m)
  BY DEF Flushable, LeadsTo
<1> HIDE DEF n, path
<1>4. Lookup(CrashFs(q, 1..n), path) = Lookup(CrashFs(p, 1..n), path)
  BY <1>1, <1>3, PastLooks
<1>5. LeadsTo(CrashFs(q, 1..n), path, FlushedWith(p.micro[j].m))
  BY <1>3, <1>4 DEF LeadsTo
<1> QED BY <1>1, <1>2, <1>5 DEF Flushable, path

\* What an op emits is flushable after it.
LEMMA NewFlushable ==
    ASSUME TypeOK, Replayed', NEW op, EmitsFound(op)
    PROVE  \A j \in DOMAIN micro' \ DOMAIN micro :
              micro'[j].op = OpIndex /\ Flushable(Program', j, op)
<1>1. PICK fs, ms : ms \in Seq(Range(ms)) /\ Emit(fs, ms) /\ AllLead(v', op, ms)
  BY DEF EmitsFound
<1>2. /\ Len(ms) \in Nat /\ Len(micro') = Len(micro) + Len(ms) /\ Len(micro) \in Nat
      /\ DOMAIN micro' = 1..(Len(micro) + Len(ms)) /\ DOMAIN micro = 1..Len(micro)
      /\ \A j \in New(ms) : micro'[j] = [m |-> NewMicro(ms, j), op |-> OpIndex,
                                        durable_at |-> NEVER]
  BY <1>1, TablesType, EmitMicro
<1>3. op_end'[OpIndex + 2] = Len(micro')
  <2>1. op_end \in Seq(Nat) /\ op_end' = Append(op_end, Len(micro) + Len(ms))
    BY <1>1 DEF TypeOK, Emit
  <2>2. OpIndex + 2 = Len(op_end) + 1
    BY <2>1 DEF OpIndex
  <2> QED BY <1>2, <2>1, <2>2
<1>4. CrashFs(Program', 1..Len(micro')) = v'
  BY DEF Replayed
<1>5. Program'.micro = micro' /\ Program'.op_end = op_end'
  BY DEF Program
<1>6. ASSUME NEW j \in DOMAIN micro' \ DOMAIN micro
      PROVE  micro'[j].op = OpIndex /\ Flushable(Program', j, op)
  <2>1. j \in New(ms) /\ j - Len(micro) \in 1..Len(ms)
    BY <1>2 DEF New
  <2>2. micro'[j].op = OpIndex /\ micro'[j].m = ms[j - Len(micro)]
    <3>1. micro'[j] = [m |-> NewMicro(ms, j), op |-> OpIndex, durable_at |-> NEVER]
      BY <1>2, <2>1
    <3>2. micro'[j].op = OpIndex /\ micro'[j].m = NewMicro(ms, j)
      BY <3>1
    <3> QED BY <3>2 DEF NewMicro
  <2>3. LeadsTo(v', FlushPath(op, micro'[j].m), FlushedWith(micro'[j].m))
    BY <1>1, <2>1, <2>2 DEF AllLead
  <2> QED BY <1>3, <1>4, <1>5, <2>2, <2>3 DEF Flushable
<1> QED BY <1>6

\* A step of compile goes on from the program there was.
LEMMA ProgramGoesOn ==
    ASSUME TypeOK, PendingOK, ImageOK, Replayed, Replayed', [Next]_vars
    PROVE  /\ GoesOn(Program', Program) /\ SameSlices(Program', Program)
           /\ DOMAIN micro \subseteq DOMAIN micro'
<1> DEFINE p == Program
           q == Program'
           Slices == \A k \in 1..Len(op_end) : op_end'[k] = op_end[k]
           Nodes == base' = base \/ \E node : base' = Append(base, node)
           Micros == /\ DOMAIN micro \subseteq DOMAIN micro'
                     /\ \A j \in DOMAIN micro : micro'[j].m = micro[j].m /\ micro'[j].op = micro[j].op
<1>1. /\ p.micro = micro /\ p.op_end = op_end /\ p.base = base
      /\ q.micro = micro' /\ q.op_end = op_end' /\ q.base = base'
  BY DEF Program
<1>2. /\ Len(IssuedOf(p)) = Len(micro) /\ Len(IssuedOf(q)) = Len(micro')
      /\ DOMAIN micro = 1..Len(micro) /\ DOMAIN micro' = 1..Len(micro')
      /\ Len(micro) \in Nat /\ Len(micro') \in Nat
  BY <1>1 DEF Replayed, Sound
<1>3. Nodes /\ Micros
  <2>1. CASE v' = v /\ base' = base /\ micro' = micro
    BY <2>1
  <2>2. CASE \E fs, ms : EmitsFitting(fs, ms)
    <3>1. PICK fs, ms : EmitsFitting(fs, ms)
      BY <2>2
    <3>2. /\ Len(ms) \in Nat /\ DOMAIN micro' = 1..(Len(micro) + Len(ms))
          /\ \A j \in DOMAIN micro : micro'[j] = micro[j]
      BY <3>1, EmitMicro DEF EmitsFitting
    <3>3. Micros
      BY <1>2, <3>2
    <3>4. Nodes
      BY <3>1 DEF EmitsFitting, EmitsOn
    <3> QED BY <3>3, <3>4
  <2>3. CASE \E listed : Flushes(listed)
    <3>1. PICK listed : Flushes(listed)
      BY <2>3
    <3>2. base' = base
      BY <3>1 DEF Flushes, EndOp
    <3>3. DOMAIN micro' = DOMAIN micro
          /\ \A j \in DOMAIN micro : micro'[j].m = micro[j].m /\ micro'[j].op = micro[j].op
      BY <3>1, FlushMicro DEF Flushes
    <3> QED BY <3>2, <3>3
  <2> QED BY <2>1, <2>2, <2>3, StepFits
<1>4. Slices
  <2>1. op_end \in Seq(Nat)
    BY DEF TypeOK
  <2>2. op_end' = op_end \/ \E a : op_end' = Append(op_end, a)
    <3>1. CASE UNCHANGED vars
      BY <3>1 DEF vars
    <3>2. CASE Next
      <4>1. PICK op \in Ops : CompileOp(op)
        BY <3>2 DEF Next
      <4>2. CASE Emits
        BY <4>2 DEF Emits, Emit
      <4>3. CASE Stops
        BY <4>3 DEF Stops
      <4>4. CASE \E listed : Flushes(listed)
        BY <4>4 DEF Flushes, EndOp
      <4> QED BY <4>1, <4>2, <4>3, <4>4, TraceOps, StepCases
    <3> QED BY <3>1, <3>2
  <2> QED BY <2>1, <2>2
<1>5. GoesOn(q, p)
  <2>1. Len(micro) <= Len(micro')
    BY <1>2, <1>3
  <2> QED BY <1>1, <1>2, <1>3, <2>1 DEF GoesOn
<1>6. SameSlices(q, p)
  <2>1. ASSUME NEW j \in DOMAIN micro
        PROVE  micro[j].op + 2 \in 1..Len(op_end) /\ op_end[micro[j].op + 2] \in 0..Len(micro)
    <3>1. /\ op_end \in Seq(Nat) /\ micro[j].op \in 0..(OpIndex - 1)
          /\ \A k \in 1..Len(op_end) : op_end[k] <= Len(micro)
      BY DEF TypeOK
    <3>2. micro[j].op + 2 \in 1..Len(op_end)
      BY <3>1 DEF OpIndex
    <3> QED BY <1>2, <3>1, <3>2
  <2> QED BY <1>1, <1>2, <1>3, <1>4, <2>1 DEF SameSlices
<1> QED BY <1>3, <1>5, <1>6

\* One op of the trace: what was flushable still is, and so is what is new.
StepFlushable(op) ==
    /\ DOMAIN micro \subseteq DOMAIN micro'
    /\ \A j \in DOMAIN micro :
          /\ micro'[j].op = micro[j].op
          /\ \A o : Flushable(Program, j, o) => Flushable(Program', j, o)
    /\ \A j \in DOMAIN micro' \ DOMAIN micro :
          micro'[j].op = OpIndex /\ Flushable(Program', j, op)

\* An op that fails changes no image.
LEMMA FailureStops ==
    ASSUME NEW op, CompileOp(op), failed'
    PROVE  v' = v /\ micro' = micro
<1>1. Err
  BY DEF CompileOp, CreateOrMkdir, NoEffect, Emit, WriteOp, Truncate, RenameOp,
     UnlinkOrRmdir, Fsync, Sync, Mark, EndOp
<1> QED BY <1>1 DEF Err

LEMMA OpFlushable ==
    ASSUME TypeOK, PendingOK, ImageOK, Replayed, Replayed', RootStays, Treelike(v),
           NEW op \in Ops, CompileOp(op)
    PROVE  Treelike(v') /\ StepFlushable(op)
<1>1. [Next]_vars
  BY DEF Next
<1>2. /\ GoesOn(Program', Program) /\ SameSlices(Program', Program)
      /\ DOMAIN micro \subseteq DOMAIN micro'
  BY <1>1, ProgramGoesOn
<1>3. Program.micro = micro /\ Program'.micro = micro' /\ Program.base = base
  BY DEF Program
<1>4. Sound(Program) /\ Sound(Program') /\ Len(base) # 0
  BY DEF Replayed
<1>5. ASSUME NEW j \in DOMAIN micro
      PROVE  /\ micro'[j].op = micro[j].op
             /\ \A o : Flushable(Program, j, o) => Flushable(Program', j, o)
  <2>1. micro'[j].op = micro[j].op
    BY <1>2, <1>3 DEF SameSlices
  <2> DEFINE p == Program
             q == Program'
  <2>2. Sound(p) /\ Len(p.base) # 0 /\ Sound(q) /\ GoesOn(q, p) /\ SameSlices(q, p)
        /\ j \in DOMAIN p.micro
    BY <1>2, <1>3, <1>4
  <2> HIDE DEF p, q
  <2>3. \A o : Flushable(p, j, o) => Flushable(q, j, o)
    BY <2>2, StaysFlushable
  <2> QED BY <2>1, <2>3 DEF p, q
<1>6. CASE failed'
  <2>1. v' = v /\ micro' = micro
    BY <1>6, FailureStops
  <2> QED BY <1>2, <1>5, <2>1 DEF StepFlushable
<1>7. CASE ~failed'
  <2>1. Treelike(v') /\ (EmitsFound(op) \/ \E listed : Flushes(listed))
    BY <1>7, OpIsFound
  <2>2. CASE EmitsFound(op)
    BY <1>2, <1>5, <2>1, <2>2, NewFlushable DEF StepFlushable
  <2>3. CASE \E listed : Flushes(listed)
    <3>1. PICK listed : Flushes(listed)
      BY <2>3
    <3>2. DOMAIN micro' = DOMAIN micro
      BY <3>1, FlushMicro DEF Flushes
    <3> QED BY <1>2, <1>5, <2>1, <3>2 DEF StepFlushable
  <2> QED BY <2>1, <2>2, <2>3
<1> QED BY <1>6, <1>7

\* The image compile starts with is a tree.
LEMMA InitIsTree ==
    ASSUME Init
    PROVE  Treelike(v)
<1>1. PICK tree \in InitialTrees : v = FromTree(tree)
  BY DEF Init
<1>2. /\ IsFiniteSet(DOMAIN tree) /\ DOMAIN tree \subseteq Seq(Names) /\ IsSnapshot(tree)
      /\ \A p \in DOMAIN tree : tree[p].kind # "dir" => tree[p].data \in Seq(Nat)
  BY PathsAssumption, BytesAssumption, TreesAssumption
<1> QED BY <1>1, <1>2, FromTreeShows
=============================================================================
