--------------------------------- MODULE Fs ---------------------------------
(***************************************************************************)
(* The inode-level image of a directory (model.rs, struct Fs) and the      *)
(* micro-ops that change it.                                               *)
(*                                                                         *)
(* An image is a sequence of nodes, and an inode is an index into it:      *)
(* inode i of the code is i + 1 here, so the root directory is 1 and 0     *)
(* stands for None.  A directory entry name is a natural number, its rank  *)
(* in the BTreeMap's order; a path is a sequence of names and <<>> is the  *)
(* root itself.  A byte is a natural number and 0 the byte a hole reads.   *)
(***************************************************************************)
EXTENDS Naturals, Sequences, FiniteSets, FiniteSetsExt, Functions, TLC

CONSTANT Names    \* the directory entry names

ASSUME NamesAssumption == Names \subseteq Nat

\* The elements of S in the order Less.
Sorted(S, Less(_, _)) ==
    [k \in 1..Cardinality(S) |->
        CHOOSE x \in S : Cardinality({y \in S : Less(y, x)}) = k - 1]

NoIno == 0
Root == 1

Dir(entries) == [kind |-> "dir", entries |-> entries]
File(buf, len) == [kind |-> "file", buf |-> buf, len |-> len]
EmptyDir == Dir([n \in Names |-> NoIno])
EmptyFile == File(<<>>, 0)

IsDir(fs, ino) == ino # NoIno /\ fs[ino].kind = "dir"
IsFile(fs, ino) == ino # NoIno /\ fs[ino].kind = "file"

\* The units a file system may persist independently (model.rs, enum Micro).
Link(parent, name, ino) ==
    [kind |-> "Link", parent |-> parent, name |-> name, ino |-> ino]
Unlink(parent, name) ==
    [kind |-> "Unlink", parent |-> parent, name |-> name]
Rename(from, fromName, to, toName, ino, replaces) ==
    [kind |-> "Rename", from |-> from, from_name |-> fromName,
     to |-> to, to_name |-> toName, ino |-> ino, replaces |-> replaces]
Write(ino, offset, data) ==
    [kind |-> "Write", ino |-> ino, offset |-> offset, data |-> data]
SetLen(ino, len, keepTail) ==
    [kind |-> "SetLen", ino |-> ino, len |-> len, keep_tail |-> keepTail]

IsMeta(m) == m.kind # "Write"

-----------------------------------------------------------------------------
(* Paths *)

\* split: the parent path and the last name of a non-empty path.
Parent(path) == SubSeq(path, 1, Len(path) - 1)
BaseName(path) == path[Len(path)]

\* q lies below the directory p.
Inside(p, q) == Len(p) < Len(q) /\ SubSeq(q, 1, Len(p)) = p

\* The inode a path reaches: NoIno once a name is missing or a file is in the way.
Lookup(fs, path) ==
    LET reach[k \in 0..Len(path)] ==
            IF k = 0 THEN Root
            ELSE IF IsDir(fs, reach[k-1]) THEN fs[reach[k-1]].entries[path[k]]
            ELSE NoIno
    IN  reach[Len(path)]

-----------------------------------------------------------------------------
(* Applying a micro-op *)

Resize(buf, n) ==
    LET old == Len(buf) IN [k \in 1..n |-> IF k <= old THEN buf[k] ELSE 0]

\* buf grown to hold [offset, offset + Len(data)), then overwritten there.
Splice(buf, offset, data) ==
    LET old == Len(buf)
        end == offset + Len(data)
    IN  [k \in 1..(IF old < end THEN end ELSE old) |->
            IF offset < k /\ k <= end THEN data[k - offset]
            ELSE IF k <= old THEN buf[k] ELSE 0]

\* Point dir's entry at ino (NoIno removes it); nothing happens if dir is a file.
SetEntry(fs, dir, name, ino) ==
    IF IsDir(fs, dir) THEN [fs EXCEPT ![dir].entries[name] = ino] ELSE fs

\* Faulty variant: the source entry is left behind.
ApplyRenameKeepsSource(fs, m) == SetEntry(fs, m.to, m.to_name, m.ino)

\* A rename removes the source entry only if it still names the moved inode.
ApplyRename(fs, m) ==
    LET moved == IsDir(fs, m.from) /\ fs[m.from].entries[m.from_name] = m.ino
        cut   == IF moved THEN SetEntry(fs, m.from, m.from_name, NoIno) ELSE fs
    IN  SetEntry(cut, m.to, m.to_name, m.ino)

\* Faulty variant: shrinking leaves the bytes past the end in the buffer.
ApplySetLenUncut(node, m) == File(node.buf, m.len)

\* Shrinking discards data, a truncate-extension exposes zeros, and the
\* extension caused by a write keeps what was written past the old end.
ApplySetLen(node, m) ==
    LET keep == IF m.len < node.len THEN m.len ELSE node.len
        cut  == m.len < node.len \/ ~m.keep_tail
    IN  File(IF cut /\ keep < Len(node.buf) THEN SubSeq(node.buf, 1, keep) ELSE node.buf,
             m.len)

Apply(fs, m) ==
    CASE m.kind = "Link"   -> SetEntry(fs, m.parent, m.name, m.ino)
      [] m.kind = "Unlink" -> SetEntry(fs, m.parent, m.name, NoIno)
      [] m.kind = "Rename" -> ApplyRename(fs, m)
      [] m.kind = "Write"  -> IF IsFile(fs, m.ino)
                              THEN [fs EXCEPT ![m.ino].buf = Splice(@, m.offset, m.data)]
                              ELSE fs
      [] m.kind = "SetLen" -> IF IsFile(fs, m.ino)
                              THEN [fs EXCEPT ![m.ino] = ApplySetLen(@, m)]
                              ELSE fs

\* The micro-ops of ms with an index in kept, applied in order.
ApplyAll(fs, ms, kept) ==
    LET after[k \in 0..Len(ms)] ==
            IF k = 0 THEN fs
            ELSE IF k \in kept THEN Apply(after[k-1], ms[k]) ELSE after[k-1]
    IN  after[Len(ms)]

\* Faulty variant: emit forgets v.apply.
ReplayNothing(fs, ms) == fs

\* All of ms, applied in order: what emit does to the volatile view.
Replay(fs, ms) == ApplyAll(fs, ms, DOMAIN ms)

-----------------------------------------------------------------------------
(* Trees: what a reader of the directory sees (trace.rs, struct Tree) *)

DirEntry == [kind |-> "dir", data |-> <<>>]
FileEntry(data) == [kind |-> "file", data |-> data]

\* The visible content of a file: its buffer cut or zero-extended to its length.
Content(node) == Resize(node.buf, node.len)

\* What a reader sees of a node.
NodeEntry(node) == IF node.kind = "dir" THEN DirEntry ELSE FileEntry(Content(node))

\* The entries of a directory, in name order.
Entered(fs, ino) == Sorted({n \in Names : fs[ino].entries[n] # NoIno}, <)

\* An entry of a directory is listed; a directory that was not met yet is walked.
Visit(fs, walk, acc, path, child) ==
    LET sub == walk[[ino |-> child, prefix |-> path, seen |-> acc.seen]]
    IN  IF IsDir(fs, child) /\ child \notin acc.seen
        THEN [listed |-> acc.listed \cup {path} \cup sub.listed, seen |-> sub.seen]
        ELSE [listed |-> acc.listed \cup {path}, seen |-> acc.seen]

Visits(fs, walk, x) ==
    LET names == Entered(fs, x.ino)
        upto[k \in 0..Len(names)] ==
            IF k = 0 THEN [listed |-> {}, seen |-> x.seen \cup {x.ino}]
            ELSE Visit(fs, walk, upto[k-1], Append(x.prefix, names[k]),
                       fs[x.ino].entries[names[k]])
    IN  upto[Len(names)]

\* Depth-first in name order; a directory a crash state made reachable twice
\* is listed twice and walked only where it is met first.
Dirs(fs) == {i \in DOMAIN fs : fs[i].kind = "dir"}
Unseen(fs) ==
    {x \in [ino : Dirs(fs), prefix : Seq(Names), seen : SUBSET Dirs(fs)] : x.ino \notin x.seen}
Walk(fs) ==
    LET walk[x \in Unseen(fs)] == Visits(fs, walk, x)
    IN  walk[[ino |-> Root, prefix |-> <<>>, seen |-> {}]]

\* What is listed, with what its path leads to.
ToTree(fs) == [path \in Walk(fs).listed |-> NodeEntry(fs[Lookup(fs, path)])]

\* The BTreeMap's order on paths, which puts a directory before its content.
PathLess(p, q) ==
    \/ Inside(p, q)
    \/ \E k \in DOMAIN p \cap DOMAIN q :
          p[k] < q[k] /\ \A l \in 1..(k-1) : p[l] = q[l]

\* What Tree::load makes of a directory: every entry is listed, the directories
\* it lies in too, and the root itself is not.
IsSnapshot(tree) ==
    /\ tree = [path \in DOMAIN tree |-> tree[path]]
    /\ \A path \in DOMAIN tree :
          /\ path # <<>>
          /\ Parent(path) # <<>> => Parent(path) \in DOMAIN tree /\ tree[Parent(path)].kind = "dir"
          /\ tree[path] = IF tree[path].kind = "dir" THEN DirEntry ELSE FileEntry(tree[path].data)

\* The image of a snapshot: one node per entry, parents first.
FromTree(tree) ==
    LET paths == Sorted(DOMAIN tree, PathLess)
        upto[k \in 0..Len(paths)] ==
            IF k = 0 THEN <<EmptyDir>>
            ELSE LET p    == paths[k]
                     fs   == upto[k-1]
                     node == IF tree[p].kind = "dir" THEN EmptyDir
                             ELSE File(tree[p].data, Len(tree[p].data))
                 IN  SetEntry(Append(fs, node), Lookup(fs, Parent(p)), BaseName(p),
                              Len(fs) + 1)
    IN  upto[Len(paths)]
=============================================================================
