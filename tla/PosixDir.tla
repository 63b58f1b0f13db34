------------------------------ MODULE PosixDir ------------------------------
(***************************************************************************)
(* A directory as its user sees it: a map from paths to entries, and what  *)
(* each op of a trace does to it when it succeeds.  There are no inodes    *)
(* and no micro-ops here; Compile's volatile view is shown to implement    *)
(* this specification.                                                     *)
(***************************************************************************)
EXTENDS Naturals, Sequences

CONSTANTS
    Ops,            \* the ops of a trace
    InitialTrees    \* the snapshots a trace may start from

VARIABLE tree       \* path -> [kind, data]

DirEntry == [kind |-> "dir", data |-> <<>>]
FileEntry(data) == [kind |-> "file", data |-> data]

Dir(p) == SubSeq(p, 1, Len(p) - 1)
IsDirPath(p) == p = <<>> \/ (p \in DOMAIN tree /\ tree[p].kind = "dir")
IsFilePath(p) == p \in DOMAIN tree /\ tree[p].kind = "file"
Below(p, q) == Len(p) <= Len(q) /\ SubSeq(q, 1, Len(p)) = p
Under(p) == {q \in DOMAIN tree : Below(p, q)}

\* data cut or zero-extended to n bytes
Fit(data, n) == [k \in 1..n |-> IF k <= Len(data) THEN data[k] ELSE 0]
Longest(m, n) == IF m < n THEN n ELSE m

Init == tree \in InitialTrees

Make(p, entry) ==
    /\ p \notin DOMAIN tree
    /\ IsDirPath(Dir(p))
    /\ tree' = [q \in DOMAIN tree \cup {p} |-> IF q = p THEN entry ELSE tree[q]]

SetData(p, data) ==
    /\ IsFilePath(p)
    /\ tree' = [tree EXCEPT ![p].data = data]

\* The bytes [offset, offset + Len(data)) become data; writing nothing changes nothing.
WriteAt(p, offset, data) ==
    LET end  == offset + Len(data)
        grow == Fit(tree[p].data, Longest(Len(tree[p].data), end))
    IN  /\ data # <<>>
        /\ SetData(p, [k \in 1..Len(grow) |->
                          IF offset < k /\ k <= end THEN data[k - offset] ELSE grow[k]])

\* The subtree at from takes the place of whatever is at to.
Move(from, to) ==
    LET kept  == DOMAIN tree \ (Under(from) \cup Under(to))
        moved == {to \o SubSeq(q, Len(from) + 1, Len(q)) : q \in Under(from)}
        was(q) == from \o SubSeq(q, Len(to) + 1, Len(q))
    IN  /\ from \in DOMAIN tree
        /\ IsDirPath(Dir(to))
        /\ ~Below(from, to)
        /\ tree' = [q \in kept \cup moved |-> IF q \in moved THEN tree[was(q)] ELSE tree[q]]

Drop(p) ==
    /\ p \in DOMAIN tree
    /\ tree' = [q \in DOMAIN tree \ Under(p) |-> tree[q]]

Change(op) ==
    \/ op.op = "create" /\ Make(op.path, FileEntry(<<>>))
    \/ op.op = "mkdir" /\ Make(op.path, DirEntry)
    \/ op.op = "write" /\ WriteAt(op.path, op.offset, op.data)
    \/ op.op = "truncate" /\ SetData(op.path, Fit(tree[op.path].data, op.len))
    \/ op.op = "rename" /\ Move(op.from, op.to)
    \/ op.op \in {"unlink", "rmdir"} /\ Drop(op.path)

\* The ops that succeed and change nothing.
Quiet(op) ==
    \/ op.op \in {"create", "mkdir"} /\ (op.path = <<>> \/ op.path \in DOMAIN tree)
    \/ op.op = "write" /\ op.data = <<>> /\ IsFilePath(op.path)
    \/ op.op = "rename" /\ op.from = op.to /\ op.from \in DOMAIN tree
    \/ op.op \in {"fsync", "sync", "mark"}

Step(op) == Change(op) \/ (Quiet(op) /\ UNCHANGED tree)

Spec == Init /\ [][\E op \in Ops : Step(op)]_tree
=============================================================================
