------------------------------- MODULE Compile -------------------------------
(***************************************************************************)
(* Compiling a trace into micro-ops (model.rs, fn compile).                *)
(*                                                                         *)
(* One step is one iteration of the loop over the trace's ops: replay the  *)
(* op on the volatile view v, emit its micro-ops, register them with what  *)
(* would flush them, and let a barrier make the covered ones durable.  The *)
(* trace is any sequence of at most MaxOps ops of the set Ops, so after k  *)
(* steps the variables hold the Program of a k-op trace.                   *)
(*                                                                         *)
(* The maps pending_data and pending_dir (inode to list of micro-ops) are  *)
(* relations between inodes and micro-op indices: the order of a list does *)
(* not matter to flush.                                                    *)
(***************************************************************************)
EXTENDS Fs

CONSTANTS
    Ops,            \* the ops a trace is made of
    InitialTrees,   \* the snapshots a trace may start from
    Profiles,       \* the persistence profiles to compile for
    BlockSize,      \* writes are split at multiples of this many bytes
    MaxOps          \* bound on the length of a trace

\* The op that is not there: later than any op of a trace (usize::MAX).
NEVER == MaxOps + 1

ASSUME CompileAssumption ==
    /\ Profiles \subseteq {"posix", "ext4"}
    /\ BlockSize \in Nat \ {0}
    /\ MaxOps \in Nat
    /\ \A op \in Ops : op.op = "write" => op.offset \in Nat /\ Len(op.data) \in Nat

\* Trees and ops name their files by paths (trace.rs, Tree and Op).
ASSUME PathsAssumption ==
    /\ \A tree \in InitialTrees : IsFiniteSet(DOMAIN tree) /\ DOMAIN tree \subseteq Seq(Names)
    /\ \A op \in Ops :
          /\ op.op \notin {"rename", "sync", "mark"} => op.path \in Seq(Names)
          /\ op.op = "rename" => op.from \in Seq(Names) /\ op.to \in Seq(Names)

\* Contents are bytes and lengths are numbers (trace.rs, Entry and Op).
ASSUME BytesAssumption ==
    /\ \A tree \in InitialTrees : \A path \in DOMAIN tree :
          tree[path].kind # "dir" => tree[path].data \in Seq(Nat)
    /\ \A op \in Ops : /\ op.op = "write" => op.data \in Seq(Nat)
                       /\ op.op = "truncate" => op.len \in Nat

\* A snapshot lists the directories its files lie in (trace.rs, Tree::load), which
\* Fs::from_tree relies on (model.rs, "snapshot parent precedes child").
ASSUME TreesAssumption == \A tree \in InitialTrees : IsSnapshot(tree)

VARIABLES
    profile,        \* the Program's profile
    base,           \* the initial image plus an empty node per created inode
    v,              \* the volatile view: every op applied
    micro,          \* the micro-ops: what each does, its op, and when it is durable
    op_end,         \* op_end[k+1]: number of micro-ops of the first k ops
    marks_before,   \* marks_before[k+1]: number of marks among the first k ops
    pending_data,   \* micro-ops an fsync of a file would flush
    pending_dir,    \* micro-ops an fsync of a directory would flush
    pending_meta,   \* metadata micro-ops the journal would commit
    failed          \* compile returned Err

pendings == <<pending_data, pending_dir, pending_meta>>
vars == <<profile, base, v, micro, op_end, marks_before, pendings, failed>>

\* The index of the op being compiled, which is the number of ops before it.
OpIndex == Len(op_end) - 1
Marks == marks_before[Len(marks_before)]

Init ==
    /\ profile \in Profiles
    /\ \E tree \in InitialTrees : base = FromTree(tree)
    /\ v = base
    /\ micro = <<>>
    /\ op_end = <<0>>
    /\ marks_before = <<0>>
    /\ pending_data = {}
    /\ pending_dir = {}
    /\ pending_meta = {}
    /\ failed = FALSE

-----------------------------------------------------------------------------
(* Emitting and registering *)

IsData(m) == m.kind \in {"Write", "SetLen"}

\* Faulty variant: a rename is durable once its source directory is synced.
FlushedWithSource(m) ==
    IF IsData(m) THEN m.ino
    ELSE IF m.kind = "Rename" THEN m.from ELSE m.parent

\* What an fsync has to be called on to flush a micro-op: the inode of file
\* data, the parent of an entry, and for a rename only its target directory.
FlushedWith(m) ==
    IF IsData(m) THEN m.ino
    ELSE IF m.kind = "Rename" THEN m.to ELSE m.parent

\* The new micro-ops ms of this op, numbered after those already emitted.
New(ms) == Len(micro) + 1 .. Len(micro) + Len(ms)
NewMicro(ms, j) == ms[j - Len(micro)]

Register(ms) ==
    /\ pending_data' = pending_data \cup
          {<<FlushedWith(NewMicro(ms, j)), j>> : j \in {k \in New(ms) : IsData(NewMicro(ms, k))}}
    /\ pending_dir' = pending_dir \cup
          {<<FlushedWith(NewMicro(ms, j)), j>> : j \in {k \in New(ms) : ~IsData(NewMicro(ms, k))}}
    /\ pending_meta' = pending_meta \cup {j \in New(ms) : IsMeta(NewMicro(ms, j))}

\* The end of an iteration that emitted ms on top of the nodes of fs.
Emit(fs, ms) ==
    /\ v' = Replay(fs, ms)
    /\ micro' = micro \o [k \in 1..Len(ms) |->
                            [m |-> ms[k], op |-> OpIndex, durable_at |-> NEVER]]
    /\ Register(ms)
    /\ op_end' = Append(op_end, Len(micro) + Len(ms))
    /\ marks_before' = Append(marks_before, Marks)
    /\ UNCHANGED <<profile, failed>>

NoEffect == Emit(v, <<>>) /\ UNCHANGED base

Err == failed' = TRUE /\ UNCHANGED <<profile, base, v, micro, op_end, marks_before, pendings>>

-----------------------------------------------------------------------------
(* The ops that change the directory *)

\* Op::Create and Op::Mkdir: nothing if the path exists already.
CreateOrMkdir(op) ==
    LET parent == Lookup(v, Parent(op.path))
        ino    == Len(v) + 1
        node   == IF op.op = "mkdir" THEN EmptyDir ELSE EmptyFile
    IN  /\ op.op \in {"create", "mkdir"}
        /\ \/ /\ Lookup(v, op.path) # NoIno
              /\ NoEffect
           \/ /\ Lookup(v, op.path) = NoIno
              /\ IsDir(v, parent)
              /\ base' = Append(base, node)
              /\ Emit(Append(v, node), <<Link(parent, BaseName(op.path), ino)>>)
           \/ /\ Lookup(v, op.path) = NoIno
              /\ ~IsDir(v, parent)
              /\ Err

\* The pieces of a write: chunk k is the part of [offset, end) in the k-th
\* block the write touches.
Chunks(ino, offset, data) ==
    LET end   == offset + Len(data)
        first == offset \div BlockSize
        n     == IF data = <<>> THEN 0 ELSE (end - 1) \div BlockSize - first + 1
        From(k) == IF k = 1 THEN offset ELSE (first + k - 1) * BlockSize
        To(k)   == IF k = n THEN end ELSE (first + k) * BlockSize
    IN  [k \in 1..n |-> Write(ino, From(k), SubSeq(data, From(k) - offset + 1, To(k) - offset))]

\* Op::Write: one micro-op per block, then the size change if the file grows.
WriteOp(op) ==
    LET ino  == Lookup(v, op.path)
        end  == op.offset + Len(op.data)
        grow == IF end > v[ino].len THEN <<SetLen(ino, end, TRUE)>> ELSE <<>>
    IN  /\ op.op = "write"
        /\ \/ /\ IsFile(v, ino)
              /\ Emit(v, Chunks(ino, op.offset, op.data) \o grow)
              /\ UNCHANGED base
           \/ /\ ~IsFile(v, ino)
              /\ Err

Truncate(op) ==
    LET ino == Lookup(v, op.path)
    IN  /\ op.op = "truncate"
        /\ \/ /\ IsFile(v, ino)
              /\ Emit(v, <<SetLen(ino, op.len, FALSE)>>)
              /\ UNCHANGED base
           \/ /\ ~IsFile(v, ino)
              /\ Err

\* Op::Rename: nothing onto itself, never a directory into itself.
RenameOp(op) ==
    LET ino    == Lookup(v, op.from)
        target == Lookup(v, op.to)
        fp     == Lookup(v, Parent(op.from))
        tp     == Lookup(v, Parent(op.to))
        inside == Inside(op.from, op.to)
        same   == op.from = op.to \/ target = ino
    IN  /\ op.op = "rename"
        /\ \/ /\ ino # NoIno /\ same
              /\ NoEffect
           \/ /\ ino # NoIno /\ ~same /\ ~inside /\ IsDir(v, tp)
              /\ Emit(v, <<Rename(fp, BaseName(op.from), tp, BaseName(op.to), ino,
                                  target # NoIno)>>)
              /\ UNCHANGED base
           \/ /\ ino = NoIno \/ (~same /\ (inside \/ ~IsDir(v, tp)))
              /\ Err

\* Op::Unlink and Op::Rmdir.
UnlinkOrRmdir(op) ==
    /\ op.op \in {"unlink", "rmdir"}
    /\ \/ /\ Lookup(v, op.path) # NoIno
          /\ Emit(v, <<Unlink(Lookup(v, Parent(op.path)), BaseName(op.path))>>)
          /\ UNCHANGED base
       \/ /\ Lookup(v, op.path) = NoIno
          /\ Err

-----------------------------------------------------------------------------
(* Barriers and marks *)

\* Faulty variant: a micro-op that is durable already is stamped again.
FlushAgain(listed) ==
    micro' = [j \in DOMAIN micro |->
                IF j \in listed THEN [micro[j] EXCEPT !.durable_at = OpIndex] ELSE micro[j]]

\* The listed micro-ops that are not durable yet become durable from this op.
Flush(listed) ==
    micro' = [j \in DOMAIN micro |->
                IF j \in listed /\ micro[j].durable_at = NEVER
                THEN [micro[j] EXCEPT !.durable_at = OpIndex] ELSE micro[j]]

\* Faulty variant: only ops that emit get a slice of op_end.
EndOpNoSlice(marks) ==
    /\ marks_before' = Append(marks_before, marks)
    /\ UNCHANGED <<profile, base, v, op_end, failed>>

\* What an iteration that emits nothing pushes.
EndOp(marks) ==
    /\ op_end' = Append(op_end, Len(micro))
    /\ marks_before' = Append(marks_before, marks)
    /\ UNCHANGED <<profile, base, v, failed>>

ListedFor(pending, ino) == {e[2] : e \in {f \in pending : f[1] = ino}}

\* Faulty variant: an fsync clears the whole map, not its inode's list.
WithoutAny(pending, ino) == {}

Without(pending, ino) == {e \in pending : e[1] # ino}

\* Faulty variant: any fsync commits all metadata, whatever the profile.
JournalAlways == pending_meta

\* One journal: committing it for any fsync commits all metadata so far.
JournalCommit == IF profile = "ext4" THEN pending_meta ELSE {}

\* Op::Fsync: what is pending on the inode, and what the journal commits.
Fsync(op) ==
    LET ino == Lookup(v, op.path)
    IN  /\ op.op = "fsync"
        /\ \/ /\ ino # NoIno
              /\ Flush(ListedFor(pending_data, ino) \cup ListedFor(pending_dir, ino) \cup JournalCommit)
              /\ pending_data' = Without(pending_data, ino)
              /\ pending_dir' = Without(pending_dir, ino)
              /\ pending_meta' = pending_meta \ JournalCommit
              /\ EndOp(Marks)
           \/ /\ ino = NoIno
              /\ Err

Sync(op) ==
    /\ op.op = "sync"
    /\ Flush(DOMAIN micro)
    /\ pending_data' = {}
    /\ pending_dir' = {}
    /\ pending_meta' = {}
    /\ EndOp(Marks)

Mark(op) ==
    /\ op.op = "mark"
    /\ EndOp(Marks + 1)
    /\ UNCHANGED <<micro, pendings>>

CompileOp(op) ==
    /\ ~failed
    /\ OpIndex < MaxOps
    /\ \/ CreateOrMkdir(op) \/ WriteOp(op) \/ Truncate(op) \/ RenameOp(op)
       \/ UnlinkOrRmdir(op) \/ Fsync(op) \/ Sync(op) \/ Mark(op)

Next == \E op \in Ops : CompileOp(op)

Spec == Init /\ [][Next]_vars

-----------------------------------------------------------------------------
(* Properties *)

\* The tables agree with the micro-ops: each is in the slice of op_end that
\* its op owns, and a barrier that made it durable came after that op
\* (model.rs, the pushes at the end of the loop and flush).
TypeOK ==
    /\ profile \in Profiles
    /\ failed \in BOOLEAN
    /\ op_end \in Seq(Nat) /\ marks_before \in Seq(Nat)
    /\ Len(op_end) \in 1..(MaxOps + 1)
    /\ Len(marks_before) = Len(op_end)
    /\ micro \in Seq(Range(micro))
    /\ op_end[Len(op_end)] = Len(micro)
    /\ \A k \in 1..Len(op_end) : op_end[k] <= Len(micro)
    /\ \A j \in DOMAIN micro :
          /\ DOMAIN micro[j] = {"m", "op", "durable_at"}
          /\ micro[j].op \in 0..(OpIndex - 1)
          /\ op_end[micro[j].op + 1] < j /\ j <= op_end[micro[j].op + 2]
          /\ micro[j].durable_at \in (micro[j].op + 1)..(OpIndex - 1) \cup {NEVER}

\* The pending lists never lose a micro-op that is not durable and never hold
\* one under an inode whose fsync does not cover it (model.rs, the register
\* loop of compile against what its barriers remove).
PendingOK ==
    /\ \A j \in DOMAIN micro :
          micro[j].durable_at = NEVER =>
             /\ <<FlushedWith(micro[j].m), j>> \in
                   (IF IsData(micro[j].m) THEN pending_data ELSE pending_dir)
             /\ IsMeta(micro[j].m) => j \in pending_meta
    /\ \A e \in pending_data \cup pending_dir :
          e[2] \in DOMAIN micro /\ e[1] = FlushedWith(micro[e[2]].m)
    /\ \A j \in pending_meta : j \in DOMAIN micro /\ IsMeta(micro[j].m)

\* No op removes or moves the root, the directory the paths of a trace start in.
RootStays ==
    \A op \in Ops : /\ op.op \in {"unlink", "rmdir"} => op.path # <<>>
                    /\ op.op = "rename" => op.from # <<>> /\ op.to # <<>>

\* The compiled Program of the ops so far.
Program == [base |-> base, micro |-> micro, op_end |-> op_end,
            profile |-> profile, marks_before |-> marks_before]
=============================================================================
