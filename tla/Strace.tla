------------------------------- MODULE Strace -------------------------------
(***************************************************************************)
(* Reconstructing a trace from strace's output (strace.rs): State::apply   *)
(* turns each line into at most one op, and mirrors descriptors, sizes and *)
(* directories to do so.  The lines come in the order the calls completed  *)
(* (parse joins "<unfinished ...>" and "resumed>").                        *)
(*                                                                         *)
(* The log is compiled as it grows, as in Recorder: v is the directory as  *)
(* the log has it.                                                         *)
(***************************************************************************)
EXTENDS Compile, Processes

VARIABLES ofds, tables, table_of, cwd, sizes, dirs, warned

descriptors == <<ofds, tables, table_of>>
tree == <<sizes, dirs>>
mirror == <<descriptors, cwd, tree, warned>>
straceVars == <<vars, kernel, line, mirror>>

\* State::new, from the snapshot taken before the command started.
MirrorInit ==
    LET initial == ToTree(base)
    IN  /\ sizes = [p \in {q \in DOMAIN initial : initial[q].kind = "file"} |-> Len(initial[p].data)]
        /\ dirs = {<<>>} \cup (DOMAIN initial \ DOMAIN sizes)
        /\ ofds = <<>> /\ tables = [p \in Pids |-> <<>>] /\ table_of = <<>>
        /\ cwd = <<>> /\ warned = {}

StraceInit == Init /\ ProcessesInit(base) /\ MirrorInit

-----------------------------------------------------------------------------
(* struct State *)

\* table: a process has a table of its own from its first line on; the table
\* it was made for names it.
Table(p) == IF p \in DOMAIN table_of THEN table_of[p] ELSE p
WithTable(p) == table_of @@ (p :> p)

\* ofd: a descriptor that was never seen opened is assumed at the end of file.
Known(p, fd) == fd \in DOMAIN tables[Table(p)]
Ofd(p, fd) == IF Known(p, fd) THEN tables[Table(p)][fd] ELSE Len(ofds) + 1
SizeOf(path) == IF path \in DOMAIN sizes THEN sizes[path] ELSE 0
OfdsWith(p, fd, path) ==
    IF Known(p, fd) THEN ofds ELSE Append(ofds, [offset |-> SizeOf(path), append |-> FALSE])

\* The offset of the description fd refers to is now what moved says.
MoveOfd(p, fd, path, moved) ==
    /\ ofds' = [OfdsWith(p, fd, path) EXCEPT ![Ofd(p, fd)].offset = moved]
    /\ tables' = [tables EXCEPT ![Table(p)] = (fd :> Ofd(p, fd)) @@ @]
    /\ table_of' = WithTable(p)

\* cwd and resolve: relative to the directory of this pid, else where it all began.
CwdOf(p) == IF p \in DOMAIN cwd THEN cwd[p] ELSE Outside
Resolve(p, arg) == IF arg.rel THEN CwdOf(p) \o arg.path ELSE arg.path

Exists(path) == path \in DOMAIN sizes \cup dirs

Log(op) == CompileOp(op)
NoLog == UNCHANGED vars

\* Faulty variant: what is in a directory keeps its path.
MovedToItself(path, from, to) == IF path = from THEN to ELSE path

\* Where a rename takes a path.
MovedTo(path, from, to) ==
    IF path = from \/ Inside(from, path)
    THEN to \o SubSeq(path, Len(from) + 1, Len(path)) ELSE path

\* move_tree: a rename replaces its target.
MoveTree(from, to) ==
    LET files == DOMAIN sizes \ {to}
    IN  /\ sizes' = [q \in {MovedTo(f, from, to) : f \in files} |->
                        sizes[CHOOSE f \in files : MovedTo(f, from, to) = q]]
        /\ dirs' = {MovedTo(d, from, to) : d \in dirs \ {to}}

\* remove: with everything below.
RemoveTree(path) ==
    LET Stays(q) == q # path /\ ~Inside(path, q)
    IN  /\ sizes' = [q \in {f \in DOMAIN sizes : Stays(f)} |-> sizes[q]]
        /\ dirs' = {d \in dirs : Stays(d)}
        /\ Log([op |-> IF path \in dirs THEN "rmdir" ELSE "unlink", path |-> path])

Warn(what) == warned' = warned \cup {what}

-----------------------------------------------------------------------------
(* State::apply, for the line of a call that succeeded *)

\* The descriptor open returned is shown with the path it has by now.
ApplyOpen(p, c, fd) ==
    LET rel == FdPath(p, fd)
        created == "creat" \in c.flags /\ ~Exists(rel)
        cut     == ~created /\ "trunc" \in c.flags /\ SizeOf(rel) > 0
    IN  /\ c.name = "open"
        /\ \/ ~Under(rel) /\ NoLog /\ UNCHANGED <<sizes, descriptors>>
           \/ /\ Under(rel)
              /\ \/ created /\ Log([op |-> "create", path |-> rel])
                 \/ cut /\ Log([op |-> "truncate", path |-> rel, len |-> 0])
                 \/ ~created /\ ~cut /\ NoLog
              /\ sizes' = IF created \/ cut THEN (rel :> 0) @@ sizes ELSE sizes
              /\ ofds' = Append(ofds, [offset |-> 0, append |-> "append" \in c.flags])
              /\ tables' = [tables EXCEPT ![Table(p)] = (fd :> Len(ofds) + 1) @@ @]
              /\ table_of' = WithTable(p)
        /\ UNCHANGED <<cwd, dirs, warned>>

\* Faulty variant: an append goes where the descriptor's own writes ended.
WriteAtOwn(p, fd, rel) == OfdsWith(p, fd, rel)[Ofd(p, fd)].offset

\* Where a write through fd goes.
WriteAt(p, fd, rel) ==
    LET o == OfdsWith(p, fd, rel)[Ofd(p, fd)] IN IF o.append THEN SizeOf(rel) ELSE o.offset

\* write and pwrite64, and what is printed on stdout.
ApplyWrite(p, c, rel) ==
    LET offset == IF c.name = "pwrite" THEN c.offset ELSE WriteAt(p, c.fd, rel)
        end    == offset + Len(c.data)
    IN  /\ c.name \in {"write", "pwrite"}
        /\ \/ /\ ~Under(rel)
              /\ IF c.fd = Stdout THEN Log([op |-> "mark"]) ELSE NoLog
              /\ UNCHANGED <<sizes, descriptors>>
           \/ /\ Under(rel)
              /\ IF c.name = "write" THEN MoveOfd(p, c.fd, rel, end) ELSE UNCHANGED descriptors
              /\ sizes' = (rel :> IF SizeOf(rel) < end THEN end ELSE SizeOf(rel)) @@ sizes
              /\ Log([op |-> "write", path |-> rel, offset |-> offset, data |-> c.data])
        /\ UNCHANGED <<cwd, dirs, warned>>

\* read advances, lseek sets.
ApplyRead(p, c, rel, ret) ==
    /\ c.name \in {"read", "lseek"}
    /\ IF Under(rel)
       THEN MoveOfd(p, c.fd, rel,
                IF c.name = "lseek" THEN ret ELSE OfdsWith(p, c.fd, rel)[Ofd(p, c.fd)].offset + ret)
       ELSE UNCHANGED descriptors
    /\ NoLog /\ UNCHANGED <<cwd, tree, warned>>

ApplyClose(p, c) ==
    /\ c.name = "close"
    /\ tables' = [tables EXCEPT ![Table(p)] = [f \in DOMAIN @ \ {c.fd} |-> @[f]]]
    /\ table_of' = WithTable(p)
    /\ NoLog /\ UNCHANGED <<ofds, cwd, tree, warned>>

Duplicate(p, c, fd) ==
    /\ tables' = [tables EXCEPT ![Table(p)] = (fd :> tables[Table(p)][c.fd]) @@ @]
    /\ UNCHANGED ofds

\* dup, dup2: nothing for a descriptor that is not in the table.
ApplyDup(p, c, fd) ==
    /\ c.name = "dup"
    /\ IF Known(p, c.fd) THEN Duplicate(p, c, fd) ELSE UNCHANGED <<ofds, tables>>
    /\ table_of' = WithTable(p)
    /\ NoLog /\ UNCHANGED <<cwd, tree, warned>>

ApplyTruncate(p, c, path) ==
    LET rel == IF c.name = "ftruncate" THEN path ELSE Resolve(p, c.path)
    IN  /\ c.name \in {"ftruncate", "truncate"}
        /\ IF Under(rel)
           THEN sizes' = (rel :> c.len) @@ sizes /\ Log([op |-> "truncate", path |-> rel, len |-> c.len])
           ELSE UNCHANGED sizes /\ NoLog
        /\ UNCHANGED <<descriptors, cwd, dirs, warned>>

\* Faulty variant: sync_file_range is taken for a barrier.
BarriersAndRange == {"fsync", "sync_file_range"}
Barriers == {"fsync"}

ApplySync(c, rel) ==
    /\ c.name \in {"fsync", "sync", "sync_file_range"}
    /\ \/ c.name = "sync" /\ Log([op |-> "sync"]) /\ UNCHANGED warned
       \/ c.name \in Barriers /\ Under(rel) /\ Log([op |-> "fsync", path |-> rel]) /\ UNCHANGED warned
       \/ c.name \in Barriers /\ ~Under(rel) /\ NoLog /\ UNCHANGED warned
       \/ c.name = "sync_file_range" /\ c.name \notin Barriers /\ NoLog /\ Warn("not a barrier")
    /\ UNCHANGED <<descriptors, cwd, tree>>

ApplyRename1(p, c) ==
    LET from == Resolve(p, c.from)
        to   == Resolve(p, c.to)
    IN  /\ c.name = "rename"
        /\ \/ /\ Under(from) /\ Under(to)
              /\ MoveTree(from, to) /\ Log([op |-> "rename", from |-> from, to |-> to])
              /\ UNCHANGED warned
           \/ Under(from) /\ ~Under(to) /\ RemoveTree(from) /\ UNCHANGED warned
           \/ ~Under(from) /\ Under(to) /\ Warn("moved in") /\ NoLog /\ UNCHANGED tree
           \/ ~Under(from) /\ ~Under(to) /\ NoLog /\ UNCHANGED <<tree, warned>>
        /\ UNCHANGED <<descriptors, cwd>>

ApplyRemove(p, c) ==
    LET rel == Resolve(p, c.path)
    IN  /\ c.name \in {"unlink", "rmdir"}
        /\ IF Under(rel) THEN RemoveTree(rel) ELSE NoLog /\ UNCHANGED tree
        /\ UNCHANGED <<descriptors, cwd, warned>>

ApplyMkdir(p, c) ==
    LET rel == Resolve(p, c.path)
    IN  /\ c.name = "mkdir"
        /\ IF Under(rel) THEN dirs' = dirs \cup {rel} /\ Log([op |-> "mkdir", path |-> rel])
           ELSE UNCHANGED dirs /\ NoLog
        /\ UNCHANGED <<descriptors, cwd, sizes, warned>>

\* fallocate and the like: a warning if they touch the root.
ApplyUnmodeled(c, rel) ==
    /\ c.name = "fallocate"
    /\ IF Under(rel) THEN Warn("not modeled") ELSE UNCHANGED warned
    /\ NoLog /\ UNCHANGED <<descriptors, cwd, tree>>

ApplyChdir(p, c) ==
    /\ c.name = "chdir"
    /\ cwd' = (p :> Resolve(p, c.path)) @@ cwd
    /\ NoLog /\ UNCHANGED <<descriptors, tree, warned>>

\* Faulty variant: every child gets a copy.
SharesNever(c) == FALSE

Shares(c) == c.shared /\ c.child \notin DOMAIN table_of

\* clone: the child shares the table, or gets what it has not opened itself.
ApplyClone(p, c) ==
    /\ c.name = "clone"
    /\ cwd' = cwd @@ (c.child :> CwdOf(p))
    /\ IF Shares(c)
       THEN table_of' = WithTable(p) @@ (c.child :> Table(p)) /\ UNCHANGED tables
       ELSE /\ table_of' = WithTable(p) @@ (c.child :> c.child)
            /\ tables' = [tables EXCEPT ![Table(c.child)] = @ @@ tables[Table(p)]]
    /\ NoLog /\ UNCHANGED <<ofds, tree, warned>>

ApplyNothing(c) == c.name = "execve" /\ NoLog /\ UNCHANGED mirror

\* The line of p's call comes, and parse hands it to apply.
Exit(p) ==
    LET l == line[p]
        c == l.call
    IN  /\ l # NoLine
        /\ line' = [line EXCEPT ![p] = NoLine]
        /\ UNCHANGED kernel
        /\ \/ ApplyOpen(p, c, l.ret) \/ ApplyWrite(p, c, l.path) \/ ApplyRead(p, c, l.path, l.ret)
           \/ ApplyClose(p, c) \/ ApplyDup(p, c, l.ret) \/ ApplyTruncate(p, c, l.path)
           \/ ApplySync(c, l.path) \/ ApplyRename1(p, c) \/ ApplyRemove(p, c) \/ ApplyMkdir(p, c)
           \/ ApplyUnmodeled(c, l.path) \/ ApplyChdir(p, c) \/ ApplyClone(p, c) \/ ApplyNothing(c)

\* A process makes a call.
Enter(p) == ~failed /\ Call(p) /\ UNCHANGED <<vars, mirror>>

StraceNext == \E p \in Pids : Enter(p) \/ Exit(p)

StraceSpec == StraceInit /\ [][StraceNext]_straceVars

-----------------------------------------------------------------------------
(* Properties *)

\* What was used that the log cannot express, and a warning says so.
Modeled == warned \subseteq {"not a barrier"}

\* Whatever the processes did and in whatever order their lines came, the log
\* compiles, and when no line is missing its replay is the directory on disk:
\* offsets through dup, fork, O_APPEND and lseek, paths through renames and
\* working directories (parse and State::apply).  Only a warning excuses it.
LogIsReal == Modeled => ~failed /\ (Busy = {} => ToTree(v) = ToTree(real))

\* The sizes and directories the offsets and op kinds are taken from are those
\* of the log, after every line (State: "What exists under the root right now").
MirrorIsLog ==
    (Modeled /\ ~failed) =>
        LET now == ToTree(v)
        IN  /\ DOMAIN sizes = {p \in DOMAIN now : now[p].kind = "file"}
            /\ \A p \in DOMAIN sizes : sizes[p] = Len(now[p].data)
            /\ dirs = {<<>>} \cup (DOMAIN now \ DOMAIN sizes)

\* The descriptors of the processes on files of the root.
OpenHere ==
    {x \in {p \in Pids : task[p] # NoPid} \X Fds : Under(FdPath(x[1], x[2])) /\ OnFile(x[1], x[2])}

\* Two descriptors share an offset in the mirror exactly when the kernel shares
\* it, and the offset is the kernel's (struct State: "Open file descriptions
\* and per-process fd tables").
OffsetsAreReal ==
    Busy = {} =>
        \A x \in OpenHere :
            /\ Known(x[1], x[2])
            /\ LET o == Ofd(x[1], x[2])
                   d == Fdt(x[1])[x[2]]
               IN  /\ ofds[o].append = desc[d].append
                   /\ ~desc[d].append => ofds[o].offset = desc[d].pos
                   /\ \A y \in OpenHere : Known(y[1], y[2]) =>
                        (Ofd(y[1], y[2]) = o <=> Fdt(y[1])[y[2]] = d)

\* The data micro-ops of an inode, as the log has it.
DataOf(ino) == {j \in DOMAIN micro : IsData(micro[j].m) /\ micro[j].m.ino = ino}

\* What the log says is durable was synced on disk: when no data of a file is
\* in flight, its content is that of its last real fsync or sync.
DurableWasSynced ==
    (Modeled /\ ~failed /\ Busy = {}) =>
        \A p \in DOMAIN ToTree(v) :
            LET ino == Lookup(v, p)
            IN  (IsFile(v, ino) /\ \A j \in DataOf(ino) : micro[j].durable_at # NEVER) =>
                   Content(v[ino]) = synced[Lookup(real, p)]
=============================================================================
