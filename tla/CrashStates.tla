----------------------------- MODULE CrashStates -----------------------------
(***************************************************************************)
(* The crash states of every program compile can produce: Compile builds   *)
(* the program op by op, Crash says which states a power cut after the     *)
(* last op may leave.  A crash after an earlier op is a crash after the    *)
(* last op of a shorter trace, as InFlightStable shows.                    *)
(***************************************************************************)
EXTENDS Compile, Crash

CONSTANTS
    ExhaustiveLimit     \* Search::exhaustive_limit

ASSUME SearchAssumption == ExhaustiveLimit \in Nat

CrashPoint == OpIndex
\* What close makes of the candidates, and what it should make of them.
CrashSets == {Close(Program, CrashPoint, s) : s \in SUBSET InFlight(Program, CrashPoint)}
LegalStates == {s \in SUBSET Before(Program, CrashPoint) : Legal(Program, CrashPoint, s)}

-----------------------------------------------------------------------------
(* The search *)

\* close extends a candidate to the smallest legal state (crash.rs, close): the
\* metadata rule, then the data rule, once each, are enough.
CloseIsLeast ==
    LET legal == LegalStates
    IN  \A s \in SUBSET InFlight(Program, CrashPoint) :
            LET c == Close(Program, CrashPoint, s)
            IN  /\ c \in legal
                /\ s \subseteq c
                /\ \A t \in legal : s \subseteq t => c \subseteq t

Closed(cs) == {Close(Program, CrashPoint, c) : c \in Range(cs)}

\* Up to the limit the closed candidates are exactly the legal states
\* (crash.rs, candidates): nothing legal is missed.
ExhaustiveIsComplete ==
    Cardinality(InFlight(Program, CrashPoint)) <= ExhaustiveLimit =>
        Closed(Candidates(Program, CrashPoint, ExhaustiveLimit, <<>>)) = LegalStates

\* Beyond the limit every closed candidate is legal, whatever the samples, and
\* even without samples the battery has the closure of every cut of the program
\* order, from losing all it can to losing nothing (crash.rs, candidates).
BatteryIsSound ==
    LET tried(samples) ==
            Closed(Candidates(Program, CrashPoint, ExhaustiveLimit, samples))
        everySample == Exhaustive(Program, CrashPoint)
    IN  Cardinality(InFlight(Program, CrashPoint)) > ExhaustiveLimit =>
            /\ tried(everySample) \subseteq LegalStates
            /\ \A n \in {0} \cup Before(Program, CrashPoint) :
                  Close(Program, CrashPoint, 1..n) \in tried(<<>>)

-----------------------------------------------------------------------------
(* What a crash may do to the directory *)

\* A crash that loses nothing leaves the volatile view: base has every node
\* the micro-ops name, and replaying them in order is what the loop did to v.
VolatileIsReplay == CrashFs(Program, DOMAIN micro) = v

FileKept(ino) ==
    \A s \in CrashSets : Content(CrashFs(Program, s)[ino]) = Content(v[ino])

\* An entry that is left although the volatile view has none belongs to a
\* rename out of the directory whose target was not synced.
DirKept(ino) ==
    \A s \in CrashSets, n \in Names :
        LET entry == CrashFs(Program, s)[ino].entries[n]
        IN  \/ entry = v[ino].entries[n]
            \/ /\ v[ino].entries[n] = NoIno
               /\ \E j \in InFlight(Program, CrashPoint) \ s :
                     /\ micro[j].m.kind = "Rename"
                     /\ micro[j].m.from = ino
                     /\ micro[j].m.from_name = n
                     /\ micro[j].m.ino = entry

SyncedSurvives(path) ==
    LET ino == Lookup(v, path)
    IN  IF IsDir(v, ino) THEN DirKept(ino) ELSE FileKept(ino)

\* After an fsync of a file every crash state has its content; after an fsync
\* of a directory every crash state has its entries, whichever of the other
\* micro-ops persisted (model.rs, the barriers of compile).
FsyncPromise ==
    [][\A op \in Ops : (op.op = "fsync" /\ CompileOp(op) /\ ~failed') => SyncedSurvives(op.path)']_vars

\* The image after the first n micro-ops, when nothing is lost.
ReplayTo(n) == CrashFs(Program, 1..n)

\* No crash state shows a byte that was never visible at that place of the
\* file, except that posix lets a size persist without its data and shows
\* zeros (model.rs, Profile; crash.rs, the data=ordered rule of close).
BytesWereWritten ==
    LET past == [n \in 0..Len(micro) |-> ReplayTo(n)]
    IN  \A s \in CrashSets :
            LET fs == CrashFs(Program, s)
            IN  \A ino \in {i \in DOMAIN fs : IsFile(fs, i)} :
                    LET seen == Content(fs[ino])
                    IN  \A k \in DOMAIN seen :
                          \/ profile = "posix" /\ seen[k] = 0
                          \/ \E n \in 0..Len(micro) :
                                LET was == Content(past[n][ino])
                                IN  k <= Len(was) /\ was[k] = seen[k]

\* On ext4 a file that took the place of another by rename has, at that moment
\* and in every crash state that shows the rename, all it had in the volatile
\* view: never the empty or partial file of the unsynced replace (crash.rs,
\* close, and its test ext4_auto_da_alloc_makes_replace_safe).
ReplaceIsAtomic ==
    profile = "ext4" =>
        \A s \in CrashSets, j \in DOMAIN micro :
            LET m == micro[j].m
            IN  (j \in s /\ m.kind = "Rename" /\ m.replaces /\ IsFile(v, m.ino)) =>
                   Content(CrashFs(Program, s \cap (1..j))[m.ino]) = Content(ReplayTo(j)[m.ino])

-----------------------------------------------------------------------------
(* Refinement and histories *)

\* Compiling on changes no earlier crash point: the states of a crash after
\* the first k ops depend on those ops alone, although durable_at and op_end
\* are shared by all points (crash.rs, in_flight).
InFlightStable ==
    [][\A k \in Points(Program) : /\ InFlight(Program, k) = InFlight(Program', k)
                                  /\ Durable(Program, k) = Durable(Program', k)
                                  /\ marks_before[k + 1] = marks_before'[k + 1]]_vars

\* The micro-ops as Durability sees them.
Barriers == INSTANCE Durability WITH
                issued <- [j \in DOMAIN micro |-> micro[j].m],
                durable <- {j \in DOMAIN micro : micro[j].durable_at # NEVER}

BarrierStep(op) ==
    CASE op.op = "fsync" -> Barriers!Fsync(Lookup(v, op.path))
      [] op.op = "sync"  -> Barriers!SyncAll
      [] op.op = "mark"  -> UNCHANGED Barriers!vars
      [] OTHER           -> Barriers!Issue

\* compile implements the barrier specification Durability, and each op the
\* step of it that the op stands for: whatever the bookkeeping of pending
\* lists, an fsync makes durable what was done to its inode (with one journal,
\* and all metadata) and nothing else (compile, register and barriers).
ImplementsDurability ==
    /\ Barriers!Spec
    /\ [][\A op \in Ops : (CompileOp(op) /\ ~failed') => BarrierStep(op)]_vars

\* The ops a directory has: none writes no bytes, which compile takes for a
\* change of the size (model.rs, end > len), and none removes or moves the root.
DirectoryOps == RootStays /\ \A op \in Ops : op.op = "write" => op.data # <<>>

\* The volatile view as PosixDir sees it.
Paths == INSTANCE PosixDir WITH tree <- ToTree(v)

\* compile's inode-level replay implements the path-level directory PosixDir,
\* op by op: what an op does to the volatile view is what PosixDir says that
\* very op does to the tree (compile's match on op, Fs::apply, Fs::to_tree).
ImplementsPosixDir ==
    /\ Paths!Spec
    /\ [][\A op \in Ops : (CompileOp(op) /\ ~failed') => Paths!Step(op)]_vars
=============================================================================
