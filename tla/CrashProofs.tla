----------------------------- MODULE CrashProofs -----------------------------
(***************************************************************************)
(* Proofs about the crash states of every compiled program: compile        *)
(* implements the barrier specification and the directory one, later ops   *)
(* change no earlier crash point, and close gives the smallest legal state. *)
(***************************************************************************)
EXTENDS ProgramProofs, CrashStates

-----------------------------------------------------------------------------
(* compile implements Durability *)

\* The micro-ops and the durable ones, as the refinement mapping names them.
DurableSet == {j \in DOMAIN micro : micro[j].durable_at # NEVER}

\* The mapped sequence of micro-ops is as long as compile's.
LEMMA IssuedIsSeq ==
    ASSUME TypeOK
    PROVE  Issued \in Seq(Range(Issued)) /\ Len(Issued) = Len(micro)
           /\ DOMAIN Issued = DOMAIN micro
<1>1. Len(micro) \in Nat /\ DOMAIN micro = 1..Len(micro)
  BY TablesType
<1>2. Issued = [j \in 1..Len(micro) |-> Issued[j]]
  BY <1>1 DEF Issued
<1>3. QED
  BY <1>1, <1>2, FunctionIsSeq

\* A sequence that agrees with s where s is defined is s and its own rest.
LEMMA Extension ==
    ASSUME NEW s, s \in Seq(Range(s)), NEW t, t \in Seq(Range(t)),
           Len(s) <= Len(t), \A k \in 1..Len(s) : t[k] = s[k]
    PROVE  t = s \o SubSeq(t, Len(s) + 1, Len(t))
<1> DEFINE rest == SubSeq(t, Len(s) + 1, Len(t))
<1>1. Len(s) \in Nat /\ Len(t) \in Nat
  OBVIOUS
<1>2. /\ rest \in Seq(Range(t)) /\ Len(rest) = Len(t) - Len(s)
      /\ \A k \in 1..(Len(t) - Len(s)) : rest[k] = t[Len(s) + k]
  BY <1>1
<1> HIDE DEF rest
<1>3. rest \in Seq(Range(rest))
  BY <1>2, SeqOfValues
<1>4. /\ s \o rest \in Seq(Range(s \o rest))
      /\ Len(s \o rest) = Len(t) /\ DOMAIN (s \o rest) = 1..Len(t)
      /\ \A k \in 1..Len(t) : (s \o rest)[k] = IF k <= Len(s) THEN s[k] ELSE rest[k - Len(s)]
  <2>1. Len(s) + Len(rest) = Len(t)
    BY <1>1, <1>2
  <2>2. QED
    BY <1>3, <2>1, ConcatIs
<1>5. ASSUME NEW k \in 1..Len(t) PROVE (s \o rest)[k] = t[k]
  <2>1. CASE k <= Len(s)
    <3>1. k \in 1..Len(s)
      BY <1>1, <2>1
    <3>2. QED
      BY <1>4, <2>1, <3>1
  <2>2. CASE ~(k <= Len(s))
    <3>1. k - Len(s) \in 1..(Len(t) - Len(s)) /\ Len(s) + (k - Len(s)) = k
      BY <1>1, <2>2
    <3>2. rest[k - Len(s)] = t[k]
      BY <1>2, <3>1
    <3>3. QED
      BY <1>4, <2>2, <3>2
  <2>3. QED
    BY <2>1, <2>2
<1>6. ASSUME NEW a, NEW b, NEW n \in Nat, a = [k \in 1..n |-> a[k]], b = [k \in 1..n |-> b[k]],
             \A k \in 1..n : a[k] = b[k]
      PROVE  a = b
  <2>1. [k \in 1..n |-> a[k]] = [k \in 1..n |-> b[k]]
    BY <1>6
  <2>2. QED
    BY <1>6, <2>1
<1>7. t = [k \in 1..Len(t) |-> t[k]]
  OBVIOUS
<1>a. s \o rest = [k \in 1..Len(t) |-> (s \o rest)[k]]
  <2>1. ASSUME NEW S, NEW a \in Seq(S) PROVE a = [k \in 1..Len(a) |-> a[k]]
    OBVIOUS
  <2>2. QED
    BY <1>4, <2>1
<1>8. t = s \o rest
  BY <1>1, <1>5, <1>6, <1>7, <1>a
<1>9. QED
  BY <1>8 DEF rest

\* An iteration that emits issues micro-ops and makes none durable.
LEMMA EmitIssues ==
    ASSUME TypeOK, TypeOK', NEW fs, NEW ms, ms \in Seq(Range(ms)), Emit(fs, ms)
    PROVE  /\ Issued' = Issued \o SubSeq(Issued', Len(Issued) + 1, Len(Issued'))
           /\ DurableSet' = DurableSet /\ profile' = profile
<1>1. /\ Len(micro) \in Nat /\ Len(ms) \in Nat
      /\ DOMAIN micro = 1..Len(micro) /\ DOMAIN micro' = 1..(Len(micro) + Len(ms))
      /\ Len(micro') = Len(micro) + Len(ms)
      /\ \A j \in DOMAIN micro : micro'[j] = micro[j]
      /\ \A j \in New(ms) : micro'[j] = [m |-> NewMicro(ms, j), op |-> OpIndex,
                                        durable_at |-> NEVER]
  BY TablesType, EmitMicro
<1>2. \A j \in DOMAIN micro' : j \in DOMAIN micro \/ j \in New(ms)
  BY <1>1 DEF New
<1>3. \A j \in DOMAIN micro : j \in DOMAIN micro'
  BY <1>1
<1>4. DurableSet' = DurableSet
  <2>1. ASSUME NEW j \in New(ms) PROVE micro'[j].durable_at = NEVER
    <3>1. micro'[j] = [m |-> NewMicro(ms, j), op |-> OpIndex, durable_at |-> NEVER]
      BY <1>1
    <3>2. QED
      BY <3>1
  <2>2. QED
    BY <1>1, <1>2, <1>3, <2>1 DEF DurableSet, NEVER
<1>5. /\ Issued \in Seq(Range(Issued)) /\ Len(Issued) = Len(micro)
      /\ Issued' \in Seq(Range(Issued')) /\ Len(Issued') = Len(micro')
      /\ DOMAIN Issued' = DOMAIN micro'
  <2>1. Len(micro') \in Nat /\ DOMAIN micro' = 1..Len(micro')
    BY <1>1
  <2>2. Issued' = [j \in 1..Len(micro') |-> (Issued')[j]]
    BY <2>1 DEF Issued
  <2>3. QED
    BY <2>1, <2>2, IssuedIsSeq, FunctionIsSeq
<1>6. Len(Issued) <= Len(Issued') /\ \A k \in 1..Len(Issued) : (Issued')[k] = Issued[k]
  BY <1>1, <1>3, <1>5 DEF Issued
<1>7. Issued' = Issued \o SubSeq(Issued', Len(Issued) + 1, Len(Issued'))
  BY <1>5, <1>6, Extension
<1>8. QED
  BY <1>4, <1>7 DEF Emit

\* A flush changes no micro-op and adds what it lists to the durable ones.
LEMMA FlushDurable ==
    ASSUME TypeOK, OpIndex < MaxOps, NEW listed, Flushes(listed)
    PROVE  /\ Issued' = Issued /\ profile' = profile
           /\ DurableSet' = DurableSet \cup (listed \cap DOMAIN micro)
<1>1. /\ DOMAIN micro' = DOMAIN micro
      /\ \A j \in DOMAIN micro :
            /\ micro'[j].m = micro[j].m
            /\ micro'[j].durable_at = IF j \in listed /\ micro[j].durable_at = NEVER
                                      THEN OpIndex ELSE micro[j].durable_at
  BY FlushMicro DEF Flushes
<1>2. OpIndex # NEVER
  BY TablesType, CompileAssumption DEF NEVER
<1>3. Issued' = Issued
  BY <1>1 DEF Issued
<1>4. DurableSet' = DurableSet \cup (listed \cap DOMAIN micro)
  BY <1>1, <1>2 DEF DurableSet, NEVER
<1>5. QED
  BY <1>3, <1>4 DEF Flushes, EndOp

\* The micro-ops an fsync of ino has to cover, and with one journal all metadata.
Covered(ino) == {k \in DOMAIN micro : FlushedWith(micro[k].m) = ino}
Committed == {k \in DOMAIN micro : profile = "ext4" /\ micro[k].m.kind # "Write"}

\* Durability's operators under the refinement mapping, in terms of compile's.
LEMMA MappedOperators ==
    /\ Barriers!Journal = Committed
    /\ \A ino : Barriers!Covered(ino) = Covered(ino)
    /\ \A j \in DOMAIN micro : Barriers!Target(Issued[j]) = FlushedWith(micro[j].m)
<1>1. Barriers!Journal = Committed
  BY DEF Barriers!Journal, Committed
<1>2. \A j \in DOMAIN micro : Barriers!Target(micro[j].m) = FlushedWith(micro[j].m)
  BY DEF Barriers!Target, FlushedWith, IsData
<1>3. ASSUME NEW ino PROVE Barriers!Covered(ino) = Covered(ino)
  BY <1>2 DEF Barriers!Covered, Covered
<1>4. \A j \in DOMAIN micro : Barriers!Target(Issued[j]) = FlushedWith(micro[j].m)
  BY <1>2 DEF Issued
<1>5. QED
  BY <1>1, <1>3, <1>4

\* What an fsync finds on the pending lists is, up to what is durable already,
\* what it has to cover.
LEMMA FsyncCovers ==
    ASSUME TypeOK, PendingOK, NEW ino
    PROVE  DurableSet \cup (FsyncList(ino) \cap DOMAIN micro)
             = DurableSet \cup Covered(ino) \cup Committed
<1>1. ASSUME NEW k \in FsyncList(ino) \cap DOMAIN micro
      PROVE  k \in Covered(ino) \cup Committed
  <2>1. CASE k \in ListedFor(pending_data, ino) \cup ListedFor(pending_dir, ino)
    <3>1. PICK e \in pending_data \cup pending_dir : e[1] = ino /\ e[2] = k
      BY <2>1 DEF ListedFor
    <3>2. QED
      BY <1>1, <3>1 DEF PendingOK, Covered
  <2>2. CASE profile = "ext4" /\ k \in pending_meta
    BY <1>1, <2>2 DEF PendingOK, Committed, IsMeta
  <2>3. QED
    BY <1>1, <2>1, <2>2 DEF FsyncList, JournalCommit
<1>2. ASSUME NEW k \in DOMAIN micro, micro[k].durable_at = NEVER,
             k \in Covered(ino) \cup Committed
      PROVE  k \in FsyncList(ino)
  <2>1. CASE k \in Covered(ino)
    <3>1. <<ino, k>> \in pending_data \/ <<ino, k>> \in pending_dir
      BY <1>2, <2>1 DEF PendingOK, Covered
    <3>2. \A pending : <<ino, k>> \in pending => k \in ListedFor(pending, ino)
      BY DEF ListedFor
    <3>3. QED
      BY <3>1, <3>2 DEF FsyncList, JournalCommit
  <2>2. CASE k \in Committed
    <3>1. profile = "ext4" /\ IsMeta(micro[k].m)
      BY <2>2 DEF Committed, IsMeta
    <3>2. k \in pending_meta
      BY <1>2, <3>1 DEF PendingOK
    <3>3. QED
      BY <3>1, <3>2 DEF FsyncList, JournalCommit
  <2>3. QED
    BY <1>2, <2>1, <2>2
<1>3. Covered(ino) \subseteq DOMAIN micro /\ Committed \subseteq DOMAIN micro
  BY DEF Covered, Committed
<1>4. \A k \in DOMAIN micro : k \in DurableSet \/ micro[k].durable_at = NEVER
  BY DEF DurableSet
<1>5. QED
  BY <1>1, <1>2, <1>3, <1>4

\* Each successful iteration of compile is the step of Durability its op stands for.
LEMMA OpIsBarrierStep ==
    ASSUME TypeOK, PendingOK, TypeOK', NEW op \in Ops, CompileOp(op), ~failed'
    PROVE  BarrierStep(op)
<1>a. OpIndex < MaxOps /\ ~Stops
  BY DEF CompileOp, Stops
<1>1. CASE \/ CreateOrMkdir(op) \/ WriteOp(op) \/ Truncate(op) \/ RenameOp(op)
           \/ UnlinkOrRmdir(op)
  <2>1. PICK fs, ms : ms \in Seq(Range(ms)) /\ Emit(fs, ms)
    BY <1>1, <1>a, TraceOps, ChangesEmit DEF Emits
  <2>2. /\ Issued' = Issued \o SubSeq(Issued', Len(Issued) + 1, Len(Issued'))
        /\ DurableSet' = DurableSet /\ profile' = profile
    BY <2>1, EmitIssues
  <2>3. Barriers!Issue
    BY <2>2 DEF Barriers!Issue, Issued, DurableSet
  <2>4. op.op \notin {"fsync", "sync", "mark"}
    BY <1>1 DEF CreateOrMkdir, WriteOp, Truncate, RenameOp, UnlinkOrRmdir
  <2>5. QED
    BY <2>3, <2>4 DEF BarrierStep
<1>2. CASE Fsync(op)
  <2> DEFINE ino == Lookup(v, op.path)
  <2>1. Issued' = Issued /\ profile' = profile
        /\ DurableSet' = DurableSet \cup Covered(ino) \cup Committed
    BY <1>2, <1>a, FsyncFlushes, FlushDurable, FsyncCovers
  <2>2. Barriers!Fsync(ino)
    BY <2>1, MappedOperators DEF Barriers!Fsync, Barriers!Barrier, Issued, DurableSet
  <2>3. op.op = "fsync"
    BY <1>2 DEF Fsync
  <2>4. QED
    BY <2>2, <2>3 DEF BarrierStep
<1>3. CASE Sync(op)
  <2>1. Issued' = Issued /\ profile' = profile
        /\ DurableSet' = DurableSet \cup (DOMAIN micro \cap DOMAIN micro)
    BY <1>a, <1>3, SyncFlushes, FlushDurable
  <2>2. DurableSet' = DOMAIN micro
    BY <2>1 DEF DurableSet
  <2>3. Barriers!SyncAll
    BY <2>1, <2>2 DEF Barriers!SyncAll, Issued, DurableSet
  <2>4. op.op = "sync"
    BY <1>3 DEF Sync
  <2>5. QED
    BY <2>3, <2>4 DEF BarrierStep
<1>4. CASE Mark(op)
  <2>1. Issued' = Issued /\ profile' = profile /\ DurableSet' = DurableSet
    BY <1>a, <1>4, MarkFlushes, FlushDurable
  <2>2. UNCHANGED Barriers!vars
    BY <2>1 DEF Barriers!vars, Issued, DurableSet
  <2>3. op.op = "mark"
    BY <1>4 DEF Mark
  <2>4. QED
    BY <2>2, <2>3 DEF BarrierStep
<1>5. QED
  BY <1>1, <1>2, <1>3, <1>4 DEF CompileOp

\* An fsync that covers nothing is a barrier too, so each of these steps is one
\* of Durability's next-state relation.
LEMMA BarrierStepIsNext ==
    ASSUME NEW op, BarrierStep(op)
    PROVE  [Barriers!Next]_(Barriers!vars)
<1>1. ASSUME NEW ino, Barriers!Fsync(ino) PROVE Barriers!Next
  <2>1. CASE Covered(ino) = {}
    <3>1. Barriers!Covered(ino) = {}
      BY <2>1, MappedOperators
    <3>2. Barriers!Barrier({})
      BY <1>1, <3>1 DEF Barriers!Fsync, Barriers!Barrier
    <3>3. QED
      BY <3>2 DEF Barriers!Next
  <2>2. CASE Covered(ino) # {}
    <3>1. PICK j \in DOMAIN micro : FlushedWith(micro[j].m) = ino
      BY <2>2 DEF Covered
    <3>2. j \in DOMAIN Issued /\ Barriers!Target(Issued[j]) = ino
      BY <3>1, MappedOperators DEF Issued
    <3>3. \E k \in DOMAIN Issued : Barriers!Fsync(Barriers!Target(Issued[k]))
      BY <1>1, <3>2
    <3>4. QED
      BY <3>3 DEF Barriers!Next, Issued
  <2>3. QED
    BY <2>1, <2>2
<1>2. QED
  BY <1>1 DEF BarrierStep, Barriers!Next

\* compile implements Durability, for every trace: a micro-op is durable from
\* the first barrier that covers it, and no barrier covers anything else.
THEOREM CompileImplementsDurability == Spec => ImplementsDurability
<1> DEFINE EachOp == \A op \in Ops : (CompileOp(op) /\ ~failed') => BarrierStep(op)
<1>1. Init => Barriers!Init
  BY DEF Init, Barriers!Init
<1>2. ASSUME TypeOK, PendingOK, [Next]_vars PROVE EachOp
  BY <1>2, NextKeeps, OpIsBarrierStep
<1>3. ASSUME TypeOK, PendingOK, [Next]_vars PROVE [Barriers!Next]_(Barriers!vars)
  <2>1. CASE micro' = micro /\ profile' = profile
    BY <2>1 DEF Barriers!vars, NEVER
  <2>2. CASE Next /\ ~failed'
    <3>1. PICK op \in Ops : CompileOp(op)
      BY <2>2 DEF Next
    <3>2. BarrierStep(op)
      BY <1>2, <1>3, <2>2, <3>1
    <3>3. QED
      BY <3>2, BarrierStepIsNext
  <2>3. CASE Next /\ failed'
    <3>1. PICK op \in Ops : CompileOp(op)
      BY <2>3 DEF Next
    <3>2. failed' # failed
      BY <2>3, <3>1 DEF CompileOp
    <3>3. Stops
      BY <1>3, <3>1, <3>2, TraceOps, StepCases DEF Emits, Emit, Flushes, EndOp
    <3>4. QED
      BY <2>1, <3>3 DEF Stops
  <2>4. QED
    BY <1>3, <2>1, <2>2, <2>3 DEF vars
<1>4. QED
  BY <1>1, <1>2, <1>3, CompileTypeOK, CompilePendingOK, PTL
     DEF Spec, ImplementsDurability, Barriers!Spec

-----------------------------------------------------------------------------
(* close gives the smallest legal state *)

\* For every trace and both profiles, close extends a candidate to the smallest
\* legal crash state (crash.rs, close).
THEOREM CloseGivesLeast == Spec => []CloseIsLeast
<1>1. ASSUME TypeOK PROVE CloseIsLeast
  <2>1. Program.op_end[CrashPoint + 1] \in Nat
    <3>1. Len(op_end) \in 1..Len(op_end) /\ CrashPoint + 1 = Len(op_end)
      BY <1>1, TablesType DEF CrashPoint, OpIndex
    <3>2. Program.op_end = op_end
      BY DEF Program
    <3>3. QED
      BY <1>1, <3>1, <3>2 DEF TypeOK
  <2>2. ASSUME NEW s \in SUBSET InFlight(Program, CrashPoint)
        PROVE  s \subseteq Before(Program, CrashPoint)
    BY DEF InFlight
  <2>3. \A s \in SUBSET InFlight(Program, CrashPoint) :
           /\ Legal(Program, CrashPoint, Close(Program, CrashPoint, s))
           /\ s \subseteq Close(Program, CrashPoint, s)
           /\ \A t : Legal(Program, CrashPoint, t) /\ s \subseteq t
                       => Close(Program, CrashPoint, s) \subseteq t
    BY <2>1, <2>2, CloseLeast
  <2>4. \A t : Legal(Program, CrashPoint, t) => t \in SUBSET Before(Program, CrashPoint)
    BY DEF Legal
  <2>5. QED
    BY <2>3, <2>4 DEF CloseIsLeast, LegalStates
<1>2. QED
  BY <1>1, CompileTypeOK, PTL

-----------------------------------------------------------------------------
(* Later ops change no earlier crash point *)

\* A step keeps the micro-ops of every earlier point and, of those in flight
\* there, stamps only with an op that is not earlier.
Keeps ==
    /\ \A k \in 1..Len(op_end) : op_end'[k] = op_end[k] /\ marks_before'[k] = marks_before[k]
    /\ \A j \in DOMAIN micro :
          \/ micro'[j].durable_at = micro[j].durable_at
          \/ micro[j].durable_at = NEVER /\ micro'[j].durable_at = OpIndex

\* Appending to a table keeps its entries.
LEMMA AppendKeeps ==
    ASSUME TypeOK, NEW a \in Nat, NEW b \in Nat,
           op_end' = Append(op_end, a), marks_before' = Append(marks_before, b)
    PROVE  \A k \in 1..Len(op_end) : op_end'[k] = op_end[k] /\ marks_before'[k] = marks_before[k]
<1>1. op_end \in Seq(Nat) /\ marks_before \in Seq(Nat) /\ Len(marks_before) = Len(op_end)
  BY DEF TypeOK
<1>2. QED
  BY <1>1

\* Every iteration of compile's loop keeps what earlier crash points read.
LEMMA StepKeeps ==
    ASSUME TypeOK, PendingOK, [Next]_vars
    PROVE  Keeps
<1>1. CASE UNCHANGED vars
  BY <1>1 DEF vars, Keeps
<1>2. CASE Next
  <2>1. PICK op \in Ops : CompileOp(op)
    BY <1>2 DEF Next
  <2>2. OpIndex < MaxOps /\ (Emits \/ Stops \/ (\E listed : Flushes(listed)))
    BY <2>1, TraceOps, StepCases
  <2>a. Len(micro) \in Nat /\ Marks \in Nat
    BY TablesType
  <2>3. CASE Emits
    <3>1. PICK fs, ms : ms \in Seq(Range(ms)) /\ Emit(fs, ms)
      BY <2>3 DEF Emits
    <3>2. Len(ms) \in Nat /\ \A j \in DOMAIN micro : micro'[j] = micro[j]
      BY <3>1, EmitMicro
    <3>3. \A k \in 1..Len(op_end) : op_end'[k] = op_end[k] /\ marks_before'[k] = marks_before[k]
      <4>1. Len(micro) + Len(ms) \in Nat
        BY <2>a, <3>2
      <4>2. QED
        BY <2>a, <3>1, <4>1, AppendKeeps DEF Emit
    <3>4. QED
      BY <3>2, <3>3 DEF Keeps
  <2>4. CASE Stops
    BY <2>4 DEF Stops, Keeps
  <2>5. CASE \E listed : Flushes(listed)
    <3>1. PICK listed : Flushes(listed)
      BY <2>5
    <3>2. PICK marks \in Nat : EndOp(marks)
      BY <3>1 DEF Flushes
    <3>3. \A k \in 1..Len(op_end) : op_end'[k] = op_end[k] /\ marks_before'[k] = marks_before[k]
      BY <2>a, <3>2, AppendKeeps DEF EndOp
    <3>4. \A j \in DOMAIN micro :
             micro'[j].durable_at = IF j \in listed /\ micro[j].durable_at = NEVER
                                    THEN OpIndex ELSE micro[j].durable_at
      BY <3>1, FlushMicro DEF Flushes
    <3>5. QED
      BY <3>3, <3>4 DEF Keeps
  <2>6. QED
    BY <2>2, <2>3, <2>4, <2>5
<1>3. QED
  BY <1>1, <1>2

\* For every trace, the crash states after the first k ops depend on those ops
\* alone: compiling on moves nothing in or out of flight at an earlier point
\* (crash.rs, in_flight, over the shared durable_at and op_end).
THEOREM EarlierPointsAreStable == Spec => InFlightStable
<1> DEFINE Stable == \A k \in Points(Program) :
                        /\ InFlight(Program, k) = InFlight(Program', k)
                        /\ Durable(Program, k) = Durable(Program', k)
                        /\ marks_before[k + 1] = marks_before'[k + 1]
<1>1. ASSUME TypeOK, PendingOK, [Next]_vars PROVE Stable
  <2>1. Keeps
    BY <1>1, StepKeeps
  <2>2. SUFFICES ASSUME NEW k \in 0..(Len(op_end) - 1)
                 PROVE  /\ InFlight(Program, k) = InFlight(Program', k)
                        /\ Durable(Program, k) = Durable(Program', k)
                        /\ marks_before[k + 1] = marks_before'[k + 1]
    BY DEF Points, Program
  <2>3. Len(op_end) \in Nat \ {0} /\ OpIndex = Len(op_end) - 1 /\ Len(micro) \in Nat
        /\ DOMAIN micro = 1..Len(micro) /\ MaxOps \in Nat /\ Len(op_end) <= MaxOps + 1
    BY <1>1, TablesType, CompileAssumption DEF OpIndex, TypeOK
  <2>4. k + 1 \in 1..Len(op_end) /\ k \in Nat /\ k <= OpIndex /\ k < NEVER
    BY <2>2, <2>3 DEF NEVER
  <2>5. op_end'[k + 1] = op_end[k + 1] /\ marks_before'[k + 1] = marks_before[k + 1]
    BY <2>1, <2>4 DEF Keeps
  <2>6. op_end[k + 1] \in Nat /\ op_end[k + 1] <= Len(micro)
    BY <1>1, <2>4 DEF TypeOK
  <2>7. Before(Program, k) = 1..op_end[k + 1] /\ Before(Program', k) = 1..op_end[k + 1]
    BY <2>5 DEF Before, Program
  <2>8. ASSUME NEW j \in 1..op_end[k + 1]
        PROVE  /\ micro[j].durable_at >= k <=> micro'[j].durable_at >= k
               /\ micro[j].durable_at < k <=> micro'[j].durable_at < k
    <3>1. j \in DOMAIN micro
      BY <2>3, <2>6
    <3>2. \/ micro'[j].durable_at = micro[j].durable_at
          \/ micro[j].durable_at = NEVER /\ micro'[j].durable_at = OpIndex
      BY <2>1, <3>1 DEF Keeps
    <3>3. OpIndex \in Nat /\ NEVER \in Nat
      BY <2>3 DEF NEVER
    <3>4. QED
      BY <2>4, <3>2, <3>3
  <2>9. /\ InFlight(Program, k) = {j \in 1..op_end[k + 1] : micro[j].durable_at >= k}
        /\ InFlight(Program', k) = {j \in 1..op_end[k + 1] : micro'[j].durable_at >= k}
        /\ Durable(Program, k) = {j \in 1..op_end[k + 1] : micro[j].durable_at < k}
        /\ Durable(Program', k) = {j \in 1..op_end[k + 1] : micro'[j].durable_at < k}
    BY <2>7 DEF InFlight, Durable, Program
  <2>10. QED
    BY <2>5, <2>8, <2>9
<1>2. QED
  BY <1>1, CompileTypeOK, CompilePendingOK, PTL DEF Spec, InFlightStable

-----------------------------------------------------------------------------
(* What a crash may do to the directory *)

\* Every crash state is a set of micro-ops close calls legal.
LEMMA CrashSetsLegal ==
    ASSUME TypeOK, NEW s \in CrashSets
    PROVE  Legal(Program, CrashPoint, s) /\ Before(Program, CrashPoint) = DOMAIN micro
<1>1. CrashPoint + 1 = Len(op_end) /\ op_end[Len(op_end)] = Len(micro) /\ Len(micro) \in Nat
      /\ DOMAIN micro = 1..Len(micro)
  BY TablesType DEF CrashPoint, OpIndex, TypeOK
<1>2. Program.op_end = op_end
  BY DEF Program
<1>3. PICK c \in SUBSET InFlight(Program, CrashPoint) : s = Close(Program, CrashPoint, c)
  BY DEF CrashSets
<1>4. c \subseteq Before(Program, CrashPoint)
  BY DEF InFlight
<1>5. Program.op_end[CrashPoint + 1] \in Nat
  BY <1>1, <1>2
<1>6. Legal(Program, CrashPoint, s)
  BY <1>3, <1>4, <1>5, CloseLeast
<1> QED BY <1>1, <1>2, <1>6 DEF Before

\* For every trace, the micro-ops replayed on the base give the volatile view:
\* a crash that loses nothing leaves what the program saw (compile, emit).
THEOREM ReplayGivesVolatile == Spec => []VolatileIsReplay
<1>1. TypeOK /\ ImageOK => VolatileIsReplay
  BY ProgramIsSound DEF VolatileIsReplay
<1> QED BY <1>1, CompileTypeOK, CompileImageOK, PTL

\* On ext4, up to a persisted replacing rename a crash state and the program
\* have done the same to the inode that was moved.
LEMMA ReplacedWhole ==
    ASSUME TypeOK, ImageOK, profile = "ext4", NEW s \in CrashSets, NEW j \in DOMAIN micro,
           j \in s, micro[j].m.kind = "Rename", micro[j].m.replaces, IsFile(v, micro[j].m.ino)
    PROVE  CrashFs(Program, s \cap (1..j))[micro[j].m.ino] = ReplayTo(j)[micro[j].m.ino]
<1> DEFINE ino == micro[j].m.ino
<1>1. /\ Sound(Program) /\ Program.micro = micro /\ Program.base = base
      /\ Program.profile = profile /\ CrashFs(Program, DOMAIN micro) = v
  BY ProgramIsSound
<1>2. Legal(Program, CrashPoint, s) /\ Before(Program, CrashPoint) = DOMAIN micro
  BY CrashSetsLegal
<1>3. ino \in 1..Len(base)
  <2>1. Fits(micro[j].m, Len(base))
    BY <1>1 DEF Sound
  <2> QED BY <2>1 DEF Fits
<1>4. base[ino].kind = "file"
  <2>1. \A i \in 1..Len(base) : CrashFs(Program, DOMAIN micro)[i].kind = base[i].kind
    BY <1>1, CrashKeepsKinds
  <2>2. v[ino].kind = "file"
    BY DEF IsFile
  <2> QED BY <1>1, <1>3, <2>1, <2>2
<1>5. ASSUME NEW k \in DOMAIN micro, ToFile(micro[k].m, ino)
      PROVE  k \in s \cap (1..j) <=> k \in 1..j
  <2>1. SUFFICES ASSUME k \in 1..j PROVE k \in s
    OBVIOUS
  <2>2. CASE k = j
    BY <2>2
  <2>3. CASE k # j
    <3>1. DOMAIN micro = 1..Len(micro)
      BY TablesType
    <3>2. k < j
      BY <2>1, <2>3, <3>1
    <3>3. /\ (IsMeta(micro[k].m) /\ IsMeta(micro[j].m)) => k \in s
          /\ (micro[k].m.kind = "Write" /\ micro[k].m.ino = micro[j].m.ino) => k \in s
      BY <1>1, <1>2, <3>2 DEF Legal
    <3> QED BY <1>5, <3>3 DEF ToFile, IsMeta
  <2> QED BY <2>2, <2>3
<1> HIDE DEF ino
<1>6. CrashFs(Program, s \cap (1..j))[ino] = CrashFs(Program, 1..j)[ino]
  <2> DEFINE t == s \cap (1..j)
             u == 1..j
  <2>1. /\ ino \in 1..Len(Program.base) /\ Program.base[ino].kind = "file"
        /\ SameData(Program, ino, t, u)
    BY <1>1, <1>3, <1>4, <1>5 DEF SameData
  <2> HIDE DEF t, u
  <2>2. CrashFs(Program, t)[ino] = CrashFs(Program, u)[ino]
    BY <1>1, <2>1, FileSurvives
  <2> QED BY <2>2 DEF t, u
<1> QED BY <1>6 DEF ReplayTo, ino

\* For every trace, a crash on ext4 that shows a replacing rename shows the
\* whole file that was moved (crash.rs, close).
THEOREM ReplaceLosesNothing == Spec => []ReplaceIsAtomic
<1>1. ASSUME TypeOK, ImageOK PROVE ReplaceIsAtomic
  BY <1>1, ReplacedWhole DEF ReplaceIsAtomic
<1> QED BY <1>1, CompileTypeOK, CompileImageOK, PTL

\* What an fsync has flushed is durable at the crash point after it.
LEMMA FsyncIsDurable ==
    ASSUME TypeOK, PendingOK, TypeOK', NEW op, CompileOp(op), op.op = "fsync", ~failed'
    PROVE  /\ v' = v /\ base' = base /\ Lookup(v, op.path) # NoIno
           /\ DOMAIN micro' = DOMAIN micro
           /\ \A j \in DOMAIN micro :
                 /\ micro'[j].m = micro[j].m
                 /\ FlushedWith(micro[j].m) = Lookup(v, op.path) => j \in Durable(Program', CrashPoint')
<1> DEFINE ino == Lookup(v, op.path)
<1>1. Fsync(op)
  BY DEF CompileOp, CreateOrMkdir, WriteOp, Truncate, RenameOp, UnlinkOrRmdir, Sync, Mark
<1>2. ino # NoIno /\ Flushes(FsyncList(ino))
  <2>1. ~Err /\ ~Stops
    BY DEF Err, Stops
  <2>2. ino # NoIno
    BY <1>1, <2>1 DEF Fsync
  <2> QED BY <1>1, <2>1, <2>2, FsyncFlushes
<1>3. v' = v /\ base' = base
  BY <1>2 DEF Flushes, EndOp
<1>4. DOMAIN micro' = DOMAIN micro /\ \A j \in DOMAIN micro : micro'[j].m = micro[j].m
  BY <1>2, FlushMicro DEF Flushes
<1>5. ASSUME NEW j \in DOMAIN micro, FlushedWith(micro[j].m) = ino
      PROVE  micro'[j].durable_at # NEVER
  <2>1. OpIndex < MaxOps
    BY DEF CompileOp
  <2>2. DurableSet' = DurableSet \cup Covered(ino) \cup Committed
    BY <1>2, <2>1, FlushDurable, FsyncCovers
  <2>3. j \in DurableSet'
    BY <1>5, <2>2 DEF Covered
  <2> QED BY <2>3 DEF DurableSet, NEVER
<1>6. ASSUME NEW j \in DOMAIN micro', micro'[j].durable_at # NEVER
      PROVE  j \in Durable(Program', CrashPoint')
  <2> DEFINE n == Len(op_end')
  <2>1. /\ micro' \in Seq(Range(micro')) /\ op_end' \in Seq(Nat) /\ n \in 1..(MaxOps + 1)
        /\ op_end'[n] = Len(micro') /\ OpIndex' = n - 1
        /\ micro'[j].op \in 0..(OpIndex' - 1)
        /\ micro'[j].durable_at \in (micro'[j].op + 1)..(OpIndex' - 1) \cup {NEVER}
    BY DEF TypeOK, OpIndex
  <2>2. j \in 1..Len(micro') /\ n \in Nat /\ CrashPoint' + 1 = n /\ CrashPoint' = n - 1
    BY <2>1 DEF CrashPoint
  <2>3. micro'[j].durable_at \in (micro'[j].op + 1)..((n - 1) - 1)
    BY <1>6, <2>1
  <2>4. micro'[j].durable_at < n - 1
    BY <2>1, <2>2, <2>3
  <2>5. Program'.op_end = op_end' /\ Program'.micro = micro'
    BY DEF Program
  <2>6. Before(Program', CrashPoint') = 1..Len(micro')
    BY <2>1, <2>2, <2>5 DEF Before
  <2> QED BY <2>2, <2>4, <2>5, <2>6 DEF Durable
<1> QED BY <1>2, <1>3, <1>4, <1>5, <1>6

\* Everything an fsync of the op's file or directory covers is durable.
Synced(op) ==
    /\ op.op = "fsync" /\ Lookup(v, op.path) # NoIno
    /\ \A j \in DOMAIN micro :
          FlushedWith(micro[j].m) = Lookup(v, op.path) => j \in Durable(Program, CrashPoint)

SyncedIsKept == \A op \in Ops : Synced(op) => SyncedSurvives(op.path)

\* A file whose data is durable is in every crash state what it is in v.
LEMMA SyncedFile ==
    ASSUME TypeOK, ImageOK, NEW ino \in 1..Len(v), v[ino].kind = "file",
           \A j \in DOMAIN micro :
              FlushedWith(micro[j].m) = ino => j \in Durable(Program, CrashPoint)
    PROVE  FileKept(ino)
<1>1. /\ Sound(Program) /\ Program.micro = micro /\ Program.base = base
      /\ CrashFs(Program, DOMAIN micro) = v /\ Len(base) = Len(v)
  BY ProgramIsSound DEF ImageOK
<1>2. base[ino].kind = "file"
  BY <1>1, CrashKeepsKinds
<1>3. ASSUME NEW s \in CrashSets PROVE CrashFs(Program, s)[ino] = v[ino]
  <2>1. Durable(Program, CrashPoint) \subseteq s
    BY CrashSetsLegal DEF Legal
  <2>2. ASSUME NEW j \in DOMAIN micro, ToFile(micro[j].m, ino) PROVE j \in s
    <3>1. FlushedWith(micro[j].m) = ino
      BY <2>2 DEF ToFile, FlushedWith, IsData
    <3> QED BY <2>1, <3>1
  <2> DEFINE all == DOMAIN micro
  <2>3. /\ ino \in 1..Len(Program.base) /\ Program.base[ino].kind = "file"
        /\ SameData(Program, ino, s, all)
    BY <1>1, <1>2, <2>2 DEF SameData
  <2>4. CrashFs(Program, s)[ino] = CrashFs(Program, all)[ino]
    <3> HIDE DEF all
    <3> QED BY <1>1, <2>3, FileSurvives
  <2> QED BY <1>1, <2>4
<1> QED BY <1>3 DEF FileKept

\* A directory whose entries are durable has in every crash state the entries
\* it has in v, but for those a rename in flight took away.
LEMMA SyncedDir ==
    ASSUME TypeOK, ImageOK, NEW ino \in 1..Len(v), v[ino].kind = "dir",
           \A j \in DOMAIN micro :
              FlushedWith(micro[j].m) = ino => j \in Durable(Program, CrashPoint)
    PROVE  DirKept(ino)
<1>1. /\ Sound(Program) /\ Program.micro = micro /\ Program.base = base
      /\ CrashFs(Program, DOMAIN micro) = v /\ Len(base) = Len(v)
  BY ProgramIsSound DEF ImageOK
<1>2. base[ino].kind = "dir"
  BY <1>1, CrashKeepsKinds
<1>3. SUFFICES ASSUME NEW s \in CrashSets, NEW n \in Names
               PROVE  \/ CrashFs(Program, s)[ino].entries[n] = v[ino].entries[n]
                      \/ /\ v[ino].entries[n] = NoIno
                         /\ \E j \in InFlight(Program, CrashPoint) \ s :
                               /\ micro[j].m.kind = "Rename"
                               /\ micro[j].m.from = ino
                               /\ micro[j].m.from_name = n
                               /\ micro[j].m.ino = CrashFs(Program, s)[ino].entries[n]
  BY DEF DirKept
<1>4. Durable(Program, CrashPoint) \subseteq s /\ Before(Program, CrashPoint) = DOMAIN micro
  BY CrashSetsLegal DEF Legal
<1>5. ASSUME NEW j \in DOMAIN micro, EntersIn(micro[j].m, ino) PROVE j \in s
  <2>1. FlushedWith(micro[j].m) = ino
    BY <1>5 DEF EntersIn, FlushedWith, IsData
  <2> QED BY <1>4, <2>1
<1>6. \/ CrashFs(Program, s)[ino].entries[n] = v[ino].entries[n]
      \/ /\ v[ino].entries[n] = NoIno
         /\ \E j \in DOMAIN micro \ s :
               TookAway(micro[j].m, ino, n, CrashFs(Program, s)[ino].entries[n])
  <2>1. /\ ino \in 1..Len(Program.base) /\ Program.base[ino].kind = "dir"
        /\ \A j \in DOMAIN Program.micro : EntersIn(Program.micro[j].m, ino) => j \in s
    BY <1>1, <1>2, <1>5
  <2>2. \/ CrashFs(Program, s)[ino].entries[n] =
              CrashFs(Program, DOMAIN Program.micro)[ino].entries[n]
        \/ /\ CrashFs(Program, DOMAIN Program.micro)[ino].entries[n] = NoIno
           /\ \E j \in DOMAIN Program.micro \ s :
                 TookAway(Program.micro[j].m, ino, n, CrashFs(Program, s)[ino].entries[n])
    BY <1>1, <2>1, DirSurvives
  <2> QED BY <1>1, <2>2
<1>7. ASSUME NEW j \in DOMAIN micro \ s PROVE j \in InFlight(Program, CrashPoint) \ s
  <2>1. j \in Before(Program, CrashPoint) /\ j \notin Durable(Program, CrashPoint)
    BY <1>4
  <2>2. Program.micro[j].durable_at \in Int /\ CrashPoint \in Int
    <3>1. micro[j].durable_at \in (micro[j].op + 1)..(OpIndex - 1) \cup {NEVER} /\ MaxOps \in Nat
      BY CompileAssumption DEF TypeOK
    <3> QED BY <1>1, <3>1, TablesType DEF CrashPoint, NEVER
  <2>3. ~(Program.micro[j].durable_at < CrashPoint)
    BY <2>1 DEF Durable
  <2>4. Program.micro[j].durable_at >= CrashPoint
    BY <2>2, <2>3
  <2> QED BY <2>1, <2>4 DEF InFlight
<1> QED BY <1>6, <1>7 DEF TookAway

\* What is durable when an fsync returns survives every crash.
LEMMA SyncedKeeps == TypeOK /\ ImageOK => SyncedIsKept
<1> SUFFICES ASSUME TypeOK, ImageOK, NEW op \in Ops, Synced(op)
             PROVE  SyncedSurvives(op.path)
  BY DEF SyncedIsKept
<1> DEFINE ino == Lookup(v, op.path)
<1>1. ino \in 0..Len(v) /\ IsImage(v)
  <2>1. op.path \in Seq(Names)
    BY PathsAssumption DEF Synced
  <2> QED BY <2>1, LookupIn DEF ImageOK
<1>2. ino # NoIno /\ \A j \in DOMAIN micro :
         FlushedWith(micro[j].m) = ino => j \in Durable(Program, CrashPoint)
  BY DEF Synced
<1>3. SyncedSurvives(op.path) <=> IF IsDir(v, ino) THEN DirKept(ino) ELSE FileKept(ino)
  BY DEF SyncedSurvives
<1> HIDE DEF ino
<1>4. ino \in 1..Len(v) /\ Len(v) \in Nat
  BY <1>1, <1>2, ImageShape DEF NoIno
<1>5. v[ino].kind \in {"dir", "file"}
  BY <1>1, <1>4, ImageShape
<1>6. CASE v[ino].kind = "dir"
  <2>1. DirKept(ino)
    BY <1>2, <1>4, <1>6, SyncedDir
  <2> QED BY <1>2, <1>3, <1>6, <2>1 DEF IsDir
<1>7. CASE v[ino].kind = "file"
  <2>1. FileKept(ino)
    BY <1>2, <1>4, <1>7, SyncedFile
  <2> QED BY <1>2, <1>3, <1>7, <2>1 DEF IsDir
<1> QED BY <1>5, <1>6, <1>7

\* For every trace and both profiles: after an fsync of a file every crash
\* state has its content, and after an fsync of a directory its entries, but
\* for one a rename took away whose target was not synced (compile, barriers).
THEOREM FsyncKeepsItsPromise == Spec => FsyncPromise
<1> DEFINE Promise == \A op \in Ops : (op.op = "fsync" /\ CompileOp(op) /\ ~failed')
                                         => SyncedSurvives(op.path)'
<1>1. TypeOK /\ ImageOK => SyncedIsKept
  BY SyncedKeeps
<1>2. ASSUME TypeOK, PendingOK, TypeOK', SyncedIsKept', [Next]_vars PROVE Promise
  <2>1. SUFFICES ASSUME NEW op \in Ops, op.op = "fsync", CompileOp(op), ~failed'
                 PROVE  SyncedSurvives(op.path)'
    OBVIOUS
  <2>2. Synced(op)'
    BY <1>2, <2>1, FsyncIsDurable DEF Synced
  <2> QED BY <1>2, <2>2 DEF SyncedIsKept
<1>3. QED
  BY <1>1, <1>2, CompileTypeOK, CompilePendingOK, CompileImageOK, PTL DEF Spec, FsyncPromise

-----------------------------------------------------------------------------
(* The search *)

\* The tables of the compiled program are in order, and the crash after its
\* last op is one of its crash points.
LEMMA ProgramInOrder ==
    ASSUME TypeOK
    PROVE  /\ InOrder(Program) /\ CrashPoint \in Points(Program)
           /\ Before(Program, CrashPoint) = 1..Len(micro) /\ Len(micro) \in Nat
<1>1. /\ Program.micro = micro /\ Program.op_end = op_end
      /\ Points(Program) = 0..(Len(op_end) - 1)
  BY DEF Program, Points
<1>2. /\ Len(op_end) \in Nat \ {0} /\ OpIndex \in Nat /\ CrashPoint = Len(op_end) - 1
      /\ Len(micro) \in Nat /\ DOMAIN micro = 1..Len(micro)
  BY TablesType DEF CrashPoint, OpIndex
<1>3. ASSUME NEW k \in Points(Program)
      PROVE  k \in Nat /\ op_end[k + 1] \in Nat /\ op_end[k + 1] <= Len(micro)
  <2>1. k \in Nat /\ k + 1 \in 1..Len(op_end)
    BY <1>1, <1>2, <1>3
  <2> QED BY <2>1 DEF TypeOK
<1>4. ASSUME NEW j \in Nat, NEW k \in Points(Program), j \in Before(Program, k)
      PROVE  micro[j].durable_at \in Int
  <2>1. j \in DOMAIN micro
    BY <1>1, <1>2, <1>3, <1>4 DEF Before
  <2>2. micro[j].durable_at \in (micro[j].op + 1)..(OpIndex - 1) \cup {NEVER} /\ MaxOps \in Nat
    BY <2>1, CompileAssumption DEF TypeOK
  <2> QED BY <1>2, <2>2 DEF NEVER
<1>5. InOrder(Program)
  BY <1>1, <1>3, <1>4 DEF InOrder
<1>6. CrashPoint \in Points(Program) /\ op_end[CrashPoint + 1] = Len(micro)
  BY <1>1, <1>2 DEF TypeOK
<1> QED BY <1>1, <1>2, <1>5, <1>6 DEF Before

\* What is tried is closed to a legal state.
LEMMA ClosedIsLegal ==
    ASSUME TypeOK, NEW cs, Tries(cs, Program, CrashPoint)
    PROVE  Closed(cs) \subseteq LegalStates
<1>1. SUFFICES ASSUME NEW c \in Range(cs)
               PROVE  Close(Program, CrashPoint, c) \in LegalStates
  BY DEF Closed
<1>2. Legal(Program, CrashPoint, Close(Program, CrashPoint, c))
  BY ProgramInOrder, SearchIsLegal
<1> QED BY <1>2 DEF LegalStates, Legal

\* A selection of what was tried: no more than every state the battery tries.
LEMMA CandidatesAre ==
    ASSUME TypeOK, NEW limit, NEW samples, Tries(samples, Program, CrashPoint)
    PROVE  Tries(Candidates(Program, CrashPoint, limit, samples), Program, CrashPoint)
<1>1. Listed(Program, CrashPoint)
  BY ProgramInOrder, PointListed
<1>2. /\ Len(samples) \in Nat
      /\ \A k \in 1..Len(samples) : samples[k] \subseteq Before(Program, CrashPoint)
  BY DEF Tries
<1> QED BY <1>1, <1>2, CandidatesTry

\* Nothing tried at random is a way to try.
LEMMA NoSamples == ASSUME NEW p, NEW point PROVE Tries(<<>>, p, point)
  BY DEF Tries, Range

\* The battery has a candidate that closes to what the first n micro-ops do.
LEMMA BatteryTriesCut ==
    ASSUME TypeOK, ~(Cardinality(InFlight(Program, CrashPoint)) <= ExhaustiveLimit),
           NEW n \in 0..Len(micro)
    PROVE  Close(Program, CrashPoint, 1..n) \in
              Closed(Candidates(Program, CrashPoint, ExhaustiveLimit, <<>>))
<1> DEFINE first == LoseOneOrCut(Program, CrashPoint)
           second == LoseOneOp(Program, CrashPoint)
           drawn == [k \in 1..Len(<<>>) |-> Durable(Program, CrashPoint) \cup (<<>>)[k]]
           D == Durable(Program, CrashPoint)
<1>1. /\ Listed(Program, CrashPoint) /\ Len(micro) \in Nat
      /\ Before(Program, CrashPoint) = 1..Len(micro)
  BY ProgramInOrder, PointListed
<1>2. Candidates(Program, CrashPoint, ExhaustiveLimit, <<>>) = (first \o second) \o drawn
  BY DEF Candidates
<1>3. Tries(first, Program, CrashPoint) /\ Tries(second, Program, CrashPoint)
  BY <1>1, LoseOneOrCutTries, LoseOneOpTries
<1>4. Tries(drawn, Program, CrashPoint)
  <2>1. drawn = <<>>
    OBVIOUS
  <2> QED BY <2>1, NoSamples
<1>5. PICK k \in 1..Len(first) : first[k] \cup D = 1..n \cup D
  BY <1>1, BatteryHasCuts
<1> HIDE DEF first, second, drawn
<1>6. first[k] \in Range(first \o second)
  BY <1>3, TriesConcat
<1>7. Tries(first \o second, Program, CrashPoint)
  BY <1>3, TriesConcat
<1> DEFINE battery == first \o second
<1>8. battery \in Seq(Range(battery)) /\ DOMAIN battery = 1..Len(battery)
  BY <1>7 DEF Tries
<1>9. PICK l \in 1..Len(battery) : battery[l] = first[k]
  BY <1>6, <1>8 DEF Range
<1>10. battery[l] \in Range(battery \o drawn)
  <2> HIDE DEF battery
  <2> QED BY <1>4, <1>7, TriesConcat DEF battery
<1>11. first[k] \in Range(Candidates(Program, CrashPoint, ExhaustiveLimit, <<>>))
  BY <1>2, <1>9, <1>10
<1>12. Close(Program, CrashPoint, first[k]) = Close(Program, CrashPoint, 1..n)
  BY <1>5, CloseOfKept
<1> QED BY <1>11, <1>12 DEF Closed

\* Beyond the limit every closed candidate is legal, and the battery reaches the
\* closure of every cut of the program order (crash.rs, candidates).
THEOREM BatteryReachesCuts == Spec => []BatteryIsSound
<1>1. TypeOK => BatteryIsSound
  <2> SUFFICES ASSUME TypeOK PROVE BatteryIsSound
    OBVIOUS
  <2> DEFINE samples == Exhaustive(Program, CrashPoint)
             tried == Closed(Candidates(Program, CrashPoint, ExhaustiveLimit, samples))
             plain == Closed(Candidates(Program, CrashPoint, ExhaustiveLimit, <<>>))
             many  == Cardinality(InFlight(Program, CrashPoint)) > ExhaustiveLimit
  <2>1. tried \subseteq LegalStates
    <3>1. Listed(Program, CrashPoint)
      BY ProgramInOrder, PointListed
    <3>2. Tries(samples, Program, CrashPoint)
      BY <3>1, ExhaustiveTries
    <3> HIDE DEF samples
    <3> QED BY <3>2, CandidatesAre, ClosedIsLegal
  <2>2. many => ~(Cardinality(InFlight(Program, CrashPoint)) <= ExhaustiveLimit)
    <3>1. IsFiniteSet(InFlight(Program, CrashPoint))
      BY ProgramInOrder, PointListed DEF Listed
    <3>2. Cardinality(InFlight(Program, CrashPoint)) \in Nat
      BY <3>1, FS_CardinalityType
    <3> QED BY <3>2, SearchAssumption
  <2>3. ASSUME many, NEW n \in {0} \cup Before(Program, CrashPoint)
        PROVE  Close(Program, CrashPoint, 1..n) \in plain
    <3>1. n \in 0..Len(micro)
      BY ProgramInOrder
    <3> QED BY <2>2, <2>3, <3>1, BatteryTriesCut
  <2> QED BY <2>1, <2>3 DEF BatteryIsSound
<1> QED BY <1>1, CompileTypeOK, PTL

\* Up to the limit, when it is below the width of the mask, the closed
\* candidates are all the legal states and no others (crash.rs, candidates).
THEOREM ExhaustiveMissesNothing ==
    ASSUME ExhaustiveLimit < WordBits PROVE Spec => []ExhaustiveIsComplete
<1>1. TypeOK => ExhaustiveIsComplete
  <2> SUFFICES ASSUME TypeOK, Cardinality(InFlight(Program, CrashPoint)) <= ExhaustiveLimit
               PROVE  Closed(Candidates(Program, CrashPoint, ExhaustiveLimit, <<>>)) = LegalStates
    BY DEF ExhaustiveIsComplete
  <2> DEFINE cs == Exhaustive(Program, CrashPoint)
             D  == Durable(Program, CrashPoint)
             I  == InFlight(Program, CrashPoint)
  <2>1. Candidates(Program, CrashPoint, ExhaustiveLimit, <<>>) = cs
    BY DEF Candidates
  <2>2. /\ Listed(Program, CrashPoint) /\ Program.op_end[CrashPoint + 1] \in Nat
        /\ IsFiniteSet(I)
    BY ProgramInOrder, PointListed DEF Listed
  <2>3. Closed(cs) \subseteq LegalStates
    <3>1. Tries(cs, Program, CrashPoint)
      BY <2>2, ExhaustiveTries
    <3> QED BY <3>1, ClosedIsLegal
  <2>4. Cardinality(I) < WordBits
    <3>1. Cardinality(I) \in Nat
      BY <2>2, FS_CardinalityType
    <3> QED BY <3>1, SearchAssumption, WordAssumption
  <2>5. ASSUME NEW t \in LegalStates PROVE t \in Closed(cs)
    <3>1. Legal(Program, CrashPoint, t)
      BY DEF LegalStates
    <3>2. D \subseteq t /\ t \subseteq I \cup D
      BY <2>2, <3>1 DEF Legal, Listed
    <3>3. t = D \cup (t \cap I)
      BY <3>2
    <3>4. D \cup (t \cap I) \in Range(cs)
      <4>1. t \cap I \subseteq I
        OBVIOUS
      <4> QED BY <2>2, <2>4, <4>1, ExhaustiveHas
    <3>5. Close(Program, CrashPoint, t) = t
      BY <2>2, <3>1, LegalIsClosed
    <3>6. t \in Range(cs)
      BY <3>3, <3>4
    <3> HIDE DEF cs
    <3> QED BY <3>5, <3>6 DEF Closed
  <2> QED BY <2>1, <2>3, <2>5
<1> QED BY <1>1, CompileTypeOK, PTL

-----------------------------------------------------------------------------
(* The bytes a crash may show *)

\* The program is one whose micro-ops fit, and it is what compile has so far.
SoundProgram == Sound(Program) /\ Len(IssuedOf(Program)) = Len(micro)

\* All that has been written was seen.
BytesOK == Traced(Program)

LEMMA ProgramParts ==
    /\ Program.base = base /\ Program.micro = micro /\ Program.profile = profile
    /\ (Program').base = base' /\ (Program').micro = micro'
    /\ IssuedOf(Program) = Issued
  BY DEF Program, IssuedOf, Issued

LEMMA SoundNow ==
    ASSUME TypeOK, ImageOK
    PROVE  SoundProgram
<1>1. Len(IssuedOf(Program)) = Len(micro)
  BY ProgramParts DEF ImageOK
<1> QED BY <1>1, ProgramIsSound DEF SoundProgram

\* Before the first op the files are whole and nothing is written.
LEMMA InitBytes == Init => BytesOK
<1> SUFFICES ASSUME Init PROVE BytesOK
  OBVIOUS
<1>1. PICK tree \in InitialTrees : base = FromTree(tree)
  BY DEF Init
<1>2. FilesWhole(base)
  BY <1>1, PathsAssumption, BytesAssumption, FromTreeIsImage
<1>3. DOMAIN micro = {}
  BY DEF Init
<1> QED BY <1>2, <1>3, ProgramParts DEF BytesOK, Traced, Typed

\* base and the image an iteration emits on get the same new node, if any.
LEMMA NodesKept ==
    ASSUME ImageOK, NEW fs, EmitsOn(fs), FilesWhole(base)
    PROVE  /\ Len(base) \in Nat /\ Len(base') \in Nat /\ Len(base) <= Len(base')
           /\ FilesWhole(base')
           /\ \A i \in 1..Len(base) : base'[i] = base[i]
<1>1. IsImage(base) /\ Len(base) \in Nat
  BY ImageShape DEF ImageOK
<1>2. CASE base' = base
  BY <1>1, <1>2
<1>3. CASE \E node \in {EmptyDir, EmptyFile} : base' = Append(base, node)
  <2>1. PICK node \in {EmptyDir, EmptyFile} : base' = Append(base, node)
    BY <1>3
  <2>2. node.kind = "file" => Whole(node)
    <3>1. EmptyDir.kind # "file"
      BY DEF EmptyDir, Dir
    <3>2. Whole(EmptyFile)
      BY DEF EmptyFile, File, Whole, TypedFile
    <3> QED BY <3>1, <3>2
  <2>3. /\ Len(base') = Len(base) + 1
        /\ base' = [i \in 1..(Len(base) + 1) |-> IF i <= Len(base) THEN base[i] ELSE node]
        /\ \A i \in 1..Len(base) : base'[i] = base[i]
    BY <1>1, <2>1, Appended
  <2>4. ASSUME NEW i \in 1..Len(base'), base'[i].kind = "file" PROVE Whole(base'[i])
    <3>1. CASE i <= Len(base)
      <4>1. i \in 1..Len(base) /\ base'[i] = base[i]
        BY <1>1, <2>3, <3>1
      <4> QED BY <2>4, <4>1 DEF FilesWhole
    <3>2. CASE ~(i <= Len(base))
      <4>1. base'[i] = node
        BY <2>3, <3>2
      <4> QED BY <2>2, <2>4, <4>1
    <3> QED BY <3>1, <3>2
  <2>5. FilesWhole(base')
    BY <2>4 DEF FilesWhole
  <2> QED BY <1>1, <2>3, <2>5
<1> QED BY <1>2, <1>3 DEF EmitsOn

\* An iteration that emits appends the micro-ops.
LEMMA EmitAppends ==
    ASSUME TypeOK, NEW fs, NEW ms, EmitsFitting(fs, ms)
    PROVE  /\ Len(micro) \in Nat /\ Len(ms) \in Nat /\ Len(micro') = Len(micro) + Len(ms)
           /\ DOMAIN micro = 1..Len(micro) /\ DOMAIN micro' = 1..(Len(micro) + Len(ms))
           /\ \A j \in 1..Len(micro) : micro'[j] = micro[j]
           /\ \A k \in 1..Len(ms) : micro'[Len(micro) + k].m = ms[k]
<1>1. /\ Len(micro) \in Nat /\ Len(ms) \in Nat /\ Len(micro') = Len(micro) + Len(ms)
      /\ DOMAIN micro = 1..Len(micro) /\ DOMAIN micro' = 1..(Len(micro) + Len(ms))
      /\ \A j \in 1..Len(micro) : micro'[j] = micro[j]
      /\ \A j \in New(ms) : micro'[j] = [m |-> NewMicro(ms, j), op |-> OpIndex,
                                         durable_at |-> NEVER]
  BY TablesType, EmitMicro DEF EmitsFitting
<1>2. ASSUME NEW k \in 1..Len(ms) PROVE micro'[Len(micro) + k].m = ms[k]
  <2>1. Len(micro) + k \in New(ms) /\ (Len(micro) + k) - Len(micro) = k
    BY <1>1 DEF New
  <2>2. micro'[Len(micro) + k].m = NewMicro(ms, Len(micro) + k)
    <3>1. micro'[Len(micro) + k] = [m |-> NewMicro(ms, Len(micro) + k), op |-> OpIndex,
                                    durable_at |-> NEVER]
      BY <1>1, <2>1
    <3> QED BY <3>1
  <2> QED BY <2>1, <2>2 DEF NewMicro
<1> QED BY <1>1, <1>2

\* What an iteration emits writes bytes.
LEMMA EmitsTyped ==
    ASSUME NEW ms, Plain(ms) \/ Puts(ms), NEW k \in 1..Len(ms), Len(ms) \in Nat
    PROVE  TypedData(ms[k])
<1>1. CASE Plain(ms)
  BY <1>1 DEF Plain
<1>2. CASE Puts(ms)
  <2>1. PICK ino \in 1..Len(v), offset \in Nat, data \in Seq(Nat) :
            ms = Chunks(ino, offset, data) \o Grown(ino, offset + Len(data))
    BY <1>2 DEF Puts
  <2> DEFINE end == offset + Len(data)
  <2>2. PICK c \in Nat : CutInto(ms, ino, offset, data, c)
    BY <2>1, PutsShape
  <2>3. CASE k \in 1..c
    BY <2>2, <2>3 DEF CutInto, Piece, TypedData
  <2>4. CASE k \notin 1..c
    <3>1. end \in Nat
      OBVIOUS
    <3>2. ms[k] = SetLen(ino, end, TRUE)
      <4>1. Len(ms) # c
        BY <2>4
      <4>2. Len(ms) = c + 1 /\ ms[c + 1] = SetLen(ino, end, TRUE)
        BY <2>2, <4>1 DEF CutInto
      <4>3. k = c + 1
        BY <2>4, <4>2
      <4> QED BY <4>2, <4>3
    <3> HIDE DEF end
    <3> QED BY <3>1, <3>2 DEF SetLen, TypedData
  <2> QED BY <2>3, <2>4
<1> QED BY <1>1, <1>2

\* An emitted micro-op that writes is about a file, and its bytes were seen at
\* the end of its op.
LEMMA EmitKeepsBytes ==
    ASSUME TypeOK, ImageOK, SoundProgram, SoundProgram', BytesOK,
           NEW fs, NEW ms, EmitsFitting(fs, ms)
    PROVE  BytesOK'
<1> DEFINE p == Program
           q == Program'
           N == Len(micro)
<1>1. /\ p.base = base /\ p.micro = micro /\ q.base = base' /\ q.micro = micro'
      /\ Sound(p) /\ Len(IssuedOf(p)) = N /\ Sound(q) /\ Len(IssuedOf(q)) = Len(micro')
      /\ Traced(p) /\ Typed(p)
  BY ProgramParts DEF SoundProgram, BytesOK, Traced
<1>2. /\ N \in Nat /\ Len(ms) \in Nat /\ Len(micro') = N + Len(ms)
      /\ DOMAIN micro = 1..N /\ DOMAIN micro' = 1..(N + Len(ms))
      /\ \A j \in 1..N : micro'[j] = micro[j]
      /\ \A k \in 1..Len(ms) : micro'[N + k].m = ms[k]
  BY EmitAppends
<1>3. /\ Len(base) \in Nat /\ Len(base') \in Nat /\ Len(base) <= Len(base')
      /\ FilesWhole(base') /\ \A i \in 1..Len(base) : base'[i] = base[i]
  BY <1>1, NodesKept DEF EmitsFitting, Typed
<1>4. CrashFs(p, 1..N) = v /\ Len(base) = Len(v)
  BY <1>2, ProgramIsSound DEF ImageOK
<1>5. Plain(ms) \/ (fs = v /\ Puts(ms))
  BY DEF EmitsFitting
<1> HIDE DEF p, q, N
<1>6. ASSUME NEW j \in (N + 1)..(N + Len(ms))
      PROVE  j - N \in 1..Len(ms) /\ micro'[j].m = ms[j - N]
  <2>1. j - N \in 1..Len(ms) /\ N + (j - N) = j
    BY <1>2
  <2> QED BY <1>2, <2>1
<1>7. Typed(q)
  <2>1. ASSUME NEW j \in 1..(N + Len(ms)) PROVE TypedData(micro'[j].m)
    <3>1. CASE j \in 1..N
      BY <1>1, <1>2, <3>1 DEF Typed
    <3>2. CASE j \notin 1..N
      <4>1. j \in (N + 1)..(N + Len(ms))
        BY <1>2, <3>2
      <4> QED BY <1>2, <1>5, <1>6, <4>1, EmitsTyped
    <3> QED BY <3>1, <3>2
  <2> QED BY <1>1, <1>2, <1>3, <2>1 DEF Typed
<1>8. Extends(q, p)
  BY <1>1, <1>2, <1>3 DEF Extends
<1>9. \A j \in (N + 1)..(N + Len(ms)) : WriteSeen(q, q.micro[j].m)
  <2>1. CASE Plain(ms)
    <3>1. ASSUME NEW j \in (N + 1)..(N + Len(ms)) PROVE micro'[j].m.kind # "Write"
      BY <1>6, <2>1 DEF Plain
    <3> QED BY <1>1, <3>1 DEF WriteSeen
  <2>2. CASE Puts(ms)
    <3>1. PICK ino \in 1..Len(v), offset \in Nat, data \in Seq(Nat) :
              /\ v[ino].kind = "file"
              /\ ms = Chunks(ino, offset, data) \o Grown(ino, offset + Len(data))
      BY <2>2 DEF Puts
    <3> DEFINE end == offset + Len(data)
    <3>2. PICK c \in Nat : CutInto(ms, ino, offset, data, c)
      <4>1. ms = Chunks(ino, offset, data) \o Grown(ino, offset + Len(data))
        BY <3>1
      <4> QED BY <4>1, PutsShape
    <3>3. end \in Nat
      OBVIOUS
    <3> HIDE DEF end
    <3>4. ino \in 1..Len(p.base) /\ p.base[ino].kind = "file"
      <4>1. \A i \in 1..Len(p.base) : CrashFs(p, 1..N)[i].kind = p.base[i].kind
        BY <1>1, CrashKeepsKinds
      <4> QED BY <1>1, <1>4, <3>1, <4>1
    <3>5. ino \in 1..Len(q.base) /\ q.base[ino].kind = "file"
      BY <1>1, <1>3, <3>4
    <3>6. CrashFs(q, 1..N)[ino] = v[ino] /\ v[ino].len \in Nat
      <4>1. N \in 0..N
        BY <1>2
      <4>2. CrashFs(q, 1..N)[ino] = CrashFs(p, 1..N)[ino]
        BY <1>1, <1>7, <1>8, <3>4, <4>1, PastStays
      <4>3. PICK f, g : FileRuns(p, ino, {}, f, g)
        BY <1>1, <3>4, FileRunsExist
      <4>4. TypedFile(g[N]) /\ g[N] = CrashFs(p, 1..N)[ino]
        BY <1>1, <4>1, <4>3 DEF FileRuns
      <4> QED BY <1>4, <4>2, <4>4 DEF TypedFile
    <3>7. \A j \in 1..c : Piece(q.micro[N + j].m, ino, offset, data)
      <4>1. \A j \in 1..c : j \in 1..Len(ms) /\ Piece(ms[j], ino, offset, data)
        BY <1>2, <3>2, CutPieces
      <4> QED BY <1>1, <1>2, <4>1
    <3>8. \/ Len(IssuedOf(q)) = N + c /\ end <= CrashFs(q, 1..N)[ino].len
          \/ /\ Len(IssuedOf(q)) = N + c + 1 /\ CrashFs(q, 1..N)[ino].len < end
             /\ q.micro[Len(IssuedOf(q))].m = SetLen(ino, end, TRUE)
      <4>1. CASE end > v[ino].len
        <5>1. Len(ms) = c + 1 /\ ms[c + 1] = SetLen(ino, end, TRUE)
          BY <3>2, <4>1 DEF CutInto, end
        <5>2. c + 1 \in 1..Len(ms) /\ N + (c + 1) = N + c + 1
          BY <1>2, <5>1
        <5>3. Len(IssuedOf(q)) = N + c + 1 /\ q.micro[N + c + 1].m = ms[c + 1]
          BY <1>1, <1>2, <5>1, <5>2
        <5>4. CrashFs(q, 1..N)[ino].len < end
          BY <3>3, <3>6, <4>1
        <5> QED BY <5>1, <5>3, <5>4
      <4>2. CASE ~(end > v[ino].len)
        <5>1. Len(ms) = c
          BY <3>2, <4>2 DEF CutInto, end
        <5>2. Len(IssuedOf(q)) = N + c
          BY <1>1, <1>2, <5>1
        <5>3. end <= CrashFs(q, 1..N)[ino].len
          BY <3>3, <3>6, <4>2
        <5> QED BY <5>2, <5>3
      <4> QED BY <4>1, <4>2
    <3>9. WritesOut(q, N, ino, offset, data, c)
      BY <3>7, <3>8 DEF WritesOut, end
    <3> QED BY <1>1, <1>2, <1>7, <3>5, <3>9, WrittenIsSeen
  <2> QED BY <1>5, <2>1, <2>2
<1>10. Traced(q)
  BY <1>1, <1>2, <1>7, <1>8, <1>9, TracedGrows
<1> QED BY <1>10 DEF BytesOK, q

\* Neither a barrier nor a mark touches the images.
LEMMA SameIssued ==
    ASSUME SoundProgram, BytesOK, base' = base, Issued' = Issued, DOMAIN micro' = DOMAIN micro
    PROVE  BytesOK'
<1> DEFINE p == Program
           q == Program'
<1>1. /\ p.base = base /\ p.micro = micro /\ q.base = base /\ q.micro = micro'
      /\ IssuedOf(p) = Issued /\ IssuedOf(q) = Issued
      /\ DOMAIN q.micro = DOMAIN p.micro
  BY ProgramParts DEF IssuedOf, Issued
<1>2. \A j \in DOMAIN p.micro : q.micro[j].m = p.micro[j].m
  <2>1. \A j \in DOMAIN p.micro : Issued[j] = p.micro[j].m /\ (Issued')[j] = q.micro[j].m
    BY <1>1 DEF Issued
  <2> QED BY <2>1
<1>3. \A s : CrashFs(q, s) = CrashFs(p, s)
  BY <1>1 DEF CrashFs, IssuedOf
<1>4. Traced(p)
  BY DEF BytesOK
<1> HIDE DEF p, q
<1>5. \A ino, k, b : Seen(p, ino, k, b) => Seen(q, ino, k, b)
  BY <1>1, <1>3 DEF Seen
<1>6. \A m : WriteSeen(p, m) => WriteSeen(q, m)
  BY <1>1, <1>5 DEF WriteSeen
<1>7. Traced(q)
  BY <1>1, <1>2, <1>4, <1>6 DEF Traced, Typed
<1> QED BY <1>7 DEF BytesOK, q

\* No iteration of compile's loop breaks it.
LEMMA NextKeepsBytes ==
    ASSUME TypeOK, PendingOK, ImageOK, SoundProgram, SoundProgram', BytesOK, [Next]_vars
    PROVE  BytesOK'
<1>1. CASE v' = v /\ base' = base /\ micro' = micro
  <2>1. Issued' = Issued
    BY <1>1 DEF Issued
  <2> QED BY <1>1, <2>1, SameIssued
<1>2. CASE \E fs, ms : EmitsFitting(fs, ms)
  BY <1>2, EmitKeepsBytes
<1>3. CASE \E listed : Flushes(listed)
  <2>1. PICK listed : Flushes(listed)
    BY <1>3
  <2>2. DOMAIN micro' = DOMAIN micro /\ \A j \in DOMAIN micro : micro'[j].m = micro[j].m
    BY <2>1, FlushMicro DEF Flushes
  <2>3. Issued' = Issued /\ base' = base
    BY <2>1, <2>2 DEF Issued, Flushes, EndOp
  <2> QED BY <2>2, <2>3, SameIssued
<1> QED BY <1>1, <1>2, <1>3, StepFits

\* Whatever a crash state shows of a file is in the content it had at some
\* moment, or on posix a zero.
LEMMA BytesShown ==
    ASSUME TypeOK, ImageOK, BytesOK
    PROVE  BytesWereWritten
<1> DEFINE p == Program
           past == [n \in 0..Len(micro) |-> ReplayTo(n)]
<1>1. /\ Sound(p) /\ Len(IssuedOf(p)) = Len(micro) /\ Traced(p) /\ Typed(p)
      /\ p.micro = micro /\ p.base = base /\ p.profile = profile
  BY SoundNow, ProgramParts DEF SoundProgram, BytesOK, Traced
<1>2. \A n \in 0..Len(micro) : past[n] = CrashFs(p, 1..n)
  BY DEF ReplayTo
<1>3. profile \in {"posix", "ext4"}
  BY CompileAssumption DEF TypeOK
<1> HIDE DEF p, past
<1>4. ASSUME NEW s \in CrashSets, NEW ino \in DOMAIN CrashFs(p, s), IsFile(CrashFs(p, s), ino),
             NEW k \in DOMAIN Content(CrashFs(p, s)[ino])
      PROVE  \/ profile = "posix" /\ Content(CrashFs(p, s)[ino])[k] = 0
             \/ \E n \in 0..Len(micro) :
                   /\ k <= Len(Content(past[n][ino]))
                   /\ Content(past[n][ino])[k] = Content(CrashFs(p, s)[ino])[k]
  <2> DEFINE x == CrashFs(p, s)[ino]
             b == Content(x)[k]
  <2>1. Legal(p, CrashPoint, s) /\ Before(p, CrashPoint) = DOMAIN p.micro
    BY <1>1, CrashSetsLegal DEF p
  <2>2. ino \in 1..Len(p.base) /\ p.base[ino].kind = "file"
    <3>1. /\ IsImage(CrashFs(p, s)) /\ Len(CrashFs(p, s)) = Len(p.base)
          /\ \A i \in 1..Len(p.base) : CrashFs(p, s)[i].kind = p.base[i].kind
      BY <1>1, CrashKeepsKinds
    <3>2. DOMAIN CrashFs(p, s) = 1..Len(p.base)
      BY <3>1, ImageShape
    <3> QED BY <1>4, <3>1, <3>2 DEF IsFile
  <2>3. PICK f, g : FileRuns(p, ino, s, f, g)
    BY <1>1, <2>2, FileRunsExist
  <2>4. /\ Len(micro) \in Nat /\ TypedFile(x)
        /\ \A n \in 0..Len(micro) : TypedFile(CrashFs(p, 1..n)[ino])
    <3>1. Len(micro) \in Nat /\ Len(micro) \in 0..Len(micro)
      BY TablesType
    <3> QED BY <1>1, <2>3, <3>1 DEF FileRuns
  <2>5. k \in 1..x.len /\ ByteAt(x.buf, k) = b /\ k \in Nat \ {0}
    <3>1. k \in 1..x.len
      BY <2>4, ContentOf
    <3>2. Shows(x, k, Content(x)[k])
      BY <2>4, <3>1, ContentOf
    <3>3. x.len \in Nat
      BY <2>4 DEF TypedFile
    <3> QED BY <3>1, <3>2, <3>3 DEF Shows
  <2> HIDE DEF x, b
  <2>6. (profile = "posix" /\ b = 0) \/ Seen(p, ino, k, b)
    <3>1. CASE profile = "posix"
      <4>1. ByteAt(CrashFs(p, s)[ino].buf, k) = 0 \/ Seen(p, ino, k, ByteAt(CrashFs(p, s)[ino].buf, k))
        BY <1>1, <2>2, <2>5, BytesSeenOrZero
      <4> QED BY <2>5, <3>1, <4>1 DEF x
    <3>2. CASE profile = "ext4"
      <4>1. \A i \in 1..CrashFs(p, s)[ino].len : Seen(p, ino, i, ByteAt(CrashFs(p, s)[ino].buf, i))
        BY <1>1, <2>1, <2>2, <3>2, BytesSeenOnExt4
      <4> QED BY <2>5, <4>1 DEF x
    <3> QED BY <1>3, <3>1, <3>2
  <2>7. CASE Seen(p, ino, k, b)
    <3>1. PICK n \in 0..Len(micro) : Shows(CrashFs(p, 1..n)[ino], k, b)
      BY <1>1, <2>7 DEF Seen
    <3> DEFINE y == past[n][ino]
    <3>2. TypedFile(y) /\ Shows(y, k, b)
      BY <1>2, <2>4, <3>1
    <3> HIDE DEF y
    <3>3. k \in 1..y.len /\ y.len \in Nat
      BY <3>2 DEF Shows, TypedFile
    <3>4. Len(Content(y)) = y.len /\ Shows(y, k, Content(y)[k])
      BY <3>2, <3>3, ContentOf
    <3>5. k <= Len(Content(y)) /\ Content(y)[k] = b
      BY <3>2, <3>3, <3>4 DEF Shows
    <3> QED BY <3>5 DEF x, b, y
  <2> QED BY <2>6, <2>7 DEF x, b
<1> QED BY <1>4 DEF BytesWereWritten, p, past

\* For every trace, no crash state shows a byte its file never had there: a
\* legal state of ext4 has the data a persisted size needs, and posix fills
\* what it lost with zeros (crash.rs, the data=ordered rule of close; model.rs,
\* the chunks and the SetLen of a write).
THEOREM ShownWasWritten == Spec => []BytesWereWritten
<1>1. Init => BytesOK
  BY InitBytes
<1>2. TypeOK /\ ImageOK => SoundProgram
  BY SoundNow
<1>3. TypeOK /\ PendingOK /\ ImageOK /\ SoundProgram /\ SoundProgram' /\ BytesOK /\ [Next]_vars => BytesOK'
  BY NextKeepsBytes
<1>4. TypeOK /\ ImageOK /\ BytesOK => BytesWereWritten
  BY BytesShown
<1> QED BY <1>1, <1>2, <1>3, <1>4, CompileTypeOK, CompilePendingOK, CompileImageOK, PTL DEF Spec

-----------------------------------------------------------------------------
(* What an op does to the content of a file *)

\* A file with nothing behind its end.
Settled(x) == TypedFile(x) /\ \A k \in Nat : x.len < k => ByteAt(x.buf, k) = 0
FilesSettled(fs) == \A i \in 1..Len(fs) : fs[i].kind = "file" => Settled(fs[i])

\* The files of a snapshot are.
LEMMA WholeIsSettled ==
    ASSUME NEW x, Whole(x)
    PROVE  Settled(x)
  BY DEF Whole, Settled, ByteAt, TypedFile

\* z has the bytes of x outside of the n ones behind offset.
KeptOutside(z, x, offset, n) ==
    \A i \in Nat \ {0} : ~(offset < i /\ i <= offset + n) => ByteAt(z.buf, i) = ByteAt(x.buf, i)

\* What a file that gets piece after piece has outside of the data stays.
LEMMA PiecesLeave ==
    ASSUME NEW ino, NEW offset \in Nat, NEW data \in Seq(Nat),
           NEW ms, NEW n \in Nat, \A k \in 1..n : Piece(ms[k], ino, offset, data),
           NEW h, TypedFile(h[0]), \A k \in 1..n : h[k] = OnFile(h[k-1], ms[k])
    PROVE  KeptOutside(h[n], h[0], offset, Len(data))
<1> DEFINE OK(k) == /\ TypedFile(h[k])
                    /\ \A i \in Nat \ {0} : ~(offset < i /\ i <= offset + Len(data)) =>
                          ByteAt(h[k].buf, i) = ByteAt(h[0].buf, i)
           S == {k \in 0..n : OK(k)}
<1>1. 0 \in S
  OBVIOUS
<1>2. ASSUME NEW k \in 0..(n-1), k \in S PROVE k + 1 \in S
  <2>1. k + 1 \in 1..n /\ k + 1 \in 0..n /\ (k + 1) - 1 = k /\ OK(k)
    BY <1>2
  <2> DEFINE m == ms[k+1]
             x == h[k]
             y == h[k+1]
  <2>2. Piece(m, ino, offset, data) /\ y = OnFile(x, m) /\ TypedFile(x)
    BY <2>1
  <2> HIDE DEF m, x, y
  <2>3. /\ m.kind = "Write" /\ m.offset \in Nat /\ m.data \in Seq(Nat) /\ Len(m.data) \in Nat
        /\ offset <= m.offset /\ m.offset + Len(m.data) <= offset + Len(data)
    BY <2>2 DEF Piece
  <2>4. TypedFile(y) /\ Overwrites(y.buf, x.buf, m.offset, m.data)
    BY <2>2, <2>3, WriteOf
  <2>5. ASSUME NEW i \in Nat \ {0}, ~(offset < i /\ i <= offset + Len(data))
        PROVE  ByteAt(y.buf, i) = ByteAt(x.buf, i)
    <3>1. ~(m.offset < i /\ i <= m.offset + Len(m.data))
      BY <2>3, <2>5
    <3> QED BY <2>4, <3>1 DEF Overwrites
  <2>6. OK(k + 1)
    BY <2>1, <2>4, <2>5 DEF x, y
  <2> HIDE DEF OK
  <2> QED BY <2>1, <2>6
<1>3. 0..n \subseteq S
  <2> HIDE DEF S
  <2> QED BY <1>1, <1>2, UpTo
<1> QED BY <1>3 DEF KeptOutside

\* y is the file x at another length.
SizedTo(y, x, len, keep) ==
    /\ TypedFile(y) /\ y.len = len
    /\ \A k \in Nat \ {0} :
          ByteAt(y.buf, k) = IF (k <= len /\ k <= x.len) \/ (keep /\ x.len <= len)
                             THEN ByteAt(x.buf, k) ELSE 0

\* That is what a size change makes of a file.
LEMMA SetLenShows ==
    ASSUME NEW x, TypedFile(x), NEW ino, NEW len \in Nat, NEW keep \in BOOLEAN
    PROVE  SizedTo(OnFile(x, SetLen(ino, len, keep)), x, len, keep)
<1> DEFINE m == SetLen(ino, len, keep)
           y == OnFile(x, m)
<1>1. m.kind = "SetLen" /\ m.len = len /\ m.keep_tail = keep
  BY DEF SetLen
<1>2. TypedFile(x) /\ m.len \in Nat /\ m.keep_tail \in BOOLEAN /\ y = ApplySetLen(x, m)
  <2> HIDE DEF m
  <2> QED BY <1>1 DEF OnFile
<1> HIDE DEF m, y
<1>3. /\ TypedFile(y) /\ y.len = m.len
      /\ \A k \in Nat \ {0} :
            ByteAt(y.buf, k) = IF \/ k <= m.len /\ k <= x.len
                                  \/ m.keep_tail /\ x.len <= m.len
                               THEN ByteAt(x.buf, k) ELSE 0
  BY <1>2, SetLenOf
<1>4. SizedTo(y, x, len, keep)
  BY <1>1, <1>3 DEF SizedTo
<1> QED BY <1>4 DEF y, m

\* z is the file x with the data put over its bytes.
PutOver(z, x, offset, data) ==
    /\ TypedFile(z) /\ z.len = x.len
    /\ \A k \in Nat \ {0} :
          ByteAt(z.buf, k) = IF offset < k /\ k <= offset + Len(data) THEN data[k - offset]
                             ELSE ByteAt(x.buf, k)

\* That is what they make of a file.
LEMMA PiecesPut ==
    ASSUME NEW ino, NEW offset \in Nat, NEW data \in Seq(Nat),
           NEW ms, NEW c, Pieces(ms, c, ino, offset, data),
           NEW h, TypedFile(h[0]), FileRun(h, ms, c)
    PROVE  PutOver(h[c], h[0], offset, data)
<1>p. /\ c \in Nat /\ \A k \in 1..c : Piece(ms[k], ino, offset, data)
      /\ \A i \in 1..Len(data) : \E k \in 1..c : Covers(ms[k], offset + i)
      /\ \A k \in 1..c : h[k] = OnFile(h[k-1], ms[k])
  BY DEF Pieces, FileRun
<1> DEFINE x == h[0]
           z == h[c]
           end == offset + Len(data)
           B(k) == IF offset < k /\ k <= end THEN data[k - offset] ELSE ByteAt(x.buf, k)
<1>1. end \in Nat /\ Len(data) \in Nat
  OBVIOUS
<1>3. /\ TypedFile(z) /\ z.len = x.len
      /\ \A j \in 1..c : Holds(z.buf, ms[j])
  <2> HIDE DEF B
  <2> QED BY <1>p, PiecesHeld
<1>4. \A i \in Nat \ {0} : ~(offset < i /\ i <= end) => ByteAt(z.buf, i) = ByteAt(x.buf, i)
  <2> HIDE DEF B
  <2>1. KeptOutside(h[c], h[0], offset, Len(data))
    BY <1>p, PiecesLeave
  <2> QED BY <2>1 DEF KeptOutside
<1> HIDE DEF x
<1>5. ASSUME NEW i \in 1..Len(data) PROVE ByteAt(z.buf, offset + i) = data[i]
  <2>1. PICK j \in 1..c : Covers(ms[j], offset + i)
    BY <1>p
  <2> DEFINE m == ms[j]
             l == offset + i - m.offset
  <2>2. Piece(m, ino, offset, data) /\ Holds(z.buf, m) /\ Covers(m, offset + i)
    BY <1>3, <1>p, <2>1
  <2> HIDE DEF m, z, B, end
  <2>a. m.offset \in Nat /\ Len(m.data) \in Nat /\ offset <= m.offset
    BY <2>2 DEF Piece
  <2>b. \A k \in 1..Len(m.data) : m.data[k] = data[(m.offset - offset) + k]
    BY <2>2 DEF Piece
  <2>3. /\ m.offset \in Nat /\ Len(m.data) \in Nat /\ offset <= m.offset
        /\ \A k \in 1..Len(m.data) : m.data[k] = data[(m.offset - offset) + k]
    BY <2>a, <2>b
  <2>4. l \in 1..Len(m.data) /\ m.offset + l = offset + i /\ (m.offset - offset) + l = i
    <3> DEFINE o == m.offset
               e == Len(m.data)
    <3>1. o < offset + i /\ offset + i <= o + e
      BY <2>2 DEF Covers
    <3>2. o \in Nat /\ e \in Nat /\ offset <= o /\ i \in Nat /\ offset \in Nat
      BY <1>1, <2>3
    <3> HIDE DEF o, e
    <3>3. offset + i - o \in 1..e /\ o + (offset + i - o) = offset + i /\ (o - offset) + (offset + i - o) = i
      BY <3>1, <3>2
    <3> QED BY <3>3 DEF o, e
  <2> HIDE DEF l
  <2>5. ByteAt(z.buf, m.offset + l) = m.data[l]
    BY <2>2, <2>4 DEF Holds
  <2>6. m.data[l] = data[(m.offset - offset) + l]
    BY <2>3, <2>4
  <2> QED BY <2>4, <2>5, <2>6
<1>6. ASSUME NEW k \in Nat \ {0} PROVE ByteAt(z.buf, k) = B(k)
  <2>1. CASE offset < k /\ k <= end
    <3>1. k - offset \in 1..Len(data) /\ offset + (k - offset) = k
      BY <1>1, <2>1
    <3> HIDE DEF z
    <3>2. ByteAt(z.buf, offset + (k - offset)) = data[k - offset]
      BY <1>5, <3>1
    <3> QED BY <2>1, <3>1, <3>2
  <2>2. CASE ~(offset < k /\ k <= end)
    BY <1>4, <2>2
  <2> QED BY <2>1, <2>2
<1> QED BY <1>3, <1>6 DEF PutOver, x, z

\* y is the settled file x after a write: it has the data there, its old bytes
\* elsewhere, and is as long as the longer of the two.
WroteOver(y, x, offset, data) ==
    /\ Settled(y) /\ y.len = IF offset + Len(data) > x.len THEN offset + Len(data) ELSE x.len
    /\ \A k \in Nat \ {0} :
          ByteAt(y.buf, k) = IF offset < k /\ k <= offset + Len(data) THEN data[k - offset]
                             ELSE ByteAt(x.buf, k)

\* The size change of a write, if it makes one.
Ends(y, z, ino, len, end) == y = IF end > len THEN OnFile(z, SetLen(ino, end, TRUE)) ELSE z

\* With it the file is what the write should make of it.
LEMMA PutShows ==
    ASSUME NEW x, Settled(x), NEW ino, NEW offset \in Nat, NEW data \in Seq(Nat),
           NEW z, PutOver(z, x, offset, data), NEW y, Ends(y, z, ino, x.len, offset + Len(data))
    PROVE  WroteOver(y, x, offset, data)
<1> DEFINE end == offset + Len(data)
           B(k) == IF offset < k /\ k <= end THEN data[k - offset] ELSE ByteAt(x.buf, k)
<1>1. TypedFile(x) /\ x.len \in Nat /\ end \in Nat /\ Len(data) \in Nat
      /\ \A k \in Nat : x.len < k => ByteAt(x.buf, k) = 0
  BY DEF Settled, TypedFile
<1>2. y = IF end > x.len THEN OnFile(z, SetLen(ino, end, TRUE)) ELSE z
  BY DEF Ends
<1>3. TypedFile(z) /\ z.len = x.len
  BY DEF PutOver
<1>6. \A k \in Nat \ {0} : ByteAt(z.buf, k) = B(k)
  BY DEF PutOver
<1> HIDE DEF end
<1>7. CASE end > x.len
  <2>1. y = OnFile(z, SetLen(ino, end, TRUE))
    BY <1>2, <1>7
  <2>2. SizedTo(OnFile(z, SetLen(ino, end, TRUE)), z, end, TRUE)
    BY <1>1, <1>3, SetLenShows
  <2>3. SizedTo(y, z, end, TRUE)
    BY <2>1, <2>2
  <2>4. TypedFile(y) /\ y.len = end
    BY <2>3 DEF SizedTo
  <2>5. z.len <= end
    BY <1>1, <1>3, <1>7
  <2>6. \A k \in Nat \ {0} : ByteAt(y.buf, k) = B(k)
    <3>1. \A k \in Nat \ {0} : ByteAt(y.buf, k) = ByteAt(z.buf, k)
      BY <2>3, <2>5 DEF SizedTo
    <3> HIDE DEF B
    <3> QED BY <1>6, <3>1
  <2>7. ASSUME NEW k \in Nat, y.len < k PROVE ByteAt(y.buf, k) = 0
    <3>1. end < k
      BY <2>4, <2>7
    <3>2. k \in Nat \ {0} /\ ~(k <= end) /\ x.len < k
      BY <1>1, <1>7, <3>1
    <3> QED BY <1>1, <2>6, <3>2
  <2>8. Settled(y)
    BY <2>4, <2>7 DEF Settled
  <2> QED BY <1>7, <2>4, <2>6, <2>8 DEF WroteOver, end
<1>8. CASE ~(end > x.len)
  <2>1. y = z
    BY <1>2, <1>8
  <2>2. ASSUME NEW k \in Nat, y.len < k PROVE ByteAt(y.buf, k) = 0
    <3>1. x.len < k
      BY <1>3, <2>1, <2>2
    <3>2. k \in Nat \ {0} /\ ~(k <= end)
      BY <1>1, <1>8, <3>1
    <3> QED BY <1>1, <1>6, <2>1, <3>1, <3>2
  <2>3. Settled(y)
    BY <1>3, <2>1, <2>2 DEF Settled
  <2> QED BY <1>3, <1>6, <1>8, <2>1, <2>3 DEF WroteOver, end
<1> QED BY <1>7, <1>8

\* y is the settled file x after a truncation: its old bytes up to the shorter
\* length.
Truncated(y, x, len) ==
    /\ Settled(y) /\ y.len = len
    /\ \A k \in 1..len : ByteAt(y.buf, k) = IF k <= x.len THEN ByteAt(x.buf, k) ELSE 0

LEMMA CutShows ==
    ASSUME NEW x, Settled(x), NEW ino, NEW len \in Nat
    PROVE  Truncated(OnFile(x, SetLen(ino, len, FALSE)), x, len)
<1> DEFINE y == OnFile(x, SetLen(ino, len, FALSE))
<1>1. TypedFile(x) /\ x.len \in Nat
  BY DEF Settled, TypedFile
<1>2. SizedTo(y, x, len, FALSE)
  BY <1>1, SetLenShows
<1> HIDE DEF y
<1>5. TypedFile(y) /\ y.len = len
  BY <1>2 DEF SizedTo
<1>7. \A k \in Nat \ {0} : ByteAt(y.buf, k) = IF k <= len /\ k <= x.len THEN ByteAt(x.buf, k) ELSE 0
  BY <1>2 DEF SizedTo
<1>8. ASSUME NEW k \in Nat, y.len < k PROVE ByteAt(y.buf, k) = 0
  <2>1. len < k
    BY <1>5, <1>8
  <2>2. k \in Nat \ {0} /\ ~(k <= len)
    BY <2>1
  <2> QED BY <1>7, <2>2
<1>9. ASSUME NEW k \in 1..len PROVE ByteAt(y.buf, k) = IF k <= x.len THEN ByteAt(x.buf, k) ELSE 0
  <2>1. k \in Nat \ {0} /\ k <= len
    OBVIOUS
  <2> QED BY <1>7, <2>1
<1>10. Truncated(y, x, len)
  BY <1>5, <1>8, <1>9 DEF Settled, Truncated
<1> QED BY <1>10 DEF y

\* The bytes of d, cut or zero-extended to n of them.
LEMMA FitOf ==
    ASSUME NEW d, NEW n \in Nat
    PROVE  /\ Paths!Fit(d, n) = [k \in 1..n |-> ByteAt(d, k)] /\ Len(Paths!Fit(d, n)) = n
           /\ \A k \in 1..n : Paths!Fit(d, n)[k] = ByteAt(d, k)
<1>1. Paths!Fit(d, n) = [k \in 1..n |-> ByteAt(d, k)]
  BY DEF Paths!Fit, ByteAt
<1> DEFINE f == Paths!Fit(d, n)
<1>2. f = [k \in 1..n |-> f[k]] /\ \A k \in 1..n : f[k] = ByteAt(d, k)
  BY <1>1
<1> HIDE DEF f
<1>3. Len(f) = n
  BY <1>2, FunctionIsSeq
<1> QED BY <1>1, <1>2, <1>3 DEF f

\* What a reader finds in a file, byte by byte.
LEMMA ContentBytes ==
    ASSUME NEW x, Settled(x)
    PROVE  /\ Content(x) = [k \in 1..x.len |-> ByteAt(x.buf, k)] /\ Len(Content(x)) = x.len
           /\ x.len \in Nat /\ \A k \in Nat \ {0} : ByteAt(Content(x), k) = ByteAt(x.buf, k)
<1>1. TypedFile(x) /\ x.len \in Nat /\ \A k \in Nat : x.len < k => ByteAt(x.buf, k) = 0
  BY DEF Settled, TypedFile
<1>2. Content(x) = [k \in 1..x.len |-> ByteAt(x.buf, k)]
  BY DEF Content, Resize, ByteAt
<1>3. Len(Content(x)) = x.len
  BY <1>1, ContentOf
<1>4. ASSUME NEW k \in Nat \ {0} PROVE ByteAt(Content(x), k) = ByteAt(x.buf, k)
  <2>1. CASE k <= x.len
    <3>1. k \in 1..x.len
      BY <1>1, <2>1
    <3>2. Content(x)[k] = ByteAt(x.buf, k)
      BY <1>2, <3>1
    <3>3. ByteAt(Content(x), k) = Content(x)[k]
      BY <1>3, <2>1 DEF ByteAt
    <3> QED BY <3>2, <3>3
  <2>2. CASE ~(k <= x.len)
    <3>1. ByteAt(Content(x), k) = 0
      BY <1>3, <2>2 DEF ByteAt
    <3> QED BY <1>1, <2>2, <3>1
  <2> QED BY <2>1, <2>2
<1> QED BY <1>1, <1>2, <1>3, <1>4

\* What the specification of directories says a write makes of the bytes d.
Written(d, offset, data) ==
    LET end  == offset + Len(data)
        grow == Paths!Fit(d, Paths!Longest(Len(d), end))
    IN  [k \in 1..Len(grow) |-> IF offset < k /\ k <= end THEN data[k - offset] ELSE grow[k]]

\* The content after a write is that.
LEMMA WriteContent ==
    ASSUME NEW x, Settled(x), NEW offset \in Nat, NEW data \in Seq(Nat),
           NEW y, WroteOver(y, x, offset, data)
    PROVE  Content(y) = Written(Content(x), offset, data)
<1> DEFINE end == offset + Len(data)
           d == Content(x)
           N == Paths!Longest(Len(d), end)
           grow == Paths!Fit(d, N)
<1>1. /\ Len(d) = x.len /\ x.len \in Nat /\ end \in Nat
      /\ \A k \in Nat \ {0} : ByteAt(d, k) = ByteAt(x.buf, k)
  BY ContentBytes
<1>w. /\ Settled(y) /\ y.len = IF end > x.len THEN end ELSE x.len
      /\ \A k \in Nat \ {0} : ByteAt(y.buf, k) = IF offset < k /\ k <= end THEN data[k - offset]
                                                ELSE ByteAt(x.buf, k)
  BY DEF WroteOver
<1>2. Content(y) = [k \in 1..y.len |-> ByteAt(y.buf, k)]
  BY <1>w, ContentBytes
<1> HIDE DEF d, end
<1>3. N = y.len /\ N \in Nat
  BY <1>1, <1>w DEF Paths!Longest
<1> HIDE DEF N
<1>4. Len(grow) = N /\ \A k \in 1..N : grow[k] = ByteAt(d, k)
  BY <1>3, FitOf
<1> HIDE DEF grow
<1>5. Written(d, offset, data) =
         [k \in 1..Len(grow) |-> IF offset < k /\ k <= end THEN data[k - offset] ELSE grow[k]]
  BY DEF Written, grow, N, end
<1>6. ASSUME NEW k \in 1..N
      PROVE  ByteAt(y.buf, k) = IF offset < k /\ k <= end THEN data[k - offset] ELSE grow[k]
  <2>1. k \in Nat \ {0}
    BY <1>3
  <2> QED BY <1>1, <1>4, <1>w, <2>1
<1>7. Content(y) = Written(d, offset, data)
  BY <1>2, <1>3, <1>4, <1>5, <1>6
<1> QED BY <1>7 DEF d

\* The content after a truncation is what fits.
LEMMA TruncateContent ==
    ASSUME NEW x, Settled(x), NEW len \in Nat, NEW y, Truncated(y, x, len)
    PROVE  Content(y) = Paths!Fit(Content(x), len)
<1> DEFINE d == Content(x)
<1>t. /\ Settled(y) /\ y.len = len
      /\ \A k \in 1..len : ByteAt(y.buf, k) = IF k <= x.len THEN ByteAt(x.buf, k) ELSE 0
  BY DEF Truncated
<1>1. /\ Len(d) = x.len /\ x.len \in Nat
      /\ \A k \in Nat \ {0} : ByteAt(d, k) = ByteAt(x.buf, k)
  BY ContentBytes
<1>2. Content(y) = [k \in 1..y.len |-> ByteAt(y.buf, k)]
  BY <1>t, ContentBytes
<1> HIDE DEF d
<1>3. Paths!Fit(d, len) = [k \in 1..len |-> ByteAt(d, k)]
  BY FitOf
<1>4. ASSUME NEW k \in 1..len PROVE ByteAt(y.buf, k) = ByteAt(d, k)
  <2>1. k \in Nat \ {0}
    OBVIOUS
  <2>2. ~(k <= x.len) => ByteAt(d, k) = 0
    BY <1>1 DEF ByteAt
  <2> QED BY <1>1, <1>t, <2>1, <2>2
<1>5. Content(y) = Paths!Fit(d, len)
  BY <1>2, <1>3, <1>4, <1>t
<1> QED BY <1>5 DEF d

-----------------------------------------------------------------------------
(* What an op does to the tree *)

\* A path to a directory is one in its tree too.
LEMMA TreeDirs ==
    ASSUME NEW fs, Treelike(fs), NEW p \in Seq(Names)
    PROVE  /\ IsDir(fs, Lookup(fs, p)) =>
                 p = <<>> \/ (p \in DOMAIN PathTree(fs) /\ PathTree(fs)[p].kind = "dir")
           /\ Lookup(fs, p) # NoIno /\ p # <<>> => p \in DOMAIN PathTree(fs)
<1>1. Lookup(fs, p) # NoIno /\ p # <<>> => p \in DOMAIN PathTree(fs)
  BY TreePaths
<1>2. ASSUME IsDir(fs, Lookup(fs, p)), p # <<>>
      PROVE  p \in DOMAIN PathTree(fs) /\ PathTree(fs)[p].kind = "dir"
  <2>1. Lookup(fs, p) # NoIno /\ fs[Lookup(fs, p)].kind = "dir"
    BY <1>2 DEF IsDir
  <2>2. p \in DOMAIN PathTree(fs)
    BY <1>1, <1>2, <2>1
  <2>3. PathTree(fs)[p] = NodeEntry(fs[Lookup(fs, p)])
    BY <2>2, TreePaths
  <2>4. PathTree(fs)[p] = DirEntry
    BY <2>1, <2>3 DEF NodeEntry
  <2> QED BY <2>2, <2>4 DEF DirEntry
<1> QED BY <1>1, <1>2

\* The file of a snapshot has all its bytes.
LEMMA LoadedIsWhole ==
    ASSUME NEW d \in Seq(Nat)
    PROVE  Whole(File(d, Len(d)))
<1> DEFINE x == File(d, Len(d))
<1>1. x.buf = d /\ x.len = Len(d) /\ Len(d) \in Nat
  BY DEF File
<1>2. TypedFile(x)
  BY <1>1 DEF TypedFile
<1> HIDE DEF x
<1>3. Whole(x)
  BY <1>1, <1>2 DEF Whole
<1> QED BY <1>3 DEF x

\* What a new node shows of itself, and that it is a node.
LEMMA NewEntry ==
    ASSUME NEW node, node \in {EmptyDir, EmptyFile}
    PROVE  /\ node = EmptyDir \/ (node.kind = "file" /\ node = File(node.buf, node.len))
           /\ node.kind = "file" => Settled(node)
           /\ NodeEntry(node) = IF node = EmptyDir THEN DirEntry ELSE FileEntry(<<>>)
           /\ EmptyDir # EmptyFile
<1>1. EmptyDir.kind = "dir" /\ NodeEntry(EmptyDir) = DirEntry
  BY DEF EmptyDir, Dir, NodeEntry
<1>2. EmptyFile.kind = "file" /\ EmptyFile = File(<<>>, 0) /\ EmptyFile.buf = <<>> /\ EmptyFile.len = 0
  BY DEF EmptyFile, File
<1>3. Len(<<>>) = 0 /\ <<>> \in Seq(Nat)
  OBVIOUS
<1>4. NodeEntry(EmptyFile) = FileEntry(<<>>)
  <2> DEFINE d == <<>>
  <2>1. d \in Seq(Nat) /\ EmptyFile = File(d, Len(d))
    BY <1>2, <1>3
  <2> HIDE DEF d
  <2>2. NodeEntry(EmptyFile) = FileEntry(d)
    BY <2>1, LoadedContent
  <2> QED BY <2>2 DEF d
<1>5. Whole(EmptyFile)
  <2> DEFINE d == <<>>
  <2>1. d \in Seq(Nat) /\ EmptyFile = File(d, Len(d))
    BY <1>2, <1>3
  <2> HIDE DEF d
  <2> QED BY <2>1, LoadedIsWhole
<1>6. Settled(EmptyFile)
  BY <1>5, WholeIsSettled
<1> QED BY <1>1, <1>2, <1>4, <1>6

\* What compile keeps of an image, besides what IsImage says.
Kept(fs) == Treelike(fs) /\ FilesSettled(fs)

\* create and mkdir put an entry into the tree.
LEMMA CreateTree ==
    ASSUME NEW fs, Kept(fs), NEW p \in Seq(Names), Lookup(fs, p) = NoIno,
           IsDir(fs, Lookup(fs, Parent(p))), NEW node, node \in {EmptyDir, EmptyFile},
           NEW x, x = Replay(Append(fs, node), <<Link(Lookup(fs, Parent(p)), BaseName(p), Len(fs) + 1)>>)
    PROVE  /\ Kept(x) /\ p \notin DOMAIN PathTree(fs)
           /\ PathTree(x) = WithEntry(PathTree(fs), p, NodeEntry(node))
<1> DEFINE dir == Lookup(fs, Parent(p))
           m == Link(dir, BaseName(p), Len(fs) + 1)
<1>1. Treelike(fs) /\ FilesSettled(fs)
  BY DEF Kept
<1>2. m.kind = "Link" /\ m.parent = dir /\ m.name = BaseName(p) /\ m.ino = Len(fs) + 1
  BY DEF Link
<1>3. x = Apply(Append(fs, node), m)
  BY ShortReplay
<1> HIDE DEF m
<1>4. x = SetEntry(Append(fs, node), dir, BaseName(p), Len(fs) + 1)
  BY <1>2, <1>3 DEF Apply
<1>5. p # <<>>
  BY LookupRoot DEF Root, NoIno
<1>6. /\ node = EmptyDir \/ (node.kind = "file" /\ node = File(node.buf, node.len))
      /\ node.kind = "file" => Settled(node)
  BY NewEntry
<1>7. GrownAt(x, fs, p, node)
  BY <1>1, <1>4, <1>5, <1>6, PlantLooks
<1>8. p \notin DOMAIN PathTree(fs) /\ PathTree(x) = WithEntry(PathTree(fs), p, NodeEntry(node))
  BY <1>1, <1>5, <1>7, GrownTree
<1>9. FilesSettled(x)
  <2>1. Len(fs) \in Nat /\ Len(x) = Len(fs) + 1
    BY <1>1, <1>7, TreePaths DEF GrownAt
  <2>2. ASSUME NEW i \in 1..Len(x), x[i].kind = "file" PROVE Settled(x[i])
    <3>1. CASE i \in 1..Len(fs)
      BY <1>1, <1>7, <2>2, <3>1 DEF GrownAt, FilesSettled
    <3>2. CASE i \notin 1..Len(fs)
      <4>1. i = Len(fs) + 1
        BY <2>1, <3>2
      <4> QED BY <1>6, <1>7, <2>2, <4>1 DEF GrownAt
    <3> QED BY <3>1, <3>2
  <2> QED BY <2>2 DEF FilesSettled
<1> QED BY <1>7, <1>8, <1>9 DEF Kept, GrownAt

\* An image of the same files is as settled.
LEMMA SameFilesSettled ==
    ASSUME NEW fs, NEW x, SameNodes(x, fs), FilesSettled(fs)
    PROVE  FilesSettled(x)
  BY DEF SameNodes, FilesSettled

\* unlink and rmdir take a subtree off the tree.
LEMMA UnlinkTree ==
    ASSUME NEW fs, Kept(fs), NEW p \in Seq(Names), p # <<>>, Lookup(fs, p) # NoIno,
           NEW x, x = Replay(fs, <<Unlink(Lookup(fs, Parent(p)), BaseName(p))>>)
    PROVE  /\ Kept(x) /\ p \in DOMAIN PathTree(fs)
           /\ PathTree(x) = WithoutUnder(PathTree(fs), p)
<1> DEFINE dir == Lookup(fs, Parent(p))
           m == Unlink(dir, BaseName(p))
<1>1. Treelike(fs) /\ FilesSettled(fs)
  BY DEF Kept
<1>2. m.kind = "Unlink" /\ m.parent = dir /\ m.name = BaseName(p)
  BY DEF Unlink
<1>3. x = Apply(fs, m)
  BY ShortReplay
<1> HIDE DEF m
<1>4. x = SetEntry(fs, dir, BaseName(p), NoIno)
  BY <1>2, <1>3 DEF Apply
<1>5. CutAt(x, fs, p)
  BY <1>1, <1>4, CutLooks
<1>6. PathTree(x) = WithoutUnder(PathTree(fs), p)
  BY <1>1, <1>5, CutTree
<1>7. FilesSettled(x)
  BY <1>1, <1>5, SameFilesSettled DEF CutAt
<1> QED BY <1>1, <1>5, <1>6, <1>7, TreeDirs DEF Kept, CutAt

\* rename moves a subtree.
LEMMA RenameTree ==
    ASSUME NEW fs, Kept(fs), NEW from \in Seq(Names), from # <<>>, Lookup(fs, from) # NoIno,
           NEW to \in Seq(Names), to # <<>>, IsDir(fs, Lookup(fs, Parent(to))),
           from # to, ~Inside(from, to), NEW replaces,
           NEW x, x = Replay(fs, <<Rename(Lookup(fs, Parent(from)), BaseName(from),
                                          Lookup(fs, Parent(to)), BaseName(to),
                                          Lookup(fs, from), replaces)>>)
    PROVE  /\ Kept(x) /\ from \in DOMAIN PathTree(fs) /\ ~OnWay(from, to)
           /\ PathTree(x) = WithMoved(PathTree(fs), from, to)
<1> DEFINE m == Rename(Lookup(fs, Parent(from)), BaseName(from),
                       Lookup(fs, Parent(to)), BaseName(to), Lookup(fs, from), replaces)
<1>1. Treelike(fs) /\ FilesSettled(fs)
  BY DEF Kept
<1>2. x = Apply(fs, m)
  BY ShortReplay
<1>3. Relinked(x, fs, from, to)
  <2>1. m = Rename(Lookup(fs, Parent(from)), BaseName(from),
                   Lookup(fs, Parent(to)), BaseName(to), Lookup(fs, from), replaces)
    OBVIOUS
  <2> HIDE DEF m
  <2> QED BY <1>1, <1>2, <2>1, RenameRelinks
<1> HIDE DEF m
<1>4. ~OnWay(from, to)
  BY OnWayMeans
<1>5. MoveAt(x, fs, from, to)
  BY <1>1, <1>3, <1>4, MoveLooks
<1>6. PathTree(x) = WithMoved(PathTree(fs), from, to)
  BY <1>1, <1>5, MovedTree
<1>7. FilesSettled(x)
  BY <1>1, <1>5, SameFilesSettled DEF MoveAt
<1> QED BY <1>1, <1>4, <1>5, <1>6, <1>7, TreeDirs DEF Kept, MoveAt

\* A path to the inode of another path is that path.
LEMMA SameInode ==
    ASSUME NEW fs, Treelike(fs), NEW p \in Seq(Names), NEW q \in Seq(Names),
           Lookup(fs, p) # NoIno, Lookup(fs, q) = Lookup(fs, p)
    PROVE  p = q
  BY DEF Treelike, OneWay, Found

\* The file at p of x is another, settled one, and all else is as in fs.
LEMMA DataTree ==
    ASSUME NEW fs, Kept(fs), NEW p \in Seq(Names), IsFile(fs, Lookup(fs, p)),
           NEW ino, ino = Lookup(fs, p), NEW x, OtherFile(x, fs, ino), Settled(x[ino])
    PROVE  /\ Kept(x) /\ p \in DOMAIN PathTree(fs)
           /\ PathTree(fs)[p] = FileEntry(Content(fs[ino]))
           /\ PathTree(x) = WithData(PathTree(fs), p, Content(x[ino]))
<1>1. Treelike(fs) /\ FilesSettled(fs)
  BY DEF Kept
<1>2. ino \in 1..Len(fs) /\ fs[ino].kind = "file"
  <2>1. ino \in 0..Len(fs) /\ Len(fs) \in Nat
    BY <1>1, TreePaths
  <2> QED BY <2>1 DEF IsFile, NoIno
<1>o. /\ IsImage(x) /\ Len(x) = Len(fs) /\ x[ino].kind = "file"
      /\ \A i \in 1..Len(fs) : i # ino => x[i] = fs[i]
  BY DEF OtherFile
<1>3. FileSet(x, fs, ino, x[ino])
  BY <1>1, <1>2, <1>o, FileLooks
<1>4. /\ p \in DOMAIN PathTree(fs)
      /\ PathTree(fs)[p] = FileEntry(Content(fs[ino]))
      /\ PathTree(x) = WithData(PathTree(fs), p, Content(x[ino]))
  <2> DEFINE node == x[ino]
  <2>1. FileSet(x, fs, Lookup(fs, p), node) /\ node.kind = "file"
    BY <1>3, <1>o
  <2> HIDE DEF node
  <2>2. /\ p \in DOMAIN PathTree(fs)
        /\ PathTree(fs)[p] = FileEntry(Content(fs[Lookup(fs, p)]))
        /\ PathTree(x) = WithData(PathTree(fs), p, Content(node))
    BY <1>1, <2>1, FileTree
  <2> QED BY <2>2 DEF node
<1>5. FilesSettled(x)
  BY <1>1, <1>o DEF FilesSettled
<1> QED BY <1>3, <1>4, <1>5 DEF Kept, FileSet

\* What they make of the file.
LEMMA RunWrites ==
    ASSUME NEW w, Settled(w), NEW ino, NEW offset \in Nat, NEW data \in Seq(Nat),
           NEW ms, NEW c, Pieces(ms, c, ino, offset, data),
           NEW n \in Nat, EndsWith(ms, n, c, ino, w.len, offset + Len(data)),
           NEW h, h[0] = w, FileRun(h, ms, n)
    PROVE  WroteOver(h[n], w, offset, data)
<1> DEFINE end == offset + Len(data)
<1>1. c \in Nat
  BY DEF Pieces
<1>2. n = c \/ n = c + 1
  BY DEF EndsWith
<1>3. FileRun(h, ms, c)
  <2>1. \A k \in 1..c : k \in 1..n
    BY <1>1, <1>2
  <2> QED BY <2>1 DEF FileRun
<1>4. PutOver(h[c], w, offset, data)
  <2>1. TypedFile(h[0])
    BY DEF Settled
  <2>2. PutOver(h[c], h[0], offset, data)
    BY <1>3, <2>1, PiecesPut
  <2> QED BY <2>2
<1>5. CASE end > w.len
  <2>1. n = c + 1
    BY <1>5 DEF EndsWith
  <2>2. ms[c + 1] = SetLen(ino, end, TRUE)
    BY <1>5 DEF EndsWith
  <2>3. n \in 1..n /\ n - 1 = c
    BY <1>1, <2>1
  <2>4. h[n] = OnFile(h[n - 1], ms[n])
    BY <2>3 DEF FileRun
  <2>5. h[n] = OnFile(h[c], SetLen(ino, end, TRUE))
    BY <2>1, <2>2, <2>3, <2>4
  <2>6. Ends(h[n], h[c], ino, w.len, end)
    BY <1>5, <2>5 DEF Ends
  <2> QED BY <1>4, <2>6, PutShows
<1>6. CASE ~(end > w.len)
  <2>1. n = c
    BY <1>6 DEF EndsWith
  <2>2. Ends(h[n], h[c], ino, w.len, end)
    BY <1>6, <2>1 DEF Ends
  <2> QED BY <1>4, <2>2, PutShows
<1> QED BY <1>5, <1>6

\* What a write makes of an image.
LEMMA ReplayWrites ==
    ASSUME NEW fs, IsImage(fs), NEW ino \in 1..Len(fs), fs[ino].kind = "file", Settled(fs[ino]),
           NEW offset \in Nat, NEW data \in Seq(Nat),
           NEW ms, DataOps(ms, ino), NEW c, Pieces(ms, c, ino, offset, data),
           EndsWith(ms, Len(ms), c, ino, fs[ino].len, offset + Len(data)),
           NEW x, x = Replay(fs, ms)
    PROVE  OtherFile(x, fs, ino) /\ WroteOver(x[ino], fs[ino], offset, data)
<1>1. OtherFile(x, fs, ino)
  BY DataRun
<1>2. PICK h : h[0] = fs[ino] /\ h[Len(ms)] = x[ino] /\ FileRun(h, ms, Len(ms))
  BY DataRun
<1> DEFINE w == fs[ino]
           y == x[ino]
           n == Len(ms)
<1>3. /\ Settled(w) /\ n \in Nat /\ EndsWith(ms, n, c, ino, w.len, offset + Len(data))
      /\ h[0] = w /\ h[n] = y /\ FileRun(h, ms, n)
  BY <1>2 DEF DataOps
<1> HIDE DEF w, y, n
<1>4. WroteOver(h[n], w, offset, data)
  BY <1>3, RunWrites
<1>5. WroteOver(y, w, offset, data)
  BY <1>3, <1>4
<1> QED BY <1>1, <1>5 DEF w, y

\* A data change of a file of the volatile view.
LEMMA FileAt ==
    ASSUME NEW fs, Kept(fs), NEW p \in Seq(Names), NEW ino, ino = Lookup(fs, p), IsFile(fs, ino)
    PROVE  /\ IsImage(fs) /\ ino \in 1..Len(fs) /\ fs[ino].kind = "file" /\ Settled(fs[ino])
<1>1. Treelike(fs) /\ FilesSettled(fs)
  BY DEF Kept
<1>2. ino \in 0..Len(fs) /\ Len(fs) \in Nat /\ IsImage(fs)
  BY <1>1, TreePaths
<1>3. ino \in 1..Len(fs) /\ fs[ino].kind = "file"
  BY <1>2 DEF IsFile, NoIno
<1> QED BY <1>1, <1>2, <1>3 DEF FilesSettled

\* In x the file at path p has the data written at the offset, and nothing else has changed.
Rewritten(x, p, offset, data) ==
    /\ Kept(x) /\ p \in DOMAIN PathTree(v) /\ PathTree(v)[p].kind = "file"
    /\ PathTree(x) = WithData(PathTree(v), p, Written(PathTree(v)[p].data, offset, data))

LEMMA OpsWriteTree ==
    ASSUME Kept(v), NEW p \in Seq(Names), NEW ino, ino = Lookup(v, p), IsFile(v, ino),
           NEW offset \in Nat, NEW data \in Seq(Nat),
           NEW ms, ms = Chunks(ino, offset, data) \o Grown(ino, offset + Len(data)),
           NEW x, x = Replay(v, ms)
    PROVE  Rewritten(x, p, offset, data)
<1> DEFINE w == v[ino]
           y == x[ino]
<1>1. IsImage(v) /\ ino \in 1..Len(v) /\ v[ino].kind = "file" /\ Settled(w)
  BY FileAt
<1>2. DataOps(ms, ino)
  BY PutsOps
<1>3. PICK c : /\ Pieces(ms, c, ino, offset, data)
               /\ EndsWith(ms, Len(ms), c, ino, w.len, offset + Len(data))
  BY PutsOps
<1>4. OtherFile(x, v, ino)
  BY <1>1, <1>2, <1>3, ReplayWrites
<1>6. WroteOver(y, w, offset, data)
  BY <1>1, <1>2, <1>3, ReplayWrites
<1>7. Content(y) = Written(Content(w), offset, data)
  <2> HIDE DEF w, y
  <2> QED BY <1>1, <1>6, WriteContent
<1>8. /\ Kept(x) /\ p \in DOMAIN PathTree(v) /\ PathTree(v)[p] = FileEntry(Content(w))
      /\ PathTree(x) = WithData(PathTree(v), p, Content(y))
  <2>1. Settled(x[ino])
    BY <1>6 DEF WroteOver
  <2> QED BY <1>4, <2>1, DataTree
<1> HIDE DEF w, y
<1>9. PathTree(v)[p].kind = "file" /\ PathTree(v)[p].data = Content(w)
  BY <1>8 DEF FileEntry
<1> QED BY <1>7, <1>8, <1>9 DEF Rewritten

\* The image after a write of data at the offset to the file at path p.
WriteOps(ino, offset, data) == Chunks(ino, offset, data) \o Grown(ino, offset + Len(data))
AfterWrite(p, offset, data) == Replay(v, WriteOps(Lookup(v, p), offset, data))

LEMMA WriteTree ==
    ASSUME Kept(v), NEW p \in Seq(Names), IsFile(v, Lookup(v, p)),
           NEW offset \in Nat, NEW data \in Seq(Nat),
           NEW x, x = AfterWrite(p, offset, data)
    PROVE  Rewritten(x, p, offset, data)
<1> DEFINE ino == Lookup(v, p)
           ms == WriteOps(ino, offset, data)
<1>1. ino = Lookup(v, p) /\ IsFile(v, ino)
  OBVIOUS
<1>2. ms = Chunks(ino, offset, data) \o Grown(ino, offset + Len(data))
  BY DEF WriteOps
<1>3. x = Replay(v, ms)
  BY DEF AfterWrite
<1> HIDE DEF ino, ms
<1> QED BY <1>1, <1>2, <1>3, OpsWriteTree

LEMMA TruncateTree ==
    ASSUME Kept(v), NEW p \in Seq(Names), NEW ino, ino = Lookup(v, p), IsFile(v, ino),
           NEW len \in Nat, NEW x, x = Replay(v, <<SetLen(ino, len, FALSE)>>)
    PROVE  /\ Kept(x) /\ p \in DOMAIN PathTree(v) /\ PathTree(v)[p].kind = "file"
           /\ PathTree(x) = WithData(PathTree(v), p, Paths!Fit(PathTree(v)[p].data, len))
<1> DEFINE w == v[ino]
           y == x[ino]
<1>1. IsImage(v) /\ ino \in 1..Len(v) /\ v[ino].kind = "file" /\ Settled(w)
  BY FileAt
<1>2. OtherFile(x, v, ino) /\ y = OnFile(w, SetLen(ino, len, FALSE))
  BY <1>1, SizeRun
<1>3. Truncated(y, w, len)
  <2>1. Truncated(OnFile(w, SetLen(ino, len, FALSE)), w, len)
    <3> HIDE DEF w
    <3> QED BY <1>1, CutShows
  <2> QED BY <1>2, <2>1
<1>4. Content(y) = Paths!Fit(Content(w), len)
  <2> HIDE DEF w, y
  <2> QED BY <1>1, <1>3, TruncateContent
<1>5. /\ Kept(x) /\ p \in DOMAIN PathTree(v) /\ PathTree(v)[p] = FileEntry(Content(w))
      /\ PathTree(x) = WithData(PathTree(v), p, Content(y))
  <2>1. Settled(x[ino])
    BY <1>3 DEF Truncated
  <2> QED BY <1>2, <2>1, DataTree
<1> HIDE DEF w, y
<1>6. PathTree(v)[p].kind = "file" /\ PathTree(v)[p].data = Content(w)
  BY <1>5 DEF FileEntry
<1> QED BY <1>4, <1>5, <1>6

-----------------------------------------------------------------------------
(* Compiling an op is what the op does to a directory *)

\* An op that a directory has (DirectoryOps), whether or not it is of Ops.
DirectoryOp(op) ==
    /\ op.op \notin {"rename", "sync", "mark"} => op.path \in Seq(Names)
    /\ op.op = "rename" => /\ op.from \in Seq(Names) /\ op.from # <<>>
                           /\ op.to \in Seq(Names) /\ op.to # <<>>
    /\ op.op \in {"unlink", "rmdir"} => op.path # <<>>
    /\ op.op = "write" => op.offset \in Nat /\ op.data \in Seq(Nat) /\ op.data # <<>>
    /\ op.op = "truncate" => op.len \in Nat

LEMMA DirectoryHasOps ==
    ASSUME DirectoryOps, NEW op \in Ops
    PROVE  DirectoryOp(op)
  BY PathsAssumption, CompileAssumption, BytesAssumption DEF DirectoryOp, DirectoryOps, RootStays

\* The tree of the view is the map from its paths to what they lead to.
LEMMA KeptTree ==
    ASSUME NEW fs, Kept(fs)
    PROVE  ToTree(fs) = PathTree(fs)
  BY ToTreeIs DEF Kept

\* An op that leaves the view and the tree.
LEMMA QuietStep ==
    ASSUME NEW op, Paths!Quiet(op), v' = v
    PROVE  Paths!Step(op)
<1>1. ToTree(v)' = ToTree(v)
  OBVIOUS
<1> QED BY <1>1 DEF Paths!Step

LEMMA CreateStep ==
    ASSUME Kept(v), NEW op, DirectoryOp(op), CreateOrMkdir(op), ~failed'
    PROVE  Kept(v') /\ Paths!Step(op)
<1> DEFINE p == op.path
           node == IF op.op = "mkdir" THEN EmptyDir ELSE EmptyFile
           dir == Lookup(v, Parent(p))
           T == ToTree(v)
           U == ToTree(v')
<1>1. op.op \in {"create", "mkdir"} /\ p \in Seq(Names)
  BY DEF CreateOrMkdir, DirectoryOp
<1>2. Treelike(v) /\ T = PathTree(v)
  BY KeptTree DEF Kept
<1>3. \/ Lookup(v, p) # NoIno /\ v' = Replay(v, <<>>)
      \/ /\ Lookup(v, p) = NoIno /\ IsDir(v, dir)
         /\ v' = Replay(Append(v, node), <<Link(dir, BaseName(p), Len(v) + 1)>>)
  BY DEF CreateOrMkdir, NoEffect, Emit, Err
<1>4. CASE Lookup(v, p) # NoIno /\ v' = Replay(v, <<>>)
  <2>1. v' = v
    BY <1>4, ShortReplay
  <2>2. p = <<>> \/ p \in DOMAIN T
    BY <1>1, <1>2, <1>4, TreeDirs
  <2>3. Paths!Quiet(op)
    BY <1>1, <2>2 DEF Paths!Quiet
  <2> QED BY <2>1, <2>3, QuietStep
<1>5. CASE /\ Lookup(v, p) = NoIno /\ IsDir(v, dir)
           /\ v' = Replay(Append(v, node), <<Link(dir, BaseName(p), Len(v) + 1)>>)
  <2>1. node \in {EmptyDir, EmptyFile}
    OBVIOUS
  <2>2. Kept(v') /\ p \notin DOMAIN T /\ PathTree(v') = WithEntry(T, p, NodeEntry(node))
    <3> HIDE DEF node, p, T
    <3> QED BY <1>1, <1>2, <1>5, <2>1, CreateTree
  <2>3. U = WithEntry(T, p, NodeEntry(node))
    BY <2>2, KeptTree
  <2>4. NodeEntry(node) = IF op.op = "mkdir" THEN DirEntry ELSE FileEntry(<<>>)
    BY <2>1, NewEntry
  <2>5. Parent(p) = <<>> \/ (Parent(p) \in DOMAIN T /\ T[Parent(p)].kind = "dir")
    <3>1. Parent(p) \in Seq(Names)
      BY <1>1, ParentIsPath
    <3> QED BY <1>2, <1>5, <3>1, TreeDirs
  <2> HIDE DEF node
  <2>6. Paths!Make(p, NodeEntry(node))
    BY <2>2, <2>3, <2>5 DEF Paths!Make, Paths!IsDirPath, Paths!Dir, WithEntry, Parent
  <2>7. Paths!Change(op)
    BY <1>1, <2>4, <2>6 DEF Paths!Change, DirEntry, FileEntry, Paths!DirEntry, Paths!FileEntry
  <2> QED BY <2>2, <2>7 DEF Paths!Step
<1> QED BY <1>3, <1>4, <1>5

LEMMA SetDataStep ==
    ASSUME NEW p, NEW data, p \in DOMAIN ToTree(v), ToTree(v)[p].kind = "file",
           ToTree(v') = WithData(ToTree(v), p, data)
    PROVE  Paths!SetData(p, data)
  BY DEF Paths!SetData, Paths!IsFilePath, WithData

LEMMA WriteStep ==
    ASSUME Kept(v), NEW op, DirectoryOp(op), WriteOp(op), ~failed'
    PROVE  Kept(v') /\ Paths!Step(op)
<1> DEFINE p == op.path
           ino == Lookup(v, p)
           ms == Chunks(ino, op.offset, op.data) \o Grown(ino, op.offset + Len(op.data))
           T == ToTree(v)
<1>1. op.op = "write" /\ p \in Seq(Names) /\ op.offset \in Nat /\ op.data \in Seq(Nat)
  BY DEF WriteOp, DirectoryOp
<1>2. op.data # <<>>
  BY <1>1 DEF DirectoryOp
<1>3. IsFile(v, ino) /\ v' = Replay(v, ms)
  BY DEF WriteOp, Emit, Err, Grown
<1>4. T = PathTree(v)
  BY KeptTree
<1> HIDE DEF T
<1>5. /\ Kept(v') /\ p \in DOMAIN T /\ T[p].kind = "file"
      /\ PathTree(v') = WithData(T, p, Written(T[p].data, op.offset, op.data))
  <2>1. v' = AfterWrite(p, op.offset, op.data)
    BY <1>3 DEF AfterWrite, WriteOps
  <2>3. IsFile(v, Lookup(v, p))
    BY <1>3
  <2> HIDE DEF p, ino, ms
  <2>2. Rewritten(v', p, op.offset, op.data)
    BY <1>1, <2>1, <2>3, WriteTree
  <2> QED BY <1>4, <2>2 DEF Rewritten
<1>6. ToTree(v') = WithData(T, p, Written(T[p].data, op.offset, op.data))
  BY <1>5, KeptTree
<1>7. Paths!SetData(p, Written(T[p].data, op.offset, op.data))
  BY <1>5, <1>6, SetDataStep DEF T
<1>8. Paths!WriteAt(p, op.offset, op.data)
  BY <1>2, <1>7 DEF Paths!WriteAt, Written, T
<1> QED BY <1>1, <1>5, <1>8 DEF Paths!Step, Paths!Change

LEMMA TruncateStep ==
    ASSUME Kept(v), NEW op, DirectoryOp(op), Truncate(op), ~failed'
    PROVE  Kept(v') /\ Paths!Step(op)
<1> DEFINE p == op.path
           ino == Lookup(v, p)
           T == ToTree(v)
<1>1. op.op = "truncate" /\ p \in Seq(Names) /\ op.len \in Nat
  BY DEF Truncate, DirectoryOp
<1>2. IsFile(v, ino) /\ v' = Replay(v, <<SetLen(ino, op.len, FALSE)>>)
  BY DEF Truncate, Emit, Err
<1>3. T = PathTree(v)
  BY KeptTree
<1> HIDE DEF T
<1>4. /\ Kept(v') /\ p \in DOMAIN T /\ T[p].kind = "file"
      /\ PathTree(v') = WithData(T, p, Paths!Fit(T[p].data, op.len))
  <2> HIDE DEF p
  <2> QED BY <1>1, <1>2, <1>3, TruncateTree
<1>5. ToTree(v') = WithData(T, p, Paths!Fit(T[p].data, op.len))
  BY <1>4, KeptTree
<1>6. Paths!SetData(p, Paths!Fit(T[p].data, op.len))
  BY <1>4, <1>5, SetDataStep DEF T
<1> QED BY <1>1, <1>4, <1>6 DEF Paths!Step, Paths!Change, T

\* On paths, being on the way is being above or at.
LEMMA BelowIs ==
    ASSUME NEW p \in Seq(Names), NEW q \in Seq(Names)
    PROVE  Paths!Below(p, q) <=> OnWay(p, q)
  BY OnWayMeans DEF Paths!Below

LEMMA UnderIs ==
    ASSUME Kept(v), NEW p \in Seq(Names)
    PROVE  Paths!Under(p) = UnderOf(ToTree(v), p)
<1>1. DOMAIN ToTree(v) \subseteq Seq(Names)
  BY KeptTree, TreePaths DEF Kept
<1>2. \A q \in DOMAIN ToTree(v) : Paths!Below(p, q) <=> OnWay(p, q)
  BY <1>1, BelowIs
<1> QED BY <1>2 DEF Paths!Under, UnderOf

LEMMA RenameStep ==
    ASSUME Kept(v), NEW op, DirectoryOp(op), RenameOp(op), ~failed'
    PROVE  Kept(v') /\ Paths!Step(op)
<1> DEFINE from == op.from
           to == op.to
           ino == Lookup(v, from)
           target == Lookup(v, to)
           tp == Lookup(v, Parent(to))
           ms == <<Rename(Lookup(v, Parent(from)), BaseName(from), tp, BaseName(to), ino,
                          target # NoIno)>>
           T == ToTree(v)
<1>1. op.op = "rename" /\ from \in Seq(Names) /\ to \in Seq(Names)
  BY DEF RenameOp, DirectoryOp
<1>2. from # <<>> /\ to # <<>>
  BY <1>1 DEF DirectoryOp
<1>3. Treelike(v) /\ T = PathTree(v)
  BY KeptTree DEF Kept
<1>4. /\ ino # NoIno
      /\ \/ (from = to \/ target = ino) /\ v' = Replay(v, <<>>)
         \/ from # to /\ ~Inside(from, to) /\ IsDir(v, tp) /\ v' = Replay(v, ms)
  BY DEF RenameOp, NoEffect, Emit, Err
<1>5. CASE (from = to \/ target = ino) /\ v' = Replay(v, <<>>)
  <2>1. v' = v
    BY <1>5, ShortReplay
  <2>2. from = to
    BY <1>1, <1>3, <1>4, <1>5, SameInode
  <2>3. from \in DOMAIN T
    BY <1>1, <1>2, <1>3, <1>4, TreeDirs
  <2>4. Paths!Quiet(op)
    BY <1>1, <2>2, <2>3 DEF Paths!Quiet
  <2> QED BY <2>1, <2>4, QuietStep
<1>6. CASE from # to /\ ~Inside(from, to) /\ IsDir(v, tp) /\ v' = Replay(v, ms)
  <2>1. /\ Kept(v') /\ from \in DOMAIN T /\ ~OnWay(from, to)
        /\ PathTree(v') = WithMoved(T, from, to)
    <3> HIDE DEF from, to, T
    <3> QED BY <1>1, <1>2, <1>3, <1>4, <1>6, RenameTree
  <2>2. ToTree(v') = WithMoved(T, from, to)
    BY <2>1, KeptTree
  <2>3. Parent(to) = <<>> \/ (Parent(to) \in DOMAIN T /\ T[Parent(to)].kind = "dir")
    <3>1. Parent(to) \in Seq(Names)
      BY <1>1, <1>2, ParentIsPath
    <3> QED BY <1>3, <1>6, <3>1, TreeDirs
  <2>4. Paths!Under(from) = UnderOf(T, from) /\ Paths!Under(to) = UnderOf(T, to)
    BY <1>1, UnderIs
  <2>5. ~Paths!Below(from, to)
    BY <1>1, <2>1, BelowIs
  <2> HIDE DEF from, to
  <2>6. Paths!Move(from, to)
    BY <2>1, <2>2, <2>3, <2>4, <2>5
       DEF Paths!Move, Paths!IsDirPath, Paths!Dir, WithMoved, Landing, Taken, Parent
  <2>7. Paths!Change(op)
    BY <1>1, <2>6 DEF Paths!Change, from, to
  <2> QED BY <2>1, <2>7 DEF Paths!Step
<1> QED BY <1>4, <1>5, <1>6

LEMMA UnlinkStep ==
    ASSUME Kept(v), NEW op, DirectoryOp(op), UnlinkOrRmdir(op), ~failed'
    PROVE  Kept(v') /\ Paths!Step(op)
<1> DEFINE p == op.path
           T == ToTree(v)
<1>1. op.op \in {"unlink", "rmdir"} /\ p \in Seq(Names)
  BY DEF UnlinkOrRmdir, DirectoryOp
<1>2. p # <<>>
  BY <1>1 DEF DirectoryOp
<1>3. T = PathTree(v)
  BY KeptTree
<1>4. Lookup(v, p) # NoIno /\ v' = Replay(v, <<Unlink(Lookup(v, Parent(p)), BaseName(p))>>)
  BY DEF UnlinkOrRmdir, Emit, Err
<1>5. Kept(v') /\ p \in DOMAIN T /\ PathTree(v') = WithoutUnder(T, p)
  <2> HIDE DEF p, T
  <2> QED BY <1>1, <1>2, <1>3, <1>4, UnlinkTree
<1>6. ToTree(v') = WithoutUnder(T, p)
  BY <1>5, KeptTree
<1>7. Paths!Under(p) = UnderOf(T, p)
  BY <1>1, UnderIs
<1>8. Paths!Drop(p)
  BY <1>5, <1>6, <1>7 DEF Paths!Drop, WithoutUnder
<1> QED BY <1>1, <1>5, <1>8 DEF Paths!Step, Paths!Change

\* Barriers and marks leave the directory alone.
LEMMA BarrierLeaves ==
    ASSUME NEW op, Fsync(op) \/ Sync(op) \/ Mark(op), ~failed'
    PROVE  v' = v /\ Paths!Step(op)
<1>1. v' = v
  BY DEF Fsync, Sync, Mark, EndOp, Err
<1>2. op.op \in {"fsync", "sync", "mark"}
  BY DEF Fsync, Sync, Mark
<1>3. Paths!Quiet(op)
  BY <1>2 DEF Paths!Quiet
<1> QED BY <1>1, <1>3, QuietStep

\* Every op that does not fail is the step of the directory it stands for.
LEMMA OpIsPathStep ==
    ASSUME Kept(v), NEW op, DirectoryOp(op), CompileOp(op), ~failed'
    PROVE  Kept(v') /\ Paths!Step(op)
<1>1. CASE CreateOrMkdir(op)
  BY <1>1, CreateStep
<1>2. CASE WriteOp(op)
  BY <1>2, WriteStep
<1>3. CASE Truncate(op)
  BY <1>3, TruncateStep
<1>4. CASE RenameOp(op)
  BY <1>4, RenameStep
<1>5. CASE UnlinkOrRmdir(op)
  BY <1>5, UnlinkStep
<1>6. CASE Fsync(op) \/ Sync(op) \/ Mark(op)
  BY <1>6, BarrierLeaves
<1> QED BY <1>1, <1>2, <1>3, <1>4, <1>5, <1>6 DEF CompileOp

\* One that fails leaves the view.
LEMMA FailureLeaves ==
    ASSUME NEW op, CompileOp(op), failed'
    PROVE  v' = v
  BY DEF CompileOp, CreateOrMkdir, NoEffect, Emit, WriteOp, Truncate, RenameOp,
         UnlinkOrRmdir, Fsync, Sync, Mark, EndOp, Err

\* The image of a snapshot has the snapshot for its tree.
LEMMA InitShows ==
    ASSUME Init
    PROVE  Kept(v) /\ Paths!Init
<1>1. PICK tree \in InitialTrees : v = FromTree(tree)
  BY DEF Init
<1>2. /\ IsFiniteSet(DOMAIN tree) /\ DOMAIN tree \subseteq Seq(Names) /\ IsSnapshot(tree)
      /\ \A p \in DOMAIN tree : tree[p].kind # "dir" => tree[p].data \in Seq(Nat)
  BY PathsAssumption, BytesAssumption, TreesAssumption
<1>3. Treelike(v) /\ PathTree(v) = tree
  BY <1>1, <1>2, FromTreeShows
<1>4. FilesSettled(v)
  <2>1. FilesWhole(v)
    BY <1>1, <1>2, FromTreeIsImage
  <2> QED BY <2>1, WholeIsSettled DEF FilesWhole, FilesSettled
<1>5. Kept(v)
  BY <1>3, <1>4 DEF Kept
<1>6. ToTree(v) = tree
  BY <1>3, <1>5, KeptTree
<1> QED BY <1>5, <1>6 DEF Paths!Init

\* For every trace of ops a directory has, compile's inodes, links and
\* micro-ops on the volatile view are a directory: each op does to its tree
\* what PosixDir says the op does (compile, Fs::apply, Fs::to_tree).
THEOREM CompileImplementsPosixDir ==
    ASSUME DirectoryOps
    PROVE  Spec => ImplementsPosixDir
<1> DEFINE EachOp == \A op \in Ops : (CompileOp(op) /\ ~failed') => Paths!Step(op)
           OK == Kept(v)
<1>1. Init => OK /\ Paths!Init
  BY InitShows
<1>2. ASSUME OK, [Next]_vars PROVE EachOp
  BY <1>2, DirectoryHasOps, OpIsPathStep
<1>3. ASSUME OK, [Next]_vars PROVE OK'
  <2>1. CASE v' = v
    BY <1>3, <2>1
  <2>2. CASE v' # v
    <3>1. PICK op \in Ops : CompileOp(op)
      BY <1>3, <2>2 DEF Next, vars
    <3>2. ~failed'
      BY <2>2, <3>1, FailureLeaves
    <3> QED BY <1>3, <3>1, <3>2, DirectoryHasOps, OpIsPathStep
  <2> QED BY <2>1, <2>2
<1>4. ASSUME OK, [Next]_vars PROVE [\E op \in Ops : Paths!Step(op)]_(ToTree(v))
  <2>1. CASE v' = v
    BY <2>1
  <2>2. CASE v' # v
    <3>1. PICK op \in Ops : CompileOp(op)
      BY <1>4, <2>2 DEF Next, vars
    <3>2. ~failed'
      BY <2>2, <3>1, FailureLeaves
    <3>3. Paths!Step(op)
      BY <1>4, <3>1, <3>2, DirectoryHasOps, OpIsPathStep
    <3> QED BY <3>3
  <2> QED BY <2>1, <2>2
<1> QED BY <1>1, <1>2, <1>3, <1>4, PTL DEF Spec, ImplementsPosixDir, Paths!Spec
=============================================================================
