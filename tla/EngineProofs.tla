---------------------------- MODULE EngineProofs ----------------------------
(***************************************************************************)
(* Proofs about the checking loop: every job of the pool is run, the       *)
(* checker judges no state twice, the report counts the rejected states,   *)
(* what it says of them is real, minimal and attributed once, and the      *)
(* fsync it hints at covers what was lost.                                 *)
(***************************************************************************)
EXTENDS ProgramProofs, Engine

-----------------------------------------------------------------------------
(* How many jobs there are *)

\* The tables of the compiled trace are in order.
LEMMA TraceInOrder ==
    ASSUME TypeOK
    PROVE  /\ InOrder(Program) /\ Points(Program) = 0..(Len(op_end) - 1)
           /\ Program.micro = micro /\ Program.marks_before = marks_before
<1>1. /\ Program.micro = micro /\ Program.op_end = op_end
      /\ Points(Program) = 0..(Len(op_end) - 1) /\ Program.marks_before = marks_before
  BY DEF Program, Points
<1>2. /\ Len(op_end) \in Nat \ {0} /\ OpIndex \in Nat /\ Len(micro) \in Nat
      /\ DOMAIN micro = 1..Len(micro)
  BY TablesType
<1>3. ASSUME NEW k \in Points(Program)
      PROVE  k \in Nat /\ op_end[k + 1] \in Nat /\ op_end[k + 1] <= Len(micro)
  <2>1. k \in Nat /\ k + 1 \in 1..Len(op_end)
    BY <1>1, <1>2, <1>3
  <2> QED BY <2>1 DEF TypeOK
<1>4. ASSUME NEW j \in Nat, NEW k \in Points(Program), j \in Before(Program, k)
      PROVE  micro[j].durable_at \in Int
  <2>1. j \in DOMAIN micro
    BY <1>1, <1>2, <1>3, <1>4 DEF Before
  <2>2. micro[j].durable_at \in (micro[j].op + 1)..(OpIndex - 1) \cup {NEVER} /\ MaxOps \in Nat
    BY <2>1, CompileAssumption DEF TypeOK
  <2> QED BY <1>2, <2>2 DEF NEVER
<1>5. InOrder(Program)
  BY <1>1, <1>3, <1>4 DEF InOrder
<1> QED BY <1>1, <1>5

\* Every way candidates goes tries finitely many sets of issued micro-ops,
\* numbered from 1.
LEMMA CandidatesNumbered ==
    ASSUME TypeOK, NEW k \in Nat, k + 1 \in 1..Len(op_end),
           NEW sampled \in [1..Samples -> SUBSET InFlight(Program, k)]
    PROVE  /\ k \in Points(Program)
           /\ Tries(Candidates(Program, k, ExhaustiveLimit, sampled), Program, k)
           /\ \E n \in Nat : DOMAIN Candidates(Program, k, ExhaustiveLimit, sampled) = 1..n
<1> DEFINE cs == Candidates(Program, k, ExhaustiveLimit, sampled)
<1>1. k \in Points(Program)
  <2>1. Len(op_end) \in Nat
    BY TablesType
  <2> QED BY <2>1, TraceInOrder
<1>2. Listed(Program, k)
  BY <1>1, TraceInOrder, PointListed
<1>3. Len(sampled) \in Nat /\ \A i \in 1..Len(sampled) : sampled[i] \subseteq Before(Program, k)
  <2>1. Len(sampled) = Samples /\ Samples \in Nat
    BY EngineAssumption
  <2> QED BY <2>1 DEF InFlight
<1>4. Tries(cs, Program, k)
  BY <1>2, <1>3, CandidatesTry
<1> HIDE DEF cs
<1>5. Len(cs) \in Nat /\ DOMAIN cs = 1..Len(cs)
  BY <1>4 DEF Tries
<1> QED BY <1>1, <1>4, <1>5 DEF cs

\* The new jobs of a point are a sequence.
LEMMA NewJobsIsSeq ==
    ASSUME NEW k, NEW candidates, NEW n \in Nat, DOMAIN candidates = 1..n
    PROVE  /\ NewJobs(k, candidates) \in Seq(Range(NewJobs(k, candidates)))
           /\ Len(NewJobs(k, candidates)) \in Nat
<1> DEFINE job   == [i \in DOMAIN candidates |-> Job(k, Close(Program, k, candidates[i]))]
           fresh == {i \in DOMAIN job : /\ job[i].key \notin Keys(jobs)
                                        /\ \A h \in 1..(i-1) : job[h].key # job[i].key}
           order == Sorted(fresh, <)
           new   == NewJobs(k, candidates)
<1>1. IsFiniteSet(fresh)
  <2>1. IsFiniteSet(1..n)
    BY FS_Interval
  <2>2. fresh \subseteq 1..n
    OBVIOUS
  <2> HIDE DEF fresh
  <2> QED BY <2>1, <2>2, FS_Subset
<1>2. Cardinality(fresh) \in Nat /\ DOMAIN order = 1..Cardinality(fresh)
  <2> HIDE DEF fresh
  <2> QED BY <1>1, SortedLen
<1>3. new = [i \in DOMAIN order |-> job[order[i]]]
  BY DEF NewJobs
<1> HIDE DEF job, fresh, order, new
<1>4. new = [i \in 1..Cardinality(fresh) |-> new[i]]
  BY <1>2, <1>3
<1>5. new \in Seq(Range(new)) /\ Len(new) \in Nat
  BY <1>2, <1>4, FunctionIsSeq
<1> QED BY <1>5 DEF new

-----------------------------------------------------------------------------
(* The pool *)

Compiled == TypeOK /\ PendingOK /\ trace \in Seq(Ops)

\* Where the enumeration is.
PointOK ==
    /\ phase \in {"compile", "enumerate", "pool", "explain", "done"}
    /\ phase = "compile" => point = 0
    /\ phase = "enumerate" => point \in 0..Len(trace) /\ Len(op_end) = Len(trace) + 1

\* There are no more jobs than states allowed, so none has Stopped's index.
JobsOK ==
    /\ jobs \in Seq(Range(jobs)) /\ Len(jobs) \in 0..MaxStates
    /\ DOMAIN results = 1..Len(jobs)

WorkersOK ==
    /\ next \in Nat /\ io_error \in BOOLEAN
    /\ worker \in [Workers -> {Claiming, Stopped} \cup 1..Len(jobs)]
    /\ phase \in {"compile", "enumerate"} => next = 0 /\ \A w \in Workers : worker[w] = Claiming

\* A job that was claimed has a result or a thread at work on it, unless a
\* thread met an error; a thread stops for an error or for want of jobs.
ClaimsOK ==
    /\ \A i \in 1..Len(jobs) :
          i <= next => io_error \/ results[i] # None \/ \E w \in Workers : worker[w] = i
    /\ \A w \in Workers : worker[w] = Stopped => io_error \/ Len(jobs) <= next

PoolInv ==
    /\ Compiled /\ PointOK /\ JobsOK /\ WorkersOK
    /\ phase = "pool" => ClaimsOK
    /\ EveryJobRan

\* Before compiling there are no jobs and nobody claims.
LEMMA InitPoolInv == EngineInit => PoolInv
<1> SUFFICES ASSUME EngineInit PROVE PoolInv OBVIOUS
<1>1. Compiled
  <2>1. TypeOK /\ PendingOK
    BY InitKeeps DEF EngineInit
  <2> QED BY <2>1, EngineAssumption DEF EngineInit, Compiled
<1>2. PointOK
  BY DEF EngineInit, PointOK
<1>3. JobsOK
  BY EngineAssumption DEF EngineInit, JobsOK, Range
<1>4. WorkersOK
  BY DEF EngineInit, WorkersOK
<1> QED BY <1>1, <1>2, <1>3, <1>4 DEF EngineInit, PoolInv, EveryJobRan

\* What the later steps of check leave alone.
LEMMA CompiledStays ==
    ASSUME Compiled, trace' = trace, [Next]_vars PROVE Compiled'
BY NextKeeps DEF Compiled

\* While compiling there are no jobs.
LEMMA CompileKeepsPool == PoolInv /\ CompileTrace => PoolInv'
<1> SUFFICES ASSUME PoolInv, CompileTrace PROVE PoolInv' OBVIOUS
<1>1. Compiled'
  <2>1. trace' = trace /\ [Next]_vars
    <3>1. CASE OpIndex < Len(trace) /\ CompileOp(trace[OpIndex + 1])
      <4>1. OpIndex \in Nat
        BY CompileAssumption DEF PoolInv, Compiled, TypeOK, OpIndex
      <4>2. trace[OpIndex + 1] \in Ops
        BY <3>1, <4>1 DEF PoolInv, Compiled
      <4> QED BY <3>1, <4>2 DEF CompileTrace, Next
    <3>2. CASE UNCHANGED vars
      BY <3>2 DEF CompileTrace
    <3> QED BY <3>1, <3>2 DEF CompileTrace
  <2> QED BY <2>1, CompiledStays DEF PoolInv
<1>2. PointOK'
  <2>1. point' = point /\ trace' = trace /\ point = 0 /\ Len(trace) \in Nat
    BY DEF CompileTrace, PoolInv, PointOK, Compiled
  <2>2. phase' \in {"compile", "done"} \/ (phase' = "enumerate" /\ OpIndex = Len(trace) /\ op_end' = op_end)
    BY DEF CompileTrace, Fail, Return, vars
  <2>3. Len(op_end) \in Nat
    BY CompileAssumption DEF PoolInv, Compiled, TypeOK
  <2> QED BY <2>1, <2>2, <2>3 DEF PointOK, OpIndex
<1>3. JobsOK'
  BY DEF CompileTrace, found, pool, PoolInv, JobsOK
<1>4. WorkersOK'
  BY DEF CompileTrace, found, pool, PoolInv, WorkersOK
<1>5. phase' \in {"compile", "enumerate", "done"}
  BY DEF CompileTrace, Fail, Return
<1> QED BY <1>1, <1>2, <1>3, <1>4, <1>5 DEF PoolInv, EveryJobRan

\* The new jobs have no result, and max_states bounds them all.
LEMMA EnumerateKeepsPool == PoolInv /\ EnumeratePoint => PoolInv'
<1> SUFFICES ASSUME PoolInv, EnumeratePoint PROVE PoolInv' OBVIOUS
<1>0. /\ phase = "enumerate" /\ point \in 0..Len(trace) /\ Len(op_end) = Len(trace) + 1
      /\ Len(trace) \in Nat /\ TypeOK /\ MaxStates \in Nat
  BY EngineAssumption DEF EnumeratePoint, PoolInv, PointOK, Compiled
<1>1. Compiled'
  BY CompiledStays DEF EnumeratePoint, PoolInv
<1>2. phase' \in {"pool", "enumerate"} /\ PointOK'
  <2>1. /\ point' = point + 1 /\ trace' = trace /\ op_end' = op_end
        /\ phase' = "pool" \/ (phase' = "enumerate" /\ point # Len(trace))
    BY DEF EnumeratePoint, vars
  <2> QED BY <1>0, <2>1 DEF PointOK
<1>3. JobsOK' /\ results' = [i \in DOMAIN jobs' |-> None] /\ Len(jobs) <= Len(jobs')
  <2>1. PICK sampled \in [1..Samples -> SUBSET InFlight(Program, point)] :
           LET new  == NewJobs(point, Candidates(Program, point, ExhaustiveLimit, sampled))
               room == MaxStates - Len(jobs)
           IN  jobs' = jobs \o SubSeq(new, 1, IF Len(new) > room THEN room ELSE Len(new))
    BY DEF EnumeratePoint
  <2> DEFINE new  == NewJobs(point, Candidates(Program, point, ExhaustiveLimit, sampled))
             room == MaxStates - Len(jobs)
             size == IF Len(new) > room THEN room ELSE Len(new)
             more == SubSeq(new, 1, size)
  <2>2. new \in Seq(Range(new)) /\ Len(new) \in Nat
    <3>1. PICK n \in Nat : DOMAIN Candidates(Program, point, ExhaustiveLimit, sampled) = 1..n
      BY <1>0, CandidatesNumbered
    <3> QED BY <3>1, NewJobsIsSeq
  <2>3. Len(jobs) \in 0..MaxStates /\ jobs \in Seq(Range(jobs))
    BY DEF PoolInv, JobsOK
  <2>4. size \in Nat /\ size <= room /\ size <= Len(new)
    <3> HIDE DEF new
    <3> QED BY <1>0, <2>2, <2>3
  <2>5. more \in Seq(Range(new)) /\ Len(more) = size
    <3> HIDE DEF new, size
    <3> QED BY <2>2, <2>4
  <2>6. more \in Seq(Range(more))
    <3> HIDE DEF more
    <3> QED BY <2>5, SeqOfValues
  <2>7. jobs' = jobs \o more
    BY <2>1
  <2>8. jobs' \in Seq(Range(jobs')) /\ Len(jobs') = Len(jobs) + size /\ DOMAIN jobs' = 1..Len(jobs')
    <3> HIDE DEF more, size
    <3> QED BY <2>3, <2>5, <2>6, <2>7, ConcatIs
  <2>9. results' = [i \in DOMAIN jobs' |-> None]
    BY DEF EnumeratePoint
  <2> HIDE DEF size
  <2> QED BY <1>0, <2>3, <2>4, <2>8, <2>9 DEF JobsOK
<1>4. WorkersOK' /\ next' = 0 /\ \A w \in Workers : worker'[w] = Claiming
  <2>1. next' = next /\ worker' = worker /\ io_error' = io_error
    BY DEF EnumeratePoint
  <2> QED BY <1>0, <2>1 DEF PoolInv, WorkersOK
<1>5. ClaimsOK'
  <2>1. Stopped # Claiming
    BY <1>0 DEF Stopped, Claiming
  <2> QED BY <1>3, <1>4, <2>1 DEF ClaimsOK, JobsOK
<1>6. EveryJobRan'
  BY <1>2 DEF EveryJobRan
<1> QED BY <1>1, <1>2, <1>3, <1>4, <1>5, <1>6 DEF PoolInv

\* A claim adds one claimed job, and a claimed job gets its result or ends
\* its thread with an error.
LEMMA ThreadKeepsPool ==
    ASSUME PoolInv, NEW w \in Workers, Thread(w)
    PROVE  PoolInv'
<1>0. /\ phase = "pool" /\ phase' = phase /\ ClaimsOK /\ MaxStates \in Nat
      /\ trace' = trace /\ jobs' = jobs /\ point' = point /\ UNCHANGED vars
  BY EngineAssumption DEF Thread, Claim, FinishJob, FailJob, found, PoolInv
<1>j. /\ DOMAIN jobs = 1..Len(jobs) /\ Len(jobs) \in 0..MaxStates /\ DOMAIN results = 1..Len(jobs)
      /\ next \in Nat /\ worker \in [Workers -> {Claiming, Stopped} \cup 1..Len(jobs)]
  BY DEF PoolInv, JobsOK, WorkersOK
<1>1. Compiled'
  BY <1>0, CompiledStays DEF PoolInv
<1>2. PointOK' /\ EveryJobRan'
  BY <1>0 DEF PointOK, EveryJobRan
<1>3. CASE Claim(w)
  <2>1. /\ next' = next + 1 /\ results' = results /\ io_error' = io_error /\ worker[w] = Claiming
        /\ worker' = [worker EXCEPT ![w] = IF next < Len(jobs) THEN next + 1 ELSE Stopped]
    BY <1>3 DEF Claim
  <2>2. JobsOK'
    BY <1>0, <2>1 DEF PoolInv, JobsOK
  <2>3. WorkersOK'
    BY <1>0, <1>j, <2>1 DEF PoolInv, WorkersOK
  <2>4. ClaimsOK'
    <3>1. ASSUME NEW i \in 1..Len(jobs), i <= next + 1
          PROVE  io_error \/ results[i] # None \/ \E u \in Workers : worker'[u] = i
      <4>1. CASE i = next + 1
        BY <1>j, <2>1, <4>1
      <4>2. CASE i # next + 1
        <5>1. i <= next
          BY <1>j, <3>1, <4>2
        <5>2. ASSUME NEW u \in Workers, worker[u] = i PROVE worker'[u] = i
          BY <1>j, <2>1, <5>2 DEF Claiming
        <5> QED BY <1>0, <5>1, <5>2 DEF ClaimsOK
      <4> QED BY <4>1, <4>2
    <3>2. ASSUME NEW u \in Workers, worker'[u] = Stopped
          PROVE  io_error \/ Len(jobs) <= next + 1
      <4>1. CASE u = w
        BY <1>0, <1>j, <2>1, <3>2, <4>1 DEF Stopped
      <4>2. CASE u # w
        BY <1>0, <1>j, <2>1, <3>2, <4>2 DEF ClaimsOK
      <4> QED BY <4>1, <4>2
    <3> QED BY <1>0, <2>1, <3>1, <3>2 DEF ClaimsOK
  <2> QED BY <1>1, <1>2, <2>2, <2>3, <2>4 DEF PoolInv
<1>4. CASE FinishJob(w)
  <2>1. PICK r \in {"ok", "err"} : results' = [results EXCEPT ![worker[w]] = r]
    BY <1>4 DEF FinishJob
  <2>2. /\ next' = next /\ io_error' = io_error /\ worker[w] \in 1..Len(jobs)
        /\ worker' = [worker EXCEPT ![w] = Claiming]
    BY <1>4, <1>j DEF FinishJob
  <2>3. JobsOK'
    BY <1>0, <2>1 DEF PoolInv, JobsOK
  <2>4. WorkersOK'
    BY <1>0, <1>j, <2>2 DEF PoolInv, WorkersOK
  <2>5. ClaimsOK'
    <3>1. ASSUME NEW i \in 1..Len(jobs), i <= next
          PROVE  io_error \/ results'[i] # None \/ \E u \in Workers : worker'[u] = i
      <4>1. CASE i = worker[w]
        BY <1>j, <2>1, <2>2, <4>1 DEF None
      <4>2. CASE i # worker[w]
        <5>1. results'[i] = results[i]
          BY <1>j, <2>1, <4>2
        <5>2. ASSUME NEW u \in Workers, worker[u] = i PROVE worker'[u] = i
          BY <1>j, <2>2, <4>2, <5>2
        <5> QED BY <1>0, <3>1, <5>1, <5>2 DEF ClaimsOK
      <4> QED BY <4>1, <4>2
    <3>2. ASSUME NEW u \in Workers, worker'[u] = Stopped
          PROVE  io_error \/ Len(jobs) <= next
      <4>1. u # w
        BY <1>0, <1>j, <2>2, <3>2 DEF Claiming, Stopped
      <4> QED BY <1>0, <1>j, <2>2, <3>2, <4>1 DEF ClaimsOK
    <3> QED BY <1>0, <2>2, <3>1, <3>2 DEF ClaimsOK
  <2> QED BY <1>1, <1>2, <2>3, <2>4, <2>5 DEF PoolInv
<1>5. CASE FailJob(w)
  <2>1. /\ next' = next /\ results' = results /\ io_error' = TRUE
        /\ worker' = [worker EXCEPT ![w] = Stopped]
    BY <1>5 DEF FailJob
  <2>2. JobsOK'
    BY <1>0, <2>1 DEF PoolInv, JobsOK
  <2>3. WorkersOK'
    BY <1>0, <1>j, <2>1 DEF PoolInv, WorkersOK
  <2>4. ClaimsOK'
    BY <2>1 DEF ClaimsOK
  <2> QED BY <1>1, <1>2, <2>2, <2>3, <2>4 DEF PoolInv
<1> QED BY <1>3, <1>4, <1>5 DEF Thread

\* All threads have stopped and none because of an error: no job is left.
LEMMA CollectKeepsPool == PoolInv /\ Collect => PoolInv'
<1> SUFFICES ASSUME PoolInv, Collect PROVE PoolInv' OBVIOUS
<1>0. /\ phase = "pool" /\ ClaimsOK /\ MaxStates \in Nat /\ Workers # {}
      /\ \A w \in Workers : worker[w] = Stopped
      /\ UNCHANGED vars /\ trace' = trace /\ jobs' = jobs /\ point' = point
      /\ next' = next /\ worker' = worker /\ results' = results /\ io_error' = io_error
  BY EngineAssumption DEF Collect, found, pool, PoolInv
<1>1. Compiled'
  BY <1>0, CompiledStays DEF PoolInv
<1>2. phase' = "done" \/ (phase' = "explain" /\ ~io_error)
  BY DEF Collect, Fail, Return
<1>3. PointOK' /\ JobsOK' /\ WorkersOK'
  BY <1>0, <1>2 DEF PoolInv, PointOK, JobsOK, WorkersOK
<1>4. ASSUME ~io_error PROVE \A i \in DOMAIN jobs : results[i] # None
  <2>1. Len(jobs) \in 0..MaxStates /\ DOMAIN jobs = 1..Len(jobs) /\ next \in Nat
    BY DEF PoolInv, JobsOK, WorkersOK
  <2>2. Len(jobs) <= next
    BY <1>0, <1>4 DEF ClaimsOK
  <2>3. ASSUME NEW i \in 1..Len(jobs) PROVE results[i] # None
    <3>1. i <= next /\ i # Stopped
      BY <1>0, <2>1, <2>2 DEF Stopped
    <3> QED BY <1>0, <1>4, <3>1 DEF ClaimsOK
  <2> QED BY <2>1, <2>3
<1>5. EveryJobRan'
  BY <1>0, <1>2, <1>4 DEF EveryJobRan
<1> QED BY <1>1, <1>2, <1>3, <1>5 DEF PoolInv

\* Explaining touches neither jobs nor results.
LEMMA ExplainKeepsPool ==
    ASSUME PoolInv, NextFailure \/ TryAdd \/ Classify \/ Finish \/ Done \/ UNCHANGED engineVars
    PROVE  PoolInv'
<1>1. UNCHANGED <<vars, trace, point, found, pool>>
  BY DEF NextFailure, TryAdd, Classify, Finish, Done, engineVars
<1>2. phase' = phase \/ phase' = "done"
  BY DEF NextFailure, TryAdd, Classify, Finish, Done, engineVars, VerdictFails, Fail, Return
<1>3. Compiled'
  BY <1>1, CompiledStays DEF PoolInv
<1>4. PointOK' /\ JobsOK' /\ WorkersOK'
  BY <1>1, <1>2 DEF PoolInv, PointOK, JobsOK, WorkersOK, found, pool, vars
<1>5. (phase' = "pool" => ClaimsOK') /\ EveryJobRan'
  BY <1>1, <1>2 DEF PoolInv, ClaimsOK, EveryJobRan, found, pool
<1> QED BY <1>3, <1>4, <1>5 DEF PoolInv

\* Once the threads have ended without an error every job has its result, for
\* every trace, number of threads and interleaving ("every job ran",
\* Engine::run).
THEOREM PoolRunsEveryJob == EngineSpec => []EveryJobRan
<1>1. PoolInv /\ [EngineNext]_engineVars => PoolInv'
  BY CompileKeepsPool, EnumerateKeepsPool, ThreadKeepsPool, CollectKeepsPool, ExplainKeepsPool
     DEF EngineNext, Sequential
<1>2. PoolInv => EveryJobRan
  BY DEF PoolInv
<1> QED BY InitPoolInv, <1>1, <1>2, PTL DEF EngineSpec

-----------------------------------------------------------------------------
(* No state is checked twice *)

\* The new jobs of a point have keys of their own.
LEMMA NewJobsFresh ==
    ASSUME NEW k, NEW candidates, NEW n \in Nat, DOMAIN candidates = 1..n
    PROVE  LET new == NewJobs(k, candidates)
           IN  /\ \A i \in 1..Len(new) : new[i].key \notin Keys(jobs)
               /\ \A i, j \in 1..Len(new) : new[i].key = new[j].key => i = j
<1> DEFINE job   == [i \in DOMAIN candidates |-> Job(k, Close(Program, k, candidates[i]))]
           fresh == {i \in DOMAIN job : /\ job[i].key \notin Keys(jobs)
                                        /\ \A h \in 1..(i-1) : job[h].key # job[i].key}
           order == Sorted(fresh, <)
           new   == NewJobs(k, candidates)
<1>1. IsFiniteSet(fresh) /\ fresh \subseteq 1..n
  <2>1. IsFiniteSet(1..n)
    BY FS_Interval
  <2>2. fresh \subseteq 1..n
    OBVIOUS
  <2> HIDE DEF fresh
  <2> QED BY <2>1, <2>2, FS_Subset
<1>2. ASSUME NEW a \in fresh, NEW b \in fresh, job[a].key = job[b].key PROVE a = b
  <2>1. DOMAIN job = 1..n
    OBVIOUS
  <2> HIDE DEF job
  <2>2. a \in 1..n /\ b \in 1..n
    BY <2>1
  <2>3. \A h \in 1..(b-1) : job[h].key # job[b].key
    OBVIOUS
  <2>4. \A h \in 1..(a-1) : job[h].key # job[a].key
    OBVIOUS
  <2> QED BY <1>2, <2>2, <2>3, <2>4
<1>3. \A a \in fresh : job[a].key \notin Keys(jobs)
  OBVIOUS
<1>4. /\ DOMAIN order = 1..Cardinality(fresh)
      /\ \A i \in 1..Cardinality(fresh) : order[i] \in fresh
      /\ \A i, j \in 1..Cardinality(fresh) : order[i] = order[j] => i = j
  <2> HIDE DEF fresh
  <2>1. fresh \subseteq Nat
    BY <1>1
  <2>2. DOMAIN order = 1..Cardinality(fresh)
    BY <1>1, SortedLen
  <2>3. \A i \in 1..Cardinality(fresh) : order[i] \in fresh
    BY <1>1, <2>1, SortedPlaces
  <2>4. \A i, j \in 1..Cardinality(fresh) : order[i] = order[j] => i = j
    BY <1>1, <2>1, SortedPlaces
  <2> QED BY <2>2, <2>3, <2>4
<1>5. new = [i \in DOMAIN order |-> job[order[i]]]
  BY DEF NewJobs
<1>6. Len(new) = Cardinality(fresh)
  <2>1. new = [i \in 1..Cardinality(fresh) |-> new[i]]
    <3> HIDE DEF fresh, order, job, new
    <3> QED BY <1>4, <1>5
  <2>2. Cardinality(fresh) \in Nat
    <3> HIDE DEF fresh
    <3> QED BY <1>1, FS_CardinalityType
  <2> HIDE DEF fresh, new
  <2> QED BY <2>1, <2>2, FunctionIsSeq
<1> HIDE DEF fresh, order, job, new
<1>7. \A i \in 1..Len(new) : order[i] \in fresh /\ new[i] = job[order[i]]
  BY <1>4, <1>5, <1>6
<1>8. \A i \in 1..Len(new) : new[i].key \notin Keys(jobs)
  BY <1>3, <1>7
<1>9. \A i, j \in 1..Len(new) : new[i].key = new[j].key => i = j
  BY <1>2, <1>4, <1>6, <1>7
<1> QED BY <1>8, <1>9 DEF new

\* The jobs have keys of their own.
Distinct == \A i, j \in 1..Len(jobs) : jobs[i].key = jobs[j].key => i = j

\* In the pool a job that is run has no result, is nobody else's, and was
\* claimed; what the checker ran on has a result.
Running ==
    /\ \A w \in Workers : worker[w] \in 1..Len(jobs) =>
          /\ worker[w] <= next /\ results[worker[w]] = None
          /\ \A u \in Workers : worker[u] = worker[w] => u = w
    /\ \A i \in 1..Len(jobs) : next < i => results[i] = None
    /\ \A key \in DOMAIN runs : \E i \in 1..Len(jobs) : jobs[i].key = key /\ results[i] # None

OnceOK ==
    /\ Distinct /\ CheckedOnce
    /\ phase \in {"compile", "enumerate"} => DOMAIN runs = {}
    /\ phase = "pool" => Running
    /\ phase = "explain" => DOMAIN runs \subseteq DOMAIN cache

\* The checker runs on a key it was not run on before.
LEMMA FirstRun ==
    ASSUME CheckedOnce, NEW key, key \notin DOMAIN runs, NEW r, CheckerSays(key, r)
    PROVE  CheckedOnce' /\ DOMAIN runs' = DOMAIN runs \cup {key}
<1>1. runs' = [k \in DOMAIN runs \cup {key} |-> IF k = key THEN 1 ELSE runs[k]]
  BY DEF CheckerSays, With
<1> QED BY <1>1 DEF CheckedOnce

\* Explaining asks the cache first.
LEMMA VerdictKeeps ==
    ASSUME CheckedOnce, DOMAIN runs \subseteq DOMAIN cache, NEW key, NEW r, Verdict(key, r)
    PROVE  CheckedOnce' /\ DOMAIN runs' \subseteq DOMAIN cache'
<1>1. CASE UNCHANGED oracle
  BY <1>1 DEF oracle, CheckedOnce
<1>2. CASE key \notin DOMAIN cache /\ CheckerSays(key, r) /\ cache' = With(cache, key, r)
  <2>1. DOMAIN cache' = {key} \cup DOMAIN cache
    BY <1>2 DEF With
  <2>2. key \notin DOMAIN runs
    BY <1>2
  <2> QED BY <1>2, <2>1, <2>2, FirstRun
<1> QED BY <1>1, <1>2 DEF Verdict

\* Before compiling the checker ran on nothing.
LEMMA InitOnce == EngineInit => OnceOK
<1> SUFFICES ASSUME EngineInit PROVE OnceOK OBVIOUS
<1>1. jobs = <<>> /\ DOMAIN runs = {} /\ phase = "compile"
  BY DEF EngineInit, EmptyFn
<1> QED BY <1>1 DEF OnceOK, Distinct, CheckedOnce

\* Enumerating only adds keys not seen before, each once.
LEMMA EnumerateKeepsOnce ==
    ASSUME PoolInv, OnceOK, EnumeratePoint
    PROVE  OnceOK'
<1>0. /\ phase = "enumerate" /\ point \in 0..Len(trace) /\ Len(op_end) = Len(trace) + 1
      /\ Len(trace) \in Nat /\ TypeOK /\ MaxStates \in Nat
      /\ Len(jobs) \in 0..MaxStates /\ jobs \in Seq(Range(jobs))
  BY EngineAssumption DEF EnumeratePoint, PoolInv, PointOK, Compiled, JobsOK
<1>1. PICK sampled \in [1..Samples -> SUBSET InFlight(Program, point)] :
         LET new  == NewJobs(point, Candidates(Program, point, ExhaustiveLimit, sampled))
             room == MaxStates - Len(jobs)
         IN  jobs' = jobs \o SubSeq(new, 1, IF Len(new) > room THEN room ELSE Len(new))
  BY DEF EnumeratePoint
<1> DEFINE candidates == Candidates(Program, point, ExhaustiveLimit, sampled)
           new  == NewJobs(point, candidates)
           room == MaxStates - Len(jobs)
           size == IF Len(new) > room THEN room ELSE Len(new)
           more == SubSeq(new, 1, size)
<1>2. PICK n \in Nat : DOMAIN candidates = 1..n
  BY <1>0, CandidatesNumbered
<1> HIDE DEF candidates
<1>3. /\ new \in Seq(Range(new)) /\ Len(new) \in Nat
      /\ \A i \in 1..Len(new) : new[i].key \notin Keys(jobs)
      /\ \A i, j \in 1..Len(new) : new[i].key = new[j].key => i = j
  BY <1>2, NewJobsIsSeq, NewJobsFresh
<1>4. jobs' = jobs \o more
  BY <1>1 DEF candidates
<1> HIDE DEF new
<1>5. size \in Nat /\ size <= Len(new)
  BY <1>0, <1>3
<1> HIDE DEF size
<1>6. /\ more \in Seq(Range(new)) /\ Len(more) = size
      /\ \A i \in 1..size : more[i] = new[i]
  BY <1>3, <1>5
<1>7. more \in Seq(Range(more))
  <2> HIDE DEF more
  <2> QED BY <1>6, SeqOfValues
<1> HIDE DEF more
<1>8. /\ Len(jobs') = Len(jobs) + size
      /\ \A i \in 1..Len(jobs') :
            jobs'[i] = IF i <= Len(jobs) THEN jobs[i] ELSE more[i - Len(jobs)]
  BY <1>0, <1>4, <1>6, <1>7, ConcatIs
<1>9. Distinct'
  <2>1. \A i \in 1..Len(jobs) : jobs[i].key \in Keys(jobs)
    BY <1>0 DEF Keys
  <2>2. ASSUME NEW i \in 1..Len(jobs'), NEW j \in 1..Len(jobs'), jobs'[i].key = jobs'[j].key
        PROVE  i = j
    <3>1. CASE i <= Len(jobs) /\ j <= Len(jobs)
      BY <1>0, <1>8, <2>2, <3>1 DEF OnceOK, Distinct
    <3>2. CASE i > Len(jobs) /\ j > Len(jobs)
      <4> DEFINE a == i - Len(jobs)
                 b == j - Len(jobs)
      <4>1. a \in 1..size /\ b \in 1..size
        BY <1>0, <1>5, <1>8, <3>2
      <4>2. jobs'[i] = new[a] /\ jobs'[j] = new[b] /\ a \in 1..Len(new) /\ b \in 1..Len(new)
        BY <1>0, <1>3, <1>5, <1>6, <1>8, <3>2, <4>1
      <4>3. a = b
        BY <1>3, <2>2, <4>2
      <4> QED BY <1>0, <4>3
    <3>3. ASSUME NEW p \in 1..Len(jobs'), NEW q \in 1..Len(jobs'), p <= Len(jobs), q > Len(jobs)
          PROVE  jobs'[p].key # jobs'[q].key
      <4> DEFINE b == q - Len(jobs)
      <4>1. b \in 1..size /\ p \in 1..Len(jobs)
        BY <1>0, <1>5, <1>8, <3>3
      <4>2. jobs'[p] = jobs[p] /\ jobs'[q] = new[b] /\ b \in 1..Len(new)
        BY <1>0, <1>3, <1>5, <1>6, <1>8, <3>3, <4>1
      <4> QED BY <1>3, <2>1, <4>1, <4>2
    <3>4. i \in Int /\ j \in Int /\ Len(jobs) \in Int
      BY <1>0
    <3> QED BY <2>2, <3>1, <3>2, <3>3, <3>4
  <2> QED BY <2>2 DEF Distinct
<1>10. /\ phase' \in {"pool", "enumerate"} /\ DOMAIN runs' = {} /\ runs' = runs
       /\ next' = 0 /\ worker' = worker /\ \A w \in Workers : worker[w] = Claiming
       /\ results' = [i \in DOMAIN jobs' |-> None]
  BY <1>0 DEF EnumeratePoint, oracle, OnceOK, PoolInv, WorkersOK
<1>11. Running'
  <2>1. DOMAIN jobs' = 1..Len(jobs')
    BY <1>0, <1>4, <1>7, <1>8, ConcatIs
  <2>2. \A w \in Workers : worker'[w] \notin 1..Len(jobs')
    BY <1>10 DEF Claiming
  <2> QED BY <1>10, <2>1, <2>2 DEF Running
<1> QED BY <1>9, <1>10, <1>11 DEF OnceOK, CheckedOnce

\* A thread runs the checker on a job that is its own and has no result.
LEMMA ThreadKeepsOnce ==
    ASSUME PoolInv, OnceOK, NEW w \in Workers, Thread(w)
    PROVE  OnceOK'
<1>0. /\ phase = "pool" /\ phase' = phase /\ jobs' = jobs /\ Running /\ Distinct /\ CheckedOnce
      /\ MaxStates \in Nat
  BY EngineAssumption DEF Thread, Claim, FinishJob, FailJob, found, OnceOK
<1>j. /\ DOMAIN jobs = 1..Len(jobs) /\ Len(jobs) \in 0..MaxStates /\ DOMAIN results = 1..Len(jobs)
      /\ next \in Nat /\ worker \in [Workers -> {Claiming, Stopped} \cup 1..Len(jobs)]
  BY DEF PoolInv, JobsOK, WorkersOK
<1>1. Distinct'
  BY <1>0 DEF Distinct
<1>2. CASE Claim(w)
  <2>1. /\ next' = next + 1 /\ results' = results /\ runs' = runs /\ worker[w] = Claiming
        /\ worker' = [worker EXCEPT ![w] = IF next < Len(jobs) THEN next + 1 ELSE Stopped]
    BY <1>2 DEF Claim, oracle
  <2>2. ASSUME NEW u \in Workers, worker'[u] \in 1..Len(jobs)
        PROVE  /\ worker'[u] <= next + 1 /\ results[worker'[u]] = None
               /\ \A t \in Workers : worker'[t] = worker'[u] => t = u
    <3>1. CASE u = w
      <4>1. worker'[w] = next + 1 /\ next + 1 \in 1..Len(jobs)
        BY <1>0, <1>j, <2>1, <2>2, <3>1 DEF Stopped
      <4>2. results[next + 1] = None
        BY <1>0, <1>j, <4>1 DEF Running
      <4>3. ASSUME NEW t \in Workers, t # w PROVE worker'[t] # next + 1
        <5>1. worker'[t] = worker[t]
          BY <1>j, <2>1, <4>3
        <5>2. worker[t] \in 1..Len(jobs) => worker[t] <= next
          BY <1>0 DEF Running
        <5> QED BY <1>j, <4>1, <5>1, <5>2
      <4> QED BY <1>j, <3>1, <4>1, <4>2, <4>3
    <3>2. CASE u # w
      <4>1. worker'[u] = worker[u]
        BY <1>j, <2>1, <3>2
      <4>2. /\ worker[u] <= next /\ results[worker[u]] = None
            /\ \A t \in Workers : worker[t] = worker[u] => t = u
        BY <1>0, <2>2, <4>1 DEF Running
      <4>3. ASSUME NEW t \in Workers, worker'[t] = worker'[u] PROVE t = u
        <5>1. CASE t = w
          <6>1. worker'[w] \in {next + 1, Stopped}
            BY <1>j, <2>1
          <6>2. worker[u] # next + 1 /\ worker[u] # Stopped
            BY <1>0, <1>j, <2>2, <4>1, <4>2 DEF Stopped
          <6> QED BY <4>1, <4>3, <5>1, <6>1, <6>2
        <5>2. CASE t # w
          BY <1>j, <2>1, <4>1, <4>2, <4>3, <5>2
        <5> QED BY <5>1, <5>2
      <4>4. worker[u] <= next + 1
        BY <1>j, <2>2, <4>1, <4>2
      <4> QED BY <4>1, <4>2, <4>3, <4>4
    <3> QED BY <3>1, <3>2
  <2>3. \A i \in 1..Len(jobs) : next + 1 < i => results[i] = None
    BY <1>0, <1>j DEF Running
  <2>4. Running'
    <3>1. \A key \in DOMAIN runs : \E i \in 1..Len(jobs) : jobs[i].key = key /\ results[i] # None
      BY <1>0 DEF Running
    <3> QED BY <1>0, <2>1, <2>2, <2>3, <3>1 DEF Running
  <2> QED BY <1>0, <1>1, <2>1, <2>4 DEF OnceOK, CheckedOnce
<1>3. CASE FinishJob(w)
  <2> DEFINE mine == worker[w]
             key  == jobs[mine].key
  <2>1. PICK r \in {"ok", "err"} :
           CheckerSays(key, r) /\ results' = [results EXCEPT ![mine] = r]
    BY <1>3 DEF FinishJob
  <2>2. /\ next' = next /\ mine \in 1..Len(jobs) /\ worker' = [worker EXCEPT ![w] = Claiming]
    BY <1>3, <1>j DEF FinishJob
  <2>3. results[mine] = None /\ mine <= next
    BY <1>0, <2>2 DEF Running
  <2>4. key \notin DOMAIN runs
    <3>1. ASSUME key \in DOMAIN runs PROVE FALSE
      <4>1. PICK i \in 1..Len(jobs) : jobs[i].key = key /\ results[i] # None
        BY <1>0, <3>1 DEF Running
      <4>2. i = mine
        BY <1>0, <2>2, <4>1 DEF Distinct
      <4> QED BY <2>3, <4>1, <4>2
    <3> QED BY <3>1
  <2>5. CheckedOnce' /\ DOMAIN runs' = DOMAIN runs \cup {key}
    <3> HIDE DEF key
    <3> QED BY <1>0, <2>1, <2>4, FirstRun
  <2>6. \A i \in 1..Len(jobs) : results'[i] = IF i = mine THEN r ELSE results[i]
    BY <1>j, <2>1, <2>2
  <2>7. r # None
    BY <2>1 DEF None
  <2>8. \A u \in Workers : worker'[u] = IF u = w THEN Claiming ELSE worker[u]
    BY <1>j, <2>2
  <2>9. Running'
    <3>1. ASSUME NEW u \in Workers, worker'[u] \in 1..Len(jobs)
          PROVE  /\ worker'[u] <= next /\ results'[worker'[u]] = None
                 /\ \A t \in Workers : worker'[t] = worker'[u] => t = u
      <4>1. u # w /\ worker'[u] = worker[u]
        BY <2>8, <3>1 DEF Claiming
      <4>2. /\ worker[u] <= next /\ results[worker[u]] = None
            /\ \A t \in Workers : worker[t] = worker[u] => t = u
        BY <1>0, <3>1, <4>1 DEF Running
      <4>3. worker[u] # mine
        BY <4>1, <4>2
      <4>4. \A t \in Workers : worker'[t] = worker'[u] => t = u
        BY <2>8, <3>1, <4>1, <4>2 DEF Claiming
      <4> QED BY <2>6, <3>1, <4>1, <4>2, <4>3, <4>4
    <3>2. \A i \in 1..Len(jobs) : next < i => results'[i] = None
      BY <1>0, <1>j, <2>2, <2>3, <2>6 DEF Running
    <3>3. ASSUME NEW k \in DOMAIN runs'
          PROVE  \E i \in 1..Len(jobs) : jobs[i].key = k /\ results'[i] # None
      <4>1. CASE k = key
        BY <2>2, <2>6, <2>7, <4>1
      <4>2. CASE k # key
        <5>1. PICK i \in 1..Len(jobs) : jobs[i].key = k /\ results[i] # None
          BY <1>0, <2>5, <4>2 DEF Running
        <5> QED BY <2>6, <2>7, <5>1
      <4> QED BY <4>1, <4>2
    <3> QED BY <1>0, <2>2, <3>1, <3>2, <3>3 DEF Running
  <2> QED BY <1>0, <1>1, <2>5, <2>9 DEF OnceOK
<1>4. CASE FailJob(w)
  <2>1. /\ next' = next /\ results' = results /\ runs' = runs
        /\ worker' = [worker EXCEPT ![w] = Stopped]
    BY <1>4 DEF FailJob, oracle
  <2>2. \A u \in Workers : worker'[u] = IF u = w THEN Stopped ELSE worker[u]
    BY <1>j, <2>1
  <2>3. Stopped \notin 1..Len(jobs)
    BY <1>0, <1>j DEF Stopped
  <2>4. Running'
    BY <1>0, <2>1, <2>2, <2>3 DEF Running
  <2> QED BY <1>0, <1>1, <2>1, <2>4 DEF OnceOK, CheckedOnce
<1> QED BY <1>2, <1>3, <1>4 DEF Thread

\* When the results are collected, whatever the checker ran on goes into the
\* cache, and explaining asks the cache first.
LEMMA SequentialKeepsOnce ==
    ASSUME PoolInv, OnceOK, Sequential \/ Done \/ UNCHANGED engineVars
    PROVE  OnceOK'
<1>1. CASE CompileTrace
  BY <1>1 DEF CompileTrace, Fail, Return, found, oracle, OnceOK, Distinct, CheckedOnce
<1>2. CASE Collect
  <2>1. jobs' = jobs /\ runs' = runs /\ phase = "pool"
    BY <1>2 DEF Collect, found
  <2>2. \/ phase' = "done"
        \/ /\ phase' = "explain"
           /\ cache' = [key \in Keys(jobs) |-> results[CHOOSE i \in DOMAIN jobs : jobs[i].key = key]]
    BY <1>2 DEF Collect, Fail, Return
  <2>3. DOMAIN runs \subseteq Keys(jobs)
    <3>1. DOMAIN jobs = 1..Len(jobs)
      BY DEF PoolInv, JobsOK
    <3> QED BY <2>1, <3>1 DEF OnceOK, Running, Keys
  <2> QED BY <2>1, <2>2, <2>3 DEF OnceOK, Distinct, CheckedOnce
<1>3. CASE NextFailure \/ Finish \/ Done \/ UNCHANGED engineVars
  <2>1. /\ jobs' = jobs /\ runs' = runs /\ cache' = cache
        /\ phase' = phase \/ phase' = "done"
        /\ phase = "pool" => UNCHANGED <<next, worker, results>>
    BY <1>3 DEF NextFailure, Finish, Done, engineVars, found, oracle, pool, Return
  <2> QED BY <2>1 DEF OnceOK, Distinct, CheckedOnce, Running
<1>4. ASSUME TryAdd \/ Classify PROVE OnceOK'
  <2>1. jobs' = jobs /\ phase = "explain" /\ phase' \in {"explain", "done"}
    BY <1>4 DEF TryAdd, Classify, found, VerdictFails, Fail, Return
  <2>2. UNCHANGED oracle \/ \E key, r : Verdict(key, r)
    BY <1>4 DEF TryAdd, Classify
  <2>3. CheckedOnce /\ DOMAIN runs \subseteq DOMAIN cache
    BY <2>1 DEF OnceOK
  <2>4. CheckedOnce' /\ DOMAIN runs' \subseteq DOMAIN cache'
    <3>1. CASE UNCHANGED oracle
      BY <2>3, <3>1 DEF oracle, CheckedOnce
    <3>2. CASE \E key, r : Verdict(key, r)
      BY <2>3, <3>2, VerdictKeeps
    <3> QED BY <2>2, <3>1, <3>2
  <2> QED BY <2>1, <2>4 DEF OnceOK, Distinct
<1> QED BY <1>1, <1>2, <1>3, <1>4 DEF Sequential

\* The checker never runs twice on a directory with the same marks, for every
\* trace, number of threads, interleaving and checker (Engine::run's dedupe and
\* verdict's cache).
THEOREM NoStateCheckedTwice == EngineSpec => []CheckedOnce
<1>1. PoolInv /\ [EngineNext]_engineVars => PoolInv'
  BY CompileKeepsPool, EnumerateKeepsPool, ThreadKeepsPool, CollectKeepsPool, ExplainKeepsPool
     DEF EngineNext, Sequential
<1>2. PoolInv /\ OnceOK /\ [EngineNext]_engineVars => OnceOK'
  BY EnumerateKeepsOnce, ThreadKeepsOnce, SequentialKeepsOnce DEF EngineNext
<1>3. OnceOK => CheckedOnce
  BY DEF OnceOK
<1> QED BY InitPoolInv, InitOnce, <1>1, <1>2, <1>3, PTL DEF EngineSpec

-----------------------------------------------------------------------------
(* What the enumeration adds *)

\* A new job is one of the closed candidates, and the key of every closed
\* candidate is known or new.
LEMMA NewJobsOf ==
    ASSUME NEW k, NEW candidates, NEW n \in Nat, DOMAIN candidates = 1..n
    PROVE  LET new == NewJobs(k, candidates)
               job(h) == Job(k, Close(Program, k, candidates[h]))
           IN  /\ \A i \in 1..Len(new) : \E h \in 1..n : new[i] = job(h)
               /\ \A h \in 1..n : \/ job(h).key \in Keys(jobs)
                                  \/ \E i \in 1..Len(new) : new[i].key = job(h).key
<1> DEFINE job   == [i \in DOMAIN candidates |-> Job(k, Close(Program, k, candidates[i]))]
           fresh == {i \in DOMAIN job : /\ job[i].key \notin Keys(jobs)
                                        /\ \A h \in 1..(i-1) : job[h].key # job[i].key}
           order == Sorted(fresh, <)
           new   == NewJobs(k, candidates)
<1>1. IsFiniteSet(fresh) /\ fresh \subseteq 1..n
  <2>1. IsFiniteSet(1..n)
    BY FS_Interval
  <2>2. fresh \subseteq 1..n
    OBVIOUS
  <2> HIDE DEF fresh
  <2> QED BY <2>1, <2>2, FS_Subset
<1>2. ASSUME NEW h \in 1..n, job[h].key \notin Keys(jobs)
      PROVE  \E i \in fresh : job[i].key = job[h].key
  <2> DEFINE same == {i \in 1..n : job[i].key = job[h].key}
  <2>1. PICK i \in same : \A l \in same : i <= l
    <3>1. same \subseteq Nat /\ h \in same
      OBVIOUS
    <3> HIDE DEF same
    <3> QED BY <3>1, LeastOf
  <2>2. DOMAIN job = 1..n
    OBVIOUS
  <2> HIDE DEF job
  <2>3. \A l \in 1..(i-1) : job[l].key # job[i].key
    <3>1. i \in 1..n /\ job[i].key = job[h].key
      OBVIOUS
    <3>2. ASSUME NEW l \in 1..(i-1), job[l].key = job[i].key PROVE FALSE
      <4>1. l \in 1..n /\ ~(i <= l)
        BY <3>1
      <4>2. l \in same
        BY <3>1, <3>2, <4>1
      <4> QED BY <2>1, <4>1, <4>2
    <3> QED BY <3>2
  <2>4. i \in fresh
    BY <1>2, <2>2, <2>3
  <2> QED BY <2>4
<1>3. /\ DOMAIN order = 1..Cardinality(fresh) /\ Cardinality(fresh) \in Nat
      /\ \A i \in 1..Cardinality(fresh) : order[i] \in fresh
      /\ \A x \in fresh : \E i \in 1..Cardinality(fresh) : order[i] = x
  <2> HIDE DEF fresh
  <2>1. fresh \subseteq Nat
    BY <1>1
  <2>2. DOMAIN order = 1..Cardinality(fresh) /\ Cardinality(fresh) \in Nat
    BY <1>1, SortedLen
  <2>3. \A i \in 1..Cardinality(fresh) : order[i] \in fresh
    BY <1>1, <2>1, SortedPlaces
  <2>4. \A x \in fresh : \E i \in 1..Cardinality(fresh) : order[i] = x
    BY <1>1, <2>1, SortedPlaces
  <2> QED BY <2>2, <2>3, <2>4
<1>4. new = [i \in DOMAIN order |-> job[order[i]]]
  BY DEF NewJobs
<1>5. \A h \in 1..n : job[h] = Job(k, Close(Program, k, candidates[h]))
  OBVIOUS
<1> HIDE DEF fresh, order, job, new
<1>6. Len(new) = Cardinality(fresh)
  <2>1. new = [i \in 1..Cardinality(fresh) |-> new[i]]
    BY <1>3, <1>4
  <2> QED BY <1>3, <2>1, FunctionIsSeq
<1>7. \A i \in 1..Len(new) : order[i] \in fresh /\ new[i] = job[order[i]]
  BY <1>3, <1>4, <1>6
<1>8. \A i \in 1..Len(new) : \E h \in 1..n : new[i] = job[h]
  BY <1>1, <1>7
<1>9. ASSUME NEW h \in 1..n, job[h].key \notin Keys(jobs)
      PROVE  \E i \in 1..Len(new) : new[i].key = job[h].key
  <2>1. PICK x \in fresh : job[x].key = job[h].key
    BY <1>2, <1>9
  <2>2. PICK i \in 1..Len(new) : order[i] = x
    BY <1>3, <1>6
  <2> QED BY <1>7, <2>1, <2>2
<1> QED BY <1>5, <1>8, <1>9 DEF new

\* An enumeration step appends the first new jobs, all of them unless it
\* truncates.
JobsAppended(new, size) ==
    /\ size \in Nat /\ Len(new) \in Nat /\ size <= Len(new)
    /\ ~truncated' => size = Len(new)
    /\ Len(jobs) \in Nat /\ Len(jobs') = Len(jobs) + size /\ DOMAIN jobs' = 1..Len(jobs')
    /\ \A i \in 1..Len(jobs) : jobs'[i] = jobs[i]
    /\ \A i \in 1..size : jobs'[Len(jobs) + i] = new[i]

\* The jobs of a point are appended: those of earlier points stay in place.
LEMMA EnumerateAppends ==
    ASSUME PoolInv, EnumeratePoint
    PROVE  \E sampled \in [1..Samples -> SUBSET InFlight(Program, point)], size \in Nat :
              JobsAppended(NewJobs(point, Candidates(Program, point, ExhaustiveLimit, sampled)), size)
<1>0. /\ phase = "enumerate" /\ point \in 0..Len(trace) /\ Len(op_end) = Len(trace) + 1
      /\ Len(trace) \in Nat /\ TypeOK /\ MaxStates \in Nat
      /\ Len(jobs) \in 0..MaxStates /\ jobs \in Seq(Range(jobs))
  BY EngineAssumption DEF EnumeratePoint, PoolInv, PointOK, Compiled, JobsOK
<1>1. PICK sampled \in [1..Samples -> SUBSET InFlight(Program, point)] :
         LET new  == NewJobs(point, Candidates(Program, point, ExhaustiveLimit, sampled))
             room == MaxStates - Len(jobs)
         IN  /\ jobs' = jobs \o SubSeq(new, 1, IF Len(new) > room THEN room ELSE Len(new))
             /\ truncated' = (Len(new) > room)
  BY DEF EnumeratePoint
<1> DEFINE candidates == Candidates(Program, point, ExhaustiveLimit, sampled)
           new  == NewJobs(point, candidates)
           room == MaxStates - Len(jobs)
           size == IF Len(new) > room THEN room ELSE Len(new)
           more == SubSeq(new, 1, size)
<1>2. PICK n \in Nat : DOMAIN candidates = 1..n
  BY <1>0, CandidatesNumbered
<1> HIDE DEF candidates
<1>3. new \in Seq(Range(new)) /\ Len(new) \in Nat
  BY <1>2, NewJobsIsSeq
<1>4. jobs' = jobs \o more /\ (~truncated' => ~(Len(new) > room))
  BY <1>1 DEF candidates
<1> HIDE DEF new
<1>5. size \in Nat /\ size <= Len(new) /\ (~truncated' => size = Len(new))
  BY <1>0, <1>3, <1>4
<1> HIDE DEF size
<1>6. /\ more \in Seq(Range(new)) /\ Len(more) = size
      /\ \A i \in 1..size : more[i] = new[i]
  BY <1>3, <1>5
<1>7. more \in Seq(Range(more))
  <2> HIDE DEF more
  <2> QED BY <1>6, SeqOfValues
<1> HIDE DEF more
<1>8. /\ Len(jobs') = Len(jobs) + size /\ DOMAIN jobs' = 1..Len(jobs')
      /\ \A i \in 1..Len(jobs') :
            jobs'[i] = IF i <= Len(jobs) THEN jobs[i] ELSE more[i - Len(jobs)]
  <2>1. /\ Len(jobs \o more) = Len(jobs) + Len(more)
        /\ DOMAIN (jobs \o more) = 1..(Len(jobs) + Len(more))
        /\ \A i \in 1..(Len(jobs) + Len(more)) :
              (jobs \o more)[i] = IF i <= Len(jobs) THEN jobs[i] ELSE more[i - Len(jobs)]
    BY <1>0, <1>7, ConcatIs
  <2>2. jobs' = jobs \o more /\ Len(more) = size
    BY <1>4, <1>6
  <2> QED BY <2>1, <2>2
<1>9. ASSUME NEW i \in 1..size PROVE jobs'[Len(jobs) + i] = new[i]
  <2>1. /\ Len(jobs) + i \in 1..Len(jobs') /\ ~(Len(jobs) + i <= Len(jobs))
        /\ (Len(jobs) + i) - Len(jobs) = i
    BY <1>0, <1>5, <1>8
  <2> QED BY <1>6, <1>8, <2>1
<1>10. \A i \in 1..Len(jobs) : jobs'[i] = jobs[i]
  BY <1>0, <1>5, <1>8
<1>11. JobsAppended(new, size)
  BY <1>0, <1>3, <1>5, <1>8, <1>9, <1>10 DEF JobsAppended
<1> QED BY <1>5, <1>11 DEF new, candidates

-----------------------------------------------------------------------------
(* What is reported is real *)

\* The verdict f has for a key is r.
Says(f, key, r) == key \in DOMAIN f /\ f[key] = r

\* The key of a crash state of p.
KeyOf(p, k, s) == <<Materialize(p, s), p.marks_before[k + 1]>>

\* The state s is a crash state of point k that f rejects.
Rejects(f, p, k, s) == k \in Points(p) /\ Legal(p, k, s) /\ Says(f, KeyOf(p, k, s), "err")

\* A job is a crash state with its own key, and its result is the verdict.
RealJob(f, p, job, r) ==
    /\ job.point \in Points(p) /\ Legal(p, job.point, job.persisted)
    /\ job.key = KeyOf(p, job.point, job.persisted)
    /\ r # None => Says(f, job.key, r)

LostOf(p, k, s) == {p.micro[j].op : j \in Before(p, k) \ s}

\* A group describes a crash state that is rejected.
RealGroup(f, p, g) ==
    /\ DOMAIN g = {"kind", "point", "persisted", "lost", "causes", "files", "hint", "occurrences"}
    /\ Rejects(f, p, g.point, g.persisted)
    /\ g.lost = LostOf(p, g.point, g.persisted)

\* So is the state that is being minimized.
RealCurrent(f, p, c) ==
    /\ DOMAIN c = {"point", "persisted", "trials"}
    /\ c.trials \in Seq(SUBSET Before(p, c.point))
    /\ Rejects(f, p, c.point, c.persisted)

JobsReal == \A i \in 1..Len(jobs) : RealJob(checker, Program, jobs[i], results[i])
CacheReal == \A key \in DOMAIN cache : Says(checker, key, cache[key])
FailingReal == phase = "explain" => failing \in Seq(Failures)
CurrentReal == current # NoCurrent => RealCurrent(checker, Program, current)
GroupsReal ==
    groups \in Seq(Range(groups)) /\ \A g \in DOMAIN groups : RealGroup(checker, Program, groups[g])
NothingYet == phase = "compile" => jobs = <<>> /\ current = NoCurrent /\ groups = <<>>

RealInv == JobsReal /\ CacheReal /\ FailingReal /\ CurrentReal /\ GroupsReal /\ NothingYet

\* The verdicts f has, g has too.
Grows(f, g) == \A key \in DOMAIN f : Says(g, key, f[key])

\* The checker goes on saying what it said.
LEMMA CheckerGrows ==
    ASSUME NEW key, NEW r, CheckerSays(key, r)
    PROVE  Grows(checker, checker') /\ Says(checker', key, r)
<1>1. DOMAIN checker' = DOMAIN checker \cup {key}
      /\ \A k \in DOMAIN checker' : checker'[k] = IF k = key THEN r ELSE checker[k]
  BY DEF CheckerSays, With
<1>2. key \in DOMAIN checker => r = checker[key]
  BY DEF CheckerSays
<1> QED BY <1>1, <1>2 DEF Grows, Says

\* What is real for some verdicts is real for more.
LEMMA GrowingKeeps ==
    ASSUME NEW f, NEW g, Grows(f, g), NEW p
    PROVE  /\ \A key, r : Says(f, key, r) => Says(g, key, r)
           /\ \A k, s : Rejects(f, p, k, s) => Rejects(g, p, k, s)
           /\ \A job, r : RealJob(f, p, job, r) => RealJob(g, p, job, r)
           /\ \A x : RealGroup(f, p, x) => RealGroup(g, p, x)
           /\ \A c : RealCurrent(f, p, c) => RealCurrent(g, p, c)
<1>1. \A key, r : Says(f, key, r) => Says(g, key, r)
  BY DEF Grows, Says
<1>2. \A k, s : Rejects(f, p, k, s) => Rejects(g, p, k, s)
  BY <1>1 DEF Rejects
<1> QED BY <1>1, <1>2 DEF RealJob, RealGroup, RealCurrent

\* Explaining caches what the checker says.
LEMMA VerdictGrows ==
    ASSUME CacheReal, NEW key, NEW r, Verdict(key, r)
    PROVE  Grows(checker, checker') /\ Says(checker', key, r) /\ CacheReal'
<1>1. CASE key \in DOMAIN cache /\ r = cache[key] /\ UNCHANGED oracle
  BY <1>1 DEF oracle, CacheReal, Grows, Says
<1>2. CASE key \notin DOMAIN cache /\ CheckerSays(key, r) /\ cache' = With(cache, key, r)
  <2>1. Grows(checker, checker') /\ Says(checker', key, r)
    BY <1>2, CheckerGrows
  <2>2. DOMAIN cache' = DOMAIN cache \cup {key}
        /\ \A k \in DOMAIN cache' : cache'[k] = IF k = key THEN r ELSE cache[k]
    BY <1>2 DEF With
  <2>3. ASSUME NEW k \in DOMAIN cache' PROVE Says(checker', k, cache'[k])
    <3>1. CASE k = key
      BY <2>1, <2>2, <3>1
    <3>2. CASE k # key
      <4>1. k \in DOMAIN cache /\ Says(checker, k, cache[k])
        BY <2>2, <3>2 DEF CacheReal
      <4> QED BY <2>1, <2>2, <3>2, <4>1, GrowingKeeps
    <3> QED BY <3>1, <3>2
  <2> QED BY <2>1, <2>3 DEF CacheReal
<1> QED BY <1>1, <1>2 DEF Verdict

\* Before compiling there is nothing.
LEMMA InitReal == EngineInit => RealInv
<1> SUFFICES ASSUME EngineInit PROVE RealInv OBVIOUS
<1>1. /\ jobs = <<>> /\ current = NoCurrent /\ groups = <<>> /\ DOMAIN cache = {}
      /\ phase = "compile"
  BY DEF EngineInit, EmptyFn
<1> QED BY <1>1 DEF RealInv, JobsReal, CacheReal, FailingReal, CurrentReal, GroupsReal,
                    NothingYet, Range

\* While compiling there is nothing either.
LEMMA CompileKeepsReal == RealInv /\ CompileTrace => RealInv'
<1> SUFFICES ASSUME RealInv, CompileTrace PROVE RealInv' OBVIOUS
<1>1. /\ jobs' = <<>> /\ current' = NoCurrent /\ groups' = <<>> /\ cache' = cache
      /\ checker' = checker /\ phase' # "explain"
  BY DEF CompileTrace, RealInv, NothingYet, found, oracle, explaining, Fail, Return
<1> QED BY <1>1 DEF RealInv, JobsReal, CacheReal, FailingReal, CurrentReal, GroupsReal,
                    NothingYet, Range

\* A step that leaves the program, the verdicts and the explaining alone.
LEMMA RestIsReal ==
    ASSUME RealInv, vars' = vars, oracle' = oracle, current' = current, groups' = groups,
           phase # "compile", phase' # "compile"
    PROVE  /\ Program' = Program /\ checker' = checker
           /\ CacheReal' /\ CurrentReal' /\ GroupsReal' /\ NothingYet'
<1>1. checker' = checker /\ cache' = cache
  BY DEF oracle
<1>2. Program' = Program
  BY DEF vars, Program
<1> QED BY <1>1, <1>2 DEF RealInv, CacheReal, CurrentReal, GroupsReal, NothingYet

\* The new jobs are crash states of their point, with the marks before it.
LEMMA EnumerateKeepsReal ==
    ASSUME PoolInv, RealInv, EnumeratePoint
    PROVE  RealInv'
<1>0. /\ phase = "enumerate" /\ point \in 0..Len(trace) /\ Len(op_end) = Len(trace) + 1
      /\ Len(trace) \in Nat /\ TypeOK
  BY DEF EnumeratePoint, PoolInv, PointOK, Compiled
<1>1. PICK sampled \in [1..Samples -> SUBSET InFlight(Program, point)], size \in Nat :
         JobsAppended(NewJobs(point, Candidates(Program, point, ExhaustiveLimit, sampled)), size)
  BY EnumerateAppends
<1> DEFINE cs  == Candidates(Program, point, ExhaustiveLimit, sampled)
           new == NewJobs(point, cs)
<1>2. /\ point \in Points(Program) /\ Tries(cs, Program, point)
      /\ \E n \in Nat : DOMAIN cs = 1..n
  BY <1>0, CandidatesNumbered
<1>3. PICK n \in Nat : DOMAIN cs = 1..n
  BY <1>2
<1>4. JobsAppended(new, size)
  BY <1>1
<1> HIDE DEF cs
<1>5. ASSUME NEW i \in 1..Len(new) PROVE RealJob(checker, Program, new[i], None)
  <2>1. PICK h \in 1..n : new[i] = Job(point, Close(Program, point, cs[h]))
    BY <1>3, NewJobsOf
  <2>2. cs[h] \in Range(cs)
    BY <1>3, <2>1 DEF Range
  <2>3. Legal(Program, point, Close(Program, point, cs[h]))
    BY <1>0, <1>2, <2>2, TraceInOrder, SearchIsLegal
  <2>4. Program.marks_before = marks_before
    BY <1>0, TraceInOrder
  <2> QED BY <1>2, <2>1, <2>3, <2>4 DEF RealJob, Job, Key, KeyOf
<1> HIDE DEF new
<1>6. /\ vars' = vars /\ oracle' = oracle /\ current' = current /\ groups' = groups
      /\ phase' \in {"pool", "enumerate"} /\ results' = [i \in DOMAIN jobs' |-> None]
  BY DEF EnumeratePoint, explaining
<1>7. /\ Program' = Program /\ checker' = checker
      /\ CacheReal' /\ CurrentReal' /\ GroupsReal' /\ NothingYet'
  BY <1>0, <1>6, RestIsReal
<1>8. ASSUME NEW i \in 1..Len(jobs') PROVE RealJob(checker, Program, jobs'[i], results'[i])
  <2>1. results'[i] = None
    BY <1>4, <1>6 DEF JobsAppended
  <2>2. CASE i <= Len(jobs)
    <3>1. i \in 1..Len(jobs) /\ jobs'[i] = jobs[i]
      BY <1>4, <2>2 DEF JobsAppended
    <3>2. RealJob(checker, Program, jobs[i], results[i])
      BY <3>1 DEF RealInv, JobsReal
    <3> QED BY <2>1, <3>1, <3>2 DEF RealJob
  <2>3. CASE ~(i <= Len(jobs))
    <3>1. /\ i - Len(jobs) \in 1..size /\ i - Len(jobs) \in 1..Len(new)
          /\ Len(jobs) + (i - Len(jobs)) = i
      BY <1>4, <2>3 DEF JobsAppended
    <3>2. jobs'[i] = new[i - Len(jobs)]
      BY <1>4, <3>1 DEF JobsAppended
    <3> QED BY <1>5, <2>1, <3>1, <3>2
  <2> QED BY <2>2, <2>3
<1>9. JobsReal'
  BY <1>7, <1>8 DEF JobsReal
<1>10. FailingReal'
  BY <1>6 DEF FailingReal
<1> QED BY <1>7, <1>9, <1>10 DEF RealInv

\* A thread's result is what the checker said.
LEMMA ThreadKeepsReal ==
    ASSUME PoolInv, RealInv, NEW w \in Workers, Thread(w)
    PROVE  RealInv'
<1>1. /\ phase = "pool" /\ phase' = "pool" /\ vars' = vars /\ jobs' = jobs
      /\ current' = current /\ groups' = groups /\ cache' = cache
  BY DEF Thread, Claim, FinishJob, FailJob, found, explaining, oracle
<1>2. DOMAIN jobs = 1..Len(jobs) /\ DOMAIN results = 1..Len(jobs)
  BY DEF PoolInv, JobsOK
<1>3. CASE checker' = checker /\ results' = results
  <2>1. Program' = Program
    BY <1>1 DEF vars, Program
  <2> QED BY <1>1, <1>3, <2>1 DEF RealInv, JobsReal, CacheReal, FailingReal, CurrentReal,
                                  GroupsReal, NothingYet
<1>4. CASE FinishJob(w)
  <2> DEFINE mine == worker[w]
             key  == jobs[mine].key
  <2>1. PICK r \in {"ok", "err"} : CheckerSays(key, r) /\ results' = [results EXCEPT ![mine] = r]
    BY <1>4 DEF FinishJob
  <2>2. Grows(checker, checker') /\ Says(checker', key, r)
    <3> HIDE DEF key
    <3> QED BY <2>1, CheckerGrows
  <2>3. Program' = Program
    BY <1>1 DEF vars, Program
  <2>4. ASSUME NEW i \in 1..Len(jobs) PROVE RealJob(checker', Program, jobs[i], results'[i])
    <3>1. RealJob(checker, Program, jobs[i], results[i])
      BY DEF RealInv, JobsReal
    <3>2. RealJob(checker', Program, jobs[i], results[i])
      BY <2>2, <3>1, GrowingKeeps
    <3>3. CASE i = mine
      <4>1. results'[i] = r
        BY <1>2, <2>1, <3>3
      <4> QED BY <2>2, <3>2, <3>3, <4>1 DEF RealJob
    <3>4. CASE i # mine
      <4>1. results'[i] = results[i]
        BY <1>2, <2>1, <3>4
      <4> QED BY <3>2, <4>1
    <3> QED BY <3>3, <3>4
  <2>5. JobsReal'
    BY <1>1, <2>3, <2>4 DEF JobsReal
  <2>6. CacheReal'
    BY <1>1, <2>2, GrowingKeeps DEF RealInv, CacheReal
  <2>7. CurrentReal' /\ GroupsReal'
    BY <1>1, <2>2, <2>3, GrowingKeeps DEF RealInv, CurrentReal, GroupsReal
  <2> QED BY <1>1, <2>5, <2>6, <2>7 DEF RealInv, FailingReal, NothingYet
<1>5. Claim(w) \/ FailJob(w) => checker' = checker /\ results' = results
  BY DEF Claim, FailJob, oracle
<1> QED BY <1>3, <1>4, <1>5 DEF Thread

\* The failures in the order of their simplicity.
LEMMA SortedFailures ==
    ASSUME TypeOK, JobsReal, NEW S, S \subseteq 1..Len(jobs), Len(jobs) \in Nat
    PROVE  /\ Sorted(S, Simpler) \in Seq(S) /\ Len(Sorted(S, Simpler)) = Cardinality(S)
           /\ IsFiniteSet(S)
<1> DEFINE R     == {e \in S \X S : Simpler(e[1], e[2])}
           at(k) == CHOOSE x \in S : Cardinality({y \in S : Simpler(y, x)}) = k - 1
<1>1. IsFiniteSet(S) /\ Cardinality(S) \in Nat
  <2>1. IsFiniteSet(1..Len(jobs))
    BY FS_Interval
  <2> QED BY <2>1, FS_Subset, FS_CardinalityType
<1>2. ASSUME NEW i \in S PROVE jobs[i].point \in Nat /\ LostCount(i) \in Nat /\ i \in Nat
  <2>1. jobs[i].point \in Points(Program)
    BY DEF JobsReal, RealJob
  <2>2. jobs[i].point \in Nat
    BY <2>1, TraceInOrder DEF InOrder
  <2>3. IsFiniteSet(Before(Program, jobs[i].point))
    BY <2>1, TraceInOrder, PointListed
  <2>4. IsFiniteSet(Before(Program, jobs[i].point) \ jobs[i].persisted)
    BY <2>3, FS_Subset
  <2>5. LostCount(i) \in Nat
    BY <2>4, FS_CardinalityType DEF LostCount
  <2> QED BY <2>2, <2>5
<1>3. ASSUME NEW i \in S, NEW j \in S
      PROVE  Simpler(i, j) <=>
                \/ jobs[i].point < jobs[j].point
                \/ /\ jobs[i].point = jobs[j].point
                   /\ LostCount(i) < LostCount(j) \/ (LostCount(i) = LostCount(j) /\ i < j)
  <2> DEFINE a == <<jobs[i].point, LostCount(i), i>>
             b == <<jobs[j].point, LostCount(j), j>>
  <2>1. Simpler(i, j) <=> \E k \in 1..3 : a[k] < b[k] /\ \A l \in 1..(k-1) : a[l] = b[l]
    BY DEF Simpler
  <2>2. a[1] = jobs[i].point /\ a[2] = LostCount(i) /\ a[3] = i
    OBVIOUS
  <2>3. b[1] = jobs[j].point /\ b[2] = LostCount(j) /\ b[3] = j
    OBVIOUS
  <2> HIDE DEF a, b
  <2>4. (\E k \in 1..3 : a[k] < b[k] /\ \A l \in 1..(k-1) : a[l] = b[l]) <=>
           \/ a[1] < b[1] \/ (a[2] < b[2] /\ a[1] = b[1])
           \/ a[3] < b[3] /\ a[1] = b[1] /\ a[2] = b[2]
    <3>1. 1..3 = {1, 2, 3} /\ 1..(1-1) = {} /\ 1..(2-1) = {1} /\ 1..(3-1) = {1, 2}
      OBVIOUS
    <3> QED BY <3>1
  <2> QED BY <2>1, <2>2, <2>3, <2>4
<1>4. Orders(S, R)
  <2>1. \A x, y \in S : <<x, y>> \in R <=> Simpler(x, y)
    OBVIOUS
  <2> HIDE DEF R
  <2>2. ASSUME NEW x \in S PROVE <<x, x>> \notin R
    BY <1>2, <1>3, <2>1
  <2>3. ASSUME NEW x \in S, NEW y \in S, NEW z \in S, <<x, y>> \in R, <<y, z>> \in R
        PROVE  <<x, z>> \in R
    <3>1. Simpler(x, y) /\ Simpler(y, z)
      BY <2>1, <2>3
    <3>2. Simpler(x, z)
      BY <1>2, <1>3, <3>1
    <3> QED BY <2>1, <3>2
  <2>4. ASSUME NEW x \in S, NEW y \in S, x # y PROVE <<x, y>> \in R \/ <<y, x>> \in R
    <3>1. Simpler(x, y) \/ Simpler(y, x)
      BY <1>2, <1>3, <2>4
    <3> QED BY <2>1, <3>1
  <2> QED BY <2>2, <2>3, <2>4 DEF Orders
<1>5. ASSUME NEW k \in 1..Cardinality(S) PROVE at(k) \in S
  <2>1. \E x \in S : Cardinality(Below(S, R, x)) = k - 1
    <3> HIDE DEF R, at
    <3> QED BY <1>1, <1>4, RankTaken
  <2>2. \A x \in S : Below(S, R, x) = {y \in S : Simpler(y, x)}
    BY DEF Below
  <2>3. \E x \in S : Cardinality({y \in S : Simpler(y, x)}) = k - 1
    BY <2>1, <2>2
  <2> QED BY <2>3
<1>6. Sorted(S, Simpler) = [k \in 1..Cardinality(S) |-> at(k)]
  BY DEF Sorted
<1> HIDE DEF at
<1>7. /\ Len([k \in 1..Cardinality(S) |-> at(k)]) = Cardinality(S)
      /\ [k \in 1..Cardinality(S) |-> at(k)] \in Seq(S)
  BY <1>1, <1>5
<1> QED BY <1>1, <1>6, <1>7

\* The trials are sets of issued micro-ops, each issued one among them.
LEMMA TrialsAre ==
    ASSUME TypeOK, NEW k \in Points(Program), NEW s
    PROVE  /\ Trials(k, s) \in Seq(SUBSET Before(Program, k))
           /\ \A j \in Before(Program, k) : \E i \in 1..Len(Trials(k, s)) : Trials(k, s)[i] = {j}
<1> DEFINE B    == Before(Program, k)
           ops  == Sorted(LostOps(k, s), <)
           byOp == [i \in DOMAIN ops |-> MicroOf(k, ops[i])]
           each == [j \in B |-> {j}]
<1>1. /\ IsFiniteSet(B) /\ Program.op_end[k + 1] \in Nat /\ B = 1..Program.op_end[k + 1]
  BY TraceInOrder, PointListed
<1>2. IsFiniteSet(LostOps(k, s))
  <2> DEFINE L == LostMicro(k, s)
             f == [j \in L |-> micro[j].op]
             O == LostOps(k, s)
  <2>1. IsFiniteSet(L)
    BY <1>1, FS_Subset DEF LostMicro
  <2>2. f \in Surjection(L, O)
    <3>1. O = {micro[j].op : j \in L}
      BY DEF LostOps
    <3> HIDE DEF L, O
    <3>2. f \in [L -> O] /\ \A o \in O : \E j \in L : f[j] = o
      BY <3>1
    <3> HIDE DEF f
    <3> QED BY <3>2 DEF Surjection
  <2> HIDE DEF f, L, O
  <2>3. IsFiniteSet(O)
    BY <2>1, <2>2, FS_Surjection
  <2> QED BY <2>3 DEF O
<1>3. Len(ops) \in Nat /\ DOMAIN ops = 1..Len(ops)
  BY <1>2, SortedLen
<1> HIDE DEF ops
<1>4. byOp \in Seq(SUBSET B) /\ Len(byOp) = Len(ops)
  BY <1>3 DEF MicroOf
<1>5. each \in Seq(SUBSET B) /\ Len(each) = Program.op_end[k + 1] /\ \A j \in B : each[j] = {j}
  <2> HIDE DEF B
  <2>1. each \in [1..Program.op_end[k + 1] -> SUBSET B]
    BY <1>1
  <2> QED BY <1>1, <2>1
<1>6. Trials(k, s) = byOp \o each
  BY DEF Trials, ops
<1> HIDE DEF byOp, each, B
<1>7. byOp \o each \in Seq(SUBSET B)
  BY <1>4, <1>5
<1>8. byOp \in Seq(Range(byOp)) /\ each \in Seq(Range(each))
  BY <1>4, <1>5, SeqOfValues
<1>9. ASSUME NEW j \in B PROVE \E i \in 1..Len(byOp \o each) : (byOp \o each)[i] = {j}
  <2>1. /\ Len(byOp \o each) = Len(byOp) + Len(each)
        /\ \A i \in 1..(Len(byOp) + Len(each)) :
              (byOp \o each)[i] = IF i <= Len(byOp) THEN byOp[i] ELSE each[i - Len(byOp)]
    BY <1>8, ConcatIs
  <2>2. j \in 1..Len(each) /\ Len(byOp) \in Nat /\ Len(each) \in Nat
    BY <1>1, <1>3, <1>4, <1>5
  <2>3. /\ Len(byOp) + j \in 1..(Len(byOp) + Len(each)) /\ ~(Len(byOp) + j <= Len(byOp))
        /\ (Len(byOp) + j) - Len(byOp) = j
    BY <2>2
  <2>4. (byOp \o each)[Len(byOp) + j] = each[j]
    BY <2>1, <2>3
  <2> QED BY <1>5, <2>1, <2>3, <2>4
<1> QED BY <1>6, <1>7, <1>9 DEF B

\* The results of the pool become the cache, and the failures are listed.
LEMMA CollectKeepsReal ==
    ASSUME PoolInv, PoolInv', RealInv, Collect
    PROVE  RealInv'
<1>1. /\ phase = "pool" /\ vars' = vars /\ jobs' = jobs /\ results' = results
      /\ checker' = checker /\ current' = current /\ groups' = groups
      /\ phase' \in {"done", "explain"}
  BY DEF Collect, found, pool, Fail, Return
<1>2. Program' = Program
  BY <1>1 DEF vars, Program
<1>3. DOMAIN jobs = 1..Len(jobs) /\ Len(jobs) \in Nat /\ TypeOK
  BY DEF PoolInv, JobsOK, Compiled
<1>4. JobsReal' /\ CurrentReal' /\ GroupsReal' /\ NothingYet'
  BY <1>1, <1>2 DEF RealInv, JobsReal, CurrentReal, GroupsReal, NothingYet
<1>5. CASE phase' = "done" /\ cache' = cache
  <2>1. CacheReal' /\ FailingReal'
    BY <1>1, <1>5 DEF RealInv, CacheReal, FailingReal
  <2> QED BY <1>4, <2>1 DEF RealInv
<1>6. CASE /\ phase' = "explain"
           /\ cache' = [key \in Keys(jobs) |-> results[CHOOSE i \in DOMAIN jobs : jobs[i].key = key]]
           /\ failing' = Sorted({i \in DOMAIN jobs : results[i] = "err"}, Simpler)
  <2>1. \A i \in 1..Len(jobs) : results[i] # None
    BY <1>1, <1>3, <1>6 DEF PoolInv, EveryJobRan
  <2>2. ASSUME NEW key \in DOMAIN cache' PROVE Says(checker, key, cache'[key])
    <3> DEFINE i == CHOOSE h \in DOMAIN jobs : jobs[h].key = key
    <3>1. \E h \in DOMAIN jobs : jobs[h].key = key
      BY <1>6, <2>2 DEF Keys
    <3>2. i \in DOMAIN jobs /\ jobs[i].key = key
      BY <3>1
    <3>3. cache'[key] = results[i]
      BY <1>6, <2>2
    <3> HIDE DEF i
    <3>4. RealJob(checker, Program, jobs[i], results[i]) /\ results[i] # None
      BY <1>3, <2>1, <3>2 DEF RealInv, JobsReal
    <3> QED BY <3>2, <3>3, <3>4 DEF RealJob
  <2>3. CacheReal'
    BY <1>1, <2>2 DEF CacheReal
  <2>4. failing' \in Seq(Failures)
    <3>1. Failures \subseteq 1..Len(jobs) /\ failing' = Sorted(Failures, Simpler)
      BY <1>3, <1>6 DEF Failures
    <3>2. JobsReal
      BY DEF RealInv
    <3> QED BY <1>3, <3>1, <3>2, SortedFailures
  <2>5. FailingReal'
    BY <1>1, <2>4 DEF FailingReal, Failures
  <2> QED BY <1>4, <2>3, <2>5 DEF RealInv
<1> QED BY <1>5, <1>6 DEF Collect, Fail, Return

\* The first of some groups is one of them.
LEMMA FirstIsOne ==
    ASSUME NEW S, S \subseteq Nat, S # {}
    PROVE  FirstOf(S) \in S /\ \A h \in S : FirstOf(S) <= h
BY LeastOf DEF FirstOf

\* What counting one more occurrence leaves of a group.
SameGroup(a, b) ==
    /\ DOMAIN a = DOMAIN b /\ a.point = b.point /\ a.persisted = b.persisted
    /\ a.lost = b.lost

\* Changing how often a group occurred, and why, changes nothing else of it.
LEMMA CountedGroup ==
    ASSUME NEW r, NEW h, DOMAIN h = DOMAIN r,
           \A x \in DOMAIN r : x \notin {"occurrences", "causes"} => h[x] = r[x],
           {"point", "persisted", "lost"} \subseteq DOMAIN r
    PROVE  SameGroup(h, r)
<1>1. h["point"] = r["point"] /\ h["persisted"] = r["persisted"] /\ h["lost"] = r["lost"]
  OBVIOUS
<1> QED BY <1>1 DEF SameGroup

\* Counting one more occurrence of a known group keeps the groups real.
LEMMA CountingIsReal ==
    ASSUME NEW f, NEW p, NEW gs, gs \in Seq(Range(gs)),
           \A g \in DOMAIN gs : RealGroup(f, p, gs[g]),
           NEW i \in DOMAIN gs, NEW hs, hs = [g \in DOMAIN gs |-> hs[g]],
           SameGroup(hs[i], gs[i]),
           \A g \in DOMAIN gs : g # i => hs[g] = gs[g]
    PROVE  hs \in Seq(Range(hs)) /\ \A g \in DOMAIN hs : RealGroup(f, p, hs[g])
<1>1. Len(gs) \in Nat /\ DOMAIN gs = 1..Len(gs)
  OBVIOUS
<1>2. DOMAIN hs = DOMAIN gs
  OBVIOUS
<1>3. \A g \in DOMAIN hs : RealGroup(f, p, hs[g])
  BY <1>2 DEF SameGroup, RealGroup
<1>4. hs \in Seq(Range(hs))
  BY <1>1, FunctionIsSeq
<1> QED BY <1>3, <1>4

\* The next failure is one the checker rejected.
LEMMA NextFailureKeepsReal ==
    ASSUME PoolInv, RealInv, NextFailure
    PROVE  RealInv'
<1>1. /\ phase = "explain" /\ vars' = vars /\ jobs' = jobs /\ results' = results
      /\ cache' = cache /\ checker' = checker /\ failing # <<>> /\ failing' = Tail(failing)
      /\ phase' = phase
  BY DEF NextFailure, found, pool, oracle
<1>2. Program' = Program /\ failing \in Seq(Failures) /\ TypeOK
  BY <1>1 DEF vars, Program, RealInv, FailingReal, PoolInv, Compiled
<1>3. DOMAIN jobs = 1..Len(jobs)
  BY DEF PoolInv, JobsOK
<1>4. JobsReal' /\ CacheReal' /\ NothingYet'
  BY <1>1, <1>2 DEF RealInv, JobsReal, CacheReal, NothingYet
<1>5. FailingReal'
  <2>1. failing' \in Seq(Failures)
    BY <1>1, <1>2
  <2> QED BY <1>1, <2>1 DEF FailingReal, Failures
<1> DEFINE i     == Head(failing)
           job   == jobs[i]
           known == CoveringGroups(LostOps(job.point, job.persisted))
           fresh == [point |-> job.point, persisted |-> job.persisted,
                     trials |-> Trials(job.point, job.persisted)]
<1>6. i \in 1..Len(jobs) /\ results[i] = "err"
  <2>1. i \in Failures
    BY <1>1, <1>2
  <2> QED BY <1>3, <2>1 DEF Failures
<1>7. Rejects(checker, Program, job.point, job.persisted)
  BY <1>6 DEF RealInv, JobsReal, RealJob, Rejects, None
<1>8. /\ \/ current' = current
         \/ current' = fresh
      /\ \/ groups' = groups
         \/ known # {} /\ NoteOccurrence(FirstOf(known))
  BY DEF NextFailure
<1>9. RealCurrent(checker, Program, fresh)
  <2>1. fresh.trials \in Seq(SUBSET Before(Program, fresh.point))
    <3>1. job.point \in Points(Program)
      BY <1>7 DEF Rejects
    <3> HIDE DEF job
    <3>2. Trials(job.point, job.persisted) \in Seq(SUBSET Before(Program, job.point))
      BY <1>2, <3>1, TrialsAre
    <3> QED BY <3>2
  <2>2. DOMAIN fresh = {"point", "persisted", "trials"}
    OBVIOUS
  <2>3. fresh.point = job.point /\ fresh.persisted = job.persisted
    OBVIOUS
  <2> HIDE DEF fresh, job
  <2> QED BY <1>7, <2>1, <2>2, <2>3 DEF RealCurrent
<1>10. CurrentReal'
  <2> HIDE DEF fresh
  <2> QED BY <1>1, <1>2, <1>8, <1>9 DEF RealInv, CurrentReal
<1>11. GroupsReal'
  <2> HIDE DEF known
  <2>1. CASE groups' = groups
    BY <1>1, <1>2, <2>1 DEF RealInv, GroupsReal
  <2>2. CASE known # {} /\ NoteOccurrence(FirstOf(known))
    <3> DEFINE g == FirstOf(known)
    <3>1. g \in DOMAIN groups /\ groups \in Seq(Range(groups))
      <4>1. groups \in Seq(Range(groups)) /\ known \subseteq DOMAIN groups
        BY DEF RealInv, GroupsReal, known, CoveringGroups
      <4>2. known \subseteq Nat
        BY <4>1
      <4> QED BY <2>2, <4>1, <4>2, FirstIsOne
    <3>2. groups' = [groups EXCEPT ![g].occurrences = @ + 1]
      BY <2>2 DEF NoteOccurrence
    <3> HIDE DEF g
    <3>3. /\ groups' = [h \in DOMAIN groups |-> groups'[h]]
          /\ DOMAIN groups'[g] = DOMAIN groups[g]
          /\ \A x \in DOMAIN groups[g] : x # "occurrences" => groups'[g][x] = groups[g][x]
          /\ \A h \in DOMAIN groups : h # g => groups'[h] = groups[h]
      BY <3>1, <3>2
    <3>4. RealGroup(checker, Program, groups[g])
      BY <3>1 DEF RealInv, GroupsReal
    <3>5. SameGroup(groups'[g], groups[g])
      BY <3>3, <3>4, CountedGroup DEF RealGroup
    <3> DEFINE gs == groups
               hs == groups'
    <3>6. /\ gs \in Seq(Range(gs)) /\ \A h \in DOMAIN gs : RealGroup(checker, Program, gs[h])
          /\ g \in DOMAIN gs /\ hs = [h \in DOMAIN gs |-> hs[h]]
          /\ SameGroup(hs[g], gs[g]) /\ \A h \in DOMAIN gs : h # g => hs[h] = gs[h]
      BY <3>1, <3>3, <3>5 DEF RealInv, GroupsReal
    <3> HIDE DEF gs, hs
    <3>7. hs \in Seq(Range(hs)) /\ \A h \in DOMAIN hs : RealGroup(checker, Program, hs[h])
      BY <3>6, CountingIsReal
    <3> QED BY <1>1, <1>2, <3>7 DEF GroupsReal, hs
  <2> QED BY <1>8, <2>1, <2>2
<1> QED BY <1>4, <1>5, <1>10, <1>11 DEF RealInv

\* What a trial leaves of the failure that is minimized.
LEMMA AfterTrial ==
    ASSUME NEW c, DOMAIN c = {"point", "persisted", "trials"}, NEW x,
           NEW rest, rest = [c EXCEPT !.trials = Tail(@)],
           NEW kept, kept = [rest EXCEPT !.persisted = x]
    PROVE  /\ DOMAIN rest = DOMAIN c /\ DOMAIN kept = DOMAIN c
           /\ rest.point = c.point /\ rest.persisted = c.persisted /\ rest.trials = Tail(c.trials)
           /\ kept.point = c.point /\ kept.persisted = x /\ kept.trials = Tail(c.trials)
<1>1. DOMAIN rest = DOMAIN c
      /\ \A k \in DOMAIN c : rest[k] = IF k = "trials" THEN Tail(c["trials"]) ELSE c[k]
  OBVIOUS
<1>2. DOMAIN kept = DOMAIN c
      /\ \A k \in DOMAIN c : kept[k] = IF k = "persisted" THEN x ELSE rest[k]
  BY <1>1
<1> QED BY <1>1, <1>2

\* A trial is a crash state, and it is kept only when it is rejected too.
LEMMA TryAddKeepsReal ==
    ASSUME PoolInv, RealInv, TryAdd
    PROVE  RealInv'
<1> DEFINE c     == current
           trial == Trial(c)
           rest  == [c EXCEPT !.trials = Tail(@)]
<1>1. /\ phase = "explain" /\ vars' = vars /\ jobs' = jobs /\ results' = results
      /\ failing' = failing /\ groups' = groups /\ phase' \in {"explain", "done"}
      /\ c # NoCurrent /\ c.trials # <<>>
  BY DEF TryAdd, found, pool, VerdictFails, Fail, Return
<1>2. Program' = Program /\ TypeOK
  BY <1>1 DEF vars, Program, PoolInv, Compiled
<1>3. /\ DOMAIN c = {"point", "persisted", "trials"}
      /\ c.trials \in Seq(SUBSET Before(Program, c.point))
      /\ c.point \in Points(Program) /\ Legal(Program, c.point, c.persisted)
      /\ Rejects(checker, Program, c.point, c.persisted)
  BY <1>1 DEF RealInv, CurrentReal, RealCurrent, Rejects
<1>4. Legal(Program, c.point, trial)
  <2>1. Head(c.trials) \subseteq Before(Program, c.point)
    BY <1>1, <1>3
  <2>2. c.persisted \subseteq Before(Program, c.point)
    BY <1>3 DEF Legal
  <2>3. Program.op_end[c.point + 1] \in Nat
    BY <1>2, <1>3, TraceInOrder, PointListed
  <2> QED BY <2>1, <2>2, <2>3, CloseLeast DEF Trial
<1>5. Key(c.point, trial) = KeyOf(Program, c.point, trial)
  BY <1>2, TraceInOrder DEF Key, KeyOf
<1> DEFINE kept == [rest EXCEPT !.persisted = trial]
<1>6. /\ Tail(c.trials) \in Seq(SUBSET Before(Program, c.point))
      /\ DOMAIN rest = DOMAIN c /\ DOMAIN kept = DOMAIN c
      /\ rest.point = c.point /\ rest.persisted = c.persisted /\ rest.trials = Tail(c.trials)
      /\ kept.point = c.point /\ kept.persisted = trial /\ kept.trials = Tail(c.trials)
  <2>1. Tail(c.trials) \in Seq(SUBSET Before(Program, c.point))
    BY <1>1, <1>3
  <2>2. rest = [c EXCEPT !.trials = Tail(@)] /\ kept = [rest EXCEPT !.persisted = trial]
    OBVIOUS
  <2> HIDE DEF c, trial, rest, kept
  <2> QED BY <1>3, <2>1, <2>2, AfterTrial
<1>7. ASSUME NEW f, NEW d, DOMAIN d = DOMAIN c, d.point = c.point, d.trials = Tail(c.trials),
             Rejects(f, Program, c.point, d.persisted)
      PROVE  RealCurrent(f, Program, d)
  BY <1>3, <1>6, <1>7 DEF RealCurrent
<1>8. \/ checker' = checker /\ cache' = cache /\ current' = rest
      \/ \E r \in {"ok", "err"} :
            /\ Verdict(Key(c.point, trial), r)
            /\ current' = IF r = "err" THEN kept ELSE rest
      \/ checker' = checker /\ cache' = cache /\ current' = c
  BY DEF TryAdd, oracle
<1> HIDE DEF kept, trial, rest, c
<1>9. Grows(checker, checker') /\ CacheReal'
      /\ (current' = c \/ RealCurrent(checker', Program, current'))
  <2>1. CASE checker' = checker /\ cache' = cache /\ current' = rest
    <3>1. Grows(checker, checker') /\ CacheReal'
      BY <2>1 DEF Grows, Says, RealInv, CacheReal
    <3>2. RealCurrent(checker', Program, current')
      BY <1>3, <1>6, <1>7, <2>1
    <3> QED BY <3>1, <3>2
  <2>2. CASE checker' = checker /\ cache' = cache /\ current' = c
    BY <2>2 DEF Grows, Says, RealInv, CacheReal
  <2>3. ASSUME NEW r \in {"ok", "err"}, Verdict(Key(c.point, trial), r),
               current' = IF r = "err" THEN kept ELSE rest
        PROVE  Grows(checker, checker') /\ CacheReal' /\ RealCurrent(checker', Program, current')
    <3> DEFINE key == Key(c.point, trial)
    <3>1. Grows(checker, checker') /\ CacheReal' /\ Says(checker', key, r)
      <4>1. CacheReal /\ Verdict(key, r)
        BY <2>3 DEF RealInv
      <4> HIDE DEF key
      <4> QED BY <4>1, VerdictGrows
    <3>2. Rejects(checker', Program, c.point, c.persisted)
      BY <1>3, <3>1, GrowingKeeps
    <3>3. r = "err" => Rejects(checker', Program, c.point, trial)
      BY <1>3, <1>4, <1>5, <3>1 DEF Rejects
    <3>4. RealCurrent(checker', Program, current')
      <4>1. CASE r = "err"
        BY <1>6, <1>7, <2>3, <3>3, <4>1
      <4>2. CASE r # "err"
        BY <1>6, <1>7, <2>3, <3>2, <4>2
      <4> QED BY <4>1, <4>2
    <3> QED BY <3>1, <3>4
  <2> QED BY <1>8, <2>1, <2>2, <2>3
<1>10. CurrentReal'
  <2>1. CurrentReal /\ current = c
    BY DEF RealInv, c
  <2> QED BY <1>2, <1>9, <2>1, GrowingKeeps DEF CurrentReal
<1>11. JobsReal' /\ GroupsReal'
  BY <1>1, <1>2, <1>9, GrowingKeeps DEF RealInv, JobsReal, GroupsReal
<1>12. FailingReal' /\ NothingYet'
  BY <1>1 DEF RealInv, FailingReal, NothingYet, Failures
<1> QED BY <1>9, <1>10, <1>11, <1>12 DEF RealInv

\* A group is added for the state that was minimized, or counts it.
LEMMA GroupingIsReal ==
    ASSUME TypeOK, NEW f, NEW kind, NEW k, NEW s, Rejects(f, Program, k, s),
           groups \in Seq(Range(groups)),
           \A g \in DOMAIN groups : RealGroup(f, Program, groups[g]),
           AddToGroups(kind, k, s)
    PROVE  groups' \in Seq(Range(groups')) /\ \A g \in DOMAIN groups' : RealGroup(f, Program, groups'[g])
<1> DEFINE cause == LostOps(k, s)
           files == {OpPath(Op(o)) : o \in cause}
           same  == {g \in DOMAIN groups : groups[g].kind = kind /\ groups[g].files = files}
           vuln  == Vulnerability(kind, k, s)
<1>1. CASE same # {}
  <2> DEFINE i == FirstOf(same)
             gs == groups
             hs == groups'
  <2>1. i \in DOMAIN groups
    <3>1. same \subseteq DOMAIN groups /\ same \subseteq Nat
      OBVIOUS
    <3> HIDE DEF same
    <3> QED BY <1>1, <3>1, FirstIsOne
  <2>2. groups' = [groups EXCEPT ![i].occurrences = @ + 1, ![i].causes = @ \cup {cause}]
    BY <1>1 DEF AddToGroups
  <2> HIDE DEF i, cause
  <2>3. /\ hs = [h \in DOMAIN gs |-> hs[h]]
        /\ DOMAIN hs[i] = DOMAIN gs[i]
        /\ \A x \in DOMAIN gs[i] : x \notin {"occurrences", "causes"} => hs[i][x] = gs[i][x]
        /\ \A h \in DOMAIN gs : h # i => hs[h] = gs[h]
    BY <2>1, <2>2
  <2>4. gs \in Seq(Range(gs)) /\ \A g \in DOMAIN gs : RealGroup(f, Program, gs[g])
    OBVIOUS
  <2> HIDE DEF gs, hs
  <2>5. SameGroup(hs[i], gs[i])
    <3>1. {"point", "persisted", "lost"} \subseteq DOMAIN gs[i]
      BY <2>1, <2>4 DEF RealGroup, gs
    <3> QED BY <2>3, <3>1, CountedGroup
  <2>6. i \in DOMAIN gs
    BY <2>1 DEF gs
  <2>7. hs \in Seq(Range(hs)) /\ \A g \in DOMAIN hs : RealGroup(f, Program, hs[g])
    BY <2>3, <2>4, <2>5, <2>6, CountingIsReal
  <2> QED BY <2>7 DEF hs
<1>2. CASE same = {}
  <2>1. groups' = Append(groups, vuln)
    BY <1>2 DEF AddToGroups
  <2>2. RealGroup(f, Program, vuln)
    <3>1. /\ DOMAIN vuln = {"kind", "point", "persisted", "lost", "causes", "files", "hint", "occurrences"}
          /\ vuln.point = k /\ vuln.persisted = s /\ vuln.lost = LostOps(k, s)
      BY DEF Vulnerability
    <3>2. LostOps(k, s) = LostOf(Program, k, s)
      BY TraceInOrder DEF LostOps, LostMicro, LostOf
    <3> HIDE DEF vuln
    <3> QED BY <3>1, <3>2 DEF RealGroup
  <2> HIDE DEF vuln
  <2>3. groups' \in Seq(Range(groups) \cup {vuln})
    BY <2>1
  <2>4. groups' \in Seq(Range(groups'))
    BY <2>3, SeqOfValues
  <2>5. \A g \in DOMAIN groups' : groups'[g] = vuln \/ (g \in DOMAIN groups /\ groups'[g] = groups[g])
    BY <2>1
  <2> QED BY <2>2, <2>4, <2>5
<1> QED BY <1>1, <1>2

\* The group of a minimized failure describes what was minimized.
LEMMA ClassifyKeepsReal ==
    ASSUME PoolInv, RealInv, Classify
    PROVE  RealInv'
<1> DEFINE c == current
<1>1. /\ phase = "explain" /\ vars' = vars /\ jobs' = jobs /\ results' = results
      /\ failing' = failing /\ phase' \in {"explain", "done"} /\ c # NoCurrent
  BY DEF Classify, found, pool, VerdictFails, Fail, Return
<1>2. Program' = Program /\ TypeOK
  BY <1>1 DEF vars, Program, PoolInv, Compiled
<1>3. RealCurrent(checker, Program, c) /\ Rejects(checker, Program, c.point, c.persisted)
  BY <1>1 DEF RealInv, CurrentReal, RealCurrent
<1>4. \/ /\ UNCHANGED oracle /\ current' = NoCurrent
         /\ \E kind : AddToGroups(kind, c.point, c.persisted)
      \/ /\ \E r, key : Verdict(key, r) /\ \E kind : AddToGroups(kind, c.point, c.persisted)
         /\ current' = NoCurrent
      \/ UNCHANGED <<oracle, current, groups>>
  BY DEF Classify
<1> HIDE DEF c
<1>5. Grows(checker, checker') /\ CacheReal'
  <2>1. CASE UNCHANGED oracle
    BY <2>1 DEF oracle, Grows, Says, RealInv, CacheReal
  <2>2. CASE \E r, key : Verdict(key, r)
    <3>1. CacheReal
      BY DEF RealInv
    <3> QED BY <2>2, <3>1, VerdictGrows
  <2> QED BY <1>4, <2>1, <2>2
<1>6. GroupsReal'
  <2>1. /\ Rejects(checker', Program, c.point, c.persisted)
        /\ groups \in Seq(Range(groups))
        /\ \A g \in DOMAIN groups : RealGroup(checker', Program, groups[g])
    BY <1>3, <1>5, GrowingKeeps DEF RealInv, GroupsReal
  <2>2. CASE groups' = groups
    BY <1>2, <2>1, <2>2 DEF GroupsReal
  <2>3. CASE \E kind : AddToGroups(kind, c.point, c.persisted)
    <3>1. PICK kind : AddToGroups(kind, c.point, c.persisted)
      BY <2>3
    <3> DEFINE f == checker'
    <3>2. /\ Rejects(f, Program, c.point, c.persisted)
          /\ \A g \in DOMAIN groups : RealGroup(f, Program, groups[g])
      BY <2>1
    <3> HIDE DEF f
    <3>3. groups' \in Seq(Range(groups')) /\ \A g \in DOMAIN groups' : RealGroup(f, Program, groups'[g])
      BY <1>2, <2>1, <3>1, <3>2, GroupingIsReal
    <3> QED BY <1>2, <3>3 DEF GroupsReal, f
  <2> QED BY <1>4, <2>2, <2>3
<1>7. CurrentReal'
  <2>1. CASE current' = NoCurrent
    BY <2>1 DEF CurrentReal
  <2>2. CASE current' = c
    <3>1. RealCurrent(checker', Program, c)
      BY <1>3, <1>5, GrowingKeeps
    <3> QED BY <1>2, <2>2, <3>1 DEF CurrentReal
  <2> QED BY <1>4, <2>1, <2>2 DEF c
<1>8. JobsReal'
  BY <1>1, <1>2, <1>5, GrowingKeeps DEF RealInv, JobsReal
<1>9. FailingReal' /\ NothingYet'
  BY <1>1 DEF RealInv, FailingReal, NothingYet, Failures
<1> QED BY <1>5, <1>6, <1>7, <1>8, <1>9 DEF RealInv

\* Every step keeps what is real real.
LEMMA NextKeepsReal ==
    ASSUME PoolInv, PoolInv', RealInv, [EngineNext]_engineVars
    PROVE  RealInv'
<1>1. CASE Finish \/ Done \/ UNCHANGED engineVars
  <2>1. /\ vars' = vars /\ jobs' = jobs /\ results' = results /\ oracle' = oracle
        /\ failing' = failing /\ current' = current /\ groups' = groups
        /\ phase' = phase \/ phase' = "done"
    BY <1>1 DEF Finish, Done, engineVars, found, pool, oracle, explaining, Return
  <2>2. checker' = checker /\ cache' = cache
    BY <2>1 DEF oracle
  <2>3. Program' = Program
    BY <2>1 DEF vars, Program
  <2> QED BY <2>1, <2>2, <2>3 DEF RealInv, JobsReal, CacheReal, FailingReal, CurrentReal,
                                  GroupsReal, NothingYet, Failures
<1> QED BY <1>1, CompileKeepsReal, EnumerateKeepsReal, ThreadKeepsReal, CollectKeepsReal,
           NextFailureKeepsReal, TryAddKeepsReal, ClassifyKeepsReal DEF EngineNext, Sequential

\* What the groups say follows.
LEMMA RealGroupsSay == PoolInv /\ RealInv => MinimizedIsReal
<1> SUFFICES ASSUME PoolInv, RealInv, NEW g \in DOMAIN groups
             PROVE  LET r == groups[g]
                    IN  /\ Legal(Program, r.point, r.persisted)
                        /\ checker[<<Materialize(Program, r.persisted), marks_before[r.point + 1]>>] = "err"
                        /\ \A o \in r.lost : ~(MicroOf(r.point, o) \subseteq r.persisted)
  BY DEF MinimizedIsReal
<1> DEFINE r == groups[g]
<1>1. /\ Rejects(checker, Program, r.point, r.persisted)
      /\ r.lost = LostOf(Program, r.point, r.persisted)
  BY DEF RealInv, GroupsReal, RealGroup
<1>2. Program.micro = micro /\ Program.marks_before = marks_before
  BY TraceInOrder DEF PoolInv, Compiled
<1> HIDE DEF r
<1>3. \A o \in r.lost : \E j \in Before(Program, r.point) \ r.persisted : micro[j].op = o
  BY <1>1, <1>2 DEF LostOf
<1>4. \A o \in r.lost : ~(MicroOf(r.point, o) \subseteq r.persisted)
  BY <1>3 DEF MicroOf
<1> QED BY <1>1, <1>2, <1>4 DEF Rejects, Says, KeyOf, r

\* Whatever is reported is a crash state of its point that the checker rejects
\* with the marks of that point, and that lost what the report says, for every
\* trace, interleaving and checker (minimize, explain).
THEOREM ReportedIsReal == EngineSpec => []MinimizedIsReal
<1>1. PoolInv /\ [EngineNext]_engineVars => PoolInv'
  BY CompileKeepsPool, EnumerateKeepsPool, ThreadKeepsPool, CollectKeepsPool, ExplainKeepsPool
     DEF EngineNext, Sequential
<1>2. PoolInv /\ PoolInv' /\ RealInv /\ [EngineNext]_engineVars => RealInv'
  BY NextKeepsReal
<1> QED BY InitPoolInv, InitReal, RealGroupsSay, <1>1, <1>2, PTL DEF EngineSpec

-----------------------------------------------------------------------------
(* The report counts the rejected states *)

\* Every closed candidate of a point is a job, or has the key of one.
Covered(p, k, js) ==
    \A c \in Range(Candidates(p, k, ExhaustiveLimit, <<>>)) :
        KeyOf(p, k, Close(p, k, c)) \in Keys(js)

Searched == ~truncated => \A k \in Points(Program) : k < point => Covered(Program, k, jobs)

SearchEnded ==
    Len(op_end) = Len(trace) + 1 /\ (truncated \/ point = Len(trace) + 1)

\* Where the search is, and what check returned.
ReportInv ==
    /\ Searched
    /\ phase = "compile" => point = 0
    /\ phase \in {"compile", "enumerate"} => ~truncated
    /\ phase \in {"pool", "explain"} => SearchEnded
    /\ (phase = "done" /\ report.ok) =>
          /\ SearchEnded /\ \A i \in DOMAIN jobs : results[i] # None
          /\ report.truncated = truncated /\ report.failures = Cardinality(Failures)

\* Before compiling no point was searched.
LEMMA InitReport == EngineInit => ReportInv
<1> SUFFICES ASSUME EngineInit PROVE ReportInv OBVIOUS
<1>1. point = 0 /\ phase = "compile" /\ truncated = FALSE
  BY DEF EngineInit
<1>2. \A k \in Points(Program) : ~(k < 0)
  BY DEF Points
<1> QED BY <1>1, <1>2 DEF ReportInv, Searched

\* Nor was any while compiling.
LEMMA CompileKeepsReport == ReportInv /\ CompileTrace => ReportInv'
<1> SUFFICES ASSUME ReportInv, CompileTrace PROVE ReportInv' OBVIOUS
<1>1. /\ point' = 0 /\ truncated' = FALSE
      /\ phase' \in {"compile", "enumerate"} \/ (phase' = "done" /\ ~report'.ok)
  BY DEF CompileTrace, ReportInv, found, Fail, Return
<1>2. \A k \in Points(Program') : ~(k < 0)
  BY DEF Points
<1>3. Searched'
  BY <1>1, <1>2 DEF Searched
<1> QED BY <1>1, <1>3 DEF ReportInv

\* A step of the enumeration covers its point, unless it truncates.
LEMMA EnumerateKeepsReport ==
    ASSUME PoolInv, ReportInv, EnumeratePoint
    PROVE  ReportInv'
<1>0. /\ phase = "enumerate" /\ point \in 0..Len(trace) /\ Len(op_end) = Len(trace) + 1
      /\ Len(trace) \in Nat /\ TypeOK
  BY DEF EnumeratePoint, PoolInv, PointOK, Compiled
<1>1. PICK sampled \in [1..Samples -> SUBSET InFlight(Program, point)], size \in Nat :
         JobsAppended(NewJobs(point, Candidates(Program, point, ExhaustiveLimit, sampled)), size)
  BY EnumerateAppends
<1> DEFINE cs    == Candidates(Program, point, ExhaustiveLimit, sampled)
           plain == Candidates(Program, point, ExhaustiveLimit, <<>>)
           new   == NewJobs(point, cs)
<1>2. point \in Points(Program) /\ \E n \in Nat : DOMAIN cs = 1..n
  BY <1>0, CandidatesNumbered
<1>3. PICK n \in Nat : DOMAIN cs = 1..n
  BY <1>2
<1>4. JobsAppended(new, size)
  BY <1>1
<1>5. Range(plain) \subseteq Range(cs)
  <2>1. Listed(Program, point)
    BY <1>0, <1>2, TraceInOrder, PointListed
  <2>2. Len(sampled) \in Nat /\ \A i \in 1..Len(sampled) : sampled[i] \subseteq Before(Program, point)
    <3>1. Len(sampled) = Samples /\ Samples \in Nat
      BY EngineAssumption
    <3> QED BY <3>1 DEF InFlight
  <2> QED BY <2>1, <2>2, SamplesAdd
<1>6. /\ vars' = vars /\ trace' = trace /\ point' = point + 1
      /\ \/ phase' = "pool" /\ (truncated' \/ point = Len(trace))
         \/ phase' = "enumerate" /\ ~truncated'
  BY DEF EnumeratePoint
<1>7. Program' = Program /\ op_end' = op_end
  BY <1>6 DEF vars, Program
<1> HIDE DEF cs, plain
<1>8. \A i \in 1..Len(jobs) : i \in DOMAIN jobs' /\ jobs'[i] = jobs[i]
  BY <1>4 DEF JobsAppended
<1>9. Keys(jobs) \subseteq Keys(jobs')
  <2>1. DOMAIN jobs = 1..Len(jobs)
    BY DEF PoolInv, JobsOK
  <2> QED BY <1>8, <2>1 DEF Keys
<1>10. ASSUME ~truncated', NEW c \in Range(plain)
       PROVE  KeyOf(Program, point, Close(Program, point, c)) \in Keys(jobs')
  <2>1. PICK h \in 1..n : c = cs[h]
    BY <1>3, <1>5 DEF Range
  <2> DEFINE job == Job(point, Close(Program, point, cs[h]))
  <2>2. \/ job.key \in Keys(jobs)
        \/ \E i \in 1..Len(new) : new[i].key = job.key
    BY <1>3, NewJobsOf
  <2>3. job.key = KeyOf(Program, point, Close(Program, point, c))
    <3>1. Program.marks_before = marks_before
      BY <1>0, TraceInOrder
    <3> QED BY <2>1, <3>1 DEF Job, Key, KeyOf
  <2> HIDE DEF new, job
  <2>4. ASSUME NEW i \in 1..Len(new) PROVE new[i].key \in Keys(jobs')
    <3>1. size = Len(new) /\ Len(jobs) + i \in DOMAIN jobs' /\ jobs'[Len(jobs) + i] = new[i]
      BY <1>4, <1>10 DEF JobsAppended
    <3> QED BY <3>1 DEF Keys
  <2> QED BY <1>9, <2>2, <2>3, <2>4
<1>11. Searched'
  <2>1. SUFFICES ASSUME ~truncated', NEW k \in Points(Program), k < point + 1
                 PROVE  Covered(Program, k, jobs')
    BY <1>6, <1>7 DEF Searched
  <2>2. k \in Nat /\ point \in Nat
    BY <1>0, TraceInOrder DEF InOrder
  <2>3. CASE k = point
    BY <1>10, <2>1, <2>3 DEF Covered, plain
  <2>4. CASE k # point
    <3>1. k < point /\ ~truncated
      BY <1>0, <2>1, <2>2, <2>4 DEF ReportInv
    <3>2. Covered(Program, k, jobs)
      BY <2>1, <3>1 DEF ReportInv, Searched
    <3> QED BY <1>9, <3>2 DEF Covered
  <2> QED BY <2>3, <2>4
<1> QED BY <1>0, <1>6, <1>7, <1>11 DEF ReportInv, SearchEnded

\* The later steps search no more, and only the last one reports.
LEMMA RestKeepsReport ==
    ASSUME PoolInv, ReportInv, phase # "compile",
           \/ \E w \in Workers : Thread(w)
           \/ Collect \/ NextFailure \/ TryAdd \/ Classify \/ Finish \/ Done
           \/ UNCHANGED engineVars
    PROVE  ReportInv'
<1>1. /\ vars' = vars /\ trace' = trace /\ point' = point /\ jobs' = jobs /\ truncated' = truncated
  BY DEF Thread, Claim, FinishJob, FailJob, Collect, NextFailure, TryAdd, Classify, Finish, Done,
         engineVars, found
<1>2. Program' = Program /\ op_end' = op_end
  BY <1>1 DEF vars, Program
<1>3. Searched' /\ (SearchEnded => SearchEnded')
  BY <1>1, <1>2 DEF ReportInv, Searched, SearchEnded
<1>4. \/ phase' = phase /\ report' = report /\ (phase = "done" => results' = results)
      \/ phase' = "done" /\ ~report'.ok
      \/ phase = "pool" /\ phase' = "explain"
      \/ phase = "explain" /\ phase' = "done" /\ report' = Report /\ results' = results
  <2>1. CASE \E w \in Workers : Thread(w)
    BY <2>1 DEF Thread, Claim, FinishJob, FailJob
  <2>2. CASE Collect
    BY <2>2 DEF Collect, Fail, Return
  <2>3. CASE NextFailure \/ TryAdd \/ Classify
    <3>1. NextFailure => phase = "explain" /\ phase' = phase /\ report' = report
      BY DEF NextFailure
    <3>2. \A key : VerdictFails(key) => phase' = "done" /\ ~report'.ok
      BY DEF VerdictFails, Fail, Return
    <3>3. TryAdd => \/ phase = "explain" /\ phase' = phase /\ report' = report
                    \/ \E key : VerdictFails(key)
      BY DEF TryAdd
    <3>4. Classify => \/ phase = "explain" /\ phase' = phase /\ report' = report
                      \/ \E key : VerdictFails(key)
      BY DEF Classify
    <3> QED BY <2>3, <3>1, <3>2, <3>3, <3>4
  <2>4. CASE Finish
    BY <2>4 DEF Finish, Return, pool
  <2>5. CASE Done \/ UNCHANGED engineVars
    BY <2>5 DEF Done, engineVars, pool
  <2> QED BY <2>1, <2>2, <2>3, <2>4, <2>5
<1>5. CASE phase' = phase /\ report' = report /\ (phase = "done" => results' = results)
  BY <1>1, <1>3, <1>5 DEF ReportInv, Failures
<1>6. CASE phase' = "done" /\ ~report'.ok
  BY <1>3, <1>6 DEF ReportInv
<1>7. CASE phase = "pool" /\ phase' = "explain"
  BY <1>3, <1>7 DEF ReportInv
<1>8. CASE phase = "explain" /\ phase' = "done" /\ report' = Report /\ results' = results
  <2>1. \A i \in DOMAIN jobs : results[i] # None
    BY <1>8 DEF PoolInv, EveryJobRan
  <2>2. report'.truncated = truncated /\ report'.failures = Cardinality(Failures)
    BY <1>8 DEF Report
  <2> QED BY <1>1, <1>3, <1>8, <2>1, <2>2 DEF ReportInv, Failures
<1> QED BY <1>4, <1>5, <1>6, <1>7, <1>8

\* The invariants give the report what it promises.
LEMMA ReportFollows == PoolInv /\ OnceOK /\ RealInv /\ ReportInv => ReportIsFaithful
<1> SUFFICES ASSUME PoolInv, OnceOK, RealInv, ReportInv,
                    phase = "done", report.ok, ~report.truncated
             PROVE  /\ Reached \subseteq DOMAIN checker
                    /\ report.failures =
                          Cardinality({key \in Reached \cup Keys(jobs) : checker[key] = "err"})
  BY DEF ReportIsFaithful
<1>1. /\ ~truncated /\ point = Len(trace) + 1 /\ Len(op_end) = Len(trace) + 1
      /\ report.failures = Cardinality(Failures) /\ \A i \in DOMAIN jobs : results[i] # None
  BY DEF ReportInv, SearchEnded
<1>2. DOMAIN jobs = 1..Len(jobs) /\ Len(jobs) \in Nat /\ TypeOK /\ Len(trace) \in Nat
  BY DEF PoolInv, JobsOK, Compiled
<1>3. Reached \subseteq Keys(jobs)
  <2>1. SUFFICES ASSUME NEW k \in Points(Program),
                        NEW c \in Range(Candidates(Program, k, ExhaustiveLimit, <<>>))
                 PROVE  KeyOf(Program, k, Close(Program, k, c)) \in Keys(jobs)
    <3>1. Program.marks_before = marks_before
      BY <1>2, TraceInOrder
    <3> QED BY <3>1 DEF Reached, KeyOf
  <2>2. k < point
    BY <1>1, <1>2, TraceInOrder
  <2> QED BY <1>1, <2>2 DEF ReportInv, Searched, Covered
<1>4. \A i \in 1..Len(jobs) : Says(checker, jobs[i].key, results[i])
  BY <1>1, <1>2 DEF RealInv, JobsReal, RealJob
<1>5. Keys(jobs) \subseteq DOMAIN checker
  BY <1>2, <1>4 DEF Keys, Says
<1> DEFINE bad == {key \in Keys(jobs) : checker[key] = "err"}
           f   == [i \in Failures |-> jobs[i].key]
<1>6. Cardinality(Failures) = Cardinality(bad)
  <2>1. IsFiniteSet(Failures) /\ Failures \subseteq 1..Len(jobs)
    <3>1. Failures \subseteq 1..Len(jobs) /\ IsFiniteSet(1..Len(jobs))
      BY <1>2, FS_Interval DEF Failures
    <3> QED BY <3>1, FS_Subset
  <2>2. f \in [Failures -> bad]
    BY <1>2, <1>4, <2>1 DEF Failures, Keys, Says
  <2>3. \A i, j \in Failures : f[i] = f[j] => i = j
    BY <2>1 DEF OnceOK, Distinct
  <2>4. \A key \in bad : \E i \in Failures : f[i] = key
    BY <1>2, <1>4 DEF Failures, Keys, Says
  <2>5. f \in Bijection(Failures, bad)
    <3> HIDE DEF f, bad
    <3> QED BY <2>2, <2>3, <2>4 DEF Bijection, Injection, Surjection, IsInjective
  <2> HIDE DEF f, bad
  <2>6. ExistsBijection(Failures, bad)
    BY <2>5 DEF ExistsBijection
  <2> QED BY <2>1, <2>6, FS_Bijection
<1>7. {key \in Reached \cup Keys(jobs) : checker[key] = "err"} = bad
  BY <1>3
<1> QED BY <1>1, <1>3, <1>5, <1>6, <1>7

\* A report that was not cut short counts exactly the rejected states of those
\* the search reaches at any point with the marks before it, for every trace,
\* number of threads, interleaving and checker (Engine::run, Report::is_clean).
THEOREM ReportCountsRejected == EngineSpec => []ReportIsFaithful
<1>1. PoolInv /\ [EngineNext]_engineVars => PoolInv'
  BY CompileKeepsPool, EnumerateKeepsPool, ThreadKeepsPool, CollectKeepsPool, ExplainKeepsPool
     DEF EngineNext, Sequential
<1>2. PoolInv /\ OnceOK /\ [EngineNext]_engineVars => OnceOK'
  BY EnumerateKeepsOnce, ThreadKeepsOnce, SequentialKeepsOnce DEF EngineNext
<1>3. PoolInv /\ PoolInv' /\ RealInv /\ [EngineNext]_engineVars => RealInv'
  BY NextKeepsReal
<1>4. PoolInv /\ ReportInv /\ [EngineNext]_engineVars => ReportInv'
  <2>1. ASSUME PoolInv, ReportInv, [EngineNext]_engineVars, phase = "compile" PROVE ReportInv'
    <3>1. CASE CompileTrace
      BY <2>1, <3>1, CompileKeepsReport
    <3>2. CASE UNCHANGED engineVars
      <4>1. Program' = Program
        BY <3>2 DEF engineVars, vars, Program
      <4> QED BY <2>1, <3>2, <4>1 DEF engineVars, found, pool, ReportInv, Searched, SearchEnded
    <3> QED BY <2>1, <3>1, <3>2
            DEF EngineNext, Sequential, EnumeratePoint, Thread, Claim, FinishJob, FailJob,
                Collect, NextFailure, TryAdd, Classify, Finish, Done
  <2>2. ASSUME PoolInv, ReportInv, [EngineNext]_engineVars, phase # "compile" PROVE ReportInv'
    <3>1. ~CompileTrace
      BY <2>2 DEF CompileTrace
    <3> QED BY <2>2, <3>1, EnumerateKeepsReport, RestKeepsReport DEF EngineNext, Sequential
  <2> QED BY <2>1, <2>2
<1> QED BY InitPoolInv, InitOnce, InitReal, InitReport, ReportFollows, <1>1, <1>2, <1>3, <1>4, PTL
        DEF EngineSpec

-----------------------------------------------------------------------------
(* One greedy pass minimizes *)

\* Some legal state with no more than what re-persisting j keeps was accepted.
Witness(f, p, k, s, j) ==
    \E t : Legal(p, k, t) /\ Says(f, KeyOf(p, k, t), "ok") /\ t \subseteq Close(p, k, s \cup {j})

\* A lost micro-op of the failure being minimized is still to be tried, or there
\* is a witness against it.
Waits(c, j) == \E i \in 1..Len(c.trials) : c.trials[i] = {j}
OpenOrWitnessed(f, p, c) ==
    \A j \in Before(p, c.point) \ c.persisted : Waits(c, j) \/ Witness(f, p, c.point, c.persisted, j)

Minimal(f, p, g) ==
    \A j \in Before(p, g.point) \ g.persisted : Witness(f, p, g.point, g.persisted, j)

CurrentOpen == current # NoCurrent => OpenOrWitnessed(checker, Program, current)
GroupsMinimal == \A g \in DOMAIN groups : Minimal(checker, Program, groups[g])
MinimalInv == CurrentOpen /\ GroupsMinimal

\* Witnesses stay when more verdicts are known and more is persisted.
LEMMA WitnessStays ==
    ASSUME NEW f, NEW g, Grows(f, g), NEW p, NEW k, p.op_end[k + 1] \in Nat,
           NEW s, NEW t, s \subseteq t, t \subseteq Before(p, k),
           NEW j \in Before(p, k), Witness(f, p, k, s, j)
    PROVE  Witness(g, p, k, t, j)
<1>1. PICK w : /\ Legal(p, k, w) /\ Says(f, KeyOf(p, k, w), "ok")
               /\ w \subseteq Close(p, k, s \cup {j})
  BY DEF Witness
<1> DEFINE a == s \cup {j}
           b == t \cup {j}
<1>2. a \subseteq b /\ b \subseteq Before(p, k) /\ a \subseteq Before(p, k)
  OBVIOUS
<1> HIDE DEF a, b
<1>3. Legal(p, k, Close(p, k, b)) /\ b \subseteq Close(p, k, b)
  BY <1>2, CloseLeast
<1>4. \A x : Legal(p, k, x) /\ a \subseteq x => Close(p, k, a) \subseteq x
  BY <1>2, CloseLeast
<1>5. Close(p, k, a) \subseteq Close(p, k, b)
  BY <1>2, <1>3, <1>4
<1>6. Says(g, KeyOf(p, k, w), "ok")
  BY <1>1, GrowingKeeps
<1>7. w \subseteq Close(p, k, b)
  BY <1>1, <1>5 DEF a
<1> QED BY <1>1, <1>6, <1>7 DEF Witness, b

\* What is minimal stays minimal when more verdicts are known.
LEMMA MinimalStays ==
    ASSUME NEW f, NEW g, Grows(f, g), NEW p, NEW x, Minimal(f, p, x)
    PROVE  Minimal(g, p, x)
BY GrowingKeeps DEF Minimal, Witness

\* A trial that is not kept leaves a witness against its micro-op.
LEMMA TriedIsWitnessed ==
    ASSUME NEW f, NEW p, NEW k, NEW s, NEW j, NEW t, t = Close(p, k, s \cup {j}),
           Legal(p, k, t), Says(f, KeyOf(p, k, t), "ok")
    PROVE  Witness(f, p, k, s, j)
BY DEF Witness

\* What waits is tried next or waits on.
LEMMA NextOrWaits ==
    ASSUME NEW c, NEW S, c.trials \in Seq(S), c.trials # <<>>, NEW j, Waits(c, j),
           NEW d, d.trials = Tail(c.trials)
    PROVE  Head(c.trials) = {j} \/ Waits(d, j)
<1> DEFINE t == c.trials
<1>1. PICK i \in 1..Len(t) : t[i] = {j}
  BY DEF Waits
<1>2. t \in Seq(S) /\ t # <<>> /\ Len(t) \in Nat /\ Head(t) = t[1]
  OBVIOUS
<1>3. CASE i = 1
  BY <1>1, <1>2, <1>3
<1>4. CASE i # 1
  <2> HIDE DEF t
  <2>1. i - 1 \in 1..Len(Tail(t)) /\ Tail(t)[i - 1] = t[(i - 1) + 1] /\ (i - 1) + 1 = i
    BY <1>1, <1>2, <1>4
  <2>2. Tail(t)[i - 1] = {j}
    BY <1>1, <2>1
  <2>3. d.trials = Tail(t)
    BY DEF t
  <2> QED BY <2>1, <2>2, <2>3 DEF Waits
<1> QED BY <1>3, <1>4

\* The first trials have every micro-op, and the groups are left as they were.
LEMMA NextFailureKeepsMinimal ==
    ASSUME PoolInv, RealInv, MinimalInv, NextFailure
    PROVE  MinimalInv'
<1>1. vars' = vars /\ checker' = checker /\ phase = "explain"
  BY DEF NextFailure, oracle
<1>2. Program' = Program /\ failing \in Seq(Failures) /\ failing # <<>> /\ TypeOK
  BY <1>1 DEF vars, Program, RealInv, FailingReal, PoolInv, Compiled, NextFailure
<1> DEFINE i     == Head(failing)
           job   == jobs[i]
           known == CoveringGroups(LostOps(job.point, job.persisted))
           fresh == [point |-> job.point, persisted |-> job.persisted,
                     trials |-> Trials(job.point, job.persisted)]
<1>3. /\ \/ current' = current
         \/ current' = fresh
      /\ \/ groups' = groups
         \/ known # {} /\ NoteOccurrence(FirstOf(known))
  BY DEF NextFailure
<1>4. job.point \in Points(Program)
  <2>1. i \in Failures /\ DOMAIN jobs = 1..Len(jobs)
    BY <1>2 DEF PoolInv, JobsOK
  <2>2. i \in 1..Len(jobs)
    BY <2>1 DEF Failures
  <2> QED BY <2>2 DEF RealInv, JobsReal, RealJob
<1>5. OpenOrWitnessed(checker, Program, fresh)
  <2> DEFINE k == job.point
             s == job.persisted
  <2>1. \A j \in Before(Program, k) : \E h \in 1..Len(Trials(k, s)) : Trials(k, s)[h] = {j}
    <3>1. k \in Points(Program)
      BY <1>4
    <3> HIDE DEF k, s
    <3> QED BY <1>2, <3>1, TrialsAre
  <2>2. fresh.point = k /\ fresh.trials = Trials(k, s)
    OBVIOUS
  <2> HIDE DEF k, s, fresh
  <2> QED BY <2>1, <2>2 DEF OpenOrWitnessed, Waits
<1>6. CurrentOpen'
  <2> HIDE DEF fresh
  <2> QED BY <1>1, <1>2, <1>3, <1>5 DEF MinimalInv, CurrentOpen
<1>7. GroupsMinimal'
  <2> HIDE DEF known
  <2>1. CASE groups' = groups
    BY <1>1, <1>2, <2>1 DEF MinimalInv, GroupsMinimal
  <2>2. CASE known # {} /\ NoteOccurrence(FirstOf(known))
    <3> DEFINE g == FirstOf(known)
    <3>1. g \in DOMAIN groups
      <4>1. groups \in Seq(Range(groups)) /\ known \subseteq DOMAIN groups
        BY DEF RealInv, GroupsReal, known, CoveringGroups
      <4>2. known \subseteq Nat
        BY <4>1
      <4> QED BY <2>2, <4>1, <4>2, FirstIsOne
    <3>2. groups' = [groups EXCEPT ![g].occurrences = @ + 1]
      BY <2>2 DEF NoteOccurrence
    <3> HIDE DEF g
    <3>3. /\ DOMAIN groups' = DOMAIN groups /\ DOMAIN groups'[g] = DOMAIN groups[g]
          /\ \A x \in DOMAIN groups[g] : x # "occurrences" => groups'[g][x] = groups[g][x]
          /\ \A h \in DOMAIN groups : h # g => groups'[h] = groups[h]
      BY <3>1, <3>2
    <3>4. RealGroup(checker, Program, groups[g])
      BY <3>1 DEF RealInv, GroupsReal
    <3>5. SameGroup(groups'[g], groups[g])
      BY <3>3, <3>4, CountedGroup DEF RealGroup
    <3>6. \A h \in DOMAIN groups : Minimal(checker, Program, groups'[h])
      BY <3>3, <3>5 DEF SameGroup, MinimalInv, GroupsMinimal, Minimal
    <3> QED BY <1>1, <1>2, <3>3, <3>6 DEF GroupsMinimal
  <2> QED BY <1>3, <2>1, <2>2
<1> QED BY <1>6, <1>7 DEF MinimalInv

\* What one trial does to the failure that is minimized: it stays when the
\* checker cannot run; else the trial is used up, and either it changes nothing,
\* or the checker accepts it, or rejects it and it is kept.
LEMMA TrialOutcomes ==
    ASSUME PoolInv, RealInv, TryAdd, NEW c, c = current, NEW t, t = Trial(current)
    PROVE  /\ c # NoCurrent /\ c.trials # <<>> /\ RealCurrent(checker, Program, c)
           /\ Legal(Program, c.point, t) /\ c.persisted \cup Head(c.trials) \subseteq t
           /\ Grows(checker, checker')
           /\ \/ current' = c
              \/ /\ current'.point = c.point /\ current'.trials = Tail(c.trials)
                 /\ \/ t = c.persisted /\ current'.persisted = c.persisted
                    \/ /\ Says(checker', KeyOf(Program, c.point, t), "ok")
                       /\ current'.persisted = c.persisted
                    \/ current'.persisted = t
<1> DEFINE rest == [c EXCEPT !.trials = Tail(@)]
           kept == [rest EXCEPT !.persisted = t]
           key  == Key(c.point, t)
<1>1. c # NoCurrent /\ c.trials # <<>> /\ TypeOK
  BY DEF TryAdd, PoolInv, Compiled
<1>2. RealCurrent(checker, Program, c)
  BY <1>1 DEF RealInv, CurrentReal
<1>3. /\ DOMAIN c = {"point", "persisted", "trials"} /\ c.point \in Points(Program)
      /\ c.trials \in Seq(SUBSET Before(Program, c.point)) /\ Legal(Program, c.point, c.persisted)
  BY <1>2 DEF RealCurrent, Rejects
<1>4. Legal(Program, c.point, t) /\ c.persisted \cup Head(c.trials) \subseteq t
  <2>1. Head(c.trials) \subseteq Before(Program, c.point)
    BY <1>1, <1>3
  <2>2. c.persisted \subseteq Before(Program, c.point)
    BY <1>3 DEF Legal
  <2>3. Program.op_end[c.point + 1] \in Nat
    BY <1>1, <1>3, TraceInOrder, PointListed
  <2> QED BY <2>1, <2>2, <2>3, CloseLeast DEF Trial
<1>5. key = KeyOf(Program, c.point, t)
  BY <1>1, TraceInOrder DEF Key, KeyOf
<1>6. /\ rest.point = c.point /\ rest.persisted = c.persisted /\ rest.trials = Tail(c.trials)
      /\ kept.point = c.point /\ kept.persisted = t /\ kept.trials = Tail(c.trials)
  <2>1. rest = [c EXCEPT !.trials = Tail(@)] /\ kept = [rest EXCEPT !.persisted = t]
    OBVIOUS
  <2> HIDE DEF rest, kept
  <2> QED BY <1>3, <2>1, AfterTrial
<1>7. \/ checker' = checker /\ t = c.persisted /\ current' = rest
      \/ \E r \in {"ok", "err"} : Verdict(key, r) /\ current' = IF r = "err" THEN kept ELSE rest
      \/ checker' = checker /\ current' = c
  BY DEF TryAdd, oracle
<1> HIDE DEF rest, kept, key
<1>8. CASE checker' = checker
  <2>1. Grows(checker, checker')
    BY <1>8 DEF Grows, Says
  <2>2. CASE t = c.persisted /\ current' = rest
    BY <1>1, <1>2, <1>4, <1>6, <2>1, <2>2
  <2>3. CASE current' = c
    BY <1>1, <1>2, <1>4, <2>1, <2>3
  <2>4. CASE \E r \in {"ok", "err"} : Verdict(key, r) /\ current' = IF r = "err" THEN kept ELSE rest
    <3>1. PICK r \in {"ok", "err"} : Verdict(key, r) /\ current' = IF r = "err" THEN kept ELSE rest
      BY <2>4
    <3>2. Says(checker', key, r)
      BY <3>1, VerdictGrows DEF RealInv
    <3> QED BY <1>1, <1>2, <1>4, <1>5, <1>6, <2>1, <3>1, <3>2
  <2> QED BY <1>7, <2>2, <2>3, <2>4, <1>8
<1>9. CASE \E r \in {"ok", "err"} : Verdict(key, r) /\ current' = IF r = "err" THEN kept ELSE rest
  <2>1. PICK r \in {"ok", "err"} : Verdict(key, r) /\ current' = IF r = "err" THEN kept ELSE rest
    BY <1>9
  <2>2. Grows(checker, checker') /\ Says(checker', key, r)
    BY <2>1, VerdictGrows DEF RealInv
  <2> QED BY <1>1, <1>2, <1>4, <1>5, <1>6, <2>1, <2>2
<1> QED BY <1>7, <1>8, <1>9

\* A trial leaves no micro-op without a trial to come or a witness.
LEMMA TryAddKeepsMinimal ==
    ASSUME PoolInv, RealInv, MinimalInv, TryAdd
    PROVE  MinimalInv'
<1> DEFINE c == current
           t == Trial(current)
           d == current'
           p == Program
           g == checker'
<1>1. vars' = vars /\ groups' = groups
  BY DEF TryAdd
<1>2. Program' = Program /\ TypeOK
  BY <1>1 DEF vars, Program, PoolInv, Compiled
<1>3. /\ c # NoCurrent /\ c.trials # <<>> /\ RealCurrent(checker, p, c)
      /\ Legal(p, c.point, t) /\ c.persisted \cup Head(c.trials) \subseteq t
      /\ Grows(checker, g)
      /\ \/ d = c
         \/ /\ d.point = c.point /\ d.trials = Tail(c.trials)
            /\ \/ t = c.persisted /\ d.persisted = c.persisted
               \/ Says(g, KeyOf(p, c.point, t), "ok") /\ d.persisted = c.persisted
               \/ d.persisted = t
  BY TrialOutcomes
<1>4. /\ c.point \in Points(p) /\ c.trials \in Seq(SUBSET Before(p, c.point))
      /\ Legal(p, c.point, c.persisted)
  BY <1>3 DEF RealCurrent, Rejects
<1>5. p.op_end[c.point + 1] \in Nat
  BY <1>2, <1>4, TraceInOrder, PointListed
<1>6. OpenOrWitnessed(checker, p, c)
  BY <1>3 DEF MinimalInv, CurrentOpen
<1>7. t = Close(p, c.point, c.persisted \cup Head(c.trials))
  BY DEF Trial
<1> HIDE DEF c, d, p, g, t
<1>8. OpenOrWitnessed(g, p, d)
  <2>1. CASE d = c
    <3>1. ASSUME NEW j \in Before(p, c.point) \ c.persisted, Witness(checker, p, c.point, c.persisted, j)
          PROVE  Witness(g, p, c.point, c.persisted, j)
      <4>1. c.persisted \subseteq Before(p, c.point)
        BY <1>4 DEF Legal
      <4> QED BY <1>3, <1>5, <3>1, <4>1, WitnessStays
    <3> QED BY <1>6, <2>1, <3>1 DEF OpenOrWitnessed
  <2>2. CASE /\ d.point = c.point /\ d.trials = Tail(c.trials)
             /\ \/ t = c.persisted /\ d.persisted = c.persisted
                \/ Says(g, KeyOf(p, c.point, t), "ok") /\ d.persisted = c.persisted
                \/ d.persisted = t
    <3>1. SUFFICES ASSUME NEW j \in Before(p, c.point) \ d.persisted
                   PROVE  Waits(d, j) \/ Witness(g, p, c.point, d.persisted, j)
      BY <2>2 DEF OpenOrWitnessed
    <3>2. c.persisted \subseteq d.persisted /\ d.persisted \subseteq Before(p, c.point)
      BY <1>3, <1>4, <2>2 DEF Legal
    <3>3. CASE Witness(checker, p, c.point, c.persisted, j)
      <4>1. Witness(g, p, c.point, d.persisted, j)
        <5> DEFINE s == c.persisted
                   u == d.persisted
                   k == c.point
        <5>1. /\ s \subseteq u /\ u \subseteq Before(p, k) /\ Witness(checker, p, k, s, j)
              /\ p.op_end[k + 1] \in Nat /\ j \in Before(p, k)
          BY <1>5, <3>2, <3>3
        <5> HIDE DEF s, u, k
        <5>2. Witness(g, p, k, u, j)
          BY <1>3, <5>1, WitnessStays
        <5> QED BY <5>2 DEF s, u, k
      <4> QED BY <4>1
    <3>4. CASE Waits(c, j)
      <4>1. Head(c.trials) = {j} \/ Waits(d, j)
        BY <1>3, <1>4, <2>2, <3>4, NextOrWaits
      <4>2. CASE Head(c.trials) = {j}
        <5>1. j \in t
          BY <1>3, <4>2
        <5>2. Says(g, KeyOf(p, c.point, t), "ok") /\ d.persisted = c.persisted
          BY <2>2, <5>1
        <5>3. t = Close(p, c.point, c.persisted \cup {j})
          BY <1>7, <4>2
        <5> QED BY <1>3, <5>2, <5>3, TriedIsWitnessed
      <4> QED BY <4>1, <4>2
    <3>5. j \in Before(p, c.point) \ c.persisted
      BY <3>2
    <3> QED BY <1>6, <3>3, <3>4, <3>5 DEF OpenOrWitnessed
  <2> QED BY <1>3, <2>1, <2>2
<1>9. CurrentOpen'
  BY <1>2, <1>8 DEF CurrentOpen, d, p, g
<1>10. GroupsMinimal'
  BY <1>1, <1>2, <1>3, MinimalStays DEF MinimalInv, GroupsMinimal, g, p
<1> QED BY <1>9, <1>10 DEF MinimalInv

\* With no trial to come there is a witness against every micro-op.
LEMMA AllWitnessed ==
    ASSUME NEW f, NEW p, NEW c, c.trials = <<>>, OpenOrWitnessed(f, p, c),
           NEW x, x.point = c.point, x.persisted = c.persisted
    PROVE  Minimal(f, p, x)
<1>1. \A j : ~Waits(c, j)
  BY DEF Waits
<1> QED BY <1>1 DEF OpenOrWitnessed, Minimal

\* The group a minimized failure is put in stays minimal or is its own.
LEMMA ClassifyKeepsMinimal ==
    ASSUME PoolInv, RealInv, MinimalInv, Classify
    PROVE  MinimalInv'
<1> DEFINE c == current
           g == checker'
           p == Program
<1>1. vars' = vars /\ c # NoCurrent /\ c.trials = <<>>
  BY DEF Classify
<1>2. Program' = Program /\ TypeOK
  BY <1>1 DEF vars, Program, PoolInv, Compiled
<1>3. \/ /\ UNCHANGED oracle /\ current' = NoCurrent
         /\ \E kind : AddToGroups(kind, c.point, c.persisted)
      \/ /\ \E r, key : Verdict(key, r) /\ \E kind : AddToGroups(kind, c.point, c.persisted)
         /\ current' = NoCurrent
      \/ UNCHANGED <<oracle, current, groups>>
  BY DEF Classify
<1>4. OpenOrWitnessed(checker, p, c)
  BY <1>1 DEF MinimalInv, CurrentOpen
<1> HIDE DEF c, g, p
<1>5. CASE UNCHANGED <<oracle, current, groups>>
  BY <1>2, <1>5 DEF MinimalInv, CurrentOpen, GroupsMinimal, oracle
<1>6. CASE current' = NoCurrent /\ \E kind : AddToGroups(kind, c.point, c.persisted)
  <2>1. Grows(checker, g)
    <3>1. CASE UNCHANGED oracle
      BY <3>1 DEF oracle, Grows, Says, g
    <3>2. CASE \E r, key : Verdict(key, r)
      BY <3>2, VerdictGrows DEF RealInv, g
    <3> QED BY <1>3, <3>1, <3>2
  <2>2. PICK kind : AddToGroups(kind, c.point, c.persisted)
    BY <1>6
  <2> DEFINE same == {h \in DOMAIN groups :
                         groups[h].kind = kind
                         /\ groups[h].files = {OpPath(Op(o)) : o \in LostOps(c.point, c.persisted)}}
             vuln == Vulnerability(kind, c.point, c.persisted)
             i == FirstOf(same)
  <2>3. /\ same # {} => groups' = [groups EXCEPT ![i].occurrences = @ + 1,
                                     ![i].causes = @ \cup {LostOps(c.point, c.persisted)}]
        /\ same = {} => groups' = Append(groups, vuln)
    BY <2>2 DEF AddToGroups
  <2>4. vuln.point = c.point /\ vuln.persisted = c.persisted
    BY DEF Vulnerability
  <2>5. Minimal(checker, p, vuln)
    <3> HIDE DEF vuln
    <3> QED BY <1>1, <1>4, <2>4, AllWitnessed
  <2>6. \A h \in DOMAIN groups : Minimal(checker, p, groups[h]) /\ RealGroup(checker, p, groups[h])
    BY DEF MinimalInv, GroupsMinimal, RealInv, GroupsReal, p
  <2>7. groups \in Seq(Range(groups)) /\ same \subseteq DOMAIN groups
    BY DEF RealInv, GroupsReal
  <2> HIDE DEF vuln
  <2>8. CASE same = {}
    <3>1. \A h \in DOMAIN groups' : groups'[h] = vuln \/ (h \in DOMAIN groups /\ groups'[h] = groups[h])
      BY <2>3, <2>7, <2>8
    <3> QED BY <1>2, <1>6, <2>1, <2>5, <2>6, <3>1, MinimalStays
            DEF MinimalInv, CurrentOpen, GroupsMinimal, p, g
  <2>9. CASE same # {}
    <3>1. i \in DOMAIN groups
      <4>1. same \subseteq Nat
        BY <2>7
      <4> HIDE DEF same
      <4> QED BY <2>7, <2>9, <4>1, FirstIsOne
    <3> DEFINE cause == LostOps(c.point, c.persisted)
    <3> HIDE DEF i, same, cause
    <3>2. groups' = [groups EXCEPT ![i].occurrences = @ + 1, ![i].causes = @ \cup {cause}]
      BY <2>3, <2>9 DEF cause
    <3>3. /\ DOMAIN groups' = DOMAIN groups /\ DOMAIN groups'[i] = DOMAIN groups[i]
          /\ \A x \in DOMAIN groups[i] : x \notin {"occurrences", "causes"} => groups'[i][x] = groups[i][x]
          /\ \A h \in DOMAIN groups : h # i => groups'[h] = groups[h]
      BY <3>1, <3>2
    <3>4. SameGroup(groups'[i], groups[i])
      BY <2>6, <3>1, <3>3, CountedGroup DEF RealGroup
    <3>5. \A h \in DOMAIN groups' : Minimal(checker, p, groups'[h])
      BY <2>6, <3>1, <3>3, <3>4 DEF SameGroup, Minimal
    <3> QED BY <1>2, <1>6, <2>1, <3>5, MinimalStays DEF MinimalInv, CurrentOpen, GroupsMinimal, p, g
  <2> QED BY <2>8, <2>9
<1> QED BY <1>3, <1>5, <1>6

\* The steps before explaining have no groups, or leave them.
LEMMA NextKeepsMinimal ==
    ASSUME PoolInv, RealInv, MinimalInv, [EngineNext]_engineVars
    PROVE  MinimalInv'
<1>1. CASE CompileTrace
  <2>1. current' = NoCurrent /\ groups' = <<>>
    BY <1>1 DEF CompileTrace, RealInv, NothingYet, explaining
  <2> QED BY <2>1 DEF MinimalInv, CurrentOpen, GroupsMinimal
<1>2. ASSUME NEW w \in Workers, Thread(w) PROVE MinimalInv'
  <2>1. vars' = vars /\ current' = current /\ groups' = groups
    BY <1>2 DEF Thread, Claim, FinishJob, FailJob, explaining
  <2>2. current = NoCurrent \/ RealCurrent(checker, Program, current)
    BY DEF RealInv, CurrentReal
  <2>3. Grows(checker, checker')
    <3>1. checker' = checker \/ \E key, r : CheckerSays(key, r)
      BY <1>2 DEF Thread, Claim, FinishJob, FailJob, oracle
    <3>2. CASE checker' = checker
      BY <3>2 DEF Grows, Says
    <3> QED BY <3>1, <3>2, CheckerGrows
  <2>4. Program' = Program /\ TypeOK
    BY <2>1 DEF vars, Program, PoolInv, Compiled
  <2>5. GroupsMinimal'
    BY <2>1, <2>3, <2>4, MinimalStays DEF MinimalInv, GroupsMinimal
  <2>6. CurrentOpen'
    <3>1. \A k, s, j : Witness(checker, Program, k, s, j) => Witness(checker', Program, k, s, j)
      BY <2>3, GrowingKeeps DEF Witness
    <3> QED BY <2>1, <2>4, <3>1 DEF MinimalInv, CurrentOpen, OpenOrWitnessed
  <2> QED BY <2>5, <2>6 DEF MinimalInv
<1>3. CASE EnumeratePoint \/ Collect \/ Finish \/ Done \/ UNCHANGED engineVars
  <2>1. vars' = vars /\ checker' = checker /\ current' = current /\ groups' = groups
    BY <1>3 DEF EnumeratePoint, Collect, Finish, Done, engineVars, explaining, oracle
  <2>2. Program' = Program
    BY <2>1 DEF vars, Program
  <2> QED BY <2>1, <2>2 DEF MinimalInv, CurrentOpen, GroupsMinimal
<1> QED BY <1>1, <1>2, <1>3, NextFailureKeepsMinimal, TryAddKeepsMinimal, ClassifyKeepsMinimal
        DEF EngineNext, Sequential

\* A witness is an accepted state with less than any rejected one that
\* re-persists a lost micro-op.
LEMMA MinimalFollows == PoolInv /\ RealInv /\ MinimalInv => MinimalIfMonotone
<1> SUFFICES ASSUME PoolInv, RealInv, MinimalInv, NEW x \in DOMAIN groups,
                    NEW j \in LostMicro(groups[x].point, groups[x].persisted)
             PROVE  \E s \in SUBSET Close(Program, groups[x].point, groups[x].persisted \cup {j}) :
                       Legal(Program, groups[x].point, s) /\ Accepted(groups[x].point, s)
  BY DEF MinimalIfMonotone
<1> DEFINE k == groups[x].point
           s == groups[x].persisted
<1>1. Witness(checker, Program, k, s, j)
  BY DEF MinimalInv, GroupsMinimal, Minimal, LostMicro
<1>2. PICK t : /\ Legal(Program, k, t) /\ Says(checker, KeyOf(Program, k, t), "ok")
               /\ t \subseteq Close(Program, k, s \cup {j})
  BY <1>1 DEF Witness
<1>3. Key(k, t) = KeyOf(Program, k, t)
  BY TraceInOrder DEF PoolInv, Compiled, Key, KeyOf
<1>4. Accepted(k, t)
  BY <1>2, <1>3 DEF Accepted, Says
<1> QED BY <1>2, <1>4

\* When re-persisting any one lost micro-op of a reported state is rejected as
\* well, the checker had accepted a legal state with less: one greedy pass is
\* enough for a checker that never does that (minimize).
THEOREM GreedyIsMinimal == EngineSpec => []MinimalIfMonotone
<1>1. PoolInv /\ [EngineNext]_engineVars => PoolInv'
  BY CompileKeepsPool, EnumerateKeepsPool, ThreadKeepsPool, CollectKeepsPool, ExplainKeepsPool
     DEF EngineNext, Sequential
<1>2. PoolInv /\ PoolInv' /\ RealInv /\ [EngineNext]_engineVars => RealInv'
  BY NextKeepsReal
<1>3. PoolInv /\ RealInv /\ MinimalInv /\ [EngineNext]_engineVars => MinimalInv'
  BY NextKeepsMinimal
<1>4. EngineInit => MinimalInv
  <2>1. EngineInit => current = NoCurrent /\ groups = <<>>
    BY DEF EngineInit
  <2> QED BY <2>1 DEF MinimalInv, CurrentOpen, GroupsMinimal
<1> QED BY InitPoolInv, InitReal, MinimalFollows, <1>1, <1>2, <1>3, <1>4, PTL DEF EngineSpec

-----------------------------------------------------------------------------
(* Every failure is attributed once *)

Occurrences(gs) == [g \in DOMAIN gs |-> gs[g].occurrences]
CountedGroups(gs) == gs \in Seq(Range(gs)) /\ \A g \in DOMAIN gs : gs[g].occurrences \in Nat

\* One occurrence more, of a known group or of a new one.
Counts(gs, hs) ==
    \/ \E i \in DOMAIN gs :
          /\ DOMAIN hs = DOMAIN gs /\ hs[i].occurrences = gs[i].occurrences + 1
          /\ \A g \in DOMAIN gs : g # i => hs[g] = gs[g]
    \/ \E x : x.occurrences = 1 /\ hs = Append(gs, x)

\* It makes the sum one more.
LEMMA OneMore ==
    ASSUME NEW gs, NEW hs, CountedGroups(gs), Counts(gs, hs)
    PROVE  /\ \A g \in DOMAIN hs : hs[g].occurrences \in Nat
           /\ SumFunction(Occurrences(hs)) = SumFunction(Occurrences(gs)) + 1
<1> DEFINE f == Occurrences(gs)
           e == Occurrences(hs)
<1>0. /\ DOMAIN gs = 1..Len(gs) /\ Len(gs) \in Nat /\ IsFiniteSet(DOMAIN gs)
      /\ DOMAIN f = DOMAIN gs /\ DOMAIN e = DOMAIN hs
  <2>1. DOMAIN gs = 1..Len(gs) /\ Len(gs) \in Nat
    BY DEF CountedGroups
  <2> QED BY <2>1, FS_Interval DEF Occurrences
<1>1. \A x \in DOMAIN gs : f[x] \in Nat /\ f[x] = gs[x].occurrences
  BY DEF Occurrences, CountedGroups
<1>2. \A x \in DOMAIN hs : e[x] = hs[x].occurrences
  BY DEF Occurrences
<1> HIDE DEF f, e
<1>3. ASSUME NEW i \in DOMAIN gs, DOMAIN hs = DOMAIN gs,
             hs[i].occurrences = gs[i].occurrences + 1,
             \A g \in DOMAIN gs : g # i => hs[g] = gs[g]
      PROVE  /\ \A g \in DOMAIN hs : hs[g].occurrences \in Nat
             /\ SumFunctionOnSet(e, DOMAIN e) = SumFunctionOnSet(f, DOMAIN f) + 1
  <2>1. e[i] = f[i] + 1 /\ \A x \in (DOMAIN gs) \ {i} : e[x] = f[x]
    BY <1>1, <1>2, <1>3
  <2>2. SumFunctionOnSet(e, DOMAIN gs) = SumFunctionOnSet(f, DOMAIN gs) + 1
    <3> DEFINE S == DOMAIN gs
               n == 1
    <3>1. /\ IsFiniteSet(S) /\ i \in S /\ n \in Nat /\ \A x \in S : f[x] \in Nat
          /\ e[i] = f[i] + n /\ \A x \in S \ {i} : e[x] = f[x]
      BY <1>0, <1>1, <2>1
    <3> HIDE DEF S, n
    <3>2. SumFunctionOnSet(e, S) = SumFunctionOnSet(f, S) + n
      BY <3>1, SumGrows
    <3> QED BY <3>2 DEF S, n
  <2>3. \A g \in DOMAIN hs : hs[g].occurrences \in Nat
    BY <1>1, <1>3
  <2> QED BY <1>0, <1>3, <2>2, <2>3
<1>4. ASSUME NEW one, one.occurrences = 1, hs = Append(gs, one)
      PROVE  /\ \A g \in DOMAIN hs : hs[g].occurrences \in Nat
             /\ SumFunctionOnSet(e, DOMAIN e) = SumFunctionOnSet(f, DOMAIN f) + 1
  <2> DEFINE n == Len(gs) + 1
             S == DOMAIN gs
  <2>1. /\ DOMAIN hs = S \cup {n} /\ hs[n] = one /\ n \notin S
        /\ \A g \in S : hs[g] = gs[g]
    BY <1>0, <1>4 DEF CountedGroups
  <2>2. e[n] = 1 /\ \A x \in S : e[x] = f[x] /\ e[x] \in Nat
    BY <1>1, <1>2, <1>4, <2>1
  <2>3. \A x \in S \cup {n} : e[x] \in Nat
    BY <2>2
  <2>4. IsFiniteSet(S) /\ \A x \in S : f[x] \in Nat
    BY <1>0, <1>1
  <2>8. DOMAIN f = S /\ DOMAIN e = S \cup {n}
    BY <1>0, <2>1
  <2> HIDE DEF n, S
  <2>5. SumFunctionOnSet(e, S \cup {n}) = e[n] + SumFunctionOnSet(e, S)
    BY <2>1, <2>3, <2>4, SumAdds
  <2>6. SumFunctionOnSet(e, S) = SumFunctionOnSet(f, S)
    BY <2>2, <2>4, SumSame
  <2>7. SumFunctionOnSet(f, S) \in Nat
    BY <2>4, SumType
  <2>9. \A g \in DOMAIN hs : hs[g].occurrences \in Nat
    BY <1>2, <2>1, <2>3
  <2> QED BY <2>2, <2>5, <2>6, <2>7, <2>8, <2>9
<1>5. /\ \A g \in DOMAIN hs : hs[g].occurrences \in Nat
      /\ SumFunctionOnSet(e, DOMAIN e) = SumFunctionOnSet(f, DOMAIN f) + 1
  BY <1>3, <1>4 DEF Counts
<1> QED BY <1>5 DEF SumFunction, f, e

\* Noting an occurrence and grouping count one more.
LEMMA NotingCounts ==
    ASSUME NEW i \in DOMAIN groups, groups \in Seq(Range(groups)),
           "occurrences" \in DOMAIN groups[i], NoteOccurrence(i)
    PROVE  Counts(groups, groups')
<1>1. /\ DOMAIN groups' = DOMAIN groups
      /\ groups'[i].occurrences = groups[i].occurrences + 1
      /\ \A g \in DOMAIN groups : g # i => groups'[g] = groups[g]
  BY DEF NoteOccurrence
<1> QED BY <1>1 DEF Counts

\* Grouping a minimized failure counts it, in an old group or in one of its own.
LEMMA GroupingCounts ==
    ASSUME NEW kind, NEW k, NEW s, groups \in Seq(Range(groups)),
           \A g \in DOMAIN groups : "occurrences" \in DOMAIN groups[g] /\ "causes" \in DOMAIN groups[g],
           AddToGroups(kind, k, s)
    PROVE  Counts(groups, groups')
<1> DEFINE cause == LostOps(k, s)
           files == {OpPath(Op(o)) : o \in cause}
           same  == {g \in DOMAIN groups : groups[g].kind = kind /\ groups[g].files = files}
           vuln  == Vulnerability(kind, k, s)
<1>1. CASE same # {}
  <2> DEFINE i == FirstOf(same)
  <2>1. i \in DOMAIN groups
    <3>1. same \subseteq DOMAIN groups /\ same \subseteq Nat
      OBVIOUS
    <3> HIDE DEF same
    <3> QED BY <1>1, <3>1, FirstIsOne
  <2>2. groups' = [groups EXCEPT ![i].occurrences = @ + 1, ![i].causes = @ \cup {cause}]
    BY <1>1 DEF AddToGroups
  <2> HIDE DEF i, cause
  <2>3. /\ DOMAIN groups' = DOMAIN groups
        /\ groups'[i].occurrences = groups[i].occurrences + 1
        /\ \A g \in DOMAIN groups : g # i => groups'[g] = groups[g]
    BY <2>1, <2>2
  <2> QED BY <2>1, <2>3 DEF Counts
<1>2. CASE same = {}
  <2>1. groups' = Append(groups, vuln)
    BY <1>2 DEF AddToGroups
  <2>2. vuln.occurrences = 1
    BY DEF Vulnerability
  <2> HIDE DEF vuln
  <2> QED BY <2>1, <2>2 DEF Counts
<1> QED BY <1>1, <1>2

\* How many failures wait, among them the one being minimized.
Waiting == Len(failing) + (IF current = NoCurrent THEN 0 ELSE 1)
Attributed == SumFunction(Occurrences(groups))

\* Occurrences are numbers; nothing is attributed before explaining; then all
\* failures are attributed or wait, unless some were let go.
CountInv ==
    /\ \A g \in DOMAIN groups : groups[g].occurrences \in Nat
    /\ minimized \in Nat
    /\ phase \in {"compile", "enumerate", "pool"} => current = NoCurrent /\ groups = <<>>
    /\ phase = "explain" =>
          /\ Attributed + Waiting <= Cardinality(Failures)
          /\ minimized < Explain => Attributed + Waiting = Cardinality(Failures)

\* The invariant is the property with types.
LEMMA CountFollows == CountInv => AttributedOnce
BY DEF CountInv, AttributedOnce, Attributed, Waiting, Occurrences

\* The numbers are numbers.
LEMMA CountTypes ==
    ASSUME PoolInv, RealInv, CountInv, phase = "explain"
    PROVE  /\ CountedGroups(groups) /\ Attributed \in Nat /\ Len(failing) \in Nat
           /\ Cardinality(Failures) \in Nat
           /\ \A g \in DOMAIN groups : {"occurrences", "causes"} \subseteq DOMAIN groups[g]
<1>1. groups \in Seq(Range(groups)) /\ failing \in Seq(Failures)
  BY DEF RealInv, GroupsReal, FailingReal
<1>2. CountedGroups(groups)
  BY <1>1 DEF CountedGroups, CountInv
<1>3. Attributed \in Nat
  <2> DEFINE f == Occurrences(groups)
  <2>1. DOMAIN f = 1..Len(groups) /\ \A g \in DOMAIN f : f[g] \in Nat
    BY <1>2 DEF Occurrences, CountedGroups
  <2>2. IsFiniteSet(DOMAIN f)
    BY <1>1, <2>1, FS_Interval
  <2> HIDE DEF f
  <2>3. SumFunctionOnSet(f, DOMAIN f) \in Nat
    BY <2>1, <2>2, SumType
  <2> QED BY <2>3 DEF Attributed, SumFunction, f
<1>4. Len(failing) \in Nat
  BY <1>1
<1>5. Cardinality(Failures) \in Nat
  <2>1. Failures \subseteq 1..Len(jobs) /\ Len(jobs) \in Nat
    BY DEF Failures, PoolInv, JobsOK
  <2>2. IsFiniteSet(1..Len(jobs))
    BY <2>1, FS_Interval
  <2> QED BY <2>1, <2>2, FS_Subset, FS_CardinalityType
<1>6. \A g \in DOMAIN groups : {"occurrences", "causes"} \subseteq DOMAIN groups[g]
  BY DEF RealInv, GroupsReal, RealGroup
<1> QED BY <1>2, <1>3, <1>4, <1>5, <1>6

\* The failing states are sorted, and none is lost in that.
LEMMA CollectKeepsCount ==
    ASSUME PoolInv, RealInv, CountInv, Collect
    PROVE  CountInv'
<1>1. /\ phase = "pool" /\ current' = current /\ groups' = groups /\ minimized' = minimized
      /\ current = NoCurrent /\ groups = <<>> /\ jobs' = jobs /\ results' = results
      /\ \/ phase' = "done"
         \/ /\ phase' = "explain"
            /\ failing' = Sorted({i \in DOMAIN jobs : results[i] = "err"}, Simpler)
  BY DEF Collect, CountInv, found, pool, Fail, Return
<1>2. Attributed' = 0
  <2>1. DOMAIN Occurrences(<<>>) = {}
    BY DEF Occurrences
  <2> QED BY <1>1, <2>1, SumOfNone DEF Attributed, SumFunction
<1>3. ASSUME phase' = "explain" PROVE Waiting' = Cardinality(Failures) /\ Waiting' \in Nat
  <2>1. /\ Failures \subseteq 1..Len(jobs) /\ Len(jobs) \in Nat
        /\ failing' = Sorted(Failures, Simpler)
    BY <1>1, <1>3 DEF Failures, PoolInv, JobsOK
  <2>2. TypeOK /\ JobsReal
    BY DEF PoolInv, Compiled, RealInv
  <2>3. Len(failing') = Cardinality(Failures) /\ IsFiniteSet(Failures)
    BY <2>1, <2>2, SortedFailures
  <2>4. Cardinality(Failures) \in Nat
    BY <2>3, FS_CardinalityType
  <2> QED BY <1>1, <2>3, <2>4 DEF Waiting
<1>4. Failures' = Failures
  BY <1>1 DEF Failures
<1>5. phase' = "explain" => Attributed' + Waiting' = Cardinality(Failures')
  BY <1>2, <1>3, <1>4
<1>6. phase' = "explain" => Cardinality(Failures') \in Nat
  BY <1>3, <1>4
<1> QED BY <1>1, <1>5, <1>6 DEF CountInv

\* A failure goes to a group that is known, or waits to be minimized, or is
\* let go when no more may be.
LEMMA NextFailureKeepsCount ==
    ASSUME PoolInv, RealInv, CountInv, NextFailure
    PROVE  CountInv'
<1>1. /\ phase = "explain" /\ phase' = phase /\ jobs' = jobs /\ results' = results
      /\ current = NoCurrent /\ failing # <<>> /\ failing' = Tail(failing)
  BY DEF NextFailure, found, pool
<1>2. Failures' = Failures
  BY <1>1 DEF Failures
<1>3. failing \in Seq(Failures)
  BY <1>1 DEF RealInv, FailingReal
<1>4. Len(failing) \in Nat \ {0} /\ Len(failing') = Len(failing) - 1
  BY <1>1, <1>3
<1>5. /\ CountedGroups(groups) /\ Attributed \in Nat /\ Cardinality(Failures) \in Nat
      /\ \A g \in DOMAIN groups : {"occurrences", "causes"} \subseteq DOMAIN groups[g]
  BY <1>1, CountTypes
<1>6. Waiting = Len(failing)
  BY <1>1, <1>4 DEF Waiting
<1>7. /\ Attributed + Waiting <= Cardinality(Failures)
      /\ minimized < Explain => Attributed + Waiting = Cardinality(Failures)
  BY <1>1 DEF CountInv
<1>8. minimized \in Nat /\ Explain \in Nat
  BY EngineAssumption DEF CountInv
<1> DEFINE job   == jobs[Head(failing)]
           known == CoveringGroups(LostOps(job.point, job.persisted))
           fresh == [point |-> job.point, persisted |-> job.persisted,
                     trials |-> Trials(job.point, job.persisted)]
<1>9. /\ \/ known # {} /\ NoteOccurrence(FirstOf(known)) /\ UNCHANGED <<current, minimized>>
         \/ minimized = Explain /\ UNCHANGED <<current, minimized, groups>>
         \/ minimized # Explain /\ minimized' = minimized + 1 /\ current' = fresh /\ UNCHANGED groups
      /\ known \subseteq DOMAIN groups
  BY DEF NextFailure, CoveringGroups
<1>10. fresh # NoCurrent
  <2>1. "point" \in DOMAIN fresh /\ DOMAIN NoCurrent = {}
    BY DEF NoCurrent
  <2> QED BY <2>1
<1> HIDE DEF known, fresh
<1>11. CASE known # {} /\ NoteOccurrence(FirstOf(known)) /\ UNCHANGED <<current, minimized>>
  <2>1. FirstOf(known) \in DOMAIN groups
    <3>1. known \subseteq Nat
      BY <1>5, <1>9 DEF CountedGroups
    <3> QED BY <1>9, <1>11, <3>1, FirstIsOne
  <2>2. Counts(groups, groups')
    <3> DEFINE i == FirstOf(known)
    <3>1. i \in DOMAIN groups /\ "occurrences" \in DOMAIN groups[i] /\ NoteOccurrence(i)
          /\ groups \in Seq(Range(groups))
      BY <1>5, <1>11, <2>1 DEF CountedGroups
    <3> HIDE DEF i
    <3> QED BY <3>1, NotingCounts
  <2>3. /\ \A g \in DOMAIN groups' : groups'[g].occurrences \in Nat
        /\ Attributed' = Attributed + 1
    BY <1>5, <2>2, OneMore DEF Attributed
  <2>4. Waiting' = Waiting - 1
    BY <1>1, <1>4, <1>6, <1>11 DEF Waiting
  <2>5. Attributed' + Waiting' = Attributed + Waiting
    BY <1>4, <1>5, <1>6, <2>3, <2>4
  <2> QED BY <1>1, <1>2, <1>7, <1>8, <1>11, <2>3, <2>5 DEF CountInv
<1>12. CASE minimized = Explain /\ UNCHANGED <<current, minimized, groups>>
  <2>1. Waiting' = Waiting - 1 /\ Attributed' = Attributed
    BY <1>1, <1>4, <1>6, <1>12 DEF Waiting, Attributed
  <2>2. Attributed' + Waiting' <= Cardinality(Failures')
    BY <1>2, <1>4, <1>5, <1>6, <1>7, <2>1
  <2>3. ~(minimized' < Explain)
    BY <1>8, <1>12
  <2> QED BY <1>1, <1>8, <1>12, <2>2, <2>3 DEF CountInv
<1>13. CASE minimized # Explain /\ minimized' = minimized + 1 /\ current' = fresh /\ UNCHANGED groups
  <2>1. Waiting' = Waiting /\ Attributed' = Attributed
    BY <1>4, <1>6, <1>10, <1>13 DEF Waiting, Attributed
  <2>2. minimized' < Explain => minimized < Explain
    BY <1>8, <1>13
  <2>3. minimized' \in Nat
    BY <1>8, <1>13
  <2> QED BY <1>1, <1>2, <1>7, <1>13, <2>1, <2>2, <2>3 DEF CountInv
<1> QED BY <1>9, <1>11, <1>12, <1>13

\* A failure that was minimized goes to a group.
LEMMA ClassifyKeepsCount ==
    ASSUME PoolInv, RealInv, CountInv, Classify
    PROVE  CountInv'
<1> DEFINE c == current
<1>1. /\ phase = "explain" /\ jobs' = jobs /\ results' = results /\ failing' = failing
      /\ minimized' = minimized /\ c # NoCurrent
      /\ \/ /\ phase' = "done" /\ UNCHANGED <<current, groups>>
         \/ /\ phase' = phase /\ current' = NoCurrent
            /\ \E kind : AddToGroups(kind, c.point, c.persisted)
  BY DEF Classify, found, pool, VerdictFails, Fail, Return
<1>2. Failures' = Failures
  BY <1>1 DEF Failures
<1>3. CASE phase' = "done" /\ UNCHANGED <<current, groups>>
  BY <1>1, <1>3 DEF CountInv
<1>4. CASE /\ phase' = phase /\ current' = NoCurrent
           /\ \E kind : AddToGroups(kind, c.point, c.persisted)
  <2>1. PICK kind : AddToGroups(kind, c.point, c.persisted)
    BY <1>4
  <2>2. /\ CountedGroups(groups) /\ Attributed \in Nat /\ Len(failing) \in Nat
        /\ \A g \in DOMAIN groups : {"occurrences", "causes"} \subseteq DOMAIN groups[g]
    BY <1>1, CountTypes
  <2>3. Counts(groups, groups')
    <3>1. groups \in Seq(Range(groups))
          /\ \A g \in DOMAIN groups : "occurrences" \in DOMAIN groups[g] /\ "causes" \in DOMAIN groups[g]
      BY <2>2 DEF CountedGroups
    <3> QED BY <2>1, <3>1, GroupingCounts
  <2>4. /\ \A g \in DOMAIN groups' : groups'[g].occurrences \in Nat
        /\ Attributed' = Attributed + 1
    BY <2>2, <2>3, OneMore DEF Attributed
  <2>5. Waiting = Len(failing) + 1 /\ Waiting' = Len(failing)
    BY <1>1, <1>4, <2>2 DEF Waiting
  <2>6. Attributed' + Waiting' = Attributed + Waiting
    BY <2>2, <2>4, <2>5
  <2> QED BY <1>1, <1>2, <1>4, <2>4, <2>6 DEF CountInv
<1> QED BY <1>1, <1>3, <1>4

\* The other steps attribute nothing.
LEMMA NextKeepsCount ==
    ASSUME PoolInv, RealInv, CountInv, [EngineNext]_engineVars
    PROVE  CountInv'
<1>1. CASE CompileTrace \/ EnumeratePoint \/ (\E w \in Workers : Thread(w))
  <2>1. /\ UNCHANGED explaining /\ phase \in {"compile", "enumerate", "pool"}
        /\ phase' \in {"compile", "enumerate", "pool", "done"}
    BY <1>1 DEF CompileTrace, EnumeratePoint, Thread, Claim, FinishJob, FailJob, Fail, Return
  <2> QED BY <2>1 DEF CountInv, explaining
<1>2. CASE TryAdd
  <2>1. /\ phase = "explain" /\ current # NoCurrent /\ UNCHANGED <<failing, minimized, groups>>
        /\ jobs' = jobs /\ results' = results /\ phase' \in {"explain", "done"}
    BY <1>2 DEF TryAdd, found, pool, VerdictFails, Fail, Return
  <2>2. phase' = "explain" => current' # NoCurrent
    <3>1. DOMAIN NoCurrent = {}
      BY DEF NoCurrent
    <3>2. DOMAIN current = {"point", "persisted", "trials"}
      BY <2>1 DEF RealInv, CurrentReal, RealCurrent
    <3>3. current' = current \/ DOMAIN current' = DOMAIN current
      BY <1>2 DEF TryAdd
    <3> QED BY <2>1, <3>1, <3>2, <3>3
  <2>3. Failures' = Failures
    BY <2>1 DEF Failures
  <2>4. phase' = "explain" => Waiting' = Waiting /\ Attributed' = Attributed
    BY <2>1, <2>2 DEF Waiting, Attributed
  <2> QED BY <2>1, <2>3, <2>4 DEF CountInv
<1>3. CASE Finish \/ Done \/ UNCHANGED engineVars
  <2>1. /\ UNCHANGED explaining /\ jobs' = jobs /\ results' = results
        /\ phase' = phase \/ phase' = "done"
    BY <1>3 DEF Finish, Done, engineVars, found, pool, Return
  <2>2. Failures' = Failures /\ Waiting' = Waiting /\ Attributed' = Attributed
    BY <2>1 DEF Failures, Waiting, Attributed, explaining
  <2> QED BY <2>1, <2>2 DEF CountInv, explaining
<1> QED BY <1>1, <1>2, <1>3, CollectKeepsCount, NextFailureKeepsCount, ClassifyKeepsCount
        DEF EngineNext, Sequential

\* Each failing state is attributed to exactly one vulnerability, or waits, or
\* is let go by the bound on minimizations, for every trace, interleaving and
\* checker (Engine::run, occurrences).
THEOREM FailuresAttributedOnce == EngineSpec => []AttributedOnce
<1>1. PoolInv /\ [EngineNext]_engineVars => PoolInv'
  BY CompileKeepsPool, EnumerateKeepsPool, ThreadKeepsPool, CollectKeepsPool, ExplainKeepsPool
     DEF EngineNext, Sequential
<1>2. PoolInv /\ PoolInv' /\ RealInv /\ [EngineNext]_engineVars => RealInv'
  BY NextKeepsReal
<1>3. PoolInv /\ RealInv /\ CountInv /\ [EngineNext]_engineVars => CountInv'
  BY NextKeepsCount
<1>4. EngineInit => CountInv
  BY DEF EngineInit, CountInv
<1> QED BY InitPoolInv, InitReal, CountFollows, <1>1, <1>2, <1>3, <1>4, PTL DEF EngineSpec

-----------------------------------------------------------------------------
(* A hint's fsync covers what was lost *)

\* An fsync hint names the op of the first lost micro-op, and for a path the
\* one that micro-op is to be flushed with.
HintOK(p, tr, g) ==
    LET lost  == Before(p, g.point) \ g.persisted
        first == FirstOf(lost)
        o     == p.micro[first].op
    IN  g.hint.fix = "fsync" =>
            lost # {} /\ g.hint.op = o /\ g.hint.path = FlushPath(tr[o + 1], p.micro[first].m)

GroupsHinted == \A g \in DOMAIN groups : HintOK(Program, trace, groups[g])

\* After its op, every micro-op's path leads to what flushes it.
AllFlushable == \A j \in DOMAIN micro : Flushable(Program, j, trace[micro[j].op + 1])

HintInv == Treelike(v) /\ AllFlushable /\ GroupsHinted

\* What hint answers is such a hint.
LEMMA HintIs ==
    ASSUME TypeOK, NEW kind, NEW k, NEW s
    PROVE  HintOK(Program, trace, Vulnerability(kind, k, s))
<1> DEFINE lost  == LostMicro(k, s)
           first == FirstOf(lost)
           o     == micro[first].op
           m     == micro[first].m
           h     == Hint(kind, k, s)
           g     == Vulnerability(kind, k, s)
<1>1. g.point = k /\ g.persisted = s /\ g.hint = h
  BY DEF Vulnerability
<1>2. Program.micro = micro
  BY TraceInOrder
<1>3. h.fix = "fsync" => lost # {} /\ h.op = o /\ h.path = FlushPath(Op(o), m)
  <2>1. CASE lost = {}
    BY <2>1 DEF Hint
  <2>2. CASE lost # {} /\ kind = "TornWrite"
    BY <2>2 DEF Hint
  <2>3. CASE lost # {} /\ kind # "TornWrite" /\ ~IsData(m)
    <3>1. h = [fix |-> "fsync", path |-> Parent(ChangedPath(Op(o))), op |-> o]
      BY <2>3 DEF Hint
    <3>2. FlushPath(Op(o), m) = Parent(ChangedPath(Op(o)))
      BY <2>3 DEF FlushPath, ChangedPath
    <3> HIDE DEF h, o, m, lost
    <3> QED BY <2>3, <3>1, <3>2
  <2>4. CASE lost # {} /\ kind # "TornWrite" /\ IsData(m)
    <3>1. \/ h = [fix |-> "fsync", path |-> OpPath(Op(o)), op |-> o]
          \/ h.fix = "fsync before"
      BY <2>4 DEF Hint
    <3>2. FlushPath(Op(o), m) = OpPath(Op(o))
      BY <2>4 DEF FlushPath, OpPath
    <3> HIDE DEF h, o, m, lost
    <3> QED BY <2>4, <3>1, <3>2
  <2> QED BY <2>1, <2>2, <2>3, <2>4
<1>4. lost = Before(Program, g.point) \ g.persisted
  BY <1>1 DEF LostMicro
<1> HIDE DEF lost, h, g
<1> QED BY <1>1, <1>2, <1>3, <1>4 DEF HintOK, Op, g

\* The group h of hs is that of gs, counted again.
OldGroup(hs, gs, h) ==
    /\ h \in DOMAIN gs /\ hs[h].point = gs[h].point /\ hs[h].persisted = gs[h].persisted
    /\ hs[h].hint = gs[h].hint

\* A group is an old one or the vulnerability that is added.
LEMMA AddedOrOld ==
    ASSUME RealInv, NEW kind, NEW k, NEW s, AddToGroups(kind, k, s)
    PROVE  \A h \in DOMAIN groups' :
              OldGroup(groups', groups, h) \/ groups'[h] = Vulnerability(kind, k, s)
<1> DEFINE cause == LostOps(k, s)
           files == {OpPath(Op(o)) : o \in cause}
           same  == {g \in DOMAIN groups : groups[g].kind = kind /\ groups[g].files = files}
           vuln  == Vulnerability(kind, k, s)
<1>1. groups \in Seq(Range(groups)) /\ \A g \in DOMAIN groups : RealGroup(checker, Program, groups[g])
  BY DEF RealInv, GroupsReal
<1>2. CASE same # {}
  <2> DEFINE i == FirstOf(same)
  <2>1. i \in DOMAIN groups
    <3>1. same \subseteq DOMAIN groups /\ same \subseteq Nat
      BY <1>1
    <3> HIDE DEF same
    <3> QED BY <1>2, <3>1, FirstIsOne
  <2>2. groups' = [groups EXCEPT ![i].occurrences = @ + 1, ![i].causes = @ \cup {cause}]
    BY <1>2 DEF AddToGroups
  <2> HIDE DEF i, cause
  <2>3. /\ DOMAIN groups' = DOMAIN groups
        /\ \A x \in DOMAIN groups[i] : x \notin {"occurrences", "causes"} => groups'[i][x] = groups[i][x]
        /\ \A h \in DOMAIN groups : h # i => groups'[h] = groups[h]
    BY <2>1, <2>2
  <2>4. {"point", "persisted", "hint"} \subseteq DOMAIN groups[i]
    BY <1>1, <2>1 DEF RealGroup
  <2>5. /\ groups'[i]["point"] = groups[i]["point"] /\ groups'[i]["persisted"] = groups[i]["persisted"]
        /\ groups'[i]["hint"] = groups[i]["hint"]
    BY <2>3, <2>4
  <2> QED BY <2>3, <2>5 DEF OldGroup
<1>3. CASE same = {}
  <2>1. groups' = Append(groups, vuln)
    BY <1>3 DEF AddToGroups
  <2> HIDE DEF vuln
  <2>2. \A h \in DOMAIN groups' : groups'[h] = vuln \/ (h \in DOMAIN groups /\ groups'[h] = groups[h])
    BY <1>1, <2>1
  <2> QED BY <2>2 DEF OldGroup, vuln
<1> QED BY <1>2, <1>3

\* Noting an occurrence adds no group.
LEMMA NotedIsOld ==
    ASSUME RealInv, NEW i \in DOMAIN groups, NoteOccurrence(i)
    PROVE  \A h \in DOMAIN groups' : OldGroup(groups', groups, h)
<1>1. groups' = [groups EXCEPT ![i].occurrences = @ + 1]
  BY DEF NoteOccurrence
<1>2. RealGroup(checker, Program, groups[i])
  BY DEF RealInv, GroupsReal
<1>3. /\ DOMAIN groups' = DOMAIN groups
      /\ \A x \in DOMAIN groups[i] : x # "occurrences" => groups'[i][x] = groups[i][x]
      /\ \A h \in DOMAIN groups : h # i => groups'[h] = groups[h]
  BY <1>1
<1>4. {"point", "persisted", "hint"} \subseteq DOMAIN groups[i]
  BY <1>2 DEF RealGroup
<1>5. /\ groups'[i]["point"] = groups[i]["point"] /\ groups'[i]["persisted"] = groups[i]["persisted"]
      /\ groups'[i]["hint"] = groups[i]["hint"]
  BY <1>3, <1>4
<1> QED BY <1>3, <1>5 DEF OldGroup

\* Once the trace is compiled, what the program is and what is flushable stays.
LEMMA LaterHints ==
    ASSUME PoolInv, HintInv, vars' = vars, trace' = trace,
           \A h \in DOMAIN groups' :
              OldGroup(groups', groups, h) \/ HintOK(Program, trace, groups'[h])
    PROVE  HintInv'
<1>1. Program' = Program /\ v' = v /\ micro' = micro
  BY DEF vars, Program
<1>2. Treelike(v)' /\ AllFlushable'
  BY <1>1 DEF HintInv, AllFlushable
<1>3. \A h \in DOMAIN groups' : HintOK(Program, trace, groups'[h])
  BY DEF HintInv, GroupsHinted, OldGroup, HintOK
<1>4. GroupsHinted'
  BY <1>1, <1>3 DEF GroupsHinted
<1> QED BY <1>2, <1>4 DEF HintInv

\* The engine does nothing to the program but compile the trace.
LEMMA EngineCompiles ==
    ASSUME PoolInv, [EngineNext]_engineVars
    PROVE  [Next]_vars /\ trace' = trace
<1>1. CASE CompileTrace
  <2>1. CASE OpIndex < Len(trace) /\ CompileOp(trace[OpIndex + 1])
    <3>1. OpIndex \in Nat
      BY TablesType DEF PoolInv, Compiled
    <3>2. trace[OpIndex + 1] \in Ops
      BY <2>1, <3>1 DEF PoolInv, Compiled
    <3> QED BY <1>1, <2>1, <3>2 DEF CompileTrace, Next
  <2>2. CASE UNCHANGED vars
    BY <1>1, <2>2 DEF CompileTrace
  <2> QED BY <1>1, <2>1, <2>2 DEF CompileTrace
<1>2. CASE EnumeratePoint \/ Collect \/ NextFailure \/ TryAdd \/ Classify \/ Finish \/ Done
           \/ UNCHANGED engineVars
  BY <1>2 DEF EnumeratePoint, Collect, NextFailure, TryAdd, Classify, Finish, Done, engineVars
<1>3. ASSUME NEW w \in Workers, Thread(w) PROVE vars' = vars /\ trace' = trace
  BY <1>3 DEF Thread, Claim, FinishJob, FailJob
<1> QED BY <1>1, <1>2, <1>3 DEF EngineNext, Sequential

\* Compiling one more op keeps every path and adds those of that op.
LEMMA CompileKeepsHints ==
    ASSUME RootStays, PoolInv, RealInv, ImageOK, Replayed, Replayed', HintInv, CompileTrace
    PROVE  HintInv'
<1>1. groups' = <<>> /\ trace' = trace
  BY DEF CompileTrace, RealInv, NothingYet, explaining
<1>2. GroupsHinted'
  BY <1>1 DEF GroupsHinted
<1>3. CASE OpIndex < Len(trace) /\ CompileOp(trace[OpIndex + 1])
  <2>1. OpIndex \in Nat
    BY TablesType DEF PoolInv, Compiled
  <2>2. trace[OpIndex + 1] \in Ops
    BY <1>3, <2>1 DEF PoolInv, Compiled
  <2>3. PICK op \in Ops : op = trace[OpIndex + 1]
    BY <2>2
  <2>4. CompileOp(op)
    BY <1>3, <2>3
  <2>5. TypeOK /\ PendingOK /\ Treelike(v)
    BY DEF PoolInv, Compiled, HintInv
  <2>6. Treelike(v') /\ StepFlushable(op)
    BY <2>4, <2>5, OpFlushable
  <2>7. ASSUME NEW j \in DOMAIN micro' PROVE Flushable(Program', j, trace[micro'[j].op + 1])
    <3>1. CASE j \in DOMAIN micro
      BY <2>6, <3>1 DEF StepFlushable, HintInv, AllFlushable
    <3>2. CASE j \notin DOMAIN micro
      BY <2>3, <2>6, <3>2 DEF StepFlushable
    <3> QED BY <3>1, <3>2
  <2>8. AllFlushable'
    BY <1>1, <2>7 DEF AllFlushable
  <2> QED BY <1>2, <2>6, <2>8 DEF HintInv
<1>4. CASE UNCHANGED vars
  BY <1>1, <1>4, LaterHints
<1> QED BY <1>3, <1>4 DEF CompileTrace

\* Every step of the engine keeps the hints.
LEMMA NextKeepsHints ==
    ASSUME RootStays, PoolInv, RealInv, ImageOK, Replayed, Replayed', HintInv,
           [EngineNext]_engineVars
    PROVE  HintInv'
<1>1. CASE CompileTrace
  BY <1>1, CompileKeepsHints
<1>2. CASE vars' = vars /\ trace' = trace /\ groups' = groups
  <2>1. \A h \in DOMAIN groups' : OldGroup(groups', groups, h)
    BY <1>2 DEF OldGroup
  <2> QED BY <1>2, <2>1, LaterHints
<1>3. ASSUME NEW w \in Workers, Thread(w) PROVE HintInv'
  <2>1. vars' = vars /\ trace' = trace /\ groups' = groups
    BY <1>3 DEF Thread, Claim, FinishJob, FailJob, explaining
  <2> QED BY <1>2, <2>1
<1>4. CASE EnumeratePoint \/ Collect \/ TryAdd \/ Finish \/ Done \/ UNCHANGED engineVars
  <2>1. vars' = vars /\ trace' = trace /\ groups' = groups
    BY <1>4 DEF EnumeratePoint, Collect, TryAdd, Finish, Done, engineVars, explaining
  <2> QED BY <1>2, <2>1
<1>5. CASE NextFailure
  <2> DEFINE job == jobs[Head(failing)]
             known == CoveringGroups(LostOps(job.point, job.persisted))
  <2>1. vars' = vars /\ trace' = trace
        /\ (groups' = groups \/ (known # {} /\ NoteOccurrence(FirstOf(known))))
    BY <1>5 DEF NextFailure
  <2>2. known \subseteq DOMAIN groups /\ groups \in Seq(Range(groups))
    BY DEF CoveringGroups, RealInv, GroupsReal
  <2> HIDE DEF known
  <2>3. CASE known # {} /\ NoteOccurrence(FirstOf(known))
    <3>1. known \subseteq Nat
      BY <2>2
    <3>2. FirstOf(known) \in DOMAIN groups
      BY <2>2, <2>3, <3>1, FirstIsOne
    <3> DEFINE i == FirstOf(known)
    <3>3. i \in DOMAIN groups /\ NoteOccurrence(i)
      BY <2>3, <3>2
    <3> HIDE DEF i
    <3>4. \A h \in DOMAIN groups' : OldGroup(groups', groups, h)
      BY <3>3, NotedIsOld
    <3> QED BY <2>1, <3>4, LaterHints
  <2> QED BY <1>2, <2>1, <2>3
<1>6. CASE Classify
  <2> DEFINE k == current.point
             s == current.persisted
  <2>1. vars' = vars /\ trace' = trace
        /\ (groups' = groups \/ \E kind : AddToGroups(kind, k, s))
    BY <1>6 DEF Classify
  <2> HIDE DEF k, s
  <2>2. CASE \E kind : AddToGroups(kind, k, s)
    <3>1. PICK kind : AddToGroups(kind, k, s)
      BY <2>2
    <3>2. \A h \in DOMAIN groups' :
             OldGroup(groups', groups, h) \/ groups'[h] = Vulnerability(kind, k, s)
      BY <3>1, AddedOrOld
    <3>3. HintOK(Program, trace, Vulnerability(kind, k, s))
      BY HintIs DEF PoolInv, Compiled
    <3>4. \A h \in DOMAIN groups' :
             OldGroup(groups', groups, h) \/ HintOK(Program, trace, groups'[h])
      BY <3>2, <3>3
    <3> QED BY <2>1, <3>4, LaterHints
  <2> QED BY <1>2, <2>1, <2>2
<1> QED BY <1>1, <1>3, <1>4, <1>5, <1>6 DEF EngineNext, Sequential

\* What is lost first was issued, and its path leads to what flushes it.
LEMMA HintsFollow == PoolInv /\ RealInv /\ HintInv => HintCovers
<1> SUFFICES ASSUME PoolInv, RealInv, HintInv, NEW g \in DOMAIN groups,
                    groups[g].hint.fix = "fsync"
             PROVE  Lookup(CrashFs(Program, 1..op_end[groups[g].hint.op + 2]), groups[g].hint.path)
                      = FlushedWith(micro[FirstOf(LostMicro(groups[g].point, groups[g].persisted))].m)
  BY DEF HintCovers
<1> DEFINE r     == groups[g]
           k     == r.point
           s     == r.persisted
           lost  == Before(Program, k) \ s
           first == FirstOf(lost)
           o     == micro[first].op
<1>1. TypeOK
  BY DEF PoolInv, Compiled
<1>2. /\ InOrder(Program) /\ Points(Program) = 0..(Len(op_end) - 1)
      /\ Program.micro = micro /\ Program.op_end = op_end
  BY <1>1, TraceInOrder DEF Program
<1>3. lost # {} /\ r.hint.op = o /\ r.hint.path = FlushPath(trace[o + 1], micro[first].m)
  <2>1. HintOK(Program, trace, r)
    BY DEF HintInv, GroupsHinted
  <2> QED BY <1>2, <2>1 DEF HintOK
<1>4. k \in Points(Program)
  BY DEF RealInv, GroupsReal, RealGroup, Rejects
<1> HIDE DEF k, s
<1>5. first \in DOMAIN micro
  <2>1. Before(Program, k) = 1..op_end[k + 1] /\ op_end[k + 1] \in Nat
    BY <1>2, <1>4, PointListed
  <2>2. op_end[k + 1] <= Len(micro) /\ DOMAIN micro = 1..Len(micro) /\ Len(micro) \in Nat
    <3>1. k + 1 \in 1..Len(op_end)
      BY <1>1, <1>2, <1>4, TablesType
    <3> QED BY <1>1, <3>1, TablesType DEF TypeOK
  <2>3. lost \subseteq Nat /\ lost \subseteq DOMAIN micro
    BY <2>1, <2>2
  <2> HIDE DEF lost
  <2>4. first \in lost
    BY <1>3, <2>3, FirstIsOne
  <2> QED BY <2>3, <2>4
<1> HIDE DEF first, lost
<1>6. Flushable(Program, first, trace[o + 1])
  BY <1>5 DEF HintInv, AllFlushable
<1>7. Lookup(CrashFs(Program, 1..op_end[o + 2]), FlushPath(trace[o + 1], micro[first].m))
        = FlushedWith(micro[first].m)
  BY <1>2, <1>6 DEF Flushable, LeadsTo
<1>8. LostMicro(r.point, r.persisted) = lost
  BY DEF LostMicro, lost, k, s
<1> HIDE DEF o, r
<1>9. first = FirstOf(LostMicro(r.point, r.persisted))
  BY <1>8 DEF first
<1> QED BY <1>3, <1>7, <1>9 DEF r

\* When the root stays, the fsync of every hint covers the first micro-op that
\* was lost: its path leads there right after the op the hint names, for every
\* trace, interleaving and checker (hint).
THEOREM HintsCover ==
    ASSUME RootStays
    PROVE  EngineSpec => []HintCovers
<1>1. PoolInv /\ [EngineNext]_engineVars => PoolInv'
  BY CompileKeepsPool, EnumerateKeepsPool, ThreadKeepsPool, CollectKeepsPool, ExplainKeepsPool
     DEF EngineNext, Sequential
<1>2. PoolInv /\ PoolInv' /\ RealInv /\ [EngineNext]_engineVars => RealInv'
  BY NextKeepsReal
<1>3. PoolInv /\ ImageOK /\ [EngineNext]_engineVars => ImageOK'
  BY EngineCompiles, NextKeepsImage DEF PoolInv, Compiled
<1>4. PoolInv /\ ImageOK => Replayed
  BY NowReplayed DEF PoolInv, Compiled
<1>5. PoolInv /\ RealInv /\ ImageOK /\ Replayed /\ Replayed' /\ HintInv
        /\ [EngineNext]_engineVars => HintInv'
  BY NextKeepsHints
<1>6. EngineInit => ImageOK /\ HintInv
  <2> SUFFICES ASSUME EngineInit PROVE ImageOK /\ HintInv
    OBVIOUS
  <2>1. Init /\ micro = <<>> /\ groups = <<>>
    BY DEF EngineInit, Init
  <2>2. AllFlushable /\ GroupsHinted
    BY <2>1 DEF AllFlushable, GroupsHinted
  <2> QED BY <2>1, <2>2, InitImage, InitIsTree DEF HintInv
<1> QED BY InitPoolInv, InitReal, HintsFollow, <1>1, <1>2, <1>3, <1>4, <1>5, <1>6, PTL
        DEF EngineSpec
=============================================================================
