------------------------------- MODULE Engine -------------------------------
(***************************************************************************)
(* The checking loop (check.rs, fn check and impl Engine): compile the     *)
(* trace, enumerate and dedupe its crash states, run the checker on each   *)
(* from a pool of threads, then minimize the failures one after another    *)
(* and group them by cause.                                                *)
(*                                                                         *)
(* The checker is the user's: its verdict on a directory and the marks     *)
(* acknowledged so far is chosen when it first runs on them and is the     *)
(* same ever after.  The code hashes the directory into a 64-bit key; the  *)
(* key here is the directory itself, so hash collisions are left out.      *)
(***************************************************************************)
EXTENDS Compile, Crash

CONSTANTS
    Traces,             \* the traces to check, sequences over Ops
    Workers,            \* the checker threads (Options::jobs)
    ExhaustiveLimit,    \* Search::exhaustive_limit
    Samples,            \* Search::samples
    MaxStates,          \* Options::max_states
    Explain             \* Options::explain

ASSUME EngineAssumption ==
    /\ Traces \subseteq Seq(Ops)
    /\ IsFiniteSet(Workers) /\ Workers # {}
    /\ {ExhaustiveLimit, Samples, MaxStates, Explain} \subseteq Nat

VARIABLES
    trace,      \* the trace being checked
    phase,      \* compile, enumerate, pool, explain or done
    point,      \* the next crash point to enumerate
    jobs,       \* the unique crash states: [point, persisted, key]
    truncated,  \* max_states cut the enumeration short
    next,       \* the shared counter the threads claim jobs from
    worker,     \* per thread: Claiming, Stopped, or the job it runs
    results,    \* per job: None or the checker's verdict
    io_error,   \* some thread could not materialize its state
    checker,    \* the verdicts the checker has given, by key
    runs,       \* how often the checker ran on each key
    cache,      \* the verdicts explaining may reuse, by key
    failing,    \* the failing jobs still to be explained
    current,    \* the failure being minimized, or NoCurrent
    minimized,  \* how many failures were minimized so far
    groups,     \* the vulnerabilities found, with their causes
    report      \* what check returns, or NoReport

found == <<jobs, truncated>>
pool == <<next, worker, results, io_error>>
oracle == <<checker, runs, cache>>
explaining == <<failing, current, minimized, groups>>
engineVars == <<vars, trace, phase, point, found, pool, oracle, explaining, report>>

None == "none"
Claiming == 0
Stopped == MaxStates + 1    \* no job has this index
NoCurrent == <<>>
NoReport == <<>>

EmptyFn == [k \in {} |-> None]

\* A map after an insert.
With(f, key, x) == [k \in DOMAIN f \cup {key} |-> IF k = key THEN x ELSE f[k]]

EngineInit ==
    /\ Init
    /\ trace \in Traces
    /\ phase = "compile"
    /\ point = 0
    /\ jobs = <<>> /\ truncated = FALSE
    /\ next = 0 /\ results = <<>> /\ io_error = FALSE
    /\ worker = [w \in Workers |-> Claiming]
    /\ checker = EmptyFn /\ runs = EmptyFn /\ cache = EmptyFn
    /\ failing = <<>> /\ current = NoCurrent /\ minimized = 0 /\ groups = <<>>
    /\ report = NoReport

Return(r) == phase' = "done" /\ report' = r
Fail(why) == Return([ok |-> FALSE, why |-> why])

-----------------------------------------------------------------------------
(* Compiling, and enumerating the unique crash states *)

\* compile(trace, ..)?: op after op, and an error ends the check.
CompileTrace ==
    /\ phase = "compile"
    /\ \/ /\ OpIndex < Len(trace) /\ ~failed
          /\ CompileOp(trace[OpIndex + 1])
          /\ UNCHANGED <<phase, report>>
       \/ /\ failed
          /\ Fail("model")
          /\ UNCHANGED vars
       \/ /\ OpIndex = Len(trace) /\ ~failed
          /\ phase' = "enumerate"
          /\ UNCHANGED <<vars, report>>
    /\ UNCHANGED <<trace, point, found, pool, oracle, explaining>>

\* Faulty variant: states with equal content are one, whatever was acknowledged.
KeyWithoutMarks(k, persisted) == <<Materialize(Program, persisted), 0>>

Key(k, persisted) == <<Materialize(Program, persisted), marks_before[k + 1]>>
Keys(js) == {js[i].key : i \in DOMAIN js}

\* A crash state to check.
Job(k, persisted) == [point |-> k, persisted |-> persisted, key |-> Key(k, persisted)]

\* The candidates of one crash point, closed, in order: a key seen before is
\* dropped, and the first new key beyond max_states stops the enumeration.
NewJobs(k, candidates) ==
    LET job   == [i \in DOMAIN candidates |->
                    Job(k, Close(Program, k, candidates[i]))]
        fresh == {i \in DOMAIN job : /\ job[i].key \notin Keys(jobs)
                                     /\ \A h \in 1..(i-1) : job[h].key # job[i].key}
        order == Sorted(fresh, <)
    IN  [n \in DOMAIN order |-> job[order[n]]]

EnumeratePoint ==
    /\ phase = "enumerate"
    /\ \E sampled \in [1..Samples -> SUBSET InFlight(Program, point)] :
         LET new  == NewJobs(point, Candidates(Program, point, ExhaustiveLimit, sampled))
             room == MaxStates - Len(jobs)
         IN  /\ jobs' = jobs \o SubSeq(new, 1, IF Len(new) > room THEN room ELSE Len(new))
             /\ truncated' = (Len(new) > room)
    /\ point' = point + 1
    /\ phase' = IF truncated' \/ point = Len(trace) THEN "pool" ELSE "enumerate"
    /\ results' = [i \in DOMAIN jobs' |-> None]
    /\ UNCHANGED <<vars, trace, next, worker, io_error, oracle, explaining, report>>

-----------------------------------------------------------------------------
(* Checking every unique state, in parallel *)

\* The checker (external): any verdict the first time, the same one later.
CheckerSays(key, r) ==
    /\ r \in (IF key \in DOMAIN checker THEN {checker[key]} ELSE {"ok", "err"})
    /\ checker' = With(checker, key, r)
    /\ runs' = With(runs, key, IF key \in DOMAIN runs THEN runs[key] + 1 ELSE 1)

\* Faulty variant: a thread that finds no job left tries again.
ClaimAgain(w) ==
    /\ phase = "pool" /\ worker[w] = Claiming
    /\ next' = IF next < Len(jobs) THEN next + 1 ELSE next
    /\ worker' = [worker EXCEPT ![w] = IF next < Len(jobs) THEN next + 1 ELSE Claiming]
    /\ UNCHANGED <<vars, trace, phase, point, found, results, io_error, oracle, explaining, report>>

\* next.fetch_add(1): a claim past the last job ends the thread.
Claim(w) ==
    /\ phase = "pool" /\ worker[w] = Claiming
    /\ next' = next + 1
    /\ worker' = [worker EXCEPT ![w] = IF next < Len(jobs) THEN next + 1 ELSE Stopped]
    /\ UNCHANGED <<vars, trace, phase, point, found, results, io_error, oracle, explaining, report>>

\* run_tree succeeded: the checker ran on the materialized state.
FinishJob(w) ==
    /\ phase = "pool" /\ worker[w] \in DOMAIN jobs
    /\ \E r \in {"ok", "err"} :
          /\ CheckerSays(jobs[worker[w]].key, r)
          /\ results' = [results EXCEPT ![worker[w]] = r]
    /\ worker' = [worker EXCEPT ![w] = Claiming]
    /\ UNCHANGED <<vars, trace, phase, point, found, next, io_error, cache, explaining, report>>

\* Faulty variant: the thread ends and nobody knows why.
FailJobSilently(w) ==
    /\ phase = "pool" /\ worker[w] \in DOMAIN jobs
    /\ worker' = [worker EXCEPT ![w] = Stopped]
    /\ UNCHANGED <<vars, trace, phase, point, found, next, results, io_error, oracle, explaining, report>>

\* run_tree failed with an I/O error: it is recorded and the thread ends.
FailJob(w) ==
    /\ phase = "pool" /\ worker[w] \in DOMAIN jobs
    /\ io_error' = TRUE
    /\ worker' = [worker EXCEPT ![w] = Stopped]
    /\ UNCHANGED <<vars, trace, phase, point, found, next, results, oracle, explaining, report>>

\* How many micro-ops a job's state lost.
LostCount(i) == Cardinality(Before(Program, jobs[i].point) \ jobs[i].persisted)

\* The order of failing.sort_by_key, which keeps equal keys in job order.
Simpler(i, j) ==
    LET a == <<jobs[i].point, LostCount(i), i>>
        b == <<jobs[j].point, LostCount(j), j>>
    IN  \E k \in 1..3 : a[k] < b[k] /\ \A l \in 1..(k-1) : a[l] = b[l]

\* The scope ends when every thread has; then the results are collected.
Collect ==
    /\ phase = "pool" /\ \A w \in Workers : worker[w] = Stopped
    /\ \/ io_error /\ Fail("io") /\ UNCHANGED <<cache, failing>>
       \/ /\ ~io_error
          /\ cache' = [key \in Keys(jobs) |->
                         results[CHOOSE i \in DOMAIN jobs : jobs[i].key = key]]
          /\ failing' = Sorted({i \in DOMAIN jobs : results[i] = "err"}, Simpler)
          /\ phase' = "explain"
          /\ UNCHANGED report
    /\ UNCHANGED <<vars, trace, point, found, pool, checker, runs, current, minimized, groups>>

-----------------------------------------------------------------------------
(* Explaining the failures *)

LostMicro(k, persisted) == Before(Program, k) \ persisted
LostOps(k, persisted) == {micro[j].op : j \in LostMicro(k, persisted)}
MicroOf(k, op) == {j \in Before(Program, k) : micro[j].op = op}

Covering(g, lost) == \E cause \in g.causes : cause # {} /\ cause \subseteq lost
CoveringGroups(lost) == {g \in DOMAIN groups : Covering(groups[g], lost)}
FirstOf(S) == CHOOSE g \in S : \A h \in S : g <= h

\* Faulty variant: only whole ops are tried.
TrialsOfOps(k, persisted) ==
    LET ops == Sorted(LostOps(k, persisted), <)
    IN  [i \in DOMAIN ops |-> MicroOf(k, ops[i])]

\* What minimize will try to re-persist: whole lost ops, then each micro-op.
Trials(k, persisted) ==
    LET ops == Sorted(LostOps(k, persisted), <)
    IN  [i \in DOMAIN ops |-> MicroOf(k, ops[i])] \o
        [j \in Before(Program, k) |-> {j}]

\* Faulty variant: a failure with a known cause is dropped.
NoteNothing(g) == UNCHANGED groups

NoteOccurrence(g) == groups' = [groups EXCEPT ![g].occurrences = @ + 1]

\* The next failing job: attributed to a known cause, dropped once explain
\* failures were minimized, or minimized itself.
NextFailure ==
    /\ phase = "explain" /\ current = NoCurrent /\ failing # <<>>
    /\ LET job  == jobs[Head(failing)]
           known == CoveringGroups(LostOps(job.point, job.persisted))
       IN  \/ /\ known # {}
              /\ NoteOccurrence(FirstOf(known))
              /\ UNCHANGED <<current, minimized>>
           \/ /\ known = {} /\ minimized = Explain
              /\ UNCHANGED <<current, minimized, groups>>
           \/ /\ known = {} /\ minimized # Explain
              /\ minimized' = minimized + 1
              /\ current' = [point |-> job.point, persisted |-> job.persisted,
                             trials |-> Trials(job.point, job.persisted)]
              /\ UNCHANGED groups
    /\ failing' = Tail(failing)
    /\ UNCHANGED <<vars, trace, phase, point, found, pool, oracle, report>>

\* Faulty variant: the cache is written and never read.
VerdictUncached(key, r) == CheckerSays(key, r) /\ cache' = With(cache, key, r)

\* verdict: through the cache, else by running the checker and caching it.
Verdict(key, r) ==
    \/ key \in DOMAIN cache /\ r = cache[key] /\ UNCHANGED oracle
    \/ /\ key \notin DOMAIN cache
       /\ CheckerSays(key, r)
       /\ cache' = With(cache, key, r)

VerdictFails(key) == key \notin DOMAIN cache /\ Fail("io")

\* Faulty variant: what is re-persisted is not closed again.
TrialUnclosed(c) == c.persisted \cup Head(c.trials)

\* The state one try_add builds.
Trial(c) == Close(Program, c.point, c.persisted \cup Head(c.trials))

\* One try_add: keep the trial if it differs and still fails.
TryAdd ==
    /\ phase = "explain" /\ current # NoCurrent /\ current.trials # <<>>
    /\ LET trial == Trial(current)
           key   == Key(current.point, trial)
           rest  == [current EXCEPT !.trials = Tail(@)]
       IN  \/ /\ trial = current.persisted
              /\ current' = rest
              /\ UNCHANGED <<oracle, phase, report>>
           \/ /\ trial # current.persisted
              /\ \E r \in {"ok", "err"} :
                   /\ Verdict(key, r)
                   /\ current' = IF r = "err" THEN [rest EXCEPT !.persisted = trial] ELSE rest
              /\ UNCHANGED <<phase, report>>
           \/ /\ trial # current.persisted
              /\ VerdictFails(key)
              /\ UNCHANGED <<oracle, current>>
    /\ UNCHANGED <<vars, trace, point, found, pool, failing, minimized, groups>>

\* The path an op is about (the source of a rename).
OpPath(op) == IF op.op = "rename" THEN op.from ELSE op.path
Op(o) == trace[o + 1]

\* Faulty variant: a rename is said to change its source directory.
ChangedPathFrom(op) == OpPath(op)

\* The path whose directory an entry change is in.
ChangedPath(op) == IF op.op = "rename" THEN op.to ELSE op.path

\* Non-durable micro-ops after the first lost one that persisted, by op.
Survived(k, persisted) ==
    LET lost == LostMicro(k, persisted)
    IN  {micro[j].op : j \in {i \in InFlight(Program, k) \cap persisted :
                                /\ FirstOf(lost) <= i
                                /\ micro[i].op \notin LostOps(k, persisted)}}

Torn(k, persisted) ==
    \E o \in LostOps(k, persisted) :
        \E j \in MicroOf(k, o) \cap persisted : micro[j].m.kind = "Write"

KindOf(k, persisted, durability) ==
    IF LostMicro(k, persisted) = {} THEN "NonAtomic"
    ELSE IF durability THEN "Unsynced"
    ELSE IF Torn(k, persisted) THEN "TornWrite"
    ELSE IF Survived(k, persisted) # {} THEN "Reordering"
    ELSE "Unsynced"

\* The fix a vulnerability proposes: the op it is about, what to do, and the
\* path to fsync, after that op or before a rename that survived.
Hint(kind, k, persisted) ==
    LET lost  == LostMicro(k, persisted)
        first == FirstOf(lost)
        o     == micro[first].op
        data  == IsData(micro[first].m)
        dir   == Parent(ChangedPath(Op(o)))
        moves == {i \in Survived(k, persisted) : Op(i).op = "rename" /\ Op(i).from = OpPath(Op(o))}
    IN  IF lost = {} THEN IF k = 0 THEN [fix |-> "checker"] ELSE [fix |-> "atomic", op |-> k - 1]
        ELSE IF kind = "TornWrite" THEN [fix |-> "checksum", op |-> o]
        ELSE IF ~data THEN [fix |-> "fsync", path |-> dir, op |-> o]
        ELSE IF kind = "Reordering" /\ moves # {}
             THEN [fix |-> "fsync before", path |-> OpPath(Op(o)), op |-> FirstOf(moves)]
        ELSE [fix |-> "fsync", path |-> OpPath(Op(o)), op |-> o]

\* What the report says of a failure: the crash it needs, the ops whose effect
\* it lost, the files they are about, and a fix.  A group is its vulnerability
\* and the sets of lost ops that are its causes.
Vulnerability(kind, k, persisted) ==
    [kind |-> kind, point |-> k, persisted |-> persisted,
     lost |-> LostOps(k, persisted), causes |-> {LostOps(k, persisted)},
     files |-> {OpPath(Op(o)) : o \in LostOps(k, persisted)},
     hint |-> Hint(kind, k, persisted), occurrences |-> 1]

\* Group by kind and by the files whose lost ops are the cause.
AddToGroups(kind, k, persisted) ==
    LET cause == LostOps(k, persisted)
        files == {OpPath(Op(o)) : o \in cause}
        same  == {g \in DOMAIN groups : groups[g].kind = kind /\ groups[g].files = files}
    IN  groups' =
          IF same # {}
          THEN [groups EXCEPT ![FirstOf(same)].occurrences = @ + 1,
                              ![FirstOf(same)].causes = @ \cup {cause}]
          ELSE Append(groups, Vulnerability(kind, k, persisted))

\* Every trial is done: ask whether the state passes when nothing was
\* acknowledged, classify the failure and group it.
Classify ==
    LET key  == <<Materialize(Program, current.persisted), 0>>
        acks == marks_before[current.point + 1]
    IN  /\ phase = "explain" /\ current # NoCurrent /\ current.trials = <<>>
        /\ \/ /\ acks = 0
              /\ AddToGroups(KindOf(current.point, current.persisted, FALSE),
                             current.point, current.persisted)
              /\ current' = NoCurrent
              /\ UNCHANGED <<oracle, phase, report>>
           \/ /\ acks > 0
              /\ \E r \in {"ok", "err"} :
                   /\ Verdict(key, r)
                   /\ AddToGroups(KindOf(current.point, current.persisted, r = "ok"),
                                  current.point, current.persisted)
              /\ current' = NoCurrent
              /\ UNCHANGED <<phase, report>>
           \/ /\ acks > 0
              /\ VerdictFails(key)
              /\ UNCHANGED <<oracle, current, groups>>
        /\ UNCHANGED <<vars, trace, point, found, pool, failing, minimized>>

Failures == {i \in DOMAIN jobs : results[i] = "err"}

\* What check returns when nothing went wrong.
Report ==
    [ok |-> TRUE, states |-> Len(jobs), truncated |-> truncated,
     failures |-> Cardinality(Failures), vulnerabilities |-> groups]

Finish ==
    /\ phase = "explain" /\ current = NoCurrent /\ failing = <<>>
    /\ Return(Report)
    /\ UNCHANGED <<vars, trace, point, found, pool, oracle, explaining>>

\* check has returned.
Done == phase = "done" /\ UNCHANGED engineVars

Sequential == CompileTrace \/ Collect \/ NextFailure \/ TryAdd \/ Classify \/ Finish
Thread(w) == Claim(w) \/ FinishJob(w) \/ FailJob(w)

EngineNext == EnumeratePoint \/ Sequential \/ (\E w \in Workers : Thread(w)) \/ Done

\* The operating system runs every thread, and the checker returns.  Only
\* EnumeratePoint moves point, and it can whenever its phase has come, so
\* fairness on point is fairness on that action.
EngineSpec ==
    /\ EngineInit /\ [][EngineNext]_engineVars
    /\ WF_point(phase = "enumerate" /\ point' = point + 1)
    /\ WF_engineVars(Sequential)
    /\ \A w \in Workers : WF_engineVars(Thread(w))

-----------------------------------------------------------------------------
(* The pool and the report *)

\* "every job ran" (the expect in Engine::run): once the threads have ended
\* without an I/O error, every job has its result.
EveryJobRan == phase = "explain" => \A i \in DOMAIN jobs : results[i] # None

\* The checker never runs twice on the same directory and marks: not from two
\* threads, not again while minimizing (Engine::run's dedupe and verdict's cache).
CheckedOnce == \A key \in DOMAIN runs : runs[key] = 1

\* Every pair of a directory and the marks before it that the candidates reach.
Reached ==
    UNION {{<<Materialize(Program, Close(Program, k, c)), marks_before[k + 1]>> :
                c \in Range(Candidates(Program, k, ExhaustiveLimit, <<>>))} : k \in Points(Program)}

\* A report that was not cut short counts exactly the rejected states: every
\* state the search reaches at any point was judged with the marks of that
\* point, although equal ones were dropped (Engine::run, Report::is_clean).
ReportIsFaithful ==
    (phase = "done" /\ report.ok /\ ~report.truncated) =>
        /\ Reached \subseteq DOMAIN checker
        /\ report.failures = Cardinality({key \in Reached \cup Keys(jobs) : checker[key] = "err"})

\* Threads, minimization and grouping all come to an end, also after I/O errors.
Termination == <>(phase = "done")

-----------------------------------------------------------------------------
(* What the vulnerabilities say *)

\* A minimized state is a crash state of its point, the checker rejects it
\* with the marks of that point, and it lost what the report says (minimize).
MinimizedIsReal ==
    \A g \in DOMAIN groups :
        LET r == groups[g]
        IN  /\ Legal(Program, r.point, r.persisted)
            /\ checker[<<Materialize(Program, r.persisted), marks_before[r.point + 1]>>] = "err"
            /\ \A o \in r.lost : ~(MicroOf(r.point, o) \subseteq r.persisted)

\* Every failing state is attributed to one vulnerability, until the bound on
\* minimizations lets some go (Engine::run, occurrences).
AttributedOnce ==
    LET sum  == SumFunction([g \in DOMAIN groups |-> groups[g].occurrences])
        open == Len(failing) + (IF current = NoCurrent THEN 0 ELSE 1)
    IN  phase = "explain" =>
            /\ sum + open <= Cardinality(Failures)
            /\ minimized < Explain => sum + open = Cardinality(Failures)

Rejected(k, s) ==
    LET key == Key(k, s) IN key \in DOMAIN checker /\ checker[key] = "err"
Accepted(k, s) ==
    LET key == Key(k, s) IN key \in DOMAIN checker /\ checker[key] = "ok"

\* Minimizing is one greedy pass, and that is enough for a checker that never
\* rejects a state after accepting one with less: then re-persisting any one
\* lost micro-op makes the state acceptable (minimize).
MinimalIfMonotone ==
    \A g \in DOMAIN groups :
        LET r == groups[g]
        IN  \A j \in LostMicro(r.point, r.persisted) :
               LET t == Close(Program, r.point, r.persisted \cup {j})
               IN  Rejected(r.point, t) =>
                      \E s \in SUBSET t : Legal(Program, r.point, s) /\ Accepted(r.point, s)

\* The fsync a hint asks for, placed right after the op it names, covers the
\* first micro-op that was lost (hint).
HintCovers ==
    \A g \in DOMAIN groups :
        LET r     == groups[g]
            first == FirstOf(LostMicro(r.point, r.persisted))
            then  == CrashFs(Program, 1..op_end[r.hint.op + 2])
        IN  r.hint.fix = "fsync" => Lookup(then, r.hint.path) = FlushedWith(micro[first].m)
=============================================================================
