-------------------------- MODULE GeneratorRunsProofs --------------------------
(***************************************************************************)
(* Proofs about GeneratorRuns for any runs, generators, calls and limits:  *)
(* a JavaScript generator's suggestions are its own, whichever runs share  *)
(* the cache and the worker thread, and only what is late times out.       *)
(***************************************************************************)
EXTENDS GeneratorRuns, SequenceTheorems, TLAPS

Dirs  == {call.dir : call \in UNION {Calls[r] : r \in Runs}} \cup {None}
Lines == {call.line : call \in UNION {Calls[r] : r \in Runs}} \cup {None}
Argvs == ({Script[g] : g \in Gens} \X Lines) \cup {None}
Mades == [of: Gens \cup {None}, argv: Argvs, dir: Dirs, line: Lines]
CacheKeys == [layer: {"stdout", "js"}, argv: Argvs, dir: Dirs, source: Gens \cup {None},
              line: Lines]
CacheEntries == [key: CacheKeys, shape: {"stdout", "suggestions"}, made: Mades]
RunTypes == [at: {"idle", "active", "returned", "aborted"}, site: SUBSET Gens, dir: Dirs,
             line: Lines]
Steps == {"off", "dispatch", "permit", "peek", "probe", "script", "process", "submit", "job",
          "reply", "done"}
Outcomes == {"timeout", "value", "failure", "nothing", "dead", None}
TaskTypes == [at: Steps, dir: Dirs, result: Outcomes, answer: Mades]
WorkerTypes == [state: {"unspawned", "alive", "dead"}, queue: Seq(Tasks),
                job: Tasks \cup {None}, interrupted: BOOLEAN]

TypeOK ==
  /\ cache \in SUBSET CacheEntries
  /\ run \in [Runs -> RunTypes]
  /\ task \in [Tasks -> TaskTypes]
  /\ worker \in WorkerTypes
  /\ late \in SUBSET Tasks
  /\ failures \in [Gens -> Nat]

\* The worker has the tasks that wait for it, each of them once; if it is told to stop
\* the job it runs, that one is late.
JobsWait ==
  /\ \A i \in 1 .. Len(worker.queue) :
       task[worker.queue[i]].at = "job" /\ worker.queue[i] # worker.job
  /\ \A i, j \in 1 .. Len(worker.queue) : worker.queue[i] = worker.queue[j] => i = j
  /\ worker.job # None =>
       task[worker.job].at = "job" /\ (worker.interrupted => worker.job \in late)

\* An entry is what its key says.
Sound(e) ==
  /\ e.shape = "stdout" /\ e.key.dir # None => e.made.dir = e.key.dir
  /\ e.key.layer = "js" =>
       /\ e.made.of = e.key.source /\ e.made.argv = e.key.argv /\ e.made.line = e.key.line
       /\ InDirectory(e.key.source) => e.made.dir = e.key.dir

\* Bodies that compute run no script; what a script printed comes from the directory of
\* the run if it has to.
HasOutput(t) ==
  \/ task[t].at = "process"
  \/ Kind[GenOf(t)] = "post" /\ task[t].at \in {"submit", "job", "reply"}
HoldsDir(t) ==
  /\ task[t].at \in {"probe", "script", "process"} => ~Computes(t)
  /\ HasOutput(t) /\ ByDir[GenOf(t)] => task[t].dir = RunOf(t).dir

Begun(r) ==
  /\ run[r].at = "idle" => \A g \in Gens : task[<<r, g>>] = Off
  /\ run[r].at # "idle" => run[r].dir # None

\* The inductive invariant.
Owned ==
  /\ TypeOK /\ JobsWait /\ TimeoutIsLate
  /\ \A r \in Runs : Begun(r)
  /\ \A e \in cache : Sound(e)
  /\ \A t \in Tasks : HoldsDir(t)
  /\ JsAnswersOwn

-----------------------------------------------------------------------------
(* The data.                                                               *)

LEMMA TasksArePairs ==
  ASSUME NEW t \in Tasks
  PROVE  t[1] \in Runs /\ GenOf(t) \in Gens /\ t = <<t[1], GenOf(t)>>
BY DEF Tasks, GenOf

LEMMA OffIsTask == /\ Off \in TaskTypes /\ Off.at = "off" /\ Off.dir = None /\ Off.result = None
                   /\ Off.answer = NotMade /\ NotMade \in Mades
BY DEF Off, NotMade, TaskTypes, Steps, Outcomes, Mades, Dirs, Lines, Argvs

\* The keys, output and suggestions of a task.
LEMMA MadeFields ==
  ASSUME TypeOK, NEW t \in Tasks, NEW dir \in Dirs
  PROVE  /\ Made(t, dir) \in Mades /\ Printed(t) \in Mades
         /\ Stdout(t) \in CacheKeys /\ JsProcessed(t) \in CacheKeys
<1>1. t[1] \in Runs /\ GenOf(t) \in Gens
  BY TasksArePairs
<1>2. RunOf(t).dir \in Dirs /\ RunOf(t).line \in Lines /\ None \in Dirs /\ None \in Lines
  BY <1>1 DEF TypeOK, RunTypes, RunOf, Dirs, Lines
<1>3. Argv(t) \in Argvs
  BY <1>1, <1>2 DEF Argv, Argvs
<1>4. Reads(t) \in Lines /\ CacheCwd(t) \in Dirs
  BY <1>2 DEF Reads, CacheCwd
<1>5. JsProcessed(t) \in CacheKeys
  BY <1>1, <1>2, <1>3, <1>4 DEF JsProcessed, CacheKeys
<1> QED
  BY <1>1, <1>2, <1>3, <1>4, <1>5 DEF Made, Printed, Stdout, Mades, CacheKeys

LEMMA InsertedSound ==
  ASSUME NEW key \in CacheKeys, NEW shape \in {"stdout", "suggestions"}, NEW made \in Mades,
         TypeOK, \A e \in cache : Sound(e),
         Sound([key |-> key, shape |-> shape, made |-> made]),
         cache' = Inserted(key, shape, made)
  PROVE  cache' \in SUBSET CacheEntries /\ \A e \in cache' : Sound(e)
BY DEF Inserted, TypeOK, CacheEntries

LEMMA InitOwned == Init => Owned
<1> SUFFICES ASSUME Init PROVE Owned
  OBVIOUS
<1>1. TypeOK
  <2>1. run \in [Runs -> RunTypes] /\ failures \in [Gens -> Nat]
    BY DEF Init, RunTypes, Dirs, Lines
  <2>2. worker \in WorkerTypes
    BY DEF Init, WorkerTypes
  <2> QED
    BY <2>1, <2>2, OffIsTask DEF Init, TypeOK
<1>2. JobsWait
  BY DEF Init, JobsWait
<1>3. \A t \in Tasks : task[t] = Off
  BY DEF Init
<1>4. TimeoutIsLate /\ \A t \in Tasks : HoldsDir(t)
  BY <1>3, OffIsTask, GeneratorsAssumption DEF TimeoutIsLate, HoldsDir, HasOutput
<1>5. \A r \in Runs : Begun(r)
  <2>1. \A r \in Runs : run[r].at = "idle"
    BY DEF Init
  <2>2. \A r \in Runs, g \in Gens : task[<<r, g>>] = Off
    BY <1>3 DEF Tasks
  <2> QED
    BY <2>1, <2>2 DEF Begun
<1>6. JsAnswersOwn
  BY <1>3, OffIsTask DEF JsAnswersOwn, OwnAnswer
<1> QED
  BY <1>1, <1>2, <1>4, <1>5, <1>6 DEF Owned, Init

-----------------------------------------------------------------------------
(* One task takes a step.                                                  *)

\* A task that does not wait for the worker goes on; its deadline may be forgotten.
LEMMA OneTaskJobs ==
  ASSUME Owned, NEW t \in Tasks, NEW new \in TaskTypes, task' = [task EXCEPT ![t] = new],
         task[t].at # "job", UNCHANGED worker, late' \in {late, late \ {t}},
         new.result = "timeout" => t \in late'
  PROVE  JobsWait' /\ TimeoutIsLate'
<1>1. task'[t] = new /\ \A u \in Tasks \ {t} : task'[u] = task[u]
  BY DEF Owned, TypeOK
<1>2. TimeoutIsLate'
  BY <1>1 DEF Owned, TimeoutIsLate
<1>3. /\ worker.job \in Tasks \cup {None}
      /\ \A i \in 1 .. Len(worker.queue) : worker.queue[i] \in Tasks
  BY DEF Owned, TypeOK, WorkerTypes
<1>4. \A i \in 1 .. Len(worker.queue) : worker.queue[i] # t
  BY DEF Owned, JobsWait
<1>5. worker.job # None => worker.job # t
  BY DEF Owned, JobsWait
<1>6. JobsWait'
  BY <1>1, <1>3, <1>4, <1>5 DEF Owned, JobsWait
<1> QED
  BY <1>2, <1>6

LEMMA OneTaskMoves ==
  ASSUME Owned, NEW t \in Tasks, NEW new \in TaskTypes, task' = [task EXCEPT ![t] = new],
         task[t].at # "off", UNCHANGED run,
         Kind[GenOf(t)] # "plain" => OwnAnswer(t)', HoldsDir(t)'
  PROVE  /\ task' \in [Tasks -> TaskTypes] /\ JsAnswersOwn'
         /\ \A r \in Runs : Begun(r)'
         /\ \A u \in Tasks : HoldsDir(u)'
<1>1. task'[t] = new /\ \A u \in Tasks \ {t} : task'[u] = task[u]
  BY DEF Owned, TypeOK
<1>2. task' \in [Tasks -> TaskTypes]
  BY DEF Owned, TypeOK
<1>3. JsAnswersOwn'
  <2> SUFFICES ASSUME NEW u \in Tasks, Kind[GenOf(u)] # "plain" PROVE OwnAnswer(u)'
    BY DEF JsAnswersOwn, GenOf
  <2>1. CASE u = t
    BY <2>1
  <2>2. CASE u # t
    BY <1>1, <2>2 DEF Owned, JsAnswersOwn, OwnAnswer, RunOf, GenOf, Argv, Reads, Computes
  <2> QED
    BY <2>1, <2>2
<1>4. \A u \in Tasks : HoldsDir(u)'
  BY <1>1 DEF Owned, HoldsDir, HasOutput, RunOf, GenOf, Computes
<1>5. ASSUME NEW r \in Runs PROVE Begun(r)'
  <2>1. CASE run[r].at # "idle"
    BY <2>1 DEF Owned, Begun
  <2>2. CASE run[r].at = "idle"
    <3>1. \A g \in Gens : task[<<r, g>>] = Off
      BY <2>2 DEF Owned, Begun
    <3>2. \A g \in Gens : <<r, g>> \in Tasks /\ <<r, g>> # t
      BY <3>1, OffIsTask DEF Tasks
    <3> QED
      BY <1>1, <2>2, <3>1, <3>2 DEF Begun
  <2> QED
    BY <2>1, <2>2
<1> QED
  BY <1>2, <1>3, <1>4, <1>5
\* A task that goes on without an answer.
LEMMA GoOnOwned ==
  ASSUME Owned, NEW t \in Tasks, NEW new \in TaskTypes, task' = [task EXCEPT ![t] = new],
         new.result = task[t].result, new.answer = task[t].answer,
         task[t].at \notin {"off", "job"}, UNCHANGED <<run, worker>>,
         late' \in {late, late \ {t}}, task[t].result = "timeout" => t \in late',
         failures' \in [Gens -> Nat],
         cache' \in SUBSET CacheEntries, \A e \in cache' : Sound(e),
         HoldsDir(t)'
  PROVE  Owned'
<1>1. task'[t] = new
  BY DEF Owned, TypeOK
<1>2. Kind[GenOf(t)] # "plain" => OwnAnswer(t)'
  BY <1>1 DEF Owned, JsAnswersOwn, OwnAnswer, RunOf, GenOf, Argv, Reads, Computes
<1>3. JobsWait' /\ TimeoutIsLate'
  BY OneTaskJobs
<1>4. /\ task' \in [Tasks -> TaskTypes] /\ JsAnswersOwn'
      /\ \A r \in Runs : Begun(r)'
      /\ \A u \in Tasks : HoldsDir(u)'
  BY <1>2, OneTaskMoves
<1> QED
  BY <1>3, <1>4 DEF Owned, TypeOK, Sound

LEMMA MoveOwned ==
  ASSUME Owned, NEW t \in Tasks, NEW at \in Steps, Move(t, at),
         task[t].at \notin {"off", "job"}, UNCHANGED <<cache, run, worker>>,
         late' \in {late, late \ {t}}, task[t].result = "timeout" => t \in late',
         failures' \in [Gens -> Nat],
         at = "process" \/ (Kind[GenOf(t)] = "post" /\ at \in {"submit", "job", "reply"})
           => HasOutput(t),
         at \in {"probe", "script", "process"} => ~Computes(t)
  PROVE  Owned'
<1> DEFINE old == task[t]
           new == [old EXCEPT !.at = at]
<1>1. old \in TaskTypes
  BY DEF Owned, TypeOK
<1>2. /\ new \in TaskTypes /\ new.at = at /\ new.dir = old.dir /\ new.result = old.result
      /\ new.answer = old.answer
  <2> HIDE DEF old
  <2> QED
    BY <1>1 DEF TaskTypes
<1>3. task' = [task EXCEPT ![t] = new]
  BY DEF Move
<1> HIDE DEF new
<1>4. task'[t] = new
  BY <1>3 DEF Owned, TypeOK
<1>5. HoldsDir(t)'
  BY <1>2, <1>4 DEF Owned, HoldsDir, HasOutput, RunOf, GenOf, Computes
<1>6. cache' \in SUBSET CacheEntries /\ \A e \in cache' : Sound(e)
  BY DEF Owned, TypeOK
<1> QED
  BY <1>2, <1>3, <1>5, <1>6, GoOnOwned

\* A task that ends with an answer of its own.
LEMMA FinishOwned ==
  ASSUME Owned, NEW t \in Tasks, NEW made \in Mades, Finish(t, made),
         task[t].at \notin {"off", "job"}, UNCHANGED <<run, worker>>,
         late' \in {late, late \ {t}},
         failures' \in [Gens -> Nat],
         cache' \in SUBSET CacheEntries, \A e \in cache' : Sound(e),
         Kind[GenOf(t)] # "plain" => made = NotMade \/
           /\ made.of = GenOf(t) /\ made.argv = Argv(t) /\ made.line = Reads(t)
           /\ InDirectory(GenOf(t)) => made.dir = RunOf(t).dir
  PROVE  Owned'
<1> DEFINE new == [Off EXCEPT !.at = "done", !.answer = made]
<1>1. /\ new \in TaskTypes /\ new.at = "done" /\ new.result = None /\ new.answer = made
      /\ None # "timeout"
  BY OffIsTask, GeneratorsAssumption DEF TaskTypes, Steps
<1>2. task' = [task EXCEPT ![t] = new]
  BY DEF Finish
<1> HIDE DEF new
<1>3. task'[t] = new
  BY <1>2 DEF Owned, TypeOK
<1>4. Kind[GenOf(t)] # "plain" => OwnAnswer(t)'
  BY <1>1, <1>3 DEF OwnAnswer, RunOf, GenOf, Argv, Reads, Computes
<1>5. HoldsDir(t)'
  BY <1>1, <1>3 DEF HoldsDir, HasOutput
<1>6. JobsWait' /\ TimeoutIsLate'
  BY <1>1, <1>2, OneTaskJobs
<1>7. /\ task' \in [Tasks -> TaskTypes] /\ JsAnswersOwn'
      /\ \A r \in Runs : Begun(r)'
      /\ \A u \in Tasks : HoldsDir(u)'
  BY <1>1, <1>2, <1>4, <1>5, OneTaskMoves
<1> QED
  BY <1>6, <1>7 DEF Owned, TypeOK, Sound

\* A run that has begun works in a directory.
LEMMA RunHasDir ==
  ASSUME Owned, NEW t \in Tasks, task[t].at # "off"
  PROVE  RunOf(t).dir # None /\ RunOf(t).dir \in Dirs
<1>1. t[1] \in Runs /\ GenOf(t) \in Gens /\ task[<<t[1], GenOf(t)>>] = task[t]
  BY TasksArePairs
<1>2. RunOf(t).dir \in Dirs
  BY <1>1 DEF Owned, TypeOK, RunTypes, RunOf
<1> QED
  BY <1>1, <1>2, OffIsTask DEF Owned, Begun, RunOf

\* The processed result of a task is its own.
LEMMA HitIsOwn ==
  ASSUME Owned, NEW t \in Tasks, Kind[GenOf(t)] # "plain",
         NEW e \in Hits(SuggestionsKey(t), "suggestions")
  PROVE  /\ e.made.of = GenOf(t) /\ e.made.argv = Argv(t) /\ e.made.line = Reads(t)
         /\ InDirectory(GenOf(t)) => e.made.dir = RunOf(t).dir
<1>1. e \in cache /\ e.key = JsProcessed(t) /\ Sound(e)
  BY DEF Hits, SuggestionsKey, Owned
<1>2. /\ e.key.layer = "js" /\ e.key.source = GenOf(t) /\ e.key.argv = Argv(t)
      /\ e.key.line = Reads(t)
  BY <1>1 DEF JsProcessed
<1>3. InDirectory(GenOf(t)) => e.key.dir = RunOf(t).dir
  BY <1>1 DEF JsProcessed, InDirectory, CacheCwd
<1> QED
  BY <1>1, <1>2, <1>3 DEF Sound

\* What a task keeps is what its key says.
LEMMA KeepOwned ==
  ASSUME Owned, NEW t \in Tasks, NEW dir \in Dirs, Keep(t, dir),
         task[t].at \notin {"off", "job"}, UNCHANGED <<run, worker>>,
         late' \in {late, late \ {t}},
         failures' \in [Gens -> Nat],
         Kind[GenOf(t)] # "plain" /\ InDirectory(GenOf(t)) => dir = RunOf(t).dir
  PROVE  Owned'
<1> DEFINE made == Made(t, dir)
           key == SuggestionsKey(t)
           e == [key |-> key, shape |-> "suggestions", made |-> made]
<1>1. made \in Mades /\ key \in CacheKeys
  BY MadeFields DEF SuggestionsKey, Owned
<1>2. made.of = GenOf(t) /\ made.argv = Argv(t) /\ made.line = Reads(t) /\ made.dir = dir
  BY DEF Made
<1>3. Sound(e)
  <2>1. CASE Kind[GenOf(t)] = "plain"
    <3>1. key.layer = "stdout"
      BY <2>1 DEF SuggestionsKey, Stdout
    <3> QED
      BY <3>1 DEF Sound
  <2>2. CASE Kind[GenOf(t)] # "plain"
    <3>1. key.source = GenOf(t) /\ key.argv = Argv(t) /\ key.line = Reads(t)
      BY <2>2 DEF SuggestionsKey, JsProcessed
    <3>2. InDirectory(GenOf(t)) => key.dir = RunOf(t).dir
      BY <2>2 DEF SuggestionsKey, JsProcessed, InDirectory, CacheCwd
    <3> HIDE DEF key, made
    <3> QED
      BY <1>2, <2>2, <3>1, <3>2 DEF Sound
  <2> QED
    BY <2>1, <2>2
<1>4. cache' = Inserted(key, "suggestions", made) /\ Finish(t, made)
  BY DEF Keep
<1> HIDE DEF key, made
<1>5. cache' \in SUBSET CacheEntries /\ \A x \in cache' : Sound(x)
  BY <1>1, <1>3, <1>4, InsertedSound DEF Owned
<1> QED
  BY <1>1, <1>2, <1>4, <1>5, FinishOwned

-----------------------------------------------------------------------------
(* The steps of a task.                                                    *)

LEMMA GiveUpOwned ==
  ASSUME Owned, NEW t \in Tasks, Finish(t, NotMade), task[t].at \notin {"off", "job"},
         UNCHANGED <<cache, run, worker>>, late' \in {late, late \ {t}},
         failures' \in [Gens -> Nat]
  PROVE  Owned'
<1>1. cache' \in SUBSET CacheEntries /\ \A e \in cache' : Sound(e)
  BY DEF Owned, TypeOK
<1> QED
  BY <1>1, OffIsTask, FinishOwned

\* Suggestions come from the cache.
LEMMA HitOwned ==
  ASSUME Owned, NEW t \in Tasks, NEW e \in Hits(SuggestionsKey(t), "suggestions"),
         Finish(t, e.made), task[t].at \notin {"off", "job"},
         UNCHANGED <<cache, run, worker, late, failures>>
  PROVE  Owned'
<1>1. e.made \in Mades
  BY DEF Hits, Owned, TypeOK, CacheEntries
<1>2. cache' \in SUBSET CacheEntries /\ \A x \in cache' : Sound(x)
  BY DEF Owned, TypeOK
<1>3. failures' \in [Gens -> Nat]
  BY DEF Owned, TypeOK
<1>4. Kind[GenOf(t)] # "plain" =>
        /\ e.made.of = GenOf(t) /\ e.made.argv = Argv(t) /\ e.made.line = Reads(t)
        /\ InDirectory(GenOf(t)) => e.made.dir = RunOf(t).dir
  BY HitIsOwn
<1> QED
  BY <1>1, <1>2, <1>3, <1>4, FinishOwned

LEMMA DispatchOwned == ASSUME Owned, NEW t \in Tasks, Dispatch(t) PROVE Owned'
<1>1. task[t].at = "dispatch" /\ UNCHANGED <<cache, run, worker, late, failures>>
      /\ failures' \in [Gens -> Nat] /\ (task[t].result = "timeout" => t \in late)
  BY DEF Dispatch, Owned, TypeOK, TimeoutIsLate
<1>2. CASE Finish(t, NotMade)
  BY <1>1, <1>2, GiveUpOwned
<1>3. CASE Move(t, "permit")
  BY <1>1, <1>3, MoveOwned DEF Steps
<1>4. ASSUME NEW e \in Hits(SuggestionsKey(t), "suggestions"), Finish(t, e.made) PROVE Owned'
  BY <1>1, <1>4, HitOwned
<1> QED
  BY <1>2, <1>3, <1>4 DEF Dispatch

LEMMA AcquireOwned == ASSUME Owned, NEW t \in Tasks, Acquire(t) PROVE Owned'
<1>1. task[t].at = "permit" /\ UNCHANGED <<cache, run, worker, late, failures>>
      /\ failures' \in [Gens -> Nat] /\ (task[t].result = "timeout" => t \in late)
  BY DEF Acquire, Owned, TypeOK, TimeoutIsLate
<1>2. PICK at \in {"peek", "submit", "probe"} :
        /\ Move(t, at)
        /\ at = "submit" => Kind[GenOf(t)] # "post"
        /\ at = "probe" => ~Computes(t)
  BY DEF Acquire
<1> QED
  BY <1>1, <1>2, MoveOwned DEF Steps

LEMMA PeekOwned == ASSUME Owned, NEW t \in Tasks, Peek(t) PROVE Owned'
<1>1. task[t].at = "peek" /\ UNCHANGED <<cache, run, worker, late, failures>>
      /\ failures' \in [Gens -> Nat] /\ (task[t].result = "timeout" => t \in late)
  BY DEF Peek, Owned, TypeOK, TimeoutIsLate
<1>2. ASSUME NEW at \in {"submit", "probe"}, Move(t, at), at = "submit" <=> Computes(t)
      PROVE  Owned'
  BY <1>1, <1>2, MoveOwned DEF Steps, Computes
<1>3. ASSUME NEW e \in Hits(SuggestionsKey(t), "suggestions"), Finish(t, e.made) PROVE Owned'
  BY <1>1, <1>3, HitOwned
<1> QED
  BY <1>2, <1>3 DEF Peek

\* Output of the script, from the cache or not, has the directory of the run if it must.
LEMMA OutputOwned ==
  ASSUME Owned, NEW t \in Tasks, NEW dir \in Dirs, ByDir[GenOf(t)] => dir = RunOf(t).dir,
         task' = [task EXCEPT ![t].at = "process", ![t].dir = dir],
         task[t].at \in {"probe", "script"}, UNCHANGED <<run, worker, late, failures>>,
         cache' \in SUBSET CacheEntries, \A e \in cache' : Sound(e)
  PROVE  Owned'
<1> DEFINE old == task[t]
           new == [old EXCEPT !.at = "process", !.dir = dir]
<1>1. old \in TaskTypes
  BY DEF Owned, TypeOK
<1>2. /\ new \in TaskTypes /\ new.dir = dir /\ new.result = old.result
      /\ new.answer = old.answer
  <2> HIDE DEF old
  <2> QED
    BY <1>1 DEF TaskTypes, Steps
<1>3. task' = [task EXCEPT ![t] = new]
  OBVIOUS
<1> HIDE DEF new
<1>4. task'[t] = new
  BY <1>3 DEF Owned, TypeOK
<1>5. HoldsDir(t)' /\ (old.result = "timeout" => t \in late) /\ failures' \in [Gens -> Nat]
  BY <1>2, <1>4 DEF Owned, TypeOK, HoldsDir, RunOf, GenOf, Computes, TimeoutIsLate
<1> QED
  BY <1>2, <1>3, <1>5, GoOnOwned

LEMMA ProbeOwned == ASSUME Owned, NEW t \in Tasks, Probe(t) PROVE Owned'
<1>1. task[t].at = "probe" /\ UNCHANGED <<cache, run, worker, late, failures>>
      /\ failures' \in [Gens -> Nat] /\ (task[t].result = "timeout" => t \in late)
  BY DEF Probe, Owned, TypeOK, TimeoutIsLate
<1>2. CASE Move(t, "script")
  <2>1. ~Computes(t)
    BY <1>1 DEF Owned, HoldsDir
  <2> QED
    BY <1>1, <1>2, <2>1, MoveOwned DEF Steps
<1>3. ASSUME NEW e \in Hits(Stdout(t), "stdout"),
             task' = [task EXCEPT ![t].at = "process", ![t].dir = e.made.dir]
      PROVE  Owned'
  <2>1. /\ e \in cache /\ e.shape = "stdout" /\ e.key = Stdout(t) /\ Sound(e)
        /\ e.made.dir \in Dirs
    BY DEF Hits, Owned, TypeOK, CacheEntries, Mades
  <2>2. ByDir[GenOf(t)] => e.made.dir = RunOf(t).dir
    BY <1>1, <2>1, RunHasDir DEF Sound, Stdout, CacheCwd
  <2>3. cache' \in SUBSET CacheEntries /\ \A x \in cache' : Sound(x)
    BY <1>1 DEF Owned, TypeOK
  <2> QED
    BY <1>1, <1>3, <2>1, <2>2, <2>3, OutputOwned
<1> QED
  BY <1>2, <1>3 DEF Probe

LEMMA RunScriptOwned == ASSUME Owned, NEW t \in Tasks, RunScript(t) PROVE Owned'
<1>1. task[t].at = "script" /\ UNCHANGED <<run, worker, late, failures>>
      /\ failures' \in [Gens -> Nat]
  BY DEF RunScript, Owned, TypeOK
<1>2. CASE Finish(t, NotMade) /\ UNCHANGED cache
  BY <1>1, <1>2, GiveUpOwned
<1>3. CASE /\ cache' = Inserted(Stdout(t), "stdout", Printed(t))
           /\ task' = [task EXCEPT ![t].at = "process", ![t].dir = RunOf(t).dir]
  <2>1. RunOf(t).dir \in Dirs /\ Stdout(t) \in CacheKeys /\ Printed(t) \in Mades
    BY <1>1, RunHasDir, MadeFields DEF Owned
  <2>2. Sound([key |-> Stdout(t), shape |-> "stdout", made |-> Printed(t)])
    BY DEF Sound, Stdout, Printed, CacheCwd
  <2>3. cache' \in SUBSET CacheEntries /\ \A x \in cache' : Sound(x)
    BY <1>3, <2>1, <2>2, InsertedSound DEF Owned
  <2> QED
    BY <1>1, <1>3, <2>1, <2>3, OutputOwned
<1> QED
  BY <1>2, <1>3 DEF RunScript

LEMMA ProcessOwned == ASSUME Owned, NEW t \in Tasks, Process(t) PROVE Owned'
<1>1. /\ task[t].at = "process" /\ UNCHANGED <<run, worker, late, failures>>
      /\ failures' \in [Gens -> Nat] /\ (task[t].result = "timeout" => t \in late)
      /\ task[t].dir \in Dirs
  BY DEF Process, Owned, TypeOK, TaskTypes, TimeoutIsLate
<1>2. CASE Move(t, "submit") /\ UNCHANGED cache
  BY <1>1, <1>2, MoveOwned DEF Steps, HasOutput, Owned, HoldsDir
<1>3. CASE Finish(t, NotMade) /\ UNCHANGED cache
  BY <1>1, <1>3, GiveUpOwned
<1>4. CASE Kind[GenOf(t)] # "post" /\ Keep(t, task[t].dir)
  <2> QED
    BY <1>1, <1>4, KeepOwned DEF Owned, HoldsDir, HasOutput, InDirectory, Computes
<1> QED
  BY <1>2, <1>3, <1>4 DEF Process

\* The queue takes a task that was not in it.
LEMMA AppendJob ==
  ASSUME NEW q \in Seq(Tasks), NEW t \in Tasks
  PROVE  /\ Append(q, t) \in Seq(Tasks) /\ Len(Append(q, t)) = Len(q) + 1
         /\ Len(q) \in Nat /\ Append(q, t)[Len(q) + 1] = t
         /\ \A i \in 1 .. Len(q) : Append(q, t)[i] = q[i] /\ q[i] \in Tasks
BY AppendProperties, LenProperties, ElementOfSeq

LEMMA SubmitOwned == ASSUME Owned, NEW t \in Tasks, Submit(t) PROVE Owned'
<1>1. /\ task[t].at = "submit" /\ UNCHANGED <<cache, run, late, failures>>
      /\ failures' \in [Gens -> Nat] /\ (task[t].result = "timeout" => t \in late)
  BY DEF Submit, Owned, TypeOK, TimeoutIsLate
<1>2. CASE Finish(t, NotMade) /\ UNCHANGED worker
  BY <1>1, <1>2, GiveUpOwned
<1>3. CASE worker' = [worker EXCEPT !.state = "alive", !.queue = Append(@, t)] /\ Move(t, "job")
  <2> DEFINE old == task[t]
             new == [old EXCEPT !.at = "job"]
             q == worker.queue
  <2>1. old \in TaskTypes /\ worker \in WorkerTypes /\ q \in Seq(Tasks)
    BY DEF Owned, TypeOK, WorkerTypes
  <2>2. /\ new \in TaskTypes /\ new.at = "job" /\ new.dir = old.dir /\ new.result = old.result
        /\ new.answer = old.answer
    <3> HIDE DEF old
    <3> QED
      BY <2>1 DEF TaskTypes, Steps
  <2>3. task' = [task EXCEPT ![t] = new]
    BY <1>3 DEF Move
  <2> HIDE DEF new
  <2>4. task'[t] = new /\ \A u \in Tasks \ {t} : task'[u] = task[u]
    BY <2>3 DEF Owned, TypeOK
  <2>5. HoldsDir(t)' /\ (Kind[GenOf(t)] # "plain" => OwnAnswer(t)')
    BY <1>1, <2>2, <2>4
    DEF Owned, HoldsDir, HasOutput, JsAnswersOwn, OwnAnswer, RunOf, GenOf, Argv, Reads, Computes
  <2>6. /\ task' \in [Tasks -> TaskTypes] /\ JsAnswersOwn'
        /\ \A r \in Runs : Begun(r)'
        /\ \A u \in Tasks : HoldsDir(u)'
    BY <1>1, <2>2, <2>3, <2>5, OneTaskMoves
  <2>7. TimeoutIsLate'
    BY <1>1, <2>2, <2>4 DEF Owned, TimeoutIsLate
  <2>8. /\ worker' \in WorkerTypes /\ worker'.queue = Append(q, t) /\ worker'.job = worker.job
        /\ worker'.interrupted = worker.interrupted /\ worker.job \in Tasks \cup {None}
    BY <1>3, <2>1, AppendJob DEF WorkerTypes
  <2>9. JobsWait'
    <3>1. /\ \A i \in 1 .. Len(q) : q[i] # t /\ q[i] \in Tasks /\ task[q[i]].at = "job"
          /\ \A i \in 1 .. Len(q) : q[i] # worker.job
          /\ \A i, j \in 1 .. Len(q) : q[i] = q[j] => i = j
      BY <1>1, <2>1, AppendJob DEF Owned, JobsWait
    <3>2. worker.job # t /\ (worker.job # None => worker.job \in Tasks \ {t})
      <4>1. t # None
        BY GeneratorsAssumption DEF Tasks
      <4> QED
        BY <1>1, <2>8, <4>1 DEF Owned, JobsWait
    <3>3. \A i \in 1 .. Len(q) + 1 : i \in 1 .. Len(q) \/ i = Len(q) + 1
      BY <2>1, AppendJob
    <3>4. /\ \A i \in 1 .. Len(q) : Append(q, t)[i] = q[i]
          /\ Append(q, t)[Len(q) + 1] = t /\ Len(Append(q, t)) = Len(q) + 1
      BY <2>1, AppendJob
    <3> DEFINE n == Len(q)
               a == Append(q, t)
    <3>5. \A i \in 1 .. n + 1 : task'[a[i]].at = "job" /\ a[i] # worker.job
      BY <2>2, <2>4, <3>1, <3>2, <3>3, <3>4
    <3>6. \A i, j \in 1 .. n + 1 : a[i] = a[j] => i = j
      <4> HIDE DEF a, n, q
      <4> QED
        BY <3>1, <3>3, <3>4 DEF a, n
    <3>7. worker.job # None =>
            task'[worker.job].at = "job" /\ (worker.interrupted => worker.job \in late)
      BY <2>4, <3>2 DEF Owned, JobsWait
    <3> HIDE DEF q
    <3> QED
      BY <1>1, <2>8, <3>4, <3>5, <3>6, <3>7 DEF JobsWait
  <2> QED
    BY <1>1, <2>6, <2>7, <2>8, <2>9 DEF Owned, TypeOK, Sound
<1> QED
  BY <1>2, <1>3 DEF Submit

LEMMA ReplyOwned == ASSUME Owned, NEW t \in Tasks, Reply(t) PROVE Owned'
<1>1. /\ task[t].at = "reply" /\ UNCHANGED <<run, worker>> /\ late' = late \ {t}
      /\ task[t].dir \in Dirs
  BY DEF Reply, Owned, TypeOK, TaskTypes
<1>2. failures' \in [Gens -> Nat]
  <2>1. GeneratorId[GenOf(t)] \in Gens /\ failures \in [Gens -> Nat]
    BY TasksArePairs, GeneratorsAssumption DEF Owned, TypeOK
  <2> DEFINE counted(n) == CASE task[t].result \in {"timeout", "failure"} ->
                                  IF n < DemoteAfter THEN n + 1 ELSE n
                             [] task[t].result = "value" -> 0
                             [] OTHER -> n
             id == GeneratorId[GenOf(t)]
  <2>2. \A n \in Nat : counted(n) \in Nat
    BY GeneratorsAssumption
  <2>3. failures' \in {failures, [failures EXCEPT ![id] = counted(failures[id])]}
    BY DEF Reply, Record
  <2> HIDE DEF counted, id
  <2>4. failures[id] \in Nat /\ counted(failures[id]) \in Nat
    BY <2>1, <2>2 DEF id
  <2> QED
    BY <2>1, <2>3, <2>4 DEF id
<1>3. CASE Finish(t, NotMade) /\ UNCHANGED cache
  BY <1>1, <1>2, <1>3, GiveUpOwned
<1>4. CASE task[t].result = "value" /\ Move(t, "peek") /\ UNCHANGED cache
  BY <1>1, <1>2, <1>4, MoveOwned DEF Steps
<1>5. ASSUME NEW dir \in Dirs, Keep(t, dir),
             InDirectory(GenOf(t)) /\ Kind[GenOf(t)] # "plain" => dir = RunOf(t).dir
      PROVE  Owned'
  BY <1>1, <1>2, <1>5, KeepOwned
<1>6. CASE Keep(t, CASE Kind[GenOf(t)] = "custom" -> RunOf(t).dir
                     [] Kind[GenOf(t)] = "token" -> None
                     [] OTHER -> task[t].dir)
  <2>1. RunOf(t).dir \in Dirs /\ None \in Dirs
    BY <1>1, RunHasDir DEF Dirs
  <2>2. Kind[GenOf(t)] = "post" /\ InDirectory(GenOf(t)) => task[t].dir = RunOf(t).dir
    BY <1>1 DEF Owned, HoldsDir, HasOutput, InDirectory
  <2>3. CASE Kind[GenOf(t)] = "custom"
    BY <1>5, <1>6, <2>1, <2>3
  <2>4. CASE Kind[GenOf(t)] = "token"
    BY <1>5, <1>6, <2>1, <2>4 DEF InDirectory
  <2>5. CASE Kind[GenOf(t)] \in {"plain", "post"}
    BY <1>1, <1>5, <1>6, <2>2, <2>5
  <2>6. CASE Kind[GenOf(t)] = "function"
    BY <1>3, <1>4, <2>6 DEF Reply
  <2> QED
    BY <2>3, <2>4, <2>5, <2>6, TasksArePairs, GeneratorsAssumption
<1> QED
  BY <1>3, <1>4, <1>6 DEF Reply

LEMMA AdvanceOwned == ASSUME Owned, NEW t \in Tasks, Advance(t) PROVE Owned'
BY DispatchOwned, AcquireOwned, PeekOwned, ProbeOwned, RunScriptOwned, ProcessOwned,
   SubmitOwned, ReplyOwned
DEF Advance

-----------------------------------------------------------------------------
(* The steps of the worker, the runs and the clock.                        *)

LEMMA PassDeadlineOwned == ASSUME Owned, NEW t \in Tasks, PassDeadline(t) PROVE Owned'
BY DEF PassDeadline, Owned, TypeOK, JobsWait, TimeoutIsLate, Begun, Sound, HoldsDir, HasOutput,
       JsAnswersOwn, OwnAnswer, RunOf, GenOf, Argv, Reads, Computes

LEMMA StartJobOwned == ASSUME Owned, StartJob PROVE Owned'
<1> DEFINE q == worker.queue
           job == Head(q)
<1>1. /\ q \in Seq(Tasks) /\ q # <<>> /\ worker \in WorkerTypes
      /\ worker' = [worker EXCEPT !.job = job, !.queue = Tail(q), !.interrupted = FALSE]
      /\ UNCHANGED <<cache, run, task, late, failures>>
  BY DEF StartJob, Owned, TypeOK, WorkerTypes
<1>2. /\ job \in Tasks /\ job = q[1] /\ Tail(q) \in Seq(Tasks) /\ Len(q) \in Nat /\ Len(q) > 0
      /\ Len(Tail(q)) = Len(q) - 1
      /\ \A i \in 1 .. Len(Tail(q)) : Tail(q)[i] = q[i + 1]
  BY <1>1, HeadTailProperties, LenProperties, ElementOfSeq
<1>3. /\ worker' \in WorkerTypes /\ worker'.job = job /\ worker'.queue = Tail(q)
      /\ worker'.interrupted = FALSE
  BY <1>1, <1>2 DEF WorkerTypes
<1>4. JobsWait'
  <2>1. /\ \A i \in 1 .. Len(q) : task[q[i]].at = "job"
        /\ \A i, j \in 1 .. Len(q) : q[i] = q[j] => i = j
    BY DEF Owned, JobsWait
  <2> DEFINE r == Tail(q)
  <2>2. \A i \in 1 .. Len(r) : i + 1 \in 1 .. Len(q) /\ 1 \in 1 .. Len(q) /\ i + 1 # 1
    BY <1>2
  <2> HIDE DEF r, q
  <2>3. /\ \A i \in 1 .. Len(r) : task[r[i]].at = "job" /\ r[i] # job
        /\ \A i, j \in 1 .. Len(r) : r[i] = r[j] => i = j
    BY <1>2, <2>1, <2>2 DEF r
  <2>4. task[job].at = "job"
    BY <1>2, <2>1
  <2> QED
    BY <1>1, <1>3, <2>3, <2>4 DEF JobsWait, r
<1> QED
  BY <1>1, <1>3, <1>4
  DEF Owned, TypeOK, TimeoutIsLate, Begun, Sound, HoldsDir, HasOutput,
      JsAnswersOwn, OwnAnswer, RunOf, GenOf, Argv, Reads, Computes

LEMMA InterruptOwned == ASSUME Owned, Interrupt PROVE Owned'
<1>1. /\ worker' = [worker EXCEPT !.interrupted = TRUE] /\ worker \in WorkerTypes
      /\ worker.job \in late
      /\ UNCHANGED <<cache, run, task, late, failures>>
  BY DEF Interrupt, Owned, TypeOK
<1>2. /\ worker' \in WorkerTypes /\ worker'.job = worker.job /\ worker'.queue = worker.queue
  BY <1>1 DEF WorkerTypes
<1>3. JobsWait'
  BY <1>1, <1>2 DEF Owned, JobsWait
<1> QED
  BY <1>1, <1>2, <1>3
  DEF Owned, TypeOK, TimeoutIsLate, Begun, Sound, HoldsDir, HasOutput,
      JsAnswersOwn, OwnAnswer, RunOf, GenOf, Argv, Reads, Computes

\* Tasks whose jobs end, or are lost, have a reply.
LEMMA RepliedOwned ==
  ASSUME Owned, task' \in [Tasks -> TaskTypes], UNCHANGED <<cache, run, late, failures>>,
         worker' \in WorkerTypes, JobsWait', TimeoutIsLate',
         \A t \in Tasks : \/ task'[t] = task[t]
                         \/ /\ task[t].at = "job" /\ task'[t].at = "reply"
                            /\ task'[t].dir = task[t].dir /\ task'[t].answer = task[t].answer
  PROVE  Owned'
<1>1. \A t \in Tasks : HoldsDir(t)'
  BY DEF Owned, HoldsDir, HasOutput, RunOf, GenOf, Computes
<1>2. JsAnswersOwn'
  BY DEF Owned, JsAnswersOwn, OwnAnswer, RunOf, GenOf, Argv, Reads, Computes
<1>3. ASSUME NEW r \in Runs PROVE Begun(r)'
  <2>1. CASE run[r].at # "idle"
    BY <2>1 DEF Owned, Begun
  <2>2. CASE run[r].at = "idle"
    <3>1. \A g \in Gens : <<r, g>> \in Tasks /\ task[<<r, g>>] = Off
      BY <2>2 DEF Owned, Begun, Tasks
    <3> QED
      BY <2>2, <3>1, OffIsTask DEF Begun
  <2> QED
    BY <2>1, <2>2
<1> QED
  BY <1>1, <1>2, <1>3 DEF Owned, TypeOK, Sound

LEMMA EndJobOwned == ASSUME Owned, EndJob PROVE Owned'
<1>1. /\ worker \in WorkerTypes /\ worker.job \in Tasks /\ worker' = [worker EXCEPT !.job = None]
      /\ UNCHANGED <<cache, run, late, failures>>
      /\ task[worker.job].at = "job" /\ (worker.interrupted => worker.job \in late)
  BY DEF EndJob, Owned, TypeOK, WorkerTypes, JobsWait
<1>2. PICK t \in Tasks : t = worker.job
  BY <1>1
<1>3. PICK result \in Results : task' = [task EXCEPT ![t].at = "reply", ![t].result = result]
  BY <1>2 DEF EndJob
<1>4. Results \subseteq Outcomes /\ ("timeout" \in Results => worker.interrupted)
  BY DEF Results, Outcomes
<1> DEFINE old == task[t]
           new == [old EXCEPT !.at = "reply", !.result = result]
<1>5. old \in TaskTypes
  BY DEF Owned, TypeOK
<1>6. /\ new \in TaskTypes /\ new.at = "reply" /\ new.dir = old.dir /\ new.answer = old.answer
      /\ new.result = result
  <2> HIDE DEF old
  <2> QED
    BY <1>4, <1>5 DEF TaskTypes, Steps
<1>7. task' = [task EXCEPT ![t] = new]
  BY <1>3
<1> HIDE DEF new
<1>8. /\ task' \in [Tasks -> TaskTypes] /\ task'[t] = new
      /\ \A u \in Tasks \ {t} : task'[u] = task[u]
  BY <1>6, <1>7 DEF Owned, TypeOK
<1>9. worker' \in WorkerTypes /\ worker'.job = None /\ worker'.queue = worker.queue
  BY <1>1 DEF WorkerTypes
<1>10. JobsWait'
  <2>1. /\ \A i \in 1 .. Len(worker.queue) :
             /\ task[worker.queue[i]].at = "job" /\ worker.queue[i] # t
             /\ worker.queue[i] \in Tasks
        /\ \A i, j \in 1 .. Len(worker.queue) : worker.queue[i] = worker.queue[j] => i = j
    BY <1>1, <1>2 DEF Owned, JobsWait, WorkerTypes
  <2>2. \A u \in Tasks : u # None
    BY GeneratorsAssumption DEF Tasks
  <2> QED
    BY <1>8, <1>9, <2>1, <2>2 DEF JobsWait
<1>11. TimeoutIsLate'
  BY <1>1, <1>2, <1>4, <1>6, <1>8 DEF Owned, TimeoutIsLate
<1>12. task[t].at = "job"
  BY <1>1, <1>2
<1> QED
  BY <1>1, <1>6, <1>8, <1>9, <1>10, <1>11, <1>12, RepliedOwned

LEMMA WorkerDiesOwned == ASSUME Owned, WorkerDies PROVE Owned'
<1>1. /\ worker \in WorkerTypes /\ UNCHANGED <<cache, run, late, failures>>
      /\ worker' = [worker EXCEPT !.state = "dead", !.queue = <<>>, !.job = None]
      /\ task' = [t \in Tasks |->
                    IF t \in Orphaned THEN [task[t] EXCEPT !.at = "reply", !.result = "dead"]
                    ELSE task[t]]
  BY DEF WorkerDies, Owned, TypeOK
<1>2. worker' \in WorkerTypes /\ worker'.job = None /\ worker'.queue = <<>>
  <2>1. <<>> \in Seq(Tasks)
    BY EmptySeq
  <2> DEFINE empty == <<>>
  <2>2. /\ worker' = [worker EXCEPT !.state = "dead", !.queue = empty, !.job = None]
        /\ empty \in Seq(Tasks)
    BY <1>1, <2>1
  <2> HIDE DEF empty
  <2>3. worker' \in WorkerTypes /\ worker'.job = None /\ worker'.queue = empty
    BY <1>1, <2>2 DEF WorkerTypes
  <2> QED
    BY <2>3 DEF empty
<1>3. ASSUME NEW t \in Orphaned PROVE task[t].at = "job"
  <2>1. CASE t = worker.job /\ t # None
    BY <2>1 DEF Owned, JobsWait
  <2>2. CASE t \in ToSet(worker.queue)
    <3>1. worker.queue \in Seq(Tasks)
      BY <1>1 DEF WorkerTypes
    <3>2. PICK i \in 1 .. Len(worker.queue) : t = worker.queue[i]
      BY <2>2, <3>1 DEF ToSet
    <3> QED
      BY <3>2 DEF Owned, JobsWait
  <2> QED
    BY <1>3, <2>1, <2>2 DEF Orphaned
<1>4. ASSUME NEW t \in Tasks
      PROVE  /\ task'[t] \in TaskTypes
             /\ \/ task'[t] = task[t]
                \/ /\ task[t].at = "job" /\ task'[t].at = "reply" /\ task'[t].result = "dead"
                   /\ task'[t].dir = task[t].dir /\ task'[t].answer = task[t].answer
  <2> DEFINE old == task[t]
             new == [old EXCEPT !.at = "reply", !.result = "dead"]
  <2>1. old \in TaskTypes
    BY DEF Owned, TypeOK
  <2>2. /\ new \in TaskTypes /\ new.at = "reply" /\ new.dir = old.dir
        /\ new.answer = old.answer /\ new.result = "dead"
    <3> HIDE DEF old
    <3> QED
      BY <2>1 DEF TaskTypes, Steps, Outcomes
  <2>3. task'[t] = IF t \in Orphaned THEN new ELSE task[t]
    BY <1>1
  <2> HIDE DEF new
  <2> QED
    BY <1>3, <2>1, <2>2, <2>3
<1>5. task' \in [Tasks -> TaskTypes]
  BY <1>1, <1>4
<1>6. JobsWait'
  BY <1>2 DEF JobsWait
<1>7. TimeoutIsLate'
  BY <1>1, <1>4 DEF Owned, TimeoutIsLate
<1> QED
  BY <1>1, <1>2, <1>4, <1>5, <1>6, <1>7, RepliedOwned

LEMMA StartOwned ==
  ASSUME Owned, NEW r \in Runs, NEW call \in Calls[r], Start(r, call)
  PROVE  Owned'
<1>1. /\ run[r].at = "idle" /\ UNCHANGED <<cache, worker, late, failures>>
      /\ run' = [run EXCEPT ![r] = [at |-> "active", site |-> call.site, dir |-> call.dir,
                                    line |-> call.line]]
      /\ task' = [t \in Tasks |-> IF t[1] = r /\ t[2] \in call.site
                                  THEN [Off EXCEPT !.at = "dispatch"] ELSE task[t]]
  BY DEF Start
<1>2. call.site \in SUBSET Gens /\ call.dir \in Dirs /\ call.dir # None /\ call.line \in Lines
  BY CallsAssumption DEF Dirs, Lines
<1> DEFINE begun == [at |-> "active", site |-> call.site, dir |-> call.dir, line |-> call.line]
           first == [Off EXCEPT !.at = "dispatch"]
<1>3. begun \in RunTypes /\ begun.at = "active" /\ begun.dir = call.dir
  BY <1>2 DEF RunTypes
<1>4. /\ first \in TaskTypes /\ first.at = "dispatch" /\ first.result = None
      /\ first.answer = NotMade /\ first.result # "timeout"
  BY OffIsTask, GeneratorsAssumption DEF TaskTypes, Steps
<1>5. /\ run' \in [Runs -> RunTypes] /\ run'[r] = begun
      /\ \A o \in Runs \ {r} : run'[o] = run[o]
  BY <1>1, <1>3 DEF Owned, TypeOK
<1>6. \A t \in Tasks : task'[t] = IF t[1] = r /\ t[2] \in call.site THEN first ELSE task[t]
  BY <1>1
<1> HIDE DEF begun, first
<1>7. \A t \in Tasks : t[1] = r => task[t] = Off
  BY <1>1, TasksArePairs DEF Owned, Begun
<1>8. \A t \in Tasks : /\ t[1] = r => task'[t] \in {first, Off}
                       /\ t[1] # r => task'[t] = task[t] /\ run'[t[1]] = run[t[1]]
  BY <1>5, <1>6, <1>7, TasksArePairs
<1>9. task' \in [Tasks -> TaskTypes]
  <2>1. \A t \in Tasks : task'[t] \in TaskTypes
    BY <1>4, <1>6 DEF Owned, TypeOK
  <2> QED
    BY <1>1, <2>1
<1>10. \A t \in Tasks : t[1] = r => /\ task'[t].at \in {"off", "dispatch"}
                                   /\ task'[t].answer = NotMade /\ task'[t].result # "timeout"
  BY <1>4, <1>8, OffIsTask
<1>11. \A t \in Tasks : task[t].at = "job" => task'[t] = task[t]
  BY <1>7, <1>8, OffIsTask
<1>12. JobsWait'
  <2>1. \A i \in 1 .. Len(worker.queue) : worker.queue[i] \in Tasks
    BY DEF Owned, TypeOK, WorkerTypes
  <2>2. worker.job # None => worker.job \in Tasks
    BY DEF Owned, TypeOK, WorkerTypes
  <2>3. JobsWait /\ worker' = worker /\ late' = late
    BY <1>1 DEF Owned
  <2>4. \A i \in 1 .. Len(worker.queue) : task'[worker.queue[i]].at = "job"
    BY <1>11, <2>1, <2>3 DEF JobsWait
  <2>5. worker.job # None => task'[worker.job].at = "job"
    BY <1>11, <2>2, <2>3 DEF JobsWait
  <2> QED
    BY <2>3, <2>4, <2>5 DEF JobsWait
<1>13. TimeoutIsLate'
  BY <1>1, <1>8, <1>10 DEF Owned, TimeoutIsLate
<1>14. \A t \in Tasks : HoldsDir(t)'
  <2> SUFFICES ASSUME NEW t \in Tasks PROVE HoldsDir(t)'
    OBVIOUS
  <2>1. CASE t[1] = r
    BY <1>10, <2>1 DEF HoldsDir, HasOutput
  <2>2. CASE t[1] # r
    BY <1>8, <2>2 DEF Owned, HoldsDir, HasOutput, RunOf, GenOf, Computes
  <2> QED
    BY <2>1, <2>2
<1>15. JsAnswersOwn'
  <2> SUFFICES ASSUME NEW t \in Tasks, Kind[GenOf(t)] # "plain" PROVE OwnAnswer(t)'
    BY DEF JsAnswersOwn, GenOf
  <2>1. CASE t[1] = r
    BY <1>10, <2>1 DEF OwnAnswer
  <2>2. CASE t[1] # r
    BY <1>8, <2>2 DEF Owned, JsAnswersOwn, OwnAnswer, RunOf, GenOf, Argv, Reads, Computes
  <2> QED
    BY <2>1, <2>2
<1>16. ASSUME NEW o \in Runs PROVE Begun(o)'
  <2>1. CASE o = r
    BY <1>2, <1>3, <1>5, <2>1 DEF Begun
  <2>2. CASE o # r
    <3>1. \A g \in Gens : task'[<<o, g>>] = task[<<o, g>>]
      BY <1>8, <2>2 DEF Tasks
    <3> QED
      BY <1>5, <2>2, <3>1 DEF Owned, Begun
  <2> QED
    BY <2>1, <2>2
<1> QED
  BY <1>1, <1>5, <1>9, <1>12, <1>13, <1>14, <1>15, <1>16 DEF Owned, TypeOK, Sound

\* A run that is over leaves its tasks what they have.
LEMMA RunEndsOwned ==
  ASSUME Owned, NEW r \in Runs, NEW at \in {"returned", "aborted"}, run[r].at = "active",
         run' = [run EXCEPT ![r].at = at], UNCHANGED <<cache, task, worker, late, failures>>
  PROVE  Owned'
<1> DEFINE old == run[r]
           new == [old EXCEPT !.at = at]
<1>1. old \in RunTypes
  BY DEF Owned, TypeOK
<1>2. new \in RunTypes /\ new.at = at /\ new.dir = old.dir /\ new.line = old.line
  <2> HIDE DEF old
  <2> QED
    BY <1>1 DEF RunTypes
<1>3. run' = [run EXCEPT ![r] = new]
  OBVIOUS
<1> HIDE DEF new
<1>4. /\ run' \in [Runs -> RunTypes] /\ run'[r] = new
      /\ \A o \in Runs \ {r} : run'[o] = run[o]
  BY <1>2, <1>3 DEF Owned, TypeOK
<1>5. \A t \in Tasks : run'[t[1]].dir = run[t[1]].dir /\ run'[t[1]].line = run[t[1]].line
  BY <1>2, <1>4, TasksArePairs
<1>6. JsAnswersOwn' /\ \A t \in Tasks : HoldsDir(t)'
  BY <1>5 DEF Owned, JsAnswersOwn, OwnAnswer, HoldsDir, HasOutput, RunOf, GenOf, Argv, Reads,
              Computes
<1>7. \A o \in Runs : Begun(o)'
  BY <1>2, <1>4 DEF Owned, Begun
<1> QED
  BY <1>4, <1>6, <1>7 DEF Owned, TypeOK, JobsWait, TimeoutIsLate, Sound

LEMMA ExpireOwned == ASSUME Owned, NEW e \in cache, Expire(e) PROVE Owned'
BY DEF Expire, Owned, TypeOK, JobsWait, TimeoutIsLate, Begun, Sound, HoldsDir, HasOutput,
       JsAnswersOwn, OwnAnswer, RunOf, GenOf, Argv, Reads, Computes

LEMMA NextOwned == Owned /\ [Next]_vars => Owned'
<1> SUFFICES ASSUME Owned, [Next]_vars PROVE Owned'
  OBVIOUS
<1>1. CASE UNCHANGED vars
  BY <1>1 DEF vars, Owned, TypeOK, JobsWait, TimeoutIsLate, Begun, Sound, HoldsDir, HasOutput,
              JsAnswersOwn, OwnAnswer, RunOf, GenOf, Argv, Reads, Computes
<1>2. ASSUME NEW r \in Runs, Return(r) \/ Abort(r) PROVE Owned'
  BY <1>2, RunEndsOwned DEF Return, Abort
<1> QED
  BY <1>1, <1>2, StartOwned, AdvanceOwned, PassDeadlineOwned, StartJobOwned, InterruptOwned,
     EndJobOwned, WorkerDiesOwned, ExpireOwned
  DEF Next

-----------------------------------------------------------------------------
(* The theorems.                                                           *)

\* The jobs of the worker are tasks that wait for it, an entry of the cache is what its key
\* says, and what a task has in hand is its own: the inductive invariant, with the types.
THEOREM SpecOwned == Spec => []Owned
BY InitOwned, NextOwned, PTL DEF Spec

\* Whichever runs of the command are in flight, aborted or over, and whoever filled the
\* cache, what a JavaScript generator answers is what its own body makes of its own script
\* for this command line and, where that matters, in this directory (CacheKey::JsProcessed).
THEOREM SpecJsAnswersOwn == Spec => []JsAnswersOwn
<1>1. Owned => JsAnswersOwn
  BY DEF Owned
<1> QED
  BY <1>1, SpecOwned, PTL

\* No job is said to have timed out for the sake of one that ran on the thread before it:
\* its own deadline has passed (run_job, the latch).
THEOREM SpecTimeoutIsLate == Spec => []TimeoutIsLate
<1>1. Owned => TimeoutIsLate
  BY DEF Owned
<1> QED
  BY <1>1, SpecOwned, PTL

=============================================================================
