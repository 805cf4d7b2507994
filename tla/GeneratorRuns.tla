------------------------------ MODULE GeneratorRuns ------------------------------
(***************************************************************************)
(* The script generators of one command as the engine runs them            *)
(* (crates/gc-suggest/src/engine.rs, run_generators_with_env): each run    *)
(* spawns a task per generator; the tasks share the result cache, the one  *)
(* JavaScript worker thread (crates/gc-jsrt/src/worker.rs) and the count   *)
(* of failures that demotes token_only generators.  A run that is aborted  *)
(* leaves its tasks running.                                               *)
(*                                                                         *)
(* What a script prints or a body computes is abstracted to what it was    *)
(* made from: the generator, the argv, the directory, the command line.    *)
(***************************************************************************)
EXTENDS Naturals, Sequences, FiniteSets, SequencesExt

CONSTANTS
  Runs,           \* calls of run_generators_with_env
  Gens,           \* GeneratorSpecs of the command
  Calls,          \* what each run may be called with: the generators of an argument
                  \* position, a working directory and a command line
  Kind,           \* JsRuntimeKind of each generator, "plain" without JavaScript
  Script,         \* the script of each generator
  ByDir,          \* cache_by_directory
  ReadsTokens,    \* post_process_reads_tokens
  GeneratorId,    \* token_only_generator_id: the command and the place in the list
  MaxConcurrent,  \* MAX_CONCURRENT_GENERATORS
  DemoteAfter,    \* TOKEN_ONLY_DEMOTE_AFTER_FAILURES
  None

ASSUME GeneratorsAssumption ==
  /\ Kind \in [Gens -> {"plain", "post", "function", "custom", "token"}]
  /\ ByDir \in [Gens -> BOOLEAN] /\ ReadsTokens \in [Gens -> BOOLEAN]
  /\ GeneratorId \in [Gens -> Gens] /\ DemoteAfter \in Nat
  /\ None \notin Gens \cup (Runs \X Gens) \cup {"timeout"}

\* A run has a working directory.
ASSUME CallsAssumption ==
  \A r \in Runs : \A call \in Calls[r] : call.site \subseteq Gens /\ call.dir # None

VARIABLES
  cache,      \* generator_cache: entries, of distinct keys, whose time is not over
  run,        \* where each run is, and what it was called with
  task,       \* the task of each generator of each run
  worker,     \* JsWorker: its state, its queue, the job it runs, the timeout latch
  late,       \* the jobs not yet answered whose deadline has passed
  failures    \* consecutive_failures of each generator id, counted up to DemoteAfter

vars == <<cache, run, task, worker, late, failures>>

Tasks == Runs \X Gens
NotMade == [of |-> None, argv |-> None, dir |-> None, line |-> None]
Off == [at |-> "off", dir |-> None, result |-> None, answer |-> NotMade]

Init ==
  /\ cache = {}
  /\ run = [r \in Runs |-> [at |-> "idle", site |-> {}, dir |-> None, line |-> None]]
  /\ task = [t \in Tasks |-> Off]
  /\ worker = [state |-> "unspawned", queue |-> <<>>, job |-> None, interrupted |-> FALSE]
  /\ late = {}
  /\ failures = [g \in Gens |-> 0]

-----------------------------------------------------------------------------
(* CacheKey.                                                               *)

RunOf(t) == run[t[1]]
GenOf(t) == t[2]
Computes(t) == Kind[GenOf(t)] \in {"custom", "token"}

\* resolve_script_argv; a script_function computes its argv from the tokens.
Argv(t) == CASE Kind[GenOf(t)] = "function" -> <<Script[GenOf(t)], RunOf(t).line>>
             [] Computes(t) -> None
             [] OTHER -> <<Script[GenOf(t)], None>>

\* cache_cwd_owned
CacheCwd(t) == IF ByDir[GenOf(t)] THEN RunOf(t).dir ELSE None

Stdout(t) == [layer |-> "stdout", argv |-> Argv(t), dir |-> CacheCwd(t),
              source |-> None, line |-> None]

\* What of the command line a body can read.
Reads(t) == IF Computes(t) \/ (Kind[GenOf(t)] = "post" /\ ReadsTokens[GenOf(t)])
            THEN RunOf(t).line ELSE None

\* Mutation: a custom body is taken not to depend on the directory.
ProcessedAnywhere(t) ==
  [layer |-> "js", argv |-> Argv(t), dir |-> IF Computes(t) THEN None ELSE CacheCwd(t),
   source |-> GenOf(t), line |-> Reads(t)]

\* js_processed_with_env, and js_processed for token_only
JsProcessed(t) ==
  [layer |-> "js", argv |-> Argv(t),
   dir |-> CASE Kind[GenOf(t)] = "custom" -> RunOf(t).dir
             [] Kind[GenOf(t)] = "token"  -> None
             [] OTHER -> CacheCwd(t),
   source |-> GenOf(t), line |-> Reads(t)]

SuggestionsKey(t) == IF Kind[GenOf(t)] = "plain" THEN Stdout(t) ELSE JsProcessed(t)

\* get, get_stdout: an entry of the other shape is a miss.
Hits(key, shape) == {e \in cache : e.key = key /\ e.shape = shape}
Inserted(key, shape, made) ==
  {e \in cache : e.key # key} \cup {[key |-> key, shape |-> shape, made |-> made]}

Printed(t) == [of |-> None, argv |-> Argv(t), dir |-> RunOf(t).dir, line |-> None]
Made(t, dir) == [of |-> GenOf(t), argv |-> Argv(t), dir |-> dir, line |-> Reads(t)]

-----------------------------------------------------------------------------
(* run_generators_with_env                                                 *)

Start(r, call) ==
  /\ run[r].at = "idle"
  /\ run' = [run EXCEPT ![r] = [at |-> "active", site |-> call.site, dir |-> call.dir,
                                line |-> call.line]]
  /\ task' = [t \in Tasks |-> IF t[1] = r /\ t[2] \in call.site
                              THEN [Off EXCEPT !.at = "dispatch"] ELSE task[t]]
  /\ UNCHANGED <<cache, worker, late, failures>>

Move(t, at) == task' = [task EXCEPT ![t].at = at]
Finish(t, made) == task' = [task EXCEPT ![t] = [Off EXCEPT !.at = "done", !.answer = made]]

\* is_demoted
IsDemoted(g) == failures[GeneratorId[g]] >= DemoteAfter

\* The body of the loop: a warm plain or post_process result needs no task.
Dispatch(t) ==
  LET warm == IF Kind[GenOf(t)] \in {"plain", "post"}
              THEN Hits(SuggestionsKey(t), "suggestions") ELSE {}
  IN
  /\ task[t].at = "dispatch"
  /\ IF Kind[GenOf(t)] = "token" /\ IsDemoted(GenOf(t)) THEN Finish(t, NotMade)
     ELSE IF warm # {} THEN \E e \in warm : Finish(t, e.made)
     ELSE Move(t, "permit")
  /\ UNCHANGED <<cache, run, worker, late, failures>>

\* All results are in, in the order of the list.
Return(r) ==
  /\ run[r].at = "active"
  /\ \A g \in run[r].site : task[<<r, g>>].at = "done"
  /\ run' = [run EXCEPT ![r].at = "returned"]
  /\ UNCHANGED <<cache, task, worker, late, failures>>

\* The handler aborts the run, which drops the handles of its tasks.
Abort(r) ==
  /\ run[r].at = "active"
  /\ run' = [run EXCEPT ![r].at = "aborted"]
  /\ UNCHANGED <<cache, task, worker, late, failures>>

-----------------------------------------------------------------------------
(* One task, between its awaits and its accesses to the cache.             *)

Holders(r) ==
  {g \in run[r].site : task[<<r, g>>].at \notin {"off", "dispatch", "permit", "done"}}

Acquire(t) ==
  /\ task[t].at = "permit"
  /\ Cardinality(Holders(t[1])) < MaxConcurrent
  /\ Move(t, CASE Computes(t) -> "peek"
               [] Kind[GenOf(t)] = "function" -> "submit"
               [] OTHER -> "probe")
  /\ UNCHANGED <<cache, run, worker, late, failures>>

\* The processed result, by its key, before the work is done.
Peek(t) ==
  LET hits == Hits(SuggestionsKey(t), "suggestions") IN
  /\ task[t].at = "peek"
  /\ IF hits # {} THEN \E e \in hits : Finish(t, e.made)
     ELSE Move(t, IF Computes(t) THEN "submit" ELSE "probe")
  /\ UNCHANGED <<cache, run, worker, late, failures>>

Probe(t) ==
  LET hits == Hits(Stdout(t), "stdout") IN
  /\ task[t].at = "probe"
  /\ IF hits = {} THEN Move(t, "script")
     ELSE \E e \in hits :
            task' = [task EXCEPT ![t].at = "process", ![t].dir = e.made.dir]
  /\ UNCHANGED <<cache, run, worker, late, failures>>

\* run_script_with_env: output, or an error, a bad exit or the timeout
RunScript(t) ==
  /\ task[t].at = "script"
  /\ \/ /\ cache' = Inserted(Stdout(t), "stdout", Printed(t))
        /\ task' = [task EXCEPT ![t].at = "process", ![t].dir = RunOf(t).dir]
     \/ Finish(t, NotMade) /\ UNCHANGED cache
  /\ UNCHANGED <<run, worker, late, failures>>

\* Suggestions are kept unless there are none.
Keep(t, dir) ==
  /\ cache' = Inserted(SuggestionsKey(t), "suggestions", Made(t, dir))
  /\ Finish(t, Made(t, dir))

Process(t) ==
  /\ task[t].at = "process"
  /\ \/ Kind[GenOf(t)] = "post" /\ Move(t, "submit") /\ UNCHANGED cache
     \/ Kind[GenOf(t)] # "post" /\ Keep(t, task[t].dir)
     \/ Kind[GenOf(t)] # "post" /\ Finish(t, NotMade) /\ UNCHANGED cache
  /\ UNCHANGED <<run, worker, late, failures>>

\* evaluate, after worker: the thread is spawned on first use, or cannot be; one
\* that has died stays dead.
Submit(t) ==
  /\ task[t].at = "submit"
  /\ \/ /\ worker.state # "dead"
        /\ worker' = [worker EXCEPT !.state = "alive", !.queue = Append(@, t)]
        /\ Move(t, "job")
     \/ worker.state # "alive" /\ Finish(t, NotMade) /\ UNCHANGED worker
  /\ UNCHANGED <<cache, run, late, failures>>

\* record_timeout, record_failure, record_success
Record(t) ==
  LET g == GenOf(t)
      counted(n) == CASE task[t].result \in {"timeout", "failure"} ->
                           IF n < DemoteAfter THEN n + 1 ELSE n
                      [] task[t].result = "value" -> 0
                      [] OTHER -> n
  IN  IF Kind[g] = "token"
      THEN failures' = [failures EXCEPT ![GeneratorId[g]] = counted(@)]
      ELSE UNCHANGED failures

\* The reply of the worker
Reply(t) ==
  /\ task[t].at = "reply"
  /\ Record(t)
  /\ IF task[t].result # "value" THEN Finish(t, NotMade) /\ UNCHANGED cache
     ELSE IF Kind[GenOf(t)] = "function" THEN Move(t, "peek") /\ UNCHANGED cache
     ELSE Keep(t, CASE Kind[GenOf(t)] = "custom" -> RunOf(t).dir
                    [] Kind[GenOf(t)] = "token" -> None
                    [] OTHER -> task[t].dir)
  /\ late' = late \ {t}
  /\ UNCHANGED <<run, worker>>

-----------------------------------------------------------------------------
(* The worker thread.                                                      *)

\* The clock passes the deadline of a job, which counts from its submission.
PassDeadline(t) ==
  /\ task[t].at = "job" /\ t \notin late
  /\ late' = late \cup {t}
  /\ UNCHANGED <<cache, run, task, worker, failures>>

\* Mutation: the latch of the job before is not reset.
StartJobLatched ==
  /\ worker.state = "alive" /\ worker.job = None /\ worker.queue # <<>>
  /\ worker' = [worker EXCEPT !.job = Head(worker.queue), !.queue = Tail(@)]
  /\ UNCHANGED <<cache, run, task, late, failures>>

\* worker_main takes a job, run_job resets the latch.
StartJob ==
  /\ worker.state = "alive" /\ worker.job = None /\ worker.queue # <<>>
  /\ worker' = [worker EXCEPT !.job = Head(worker.queue), !.queue = Tail(@),
                              !.interrupted = FALSE]
  /\ UNCHANGED <<cache, run, task, late, failures>>

\* The interrupt handler
Interrupt ==
  /\ worker.job \in late /\ ~worker.interrupted
  /\ worker' = [worker EXCEPT !.interrupted = TRUE]
  /\ UNCHANGED <<cache, run, task, late, failures>>

\* classify_error: an error is a timeout if the latch is set; a body that ends
\* before the handler is polled has its value.  Only a token_only task tells no
\* suggestions from a failure.
Results == IF worker.interrupted THEN {"timeout"}
           ELSE {"value", "failure"} \cup
                (IF Kind[GenOf(worker.job)] = "token" THEN {"nothing"} ELSE {})

EndJob ==
  /\ worker.job # None
  /\ \E result \in Results :
       task' = [task EXCEPT ![worker.job].at = "reply", ![worker.job].result = result]
  /\ worker' = [worker EXCEPT !.job = None]
  /\ UNCHANGED <<cache, run, late, failures>>

\* Mutation: the jobs in the queue are not told.
OrphanedLater == {worker.job} \ {None}

\* Their reply senders are dropped with the receiver.
Orphaned == ({worker.job} \cup ToSet(worker.queue)) \ {None}

\* The runtime cannot be created, or the thread panics.
WorkerDies ==
  /\ worker.state = "alive"
  /\ worker' = [worker EXCEPT !.state = "dead", !.queue = <<>>, !.job = None]
  /\ task' = [t \in Tasks |->
                IF t \in Orphaned THEN [task[t] EXCEPT !.at = "reply", !.result = "dead"]
                ELSE task[t]]
  /\ UNCHANGED <<cache, run, late, failures>>

Expire(e) ==
  /\ cache' = cache \ {e}
  /\ UNCHANGED <<run, task, worker, late, failures>>

-----------------------------------------------------------------------------

Advance(t) ==
  \/ Dispatch(t) \/ Acquire(t) \/ Peek(t) \/ Probe(t) \/ RunScript(t) \/ Process(t)
  \/ Submit(t) \/ Reply(t)

Next ==
  \/ \E r \in Runs :
       \/ \E call \in Calls[r] : Start(r, call)
       \/ Return(r) \/ Abort(r)
  \/ \E t \in Tasks : Advance(t) \/ PassDeadline(t)
  \/ StartJob \/ Interrupt \/ EndJob \/ WorkerDies
  \/ \E e \in cache : Expire(e)

\* Scripts and bodies have timeouts; the scheduler runs what can run.
Fairness ==
  /\ \A t \in Tasks : WF_vars(Advance(t))
  /\ \A r \in Runs : WF_vars(Return(r))
  /\ WF_vars(StartJob) /\ WF_vars(EndJob)

Spec == Init /\ [][Next]_vars /\ Fairness

-----------------------------------------------------------------------------
(* Properties.                                                             *)

\* A token_only body sees nothing but the tokens.
InDirectory(g) == Kind[g] = "custom" \/ (ByDir[g] /\ Kind[g] # "token")

OwnAnswer(t) ==
  LET a == task[t].answer IN
  a # NotMade =>
    /\ a.of = GenOf(t) /\ a.argv = Argv(t) /\ a.line = Reads(t)
    /\ InDirectory(GenOf(t)) => a.dir = RunOf(t).dir

\* What a JavaScript generator answers, cached or not, is what its own body makes
\* of its own script, in this directory where that matters and for this command
\* line where it reads it, whichever runs are in flight (CacheKey::JsProcessed).
JsAnswersOwn == \A t \in Tasks : Kind[GenOf(t)] # "plain" => OwnAnswer(t)

\* A job is said to have timed out only if its own deadline has passed, whatever
\* ran on the thread before it (the latch).
TimeoutIsLate == \A t \in Tasks : task[t].result = "timeout" => t \in late

\* A run that is not aborted returns: permits, the queue and the worker's death
\* leave no task waiting.
RunsReturn == \A r \in Runs : run[r].at = "active" ~> run[r].at # "active"

=============================================================================
