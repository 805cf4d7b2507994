----------------------- MODULE DynamicGeneratorsProofs -----------------------
(***************************************************************************)
(* Theorems about DynamicGenerators, for every value of its constants.     *)
(*                                                                         *)
(* Type correctness holds whatever render_block_ms is.  The theorems on    *)
(* lost wakeups and skipped triggers assume that no wait is bounded        *)
(* (Blocks = FALSE): their invariant is that the handler's only channel is *)
(* the one of the latest generation.  Those on mixed generations and on    *)
(* merges also hold with bounded waits, if nothing triggers beside them.   *)
(***************************************************************************)
EXTENDS DynamicGenerators, TLAPS

-----------------------------------------------------------------------------
(* The operations of the handler have handlers for values.                 *)

\* A teardown leaves a handler.
LEMMA TeardownType ==
  ASSUME NEW h \in Handlers
  PROVE  Teardown(h) \in Handlers /\ DismissIfVisible(h) \in Handlers
  BY DEF Handlers, Teardown, DismissIfVisible, Option, Feedbacks

\* So does the head of a trigger, below the bound on generations.
LEMMA NextGenerationType ==
  ASSUME NEW h \in Handlers, h.generation < MaxGeneration
  PROVE  /\ NextGeneration(h) \in Handlers
         /\ NextGeneration(h).generation = h.generation + 1
         /\ NextGeneration(h).generation \in Generations
<1> DEFINE n == h.generation + 1
<1>1. n \in 0..MaxGeneration /\ n \in Generations
  BY BoundsAssumption DEF Handlers, Generations
<1>2. NextGeneration(h) =
        [h EXCEPT !.task = None, !.rx = None, !.ctx = None,
                  !.feedback = "Idle", !.failed = FALSE, !.empties = FALSE,
                  !.generation = n]
  BY DEF NextGeneration, Handlers
<1> HIDE DEF n
<1> DEFINE g == [h EXCEPT !.task = None, !.rx = None, !.ctx = None]
<1>3. g \in Handlers
  BY DEF Handlers, Option
<1>4. NextGeneration(h) = [g EXCEPT !.feedback = "Idle", !.failed = FALSE,
                                    !.empties = FALSE, !.generation = n]
  BY <1>2 DEF Handlers
<1> HIDE DEF g
<1> DEFINE f == [g EXCEPT !.feedback = "Idle", !.failed = FALSE]
<1>5. f \in Handlers
  BY <1>3 DEF Handlers, Feedbacks
<1>6. NextGeneration(h) = [f EXCEPT !.empties = FALSE, !.generation = n]
  BY <1>3, <1>4 DEF Handlers
<1> HIDE DEF f
<1>7. /\ NextGeneration(h) \in Handlers
      /\ NextGeneration(h).generation = n
  BY <1>1, <1>5, <1>6 DEF Handlers
<1> QED BY <1>1, <1>7 DEF n

\* Suggestions of a generation are items.
LEMMA GenerationItems ==
  ASSUME NEW g \in Generations
  PROVE  /\ Async(g) \in SUBSET Items
         /\ {[run |-> g, kind |-> "static"]} \in SUBSET Items
  BY BoundsAssumption DEF Async, Items, Generations

\* Showing static suggestions, once a generation has begun.
LEMMA ShowStaticType ==
  ASSUME NEW h \in Handlers, h.generation \in Generations
  PROVE  ShowStatic(h) \in Handlers
<1> DEFINE S == {[run |-> h.generation, kind |-> "static"]}
<1>1. S \in SUBSET Items
  BY GenerationItems
<1>2. ShowStatic(h) = [h EXCEPT !.visible = TRUE, !.suggestions = S]
  BY DEF ShowStatic
<1> HIDE DEF S
<1> QED BY <1>1, <1>2 DEF Handlers

\* Showing those of an accepted directory.
LEMMA ShowChainedType ==
  ASSUME NEW h \in Handlers
  PROVE  /\ ShowChained(h) \in Handlers
         /\ ShowChained(h).suggestions =
              {[run |-> h.generation, kind |-> "chained"]}
<1> DEFINE S == {[run |-> h.generation, kind |-> "chained"]}
<1>1. S \in SUBSET Items
  BY DEF Items, Handlers
<1>2. ShowChained(h) = [h EXCEPT !.suggestions = S]
  BY DEF ShowChained
<1> HIDE DEF S
<1>3. ShowChained(h) \in Handlers /\ ShowChained(h).suggestions = S
  BY <1>1, <1>2 DEF Handlers
<1> QED BY <1>3 DEF S

\* Spawning a run.
LEMMA SpawnGeneratorsType ==
  ASSUME NEW h \in Handlers, h.generation \in Generations, NEW s \in Snapshots
  PROVE  SpawnGenerators(h, s) \in Handlers
  BY DEF Handlers, SpawnGenerators, Option, Feedbacks

\* Counting messages, and concluding a run.
LEMMA CollectType ==
  ASSUME NEW h \in Handlers, NEW messages, NEW closed \in BOOLEAN
  PROVE  Collect(h, messages, closed) \in Handlers
<1> DEFINE f == h.failed \/ "Error" \in messages
           e == h.empties \/ "Empty" \in messages
           r == IF closed THEN None ELSE h.rx
           t == IF closed THEN None ELSE h.task
<1>1. f \in BOOLEAN /\ e \in BOOLEAN
  OBVIOUS
<1>2. r \in Option(Generations) /\ t \in Option(Generations)
  BY DEF Handlers, Option
<1>3. Collect(h, messages, closed) =
        [h EXCEPT !.failed = f, !.empties = e, !.rx = r, !.task = t]
  BY DEF Collect
<1> HIDE DEF f, e, r, t
<1> QED BY <1>1, <1>2, <1>3 DEF Handlers

LEMMA OutcomeType ==
  ASSUME NEW loaded, NEW failed, NEW empties
  PROVE  /\ TerminalForOutcome(loaded, failed, empties) \in Feedbacks
         /\ TerminalForOutcome(loaded, failed, empties) # "Loading"
  BY DEF TerminalForOutcome, Feedbacks

LEMMA ConcludeType ==
  ASSUME NEW h \in Handlers, NEW closed, NEW shown
  PROVE  Conclude(h, closed, shown) \in Handlers
<1> DEFINE f == TerminalForOutcome(shown, h.failed, h.empties)
<1>1. f \in Feedbacks
  BY OutcomeType
<1> DEFINE k == [h EXCEPT !.ctx = None, !.failed = FALSE,
                          !.empties = FALSE, !.feedback = f]
<1>2. Conclude(h, closed, shown) = IF closed THEN k ELSE h
  BY DEF Conclude
<1>3. k \in Handlers
  <2> HIDE DEF f
  <2> QED BY <1>1 DEF Handlers, Option
<1> HIDE DEF k
<1> QED BY <1>2, <1>3

LEMMA DropStaleType ==
  ASSUME NEW h \in Handlers
  PROVE  DropStale(h) \in Handlers
  BY DEF Handlers, DropStale, Option, Feedbacks

\* What a trigger leaves behind, before its fingerprint.
LEMMA TriggeredType ==
  ASSUME NEW h \in Handlers, h.generation < MaxGeneration,
         NEW static \in BOOLEAN, NEW messages, NEW s \in Snapshots
  PROVE  /\ Triggered(h, static, messages, s) \in Handlers
         /\ Triggered(h, static, messages, s).generation = h.generation + 1
<1> DEFINE reset == NextGeneration(h)
           shown == IF static THEN ShowStatic(reset)
                              ELSE DismissIfVisible(reset)
<1>1. /\ reset \in Handlers /\ reset.generation = h.generation + 1
      /\ reset.generation \in Generations
  BY NextGenerationType
<1>2. shown \in Handlers
  BY <1>1, ShowStaticType, TeardownType
<1>3. shown.generation = reset.generation
  <2> HIDE DEF reset
  <2> QED BY <1>1 DEF Handlers, ShowStatic, DismissIfVisible, Teardown
<1>4. Triggered(h, static, messages, s) =
        IF messages > 0 THEN SpawnGenerators(shown, s) ELSE shown
  BY DEF Triggered
<1> HIDE DEF reset, shown
<1>5. SpawnGenerators(shown, s) \in Handlers
  BY <1>1, <1>2, <1>3, SpawnGeneratorsType
<1>6. SpawnGenerators(shown, s).generation = shown.generation
  BY <1>2 DEF SpawnGenerators, Handlers
<1> QED BY <1>1, <1>2, <1>3, <1>4, <1>5, <1>6

-----------------------------------------------------------------------------
(* The same for the runs.                                                  *)

\* Aborting a task.
LEMMA AbortedType ==
  ASSUME NEW rs \in [Generations -> Runs], NEW t \in Option(Generations)
  PROVE  Aborted(rs, t) \in [Generations -> Runs]
  BY DEF Aborted, Runs, Option

\* Draining a channel.
LEMMA DrainedType ==
  ASSUME TypeOK, NEW g \in Generations
  PROVE  Drained(g) \in [Generations -> Runs]
<1>1. <<>> \in Seq(Results)
  OBVIOUS
<1> QED BY <1>1 DEF TypeOK, Drained, Runs

\* The snapshot of a buffer.
LEMMA SnapshotType ==
  ASSUME NEW b \in Buffers, NEW pinned \in BOOLEAN
  PROVE  Snapshot(b, pinned) \in Snapshots
  BY DEF Snapshot, Buffers, Snapshots

\* A new run takes the place of the next generation.
LEMMA StartRunType ==
  ASSUME TypeOK, handler.generation < MaxGeneration,
         NEW messages \in 0..MaxMessages, NEW s \in Snapshots
  PROVE  /\ StartRun(messages, s) \in [Generations -> Runs]
         /\ handler.generation + 1 \in Generations
<1>1. NewRun(messages, s) \in Runs
  <2>1. <<>> \in Seq(Results)
    OBVIOUS
  <2> QED BY <2>1 DEF NewRun, Runs, Option, TypeOK
<1>2. handler.task \in Option(Generations)
  BY DEF TypeOK, Handlers
<1>3. Aborted(runs, handler.task) \in [Generations -> Runs]
  BY <1>2, AbortedType DEF TypeOK
<1>4. handler.generation + 1 \in Generations
  BY BoundsAssumption DEF TypeOK, Handlers, Generations
<1>5. StartRun(messages, s) =
        [Aborted(runs, handler.task) EXCEPT
           ![handler.generation + 1] = NewRun(messages, s)]
  BY DEF StartRun
<1> QED BY <1>1, <1>3, <1>4, <1>5

-----------------------------------------------------------------------------
(* Type correctness.                                                       *)

\* A trigger that has nothing to do.
LEMMA SkipTriggerType ==
  ASSUME TypeOK, SkipTrigger
  PROVE  handler' \in Handlers /\ runs' \in [Generations -> Runs]
<1>1. /\ handler \in Handlers /\ runs \in [Generations -> Runs]
      /\ handler.task \in Option(Generations)
  BY DEF TypeOK, Handlers
<1>2. /\ DismissIfVisible(handler) \in Handlers
      /\ Aborted(runs, handler.task) \in [Generations -> Runs]
  BY <1>1, TeardownType, AbortedType
<1>3. /\ handler' = IF buffer = None THEN DismissIfVisible(handler) ELSE handler
      /\ runs' = IF buffer = None /\ handler.visible
                 THEN Aborted(runs, handler.task) ELSE runs
  BY DEF SkipTrigger
<1> QED BY <1>1, <1>2, <1>3

\* What RunTrigger does, with its choices named.
LEMMA RunTriggerCases ==
  ASSUME TypeOK, RunTrigger
  PROVE  \E static, pinned \in BOOLEAN, messages \in 0..MaxMessages :
           LET snapshot == Snapshot(buffer, pinned)
               next     == Triggered(handler, static, messages, snapshot)
           IN  /\ snapshot \in Snapshots
               /\ handler.generation < MaxGeneration
               /\ buffer \in Buffers
               /\ handler' = [next EXCEPT !.fingerprint =
                                        IF static THEN buffer ELSE @]
               /\ runs' = StartRun(messages, snapshot)
               /\ reloaded' = (reloaded /\ ~static)
<1>1. buffer \in Buffers /\ handler.generation < MaxGeneration
  BY DEF RunTrigger, NothingToTrigger, TypeOK, Option
<1>2. PICK static \in BOOLEAN, pinned \in BOOLEAN, messages \in 0..MaxMessages :
        LET snapshot == Snapshot(buffer, pinned)
            next     == Triggered(handler, static, messages, snapshot)
        IN  /\ handler' = [next EXCEPT !.fingerprint =
                                     IF static THEN buffer ELSE @]
            /\ runs' = StartRun(messages, snapshot)
            /\ reloaded' = (reloaded /\ ~static)
  BY DEF RunTrigger
<1>3. Snapshot(buffer, pinned) \in Snapshots
  BY <1>1, SnapshotType
<1> QED BY <1>1, <1>2, <1>3

LEMMA RunTriggerType ==
  ASSUME TypeOK, RunTrigger
  PROVE  handler' \in Handlers /\ runs' \in [Generations -> Runs]
<1>1. PICK static \in BOOLEAN, pinned \in BOOLEAN, messages \in 0..MaxMessages :
           LET snapshot == Snapshot(buffer, pinned)
               next     == Triggered(handler, static, messages, snapshot)
           IN  /\ snapshot \in Snapshots
               /\ handler.generation < MaxGeneration
               /\ buffer \in Buffers
               /\ handler' = [next EXCEPT !.fingerprint =
                                        IF static THEN buffer ELSE @]
               /\ runs' = StartRun(messages, snapshot)
               /\ reloaded' = (reloaded /\ ~static)
  BY RunTriggerCases
<1> DEFINE snapshot == Snapshot(buffer, pinned)
           next == Triggered(handler, static, messages, snapshot)
<1>2. next \in Handlers
  BY <1>1, TriggeredType DEF TypeOK
<1>3. runs' \in [Generations -> Runs]
  BY <1>1, StartRunType
<1>4. handler' = [next EXCEPT !.fingerprint =
                               IF static THEN buffer ELSE next.fingerprint]
      /\ buffer \in Buffers
  BY <1>1
<1> HIDE DEF next
<1>5. handler' \in Handlers
  BY <1>2, <1>4 DEF Handlers, Option
<1> QED BY <1>3, <1>5

\* What was received before the merge.
LEMMA ReceivedType ==
  ASSUME TypeOK, NEW g \in Generations, NEW messages
  PROVE  Collect(handler, messages, ~SenderAlive(g)) \in Handlers
  BY CollectType DEF TypeOK, SenderAlive

LEMMA MergeLoadedType ==
  ASSUME TypeOK, NEW g \in Generations, NEW h \in Handlers, NEW closed,
         MergeLoaded(h, g, closed)
  PROVE  handler' \in Handlers /\ runs' \in [Generations -> Runs]
<1>1. /\ Drained(g) \in [Generations -> Runs]
      /\ Aborted(Drained(g), h.task) \in [Generations -> Runs]
  <2>1. h.task \in Option(Generations)
    BY DEF Handlers
  <2> QED BY <2>1, DrainedType, AbortedType
<1>2. CASE CheckMergeStaleness(h)
  BY <1>1, <1>2, DropStaleType DEF MergeLoaded
<1>3. CASE ~CheckMergeStaleness(h)
  <2>1. PICK kept \in SUBSET (h.suggestions \cup Async(g)) :
          IF kept = {}
          THEN /\ handler' = Teardown(h)
               /\ runs' = Aborted(Drained(g), h.task)
          ELSE /\ handler' = [Conclude(h, closed, TRUE) EXCEPT
                                !.visible = TRUE, !.suggestions = kept]
               /\ runs' = Drained(g)
    BY <1>3 DEF MergeLoaded
  <2>2. kept \in SUBSET Items
    BY GenerationItems DEF Handlers
  <2>3. Teardown(h) \in Handlers /\ Conclude(h, closed, TRUE) \in Handlers
    BY TeardownType, ConcludeType
  <2>4. [Conclude(h, closed, TRUE) EXCEPT !.visible = TRUE,
                                          !.suggestions = kept] \in Handlers
    BY <2>2, <2>3 DEF Handlers
  <2> QED BY <1>1, <2>1, <2>3, <2>4
<1> QED BY <1>2, <1>3

LEMMA TryMergeDynamicType ==
  ASSUME TypeOK, TryMergeDynamic
  PROVE  handler' \in Handlers /\ runs' \in [Generations -> Runs]
<1>1. CASE handler.rx = None
  BY <1>1 DEF TryMergeDynamic, TypeOK
<1>2. CASE handler.rx # None
  <2> DEFINE g == handler.rx
             closed == ~SenderAlive(g)
             received == Collect(handler, Messages(g), closed)
  <2>1. g \in Generations
    BY <1>2 DEF TypeOK, Handlers, Option
  <2>2. received \in Handlers
    BY <2>1, ReceivedType
  <2>3. Drained(g) \in [Generations -> Runs]
    BY <2>1, DrainedType
  <2>4. Conclude(received, closed, handler.suggestions # {}) \in Handlers
    BY <2>2, ConcludeType
  <2>5. \/ MergeLoaded(received, g, closed)
        \/ /\ handler' = Conclude(received, closed, handler.suggestions # {})
           /\ runs' = Drained(g)
    BY <1>2 DEF TryMergeDynamic
  <2> QED
    <3> HIDE DEF g, received, closed
    <3> QED BY <2>1, <2>2, <2>3, <2>4, <2>5, MergeLoadedType
<1> QED BY <1>1, <1>2

\* The outcome of a bounded wait.
LEMMA ApplyBlockResultType ==
  ASSUME TypeOK, ApplyBlockResult, loop.rx \in Generations
  PROVE  handler' \in Handlers /\ runs' \in [Generations -> Runs]
<1> DEFINE g == loop.rx
           closed == ~SenderAlive(g)
           messages == Messages(g) \cup ({loop.got} \ {None})
           collected == Collect(handler, messages, closed)
           received == [collected EXCEPT !.rx = IF closed THEN None ELSE g]
           static == IF loop.static THEN {[run |-> g, kind |-> "static"]} ELSE {}
<1>1. collected \in Handlers
  BY ReceivedType
<1>2. received \in Handlers
  <2> HIDE DEF collected
  <2> QED BY <1>1 DEF Handlers, Option, SenderAlive
<1>3. static \in SUBSET Items /\ Async(g) \in SUBSET Items
  BY GenerationItems
<1>4. runs' \in [Generations -> Runs]
  BY DrainedType DEF ApplyBlockResult
<1>5. loop.buffer \in Option(Buffers)
  BY DEF TypeOK, Loops
<1>6. \/ handler' = [Conclude(received, closed, loop.static) EXCEPT
                       !.fingerprint = loop.buffer]
      \/ handler' = DropStale(received)
      \/ \E kept \in SUBSET (static \cup Async(g)) :
           handler' = [Conclude(received, closed, TRUE) EXCEPT
                         !.visible = TRUE, !.suggestions = kept,
                         !.fingerprint = loop.buffer]
  BY DEF ApplyBlockResult
<1> DEFINE without == Conclude(received, closed, loop.static)
           loaded == Conclude(received, closed, TRUE)
<1>7. without \in Handlers /\ loaded \in Handlers
      /\ DropStale(received) \in Handlers
  <2> HIDE DEF received
  <2> QED BY <1>2, ConcludeType, DropStaleType
<1> HIDE DEF received, without, loaded, static
<1>8. [without EXCEPT !.fingerprint = loop.buffer] \in Handlers
  BY <1>5, <1>7 DEF Handlers
<1>9. ASSUME NEW kept \in SUBSET (static \cup Async(g))
      PROVE  [loaded EXCEPT !.visible = TRUE, !.suggestions = kept,
                            !.fingerprint = loop.buffer] \in Handlers
  BY <1>3, <1>5, <1>7 DEF Handlers
<1> QED BY <1>4, <1>6, <1>7, <1>8, <1>9 DEF without, loaded

\* The receiver of a bounded wait names a run until the loop is idle again.
LoopTyped ==
  loop.at \notin {"idle", "timing"} => loop.rx \in Generations

\* A run's own steps.
LEMMA RunStepType ==
  ASSUME TypeOK, NEW g \in Generations, RunStep(g)
  PROVE  runs' \in [Generations -> Runs] /\ mergeWake' \in BOOLEAN
<1> USE DEF TypeOK, Runs
<1>1. CASE Send(g)
  <2>1. CASE ReceiverAlive(g)
    <3>1. PICK result \in Results :
            runs' = [runs EXCEPT ![g].left = @ - 1,
                                 ![g].queue = Append(@, result)]
      BY <1>1, <2>1 DEF Send
    <3> DEFINE n == runs[g].left - 1
               q == Append(runs[g].queue, result)
    <3>2. n \in 0..MaxMessages /\ q \in Seq(Results)
      BY <1>1, BoundsAssumption DEF Send
    <3>3. runs' = [runs EXCEPT ![g] = [runs[g] EXCEPT !.left = n, !.queue = q]]
      BY <3>1
    <3> HIDE DEF n, q
    <3>4. [runs[g] EXCEPT !.left = n, !.queue = q] \in Runs
      BY <3>2
    <3> QED BY <1>1, <3>3, <3>4 DEF Send
  <2>2. CASE ~ReceiverAlive(g)
    <3>1. runs' = [runs EXCEPT ![g].stage = "done", ![g].queue = <<>>]
      BY <1>1, <2>2 DEF Send
    <3>2. <<>> \in Seq(Results)
      OBVIOUS
    <3>3. [runs[g] EXCEPT !.stage = "done", !.queue = <<>>] \in Runs
      BY <3>2
    <3>4. runs' = [runs EXCEPT ![g] =
                     [runs[g] EXCEPT !.stage = "done", !.queue = <<>>]]
      BY <3>1
    <3> QED BY <1>1, <3>3, <3>4 DEF Send
  <2> QED BY <2>1, <2>2
<1>2. CASE DropSender(g)
  BY <1>2 DEF DropSender
<1>3. CASE NotifyMerge(g)
  BY <1>3 DEF NotifyMerge
<1>4. CASE Cancel(g)
  BY <1>4 DEF Cancel
<1> QED BY <1>1, <1>2, <1>3, <1>4 DEF RunStep

\* The loop, while it waits or has waited.
LEMMA FireBlockedType ==
  ASSUME TypeOK, FireBlocked
  PROVE  /\ handler' \in Handlers /\ runs' \in [Generations -> Runs]
         /\ loop' \in Loops /\ loop'.rx \in Generations
<1>1. buffer \in Buffers /\ handler.generation < MaxGeneration
  BY DEF FireBlocked, NothingToTrigger, TypeOK, Option
<1>2. PICK static \in BOOLEAN, pinned \in BOOLEAN, messages \in 1..MaxMessages :
        LET snapshot == Snapshot(buffer, pinned)
        IN  /\ handler' = [Triggered(handler, static, messages, snapshot)
                             EXCEPT !.rx = None]
            /\ runs' = StartRun(messages, snapshot)
            /\ loop' = [at |-> "blocked", rx |-> handler.generation + 1,
                        static |-> static, buffer |-> buffer, got |-> None]
  BY DEF FireBlocked
<1> DEFINE snapshot == Snapshot(buffer, pinned)
           next == Triggered(handler, static, messages, snapshot)
<1>3. snapshot \in Snapshots /\ messages \in 0..MaxMessages
  BY <1>1, SnapshotType, BoundsAssumption
<1>4. next \in Handlers
  BY <1>1, <1>3, TriggeredType DEF TypeOK
<1>5. /\ runs' \in [Generations -> Runs]
      /\ handler.generation + 1 \in Generations
  BY <1>1, <1>2, <1>3, StartRunType
<1>6. handler' \in Handlers
  <2> HIDE DEF next
  <2>1. handler' = [next EXCEPT !.rx = None]
    BY <1>2 DEF next
  <2> QED BY <1>4, <2>1 DEF Handlers, Option
<1>7. loop' \in Loops /\ loop'.rx \in Generations
  BY <1>1, <1>2, <1>5 DEF Loops, Option
<1> QED BY <1>5, <1>6, <1>7

LEMMA ReceiveType ==
  ASSUME TypeOK, LoopTyped, Receive
  PROVE  /\ runs' \in [Generations -> Runs]
         /\ loop' \in Loops /\ loop'.rx = loop.rx
<1> DEFINE g == loop.rx
<1>1. g \in Generations /\ loop \in Loops
  BY DEF Receive, LoopTyped, TypeOK
<1>2. CASE runs[g].queue # <<>> /\
           loop' = [loop EXCEPT !.at = "received", !.got = Head(runs[g].queue)]
           /\ runs' = [runs EXCEPT ![g].queue = Tail(@)]
  <2> DEFINE h == Head(runs[g].queue)
             t == Tail(runs[g].queue)
  <2>1. h \in Results /\ t \in Seq(Results)
    BY <1>1, <1>2 DEF TypeOK, Runs
  <2>2. loop' = [loop EXCEPT !.at = "received", !.got = h]
        /\ runs' = [runs EXCEPT ![g] = [runs[g] EXCEPT !.queue = t]]
    BY <1>2
  <2> HIDE DEF h, t
  <2>3. [runs[g] EXCEPT !.queue = t] \in Runs
    BY <1>1, <2>1 DEF TypeOK, Runs
  <2>4. runs' \in [Generations -> Runs]
    BY <1>1, <2>2, <2>3 DEF TypeOK
  <2>5. loop' \in Loops /\ loop'.rx = loop.rx
    BY <1>1, <2>1, <2>2 DEF Loops, Option
  <2> QED BY <2>4, <2>5
<1>3. CASE loop' = [loop EXCEPT !.at = "received"] /\ UNCHANGED runs
  BY <1>1, <1>3 DEF TypeOK, Loops
<1> QED BY <1>2, <1>3 DEF Receive

\* Every step keeps every variable's type, and the loop's receiver.
LEMMA TypeStep ==
  ASSUME TypeOK, LoopTyped, [Next]_vars
  PROVE  TypeOK' /\ LoopTyped'
<1>0. /\ buffer \in Option(Buffers) /\ handler \in Handlers
      /\ runs \in [Generations -> Runs] /\ loop \in Loops
      /\ debounceWake \in BOOLEAN /\ mergeWake \in BOOLEAN
      /\ reloaded \in BOOLEAN
  BY DEF TypeOK
<1>a. /\ handler.task \in Option(Generations)
      /\ Aborted(runs, handler.task) \in [Generations -> Runs]
      /\ Teardown(handler) \in Handlers
      /\ DropStale(handler) \in Handlers
      /\ [handler EXCEPT !.feedback = "Idle"] \in Handlers
  <2>1. handler.task \in Option(Generations)
    BY <1>0 DEF Handlers
  <2>2. [handler EXCEPT !.feedback = "Idle"] \in Handlers
    BY <1>0 DEF Handlers, Feedbacks
  <2> QED BY <1>0, <2>1, <2>2, AbortedType, TeardownType, DropStaleType
<1>b. Idling \in Loops /\ Idling.at = "idle"
  BY DEF Idling, Loops, Option
<1>1. CASE \E b \in Option(Buffers) : ReportBuffer(b)
  BY <1>0, <1>1 DEF ReportBuffer, TypeOK, LoopTyped
<1>2. CASE NotifyDebounce
  BY <1>0, <1>2 DEF NotifyDebounce, TypeOK, LoopTyped
<1>3. CASE Trigger
  <2>1. handler' \in Handlers /\ runs' \in [Generations -> Runs]
    BY <1>3, SkipTriggerType, RunTriggerType DEF Trigger
  <2>2. reloaded' \in BOOLEAN
    BY <1>0, <1>3 DEF Trigger, SkipTrigger, RunTrigger
  <2> QED BY <1>0, <1>3, <2>1, <2>2 DEF Trigger, TypeOK, LoopTyped
<1>4. CASE Dismiss
  BY <1>0, <1>4, <1>a DEF Dismiss, TypeOK, LoopTyped
<1>5. CASE ClearExpiredFeedback
  <2>1. handler' \in Handlers /\ runs' \in [Generations -> Runs]
    BY <1>0, <1>5, <1>a DEF ClearExpiredFeedback
  <2> QED BY <1>0, <1>5, <2>1 DEF ClearExpiredFeedback, TypeOK, LoopTyped
<1>6. CASE \E g \in Generations : RunStep(g)
  <2>1. PICK g \in Generations : RunStep(g)
    BY <1>6
  <2>2. runs' \in [Generations -> Runs] /\ mergeWake' \in BOOLEAN
    BY <2>1, RunStepType
  <2>3. UNCHANGED <<buffer, handler, loop, debounceWake, reloaded>>
    BY <2>1 DEF RunStep, Send, DropSender, NotifyMerge, Cancel
  <2> QED BY <1>0, <2>2, <2>3 DEF TypeOK, LoopTyped
<1>7. CASE PollDynamic
  <2>1. handler' \in Handlers /\ runs' \in [Generations -> Runs]
    BY <1>7, TryMergeDynamicType DEF PollDynamic
  <2> QED BY <1>0, <1>7, <2>1 DEF PollDynamic, TypeOK, LoopTyped
<1>8. CASE DynamicMergeLoop
  <2>1. handler' \in Handlers /\ runs' \in [Generations -> Runs]
    BY <1>8, TryMergeDynamicType DEF DynamicMergeLoop
  <2> QED BY <1>0, <1>8, <2>1 DEF DynamicMergeLoop, TypeOK, LoopTyped
<1>9. CASE DebounceLoop
  <2>1. CASE StartTimer
    <3>1. loop' \in Loops /\ loop'.at = "timing"
      BY <1>0, <2>1 DEF StartTimer, Loops
    <3> QED BY <1>0, <2>1, <3>1 DEF StartTimer, TypeOK, LoopTyped
  <2>2. CASE FireNothing
    <3>1. handler' \in Handlers /\ runs' \in [Generations -> Runs]
      BY <1>0, <2>2, SkipTriggerType DEF FireNothing
    <3> QED BY <1>0, <1>b, <2>2, <3>1 DEF FireNothing, TypeOK, LoopTyped
  <2>3. CASE FirePainted
    <3>1. handler' \in Handlers /\ runs' \in [Generations -> Runs]
      BY <2>3, RunTriggerType DEF FirePainted
    <3>2. reloaded' \in BOOLEAN
      BY <1>0, <2>3 DEF FirePainted, RunTrigger
    <3> QED BY <1>0, <1>b, <2>3, <3>1, <3>2 DEF FirePainted, TypeOK, LoopTyped
  <2>4. CASE FireBlocked
    <3>1. /\ handler' \in Handlers /\ runs' \in [Generations -> Runs]
          /\ loop' \in Loops /\ loop'.rx \in Generations
      BY <2>4, FireBlockedType
    <3> QED BY <1>0, <2>4, <3>1 DEF FireBlocked, TypeOK, LoopTyped
  <2>5. CASE Receive
    <3>1. /\ runs' \in [Generations -> Runs]
          /\ loop' \in Loops /\ loop'.rx = loop.rx
      BY <2>5, ReceiveType
    <3> QED BY <1>0, <2>5, <3>1 DEF Receive, TypeOK, LoopTyped
  <2>6. CASE TimeOut
    <3>1. loop' \in Loops /\ loop'.rx = loop.rx
      BY <1>0, <2>6 DEF TimeOut, Loops
    <3> QED BY <1>0, <2>6, <3>1 DEF TimeOut, TypeOK, LoopTyped
  <2>7. CASE Supersede
    <3>1. loop' \in Loops /\ loop'.rx = loop.rx
      BY <1>0, <2>7 DEF Supersede, Loops
    <3> QED BY <1>0, <2>7, <3>1 DEF Supersede, TypeOK, LoopTyped
  <2>8. CASE AbandonBlock
    BY <1>0, <1>a, <1>b, <2>8 DEF AbandonBlock, TypeOK, LoopTyped
  <2>9. CASE RestoreReceiver
    <3>1. handler' \in Handlers
      BY <1>0, <2>9 DEF RestoreReceiver, Handlers, Loops
    <3> QED BY <1>0, <1>b, <2>9, <3>1 DEF RestoreReceiver, TypeOK, LoopTyped
  <2>10. CASE ApplyBlockResult
    <3>1. loop.rx \in Generations
      BY <2>10 DEF ApplyBlockResult, LoopTyped
    <3>2. handler' \in Handlers /\ runs' \in [Generations -> Runs]
      BY <2>10, <3>1, ApplyBlockResultType
    <3>3. loop' = Idling /\ reloaded' \in BOOLEAN
          /\ UNCHANGED <<buffer, debounceWake, mergeWake>>
      BY <1>0, <2>10 DEF ApplyBlockResult
    <3> QED BY <1>0, <1>b, <3>2, <3>3 DEF TypeOK, LoopTyped
  <2> QED BY <1>9, <2>1, <2>2, <2>3, <2>4, <2>5, <2>6, <2>7, <2>8, <2>9, <2>10
          DEF DebounceLoop
<1>10. CASE UNCHANGED vars
  BY <1>0, <1>10 DEF vars, TypeOK, LoopTyped
<1>11. CASE AcceptDirectory
  <2>1. ShowChained(handler) \in Handlers
    BY <1>0, ShowChainedType
  <2>2. handler' \in Handlers /\ runs' \in [Generations -> Runs]
    BY <1>0, <1>a, <1>11, <2>1 DEF AcceptDirectory
  <2>3. buffer' \in Option(Buffers)
    BY <1>11 DEF AcceptDirectory, Option
  <2>4. UNCHANGED <<loop, debounceWake, mergeWake, reloaded>>
    BY <1>11 DEF AcceptDirectory
  <2> QED BY <1>0, <2>2, <2>3, <2>4 DEF TypeOK, LoopTyped
<1>12. CASE UpdateConfig
  <2> DEFINE t == Teardown(handler)
  <2>1. handler' = [t EXCEPT !.fingerprint = handler.fingerprint]
    BY <1>12 DEF UpdateConfig
  <2>2. t \in Handlers /\ handler.fingerprint \in Option(Buffers)
    BY <1>0, <1>a DEF Handlers
  <2> HIDE DEF t
  <2>3. handler' \in Handlers
    BY <2>1, <2>2 DEF Handlers
  <2>4. /\ runs' \in [Generations -> Runs] /\ reloaded' \in BOOLEAN
        /\ UNCHANGED <<buffer, loop, debounceWake, mergeWake>>
    BY <1>0, <1>a, <1>12 DEF UpdateConfig
  <2> QED BY <1>0, <2>3, <2>4 DEF TypeOK, LoopTyped
<1>13. CASE ScrollViewport
  <2>1. handler' \in Handlers
    BY <1>0, <1>13 DEF ScrollViewport, Handlers, Option
  <2> QED BY <1>0, <1>13, <2>1 DEF ScrollViewport, TypeOK, LoopTyped
<1> QED BY <1>1, <1>2, <1>3, <1>4, <1>5, <1>6, <1>7, <1>8, <1>9, <1>10, <1>11,
           <1>12, <1>13 DEF Next

LEMMA TypeInit == Init => TypeOK /\ LoopTyped
<1> SUFFICES ASSUME Init PROVE TypeOK /\ LoopTyped
  OBVIOUS
<1>1. handler \in Handlers
  BY BoundsAssumption DEF Init, Handlers, Option, Feedbacks, Items
<1>2. runs \in [Generations -> Runs]
  <2>1. <<>> \in Seq(Results)
    OBVIOUS
  <2> QED BY <2>1, BoundsAssumption DEF Init, Runs, Option
<1> QED BY <1>1, <1>2 DEF Init, TypeOK, LoopTyped, Idling, Loops, Option

\* Type correctness: every reachable handler, run and loop is well formed, so
\* no generation number leaves its range and no channel is read that no run
\* owns, with or without bounded waits.
THEOREM TypeCorrect == Spec => []TypeOK
<1>1. TypeOK /\ LoopTyped /\ [Next]_vars => (TypeOK /\ LoopTyped)'
  BY TypeStep
<1> QED BY <1>1, TypeInit, PTL DEF Spec

-----------------------------------------------------------------------------
(* Without bounded waits: one channel, that of the latest generation.      *)

\* WillNotify of a run, whatever its number.
Wakes(run, wake) ==
  \/ run.stage = "running" /\ ~run.aborted
  \/ run.stage = "closed"
  \/ run.stage = "done" /\ wake

\* The part of the inductive invariant that ties a handler to the runs.
OneChannel(h, rs) ==
  /\ h.rx = h.task
  /\ h.rx # None =>
       /\ h.rx = h.generation /\ h.spawned = h.generation
       /\ h.ctx # None /\ h.ctx = rs[h.rx].ctx

\* Only a reload hides a popup and keeps its fingerprint.
Popup(h, rs, kept) ==
  /\ h.visible => h.generation \in Generations
  /\ ~h.visible => h.suggestions = {}
  /\ \A item \in h.suggestions : item.run = h.generation
  /\ h.fingerprint # None /\ ~kept =>
       h.visible /\ rs[h.generation].buffer = h.fingerprint

Answered(h, rs, wake) ==
  h.feedback = "Loading" => h.rx # None /\ Wakes(rs[h.rx], wake)

Sound(h, rs, wake, kept) ==
  OneChannel(h, rs) /\ Popup(h, rs, kept) /\ Answered(h, rs, wake)

Waiting == loop.rx = None /\ loop.at \in {"idle", "timing"}

Inductive == TypeOK /\ Waiting /\ Sound(handler, runs, mergeWake, reloaded)

\* A hidden handler without channel, popup or indicator is sound.
LEMMA TeardownSound ==
  ASSUME NEW h \in Handlers, NEW rs, NEW wake, NEW kept
  PROVE  Sound(Teardown(h), rs, wake, kept)
  BY DEF Sound, OneChannel, Popup, Answered, Teardown, Handlers

\* Soundness only depends on a run's snapshot and buffer, and on whether the
\* run of the handler's channel will notify.
LEMMA RunsChange ==
  ASSUME NEW h \in Handlers, NEW rs, NEW rt, NEW wake, NEW wake2, NEW kept,
         Sound(h, rs, wake, kept),
         \A g \in Generations : /\ rt[g].ctx = rs[g].ctx
                               /\ rt[g].buffer = rs[g].buffer,
         h.rx # None /\ Wakes(rs[h.rx], wake) => Wakes(rt[h.rx], wake2)
  PROVE  Sound(h, rt, wake2, kept)
<1>1. OneChannel(h, rt)
  BY DEF Sound, OneChannel, Handlers, Option
<1>2. Popup(h, rt, kept)
  BY DEF Sound, Popup, Handlers
<1>3. Answered(h, rt, wake2)
  BY DEF Sound, Answered
<1> QED BY <1>1, <1>2, <1>3 DEF Sound

\* What abort and drain leave alone.
LEMMA AbortedKeeps ==
  ASSUME NEW rs \in [Generations -> Runs], NEW t \in Option(Generations)
  PROVE  \A g \in Generations :
           /\ Aborted(rs, t)[g].ctx = rs[g].ctx
           /\ Aborted(rs, t)[g].buffer = rs[g].buffer
           /\ Aborted(rs, t)[g].stage = rs[g].stage
  BY DEF Aborted, Runs, Option

LEMMA DrainedKeeps ==
  ASSUME TypeOK, NEW k \in Generations
  PROVE  \A g \in Generations :
           /\ Drained(k)[g].ctx = runs[g].ctx
           /\ Drained(k)[g].buffer = runs[g].buffer
           /\ Drained(k)[g].stage = runs[g].stage
           /\ Drained(k)[g].aborted = runs[g].aborted
  BY DEF TypeOK, Drained, Runs

\* A trigger that has nothing to do keeps the handler sound.
LEMMA SkipTriggerSound ==
  ASSUME Inductive, SkipTrigger
  PROVE  Sound(handler', runs', mergeWake, reloaded')
<1>1. /\ handler \in Handlers /\ Sound(handler, runs, mergeWake, reloaded)
      /\ handler' = IF buffer = None THEN DismissIfVisible(handler) ELSE handler
      /\ runs' = IF buffer = None /\ handler.visible
                 THEN Aborted(runs, handler.task) ELSE runs
      /\ reloaded' = reloaded
  BY DEF Inductive, TypeOK, SkipTrigger
<1>2. CASE buffer = None /\ handler.visible
  BY <1>1, <1>2, TeardownSound DEF DismissIfVisible
<1>3. CASE ~(buffer = None /\ handler.visible)
  BY <1>1, <1>3 DEF DismissIfVisible
<1> QED BY <1>2, <1>3

\* The run a trigger starts, seen by its generation.
LEMMA StartRunSound ==
  ASSUME TypeOK, handler.generation < MaxGeneration,
         NEW messages \in 0..MaxMessages, NEW s \in Snapshots,
         NEW wake
  PROVE  LET run == StartRun(messages, s)[handler.generation + 1]
         IN  /\ run.buffer = buffer
             /\ messages > 0 => run.ctx = s /\ Wakes(run, wake)
<1>1. /\ Aborted(runs, handler.task) \in [Generations -> Runs]
      /\ handler.generation + 1 \in Generations
  <2>1. handler.task \in Option(Generations)
    BY DEF TypeOK, Handlers
  <2> QED BY <2>1, AbortedType, StartRunType DEF TypeOK
<1> DEFINE n == handler.generation + 1
<1>2. StartRun(messages, s)[n] = NewRun(messages, s)
  <2> HIDE DEF n
  <2>1. StartRun(messages, s) =
          [Aborted(runs, handler.task) EXCEPT ![n] = NewRun(messages, s)]
    BY DEF StartRun, n
  <2>2. n \in Generations
    BY <1>1 DEF n
  <2> QED BY <1>1, <2>1, <2>2
<1>3. /\ NewRun(messages, s).buffer = buffer
      /\ messages > 0 => /\ NewRun(messages, s).ctx = s
                         /\ NewRun(messages, s).stage = "running"
                         /\ NewRun(messages, s).aborted = FALSE
  BY DEF NewRun
<1> QED BY <1>2, <1>3 DEF Wakes

\* A trigger's handler, field by field.
LEMMA TriggeredFields ==
  ASSUME NEW h \in Handlers, h.generation < MaxGeneration,
         NEW static \in BOOLEAN, NEW messages \in 0..MaxMessages,
         NEW s \in Snapshots,
         ~h.visible => h.suggestions = {}
  PROVE  LET t == Triggered(h, static, messages, s)
             n == h.generation + 1
         IN  /\ t.generation = n
             /\ t.visible = static
             /\ t.suggestions = IF static THEN {[run |-> n, kind |-> "static"]}
                                          ELSE {}
             /\ ~static =>
                  t.fingerprint = IF h.visible THEN None ELSE h.fingerprint
             /\ t.rx = t.task
             /\ messages > 0 =>
                  t.rx = n /\ t.spawned = n /\ t.ctx = s
             /\ ~(messages > 0) =>
                  t.rx = None /\ t.ctx = None /\ t.feedback = "Idle"
<1> DEFINE reset == NextGeneration(h)
           n == h.generation + 1
           shown == IF static THEN ShowStatic(reset)
                              ELSE DismissIfVisible(reset)
<1>1. /\ reset \in Handlers /\ reset.generation = n
      /\ n \in Generations
  BY NextGenerationType
<1>2. /\ reset.visible = h.visible /\ reset.fingerprint = h.fingerprint
      /\ reset.suggestions = h.suggestions
      /\ reset.rx = None /\ reset.task = None /\ reset.ctx = None
      /\ reset.feedback = "Idle"
  BY DEF NextGeneration, Handlers
<1>3. shown \in Handlers
  <2> HIDE DEF reset
  <2> QED BY <1>1, ShowStaticType, TeardownType
<1>4. /\ shown.generation = n /\ shown.visible = static
      /\ shown.suggestions = IF static THEN {[run |-> n, kind |-> "static"]}
                                       ELSE {}
      /\ ~static =>
           shown.fingerprint = IF h.visible THEN None ELSE h.fingerprint
      /\ shown.rx = None /\ shown.task = None /\ shown.ctx = None
      /\ shown.feedback = "Idle"
  <2> HIDE DEF reset, n
  <2>1. CASE static
    BY <1>1, <1>2, <2>1 DEF ShowStatic, Handlers
  <2>2. CASE ~static
    BY <1>1, <1>2, <2>2 DEF DismissIfVisible, Teardown, Handlers
  <2> QED BY <2>1, <2>2
<1>5. Triggered(h, static, messages, s) =
        IF messages > 0 THEN SpawnGenerators(shown, s) ELSE shown
  BY DEF Triggered
<1> HIDE DEF reset, shown, n
<1>6. /\ SpawnGenerators(shown, s).generation = n
      /\ SpawnGenerators(shown, s).visible = shown.visible
      /\ SpawnGenerators(shown, s).suggestions = shown.suggestions
      /\ SpawnGenerators(shown, s).fingerprint = shown.fingerprint
      /\ SpawnGenerators(shown, s).rx = n
      /\ SpawnGenerators(shown, s).task = n
      /\ SpawnGenerators(shown, s).spawned = n
      /\ SpawnGenerators(shown, s).ctx = s
  BY <1>3, <1>4 DEF SpawnGenerators, Handlers
<1> QED
  <2>1. CASE messages > 0
    BY <1>4, <1>5, <1>6, <2>1 DEF n
  <2>2. CASE ~(messages > 0)
    BY <1>4, <1>5, <2>2 DEF n
  <2> QED BY <2>1, <2>2

LEMMA RunTriggerSound ==
  ASSUME Inductive, RunTrigger
  PROVE  Sound(handler', runs', mergeWake, reloaded')
<1>1. PICK static \in BOOLEAN, pinned \in BOOLEAN, messages \in 0..MaxMessages :
           LET snapshot == Snapshot(buffer, pinned)
               next     == Triggered(handler, static, messages, snapshot)
           IN  /\ snapshot \in Snapshots
               /\ handler.generation < MaxGeneration
               /\ buffer \in Buffers
               /\ handler' = [next EXCEPT !.fingerprint =
                                        IF static THEN buffer ELSE @]
               /\ runs' = StartRun(messages, snapshot)
               /\ reloaded' = (reloaded /\ ~static)
  BY RunTriggerCases DEF Inductive
<1> DEFINE s == Snapshot(buffer, pinned)
           next == Triggered(handler, static, messages, s)
           n == handler.generation + 1
<1>2. /\ s \in Snapshots /\ handler \in Handlers
      /\ handler.generation < MaxGeneration
  BY <1>1 DEF Inductive, TypeOK
<1>3. next \in Handlers
  BY <1>2, TriggeredType
<1>4. /\ next.generation = n /\ next.visible = static
      /\ next.suggestions = IF static THEN {[run |-> n, kind |-> "static"]}
                                      ELSE {}
      /\ ~static => next.fingerprint = (IF handler.visible THEN None
                                         ELSE handler.fingerprint)
      /\ next.rx = next.task
      /\ messages > 0 => next.rx = n /\ next.spawned = n /\ next.ctx = s
      /\ ~(messages > 0) => next.rx = None /\ next.feedback = "Idle"
  <2>1. ~handler.visible => handler.suggestions = {}
    BY DEF Inductive, Sound, Popup
  <2> HIDE DEF s
  <2> QED BY <1>2, <2>1, TriggeredFields
<1>5. /\ runs'[n].buffer = buffer
      /\ messages > 0 => runs'[n].ctx = s /\ Wakes(runs'[n], mergeWake)
      /\ n \in Generations
  BY <1>1, <1>2, StartRunSound, StartRunType DEF Inductive
<1>6. handler' = [next EXCEPT !.fingerprint =
                               IF static THEN buffer ELSE next.fingerprint]
      /\ reloaded' = (reloaded /\ ~static)
  BY <1>1
<1>7. s # None /\ n # None
  BY <1>2, <1>5, NoneAssumption
<1> HIDE DEF s, next, n
<1>8. /\ handler'.generation = n /\ handler'.visible = static
      /\ handler'.suggestions = next.suggestions
      /\ handler'.fingerprint = IF static THEN buffer
                                 ELSE IF handler.visible THEN None
                                 ELSE handler.fingerprint
      /\ handler'.rx = next.rx /\ handler'.task = next.task
      /\ handler'.spawned = next.spawned /\ handler'.ctx = next.ctx
      /\ handler'.feedback = next.feedback
  BY <1>3, <1>4, <1>6 DEF Handlers
<1>9. OneChannel(handler', runs')
  BY <1>4, <1>5, <1>7, <1>8 DEF OneChannel
<1>10. Popup(handler', runs', reloaded')
  <2>1. handler.fingerprint # None /\ ~reloaded => handler.visible
    BY DEF Inductive, Sound, Popup
  <2>2. CASE static
    BY <1>4, <1>5, <1>8, <2>2 DEF Popup
  <2>3. CASE ~static
    <3>1. reloaded' = reloaded
      BY <1>6, <2>3 DEF Inductive, TypeOK
    <3>2. handler'.fingerprint # None => reloaded'
      BY <1>8, <2>1, <2>3, <3>1
    <3> QED BY <1>4, <1>8, <2>3, <3>2 DEF Popup
  <2> QED BY <2>2, <2>3
<1>11. Answered(handler', runs', mergeWake)
  BY <1>4, <1>5, <1>7, <1>8 DEF Answered
<1> QED BY <1>9, <1>10, <1>11 DEF Sound

\* Counting messages keeps a sound handler sound, once a closed channel's
\* indicator is accounted for.
LEMMA ReceivedFields ==
  ASSUME NEW h \in Handlers, NEW messages, NEW closed \in BOOLEAN
  PROVE  LET c == Collect(h, messages, closed)
         IN  /\ c.rx = (IF closed THEN None ELSE h.rx)
             /\ c.task = (IF closed THEN None ELSE h.task)
             /\ c.visible = h.visible /\ c.suggestions = h.suggestions
             /\ c.fingerprint = h.fingerprint /\ c.feedback = h.feedback
             /\ c.generation = h.generation /\ c.spawned = h.spawned
             /\ c.ctx = h.ctx
  BY DEF Collect, Handlers

LEMMA ConcludeFields ==
  ASSUME NEW h \in Handlers, NEW closed \in BOOLEAN, NEW shown
  PROVE  LET c == Conclude(h, closed, shown)
         IN  /\ c.rx = h.rx /\ c.task = h.task
             /\ c.visible = h.visible /\ c.suggestions = h.suggestions
             /\ c.fingerprint = h.fingerprint
             /\ c.generation = h.generation /\ c.spawned = h.spawned
             /\ ~closed => c.ctx = h.ctx /\ c.feedback = h.feedback
             /\ closed => c.feedback # "Loading"
<1> DEFINE f == TerminalForOutcome(shown, h.failed, h.empties)
           k == [h EXCEPT !.ctx = None, !.failed = FALSE,
                          !.empties = FALSE, !.feedback = f]
<1>1. Conclude(h, closed, shown) = IF closed THEN k ELSE h
  BY DEF Conclude
<1>2. f # "Loading"
  BY OutcomeType
<1> HIDE DEF f
<1>3. /\ k.rx = h.rx /\ k.task = h.task
      /\ k.visible = h.visible /\ k.suggestions = h.suggestions
      /\ k.fingerprint = h.fingerprint /\ k.feedback = f
      /\ k.generation = h.generation /\ k.spawned = h.spawned
  BY DEF Handlers
<1> HIDE DEF k
<1>4. CASE closed
  BY <1>1, <1>2, <1>3, <1>4
<1>5. CASE ~closed
  BY <1>1, <1>5
<1> QED BY <1>4, <1>5

\* Draining the handler's channel, and perhaps spending the wake-up, keeps it
\* answered unless the channel is closed.
LEMMA DrainedSound ==
  ASSUME Inductive, NEW wake \in BOOLEAN, handler.rx # None,
         SenderAlive(handler.rx)
  PROVE  Sound(handler, Drained(handler.rx), wake, reloaded)
<1>1. /\ handler \in Handlers /\ handler.rx \in Generations
      /\ Sound(handler, runs, mergeWake, reloaded)
  BY DEF Inductive, TypeOK, Handlers, Option
<1>2. \A g \in Generations :
        /\ Drained(handler.rx)[g].ctx = runs[g].ctx
        /\ Drained(handler.rx)[g].buffer = runs[g].buffer
        /\ Drained(handler.rx)[g].stage = runs[g].stage
        /\ Drained(handler.rx)[g].aborted = runs[g].aborted
  BY <1>1, DrainedKeeps DEF Inductive
<1>3. Wakes(runs[handler.rx], mergeWake) => Wakes(Drained(handler.rx)[handler.rx], wake)
  BY <1>1, <1>2 DEF Wakes, SenderAlive
<1> QED BY <1>1, <1>2, <1>3, RunsChange

LEMMA MergeSound ==
  ASSUME Inductive, TryMergeDynamic, NEW wake \in BOOLEAN, handler.rx # None
  PROVE  Sound(handler', runs', wake, reloaded)
<1> DEFINE g == handler.rx
           closed == ~SenderAlive(g)
           received == Collect(handler, Messages(g), closed)
<1>1. /\ handler \in Handlers /\ g \in Generations /\ TypeOK
      /\ Sound(handler, runs, mergeWake, reloaded) /\ closed \in BOOLEAN
  BY DEF Inductive, TypeOK, Handlers, Option, SenderAlive
<1>2. /\ received \in Handlers
      /\ received.rx = (IF closed THEN None ELSE g)
      /\ received.task = (IF closed THEN None ELSE handler.task)
      /\ received.visible = handler.visible
      /\ received.suggestions = handler.suggestions
      /\ received.fingerprint = handler.fingerprint
      /\ received.feedback = handler.feedback
      /\ received.generation = handler.generation
      /\ received.spawned = handler.spawned
      /\ received.ctx = handler.ctx
  <2>1. Collect(handler, Messages(g), closed) \in Handlers
    BY <1>1, CollectType
  <2> HIDE DEF closed
  <2> QED BY <1>1, <2>1, ReceivedFields
<1>3. /\ ~closed => Sound(handler, Drained(g), wake, reloaded)
      /\ Popup(handler, Drained(g), reloaded)
      /\ handler.generation \in Generations
  <2>1. ~closed => Sound(handler, Drained(g), wake, reloaded)
    BY <1>1, DrainedSound
  <2>2. handler.generation = g
    BY <1>1 DEF Sound, OneChannel
  <2>3. \A k \in Generations : Drained(g)[k].buffer = runs[k].buffer
    BY <1>1, DrainedKeeps
  <2>4. Popup(handler, runs, reloaded)
    BY <1>1 DEF Sound
  <2>5. Popup(handler, Drained(g), reloaded)
    BY <1>1, <2>2, <2>3, <2>4 DEF Popup
  <2> QED BY <1>1, <2>1, <2>2, <2>5
<1>4. \/ MergeLoaded(received, g, closed)
      \/ /\ handler' = Conclude(received, closed, handler.suggestions # {})
         /\ runs' = Drained(g)
  BY DEF TryMergeDynamic
<1>5. g = handler.generation /\ handler.task = g
  BY <1>1 DEF Sound, OneChannel
<1> HIDE DEF g, closed, received
<1>6. ASSUME NEW shown, NEW c, c = Conclude(received, closed, shown)
      PROVE  /\ OneChannel(c, Drained(g)) /\ Answered(c, Drained(g), wake)
             /\ c \in Handlers /\ c.visible = handler.visible
             /\ c.suggestions = handler.suggestions
             /\ c.fingerprint = handler.fingerprint
             /\ c.generation = handler.generation
  <2>1. /\ c \in Handlers
        /\ c.rx = received.rx /\ c.task = received.task
        /\ c.visible = received.visible /\ c.suggestions = received.suggestions
        /\ c.fingerprint = received.fingerprint
        /\ c.generation = received.generation /\ c.spawned = received.spawned
        /\ ~closed => c.ctx = received.ctx /\ c.feedback = received.feedback
        /\ closed => c.feedback # "Loading"
    BY <1>1, <1>2, <1>6, ConcludeType, ConcludeFields
  <2>2. CASE closed
    BY <1>2, <2>1, <2>2 DEF OneChannel, Answered
  <2>3. CASE ~closed
    BY <1>2, <1>3, <2>1, <2>3 DEF Sound, OneChannel, Answered, g
  <2> QED BY <1>2, <2>1, <2>2, <2>3
<1>7. CASE /\ handler' = Conclude(received, closed, handler.suggestions # {})
           /\ runs' = Drained(g)
  <2>1. /\ OneChannel(handler', Drained(g)) /\ Answered(handler', Drained(g), wake)
        /\ handler'.visible = handler.visible
        /\ handler'.suggestions = handler.suggestions
        /\ handler'.fingerprint = handler.fingerprint
        /\ handler'.generation = handler.generation
    BY <1>6, <1>7
  <2>2. Popup(handler', Drained(g), reloaded)
    BY <1>3, <2>1 DEF Popup
  <2> QED BY <1>7, <2>1, <2>2 DEF Sound
<1>8. CASE MergeLoaded(received, g, closed)
  <2>1. CASE CheckMergeStaleness(received)
    <3>1. handler' = DropStale(received) /\ runs' = Drained(g)
      BY <1>8, <2>1 DEF MergeLoaded
    <3>2. /\ DropStale(received).rx = None /\ DropStale(received).task = None
          /\ DropStale(received).feedback = "Idle"
          /\ DropStale(received).visible = received.visible
          /\ DropStale(received).suggestions = received.suggestions
          /\ DropStale(received).fingerprint = received.fingerprint
          /\ DropStale(received).generation = received.generation
      BY <1>2 DEF DropStale, Handlers
    <3>3. Popup(DropStale(received), Drained(g), reloaded)
      BY <1>2, <1>3, <3>2 DEF Popup
    <3> QED BY <3>1, <3>2, <3>3 DEF Sound, OneChannel, Answered
  <2>2. CASE ~CheckMergeStaleness(received)
    <3>1. PICK kept \in SUBSET (received.suggestions \cup Async(g)) :
            IF kept = {}
            THEN /\ handler' = Teardown(received)
                 /\ runs' = Aborted(Drained(g), received.task)
            ELSE /\ handler' = [Conclude(received, closed, TRUE) EXCEPT
                                  !.visible = TRUE, !.suggestions = kept]
                 /\ runs' = Drained(g)
      BY <1>8, <2>2 DEF MergeLoaded
    <3>2. CASE kept = {}
      BY <1>2, <3>1, <3>2, TeardownSound
    <3>3. CASE kept # {}
      <4> DEFINE c == Conclude(received, closed, TRUE)
      <4>1. /\ OneChannel(c, Drained(g)) /\ Answered(c, Drained(g), wake)
            /\ c \in Handlers
            /\ c.fingerprint = handler.fingerprint
            /\ c.generation = handler.generation
        BY <1>6
      <4>2. handler' = [c EXCEPT !.visible = TRUE, !.suggestions = kept]
            /\ runs' = Drained(g)
        BY <3>1, <3>3
      <4> HIDE DEF c
      <4>3. /\ handler'.visible = TRUE /\ handler'.suggestions = kept
            /\ handler'.rx = c.rx /\ handler'.task = c.task
            /\ handler'.ctx = c.ctx /\ handler'.spawned = c.spawned
            /\ handler'.feedback = c.feedback
            /\ handler'.fingerprint = c.fingerprint
            /\ handler'.generation = c.generation
        BY <4>1, <4>2 DEF Handlers
      <4>4. OneChannel(handler', runs') /\ Answered(handler', runs', wake)
        BY <4>1, <4>2, <4>3 DEF OneChannel, Answered
      <4>5. \A item \in kept : item.run = handler.generation
        BY <1>2, <1>3, <1>5 DEF Popup, Async
      <4>6. Popup(handler', runs', reloaded)
        BY <1>3, <4>1, <4>2, <4>3, <4>5 DEF Popup
      <4> QED BY <4>4, <4>6 DEF Sound
    <3> QED BY <3>2, <3>3
  <2> QED BY <2>1, <2>2
<1> QED BY <1>4, <1>7, <1>8

LEMMA TryMergeSound ==
  ASSUME Inductive, TryMergeDynamic, NEW wake \in BOOLEAN
  PROVE  Sound(handler', runs', wake, reloaded)
<1>1. CASE handler.rx # None
  BY <1>1, MergeSound
<1>2. CASE handler.rx = None
  <2>1. handler' = handler /\ runs' = runs
    BY <1>2 DEF TryMergeDynamic
  <2>2. Sound(handler, runs, mergeWake, reloaded)
    BY DEF Inductive
  <2> QED BY <1>2, <2>1, <2>2 DEF Sound, Answered
<1> QED BY <1>1, <1>2

\* A run's own steps leave every run's snapshot and buffer alone.
LEMMA RunStepKeeps ==
  ASSUME TypeOK, NEW g \in Generations, RunStep(g)
  PROVE  \A k \in Generations : /\ runs'[k].ctx = runs[k].ctx
                                /\ runs'[k].buffer = runs[k].buffer
<1>1. runs \in [Generations -> Runs]
  BY DEF TypeOK
<1>2. CASE Send(g)
  <2>1. CASE ReceiverAlive(g)
    <3>1. PICK result \in Results :
            runs' = [runs EXCEPT ![g].left = @ - 1,
                                 ![g].queue = Append(@, result)]
      BY <1>2, <2>1 DEF Send
    <3> DEFINE n == runs[g].left - 1
               q == Append(runs[g].queue, result)
    <3>2. runs' = [runs EXCEPT ![g] = [runs[g] EXCEPT !.left = n, !.queue = q]]
      BY <1>1, <3>1 DEF Runs
    <3> HIDE DEF n, q
    <3> QED BY <1>1, <3>2 DEF Runs
  <2>2. CASE ~ReceiverAlive(g)
    <3>1. runs' = [runs EXCEPT ![g] =
                     [runs[g] EXCEPT !.stage = "done", !.queue = <<>>]]
      BY <1>1, <1>2, <2>2 DEF Send
    <3>2. /\ [runs[g] EXCEPT !.stage = "done", !.queue = <<>>].ctx = runs[g].ctx
          /\ [runs[g] EXCEPT !.stage = "done", !.queue = <<>>].buffer
               = runs[g].buffer
      BY <1>1 DEF Runs
    <3> QED BY <1>1, <3>1, <3>2
  <2> QED BY <2>1, <2>2
<1>3. ASSUME NEW stage, runs' = [runs EXCEPT ![g].stage = stage]
      PROVE  \A k \in Generations : /\ runs'[k].ctx = runs[k].ctx
                                    /\ runs'[k].buffer = runs[k].buffer
  BY <1>1, <1>3 DEF Runs
<1> QED BY <1>2, <1>3 DEF RunStep, DropSender, NotifyMerge, Cancel

\* A run's step keeps the indicator answered: it may stop only after it was
\* aborted, after its receiver is gone, or by notifying.
LEMMA RunStepSound ==
  ASSUME Inductive, NEW g \in Generations, RunStep(g)
  PROVE  Sound(handler, runs', mergeWake', reloaded)
<1>1. /\ handler \in Handlers /\ runs \in [Generations -> Runs]
      /\ Sound(handler, runs, mergeWake, reloaded) /\ mergeWake \in BOOLEAN
      /\ handler.rx # None => handler.rx \in Generations
  BY DEF Inductive, TypeOK, Handlers, Option
<1>2. \A k \in Generations : /\ runs'[k].ctx = runs[k].ctx
                             /\ runs'[k].buffer = runs[k].buffer
  BY RunStepKeeps DEF Inductive
<1>3. ASSUME handler.rx # None, Wakes(runs[handler.rx], mergeWake)
      PROVE  Wakes(runs'[handler.rx], mergeWake')
  <2> DEFINE r == handler.rx
  <2>1. r \in Generations
    BY <1>1, <1>3
  <2>2. CASE Send(g)
    <3>1. CASE ReceiverAlive(g)
      <4>1. PICK result \in Results :
              runs' = [runs EXCEPT ![g].left = @ - 1,
                                   ![g].queue = Append(@, result)]
        BY <2>2, <3>1 DEF Send
      <4> DEFINE n == runs[g].left - 1
                 q == Append(runs[g].queue, result)
      <4>2. runs' = [runs EXCEPT ![g] = [runs[g] EXCEPT !.left = n, !.queue = q]]
        BY <1>1, <4>1 DEF Runs
      <4> HIDE DEF n, q
      <4>3. runs'[r].stage = runs[r].stage /\ runs'[r].aborted = runs[r].aborted
        BY <1>1, <2>1, <4>2 DEF Runs
      <4>4. mergeWake' = mergeWake
        BY <2>2 DEF Send
      <4> QED BY <1>3, <4>3, <4>4 DEF Wakes
    <3>2. CASE ~ReceiverAlive(g)
      <4>1. r # g
        BY <3>2 DEF ReceiverAlive
      <4>2. runs'[r] = runs[r] /\ mergeWake' = mergeWake
        BY <1>1, <2>1, <2>2, <3>2, <4>1 DEF Send
      <4> QED BY <1>3, <4>2
    <3> QED BY <3>1, <3>2
  <2>3. CASE DropSender(g)
    <3>1. \/ runs'[r] = runs[r]
          \/ runs'[r].stage = "closed"
      BY <1>1, <2>1, <2>3 DEF DropSender, Runs
    <3> QED BY <1>3, <2>3, <3>1 DEF Wakes, DropSender
  <2>4. CASE NotifyMerge(g)
    <3>1. /\ runs'[r] = runs[r] \/ runs'[r].stage = "done"
          /\ mergeWake'
      BY <1>1, <2>1, <2>4 DEF NotifyMerge, Runs
    <3> QED BY <1>3, <3>1 DEF Wakes
  <2>5. CASE Cancel(g)
    <3>1. r # g
      BY <1>3, <2>5 DEF Cancel, Wakes
    <3>2. runs'[r] = runs[r] /\ mergeWake' = mergeWake
      BY <1>1, <2>1, <2>5, <3>1 DEF Cancel
    <3> QED BY <1>3, <3>2
  <2> QED BY <2>2, <2>3, <2>4, <2>5 DEF RunStep
<1> QED BY <1>1, <1>2, <1>3, RunsChange

\* The expiry of an indicator.
LEMMA ClearExpiredSound ==
  ASSUME Inductive, ClearExpiredFeedback
  PROVE  Sound(handler', runs', mergeWake, reloaded')
<1>1. /\ handler \in Handlers /\ Sound(handler, runs, mergeWake, reloaded)
      /\ UNCHANGED reloaded
  BY DEF Inductive, TypeOK, ClearExpiredFeedback
<1>2. CASE handler' = [handler EXCEPT !.feedback = "Idle"] /\ UNCHANGED runs
  <2>1. /\ handler'.rx = handler.rx /\ handler'.task = handler.task
        /\ handler'.ctx = handler.ctx /\ handler'.spawned = handler.spawned
        /\ handler'.visible = handler.visible
        /\ handler'.suggestions = handler.suggestions
        /\ handler'.fingerprint = handler.fingerprint
        /\ handler'.generation = handler.generation
        /\ handler'.feedback = "Idle"
    BY <1>1, <1>2 DEF Handlers
  <2> QED BY <1>1, <1>2, <2>1 DEF Sound, OneChannel, Popup, Answered
<1>3. CASE handler' = Teardown(handler)
  BY <1>1, <1>3, TeardownSound
<1> QED BY <1>2, <1>3 DEF ClearExpiredFeedback

\* Suggestions of an accepted directory, under the old run's fingerprint.
LEMMA AcceptDirectorySound ==
  ASSUME Inductive, AcceptDirectory
  PROVE  Sound(handler', runs', mergeWake, reloaded')
<1>1. /\ handler \in Handlers /\ Sound(handler, runs, mergeWake, reloaded)
      /\ handler.visible /\ reloaded' = reloaded
  BY DEF Inductive, TypeOK, AcceptDirectory
<1>2. CASE handler' = ShowChained(handler) /\ UNCHANGED runs
  <2> DEFINE S == {[run |-> handler.generation, kind |-> "chained"]}
  <2>1. handler' = [handler EXCEPT !.suggestions = S]
    BY <1>2 DEF ShowChained
  <2>2. \A item \in S : item.run = handler.generation
    OBVIOUS
  <2> HIDE DEF S
  <2>3. /\ handler'.rx = handler.rx /\ handler'.task = handler.task
        /\ handler'.ctx = handler.ctx /\ handler'.spawned = handler.spawned
        /\ handler'.visible = handler.visible
        /\ handler'.suggestions = S
        /\ handler'.fingerprint = handler.fingerprint
        /\ handler'.generation = handler.generation
        /\ handler'.feedback = handler.feedback
    BY <1>1, <2>1 DEF Handlers
  <2>4. OneChannel(handler', runs') /\ Answered(handler', runs', mergeWake)
    BY <1>1, <1>2, <2>3 DEF Sound, OneChannel, Answered
  <2>5. Popup(handler', runs', reloaded)
    BY <1>1, <1>2, <2>2, <2>3 DEF Sound, Popup
  <2> QED BY <1>1, <2>4, <2>5 DEF Sound
<1>3. CASE handler' = Teardown(handler)
  BY <1>1, <1>3, TeardownSound
<1> QED BY <1>2, <1>3 DEF AcceptDirectory

\* A reload keeps the fingerprint, and says so; a scroll drops it.
LEMMA UpdateConfigSound ==
  ASSUME Inductive, UpdateConfig
  PROVE  Sound(handler', runs', mergeWake, reloaded')
<1>1. /\ handler \in Handlers /\ Sound(handler, runs, mergeWake, reloaded)
  BY DEF Inductive, TypeOK
<1> DEFINE t == Teardown(handler)
<1>2. /\ t \in Handlers /\ t.visible = FALSE /\ t.suggestions = {}
      /\ t.rx = None /\ t.task = None /\ t.feedback = "Idle"
  <2>1. t \in Handlers
    BY <1>1, TeardownType
  <2> QED BY <1>1, <2>1 DEF Teardown, Handlers
<1>3. /\ handler' = [t EXCEPT !.fingerprint = handler.fingerprint]
      /\ reloaded' = (handler.fingerprint # None /\ (reloaded \/ handler.visible))
  BY DEF UpdateConfig
<1> HIDE DEF t
<1>4. /\ handler'.visible = FALSE /\ handler'.suggestions = {}
      /\ handler'.rx = None /\ handler'.task = None
      /\ handler'.feedback = "Idle"
      /\ handler'.fingerprint = handler.fingerprint
  BY <1>2, <1>3 DEF Handlers
<1>5. handler.fingerprint # None => reloaded'
  BY <1>1, <1>3 DEF Sound, Popup
<1> QED BY <1>4, <1>5 DEF Sound, OneChannel, Popup, Answered

LEMMA ScrollSound ==
  ASSUME Inductive, ScrollViewport
  PROVE  Sound(handler', runs', mergeWake, reloaded')
<1>1. /\ handler \in Handlers /\ Sound(handler, runs, mergeWake, reloaded)
      /\ handler' = [handler EXCEPT !.fingerprint = None]
      /\ runs' = runs /\ reloaded' = reloaded
  BY DEF Inductive, TypeOK, ScrollViewport
<1>2. /\ handler'.rx = handler.rx /\ handler'.task = handler.task
      /\ handler'.ctx = handler.ctx /\ handler'.spawned = handler.spawned
      /\ handler'.visible = handler.visible
      /\ handler'.suggestions = handler.suggestions
      /\ handler'.fingerprint = None
      /\ handler'.generation = handler.generation
      /\ handler'.feedback = handler.feedback
  BY <1>1 DEF Handlers
<1> QED BY <1>1, <1>2 DEF Sound, OneChannel, Popup, Answered

\* Without bounded waits the loop never leaves its first two stages.
LEMMA WaitingStep ==
  ASSUME Blocks = FALSE, TypeOK, Waiting, [Next]_vars
  PROVE  Waiting'
<1> USE DEF Waiting
<1>1. CASE StartTimer \/ FireNothing \/ FirePainted
  <2>1. loop.rx = None /\ (loop' = [loop EXCEPT !.at = "timing"] \/ loop' = Idling)
    BY <1>1 DEF StartTimer, FireNothing, FirePainted
  <2> QED BY <2>1 DEF Idling, TypeOK, Loops
<1>2. CASE UNCHANGED loop
  BY <1>2
<1>3. \/ StartTimer \/ FireNothing \/ FirePainted \/ UNCHANGED loop
  BY DEF Next, vars, ReportBuffer, NotifyDebounce, Trigger, Dismiss,
         AcceptDirectory, UpdateConfig, ScrollViewport, ClearExpiredFeedback, RunStep, Send, DropSender, NotifyMerge, Cancel,
         PollDynamic, DynamicMergeLoop, DebounceLoop, FireBlocked, Receive,
         TimeOut, Supersede, AbandonBlock, RestoreReceiver, ApplyBlockResult
<1> QED BY <1>1, <1>2, <1>3

LEMMA InductiveStep ==
  ASSUME Blocks = FALSE, Inductive, LoopTyped, [Next]_vars
  PROVE  Inductive' /\ LoopTyped'
<1>1. TypeOK' /\ LoopTyped'
  BY TypeStep DEF Inductive
<1>2. Waiting'
  BY WaitingStep DEF Inductive
<1>3. Sound(handler', runs', mergeWake', reloaded')
  <2>0. handler \in Handlers /\ Sound(handler, runs, mergeWake, reloaded)
        /\ mergeWake' \in BOOLEAN
    BY <1>1 DEF Inductive, TypeOK
  <2>1. CASE UNCHANGED <<handler, runs, mergeWake, reloaded>>
    BY <2>0, <2>1
  <2>2. CASE SkipTrigger /\ UNCHANGED mergeWake
    BY <2>2, SkipTriggerSound
  <2>3. CASE RunTrigger /\ UNCHANGED mergeWake
    BY <2>3, RunTriggerSound
  <2>4. CASE Dismiss
    <3>1. handler' = Teardown(handler)
      BY <2>4 DEF Dismiss
    <3> QED BY <2>0, <3>1, TeardownSound
  <2>5. CASE ClearExpiredFeedback
    <3>1. mergeWake' = mergeWake
      BY <2>5 DEF ClearExpiredFeedback
    <3> QED BY <2>5, <3>1, ClearExpiredSound
  <2>6. CASE \E g \in Generations : RunStep(g)
    <3>1. PICK g \in Generations : RunStep(g)
      BY <2>6
    <3>2. handler' = handler
      BY <3>1 DEF RunStep, Send, DropSender, NotifyMerge, Cancel
    <3>3. reloaded' = reloaded
      BY <3>1 DEF RunStep, Send, DropSender, NotifyMerge, Cancel
    <3> QED BY <3>1, <3>2, <3>3, RunStepSound
  <2>7. CASE TryMergeDynamic /\ UNCHANGED reloaded
    BY <2>0, <2>7, TryMergeSound
  <2>8. \/ UNCHANGED <<handler, runs, mergeWake, reloaded>>
        \/ SkipTrigger /\ UNCHANGED mergeWake
        \/ RunTrigger /\ UNCHANGED mergeWake
        \/ Dismiss \/ ClearExpiredFeedback
        \/ \E g \in Generations : RunStep(g)
        \/ TryMergeDynamic /\ UNCHANGED reloaded
        \/ AcceptDirectory /\ UNCHANGED mergeWake
        \/ UpdateConfig /\ UNCHANGED mergeWake
        \/ ScrollViewport /\ UNCHANGED mergeWake
    <3>1. CASE DebounceLoop
      BY <3>1 DEF Inductive, Waiting, DebounceLoop, StartTimer, FireNothing,
                  FirePainted, FireBlocked, Receive, TimeOut, Supersede,
                  AbandonBlock, RestoreReceiver, ApplyBlockResult
    <3>2. CASE ~DebounceLoop
      BY <3>2 DEF Next, vars, ReportBuffer, NotifyDebounce, Trigger,
                  AcceptDirectory, UpdateConfig, ScrollViewport,
                  PollDynamic, DynamicMergeLoop
    <3> QED BY <3>1, <3>2
  <2>9. CASE AcceptDirectory /\ UNCHANGED mergeWake
    BY <2>9, AcceptDirectorySound
  <2>10. CASE UpdateConfig /\ UNCHANGED mergeWake
    BY <2>10, UpdateConfigSound
  <2>11. CASE ScrollViewport /\ UNCHANGED mergeWake
    BY <2>11, ScrollSound
  <2> QED BY <2>1, <2>2, <2>3, <2>4, <2>5, <2>6, <2>7, <2>8, <2>9, <2>10, <2>11
<1> QED BY <1>1, <1>2, <1>3 DEF Inductive

LEMMA InductiveInit == Init => Inductive
<1> SUFFICES ASSUME Init PROVE Inductive
  OBVIOUS
<1>1. TypeOK
  BY TypeInit
<1>2. Waiting /\ Sound(handler, runs, mergeWake, reloaded)
  BY DEF Init, Waiting, Idling, Sound, OneChannel, Popup, Answered
<1> QED BY <1>1, <1>2 DEF Inductive

LEMMA AlwaysInductive ==
  ASSUME Blocks = FALSE
  PROVE  Spec => []Inductive
<1>1. Init => Inductive /\ LoopTyped
  BY InductiveInit, TypeInit
<1>2. Inductive /\ LoopTyped /\ [Next]_vars => (Inductive /\ LoopTyped)'
  BY InductiveStep
<1> QED BY <1>1, <1>2, PTL DEF Spec

-----------------------------------------------------------------------------
(* One run at a time, with bounded waits too: nothing triggers beside the  *)
(* loop while it holds a receiver.                                         *)

\* The suggestions are those of a trigger or of an accepted directory.
Unmixed(items) ==
  \E kind \in {"static", "chained"} :
    \A item \in items : item.kind \in {kind, "async"}

\* A handler's channel, snapshot and suggestions are those of its generation.
Current(h, rs) ==
  /\ h.rx # None => h.rx = h.generation
  /\ h.ctx # None =>
       h.generation \in Generations /\ h.ctx = rs[h.generation].ctx
  /\ ~h.visible => h.suggestions = {}
  /\ \A item \in h.suggestions : item.run = h.generation
  /\ Unmixed(h.suggestions)

\* So is the receiver the loop has taken, which it only takes with bounded
\* waits.
Awaited ==
  /\ loop.rx # None => loop.rx = handler.generation
  /\ loop.at \in {"idle", "timing"} => loop.rx = None
  /\ loop.at \notin {"idle", "timing"} => Blocks

OneRun == TypeOK /\ LoopTyped /\ Awaited /\ Current(handler, runs)

\* What every operation but a trigger does to a handler: it may let go of the
\* channel and the snapshot, and shows nothing of another generation.
Keeps(h, h2) ==
  /\ h2.generation = h.generation
  /\ h2.rx \in {None, h.generation} /\ h2.ctx \in {None, h.ctx}
  /\ ~h2.visible => h2.suggestions = {}
  /\ \A item \in h2.suggestions : item.run = h.generation
  /\ Unmixed(h2.suggestions)

SameContexts(rs, rt) == \A g \in Generations : rt[g].ctx = rs[g].ctx

LEMMA KeepsCurrent ==
  ASSUME NEW h, NEW h2, NEW rs, NEW rt,
         Current(h, rs), Keeps(h, h2), SameContexts(rs, rt)
  PROVE  Current(h2, rt)
  BY DEF Current, Keeps, SameContexts

LEMMA CurrentKeeps ==
  ASSUME NEW h, NEW rs, Current(h, rs)
  PROVE  Keeps(h, h)
  BY DEF Current, Keeps

LEMMA KeepsTransitive ==
  ASSUME NEW h, NEW h2, NEW h3, Keeps(h, h2), Keeps(h2, h3)
  PROVE  Keeps(h, h3)
  BY DEF Keeps

\* The operations of the handler, one by one.
LEMMA TeardownKeeps ==
  ASSUME NEW h \in Handlers
  PROVE  Keeps(h, Teardown(h)) /\ Teardown(h).suggestions = {}
<1> DEFINE t == Teardown(h)
<1>1. /\ t.generation = h.generation /\ t.rx = None /\ t.ctx = None
      /\ t.suggestions = {}
  BY DEF Teardown, Handlers
<1> QED BY <1>1 DEF Keeps, Unmixed

LEMMA DropStaleKeeps ==
  ASSUME NEW h \in Handlers, Keeps(h, h)
  PROVE  Keeps(h, DropStale(h)) /\ DropStale(h).suggestions = h.suggestions
<1> DEFINE d == DropStale(h)
<1>1. /\ d.generation = h.generation /\ d.rx = None /\ d.ctx = None
      /\ d.visible = h.visible /\ d.suggestions = h.suggestions
  BY DEF DropStale, Handlers
<1> QED BY <1>1 DEF Keeps

LEMMA CollectKeeps ==
  ASSUME NEW h \in Handlers, NEW messages, NEW closed \in BOOLEAN, Keeps(h, h)
  PROVE  Keeps(h, Collect(h, messages, closed))
<1> DEFINE c == Collect(h, messages, closed)
<1>1. /\ c.generation = h.generation /\ c.rx = (IF closed THEN None ELSE h.rx)
      /\ c.ctx = h.ctx /\ c.visible = h.visible /\ c.suggestions = h.suggestions
  BY ReceivedFields
<1> QED BY <1>1 DEF Keeps

LEMMA ConcludeKeeps ==
  ASSUME NEW h \in Handlers, NEW closed \in BOOLEAN, NEW shown, Keeps(h, h)
  PROVE  /\ Keeps(h, Conclude(h, closed, shown))
         /\ Conclude(h, closed, shown).suggestions = h.suggestions
<1> DEFINE c == Conclude(h, closed, shown)
<1>1. /\ c.generation = h.generation /\ c.rx = h.rx
      /\ c.visible = h.visible /\ c.suggestions = h.suggestions
  BY ConcludeFields
<1>2. c.ctx \in {None, h.ctx}
  <2>1. CASE closed
    BY <2>1 DEF Conclude, Handlers
  <2>2. CASE ~closed
    BY <2>2, ConcludeFields
  <2> QED BY <2>1, <2>2
<1> QED BY <1>1, <1>2 DEF Keeps

\* What a merge leaves on the screen: results of the handler's generation.
LEMMA MergedKeeps ==
  ASSUME NEW h \in Handlers, NEW closed \in BOOLEAN, Keeps(h, h), NEW kept,
         \A item \in kept : item.run = h.generation, Unmixed(kept)
  PROVE  Keeps(h, [Conclude(h, closed, TRUE) EXCEPT !.visible = TRUE,
                                                    !.suggestions = kept])
<1> DEFINE c == Conclude(h, closed, TRUE)
           m == [c EXCEPT !.visible = TRUE, !.suggestions = kept]
<1>1. c \in Handlers /\ Keeps(h, c)
  BY ConcludeType, ConcludeKeeps
<1> HIDE DEF c
<1>2. /\ m.generation = c.generation /\ m.rx = c.rx /\ m.ctx = c.ctx
      /\ m.visible = TRUE /\ m.suggestions = kept
  BY <1>1 DEF Handlers
<1> HIDE DEF m
<1>3. Keeps(h, m)
  BY <1>1, <1>2 DEF Keeps
<1> QED BY <1>3 DEF m, c

\* Actions that start no generation.
LEMMA RunsKeepContexts ==
  ASSUME TypeOK
  PROVE  /\ SameContexts(runs, runs)
         /\ \A t \in Option(Generations) : SameContexts(runs, Aborted(runs, t))
         /\ \A g \in Generations : SameContexts(runs, Drained(g))
         /\ \A g \in Generations, t \in Option(Generations) :
              SameContexts(runs, Aborted(Drained(g), t))
<1>1. runs \in [Generations -> Runs]
  BY DEF TypeOK
<1>2. ASSUME NEW g \in Generations
      PROVE  Drained(g) \in [Generations -> Runs] /\ SameContexts(runs, Drained(g))
  BY DrainedType, DrainedKeeps DEF SameContexts
<1>3. ASSUME NEW rs \in [Generations -> Runs], NEW t \in Option(Generations)
      PROVE  SameContexts(rs, Aborted(rs, t))
  BY AbortedKeeps DEF SameContexts
<1>4. ASSUME NEW g \in Generations, NEW t \in Option(Generations)
      PROVE  SameContexts(runs, Aborted(Drained(g), t))
  <2>1. SameContexts(runs, Drained(g)) /\ SameContexts(Drained(g), Aborted(Drained(g), t))
    BY <1>2, <1>3
  <2> QED BY <2>1 DEF SameContexts
<1>5. SameContexts(runs, runs)
  BY DEF SameContexts
<1> QED BY <1>1, <1>2, <1>3, <1>4, <1>5

\* Taking the popup down, or the outcome in its indicator.
LEMMA TakenDownKeeps ==
  ASSUME OneRun, Dismiss \/ SkipTrigger \/ ClearExpiredFeedback \/ AbandonBlock
  PROVE  /\ Keeps(handler, handler') /\ SameContexts(runs, runs')
         /\ handler'.suggestions \subseteq handler.suggestions
<1>1. /\ handler \in Handlers /\ handler.task \in Option(Generations)
      /\ Keeps(handler, handler) /\ TypeOK
  BY CurrentKeeps DEF OneRun, TypeOK, Handlers
<1>2. SameContexts(runs, runs) /\ SameContexts(runs, Aborted(runs, handler.task))
  BY <1>1, RunsKeepContexts
<1>3. runs' = runs \/ runs' = Aborted(runs, handler.task)
  BY DEF Dismiss, SkipTrigger, ClearExpiredFeedback, AbandonBlock
<1>4. \/ handler' = handler \/ handler' = Teardown(handler)
      \/ handler' = DropStale(handler)
      \/ handler' = [handler EXCEPT !.feedback = "Idle"]
  BY DEF Dismiss, SkipTrigger, ClearExpiredFeedback, AbandonBlock, DismissIfVisible
<1>5. CASE handler' = [handler EXCEPT !.feedback = "Idle"]
  <2>1. /\ handler'.generation = handler.generation
        /\ handler'.rx = handler.rx /\ handler'.ctx = handler.ctx
        /\ handler'.visible = handler.visible
        /\ handler'.suggestions = handler.suggestions
    BY <1>1, <1>5 DEF Handlers
  <2> QED BY <1>1, <1>2, <1>3, <2>1 DEF Keeps
<1>6. CASE handler' = Teardown(handler) \/ handler' = DropStale(handler)
  BY <1>1, <1>2, <1>3, <1>6, TeardownKeeps, DropStaleKeeps
<1>7. CASE handler' = handler
  BY <1>1, <1>2, <1>3, <1>7
<1> QED BY <1>4, <1>5, <1>6, <1>7

\* Results the snapshot fits are fit for the buffer: their run carries it.
LEMMA FreshFits ==
  ASSUME OneRun, NEW h \in Handlers, Keeps(handler, h), ~CheckMergeStaleness(h)
  PROVE  ~StaleAgainst(runs[handler.generation].ctx, buffer)
<1>1. h.ctx # None /\ ~StaleAgainst(h.ctx, buffer)
  BY DEF CheckMergeStaleness
<1>2. h.ctx = runs[handler.generation].ctx
  BY <1>1 DEF OneRun, Current, Keeps
<1> QED BY <1>1, <1>2

\* A poll of the handler's channel only adds results of the handler's run, and
\* only when they fit the buffer.
LEMMA PollKeeps ==
  ASSUME OneRun, TryMergeDynamic
  PROVE  /\ Keeps(handler, handler') /\ SameContexts(runs, runs')
         /\ \A item \in handler'.suggestions \ handler.suggestions :
              ~StaleAgainst(runs[item.run].ctx, buffer)
<1>1. /\ handler \in Handlers /\ TypeOK /\ Keeps(handler, handler)
      /\ SameContexts(runs, runs)
  BY CurrentKeeps, RunsKeepContexts DEF OneRun, TypeOK
<1>2. CASE handler.rx = None
  BY <1>1, <1>2 DEF TryMergeDynamic
<1>3. CASE handler.rx # None
  <2> DEFINE g == handler.rx
             closed == ~SenderAlive(g)
             received == Collect(handler, Messages(g), closed)
             concluded == Conclude(received, closed, handler.suggestions # {})
  <2>1. /\ g \in Generations /\ g = handler.generation /\ closed \in BOOLEAN
    BY <1>1, <1>3 DEF OneRun, Current, Handlers, Option, SenderAlive
  <2>2. /\ received \in Handlers /\ Keeps(handler, received)
        /\ received.suggestions = handler.suggestions
    BY <1>1, <2>1, CollectType, CollectKeeps, ReceivedFields
  <2>3. \/ MergeLoaded(received, g, closed)
        \/ handler' = concluded /\ runs' = Drained(g)
    BY <1>3 DEF TryMergeDynamic
  <2> HIDE DEF g, closed, received
  <2>4. /\ Keeps(received, received) /\ received.task \in Option(Generations)
        /\ received.generation = handler.generation
    BY <2>2 DEF Keeps, Handlers
  <2>5. /\ SameContexts(runs, Drained(g))
        /\ SameContexts(runs, Aborted(Drained(g), received.task))
    BY <1>1, <2>1, <2>4, RunsKeepContexts
  <2>6. CASE handler' = concluded /\ runs' = Drained(g)
    BY <2>1, <2>2, <2>4, <2>5, <2>6, ConcludeKeeps, KeepsTransitive
  <2>7. CASE MergeLoaded(received, g, closed) /\ CheckMergeStaleness(received)
    <3>1. handler' = DropStale(received) /\ runs' = Drained(g)
      BY <2>7 DEF MergeLoaded
    <3> QED BY <2>2, <2>4, <2>5, <3>1, DropStaleKeeps, KeepsTransitive
  <2>8. CASE MergeLoaded(received, g, closed) /\ ~CheckMergeStaleness(received)
    <3> DEFINE merged(kept) == [Conclude(received, closed, TRUE) EXCEPT
                                  !.visible = TRUE, !.suggestions = kept]
    <3>1. PICK kept \in SUBSET (received.suggestions \cup Async(g)) :
            \/ /\ handler' = Teardown(received)
               /\ runs' = Aborted(Drained(g), received.task)
            \/ handler' = merged(kept) /\ runs' = Drained(g)
      BY <2>8 DEF MergeLoaded
    <3>2. (\A item \in kept : item.run = handler.generation) /\ Unmixed(kept)
      BY <2>1, <2>2, <3>1 DEF Async, Keeps, Unmixed
    <3>3. ~StaleAgainst(runs[handler.generation].ctx, buffer)
      BY <2>2, <2>8, FreshFits
    <3>4. /\ Keeps(received, merged(kept)) /\ merged(kept).suggestions = kept
      <4>1. Keeps(received, merged(kept))
        BY <2>1, <2>2, <2>4, <3>2, MergedKeeps
      <4> DEFINE c == Conclude(received, closed, TRUE)
      <4>2. c \in Handlers
        BY <2>2, ConcludeType
      <4> HIDE DEF c
      <4>3. [c EXCEPT !.visible = TRUE, !.suggestions = kept].suggestions = kept
        BY <4>2 DEF Handlers
      <4> QED BY <4>1, <4>3 DEF c
    <3>5. /\ Keeps(received, Teardown(received)) /\ Teardown(received).suggestions = {}
      BY <2>2, TeardownKeeps
    <3> HIDE DEF merged
    <3>6. CASE handler' = Teardown(received) /\ runs' = Aborted(Drained(g), received.task)
      BY <2>2, <2>5, <3>5, <3>6, KeepsTransitive
    <3>7. CASE handler' = merged(kept) /\ runs' = Drained(g)
      BY <2>2, <2>5, <3>2, <3>3, <3>4, <3>7, KeepsTransitive
    <3> QED BY <3>1, <3>6, <3>7
  <2> QED BY <2>3, <2>6, <2>7, <2>8
<1> QED BY <1>2, <1>3

\* A timeout brings the loop's receiver back, which is of the handler's run.
LEMMA RestoreKeeps ==
  ASSUME OneRun, RestoreReceiver
  PROVE  /\ Keeps(handler, handler') /\ SameContexts(runs, runs')
         /\ handler'.suggestions = handler.suggestions
<1>1. handler \in Handlers /\ TypeOK /\ Keeps(handler, handler)
  BY CurrentKeeps DEF OneRun, TypeOK
<1>2. loop.rx \in {None, handler.generation}
  BY DEF OneRun, Awaited
<1>3. /\ handler' = [handler EXCEPT !.rx = loop.rx, !.fingerprint = loop.buffer]
      /\ runs' = runs
  BY DEF RestoreReceiver
<1>4. /\ handler'.generation = handler.generation /\ handler'.rx = loop.rx
      /\ handler'.ctx = handler.ctx /\ handler'.visible = handler.visible
      /\ handler'.suggestions = handler.suggestions
  BY <1>1, <1>3 DEF Handlers
<1>5. SameContexts(runs, runs')
  BY <1>1, <1>3, RunsKeepContexts
<1> QED BY <1>1, <1>2, <1>4, <1>5 DEF Keeps

\* The outcome of a bounded wait: what the loop waited for is still the
\* handler's run, so its results are of the generation on the screen, and they
\* are only shown when they fit the buffer.
LEMMA ApplyKeeps ==
  ASSUME OneRun, ApplyBlockResult
  PROVE  /\ Keeps(handler, handler') /\ SameContexts(runs, runs')
         /\ \A item \in handler'.suggestions \ handler.suggestions :
              item.kind = "async" => ~StaleAgainst(runs[item.run].ctx, buffer)
<1> DEFINE g == loop.rx
           closed == ~SenderAlive(g)
           messages == Messages(g) \cup ({loop.got} \ {None})
           collected == Collect(handler, messages, closed)
           received == [collected EXCEPT !.rx = IF closed THEN None ELSE g]
           static == IF loop.static THEN {[run |-> g, kind |-> "static"]} ELSE {}
           fresh == Conclude(received, closed, TRUE)
           plain == Conclude(received, closed, loop.static)
           merged(kept) == [fresh EXCEPT !.visible = TRUE, !.suggestions = kept]
<1>1. /\ handler \in Handlers /\ TypeOK /\ Keeps(handler, handler)
  BY CurrentKeeps DEF OneRun, TypeOK
<1>2. g \in Generations /\ g = handler.generation /\ closed \in BOOLEAN
  <2>1. loop.at = "received"
    BY DEF ApplyBlockResult
  <2>2. g \in Generations
    BY <2>1 DEF OneRun, LoopTyped
  <2> QED BY <2>2, NoneAssumption DEF OneRun, Awaited, SenderAlive
<1>3. /\ collected \in Handlers /\ Keeps(handler, collected)
      /\ collected.suggestions = handler.suggestions
  <2> HIDE DEF messages, closed
  <2> QED BY <1>1, <1>2, CollectType, CollectKeeps, ReceivedFields
<1>4. /\ received \in Handlers /\ Keeps(handler, received)
      /\ received.suggestions = handler.suggestions
      /\ received.generation = handler.generation
  <2> HIDE DEF collected, g, closed
  <2>1. /\ received.rx \in {None, g} /\ received.ctx = collected.ctx
        /\ received.generation = collected.generation
        /\ received.visible = collected.visible
        /\ received.suggestions = collected.suggestions
        /\ received \in Handlers
    BY <1>2, <1>3 DEF Handlers, Option
  <2> HIDE DEF received
  <2> QED BY <1>2, <1>3, <2>1 DEF Keeps
<1>5. SameContexts(runs, runs')
  <2>1. runs' = Drained(g)
    BY DEF ApplyBlockResult
  <2> QED BY <1>1, <1>2, <2>1, RunsKeepContexts
<1>6. \/ handler' = [plain EXCEPT !.fingerprint = loop.buffer]
      \/ handler' = DropStale(received)
      \/ /\ ~CheckMergeStaleness(received)
         /\ \E kept \in SUBSET (static \cup Async(g)) :
              handler' = [merged(kept) EXCEPT !.fingerprint = loop.buffer]
  <2>1. \A kept : [merged(kept) EXCEPT !.fingerprint = loop.buffer] =
                  [fresh EXCEPT !.visible = TRUE, !.suggestions = kept,
                                !.fingerprint = loop.buffer]
    <3> HIDE DEF fresh
    <3> QED OBVIOUS
  <2> QED BY <2>1 DEF ApplyBlockResult
<1> HIDE DEF received, g, closed
<1>7. Keeps(received, received)
  BY <1>4 DEF Keeps
<1>8. ASSUME NEW h \in Handlers, Keeps(handler, h),
             handler' = [h EXCEPT !.fingerprint = loop.buffer]
      PROVE  Keeps(handler, handler') /\ handler'.suggestions = h.suggestions
  <2>1. /\ handler'.generation = h.generation /\ handler'.rx = h.rx
        /\ handler'.ctx = h.ctx /\ handler'.visible = h.visible
        /\ handler'.suggestions = h.suggestions
    BY <1>8 DEF Handlers
  <2> QED BY <1>8, <2>1 DEF Keeps
<1>9. CASE handler' = [plain EXCEPT !.fingerprint = loop.buffer]
  <2>1. plain \in Handlers /\ Keeps(handler, plain) /\ plain.suggestions = handler.suggestions
    BY <1>2, <1>4, <1>7, ConcludeType, ConcludeKeeps, KeepsTransitive
  <2> HIDE DEF plain
  <2> QED BY <1>5, <1>8, <1>9, <2>1
<1>10. CASE handler' = DropStale(received)
  BY <1>4, <1>5, <1>7, <1>10, DropStaleKeeps, KeepsTransitive
<1>11. CASE /\ ~CheckMergeStaleness(received)
            /\ \E kept \in SUBSET (static \cup Async(g)) :
                 handler' = [merged(kept) EXCEPT !.fingerprint = loop.buffer]
  <2>1. PICK kept \in SUBSET (static \cup Async(g)) :
          handler' = [merged(kept) EXCEPT !.fingerprint = loop.buffer]
    BY <1>11
  <2>2. (\A item \in kept : item.run = handler.generation) /\ Unmixed(kept)
    BY <1>2, <2>1 DEF Async, Unmixed
  <2>3. Keeps(received, merged(kept))
    BY <1>2, <1>4, <1>7, <2>2, MergedKeeps
  <2>4. merged(kept) \in Handlers /\ merged(kept).suggestions = kept
    <3>1. fresh \in Handlers
      BY <1>4, ConcludeType
    <3>2. kept \in SUBSET Items
      BY <1>2, <2>1, GenerationItems
    <3> HIDE DEF fresh
    <3> QED BY <3>1, <3>2 DEF Handlers
  <2> HIDE DEF merged
  <2>5. Keeps(handler, handler') /\ handler'.suggestions = kept
    BY <1>4, <1>8, <2>1, <2>3, <2>4, KeepsTransitive
  <2>6. ~StaleAgainst(runs[handler.generation].ctx, buffer)
    BY <1>4, <1>11, FreshFits
  <2> QED BY <1>5, <2>2, <2>5, <2>6
<1> QED BY <1>6, <1>9, <1>10, <1>11

\* A trigger's handler is that of the new generation, painted at once or not.
LEMMA NewRunCurrent ==
  ASSUME OneRun, handler.generation < MaxGeneration,
         NEW static \in BOOLEAN, NEW messages \in 0..MaxMessages,
         NEW s \in Snapshots, NEW h \in Handlers,
         LET t == Triggered(handler, static, messages, s)
         IN  /\ h.generation = t.generation /\ h.visible = t.visible
             /\ h.suggestions = t.suggestions /\ h.ctx = t.ctx
             /\ h.rx \in {None, t.rx}
  PROVE  /\ Current(h, StartRun(messages, s))
         /\ h.generation = handler.generation + 1
         /\ \A item \in h.suggestions : item.kind = "static"
<1> DEFINE t == Triggered(handler, static, messages, s)
           n == handler.generation + 1
           rs == StartRun(messages, s)
<1>1. handler \in Handlers /\ TypeOK
  BY DEF OneRun, TypeOK
<1>2. /\ t.generation = n /\ t.visible = static
      /\ t.suggestions = IF static THEN {[run |-> n, kind |-> "static"]} ELSE {}
      /\ ~static => t.fingerprint = IF handler.visible THEN None
                                                     ELSE handler.fingerprint
      /\ t.rx = t.task
      /\ messages > 0 => t.rx = n /\ t.spawned = n /\ t.ctx = s
      /\ ~(messages > 0) => t.rx = None /\ t.ctx = None /\ t.feedback = "Idle"
  <2>1. ~handler.visible => handler.suggestions = {}
    BY DEF OneRun, Current
  <2> QED BY <1>1, <2>1, TriggeredFields
<1>3. n \in Generations /\ (messages > 0 => rs[n].ctx = s)
  BY <1>1, StartRunSound, StartRunType
<1> HIDE DEF t, n, rs
<1>4. Current(h, rs)
  BY <1>2, <1>3 DEF Current, Unmixed, t
<1>5. h.generation = n /\ \A item \in h.suggestions : item.kind = "static"
  BY <1>2 DEF t
<1> QED BY <1>4, <1>5 DEF n, rs

LEMMA RunTriggerCurrent ==
  ASSUME OneRun, RunTrigger
  PROVE  /\ Current(handler', runs')
         /\ \A item \in handler'.suggestions : item.kind = "static"
<1>1. handler \in Handlers /\ TypeOK
  BY DEF OneRun, TypeOK
<1>2. PICK static \in BOOLEAN, pinned \in BOOLEAN, messages \in 0..MaxMessages :
           LET snapshot == Snapshot(buffer, pinned)
               next     == Triggered(handler, static, messages, snapshot)
           IN  /\ snapshot \in Snapshots
               /\ handler.generation < MaxGeneration
               /\ buffer \in Buffers
               /\ handler' = [next EXCEPT !.fingerprint =
                                        IF static THEN buffer ELSE @]
               /\ runs' = StartRun(messages, snapshot)
               /\ reloaded' = (reloaded /\ ~static)
  BY <1>1, RunTriggerCases
<1> DEFINE s == Snapshot(buffer, pinned)
           next == Triggered(handler, static, messages, s)
<1>3. /\ s \in Snapshots /\ handler.generation < MaxGeneration
      /\ runs' = StartRun(messages, s)
      /\ handler' = [next EXCEPT !.fingerprint =
                                  IF static THEN buffer ELSE next.fingerprint]
  BY <1>2
<1>4. next \in Handlers /\ handler' \in Handlers
  BY <1>1, <1>3, TriggeredType, RunTriggerType
<1> HIDE DEF s, next
<1>5. /\ handler'.generation = next.generation /\ handler'.visible = next.visible
      /\ handler'.suggestions = next.suggestions /\ handler'.ctx = next.ctx
      /\ handler'.rx = next.rx
  BY <1>3, <1>4 DEF Handlers
<1> QED BY <1>3, <1>4, <1>5, NewRunCurrent DEF next

LEMMA FireBlockedCurrent ==
  ASSUME OneRun, FireBlocked
  PROVE  /\ Current(handler', runs')
         /\ \A item \in handler'.suggestions : item.kind = "static"
         /\ loop'.rx = handler'.generation /\ loop'.at = "blocked" /\ Blocks
<1>1. /\ handler \in Handlers /\ TypeOK /\ handler' \in Handlers
      /\ buffer \in Buffers /\ handler.generation < MaxGeneration
  BY FireBlockedType DEF OneRun, FireBlocked, NothingToTrigger, TypeOK, Option
<1>2. PICK static \in BOOLEAN, pinned \in BOOLEAN, messages \in 1..MaxMessages :
        LET snapshot == Snapshot(buffer, pinned)
        IN  /\ handler' = [Triggered(handler, static, messages, snapshot)
                             EXCEPT !.rx = None]
            /\ runs' = StartRun(messages, snapshot)
            /\ loop' = [at |-> "blocked", rx |-> handler.generation + 1,
                        static |-> static, buffer |-> buffer, got |-> None]
  BY DEF FireBlocked
<1> DEFINE s == Snapshot(buffer, pinned)
           next == Triggered(handler, static, messages, s)
<1>3. s \in Snapshots /\ messages \in 0..MaxMessages
  BY <1>1, SnapshotType, BoundsAssumption
<1>4. next \in Handlers
  BY <1>1, <1>3, TriggeredType
<1>5. /\ handler' = [next EXCEPT !.rx = None] /\ runs' = StartRun(messages, s)
      /\ loop'.rx = handler.generation + 1 /\ loop'.at = "blocked"
  BY <1>2
<1> HIDE DEF s, next
<1>6. /\ handler'.generation = next.generation /\ handler'.visible = next.visible
      /\ handler'.suggestions = next.suggestions /\ handler'.ctx = next.ctx
      /\ handler'.rx = None
  BY <1>4, <1>5 DEF Handlers
<1>7. /\ Current(handler', StartRun(messages, s))
      /\ handler'.generation = handler.generation + 1
      /\ \A item \in handler'.suggestions : item.kind = "static"
  BY <1>1, <1>3, <1>6, NewRunCurrent DEF next
<1> QED BY <1>5, <1>7 DEF FireBlocked

\* An accepted directory's suggestions are of no run, so the popup they fill
\* stays that of the latest; a reload and a scroll show nothing.
LEMMA AcceptDirectoryKeeps ==
  ASSUME OneRun, AcceptDirectory
  PROVE  /\ Keeps(handler, handler') /\ SameContexts(runs, runs')
         /\ \A item \in handler'.suggestions : item.kind = "chained"
<1>1. /\ handler \in Handlers /\ handler.task \in Option(Generations)
      /\ Keeps(handler, handler) /\ TypeOK /\ handler.visible
  BY CurrentKeeps DEF OneRun, TypeOK, Handlers, AcceptDirectory
<1>2. SameContexts(runs, runs) /\ SameContexts(runs, Aborted(runs, handler.task))
  BY <1>1, RunsKeepContexts
<1>3. CASE handler' = ShowChained(handler) /\ UNCHANGED runs
  <2> DEFINE S == {[run |-> handler.generation, kind |-> "chained"]}
  <2>1. handler' = [handler EXCEPT !.suggestions = S]
    BY <1>3 DEF ShowChained
  <2>2. /\ \A item \in S : item.run = handler.generation /\ item.kind = "chained"
        /\ Unmixed(S)
    BY DEF Unmixed
  <2> HIDE DEF S
  <2>3. /\ handler'.generation = handler.generation
        /\ handler'.rx = handler.rx /\ handler'.ctx = handler.ctx
        /\ handler'.visible = handler.visible /\ handler'.suggestions = S
    BY <1>1, <2>1 DEF Handlers
  <2> QED BY <1>1, <1>2, <1>3, <2>2, <2>3 DEF Keeps
<1>4. CASE handler' = Teardown(handler) /\ runs' = Aborted(runs, handler.task)
  BY <1>1, <1>2, <1>4, TeardownKeeps
<1> QED BY <1>3, <1>4 DEF AcceptDirectory

LEMMA UpdateConfigKeeps ==
  ASSUME OneRun, UpdateConfig
  PROVE  /\ Keeps(handler, handler') /\ SameContexts(runs, runs')
         /\ handler'.suggestions = {}
<1>1. /\ handler \in Handlers /\ handler.task \in Option(Generations) /\ TypeOK
  BY DEF OneRun, TypeOK, Handlers
<1> DEFINE t == Teardown(handler)
<1>2. t \in Handlers /\ Keeps(handler, t) /\ t.suggestions = {}
  BY <1>1, TeardownType, TeardownKeeps
<1>3. /\ handler' = [t EXCEPT !.fingerprint = handler.fingerprint]
      /\ runs' = Aborted(runs, handler.task)
  BY DEF UpdateConfig
<1> HIDE DEF t
<1>4. /\ handler'.generation = t.generation /\ handler'.rx = t.rx
      /\ handler'.ctx = t.ctx /\ handler'.visible = t.visible
      /\ handler'.suggestions = t.suggestions
  BY <1>2, <1>3 DEF Handlers
<1>5. SameContexts(runs, runs')
  BY <1>1, <1>3, RunsKeepContexts
<1> QED BY <1>2, <1>4, <1>5 DEF Keeps

LEMMA ScrollKeeps ==
  ASSUME OneRun, ScrollViewport
  PROVE  /\ Keeps(handler, handler') /\ SameContexts(runs, runs')
         /\ handler'.suggestions = handler.suggestions
<1>1. /\ handler \in Handlers /\ TypeOK /\ Keeps(handler, handler)
      /\ SameContexts(runs, runs)
  BY CurrentKeeps, RunsKeepContexts DEF OneRun, TypeOK
<1>2. handler' = [handler EXCEPT !.fingerprint = None] /\ runs' = runs
  BY DEF ScrollViewport
<1>3. /\ handler'.generation = handler.generation /\ handler'.rx = handler.rx
      /\ handler'.ctx = handler.ctx /\ handler'.visible = handler.visible
      /\ handler'.suggestions = handler.suggestions
  BY <1>1, <1>2 DEF Handlers
<1> QED BY <1>1, <1>2, <1>3 DEF Keeps

\* What a step does to the handler: a trigger begins a run, no other step does.
LEMMA HandlerStep ==
  ASSUME OneRun, [Next]_vars
  PROVE  \/ /\ Keeps(handler, handler') /\ SameContexts(runs, runs')
            /\ \A item \in handler'.suggestions \ handler.suggestions :
                 item.kind = "async" => ~StaleAgainst(runs[item.run].ctx, buffer)
         \/ RunTrigger /\ FirePainted
         \/ RunTrigger /\ Direct /\ UNCHANGED loop
         \/ FireBlocked
<1>1. TypeOK /\ Keeps(handler, handler) /\ SameContexts(runs, runs)
  BY CurrentKeeps, RunsKeepContexts DEF OneRun
<1>2. CASE UNCHANGED <<handler, runs>>
  BY <1>1, <1>2
<1>3. CASE Dismiss \/ SkipTrigger \/ ClearExpiredFeedback \/ AbandonBlock
  BY <1>3, TakenDownKeeps
<1>4. CASE TryMergeDynamic
  BY <1>4, PollKeeps
<1>5. CASE RestoreReceiver
  BY <1>5, RestoreKeeps
<1>6. CASE ApplyBlockResult
  BY <1>6, ApplyKeeps
<1>7. CASE \E g \in Generations : RunStep(g)
  <2>1. PICK g \in Generations : RunStep(g)
    BY <1>7
  <2>2. handler' = handler
    BY <2>1 DEF RunStep, Send, DropSender, NotifyMerge, Cancel
  <2>3. SameContexts(runs, runs')
    BY <1>1, <2>1, RunStepKeeps DEF SameContexts
  <2> QED BY <1>1, <2>2, <2>3
<1>8. CASE Receive
  <2>1. handler' = handler /\ loop.rx \in Generations
    BY <1>8 DEF Receive, OneRun, LoopTyped
  <2>2. \/ runs' = runs
        \/ runs' = [runs EXCEPT ![loop.rx].queue = Tail(runs[loop.rx].queue)]
    BY <1>8 DEF Receive
  <2> DEFINE t == Tail(runs[loop.rx].queue)
  <2>3. runs' = runs \/ runs' = [runs EXCEPT ![loop.rx].queue = t]
    BY <2>2
  <2> HIDE DEF t
  <2>4. CASE runs' = [runs EXCEPT ![loop.rx].queue = t]
    <3>1. runs \in [Generations -> Runs]
      BY <1>1 DEF TypeOK
    <3>2. SameContexts(runs, runs')
      BY <2>4, <3>1 DEF SameContexts, Runs
    <3> QED BY <1>1, <2>1, <3>2
  <2> QED BY <1>1, <2>1, <2>3, <2>4
<1>9. CASE Trigger
  <2>1. SkipTrigger \/ (RunTrigger /\ Direct /\ UNCHANGED loop)
    BY <1>9 DEF Trigger
  <2> QED BY <1>3, <2>1
<1>10. CASE FireNothing
  BY <1>2, <1>3, <1>10 DEF FireNothing
<1>11. CASE FirePainted
  BY <1>11 DEF FirePainted
<1>12. CASE NotifyDebounce \/ StartTimer \/ TimeOut
            \/ Supersede \/ UNCHANGED vars
  BY <1>2, <1>12 DEF ReportBuffer, NotifyDebounce, StartTimer, TimeOut,
                     Supersede, vars
<1>13. CASE PollDynamic \/ DynamicMergeLoop
  BY <1>4, <1>13 DEF PollDynamic, DynamicMergeLoop
<1>14. CASE \E b \in Option(Buffers) : ReportBuffer(b)
  BY <1>2, <1>14 DEF ReportBuffer
<1>15. CASE FireBlocked
  BY <1>15
<1>16. CASE AcceptDirectory
  BY <1>16, AcceptDirectoryKeeps
<1>17. CASE UpdateConfig
  BY <1>17, UpdateConfigKeeps
<1>18. CASE ScrollViewport
  BY <1>18, ScrollKeeps
<1> QED
  BY <1>3, <1>5, <1>6, <1>7, <1>8, <1>9, <1>10, <1>11, <1>12, <1>13, <1>14, <1>15,
     <1>16, <1>17, <1>18
     DEF Next, DebounceLoop

\* What a step does to the loop.
LEMMA LoopStep ==
  ASSUME OneRun, [Next]_vars
  PROVE  \/ loop'.rx = None /\ loop'.at \in {"idle", "timing"}
         \/ UNCHANGED loop
         \/ /\ loop'.rx = loop.rx /\ handler' = handler
            /\ loop'.at \notin {"idle", "timing"} /\ loop.at = "blocked"
         \/ FireBlocked
<1>1. loop \in Loops
  BY DEF OneRun, TypeOK
<1>2. CASE StartTimer
  <2>1. loop' = [loop EXCEPT !.at = "timing"] /\ loop.rx = None
    BY <1>2 DEF StartTimer, OneRun, Awaited
  <2> QED BY <1>1, <2>1 DEF Loops
<1>3. CASE \/ FireNothing \/ FirePainted \/ AbandonBlock \/ RestoreReceiver
           \/ ApplyBlockResult
  <2>1. loop' = Idling
    BY <1>3 DEF FireNothing, FirePainted, AbandonBlock, RestoreReceiver,
                ApplyBlockResult
  <2> QED BY <2>1 DEF Idling
<1>4. CASE Receive \/ TimeOut \/ Supersede
  <2>1. loop.at = "blocked" /\ handler' = handler
    BY <1>4 DEF Receive, TimeOut, Supersede
  <2>2. loop'.rx = loop.rx /\ loop'.at \in {"received", "timedout", "cancelled"}
    BY <1>1, <1>4 DEF Receive, TimeOut, Supersede, Loops
  <2> QED BY <2>1, <2>2
<1>5. CASE ~DebounceLoop
  <2>1. UNCHANGED loop
    BY <1>5 DEF Next, vars, ReportBuffer, NotifyDebounce, Trigger, Dismiss,
           AcceptDirectory, UpdateConfig, ScrollViewport, ClearExpiredFeedback, RunStep, Send, DropSender, NotifyMerge, Cancel,
           PollDynamic, DynamicMergeLoop
  <2> QED BY <2>1
<1> QED BY <1>2, <1>3, <1>4, <1>5 DEF DebounceLoop

LEMMA OneRunStep ==
  ASSUME Blocks => ~Direct, OneRun, [Next]_vars
  PROVE  OneRun'
<1>1. TypeOK' /\ LoopTyped'
  BY TypeStep DEF OneRun
<1>2. Current(handler', runs')
  <2>1. CASE Keeps(handler, handler') /\ SameContexts(runs, runs')
    BY <2>1, KeepsCurrent DEF OneRun
  <2>2. CASE RunTrigger \/ FireBlocked
    BY <2>2, RunTriggerCurrent, FireBlockedCurrent
  <2> QED BY <2>1, <2>2, HandlerStep
<1>3. Awaited'
  <2>1. CASE loop'.rx = None /\ loop'.at \in {"idle", "timing"}
    BY <2>1 DEF Awaited
  <2>2. CASE UNCHANGED loop /\ handler'.generation = handler.generation
    BY <2>2 DEF OneRun, Awaited
  <2>3. CASE UNCHANGED loop /\ Direct
    BY <2>3 DEF OneRun, Awaited
  <2>4. CASE /\ loop'.rx = loop.rx /\ handler' = handler
             /\ loop'.at \notin {"idle", "timing"} /\ loop.at = "blocked"
    BY <2>4 DEF OneRun, Awaited
  <2>5. CASE FireBlocked
    BY <2>5, FireBlockedCurrent DEF Awaited
  <2>6. CASE FirePainted
    BY <2>1, <2>6 DEF FirePainted, Idling
  <2> QED BY <2>1, <2>2, <2>3, <2>4, <2>5, <2>6, HandlerStep, LoopStep DEF Keeps
<1> QED BY <1>1, <1>2, <1>3 DEF OneRun

LEMMA AlwaysOneRun ==
  ASSUME Blocks => ~Direct
  PROVE  Spec => []OneRun
<1>1. Init => OneRun
  <2> SUFFICES ASSUME Init PROVE OneRun
    OBVIOUS
  <2>1. TypeOK /\ LoopTyped
    BY TypeInit
  <2>2. Awaited /\ Current(handler, runs)
    BY DEF Init, Awaited, Idling, Current, Unmixed
  <2> QED BY <2>1, <2>2 DEF OneRun
<1>2. OneRun /\ [Next]_vars => OneRun'
  BY OneRunStep
<1> QED BY <1>1, <1>2, PTL DEF Spec

-----------------------------------------------------------------------------
(* The theorems.                                                           *)

\* With render_block_ms = 0 the handler's only channel is the one of the
\* latest generation, with its task and its snapshot: spawn_generators and
\* the resets of trigger always replace the three together.
THEOREM OneChannelTheorem ==
  ASSUME Blocks = FALSE
  PROVE  Spec => []ChannelOfGeneration
<1>1. Inductive => ChannelOfGeneration
  BY DEF Inductive, Waiting, Sound, OneChannel, Popup, ChannelOfGeneration
<1> QED BY <1>1, AlwaysInductive, PTL

\* With render_block_ms = 0 no wake-up is lost: a loading indicator always has
\* a run that will wake the merge loop after its channel is closed, whatever
\* triggers, keys, polls and aborts come in between.
THEOREM NoLostWakeup ==
  ASSUME Blocks = FALSE
  PROVE  Spec => []LoadingIsAnswered
<1>1. Inductive => LoadingIsAnswered
  BY DEF Inductive, Sound, Answered, Wakes, LoadingIsAnswered, WillNotify
<1> QED BY <1>1, AlwaysInductive, PTL

\* The popup only shows what was computed for the latest trigger, or for one
\* directory accepted since instead of its static suggestions; with bounded
\* waits or without, unless a trigger may run beside the debounce loop while
\* that loop holds a receiver.
THEOREM CurrentRunTheorem ==
  ASSUME Blocks => ~Direct
  PROVE  Spec => []ShowsCurrentRun
<1>1. OneRun => ShowsCurrentRun
  BY DEF OneRun, Current, Unmixed, ShowsCurrentRun
<1> QED BY <1>1, AlwaysOneRun, PTL

\* With render_block_ms = 0 the idempotency guard of trigger never skips a
\* buffer other than the one of the latest trigger, unless a reload has left
\* behind the fingerprint of a popup it hid.
THEOREM SkipTheorem ==
  ASSUME Blocks = FALSE
  PROVE  Spec => []SkipRepeatsTrigger
<1>1. Inductive => SkipRepeatsTrigger
  BY DEF Inductive, Sound, Popup, SkipRepeatsTrigger
<1> QED BY <1>1, AlwaysInductive, PTL

\* Results only reach the popup while the buffer is at the completion site they
\* were computed for, and, for generators that read it, under the same word;
\* whether a poll brings them or the end of a bounded wait.
THEOREM MergeTheorem ==
  ASSUME Blocks => ~Direct
  PROVE  Spec => MergesMatchBuffer
<1> DEFINE Fits == \A item \in handler'.suggestions \ handler.suggestions :
                     item.kind = "async" =>
                       ~StaleAgainst(runs[item.run].ctx, buffer)
<1>1. OneRun /\ [Next]_vars => [Fits]_vars
  <2> SUFFICES ASSUME OneRun, [Next]_vars PROVE Fits
    OBVIOUS
  <2>1. CASE RunTrigger \/ FireBlocked
    <3>1. \A item \in handler'.suggestions : item.kind = "static"
      BY <2>1, RunTriggerCurrent, FireBlockedCurrent
    <3> QED BY <3>1
  <2>2. CASE ~(RunTrigger \/ FireBlocked)
    BY <2>2, HandlerStep
  <2> QED BY <2>1, <2>2
<1> HIDE DEF Fits
<1>2. Spec => [][Fits]_vars
  BY <1>1, AlwaysOneRun, PTL DEF Spec
<1> QED BY <1>2 DEF Fits, MergesMatchBuffer

=============================================================================
