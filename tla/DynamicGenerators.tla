-------------------------- MODULE DynamicGenerators --------------------------
(***************************************************************************)
(* Generator runs and the popup they feed (crates/gc-pty).                 *)
(*                                                                         *)
(* A trigger starts a new generation: it aborts the previous run, asks the *)
(* engine for static suggestions and spawns one task that resolves the     *)
(* generators of the buffer and sends one message per generator through a  *)
(* bounded channel.  The receiver lives in the handler, where Task B and   *)
(* the dynamic merge loop poll it; with popup.render_block_ms > 0 the      *)
(* debounce loop first takes it away, awaits it without the handler's      *)
(* lock, and brings the outcome back in a second critical section.         *)
(*                                                                         *)
(* A generation is the value buffer_generation had when its trigger ran;   *)
(* each spawns at most one run, so generations name runs and channels.     *)
(* The engine's answer is a free choice: some static suggestions or none,  *)
(* and how many messages the generators will send.  Painting is the        *)
(* subject of OverlayOwnership; here a popup is its suggestions.           *)
(***************************************************************************)
EXTENDS Naturals, Sequences, FiniteSets

CONSTANTS
  Sites,          \* completion sites: command, args, flag, word index
  Words,          \* what the word under the cursor may be
  MaxMessages,    \* messages a run may send, one per generator
  Capacity,       \* slots of the channel, 8 in the code
  MaxGeneration,  \* bound on buffer_generation
  Blocks,         \* is popup.render_block_ms > 0?
  Direct,         \* may Tasks A and B trigger beside the debounce loop?
  None            \* Option::None; as a buffer, the empty command line

Generations == 1..MaxGeneration
Buffers     == [site: Sites, word: Words]
Snapshots   == [site: Sites, word: Words \cup {None}]
Results     == {"Loaded", "Empty", "Error"}
Feedbacks   == {"Idle", "Loading", "Empty", "Error", "PartialError"}
Items       == [run: 0..MaxGeneration, kind: {"static", "chained", "async"}]
Option(S)   == {None} \cup S

ASSUME BoundsAssumption ==
  /\ MaxMessages \in Nat /\ Capacity \in Nat /\ MaxGeneration \in Nat
  /\ Blocks \in BOOLEAN /\ Direct \in BOOLEAN

ASSUME NoneAssumption ==
  /\ None \notin Generations /\ None \notin Results
  /\ None \notin Words /\ None \notin Snapshots /\ None \notin Buffers

Handlers ==
  [visible: BOOLEAN, suggestions: SUBSET Items, fingerprint: Option(Buffers),
   feedback: Feedbacks, failed: BOOLEAN, empties: BOOLEAN,
   generation: 0..MaxGeneration, spawned: 0..MaxGeneration,
   ctx: Option(Snapshots), rx: Option(Generations), task: Option(Generations)]

\* A run's task: running holds the sender; closed has dropped it and still owes
\* its notification.  buffer is the one its trigger read, kept for every
\* generation, whether it spawned a run or not.
Runs ==
  [stage: {"none", "running", "closed", "done"}, aborted: BOOLEAN,
   left: 0..MaxMessages, queue: Seq(Results),
   ctx: Option(Snapshots), buffer: Option(Buffers)]

\* The debounce loop between two awaits, with what NeedsBlock gave it.  It
\* drops the receiver rx as it is cancelled.
Loops ==
  [at: {"idle", "timing", "blocked", "received", "timedout", "cancelled"},
   rx: Option(Generations), static: BOOLEAN, buffer: Option(Buffers),
   got: Option(Results)]

VARIABLES
  buffer,         \* the shell's command buffer, as the parser knows it
  handler,        \* InputHandler, as the mutex protects it
  runs,           \* [Generations -> Runs]
  loop,           \* debounce_loop
  debounceWake,   \* the permit of debounce_notify
  mergeWake,      \* the permit of dynamic_notify
  reloaded        \* for the properties: a reload hid the popup the handler's
                  \* fingerprint was taken for

vars == <<buffer, handler, runs, loop, debounceWake, mergeWake, reloaded>>

-----------------------------------------------------------------------------
(* Channels and tasks.                                                     *)

ReceiverAlive(g) == handler.rx = g \/ (loop.rx = g /\ loop.at # "cancelled")
SenderAlive(g)   == runs[g].stage = "running"

\* What a loop of try_recv takes out of a channel.
Messages(g)  == {runs[g].queue[i] : i \in DOMAIN runs[g].queue}
Drained(g)   == [runs EXCEPT ![g].queue = <<>>]

\* JoinHandle::abort: the task is cancelled at its next await.
Aborted(rs, task) ==
  IF task = None THEN rs ELSE [rs EXCEPT ![task].aborted = TRUE]

-----------------------------------------------------------------------------
(* Operations of the handler.                                              *)

\* Mutation: a teardown that leaves the fingerprint alone.
TeardownKeepingFingerprint(h) ==
  [h EXCEPT !.visible = FALSE, !.suggestions = {},
            !.task = None, !.rx = None, !.ctx = None,
            !.feedback = "Idle", !.failed = FALSE, !.empties = FALSE]

\* teardown_popup, but for the abort of its task.
Teardown(h) ==
  [h EXCEPT !.visible = FALSE, !.suggestions = {}, !.fingerprint = None,
            !.task = None, !.rx = None, !.ctx = None,
            !.feedback = "Idle", !.failed = FALSE, !.empties = FALSE]

DismissIfVisible(h) == IF h.visible THEN Teardown(h) ELSE h

\* The head of trigger and prepare_trigger_with_block: a new generation, with
\* nothing left of the previous run.
NextGeneration(h) ==
  [h EXCEPT !.task = None, !.rx = None, !.ctx = None,
            !.feedback = "Idle", !.failed = FALSE, !.empties = FALSE,
            !.generation = @ + 1]

\* Mutation: static suggestions are added to those of the last trigger.
ExtendStatic(h) ==
  [h EXCEPT !.visible = TRUE,
            !.suggestions = @ \cup {[run |-> h.generation, kind |-> "static"]}]

ShowStatic(h) ==
  [h EXCEPT !.visible = TRUE,
            !.suggestions = {[run |-> h.generation, kind |-> "static"]}]

\* The suggestions for a directory just accepted, in the place of all others.
ShowChained(h) ==
  [h EXCEPT !.suggestions = {[run |-> h.generation, kind |-> "chained"]}]

\* DynamicCtxSnapshot::capture
Snapshot(b, pinned) ==
  [site |-> b.site, word |-> IF pinned THEN b.word ELSE None]

\* Mutation: the run is stamped with the generation to come.
SpawnAhead(h, snapshot) ==
  [h EXCEPT !.ctx = snapshot, !.spawned = h.generation + 1,
            !.rx = h.generation, !.task = h.generation,
            !.feedback = "Loading", !.failed = FALSE, !.empties = FALSE]

\* spawn_generators, on the handler.
SpawnGenerators(h, snapshot) ==
  [h EXCEPT !.ctx = snapshot, !.spawned = h.generation, !.rx = h.generation,
            !.task = h.generation, !.feedback = "Loading",
            !.failed = FALSE, !.empties = FALSE]

Triggered(h, static, messages, snapshot) ==
  LET reset == NextGeneration(h)
      shown == IF static THEN ShowStatic(reset) ELSE DismissIfVisible(reset)
  IN  IF messages > 0 THEN SpawnGenerators(shown, snapshot) ELSE shown

NewRun(messages, snapshot) ==
  [stage |-> IF messages > 0 THEN "running" ELSE "none", aborted |-> FALSE,
   left |-> messages, queue |-> <<>>,
   ctx |-> IF messages > 0 THEN snapshot ELSE None, buffer |-> buffer]

StartRun(messages, snapshot) ==
  [Aborted(runs, handler.task) EXCEPT
     ![handler.generation + 1] = NewRun(messages, snapshot)]

\* DynamicCtxSnapshot::is_stale_against
StaleAgainst(snapshot, b) ==
  \/ b = None
  \/ snapshot.site # b.site
  \/ snapshot.word # None /\ snapshot.word # b.word

\* Mutation: only the generation is compared, not the snapshot.
CheckGenerationOnly(h) == h.spawned # h.generation \/ h.ctx = None

\* check_merge_staleness
CheckMergeStaleness(h) ==
  \/ h.spawned # h.generation
  \/ h.ctx = None
  \/ StaleAgainst(h.ctx, buffer)

\* AsyncFeedback::terminal_for_outcome
TerminalForOutcome(loaded, failed, empties) ==
  IF failed THEN IF loaded THEN "PartialError" ELSE "Error"
  ELSE IF ~loaded /\ empties THEN "Empty" ELSE "Idle"

\* Mutation: the handle of a finished task is kept.
CollectKeepingTask(h, messages, closed) ==
  [h EXCEPT !.failed  = @ \/ "Error" \in messages,
            !.empties = @ \/ "Empty" \in messages,
            !.rx   = IF closed THEN None ELSE @]

\* Counts the messages; a closed channel lets go of the receiver and the task.
Collect(h, messages, closed) ==
  [h EXCEPT !.failed  = @ \/ "Error" \in messages,
            !.empties = @ \/ "Empty" \in messages,
            !.rx   = IF closed THEN None ELSE @,
            !.task = IF closed THEN None ELSE @]

\* Once the channel is closed the outcome is known; shown says whether there
\* are suggestions for its indicator to stand below.
Conclude(h, closed, shown) ==
  IF closed
  THEN [h EXCEPT !.ctx = None, !.failed = FALSE, !.empties = FALSE,
                 !.feedback = TerminalForOutcome(shown, h.failed, h.empties)]
  ELSE h

DropStale(h) ==
  [h EXCEPT !.rx = None, !.ctx = None, !.task = None,
            !.feedback = "Idle", !.failed = FALSE, !.empties = FALSE]

Async(g) == {[run |-> g, kind |-> "async"]}

-----------------------------------------------------------------------------
(* The tasks.                                                              *)

Idling == [at |-> "idle", rx |-> None, static |-> FALSE, buffer |-> None,
           got |-> None]

Init ==
  /\ buffer = None
  /\ handler = [visible |-> FALSE, suggestions |-> {}, fingerprint |-> None,
                feedback |-> "Idle", failed |-> FALSE, empties |-> FALSE,
                generation |-> 0, spawned |-> 0, ctx |-> None, rx |-> None,
                task |-> None]
  /\ runs = [g \in Generations |->
               [stage |-> "none", aborted |-> FALSE, left |-> 0,
                queue |-> <<>>, ctx |-> None, buffer |-> None]]
  /\ loop = Idling
  /\ debounceWake = FALSE /\ mergeWake = FALSE
  /\ reloaded = FALSE

\* The shell reports its buffer; the bytes that echoed the edit may still be to
\* come, so the popup may outlive the buffer it was made for.
ReportBuffer(b) ==
  /\ buffer' = b
  /\ UNCHANGED <<handler, runs, loop, debounceWake, mergeWake, reloaded>>

\* Task B asks for a debounced trigger, at once or when it resolves a stash.
NotifyDebounce ==
  /\ debounceWake' = TRUE
  /\ UNCHANGED <<buffer, handler, runs, loop, mergeWake, reloaded>>

\* The buffer is empty, or the popup is visible with its fingerprint.
NothingToTrigger ==
  \/ buffer = None
  \/ handler.visible /\ handler.fingerprint = buffer

SkipTrigger ==
  /\ NothingToTrigger
  /\ handler' = IF buffer = None THEN DismissIfVisible(handler) ELSE handler
  /\ runs' = IF buffer = None /\ handler.visible
             THEN Aborted(runs, handler.task) ELSE runs
  /\ UNCHANGED reloaded

\* trigger past its guards.  An engine error is an answer without suggestions
\* and without generators.
RunTrigger ==
  /\ ~NothingToTrigger
  /\ handler.generation < MaxGeneration
  /\ \E static, pinned \in BOOLEAN, messages \in 0..MaxMessages :
       LET snapshot == Snapshot(buffer, pinned)
           next     == Triggered(handler, static, messages, snapshot)
       IN  /\ handler' = [next EXCEPT !.fingerprint =
                                    IF static THEN buffer ELSE @]
           /\ runs' = StartRun(messages, snapshot)
           /\ reloaded' = (reloaded /\ ~static)

\* The trigger key, an immediate Action::Trigger, or a new directory or
\* environment.
Trigger ==
  /\ Direct
  /\ SkipTrigger \/ RunTrigger
  /\ UNCHANGED <<buffer, loop, debounceWake, mergeWake>>

\* accept_with_chaining on a directory: the parser is given the command line it
\* predicts, whose suggestions take the place of those shown.  No generation
\* starts: the channel, the snapshot and the fingerprint stay what they were.
AcceptDirectory ==
  /\ handler.visible /\ handler.suggestions # {}
  /\ \E predicted \in Buffers :
       /\ buffer # None => predicted.site = buffer.site
       /\ buffer' = predicted
  /\ \/ /\ handler' = ShowChained(handler)
        /\ UNCHANGED runs
     \/ /\ handler' = Teardown(handler)
        /\ runs' = Aborted(runs, handler.task)
  /\ UNCHANGED <<loop, debounceWake, mergeWake, reloaded>>

\* update_config when it turns auto_trigger off: all of a teardown but the
\* fingerprint.  Another reload turns it on again, so that it is no state here.
UpdateConfig ==
  /\ handler' = [Teardown(handler) EXCEPT !.fingerprint = handler.fingerprint]
  /\ runs' = Aborted(runs, handler.task)
  /\ reloaded' = (handler.fingerprint # None /\ (reloaded \/ handler.visible))
  /\ UNCHANGED <<buffer, loop, debounceWake, mergeWake>>

\* handle_terminal_output after a scroll of the viewport.
ScrollViewport ==
  /\ handler' = [handler EXCEPT !.fingerprint = None]
  /\ UNCHANGED <<buffer, runs, loop, debounceWake, mergeWake, reloaded>>

\* A key, a resize or shell output takes down the popup, its feedback box or the
\* layout that a reload has left on the screen, with the fingerprint.
Dismiss ==
  /\ handler.visible \/ handler.feedback # "Idle" \/ handler.fingerprint # None
  /\ handler' = Teardown(handler)
  /\ runs' = Aborted(runs, handler.task)
  /\ UNCHANGED <<buffer, loop, debounceWake, mergeWake, reloaded>>

ClearExpiredFeedback ==
  /\ handler.feedback \in {"Empty", "Error", "PartialError"}
  /\ IF handler.feedback = "PartialError" /\ handler.suggestions # {}
     THEN /\ handler' = [handler EXCEPT !.feedback = "Idle"]
          /\ UNCHANGED runs
     ELSE /\ handler' = Teardown(handler)
          /\ runs' = Aborted(runs, handler.task)
  /\ UNCHANGED <<buffer, loop, debounceWake, mergeWake, reloaded>>

-----------------------------------------------------------------------------
(* A run.                                                                  *)

\* One generator answered; a send to a dropped receiver ends the task at once.
Send(g) ==
  /\ runs[g].stage = "running" /\ runs[g].left > 0
  /\ IF ReceiverAlive(g)
     THEN /\ Len(runs[g].queue) < Capacity
          /\ \E result \in Results :
               runs' = [runs EXCEPT ![g].left = @ - 1,
                                    ![g].queue = Append(@, result)]
     ELSE runs' = [runs EXCEPT ![g].stage = "done", ![g].queue = <<>>]
  /\ UNCHANGED <<buffer, handler, loop, debounceWake, mergeWake, reloaded>>

\* drop(tx), then notify_one: the merge loop must find the channel closed.
DropSender(g) ==
  /\ runs[g].stage = "running" /\ runs[g].left = 0
  /\ runs' = [runs EXCEPT ![g].stage = "closed"]
  /\ UNCHANGED <<buffer, handler, loop, debounceWake, mergeWake, reloaded>>

\* Mutation: a run without results does not notify.
NotifyIfLoaded(g) ==
  /\ runs[g].stage = "closed"
  /\ runs' = [runs EXCEPT ![g].stage = "done"]
  /\ mergeWake' = (mergeWake \/ "Loaded" \in Messages(g))
  /\ UNCHANGED <<buffer, handler, loop, debounceWake, reloaded>>

NotifyMerge(g) ==
  /\ runs[g].stage = "closed"
  /\ runs' = [runs EXCEPT ![g].stage = "done"]
  /\ mergeWake' = TRUE
  /\ UNCHANGED <<buffer, handler, loop, debounceWake, reloaded>>

\* There is no await between drop(tx) and notify_one.
Cancel(g) ==
  /\ runs[g].stage = "running" /\ runs[g].aborted
  /\ runs' = [runs EXCEPT ![g].stage = "done"]
  /\ UNCHANGED <<buffer, handler, loop, debounceWake, mergeWake, reloaded>>

RunStep(g) == Send(g) \/ DropSender(g) \/ NotifyMerge(g) \/ Cancel(g)

-----------------------------------------------------------------------------
(* Merging what came.                                                      *)

\* Results of an earlier buffer are dropped; rerank_live keeps of the others
\* what matches the live word.
MergeLoaded(h, g, closed) ==
  IF CheckMergeStaleness(h)
  THEN /\ handler' = DropStale(h)
       /\ runs' = Drained(g)
  ELSE \E kept \in SUBSET (h.suggestions \cup Async(g)) :
         IF kept = {}
         THEN /\ handler' = Teardown(h)
              /\ runs' = Aborted(Drained(g), h.task)
         ELSE /\ handler' = [Conclude(h, closed, TRUE) EXCEPT
                               !.visible = TRUE, !.suggestions = kept]
              /\ runs' = Drained(g)

TryMergeDynamic ==
  IF handler.rx = None THEN UNCHANGED <<handler, runs>>
  ELSE LET g        == handler.rx
           closed   == ~SenderAlive(g)
           received == Collect(handler, Messages(g), closed)
       IN  IF "Loaded" \in Messages(g)
           THEN MergeLoaded(received, g, closed)
           ELSE /\ handler' = Conclude(received, closed,
                                       handler.suggestions # {})
                /\ runs' = Drained(g)

\* Task B, after a chunk of shell output.
PollDynamic ==
  /\ TryMergeDynamic
  /\ UNCHANGED <<buffer, loop, debounceWake, mergeWake, reloaded>>

DynamicMergeLoop ==
  /\ mergeWake
  /\ mergeWake' = FALSE
  /\ TryMergeDynamic
  /\ UNCHANGED <<buffer, loop, debounceWake, reloaded>>

-----------------------------------------------------------------------------
(* The debounce loop.                                                      *)

\* A notification starts the timer or restarts it.
StartTimer ==
  /\ loop.at \in {"idle", "timing"} /\ debounceWake
  /\ debounceWake' = FALSE
  /\ loop' = [loop EXCEPT !.at = "timing"]
  /\ UNCHANGED <<buffer, handler, runs, mergeWake, reloaded>>

\* is_debounce_suppressed, or auto_trigger is off; or nothing to trigger.
FireNothing ==
  /\ loop.at = "timing"
  /\ \/ UNCHANGED <<handler, runs>>
     \/ SkipTrigger
  /\ loop' = Idling
  /\ UNCHANGED <<buffer, debounceWake, mergeWake, reloaded>>

\* prepare_trigger_with_block past its guards, painting at once.
FirePainted ==
  /\ loop.at = "timing"
  /\ RunTrigger
  /\ loop' = Idling
  /\ UNCHANGED <<buffer, debounceWake, mergeWake>>

\* The same with a high-priority generator pending: the receiver moves to the
\* loop, and the fingerprint waits for apply_block_result.
FireBlocked ==
  /\ loop.at = "timing" /\ Blocks
  /\ ~NothingToTrigger
  /\ handler.generation < MaxGeneration
  /\ \E static, pinned \in BOOLEAN, messages \in 1..MaxMessages :
       LET snapshot == Snapshot(buffer, pinned)
       IN  /\ handler' = [Triggered(handler, static, messages, snapshot)
                            EXCEPT !.rx = None]
           /\ runs' = StartRun(messages, snapshot)
           /\ loop' = [at |-> "blocked", rx |-> handler.generation + 1,
                       static |-> static, buffer |-> buffer, got |-> None]
  /\ UNCHANGED <<buffer, debounceWake, mergeWake, reloaded>>

\* The three arms of the select.
Receive ==
  /\ loop.at = "blocked"
  /\ LET queue == runs[loop.rx].queue
     IN  \/ /\ queue # <<>>
            /\ loop' = [loop EXCEPT !.at = "received", !.got = Head(queue)]
            /\ runs' = [runs EXCEPT ![loop.rx].queue = Tail(@)]
         \/ /\ queue = <<>> /\ ~SenderAlive(loop.rx)
            /\ loop' = [loop EXCEPT !.at = "received"]
            /\ UNCHANGED runs
  /\ UNCHANGED <<buffer, handler, debounceWake, mergeWake, reloaded>>

TimeOut ==
  /\ loop.at = "blocked"
  /\ loop' = [loop EXCEPT !.at = "timedout"]
  /\ UNCHANGED <<buffer, handler, runs, debounceWake, mergeWake, reloaded>>

Supersede ==
  /\ loop.at = "blocked" /\ debounceWake
  /\ debounceWake' = FALSE
  /\ loop' = [loop EXCEPT !.at = "cancelled"]
  /\ UNCHANGED <<buffer, handler, runs, mergeWake, reloaded>>

\* abort_dynamic_task_and_clear_ctx, once the loop has the lock.
AbandonBlock ==
  /\ loop.at = "cancelled"
  /\ handler' = DropStale(handler)
  /\ runs' = Aborted(runs, handler.task)
  /\ loop' = Idling
  /\ debounceWake' = TRUE
  /\ UNCHANGED <<buffer, mergeWake, reloaded>>

\* Mutation: a timeout drops the receiver.
ForgetReceiver ==
  /\ loop.at = "timedout"
  /\ handler' = [handler EXCEPT !.fingerprint = loop.buffer]
  /\ loop' = Idling
  /\ reloaded' = FALSE
  /\ UNCHANGED <<buffer, runs, debounceWake, mergeWake>>

\* apply_block_result with rx_on_timeout.
RestoreReceiver ==
  /\ loop.at = "timedout"
  /\ handler' = [handler EXCEPT !.rx = loop.rx, !.fingerprint = loop.buffer]
  /\ loop' = Idling
  /\ reloaded' = FALSE
  /\ UNCHANGED <<buffer, runs, debounceWake, mergeWake>>

\* apply_block_result with rx_after_recv: what else came is drained, and a
\* channel that is still open goes back to the handler.
ApplyBlockResult ==
  /\ loop.at = "received"
  /\ LET g        == loop.rx
         closed   == ~SenderAlive(g)
         messages == Messages(g) \cup ({loop.got} \ {None})
         received == [Collect(handler, messages, closed) EXCEPT
                        !.rx = IF closed THEN None ELSE g]
         static   == IF loop.static THEN {[run |-> g, kind |-> "static"]}
                                    ELSE {}
     IN  /\ IF "Loaded" \notin messages
            THEN handler' = [Conclude(received, closed, loop.static) EXCEPT
                               !.fingerprint = loop.buffer]
            ELSE IF CheckMergeStaleness(received)
            THEN handler' = DropStale(received)
            ELSE \E kept \in SUBSET (static \cup Async(g)) :
                   handler' = [Conclude(received, closed, TRUE) EXCEPT
                                 !.visible = TRUE, !.suggestions = kept,
                                 !.fingerprint = loop.buffer]
         /\ runs' = Drained(g)
  /\ loop' = Idling
  /\ reloaded' = (reloaded /\ handler'.fingerprint # loop.buffer)
  /\ UNCHANGED <<buffer, debounceWake, mergeWake>>

DebounceLoop ==
  \/ StartTimer \/ FireNothing \/ FirePainted \/ FireBlocked
  \/ Receive \/ TimeOut \/ Supersede
  \/ AbandonBlock \/ RestoreReceiver \/ ApplyBlockResult

Next ==
  \/ \E b \in Option(Buffers) : ReportBuffer(b)
  \/ NotifyDebounce \/ Trigger \/ AcceptDirectory \/ UpdateConfig
  \/ ScrollViewport \/ Dismiss \/ ClearExpiredFeedback
  \/ \E g \in Generations : RunStep(g)
  \/ PollDynamic \/ DynamicMergeLoop \/ DebounceLoop

Spec == Init /\ [][Next]_vars

\* Generators answer within their timeouts, and the proxy's tasks are
\* scheduled; nothing obliges the user or the shell to do anything.
Fairness ==
  /\ \A g \in Generations : WF_vars(RunStep(g))
  /\ WF_vars(DynamicMergeLoop)
  /\ WF_vars(DebounceLoop)

FairSpec == Spec /\ Fairness

\* A shell that keeps writing makes Task B poll.
ChattySpec == FairSpec /\ WF_vars(PollDynamic)

-----------------------------------------------------------------------------
(* Properties.                                                             *)

TypeOK ==
  /\ buffer \in Option(Buffers)
  /\ handler \in Handlers
  /\ runs \in [Generations -> Runs]
  /\ loop \in Loops
  /\ debounceWake \in BOOLEAN /\ mergeWake \in BOOLEAN
  /\ reloaded \in BOOLEAN

\* The run of a channel in the handler will still wake the merge loop.
WillNotify(g) ==
  \/ runs[g].stage = "running" /\ ~runs[g].aborted
  \/ runs[g].stage = "closed"
  \/ runs[g].stage = "done" /\ mergeWake

\* No lost wakeup: while the loading indicator is on, either the debounce loop
\* holds the channel or its run will wake the merge loop after closing it
\* (the order of drop(tx) and notify_one in spawn_generators).
LoadingIsAnswered ==
  handler.feedback = "Loading" =>
    \/ loop.rx # None
    \/ handler.rx # None /\ WillNotify(handler.rx)

\* The popup never mixes generations: what it shows was computed for the latest
\* trigger or for a directory accepted since (check_merge_staleness, and the
\* resets of trigger), and of those two only one.  The results of that trigger's
\* run may join a directory's suggestions; MergesMatchBuffer says which.
ShowsCurrentRun ==
  /\ \A item \in handler.suggestions : item.run = handler.generation
  /\ \E kind \in {"static", "chained"} :
       \A item \in handler.suggestions : item.kind \in {kind, "async"}

\* A merge only adds results whose run was spawned at the completion site, and
\* if its generators read the word for the word, of the buffer it merges into.
MergesMatchBuffer ==
  [][\A item \in handler'.suggestions \ handler.suggestions :
       item.kind = "async" => ~StaleAgainst(runs[item.run].ctx, buffer)]_vars

\* A trigger that is skipped would repeat the latest one: the fingerprint of a
\* visible popup is the buffer that trigger read.  The exception is a fingerprint
\* whose popup a reload hid: a later run without static suggestions shows its
\* results under it.
SkipRepeatsTrigger ==
  handler.visible /\ handler.fingerprint # None /\ ~reloaded =>
    runs[handler.generation].buffer = handler.fingerprint

\* Without bounded waits the handler has at most one channel, that of the latest
\* generation, with its task and its snapshot.  This is what makes the other
\* properties inductive.
ChannelOfGeneration ==
  /\ loop.rx = None /\ loop.at \in {"idle", "timing"}
  /\ handler.rx = handler.task
  /\ handler.rx # None =>
       /\ handler.rx = handler.generation
       /\ handler.spawned = handler.generation
       /\ handler.ctx # None
       /\ handler.ctx = runs[handler.rx].ctx
  /\ handler.visible => handler.generation \in Generations

\* The loading indicator goes out though the user and the shell stay idle.
LoadingEnds == handler.feedback = "Loading" ~> handler.feedback # "Loading"

=============================================================================
