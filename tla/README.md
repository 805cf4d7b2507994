# Verification of Ghost Complete

Ghost Complete is a terminal autocomplete engine. It runs the user's shell
behind a PTY, follows the shell's output with a VT parser to know the command
line and the cursor, computes suggestions (specs, file system, history,
scripts, providers) and paints a popup over the terminal. This directory holds
TLA+ models of its concurrent and persistent core, the TLC runs that check
them and the proofs that TLAPS checks. Source paths below are relative to
`src/crates/` unless they begin with `shell/`.

## 1. The system's parts

| Part | State it keeps | Operations and who calls them | What is hard |
|---|---|---|---|
| Popup ownership (`gc-pty/src/handler.rs`, `proxy.rs`) | `InputHandler` behind one mutex: visible, suggestions, committed layouts, pending render and cleanup with tokens, output epoch | eight tasks stage bytes under the lock and write them in a second critical section | stale bytes, acknowledgement of the wrong bytes, popups nobody will clear |
| Generator scheduling (`handler.rs`, `proxy.rs`) | the receiver, the task handle, the spawn-time context, two generation counters, feedback | `trigger`, `prepare_trigger_with_block`, `spawn_generators`, `debounce_loop`, `dynamic_merge_loop` | results of an earlier command, lost wake-ups, a receiver outside the lock |
| CPR queue (`gc-parser/src/state.rs`) | FIFO of requests sent to the terminal, each with an owner and a token | Task B enqueues and writes `CSI 6n`, Task A claims on a response; rollback and pruning | a response matched with the wrong request |
| Trigger scheduling (`proxy.rs`, `handler.rs`) | trigger request, deferred trigger and its stash, suppression, chaining, the debounce notification | Task A requests, Task B defers until the redraw has come, the debounce loop fires | a request that is lost, or fires before the redraw of its line |
| VT parser (`gc-parser`) | prompt phase, reported buffer, cursor, env snapshot, dirty flags | Task B feeds bytes, everybody reads | marks out of order |
| Spec store (`gc-suggest/src/specs.rs`) | entries under aliases, one slot per entry, access times | load, lookup on demand, a sweep in two phases | a read between the sweep's look and its eviction, aliases of replaced entries |
| Generator cache (`gc-suggest/src/cache.rs`) | entries with a TTL, producers in flight | single flight `get_or_try_insert_with`, sweep | two producers, a cancelled producer, a waiter nobody wakes |
| Script generators (`gc-suggest/src/engine.rs`) | permits, the result cache, counts of failures | one task per generator of a run | a result reused where it does not belong, tasks that wait for each other |
| JS worker (`gc-jsrt/src/worker.rs`) | a thread, its queue, a timeout latch | evaluate with a deadline from submission | a deadline that covers queueing, a dead worker |
| Frecency (`gc-suggest/src/frecency.rs`) | records, dirty count, a JSON file | record, flush, merge, rename; several shells share the file | lost updates, failed saves, a file of a later release |
| Installation and spec mirror (`ghost-complete/src/install.rs`, `main.rs`, `gc-suggest/src/mirror.rs`) | scripts, managed blocks of `.zshrc`, spec files and their stamp | install, uninstall, the refresh of every starting proxy | being cut short, overlapping refreshes, edits of the user |
| Proxy processes (`shell/init.zsh`, `main.rs`, `gc-pty/src/spawn.rs`, `proxy.rs`) | inherited variables, process ancestry, the child | exec, spawn, fallback, hangup, reap | a proxy on a proxy, a tab without a shell, loops of fallbacks |
| Alias, history sources | cached files | refresh on demand | staleness |
| Configuration (`gc-config`, `config_watch.rs`) | the parsed file | watch, reload under the handler lock | reload while a popup is on screen |
| Tokenizer, input decoder, ranking, rendering, transforms | none | pure functions | text edge cases |
| doctor, status, validate (`ghost-complete`) | none | reports | none |

The tasks of a proxy: **Task A** reads the terminal and handles keys; **Task B**
reads the PTY, feeds the parser and writes shell output; **C**, the signal loop
(resize, termination); **D**, the debounce loop; **E**, the merge loop for
generator results; the detail-box redraw loop; the feedback tick loop; and the
configuration watcher. They share the parser mutex, the handler mutex and
stdout, and wake each other with `Notify`. Several proxies share the frecency
file and the mirror.

## 2. Modules

| Module | Models | Checked | Proved |
|---|---|---|---|
| `OverlayOwnership` | who owns the popup's cells on the terminal | `overlay_all_tasks` | 5 theorems in `OverlayOwnershipProofs` |
| `DynamicGenerators` | which generator results reach the popup, and that they do | `dyn_poll`, `dyn_block` | 6 theorems in `DynamicGeneratorsProofs` |
| `CprQueue` | who gets which cursor position report | `cpr_queue` | 4 theorems in `TaskBProofs` |
| `TriggerScheduling` | when a reported line is suggested for | `trigger` | 2 theorems in `TaskBProofs` |
| `GeneratorRuns` | scripts, JavaScript and cache of a run's generators | `gen_runs` | 3 theorems in `GeneratorRunsProofs` |
| `GeneratorCache`, `SingleFlight` | sharing the work of a producer, and the promise it keeps | `generator_cache` | 3 theorems in `GeneratorCacheProofs` |
| `SpecStore` | registration, lookup and eviction of specs | `spec_store` | 5 theorems in `StoresProofs` |
| `Frecency` | several shells and one file | `frecency` | 4 theorems in `StoresProofs` |
| `Installation` | what is kept in the user's home | `installation`, `mirror_retry` | 6 theorems in `InstallationProofs` |
| `ProxyProcess` | the processes of a terminal | `proxy_process` | 4 theorems in `ProxyProcessProofs` |

The `MC*` modules give the constants their values for TLC. The models meet at
the handler's lock: `TriggerScheduling` decides that a trigger happens,
`DynamicGenerators` what comes of it, `OverlayOwnership` what becomes of its
bytes; each leaves to the others what it does not name and takes every answer
they may give as a choice. `GeneratorRuns` is the task that `DynamicGenerators`
abstracts to messages; `Installation` refreshes the init.zsh that
`ProxyProcess` runs. Every run but `mirror_retry` passes.

Two modules of proofs are each about two components, which share no state but
their place in the program: `TaskBProofs` about the two things Task B keeps
account of, `StoresProofs` about the two stores of `gc-suggest`. The names of
their initial states and specifications are therefore longer
(`TriggerSpec`, `StoreSpec`).

Left of the plan: the private-OSC filter and the key decoder as stream
transducers that must not depend on where a read is cut; `OverlayOwnership` as
a refinement of a terminal on which every cell has one owner.

## 3. OverlayOwnership

**State.** `handler` is the part of `InputHandler` that decides what is on the
screen: `visible`, whether there are suggestions, the feedback (a `Terminal`
one is Empty or Error, a `Partial` one is PartialError), whether a receiver is
held (`rx`), the two configuration switches, the committed layouts
(`last_layout`, `last_detail_layout`), the epoch, and the two pending commits
with their token counters. `inflight[t]` holds the bytes task `t` has staged
and not yet written, with their ticket; `shell` is the cleanup Task B carries
between its lock and its write. `screen` is the set of cells that show overlay
bytes now. A popup is abstracted to the cells it covers: for each footprint of
`Shapes` a body, a feedback row and a detail box. `orphaned` is a history
variable (no action reads it): it records that one of four losses of
ownership has happened, so that a property can say "but for these".

**Actions.** Each task's operation is one `Stage` step under the lock and one
`WriteOverlay` or `DropStaleWrite` step (`write_overlay_if_current`). Task B's
teardown commits itself under the lock (`ReadShellOutput`) and writes later
without a gate (`WriteShellOutput`). What the operations decide from data (the
suggestions found, the results that arrived, the room on the screen) is a
choice over all outcomes the code distinguishes.

A render clears the popup it replaces but for one that makes room by scrolling
and feedback that is repainted after such a scroll (`can_clear_old`,
`handler.rs:2428-2446`): the old popup has moved with its line, and `Uncleared`
says what of it may stay where the new one does not cover it.

**Abstracted.** Whether a render scrolls is a choice: the scroll deficit is a
number of rows. `u64` counters do not wrap. A popup's body is one cell, so the
line a late expiry takes from a popup that was painted without its feedback row is
not seen.

**Runs.**

| Run | Question | Result |
|---|---|---|
| `overlay_all_tasks` | eight tasks, two footprints, a screen that may be too small, epoch up to 3 | all four properties hold |

The epoch bound limits the number of renders, teardowns and ticks in a
behaviour; every interaction the properties speak of needs at most three
(render, a second operation that makes it stale, a third that reads what is
left). Two footprints suffice because a property compares what is owned now
with what was painted before; they are interchangeable, hence the symmetry.
Deadlock is not checked: at the bound nothing may be staged any more.
All properties are safety properties; no fairness is assumed.

**The four losses.** The properties are stated but for four cases in which the
code gives ownership up (`orphaned`). 1. `teardown_popup` without a committed
layout leaves the epoch alone: a popup dismissed before its first write is painted
after the dismissal and nobody owns it. 2. A spinner tick
(`render_indicator_only`) has no commit of its own, but its ticket carries
whatever render is pending; once stale it gives up a popup the user navigates. 3.
A partial error's expiry gives up its row under the lock, and the bytes that clear
it turn out stale. 4. A render that scrolls, or that repaints feedback after a
scroll, leaves cells of the old popup that it does not cover. `GhostFree` holds
but for all four; the two action properties but for the second one alone, whose
ticket holds what another task has staged. A feedback-only box is a fifth case,
outside these properties: it is on screen with `visible` false and a committed
layout, and a trigger that finds nothing resets the feedback and clears nothing;
the next output of the shell does.

**Proved** (`OverlayOwnershipProofs`, for any task set, footprints and bound;
assumptions: `TasksAssumption`, `NoneAssumption`, `BoundAssumption`). `GhostFree`
is not inductive: that a cell is owned after a write depends on which pending
commit the bytes in flight may acknowledge. `Ledger` adds what ties them together:
tokens are handed out in order and the two pending commits exclude each other
(`TokensInOrder`); staging makes all earlier bytes stale, so at most one buffer is
current (`OneCurrent`); unless a token was borrowed, a current buffer that holds
the pending render paints exactly its layout, and with a stale one nothing is
owned that its loss could give up (`OwnsToken`); and unless anything was lost, the
first also clears all that is owned, one that holds a cleanup clears what the
cleanup releases, and any other repaints owned cells (`Accounted`). The proof
first shows, operation by operation, that each of them stages a render, stages a
cleanup, emits nothing or repaints (`Accountable`); then that each of these four
keeps the ledger (`StageKeepsLedger`), and the writes do too. The two action
properties follow from the ledger.

## 4. DynamicGenerators

**State.** `handler` is the part of `InputHandler` that decides which results
reach the popup: visible, the suggestions (each known by the generation it was
computed in and whether it came with its trigger, for a directory accepted since,
or later), the fingerprint of the last trigger, the feedback and its two tallies,
`buffer_generation` and `spawned_generation`, and the spawn-time context, receiver
and task handle as options. A generation names a trigger, its task and its
channel. `runs[g]` is the task: working, past `drop(tx)`, or past `notify_one`,
with the messages it still has to send and those in its channel. `loop` is
`debounce_loop` between two awaits with what `NeedsBlock` gave it. The two wake
flags are the permits of the two `Notify`s, which hold one permit each. `reloaded`
is a history variable: a reload has hidden the popup for which the handler's
fingerprint was taken.

**Actions.** `RunTrigger` is `trigger` after its guards, `SkipTrigger` its early
returns. `FirePainted` and `FireBlocked` are the two outcomes of
`prepare_trigger_with_block`. The select of the bounded wait has one action per
arm (`Receive`, `TimeOut`, `Supersede`), each followed by its own critical
section (`ApplyBlockResult`, `RestoreReceiver`, `AbandonBlock`), so that other
tasks may run in between. `PollDynamic` is Task B's poll, `DynamicMergeLoop`
Task E; both call `TryMergeDynamic`. The `ReportBuffer` action changes the
command line and nothing else: a popup may be older than the buffer.
`AcceptDirectory` is what `accept_with_chaining` does with a directory, which is no
trigger: the parser is given the line it predicts and the popup its suggestions,
while the run, its channel, the snapshot and the fingerprint stay what they were,
so that results of that run may still join the new suggestions. `UpdateConfig` is
a reload that turns `auto_trigger` off: all of a teardown but the fingerprint.
`ScrollViewport` forgets the fingerprint after a scroll of the shell's.

**Abstracted.** What the engine answers is a choice: static suggestions or none,
how many messages the generators will send, whether their inputs include the
word under the cursor, and which of the merged suggestions match the live word.
The AWS fallback is one more late message. A buffer is a completion site and a
word; `None` is the empty one. Poisoned locks and write failures end the tasks
and are left out. `u64` generations do not wrap.

**Runs.** `Blocks` says whether `render_block_ms > 0`; `Direct` whether other
tasks trigger beside the debounce loop (the trigger key, an immediate trigger, a
new directory or environment).

| Run | Blocks, Direct | Question | Result |
|---|---|---|---|
| `dyn_poll` | no, yes | only fresh results of the latest run; does the indicator go out, all idle? | holds, yes |
| `dyn_block` | yes, no | does the indicator go out if the shell keeps writing? | yes |

Two generations are enough because every check compares a run with the one that
replaced it; two words tell a moved word from an unchanged one, and the empty
buffer tells another site. One message and the closing of the channel separate
"something came" from "all came". The channel is never full (`Capacity` = 2): the
shipped specs have at most five generators per argument, the code eight slots.
Deadlock is not checked: a proxy nobody types into may stop.

**Fairness.** Weak fairness of each run (generators have timeouts), of the merge
loop and of the debounce loop (tokio schedules a task whose `Notify` holds a
permit or whose timer has expired). Nothing is assumed of the user. Only
`ChattySpec` assumes that Task B polls again and again, which needs a shell that
writes.

**What does not hold with bounded waits.** 1. With direct triggers beside them,
`apply_block_result` asks `check_merge_staleness`, which compares fields that a
direct trigger has replaced during the wait: the older run's results may be
merged into another buffer. 2. The notification of a run that ends during a
bounded wait is spent by a merge loop that finds no receiver; if the wait then
times out, nobody merges until the shell writes again. 3. The fingerprint is only
written when the wait ends, so a popup that waits, or whose wait was superseded,
still carries that of the trigger before; if the buffer goes back to it, the next
trigger is skipped as done (`SkipRepeatsTrigger`). Hence the runs' settings:
`dyn_poll` without bounded waits, `dyn_block` without direct triggers and with a
shell that writes.

**What a fingerprint may say.** The comment on the guard of `trigger`
(`handler.rs:1519-1521`) says it skips if nothing changed "since the last trigger
that populated a still-visible popup". Two paths leave it saying something else.
A reload hides the popup and keeps its fingerprint (`handler.rs:847-883`); a later
trigger without static suggestions leaves it alone, and the merge of its results
shows a popup under it. If the line goes back to the one of the fingerprint, a
trigger may be skipped with another line's results on the screen. `SkipRepeatsTrigger`
excepts this case (`reloaded`), and no other. And suggestions for an accepted
directory stand under the fingerprint of the line before it: what
`SkipRepeatsTrigger` says is which line the latest trigger read, and of the
popup's contents `ShowsCurrentRun` says that they were computed for that trigger
or for a directory accepted since, never a mixture of the two but for the
trigger's late results, which `MergesMatchBuffer` lets in only where their
generators' site is that of the predicted line.

**Proved** (`DynamicGeneratorsProofs`; assumptions `BoundsAssumption`,
`NoneAssumption`). `TypeOK` for every value of the constants.

`ShowsCurrentRun` and `MergesMatchBuffer` assume `Blocks => ~Direct`: no wait is
bounded, or nothing triggers beside the debounce loop, which by 1. above is where
they hold. `OneRun` is their invariant: the channel and the snapshot in the handler,
its suggestions and the receiver the loop has taken are all of the handler's
generation (`Current`, `Awaited`). Every operation but a trigger keeps that
(`Keeps`: it may let go of the channel and the snapshot, and adds nothing of
another generation), and a trigger begins when the loop holds nothing, or is the
loop's. So a snapshot that `check_merge_staleness` lets pass is that of the run
whose results are merged (`FreshFits`), whether a poll brings them or the end of a
wait. TLC checked both properties on the constants of `dyn_poll` with `Blocks` and
without `Direct` (2.1 million states up to symmetry) before they were proved.

The other three, `LoadingIsAnswered`, `SkipRepeatsTrigger` and
`ChannelOfGeneration`, assume `Blocks = FALSE`. `Inductive` joins `TypeOK`, that
the loop holds no receiver (`Waiting`), and `Sound`: the handler's channel is that
of the latest generation with the matching task and snapshot (`OneChannel`), the
popup and its fingerprint belong to that generation (`Popup`), and a loading
indicator has a run that will notify (`Answered`). Liveness is only model-checked.

## 5. CprQueue

**State.** `queue` and `nextId` are `cpr_queue` and `next_cpr_id`; `cursor` and
`synced` the parser's cursor and `cpr_synced`. `taskB` is Task B between two
critical sections with the queries it has read or made and not yet written.
`shown` is the real terminal's cursor, `reports` its answers. `taskA` is a
report Task A has claimed and not yet used. `lost` is a history variable.

**Actions.** Task B's iteration is five steps, as in the code: parse and queue
the shell's queries (`ReadShell`), queue the proxy's own (`EnqueueOurs`), write
(`WriteOutput`, `FailWrite`), roll back or prune (`RollBack`, `FinishChunk`).
Task A's are two: claim (`DispatchCprResponse`) and sync
(`SetCursorFromReport`).

**Abstracted.** A cursor is a number of moves modulo `Places`; a chunk of output
says how far it moves the terminal's cursor, how far the parser thinks it does,
after which moves it asks, and whether a prompt mark is in it. What the terminal
answers is settled when the query is written, since the output before the query
decides it; the delay shows as the time the report stays in `reports`. A
terminal that does not answer is seen not to when that answer's turn comes. An
answer that arrives at all arrives within the 30 s of `CPR_STALE_THRESHOLD`
(the guard of `Tick`). A report outside the screen is dropped; that the proxy
then asks for the window's size again is left out. Bytes, escape sequences cut
in two by a read, and a modified F3 key that looks like a report are not
modelled.

**Runs.**

| Run | Question | Result |
|---|---|---|
| `cpr_queue` | all chunks, one loss, ids that wrap at 4, three pending entries | all four properties hold |

Three pending entries are one more than the code's comment expects in practice
(`gc-parser/src/state.rs`, `rollback_cpr`): enough for a chunk with a query and
a prompt while an older entry waits. Two ticks tell a fresh entry from one about
to go stale and from a stale one. Ids wrap beyond the queue's bound, as 2^64
is. Deadlock is not checked: Task B ends after a failed write.

All properties are safety properties; no fairness is assumed.

**What a lost query does.** A response claims the oldest entry, whoever asked.
After a lost query the entry left over is always that of the youngest query: if
queries keep coming within the threshold it never gets old, and every later
answer goes to the reader of the query before. The properties are therefore
stated for what holds nevertheless (`EveryReportIsClaimed`, `QueueMatches`) or
while nothing is lost. The sync also trusts a report that is older than what has
been parsed since: the cursor is then off until the next prompt.

**Proved** (`TaskBProofs`; assumptions `BoundsAssumption`,
`ChunksAssumption`). All four properties of `cpr_queue`, for any chunks, ids,
bound and threshold, with and without losses. `QueueMatches` is inductive
together with `TypeOK` and `Room` (between the parser and the proxy's own query
there is room for one more entry). The argument is about sequences: `EndsWith`
says that the last entries of a queue are those of the queries outstanding, none
stale. It survives appending queries and their entries together
(`GrowsTogether`), taking the head of both or of the queries alone
(`ShrinksTogether`) and removing stale entries, since all of them stand in front
(`PruneSpares`, which counts them with `PruneLeavesSuffix`). That the entry
claimed is the report's own, and that no report finds the queue empty, follow.

## 6. TriggerScheduling

**State.** `shell` is the line editor: the keys it has not read, its line and its
output that Task B has not read. `parser` holds the command buffer and the flags
`buffer_dirty`, `buffer_pending_display` and `cwd_dirty` of `TerminalState`,
`handler` the flags of `InputHandler` that decide on triggers, `pass` the place
of Task B in one pass of its loop with its stash (`PendingTrigger`), `debounce`
the loop and the permit of its `Notify`. A command line is a number, 0 for none.

**Actions.** A key is handled and forwarded in one step (`PressKey`): a printable
key, one that triggers, the trigger key, one that moves in the popup and renders
it again, one that dismisses it, one that accepts a suggestion, Enter, and any
other, which is forwarded and takes a popup down with it. Accepting a directory
(`AcceptDirectory`) gives the parser a line the shell has not seen and paints a
popup for it where the cursor still is. The shell answers a key with a report and,
behind it, a redraw; one that only moves in the line may leave out the report, or
both (`ShellReads`). Task B takes a piece of output of any length, so a report and
its redraw may be cut apart, and goes through its critical sections one at a time:
`HandleTerminalOutput`, `TakeDirty`, `Decide` (`buffer_dirty_action` and the
deferral), `Resolve` (`PendingTrigger::resolve`), `Chain` (a new directory). The
debounce loop waits, restarts its timer, fires, and may be in its bounded block
when the next notification comes.

**Abstracted.** What a trigger finds is a choice: suggestions, only generators,
nothing. `history` says whether the last report is still owed an answer,
whether the popup was placed at a cursor that is not yet its line's, and whether
the parser's line is a prediction that no report has come to confirm. The cursor
is early (`Early`) while the redraw of a report is awaited or a prediction stands.

**Run** `trigger`: every kind of key the handler tells apart, three of them, one
reload, with a debounce loop. Three keys are a first line, one that overtakes it
and one that interferes. `MisplacedGoes` is safety: while a popup stands at a
cursor that is not its line's, a redraw is on the way that takes it down;
`ReportsAreAnswered` is liveness, under weak fairness of the shell (it reads its
input), of Task B (a blocking thread with input) and of the debounce loop (a tokio
task whose timer or permit is there). A key that never comes is not assumed.
Deadlock is not checked: a user who types no more leaves everything idle.

A disagreement the model made visible and no property states: the comment at
`handler.rs:1466-1469` says a recalled history line is not suggested for, but
the redraw that shows it tears the popup down and with it resets
`debounce_suppressed` (`handler.rs:2855`), so it may be.

**Proved** (`TaskBProofs`; assumptions `KeysAssumption`, `LimitsAssumption`).
`MisplacedGoes`, for any keys, any number of them and of reloads, with and without
a debounce delay, and wherever the output is cut. It is not inductive: that the
popup goes depends on a redraw that may still be in the pipe. `Misplacement` adds
what the output must look like for it to arrive: behind every report there is its
redraw (`RedrawFollows`); a parser that waits for one has it next
(`RedrawIsNext`); and a popup left at a cursor that is outdated is seen by a pass
that has just read that redraw, before it does anything else (`OutdatedGoes`). A
predicted line stands only as long as a key or a report that ends the prediction
is on its way (`PredictionEnds`, `LineToCome`). The work is in what a piece of
output makes of the parser: `Fed` is unfolded item by item (`FedIs`), and a parser
that still waits after a piece is one whose last item is a report (`FedWaits`).

## 7. GeneratorRuns

**State.** One `task` per generator of each run, the result `cache`, the one
JavaScript `worker` with its queue and timeout latch, the jobs that are `late`,
and the `failures` that demote a token_only generator. What a script prints or a
body computes is the record of what it was made from (generator, argv,
directory, line): two results are equal if and only if nothing they depend on
differs.

**Actions.** `Start` spawns the tasks, `Abort` drops the run and leaves its tasks
running, as `JoinHandle::abort` of the outer task does. A task dispatches by
kind, acquires a permit, looks into the cache, runs the script, processes its
output, submits to the worker, and records the reply; each is a step. The
worker takes a job, may be interrupted when a deadline has passed, ends it, or
dies with what is in its queue.

**Abstracted.** The environment snapshot is part of the key and is folded out;
the kill switch is off; every generator is cached, with a time to live that may
end at any time (`Expire`); failure counts stop at the threshold. A script or a
body that hangs is ended by its timeout.

**Run** `gen_runs`: a first run of two JavaScript generators, then one of a
generator of any kind in the same or another directory and with the same or
another line; one permit, threshold one. `JsAnswersOwn` (keys of the cache),
`TimeoutIsLate` (the latch) and `RunsReturn` (liveness; weak fairness of every
task's next step, of returning runs, and of the worker's, which have timeouts).
The first run has two tasks so that one waits for the other's permit; the second
is the smallest that can reuse what the first has left. A run happens once, so
the system stops: deadlock is not checked.

Known and not a property: a generator without JavaScript keeps its suggestions
under `CacheKey::stdout` (`engine.rs:974`), which names argv and directory but
not the transforms, although `cache.rs:27` calls that slot raw output. Two plain
generators with one script and different transforms (as in the shipped
`specs/aws.json` for `aws lambda list-functions`) answer with each other's
suggestions within the time to live. `JsAnswersOwn` is therefore about the
JavaScript kinds, whose key names the body.

**Proved** (`GeneratorRunsProofs`; assumptions `GeneratorsAssumption`,
`CallsAssumption`: each generator has a kind, a run has a working directory).
`JsAnswersOwn` and `TimeoutIsLate`, for any generators, runs, calls, permits and
threshold. Neither is inductive: an answer taken from the cache was made by another
task, perhaps of a run dropped since, and a time-out is that of the job the latch
was armed for. `Owned` adds what an entry says of itself (`Sound`: it was made of
what its key names), that a script's output in a task's hands is of the run's own
directory where the key has one (`HoldsDir`), and that the worker's jobs are tasks
that wait for it, each once, the interrupted one late (`JobsWait`). `OneTaskMoves`
says once what a step of one task owes; the lemmas of the actions rest on it. The
proof corrected the property: a token_only generator's key has no directory even
with `cache_by_directory`, hence `InDirectory`.

## 8. GeneratorCache and SingleFlight

`SingleFlight` is what a store promises that lets callers share a producer: a
call is answered with what the store held or with the outcome of its own
production, a failure is never stored, no two productions of a key are in flight
at a time, and a production that has begun ends. `GeneratorCache` is
`get_or_try_insert_with` as the AWS provider uses it: the entries and the
pending map have a lock each, so between any two critical sections of a call
(`Get`, `Probe`, `Produce`, `Insert`, `DropGuard`) others may come. A caller may
be cancelled at either await, or its producer panic (`Cancel`): the guard is
dropped all the same. `younger` is the order of last accesses, which the sweep
of an oversized map goes by.

**Run** `generator_cache`: three callers, two keys, threshold one: a leader, one
who waits and one who comes between. It checks that the size is bounded after
any interleaving, that waiters wake, and `ImplementsSingleFlight`: the
refinement, fairness included, under the mapping that shows an expired entry as
absent, a caller that looks, probes or waits as one that asks, and one that
holds the guard as one that leads. Fairness is that of each caller's own steps:
the executor polls a future that is ready. A second caller who waits starts over
from the lookup, so nobody is answered by another's failure.

**Proved** (`GeneratorCacheProofs`), for any callers, keys and values, from
`ThresholdAssumption` (a positive threshold, finitely many keys) and
`OutcomesAssumption` (the markers are no values): `GuardsAreHeld`, `Bounded`
(`SweepBounds`) and `ImplementsSafely`, that the cache implements
`Abstract!Safety`, the promise without its fairness. The inductive invariant is
`Guarded`: besides the types, `GuardsMatch` (the pending map names a caller for a
key exactly while that caller leads for it, without which a dropped guard could
take another leader's key out) and `OutcomesMatch` (what a call carries at each
place, without which an insert could store a failure). `SweptSpares` says of the
sweep that it keeps the entry just inserted and otherwise only forgets;
`ReleasedCallsChange` that a woken caller still asks. One lemma per action then
gives the abstract action it is. For `Bounded` the invariant `Aged` adds that
`younger` orders the keys present by their last use: the sweep evicts as many of
the oldest as there are too many, so those it leaves are no more than the
threshold. `WaitersWake` and the fairness half of the refinement are checked with
TLC only.

## 9. SpecStore

**State.** `entries`, `byAlias` and `arcs` are the store: every `Arc` ever made
keeps its identity, since an entry that is to be found under its declared name
is replaced by a new one. `slot` and `accessed` are `ParsedSlot` and
`last_accessed` of each; `reader` a lookup between two locks; `sweep` the sweep
between two entries.

**Actions.** `StoreInit` runs the registration (two passes per directory, user
directories before the embedded files) file by file, for every choice of files
whose header does not parse. `Lookup`, `ReadSlot`, `WriteSlot` are `get_result`
with its fast and slow path and its fall-back to the next candidate. The sweep's
first phase looks at an entry, then locks it and looks again; the second measures,
takes a snapshot, evicts the oldest until under the cap, and leaves alone who has
been read since. A file may be edited so that it parses no more.

**Abstracted.** A spec has size one; the content, the conflict report and the
sweep's report are left out; reads have distinct times; there is one sweep at a
time, as its task awaits it.

**Run** `spec_store`: three installations (nothing in common; a file overridden
that declares a name; two files that declare each other's stem), two symmetric
readers, cap one, time to live two, clock up to five, one edit. Two readers
suffice: one that uses an entry and one that makes another resident; the clock
leaves room for an entry to grow idle, be read and grow idle again.
`AliasesInOrder`, `FirstThatParses`, `CapIsReached` and the action property
`RecentSurvives` (no eviction of what was read since it was looked at). No
fairness. Deadlock is not checked: the clock ends.

**Proved** (`StoresProofs`; assumptions `StoreAssumption`, `NoneAssumption`,
`DirsAssumption`: a file says which directory it is in). All four properties, for
any installation, choice of unreadable headers, readers, limits and edits.

*The load.* `AliasesInOrder` never changes once the store is made, so the proof is
about the recursive functions that make it. `Loading(st, d, b, n)` is what holds
in the middle of directory `d`, when `n` of its entries, which are those behind
the first `b`, have been found under the name they declare: aliases lead to
entries in the promised order (`Ordered`); every entry is found under its own stem
(`Found`); and an entry whose turn in pass 2 has not come is under nothing but its
stem (`Named`). The last part is what makes appending right: under a name there
are earlier directories, then the file with that stem, then those of pass 2 in
their order. `StemKeeps` and `NameKeeps` are one step of each pass, from what a
new entry, a push and the replacement of an Arc each do to the order
(`OneMoreEntry`, `PushedInOrder`, `ReplacedInOrder`); `Recursion` gives a recursive
function one step at a time, `Inductively` goes along it, and
`DirectoryKeeps` and `StoreLoads` go through the directories.

*In use.* `InUse` is inductive. A lookup under way has a candidate before it and
failures behind it, and nothing turns a failure back (`LooksUp`): so it ends at the
first that is none. What the sweep has looked at it has looked at by now
(`Looked`), which gives `RecentSurvives`. For the cap, `Counted` relates the sum
the sweep makes, one entry at a time while others are loaded and read, to the
entries not read since it began to measure: there are no more of those than it has
counted, and in the second phase every one is warm or on the list of victims with
the time of its last read.

## 10. Frecency

**State.** `disk` is the file (absent, ours, of a later schema, corrupt) with its
entries, `legacy` the file at the old path, `db[s]` the database of each shell
with a save in progress. `touched`, `promised` and `raced` are history: what a
shell has recorded, the worth each key had when saved, and whether the file was
renamed over by a save that had not read its latest content.

**Abstracted.** An entry is its worth at one fixed moment: decay scales all
worths alike and changes neither which is larger nor which are best. The
temporary file is invisible until its rename.

**Actions.** `Load` with its migration; `Record`, which starts a save every
`SaveEvery` records; `Flush` at the end; a save is `PeekDiskVersion`,
`WriteTemporary` (reads, merges, prunes), `Rename`, and may fail at any of them
(`FailSave`, which gives the records back to the dirty count); `Kill`;
`Upgrade`, a later release that rewrites the file.

**Run** `frecency`: two shells, interchangeable, two keys, a save every two
records, one entry kept, worth up to two. One kept entry of two keys makes
pruning matter at once. `SavedStays` holds but in the window between a save's
read and its rename, which the code accepts (`raced`); `CleanIsSaved` says that
a clean count means saved; `NewerIsSpared` that the file of a later release is
overwritten only within that window. No fairness: a shell need not save again.

**Proved** (`StoresProofs`; assumption `BoundsAssumption`, finitely many keys).
All three properties, for any shells, keys, `SaveEvery` and `MaxEntries`. `Saving`
is inductive: a save in progress is of the memory its shell still has, merged over
the file it has seen and pruned, with a count to give back should it fail
(`SavesWell`); a clean shell has been promised all it has touched (`HasSaved`); and
while the file is absent or corrupt nothing has been promised. The step that
carries the argument is the rename: merging loses no worth (`MergeIsLarger`), and
pruning leaves `MaxEntries` entries at least as good for each one it drops
(`HoldsPruned`), which is counted over finite sets.

## 11. Installation

**State.** The release installed, the shell `scripts` and the release each is of,
`.zshrc` as a sequence of lines (`rc`), the `mirror` of the specs with its
`stamp`, the processes with the steps still to do, and the changes the user has
left. A hash stands for the content it was made of.

**Actions.** `Plan` lists what `install`, `uninstall` and a starting proxy do and
in which order; each item is one step or, where the code looks first and writes
later, several. Scripts and `.zshrc` are written atomically; specs and the stamp
by `fs::write`, which truncates first (`TruncateSpec`, `TruncateStamp`). A stamp
that is written up to some byte is unreadable, or `parse_stamp` takes it for a
whole one with the hashes of the lines that are complete (`CutShort`); one cut in
its version is the stamp of no release, and refreshed like an unreadable one. `Stop`
is a kill or a failure between any two steps. The user adds lines to `.zshrc`
and edits or deletes specs; `Upgrade` replaces the program.

**Abstracted.** `config.toml`, the backup, the purge of caches, file modes, the
stamp of old releases, the dry run, root, symlinked scripts. The user leaves the
markers of the blocks alone and writes nothing between them. What `UserLinesStay`
compares is which of the user's lines there are and, of each two, which comes
first.

**Runs.** `installation`: a spec that changes with each release and one that does
not, one script, two releases, one starting proxy beside one command, one change
by the user, one line of `.zshrc` (that lines keep their order is only for the
theorem). Each property compares two writers, or a writer and the user, so one of
each suffices. `RcFindsScripts`, `UserLinesStay` and `EditsSurvive` hold;
`EditsSurvive` lets go of the edits whose hashes a refresh did not find in a stamp
that was cut short, which leaves no baseline (`history.kept`), and
`StampTellsEditsUndisturbed` holds while no refresh was cut short or overlapped
another (`history.disturbed`). No fairness; deadlock is not checked, as the bounds
end.

`mirror_retry` drops that last condition, with the user away, and is violated
within a few steps: a refresh that is killed after rewriting a spec leaves the
old stamp; the next one takes what was already rewritten for an edit of the
user, carries the old hash over and stamps the new release. The comment at
`mirror.rs:400-402` says the next start detects the mirror as stale and retries.
The trace is the retry.

Two more places where these comments say more than the code does, which no
property states. A stamp that is cut at the end of a line has the version of its
release, so `mirror_status` calls the mirror fresh and nothing is retried; the
files whose hashes it lost have no baseline, and what the user has edited of them
the next release overwrites. And "the new stamp records the user's current hash"
(`mirror.rs:397-398`): for an edited file it carries the hash of what was last
written (`mirror.rs:484-495`), which is how the edit stays known.

**Proved** (`InstallationProofs`; assumptions `BoundsAssumption`,
`ContentsAssumption`: names are unique and what the user writes no release brings,
`LinesAssumption`: the user writes no marker). All four safety properties, for any
files, scripts, releases, lines and number of starting proxies; by two invariants,
since the mirror and `.zshrc` have only the plans of the processes in common.
`Mirrored` is about the mirror. `TypeOK` contains that every plan reads the stamp
before any spec and writes it after all of them. Between the two, what has been
edited on top of a stamp must stay known as edited: to the stamp, to each process
that has read it, and, for the files the process is done with, in the hashes it
will write (`Keeps`); without a disturbance one process refreshes at a time and a
file differs from what the stamp or that process records only by the user's hand
(`Tells`). `Sourced` is about `.zshrc`: behind each begin marker stands its end
(`Whole`), an install writes the file last and an uninstall first (`PlanFits`),
and a process that has read the file relies on what it has read (`Relies`): its
blocks are whole, no block has come since, and the script is there. That
`remove_block` takes out every whole block and nothing else (`RemoveBlockKept`) is
a statement about a recursive function for every content: the content with the
least length against it has no block, or loses one and gives a shorter
counterexample.

## 12. ProxyProcess

**State.** `proc[p]` is a process: its program (zsh, proxy, wrapper), where it is
in it, its parent, its tty (named by the first process on it) and whether that
is a proxy's PTY, whether it has been hung up or killed, and the environment
variables that matter: `TMUX` and its pane, `GHOST_COMPLETE_ACTIVE`,
`GHOST_COMPLETE_PANE`, `GHOST_COMPLETE_FALLBACK_PID`. `shell` is what `$SHELL`
is, `script` whether the installed init.zsh knows the fallback marker.

**Actions.** The user opens tabs, tmux panes and editor terminals (`OpenTab`, with
an environment that may have leaked from any shell at work, one in a tmux pane
included; only tmux itself gives a terminal a pane of its own), starts subshells,
closes terminals. `SourceInit` is `shell/init.zsh`: both walks over the ancestors
may fail to complete. The proxy refreshes the scripts, fails before the spawn
(`FailToStart`), spawns the shell, fails with the shell running (`EngineFails`),
runs, stops for one of its three causes, hangs the shell up and reaps it within
two deadlines, and exits or execs the shell in its place (`ExecPlainShell`).

**Abstracted.** Raw mode, the frecency flush, which of several causes wins,
resizes, the list of supported terminals, pid reuse, `$SHELL` that cannot be
executed, SIGKILL of a proxy, an EOF that background jobs delay, tmux servers and
editors whose ancestor is a proxied shell. A pane's number is its tty's, so that
no two tmux servers have one in common. With an old init.zsh only one wrapper
below a proxy is modelled: `exec_plain_shell` compares the marker with its own pid
and its parent's (`spawn.rs:112-114`), so that a chain of two would go on failing.

**Run** `proxy_process`: two starts by the user and eleven pids: a wrapper that
starts, and one that fails again and again. The user opens the second when the
first has come up or gone (`Settled`). Safety: `NoStackedProxies`,
`PlainShellHasReason` (a shell without a proxy has a reason in its own terminal,
none leaked from another, but for the case below), `NoShellLeftBehind`. Liveness,
under weak fairness of some process going on (the scheduler runs what is ready and
the reaping has timers): `TabsGetShells`, that after the last start every tab
settles on a shell, however often the proxy fails and however old init.zsh is, and
`ProxiesEnd`. Fairness says nothing of the user, of signals, or of a shell that
hangs. Deadlock is not checked: a desktop nobody uses may rest. A proxy that falls
back hangs up the PTY it made and keeps the terminal it leads, whose shell it
becomes.

**The pair that may leak.** In a proxied tmux pane `TMUX_PANE` and
`GHOST_COMPLETE_PANE` name the same pane, and everything started there inherits
both. init.zsh takes their being equal for the pane itself (lines 63 and 78): an
editor that is opened from such a pane gets no completions in the terminals it
opens. `PlainShellHasReason` excepts exactly this (`HasLeakedPane`): one of the
two alone, a fallback's marker, or `GHOST_COMPLETE_ACTIVE` is never the reason.

**Proved** (`ProxyProcessProofs`; assumption `BoundsAssumption`). The three safety
properties, for any number of processes and of starts. `Orderly` says of every
process alive: it is where its program can be (`InPlace`); it is on its parent's
tty or leads a PTY of its own, made by a proxy that is its parent (`InFamily`); the
variables it has inherited tell a PTY from a terminal (`InheritsWell`); an excuse is
shared by all that comes after it on the tty (`SharesExcuse`); and on a PTY that
has not been hung up the parents lead to the proxy (`IsConnected`). The last one is
why no proxy starts on another: the walk of init.zsh over `Ancestors`, a recursive
function, reaches the proxy (`ProxyIsAncestor`, by induction over pids, since a
parent has the smaller one), and when the walk does not complete the variables tell
the same. Each action is one of four kinds of change (a flag, a field, an end, a
birth), each shown once to keep the order.

## 13. Proved and only model-checked

Every safety property of every passing run is a theorem for every value of the
constants, with the two restrictions on bounded waits that section 4 explains; the
inductive invariants are described in sections 3 to 12. Each invariant was an
invariant of its run first. No assumption is made but those on the constants that
the models state, which TLC evaluates on the instances. Recursive functions are
proved about where a step needs them (`RemoveBlock`, `Ancestors`, `Fed`, the load of
`SpecStore`): a witness for the `CHOOSE` that a recursive definition stands for, and
the least counterexample among the naturals in place of induction.

Only model-checked:

- Liveness: `RunsReturn`, `WaitersWake`, `TabsGetShells`, `ProxiesEnd`,
  `ReportsAreAnswered`, what `dyn_poll` and `dyn_block` say of the indicator, and
  the fairness half of `ImplementsSingleFlight`. They need fairness and ENABLED,
  which are outside the prover.
- With bounded waits, that an indicator is answered at all (`dyn_block`).

## 14. Not modelled

- The tokenizer, the key decoder, ranking, the spec transforms, layout and
  rendering: functions of their arguments without state between calls, whose
  value is in text and geometry; the tests cover them case by case. Their
  callers' models take their results as choices.
- Configuration parsing, terminal detection, providers, alias and history
  sources: reading and parsing of external data.
- doctor, status, validate: reports that change nothing.
- The spec corpus, the converter and the benchmarks: data and offline tools.

In the files that are modelled, more than half of the lines are tests
(`handler.rs`, `specs.rs`, `engine.rs`, `proxy.rs`), and what is left beside the
mapped control is rendering detail, logging and construction.
