------------------------------- MODULE CprQueue -------------------------------
(***************************************************************************)
(* Cursor position reports (crates/gc-parser/src/state.rs and              *)
(* gc-pty/src/proxy.rs).                                                   *)
(*                                                                         *)
(* A terminal answers each CSI 6n with its cursor position, in the order   *)
(* it reads them, and the answers do not say whom they are for.  Programs  *)
(* behind the PTY ask, and so does the proxy at every prompt.  Task B      *)
(* queues an entry for each query it passes on or makes; Task A pops one   *)
(* for each report and uses the report (Ours) or forwards it (Shell).      *)
(*                                                                         *)
(* A cursor is a number of moves modulo Places.  The terminal's answer is  *)
(* settled when the query is written, since the output before it decides   *)
(* the place; the two in-transit legs are one sequence of reports.  A      *)
(* query carries the id of its entry, which the real bytes do not.         *)
(***************************************************************************)
EXTENDS Naturals, Sequences, FiniteSets

CONSTANTS
  Chunks,    \* what one read of the PTY may return
  Places,    \* number of cursor places
  Ids,       \* next_cpr_id wraps here, at 2^64 in the code
  MaxQueue,  \* bound on pending entries
  Stale,     \* CPR_STALE_THRESHOLD, in ticks of the clock
  Loses,     \* may the terminal leave one query unanswered?
  None       \* Option::None

ASSUME BoundsAssumption ==
  /\ Places \in Nat \ {0} /\ MaxQueue \in Nat /\ Stale \in Nat \ {0}
  /\ Ids \in Nat /\ Ids > MaxQueue
  /\ Loses \in BOOLEAN

\* asks has, for each CSI 6n, how far the output before it moves the cursor;
\* moves is how far the chunk does, seen how far the parser thinks it does;
\* prompt says whether OSC 133;A or 7771;A is in it.
ASSUME ChunksAssumption ==
  Chunks \subseteq
    [asks: Seq(Nat), moves: Nat, seen: Nat, prompt: BOOLEAN]

ASSUME NoneAssumption == None \notin Nat

EntryIds == 0..(Ids - 1)
Cursors  == 0..(Places - 1)
Entries  == [owner: {"Ours", "Shell"}, id: EntryIds, age: 0..Stale]
Reports  == [id: EntryIds, place: Cursors]

VARIABLES
  queue,      \* cpr_queue
  nextId,     \* next_cpr_id
  cursor,     \* the parser's cursor
  synced,     \* cpr_synced
  taskB,      \* Task B between two locks
  taskA,      \* a report Task A has claimed for the proxy and not yet used
  shown,      \* the terminal's cursor, after all that was written
  reports,    \* the answers to all that was written, but for those Task A read
  lost        \* history: a query has gone unanswered

vars == <<queue, nextId, cursor, synced, taskB, taskA, shown, reports, lost>>

-----------------------------------------------------------------------------
(* Operations of the queue.                                                *)

Entry(owner, id) == [owner |-> owner, id |-> id, age |-> 0]

\* Mutation: the proxy's own query takes precedence.
EnqueueFirst(q, owner, id) == <<Entry(owner, id)>> \o q

\* enqueue_cpr
EnqueueCpr(q, owner, id) == Append(q, Entry(owner, id))

\* claim_next_cpr takes the head and leaves this.
ClaimNextCpr(q) == Tail(q)

\* rollback_cpr
RollbackCpr(q, token) ==
  IF \E i \in DOMAIN q : q[i].id = token
  THEN LET pos == CHOOSE i \in DOMAIN q : q[i].id = token
       IN  SubSeq(q, 1, pos - 1) \o SubSeq(q, pos + 1, Len(q))
  ELSE q

\* Mutation: the threshold is one tick short.
PruneEarly(q) ==
  SubSeq(q, 1 + Cardinality({i \in DOMAIN q : q[i].age + 1 >= Stale}), Len(q))

\* prune_stale_cpr.  Entries are queued in order of time: the stale ones are the
\* first.
PruneStale(q) ==
  SubSeq(q, 1 + Cardinality({i \in DOMAIN q : q[i].age >= Stale}), Len(q))

\* Mutation: the counter does not wrap.
NextIdUnwrapped(n) == nextId + n

\* The id after n more entries.
NextId(n) == (nextId + n) % Ids

-----------------------------------------------------------------------------
(* Task B.                                                                 *)

Reading == [at |-> "read", asks |-> <<>>, place |-> 0, sync |-> FALSE,
            token |-> None]

\* Queries that are queued and not yet written.
Staged == IF taskB.at \in {"parsed", "staged"} THEN taskB.asks ELSE <<>>

\* The answers to come, oldest first.
Outstanding == reports \o Staged

Asked == {Outstanding[i].id : i \in DOMAIN Outstanding}

Init ==
  /\ queue = <<>> /\ nextId = 0
  /\ cursor = 0 /\ synced = FALSE
  /\ taskB = Reading /\ taskA = None
  /\ shown \in Cursors /\ reports = <<>>
  /\ lost = FALSE

\* Task B reads the PTY and feeds the parser, which queues the shell's queries.
ReadShell(chunk) ==
  LET n == Len(chunk.asks)
      asks == [i \in 1..n |-> [id |-> NextId(i - 1),
                               place |-> (shown + chunk.asks[i]) % Places]]
  IN  /\ taskB.at = "read"
      /\ Len(queue) + n < MaxQueue
      /\ queue' = queue \o [i \in 1..n |-> Entry("Shell", asks[i].id)]
      /\ nextId' = NextId(n)
      /\ cursor' = (cursor + chunk.seen) % Places
      /\ taskB' = [at |-> "parsed", asks |-> asks, sync |-> chunk.prompt,
                   place |-> (shown + chunk.moves) % Places, token |-> None]
      /\ UNCHANGED <<synced, taskA, shown, reports, lost>>

\* In a second critical section it queues its own query, if a prompt asked for it,
\* to be written after the chunk.
EnqueueOurs ==
  /\ taskB.at = "parsed"
  /\ IF taskB.sync
     THEN /\ queue' = EnqueueCpr(queue, "Ours", nextId)
          /\ nextId' = NextId(1)
          /\ taskB' = [taskB EXCEPT
               !.at = "staged", !.token = nextId,
               !.asks = Append(@, [id |-> nextId, place |-> taskB.place])]
     ELSE /\ taskB' = [taskB EXCEPT !.at = "staged"]
          /\ UNCHANGED <<queue, nextId>>
  /\ UNCHANGED <<cursor, synced, taskA, shown, reports, lost>>

WriteOutput ==
  /\ taskB.at = "staged"
  /\ reports' = reports \o taskB.asks
  /\ shown' = taskB.place
  /\ taskB' = [taskB EXCEPT !.at = "written"]
  /\ UNCHANGED <<queue, nextId, cursor, synced, taskA, lost>>

\* A failed write may have reached the terminal in part, or as a whole.
FailWrite ==
  /\ taskB.at = "staged"
  /\ \E n \in 0..Len(taskB.asks) :
       reports' = reports \o SubSeq(taskB.asks, 1, n)
  /\ taskB' = [taskB EXCEPT !.at = "failed"]
  /\ UNCHANGED <<queue, nextId, cursor, synced, taskA, shown, lost>>

\* Task B takes its own entry back, unless Task A has claimed it, and ends.
RollBack ==
  /\ taskB.at = "failed"
  /\ queue' = RollbackCpr(queue, taskB.token)
  /\ taskB' = [taskB EXCEPT !.at = "exited"]
  /\ UNCHANGED <<nextId, cursor, synced, taskA, shown, reports, lost>>

FinishChunk ==
  /\ taskB.at = "written"
  /\ queue' = PruneStale(queue)
  /\ taskB' = Reading
  /\ UNCHANGED <<nextId, cursor, synced, taskA, shown, reports, lost>>

TaskB ==
  \/ \E chunk \in Chunks : ReadShell(chunk)
  \/ EnqueueOurs \/ WriteOutput \/ FailWrite \/ RollBack \/ FinishChunk

-----------------------------------------------------------------------------
(* Task A, the terminal and the clock.                                     *)

\* Task A reads a report.  With an empty queue it goes to the shell.
DispatchCprResponse ==
  /\ taskA = None /\ reports # <<>>
  /\ reports' = Tail(reports)
  /\ IF queue = <<>> THEN UNCHANGED <<queue, taskA>>
     ELSE /\ queue' = ClaimNextCpr(queue)
          /\ taskA' = IF Head(queue).owner = "Ours" THEN Head(reports) ELSE None
  /\ UNCHANGED <<nextId, cursor, synced, taskB, shown, lost>>

\* In a second critical section the report moves the parser's cursor, unless it
\* lies outside the screen.
SetCursorFromReport ==
  /\ taskA # None
  /\ \/ /\ cursor' = taskA.place
        /\ synced' = TRUE
     \/ UNCHANGED <<cursor, synced>>
  /\ taskA' = None
  /\ UNCHANGED <<queue, nextId, taskB, shown, reports, lost>>

TaskA == DispatchCprResponse \/ SetCursorFromReport

\* A trigger or a render takes the flag.
TakeCprSynced ==
  /\ synced
  /\ synced' = FALSE
  /\ UNCHANGED <<queue, nextId, cursor, taskB, taskA, shown, reports, lost>>

\* The terminal gives no answer, which shows when its turn comes.
LoseQuery ==
  /\ Loses /\ ~lost /\ reports # <<>>
  /\ lost' = TRUE
  /\ reports' = Tail(reports)
  /\ UNCHANGED <<queue, nextId, cursor, synced, taskB, taskA, shown>>

\* Time passes; a query that is answered at all is answered in time.
Tick ==
  /\ \A i \in DOMAIN queue : queue[i].id \in Asked => queue[i].age + 1 < Stale
  /\ \E i \in DOMAIN queue : queue[i].age < Stale
  /\ queue' = [i \in DOMAIN queue |->
                 [queue[i] EXCEPT !.age = IF @ < Stale THEN @ + 1 ELSE @]]
  /\ UNCHANGED <<nextId, cursor, synced, taskB, taskA, shown, reports, lost>>

Next == TaskB \/ TaskA \/ TakeCprSynced \/ LoseQuery \/ Tick

Spec == Init /\ [][Next]_vars

-----------------------------------------------------------------------------
(* Properties.                                                             *)

TypeOK ==
  /\ queue \in Seq(Entries) /\ Len(queue) <= MaxQueue
  /\ nextId \in EntryIds
  /\ cursor \in Cursors /\ synced \in BOOLEAN
  /\ taskB \in [at: {"read", "parsed", "staged", "written", "failed", "exited"},
                asks: Seq(Reports), place: Cursors, sync: BOOLEAN,
                token: EntryIds \cup {None}]
  /\ taskA \in Reports \cup {None}
  /\ shown \in Cursors /\ reports \in Seq(Reports)
  /\ lost \in BOOLEAN

Running == taskB.at \notin {"failed", "exited"}

\* Entries in front of those of the queries still to be answered.
Orphans == Len(queue) - Len(Outstanding)

\* The queue ends with the entries of the queries still to be answered, in their
\* order and younger than the leak guard's threshold; what stands before them
\* is there only since a query was lost.
QueueMatches ==
  Running =>
    /\ Len(Outstanding) <= Len(queue)
    /\ \A i \in DOMAIN Outstanding :
         /\ queue[Orphans + i].id = Outstanding[i].id
         /\ queue[Orphans + i].age < Stale
    /\ ~lost => Orphans = 0

\* While every query is answered, each report goes to the one who asked: the
\* entry Task A pops is the report's own, whatever Task B has queued meanwhile
\* (the FIFO of enqueue_cpr and claim_next_cpr).
AnswersOwnQuery ==
  [][DispatchCprResponse /\ Running /\ ~lost =>
       queue # <<>> /\ Head(queue).id = Head(reports).id]_vars

\* Even when a query was lost, no report meant for the proxy is typed into the
\* shell for want of an entry: the leak guard spares what will be answered.
EveryReportIsClaimed == Running /\ reports # <<>> => queue # <<>>
=============================================================================
