--------------------------- MODULE OverlayOwnership ---------------------------
(***************************************************************************)
(* Who owns the popup's cells on the terminal (crates/gc-pty).             *)
(*                                                                         *)
(* Eight tasks of the proxy share one InputHandler behind a mutex and one  *)
(* stdout.  A task stages overlay bytes in a first critical section (the   *)
(* operations of handler.rs), takes a ticket in that same section, and     *)
(* writes the bytes in a second one (write_overlay_if_current), where a    *)
(* stale ticket drops them.  Task B alone also writes ungated bytes: the   *)
(* shell's output, preceded by the cleanup handle_terminal_output made.    *)
(*                                                                         *)
(* A popup's geometry is a footprint of Shapes; what matters of it is      *)
(* which cells it covers: its body, its feedback row and its detail box.   *)
(* screen is the set of cells on which overlay bytes are now displayed.    *)
(* u64 wrap-around of the epoch and the token counters is not modelled.    *)
(***************************************************************************)
EXTENDS Naturals, FiniteSets

CONSTANTS
  Tasks,      \* the tasks that run, a subset of AllTasks
  Shapes,     \* footprints a popup may be rendered with
  TooSmall,   \* may a render find the screen too small and paint nothing?
  MaxEpoch,   \* bound on handler.epoch
  None        \* Option::None

AllTasks == {"stdin", "pty", "debounce", "merge", "detail", "feedback",
             "config", "signal"}

Feedbacks == {"Idle", "Loading", "Terminal", "Partial"}
Cells     == Shapes \X {"body", "row", "detail"}

\* The handler's fields and the bytes staged from it.
Option(S) == {None} \cup S

PendingRenders  == [token: Nat, layout: SUBSET Cells, detail: Option(SUBSET Cells)]
PendingCleanups == [token: Nat, scope: {"MainAndDetail", "DetailOnly"}]

Handlers ==
  [visible: BOOLEAN, suggested: BOOLEAN, feedback: Feedbacks, rx: BOOLEAN,
   auto: BOOLEAN, detailMode: BOOLEAN,
   layout: Option(SUBSET Cells), detail: Option(SUBSET Cells), epoch: Nat,
   renderGen: Nat, pendingRender: Option(PendingRenders),
   cleanupGen: Nat, pendingCleanup: Option(PendingCleanups)]

Staged   == [ticket: [epoch: Nat, render: Nat, cleanup: Nat],
             erase: SUBSET Cells, paint: SUBSET Cells]
Cleanups == [erase: SUBSET Cells]

ASSUME TasksAssumption == Tasks \subseteq AllTasks
ASSUME BoundAssumption == MaxEpoch \in Nat /\ TooSmall \in BOOLEAN

\* None is none of the values it stands in for.
ASSUME NoneAssumption ==
  /\ \A S \in SUBSET Cells : None # S
  /\ None \notin PendingRenders /\ None \notin PendingCleanups
  /\ None \notin Staged /\ None \notin Cleanups

VARIABLES
  handler,    \* InputHandler, as the mutex protects it
  blocked,    \* the debounce loop holds a generator's rx (NeedsBlock)
  inflight,   \* [Tasks -> None or bytes staged and not yet written]
  shell,      \* None, or Task B's cleanup, between its lock and its write
  screen,     \* cells where overlay bytes are displayed
  orphaned    \* history: how cells came to be left without an owner

vars == <<handler, blocked, inflight, shell, screen, orphaned>>

-----------------------------------------------------------------------------
(* Staged bytes and the handler they leave behind.                         *)

CellsOf(layout) == IF layout = None THEN {} ELSE layout

\* The cells the handler knows overlay bytes are on.
Owned(h) == CellsOf(h.layout) \cup CellsOf(h.detail)

\* What one operation does under the lock: the new handler, the cells its bytes
\* clear and paint, and those of the old popup it leaves to themselves.  Bytes
\* that neither clear nor paint are an empty buffer.
Out(h, erase, paint) == [h |-> h, erase |-> erase, paint |-> paint, left |-> {}]
Quiet(h)             == Out(h, {}, {})

Bump(h) == [h EXCEPT !.epoch = @ + 1]

\* render_popup: nothing to show, or no room, is a zero-sized layout.
PopupCells(h, s) ==
  (IF h.suggested THEN {<<s, "body">>} ELSE {}) \cup
  (IF h.feedback # "Idle" THEN {<<s, "row">>} ELSE {})

\* The layouts a render may produce for the handler's contents.
Layouts(h) == {PopupCells(h, s) : s \in Shapes} \cup (IF TooSmall THEN {{}} ELSE {})

\* maybe_render_detail: off, nothing selected, or no room means no box.
DetailLayouts(h, layout) ==
  IF h.detailMode /\ h.suggested /\ layout # {}
  THEN {None} \cup {{<<c[1], "detail">>} : c \in layout}
  ELSE {None}

Staging(h, layout, detail) ==
  [Bump(h) EXCEPT
     !.renderGen      = @ + 1,
     !.pendingCleanup = None,
     !.pendingRender  = [token |-> h.renderGen + 1, layout |-> layout, detail |-> detail]]

\* Mutation: a render does not clear the popup it replaces.
RenderOverOld(h, layout, detail, left) ==
  Out(Staging(h, layout, detail), {}, layout \cup CellsOf(detail))

\* Mutation: a render leaves an older cleanup pending.
RenderBesideCleanup(h, layout, detail, left) ==
  [h |-> [Staging(h, layout, detail) EXCEPT !.pendingCleanup = h.pendingCleanup],
   erase |-> Owned(h) \ left, paint |-> layout \cup CellsOf(detail), left |-> left]

RenderAt(h, layout, detail, left) ==
  [h |-> Staging(h, layout, detail),
   erase |-> Owned(h) \ left, paint |-> layout \cup CellsOf(detail), left |-> left]

\* A render clears the popup it replaces.  One that makes room by scrolling does
\* not, nor does feedback that is repainted after that: the old popup has moved
\* with its line, and what the new one does not cover of it stays.
Uncleared(h, paint) ==
  IF paint = {} THEN {{}}
  ELSE {{}, CellsOf(h.layout) \ paint} \cup (IF h.suggested THEN {} ELSE {Owned(h) \ paint})

RendersAt(h, layout, detail) ==
  {RenderAt(h, layout, detail, left) : left \in Uncleared(h, layout \cup CellsOf(detail))}

Renders(h) ==
  UNION {UNION {RendersAt(h, l, d) : d \in DetailLayouts(h, l)} : l \in Layouts(h)}

RenderAny(S) == UNION {Renders(g) : g \in S}

StageOverlayCleanup(h, scope) ==
  [h EXCEPT !.cleanupGen     = @ + 1,
            !.pendingRender  = None,
            !.pendingCleanup = [token |-> h.cleanupGen + 1, scope |-> scope]]

\* What every teardown resets besides the layouts.
Hidden(h) == [h EXCEPT !.visible = FALSE, !.suggested = FALSE,
                       !.feedback = "Idle", !.rx = FALSE]

TeardownPopup(h) ==
  IF h.layout # None \/ h.detail # None
  THEN Out(Hidden(StageOverlayCleanup(Bump(h), "MainAndDetail")), Owned(h), {})
  ELSE Quiet(Hidden([h EXCEPT !.pendingCleanup = None, !.pendingRender = None]))

DismissIfVisible(h) == IF h.visible THEN TeardownPopup(h) ELSE Quiet(h)

-----------------------------------------------------------------------------
(* Tickets.                                                                *)

TokenOf(pending) == IF pending = None THEN 0 ELSE pending.token

OverlayWriteTicket(h) == [epoch   |-> h.epoch,
                          render  |-> TokenOf(h.pendingRender),
                          cleanup |-> TokenOf(h.pendingCleanup)]

\* Mutation: any pending commit is taken for the ticket's own.
HoldsAny(pending, token) == pending # None

Holds(pending, token) == pending # None /\ pending.token = token

CommitRender(h, token) ==
  IF Holds(h.pendingRender, token)
  THEN [h EXCEPT !.pendingRender = None,
                 !.layout = h.pendingRender.layout,
                 !.detail = h.pendingRender.detail]
  ELSE h

CommitCleanup(h, token) ==
  IF Holds(h.pendingCleanup, token)
  THEN [h EXCEPT !.pendingCleanup = None,
                 !.layout = IF h.pendingCleanup.scope = "MainAndDetail"
                            THEN None ELSE @,
                 !.detail = None]
  ELSE h

CommitOverlayWrite(h, ticket) ==
  CommitCleanup(CommitRender(h, ticket.render), ticket.cleanup)

DiscardOverlayOwnership(h, ticket) ==
  IF Holds(h.pendingCleanup, ticket.cleanup)
  THEN [h EXCEPT !.pendingCleanup = None]
  ELSE IF Holds(h.pendingRender, ticket.render)
  THEN Bump(Hidden([h EXCEPT !.pendingRender = None,
                             !.layout = None, !.detail = None]))
  ELSE h

HandleTerminalOutput(h) ==
  IF h.visible \/ h.layout # None \/ h.feedback # "Idle"
  THEN LET t == TeardownPopup(Bump(Bump(h)))
       IN  [t EXCEPT !.h = CommitOverlayWrite(@, OverlayWriteTicket(@))]
  ELSE Quiet(Bump(h))

-----------------------------------------------------------------------------
(* What the operations may produce, over the suggestions they compute.     *)

Shown(h)      == [h EXCEPT !.visible = TRUE, !.suggested = TRUE]
ShownEmpty(h) == [h EXCEPT !.visible = TRUE, !.suggested = FALSE]
Loading(h)    == [h EXCEPT !.feedback = "Loading", !.rx = TRUE]
Idle(h)       == [h EXCEPT !.feedback = "Idle", !.rx = FALSE]

\* trigger and prepare_trigger_with_block when generators are spawned.
Spawned(h) ==
  LET d == DismissIfVisible(Idle(h))
  IN  Renders(Shown(Loading(h))) \cup {[d EXCEPT !.h = Loading(@)]}

\* trigger: same or empty buffer, sync results only, generators, nothing.
Triggers(h) ==
  {Quiet(h), DismissIfVisible(h), DismissIfVisible(Idle(h))}
  \cup Renders(Shown(Idle(h))) \cup Spawned(h)

\* The handler once every generator is done, its feedback one of fs.
Finished(h, fs) == {[h EXCEPT !.feedback = f, !.rx = FALSE] : f \in fs}

\* Results of an earlier command: dropped, the popup repainted without them.
StaleMerge(h) == IF h.visible THEN Renders(Idle(h)) ELSE {Quiet(Idle(h))}

\* try_merge_dynamic, the handler holding rx: results to show (or none left
\* after the rerank), stale results, or none loaded.
Merges(h) ==
  LET kept == {h} \cup Finished(h, {"Idle", "Partial"})
      done == Finished(h, IF h.suggested THEN {"Idle", "Partial"} ELSE {"Idle", "Terminal"})
  IN  RenderAny({Shown(g) : g \in kept}) \cup {TeardownPopup(g) : g \in kept}
      \cup StaleMerge(h)
      \cup RenderAny({h} \cup done)
      \cup {Quiet(g) : g \in {k \in done : ~k.visible}}

\* apply_block_result, the debounce loop holding rx: as above, but it ranks
\* the suggestions of its own first phase and renders whatever is left.
BlockResults(h) ==
  LET running == [h EXCEPT !.rx = TRUE]                     \* timeout
      kept == {running} \cup Finished(h, {"Idle", "Partial"})
      left == {running} \cup Finished(h, {"Idle", "Partial", "Terminal"})
      seen == {g \in left : g.visible \/ g.feedback # "Idle"}
  IN  RenderAny({Shown(g) : g \in kept}) \cup RenderAny({ShownEmpty(g) : g \in kept})
      \cup StaleMerge(h)
      \cup RenderAny(seen) \cup {Quiet(g) : g \in left \ seen}
      \cup {Quiet(running)}

\* Mutation: a frame of the spinner does not count as output.
IndicatorUncounted(h) == Out(h, {}, CellsOf(h.layout))

\* render_indicator_only: a frame of the spinner on the popup last written.
RenderIndicatorOnly(h) == Out(Bump(h), {}, CellsOf(h.layout))

\* clear_expired_feedback: a partial error gives up its row, any other
\* feedback takes the popup with it.
ClearExpiredFeedback(h) ==
  LET idle == [h EXCEPT !.feedback = "Idle"]
      row  == {<<c[1], "row">> : c \in CellsOf(h.layout)}
  IN  IF h.feedback = "Partial" /\ h.suggested
      THEN IF CellsOf(h.layout) = {} THEN Quiet(idle)
           ELSE Out([Bump(idle) EXCEPT !.layout = @ \ row], row, {})
      ELSE TeardownPopup(idle)

UpdateConfig(h, auto, detailMode) ==
  LET stops == h.auto /\ ~auto
      main  == stops /\ h.visible /\ (h.layout # None \/ h.detail # None)
      box   == h.detailMode /\ ~detailMode /\ h.detail # None /\ ~main
      g     == IF main THEN StageOverlayCleanup(Bump(h), "MainAndDetail")
               ELSE IF box THEN StageOverlayCleanup(Bump(h), "DetailOnly")
               ELSE h
  IN  Out([(IF stops THEN Hidden(g) ELSE g) EXCEPT
             !.auto = auto, !.detailMode = detailMode],
          IF main THEN Owned(h) ELSE IF box THEN CellsOf(h.detail) ELSE {}, {})

-----------------------------------------------------------------------------
(* The tasks.                                                              *)

InitialHandler ==
  [visible |-> FALSE, suggested |-> FALSE, feedback |-> "Idle", rx |-> FALSE,
   auto |-> TRUE, detailMode |-> TRUE, layout |-> None, detail |-> None,
   epoch |-> 0, renderGen |-> 0, pendingRender |-> None,
   cleanupGen |-> 0, pendingCleanup |-> None]

Init ==
  /\ handler = InitialHandler
  /\ blocked = FALSE
  /\ inflight = [t \in Tasks |-> None]
  /\ shell = None
  /\ screen = {}
  /\ orphaned = {}

\* A task that is not between its two critical sections may take the lock.
Ready(t) ==
  /\ t \in Tasks
  /\ inflight[t] = None
  /\ t = "pty" => shell = None
  /\ handler.epoch < MaxEpoch

\* The render awaiting its write is forgotten and the epoch is left alone, so
\* its bytes will still pass the gate.
ForgetsRender(h, g) ==
  h.pendingRender # None /\ g.pendingRender = None /\ g.epoch = h.epoch

\* New bytes are staged whose ticket carries the token of older ones.
BorrowsToken(h, g) ==
  /\ g.epoch # h.epoch
  /\ \/ g.pendingRender # None /\ g.pendingRender = h.pendingRender
     \/ g.pendingCleanup # None /\ g.pendingCleanup = h.pendingCleanup

\* First critical section of t: the operation, its ticket, its bytes.
Stage(t, out) ==
  /\ handler' = out.h
  /\ inflight' = [inflight EXCEPT ![t] =
       IF out.erase \cup out.paint = {} THEN None
       ELSE [ticket |-> OverlayWriteTicket(out.h),
             erase |-> out.erase, paint |-> out.paint]]
  /\ orphaned' = orphaned \cup
       (IF ForgetsRender(handler, out.h) THEN {"forgotten"} ELSE {}) \cup
       (IF BorrowsToken(handler, out.h) THEN {"borrowed"} ELSE {}) \cup
       (IF out.left # {} THEN {"uncovered"} ELSE {})
  /\ UNCHANGED <<shell, screen>>

NavigateKey ==
  /\ Ready("stdin")
  /\ handler.visible
  /\ \E out \in Renders(handler) : Stage("stdin", out)
  /\ UNCHANGED blocked

\* Escape, accepting a suggestion, editing the line, any other key.
DismissKey ==
  /\ Ready("stdin")
  /\ handler.visible
  /\ Stage("stdin", TeardownPopup(handler))
  /\ UNCHANGED blocked

\* accept_with_chaining on a directory that has entries.
AcceptDirectory ==
  /\ Ready("stdin")
  /\ handler.visible /\ handler.suggested
  /\ \E out \in Renders(Shown(handler)) : Stage("stdin", out)
  /\ UNCHANGED blocked

TriggerKey ==
  /\ Ready("stdin")
  /\ ~handler.visible
  /\ \E out \in Triggers(handler) : Stage("stdin", out)
  /\ UNCHANGED blocked

\* Task B after a buffer report, a new directory or a new environment.
ReportTrigger ==
  /\ Ready("pty")
  /\ handler.auto
  /\ \E out \in Triggers(handler) : Stage("pty", out)
  /\ UNCHANGED blocked

TryMergeDynamic(t) ==
  /\ Ready(t)
  /\ handler.rx
  /\ \E out \in Merges(handler) : Stage(t, out)
  /\ UNCHANGED blocked

DebounceTrigger ==
  /\ Ready("debounce")
  /\ ~blocked
  /\ handler.auto
  /\ \/ /\ \E out \in Triggers(handler) : Stage("debounce", out)
        /\ UNCHANGED blocked
     \/ /\ \E out \in Spawned(handler) : Stage("debounce", [out EXCEPT !.h.rx = FALSE])
        /\ blocked' = TRUE

ApplyBlockResult ==
  /\ Ready("debounce")
  /\ blocked
  /\ \E out \in BlockResults(handler) : Stage("debounce", out)
  /\ blocked' = FALSE

\* A keystroke ends the bounded wait (abort_dynamic_task_and_clear_ctx).
AbandonBlock ==
  /\ Ready("debounce")
  /\ blocked
  /\ Stage("debounce", Quiet(Idle(handler)))
  /\ blocked' = FALSE

RenderForDetailRedraw ==
  /\ Ready("detail")
  /\ handler.visible /\ handler.suggested /\ handler.detailMode
  /\ \E out \in Renders(handler) : Stage("detail", out)
  /\ UNCHANGED blocked

TickFeedback ==
  /\ Ready("feedback")
  /\ \/ /\ handler.feedback = "Loading"
        /\ handler.layout # None
        /\ Stage("feedback", RenderIndicatorOnly(handler))
     \/ /\ handler.feedback \in {"Terminal", "Partial"}
        /\ Stage("feedback", ClearExpiredFeedback(handler))
  /\ UNCHANGED blocked

ReloadConfig ==
  /\ Ready("config")
  /\ \E auto, detailMode \in BOOLEAN :
       Stage("config", UpdateConfig(handler, auto, detailMode))
  /\ UNCHANGED blocked

HandleResize ==
  /\ Ready("signal")
  /\ Stage("signal", DismissIfVisible(handler))
  /\ UNCHANGED blocked

\* Task B reads display-changing output: under the lock it takes the popup
\* down and releases it at once; cleanup and output are written after.
ReadShellOutput ==
  /\ Ready("pty")
  /\ LET out == HandleTerminalOutput(handler)
     IN  /\ handler' = out.h
         /\ shell' = [erase |-> out.erase]
  /\ UNCHANGED <<blocked, inflight, screen, orphaned>>

WriteShellOutput ==
  /\ shell # None
  /\ screen' = screen \ shell.erase
  /\ shell' = None
  /\ UNCHANGED <<handler, blocked, inflight, orphaned>>

\* write_overlay_if_current: the second critical section of t.
Current(t) == inflight[t].ticket.epoch = handler.epoch

\* Bytes that clear cells already given up: no later step acknowledges them.
Unacknowledged(t) ==
  /\ inflight[t] # None
  /\ inflight[t].ticket.render = 0 /\ inflight[t].ticket.cleanup = 0
  /\ inflight[t].paint = {}

WriteOverlay(t) ==
  /\ inflight[t] # None
  /\ Current(t)
  /\ screen' = (screen \ inflight[t].erase) \cup inflight[t].paint
  /\ handler' = CommitOverlayWrite(handler, inflight[t].ticket)
  /\ inflight' = [inflight EXCEPT ![t] = None]
  /\ UNCHANGED <<blocked, shell, orphaned>>

DropStaleWrite(t) ==
  /\ inflight[t] # None
  /\ ~Current(t)
  /\ handler' = DiscardOverlayOwnership(handler, inflight[t].ticket)
  /\ inflight' = [inflight EXCEPT ![t] = None]
  /\ orphaned' = orphaned \cup
       (IF Unacknowledged(t) /\ inflight[t].erase # {} THEN {"clipped"} ELSE {})
  /\ UNCHANGED <<blocked, shell, screen>>

Next ==
  \/ NavigateKey \/ DismissKey \/ AcceptDirectory \/ TriggerKey
  \/ ReportTrigger \/ ReadShellOutput \/ WriteShellOutput
  \/ \E t \in {"merge", "pty"} : TryMergeDynamic(t)
  \/ DebounceTrigger \/ ApplyBlockResult \/ AbandonBlock
  \/ RenderForDetailRedraw \/ TickFeedback \/ ReloadConfig \/ HandleResize
  \/ \E t \in Tasks : WriteOverlay(t) \/ DropStaleWrite(t)

Spec == Init /\ [][Next]_vars

-----------------------------------------------------------------------------
(* Properties.                                                             *)

TypeOK ==
  /\ handler \in Handlers
  /\ blocked \in BOOLEAN
  /\ inflight \in [Tasks -> Option(Staged)]
  /\ shell \in Option(Cleanups)
  /\ screen \in SUBSET Cells
  /\ orphaned \in SUBSET {"forgotten", "borrowed", "clipped", "uncovered"}

\* Cells that bytes on their way to stdout will clear.
BeingCleared ==
  (IF shell = None THEN {} ELSE shell.erase) \cup
  UNION {inflight[t].erase : t \in {u \in Tasks : Unacknowledged(u)}}

\* Every cell that shows overlay bytes is owned by the handler or about to be
\* cleared: nothing of a popup stays behind that no later step would remove.
NoGhost == screen \subseteq Owned(handler) \cup BeingCleared

\* Interleaved renders, teardowns, ticks and shell output leave no ghost cell
\* on the terminal, but for the four losses of ownership the history names:
\* a popup dismissed before its first bytes are written (teardown_popup with
\* no committed layout), bytes staged under another task's pending token
\* (render_indicator_only, clear_expired_feedback), a partial error's row
\* given up by bytes that turn out stale, and a popup that scrolled and is not
\* covered by the one rendered over it (render_at, can_clear_old).
GhostFree == orphaned = {} => NoGhost

CommitsOwnBytes(t) ==
  WriteOverlay(t) /\ handler'.layout \notin {handler.layout, None} =>
    CellsOf(handler'.layout) \cup CellsOf(handler'.detail) = inflight[t].paint

\* A layout is committed only by the write of the very bytes that painted it
\* (commit_overlay_write, the comment on pending_overlay_render), as long as no
\* ticket has borrowed another task's token.
AcknowledgesUnlessBorrowed ==
  []["borrowed" \notin orphaned => \A t \in Tasks : CommitsOwnBytes(t)]_vars

\* A stale write that is dropped takes no popup with it: what the user sees
\* and may navigate is left alone (discard_overlay_ownership_after_stale_write),
\* as long as no ticket has borrowed another task's token.
StaleDropQuietUnlessBorrowed ==
  [][\A t \in Tasks : DropStaleWrite(t) /\ "borrowed" \notin orphaned =>
       /\ handler'.visible = handler.visible
       /\ Owned(handler') = Owned(handler)]_vars

-----------------------------------------------------------------------------
(* Why GhostFree holds: the tokens and the epoch tie every buffer in flight *)
(* to what its write may acknowledge.                                      *)

HoldsRender(t)  == Holds(handler.pendingRender, inflight[t].ticket.render)
HoldsCleanup(t) == Holds(handler.pendingCleanup, inflight[t].ticket.cleanup)

\* Tokens are handed out in order and the epoch only grows; the two pending
\* commits exclude each other; a detail box belongs to a popup.
TokensInOrder ==
  /\ handler.pendingRender # None =>
       handler.pendingRender.token \in 1..handler.renderGen
  /\ handler.pendingCleanup # None =>
       handler.pendingCleanup.token \in 1..handler.cleanupGen
  /\ handler.pendingRender = None \/ handler.pendingCleanup = None
  /\ handler.layout = None => handler.detail = None
  /\ \A t \in Tasks : inflight[t] # None =>
       /\ inflight[t].ticket.epoch <= handler.epoch
       /\ inflight[t].ticket.render <= handler.renderGen
       /\ inflight[t].ticket.cleanup <= handler.cleanupGen

\* Staging bytes makes all earlier ones stale.
OneCurrent ==
  \A t, u \in Tasks :
    inflight[t] # None /\ inflight[u] # None /\ Current(t) /\ Current(u) => t = u

\* A ticket that holds the pending render is that of the bytes that paint it, or
\* nothing is owned or visible that its loss could give up.
OwnsToken(t) ==
  HoldsRender(t) =>
    IF Current(t) THEN inflight[t].paint = CellsOf(handler.pendingRender.layout)
                                             \cup CellsOf(handler.pendingRender.detail)
                  ELSE Owned(handler) = {} /\ ~handler.visible

\* What the write of t's bytes does to the screen and to the ownership of its cells.
Accounted(t) ==
  /\ Current(t) /\ HoldsRender(t) => Owned(handler) \subseteq inflight[t].erase
  /\ Current(t) /\ HoldsCleanup(t) =>
       /\ inflight[t].paint = {}
       /\ CellsOf(handler.detail) \subseteq inflight[t].erase
       /\ handler.pendingCleanup.scope = "MainAndDetail" =>
            Owned(handler) \subseteq inflight[t].erase
  /\ Current(t) /\ ~HoldsRender(t) => inflight[t].paint \subseteq Owned(handler)

\* The inductive invariant: it is what OverlayOwnershipProofs proves.
Ledger ==
  /\ TypeOK
  /\ TokensInOrder
  /\ OneCurrent
  /\ "borrowed" \notin orphaned => \A t \in Tasks : inflight[t] # None => OwnsToken(t)
  /\ orphaned = {} =>
       NoGhost /\ \A t \in Tasks : inflight[t] # None => Accounted(t)
=============================================================================
