---------------------------- MODULE TriggerScheduling ----------------------------
(***************************************************************************)
(* When the popup is asked for (crates/gc-pty, crates/gc-parser).          *)
(*                                                                         *)
(* Task A handles a key under the handler's lock and forwards it.  The     *)
(* shell answers with a report of its command line (OSC 7772) and, after   *)
(* it, the redraw.  Task B reads that output in pieces, feeds the parser   *)
(* and decides whether to trigger at once, to wait for the redraw or to    *)
(* wake the debounce loop.                                                 *)
(*                                                                         *)
(* A command line is a number: how many changes the shell has made to it,  *)
(* 0 for none.  What the popup contains is left to OverlayOwnership, what  *)
(* arrives from generators to DynamicGenerators.                           *)
(***************************************************************************)
EXTENDS Naturals, Sequences, SequencesExt

CONSTANTS
  Keys,       \* the keys the user presses, a subset of AllKeys
  MaxKeys,    \* how many of them
  Reloads,    \* how often the configuration is reloaded
  Delay       \* delay_ms > 0: there is a debounce loop

\* char: a printable key, or Backspace over a popup; navigate: the keys that move
\* in a popup; other: whatever is only forwarded.
AllKeys == {"char", "triggerChar", "navigate", "trigger", "dismiss", "accept",
            "enter", "other"}

ASSUME KeysAssumption == Keys \subseteq AllKeys
ASSUME LimitsAssumption == MaxKeys \in Nat /\ Reloads \in Nat /\ Delay \in BOOLEAN

VARIABLES
  pressed,    \* keys pressed so far
  reloads,    \* configuration reloads left
  shell,      \* the keys the shell has not read, its line, its output not yet read
  parser,     \* the command buffer and the flags of TerminalState
  handler,    \* the flags of InputHandler that decide on triggers
  pass,       \* where Task B is in its loop, and its locals
  debounce,   \* the debounce loop and its Notify
  history     \* owed: the last report has neither been answered nor dropped;
              \* misplaced: the popup was placed before the redraw of its line;
              \* predicted: the parser's line is not the shell's, but what an
              \* accepted directory will make of it

user == <<pressed, reloads>>
triggerVars == <<user, shell, parser, handler, pass, debounce, history>>

Report(n) == [kind |-> "report", line |-> n]
Redraw == [kind |-> "redraw"]
Execute == [kind |-> "execute"]
Directory == [kind |-> "directory"]

NoAction == "None"

TriggerInit ==
  /\ pressed = 0 /\ reloads = Reloads
  /\ shell = [unread |-> <<>>, line |-> 0, out |-> <<>>]
  /\ parser = [buffer |-> 0, dirty |-> FALSE, pending |-> FALSE, cwdDirty |-> FALSE]
  /\ handler = [visible |-> FALSE, feedback |-> FALSE, requested |-> FALSE,
                suppressed |-> FALSE, auto |-> TRUE, fingerprint |-> 0]
  /\ pass = [at |-> "read", display |-> FALSE, dirty |-> FALSE, pending |-> FALSE,
              stash |-> NoAction]
  /\ debounce = [at |-> "wait", notified |-> FALSE]
  /\ history = [owed |-> FALSE, misplaced |-> FALSE, predicted |-> FALSE]

\* The cursor on the terminal is not yet where the parser's line has it.
Early == parser.pending \/ history.predicted

-----------------------------------------------------------------------------
(* InputHandler, under its lock.                                           *)

\* teardown_popup
Teardown(h, preserveTriggerRequest) ==
  [h EXCEPT !.visible = FALSE, !.feedback = FALSE, !.suppressed = FALSE,
            !.fingerprint = 0, !.requested = preserveTriggerRequest /\ @]

Dismiss(h) == Teardown(h, FALSE)
DismissIfVisible(h) == IF h.visible THEN Dismiss(h) ELSE h

\* trigger and prepare_trigger_with_block, for the parser's buffer: static
\* suggestions, generators only, or nothing at all.
Triggered(h) ==
  IF parser.buffer = 0 THEN {DismissIfVisible(h)}
  ELSE IF h.visible /\ h.fingerprint = parser.buffer THEN {h}
  ELSE {[h EXCEPT !.visible = TRUE, !.feedback = f, !.fingerprint = parser.buffer] :
          f \in BOOLEAN}
       \cup {[DismissIfVisible([h EXCEPT !.feedback = FALSE]) EXCEPT !.feedback = f] :
               f \in BOOLEAN}

\* The line the parser holds is looked at.  This answers its report if the cursor
\* is where the line has it; before the redraw it is where the last line had it.
Trigger(h) ==
  /\ handler' \in Triggered(h)
  /\ history' = [history EXCEPT
       !.owed = @ /\ Early,
       !.misplaced = handler'.visible /\ IF handler' = h THEN @ ELSE Early]

-----------------------------------------------------------------------------
(* Task A: process_key.  A key that is not intercepted goes to the shell.  *)

Forward(key) == shell' = [shell EXCEPT !.unread = Append(@, key)]

Typed(h, key) ==
  IF h.visible THEN [Teardown(h, TRUE) EXCEPT !.requested = TRUE]
  ELSE [h EXCEPT !.suppressed = FALSE,
                 !.requested = @ \/ (h.auto /\ key = "triggerChar")]

\* accept_with_chaining on a directory: the parser is given a line of which the
\* shell knows nothing yet, and its suggestions are painted at the cursor, if
\* there are any.
AcceptDirectory ==
  /\ handler.visible /\ Forward("char")
  /\ \E line \in 1 .. MaxKeys + 1 : parser' = [parser EXCEPT !.buffer = line]
  /\ \E shown \in BOOLEAN :
       /\ handler' = IF shown THEN handler ELSE Dismiss(handler)
       /\ history' = [history EXCEPT !.misplaced = shown, !.predicted = TRUE]

\* Keys that take down the popup, or have nothing to do with it.
DismissAndForward(key) ==
  /\ key \in {"accept", "enter", "other"} /\ (key = "accept" => handler.visible)
  /\ handler' = DismissIfVisible(handler)
  /\ \/ key = "accept" /\ \E sent \in {"char", "other"} : Forward(sent)
     \/ key # "accept" /\ Forward(key)
     \/ /\ key = "enter" /\ handler.visible
        /\ shell' = [shell EXCEPT !.unread = @ \o <<"char", "enter">>]
  /\ UNCHANGED <<parser, history>>

HandleKey(key) ==
  \/ /\ key \in {"char", "triggerChar"}
     /\ handler' = Typed(handler, key) /\ Forward(key)
     /\ UNCHANGED <<parser, history>>
  \/ /\ key = "navigate" /\ handler.visible
     /\ history' = [history EXCEPT !.misplaced = Early]
     /\ UNCHANGED <<handler, shell, parser>>
  \/ /\ key = "navigate" /\ ~handler.visible
     /\ handler' = [handler EXCEPT !.suppressed = TRUE] /\ Forward("other")
     /\ UNCHANGED <<parser, history>>
  \/ /\ key = "dismiss" /\ handler.visible
     /\ handler' = Dismiss(handler)
     /\ UNCHANGED <<shell, parser, history>>
  \/ key = "accept" /\ AcceptDirectory
  \/ DismissAndForward(key)
  \/ /\ key = "trigger" /\ ~handler.visible
     /\ Trigger([handler EXCEPT !.suppressed = FALSE])
     /\ UNCHANGED <<shell, parser>>

PressKey(key) ==
  /\ pressed < MaxKeys
  /\ pressed' = pressed + 1
  /\ HandleKey(key)
  /\ UNCHANGED <<reloads, pass, debounce>>

\* update_config: auto_trigger off tears everything down, but no suppression.
UpdateConfig ==
  /\ reloads > 0 /\ reloads' = reloads - 1
  /\ handler' =
       [handler EXCEPT !.auto = ~@,
          !.visible   = @ /\ ~handler.auto,
          !.feedback  = @ /\ ~handler.auto,
          !.requested = @ /\ ~handler.auto]
  /\ UNCHANGED <<pressed, shell, parser, pass, debounce, history>>

\* try_merge_dynamic: the results of the generators, or none.
MergeDynamic ==
  /\ handler.feedback
  /\ \/ /\ handler' = [handler EXCEPT !.feedback = FALSE, !.visible = TRUE]
        /\ history' = [history EXCEPT !.misplaced = Early]
     \/ handler' = [handler EXCEPT !.feedback = FALSE] /\ UNCHANGED history
  /\ UNCHANGED <<user, shell, parser, pass, debounce>>

-----------------------------------------------------------------------------
(* The shell (external): a key executes the line, or changes it; one that  *)
(* only moves in it may leave the report out, or the redraw too.           *)

ShellReads ==
  LET key == Head(shell.unread)
      next == shell.line + 1
  IN
  /\ shell.unread # <<>>
  /\ \/ /\ key = "enter"
        /\ \E moved \in {<<>>, <<Directory>>} :
             shell' = [shell EXCEPT
               !.unread = Tail(@),
               !.out = @ \o <<Execute>> \o moved \o <<Redraw, Report(0), Redraw>>]
     \/ /\ key = "other"
        /\ \E drawn \in {<<>>, <<Redraw>>} :
             shell' = [shell EXCEPT !.unread = Tail(@), !.out = @ \o drawn]
     \/ /\ key # "enter"
        /\ shell' = [shell EXCEPT !.unread = Tail(@), !.line = next,
                                  !.out = @ \o <<Report(next), Redraw>>]
  /\ UNCHANGED <<user, parser, handler, pass, debounce, history>>

-----------------------------------------------------------------------------
(* Task B, one pass of its loop over a piece of the shell's output.        *)

\* set_command_buffer, mark_display_dirty, clear_command_buffer, set_cwd
Applied(p, item) ==
  CASE item.kind = "report"    -> [p EXCEPT !.buffer = item.line, !.dirty = TRUE,
                                            !.pending = TRUE]
    [] item.kind = "redraw"    -> [p EXCEPT !.pending = FALSE]
    [] item.kind = "execute"   -> [p EXCEPT !.buffer = 0, !.dirty = FALSE,
                                            !.pending = FALSE]
    [] item.kind = "directory" -> [p EXCEPT !.cwdDirty = TRUE]

\* What is left of p by a piece of output (process_bytes).
Fed(p, piece) ==
  LET fed[i \in 0 .. Len(piece)] == IF i = 0 THEN p ELSE Applied(fed[i - 1], piece[i])
  IN  fed[Len(piece)]

LastOf(piece, kinds) == SelectLastInSeq(piece, LAMBDA item : item.kind \in kinds)

ReadOutput ==
  /\ pass.at = "read"
  /\ \E size \in 1 .. Len(shell.out) :
       LET piece == SubSeq(shell.out, 1, size)
           last  == LastOf(piece, {"report", "execute"}) IN
       /\ shell' = [shell EXCEPT !.out = SubSeq(@, size + 1, Len(@))]
       /\ parser' = Fed(parser, piece)
       /\ pass' = [pass EXCEPT !.at = "clean", !.display = Redraw \in ToSet(piece)]
       /\ history' = [history EXCEPT
            !.owed = IF last = 0 THEN @ ELSE piece[last].kind = "report",
            !.predicted = @ /\ \A item \in ToSet(piece) : item.kind # "report"]
  /\ UNCHANGED <<user, handler, debounce>>

\* Mutation: a popup for the very line that is redrawn is kept.
KeepOwnPopup ==
  /\ pass.at = "clean"
  /\ pass' = [pass EXCEPT !.at = "take"]
  /\ handler' = IF /\ pass.display /\ (handler.visible \/ handler.feedback)
                   /\ handler.fingerprint # parser.buffer
                THEN Teardown(handler, TRUE) ELSE handler
  /\ UNCHANGED <<user, shell, parser, debounce, history>>

HandleTerminalOutput ==
  /\ pass.at = "clean"
  /\ pass' = [pass EXCEPT !.at = "take"]
  /\ handler' = IF pass.display /\ (handler.visible \/ handler.feedback)
                THEN Teardown(handler, TRUE) ELSE handler
  /\ UNCHANGED <<user, shell, parser, debounce, history>>

\* take_buffer_dirty and buffer_pending_display
TakeDirty ==
  /\ pass.at = "take"
  /\ pass' = [pass EXCEPT !.at = "decide", !.dirty = parser.dirty,
                            !.pending = parser.pending]
  /\ parser' = [parser EXCEPT !.dirty = FALSE]
  /\ UNCHANGED <<user, shell, handler, debounce, history>>

\* buffer_dirty_action, but for when
BufferDirtyAction ==
  IF ~handler.auto THEN NoAction
  ELSE IF handler.requested THEN "Trigger"
  ELSE IF handler.suppressed THEN NoAction
  ELSE IF Delay THEN "Debounce" ELSE "Trigger"

\* PendingTrigger::resolve
Resolved ==
  IF handler.auto /\ (pass.stash = "Trigger" \/ ~handler.suppressed)
  THEN pass.stash ELSE NoAction

\* What the action does; an Ignore drops the report.
Do(action, h) ==
  \/ action = "Trigger" /\ Trigger(h) /\ UNCHANGED debounce
  \/ /\ action = "Debounce"
     /\ debounce' = [debounce EXCEPT !.notified = TRUE]
     /\ handler' = h /\ UNCHANGED history
  \/ /\ action = NoAction
     /\ history' = [history EXCEPT !.owed = FALSE]
     /\ handler' = h /\ UNCHANGED debounce

\* Mutation: an action does not wait for the redraw.
DecideAtOnce ==
  LET action == BufferDirtyAction IN
  /\ pass.at = "decide"
  /\ pass' = [pass EXCEPT !.at = "resolve", !.stash = IF pass.dirty THEN NoAction ELSE @]
  /\ IF pass.dirty THEN Do(action, [handler EXCEPT !.requested = FALSE])
     ELSE UNCHANGED <<handler, debounce, history>>
  /\ UNCHANGED <<user, shell, parser>>

Decide ==
  LET action == BufferDirtyAction
      defer == action # NoAction /\ pass.pending
      h == [handler EXCEPT !.requested = FALSE]
  IN
  /\ pass.at = "decide"
  /\ \/ /\ ~pass.dirty
        /\ pass' = [pass EXCEPT !.at = "resolve"]
        /\ UNCHANGED <<handler, debounce, history>>
     \/ /\ pass.dirty /\ defer
        /\ pass' = [pass EXCEPT !.at = "resolve", !.stash = action]
        /\ handler' = h /\ UNCHANGED <<debounce, history>>
     \/ /\ pass.dirty /\ ~defer
        /\ pass' = [pass EXCEPT !.at = "resolve", !.stash = NoAction]
        /\ Do(action, h)
  /\ UNCHANGED <<user, shell, parser>>

\* The stash is drained once the redraw has come, fired or not.
Resolve ==
  LET ready == pass.stash # NoAction /\ ~pass.pending IN
  /\ pass.at = "resolve"
  /\ pass' = [pass EXCEPT !.at = "chain", !.stash = IF ready THEN NoAction ELSE @]
  /\ IF ready THEN Do(Resolved, handler) ELSE UNCHANGED <<handler, debounce, history>>
  /\ UNCHANGED <<user, shell, parser>>

\* A new directory, or environment, triggers whatever the rest of the flags say.
Chain ==
  /\ pass.at = "chain"
  /\ pass' = [pass EXCEPT !.at = "read"]
  /\ parser' = [parser EXCEPT !.cwdDirty = FALSE]
  /\ IF parser.cwdDirty /\ handler.auto THEN Trigger(handler)
     ELSE UNCHANGED <<handler, history>>
  /\ UNCHANGED <<user, shell, debounce>>

-----------------------------------------------------------------------------
(* debounce_loop                                                           *)

\* The first notification, or one more while the timer runs.
Notified ==
  /\ debounce.notified /\ debounce.at \in {"wait", "timer"}
  /\ debounce' = [at |-> "timer", notified |-> FALSE]
  /\ UNCHANGED <<user, shell, parser, handler, pass, history>>

\* The timer expires, whether or not a notification comes with it.
Fire ==
  /\ debounce.at = "timer"
  /\ IF handler.suppressed \/ ~handler.auto
     THEN /\ debounce' = [debounce EXCEPT !.at = "wait"]
          /\ history' = [history EXCEPT !.owed = FALSE]
          /\ UNCHANGED handler
     ELSE /\ debounce' \in {[debounce EXCEPT !.at = at] : at \in {"wait", "block"}}
          /\ Trigger(handler)
  /\ UNCHANGED <<user, shell, parser, pass>>

\* The bounded block ends: a result, or its own timeout.
EndBlock ==
  /\ debounce.at = "block"
  /\ debounce' = [debounce EXCEPT !.at = "wait"]
  /\ UNCHANGED <<user, shell, parser, handler, pass, history>>

\* A notification ends it too, and is kept for the loop (notify_one).
SupersedeBlock ==
  /\ debounce.at = "block" /\ debounce.notified
  /\ debounce' = [debounce EXCEPT !.at = "wait"]
  /\ handler' = [handler EXCEPT !.feedback = FALSE]
  /\ UNCHANGED <<user, shell, parser, pass, history>>

-----------------------------------------------------------------------------

PassOfTaskB == ReadOutput \/ HandleTerminalOutput \/ TakeDirty \/ Decide \/ Resolve \/ Chain
DebounceLoop == Delay /\ (Notified \/ Fire \/ EndBlock \/ SupersedeBlock)

TriggerNext ==
  \/ \E key \in Keys : PressKey(key)
  \/ UpdateConfig \/ MergeDynamic \/ ShellReads
  \/ PassOfTaskB \/ DebounceLoop

\* The shell reads its input, and each task runs when it can.
TriggerSpec ==
  /\ TriggerInit /\ [][TriggerNext]_triggerVars
  /\ WF_triggerVars(ShellReads) /\ WF_triggerVars(PassOfTaskB) /\ WF_triggerVars(DebounceLoop)

-----------------------------------------------------------------------------
(* Properties.                                                             *)

\* A line the shell reports is suggested for at the cursor its redraw leaves, or
\* dropped because auto_trigger is off, triggers are suppressed or the command is
\* executed.  No interleaving of keys, pieces of output, timer and bounded block
\* loses it (PendingTrigger, notify_one).
ReportsAreAnswered == history.owed ~> ~history.owed

\* The shell has a redraw to send: of a line reported already, or of one whose key
\* it has yet to read.
RedrawToCome ==
  Redraw \in ToSet(shell.out) \/ {"char", "enter"} \cap ToSet(shell.unread) # {}

\* A popup that was placed before the redraw of its line does not outlive that
\* redraw, be the line reported or predicted for an accepted directory: Task B
\* takes it down with the piece that holds it (handle_terminal_output).
MisplacedGoes ==
  handler.visible /\ history.misplaced =>
    (pass.at = "clean" /\ pass.display) \/ (Early /\ RedrawToCome)
=============================================================================
