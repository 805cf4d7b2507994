------------------------------ MODULE ProxyProcess ------------------------------
(***************************************************************************)
(* The processes of a terminal (shell/init.zsh; crates/ghost-complete,     *)
(* main.rs; crates/gc-pty, proxy.rs and spawn.rs).  A zsh that sources     *)
(* init.zsh execs the proxy, which runs the user's shell on a PTY.  A      *)
(* proxy that cannot start execs the shell in its place; one whose shell   *)
(* or terminal is gone reaps the shell and ends.                           *)
(*                                                                         *)
(* The environment variables that keep proxies from being stacked are      *)
(* inherited by everything: subshells, editors, tmux panes.  A tty is      *)
(* named by the first process on it; a pid is not used twice.              *)
(***************************************************************************)
EXTENDS Naturals, FiniteSets

CONSTANTS
  MaxPid,    \* how many processes there will be
  Starts     \* how many tabs, panes, editor terminals and subshells the user opens

ASSUME BoundsAssumption == MaxPid \in Nat /\ Starts \in Nat

VARIABLES
  proc,      \* the processes
  shell,     \* what $SHELL is: zsh, or a wrapper that starts one
  script,    \* the installed init.zsh: current, or one that knows no fallback
  user       \* the next pid, and what the user may still open

vars == <<proc, shell, script, user>>

Pids == 1 .. MaxPid
NoPid == 0

\* pty: its tty is a PTY of a proxy; hup: it was sent SIGHUP, or its tty is gone;
\* excused: a proxy did not start on its tty, or a walk over its ancestors did not
\* complete (history only).
Gone == [prog |-> "none", at |-> "end", parent |-> NoPid, tty |-> NoPid, pty |-> FALSE,
         hup |-> FALSE, killed |-> FALSE, excused |-> FALSE, after |-> "exit",
         env |-> [tmux |-> NoPid, pane |-> NoPid, active |-> FALSE, marker |-> NoPid]]

Alive(p) == proc[p].prog # "none"
Is(p, prog, at) == proc[p].prog = prog /\ proc[p].at = at
Children(p) == {c \in Pids : proc[c].parent = p /\ Alive(c)}

Ancestors(p) ==
  LET Above[q \in Pids] == IF proc[q].parent = NoPid THEN {}
                           ELSE {proc[q].parent} \cup Above[proc[q].parent]
  IN  Above[p]

Begun(prog) == IF prog = "zsh" THEN "init" ELSE "start"

Init ==
  /\ proc = [p \in Pids |-> Gone]
  /\ shell \in {"zsh", "wrapper"}
  /\ script \in {"current", "old"}
  /\ user = [next |-> 1, left |-> Starts]

-----------------------------------------------------------------------------
(* The user and the terminals.                                             *)

Start(prog, env) == [Gone EXCEPT !.prog = prog, !.at = Begun(prog), !.env = env]

\* A child on the tty of its parent.
Fork(p, prog) ==
  [Start(prog, proc[p].env) EXCEPT !.parent = p, !.tty = proc[p].tty, !.pty = proc[p].pty,
                                   !.hup = proc[p].hup, !.excused = proc[p].excused]

\* Two bounds: the user waits until what was opened before has come up or gone, and
\* enough pids are left for all that one start may take.
Settled == \A p \in Pids : proc[p].at \in {"end", "prompt", "wait", "run"} /\ ~proc[p].hup
Room == user.left > 0 /\ Settled /\ user.next + (IF shell = "zsh" THEN 3 ELSE 7) <= MaxPid + 1

\* The environment a shell may leak: to an editor that is running already, which
\* passes it on to its terminals, and to a tmux server, for its panes.
Leaks == {proc[p].env : p \in {q \in Pids : Is(q, "zsh", "prompt")}}

\* Only tmux sets its variables, for a pane of its own.
OpenTab ==
  LET p == user.next IN
  /\ Room
  /\ \E env \in {Gone.env} \cup Leaks : \E tmux \in {env.tmux, p} :
       proc' = [proc EXCEPT ![p] = [Start(shell, [env EXCEPT !.tmux = tmux])
                                      EXCEPT !.tty = p]]
  /\ user' = [user EXCEPT !.next = @ + 1, !.left = @ - 1]
  /\ UNCHANGED <<shell, script>>

StartSubshell(p) ==
  /\ Is(p, "zsh", "prompt") /\ ~proc[p].hup /\ Children(p) = {}
  /\ Room
  /\ proc' = [proc EXCEPT ![user.next] = Fork(p, "zsh")]
  /\ user' = [user EXCEPT !.next = @ + 1, !.left = @ - 1]
  /\ UNCHANGED <<shell, script>>

CloseTab(t) ==
  /\ proc[t].tty = t /\ ~proc[t].pty /\ ~proc[t].hup
  /\ proc' = [p \in Pids |-> IF proc[p].tty = t THEN [proc[p] EXCEPT !.hup = TRUE] ELSE proc[p]]
  /\ UNCHANGED <<shell, script, user>>

\* The PTYs p holds as a proxy.
Masters(p) == {c \in Children(p) : proc[c].tty = c}

\* A process lets go of its children, and these ttys are gone.
Released(p, ttys) ==
  [q \in Pids |-> [proc[q] EXCEPT !.parent = IF @ = p THEN NoPid ELSE @,
                                  !.hup = @ \/ proc[q].tty \in ttys]]

\* The tty it leads is gone with a process.
End(p) == proc' = [Released(p, Masters(p) \cup ({proc[p].tty} \cap {p})) EXCEPT ![p] = Gone]

\* A shell is left, or hung up, or killed.
ShellExits(p) ==
  /\ proc[p].prog \in {"zsh", "wrapper"} /\ proc[p].at # "wait"
  /\ Children(p) = {} \/ proc[p].killed
  /\ End(p)
  /\ UNCHANGED <<shell, script, user>>

RunWrapper(p) ==
  /\ Is(p, "wrapper", "start") /\ ~proc[p].hup /\ user.next \in Pids
  /\ proc' = [proc EXCEPT ![p].at = "wait",
                          ![user.next] = Fork(p, "zsh")]
  /\ user' = [user EXCEPT !.next = @ + 1]
  /\ UNCHANGED <<shell, script>>

\* The wrapper's script is over.
EndWrapper(p) ==
  /\ Is(p, "wrapper", "wait") /\ Children(p) = {}
  /\ End(p)
  /\ UNCHANGED <<shell, script, user>>

-----------------------------------------------------------------------------
(* init.zsh                                                                *)

\* __ghost_complete_init, _gc_is_self_or_ancestor
IsFallback(p, unsure) ==
  proc[p].env.marker # NoPid /\ (unsure \/ proc[p].env.marker \in {p} \cup Ancestors(p))

ProxyAt(q) == q # NoPid /\ proc[q].prog = "proxy"

\* Mutation: only the parent is looked at.
BesideParent(p, unsure) ==
  proc[p].env.active /\ (unsure \/ ProxyAt(proc[p].parent))

\* Mutation: the variable counts wherever it came from.
EvenLeaked(p, unsure) == proc[p].env.active

\* _gc_ancestor_is_proxy
BelowProxy(p, unsure) ==
  proc[p].env.active /\ (unsure \/ \E q \in Ancestors(p) : ProxyAt(q))

InProxysPane(p, unsure) ==
  \/ ~unsure /\ ProxyAt(proc[p].parent)
  \/ proc[p].env.pane # NoPid /\ proc[p].env.pane = proc[p].env.tmux

\* Either of its two walks over the ancestors may not complete.
Walks == {"fallback", "proxy"}

StaysShell(p, unsure) ==
  \/ script = "current" /\ IsFallback(p, "fallback" \in unsure)
  \/ LET lost == "proxy" \in unsure
     IN  IF proc[p].env.tmux # NoPid THEN InProxysPane(p, lost) ELSE BelowProxy(p, lost)

SourceInit(p) ==
  LET was == proc[p]
      env == [was.env EXCEPT !.marker = IF script = "current" THEN NoPid ELSE @]
  IN
  /\ Is(p, "zsh", "init") /\ ~was.hup /\ ~was.killed
  /\ \E unsure \in SUBSET Walks :
       proc' = [proc EXCEPT ![p] =
                  IF StaysShell(p, unsure)
                  THEN [was EXCEPT !.at = "prompt", !.env = env,
                                   !.excused = @ \/ ~StaysShell(p, {})]
                  ELSE [was EXCEPT !.prog = "proxy", !.at = "refresh",
                                   !.env = [env EXCEPT !.active = TRUE]]]
  /\ UNCHANGED <<shell, script, user>>

-----------------------------------------------------------------------------
(* The proxy.                                                              *)

\* refresh_installed_shell_scripts_at_startup, which may fail
RefreshScripts(p) ==
  /\ Is(p, "proxy", "refresh")
  /\ script' \in {script, "current"}
  /\ proc' = [proc EXCEPT ![p].at = "start"]
  /\ UNCHANGED <<shell, user>>

\* SIGHUP before its handler is there.
HangUp(p) ==
  /\ Is(p, "proxy", "refresh") \/ Is(p, "proxy", "start")
  /\ proc[p].hup
  /\ End(p)
  /\ UNCHANGED <<shell, script, user>>

\* The proxy has not started; everything on its tty is excused.
Fail(p, at, after) ==
  proc' = [q \in Pids |->
             IF q = p THEN [proc[p] EXCEPT !.at = at, !.after = after, !.excused = TRUE]
             ELSE [proc[q] EXCEPT !.hup = @ \/ proc[q].parent = p,
                                  !.excused = @ \/ (Alive(q) /\ proc[q].tty = proc[p].tty)]]

\* The shell, unless it has exited, is sent SIGHUP.
Reap(p) ==
  proc' = [q \in Pids |-> IF q = p THEN [proc[p] EXCEPT !.at = "reap"]
                           ELSE [proc[q] EXCEPT !.hup = @ \/ proc[q].parent = p]]

\* start_proxy and run_proxy, up to the spawn
FailToStart(p) ==
  /\ Is(p, "proxy", "start")
  /\ Fail(p, "fallback", "exit")
  /\ UNCHANGED <<shell, script, user>>

\* spawn_shell
SpawnShell(p) ==
  LET c == user.next
      env == [proc[p].env EXCEPT !.active = TRUE,
                                 !.pane = IF proc[p].env.tmux # NoPid THEN proc[p].env.tmux ELSE @]
  IN
  /\ Is(p, "proxy", "start") /\ user.next \in Pids
  /\ proc' = [proc EXCEPT ![p].at = "engine", ![c] = [Start(shell, env)
                                                   EXCEPT !.parent = p, !.tty = c, !.pty = TRUE]]
  /\ user' = [user EXCEPT !.next = @ + 1]
  /\ UNCHANGED <<shell, script>>

\* Mutation: the shell is left on its PTY.
LeaveShell(p) ==
  /\ Is(p, "proxy", "engine")
  /\ Fail(p, "fallback", "exit")
  /\ UNCHANGED <<shell, script, user>>

\* The engine fails with the shell running: it is hung up and reaped.
EngineFails(p) ==
  /\ Is(p, "proxy", "engine")
  /\ Fail(p, "reap", "fallback")
  /\ UNCHANGED <<shell, script, user>>

Run(p) ==
  /\ Is(p, "proxy", "engine")
  /\ proc' = [proc EXCEPT ![p].at = "run"]
  /\ UNCHANGED <<shell, script, user>>

\* ShellExited, TerminalLost
StopRunning(p) ==
  /\ Is(p, "proxy", "run")
  /\ Children(p) = {} \/ proc[p].hup
  /\ Reap(p)
  /\ UNCHANGED <<shell, script, user>>

\* Terminated
Terminate(p) ==
  /\ Is(p, "proxy", "run")
  /\ Reap(p)
  /\ UNCHANGED <<shell, script, user>>

\* The shell's status is there, or none will come: the proxy exits or falls back.
Reaped(p) ==
  IF proc[p].after = "exit" THEN End(p)
  ELSE proc' = [Released(p, Masters(p)) EXCEPT ![p].at = "fallback", ![p].after = "exit"]

\* Mutation: a plain wait.
Wait(p) ==
  /\ Is(p, "proxy", "reap") /\ Children(p) = {}
  /\ Reaped(p)
  /\ UNCHANGED <<shell, script, user>>

\* wait_with_timeout: the shell has ended within its grace, or is killed
WaitWithTimeout(p) ==
  /\ Is(p, "proxy", "reap")
  /\ IF Children(p) = {} THEN Reaped(p)
     ELSE proc' = [q \in Pids |-> IF q = p THEN [proc[p] EXCEPT !.at = "killed"]
                                  ELSE [proc[q] EXCEPT !.killed = @ \/ proc[q].parent = p]]
  /\ UNCHANGED <<shell, script, user>>

\* The second deadline, for a shell that SIGKILL does not end.
WaitForKilled(p) ==
  /\ Is(p, "proxy", "killed")
  /\ Reaped(p)
  /\ UNCHANGED <<shell, script, user>>

\* Mutation: the shell does not learn whom it stands in for.
Unmarked(p) == [proc[p].env EXCEPT !.active = FALSE]

Marked(p) == [proc[p].env EXCEPT !.active = FALSE, !.marker = p]

\* exec_plain_shell
ExecPlainShell(p) ==
  /\ Is(p, "proxy", "fallback")
  /\ IF proc[p].env.marker # NoPid /\ proc[p].env.marker \in {p, proc[p].parent}
     THEN End(p)
     ELSE proc' = [proc EXCEPT ![p].prog = shell, ![p].at = Begun(shell),
                               ![p].env = Marked(p)]
  /\ UNCHANGED <<shell, script, user>>

-----------------------------------------------------------------------------

Proceed(p) ==
  \/ RunWrapper(p) \/ EndWrapper(p) \/ SourceInit(p)
  \/ RefreshScripts(p) \/ FailToStart(p) \/ SpawnShell(p) \/ EngineFails(p) \/ Run(p)
  \/ StopRunning(p) \/ WaitWithTimeout(p) \/ WaitForKilled(p) \/ ExecPlainShell(p)

Running == {p \in Pids : Alive(p)}

Next ==
  \/ OpenTab
  \/ \E t \in Running : CloseTab(t)
  \/ \E p \in Running : StartSubshell(p) \/ ShellExits(p) \/ HangUp(p) \/ Terminate(p) \/ Proceed(p)

\* As long as a process can go on, or a timer is running, something happens.
Spec == Init /\ [][Next]_vars /\ WF_vars(\E p \in Running : Proceed(p))

-----------------------------------------------------------------------------
(* Properties.                                                             *)

\* No proxy runs on the PTY of another: not in a subshell, not below a wrapper, not in
\* a tmux pane, whatever variables it has inherited (__ghost_complete_init).
NoStackedProxies == \A p \in Pids : proc[p].prog = "proxy" => ~proc[p].pty

\* The variables that mark a proxied pane, in a terminal that is not that pane.
HasLeakedPane(p) ==
  LET env == proc[p].env IN
  env.pane # NoPid /\ env.pane = env.tmux /\ env.tmux # proc[p].tty

\* A shell that stands at its prompt without a proxy has a reason of its own terminal:
\* a proxy failed there, or the processes could not be listed.  What has leaked from
\* another terminal is none (__ghost_complete_init, "the variable is a leak"), unless
\* it is both of the variables that mark a proxied pane: init.zsh does not ask whose
\* they are.  A new pane has its own, and a terminal that inherits one of the two is
\* not taken in.
PlainShellHasReason ==
  \A p \in Pids : Is(p, "zsh", "prompt") /\ ~proc[p].pty =>
    proc[p].excused \/ HasLeakedPane(p)

\* A shell the proxy has spawned does not outlive the proxy, nor its fallback, unless
\* SIGKILL did not end it (run_proxy, "one already spawned has been reaped").
NoShellLeftBehind ==
  \A p \in Pids : proc[p].pty /\ proc[p].tty = p /\ ~proc[p].killed =>
    ProxyAt(proc[p].parent) /\ proc[proc[p].parent].at # "fallback"

\* The shell p is at work on the tty t, behind a proxy or not.
Serves(p, t) ==
  /\ Is(p, "zsh", "prompt")
  /\ proc[p].tty = t \/ \E q \in Ancestors(p) : ProxyAt(q) /\ proc[q].tty = t

\* However often the proxy fails, once the user opens no more every tab that is still
\* there has a shell at its prompt, and no loop of proxies and shells
\* (exec_plain_shell, "would loop forever").
TabsGetShells ==
  <>[](\A t \in {proc[p].tty : p \in {q \in Pids : Alive(q) /\ ~proc[q].hup}} :
         \E p \in Pids : Serves(p, t))

\* A proxy whose terminal is gone ends, whatever its shell does (reap_shell).
ProxiesEnd == <>[](\A p \in Pids : ~(proc[p].prog = "proxy" /\ proc[p].hup))
=============================================================================
