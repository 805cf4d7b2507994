-------------------------- MODULE ProxyProcessProofs --------------------------
(***************************************************************************)
(* Proofs about ProxyProcess, however many processes there are and however *)
(* often the user opens a terminal: no proxy is stacked on another, a      *)
(* shell without a proxy has its reason, and no shell is left behind.      *)
(***************************************************************************)
EXTENDS ProxyProcess, FiniteSetTheorems, TLAPS

Ats == {"end", "init", "prompt", "start", "wait", "refresh", "engine", "run", "reap",
        "killed", "fallback"}
Envs == [tmux: 0 .. MaxPid, pane: 0 .. MaxPid, active: BOOLEAN, marker: 0 .. MaxPid]
Records == [prog: {"none", "zsh", "wrapper", "proxy"}, at: Ats, parent: 0 .. MaxPid,
            tty: 0 .. MaxPid, pty: BOOLEAN, hup: BOOLEAN, killed: BOOLEAN,
            excused: BOOLEAN, after: {"exit", "fallback"}, env: Envs]

TypeOK ==
  /\ proc \in [Pids -> Records]
  /\ shell \in {"zsh", "wrapper"}
  /\ script \in {"current", "old"}
  /\ user \in [next: 1 .. MaxPid + 1, left: Nat]

\* A pid is used once.
Fresh == \A p \in Pids : IF Alive(p) THEN p < user.next ELSE proc[p] = Gone

InPlace(p) ==
  /\ proc[p].prog = "zsh" => proc[p].at \in {"init", "prompt"}
  /\ proc[p].prog = "wrapper" => proc[p].at \in {"start", "wait"}
  /\ proc[p].prog = "proxy" => proc[p].at \in Ats \ {"end", "init", "prompt", "wait"}

Forking(q) == Is(q, "zsh", "prompt") \/ Is(q, "wrapper", "wait")
Parenting(q) == \E at \in {"engine", "run", "reap", "killed"} : Is(q, "proxy", at)

\* A process is on the tty of its parent, or leads a PTY of a proxy.
InFamily(p) ==
  LET q == proc[p].parent IN
  /\ proc[p].tty \in 1 .. p
  /\ q # NoPid => q < p /\ Alive(q)
  /\ proc[p].tty # p /\ q # NoPid =>
       Forking(q) /\ proc[q].tty = proc[p].tty /\ proc[q].pty = proc[p].pty
  /\ proc[p].tty = p /\ q # NoPid => proc[p].pty /\ Parenting(q)
  /\ proc[p].killed => proc[p].tty = p /\ proc[p].pty
  /\ proc[p].tty = p /\ proc[p].pty /\ ~proc[p].killed =>
       q # NoPid /\ proc[q].at # "killed"

\* What is inherited tells a PTY of a proxy from a terminal.
InheritsWell(p) ==
  LET env == proc[p].env IN
  /\ env.tmux = NoPid => env.pane = NoPid
  /\ proc[p].pty => env.active /\ (env.tmux # NoPid => env.pane = env.tmux)
  /\ ~proc[p].pty => env.pane # proc[p].tty
  /\ env.tmux < user.next /\ env.pane < user.next /\ env.marker < user.next
  /\ env.marker # NoPid /\ Alive(env.marker) => proc[env.marker].excused

\* An excuse is shared by all that comes after it on the tty.
SharesExcuse(p) ==
  /\ proc[p].prog = "proxy" /\ proc[p].at = "fallback" => proc[p].excused
  /\ proc[p].after = "fallback" => proc[p].excused
  /\ ~proc[p].pty /\ proc[p].parent # NoPid /\ proc[proc[p].parent].excused =>
       proc[p].excused

\* From a process on a PTY that has not been hung up the parents lead to the proxy.
IsConnected(p) ==
  proc[p].pty /\ ~proc[p].hup =>
    LET q == proc[p].parent
        t == proc[p].tty
    IN
    /\ Alive(t) /\ proc[t].tty = t /\ ProxyAt(proc[t].parent)
    /\ p # t => q # NoPid /\ (q = t \/ ~proc[q].hup)

\* The two properties, of one process.
IsExcused(p) ==
  /\ proc[p].prog = "proxy" => ~proc[p].pty
  /\ Is(p, "zsh", "prompt") /\ ~proc[p].pty => proc[p].excused \/ HasLeakedPane(p)

IsOrderly(p) ==
  /\ InPlace(p) /\ InFamily(p) /\ InheritsWell(p) /\ SharesExcuse(p) /\ IsConnected(p)
  /\ IsExcused(p)

\* The inductive invariant.
Orderly == TypeOK /\ Fresh /\ \A p \in Pids : Alive(p) => IsOrderly(p)

-----------------------------------------------------------------------------
(* Ancestors: the recursion has a solution, and what it says of it.        *)

Parents == [q \in Pids |-> proc[q].parent]

\* C holds the parent of q, of that parent, and so on.
Suits(q, C) == \A b \in C \cup {q} : proc[b].parent \in C \cup {NoPid}
Chain(q) == {a \in Pids : \A C \in SUBSET Pids : Suits(q, C) => a \in C}

LEMMA ChainStep ==
  ASSUME TypeOK, NEW q \in Pids
  PROVE  Chain(q) = IF proc[q].parent = NoPid THEN {}
                    ELSE {proc[q].parent} \cup Chain(proc[q].parent)
<1> DEFINE m == proc[q].parent
<1>1. m \in Pids \cup {NoPid}
  BY DEF TypeOK, Records, Pids, NoPid
<1>2. CASE m = NoPid
  <2>1. Suits(q, {})
    BY <1>2 DEF Suits
  <2> QED
    BY <1>2, <2>1 DEF Chain
<1>3. CASE m # NoPid
  <2>1. m \in Pids
    BY <1>1, <1>3
  <2>2. \A C \in SUBSET Pids : Suits(q, C) => m \in C /\ Suits(m, C)
    BY <1>3 DEF Suits
  <2>3. \A C \in SUBSET Pids : Suits(m, C) => Suits(q, C \cup {m})
    BY DEF Suits
  <2>4. {m} \cup Chain(m) \subseteq Chain(q)
    BY <2>1, <2>2 DEF Chain
  <2>5. ASSUME NEW a \in Chain(q), a # m, NEW C \in SUBSET Pids, Suits(m, C)
        PROVE  a \in C
    <3>1. C \cup {m} \in SUBSET Pids /\ Suits(q, C \cup {m})
      BY <2>1, <2>3, <2>5
    <3> QED
      BY <2>5, <3>1 DEF Chain
  <2>6. Chain(q) \subseteq {m} \cup Chain(m)
    BY <2>5 DEF Chain
  <2> QED
    BY <1>3, <2>4, <2>6
<1> QED
  BY <1>2, <1>3

\* The ancestors of a process are its parent and the ancestors of that.
LEMMA AncestorsStep ==
  ASSUME TypeOK, NEW p \in Pids
  PROVE  Ancestors(p) = IF proc[p].parent = NoPid THEN {}
                        ELSE {proc[p].parent} \cup Ancestors(proc[p].parent)
<1> DEFINE F(g) == [q \in Pids |-> IF proc[q].parent = NoPid THEN {}
                                   ELSE {proc[q].parent} \cup g[proc[q].parent]]
           chain == [q \in Pids |-> Chain(q)]
           above == CHOOSE g : g = F(g)
<1>1. chain = F(chain)
  <2>1. \A q \in Pids : proc[q].parent \in Pids \cup {NoPid}
    BY DEF TypeOK, Records, Pids, NoPid
  <2> QED
    BY <2>1, ChainStep
<1>2. above = F(above)
  BY <1>1
<1>3. \A q : Ancestors(q) = above[q]
  BY DEF Ancestors
<1> HIDE DEF above
<1> QED
  BY <1>2, <1>3

\* Induction over the pids, for what is true of a parent before its child.
LEMMA Smallest ==
  ASSUME NEW T \in SUBSET Nat, T # {}
  PROVE  \E m \in T : \A n \in T : m <= n
<1> DEFINE below == {0 .. n : n \in T}
<1>1. below \subseteq FiniteSubsetsOf(Nat) /\ below # {}
  <2>1. \A n \in T : 0 .. n \in SUBSET Nat /\ IsFiniteSet(0 .. n)
    BY FS_Interval
  <2> QED
    BY <2>1 DEF FiniteSubsetsOf
<1>2. PICK x \in below : \A y \in below : <<y, x>> \notin StrictSubsetOrdering(Nat)
  <2>1. IsWellFoundedOn(StrictSubsetOrdering(Nat), FiniteSubsetsOf(Nat))
    BY FS_StrictSubsetOrderingWellFounded
  <2> HIDE DEF below
  <2> QED
    BY <1>1, <2>1, WFMin
<1>3. PICK m \in T : x = 0 .. m
  OBVIOUS
<1>4. ASSUME NEW n \in T, n < m
      PROVE  FALSE
  <2>1. 0 .. n \subseteq 0 .. m /\ m \in 0 .. m /\ m \notin 0 .. n
    BY <1>4
  <2>2. <<0 .. n, 0 .. m>> \in StrictSubsetOrdering(Nat)
    BY <2>1 DEF StrictSubsetOrdering
  <2> QED
    BY <1>2, <1>3, <2>2
<1> QED
  BY <1>4

LEMMA PidsAreNumbers == Pids \in SUBSET Nat /\ NoPid \notin Pids
BY BoundsAssumption DEF Pids, NoPid

LEMMA MarkerIsPid ==
  ASSUME Orderly, NEW p \in Pids
  PROVE  proc[p].env.marker \in Pids \cup {NoPid} /\ proc[p].env.marker \in Nat
<1>1. proc[p] \in Records
  BY DEF Orderly, TypeOK
<1>2. proc[p].env.marker \in 0 .. MaxPid
  BY <1>1 DEF Records, Envs
<1> QED
  BY <1>2, BoundsAssumption DEF Pids, NoPid

\* What a process has inherited was there before the pid that is next.
LEMMA EnvIsOlder ==
  ASSUME Orderly, NEW p \in Pids, Alive(p)
  PROVE  \A new \in Nat : new >= user.next =>
           proc[p].env.tmux < new /\ proc[p].env.pane < new /\ proc[p].env.marker < new
<1>1. proc[p] \in Records /\ IsOrderly(p) /\ user.next \in Nat
  BY BoundsAssumption DEF Orderly, TypeOK
<1>2. proc[p].env.tmux \in Nat /\ proc[p].env.pane \in Nat /\ proc[p].env.marker \in Nat
  BY <1>1, BoundsAssumption DEF Records, Envs
<1> QED
  BY <1>1, <1>2 DEF IsOrderly, InheritsWell

LEMMA ParentsAreOlder ==
  ASSUME Orderly, NEW p \in Pids
  PROVE  /\ proc[p].parent \in Pids \cup {NoPid}
         /\ proc[p].parent < p /\ proc[p].parent \in Nat
<1>1. proc[p].parent \in 0 .. MaxPid
  BY DEF Orderly, TypeOK, Records
<1>2. ~Alive(p) => proc[p].parent = NoPid
  BY DEF Orderly, Fresh, Gone
<1> QED
  BY <1>1, <1>2, BoundsAssumption DEF Orderly, IsOrderly, InFamily, Pids, NoPid

\* A set that has the parent of each of its members has all their ancestors.
LEMMA AncestorsWithin ==
  ASSUME Orderly,
         NEW S \in SUBSET Pids, \A q \in S : proc[q].parent \in S \cup {NoPid},
         NEW p \in S
  PROVE  Ancestors(p) \subseteq S
<1> DEFINE T == {q \in S : ~(Ancestors(q) \subseteq S)}
<1> SUFFICES ASSUME T # {} PROVE FALSE
  OBVIOUS
<1>1. T \in SUBSET Nat
  BY PidsAreNumbers
<1>2. PICK m \in T : \A n \in T : m <= n
  <2> HIDE DEF T
  <2> QED
    BY <1>1, Smallest
<1>3. proc[m].parent \in Pids /\ proc[m].parent < m
      /\ Ancestors(m) = {proc[m].parent} \cup Ancestors(proc[m].parent)
  BY AncestorsStep, ParentsAreOlder DEF Orderly
<1>4. proc[m].parent \in T
  BY <1>3, BoundsAssumption DEF NoPid, Pids
<1> QED
  BY <1>1, <1>2, <1>3, <1>4

\* From a process that has not been hung up the parents lead to the leader of its PTY,
\* and from there to the proxy.
LEMMA ProxyIsAncestor ==
  ASSUME Orderly, NEW p \in Pids, Alive(p), proc[p].pty, ~proc[p].hup
  PROVE  \E q \in Ancestors(p) : ProxyAt(q)
<1> DEFINE T == {q \in Pids : /\ Alive(q) /\ proc[q].pty /\ ~proc[q].hup
                              /\ \A a \in Ancestors(q) : ~ProxyAt(a)}
<1> SUFFICES ASSUME T # {} PROVE FALSE
  OBVIOUS
<1>1. T \in SUBSET Nat
  BY PidsAreNumbers
<1>2. PICK m \in T : \A n \in T : m <= n
  <2> HIDE DEF T
  <2> QED
    BY <1>1, Smallest
<1> DEFINE q == proc[m].parent
           t == proc[m].tty
<1>3. /\ TypeOK
      /\ t \in Pids /\ ProxyAt(proc[t].parent)
      /\ m # t => q # NoPid /\ (q = t \/ ~proc[q].hup)
  BY <1>2, BoundsAssumption DEF Orderly, IsOrderly, IsConnected, InFamily, Pids
<1>4. q \in Pids \cup {NoPid} /\ q < m
  BY <1>3, ParentsAreOlder
<1>5. Ancestors(m) = IF q = NoPid THEN {} ELSE {q} \cup Ancestors(q)
  BY <1>3, AncestorsStep
<1>6. CASE t = m
  BY <1>2, <1>3, <1>5, <1>6 DEF ProxyAt
<1>7. CASE t # m /\ q = t
  <2>1. proc[t].parent \in Ancestors(t)
    BY <1>3, AncestorsStep DEF ProxyAt
  <2> QED
    BY <1>2, <1>3, <1>5, <1>7, <2>1
<1>8. CASE t # m /\ q # t
  <2>1. Alive(q) /\ proc[q].pty /\ ~proc[q].hup
    BY <1>2, <1>3, <1>8 DEF Orderly, IsOrderly, InFamily
  <2>2. q \in T
    BY <1>2, <1>3, <1>4, <1>5, <1>8, <2>1
  <2> QED
    BY <1>1, <1>2, <1>4, <2>2
<1> QED
  BY <1>6, <1>7, <1>8

-----------------------------------------------------------------------------
(* Every action keeps the invariant.                                       *)

LEMMA GoneIsRecord == Gone \in Records /\ Gone.prog = "none"
BY BoundsAssumption DEF Gone, Records, Envs, Ats, NoPid

LEMMA InitOrderly == Init => Orderly
<1> SUFFICES ASSUME Init PROVE Orderly
  OBVIOUS
<1>1. \A p \in Pids : proc[p] = Gone /\ ~Alive(p)
  BY GoneIsRecord DEF Init, Alive
<1>2. TypeOK
  BY GoneIsRecord, BoundsAssumption DEF Init, TypeOK
<1> QED
  BY <1>1, <1>2 DEF Orderly, Fresh

\* A process that is started, alone or below another.
Started(new) ==
  /\ new \in Records /\ new.at = Begun(new.prog) /\ new.prog \in {"zsh", "wrapper"}
  /\ ~new.killed /\ new.after = "exit"

LEMMA StartRecord ==
  ASSUME NEW prog \in {"zsh", "wrapper"}, NEW env \in Envs
  PROVE  /\ Started(Start(prog, env))
         /\ Start(prog, env).prog = prog /\ Start(prog, env).env = env
         /\ ~Start(prog, env).pty /\ ~Start(prog, env).hup /\ ~Start(prog, env).excused
         /\ Start(prog, env).parent = NoPid
BY GoneIsRecord DEF Start, Started, Begun, Records, Gone, Ats, Envs

LEMMA ForkRecord ==
  ASSUME TypeOK, NEW p \in Pids, NEW prog \in {"zsh", "wrapper"}
  PROVE  /\ Started(Fork(p, prog))
         /\ Fork(p, prog).prog = prog /\ Fork(p, prog).env = proc[p].env
         /\ Fork(p, prog).parent = p /\ Fork(p, prog).tty = proc[p].tty
         /\ Fork(p, prog).pty = proc[p].pty /\ Fork(p, prog).hup = proc[p].hup
         /\ Fork(p, prog).excused = proc[p].excused
<1> DEFINE new == Start(prog, proc[p].env)
<1>1. proc[p] \in Records /\ proc[p].env \in Envs /\ p \in 0 .. MaxPid
  BY DEF TypeOK, Records, Pids
<1>2. Started(new) /\ new.prog = prog /\ new.env = proc[p].env
  BY <1>1, StartRecord
<1>3. Fork(p, prog) = [new EXCEPT !.parent = p, !.tty = proc[p].tty, !.pty = proc[p].pty,
                                  !.hup = proc[p].hup, !.excused = proc[p].excused]
  BY DEF Fork
<1> HIDE DEF new
<1> QED
  BY <1>1, <1>2, <1>3 DEF Records, Started

SameTree(p) ==
  /\ proc'[p].prog = proc[p].prog /\ proc'[p].parent = proc[p].parent
  /\ proc'[p].tty = proc[p].tty /\ proc'[p].pty = proc[p].pty /\ proc'[p].env = proc[p].env

\* A proxy goes on.
GoesOn(p) ==
  /\ proc[p].prog = "proxy" /\ proc'[p].at \in Ats \ {"end", "init", "prompt", "wait"}
  /\ Parenting(p) => Parenting(p)'
  /\ proc'[p].at = "killed" => \A c \in Pids : proc[c].parent = p => proc'[c].killed
  /\ proc'[p].at = "fallback" => proc'[p].excused

\* No process begins or ends: what changes is where proxies are, and the flags.
OnlyFlags(p) ==
  /\ SameTree(p)
  /\ proc'[p].at = proc[p].at \/ GoesOn(p)
  /\ proc'[p].after = proc[p].after \/ proc'[p].after = "exit" \/ proc'[p].excused
  /\ proc[p].hup => proc'[p].hup
  /\ proc'[p].hup => \/ proc[p].hup \/ proc[p].tty = p
                     \/ \A c \in Pids : proc[c].tty = proc[p].tty => proc'[c].hup
  /\ proc[p].killed => proc'[p].killed
  /\ proc'[p].killed => proc[p].killed \/ ProxyAt(proc[p].parent)
  /\ proc[p].excused => proc'[p].excused
  /\ proc'[p].excused => proc[p].excused \/ \A c \in Pids :
       Alive(c) /\ proc[c].tty = proc[p].tty => proc'[c].excused

LEMMA FlagsKeepOrder ==
  ASSUME Orderly, TypeOK', user' = user,
         \A p \in Pids : OnlyFlags(p), \A p \in Pids : ~Alive(p) => proc'[p] = proc[p]
  PROVE  Orderly'
<1>1. Fresh'
  BY DEF Orderly, Fresh, OnlyFlags, SameTree, Alive
<1>2. \A p \in Pids : /\ Alive(p)' <=> Alive(p)
                      /\ Forking(p) => Forking(p)'
                      /\ Parenting(p) => Parenting(p)'
  BY DEF OnlyFlags, SameTree, Alive, GoesOn, Forking, Parenting, Is
<1> SUFFICES ASSUME NEW p \in Pids, Alive(p) PROVE IsOrderly(p)'
  BY <1>1, <1>2 DEF Orderly
<1> DEFINE q == proc[p].parent
           t == proc[p].tty
<1>3. /\ q \in Pids \cup {NoPid} /\ q < p /\ t \in Pids
      /\ IsOrderly(p) /\ (q # NoPid => Alive(q) /\ IsOrderly(q))
  BY ParentsAreOlder, BoundsAssumption DEF Orderly, IsOrderly, InFamily, Pids
<1>4. /\ OnlyFlags(p) /\ (q # NoPid => OnlyFlags(q)) /\ OnlyFlags(t)
  BY <1>3
<1>5. InPlace(p)'
  BY <1>3, <1>4 DEF InPlace, IsOrderly, OnlyFlags, SameTree, GoesOn
<1>6. InFamily(p)'
  <2>1. proc'[p].killed => proc[p].tty = p /\ proc[p].pty
    BY <1>3, <1>4 DEF IsOrderly, InFamily, OnlyFlags, ProxyAt, Forking, Is
  <2>2. proc[p].tty = p /\ proc[p].pty /\ ~proc'[p].killed => q # NoPid /\ proc'[q].at # "killed"
    BY <1>3, <1>4 DEF IsOrderly, InFamily, OnlyFlags, GoesOn
  <2> QED
    BY <1>2, <1>3, <1>4, <2>1, <2>2 DEF IsOrderly, InFamily, OnlyFlags, SameTree
<1>7. InheritsWell(p)'
  <2> DEFINE m == proc[p].env.marker
  <2>1. m \in Pids \cup {NoPid}
    BY MarkerIsPid
  <2>2. m # NoPid /\ Alive(m) => proc'[m].excused
    BY <1>3, <2>1 DEF IsOrderly, InheritsWell, OnlyFlags
  <2>3. proc'[p].env = proc[p].env /\ proc'[p].pty = proc[p].pty /\ proc'[p].tty = proc[p].tty
    BY <1>4 DEF OnlyFlags, SameTree
  <2>4. m # NoPid => (Alive(m)' <=> Alive(m))
    BY <1>2, <2>1, <2>3
  <2> QED
    BY <1>3, <2>2, <2>3, <2>4 DEF IsOrderly, InheritsWell
<1>8. SharesExcuse(p)'
  <2>1. ~proc[p].pty /\ q # NoPid /\ proc'[q].excused => proc'[p].excused
    BY <1>3, <1>4 DEF IsOrderly, SharesExcuse, InFamily, OnlyFlags
  <2> QED
    BY <1>3, <1>4, <2>1 DEF IsOrderly, SharesExcuse, OnlyFlags, SameTree, GoesOn
<1>9. IsConnected(p)'
  <2> SUFFICES ASSUME proc[p].pty, ~proc'[p].hup
               PROVE  /\ Alive(t)' /\ proc'[t].tty = t /\ ProxyAt(proc[t].parent)'
                      /\ p # t => q # NoPid /\ (q = t \/ ~proc'[q].hup)
    BY <1>4 DEF IsConnected, OnlyFlags, SameTree
  <2>1. /\ Alive(t) /\ proc[t].tty = t /\ ProxyAt(proc[t].parent)
        /\ p # t => q # NoPid /\ (q = t \/ ~proc[q].hup)
    BY <1>3, <1>4 DEF IsOrderly, IsConnected, OnlyFlags
  <2>2. proc[t].parent \in Pids
    BY <1>3, <2>1, ParentsAreOlder DEF ProxyAt
  <2>3. ProxyAt(proc[t].parent)'
    BY <1>4, <2>1, <2>2 DEF ProxyAt, OnlyFlags, SameTree
  <2>4. ASSUME p # t, q # t PROVE ~proc'[q].hup
    <3>1. proc[q].tty = t /\ ~proc[q].hup
      BY <1>3, <2>1, <2>4 DEF IsOrderly, InFamily
    <3> QED
      BY <1>4, <2>1, <2>4, <3>1 DEF OnlyFlags
  <2> QED
    BY <1>2, <1>3, <1>4, <2>1, <2>3, <2>4 DEF OnlyFlags, SameTree
<1>10. IsExcused(p)'
  BY <1>3, <1>4 DEF IsOrderly, IsExcused, HasLeakedPane, Is, OnlyFlags, SameTree, GoesOn
<1> QED
  BY <1>5, <1>6, <1>7, <1>8, <1>9, <1>10 DEF IsOrderly

\* A process without children becomes something else where it is.
LEMMA ChangeKeepsOrder ==
  ASSUME Orderly, TypeOK', user' = user,
         NEW p \in Pids, Alive(p), ~Forking(p), ~Parenting(p),
         \A q \in Pids \ {p} : proc'[q] = proc[q],
         /\ proc'[p].parent = proc[p].parent /\ proc'[p].tty = proc[p].tty
         /\ proc'[p].pty = proc[p].pty /\ proc'[p].hup = proc[p].hup
         /\ proc'[p].killed = proc[p].killed /\ (proc[p].excused => proc'[p].excused),
         proc'[p].prog # "none", InPlace(p)', InheritsWell(p)', SharesExcuse(p)', IsExcused(p)'
  PROVE  Orderly'
<1>1. \A q \in Pids : Alive(q)' <=> Alive(q)
  BY DEF Alive
<1>2. Fresh'
  BY <1>1 DEF Orderly, Fresh
<1>3. \A q \in Pids : Alive(q) => proc[q].parent # p
  BY PidsAreNumbers DEF Orderly, IsOrderly, InFamily
<1> SUFFICES ASSUME NEW q \in Pids, Alive(q) PROVE IsOrderly(q)'
  BY <1>1, <1>2 DEF Orderly
<1> DEFINE r == proc[q].parent
           t == proc[q].tty
<1>4. /\ r \in Pids \cup {NoPid} /\ t \in Pids /\ IsOrderly(q) /\ r # p
      /\ (r # NoPid => proc'[r] = proc[r])
  BY <1>3, ParentsAreOlder, BoundsAssumption DEF Orderly, IsOrderly, InFamily, Pids
<1>5. /\ proc'[q].parent = r /\ proc'[q].tty = t /\ proc'[q].pty = proc[q].pty
      /\ proc'[q].hup = proc[q].hup /\ proc'[q].killed = proc[q].killed
  OBVIOUS
<1>6. InPlace(q)' /\ IsExcused(q)'
  BY <1>4 DEF IsOrderly, InPlace, IsExcused, HasLeakedPane, Is
<1>7. InFamily(q)'
  BY <1>1, <1>4, <1>5 DEF IsOrderly, InFamily, Forking, Parenting, Is
<1>8. InheritsWell(q)'
  <2> SUFFICES ASSUME q # p PROVE InheritsWell(q)'
    OBVIOUS
  <2> DEFINE m == proc[q].env.marker
  <2>1. m \in Pids \cup {NoPid}
    BY MarkerIsPid
  <2> QED
    BY <1>1, <1>4, <2>1 DEF IsOrderly, InheritsWell
<1>9. SharesExcuse(q)'
  BY <1>4 DEF IsOrderly, SharesExcuse
<1>10. IsConnected(q)'
  <2> SUFFICES ASSUME proc[q].pty, ~proc[q].hup
               PROVE  /\ Alive(t)' /\ proc'[t].tty = t /\ ProxyAt(proc[t].parent)'
                      /\ q # t => r # NoPid /\ (r = t \/ ~proc'[r].hup)
    BY <1>5 DEF IsConnected
  <2>1. /\ Alive(t) /\ proc[t].tty = t /\ ProxyAt(proc[t].parent)
        /\ q # t => r # NoPid /\ (r = t \/ ~proc[r].hup)
    BY <1>4 DEF IsOrderly, IsConnected
  <2>2. proc'[t].parent = proc[t].parent /\ proc'[t].tty = t
    BY <1>4, <2>1
  <2>3. proc[t].parent \in Pids /\ proc[t].parent # p
    BY <1>3, <1>4, <2>1, ParentsAreOlder DEF ProxyAt
  <2> QED
    BY <1>1, <1>4, <2>1, <2>2, <2>3 DEF ProxyAt
<1> QED
  BY <1>6, <1>7, <1>8, <1>9, <1>10 DEF IsOrderly

\* q goes on without p, which holds or leads these ttys.
GoesOnWithout(q, p, ttys) ==
  /\ proc'[q].prog = proc[q].prog /\ proc'[q].tty = proc[q].tty /\ proc'[q].pty = proc[q].pty
  /\ proc'[q].killed = proc[q].killed /\ proc'[q].excused = proc[q].excused
  /\ proc'[q].env = proc[q].env
  /\ proc'[q].parent = IF proc[q].parent = p THEN NoPid ELSE proc[q].parent
  /\ proc'[q].hup = (proc[q].hup \/ proc[q].tty \in ttys)
  /\ IF q = p THEN proc'[q].at = "fallback" /\ proc'[q].after = "exit"
     ELSE proc'[q].at = proc[q].at /\ proc'[q].after = proc[q].after

\* A process ends, or a proxy lets its shell go and falls back.
LEMMA LeavingKeepsOrder ==
  ASSUME Orderly, TypeOK', user' = user, NEW p \in Pids, NEW ttys, Masters(p) \subseteq ttys,
         Children(p) = {} \/ proc[p].killed \/ Is(p, "proxy", "killed"),
         \/ proc'[p] = Gone /\ (proc[p].tty = p => p \in ttys)
         \/ proc[p].prog = "proxy" /\ proc[p].excused /\ GoesOnWithout(p, p, ttys),
         \A q \in Pids \ {p} : IF Alive(q) THEN GoesOnWithout(q, p, ttys)
                               ELSE proc'[q] = proc[q]
  PROVE  Orderly'
<1>1. \A q \in Pids : proc'[q].prog # "none" =>
        Alive(q) /\ GoesOnWithout(q, p, ttys) /\ (q = p => proc[p].prog = "proxy" /\ proc[p].excused)
  BY GoneIsRecord DEF Alive
<1>2. \A q \in Pids \ {p} : Alive(q)' <=> Alive(q)
  BY DEF Alive, GoesOnWithout
<1>3. Fresh'
  BY <1>1, GoneIsRecord DEF Orderly, Fresh, Alive, GoesOnWithout
<1>4. ASSUME NEW c \in Pids, Alive(c), proc[c].parent = p
      PROVE  /\ proc[c].tty = c => c \in ttys /\ proc[c].killed
             /\ proc[c].tty # c => proc[p].killed
  <2>1. c \in Children(p) /\ IsOrderly(c) /\ Alive(p) /\ IsOrderly(p)
    BY <1>4, PidsAreNumbers DEF Children, Orderly, IsOrderly, InFamily
  <2>2. CASE proc[c].tty = c
    BY <1>4, <2>1, <2>2, PidsAreNumbers
    DEF Masters, IsOrderly, InFamily, InPlace, Parenting, IsExcused, Is
  <2>3. CASE proc[c].tty # c
    BY <1>4, <2>1, <2>3, PidsAreNumbers DEF IsOrderly, InFamily, Forking, Is
  <2> QED
    BY <2>2, <2>3
<1> SUFFICES ASSUME NEW q \in Pids, Alive(q)' PROVE IsOrderly(q)'
  BY <1>3 DEF Orderly
<1> DEFINE r == proc[q].parent
           t == proc[q].tty
<1>5. /\ Alive(q) /\ IsOrderly(q) /\ GoesOnWithout(q, p, ttys)
      /\ r \in Pids \cup {NoPid} /\ r < q /\ t \in Pids
      /\ q = p => proc[p].prog = "proxy" /\ proc[p].excused
  <2>1. /\ Alive(q) /\ IsOrderly(q) /\ GoesOnWithout(q, p, ttys)
        /\ q = p => proc[p].prog = "proxy" /\ proc[p].excused
    BY <1>1 DEF Orderly, Alive
  <2>2. t \in Pids
    BY <2>1, BoundsAssumption DEF IsOrderly, InFamily, Pids
  <2> QED
    BY <2>1, <2>2, ParentsAreOlder
<1>6. r # p /\ r # NoPid => /\ Alive(r) /\ proc'[r].prog # "none"
                            /\ GoesOnWithout(r, p, ttys)
  BY <1>5 DEF IsOrderly, InFamily, GoesOnWithout, Alive
<1>7. InPlace(q)'
  BY <1>5 DEF IsOrderly, InPlace, Ats, GoesOnWithout
<1>8. InFamily(q)'
  <2>1. CASE r = p
    BY <1>4, <1>5, <2>1 DEF IsOrderly, InFamily, GoesOnWithout
  <2>2. CASE r # p
    BY <1>5, <1>6, <2>2 DEF IsOrderly, InFamily, Forking, Parenting, Is, GoesOnWithout, Alive
  <2> QED
    BY <2>1, <2>2
<1>9. InheritsWell(q)'
  <2> DEFINE m == proc[q].env.marker
  <2>1. m \in Pids \cup {NoPid}
    BY MarkerIsPid
  <2>2. m # NoPid /\ proc'[m].prog # "none" => proc'[m].excused
    <3>1. m # NoPid /\ proc'[m].prog # "none" => Alive(m) /\ GoesOnWithout(m, p, ttys)
      BY <1>1, <2>1
    <3> QED
      BY <1>5, <3>1 DEF IsOrderly, InheritsWell, GoesOnWithout
  <2>3. proc'[q].env = proc[q].env /\ proc'[q].pty = proc[q].pty /\ proc'[q].tty = proc[q].tty
    BY <1>5 DEF GoesOnWithout
  <2> QED
    BY <1>5, <2>2, <2>3 DEF IsOrderly, InheritsWell, Alive
<1>10. SharesExcuse(q)'
  BY <1>5, <1>6 DEF IsOrderly, SharesExcuse, GoesOnWithout
<1>11. IsConnected(q)'
  <2> SUFFICES ASSUME proc[q].pty, ~proc[q].hup, t \notin ttys
               PROVE  /\ proc'[t].prog # "none" /\ proc'[t].tty = t
                      /\ proc'[t].parent # NoPid /\ proc'[proc'[t].parent].prog = "proxy"
                      /\ q # t => proc'[q].parent # NoPid
                                  /\ (proc'[q].parent = t \/ ~proc'[proc'[q].parent].hup)
    BY <1>5 DEF IsConnected, GoesOnWithout, Alive, ProxyAt
  <2>1. /\ Alive(t) /\ proc[t].tty = t /\ ProxyAt(proc[t].parent)
        /\ q # t => r # NoPid /\ (r = t \/ ~proc[r].hup)
    BY <1>5 DEF IsOrderly, IsConnected
  <2>2. proc[t].parent \in Pids /\ proc[t].parent # p
    BY <1>4, <1>5, <2>1, ParentsAreOlder DEF ProxyAt
  <2>3. t # p
    <3> SUFFICES ASSUME t = p PROVE FALSE
      OBVIOUS
    <3>1. proc[p].prog = "proxy"
      BY <2>1
    <3>2. proc[p].pty
      BY <1>5, <2>1 DEF Orderly, IsOrderly, InFamily, ProxyAt
    <3> QED
      BY <2>1, <3>1, <3>2 DEF Orderly, IsOrderly, IsExcused
  <2>4. /\ proc'[t].prog # "none" /\ proc'[t].tty = t
        /\ proc'[t].parent # NoPid /\ proc'[proc'[t].parent].prog = "proxy"
    <3>1. GoesOnWithout(t, p, ttys)
      BY <1>5, <2>1, <2>3
    <3>2. GoesOnWithout(proc[t].parent, p, ttys)
      BY <2>1, <2>2 DEF Alive, ProxyAt
    <3>3. proc'[t].parent = proc[t].parent
      BY <2>2, <3>1 DEF GoesOnWithout
    <3>4. proc'[proc[t].parent].prog = "proxy" /\ proc[t].parent # NoPid
      BY <2>1, <3>2 DEF GoesOnWithout, ProxyAt
    <3> QED
      BY <2>1, <3>1, <3>3, <3>4 DEF GoesOnWithout, Alive
  <2>5. ASSUME q # t PROVE r # p /\ r # NoPid /\ (r = t \/ ~proc'[r].hup)
    <3>1. r # NoPid /\ proc[r].tty = t /\ proc[r].pty
      BY <1>5, <2>1, <2>5 DEF IsOrderly, InFamily
    <3>2. r # p
      BY <1>4, <1>5, <2>3, <2>5, <3>1 DEF Orderly, IsOrderly, InFamily
    <3> QED
      BY <1>6, <2>1, <2>5, <3>1, <3>2 DEF GoesOnWithout
  <2>6. proc'[q].parent = IF r = p THEN NoPid ELSE r
    BY <1>5 DEF GoesOnWithout
  <2> QED
    BY <2>4, <2>5, <2>6
<1>12. IsExcused(q)'
  BY <1>5 DEF IsOrderly, IsExcused, HasLeakedPane, Is, GoesOnWithout
<1> QED
  BY <1>7, <1>8, <1>9, <1>10, <1>11, <1>12 DEF IsOrderly

\* q has a process started below it, or has nothing to do with that.
AtMostForks(q) ==
  /\ SameTree(q)
  /\ proc'[q].hup = proc[q].hup /\ proc'[q].killed = proc[q].killed
  /\ proc'[q].excused = proc[q].excused /\ proc'[q].after = proc[q].after
  /\ \/ proc'[q].at = proc[q].at
     \/ Is(q, "wrapper", "start") /\ proc'[q].at = "wait"
     \/ Is(q, "proxy", "start") /\ proc'[q].at = "engine"

\* A process begins with the next pid.
LEMMA BirthKeepsOrder ==
  ASSUME Orderly, TypeOK', NEW c \in Pids, c = user.next, user'.next = c + 1,
         \A q \in Pids \ {c} : IF Alive(q) THEN AtMostForks(q) ELSE proc'[q] = proc[q],
         proc'[c].prog # "none", IsOrderly(c)'
  PROVE  Orderly'
<1>1. c \in Nat /\ proc[c].prog = "none"
  BY PidsAreNumbers DEF Orderly, Fresh, Alive
<1>2. \A q \in Pids : Alive(q) => q # c /\ AtMostForks(q) /\ proc'[q].prog # "none"
  BY <1>1 DEF Alive, AtMostForks, SameTree
<1>3. \A q \in Pids \ {c} : proc'[q].prog # "none" => Alive(q)
  BY DEF Alive
<1>4. Fresh'
  BY <1>1, <1>2, <1>3, PidsAreNumbers DEF Orderly, Fresh, Alive
<1> SUFFICES ASSUME NEW q \in Pids, Alive(q), q # c PROVE IsOrderly(q)'
  BY <1>3, <1>4 DEF Orderly, Alive
<1> DEFINE r == proc[q].parent
           t == proc[q].tty
<1>5. IsOrderly(q) /\ AtMostForks(q)
  BY <1>2 DEF Orderly
<1>6. /\ r \in Pids \cup {NoPid} /\ r < q /\ t \in Pids
      /\ r # NoPid => Alive(r) /\ AtMostForks(r) /\ proc'[r].prog # "none"
  <2>1. t \in Pids
    BY <1>5, BoundsAssumption DEF IsOrderly, InFamily, Pids
  <2>2. r # NoPid => Alive(r)
    BY <1>5 DEF IsOrderly, InFamily
  <2> QED
    BY <1>2, <2>1, <2>2, ParentsAreOlder
<1>7. InPlace(q)'
  BY <1>5 DEF IsOrderly, InPlace, Ats, AtMostForks, SameTree, Is
<1>8. InFamily(q)'
  <2>1. ASSUME NEW a \in Pids, AtMostForks(a)
        PROVE  (Forking(a) => Forking(a)') /\ (Parenting(a) => Parenting(a)')
    <3>1. Forking(a) \/ Parenting(a) => proc'[a].at = proc[a].at /\ proc'[a].prog = proc[a].prog
      BY <2>1 DEF Forking, Parenting, Is, AtMostForks, SameTree
    <3> QED
      BY <3>1 DEF Forking, Parenting, Is
  <2>2. proc'[q].parent = r /\ proc'[q].tty = t
    BY <1>5 DEF AtMostForks, SameTree
  <2>3. ASSUME t # q, r # NoPid
        PROVE  Forking(r)' /\ proc'[r].tty = t /\ proc'[r].pty = proc[q].pty
    <3>1. Forking(r) /\ AtMostForks(r) /\ proc[r].tty = t /\ proc[r].pty = proc[q].pty
      BY <1>5, <1>6, <2>3 DEF IsOrderly, InFamily
    <3> QED
      BY <1>6, <2>1, <2>2, <2>3, <3>1 DEF AtMostForks, SameTree
  <2>4. ASSUME t = q, r # NoPid
        PROVE  proc[q].pty /\ Parenting(r)' /\ proc'[r].at = proc[r].at
    <3>1. Parenting(r) /\ AtMostForks(r) /\ proc[q].pty
      BY <1>5, <1>6, <2>4 DEF IsOrderly, InFamily
    <3>2. proc'[r].at = proc[r].at
      BY <3>1 DEF AtMostForks, Parenting, Is
    <3> QED
      BY <1>6, <2>1, <2>2, <2>4, <3>1, <3>2
  <2>5. /\ proc'[q].parent = r /\ proc'[q].tty = t /\ proc'[q].pty = proc[q].pty
        /\ proc'[q].killed = proc[q].killed
    BY <1>5 DEF AtMostForks, SameTree
  <2>6. /\ t \in 1 .. q /\ (proc[q].killed => t = q /\ proc[q].pty)
        /\ t = q /\ proc[q].pty /\ ~proc[q].killed => r # NoPid /\ proc[r].at # "killed"
    BY <1>5 DEF IsOrderly, InFamily
  <2> QED
    BY <1>6, <2>3, <2>4, <2>5, <2>6 DEF InFamily, Alive, Forking, Parenting, Is
<1>9. InheritsWell(q)'
  <2> DEFINE m == proc[q].env.marker
  <2>1. m \in Pids \cup {NoPid}
    BY MarkerIsPid
  <2>2. m < c /\ m \in Nat
    BY <1>5, <2>1, PidsAreNumbers DEF IsOrderly, InheritsWell, NoPid
  <2>3. m # NoPid /\ proc'[m].prog # "none" => proc'[m].excused
    <3>1. m # NoPid /\ proc'[m].prog # "none" => Alive(m) /\ AtMostForks(m)
      BY <1>1, <1>2, <1>3, <2>1, <2>2
    <3> QED
      BY <1>5, <3>1 DEF IsOrderly, InheritsWell, AtMostForks
  <2>4. proc'[q].env = proc[q].env /\ proc'[q].pty = proc[q].pty /\ proc'[q].tty = proc[q].tty
    BY <1>5 DEF AtMostForks, SameTree
  <2>5. proc[q].env.tmux < user'.next /\ proc[q].env.pane < user'.next /\ m < user'.next
    BY <1>1, <1>5, EnvIsOlder
  <2> QED
    BY <1>5, <2>3, <2>4, <2>5 DEF IsOrderly, InheritsWell, Alive
<1>10. SharesExcuse(q)'
  BY <1>5, <1>6 DEF IsOrderly, SharesExcuse, AtMostForks, SameTree, Is
<1>11. IsConnected(q)'
  <2> SUFFICES ASSUME proc[q].pty, ~proc[q].hup
               PROVE  /\ proc'[t].prog # "none" /\ proc'[t].tty = t
                      /\ proc'[t].parent # NoPid /\ proc'[proc'[t].parent].prog = "proxy"
                      /\ q # t => r # NoPid /\ (r = t \/ ~proc'[r].hup)
    BY <1>5 DEF IsConnected, AtMostForks, SameTree, Alive, ProxyAt
  <2>1. /\ Alive(t) /\ proc[t].tty = t /\ ProxyAt(proc[t].parent)
        /\ q # t => r # NoPid /\ (r = t \/ ~proc[r].hup)
    BY <1>5 DEF IsOrderly, IsConnected
  <2>2. proc[t].parent \in Pids
    BY <1>6, <2>1, ParentsAreOlder DEF ProxyAt
  <2>3. AtMostForks(t) /\ AtMostForks(proc[t].parent) /\ proc'[t].prog # "none"
    BY <1>2, <1>6, <2>1, <2>2 DEF ProxyAt, Alive
  <2>4. proc'[t].parent = proc[t].parent
    BY <2>3 DEF AtMostForks, SameTree
  <2> QED
    BY <1>6, <2>1, <2>3, <2>4 DEF AtMostForks, SameTree, ProxyAt
<1>12. IsExcused(q)'
  BY <1>5 DEF IsOrderly, IsExcused, HasLeakedPane, Is, AtMostForks, SameTree
<1> QED
  BY <1>7, <1>8, <1>9, <1>10, <1>11, <1>12 DEF IsOrderly

-----------------------------------------------------------------------------
(* The actions, by what they do to the processes.                          *)

LEMMA NoChildren ==
  ASSUME Orderly, NEW p \in Pids, ~Forking(p), ~Parenting(p)
  PROVE  Children(p) = {}
BY PidsAreNumbers DEF Orderly, IsOrderly, InFamily, Children

\* What a fork has, below a shell or a wrapper.
LEMMA ForkIsOrderly ==
  ASSUME Orderly, NEW p \in Pids, Alive(p), NEW c \in Pids, c = user.next, user'.next = c + 1,
         \A q \in Pids \ {c} : IF Alive(q) THEN AtMostForks(q) ELSE proc'[q] = proc[q],
         Forking(p)', proc'[c] = Fork(p, "zsh")
  PROVE  IsOrderly(c)'
<1>1. /\ IsOrderly(p) /\ p < c /\ p # c /\ AtMostForks(p) /\ proc'[p].prog # "none"
      /\ p \in Nat /\ c \in Nat
  <2>1. IsOrderly(p) /\ p < c /\ p \in Nat /\ c \in Nat
    BY PidsAreNumbers DEF Orderly, Fresh
  <2> QED
    BY <2>1 DEF AtMostForks, SameTree, Alive
<1>2. /\ proc'[c].prog = "zsh" /\ proc'[c].at = "init" /\ proc'[c].env = proc[p].env
      /\ proc'[c].parent = p /\ proc'[c].tty = proc[p].tty
      /\ proc'[c].pty = proc[p].pty /\ proc'[c].hup = proc[p].hup /\ ~proc'[c].killed
      /\ proc'[c].excused = proc[p].excused /\ proc'[c].after = "exit"
  BY ForkRecord DEF Orderly, Started, Begun
<1>3. InPlace(c)' /\ IsExcused(c)'
  BY <1>2 DEF InPlace, IsExcused, Is
<1>4. InFamily(c)'
  <2>1. proc[p].tty \in 1 .. p
    BY <1>1 DEF IsOrderly, InFamily
  <2>2. proc'[p].tty = proc[p].tty /\ proc'[p].pty = proc[p].pty
    BY <1>1 DEF AtMostForks, SameTree
  <2>3. Forking(proc[c].parent)'
    BY <1>2
  <2> QED
    BY <1>1, <1>2, <2>1, <2>2, <2>3 DEF InFamily, Alive, NoPid
<1>5. InheritsWell(c)'
  <2> DEFINE m == proc[p].env.marker
  <2>1. m \in Pids \cup {NoPid} /\ m < c /\ m \in Nat
    BY <1>1, MarkerIsPid DEF IsOrderly, InheritsWell
  <2>2. m # NoPid /\ proc'[m].prog # "none" => proc'[m].excused
    <3>1. m # NoPid /\ proc'[m].prog # "none" => Alive(m) /\ AtMostForks(m)
      BY <1>1, <2>1, PidsAreNumbers DEF Alive
    <3> QED
      BY <1>1, <3>1 DEF IsOrderly, InheritsWell, AtMostForks
  <2>3. proc[p].env.tmux < user'.next /\ proc[p].env.pane < user'.next /\ m < user'.next
    BY <1>1, EnvIsOlder
  <2> QED
    BY <1>1, <1>2, <2>2, <2>3 DEF IsOrderly, InheritsWell, Alive
<1>6. SharesExcuse(c)'
  BY <1>1, <1>2 DEF SharesExcuse, AtMostForks
<1>7. IsConnected(c)'
  <2> DEFINE t == proc[p].tty
  <2> SUFFICES ASSUME proc[p].pty, ~proc[p].hup
               PROVE  /\ proc'[t].prog # "none" /\ proc'[t].tty = t
                      /\ proc'[t].parent # NoPid /\ proc'[proc'[t].parent].prog = "proxy"
                      /\ p # NoPid /\ ~proc'[p].hup
    BY <1>2 DEF IsConnected, Alive, ProxyAt
  <2>1. Alive(t) /\ proc[t].tty = t /\ ProxyAt(proc[t].parent)
    BY <1>1 DEF IsOrderly, IsConnected
  <2>2. t \in Pids /\ t < c /\ t \in Nat
    BY <1>1, BoundsAssumption DEF IsOrderly, InFamily, Pids
  <2>3. proc[t].parent \in Pids /\ proc[t].parent < c
    BY <1>1, <2>1, <2>2, ParentsAreOlder DEF ProxyAt
  <2>4. AtMostForks(t) /\ AtMostForks(proc[t].parent)
    <3>1. t # c /\ proc[t].parent # c /\ Alive(proc[t].parent)
      BY <1>1, <2>1, <2>2, <2>3, ParentsAreOlder DEF ProxyAt, Alive
    <3> QED
      BY <2>1, <2>2, <2>3, <3>1
  <2>5. proc'[t].parent = proc[t].parent
    BY <2>4 DEF AtMostForks, SameTree
  <2> QED
    BY <1>1, <2>1, <2>3, <2>4, <2>5, PidsAreNumbers DEF AtMostForks, SameTree, ProxyAt, Alive
<1> QED
  BY <1>3, <1>4, <1>5, <1>6, <1>7 DEF IsOrderly

\* There is a pid for what the user opens.
LEMMA RoomHasPid ==
  ASSUME TypeOK, Room
  PROVE  /\ user.next \in Pids /\ user.left - 1 \in Nat
         /\ [user EXCEPT !.next = @ + 1, !.left = @ - 1] \in [next: 1 .. MaxPid + 1, left: Nat]
         /\ [user EXCEPT !.next = @ + 1, !.left = @ - 1].next = user.next + 1
<1>1. user.next \in 1 .. MaxPid + 1 /\ user.left \in Nat /\ user.left > 0
      /\ user.next + 3 <= MaxPid + 1
  BY BoundsAssumption DEF TypeOK, Room
<1>2. user.next \in Pids /\ user.left - 1 \in Nat /\ user.next + 1 \in 1 .. MaxPid + 1
  BY <1>1, BoundsAssumption DEF Pids
<1> QED
  BY <1>2 DEF TypeOK

LEMMA OpenTabKeepsOrder ==
  ASSUME Orderly, OpenTab
  PROVE  Orderly'
<1>0. PICK c \in Pids : c = user.next
  BY RoomHasPid DEF OpenTab, Orderly
<1>1. PICK env \in {Gone.env} \cup Leaks :
        \E tmux \in {env.tmux, c} :
          proc' = [proc EXCEPT ![c] = [Start(shell, [env EXCEPT !.tmux = tmux])
                                         EXCEPT !.tty = c]]
  BY <1>0 DEF OpenTab
<1> PICK tmux \in {env.tmux, c} :
      proc' = [proc EXCEPT ![c] = [Start(shell, [env EXCEPT !.tmux = tmux]) EXCEPT !.tty = c]]
  BY <1>1
<1>2. c \in Nat /\ user'.next = c + 1 /\ user' \in [next: 1 .. MaxPid + 1, left: Nat]
  BY <1>0, RoomHasPid, PidsAreNumbers DEF OpenTab, Orderly
<1>3. /\ env \in Envs /\ env.tmux < c /\ env.pane < c /\ env.marker < c
      /\ env.tmux = NoPid => env.pane = NoPid
      /\ env.marker # NoPid /\ Alive(env.marker) => proc[env.marker].excused
  <2>1. CASE env = Gone.env
    BY <1>2, <2>1, BoundsAssumption DEF Gone, Envs, NoPid, Pids
  <2>2. CASE env \in Leaks
    <3>1. PICK p \in Pids : Is(p, "zsh", "prompt") /\ env = proc[p].env
      BY <2>2 DEF Leaks
    <3>2. Alive(p) /\ IsOrderly(p) /\ proc[p] \in Records
      BY <3>1 DEF Orderly, TypeOK, Is, Alive
    <3> QED
      BY <1>0, <1>2, <3>1, <3>2 DEF IsOrderly, InheritsWell, Records
  <2> QED
    BY <2>1, <2>2
<1> DEFINE leaked == [env EXCEPT !.tmux = tmux]
           start == Start(shell, leaked)
           new == [start EXCEPT !.tty = c]
<1>4. /\ leaked \in Envs /\ leaked.tmux = tmux /\ leaked.pane = env.pane
      /\ leaked.marker = env.marker /\ tmux \in Nat /\ tmux <= c
      /\ tmux = NoPid => env.tmux = NoPid
  <2>1. tmux \in 0 .. MaxPid /\ tmux <= c /\ (tmux = NoPid => env.tmux = NoPid)
    BY <1>2, <1>3, BoundsAssumption DEF Envs, NoPid, Pids
  <2> QED
    BY <1>3, <2>1, BoundsAssumption DEF Envs
<1>5. /\ Started(start) /\ start.prog = shell /\ start.env = leaked /\ ~start.pty
      /\ start.parent = NoPid
  <2> HIDE DEF leaked
  <2> QED
    BY <1>4, StartRecord DEF Orderly, TypeOK
<1>6. /\ new \in Records /\ new.prog = shell /\ new.at = Begun(shell) /\ new.env = leaked
      /\ ~new.pty /\ ~new.killed /\ new.parent = NoPid /\ new.tty = c /\ new.after = "exit"
  <2> HIDE DEF start
  <2> QED
    BY <1>2, <1>5 DEF Started, Records, Pids
<1> HIDE DEF leaked, start, new
<1>7. proc' = [proc EXCEPT ![c] = new]
  BY DEF new, start, leaked
<1>8. TypeOK' /\ proc'[c] = new /\ \A q \in Pids \ {c} : proc'[q] = proc[q]
  BY <1>2, <1>6, <1>7 DEF Orderly, TypeOK, OpenTab
<1>9. IsOrderly(c)'
  <2>1. InPlace(c)' /\ IsExcused(c)' /\ SharesExcuse(c)' /\ IsConnected(c)'
    <3>1. InPlace(c)' /\ IsExcused(c)'
      BY <1>6, <1>8 DEF InPlace, IsExcused, Is, Begun, Orderly, TypeOK
    <3>2. new.at # "fallback"
      BY <1>6 DEF Begun
    <3>3. SharesExcuse(c)'
      BY <1>6, <1>8, <3>2 DEF SharesExcuse
    <3>4. IsConnected(c)'
      <4>1. ~proc'[c].pty
        BY <1>6, <1>8
      <4> QED
        BY <4>1 DEF IsConnected
    <3> QED
      BY <3>1, <3>3, <3>4
  <2>2. InFamily(c)'
    <3>1. c \in 1 .. c
      <4>1. c \in Pids
        BY <1>2
      <4>2. c \in Nat /\ c >= 1
        BY <4>1, BoundsAssumption DEF Pids
      <4> QED
        BY <4>2
    <3>2. proc'[c].tty = c /\ proc'[c].parent = NoPid /\ ~proc'[c].pty /\ ~proc'[c].killed
      BY <1>6, <1>8
    <3> QED
      BY <3>1, <3>2 DEF InFamily
  <2>3. InheritsWell(c)'
    <3> DEFINE m == leaked.marker
    <3>1. m \in 0 .. MaxPid
      BY <1>4 DEF Envs
    <3>2. /\ leaked.tmux < user'.next /\ leaked.pane < user'.next /\ m < user'.next
          /\ leaked.pane # c /\ (leaked.tmux = NoPid => leaked.pane = NoPid)
      <4>1. env.tmux \in Nat /\ env.pane \in Nat /\ env.marker \in Nat
        BY <1>3, BoundsAssumption DEF Envs
      <4> QED
        BY <1>2, <1>3, <1>4, <4>1
    <3>3. m # NoPid /\ proc'[m].prog # "none" => proc'[m].excused
      BY <1>2, <1>3, <1>4, <1>8, <3>1, BoundsAssumption DEF Alive, Pids, NoPid
    <3> QED
      BY <1>2, <1>4, <1>6, <1>8, <3>2, <3>3, PidsAreNumbers DEF InheritsWell, Alive
  <2> QED
    BY <2>1, <2>2, <2>3 DEF IsOrderly
<1>10. \A q \in Pids \ {c} : IF Alive(q) THEN AtMostForks(q) ELSE proc'[q] = proc[q]
  BY <1>8 DEF AtMostForks, SameTree
<1>11. proc'[c].prog # "none"
  BY <1>6, <1>8 DEF Orderly, TypeOK
<1> QED
  BY <1>0, <1>2, <1>8, <1>9, <1>10, <1>11, BirthKeepsOrder

LEMMA StartSubshellKeepsOrder ==
  ASSUME Orderly, NEW p \in Pids, StartSubshell(p)
  PROVE  Orderly'
<1> PICK c \in Pids : c = user.next
  BY RoomHasPid DEF StartSubshell, Orderly
<1> DEFINE new == Fork(p, "zsh")
<1>1. c \in Pids /\ c \in Nat /\ user'.next = c + 1 /\ user' \in [next: 1 .. MaxPid + 1, left: Nat]
  BY RoomHasPid, PidsAreNumbers DEF StartSubshell, Orderly
<1>2. new \in Records /\ new.prog = "zsh"
  BY ForkRecord DEF Orderly, Started
<1>3. Alive(p) /\ p # c
  BY <1>1 DEF StartSubshell, Is, Alive, Orderly, Fresh
<1> HIDE DEF new
<1>4. proc' = [proc EXCEPT ![c] = new]
  BY DEF StartSubshell, new
<1>5. TypeOK' /\ proc'[c] = new /\ \A q \in Pids \ {c} : proc'[q] = proc[q]
  BY <1>1, <1>2, <1>4 DEF Orderly, TypeOK, StartSubshell
<1>6. \A q \in Pids \ {c} : IF Alive(q) THEN AtMostForks(q) ELSE proc'[q] = proc[q]
  BY <1>5 DEF AtMostForks, SameTree
<1>7. Forking(p)'
  BY <1>3, <1>5 DEF StartSubshell, Forking, Is
<1>8. IsOrderly(c)'
  BY <1>1, <1>3, <1>5, <1>6, <1>7, ForkIsOrderly DEF new
<1> QED
  BY <1>1, <1>2, <1>5, <1>6, <1>8, BirthKeepsOrder

LEMMA RunWrapperKeepsOrder ==
  ASSUME Orderly, NEW p \in Pids, RunWrapper(p)
  PROVE  Orderly'
<1> PICK c \in Pids : c = user.next
  BY DEF RunWrapper
<1> DEFINE new == Fork(p, "zsh")
           waiting == [proc[p] EXCEPT !.at = "wait"]
<1>1. c \in Pids /\ c \in Nat /\ user'.next = c + 1 /\ user' \in [next: 1 .. MaxPid + 1, left: Nat]
  BY PidsAreNumbers, BoundsAssumption DEF RunWrapper, Orderly, TypeOK, Pids
<1>2. new \in Records /\ new.prog = "zsh"
  BY ForkRecord DEF Orderly, Started
<1>3. Alive(p) /\ p # c
  BY <1>1 DEF RunWrapper, Is, Alive, Orderly, Fresh
<1>4. /\ waiting \in Records /\ waiting.prog = proc[p].prog /\ waiting.at = "wait"
      /\ waiting.parent = proc[p].parent /\ waiting.tty = proc[p].tty
      /\ waiting.pty = proc[p].pty /\ waiting.env = proc[p].env /\ waiting.hup = proc[p].hup
      /\ waiting.killed = proc[p].killed /\ waiting.excused = proc[p].excused
      /\ waiting.after = proc[p].after
  BY DEF Orderly, TypeOK, Records, Ats
<1> HIDE DEF new, waiting
<1>5. proc' = [proc EXCEPT ![p] = waiting, ![c] = new]
  BY <1>3 DEF RunWrapper, new, waiting
<1>6. TypeOK' /\ proc'[c] = new /\ proc'[p] = waiting
      /\ \A q \in Pids \ {c, p} : proc'[q] = proc[q]
  BY <1>1, <1>2, <1>3, <1>4, <1>5 DEF Orderly, TypeOK, RunWrapper
<1>7. \A q \in Pids \ {c} : IF Alive(q) THEN AtMostForks(q) ELSE proc'[q] = proc[q]
  BY <1>3, <1>4, <1>6 DEF AtMostForks, SameTree, RunWrapper
<1>8. Forking(p)'
  BY <1>4, <1>6 DEF RunWrapper, Forking, Is
<1>9. IsOrderly(c)'
  BY <1>1, <1>3, <1>6, <1>7, <1>8, ForkIsOrderly DEF new
<1> QED
  BY <1>1, <1>2, <1>6, <1>7, <1>9, BirthKeepsOrder

LEMMA SpawnShellKeepsOrder ==
  ASSUME Orderly, NEW p \in Pids, SpawnShell(p)
  PROVE  Orderly'
<1> PICK c \in Pids : c = user.next
  BY DEF SpawnShell
<1> DEFINE old == proc[p].env
           env == [old EXCEPT !.active = TRUE,
                              !.pane = IF old.tmux # NoPid THEN old.tmux ELSE @]
           start == Start(shell, env)
           new == [start EXCEPT !.parent = p, !.tty = c, !.pty = TRUE]
           serving == [proc[p] EXCEPT !.at = "engine"]
<1>1. /\ c \in Pids /\ c \in Nat /\ user'.next = c + 1
      /\ user' \in [next: 1 .. MaxPid + 1, left: Nat]
  BY PidsAreNumbers, BoundsAssumption DEF SpawnShell, Orderly, TypeOK, Pids
<1>2. Alive(p) /\ p # c /\ p < c /\ IsOrderly(p) /\ ~proc[p].pty /\ proc[p].prog = "proxy"
  BY <1>1, PidsAreNumbers DEF SpawnShell, Is, Alive, Orderly, Fresh, IsOrderly, IsExcused
<1>3. proc[p] \in Records /\ old \in Envs
  BY DEF Orderly, TypeOK, Records
<1>4. /\ env \in Envs /\ env.active /\ env.tmux = old.tmux /\ env.marker = old.marker
      /\ env.pane = IF old.tmux # NoPid THEN old.tmux ELSE old.pane
  <2> HIDE DEF old
  <2> QED
    BY <1>3 DEF Envs
<1>5. Started(start) /\ start.prog = shell /\ start.env = env
  <2> HIDE DEF env
  <2> QED
    BY <1>4, StartRecord DEF Orderly, TypeOK
<1>6. /\ new \in Records /\ new.prog = shell /\ new.at = Begun(shell) /\ new.env = env
      /\ new.pty /\ ~new.killed /\ new.parent = p /\ new.tty = c /\ new.after = "exit"
  <2>1. p \in 0 .. MaxPid /\ c \in 0 .. MaxPid
    BY DEF Pids
  <2> HIDE DEF start, env
  <2> QED
    BY <1>5, <2>1 DEF Started, Records
<1>7. /\ serving \in Records /\ serving.prog = proc[p].prog /\ serving.at = "engine"
      /\ serving.parent = proc[p].parent /\ serving.tty = proc[p].tty
      /\ serving.pty = proc[p].pty /\ serving.env = proc[p].env /\ serving.hup = proc[p].hup
      /\ serving.killed = proc[p].killed /\ serving.excused = proc[p].excused
      /\ serving.after = proc[p].after
  BY <1>3 DEF Records, Ats
<1> HIDE DEF env, start, new, serving
<1>8. proc' = [proc EXCEPT ![p] = serving, ![c] = new]
  BY <1>2 DEF SpawnShell, serving, new, start, env
<1>9. TypeOK' /\ proc'[c] = new /\ proc'[p] = serving
      /\ \A q \in Pids \ {c, p} : proc'[q] = proc[q]
  BY <1>1, <1>2, <1>6, <1>7, <1>8 DEF Orderly, TypeOK, SpawnShell
<1>10. \A q \in Pids \ {c} : IF Alive(q) THEN AtMostForks(q) ELSE proc'[q] = proc[q]
  BY <1>2, <1>7, <1>9 DEF AtMostForks, SameTree, SpawnShell
<1>11. IsOrderly(c)'
  <2>1. InPlace(c)' /\ IsExcused(c)' /\ SharesExcuse(c)'
    BY <1>6, <1>9 DEF InPlace, IsExcused, SharesExcuse, Is, Begun, Orderly, TypeOK
  <2>2. InFamily(c)'
    <3>1. c \in 1 .. c /\ p # NoPid
      BY BoundsAssumption, PidsAreNumbers DEF Pids
    <3>2. proc'[p].prog = "proxy" /\ proc'[p].at = "engine" /\ proc'[c].tty = c /\ proc'[c].pty
          /\ ~proc'[c].killed /\ proc'[c].parent = p
      BY <1>2, <1>6, <1>7, <1>9
    <3> QED
      BY <1>2, <3>1, <3>2 DEF InFamily, Alive, Parenting, Is
  <2>3. IsConnected(c)'
    BY <1>2, <1>6, <1>7, <1>9, PidsAreNumbers DEF IsConnected, Alive, ProxyAt, Orderly, TypeOK
  <2>4. InheritsWell(c)'
    <3> DEFINE m == env.marker
    <3>1. m \in Pids \cup {NoPid} /\ m < c
      BY <1>2, <1>4, MarkerIsPid DEF IsOrderly, InheritsWell
    <3>2. env.tmux < user'.next /\ env.pane < user'.next /\ m < user'.next
      BY <1>1, <1>2, <1>4, EnvIsOlder
    <3>3. m # NoPid /\ proc'[m].prog # "none" => proc'[m].excused
      <4>1. m # NoPid /\ proc'[m].prog # "none" => Alive(m) /\ AtMostForks(m)
        BY <1>1, <1>10, <3>1, PidsAreNumbers DEF Alive
      <4> QED
        BY <1>2, <1>4, <4>1 DEF IsOrderly, InheritsWell, AtMostForks
    <3>4. env.tmux = NoPid => env.pane = NoPid
      BY <1>2, <1>4 DEF IsOrderly, InheritsWell
    <3> QED
      BY <1>4, <1>6, <1>9, <3>2, <3>3, <3>4 DEF InheritsWell, Alive
  <2> QED
    BY <2>1, <2>2, <2>3, <2>4 DEF IsOrderly
<1>12. proc'[c].prog # "none"
  BY <1>6, <1>9 DEF Orderly, TypeOK
<1> QED
  BY <1>1, <1>9, <1>10, <1>11, <1>12, BirthKeepsOrder

LEMMA ReleasedFields ==
  ASSUME TypeOK, NEW p \in Pids, NEW ttys, NoPid \notin ttys
  PROVE  /\ Released(p, ttys) \in [Pids -> Records]
         /\ \A q \in Pids :
              LET new == Released(p, ttys)[q] IN
              /\ new.prog = proc[q].prog /\ new.at = proc[q].at /\ new.tty = proc[q].tty
              /\ new.pty = proc[q].pty /\ new.killed = proc[q].killed
              /\ new.excused = proc[q].excused /\ new.after = proc[q].after
              /\ new.env = proc[q].env
              /\ new.parent = IF proc[q].parent = p THEN NoPid ELSE proc[q].parent
              /\ new.hup = (proc[q].hup \/ proc[q].tty \in ttys)
              /\ proc[q] = Gone => new = Gone
<1> SUFFICES ASSUME NEW q \in Pids
             PROVE  LET new == Released(p, ttys)[q] IN
              /\ new \in Records
              /\ new.prog = proc[q].prog /\ new.at = proc[q].at /\ new.tty = proc[q].tty
              /\ new.pty = proc[q].pty /\ new.killed = proc[q].killed
              /\ new.excused = proc[q].excused /\ new.after = proc[q].after
              /\ new.env = proc[q].env
              /\ new.parent = IF proc[q].parent = p THEN NoPid ELSE proc[q].parent
              /\ new.hup = (proc[q].hup \/ proc[q].tty \in ttys)
              /\ proc[q] = Gone => new = Gone
  BY DEF Released
<1> DEFINE old == proc[q]
           parent == IF old.parent = p THEN NoPid ELSE old.parent
           hup == old.hup \/ old.tty \in ttys
           new == [old EXCEPT !.parent = parent, !.hup = hup]
<1>1. old \in Records
  BY DEF TypeOK
<1>2. parent \in 0 .. MaxPid /\ hup \in BOOLEAN
  BY <1>1, BoundsAssumption DEF Records, NoPid
<1>3. old = Gone => parent = old.parent /\ hup = old.hup
  <2>1. Gone.parent = NoPid /\ Gone.tty = NoPid /\ Gone.hup = FALSE /\ p # NoPid
    BY PidsAreNumbers DEF Gone
  <2> QED
    BY <2>1
<1>4. Released(p, ttys)[q] = new
  BY <1>1 DEF Released, Records
<1>5. /\ new \in Records
      /\ new.prog = old.prog /\ new.at = old.at /\ new.tty = old.tty
      /\ new.pty = old.pty /\ new.killed = old.killed
      /\ new.excused = old.excused /\ new.after = old.after
      /\ new.env = old.env /\ new.parent = parent /\ new.hup = hup
      /\ old = Gone => new = Gone
  <2> HIDE DEF old, parent, hup
  <2> QED
    BY <1>1, <1>2, <1>3 DEF Records
<1> HIDE DEF new
<1> QED
  BY <1>4, <1>5

\* The ttys that go with p.
LEMMA MastersArePids ==
  ASSUME NEW p \in Pids
  PROVE  NoPid \notin Masters(p) /\ NoPid \notin Masters(p) \cup ({proc[p].tty} \cap {p})
BY PidsAreNumbers DEF Masters, Children

LEMMA EndKeepsOrder ==
  ASSUME Orderly, NEW p \in Pids, Alive(p), End(p), UNCHANGED <<shell, script, user>>,
         Children(p) = {} \/ proc[p].killed \/ Is(p, "proxy", "killed")
  PROVE  Orderly'
<1> DEFINE ttys == Masters(p) \cup ({proc[p].tty} \cap {p})
           left == Released(p, ttys)
<1>1. NoPid \notin ttys /\ Masters(p) \subseteq ttys /\ (proc[p].tty = p => p \in ttys)
  BY MastersArePids
<1>2. proc' = [left EXCEPT ![p] = Gone]
  BY DEF End
<1> HIDE DEF ttys
<1>3. left \in [Pids -> Records]
  BY <1>1, ReleasedFields DEF Orderly
<1>4. proc'[p] = Gone /\ \A q \in Pids \ {p} : proc'[q] = left[q]
  <2> HIDE DEF left
  <2> QED
    BY <1>2, <1>3
<1>5. TypeOK'
  <2> HIDE DEF left
  <2> QED
    BY <1>2, <1>3, GoneIsRecord DEF Orderly, TypeOK
<1>6. ASSUME NEW q \in Pids \ {p}
      PROVE  IF Alive(q) THEN GoesOnWithout(q, p, ttys) ELSE proc'[q] = proc[q]
  <2>1. ~Alive(q) => proc[q] = Gone
    BY DEF Orderly, Fresh
  <2> QED
    BY <1>1, <1>4, <1>6, <2>1, ReleasedFields DEF GoesOnWithout, Orderly
<1> QED
  BY <1>1, <1>4, <1>5, <1>6, LeavingKeepsOrder

LEMMA ReapedKeepsOrder ==
  ASSUME Orderly, NEW p \in Pids, Reaped(p), UNCHANGED <<shell, script, user>>,
         Is(p, "proxy", "killed") \/ (Is(p, "proxy", "reap") /\ Children(p) = {})
  PROVE  Orderly'
<1>1. Alive(p) /\ proc[p].prog = "proxy" /\ proc[p] \in Records
  BY DEF Is, Alive, Orderly, TypeOK
<1>2. CASE proc[p].after = "exit"
  BY <1>1, <1>2, EndKeepsOrder DEF Reaped
<1>3. CASE proc[p].after # "exit"
  <2> DEFINE ttys == Masters(p)
             left == Released(p, ttys)
             back == [left[p] EXCEPT !.at = "fallback", !.after = "exit"]
  <2>1. NoPid \notin ttys
    BY MastersArePids
  <2>2. proc' = [left EXCEPT ![p].at = "fallback", ![p].after = "exit"]
    BY <1>3 DEF Reaped
  <2>3. left \in [Pids -> Records]
    BY <2>1, ReleasedFields DEF Orderly
  <2>4. proc[p].excused
    BY <1>1, <1>3 DEF Orderly, IsOrderly, SharesExcuse, Records
  <2>5. /\ back \in Records /\ back.prog = left[p].prog /\ back.at = "fallback"
        /\ back.tty = left[p].tty /\ back.pty = left[p].pty /\ back.killed = left[p].killed
        /\ back.excused = left[p].excused /\ back.after = "exit" /\ back.env = left[p].env
        /\ back.parent = left[p].parent /\ back.hup = left[p].hup
    <3>1. left[p] \in Records /\ "fallback" \in Ats
      BY <2>3 DEF Ats
    <3> DEFINE old == left[p]
    <3> HIDE DEF left, old
    <3>2. LET n == [old EXCEPT !.at = "fallback", !.after = "exit"] IN
          /\ old \in Records => n \in Records /\ n.at = "fallback" /\ n.after = "exit"
          /\ old \in Records => /\ n.prog = old.prog /\ n.tty = old.tty /\ n.pty = old.pty
                               /\ n.killed = old.killed /\ n.excused = old.excused
                               /\ n.env = old.env /\ n.parent = old.parent /\ n.hup = old.hup
      BY <3>1 DEF Records
    <3> QED
      BY <3>1, <3>2 DEF old
  <2>6. proc' = [left EXCEPT ![p] = back]
    <3> HIDE DEF left
    <3> QED
      BY <2>2, <2>3
  <2>7. TypeOK' /\ proc'[p] = back /\ \A q \in Pids \ {p} : proc'[q] = left[q]
    <3> HIDE DEF left, back
    <3> QED
      BY <2>3, <2>5, <2>6 DEF Orderly, TypeOK
  <2>8. GoesOnWithout(p, p, ttys)
    <3> HIDE DEF back
    <3> QED
      BY <2>1, <2>5, <2>7, ReleasedFields DEF GoesOnWithout, Orderly
  <2>9. ASSUME NEW q \in Pids \ {p}
        PROVE  IF Alive(q) THEN GoesOnWithout(q, p, ttys) ELSE proc'[q] = proc[q]
    <3>1. ~Alive(q) => proc[q] = Gone
      BY DEF Orderly, Fresh
    <3> HIDE DEF back
    <3> QED
      BY <2>1, <2>7, <2>9, <3>1, ReleasedFields DEF GoesOnWithout, Orderly
  <2> HIDE DEF ttys
  <2>10. Masters(p) \subseteq ttys
    BY DEF ttys
  <2> QED
    BY <1>1, <2>4, <2>7, <2>8, <2>9, <2>10, LeavingKeepsOrder
<1> QED
  BY <1>2, <1>3

LEMMA ShellExitsKeepsOrder == ASSUME Orderly, NEW p \in Pids, ShellExits(p) PROVE Orderly'
<1>1. Alive(p)
  BY DEF ShellExits, Alive
<1> QED
  BY <1>1, EndKeepsOrder DEF ShellExits

LEMMA EndWrapperKeepsOrder == ASSUME Orderly, NEW p \in Pids, EndWrapper(p) PROVE Orderly'
BY EndKeepsOrder DEF EndWrapper, Is, Alive

LEMMA HangUpKeepsOrder == ASSUME Orderly, NEW p \in Pids, HangUp(p) PROVE Orderly'
<1>1. Alive(p) /\ ~Forking(p) /\ ~Parenting(p)
  BY DEF HangUp, Is, Alive, Forking, Parenting
<1> QED
  BY <1>1, NoChildren, EndKeepsOrder DEF HangUp

LEMMA WaitForKilledKeepsOrder ==
  ASSUME Orderly, NEW p \in Pids, WaitForKilled(p)
  PROVE  Orderly'
<1>1. Is(p, "proxy", "killed") /\ UNCHANGED <<shell, script, user>>
  BY DEF WaitForKilled
<1>2. Reaped(p)
  BY DEF WaitForKilled
<1> QED
  BY <1>1, <1>2, ReapedKeepsOrder

LEMMA RefreshScriptsKeepsOrder ==
  ASSUME Orderly, NEW p \in Pids, RefreshScripts(p)
  PROVE  Orderly'
<1> DEFINE old == proc[p]
           new == [old EXCEPT !.at = "start"]
<1>1. old \in Records /\ old.prog = "proxy" /\ old.at = "refresh"
  BY DEF RefreshScripts, Orderly, TypeOK, Is
<1>2. /\ new \in Records /\ new.prog = old.prog /\ new.at = "start" /\ new.parent = old.parent
      /\ new.tty = old.tty /\ new.pty = old.pty /\ new.hup = old.hup
      /\ new.killed = old.killed /\ new.excused = old.excused /\ new.after = old.after
      /\ new.env = old.env
  <2> HIDE DEF old
  <2> QED
    BY <1>1 DEF Records, Ats
<1> HIDE DEF new
<1>3. proc' = [proc EXCEPT ![p] = new]
  BY DEF RefreshScripts, new
<1>4. TypeOK' /\ proc'[p] = new /\ \A q \in Pids \ {p} : proc'[q] = proc[q]
  BY <1>2, <1>3 DEF RefreshScripts, Orderly, TypeOK
<1>5. OnlyFlags(p)
  BY <1>1, <1>2, <1>4 DEF OnlyFlags, SameTree, GoesOn, Parenting, Is, Ats
<1>6. \A q \in Pids \ {p} : OnlyFlags(q)
  BY <1>4 DEF OnlyFlags, SameTree
<1>7. \A q \in Pids : ~Alive(q) => proc'[q] = proc[q]
  BY <1>1, <1>4 DEF Alive
<1> QED
  BY <1>4, <1>5, <1>6, <1>7, FlagsKeepOrder DEF RefreshScripts

LEMMA RunKeepsOrder ==
  ASSUME Orderly, NEW p \in Pids, Run(p)
  PROVE  Orderly'
<1> DEFINE old == proc[p]
           new == [old EXCEPT !.at = "run"]
<1>1. old \in Records /\ old.prog = "proxy" /\ old.at = "engine"
  BY DEF Run, Orderly, TypeOK, Is
<1>2. /\ new \in Records /\ new.prog = old.prog /\ new.at = "run" /\ new.parent = old.parent
      /\ new.tty = old.tty /\ new.pty = old.pty /\ new.hup = old.hup
      /\ new.killed = old.killed /\ new.excused = old.excused /\ new.after = old.after
      /\ new.env = old.env
  <2> HIDE DEF old
  <2> QED
    BY <1>1 DEF Records, Ats
<1> HIDE DEF new
<1>3. proc' = [proc EXCEPT ![p] = new]
  BY DEF Run, new
<1>4. TypeOK' /\ proc'[p] = new /\ \A q \in Pids \ {p} : proc'[q] = proc[q]
  BY <1>2, <1>3 DEF Run, Orderly, TypeOK
<1>5. OnlyFlags(p)
  BY <1>1, <1>2, <1>4 DEF OnlyFlags, SameTree, GoesOn, Parenting, Is, Ats
<1>6. \A q \in Pids \ {p} : OnlyFlags(q)
  BY <1>4 DEF OnlyFlags, SameTree
<1>7. \A q \in Pids : ~Alive(q) => proc'[q] = proc[q]
  BY <1>1, <1>4 DEF Alive
<1> QED
  BY <1>4, <1>5, <1>6, <1>7, FlagsKeepOrder DEF Run

LEMMA CloseTabKeepsOrder ==
  ASSUME Orderly, NEW t \in Pids, CloseTab(t)
  PROVE  Orderly'
<1> DEFINE hung(q) == [proc[q] EXCEPT !.hup = TRUE]
<1>1. \A q \in Pids : /\ proc[q] \in Records
                      /\ proc'[q] = IF proc[q].tty = t THEN hung(q) ELSE proc[q]
  BY DEF Orderly, TypeOK, CloseTab
<1>2. ASSUME NEW q \in Pids
      PROVE  /\ hung(q) \in Records /\ hung(q).prog = proc[q].prog /\ hung(q).at = proc[q].at
             /\ hung(q).parent = proc[q].parent /\ hung(q).tty = proc[q].tty
             /\ hung(q).pty = proc[q].pty /\ hung(q).hup /\ hung(q).killed = proc[q].killed
             /\ hung(q).excused = proc[q].excused /\ hung(q).after = proc[q].after
             /\ hung(q).env = proc[q].env
  BY <1>1 DEF Records
<1> HIDE DEF hung
<1>3. TypeOK'
  <2>1. proc' = [q \in Pids |-> IF proc[q].tty = t THEN hung(q) ELSE proc[q]]
    BY DEF CloseTab, hung
  <2> QED
    BY <1>1, <1>2, <2>1 DEF CloseTab, Orderly, TypeOK
<1>4. \A q \in Pids : OnlyFlags(q)
  BY <1>1, <1>2 DEF OnlyFlags, SameTree
<1>5. \A q \in Pids : ~Alive(q) => proc'[q] = proc[q]
  BY <1>1, PidsAreNumbers DEF Orderly, Fresh, Gone
<1> QED
  BY <1>3, <1>4, <1>5, FlagsKeepOrder DEF CloseTab

LEMMA DeadIsGone ==
  ASSUME Orderly, NEW q \in Pids, ~Alive(q)
  PROVE  /\ proc[q] = Gone /\ proc[q].parent = NoPid /\ proc[q].tty = NoPid
         /\ ~proc[q].hup /\ ~proc[q].killed /\ ~proc[q].excused
<1>1. proc[q] = Gone
  BY DEF Orderly, Fresh
<1> QED
  BY <1>1 DEF Gone

\* The child of a proxy leads a PTY.
LEMMA ShellLeadsPty ==
  ASSUME Orderly, NEW p \in Pids, Alive(p), proc[p].prog = "proxy", NEW c \in Pids,
         proc[c].parent = p
  PROVE  proc[c].tty = c /\ proc[c].pty /\ Alive(c) /\ Parenting(p) /\ ProxyAt(proc[c].parent)
<1>1. Alive(c) /\ p # NoPid
  BY PidsAreNumbers DEF Orderly, Fresh, Gone
<1> QED
  BY <1>1 DEF Orderly, IsOrderly, InFamily, Forking, Is, ProxyAt

LEMMA ReapKeepsOrder ==
  ASSUME Orderly, NEW p \in Pids, Is(p, "proxy", "run"), Reap(p), UNCHANGED <<shell, script, user>>
  PROVE  Orderly'
<1> DEFINE hup(q) == proc[q].hup \/ proc[q].parent = p
           new(q) == IF q = p THEN [proc[p] EXCEPT !.at = "reap"]
                     ELSE [proc[q] EXCEPT !.hup = hup(q)]
<1>1. \A q \in Pids : proc[q] \in Records /\ hup(q) \in BOOLEAN
  BY DEF Orderly, TypeOK, Records
<1>2. ASSUME NEW q \in Pids
      PROVE  /\ new(q) \in Records /\ new(q).prog = proc[q].prog
             /\ new(q).at = IF q = p THEN "reap" ELSE proc[q].at
             /\ new(q).parent = proc[q].parent /\ new(q).tty = proc[q].tty
             /\ new(q).pty = proc[q].pty /\ new(q).killed = proc[q].killed
             /\ new(q).excused = proc[q].excused /\ new(q).after = proc[q].after
             /\ new(q).env = proc[q].env
             /\ new(q).hup = IF q = p THEN proc[p].hup ELSE hup(q)
             /\ proc[q] = Gone /\ q # p /\ ~hup(q) => new(q) = Gone
  <2> HIDE DEF hup
  <2>1. CASE q = p
    BY <1>1, <2>1 DEF Records, Ats
  <2>2. CASE q # p
    BY <1>1, <2>2 DEF Records, Gone
  <2> QED
    BY <2>1, <2>2
<1>3. proc' = [q \in Pids |-> new(q)]
  BY <1>1 DEF Reap, Records
<1> HIDE DEF new
<1>4. TypeOK' /\ \A q \in Pids : proc'[q] = new(q)
  BY <1>2, <1>3 DEF Orderly, TypeOK
<1>5. \A q \in Pids : OnlyFlags(q)
  <2>1. OnlyFlags(p)
    BY <1>2, <1>4 DEF OnlyFlags, SameTree, GoesOn, Parenting, Is, Ats
  <2>2. ASSUME NEW q \in Pids \ {p} PROVE OnlyFlags(q)
    <3>1. proc[q].parent = p => proc[q].tty = q
      BY ShellLeadsPty DEF Is, Alive
    <3>2. SameTree(q) /\ proc'[q].at = proc[q].at /\ proc'[q].after = proc[q].after
      BY <1>2, <1>4, <2>2 DEF SameTree
    <3>3. /\ proc'[q].hup = hup(q) /\ proc'[q].killed = proc[q].killed
          /\ proc'[q].excused = proc[q].excused
      BY <1>2, <1>4, <2>2
    <3>4. /\ proc[q].hup => proc'[q].hup
          /\ proc'[q].hup => proc[q].hup \/ proc[q].tty = q
      BY <3>1, <3>3
    <3> QED
      BY <3>2, <3>3, <3>4 DEF OnlyFlags
  <2> QED
    BY <2>1, <2>2
<1>6. \A q \in Pids : ~Alive(q) => proc'[q] = proc[q]
  <2> SUFFICES ASSUME NEW q \in Pids, ~Alive(q) PROVE proc'[q] = proc[q]
    OBVIOUS
  <2>1. proc[q] = Gone /\ q # p /\ ~hup(q)
    BY DeadIsGone, PidsAreNumbers DEF Is, Alive
  <2> QED
    BY <1>2, <1>4, <2>1
<1> QED
  BY <1>4, <1>5, <1>6, FlagsKeepOrder

LEMMA FailKeepsOrder ==
  ASSUME Orderly, NEW p \in Pids, NEW at, NEW after \in {"exit", "fallback"}, Fail(p, at, after),
         \/ Is(p, "proxy", "start") /\ at = "fallback"
         \/ Is(p, "proxy", "engine") /\ at = "reap",
         UNCHANGED <<shell, script, user>>
  PROVE  Orderly'
<1> DEFINE hup(q) == proc[q].hup \/ proc[q].parent = p
           excused(q) == proc[q].excused \/ (Alive(q) /\ proc[q].tty = proc[p].tty)
           new(q) == IF q = p
                     THEN [proc[p] EXCEPT !.at = at, !.after = after, !.excused = TRUE]
                     ELSE [proc[q] EXCEPT !.hup = hup(q), !.excused = excused(q)]
<1>1. \A q \in Pids : proc[q] \in Records /\ hup(q) \in BOOLEAN /\ excused(q) \in BOOLEAN
  BY DEF Orderly, TypeOK, Records
<1>2. at \in Ats
  BY DEF Ats
<1>3. ASSUME NEW q \in Pids
      PROVE  /\ new(q) \in Records /\ new(q).prog = proc[q].prog
             /\ new(q).at = IF q = p THEN at ELSE proc[q].at
             /\ new(q).parent = proc[q].parent /\ new(q).tty = proc[q].tty
             /\ new(q).pty = proc[q].pty /\ new(q).killed = proc[q].killed
             /\ new(q).env = proc[q].env
             /\ new(q).after = IF q = p THEN after ELSE proc[q].after
             /\ new(q).excused = IF q = p THEN TRUE ELSE excused(q)
             /\ new(q).hup = IF q = p THEN proc[p].hup ELSE hup(q)
             /\ proc[q] = Gone /\ q # p /\ ~hup(q) /\ ~excused(q) => new(q) = Gone
  <2> HIDE DEF hup, excused
  <2>1. CASE q = p
    BY <1>1, <1>2, <2>1 DEF Records
  <2>2. CASE q # p
    <3> DEFINE old == proc[q]
               h == hup(q)
               e == excused(q)
    <3>1. old \in Records /\ h \in BOOLEAN /\ e \in BOOLEAN
      BY <1>1
    <3>2. new(q) = [old EXCEPT !.hup = h, !.excused = e]
      BY <2>2
    <3>3. ASSUME old = Gone, ~h, ~e
          PROVE  [old EXCEPT !.hup = h, !.excused = e] = Gone
      <4>1. Gone.hup = h /\ Gone.excused = e
        BY <3>1, <3>3 DEF Gone
      <4> HIDE DEF old, h, e
      <4>2. [Gone EXCEPT !.hup = h] = Gone
        BY <4>1 DEF Gone
      <4>3. [[Gone EXCEPT !.hup = h] EXCEPT !.excused = e] = Gone
        BY <4>1, <4>2 DEF Gone
      <4> QED
        BY <3>3, <4>1, <4>3
    <3>4. LET n == [old EXCEPT !.hup = h, !.excused = e] IN
          /\ n \in Records /\ n.prog = old.prog /\ n.at = old.at /\ n.parent = old.parent
          /\ n.tty = old.tty /\ n.pty = old.pty /\ n.killed = old.killed /\ n.env = old.env
          /\ n.after = old.after /\ n.excused = e /\ n.hup = h
      <4> HIDE DEF old, h, e
      <4> QED
        BY <3>1 DEF Records
    <3> HIDE DEF new
    <3> QED
      BY <2>2, <3>2, <3>3, <3>4
  <2> QED
    BY <2>1, <2>2
<1>4. proc' = [q \in Pids |-> new(q)]
  BY <1>1 DEF Fail, Records
<1> HIDE DEF new
<1>5. TypeOK' /\ \A q \in Pids : proc'[q] = new(q)
  BY <1>3, <1>4 DEF Orderly, TypeOK
<1>6. Alive(p) /\ proc[p].prog = "proxy"
  BY DEF Is, Alive
<1>7. \A q \in Pids : OnlyFlags(q)
  <2>1. \A c \in Pids : Alive(c) /\ proc[c].tty = proc[p].tty => proc'[c].excused
    BY <1>3, <1>5
  <2>2. OnlyFlags(p)
    <3>1. /\ SameTree(p) /\ proc'[p].at = at /\ proc'[p].excused
          /\ proc'[p].hup = proc[p].hup /\ proc'[p].killed = proc[p].killed
      BY <1>3, <1>5 DEF SameTree
    <3>2. Parenting(p) => Parenting(p)'
      BY <1>6, <3>1 DEF Parenting, Is, SameTree
    <3>3. GoesOn(p)
      BY <1>6, <3>1, <3>2 DEF GoesOn, Ats
    <3> QED
      BY <2>1, <3>1, <3>3 DEF OnlyFlags
  <2>3. ASSUME NEW q \in Pids \ {p} PROVE OnlyFlags(q)
    <3>1. proc[q].parent = p => proc[q].tty = q
      BY <1>6, ShellLeadsPty
    <3> QED
      <4>2. /\ SameTree(q) /\ proc'[q].at = proc[q].at /\ proc'[q].after = proc[q].after
            /\ proc'[q].killed = proc[q].killed /\ proc'[q].hup = hup(q)
            /\ proc'[q].excused = excused(q)
        <5> HIDE DEF hup, excused
        <5>1. proc'[q] = new(q) /\ q # p
          BY <1>5, <2>3
        <5>2. /\ new(q).prog = proc[q].prog /\ new(q).parent = proc[q].parent
              /\ new(q).tty = proc[q].tty /\ new(q).pty = proc[q].pty
              /\ new(q).env = proc[q].env
          BY <1>3, <2>3
        <5>3. /\ new(q).at = proc[q].at /\ new(q).after = proc[q].after
              /\ new(q).killed = proc[q].killed /\ new(q).hup = hup(q)
              /\ new(q).excused = excused(q)
          BY <1>3, <2>3
        <5> QED
          BY <5>1, <5>2, <5>3 DEF SameTree
      <4>1. proc'[q].excused => proc[q].excused \/ \A c \in Pids :
              Alive(c) /\ proc[c].tty = proc[q].tty => proc'[c].excused
        BY <2>1, <4>2
      <4> QED
        BY <3>1, <4>1, <4>2 DEF OnlyFlags
  <2> QED
    BY <2>2, <2>3
<1>8. \A q \in Pids : ~Alive(q) => proc'[q] = proc[q]
  <2> SUFFICES ASSUME NEW q \in Pids, ~Alive(q) PROVE proc'[q] = proc[q]
    OBVIOUS
  <2>1. proc[q] = Gone /\ q # p /\ ~hup(q) /\ ~excused(q)
    BY <1>6, DeadIsGone, PidsAreNumbers
  <2> QED
    BY <1>3, <1>5, <2>1
<1> QED
  BY <1>5, <1>7, <1>8, FlagsKeepOrder

LEMMA WaitWithTimeoutKeepsOrder ==
  ASSUME Orderly, NEW p \in Pids, WaitWithTimeout(p)
  PROVE  Orderly'
<1>1. CASE Children(p) = {}
  <2>1. Reaped(p) /\ Is(p, "proxy", "reap") /\ UNCHANGED <<shell, script, user>>
    BY <1>1 DEF WaitWithTimeout
  <2> QED
    BY <1>1, <2>1, ReapedKeepsOrder
<1>2. CASE Children(p) # {}
  <2> DEFINE killed(q) == proc[q].killed \/ proc[q].parent = p
             new(q) == IF q = p THEN [proc[p] EXCEPT !.at = "killed"]
                       ELSE [proc[q] EXCEPT !.killed = killed(q)]
  <2>1. \A q \in Pids : proc[q] \in Records /\ killed(q) \in BOOLEAN
    BY DEF Orderly, TypeOK, Records
  <2>2. ASSUME NEW q \in Pids
        PROVE  /\ new(q) \in Records /\ new(q).prog = proc[q].prog
               /\ new(q).at = IF q = p THEN "killed" ELSE proc[q].at
               /\ new(q).parent = proc[q].parent /\ new(q).tty = proc[q].tty
               /\ new(q).pty = proc[q].pty /\ new(q).hup = proc[q].hup
               /\ new(q).excused = proc[q].excused /\ new(q).after = proc[q].after
               /\ new(q).env = proc[q].env
               /\ new(q).killed = IF q = p THEN proc[p].killed ELSE killed(q)
               /\ proc[q] = Gone /\ q # p /\ ~killed(q) => new(q) = Gone
    <3> HIDE DEF killed
    <3>1. CASE q = p
      BY <2>1, <3>1 DEF Records, Ats
    <3>2. CASE q # p
      BY <2>1, <3>2 DEF Records, Gone
    <3> QED
      BY <3>1, <3>2
  <2>3. proc' = [q \in Pids |-> new(q)]
    BY <1>2, <2>1 DEF WaitWithTimeout, Records
  <2> HIDE DEF new
  <2>4. TypeOK' /\ \A q \in Pids : proc'[q] = new(q)
    BY <2>2, <2>3 DEF WaitWithTimeout, Orderly, TypeOK
  <2>5. Alive(p) /\ Is(p, "proxy", "reap") /\ proc[p].prog = "proxy"
    BY DEF WaitWithTimeout, Is, Alive
  <2>6. \A q \in Pids : OnlyFlags(q)
    <3>1. \A c \in Pids : proc[c].parent = p => c # p /\ ProxyAt(proc[c].parent)
      BY <2>5, ShellLeadsPty, PidsAreNumbers, ParentsAreOlder
    <3>2. OnlyFlags(p)
      <4>1. \A c \in Pids : proc[c].parent = p => proc'[c].killed
        BY <2>2, <2>4, <3>1
      <4> QED
        BY <2>2, <2>4, <2>5, <4>1 DEF OnlyFlags, SameTree, GoesOn, Parenting, Is, Ats
    <3>3. ASSUME NEW q \in Pids \ {p} PROVE OnlyFlags(q)
      <4>1. /\ SameTree(q) /\ proc'[q].at = proc[q].at /\ proc'[q].after = proc[q].after
            /\ proc'[q].hup = proc[q].hup /\ proc'[q].excused = proc[q].excused
            /\ proc'[q].killed = killed(q)
        BY <2>2, <2>4, <3>3 DEF SameTree
      <4> QED
        BY <3>1, <3>3, <4>1 DEF OnlyFlags
    <3> QED
      BY <3>2, <3>3
  <2>7. \A q \in Pids : ~Alive(q) => proc'[q] = proc[q]
    <3> SUFFICES ASSUME NEW q \in Pids, ~Alive(q) PROVE proc'[q] = proc[q]
      OBVIOUS
    <3>1. proc[q] = Gone /\ q # p /\ ~killed(q)
      BY <2>5, DeadIsGone, PidsAreNumbers
    <3> QED
      BY <2>2, <2>4, <3>1
  <2> QED
    BY <2>4, <2>6, <2>7, FlagsKeepOrder DEF WaitWithTimeout
<1> QED
  BY <1>1, <1>2

\* On the PTY of a proxy the shell stays a shell, whichever walk does not complete.
LEMMA StaysOnPty ==
  ASSUME Orderly, NEW p \in Pids, Alive(p), proc[p].pty, ~proc[p].hup, NEW unsure
  PROVE  StaysShell(p, unsure)
<1>1. IsOrderly(p)
  BY DEF Orderly
<1>2. CASE proc[p].env.tmux # NoPid
  BY <1>1, <1>2 DEF IsOrderly, InheritsWell, StaysShell, InProxysPane
<1>3. CASE proc[p].env.tmux = NoPid
  <2>1. \E q \in Ancestors(p) : ProxyAt(q)
    BY ProxyIsAncestor
  <2>2. proc[p].env.active
    BY <1>1 DEF IsOrderly, InheritsWell
  <2> QED
    BY <1>3, <2>1, <2>2 DEF StaysShell, BelowProxy
<1> QED
  BY <1>2, <1>3

\* On a terminal it stays one only for the excuse of that terminal or for the variables
\* of a pane, when the walks over its ancestors complete.
LEMMA StaysOnTerminal ==
  ASSUME Orderly, NEW p \in Pids, Is(p, "zsh", "init"), ~proc[p].pty, StaysShell(p, {})
  PROVE  proc[p].excused \/ HasLeakedPane(p)
<1> SUFFICES ASSUME ~proc[p].excused, ~HasLeakedPane(p) PROVE FALSE
  OBVIOUS
<1> DEFINE S == {q \in Pids : Alive(q) /\ ~proc[q].pty /\ ~proc[q].excused
                              /\ proc[q].prog # "proxy"}
<1>1. \A q \in S : proc[q].parent \in S \cup {NoPid}
  <2> SUFFICES ASSUME NEW q \in S, proc[q].parent # NoPid PROVE proc[q].parent \in S
    OBVIOUS
  <2>1. IsOrderly(q) /\ proc[q].parent \in Pids
    BY ParentsAreOlder DEF Orderly
  <2>2. /\ Forking(proc[q].parent) /\ Alive(proc[q].parent)
        /\ ~proc[proc[q].parent].pty
    BY <2>1 DEF IsOrderly, InFamily
  <2>3. ~proc[proc[q].parent].excused
    BY <2>1 DEF IsOrderly, SharesExcuse
  <2> QED
    BY <2>1, <2>2, <2>3 DEF Forking, Is
<1>2. p \in S
  BY DEF Is, Alive
<1>3. Ancestors(p) \subseteq S
  <2>1. S \in SUBSET Pids
    OBVIOUS
  <2> HIDE DEF S
  <2> QED
    BY <1>1, <1>2, <2>1, AncestorsWithin
<1>4. IsOrderly(p) /\ proc[p].parent \in S \cup {NoPid}
  BY <1>1, <1>2 DEF Orderly
<1>5. ~IsFallback(p, "fallback" \in {})
  BY <1>2, <1>3, <1>4 DEF IsFallback, IsOrderly, InheritsWell
<1>6. ~InProxysPane(p, "proxy" \in {}) \/ proc[p].env.tmux = NoPid
  BY <1>2, <1>4 DEF InProxysPane, ProxyAt, IsOrderly, InheritsWell, HasLeakedPane
<1>7. ~BelowProxy(p, "proxy" \in {})
  BY <1>3 DEF BelowProxy, ProxyAt
<1> QED
  BY <1>5, <1>6, <1>7 DEF StaysShell

LEMMA SourceInitKeepsOrder ==
  ASSUME Orderly, NEW p \in Pids, SourceInit(p)
  PROVE  Orderly'
<1> DEFINE old == proc[p]
           env == [old.env EXCEPT !.marker = IF script = "current" THEN NoPid ELSE @]
<1>1. /\ Is(p, "zsh", "init") /\ Alive(p) /\ ~old.hup /\ ~old.killed
      /\ UNCHANGED <<shell, script, user>>
      /\ old \in Records /\ old.env \in Envs /\ IsOrderly(p)
  BY DEF SourceInit, Is, Alive, Orderly, TypeOK, Records
<1>2. PICK unsure \in SUBSET Walks :
        proc' = [proc EXCEPT ![p] =
                   IF StaysShell(p, unsure)
                   THEN [old EXCEPT !.at = "prompt", !.env = env,
                                    !.excused = old.excused \/ ~StaysShell(p, {})]
                   ELSE [old EXCEPT !.prog = "proxy", !.at = "refresh",
                                    !.env = [env EXCEPT !.active = TRUE]]]
  BY <1>1 DEF SourceInit, Orderly, TypeOK
<1>3. /\ env \in Envs /\ env.tmux = old.env.tmux /\ env.pane = old.env.pane
      /\ env.active = old.env.active /\ env.marker \in {NoPid, old.env.marker}
  <2> DEFINE before == old.env
  <2> HIDE DEF before
  <2> SUFFICES LET e == [before EXCEPT !.marker = IF script = "current" THEN NoPid ELSE @] IN
               /\ e \in Envs /\ e.tmux = before.tmux /\ e.pane = before.pane
               /\ e.active = before.active /\ e.marker \in {NoPid, before.marker}
    BY DEF before
  <2>1. before \in Envs
    BY <1>1 DEF before
  <2> QED
    BY <2>1, BoundsAssumption DEF Envs, NoPid
<1> HIDE DEF env
<1>4. ~Forking(p) /\ ~Parenting(p)
  BY <1>1 DEF Forking, Parenting, Is
\* What p becomes, in either case.
<1>5. ASSUME NEW new \in Records, proc' = [proc EXCEPT ![p] = new],
             new.parent = old.parent, new.tty = old.tty, new.pty = old.pty, new.hup = old.hup,
             new.killed = old.killed, old.excused => new.excused, new.after = old.after,
             new.env.tmux = env.tmux, new.env.pane = env.pane, new.env.marker = env.marker,
             new.env.active \/ new.env.active = env.active,
             \/ new.prog = "zsh" /\ new.at = "prompt"
                /\ (~old.pty => new.excused \/ HasLeakedPane(p))
             \/ new.prog = "proxy" /\ new.at = "refresh" /\ ~old.pty
      PROVE  Orderly'
  <2>1. TypeOK' /\ proc'[p] = new /\ \A q \in Pids \ {p} : proc'[q] = proc[q]
    BY <1>1, <1>5 DEF Orderly, TypeOK
  <2>2. InPlace(p)' /\ IsExcused(p)' /\ new.prog # "none"
    <3>1. HasLeakedPane(p) => HasLeakedPane(p)'
      BY <1>3, <1>5, <2>1 DEF HasLeakedPane
    <3> QED
      BY <1>5, <2>1, <3>1 DEF InPlace, IsExcused, Is, Ats
  <2>3. InheritsWell(p)'
    <3> DEFINE m == new.env.marker
    <3>1. m \in Pids \cup {NoPid} /\ m < user.next
      <4>1. old.env.marker < user.next /\ 0 < user.next
        BY <1>1 DEF IsOrderly, InheritsWell, Orderly, TypeOK
      <4> QED
        BY <1>3, <1>5, <4>1, MarkerIsPid DEF NoPid
    <3>2. m # NoPid /\ proc'[m].prog # "none" => proc'[m].excused
      <4>1. m # NoPid => m = old.env.marker
        BY <1>3, <1>5
      <4>2. m # NoPid /\ Alive(m) => proc[m].excused
        BY <1>1, <4>1 DEF IsOrderly, InheritsWell
      <4> QED
        BY <1>1, <1>5, <2>1, <3>1, <4>2 DEF Alive
    <3>3. /\ new.env.tmux = NoPid => new.env.pane = NoPid
          /\ new.pty => new.env.active /\ (new.env.tmux # NoPid => new.env.pane = new.env.tmux)
          /\ ~new.pty => new.env.pane # new.tty
          /\ new.env.tmux < user.next /\ new.env.pane < user.next
      BY <1>1, <1>3, <1>5 DEF IsOrderly, InheritsWell
    <3> QED
      BY <1>1, <2>1, <3>1, <3>2, <3>3 DEF InheritsWell, Alive
  <2>4. SharesExcuse(p)'
    <3>1. /\ new.after = "fallback" => new.excused
          /\ ~new.pty /\ old.parent # NoPid /\ proc[old.parent].excused => new.excused
      BY <1>1, <1>5 DEF IsOrderly, SharesExcuse
    <3>2. old.parent # NoPid => old.parent # p /\ old.parent \in Pids
      BY ParentsAreOlder, PidsAreNumbers
    <3> QED
      BY <1>5, <2>1, <3>1, <3>2 DEF SharesExcuse
  <2> QED
    BY <1>1, <1>4, <1>5, <2>1, <2>2, <2>3, <2>4, ChangeKeepsOrder
<1>6. CASE StaysShell(p, unsure)
  <2> DEFINE excused == old.excused \/ ~StaysShell(p, {})
             new == [old EXCEPT !.at = "prompt", !.env = env, !.excused = excused]
  <2>1. proc' = [proc EXCEPT ![p] = new]
    BY <1>2, <1>6
  <2>2. /\ excused \in BOOLEAN /\ (old.excused => excused)
        /\ ~old.pty => excused \/ HasLeakedPane(p)
    BY <1>1, StaysOnTerminal DEF Records
  <2> HIDE DEF excused
  <2>3. /\ new \in Records /\ new.prog = old.prog /\ new.at = "prompt"
        /\ new.parent = old.parent /\ new.tty = old.tty /\ new.pty = old.pty
        /\ new.hup = old.hup /\ new.killed = old.killed /\ new.excused = excused
        /\ new.after = old.after /\ new.env = env
    <3> HIDE DEF old
    <3> QED
      BY <1>1, <1>3, <2>2 DEF Records, Ats
  <2> HIDE DEF new
  <2> QED
    BY <1>1, <1>5, <2>1, <2>2, <2>3 DEF Is
<1>7. CASE ~StaysShell(p, unsure)
  <2> DEFINE active == [env EXCEPT !.active = TRUE]
             new == [old EXCEPT !.prog = "proxy", !.at = "refresh", !.env = active]
  <2>1. proc' = [proc EXCEPT ![p] = new]
    BY <1>2, <1>7
  <2>2. ~old.pty
    BY <1>1, <1>7, StaysOnPty
  <2>3. /\ active \in Envs /\ active.tmux = env.tmux /\ active.pane = env.pane
        /\ active.active /\ active.marker = env.marker
    BY <1>3 DEF Envs
  <2> HIDE DEF active
  <2>4. /\ new \in Records /\ new.prog = "proxy" /\ new.at = "refresh"
        /\ new.parent = old.parent /\ new.tty = old.tty /\ new.pty = old.pty
        /\ new.hup = old.hup /\ new.killed = old.killed /\ new.excused = old.excused
        /\ new.after = old.after /\ new.env = active
    <3> HIDE DEF old
    <3> QED
      BY <1>1, <2>3 DEF Records, Ats
  <2> HIDE DEF new
  <2> QED
    BY <1>5, <2>1, <2>2, <2>3, <2>4
<1> QED
  BY <1>6, <1>7

LEMMA ExecPlainShellKeepsOrder ==
  ASSUME Orderly, NEW p \in Pids, ExecPlainShell(p)
  PROVE  Orderly'
<1> DEFINE old == proc[p]
           loops == old.env.marker # NoPid /\ old.env.marker \in {p, old.parent}
<1>1. /\ Is(p, "proxy", "fallback") /\ Alive(p) /\ ~Forking(p) /\ ~Parenting(p)
      /\ UNCHANGED <<shell, script, user>>
      /\ old \in Records /\ old.env \in Envs /\ IsOrderly(p)
  BY DEF ExecPlainShell, Is, Alive, Orderly, TypeOK, Records, Forking, Parenting
<1>2. CASE loops
  BY <1>1, <1>2, NoChildren, EndKeepsOrder DEF ExecPlainShell
<1>3. CASE ~loops
  <2> DEFINE env == Marked(p)
             new == [old EXCEPT !.prog = shell, !.at = Begun(shell), !.env = env]
  <2>1. proc' = [proc EXCEPT ![p] = new]
    BY <1>1, <1>3 DEF ExecPlainShell, Orderly, TypeOK
  <2>2. /\ env \in Envs /\ env.tmux = old.env.tmux /\ env.pane = old.env.pane /\ env.marker = p
    <3>1. p \in 0 .. MaxPid
      BY DEF Pids
    <3> QED
      BY <1>1, <3>1 DEF Marked, Envs
  <2>3. ~old.pty /\ old.excused /\ ~old.killed /\ p < user.next
    BY <1>1 DEF IsOrderly, IsExcused, SharesExcuse, InFamily, Is, Orderly, Fresh
  <2> HIDE DEF env
  <2>4. /\ new \in Records /\ new.prog = shell /\ new.at = Begun(shell)
        /\ new.parent = old.parent /\ new.tty = old.tty /\ new.pty = old.pty
        /\ new.hup = old.hup /\ new.killed = old.killed /\ new.excused = old.excused
        /\ new.after = old.after /\ new.env = env
    <3> HIDE DEF old
    <3> QED
      BY <1>1, <2>2 DEF Records, Ats, Begun, Orderly, TypeOK
  <2> HIDE DEF new
  <2>5. TypeOK' /\ proc'[p] = new /\ \A q \in Pids \ {p} : proc'[q] = proc[q]
    BY <1>1, <2>1, <2>4 DEF Orderly, TypeOK
  <2>6. InPlace(p)' /\ IsExcused(p)' /\ SharesExcuse(p)' /\ new.prog # "none"
    BY <2>3, <2>4, <2>5 DEF InPlace, IsExcused, SharesExcuse, Is, Begun, Orderly, TypeOK
  <2>7. InheritsWell(p)'
    <3>1. /\ env.tmux = NoPid => env.pane = NoPid
          /\ env.pane # old.tty /\ env.tmux < user.next /\ env.pane < user.next
      BY <1>1, <2>2, <2>3 DEF IsOrderly, InheritsWell
    <3> QED
      BY <1>1, <2>2, <2>3, <2>4, <2>5, <3>1 DEF InheritsWell
  <2> QED
    BY <1>1, <2>3, <2>4, <2>5, <2>6, <2>7, ChangeKeepsOrder
<1> QED
  BY <1>2, <1>3

LEMMA NextKeepsOrder == Orderly /\ [Next]_vars => Orderly'
<1> SUFFICES ASSUME Orderly, [Next]_vars PROVE Orderly'
  OBVIOUS
<1>1. CASE OpenTab
  BY <1>1, OpenTabKeepsOrder
<1>2. ASSUME NEW t \in Pids, CloseTab(t) PROVE Orderly'
  BY <1>2, CloseTabKeepsOrder
<1>3. ASSUME NEW p \in Pids,
             StartSubshell(p) \/ ShellExits(p) \/ HangUp(p) \/ RunWrapper(p) \/ EndWrapper(p)
             \/ SourceInit(p) \/ RefreshScripts(p) \/ SpawnShell(p)
      PROVE  Orderly'
  BY <1>3, StartSubshellKeepsOrder, ShellExitsKeepsOrder, HangUpKeepsOrder,
     RunWrapperKeepsOrder, EndWrapperKeepsOrder, SourceInitKeepsOrder,
     RefreshScriptsKeepsOrder, SpawnShellKeepsOrder
<1>4. ASSUME NEW p \in Pids, FailToStart(p) PROVE Orderly'
  BY <1>4, FailKeepsOrder DEF FailToStart
<1>5. ASSUME NEW p \in Pids, EngineFails(p) PROVE Orderly'
  BY <1>5, FailKeepsOrder DEF EngineFails
<1>6. ASSUME NEW p \in Pids, StopRunning(p) \/ Terminate(p) PROVE Orderly'
  BY <1>6, ReapKeepsOrder DEF StopRunning, Terminate
<1>7. ASSUME NEW p \in Pids,
             Run(p) \/ WaitWithTimeout(p) \/ WaitForKilled(p) \/ ExecPlainShell(p)
      PROVE  Orderly'
  BY <1>7, RunKeepsOrder, WaitWithTimeoutKeepsOrder, WaitForKilledKeepsOrder,
     ExecPlainShellKeepsOrder
<1>8. CASE UNCHANGED vars
  BY <1>8 DEF vars, Orderly, TypeOK, Fresh, IsOrderly, InPlace, InFamily, InheritsWell,
     SharesExcuse, IsConnected, IsExcused, HasLeakedPane, Forking, Parenting, Is, Alive, ProxyAt
<1> QED
  BY <1>1, <1>2, <1>3, <1>4, <1>5, <1>6, <1>7, <1>8 DEF Next, Proceed, Running

\* However many processes there are, each is where its program can be, on the tty of its
\* parent or on a PTY of its own, with what it has inherited from there: the inductive
\* invariant of the handovers in init.zsh, run_proxy and exec_plain_shell.
THEOREM SpecOrderly == Spec => []Orderly
BY InitOrderly, NextKeepsOrder, PTL DEF Spec

\* No proxy ever runs on the PTY of another, whatever variables a shell has inherited
\* from a tab, an editor or tmux, and whichever walk over the ancestors does not complete
\* (__ghost_complete_init).
THEOREM SpecNoStackedProxies == Spec => []NoStackedProxies
<1>1. Orderly => NoStackedProxies
  BY DEF Orderly, IsOrderly, IsExcused, NoStackedProxies, Alive
<1> QED
  BY <1>1, SpecOrderly, PTL

\* A shell at its prompt on a terminal, without a proxy, is there because a proxy failed on
\* that terminal or a walk over its ancestors did not complete.  Variables that have leaked
\* from other terminals are a reason only when both of those that mark a proxied pane have:
\* not one of them, not a fallback's marker, not those of a proxy outside tmux
\* (__ghost_complete_init).
THEOREM SpecPlainShellHasReason == Spec => []PlainShellHasReason
<1>1. Orderly => PlainShellHasReason
  BY DEF Orderly, IsOrderly, IsExcused, PlainShellHasReason, Alive, Is
<1> QED
  BY <1>1, SpecOrderly, PTL

\* A shell on a PTY that was not killed still has its proxy, and that one has not fallen
\* back to a plain shell (run_proxy, reap_shell).
THEOREM SpecNoShellLeftBehind == Spec => []NoShellLeftBehind
<1>1. Orderly => NoShellLeftBehind
  <2> SUFFICES ASSUME Orderly, NEW p \in Pids, proc[p].pty, proc[p].tty = p, ~proc[p].killed
               PROVE  ProxyAt(proc[p].parent) /\ proc[proc[p].parent].at # "fallback"
    BY DEF NoShellLeftBehind
  <2>1. Alive(p)
    BY DEF Orderly, Fresh, Gone
  <2>2. proc[p].parent # NoPid /\ Parenting(proc[p].parent)
    BY <2>1 DEF Orderly, IsOrderly, InFamily
  <2> QED
    BY <2>2 DEF Parenting, Is, ProxyAt
<1> QED
  BY <1>1, SpecOrderly, PTL

=============================================================================
