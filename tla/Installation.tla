------------------------------ MODULE Installation ------------------------------
(***************************************************************************)
(* What the program keeps in the user's home (crates/ghost-complete,       *)
(* install.rs and main.rs; crates/gc-suggest, mirror.rs): the shell        *)
(* scripts, the managed blocks of .zshrc and a mirror of the specs that    *)
(* the user may edit, with a stamp of what was last written to it.         *)
(*                                                                         *)
(* install and uninstall are run one at a time.  Every proxy that starts   *)
(* brings scripts and mirror up to date, and several may start together.   *)
(* Each of them may be killed, or fail, between any two steps.             *)
(*                                                                         *)
(* A hash stands for the content it was made from.  The user leaves the    *)
(* markers of the blocks alone, as their warning asks.                     *)
(***************************************************************************)
EXTENDS Naturals, Sequences, SequencesExt

CONSTANTS
  Files,     \* embedded_filenames, in order
  Body,      \* the content of each file in each release of the program
  Releases,  \* how many there are
  Scripts,   \* embedded_shell_scripts, in order
  Starts,    \* proxies that may be starting at the same time
  Lines,     \* lines the user may add to .zshrc
  Changes,   \* how often the user changes a file of the mirror
  Edit, Torn, None

ASSUME BoundsAssumption == Releases \in Nat \ {0} /\ Changes \in Nat

\* No two files have a name, and the user writes nothing that a release brings.
ASSUME ContentsAssumption ==
  /\ Files \in Seq(ToSet(Files)) /\ Scripts \in Seq(ToSet(Scripts))
  /\ \A i, j \in DOMAIN Files : Files[i] = Files[j] => i = j
  /\ \A f \in ToSet(Files), r \in 1 .. Releases : Body[f][r] \notin {Edit, Torn, None}
  /\ Edit \notin {Torn, None} /\ Torn # None

VARIABLES
  release,   \* the program that is installed now
  scripts,   \* the release each script is of, 0 for none
  rc,        \* .zshrc, in lines
  mirror,    \* the content of each spec
  stamp,     \* StampManifest, and whether the directory exists
  proc,      \* the processes: the steps they have to do, and what they have seen
  left,      \* the changes the user has left
  history    \* lines: what the user has written to .zshrc, without what was written in
             \* the moment between a read and a write; mine: the files the user changed
             \* since the program wrote them; kept: those edited on top of a stamped
             \* content, at rest, and not cut off from a stamp since; disturbed: a refresh
             \* was cut short or overlapped another

vars == <<release, scripts, rc, mirror, stamp, proc, left, history>>

Procs == Starts \cup {"command"}
Stamp(kind) == [kind |-> kind, version |-> 0, hashes |-> [f \in ToSet(Files) |-> None]]
\* parse_stamp finds a version, and may find hashes; "cut" is a stamp of that kind that
\* was not written to its end.
Parses(s) == s.kind \in {"v2", "cut"}

Ended == [does |-> "nothing", version |-> 0, plan |-> <<>>, phase |-> "look",
          stamp |-> Stamp("missing"), hashes |-> [f \in ToSet(Files) |-> None], rc |-> <<>>]

\* Which lines of the user there are, and which of two comes before the other
UserLines(content) ==
  [present |-> Lines \cap ToSet(content),
   order   |-> {pair \in Lines \X Lines : \E i, j \in DOMAIN content :
                  i < j /\ content[i] = pair[1] /\ content[j] = pair[2]}]

\* Nothing is installed, or the mirror of a release that wrote no stamp.
Init ==
  /\ release = 1
  /\ scripts = [s \in ToSet(Scripts) |-> 0]
  /\ rc = <<>>
  /\ \/ stamp = Stamp("no directory") /\ mirror = [f \in ToSet(Files) |-> None]
     \/ stamp = Stamp("missing") /\ mirror = [f \in ToSet(Files) |-> Body[f][1]]
  /\ proc = [p \in Procs |-> Ended]
  /\ left = Changes
  /\ history = [lines |-> UserLines(<<>>), mine |-> {}, kept |-> {}, disturbed |-> FALSE]

-----------------------------------------------------------------------------
(* .zshrc                                                                  *)

Marks == {"init begin", "init end", "shell begin", "shell end"}

\* The user writes no marker, and there is a script that the blocks source.
ASSUME LinesAssumption == Lines \cap Marks = {} /\ "ghost-complete.zsh" \in ToSet(Scripts)

InitBlock == <<"init begin", "init end">>
ShellBlock == <<"shell begin", "shell end">>

\* Mutation: up to the last end marker of any block.
RemoveToLast(content, block) ==
  LET from == SelectInSeq(content, LAMBDA line : line = block[1])
      to   == SelectLastInSeq(content, LAMBDA line : line \in {"init end", "shell end"})
  IN  IF from = 0 THEN content
      ELSE SubSeq(content, 1, from - 1) \o SubSeq(content, to + 1, Len(content))

\* From the first begin marker to the first end marker behind it
WithoutFirst(content, block) ==
  LET from == SelectInSeq(content, LAMBDA line : line = block[1])
      rest == SubSeq(content, from, Len(content))
      size == SelectInSeq(rest, LAMBDA line : line = block[2])
  IN  IF from = 0 \/ size = 0 THEN content
      ELSE SubSeq(content, 1, from - 1) \o SubSeq(rest, size + 1, Len(rest))

\* remove_block, once around its loop for each line: there are no more blocks.
RemoveBlock(content, block) ==
  LET Cut[n \in 0 .. Len(content)] ==
        IF n = 0 THEN content ELSE WithoutFirst(Cut[n - 1], block)
  IN  Cut[Len(content)]

Stripped(content) == RemoveBlock(RemoveBlock(content, InitBlock), ShellBlock)
Installed(content) == InitBlock \o Stripped(content) \o ShellBlock

-----------------------------------------------------------------------------
(* The processes.                                                          *)

Step(op, of) == [op |-> op, of |-> of]

\* write_embedded_mirror
Specs == [i \in DOMAIN Files |-> Step("spec", Files[i])]
WriteMirror == <<Step("stamp", None)>> \o Specs \o <<Step("seal", None)>>

Each(op) == [i \in DOMAIN Scripts |-> Step(op, Scripts[i])]
Refresh == Each("refresh") \o <<Step("status", None)>> \o WriteMirror
Uninstall == <<Step("rc", None)>> \o Each("remove")

\* Mutation: the blocks before what they source.
RcFirst(does) ==
  CASE does = "start" -> Refresh
    [] does = "install" -> <<Step("rc", None)>> \o Each("write") \o WriteMirror
    [] does = "uninstall" -> Uninstall

\* run_proxy up to start_proxy's mirror refresh, install_to, uninstall_from
Plan(does) ==
  CASE does = "start" -> Refresh
    [] does = "install" -> Each("write") \o WriteMirror \o <<Step("rc", None)>>
    [] does = "uninstall" -> Uninstall

Launch(p, does) ==
  /\ proc[p].plan = <<>>
  /\ proc' = [proc EXCEPT ![p] = [Ended EXCEPT !.does = does, !.version = release,
                                               !.plan = Plan(does)]]
  /\ UNCHANGED <<release, scripts, rc, mirror, stamp, left, history>>

At(p, op, phase) ==
  /\ proc[p].plan # <<>>
  /\ Head(proc[p].plan).op = op /\ proc[p].phase = phase
Of(p) == Head(proc[p].plan).of

\* The process, once its step is done; at the end it forgets what it has seen.
Done(d) == IF Len(d.plan) = 1 THEN Ended ELSE [d EXCEPT !.plan = Tail(@), !.phase = "look"]

\* A process that writes the mirror, or has made up its mind to.
Writing(p) == \E i \in DOMAIN proc[p].plan : proc[p].plan[i].op = "seal"
Begun(p) == Writing(p) /\ \A i \in DOMAIN proc[p].plan : proc[p].plan[i].op # "stamp"

\* refresh_installed_shell_scripts: only a script that is there and differs
LookAtScript(p) ==
  /\ At(p, "refresh", "look")
  /\ proc' = [proc EXCEPT ![p] = IF scripts[Of(p)] \in {0, @.version} THEN Done(@)
                                 ELSE [@ EXCEPT !.phase = "write"]]
  /\ UNCHANGED <<release, scripts, rc, mirror, stamp, left, history>>

\* atomic_write_preserving_mode; at startup a failure is only logged.
WriteScript(p) ==
  /\ At(p, "refresh", "write") \/ At(p, "write", "look")
  /\ proc' = [proc EXCEPT ![p] = Done(@)]
  /\ \/ scripts' = [scripts EXCEPT ![Of(p)] = proc[p].version]
     \/ At(p, "refresh", "write") /\ UNCHANGED scripts
  /\ UNCHANGED <<release, rc, mirror, stamp, left, history>>

RemoveScript(p) ==
  /\ At(p, "remove", "look")
  /\ scripts' = [scripts EXCEPT ![Of(p)] = 0]
  /\ proc' = [proc EXCEPT ![p] = Done(@)]
  /\ UNCHANGED <<release, rc, mirror, stamp, left, history>>

ReadRc(p) ==
  /\ At(p, "rc", "look")
  /\ proc' = [proc EXCEPT ![p].phase = "write", ![p].rc = rc]
  /\ UNCHANGED <<release, scripts, rc, mirror, stamp, left, history>>

\* What was written since the read is gone, unless there is nothing to remove.
WriteRc(p) ==
  /\ At(p, "rc", "write")
  /\ \/ /\ proc[p].does = "uninstall" /\ Stripped(proc[p].rc) = proc[p].rc
        /\ UNCHANGED <<rc, history>>
     \/ /\ proc[p].does = "uninstall" => Stripped(proc[p].rc) # proc[p].rc
        /\ rc' = IF proc[p].does = "install" THEN Installed(proc[p].rc) ELSE Stripped(proc[p].rc)
        /\ history' = [history EXCEPT !.lines = UserLines(proc[p].rc)]
  /\ proc' = [proc EXCEPT ![p] = Done([@ EXCEPT !.rc = <<>>])]
  /\ UNCHANGED <<release, scripts, mirror, stamp, left>>

\* mirror_status: nothing to do without a directory or under this release's stamp
ReadStatus(p) ==
  /\ At(p, "status", "look")
  /\ proc' = [proc EXCEPT ![p] =
                IF \/ stamp.kind = "no directory"
                   \/ Parses(stamp) /\ stamp.version = @.version
                THEN Ended ELSE Done(@)]
  /\ UNCHANGED <<release, scripts, rc, mirror, stamp, left, history>>

\* The directory is made; the stamp is read, once more, before anything is written.
ReadStamp(p) ==
  /\ At(p, "stamp", "look")
  /\ stamp' = IF stamp.kind = "no directory" THEN Stamp("missing") ELSE stamp
  /\ proc' = [proc EXCEPT ![p] = [Done(@) EXCEPT !.stamp = stamp']]
  /\ history' = [history EXCEPT
       !.kept = IF stamp.kind \in {"unreadable", "cut"} THEN {f \in @ : stamp.hashes[f] # None}
                ELSE @,
       !.disturbed = @ \/ \E q \in Procs \ {p} : Begun(q)]
  /\ UNCHANGED <<release, scripts, rc, mirror, left>>

New(p) == Body[Of(p)][proc[p].version]

\* Mutation: the hash of what is there now.
OwnHash(p) == mirror[Of(p)]

\* An edited file keeps the hash of what was last written.
CarriedHash(p) == proc[p].stamp.hashes[Of(p)]

\* hash_for the file tells an edited one from one that may be overwritten.
Edited(p) == mirror[Of(p)] # None /\ proc[p].stamp.hashes[Of(p)] \notin {None, mirror[Of(p)]}

\* Mutation: the hash of what is overwritten.
OldHash(p) == IF CarriedHash(p) # None THEN CarriedHash(p) ELSE New(p)

Recorded(p) == IF Edited(p) THEN CarriedHash(p) ELSE New(p)

LookAtSpec(p) ==
  LET seen == [proc[p] EXCEPT !.hashes[Of(p)] = Recorded(p)] IN
  /\ At(p, "spec", "look")
  /\ proc' = [proc EXCEPT ![p] = IF Edited(p) \/ mirror[Of(p)] = New(p) THEN Done(seen)
                                 ELSE [seen EXCEPT !.phase = "write"]]
  /\ UNCHANGED <<release, scripts, rc, mirror, stamp, left, history>>

\* fs::write truncates the file before it writes it.
TruncateSpec(p) ==
  /\ At(p, "spec", "write")
  /\ mirror' = [mirror EXCEPT ![Of(p)] = Torn]
  /\ proc' = [proc EXCEPT ![p].phase = "torn"]
  /\ history' = [history EXCEPT !.mine = @ \ {Of(p)}]
  /\ UNCHANGED <<release, scripts, rc, stamp, left>>

WriteSpec(p) ==
  /\ At(p, "spec", "torn")
  /\ mirror' = [mirror EXCEPT ![Of(p)] = New(p)]
  /\ proc' = [proc EXCEPT ![p] = Done(@)]
  /\ history' = [history EXCEPT !.mine = @ \ {Of(p)}]
  /\ UNCHANGED <<release, scripts, rc, stamp, left>>

\* What parse_stamp makes of a stamp that is written up to some byte: nothing, or the
\* version and the hashes on the lines that are complete.  A version that is cut is no
\* release's, and is refreshed as if there were none.
CutShort(d) ==
  {Stamp("unreadable")} \cup
  {[kind |-> "cut", version |-> d.version,
    hashes |-> [f \in ToSet(Files) |->
                  IF \E i \in 1 .. n : Files[i] = f THEN d.hashes[f] ELSE None]]
     : n \in 0 .. Len(Files) - 1}

TruncateStamp(p) ==
  /\ At(p, "seal", "look")
  /\ stamp' \in CutShort(proc[p])
  /\ proc' = [proc EXCEPT ![p].phase = "torn"]
  /\ UNCHANGED <<release, scripts, rc, mirror, left, history>>

WriteStamp(p) ==
  /\ At(p, "seal", "torn")
  /\ stamp' = [kind |-> "v2", version |-> proc[p].version, hashes |-> proc[p].hashes]
  /\ proc' = [proc EXCEPT ![p] = Done([@ EXCEPT !.stamp = Ended.stamp, !.hashes = Ended.hashes])]
  /\ UNCHANGED <<release, scripts, rc, mirror, left, history>>

\* A kill, a full disk, a file that may not be written.
Stop(p) ==
  /\ proc[p].plan # <<>>
  /\ proc' = [proc EXCEPT ![p] = Ended]
  /\ history' = [history EXCEPT !.disturbed = @ \/ Begun(p)]
  /\ UNCHANGED <<release, scripts, rc, mirror, stamp, left>>

-----------------------------------------------------------------------------
(* The user.                                                               *)

\* A spec is edited, or deleted.
ChangeSpec(f, content) ==
  /\ left > 0 /\ left' = left - 1
  /\ mirror[f] # None
  /\ mirror' = [mirror EXCEPT ![f] = content]
  /\ history' = [history EXCEPT
       !.mine = @ \cup {f},
       !.kept = IF content = Edit /\ stamp.hashes[f] # None /\ \A p \in Procs : ~Writing(p)
                THEN @ \cup {f} ELSE IF content = None THEN @ \ {f} ELSE @]
  /\ UNCHANGED <<release, scripts, rc, stamp, proc>>

\* A line is added to .zshrc outside the blocks.
AddLine(line) ==
  /\ line \notin ToSet(rc)
  /\ \E i \in 1 .. Len(rc) + 1 :
       /\ i > 1 => rc[i - 1] \notin {"init begin", "shell begin"}
       /\ rc' = InsertAt(rc, i, line)
  /\ history' = [history EXCEPT !.lines = UserLines(rc')]
  /\ UNCHANGED <<release, scripts, mirror, stamp, proc, left>>

Upgrade ==
  /\ release < Releases
  /\ release' = release + 1
  /\ UNCHANGED <<scripts, rc, mirror, stamp, proc, left, history>>

Next ==
  \/ \E p \in Starts : Launch(p, "start")
  \/ \E does \in {"install", "uninstall"} : Launch("command", does)
  \/ \E p \in Procs :
       \/ LookAtScript(p) \/ WriteScript(p) \/ RemoveScript(p) \/ ReadRc(p) \/ WriteRc(p)
       \/ ReadStatus(p) \/ ReadStamp(p) \/ LookAtSpec(p) \/ TruncateSpec(p) \/ WriteSpec(p)
       \/ TruncateStamp(p) \/ WriteStamp(p) \/ Stop(p)
  \/ \E f \in ToSet(Files), content \in {Edit, None} : ChangeSpec(f, content)
  \/ \E line \in Lines : AddLine(line)
  \/ Upgrade

Spec == Init /\ [][Next]_vars

-----------------------------------------------------------------------------
(* Properties.                                                             *)

\* Wherever install or uninstall is cut short, and whichever proxies start
\* meanwhile, no shell is told to source a script that is not there (the order of
\* install_to and of uninstall_from).
RcFindsScripts == "shell begin" \in ToSet(rc) => scripts["ghost-complete.zsh"] # 0

\* The lines of the user outlive any sequence of installs and uninstalls, in their
\* order, but for those written in the moment between a read and a write (remove_block).
UserLinesStay == UserLines(rc) = history.lines

\* A spec edited on top of what the stamp records is overwritten by no later release,
\* whatever refreshes overlap or are cut short, unless one of them found the stamp
\* itself cut short of its hash (write_embedded_mirror, "User edits are preserved").
EditsSurvive == \A f \in history.kept : mirror[f] = Edit

AtRest == \A p \in Procs : ~Writing(p)

\* Under the stamp of this release a file differs from what the stamp records only
\* if the user has changed it (list_user_edited_specs; "a crash mid-refresh leaves
\* the mirror in a state that the next start will detect as still stale and retry").
StampTellsEdits ==
  AtRest /\ Parses(stamp) /\ stamp.version = release =>
    \A f \in ToSet(Files) :
      stamp.hashes[f] # None /\ mirror[f] \notin {None, stamp.hashes[f]} => f \in history.mine

\* The same, as long as no refresh was cut short and no two overlapped.
StampTellsEditsUndisturbed == history.disturbed \/ StampTellsEdits
=============================================================================
