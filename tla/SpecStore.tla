-------------------------------- MODULE SpecStore --------------------------------
(***************************************************************************)
(* The completion specs of a session (crates/gc-suggest/src/specs.rs):     *)
(* how files become entries under aliases, how an entry is parsed when it  *)
(* is first looked up, and how the sweep gives its memory back.  Lookups   *)
(* run in any task; the lock is one per entry, and it is not held between  *)
(* two candidates of an alias or two entries of the sweep.                 *)
(*                                                                         *)
(* Specs are of one size.  What is in a spec, the list of conflicts and    *)
(* the report of the sweep are left out.                                   *)
(***************************************************************************)
EXTENDS Naturals, Sequences, FiniteSets, SequencesExt

CONSTANTS
  Readers,        \* tasks that look commands up
  Aliases,        \* the commands they look up
  Installations,  \* sequences of directories, themselves sequences of files
  Embedded,       \* the directory of the files in the binary, which parse
  Ttl,            \* idle_ttl_secs
  Cap,            \* max_resident_bytes
  Warm,           \* keep_warm
  MaxClock,       \* bound on the clock
  Edits,          \* how often a file is broken or mended while the program runs
  None

SpecFiles == [dir : Nat, stem : Aliases, name : Aliases \cup {None}]

ASSUME StoreAssumption == Ttl \in Nat /\ Cap \in Nat /\ MaxClock \in Nat /\ Edits \in Nat

\* Arcs are numbers: a lookup that found nothing is none of them.
ASSUME NoneAssumption == None \notin Nat

\* A file says which of the directories it is in.
ASSUME DirsAssumption ==
  /\ Installations \subseteq Seq(Seq(SpecFiles))
  /\ \A installation \in Installations : \A d \in DOMAIN installation :
       \A i \in DOMAIN installation[d] : installation[d][i].dir = d

VARIABLES
  entries,    \* SpecStore::entries: for each, the Arc in it
  byAlias,    \* the Arcs under each alias, first choice first
  arcs,       \* every Arc ever made: its file, aliases, shallow_parse_error
  broken,     \* the files that do not parse now
  edits,      \* edits left
  slot,       \* ParsedSlot of each Arc
  accessed,   \* last_accessed of each Arc, 0 for never
  clock,      \* the time; no two reads are at the same time
  reader,     \* each lookup: its alias, the candidate it is at, its result
  sweep       \* the sweep: what it has to go through and has found

store == <<entries, byAlias, arcs>>
files == <<broken, edits>>
storeVars == <<store, files, slot, accessed, clock, reader, sweep>>

-----------------------------------------------------------------------------
(* Registration: st is a store being loaded.                               *)

EmptyStore == [entries |-> <<>>, byAlias |-> [a \in Aliases |-> <<>>], arcs |-> <<>>]

\* push_alias_candidate
Pushed(byA, alias, arc) ==
  IF arc \in ToSet(byA[alias]) THEN byA ELSE [byA EXCEPT ![alias] = Append(@, arc)]

\* Pass 1: a file is found under its stem, behind who was there.  A file whose
\* header does not parse declares no name.
WithStem(st, file, headless) ==
  LET arc == Len(st.arcs) + 1
      new == [file     |-> file,
              name     |-> IF headless THEN None ELSE file.name,
              aliases  |-> {file.stem},
              headless |-> headless,
              creates  |-> st.byAlias[file.stem] = <<>>]
  IN  [entries |-> Append(st.entries, arc),
       byAlias |-> Pushed(st.byAlias, file.stem, arc),
       arcs    |-> Append(st.arcs, new)]

Swapped(seq, old, new) == [i \in DOMAIN seq |-> IF seq[i] = old THEN new ELSE seq[i]]

\* Mutation: the Arc is replaced where it was made, not where it is found.
ReplacedInEntries(st, old, new) == [st EXCEPT !.entries = Swapped(@, old, new)]

\* replace_entry_arc
Replaced(st, old, new) ==
  [st EXCEPT !.entries = Swapped(@, old, new),
             !.byAlias = [a \in Aliases |-> Swapped(@[a], old, new)]]

\* Pass 2, for the entry at idx: to be found under the name it declares it needs a
\* new Arc.  An entry behind another's stem joins the name only if it is taken.
WithName(st, idx) ==
  LET old   == st.entries[idx]
      new   == Len(st.arcs) + 1
      entry == st.arcs[old]
      name  == entry.name
      named == [entry EXCEPT !.aliases = @ \cup {name}]
      next  == Replaced([st EXCEPT !.arcs = Append(st.arcs, named)], old, new)
  IN  IF name \in {None, entry.file.stem} \/ (st.byAlias[name] = <<>> /\ ~entry.creates)
      THEN st
      ELSE [next EXCEPT !.byAlias = Pushed(Pushed(@, entry.file.stem, new), name, new)]

WithStems(st, dir, headless) ==
  LET done[i \in 0 .. Len(dir)] ==
        IF i = 0 THEN st ELSE WithStem(done[i - 1], dir[i], dir[i] \in headless)
  IN  done[Len(dir)]

\* ... for the n entries behind those of the directories before.
WithNames(st, before, n) ==
  LET done[i \in 0 .. n] == IF i = 0 THEN st ELSE WithName(done[i - 1], before + i)
  IN  done[n]

\* register_entries
Registered(st, dir, headless) ==
  WithNames(WithStems(st, dir, headless), Len(st.entries), Len(dir))

\* load_from_dirs, load_with_embedded
LoadWithEmbedded(installation, headless) ==
  LET done[d \in 0 .. Len(installation)] ==
        IF d = 0 THEN EmptyStore ELSE Registered(done[d - 1], installation[d], headless)
  IN  done[Len(installation)]

FilesOf(installation) == UNION {ToSet(installation[d]) : d \in DOMAIN installation}

\* A spec in the binary always parses.  Headers are read once, when the store is made.
StoreInit ==
  /\ \E installation \in Installations :
     \E headless \in SUBSET {f \in FilesOf(installation) : f.dir # Embedded} :
       LET st == LoadWithEmbedded(installation, headless) IN
       /\ entries = st.entries /\ byAlias = st.byAlias /\ arcs = st.arcs
       /\ broken = headless
  /\ edits = Edits
  /\ slot = [a \in DOMAIN arcs |-> "Empty"]
  /\ accessed = [a \in DOMAIN arcs |-> 0]
  /\ clock = 1
  /\ reader = [r \in Readers |-> [at |-> "idle", alias |-> None, i |-> 0, result |-> None]]
  /\ sweep = [at |-> "idle", now |-> 0, todo |-> <<>>, victims |-> {},
              resident |-> 0, measured |-> 0, looked |-> 0]

-----------------------------------------------------------------------------
(* Looking a command up                                                    *)

Candidates(r) == byAlias[reader[r].alias]
Current(r) == Candidates(r)[reader[r].i]

\* The candidate answers: the lookup ends, and the read is recorded.
Answer(r, arc) ==
  /\ clock < MaxClock
  /\ clock' = clock + 1
  /\ accessed' = [accessed EXCEPT ![arc] = clock']
  /\ reader' = [reader EXCEPT ![r].at = "idle", ![r].result = arc]

\* The candidate has failed: on to the next one, if there is one.
TryNext(r) ==
  /\ reader' = IF reader[r].i < Len(Candidates(r))
               THEN [reader EXCEPT ![r].at = "read", ![r].i = @ + 1]
               ELSE [reader EXCEPT ![r].at = "idle"]
  /\ UNCHANGED <<clock, accessed>>

\* get_result is called.
Lookup(r, alias) ==
  /\ reader[r].at = "idle"
  /\ reader' = [reader EXCEPT ![r] = [at     |-> IF byAlias[alias] = <<>> THEN "idle" ELSE "read",
                                      alias  |-> alias,
                                      i      |-> 1,
                                      result |-> None]]
  /\ UNCHANGED <<store, files, slot, accessed, clock, sweep>>

\* What either lock shows, if the entry has been parsed or has failed.
Settled(r) ==
  \/ slot[Current(r)] = "Loaded" /\ Answer(r, Current(r))
  \/ slot[Current(r)] = "Failed" /\ TryNext(r)

\* The fast path, under the read lock; it is released before the write lock is taken.
ReadSlot(r) ==
  /\ reader[r].at = "read"
  /\ \/ Settled(r)
     \/ /\ slot[Current(r)] \in {"Empty", "Evicted"}
        /\ reader' = [reader EXCEPT ![r].at = "write"]
        /\ UNCHANGED <<clock, accessed>>
  /\ UNCHANGED <<store, files, slot, sweep>>

\* parse_entry_source, or the error its header left
Parses(arc) == ~arcs[arc].headless /\ arcs[arc].file \notin broken

\* The slow path: looked at again under the write lock, and parsed there.
WriteSlot(r) ==
  /\ reader[r].at = "write"
  /\ \/ Settled(r) /\ UNCHANGED slot
     \/ /\ slot[Current(r)] \in {"Empty", "Evicted"}
        /\ slot' = [slot EXCEPT ![Current(r)] = IF Parses(Current(r)) THEN "Loaded" ELSE "Failed"]
        /\ IF Parses(Current(r)) THEN Answer(r, Current(r)) ELSE TryNext(r)
  /\ UNCHANGED <<store, files, sweep>>

\* A file is being rewritten, or has been.
Edit ==
  /\ edits > 0
  /\ edits' = edits - 1
  /\ \E f \in {arcs[a].file : a \in DOMAIN arcs} :
       /\ f.dir # Embedded
       /\ broken' = IF f \in broken THEN broken \ {f} ELSE broken \cup {f}
  /\ UNCHANGED <<store, slot, accessed, clock, reader, sweep>>

Tick ==
  /\ clock < MaxClock
  /\ clock' = clock + 1
  /\ UNCHANGED <<store, files, slot, accessed, reader, sweep>>

-----------------------------------------------------------------------------
(* The sweep, an entry at a time                                           *)

IsWarm(arc) == arcs[arc].aliases \cap Warm # {}

\* entry_is_idle_at the sweep's own idea of now
IdleAt(arc) == sweep.now >= accessed[arc] + Ttl

LoadedArcs == {arc \in ToSet(entries) : slot[arc] = "Loaded"}

Entry == Head(sweep.todo)
Done == sweep.todo = <<>>
unswept == <<store, files, accessed, clock, reader>>

SweepStart ==
  /\ sweep.at = "idle"
  /\ sweep' = [sweep EXCEPT !.at = "peek", !.now = clock, !.looked = clock, !.todo = entries]
  /\ UNCHANGED <<unswept, slot>>

\* Phase 1 looks at an entry without its lock ...
PeekIdle ==
  /\ sweep.at = "peek" /\ ~Done
  /\ sweep' = IF IsWarm(Entry) \/ ~IdleAt(Entry) THEN [sweep EXCEPT !.todo = Tail(@)]
                                                 ELSE [sweep EXCEPT !.at = "idle entry"]
  /\ UNCHANGED <<unswept, slot>>

\* Mutations: trusting what was seen without the lock; clearing the slot of an
\* entry whatever is in it.
LoadedStill(arc) == slot[arc] = "Loaded"
AnythingIdle(arc) == IdleAt(arc)

\* ... and again under it.
IdleStill(arc) == slot[arc] = "Loaded" /\ IdleAt(arc)

EvictIdle ==
  /\ sweep.at = "idle entry"
  /\ slot' = IF IdleStill(Entry) THEN [slot EXCEPT ![Entry] = "Evicted"] ELSE slot
  /\ sweep' = [sweep EXCEPT !.at = "peek", !.todo = Tail(@)]
  /\ UNCHANGED unswept

\* Phase 2 adds up what is resident, an entry at a time.
Measure ==
  /\ sweep.at = "peek" /\ Done
  /\ sweep' = [sweep EXCEPT !.at = "measure", !.todo = entries, !.resident = 0, !.measured = clock]
  /\ UNCHANGED <<unswept, slot>>

MeasureEntry ==
  /\ sweep.at = "measure" /\ ~Done
  /\ sweep' = [sweep EXCEPT !.todo = Tail(@),
                            !.resident = IF slot[Entry] = "Loaded" THEN @ + 1 ELSE @]
  /\ UNCHANGED <<unswept, slot>>

OverCap ==
  /\ sweep.at = "measure" /\ Done
  /\ sweep' = IF sweep.resident > Cap
              THEN [sweep EXCEPT !.at = "snapshot", !.todo = entries, !.victims = {}]
              ELSE [sweep EXCEPT !.at = "swept", !.victims = {}]
  /\ UNCHANGED <<unswept, slot>>

SnapshotEntry ==
  /\ sweep.at = "snapshot" /\ ~Done
  /\ sweep' = [sweep EXCEPT !.todo = Tail(@),
                            !.victims = IF slot[Entry] = "Loaded" /\ ~IsWarm(Entry)
                                        THEN @ \cup {[arc |-> Entry, ts |-> accessed[Entry]]}
                                        ELSE @,
                            !.at = IF Tail(sweep.todo) = <<>> THEN "backstop" ELSE @,
                            !.looked = clock]
  /\ UNCHANGED <<unswept, slot>>

\* Mutation: a victim that has been read ends the sweep.
GivenUp(v) == [sweep EXCEPT !.victims = {}]

\* The oldest victim goes, unless it has gone or has been read since.
UnreadSince(v) == slot[v.arc] = "Loaded" /\ accessed[v.arc] <= v.ts
LeftAlone(v) == [sweep EXCEPT !.victims = @ \ {v}]

EvictOldest ==
  /\ sweep.at = "backstop" /\ sweep.resident > Cap
  /\ \E v \in sweep.victims :
       /\ \A w \in sweep.victims : v.ts <= w.ts
       /\ IF UnreadSince(v)
          THEN /\ slot' = [slot EXCEPT ![v.arc] = "Evicted"]
               /\ sweep' = [sweep EXCEPT !.victims = @ \ {v}, !.resident = @ - 1]
          ELSE /\ sweep' = LeftAlone(v)
               /\ UNCHANGED slot
  /\ UNCHANGED unswept

BackstopDone ==
  /\ sweep.at = "backstop" /\ (sweep.resident <= Cap \/ sweep.victims = {})
  /\ sweep' = [sweep EXCEPT !.at = "swept", !.victims = {}]
  /\ UNCHANGED <<unswept, slot>>

\* The report; the task waits for its next tick.
SweepEnd ==
  /\ sweep.at = "swept"
  /\ sweep' = [sweep EXCEPT !.at = "idle", !.resident = 0, !.measured = 0,
                            !.looked = 0, !.now = 0]
  /\ UNCHANGED <<unswept, slot>>

Sweep == \/ SweepStart \/ PeekIdle \/ EvictIdle \/ Measure \/ MeasureEntry \/ OverCap
         \/ SnapshotEntry \/ EvictOldest \/ BackstopDone \/ SweepEnd

StoreNext ==
  \/ \E r \in Readers : (\E a \in Aliases : Lookup(r, a)) \/ ReadSlot(r) \/ WriteSlot(r)
  \/ Edit
  \/ Tick
  \/ Sweep

StoreSpec == StoreInit /\ [][StoreNext]_storeVars

-----------------------------------------------------------------------------
Position(seq, x) == CHOOSE i \in DOMAIN seq : seq[i] = x

\* What comes first under an alias: the earlier directory; in a directory, the file
\* with that stem, then those that only declare the name, in order.
Before(alias, x, y) ==
  LET Named(arc) == arcs[arc].file.stem # alias
  IN  \/ arcs[x].file.dir < arcs[y].file.dir
      \/ /\ arcs[x].file.dir = arcs[y].file.dir
         /\ \/ ~Named(x) /\ Named(y)
            \/ Named(x) = Named(y) /\ Position(entries, x) < Position(entries, y)

(* Whatever replaced whatever while the store was loaded, an alias leads only
   to entries that are still in the store, where the sweep sees them, and in the
   promised order: an earlier directory first, a file's own stem before any
   other file's claim to it (register_entries, "the canonical spec wins its own
   name"). *)
AliasesInOrder ==
  \A a \in Aliases : \A i \in DOMAIN byAlias[a] :
    /\ byAlias[a][i] \in ToSet(entries)
    /\ a \in arcs[byAlias[a][i]].aliases
    /\ \A j \in 1 .. i - 1 : Before(a, byAlias[a][j], byAlias[a][i])

(* A lookup that has ended has the first candidate that was not a failure, and
   with no result every candidate is one: no eviction between two candidates, by
   the sweep or by two readers that fill one slot, makes it skip one
   (get_result). *)
FirstThatParses ==
  \A r \in Readers : reader[r].at = "idle" /\ reader[r].alias # None =>
    \A i \in DOMAIN Candidates(r) :
      \/ slot[Candidates(r)[i]] = "Failed"
      \/ reader[r].result # None /\ reader[r].i <= i

(* A sweep takes no spec that was read after the sweep had looked at it for the
   last time: after it began, in phase 1, and after it had listed its victims, in
   phase 2 (evict_idle_at, "re-check under the lock"). *)
RecentSurvives ==
  [][\A a \in DOMAIN slot : slot[a] = "Loaded" /\ slot'[a] = "Evicted" =>
       accessed[a] <= sweep.looked]_storeVars

(* A sweep that ends leaves no more specs than the cap allows, not counting those
   read while it ran, or else nothing but warm ones: a victim it had to leave
   alone does not stop it (evict_idle_at, phase 2). *)
CapIsReached ==
  sweep.at = "swept" =>
    LET unread == {arc \in LoadedArcs : accessed[arc] <= sweep.measured}
    IN  Cardinality(unread) <= Cap \/ \A arc \in unread : IsWarm(arc)

=============================================================================
