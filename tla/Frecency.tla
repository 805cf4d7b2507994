------------------------------- MODULE Frecency -------------------------------
(***************************************************************************)
(* The frecency database (crates/gc-suggest/src/frecency.rs): each shell's *)
(* proxy counts accepted completions in memory and saves them, every few   *)
(* records and when it ends, to one file that all of them share.           *)
(*                                                                         *)
(* An entry is its worth at one fixed moment.  Decay scales all worths     *)
(* alike, so it changes neither which of two entries is larger nor which   *)
(* entries are the best; a visit adds one.  Worth 0 is no entry.           *)
(***************************************************************************)
EXTENDS Naturals, FiniteSets

CONSTANTS
  Shells,      \* proxies that share the file
  Keys,        \* frecency_key: command, kind and text
  SaveEvery,   \* SAVE_EVERY
  MaxEntries,  \* MAX_ENTRIES
  MaxStored    \* MAX_STORED_SCORE

ASSUME BoundsAssumption ==
  /\ SaveEvery \in Nat \ {0} /\ MaxEntries \in Nat \ {0}
  /\ MaxStored \in Nat \ {0}
  /\ IsFiniteSet(Keys)

Entries == [Keys -> 0..MaxStored]
Empty   == [k \in Keys |-> 0]

\* What the file may be: absent, ours, of a later schema, or unparsable.
Files == [kind: {"absent", "ours", "newer", "corrupt"}, entries: Entries]

VARIABLES
  disk,       \* frecency.json
  legacy,     \* the entries of the file at its old path, which is only read
  db,         \* FrecencyDb of each shell, with its save in progress
  touched,    \* history: keys a shell has recorded since it loaded
  promised,   \* history: the worth of each key when its shell last saved it
  raced       \* history: the file changed after a save had looked at it

vars == <<disk, legacy, db, touched, promised, raced>>

-----------------------------------------------------------------------------
(* Entries.                                                                *)

Larger(a, b) == IF a >= b THEN a ELSE b

\* actual_score and one more
Visited(w) == IF w < MaxStored THEN w + 1 ELSE MaxStored

\* deserialize_entries: what cannot be understood is empty.
Deserialize(file) == IF file.kind = "ours" THEN file.entries ELSE Empty

\* Mutation: memory wins.
MemoryWins(a, mem) == [k \in Keys |-> IF mem[k] > 0 THEN mem[k] ELSE a[k]]

\* merge_snapshots: the larger score per key.
MergeSnapshots(a, mem) == [k \in Keys |-> Larger(a[k], mem[k])]

Kept(e) == {k \in Keys : e[k] > 0}

\* Files that keep the MAX_ENTRIES best; the sort leaves ties open.
Pruned(e) ==
  IF Cardinality(Kept(e)) <= MaxEntries THEN {e}
  ELSE {[k \in Keys |-> IF k \in best THEN e[k] ELSE 0] :
          best \in {s \in SUBSET Kept(e) :
                      /\ Cardinality(s) = MaxEntries
                      /\ \A k \in s, other \in Kept(e) \ s : e[k] >= e[other]}}

\* load_entries_with_migration
Loaded == IF disk.kind = "absent" THEN legacy ELSE Deserialize(disk)

-----------------------------------------------------------------------------
(* The life of a shell.                                                    *)

Closed == [at |-> "closed", mem |-> Empty, dirty |-> 0, file |-> Empty,
           retry |-> 0, ends |-> FALSE, seen |-> [kind |-> "absent", entries |-> Empty]]

Init ==
  /\ disk \in [kind: {"absent", "newer", "corrupt"}, entries: {Empty}]
  /\ legacy \in {Empty} \cup {[Empty EXCEPT ![k] = 1] : k \in Keys}
  /\ db = [s \in Shells |-> Closed]
  /\ touched = [s \in Shells |-> {}]
  /\ promised = Empty
  /\ raced = FALSE

\* load: a file that cannot be read counts as empty.
Load(s) ==
  /\ db[s].at = "closed"
  /\ \E entries \in {Loaded, Empty} :
       db' = [db EXCEPT ![s] = [Closed EXCEPT !.at = "idle", !.mem = entries]]
  /\ touched' = [touched EXCEPT ![s] = {}]
  /\ UNCHANGED <<disk, legacy, promised, raced>>

\* The snapshot leaves the lock and the count of unsaved records is reset.
StartSave(d, retry, ends) ==
  [d EXCEPT !.at = "peek", !.dirty = 0, !.file = d.mem, !.retry = retry, !.ends = ends]

\* record
Record(s, k) ==
  LET counted == [db[s] EXCEPT !.mem[k] = Visited(@), !.dirty = @ + 1]
  IN  /\ db[s].at = "idle"
      /\ db' = [db EXCEPT ![s] =
                  IF counted.dirty >= SaveEvery
                  THEN StartSave(counted, SaveEvery, FALSE) ELSE counted]
      /\ touched' = [touched EXCEPT ![s] = @ \cup {k}]
      /\ UNCHANGED <<disk, legacy, promised, raced>>

\* flush, before the proxy ends
Flush(s) ==
  /\ db[s].at = "idle"
  /\ db' = [db EXCEPT ![s] = IF @.dirty = 0 THEN Closed ELSE StartSave(@, 1, TRUE)]
  /\ UNCHANGED <<disk, legacy, touched, promised, raced>>

-----------------------------------------------------------------------------
(* save_snapshot, whose steps interleave with those of the other shells.   *)

\* Mutation: a newer file is not noticed.
RefusesNothing(file) == FALSE

\* The guard on the version that peek_disk_version finds.
Refuses(file) == file.kind = "newer"

PeekDiskVersion(s) ==
  /\ db[s].at = "peek" /\ ~Refuses(disk)
  /\ db' = [db EXCEPT ![s].at = "merge", ![s].seen = [disk EXCEPT !.entries = Empty]]
  /\ UNCHANGED <<disk, legacy, touched, promised, raced>>

\* The file is read again, merged, pruned and written to a name of its own.
WriteTemporary(s) ==
  /\ db[s].at = "merge"
  /\ \E file \in Pruned(IF disk.kind = "absent" THEN db[s].file
                        ELSE MergeSnapshots(Deserialize(disk), db[s].file)) :
       db' = [db EXCEPT ![s].at = "rename", ![s].file = file, ![s].seen = disk]
  /\ raced' = (raced \/ (disk.kind = "newer" /\ db[s].seen.kind # "newer"))
  /\ UNCHANGED <<disk, legacy, touched, promised>>

Ended(d, dirty) == IF d.ends THEN Closed
                   ELSE [Closed EXCEPT !.at = "idle", !.mem = d.mem, !.dirty = dirty]

Rename(s) ==
  /\ db[s].at = "rename"
  /\ disk' = [kind |-> "ours", entries |-> db[s].file]
  /\ db' = [db EXCEPT ![s] = Ended(@, @.dirty)]
  /\ promised' = [k \in Keys |->
                    IF k \in touched[s] THEN Larger(promised[k], db[s].mem[k])
                    ELSE promised[k]]
  /\ raced' = (raced \/ disk # db[s].seen)
  /\ UNCHANGED <<legacy, touched>>

\* Mutation: the failure is not remembered.
ForgetsFailure(d) == d.dirty

\* The next record or flush tries again.
DirtyAgain(d) == d.dirty + d.retry

\* No directory, a newer or unreadable file, a full disk: any step may fail.
FailSave(s) ==
  /\ db[s].at \in {"peek", "merge", "rename"}
  /\ db' = [db EXCEPT ![s] = Ended(@, DirtyAgain(@))]
  /\ UNCHANGED <<disk, legacy, touched, promised, raced>>

-----------------------------------------------------------------------------
(* The proxy is killed; a later release writes the file.                   *)

Kill(s) ==
  /\ db[s].at # "closed"
  /\ db' = [db EXCEPT ![s] = Closed]
  /\ UNCHANGED <<disk, legacy, touched, promised, raced>>

Upgrade ==
  /\ disk.kind # "newer"
  /\ disk' = [kind |-> "newer", entries |-> Empty]
  /\ UNCHANGED <<legacy, db, touched, promised, raced>>

Next ==
  \/ \E s \in Shells :
       \/ Load(s) \/ (\E k \in Keys : Record(s, k)) \/ Flush(s)
       \/ PeekDiskVersion(s) \/ WriteTemporary(s) \/ Rename(s) \/ FailSave(s)
       \/ Kill(s)
  \/ Upgrade

Spec == Init /\ [][Next]_vars

-----------------------------------------------------------------------------
(* Properties.                                                             *)

\* The file holds k with that worth, or only entries that are at least as good.
Holds(e, k, worth) ==
  \/ e[k] >= worth
  \/ Cardinality({other \in Keys : e[other] >= worth}) >= MaxEntries

\* While no shell renames over a file it has not read, what any shell has saved
\* stays in the file, whoever saves, fails or is killed (merge-on-save).
SavedStays ==
  ~raced /\ disk.kind = "ours" => \A k \in Keys : Holds(disk.entries, k, promised[k])

\* A shell that counts no unsaved record has saved all it has recorded, however
\* many saves have failed (the restored dirty_count).
CleanIsSaved ==
  \A s \in Shells : db[s].at = "idle" /\ db[s].dirty = 0 =>
    \A k \in touched[s] : db[s].mem[k] <= promised[k]

\* The file of a later release is left alone by every save that could have seen
\* it (peek_disk_version).
NewerIsSpared ==
  [][disk.kind = "newer" /\ disk'.kind # "newer" => raced']_vars
=============================================================================
