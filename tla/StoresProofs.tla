------------------------------ MODULE StoresProofs ------------------------------
(***************************************************************************)
(* The two stores of crates/gc-suggest that outlive a command: the         *)
(* frecency database (Frecency) and the completion specs (SpecStore).      *)
(*                                                                         *)
(* Frecency, for any number of shells and keys and whatever the limits:    *)
(* what has been saved stays in the file or is outdone by MaxEntries       *)
(* better entries, a failed save is remembered, and the file of a later    *)
(* release is written over only by a save that could not see it.           *)
(*                                                                         *)
(* SpecStore, for any installation, readers and limits: a load keeps what  *)
(* is under each alias in the promised order, an entry at a time; a lookup *)
(* has failures behind it, whatever is evicted meanwhile; and the sweep's  *)
(* count is never below what it has to answer for.                         *)
(***************************************************************************)
EXTENDS Frecency, SpecStore, FiniteSetTheorems, SequenceTheorems, TLAPS

Ats == {"closed", "idle", "peek", "merge", "rename"}
Dbs == [at: Ats, mem: Entries, dirty: Nat, file: Entries, retry: Nat, ends: BOOLEAN, seen: Files]

TypeOK ==
  /\ disk \in Files
  /\ legacy \in Entries
  /\ db \in [Shells -> Dbs]
  /\ touched \in [Shells -> SUBSET Keys]
  /\ promised \in Entries
  /\ raced \in BOOLEAN

\* What a save that has read this file writes.
Merged(file, mem) == IF file.kind = "absent" THEN mem ELSE MergeSnapshots(Deserialize(file), mem)

\* A save in progress is of what the shell has in memory, over the file it has seen.
SavesWell(s) ==
  /\ db[s].at \in {"peek", "merge", "rename"} => db[s].retry >= 1
  /\ db[s].at \in {"peek", "merge"} => db[s].file = db[s].mem
  /\ db[s].at = "merge" => db[s].seen.kind # "newer"
  /\ db[s].at = "rename" => /\ db[s].seen.kind = "newer" => raced
                            /\ db[s].file \in Pruned(Merged(db[s].seen, db[s].mem))

HasSaved(s) ==
  db[s].at = "idle" /\ db[s].dirty = 0 => \A k \in touched[s] : db[s].mem[k] <= promised[k]

\* The inductive invariant.
Saving ==
  /\ TypeOK
  /\ \A s \in Shells : SavesWell(s) /\ HasSaved(s)
  /\ disk.kind \in {"absent", "corrupt"} => \A k \in Keys : promised[k] = 0
  /\ SavedStays

-----------------------------------------------------------------------------
(* Entries.                                                                *)

LEMMA EmptyIsEntries == Empty \in Entries /\ \A k \in Keys : Empty[k] = 0
BY BoundsAssumption DEF Empty, Entries

LEMMA VisitedIsWorth ==
  ASSUME NEW w \in 0 .. MaxStored
  PROVE  Visited(w) \in 0 .. MaxStored
BY BoundsAssumption DEF Visited

\* A merge has the larger worth of every key.
LEMMA MergeIsLarger ==
  ASSUME NEW a \in Entries, NEW b \in Entries
  PROVE  /\ MergeSnapshots(a, b) \in Entries
         /\ \A k \in Keys : MergeSnapshots(a, b)[k] >= a[k] /\ MergeSnapshots(a, b)[k] >= b[k]
BY BoundsAssumption DEF MergeSnapshots, Entries, Larger

LEMMA AtLeastIsFinite ==
  ASSUME NEW e \in Entries, NEW w \in Nat
  PROVE  /\ IsFiniteSet({o \in Keys : e[o] >= w})
         /\ Cardinality({o \in Keys : e[o] >= w}) \in Nat
<1>1. IsFiniteSet({o \in Keys : e[o] >= w})
  BY BoundsAssumption, FS_Subset
<1> QED
  BY <1>1, FS_CardinalityType

\* More on the file, or a smaller promise, and it is still held.
LEMMA HoldsMore ==
  ASSUME NEW a \in Entries, NEW b \in Entries, \A o \in Keys : a[o] <= b[o],
         NEW k \in Keys, NEW w \in Nat, Holds(a, k, w)
  PROVE  Holds(b, k, w)
<1>1. a[k] \in Nat /\ b[k] \in Nat /\ MaxEntries \in Nat
  BY BoundsAssumption DEF Entries
<1>2. CASE a[k] >= w
  BY <1>1, <1>2 DEF Holds
<1>3. CASE Cardinality({o \in Keys : a[o] >= w}) >= MaxEntries
  <2>1. \A o \in Keys : a[o] \in Nat /\ b[o] \in Nat
    BY BoundsAssumption DEF Entries
  <2>2. {o \in Keys : a[o] >= w} \subseteq {o \in Keys : b[o] >= w}
    BY <2>1
  <2>3. Cardinality({o \in Keys : a[o] >= w}) <= Cardinality({o \in Keys : b[o] >= w})
    BY <2>2, AtLeastIsFinite, FS_Subset
  <2> QED
    BY <1>1, <1>3, <2>3, AtLeastIsFinite DEF Holds
<1> QED
  BY <1>2, <1>3 DEF Holds

\* What is pruned away is outdone by the entries that are kept.
LEMMA HoldsPruned ==
  ASSUME NEW e \in Entries, NEW f \in Pruned(e), NEW k \in Keys, NEW w \in Nat, Holds(e, k, w)
  PROVE  f \in Entries /\ Holds(f, k, w)
<1>1. CASE f = e
  BY <1>1
<1>2. CASE f # e
  <2>1. PICK best \in SUBSET Kept(e) :
          /\ f = [o \in Keys |-> IF o \in best THEN e[o] ELSE 0]
          /\ Cardinality(best) = MaxEntries
          /\ \A b \in best, other \in Kept(e) \ best : e[b] >= e[other]
    BY <1>2 DEF Pruned
  <2>2. \A o \in Keys : e[o] \in Nat /\ e[o] \in 0 .. MaxStored
    BY BoundsAssumption DEF Entries
  <2>3. f \in Entries /\ best \in SUBSET Keys
    BY <2>1, <2>2, BoundsAssumption DEF Entries, Kept
  <2>4. \A o \in Keys : f[o] = IF o \in best THEN e[o] ELSE 0
    BY <2>1
  <2>5. CASE w = 0
    BY <2>2, <2>3, <2>4, <2>5 DEF Holds
  <2>6. ASSUME NEW o \in Keys, o \notin best, e[o] >= w, w > 0
        PROVE  Holds(f, k, w)
    <3>1. o \in Kept(e) \ best
      BY <2>2, <2>6 DEF Kept
    <3>2. best \subseteq {b \in Keys : f[b] >= w}
      BY <2>1, <2>2, <2>3, <2>4, <2>6, <3>1
    <3>3. Cardinality(best) <= Cardinality({b \in Keys : f[b] >= w})
      BY <2>3, <3>2, AtLeastIsFinite, FS_Subset
    <3> QED
      BY <2>1, <3>3 DEF Holds
  <2>7. CASE e[k] >= w /\ w > 0
    BY <2>2, <2>3, <2>4, <2>6, <2>7 DEF Holds
  <2>8. CASE Cardinality({o \in Keys : e[o] >= w}) >= MaxEntries /\ w > 0
    <3>1. CASE \E o \in Keys : o \notin best /\ e[o] >= w
      BY <2>3, <2>6, <2>8, <3>1
    <3>2. CASE \A o \in Keys : e[o] >= w => o \in best
      <4>1. {o \in Keys : e[o] >= w} \subseteq {o \in Keys : f[o] >= w}
        BY <2>4, <3>2
      <4>2. Cardinality({o \in Keys : e[o] >= w}) <= Cardinality({o \in Keys : f[o] >= w})
        BY <2>3, <4>1, AtLeastIsFinite, FS_Subset
      <4> QED
        BY <2>3, <2>8, <4>2, AtLeastIsFinite, BoundsAssumption DEF Holds
    <3> QED
      BY <3>1, <3>2
  <2> QED
    BY <2>3, <2>5, <2>7, <2>8 DEF Holds
<1> QED
  BY <1>1, <1>2

LEMMA PrunedIsEntries ==
  ASSUME NEW e \in Entries, NEW f \in Pruned(e)
  PROVE  f \in Entries
BY BoundsAssumption DEF Pruned, Entries

LEMMA MergedIsEntries ==
  ASSUME NEW file \in Files, NEW mem \in Entries
  PROVE  Merged(file, mem) \in Entries
BY EmptyIsEntries, MergeIsLarger DEF Merged, Files, Deserialize

-----------------------------------------------------------------------------
(* The shells.                                                             *)

LEMMA ClosedIsDb ==
  /\ Closed \in Dbs /\ Closed.at = "closed" /\ Closed.mem = Empty /\ Closed.dirty = 0
  /\ Closed.file = Empty /\ Closed.retry = 0 /\ Closed.ends = FALSE
BY EmptyIsEntries DEF Closed, Dbs, Ats, Files

LEMMA InitSaving == Init => Saving
<1> SUFFICES ASSUME Init PROVE Saving
  OBVIOUS
<1>1. Empty \in Entries /\ \A k \in Keys : Empty[k] = 0
  BY EmptyIsEntries
<1>2. legacy \in Entries
  BY <1>1, BoundsAssumption DEF Init, Entries
<1>3. disk \in Files
  BY <1>1 DEF Init, Files
<1>4. TypeOK
  BY <1>1, <1>2, <1>3, ClosedIsDb DEF Init, TypeOK
<1>5. \A s \in Shells : SavesWell(s) /\ HasSaved(s)
  BY ClosedIsDb DEF Init, SavesWell, HasSaved
<1>6. SavedStays
  BY DEF Init, SavedStays
<1> QED
  BY <1>1, <1>4, <1>5, <1>6 DEF Saving, Init

\* A shell goes on by itself: what the others have saved and look at stays right.
LEMMA OneShellMoves ==
  ASSUME Saving, NEW s \in Shells, NEW new \in Dbs, db' = [db EXCEPT ![s] = new],
         \A o \in Shells \ {s} : touched'[o] = touched[o],
         raced => raced', promised' \in Entries, \A k \in Keys : promised[k] <= promised'[k],
         SavesWell(s)', HasSaved(s)'
  PROVE  db' \in [Shells -> Dbs] /\ \A o \in Shells : SavesWell(o)' /\ HasSaved(o)'
<1>1. db' \in [Shells -> Dbs] /\ \A o \in Shells \ {s} : db'[o] = db[o]
  BY DEF Saving, TypeOK
<1>2. ASSUME NEW o \in Shells \ {s} PROVE SavesWell(o)' /\ HasSaved(o)'
  <2>1. SavesWell(o) /\ HasSaved(o) /\ db'[o] = db[o] /\ touched'[o] = touched[o]
    BY <1>1, <1>2 DEF Saving
  <2>2. \A k \in touched[o] : k \in Keys /\ db[o].mem[k] \in Nat /\ promised[k] \in Nat
                              /\ promised'[k] \in Nat
    BY <1>2, BoundsAssumption DEF Saving, TypeOK, Dbs, Entries
  <2>3. SavesWell(o)'
    BY <2>1 DEF SavesWell
  <2>4. HasSaved(o)'
    BY <2>1, <2>2 DEF HasSaved
  <2> QED
    BY <2>3, <2>4
<1> QED
  BY <1>1, <1>2

\* One that changes neither the file nor the histories of what is saved.
LEMMA OneShellOnly ==
  ASSUME Saving, NEW s \in Shells, NEW new \in Dbs, db' = [db EXCEPT ![s] = new],
         touched' \in [Shells -> SUBSET Keys], \A o \in Shells \ {s} : touched'[o] = touched[o],
         UNCHANGED <<disk, legacy, promised, raced>>, SavesWell(s)', HasSaved(s)'
  PROVE  Saving'
<1>1. promised' \in Entries /\ \A k \in Keys : promised[k] <= promised'[k]
  BY BoundsAssumption DEF Saving, TypeOK, Entries
<1>2. db' \in [Shells -> Dbs] /\ \A o \in Shells : SavesWell(o)' /\ HasSaved(o)'
  BY <1>1, OneShellMoves
<1>3. SavedStays'
  BY DEF Saving, SavedStays
<1> QED
  BY <1>2, <1>3 DEF Saving, TypeOK

LEMMA LoadSaves == ASSUME Saving, NEW s \in Shells, Load(s) PROVE Saving'
<1>1. PICK known \in {Loaded, Empty} :
        db' = [db EXCEPT ![s] = [Closed EXCEPT !.at = "idle", !.mem = known]]
  BY DEF Load
<1> DEFINE new == [Closed EXCEPT !.at = "idle", !.mem = known]
<1>2. known \in Entries
  BY EmptyIsEntries DEF Loaded, Deserialize, Saving, TypeOK, Files
<1>3. new \in Dbs /\ new.at = "idle"
  BY <1>2, ClosedIsDb DEF Dbs, Ats
<1> HIDE DEF new
<1>4. db' = [db EXCEPT ![s] = new]
  BY <1>1 DEF new
<1>5. db'[s] = new /\ touched'[s] = {} /\ touched' \in [Shells -> SUBSET Keys]
      /\ \A o \in Shells \ {s} : touched'[o] = touched[o]
  BY <1>4 DEF Load, Saving, TypeOK
<1>6. SavesWell(s)' /\ HasSaved(s)'
  BY <1>3, <1>5 DEF SavesWell, HasSaved
<1> QED
  BY <1>3, <1>4, <1>5, <1>6, OneShellOnly DEF Load

LEMMA StartSaveFields ==
  ASSUME NEW d \in Dbs, NEW retry \in Nat, NEW ends \in BOOLEAN
  PROVE  LET new == StartSave(d, retry, ends) IN
         new \in Dbs /\ new.at = "peek" /\ new.file = new.mem /\ new.retry = retry
BY DEF StartSave, Dbs, Ats

LEMMA RecordSaves == ASSUME Saving, NEW s \in Shells, NEW k \in Keys, Record(s, k) PROVE Saving'
<1> DEFINE old == db[s]
           mem == [old.mem EXCEPT ![k] = Visited(@)]
           counted == [old EXCEPT !.mem[k] = Visited(@), !.dirty = @ + 1]
           new == IF counted.dirty >= SaveEvery
                  THEN StartSave(counted, SaveEvery, FALSE) ELSE counted
<1>1. old \in Dbs /\ old.at = "idle" /\ mem \in Entries
  <2>1. old \in Dbs /\ old.at = "idle"
    BY DEF Saving, TypeOK, Record
  <2>2. old.mem \in Entries
    BY <2>1 DEF Dbs
  <2>3. Visited(old.mem[k]) \in 0 .. MaxStored
    BY <2>2, VisitedIsWorth DEF Entries
  <2> QED
    BY <2>1, <2>2, <2>3 DEF Entries
<1>2. counted \in Dbs /\ counted.at = "idle" /\ counted.dirty # 0
  <2>1. counted = [old EXCEPT !.mem = mem, !.dirty = old.dirty + 1]
    BY <1>1 DEF Dbs
  <2> HIDE DEF old, mem, counted
  <2>2. old.dirty \in Nat /\ old.dirty + 1 \in Nat /\ old.dirty + 1 # 0
    BY <1>1 DEF Dbs
  <2>3. counted.dirty = old.dirty + 1 /\ counted.at = old.at /\ counted \in Dbs
    BY <1>1, <2>1, <2>2 DEF Dbs
  <2> QED
    BY <1>1, <2>2, <2>3
<1> HIDE DEF counted
<1>3. /\ new \in Dbs /\ new.at \in {"idle", "peek"}
      /\ new.at = "peek" => new.file = new.mem /\ new.retry >= 1
      /\ new.at = "idle" => new.dirty # 0
  <2>1. SaveEvery \in Nat /\ SaveEvery >= 1
    BY BoundsAssumption
  <2> QED
    BY <1>2, <2>1, StartSaveFields
<1> HIDE DEF new
<1>4. db' = [db EXCEPT ![s] = new]
  BY DEF Record, new, counted
<1>5. db'[s] = new /\ touched' \in [Shells -> SUBSET Keys]
      /\ \A o \in Shells \ {s} : touched'[o] = touched[o]
  BY <1>4 DEF Record, Saving, TypeOK
<1>6. SavesWell(s)' /\ HasSaved(s)'
  BY <1>3, <1>5 DEF SavesWell, HasSaved
<1> QED
  BY <1>3, <1>4, <1>5, <1>6, OneShellOnly DEF Record

LEMMA FlushSaves == ASSUME Saving, NEW s \in Shells, Flush(s) PROVE Saving'
<1> DEFINE old == db[s]
           new == IF old.dirty = 0 THEN Closed ELSE StartSave(old, 1, TRUE)
<1>1. old \in Dbs
  BY DEF Saving, TypeOK
<1>2. /\ new \in Dbs /\ new.at \in {"closed", "peek"}
      /\ new.at = "peek" => new.file = new.mem /\ new.retry >= 1
  <2>1. CASE old.dirty = 0
    BY <2>1, ClosedIsDb
  <2>2. CASE old.dirty # 0
    <3>1. new = StartSave(old, 1, TRUE)
      BY <2>2
    <3> HIDE DEF old, new
    <3>2. TRUE \in BOOLEAN /\ 1 \in Nat
      OBVIOUS
    <3>3. new \in Dbs /\ new.at = "peek" /\ new.file = new.mem /\ new.retry = 1
      BY <1>1, <3>1, <3>2, StartSaveFields, Zenon
    <3> QED
      BY <3>3
  <2> QED
    BY <2>1, <2>2
<1>3. db' = [db EXCEPT ![s] = new]
  BY DEF Flush, Saving, TypeOK
<1> HIDE DEF new
<1>4. db'[s] = new /\ UNCHANGED touched
  BY <1>3 DEF Flush, Saving, TypeOK
<1>5. SavesWell(s)' /\ HasSaved(s)'
  BY <1>2, <1>4 DEF SavesWell, HasSaved
<1> QED
  BY <1>2, <1>3, <1>4, <1>5, OneShellOnly DEF Flush, Saving, TypeOK

LEMMA PeekSaves == ASSUME Saving, NEW s \in Shells, PeekDiskVersion(s) PROVE Saving'
<1> DEFINE old == db[s]
           seen == [disk EXCEPT !.entries = Empty]
           new == [old EXCEPT !.at = "merge", !.seen = seen]
<1>1. old \in Dbs /\ old.at = "peek" /\ SavesWell(s) /\ disk \in Files
  BY DEF Saving, TypeOK, PeekDiskVersion
<1>2. seen \in Files /\ seen.kind = disk.kind /\ seen.kind # "newer"
  BY <1>1, EmptyIsEntries DEF Files, PeekDiskVersion, Refuses
<1> HIDE DEF seen
<1>3. /\ new \in Dbs /\ new.at = "merge" /\ new.file = old.file /\ new.mem = old.mem
      /\ new.retry = old.retry /\ new.seen = seen
  <2> HIDE DEF old
  <2> QED
    BY <1>1, <1>2 DEF Dbs, Ats
<1>4. db' = [db EXCEPT ![s] = new]
  BY DEF PeekDiskVersion, seen, Saving, TypeOK
<1> HIDE DEF new
<1>5. db'[s] = new /\ UNCHANGED touched
  BY <1>4 DEF PeekDiskVersion, Saving, TypeOK
<1>6. SavesWell(s)' /\ HasSaved(s)'
  BY <1>1, <1>2, <1>3, <1>5 DEF SavesWell, HasSaved
<1> QED
  BY <1>3, <1>4, <1>5, <1>6, OneShellOnly DEF PeekDiskVersion, Saving, TypeOK

LEMMA WriteTemporarySaves == ASSUME Saving, NEW s \in Shells, WriteTemporary(s) PROVE Saving'
<1> DEFINE old == db[s]
<1>1. /\ old \in Dbs /\ old.at = "merge" /\ SavesWell(s) /\ disk \in Files
      /\ old.file = old.mem /\ old.mem \in Entries /\ old.retry >= 1 /\ old.seen.kind # "newer"
  BY DEF Saving, TypeOK, WriteTemporary, SavesWell, Dbs
<1>2. PICK file \in Pruned(Merged(disk, old.mem)) :
        db' = [db EXCEPT ![s] = [old EXCEPT !.at = "rename", !.file = file, !.seen = disk]]
  BY <1>1 DEF WriteTemporary, Merged, Saving, TypeOK
<1> DEFINE new == [old EXCEPT !.at = "rename", !.file = file, !.seen = disk]
<1>3. file \in Entries
  BY <1>1, MergedIsEntries, PrunedIsEntries
<1>4. /\ new \in Dbs /\ new.at = "rename" /\ new.file = file /\ new.mem = old.mem
      /\ new.retry = old.retry /\ new.seen = disk
  <2> HIDE DEF old
  <2> QED
    BY <1>1, <1>3 DEF Dbs, Ats
<1>5. db' = [db EXCEPT ![s] = new]
  BY <1>2
<1> HIDE DEF new
<1>6. /\ db'[s] = new /\ raced' \in BOOLEAN /\ (raced => raced')
      /\ disk.kind = "newer" => raced'
  BY <1>1, <1>5 DEF WriteTemporary, Saving, TypeOK
<1>7. SavesWell(s)' /\ HasSaved(s)'
  BY <1>1, <1>2, <1>4, <1>6 DEF SavesWell, HasSaved
<1>8. promised' \in Entries /\ \A k \in Keys : promised[k] <= promised'[k]
  BY BoundsAssumption DEF WriteTemporary, Saving, TypeOK, Entries
<1>9. db' \in [Shells -> Dbs] /\ \A o \in Shells : SavesWell(o)' /\ HasSaved(o)'
  BY <1>4, <1>5, <1>6, <1>7, <1>8, OneShellMoves DEF WriteTemporary
<1>10. SavedStays'
  BY <1>6 DEF WriteTemporary, Saving, SavedStays
<1> QED
  BY <1>6, <1>9, <1>10 DEF WriteTemporary, Saving, TypeOK

LEMMA EndedFields ==
  ASSUME NEW d \in Dbs, NEW dirty \in Nat
  PROVE  LET new == Ended(d, dirty) IN
         /\ new \in Dbs /\ new.at \in {"closed", "idle"}
         /\ new.at = "idle" => new.mem = d.mem /\ new.dirty = dirty
BY ClosedIsDb DEF Ended, Dbs, Ats

LEMMA FailSaveSaves == ASSUME Saving, NEW s \in Shells, FailSave(s) PROVE Saving'
<1> DEFINE old == db[s]
           new == Ended(old, DirtyAgain(old))
<1>1. old \in Dbs /\ old.retry >= 1
  BY DEF Saving, TypeOK, FailSave, SavesWell
<1>2. DirtyAgain(old) \in Nat /\ DirtyAgain(old) # 0
  BY <1>1 DEF DirtyAgain, Dbs
<1>3. new \in Dbs /\ new.at \in {"closed", "idle"} /\ (new.at = "idle" => new.dirty # 0)
  BY <1>1, <1>2, EndedFields
<1>4. db' = [db EXCEPT ![s] = new]
  BY DEF FailSave, Saving, TypeOK
<1> HIDE DEF new
<1>5. db'[s] = new /\ UNCHANGED touched
  BY <1>4 DEF FailSave, Saving, TypeOK
<1>6. SavesWell(s)' /\ HasSaved(s)'
  BY <1>3, <1>5 DEF SavesWell, HasSaved
<1> QED
  BY <1>3, <1>4, <1>5, <1>6, OneShellOnly DEF FailSave, Saving, TypeOK

LEMMA KillSaves == ASSUME Saving, NEW s \in Shells, Kill(s) PROVE Saving'
<1>1. db'[s] = Closed /\ UNCHANGED touched
  BY DEF Kill, Saving, TypeOK
<1>2. SavesWell(s)' /\ HasSaved(s)'
  BY <1>1, ClosedIsDb DEF SavesWell, HasSaved
<1> QED
  BY <1>1, <1>2, ClosedIsDb, OneShellOnly DEF Kill, Saving, TypeOK

\* What a save writes holds what the file it has seen holds, and what is in memory.
LEMMA SaveHolds ==
  ASSUME NEW seen \in Files, NEW mem \in Entries, NEW file \in Pruned(Merged(seen, mem)),
         NEW k \in Keys
  PROVE  /\ file \in Entries
         /\ Holds(file, k, mem[k]) /\ Holds(file, k, 0)
         /\ \A w \in Nat : seen.kind = "ours" /\ Holds(seen.entries, k, w) => Holds(file, k, w)
<1> DEFINE merged == Merged(seen, mem)
<1>1. merged \in Entries /\ file \in Entries /\ seen.entries \in Entries
  BY MergedIsEntries, PrunedIsEntries DEF Files
<1>2. mem[k] \in Nat /\ merged[k] \in Nat
  BY <1>1, BoundsAssumption DEF Entries
<1>3. \A w \in Nat : Holds(merged, k, w) => Holds(file, k, w)
  BY <1>1, HoldsPruned
<1>4. merged[k] >= mem[k]
  <2>1. CASE seen.kind = "absent"
    BY <1>2, <2>1 DEF Merged
  <2>2. CASE seen.kind # "absent"
    BY <1>1, <2>2, EmptyIsEntries, MergeIsLarger DEF Merged, Deserialize
  <2> QED
    BY <2>1, <2>2
<1>5. ASSUME seen.kind = "ours", NEW w \in Nat, Holds(seen.entries, k, w)
      PROVE  Holds(merged, k, w)
  <2>1. merged = MergeSnapshots(seen.entries, mem)
    BY <1>5 DEF Merged, Deserialize
  <2>2. \A o \in Keys : seen.entries[o] <= merged[o]
    <3>1. \A o \in Keys : seen.entries[o] \in Nat /\ merged[o] \in Nat
      BY <1>1, BoundsAssumption DEF Entries
    <3> QED
      BY <1>1, <2>1, <3>1, MergeIsLarger
  <2> HIDE DEF merged
  <2> QED
    BY <1>1, <1>5, <2>2, HoldsMore
<1> HIDE DEF merged
<1>6. Holds(merged, k, mem[k]) /\ Holds(merged, k, 0)
  BY <1>2, <1>4 DEF Holds
<1> QED
  BY <1>1, <1>2, <1>3, <1>5, <1>6

LEMMA RenameSaves == ASSUME Saving, NEW s \in Shells, Rename(s) PROVE Saving'
<1> DEFINE old == db[s]
           new == Ended(old, old.dirty)
<1>1. /\ old \in Dbs /\ old.at = "rename" /\ SavesWell(s) /\ disk \in Files
      /\ old.mem \in Entries /\ old.seen \in Files /\ old.file \in Entries /\ old.dirty \in Nat
      /\ old.file \in Pruned(Merged(old.seen, old.mem))
      /\ old.seen.kind = "newer" => raced
  BY DEF Saving, TypeOK, Rename, SavesWell, Dbs
<1>2. /\ new \in Dbs /\ new.at \in {"closed", "idle"}
      /\ new.at = "idle" => new.mem = old.mem
  BY <1>1, EndedFields
<1>3. db' = [db EXCEPT ![s] = new]
  BY DEF Rename, Saving, TypeOK
<1> HIDE DEF new
<1>4. db'[s] = new /\ UNCHANGED touched /\ touched[s] \in SUBSET Keys
  BY <1>3 DEF Rename, Saving, TypeOK
<1>5. \A k \in Keys : /\ promised[k] \in 0 .. MaxStored /\ old.mem[k] \in 0 .. MaxStored
                      /\ promised'[k] = IF k \in touched[s] THEN Larger(promised[k], old.mem[k])
                                        ELSE promised[k]
  BY <1>1 DEF Rename, Saving, TypeOK, Entries
<1>6. /\ promised' \in Entries
      /\ \A k \in Keys : /\ promised[k] <= promised'[k]
                         /\ promised'[k] \in {promised[k], old.mem[k]}
                         /\ k \in touched[s] => old.mem[k] <= promised'[k]
  <2>1. \A k \in Keys : promised'[k] \in {promised[k], old.mem[k]}
                        /\ promised[k] <= promised'[k]
                        /\ (k \in touched[s] => old.mem[k] <= promised'[k])
    BY <1>5, BoundsAssumption DEF Larger
  <2>2. \A k \in Keys : promised'[k] \in 0 .. MaxStored
    BY <1>5, <2>1
  <2>3. promised' = [k \in Keys |-> promised'[k]]
    BY DEF Rename
  <2> QED
    BY <2>1, <2>2, <2>3 DEF Entries
<1>7. SavesWell(s)' /\ HasSaved(s)'
  BY <1>2, <1>4, <1>6 DEF SavesWell, HasSaved
<1>8. disk' \in Files /\ disk'.kind = "ours" /\ disk'.entries = old.file
  BY <1>1 DEF Rename, Files
<1>9. raced' \in BOOLEAN /\ (raced => raced') /\ (disk # old.seen => raced')
  BY DEF Rename, Saving, TypeOK
<1>10. db' \in [Shells -> Dbs] /\ \A o \in Shells : SavesWell(o)' /\ HasSaved(o)'
  BY <1>2, <1>3, <1>4, <1>6, <1>7, <1>9, OneShellMoves
<1>11. ASSUME ~raced', NEW k \in Keys
       PROVE  Holds(old.file, k, promised'[k])
  <2>1. ~raced /\ disk = old.seen /\ disk.kind # "newer"
    BY <1>1, <1>9, <1>11
  <2>2. Holds(old.file, k, old.mem[k]) /\ Holds(old.file, k, 0)
    BY <1>1, SaveHolds
  <2>3. CASE disk.kind = "ours"
    <3>1. Holds(disk.entries, k, promised[k]) /\ promised[k] \in Nat
      BY <1>5, <2>1, <2>3 DEF Saving, SavedStays
    <3>2. Holds(old.file, k, promised[k])
      BY <1>1, <2>1, <2>3, <3>1, SaveHolds
    <3> QED
      BY <1>6, <2>2, <3>2
  <2>4. CASE disk.kind # "ours"
    <3>1. promised[k] = 0
      BY <1>1, <2>1, <2>4 DEF Saving, Files
    <3> QED
      BY <1>6, <2>2, <3>1
  <2> QED
    BY <2>3, <2>4
<1>12. SavedStays'
  BY <1>8, <1>11 DEF SavedStays
<1> QED
  BY <1>4, <1>6, <1>8, <1>9, <1>10, <1>12 DEF Saving, TypeOK, Rename

LEMMA UpgradeSaves == ASSUME Saving, Upgrade PROVE Saving'
<1>1. disk' \in Files /\ disk'.kind = "newer"
  BY EmptyIsEntries DEF Upgrade, Files
<1>2. SavedStays'
  BY <1>1 DEF SavedStays
<1>3. \A s \in Shells : SavesWell(s)' /\ HasSaved(s)'
  BY DEF Upgrade, Saving, SavesWell, HasSaved
<1> QED
  BY <1>1, <1>2, <1>3 DEF Saving, TypeOK, Upgrade

LEMMA NextSaves == Saving /\ [Next]_vars => Saving'
<1> SUFFICES ASSUME Saving, [Next]_vars PROVE Saving'
  OBVIOUS
<1>1. ASSUME NEW s \in Shells, NEW k \in Keys, Record(s, k) PROVE Saving'
  BY <1>1, RecordSaves
<1>2. ASSUME NEW s \in Shells,
             \/ Load(s) \/ Flush(s) \/ PeekDiskVersion(s) \/ WriteTemporary(s) \/ Rename(s)
             \/ FailSave(s) \/ Kill(s)
      PROVE  Saving'
  BY <1>2, LoadSaves, FlushSaves, PeekSaves, WriteTemporarySaves, RenameSaves, FailSaveSaves,
     KillSaves
<1>3. CASE UNCHANGED vars
  BY <1>3 DEF vars, Saving, TypeOK, SavesWell, HasSaved, SavedStays
<1> QED
  BY <1>1, <1>2, <1>3, UpgradeSaves DEF Next

-----------------------------------------------------------------------------
(* The theorems.                                                           *)

\* Whoever saves, fails or is killed, each save in progress is of the memory of its shell
\* over the file it has seen, with a count to restore when it fails: the inductive invariant
\* of record, flush and save_snapshot, with the types.
THEOREM SpecSaving == Spec => []Saving
BY InitSaving, NextSaves, PTL DEF Spec

\* As long as no shell renames over a file it has not read, the worth that any shell has
\* saved for a key stays in the file, or MaxEntries entries at least as good have taken its
\* place (save_snapshot, merge_snapshots and the pruning).
THEOREM SpecSavedStays == Spec => []SavedStays
<1>1. Saving => SavedStays
  BY DEF Saving
<1> QED
  BY <1>1, SpecSaving, PTL

\* A shell that counts no unsaved record has saved every key it has recorded, however many
\* of its saves have failed (record, flush: the restored dirty_count).
THEOREM SpecCleanIsSaved == Spec => []CleanIsSaved
<1>1. Saving => CleanIsSaved
  BY DEF Saving, HasSaved, CleanIsSaved
<1> QED
  BY <1>1, SpecSaving, PTL

\* The file of a later release is replaced only by a shell that had looked at the file before
\* that release wrote it (peek_disk_version).
THEOREM SpecNewerIsSpared == Spec => NewerIsSpared
<1>1. Saving /\ [Next]_vars => (disk.kind = "newer" /\ disk'.kind # "newer" => raced')
  <2> SUFFICES ASSUME Saving, Next, disk.kind = "newer", disk'.kind # "newer" PROVE raced'
    BY DEF vars
  <2>1. PICK s \in Shells : Rename(s)
    BY DEF Next, Load, Record, Flush, PeekDiskVersion, WriteTemporary, FailSave, Kill, Upgrade
  <2>2. raced \/ db[s].seen.kind # "newer"
    BY <2>1 DEF Saving, SavesWell, Rename
  <2> QED
    BY <2>1, <2>2 DEF Rename, Saving, TypeOK
<1> QED
  BY <1>1, SpecSaving, PTL DEF Spec, NewerIsSpared

-----------------------------------------------------------------------------
(* SpecStore: what holds while the specs are in use.                       *)

Arcs == [file : SpecFiles, name : Aliases \cup {None}, aliases : SUBSET Aliases,
         headless : BOOLEAN, creates : BOOLEAN]

\* Every Arc that is found or swept is one that was made.
StoreTypes ==
  /\ arcs \in Seq(Arcs) /\ entries \in Seq(DOMAIN arcs)
  /\ byAlias \in [Aliases -> Seq(DOMAIN arcs)]

SlotTypes ==
  /\ slot \in [DOMAIN arcs -> {"Empty", "Loaded", "Failed", "Evicted"}]
  /\ accessed \in [DOMAIN arcs -> Nat] /\ clock \in Nat
  /\ \A arc \in DOMAIN arcs : accessed[arc] <= clock

Lookups == [at : {"idle", "read", "write"}, alias : Aliases \cup {None}, i : Nat,
            result : DOMAIN arcs \cup {None}]

\* The Arcs the sweep goes through.
Live == ToSet(entries)

Sweeps == [at : {"idle", "peek", "idle entry", "measure", "snapshot", "backstop", "swept"},
           now : Nat, todo : Seq(Live),
           victims : SUBSET [arc : Live, ts : Nat],
           resident : Nat, measured : Nat, looked : Nat]

\* A lookup under way has failures behind it, and a candidate before it.
LooksUp(r) ==
  reader[r].at # "idle" =>
    /\ reader[r].alias \in Aliases /\ reader[r].i \in DOMAIN Candidates(r)
    /\ \A k \in DOMAIN Candidates(r) : k < reader[r].i => slot[Candidates(r)[k]] = "Failed"

Looking == reader \in [Readers -> Lookups] /\ (\A r \in Readers : LooksUp(r)) /\ FirstThatParses

\* What the sweep has looked at, it has looked at by now.
Looked ==
  /\ sweep \in Sweeps
  /\ sweep.looked <= clock /\ sweep.measured <= clock
  /\ \A v \in sweep.victims : v.ts <= sweep.looked
  /\ sweep.at \in {"peek", "idle entry"} => sweep.now = sweep.looked
  /\ sweep.at = "idle entry" => sweep.todo # <<>>
  /\ sweep.at = "swept" => sweep.victims = {}

\* The entries that count against the cap, those read since it was measured apart.
Unread == {arc \in LoadedArcs : accessed[arc] <= sweep.measured}
Ahead == ToSet(sweep.todo)

Listed(arc) == [arc |-> arc, ts |-> accessed[arc]] \in sweep.victims

Counted ==
  /\ sweep.at = "measure" => Cardinality(Unread \ Ahead) <= sweep.resident
  /\ sweep.at = "snapshot" =>
       /\ Cardinality(Unread) <= sweep.resident
       /\ \A arc \in Unread \ Ahead : IsWarm(arc) \/ Listed(arc)
  /\ sweep.at = "backstop" =>
       \/ \A arc \in Unread : IsWarm(arc)
       \/ /\ Cardinality(Unread) <= sweep.resident
          /\ \A arc \in Unread : IsWarm(arc) \/ Listed(arc)
  /\ CapIsReached

InUse == StoreTypes /\ SlotTypes /\ Looking /\ Looked /\ Counted

-----------------------------------------------------------------------------
(* Loading a store: E are its entries, B what is under each alias, A its   *)
(* Arcs so far.                                                            *)

Stores == [entries : Seq(Nat), byAlias : [Aliases -> Seq(Nat)], arcs : Seq(Arcs)]

FileAt(E, A, p) == A[E[p]].file

\* Before, for the entries at p and q.
Precedes(E, A, a, p, q) ==
  LET x == FileAt(E, A, p)
      y == FileAt(E, A, q)
  IN  \/ x.dir < y.dir
      \/ /\ x.dir = y.dir
         /\ \/ x.stem = a /\ y.stem # a
            \/ x.stem = a /\ y.stem = a /\ p < q
            \/ x.stem # a /\ y.stem # a /\ p < q

\* Aliases lead to entries, in the promised order.
Ordered(E, B, A) ==
  /\ A \in Seq(Arcs) /\ E \in Seq(DOMAIN A) /\ B \in [Aliases -> Seq(ToSet(E))]
  /\ \A p, q \in DOMAIN E : E[p] = E[q] => p = q
  /\ \A a \in Aliases : \A i \in DOMAIN B[a] : a \in A[B[a][i]].aliases
  /\ \A a \in Aliases : \A i, j \in DOMAIN B[a] : \A p, q \in DOMAIN E :
       j < i /\ B[a][j] = E[p] /\ B[a][i] = E[q] => Precedes(E, A, a, p, q)

\* Every entry is found under its stem.
Found(E, B, A) == \A p \in DOMAIN E : E[p] \in ToSet(B[FileAt(E, A, p).stem])

\* The first b entries are of the directories before d, the others of d, of which
\* those behind the first n are not yet found under the names they declare.
Named(E, B, A, d, b, n) ==
  /\ \A p \in DOMAIN E : /\ p <= b => FileAt(E, A, p).dir < d
                         /\ p > b => FileAt(E, A, p).dir = d
  /\ \A a \in Aliases : \A i \in DOMAIN B[a] : \A p \in DOMAIN E :
       B[a][i] = E[p] /\ p > b + n => FileAt(E, A, p).stem = a

\* One more entry, under nothing yet.
LEMMA OneMoreEntry ==
  ASSUME NEW E, NEW B, NEW A, Ordered(E, B, A), NEW arc \in Arcs
  PROVE  LET E1 == Append(E, Len(A) + 1)
             A1 == Append(A, arc)
         IN  /\ Ordered(E1, B, A1)
             /\ Len(E1) = Len(E) + 1 /\ E1[Len(E) + 1] = Len(A) + 1 /\ A1[Len(A) + 1] = arc
             /\ \A p \in DOMAIN E : E1[p] = E[p] /\ E1[p] # Len(A) + 1
                                    /\ FileAt(E1, A1, p) = FileAt(E, A, p)
             /\ Len(A) + 1 \notin ToSet(E)
<1> DEFINE new == Len(A) + 1
           E1 == Append(E, new)
           A1 == Append(A, arc)
<1>0. A \in Seq(Arcs) /\ E \in Seq(DOMAIN A) /\ B \in [Aliases -> Seq(ToSet(E))]
      /\ Len(A) \in Nat /\ Len(E) \in Nat /\ DOMAIN A = 1 .. Len(A) /\ DOMAIN E = 1 .. Len(E)
  BY DEF Ordered
<1>1. /\ A1 \in Seq(Arcs) /\ Len(A1) = Len(A) + 1 /\ A1[new] = arc
      /\ \A x \in DOMAIN A : A1[x] = A[x] /\ x # new
      /\ DOMAIN A1 = 1 .. Len(A) + 1
  BY <1>0
<1>2. /\ E1 \in Seq(DOMAIN A1) /\ Len(E1) = Len(E) + 1 /\ E1[Len(E) + 1] = new
      /\ \A p \in DOMAIN E : E1[p] = E[p] /\ E1[p] \in DOMAIN A
      /\ DOMAIN E1 = 1 .. Len(E) + 1
  <2>1. DOMAIN A \subseteq DOMAIN A1 /\ new \in DOMAIN A1
    BY <1>0, <1>1
  <2>2. \A p \in DOMAIN E : E[p] \in DOMAIN A
    BY <1>0
  <2>3. E \in Seq(DOMAIN A1)
    BY <1>0, <2>1
  <2> HIDE DEF A1, new
  <2> QED
    BY <1>0, <2>1, <2>2, <2>3
<1> HIDE DEF A1, E1
<1>3. \A p \in DOMAIN E : p \in DOMAIN E1 /\ E1[p] # new /\ FileAt(E1, A1, p) = FileAt(E, A, p)
  BY <1>0, <1>1, <1>2 DEF FileAt
<1>4. new \notin ToSet(E) /\ ToSet(E) \subseteq ToSet(E1) /\ ToSet(E) \subseteq DOMAIN A
  BY <1>0, <1>1, <1>2, <1>3 DEF ToSet
<1> HIDE DEF new
<1>5. B \in [Aliases -> Seq(ToSet(E1))]
  BY <1>0, <1>4
<1>6. \A p \in DOMAIN E1 : p \in DOMAIN E \/ (E1[p] = new /\ p = Len(E) + 1)
  BY <1>0, <1>2
<1>7. \A p, q \in DOMAIN E1 : E1[p] = E1[q] => p = q
  <2>1. \A p, q \in DOMAIN E : E[p] = E[q] => p = q
    BY DEF Ordered
  <2> QED
    BY <1>2, <1>3, <1>6, <2>1
<1>8. ASSUME NEW a \in Aliases, NEW i \in DOMAIN B[a]
      PROVE  B[a][i] \in ToSet(E) /\ a \in A1[B[a][i]].aliases
  <2>1. B[a][i] \in ToSet(E)
    BY <1>0
  <2>2. A1[B[a][i]] = A[B[a][i]]
    BY <1>1, <1>4, <2>1
  <2> QED
    BY <2>1, <2>2 DEF Ordered
<1>9. ASSUME NEW a \in Aliases, NEW i \in DOMAIN B[a], NEW j \in DOMAIN B[a],
             NEW p \in DOMAIN E1, NEW q \in DOMAIN E1,
             j < i, B[a][j] = E1[p], B[a][i] = E1[q]
      PROVE  Precedes(E1, A1, a, p, q)
  <2>1. p \in DOMAIN E /\ q \in DOMAIN E
    BY <1>4, <1>6, <1>8, <1>9
  <2>2. B[a][j] = E[p] /\ B[a][i] = E[q]
    BY <1>2, <1>9, <2>1
  <2>3. Precedes(E, A, a, p, q)
    BY <1>9, <2>1, <2>2 DEF Ordered
  <2> QED
    BY <1>3, <2>1, <2>3 DEF Precedes
<1>10. Ordered(E1, B, A1)
  BY <1>1, <1>2, <1>5, <1>7, <1>8, <1>9 DEF Ordered
<1> QED
  BY <1>1, <1>2, <1>3, <1>4, <1>10 DEF new, E1, A1

\* The entry at q is under a already, or belongs behind those who are.
Follows(E, B, A, a, q) ==
  \/ E[q] \in ToSet(B[a])
  \/ \A i \in DOMAIN B[a] : \A p \in DOMAIN E : B[a][i] = E[p] => Precedes(E, A, a, p, q)

\* push_alias_candidate, of what belongs behind those already there.
LEMMA PushedInOrder ==
  ASSUME NEW E, NEW B, NEW A, Ordered(E, B, A), NEW a \in Aliases, NEW q \in DOMAIN E,
         a \in A[E[q]].aliases, Follows(E, B, A, a, q)
  PROVE  LET B1 == Pushed(B, a, E[q]) IN
         /\ Ordered(E, B1, A) /\ E[q] \in ToSet(B1[a])
         /\ \A c \in Aliases : ToSet(B[c]) \subseteq ToSet(B1[c])
         /\ \A c \in Aliases : \A i \in DOMAIN B1[c] :
              \/ i \in DOMAIN B[c] /\ B1[c][i] = B[c][i]
              \/ c = a /\ B1[c][i] = E[q]
<1> DEFINE x == E[q]
           B1 == Pushed(B, a, x)
<1>0. A \in Seq(Arcs) /\ E \in Seq(DOMAIN A) /\ B \in [Aliases -> Seq(ToSet(E))]
  BY DEF Ordered
<1>1. CASE x \in ToSet(B[a])
  <2>1. B1 = B
    BY <1>1 DEF Pushed
  <2> QED
    BY <1>1, <2>1
<1>2. CASE x \notin ToSet(B[a])
  <2>1. B1 = [B EXCEPT ![a] = Append(B[a], x)]
    BY <1>2 DEF Pushed
  <2>2. x \in ToSet(E)
    BY DEF ToSet
  <2> DEFINE s == Append(B[a], x)
             n == Len(B[a])
  <2>3. /\ s \in Seq(ToSet(E)) /\ Len(s) = n + 1 /\ s[n + 1] = x /\ n \in Nat
        /\ \A i \in 1 .. n : s[i] = B[a][i]
        /\ DOMAIN s = 1 .. n + 1 /\ DOMAIN B[a] = 1 .. n
    <3>1. B[a] \in Seq(ToSet(E))
      BY <1>0
    <3> HIDE DEF x
    <3> QED
      BY <2>2, <3>1
  <2>4. B1 \in [Aliases -> Seq(ToSet(E))] /\ B1[a] = s /\ \A c \in Aliases : c # a => B1[c] = B[c]
    <3> HIDE DEF x, B1, s
    <3>1. B1 = [B EXCEPT ![a] = s]
      BY <2>1 DEF s
    <3> QED
      BY <1>0, <2>3, <3>1
  <2> HIDE DEF B1, s, n
  <2>5. \A c \in Aliases : \A i \in DOMAIN B1[c] :
           \/ i \in DOMAIN B[c] /\ B1[c][i] = B[c][i]
           \/ c = a /\ B1[c][i] = x /\ i = n + 1
    BY <2>3, <2>4
  <2>6. \A c \in Aliases : ToSet(B[c]) \subseteq ToSet(B1[c])
    <3>1. \A i \in DOMAIN B[a] : i \in DOMAIN s /\ s[i] = B[a][i]
      BY <2>3
    <3> QED
      BY <2>4, <3>1 DEF ToSet
  <2>7. x \in ToSet(B1[a])
    BY <2>3, <2>4 DEF ToSet
  <2>8. ASSUME NEW c \in Aliases, NEW i \in DOMAIN B1[c] PROVE c \in A[B1[c][i]].aliases
    BY <2>5 DEF Ordered
  <2>9. ASSUME NEW c \in Aliases, NEW i \in DOMAIN B1[c], NEW j \in DOMAIN B1[c],
               NEW p \in DOMAIN E, NEW r \in DOMAIN E,
               j < i, B1[c][j] = E[p], B1[c][i] = E[r]
        PROVE  Precedes(E, A, c, p, r)
    <3>1. j \in DOMAIN B[c] /\ B1[c][j] = B[c][j]
      <4>1. CASE c = a
        BY <2>3, <2>4, <2>9, <4>1
      <4>2. CASE c # a
        BY <2>4, <4>2
      <4> QED
        BY <4>1, <4>2
    <3>2. CASE i \in DOMAIN B[c] /\ B1[c][i] = B[c][i]
      BY <2>9, <3>1, <3>2 DEF Ordered
    <3>3. CASE c = a /\ B1[c][i] = x
      <4>1. r = q
        BY <2>9, <3>3 DEF Ordered
      <4>2. B[a][j] = E[p] /\ j \in DOMAIN B[a]
        BY <2>9, <3>1, <3>3
      <4>3. Precedes(E, A, a, p, q)
        BY <1>2, <4>2 DEF Follows
      <4> QED
        BY <3>3, <4>1, <4>3
    <3> QED
      BY <2>5, <3>2, <3>3
  <2>10. Ordered(E, B1, A)
    BY <1>0, <2>4, <2>8, <2>9 DEF Ordered
  <2> QED
    BY <2>5, <2>6, <2>7, <2>10 DEF B1
<1> QED
  BY <1>1, <1>2

\* replace_entry_arc: a new Arc of the same file, with more aliases, wherever the old
\* one was.
LEMMA ReplacedInOrder ==
  ASSUME NEW E, NEW B, NEW A, Ordered(E, B, A), NEW k \in DOMAIN E, NEW arc \in Arcs,
         arc.file = A[E[k]].file, A[E[k]].aliases \subseteq arc.aliases
  PROVE  LET new == Len(A) + 1
             E1 == Swapped(E, E[k], new)
             B1 == [a \in Aliases |-> Swapped(B[a], E[k], new)]
             A1 == Append(A, arc)
         IN  /\ Ordered(E1, B1, A1) /\ E1[k] = new /\ A1[new] = arc
             /\ DOMAIN E1 = DOMAIN E
             /\ \A p \in DOMAIN E : FileAt(E1, A1, p) = FileAt(E, A, p)
             /\ \A a \in Aliases : DOMAIN B1[a] = DOMAIN B[a]
             /\ \A a \in Aliases : \A i \in DOMAIN B[a] : \A p \in DOMAIN E :
                  B1[a][i] = E1[p] <=> B[a][i] = E[p]
<1> DEFINE old == E[k]
           new == Len(A) + 1
           E1 == Swapped(E, old, new)
           B1 == [a \in Aliases |-> Swapped(B[a], old, new)]
           A1 == Append(A, arc)
<1>0. A \in Seq(Arcs) /\ E \in Seq(DOMAIN A) /\ B \in [Aliases -> Seq(ToSet(E))]
      /\ Len(A) \in Nat /\ DOMAIN A = 1 .. Len(A) /\ ToSet(E) \subseteq DOMAIN A
      /\ old \in DOMAIN A
  BY DEF Ordered, ToSet
<1>1. /\ A1 \in Seq(Arcs) /\ A1[new] = arc
      /\ \A x \in DOMAIN A : A1[x] = A[x] /\ x # new /\ x \in DOMAIN A1
      /\ new \in DOMAIN A1
  BY <1>0
<1> HIDE DEF new, A1, old
<1>2. ASSUME NEW S, NEW s \in Seq(S)
      PROVE  /\ DOMAIN Swapped(s, old, new) = DOMAIN s /\ Len(s) \in Nat
             /\ Swapped(s, old, new) \in Seq({IF y = old THEN new ELSE y : y \in S})
             /\ \A i \in DOMAIN s : /\ Swapped(s, old, new)[i] = IF s[i] = old THEN new ELSE s[i]
                                    /\ s[i] \in S
  <2>1. \A i \in DOMAIN s : s[i] \in S
    BY <1>2
  <2>2. DOMAIN s = 1 .. Len(s) /\ Len(s) \in Nat
    BY <1>2
  <2> QED
    BY <2>1, <2>2 DEF Swapped
<1>3. /\ DOMAIN E1 = DOMAIN E
      /\ \A p \in DOMAIN E : /\ E1[p] = IF E[p] = old THEN new ELSE E[p]
                             /\ E[p] \in DOMAIN A
      /\ E1 \in Seq(DOMAIN A1)
  <2>1. {IF y = old THEN new ELSE y : y \in DOMAIN A} \subseteq DOMAIN A1
    BY <1>1
  <2>2. E1 \in Seq({IF y = old THEN new ELSE y : y \in DOMAIN A})
    BY <1>0, <1>2
  <2>3. E1 \in Seq(DOMAIN A1)
    <3> HIDE DEF E1
    <3> QED
      BY <2>1, <2>2
  <2> QED
    BY <1>0, <1>2, <2>3
<1>4. /\ \A a \in Aliases : DOMAIN B1[a] = DOMAIN B[a]
      /\ \A a \in Aliases : \A i \in DOMAIN B[a] :
           /\ B1[a][i] = IF B[a][i] = old THEN new ELSE B[a][i]
           /\ B[a][i] \in ToSet(E) /\ B[a][i] \in DOMAIN A
      /\ \A a \in Aliases : B1[a] \in Seq({IF y = old THEN new ELSE y : y \in ToSet(E)})
  <2>1. \A a \in Aliases : B[a] \in Seq(ToSet(E)) /\ B1[a] = Swapped(B[a], old, new)
    BY <1>0
  <2> HIDE DEF B1
  <2>2. \A a \in Aliases : \A i \in DOMAIN B[a] : B[a][i] \in ToSet(E)
    BY <2>1, <1>2
  <2>3. \A a \in Aliases : \A i \in DOMAIN B[a] : B[a][i] \in DOMAIN A
    BY <2>2, <1>0
  <2>4. \A a \in Aliases : DOMAIN B1[a] = DOMAIN B[a]
    BY <1>2, <2>1
  <2>5. \A a \in Aliases : \A i \in DOMAIN B[a] : B1[a][i] = IF B[a][i] = old THEN new ELSE B[a][i]
    BY <1>2, <2>1
  <2>6. \A a \in Aliases : B1[a] \in Seq({IF y = old THEN new ELSE y : y \in ToSet(E)})
    BY <1>2, <2>1
  <2> QED
    BY <2>2, <2>3, <2>4, <2>5, <2>6
<1>5. B1 \in [Aliases -> Seq(ToSet(E1))]
  <2> DEFINE T == {IF y = old THEN new ELSE y : y \in ToSet(E)}
             U == ToSet(E1)
  <2>1. T \subseteq U
    <3> SUFFICES ASSUME NEW p \in DOMAIN E
                 PROVE  (IF E[p] = old THEN new ELSE E[p]) \in ToSet(E1)
      BY DEF ToSet
    <3> HIDE DEF E1
    <3> QED
      BY <1>3 DEF ToSet
  <2>2. \A a \in Aliases : B1[a] \in Seq(T)
    BY <1>4
  <2>3. B1 = [a \in Aliases |-> B1[a]]
    OBVIOUS
  <2> HIDE DEF B1, T, U
  <2>4. \A a \in Aliases : B1[a] \in Seq(U)
    <3> SUFFICES ASSUME NEW a \in Aliases PROVE B1[a] \in Seq(U)
      OBVIOUS
    <3> DEFINE s == B1[a]
    <3>1. s \in Seq(T)
      BY <2>2
    <3> HIDE DEF s
    <3>2. s \in Seq(U)
      BY <2>1, <3>1
    <3> QED
      BY <3>2 DEF s
  <2>5. B1 \in [Aliases -> Seq(U)]
    BY <2>3, <2>4
  <2> QED
    BY <2>5 DEF U
<1> HIDE DEF E1, B1
<1>6. \A p \in DOMAIN E : FileAt(E1, A1, p) = FileAt(E, A, p)
  BY <1>0, <1>1, <1>3 DEF FileAt, old
<1>7. \A a \in Aliases : \A i \in DOMAIN B[a] : \A p \in DOMAIN E :
        B1[a][i] = E1[p] <=> B[a][i] = E[p]
  BY <1>1, <1>3, <1>4
<1>8. \A p, q \in DOMAIN E1 : E1[p] = E1[q] => p = q
  <2>1. \A p, q \in DOMAIN E : E[p] = E[q] => p = q
    BY DEF Ordered
  <2> QED
    BY <1>1, <1>3, <2>1
<1>9. ASSUME NEW a \in Aliases, NEW i \in DOMAIN B1[a] PROVE a \in A1[B1[a][i]].aliases
  <2>1. i \in DOMAIN B[a] /\ a \in A[B[a][i]].aliases
    BY <1>4 DEF Ordered
  <2> QED
    BY <1>1, <1>4, <2>1 DEF old
<1>10. ASSUME NEW a \in Aliases, NEW i \in DOMAIN B1[a], NEW j \in DOMAIN B1[a],
              NEW p \in DOMAIN E1, NEW q \in DOMAIN E1,
              j < i, B1[a][j] = E1[p], B1[a][i] = E1[q]
       PROVE  Precedes(E1, A1, a, p, q)
  <2>1. i \in DOMAIN B[a] /\ j \in DOMAIN B[a] /\ p \in DOMAIN E /\ q \in DOMAIN E
    BY <1>3, <1>4
  <2>2. B[a][j] = E[p] /\ B[a][i] = E[q]
    BY <1>7, <1>10, <2>1
  <2>3. Precedes(E, A, a, p, q)
    BY <1>10, <2>1, <2>2 DEF Ordered
  <2> QED
    BY <1>6, <2>1, <2>3 DEF Precedes
<1>11. Ordered(E1, B1, A1)
  BY <1>1, <1>3, <1>5, <1>8, <1>9, <1>10 DEF Ordered
<1>12. E1[k] = new
  BY <1>3 DEF old
<1> QED
  BY <1>1, <1>3, <1>4, <1>6, <1>7, <1>11, <1>12 DEF E1, B1, A1, new, old

-----------------------------------------------------------------------------
(* A store while directory d is loaded, whose files are the entries behind *)
(* the first b; n of them have been looked up by the name they declare.    *)

Loading(st, d, b, n) ==
  /\ st \in Stores
  /\ Ordered(st.entries, st.byAlias, st.arcs)
  /\ Found(st.entries, st.byAlias, st.arcs)
  /\ Named(st.entries, st.byAlias, st.arcs, d, b, n)

\* What is in order is a store, whatever becomes of its entries.
LEMMA OrderedIsStore ==
  ASSUME NEW E, NEW B, NEW A, Ordered(E, B, A)
  PROVE  [entries |-> E, byAlias |-> B, arcs |-> A] \in Stores
<1>1. A \in Seq(Arcs) /\ E \in Seq(DOMAIN A) /\ B \in [Aliases -> Seq(ToSet(E))]
      /\ DOMAIN A \subseteq Nat /\ ToSet(E) \subseteq DOMAIN A
  BY DEF Ordered, ToSet
<1>2. ASSUME NEW S, NEW T, S \subseteq T, NEW s \in Seq(S) PROVE s \in Seq(T)
  BY <1>2
<1>3. ToSet(E) \subseteq Nat
  BY <1>1
<1> DEFINE T == ToSet(E)
<1>4. \A a \in Aliases : B[a] \in Seq(T)
  BY <1>1
<1>5. B = [a \in Aliases |-> B[a]]
  BY <1>1
<1> HIDE DEF T
<1>6. \A a \in Aliases : B[a] \in Seq(Nat)
  BY <1>2, <1>3, <1>4 DEF T
<1>7. B \in [Aliases -> Seq(Nat)]
  BY <1>5, <1>6
<1>8. E \in Seq(Nat)
  BY <1>1, <1>2
<1> QED
  BY <1>1, <1>7, <1>8 DEF Stores

\* The stem of a file is a command that can be looked up.
LEMMA StemIsAlias ==
  ASSUME NEW E, NEW B, NEW A, Ordered(E, B, A), NEW p \in DOMAIN E
  PROVE  FileAt(E, A, p).stem \in Aliases
<1>1. A \in Seq(Arcs) /\ E[p] \in DOMAIN A
  BY DEF Ordered
<1>2. A[E[p]] \in Arcs
  BY <1>1
<1> QED
  BY <1>2 DEF FileAt, Arcs, SpecFiles

\* Pass 1, a file: its entry is behind those of its directory under its stem.
LEMMA StemKeeps ==
  ASSUME NEW st, NEW d \in Nat, NEW b \in Nat, Loading(st, d, b, 0), b <= Len(st.entries),
         NEW file \in SpecFiles, file.dir = d, NEW headless \in BOOLEAN
  PROVE  /\ Loading(WithStem(st, file, headless), d, b, 0)
         /\ Len(WithStem(st, file, headless).entries) = Len(st.entries) + 1
<1> DEFINE E == st.entries
           B == st.byAlias
           A == st.arcs
           new == Len(A) + 1
           a == file.stem
           arc == [file |-> file, name |-> IF headless THEN None ELSE file.name,
                   aliases |-> {a}, headless |-> headless, creates |-> B[a] = <<>>]
           E1 == Append(E, new)
           A1 == Append(A, arc)
           B1 == Pushed(B, a, new)
           q == Len(E) + 1
<1>0. /\ Ordered(E, B, A) /\ Found(E, B, A) /\ Named(E, B, A, d, b, 0)
      /\ b <= Len(E)
  BY DEF Loading
<1>1. a \in Aliases /\ arc \in Arcs
  BY DEF SpecFiles, Arcs
<1>2. WithStem(st, file, headless) = [entries |-> E1, byAlias |-> B1, arcs |-> A1]
  BY DEF WithStem
<1>3. A \in Seq(Arcs) /\ E \in Seq(DOMAIN A) /\ B \in [Aliases -> Seq(ToSet(E))]
      /\ Len(A) \in Nat /\ Len(E) \in Nat
  BY <1>0 DEF Ordered
<1>4. arc.file = file /\ arc.aliases = {a}
  OBVIOUS
<1> HIDE DEF E, B, A, a, arc
<1>5. /\ Ordered(E1, B, A1)
      /\ Len(E1) = q /\ E1[q] = new /\ A1[new] = arc
      /\ \A p \in DOMAIN E : E1[p] = E[p] /\ E1[p] # new /\ FileAt(E1, A1, p) = FileAt(E, A, p)
      /\ new \notin ToSet(E)
  BY <1>0, <1>1, OneMoreEntry
<1>6. /\ \A p \in DOMAIN E1 : p \in DOMAIN E \/ p = q
      /\ q \in DOMAIN E1 /\ DOMAIN E \subseteq DOMAIN E1 /\ DOMAIN E = 1 .. Len(E)
  BY <1>3
<1> HIDE DEF E1, A1, new, B1
<1>7. FileAt(E1, A1, q) = file
  BY <1>5, <1>4 DEF FileAt
<1>8. ASSUME NEW c \in Aliases, NEW i \in DOMAIN B[c], NEW p \in DOMAIN E1, B[c][i] = E1[p]
      PROVE  /\ p \in DOMAIN E /\ B[c][i] = E[p]
             /\ p <= b => FileAt(E1, A1, p).dir < d
             /\ p > b => FileAt(E1, A1, p).dir = d /\ FileAt(E1, A1, p).stem = c
  <2>1. B[c][i] \in ToSet(E)
    BY <1>3
  <2>2. p \in DOMAIN E
    BY <1>5, <1>6, <1>8, <2>1
  <2>3. B[c][i] = E[p] /\ FileAt(E1, A1, p) = FileAt(E, A, p)
    BY <1>5, <1>8, <2>2
  <2> QED
    BY <1>0, <2>2, <2>3 DEF Named
<1>9. \A i \in DOMAIN B[a] : \A p \in DOMAIN E1 : B[a][i] = E1[p] => Precedes(E1, A1, a, p, q)
  <2> SUFFICES ASSUME NEW i \in DOMAIN B[a], NEW p \in DOMAIN E1, B[a][i] = E1[p]
               PROVE  Precedes(E1, A1, a, p, q)
    OBVIOUS
  <2>1. p \in DOMAIN E /\ p < q /\ p \in Nat
    BY <1>1, <1>3, <1>6, <1>8
  <2>2. CASE p <= b
    BY <1>1, <1>7, <1>8, <2>2 DEF Precedes
  <2>3. CASE p > b
    BY <1>1, <1>7, <1>8, <2>1, <2>3 DEF Precedes, a
  <2> QED
    BY <2>1, <2>2, <2>3
<1>10. a \in A1[E1[q]].aliases
  BY <1>5, <1>4
<1>11. /\ Ordered(E1, B1, A1) /\ new \in ToSet(B1[a])
       /\ \A c \in Aliases : ToSet(B[c]) \subseteq ToSet(B1[c])
       /\ \A c \in Aliases : \A i \in DOMAIN B1[c] :
            \/ i \in DOMAIN B[c] /\ B1[c][i] = B[c][i]
            \/ c = a /\ B1[c][i] = new
  <2>1. Follows(E1, B, A1, a, q)
    BY <1>9 DEF Follows
  <2>2. Ordered(E1, B, A1) /\ a \in Aliases /\ q \in DOMAIN E1 /\ a \in A1[E1[q]].aliases
    BY <1>1, <1>5, <1>6, <1>10
  <2> HIDE DEF q
  <2> DEFINE C == Pushed(B, a, E1[q])
  <2>3. Ordered(E1, C, A1) /\ \A c \in Aliases : ToSet(B[c]) \subseteq ToSet(C[c])
    BY <2>1, <2>2, PushedInOrder
  <2>4. E1[q] \in ToSet(C[a])
    BY <2>1, <2>2, PushedInOrder
  <2>5. \A c \in Aliases : \A i \in DOMAIN C[c] :
          \/ i \in DOMAIN B[c] /\ C[c][i] = B[c][i]
          \/ c = a /\ C[c][i] = E1[q]
    BY <2>1, <2>2, PushedInOrder
  <2>6. E1[q] = new
    BY <1>5
  <2> QED
    BY <2>6, <2>3, <2>4, <2>5 DEF B1
<1>12. Found(E1, B1, A1)
  <2> SUFFICES ASSUME NEW p \in DOMAIN E1 PROVE E1[p] \in ToSet(B1[FileAt(E1, A1, p).stem])
    BY DEF Found
  <2>1. CASE p = q
    BY <1>5, <1>7, <1>11, <2>1 DEF a
  <2>2. CASE p \in DOMAIN E
    <3>1. E[p] \in ToSet(B[FileAt(E, A, p).stem]) /\ FileAt(E1, A1, p) = FileAt(E, A, p)
          /\ E1[p] = E[p]
      BY <1>0, <1>5, <2>2 DEF Found
    <3>2. FileAt(E, A, p).stem \in Aliases
      BY <1>0, <2>2, StemIsAlias
    <3> QED
      BY <1>11, <3>1, <3>2
  <2> QED
    BY <1>6, <2>1, <2>2
<1>13. Named(E1, B1, A1, d, b, 0)
  <2>1. ASSUME NEW p \in DOMAIN E1
        PROVE  (p <= b => FileAt(E1, A1, p).dir < d) /\ (p > b => FileAt(E1, A1, p).dir = d)
    <3>1. CASE p = q
      BY <1>0, <1>3, <1>7, <3>1
    <3>2. CASE p \in DOMAIN E
      BY <1>0, <1>5, <3>2 DEF Named
    <3> QED
      BY <1>6, <3>1, <3>2
  <2>2. ASSUME NEW c \in Aliases, NEW i \in DOMAIN B1[c], NEW p \in DOMAIN E1,
               B1[c][i] = E1[p], p > b + 0
        PROVE  FileAt(E1, A1, p).stem = c
    <3>1. CASE i \in DOMAIN B[c] /\ B1[c][i] = B[c][i]
      <4>1. p > b
        BY <2>2
      <4> QED
        <5>1. B[c][i] = E1[p] /\ i \in DOMAIN B[c]
          BY <2>2, <3>1
        <5> QED
          BY <1>8, <4>1, <5>1
    <3>2. CASE c = a /\ B1[c][i] = new
      <4>1. p = q
        BY <1>5, <1>6, <2>2, <3>2
      <4> QED
        BY <1>7, <3>2, <4>1 DEF a
    <3> QED
      BY <1>11, <3>1, <3>2
  <2> QED
    BY <2>1, <2>2 DEF Named
<1> DEFINE after == WithStem(st, file, headless)
<1>14. after.entries = E1 /\ after.byAlias = B1 /\ after.arcs = A1
       /\ after \in Stores
  BY <1>2, <1>11, OrderedIsStore
<1> HIDE DEF after
<1>15. Loading(after, d, b, 0)
  BY <1>11, <1>12, <1>13, <1>14 DEF Loading
<1> QED
  BY <1>5, <1>14, <1>15 DEF after, E

\* Pass 2, an entry: the name it declares leads to it too, behind the file of that stem
\* and those that declared the name before; the new Arc is found wherever the old one was.
LEMMA NameKeeps ==
  ASSUME NEW st, NEW d \in Nat, NEW b \in Nat, NEW k \in Nat, Loading(st, d, b, k),
         b + k + 1 <= Len(st.entries)
  PROVE  /\ Loading(WithName(st, b + (k + 1)), d, b, k + 1)
         /\ Len(WithName(st, b + (k + 1)).entries) = Len(st.entries)
<1> DEFINE E == st.entries
           B == st.byAlias
           A == st.arcs
           idx == b + (k + 1)
           old == E[idx]
           new == Len(A) + 1
           entry == A[old]
           name == entry.name
           stem == entry.file.stem
           arc == [entry EXCEPT !.aliases = @ \cup {name}]
           E1 == Swapped(E, old, new)
           B1 == [a \in Aliases |-> Swapped(B[a], old, new)]
           A1 == Append(A, arc)
           B2 == Pushed(Pushed(B1, stem, new), name, new)
           after == WithName(st, idx)
<1>0. /\ Ordered(E, B, A) /\ Found(E, B, A) /\ Named(E, B, A, d, b, k)
      /\ idx <= Len(E) /\ st \in Stores
  BY DEF Loading
<1>1. A \in Seq(Arcs) /\ E \in Seq(DOMAIN A) /\ B \in [Aliases -> Seq(ToSet(E))]
      /\ Len(A) \in Nat /\ Len(E) \in Nat /\ DOMAIN E = 1 .. Len(E) /\ idx \in DOMAIN E
      /\ idx \in Nat
  BY <1>0 DEF Ordered
<1>2. CASE after = st
  <2>1. Named(E, B, A, d, b, k + 1)
    <3>1. \A p \in DOMAIN E : p > b + (k + 1) => p > b + k
      BY <1>1
    <3> QED
      BY <1>0, <3>1 DEF Named
  <2> HIDE DEF after
  <2> QED
    BY <1>0, <1>2, <2>1 DEF Loading, after
<1>3. CASE after # st
  <2>1. /\ name \notin {None, stem}
        /\ after = [Replaced([st EXCEPT !.arcs = A1], old, new) EXCEPT !.byAlias =
                      Pushed(Pushed(@, stem, new), name, new)]
    BY <1>3 DEF WithName
  <2>2. /\ after.entries = E1 /\ after.byAlias = B2 /\ after.arcs = A1
        /\ after = [entries |-> E1, byAlias |-> B2, arcs |-> A1]
    <3> DEFINE s1 == [st EXCEPT !.arcs = A1]
               s2 == Replaced(s1, old, new)
    <3> HIDE DEF A1, old, new
    <3>1. s1 = [entries |-> E, byAlias |-> B, arcs |-> A1]
      <4>1. st = [entries |-> E, byAlias |-> B, arcs |-> A]
        BY <1>0 DEF Stores
      <4> HIDE DEF E, B, A
      <4> QED
        BY <4>1
    <3> HIDE DEF s1, E, B
    <3>2. /\ s1.entries = E /\ s1.byAlias = B /\ s1.arcs = A1
      BY <3>1
    <3>3. s2 = [entries |-> E1, byAlias |-> B1, arcs |-> A1]
      <4>1. B1 = [a \in Aliases |-> Swapped(s1.byAlias[a], old, new)]
        BY <3>2
      <4>2. E1 = Swapped(s1.entries, old, new)
        BY <3>2
      <4> HIDE DEF B1, E1
      <4>3. s2 = [s1 EXCEPT !.entries = E1, !.byAlias = B1]
        BY <3>1, <4>1, <4>2, Zenon DEF Replaced
      <4> QED
        BY <3>1, <4>3
    <3> HIDE DEF s2, E1, B1
    <3>4. after = [s2 EXCEPT !.byAlias = Pushed(Pushed(s2.byAlias, stem, new), name, new)]
      BY <2>1, <3>3 DEF s1, s2, A1, new
    <3> QED
      BY <3>3, <3>4
  <2>3. /\ entry \in Arcs /\ name \in Aliases /\ stem \in Aliases
        /\ arc \in Arcs /\ arc.file = entry.file /\ arc.aliases = entry.aliases \cup {name}
    <3>1. entry \in Arcs
      BY <1>1
    <3>2. name \in Aliases /\ stem \in Aliases
      BY <2>1, <3>1 DEF Arcs, SpecFiles
    <3> HIDE DEF name, entry
    <3> QED
      BY <3>1, <3>2 DEF Arcs
  <2> HIDE DEF arc, name, entry, after, E, B, A
  <2>4. /\ Ordered(E1, B1, A1) /\ E1[idx] = new /\ A1[new] = arc
        /\ DOMAIN E1 = DOMAIN E
        /\ \A p \in DOMAIN E : FileAt(E1, A1, p) = FileAt(E, A, p)
        /\ \A a \in Aliases : DOMAIN B1[a] = DOMAIN B[a]
        /\ \A a \in Aliases : \A i \in DOMAIN B[a] : \A p \in DOMAIN E :
             B1[a][i] = E1[p] <=> B[a][i] = E[p]
    <3> DEFINE i == idx
    <3>1. /\ i \in DOMAIN E /\ arc \in Arcs /\ arc.file = A[E[i]].file
          /\ A[E[i]].aliases \subseteq arc.aliases
      BY <1>1, <2>3 DEF entry, old
    <3> HIDE DEF i
    <3>2. LET n == Len(A) + 1
              F == Swapped(E, E[i], n)
              C == [a \in Aliases |-> Swapped(B[a], E[i], n)]
              D == Append(A, arc)
          IN  /\ Ordered(F, C, D) /\ F[i] = n /\ D[n] = arc
              /\ DOMAIN F = DOMAIN E
              /\ \A p \in DOMAIN E : FileAt(F, D, p) = FileAt(E, A, p)
              /\ \A a \in Aliases : DOMAIN C[a] = DOMAIN B[a]
              /\ \A a \in Aliases : \A j \in DOMAIN B[a] : \A p \in DOMAIN E :
                   C[a][j] = F[p] <=> B[a][j] = E[p]
      BY <1>0, <3>1, ReplacedInOrder
    <3> QED
      BY <3>2 DEF i, old
  <2> HIDE DEF E1, A1, B1, new
  <2>5. \A p, q \in DOMAIN E1 : E1[p] = E1[q] => p = q
    BY <2>4 DEF Ordered
  <2>6. Found(E1, B1, A1)
    <3> SUFFICES ASSUME NEW p \in DOMAIN E PROVE E1[p] \in ToSet(B1[FileAt(E, A, p).stem])
      BY <2>4 DEF Found
    <3> DEFINE c == FileAt(E, A, p).stem
    <3>1. c \in Aliases
      BY <1>0, StemIsAlias
    <3>2. E[p] \in ToSet(B[c])
      BY <1>0 DEF Found
    <3> HIDE DEF c
    <3>3. PICK i \in DOMAIN B[c] : B[c][i] = E[p]
      BY <3>2 DEF ToSet
    <3>4. i \in DOMAIN B1[c] /\ B1[c][i] = E1[p]
      BY <2>4, <3>1, <3>3
    <3>5. E1[p] \in ToSet(B1[c])
      BY <3>4 DEF ToSet
    <3> QED
      BY <3>5 DEF c
  <2>7. FileAt(E, A, idx).stem = stem /\ FileAt(E1, A1, idx).stem = stem
        /\ FileAt(E1, A1, idx).dir = d
    <3>1. FileAt(E, A, idx).stem = stem
      BY DEF FileAt, entry, old
    <3>2. FileAt(E, A, idx).dir = d
      BY <1>0, <1>1 DEF Named
    <3> QED
      BY <1>1, <2>4, <3>1, <3>2
  <2>8. B2 = Pushed(B1, name, new)
    <3>1. new \in ToSet(B1[stem])
      BY <1>1, <2>4, <2>6, <2>7 DEF Found
    <3> QED
      BY <3>1 DEF Pushed
  <2>9. \A i \in DOMAIN B1[name] : \A p \in DOMAIN E1 :
          B1[name][i] = E1[p] => Precedes(E1, A1, name, p, idx)
    <3> SUFFICES ASSUME NEW i \in DOMAIN B1[name], NEW p \in DOMAIN E1, B1[name][i] = E1[p]
                 PROVE  Precedes(E1, A1, name, p, idx)
      OBVIOUS
    <3>1. i \in DOMAIN B[name] /\ p \in DOMAIN E /\ B[name][i] = E[p] /\ p \in Nat
      BY <1>1, <2>3, <2>4
    <3>2. FileAt(E1, A1, p) = FileAt(E, A, p)
      BY <2>4, <3>1
    <3>3. stem # name
      BY <2>1
    <3>4. CASE p <= b
      <4>1. FileAt(E1, A1, p).dir < d
        BY <1>0, <3>1, <3>2, <3>4 DEF Named
      <4> QED
        BY <2>7, <4>1 DEF Precedes
    <3>5. CASE p > b
      <4>1. FileAt(E1, A1, p).dir = d
        BY <1>0, <3>1, <3>2, <3>5 DEF Named
      <4>2. FileAt(E1, A1, p).stem = name \/ p < idx
        <5>1. CASE p > b + k
          BY <1>0, <2>3, <3>1, <3>2, <5>1 DEF Named
        <5>2. CASE ~(p > b + k)
          BY <3>1, <5>2
        <5> QED
          BY <5>1, <5>2
      <4> QED
        BY <2>7, <3>3, <4>1, <4>2 DEF Precedes
    <3> QED
      BY <3>1, <3>4, <3>5
  <2>10. name \in A1[E1[idx]].aliases
    BY <2>3, <2>4
  <2>11. /\ Ordered(E1, B2, A1)
         /\ \A c \in Aliases : ToSet(B1[c]) \subseteq ToSet(B2[c])
         /\ \A c \in Aliases : \A i \in DOMAIN B2[c] :
              \/ i \in DOMAIN B1[c] /\ B2[c][i] = B1[c][i]
              \/ c = name /\ B2[c][i] = new
    <3> DEFINE i == idx
    <3>1. i \in DOMAIN E1 /\ name \in A1[E1[i]].aliases /\ name \in Aliases
      BY <1>1, <2>3, <2>4, <2>10
    <3>2. \A j \in DOMAIN B1[name] : \A p \in DOMAIN E1 :
            B1[name][j] = E1[p] => Precedes(E1, A1, name, p, i)
      BY <2>9
    <3>3. E1[i] = new
      BY <2>4
    <3> HIDE DEF i
    <3>4. LET C == Pushed(B1, name, E1[i]) IN
          /\ Ordered(E1, C, A1)
          /\ \A c \in Aliases : ToSet(B1[c]) \subseteq ToSet(C[c])
          /\ \A c \in Aliases : \A j \in DOMAIN C[c] :
               \/ j \in DOMAIN B1[c] /\ C[c][j] = B1[c][j]
               \/ c = name /\ C[c][j] = E1[i]
      <4>1. Follows(E1, B1, A1, name, i)
        BY <3>2 DEF Follows
      <4>2. Ordered(E1, B1, A1)
        BY <2>4
      <4> QED
        BY <3>1, <4>1, <4>2, PushedInOrder
    <3> QED
      BY <2>8, <3>3, <3>4
  <2> HIDE DEF B2
  <2>12. Found(E1, B2, A1)
    <3> SUFFICES ASSUME NEW p \in DOMAIN E1 PROVE E1[p] \in ToSet(B2[FileAt(E1, A1, p).stem])
      BY DEF Found
    <3>1. FileAt(E1, A1, p).stem \in Aliases
      BY <2>4, StemIsAlias
    <3> QED
      BY <2>6, <2>11, <3>1 DEF Found
  <2>13. Named(E1, B2, A1, d, b, k + 1)
    <3>1. \A p \in DOMAIN E1 : /\ p <= b => FileAt(E1, A1, p).dir < d
                               /\ p > b => FileAt(E1, A1, p).dir = d
      BY <1>0, <2>4 DEF Named
    <3>2. ASSUME NEW c \in Aliases, NEW i \in DOMAIN B2[c], NEW p \in DOMAIN E1,
                 B2[c][i] = E1[p], p > b + (k + 1)
          PROVE  FileAt(E1, A1, p).stem = c
      <4>1. CASE i \in DOMAIN B1[c] /\ B2[c][i] = B1[c][i]
        <5>1. i \in DOMAIN B[c] /\ B[c][i] = E[p] /\ p \in DOMAIN E
              /\ FileAt(E1, A1, p) = FileAt(E, A, p)
          <6>1. B1[c][i] = E1[p] /\ i \in DOMAIN B[c] /\ p \in DOMAIN E
            BY <2>4, <3>2, <4>1
          <6> QED
            BY <2>4, <6>1
        <5>2. p > b + k
          BY <1>1, <3>2, <5>1
        <5> QED
          BY <1>0, <5>1, <5>2 DEF Named
      <4>2. CASE B2[c][i] = new
        <5>1. p = idx
          BY <1>1, <2>4, <2>5, <3>2, <4>2
        <5> QED
          BY <1>1, <3>2, <5>1
      <4> QED
        BY <2>11, <4>1, <4>2
    <3> QED
      BY <3>1, <3>2 DEF Named
  <2>14. after \in Stores
    BY <2>2, <2>11, OrderedIsStore
  <2>15. Loading(after, d, b, k + 1)
    BY <2>2, <2>11, <2>12, <2>13, <2>14 DEF Loading
  <2>16. Len(E1) = Len(E)
    <3>1. E1 \in Seq(DOMAIN A1)
      BY <2>4 DEF Ordered
    <3> QED
      BY <1>1, <2>4, <3>1
  <2> QED
    BY <2>2, <2>15, <2>16 DEF after, E
<1> QED
  BY <1>2, <1>3

-----------------------------------------------------------------------------
(* Recursion: what a recursive function of the model is, step by step.     *)

\* A set of numbers has a smallest one.
LEMMA Smallest ==
  ASSUME NEW T \in SUBSET Nat, T # {}
  PROVE  \E m \in T : \A n \in T : m <= n
<1> DEFINE below == {0 .. n : n \in T}
<1>1. below \subseteq FiniteSubsetsOf(Nat) /\ below # {}
  <2>1. \A n \in T : 0 .. n \in SUBSET Nat /\ IsFiniteSet(0 .. n)
    BY FS_Interval
  <2> QED
    BY <2>1 DEF FiniteSubsetsOf
<1>2. PICK x \in below : \A y \in below : <<y, x>> \notin StrictSubsetOrdering(Nat)
  <2>1. IsWellFoundedOn(StrictSubsetOrdering(Nat), FiniteSubsetsOf(Nat))
    BY FS_StrictSubsetOrderingWellFounded
  <2> HIDE DEF below
  <2> QED
    BY <1>1, <2>1, WFMin
<1>3. PICK m \in T : x = 0 .. m
  OBVIOUS
<1>4. ASSUME NEW n \in T, n < m
      PROVE  FALSE
  <2>1. 0 .. n \subseteq 0 .. m /\ m \in 0 .. m /\ m \notin 0 .. n
    BY <1>4
  <2>2. <<0 .. n, 0 .. m>> \in StrictSubsetOrdering(Nat)
    BY <2>1 DEF StrictSubsetOrdering
  <2> QED
    BY <1>2, <1>3, <2>2
<1> QED
  BY <1>4

\* What holds at 0 and at each number after one where it holds.
LEMMA Inductively ==
  ASSUME NEW N \in Nat, NEW T, 0 \in T, \A i \in 1 .. N : i - 1 \in T => i \in T
  PROVE  \A i \in 0 .. N : i \in T
<1> DEFINE U == {i \in 0 .. N : i \notin T}
<1>1. SUFFICES ASSUME U # {}
               PROVE  FALSE
  OBVIOUS
<1>2. U \in SUBSET Nat
  OBVIOUS
<1>3. PICK m \in U : \A n \in U : m <= n
  <2> HIDE DEF U
  <2> QED
    BY <1>1, <1>2, Smallest
<1>4. m \in 1 .. N /\ m - 1 \in 0 .. N /\ ~(m <= m - 1)
  OBVIOUS
<1>5. m - 1 \in T
  BY <1>3, <1>4
<1> QED
  BY <1>4, <1>5

\* g is what a step at a time leads to, from p; every step is given as a function.
Steps(g, N, p, step) ==
  /\ \E S : g \in [0 .. N -> S]
  /\ g[0] = p /\ \A i \in 1 .. N : g[i] = step[i][g[i - 1]]

LEMMA Recursion ==
  ASSUME NEW N \in Nat, NEW p, NEW step
  PROVE  \E g : Steps(g, N, p, step)
<1> DEFINE F(g, m) == [i \in 0 .. m |-> IF i = 0 THEN p ELSE step[i][g[i - 1]]]
           T == {m \in 0 .. N : \E g : g = F(g, m)}
<1>1. 0 \in T
  <2> DEFINE g == [i \in 0 .. 0 |-> p]
  <2>1. g = F(g, 0)
    OBVIOUS
  <2> HIDE DEF g
  <2> QED
    BY <2>1
<1>2. ASSUME NEW m \in 1 .. N, m - 1 \in T PROVE m \in T
  <2>1. PICK g : g = F(g, m - 1)
    BY <1>2
  <2> DEFINE h == [i \in 0 .. m |-> IF i = m THEN step[m][g[m - 1]] ELSE g[i]]
  <2>2. \A i \in 0 .. m : h[i] = F(h, m)[i]
    <3> SUFFICES ASSUME NEW i \in 0 .. m
                 PROVE  h[i] = F(h, m)[i]
      OBVIOUS
    <3>1. F(h, m)[i] = IF i = 0 THEN p ELSE step[i][h[i - 1]]
      OBVIOUS
    <3>2. i # 0 => i - 1 \in 0 .. m /\ i - 1 # m /\ h[i - 1] = g[i - 1]
      OBVIOUS
    <3> HIDE DEF F
    <3>3. CASE i = m
      <4>1. h[i] = step[m][g[m - 1]]
        BY <3>3
      <4> HIDE DEF h
      <4> QED
        BY <3>1, <3>2, <3>3, <4>1
    <3>4. CASE i # m
      <4>1. i \in 0 .. m - 1
        BY <3>4
      <4>2. g[i] = IF i = 0 THEN p ELSE step[i][g[i - 1]]
        BY <2>1, <4>1 DEF F
      <4>3. h[i] = g[i]
        BY <3>4
      <4> HIDE DEF h
      <4> QED
        BY <3>1, <3>2, <4>2, <4>3
    <3> QED
      BY <3>3, <3>4
  <2>3. h = F(h, m)
    BY <2>2
  <2> HIDE DEF h
  <2> QED
    BY <2>3
<1> HIDE DEF T
<1>3. \A i \in 0 .. N : i \in T
  BY <1>1, <1>2, Inductively
<1>4. N \in T
  BY <1>3
<1>5. PICK g : g = F(g, N)
  BY <1>4 DEF T
<1>6. DOMAIN g = 0 .. N /\ \A i \in 0 .. N : g[i] = IF i = 0 THEN p ELSE step[i][g[i - 1]]
  BY <1>5
<1>7. g \in [0 .. N -> {g[i] : i \in 0 .. N}]
  BY <1>5
<1>8. g[0] = p /\ \A i \in 1 .. N : g[i] = step[i][g[i - 1]]
  BY <1>6
<1> QED
  BY <1>7, <1>8 DEF Steps

-----------------------------------------------------------------------------
(* register_entries, a directory; then the directories.                    *)

\* n of the files of directory d are entries.
Grown(st, d, b, n) == Loading(st, d, b, 0) /\ Len(st.entries) = b + n

\* Pass 1.
LEMMA StemsKeep ==
  ASSUME NEW st, NEW d \in Nat, NEW b \in Nat, Loading(st, d, b, 0), b = Len(st.entries),
         NEW dir \in Seq(SpecFiles), \A i \in DOMAIN dir : dir[i].dir = d, NEW headless
  PROVE  Grown(WithStems(st, dir, headless), d, b, Len(dir))
<1> DEFINE N == Len(dir)
           step == [i \in 1 .. N |->
                      [x \in Stores |-> WithStem(x, dir[i], dir[i] \in headless)]]
           G(g) == [i \in 0 .. N |-> IF i = 0 THEN st
                                     ELSE WithStem(g[i - 1], dir[i], dir[i] \in headless)]
           Q(x, i) == Grown(x, d, b, i)
<1>0. N \in Nat /\ DOMAIN dir = 1 .. N
  OBVIOUS
<1>1. Q(st, 0)
  BY DEF Grown
<1>2. ASSUME NEW i \in 1 .. N, NEW x, Q(x, i - 1)
      PROVE  Q(WithStem(x, dir[i], dir[i] \in headless), i)
  <2>1. dir[i] \in SpecFiles /\ dir[i].dir = d /\ (dir[i] \in headless) \in BOOLEAN
    OBVIOUS
  <2>2. Loading(x, d, b, 0) /\ Len(x.entries) = b + (i - 1) /\ b <= Len(x.entries)
    BY <1>2 DEF Grown
  <2> DEFINE f == dir[i]
             y == WithStem(x, f, f \in headless)
  <2> HIDE DEF f
  <2>3. Loading(y, d, b, 0) /\ Len(y.entries) = Len(x.entries) + 1
    BY <2>1, <2>2, StemKeeps DEF f
  <2> HIDE DEF y
  <2>4. Q(y, i)
    BY <2>2, <2>3 DEF Grown
  <2> QED
    BY <2>4 DEF y, f
<1> HIDE DEF N
<1>3. PICK g : Steps(g, N, st, step)
  <2> HIDE DEF step
  <2> QED
    BY <1>0, Recursion
<1>4. PICK S : g \in [0 .. N -> S]
  BY <1>3 DEF Steps
<1>5. g[0] = st /\ \A i \in 1 .. N : g[i] = step[i][g[i - 1]]
  BY <1>3 DEF Steps
<1>6. \A i \in 1 .. N : i - 1 \in 0 .. N
  BY <1>0
<1>7. \A i \in 1 .. N : \A x \in Stores : step[i][x] = WithStem(x, dir[i], dir[i] \in headless)
  OBVIOUS
<1> HIDE DEF step
<1>8. \A i \in 0 .. N : Q(g[i], i)
  <2> DEFINE T == {i \in 0 .. N : Q(g[i], i)}
  <2>1. 0 \in T
    BY <1>0, <1>1, <1>5
  <2>2. ASSUME NEW i \in 1 .. N, i - 1 \in T PROVE i \in T
    <3>1. Q(g[i - 1], i - 1)
      BY <2>2
    <3>2. i \in 0 .. N /\ i # 0
      BY <1>0
    <3>3. g[i] = step[i][g[i - 1]]
      BY <1>5, <3>2
    <3>4. g[i - 1] \in Stores
      BY <3>1 DEF Grown, Loading
    <3>5. g[i] = WithStem(g[i - 1], dir[i], dir[i] \in headless)
      BY <1>7, <3>3, <3>4
    <3>6. Q(g[i], i)
      BY <1>2, <3>1, <3>5
    <3> QED
      BY <3>6
  <2> HIDE DEF T
  <2>3. \A i \in 0 .. N : i \in T
    BY <1>0, <2>1, <2>2, Inductively
  <2> QED
    BY <2>3 DEF T
<1>9. g = G(g)
  <2>1. ASSUME NEW i \in 0 .. N PROVE g[i] = G(g)[i]
    <3>1. CASE i = 0
      BY <1>5, <3>1
    <3>2. CASE i # 0
      <4>1. i \in 1 .. N /\ i - 1 \in 0 .. N
        BY <1>0, <3>2
      <4>2. g[i - 1] \in Stores
        BY <1>8, <4>1 DEF Grown, Loading
      <4>3. g[i] = step[i][g[i - 1]]
        BY <1>5, <3>2
      <4> QED
        BY <1>7, <3>2, <4>1, <4>2, <4>3
    <3> QED
      BY <3>1, <3>2
  <2> QED
    BY <1>4, <2>1
<1> DEFINE done == CHOOSE f : f = G(f)
<1>10. done = G(done)
  BY <1>9
<1>11. WithStems(st, dir, headless) = done[N]
  BY DEF WithStems, N
<1> HIDE DEF done
<1>12. \A i \in 0 .. N : Q(done[i], i)
  <2> DEFINE T == {i \in 0 .. N : Q(done[i], i)}
  <2>1. 0 \in T
    BY <1>0, <1>1, <1>10
  <2>2. ASSUME NEW i \in 1 .. N, i - 1 \in T PROVE i \in T
    <3>1. Q(done[i - 1], i - 1)
      BY <2>2
    <3>2. i \in 0 .. N /\ i # 0
      BY <1>0
    <3>3. done[i] = WithStem(done[i - 1], dir[i], dir[i] \in headless)
      BY <1>10, <3>2
    <3>4. Q(done[i], i)
      BY <1>2, <3>1, <3>3
    <3> QED
      BY <3>4
  <2> HIDE DEF T
  <2>3. \A i \in 0 .. N : i \in T
    BY <1>0, <2>1, <2>2, Inductively
  <2> QED
    BY <2>3 DEF T
<1>13. Q(done[N], N)
  BY <1>0, <1>12
<1> QED
  BY <1>11, <1>13 DEF N

\* Pass 2.
LEMMA NamesKeep ==
  ASSUME NEW st, NEW d \in Nat, NEW b \in Nat, NEW N \in Nat, Loading(st, d, b, 0),
         b + N = Len(st.entries)
  PROVE  /\ Loading(WithNames(st, b, N), d, b, N)
         /\ Len(WithNames(st, b, N).entries) = b + N
<1> DEFINE step == [i \in 1 .. N |-> [x \in Stores |-> WithName(x, b + i)]]
           G(g) == [i \in 0 .. N |-> IF i = 0 THEN st ELSE WithName(g[i - 1], b + i)]
           Q(x, i) == Loading(x, d, b, i) /\ Len(x.entries) = b + N
<1>0. N \in Nat
  OBVIOUS
<1>1. Q(st, 0)
  OBVIOUS
<1>2. ASSUME NEW i \in 1 .. N, NEW x, Q(x, i - 1)
      PROVE  Q(WithName(x, b + i), i)
  <2>1. PICK k \in Nat : k = i - 1 /\ k + 1 = i
    OBVIOUS
  <2>2. Loading(x, d, b, k) /\ Len(x.entries) = b + N /\ b + k + 1 <= Len(x.entries)
    BY <1>2, <2>1
  <2>3. /\ Loading(WithName(x, b + (k + 1)), d, b, k + 1)
        /\ Len(WithName(x, b + (k + 1)).entries) = Len(x.entries)
    BY <2>2, NameKeeps
  <2> QED
    BY <2>1, <2>2, <2>3
<1>3. PICK g : Steps(g, N, st, step)
  <2> HIDE DEF step
  <2> QED
    BY <1>0, Recursion
<1>4. PICK S : g \in [0 .. N -> S]
  BY <1>3 DEF Steps
<1>5. g[0] = st /\ \A i \in 1 .. N : g[i] = step[i][g[i - 1]]
  BY <1>3 DEF Steps
<1>6. \A i \in 1 .. N : i - 1 \in 0 .. N
  BY <1>0
<1>7. \A i \in 1 .. N : \A x \in Stores : step[i][x] = WithName(x, b + i)
  OBVIOUS
<1> HIDE DEF step
<1>8. \A i \in 0 .. N : Q(g[i], i)
  <2> DEFINE T == {i \in 0 .. N : Q(g[i], i)}
  <2>1. 0 \in T
    BY <1>0, <1>1, <1>5
  <2>2. ASSUME NEW i \in 1 .. N, i - 1 \in T PROVE i \in T
    <3>1. Q(g[i - 1], i - 1)
      BY <2>2
    <3>2. i \in 0 .. N /\ i # 0
      BY <1>0
    <3>3. g[i] = step[i][g[i - 1]]
      BY <1>5, <3>2
    <3>4. g[i - 1] \in Stores
      BY <3>1 DEF Loading
    <3>5. g[i] = WithName(g[i - 1], b + i)
      BY <1>7, <3>3, <3>4
    <3>6. Q(g[i], i)
      BY <1>2, <3>1, <3>5
    <3> QED
      BY <3>6
  <2> HIDE DEF T
  <2>3. \A i \in 0 .. N : i \in T
    BY <1>0, <2>1, <2>2, Inductively
  <2> QED
    BY <2>3 DEF T
<1>9. g = G(g)
  <2>1. ASSUME NEW i \in 0 .. N PROVE g[i] = G(g)[i]
    <3>1. CASE i = 0
      BY <1>5, <3>1
    <3>2. CASE i # 0
      <4>1. i \in 1 .. N /\ i - 1 \in 0 .. N
        BY <1>0, <3>2
      <4>2. g[i - 1] \in Stores
        BY <1>8, <4>1 DEF Loading
      <4>3. g[i] = step[i][g[i - 1]]
        BY <1>5, <3>2
      <4> QED
        BY <1>7, <3>2, <4>1, <4>2, <4>3
    <3> QED
      BY <3>1, <3>2
  <2> QED
    BY <1>4, <2>1
<1> DEFINE done == CHOOSE f : f = G(f)
<1>10. done = G(done)
  BY <1>9
<1>11. WithNames(st, b, N) = done[N]
  BY DEF WithNames
<1> HIDE DEF done
<1>12. \A i \in 0 .. N : Q(done[i], i)
  <2> DEFINE T == {i \in 0 .. N : Q(done[i], i)}
  <2>1. 0 \in T
    BY <1>0, <1>1, <1>10
  <2>2. ASSUME NEW i \in 1 .. N, i - 1 \in T PROVE i \in T
    <3>1. Q(done[i - 1], i - 1)
      BY <2>2
    <3>2. i \in 0 .. N /\ i # 0
      BY <1>0
    <3>3. done[i] = WithName(done[i - 1], b + i)
      BY <1>10, <3>2
    <3>4. Q(done[i], i)
      BY <1>2, <3>1, <3>3
    <3> QED
      BY <3>4
  <2> HIDE DEF T
  <2>3. \A i \in 0 .. N : i \in T
    BY <1>0, <2>1, <2>2, Inductively
  <2> QED
    BY <2>3 DEF T
<1>13. Q(done[N], N)
  BY <1>0, <1>12
<1> QED
  BY <1>11, <1>13

\* A directory has been loaded: the next one goes behind it.
LEMMA DirectoryKeeps ==
  ASSUME NEW st, NEW d \in Nat, Loading(st, d, Len(st.entries), 0),
         NEW dir \in Seq(SpecFiles), \A i \in DOMAIN dir : dir[i].dir = d, NEW headless
  PROVE  LET done == Registered(st, dir, headless)
         IN  Loading(done, d + 1, Len(done.entries), 0)
<1> DEFINE b == Len(st.entries)
           N == Len(dir)
           mid == WithStems(st, dir, headless)
           done == WithNames(mid, b, N)
<1>1. b \in Nat /\ N \in Nat /\ b = Len(st.entries)
  BY DEF Loading, Stores
<1> HIDE DEF b
<1>2. Loading(st, d, b, 0)
  BY DEF b
<1>3. Grown(mid, d, b, N)
  BY <1>1, <1>2, StemsKeep
<1> HIDE DEF mid, N
<1>4. Loading(done, d, b, N) /\ Len(done.entries) = b + N
  BY <1>1, <1>3, NamesKeep DEF Grown
<1> HIDE DEF done
<1>5. Named(done.entries, done.byAlias, done.arcs, d + 1, b + N, 0)
  <2> DEFINE E == done.entries
             B == done.byAlias
             A == done.arcs
  <2>1. DOMAIN E = 1 .. b + N
    BY <1>1, <1>4 DEF Loading, Stores
  <2>2. Named(E, B, A, d, b, N)
    BY <1>4 DEF Loading
  <2>3. ASSUME NEW p \in DOMAIN E PROVE FileAt(E, A, p).dir < d + 1
    <3>1. CASE p <= b
      <4>1. FileAt(E, A, p).dir < d
        BY <2>2, <3>1 DEF Named
      <4>2. FileAt(E, A, p).dir \in Nat
        <5>1. A \in Seq(Arcs) /\ E[p] \in DOMAIN A
          BY <1>4 DEF Loading, Ordered
        <5>2. A[E[p]] \in Arcs
          BY <5>1
        <5> QED
          BY <5>2 DEF FileAt, Arcs, SpecFiles
      <4> QED
        BY <4>1, <4>2
    <3>2. CASE ~(p <= b)
      <4>1. p > b
        BY <1>1, <2>1, <3>2
      <4>2. FileAt(E, A, p).dir = d
        BY <2>2, <4>1 DEF Named
      <4> QED
        BY <4>2
    <3> QED
      BY <3>1, <3>2
  <2>4. \A p \in DOMAIN E : p <= b + N /\ ~(p > b + N)
    BY <1>1, <2>1
  <2>5. \A p \in DOMAIN E : ~(p > b + N + 0)
    BY <1>1, <2>1
  <2> HIDE DEF E, B, A
  <2>6. Named(E, B, A, d + 1, b + N, 0)
    BY <1>1, <2>3, <2>4, <2>5 DEF Named
  <2> QED
    BY <2>6 DEF E, B, A
<1>6. Loading(done, d + 1, Len(done.entries), 0)
  BY <1>4, <1>5 DEF Loading
<1> QED
  BY <1>6 DEF Registered, done, mid, b, N

\* Whatever the directories, and whichever headers do not parse.
LEMMA StoreLoads ==
  ASSUME NEW installation \in Installations, NEW headless
  PROVE  LET st == LoadWithEmbedded(installation, headless) IN
         st \in Stores /\ Ordered(st.entries, st.byAlias, st.arcs)
<1> DEFINE N == Len(installation)
           step == [d \in 1 .. N |-> [x \in Stores |-> Registered(x, installation[d], headless)]]
           G(g) == [d \in 0 .. N |-> IF d = 0 THEN EmptyStore
                                     ELSE Registered(g[d - 1], installation[d], headless)]
           Q(x, d) == Loading(x, d + 1, Len(x.entries), 0)
<1>0. /\ N \in Nat /\ DOMAIN installation = 1 .. N
      /\ \A d \in 1 .. N : installation[d] \in Seq(SpecFiles)
      /\ \A d \in 1 .. N : \A i \in DOMAIN installation[d] : installation[d][i].dir = d
  <2>1. installation \in Seq(Seq(SpecFiles))
    BY DirsAssumption
  <2>2. N \in Nat /\ DOMAIN installation = 1 .. N
    BY <2>1
  <2>3. \A d \in 1 .. N : installation[d] \in Seq(SpecFiles)
    BY <2>1, <2>2
  <2>4. \A d \in 1 .. N : \A i \in DOMAIN installation[d] : installation[d][i].dir = d
    BY <2>2, DirsAssumption
  <2> QED
    BY <2>2, <2>3, <2>4
<1>1. Q(EmptyStore, 0)
  <2> DEFINE B == [a \in Aliases |-> <<>>]
  <2>1. EmptyStore = [entries |-> <<>>, byAlias |-> B, arcs |-> <<>>]
    BY DEF EmptyStore
  <2>2. /\ EmptyStore.entries = <<>> /\ EmptyStore.byAlias = B /\ EmptyStore.arcs = <<>>
        /\ Len(EmptyStore.entries) = 0 /\ EmptyStore \in Stores
    BY <2>1 DEF Stores
  <2>3. Ordered(<<>>, B, <<>>)
    BY DEF Ordered, ToSet
  <2>4. Found(<<>>, B, <<>>) /\ Named(<<>>, B, <<>>, 1, 0, 0)
    BY DEF Found, Named
  <2> HIDE DEF B
  <2> QED
    BY <2>2, <2>3, <2>4 DEF Loading
<1>2. ASSUME NEW d \in 1 .. N, NEW x, Q(x, d - 1)
      PROVE  Q(Registered(x, installation[d], headless), d)
  <2>1. Loading(x, d, Len(x.entries), 0) /\ d \in Nat
    <3>1. (d - 1) + 1 = d
      BY <1>0
    <3> QED
      BY <1>0, <1>2, <3>1
  <2> DEFINE dir == installation[d]
             y == Registered(x, dir, headless)
  <2>2. dir \in Seq(SpecFiles) /\ \A i \in DOMAIN dir : dir[i].dir = d
    BY <1>0
  <2> HIDE DEF dir
  <2>3. Loading(y, d + 1, Len(y.entries), 0)
    BY <2>1, <2>2, DirectoryKeeps
  <2> QED
    BY <2>3 DEF y, dir
<1> HIDE DEF N
<1>3. PICK g : Steps(g, N, EmptyStore, step)
  <2> HIDE DEF step
  <2> QED
    BY <1>0, Recursion
<1>4. PICK S : g \in [0 .. N -> S]
  BY <1>3 DEF Steps
<1>5. g[0] = EmptyStore /\ \A d \in 1 .. N : g[d] = step[d][g[d - 1]]
  BY <1>3 DEF Steps
<1>6. \A d \in 1 .. N : \A x \in Stores : step[d][x] = Registered(x, installation[d], headless)
  OBVIOUS
<1> HIDE DEF step
<1>7. \A d \in 0 .. N : Q(g[d], d)
  <2> DEFINE T == {d \in 0 .. N : Q(g[d], d)}
  <2>1. 0 \in T
    BY <1>0, <1>1, <1>5
  <2>2. ASSUME NEW d \in 1 .. N, d - 1 \in T PROVE d \in T
    <3>1. Q(g[d - 1], d - 1)
      BY <2>2
    <3>2. d \in 0 .. N /\ d # 0
      BY <1>0
    <3>3. g[d] = step[d][g[d - 1]]
      BY <1>5, <3>2
    <3>4. g[d - 1] \in Stores
      BY <3>1 DEF Loading
    <3>5. g[d] = Registered(g[d - 1], installation[d], headless)
      BY <1>6, <3>3, <3>4
    <3>6. Q(g[d], d)
      BY <1>2, <3>1, <3>5
    <3> QED
      BY <3>2, <3>6
  <2> HIDE DEF T
  <2>3. \A d \in 0 .. N : d \in T
    BY <1>0, <2>1, <2>2, Inductively
  <2> QED
    BY <2>3 DEF T
<1>8. g = G(g)
  <2>1. ASSUME NEW d \in 0 .. N PROVE g[d] = G(g)[d]
    <3>1. CASE d = 0
      BY <1>5, <3>1
    <3>2. CASE d # 0
      <4>1. d \in 1 .. N /\ d - 1 \in 0 .. N
        BY <1>0, <3>2
      <4>2. g[d - 1] \in Stores
        BY <1>7, <4>1 DEF Loading
      <4>3. g[d] = step[d][g[d - 1]]
        BY <1>5, <4>1
      <4> QED
        BY <1>6, <3>2, <4>1, <4>2, <4>3
    <3> QED
      BY <3>1, <3>2
  <2> QED
    BY <1>4, <2>1
<1> DEFINE done == CHOOSE f : f = G(f)
<1>9. done = G(done)
  BY <1>8
<1>10. LoadWithEmbedded(installation, headless) = done[N]
  BY DEF LoadWithEmbedded, N
<1> HIDE DEF done
<1>11. \A d \in 0 .. N : Q(done[d], d)
  <2> DEFINE T == {d \in 0 .. N : Q(done[d], d)}
  <2>1. 0 \in T
    BY <1>0, <1>1, <1>9
  <2>2. ASSUME NEW d \in 1 .. N, d - 1 \in T PROVE d \in T
    <3>1. Q(done[d - 1], d - 1)
      BY <2>2
    <3>2. d \in 0 .. N /\ d # 0
      BY <1>0
    <3>3. done[d] = Registered(done[d - 1], installation[d], headless)
      BY <1>9, <3>2
    <3>4. Q(done[d], d)
      BY <1>2, <3>1, <3>3
    <3> QED
      BY <3>2, <3>4
  <2> HIDE DEF T
  <2>3. \A d \in 0 .. N : d \in T
    BY <1>0, <2>1, <2>2, Inductively
  <2> QED
    BY <2>3 DEF T
<1>12. Q(done[N], N)
  BY <1>0, <1>11
<1> QED
  BY <1>10, <1>12 DEF Loading

-----------------------------------------------------------------------------
(* The store once it is loaded.                                            *)

\* The store that is loaded is in order.
LEMMA StoreOrdered == StoreInit => Ordered(entries, byAlias, arcs)
<1> SUFFICES ASSUME StoreInit PROVE Ordered(entries, byAlias, arcs)
  OBVIOUS
<1>1. PICK installation \in Installations :
        \E headless : LET st == LoadWithEmbedded(installation, headless) IN
                      entries = st.entries /\ byAlias = st.byAlias /\ arcs = st.arcs
  BY DEF StoreInit
<1>2. PICK headless : LET st == LoadWithEmbedded(installation, headless) IN
                      entries = st.entries /\ byAlias = st.byAlias /\ arcs = st.arcs
  BY <1>1
<1> DEFINE st == LoadWithEmbedded(installation, headless)
<1>3. Ordered(st.entries, st.byAlias, st.arcs)
  BY StoreLoads
<1> QED
  BY <1>2, <1>3

\* In a store an Arc has one place, and the promised order is that of the places.
LEMMA OrderIsPromised ==
  ASSUME Ordered(entries, byAlias, arcs)
  PROVE  AliasesInOrder
<1>1. arcs \in Seq(Arcs) /\ entries \in Seq(DOMAIN arcs) /\ byAlias \in [Aliases -> Seq(ToSet(entries))]
  BY DEF Ordered
<1>2. \A p, q \in DOMAIN entries : entries[p] = entries[q] => p = q
  BY DEF Ordered
<1>3. ASSUME NEW p \in DOMAIN entries PROVE Position(entries, entries[p]) = p
  BY <1>2 DEF Position
<1>4. ASSUME NEW a \in Aliases, NEW i \in DOMAIN byAlias[a]
      PROVE  /\ byAlias[a][i] \in ToSet(entries)
             /\ a \in arcs[byAlias[a][i]].aliases
  BY <1>1 DEF Ordered
<1>5. ASSUME NEW a \in Aliases, NEW i \in DOMAIN byAlias[a], NEW j \in 1 .. i - 1
      PROVE  Before(a, byAlias[a][j], byAlias[a][i])
  <2>1. j \in DOMAIN byAlias[a] /\ j < i
    <3>1. byAlias[a] \in Seq(ToSet(entries))
      BY <1>1
    <3>2. DOMAIN byAlias[a] = 1 .. Len(byAlias[a]) /\ Len(byAlias[a]) \in Nat
      BY <3>1
    <3> QED
      BY <3>2
  <2>2. PICK p \in DOMAIN entries : byAlias[a][j] = entries[p]
    BY <1>4, <2>1 DEF ToSet
  <2>3. PICK q \in DOMAIN entries : byAlias[a][i] = entries[q]
    BY <1>4 DEF ToSet
  <2>4. Precedes(entries, arcs, a, p, q)
    BY <2>1, <2>2, <2>3 DEF Ordered
  <2>5. Position(entries, byAlias[a][j]) = p /\ Position(entries, byAlias[a][i]) = q
    BY <1>3, <2>2, <2>3
  <2> QED
    BY <2>2, <2>3, <2>4, <2>5 DEF Precedes, FileAt, Before
<1> QED
  BY <1>4, <1>5 DEF AliasesInOrder

-----------------------------------------------------------------------------
(* What a step may do to the slots.                                        *)

\* What is loaded is among the entries, of which there are finitely many.
LEMMA UnreadIsFinite ==
  ASSUME StoreTypes
  PROVE  IsFiniteSet(Unread) /\ Cardinality(Unread) \in Nat
<1>1. Unread \subseteq 1 .. Len(arcs) /\ Len(arcs) \in Nat
  BY DEF StoreTypes, Unread, LoadedArcs, ToSet
<1>2. IsFiniteSet(1 .. Len(arcs))
  BY <1>1, FS_Interval
<1> QED
  BY <1>1, <1>2, FS_Subset, FS_CardinalityType

\* The sweep's account stays right while only its readers move.
LEMMA AccountStays ==
  ASSUME StoreTypes, Looked, Counted, UNCHANGED <<store, sweep>>, Unread' \subseteq Unread,
         \A arc \in Unread' : accessed'[arc] = accessed[arc]
  PROVE  Counted'
<1>1. IsFiniteSet(Unread) /\ Cardinality(Unread) \in Nat /\ Ahead' = Ahead
  BY UnreadIsFinite DEF Ahead
<1>2. Cardinality(Unread') \in Nat /\ Cardinality(Unread') <= Cardinality(Unread)
  BY <1>1, FS_Subset, FS_CardinalityType
<1>3. Cardinality(Unread' \ Ahead) \in Nat /\ Cardinality(Unread \ Ahead) \in Nat
      /\ Cardinality(Unread' \ Ahead) <= Cardinality(Unread \ Ahead)
  <2>1. IsFiniteSet(Unread \ Ahead) /\ Unread' \ Ahead \subseteq Unread \ Ahead
    BY <1>1, FS_Subset
  <2> HIDE DEF Unread, Ahead
  <2> QED
    BY <2>1, FS_Subset, FS_CardinalityType
<1>4. \A arc \in Unread' : /\ arc \in Unread /\ (IsWarm(arc)' <=> IsWarm(arc))
                           /\ (Listed(arc)' <=> Listed(arc))
  BY DEF IsWarm, Listed, store
<1>5. CapIsReached /\ sweep' = sweep /\ sweep.resident \in Nat
  BY DEF Counted, Looked, Sweeps
<1>6. CapIsReached'
  <2>1. CapIsReached <=> (sweep.at = "swept" => Cardinality(Unread) <= Cap \/ \A arc \in Unread : IsWarm(arc))
    BY DEF CapIsReached, Unread
  <2>2. CapIsReached' <=> (sweep'.at = "swept" => Cardinality(Unread') <= Cap \/ \A arc \in Unread' : IsWarm(arc)')
    BY DEF CapIsReached, Unread
  <2>3. Cap \in Nat
    BY StoreAssumption
  <2> HIDE DEF Unread
  <2> QED
    BY <1>1, <1>2, <1>4, <1>5, <2>1, <2>2, <2>3
<1> QED
  <2> HIDE DEF Unread, Ahead
  <2>1. sweep.at = "measure" => Cardinality((Unread \ Ahead)') <= sweep'.resident
    <3>1. (Unread \ Ahead)' = Unread' \ Ahead
      BY <1>1
    <3>2. ASSUME sweep.at = "measure" PROVE Cardinality(Unread \ Ahead) <= sweep.resident
      BY <3>2 DEF Counted
    <3> QED
      BY <1>3, <1>5, <3>1, <3>2
  <2>2. sweep.at = "snapshot" =>
          /\ Cardinality(Unread') <= sweep.resident
          /\ \A arc \in Unread' \ Ahead : IsWarm(arc)' \/ Listed(arc)'
    BY <1>1, <1>2, <1>4, <1>5 DEF Counted
  <2>3. sweep.at = "backstop" =>
          \/ \A arc \in Unread' : IsWarm(arc)'
          \/ /\ Cardinality(Unread') <= sweep.resident
             /\ \A arc \in Unread' : IsWarm(arc)' \/ Listed(arc)'
    BY <1>1, <1>2, <1>4, <1>5 DEF Counted
  <2> QED
    BY <1>1, <1>5, <1>6, <2>1, <2>2, <2>3 DEF Counted

\* Nobody's candidates change while nobody looks up and no failure is forgotten.
LEMMA LookupsStay ==
  ASSUME Looking, UNCHANGED <<store, reader>>,
         \A arc \in DOMAIN arcs : slot[arc] = "Failed" => slot'[arc] = "Failed",
         StoreTypes
  PROVE  Looking'
<1>1. \A r \in Readers : Candidates(r)' = Candidates(r)
  BY DEF Candidates, store
<1>2. ASSUME NEW r \in Readers, reader[r].alias \in Aliases, NEW k \in DOMAIN Candidates(r)
      PROVE  Candidates(r)[k] \in DOMAIN arcs
  BY <1>2 DEF Candidates, StoreTypes
<1>3. ASSUME NEW r \in Readers
      PROVE  LooksUp(r)'
  BY <1>1, <1>2 DEF Looking, LooksUp
<1>4. FirstThatParses'
  <2> SUFFICES ASSUME NEW r \in Readers, reader[r].at = "idle", reader[r].alias # None,
                      NEW k \in DOMAIN Candidates(r)
               PROVE  \/ slot'[Candidates(r)[k]] = "Failed"
                      \/ reader[r].result # None /\ reader[r].i <= k
    BY <1>1 DEF FirstThatParses
  <2>1. reader[r].alias \in Aliases
    BY DEF Looking, Lookups
  <2> QED
    BY <1>2, <2>1 DEF Looking, FirstThatParses
<1> QED
  BY <1>3, <1>4 DEF Looking, Lookups, store

\* The other lookups stay while one moves on.
LEMMA OneLookup ==
  ASSUME StoreTypes, Looking, NEW r \in Readers, NEW l \in Lookups,
         reader' = [reader EXCEPT ![r] = l], UNCHANGED store,
         \A arc \in DOMAIN arcs : slot[arc] = "Failed" => slot'[arc] = "Failed",
         l.alias \in Aliases,
         \A k \in DOMAIN byAlias[l.alias] :
           k < l.i => slot'[byAlias[l.alias][k]] = "Failed",
         l.at # "idle" => l.i \in DOMAIN byAlias[l.alias],
         l.at = "idle" /\ l.result = None =>
           \A k \in DOMAIN byAlias[l.alias] : slot'[byAlias[l.alias][k]] = "Failed"
  PROVE  Looking'
<1>1. /\ reader' \in [Readers -> Lookups]
      /\ \A q \in Readers : reader'[q] = IF q = r THEN l ELSE reader[q]
      /\ Lookups' = Lookups /\ byAlias' = byAlias
  BY DEF Looking, Lookups, store
<1>2. /\ Candidates(r)' = byAlias[l.alias]
      /\ \A q \in Readers : q # r => Candidates(q)' = Candidates(q)
  BY <1>1 DEF Candidates
<1>3. ASSUME NEW q \in Readers, reader[q].alias \in Aliases, NEW k \in DOMAIN Candidates(q)
      PROVE  Candidates(q)[k] \in DOMAIN arcs
  BY <1>3 DEF Candidates, StoreTypes
<1>4. ASSUME NEW q \in Readers
      PROVE  LooksUp(q)'
  <2>1. CASE q = r
    BY <1>1, <1>2, <2>1 DEF LooksUp
  <2>2. CASE q # r
    BY <1>1, <1>2, <1>3, <2>2 DEF Looking, LooksUp
  <2> QED
    BY <2>1, <2>2
<1>5. FirstThatParses'
  <2> SUFFICES ASSUME NEW q \in Readers, reader'[q].at = "idle", reader'[q].alias # None,
                      NEW k \in DOMAIN Candidates(q)'
               PROVE  \/ slot'[Candidates(q)'[k]] = "Failed"
                      \/ reader'[q].result # None /\ reader'[q].i <= k
    BY DEF FirstThatParses
  <2>1. CASE q = r
    <3>1. k \in Nat /\ l.i \in Nat /\ k \in DOMAIN byAlias[l.alias]
      BY <1>2, <2>1 DEF StoreTypes, Lookups
    <3>2. CASE k < l.i
      BY <1>2, <2>1, <3>1, <3>2
    <3>3. CASE ~(k < l.i)
      BY <1>1, <1>2, <2>1, <3>1, <3>3
    <3> QED
      BY <3>2, <3>3
  <2>2. CASE q # r
    <3>1. reader[q].at = "idle" /\ reader[q].alias # None /\ k \in DOMAIN Candidates(q)
      BY <1>1, <1>2, <2>2
    <3>2. reader[q].alias \in Aliases
      BY <3>1 DEF Looking, Lookups
    <3>3. \/ slot[Candidates(q)[k]] = "Failed"
          \/ reader[q].result # None /\ reader[q].i <= k
      BY <3>1 DEF Looking, FirstThatParses
    <3> QED
      BY <1>1, <1>2, <1>3, <2>2, <3>1, <3>2, <3>3
  <2> QED
    BY <2>1, <2>2
<1> QED
  BY <1>1, <1>4, <1>5 DEF Looking

\* A lookup under way is at an Arc of the store.
LEMMA CurrentIsArc ==
  ASSUME StoreTypes, Looking, NEW r \in Readers, reader[r].at # "idle"
  PROVE  /\ Current(r) \in DOMAIN arcs /\ reader[r] \in Lookups
         /\ reader[r].alias \in Aliases /\ reader[r].i \in DOMAIN byAlias[reader[r].alias]
         /\ Candidates(r) = byAlias[reader[r].alias]
         /\ Current(r) = byAlias[reader[r].alias][reader[r].i]
         /\ \A k \in DOMAIN byAlias[reader[r].alias] :
              k < reader[r].i => slot[byAlias[reader[r].alias][k]] = "Failed"
BY DEF Looking, LooksUp, Candidates, Current, StoreTypes

\* An answer is recorded later than the sweep has measured.
LEMMA AnswerStep ==
  ASSUME InUse, NEW r \in Readers, reader[r].at # "idle", Answer(r, Current(r)),
         UNCHANGED <<store, sweep>>,
         \/ slot' = slot
         \/ /\ slot[Current(r)] \in {"Empty", "Evicted"}
            /\ slot' = [slot EXCEPT ![Current(r)] = "Loaded"]
  PROVE  InUse'
<1> DEFINE arc == Current(r)
           l == [reader[r] EXCEPT !.at = "idle", !.result = arc]
<1>1. StoreTypes /\ SlotTypes /\ Looking /\ Looked /\ Counted
  BY DEF InUse
<1>2. /\ arc \in DOMAIN arcs /\ reader[r] \in Lookups
      /\ reader[r].alias \in Aliases /\ reader[r].i \in DOMAIN byAlias[reader[r].alias]
      /\ \A k \in DOMAIN byAlias[reader[r].alias] :
           k < reader[r].i => slot[byAlias[reader[r].alias][k]] = "Failed"
  BY <1>1, CurrentIsArc
<1>3. clock' = clock + 1 /\ accessed' = [accessed EXCEPT ![arc] = clock + 1]
      /\ reader' = [reader EXCEPT ![r].at = "idle", ![r].result = arc]
  BY DEF Answer
<1> HIDE DEF arc
<1>4. StoreTypes' /\ arcs' = arcs /\ entries' = entries
  BY <1>1 DEF StoreTypes, store
<1>5. /\ slot' \in [DOMAIN arcs -> {"Empty", "Loaded", "Failed", "Evicted"}]
      /\ \A a \in DOMAIN arcs : a # arc => slot'[a] = slot[a]
      /\ slot[arc] = "Failed" => slot'[arc] = "Failed"
  BY <1>1, <1>2 DEF SlotTypes, arc
<1>6. /\ accessed' \in [DOMAIN arcs -> Nat]
      /\ accessed'[arc] = clock + 1 /\ clock' \in Nat /\ clock \in Nat
      /\ \A a \in DOMAIN arcs : a # arc => accessed'[a] = accessed[a]
      /\ \A a \in DOMAIN arcs : accessed[a] <= clock /\ accessed[a] \in Nat
  BY <1>1, <1>2, <1>3 DEF SlotTypes
<1>7. SlotTypes'
  <2>1. \A a \in DOMAIN arcs : accessed'[a] <= clock'
    BY <1>3, <1>6
  <2> QED
    BY <1>4, <1>5, <1>6, <2>1 DEF SlotTypes
<1>8. Looking'
  <2>1. arc # None
    <3>1. arc \in Nat
      BY <1>1, <1>2 DEF StoreTypes
    <3> QED
      BY <3>1, NoneAssumption
  <2>2. l \in Lookups /\ l.at = "idle" /\ l.alias = reader[r].alias /\ l.i = reader[r].i
        /\ l.result = arc
    BY <1>2 DEF Lookups
  <2>3. reader' = [reader EXCEPT ![r] = l]
    BY <1>1, <1>3 DEF Looking, Lookups
  <2> HIDE DEF l
  <2>4. \A a \in DOMAIN arcs : slot[a] = "Failed" => slot'[a] = "Failed"
    BY <1>5
  <2>5. \A k \in DOMAIN byAlias[l.alias] : byAlias[l.alias][k] \in DOMAIN arcs
    BY <1>1, <1>2, <2>2 DEF StoreTypes
  <2>6. \A k \in DOMAIN byAlias[l.alias] : k < l.i => slot'[byAlias[l.alias][k]] = "Failed"
    BY <1>2, <2>2, <2>4, <2>5
  <2>7. UNCHANGED store
    OBVIOUS
  <2> QED
    BY <1>1, <1>2, <2>1, <2>2, <2>3, <2>4, <2>6, <2>7, OneLookup
<1>9. Looked' /\ sweep.measured <= clock /\ sweep.measured \in Nat
  <2>1. sweep' = sweep /\ Sweeps' = Sweeps
    BY <1>4 DEF Sweeps, Live
  <2>2. sweep.looked \in Nat /\ sweep.measured \in Nat /\ sweep.looked <= clock /\ sweep.measured <= clock
    BY <1>1 DEF Looked, Sweeps
  <2>3. sweep.looked <= clock' /\ sweep.measured <= clock'
    BY <1>3, <1>6, <2>2
  <2> QED
    BY <1>1, <2>1, <2>2, <2>3 DEF Looked
<1>10. Unread' \subseteq Unread /\ arc \notin Unread'
  <2>1. sweep' = sweep
    OBVIOUS
  <2>2. arc \notin Unread'
    BY <1>3, <1>6, <1>9, <2>1 DEF Unread
  <2>3. ToSet(entries) \subseteq DOMAIN arcs
    BY <1>1 DEF StoreTypes, ToSet
  <2> QED
    BY <1>4, <1>5, <1>6, <2>1, <2>2, <2>3 DEF Unread, LoadedArcs
<1>11. Counted'
  <2>1. \A a \in Unread' : accessed'[a] = accessed[a]
    <3>1. Unread \subseteq DOMAIN arcs
      BY <1>1 DEF Unread, LoadedArcs, StoreTypes, ToSet
    <3> QED
      BY <1>6, <1>10, <3>1
  <2>2. UNCHANGED <<store, sweep>>
    OBVIOUS
  <2> QED
    BY <1>1, <1>10, <2>1, <2>2, AccountStays
<1> QED
  BY <1>4, <1>7, <1>8, <1>9, <1>11 DEF InUse

\* A failure is no longer in the way, and stays one.
LEMMA FailureSkipped ==
  ASSUME InUse, NEW r \in Readers, reader[r].at # "idle", TryNext(r),
         UNCHANGED <<store, sweep>>,
         \/ slot' = slot /\ slot[Current(r)] = "Failed"
         \/ /\ slot[Current(r)] \in {"Empty", "Evicted"}
            /\ slot' = [slot EXCEPT ![Current(r)] = "Failed"]
  PROVE  InUse'
<1> DEFINE arc == Current(r)
           alias == reader[r].alias
           i == reader[r].i
<1>1. StoreTypes /\ SlotTypes /\ Looking /\ Looked /\ Counted
  BY DEF InUse
<1>2. /\ arc \in DOMAIN arcs /\ reader[r] \in Lookups
      /\ alias \in Aliases /\ i \in DOMAIN byAlias[alias]
      /\ Candidates(r) = byAlias[alias] /\ arc = byAlias[alias][i]
      /\ \A k \in DOMAIN byAlias[alias] : k < i => slot[byAlias[alias][k]] = "Failed"
  BY <1>1, CurrentIsArc
<1>3. clock' = clock /\ accessed' = accessed
      /\ reader' = IF reader[r].i < Len(Candidates(r))
                   THEN [reader EXCEPT ![r].at = "read", ![r].i = @ + 1]
                   ELSE [reader EXCEPT ![r].at = "idle"]
  BY DEF TryNext
<1> HIDE DEF arc
<1>4. StoreTypes' /\ arcs' = arcs /\ entries' = entries
  BY <1>1 DEF StoreTypes, store
<1>5. /\ slot' \in [DOMAIN arcs -> {"Empty", "Loaded", "Failed", "Evicted"}]
      /\ \A a \in DOMAIN arcs : a # arc => slot'[a] = slot[a]
      /\ slot'[arc] = "Failed"
  BY <1>1, <1>2 DEF SlotTypes, arc
<1>6. SlotTypes'
  BY <1>1, <1>3, <1>4, <1>5 DEF SlotTypes
<1>7. \A k \in DOMAIN byAlias[alias] : k <= i => slot'[byAlias[alias][k]] = "Failed"
  <2>1. DOMAIN byAlias[alias] \subseteq Nat /\ \A k \in DOMAIN byAlias[alias] : byAlias[alias][k] \in DOMAIN arcs
    BY <1>1, <1>2 DEF StoreTypes
  <2> HIDE DEF i, alias
  <2>2. ASSUME NEW k \in DOMAIN byAlias[alias], k <= i
        PROVE  slot'[byAlias[alias][k]] = "Failed"
    <3>1. CASE k < i
      <4>1. slot[byAlias[alias][k]] = "Failed"
        BY <1>2, <3>1
      <4> QED
        BY <1>5, <2>1, <4>1
    <3>2. CASE k = i
      BY <1>2, <1>5, <3>2
    <3> QED
      BY <1>2, <2>1, <2>2, <3>1, <3>2
  <2> QED
    BY <2>2
<1>8. Looking'
  <2>1. /\ \A a \in DOMAIN arcs : slot[a] = "Failed" => slot'[a] = "Failed"
        /\ UNCHANGED store
        /\ byAlias[alias] \in Seq(DOMAIN arcs) /\ i \in 1 .. Len(byAlias[alias])
    BY <1>1, <1>2, <1>5 DEF StoreTypes
  <2>2. CASE i < Len(byAlias[alias])
    <3> DEFINE d == reader[r]
               l == [d EXCEPT !.at = "read", !.i = d.i + 1]
    <3>1. /\ l \in Lookups /\ l.at = "read" /\ l.alias = alias /\ l.i = i + 1
      <4>1. d \in Lookups /\ d.i \in Nat /\ alias = d.alias /\ i = d.i
        BY <1>2 DEF Lookups
      <4> HIDE DEF d, alias, i
      <4>2. PICK n \in Nat : n = d.i + 1
        BY <4>1
      <4>3. l = [d EXCEPT !.at = "read", !.i = n]
        BY <4>2
      <4>4. l \in Lookups /\ l.at = "read" /\ l.alias = d.alias /\ l.i = n
        BY <4>1, <4>3 DEF Lookups
      <4> QED
        BY <4>1, <4>2, <4>4
    <3>2. reader' = [reader EXCEPT ![r] = l]
      BY <1>1, <1>2, <1>3, <2>2 DEF Looking, Lookups
    <3> HIDE DEF l, alias, i
    <3>3. \A k \in DOMAIN byAlias[alias] : k < i + 1 => slot'[byAlias[alias][k]] = "Failed"
      BY <1>7, <2>1
    <3>4. i + 1 \in DOMAIN byAlias[alias]
      BY <2>1, <2>2
    <3> QED
      BY <1>1, <1>2, <2>1, <3>1, <3>2, <3>3, <3>4, OneLookup
  <2>3. CASE ~(i < Len(byAlias[alias]))
    <3> DEFINE l == [reader[r] EXCEPT !.at = "idle"]
    <3>1. /\ l \in Lookups /\ l.at = "idle" /\ l.alias = alias /\ l.i = i
      BY <1>2 DEF Lookups
    <3>2. reader' = [reader EXCEPT ![r] = l]
      BY <1>1, <1>2, <1>3, <2>3 DEF Looking, Lookups
    <3> HIDE DEF l, alias, i
    <3>3. \A k \in DOMAIN byAlias[alias] : slot'[byAlias[alias][k]] = "Failed"
      BY <1>7, <2>1, <2>3
    <3> QED
      BY <1>1, <1>2, <2>1, <3>1, <3>2, <3>3, OneLookup
  <2> QED
    BY <2>2, <2>3
<1>9. Looked'
  BY <1>1, <1>3, <1>4 DEF Looked, Sweeps, Live
<1>10. Unread' \subseteq Unread
  <2>1. ToSet(entries) \subseteq DOMAIN arcs /\ sweep' = sweep
    BY <1>1 DEF StoreTypes, ToSet
  <2> QED
    BY <1>3, <1>4, <1>5, <2>1 DEF Unread, LoadedArcs
<1>11. Counted'
  <2>1. UNCHANGED <<store, sweep>>
    OBVIOUS
  <2> QED
    BY <1>1, <1>3, <1>10, <2>1, AccountStays
<1> QED
  BY <1>4, <1>6, <1>8, <1>9, <1>11 DEF InUse

LEMMA LookupStep ==
  ASSUME InUse, NEW r \in Readers, NEW alias \in Aliases, Lookup(r, alias)
  PROVE  InUse'
<1> DEFINE l == [at |-> IF byAlias[alias] = <<>> THEN "idle" ELSE "read", alias |-> alias,
                 i |-> 1, result |-> None]
<1>1. StoreTypes /\ SlotTypes /\ Looking /\ Looked /\ Counted
  BY DEF InUse
<1>2. reader' = [reader EXCEPT ![r] = l] /\ UNCHANGED <<store, slot, accessed, clock, sweep>>
  BY DEF Lookup
<1>3. StoreTypes' /\ SlotTypes' /\ Looked'
  BY <1>1, <1>2 DEF StoreTypes, SlotTypes, Looked, Sweeps, Live, store
<1>4. Counted'
  <2>1. Unread' = Unread
    BY <1>2 DEF Unread, LoadedArcs, store
  <2> QED
    BY <1>1, <1>2, <2>1, AccountStays
<1>5. Looking'
  <2>1. /\ l \in Lookups /\ l.alias = alias /\ l.i = 1
        /\ l.at = IF byAlias[alias] = <<>> THEN "idle" ELSE "read"
    BY DEF Lookups
  <2>2. byAlias[alias] \in Seq(DOMAIN arcs)
    BY <1>1 DEF StoreTypes
  <2> HIDE DEF l
  <2>3. /\ \A k \in DOMAIN byAlias[alias] : ~(k < 1)
        /\ byAlias[alias] # <<>> => 1 \in DOMAIN byAlias[alias]
        /\ byAlias[alias] = <<>> => DOMAIN byAlias[alias] = {}
    BY <2>2
  <2> QED
    BY <1>1, <1>2, <2>1, <2>3, OneLookup
<1> QED
  BY <1>3, <1>4, <1>5 DEF InUse

\* The lock is let go between the two looks at a slot.
LEMMA ToWriteStep ==
  ASSUME InUse, NEW r \in Readers, reader[r].at = "read",
         reader' = [reader EXCEPT ![r].at = "write"],
         UNCHANGED <<store, slot, accessed, clock, sweep>>
  PROVE  InUse'
<1> DEFINE l == [reader[r] EXCEPT !.at = "write"]
<1>1. StoreTypes /\ SlotTypes /\ Looking /\ Looked /\ Counted
  BY DEF InUse
<1>2. /\ reader[r] \in Lookups
      /\ reader[r].alias \in Aliases /\ reader[r].i \in DOMAIN byAlias[reader[r].alias]
      /\ \A k \in DOMAIN byAlias[reader[r].alias] :
           k < reader[r].i => slot[byAlias[reader[r].alias][k]] = "Failed"
  BY <1>1, CurrentIsArc
<1>3. StoreTypes' /\ SlotTypes' /\ Looked'
  BY <1>1 DEF StoreTypes, SlotTypes, Looked, Sweeps, Live, store
<1>4. Counted'
  <2>1. Unread' = Unread
    BY DEF Unread, LoadedArcs, store
  <2> QED
    BY <1>1, <2>1, AccountStays
<1>5. Looking'
  <2>1. /\ l \in Lookups /\ l.alias = reader[r].alias /\ l.i = reader[r].i /\ l.at = "write"
    BY <1>2 DEF Lookups
  <2>2. reader' = [reader EXCEPT ![r] = l]
    BY <1>1 DEF Looking, Lookups
  <2> HIDE DEF l
  <2>3. /\ UNCHANGED store /\ \A arc \in DOMAIN arcs : slot[arc] = "Failed" => slot'[arc] = "Failed"
        /\ \A k \in DOMAIN byAlias[l.alias] : k < l.i => slot'[byAlias[l.alias][k]] = "Failed"
        /\ l.alias \in Aliases /\ l.at # "idle" /\ l.i \in DOMAIN byAlias[l.alias]
    BY <1>2, <2>1
  <2> QED
    BY <1>1, <2>1, <2>2, <2>3, OneLookup
<1> QED
  BY <1>3, <1>4, <1>5 DEF InUse

LEMMA SettledStep ==
  ASSUME InUse, NEW r \in Readers, reader[r].at # "idle", Settled(r),
         UNCHANGED <<store, slot, sweep>>
  PROVE  InUse'
BY AnswerStep, FailureSkipped DEF Settled

LEMMA ReadStep ==
  ASSUME InUse, NEW r \in Readers, ReadSlot(r)
  PROVE  InUse'
<1>1. CASE Settled(r)
  BY <1>1, SettledStep DEF ReadSlot
<1>2. CASE reader' = [reader EXCEPT ![r].at = "write"] /\ UNCHANGED <<clock, accessed>>
  BY <1>2, ToWriteStep DEF ReadSlot
<1> QED
  BY <1>1, <1>2 DEF ReadSlot

LEMMA WriteStep ==
  ASSUME InUse, NEW r \in Readers, WriteSlot(r)
  PROVE  InUse'
<1>1. CASE Settled(r) /\ UNCHANGED slot
  BY <1>1, SettledStep DEF WriteSlot
<1>2. CASE /\ slot[Current(r)] \in {"Empty", "Evicted"} /\ Parses(Current(r))
           /\ slot' = [slot EXCEPT ![Current(r)] = "Loaded"] /\ Answer(r, Current(r))
  BY <1>2, AnswerStep DEF WriteSlot
<1>3. CASE /\ slot[Current(r)] \in {"Empty", "Evicted"} /\ ~Parses(Current(r))
           /\ slot' = [slot EXCEPT ![Current(r)] = "Failed"] /\ TryNext(r)
  BY <1>3, FailureSkipped DEF WriteSlot
<1> QED
  BY <1>1, <1>2, <1>3 DEF WriteSlot

\* An editor changes what will be parsed, and time passes.
LEMMA OutsideStep ==
  ASSUME InUse, UNCHANGED <<store, slot, accessed, reader, sweep>>, clock' \in {clock, clock + 1}
  PROVE  InUse'
<1>1. StoreTypes /\ SlotTypes /\ Looking /\ Looked /\ Counted
  BY DEF InUse
<1>2. clock \in Nat /\ clock' \in Nat /\ clock <= clock'
  BY <1>1 DEF SlotTypes
<1>3. StoreTypes' /\ Looking' /\ Unread' = Unread
  <2>1. StoreTypes' /\ Unread' = Unread
    BY <1>1 DEF StoreTypes, Unread, LoadedArcs, store
  <2>2. UNCHANGED <<store, reader>> /\ slot' = slot
    OBVIOUS
  <2> QED
    BY <1>1, <2>1, <2>2, LookupsStay
<1>4. SlotTypes'
  <2>1. \A arc \in DOMAIN arcs : accessed[arc] \in Nat /\ accessed[arc] <= clock
    BY <1>1 DEF SlotTypes
  <2>2. \A arc \in DOMAIN arcs : accessed[arc] <= clock'
    BY <1>2, <2>1
  <2> QED
    BY <1>1, <1>2, <2>2 DEF SlotTypes, store
<1>5. Looked'
  <2>1. sweep.looked \in Nat /\ sweep.measured \in Nat /\ sweep.looked <= clock /\ sweep.measured <= clock
    BY <1>1 DEF Looked, Sweeps
  <2>2. sweep.looked <= clock' /\ sweep.measured <= clock'
    BY <1>2, <2>1
  <2> QED
    BY <1>1, <2>2 DEF Looked, Sweeps, Live, store
<1> QED
  BY <1>1, <1>3, <1>4, <1>5, AccountStays DEF InUse

-----------------------------------------------------------------------------
(* The sweep.                                                              *)

\* A sweep that evicts nothing: what is left to show.
LEMMA SweepLooks ==
  ASSUME InUse, UNCHANGED <<unswept, slot>>, sweep' \in Sweeps,
         sweep'.looked <= clock, sweep'.measured <= clock,
         \A v \in sweep'.victims : v.ts <= sweep'.looked,
         sweep'.at \in {"peek", "idle entry"} => sweep'.now = sweep'.looked,
         sweep'.at = "idle entry" => sweep'.todo # <<>>,
         sweep'.at = "swept" => sweep'.victims = {},
         Counted'
  PROVE  InUse'
<1>1. StoreTypes /\ SlotTypes /\ Looking /\ Looked
  BY DEF InUse
<1>2. StoreTypes' /\ SlotTypes' /\ Sweeps' = Sweeps
  BY <1>1 DEF unswept, StoreTypes, SlotTypes, Sweeps, Live, store
<1>3. Looking'
  BY <1>1, LookupsStay DEF unswept
<1>4. Looked'
  BY <1>2 DEF Looked, unswept
<1> QED
  BY <1>2, <1>3, <1>4 DEF InUse

LEMMA SweepTypes ==
  ASSUME InUse
  PROVE  /\ sweep \in Sweeps /\ entries \in Seq(Live) /\ clock \in Nat
         /\ sweep.looked \in Nat /\ sweep.measured \in Nat /\ sweep.resident \in Nat
         /\ sweep.looked <= clock /\ sweep.measured <= clock
         /\ sweep.todo \in Seq(Live)
         /\ sweep.victims \subseteq [arc : Live, ts : Nat]
         /\ \A v \in sweep.victims : v.ts <= sweep.looked
         /\ Live \subseteq DOMAIN arcs
<1>1. entries \in Seq(Live) /\ Live \subseteq DOMAIN arcs
  BY DEF InUse, StoreTypes, Live, ToSet
<1> QED
  BY <1>1 DEF InUse, SlotTypes, Looked, Sweeps

\* Where nothing is counted.
LEMMA NotCounting ==
  ASSUME sweep.at \notin {"measure", "snapshot", "backstop", "swept"}
  PROVE  Counted
BY DEF Counted, CapIsReached

LEMMA SweepStartStep ==
  ASSUME InUse, SweepStart
  PROVE  InUse'
<1> DEFINE s == [sweep EXCEPT !.at = "peek", !.now = clock, !.looked = clock, !.todo = entries]
<1>1. /\ sweep \in Sweeps /\ entries \in Seq(Live) /\ clock \in Nat
      /\ sweep.looked \in Nat /\ sweep.looked <= clock /\ sweep.measured <= clock
      /\ sweep.victims \subseteq [arc : Live, ts : Nat]
      /\ \A v \in sweep.victims : v.ts <= sweep.looked
  BY SweepTypes
<1>2. /\ s \in Sweeps /\ s.at = "peek" /\ s.now = clock /\ s.looked = clock
      /\ s.measured = sweep.measured /\ s.victims = sweep.victims
  BY <1>1 DEF Sweeps
<1>3. sweep' = s /\ UNCHANGED <<unswept, slot>>
  BY DEF SweepStart
<1> HIDE DEF s
<1>4. Counted'
  BY <1>2, <1>3 DEF Counted, CapIsReached
<1>5. \A v \in sweep.victims : v.ts <= clock
  BY <1>1
<1>6. clock <= clock
  BY <1>1
<1> QED
  BY <1>1, <1>2, <1>3, <1>4, <1>5, <1>6, SweepLooks

LEMMA PeekStep ==
  ASSUME InUse, PeekIdle
  PROVE  InUse'
<1>1. /\ sweep \in Sweeps /\ sweep.todo \in Seq(Live) /\ sweep.todo # <<>> /\ sweep.at = "peek"
      /\ sweep.now = sweep.looked
  BY SweepTypes DEF PeekIdle, Done, InUse, Looked
<1>2. Tail(sweep.todo) \in Seq(Live)
  BY <1>1, HeadTailProperties
<1>3. /\ sweep' \in Sweeps /\ sweep'.at \in {"peek", "idle entry"} /\ sweep'.now = sweep.now
      /\ sweep'.looked = sweep.looked /\ sweep'.measured = sweep.measured
      /\ sweep'.victims = sweep.victims
      /\ sweep'.at = "idle entry" => sweep'.todo # <<>>
  <2>1. CASE sweep' = [sweep EXCEPT !.todo = Tail(@)]
    BY <1>1, <1>2, <2>1 DEF Sweeps
  <2>2. CASE sweep' = [sweep EXCEPT !.at = "idle entry"]
    BY <1>1, <2>2 DEF Sweeps
  <2> QED
    BY <2>1, <2>2 DEF PeekIdle
<1>4. Counted'
  BY <1>3 DEF Counted, CapIsReached
<1> QED
  BY <1>1, <1>3, <1>4, SweepLooks, SweepTypes DEF PeekIdle

\* Evicting leaves every failure, and every lookup, where it is.
LEMMA SweepEvicts ==
  ASSUME InUse, UNCHANGED unswept, NEW arc \in DOMAIN arcs, slot[arc] = "Loaded",
         slot' = [slot EXCEPT ![arc] = "Evicted"], sweep' \in Sweeps,
         sweep'.looked <= clock, sweep'.measured <= clock,
         \A v \in sweep'.victims : v.ts <= sweep'.looked,
         sweep'.at \in {"peek", "idle entry"} => sweep'.now = sweep'.looked,
         sweep'.at = "idle entry" => sweep'.todo # <<>>,
         sweep'.at = "swept" => sweep'.victims = {},
         Counted'
  PROVE  InUse'
<1>1. StoreTypes /\ SlotTypes /\ Looking /\ Looked
  BY DEF InUse
<1>2. StoreTypes' /\ SlotTypes' /\ Sweeps' = Sweeps
  BY <1>1 DEF unswept, StoreTypes, SlotTypes, Sweeps, Live, store
<1>3. Looking'
  <2>1. \A a \in DOMAIN arcs : slot[a] = "Failed" => slot'[a] = "Failed"
    BY <1>1 DEF SlotTypes
  <2> QED
    BY <1>1, <2>1, LookupsStay DEF unswept
<1>4. Looked'
  BY <1>2 DEF Looked, unswept
<1> QED
  BY <1>2, <1>3, <1>4 DEF InUse

LEMMA EvictIdleStep ==
  ASSUME InUse, EvictIdle
  PROVE  InUse'
<1> DEFINE s == [sweep EXCEPT !.at = "peek", !.todo = Tail(@)]
<1>1. /\ sweep \in Sweeps /\ sweep.todo \in Seq(Live) /\ sweep.at = "idle entry"
      /\ sweep.now = sweep.looked /\ sweep.todo # <<>>
  BY SweepTypes DEF EvictIdle, InUse, Looked
<1>2. Tail(sweep.todo) \in Seq(Live) /\ Entry \in DOMAIN arcs
  BY <1>1, HeadTailProperties, SweepTypes DEF Entry
<1>3. sweep' = s
  BY DEF EvictIdle
<1>4. /\ s \in Sweeps /\ s.at = "peek" /\ s.now = sweep.now /\ s.looked = sweep.looked
      /\ s.measured = sweep.measured /\ s.victims = sweep.victims
  BY <1>1, <1>2 DEF Sweeps
<1> HIDE DEF s
<1>5. Counted'
  BY <1>3, <1>4 DEF Counted, CapIsReached
<1>6. CASE IdleStill(Entry)
  <2>1. slot[Entry] = "Loaded" /\ slot' = [slot EXCEPT ![Entry] = "Evicted"] /\ UNCHANGED unswept
    BY <1>6 DEF IdleStill, EvictIdle
  <2> QED
    BY <1>1, <1>2, <1>3, <1>4, <1>5, <2>1, SweepEvicts, SweepTypes
<1>7. CASE ~IdleStill(Entry)
  <2>1. UNCHANGED <<unswept, slot>>
    BY <1>7 DEF EvictIdle
  <2> QED
    BY <1>1, <1>3, <1>4, <1>5, <2>1, SweepLooks, SweepTypes
<1> QED
  BY <1>6, <1>7

LEMMA MeasureStep ==
  ASSUME InUse, Measure
  PROVE  InUse'
<1> DEFINE s == [sweep EXCEPT !.at = "measure", !.todo = entries, !.resident = 0, !.measured = clock]
<1>1. /\ sweep \in Sweeps /\ entries \in Seq(Live) /\ clock \in Nat /\ sweep' = s
      /\ UNCHANGED <<unswept, slot>>
  BY SweepTypes DEF Measure
<1>2. /\ s \in Sweeps /\ s.at = "measure" /\ s.looked = sweep.looked /\ s.measured = clock
      /\ s.victims = sweep.victims /\ s.todo = entries /\ s.resident = 0
  BY <1>1 DEF Sweeps
<1> HIDE DEF s
<1>3. (Unread \ Ahead)' = {}
  BY <1>1, <1>2 DEF Unread, Ahead, LoadedArcs, unswept, store
<1>4. Counted'
  <2>1. Cardinality((Unread \ Ahead)') = 0
    BY <1>3, FS_EmptySet
  <2>2. sweep'.at = "measure" /\ sweep'.resident = 0
    BY <1>1, <1>2
  <2> QED
    BY <2>1, <2>2 DEF Counted, CapIsReached
<1>5. clock <= clock
  BY <1>1
<1> QED
  BY <1>1, <1>2, <1>4, <1>5, SweepLooks, SweepTypes

\* What is ahead, of a sequence with a head.
LEMMA AheadIs ==
  ASSUME InUse, sweep.todo # <<>>
  PROVE  /\ Entry \in Live /\ Tail(sweep.todo) \in Seq(Live)
         /\ Ahead = {Entry} \cup ToSet(Tail(sweep.todo))
<1>1. sweep.todo \in Seq(Live)
  BY SweepTypes
<1> DEFINE t == Tail(sweep.todo)
<1>2. /\ Head(sweep.todo) \in Live /\ t \in Seq(Live)
      /\ Len(t) = Len(sweep.todo) - 1 /\ Len(sweep.todo) \in Nat \ {0}
      /\ \A i \in 1 .. Len(t) : t[i] = sweep.todo[i + 1]
      /\ Head(sweep.todo) = sweep.todo[1]
  <2>1. Len(sweep.todo) \in Nat /\ Len(sweep.todo) # 0 /\ Head(sweep.todo) = sweep.todo[1]
    BY <1>1
  <2> QED
    BY <1>1, <2>1, HeadTailProperties
<1> HIDE DEF t
<1>3. ASSUME NEW x \in Ahead PROVE x = Entry \/ x \in ToSet(t)
  <2>1. PICK i \in DOMAIN sweep.todo : x = sweep.todo[i]
    BY DEF Ahead, ToSet
  <2>2. CASE i = 1
    BY <1>2, <2>1, <2>2 DEF Entry
  <2>3. CASE i # 1
    <3>1. PICK j \in 1 .. Len(t) : i = j + 1
      <4>1. i \in 1 .. Len(sweep.todo) /\ i - 1 \in 1 .. Len(t) /\ i = (i - 1) + 1
        BY <1>1, <1>2, <2>3
      <4> QED
        BY <4>1
    <3>2. x = t[j] /\ j \in DOMAIN t
      BY <1>2, <2>1, <3>1
    <3> QED
      BY <3>2 DEF ToSet
  <2> QED
    BY <2>2, <2>3
<1>4. ASSUME NEW x \in ToSet(t) PROVE x \in Ahead
  <2>1. PICK j \in DOMAIN t : x = t[j]
    BY DEF ToSet
  <2>2. j + 1 \in DOMAIN sweep.todo /\ x = sweep.todo[j + 1]
    BY <1>1, <1>2, <2>1
  <2> QED
    BY <2>2 DEF Ahead, ToSet
<1>5. Entry \in Ahead
  BY <1>1, <1>2 DEF Entry, Ahead, ToSet
<1> QED
  BY <1>2, <1>3, <1>4, <1>5 DEF Entry, t

\* An entry that is measured is counted.
LEMMA MeasureEntryStep ==
  ASSUME InUse, MeasureEntry
  PROVE  InUse'
<1> DEFINE counts == IF slot[Entry] = "Loaded" THEN sweep.resident + 1 ELSE sweep.resident
           s == [sweep EXCEPT !.todo = Tail(@), !.resident = counts]
<1>1. /\ sweep \in Sweeps /\ sweep.resident \in Nat /\ sweep.at = "measure" /\ sweep.todo # <<>>
      /\ UNCHANGED <<unswept, slot>> /\ StoreTypes
      /\ Cardinality(Unread \ Ahead) <= sweep.resident
  BY SweepTypes DEF MeasureEntry, Done, InUse, Counted
<1>2. /\ Entry \in Live /\ Tail(sweep.todo) \in Seq(Live)
      /\ Ahead = {Entry} \cup ToSet(Tail(sweep.todo))
  BY <1>1, AheadIs
<1>3. counts \in Nat
  BY <1>1
<1>4. sweep' = s
  BY DEF MeasureEntry
<1> HIDE DEF counts
<1>5. /\ s \in Sweeps /\ s.at = "measure" /\ s.looked = sweep.looked /\ s.measured = sweep.measured
      /\ s.victims = sweep.victims /\ s.todo = Tail(sweep.todo) /\ s.resident = counts
  BY <1>1, <1>2, <1>3 DEF Sweeps
<1> HIDE DEF s
<1>6. Unread' = Unread /\ Ahead' = ToSet(Tail(sweep.todo))
  BY <1>1, <1>4, <1>5 DEF Unread, Ahead, LoadedArcs, unswept, store
<1> DEFINE before == Unread \ Ahead
           after == Unread \ ToSet(Tail(sweep.todo))
<1>7. IsFiniteSet(before) /\ Cardinality(before) \in Nat
  BY <1>1, UnreadIsFinite, FS_Subset, FS_CardinalityType
<1>8. Cardinality(after) <= counts
  <2>1. CASE slot[Entry] = "Loaded"
    <3>1. after \subseteq before \cup {Entry}
      BY <1>2
    <3> HIDE DEF before, after
    <3>2. /\ IsFiniteSet(before \cup {Entry}) /\ Cardinality(before \cup {Entry}) <= Cardinality(before) + 1
          /\ Cardinality(before \cup {Entry}) \in Nat
      BY <1>7, FS_AddElement, FS_CardinalityType
    <3>3. Cardinality(after) <= Cardinality(before \cup {Entry}) /\ Cardinality(after) \in Nat
      BY <3>1, <3>2, FS_Subset, FS_CardinalityType
    <3>4. Cardinality(before) <= sweep.resident /\ counts = sweep.resident + 1
      BY <1>1, <2>1 DEF before, counts
    <3> QED
      BY <1>1, <1>7, <3>2, <3>3, <3>4
  <2>2. CASE slot[Entry] # "Loaded"
    <3>1. after = before
      BY <1>2, <2>2 DEF Unread, LoadedArcs
    <3> QED
      BY <1>1, <2>2, <3>1 DEF counts
  <2> QED
    BY <2>1, <2>2
<1>9. Counted'
  <2>1. (Unread \ Ahead)' = after
    BY <1>6
  <2> HIDE DEF after
  <2> QED
    BY <1>4, <1>5, <1>8, <2>1 DEF Counted, CapIsReached
<1> QED
  BY <1>1, <1>4, <1>5, <1>9, SweepLooks, SweepTypes

LEMMA OverCapStep ==
  ASSUME InUse, OverCap
  PROVE  InUse'
<1>0. Cap \in Nat
  BY StoreAssumption
<1>1. /\ sweep \in Sweeps /\ sweep.resident \in Nat /\ sweep.at = "measure" /\ sweep.todo = <<>>
      /\ UNCHANGED <<unswept, slot>> /\ StoreTypes /\ entries \in Seq(Live)
      /\ Cardinality(Unread \ Ahead) <= sweep.resident
  BY SweepTypes DEF OverCap, Done, InUse, Counted
<1>2. Ahead = {}
  BY <1>1 DEF Ahead, ToSet
<1>3. Cardinality(Unread) <= sweep.resident /\ Cardinality(Unread) \in Nat
  <2>1. Unread \ Ahead = Unread
    BY <1>2
  <2> QED
    BY <1>1, <2>1, UnreadIsFinite
<1>4. CASE sweep.resident > Cap
  <2> DEFINE s == [sweep EXCEPT !.at = "snapshot", !.todo = entries, !.victims = {}]
  <2>1. sweep' = s
    BY <1>4 DEF OverCap
  <2>2. /\ s \in Sweeps /\ s.at = "snapshot" /\ s.looked = sweep.looked /\ s.measured = sweep.measured
        /\ s.victims = {} /\ s.todo = entries /\ s.resident = sweep.resident
    BY <1>1 DEF Sweeps
  <2> HIDE DEF s
  <2>3. Unread' = Unread /\ Unread \subseteq Ahead'
    BY <1>1, <2>1, <2>2 DEF Unread, Ahead, LoadedArcs, unswept, store
  <2>4. Counted'
    BY <1>3, <2>1, <2>2, <2>3 DEF Counted, CapIsReached
  <2> QED
    BY <1>1, <2>1, <2>2, <2>4, SweepLooks, SweepTypes
<1>5. CASE ~(sweep.resident > Cap)
  <2> DEFINE s == [sweep EXCEPT !.at = "swept", !.victims = {}]
  <2>1. sweep' = s
    BY <1>5 DEF OverCap
  <2>2. /\ s \in Sweeps /\ s.at = "swept" /\ s.looked = sweep.looked /\ s.measured = sweep.measured
        /\ s.victims = {}
    BY <1>1 DEF Sweeps
  <2> HIDE DEF s
  <2>3. Unread' = Unread
    BY <1>1, <2>1, <2>2 DEF Unread, LoadedArcs, unswept, store
  <2>4. Cardinality(Unread) <= Cap
    BY <1>0, <1>1, <1>3, <1>5
  <2>5. CapIsReached'
    BY <2>3, <2>4 DEF CapIsReached, Unread
  <2>6. Counted'
    BY <2>1, <2>2, <2>5 DEF Counted
  <2> QED
    BY <1>1, <2>1, <2>2, <2>6, SweepLooks, SweepTypes
<1> QED
  BY <1>4, <1>5

\* The list of victims has what is unread of the entries gone through.
LEMMA SnapshotStep ==
  ASSUME InUse, SnapshotEntry
  PROVE  InUse'
<1> DEFINE listed == IF slot[Entry] = "Loaded" /\ ~IsWarm(Entry)
                     THEN sweep.victims \cup {[arc |-> Entry, ts |-> accessed[Entry]]}
                     ELSE sweep.victims
           at == IF Tail(sweep.todo) = <<>> THEN "backstop" ELSE sweep.at
           s == [sweep EXCEPT !.todo = Tail(@), !.victims = listed, !.at = at, !.looked = clock]
<1>1. /\ sweep \in Sweeps /\ sweep.resident \in Nat /\ sweep.at = "snapshot" /\ sweep.todo # <<>>
      /\ UNCHANGED <<unswept, slot>> /\ StoreTypes /\ SlotTypes /\ clock \in Nat
      /\ Cardinality(Unread) <= sweep.resident
      /\ \A arc \in Unread \ Ahead : IsWarm(arc) \/ Listed(arc)
  BY SweepTypes DEF SnapshotEntry, Done, InUse, Counted
<1>2. /\ Entry \in Live /\ Tail(sweep.todo) \in Seq(Live)
      /\ Ahead = {Entry} \cup ToSet(Tail(sweep.todo))
  BY <1>1, AheadIs
<1>3. accessed[Entry] \in Nat /\ accessed[Entry] <= clock
  BY <1>1, <1>2, SweepTypes DEF SlotTypes
<1>4. /\ listed \subseteq [arc : Live, ts : Nat]
      /\ \A v \in listed : v.ts <= clock
      /\ sweep.victims \subseteq listed
  <2>1. /\ sweep.victims \subseteq [arc : Live, ts : Nat]
        /\ \A v \in sweep.victims : v.ts \in Nat /\ v.ts <= sweep.looked
        /\ sweep.looked \in Nat /\ sweep.looked <= clock
    BY SweepTypes
  <2>2. \A v \in sweep.victims : v.ts <= clock
    BY <1>1, <2>1
  <2> QED
    BY <1>2, <1>3, <2>1, <2>2
<1>5. sweep' = s
  BY DEF SnapshotEntry
<1>6. at \in {"snapshot", "backstop"} /\ (at = "backstop" => Tail(sweep.todo) = <<>>)
  BY <1>1
<1>7. slot[Entry] = "Loaded" => IsWarm(Entry) \/ [arc |-> Entry, ts |-> accessed[Entry]] \in listed
  OBVIOUS
<1> HIDE DEF listed, at
<1>8. /\ s \in Sweeps /\ s.at = at /\ s.looked = clock /\ s.measured = sweep.measured
      /\ s.victims = listed /\ s.todo = Tail(sweep.todo) /\ s.resident = sweep.resident
  BY <1>1, <1>2, <1>4, <1>6 DEF Sweeps
<1> HIDE DEF s
<1>9. Unread' = Unread /\ Ahead' = ToSet(Tail(sweep.todo))
  BY <1>1, <1>5, <1>8 DEF Unread, Ahead, LoadedArcs, unswept, store
<1>10. ASSUME NEW arc \in Unread', arc \notin Ahead'
       PROVE  IsWarm(arc)' \/ Listed(arc)'
  <2>1. IsWarm(arc)' <=> IsWarm(arc)
    BY <1>1 DEF IsWarm, unswept, store
  <2>2. Listed(arc)' <=> [arc |-> arc, ts |-> accessed[arc]] \in listed
    BY <1>1, <1>5, <1>8 DEF Listed, unswept
  <2>3. CASE arc = Entry
    <3>1. slot[Entry] = "Loaded"
      BY <1>9, <1>10, <2>3 DEF Unread, LoadedArcs
    <3> QED
      BY <1>7, <2>1, <2>2, <2>3, <3>1
  <2>4. CASE arc # Entry
    <3>1. arc \in Unread \ Ahead
      BY <1>2, <1>9, <1>10, <2>4
    <3>2. IsWarm(arc) \/ Listed(arc)
      BY <1>1, <3>1
    <3> QED
      BY <1>4, <2>1, <2>2, <3>2 DEF Listed
  <2> QED
    BY <2>3, <2>4
<1>11. at = "backstop" => Ahead' = {}
  BY <1>6, <1>9 DEF ToSet
<1>12. Counted'
  BY <1>1, <1>5, <1>6, <1>8, <1>9, <1>10, <1>11 DEF Counted, CapIsReached
<1>13. clock <= clock /\ sweep.measured <= clock
  BY <1>1, SweepTypes
<1> QED
  BY <1>1, <1>4, <1>5, <1>6, <1>8, <1>12, <1>13, SweepLooks

\* The oldest victim is one of the unread, or no unread entry may go.
LEMMA EvictOldestStep ==
  ASSUME InUse, EvictOldest
  PROVE  InUse'
<1>0. Cap \in Nat
  BY StoreAssumption
<1>1. /\ sweep \in Sweeps /\ sweep.resident \in Nat /\ sweep.at = "backstop" /\ sweep.resident > Cap
      /\ UNCHANGED unswept /\ StoreTypes /\ SlotTypes
      /\ sweep.victims \subseteq [arc : Live, ts : Nat]
      /\ \/ \A arc \in Unread : IsWarm(arc)
         \/ /\ Cardinality(Unread) <= sweep.resident
            /\ \A arc \in Unread : IsWarm(arc) \/ Listed(arc)
  BY SweepTypes DEF EvictOldest, InUse, Counted
<1>2. PICK v \in sweep.victims :
        /\ \A w \in sweep.victims : v.ts <= w.ts
        /\ IF UnreadSince(v)
           THEN /\ slot' = [slot EXCEPT ![v.arc] = "Evicted"]
                /\ sweep' = [sweep EXCEPT !.victims = @ \ {v}, !.resident = @ - 1]
           ELSE /\ sweep' = LeftAlone(v)
                /\ UNCHANGED slot
  BY DEF EvictOldest
<1>3. v.arc \in Live /\ v.arc \in DOMAIN arcs /\ v.ts \in Nat /\ accessed[v.arc] \in Nat /\ sweep.measured \in Nat
  BY <1>1, <1>2, SweepTypes DEF SlotTypes
<1>4. sweep.victims \ {v} \in SUBSET [arc : Live, ts : Nat]
  BY <1>1
<1>5. \A w \in sweep.victims \ {v} : w.ts <= sweep.looked
  BY SweepTypes
<1>6. IsFiniteSet(Unread) /\ Cardinality(Unread) \in Nat
  BY <1>1, UnreadIsFinite
<1>7. \A arc : (IsWarm(arc)' <=> IsWarm(arc)) /\ accessed' = accessed
  BY <1>1 DEF IsWarm, unswept, store
<1>8. CASE UnreadSince(v)
  <2> DEFINE s == [sweep EXCEPT !.victims = @ \ {v}, !.resident = @ - 1]
  <2>1. /\ slot[v.arc] = "Loaded" /\ accessed[v.arc] <= v.ts
        /\ slot' = [slot EXCEPT ![v.arc] = "Evicted"] /\ sweep' = s
    BY <1>2, <1>8 DEF UnreadSince
  <2>2. sweep.resident - 1 \in Nat
    BY <1>0, <1>1
  <2>3. /\ s \in Sweeps /\ s.at = "backstop" /\ s.looked = sweep.looked /\ s.measured = sweep.measured
        /\ s.victims = sweep.victims \ {v} /\ s.resident = sweep.resident - 1
    BY <1>1, <1>4, <2>2 DEF Sweeps
  <2> HIDE DEF s
  <2>4. Unread' = Unread \ {v.arc}
    <3>1. ToSet(entries) \subseteq DOMAIN arcs
      BY <1>1 DEF StoreTypes, ToSet
    <3>2. \A arc \in DOMAIN arcs : slot'[arc] = "Loaded" <=> slot[arc] = "Loaded" /\ arc # v.arc
      BY <1>1, <1>3, <2>1 DEF SlotTypes
    <3> QED
      BY <1>1, <2>1, <2>3, <3>1, <3>2 DEF Unread, LoadedArcs, unswept, store
  <2>5. \/ \A arc \in Unread' : IsWarm(arc)'
        \/ /\ Cardinality(Unread') <= sweep'.resident
           /\ \A arc \in Unread' : IsWarm(arc)' \/ Listed(arc)'
    <3>1. CASE \A arc \in Unread : IsWarm(arc)
      BY <1>7, <2>4, <3>1
    <3>2. CASE /\ Cardinality(Unread) <= sweep.resident
               /\ \A arc \in Unread : IsWarm(arc) \/ Listed(arc)
      <4>1. CASE v.arc \in Unread
        <5>1. Cardinality(Unread') = Cardinality(Unread) - 1
          <6> HIDE DEF Unread
          <6> QED
            BY <1>6, <2>4, <4>1, FS_RemoveElement
        <5>2. \A arc \in Unread' : IsWarm(arc)' \/ Listed(arc)'
          <6> SUFFICES ASSUME NEW arc \in Unread', ~IsWarm(arc)
                       PROVE  Listed(arc)'
            BY <1>7
          <6>1. Listed(arc) /\ arc # v.arc
            BY <2>4, <3>2
          <6>2. [arc |-> arc, ts |-> accessed[arc]] # v
            BY <6>1
          <6> QED
            BY <1>7, <2>1, <2>3, <6>1, <6>2 DEF Listed
        <5> QED
          BY <1>1, <1>6, <2>1, <2>3, <3>2, <5>1, <5>2
      <4>2. CASE v.arc \notin Unread
        <5>1. v.ts > sweep.measured
          <6>1. ~(accessed[v.arc] <= sweep.measured)
            BY <1>3, <2>1, <4>2 DEF Unread, LoadedArcs, Live
          <6> QED
            BY <1>3, <2>1, <6>1
        <5>2. \A arc \in Unread : IsWarm(arc)
          <6> SUFFICES ASSUME NEW arc \in Unread, Listed(arc)
                       PROVE  FALSE
            BY <3>2
          <6>1. v.ts <= accessed[arc] /\ accessed[arc] <= sweep.measured /\ accessed[arc] \in Nat
            BY <1>1, <1>2 DEF Listed, Unread, LoadedArcs, SlotTypes, StoreTypes, ToSet
          <6> QED
            BY <1>3, <5>1, <6>1
        <5> QED
          BY <1>7, <2>4, <5>2
      <4> QED
        BY <4>1, <4>2
    <3> QED
      BY <1>1, <3>1, <3>2
  <2>6. Counted'
    BY <2>1, <2>3, <2>5 DEF Counted, CapIsReached
  <2> QED
    BY <1>1, <1>3, <1>5, <2>1, <2>3, <2>6, SweepEvicts, SweepTypes
<1>9. CASE ~UnreadSince(v)
  <2> DEFINE s == [sweep EXCEPT !.victims = @ \ {v}]
  <2>1. sweep' = s /\ slot' = slot
    BY <1>2, <1>9 DEF LeftAlone
  <2>2. /\ s \in Sweeps /\ s.at = "backstop" /\ s.looked = sweep.looked /\ s.measured = sweep.measured
        /\ s.victims = sweep.victims \ {v} /\ s.resident = sweep.resident
    BY <1>1, <1>4 DEF Sweeps
  <2> HIDE DEF s
  <2>3. Unread' = Unread
    BY <1>1, <2>1, <2>2 DEF Unread, LoadedArcs, unswept, store
  <2>4. ASSUME NEW arc \in Unread, Listed(arc) PROVE Listed(arc)'
    <3>1. slot[arc] = "Loaded" /\ accessed[arc] \in Nat
      BY <1>1 DEF Unread, LoadedArcs, SlotTypes, StoreTypes, ToSet
    <3>2. v # [arc |-> arc, ts |-> accessed[arc]]
      <4> SUFFICES ASSUME v.arc = arc, v.ts = accessed[arc]
                   PROVE  FALSE
        OBVIOUS
      <4> QED
        BY <1>9, <3>1 DEF UnreadSince
    <3> QED
      BY <1>7, <2>1, <2>2, <2>4, <3>2 DEF Listed
  <2>5. Counted'
    BY <1>1, <1>7, <2>1, <2>2, <2>3, <2>4 DEF Counted, CapIsReached
  <2> QED
    BY <1>1, <1>5, <2>1, <2>2, <2>5, SweepLooks, SweepTypes
<1> QED
  BY <1>8, <1>9

LEMMA BackstopDoneStep ==
  ASSUME InUse, BackstopDone
  PROVE  InUse'
<1> DEFINE s == [sweep EXCEPT !.at = "swept", !.victims = {}]
<1>0. Cap \in Nat
  BY StoreAssumption
<1>1. /\ sweep \in Sweeps /\ sweep.resident \in Nat
      /\ sweep.resident <= Cap \/ sweep.victims = {}
      /\ UNCHANGED <<unswept, slot>> /\ sweep' = s /\ StoreTypes
      /\ \/ \A arc \in Unread : IsWarm(arc)
         \/ /\ Cardinality(Unread) <= sweep.resident
            /\ \A arc \in Unread : IsWarm(arc) \/ Listed(arc)
  BY SweepTypes DEF BackstopDone, InUse, Counted
<1>2. /\ s \in Sweeps /\ s.at = "swept" /\ s.looked = sweep.looked /\ s.measured = sweep.measured
      /\ s.victims = {}
  BY <1>1 DEF Sweeps
<1> HIDE DEF s
<1>3. Unread' = Unread /\ \A arc : IsWarm(arc)' <=> IsWarm(arc)
  BY <1>1, <1>2 DEF Unread, LoadedArcs, IsWarm, unswept, store
<1>4. Cardinality(Unread) <= Cap \/ \A arc \in Unread : IsWarm(arc)
  <2>1. Cardinality(Unread) \in Nat
    BY <1>1, UnreadIsFinite
  <2>2. CASE sweep.victims = {}
    BY <1>1, <2>2 DEF Listed
  <2>3. CASE sweep.resident <= Cap
    BY <1>0, <1>1, <2>1, <2>3
  <2> QED
    BY <1>1, <2>2, <2>3
<1>5. CapIsReached'
  BY <1>3, <1>4 DEF CapIsReached, Unread
<1>6. Counted'
  BY <1>1, <1>2, <1>5 DEF Counted
<1> QED
  BY <1>1, <1>2, <1>6, SweepLooks, SweepTypes

LEMMA SweepEndStep ==
  ASSUME InUse, SweepEnd
  PROVE  InUse'
<1> DEFINE s == [sweep EXCEPT !.at = "idle", !.resident = 0, !.measured = 0, !.looked = 0, !.now = 0]
<1>1. sweep \in Sweeps /\ sweep' = s /\ UNCHANGED <<unswept, slot>> /\ clock \in Nat
      /\ sweep.victims = {}
  BY SweepTypes DEF SweepEnd, InUse, Looked
<1>2. /\ s \in Sweeps /\ s.at = "idle" /\ s.looked = 0 /\ s.measured = 0 /\ s.victims = {}
  BY <1>1 DEF Sweeps
<1> HIDE DEF s
<1>3. Counted'
  BY <1>1, <1>2 DEF Counted, CapIsReached
<1>4. 0 <= clock
  BY <1>1
<1> QED
  BY <1>1, <1>2, <1>3, <1>4, SweepLooks

LEMMA StoreStep == InUse /\ [StoreNext]_storeVars => InUse'
<1> SUFFICES ASSUME InUse, [StoreNext]_storeVars
             PROVE  InUse'
  OBVIOUS
<1>1. ASSUME NEW r \in Readers, NEW a \in Aliases, Lookup(r, a) PROVE InUse'
  BY <1>1, LookupStep
<1>2. ASSUME NEW r \in Readers, ReadSlot(r) \/ WriteSlot(r) PROVE InUse'
  BY <1>2, ReadStep, WriteStep
<1>3. CASE Edit
  <2>1. UNCHANGED <<store, slot, accessed, reader, sweep>> /\ clock' \in {clock, clock + 1}
    BY <1>3 DEF Edit
  <2> QED
    BY <2>1, OutsideStep
<1>4. CASE Tick
  <2>1. UNCHANGED <<store, slot, accessed, reader, sweep>> /\ clock' \in {clock, clock + 1}
    BY <1>4 DEF Tick
  <2> QED
    BY <2>1, OutsideStep
<1>5. CASE Sweep
  BY <1>5, SweepStartStep, PeekStep, EvictIdleStep, MeasureStep, MeasureEntryStep, OverCapStep,
     SnapshotStep, EvictOldestStep, BackstopDoneStep, SweepEndStep DEF Sweep
<1>6. CASE UNCHANGED storeVars
  <2>1. UNCHANGED <<store, slot, accessed, reader, sweep>> /\ clock' \in {clock, clock + 1}
    BY <1>6 DEF storeVars
  <2> QED
    BY <2>1, OutsideStep
<1> QED
  BY <1>1, <1>2, <1>3, <1>4, <1>5, <1>6 DEF StoreNext

\* What a sweep takes was last read before the sweep looked at it.
LEMMA EvictionStep ==
  ASSUME InUse, [StoreNext]_storeVars, NEW a \in DOMAIN slot,
         slot[a] = "Loaded", slot'[a] = "Evicted"
  PROVE  accessed[a] <= sweep.looked
<1>0. SlotTypes /\ Looked /\ a \in DOMAIN arcs /\ accessed[a] \in Nat /\ Ttl \in Nat
      /\ sweep.looked \in Nat /\ sweep.now \in Nat
  BY StoreAssumption DEF InUse, SlotTypes, Looked, Sweeps
<1>1. CASE EvictIdle
  <2>1. IdleStill(Entry) /\ slot' = [slot EXCEPT ![Entry] = "Evicted"] /\ sweep.at = "idle entry"
    BY <1>1 DEF EvictIdle
  <2>2. a = Entry
    BY <1>0, <2>1 DEF SlotTypes
  <2>3. sweep.now >= accessed[a] + Ttl /\ sweep.now = sweep.looked
    BY <1>0, <2>1, <2>2 DEF IdleStill, IdleAt, Looked
  <2> QED
    BY <1>0, <2>3
<1>2. CASE EvictOldest
  <2>1. PICK v \in sweep.victims : UnreadSince(v) /\ slot' = [slot EXCEPT ![v.arc] = "Evicted"]
    BY <1>2 DEF EvictOldest
  <2>2. a = v.arc
    BY <1>0, <2>1 DEF SlotTypes
  <2>3. accessed[a] <= v.ts /\ v.ts <= sweep.looked /\ v.ts \in Nat
    BY <1>0, <2>1, <2>2 DEF UnreadSince, Looked, Sweeps
  <2> QED
    BY <1>0, <2>3
<1>3. CASE slot' = slot
  BY <1>3
<1>4. ASSUME NEW r \in Readers, WriteSlot(r), slot' # slot PROVE FALSE
  <2>1. slot[Current(r)] \in {"Empty", "Evicted"} /\ reader[r].at # "idle"
        /\ \/ slot' = [slot EXCEPT ![Current(r)] = "Loaded"]
           \/ slot' = [slot EXCEPT ![Current(r)] = "Failed"]
    BY <1>4 DEF WriteSlot
  <2>2. Current(r) \in DOMAIN arcs
    BY <2>1, CurrentIsArc DEF InUse
  <2>3. a # Current(r)
    BY <2>1
  <2> QED
    BY <1>0, <2>1, <2>2, <2>3 DEF SlotTypes
<1> QED
  BY <1>1, <1>2, <1>3, <1>4
     DEF StoreNext, storeVars, Lookup, ReadSlot, Edit, Tick, Sweep, SweepStart, PeekIdle, Measure,
         MeasureEntry, OverCap, SnapshotEntry, BackstopDone, SweepEnd

-----------------------------------------------------------------------------
(* What holds of the specification.                                        *)

\* The inductive invariant, at the start and ever after.
LEMMA StartsInUse == StoreInit => InUse
<1> SUFFICES ASSUME StoreInit PROVE InUse
  OBVIOUS
<1>1. StoreTypes
  <2>1. arcs \in Seq(Arcs) /\ entries \in Seq(DOMAIN arcs) /\ byAlias \in [Aliases -> Seq(ToSet(entries))]
        /\ ToSet(entries) \subseteq DOMAIN arcs
    BY StoreOrdered DEF Ordered, ToSet
  <2> DEFINE S == ToSet(entries)
             T == DOMAIN arcs
  <2>2. \A a \in Aliases : byAlias[a] \in Seq(S)
    BY <2>1
  <2> HIDE DEF S, T
  <2>3. ASSUME NEW s \in Seq(S) PROVE s \in Seq(T)
    BY <2>1 DEF S, T
  <2>4. byAlias = [a \in Aliases |-> byAlias[a]]
    BY <2>1
  <2>5. byAlias \in [Aliases -> Seq(T)]
    BY <2>2, <2>3, <2>4
  <2> QED
    BY <2>1, <2>5 DEF StoreTypes, T
<1>2. /\ slot = [a \in DOMAIN arcs |-> "Empty"] /\ accessed = [a \in DOMAIN arcs |-> 0]
      /\ clock = 1
      /\ reader = [r \in Readers |-> [at |-> "idle", alias |-> None, i |-> 0, result |-> None]]
      /\ sweep = [at |-> "idle", now |-> 0, todo |-> <<>>, victims |-> {},
                  resident |-> 0, measured |-> 0, looked |-> 0]
  BY DEF StoreInit
<1>3. SlotTypes
  BY <1>2 DEF SlotTypes
<1>4. Looking
  <2>1. \A r \in Readers : reader[r].at = "idle" /\ reader[r].alias = None
    BY <1>2
  <2>2. reader \in [Readers -> Lookups]
    BY <1>2 DEF Lookups
  <2> QED
    BY <2>1, <2>2 DEF Looking, LooksUp, FirstThatParses
<1>5. Looked
  BY <1>2 DEF Looked, Sweeps
<1>6. Counted
  BY <1>2 DEF Counted, CapIsReached
<1> QED
  BY <1>1, <1>3, <1>4, <1>5, <1>6 DEF InUse

THEOREM StoreInUse == StoreSpec => []InUse
<1> QED
  BY StartsInUse, StoreStep, PTL DEF StoreSpec

\* The store is made once.
LEMMA StoreStays == [StoreNext]_storeVars => UNCHANGED store
<1> QED
  BY DEF StoreNext, storeVars, store, unswept, Lookup, ReadSlot, WriteSlot, Edit, Tick, Sweep,
         SweepStart, PeekIdle, EvictIdle, Measure, MeasureEntry, OverCap, SnapshotEntry,
         EvictOldest, BackstopDone, SweepEnd

\* What is under an alias is in the store still, where the sweep sees it, and in the
\* promised order, whatever replaced whatever while the directories were loaded
\* (register_entries): for every installation, and every choice of files whose header
\* does not parse.
THEOREM AliasesKeepOrder == StoreSpec => []AliasesInOrder
<1>1. StoreInit => AliasesInOrder
  BY StoreOrdered, OrderIsPromised
<1>2. AliasesInOrder /\ [StoreNext]_storeVars => AliasesInOrder'
  BY StoreStays DEF store, AliasesInOrder, Before, Position
<1> QED
  BY <1>1, <1>2, PTL DEF StoreSpec

\* A lookup ends with the first candidate that is not a failure, whatever is evicted
\* while it goes from one to the next (get_result).
THEOREM LookupsFindFirst == StoreSpec => []FirstThatParses
<1>1. InUse => FirstThatParses
  BY DEF InUse, Looking
<1> QED
  BY <1>1, StoreInUse, PTL

\* A sweep that ends has reached the cap, but for what was read meanwhile, or has left
\* nothing but what is warm (evict_idle_at, phase 2).
THEOREM SweepReachesCap == StoreSpec => []CapIsReached
<1>1. InUse => CapIsReached
  BY DEF InUse, Counted
<1> QED
  BY <1>1, StoreInUse, PTL

\* A sweep takes nothing that was read after it looked (evict_idle_at, "re-check under
\* the lock").
THEOREM RecentReadsSurvive == StoreSpec => RecentSurvives
<1>1. InUse /\ [StoreNext]_storeVars =>
        [\A a \in DOMAIN slot : slot[a] = "Loaded" /\ slot'[a] = "Evicted" =>
           accessed[a] <= sweep.looked]_storeVars
  BY EvictionStep
<1> QED
  BY <1>1, StoreInUse, PTL DEF StoreSpec, RecentSurvives

=============================================================================
