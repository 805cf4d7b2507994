----------------------------- MODULE GeneratorCache -----------------------------
(***************************************************************************)
(* GeneratorCache (crates/gc-suggest/src/cache.rs), as the AWS provider    *)
(* uses it: get_or_try_insert_with lets one caller per key run the         *)
(* producer while the others wait for its guard to be dropped.  Its two    *)
(* maps have a lock each, so between any two steps of a call those of      *)
(* others may come: a caller that missed the entry finds the leader gone,  *)
(* and a caller finds the entry while its leader still holds the key.      *)
(***************************************************************************)
EXTENDS Naturals, FiniteSets

CONSTANTS
  Callers,     \* tasks that call get_or_try_insert_with
  Keys,        \* CacheKey::AwsSdk
  Values,      \* what a producer may return
  Threshold,   \* CACHE_SWEEP_THRESHOLD
  None, Failed

ASSUME ThresholdAssumption == Threshold \in Nat \ {0} /\ IsFiniteSet(Keys)
ASSUME OutcomesAssumption == None \notin Values \cup Callers /\ Failed \notin Values \cup {None}

VARIABLES
  entries,   \* the CacheEntry of each key: its payload, whether its time is over
  younger,   \* last_accessed: the keys used after each key
  pending,   \* the caller whose channel is registered for each key
  call       \* the future of each caller, suspended between two critical sections

vars == <<entries, younger, pending, call>>

Absent == [payload |-> None, expired |-> FALSE]
Idle   == [at |-> "idle", key |-> None, on |-> None, outcome |-> None]

Init ==
  /\ entries = [k \in Keys |-> Absent]
  /\ younger = [k \in Keys |-> {}]
  /\ pending = [k \in Keys |-> None]
  /\ call = [c \in Callers |-> Idle]

-----------------------------------------------------------------------------
(* The entries.                                                            *)

Touched(k) == [j \in Keys |-> IF j = k THEN {} ELSE younger[j] \cup {k}]

Present(es) == {k \in Keys : es[k].payload # None}
Without(es, gone) == [k \in Keys |-> IF k \in gone THEN Absent ELSE es[k]]

\* Mutation: one entry too many stays.
RecentAndOne(es, k) ==
  {j \in Present(es) : Cardinality(Touched(k)[j] \cap Present(es)) <= Threshold}

\* The entries that pass 2 keeps, with k just inserted.
Recent(es, k) ==
  {j \in Present(es) : Cardinality(Touched(k)[j] \cap Present(es)) < Threshold}

\* sweep_if_oversized
Swept(es, k) ==
  LET live == Without(es, {j \in Keys : es[j].expired})
  IN  IF Cardinality(Present(es)) <= Threshold THEN es
      ELSE IF Cardinality(Present(live)) <= Threshold THEN live
      ELSE Without(live, Present(live) \ Recent(live, k))

Resume(c, at) == call' = [call EXCEPT ![c].at = at]
Return(c, outcome) == call' = [call EXCEPT ![c] = [Idle EXCEPT !.outcome = outcome]]

-----------------------------------------------------------------------------
(* get_or_try_insert_with                                                  *)

Call(c, k) ==
  /\ call[c].at = "idle"
  /\ call' = [call EXCEPT ![c] = [Idle EXCEPT !.at = "get", !.key = k]]
  /\ UNCHANGED <<entries, younger, pending>>

\* get: under the lock of the entries
Get(c) ==
  LET k == call[c].key IN
  /\ call[c].at = "get"
  /\ \/ /\ entries[k].payload # None /\ ~entries[k].expired
        /\ younger' = Touched(k)
        /\ Return(c, entries[k].payload)
        /\ UNCHANGED entries
     \/ /\ entries[k].payload = None \/ entries[k].expired
        /\ entries' = [entries EXCEPT ![k] = Absent]
        /\ Resume(c, "probe")
        /\ UNCHANGED younger
  /\ UNCHANGED pending

\* Mutation: the key is not looked up before the caller leads.
ProbeAlone(c) ==
  /\ call[c].at = "probe"
  /\ pending' = [pending EXCEPT ![call[c].key] = c]
  /\ Resume(c, "produce")
  /\ UNCHANGED <<entries, younger>>

\* PendingProbe: under the lock of the pending map
Probe(c) ==
  LET k == call[c].key IN
  /\ call[c].at = "probe"
  /\ \/ /\ pending[k] = None
        /\ pending' = [pending EXCEPT ![k] = c]
        /\ Resume(c, "produce")
     \/ /\ pending[k] # None
        /\ call' = [call EXCEPT ![c].at = "wait", ![c].on = pending[k]]
        /\ UNCHANGED pending
  /\ UNCHANGED <<entries, younger>>

\* producer().await; a call that times out counts as a value.
Produce(c) ==
  /\ call[c].at = "produce"
  /\ \/ \E v \in Values : call' = [call EXCEPT ![c].at = "insert", ![c].outcome = v]
     \/ call' = [call EXCEPT ![c].at = "drop", ![c].outcome = Failed]
  /\ UNCHANGED <<entries, younger, pending>>

\* insert
Insert(c) ==
  LET k == call[c].key IN
  /\ call[c].at = "insert"
  /\ entries' = Swept([entries EXCEPT ![k] = [payload |-> call[c].outcome,
                                              expired |-> FALSE]], k)
  /\ younger' = Touched(k)
  /\ Resume(c, "drop")
  /\ UNCHANGED pending

\* Mutation: only a leader that returns wakes the others.
ReleasedUnwoken(c) == [call EXCEPT ![c] = Idle]

\* PendingGuard::drop, on every way out of the producer
Released(c) ==
  [d \in Callers |->
    IF d = c THEN Idle
    ELSE IF call[d].at = "wait" /\ call[d].on = c
         THEN [call[d] EXCEPT !.at = "get", !.on = None]
    ELSE call[d]]

DropGuard(c) ==
  /\ call[c].at = "drop"
  /\ pending' = [pending EXCEPT ![call[c].key] = None]
  /\ call' = [Released(c) EXCEPT ![c].outcome = call[c].outcome]
  /\ UNCHANGED <<entries, younger>>

\* The caller's task is dropped at an await, or the producer panics.
Cancel(c) ==
  /\ \/ /\ call[c].at = "produce"
        /\ pending' = [pending EXCEPT ![call[c].key] = None]
        /\ call' = Released(c)
     \/ /\ call[c].at = "wait"
        /\ call' = [call EXCEPT ![c] = Idle]
        /\ UNCHANGED pending
  /\ UNCHANGED <<entries, younger>>

\* Time passes.
Expire(k) ==
  /\ entries[k].payload # None /\ ~entries[k].expired
  /\ entries' = [entries EXCEPT ![k].expired = TRUE]
  /\ UNCHANGED <<younger, pending, call>>

Advance(c) == Get(c) \/ Probe(c) \/ Produce(c) \/ Insert(c) \/ DropGuard(c)

Next ==
  \/ \E c \in Callers : (\E k \in Keys : Call(c, k)) \/ Advance(c) \/ Cancel(c)
  \/ \E k \in Keys : Expire(k)

Spec == Init /\ [][Next]_vars /\ \A c \in Callers : WF_vars(Advance(c))

-----------------------------------------------------------------------------
(* Properties.                                                             *)

Places == {"idle", "get", "probe", "wait", "produce", "insert", "drop"}

TypeOK ==
  /\ entries \in [Keys -> [payload: Values \cup {None}, expired: BOOLEAN]]
  /\ younger \in [Keys -> SUBSET Keys]
  /\ pending \in [Keys -> Callers \cup {None}]
  /\ call \in [Callers -> [at: Places, key: Keys \cup {None},
                           on: Callers \cup {None}, outcome: Values \cup {Failed, None}]]

\* However inserts and reads interleave, a burst of distinct keys leaves no more
\* than the threshold behind (sweep_if_oversized).
Bounded == Cardinality(Present(entries)) <= Threshold

\* A caller that waits is woken, whatever becomes of its leader: value, failure,
\* panic or cancellation (PendingGuard).
WaitersWake ==
  \A c, d \in Callers : (call[c].at = "wait" /\ call[c].on = d) ~> (call[c].on # d)

Leading(c) == call[c].at \in {"produce", "insert", "drop"}

\* A key is in the pending map exactly as long as one caller holds its guard.
GuardsMatch ==
  /\ \A c \in Callers : Leading(c) => pending[call[c].key] = c
  /\ \A k \in Keys : pending[k] # None =>
       Leading(pending[k]) /\ call[pending[k]].key = k

\* Only what a caller has produced itself is inserted, and no failure.
OutcomesMatch ==
  \A c \in Callers :
    /\ call[c].at # "idle" => call[c].key \in Keys
    /\ call[c].at \in {"get", "probe", "wait", "produce"} => call[c].outcome = None
    /\ call[c].at = "insert" => call[c].outcome \in Values
    /\ call[c].at = "drop" => call[c].outcome \in Values \cup {Failed}

\* The inductive invariant: it is what GeneratorCacheProofs proves.
Guarded == TypeOK /\ GuardsMatch /\ OutcomesMatch

\* A call, all calls and the entries as the abstract store sees them.
Seen(d) ==
  [at |-> CASE d.at \in {"get", "probe", "wait"} -> "asks"
            [] d.at \in {"produce", "insert"} -> "leads"
            [] d.at = "drop" /\ d.outcome = Failed -> "leads"
            [] d.at = "drop" /\ d.outcome # Failed -> "stored"
            [] OTHER -> "idle",
   key |-> d.key, outcome |-> d.outcome]
Calls == [c \in Callers |-> Seen(call[c])]
Held == [k \in Keys |-> IF entries[k].expired THEN None ELSE entries[k].payload]

Abstract == INSTANCE SingleFlight WITH store <- Held, flight <- pending, calls <- Calls

\* The cache implements single flight: one production per key at a time, whose
\* failure is never stored, and answers that come from the store or from the
\* caller's own production; a production that has begun ends.
ImplementsSingleFlight == Abstract!Spec
=============================================================================
