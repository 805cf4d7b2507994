------------------------- MODULE GeneratorCacheProofs -------------------------
(***************************************************************************)
(* Proofs about GeneratorCache for any callers, keys, values and any       *)
(* threshold: who holds a key's guard, that the sweep leaves no more than  *)
(* the threshold, and that every step of the cache is a step of            *)
(* SingleFlight or none at all.                                            *)
(***************************************************************************)
EXTENDS GeneratorCache, FiniteSetTheorems, TLAPS

EntryTypes == [payload: Values \cup {None}, expired: BOOLEAN]
CallTypes == [at: Places, key: Keys \cup {None}, on: Callers \cup {None},
              outcome: Values \cup {Failed, None}]

-----------------------------------------------------------------------------
(* The sweep.                                                              *)

\* The sweep forgets entries or leaves them as they are, and spares the one
\* that was just inserted (sweep_if_oversized).
LEMMA SweptSpares ==
  ASSUME NEW es \in [Keys -> EntryTypes], NEW k \in Keys,
         es[k].payload # None, ~es[k].expired
  PROVE  /\ Swept(es, k) \in [Keys -> EntryTypes]
         /\ Swept(es, k)[k] = es[k]
         /\ \A j \in Keys : Swept(es, k)[j] \in {es[j], Absent}
<1> DEFINE live == Without(es, {j \in Keys : es[j].expired})
           rest == Without(live, Present(live) \ Recent(live, k))
<1>1. Absent \in EntryTypes
  BY DEF Absent, EntryTypes
<1>2. live \in [Keys -> EntryTypes] /\ live[k] = es[k]
      /\ \A j \in Keys : live[j] \in {es[j], Absent}
  BY <1>1 DEF Without
<1>3. k \in Recent(live, k)
  <2>1. k \in Present(live)
    BY <1>2 DEF Present
  <2>2. Touched(k)[k] \cap Present(live) = {}
    BY DEF Touched
  <2>3. Cardinality({}) < Threshold
    BY FS_EmptySet, ThresholdAssumption
  <2> QED
    BY <2>1, <2>2, <2>3 DEF Recent
<1>4. rest \in [Keys -> EntryTypes] /\ rest[k] = es[k]
      /\ \A j \in Keys : rest[j] \in {es[j], Absent}
  <2> HIDE DEF live
  <2> QED
    BY <1>1, <1>2, <1>3 DEF Without
<1>5. Swept(es, k) \in {es, live, rest}
  BY DEF Swept
<1> HIDE DEF live, rest
<1> QED
  BY <1>2, <1>4, <1>5

-----------------------------------------------------------------------------
(* The inductive invariant.                                                *)

LEMMA InitGuarded == Init => Guarded
BY OutcomesAssumption
DEF Init, Guarded, TypeOK, GuardsMatch, OutcomesMatch, Leading, Absent, Idle, Places

\* OutcomesMatch of one call.
Fits(d) ==
  /\ d.at # "idle" => d.key \in Keys
  /\ d.at \in {"get", "probe", "wait", "produce"} => d.outcome = None
  /\ d.at = "insert" => d.outcome \in Values
  /\ d.at = "drop" => d.outcome \in Values \cup {Failed}

Leads(d) == d.at \in {"produce", "insert", "drop"}

\* A call that goes on, and keeps the guard it has or goes on without one.
LEMMA StaysGuarded ==
  ASSUME Guarded, NEW c \in Callers, NEW new \in CallTypes,
         call' = [call EXCEPT ![c] = new],
         UNCHANGED pending,
         entries' \in [Keys -> EntryTypes],
         younger' \in [Keys -> SUBSET Keys],
         Fits(new),
         Leads(new) <=> Leading(c),
         Leads(new) => new.key = call[c].key
  PROVE  Guarded'
<1>1. TypeOK'
  BY DEF Guarded, TypeOK, CallTypes, EntryTypes
<1>2. /\ call'[c] = new
      /\ \A d \in Callers \ {c} : call'[d] = call[d]
  BY DEF Guarded, TypeOK
<1>3. OutcomesMatch'
  BY <1>2 DEF Guarded, OutcomesMatch, Fits
<1>4. \A d \in Callers : Leading(d)' <=> Leading(d)
  BY <1>2 DEF Leading, Leads
<1>5. \A d \in Callers : Leading(d) => call'[d].key = call[d].key
  BY <1>2 DEF Leading, Leads
<1>6. GuardsMatch'
  <2>1. \A d \in Callers : Leading(d)' => pending'[call'[d].key] = d
    BY <1>4, <1>5 DEF Guarded, GuardsMatch
  <2>2. \A j \in Keys : pending'[j] # None =>
          pending[j] \in Callers /\ Leading(pending[j])' /\ call'[pending[j]].key = j
    BY <1>4, <1>5 DEF Guarded, TypeOK, GuardsMatch
  <2> QED
    BY <2>1, <2>2 DEF GuardsMatch, Leading
<1> QED
  BY <1>1, <1>3, <1>6 DEF Guarded

LEMMA CallGuarded ==
  ASSUME Guarded, NEW c \in Callers, NEW k \in Keys, Call(c, k)
  PROVE  Guarded'
<1> DEFINE new == [Idle EXCEPT !.at = "get", !.key = k]
<1>1. /\ new \in CallTypes /\ new.at = "get" /\ new.key = k /\ new.outcome = None
      /\ call[c].at = "idle"
  BY DEF Idle, CallTypes, Places, Call
<1>2. Fits(new) /\ ~Leads(new) /\ ~Leading(c)
  BY <1>1 DEF Fits, Leads, Leading
<1>3. /\ call' = [call EXCEPT ![c] = new]
      /\ UNCHANGED <<entries, younger, pending>>
  BY DEF Call
<1> HIDE DEF new
<1> QED
  BY <1>1, <1>2, <1>3, StaysGuarded DEF Guarded, TypeOK, EntryTypes

LEMMA GetGuarded ==
  ASSUME Guarded, NEW c \in Callers, Get(c)
  PROVE  Guarded'
<1> DEFINE k == call[c].key
           hit == [Idle EXCEPT !.outcome = entries[k].payload]
           miss == [call[c] EXCEPT !.at = "probe"]
<1>1. /\ k \in Keys /\ entries[k].payload \in Values \cup {None}
      /\ call[c] \in CallTypes /\ call[c].at = "get" /\ call[c].outcome = None
  BY DEF Guarded, TypeOK, CallTypes, OutcomesMatch, Get
<1>2. hit \in CallTypes /\ hit.at = "idle"
  BY <1>1 DEF Idle, CallTypes, Places
<1>3. /\ miss \in CallTypes /\ miss.at = "probe" /\ miss.key = k
      /\ miss.outcome = None
  BY <1>1 DEF CallTypes, Places
<1>4. /\ Fits(hit) /\ ~Leads(hit) /\ Fits(miss) /\ ~Leads(miss) /\ ~Leading(c)
  BY <1>1, <1>2, <1>3 DEF Fits, Leads, Leading
<1>5. UNCHANGED pending
  BY DEF Get
<1>6. CASE entries[k].payload # None /\ ~entries[k].expired
  <2>1. /\ call' = [call EXCEPT ![c] = hit]
        /\ entries' = entries /\ younger' = Touched(k)
    BY <1>6 DEF Get, Return
  <2>2. /\ entries' \in [Keys -> EntryTypes]
        /\ younger' \in [Keys -> SUBSET Keys]
    BY <1>1, <2>1 DEF Touched, Guarded, TypeOK, EntryTypes
  <2> HIDE DEF hit, k
  <2> QED
    BY <1>2, <1>4, <1>5, <2>1, <2>2, StaysGuarded
<1>7. CASE entries[k].payload = None \/ entries[k].expired
  <2>1. /\ call' = [call EXCEPT ![c] = miss]
        /\ entries' = [entries EXCEPT ![k] = Absent] /\ younger' = younger
    BY <1>7 DEF Get, Resume
  <2>2. /\ entries' \in [Keys -> EntryTypes]
        /\ younger' \in [Keys -> SUBSET Keys]
    BY <1>1, <2>1 DEF Absent, Guarded, TypeOK, EntryTypes
  <2> HIDE DEF miss, k
  <2> QED
    BY <1>3, <1>4, <1>5, <2>1, <2>2, StaysGuarded
<1> QED
  BY <1>6, <1>7

\* A caller takes the guard of a key nobody produces.
LEMMA LeadGuarded ==
  ASSUME Guarded, NEW c \in Callers, NEW k \in Keys,
         call[c].at = "probe", call[c].key = k, pending[k] = None,
         pending' = [pending EXCEPT ![k] = c],
         Resume(c, "produce"),
         UNCHANGED <<entries, younger>>
  PROVE  Guarded'
<1>1. TypeOK'
  BY DEF Resume, Guarded, TypeOK, Places
<1>2. /\ call'[c].at = "produce" /\ call'[c].key = k /\ call'[c].outcome = None
      /\ \A d \in Callers \ {c} : call'[d] = call[d]
  BY DEF Resume, Guarded, TypeOK, OutcomesMatch
<1>3. OutcomesMatch'
  BY <1>2 DEF Guarded, OutcomesMatch
<1>4. /\ pending'[k] = c
      /\ \A j \in Keys \ {k} : pending'[j] = pending[j]
  BY DEF Guarded, TypeOK
<1>5. GuardsMatch'
  <2>1. ASSUME NEW d \in Callers, Leading(d)'
        PROVE  pending'[call'[d].key] = d
    <3>1. CASE d = c
      BY <1>2, <1>4, <3>1
    <3>2. CASE d # c
      <4>1. Leading(d) /\ call[d].key \in Keys /\ call'[d].key = call[d].key
        BY <1>2, <2>1, <3>2 DEF Leading, Guarded, OutcomesMatch
      <4>2. pending[call[d].key] = d
        BY <4>1 DEF Guarded, GuardsMatch
      <4>3. call[d].key # k
        BY <4>2, OutcomesAssumption
      <4> QED
        BY <1>4, <4>1, <4>2, <4>3
    <3> QED
      BY <3>1, <3>2
  <2>2. ASSUME NEW j \in Keys, pending'[j] # None
        PROVE  /\ pending'[j] \in Callers
               /\ Leads(call'[pending'[j]]) /\ call'[pending'[j]].key = j
    <3>1. CASE j = k
      BY <1>2, <1>4, <3>1 DEF Leads
    <3>2. CASE j # k
      <4>1. /\ pending[j] \in Callers /\ Leading(pending[j]) /\ call[pending[j]].key = j
            /\ pending'[j] = pending[j]
        BY <1>4, <2>2, <3>2 DEF Guarded, TypeOK, GuardsMatch
      <4>2. pending[j] # c
        BY <4>1 DEF Leading
      <4> QED
        BY <1>2, <4>1, <4>2 DEF Leading, Leads
    <3> QED
      BY <3>1, <3>2
  <2> QED
    BY <2>1, <2>2 DEF GuardsMatch, Leading, Leads
<1> QED
  BY <1>1, <1>3, <1>5 DEF Guarded

LEMMA ProbeGuarded ==
  ASSUME Guarded, NEW c \in Callers, Probe(c)
  PROVE  Guarded'
<1> DEFINE k == call[c].key
           new == [call[c] EXCEPT !.at = "wait", !.on = pending[k]]
<1>1. /\ k \in Keys /\ call[c].at = "probe" /\ call[c] \in CallTypes
      /\ call[c].outcome = None /\ pending[k] \in Callers \cup {None}
  BY DEF Guarded, TypeOK, CallTypes, OutcomesMatch, Probe
<1>2. CASE pending[k] = None
  BY <1>1, <1>2, LeadGuarded DEF Probe
<1>3. CASE pending[k] # None
  <2>1. /\ call' = [call EXCEPT ![c] = new]
        /\ UNCHANGED <<entries, younger, pending>>
    BY <1>3 DEF Probe
  <2>2. /\ new \in CallTypes /\ new.at = "wait" /\ new.key = k
        /\ new.outcome = None
    BY <1>1 DEF CallTypes, Places
  <2>3. Fits(new) /\ ~Leads(new) /\ ~Leading(c)
    BY <1>1, <2>2 DEF Fits, Leads, Leading
  <2> HIDE DEF new
  <2> QED
    BY <2>1, <2>2, <2>3, StaysGuarded DEF Guarded, TypeOK, EntryTypes
<1> QED
  BY <1>2, <1>3

LEMMA ProduceGuarded ==
  ASSUME Guarded, NEW c \in Callers, Produce(c)
  PROVE  Guarded'
<1>1. /\ call[c].key \in Keys /\ call[c].at = "produce" /\ call[c] \in CallTypes
      /\ UNCHANGED <<entries, younger, pending>>
  BY DEF Guarded, TypeOK, CallTypes, OutcomesMatch, Produce
<1>2. PICK at \in {"insert", "drop"}, v \in Values \cup {Failed} :
        /\ call' = [call EXCEPT ![c].at = at, ![c].outcome = v]
        /\ at = "insert" => v \in Values
  BY DEF Produce
<1> DEFINE new == [call[c] EXCEPT !.at = at, !.outcome = v]
<1>3. /\ new \in CallTypes /\ new.at = at /\ new.key = call[c].key
      /\ new.outcome = v
  BY <1>1 DEF CallTypes, Places
<1>4. Fits(new) /\ Leads(new) /\ Leading(c)
  BY <1>1, <1>2, <1>3 DEF Fits, Leads, Leading
<1>5. call' = [call EXCEPT ![c] = new]
  BY <1>2
<1> HIDE DEF new
<1> QED
  BY <1>1, <1>3, <1>4, <1>5, StaysGuarded DEF Guarded, TypeOK, EntryTypes

LEMMA InsertGuarded ==
  ASSUME Guarded, NEW c \in Callers, Insert(c)
  PROVE  Guarded'
<1> DEFINE k == call[c].key
           es == [entries EXCEPT ![k] = [payload |-> call[c].outcome, expired |-> FALSE]]
<1>1. k \in Keys /\ call[c].outcome \in Values
  BY DEF Guarded, OutcomesMatch, Insert
<1>2. es \in [Keys -> EntryTypes] /\ es[k].payload # None /\ ~es[k].expired
  BY <1>1, OutcomesAssumption DEF Guarded, TypeOK, EntryTypes
<1>3. entries' \in [Keys -> EntryTypes]
  <2>1. entries' = Swept(es, k)
    BY DEF Insert
  <2> HIDE DEF k, es
  <2> QED
    BY <1>1, <1>2, <2>1, SweptSpares
<1>4. Touched(k) \in [Keys -> SUBSET Keys]
  BY <1>1 DEF Touched, Guarded, TypeOK
<1> DEFINE new == [call[c] EXCEPT !.at = "drop"]
<1>5. /\ new \in CallTypes /\ new.at = "drop" /\ new.key = k
      /\ new.outcome = call[c].outcome /\ call[c].at = "insert"
  BY <1>1 DEF Guarded, TypeOK, CallTypes, Places, Insert
<1>6. Fits(new) /\ Leads(new) /\ Leading(c)
  BY <1>1, <1>5 DEF Fits, Leads, Leading
<1>7. /\ call' = [call EXCEPT ![c] = new]
      /\ younger' = Touched(k) /\ pending' = pending
  BY DEF Insert, Resume
<1> HIDE DEF new, k, es
<1> QED
  BY <1>3, <1>4, <1>5, <1>6, <1>7, StaysGuarded DEF k

Woken(d) == [call[d] EXCEPT !.at = "get", !.on = None]

LEMMA WokenCall ==
  ASSUME TypeOK, NEW d \in Callers
  PROVE  /\ Woken(d).at = "get" /\ Woken(d).key = call[d].key
         /\ Woken(d).outcome = call[d].outcome /\ Woken(d) \in CallTypes
<1>1. call[d] \in CallTypes
  BY DEF TypeOK, CallTypes
<1> QED
  BY <1>1 DEF Woken, CallTypes, Places

\* Who waits for the guard looks again; nobody else notices.
LEMMA ReleasedCalls ==
  ASSUME TypeOK, NEW c \in Callers
  PROVE  /\ Released(c) \in [Callers -> CallTypes]
         /\ Released(c)[c] = Idle
         /\ \A d \in Callers \ {c} :
              \/ Released(c)[d] = call[d]
              \/ /\ call[d].at = "wait"
                 /\ Released(c)[d] = Woken(d)
BY DEF Released, Woken, TypeOK, CallTypes, Idle, Places

\* A leader gives its guard back: those who wait look again.
LEMMA ReleaseGuarded ==
  ASSUME Guarded, NEW c \in Callers, Leading(c),
         NEW new \in CallTypes, new.at = "idle",
         pending' = [pending EXCEPT ![call[c].key] = None],
         call' = [Released(c) EXCEPT ![c] = new],
         UNCHANGED <<entries, younger>>
  PROVE  Guarded'
<1> DEFINE k == call[c].key
<1>1. k \in Keys /\ pending[k] = c
  BY DEF Guarded, OutcomesMatch, GuardsMatch, Leading
<1>2. /\ call' \in [Callers -> CallTypes] /\ call'[c] = new
      /\ \A d \in Callers \ {c} :
           \/ call'[d] = call[d]
           \/ /\ call[d].at = "wait"
              /\ call'[d] = Woken(d)
  BY ReleasedCalls DEF Guarded
<1>3. TypeOK'
  BY <1>1, <1>2 DEF Guarded, TypeOK, CallTypes
<1>4. \A d \in Callers : Leads(call'[d]) => d # c /\ Leading(d) /\ call'[d].key = call[d].key
  <2> SUFFICES ASSUME NEW d \in Callers, Leads(call'[d])
               PROVE  d # c /\ Leading(d) /\ call'[d].key = call[d].key
    OBVIOUS
  <2>1. d # c
    BY <1>2 DEF Leads
  <2>2. CASE call'[d] = call[d]
    BY <2>1, <2>2 DEF Leading, Leads
  <2>3. CASE call'[d] = Woken(d)
    BY <2>3, WokenCall DEF Guarded, Leads
  <2> QED
    BY <1>2, <2>1, <2>2, <2>3
<1>5. \A d \in Callers \ {c} : Leading(d) => Leads(call'[d]) /\ call'[d].key = call[d].key
  BY <1>2 DEF Leading, Leads
<1>6. GuardsMatch'
  <2>1. \A d \in Callers : Leads(call'[d]) => pending'[call'[d].key] = d
    BY <1>1, <1>4 DEF Guarded, TypeOK, GuardsMatch, OutcomesMatch, Leading
  <2>2. \A j \in Keys : pending'[j] # None =>
          /\ pending'[j] \in Callers
          /\ Leads(call'[pending'[j]]) /\ call'[pending'[j]].key = j
    BY <1>1, <1>5 DEF Guarded, TypeOK, GuardsMatch
  <2> QED
    BY <2>1, <2>2 DEF GuardsMatch, Leading, Leads
<1>7. OutcomesMatch'
  <2>1. Fits(call'[c])
    BY <1>2 DEF Fits
  <2>2. ASSUME NEW d \in Callers \ {c}
        PROVE  Fits(call'[d])
    <3>1. Fits(call[d]) /\ call[d] \in CallTypes
      BY DEF Guarded, TypeOK, CallTypes, OutcomesMatch, Fits
    <3>2. CASE call'[d] = call[d]
      BY <3>1, <3>2
    <3>3. CASE call[d].at = "wait" /\ call'[d] = Woken(d)
      BY <3>1, <3>3, WokenCall DEF Guarded, Fits
    <3> QED
      BY <1>2, <3>2, <3>3
  <2> QED
    BY <2>1, <2>2 DEF OutcomesMatch, Fits
<1> QED
  BY <1>3, <1>6, <1>7 DEF Guarded

LEMMA DropGuarded ==
  ASSUME Guarded, NEW c \in Callers, DropGuard(c)
  PROVE  Guarded'
<1> DEFINE new == [Idle EXCEPT !.outcome = call[c].outcome]
<1>1. /\ call[c].outcome \in Values \cup {Failed} /\ Leading(c)
  BY DEF Guarded, OutcomesMatch, Leading, DropGuard
<1>2. new \in CallTypes /\ new.at = "idle"
  BY <1>1 DEF Idle, CallTypes, Places
<1>3. call' = [Released(c) EXCEPT ![c] = new]
  <2>1. Released(c)[c] = Idle
    BY ReleasedCalls DEF Guarded
  <2> QED
    BY <2>1 DEF DropGuard
<1>4. /\ pending' = [pending EXCEPT ![call[c].key] = None]
      /\ UNCHANGED <<entries, younger>>
  BY DEF DropGuard
<1> HIDE DEF new
<1> QED
  BY <1>1, <1>2, <1>3, <1>4, ReleaseGuarded

LEMMA CancelGuarded ==
  ASSUME Guarded, NEW c \in Callers, Cancel(c)
  PROVE  Guarded'
<1>1. Idle \in CallTypes /\ Idle.at = "idle"
  BY DEF Idle, CallTypes, Places
<1>2. UNCHANGED <<entries, younger>>
  BY DEF Cancel
<1>3. CASE call[c].at = "produce"
  <2>1. /\ pending' = [pending EXCEPT ![call[c].key] = None]
        /\ call' = Released(c)
    BY <1>3 DEF Cancel
  <2>2. Released(c) = [Released(c) EXCEPT ![c] = Idle]
    BY ReleasedCalls DEF Guarded
  <2> QED
    BY <1>1, <1>2, <1>3, <2>1, <2>2, ReleaseGuarded DEF Leading
<1>4. CASE call[c].at = "wait"
  <2>1. UNCHANGED pending /\ call' = [call EXCEPT ![c] = Idle]
    BY <1>4 DEF Cancel
  <2>2. Fits(Idle) /\ ~Leads(Idle) /\ ~Leading(c)
    BY <1>1, <1>4 DEF Fits, Leads, Leading
  <2> QED
    BY <1>1, <1>2, <2>1, <2>2, StaysGuarded DEF Guarded, TypeOK, EntryTypes
<1> QED
  BY <1>3, <1>4 DEF Cancel

LEMMA ExpireGuarded ==
  ASSUME Guarded, NEW k \in Keys, Expire(k)
  PROVE  Guarded'
<1>1. entries' = [entries EXCEPT ![k].expired = TRUE]
      /\ UNCHANGED <<younger, pending, call>>
  BY DEF Expire
<1>2. entries' \in [Keys -> EntryTypes]
  BY <1>1 DEF Guarded, TypeOK, EntryTypes
<1>3. TypeOK'
  BY <1>1, <1>2 DEF Guarded, TypeOK, EntryTypes
<1>4. GuardsMatch' /\ OutcomesMatch'
  BY <1>1 DEF Guarded, GuardsMatch, OutcomesMatch, Leading
<1> QED
  BY <1>3, <1>4 DEF Guarded

LEMMA NextGuarded == Guarded /\ [Next]_vars => Guarded'
<1> SUFFICES ASSUME Guarded, [Next]_vars PROVE Guarded'
  OBVIOUS
<1>1. CASE UNCHANGED vars
  BY <1>1 DEF vars, Guarded, TypeOK, GuardsMatch, OutcomesMatch, Leading
<1>2. ASSUME NEW c \in Callers, NEW k \in Keys, Call(c, k)
      PROVE  Guarded'
  BY <1>2, CallGuarded
<1>3. ASSUME NEW c \in Callers, Advance(c)
      PROVE  Guarded'
  BY <1>3, GetGuarded, ProbeGuarded, ProduceGuarded, InsertGuarded, DropGuarded
  DEF Advance
<1>4. ASSUME NEW c \in Callers, Cancel(c)
      PROVE  Guarded'
  BY <1>4, CancelGuarded
<1>5. ASSUME NEW k \in Keys, Expire(k)
      PROVE  Guarded'
  BY <1>5, ExpireGuarded
<1> QED
  BY <1>1, <1>2, <1>3, <1>4, <1>5 DEF Next

\* A key's guard is held by one caller at a time, who inserts what it has produced
\* itself; every key in the pending map has a leader that will drop it
\* (PendingGuard).
THEOREM GuardsAreHeld == Spec => []Guarded
<1>1. Init => Guarded
  BY InitGuarded
<1>2. Guarded /\ [Next]_vars => Guarded'
  BY NextGuarded
<1> QED
  BY <1>1, <1>2, PTL DEF Spec

-----------------------------------------------------------------------------
(* The sweep leaves no more than the threshold.                            *)

\* younger orders all keys that have been used, which are those of S and others.
Orders(y, S) ==
  /\ \A j \in Keys : j \notin y[j]
  /\ \A i, j \in Keys : i \in y[j] => y[i] \subseteq y[j]
  /\ \A i, j \in S : i # j => i \in y[j] \/ j \in y[i]

\* The inductive invariant: what is kept is ordered by its last use.
Aged == Guarded /\ Orders(younger, Present(entries)) /\ Bounded

LEMMA OrdersFewer ==
  ASSUME NEW y, NEW S, NEW T \in SUBSET S, Orders(y, S)
  PROVE  Orders(y, T)
BY DEF Orders

\* A use makes a key the youngest.
LEMMA TouchedOrders ==
  ASSUME NEW S \in SUBSET Keys, NEW k \in Keys, TypeOK, Orders(younger, S)
  PROVE  Orders(Touched(k), S \cup {k})
<1> DEFINE y == Touched(k)
<1>1. /\ y[k] = {}
      /\ \A j \in Keys \ {k} : y[j] = younger[j] \cup {k}
  BY DEF Touched
<1> HIDE DEF y
<1>2. \A j \in Keys : j \notin y[j]
  BY <1>1 DEF Orders
<1>3. \A i, j \in Keys : i \in y[j] => y[i] \subseteq y[j]
  BY <1>1 DEF Orders
<1>4. \A i, j \in S \cup {k} : i # j => i \in y[j] \/ j \in y[i]
  BY <1>1 DEF Orders
<1> QED
  BY <1>2, <1>3, <1>4 DEF Orders, y

\* Of ordered keys one is the oldest: all the others have been used after it.
LEMMA OldestKey ==
  ASSUME NEW y \in [Keys -> SUBSET Keys], NEW S \in SUBSET Keys, S # {}, Orders(y, S)
  PROVE  \E o \in S : \A j \in S \ {o} : j \in y[o]
<1> DEFINE older == {Keys \ y[j] : j \in S}
<1>1. older \subseteq FiniteSubsetsOf(Keys) /\ older # {}
  <2>1. \A T \in SUBSET Keys : IsFiniteSet(T)
    BY ThresholdAssumption, FS_Subset
  <2> QED
    BY <2>1 DEF FiniteSubsetsOf
<1>2. PICK x \in older : \A z \in older : <<z, x>> \notin StrictSubsetOrdering(Keys)
  <2>1. IsWellFoundedOn(StrictSubsetOrdering(Keys), FiniteSubsetsOf(Keys))
    BY FS_StrictSubsetOrderingWellFounded
  <2> HIDE DEF older
  <2> QED
    BY <1>1, <2>1, WFMin
<1>3. PICK o \in S : x = Keys \ y[o]
  OBVIOUS
<1>4. ASSUME NEW j \in S \ {o}, j \notin y[o]
      PROVE  FALSE
  <2>1. o \in y[j] /\ y[o] \subseteq y[j] /\ o \notin y[o] /\ o \in Keys
    BY <1>4 DEF Orders
  <2>2. <<Keys \ y[j], Keys \ y[o]>> \in StrictSubsetOrdering(Keys)
    BY <2>1 DEF StrictSubsetOrdering
  <2> QED
    BY <1>2, <1>3, <2>2
<1> QED
  BY <1>4

LEMMA RecentIsBounded ==
  ASSUME NEW es \in [Keys -> EntryTypes], NEW k \in Keys, TypeOK,
         Orders(Touched(k), Present(es))
  PROVE  Cardinality(Recent(es, k)) <= Threshold
<1> DEFINE P == Present(es)
           R == Recent(es, k)
           y == Touched(k)
<1>1. P \in SUBSET Keys /\ R \in SUBSET P /\ y \in [Keys -> SUBSET Keys]
  BY DEF Present, Recent, Touched, TypeOK
<1>2. \A T \in SUBSET Keys : IsFiniteSet(T) /\ Cardinality(T) \in Nat
  BY ThresholdAssumption, FS_Subset, FS_CardinalityType
<1>3. \A j \in R : Cardinality(y[j] \cap P) < Threshold
  BY DEF Recent
<1>4. Threshold \in Nat
  BY ThresholdAssumption
<1>5. CASE R = {}
  BY <1>4, <1>5, FS_EmptySet
<1>6. CASE R # {}
  <2>1. Orders(y, R)
    BY <1>1, OrdersFewer
  <2> HIDE DEF P, R, y
  <2>2. PICK o \in R : \A j \in R \ {o} : j \in y[o]
    BY <1>1, <1>6, <2>1, OldestKey
  <2>3. R \ {o} \subseteq y[o] \cap P /\ y[o] \cap P \in SUBSET Keys
    BY <1>1, <2>2
  <2>4. Cardinality(R \ {o}) <= Cardinality(y[o] \cap P)
    BY <1>2, <2>3, FS_Subset
  <2>5. Cardinality(R \ {o}) = Cardinality(R) - 1
    BY <1>1, <1>2, <2>2, FS_RemoveElement
  <2>6. /\ Cardinality(R \ {o}) \in Nat /\ Cardinality(R) \in Nat
        /\ Cardinality(y[o] \cap P) \in Nat /\ Cardinality(y[o] \cap P) < Threshold
    BY <1>1, <1>2, <1>3, <2>2, <2>3
  <2> QED
    BY <1>4, <2>4, <2>5, <2>6 DEF R
<1> QED
  BY <1>5, <1>6

\* After a sweep that had to keep the youngest only, they are what is there.
LEMMA SweptIsBounded ==
  ASSUME NEW es \in [Keys -> EntryTypes], NEW k \in Keys, TypeOK,
         es[k].payload # None, ~es[k].expired,
         Orders(Touched(k), Present(es))
  PROVE  /\ Present(Swept(es, k)) \subseteq Present(es)
         /\ Cardinality(Present(Swept(es, k))) <= Threshold
<1> DEFINE live == Without(es, {j \in Keys : es[j].expired})
           rest == Without(live, Present(live) \ Recent(live, k))
<1>1. Absent \in EntryTypes /\ Absent.payload = None
  BY DEF Absent, EntryTypes
<1>2. live \in [Keys -> EntryTypes] /\ Present(live) \subseteq Present(es)
  BY <1>1 DEF Without, Present
<1>3. Present(rest) = Recent(live, k)
  <2> HIDE DEF live
  <2>1. \A j \in Keys : rest[j] = IF j \in Present(live) \ Recent(live, k) THEN Absent ELSE live[j]
    BY DEF Without
  <2> HIDE DEF rest
  <2>2. Recent(live, k) \subseteq Present(live) /\ Present(live) \subseteq Keys
    BY DEF Recent, Present
  <2>3. \A j \in Keys : rest[j].payload # None <=> j \in Recent(live, k)
    BY <1>1, <2>1, <2>2 DEF Present
  <2> QED
    BY <2>2, <2>3 DEF Present
<1>4. Cardinality(Recent(live, k)) <= Threshold
  <2>1. Orders(Touched(k), Present(live))
    BY <1>2, OrdersFewer
  <2> HIDE DEF live
  <2> QED
    BY <1>2, <2>1, RecentIsBounded
<1>5. Recent(live, k) \subseteq Present(live)
  BY DEF Recent
<1>6. Swept(es, k) = IF Cardinality(Present(es)) <= Threshold THEN es
                     ELSE IF Cardinality(Present(live)) <= Threshold THEN live ELSE rest
  BY DEF Swept
<1> HIDE DEF live, rest
<1> QED
  BY <1>2, <1>3, <1>4, <1>5, <1>6

LEMMA InitAged == Init => Aged
<1> SUFFICES ASSUME Init PROVE Aged
  OBVIOUS
<1>1. Present(entries) = {}
  BY DEF Init, Present, Absent
<1>2. Orders(younger, Present(entries))
  BY <1>1 DEF Init, Orders
<1>3. Bounded
  BY <1>1, FS_EmptySet, ThresholdAssumption DEF Bounded
<1> QED
  BY <1>2, <1>3, InitGuarded DEF Aged

\* Fewer or the same entries, whose last uses nobody changes.
LEMMA FewerAged ==
  ASSUME Aged, TypeOK', younger' = younger, Present(entries)' \subseteq Present(entries)
  PROVE  Orders(younger, Present(entries))' /\ Bounded'
<1>1. IsFiniteSet(Present(entries)) /\ Cardinality(Present(entries)) \in Nat
  BY ThresholdAssumption, FS_Subset, FS_CardinalityType DEF Present
<1>2. /\ Cardinality(Present(entries)') <= Cardinality(Present(entries))
      /\ Cardinality(Present(entries)') \in Nat
  BY <1>1, FS_Subset, FS_CardinalityType
<1>3. Orders(younger, Present(entries)')
  BY OrdersFewer DEF Aged
<1> QED
  BY <1>1, <1>2, <1>3, ThresholdAssumption DEF Aged, Bounded, Orders, Present

LEMMA GetAged ==
  ASSUME Aged, Guarded', NEW c \in Callers, Get(c)
  PROVE  Aged'
<1> DEFINE k == call[c].key
<1>1. k \in Keys /\ TypeOK /\ Present(entries) \in SUBSET Keys
  BY DEF Aged, Guarded, OutcomesMatch, Get, Present
<1>2. CASE entries[k].payload # None /\ ~entries[k].expired
  <2>1. entries' = entries /\ younger' = Touched(k)
    BY <1>2 DEF Get
  <2>2. Present(entries) \cup {k} = Present(entries)
    BY <1>1, <1>2 DEF Present
  <2>3. Orders(Touched(k), Present(entries))
    BY <1>1, <2>2, TouchedOrders DEF Aged
  <2> QED
    BY <2>1, <2>3 DEF Aged, Bounded, Orders, Present
<1>3. CASE entries[k].payload = None \/ entries[k].expired
  <2>1. entries' = [entries EXCEPT ![k] = Absent] /\ younger' = younger
    BY <1>3 DEF Get
  <2>2. Present(entries)' \subseteq Present(entries)
    BY <1>1, <2>1 DEF Present, Absent, TypeOK
  <2> QED
    BY <2>1, <2>2, FewerAged DEF Aged, Guarded
<1> QED
  BY <1>2, <1>3

LEMMA InsertAged ==
  ASSUME Aged, Guarded', NEW c \in Callers, Insert(c)
  PROVE  Aged'
<1> DEFINE k == call[c].key
           es == [entries EXCEPT ![k] = [payload |-> call[c].outcome, expired |-> FALSE]]
<1>1. k \in Keys /\ call[c].outcome \in Values /\ TypeOK
  BY DEF Aged, Guarded, OutcomesMatch, Insert
<1>2. es \in [Keys -> EntryTypes] /\ es[k].payload # None /\ ~es[k].expired
  BY <1>1, OutcomesAssumption DEF TypeOK, EntryTypes
<1>3. Present(es) = Present(entries) \cup {k} /\ Present(entries) \in SUBSET Keys
  BY <1>1, <1>2 DEF Present, TypeOK
<1>4. entries' = Swept(es, k) /\ younger' = Touched(k)
  BY DEF Insert
<1> HIDE DEF k, es
<1>5. Orders(Touched(k), Present(es))
  BY <1>1, <1>3, TouchedOrders DEF Aged
<1>6. /\ Present(Swept(es, k)) \subseteq Present(es)
      /\ Cardinality(Present(Swept(es, k))) <= Threshold
  BY <1>1, <1>2, <1>5, SweptIsBounded
<1>7. Orders(Touched(k), Present(Swept(es, k)))
  BY <1>5, <1>6, OrdersFewer
<1> QED
  BY <1>4, <1>6, <1>7 DEF Aged, Bounded, Orders, Present

LEMMA NextAged == Aged /\ [Next]_vars => Aged'
<1> SUFFICES ASSUME Aged, [Next]_vars PROVE Aged'
  OBVIOUS
<1>1. Guarded' /\ TypeOK'
  BY NextGuarded DEF Aged, Guarded
<1>2. CASE UNCHANGED <<entries, younger>>
  BY <1>1, <1>2, FewerAged DEF Aged, Present
<1>3. ASSUME NEW k \in Keys, Expire(k) PROVE Aged'
  <2>1. Present(entries)' \subseteq Present(entries) /\ younger' = younger
    BY <1>3 DEF Expire, Present, Aged, Guarded, TypeOK
  <2> QED
    BY <1>1, <2>1, FewerAged DEF Aged
<1>4. ASSUME NEW c \in Callers, Advance(c) PROVE Aged'
  BY <1>1, <1>2, <1>4, GetAged, InsertAged DEF Advance, Probe, Produce, DropGuard
<1>5. ASSUME NEW c \in Callers, Cancel(c) \/ \E k \in Keys : Call(c, k) PROVE Aged'
  BY <1>2, <1>5 DEF Call, Cancel
<1> QED
  BY <1>2, <1>3, <1>4, <1>5 DEF Next, vars

\* However inserts, reads and expiries interleave, no more entries than the threshold stay:
\* of those that are live the sweep keeps as many as were used last, and the last uses
\* order them (sweep_if_oversized).
THEOREM SweepBounds == Spec => []Bounded
<1>1. Aged => Bounded
  BY DEF Aged
<1> QED
  BY <1>1, InitAged, NextAged, PTL DEF Spec

-----------------------------------------------------------------------------
(* Every step is one of SingleFlight, or none.                             *)

\* The place of a call, case by case.
LEMMA SeenAt ==
  ASSUME NEW d
  PROVE  /\ d.at \in {"get", "probe", "wait"} => Seen(d).at = "asks"
         /\ d.at \in {"produce", "insert"} => Seen(d).at = "leads"
         /\ d.at = "drop" /\ d.outcome = Failed => Seen(d).at = "leads"
         /\ d.at = "drop" /\ d.outcome # Failed => Seen(d).at = "stored"
         /\ d.at = "idle" => Seen(d).at = "idle"
         /\ Seen(d).key = d.key /\ Seen(d).outcome = d.outcome
         /\ Seen(d) = [at |-> Seen(d).at, key |-> d.key, outcome |-> d.outcome]
BY DEF Seen

LEMMA SeenIdle ==
  ASSUME NEW outcome
  PROVE  Seen([Idle EXCEPT !.outcome = outcome])
           = [Abstract!Idle EXCEPT !.outcome = outcome]
BY DEF Seen, Idle, Abstract!Idle

LEMMA CallsChange ==
  ASSUME TypeOK, NEW c \in Callers, NEW new, call' = [call EXCEPT ![c] = new]
  PROVE  Calls' = [Calls EXCEPT ![c] = Seen(new)]
BY DEF TypeOK, Calls

LEMMA CallStep ==
  ASSUME Guarded, NEW c \in Callers, NEW k \in Keys, Call(c, k)
  PROVE  Abstract!Ask(c, k)
<1> DEFINE new == [Idle EXCEPT !.at = "get", !.key = k]
<1>1. call[c].at = "idle" /\ call' = [call EXCEPT ![c] = new]
      /\ UNCHANGED <<entries, younger, pending>>
  BY DEF Call
<1>2. Seen(new) = [at |-> "asks", key |-> k, outcome |-> None]
  BY DEF Seen, Idle
<1>3. Calls' = [Calls EXCEPT ![c] = [at |-> "asks", key |-> k, outcome |-> None]]
  BY <1>1, <1>2, CallsChange DEF Guarded
<1>4. Calls[c].at = "idle"
  BY <1>1, SeenAt DEF Calls
<1> QED
  BY <1>1, <1>3, <1>4 DEF Abstract!Ask, Held
LEMMA GetStep ==
  ASSUME Guarded, NEW c \in Callers, Get(c)
  PROVE  Abstract!Share(c) \/ UNCHANGED Abstract!vars
<1> DEFINE k == call[c].key
           hit == [Idle EXCEPT !.outcome = entries[k].payload]
           miss == [call[c] EXCEPT !.at = "probe"]
<1>1. /\ k \in Keys /\ call[c] \in CallTypes /\ call[c].at = "get"
      /\ UNCHANGED pending
  BY DEF Guarded, TypeOK, CallTypes, OutcomesMatch, Get
<1>2. CASE entries[k].payload # None /\ ~entries[k].expired
  <2>1. /\ call' = [call EXCEPT ![c] = hit] /\ entries' = entries
    BY <1>2 DEF Get, Return
  <2>2. Calls' = [Calls EXCEPT ![c] = Seen(hit)]
    BY <2>1, CallsChange DEF Guarded
  <2>3. Calls[c].at = "asks" /\ Calls[c].key = k
    BY <1>1, SeenAt DEF Calls
  <2>4. Held[k] = entries[k].payload /\ Held[k] # None /\ Held' = Held
    BY <1>1, <1>2, <2>1 DEF Held
  <2>5. Seen(hit) = [Abstract!Idle EXCEPT !.outcome = Held[k]]
    BY <2>4, SeenIdle
  <2>6. Abstract!Share(c)
    BY <1>1, <2>1, <2>2, <2>3, <2>4, <2>5
    DEF Abstract!Share, Abstract!Answer
  <2> QED
    BY <2>6
<1>3. CASE entries[k].payload = None \/ entries[k].expired
  <2>1. /\ call' = [call EXCEPT ![c] = miss]
        /\ entries' = [entries EXCEPT ![k] = Absent]
    BY <1>3 DEF Get, Resume
  <2>2. Seen(miss) = Seen(call[c])
    BY <1>1 DEF Seen, CallTypes
  <2>3. Calls' = Calls
    BY <2>1, <2>2, CallsChange DEF Guarded, Calls
  <2>4. Held' = Held
    BY <1>1, <1>3, <2>1 DEF Held, Absent, Guarded, TypeOK
  <2> QED
    BY <1>1, <2>3, <2>4 DEF Abstract!vars
<1> QED
  BY <1>2, <1>3

LEMMA ProbeStep ==
  ASSUME Guarded, NEW c \in Callers, Probe(c)
  PROVE  Abstract!Begin(c) \/ UNCHANGED Abstract!vars
<1> DEFINE k == call[c].key
           lead == [call[c] EXCEPT !.at = "produce"]
           wait == [call[c] EXCEPT !.at = "wait", !.on = pending[k]]
<1>1. /\ k \in Keys /\ call[c] \in CallTypes /\ call[c].at = "probe"
      /\ UNCHANGED <<entries, younger>>
  BY DEF Guarded, TypeOK, CallTypes, OutcomesMatch, Probe
<1>2. CASE pending[k] = None
  <2>1. /\ call' = [call EXCEPT ![c] = lead]
        /\ pending' = [pending EXCEPT ![k] = c]
    BY <1>2 DEF Probe, Resume
  <2>2. Calls' = [Calls EXCEPT ![c] = Seen(lead)]
    BY <2>1, CallsChange DEF Guarded
  <2>3. Calls[c].at = "asks" /\ Calls[c].key = k
    BY <1>1, SeenAt DEF Calls
  <2>4. Seen(lead) = [Calls[c] EXCEPT !.at = "leads"]
    BY <1>1 DEF Calls, Seen, CallTypes
  <2>5. Calls' = [Calls EXCEPT ![c].at = "leads"]
    BY <2>2, <2>4
  <2>6. Abstract!Begin(c)
    BY <1>1, <1>2, <2>1, <2>3, <2>5 DEF Abstract!Begin, Held
  <2> QED
    BY <2>6
<1>3. CASE pending[k] # None
  <2>1. call' = [call EXCEPT ![c] = wait] /\ UNCHANGED pending
    BY <1>3 DEF Probe
  <2>2. Seen(wait) = Seen(call[c])
    BY <1>1 DEF Seen, CallTypes
  <2>3. Calls' = Calls
    BY <2>1, <2>2, CallsChange DEF Guarded, Calls
  <2> QED
    BY <1>1, <2>1, <2>3 DEF Abstract!vars, Held
<1> QED
  BY <1>2, <1>3

LEMMA ProduceStep ==
  ASSUME Guarded, NEW c \in Callers, Produce(c)
  PROVE  \E outcome \in Values \cup {Failed} : Abstract!Produce(c, outcome)
<1>1. /\ call[c] \in CallTypes /\ call[c].at = "produce" /\ call[c].outcome = None
      /\ UNCHANGED <<entries, younger, pending>>
  BY DEF Guarded, TypeOK, CallTypes, OutcomesMatch, Produce
<1>2. PICK at \in {"insert", "drop"}, v \in Values \cup {Failed} :
        /\ call' = [call EXCEPT ![c].at = at, ![c].outcome = v]
        /\ at = "drop" => v = Failed
  BY DEF Produce
<1> DEFINE new == [call[c] EXCEPT !.at = at, !.outcome = v]
<1>3. new.at = at /\ new.key = call[c].key /\ new.outcome = v
  BY <1>1 DEF CallTypes
<1>4. call' = [call EXCEPT ![c] = new]
  BY <1>2
<1> HIDE DEF new
<1>5. Calls' = [Calls EXCEPT ![c] = Seen(new)]
  BY <1>4, CallsChange DEF Guarded
<1>6. Calls[c] = [at |-> "leads", key |-> call[c].key, outcome |-> None]
  <2>1. Calls[c] = Seen(call[c])
    BY DEF Calls
  <2> QED
    BY <1>1, <2>1, SeenAt
<1>7. Seen(new) = [at |-> "leads", key |-> call[c].key, outcome |-> v]
  <2>1. Seen(new).at = "leads"
    BY <1>2, <1>3, SeenAt
  <2> QED
    BY <1>3, <2>1, SeenAt
<1>8. Calls' = [Calls EXCEPT ![c].outcome = v]
  <2>1. Seen(new) = [Calls[c] EXCEPT !.outcome = v]
    BY <1>6, <1>7
  <2> QED
    BY <1>5, <2>1
<1>9. Abstract!Produce(c, v)
  BY <1>1, <1>6, <1>8 DEF Abstract!Produce, Held
<1> QED
  BY <1>9

LEMMA InsertStep ==
  ASSUME Guarded, NEW c \in Callers, Insert(c)
  PROVE  Abstract!Store(c)
<1> DEFINE k == call[c].key
           v == call[c].outcome
           es == [entries EXCEPT ![k] = [payload |-> v, expired |-> FALSE]]
           new == [call[c] EXCEPT !.at = "drop"]
           gone == {j \in Keys \ {k} : entries'[j] = Absent}
<1>1. /\ k \in Keys /\ v \in Values /\ v # Failed /\ v # None
      /\ call[c] \in CallTypes /\ call[c].at = "insert"
  BY OutcomesAssumption DEF Guarded, TypeOK, CallTypes, OutcomesMatch, Insert
<1>2. /\ es \in [Keys -> EntryTypes]
      /\ es[k] = [payload |-> v, expired |-> FALSE]
      /\ \A j \in Keys \ {k} : es[j] = entries[j]
  BY <1>1 DEF Guarded, TypeOK, EntryTypes
<1>3. /\ entries' = Swept(es, k) /\ UNCHANGED pending
      /\ call' = [call EXCEPT ![c] = new]
  BY DEF Insert, Resume
<1>4. es[k].payload # None /\ ~es[k].expired
  BY <1>1, <1>2
<1>5. /\ entries'[k] = es[k]
      /\ \A j \in Keys : entries'[j] \in {es[j], Absent}
  <2> HIDE DEF es, k, v
  <2> QED
    BY <1>1, <1>2, <1>3, <1>4, SweptSpares
<1>6. /\ entries'[k] = [payload |-> v, expired |-> FALSE]
      /\ \A j \in Keys \ {k} : entries'[j] \in {entries[j], Absent}
  <2> HIDE DEF es, k, v
  <2> QED
    BY <1>2, <1>5
<1>7. Held' = [j \in Keys |-> IF j = k THEN v ELSE IF j \in gone THEN None ELSE Held[j]]
  <2>1. Held' = [j \in Keys |-> IF entries'[j].expired THEN None ELSE entries'[j].payload]
    BY DEF Held
  <2>2. ASSUME NEW j \in Keys
        PROVE  (IF entries'[j].expired THEN None ELSE entries'[j].payload)
               = (IF j = k THEN v ELSE IF j \in gone THEN None ELSE Held[j])
    <3>1. CASE j = k
      BY <1>6, <3>1
    <3>2. CASE j # k /\ entries'[j] = Absent
      BY <3>2 DEF Absent
    <3>3. CASE j # k /\ entries'[j] # Absent
      BY <1>6, <3>3 DEF Held
    <3> QED
      BY <3>1, <3>2, <3>3
  <2> QED
    BY <2>1, <2>2
<1>8. Calls[c] = [at |-> "leads", key |-> k, outcome |-> v]
  BY <1>1, SeenAt DEF Calls
<1>9. Seen(new) = [at |-> "stored", key |-> k, outcome |-> v]
  BY <1>1 DEF Seen, CallTypes
<1>10. Calls' = [Calls EXCEPT ![c] = Seen(new)]
  BY <1>3, CallsChange DEF Guarded
<1>11. Calls' = [Calls EXCEPT ![c].at = "stored"]
  <2>1. Seen(new) = [Calls[c] EXCEPT !.at = "stored"]
    BY <1>8, <1>9
  <2> HIDE DEF new
  <2> QED
    BY <1>10, <2>1
<1>12. gone \in SUBSET (Keys \ {k})
  OBVIOUS
<1> HIDE DEF gone, k, v, es, new
<1>13. Calls[c].at = "leads" /\ Calls[c].outcome = v /\ Calls[c].key = k
  BY <1>8
<1>14. \E s \in SUBSET (Keys \ {Calls[c].key}) :
         Held' = [j \in Keys |-> IF j = Calls[c].key THEN Calls[c].outcome
                                 ELSE IF j \in s THEN None ELSE Held[j]]
  BY <1>7, <1>12, <1>13
<1> QED
  BY <1>1, <1>3, <1>11, <1>13, <1>14 DEF Abstract!Store

\* To the abstract store, a caller that is woken still asks.
LEMMA ReleasedCallsChange ==
  ASSUME TypeOK, NEW c \in Callers, NEW new, call' = [Released(c) EXCEPT ![c] = new]
  PROVE  Calls' = [Calls EXCEPT ![c] = Seen(new)]
<1>1. call' \in [Callers -> {call'[d] : d \in Callers}] /\ call'[c] = new
  BY ReleasedCalls
<1>2. ASSUME NEW d \in Callers \ {c}
      PROVE  Seen(call'[d]) = Seen(call[d])
  <2>1. CASE call'[d] = call[d]
    BY <2>1
  <2>2. CASE call[d].at = "wait" /\ call'[d] = Woken(d)
    <3>1. Seen(Woken(d)).at = "asks" /\ Seen(call[d]).at = "asks"
      BY <2>2, WokenCall, SeenAt
    <3> QED
      BY <2>2, <3>1, WokenCall, SeenAt
  <2> QED
    BY <2>1, <2>2, ReleasedCalls
<1>3. Calls' = [d \in Callers |-> Seen(call'[d])]
  BY DEF Calls
<1>4. Calls = [d \in Callers |-> Seen(call[d])]
  BY DEF Calls
<1> QED
  BY <1>1, <1>2, <1>3, <1>4

LEMMA DropStep ==
  ASSUME Guarded, NEW c \in Callers, DropGuard(c)
  PROVE  Abstract!Land(c)
<1> DEFINE new == [Idle EXCEPT !.outcome = call[c].outcome]
<1>1. /\ call[c].at = "drop" /\ call[c] \in CallTypes
      /\ pending' = [pending EXCEPT ![call[c].key] = None]
      /\ UNCHANGED <<entries, younger>>
  BY DEF Guarded, TypeOK, CallTypes, DropGuard
<1>2. call' = [Released(c) EXCEPT ![c] = new]
  <2>1. Released(c)[c] = Idle
    BY ReleasedCalls DEF Guarded
  <2> QED
    BY <2>1 DEF DropGuard
<1>3. Seen(new) = [Abstract!Idle EXCEPT !.outcome = call[c].outcome]
  BY SeenIdle
<1> HIDE DEF new
<1>4. Calls' = [Calls EXCEPT ![c] = Seen(new)]
  BY <1>2, ReleasedCallsChange DEF Guarded
<1>5. /\ Calls[c].key = call[c].key /\ Calls[c].outcome = call[c].outcome
      /\ \/ Calls[c].at = "stored"
         \/ Calls[c].at = "leads" /\ Calls[c].outcome = Failed
  BY <1>1, SeenAt DEF Calls
<1>6. Held' = Held
  BY <1>1 DEF Held
<1> QED
  BY <1>1, <1>3, <1>4, <1>5, <1>6 DEF Abstract!Land, Abstract!Answer

LEMMA CancelStep ==
  ASSUME Guarded, NEW c \in Callers, Cancel(c)
  PROVE  Abstract!Abandon(c)
<1>1. /\ call[c] \in CallTypes /\ call[c].key \in Keys /\ call[c].outcome = None
      /\ call[c].at \in {"produce", "wait"}
  BY DEF Guarded, TypeOK, CallTypes, OutcomesMatch, Cancel
<1>2. Held' = Held
  BY DEF Cancel, Held
<1>3. Seen(Idle) = Abstract!Idle
  BY DEF Seen, Idle, Abstract!Idle
<1>4. Calls[c].at \in {"asks", "leads"} /\ Calls[c].outcome = None
  BY <1>1, SeenAt DEF Calls
<1>5. Calls' = [Calls EXCEPT ![c] = Seen(Idle)]
      /\ pending' = [k \in Keys |-> IF pending[k] = c THEN None ELSE pending[k]]
  <2>1. CASE call[c].at = "produce"
    <3>1. /\ pending' = [pending EXCEPT ![call[c].key] = None]
          /\ call' = Released(c)
      BY <2>1 DEF Cancel
    <3>2. Released(c) = [Released(c) EXCEPT ![c] = Idle]
      BY ReleasedCalls DEF Guarded
    <3>3. \A k \in Keys : pending[k] = c <=> k = call[c].key
      BY <1>1, <2>1, OutcomesAssumption DEF Guarded, GuardsMatch, Leading
    <3>4. pending' = [k \in Keys |-> IF pending[k] = c THEN None ELSE pending[k]]
      BY <3>1, <3>3 DEF Guarded, TypeOK
    <3> QED
      BY <3>1, <3>2, <3>4, ReleasedCallsChange DEF Guarded
  <2>2. CASE call[c].at = "wait"
    <3>1. UNCHANGED pending /\ call' = [call EXCEPT ![c] = Idle]
      BY <2>2 DEF Cancel
    <3>2. \A k \in Keys : pending[k] # c
      BY <2>2, OutcomesAssumption DEF Guarded, GuardsMatch, Leading
    <3>3. pending' = [k \in Keys |-> IF pending[k] = c THEN None ELSE pending[k]]
      BY <3>1, <3>2 DEF Guarded, TypeOK
    <3> QED
      BY <3>1, <3>3, CallsChange DEF Guarded
  <2> QED
    BY <1>1, <2>1, <2>2
<1> QED
  BY <1>2, <1>3, <1>4, <1>5 DEF Abstract!Abandon

LEMMA ExpireStep ==
  ASSUME Guarded, NEW k \in Keys, Expire(k)
  PROVE  Abstract!Forget(k)
<1>1. entries' = [entries EXCEPT ![k].expired = TRUE]
      /\ UNCHANGED <<younger, pending, call>>
  BY DEF Expire
<1>2. Calls' = Calls
  BY <1>1 DEF Calls
<1>3. Held' = [Held EXCEPT ![k] = None]
  BY <1>1 DEF Held, Guarded, TypeOK
<1> QED
  BY <1>1, <1>2, <1>3 DEF Abstract!Forget

LEMMA InitStep == Init => Abstract!Init
BY DEF Init, Abstract!Init, Held, Calls, Seen, Absent, Idle, Abstract!Idle

LEMMA NextStep == Guarded /\ [Next]_vars => [Abstract!Next]_(Abstract!vars)
<1> SUFFICES ASSUME Guarded, [Next]_vars PROVE [Abstract!Next]_(Abstract!vars)
  OBVIOUS
<1>1. CASE UNCHANGED vars
  BY <1>1 DEF vars, Abstract!vars, Held, Calls
<1>2. ASSUME NEW c \in Callers, NEW k \in Keys, Call(c, k)
      PROVE  Abstract!Next
  BY <1>2, CallStep DEF Abstract!Next
<1>3. ASSUME NEW c \in Callers, Advance(c)
      PROVE  Abstract!Next \/ UNCHANGED Abstract!vars
  BY <1>3, GetStep, ProbeStep, ProduceStep, InsertStep, DropStep
  DEF Advance, Abstract!Next
<1>4. ASSUME NEW c \in Callers, Cancel(c)
      PROVE  Abstract!Next
  BY <1>4, CancelStep DEF Abstract!Next
<1>5. ASSUME NEW k \in Keys, Expire(k)
      PROVE  Abstract!Next
  BY <1>5, ExpireStep DEF Abstract!Next
<1> QED
  BY <1>1, <1>2, <1>3, <1>4, <1>5 DEF Next

\* The cache does only what a single flight may: no two productions of a key at
\* once, whatever leaders fail or are dropped, and answers that come from the
\* store or from the caller's own production (get_or_try_insert_with).
THEOREM ImplementsSafely == Spec => Abstract!Safety
<1>1. Init => Abstract!Init
  BY InitStep
<1>2. Guarded /\ [Next]_vars => [Abstract!Next]_(Abstract!vars)
  BY NextStep
<1>3. Spec => []Guarded
  BY GuardsAreHeld
<1> QED
  BY <1>1, <1>2, <1>3, PTL DEF Spec, Abstract!Safety

=============================================================================
