------------------------------- MODULE TaskBProofs -------------------------------
(***************************************************************************)
(* Task B's two bookkeepings of the shell's output: the queue of cursor    *)
(* queries (CprQueue) and the triggers that wait for a redraw              *)
(* (TriggerScheduling).                                                    *)
(*                                                                         *)
(* CprQueue: QueueMatches and TypeOK are inductive together: the queue     *)
(* ends with the entries of the outstanding queries.  Every step appends   *)
(* to both, takes the head of both, or removes entries in front of the     *)
(* matching ones.                                                          *)
(*                                                                         *)
(* TriggerScheduling: a report is followed by its redraw wherever the      *)
(* output is cut, so a parser that waits for a redraw has it next, and the *)
(* piece that brings it takes down the popup placed before it.             *)
(***************************************************************************)
EXTENDS CprQueue, TriggerScheduling, FiniteSetTheorems, SequenceTheorems, TLAPS

\* Between the parser and the proxy's own query there is room for one entry.
Room == taskB.at = "parsed" => Len(queue) < MaxQueue

Inductive == TypeOK /\ Room /\ QueueMatches

\* The entries of q end with those of the queries o, none of them stale.
EndsWith(q, o) ==
  /\ Len(o) <= Len(q)
  /\ \A i \in 1..Len(o) :
       /\ q[Len(q) - Len(o) + i].id = o[i].id
       /\ q[Len(q) - Len(o) + i].age < Stale

-----------------------------------------------------------------------------
(* Sequences and the wrapping counter.                                     *)

\* The counter of ids and the places of the cursor stay in range.
LEMMA WrapsInRange ==
  ASSUME NEW a \in Nat, NEW b \in Nat, b > 0
  PROVE  a % b \in 0..(b - 1)
OBVIOUS

\* NextId hands out ids.
LEMMA NextIdIsId ==
  ASSUME nextId \in EntryIds, NEW n \in Nat
  PROVE  NextId(n) \in EntryIds
<1>1. Ids \in Nat /\ Ids > 0
  BY BoundsAssumption
<1>2. nextId \in Nat /\ nextId + n \in Nat
  BY <1>1 DEF EntryIds
<1>. QED BY <1>1, <1>2, WrapsInRange DEF NextId, EntryIds

\* A place the cursor moves to is one of the places.
LEMMA MovesInRange ==
  ASSUME NEW p \in Cursors, NEW m \in Nat
  PROVE  (p + m) % Places \in Cursors
<1>1. Places \in Nat /\ Places > 0
  BY BoundsAssumption
<1>2. p \in Nat /\ p + m \in Nat
  BY <1>1 DEF Cursors
<1>. QED BY <1>1, <1>2, WrapsInRange DEF Cursors

\* A function on 1..n is a sequence.
LEMMA FunctionIsSeq ==
  ASSUME NEW S, NEW n \in Nat, NEW f \in [1..n -> S]
  PROVE  f \in Seq(S) /\ Len(f) = n
OBVIOUS

\* prune_stale_cpr removes a prefix no longer than a bound below which all stale
\* entries lie, and leaves the rest in place.
LEMMA PruneLeavesSuffix ==
  ASSUME NEW q \in Seq(Entries), NEW k \in 0..Len(q),
         \A i \in DOMAIN q : q[i].age >= Stale => i <= k
  PROVE  \E n \in 0..k :
           /\ PruneStale(q) \in Seq(Entries)
           /\ Len(PruneStale(q)) = Len(q) - n
           /\ \A i \in 1..(Len(q) - n) : PruneStale(q)[i] = q[n + i]
<1>. DEFINE S == {i \in DOMAIN q : q[i].age >= Stale}
            n == Cardinality(S)
<1>1. S \subseteq 1..k /\ k \in Nat
  OBVIOUS
<1>2. IsFiniteSet(1..k) /\ Cardinality(1..k) = k
  BY <1>1, FS_Interval
<1>3. n \in 0..k
  <2>1. IsFiniteSet(S) /\ Cardinality(S) <= Cardinality(1..k)
    BY <1>1, <1>2, FS_Subset
  <2>2. Cardinality(S) \in Nat
    BY <2>1, FS_CardinalityType
  <2>. QED BY <1>1, <1>2, <2>1, <2>2
<1>4. PruneStale(q) = SubSeq(q, 1 + n, Len(q))
  BY DEF PruneStale
<1>. HIDE DEF n
<1>5. n \in Nat /\ n <= Len(q) /\ Len(q) \in Nat
  BY <1>1, <1>3
<1>. DEFINE r == SubSeq(q, 1 + n, Len(q))
<1>6. r = [i \in 1..(Len(q) - n) |-> q[n + i]]
  BY <1>5 
<1>7. \A i \in 1..(Len(q) - n) : q[n + i] \in Entries
  BY <1>5
<1>8. r \in Seq(Entries) /\ Len(r) = Len(q) - n
  BY <1>5, <1>6, <1>7
<1>. QED BY <1>3, <1>4, <1>5, <1>6, <1>8

-----------------------------------------------------------------------------
(* A queue that ends with the entries of the outstanding queries keeps doing so. *)

\* Queries and their entries are appended together.
LEMMA GrowsTogether ==
  ASSUME NEW q \in Seq(Entries), NEW o \in Seq(Reports), EndsWith(q, o),
         NEW e \in Seq(Entries), NEW a \in Seq(Reports), Len(e) = Len(a),
         \A i \in 1..Len(a) : e[i].id = a[i].id /\ e[i].age < Stale
  PROVE  /\ EndsWith(q \o e, o \o a)
         /\ Len(q \o e) - Len(o \o a) = Len(q) - Len(o)
<1>. DEFINE k == Len(q) - Len(o)
<1>1. /\ Len(q \o e) = Len(q) + Len(a)
      /\ Len(o \o a) = Len(o) + Len(a)
  BY ConcatProperties
<1>2. k \in Nat /\ Len(q) \in Nat /\ Len(o) \in Nat /\ Len(a) \in Nat /\ Len(q) = k + Len(o)
  BY DEF EndsWith
<1>3. \A i \in 1..Len(o) : q[k + i].id = o[i].id /\ q[k + i].age < Stale
  BY DEF EndsWith
<1>4. Len(q \o e) - Len(o \o a) = k
  BY <1>1, <1>2
<1>. HIDE DEF k
<1>5. ASSUME NEW i \in 1..(Len(o) + Len(a))
      PROVE  /\ (q \o e)[k + i].id = (o \o a)[i].id
             /\ (q \o e)[k + i].age < Stale
  <2>1. CASE i <= Len(o)
    <3>1. (o \o a)[i] = o[i]
      BY <1>2, <2>1
    <3>2. (q \o e)[k + i] = q[k + i]
      BY <1>2, <2>1
    <3>. QED BY <3>1, <3>2, <1>2, <1>3, <2>1
  <2>2. CASE i > Len(o)
    <3>1. i - Len(o) \in 1..Len(a)
      BY <1>2, <2>2
    <3>2. (o \o a)[i] = a[i - Len(o)]
      BY <1>2, <2>2
    <3>3. (q \o e)[k + i] = e[i - Len(o)]
      BY <1>2, <2>2
    <3>. QED BY <3>1, <3>2, <3>3
  <2>. QED BY <1>2, <2>1, <2>2
<1>6. EndsWith(q \o e, o \o a)
  <2>1. Len(o \o a) <= Len(q \o e)
    BY <1>1, <1>2
  <2>2. \A i \in 1..Len(o \o a) : /\ (q \o e)[k + i].id = (o \o a)[i].id
                                  /\ (q \o e)[k + i].age < Stale
    BY <1>1, <1>5
  <2>. QED BY <1>4, <2>1, <2>2 DEF EndsWith
<1>. QED BY <1>4, <1>6 DEF k

\* A claim takes an entry, its report or its loss takes a query.
LEMMA ShrinksTogether ==
  ASSUME NEW q \in Seq(Entries), NEW o \in Seq(Reports), EndsWith(q, o), o # <<>>
  PROVE  /\ q # <<>>
         /\ EndsWith(Tail(q), Tail(o))
         /\ EndsWith(q, Tail(o))
<1>1. Len(o) \in Nat /\ Len(q) \in Nat /\ Len(o) > 0 /\ Len(o) <= Len(q)
  BY DEF EndsWith
<1>2. q # <<>>
  BY <1>1
<1>3. /\ Len(Tail(o)) = Len(o) - 1 /\ Len(Tail(q)) = Len(q) - 1
      /\ \A i \in 1..(Len(o) - 1) : Tail(o)[i] = o[i + 1]
      /\ \A i \in 1..(Len(q) - 1) : Tail(q)[i] = q[i + 1]
  BY <1>1, <1>2
<1>. DEFINE k == Len(q) - Len(o)
<1>4. k \in Nat /\ Len(q) = k + Len(o)
  BY <1>1
<1>5. \A i \in 1..Len(o) : q[k + i].id = o[i].id /\ q[k + i].age < Stale
  BY DEF EndsWith
<1>6. Len(Tail(q)) - Len(Tail(o)) = k /\ Len(q) - Len(Tail(o)) = k + 1
  BY <1>3, <1>4, <1>1
<1>. HIDE DEF k
<1>7. ASSUME NEW i \in 1..(Len(o) - 1)
      PROVE  /\ Tail(q)[k + i].id = Tail(o)[i].id /\ Tail(q)[k + i].age < Stale
             /\ q[(k + 1) + i].id = Tail(o)[i].id /\ q[(k + 1) + i].age < Stale
  <2>1. i + 1 \in 1..Len(o) /\ k + i \in 1..(Len(q) - 1)
    BY <1>1, <1>4
  <2>2. Tail(q)[k + i] = q[k + (i + 1)] /\ (k + 1) + i = k + (i + 1)
    BY <1>3, <1>4, <2>1
  <2>. QED BY <1>3, <1>5, <2>1, <2>2
<1>8. EndsWith(Tail(q), Tail(o))
  BY <1>1, <1>3, <1>6, <1>7 DEF EndsWith
<1>9. EndsWith(q, Tail(o))
  BY <1>1, <1>3, <1>6, <1>7 DEF EndsWith
<1>. QED BY <1>2, <1>8, <1>9

\* The leak guard removes only what stands before the entries still needed.
LEMMA PruneSpares ==
  ASSUME NEW q \in Seq(Entries), NEW o \in Seq(Reports), EndsWith(q, o)
  PROVE  /\ PruneStale(q) \in Seq(Entries)
         /\ Len(PruneStale(q)) <= Len(q)
         /\ EndsWith(PruneStale(q), o)
<1>. DEFINE k == Len(q) - Len(o)
<1>1. k \in 0..Len(q) /\ Len(q) \in Nat /\ Len(o) \in Nat /\ Len(q) = k + Len(o)
  BY DEF EndsWith
<1>2. \A i \in 1..Len(o) : q[k + i].id = o[i].id /\ q[k + i].age < Stale
  BY DEF EndsWith
<1>. HIDE DEF k
<1>3. \A i \in DOMAIN q : q[i].age >= Stale => i <= k
  <2>. SUFFICES ASSUME NEW i \in DOMAIN q, i > k
                PROVE  ~(q[i].age >= Stale)
    BY <1>1
  <2>1. i - k \in 1..Len(o) /\ k + (i - k) = i
    BY <1>1
  <2>2. q[i].age < Stale
    BY <1>2, <2>1
  <2>3. Stale \in Nat /\ q[i] \in Entries
    BY BoundsAssumption
  <2>4. q[i].age \in Nat
    BY <2>3 DEF Entries
  <2>. QED BY <2>2, <2>3, <2>4
<1>4. PICK n \in 0..k :
        /\ PruneStale(q) \in Seq(Entries)
        /\ Len(PruneStale(q)) = Len(q) - n
        /\ \A i \in 1..(Len(q) - n) : PruneStale(q)[i] = q[n + i]
  BY <1>1, <1>3, PruneLeavesSuffix
<1>. DEFINE r == PruneStale(q)
<1>5. Len(r) - Len(o) = k - n /\ Len(o) <= Len(r) /\ n \in Nat
  BY <1>1, <1>4
<1>6. \A i \in 1..Len(o) : r[(k - n) + i] = q[k + i]
  <2>. TAKE i \in 1..Len(o)
  <2>1. (k - n) + i \in 1..(Len(q) - n) /\ n + ((k - n) + i) = k + i
    BY <1>1, <1>5
  <2>. QED BY <1>4, <2>1
<1>. HIDE DEF r
<1>7. EndsWith(r, o)
  BY <1>2, <1>5, <1>6 DEF EndsWith
<1>. QED BY <1>1, <1>4, <1>7 DEF r

\* rollback_cpr removes at most one entry.
LEMMA RollbackType ==
  ASSUME NEW q \in Seq(Entries), NEW token
  PROVE  RollbackCpr(q, token) \in Seq(Entries) /\ Len(RollbackCpr(q, token)) <= Len(q)
<1>. DEFINE Here(i) == q[i].id = token
            pos == CHOOSE i \in DOMAIN q : Here(i)
<1>1. CASE \E i \in DOMAIN q : Here(i)
  <2>1. pos \in 1..Len(q) /\ Len(q) \in Nat
    BY <1>1
  <2>2. RollbackCpr(q, token) = SubSeq(q, 1, pos - 1) \o SubSeq(q, pos + 1, Len(q))
    BY <1>1 DEF RollbackCpr
  <2>. HIDE DEF pos
  <2>3. /\ SubSeq(q, 1, pos - 1) \in Seq(Entries)
        /\ Len(SubSeq(q, 1, pos - 1)) = pos - 1
    BY <2>1, SubSeqProperties
  <2>4. /\ SubSeq(q, pos + 1, Len(q)) \in Seq(Entries)
        /\ Len(SubSeq(q, pos + 1, Len(q))) = Len(q) - pos
    BY <2>1, SubSeqProperties
  <2>5. /\ RollbackCpr(q, token) \in Seq(Entries)
        /\ Len(RollbackCpr(q, token)) = (pos - 1) + (Len(q) - pos)
    BY <2>2, <2>3, <2>4, ConcatProperties
  <2>. QED BY <2>1, <2>5
<1>2. CASE ~\E i \in DOMAIN q : Here(i)
  BY <1>2 DEF RollbackCpr
<1>. QED BY <1>1, <1>2

\* The tail of a sequence and one more.
LEMMA TailOfConcat ==
  ASSUME NEW s \in Seq(Reports), s # <<>>, NEW t \in Seq(Reports)
  PROVE  Tail(s) \o t = Tail(s \o t) /\ s \o t # <<>> /\ Head(s \o t) = Head(s)
<1>1. Len(s) \in Nat /\ Len(t) \in Nat /\ Len(s) > 0
  OBVIOUS
<1>2. /\ Tail(s) \in Seq(Reports) /\ Len(Tail(s)) = Len(s) - 1
      /\ \A i \in 1..(Len(s) - 1) : Tail(s)[i] = s[i + 1]
  BY <1>1
<1>3. /\ s \o t \in Seq(Reports) /\ Len(s \o t) = Len(s) + Len(t)
      /\ \A i \in 1..(Len(s) + Len(t)) :
           (s \o t)[i] = IF i <= Len(s) THEN s[i] ELSE t[i - Len(s)]
  BY ConcatProperties
<1>4. s \o t # <<>>
  BY <1>1, <1>3
<1>5. /\ Tail(s \o t) \in Seq(Reports) /\ Len(Tail(s \o t)) = Len(s) + Len(t) - 1
      /\ \A i \in 1..(Len(s) + Len(t) - 1) : Tail(s \o t)[i] = (s \o t)[i + 1]
  BY <1>1, <1>3, <1>4
<1>6. /\ Tail(s) \o t \in Seq(Reports) /\ Len(Tail(s) \o t) = Len(s) + Len(t) - 1
      /\ \A i \in 1..(Len(s) + Len(t) - 1) :
           (Tail(s) \o t)[i] = IF i <= Len(s) - 1 THEN Tail(s)[i] ELSE t[i - (Len(s) - 1)]
  BY <1>1, <1>2, ConcatProperties
<1>7. ASSUME NEW i \in 1..(Len(s) + Len(t) - 1)
      PROVE  (Tail(s) \o t)[i] = Tail(s \o t)[i]
  BY <1>1, <1>2, <1>3, <1>5, <1>6
<1>8. Tail(s) \o t = Tail(s \o t)
  BY <1>5, <1>6, <1>7, SeqEqual
<1>9. Head(s \o t) = Head(s)
  BY <1>1, <1>3, <1>4
<1>. QED BY <1>4, <1>8, <1>9

-----------------------------------------------------------------------------
(* The initial state and the steps.                                        *)

\* The answers to come are reports.
LEMMA OutstandingType == TypeOK => Staged \in Seq(Reports) /\ Outstanding \in Seq(Reports)
<1>1. TypeOK => reports \in Seq(Reports) /\ taskB.asks \in Seq(Reports)
  BY DEF TypeOK
<1>. QED BY <1>1, ConcatProperties DEF Outstanding, Staged

\* QueueMatches says this of the queue and the outstanding queries.
LEMMA MatchesMeansEndsWith ==
  TypeOK =>
    (QueueMatches <=>
      (Running => EndsWith(queue, Outstanding) /\ (~lost => Len(queue) = Len(Outstanding))))
<1>. SUFFICES ASSUME TypeOK
     PROVE  QueueMatches <=>
      (Running => EndsWith(queue, Outstanding) /\ (~lost => Len(queue) = Len(Outstanding)))
  OBVIOUS
<1>1. Outstanding \in Seq(Reports) /\ queue \in Seq(Entries)
  BY OutstandingType DEF TypeOK
<1>2. DOMAIN Outstanding = 1..Len(Outstanding) /\ Len(Outstanding) \in Nat /\ Len(queue) \in Nat
  BY <1>1
<1>3. Orphans = 0 <=> Len(queue) = Len(Outstanding)
  BY <1>2 DEF Orphans
<1>. QED BY <1>2, <1>3 DEF QueueMatches, EndsWith, Orphans

\* Nothing is queued and nothing outstanding in the initial state.
LEMMA InitInductive == Init => Inductive
<1>. SUFFICES ASSUME Init PROVE Inductive
  OBVIOUS
<1>1. 0 \in EntryIds /\ 0 \in Cursors /\ MaxQueue \in Nat
  BY BoundsAssumption DEF EntryIds, Cursors
<1>2. <<>> \in Seq(Entries) /\ <<>> \in Seq(Reports) /\ Len(<<>>) = 0
  OBVIOUS
<1>3. Reading \in [at: {"read", "parsed", "staged", "written", "failed", "exited"},
                   asks: Seq(Reports), place: Cursors, sync: BOOLEAN,
                   token: EntryIds \cup {None}]
  BY <1>1, <1>2 DEF Reading
<1>4. TypeOK
  <2>1. queue \in Seq(Entries) /\ Len(queue) <= MaxQueue
    BY <1>1, <1>2 DEF Init
  <2>2. nextId \in EntryIds /\ cursor \in Cursors /\ shown \in Cursors /\ reports \in Seq(Reports)
    BY <1>1, <1>2 DEF Init
  <2>3. synced \in BOOLEAN /\ lost \in BOOLEAN /\ taskA \in Reports \cup {None}
    BY DEF Init
  <2>. QED BY <2>1, <2>2, <2>3, <1>3 DEF Init, TypeOK
<1>5. Outstanding = <<>>
  BY DEF Init, Outstanding, Staged, Reading
<1>6. Room /\ QueueMatches
  BY <1>2, <1>5 DEF Init, Room, QueueMatches, Orphans, Reading
<1>. QED BY <1>4, <1>6 DEF Inductive

\* The invariant holds after a step if its types and room do and the queue still
\* ends with what is outstanding.
LEMMA ConcludesInductive ==
  ASSUME TypeOK', Room',
         Running' => EndsWith(queue', Outstanding') /\ (~lost' => Len(queue') = Len(Outstanding'))
  PROVE  Inductive'
<1>1. (TypeOK =>
        (QueueMatches <=>
          (Running => EndsWith(queue, Outstanding)
                      /\ (~lost => Len(queue) = Len(Outstanding)))))'
  BY MatchesMeansEndsWith, PTL
<1>. QED BY <1>1 DEF Inductive

\* What the invariant says before a step.
LEMMA FromInductive ==
  Inductive =>
    /\ queue \in Seq(Entries) /\ Len(queue) \in Nat /\ Len(queue) <= MaxQueue
    /\ reports \in Seq(Reports) /\ Staged \in Seq(Reports) /\ Outstanding \in Seq(Reports)
    /\ MaxQueue \in Nat
    /\ Running => EndsWith(queue, Outstanding) /\ (~lost => Len(queue) = Len(Outstanding))
<1>. SUFFICES ASSUME Inductive
     PROVE  /\ queue \in Seq(Entries) /\ Len(queue) \in Nat /\ Len(queue) <= MaxQueue
            /\ reports \in Seq(Reports) /\ Staged \in Seq(Reports) /\ Outstanding \in Seq(Reports)
            /\ MaxQueue \in Nat
            /\ Running => EndsWith(queue, Outstanding) /\ (~lost => Len(queue) = Len(Outstanding))
  OBVIOUS
<1>1. TypeOK /\ QueueMatches
  BY DEF Inductive
<1>2. queue \in Seq(Entries) /\ reports \in Seq(Reports) /\ Len(queue) <= MaxQueue
  BY <1>1 DEF TypeOK
<1>. QED BY <1>1, <1>2, OutstandingType, MatchesMeansEndsWith, BoundsAssumption

\* A step that leaves the queue, what is outstanding and the history alone.
LEMMA NothingMoves ==
  ASSUME Inductive, TypeOK', Room', Running' => Running,
         queue' = queue, Outstanding' = Outstanding, lost' = lost
  PROVE  Inductive'
<1>1. Running' => EndsWith(queue, Outstanding) /\ (~lost => Len(queue) = Len(Outstanding))
  BY FromInductive
<1>2. Running' => EndsWith(queue', Outstanding') /\ (~lost' => Len(queue') = Len(Outstanding'))
  BY <1>1
<1>. QED BY <1>2, ConcludesInductive

\* Task B queues the entries of the queries it has read, which it has yet to write.
LEMMA ReadShellStep ==
  ASSUME Inductive, NEW chunk \in Chunks, ReadShell(chunk)
  PROVE  Inductive'
<1>. DEFINE n == Len(chunk.asks)
            asks == [i \in 1..n |-> [id |-> NextId(i - 1),
                                     place |-> (shown + chunk.asks[i]) % Places]]
            entries == [i \in 1..n |-> Entry("Shell", asks[i].id)]
<1>1. /\ chunk.asks \in Seq(Nat) /\ chunk.moves \in Nat /\ chunk.seen \in Nat
      /\ chunk.prompt \in BOOLEAN
  BY ChunksAssumption
<1>2. n \in Nat /\ DOMAIN chunk.asks = 1..n /\ \A i \in 1..n : chunk.asks[i] \in Nat
  BY <1>1
<1>3. nextId \in EntryIds /\ shown \in Cursors /\ cursor \in Cursors
  BY DEF Inductive, TypeOK
<1>4. \A i \in 1..n : asks[i] = [id |-> NextId(i - 1),
                                 place |-> (shown + chunk.asks[i]) % Places]
  OBVIOUS
<1>5. \A i \in 1..n : NextId(i - 1) \in EntryIds
  <2>. TAKE i \in 1..n
  <2>1. i - 1 \in Nat
    BY <1>2
  <2>. QED BY <2>1, <1>3, NextIdIsId
<1>6. \A i \in 1..n : (shown + chunk.asks[i]) % Places \in Cursors
  BY <1>2, <1>3, MovesInRange
<1>7. \A i \in 1..n : asks[i] \in Reports
  BY <1>4, <1>5, <1>6 DEF Reports
<1>8. \A i \in 1..n : entries[i] = Entry("Shell", asks[i].id)
  OBVIOUS
<1>9. asks \in Seq(Reports) /\ Len(asks) = n
  <2>1. asks \in [1..n -> Reports]
    BY <1>7
  <2>. HIDE DEF n, asks
  <2>. QED BY <1>2, <2>1, FunctionIsSeq
<1>10. \A i \in 1..n : entries[i] \in Entries /\ entries[i].id = asks[i].id /\ entries[i].age < Stale
  <2>. TAKE i \in 1..n
  <2>1. asks[i].id \in EntryIds
    BY <1>7 DEF Reports
  <2>2. Stale \in Nat /\ 0 < Stale /\ 0 \in 0..Stale
    BY BoundsAssumption
  <2>3. entries[i] = [owner |-> "Shell", id |-> asks[i].id, age |-> 0]
    BY <1>8 DEF Entry
  <2>. QED BY <2>1, <2>2, <2>3 DEF Entries
<1>11. entries \in Seq(Entries) /\ Len(entries) = n
  <2>1. entries \in [1..n -> Entries]
    BY <1>10
  <2>. HIDE DEF n, entries
  <2>. QED BY <1>2, <2>1, FunctionIsSeq
<1>12. /\ taskB.at = "read" /\ Len(queue) + n < MaxQueue
       /\ queue' = queue \o entries
       /\ nextId' = NextId(n)
       /\ cursor' = (cursor + chunk.seen) % Places
       /\ taskB' = [at |-> "parsed", asks |-> asks, sync |-> chunk.prompt,
                    place |-> (shown + chunk.moves) % Places, token |-> None]
       /\ UNCHANGED <<synced, taskA, shown, reports, lost>>
  BY DEF ReadShell
<1>. HIDE DEF asks, entries
<1>13. /\ queue' \in Seq(Entries) /\ Len(queue') < MaxQueue
  BY <1>12, <1>11, ConcatProperties, FromInductive
<1>14. nextId' \in EntryIds /\ cursor' \in Cursors /\ (shown + chunk.moves) % Places \in Cursors
  BY <1>12, <1>1, <1>2, <1>3, NextIdIsId, MovesInRange
<1>15. TypeOK'
  <2>1. taskB' \in [at: {"read", "parsed", "staged", "written", "failed", "exited"},
                    asks: Seq(Reports), place: Cursors, sync: BOOLEAN,
                    token: EntryIds \cup {None}]
    BY <1>1, <1>9, <1>12, <1>14
  <2>2. /\ synced' \in BOOLEAN /\ taskA' \in Reports \cup {None} /\ shown' \in Cursors
        /\ reports' \in Seq(Reports) /\ lost' \in BOOLEAN
    BY <1>12 DEF Inductive, TypeOK
  <2>3. Len(queue') <= MaxQueue
    BY <1>13, FromInductive
  <2>. QED BY <1>13, <1>14, <2>1, <2>2, <2>3 DEF TypeOK
<1>16. Room'
  BY <1>13 DEF Room
<1>17. Running /\ Outstanding = reports /\ Outstanding' = Outstanding \o asks
  <2>1. Staged = <<>> /\ Staged' = asks
    BY <1>12 DEF Staged
  <2>2. Outstanding = reports
    BY <2>1, FromInductive, ConcatEmptySeq DEF Outstanding
  <2>. QED BY <1>12, <2>1, <2>2 DEF Outstanding, Running
<1>18. EndsWith(queue', Outstanding')
       /\ Len(queue') - Len(Outstanding') = Len(queue) - Len(Outstanding)
  <2>1. /\ queue \in Seq(Entries) /\ Outstanding \in Seq(Reports)
        /\ EndsWith(queue, Outstanding)
    BY <1>17, FromInductive
  <2>2. \A i \in 1..Len(asks) : entries[i].id = asks[i].id /\ entries[i].age < Stale
    BY <1>9, <1>10
  <2>3. /\ EndsWith(queue \o entries, Outstanding \o asks)
        /\ Len(queue \o entries) - Len(Outstanding \o asks) = Len(queue) - Len(Outstanding)
    BY <1>9, <1>11, <2>1, <2>2, GrowsTogether
  <2>. QED BY <1>12, <1>17, <2>3
<1>19. ~lost' => Len(queue') = Len(Outstanding')
  <2>1. ~lost' => Len(queue) = Len(Outstanding)
    BY <1>12, <1>17, FromInductive
  <2>2. Len(queue') \in Nat /\ Len(Outstanding') \in Nat
        /\ Len(queue) \in Nat /\ Len(Outstanding) \in Nat
    <3>1. Outstanding \o asks \in Seq(Reports)
      BY <1>9, FromInductive, ConcatProperties
    <3>. QED BY <3>1, <1>13, <1>17, FromInductive
  <2>. QED BY <1>18, <2>1, <2>2
<1>. QED BY <1>15, <1>16, <1>18, <1>19, ConcludesInductive

\* The proxy's own query comes after those of the chunk, in both sequences.
LEMMA EnqueueOursStep ==
  ASSUME Inductive, EnqueueOurs
  PROVE  Inductive'
<1>. DEFINE TaskBs == [at: {"read", "parsed", "staged", "written", "failed", "exited"},
                       asks: Seq(Reports), place: Cursors, sync: BOOLEAN,
                       token: EntryIds \cup {None}]
            ask == [id |-> nextId, place |-> taskB.place]
            entry == Entry("Ours", nextId)
<1>1. /\ taskB \in TaskBs /\ nextId \in EntryIds /\ taskB.at = "parsed"
      /\ UNCHANGED <<cursor, synced, taskA, shown, reports, lost>>
  BY DEF Inductive, TypeOK, EnqueueOurs
<1>2. ask \in Reports /\ taskB.asks \in Seq(Reports)
  BY <1>1 DEF Reports
<1>3. entry \in Entries /\ entry.id = ask.id /\ entry.age < Stale
  <2>1. Stale \in Nat /\ 0 < Stale /\ 0 \in 0..Stale
    BY BoundsAssumption
  <2>. QED BY <1>1, <2>1 DEF Entries, Entry
<1>4. /\ Running
      /\ Staged = taskB.asks /\ Outstanding = reports \o taskB.asks
      /\ Len(queue) < MaxQueue
  BY <1>1 DEF Running, Staged, Outstanding, Inductive, Room
<1>5. CASE taskB.sync
  <2>1. /\ queue' = Append(queue, entry) /\ nextId' = NextId(1)
        /\ taskB' = [taskB EXCEPT !.at = "staged", !.token = nextId,
                                  !.asks = Append(@, ask)]
    BY <1>5 DEF EnqueueOurs, EnqueueCpr
  <2>. HIDE DEF ask, entry
  <2>2. /\ Append(queue, entry) = queue \o <<entry>> /\ <<entry>> \in Seq(Entries)
        /\ Append(taskB.asks, ask) = taskB.asks \o <<ask>> /\ <<ask>> \in Seq(Reports)
        /\ Len(<<entry>>) = 1 /\ Len(<<ask>>) = 1 /\ <<entry>>[1] = entry /\ <<ask>>[1] = ask
    <3>1. queue \in Seq(Entries)
      BY FromInductive
    <3>2. Append(queue, entry) = queue \o <<entry>>
      BY <1>3, <3>1, AppendIsConcat
    <3>3. Append(taskB.asks, ask) = taskB.asks \o <<ask>>
      BY <1>2, AppendIsConcat
    <3>4. <<entry>> \in Seq(Entries) /\ Len(<<entry>>) = 1 /\ <<entry>>[1] = entry
      BY <1>3
    <3>5. <<ask>> \in Seq(Reports) /\ Len(<<ask>>) = 1 /\ <<ask>>[1] = ask
      BY <1>2
    <3>. QED BY <3>2, <3>3, <3>4, <3>5
  <2>3. Append(taskB.asks, ask) \in Seq(Reports)
    BY <1>2
  <2>. DEFINE longer == Append(taskB.asks, ask)
  <2>4. taskB' = [taskB EXCEPT !.at = "staged", !.token = nextId, !.asks = longer]
    BY <2>1
  <2>. HIDE DEF longer
  <2>5. taskB' \in TaskBs /\ taskB'.at = "staged" /\ taskB'.asks = longer
    BY <1>1, <2>3, <2>4 DEF longer
  <2>6. Outstanding' = Outstanding \o <<ask>>
    <3>1. Staged' = taskB.asks \o <<ask>>
      BY <2>2, <2>5 DEF Staged, longer
    <3>2. reports \o (taskB.asks \o <<ask>>) = (reports \o taskB.asks) \o <<ask>>
      <4>1. reports \in Seq(Reports) /\ <<ask>> \in Seq(Reports)
        BY <2>2, FromInductive
      <4>2. \A s, t, u \in Seq(Reports) : s \o (t \o u) = (s \o t) \o u
        BY ConcatAssociative
      <4>. QED BY <1>2, <4>1, <4>2
    <3>. QED BY <1>1, <1>4, <3>1, <3>2 DEF Outstanding
  <2>7. queue' \in Seq(Entries) /\ Len(queue') = Len(queue) + 1
    BY <1>3, <2>1, FromInductive
  <2>8. TypeOK'
    <3>1. nextId' \in EntryIds
      BY <1>1, <2>1, NextIdIsId
    <3>2. Len(queue') <= MaxQueue
      BY <1>4, <2>7, FromInductive
    <3>3. /\ cursor' \in Cursors /\ synced' \in BOOLEAN
          /\ taskA' \in Reports \cup {None} /\ shown' \in Cursors
          /\ reports' \in Seq(Reports) /\ lost' \in BOOLEAN
      BY <1>1 DEF Inductive, TypeOK
    <3>. QED BY <2>5, <2>7, <3>1, <3>2, <3>3 DEF TypeOK
  <2>9. Room'
    BY <2>5 DEF Room
  <2>10. /\ EndsWith(queue', Outstanding')
         /\ Len(queue') - Len(Outstanding') = Len(queue) - Len(Outstanding)
    <3>1. /\ queue \in Seq(Entries) /\ Outstanding \in Seq(Reports)
          /\ EndsWith(queue, Outstanding)
      BY <1>4, FromInductive
    <3>2. \A i \in 1..Len(<<ask>>) : <<entry>>[i].id = <<ask>>[i].id /\ <<entry>>[i].age < Stale
      BY <1>3, <2>2 DEF ask, entry
    <3>3. /\ EndsWith(queue \o <<entry>>, Outstanding \o <<ask>>)
          /\ Len(queue \o <<entry>>) - Len(Outstanding \o <<ask>>) = Len(queue) - Len(Outstanding)
      BY <2>2, <3>1, <3>2, GrowsTogether
    <3>. QED BY <2>1, <2>2, <2>6, <3>3
  <2>11. ~lost' => Len(queue') = Len(Outstanding')
    <3>1. ~lost' => Len(queue) = Len(Outstanding)
      BY <1>1, <1>4, FromInductive
    <3>2. Len(Outstanding') = Len(Outstanding) + 1
      BY <2>2, <2>6, FromInductive, ConcatProperties
    <3>. QED BY <2>7, <3>1, <3>2, FromInductive
  <2>. QED BY <2>8, <2>9, <2>10, <2>11, ConcludesInductive
<1>6. CASE ~taskB.sync
  <2>1. /\ queue' = queue /\ nextId' = nextId
        /\ taskB' = [taskB EXCEPT !.at = "staged"]
    BY <1>6 DEF EnqueueOurs
  <2>2. taskB' \in TaskBs /\ taskB'.at = "staged" /\ taskB'.asks = taskB.asks
    BY <1>1, <2>1
  <2>3. TypeOK' /\ Room'
    BY <1>1, <2>1, <2>2 DEF Inductive, TypeOK, Room
  <2>4. Outstanding' = Outstanding
    BY <1>1, <1>4, <2>2 DEF Outstanding, Staged
  <2>. QED BY <1>1, <1>4, <2>1, <2>3, <2>4, NothingMoves
<1>. QED BY <1>5, <1>6

\* What was staged is written: the same queries are outstanding.
LEMMA WriteOutputStep ==
  ASSUME Inductive, WriteOutput
  PROVE  Inductive'
<1>. DEFINE TaskBs == [at: {"read", "parsed", "staged", "written", "failed", "exited"},
                       asks: Seq(Reports), place: Cursors, sync: BOOLEAN,
                       token: EntryIds \cup {None}]
<1>1. /\ taskB \in TaskBs /\ taskB.at = "staged" /\ reports' = reports \o taskB.asks
      /\ taskB' = [taskB EXCEPT !.at = "written"] /\ shown' = taskB.place
      /\ UNCHANGED <<queue, nextId, cursor, synced, taskA, lost>>
  BY DEF Inductive, TypeOK, WriteOutput
<1>2. /\ taskB' \in TaskBs /\ taskB'.at = "written" /\ shown' \in Cursors
      /\ taskB.asks \in Seq(Reports)
  BY <1>1
<1>3. reports' \in Seq(Reports)
  BY <1>1, <1>2, FromInductive, ConcatProperties
<1>4. TypeOK' /\ Room'
  BY <1>1, <1>2, <1>3 DEF Inductive, TypeOK, Room
<1>5. Outstanding' = Outstanding
  <2>1. Staged = taskB.asks /\ Staged' = <<>>
    BY <1>1, <1>2 DEF Staged
  <2>. QED BY <1>1, <1>3, <2>1, ConcatEmptySeq DEF Outstanding
<1>. QED BY <1>1, <1>4, <1>5, NothingMoves DEF Running

\* After a failed write nothing is claimed of the queue but its type.
LEMMA FailureStep ==
  ASSUME Inductive, FailWrite \/ RollBack
  PROVE  Inductive'
<1>. DEFINE TaskBs == [at: {"read", "parsed", "staged", "written", "failed", "exited"},
                       asks: Seq(Reports), place: Cursors, sync: BOOLEAN,
                       token: EntryIds \cup {None}]
<1>1. taskB \in TaskBs
  BY DEF Inductive, TypeOK
<1>2. /\ taskB' \in TaskBs /\ taskB'.at \in {"failed", "exited"}
      /\ UNCHANGED <<nextId, cursor, synced, taskA, shown, lost>>
  <2>1. CASE FailWrite
    BY <1>1, <2>1 DEF FailWrite
  <2>2. CASE RollBack
    BY <1>1, <2>2 DEF RollBack
  <2>. QED BY <2>1, <2>2
<1>3. queue' \in Seq(Entries) /\ Len(queue') <= MaxQueue
  <2>1. CASE FailWrite
    BY <2>1, FromInductive DEF FailWrite
  <2>2. CASE RollBack
    <3>1. /\ queue' = RollbackCpr(queue, taskB.token)
          /\ RollbackCpr(queue, taskB.token) \in Seq(Entries)
          /\ Len(RollbackCpr(queue, taskB.token)) <= Len(queue)
      BY <2>2, FromInductive, RollbackType DEF RollBack
    <3>2. Len(queue') \in Nat
      BY <3>1
    <3>. QED BY <3>1, <3>2, FromInductive
  <2>. QED BY <2>1, <2>2
<1>4. reports' \in Seq(Reports)
  <2>1. CASE FailWrite
    <3>1. PICK n \in 0..Len(taskB.asks) : reports' = reports \o SubSeq(taskB.asks, 1, n)
      BY <2>1 DEF FailWrite
    <3>2. taskB.asks \in Seq(Reports)
      BY <1>1
    <3>3. SubSeq(taskB.asks, 1, n) \in Seq(Reports)
      BY <3>2, SubSeqProperties
    <3>. QED BY <3>1, <3>3, FromInductive, ConcatProperties
  <2>2. CASE RollBack
    BY <2>2, FromInductive DEF RollBack
  <2>. QED BY <2>1, <2>2
<1>5. TypeOK' /\ Room'
  BY <1>2, <1>3, <1>4 DEF Inductive, TypeOK, Room
<1>6. ~Running'
  BY <1>2 DEF Running
<1>. QED BY <1>5, <1>6, ConcludesInductive

\* The end of a chunk prunes no entry of an outstanding query.
LEMMA FinishChunkStep ==
  ASSUME Inductive, FinishChunk
  PROVE  Inductive'
<1>1. /\ queue' = PruneStale(queue) /\ taskB' = Reading /\ taskB.at = "written"
      /\ UNCHANGED <<nextId, cursor, synced, taskA, shown, reports, lost>>
  BY DEF FinishChunk
<1>2. Running /\ Outstanding' = Outstanding
  BY <1>1 DEF Running, Outstanding, Staged, Reading
<1>3. /\ queue \in Seq(Entries) /\ Outstanding \in Seq(Reports) /\ EndsWith(queue, Outstanding)
      /\ ~lost => Len(queue) = Len(Outstanding)
      /\ Len(queue) \in Nat /\ Len(queue) <= MaxQueue /\ MaxQueue \in Nat
  BY <1>2, FromInductive
<1>4. /\ queue' \in Seq(Entries) /\ Len(queue') <= Len(queue)
      /\ EndsWith(queue', Outstanding')
  BY <1>1, <1>2, <1>3, PruneSpares
<1>5. Len(queue') \in Nat /\ Len(Outstanding) \in Nat /\ Len(Outstanding') <= Len(queue')
  BY <1>3, <1>4 DEF EndsWith
<1>6. ~lost' => Len(queue') = Len(Outstanding')
  BY <1>1, <1>2, <1>3, <1>4, <1>5
<1>7. taskB' \in [at: {"read", "parsed", "staged", "written", "failed", "exited"},
                  asks: Seq(Reports), place: Cursors, sync: BOOLEAN,
                  token: EntryIds \cup {None}]
  <2>1. 0 \in Cursors /\ <<>> \in Seq(Reports)
    BY BoundsAssumption DEF Cursors
  <2>. QED BY <1>1, <2>1 DEF Reading
<1>8. TypeOK'
  <2>1. Len(queue') <= MaxQueue
    BY <1>3, <1>4, <1>5
  <2>. QED BY <1>1, <1>4, <1>7, <2>1 DEF Inductive, TypeOK
<1>9. Room'
  BY <1>1 DEF Room, Reading
<1>. QED BY <1>4, <1>6, <1>8, <1>9, ConcludesInductive

\* Task A takes the oldest report and the oldest entry; a loss takes the report
\* alone.
LEMMA ReportStep ==
  ASSUME Inductive, DispatchCprResponse \/ LoseQuery
  PROVE  Inductive'
<1>1. /\ reports # <<>> /\ reports' = Tail(reports)
      /\ UNCHANGED <<nextId, cursor, synced, taskB, shown>>
  BY DEF DispatchCprResponse, LoseQuery
<1>2. /\ queue \in Seq(Entries) /\ Len(queue) \in Nat /\ Len(queue) <= MaxQueue
      /\ reports \in Seq(Reports) /\ Staged \in Seq(Reports) /\ Outstanding \in Seq(Reports)
      /\ MaxQueue \in Nat
  BY FromInductive
<1>3. Head(reports) \in Reports /\ reports' \in Seq(Reports)
  BY <1>1, <1>2, HeadTailProperties
<1>4. /\ Outstanding # <<>> /\ Outstanding' = Tail(Outstanding)
      /\ Head(Outstanding) = Head(reports)
  <2>1. Staged' = Staged
    BY <1>1 DEF Staged
  <2>. QED BY <1>1, <1>2, <2>1, TailOfConcat DEF Outstanding
<1>5. Len(Outstanding') = Len(Outstanding) - 1
  BY <1>2, <1>4, HeadTailProperties
<1>6. \/ queue' = queue /\ (lost' \/ queue = <<>>)
      \/ queue # <<>> /\ queue' = Tail(queue) /\ lost' = lost
  BY DEF DispatchCprResponse, LoseQuery, ClaimNextCpr
<1>7. queue' \in Seq(Entries) /\ Len(queue') <= Len(queue) /\ Len(queue') \in Nat
      /\ (queue # <<>> /\ queue' = Tail(queue) => Len(queue') = Len(queue) - 1)
  <2>1. queue # <<>> => Tail(queue) \in Seq(Entries) /\ Len(Tail(queue)) = Len(queue) - 1
    BY <1>2, HeadTailProperties
  <2>2. queue # <<>> => Tail(queue) \in Seq(Entries) /\ Len(Tail(queue)) \in Nat
    BY <2>1
  <2>3. Len(queue') \in Nat /\ queue' \in Seq(Entries)
    BY <1>2, <1>6, <2>1, <2>2
  <2>4. CASE queue # <<>> /\ queue' = Tail(queue)
    BY <1>2, <2>1, <2>3, <2>4
  <2>5. CASE ~(queue # <<>> /\ queue' = Tail(queue))
    BY <1>2, <1>6, <2>3, <2>5
  <2>. QED BY <2>3, <2>4, <2>5
<1>8. TypeOK'
  <2>1. taskA' \in Reports \cup {None}
    <3>1. taskA' \in {taskA, None, Head(reports)}
      BY DEF DispatchCprResponse, LoseQuery
    <3>. QED BY <1>3, <3>1 DEF Inductive, TypeOK
  <2>2. lost' \in BOOLEAN
    BY DEF DispatchCprResponse, LoseQuery, Inductive, TypeOK
  <2>3. Len(queue') <= MaxQueue
    BY <1>2, <1>7
  <2>. QED BY <1>1, <1>3, <1>7, <2>1, <2>2, <2>3 DEF Inductive, TypeOK
<1>9. Room'
  <2>1. taskB.at = "parsed" => Len(queue) < MaxQueue
    BY DEF Inductive, Room
  <2>. QED BY <1>1, <1>2, <1>7, <2>1 DEF Room
<1>10. ASSUME Running'
       PROVE  EndsWith(queue', Outstanding') /\ (~lost' => Len(queue') = Len(Outstanding'))
  <2>1. Running
    BY <1>1, <1>10 DEF Running
  <2>2. EndsWith(queue, Outstanding) /\ (~lost => Len(queue) = Len(Outstanding))
    BY <2>1, FromInductive
  <2>3. /\ queue # <<>>
        /\ EndsWith(Tail(queue), Tail(Outstanding))
        /\ EndsWith(queue, Tail(Outstanding))
    BY <1>2, <1>4, <2>2, ShrinksTogether
  <2>4. EndsWith(queue', Outstanding')
    BY <1>4, <1>6, <2>3
  <2>5. ~lost' => Len(queue') = Len(Outstanding')
    BY <1>5, <1>6, <1>7, <2>2, <2>3
  <2>. QED BY <2>4, <2>5
<1>. QED BY <1>8, <1>9, <1>10, ConcludesInductive

\* Time passes only while no outstanding query's entry is about to go stale.
LEMMA TickStep ==
  ASSUME Inductive, Tick
  PROVE  Inductive'
<1>. DEFINE Older(e) == [e EXCEPT !.age = IF e.age < Stale THEN e.age + 1 ELSE e.age]
<1>1. /\ queue' = [i \in DOMAIN queue |-> Older(queue[i])]
      /\ \A i \in DOMAIN queue : queue[i].id \in Asked => queue[i].age + 1 < Stale
      /\ UNCHANGED <<nextId, cursor, synced, taskB, taskA, shown, reports, lost>>
  BY DEF Tick
<1>2. ASSUME NEW e \in Entries
      PROVE  /\ Older(e) \in Entries /\ Older(e).id = e.id
             /\ e.age + 1 < Stale => Older(e).age < Stale
  <2>1. /\ e.age \in 0..Stale /\ e.id \in EntryIds /\ e.owner \in {"Ours", "Shell"}
        /\ e = [owner |-> e.owner, id |-> e.id, age |-> e.age] /\ Stale \in Nat
    BY BoundsAssumption DEF Entries
  <2>. DEFINE age == IF e.age < Stale THEN e.age + 1 ELSE e.age
  <2>2. age \in 0..Stale /\ (e.age + 1 < Stale => age < Stale)
    BY <2>1
  <2>. HIDE DEF age
  <2>3. [e EXCEPT !.age = age] = [owner |-> e.owner, id |-> e.id, age |-> age]
    BY <2>1
  <2>4. /\ [e EXCEPT !.age = age] \in Entries /\ [e EXCEPT !.age = age].id = e.id
        /\ [e EXCEPT !.age = age].age = age
    BY <2>1, <2>2, <2>3 DEF Entries
  <2>. QED BY <2>2, <2>4 DEF age
<1>3. /\ queue \in Seq(Entries) /\ Len(queue) \in Nat /\ Len(queue) <= MaxQueue
      /\ Outstanding \in Seq(Reports)
  BY FromInductive
<1>4. DOMAIN queue = 1..Len(queue) /\ \A i \in 1..Len(queue) : queue[i] \in Entries
  BY <1>3
<1>. HIDE DEF Older
<1>5. queue' \in Seq(Entries) /\ Len(queue') = Len(queue)
  <2>. DEFINE q == [i \in 1..Len(queue) |-> Older(queue[i])]
  <2>1. q \in [1..Len(queue) -> Entries]
    BY <1>2, <1>4
  <2>2. queue' = q
    BY <1>1, <1>4
  <2>. HIDE DEF q
  <2>. QED BY <1>3, <2>1, <2>2, FunctionIsSeq
<1>6. \A i \in 1..Len(queue) : queue'[i] = Older(queue[i])
  BY <1>1, <1>4
<1>7. TypeOK' /\ Room'
  BY <1>1, <1>3, <1>5 DEF Inductive, TypeOK, Room
<1>8. Outstanding' = Outstanding /\ (Running' => Running)
  BY <1>1 DEF Outstanding, Staged, Running
<1>9. ASSUME Running, EndsWith(queue, Outstanding)
      PROVE  EndsWith(queue', Outstanding)
  <2>. DEFINE k == Len(queue) - Len(Outstanding)
  <2>1. /\ k \in Nat /\ Len(Outstanding) \in Nat /\ Len(queue) = k + Len(Outstanding)
        /\ Len(Outstanding) <= Len(queue)
    BY <1>3, <1>9 DEF EndsWith
  <2>2. \A i \in 1..Len(Outstanding) : queue[k + i].id = Outstanding[i].id
    BY <1>9 DEF EndsWith
  <2>. HIDE DEF k
  <2>3. ASSUME NEW i \in 1..Len(Outstanding)
        PROVE  queue'[k + i].id = Outstanding[i].id /\ queue'[k + i].age < Stale
    <3>1. k + i \in 1..Len(queue)
      BY <2>1
    <3>2. queue[k + i].id \in Asked
      <4>1. i \in DOMAIN Outstanding
        BY <1>3
      <4>. QED BY <2>2, <4>1 DEF Asked
    <3>3. queue[k + i].age + 1 < Stale
      BY <1>1, <1>4, <3>1, <3>2
    <3>. QED BY <1>2, <1>4, <1>6, <2>2, <3>1, <3>3
  <2>. QED BY <1>5, <2>1, <2>3 DEF EndsWith, k
<1>10. Running' => EndsWith(queue', Outstanding') /\ (~lost' => Len(queue') = Len(Outstanding'))
  BY <1>1, <1>5, <1>8, <1>9, FromInductive
<1>. QED BY <1>7, <1>10, ConcludesInductive

\* The cursor and its flag are no part of the argument.
LEMMA CursorStep ==
  ASSUME Inductive, SetCursorFromReport \/ TakeCprSynced \/ UNCHANGED vars
  PROVE  Inductive'
<1>1. /\ UNCHANGED <<queue, nextId, taskB, shown, reports, lost>>
      /\ cursor' \in Cursors /\ synced' \in BOOLEAN /\ taskA' \in Reports \cup {None}
  <2>1. CASE SetCursorFromReport
    <3>1. taskA \in Reports
      BY <2>1 DEF SetCursorFromReport, Inductive, TypeOK
    <3>2. taskA.place \in Cursors
      BY <3>1 DEF Reports
    <3>. QED BY <2>1, <3>2 DEF SetCursorFromReport, Inductive, TypeOK
  <2>2. CASE TakeCprSynced
    BY <2>2 DEF TakeCprSynced, Inductive, TypeOK
  <2>3. CASE UNCHANGED vars
    BY <2>3 DEF vars, Inductive, TypeOK
  <2>. QED BY <2>1, <2>2, <2>3
<1>2. TypeOK' /\ Room'
  BY <1>1 DEF Inductive, TypeOK, Room
<1>3. Outstanding' = Outstanding /\ (Running' => Running)
  BY <1>1 DEF Outstanding, Staged, Running
<1>. QED BY <1>1, <1>2, <1>3, NothingMoves

\* Every step preserves the invariant.
LEMMA StepInductive == Inductive /\ [Next]_vars => Inductive'
<1>. SUFFICES ASSUME Inductive, [Next]_vars PROVE Inductive'
  OBVIOUS
<1>1. ASSUME NEW chunk \in Chunks, ReadShell(chunk) PROVE Inductive'
  BY <1>1, ReadShellStep
<1>2. CASE EnqueueOurs
  BY <1>2, EnqueueOursStep
<1>3. CASE WriteOutput
  BY <1>3, WriteOutputStep
<1>4. CASE FailWrite \/ RollBack
  BY <1>4, FailureStep
<1>5. CASE FinishChunk
  BY <1>5, FinishChunkStep
<1>6. CASE DispatchCprResponse \/ LoseQuery
  BY <1>6, ReportStep
<1>7. CASE SetCursorFromReport \/ TakeCprSynced \/ UNCHANGED vars
  BY <1>7, CursorStep
<1>8. CASE Tick
  BY <1>8, TickStep
<1>. QED BY <1>1, <1>2, <1>3, <1>4, <1>5, <1>6, <1>7, <1>8 DEF Next, TaskB, TaskA

\* The invariant holds throughout.
LEMMA SpecInductive == Spec => []Inductive
BY InitInductive, StepInductive, PTL DEF Spec

-----------------------------------------------------------------------------
(* What the invariant shows.                                               *)

\* The queue, the ids that wrap and the cursors stay in range (enqueue_cpr,
\* claim_next_cpr, rollback_cpr, prune_stale_cpr).
THEOREM TypeCorrect == Spec => []TypeOK
<1>1. Inductive => TypeOK
  BY DEF Inductive
<1>. QED BY <1>1, SpecInductive, PTL

\* The queue ends with the entries of the queries still to be answered, in order,
\* and the leak guard spares them.
THEOREM QueueFollowsTerminal == Spec => []QueueMatches
<1>1. Inductive => QueueMatches
  BY DEF Inductive
<1>. QED BY <1>1, SpecInductive, PTL

\* No report finds the queue empty while Task B runs, even after a loss.
THEOREM ReportsAreClaimed == Spec => []EveryReportIsClaimed
<1>1. Inductive => EveryReportIsClaimed
  <2>. SUFFICES ASSUME Inductive, Running, reports # <<>> PROVE queue # <<>>
    BY DEF EveryReportIsClaimed
  <2>1. Outstanding # <<>>
    BY FromInductive, TailOfConcat DEF Outstanding
  <2>. QED BY <2>1, FromInductive, ShrinksTogether
<1>. QED BY <1>1, SpecInductive, PTL

\* While every query is answered, the entry Task A claims is that of the report.
THEOREM ReportsReachTheirAsker == Spec => AnswersOwnQuery
<1>1. Inductive /\ Next =>
        (DispatchCprResponse /\ Running /\ ~lost =>
           queue # <<>> /\ Head(queue).id = Head(reports).id)
  <2>. SUFFICES ASSUME Inductive, DispatchCprResponse, Running, ~lost
                PROVE  queue # <<>> /\ Head(queue).id = Head(reports).id
    OBVIOUS
  <2>1. /\ queue \in Seq(Entries) /\ Outstanding \in Seq(Reports)
        /\ reports \in Seq(Reports) /\ Staged \in Seq(Reports)
        /\ EndsWith(queue, Outstanding) /\ Len(queue) = Len(Outstanding)
    BY FromInductive
  <2>2. Outstanding # <<>> /\ Head(Outstanding) = Head(reports)
    BY <2>1, TailOfConcat DEF Outstanding, DispatchCprResponse
  <2>3. queue # <<>>
    BY <2>1, <2>2, ShrinksTogether
  <2>4. queue[1].id = Outstanding[1].id
    BY <2>1, <2>2 DEF EndsWith
  <2>. QED BY <2>1, <2>2, <2>3, <2>4
<1>. QED BY <1>1, SpecInductive, PTL DEF Spec, AnswersOwnQuery

-----------------------------------------------------------------------------
(* The types of TriggerScheduling.                                         *)

Items == [kind : {"report"}, line : Nat] \cup [kind : {"redraw", "execute", "directory"}]
Parsers == [buffer : Nat, dirty : BOOLEAN, pending : BOOLEAN, cwdDirty : BOOLEAN]
Handlers == [visible : BOOLEAN, feedback : BOOLEAN, requested : BOOLEAN,
             suppressed : BOOLEAN, auto : BOOLEAN, fingerprint : Nat]
Shells == [unread : Seq(AllKeys), line : Nat, out : Seq(Items)]
Passes == [at : {"read", "clean", "take", "decide", "resolve", "chain"},
           display : BOOLEAN, dirty : BOOLEAN, pending : BOOLEAN,
           stash : {NoAction, "Trigger", "Debounce"}]
Histories == [owed : BOOLEAN, misplaced : BOOLEAN, predicted : BOOLEAN]

TriggerTypes ==
  /\ pressed \in Nat /\ reloads \in Nat
  /\ shell \in Shells /\ parser \in Parsers /\ handler \in Handlers
  /\ pass \in Passes /\ history \in Histories
  /\ debounce \in [at : {"wait", "timer", "block"}, notified : BOOLEAN]

\* Whatever reports a line in the output out, the redraw comes right after it.
RedrawFollows(out) ==
  \A i \in DOMAIN out :
    out[i].kind = "report" => i + 1 \in DOMAIN out /\ out[i + 1] = Redraw

\* The parser waits for a redraw that is next in what it is given.
RedrawIsNext == parser.pending => 1 \in DOMAIN shell.out /\ shell.out[1] = Redraw

\* A line the parser has been given ahead of the shell will be reported.
LineToCome ==
  \/ \E i \in DOMAIN shell.unread : shell.unread[i] \in {"char", "enter"}
  \/ \E i \in DOMAIN shell.out : shell.out[i].kind = "report"
PredictionEnds == history.predicted => LineToCome

\* The popup of a line whose redraw has been read is about to be taken down.
Outdated == handler.visible /\ history.misplaced /\ ~Early
OutdatedGoes == Outdated => pass.at = "clean" /\ pass.display

Misplacement ==
  /\ TriggerTypes /\ RedrawFollows(shell.out) /\ RedrawIsNext
  /\ PredictionEnds /\ OutdatedGoes

LEMMA Smallest ==
  ASSUME NEW T \in SUBSET Nat, T # {}
  PROVE  \E m \in T : \A n \in T : m <= n
<1> DEFINE below == {0 .. n : n \in T}
<1>1. below \subseteq FiniteSubsetsOf(Nat) /\ below # {}
  <2>1. \A n \in T : 0 .. n \in SUBSET Nat /\ IsFiniteSet(0 .. n)
    BY FS_Interval
  <2> QED
    BY <2>1 DEF FiniteSubsetsOf
<1>2. PICK x \in below : \A y \in below : <<y, x>> \notin StrictSubsetOrdering(Nat)
  <2>1. IsWellFoundedOn(StrictSubsetOrdering(Nat), FiniteSubsetsOf(Nat))
    BY FS_StrictSubsetOrderingWellFounded
  <2> HIDE DEF below
  <2> QED
    BY <1>1, <2>1, WFMin
<1>3. PICK m \in T : x = 0 .. m
  OBVIOUS
<1>4. ASSUME NEW n \in T, n < m
      PROVE  FALSE
  <2>1. 0 .. n \subseteq 0 .. m /\ m \in 0 .. m /\ m \notin 0 .. n
    BY <1>4
  <2>2. <<0 .. n, 0 .. m>> \in StrictSubsetOrdering(Nat)
    BY <2>1 DEF StrictSubsetOrdering
  <2> QED
    BY <1>2, <1>3, <2>2
<1> QED
  BY <1>4


-----------------------------------------------------------------------------
(* process_bytes, item by item.                                            *)

\* What a piece leaves is what its last item makes of what the others leave.
LEMMA FedIs ==
  ASSUME NEW p, NEW piece, Len(piece) \in Nat
  PROVE  \E fed : /\ fed[0] = p
                  /\ \A i \in 1 .. Len(piece) : fed[i] = Applied(fed[i - 1], piece[i])
                  /\ Fed(p, piece) = fed[Len(piece)]
<1> DEFINE F(g, m) == [i \in 0 .. m |-> IF i = 0 THEN p ELSE Applied(g[i - 1], piece[i])]
           N == Len(piece)
           T == {m \in 0 .. N : \A g : g # F(g, m)}
<1>1. \E g : g = F(g, N)
  <2> SUFFICES ASSUME T # {}
               PROVE  FALSE
    OBVIOUS
  <2>1. T \in SUBSET Nat
    OBVIOUS
  <2>2. PICK m \in T : \A n \in T : m <= n
    <3> HIDE DEF T
    <3> QED
      BY <2>1, Smallest
  <2>3. m \in 0 .. N /\ \A g : g # F(g, m)
    OBVIOUS
  <2>4. m # 0
    <3> SUFFICES ASSUME m = 0
                 PROVE  FALSE
      OBVIOUS
    <3> DEFINE g == [i \in 0 .. 0 |-> p]
    <3>1. g = F(g, 0)
      OBVIOUS
    <3> HIDE DEF g
    <3> QED
      BY <2>3, <3>1
  <2>5. m - 1 \in 0 .. N /\ ~(m <= m - 1) /\ m \in 1 .. N
    BY <2>3, <2>4
  <2>6. PICK g : g = F(g, m - 1)
    <3>1. m - 1 \notin T
      BY <2>2, <2>5
    <3> QED
      BY <2>5, <3>1
  <2> DEFINE h == [i \in 0 .. m |-> IF i = m THEN Applied(g[m - 1], piece[m]) ELSE g[i]]
  <2>7. \A i \in 0 .. m : h[i] = F(h, m)[i]
    <3> SUFFICES ASSUME NEW i \in 0 .. m
                 PROVE  h[i] = F(h, m)[i]
      OBVIOUS
    <3>1. F(h, m)[i] = IF i = 0 THEN p ELSE Applied(h[i - 1], piece[i])
      OBVIOUS
    <3>2. i # 0 => i - 1 \in 0 .. m /\ i - 1 # m /\ h[i - 1] = g[i - 1]
      BY <2>5
    <3> HIDE DEF F
    <3>3. CASE i = m
      <4>1. h[i] = Applied(g[m - 1], piece[m])
        BY <3>3
      <4> HIDE DEF h
      <4> QED
        BY <2>4, <3>1, <3>2, <3>3, <4>1
    <3>4. CASE i # m
      <4>1. i \in 0 .. m - 1
        BY <2>5, <3>4
      <4>2. g[i] = IF i = 0 THEN p ELSE Applied(g[i - 1], piece[i])
        BY <2>6, <4>1 DEF F
      <4>3. h[i] = g[i]
        BY <3>4
      <4> HIDE DEF h
      <4> QED
        BY <3>1, <3>2, <4>2, <4>3
    <3> QED
      BY <3>3, <3>4
  <2>8. h = F(h, m)
    BY <2>7
  <2> HIDE DEF h
  <2> QED
    BY <2>3, <2>8
<1> DEFINE fed == CHOOSE g : g = F(g, N)
<1>2. fed = F(fed, N)
  BY <1>1
<1>3. Fed(p, piece) = fed[N]
  BY DEF Fed
<1> HIDE DEF fed
<1>4. fed[0] = p /\ \A i \in 1 .. N : fed[i] = Applied(fed[i - 1], piece[i])
  <2>1. \A i \in 0 .. N : fed[i] = IF i = 0 THEN p ELSE Applied(fed[i - 1], piece[i])
    BY <1>2
  <2> HIDE DEF F
  <2> QED
    BY <2>1
<1> QED
  BY <1>3, <1>4

\* The parser that waits for a redraw after an item waits for the item after it.
LEMMA AppliedWaits ==
  ASSUME NEW p \in Parsers, NEW item \in Items, p.pending => item = Redraw
  PROVE  /\ Applied(p, item) \in Parsers
         /\ Applied(p, item).pending => item.kind = "report"
<1>1. CASE item.kind = "report"
  <2>1. item.line \in Nat
    BY <1>1 DEF Items
  <2> QED
    BY <1>1, <2>1 DEF Applied, Parsers
<1>2. CASE item.kind = "redraw"
  BY <1>2 DEF Applied, Parsers
<1>3. CASE item.kind = "execute"
  BY <1>3 DEF Applied, Parsers
<1>4. CASE item.kind = "directory"
  <2>1. item # Redraw
    BY <1>4 DEF Redraw
  <2>2. ~p.pending
    BY <2>1
  <2> QED
    BY <1>4, <2>2 DEF Applied, Parsers
<1> QED
  BY <1>1, <1>2, <1>3, <1>4 DEF Items

\* Wherever the output is cut, the parser waits for the redraw at its head.
LEMMA FedWaits ==
  ASSUME NEW p \in Parsers, NEW out \in Seq(Items), NEW size \in 1 .. Len(out),
         RedrawFollows(out), p.pending => out[1] = Redraw
  PROVE  LET left == Fed(p, SubSeq(out, 1, size)) IN
         /\ left \in Parsers
         /\ out[size].kind = "report" => left.pending
         /\ left.pending => size + 1 \in DOMAIN out /\ out[size + 1] = Redraw
<1> DEFINE piece == SubSeq(out, 1, size)
<1>1. Len(piece) = size /\ \A i \in 1 .. size : piece[i] = out[i] /\ out[i] \in Items
  OBVIOUS
<1> HIDE DEF piece
<1>2. PICK fed : /\ fed[0] = p
                 /\ \A i \in 1 .. size : fed[i] = Applied(fed[i - 1], piece[i])
                 /\ Fed(p, piece) = fed[size]
  BY <1>1, FedIs
<1> DEFINE Waits(i) == /\ fed[i] \in Parsers
                       /\ fed[i].pending => i + 1 \in DOMAIN out /\ out[i + 1] = Redraw
           T == {i \in 0 .. size : ~Waits(i)}
<1>3. T = {}
  <2> SUFFICES ASSUME T # {}
               PROVE  FALSE
    OBVIOUS
  <2>1. T \in SUBSET Nat
    OBVIOUS
  <2>2. PICK m \in T : \A n \in T : m <= n
    <3> HIDE DEF T
    <3> QED
      BY <2>1, Smallest
  <2>3. m \in 0 .. size /\ ~Waits(m)
    OBVIOUS
  <2>4. Waits(0)
    BY <1>2
  <2>5. m \in 1 .. size /\ m - 1 \in 0 .. size /\ ~(m <= m - 1) /\ m \in DOMAIN out
    <3> HIDE DEF Waits
    <3> QED
      BY <2>3, <2>4
  <2>6. Waits(m - 1)
    <3> HIDE DEF Waits
    <3> QED
      BY <2>2, <2>5
  <2>7. fed[m] = Applied(fed[m - 1], out[m]) /\ out[m] \in Items
    BY <1>1, <1>2, <2>5
  <2>8. fed[m - 1] \in Parsers /\ (fed[m - 1].pending => out[m] = Redraw)
    BY <2>5, <2>6
  <2>9. fed[m] \in Parsers /\ (fed[m].pending => out[m].kind = "report")
    <3> HIDE DEF Waits, T
    <3> QED
      BY <2>7, <2>8, AppliedWaits
  <2>10. Waits(m)
    BY <2>5, <2>9 DEF RedrawFollows
  <2> HIDE DEF Waits
  <2> QED
    BY <2>3, <2>10
<1>4. size \in 0 .. size /\ size - 1 \in 0 .. size /\ size \in 1 .. size
  OBVIOUS
<1>5. Waits(size) /\ Waits(size - 1)
  <2> HIDE DEF Waits
  <2> QED
    BY <1>3, <1>4
<1>6. ASSUME out[size].kind = "report"
      PROVE  fed[size].pending
  <2>1. fed[size] = Applied(fed[size - 1], out[size]) /\ fed[size - 1] \in Parsers
    BY <1>1, <1>2, <1>4, <1>5
  <2>2. Applied(fed[size - 1], out[size]) = [fed[size - 1] EXCEPT
          !.buffer = out[size].line, !.dirty = TRUE, !.pending = TRUE]
    BY <1>6 DEF Applied
  <2> QED
    BY <2>1, <2>2 DEF Parsers
<1> QED
  BY <1>2, <1>5, <1>6 DEF piece

-----------------------------------------------------------------------------
(* The handler.                                                            *)

LEMMA TornDown ==
  ASSUME NEW h \in Handlers, NEW preserve \in BOOLEAN
  PROVE  Teardown(h, preserve) \in Handlers /\ ~Teardown(h, preserve).visible
BY DEF Teardown, Handlers

LEMMA Dismissed ==
  ASSUME NEW h \in Handlers
  PROVE  /\ Dismiss(h) \in Handlers /\ ~Dismiss(h).visible
         /\ DismissIfVisible(h) \in Handlers /\ ~DismissIfVisible(h).visible
<1>1. Dismiss(h) \in Handlers /\ ~Dismiss(h).visible
  BY TornDown DEF Dismiss
<1> QED
  BY <1>1 DEF DismissIfVisible

\* A trigger places the popup for the line the parser holds, or leaves it alone.
LEMMA TriggerPlaces ==
  ASSUME parser \in Parsers, history \in Histories, NEW h \in Handlers, Trigger(h)
  PROVE  /\ handler' \in Handlers /\ history' \in Histories
         /\ history'.predicted = history.predicted
         /\ handler'.visible /\ history'.misplaced /\ ~Early =>
              h.visible /\ history.misplaced
<1>1. handler' \in Handlers
  <2>1. CASE handler' = DismissIfVisible(h)
    BY <2>1, Dismissed
  <2>2. CASE handler' = h
    BY <2>2
  <2>3. ASSUME NEW f \in BOOLEAN,
               handler' = [h EXCEPT !.visible = TRUE, !.feedback = f,
                                    !.fingerprint = parser.buffer]
        PROVE  handler' \in Handlers
    BY <2>3 DEF Handlers, Parsers
  <2>4. ASSUME NEW f \in BOOLEAN,
               handler' = [DismissIfVisible([h EXCEPT !.feedback = FALSE]) EXCEPT !.feedback = f]
        PROVE  handler' \in Handlers
    <3> DEFINE k == [h EXCEPT !.feedback = FALSE]
    <3>1. k \in Handlers
      BY DEF Handlers
    <3> HIDE DEF k
    <3>2. DismissIfVisible(k) \in Handlers
      BY <3>1, Dismissed
    <3>3. [DismissIfVisible(k) EXCEPT !.feedback = f] \in Handlers
      BY <3>2 DEF Handlers
    <3> QED
      BY <2>4, <3>3 DEF k
  <2>5. handler' \in Triggered(h)
    BY DEF Trigger
  <2> QED
    BY <2>1, <2>2, <2>3, <2>4, <2>5 DEF Triggered
<1> DEFINE owes == history.owed /\ Early
           off == handler'.visible /\ IF handler' = h THEN history.misplaced ELSE Early
<1>2. history' = [history EXCEPT !.owed = owes, !.misplaced = off]
  BY DEF Trigger
<1>3. owes \in BOOLEAN /\ off \in BOOLEAN
  BY <1>1 DEF Handlers, Histories, Parsers, Early
<1>4. off /\ ~Early => h.visible /\ history.misplaced
  OBVIOUS
<1> HIDE DEF owes, off
<1>5. /\ history' \in Histories /\ history'.misplaced = off
      /\ history'.predicted = history.predicted
  BY <1>2, <1>3 DEF Histories
<1> QED
  BY <1>1, <1>4, <1>5

-----------------------------------------------------------------------------
(* Initially, and one action at a time.                                    *)

LEMMA InitiallyPlaced == TriggerInit => Misplacement
<1> SUFFICES ASSUME TriggerInit
             PROVE  Misplacement
  OBVIOUS
<1>1. Reloads \in Nat
  BY LimitsAssumption
<1>2. <<>> \in Seq(AllKeys) /\ <<>> \in Seq(Items) /\ DOMAIN <<>> = {}
  OBVIOUS
<1>3. TriggerTypes
  BY <1>1, <1>2 DEF TriggerInit, TriggerTypes, Shells, Parsers, Handlers, Passes, Histories
<1>4. RedrawFollows(shell.out)
  BY <1>2 DEF TriggerInit, RedrawFollows
<1> QED
  BY <1>3, <1>4 DEF TriggerInit, Misplacement, RedrawIsNext, PredictionEnds,
                    OutdatedGoes, Outdated

\* Where the output and the parser are left alone.
LEMMA SamePlaces ==
  ASSUME Misplacement, TriggerTypes', shell'.out = shell.out, parser'.pending = parser.pending,
         PredictionEnds', OutdatedGoes'
  PROVE  Misplacement'
BY DEF Misplacement, RedrawFollows, RedrawIsNext

\* A prediction stands as long as the keys that end it.
LEMMA SamePrediction ==
  ASSUME Misplacement, shell'.out = shell.out, history'.predicted = history.predicted,
         \A i \in DOMAIN shell.unread :
           i \in DOMAIN shell'.unread /\ shell'.unread[i] = shell.unread[i]
  PROVE  PredictionEnds'
BY DEF Misplacement, PredictionEnds, LineToCome

\* What a key does, but for the popup.
LEMMA Forwards ==
  ASSUME shell \in Shells, NEW k \in AllKeys, Forward(k)
  PROVE  /\ shell' \in Shells /\ shell'.out = shell.out
         /\ \A i \in DOMAIN shell.unread :
              i \in DOMAIN shell'.unread /\ shell'.unread[i] = shell.unread[i]
         /\ \E i \in DOMAIN shell'.unread : shell'.unread[i] = k
<1> DEFINE keys == shell.unread
           more == Append(keys, k)
<1>1. keys \in Seq(AllKeys)
  BY DEF Shells
<1> HIDE DEF keys
<1>2. /\ more \in Seq(AllKeys) /\ Len(more) = Len(keys) + 1 /\ Len(keys) \in Nat
      /\ \A i \in 1 .. Len(keys) : more[i] = keys[i]
      /\ more[Len(keys) + 1] = k
  BY <1>1
<1>3. shell' = [shell EXCEPT !.unread = more]
  BY DEF Forward, keys
<1> HIDE DEF more
<1>4. shell' \in Shells /\ shell'.out = shell.out /\ shell'.unread = more
  BY <1>2, <1>3 DEF Shells
<1>5. \A i \in DOMAIN keys : i \in DOMAIN more /\ more[i] = keys[i]
  BY <1>1, <1>2
<1>6. Len(keys) + 1 \in DOMAIN more
  BY <1>2
<1> QED
  BY <1>2, <1>4, <1>5, <1>6 DEF keys

\* A key that takes down the popup, or leaves it where it is.
LEMMA KeyKeeps ==
  ASSUME Misplacement, UNCHANGED <<reloads, pass, debounce, history>>, pressed' \in Nat,
         parser' = parser, handler' \in Handlers, handler'.visible => handler.visible,
         shell' \in Shells, shell'.out = shell.out,
         \A i \in DOMAIN shell.unread :
           i \in DOMAIN shell'.unread /\ shell'.unread[i] = shell.unread[i]
  PROVE  Misplacement'
<1>1. PredictionEnds'
  BY SamePrediction
<1>2. TriggerTypes' /\ OutdatedGoes'
  BY DEF Misplacement, TriggerTypes, OutdatedGoes, Outdated, Early
<1> QED
  BY <1>1, <1>2, SamePlaces

\* The popup of an accepted directory waits for a line that is still to come.
LEMMA AcceptStep ==
  ASSUME Misplacement, UNCHANGED <<reloads, pass, debounce>>, pressed' \in Nat, AcceptDirectory
  PROVE  Misplacement'
<1>0. /\ handler \in Handlers /\ shell \in Shells /\ parser \in Parsers /\ history \in Histories
      /\ Forward("char") /\ "char" \in AllKeys
  BY DEF Misplacement, TriggerTypes, AcceptDirectory, AllKeys
<1>1. /\ shell' \in Shells /\ shell'.out = shell.out
      /\ \E i \in DOMAIN shell'.unread : shell'.unread[i] = "char"
  BY <1>0, Forwards
<1>2. PICK line \in 1 .. MaxKeys + 1 : parser' = [parser EXCEPT !.buffer = line]
  BY DEF AcceptDirectory
<1>3. parser' \in Parsers /\ parser'.pending = parser.pending
  <2>1. line \in Nat
    BY LimitsAssumption
  <2> QED
    BY <1>0, <1>2, <2>1 DEF Parsers
<1>4. PICK painted \in BOOLEAN :
        /\ handler' = IF painted THEN handler ELSE Dismiss(handler)
        /\ history' = [history EXCEPT !.misplaced = painted, !.predicted = TRUE]
  BY DEF AcceptDirectory
<1>5. handler' \in Handlers
  BY <1>0, <1>4, Dismissed
<1>6. history' \in Histories /\ history'.predicted
  BY <1>0, <1>4 DEF Histories
<1>7. TriggerTypes'
  BY <1>1, <1>3, <1>5, <1>6 DEF Misplacement, TriggerTypes
<1>8. PredictionEnds' /\ OutdatedGoes'
  BY <1>1, <1>6 DEF PredictionEnds, LineToCome, OutdatedGoes, Outdated, Early
<1> QED
  BY <1>1, <1>3, <1>7, <1>8, SamePlaces

\* Every other key that is forwarded, but for the ones that type.
LEMMA DismissStep ==
  ASSUME Misplacement, UNCHANGED <<reloads, pass, debounce>>, pressed' \in Nat,
         NEW key \in AllKeys, DismissAndForward(key)
  PROVE  Misplacement'
<1>0. /\ handler \in Handlers /\ shell \in Shells
      /\ handler' = DismissIfVisible(handler) /\ UNCHANGED <<parser, history>>
      /\ {"char", "enter", "other"} \subseteq AllKeys
  BY DEF Misplacement, TriggerTypes, DismissAndForward, AllKeys
<1>1. handler' \in Handlers /\ ~handler'.visible
  BY <1>0, Dismissed
<1>2. ASSUME NEW k \in AllKeys, Forward(k)
      PROVE  Misplacement'
  <2>1. /\ shell' \in Shells /\ shell'.out = shell.out
        /\ \A i \in DOMAIN shell.unread :
             i \in DOMAIN shell'.unread /\ shell'.unread[i] = shell.unread[i]
    BY <1>0, <1>2, Forwards
  <2> QED
    BY <1>0, <1>1, <2>1, KeyKeeps
<1>3. CASE shell' = [shell EXCEPT !.unread = @ \o <<"char", "enter">>]
  <2> DEFINE keys == shell.unread
             sent == <<"char", "enter">>
             more == keys \o sent
  <2>1. keys \in Seq(AllKeys)
    BY <1>0 DEF Shells
  <2>2. sent \in Seq(AllKeys)
    BY <1>0
  <2>3. shell' = [shell EXCEPT !.unread = more]
    BY <1>3
  <2> HIDE DEF keys, sent
  <2>4. /\ more \in Seq(AllKeys) /\ Len(more) = Len(keys) + Len(sent)
        /\ Len(keys) \in Nat /\ Len(sent) \in Nat
        /\ \A i \in 1 .. Len(keys) : more[i] = keys[i]
    BY <2>1, <2>2
  <2> HIDE DEF more
  <2>5. shell' \in Shells /\ shell'.out = shell.out /\ shell'.unread = more
    BY <1>0, <2>3, <2>4 DEF Shells
  <2>6. \A i \in DOMAIN keys : i \in DOMAIN more /\ more[i] = keys[i]
    BY <2>1, <2>4
  <2> QED
    BY <1>0, <1>1, <2>5, <2>6, KeyKeeps DEF keys
<1> QED
  BY <1>0, <1>2, <1>3 DEF DismissAndForward

\* What a key is turned into is a handler, whose popup was there before.
LEMMA KeyStep ==
  ASSUME Misplacement, NEW key \in Keys, PressKey(key)
  PROVE  Misplacement'
<1>0. /\ handler \in Handlers /\ shell \in Shells /\ parser \in Parsers /\ history \in Histories
      /\ key \in AllKeys /\ "other" \in AllKeys
  BY KeysAssumption DEF Misplacement, TriggerTypes, AllKeys
<1>1. pressed' \in Nat /\ UNCHANGED <<reloads, pass, debounce>> /\ HandleKey(key)
  BY DEF PressKey, Misplacement, TriggerTypes
<1>2. ASSUME NEW k \in AllKeys, Forward(k), UNCHANGED <<parser, history>>,
             handler' \in Handlers, handler'.visible => handler.visible
      PROVE  Misplacement'
  <2>1. /\ shell' \in Shells /\ shell'.out = shell.out
        /\ \A i \in DOMAIN shell.unread :
             i \in DOMAIN shell'.unread /\ shell'.unread[i] = shell.unread[i]
    BY <1>0, <1>2, Forwards
  <2> QED
    BY <1>1, <1>2, <2>1, KeyKeeps
<1>3. CASE handler' = Typed(handler, key) /\ Forward(key) /\ UNCHANGED <<parser, history>>
  <2>1. CASE handler.visible
    <3> DEFINE t == Teardown(handler, TRUE)
    <3>1. t \in Handlers /\ ~t.visible
      BY <1>0, TornDown
    <3>2. handler' = [t EXCEPT !.requested = TRUE]
      BY <1>3, <2>1 DEF Typed
    <3> HIDE DEF t
    <3>3. handler' \in Handlers /\ ~handler'.visible
      BY <3>1, <3>2 DEF Handlers
    <3> QED
      BY <1>0, <1>2, <1>3, <3>3
  <2>2. CASE ~handler.visible
    <3>1. handler' = [handler EXCEPT !.suppressed = FALSE,
                        !.requested = @ \/ (handler.auto /\ key = "triggerChar")]
      BY <1>3, <2>2 DEF Typed
    <3>2. handler' \in Handlers /\ handler'.visible = handler.visible
      BY <1>0, <3>1 DEF Handlers
    <3> QED
      BY <1>0, <1>2, <1>3, <3>2
  <2> QED
    BY <2>1, <2>2
<1>4. CASE history' = [history EXCEPT !.misplaced = Early] /\ UNCHANGED <<handler, shell, parser>>
  <2>1. /\ history' \in Histories /\ history'.misplaced = Early
        /\ history'.predicted = history.predicted
    BY <1>0, <1>4 DEF Histories, Early, Parsers
  <2>2. PredictionEnds'
    BY <1>4, <2>1 DEF Misplacement, PredictionEnds, LineToCome
  <2>3. OutdatedGoes'
    BY <1>4, <2>1 DEF OutdatedGoes, Outdated, Early
  <2>4. TriggerTypes'
    BY <1>1, <1>4, <2>1 DEF Misplacement, TriggerTypes
  <2> QED
    BY <1>4, <2>2, <2>3, <2>4, SamePlaces
<1>5. CASE /\ handler' = [handler EXCEPT !.suppressed = TRUE] /\ Forward("other")
           /\ UNCHANGED <<parser, history>>
  <2>1. handler' \in Handlers /\ handler'.visible = handler.visible
    BY <1>0, <1>5 DEF Handlers
  <2> QED
    BY <1>0, <1>2, <1>5, <2>1
<1>6. CASE handler' = Dismiss(handler) /\ UNCHANGED <<shell, parser, history>>
  <2>1. handler' \in Handlers /\ ~handler'.visible
    BY <1>0, <1>6, Dismissed
  <2> QED
    BY <1>0, <1>1, <1>6, <2>1, KeyKeeps
<1>7. CASE AcceptDirectory
  BY <1>1, <1>7, AcceptStep
<1>8. CASE DismissAndForward(key)
  BY <1>0, <1>1, <1>8, DismissStep
<1>9. CASE Trigger([handler EXCEPT !.suppressed = FALSE]) /\ UNCHANGED <<shell, parser>>
  <2> DEFINE h == [handler EXCEPT !.suppressed = FALSE]
  <2>1. h \in Handlers /\ h.visible = handler.visible
    BY <1>0 DEF Handlers
  <2>2. Trigger(h)
    BY <1>9
  <2> HIDE DEF h
  <2>3. /\ handler' \in Handlers /\ history' \in Histories
        /\ history'.predicted = history.predicted
        /\ handler'.visible /\ history'.misplaced /\ ~Early =>
             handler.visible /\ history.misplaced
    BY <1>0, <2>1, <2>2, TriggerPlaces
  <2>4. PredictionEnds'
    BY <1>9, <2>3 DEF Misplacement, PredictionEnds, LineToCome
  <2>5. OutdatedGoes'
    BY <1>1, <1>9, <2>3 DEF Misplacement, OutdatedGoes, Outdated, Early
  <2>6. TriggerTypes'
    BY <1>1, <1>9, <2>3 DEF Misplacement, TriggerTypes
  <2> QED
    BY <1>9, <2>4, <2>5, <2>6, SamePlaces
<1> QED
  BY <1>1, <1>3, <1>4, <1>5, <1>6, <1>7, <1>8, <1>9 DEF HandleKey

LEMMA ConfigStep ==
  ASSUME Misplacement, UpdateConfig
  PROVE  Misplacement'
<1>1. handler' \in Handlers /\ (handler'.visible => handler.visible)
  <2>1. handler \in Handlers
    BY DEF Misplacement, TriggerTypes
  <2>2. handler' = [handler EXCEPT !.auto = ~@,
          !.visible   = @ /\ ~handler.auto,
          !.feedback  = @ /\ ~handler.auto,
          !.requested = @ /\ ~handler.auto]
    BY DEF UpdateConfig
  <2> QED
    BY <2>1, <2>2 DEF Handlers
<1>2. reloads' \in Nat
  BY DEF UpdateConfig, Misplacement, TriggerTypes
<1>3. TriggerTypes' /\ OutdatedGoes'
  BY <1>1, <1>2 DEF UpdateConfig, Misplacement, TriggerTypes, OutdatedGoes, Outdated, Early
<1>4. PredictionEnds'
  BY DEF UpdateConfig, Misplacement, PredictionEnds, LineToCome
<1> QED
  BY <1>3, <1>4, SamePlaces DEF UpdateConfig

\* Results place the popup where the parser has the cursor.
LEMMA MergeStep ==
  ASSUME Misplacement, MergeDynamic
  PROVE  Misplacement'
<1>0. /\ handler \in Handlers /\ history \in Histories /\ Early \in BOOLEAN
      /\ UNCHANGED <<user, shell, parser, pass, debounce>>
  BY DEF Misplacement, TriggerTypes, Parsers, Histories, Early, MergeDynamic
<1>1. /\ handler' \in Handlers /\ history' \in Histories
      /\ history'.predicted = history.predicted
      /\ handler'.visible /\ history'.misplaced /\ ~Early => Outdated
  <2>1. CASE /\ handler' = [handler EXCEPT !.feedback = FALSE, !.visible = TRUE]
             /\ history' = [history EXCEPT !.misplaced = Early]
    BY <1>0, <2>1 DEF Handlers, Histories
  <2>2. CASE handler' = [handler EXCEPT !.feedback = FALSE] /\ UNCHANGED history
    BY <1>0, <2>2 DEF Handlers, Outdated
  <2> QED
    BY <2>1, <2>2 DEF MergeDynamic
<1>2. TriggerTypes'
  BY <1>0, <1>1 DEF user, Misplacement, TriggerTypes
<1>3. PredictionEnds' /\ OutdatedGoes'
  BY <1>0, <1>1 DEF Misplacement, PredictionEnds, LineToCome, OutdatedGoes, Outdated, Early
<1> QED
  BY <1>0, <1>2, <1>3, SamePlaces

\* More output behind the output keeps its reports before their redraws.
LEMMA MoreOutput ==
  ASSUME NEW out \in Seq(Items), NEW more \in Seq(Items), RedrawFollows(out), RedrawFollows(more)
  PROVE  /\ out \o more \in Seq(Items) /\ RedrawFollows(out \o more)
         /\ \A i \in DOMAIN out : i \in DOMAIN (out \o more) /\ (out \o more)[i] = out[i]
<1> DEFINE all == out \o more
<1>1. /\ all \in Seq(Items) /\ Len(all) = Len(out) + Len(more)
      /\ \A i \in 1 .. Len(out) : all[i] = out[i]
      /\ \A i \in 1 .. Len(more) : all[Len(out) + i] = more[i]
  OBVIOUS
<1> HIDE DEF all
<1>2. ASSUME NEW i \in DOMAIN all, all[i].kind = "report"
      PROVE  i + 1 \in DOMAIN all /\ all[i + 1] = Redraw
  <2>1. CASE i <= Len(out)
    <3>1. i \in DOMAIN out /\ out[i].kind = "report"
      BY <1>1, <1>2, <2>1
    <3>2. i + 1 \in DOMAIN out /\ out[i + 1] = Redraw
      BY <3>1 DEF RedrawFollows
    <3>3. i + 1 \in 1 .. Len(out) /\ Len(more) \in Nat /\ Len(out) \in Nat
      BY <3>2
    <3> QED
      BY <1>1, <3>2, <3>3
  <2>2. CASE ~(i <= Len(out))
    <3>1. i - Len(out) \in DOMAIN more /\ i = Len(out) + (i - Len(out))
      BY <1>1, <2>2
    <3>2. PICK j \in DOMAIN more : i = Len(out) + j
      BY <3>1
    <3>3. j \in 1 .. Len(more) /\ all[i] = more[j]
      BY <1>1, <3>2
    <3>4. j + 1 \in DOMAIN more /\ more[j + 1] = Redraw
      BY <1>2, <3>3 DEF RedrawFollows
    <3>5. j + 1 \in 1 .. Len(more) /\ i + 1 = Len(out) + (j + 1)
      BY <3>2, <3>4
    <3>6. all[i + 1] = Redraw
      BY <1>1, <3>4, <3>5
    <3>7. Len(out) \in Nat /\ Len(more) \in Nat
      OBVIOUS
    <3> QED
      BY <1>1, <3>5, <3>6, <3>7
  <2> QED
    BY <2>1, <2>2
<1>3. RedrawFollows(all)
  BY <1>2 DEF RedrawFollows
<1> QED
  BY <1>1, <1>3 DEF all

\* Every key but one that only moves in the line is answered with a report.
LEMMA ReportsLine ==
  ASSUME shell \in Shells, ShellReads
  PROVE  \/ Head(shell.unread) = "other" /\ shell'.unread = Tail(shell.unread)
         \/ \E i \in DOMAIN shell'.out : shell'.out[i].kind = "report"
<1> DEFINE out == shell.out
<1>0. out \in Seq(Items)
  BY DEF Shells
<1>1. ASSUME NEW before \in Seq(Items), NEW more \in Seq(Items), shell'.out = before \o more,
             NEW i \in 1 .. Len(more), more[i].kind = "report"
      PROVE  \E j \in DOMAIN shell'.out : shell'.out[j].kind = "report"
  <2>1. /\ Len(before) + i \in DOMAIN (before \o more)
        /\ (before \o more)[Len(before) + i] = more[i]
    BY <1>1
  <2> QED
    BY <1>1, <2>1
<1>2. ASSUME NEW moved \in {<<>>, <<Directory>>},
             shell' = [shell EXCEPT
               !.unread = Tail(@),
               !.out = @ \o <<Execute>> \o moved \o <<Redraw, Report(0), Redraw>>]
      PROVE  \E j \in DOMAIN shell'.out : shell'.out[j].kind = "report"
  <2> DEFINE prompt == <<Redraw, Report(0), Redraw>>
             before == out \o <<Execute>> \o moved
  <2>1. moved \in Seq(Items) /\ <<Execute>> \in Seq(Items)
    <3>1. Directory \in Items /\ Execute \in Items
      BY DEF Items, Execute, Directory
    <3>2. <<Execute>> \in Seq(Items) /\ <<Directory>> \in Seq(Items) /\ <<>> \in Seq(Items)
      BY <3>1
    <3> QED
      BY <3>2
  <2>2. before \in Seq(Items)
    BY <1>0, <2>1
  <2>3. /\ prompt \in Seq(Items) /\ Len(prompt) = 3
        /\ prompt[2].kind = "report" /\ 2 \in 1 .. Len(prompt)
    BY DEF Items, Redraw, Report
  <2>4. shell'.out = before \o prompt
    BY <1>2 DEF Shells
  <2> HIDE DEF before, prompt
  <2> QED
    BY <1>1, <2>2, <2>3, <2>4
<1>3. CASE shell' = [shell EXCEPT !.unread = Tail(@), !.line = shell.line + 1,
                                  !.out = @ \o <<Report(shell.line + 1), Redraw>>]
  <2> DEFINE more == <<Report(shell.line + 1), Redraw>>
  <2>1. shell.line + 1 \in Nat
    BY DEF Shells
  <2>2. more \in Seq(Items) /\ 1 \in 1 .. Len(more) /\ more[1].kind = "report"
    BY <2>1 DEF Items, Redraw, Report
  <2>3. shell'.out = out \o more
    BY <1>3 DEF Shells
  <2> HIDE DEF more, out
  <2> QED
    BY <1>0, <1>1, <2>2, <2>3
<1>4. CASE /\ Head(shell.unread) = "other"
           /\ \E drawn \in {<<>>, <<Redraw>>} :
                shell' = [shell EXCEPT !.unread = Tail(@), !.out = @ \o drawn]
  BY <1>4 DEF Shells
<1> QED
  BY <1>2, <1>3, <1>4 DEF ShellReads

\* The shell writes a line's report and its redraw, or what executing it takes.
LEMMA ShellStep ==
  ASSUME Misplacement, ShellReads
  PROVE  Misplacement'
<1> DEFINE Extends(new) == /\ new \in Seq(Items) /\ RedrawFollows(new)
                           /\ \A i \in DOMAIN shell.out :
                                i \in DOMAIN new /\ new[i] = shell.out[i]
<1>1. shell \in Shells /\ shell.unread # <<>> /\ RedrawFollows(shell.out)
  BY DEF Misplacement, TriggerTypes, ShellReads
<1>2. Tail(shell.unread) \in Seq(AllKeys) /\ shell.line + 1 \in Nat /\ shell.out \in Seq(Items)
  BY <1>1 DEF Shells
<1>3. ASSUME NEW new, Extends(new), NEW more \in Seq(Items), RedrawFollows(more)
      PROVE  Extends(new \o more)
  BY <1>3, MoreOutput
<1>4. Extends(shell.out)
  BY <1>1, <1>2
<1> HIDE DEF Extends
<1>5. Extends(shell'.out) /\ shell' \in Shells
  <2>0. CASE shell' = [shell EXCEPT !.unread = Tail(@)] \/
             shell' = [shell EXCEPT !.unread = Tail(@), !.out = @ \o <<Redraw>>]
    <3>1. CASE shell' = [shell EXCEPT !.unread = Tail(shell.unread)]
      <4>1. shell' \in Shells /\ shell'.out = shell.out
        BY <1>1, <1>2, <3>1 DEF Shells
      <4> QED
        BY <1>4, <4>1
    <3>2. CASE shell' = [shell EXCEPT !.unread = Tail(shell.unread), !.out = shell.out \o <<Redraw>>]
      <4> DEFINE new == shell.out \o <<Redraw>>
      <4>1. <<Redraw>> \in Seq(Items) /\ RedrawFollows(<<Redraw>>)
        BY DEF Items, Redraw, RedrawFollows
      <4>2. Extends(new)
        BY <1>3, <1>4, <4>1
      <4>3. new \in Seq(Items)
        BY <4>2 DEF Extends
      <4>4. shell' = [shell EXCEPT !.unread = Tail(shell.unread), !.out = new]
        BY <3>2
      <4> HIDE DEF new
      <4> QED
        BY <1>1, <1>2, <4>2, <4>3, <4>4 DEF Shells
    <3> QED
      BY <2>0, <3>1, <3>2
  <2>1. ASSUME NEW moved \in {<<>>, <<Directory>>},
               shell' = [shell EXCEPT
                 !.unread = Tail(@),
                 !.out = @ \o <<Execute>> \o moved \o <<Redraw, Report(0), Redraw>>]
        PROVE  Extends(shell'.out) /\ shell' \in Shells
    <3> DEFINE prompt == <<Redraw, Report(0), Redraw>>
               new == shell.out \o <<Execute>> \o moved \o prompt
    <3>1. /\ <<Execute>> \in Seq(Items) /\ RedrawFollows(<<Execute>>)
          /\ moved \in Seq(Items) /\ RedrawFollows(moved)
      <4>1. <<Execute>> \in Seq(Items) /\ RedrawFollows(<<Execute>>)
        BY DEF Items, Execute, RedrawFollows
      <4>2. CASE moved = <<>>
        BY <4>1, <4>2 DEF RedrawFollows
      <4>3. CASE moved = <<Directory>>
        BY <4>1, <4>3 DEF Items, Directory, RedrawFollows
      <4> QED
        BY <4>1, <4>2, <4>3
    <3>2. prompt \in Seq(Items) /\ RedrawFollows(prompt)
      <4>1. prompt \in Seq(Items) /\ Len(prompt) = 3
        BY DEF Items, Redraw, Report
      <4>2. prompt[1] = Redraw /\ prompt[2] = Report(0) /\ prompt[3] = Redraw
        OBVIOUS
      <4> HIDE DEF prompt
      <4>3. ASSUME NEW i \in DOMAIN prompt, prompt[i].kind = "report"
            PROVE  i + 1 \in DOMAIN prompt /\ prompt[i + 1] = Redraw
        <5>1. i = 1 \/ i = 2 \/ i = 3
          BY <4>1
        <5>2. i = 2
          BY <4>2, <4>3, <5>1 DEF Redraw
        <5> QED
          BY <4>1, <4>2, <5>2
      <4> QED
        BY <4>1, <4>3 DEF RedrawFollows
    <3> HIDE DEF prompt
    <3>3. Extends(shell.out \o <<Execute>>)
      BY <1>3, <1>4, <3>1
    <3>4. Extends(shell.out \o <<Execute>> \o moved)
      BY <1>3, <3>1, <3>3
    <3>5. Extends(new)
      BY <1>3, <3>2, <3>4
    <3>6. shell' = [shell EXCEPT !.unread = Tail(shell.unread), !.out = new]
      BY <2>1 DEF prompt
    <3>7. new \in Seq(Items)
      BY <3>5 DEF Extends
    <3> HIDE DEF new
    <3> QED
      BY <1>1, <1>2, <3>5, <3>6, <3>7 DEF Shells
  <2>2. CASE shell' = [shell EXCEPT !.unread = Tail(@), !.line = shell.line + 1,
                                    !.out = @ \o <<Report(shell.line + 1), Redraw>>]
    <3> DEFINE more == <<Report(shell.line + 1), Redraw>>
               new == shell.out \o more
    <3>1. more \in Seq(Items) /\ RedrawFollows(more)
      BY <1>2 DEF Items, Redraw, Report, RedrawFollows
    <3>2. shell' = [shell EXCEPT !.unread = Tail(shell.unread), !.line = shell.line + 1,
                                 !.out = new]
      BY <2>2
    <3> HIDE DEF more
    <3>3. Extends(new)
      BY <1>3, <1>4, <3>1
    <3>4. new \in Seq(Items)
      BY <3>3 DEF Extends
    <3> HIDE DEF new
    <3> QED
      BY <1>1, <1>2, <3>2, <3>3, <3>4 DEF Shells
  <2>3. CASE \E drawn \in {<<>>, <<Redraw>>} :
               shell' = [shell EXCEPT !.unread = Tail(@), !.out = @ \o drawn]
    <3>1. shell.out \o <<>> = shell.out
      BY <1>2
    <3> QED
      BY <2>0, <2>3, <3>1
  <2> QED
    BY <2>1, <2>2, <2>3 DEF ShellReads
<1>6. TriggerTypes'
  BY <1>5 DEF ShellReads, user, Misplacement, TriggerTypes
<1>7. RedrawFollows(shell'.out) /\ RedrawIsNext' /\ OutdatedGoes'
  BY <1>5 DEF Extends, ShellReads, Misplacement, RedrawIsNext, OutdatedGoes, Outdated, Early
<1>8. PredictionEnds'
  <2>1. \/ Head(shell.unread) = "other" /\ shell'.unread = Tail(shell.unread)
        \/ \E i \in DOMAIN shell'.out : shell'.out[i].kind = "report"
    BY <1>1, <1>2, ReportsLine
  <2>2. CASE Head(shell.unread) = "other" /\ shell'.unread = Tail(shell.unread)
    <3>1. ASSUME NEW i \in DOMAIN shell.unread, shell.unread[i] \in {"char", "enter"}
          PROVE  \E j \in DOMAIN shell'.unread : shell'.unread[j] = shell.unread[i]
      <4> DEFINE keys == shell.unread
      <4>1. keys \in Seq(AllKeys) /\ keys # <<>> /\ i \in 1 .. Len(keys) /\ keys[1] = "other"
        BY <1>1, <2>2 DEF Shells
      <4>2. i # 1
        BY <3>1, <4>1
      <4> HIDE DEF keys
      <4>3. i - 1 \in DOMAIN Tail(keys) /\ Tail(keys)[i - 1] = keys[i]
        BY <4>1, <4>2
      <4> QED
        BY <2>2, <4>3 DEF keys
    <3>2. ASSUME NEW i \in DOMAIN shell.out
          PROVE  i \in DOMAIN shell'.out /\ shell'.out[i] = shell.out[i]
      BY <1>5 DEF Extends
    <3>3. LineToCome => LineToCome'
      BY <3>1, <3>2 DEF LineToCome
    <3> QED
      BY <3>3 DEF Misplacement, PredictionEnds, ShellReads
  <2> QED
    BY <2>1, <2>2 DEF PredictionEnds, LineToCome
<1> QED
  BY <1>6, <1>7, <1>8 DEF Misplacement

-----------------------------------------------------------------------------
(* A pass of Task B.                                                       *)

\* What is left of the output is still in order.
LEMMA RestFollows ==
  ASSUME NEW out \in Seq(Items), NEW size \in 1 .. Len(out), RedrawFollows(out)
  PROVE  RedrawFollows(SubSeq(out, size + 1, Len(out)))
<1> DEFINE rest == SubSeq(out, size + 1, Len(out))
<1>1. /\ rest \in Seq(Items) /\ Len(rest) = Len(out) - size
      /\ \A i \in 1 .. Len(rest) : rest[i] = out[size + i]
      /\ Len(out) \in Nat /\ size \in Nat
  <2>1. size + 1 \in 1 .. Len(out) + 1 /\ Len(out) \in Nat /\ size \in Nat
    OBVIOUS
  <2>2. rest = [i \in 1 .. Len(out) - size |-> out[size + i]]
    BY <2>1
  <2> QED
    BY <2>1, <2>2
<1> HIDE DEF rest
<1>2. ASSUME NEW i \in DOMAIN rest, rest[i].kind = "report"
      PROVE  i + 1 \in DOMAIN rest /\ rest[i + 1] = Redraw
  <2>1. i \in 1 .. Len(rest) /\ size + i \in DOMAIN out
    BY <1>1
  <2>2. out[size + i].kind = "report"
    BY <1>1, <1>2, <2>1
  <2>3. (size + i) + 1 \in DOMAIN out /\ out[(size + i) + 1] = Redraw
    <3> DEFINE k == size + i
    <3>1. k \in DOMAIN out /\ out[k].kind = "report"
      BY <2>1, <2>2
    <3> HIDE DEF k
    <3>2. k + 1 \in DOMAIN out /\ out[k + 1] = Redraw
      BY <3>1 DEF RedrawFollows
    <3> QED
      BY <3>2 DEF k
  <2>4. (size + i) + 1 = size + (i + 1) /\ i + 1 \in 1 .. Len(rest)
    <3>1. (size + i) + 1 <= Len(out)
      BY <2>3
    <3>2. i \in Nat /\ size \in Nat /\ Len(out) \in Nat /\ Len(rest) = Len(out) - size
      BY <1>1, <2>1
    <3> QED
      BY <3>1, <3>2
  <2> QED
    BY <1>1, <2>3, <2>4
<1> QED
  BY <1>2 DEF RedrawFollows, rest

\* The redraw a popup waits for comes with the piece, which then takes it down.
LEMMA ReadStep ==
  ASSUME Misplacement, ReadOutput
  PROVE  Misplacement'
<1>0. /\ shell \in Shells /\ parser \in Parsers /\ pass \in Passes /\ history \in Histories
      /\ RedrawFollows(shell.out) /\ RedrawIsNext /\ OutdatedGoes /\ pass.at = "read"
  BY DEF Misplacement, TriggerTypes, ReadOutput
<1> DEFINE out == shell.out
<1>1. out \in Seq(Items)
  BY <1>0 DEF Shells
<1>2. PICK size \in 1 .. Len(out) :
        LET piece == SubSeq(out, 1, size) IN
        /\ shell' = [shell EXCEPT !.out = SubSeq(@, size + 1, Len(@))]
        /\ parser' = Fed(parser, piece)
        /\ pass' = [pass EXCEPT !.at = "clean", !.display = Redraw \in ToSet(piece)]
        /\ history' = [history EXCEPT
             !.owed = IF LastOf(piece, {"report", "execute"}) = 0 THEN @
                      ELSE piece[LastOf(piece, {"report", "execute"})].kind = "report",
             !.predicted = @ /\ \A item \in ToSet(piece) : item.kind # "report"]
  BY DEF ReadOutput
<1> DEFINE piece == SubSeq(out, 1, size)
           rest == SubSeq(out, size + 1, Len(out))
<1>3. /\ rest \in Seq(Items) /\ Len(rest) = Len(out) - size
      /\ \A i \in 1 .. Len(rest) : rest[i] = out[size + i]
      /\ Len(out) \in Nat /\ size \in Nat
  BY <1>1
<1>4. piece[1] = out[1] /\ 1 \in DOMAIN piece
  BY <1>1
<1>5. /\ parser' \in Parsers
      /\ out[size].kind = "report" => parser'.pending
      /\ parser'.pending => size + 1 \in DOMAIN out /\ out[size + 1] = Redraw
  <2>1. parser.pending => out[1] = Redraw
    BY <1>0 DEF RedrawIsNext
  <2>2. parser' = Fed(parser, SubSeq(out, 1, size))
    BY <1>2
  <2> QED
    BY <1>0, <1>1, <2>1, <2>2, FedWaits
<1>6. shell' = [shell EXCEPT !.out = rest] /\ pass' = [pass EXCEPT !.at = "clean", !.display = Redraw \in ToSet(piece)]
  BY <1>2
<1>7. parser.pending => Redraw \in ToSet(piece)
  <2>1. parser.pending => piece[1] = Redraw
    BY <1>0, <1>4 DEF RedrawIsNext
  <2> HIDE DEF piece
  <2> QED
    BY <1>4, <2>1 DEF ToSet
<1>8. /\ history' \in Histories /\ history'.misplaced = history.misplaced
      /\ history'.predicted =
           (history.predicted /\ \A i \in 1 .. size : out[i].kind # "report")
  <2> DEFINE last == LastOf(piece, {"report", "execute"})
             owes == IF last = 0 THEN history.owed ELSE piece[last].kind = "report"
             stands == history.predicted /\ \A item \in ToSet(piece) : item.kind # "report"
  <2>1. history' = [history EXCEPT !.owed = owes, !.predicted = stands]
    BY <1>2
  <2>2. owes \in BOOLEAN
    BY <1>0 DEF Histories
  <2>3. stands = (history.predicted /\ \A i \in 1 .. size : out[i].kind # "report")
    <3>1. DOMAIN piece = 1 .. size /\ \A i \in 1 .. size : piece[i] = out[i]
      BY <1>1
    <3> HIDE DEF piece
    <3> QED
      BY <3>1 DEF ToSet
  <2>4. stands \in BOOLEAN
    BY <1>0 DEF Histories
  <2> HIDE DEF owes, stands, piece
  <2>5. /\ history' \in Histories /\ history'.misplaced = history.misplaced
        /\ history'.predicted = stands
    BY <1>0, <2>1, <2>2, <2>4 DEF Histories
  <2> QED
    BY <2>3, <2>5
<1>a. ASSUME Early, ~Early'
      PROVE  Redraw \in ToSet(piece)
  <2>1. CASE parser.pending
    BY <1>7, <2>1
  <2>2. CASE ~parser.pending
    <3>1. history.predicted /\ ~history'.predicted /\ ~parser'.pending
      BY <1>a, <2>2 DEF Early
    <3>2. PICK i \in 1 .. size : out[i].kind = "report"
      BY <1>8, <3>1
    <3>3. i \in DOMAIN out /\ i \in Nat /\ i + 1 \in DOMAIN out /\ out[i + 1] = Redraw
      BY <1>0, <1>1, <3>2 DEF RedrawFollows
    <3>4. i # size
      BY <1>5, <3>1, <3>2
    <3>5. i + 1 \in DOMAIN piece /\ piece[i + 1] = Redraw
      BY <1>1, <3>2, <3>3, <3>4
    <3> HIDE DEF piece
    <3> QED
      BY <3>5 DEF ToSet
  <2> QED
    BY <2>1, <2>2
<1> HIDE DEF piece
<1>9. shell' \in Shells /\ shell'.out = rest
  BY <1>0, <1>3, <1>6 DEF Shells
<1>10. pass' \in Passes /\ pass'.at = "clean" /\ (Early /\ ~Early' => pass'.display)
  <2>1. (Redraw \in ToSet(piece)) \in BOOLEAN
    OBVIOUS
  <2> QED
    BY <1>0, <1>6, <1>a, <2>1 DEF Passes
<1>11. RedrawFollows(rest)
  BY <1>0, <1>1, RestFollows
<1>12. RedrawIsNext'
  <2>1. parser'.pending => 1 \in DOMAIN rest /\ rest[1] = Redraw
    <3> HIDE DEF rest
    <3> QED
      BY <1>1, <1>3, <1>5
  <2> QED
    BY <1>9, <2>1 DEF RedrawIsNext
<1>13. handler' = handler /\ UNCHANGED <<user, debounce>>
  BY DEF ReadOutput
<1>16. PredictionEnds'
  <2>1. SUFFICES ASSUME history'.predicted
                 PROVE  LineToCome'
    BY DEF PredictionEnds
  <2>2. history.predicted /\ \A i \in 1 .. size : out[i].kind # "report"
    BY <1>8, <2>1
  <2>3. LineToCome
    BY <2>2 DEF Misplacement, PredictionEnds
  <2>4. shell'.unread = shell.unread
    BY <1>0, <1>6 DEF Shells
  <2>5. CASE \E i \in DOMAIN shell.unread : shell.unread[i] \in {"char", "enter"}
    BY <2>4, <2>5 DEF LineToCome
  <2>6. CASE \E i \in DOMAIN shell.out : shell.out[i].kind = "report"
    <3>1. PICK i \in DOMAIN out : out[i].kind = "report"
      BY <2>6
    <3>2. i \in Nat /\ i > size /\ i <= Len(out)
      BY <1>1, <1>3, <2>2, <3>1
    <3> DEFINE j == i - size
    <3>3. j \in 1 .. Len(rest) /\ size + j = i
      BY <1>3, <3>2
    <3> HIDE DEF rest, j
    <3>4. rest[j] = out[i] /\ j \in DOMAIN rest
      BY <1>3, <3>3
    <3> QED
      BY <1>9, <3>1, <3>4 DEF LineToCome
  <2> QED
    BY <2>3, <2>5, <2>6 DEF LineToCome
<1> HIDE DEF rest, out
<1>14. OutdatedGoes'
  BY <1>0, <1>8, <1>10, <1>13 DEF OutdatedGoes, Outdated
<1>15. TriggerTypes'
  BY <1>5, <1>8, <1>9, <1>10, <1>13 DEF user, Misplacement, TriggerTypes
<1> QED
  BY <1>9, <1>11, <1>12, <1>14, <1>15, <1>16 DEF Misplacement

\* Where the shell and the prediction are left alone.
LEMMA StillPredicted ==
  ASSUME Misplacement, shell' = shell, history'.predicted = history.predicted
  PROVE  PredictionEnds'
BY DEF Misplacement, PredictionEnds, LineToCome

\* A popup whose redraw has come is taken down.
LEMMA CleanStep ==
  ASSUME Misplacement, HandleTerminalOutput
  PROVE  Misplacement'
<1>0. pass \in Passes /\ handler \in Handlers /\ pass.at = "clean" /\ OutdatedGoes
  BY DEF Misplacement, TriggerTypes, HandleTerminalOutput
<1>1. pass' = [pass EXCEPT !.at = "take"]
  BY DEF HandleTerminalOutput
<1>2. CASE pass.display /\ (handler.visible \/ handler.feedback)
  <2>1. handler' = Teardown(handler, TRUE)
    BY <1>2 DEF HandleTerminalOutput
  <2>2. handler' \in Handlers /\ ~handler'.visible
    BY <1>0, <2>1, TornDown
  <2>3. pass' \in Passes
    BY <1>0, <1>1 DEF Passes
  <2>4. TriggerTypes' /\ OutdatedGoes'
    BY <2>2, <2>3 DEF HandleTerminalOutput, user, Misplacement, TriggerTypes,
                                         OutdatedGoes, Outdated, Early
  <2> QED
    BY <2>4, StillPredicted, SamePlaces DEF HandleTerminalOutput
<1>3. CASE ~(pass.display /\ (handler.visible \/ handler.feedback))
  <2>1. handler' = handler
    BY <1>3 DEF HandleTerminalOutput
  <2>2. ~Outdated /\ parser' = parser /\ history' = history
    BY <1>0, <1>3 DEF HandleTerminalOutput, OutdatedGoes, Outdated
  <2>3. pass' \in Passes
    BY <1>0, <1>1 DEF Passes
  <2>4. TriggerTypes' /\ OutdatedGoes'
    BY <2>1, <2>2, <2>3 DEF HandleTerminalOutput, user, Misplacement, TriggerTypes,
                                         OutdatedGoes, Outdated, Early
  <2> QED
    BY <2>4, StillPredicted, SamePlaces DEF HandleTerminalOutput
<1> QED
  BY <1>2, <1>3

LEMMA TakeStep ==
  ASSUME Misplacement, TakeDirty
  PROVE  Misplacement'
<1>0. /\ pass \in Passes /\ parser \in Parsers /\ pass.at = "take" /\ OutdatedGoes
      /\ pass' = [pass EXCEPT !.at = "decide", !.dirty = parser.dirty, !.pending = parser.pending]
      /\ parser' = [parser EXCEPT !.dirty = FALSE]
  BY DEF Misplacement, TriggerTypes, TakeDirty
<1>1. pass' \in Passes /\ parser' \in Parsers /\ parser'.pending = parser.pending
  BY <1>0 DEF Passes, Parsers
<1>2. TriggerTypes' /\ OutdatedGoes'
  BY <1>0, <1>1 DEF TakeDirty, user, Misplacement, TriggerTypes, OutdatedGoes, Outdated, Early
<1> QED
  BY <1>1, <1>2, StillPredicted, SamePlaces DEF TakeDirty

\* Whatever an action does, it leaves no outdated popup that was not there.
LEMMA Does ==
  ASSUME TriggerTypes, NEW h \in Handlers, h.visible = handler.visible,
         NEW action, Do(action, h)
  PROVE  /\ handler' \in Handlers /\ history' \in Histories
         /\ debounce' \in [at : {"wait", "timer", "block"}, notified : BOOLEAN]
         /\ history'.predicted = history.predicted
         /\ handler'.visible /\ history'.misplaced /\ ~Early => Outdated
<1>0. parser \in Parsers /\ history \in Histories
      /\ debounce \in [at : {"wait", "timer", "block"}, notified : BOOLEAN]
  BY DEF TriggerTypes
<1>1. CASE Trigger(h) /\ UNCHANGED debounce
  BY <1>0, <1>1, TriggerPlaces DEF Outdated
<1>2. CASE /\ debounce' = [debounce EXCEPT !.notified = TRUE]
           /\ handler' = h /\ UNCHANGED history
  BY <1>0, <1>2 DEF Outdated
<1>3. CASE /\ history' = [history EXCEPT !.owed = FALSE]
           /\ handler' = h /\ UNCHANGED debounce
  <2>1. /\ history' \in Histories /\ history'.misplaced = history.misplaced
        /\ history'.predicted = history.predicted
    BY <1>0, <1>3 DEF Histories
  <2> QED
    BY <1>0, <1>3, <2>1 DEF Outdated
<1> QED
  BY <1>1, <1>2, <1>3 DEF Do

\* What keeps the invariant once the piece has been looked at.
LEMMA AfterClean ==
  ASSUME Misplacement, pass.at # "clean", UNCHANGED <<user, shell>>,
         parser' \in Parsers, parser'.pending = parser.pending,
         handler' \in Handlers, history' \in Histories, pass' \in Passes,
         debounce' \in [at : {"wait", "timer", "block"}, notified : BOOLEAN],
         history'.predicted = history.predicted,
         handler'.visible /\ history'.misplaced /\ ~Early => Outdated
  PROVE  Misplacement'
<1>1. OutdatedGoes'
  BY DEF Misplacement, OutdatedGoes, Outdated, Early
<1>2. TriggerTypes'
  BY DEF user, Misplacement, TriggerTypes
<1> QED
  BY <1>1, <1>2, StillPredicted, SamePlaces

LEMMA DecideStep ==
  ASSUME Misplacement, Decide
  PROVE  Misplacement'
<1> DEFINE h == [handler EXCEPT !.requested = FALSE]
<1>0. /\ pass \in Passes /\ handler \in Handlers /\ history \in Histories /\ TriggerTypes
      /\ parser \in Parsers /\ debounce \in [at : {"wait", "timer", "block"}, notified : BOOLEAN]
      /\ pass.at # "clean" /\ UNCHANGED <<user, shell, parser>>
  BY DEF Misplacement, TriggerTypes, Decide
<1>1. h \in Handlers /\ h.visible = handler.visible
  BY <1>0 DEF Handlers
<1>2. BufferDirtyAction \in {NoAction, "Trigger", "Debounce"}
  BY DEF BufferDirtyAction
<1>3. CASE ~pass.dirty /\ pass' = [pass EXCEPT !.at = "resolve"] /\ UNCHANGED <<handler, debounce, history>>
  <2>1. pass' \in Passes
    BY <1>0, <1>3 DEF Passes
  <2> QED
    BY <1>0, <1>3, <2>1, AfterClean DEF Outdated
<1>4. CASE /\ pass' = [pass EXCEPT !.at = "resolve", !.stash = BufferDirtyAction]
           /\ handler' = h /\ UNCHANGED <<debounce, history>>
  <2>1. pass' \in Passes
    BY <1>0, <1>2, <1>4 DEF Passes
  <2> HIDE DEF h
  <2> QED
    BY <1>0, <1>1, <1>4, <2>1, AfterClean DEF Outdated
<1>5. CASE pass' = [pass EXCEPT !.at = "resolve", !.stash = NoAction] /\ Do(BufferDirtyAction, h)
  <2>1. pass' \in Passes
    BY <1>0, <1>5 DEF Passes
  <2> HIDE DEF h
  <2>2. /\ handler' \in Handlers /\ history' \in Histories
        /\ debounce' \in [at : {"wait", "timer", "block"}, notified : BOOLEAN]
        /\ history'.predicted = history.predicted
        /\ handler'.visible /\ history'.misplaced /\ ~Early => Outdated
    BY <1>0, <1>1, <1>5, Does
  <2>3. parser' \in Parsers /\ parser'.pending = parser.pending
    BY <1>0
  <2> QED
    BY <1>0, <2>1, <2>2, <2>3, AfterClean
<1> QED
  BY <1>3, <1>4, <1>5 DEF Decide

LEMMA ResolveStep ==
  ASSUME Misplacement, Resolve
  PROVE  Misplacement'
<1> DEFINE ready == pass.stash # NoAction /\ ~pass.pending
<1>0. /\ pass \in Passes /\ handler \in Handlers /\ history \in Histories /\ TriggerTypes
      /\ parser \in Parsers /\ debounce \in [at : {"wait", "timer", "block"}, notified : BOOLEAN]
      /\ pass.at # "clean" /\ UNCHANGED <<user, shell, parser>>
  BY DEF Misplacement, TriggerTypes, Resolve
<1>1. pass' = [pass EXCEPT !.at = "chain", !.stash = IF ready THEN NoAction ELSE @]
  BY DEF Resolve
<1>2. pass' \in Passes
  BY <1>0, <1>1 DEF Passes
<1>3. CASE ready
  <2>1. Do(Resolved, handler)
    BY <1>3 DEF Resolve
  <2>2. /\ handler' \in Handlers /\ history' \in Histories
        /\ debounce' \in [at : {"wait", "timer", "block"}, notified : BOOLEAN]
        /\ history'.predicted = history.predicted
        /\ handler'.visible /\ history'.misplaced /\ ~Early => Outdated
    BY <1>0, <2>1, Does
  <2>3. parser' \in Parsers /\ parser'.pending = parser.pending
    BY <1>0
  <2> QED
    BY <1>0, <1>2, <2>2, <2>3, AfterClean
<1>4. CASE ~ready
  <2>1. UNCHANGED <<handler, debounce, history>>
    BY <1>4 DEF Resolve
  <2> QED
    BY <1>0, <1>2, <2>1, AfterClean DEF Outdated
<1> QED
  BY <1>3, <1>4

LEMMA ChainStep ==
  ASSUME Misplacement, Chain
  PROVE  Misplacement'
<1>0. /\ pass \in Passes /\ handler \in Handlers /\ history \in Histories
      /\ parser \in Parsers /\ debounce \in [at : {"wait", "timer", "block"}, notified : BOOLEAN]
      /\ pass.at # "clean" /\ UNCHANGED <<user, shell, debounce>>
  BY DEF Misplacement, TriggerTypes, Chain
<1>1. pass' = [pass EXCEPT !.at = "read"] /\ parser' = [parser EXCEPT !.cwdDirty = FALSE]
  BY DEF Chain
<1>2. pass' \in Passes /\ parser' \in Parsers /\ parser'.pending = parser.pending
  BY <1>0, <1>1 DEF Passes, Parsers
<1>3. CASE Trigger(handler)
  <2>1. /\ handler' \in Handlers /\ history' \in Histories
        /\ history'.predicted = history.predicted
        /\ handler'.visible /\ history'.misplaced /\ ~Early =>
             handler.visible /\ history.misplaced
    BY <1>0, <1>3, TriggerPlaces
  <2> QED
    BY <1>0, <1>2, <2>1, AfterClean DEF Outdated
<1>4. CASE UNCHANGED <<handler, history>>
  BY <1>0, <1>2, <1>4, AfterClean DEF Outdated
<1> QED
  BY <1>3, <1>4 DEF Chain

-----------------------------------------------------------------------------
(* The debounce loop runs beside the passes.                               *)

LEMMA DebounceStep ==
  ASSUME Misplacement, DebounceLoop
  PROVE  Misplacement'
<1> DEFINE Loops == [at : {"wait", "timer", "block"}, notified : BOOLEAN]
<1>0. /\ pass \in Passes /\ handler \in Handlers /\ history \in Histories
      /\ parser \in Parsers /\ debounce \in Loops /\ OutdatedGoes
  BY DEF Misplacement, TriggerTypes
<1>1. /\ UNCHANGED <<user, shell, parser, pass>> /\ debounce' \in Loops
      /\ handler' \in Handlers /\ history' \in Histories
      /\ history'.predicted = history.predicted
      /\ handler'.visible /\ history'.misplaced /\ ~Early => Outdated
  <2>1. CASE Notified
    BY <1>0, <2>1 DEF Notified, Outdated
  <2>2. CASE Fire /\ (handler.suppressed \/ ~handler.auto)
    <3>1. history' = [history EXCEPT !.owed = FALSE] /\ debounce' = [debounce EXCEPT !.at = "wait"]
          /\ UNCHANGED <<handler, user, shell, parser, pass>>
      BY <2>2 DEF Fire
    <3>2. /\ history' \in Histories /\ history'.misplaced = history.misplaced
          /\ history'.predicted = history.predicted /\ debounce' \in Loops
      BY <1>0, <3>1 DEF Histories
    <3> QED
      BY <1>0, <3>1, <3>2 DEF Outdated
  <2>3. CASE Fire /\ ~(handler.suppressed \/ ~handler.auto)
    <3>1. /\ Trigger(handler) /\ UNCHANGED <<user, shell, parser, pass>>
          /\ debounce' \in {[debounce EXCEPT !.at = at] : at \in {"wait", "block"}}
      BY <2>3 DEF Fire
    <3>2. debounce' \in Loops
      BY <1>0, <3>1
    <3>3. /\ handler' \in Handlers /\ history' \in Histories
          /\ history'.predicted = history.predicted
          /\ handler'.visible /\ history'.misplaced /\ ~Early =>
               handler.visible /\ history.misplaced
      BY <1>0, <3>1, TriggerPlaces
    <3> QED
      BY <3>1, <3>2, <3>3 DEF Outdated
  <2>4. CASE EndBlock
    BY <1>0, <2>4 DEF EndBlock, Outdated
  <2>5. CASE SupersedeBlock
    <3>1. handler' = [handler EXCEPT !.feedback = FALSE] /\ debounce' = [debounce EXCEPT !.at = "wait"]
          /\ UNCHANGED <<user, shell, parser, pass, history>>
      BY <2>5 DEF SupersedeBlock
    <3>2. handler' \in Handlers /\ handler'.visible = handler.visible /\ debounce' \in Loops
      BY <1>0, <3>1 DEF Handlers
    <3> QED
      BY <1>0, <3>1, <3>2 DEF Outdated
  <2> QED
    BY <2>1, <2>2, <2>3, <2>4, <2>5 DEF DebounceLoop
<1>2. TriggerTypes'
  BY <1>0, <1>1 DEF user, Misplacement, TriggerTypes
<1>3. OutdatedGoes'
  BY <1>0, <1>1 DEF OutdatedGoes, Outdated, Early
<1> QED
  BY <1>1, <1>2, <1>3, StillPredicted, SamePlaces

LEMMA MisplacementStep == Misplacement /\ [TriggerNext]_triggerVars => Misplacement'
<1> SUFFICES ASSUME Misplacement, [TriggerNext]_triggerVars
             PROVE  Misplacement'
  OBVIOUS
<1>1. CASE \E key \in Keys : PressKey(key)
  BY <1>1, KeyStep
<1>2. CASE UpdateConfig
  BY <1>2, ConfigStep
<1>3. CASE MergeDynamic
  BY <1>3, MergeStep
<1>4. CASE ShellReads
  BY <1>4, ShellStep
<1>5. CASE PassOfTaskB
  BY <1>5, ReadStep, CleanStep, TakeStep, DecideStep, ResolveStep, ChainStep DEF PassOfTaskB
<1>6. CASE DebounceLoop
  BY <1>6, DebounceStep
<1>7. CASE UNCHANGED triggerVars
  <2>1. TriggerTypes' /\ OutdatedGoes'
    BY <1>7 DEF triggerVars, user, Misplacement, TriggerTypes, OutdatedGoes, Outdated, Early
  <2> QED
    BY <1>7, <2>1, StillPredicted, SamePlaces DEF triggerVars
<1> QED
  BY <1>1, <1>2, <1>3, <1>4, <1>5, <1>6, <1>7 DEF TriggerNext

LEMMA TriggersKeepMisplacement == TriggerSpec => []Misplacement
<1> QED
  BY InitiallyPlaced, MisplacementStep, PTL DEF TriggerSpec

\* The output, the parser's flags and the passes of Task B stay in their types: a
\* pass stashes an action of buffer_dirty_action or none.
THEOREM TriggersTyped == TriggerSpec => []TriggerTypes
<1>1. Misplacement => TriggerTypes
  BY DEF Misplacement
<1> QED
  BY <1>1, TriggersKeepMisplacement, PTL

\* Whatever the keys, the pieces of output and the debounce timer do, a popup placed
\* before the redraw of its line goes with it.
THEOREM MisplacedIsTakenDown == TriggerSpec => []MisplacedGoes
<1>1. ASSUME Misplacement, handler.visible, history.misplaced
      PROVE  (pass.at = "clean" /\ pass.display) \/ (Early /\ RedrawToCome)
  <2>1. CASE parser.pending
    <3>1. Redraw \in ToSet(shell.out)
      BY <1>1, <2>1 DEF Misplacement, RedrawIsNext, ToSet
    <3> QED
      BY <2>1, <3>1 DEF Early, RedrawToCome
  <2>2. CASE history.predicted
    <3>1. CASE \E i \in DOMAIN shell.unread : shell.unread[i] \in {"char", "enter"}
      BY <2>2, <3>1 DEF Early, RedrawToCome, ToSet
    <3>2. CASE \E i \in DOMAIN shell.out : shell.out[i].kind = "report"
      <4>1. Redraw \in ToSet(shell.out)
        BY <1>1, <3>2 DEF Misplacement, RedrawFollows, ToSet
      <4> QED
        BY <2>2, <4>1 DEF Early, RedrawToCome
    <3> QED
      BY <1>1, <2>2, <3>1, <3>2 DEF Misplacement, PredictionEnds, LineToCome
  <2>3. CASE ~Early
    BY <1>1, <2>3 DEF Misplacement, OutdatedGoes, Outdated
  <2> QED
    BY <2>1, <2>2, <2>3 DEF Early
<1>2. Misplacement => MisplacedGoes
  BY <1>1 DEF MisplacedGoes
<1> QED
  BY <1>2, TriggersKeepMisplacement, PTL
=============================================================================
