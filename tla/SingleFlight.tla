------------------------------ MODULE SingleFlight ------------------------------
(***************************************************************************)
(* What a store promises that lets concurrent callers share the work of    *)
(* producing a value: a call is answered with what the store held for its  *)
(* key or with the outcome of its own production, and no two productions   *)
(* of one key are in flight at a time.  The store may forget at any time.  *)
(***************************************************************************)
CONSTANTS
  Callers, Keys,
  Values,   \* what a production may yield
  None,
  Failed    \* the outcome of a production that yields nothing

VARIABLES
  store,    \* the value held for each key, or None
  flight,   \* the caller that produces each key's value, or None
  calls     \* the call of each caller: where it is, its key, what it carries

vars == <<store, flight, calls>>

Idle == [at |-> "idle", key |-> None, outcome |-> None]

Init ==
  /\ store = [k \in Keys |-> None]
  /\ flight = [k \in Keys |-> None]
  /\ calls = [c \in Callers |-> Idle]

Ask(c, k) ==
  /\ calls[c].at = "idle"
  /\ calls' = [calls EXCEPT ![c] = [at |-> "asks", key |-> k, outcome |-> None]]
  /\ UNCHANGED <<store, flight>>

Answer(c, outcome) == calls' = [calls EXCEPT ![c] = [Idle EXCEPT !.outcome = outcome]]

\* The store holds the value.
Share(c) ==
  /\ calls[c].at = "asks"
  /\ store[calls[c].key] # None
  /\ Answer(c, store[calls[c].key])
  /\ UNCHANGED <<store, flight>>

Begin(c) ==
  /\ calls[c].at = "asks"
  /\ flight[calls[c].key] = None
  /\ flight' = [flight EXCEPT ![calls[c].key] = c]
  /\ calls' = [calls EXCEPT ![c].at = "leads"]
  /\ UNCHANGED store

\* The production ends; only a value is stored.
Produce(c, outcome) ==
  /\ calls[c].at = "leads" /\ calls[c].outcome = None
  /\ calls' = [calls EXCEPT ![c].outcome = outcome]
  /\ UNCHANGED <<store, flight>>

Store(c) ==
  /\ calls[c].at = "leads" /\ calls[c].outcome \in Values
  /\ \E gone \in SUBSET (Keys \ {calls[c].key}) :
       store' = [k \in Keys |-> IF k = calls[c].key THEN calls[c].outcome
                                ELSE IF k \in gone THEN None ELSE store[k]]
  /\ calls' = [calls EXCEPT ![c].at = "stored"]
  /\ UNCHANGED flight

Land(c) ==
  /\ \/ calls[c].at = "stored"
     \/ calls[c].at = "leads" /\ calls[c].outcome = Failed
  /\ flight' = [flight EXCEPT ![calls[c].key] = None]
  /\ Answer(c, calls[c].outcome)
  /\ UNCHANGED store

\* A caller gives up; its flight, if it has one, ends with it.
Abandon(c) ==
  /\ calls[c].at \in {"asks", "leads"} /\ calls[c].outcome = None
  /\ calls' = [calls EXCEPT ![c] = Idle]
  /\ flight' = [k \in Keys |-> IF flight[k] = c THEN None ELSE flight[k]]
  /\ UNCHANGED store

Forget(k) ==
  /\ store' = [store EXCEPT ![k] = None]
  /\ UNCHANGED <<flight, calls>>

Next ==
  \/ \E c \in Callers :
       \/ (\E k \in Keys : Ask(c, k)) \/ Share(c) \/ Begin(c)
       \/ (\E outcome \in Values \cup {Failed} : Produce(c, outcome))
       \/ Store(c) \/ Land(c) \/ Abandon(c)
  \/ \E k \in Keys : Forget(k)

\* What may happen ...
Safety == Init /\ [][Next]_vars

\* ... and that a flight that has begun ends.
Spec ==
  /\ Safety
  /\ \A c \in Callers :
       WF_vars(\/ \E outcome \in Values \cup {Failed} : Produce(c, outcome)
               \/ Store(c) \/ Land(c))
=============================================================================
