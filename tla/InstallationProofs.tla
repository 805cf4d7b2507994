--------------------------- MODULE InstallationProofs ---------------------------
(***************************************************************************)
(* Proofs about Installation for any files, scripts, releases and number   *)
(* of proxies that start together: what the user has edited in the mirror  *)
(* survives, and the stamp tells it from what the program wrote; what the  *)
(* user has written to .zshrc stays, and what it sources is there.         *)
(***************************************************************************)
EXTENDS Installation, SequenceTheorems, FiniteSetTheorems, TLAPS

Names    == ToSet(Files)
Bodies   == {Body[f][r] : f \in Names, r \in 1 .. Releases}
Contents == Bodies \cup {Edit, Torn, None}
Hashes   == [Names -> Bodies \cup {None}]
Stamps   == [kind: {"no directory", "missing", "unreadable", "v2", "cut"}, version: Nat, hashes: Hashes]

Neutral   == {"refresh", "write", "remove", "rc", "status"}
StepTypes == [op: Neutral \cup {"stamp", "spec", "seal"},
              of: Names \cup ToSet(Scripts) \cup {None}]

\* A process, whatever it has read of .zshrc.
ProcTypes(content) ==
  [does: {"nothing", "start", "install", "uninstall"}, version: Nat, plan: Seq(StepTypes),
   phase: {"look", "write", "torn"}, stamp: Stamps, hashes: Hashes, rc: {content}]

-----------------------------------------------------------------------------
(* Plans.                                                                  *)

Has(plan, op) == \E i \in DOMAIN plan : plan[i].op = op
Ahead(plan)   == {f \in Names : \E i \in DOMAIN plan : plan[i] = Step("spec", f)}

\* The stamp is read once, before every spec, which is looked at once before the seal.
InOrder(plan) ==
  /\ \A i \in DOMAIN plan :
       /\ \/ plan[i].op \in {"stamp", "spec", "seal"}
          \/ \A j \in DOMAIN plan : i < j => plan[j].op # "seal"
          \/ \E j \in DOMAIN plan : i < j /\ plan[j].op = "stamp"
       /\ plan[i].op \in {"stamp", "spec"} => \E j \in DOMAIN plan : i < j /\ plan[j].op = "seal"
       /\ plan[i].op = "stamp" =>
            \A f \in Names : \E j \in DOMAIN plan : i < j /\ plan[j] = Step("spec", f)
       /\ plan[i].op = "spec" => plan[i].of \in Names
  /\ \A i, j \in DOMAIN plan : i < j =>
       /\ plan[i].op \in {"stamp", "spec", "seal"} => plan[j].op # "stamp"
       /\ plan[i].op = "seal" => plan[j].op \notin {"spec", "seal"}
       /\ plan[i].op = "spec" => plan[j] # plan[i]

LEMMA TailIndices ==
  ASSUME NEW plan \in Seq(StepTypes), plan # <<>>
  PROVE  /\ Tail(plan) \in Seq(StepTypes) /\ DOMAIN plan = 1 .. Len(plan) /\ Len(plan) \in Nat
         /\ DOMAIN Tail(plan) = 1 .. Len(plan) - 1 /\ Len(plan) >= 1 /\ Head(plan) = plan[1]
         /\ Head(plan) \in StepTypes
         /\ \A i \in DOMAIN Tail(plan) : i + 1 \in DOMAIN plan /\ Tail(plan)[i] = plan[i + 1]
         /\ \A i \in DOMAIN plan : i = 1 \/ (i - 1 \in DOMAIN Tail(plan)
                                             /\ Tail(plan)[i - 1] = plan[i])
<1>1. /\ Head(plan) \in StepTypes /\ Tail(plan) \in Seq(StepTypes) /\ Len(Tail(plan)) = Len(plan) - 1
      /\ \A i \in 1 .. Len(Tail(plan)) : Tail(plan)[i] = plan[i + 1]
      /\ Head(plan) = plan[1]
  BY HeadTailProperties
<1>2. DOMAIN plan = 1 .. Len(plan) /\ Len(plan) \in Nat /\ Len(plan) >= 1
  BY LenProperties, EmptySeq
<1>3. DOMAIN Tail(plan) = 1 .. Len(plan) - 1
  BY <1>1, LenProperties
<1> DEFINE rest == Tail(plan)
           n == Len(plan)
<1> HIDE DEF rest
<1>4. \A i \in 1 .. n - 1 : i + 1 \in 1 .. n /\ rest[i] = plan[i + 1]
  BY <1>1, <1>2, <1>3 DEF rest
<1>5. \A i \in 1 .. n : i = 1 \/ (i - 1 \in 1 .. n - 1 /\ (i - 1) + 1 = i)
  BY <1>2
<1> QED
  BY <1>1, <1>2, <1>3, <1>4, <1>5 DEF rest

LEMMA TailInOrder ==
  ASSUME NEW plan \in Seq(StepTypes), plan # <<>>, InOrder(plan)
  PROVE  InOrder(Tail(plan))
<1> DEFINE rest == Tail(plan)
<1>1. /\ DOMAIN rest \subseteq Nat /\ DOMAIN plan \subseteq Nat
      /\ \A i \in DOMAIN rest : i + 1 \in DOMAIN plan /\ rest[i] = plan[i + 1] /\ i + 1 > 1
      /\ \A i \in DOMAIN plan : i > 1 => i - 1 \in DOMAIN rest /\ rest[i - 1] = plan[i]
  BY TailIndices
<1> HIDE DEF rest
<1>2. \A i \in DOMAIN rest, j \in DOMAIN plan : i + 1 < j => i < j - 1 /\ j > 1
  BY <1>1
<1>3. ASSUME NEW i \in DOMAIN rest
      PROVE  /\ \/ rest[i].op \in {"stamp", "spec", "seal"}
                \/ \A j \in DOMAIN rest : i < j => rest[j].op # "seal"
                \/ \E j \in DOMAIN rest : i < j /\ rest[j].op = "stamp"
             /\ rest[i].op \in {"stamp", "spec"} =>
                  \E j \in DOMAIN rest : i < j /\ rest[j].op = "seal"
             /\ rest[i].op = "stamp" =>
                  \A f \in Names : \E j \in DOMAIN rest : i < j /\ rest[j] = Step("spec", f)
             /\ rest[i].op = "spec" => rest[i].of \in Names
  <2>1. i + 1 \in DOMAIN plan /\ rest[i] = plan[i + 1]
    BY <1>1
  <2>2. ASSUME NEW j \in DOMAIN plan, i + 1 < j
        PROVE  j - 1 \in DOMAIN rest /\ i < j - 1 /\ rest[j - 1] = plan[j]
    BY <1>1, <1>2, <2>2
  <2>3. \/ rest[i].op \in {"stamp", "spec", "seal"}
        \/ \A j \in DOMAIN rest : i < j => rest[j].op # "seal"
        \/ \E j \in DOMAIN rest : i < j /\ rest[j].op = "stamp"
    <3> SUFFICES ASSUME rest[i].op \notin {"stamp", "spec", "seal"},
                        NEW k \in DOMAIN rest, i < k, rest[k].op = "seal"
                 PROVE  \E j \in DOMAIN rest : i < j /\ rest[j].op = "stamp"
      OBVIOUS
    <3>1. k + 1 \in DOMAIN plan /\ plan[k + 1].op = "seal" /\ i + 1 < k + 1
      BY <1>1
    <3>2. PICK j \in DOMAIN plan : i + 1 < j /\ plan[j].op = "stamp"
      BY <2>1, <3>1 DEF InOrder
    <3> QED
      BY <2>2, <3>2
  <2>4. rest[i].op \in {"stamp", "spec"} => \E j \in DOMAIN rest : i < j /\ rest[j].op = "seal"
    <3> SUFFICES ASSUME rest[i].op \in {"stamp", "spec"}
                 PROVE  \E j \in DOMAIN rest : i < j /\ rest[j].op = "seal"
      OBVIOUS
    <3>1. PICK j \in DOMAIN plan : i + 1 < j /\ plan[j].op = "seal"
      BY <2>1 DEF InOrder
    <3> QED
      BY <2>2, <3>1
  <2>5. ASSUME rest[i].op = "stamp", NEW f \in Names
        PROVE  \E j \in DOMAIN rest : i < j /\ rest[j] = Step("spec", f)
    <3>1. PICK j \in DOMAIN plan : i + 1 < j /\ plan[j] = Step("spec", f)
      BY <2>1, <2>5 DEF InOrder
    <3> QED
      BY <2>2, <3>1
  <2> QED
    BY <2>1, <2>3, <2>4, <2>5 DEF InOrder
<1>4. \A i, j \in DOMAIN rest : i < j => i + 1 < j + 1
  BY <1>1
<1>5. \A i, j \in DOMAIN rest : i < j =>
        /\ rest[i].op \in {"stamp", "spec", "seal"} => rest[j].op # "stamp"
        /\ rest[i].op = "seal" => rest[j].op \notin {"spec", "seal"}
        /\ rest[i].op = "spec" => rest[j] # rest[i]
  BY <1>1, <1>4 DEF InOrder
<1> QED
  BY <1>3, <1>5 DEF InOrder, rest

\* What is left to do after a step.
LEMMA TailHas ==
  ASSUME NEW plan \in Seq(StepTypes), plan # <<>>
  PROVE  /\ \A op : Has(plan, op) <=> Head(plan).op = op \/ Has(Tail(plan), op)
         /\ \A f \in Names : f \in Ahead(plan) <=>
              Head(plan) = Step("spec", f) \/ f \in Ahead(Tail(plan))
<1> DEFINE rest == Tail(plan)
<1>1. /\ \A i \in DOMAIN rest : i + 1 \in DOMAIN plan /\ rest[i] = plan[i + 1]
      /\ \A i \in DOMAIN plan : i = 1 \/ (i - 1 \in DOMAIN rest /\ rest[i - 1] = plan[i])
      /\ Head(plan) = plan[1] /\ 1 \in DOMAIN plan
  BY TailIndices
<1> HIDE DEF rest
<1>2. \A op : Has(plan, op) <=> plan[1].op = op \/ Has(rest, op)
  BY <1>1 DEF Has
<1>3. \A f \in Names : f \in Ahead(plan) <=> plan[1] = Step("spec", f) \/ f \in Ahead(rest)
  BY <1>1 DEF Ahead
<1> QED
  BY <1>1, <1>2, <1>3 DEF rest

LEMMA NothingToDo == <<>> \in Seq(StepTypes) /\ InOrder(<<>>)
                     /\ (\A op : ~Has(<<>>, op)) /\ Ahead(<<>>) = {}
<1>1. <<>> \in Seq(StepTypes) /\ DOMAIN <<>> = {}
  BY EmptySeq
<1> QED
  BY <1>1 DEF InOrder, Has, Ahead

\* What a process is about to do, and what that says of the rest.
LEMMA HeadOfPlan ==
  ASSUME NEW plan \in Seq(StepTypes), plan # <<>>, InOrder(plan)
  PROVE  /\ Head(plan).op \in Neutral => /\ Has(plan, "seal") => Has(plan, "stamp")
                                         /\ Has(Tail(plan), "seal") => Has(Tail(plan), "stamp")
         /\ Head(plan).op = "stamp" => /\ ~Has(Tail(plan), "stamp") /\ Has(Tail(plan), "seal")
                                      /\ Ahead(Tail(plan)) = Names
         /\ Head(plan).op = "spec" =>
              /\ ~Has(plan, "stamp") /\ Has(Tail(plan), "seal")
              /\ Head(plan).of \in Names /\ Head(plan) = Step("spec", Head(plan).of)
              /\ Ahead(plan) = Ahead(Tail(plan)) \cup {Head(plan).of}
              /\ Head(plan).of \notin Ahead(Tail(plan))
         /\ Head(plan).op = "seal" => /\ ~Has(plan, "stamp") /\ ~Has(Tail(plan), "seal")
                                     /\ Ahead(plan) = {}
<1> DEFINE rest == Tail(plan)
<1>1. /\ \A i \in DOMAIN rest : i + 1 \in DOMAIN plan /\ rest[i] = plan[i + 1] /\ 1 < i + 1
      /\ \A i \in DOMAIN plan : i = 1 \/ (i - 1 \in DOMAIN rest /\ rest[i - 1] = plan[i] /\ 1 < i)
      /\ Head(plan) = plan[1] /\ 1 \in DOMAIN plan /\ plan[1] \in StepTypes
  BY TailIndices
<1>2. /\ \A op : Has(plan, op) <=> plan[1].op = op \/ Has(rest, op)
      /\ \A f \in Names : f \in Ahead(plan) <=> plan[1] = Step("spec", f) \/ f \in Ahead(rest)
  BY <1>1, TailHas
<1>3. Ahead(plan) \subseteq Names /\ Ahead(rest) \subseteq Names
  BY DEF Ahead
<1> HIDE DEF rest
<1>4. plan[1].op \in Neutral => (Has(rest, "seal") => Has(rest, "stamp"))
  <2> SUFFICES ASSUME plan[1].op \in Neutral, NEW k \in DOMAIN rest, rest[k].op = "seal"
               PROVE  Has(rest, "stamp")
    BY DEF Has
  <2>1. k + 1 \in DOMAIN plan /\ plan[k + 1].op = "seal" /\ 1 < k + 1
    BY <1>1
  <2>2. PICK j \in DOMAIN plan : 1 < j /\ plan[j].op = "stamp"
    BY <1>1, <2>1 DEF InOrder, Neutral
  <2> QED
    BY <1>1, <2>2 DEF Has
<1>5. plan[1].op \in {"stamp", "spec", "seal"} => ~Has(rest, "stamp")
  BY <1>1 DEF InOrder, Has
<1>6. plan[1].op \in {"stamp", "spec"} => Has(rest, "seal")
  BY <1>1 DEF InOrder, Has
<1>7. plan[1].op = "seal" => ~Has(rest, "seal") /\ ~Has(rest, "spec")
  BY <1>1 DEF InOrder, Has
<1>8. \A f \in Names : Step("spec", f).op = "spec" /\ Step("spec", f).of = f
  BY DEF Step
<1>9. plan[1].op = "seal" => Ahead(plan) = {}
  <2>1. Ahead(rest) # {} => Has(rest, "spec")
    BY <1>8 DEF Ahead, Has
  <2> QED
    BY <1>2, <1>3, <1>7, <1>8, <2>1
<1>10. plan[1].op = "stamp" => Ahead(rest) = Names
  BY <1>1, <1>3 DEF InOrder, Ahead
<1>11. plan[1].op = "spec" => plan[1].of \in Names /\ plan[1] = Step("spec", plan[1].of)
  BY <1>1 DEF InOrder, Step, StepTypes
<1>12. plan[1].op = "spec" => plan[1].of \notin Ahead(rest)
  BY <1>1, <1>11 DEF InOrder, Ahead
<1>13. plan[1].op = "spec" => Ahead(plan) = Ahead(rest) \cup {plan[1].of}
  BY <1>2, <1>3, <1>8, <1>11
<1> QED
  BY <1>1, <1>2, <1>4, <1>5, <1>6, <1>7, <1>9, <1>10, <1>11, <1>12, <1>13 DEF rest, Neutral

LEMMA OneStep ==
  ASSUME NEW x \in StepTypes
  PROVE  <<x>> \in Seq(StepTypes) /\ Len(<<x>>) = 1 /\ <<x>>[1] = x
OBVIOUS

Joined(a, b, c) ==
  /\ c \in Seq(StepTypes) /\ DOMAIN c = 1 .. Len(a) + Len(b)
  /\ \A i \in 1 .. Len(a) : i \in 1 .. Len(a) + Len(b) /\ c[i] = a[i]
  /\ \A i \in 1 .. Len(b) : i + Len(a) \in 1 .. Len(a) + Len(b) /\ c[i + Len(a)] = b[i]
  /\ \A i \in 1 .. Len(a) + Len(b) :
       i \in 1 .. Len(a) \/ (i - Len(a) \in 1 .. Len(b) /\ (i - Len(a)) + Len(a) = i)

LEMMA BothPlans ==
  ASSUME NEW a \in Seq(StepTypes), NEW b \in Seq(StepTypes)
  PROVE  Joined(a, b, a \o b) /\ Len(a \o b) = Len(a) + Len(b)
<1> DEFINE c == a \o b
           m == Len(a)
           n == Len(b)
<1>0. m \in Nat /\ n \in Nat
  BY LenProperties
<1>1. /\ c \in Seq(StepTypes) /\ Len(c) = m + n
      /\ \A i \in 1 .. m + n : c[i] = IF i <= m THEN a[i] ELSE b[i - m]
  BY ConcatProperties
<1>2. DOMAIN c = 1 .. m + n
  BY <1>1, LenProperties
<1> HIDE DEF m, n, c
<1>3. /\ \A i \in 1 .. m : i \in 1 .. m + n /\ i <= m
      /\ \A i \in 1 .. n : i + m \in 1 .. m + n /\ ~(i + m <= m) /\ (i + m) - m = i
      /\ \A i \in 1 .. m + n : i \in 1 .. m \/ (i - m \in 1 .. n /\ (i - m) + m = i)
  BY <1>0
<1>4. /\ \A i \in 1 .. m : c[i] = a[i]
      /\ \A i \in 1 .. n : c[i + m] = b[i]
  BY <1>1, <1>3
<1> QED
  BY <1>1, <1>2, <1>3, <1>4 DEF Joined, m, n, c

\* The plan of write_embedded_mirror
LEMMA WriteMirrorInOrder ==
  /\ WriteMirror \in Seq(StepTypes) /\ InOrder(WriteMirror) /\ Has(WriteMirror, "stamp")
  /\ \A i \in DOMAIN WriteMirror : WriteMirror[i].op \in {"stamp", "spec", "seal"}
<1> DEFINE n == Len(Files)
           w == WriteMirror
<1>1. n \in Nat /\ DOMAIN Files = 1 .. n /\ \A i \in 1 .. n : Files[i] \in Names
  <2>1. Files \in Seq(Names)
    BY ContentsAssumption DEF Names
  <2> HIDE DEF n
  <2>2. Len(Files) \in Nat /\ DOMAIN Files = 1 .. Len(Files) /\ Files \in [1 .. Len(Files) -> Names]
    BY <2>1, LenProperties
  <2> QED
    BY <2>2 DEF n
<1>2. Specs \in Seq(StepTypes) /\ Len(Specs) = n /\ \A i \in 1 .. n : Specs[i] = Step("spec", Files[i])
  <2>1. \A i \in 1 .. n : Step("spec", Files[i]) \in StepTypes
    BY <1>1 DEF Step, StepTypes
  <2> HIDE DEF n
  <2> QED
    BY <1>1, <2>1 DEF Specs
<1>3. Step("stamp", None) \in StepTypes /\ Step("seal", None) \in StepTypes
  BY DEF Step, StepTypes
<1> DEFINE a == <<Step("stamp", None)>>
           b == <<Step("seal", None)>>
<1>4. /\ a \in Seq(StepTypes) /\ Len(a) = 1 /\ a[1] = Step("stamp", None)
      /\ b \in Seq(StepTypes) /\ Len(b) = 1 /\ b[1] = Step("seal", None)
  BY <1>3, OneStep
<1>5. w = (a \o Specs) \o b
  BY DEF WriteMirror
<1> HIDE DEF a, b, n, w
<1> DEFINE c == a \o Specs
<1>6. /\ c \in Seq(StepTypes) /\ Len(c) = n + 1 /\ c[1] = Step("stamp", None)
      /\ \A i \in 1 .. n : c[i + 1] = Step("spec", Files[i])
  <2>0. Joined(a, Specs, c) /\ Len(c) = Len(a) + Len(Specs)
    BY <1>2, <1>4, BothPlans
  <2> HIDE DEF c
  <2>1. /\ c \in Seq(StepTypes) /\ Len(c) = 1 + n /\ \A i \in 1 .. 1 : c[i] = a[i]
        /\ \A i \in 1 .. n : c[i + 1] = Specs[i]
    BY <1>2, <1>4, <2>0 DEF Joined
  <2>2. c[1] = a[1] /\ 1 + n = n + 1
    BY <1>1, <2>1
  <2> QED
    BY <1>2, <1>4, <2>1, <2>2
<1> HIDE DEF c
<1>7. n + 1 \in Nat /\ 1 \in 1 .. 1 /\ 1 + (n + 1) = n + 2 /\ (n + 1) + 1 = n + 2
      /\ \A i \in 1 .. n + 1 : i = 1 \/ i - 1 \in 1 .. n
  BY <1>1
<1>8. /\ w \in Seq(StepTypes) /\ DOMAIN w = 1 .. n + 2 /\ w[n + 2] = b[1]
      /\ \A i \in 1 .. n + 1 : w[i] = c[i]
  <2>0. Joined(c, b, w)
    BY <1>4, <1>5, <1>6, BothPlans DEF c
  <2>1. /\ w \in Seq(StepTypes) /\ DOMAIN w = 1 .. (n + 1) + 1
        /\ \A i \in 1 .. n + 1 : w[i] = c[i]
        /\ \A i \in 1 .. 1 : w[i + (n + 1)] = b[i]
    BY <1>4, <1>6, <2>0 DEF Joined
  <2>2. w[1 + (n + 1)] = b[1]
    BY <1>7, <2>1
  <2> QED
    BY <1>7, <2>1, <2>2
<1>9. /\ w[1] = Step("stamp", None) /\ w[n + 2] = Step("seal", None)
      /\ \A i \in 2 .. n + 1 : w[i] = Step("spec", Files[i - 1]) /\ Files[i - 1] \in Names
                              /\ i - 1 \in 1 .. n
  <2>1. /\ 1 \in 1 .. n + 1
        /\ \A i \in 2 .. n + 1 : i \in 1 .. n + 1 /\ i - 1 \in 1 .. n /\ (i - 1) + 1 = i
    BY <1>1
  <2> QED
    BY <1>1, <1>4, <1>6, <1>8, <2>1
<1>10. \A i \in DOMAIN w : i = 1 \/ i \in 2 .. n + 1 \/ i = n + 2
  BY <1>1, <1>8
<1>11. /\ \A op, f : Step(op, f).op = op /\ Step(op, f).of = f
  BY DEF Step
<1>12. 1 \in DOMAIN w /\ n + 2 \in DOMAIN w /\ 1 < n + 2 /\ \A i \in 2 .. n + 1 : 1 < i /\ i < n + 2
  BY <1>1, <1>8
<1>13. \A f \in Names : \E j \in 2 .. n + 1 : w[j] = Step("spec", f) /\ j \in DOMAIN w
  <2> SUFFICES ASSUME NEW f \in Names
               PROVE  \E j \in 2 .. n + 1 : w[j] = Step("spec", f) /\ j \in DOMAIN w
    OBVIOUS
  <2>1. PICK i \in 1 .. n : Files[i] = f
    BY <1>1 DEF Names, ToSet
  <2>2. i + 1 \in 2 .. n + 1 /\ (i + 1) - 1 = i /\ i + 1 \in DOMAIN w
    BY <1>1, <1>8
  <2> QED
    BY <1>9, <2>1, <2>2
<1>14. \A i \in DOMAIN w :
         /\ w[i].op \in {"stamp", "spec", "seal"}
         /\ w[i].op \in {"stamp", "spec"} => \E j \in DOMAIN w : i < j /\ w[j].op = "seal"
         /\ w[i].op = "stamp" =>
              \A f \in Names : \E j \in DOMAIN w : i < j /\ w[j] = Step("spec", f)
         /\ w[i].op = "spec" => w[i].of \in Names
  <2> SUFFICES ASSUME NEW i \in DOMAIN w
               PROVE /\ w[i].op \in {"stamp", "spec", "seal"}
                     /\ w[i].op \in {"stamp", "spec"} => i < n + 2
                     /\ w[i].op = "stamp" => i = 1
                     /\ w[i].op = "spec" => w[i].of \in Names
    BY <1>9, <1>11, <1>12, <1>13
  <2> QED
    BY <1>9, <1>10, <1>11, <1>12
<1>15. ASSUME NEW i \in DOMAIN w, NEW j \in DOMAIN w, i < j
       PROVE  /\ w[i].op \in {"stamp", "spec", "seal"} => w[j].op # "stamp"
              /\ w[i].op = "seal" => w[j].op \notin {"spec", "seal"}
              /\ w[i].op = "spec" => w[j] # w[i]
  <2>1. j \in 2 .. n + 1 \/ j = n + 2
    BY <1>8, <1>10, <1>15
  <2>2. w[j].op \in {"spec", "seal"}
    BY <1>9, <1>11, <2>1
  <2>3. w[i].op # "seal"
    BY <1>1, <1>8, <1>9, <1>10, <1>11, <1>15
  <2>4. CASE i \in 2 .. n + 1 /\ j \in 2 .. n + 1
    <3>1. i - 1 \in 1 .. n /\ j - 1 \in 1 .. n /\ i - 1 # j - 1
      BY <1>1, <1>15, <2>4
    <3>2. Files[i - 1] # Files[j - 1]
      BY <1>1, <3>1, ContentsAssumption
    <3> QED
      BY <1>9, <1>11, <2>2, <2>3, <2>4, <3>2
  <2>5. CASE j = n + 2
    BY <1>9, <1>11, <2>2, <2>3, <2>5
  <2>6. CASE i = 1
    BY <1>9, <1>11, <2>2, <2>3, <2>6
  <2>7. i # n + 2
    BY <1>1, <1>8, <1>15
  <2> QED
    BY <1>10, <2>1, <2>4, <2>5, <2>6, <2>7
<1>16. InOrder(w)
  BY <1>14, <1>15 DEF InOrder
<1> QED
  BY <1>8, <1>9, <1>11, <1>12, <1>14, <1>16 DEF w, Has

\* What a process has to do besides is done before the stamp is read or after it is sealed.
LEMMA BeforeInOrder ==
  ASSUME NEW a \in Seq(StepTypes), NEW b \in Seq(StepTypes), InOrder(b),
         \A i \in DOMAIN a : a[i].op \in Neutral, Has(b, "seal") => Has(b, "stamp")
  PROVE  /\ a \o b \in Seq(StepTypes) /\ InOrder(a \o b)
         /\ Has(a \o b, "seal") => Has(a \o b, "stamp")
         /\ Has(a \o b, "stamp") <=> Has(b, "stamp")
<1> DEFINE c == a \o b
           m == Len(a)
           n == Len(b)
<1>1. m \in Nat /\ DOMAIN a = 1 .. m /\ n \in Nat /\ DOMAIN b = 1 .. n /\ Joined(a, b, c)
  BY LenProperties, BothPlans
<1> HIDE DEF c
<1>2. /\ c \in Seq(StepTypes) /\ DOMAIN c = 1 .. m + n
      /\ \A i \in 1 .. m : i \in 1 .. m + n /\ c[i] = a[i]
      /\ \A i \in 1 .. n : i + m \in 1 .. m + n /\ c[i + m] = b[i]
      /\ \A i \in 1 .. m + n : i \in 1 .. m \/ (i - m \in 1 .. n /\ (i - m) + m = i)
  BY <1>1 DEF Joined
<1> HIDE DEF m, n
<1> DEFINE Second(i) == \E k \in DOMAIN b : i = k + m
<1>3. \A i \in DOMAIN c : (i \in 1 .. m /\ c[i].op \in Neutral) \/ Second(i)
  BY <1>1, <1>2
<1>4. \A k \in DOMAIN b : k + m \in DOMAIN c /\ c[k + m] = b[k] /\ \A i \in 1 .. m : i < k + m
  BY <1>1, <1>2
<1>5. \A k, l \in DOMAIN b : k < l <=> k + m < l + m
  BY <1>1
<1>6. \A i \in DOMAIN c, j \in DOMAIN c : Second(i) /\ i < j => Second(j)
  BY <1>1, <1>2, <1>3, <1>4
<1>7. \A op : op \notin Neutral => (Has(c, op) <=> Has(b, op))
  BY <1>3, <1>4 DEF Has
<1>8. "stamp" \notin Neutral /\ "seal" \notin Neutral /\ "spec" \notin Neutral
  BY DEF Neutral
<1> HIDE DEF Second
<1>9. ASSUME NEW i \in DOMAIN c
      PROVE  /\ \/ c[i].op \in {"stamp", "spec", "seal"}
                \/ \A j \in DOMAIN c : i < j => c[j].op # "seal"
                \/ \E j \in DOMAIN c : i < j /\ c[j].op = "stamp"
             /\ c[i].op \in {"stamp", "spec"} => \E j \in DOMAIN c : i < j /\ c[j].op = "seal"
             /\ c[i].op = "stamp" =>
                  \A f \in Names : \E j \in DOMAIN c : i < j /\ c[j] = Step("spec", f)
             /\ c[i].op = "spec" => c[i].of \in Names
  <2>1. CASE i \in 1 .. m /\ c[i].op \in Neutral
    <3>1. c[i].op \notin {"stamp", "spec", "seal"}
      BY <1>8, <2>1
    <3>2. ASSUME Has(c, "seal") PROVE \E j \in DOMAIN c : i < j /\ c[j].op = "stamp"
      <4>1. PICK k \in DOMAIN b : b[k].op = "stamp"
        BY <1>7, <1>8, <3>2 DEF Has
      <4> QED
        BY <1>4, <2>1, <4>1
    <3> QED
      BY <3>1, <3>2 DEF Has
  <2>2. CASE Second(i)
    <3>1. PICK k \in DOMAIN b : i = k + m
      BY <2>2 DEF Second
    <3>2. c[i] = b[k]
      BY <1>4, <3>1
    <3>3. \A l \in DOMAIN b : k < l => l + m \in DOMAIN c /\ i < l + m /\ c[l + m] = b[l]
      BY <1>4, <1>5, <3>1
    <3>4. ASSUME NEW j \in DOMAIN c, i < j
          PROVE  \E l \in DOMAIN b : k < l /\ c[j] = b[l]
      <4>1. PICK l \in DOMAIN b : j = l + m
        BY <1>6, <2>2, <3>4 DEF Second
      <4> QED
        BY <1>4, <1>5, <3>1, <3>4, <4>1
    <3>5. /\ \/ b[k].op \in {"stamp", "spec", "seal"}
             \/ \A l \in DOMAIN b : k < l => b[l].op # "seal"
             \/ \E l \in DOMAIN b : k < l /\ b[l].op = "stamp"
          /\ b[k].op \in {"stamp", "spec"} => \E l \in DOMAIN b : k < l /\ b[l].op = "seal"
          /\ b[k].op = "stamp" =>
               \A f \in Names : \E l \in DOMAIN b : k < l /\ b[l] = Step("spec", f)
          /\ b[k].op = "spec" => b[k].of \in Names
      BY DEF InOrder
    <3>6. \/ c[i].op \in {"stamp", "spec", "seal"}
          \/ \A j \in DOMAIN c : i < j => c[j].op # "seal"
          \/ \E j \in DOMAIN c : i < j /\ c[j].op = "stamp"
      BY <3>2, <3>3, <3>4, <3>5
    <3>7. c[i].op \in {"stamp", "spec"} => \E j \in DOMAIN c : i < j /\ c[j].op = "seal"
      BY <3>2, <3>3, <3>5
    <3>8. c[i].op = "stamp" =>
            \A f \in Names : \E j \in DOMAIN c : i < j /\ c[j] = Step("spec", f)
      BY <3>2, <3>3, <3>5
    <3> QED
      BY <3>2, <3>5, <3>6, <3>7, <3>8
  <2> QED
    BY <1>3, <2>1, <2>2
<1>10. ASSUME NEW i \in DOMAIN c, NEW j \in DOMAIN c, i < j
       PROVE  /\ c[i].op \in {"stamp", "spec", "seal"} => c[j].op # "stamp"
              /\ c[i].op = "seal" => c[j].op \notin {"spec", "seal"}
              /\ c[i].op = "spec" => c[j] # c[i]
  <2>1. CASE c[i].op \in Neutral
    BY <1>8, <2>1
  <2>2. CASE Second(i)
    <3>1. PICK k \in DOMAIN b : i = k + m
      BY <2>2 DEF Second
    <3>2. PICK l \in DOMAIN b : j = l + m
      BY <1>6, <1>10, <2>2 DEF Second
    <3>3. c[i] = b[k] /\ c[j] = b[l] /\ k < l
      BY <1>4, <1>5, <1>10, <3>1, <3>2
    <3> QED
      BY <3>3 DEF InOrder
  <2> QED
    BY <1>3, <2>1, <2>2
<1>11. InOrder(c)
  BY <1>9, <1>10 DEF InOrder
<1> QED
  BY <1>2, <1>7, <1>8, <1>11 DEF c

LEMMA AfterInOrder ==
  ASSUME NEW a \in Seq(StepTypes), NEW b \in Seq(StepTypes), InOrder(a),
         \A i \in DOMAIN b : b[i].op \in Neutral
  PROVE  /\ a \o b \in Seq(StepTypes) /\ InOrder(a \o b)
         /\ Has(a \o b, "seal") <=> Has(a, "seal")
         /\ Has(a \o b, "stamp") <=> Has(a, "stamp")
<1> DEFINE c == a \o b
           m == Len(a)
           n == Len(b)
<1>1. m \in Nat /\ DOMAIN a = 1 .. m /\ n \in Nat /\ DOMAIN b = 1 .. n /\ Joined(a, b, c)
  BY LenProperties, BothPlans
<1> HIDE DEF c
<1>2. /\ c \in Seq(StepTypes) /\ DOMAIN c = 1 .. m + n
      /\ \A i \in 1 .. m : i \in 1 .. m + n /\ c[i] = a[i]
      /\ \A i \in 1 .. n : i + m \in 1 .. m + n /\ c[i + m] = b[i]
      /\ \A i \in 1 .. m + n : i \in 1 .. m \/ (i - m \in 1 .. n /\ (i - m) + m = i)
  BY <1>1 DEF Joined
<1> HIDE DEF m, n
<1>3. \A i \in DOMAIN a : i \in DOMAIN c /\ c[i] = a[i]
  BY <1>1, <1>2
<1>4. \A i \in DOMAIN c : i \in DOMAIN a \/ c[i].op \in Neutral
  BY <1>1, <1>2
<1>5. \A i \in DOMAIN c, j \in DOMAIN c : i < j => i \in DOMAIN a \/ j \notin DOMAIN a
  BY <1>1, <1>2
<1>6. "stamp" \notin Neutral /\ "seal" \notin Neutral /\ "spec" \notin Neutral
  BY DEF Neutral
<1>7. \A op : op \notin Neutral => (Has(c, op) <=> Has(a, op))
  BY <1>3, <1>4 DEF Has
<1>8. ASSUME NEW i \in DOMAIN c
      PROVE  /\ \/ c[i].op \in {"stamp", "spec", "seal"}
                \/ \A j \in DOMAIN c : i < j => c[j].op # "seal"
                \/ \E j \in DOMAIN c : i < j /\ c[j].op = "stamp"
             /\ c[i].op \in {"stamp", "spec"} => \E j \in DOMAIN c : i < j /\ c[j].op = "seal"
             /\ c[i].op = "stamp" =>
                  \A f \in Names : \E j \in DOMAIN c : i < j /\ c[j] = Step("spec", f)
             /\ c[i].op = "spec" => c[i].of \in Names
  <2>1. CASE i \notin DOMAIN a
    BY <1>4, <1>5, <1>6, <2>1
  <2>2. CASE i \in DOMAIN a
    <3>1. c[i] = a[i]
      BY <1>3, <2>2
    <3>2. /\ \/ a[i].op \in {"stamp", "spec", "seal"}
             \/ \A l \in DOMAIN a : i < l => a[l].op # "seal"
             \/ \E l \in DOMAIN a : i < l /\ a[l].op = "stamp"
          /\ a[i].op \in {"stamp", "spec"} => \E l \in DOMAIN a : i < l /\ a[l].op = "seal"
          /\ a[i].op = "stamp" =>
               \A f \in Names : \E l \in DOMAIN a : i < l /\ a[l] = Step("spec", f)
          /\ a[i].op = "spec" => a[i].of \in Names
      BY <2>2 DEF InOrder
    <3>3. \/ c[i].op \in {"stamp", "spec", "seal"}
          \/ \A j \in DOMAIN c : i < j => c[j].op # "seal"
          \/ \E j \in DOMAIN c : i < j /\ c[j].op = "stamp"
      BY <1>3, <1>4, <1>6, <3>1, <3>2
    <3>4. c[i].op \in {"stamp", "spec"} => \E j \in DOMAIN c : i < j /\ c[j].op = "seal"
      BY <1>3, <3>1, <3>2
    <3>5. c[i].op = "stamp" =>
            \A f \in Names : \E j \in DOMAIN c : i < j /\ c[j] = Step("spec", f)
      BY <1>3, <3>1, <3>2
    <3> QED
      BY <3>1, <3>2, <3>3, <3>4, <3>5
  <2> QED
    BY <2>1, <2>2
<1>9. ASSUME NEW i \in DOMAIN c, NEW j \in DOMAIN c, i < j
      PROVE  /\ c[i].op \in {"stamp", "spec", "seal"} => c[j].op # "stamp"
             /\ c[i].op = "seal" => c[j].op \notin {"spec", "seal"}
             /\ c[i].op = "spec" => c[j] # c[i]
  <2>1. CASE c[i].op \in Neutral
    BY <1>6, <2>1
  <2>2. CASE c[j].op \in Neutral
    BY <1>6, <2>2
  <2>3. CASE i \in DOMAIN a /\ j \in DOMAIN a
    <3>1. c[i] = a[i] /\ c[j] = a[j]
      BY <1>3, <2>3
    <3> QED
      BY <1>9, <2>3, <3>1 DEF InOrder
  <2> QED
    BY <1>4, <2>1, <2>2, <2>3
<1>10. InOrder(c)
  BY <1>8, <1>9 DEF InOrder
<1> QED
  BY <1>2, <1>6, <1>7, <1>10 DEF c

LEMMA EachNeutral ==
  ASSUME NEW op \in Neutral
  PROVE  Each(op) \in Seq(StepTypes) /\ \A i \in DOMAIN Each(op) : Each(op)[i].op \in Neutral
<1> DEFINE n == Len(Scripts)
<1>1. n \in Nat /\ DOMAIN Scripts = 1 .. n /\ \A i \in 1 .. n : Scripts[i] \in ToSet(Scripts)
  BY ContentsAssumption, LenProperties
<1> HIDE DEF n
<1>2. \A i \in 1 .. n : Step(op, Scripts[i]) \in StepTypes /\ Step(op, Scripts[i]).op = op
  BY <1>1 DEF Step, StepTypes
<1> QED
  BY <1>1, <1>2 DEF Each

LEMMA OneNeutral ==
  ASSUME NEW op \in Neutral
  PROVE  /\ <<Step(op, None)>> \in Seq(StepTypes)
         /\ \A i \in DOMAIN <<Step(op, None)>> : <<Step(op, None)>>[i].op \in Neutral
<1>1. Step(op, None) \in StepTypes /\ Step(op, None).op = op
  BY DEF Step, StepTypes
<1> QED
  BY <1>1

\* A plan with nothing but such steps
LEMMA NeutralInOrder ==
  ASSUME NEW a \in Seq(StepTypes), \A i \in DOMAIN a : a[i].op \in Neutral
  PROVE  InOrder(a) /\ ~Has(a, "seal") /\ ~Has(a, "stamp")
BY DEF InOrder, Has, Neutral

LEMMA PlanInOrder ==
  ASSUME NEW does \in {"start", "install", "uninstall"}
  PROVE  /\ Plan(does) \in Seq(StepTypes) /\ InOrder(Plan(does))
         /\ Has(Plan(does), "seal") => Has(Plan(does), "stamp")
<1>1. /\ "refresh" \in Neutral /\ "status" \in Neutral /\ "write" \in Neutral
      /\ "rc" \in Neutral /\ "remove" \in Neutral
  BY DEF Neutral
<1>2. WriteMirror \in Seq(StepTypes) /\ InOrder(WriteMirror) /\ Has(WriteMirror, "stamp")
  BY WriteMirrorInOrder
<1>3. CASE does = "start"
  <2> DEFINE s == <<Step("status", None)>>
             w == s \o WriteMirror
             e == Each("refresh")
  <2>1. s \in Seq(StepTypes) /\ \A i \in DOMAIN s : s[i].op \in Neutral
    BY <1>1, OneNeutral
  <2>2. e \in Seq(StepTypes) /\ \A i \in DOMAIN e : e[i].op \in Neutral
    BY <1>1, EachNeutral
  <2> HIDE DEF s, e
  <2>3. w \in Seq(StepTypes) /\ InOrder(w) /\ Has(w, "stamp")
    BY <1>2, <2>1, BeforeInOrder
  <2>4. Plan(does) = e \o (s \o WriteMirror)
    <3>1. Plan(does) = (e \o s) \o WriteMirror
      BY <1>3 DEF Plan, Refresh, e, s
    <3> QED
      BY <1>2, <2>1, <2>2, <3>1, ConcatAssociative
  <2> HIDE DEF w
  <2>5. e \o w \in Seq(StepTypes) /\ InOrder(e \o w) /\ (Has(e \o w, "seal") => Has(e \o w, "stamp"))
    BY <2>2, <2>3, BeforeInOrder
  <2> QED
    BY <2>4, <2>5 DEF w
<1>4. CASE does = "install"
  <2> DEFINE r == <<Step("rc", None)>>
             e == Each("write")
             w == e \o WriteMirror
  <2>1. r \in Seq(StepTypes) /\ \A i \in DOMAIN r : r[i].op \in Neutral
    BY <1>1, OneNeutral
  <2>2. e \in Seq(StepTypes) /\ \A i \in DOMAIN e : e[i].op \in Neutral
    BY <1>1, EachNeutral
  <2> HIDE DEF r, e
  <2>3. w \in Seq(StepTypes) /\ InOrder(w) /\ Has(w, "stamp")
    BY <1>2, <2>2, BeforeInOrder
  <2>4. Plan(does) = w \o r
    BY <1>4 DEF Plan, e, r
  <2> HIDE DEF w
  <2> QED
    BY <2>1, <2>3, <2>4, AfterInOrder
<1>5. CASE does = "uninstall"
  <2> DEFINE r == <<Step("rc", None)>>
             e == Each("remove")
  <2>1. r \in Seq(StepTypes) /\ \A i \in DOMAIN r : r[i].op \in Neutral
    BY <1>1, OneNeutral
  <2>2. e \in Seq(StepTypes) /\ \A i \in DOMAIN e : e[i].op \in Neutral
    BY <1>1, EachNeutral
  <2>3. Plan(does) = r \o e
    BY <1>5 DEF Plan, Uninstall
  <2> HIDE DEF r, e
  <2>4. InOrder(e) /\ ~Has(e, "seal") /\ ~Has(e, "stamp")
    BY <2>2, NeutralInOrder
  <2>5. /\ r \o e \in Seq(StepTypes) /\ InOrder(r \o e)
        /\ Has(r \o e, "seal") => Has(r \o e, "stamp")
    BY <2>1, <2>2, <2>4, BeforeInOrder
  <2> QED
    BY <2>3, <2>5
<1> QED
  BY <1>3, <1>4, <1>5

-----------------------------------------------------------------------------
(* The inductive invariant.                                                *)

NoStamp == [f \in Names |-> None]

StampOK(s) == s \in Stamps /\ (~Parses(s) => s.hashes = NoStamp)

ProcOK(d) ==
  /\ d \in ProcTypes(d.rc) /\ InOrder(d.plan) /\ StampOK(d.stamp)
  /\ d.plan # <<>> => d.version \in 1 .. Releases

TypeOK ==
  /\ release \in 1 .. Releases
  /\ mirror \in [Names -> Contents]
  /\ StampOK(stamp)
  /\ proc = [p \in Procs |-> proc[p]] /\ \A p \in Procs : ProcOK(proc[p])
  /\ history \in [lines: {history.lines}, mine: SUBSET Names, kept: SUBSET Names,
                  disturbed: BOOLEAN]

\* Begun(p): it has read the stamp, and has yet to write it.
Begins(d) == Has(d.plan, "seal") /\ ~Has(d.plan, "stamp")

\* It has looked at the file and is about to write it.
InHand(d, f) == d.plan # <<>> /\ Head(d.plan) = Step("spec", f) /\ d.phase # "look"

\* What has been edited on top of a stamp stays known as edited: to the stamp, to those
\* that have read it and, for the files they have looked at, in what they will write.
Keeps ==
  \A f \in history.kept :
    /\ mirror[f] = Edit
    /\ stamp.kind \in {"unreadable", "cut", "v2"} /\ (stamp.kind = "v2" => stamp.hashes[f] # None)
    /\ \A p \in Procs : Begins(proc[p]) =>
         /\ proc[p].stamp.hashes[f] # None /\ ~InHand(proc[p], f)
         /\ f \in Ahead(proc[p].plan) \/ proc[p].hashes[f] # None

\* A file differs from the content last written to it only by the hand of the user.
Told(files, mine, hash, f) == files[f] \notin {None, hash} => f \in mine

Tells ==
  ~history.disturbed =>
    /\ \A p, q \in Procs : Begins(proc[p]) /\ Begins(proc[q]) => p = q
    /\ (\A p \in Procs : ~Begins(proc[p])) =>
         \A f \in Names : stamp.hashes[f] # None => Told(mirror, history.mine, stamp.hashes[f], f)
    /\ \A p \in Procs, f \in Names : Begins(proc[p]) =>
         IF InHand(proc[p], f) THEN proc[p].hashes[f] = Body[f][proc[p].version]
         ELSE IF f \in Ahead(proc[p].plan)
         THEN proc[p].stamp.hashes[f] # None => Told(mirror, history.mine, proc[p].stamp.hashes[f], f)
         ELSE Told(mirror, history.mine, proc[p].hashes[f], f)

Mirrored == TypeOK /\ Keeps /\ Tells

LEMMA Constants ==
  /\ Names = DOMAIN [f \in Names |-> None] /\ NoStamp \in Hashes
  /\ \A f \in Names, r \in 1 .. Releases : Body[f][r] \in Bodies
  /\ \A b \in Bodies : b \notin {Edit, Torn, None}
  /\ Edit \notin {Torn, None} /\ Torn # None /\ Releases \in Nat /\ 1 \in 1 .. Releases
BY BoundsAssumption, ContentsAssumption DEF NoStamp, Hashes, Bodies, Names

LEMMA StampKinds ==
  ASSUME NEW kind \in {"no directory", "missing", "unreadable", "cut"}
  PROVE  StampOK(Stamp(kind)) /\ Stamp(kind).kind = kind /\ Stamp(kind).hashes = NoStamp
BY Constants DEF Stamp, StampOK, Stamps, NoStamp, Names

LEMMA EndedOK == ProcOK(Ended) /\ ~Begins(Ended) /\ Ended.plan = <<>>
<1>1. StampOK(Stamp("missing"))
  BY StampKinds
<1>2. Ended.plan = <<>> /\ Ended.stamp = Stamp("missing")
  BY DEF Ended
<1>3. Ended \in ProcTypes(Ended.rc)
  BY <1>1, NothingToDo, Constants DEF Ended, ProcTypes, StampOK, NoStamp, Names
<1> QED
  BY <1>1, <1>2, <1>3, NothingToDo DEF ProcOK, Begins

\* A process goes on to its next step.
LEMMA DoneOK ==
  ASSUME NEW d, ProcOK(d), d.plan # <<>>
  PROVE  /\ ProcOK(Done(d)) /\ Done(d).plan = Tail(d.plan) /\ Done(d).phase = "look"
         /\ Done(d).plan # <<>> => /\ Done(d).version = d.version /\ Done(d).stamp = d.stamp
                                   /\ Done(d).hashes = d.hashes
<1>1. d \in ProcTypes(d.rc) /\ InOrder(d.plan) /\ StampOK(d.stamp) /\ d.version \in 1 .. Releases
  BY DEF ProcOK
<1>2. d.plan \in Seq(StepTypes)
  BY <1>1 DEF ProcTypes
<1>3. Tail(d.plan) \in Seq(StepTypes) /\ InOrder(Tail(d.plan))
  BY <1>1, <1>2, TailIndices, TailInOrder
<1>4. CASE Len(d.plan) = 1
  <2>1. Tail(d.plan) = <<>>
    <3>1. Len(Tail(d.plan)) = Len(d.plan) - 1
      BY <1>2, HeadTailProperties
    <3>2. Len(Tail(d.plan)) = 0
      BY <1>4, <3>1
    <3> QED
      BY <1>3, <3>2, EmptySeq
  <2> QED
    BY <1>4, <2>1, EndedOK DEF Done, Ended
<1>5. CASE Len(d.plan) # 1
  <2> DEFINE e == [d EXCEPT !.plan = Tail(@), !.phase = "look"]
  <2>1. Done(d) = e
    BY <1>5 DEF Done
  <2>2. /\ e.plan = Tail(d.plan) /\ e.phase = "look" /\ e.version = d.version
        /\ e.stamp = d.stamp /\ e.hashes = d.hashes /\ e.rc = d.rc
        /\ e \in ProcTypes(d.rc)
    BY <1>1, <1>3 DEF ProcTypes
  <2> HIDE DEF e
  <2>3. ProcOK(e)
    BY <1>1, <1>3, <2>2 DEF ProcOK
  <2> QED
    BY <2>1, <2>2, <2>3
<1> QED
  BY <1>4, <1>5

LEMMA PhaseOK ==
  ASSUME NEW d, ProcOK(d), NEW ph \in {"look", "write", "torn"}
  PROVE  LET e == [d EXCEPT !.phase = ph] IN
         /\ ProcOK(e) /\ e.phase = ph /\ e.plan = d.plan /\ e.version = d.version
         /\ e.stamp = d.stamp /\ e.hashes = d.hashes
<1> DEFINE e == [d EXCEPT !.phase = ph]
<1>1. /\ e.phase = ph /\ e.plan = d.plan /\ e.version = d.version /\ e.stamp = d.stamp
      /\ e.hashes = d.hashes /\ e.rc = d.rc /\ e \in ProcTypes(d.rc)
  BY DEF ProcOK, ProcTypes
<1> HIDE DEF e
<1>2. ProcOK(e)
  BY <1>1 DEF ProcOK
<1> QED
  BY <1>1, <1>2 DEF e

LEMMA RcOK ==
  ASSUME NEW d, ProcOK(d), NEW content
  PROVE  ProcOK([d EXCEPT !.rc = content]) /\ [d EXCEPT !.rc = content].plan = d.plan
<1> DEFINE e == [d EXCEPT !.rc = content]
<1>1. /\ e.plan = d.plan /\ e.version = d.version /\ e.stamp = d.stamp /\ e.rc = content
      /\ e \in ProcTypes(content)
  BY DEF ProcOK, ProcTypes
<1> HIDE DEF e
<1>2. ProcOK(e)
  BY <1>1 DEF ProcOK
<1> QED
  BY <1>1, <1>2 DEF e

LEMMA OneMoves ==
  ASSUME TypeOK, NEW p \in Procs, NEW e, ProcOK(e), proc' = [proc EXCEPT ![p] = e]
  PROVE  /\ proc' = [q \in Procs |-> proc'[q]] /\ \A q \in Procs : ProcOK(proc'[q])
         /\ proc'[p] = e /\ \A q \in Procs : q # p => proc'[q] = proc[q]
BY DEF TypeOK

\* A process before, or after, it has to do with the mirror.
LEMMA NeutralHead ==
  ASSUME NEW d, ProcOK(d), d.plan # <<>>, Head(d.plan).op \in Neutral
  PROVE  ~Begins(d) /\ ~Begins(Done(d))
<1>1. d.plan \in Seq(StepTypes) /\ InOrder(d.plan)
  BY DEF ProcOK, ProcTypes
<1> QED
  BY <1>1, HeadOfPlan, DoneOK DEF Begins

-----------------------------------------------------------------------------
(* Steps that leave the mirror alone.                                      *)

\* Of the history only the lines of .zshrc may be others.
OnlyLines == history' = history \/ \E lines : history' = [history EXCEPT !.lines = lines]

Calm(p) ==
  /\ \E e : ProcOK(e) /\ ~Begins(e) /\ proc' = [proc EXCEPT ![p] = e]
  /\ ~Begins(proc[p])
  /\ UNCHANGED <<release, mirror, stamp>> /\ OnlyLines

LEMMA HistoryOK ==
  ASSUME TypeOK, OnlyLines
  PROVE  /\ history' \in [lines: {history'.lines}, mine: SUBSET Names, kept: SUBSET Names,
                          disturbed: BOOLEAN]
         /\ history'.mine = history.mine /\ history'.kept = history.kept
         /\ history'.disturbed = history.disturbed
BY DEF TypeOK, OnlyLines

LEMMA QuietKeeps ==
  ASSUME Keeps, \A p \in Procs : Begins(proc'[p]) => proc'[p] = proc[p],
         mirror' = mirror, stamp' = stamp, history'.kept = history.kept
  PROVE  Keeps'
BY DEF Keeps

LEMMA QuietTells ==
  ASSUME Tells, \A p \in Procs : proc'[p] = proc[p] \/ (~Begins(proc[p]) /\ ~Begins(proc'[p])),
         mirror' = mirror, stamp' = stamp, history'.mine = history.mine,
         history'.disturbed = history.disturbed
  PROVE  Tells'
<1> SUFFICES ASSUME ~history.disturbed
             PROVE  Tells'
  BY DEF Tells
<1>1. \A p \in Procs : Begins(proc'[p]) => proc'[p] = proc[p]
  OBVIOUS
<1>2. \A p \in Procs : Begins(proc[p]) <=> Begins(proc'[p])
  OBVIOUS
<1>4. \A p, q \in Procs : Begins(proc'[p]) /\ Begins(proc'[q]) => p = q
  BY <1>2 DEF Tells
<1>5. (\A p \in Procs : ~Begins(proc'[p])) =>
        \A f \in Names : stamp'.hashes[f] # None =>
          Told(mirror', history'.mine, stamp'.hashes[f], f)
  BY <1>2 DEF Tells, Told
<1>6. ASSUME NEW p \in Procs, NEW f \in Names, Begins(proc'[p])
      PROVE  IF InHand(proc'[p], f) THEN proc'[p].hashes[f] = Body[f][proc'[p].version]
             ELSE IF f \in Ahead(proc'[p].plan)
             THEN proc'[p].stamp.hashes[f] # None => Told(mirror', history'.mine, proc'[p].stamp.hashes[f], f)
             ELSE Told(mirror', history'.mine, proc'[p].hashes[f], f)
  <2>1. proc'[p] = proc[p]
    BY <1>1, <1>6
  <2> QED
    BY <1>6, <2>1 DEF Tells, Told
<1> QED
  BY <1>4, <1>5, <1>6 DEF Tells

LEMMA CalmMirrored ==
  ASSUME Mirrored, NEW p \in Procs, Calm(p)
  PROVE  Mirrored'
<1>1. PICK e : ProcOK(e) /\ ~Begins(e) /\ proc' = [proc EXCEPT ![p] = e]
  BY DEF Calm
<1>2. /\ proc' = [q \in Procs |-> proc'[q]] /\ \A q \in Procs : ProcOK(proc'[q])
      /\ proc'[p] = e /\ \A q \in Procs : q # p => proc'[q] = proc[q]
  BY <1>1, OneMoves DEF Mirrored
<1>3. /\ history' \in [lines: {history'.lines}, mine: SUBSET Names, kept: SUBSET Names,
                       disturbed: BOOLEAN]
      /\ history'.mine = history.mine /\ history'.kept = history.kept
      /\ history'.disturbed = history.disturbed
  BY HistoryOK DEF Mirrored, Calm
<1>4. TypeOK'
  BY <1>2, <1>3 DEF Mirrored, TypeOK, Calm
<1>5. ~Begins(proc[p]) /\ ~Begins(proc'[p])
  BY <1>1, <1>2 DEF Calm
<1>6. Keeps'
  BY <1>2, <1>3, <1>5, QuietKeeps DEF Mirrored, Calm
<1>7. Tells'
  BY <1>2, <1>3, <1>5, QuietTells DEF Mirrored, Calm
<1> QED
  BY <1>4, <1>6, <1>7 DEF Mirrored

LEMMA LaunchCalm ==
  ASSUME TypeOK, NEW p \in Procs, NEW does \in {"start", "install", "uninstall"}, Launch(p, does)
  PROVE  Calm(p)
<1> DEFINE e == [Ended EXCEPT !.does = does, !.version = release, !.plan = Plan(does)]
<1>1. /\ Plan(does) \in Seq(StepTypes) /\ InOrder(Plan(does))
      /\ Has(Plan(does), "seal") => Has(Plan(does), "stamp")
  BY PlanInOrder
<1>2. release \in 1 .. Releases /\ 1 .. Releases \subseteq Nat
  BY Constants DEF TypeOK
<1>3. ProcOK(Ended)
  BY EndedOK
<1>4. /\ e.plan = Plan(does) /\ e.version = release /\ e.stamp = Ended.stamp /\ e.rc = Ended.rc
      /\ e \in ProcTypes(Ended.rc)
  <2> HIDE DEF Ended
  <2> QED
    BY <1>1, <1>2, <1>3 DEF ProcOK, ProcTypes
<1>5. proc' = [proc EXCEPT ![p] = e] /\ UNCHANGED <<release, mirror, stamp, history>>
  BY DEF Launch
<1> HIDE DEF e
<1>6. ProcOK(e) /\ ~Begins(e)
  BY <1>1, <1>2, <1>3, <1>4 DEF ProcOK, Begins
<1>7. ~Begins(proc[p])
  BY NothingToDo DEF Launch, Begins
<1> QED
  BY <1>5, <1>6, <1>7 DEF Calm, OnlyLines

LEMMA ScriptsCalm ==
  ASSUME TypeOK, NEW p \in Procs, LookAtScript(p) \/ WriteScript(p) \/ RemoveScript(p)
  PROVE  Calm(p)
<1>1. /\ ProcOK(proc[p]) /\ proc[p].plan # <<>> /\ Head(proc[p].plan).op \in Neutral
  BY DEF TypeOK, LookAtScript, WriteScript, RemoveScript, At, Neutral
<1>2. ProcOK(Done(proc[p])) /\ ~Begins(Done(proc[p])) /\ ~Begins(proc[p])
  BY <1>1, NeutralHead, DoneOK
<1>3. ProcOK([proc[p] EXCEPT !.phase = "write"]) /\ ~Begins([proc[p] EXCEPT !.phase = "write"])
  BY <1>1, <1>2, PhaseOK DEF Begins
<1>4. UNCHANGED <<release, mirror, stamp, history>>
  BY DEF LookAtScript, WriteScript, RemoveScript
<1>5. \/ proc' = [proc EXCEPT ![p] = Done(proc[p])]
      \/ proc' = [proc EXCEPT ![p] = [proc[p] EXCEPT !.phase = "write"]]
  <2> HIDE DEF Done
  <2> QED
    BY DEF LookAtScript, WriteScript, RemoveScript, TypeOK
<1> HIDE DEF Done
<1> QED
  BY <1>2, <1>3, <1>4, <1>5 DEF Calm, OnlyLines

LEMMA RcCalm ==
  ASSUME TypeOK, NEW p \in Procs, ReadRc(p) \/ WriteRc(p)
  PROVE  Calm(p)
<1>1. /\ ProcOK(proc[p]) /\ proc[p].plan # <<>> /\ Head(proc[p].plan).op \in Neutral
  BY DEF TypeOK, ReadRc, WriteRc, At, Neutral
<1>2. ~Begins(proc[p])
  BY <1>1, NeutralHead
<1>3. UNCHANGED <<release, mirror, stamp>> /\ OnlyLines
  BY DEF ReadRc, WriteRc, OnlyLines
<1>4. CASE ReadRc(p)
  <2> DEFINE d == [proc[p] EXCEPT !.phase = "write"]
             e == [d EXCEPT !.rc = rc]
  <2>1. ProcOK(d) /\ d.plan = proc[p].plan
    BY <1>1, PhaseOK
  <2>2. ProcOK(e) /\ e.plan = d.plan
    <3> HIDE DEF d
    <3> QED
      BY <2>1, RcOK
  <2>3. proc' = [proc EXCEPT ![p] = e]
    BY <1>1, <1>4 DEF ReadRc, TypeOK, ProcOK, ProcTypes
  <2> HIDE DEF d, e
  <2>4. ~Begins(e)
    BY <1>2, <2>1, <2>2 DEF Begins
  <2> QED
    BY <1>2, <1>3, <2>2, <2>3, <2>4 DEF Calm, OnlyLines
<1>5. CASE WriteRc(p)
  <2> DEFINE d == [proc[p] EXCEPT !.rc = <<>>]
             e == Done(d)
  <2>1. ProcOK(d) /\ d.plan = proc[p].plan
    BY <1>1, RcOK
  <2>2. proc' = [proc EXCEPT ![p] = e]
    BY <1>5 DEF WriteRc, TypeOK
  <2> HIDE DEF d
  <2>3. ProcOK(e) /\ ~Begins(e)
    BY <1>1, <2>1, NeutralHead, DoneOK
  <2> HIDE DEF e
  <2> QED
    BY <1>2, <1>3, <2>2, <2>3 DEF Calm
<1> QED
  BY <1>4, <1>5

LEMMA StatusCalm ==
  ASSUME TypeOK, NEW p \in Procs, ReadStatus(p)
  PROVE  Calm(p)
<1>1. /\ ProcOK(proc[p]) /\ proc[p].plan # <<>> /\ Head(proc[p].plan).op \in Neutral
  BY DEF TypeOK, ReadStatus, At, Neutral
<1>2. ProcOK(Done(proc[p])) /\ ~Begins(Done(proc[p])) /\ ~Begins(proc[p])
  BY <1>1, NeutralHead, DoneOK
<1>3. UNCHANGED <<release, mirror, stamp, history>>
  BY DEF ReadStatus
<1>4. proc' = [proc EXCEPT ![p] = Done(proc[p])] \/ proc' = [proc EXCEPT ![p] = Ended]
  <2> HIDE DEF Done, Ended
  <2> QED
    BY DEF ReadStatus, TypeOK
<1> HIDE DEF Done, Ended
<1> QED
  BY <1>2, <1>3, <1>4, EndedOK DEF Calm, OnlyLines

-----------------------------------------------------------------------------
(* A refresh of the mirror.                                                *)

LEMMA BegunBegins == \A p \in Procs : /\ Begun(p) <=> Begins(proc[p])
                                      /\ Begins(proc[p]) => Writing(p)
BY DEF Begun, Begins, Writing, Has

LEMMA SameTypes ==
  ASSUME TypeOK, NEW p \in Procs, NEW e, ProcOK(e), proc' = [proc EXCEPT ![p] = e],
         mirror' \in [Names -> Contents], StampOK(stamp'), release' = release,
         NEW mine \in SUBSET Names, NEW kept \in SUBSET Names, NEW disturbed \in BOOLEAN,
         history' = [history EXCEPT !.mine = mine, !.kept = kept, !.disturbed = disturbed]
  PROVE  /\ TypeOK' /\ history'.mine = mine /\ history'.kept = kept
         /\ history'.disturbed = disturbed
<1>1. proc' = [q \in Procs |-> proc'[q]] /\ \A q \in Procs : ProcOK(proc'[q])
  BY OneMoves
<1>2. /\ history' \in [lines: {history'.lines}, mine: SUBSET Names, kept: SUBSET Names,
                       disturbed: BOOLEAN]
      /\ history'.mine = mine /\ history'.kept = kept /\ history'.disturbed = disturbed
  BY DEF TypeOK
<1> QED
  BY <1>1, <1>2 DEF TypeOK

\* history, as it is
LEMMA Written ==
  ASSUME TypeOK
  PROVE  /\ history = [history EXCEPT !.mine = history.mine, !.kept = history.kept,
                                      !.disturbed = history.disturbed]
         /\ history.mine \in SUBSET Names /\ history.kept \in SUBSET Names
         /\ history.disturbed \in BOOLEAN
BY DEF TypeOK

LEMMA StampMirrored ==
  ASSUME Mirrored, NEW p \in Procs, ReadStamp(p)
  PROVE  Mirrored'
<1> DEFINE d == proc[p]
           r == Done(d)
           e == [r EXCEPT !.stamp = stamp']
<1>1. /\ ProcOK(d) /\ d.plan # <<>> /\ Head(d.plan).op = "stamp"
      /\ d.plan \in Seq(StepTypes) /\ InOrder(d.plan)
  BY DEF Mirrored, TypeOK, ReadStamp, At, ProcOK, ProcTypes
<1>2. StampOK(stamp) /\ StampOK(stamp') /\ (stamp' = stamp \/ stamp'.hashes = NoStamp)
  BY StampKinds DEF Mirrored, TypeOK, ReadStamp
<1>3. ~Begins(d) /\ Has(Tail(d.plan), "seal") /\ ~Has(Tail(d.plan), "stamp") /\ Ahead(Tail(d.plan)) = Names
  BY <1>1, HeadOfPlan, TailHas DEF Begins
<1>4. ProcOK(r) /\ r.plan = Tail(d.plan) /\ r.phase = "look" /\ r.version \in 1 .. Releases
  <2>1. ProcOK(Done(d)) /\ Done(d).plan = Tail(d.plan) /\ Done(d).phase = "look"
    BY <1>1, DoneOK
  <2>2. Tail(d.plan) # <<>>
    BY <1>3, NothingToDo
  <2> HIDE DEF d
  <2> QED
    BY <2>1, <2>2 DEF ProcOK
<1>5. proc' = [proc EXCEPT ![p] = e]
  BY DEF ReadStamp, Mirrored, TypeOK
<1> HIDE DEF r
<1>6. /\ e.plan = Tail(d.plan) /\ e.phase = "look" /\ e.stamp = stamp' /\ e.version = r.version
      /\ e.rc = r.rc /\ e \in ProcTypes(r.rc)
  BY <1>2, <1>4 DEF ProcOK, ProcTypes, StampOK
<1>7. PICK x : x = e
  OBVIOUS
<1>8. /\ x.plan = Tail(d.plan) /\ x.phase = "look" /\ x.stamp = stamp' /\ x.version = r.version
      /\ x.rc = r.rc /\ x \in ProcTypes(r.rc) /\ proc' = [proc EXCEPT ![p] = x]
  BY <1>5, <1>6, <1>7
<1> HIDE DEF e, d
<1>9. ProcOK(x) /\ Begins(x) /\ Ahead(x.plan) = Names /\ \A f : ~InHand(x, f)
  BY <1>2, <1>3, <1>4, <1>8 DEF ProcOK, Begins, InHand
<1>10. /\ proc'[p] = x /\ \A q \in Procs : q # p => proc'[q] = proc[q]
  BY <1>8, <1>9, OneMoves DEF Mirrored
<1> DEFINE overlap == \E q \in Procs \ {p} : Begun(q)
           kept == IF stamp.kind \in {"unreadable", "cut"}
                   THEN {f \in history.kept : stamp.hashes[f] # None} ELSE history.kept
<1>11. /\ TypeOK' /\ history'.mine = history.mine /\ history'.kept = kept
       /\ history'.disturbed = (history.disturbed \/ overlap)
  <2>1. /\ mirror' \in [Names -> Contents] /\ release' = release
        /\ history' = [history EXCEPT !.mine = history.mine, !.kept = kept,
                                      !.disturbed = history.disturbed \/ overlap]
    BY DEF ReadStamp, Mirrored, TypeOK
  <2>2. /\ history.mine \in SUBSET Names /\ kept \in SUBSET Names
        /\ (history.disturbed \/ overlap) \in BOOLEAN
    BY Written DEF Mirrored
  <2> HIDE DEF overlap, kept
  <2> QED
    BY <1>2, <1>8, <1>9, <2>1, <2>2, SameTypes DEF Mirrored
<1>12. mirror' = mirror /\ (stamp.kind # "no directory" => stamp' = stamp)
  BY DEF ReadStamp
<1>13. Keeps'
  <2> SUFFICES ASSUME NEW f \in history'.kept
               PROVE  /\ mirror'[f] = Edit
                      /\ stamp'.kind \in {"unreadable", "cut", "v2"}
                      /\ stamp'.kind = "v2" => stamp'.hashes[f] # None
                      /\ \A q \in Procs : Begins(proc'[q]) =>
                           /\ proc'[q].stamp.hashes[f] # None /\ ~InHand(proc'[q], f)
                           /\ f \in Ahead(proc'[q].plan) \/ proc'[q].hashes[f] # None
    BY DEF Keeps
  <2>1. /\ f \in history.kept /\ f \in Names
        /\ stamp.kind \in {"unreadable", "cut"} => stamp.hashes[f] # None
    BY <1>11, Written DEF Mirrored, kept
  <2>2. /\ mirror[f] = Edit /\ stamp.kind \in {"unreadable", "cut", "v2"}
        /\ stamp.hashes[f] # None /\ stamp' = stamp
    BY <1>12, <2>1 DEF Mirrored, Keeps
  <2> QED
    BY <1>8, <1>9, <1>10, <1>12, <2>1, <2>2 DEF Mirrored, Keeps
<1>14. Tells'
  <2> SUFFICES ASSUME ~history'.disturbed
               PROVE  Tells'
    BY DEF Tells
  <2>1. ~history.disturbed /\ \A q \in Procs : q # p => ~Begins(proc'[q])
    BY <1>10, <1>11, BegunBegins
  <2>2. \A q \in Procs : ~Begins(proc[q])
    BY <1>3, <1>10, <2>1 DEF d
  <2>3. \A q \in Procs : Begins(proc'[q]) => q = p
    BY <2>1
  <2>4. Begins(proc'[p])
    BY <1>9, <1>10
  <2>5. ASSUME NEW f \in Names, stamp'.hashes[f] # None
        PROVE  Told(mirror', history'.mine, stamp'.hashes[f], f)
    <3>1. NoStamp[f] = None
      BY DEF NoStamp
    <3>2. stamp' = stamp
      BY <1>2, <2>5, <3>1
    <3> QED
      BY <1>11, <1>12, <2>1, <2>2, <2>5, <3>2 DEF Mirrored, Tells
  <2>6. ASSUME NEW q \in Procs, NEW f \in Names, Begins(proc'[q])
        PROVE  /\ ~InHand(proc'[q], f) /\ f \in Ahead(proc'[q].plan)
               /\ proc'[q].stamp = stamp'
    BY <1>8, <1>9, <1>10, <2>3, <2>6
  <2> QED
    BY <2>3, <2>4, <2>5, <2>6 DEF Tells
<1> QED
  BY <1>11, <1>13, <1>14 DEF Mirrored

\* A process that is at one of the specs
LEMMA SpecHead ==
  ASSUME NEW d, ProcOK(d), d.plan # <<>>, Head(d.plan).op = "spec"
  PROVE  /\ Head(d.plan).of \in Names /\ Begins(d) /\ Begins(Done(d)) /\ d.version \in 1 .. Releases
         /\ Ahead(Done(d).plan) = Ahead(d.plan) \ {Head(d.plan).of}
         /\ Head(d.plan).of \in Ahead(d.plan)
         /\ Done(d).version = d.version /\ Done(d).stamp = d.stamp /\ Done(d).hashes = d.hashes
         /\ \A g : ~InHand(Done(d), g)
         /\ \A g : InHand(d, g) <=> g = Head(d.plan).of /\ d.phase # "look"
<1>1. d.plan \in Seq(StepTypes) /\ InOrder(d.plan) /\ d.version \in 1 .. Releases
  BY DEF ProcOK, ProcTypes
<1>2. /\ ~Has(d.plan, "stamp") /\ Has(Tail(d.plan), "seal") /\ Head(d.plan).of \in Names
      /\ Head(d.plan) = Step("spec", Head(d.plan).of)
      /\ Ahead(d.plan) = Ahead(Tail(d.plan)) \cup {Head(d.plan).of}
      /\ Head(d.plan).of \notin Ahead(Tail(d.plan))
  BY <1>1, HeadOfPlan
<1>3. Has(d.plan, "seal") /\ ~Has(Tail(d.plan), "stamp") /\ Tail(d.plan) # <<>>
  BY <1>1, <1>2, TailHas, NothingToDo
<1>4. /\ Done(d).plan = Tail(d.plan) /\ Done(d).phase = "look"
      /\ Done(d).version = d.version /\ Done(d).stamp = d.stamp /\ Done(d).hashes = d.hashes
  BY <1>3, DoneOK
<1>5. \A g : Step("spec", g) = Head(d.plan) => g = Head(d.plan).of
  BY DEF Step
<1> HIDE DEF Done
<1> QED
  BY <1>1, <1>2, <1>3, <1>4, <1>5 DEF Begins, InHand

\* What a step at spec f has to see to.
LEMMA SpecStep ==
  ASSUME Mirrored, TypeOK', NEW p \in Procs, NEW f \in Names, Begins(proc[p]),
         NEW e, ProcOK(e), proc' = [proc EXCEPT ![p] = e], Begins(e), e.stamp = proc[p].stamp,
         e.version = proc[p].version, stamp' = stamp, history'.kept = history.kept,
         history'.disturbed = history.disturbed,
         \A g \in Names \ {f} :
           /\ mirror'[g] = mirror[g] /\ (g \in history'.mine <=> g \in history.mine)
           /\ e.hashes[g] = proc[p].hashes[g] /\ ~InHand(e, g) /\ ~InHand(proc[p], g)
           /\ g \in Ahead(e.plan) <=> g \in Ahead(proc[p].plan),
         f \in history.kept =>
           /\ mirror'[f] = Edit /\ ~InHand(e, f)
           /\ f \in Ahead(e.plan) \/ e.hashes[f] # None,
         ~history.disturbed =>
           IF InHand(e, f) THEN e.hashes[f] = Body[f][e.version]
           ELSE f \notin Ahead(e.plan) /\ Told(mirror', history'.mine, e.hashes[f], f)
  PROVE  Mirrored'
<1>1. proc'[p] = e /\ \A q \in Procs : q # p => proc'[q] = proc[q]
  BY OneMoves DEF Mirrored
<1>2. Keeps'
  <2> SUFFICES ASSUME NEW g \in history.kept
               PROVE  /\ mirror'[g] = Edit
                      /\ stamp.kind \in {"unreadable", "cut", "v2"}
                      /\ stamp.kind = "v2" => stamp.hashes[g] # None
                      /\ \A q \in Procs : Begins(proc'[q]) =>
                           /\ proc'[q].stamp.hashes[g] # None /\ ~InHand(proc'[q], g)
                           /\ g \in Ahead(proc'[q].plan) \/ proc'[q].hashes[g] # None
    BY DEF Keeps
  <2>1. /\ mirror[g] = Edit
        /\ stamp.kind \in {"unreadable", "cut", "v2"}
        /\ stamp.kind = "v2" => stamp.hashes[g] # None
        /\ \A q \in Procs : Begins(proc[q]) =>
             /\ proc[q].stamp.hashes[g] # None /\ ~InHand(proc[q], g)
             /\ g \in Ahead(proc[q].plan) \/ proc[q].hashes[g] # None
    BY DEF Mirrored, Keeps
  <2>2. g \in Names
    BY Written DEF Mirrored
  <2>3. mirror'[g] = Edit
    BY <2>1, <2>2
  <2>4. /\ e.stamp.hashes[g] # None /\ ~InHand(e, g)
        /\ g \in Ahead(e.plan) \/ e.hashes[g] # None
    BY <2>1, <2>2
  <2> QED
    BY <1>1, <2>1, <2>3, <2>4
<1>3. Tells'
  <2> SUFFICES ASSUME ~history.disturbed
               PROVE  Tells'
    BY DEF Tells
  <2>1. /\ \A q \in Procs : Begins(proc[q]) => q = p
        /\ \A g \in Names :
             IF InHand(proc[p], g) THEN proc[p].hashes[g] = Body[g][proc[p].version]
             ELSE IF g \in Ahead(proc[p].plan)
             THEN proc[p].stamp.hashes[g] # None =>
                    Told(mirror, history.mine, proc[p].stamp.hashes[g], g)
             ELSE Told(mirror, history.mine, proc[p].hashes[g], g)
    BY DEF Mirrored, Tells
  <2>2. /\ Begins(proc'[p]) /\ \A q \in Procs : Begins(proc'[q]) => q = p
    BY <1>1, <2>1
  <2>3. ASSUME NEW g \in Names
        PROVE  IF InHand(e, g) THEN e.hashes[g] = Body[g][e.version]
               ELSE IF g \in Ahead(e.plan)
               THEN e.stamp.hashes[g] # None =>
                      Told(mirror', history'.mine, e.stamp.hashes[g], g)
               ELSE Told(mirror', history'.mine, e.hashes[g], g)
    <3>1. CASE g = f
      BY <3>1
    <3>2. CASE g # f
      <4>1. \A hash : Told(mirror', history'.mine, hash, g) <=> Told(mirror, history.mine, hash, g)
        BY <3>2 DEF Told
      <4> QED
        BY <2>1, <3>2, <4>1
    <3> QED
      BY <3>1, <3>2
  <2> QED
    BY <1>1, <2>2, <2>3 DEF Tells
<1> QED
  BY <1>2, <1>3 DEF Mirrored

LEMMA LookMirrored ==
  ASSUME Mirrored, NEW p \in Procs, LookAtSpec(p)
  PROVE  Mirrored'
<1>1. PICK d : d = proc[p]
  OBVIOUS
<1>2. PICK f : f = Head(d.plan).of
  OBVIOUS
<1>3. /\ ProcOK(d) /\ d.plan # <<>> /\ Head(d.plan).op = "spec" /\ d.phase = "look" /\ f = Of(p)
  BY <1>1, <1>2 DEF Mirrored, TypeOK, LookAtSpec, At, Of
<1>4. /\ f \in Names /\ Begins(d) /\ d.version \in 1 .. Releases /\ f \in Ahead(d.plan)
      /\ \A g : ~InHand(d, g)
  BY <1>2, <1>3, SpecHead
<1>5. New(p) = Body[f][d.version] /\ New(p) \in Bodies /\ CarriedHash(p) = d.stamp.hashes[f]
  BY <1>1, <1>3, <1>4, Constants DEF New, CarriedHash
<1>6. PICK h : h = Recorded(p)
  OBVIOUS
<1>7. /\ Edited(p) <=> mirror[f] # None /\ d.stamp.hashes[f] \notin {None, mirror[f]}
      /\ Edited(p) => h = d.stamp.hashes[f]
      /\ ~Edited(p) => h = New(p)
  BY <1>1, <1>3, <1>5, <1>6 DEF Edited, Recorded
<1>8. d.stamp.hashes \in [Names -> Bodies \cup {None}]
  BY <1>3 DEF ProcOK, StampOK, Stamps, Hashes
<1>9. h \in Bodies /\ h # None
  BY <1>4, <1>5, <1>7, <1>8, Constants
<1>10. PICK seen : seen = [d EXCEPT !.hashes = [d.hashes EXCEPT ![f] = h]]
  OBVIOUS
<1>11. /\ seen.plan = d.plan /\ seen.phase = "look" /\ seen.version = d.version
       /\ seen.stamp = d.stamp /\ seen.rc = d.rc /\ seen \in ProcTypes(d.rc)
       /\ seen.hashes[f] = h /\ \A g \in Names \ {f} : seen.hashes[g] = d.hashes[g]
  <2>1. d \in ProcTypes(d.rc) /\ d.hashes \in [Names -> Bodies \cup {None}]
    BY <1>3 DEF ProcOK, ProcTypes, Hashes
  <2> QED
    BY <1>3, <1>4, <1>9, <1>10, <2>1 DEF ProcTypes, Hashes
<1>12. ProcOK(seen)
  BY <1>3, <1>11 DEF ProcOK
<1>13. PICK e : e = IF Edited(p) \/ mirror[f] = New(p) THEN Done(seen)
                    ELSE [seen EXCEPT !.phase = "write"]
  OBVIOUS
<1>14. proc' = [proc EXCEPT ![p] = e]
  <2>1. seen = [proc[p] EXCEPT !.hashes[Of(p)] = Recorded(p)]
    BY <1>1, <1>3, <1>6, <1>10
  <2>2. proc' = [proc EXCEPT ![p] = IF Edited(p) \/ mirror[f] = New(p) THEN Done(seen)
                                    ELSE [seen EXCEPT !.phase = "write"]]
    BY <1>3, <2>1 DEF LookAtSpec
  <2> QED
    BY <1>13, <2>2
<1>15. CASE Edited(p) \/ mirror[f] = New(p)
  <2>1. e = Done(seen)
    BY <1>13, <1>15
  <2>2. /\ ProcOK(e) /\ Begins(e) /\ e.version = d.version /\ e.stamp = d.stamp
        /\ e.hashes = seen.hashes /\ Ahead(e.plan) = Ahead(d.plan) \ {f} /\ \A g : ~InHand(e, g)
    <3>1. seen.plan # <<>> /\ Head(seen.plan).op = "spec" /\ Head(seen.plan).of = f
      BY <1>2, <1>3, <1>11
    <3>2. ProcOK(Done(seen))
      BY <1>12, <3>1, DoneOK
    <3>3. /\ Begins(Done(seen)) /\ Ahead(Done(seen).plan) = Ahead(seen.plan) \ {f}
          /\ Done(seen).version = seen.version /\ Done(seen).stamp = seen.stamp
          /\ Done(seen).hashes = seen.hashes /\ \A g : ~InHand(Done(seen), g)
      BY <1>12, <3>1, SpecHead
    <3> QED
      BY <1>11, <2>1, <3>2, <3>3
  <2>3. /\ TypeOK' /\ history'.mine = history.mine /\ history'.kept = history.kept
        /\ history'.disturbed = history.disturbed
        /\ mirror' = mirror /\ stamp' = stamp
    <3>1. UNCHANGED <<release, mirror, stamp, history>>
      BY DEF LookAtSpec
    <3>2. TypeOK'
      BY <1>14, <2>2, <3>1, OneMoves DEF Mirrored, TypeOK
    <3> QED
      BY <3>1, <3>2
  <2>4. ~history.disturbed => Told(mirror, history.mine, h, f)
    <3>1. CASE ~Edited(p)
      BY <1>7, <1>15, <3>1 DEF Told
    <3>2. CASE Edited(p) /\ ~history.disturbed
      <4>1. Told(mirror, history.mine, d.stamp.hashes[f], f)
        BY <1>1, <1>4, <1>7, <3>2 DEF Mirrored, Tells
      <4> QED
        BY <1>7, <3>2, <4>1
    <3> QED
      BY <3>1, <3>2
  <2>5. f \in history.kept => mirror[f] = Edit
    BY DEF Mirrored, Keeps
  <2>6. \A g \in Names \ {f} :
          /\ mirror'[g] = mirror[g] /\ (g \in history'.mine <=> g \in history.mine)
          /\ e.hashes[g] = proc[p].hashes[g] /\ ~InHand(e, g) /\ ~InHand(proc[p], g)
          /\ g \in Ahead(e.plan) <=> g \in Ahead(proc[p].plan)
    BY <1>1, <1>4, <1>11, <2>2, <2>3
  <2>7. f \in history.kept =>
          /\ mirror'[f] = Edit /\ ~InHand(e, f)
          /\ f \in Ahead(e.plan) \/ e.hashes[f] # None
    BY <1>9, <1>11, <2>2, <2>3, <2>5
  <2>8. ~history.disturbed =>
          IF InHand(e, f) THEN e.hashes[f] = Body[f][e.version]
          ELSE f \notin Ahead(e.plan) /\ Told(mirror', history'.mine, e.hashes[f], f)
    BY <1>11, <2>2, <2>3, <2>4
  <2>9. /\ Begins(proc[p]) /\ e.stamp = proc[p].stamp /\ e.version = proc[p].version
    BY <1>1, <1>4, <2>2
  <2> QED
    BY <1>4, <1>14, <2>2, <2>3, <2>6, <2>7, <2>8, <2>9, SpecStep
<1>16. CASE ~Edited(p) /\ mirror[f] # New(p)
  <2>1. e = [seen EXCEPT !.phase = "write"]
    BY <1>13, <1>16
  <2>2. /\ ProcOK(e) /\ e.plan = d.plan /\ e.phase = "write" /\ e.version = d.version
        /\ e.stamp = d.stamp /\ e.hashes = seen.hashes
    BY <1>11, <1>12, <2>1, PhaseOK
  <2>3. Begins(e) /\ \A g : InHand(e, g) <=> g = f
    BY <1>2, <1>3, <1>4, <2>2, SpecHead
  <2>4. /\ TypeOK' /\ history'.mine = history.mine /\ history'.kept = history.kept
        /\ history'.disturbed = history.disturbed
        /\ mirror' = mirror /\ stamp' = stamp
    <3>1. UNCHANGED <<release, mirror, stamp, history>>
      BY DEF LookAtSpec
    <3>2. TypeOK'
      BY <1>14, <2>2, <3>1, OneMoves DEF Mirrored, TypeOK
    <3> QED
      BY <3>1, <3>2
  <2>5. f \notin history.kept
    <3> SUFFICES ASSUME f \in history.kept
                 PROVE  FALSE
      OBVIOUS
    <3>1. mirror[f] = Edit /\ d.stamp.hashes[f] # None
      BY <1>1, <1>4 DEF Mirrored, Keeps
    <3>2. d.stamp.hashes[f] # Edit
      BY <1>4, <1>8, Constants
    <3> QED
      BY <1>7, <1>16, <3>1, <3>2, Constants
  <2>6. e.hashes[f] = Body[f][e.version]
    BY <1>5, <1>7, <1>11, <1>16, <2>2
  <2>7. \A g \in Names \ {f} :
          /\ mirror'[g] = mirror[g] /\ (g \in history'.mine <=> g \in history.mine)
          /\ e.hashes[g] = proc[p].hashes[g] /\ ~InHand(e, g) /\ ~InHand(proc[p], g)
          /\ g \in Ahead(e.plan) <=> g \in Ahead(proc[p].plan)
    BY <1>1, <1>4, <1>11, <2>2, <2>3, <2>4
  <2>8. /\ Begins(proc[p]) /\ e.stamp = proc[p].stamp /\ e.version = proc[p].version /\ InHand(e, f)
    BY <1>1, <1>4, <2>2, <2>3
  <2> QED
    BY <1>4, <1>14, <2>2, <2>3, <2>4, <2>5, <2>6, <2>7, <2>8, SpecStep
<1> QED
  BY <1>15, <1>16

LEMMA TruncateMirrored ==
  ASSUME Mirrored, NEW p \in Procs, TruncateSpec(p)
  PROVE  Mirrored'
<1>1. PICK d : d = proc[p]
  OBVIOUS
<1>2. PICK f : f = Head(d.plan).of
  OBVIOUS
<1>3. /\ ProcOK(d) /\ d.plan # <<>> /\ Head(d.plan).op = "spec" /\ d.phase = "write" /\ f = Of(p)
  BY <1>1, <1>2 DEF Mirrored, TypeOK, TruncateSpec, At, Of
<1>4. /\ f \in Names /\ Begins(d) /\ \A g : InHand(d, g) <=> g = f
  BY <1>2, <1>3, SpecHead
<1>5. PICK e : e = [d EXCEPT !.phase = "torn"]
  OBVIOUS
<1>6. /\ ProcOK(e) /\ e.plan = d.plan /\ e.phase = "torn" /\ e.version = d.version
      /\ e.stamp = d.stamp /\ e.hashes = d.hashes
  BY <1>3, <1>5, PhaseOK
<1>7. proc' = [proc EXCEPT ![p] = e]
  BY <1>1, <1>5 DEF TruncateSpec, Mirrored, TypeOK
<1>8. Begins(e) /\ \A g : InHand(e, g) <=> g = f
  BY <1>2, <1>3, <1>6, SpecHead
<1>9. mirror' = [mirror EXCEPT ![f] = Torn] /\ mirror \in [Names -> Contents] /\ stamp' = stamp
  BY <1>3 DEF TruncateSpec, Mirrored, TypeOK
<1>10. /\ TypeOK' /\ history'.mine = history.mine \ {f} /\ history'.kept = history.kept
       /\ history'.disturbed = history.disturbed
  <2>1. /\ history' = [history EXCEPT !.mine = history.mine \ {f}, !.kept = history.kept,
                                      !.disturbed = history.disturbed]
        /\ release' = release /\ history.mine \ {f} \in SUBSET Names
        /\ history.kept \in SUBSET Names /\ history.disturbed \in BOOLEAN
    BY <1>3, Written DEF TruncateSpec, Mirrored, TypeOK
  <2>2. mirror' \in [Names -> Contents] /\ StampOK(stamp')
    BY <1>9 DEF Contents, Mirrored, TypeOK
  <2> QED
    BY <1>6, <1>7, <2>1, <2>2, SameTypes DEF Mirrored
<1>11. f \notin history.kept
  BY <1>1, <1>4 DEF Mirrored, Keeps
<1>12. ~history.disturbed => e.hashes[f] = Body[f][e.version]
  BY <1>1, <1>4, <1>6 DEF Mirrored, Tells
<1>13. \A g \in Names \ {f} : mirror'[g] = mirror[g] /\ (g \in history'.mine <=> g \in history.mine)
  BY <1>9, <1>10
<1> QED
  BY <1>1, <1>4, <1>6, <1>7, <1>8, <1>9, <1>10, <1>11, <1>12, <1>13, SpecStep

LEMMA WriteMirrored ==
  ASSUME Mirrored, NEW p \in Procs, WriteSpec(p)
  PROVE  Mirrored'
<1>1. PICK d : d = proc[p]
  OBVIOUS
<1>2. PICK f : f = Head(d.plan).of
  OBVIOUS
<1>3. /\ ProcOK(d) /\ d.plan # <<>> /\ Head(d.plan).op = "spec" /\ d.phase = "torn" /\ f = Of(p)
  BY <1>1, <1>2 DEF Mirrored, TypeOK, WriteSpec, At, Of
<1>4. PICK e : e = Done(d)
  OBVIOUS
<1>5. /\ f \in Names /\ Begins(d) /\ d.version \in 1 .. Releases
      /\ \A g : InHand(d, g) <=> g = f
      /\ ProcOK(e) /\ Begins(e) /\ e.version = d.version /\ e.stamp = d.stamp
      /\ e.hashes = d.hashes /\ Ahead(e.plan) = Ahead(d.plan) \ {f} /\ \A g : ~InHand(e, g)
  BY <1>2, <1>3, <1>4, SpecHead, DoneOK
<1>6. New(p) = Body[f][d.version] /\ New(p) \in Bodies
  BY <1>1, <1>3, <1>5, Constants DEF New
<1>7. proc' = [proc EXCEPT ![p] = e]
  BY <1>1, <1>4 DEF WriteSpec, Mirrored, TypeOK
<1>8. mirror' = [mirror EXCEPT ![f] = New(p)] /\ mirror \in [Names -> Contents] /\ stamp' = stamp
  BY <1>3 DEF WriteSpec, Mirrored, TypeOK
<1>9. /\ TypeOK' /\ history'.mine = history.mine \ {f} /\ history'.kept = history.kept
      /\ history'.disturbed = history.disturbed
  <2>1. /\ history' = [history EXCEPT !.mine = history.mine \ {f}, !.kept = history.kept,
                                      !.disturbed = history.disturbed]
        /\ release' = release /\ history.mine \ {f} \in SUBSET Names
        /\ history.kept \in SUBSET Names /\ history.disturbed \in BOOLEAN
    BY <1>3, Written DEF WriteSpec, Mirrored, TypeOK
  <2>2. mirror' \in [Names -> Contents] /\ StampOK(stamp')
    BY <1>6, <1>8 DEF Contents, Mirrored, TypeOK
  <2> QED
    BY <1>5, <1>7, <2>1, <2>2, SameTypes DEF Mirrored
<1>10. f \notin history.kept
  BY <1>1, <1>5 DEF Mirrored, Keeps
<1>11. ~history.disturbed => Told(mirror', history'.mine, e.hashes[f], f)
  <2>1. ~history.disturbed => d.hashes[f] = Body[f][d.version]
    BY <1>1, <1>5 DEF Mirrored, Tells
  <2> QED
    BY <1>5, <1>6, <1>8, <2>1 DEF Told
<1>12. \A g \in Names \ {f} : mirror'[g] = mirror[g] /\ (g \in history'.mine <=> g \in history.mine)
  BY <1>8, <1>9
<1> QED
  BY <1>1, <1>5, <1>7, <1>8, <1>9, <1>10, <1>11, <1>12, SpecStep

\* A process that has only the stamp to write
LEMMA SealHead ==
  ASSUME NEW d, ProcOK(d), d.plan # <<>>, Head(d.plan).op = "seal"
  PROVE  /\ Begins(d) /\ Ahead(d.plan) = {} /\ \A g : Head(d.plan) # Step("spec", g)
         /\ ~Begins(Done(d)) /\ d.version \in 1 .. Releases
<1>1. d.plan \in Seq(StepTypes) /\ InOrder(d.plan) /\ d.version \in 1 .. Releases
  BY DEF ProcOK, ProcTypes
<1>2. ~Has(d.plan, "stamp") /\ ~Has(Tail(d.plan), "seal") /\ Ahead(d.plan) = {} /\ Has(d.plan, "seal")
  BY <1>1, HeadOfPlan, TailHas
<1>3. Done(d).plan = Tail(d.plan)
  BY DoneOK
<1>4. \A g : Step("spec", g).op = "spec"
  BY DEF Step
<1> QED
  BY <1>1, <1>2, <1>3, <1>4 DEF Begins

\* A stamp that is cut short is still one that can be read, or none.
LEMMA CutStampOK ==
  ASSUME NEW d, d \in ProcTypes(d.rc), NEW s \in CutShort(d)
  PROVE  StampOK(s) /\ s.kind \in {"unreadable", "cut"}
<1>1. CASE s \in {Stamp("unreadable"), Stamp("cut")}
  BY <1>1, StampKinds
<1>2. CASE s \notin {Stamp("unreadable"), Stamp("cut")}
  <2>1. PICK n \in 0 .. Len(Files) - 1 :
          s = [kind |-> "cut", version |-> d.version,
               hashes |-> [f \in Names |->
                             IF \E i \in 1 .. n : Files[i] = f THEN d.hashes[f] ELSE None]]
    BY <1>2 DEF CutShort, Names
  <2>2. d.hashes \in [Names -> Bodies \cup {None}] /\ d.version \in Nat
    BY DEF ProcTypes, Hashes
  <2>3. [f \in Names |-> IF \E i \in 1 .. n : Files[i] = f THEN d.hashes[f] ELSE None] \in Hashes
    BY <2>2 DEF Hashes
  <2> QED
    BY <2>1, <2>2, <2>3 DEF StampOK, Stamps, Parses
<1> QED
  BY <1>1, <1>2

LEMMA TruncateStampMirrored ==
  ASSUME Mirrored, NEW p \in Procs, TruncateStamp(p)
  PROVE  Mirrored'
<1>1. PICK d : d = proc[p]
  OBVIOUS
<1>2. ProcOK(d) /\ d.plan # <<>> /\ Head(d.plan).op = "seal"
  BY <1>1 DEF Mirrored, TypeOK, TruncateStamp, At
<1>3. Begins(d) /\ Ahead(d.plan) = {} /\ \A g : Head(d.plan) # Step("spec", g)
  BY <1>2, SealHead
<1>4. PICK e : e = [d EXCEPT !.phase = "torn"]
  OBVIOUS
<1>5. /\ ProcOK(e) /\ e.plan = d.plan /\ e.phase = "torn" /\ e.version = d.version
      /\ e.stamp = d.stamp /\ e.hashes = d.hashes
  BY <1>2, <1>4, PhaseOK
<1>6. proc' = [proc EXCEPT ![p] = e]
  BY <1>1, <1>4 DEF TruncateStamp, Mirrored, TypeOK
<1>7. Begins(e) /\ \A g : ~InHand(e, g) /\ ~InHand(d, g)
  BY <1>3, <1>5 DEF Begins, InHand
<1>8. /\ proc'[p] = e /\ (\A q \in Procs : q # p => proc'[q] = proc[q])
      /\ proc' = [q \in Procs |-> proc'[q]] /\ \A q \in Procs : ProcOK(proc'[q])
  BY <1>5, <1>6, OneMoves DEF Mirrored
<1>9. /\ StampOK(stamp') /\ stamp'.kind \in {"unreadable", "cut"}
      /\ UNCHANGED <<release, mirror, history>>
  BY <1>1, <1>2, CutStampOK DEF TruncateStamp, ProcOK
<1>10. TypeOK'
  BY <1>8, <1>9 DEF Mirrored, TypeOK
<1>11. \A q \in Procs, g \in Names :
         /\ Begins(proc'[q]) <=> Begins(proc[q])
         /\ InHand(proc'[q], g) <=> InHand(proc[q], g)
         /\ proc'[q].plan = proc[q].plan /\ proc'[q].stamp = proc[q].stamp
         /\ proc'[q].hashes = proc[q].hashes /\ proc'[q].version = proc[q].version
  BY <1>1, <1>3, <1>5, <1>7, <1>8
<1>12. Keeps'
  <2> SUFFICES ASSUME NEW f \in history.kept
               PROVE  /\ mirror[f] = Edit
                      /\ \A q \in Procs : Begins(proc'[q]) =>
                           /\ proc'[q].stamp.hashes[f] # None /\ ~InHand(proc'[q], f)
                           /\ f \in Ahead(proc'[q].plan) \/ proc'[q].hashes[f] # None
    BY <1>9 DEF Keeps
  <2>1. f \in Names
    BY Written DEF Mirrored
  <2> QED
    BY <1>11, <2>1 DEF Mirrored, Keeps
<1>13. Tells'
  <2> SUFFICES ASSUME ~history.disturbed
               PROVE  Tells'
    BY <1>9 DEF Tells
  <2>1. \A q, r \in Procs : Begins(proc'[q]) /\ Begins(proc'[r]) => q = r
    BY <1>1, <1>3, <1>7, <1>8 DEF Mirrored, Tells
  <2>2. ASSUME NEW q \in Procs, NEW f \in Names, Begins(proc'[q])
        PROVE  IF InHand(proc'[q], f) THEN proc'[q].hashes[f] = Body[f][proc'[q].version]
               ELSE IF f \in Ahead(proc'[q].plan)
               THEN proc'[q].stamp.hashes[f] # None =>
                      Told(mirror, history.mine, proc'[q].stamp.hashes[f], f)
               ELSE Told(mirror, history.mine, proc'[q].hashes[f], f)
    BY <1>11, <2>2 DEF Mirrored, Tells
  <2> QED
    BY <1>7, <1>8, <1>9, <2>1, <2>2 DEF Tells
<1> QED
  BY <1>10, <1>12, <1>13 DEF Mirrored

LEMMA WriteStampMirrored ==
  ASSUME Mirrored, NEW p \in Procs, WriteStamp(p)
  PROVE  Mirrored'
<1>1. PICK d : d = proc[p]
  OBVIOUS
<1>2. ProcOK(d) /\ d.plan # <<>> /\ Head(d.plan).op = "seal"
  BY <1>1 DEF Mirrored, TypeOK, WriteStamp, At
<1>3. /\ Begins(d) /\ Ahead(d.plan) = {} /\ (\A g : Head(d.plan) # Step("spec", g))
      /\ d.version \in 1 .. Releases
  BY <1>2, SealHead
<1>4. PICK r : r = [d EXCEPT !.stamp = Ended.stamp, !.hashes = Ended.hashes]
  OBVIOUS
<1>5. ProcOK(r) /\ r.plan = d.plan
  <2>1. Ended.stamp = Stamp("missing") /\ Ended.hashes = NoStamp /\ StampOK(Stamp("missing"))
    BY StampKinds DEF Ended, NoStamp, Names
  <2>2. /\ r.plan = d.plan /\ r.version = d.version /\ r.stamp = Stamp("missing") /\ r.rc = d.rc
        /\ r \in ProcTypes(d.rc)
    <3> HIDE DEF Ended
    <3> QED
      BY <1>2, <1>4, <2>1, Constants DEF ProcOK, ProcTypes, StampOK
  <2> QED
    BY <1>2, <2>1, <2>2 DEF ProcOK
<1>6. PICK e : e = Done(r)
  OBVIOUS
<1>7. ProcOK(e) /\ ~Begins(e)
  BY <1>2, <1>5, <1>6, SealHead, DoneOK
<1>8. proc' = [proc EXCEPT ![p] = e]
  BY <1>1, <1>4, <1>6 DEF WriteStamp, Mirrored, TypeOK
<1>9. /\ proc'[p] = e /\ (\A q \in Procs : q # p => proc'[q] = proc[q])
      /\ proc' = [q \in Procs |-> proc'[q]] /\ \A q \in Procs : ProcOK(proc'[q])
  BY <1>7, <1>8, OneMoves DEF Mirrored
<1>10. /\ StampOK(stamp') /\ stamp'.kind = "v2" /\ stamp'.hashes = d.hashes
       /\ UNCHANGED <<release, mirror, history>>
  BY <1>1, <1>2 DEF WriteStamp, ProcOK, ProcTypes, StampOK, Stamps, Parses
<1>11. TypeOK'
  BY <1>9, <1>10 DEF Mirrored, TypeOK
<1>12. Keeps'
  <2> SUFFICES ASSUME NEW f \in history.kept
               PROVE  /\ mirror[f] = Edit /\ d.hashes[f] # None
                      /\ \A q \in Procs : Begins(proc'[q]) =>
                           /\ proc'[q].stamp.hashes[f] # None /\ ~InHand(proc'[q], f)
                           /\ f \in Ahead(proc'[q].plan) \/ proc'[q].hashes[f] # None
    BY <1>10 DEF Keeps
  <2>1. mirror[f] = Edit /\ d.hashes[f] # None
    BY <1>1, <1>3 DEF Mirrored, Keeps
  <2>2. \A q \in Procs : Begins(proc'[q]) => proc'[q] = proc[q]
    BY <1>7, <1>9
  <2> QED
    BY <2>1, <2>2 DEF Mirrored, Keeps
<1>13. Tells'
  <2> SUFFICES ASSUME ~history.disturbed
               PROVE  Tells'
    BY <1>10 DEF Tells
  <2>1. \A q \in Procs : ~Begins(proc'[q])
    BY <1>1, <1>3, <1>7, <1>9 DEF Mirrored, Tells
  <2>2. \A f \in Names : Told(mirror, history.mine, d.hashes[f], f)
    BY <1>1, <1>3 DEF Mirrored, Tells, InHand
  <2> QED
    BY <1>10, <2>1, <2>2 DEF Tells
<1> QED
  BY <1>11, <1>12, <1>13 DEF Mirrored

LEMMA StopMirrored ==
  ASSUME Mirrored, NEW p \in Procs, Stop(p)
  PROVE  Mirrored'
<1>1. PICK e : e = Ended
  OBVIOUS
<1>2. ProcOK(e) /\ ~Begins(e)
  BY <1>1, EndedOK
<1>3. proc' = [proc EXCEPT ![p] = e]
  BY <1>1 DEF Stop
<1>4. proc'[p] = e /\ \A q \in Procs : q # p => proc'[q] = proc[q]
  BY <1>2, <1>3, OneMoves DEF Mirrored
<1>5. UNCHANGED <<release, mirror, stamp>>
  BY DEF Stop
<1>6. /\ TypeOK' /\ history'.mine = history.mine /\ history'.kept = history.kept
      /\ history'.disturbed = (history.disturbed \/ Begun(p))
  <2>1. /\ history' = [history EXCEPT !.mine = history.mine, !.kept = history.kept,
                                      !.disturbed = history.disturbed \/ Begun(p)]
        /\ history.mine \in SUBSET Names /\ history.kept \in SUBSET Names
        /\ (history.disturbed \/ Begun(p)) \in BOOLEAN
        /\ mirror' \in [Names -> Contents] /\ StampOK(stamp')
    BY <1>5, Written DEF Stop, Mirrored, TypeOK
  <2> QED
    BY <1>2, <1>3, <1>5, <2>1, SameTypes DEF Mirrored
<1>7. Keeps'
  BY <1>2, <1>4, <1>5, <1>6, QuietKeeps DEF Mirrored
<1>8. CASE Begun(p)
  BY <1>6, <1>7, <1>8 DEF Mirrored, Tells
<1>9. CASE ~Begun(p)
  <2>1. ~Begins(proc[p])
    BY <1>9, BegunBegins
  <2>2. history'.disturbed = history.disturbed
    BY <1>6, <1>9, Written DEF Mirrored
  <2>3. \A q \in Procs : proc'[q] = proc[q] \/ (~Begins(proc[q]) /\ ~Begins(proc'[q]))
    BY <1>2, <1>4, <2>1
  <2>4. Tells'
    BY <1>5, <1>6, <2>2, <2>3, QuietTells DEF Mirrored
  <2> QED
    BY <1>6, <1>7, <2>4 DEF Mirrored
<1> QED
  BY <1>8, <1>9

-----------------------------------------------------------------------------
(* The user.                                                               *)

LEMMA ChangeMirrored ==
  ASSUME Mirrored, NEW f \in Names, NEW content \in {Edit, None}, ChangeSpec(f, content)
  PROVE  Mirrored'
<1> DEFINE noted == content = Edit /\ stamp.hashes[f] # None /\ \A p \in Procs : ~Writing(p)
           kept == IF noted THEN history.kept \cup {f}
                   ELSE IF content = None THEN history.kept \ {f} ELSE history.kept
<1>1. /\ mirror' = [mirror EXCEPT ![f] = content] /\ mirror \in [Names -> Contents]
      /\ UNCHANGED <<release, stamp, proc>>
      /\ history' = [history EXCEPT !.mine = history.mine \cup {f}, !.kept = kept]
  BY DEF ChangeSpec, Mirrored, TypeOK
<1>2. kept \in SUBSET Names
  BY Written DEF Mirrored
<1> HIDE DEF kept
<1>3. /\ history' \in [lines: {history'.lines}, mine: SUBSET Names, kept: SUBSET Names,
                       disturbed: BOOLEAN]
      /\ history'.mine = history.mine \cup {f} /\ history'.kept = kept
      /\ history'.disturbed = history.disturbed
  BY <1>1, <1>2 DEF Mirrored, TypeOK
<1>4. TypeOK'
  BY <1>1, <1>3 DEF Mirrored, TypeOK, Contents
<1>5. Keeps'
  <2> SUFFICES ASSUME NEW g \in kept
               PROVE  /\ mirror'[g] = Edit
                      /\ stamp.kind \in {"unreadable", "cut", "v2"}
                      /\ stamp.kind = "v2" => stamp.hashes[g] # None
                      /\ \A q \in Procs : Begins(proc[q]) =>
                           /\ proc[q].stamp.hashes[g] # None /\ ~InHand(proc[q], g)
                           /\ g \in Ahead(proc[q].plan) \/ proc[q].hashes[g] # None
    BY <1>1, <1>3 DEF Keeps
  <2>1. CASE g \in history.kept
    <3>1. g \in Names /\ (g = f => content = Edit)
      BY <2>1, Written, Constants DEF Mirrored, kept
    <3> QED
      BY <1>1, <2>1, <3>1 DEF Mirrored, Keeps
  <2>2. CASE g \notin history.kept
    <3>1. g = f /\ content = Edit /\ stamp.hashes[f] # None /\ \A q \in Procs : ~Begins(proc[q])
      BY <2>2, BegunBegins DEF kept
    <3>2. stamp.kind \in {"v2", "cut"}
      BY <3>1 DEF Mirrored, TypeOK, StampOK, NoStamp, Parses
    <3> QED
      BY <1>1, <3>1, <3>2
  <2> QED
    BY <2>1, <2>2
<1>6. ASSUME NEW g \in Names, NEW hash, Told(mirror, history.mine, hash, g)
      PROVE  Told(mirror', history'.mine, hash, g)
  BY <1>1, <1>3, <1>6 DEF Told
<1>7. Tells'
  BY <1>1, <1>3, <1>6 DEF Mirrored, Tells
<1> QED
  BY <1>4, <1>5, <1>7 DEF Mirrored

LEMMA AddLineMirrored ==
  ASSUME Mirrored, NEW line \in Lines, AddLine(line)
  PROVE  Mirrored'
<1>1. UNCHANGED <<release, mirror, stamp, proc>>
  BY DEF AddLine
<1>2. OnlyLines
  BY DEF AddLine, OnlyLines
<1>3. /\ history' \in [lines: {history'.lines}, mine: SUBSET Names, kept: SUBSET Names,
                       disturbed: BOOLEAN]
      /\ history'.mine = history.mine /\ history'.kept = history.kept
      /\ history'.disturbed = history.disturbed
  BY <1>2, HistoryOK DEF Mirrored
<1>4. TypeOK'
  BY <1>1, <1>3 DEF Mirrored, TypeOK
<1> QED
  BY <1>1, <1>3, <1>4, QuietKeeps, QuietTells DEF Mirrored

\* Only the program that is started next is another one.
LEMMA UpgradeMirrored ==
  ASSUME Mirrored, Upgrade
  PROVE  Mirrored'
<1>1. UNCHANGED <<mirror, stamp, proc, history>> /\ release' \in 1 .. Releases
  BY Constants DEF Upgrade, Mirrored, TypeOK
<1>2. TypeOK'
  BY <1>1 DEF Mirrored, TypeOK
<1> QED
  BY <1>1, <1>2, QuietKeeps, QuietTells DEF Mirrored

LEMMA StutterMirrored ==
  ASSUME Mirrored, UNCHANGED vars
  PROVE  Mirrored'
<1>1. UNCHANGED <<release, mirror, stamp, proc, history>>
  BY DEF vars
<1>2. TypeOK'
  BY <1>1 DEF Mirrored, TypeOK
<1> QED
  BY <1>1, <1>2, QuietKeeps, QuietTells DEF Mirrored

-----------------------------------------------------------------------------
(* The theorems about the mirror.                                          *)

LEMMA InitMirrored ==
  ASSUME Init
  PROVE  Mirrored
<1>1. /\ release = 1 /\ proc = [p \in Procs |-> Ended]
      /\ history = [lines |-> UserLines(<<>>), mine |-> {}, kept |-> {}, disturbed |-> FALSE]
      /\ \/ stamp = Stamp("no directory") /\ mirror = [f \in Names |-> None]
         \/ stamp = Stamp("missing") /\ mirror = [f \in Names |-> Body[f][1]]
  BY DEF Init, Names
<1>2. StampOK(stamp) /\ \A f \in Names : stamp.hashes[f] = None
  <2>1. StampOK(stamp) /\ stamp.hashes = NoStamp
    BY <1>1, StampKinds
  <2> QED
    BY <2>1 DEF NoStamp
<1>3. \A p \in Procs : ProcOK(proc[p]) /\ ~Begins(proc[p])
  BY <1>1, EndedOK
<1>4. mirror \in [Names -> Contents]
  BY <1>1, Constants DEF Contents
<1>5. /\ history \in [lines: {history.lines}, mine: SUBSET Names, kept: SUBSET Names,
                      disturbed: BOOLEAN]
      /\ history.kept = {}
  BY <1>1
<1>6. TypeOK
  <2>1. proc = [p \in Procs |-> proc[p]] /\ release \in 1 .. Releases
    BY <1>1, Constants
  <2> QED
    BY <1>2, <1>3, <1>4, <1>5, <2>1 DEF TypeOK
<1>7. Keeps
  BY <1>5 DEF Keeps
<1>8. Tells
  BY <1>2, <1>3 DEF Tells
<1> QED
  BY <1>6, <1>7, <1>8 DEF Mirrored

LEMMA NextMirrored ==
  ASSUME Mirrored, [Next]_vars
  PROVE  Mirrored'
<1>1. ASSUME NEW p \in Starts, Launch(p, "start")
      PROVE  Mirrored'
  BY <1>1, LaunchCalm, CalmMirrored DEF Mirrored, Procs
<1>2. ASSUME NEW does \in {"install", "uninstall"}, Launch("command", does)
      PROVE  Mirrored'
  BY <1>2, LaunchCalm, CalmMirrored DEF Mirrored, Procs
<1>3. ASSUME NEW p \in Procs,
             \/ LookAtScript(p) \/ WriteScript(p) \/ RemoveScript(p) \/ ReadRc(p) \/ WriteRc(p)
             \/ ReadStatus(p)
      PROVE  Mirrored'
  <2>1. Calm(p)
    BY <1>3, ScriptsCalm, RcCalm, StatusCalm DEF Mirrored
  <2> QED
    BY <2>1, CalmMirrored
<1>4. ASSUME NEW p \in Procs, ReadStamp(p) \/ LookAtSpec(p) \/ TruncateSpec(p) \/ WriteSpec(p)
      PROVE  Mirrored'
  BY <1>4, StampMirrored, LookMirrored, TruncateMirrored, WriteMirrored
<1>5. ASSUME NEW p \in Procs, TruncateStamp(p) \/ WriteStamp(p) \/ Stop(p)
      PROVE  Mirrored'
  BY <1>5, TruncateStampMirrored, WriteStampMirrored, StopMirrored
<1>6. ASSUME NEW f \in ToSet(Files), NEW content \in {Edit, None}, ChangeSpec(f, content)
      PROVE  Mirrored'
  BY <1>6, ChangeMirrored DEF Names
<1> QED
  BY <1>1, <1>2, <1>3, <1>4, <1>5, <1>6, AddLineMirrored, UpgradeMirrored, StutterMirrored DEF Next

\* Whatever starts, is installed, upgraded, edited or killed: a process reads the stamp
\* before it looks at any spec, carries the hash of every edited one over to the stamp it
\* writes, and has none of them in hand (write_embedded_mirror).
THEOREM SpecMirrored == Spec => []Mirrored
<1>1. Init => Mirrored
  BY InitMirrored
<1>2. Mirrored /\ [Next]_vars => Mirrored'
  BY NextMirrored
<1> QED
  BY <1>1, <1>2, PTL DEF Spec

\* A spec edited on top of what the stamp records is overwritten by no refresh of any
\* release, whichever overlap or are cut short, unless one of them found the stamp itself
\* cut short of its hash (write_embedded_mirror, "User edits are preserved").
THEOREM SpecEditsSurvive == Spec => []EditsSurvive
<1>1. Mirrored => EditsSurvive
  BY DEF Mirrored, Keeps, EditsSurvive
<1> QED
  BY <1>1, SpecMirrored, PTL

\* As long as no refresh was cut short and no two overlapped, a file differs from what the
\* stamp of this release records only if the user has changed it (list_user_edited_specs).
THEOREM SpecStampTellsEditsUndisturbed == Spec => []StampTellsEditsUndisturbed
<1>1. Mirrored => StampTellsEditsUndisturbed
  BY BegunBegins DEF Mirrored, Tells, Told, StampTellsEditsUndisturbed, StampTellsEdits, AtRest,
                     Names
<1> QED
  BY <1>1, SpecMirrored, PTL

-----------------------------------------------------------------------------
(* .zshrc.                                                                 *)

Main   == "ghost-complete.zsh"
Blocks == {InitBlock, ShellBlock}

\* Behind every begin marker comes the end of its block.
Whole(c) ==
  /\ c \in Seq(Lines \cup Marks)
  /\ \A block \in Blocks, i \in DOMAIN c :
       c[i] = block[1] => i + 1 \in DOMAIN c /\ c[i + 1] = block[2]

\* What install_to, uninstall_from and a start do, and in which order.
Only(plan, ops) == \A i \in DOMAIN plan : plan[i].op \in ops
PlanFits(does, plan) ==
  plan # <<>> =>
    \/ does = "start" /\ Only(plan, {"refresh", "status", "stamp", "spec", "seal"})
    \/ /\ does = "install" /\ Only(plan, {"write", "stamp", "spec", "seal", "rc"})
       /\ \A i, j \in DOMAIN plan : i < j => plan[i].op # "rc"
    \/ /\ does = "uninstall" /\ Only(plan, {"rc", "remove"})
       /\ \A i, j \in DOMAIN plan : i < j => plan[j].op # "rc"

\* It has read .zshrc and is about to write it.
AtRc(d) == d.plan # <<>> /\ Head(d.plan).op = "rc" /\ d.phase = "write"

Sources(c) == "shell begin" \in ToSet(c)

\* What a process relies on: an install, that the script is there when its plan has no
\* such step left; an uninstall, that nothing sources it once the blocks are gone; both,
\* that what they have read is whole, and has the block if .zshrc has it now.
Relies(d) ==
  /\ d.plan # <<>> /\ d.does = "install" =>
       scripts[Main] # 0 \/ \E i \in DOMAIN d.plan : d.plan[i] = Step("write", Main)
  /\ d.plan # <<>> /\ d.does = "uninstall" /\ ~Has(d.plan, "rc") => ~Sources(rc)
  /\ AtRc(d) => Whole(d.rc) /\ (Sources(rc) => Sources(d.rc))

\* install and uninstall are run one at a time.
CommandOnly(p, d) == d.plan # <<>> /\ d.does # "start" => p = "command"

RcTypes ==
  /\ Whole(rc) /\ scripts \in [ToSet(Scripts) -> Nat]
  /\ \A p \in Procs : /\ PlanFits(proc[p].does, proc[p].plan)
                      /\ CommandOnly(p, proc[p])

Sourced ==
  /\ RcTypes /\ RcFindsScripts /\ UserLinesStay
  /\ \A p \in Procs : Relies(proc[p])

LEMMA Smallest ==
  ASSUME NEW T \in SUBSET Nat, T # {}
  PROVE  \E m \in T : \A n \in T : m <= n
<1> DEFINE below == {0 .. n : n \in T}
<1>1. below \subseteq FiniteSubsetsOf(Nat) /\ below # {}
  <2>1. \A n \in T : 0 .. n \in SUBSET Nat /\ IsFiniteSet(0 .. n)
    BY FS_Interval
  <2> QED
    BY <2>1 DEF FiniteSubsetsOf
<1>2. PICK x \in below : \A y \in below : <<y, x>> \notin StrictSubsetOrdering(Nat)
  <2>1. IsWellFoundedOn(StrictSubsetOrdering(Nat), FiniteSubsetsOf(Nat))
    BY FS_StrictSubsetOrderingWellFounded
  <2> HIDE DEF below
  <2> QED
    BY <1>1, <2>1, WFMin
<1>3. PICK m \in T : x = 0 .. m
  OBVIOUS
<1>4. ASSUME NEW n \in T, n < m
      PROVE  FALSE
  <2>1. 0 .. n \subseteq 0 .. m /\ m \in 0 .. m /\ m \notin 0 .. n
    BY <1>4
  <2>2. <<0 .. n, 0 .. m>> \in StrictSubsetOrdering(Nat)
    BY <2>1 DEF StrictSubsetOrdering
  <2> QED
    BY <1>2, <1>3, <2>2
<1> QED
  BY <1>4

\* SelectInSeq finds the first line that is x.
IsFirst(k, c, x) ==
  \/ k = 0 /\ \A i \in DOMAIN c : c[i] # x
  \/ k \in DOMAIN c /\ c[k] = x /\ \A i \in DOMAIN c : i < k => c[i] # x

LEMMA FirstFound ==
  ASSUME NEW S, NEW c \in Seq(S), NEW x
  PROVE  IsFirst(SelectInSeq(c, LAMBDA line : line = x), c, x)
<1> DEFINE I == {i \in 1 .. Len(c) : c[i] = x}
<1>1. SelectInSeq(c, LAMBDA line : line = x) =
        IF I # {} THEN CHOOSE m \in I : \A n \in I : m <= n ELSE 0
  BY DEF SelectInSeq, Min
<1>2. DOMAIN c = 1 .. Len(c) /\ Len(c) \in Nat
  BY LenProperties
<1>3. CASE I = {}
  BY <1>1, <1>2, <1>3 DEF IsFirst
<1>4. CASE I # {}
  <2>1. I \in SUBSET Nat
    BY <1>2
  <2>2. \E m \in I : \A n \in I : m <= n
    <3> HIDE DEF I
    <3> QED
      BY <1>4, <2>1, Smallest
  <2>3. PICK k \in I : k = (CHOOSE m \in I : \A n \in I : m <= n) /\ \A n \in I : k <= n
    BY <2>2
  <2>4. k \in DOMAIN c /\ c[k] = x /\ k \in Nat
    BY <1>2, <2>3
  <2>5. ASSUME NEW i \in DOMAIN c, i < k
        PROVE  c[i] # x
    <3>1. i \notin I
      BY <1>2, <2>3, <2>4, <2>5
    <3> QED
      BY <1>2, <3>1
  <2>6. SelectInSeq(c, LAMBDA line : line = x) = k
    BY <1>1, <1>4, <2>3
  <2> QED
    BY <2>4, <2>5, <2>6 DEF IsFirst
<1> QED
  BY <1>3, <1>4

\* r is c without the two lines of a block at k and k + 1.
Without(r, c, k, block) ==
  /\ k \in DOMAIN c /\ k + 1 \in DOMAIN c /\ c[k] = block[1] /\ c[k + 1] = block[2]
  /\ r \in Seq(Lines \cup Marks) /\ Len(r) = Len(c) - 2
  /\ \A i \in DOMAIN r : r[i] = c[IF i < k THEN i ELSE i + 2]

LEMMA BlockMarks ==
  /\ InitBlock[1] = "init begin" /\ InitBlock[2] = "init end"
  /\ ShellBlock[1] = "shell begin" /\ ShellBlock[2] = "shell end"
  /\ \A block \in Blocks : block[1] \in Marks /\ block[2] \in Marks /\ block[1] # block[2]
  /\ \A a, b \in Blocks : a[1] # b[2] /\ (a[1] = b[1] => a = b)
  /\ \A line \in Lines : line \notin Marks
<1>1. /\ InitBlock[1] = "init begin" /\ InitBlock[2] = "init end"
      /\ ShellBlock[1] = "shell begin" /\ ShellBlock[2] = "shell end"
  BY DEF InitBlock, ShellBlock
<1>2. \A block \in Blocks : \/ block = InitBlock /\ block[1] = "init begin" /\ block[2] = "init end"
                            \/ block = ShellBlock /\ block[1] = "shell begin" /\ block[2] = "shell end"
  BY <1>1 DEF Blocks
<1>3. \A line \in Lines : line \notin Marks
  BY LinesAssumption
<1>4. \A block \in Blocks : block[1] \in Marks /\ block[2] \in Marks /\ block[1] # block[2]
  BY <1>2 DEF Marks
<1>5. \A a, b \in Blocks : a[1] # b[2] /\ (a[1] = b[1] => a = b)
  BY <1>2
<1> QED
  BY <1>1, <1>3, <1>4, <1>5

LEMMA WithoutFirstIs ==
  ASSUME NEW c, Whole(c), NEW block \in Blocks
  PROVE  \/ WithoutFirst(c, block) = c /\ block[1] \notin ToSet(c)
         \/ \E k : Without(WithoutFirst(c, block), c, k, block)
<1> DEFINE n == Len(c)
           from == SelectInSeq(c, LAMBDA line : line = block[1])
           rest == SubSeq(c, from, n)
           size == SelectInSeq(rest, LAMBDA line : line = block[2])
           r == WithoutFirst(c, block)
<1>1. r = IF from = 0 \/ size = 0 THEN c
          ELSE SubSeq(c, 1, from - 1) \o SubSeq(rest, size + 1, Len(rest))
  BY DEF WithoutFirst
<1>2. c \in Seq(Lines \cup Marks) /\ n \in Nat /\ DOMAIN c = 1 .. n
      /\ \A i \in 1 .. n : c[i] \in Lines \cup Marks
  <2>1. c \in Seq(Lines \cup Marks)
    BY DEF Whole
  <2> QED
    BY <2>1, LenProperties
<1>3. IsFirst(from, c, block[1])
  BY <1>2, FirstFound
<1> HIDE DEF from, r, size, n
<1>4. CASE from = 0
  <2>1. block[1] \notin ToSet(c)
    BY <1>2, <1>3, <1>4 DEF IsFirst, ToSet
  <2> QED
    BY <1>1, <1>4, <2>1 DEF r
<1>5. CASE from # 0
  <2>1. from \in 1 .. n /\ c[from] = block[1] /\ from + 1 \in 1 .. n /\ c[from + 1] = block[2]
    BY <1>2, <1>3, <1>5 DEF IsFirst, Whole
  <2>2. /\ rest \in Seq(Lines \cup Marks) /\ Len(rest) = n - from + 1
        /\ \A i \in 1 .. n - from + 1 : rest[i] = c[from + i - 1]
    <3>1. from \in Int /\ n \in Int /\ from <= n /\ \A i \in from .. n : c[i] \in Lines \cup Marks
      BY <1>2, <2>1
    <3> QED
      BY <3>1, SubSeqProperties
  <2> HIDE DEF rest
  <2>3. IsFirst(size, rest, block[2])
    BY <2>2, FirstFound DEF size
  <2>4. DOMAIN rest = 1 .. n - from + 1
    BY <2>2, LenProperties
  <2>5. rest[1] = block[1] /\ rest[2] = block[2] /\ 1 \in DOMAIN rest /\ 2 \in DOMAIN rest
    <3>1. /\ 1 \in 1 .. n - from + 1 /\ 2 \in 1 .. n - from + 1
          /\ from + 1 - 1 = from /\ from + 2 - 1 = from + 1
      BY <1>2, <2>1
    <3>2. rest[1] = c[from + 1 - 1] /\ rest[2] = c[from + 2 - 1]
      BY <2>2, <3>1
    <3> QED
      BY <2>1, <2>4, <3>1, <3>2
  <2>6. size = 2
    <3>1. size # 0
      BY <2>3, <2>4, <2>5 DEF IsFirst
    <3>2. size \in 1 .. n - from + 1 /\ rest[size] = block[2] /\ ~(2 < size)
      BY <2>3, <2>4, <2>5, <3>1 DEF IsFirst
    <3>3. size # 1
      BY <2>5, <3>2, BlockMarks
    <3> QED
      BY <1>2, <2>1, <3>2, <3>3
  <2> DEFINE a == SubSeq(c, 1, from - 1)
             b == SubSeq(rest, 3, n - from + 1)
  <2>7. r = a \o b
    <3>1. r = SubSeq(c, 1, from - 1) \o SubSeq(rest, size + 1, Len(rest))
      <4>1. ~(from = 0 \/ size = 0)
        BY <1>5, <2>6
      <4> QED
        BY <1>1, <4>1, Zenon
    <3>2. size + 1 = 3 /\ Len(rest) = n - from + 1
      BY <2>2, <2>6
    <3> QED
      BY <3>1, <3>2
  <2>8. /\ a \in Seq(Lines \cup Marks) /\ Len(a) = from - 1
        /\ \A i \in 1 .. from - 1 : a[i] = c[i]
    <3>1. /\ 1 \in Int /\ from - 1 \in Int /\ \A i \in 1 .. from - 1 : c[i] \in Lines \cup Marks
          /\ (from - 1) - 1 + 1 = from - 1 /\ \A i \in 1 .. from - 1 : 1 + i - 1 = i
          /\ ~(1 <= from - 1) => from - 1 = 0
      BY <1>2, <2>1
    <3>2. /\ a \in Seq(Lines \cup Marks)
          /\ Len(a) = IF 1 <= from - 1 THEN (from - 1) - 1 + 1 ELSE 0
          /\ \A i \in 1 .. (from - 1) - 1 + 1 : a[i] = c[1 + i - 1]
      BY <3>1, SubSeqProperties
    <3> HIDE DEF a
    <3> QED
      BY <3>1, <3>2
  <2>9. /\ b \in Seq(Lines \cup Marks) /\ Len(b) = n - from - 1
        /\ \A i \in 1 .. n - from - 1 : b[i] = c[from + i + 1]
    <3>1. /\ 3 \in Int /\ n - from + 1 \in Int
          /\ \A i \in 3 .. n - from + 1 : i \in DOMAIN rest
          /\ (n - from + 1) - 3 + 1 = n - from - 1
          /\ ~(3 <= n - from + 1) => n - from - 1 = 0
          /\ \A i \in 1 .. n - from - 1 : 3 + i - 1 \in 1 .. n - from + 1
                                         /\ from + (3 + i - 1) - 1 = from + i + 1
      BY <1>2, <2>1, <2>4
    <3>2. \A i \in 3 .. n - from + 1 : rest[i] \in Lines \cup Marks
      BY <2>2, <3>1, ElementOfSeq, <2>4
    <3>3. /\ b \in Seq(Lines \cup Marks)
          /\ Len(b) = IF 3 <= n - from + 1 THEN (n - from + 1) - 3 + 1 ELSE 0
          /\ \A i \in 1 .. (n - from + 1) - 3 + 1 : b[i] = rest[3 + i - 1]
      BY <3>1, <3>2, SubSeqProperties
    <3> HIDE DEF b
    <3> QED
      BY <2>2, <3>1, <3>3
  <2> HIDE DEF a, b
  <2>10. /\ r \in Seq(Lines \cup Marks) /\ Len(r) = (from - 1) + (n - from - 1)
         /\ \A i \in 1 .. (from - 1) + (n - from - 1) :
              r[i] = IF i <= from - 1 THEN a[i] ELSE b[i - (from - 1)]
    BY <2>7, <2>8, <2>9, ConcatProperties
  <2>11. Len(r) = n - 2 /\ DOMAIN r = 1 .. n - 2
    <3>1. Len(r) = n - 2
      BY <1>2, <2>1, <2>10
    <3> QED
      BY <2>10, <3>1, LenProperties
  <2>12. ASSUME NEW i \in 1 .. n - 2
         PROVE  r[i] = c[IF i < from THEN i ELSE i + 2]
    <3>1. r[i] = IF i <= from - 1 THEN a[i] ELSE b[i - (from - 1)]
      BY <1>2, <2>1, <2>10
    <3>2. CASE i < from
      BY <1>2, <2>1, <2>8, <3>1, <3>2
    <3>3. CASE ~(i < from)
      <4>1. /\ ~(i <= from - 1) /\ i - (from - 1) \in 1 .. n - from - 1
            /\ from + (i - (from - 1)) + 1 = i + 2
        BY <1>2, <2>1, <3>3
      <4> QED
        BY <2>9, <3>1, <3>3, <4>1
    <3> QED
      BY <3>2, <3>3
  <2>13. Without(r, c, from, block)
    BY <1>2, <2>1, <2>10, <2>11, <2>12 DEF Without, n
  <2> QED
    BY <2>13 DEF r
<1> QED
  BY <1>4, <1>5


\* Each line of the user in r is in c as well, in the same order.
Within(r, c, at) ==
  /\ \A i \in DOMAIN r : r[i] \in Lines => at[i] \in DOMAIN c /\ c[at[i]] = r[i]
  /\ \A i, j \in DOMAIN r : i < j /\ r[i] \in Lines /\ r[j] \in Lines => at[i] < at[j]

LEMMA WithinBoth ==
  ASSUME NEW r, NEW c, NEW up, NEW down, Within(r, c, up), Within(c, r, down)
  PROVE  UserLines(r) = UserLines(c)
<1>1. ASSUME NEW a, NEW b, NEW at, Within(a, b, at)
      PROVE  /\ UserLines(a).present \subseteq UserLines(b).present
             /\ UserLines(a).order \subseteq UserLines(b).order
  <2>1. UserLines(a).present \subseteq UserLines(b).present
    BY <1>1 DEF UserLines, Within, ToSet
  <2>2. ASSUME NEW pair \in Lines \X Lines, NEW i \in DOMAIN a, NEW j \in DOMAIN a, i < j,
               a[i] = pair[1], a[j] = pair[2]
        PROVE  \E k, l \in DOMAIN b : k < l /\ b[k] = pair[1] /\ b[l] = pair[2]
    <3>1. pair[1] \in Lines /\ pair[2] \in Lines
      OBVIOUS
    <3>2. /\ at[i] \in DOMAIN b /\ at[j] \in DOMAIN b /\ at[i] < at[j]
          /\ b[at[i]] = pair[1] /\ b[at[j]] = pair[2]
      BY <1>1, <2>2, <3>1 DEF Within
    <3> QED
      BY <3>2
  <2> DEFINE Order(s) == {pair \in Lines \X Lines : \E i, j \in DOMAIN s :
                            i < j /\ s[i] = pair[1] /\ s[j] = pair[2]}
  <2>3. Order(a) \subseteq Order(b)
    BY <2>2
  <2>4. UserLines(a).order = Order(a) /\ UserLines(b).order = Order(b)
    BY DEF UserLines
  <2> HIDE DEF Order
  <2>5. UserLines(a).order \subseteq UserLines(b).order
    BY <2>3, <2>4, Zenon
  <2> QED
    BY <2>1, <2>5
<1>2. /\ UserLines(r).present = UserLines(c).present
      /\ UserLines(r).order = UserLines(c).order
  <2>1. /\ UserLines(r).present \subseteq UserLines(c).present
        /\ UserLines(c).present \subseteq UserLines(r).present
        /\ UserLines(r).order \subseteq UserLines(c).order
        /\ UserLines(c).order \subseteq UserLines(r).order
    BY <1>1, Zenon
  <2> QED
    BY <2>1, SetExtensionality, Zenon
<1> QED
  BY <1>2 DEF UserLines

\* r has the blocks whole, the lines of the user and no marker that c has not.
Alike(r, c) == Whole(r) /\ UserLines(r) = UserLines(c)
Kept(r, c)  == Alike(r, c) /\ Marks \cap ToSet(r) \subseteq ToSet(c)

LEMMA WithoutKept ==
  ASSUME NEW c, Whole(c), NEW r, NEW k, NEW block \in Blocks, Without(r, c, k, block)
  PROVE  Kept(r, c) /\ Len(r) \in Nat /\ Len(r) = Len(c) - 2 /\ block[1] \in ToSet(c)
<1> DEFINE n == Len(c)
           up == [i \in DOMAIN r |-> IF i < k THEN i ELSE i + 2]
           down == [i \in DOMAIN c |-> IF i < k THEN i ELSE i - 2]
<1>1. /\ DOMAIN c = 1 .. n /\ n \in Nat /\ DOMAIN r = 1 .. n - 2 /\ Len(r) = n - 2 /\ Len(r) \in Nat
      /\ k \in 1 .. n /\ k + 1 \in 1 .. n /\ c[k] = block[1] /\ c[k + 1] = block[2]
      /\ r \in Seq(Lines \cup Marks)
  <2>1. c \in Seq(Lines \cup Marks) /\ r \in Seq(Lines \cup Marks)
    BY DEF Whole, Without
  <2>2. DOMAIN c = 1 .. n /\ n \in Nat
    BY <2>1, LenProperties
  <2>3. DOMAIN r = 1 .. Len(r) /\ Len(r) \in Nat
    BY <2>1, LenProperties
  <2> QED
    BY <2>1, <2>2, <2>3 DEF Without
<1> HIDE DEF n
<1>2. \A i \in 1 .. n - 2 : up[i] \in 1 .. n /\ r[i] = c[up[i]]
      /\ (i < k => up[i] = i) /\ (~(i < k) => up[i] = i + 2)
  BY <1>1 DEF Without
<1>3. \A i \in 1 .. n : i # k /\ i # k + 1 =>
        /\ down[i] \in 1 .. n - 2 /\ up[down[i]] = i /\ r[down[i]] = c[i]
        /\ (i < k => down[i] = i) /\ (~(i < k) => down[i] = i - 2)
  <2> SUFFICES ASSUME NEW i \in 1 .. n, i # k, i # k + 1
               PROVE  /\ down[i] \in 1 .. n - 2 /\ up[down[i]] = i
                      /\ (i < k => down[i] = i) /\ (~(i < k) => down[i] = i - 2)
    BY <1>2
  <2>1. CASE i < k
    <3>1. down[i] = i /\ i \in 1 .. n - 2
      BY <1>1, <2>1
    <3> HIDE DEF down
    <3> QED
      BY <1>1, <1>2, <2>1, <3>1
  <2>2. CASE ~(i < k)
    <3>1. down[i] = i - 2 /\ i - 2 \in 1 .. n - 2 /\ ~(i - 2 < k) /\ (i - 2) + 2 = i
      BY <1>1, <2>2
    <3> HIDE DEF down
    <3>2. up[i - 2] = (i - 2) + 2
      BY <1>1, <1>2, <3>1
    <3> QED
      BY <1>1, <2>2, <3>1, <3>2
  <2> QED
    BY <2>1, <2>2
<1> HIDE DEF up, down
<1>4. Within(r, c, up)
  <2>1. ASSUME NEW i \in 1 .. n - 2, NEW j \in 1 .. n - 2, i < j
        PROVE  up[i] < up[j]
    <3>1. /\ i \in Nat /\ j \in Nat /\ k \in Nat
          /\ up[i] = (IF i < k THEN i ELSE i + 2) /\ up[j] = (IF j < k THEN j ELSE j + 2)
      BY <1>1, <1>2
    <3> QED
      BY <2>1, <3>1
  <2> QED
    BY <1>1, <1>2, <2>1 DEF Within
<1>5. Within(c, r, down)
  <2>1. block[1] \notin Lines /\ block[2] \notin Lines
    BY BlockMarks
  <2>2. \A i \in 1 .. n : c[i] \in Lines => i # k /\ i # k + 1
    BY <1>1, <2>1
  <2>3. ASSUME NEW i \in 1 .. n, NEW j \in 1 .. n, i < j, c[i] \in Lines, c[j] \in Lines
        PROVE  down[i] < down[j]
    BY <1>1, <1>3, <2>2, <2>3
  <2> QED
    BY <1>1, <1>3, <2>2, <2>3 DEF Within
<1>6. UserLines(r) = UserLines(c)
  BY <1>4, <1>5, WithinBoth
<1>7. ASSUME NEW b \in Blocks, NEW i \in 1 .. n - 2, r[i] = b[1]
      PROVE  i + 1 \in 1 .. n - 2 /\ r[i + 1] = b[2]
  <2>1. up[i] \in 1 .. n /\ c[up[i]] = b[1]
    BY <1>2, <1>7
  <2>2. up[i] + 1 \in 1 .. n /\ c[up[i] + 1] = b[2]
    BY <1>1, <2>1 DEF Whole
  <2>3. b[2] # block[1]
    BY BlockMarks
  <2>4. CASE i < k
    <3>1. up[i] = i /\ i + 1 # k
      BY <1>1, <1>2, <2>2, <2>3, <2>4
    <3>2. i + 1 \in 1 .. n - 2 /\ i + 1 < k
      BY <1>1, <2>4, <3>1
    <3> QED
      BY <1>2, <2>2, <3>1, <3>2
  <2>5. CASE ~(i < k)
    <3>1. up[i] = i + 2
      BY <1>2, <2>5
    <3>2. i + 1 \in 1 .. n - 2 /\ ~(i + 1 < k) /\ (i + 1) + 2 = (i + 2) + 1
      BY <1>1, <2>2, <2>5, <3>1
    <3>3. up[i + 1] = (i + 2) + 1
      BY <1>2, <3>2
    <3> QED
      BY <1>2, <2>2, <3>1, <3>2, <3>3
  <2> QED
    BY <2>4, <2>5
<1>8. Whole(r)
  BY <1>1, <1>7 DEF Whole
<1>9. ToSet(r) \subseteq ToSet(c) /\ block[1] \in ToSet(c)
  BY <1>1, <1>2 DEF ToSet
<1> QED
  BY <1>1, <1>6, <1>8, <1>9 DEF Kept, Alike, n

\* remove_block has found its way once n lines are behind it.
LEMMA CutIs ==
  ASSUME NEW c, NEW block, Len(c) \in Nat
  PROVE  \E cut : /\ cut[0] = c
                  /\ \A n \in 1 .. Len(c) : cut[n] = WithoutFirst(cut[n - 1], block)
                  /\ RemoveBlock(c, block) = cut[Len(c)]
<1> DEFINE F(g, m) == [n \in 0 .. m |-> IF n = 0 THEN c ELSE WithoutFirst(g[n - 1], block)]
           N == Len(c)
           T == {m \in 0 .. N : \A g : g # F(g, m)}
<1>1. \E g : g = F(g, N)
  <2> SUFFICES ASSUME T # {}
               PROVE  FALSE
    OBVIOUS
  <2>1. T \in SUBSET Nat
    OBVIOUS
  <2>2. PICK m \in T : \A n \in T : m <= n
    <3> HIDE DEF T
    <3> QED
      BY <2>1, Smallest
  <2>3. m \in 0 .. N /\ \A g : g # F(g, m)
    OBVIOUS
  <2>4. m # 0
    <3> SUFFICES ASSUME m = 0
                 PROVE  FALSE
      OBVIOUS
    <3> DEFINE g == [n \in 0 .. 0 |-> c]
    <3>1. g = F(g, 0)
      OBVIOUS
    <3> HIDE DEF g
    <3> QED
      BY <2>3, <3>1
  <2>5. m - 1 \in 0 .. N /\ ~(m <= m - 1) /\ m \in 1 .. N
    BY <2>3, <2>4
  <2>6. PICK g : g = F(g, m - 1)
    <3>1. m - 1 \notin T
      BY <2>2, <2>5
    <3> QED
      BY <2>5, <3>1
  <2> DEFINE h == [n \in 0 .. m |-> IF n = m THEN WithoutFirst(g[m - 1], block) ELSE g[n]]
  <2>7. \A n \in 0 .. m : h[n] = F(h, m)[n]
    <3> SUFFICES ASSUME NEW n \in 0 .. m
                 PROVE  h[n] = F(h, m)[n]
      OBVIOUS
    <3>1. F(h, m)[n] = IF n = 0 THEN c ELSE WithoutFirst(h[n - 1], block)
      OBVIOUS
    <3>2. n # 0 => n - 1 \in 0 .. m /\ n - 1 # m /\ h[n - 1] = g[n - 1]
      BY <2>5
    <3> HIDE DEF F
    <3>3. CASE n = m
      <4>1. h[n] = WithoutFirst(g[m - 1], block)
        BY <3>3
      <4> HIDE DEF h
      <4> QED
        BY <2>4, <3>1, <3>2, <3>3, <4>1
    <3>4. CASE n # m
      <4>1. n \in 0 .. m - 1
        BY <2>5, <3>4
      <4>2. g[n] = IF n = 0 THEN c ELSE WithoutFirst(g[n - 1], block)
        BY <2>6, <4>1 DEF F
      <4>3. h[n] = g[n]
        BY <3>4
      <4> HIDE DEF h
      <4> QED
        BY <3>1, <3>2, <4>2, <4>3
    <3> QED
      BY <3>3, <3>4
  <2>8. h = F(h, m)
    BY <2>7
  <2> HIDE DEF h
  <2> QED
    BY <2>3, <2>8
<1> DEFINE cut == CHOOSE g : g = F(g, N)
<1>2. cut = F(cut, N)
  BY <1>1
<1>3. RemoveBlock(c, block) = cut[N]
  BY DEF RemoveBlock
<1> HIDE DEF cut
<1>4. cut[0] = c /\ \A n \in 1 .. N : cut[n] = WithoutFirst(cut[n - 1], block)
  <2>1. \A n \in 0 .. N : cut[n] = IF n = 0 THEN c ELSE WithoutFirst(cut[n - 1], block)
    BY <1>2
  <2> HIDE DEF F
  <2> QED
    BY <2>1
<1> QED
  BY <1>3, <1>4

LEMMA KeptAgain ==
  ASSUME NEW a, NEW b, NEW c, Kept(a, b), Kept(b, c)
  PROVE  Kept(a, c)
BY DEF Kept, Alike

\* remove_block removes every whole block and nothing else.
LEMMA RemoveBlockKept ==
  ASSUME NEW c, Whole(c), NEW block \in Blocks
  PROVE  Kept(RemoveBlock(c, block), c) /\ block[1] \notin ToSet(RemoveBlock(c, block))
<1> DEFINE N == Len(c)
<1>1. N \in Nat
  BY LenProperties DEF Whole
<1>2. PICK cut : /\ cut[0] = c
                 /\ \A n \in 1 .. N : cut[n] = WithoutFirst(cut[n - 1], block)
                 /\ RemoveBlock(c, block) = cut[N]
  BY <1>1, CutIs
<1> HIDE DEF N
<1> DEFINE P(n) == /\ Kept(cut[n], c) /\ Len(cut[n]) \in Nat
                   /\ block[1] \in ToSet(cut[n]) => Len(cut[n]) + (n + n) <= N
           T == {n \in 0 .. N : ~P(n)}
<1>3. P(0)
  <2>1. Kept(c, c)
    BY DEF Kept, Alike
  <2> QED
    BY <1>1, <1>2, <2>1 DEF N
<1>4. ASSUME NEW n \in 1 .. N, P(n - 1)
      PROVE  P(n)
  <2> DEFINE a == cut[n - 1]
             b == cut[n]
  <2>1. /\ Kept(a, c) /\ Len(a) \in Nat
        /\ block[1] \in ToSet(a) => Len(a) + ((n - 1) + (n - 1)) <= N
    BY <1>4
  <2>2. b = WithoutFirst(a, block)
    BY <1>2
  <2> HIDE DEF a, b
  <2>3. Whole(a)
    BY <2>1 DEF Kept, Alike
  <2>4. CASE b = a /\ block[1] \notin ToSet(a)
    BY <2>1, <2>4 DEF a, b
  <2>5. ASSUME NEW k, Without(b, a, k, block)
        PROVE  P(n)
    <3>1. Kept(b, a) /\ Len(b) \in Nat /\ Len(b) = Len(a) - 2 /\ block[1] \in ToSet(a)
      BY <2>3, <2>5, WithoutKept
    <3>2. Kept(b, c)
      BY <2>1, <3>1, KeptAgain
    <3>3. Len(b) + (n + n) <= N
      BY <1>1, <2>1, <3>1
    <3> QED
      BY <3>1, <3>2, <3>3 DEF b
  <2> QED
    BY <2>2, <2>3, <2>4, <2>5, WithoutFirstIs
<1>5. T = {}
  <2> SUFFICES ASSUME T # {}
               PROVE  FALSE
    OBVIOUS
  <2>1. T \in SUBSET Nat
    OBVIOUS
  <2>2. PICK m \in T : \A n \in T : m <= n
    <3> HIDE DEF T
    <3> QED
      BY <2>1, Smallest
  <2>3. m \in 0 .. N /\ ~P(m)
    OBVIOUS
  <2> HIDE DEF P
  <2>4. m # 0
    BY <1>3, <2>3
  <2>5. m \in 1 .. N /\ m - 1 \in 0 .. N /\ ~(m <= m - 1)
    BY <1>1, <2>3, <2>4
  <2>6. P(m - 1)
    BY <2>2, <2>5
  <2> QED
    BY <1>4, <2>3, <2>5, <2>6
<1>6. P(N)
  <2>1. N \in 0 .. N
    BY <1>1
  <2> HIDE DEF P
  <2> QED
    BY <1>5, <2>1
<1>7. block[1] \notin ToSet(cut[N])
  <2> DEFINE b == cut[N]
  <2> SUFFICES ASSUME block[1] \in ToSet(b)
               PROVE  FALSE
    OBVIOUS
  <2>1. /\ Kept(b, c) /\ Len(b) \in Nat /\ Len(b) + (N + N) <= N
    BY <1>6
  <2> HIDE DEF b
  <2>2. Len(b) = 0
    BY <1>1, <2>1
  <2>3. b \in Seq(Lines \cup Marks)
    BY <2>1 DEF Kept, Alike, Whole
  <2>4. DOMAIN b = 1 .. 0
    BY <2>2, <2>3, LenProperties
  <2> QED
    BY <2>4 DEF ToSet
<1> QED
  BY <1>2, <1>6, <1>7

LEMMA StrippedKept ==
  ASSUME NEW c, Whole(c)
  PROVE  Kept(Stripped(c), c) /\ ~Sources(Stripped(c))
<1> DEFINE b == RemoveBlock(c, InitBlock)
<1>1. InitBlock \in Blocks /\ ShellBlock \in Blocks /\ ShellBlock[1] = "shell begin"
  BY BlockMarks DEF Blocks
<1>2. Kept(b, c)
  BY <1>1, RemoveBlockKept
<1>3. Stripped(c) = RemoveBlock(b, ShellBlock)
  BY DEF Stripped
<1> HIDE DEF b
<1>4. Whole(b)
  BY <1>2 DEF Kept, Alike
<1>5. Kept(Stripped(c), b) /\ ShellBlock[1] \notin ToSet(Stripped(c))
  BY <1>1, <1>3, <1>4, RemoveBlockKept
<1> QED
  BY <1>1, <1>2, <1>5, KeptAgain DEF Sources

LEMMA TwoLines ==
  ASSUME NEW S, NEW x \in S, NEW y \in S
  PROVE  <<x, y>> \in Seq(S) /\ Len(<<x, y>>) = 2
OBVIOUS

LEMMA BlockSeqs ==
  /\ InitBlock \in Seq(Lines \cup Marks) /\ Len(InitBlock) = 2
  /\ ShellBlock \in Seq(Lines \cup Marks) /\ Len(ShellBlock) = 2
<1>1. /\ "init begin" \in Lines \cup Marks /\ "init end" \in Lines \cup Marks
      /\ "shell begin" \in Lines \cup Marks /\ "shell end" \in Lines \cup Marks
  BY DEF Marks
<1> QED
  BY <1>1, TwoLines DEF InitBlock, ShellBlock

\* r is b behind a, which are m and n lines long.
Behind(r, a, b, m, n) ==
  /\ r \in Seq(Lines \cup Marks) /\ Len(r) = m + n /\ DOMAIN r = 1 .. m + n
  /\ \A i \in 1 .. m + n : r[i] = IF i <= m THEN a[i] ELSE b[i - m]

LEMMA Concatenated ==
  ASSUME NEW a \in Seq(Lines \cup Marks), NEW b \in Seq(Lines \cup Marks),
         NEW m \in Nat, NEW n \in Nat, Len(a) = m, Len(b) = n
  PROVE  Behind(a \o b, a, b, m, n)
<1> DEFINE r == a \o b
<1>1. /\ r \in Seq(Lines \cup Marks) /\ Len(r) = m + n
      /\ \A i \in 1 .. m + n : r[i] = IF i <= m THEN a[i] ELSE b[i - m]
  BY ConcatProperties
<1> HIDE DEF r
<1>2. DOMAIN r = 1 .. m + n
  BY <1>1, LenProperties
<1> QED
  BY <1>1, <1>2 DEF Behind, r

\* An install puts the blocks around what the user has written.
LEMMA InstalledAlike ==
  ASSUME NEW c, Whole(c)
  PROVE  Alike(Installed(c), c)
<1> DEFINE s == Stripped(c)
           n == Len(s)
           h == InitBlock \o s
           r == h \o ShellBlock
           up == [i \in DOMAIN s |-> i + 2]
           down == [i \in DOMAIN r |-> i - 2]
<1>1. Kept(s, c)
  BY StrippedKept
<1>2. Installed(c) = r
  BY DEF Installed
<1> HIDE DEF s
<1>3. Whole(s) /\ UserLines(s) = UserLines(c) /\ s \in Seq(Lines \cup Marks)
  BY <1>1 DEF Kept, Alike, Whole
<1>4. n \in Nat /\ DOMAIN s = 1 .. n
  BY <1>3, LenProperties
<1> HIDE DEF n
<1>5. /\ h \in Seq(Lines \cup Marks) /\ Len(h) = n + 2
      /\ \A i \in 1 .. n + 2 : h[i] = IF i <= 2 THEN InitBlock[i] ELSE s[i - 2]
  <2>1. Behind(h, InitBlock, s, 2, n)
    BY <1>3, <1>4, BlockSeqs, Concatenated DEF n
  <2>2. 2 + n = n + 2
    BY <1>4
  <2> HIDE DEF h
  <2> QED
    BY <2>1, <2>2 DEF Behind
<1> HIDE DEF h
<1>6. /\ r \in Seq(Lines \cup Marks) /\ DOMAIN r = 1 .. n + 4
      /\ \A i \in 1 .. n + 4 : r[i] = IF i <= n + 2 THEN h[i] ELSE ShellBlock[i - (n + 2)]
  <2>1. (n + 2) + 2 = n + 4 /\ n + 2 \in Nat
    BY <1>4
  <2>2. Behind(r, h, ShellBlock, n + 2, 2)
    BY <1>5, <2>1, BlockSeqs, Concatenated
  <2> HIDE DEF r
  <2> QED
    BY <2>1, <2>2 DEF Behind
<1> HIDE DEF r
<1>7. /\ r[1] = InitBlock[1] /\ r[2] = InitBlock[2]
      /\ r[n + 3] = ShellBlock[1] /\ r[n + 4] = ShellBlock[2]
  <2>1. /\ 1 \in 1 .. n + 4 /\ 2 \in 1 .. n + 4 /\ n + 3 \in 1 .. n + 4 /\ n + 4 \in 1 .. n + 4
        /\ 1 \in 1 .. n + 2 /\ 2 \in 1 .. n + 2 /\ 1 <= n + 2 /\ 2 <= n + 2
        /\ ~(n + 3 <= n + 2) /\ ~(n + 4 <= n + 2)
        /\ (n + 3) - (n + 2) = 1 /\ (n + 4) - (n + 2) = 2
    BY <1>4
  <2>2. /\ r[1] = h[1] /\ r[2] = h[2]
        /\ r[n + 3] = ShellBlock[1] /\ r[n + 4] = ShellBlock[2]
    BY <1>6, <2>1
  <2>3. h[1] = InitBlock[1] /\ h[2] = InitBlock[2]
    BY <1>5, <2>1
  <2> QED
    BY <2>2, <2>3
<1>8. \A i \in 1 .. n : i + 2 \in 1 .. n + 4 /\ r[i + 2] = s[i]
  <2> SUFFICES ASSUME NEW i \in 1 .. n
               PROVE  i + 2 \in 1 .. n + 4 /\ r[i + 2] = s[i]
    OBVIOUS
  <2>1. /\ i + 2 \in 1 .. n + 4 /\ i + 2 \in 1 .. n + 2 /\ i + 2 <= n + 2 /\ ~(i + 2 <= 2)
        /\ (i + 2) - 2 = i
    BY <1>4
  <2>2. r[i + 2] = h[i + 2] /\ h[i + 2] = s[(i + 2) - 2]
    BY <1>5, <1>6, <2>1
  <2> QED
    BY <2>1, <2>2
<1>9. \A i \in 1 .. n + 4 : \/ i \in {1, 2, n + 3, n + 4}
                            \/ i - 2 \in 1 .. n /\ (i - 2) + 2 = i /\ r[i] = s[i - 2]
  <2>1. \A i \in 1 .. n + 4 : i \in {1, 2, n + 3, n + 4} \/ (i - 2 \in 1 .. n /\ (i - 2) + 2 = i)
    BY <1>4
  <2> QED
    BY <1>8, <2>1
<1>10. Within(s, r, up)
  <2>1. \A i \in DOMAIN s : up[i] = i + 2 /\ i \in Int
    BY <1>4
  <2> HIDE DEF up
  <2> QED
    BY <1>4, <1>6, <1>8, <2>1 DEF Within
<1>11. Within(r, s, down)
  <2>1. \A i \in DOMAIN r : down[i] = i - 2 /\ i \in Int
    BY <1>6
  <2>2. \A block \in Blocks : block[1] \notin Lines /\ block[2] \notin Lines
    BY BlockMarks
  <2>3. r[1] \notin Lines /\ r[2] \notin Lines /\ r[n + 3] \notin Lines /\ r[n + 4] \notin Lines
    BY <1>7, <2>2 DEF Blocks
  <2> HIDE DEF down
  <2> QED
    BY <1>4, <1>6, <1>9, <2>1, <2>3 DEF Within
<1>12. UserLines(r) = UserLines(c)
  BY <1>3, <1>10, <1>11, WithinBoth
<1>13. ASSUME NEW b \in Blocks, NEW i \in 1 .. n + 4, r[i] = b[1]
       PROVE  i + 1 \in 1 .. n + 4 /\ r[i + 1] = b[2]
  <2>1. /\ InitBlock[2] # b[1] /\ ShellBlock[2] # b[1]
        /\ InitBlock[1] = b[1] => InitBlock = b
        /\ ShellBlock[1] = b[1] => ShellBlock = b
    BY BlockMarks DEF Blocks
  <2>2. CASE i = 1
    <3>1. 1 + 1 = 2 /\ 2 \in 1 .. n + 4
      BY <1>4
    <3> QED
      BY <1>7, <1>13, <2>1, <2>2, <3>1
  <2>3. CASE i = n + 3
    <3>1. (n + 3) + 1 = n + 4 /\ n + 4 \in 1 .. n + 4
      BY <1>4
    <3> QED
      BY <1>7, <1>13, <2>1, <2>3, <3>1
  <2>4. CASE i - 2 \in 1 .. n /\ (i - 2) + 2 = i /\ r[i] = s[i - 2]
    <3>1. (i - 2) + 1 \in 1 .. n /\ s[(i - 2) + 1] = b[2]
      BY <1>3, <1>4, <1>13, <2>4 DEF Whole
    <3>2. ((i - 2) + 1) + 2 = i + 1
      BY <1>13, <1>4
    <3>3. ((i - 2) + 1) + 2 \in 1 .. n + 4 /\ r[((i - 2) + 1) + 2] = b[2]
      BY <1>8, <3>1
    <3> QED
      BY <3>2, <3>3
  <2>5. i # 2 /\ i # n + 4
    BY <1>7, <1>13, <2>1
  <2> QED
    BY <1>9, <1>13, <2>2, <2>3, <2>4, <2>5
<1>14. Whole(r)
  BY <1>6, <1>13 DEF Whole
<1> QED
  BY <1>2, <1>12, <1>14 DEF Alike

Insertion(r, c, i, line) ==
  /\ r \in Seq(Lines \cup Marks) /\ DOMAIN r = 1 .. Len(c) + 1
  /\ \A j \in 1 .. Len(c) + 1 : r[j] = IF j < i THEN c[j] ELSE IF j = i THEN line ELSE c[j - 1]

LEMMA Inserted ==
  ASSUME NEW c \in Seq(Lines \cup Marks), NEW i \in 1 .. Len(c) + 1, NEW line \in Lines
  PROVE  Insertion(InsertAt(c, i, line), c, i, line)
<1> DEFINE S == Lines \cup Marks
           n == Len(c)
           a == SubSeq(c, 1, i - 1)
           x == <<line>>
           b == SubSeq(c, i, n)
           h == a \o x
           r == h \o b
<1>1. n \in Nat /\ DOMAIN c = 1 .. n /\ i \in 1 .. n + 1 /\ \A j \in 1 .. n : c[j] \in S
  <2>1. n \in Nat /\ DOMAIN c = 1 .. n
    BY LenProperties
  <2> QED
    BY <2>1, ElementOfSeq
<1>2. InsertAt(c, i, line) = r
  BY DEF InsertAt
<1>3. x \in Seq(S) /\ Len(x) = 1 /\ x[1] = line
  OBVIOUS
<1> HIDE DEF n, x
<1>4. /\ a \in Seq(S) /\ Len(a) = i - 1 /\ \A j \in 1 .. i - 1 : a[j] = c[j]
  <2>1. /\ 1 \in Int /\ i - 1 \in Int /\ \A j \in 1 .. i - 1 : c[j] \in S
        /\ (i - 1) - 1 + 1 = i - 1 /\ \A j \in 1 .. i - 1 : 1 + j - 1 = j
        /\ ~(1 <= i - 1) => i - 1 = 0
    BY <1>1
  <2>2. /\ a \in Seq(S) /\ Len(a) = IF 1 <= i - 1 THEN (i - 1) - 1 + 1 ELSE 0
        /\ \A j \in 1 .. (i - 1) - 1 + 1 : a[j] = c[1 + j - 1]
    BY <2>1, SubSeqProperties
  <2> HIDE DEF a
  <2> QED
    BY <2>1, <2>2
<1>5. /\ b \in Seq(S) /\ Len(b) = n - i + 1 /\ \A j \in 1 .. n - i + 1 : b[j] = c[i + j - 1]
  <2>1. /\ i \in Int /\ n \in Int /\ \A j \in i .. n : c[j] \in S
        /\ ~(i <= n) => n - i + 1 = 0
    BY <1>1
  <2>2. /\ b \in Seq(S) /\ Len(b) = IF i <= n THEN n - i + 1 ELSE 0
        /\ \A j \in 1 .. n - i + 1 : b[j] = c[i + j - 1]
    BY <2>1, SubSeqProperties
  <2> HIDE DEF b
  <2> QED
    BY <2>1, <2>2
<1> HIDE DEF a, b
<1>6. /\ h \in Seq(S) /\ Len(h) = i /\ \A j \in 1 .. i : h[j] = IF j < i THEN c[j] ELSE line
  <2>1. i - 1 \in Nat /\ (i - 1) + 1 = i
    BY <1>1
  <2>2. Behind(h, a, x, i - 1, 1)
    BY <1>3, <1>4, <2>1, Concatenated
  <2> HIDE DEF h
  <2>3. ASSUME NEW j \in 1 .. i
        PROVE  /\ (j <= i - 1) <=> (j < i)
               /\ (j < i) => j \in 1 .. i - 1
               /\ ~(j < i) => j - (i - 1) = 1
    BY <1>1
  <2> QED
    BY <1>3, <1>4, <2>1, <2>2, <2>3 DEF Behind
<1> HIDE DEF h
<1>7. /\ r \in Seq(S) /\ DOMAIN r = 1 .. n + 1
      /\ \A j \in 1 .. n + 1 : r[j] = IF j <= i THEN h[j] ELSE b[j - i]
  <2>1. i + (n - i + 1) = n + 1 /\ i \in Nat /\ n - i + 1 \in Nat
    BY <1>1
  <2>2. Behind(r, h, b, i, n - i + 1)
    BY <1>5, <1>6, <2>1, Concatenated
  <2> HIDE DEF r
  <2> QED
    BY <2>1, <2>2 DEF Behind
<1> HIDE DEF r
<1>8. ASSUME NEW j \in 1 .. n + 1
      PROVE  r[j] = IF j < i THEN c[j] ELSE IF j = i THEN line ELSE c[j - 1]
  <2>1. CASE j <= i
    <3>1. j \in 1 .. i /\ (~(j < i) => j = i)
      BY <1>1, <2>1
    <3> QED
      BY <1>6, <1>7, <2>1, <3>1
  <2>2. CASE ~(j <= i)
    <3>1. j - i \in 1 .. n - i + 1 /\ i + (j - i) - 1 = j - 1 /\ ~(j < i) /\ j # i
      BY <1>1, <2>2
    <3> QED
      BY <1>5, <1>7, <2>2, <3>1
  <2> QED
    BY <2>1, <2>2
<1> QED
  BY <1>2, <1>7, <1>8 DEF Insertion, n

Outside(c, i) == i > 1 => c[i - 1] \notin {"init begin", "shell begin"}

\* A line put outside the blocks leaves them whole.
LEMMA LineAdded ==
  ASSUME NEW c, Whole(c), NEW line \in Lines, NEW i \in 1 .. Len(c) + 1,
         Outside(c, i)
  PROVE  Whole(InsertAt(c, i, line)) /\ (Sources(InsertAt(c, i, line)) => Sources(c))
<1> DEFINE r == InsertAt(c, i, line)
           n == Len(c)
<1>1. /\ c \in Seq(Lines \cup Marks) /\ n \in Nat /\ DOMAIN c = 1 .. n /\ i \in 1 .. n + 1
      /\ line \in Lines \cup Marks
  BY LenProperties DEF Whole
<1>2. /\ r \in Seq(Lines \cup Marks) /\ DOMAIN r = 1 .. n + 1
      /\ \A j \in 1 .. n + 1 : r[j] = IF j < i THEN c[j] ELSE IF j = i THEN line ELSE c[j - 1]
  <2>1. Insertion(r, c, i, line)
    BY <1>1, Inserted
  <2> HIDE DEF r
  <2> QED
    BY <2>1 DEF Insertion
<1>3. /\ \A b \in Blocks : b[1] \in {"init begin", "shell begin"} /\ line # b[1]
      /\ line # "shell begin"
  <2>1. \A b \in Blocks : b[1] \in {"init begin", "shell begin"}
    BY BlockMarks DEF Blocks
  <2>2. line \notin Marks
    BY BlockMarks
  <2> QED
    BY <2>1, <2>2, BlockMarks DEF Marks
<1> HIDE DEF r, n
<1>4. ASSUME NEW b \in Blocks, NEW j \in 1 .. n + 1, r[j] = b[1]
      PROVE  j + 1 \in 1 .. n + 1 /\ r[j + 1] = b[2]
  <2>1. j # i
    <3> SUFFICES ASSUME j = i
                 PROVE  FALSE
      OBVIOUS
    <3>1. r[j] = line
      BY <1>1, <1>2
    <3> QED
      BY <1>3, <1>4, <3>1
  <2>2. CASE j < i
    <3>1. j \in 1 .. n /\ c[j] = b[1]
      BY <1>1, <1>2, <1>4, <2>2
    <3>2. j + 1 \in 1 .. n /\ c[j + 1] = b[2]
      BY <1>1, <3>1 DEF Whole
    <3>3. j + 1 # i
      <4> SUFFICES ASSUME j + 1 = i
                   PROVE  FALSE
        OBVIOUS
      <4>1. i > 1 /\ i - 1 = j
        BY <1>1, <3>1
      <4> QED
        BY <1>3, <3>1, <4>1 DEF Outside
    <3>4. j + 1 < i /\ j + 1 \in 1 .. n + 1
      BY <1>1, <2>2, <3>2, <3>3
    <3> QED
      BY <1>2, <3>2, <3>4
  <2>3. CASE i < j
    <3>1. j - 1 \in 1 .. n /\ c[j - 1] = b[1] /\ (j - 1) + 1 = j
      BY <1>1, <1>2, <1>4, <2>3
    <3>2. j \in 1 .. n /\ c[j] = b[2]
      BY <1>1, <3>1 DEF Whole
    <3>3. j + 1 \in 1 .. n + 1 /\ ~(j + 1 < i) /\ j + 1 # i /\ (j + 1) - 1 = j
      BY <1>1, <2>3, <3>2
    <3> QED
      BY <1>2, <3>2, <3>3
  <2> QED
    BY <1>1, <1>4, <2>1, <2>2, <2>3
<1>5. Whole(r)
  BY <1>2, <1>4 DEF Whole
<1>6. ASSUME NEW j \in 1 .. n + 1, r[j] = "shell begin"
      PROVE  \E k \in 1 .. n : c[k] = "shell begin"
  <2>1. (j < i /\ j \in 1 .. n /\ r[j] = c[j]) \/ (j = i /\ r[j] = line)
        \/ (j - 1 \in 1 .. n /\ r[j] = c[j - 1])
    BY <1>1, <1>2
  <2> QED
    BY <1>3, <1>6, <2>1
<1>7. Sources(r) => Sources(c)
  BY <1>1, <1>2, <1>6 DEF Sources, ToSet
<1> QED
  BY <1>5, <1>7 DEF r

-----------------------------------------------------------------------------
(* Who relies on what.                                                     *)

LEMMA OnlyJoined ==
  ASSUME NEW a \in Seq(StepTypes), NEW b \in Seq(StepTypes), NEW ops, Only(a, ops), Only(b, ops)
  PROVE  Only(a \o b, ops)
<1> DEFINE c == a \o b
<1>1. Joined(a, b, c) /\ DOMAIN a = 1 .. Len(a) /\ DOMAIN b = 1 .. Len(b)
  BY BothPlans, LenProperties
<1> HIDE DEF c
<1> QED
  BY <1>1 DEF Joined, Only, c

LEMMA EachOp ==
  ASSUME NEW op \in Neutral
  PROVE  /\ Only(Each(op), {op})
         /\ \A s \in ToSet(Scripts) : \E i \in DOMAIN Each(op) : Each(op)[i] = Step(op, s)
<1>1. DOMAIN Each(op) = DOMAIN Scripts /\ \A i \in DOMAIN Scripts : Each(op)[i] = Step(op, Scripts[i])
  BY DEF Each
<1>2. \A s : Step(op, s).op = op
  BY DEF Step
<1> QED
  BY <1>1, <1>2 DEF Only, ToSet

LEMMA PlanSuits ==
  ASSUME NEW does \in {"start", "install", "uninstall"}
  PROVE  /\ PlanFits(does, Plan(does))
         /\ does = "install" => \E i \in DOMAIN Plan(does) : Plan(does)[i] = Step("write", Main)
         /\ does = "uninstall" => Has(Plan(does), "rc")
<1>1. /\ "refresh" \in Neutral /\ "status" \in Neutral /\ "write" \in Neutral
      /\ "rc" \in Neutral /\ "remove" \in Neutral
  BY DEF Neutral
<1>2. WriteMirror \in Seq(StepTypes) /\ Only(WriteMirror, {"stamp", "spec", "seal"})
  BY WriteMirrorInOrder DEF Only
<1>3. CASE does = "start"
  <2> DEFINE S == {"refresh", "status", "stamp", "spec", "seal"}
             s == <<Step("status", None)>>
             e == Each("refresh")
             w == e \o s
  <2>1. s \in Seq(StepTypes) /\ Only(s, S)
    <3>1. s \in Seq(StepTypes)
      BY <1>1, OneNeutral
    <3>2. DOMAIN s = {1} /\ s[1] = Step("status", None) /\ Step("status", None).op = "status"
      BY DEF Step
    <3> QED
      BY <3>1, <3>2 DEF Only
  <2>2. e \in Seq(StepTypes) /\ Only(e, S)
    BY <1>1, EachNeutral, EachOp DEF Only
  <2>3. Only(WriteMirror, S)
    BY <1>2 DEF Only
  <2>4. Plan(does) = w \o WriteMirror
    BY <1>3 DEF Plan, Refresh
  <2> HIDE DEF s, e, S
  <2>5. w \in Seq(StepTypes) /\ Only(w, S)
    BY <2>1, <2>2, OnlyJoined, ConcatProperties
  <2> HIDE DEF w
  <2>6. Only(w \o WriteMirror, S)
    BY <1>2, <2>3, <2>5, OnlyJoined
  <2> QED
    BY <1>3, <2>4, <2>6 DEF PlanFits, S
<1>4. CASE does = "install"
  <2> DEFINE S == {"write", "stamp", "spec", "seal", "rc"}
             x == Step("rc", None)
             r == <<x>>
             e == Each("write")
             w == e \o WriteMirror
             c == w \o r
  <2>1. r \in Seq(StepTypes) /\ Len(r) = 1 /\ r[1] = x /\ x.op = "rc"
    BY <1>1, OneNeutral DEF Step
  <2>2. e \in Seq(StepTypes) /\ Only(e, {"write"})
    BY <1>1, EachNeutral, EachOp
  <2>3. PICK k \in DOMAIN e : e[k] = Step("write", Main)
    BY <1>1, EachOp, LinesAssumption DEF Main
  <2>4. Plan(does) = c
    BY <1>4 DEF Plan
  <2> HIDE DEF r, e, x
  <2>5. Joined(e, WriteMirror, w) /\ w \in Seq(StepTypes)
    BY <1>2, <2>2, BothPlans DEF Joined
  <2>6. Only(w, {"write", "stamp", "spec", "seal"})
    <3>1. Only(e, {"write", "stamp", "spec", "seal"}) /\ Only(WriteMirror, {"write", "stamp", "spec", "seal"})
      BY <1>2, <2>2 DEF Only
    <3> QED
      BY <1>2, <2>2, <3>1, OnlyJoined
  <2>7. k \in DOMAIN w /\ w[k] = Step("write", Main)
    <3>1. DOMAIN e = 1 .. Len(e)
      BY <2>2, LenProperties
    <3> QED
      BY <2>3, <2>5, <3>1 DEF Joined
  <2> HIDE DEF w
  <2>8. Joined(w, r, c) /\ DOMAIN w = 1 .. Len(w) /\ Len(w) \in Nat
    BY <2>1, <2>5, BothPlans, LenProperties
  <2> HIDE DEF c
  <2>9. /\ DOMAIN c = 1 .. Len(w) + 1
        /\ \A i \in 1 .. Len(w) : i \in DOMAIN c /\ c[i] = w[i]
        /\ c[Len(w) + 1] = x
    <3>1. /\ DOMAIN c = 1 .. Len(w) + 1
          /\ \A i \in 1 .. Len(w) : i \in 1 .. Len(w) + 1 /\ c[i] = w[i]
          /\ \A i \in 1 .. 1 : c[i + Len(w)] = r[i]
      BY <2>1, <2>8 DEF Joined
    <3>2. c[1 + Len(w)] = r[1] /\ 1 + Len(w) = Len(w) + 1
      BY <2>8, <3>1
    <3> QED
      BY <2>1, <3>1, <3>2
  <2>10. ASSUME NEW i \in DOMAIN c
         PROVE  /\ c[i].op \in S
                /\ \A j \in DOMAIN c : i < j => c[i].op # "rc"
    <3>1. CASE i \in 1 .. Len(w)
      BY <2>6, <2>8, <2>9, <3>1 DEF Only
    <3>2. CASE i \notin 1 .. Len(w)
      <4>1. i = Len(w) + 1 /\ \A j \in DOMAIN c : ~(i < j)
        BY <2>8, <2>9, <3>2
      <4> QED
        BY <2>1, <2>9, <4>1
    <3> QED
      BY <3>1, <3>2
  <2>11. Only(c, S)
    BY <2>10 DEF Only
  <2>12. k \in DOMAIN c /\ c[k] = Step("write", Main)
    BY <2>7, <2>8, <2>9
  <2> QED
    BY <1>4, <2>4, <2>10, <2>11, <2>12 DEF PlanFits
<1>5. CASE does = "uninstall"
  <2> DEFINE x == Step("rc", None)
             r == <<x>>
             e == Each("remove")
             c == r \o e
  <2>1. r \in Seq(StepTypes) /\ Len(r) = 1 /\ r[1] = x /\ x.op = "rc"
    BY <1>1, OneNeutral DEF Step
  <2>2. e \in Seq(StepTypes) /\ Only(e, {"remove"})
    BY <1>1, EachNeutral, EachOp
  <2>3. Plan(does) = c
    BY <1>5 DEF Plan, Uninstall
  <2> HIDE DEF r, e, x
  <2>4. Joined(r, e, c) /\ DOMAIN e = 1 .. Len(e) /\ Len(e) \in Nat
    BY <2>1, <2>2, BothPlans, LenProperties
  <2> HIDE DEF c
  <2>5. /\ DOMAIN c = 1 .. 1 + Len(e) /\ c[1] = x
        /\ \A i \in DOMAIN c : i = 1 \/ (i - 1 \in 1 .. Len(e) /\ c[i] = e[i - 1])
    <3>1. /\ DOMAIN c = 1 .. 1 + Len(e)
          /\ \A i \in 1 .. 1 : c[i] = r[i]
          /\ \A i \in 1 .. Len(e) : c[i + 1] = e[i]
          /\ \A i \in 1 .. 1 + Len(e) : i \in 1 .. 1 \/ (i - 1 \in 1 .. Len(e) /\ (i - 1) + 1 = i)
      BY <2>1, <2>4 DEF Joined
    <3>2. c[1] = r[1]
      BY <3>1
    <3>3. \A i \in DOMAIN c : i = 1 \/ (i - 1 \in 1 .. Len(e) /\ c[i] = e[i - 1])
      BY <3>1
    <3> QED
      BY <2>1, <3>1, <3>2, <3>3
  <2>6. ASSUME NEW j \in DOMAIN c
        PROVE  /\ c[j].op \in {"rc", "remove"}
               /\ \A i \in DOMAIN c : i < j => c[j].op # "rc"
    <3>1. CASE j = 1
      <4>1. \A i \in DOMAIN c : ~(i < j)
        BY <2>4, <2>5, <3>1
      <4> QED
        BY <2>1, <2>5, <3>1, <4>1
    <3>2. CASE j # 1
      BY <2>2, <2>4, <2>5, <3>2 DEF Only
    <3> QED
      BY <3>1, <3>2
  <2>7. Only(c, {"rc", "remove"})
    BY <2>6 DEF Only
  <2>8. Has(c, "rc")
    <3>1. 1 \in DOMAIN c
      BY <2>4, <2>5
    <3> QED
      BY <2>1, <2>5, <3>1 DEF Has
  <2> QED
    BY <1>5, <2>3, <2>6, <2>7, <2>8 DEF PlanFits
<1> QED
  BY <1>3, <1>4, <1>5

LEMMA TailFits ==
  ASSUME NEW plan \in Seq(StepTypes), plan # <<>>, NEW does, PlanFits(does, plan)
  PROVE  PlanFits(does, Tail(plan))
<1> DEFINE rest == Tail(plan)
<1>1. /\ \A i \in DOMAIN rest : i + 1 \in DOMAIN plan /\ rest[i] = plan[i + 1]
      /\ DOMAIN rest = 1 .. Len(plan) - 1 /\ Len(plan) \in Nat
  BY TailIndices
<1> HIDE DEF rest
<1>2. \A i, j \in DOMAIN rest : i < j => i + 1 < j + 1
  BY <1>1
<1>3. \A ops : Only(plan, ops) => Only(rest, ops)
  BY <1>1 DEF Only
<1> QED
  BY <1>1, <1>2, <1>3 DEF PlanFits, rest

\* What a step at the head of a plan says of the process
LEMMA HeadFits ==
  ASSUME NEW d, ProcOK(d), d.plan # <<>>, PlanFits(d.does, d.plan)
  PROVE  /\ Head(d.plan).op \in {"refresh", "status"} => d.does = "start"
         /\ Head(d.plan).op = "remove" => d.does = "uninstall" /\ ~Has(d.plan, "rc")
         /\ Head(d.plan).op = "rc" => \/ d.does = "install" /\ Tail(d.plan) = <<>>
                                      \/ d.does = "uninstall" /\ ~Has(Tail(d.plan), "rc")
         /\ Head(d.plan).op = "write" => d.does = "install"
<1> DEFINE plan == d.plan
           rest == Tail(plan)
<1>1. plan \in Seq(StepTypes) /\ plan # <<>>
  BY DEF ProcOK, ProcTypes
<1>2. /\ Head(plan) = plan[1] /\ 1 \in DOMAIN plan /\ DOMAIN plan = 1 .. Len(plan) /\ Len(plan) \in Nat
      /\ \A i \in DOMAIN rest : i + 1 \in DOMAIN plan /\ rest[i] = plan[i + 1] /\ 1 < i + 1
      /\ rest \in Seq(StepTypes) /\ DOMAIN rest = 1 .. Len(plan) - 1
  BY <1>1, TailIndices
<1> HIDE DEF rest
<1>3. \A ops : Only(plan, ops) => plan[1].op \in ops
  BY <1>2 DEF Only
<1>4. \/ d.does = "start" /\ plan[1].op \in {"refresh", "status", "stamp", "spec", "seal"}
      \/ /\ d.does = "install" /\ plan[1].op \in {"write", "stamp", "spec", "seal", "rc"}
         /\ \A j \in DOMAIN plan : 1 < j => plan[1].op # "rc"
      \/ /\ d.does = "uninstall" /\ plan[1].op \in {"rc", "remove"}
         /\ \A j \in DOMAIN plan : 1 < j => plan[j].op # "rc"
  BY <1>1, <1>2, <1>3 DEF PlanFits
<1>5. ASSUME \A j \in DOMAIN plan : 1 < j => plan[1].op # "rc", plan[1].op = "rc"
      PROVE  rest = <<>>
  <2>1. DOMAIN rest = {}
    BY <1>2, <1>5
  <2>2. Len(rest) = 0
    BY <1>2, <2>1, LenProperties
  <2> QED
    BY <1>2, <2>2, EmptySeq
<1>6. ASSUME \A j \in DOMAIN plan : 1 < j => plan[j].op # "rc"
      PROVE  ~Has(rest, "rc") /\ (plan[1].op = "remove" => ~Has(plan, "rc"))
  <2>1. ~Has(rest, "rc")
    BY <1>2, <1>6 DEF Has
  <2>2. \A j \in DOMAIN plan : j = 1 \/ 1 < j
    BY <1>2
  <2> QED
    BY <1>6, <2>1, <2>2 DEF Has
<1> QED
  BY <1>2, <1>4, <1>5, <1>6 DEF rest

LEMMA DoneFits ==
  ASSUME NEW d, ProcOK(d), d.plan # <<>>, PlanFits(d.does, d.plan)
  PROVE  /\ Done(d).plan = Tail(d.plan) /\ Done(d).phase = "look" /\ ProcOK(Done(d))
         /\ Done(d).plan # <<>> => Done(d).does = d.does /\ Done(d).rc = d.rc
         /\ PlanFits(Done(d).does, Done(d).plan)
<1>1. d \in ProcTypes(d.rc) /\ d.plan \in Seq(StepTypes)
  BY DEF ProcOK, ProcTypes
<1>2. Done(d).plan = Tail(d.plan) /\ Done(d).phase = "look" /\ ProcOK(Done(d))
  BY DoneOK
<1>3. Done(d).plan # <<>> => Done(d).does = d.does /\ Done(d).rc = d.rc
  BY <1>1 DEF Done, Ended, ProcTypes
<1>4. PlanFits(d.does, Tail(d.plan))
  BY <1>1, TailFits
<1>5. PlanFits(Done(d).does, Done(d).plan)
  BY <1>2, <1>3, <1>4 DEF PlanFits
<1> QED
  BY <1>2, <1>3, <1>5

\* A process with nothing to do, or one that only starts.
LEMMA IdleRelies ==
  ASSUME NEW d, ProcOK(d), PlanFits(d.does, d.plan), d.plan = <<>> \/ d.does = "start"
  PROVE  Relies(d) /\ Relies(d)'
<1>1. ~AtRc(d)
  BY HeadFits DEF AtRc
<1> QED
  BY <1>1 DEF Relies

LEMMA StillRelies ==
  ASSUME NEW d, Relies(d), scripts[Main] # 0 => scripts'[Main] # 0, rc' = rc
  PROVE  Relies(d)'
BY DEF Relies, AtRc

\* The one process that moves has to see to itself, and to scripts and .zshrc.
LEMMA OneSourced ==
  ASSUME Mirrored, Sourced, NEW p \in Procs, NEW e, ProcOK(e), proc' = [proc EXCEPT ![p] = e],
         PlanFits(e.does, e.plan), CommandOnly(p, e), Relies(e)',
         Whole(rc'), scripts' \in [ToSet(Scripts) -> Nat], RcFindsScripts', UserLinesStay',
         \/ p = "command"
         \/ rc' = rc /\ (scripts[Main] # 0 => scripts'[Main] # 0)
  PROVE  Sourced'
<1>1. proc'[p] = e /\ \A q \in Procs : q # p => proc'[q] = proc[q]
  BY OneMoves DEF Mirrored
<1>2. RcTypes'
  BY <1>1 DEF Sourced, RcTypes
<1>3. ASSUME NEW q \in Procs
      PROVE  Relies(proc[q])'
  <2>1. CASE q = p
    <3>1. proc'[q] = e
      BY <1>1, <2>1
    <3> QED
      BY <3>1 DEF Relies
  <2>2. CASE q # p
    <3>1. PICK d : d = proc[q]
      OBVIOUS
    <3>2. /\ ProcOK(d) /\ PlanFits(d.does, d.plan) /\ CommandOnly(q, d) /\ Relies(d)
      BY <3>1 DEF Mirrored, TypeOK, Sourced, RcTypes
    <3>3. Relies(d)'
      <4>1. CASE p = "command"
        BY <2>2, <3>2, <4>1, IdleRelies DEF CommandOnly
      <4>2. CASE p # "command"
        BY <3>2, <4>2, StillRelies
      <4> QED
        BY <4>1, <4>2
    <3>4. proc'[q] = d
      BY <1>1, <2>2, <3>1
    <3> QED
      BY <3>3, <3>4 DEF Relies
  <2> QED
    BY <2>1, <2>2
<1> QED
  BY <1>2, <1>3 DEF Sourced

\* A step that has to do with neither the scripts nor .zshrc.
Goes(d, e) ==
  \/ e.plan = <<>>
  \/ /\ d.plan # <<>> /\ Head(d.plan).op \notin {"write", "rc"}
     /\ e.does = d.does
     /\ e.plan = d.plan \/ (e.plan = Tail(d.plan) /\ e.phase = "look")

LEMMA GoesOn ==
  ASSUME NEW d, ProcOK(d), NEW e, ProcOK(e), PlanFits(d.does, d.plan), Relies(d), Goes(d, e),
         NEW p, CommandOnly(p, d), scripts[Main] # 0 => scripts'[Main] # 0, rc' = rc
  PROVE  PlanFits(e.does, e.plan) /\ CommandOnly(p, e) /\ Relies(e)'
<1>1. CASE e.plan = <<>>
  <2>1. PlanFits(e.does, e.plan) /\ CommandOnly(p, e)
    BY <1>1 DEF PlanFits, CommandOnly
  <2> QED
    BY <1>1, <2>1, IdleRelies
<1>2. CASE e.plan # <<>>
  <2>1. /\ d.plan # <<>> /\ Head(d.plan).op \notin {"write", "rc"} /\ e.does = d.does
        /\ e.plan = d.plan \/ (e.plan = Tail(d.plan) /\ e.phase = "look")
    BY <1>2 DEF Goes
  <2>2. d.plan \in Seq(StepTypes)
    BY DEF ProcOK, ProcTypes
  <2>3. PlanFits(e.does, e.plan) /\ CommandOnly(p, e)
    BY <2>1, <2>2, TailFits DEF CommandOnly
  <2>4. ~AtRc(e)
    BY <2>1 DEF AtRc
  <2>5. Has(d.plan, "rc") => Has(e.plan, "rc")
    BY <2>1, <2>2, TailHas
  <2>6. ASSUME NEW i \in DOMAIN d.plan, d.plan[i] = Step("write", Main)
        PROVE  \E j \in DOMAIN e.plan : e.plan[j] = Step("write", Main)
    <3>1. i = 1 => Head(d.plan) = d.plan[i]
      BY <2>1, <2>2, TailIndices
    <3>2. i # 1
      BY <2>1, <2>6, <3>1 DEF Step
    <3>3. i - 1 \in DOMAIN Tail(d.plan) /\ Tail(d.plan)[i - 1] = d.plan[i]
      BY <2>1, <2>2, <3>2, TailIndices
    <3> QED
      BY <2>1, <2>6, <3>3
  <2>7. Relies(d)'
    BY StillRelies
  <2> QED
    BY <2>1, <2>3, <2>4, <2>5, <2>6, <2>7 DEF Relies
<1> QED
  BY <1>1, <1>2

LEMMA GoesSourced ==
  ASSUME Mirrored, Sourced, NEW p \in Procs, NEW e, ProcOK(e), Goes(proc[p], e),
         proc' = [proc EXCEPT ![p] = e], UNCHANGED <<scripts, rc>>,
         history'.lines = history.lines
  PROVE  Sourced'
<1>1. PICK d : d = proc[p]
  OBVIOUS
<1>2. /\ ProcOK(d) /\ PlanFits(d.does, d.plan) /\ CommandOnly(p, d) /\ Relies(d) /\ Goes(d, e)
  BY <1>1 DEF Mirrored, TypeOK, Sourced, RcTypes
<1>3. PlanFits(e.does, e.plan) /\ CommandOnly(p, e) /\ Relies(e)'
  BY <1>2, GoesOn
<1>4. Whole(rc') /\ scripts' \in [ToSet(Scripts) -> Nat] /\ RcFindsScripts' /\ UserLinesStay'
  BY DEF Sourced, RcTypes, RcFindsScripts, UserLinesStay
<1> QED
  BY <1>3, <1>4, OneSourced

-----------------------------------------------------------------------------
(* Every action keeps it.                                                  *)

LEMMA LaunchSourced ==
  ASSUME Mirrored, Sourced, NEW p \in Procs, NEW does \in {"start", "install", "uninstall"},
         Launch(p, does), does # "start" => p = "command"
  PROVE  Sourced'
<1> DEFINE x == [Ended EXCEPT !.does = does, !.version = release, !.plan = Plan(does)]
<1>1. PICK e : e = x
  OBVIOUS
<1>2. /\ PlanFits(does, Plan(does))
      /\ does = "install" => \E i \in DOMAIN Plan(does) : Plan(does)[i] = Step("write", Main)
      /\ does = "uninstall" => Has(Plan(does), "rc")
      /\ Plan(does) \in Seq(StepTypes) /\ InOrder(Plan(does))
  BY PlanSuits, PlanInOrder
<1>3. release \in 1 .. Releases /\ 1 .. Releases \subseteq Nat
  BY Constants DEF Mirrored, TypeOK
<1>4. /\ x.plan = Plan(does) /\ x.does = does /\ x.phase = "look" /\ x.version = release
      /\ x.stamp = Ended.stamp /\ x.rc = Ended.rc /\ x \in ProcTypes(Ended.rc)
  <2>1. ProcOK(Ended) /\ Ended.phase = "look"
    BY EndedOK DEF Ended
  <2> HIDE DEF Ended
  <2> QED
    BY <1>2, <1>3, <2>1 DEF ProcOK, ProcTypes
<1>5. proc' = [proc EXCEPT ![p] = x] /\ UNCHANGED <<scripts, rc, history>>
  BY DEF Launch
<1> HIDE DEF x
<1>6. ProcOK(e)
  BY <1>1, <1>2, <1>3, <1>4, EndedOK DEF ProcOK
<1>7. e.plan = Plan(does) /\ e.does = does /\ e.phase = "look" /\ proc' = [proc EXCEPT ![p] = e]
  BY <1>1, <1>4, <1>5
<1>8. PlanFits(e.does, e.plan) /\ CommandOnly(p, e) /\ Relies(e)'
  BY <1>2, <1>7 DEF CommandOnly, Relies, AtRc
<1>9. Whole(rc') /\ scripts' \in [ToSet(Scripts) -> Nat] /\ RcFindsScripts' /\ UserLinesStay'
  BY <1>5 DEF Sourced, RcTypes, RcFindsScripts, UserLinesStay
<1> QED
  BY <1>5, <1>6, <1>7, <1>8, <1>9, OneSourced

\* A process at one of its steps, and what it is once the step is done.
LEMMA AtStep ==
  ASSUME Mirrored, Sourced, NEW p \in Procs, proc[p].plan # <<>>
  PROVE  \E d, r : /\ d = proc[p] /\ r = Done(d)
                   /\ ProcOK(d) /\ PlanFits(d.does, d.plan) /\ CommandOnly(p, d) /\ Relies(d)
                   /\ r.plan = Tail(d.plan) /\ r.phase = "look" /\ ProcOK(r)
                   /\ r.plan # <<>> => r.does = d.does /\ r.rc = d.rc
                   /\ PlanFits(r.does, r.plan)
<1>1. PICK d : d = proc[p]
  OBVIOUS
<1>2. /\ ProcOK(d) /\ PlanFits(d.does, d.plan) /\ CommandOnly(p, d) /\ Relies(d) /\ d.plan # <<>>
  BY <1>1 DEF Mirrored, TypeOK, Sourced, RcTypes
<1>3. PICK r : r = Done(d)
  OBVIOUS
<1>4. /\ r.plan = Tail(d.plan) /\ r.phase = "look" /\ ProcOK(r)
      /\ r.plan # <<>> => r.does = d.does /\ r.rc = d.rc
      /\ PlanFits(r.does, r.plan)
  BY <1>2, <1>3, DoneFits
<1> QED
  BY <1>1, <1>2, <1>3, <1>4

LEMMA LookScriptSourced ==
  ASSUME Mirrored, Sourced, NEW p \in Procs, LookAtScript(p)
  PROVE  Sourced'
<1>1. proc[p].plan # <<>> /\ Head(proc[p].plan).op = "refresh"
  BY DEF LookAtScript, At
<1>2. PICK d, r : /\ d = proc[p] /\ r = Done(d)
                  /\ ProcOK(d) /\ PlanFits(d.does, d.plan) /\ CommandOnly(p, d) /\ Relies(d)
                  /\ r.plan = Tail(d.plan) /\ r.phase = "look" /\ ProcOK(r)
                  /\ r.plan # <<>> => r.does = d.does /\ r.rc = d.rc
                  /\ PlanFits(r.does, r.plan)
  BY <1>1, AtStep
<1>3. PICK w : w = [d EXCEPT !.phase = "write"]
  OBVIOUS
<1>4. ProcOK(w) /\ w.plan = d.plan /\ w.does = d.does
  <2>1. ProcOK(d)
    BY <1>2
  <2>2. ProcOK([d EXCEPT !.phase = "write"]) /\ [d EXCEPT !.phase = "write"].plan = d.plan
    BY <2>1, PhaseOK
  <2> QED
    BY <1>2, <1>3, <2>2 DEF ProcOK, ProcTypes
<1>5. proc' = [proc EXCEPT ![p] = r] \/ proc' = [proc EXCEPT ![p] = w]
  <2> HIDE DEF Done
  <2> QED
    BY <1>2, <1>3 DEF LookAtScript, Mirrored, TypeOK
<1>6. Goes(d, r) /\ Goes(d, w)
  BY <1>1, <1>2, <1>4 DEF Goes
<1>7. UNCHANGED <<scripts, rc, history>>
  BY DEF LookAtScript
<1> QED
  BY <1>2, <1>4, <1>5, <1>6, <1>7, GoesSourced

LEMMA WriteScriptSourced ==
  ASSUME Mirrored, Sourced, NEW p \in Procs, WriteScript(p)
  PROVE  Sourced'
<1>1. proc[p].plan # <<>> /\ Head(proc[p].plan).op \in {"refresh", "write"}
  BY DEF WriteScript, At
<1>2. PICK d, r : /\ d = proc[p] /\ r = Done(d)
                  /\ ProcOK(d) /\ PlanFits(d.does, d.plan) /\ CommandOnly(p, d) /\ Relies(d)
                  /\ r.plan = Tail(d.plan) /\ r.phase = "look" /\ ProcOK(r)
                  /\ r.plan # <<>> => r.does = d.does /\ r.rc = d.rc
                  /\ PlanFits(r.does, r.plan)
  BY <1>1, AtStep
<1>3. proc' = [proc EXCEPT ![p] = r] /\ UNCHANGED <<rc, history>>
  <2> HIDE DEF Done
  <2> QED
    BY <1>2 DEF WriteScript
<1>4. d.version \in Nat /\ d.version # 0 /\ d.plan \in Seq(StepTypes)
  <2>1. d.version \in 1 .. Releases /\ d.plan \in Seq(StepTypes)
    BY <1>1, <1>2 DEF ProcOK, ProcTypes
  <2> QED
    BY <2>1, Constants
<1>5. /\ scripts' \in [ToSet(Scripts) -> Nat]
      /\ scripts[Main] # 0 => scripts'[Main] # 0
      /\ Head(d.plan).op = "write" /\ Head(d.plan).of = Main => scripts'[Main] # 0
  <2>1. scripts \in [ToSet(Scripts) -> Nat] /\ Main \in ToSet(Scripts)
    BY LinesAssumption DEF Main, Sourced, RcTypes
  <2>2. \/ scripts' = [scripts EXCEPT ![Head(d.plan).of] = d.version]
        \/ scripts' = scripts /\ Head(d.plan).op = "refresh"
    BY <1>2 DEF WriteScript, At, Of
  <2> QED
    BY <1>4, <2>1, <2>2
<1>6. CommandOnly(p, r)
  BY <1>1, <1>2 DEF CommandOnly
<1>7. Relies(r)'
  <2>1. CASE r.plan = <<>> \/ r.does = "start"
    BY <1>2, <2>1, IdleRelies
  <2>2. CASE r.plan # <<>> /\ r.does # "start"
    <3>1. /\ Head(d.plan).op = "write" /\ d.does = "install" /\ r.does = "install"
      BY <1>1, <1>2, <2>2, HeadFits
    <3>2. scripts'[Main] # 0 \/ \E i \in DOMAIN r.plan : r.plan[i] = Step("write", Main)
      <4> SUFFICES ASSUME scripts'[Main] = 0
                   PROVE  \E i \in DOMAIN r.plan : r.plan[i] = Step("write", Main)
        OBVIOUS
      <4>1. scripts[Main] = 0
        BY <1>5
      <4>2. PICK i \in DOMAIN d.plan : d.plan[i] = Step("write", Main)
        BY <1>1, <1>2, <3>1, <4>1 DEF Relies
      <4>3. i = 1 => Head(d.plan) = d.plan[i]
        BY <1>1, <1>2, <1>4, TailIndices
      <4>4. i # 1
        BY <1>5, <3>1, <4>2, <4>3 DEF Step
      <4>5. i - 1 \in DOMAIN Tail(d.plan) /\ Tail(d.plan)[i - 1] = d.plan[i]
        BY <1>1, <1>2, <1>4, <4>4, TailIndices
      <4> QED
        BY <1>2, <4>2, <4>5
    <3>3. ~AtRc(r)
      BY <1>2 DEF AtRc
    <3> QED
      BY <3>1, <3>2, <3>3 DEF Relies
  <2> QED
    BY <2>1, <2>2
<1>8. Whole(rc') /\ RcFindsScripts' /\ UserLinesStay'
  BY <1>3, <1>5 DEF Sourced, RcTypes, RcFindsScripts, UserLinesStay, Main
<1> QED
  BY <1>2, <1>3, <1>5, <1>6, <1>7, <1>8, OneSourced

LEMMA RemoveScriptSourced ==
  ASSUME Mirrored, Sourced, NEW p \in Procs, RemoveScript(p)
  PROVE  Sourced'
<1>1. proc[p].plan # <<>> /\ Head(proc[p].plan).op = "remove"
  BY DEF RemoveScript, At
<1>2. PICK d, r : /\ d = proc[p] /\ r = Done(d)
                  /\ ProcOK(d) /\ PlanFits(d.does, d.plan) /\ CommandOnly(p, d) /\ Relies(d)
                  /\ r.plan = Tail(d.plan) /\ r.phase = "look" /\ ProcOK(r)
                  /\ r.plan # <<>> => r.does = d.does /\ r.rc = d.rc
                  /\ PlanFits(r.does, r.plan)
  BY <1>1, AtStep
<1>3. proc' = [proc EXCEPT ![p] = r] /\ UNCHANGED <<rc, history>>
  <2> HIDE DEF Done
  <2> QED
    BY <1>2 DEF RemoveScript
<1>4. scripts' \in [ToSet(Scripts) -> Nat]
  BY DEF RemoveScript, Sourced, RcTypes
<1>5. d.does = "uninstall" /\ ~Has(d.plan, "rc")
  BY <1>1, <1>2, HeadFits
<1>6. ~Sources(rc)
  BY <1>1, <1>2, <1>5 DEF Relies
<1>7. p = "command" /\ CommandOnly(p, r)
  BY <1>1, <1>2, <1>5 DEF CommandOnly
<1>8. Relies(r)'
  <2>1. ~AtRc(r)
    BY <1>2 DEF AtRc
  <2> QED
    BY <1>2, <1>3, <1>5, <1>6, <2>1 DEF Relies
<1>9. Whole(rc') /\ RcFindsScripts' /\ UserLinesStay'
  BY <1>3, <1>6 DEF Sourced, RcTypes, RcFindsScripts, UserLinesStay, Sources
<1> QED
  BY <1>2, <1>3, <1>4, <1>7, <1>8, <1>9, OneSourced

LEMMA ReadRcSourced ==
  ASSUME Mirrored, Sourced, NEW p \in Procs, ReadRc(p)
  PROVE  Sourced'
<1>1. proc[p].plan # <<>> /\ Head(proc[p].plan).op = "rc"
  BY DEF ReadRc, At
<1>2. PICK d : d = proc[p]
  OBVIOUS
<1>3. /\ ProcOK(d) /\ PlanFits(d.does, d.plan) /\ CommandOnly(p, d) /\ Relies(d)
      /\ d.plan # <<>> /\ Head(d.plan).op = "rc"
  BY <1>1, <1>2 DEF Mirrored, TypeOK, Sourced, RcTypes
<1>4. PICK w : w = [d EXCEPT !.phase = "write"]
  OBVIOUS
<1>5. ProcOK(w) /\ w.plan = d.plan /\ w.does = d.does /\ w.phase = "write"
  <2>1. /\ ProcOK([d EXCEPT !.phase = "write"]) /\ [d EXCEPT !.phase = "write"].plan = d.plan
        /\ [d EXCEPT !.phase = "write"].phase = "write"
    BY <1>3, PhaseOK
  <2> QED
    BY <1>3, <1>4, <2>1 DEF ProcOK, ProcTypes
<1>6. PICK e : e = [w EXCEPT !.rc = rc]
  OBVIOUS
<1>7. /\ ProcOK(e) /\ e.plan = d.plan /\ e.does = d.does /\ e.phase = "write" /\ e.rc = rc
  <2>1. /\ ProcOK([w EXCEPT !.rc = rc]) /\ [w EXCEPT !.rc = rc].plan = w.plan
    BY <1>5, RcOK
  <2> QED
    BY <1>5, <1>6, <2>1 DEF ProcOK, ProcTypes
<1>8. proc' = [proc EXCEPT ![p] = e] /\ UNCHANGED <<scripts, rc, history>>
  BY <1>2, <1>4, <1>6 DEF ReadRc, Mirrored, TypeOK, ProcOK, ProcTypes
<1>9. PlanFits(e.does, e.plan) /\ CommandOnly(p, e)
  BY <1>3, <1>7 DEF CommandOnly
<1>10. Whole(rc') /\ scripts' \in [ToSet(Scripts) -> Nat] /\ RcFindsScripts' /\ UserLinesStay'
  BY <1>8 DEF Sourced, RcTypes, RcFindsScripts, UserLinesStay
<1>11. Relies(e)'
  <2>1. Relies(d)'
    BY <1>3, <1>8, StillRelies
  <2> QED
    BY <1>7, <1>8, <1>10, <2>1 DEF Relies
<1> QED
  BY <1>7, <1>8, <1>9, <1>10, <1>11, OneSourced

LEMMA LinesWritten ==
  ASSUME TypeOK, NEW lines, history' = [history EXCEPT !.lines = lines]
  PROVE  history'.lines = lines
BY DEF TypeOK

\* The blocks are in only when the scripts are there; what the user wrote is kept.
LEMMA WriteRcSourced ==
  ASSUME Mirrored, Sourced, NEW p \in Procs, WriteRc(p)
  PROVE  Sourced'
<1>1. PICK d : d = proc[p]
  OBVIOUS
<1>2. /\ ProcOK(d) /\ PlanFits(d.does, d.plan) /\ CommandOnly(p, d) /\ Relies(d)
      /\ d.plan # <<>> /\ Head(d.plan).op = "rc" /\ AtRc(d)
  BY <1>1 DEF WriteRc, At, AtRc, Mirrored, TypeOK, Sourced, RcTypes
<1>3. PICK x : x = [d EXCEPT !.rc = <<>>]
  OBVIOUS
<1>4. ProcOK(x) /\ x.plan = d.plan /\ x.does = d.does
  <2>1. ProcOK([d EXCEPT !.rc = <<>>]) /\ [d EXCEPT !.rc = <<>>].plan = d.plan
    BY <1>2, RcOK
  <2> QED
    BY <1>2, <1>3, <2>1 DEF ProcOK, ProcTypes
<1>5. PICK e : e = Done(x)
  OBVIOUS
<1>6. /\ ProcOK(e) /\ e.plan = Tail(d.plan) /\ e.phase = "look"
      /\ e.plan # <<>> => e.does = d.does
      /\ PlanFits(e.does, e.plan)
  BY <1>2, <1>4, <1>5, DoneFits
<1>7. proc' = [proc EXCEPT ![p] = e] /\ scripts' = scripts
  <2> HIDE DEF Done
  <2> QED
    BY <1>1, <1>3, <1>5 DEF WriteRc
<1>8. \/ d.does = "install" /\ Tail(d.plan) = <<>>
      \/ d.does = "uninstall" /\ ~Has(Tail(d.plan), "rc")
  BY <1>2, HeadFits
<1>9. p = "command" /\ CommandOnly(p, e)
  BY <1>2, <1>8 DEF CommandOnly
<1>10. Whole(d.rc) /\ (Sources(rc) => Sources(d.rc))
  BY <1>2 DEF Relies
<1>11. /\ Whole(rc) /\ scripts \in [ToSet(Scripts) -> Nat]
       /\ UserLines(rc) = history.lines
  BY DEF Sourced, RcTypes, UserLinesStay
<1>12. /\ Whole(rc') /\ UserLines(rc') = history'.lines
       /\ d.does = "install" => scripts[Main] # 0
       /\ d.does = "uninstall" => ~Sources(rc')
  <2>1. CASE d.does = "install"
    <3>1. rc' = Installed(d.rc) /\ history'.lines = UserLines(d.rc)
      BY <1>1, <2>1, LinesWritten DEF WriteRc, Mirrored
    <3>2. Alike(Installed(d.rc), d.rc)
      BY <1>10, InstalledAlike
    <3>3. scripts[Main] # 0
      <4> SUFFICES ASSUME scripts[Main] = 0
                   PROVE  FALSE
        OBVIOUS
      <4>1. PICK i \in DOMAIN d.plan : d.plan[i] = Step("write", Main)
        BY <1>2, <2>1 DEF Relies
      <4>2. d.plan \in Seq(StepTypes) /\ DOMAIN Tail(d.plan) = {}
        BY <1>2, <1>8, <2>1 DEF ProcOK, ProcTypes
      <4>3. i = 1 /\ Head(d.plan) = d.plan[1]
        BY <1>2, <4>2, TailIndices
      <4> QED
        BY <1>2, <4>1, <4>3 DEF Step
    <3> QED
      BY <1>10, <2>1, <3>1, <3>2, <3>3 DEF Alike
  <2>2. CASE d.does = "uninstall"
    <3>1. Kept(Stripped(d.rc), d.rc) /\ ~Sources(Stripped(d.rc))
      BY <1>10, StrippedKept
    <3>2. CASE Stripped(d.rc) = d.rc
      <4>1. UNCHANGED <<rc, history>>
        BY <1>1, <2>2, <3>2 DEF WriteRc
      <4>2. UserLines(rc') = history'.lines
        BY <1>11, <4>1 DEF UserLines
      <4> QED
        BY <1>10, <1>11, <2>2, <3>1, <3>2, <4>1, <4>2
    <3>3. CASE Stripped(d.rc) # d.rc
      <4>1. rc' = Stripped(d.rc) /\ history'.lines = UserLines(d.rc)
        BY <1>1, <2>2, <3>3, LinesWritten DEF WriteRc, Mirrored
      <4> QED
        BY <1>10, <2>2, <3>1, <4>1 DEF Kept, Alike
    <3> QED
      BY <3>2, <3>3
  <2> QED
    BY <1>8, <2>1, <2>2
<1>13. RcFindsScripts'
  BY <1>7, <1>8, <1>12 DEF RcFindsScripts, Sources, Main
<1>14. UserLinesStay'
  BY <1>12 DEF UserLinesStay
<1>15. Relies(e)'
  <2>1. ~AtRc(e)
    BY <1>6 DEF AtRc
  <2> QED
    BY <1>6, <1>8, <1>12, <2>1 DEF Relies
<1> QED
  BY <1>6, <1>7, <1>9, <1>11, <1>12, <1>13, <1>14, <1>15, OneSourced

LEMMA SeenGoes ==
  ASSUME NEW d, d.plan # <<>>, Head(d.plan).op \notin {"write", "rc"},
         NEW s, s.plan = d.plan, s.does = d.does, {"does", "plan", "phase"} \subseteq DOMAIN s
  PROVE  Goes(d, Done(s))
<1>1. CASE Len(s.plan) = 1
  BY <1>1 DEF Done, Goes, Ended
<1>2. CASE Len(s.plan) # 1
  <2> DEFINE e == [s EXCEPT !.plan = Tail(@), !.phase = "look"]
  <2>1. Done(s) = e
    BY <1>2 DEF Done
  <2>2. e.plan = Tail(s.plan) /\ e.phase = "look" /\ e.does = s.does
    OBVIOUS
  <2> HIDE DEF e
  <2> QED
    BY <2>1, <2>2 DEF Goes
<1> QED
  BY <1>1, <1>2

\* A step that has to do with the mirror, or the end of a process
LEMMA MirrorGoes ==
  ASSUME Mirrored, NEW p \in Procs,
         \/ ReadStatus(p) \/ ReadStamp(p) \/ LookAtSpec(p) \/ TruncateSpec(p) \/ WriteSpec(p)
         \/ TruncateStamp(p) \/ WriteStamp(p) \/ Stop(p)
  PROVE  \E e : Goes(proc[p], e) /\ proc' = [proc EXCEPT ![p] = e]
<1>1. PICK d : d = proc[p]
  OBVIOUS
<1>2. ProcOK(d) /\ d \in ProcTypes(d.rc) /\ proc = [q \in Procs |-> proc[q]]
  BY <1>1 DEF Mirrored, TypeOK, ProcOK
<1>3. PICK n : n = Ended
  OBVIOUS
<1>4. Goes(d, n)
  BY <1>3 DEF Goes, Ended
<1>5. CASE Stop(p)
  <2>1. proc' = [proc EXCEPT ![p] = n]
    BY <1>3, <1>5 DEF Stop
  <2> QED
    BY <1>1, <1>4, <2>1
<1>6. ASSUME ~Stop(p)
      PROVE  d.plan # <<>> /\ Head(d.plan).op \notin {"write", "rc"}
  BY <1>1, <1>6 DEF ReadStatus, ReadStamp, LookAtSpec, TruncateSpec, WriteSpec, TruncateStamp,
                    WriteStamp, At
<1>7. ASSUME ~Stop(p), NEW s, s.plan = d.plan, s.does = d.does
      PROVE  Goes(d, s) /\ ({"does", "plan", "phase"} \subseteq DOMAIN s => Goes(d, Done(s)))
  BY <1>6, <1>7, SeenGoes DEF Goes
<1>8. {"does", "plan", "phase", "stamp", "hashes", "rc", "version"} = DOMAIN d
  BY <1>2 DEF ProcTypes
<1>9. CASE ReadStatus(p) \/ WriteSpec(p)
  <2>1. Stop(p) \/ Goes(d, Done(d))
    BY <1>7, <1>8
  <2>2. PICK r : r = Done(d)
    OBVIOUS
  <2>3. proc' = [proc EXCEPT ![p] = r] \/ proc' = [proc EXCEPT ![p] = n]
    <3> HIDE DEF Done, Ended
    <3> QED
      BY <1>1, <1>2, <1>3, <1>9, <2>2 DEF ReadStatus, WriteSpec
  <2> QED
    BY <1>1, <1>4, <1>5, <2>1, <2>2, <2>3
<1>10. CASE TruncateSpec(p) \/ TruncateStamp(p)
  <2>1. PICK s : s = [d EXCEPT !.phase = "torn"]
    OBVIOUS
  <2>2. s.plan = d.plan /\ s.does = d.does
    BY <1>8, <2>1
  <2>3. proc' = [proc EXCEPT ![p] = s]
    BY <1>1, <1>2, <1>10, <2>1 DEF TruncateSpec, TruncateStamp
  <2> QED
    BY <1>1, <1>5, <1>7, <2>2, <2>3
<1>11. CASE ReadStamp(p)
  <2>1. PICK r : r = Done(d)
    OBVIOUS
  <2>2. Stop(p) \/ Goes(d, r)
    BY <1>7, <1>8, <2>1
  <2>3. PICK e : e = [r EXCEPT !.stamp = stamp']
    OBVIOUS
  <2>4. e.plan = r.plan /\ e.does = r.does /\ e.phase = r.phase
    <3>1. e.plan = [r EXCEPT !.stamp = stamp'].plan
      BY <2>3
    <3>2. r \in ProcTypes(r.rc)
      <4>1. d.plan # <<>>
        BY <1>1, <1>11 DEF ReadStamp, At
      <4> QED
        BY <1>2, <2>1, <4>1, DoneOK DEF ProcOK
    <3> QED
      BY <2>3, <3>2 DEF ProcTypes
  <2>5. proc' = [proc EXCEPT ![p] = e]
    <3> HIDE DEF Done
    <3> QED
      BY <1>1, <1>2, <1>11, <2>1, <2>3 DEF ReadStamp
  <2>6. Stop(p) \/ Goes(d, e)
    BY <2>2, <2>4 DEF Goes
  <2> QED
    BY <1>1, <1>5, <2>5, <2>6
<1>12. CASE LookAtSpec(p)
  <2>1. PICK s : s = [d EXCEPT !.hashes[Of(p)] = Recorded(p)]
    OBVIOUS
  <2>2. s.plan = d.plan /\ s.does = d.does /\ DOMAIN s = DOMAIN d
    BY <1>8, <2>1
  <2>3. PICK r, w : r = Done(s) /\ w = [s EXCEPT !.phase = "write"]
    OBVIOUS
  <2>4. Stop(p) \/ Goes(d, r)
    BY <1>7, <1>8, <2>2, <2>3
  <2>5. w.plan = d.plan /\ w.does = d.does
    BY <1>8, <2>2, <2>3
  <2>6. proc' = [proc EXCEPT ![p] = r] \/ proc' = [proc EXCEPT ![p] = w]
    <3> HIDE DEF Done
    <3> QED
      BY <1>1, <1>12, <2>1, <2>3 DEF LookAtSpec
  <2> QED
    BY <1>1, <1>5, <1>7, <2>4, <2>5, <2>6
<1>13. CASE WriteStamp(p)
  <2>1. PICK s : s = [d EXCEPT !.stamp = Ended.stamp, !.hashes = Ended.hashes]
    OBVIOUS
  <2>2. s.plan = d.plan /\ s.does = d.does /\ DOMAIN s = DOMAIN d
    <3> HIDE DEF Ended
    <3> QED
      BY <1>8, <2>1
  <2>3. PICK r : r = Done(s)
    OBVIOUS
  <2>4. Stop(p) \/ Goes(d, r)
    BY <1>7, <1>8, <2>2, <2>3
  <2>5. proc' = [proc EXCEPT ![p] = r]
    <3> HIDE DEF Done, Ended
    <3> QED
      BY <1>1, <1>2, <1>13, <2>1, <2>3 DEF WriteStamp
  <2> QED
    BY <1>1, <1>5, <2>4, <2>5
<1> QED
  BY <1>5, <1>9, <1>10, <1>11, <1>12, <1>13

LEMMA MirrorSourced ==
  ASSUME Mirrored, Mirrored', Sourced, NEW p \in Procs,
         \/ ReadStatus(p) \/ ReadStamp(p) \/ LookAtSpec(p) \/ TruncateSpec(p) \/ WriteSpec(p)
         \/ TruncateStamp(p) \/ WriteStamp(p) \/ Stop(p)
  PROVE  Sourced'
<1>1. PICK e : Goes(proc[p], e) /\ proc' = [proc EXCEPT ![p] = e]
  BY MirrorGoes
<1>2. proc'[p] = e
  BY <1>1 DEF Mirrored, TypeOK
<1>3. ProcOK(e)
  BY <1>2 DEF Mirrored, TypeOK
<1>4. UNCHANGED <<scripts, rc>>
  BY DEF ReadStatus, ReadStamp, LookAtSpec, TruncateSpec, WriteSpec, TruncateStamp, WriteStamp, Stop
<1>5. history'.lines = history.lines
  BY DEF ReadStatus, ReadStamp, LookAtSpec, TruncateSpec, WriteSpec, TruncateStamp, WriteStamp, Stop,
         Mirrored, TypeOK
<1> QED
  BY <1>1, <1>3, <1>4, <1>5, GoesSourced

\* No process moves, and .zshrc is as it was.
LEMMA RestSourced ==
  ASSUME Sourced, UNCHANGED <<scripts, rc, proc>>, history'.lines = history.lines
  PROVE  Sourced'
<1>1. ASSUME NEW q \in Procs
      PROVE  Relies(proc[q])'
  <2>1. PICK d : d = proc[q]
    OBVIOUS
  <2>2. Relies(d)'
    BY <2>1, StillRelies DEF Sourced
  <2> QED
    BY <2>1, <2>2 DEF Relies
<1>2. RcTypes' /\ RcFindsScripts' /\ UserLinesStay'
  BY DEF Sourced, RcTypes, RcFindsScripts, UserLinesStay
<1> QED
  BY <1>1, <1>2 DEF Sourced

LEMMA AddLineSourced ==
  ASSUME Mirrored, Sourced, NEW line \in Lines, AddLine(line)
  PROVE  Sourced'
<1>1. UNCHANGED <<scripts, proc>> /\ Whole(rc)
  BY DEF AddLine, Sourced, RcTypes
<1>2. PICK i \in 1 .. Len(rc) + 1 : Outside(rc, i) /\ rc' = InsertAt(rc, i, line)
  BY DEF AddLine, Outside
<1>3. Whole(rc') /\ (Sources(rc') => Sources(rc))
  BY <1>1, <1>2, LineAdded
<1>4. history'.lines = UserLines(rc')
  BY DEF AddLine, Mirrored, TypeOK
<1>5. RcTypes' /\ RcFindsScripts' /\ UserLinesStay'
  BY <1>1, <1>3, <1>4 DEF Sourced, RcTypes, RcFindsScripts, UserLinesStay, Sources
<1>6. ASSUME NEW q \in Procs
      PROVE  Relies(proc[q])'
  <2>1. PICK d : d = proc[q]
    OBVIOUS
  <2>2. Relies(d)
    BY <2>1 DEF Sourced
  <2>3. Relies(d)'
    BY <1>1, <1>3, <2>2 DEF Relies, AtRc
  <2> QED
    BY <1>1, <2>1, <2>3 DEF Relies
<1> QED
  BY <1>5, <1>6 DEF Sourced

LEMMA InitSourced ==
  ASSUME Init
  PROVE  Sourced
<1>1. /\ scripts = [s \in ToSet(Scripts) |-> 0] /\ rc = <<>> /\ proc = [p \in Procs |-> Ended]
      /\ history.lines = UserLines(<<>>)
  BY DEF Init
<1>2. Whole(rc) /\ ToSet(rc) = {}
  <2>1. <<>> \in Seq(Lines \cup Marks) /\ DOMAIN <<>> = {}
    BY EmptySeq
  <2> QED
    BY <1>1, <2>1 DEF Whole, ToSet
<1>3. PICK n : n = Ended
  OBVIOUS
<1>4. n.plan = <<>> /\ ProcOK(n) /\ \A p \in Procs : proc[p] = n
  BY <1>1, <1>3, EndedOK
<1>5. PlanFits(n.does, n.plan) /\ Relies(n) /\ \A p : CommandOnly(p, n)
  BY <1>4, IdleRelies DEF PlanFits, CommandOnly
<1>6. RcTypes
  BY <1>1, <1>2, <1>4, <1>5 DEF RcTypes
<1>7. RcFindsScripts /\ UserLinesStay
  BY <1>1, <1>2 DEF RcFindsScripts, UserLinesStay
<1> QED
  BY <1>4, <1>5, <1>6, <1>7 DEF Sourced

LEMMA NextSourced ==
  ASSUME Mirrored, Mirrored', Sourced, [Next]_vars
  PROVE  Sourced'
<1>1. ASSUME NEW p \in Starts, Launch(p, "start")
      PROVE  Sourced'
  BY <1>1, LaunchSourced DEF Procs
<1>2. ASSUME NEW does \in {"install", "uninstall"}, Launch("command", does)
      PROVE  Sourced'
  BY <1>2, LaunchSourced DEF Procs
<1>3. ASSUME NEW p \in Procs,
             \/ LookAtScript(p) \/ WriteScript(p) \/ RemoveScript(p) \/ ReadRc(p) \/ WriteRc(p)
      PROVE  Sourced'
  BY <1>3, LookScriptSourced, WriteScriptSourced, RemoveScriptSourced, ReadRcSourced, WriteRcSourced
<1>4. ASSUME NEW p \in Procs,
             \/ ReadStatus(p) \/ ReadStamp(p) \/ LookAtSpec(p) \/ TruncateSpec(p) \/ WriteSpec(p)
             \/ TruncateStamp(p) \/ WriteStamp(p) \/ Stop(p)
      PROVE  Sourced'
  BY <1>4, MirrorSourced
<1>5. ASSUME NEW f, NEW content, ChangeSpec(f, content)
      PROVE  Sourced'
  <2>1. UNCHANGED <<scripts, rc, proc>> /\ history'.lines = history.lines
    BY <1>5 DEF ChangeSpec, Mirrored, TypeOK
  <2> QED
    BY <2>1, RestSourced
<1>6. ASSUME Upgrade \/ UNCHANGED vars
      PROVE  Sourced'
  BY <1>6, RestSourced DEF Upgrade, vars
<1> QED
  BY <1>1, <1>2, <1>3, <1>4, <1>5, <1>6, AddLineSourced DEF Next

-----------------------------------------------------------------------------
(* The theorems about .zshrc.                                              *)

\* However install, uninstall and any number of starts interleave, and wherever they are cut
\* short: the blocks of .zshrc stay whole, an install reaches .zshrc last and an uninstall
\* first, and no block has come since the command has read it (install_to,
\* uninstall_from, remove_block).
THEOREM SpecSourced == Spec => []Sourced
<1>1. Init => Sourced
  BY InitSourced
<1>2. Mirrored /\ Mirrored' /\ Sourced /\ [Next]_vars => Sourced'
  BY NextSourced
<1> QED
  BY <1>1, <1>2, SpecMirrored, PTL DEF Spec

\* No shell is told to source a script that is not there, wherever install or uninstall is
\* cut short and whichever proxies start meanwhile (install_to, uninstall_from).
THEOREM SpecRcFindsScripts == Spec => []RcFindsScripts
<1>1. Sourced => RcFindsScripts
  BY DEF Sourced
<1> QED
  BY <1>1, SpecSourced, PTL

\* The lines of the user outlive any sequence of installs and uninstalls, in their order,
\* for any lines and however often the blocks occur, unless written in the moment between
\* a read and a write (remove_block).
THEOREM SpecUserLinesStay == Spec => []UserLinesStay
<1>1. Sourced => UserLinesStay
  BY DEF Sourced
<1> QED
  BY <1>1, SpecSourced, PTL

=============================================================================
