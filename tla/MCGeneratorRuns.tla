----------------------------- MODULE MCGeneratorRuns -----------------------------
(* Generators of one command and the calls that run them. *)
EXTENDS GeneratorRuns

AllKinds == [p |-> "plain", q |-> "plain", o |-> "post", f |-> "function",
             c |-> "custom", t |-> "token", u |-> "token"]
KindOf == [g \in Gens |-> AllKinds[g]]

\* All scripts are the same.
ScriptOf == [g \in Gens |-> "script"]
OnlyPost == [g \in Gens |-> g = "o"]
OnlyFunction == [g \in Gens |-> g = "f"]

\* Each token_only generator is the first of its place.
FirstOfPlace == [g \in Gens |-> IF g = "u" THEN "t" ELSE g]

Call(site, d, l) == [site |-> site, dir |-> d, line |-> l]

\* A run of two generators, then one of a generator of any kind, in the same
\* directory and with the same line or not.
TwoThenAny ==
  [r \in Runs |->
     IF r = "first" THEN {Call({"o", "c"}, "here", "ls")}
     ELSE {Call({"o"}, "here", l) : l \in {"ls", "ls a"}}
          \cup {Call({"c"}, d, "ls") : d \in {"here", "there"}}
          \cup {Call({g}, "there", "ls") : g \in {"p", "f", "t"}}]
=============================================================================
