------------------------------- MODULE MCSpecStore -------------------------------
EXTENDS SpecStore, TLC

file(d, s, n) == [dir |-> d, stem |-> s, name |-> n]

\* A user's directory before the files in the binary: nothing in common; a file that
\* is overridden and declares a name; two files that each declare the other's stem.
TwoDirs == {
  << <<file(1, "a", None)>>, <<file(2, "b", None), file(2, "c", None)>> >>,
  << <<file(1, "a", None)>>, <<file(2, "a", "b")>> >>,
  << <<file(1, "a", "b"), file(1, "b", "a")>> >> }

AnyReader == Permutations(Readers)

=============================================================================
