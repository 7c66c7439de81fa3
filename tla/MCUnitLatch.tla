----------------------------- MODULE MCUnitLatch -----------------------------
(* Instances of UnitLatch for TLC. *)
EXTENDS UnitLatch, FiniteSets, TLC

Seconds == [name |-> "seconds", kind |-> "time"]
Meters == [name |-> "meters", kind |-> "length"]
Items == [name |-> "items", kind |-> ""]       \* a unit declared without a kind

Dimensional == {NoUnit, Seconds, Meters, Items}
OnlySeconds == {Seconds}

\* Nothing is explored past the third different sample: of a unit without a
\* kind and of two kinds, or through three handles.
ThreeSamples == Cardinality(recorded) < 3

Symmetric == Permutations(Threads)
=============================================================================
