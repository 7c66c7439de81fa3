------------------------- MODULE MCCompositeAdapter -------------------------
(* Instances of CompositeAdapter for TLC. *)
EXTENDS CompositeAdapter

Given == <<"nullptr", "recording", "NullAdapter", "nullptr", "recording">>

\* A plain MetricState, and the state of a composite of one adapter.
Strangers == {Foreigner(<<>>), Foreigner(<<Inert>>)}

Symmetric == Permutations(Threads)
=============================================================================
