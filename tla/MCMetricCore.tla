---------------------------- MODULE MCMetricCore ----------------------------
(* Instances of MetricCore for TLC. *)
EXTENDS MetricCoreInv, TLC

\* set_prefix, set_const_labels (or add_const_label), configure.  The display
\* is read and written as the labels are, so most runs follow two fields.
OneField == {"prefix"}
TwoFields == {"prefix", "labels"}
AllFields == {"prefix", "labels", "display"}
SomeSetters == {{"prefix"}, TwoFields}
OnlyConfigure == {Fields}

\* Two reconfigurations of any kind; the bounds of each kind allow both.
TwoReconfigurations ==
  cellAdapter + writes["self"] + (IF HasParent THEN writes["parent"] ELSE 0) <= 2

Symmetric == Permutations(Threads)
=============================================================================
