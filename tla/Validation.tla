----------------------------- MODULE Validation -----------------------------
(***************************************************************************)
(* What a Registry factory refuses (registry.hpp: try_*, build and the     *)
(* validate_* functions; labels.hpp: is_valid_*_name), and what error.hpp  *)
(* says each code means.                                                   *)
(*                                                                         *)
(* A double is an integer, its value in tenths, or one of three values     *)
(* that are not finite.  A name is a sequence of classes of characters.    *)
(***************************************************************************)
EXTENDS Integers, SequencesExt

NaN == 1000
PosInf == 1001
NegInf == -1001
One == 10
Finite(x) == x \notin {NaN, PosInf, NegInf}

Underscore == "_"
Letters == {"letter", Underscore}
Digits == {"digit"}

Types == {"Counter", "Gauge", "Histogram", "Summary", "Untyped", "Info", "StateSet"}
ErrorCodes == {"InvalidMetricName", "InvalidLabelName", "InvalidBuckets",
               "InvalidQuantiles", "EmptyStateSet"}
Accepted == "accepted"

\* A spec: its type, name, label names, buckets or quantiles, and states.
SpecOf(type, name, labels, numbers, states) ==
  [type |-> type, name |-> name, labels |-> labels, numbers |-> numbers,
   states |-> states]
AnySpec ==
  [type : Types, name : Seq(STRING), labels : SUBSET Seq(STRING), numbers : Seq(Int),
   states : SUBSET STRING]

----------------------------------------------------------------------------
(* The code.                                                               *)

IsValidMetricName(n) ==
  /\ n # <<>>
  /\ n[1] \in Letters
  /\ \A i \in 1..Len(n) : n[i] \in Letters \union Digits

IsValidLabelName(n) ==
  /\ IsValidMetricName(n)
  /\ Len(n) < 2 \/ n[1] # Underscore \/ n[2] # Underscore

\* try_histogram and try_summary, and a scope's histogram and summary, put the
\* defaults in the place of an empty list.
Defaults(type) == IF type = "Histogram" THEN <<1, 5, 10>> ELSE <<5, 9>>
Filled(spec) ==
  IF spec.type \in {"Histogram", "Summary"} /\ spec.numbers = <<>>
    THEN [spec EXCEPT !.numbers = Defaults(spec.type)]
    ELSE spec

EqualBoundsPass(b, i) == i > 1 /\ b[i] < b[i - 1]         \* mutant of OutOfOrder
OutOfOrder(b, i) == i > 1 /\ b[i] <= b[i - 1]

ValidateBuckets(b) ==
  /\ b # <<>>
  /\ \A i \in 1..Len(b) : Finite(b[i]) /\ ~OutOfOrder(b, i)

ValidateQuantiles(q) == \A i \in 1..Len(q) : Finite(q[i]) /\ 0 < q[i] /\ q[i] < One

\* The first check that fails gives the code: those of a type come before the
\* names, which build checks.
Refusal(spec) ==
  LET s == Filled(spec) IN
  IF s.type = "Histogram" /\ ~ValidateBuckets(s.numbers) THEN "InvalidBuckets"
  ELSE IF s.type = "Summary" /\ ~ValidateQuantiles(s.numbers) THEN "InvalidQuantiles"
  ELSE IF s.type = "StateSet" /\ s.states = {} THEN "EmptyStateSet"
  ELSE IF ~IsValidMetricName(s.name) THEN "InvalidMetricName"
  ELSE IF \E l \in s.labels : ~IsValidLabelName(l) THEN "InvalidLabelName"
  ELSE Accepted

----------------------------------------------------------------------------
(* What the codes mean, and the README's list of what is validated.        *)

\* [a-zA-Z_][a-zA-Z0-9_]*
Identifier(n) ==
  \E head \in Letters, tail \in [1..(Len(n) - 1) -> Letters \union Digits] :
    n = <<head>> \o tail

StrictlyIncreasing(b) == \A i, j \in 1..Len(b) : i < j => b[i] < b[j]

Defects(spec) ==
  {code \in ErrorCodes :
    CASE code = "InvalidMetricName" -> ~Identifier(spec.name)
      [] code = "InvalidLabelName" ->
           \E l \in spec.labels : ~Identifier(l) \/ IsPrefix(<<Underscore, Underscore>>, l)
      [] code = "InvalidBuckets" ->
           spec.type = "Histogram" /\ (spec.numbers = <<>>
              \/ (\E x \in ToSet(spec.numbers) : ~Finite(x))
              \/ ~StrictlyIncreasing(spec.numbers))
      [] code = "InvalidQuantiles" ->
           spec.type = "Summary" /\ ~(ToSet(spec.numbers) \subseteq 1..(One - 1))
      [] code = "EmptyStateSet" -> spec.type = "StateSet" /\ spec.states = {}}
=============================================================================
