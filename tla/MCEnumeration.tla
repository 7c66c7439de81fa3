--------------------------- MODULE MCEnumeration ---------------------------
(* Instances of Enumeration for TLC. *)
EXTENDS Enumeration

Plain == SpecOf("Counter", <<"letter">>, {}, <<>>, {})
Nameless == SpecOf("Counter", <<>>, {}, <<>>, {})
PlainAndNameless == {Plain, Nameless}

PrefixAndLabels == {"prefix", "labels"}
OnlyConfigure == {Fields}

\* Every list of up to three bounds, every name of up to two classes, as the
\* metric's and as a label's, no states and one, and specs with several defects.
Bounds == {0, 5, 10, NaN, NegInf}
Chars == {"letter", Underscore, "digit", "other"}
Names == UNION {[1..n -> Chars] : n \in 0..2}
AllSpecs == PlainAndNameless \union
  {SpecOf(type, <<"letter">>, {}, numbers, {}) :
     type \in {"Histogram", "Summary"}, numbers \in UNION {[1..n -> Bounds] : n \in 0..3}}
  \union {SpecOf(type, name, {}, <<>>, {"on"}) : type \in Types, name \in Names}
  \union {SpecOf("Gauge", <<"letter">>, {label}, <<>>, {}) : label \in Names}
  \union {SpecOf("StateSet", <<"digit">>, {}, <<>>, {}),
          SpecOf("Histogram", <<"other">>, {<<"digit">>}, <<NaN>>, {})}

\* What follows a call with any other spec follows one of the usual two.
UsualOnly == \A call \in outcome : call.spec \in Usual

Symmetric == Permutations(Threads)
=============================================================================
