-------------------------- MODULE MCPromCppAdapter --------------------------
(* Instances of PromCppAdapter for TLC. *)
EXTENDS PromCppAdapter

Metric(type, key) == [type |-> type, key |-> key]
Requests == Metric("Counter", "requests")
Depth == Metric("Gauge", "depth")
Latency == Metric("Histogram", "latency")
Build == Metric("Info", "build")
Service == Metric("StateSet", "service")
Job == Metric("StateSet", "job:service")

\* Two metrics of different types share the family of the gauge.
AllMetrics == {Requests, Depth, Metric("Untyped", "depth"), Latency, Build, Service, Job}
WithChildren == {Requests, Depth, Build, Service}
MayFail == {Requests, Build}
OnlyInfo == {Build}

\* The info metric and the counter have a constant label of this name; the
\* label of a state has the metric's name, and that of Job is no label name.
Clash == {"region=eu"}
On == {"on"}
OneDynamic == {Clash}
Clashing == {<<"build", Clash>>, <<"requests", Clash>>, <<"job:service", On>>}
OneState == {On}
TwoPayloads == {{"version=1"}, {"version=2"}}
Versions == TwoPayloads \union {Clash}

\* What the theorems of PromCppProofs ask of the metrics is so of these.
ASSUME InstanceAssumption == OnlyInfoInFamily

Symmetric == Permutations(Addresses)
=============================================================================
