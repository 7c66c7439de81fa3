--------------------------- MODULE PromCppAdapter ---------------------------
(***************************************************************************)
(* The prometheus-cpp backend (adapters/prometheus_cpp/src/adapter.cpp):   *)
(* what becomes of the metrics that register, of their labeled children    *)
(* and of their samples, in the families and series that are exported.     *)
(*                                                                         *)
(* register_metric, resolve, set_info and set_state run under the          *)
(* adapter's mutex; a sample is one atomic update of a series.  So each    *)
(* call is one action.  The library is external and modelled by what the   *)
(* adapter relies on: Register gives the family of a name and constant     *)
(* labels, an existing one if there is one; Add gives the series of a      *)
(* label set, an existing one if there is one; Remove forgets the series   *)
(* at an address, if it has one there; the first two may throw.            *)
(***************************************************************************)
EXTENDS Integers, SequencesExt

CONSTANTS
  Metrics,             \* what is registered: a type, and a key, the name and
                       \* constant labels
  Labeled,             \* the metrics of which children are made
  DynamicLabels,       \* the label sets children are made with
  Payloads,            \* the label sets Info is given
  States,              \* the members of a state set, as label sets
  RefusedMetrics,      \* the metrics the library throws at
  RefusedLabels,       \* the label sets it throws at, each with the key of the
                       \* family (a constant label has one of the names, or a
                       \* name is no label name)
  Addresses,           \* where series may be allocated
  Null,                \* no address
  MaxUsers,            \* bound: registrations and children
  MaxSamples           \* bound: samples

Types == {"Counter", "Gauge", "Untyped", "Histogram", "Summary", "Info", "StateSet"}

ASSUME BackendAssumption ==
  /\ Metrics \subseteq [type : Types, key : STRING]
  /\ RefusedLabels \subseteq
       {m.key : m \in Metrics} \X (DynamicLabels \union Payloads \union States)
  /\ Labeled \subseteq Metrics /\ RefusedMetrics \subseteq Metrics
  /\ Null \notin Addresses
  /\ MaxUsers \in Nat /\ MaxSamples \in Nat

\* Untyped, info and state sets are families of gauges.
Class(type) == IF type \in {"Untyped", "Info", "StateSet"} THEN "Gauge" ELSE type
FamilyOf(metric) == [class |-> Class(metric.type), key |-> metric.key]
Families == {FamilyOf(m) : m \in Metrics}
InfoFamilies == {FamilyOf(m) : m \in {i \in Metrics : i.type = "Info"}}

\* What the properties ask of the program; the adapter does not check it.  No
\* other metric has the name and constant labels of an info metric: to replace
\* a payload would remove a series another handle writes to.
OnlyInfoInFamily ==
  \A m \in Metrics : FamilyOf(m) \in InfoFamilies => m.type = "Info"

VARIABLES
  series,              \* external: the series at each address
  handles,             \* the PromStates made, and the inert states
  users,               \* the program's metrics: which handle each records to
  samples,             \* how many samples there have been
  ledger,              \* history: what the samples add up to
  payload              \* history: the last payload of each info family

vars == <<series, handles, users, samples, ledger, payload>>

NoLabels == {}
LabelSets == {NoLabels} \union DynamicLabels \union Payloads \union States
               \union {d \union s : d \in DynamicLabels, s \in States}

Lazy == {"Info", "StateSet"}       \* their series are made when they are set

NoFamily == [class |-> "none", key |-> "none"]
NoSeries == [family |-> NoFamily, labels |-> NoLabels, value |-> 0]
Inert == [type |-> "none", family |-> NoFamily, series |-> Null, info |-> Null]

TypeOK ==
  /\ series \in [Addresses ->
       [family : Families, labels : LabelSets, value : Int] \union {NoSeries}]
  /\ handles \in Seq([type : Types, family : Families,
                      series : Addresses \union {Null}, info : Addresses \union {Null}]
                     \union {Inert})
  /\ users \in Seq([metric : Metrics, labels : LabelSets, handle : 1..Len(handles)])
  /\ samples \in 0..MaxSamples
  /\ ledger \in [Families \X LabelSets -> Int]
  /\ payload \in [Families -> LabelSets]

Init ==
  /\ series = [a \in Addresses |-> NoSeries]
  /\ handles = <<>>
  /\ users = <<>>
  /\ samples = 0
  /\ ledger = [x \in Families \X LabelSets |-> 0]
  /\ payload = [f \in Families |-> NoLabels]

----------------------------------------------------------------------------
(* The library.                                                            *)

Has(s, f, l, a) == s[a].family = f /\ s[a].labels = l

Throws(f, l) == <<f.key, l>> \in RefusedLabels

\* Where Add(l) of family f finds or puts the series; a fresh one may reuse
\* the address of one that was removed.
Places(s, f, l) ==
  LET existing == {a \in Addresses : Has(s, f, l, a)} IN
  IF existing # {} THEN existing ELSE {a \in Addresses : s[a] = NoSeries}
Added(s, f, l, a) ==
  IF Has(s, f, l, a) THEN s ELSE [s EXCEPT ![a] = [family |-> f, labels |-> l, value |-> 0]]
Removed(s, f, a) == IF s[a].family = f THEN [s EXCEPT ![a] = NoSeries] ELSE s

----------------------------------------------------------------------------
(* register_metric and resolve.                                            *)

NewHandle(state) == handles' = Append(handles, state)
NewUser(metric, labels, handle) ==
  users' = Append(users, [metric |-> metric, labels |-> labels, handle |-> handle])

\* A metric registers, or registers again after a reconfiguration.
Register(m) ==
  LET f == FamilyOf(m)
      state == [type |-> m.type, family |-> f, series |-> Null, info |-> Null]
  IN
  /\ Len(users) < MaxUsers
  /\ IF m.type \in Lazy
       THEN NewHandle(state) /\ UNCHANGED series
       ELSE \E a \in Places(series, f, NoLabels) :
              /\ series' = Added(series, f, NoLabels, a)
              /\ NewHandle([state EXCEPT !.series = a])
  /\ NewUser(m, NoLabels, Len(handles) + 1)
  /\ UNCHANGED <<samples, ledger, payload>>

NullHandle == 0                                     \* mutant of FailureHandle
FailureHandle == Len(handles) + 1                   \* never null

\* The library throws: an inert handle is returned.
RegisterFails(m) ==
  /\ m \in RefusedMetrics
  /\ Len(users) < MaxUsers
  /\ NewHandle(Inert)
  /\ NewUser(m, NoLabels, FailureHandle)
  /\ UNCHANGED <<series, samples, ledger, payload>>

SharedChild(labels) == NoLabels                           \* mutant of ChildLabels
ChildLabels(labels) == labels

\* The child of user u's handle for the dynamic labels d; of an inert handle,
\* that handle.
Resolve(u, d) ==
  LET parent == handles[users[u].handle]
      f == parent.family
  IN
  /\ Len(users) < MaxUsers
  /\ users[u].metric \in Labeled
  /\ IF parent = Inert
       THEN /\ NewUser(users[u].metric, d, users[u].handle)
            /\ UNCHANGED <<series, handles>>
       ELSE /\ ~Throws(f, d)
            /\ \E a \in Places(series, f, ChildLabels(d)) :
                 /\ series' = Added(series, f, ChildLabels(d), a)
                 /\ NewHandle([parent EXCEPT !.series = a, !.info = Null])
            /\ NewUser(users[u].metric, d, Len(handles) + 1)
  /\ UNCHANGED <<samples, ledger, payload>>

\* The library throws: the family's own handle is returned.
ResolveFails(u, d) ==
  /\ Throws(handles[users[u].handle].family, d)
  /\ Len(users) < MaxUsers
  /\ users[u].metric \in Labeled
  /\ NewUser(users[u].metric, d, users[u].handle)
  /\ UNCHANGED <<series, handles, samples, ledger, payload>>

----------------------------------------------------------------------------
(* The samples.                                                            *)

\* The calls each type makes, and the classes each call has an effect on.
Calls(type) ==
  CASE type = "Counter" -> {"inc"}
    [] type = "Gauge" -> {"inc", "dec", "set"}
    [] type = "Untyped" -> {"set"}
    [] type \in {"Histogram", "Summary"} -> {"observe"}
    [] type \in Lazy -> {}
Affects(op) ==
  CASE op = "inc" -> {"Counter", "Gauge"}
    [] op \in {"dec", "set"} -> {"Gauge"}
    [] op = "observe" -> {"Histogram", "Summary"}

\* A histogram or summary is followed by its number of observations.
Outcome(op, value) ==
  CASE op \in {"inc", "observe"} -> value + 1
    [] op = "dec" -> value - 1
    [] op = "set" -> 3

CountSample == samples < MaxSamples /\ samples' = samples + 1

Sample(u) ==
  LET h == handles[users[u].handle]
      entry == <<FamilyOf(users[u].metric), users[u].labels>>
  IN
  /\ CountSample
  /\ \E op \in Calls(users[u].metric.type) :
       IF h # Inert /\ Class(h.type) \in Affects(op)
         THEN /\ series' = [series EXCEPT ![h.series].value = Outcome(op, @)]
              /\ ledger' = [ledger EXCEPT ![entry] = Outcome(op, @)]
         ELSE UNCHANGED <<series, ledger>>
  /\ UNCHANGED <<handles, users, payload>>

\* The payload's new series, after the last one has gone.
ForgetsPrevious(h) == series                              \* mutant of WithoutPrevious
WithoutPrevious(h) == IF h.info # Null THEN Removed(series, h.family, h.info) ELSE series

ReplacesLast(h, p, a) ==                                  \* mutant of Replaced
  LET s == [Added(series, h.family, p, a) EXCEPT ![a].value = 1] IN
  IF h.info # Null THEN Removed(s, h.family, h.info) ELSE s
Replaced(h, p, a) == [Added(WithoutPrevious(h), h.family, p, a) EXCEPT ![a].value = 1]

\* The series has the payload's labels and none of the child's; if the library
\* throws, the last one has gone already.
SetInfo(u, p) ==
  LET n == users[u].handle
      h == handles[n]
  IN
  /\ users[u].metric.type = "Info"
  /\ CountSample
  /\ IF h = Inert THEN UNCHANGED <<series, handles, payload>>
     ELSE IF Throws(h.family, p)
       THEN /\ series' = WithoutPrevious(h)
            /\ payload' = [payload EXCEPT ![h.family] = NoLabels]
            /\ UNCHANGED handles
       ELSE \E a \in Places(WithoutPrevious(h), h.family, p) :
              /\ series' = Replaced(h, p, a)
              /\ handles' = [handles EXCEPT ![n].info = a]
              /\ payload' = [payload EXCEPT ![h.family] = p]
  /\ UNCHANGED <<users, ledger>>

\* The series has the state's label and none of the child's; if the library
\* throws, nothing changes.
SetState(u, s, active) ==
  LET h == handles[users[u].handle] IN
  /\ users[u].metric.type = "StateSet"
  /\ CountSample
  /\ IF h = Inert \/ Throws(h.family, s) THEN UNCHANGED <<series, ledger>>
     ELSE /\ \E a \in Places(series, h.family, s) :
               series' = [Added(series, h.family, s, a) EXCEPT ![a].value = active]
          /\ ledger' = [ledger EXCEPT ![<<h.family, users[u].labels \union s>>] = active]
  /\ UNCHANGED <<handles, users, payload>>

Next ==
  \/ \E m \in Metrics : Register(m) \/ RegisterFails(m)
  \/ \E u \in 1..Len(users) :
       \/ \E d \in DynamicLabels : Resolve(u, d) \/ ResolveFails(u, d)
       \/ Sample(u)
       \/ \E p \in Payloads : SetInfo(u, p)
       \/ \E s \in States, active \in {0, 1} : SetState(u, s, active)

Spec == Init /\ [][Next]_vars

----------------------------------------------------------------------------
(* Properties.                                                             *)

At(f, l) == {a \in Addresses : Has(series, f, l, a)}
PayloadSeries(f) == UNION {At(f, p) : p \in Payloads}

\* A child whose samples go to a series that is not its own: that of its
\* parent, if the library threw at its labels; that of the state, if it is one
\* of a state set.
Misdirected(u) ==
  /\ handles[users[u].handle] # Inert
  /\ \/ Throws(FamilyOf(users[u].metric), users[u].labels)
     \/ users[u].metric.type = "StateSet" /\ users[u].labels # NoLabels

\* The label sets that the samples of a metric or child belong to, and those of
\* the series they go to.
Meant(u) ==
  IF users[u].metric.type = "StateSet" THEN {users[u].labels \union s : s \in States}
                                       ELSE {users[u].labels}
Reached(u) ==
  IF users[u].metric.type = "StateSet" THEN States
                                       ELSE {series[handles[users[u].handle].series].labels}

\* The label sets of a family whose value some misdirected child falsifies.
Falsified(f) ==
  UNION {Meant(u) \union Reached(u) :
           u \in {v \in 1..Len(users) : FamilyOf(users[v].metric) = f /\ Misdirected(v)}}

\* What is exported for each metric and label set is what its samples add up
\* to, over every handle that was registered or resolved for it, and a sample
\* on an inert handle goes nowhere ("dynamic labels select a child series").
\* A misdirected child falsifies its own value and that of the series its
\* samples go to, and no other.
BackendMatchesLedger ==
  \A f \in Families \ InfoFamilies : \A l \in LabelSets \ Falsified(f) :
    IF At(f, l) = {} THEN ledger[<<f, l>>] = 0
                     ELSE \A a \in At(f, l) : series[a].value = ledger[<<f, l>>]

\* The payload set last, through whichever handle, is exported at value 1:
\* replacing a payload by itself, or after the library threw, does not lose it.
LatestPayloadExported ==
  \A f \in InfoFamilies : payload[f] # NoLabels =>
    \E a \in At(f, payload[f]) : series[a].value = 1

\* A handle that is the only one of its info family replaces its payload: no
\* stale one lingers, also after Add has thrown.
SoleHandleReplaces ==
  \A f \in InfoFamilies :
    Cardinality({i \in 1..Len(handles) : handles[i].family = f}) = 1 =>
      Cardinality(PayloadSeries(f)) <= 1

\* An info metric exports one payload ("Replace any previous info series so
\* stale label sets don't linger").
InfoIsReplaced == \A f \in InfoFamilies : Cardinality(PayloadSeries(f)) <= 1
=============================================================================
