------------------------------ MODULE UnitLatch ------------------------------
(***************************************************************************)
(* Samples on a metric family and on its labeled children: how the first   *)
(* dimensional sample decides the family's unit (metric_base.hpp:          *)
(* reconcile_unit), while adapter swaps make the family re-register and    *)
(* labels() creates children that are pinned to the binding of their time. *)
(*                                                                         *)
(* bind and rebind are MetricCore's with the decoration left out and the   *)
(* version read folded into the comparison it serves: what matters here is *)
(* which registration is published when, and which unit it was made with.  *)
(***************************************************************************)
EXTENDS AdapterCell, Sequences

CONSTANTS
  Threads,             \* the threads that use the metric
  Children,            \* the labeled children the program makes
  Observed,            \* the units its samples carry, NoUnit for a raw value
  Declared             \* the unit of the spec, NoUnit for none

VARIABLES
  bound,               \* bound of the family's core
  bindMutex,           \* the thread that holds bind_mutex
  childBound,          \* bound of each child's core, NoBinding before labels()
  unit,                \* unit_name and unit_kind of the family's core
  hasUnit,             \* has_unit of the family's core
  unitMutex,           \* the thread that holds unit_mutex
  log,                 \* history: what register_metric and resolve made
  notified,            \* history: the set_unit calls
  recorded,            \* history: the samples given to an adapter
  pc,                  \* pc[t]: t's next step
  call,                \* call[t]: what t is doing, to which core
  binding,             \* binding[t]: the Binding bind() returned to t
  av                   \* av[t]: the version of the Bound bind() loaded, then the
                       \*        one rebind() read

vars == <<cellVars, bound, bindMutex, childBound, unit, hasUnit, unitMutex, log,
          notified, recorded, pc, call, binding, av>>
bindVars == <<bound, bindMutex, childBound, log>>
unitVars == <<unit, hasUnit, unitMutex, notified>>

----------------------------------------------------------------------------
NoUnit == [name |-> "", kind |-> ""]
Torn == [name |-> "torn", kind |-> "torn"]        \* a unit read while it is written
Family == "family"

ASSUME UnitAssumption ==
  /\ Observed \union {Declared} \subseteq [name : STRING, kind : STRING]
  /\ Torn \notin Observed \union {Declared}
  /\ Family \notin Children

Cores == {Family} \union Children
Samples == [what : {"sample"}, core : Cores, unit : Observed, valid : BOOLEAN]
Labelings == [what : {"labels"}, core : Cores, child : Children]
NoCall == [what |-> "none"]

\* An adapter's handle is the number of the call that returned it, 0 is none.
NoBinding == [adapter |-> 0, handle |-> 0]
NoBound == [adapter |-> 0, handle |-> 0, adapter_version |-> 0]
Bindings == [adapter : Nat, handle : Nat]
Bounds == [adapter : Nat, handle : Nat, adapter_version : Nat]

Series == [adapter : Nat, family : Nat, unit : Observed \union {Declared, NoUnit, Torn}]

Steps == {"idle", "compare", "rebind", "adapter", "register", "publish", "bound",
          "reconcile", "latch", "notify", "record"}

TypeOK ==
  /\ CellTypeOK
  /\ bound \in Bounds
  /\ bindMutex \in {{}} \union {{t} : t \in Threads}
  /\ childBound \in [Children -> Bindings]
  /\ unit \in Observed \union {Declared, NoUnit}
  /\ hasUnit \in BOOLEAN
  /\ unitMutex \in {{}} \union {{t} : t \in Threads}
  /\ log \in Seq(Series)
  /\ notified \in Seq([adapter : Nat, handle : Nat])
  /\ recorded \subseteq [adapter : Nat, handle : Nat, unit : Observed]
  /\ pc \in [Threads -> Steps]
  /\ call \in [Threads -> Samples \union Labelings \union {NoCall}]
  /\ binding \in [Threads -> Bindings]
  /\ av \in [Threads -> Nat]

Init ==
  /\ CellInit
  /\ bound = NoBound
  /\ bindMutex = {}
  /\ childBound = [c \in Children |-> NoBinding]
  /\ unit = Declared
  /\ hasUnit = (Declared # NoUnit)
  /\ unitMutex = {}
  /\ log = <<>>
  /\ notified = <<>>
  /\ recorded = {}
  /\ pc = [t \in Threads |-> "idle"]
  /\ call = [t \in Threads |-> NoCall]
  /\ binding = [t \in Threads |-> NoBinding]
  /\ av = [t \in Threads |-> 0]

Goto(t, label) == pc' = [pc EXCEPT ![t] = label]
Set(f, t, value) == [f EXCEPT ![t] = value]
Part(b) == [adapter |-> b.adapter, handle |-> b.handle]

\* The call ends and its locals are gone.
Return(t) ==
  /\ Goto(t, "idle")
  /\ call' = Set(call, t, NoCall)
  /\ binding' = Set(binding, t, NoBinding)
  /\ UNCHANGED av

----------------------------------------------------------------------------
(* bind() and rebind().                                                    *)

\* bind() on a pinned child returns its own Bound; on the family it loads the
\* published one.
Begin(t, c) ==
  /\ pc[t] = "idle"
  /\ c.core \in Children => childBound[c.core] # NoBinding
  /\ call' = Set(call, t, c)
  /\ IF c.core \in Children
       THEN /\ binding' = Set(binding, t, childBound[c.core])
            /\ Goto(t, "bound")
            /\ UNCHANGED av
       ELSE /\ binding' = Set(binding, t, Part(bound))
            /\ Goto(t, IF bound = NoBound THEN "rebind" ELSE "compare")
            /\ av' = Set(av, t, bound.adapter_version)
  /\ UNCHANGED <<cellVars, bindVars, unitVars, recorded>>

\* inc, set, observe...
BeginSample(t) == \E s \in Samples : Begin(t, s)

\* labels(), for a child that does not exist yet.
BeginLabels(t) ==
  \E l \in Labelings :
    /\ childBound[l.child] = NoBinding
    /\ \A u \in Threads : call[u].what = "labels" => call[u].child # l.child
    /\ Begin(t, l)

\* The fast path, or rebind().
Compare(t) ==
  /\ pc[t] = "compare"
  /\ IF av[t] = cellVersion
       THEN Goto(t, "bound") /\ UNCHANGED binding
       ELSE Goto(t, "rebind") /\ binding' = Set(binding, t, NoBinding)
  /\ av' = Set(av, t, 0)
  /\ UNCHANGED <<cellVars, bindVars, unitVars, recorded, call>>

\* rebind() takes bind_mutex, reads the version and looks again.
Rebind(t) ==
  /\ pc[t] = "rebind"
  /\ bindMutex = {}
  /\ IF bound # NoBound /\ bound.adapter_version = cellVersion
       THEN /\ binding' = Set(binding, t, Part(bound))
            /\ Goto(t, "bound")
            /\ UNCHANGED <<bindMutex, av>>
       ELSE /\ bindMutex' = {t}
            /\ av' = Set(av, t, cellVersion)
            /\ Goto(t, "adapter")
            /\ UNCHANGED binding
  /\ UNCHANGED <<cellVars, bound, childBound, log, unitVars, recorded, call>>

ReadAdapter(t) ==
  /\ pc[t] = "adapter"
  /\ binding' = [binding EXCEPT ![t].adapter = cellAdapter]
  /\ Goto(t, "register")
  /\ UNCHANGED <<cellVars, bindVars, unitVars, recorded, call, av>>

\* unit_view() reads has_unit and the unit without unit_mutex.  While another
\* thread writes them, under that mutex, the read is a data race: it finds no
\* unit, the unit, or a flag that is set before the fields are.
UnitRead ==
  CASE unitMutex # {} -> {NoUnit, unit, Torn}
    [] unitMutex = {} /\ hasUnit -> {unit}
    [] unitMutex = {} /\ ~hasUnit -> {NoUnit}

\* register_metric(build_meta())
Register(t) ==
  /\ pc[t] = "register"
  /\ \E u \in UnitRead :
       log' = Append(log, [adapter |-> binding[t].adapter, family |-> 0, unit |-> u])
  /\ binding' = [binding EXCEPT ![t].handle = Len(log) + 1]
  /\ Goto(t, "publish")
  /\ UNCHANGED <<cellVars, bound, bindMutex, childBound, unitVars, recorded, call, av>>

Publish(t) ==
  /\ pc[t] = "publish"
  /\ bound' = [adapter |-> binding[t].adapter, handle |-> binding[t].handle,
               adapter_version |-> av[t]]
  /\ bindMutex' = {}
  /\ av' = Set(av, t, 0)
  /\ Goto(t, "bound")
  /\ UNCHANGED <<cellVars, childBound, log, unitVars, recorded, call, binding>>

----------------------------------------------------------------------------
(* What the caller does with its Binding.                                  *)

\* The rest of make_child: the child's series, and its Bound for good.
ResolveOnPublished(t) == bound.adapter                    \* mutant of ChildAdapter
ChildAdapter(t) == binding[t].adapter

MakeChild(t) ==
  /\ pc[t] = "bound"
  /\ call[t].what = "labels"
  /\ log' = Append(log, [adapter |-> ChildAdapter(t), family |-> binding[t].handle,
                         unit |-> NoUnit])
  /\ childBound' = Set(childBound, call[t].child,
                       [adapter |-> ChildAdapter(t), handle |-> Len(log) + 1])
  /\ Return(t)
  /\ UNCHANGED <<cellVars, bound, bindMutex, unitVars, recorded>>

\* A sample that is not finite, or a counter's that is negative, is dropped.
NeverDropped(t) == TRUE                                   \* mutant of Recordable
Recordable(t) == call[t].valid

CheckValue(t) ==
  /\ pc[t] = "bound"
  /\ call[t].what = "sample"
  /\ CASE ~Recordable(t) -> Return(t)
       [] Recordable(t) /\ call[t].unit = NoUnit ->
            Goto(t, "record") /\ UNCHANGED <<call, binding, av>>
       [] Recordable(t) /\ call[t].unit # NoUnit ->
            Goto(t, "reconcile") /\ UNCHANGED <<call, binding, av>>
  /\ UNCHANGED <<cellVars, bindVars, unitVars, recorded>>

\* The kinds contradict each other only if both are known.
Contradicts(u) == unit.kind # "" /\ u.kind # "" /\ unit.kind # u.kind

MutexIgnored == TRUE                                      \* mutant of UnitMutexFree
UnitMutexFree == unitMutex = {}

\* reconcile_unit(), under the family's unit_mutex: the unit is known...
Reconcile(t) ==
  /\ pc[t] = "reconcile"
  /\ UnitMutexFree
  /\ hasUnit
  /\ IF Contradicts(call[t].unit)
       THEN Return(t)
       ELSE Goto(t, "record") /\ UNCHANGED <<call, binding, av>>
  /\ UNCHANGED <<cellVars, bindVars, unitVars, recorded>>

\* ...or this sample decides it: its fields are written,
WriteUnit(t) ==
  /\ pc[t] = "reconcile"
  /\ UnitMutexFree
  /\ ~hasUnit
  /\ unitMutex' = unitMutex \union {t}
  /\ unit' = call[t].unit
  /\ Goto(t, "latch")
  /\ UNCHANGED <<cellVars, bindVars, hasUnit, notified, recorded, call, binding, av>>

\* then has_unit,
Latch(t) ==
  /\ pc[t] = "latch"
  /\ hasUnit' = TRUE
  /\ Goto(t, "notify")
  /\ UNCHANGED <<cellVars, bindVars, unit, unitMutex, notified, recorded, call,
                 binding, av>>

\* and the caller's adapter is told, with the handle the family has published
\* by now (or the core's own, if the family has none).
Notify(t) ==
  /\ pc[t] = "notify"
  /\ notified' = Append(notified,
       [adapter |-> binding[t].adapter,
        handle |-> IF bound.handle # 0 THEN bound.handle ELSE binding[t].handle])
  /\ unitMutex' = unitMutex \ {t}
  /\ Goto(t, "record")
  /\ UNCHANGED <<cellVars, bindVars, unit, hasUnit, recorded, call, binding, av>>

\* adapter->inc, dec, set or observe
Record(t) ==
  /\ pc[t] = "record"
  /\ recorded' = recorded \union {[adapter |-> binding[t].adapter,
                                   handle |-> binding[t].handle, unit |-> call[t].unit]}
  /\ Return(t)
  /\ UNCHANGED <<cellVars, bindVars, unitVars>>

----------------------------------------------------------------------------
SetAdapter ==
  /\ CellNext
  /\ UNCHANGED <<bindVars, unitVars, recorded, pc, call, binding, av>>

Next ==
  \/ \E t \in Threads :
       \/ BeginSample(t) \/ BeginLabels(t) \/ Compare(t) \/ Rebind(t) \/ ReadAdapter(t)
       \/ Register(t) \/ Publish(t) \/ MakeChild(t) \/ CheckValue(t) \/ Reconcile(t)
       \/ WriteUnit(t) \/ Latch(t) \/ Notify(t) \/ Record(t)
  \/ SetAdapter

Spec == Init /\ [][Next]_vars

----------------------------------------------------------------------------
(* Properties.                                                             *)

\* The family's unit and all that is recorded, on the family or any child, have
\* one kind between them, however the first samples race ("the first
\* dimensional sample latches the metric's unit; a later one of a different
\* kind is dropped").  The exception is a family whose unit has a name and no
\* kind: it contradicts nothing, and the kinds of its samples may differ.
Kinds == ({unit.kind} \union {r.unit.kind : r \in recorded}) \ {""}
KindsAgree ==
  /\ \A r \in recorded : hasUnit \/ r.unit = NoUnit
  /\ (\A k, l \in Kinds : k = l) \/ (hasUnit /\ unit # NoUnit /\ unit.kind = "")

\* A sample that is dropped decides nothing: the unit latched is that of a
\* sample that is recorded, or about to be.
DroppedSampleLatchesNothing ==
  hasUnit /\ Declared = NoUnit =>
    \/ \E r \in recorded : r.unit = unit
    \/ \E t \in Threads : /\ pc[t] \in {"notify", "record"}
                        /\ call[t].unit = unit /\ call[t].valid

\* The backend is told of an inferred unit at most once, of a declared one
\* never ("Called when a metric that declared no unit latches the unit of its
\* first dimensional observation").
OneNotice == Len(notified) <= (IF Declared = NoUnit THEN 1 ELSE 0)

\* A pinned child, and every sample, uses a series of the adapter beside it,
\* and the child's series is one of its family's there.
SeriesOfItsAdapter ==
  /\ \A r \in recorded : log[r.handle].adapter = r.adapter
  /\ \A c \in Children : childBound[c] # NoBinding =>
       LET series == log[childBound[c].handle] IN
       /\ series.adapter = childBound[c].adapter
       /\ log[series.family].adapter = series.adapter

\* The adapter that is told the unit is told it for a handle of its own
\* ("a concurrent re-bind of a scoped metric cannot invalidate the
\* adapter/handle mid-operation").
NoticeHasOwnHandle ==
  \A i \in 1..Len(notified) : log[notified[i].handle].adapter = notified[i].adapter

\* A registration carries no unit or the family's ("Metric mutation and
\* binding are safe from multiple threads").
RegisteredUnitIsWhole == \A i \in 1..Len(log) : log[i].unit # Torn
=============================================================================
