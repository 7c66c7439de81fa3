# A verification of cpp-prom

cpp-prom is a header-only C++ metrics facade. Libraries create metrics; a program
decides, at any time and from any thread, which backend (adapter) they record to and
how they are decorated (prefix, constant labels, display). Its hard part is *live
reconfiguration*: a metric caches what it registered, and notices through version
counters, without a lock on its fast path, that it must register again.

These TLA+ modules model that machinery and what surrounds it (the factories, the
directory of scopes, labels, the adapters) and TLC checks them on small instances. Every
safety property the passing runs check is also proved with TLAPS, for any number of
threads, fields, children, names, adapters, lists of labels and reconfigurations.

## The system

| Component | State | Operations | Used by |
|---|---|---|---|
| `AdapterCell` (global.hpp) | adapter under a mutex, atomic version | `set_adapter`, `version`, `adapter` | every metric of a registry; standalone and scoped metrics share one global cell |
| `DecorationState` (metric_base.hpp) | prefix, labels, display under a mutex, atomic version, parent | setters, `configure`, `version`, `full_name`, `effective_labels`, `effective_display` | registries, scopes (chained onto the global one), standalone metrics |
| `MetricCore`/`MetricBase` (metric_base.hpp) | published `Bound`, `bind_mutex`, unit and `unit_mutex`, family, `pinned` | `bind`, `rebind`, `make_child`, `reconcile_unit`, `check_finite` | the metric types |
| metric types (counter.hpp, gauge.hpp, ...) | none of their own | `inc`, `dec`, `set`, `observe`, `labels` | the program |
| `Registry` (registry.hpp) | cell, decoration, weak list of cores | `create`, `global`, factories and `build`, setters, `metrics` | the program |
| `Scope` (scope.hpp) | decoration, weak list of cores; process-wide map of named scopes | factories, setters, `scope`, `find_scope`, `scopes`, `metrics` | libraries |
| `Labels` (labels.hpp) | sorted pairs, cached hash | `set`, `merged_with`, `hash` | decorations, adapters |
| `CompositeAdapter` | list of adapters | fan-out of every adapter call | cells |
| `PrometheusCppAdapter` | a prometheus registry, a mutex; per handle the family, series, last info series | `register_metric`, `resolve`, mutations, `set_info`, `set_state` | cells |
| `NullAdapter` | none | logs | cells |

Interactions: a use of a metric calls `bind`, which reads the version of the cell and of
the decoration; if either moved, `rebind` reads the adapter and the decoration, calls
`register_metric` on that adapter and publishes a new `Bound`. The caller then works on
its copy of (adapter, handle): it checks the value, reconciles the sample's unit with the
family's (which may call `set_unit` on the adapter) and records, or resolves a labeled
child that keeps this binding for good.

What is hard:

* Writers store first and bump a version later, outside the mutex; readers read the
  version first and the value later. Several writers and readers interleave.
* A scope's version is the *sum* of two counters read one after the other.
* Readers read the decoration field by field, each under its own lock.
* First uses and re-registrations race; so do the samples that decide a unit.
* Children and family use different bindings but one unit.
* `scope(name)` looks a scope up and creates it in two critical sections; `metrics()` locks
  weak references under a mutex and describes the cores after it.
* The composite adapter takes no lock: calls are half way through its children at once.
* Handles outlive what they stand for: a metric that registers again gets a new handle of
  the same family, with none of what the old one remembered; a library call may throw
  between two updates, and an address may be used again.
* Nothing is persisted and no messages are sent: there are no crashes, retries,
  timeouts or lost calls to model. The version counters are 64 bits wide and start at 0
  or 1, so their overflow is out of reach.

What makes each component correct:

* Binding: a use that begins after a reconfiguration returned sees it (freshness); at
  most one registration per version, in order; nobody goes back to an older
  registration; adapter and handle belong together; every use returns.
* Units: all samples of a family are of the kind of its unit, if that has one; only a
  sample that counts decides the unit; the backend is told once, for a handle of its own;
  what is registered is a unit somebody declared or observed.
* Registry and scopes: what is made is listed while it lives, and not before its backend
  has it; one scope per name; what is refused leaves nothing behind.
* Labels: sorted, one value per name, last write wins; equal sets have equal hashes.
* Adapters: a sample changes exactly the series its handle names.

`PROJECT.json` lists every component with what is modelled of it, and every hazard at its
line, with the properties that cover it or why none does.

## Modules

    AdapterCell   Decoration              the two versioned sources
       |     \     /       \
       |   MetricCore      Enumeration --- Validation
       |    |      \            |
       |    |   LiveBinding   EnumerationProofs, MCEnumeration
       |  MetricCoreInv --- MetricCoreProofs --- LiveBindingProofs
       |    |
       |  MCMetricCore
       |
     UnitLatch --- UnitLatchProofs, MCUnitLatch

    ScopeMap --- ScopeDirectory           CompositeAdapter --- AttachedAdapter
       |                                      |
    ScopeMapProofs, MCScopeMap            CompositeProofs, MCCompositeAdapter

    PromCppAdapter                        Labels
       |                                      |
    PromCppProofs, MCPromCppAdapter       LabelsProofs, MCLabels

LiveBinding, ScopeDirectory and AttachedAdapter are abstract: what a metric, the directory
of scopes and an adapter promise. The MC modules hold the instances TLC checks.

**AdapterCell** is global.hpp's cell. The code never compares adapters, so the adapter of
the n-th store is the number n. `StoreAdapter` and `BumpCell` are the two halves of
`set_adapter`; `cellPending` holds the calls between them, so any number of threads may be
in `set_adapter` at once. `cellDone` is history: the newest store whose call has returned.

**Decoration** is `DecorationState`, for one decoration ("self") or a chain of two ("self"
and "parent"). What a field holds is the number of the store that wrote it; `StoreConfig`
and `BumpDeco` are the halves of every setter, `Version` is the sum the code compares,
`ReadsBefore` the order of its reads.

**MetricCore** is one metric used by `Threads`. `Kind` is its constructor: a registry's is
made by `BeginBuild` and its steps, a standalone or scoped one exists unbound. Each access
to shared memory is one action; `path[t]` is the function the thread is in, `pc[t]` its
next access. (A standalone metric is a scoped one without the second decoration.) The
correspondence:

| Action | Code |
|---|---|
| `Use` | `bind`: load of `bound` |
| `ReadAdapterVersion`, `ReadSelfVersion`, `ReadParentVersion` | the version loads of `bind`, `rebind`, `build` (each in that function's order) |
| `Compare` | the comparison of the fast path |
| `Lock`, `Recheck` | `bind_mutex` and the second check |
| `ReadAdapter`, `Decorate`, `Register`, `Publish` | the rest of `rebind` and of `build` |
| `Finish` | the caller is done with its `Binding` |
| `SetAdapter`, `Redecorate` | other threads' `set_adapter` and setters |

`log` is history: every `register_metric` call with the adapter, versions and fields it
used. A handle is the number of the call that returned it. `start[t]` is history: what was
complete, and published, when t's call began. `AtomicSharedPtr` and the atomics are
sequentially consistent: each is a single variable written with release and read with
acquire (or under a mutex), which is what a version needs to protect what was stored
before it.

**LiveBinding** is the abstract specification: no versions, locks or caching. A use is
served one view of the sources, each value at least as new as what was complete, or
published, when the use began. `MetricCore!ImplementsLiveBinding` is the refinement.

**UnitLatch** is a family and its labeled children: sampling, `make_child`,
`reconcile_unit`. It extends the same AdapterCell and keeps `bind`/`rebind` but leaves the
decoration out, and folds each version read into the comparison it serves; those
interleavings are MetricCore's. The writes of the unit, of `has_unit` and the notice are
separate steps, because `build_meta` reads them without the lock they are made under. C++
leaves such a read undefined; the model lets it find no unit, the unit, or `Torn`. A unit
is a name and a kind, either of them possibly empty: `reconcile_unit` drops a sample only
when both kinds are there and differ.

**ScopeMap** is the process-wide map of named scopes. `scope_map_mutex` guards each access
and nothing else is touched under it, so a critical section is an action: `Lookup` and
`GetOrCreate` are the two of `scope(name)`, the second alone is `scope(name, config)` (and
`Registry::scope`), `FindScope` and `ListScopes` are the others. `made` is history: the
scopes in the order they were made, so a scope is its number. **ScopeDirectory** has one
action per call, which takes effect at one moment between call and return;
`ScopeMap!ImplementsDirectory` is the refinement.

**Validation** is what the registry's factories refuse: the operators follow `try_*`,
`build` and `validate_*` in the order of their checks. A double is an integer or one of
three values that are not finite, a name a sequence of classes of characters. `Defects`
is the reference: what error.hpp says each code means, in no order.

**Enumeration** is one registry's, or scope's, factories, its list of weak references and
`metrics()`. A metric is the number of its core; the program lets go of it at will
(`Drop`), and the core is gone when nobody else has locked it. `Collect`, `Erase` and
`Collected` are the loop under the mutex, `Describe` is one locked read of the decoration
by `describe`, after it, `Return` lets the cores go. It extends `Decoration`: what a
listing shows is compared with the stores that had returned when it began. Of `describe`
the fields of the decoration are modelled; its unlocked read of the unit (registry.hpp:94)
races as `build_meta`'s does in UnitLatch. `Register` is the call of the backend; the
decorated name and labels it carries are MetricCore's.

**PromCppAdapter** is adapter.cpp over an external model of prometheus-cpp. The adapter's
mutex, or the atomic update of a series, makes each call one action. `Register` and
`RegisterFails` are the two outcomes of `register_metric`; every registration adds a
handle, so a metric that registers again after a reconfiguration, and several metrics of
one name, are handles of one family. The library gives an existing series for a family and
labels, puts a new one at any free address, that of a removed one included, and throws
where the instance says: at a metric, a child's labels, a payload or a state. `ledger`
and `payload` are history: what the samples add up to, by the metric and labels the
program meant, and the payload it set last. `Misdirected` is a child whose samples go to a
series that is not its own, because the library threw at its labels or because it is a
child of a state set; `Falsified` is what such children make wrong.

**CompositeAdapter** visits its children one action at a time. A recording child trusts
any handle of its kind (it downcasts), so `Recorded` writes to the series the *handle*
names: had the composite paired handles with the wrong children, the samples would land
elsewhere. `Foreign` handles are of a plain backend or of a composite of another size.
**AttachedAdapter** is the contract of adapter.hpp: a call takes effect once, between call
and return. `CompositeAdapter!AsIfAttached` says that the child `Watched` implements it.
**NullAdapter** is a kind of child.

**Labels** is the label set: `Normalize` is the stable sort and the collapse of equal
names, `Construct`, `Set`, `Merge`, `Copy`, `Move`, `ComputeHash` its operations.
`written` is history: a map from names to the values written last. A hash is the content
it was computed over, so collisions of the digest are out of sight.

## What the runs show

| Run | Checks | Instance |
|---|---|---|
| `registry` | `IInv`, `HandleBelongsToAdapter`, `RegistrationsAdvance`, `BindingNeverGoesBack`, `ImplementsLiveBinding` | 2 threads, 2 fields, partial and full writes, any 2 reconfigurations |
| `scope` | `TypeOK`, `BindingIsFresh`, `UseReturns` under `FairSpec` | 2 threads, 2 decorations of 1 field, any 2 of one swap and one write of each |
| `unit_latch` | `TypeOK`, `KindsAgree`, `DroppedSampleLatchesNothing`, `OneNotice`, `SeriesOfItsAdapter` | 2 threads, 1 child, units of two kinds and of none, raw values, 3 different samples, 1 swap |
| `scope_map` | `TypeOK`, `ScopesInv`, `OneScopePerName`, `EveryoneSharesTheScope`, `ImplementsDirectory` | 3 threads, 2 names, 1 configuration besides the default ones |
| `listing` | `TypeOK`, `RefusalIsExact`, `NoneForgotten`, `ListingIsComplete`, `ListedAreRegistered`, `ListingPrunes`, `DescribesTheLiving`, `ListingIsLive` | a registry, 2 threads, 3 metrics, 2 fields, 1 configure, 484 specs |
| `backend` | `TypeOK`, `BackendMatchesLedger`, `LatestPayloadExported`, `SoleHandleReplaces` | 7 metrics in 6 families, 3 registrations or children, 5 samples, 4 addresses, 3 payloads, throws at a counter's child, a payload and a state |
| `composite` | `TypeOK`, `HandlesAligned`, `NoSampleLostOrDoubled`, `AsIfAttached` | 2 threads, 2 recording children, a NullAdapter, 2 null entries, 2 foreign handles, 8 calls |
| `labels` | `TypeOK`, `ViewIsTheMap`, `EqualSetsHashEqual` | 2 objects, 2 names, 2 values, lists of up to 3 labels |
| `one_shot` | `RegisteredWhole`, violated | a standalone metric, 1 thread, 3 fields, 1 `configure` |
| `foreign_notice` | `NoticeHasOwnHandle`, violated | 1 thread, 1 child, 1 swap |
| `torn_unit` | `RegisteredUnitIsWhole`, violated | 2 threads, 1 swap |
| `stale_info` | `InfoIsReplaced`, violated | 2 handles of one info family, 2 payloads |

Bounds. `MaxSwaps` and `MaxWrites` bound the stores; `TwoReconfigurations` bounds their
total. Two reconfigurations are the smallest number with which two writers can overlap
(store, store, bump, bump), the two counters of a sum can move between their reads, and a
thread can be overtaken twice. Two threads make every race of the double-checked lock. The
numbers of uses and of registrations need no bound: a thread registers only when a version
has moved. `display` is read and written exactly as the labels are, so only `one_shot`
follows it; `scope` follows one field, since what it adds to `registry` is the sum of two
versions. The constraint cuts only reconfigurations, which no fairness obliges, so
`UseReturns` is checked on every fair behaviour with two of them. The proofs cover every
larger instance.

In `scope_map` three threads are enough for a caller to be overtaken between its two
sections by a creation and a listing. In `listing`, `MaxMetrics` is 3: a listing needs two
expired references side by side, and a third that moves into the gap. The first metric is
of every spec of `AllSpecs`, what follows uses two of them (`Usual`, `UsualOnly`): one that
is accepted and one refused; a check does not look at anything but the spec. In
`unit_latch` (`ThreeSamples`) nothing is explored past the third different sample: one of a
unit without a kind and two of different kinds, or three through different handles.
In `backend`
(`MaxUsers`, `MaxSamples`) three handles let one be replaced, share a series and have a
child; the second call on an info handle may throw, and the third then finds its address
used again. In `composite` (`MaxCalls`) eight calls are a registration, a child and two
samples of each thread. `labels` has no bound but the length of the lists.

`Symmetric` permutes threads, names, addresses or objects, which the specification treats
alike; `scope`, which checks liveness, does not use it. Deadlock is checked
where the model can go on for ever: not in `backend`, `stale_info` and `composite`, whose
bounds on calls end every behaviour.

Fairness (`FairSpec`). `WF_vars(Continue(t))`: a thread inside a call is scheduled by the
operating system. `bind_mutex` needs no strong fairness for the property: a thread keeps
the mutex for finitely many steps, and once reconfigurations stop only threads that still
hold a stale binding queue for it, each of which leaves for good after one pass. Weak
fairness of the bumps: a thread inside `set_adapter` or a setter finishes it. Nothing
obliges a thread to begin a use or a reconfiguration.

The findings:

* `one_shot`: `configure` stores its fields under one lock, but `rebind` reads them
  under three, so the use of a standalone metric meanwhile registers what nobody
  configured: in TLC's trace the old prefix and labels with the new display, between other
  reads an old prefix with new labels. The version bump that follows corrects the metric
  on its next use; the extra registration stays in the backend. `Registry::build`
  (registry.hpp:405-407) reads the fields the same way.
* `foreign_notice`: `reconcile_unit` gives the caller's adapter the handle in the
  *family's* binding as published at that moment. A child pinned before a swap tells its
  old adapter about the new adapter's handle.
* `torn_unit`: `unit_view` is called under `bind_mutex`, the unit is written under
  `unit_mutex`: a data race between a re-registration and a first dimensional sample.
  `metrics()` reads the unit without a lock too (registry.hpp:94).
* `stale_info`: `set_info` removes the series the *handle* remembers. After a
  reconfiguration the metric has a new handle, which remembers none, and the payload set
  through the old one is exported for good beside the new. (`SoleHandleReplaces` is what
  does hold.)

Divergences met while modelling that no run is kept for; each is an instance away:

* "Definition and registration of a metric *validate* their inputs" (error.hpp:6), but a
  scope checks nothing (scope.hpp:241): in `listing` with `Kind = "scope"`,
  `RefusalIsExact` fails. And a registry checks the name and labels of the spec, not what
  it registers: the prefix and the labels of the decoration go to the backend unchecked
  (registry.hpp:405-415). The model registers metrics, not names, so no property is about
  this.
* "A later dimensional sample of a *different kind* is dropped" (src/README.md:595), but a
  family whose unit has a name and no kind, declared or latched, drops none
  (metric_base.hpp:499). `KindsAgree` excepts it; without the exception `unit_latch`
  violates it.
* The states of a labeled child of a state set go to the family's own series
  (adapter.cpp:277 labels them with the state alone), although "dynamic labels select a
  child series" (src/README.md:389). Of a labeled child of an info metric likewise the
  payload is exported without the child's labels (adapter.cpp:259).
* When the library throws at dynamic labels, `resolve` hands back the parent's handle
  (adapter.cpp:205), and the child's samples are added to the parent's series. These
  children are the `Misdirected` ones, and what they make wrong is what
  `BackendMatchesLedger` excepts; without the exception `backend` violates it.
* When the library throws at a payload, the one before it is lost too, since `Remove` comes
  before `Add` (adapter.cpp:257-259); `payload` then expects none.
* A `Labels` that was moved from is empty and keeps its cached hash (labels.hpp:89), so it
  equals another empty one and hashes differently; `EqualSetsHashEqual` excepts it.
* `to_prom_labels` keeps the first of two equal names, `Labels` the last; the list given to
  `Info::set` is not normalised in between. The payloads of the model have no equal names.

## What is proved

`MetricCoreProofs` and `LiveBindingProofs` (TLAPS) prove, for all `Threads`, `Kind`, `Fields`,
`SetterFields`, `MaxSwaps`, `MaxWrites` that satisfy the modules' `ASSUME`s:

| Theorem | Statement |
|---|---|
| `TypeCorrect` | `Spec => []TypeOK` |
| `Invariance` | `Spec => []IInv` |
| `Freshness` | `Spec => []BindingIsFresh` |
| `HandleAndAdapter` | `Spec => []HandleBelongsToAdapter` |
| `OncePerVersion` | `Spec => []RegistrationsAdvance` |
| `NeverBack` | `Spec => []BindingNeverGoesBack` |
| `Refinement` | `Spec => ImplementsLiveBinding` |

The properties are not inductive: they speak of what was registered, the protocol of what
each thread has read so far. `IInv` (MetricCoreInv) adds, in named parts,

* `ControlInv`: which step belongs to which function; the holder of `bind_mutex` is the
  one thread in `rebind`, and `build` runs alone;
* `StoreInv`: a value whose setter has returned is still there, or a newer one is;
* `LogInv`: every registration holds values read *after* the versions it is filed under.
  So if such a version is still the current one, the values are no older than
  anything complete (`AdapterRead`, `SlotRead`). The published binding is the last
  registration, but for the one being published;
* `ReadInv`: versions read by a thread are no older than those of the binding it will
  compare them with, and if one is equal, that binding's values already cover what the
  thread's call may rely on;
* `AdvanceInv`: past the second check a thread's versions are newer than the published
  ones; `CallInv`: what the call could rely on, and that it is given it.

Two facts carry the argument. Versions are read before values and bumped after them, so an
equal version means values that are fresh enough. And every component of a
registration's version is at most the one read later, so equal *sums* mean equal
components (`VersionEqual`): comparing the sum of two counters that were read at
different moments is sound.

The refinement rests on the same invariant. A call begins with its first step, and its
floor is what `start` recorded. The three steps that hand out a binding (`Compare`,
`Recheck`, `Publish`) are `Serve`: `CallInv` says the view is no older than the sources
were, the order of the log says it is no older than the published one, and `LogInv` that
nothing in it is newer than the sources. The store of a reconfiguration is `Change`, its
bump `Complete`; every other step is a stutter.

TLC checks `IInv` itself, and the refinement, in the run `registry`.

`UnitLatchProofs` proves, for all `Threads`, `Children`, `Observed`, `Declared` and `MaxSwaps`:

| Theorem | Statement |
|---|---|
| `Invariance` | `Spec => []IInv` |
| `TypeCorrect` | `Spec => []TypeOK` |
| `OneKind` | `Spec => []KindsAgree` |
| `NoExceptions` | if all units have kinds, no two samples of different kinds are ever recorded |
| `OnlyRecorded` | `Spec => []DroppedSampleLatchesNothing` |
| `ToldOnce` | `Spec => []OneNotice` |
| `OwnSeries` | `Spec => []SeriesOfItsAdapter` |

Its invariant adds who holds `unit_mutex` (`MutexInv`): exactly the thread between the first
write of the unit and the end of the notice, so there is one. While the unit is written no
sample with a unit is recorded or about to be, and once it is latched whatever goes on to
`record` agrees with it (`UnitInv`), and so does all that was recorded (`RecordedInv`). Two
samples that agree with one unit agree with each other if the unit has a kind; hence the
exception in `KindsAgree`, and `NoExceptions`, whose hypothesis excludes it. A binding fits when its handle was made by its adapter:
`rebind` makes one that fits, and it is only ever handed on (`SeriesInv`). `bind_mutex` is
not needed for any of this.

`ScopeMapProofs` proves, for all `Threads`, `Names` and `Given`:

| Theorem | Statement |
|---|---|
| `MapInvariance` | `Spec => []ScopesInv` |
| `TypeCorrect` | `Spec => []TypeOK` |
| `OneScope` | `Spec => []OneScopePerName` |
| `SharedScope` | `Spec => []EveryoneSharesTheScope` |
| `Refinement` | `Spec => ImplementsDirectory` |

Its invariant says that the map and the scopes made are each other's inverse (`MapInv`),
that a call is in a section of its own operation, and that what `scope` has returned is in
the map (`CallInv`). The second lookup, under the mutex that the creation holds, is what
keeps `MapInv`. The refinement maps `Lookup` that finds nothing to a stutter and every
other section to the moment its call takes effect.

`CompositeProofs` proves, for all `Threads`, `Metrics`, `Counters`, `DynamicLabels`,
`Entries`, `Watched` and `MaxCalls`:

| Theorem | Statement |
|---|---|
| `CallInvariance` | `Spec => []IInv` |
| `TypeCorrect` | `Spec => []TypeOK` |
| `Alignment` | `Spec => []HandlesAligned` |
| `Attachment` | `Spec => AsIfAttached` |
| `NoneLost` | `Spec => []NoSampleLostOrDoubled` |

Its invariant adds what a call half way through the children has (`CallInv`): an answer of
each child it has been to, whose series that child then knows, and the bundle it works on.
An aligned parent then makes an aligned child bundle, and the handle that child i is given
is its own, which is all the refinement and the count of increments need. The assumptions
are that threads are finitely many, and `ChildrenAssumption`: the child compared with the
contract records, and the foreign handles are of plain backends or of composites of
another size. (That the list without its null entries has no null among its children is
proved for every list, `DenseFacts`.) `resolve` does not tell a composite of as many adapters from
itself (composite_adapter.hpp:92), so nothing would hold with its handles. No sample brings
one, since adapter and handle of a binding belong together (`HandleBelongsToAdapter`,
`SeriesOfItsAdapter`); only the notice of the finding `foreign_notice` can, and `set_unit`
changes no series.

`EnumerationProofs` proves, for all `Threads`, `Specs`, `Usual`, `MaxMetrics`, both kinds of
factory, and all parameters of the decoration:

| Theorem | Statement |
|---|---|
| `ListInvariance` | `Spec => []IInv` |
| `TypeCorrect` | `Spec => []TypeOK` |
| `Remembered` | `Spec => []NoneForgotten` |
| `Completeness` | `Spec => []ListingIsComplete` |
| `Pruning` | `Spec => []ListingPrunes` |
| `DescribedLive` | `Spec => []DescribesTheLiving` |
| `LiveViews` | `Spec => []ListingIsLive` |
| `RegisteredFirst` | `Spec => []ListedAreRegistered`, of a registry |
| `ExactRefusal` | `Spec => []RefusalIsExact`, of a registry |

Its invariant says that a core is destroyed exactly when neither the program nor a factory
nor a listing has it (`AliveInv`); that what the program or a listing has is in the list, so
nothing alive is ever erased (`ListedInv`); and that `mutex_` is held by the listing that
walks the list (`MutexInv`), so the list changes under nobody but for appending. A metric
known when a listing began is then dead, collected, or still ahead of the iterator, and a
reference that had expired is ahead or erased (`CallInv`). What was read for a core is no
older than what was complete when the call began (`ViewInv`), because stores only grow
(`DecoInv`). The proof assumes that the fields include one that `describe` reads, and that
what a program specifies is a spec: a name and labels that are sequences of characters, a
list of numbers (`EnumerationAssumption`).

`ExactRefusal` is about the checks: for every spec `RefusalExact` compares what
`build` and `validate_*` answer with `Defects`. The code compares each bound with the one
before it, the reference any two, so the first bound out of order (`LeastElement`) is one
that the code sees. What a registry decided last was decided by these checks (`Decided`),
which gives the theorem. A scope checks nothing, hence the hypothesis `Kind = "registry"`
(see Divergences). `RegisteredFirst` has it because a scope registers nothing before a
first use; its invariant is that what is in the list, or was collected from it, has been
registered (`RegisteredInv`).

`PromCppProofs` proves, for all `Metrics`, `DynamicLabels`, `Payloads`, `States`, `Labeled`,
`RefusedMetrics`, `RefusedLabels`, `Addresses` and bounds:

| Theorem | Statement |
|---|---|
| `Invariance` | `OnlyInfoInFamily` implies `Spec => []IInv` |
| `TypeCorrect` | `OnlyInfoInFamily` implies `Spec => []TypeOK` |
| `LatestExported` | `OnlyInfoInFamily` implies `Spec => []LatestPayloadExported` |
| `SoleHandle` | `OnlyInfoInFamily` implies `Spec => []SoleHandleReplaces` |
| `ExportIsLedger` | `OnlyInfoInFamily` implies `Spec => []BackendMatchesLedger` |

`IInv` adds that a family has one series of each label set, wherever the library puts new
ones (`Distinct`); that a live handle is of its metric's type and family, and that one of a
metric with samples has a series which is still there (`UserInv`); and that a series of an
info family is the one some handle remembers, unless the family has several handles
(`ReplaceInv`), which outlasts a throw between `Remove` and `Add`. The ledger is matched
because the series of a metric or child that is not misdirected carries its labels
(`LabelInv`), so that two handles write to one series just when the program meant one. A
misdirected child writes to the series it reaches and to the ledger of the one it was meant
for; both are in `Falsified`, which never shrinks (`FalsifiedKept`), and every other series
still matches (`SetOthers`). So nothing is assumed of children or of what the library
throws at. The one hypothesis is what the adapter expects of its program without checking
it, `OnlyInfoInFamily`: no other metric has the name and constant labels of an info metric,
or replacing a payload could remove a series the other goes on writing to.
`MCPromCppAdapter` has TLC evaluate it on the instances.

`LabelsProofs` proves, for all `Objects`, `Values`, `LastName` and `MaxLength`:

| Theorem | Statement |
|---|---|
| `Invariance` | `Spec => []IInv` |
| `TypeCorrect` | `Spec => []TypeOK` |
| `ShowsMap` | `Spec => []ViewIsTheMap` |
| `HashesAgree` | `Spec => []EqualSetsHashEqual` |

Its lemmas say what `normalize` computes for every list. `StableSort` has every label of the
list, by name and then by position (`SortFacts`); `Collapse` keeps those before another name,
so what is left increases and is what no later label of the list shadows (`NormalFacts`).
That list amounts to the same map as the writes did, one after another (`NormalShows`), and
of two lists, one after the other, the second wins (`AmountsBoth`), which is `set` and
`merged_with`. The invariant is that each object's labels increase and amount to its map,
and that a valid hash is that of the labels, unless the object was moved from.

The sort, the collapse and the list of children are recursive functions over a list, and
tlapm has no induction theorem it can instantiate. These proofs state the induction over
sets of positions instead: a set of naturals that is not empty has a least element
(`LeastElement`, from the library's theorem on well-founded orders), so the first position
at which a fact fails, if there is one, follows one at which it holds.

Only model-checked: `UseReturns`, which is liveness.

## Not modelled

* Text: names, labels and display are numbers of stores, members of small sets or classes
  of characters; logging is left out.
* `name()` and the copy of the name in `make_child`, which no decision depends on.
* The fallback of `AtomicSharedPtr` to a mutex: load and store are atomic either way.
* `adapter()`'s mutex: its critical sections are one assignment.
* The data race on the cache of a `const Labels` in `hash()`: the library never calls it.
* Bucket bounds and quantiles in the backend, the order of states, exposition, collisions of
  the hash, a composite among a composite's children.
* The error codes `EmptyHelp` and `RegistrationFailed`, which nothing gives.
* The free helpers, which forward to `Registry::global()`.
* Destruction of registries and adapters, exceptions of allocation in `noexcept` functions.
* Examples, build files, the HTTP exposer, the units of dimval, logman.

Nothing is promised of a composite's children among themselves: two concurrent sets of a
gauge may come to them in different orders, and they then differ until the next.

## Plan

1. *Done*: `AdapterCell`, `Decoration`, `MetricCore`, `LiveBinding`, `UnitLatch`; the
   inductive invariant of `MetricCore` and its theorems.
2. *Done*: `ScopeMap`, `ScopeDirectory` and their theorems; `Validation`, `Enumeration`.
3. *Done*: `PromCppAdapter`; `CompositeAdapter`, `AttachedAdapter`.
4. *Done*: `Labels`.
5. *Done*: the theorems of `UnitLatch`, `ScopeMap` and `CompositeAdapter`.
6. *Done*: `MetricCore` implements `LiveBinding`.
7. *Done*: the theorems of `Enumeration`, those about its checks included.
8. *Done*: the theorems of `PromCppAdapter`, for every child and throw, and of `Labels`; the
   children of a composite.
9. Left to TLC for good: liveness.
