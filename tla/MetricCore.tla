----------------------------- MODULE MetricCore -----------------------------
(***************************************************************************)
(* One metric and the threads that use it (metric_base.hpp: bind, rebind;  *)
(* registry.hpp: build), while other threads swap the adapter of its cell  *)
(* and reconfigure its decoration.                                         *)
(*                                                                         *)
(* Every access to shared state is a step of its own: the loads of the     *)
(* versions, the load and the store of the published binding, each read of *)
(* a decoration field, the calls of the adapter.  The two atomics and the  *)
(* AtomicSharedPtr are sequentially consistent here, as acquire loads and  *)
(* release stores of one variable each make them for what a version        *)
(* protects.                                                               *)
(***************************************************************************)
EXTENDS AdapterCell, Decoration, Sequences

CONSTANTS
  Threads,             \* the threads that use the metric
  Kind                 \* which constructor made it

ASSUME KindAssumption ==
  /\ Kind \in {"registry", "standalone", "scope"}
  /\ HasParent <=> Kind = "scope"

VARIABLES
  made,                \* whether the program holds the metric's handle
  bound,               \* MetricCore::bound
  bindMutex,           \* the thread that holds MetricCore::bind_mutex
  log,                 \* history: the register_metric calls, oldest first
  path,                \* path[t]: the function t is in
  pc,                  \* pc[t]: its next step there
  seen,                \* seen[t]: the Bound that bind() loaded
  av,                  \* av[t]: the adapter version read
  ver,                 \* ver[t]: the decoration versions read
  got,                 \* got[t]: the adapter read
  meta,                \* meta[t]: the decoration fields read
  unread,              \* unread[t]: the ones still to be read
  handle,              \* handle[t]: what register_metric returned
  binding,             \* binding[t]: the Binding bind() returned to t
  start                \* history: what t's call could rely on when it began

vars == <<cellVars, decoVars, made, bound, bindMutex, log, path, pc, seen, av,
          ver, got, meta, unread, handle, binding, start>>
coreVars == <<made, bound, bindMutex, log>>
localVars == <<path, pc, seen, av, ver, got, meta, unread, handle, binding, start>>

----------------------------------------------------------------------------
\* A handle is the number of the register_metric call that returned it; 0 is
\* the empty handle, so NoBound is the null shared_ptr.
Bounds == [adapter : Nat, handle : Nat, adapter_version : Nat, scope_version : Nat]
NoBound == [adapter |-> 0, handle |-> 0, adapter_version |-> 0, scope_version |-> 0]

Bindings == [adapter : Nat, handle : Nat]
NoBinding == [adapter |-> 0, handle |-> 0]

Registrations ==
  [adapter : Nat, av : Nat, ver : [Decos -> Nat], meta : [Slots -> Nat]]

Starts == [adapter : Nat, done : [Slots -> Nat], handle : Nat]

NoVersions == [d \in Decos |-> 0]
NoMeta == [s \in Slots |-> 0]
NoStart == [adapter |-> 0, done |-> NoMeta, handle |-> 0]

Now == [adapter |-> cellDone, done |-> decoDone, handle |-> bound.handle]

Paths == {"none", "bind", "rebind", "build"}
Steps == {"idle", "adapter_version", "self_version", "parent_version", "compare",
           "lock", "recheck", "adapter", "decorate", "register", "publish", "ready"}

CoreTypeOK ==
  /\ made \in BOOLEAN
  /\ bound \in Bounds
  /\ bindMutex \in {{}} \union {{t} : t \in Threads}
  /\ log \in Seq(Registrations)

LocalTypeOK ==
  /\ path \in [Threads -> Paths]
  /\ pc \in [Threads -> Steps]
  /\ seen \in [Threads -> Bounds]
  /\ av \in [Threads -> Nat]
  /\ ver \in [Threads -> [Decos -> Nat]]
  /\ got \in [Threads -> Nat]
  /\ meta \in [Threads -> [Slots -> Nat]]
  /\ unread \in [Threads -> SUBSET Slots]
  /\ handle \in [Threads -> Nat]
  /\ binding \in [Threads -> Bindings]
  /\ start \in [Threads -> Starts]

TypeOK == CellTypeOK /\ DecoTypeOK /\ CoreTypeOK /\ LocalTypeOK

----------------------------------------------------------------------------
\* A Registry's metric exists once build has returned; the others are made by
\* their constructor, unbound.
Init ==
  /\ CellInit
  /\ DecoInit
  /\ made = (Kind # "registry")
  /\ bound = NoBound
  /\ bindMutex = {}
  /\ log = <<>>
  /\ path = [t \in Threads |-> "none"]
  /\ pc = [t \in Threads |-> "idle"]
  /\ seen = [t \in Threads |-> NoBound]
  /\ av = [t \in Threads |-> 0]
  /\ ver = [t \in Threads |-> NoVersions]
  /\ got = [t \in Threads |-> 0]
  /\ meta = [t \in Threads |-> NoMeta]
  /\ unread = [t \in Threads |-> {}]
  /\ handle = [t \in Threads |-> 0]
  /\ binding = [t \in Threads |-> NoBinding]
  /\ start = [t \in Threads |-> NoStart]

Goto(t, label) == pc' = [pc EXCEPT ![t] = label]
Set(f, t, value) == [f EXCEPT ![t] = value]

\* Nothing below reads the locals of bind, rebind or build any more.
Forget(t) ==
  /\ seen' = Set(seen, t, NoBound)
  /\ av' = Set(av, t, 0)
  /\ ver' = Set(ver, t, NoVersions)
  /\ got' = Set(got, t, 0)
  /\ meta' = Set(meta, t, NoMeta)
  /\ unread' = Set(unread, t, {})
  /\ handle' = Set(handle, t, 0)

\* bind, rebind or build hands its caller the adapter and handle of b.
Return(t, b) ==
  /\ binding' = Set(binding, t, [adapter |-> b.adapter, handle |-> b.handle])
  /\ path' = Set(path, t, "none")
  /\ Goto(t, "ready")

MatchesAdapterOnly(b, t) == b.adapter_version = av[t]     \* mutant of Matches

\* The versions b was registered for are the ones t has just read.
Matches(b, t) ==
  /\ b.adapter_version = av[t]
  /\ b.scope_version = Version(ver[t])

----------------------------------------------------------------------------
\* Registry::build on a fresh core no other thread can reach yet: the
\* decoration's version, its fields, the cell's version, the adapter.
BeginBuild(t) ==
  /\ ~made
  /\ \A u \in Threads : pc[u] = "idle"
  /\ path' = Set(path, t, "build")
  /\ start' = Set(start, t, Now)
  /\ unread' = Set(unread, t, Slots)
  /\ Goto(t, "self_version")
  /\ UNCHANGED <<cellVars, decoVars, coreVars, seen, av, ver, got, meta, handle, binding>>

\* A use of the metric begins: bind() loads the published binding.
Use(t) ==
  /\ made
  /\ pc[t] = "idle"
  /\ start' = Set(start, t, Now)
  /\ seen' = Set(seen, t, bound)
  /\ path' = Set(path, t, "bind")
  /\ Goto(t, IF bound = NoBound THEN "lock" ELSE "adapter_version")
  /\ UNCHANGED <<cellVars, decoVars, coreVars, av, ver, got, meta, unread, handle, binding>>

ReadAdapterVersion(t) ==
  /\ pc[t] = "adapter_version"
  /\ av' = Set(av, t, cellVersion)
  /\ Goto(t, IF path[t] = "build" THEN "adapter" ELSE "self_version")
  /\ UNCHANGED <<cellVars, decoVars, coreVars, path, seen, ver, got, meta, unread,
                 handle, binding, start>>

\* DecorationState::version() loads its own counter, then the parent's.
AfterVersion(t) ==
  CASE path[t] = "bind" -> "compare"
    [] path[t] = "rebind" -> "recheck"
    [] OTHER -> "decorate"

ReadSelfVersion(t) ==
  /\ pc[t] = "self_version"
  /\ ver' = [ver EXCEPT ![t]["self"] = decoVersion["self"]]
  /\ Goto(t, IF HasParent THEN "parent_version" ELSE AfterVersion(t))
  /\ UNCHANGED <<cellVars, decoVars, coreVars, path, seen, av, got, meta, unread,
                 handle, binding, start>>

ReadParentVersion(t) ==
  /\ HasParent
  /\ pc[t] = "parent_version"
  /\ ver' = [ver EXCEPT ![t]["parent"] = decoVersion["parent"]]
  /\ Goto(t, AfterVersion(t))
  /\ UNCHANGED <<cellVars, decoVars, coreVars, path, seen, av, got, meta, unread,
                 handle, binding, start>>

\* bind()'s fast path: the loaded binding is current, or rebind().
Compare(t) ==
  /\ pc[t] = "compare"
  /\ IF Matches(seen[t], t)
       THEN Return(t, seen[t])
       ELSE Goto(t, "lock") /\ UNCHANGED <<path, binding>>
  /\ Forget(t)
  /\ UNCHANGED <<cellVars, decoVars, coreVars, start>>

----------------------------------------------------------------------------
LockAnyway == TRUE                                        \* mutant of MutexFree
MutexFree == bindMutex = {}

LeakOnReturn(t) == UNCHANGED bindMutex                    \* mutant of Unlock
Unlock(t) == bindMutex' = bindMutex \ {t}

\* rebind(): everything from here to the publication holds bind_mutex.
Lock(t) ==
  /\ pc[t] = "lock"
  /\ MutexFree
  /\ bindMutex' = bindMutex \union {t}
  /\ path' = Set(path, t, "rebind")
  /\ Goto(t, "adapter_version")
  /\ UNCHANGED <<cellVars, decoVars, made, bound, log, seen, av, ver, got, meta,
                 unread, handle, binding, start>>

NoSecondCheck(t) == FALSE                                 \* mutant of Published
SecondCheckOfAdapter(t) ==                                \* mutant of Published
  bound # NoBound /\ bound.adapter_version = av[t]
Published(t) == bound # NoBound /\ Matches(bound, t)

\* The second check: another thread may have published what t needs.
Recheck(t) ==
  /\ pc[t] = "recheck"
  /\ IF Published(t)
       THEN Return(t, bound) /\ Forget(t) /\ Unlock(t)
       ELSE /\ Goto(t, "adapter")
            /\ UNCHANGED <<path, seen, av, ver, got, meta, unread, handle, binding,
                           bindMutex>>
  /\ UNCHANGED <<cellVars, decoVars, made, bound, log, start>>

ReadAdapter(t) ==
  /\ pc[t] = "adapter"
  /\ got' = Set(got, t, cellAdapter)
  /\ IF path[t] = "build"
       THEN Goto(t, "register") /\ UNCHANGED unread
       ELSE Goto(t, "decorate") /\ unread' = Set(unread, t, Slots)
  /\ UNCHANGED <<cellVars, decoVars, coreVars, path, seen, av, ver, meta, handle,
                 binding, start>>

\* One lock-and-read of one field of one decoration.
Decorate(t) ==
  /\ pc[t] = "decorate"
  /\ \E s \in unread[t] :
       /\ \A r \in unread[t] \ {s} : ReadsBefore(s, r)
       /\ meta' = [meta EXCEPT ![t][s] = config[s]]
       /\ unread' = [unread EXCEPT ![t] = @ \ {s}]
       /\ Goto(t, CASE unread[t] # {s} -> "decorate"
                    [] unread[t] = {s} /\ path[t] = "build" -> "adapter_version"
                    [] unread[t] = {s} /\ path[t] # "build" -> "register")
  /\ UNCHANGED <<cellVars, decoVars, coreVars, path, seen, av, ver, got, handle,
                 binding, start>>

\* register_metric(build_meta()) on the adapter that was read.
Register(t) ==
  /\ pc[t] = "register"
  /\ log' = Append(log, [adapter |-> got[t], av |-> av[t], ver |-> ver[t],
                         meta |-> meta[t]])
  /\ handle' = Set(handle, t, Len(log) + 1)
  /\ Goto(t, "publish")
  /\ UNCHANGED <<cellVars, decoVars, made, bound, bindMutex, path, seen, av, ver,
                 got, meta, unread, binding, start>>

\* The store of the new Bound; rebind then unlocks and returns the Binding,
\* build tracks the core and returns the metric.
NewBoundReread(t) ==                                      \* mutant of NewBound
  [adapter |-> cellAdapter, handle |-> handle[t], adapter_version |-> av[t],
   scope_version |-> Version(ver[t])]
NewBound(t) == [adapter |-> got[t], handle |-> handle[t], adapter_version |-> av[t],
                scope_version |-> Version(ver[t])]

Publish(t) ==
  /\ pc[t] = "publish"
  /\ bound' = NewBound(t)
  /\ made' = TRUE
  /\ Unlock(t)
  /\ Return(t, NewBound(t))
  /\ Forget(t)
  /\ UNCHANGED <<cellVars, decoVars, log, start>>

\* The caller operates on its Binding (a sample, or a child for labels()) and
\* the call ends; build's caller just returns.
Finish(t) ==
  /\ pc[t] = "ready"
  /\ binding' = Set(binding, t, NoBinding)
  /\ start' = Set(start, t, NoStart)
  /\ Goto(t, "idle")
  /\ UNCHANGED <<cellVars, decoVars, coreVars, path, seen, av, ver, got, meta,
                 unread, handle>>

----------------------------------------------------------------------------
Continue(t) ==
  \/ ReadAdapterVersion(t) \/ ReadSelfVersion(t) \/ ReadParentVersion(t)
  \/ Compare(t) \/ Lock(t) \/ Recheck(t) \/ ReadAdapter(t) \/ Decorate(t)
  \/ Register(t) \/ Publish(t) \/ Finish(t)

SetAdapter == CellNext /\ UNCHANGED <<decoVars, coreVars, localVars>>
Redecorate == DecoNext /\ UNCHANGED <<cellVars, coreVars, localVars>>

Next ==
  \/ \E t \in Threads : BeginBuild(t) \/ Use(t) \/ Continue(t)
  \/ SetAdapter
  \/ Redecorate

Spec == Init /\ [][Next]_vars

\* A call that has begun is scheduled to its end: the program's threads run,
\* and bind_mutex is left by whoever holds it.  Nothing forces a thread to
\* begin a use, or anyone to reconfigure.
FairSpec ==
  /\ Spec
  /\ \A t \in Threads : WF_vars(Continue(t))
  /\ WF_vars(\E n \in cellPending : BumpCell(n) /\ UNCHANGED <<decoVars, coreVars, localVars>>)
  /\ WF_vars(\E w \in decoPending : BumpDeco(w) /\ UNCHANGED <<cellVars, coreVars, localVars>>)

----------------------------------------------------------------------------
(* Properties. *)

\* What a registration promised its backend, at least as new as a call could
\* rely on when it began.
AtLeast(r, s) ==
  /\ r.adapter >= s.adapter
  /\ \A slot \in Slots : r.meta[slot] >= s.done[slot]

\* A use that begins after set_adapter or a setter has returned operates on a
\* registration made with that adapter and that decoration, or newer ones:
\* the version is bumped after the store and read before the value, and both
\* versions are compared.
BindingIsFresh ==
  \A t \in Threads : pc[t] = "ready" => AtLeast(log[binding[t].handle], start[t])

\* The handle of a published binding, and of the one a caller operates on, was
\* returned by the adapter beside it: no rebind in between mixes the two.
HandleBelongsToAdapter ==
  /\ bound.handle # 0 => bound.adapter = log[bound.handle].adapter
  /\ \A t \in Threads :
       binding[t].handle # 0 => binding[t].adapter = log[binding[t].handle].adapter

\* "concurrent callers register at most once per version": each registration
\* is made for strictly newer versions than the one before it, and with an
\* adapter and a decoration no older.
Newer(r, q) ==
  /\ r.av >= q.av /\ r.adapter >= q.adapter
  /\ \A d \in Decos : r.ver[d] >= q.ver[d]
  /\ \A s \in Slots : r.meta[s] >= q.meta[s]
  /\ r.av # q.av \/ \E d \in Decos : r.ver[d] # q.ver[d]

RegistrationsAdvance == \A i, j \in 1..Len(log) : i < j => Newer(log[j], log[i])

\* A call never goes back to a registration older than the one published when
\* it began, so the calls of a thread, and calls that follow one another, see
\* registrations in the order they were made.
BindingNeverGoesBack ==
  \A t \in Threads : pc[t] = "ready" => binding[t].handle >= start[t].handle

\* What is registered is one configuration of each decoration: when configure
\* is the only setter called, the three fields come from one call
\* ("Replace prefix, constant labels, and display in one shot").
RegisteredWhole ==
  \A i \in 1..Len(log) : \A d \in Decos : \A f, g \in Fields :
    log[i].meta[<<d, f>>] = log[i].meta[<<d, g>>]

\* The metric implements LiveBinding: a view is what a registration promised.
Sources == {<<"cell", "adapter">>} \union Slots
View(adapter, slots) ==
  [s \in Sources |-> IF s = <<"cell", "adapter">> THEN adapter ELSE slots[s]]
Newest(v, w) == [s \in Sources |-> Larger(v[s], w[s])]
Registered(h) == IF h = 0 THEN View(0, NoMeta) ELSE View(log[h].adapter, log[h].meta)
Phase(t) == IF pc[t] = "idle" THEN "idle" ELSE IF pc[t] = "ready" THEN "served" ELSE "running"
Floor(t) == IF pc[t] = "idle" THEN View(0, NoMeta)
            ELSE Newest(View(start[t].adapter, start[t].done), Registered(start[t].handle))

Live == INSTANCE LiveBinding WITH
  current <- View(cellAdapter, config),
  completed <- View(cellDone, decoDone),
  published <- Registered(bound.handle),
  phase <- [t \in Threads |-> Phase(t)],
  floor <- [t \in Threads |-> Floor(t)],
  served <- [t \in Threads |-> Registered(binding[t].handle)]
ImplementsLiveBinding == Live!AbsSpec

\* Every use returns: no thread waits for bind_mutex forever, nor chases
\* versions that have stopped moving.
UseReturns == \A t \in Threads : pc[t] # "idle" ~> pc[t] = "idle"
=============================================================================
