-------------------------- MODULE MetricCoreProofs --------------------------
(***************************************************************************)
(* TLAPS proofs about MetricCore, for every number of threads, every bound *)
(* on the reconfigurations and every kind of metric.                       *)
(***************************************************************************)
EXTENDS MetricCoreInv, TLAPS

\* Every decoration chain starts at "self"; "parent" is in it when there is one.
LEMMA DecosFacts == "self" \in Decos /\ (HasParent => "parent" \in Decos)
BY DEF Decos

\* The initial values have their types.
LEMMA TypeInit == Init => TypeOK
<1> USE MaxSwapsAssumption, DecorationAssumption, KindAssumption
<1> SUFFICES ASSUME Init PROVE TypeOK
    OBVIOUS
<1>1. CellTypeOK
      BY DEF Init, CellInit, CellTypeOK
<1>2. DecoTypeOK
      BY DEF Init, DecoInit, DecoTypeOK
<1>3. NoBound \in Bounds /\ NoVersions \in [Decos -> Nat] /\ NoMeta \in [Slots -> Nat]
      BY DEF NoBound, Bounds, NoVersions, NoMeta
<1>4. NoStart \in Starts /\ NoBinding \in Bindings
      BY <1>3 DEF NoStart, Starts, NoBinding, Bindings
<1> QED
    BY <1>1, <1>2, <1>3, <1>4 DEF Init, TypeOK, CoreTypeOK, LocalTypeOK, Paths, Steps

\* A step that changes no thread-local variable keeps their types.
LEMMA Unchanged ==
  /\ CellTypeOK /\ UNCHANGED cellVars => CellTypeOK'
  /\ DecoTypeOK /\ UNCHANGED decoVars => DecoTypeOK'
  /\ CoreTypeOK /\ UNCHANGED coreVars => CoreTypeOK'
  /\ LocalTypeOK /\ UNCHANGED localVars => LocalTypeOK'
<1>1. CellTypeOK /\ UNCHANGED cellVars => CellTypeOK'
      BY DEF CellTypeOK, cellVars
<1>2. DecoTypeOK /\ UNCHANGED decoVars => DecoTypeOK'
      BY DEF DecoTypeOK, decoVars
<1>3. CoreTypeOK /\ UNCHANGED coreVars => CoreTypeOK'
      BY DEF CoreTypeOK, coreVars
<1>4. LocalTypeOK /\ UNCHANGED localVars => LocalTypeOK'
      BY DEF LocalTypeOK, localVars
<1> QED BY <1>1, <1>2, <1>3, <1>4

\* Handing a Bound to the caller keeps the types of the locals.
LEMMA ReturnType ==
  ASSUME NEW t \in Threads, NEW b \in Bounds, LocalTypeOK, Return(t, b)
  PROVE  /\ path' \in [Threads -> Paths]
         /\ pc' \in [Threads -> Steps]
         /\ binding' \in [Threads -> Bindings]
<1>1. [adapter |-> b.adapter, handle |-> b.handle] \in Bindings
      BY DEF Bounds, Bindings
<1> QED BY <1>1 DEF LocalTypeOK, Return, Goto, Set, Paths, Steps

\* Leaving bind, rebind or build keeps the types of the locals.
LEMMA ForgetType ==
  ASSUME NEW t \in Threads, LocalTypeOK, Forget(t)
  PROVE  /\ seen' \in [Threads -> Bounds]
         /\ av' \in [Threads -> Nat]
         /\ ver' \in [Threads -> [Decos -> Nat]]
         /\ got' \in [Threads -> Nat]
         /\ meta' \in [Threads -> [Slots -> Nat]]
         /\ unread' \in [Threads -> SUBSET Slots]
         /\ handle' \in [Threads -> Nat]
<1>1. NoBound \in Bounds /\ NoVersions \in [Decos -> Nat] /\ NoMeta \in [Slots -> Nat]
      BY DEF NoBound, Bounds, NoVersions, NoMeta
<1> QED BY <1>1 DEF LocalTypeOK, Forget, Set

\* Every step keeps the types.
LEMMA TypeStep == TypeOK /\ [Next]_vars => TypeOK'
<1> USE MaxSwapsAssumption, DecorationAssumption, KindAssumption, DecosFacts
<1> SUFFICES ASSUME TypeOK, [Next]_vars PROVE TypeOK'
    OBVIOUS
<1>1. NoBound \in Bounds /\ NoVersions \in [Decos -> Nat] /\ NoMeta \in [Slots -> Nat]
      BY DEF NoBound, Bounds, NoVersions, NoMeta
<1>2. NoStart \in Starts /\ NoBinding \in Bindings
      BY <1>1 DEF NoStart, Starts, NoBinding, Bindings
<1>3. Now \in Starts
      BY DEF TypeOK, CellTypeOK, DecoTypeOK, CoreTypeOK, Now, Starts, Bounds
<1>4. CASE UNCHANGED vars
      BY <1>4, Unchanged DEF vars, coreVars, localVars, TypeOK
<1>5. CASE SetAdapter
  <2>1. CellTypeOK'
    <3>1. CASE StoreAdapter
          BY <3>1 DEF StoreAdapter, TypeOK, CellTypeOK
    <3>2. ASSUME NEW n \in cellPending, BumpCell(n) PROVE CellTypeOK'
          BY <3>2 DEF BumpCell, Larger, TypeOK, CellTypeOK
    <3> QED BY <1>5, <3>1, <3>2 DEF SetAdapter, CellNext
  <2> QED BY <1>5, <2>1, Unchanged DEF SetAdapter, TypeOK
<1>6. CASE Redecorate
  <2>1. DecoTypeOK'
    <3>1. ASSUME NEW d \in Decos, NEW fields \in SetterFields, StoreConfig(d, fields)
          PROVE  DecoTypeOK'
      <4>1. writes[d] + 1 \in Nat
            BY DEF TypeOK, DecoTypeOK
      <4>2. config' \in [Slots -> Nat]
            BY <3>1, <4>1 DEF TypeOK, DecoTypeOK, StoreConfig
      <4>3. [deco |-> d, fields |-> fields, number |-> writes[d] + 1] \in Stores
            BY <4>1 DEF Stores
      <4> QED BY <3>1, <4>1, <4>2, <4>3 DEF TypeOK, DecoTypeOK, StoreConfig
    <3>2. ASSUME NEW w \in decoPending, BumpDeco(w) PROVE DecoTypeOK'
          BY <3>2 DEF TypeOK, DecoTypeOK, BumpDeco, Stores
    <3> QED BY <1>6, <3>1, <3>2 DEF Redecorate, DecoNext
  <2> QED BY <1>6, <2>1, Unchanged DEF Redecorate, TypeOK
<1>7. ASSUME NEW t \in Threads, BeginBuild(t) PROVE TypeOK'
  <2>1. CellTypeOK' /\ DecoTypeOK' /\ CoreTypeOK'
        BY <1>7, Unchanged DEF BeginBuild, TypeOK
  <2>2. LocalTypeOK'
        BY <1>7, <1>3 DEF BeginBuild, TypeOK, LocalTypeOK, Goto, Set, Paths, Steps
  <2> QED BY <2>1, <2>2 DEF TypeOK
<1>8. ASSUME NEW t \in Threads, Use(t) PROVE TypeOK'
  <2>1. CellTypeOK' /\ DecoTypeOK' /\ CoreTypeOK'
        BY <1>8, Unchanged DEF Use, TypeOK
  <2>2. LocalTypeOK'
        BY <1>8, <1>3 DEF Use, TypeOK, CoreTypeOK, LocalTypeOK, Goto, Set, Paths, Steps
  <2> QED BY <2>1, <2>2 DEF TypeOK
<1>9. ASSUME NEW t \in Threads, Continue(t) PROVE TypeOK'
  <2>1. CellTypeOK' /\ DecoTypeOK'
        BY <1>9, Unchanged DEF TypeOK, Continue, ReadAdapterVersion, ReadSelfVersion,
           ReadParentVersion, Compare, Lock, Recheck, ReadAdapter, Decorate, Register,
           Publish, Finish
  <2>2. AfterVersion(t) \in Steps
        BY DEF AfterVersion, Steps
  <2> USE DEF Goto, Set, Paths, Steps
  <2>3. CASE ReadAdapterVersion(t)
    <3>1. LocalTypeOK'
          BY <2>3 DEF ReadAdapterVersion, TypeOK, CellTypeOK, LocalTypeOK
    <3> QED BY <2>1, <2>3, <3>1, Unchanged DEF ReadAdapterVersion, TypeOK
  <2>4. CASE ReadSelfVersion(t)
    <3>1. LocalTypeOK'
          BY <2>4, <2>2 DEF ReadSelfVersion, TypeOK, DecoTypeOK, LocalTypeOK
    <3> QED BY <2>1, <2>4, <3>1, Unchanged DEF ReadSelfVersion, TypeOK
  <2>5. CASE ReadParentVersion(t)
    <3>1. LocalTypeOK'
          BY <2>5, <2>2 DEF ReadParentVersion, TypeOK, DecoTypeOK, LocalTypeOK
    <3> QED BY <2>1, <2>5, <3>1, Unchanged DEF ReadParentVersion, TypeOK
  <2>6. CASE Compare(t)
    <3>1. CASE Matches(seen[t], t)
      <4>1. seen[t] \in Bounds /\ Return(t, seen[t]) /\ Forget(t) /\ UNCHANGED start
            BY <2>6, <3>1 DEF Compare, TypeOK, LocalTypeOK
      <4>3. LocalTypeOK /\ start \in [Threads -> Starts]
            BY DEF TypeOK, LocalTypeOK
      <4>4. /\ path' \in [Threads -> Paths] /\ pc' \in [Threads -> Steps]
            /\ binding' \in [Threads -> Bindings]
            BY <4>1, <4>3, ReturnType
      <4>2. LocalTypeOK'
            BY <4>1, <4>3, <4>4, ForgetType DEF LocalTypeOK
      <4> QED BY <2>1, <2>6, <4>2, Unchanged DEF Compare, TypeOK
    <3>2. CASE ~Matches(seen[t], t)
      <4>1. Goto(t, "lock") /\ Forget(t) /\ UNCHANGED <<path, binding, start>>
            BY <2>6, <3>2 DEF Compare
      <4>2. LocalTypeOK'
            BY <4>1, ForgetType DEF TypeOK, LocalTypeOK
      <4> QED BY <2>1, <2>6, <4>2, Unchanged DEF Compare, TypeOK
    <3> QED BY <3>1, <3>2
  <2>7. CASE Lock(t)
    <3>1. LocalTypeOK'
          BY <2>7 DEF Lock, TypeOK, LocalTypeOK
    <3>3. bindMutex' = {t}
          BY <2>7 DEF Lock, MutexFree
    <3>2. CoreTypeOK'
          BY <2>7, <3>3 DEF Lock, TypeOK, CoreTypeOK
    <3> QED BY <2>1, <3>1, <3>2 DEF TypeOK
  <2>8. CASE Recheck(t)
    <3>4. bindMutex' \in {{}} \union {{u} : u \in Threads}
          BY <2>8 DEF Recheck, Unlock, TypeOK, CoreTypeOK
    <3>1. CoreTypeOK'
          BY <2>8, <3>4 DEF Recheck, TypeOK, CoreTypeOK
    <3>2. CASE Published(t)
      <4>1. bound \in Bounds /\ Return(t, bound) /\ Forget(t) /\ UNCHANGED start
            BY <2>8, <3>2 DEF Recheck, TypeOK, CoreTypeOK
      <4>2. LocalTypeOK'
            BY <4>1, ReturnType, ForgetType DEF TypeOK, LocalTypeOK
      <4> QED BY <2>1, <3>1, <4>2 DEF TypeOK
    <3>3. CASE ~Published(t)
      <4>1. /\ Goto(t, "adapter")
            /\ UNCHANGED <<path, seen, av, ver, got, meta, unread, handle, binding, start>>
            BY <2>8, <3>3 DEF Recheck
      <4>2. LocalTypeOK'
            BY <4>1 DEF TypeOK, LocalTypeOK
      <4> QED BY <2>1, <3>1, <4>2 DEF TypeOK
    <3> QED BY <3>2, <3>3
  <2>9. CASE ReadAdapter(t)
    <3>1. cellAdapter \in Nat
          BY DEF TypeOK, CellTypeOK
    <3>4. got' \in [Threads -> Nat]
          BY <2>9, <3>1 DEF ReadAdapter, TypeOK, LocalTypeOK
    <3>5. pc' \in [Threads -> Steps]
      <4>1. pc' = [pc EXCEPT ![t] = "register"] \/ pc' = [pc EXCEPT ![t] = "decorate"]
            BY <2>9 DEF ReadAdapter, Goto
      <4>2. pc \in [Threads -> Steps]
            BY DEF TypeOK, LocalTypeOK
      <4> QED BY <4>1, <4>2 DEF Steps
    <3>6. unread' = [unread EXCEPT ![t] = Slots] \/ unread' = unread
          BY <2>9 DEF ReadAdapter
    <3>7. unread \in [Threads -> SUBSET Slots]
          BY DEF TypeOK, LocalTypeOK
    <3>2. unread' \in [Threads -> SUBSET Slots]
          BY <3>6, <3>7
    <3>3. LocalTypeOK'
          BY <2>9, <3>2, <3>4, <3>5 DEF ReadAdapter, TypeOK, LocalTypeOK
    <3> QED BY <2>1, <2>9, <3>3, Unchanged DEF ReadAdapter, TypeOK
  <2>10. CASE Decorate(t)
    <3>1. LocalTypeOK'
          BY <2>10 DEF Decorate, TypeOK, DecoTypeOK, LocalTypeOK
    <3> QED BY <2>1, <2>10, <3>1, Unchanged DEF Decorate, TypeOK
  <2>11. CASE Register(t)
    <3>1. LocalTypeOK'
          BY <2>11 DEF Register, TypeOK, CoreTypeOK, LocalTypeOK
    <3>2. CoreTypeOK'
          BY <2>11 DEF Register, TypeOK, CoreTypeOK, LocalTypeOK, Registrations
    <3> QED BY <2>1, <3>1, <3>2 DEF TypeOK
  <2>12. CASE Publish(t)
    <3>1. LocalTypeOK'
          BY <2>12, <1>1 DEF Publish, TypeOK, LocalTypeOK, NewBound, Return, Forget, Bindings
    <3>3. bindMutex' \in {{}} \union {{u} : u \in Threads}
          BY <2>12 DEF Publish, Unlock, TypeOK, CoreTypeOK
    <3>2. CoreTypeOK'
          BY <2>12, <3>3
             DEF Publish, TypeOK, CoreTypeOK, LocalTypeOK, NewBound, Version, Bounds
    <3> QED BY <2>1, <3>1, <3>2 DEF TypeOK
  <2>13. CASE Finish(t)
    <3>1. LocalTypeOK'
          BY <2>13, <1>2 DEF Finish, TypeOK, LocalTypeOK
    <3> QED BY <2>1, <2>13, <3>1, Unchanged DEF Finish, TypeOK
  <2> QED BY <1>9, <2>3, <2>4, <2>5, <2>6, <2>7, <2>8, <2>9, <2>10, <2>11, <2>12, <2>13
          DEF Continue
<1> QED BY <1>4, <1>5, <1>6, <1>7, <1>8, <1>9 DEF Next

----------------------------------------------------------------------------
(* What every step of every thread does to the shared state.               *)

LocalsKept(t) ==
  /\ path'[t] = path[t] /\ pc'[t] = pc[t] /\ seen'[t] = seen[t] /\ av'[t] = av[t]
  /\ ver'[t] = ver[t] /\ got'[t] = got[t] /\ meta'[t] = meta[t]
  /\ unread'[t] = unread[t] /\ handle'[t] = handle[t] /\ binding'[t] = binding[t]
  /\ start'[t] = start[t]

SourcesGrow ==
  /\ cellVersion <= cellVersion' /\ cellDone <= cellDone'
  /\ \A d \in Decos : decoVersion[d] <= decoVersion'[d]
  /\ \A s \in Slots : decoDone[s] <= decoDone'[s]
  /\ \A v, a \in Nat : AdapterRead(v, a) => AdapterRead(v, a)'
  /\ \A s \in Slots : \A v, x \in Nat : SlotRead(s, v, x) => SlotRead(s, v, x)'

LogGrows ==
  /\ Len(log) \in Nat /\ Len(log') \in Nat
  /\ Len(log) <= Len(log')
  /\ \A i \in 1..Len(log) : log'[i] = log[i]

\* Stores and bumps of set_adapter and of the setters, and steps that make
\* none, keep StoreInv and only let values and versions grow.
LEMMA SourcesStep ==
  ASSUME TypeOK, StoreInv, [Next]_vars
  PROVE  SourcesGrow /\ StoreInv'
<1> USE MaxSwapsAssumption, DecorationAssumption, DecosFacts
<1>1. CASE UNCHANGED <<cellVars, decoVars>>
      BY <1>1 DEF cellVars, decoVars, SourcesGrow, StoreInv, AdapterRead, SlotRead,
         TypeOK, CellTypeOK, DecoTypeOK
<1>2. CASE SetAdapter
  <2>1. UNCHANGED decoVars
        BY <1>2 DEF SetAdapter
  <2>2. CASE StoreAdapter
        BY <2>1, <2>2 DEF StoreAdapter, decoVars, SourcesGrow, StoreInv, AdapterRead,
           SlotRead, TypeOK, CellTypeOK, DecoTypeOK
  <2>3. ASSUME NEW n \in cellPending, BumpCell(n) PROVE SourcesGrow /\ StoreInv'
        BY <2>1, <2>3 DEF BumpCell, Larger, decoVars, SourcesGrow, StoreInv, AdapterRead,
           SlotRead, TypeOK, CellTypeOK, DecoTypeOK
  <2> QED BY <1>2, <2>2, <2>3 DEF SetAdapter, CellNext
<1>3. CASE Redecorate
  <2>1. UNCHANGED cellVars
        BY <1>3 DEF Redecorate
  <2>2. ASSUME NEW d \in Decos, NEW fields \in SetterFields, StoreConfig(d, fields)
        PROVE  SourcesGrow /\ StoreInv'
        BY <2>1, <2>2 DEF StoreConfig, cellVars, SourcesGrow, StoreInv, AdapterRead,
           SlotRead, TypeOK, CellTypeOK, DecoTypeOK, Stores, Slots
  <2>3. ASSUME NEW w \in decoPending, BumpDeco(w) PROVE SourcesGrow /\ StoreInv'
    <3>1. /\ w.deco \in Decos /\ w.number \in Nat /\ w.fields \subseteq Fields
          /\ decoVersion' = [decoVersion EXCEPT ![w.deco] = @ + 1]
          /\ UNCHANGED <<config, writes>> /\ decoPending' \subseteq decoPending
          BY <2>3 DEF BumpDeco, TypeOK, DecoTypeOK, Stores
    <3>2. ASSUME NEW s \in Slots
          PROVE  /\ decoDone[s] <= decoDone'[s] /\ decoDone'[s] <= config[s]
                 /\ s[1] # w.deco => decoDone'[s] = decoDone[s]
      <4>1. decoDone[s] \in Nat /\ config[s] \in Nat /\ decoDone[s] <= config[s]
            BY DEF TypeOK, DecoTypeOK, StoreInv
      <4>2. CASE s \in {w.deco} \X w.fields /\ decoDone[s] < w.number
        <5>1. s = <<w.deco, s[2]>> /\ s[2] \in w.fields /\ decoDone'[s] = w.number
              BY <2>3, <4>2 DEF BumpDeco
        <5> QED BY <3>1, <4>1, <4>2, <5>1 DEF StoreInv
      <4>3. CASE ~(s \in {w.deco} \X w.fields /\ decoDone[s] < w.number)
        <5>1. decoDone'[s] = decoDone[s]
              BY <2>3, <4>3 DEF BumpDeco
        <5> QED BY <4>1, <5>1
      <4> QED BY <4>2, <4>3
    <3>3. StoreInv'
          BY <2>1, <3>1, <3>2 DEF StoreInv, cellVars
    <3>4. ASSUME NEW s \in Slots, NEW v \in Nat, NEW x \in Nat, SlotRead(s, v, x)
          PROVE  SlotRead(s, v, x)'
      <4>1. s[1] \in Decos
            BY DEF Slots
      <4> QED BY <3>1, <3>2, <3>4, <4>1 DEF SlotRead, TypeOK, DecoTypeOK
    <3>5. \A d \in Decos : decoVersion[d] <= decoVersion'[d]
          BY <3>1 DEF TypeOK, DecoTypeOK
    <3>6. /\ cellVersion <= cellVersion' /\ cellDone <= cellDone'
          /\ \A v, a \in Nat : AdapterRead(v, a) => AdapterRead(v, a)'
          BY <2>1 DEF cellVars, AdapterRead, TypeOK, CellTypeOK
    <3> QED BY <3>2, <3>3, <3>4, <3>5, <3>6 DEF SourcesGrow
  <2> QED BY <1>3, <2>2, <2>3 DEF Redecorate, DecoNext
<1>4. ASSUME NEW t \in Threads, BeginBuild(t) \/ Use(t) \/ Continue(t)
      PROVE  UNCHANGED <<cellVars, decoVars>>
      BY <1>4 DEF BeginBuild, Use, Continue, ReadAdapterVersion, ReadSelfVersion,
         ReadParentVersion, Compare, Lock, Recheck, ReadAdapter, Decorate, Register,
         Publish, Finish
<1> QED BY <1>1, <1>2, <1>3, <1>4 DEF Next, vars

\* Where in its function a thread at a given step can be.
LEMMA StepPath ==
  ASSUME TypeOK, ControlInv, NEW t \in Threads
  PROVE  /\ pc[t] \in {"idle", "ready"} => path[t] = "none"
         /\ pc[t] \in {"compare", "lock"} => path[t] = "bind"
         /\ pc[t] = "recheck" => path[t] = "rebind"
         /\ pc[t] = "parent_version" => path[t] \in {"bind", "rebind"}
         /\ pc[t] \in {"adapter_version", "self_version"} =>
              path[t] \in {"bind", "rebind", "build"}
         /\ pc[t] \in {"adapter", "decorate", "register", "publish"} =>
              path[t] \in {"rebind", "build"}
BY DEF TypeOK, LocalTypeOK, ControlInv, Paths

\* Every step keeps the control invariant; bind_mutex excludes.
LEMMA ControlStep ==
  ASSUME TypeOK, ControlInv, [Next]_vars
  PROVE  ControlInv'
<1> USE KindAssumption
<1> USE DEF ControlInv, Writes
<1>1. CASE UNCHANGED <<coreVars, localVars>>
      BY <1>1 DEF coreVars, localVars
<1>2. CASE SetAdapter \/ Redecorate
  <2>1. UNCHANGED <<coreVars, localVars>>
        BY <1>2 DEF SetAdapter, Redecorate
  <2> QED BY <1>1, <2>1
<1>3. ASSUME NEW t \in Threads, BeginBuild(t) PROVE ControlInv'
  <2>1. ~made /\ made' = made /\ bindMutex' = bindMutex /\ \A u \in Threads : pc[u] = "idle"
        BY <1>3 DEF BeginBuild, coreVars
  <2>2. /\ path' = [path EXCEPT ![t] = "build"] /\ unread' = [unread EXCEPT ![t] = Slots]
        /\ pc' = [pc EXCEPT ![t] = "self_version"]
        BY <1>3 DEF BeginBuild, Goto, Set
  <2>3. /\ path \in [Threads -> Paths] /\ pc \in [Threads -> Steps]
        /\ unread \in [Threads -> SUBSET Slots]
        BY DEF TypeOK, LocalTypeOK
  <2>4. \A u \in Threads : path[u] = "none"
        BY <2>1, <2>3 DEF Paths
  <2> QED BY <2>1, <2>2, <2>3, <2>4
<1>4. ASSUME NEW t \in Threads, Use(t) PROVE ControlInv'
      BY <1>4 DEF Use, TypeOK, LocalTypeOK, Goto, Set, coreVars
<1>5. ASSUME NEW t \in Threads, Continue(t) PROVE ControlInv'
  <2> USE DEF TypeOK, LocalTypeOK, CoreTypeOK, Goto, Set, coreVars
  <2>1. CASE ReadAdapterVersion(t)
        BY <2>1 DEF ReadAdapterVersion
  <2>2. CASE ReadSelfVersion(t)
        BY <2>2 DEF ReadSelfVersion, AfterVersion
  <2>3. CASE ReadParentVersion(t)
        BY <2>3 DEF ReadParentVersion, AfterVersion
  <2>4. CASE Compare(t)
    <3>1. /\ pc[t] = "compare" /\ UNCHANGED <<made, bindMutex>>
          /\ unread' = [unread EXCEPT ![t] = {}]
          /\ \/ /\ path' = [path EXCEPT ![t] = "none"]
                /\ pc' = [pc EXCEPT ![t] = "ready"]
             \/ path' = path /\ pc' = [pc EXCEPT ![t] = "lock"]
          BY <2>4 DEF Compare, Return, Forget
    <3>2. path[t] = "bind"
          BY <3>1 DEF Paths
    <3>3. \A u \in Threads \ {t} : pc'[u] = pc[u] /\ path'[u] = path[u] /\ unread'[u] = unread[u]
          BY <3>1
    <3>4. \/ path'[t] = "none" /\ pc'[t] = "ready"
          \/ path'[t] = "bind" /\ pc'[t] = "lock"
          BY <3>1, <3>2
    <3> HIDE DEF TypeOK, LocalTypeOK, CoreTypeOK, Goto, Set, coreVars
    <3> QED BY <3>1, <3>2, <3>3, <3>4
  <2>5. CASE Lock(t)
    <3>1. /\ pc[t] = "lock" /\ bindMutex = {} /\ bindMutex' = {t}
          /\ path' = [path EXCEPT ![t] = "rebind"]
          /\ pc' = [pc EXCEPT ![t] = "adapter_version"] /\ UNCHANGED <<made, unread>>
          BY <2>5 DEF Lock, MutexFree
    <3>2. path[t] = "bind" /\ \A u \in Threads : path[u] # "rebind"
          BY <3>1 DEF Paths
    <3>3. \A u \in Threads : path[u] # "build"
          BY <3>2
    <3> QED BY <3>1, <3>2, <3>3
  <2>6. CASE Recheck(t)
    <3>1. CASE Published(t)
      <4>1. /\ pc' = [pc EXCEPT ![t] = "ready"] /\ path' = [path EXCEPT ![t] = "none"]
            /\ unread' = [unread EXCEPT ![t] = {}] /\ bindMutex' = bindMutex \ {t}
            /\ made' = made
            BY <2>6, <3>1 DEF Recheck, Return, Forget, Unlock
      <4>2. path[t] = "rebind"
            BY <2>6 DEF Recheck, Paths
      <4>3. \A u \in Threads \ {t} : path[u] \notin {"rebind", "build"}
            BY <4>2
      <4> QED BY <4>1, <4>2, <4>3
    <3>2. CASE ~Published(t)
      <4>1. pc' = [pc EXCEPT ![t] = "adapter"] /\ UNCHANGED <<path, unread, bindMutex, made>>
            BY <2>6, <3>2 DEF Recheck
      <4>2. pc[t] = "recheck" /\ path[t] = "rebind"
            BY <2>6 DEF Recheck, Paths
      <4>3. pc'[t] = "adapter" /\ \A u \in Threads \ {t} : pc'[u] = pc[u]
            BY <4>1
      <4> HIDE DEF TypeOK, LocalTypeOK, CoreTypeOK, Goto, Set, coreVars
      <4> QED BY <4>1, <4>2, <4>3
    <3> QED BY <3>1, <3>2
  <2>7. CASE ReadAdapter(t)
        BY <2>7 DEF ReadAdapter
  <2>8. CASE Decorate(t)
    <3>1. PICK s \in unread[t] :
            /\ unread' = [unread EXCEPT ![t] = @ \ {s}]
            /\ pc' = [pc EXCEPT ![t] = CASE unread[t] # {s} -> "decorate"
                             [] unread[t] = {s} /\ path[t] = "build" -> "adapter_version"
                             [] unread[t] = {s} /\ path[t] # "build" -> "register"]
          BY <2>8 DEF Decorate
    <3>2. pc[t] = "decorate" /\ UNCHANGED <<made, bindMutex, path>>
          BY <2>8 DEF Decorate
    <3>3. path[t] \in {"rebind", "build"}
          BY <3>2 DEF Paths
    <3>4. \/ pc'[t] = "decorate"
          \/ path[t] = "build" /\ pc'[t] = "adapter_version" /\ unread'[t] = {}
          \/ path[t] = "rebind" /\ pc'[t] = "register" /\ unread'[t] = {}
          BY <3>1, <3>3
    <3>5. \A u \in Threads \ {t} : pc'[u] = pc[u] /\ unread'[u] = unread[u]
          BY <3>1
    <3> HIDE DEF TypeOK, LocalTypeOK, CoreTypeOK, Goto, Set, coreVars
    <3> QED BY <3>2, <3>3, <3>4, <3>5
  <2>9. CASE Register(t)
        BY <2>9 DEF Register
  <2>10. CASE Publish(t)
        BY <2>10 DEF Publish, Return, Forget, Unlock
  <2>11. CASE Finish(t)
        BY <2>11 DEF Finish
  <2> QED BY <1>5, <2>1, <2>2, <2>3, <2>4, <2>5, <2>6, <2>7, <2>8, <2>9, <2>10, <2>11
          DEF Continue
<1> QED BY <1>1, <1>2, <1>3, <1>4, <1>5 DEF Next, vars, coreVars, localVars

\* A thread that does not move keeps what it knows while the sources and the
\* log grow, unless a Bound it is about to replace is replaced under it.
LEMMA Frame ==
  ASSUME NEW u \in Threads, TypeOK, TypeOK', LocalsKept(u), SourcesGrow, LogGrows,
         IsBound(bound), bound.handle <= bound'.handle, bound' = bound \/ ~Writes(u),
         ControlInv, ReadInv(u), AdvanceInv(u), CallInv(u)
  PROVE  ReadInv(u)' /\ AdvanceInv(u)' /\ CallInv(u)'
<1>1. /\ HasAdapterVersion(u)' = HasAdapterVersion(u)
      /\ HasAdapter(u)' = HasAdapter(u)
      /\ \A d \in Decos : HasVersion(u, d)' = HasVersion(u, d)
      /\ \A s \in Slots : HasSlot(u, s)' = HasSlot(u, s)
      BY DEF LocalsKept, HasAdapterVersion, HasAdapter, HasVersion, HasSlot
<1>2. \/ Base(u)' = Base(u)
      \/ path[u] = "none"
      BY DEF LocalsKept, Base, Writes, TypeOK, LocalTypeOK, Paths
<1>3. path[u] # "none" /\ (path[u] = "bind" => pc[u] # "lock") /\ Base(u) # 0 =>
        Base(u) \in 1..Len(log)
      BY DEF Base, IsBound, CallInv
<1>4. AdapterVersionInv(u)'
  <2> SUFFICES ASSUME HasAdapterVersion(u)
               PROVE  /\ av'[u] <= cellVersion'
                      /\ Base(u)' # 0 =>
                           /\ log'[Base(u)'].av <= av'[u]
                           /\ log'[Base(u)'].av = av'[u] =>
                                start'[u].adapter <= log'[Base(u)'].adapter
      BY <1>1 DEF AdapterVersionInv
  <2>1. path[u] # "none" /\ (path[u] = "bind" => pc[u] # "lock")
        BY DEF HasAdapterVersion
  <2>2. Base(u)' = Base(u) /\ (Base(u) # 0 => log'[Base(u)] = log[Base(u)])
        BY <1>2, <1>3, <2>1 DEF LogGrows
  <2>3. av[u] \in Nat /\ cellVersion \in Nat /\ cellVersion' \in Nat
        BY DEF TypeOK, LocalTypeOK, CellTypeOK
  <2>4. av[u] <= cellVersion'
        BY <2>3 DEF ReadInv, AdapterVersionInv, SourcesGrow
  <2> QED BY <2>2, <2>4 DEF ReadInv, AdapterVersionInv, LocalsKept
<1>5. VersionInv(u)'
  <2> SUFFICES ASSUME NEW d \in Decos, HasVersion(u, d)
               PROVE  /\ ver'[u][d] <= decoVersion'[d]
                      /\ Base(u)' # 0 =>
                           /\ log'[Base(u)'].ver[d] <= ver'[u][d]
                           /\ log'[Base(u)'].ver[d] = ver'[u][d] =>
                                \A f \in Fields : start'[u].done[<<d, f>>]
                                                  <= log'[Base(u)'].meta[<<d, f>>]
      BY <1>1 DEF VersionInv
  <2>1. path[u] # "none" /\ (path[u] = "bind" => pc[u] # "lock")
        BY DEF HasVersion
  <2>2. Base(u)' = Base(u) /\ (Base(u) # 0 => log'[Base(u)] = log[Base(u)])
        BY <1>2, <1>3, <2>1 DEF LogGrows
  <2>3. ver[u][d] \in Nat /\ decoVersion[d] \in Nat /\ decoVersion'[d] \in Nat
        BY DEF TypeOK, LocalTypeOK, DecoTypeOK
  <2>4. ver[u][d] <= decoVersion'[d]
        BY <2>3 DEF ReadInv, VersionInv, SourcesGrow
  <2> QED BY <2>2, <2>4 DEF ReadInv, VersionInv, LocalsKept
<1>6. AdapterInv(u)'
      BY <1>1, <1>2, <1>3 DEF ReadInv, AdapterInv, LocalsKept, LogGrows, SourcesGrow,
         HasAdapter, TypeOK, LocalTypeOK
<1>7. SlotInv(u)'
  <2> SUFFICES ASSUME NEW s \in Slots, HasSlot(u, s)
               PROVE  /\ SlotRead(s, ver[u][s[1]], meta[u][s])'
                      /\ start'[u].done[s] <= meta'[u][s]
                      /\ Base(u)' # 0 => log'[Base(u)'].meta[s] <= meta'[u][s]
      BY <1>1 DEF SlotInv
  <2>1. path[u] \in {"rebind", "build"}
        BY DEF HasSlot
  <2>2. Base(u)' = Base(u) /\ (Base(u) # 0 => log'[Base(u)] = log[Base(u)])
        BY <1>2, <1>3, <2>1 DEF LogGrows
  <2>3. ver[u][s[1]] \in Nat /\ meta[u][s] \in Nat
        BY DEF TypeOK, LocalTypeOK, Slots
  <2> QED BY <2>2, <2>3 DEF ReadInv, SlotInv, LocalsKept, SourcesGrow, SlotRead
<1>8. AdvanceInv(u)'
      BY DEF AdvanceInv, LocalsKept, LogGrows, IsBound, Writes
<1>9. CallInv(u)'
  <2>1. /\ cellDone \in Nat /\ cellDone' \in Nat /\ bound.handle \in Nat
        /\ bound'.handle \in Nat /\ start[u] \in Starts
        /\ decoDone \in [Slots -> Nat] /\ decoDone' \in [Slots -> Nat]
    <3>1. cellDone \in Nat /\ cellDone' \in Nat
          BY MaxSwapsAssumption DEF TypeOK, CellTypeOK
    <3>2. bound.handle \in Nat /\ bound'.handle \in Nat
          BY DEF TypeOK, CoreTypeOK, Bounds
    <3>3. decoDone \in [Slots -> Nat] /\ decoDone' \in [Slots -> Nat]
          BY DEF TypeOK, DecoTypeOK
    <3> QED BY <3>1, <3>2, <3>3 DEF TypeOK, LocalTypeOK
  <2>2. /\ start'[u].adapter <= cellDone'
        /\ \A s \in Slots : start'[u].done[s] <= decoDone'[s]
        /\ start'[u].handle <= bound'.handle
        BY <2>1 DEF CallInv, LocalsKept, SourcesGrow, Starts
  <2>3. path'[u] = "bind" /\ pc'[u] # "lock" =>
          /\ IsBound(seen[u])'
          /\ seen'[u].handle # 0
          /\ start'[u].handle <= seen'[u].handle
          /\ seen'[u].handle <= bound'.handle
    <3>1. seen[u] \in Bounds
          BY DEF TypeOK, LocalTypeOK
    <3>2. path[u] = "bind" /\ pc[u] # "lock" => IsBound(seen[u])'
          BY DEF CallInv, IsBound, LocalsKept, LogGrows
    <3> QED BY <2>1, <3>1, <3>2 DEF CallInv, LocalsKept, Bounds
  <2>4. pc'[u] = "ready" =>
          /\ binding'[u].handle \in 1..Len(log')
          /\ binding'[u].adapter = log'[binding'[u].handle].adapter
          /\ start'[u].handle <= binding'[u].handle
          /\ AtLeast(log'[binding'[u].handle], start'[u])
        BY DEF CallInv, LocalsKept, LogGrows, AtLeast
  <2> QED BY <2>2, <2>3, <2>4 DEF CallInv, LocalsKept, AtLeast
<1> QED BY <1>4, <1>5, <1>6, <1>7, <1>8, <1>9 DEF ReadInv

----------------------------------------------------------------------------
(* The log of registrations.                                               *)

\* Newer is transitive.
LEMMA NewerTransitive ==
  ASSUME NEW e \in Registrations, NEW q \in Registrations, NEW r \in Registrations,
         Newer(e, q), Newer(q, r)
  PROVE  Newer(e, r)
<1>1. /\ e.av \in Nat /\ q.av \in Nat /\ r.av \in Nat
      /\ e.adapter \in Nat /\ q.adapter \in Nat /\ r.adapter \in Nat
      /\ \A d \in Decos : e.ver[d] \in Nat /\ q.ver[d] \in Nat /\ r.ver[d] \in Nat
      /\ \A s \in Slots : e.meta[s] \in Nat /\ q.meta[s] \in Nat /\ r.meta[s] \in Nat
      BY DEF Registrations
<1>2. e.av >= r.av /\ e.adapter >= r.adapter
      BY <1>1 DEF Newer
<1>3. \A d \in Decos : e.ver[d] >= q.ver[d] /\ q.ver[d] >= r.ver[d] /\ e.ver[d] >= r.ver[d]
      BY <1>1 DEF Newer
<1>4. \A s \in Slots : e.meta[s] >= r.meta[s]
      BY <1>1 DEF Newer
<1>5. e.av # r.av \/ \E d \in Decos : e.ver[d] # r.ver[d]
  <2>1. CASE q.av # r.av
        BY <2>1, <1>1 DEF Newer
  <2>2. ASSUME NEW d \in Decos, q.ver[d] # r.ver[d] PROVE e.ver[d] # r.ver[d]
        BY <2>2, <1>1, <1>3
  <2> QED BY <2>1, <2>2 DEF Newer
<1> QED BY <1>2, <1>3, <1>4, <1>5 DEF Newer

\* A registration newer than the last one extends the ordered log.
LEMMA AppendNewer ==
  ASSUME log \in Seq(Registrations), RegistrationsAdvance, NEW e \in Registrations,
         Len(log) # 0 => Newer(e, log[Len(log)]),
         log' = Append(log, e)
  PROVE  RegistrationsAdvance'
<1>1. /\ Len(log) \in Nat /\ Len(log') = Len(log) + 1 /\ log'[Len(log) + 1] = e
      /\ \A i \in 1..Len(log) : log'[i] = log[i] /\ log[i] \in Registrations
      OBVIOUS
<1>2. \A i \in 1..Len(log) : Newer(e, log[i])
  <2> SUFFICES ASSUME NEW i \in 1..Len(log) PROVE Newer(e, log[i])
      OBVIOUS
  <2>1. CASE i = Len(log)
        BY <2>1, <1>1
  <2>2. CASE i # Len(log)
    <3>1. Len(log) \in 1..Len(log) /\ i < Len(log) /\ Len(log) # 0
          BY <2>2, <1>1
    <3>2. Newer(log[Len(log)], log[i]) /\ Newer(e, log[Len(log)])
          BY <3>1 DEF RegistrationsAdvance
    <3> QED BY <3>1, <3>2, <1>1, NewerTransitive
  <2> QED BY <2>1, <2>2
<1> SUFFICES ASSUME NEW i \in 1..Len(log'), NEW j \in 1..Len(log'), i < j
             PROVE  Newer(log'[j], log'[i])
    BY DEF RegistrationsAdvance, Newer
<1>3. CASE j = Len(log) + 1
      BY <1>1, <1>2, <1>3
<1>4. CASE j # Len(log) + 1
  <2>1. i \in 1..Len(log) /\ j \in 1..Len(log)
        BY <1>1, <1>4
  <2> QED BY <2>1, <1>1 DEF RegistrationsAdvance
<1> QED BY <1>3, <1>4

\* LogInv survives a step that neither registers nor publishes.
LEMMA LogFrame ==
  ASSUME TypeOK, LogInv, SourcesGrow, UNCHANGED <<log, bound, made>>,
         \A u \in Threads : pc[u] = "publish" <=> pc'[u] = "publish",
         \A u \in Threads : pc[u] = "publish" =>
           /\ handle'[u] = handle[u] /\ got'[u] = got[u] /\ av'[u] = av[u]
           /\ ver'[u] = ver[u] /\ meta'[u] = meta[u]
  PROVE  LogInv'
<1>1. RegistrationsAdvance'
      BY DEF LogInv, RegistrationsAdvance, Newer
<1>2. IsBound(bound)'
      BY DEF LogInv, IsBound
<1>3. \A i \in 1..Len(log') :
        /\ AdapterRead(log[i].av, log[i].adapter)'
        /\ \A s \in Slots : SlotRead(s, log[i].ver[s[1]], log[i].meta[s])'
  <2> SUFFICES ASSUME NEW i \in 1..Len(log)
               PROVE /\ AdapterRead(log[i].av, log[i].adapter)'
                     /\ \A s \in Slots : SlotRead(s, log[i].ver[s[1]], log[i].meta[s])'
      OBVIOUS
  <2>1. log[i] \in Registrations
        BY DEF TypeOK, CoreTypeOK
  <2>2. /\ log[i].av \in Nat /\ log[i].adapter \in Nat
        /\ \A s \in Slots : log[i].ver[s[1]] \in Nat /\ log[i].meta[s] \in Nat
        BY <2>1 DEF Registrations, Slots
  <2>3. AdapterRead(log[i].av, log[i].adapter)'
        BY <2>2 DEF LogInv, SourcesGrow, AdapterRead
  <2>4. \A s \in Slots : SlotRead(s, log[i].ver[s[1]], log[i].meta[s])'
        BY <2>2 DEF LogInv, SourcesGrow, SlotRead
  <2> QED BY <2>3, <2>4
<1> QED BY <1>1, <1>2, <1>3 DEF LogInv

Entry(t) == [adapter |-> got[t], av |-> av[t], ver |-> ver[t], meta |-> meta[t]]

\* What a thread about to register has read.
LEMMA EntryIsNewer ==
  ASSUME IInv, NEW t \in Threads, pc[t] = "register"
  PROVE  /\ Entry(t) \in Registrations
         /\ bound.handle = Len(log)
         /\ AdapterRead(av[t], got[t])
         /\ \A s \in Slots : SlotRead(s, ver[t][s[1]], meta[t][s])
         /\ Len(log) # 0 => Newer(Entry(t), log[Len(log)])
<1>1. TypeOK /\ ControlInv /\ LogInv /\ ReadInv(t) /\ AdvanceInv(t)
      BY DEF IInv
<1>2. Entry(t) \in Registrations
      BY <1>1 DEF TypeOK, LocalTypeOK, Entry, Registrations
<1>3. path[t] \in {"rebind", "build"} /\ unread[t] = {}
      BY <1>1, StepPath DEF ControlInv
<1>4. \A u \in Threads : pc[u] # "publish"
      BY <1>1, <1>3, StepPath DEF ControlInv, Writes
<1>5. bound.handle = Len(log)
      BY <1>1, <1>4 DEF LogInv
<1>6. HasAdapterVersion(t) /\ HasAdapter(t)
      BY <1>3 DEF HasAdapterVersion, HasAdapter
<1>7. \A d \in Decos : HasVersion(t, d)
      BY <1>3 DEF HasVersion
<1>8. \A s \in Slots : HasSlot(t, s)
      BY <1>3 DEF HasSlot
<1>9. Base(t) = Len(log)
      BY <1>3, <1>5 DEF Base
<1>10. AdapterRead(av[t], got[t])
      BY <1>1, <1>6 DEF ReadInv, AdapterInv
<1>11. \A s \in Slots : SlotRead(s, ver[t][s[1]], meta[t][s])
      BY <1>1, <1>8 DEF ReadInv, SlotInv
<1>12. ASSUME Len(log) # 0 PROVE Newer(Entry(t), log[Len(log)])
  <2>1. path[t] = "rebind"
        BY <1>1, <1>3, <1>5, <1>12 DEF ControlInv, LogInv
  <2>2. log[Len(log)].av <= av[t] /\ log[Len(log)].adapter <= got[t]
        BY <1>1, <1>6, <1>9, <1>12 DEF ReadInv, AdapterVersionInv, AdapterInv
  <2>3. \A d \in Decos : log[Len(log)].ver[d] <= ver[t][d]
        BY <1>1, <1>7, <1>9, <1>12 DEF ReadInv, VersionInv
  <2>4. \A s \in Slots : log[Len(log)].meta[s] <= meta[t][s]
        BY <1>1, <1>8, <1>9, <1>12 DEF ReadInv, SlotInv
  <2>5. av[t] # log[Len(log)].av \/ \E d \in Decos : ver[t][d] # log[Len(log)].ver[d]
        BY <1>1, <1>5, <1>12, <2>1 DEF AdvanceInv
  <2>6. log[Len(log)] \in Registrations
        BY <1>1, <1>12 DEF TypeOK, CoreTypeOK
  <2> QED BY <1>2, <2>2, <2>3, <2>4, <2>5, <2>6 DEF Newer, Entry, Registrations
<1> QED BY <1>2, <1>5, <1>10, <1>11, <1>12

\* A register_metric call extends the log by a newer registration.
LEMMA LogStepRegister ==
  ASSUME IInv, TypeOK', ControlInv', NEW t \in Threads, Register(t)
  PROVE  LogInv' /\ LogGrows
<1>1. TypeOK /\ ControlInv /\ LogInv
      BY DEF IInv
<1>2. /\ pc[t] = "register" /\ log' = Append(log, Entry(t))
      /\ UNCHANGED <<cellVars, decoVars, made, bound>>
      /\ handle'[t] = Len(log) + 1 /\ pc' = [pc EXCEPT ![t] = "publish"]
      /\ got' = got /\ av' = av /\ ver' = ver /\ meta' = meta
      BY <1>1 DEF Register, Entry, Set, Goto, TypeOK, LocalTypeOK
<1>3. /\ Entry(t) \in Registrations
      /\ bound.handle = Len(log)
      /\ AdapterRead(av[t], got[t])
      /\ \A s \in Slots : SlotRead(s, ver[t][s[1]], meta[t][s])
      /\ Len(log) # 0 => Newer(Entry(t), log[Len(log)])
      BY <1>2, EntryIsNewer
<1>4. log \in Seq(Registrations)
      BY <1>1 DEF TypeOK, CoreTypeOK
<1>5. /\ Len(log) \in Nat /\ Len(log') = Len(log) + 1 /\ log'[Len(log) + 1] = Entry(t)
      /\ \A i \in 1..Len(log) : log'[i] = log[i]
      BY <1>2, <1>3, <1>4
<1>6. RegistrationsAdvance'
      BY <1>1, <1>2, <1>3, <1>4, AppendNewer DEF LogInv
<1>7. IsBound(bound)'
      BY <1>1, <1>2, <1>5 DEF LogInv, IsBound
<1>8. \A i \in 1..Len(log') :
        /\ AdapterRead(log[i].av, log[i].adapter)'
        /\ \A s \in Slots : SlotRead(s, log[i].ver[s[1]], log[i].meta[s])'
  <2>1. ASSUME NEW i \in 1..Len(log') PROVE
          /\ AdapterRead(log'[i].av, log'[i].adapter)
          /\ \A s \in Slots : SlotRead(s, log'[i].ver[s[1]], log'[i].meta[s])
    <3>1. CASE i = Len(log) + 1
          BY <1>3, <1>5, <3>1 DEF Entry
    <3>2. CASE i # Len(log) + 1
      <4>1. i \in 1..Len(log) /\ log'[i] = log[i]
            BY <1>5, <3>2
      <4> QED BY <1>1, <4>1 DEF LogInv
    <3> QED BY <3>1, <3>2
  <2> QED BY <2>1, <1>2 DEF cellVars, decoVars, AdapterRead, SlotRead
<1>9. ~made' => bound'.handle = 0
      BY <1>1, <1>2 DEF LogInv
<1>10. made' /\ Kind = "registry" => bound'.handle # 0
      BY <1>1, <1>2 DEF LogInv
<1>11. pc'[t] = "publish"
      BY <1>1, <1>2 DEF TypeOK, LocalTypeOK
<1>12. \A u \in Threads : pc'[u] = "publish" => u = t
  <2>1. TypeOK' /\ ControlInv' => \A u \in Threads : pc'[u] = "publish" => Writes(u)'
        BY DEF TypeOK, LocalTypeOK, ControlInv, Writes, Paths
  <2> QED BY <1>11, <2>1 DEF ControlInv
<1>13. /\ handle'[t] = Len(log')
       /\ Len(log') = bound'.handle + 1
       /\ log'[Len(log')] = [adapter |-> got'[t], av |-> av'[t], ver |-> ver'[t],
                             meta |-> meta'[t]]
      BY <1>2, <1>3, <1>5 DEF Entry
<1> QED BY <1>5, <1>6, <1>7, <1>8, <1>9, <1>10, <1>11, <1>12, <1>13 DEF LogInv, LogGrows

\* Publishing makes the last registration the published Bound.
LEMMA LogStepPublish ==
  ASSUME IInv, TypeOK', ControlInv', NEW t \in Threads, Publish(t)
  PROVE  LogInv' /\ LogGrows /\ bound'.handle = bound.handle + 1
<1>1. TypeOK /\ ControlInv /\ LogInv
      BY DEF IInv
<1>2. /\ pc[t] = "publish" /\ UNCHANGED <<cellVars, decoVars, log>>
      /\ bound' = NewBound(t) /\ made' = TRUE /\ pc' = [pc EXCEPT ![t] = "ready"]
      BY DEF Publish, Return, Goto
<1>3. /\ handle[t] = Len(log) /\ Len(log) = bound.handle + 1
      /\ log[Len(log)] = [adapter |-> got[t], av |-> av[t], ver |-> ver[t], meta |-> meta[t]]
      BY <1>1, <1>2 DEF LogInv
<1>4. Len(log) \in Nat /\ bound.handle \in Nat
      BY <1>1 DEF TypeOK, CoreTypeOK, Bounds
<1>5. IsBound(bound)' /\ bound'.handle = Len(log) /\ bound'.handle # 0
      BY <1>2, <1>3, <1>4 DEF IsBound, NewBound
<1>6. RegistrationsAdvance'
      BY <1>1, <1>2 DEF LogInv, RegistrationsAdvance, Newer
<1>7. \A i \in 1..Len(log') :
        /\ AdapterRead(log[i].av, log[i].adapter)'
        /\ \A s \in Slots : SlotRead(s, log[i].ver[s[1]], log[i].meta[s])'
      BY <1>1, <1>2 DEF LogInv, cellVars, decoVars, AdapterRead, SlotRead
<1>8. \A u \in Threads : pc'[u] # "publish"
  <2>1. \A u \in Threads : pc[u] = "publish" => u = t
        BY <1>1, <1>2, StepPath DEF ControlInv, Writes
  <2> QED BY <1>1, <1>2, <2>1 DEF TypeOK, LocalTypeOK
<1>9. LogGrows
      BY <1>2, <1>4 DEF LogGrows
<1> QED BY <1>2, <1>3, <1>4, <1>5, <1>6, <1>7, <1>8, <1>9 DEF LogInv

----------------------------------------------------------------------------
(* What the thread that takes a step knows after it.                       *)

Knows(t) == ReadInv(t) /\ AdvanceInv(t) /\ CallInv(t)

\* The facts about IInv that every step uses.
LEMMA Facts ==
  ASSUME IInv, NEW t \in Threads
  PROVE  /\ TypeOK /\ ControlInv /\ StoreInv /\ LogInv
         /\ ReadInv(t) /\ AdvanceInv(t) /\ CallInv(t)
         /\ IsBound(bound)
         /\ bound.handle \in Nat /\ Len(log) \in Nat
         /\ path[t] = "build" => Base(t) = 0
         /\ path[t] \in {"rebind", "build"} \/ (path[t] = "bind" /\ pc[t] # "lock") =>
              (Base(t) # 0 => Base(t) \in 1..Len(log))
<1>1. /\ TypeOK /\ ControlInv /\ StoreInv /\ LogInv
      /\ ReadInv(t) /\ AdvanceInv(t) /\ CallInv(t)
      BY DEF IInv
<1>2. IsBound(bound) /\ (~made => bound.handle = 0)
      BY <1>1 DEF LogInv
<1>3. bound.handle \in Nat /\ Len(log) \in Nat
      BY <1>1 DEF TypeOK, CoreTypeOK, Bounds
<1>4. path[t] = "build" => Base(t) = 0
      BY <1>1, <1>2 DEF ControlInv, Base
<1>5. path[t] \in {"rebind", "build"} => (Base(t) # 0 => Base(t) \in 1..Len(log))
      BY <1>2 DEF Base, IsBound
<1>6. path[t] = "bind" /\ pc[t] # "lock" => (Base(t) # 0 => Base(t) \in 1..Len(log))
      BY <1>1 DEF Base, IsBound, CallInv
<1> QED BY <1>1, <1>2, <1>3, <1>4, <1>5, <1>6

\* A call that goes on, within bind or past it, relies on what it relied on.
LEMMA CallKept ==
  ASSUME NEW t \in Threads, CallInv(t), UNCHANGED <<cellVars, decoVars, bound, log>>,
         start'[t] = start[t], binding'[t] = binding[t],
         path'[t] = "bind" /\ pc'[t] # "lock" =>
           path[t] = "bind" /\ pc[t] # "lock" /\ seen'[t] = seen[t],
         pc[t] # "ready", pc'[t] # "ready"
  PROVE  CallInv(t)'
BY DEF CallInv, cellVars, decoVars, IsBound

\* A version read now is no older than that of any registration, and equal
\* to it only if the registration's values are no older than what is complete.
LEMMA VersionsNow ==
  ASSUME IInv, NEW t \in Threads, NEW i \in 1..Len(log)
  PROVE  /\ log[i].av <= cellVersion
         /\ log[i].av = cellVersion => start[t].adapter <= log[i].adapter
         /\ log[i].adapter <= cellAdapter
         /\ start[t].adapter <= cellAdapter
         /\ \A d \in Decos :
              /\ log[i].ver[d] <= decoVersion[d]
              /\ log[i].ver[d] = decoVersion[d] =>
                   \A f \in Fields : start[t].done[<<d, f>>] <= log[i].meta[<<d, f>>]
         /\ \A s \in Slots : log[i].meta[s] <= config[s] /\ start[t].done[s] <= config[s]
<1>1. LogInv /\ CallInv(t) /\ TypeOK /\ StoreInv
      BY DEF IInv
<1>2. log[i] \in Registrations /\ start[t] \in Starts
      BY <1>1 DEF TypeOK, CoreTypeOK, LocalTypeOK
<1>3. cellDone \in Nat /\ cellAdapter \in Nat /\ log[i].adapter \in Nat /\ start[t].adapter \in Nat
      BY <1>1, <1>2, MaxSwapsAssumption DEF TypeOK, CellTypeOK, Registrations, Starts
<1>4. /\ decoDone \in [Slots -> Nat] /\ config \in [Slots -> Nat]
      /\ log[i].meta \in [Slots -> Nat] /\ start[t].done \in [Slots -> Nat]
      BY <1>1, <1>2 DEF TypeOK, DecoTypeOK, Registrations, Starts
<1>5. AdapterRead(log[i].av, log[i].adapter) /\ cellDone <= cellAdapter
      /\ start[t].adapter <= cellDone
      BY <1>1 DEF LogInv, CallInv, StoreInv
<1>6. \A s \in Slots : /\ SlotRead(s, log[i].ver[s[1]], log[i].meta[s])
                       /\ decoDone[s] <= config[s] /\ start[t].done[s] <= decoDone[s]
      BY <1>1 DEF LogInv, CallInv, StoreInv
<1>7. \A s \in Slots : log[i].meta[s] <= config[s] /\ start[t].done[s] <= config[s]
      BY <1>4, <1>6 DEF SlotRead
<1>8. ASSUME NEW d \in Decos, NEW f \in Fields
      PROVE  /\ log[i].ver[d] <= decoVersion[d]
             /\ log[i].ver[d] = decoVersion[d] =>
                  start[t].done[<<d, f>>] <= log[i].meta[<<d, f>>]
  <2>1. <<d, f>> \in Slots
        BY DEF Slots
  <2> QED BY <2>1, <1>4, <1>6 DEF SlotRead
<1>9. \E f \in Fields : TRUE
      BY DecorationAssumption
<1>10. \A d \in Decos : log[i].ver[d] <= decoVersion[d]
      BY <1>8, <1>9
<1>11. /\ log[i].av <= cellVersion
       /\ log[i].av = cellVersion => start[t].adapter <= log[i].adapter
       /\ log[i].adapter <= cellAdapter
       /\ start[t].adapter <= cellAdapter
      BY <1>3, <1>5 DEF AdapterRead
<1> QED BY <1>7, <1>8, <1>10, <1>11

\* What a thread knows after it has loaded the version of the cell.
LEMMA KnowsReadAdapterVersion ==
  ASSUME IInv, NEW t \in Threads, ReadAdapterVersion(t)
  PROVE  Knows(t)'
<1>1. /\ TypeOK /\ ControlInv /\ ReadInv(t) /\ CallInv(t)
      /\ path[t] = "build" => Base(t) = 0
      /\ Base(t) # 0 => Base(t) \in 1..Len(log)
  <2>1. pc[t] = "adapter_version"
        BY DEF ReadAdapterVersion
  <2>2. path[t] \in {"bind", "rebind", "build"}
        BY <2>1, Facts, StepPath
  <2> QED BY <2>1, <2>2, Facts
<1>2. /\ pc[t] = "adapter_version" /\ path[t] \in {"bind", "rebind", "build"}
      /\ UNCHANGED <<cellVars, decoVars, bound, log>> /\ UNCHANGED <<path, seen, ver, got,
           meta, unread, binding, start>>
      /\ av'[t] = cellVersion
      /\ pc'[t] = (IF path[t] = "build" THEN "adapter" ELSE "self_version")
      BY <1>1, StepPath DEF ReadAdapterVersion, Goto, Set, coreVars, TypeOK, LocalTypeOK
<1>3. Base(t)' = Base(t) /\ cellVersion \in Nat
      BY <1>1, <1>2 DEF Base, TypeOK, CellTypeOK
<1>4. AdapterVersionInv(t)'
      BY <1>1, <1>2, <1>3, VersionsNow DEF AdapterVersionInv, cellVars
<1>5. VersionInv(t)'
      BY <1>1, <1>2, <1>3 DEF ReadInv, VersionInv, HasVersion, decoVars
<1>6. AdapterInv(t)'
      BY <1>2 DEF AdapterInv, HasAdapter
<1>7. SlotInv(t)'
      BY <1>1, <1>2, <1>3 DEF ReadInv, SlotInv, HasSlot, decoVars, SlotRead
<1>8. AdvanceInv(t)'
      BY <1>2 DEF AdvanceInv
<1>9. CallInv(t)'
      BY <1>1, <1>2, CallKept
<1> QED BY <1>4, <1>5, <1>6, <1>7, <1>8, <1>9 DEF Knows, ReadInv

\* What it knows after it has loaded the version of its decoration.
LEMMA KnowsReadSelfVersion ==
  ASSUME IInv, NEW t \in Threads, ReadSelfVersion(t)
  PROVE  Knows(t)'
<1> USE DecosFacts
<1>1. pc[t] = "self_version" /\ path[t] \in {"bind", "rebind", "build"}
      BY Facts, StepPath DEF ReadSelfVersion
<1>2. /\ TypeOK /\ ControlInv /\ ReadInv(t) /\ CallInv(t)
      /\ path[t] = "build" => Base(t) = 0 /\ ~HasParent /\ unread[t] = Slots
      /\ Base(t) # 0 => Base(t) \in 1..Len(log)
      BY <1>1, Facts, KindAssumption DEF ControlInv
<1>3. /\ UNCHANGED <<cellVars, decoVars, bound, log>> /\ UNCHANGED <<path, seen, av, got,
           meta, unread, binding, start>>
      /\ ver'[t] = [ver[t] EXCEPT !["self"] = decoVersion["self"]]
      /\ pc'[t] = (IF HasParent THEN "parent_version" ELSE AfterVersion(t))
      BY <1>2 DEF ReadSelfVersion, Goto, Set, coreVars, TypeOK, LocalTypeOK
<1>4. /\ Base(t)' = Base(t) /\ ver[t] \in [Decos -> Nat] /\ decoVersion \in [Decos -> Nat]
      /\ \A d \in Decos : d = "self" \/ (d = "parent" /\ HasParent)
      BY <1>2, <1>3 DEF Base, TypeOK, LocalTypeOK, DecoTypeOK, Decos
<1>5. /\ path[t] = "bind" => pc'[t] = (IF HasParent THEN "parent_version" ELSE "compare")
      /\ path[t] = "rebind" => pc'[t] = (IF HasParent THEN "parent_version" ELSE "recheck")
      /\ path[t] = "build" => pc'[t] = "decorate"
      BY <1>1, <1>2, <1>3 DEF AfterVersion
<1>6. AdapterVersionInv(t)'
      BY <1>1, <1>2, <1>3, <1>4, <1>5 DEF ReadInv, AdapterVersionInv, HasAdapterVersion, cellVars
<1>7. VersionInv(t)'
  <2> SUFFICES ASSUME NEW d \in Decos, HasVersion(t, d)'
               PROVE  /\ ver'[t][d] <= decoVersion[d]
                      /\ Base(t) # 0 =>
                           /\ log[Base(t)].ver[d] <= ver'[t][d]
                           /\ log[Base(t)].ver[d] = ver'[t][d] =>
                                \A f \in Fields :
                                  start[t].done[<<d, f>>] <= log[Base(t)].meta[<<d, f>>]
      BY <1>3, <1>4 DEF VersionInv, decoVars
  <2>1. d = "self"
        BY <1>1, <1>3, <1>4, <1>5 DEF HasVersion
  <2>2. ver'[t][d] = decoVersion[d]
        BY <1>3, <1>4, <2>1
  <2> QED BY <1>2, <1>4, <2>2, VersionsNow
<1>8. AdapterInv(t)'
      BY <1>1, <1>3, <1>5 DEF AdapterInv, HasAdapter
<1>9. SlotInv(t)'
      BY <1>1, <1>2, <1>3, <1>5 DEF SlotInv, HasSlot
<1>10. AdvanceInv(t)'
      BY <1>1, <1>3, <1>5 DEF AdvanceInv
<1>11. CallInv(t)'
      BY <1>1, <1>2, <1>3, <1>5, CallKept
<1> QED BY <1>6, <1>7, <1>8, <1>9, <1>10, <1>11 DEF Knows, ReadInv

\* What it knows after it has loaded the version of the parent's.
LEMMA KnowsReadParentVersion ==
  ASSUME IInv, NEW t \in Threads, ReadParentVersion(t)
  PROVE  Knows(t)'
<1> USE DecosFacts
<1>1. HasParent /\ pc[t] = "parent_version" /\ path[t] \in {"bind", "rebind"}
      BY Facts, StepPath DEF ReadParentVersion
<1>2. /\ TypeOK /\ ControlInv /\ ReadInv(t) /\ CallInv(t)
      /\ Base(t) # 0 => Base(t) \in 1..Len(log)
      BY <1>1, Facts
<1>3. /\ UNCHANGED <<cellVars, decoVars, bound, log>> /\ UNCHANGED <<path, seen, av, got,
           meta, unread, binding, start>>
      /\ ver'[t] = [ver[t] EXCEPT !["parent"] = decoVersion["parent"]]
      /\ pc'[t] = AfterVersion(t)
      BY <1>2 DEF ReadParentVersion, Goto, Set, coreVars, TypeOK, LocalTypeOK
<1>4. /\ Base(t)' = Base(t) /\ ver[t] \in [Decos -> Nat] /\ decoVersion \in [Decos -> Nat]
      /\ \A d \in Decos : d = "self" \/ d = "parent"
      BY <1>2, <1>3 DEF Base, TypeOK, LocalTypeOK, DecoTypeOK, Decos
<1>5. /\ path[t] = "bind" => pc'[t] = "compare"
      /\ path[t] = "rebind" => pc'[t] = "recheck"
      BY <1>1, <1>3 DEF AfterVersion
<1>6. AdapterVersionInv(t)'
      BY <1>1, <1>2, <1>3, <1>4, <1>5 DEF ReadInv, AdapterVersionInv, HasAdapterVersion, cellVars
<1>7. VersionInv(t)'
  <2> SUFFICES ASSUME NEW d \in Decos
               PROVE  /\ ver'[t][d] <= decoVersion[d]
                      /\ Base(t) # 0 =>
                           /\ log[Base(t)].ver[d] <= ver'[t][d]
                           /\ log[Base(t)].ver[d] = ver'[t][d] =>
                                \A f \in Fields :
                                  start[t].done[<<d, f>>] <= log[Base(t)].meta[<<d, f>>]
      BY <1>3, <1>4 DEF VersionInv, decoVars
  <2>1. CASE d = "parent"
    <3>1. ver'[t][d] = decoVersion[d]
          BY <1>3, <1>4, <2>1
    <3> QED BY <1>2, <1>4, <3>1, VersionsNow
  <2>2. CASE d = "self"
    <3>1. HasVersion(t, d) /\ ver'[t][d] = ver[t][d]
          BY <1>1, <1>3, <1>4, <2>2 DEF HasVersion
    <3> QED BY <1>2, <3>1 DEF ReadInv, VersionInv
  <2> QED BY <1>4, <2>1, <2>2
<1>8. AdapterInv(t)'
      BY <1>1, <1>3, <1>5 DEF AdapterInv, HasAdapter
<1>9. SlotInv(t)'
      BY <1>1, <1>3, <1>5 DEF SlotInv, HasSlot
<1>10. AdvanceInv(t)'
      BY <1>1, <1>3, <1>5 DEF AdvanceInv
<1>11. CallInv(t)'
      BY <1>1, <1>2, <1>3, <1>5, CallKept
<1> QED BY <1>6, <1>7, <1>8, <1>9, <1>10, <1>11 DEF Knows, ReadInv

\* Version is a sum, and a registration's versions never exceed the ones read
\* later: so equal sums are equal versions, although the code compares sums.
LEMMA VersionEqual ==
  ASSUME NEW u \in [Decos -> Nat], NEW v \in [Decos -> Nat],
         \A d \in Decos : u[d] <= v[d]
  PROVE  Version(u) = Version(v) <=> \A d \in Decos : u[d] = v[d]
<1>1. CASE HasParent
      BY <1>1 DEF Decos, Version
<1>2. CASE ~HasParent
      BY <1>2 DEF Decos, Version
<1> QED BY <1>1, <1>2

\* A Bound whose versions are the ones t has just read is fresh for t.
LEMMA MatchIsFresh ==
  ASSUME IInv, NEW t \in Threads, NEW b \in Bounds, IsBound(b), b.handle # 0,
         b.handle = Base(t), HasAdapterVersion(t), \A d \in Decos : HasVersion(t, d)
  PROVE  Matches(b, t) <=> /\ log[b.handle].av = av[t]
                           /\ \A d \in Decos : log[b.handle].ver[d] = ver[t][d]
<1>1. TypeOK /\ ReadInv(t)
      BY DEF IInv
<1>2. b.handle \in 1..Len(log) /\ log[b.handle] \in Registrations
      BY <1>1 DEF IsBound, TypeOK, CoreTypeOK
<1>3. ver[t] \in [Decos -> Nat] /\ log[b.handle].ver \in [Decos -> Nat]
      BY <1>1, <1>2 DEF TypeOK, LocalTypeOK, Registrations
<1>4. \A d \in Decos : log[b.handle].ver[d] <= ver[t][d]
      BY <1>1 DEF ReadInv, VersionInv
<1>5. /\ b.adapter_version = log[b.handle].av
      /\ b.scope_version = Version(log[b.handle].ver)
      BY DEF IsBound
<1>6. Version(log[b.handle].ver) = Version(ver[t]) <=>
        \A d \in Decos : log[b.handle].ver[d] = ver[t][d]
      BY <1>3, <1>4, VersionEqual
<1> QED BY <1>5, <1>6 DEF Matches

\* The Binding it makes is at least what t's call may rely on.
LEMMA MatchIsEnough ==
  ASSUME IInv, NEW t \in Threads, NEW b \in Bounds, IsBound(b), b.handle # 0,
         b.handle = Base(t), HasAdapterVersion(t), \A d \in Decos : HasVersion(t, d),
         Matches(b, t)
  PROVE  b.handle \in 1..Len(log) /\ AtLeast(log[b.handle], start[t])
<1>1. TypeOK /\ ReadInv(t)
      BY DEF IInv
<1>2. b.handle \in 1..Len(log) /\ log[b.handle] \in Registrations /\ start[t] \in Starts
      BY <1>1 DEF IsBound, TypeOK, CoreTypeOK, LocalTypeOK
<1>3. /\ log[b.handle].av = av[t]
      /\ \A d \in Decos : log[b.handle].ver[d] = ver[t][d]
      BY MatchIsFresh
<1>4. start[t].adapter <= log[b.handle].adapter
      BY <1>1, <1>3 DEF ReadInv, AdapterVersionInv
<1>5. \A d \in Decos : \A f \in Fields :
        start[t].done[<<d, f>>] <= log[b.handle].meta[<<d, f>>]
      BY <1>1, <1>3 DEF ReadInv, VersionInv
<1>6. \A s \in Slots : start[t].done[s] <= log[b.handle].meta[s]
      BY <1>5 DEF Slots
<1>7. /\ start[t].adapter \in Nat /\ log[b.handle].adapter \in Nat
      /\ \A s \in Slots : start[t].done[s] \in Nat /\ log[b.handle].meta[s] \in Nat
      BY <1>2 DEF Starts, Registrations
<1> QED BY <1>2, <1>4, <1>6, <1>7 DEF AtLeast

\* Outside its functions a thread knows nothing of versions and values.
LEMMA Resting ==
  ASSUME NEW t \in Threads, path'[t] \in {"none", "bind"},
         path'[t] = "bind" => pc'[t] \in {"adapter_version", "lock"}
  PROVE  ReadInv(t)' /\ AdvanceInv(t)'
<1>1. ~HasAdapterVersion(t)' /\ ~HasAdapter(t)'
      BY DEF HasAdapterVersion, HasAdapter
<1>2. \A d \in Decos : ~HasVersion(t, d)'
      BY DEF HasVersion
<1>3. \A s \in Slots : ~HasSlot(t, s)'
      BY DEF HasSlot
<1>4. AdvanceInv(t)'
      BY DEF AdvanceInv
<1> QED BY <1>1, <1>2, <1>3, <1>4 DEF ReadInv, AdapterVersionInv, VersionInv, AdapterInv, SlotInv

\* Handing out a Bound ends the call's search.
LEMMA CallReturns ==
  ASSUME TypeOK, NEW t \in Threads, NEW b, CallInv(t),
         UNCHANGED <<cellVars, decoVars, log, start>>,
         bound.handle <= bound'.handle, bound'.handle \in Nat,
         Return(t, b), b.handle \in 1..Len(log), b.adapter = log[b.handle].adapter,
         start[t].handle <= b.handle, AtLeast(log[b.handle], start[t])
  PROVE  CallInv(t)'
<1>1. /\ pc'[t] = "ready" /\ path'[t] = "none"
      /\ binding'[t].handle = b.handle /\ binding'[t].adapter = b.adapter
      BY DEF TypeOK, LocalTypeOK, Return, Goto, Set
<1>2. bound.handle \in Nat /\ start[t].handle \in Nat
      BY DEF TypeOK, LocalTypeOK, CoreTypeOK, Bounds, Starts
<1> QED BY <1>1, <1>2 DEF CallInv, cellVars, decoVars, AtLeast

\* The fast path: a Bound that compares equal is fresh enough to return.
LEMMA KnowsCompare ==
  ASSUME IInv, NEW t \in Threads, Compare(t)
  PROVE  Knows(t)'
<1>1. pc[t] = "compare" /\ path[t] = "bind"
      BY Facts, StepPath DEF Compare
<1>2. TypeOK /\ CallInv(t) /\ bound.handle \in Nat
      BY Facts
<1>3. UNCHANGED <<cellVars, decoVars, log, start, bound>>
      BY DEF Compare, coreVars
<1>4. CASE Matches(seen[t], t)
  <2>1. Return(t, seen[t])
        BY <1>4 DEF Compare
  <2>2. /\ IsBound(seen[t]) /\ seen[t].handle # 0 /\ start[t].handle <= seen[t].handle
        /\ seen[t].handle = Base(t) /\ seen[t] \in Bounds
        BY <1>1, <1>2 DEF CallInv, Base, TypeOK, LocalTypeOK
  <2>3. HasAdapterVersion(t) /\ \A d \in Decos : HasVersion(t, d)
        BY <1>1 DEF HasAdapterVersion, HasVersion
  <2>4. seen[t].handle \in 1..Len(log) /\ AtLeast(log[seen[t].handle], start[t])
        BY <1>4, <2>2, <2>3, MatchIsEnough
  <2>5. seen[t].adapter = log[seen[t].handle].adapter
        BY <2>2 DEF IsBound
  <2>6. bound.handle <= bound'.handle /\ bound'.handle \in Nat
        BY <1>2, <1>3
  <2>7. CallInv(t)'
        BY <1>2, <1>3, <2>1, <2>2, <2>4, <2>5, <2>6, CallReturns
  <2>8. path'[t] = "none"
        BY <1>2, <2>1 DEF Return, Set, TypeOK, LocalTypeOK
  <2> QED BY <2>7, <2>8, Resting DEF Knows
<1>5. CASE ~Matches(seen[t], t)
  <2>1. path'[t] = "bind" /\ pc'[t] = "lock" /\ binding' = binding
        BY <1>1, <1>2, <1>5 DEF Compare, Goto, TypeOK, LocalTypeOK
  <2>2. CallInv(t)'
        BY <1>1, <1>2, <1>3, <2>1, CallKept
  <2> QED BY <2>1, <2>2, Resting DEF Knows
<1> QED BY <1>4, <1>5

\* Taking bind_mutex starts the reads again.
LEMMA KnowsLock ==
  ASSUME IInv, NEW t \in Threads, Lock(t)
  PROVE  Knows(t)'
<1>1. TypeOK /\ CallInv(t)
      BY Facts
<1>2. /\ pc[t] = "lock" /\ path'[t] = "rebind" /\ pc'[t] = "adapter_version"
      /\ UNCHANGED <<cellVars, decoVars, bound, log, start, binding>>
      BY <1>1 DEF Lock, Goto, Set, TypeOK, LocalTypeOK
<1>3. CallInv(t)'
      BY <1>1, <1>2, CallKept
<1>4. ~HasAdapterVersion(t)' /\ ~HasAdapter(t)'
      BY <1>2 DEF HasAdapterVersion, HasAdapter
<1>5. \A d \in Decos : ~HasVersion(t, d)'
      BY <1>2 DEF HasVersion
<1>6. \A s \in Slots : ~HasSlot(t, s)'
      BY <1>2 DEF HasSlot
<1>7. AdvanceInv(t)'
      BY <1>2 DEF AdvanceInv
<1> QED BY <1>3, <1>4, <1>5, <1>6, <1>7
        DEF Knows, ReadInv, AdapterVersionInv, VersionInv, AdapterInv, SlotInv

\* The second check: another thread's Bound is fresh enough, or the versions
\* are newer than the published ones.
LEMMA KnowsRecheck ==
  ASSUME IInv, NEW t \in Threads, Recheck(t)
  PROVE  Knows(t)'
<1>1. pc[t] = "recheck" /\ path[t] = "rebind"
      BY Facts, StepPath DEF Recheck
<1>2. /\ TypeOK /\ ReadInv(t) /\ CallInv(t) /\ IsBound(bound)
      /\ bound.handle \in Nat /\ bound \in Bounds
      /\ Base(t) = bound.handle
      BY <1>1, Facts DEF Base, TypeOK, CoreTypeOK
<1>3. UNCHANGED <<cellVars, decoVars, log, start, bound>>
      BY DEF Recheck
<1>4. HasAdapterVersion(t) /\ \A d \in Decos : HasVersion(t, d)
      BY <1>1 DEF HasAdapterVersion, HasVersion
<1>5. CASE Published(t)
  <2>1. Return(t, bound) /\ bound.handle # 0 /\ Matches(bound, t)
        BY <1>2, <1>5 DEF Recheck, Published, IsBound
  <2>2. bound.handle \in 1..Len(log) /\ AtLeast(log[bound.handle], start[t])
        BY <1>2, <1>4, <1>5, <2>1, MatchIsEnough
  <2>3. bound.adapter = log[bound.handle].adapter /\ start[t].handle <= bound.handle
        BY <1>2, <2>1 DEF IsBound, CallInv
  <2>4. bound.handle <= bound'.handle /\ bound'.handle \in Nat
        BY <1>2, <1>3
  <2>5. CallInv(t)'
        BY <1>2, <1>3, <2>1, <2>2, <2>3, <2>4, CallReturns
  <2>6. path'[t] = "none"
        BY <1>2, <2>1 DEF Return, Set, TypeOK, LocalTypeOK
  <2> QED BY <2>5, <2>6, Resting DEF Knows
<1>6. CASE ~Published(t)
  <2>1. /\ pc'[t] = "adapter"
        /\ UNCHANGED <<path, seen, av, ver, got, meta, unread, handle, binding>>
        BY <1>2, <1>6 DEF Recheck, Goto, TypeOK, LocalTypeOK
  <2>2. Base(t)' = Base(t)
        BY <1>3, <2>1 DEF Base
  <2>3. AdapterVersionInv(t)' /\ VersionInv(t)'
        BY <1>2, <1>3, <1>4, <2>1, <2>2
           DEF ReadInv, AdapterVersionInv, VersionInv, cellVars, decoVars
  <2>4. AdapterInv(t)' /\ SlotInv(t)'
        BY <1>1, <2>1 DEF AdapterInv, SlotInv, HasAdapter, HasSlot
  <2>5. AdvanceInv(t)'
    <3>1. bound.handle # 0 => ~Matches(bound, t)
          BY <1>6 DEF NoBound, Published
    <3>2. bound.handle # 0 => (Matches(bound, t) <=>
             /\ log[bound.handle].av = av[t]
             /\ \A d \in Decos : log[bound.handle].ver[d] = ver[t][d])
          BY <1>2, <1>4, MatchIsFresh
    <3> QED BY <1>3, <2>1, <3>1, <3>2 DEF AdvanceInv
  <2>6. CallInv(t)'
        BY <1>1, <1>2, <1>3, <2>1, CallKept
  <2> QED BY <2>3, <2>4, <2>5, <2>6 DEF Knows, ReadInv
<1> QED BY <1>5, <1>6

\* The adapter is read after the version it is registered under.
LEMMA KnowsReadAdapter ==
  ASSUME IInv, NEW t \in Threads, ReadAdapter(t)
  PROVE  Knows(t)'
<1>1. pc[t] = "adapter" /\ path[t] \in {"rebind", "build"}
      BY Facts, StepPath DEF ReadAdapter
<1>2. /\ TypeOK /\ ReadInv(t) /\ AdvanceInv(t) /\ CallInv(t) /\ StoreInv
      /\ Base(t) # 0 => Base(t) \in 1..Len(log)
      BY <1>1, Facts
<1>3. /\ UNCHANGED <<cellVars, decoVars, log, start, bound>>
      /\ UNCHANGED <<path, seen, av, ver, meta, binding>>
      /\ got'[t] = cellAdapter
      BY <1>2 DEF ReadAdapter, Set, coreVars, TypeOK, LocalTypeOK
<1>4. /\ path[t] = "rebind" => pc'[t] = "decorate" /\ unread'[t] = Slots
      /\ path[t] = "build" => pc'[t] = "register" /\ unread'[t] = unread[t]
      BY <1>1, <1>2 DEF ReadAdapter, Goto, Set, TypeOK, LocalTypeOK
<1>5. Base(t)' = Base(t)
      BY <1>3 DEF Base
<1>6. HasAdapterVersion(t)
      BY <1>1 DEF HasAdapterVersion
<1>7. AdapterVersionInv(t)'
      BY <1>2, <1>3, <1>5, <1>6 DEF ReadInv, AdapterVersionInv, cellVars
<1>8. VersionInv(t)'
  <2>1. \A d \in Decos : HasVersion(t, d)
        BY <1>1 DEF HasVersion
  <2> QED BY <1>2, <1>3, <1>5, <2>1 DEF ReadInv, VersionInv, decoVars
<1>9. AdapterInv(t)'
  <2>1. AdapterRead(av[t], cellAdapter)
        BY <1>2, <1>6, MaxSwapsAssumption
           DEF ReadInv, AdapterVersionInv, AdapterRead, StoreInv, TypeOK, CellTypeOK
  <2>2. start[t].adapter <= cellAdapter
    <3>1. start[t].adapter <= cellDone /\ cellDone <= cellAdapter
          BY <1>2 DEF CallInv, StoreInv
    <3>2. start[t].adapter \in Nat /\ cellDone \in Nat /\ cellAdapter \in Nat
          BY <1>2, MaxSwapsAssumption DEF TypeOK, CellTypeOK, LocalTypeOK, Starts
    <3> QED BY <3>1, <3>2
  <2>3. Base(t) # 0 => log[Base(t)].adapter <= cellAdapter
        BY <1>2, VersionsNow
  <2> QED BY <1>3, <1>5, <2>1, <2>2, <2>3 DEF AdapterInv, AdapterRead, cellVars
<1>10. SlotInv(t)'
  <2>1. CASE path[t] = "rebind"
        BY <1>3, <1>4, <2>1 DEF SlotInv, HasSlot
  <2>2. CASE path[t] = "build"
        BY <1>1, <1>2, <1>3, <1>4, <1>5, <2>2
           DEF ReadInv, SlotInv, HasSlot, SlotRead, decoVars
  <2> QED BY <1>1, <2>1, <2>2
<1>11. AdvanceInv(t)'
      BY <1>1, <1>2, <1>3, <1>4 DEF AdvanceInv
<1>12. CallInv(t)'
      BY <1>1, <1>2, <1>3, <1>4, CallKept
<1> QED BY <1>7, <1>8, <1>9, <1>10, <1>11, <1>12 DEF Knows, ReadInv

\* So is each field of the decoration.
LEMMA KnowsDecorate ==
  ASSUME IInv, NEW t \in Threads, Decorate(t)
  PROVE  Knows(t)'
<1>1. pc[t] = "decorate" /\ path[t] \in {"rebind", "build"}
      BY Facts, StepPath DEF Decorate
<1>2. /\ TypeOK /\ ReadInv(t) /\ AdvanceInv(t) /\ CallInv(t) /\ StoreInv
      /\ path[t] = "build" => Base(t) = 0
      /\ Base(t) # 0 => Base(t) \in 1..Len(log)
      BY <1>1, Facts
<1>3. /\ UNCHANGED <<cellVars, decoVars, log, start, bound>>
      /\ UNCHANGED <<path, seen, av, ver, got, binding>>
      BY DEF Decorate, coreVars
<1>4. PICK s \in unread[t] :
        /\ meta' = [meta EXCEPT ![t][s] = config[s]]
        /\ unread' = [unread EXCEPT ![t] = @ \ {s}]
        /\ Goto(t, CASE unread[t] # {s} -> "decorate"
                     [] unread[t] = {s} /\ path[t] = "build" -> "adapter_version"
                     [] unread[t] = {s} /\ path[t] # "build" -> "register")
      BY DEF Decorate
<1>5. /\ meta[t] \in [Slots -> Nat] /\ unread[t] \subseteq Slots /\ s \in Slots
      /\ meta'[t] = [meta[t] EXCEPT ![s] = config[s]] /\ unread'[t] = unread[t] \ {s}
      BY <1>2, <1>4 DEF TypeOK, LocalTypeOK
<1>6. pc'[t] = CASE unread[t] # {s} -> "decorate"
                 [] unread[t] = {s} /\ path[t] = "build" -> "adapter_version"
                 [] unread[t] = {s} /\ path[t] # "build" -> "register"
      BY <1>2, <1>4 DEF TypeOK, LocalTypeOK, Goto
<1>7. /\ path[t] = "rebind" => pc'[t] \in {"decorate", "register"}
      /\ path[t] = "build" => pc'[t] \in {"decorate", "adapter_version"}
      BY <1>1, <1>6
<1>8. Base(t)' = Base(t)
      BY <1>3 DEF Base
<1>9. AdapterVersionInv(t)'
      BY <1>1, <1>2, <1>3, <1>7, <1>8 DEF ReadInv, AdapterVersionInv, HasAdapterVersion, cellVars
<1>10. \A d \in Decos : HasVersion(t, d)
      BY <1>1 DEF HasVersion
<1>11. VersionInv(t)'
      BY <1>2, <1>3, <1>8, <1>10 DEF ReadInv, VersionInv, decoVars
<1>12. AdapterInv(t)'
      BY <1>1, <1>2, <1>3, <1>7, <1>8 DEF ReadInv, AdapterInv, HasAdapter, AdapterRead, cellVars
<1>13. SlotInv(t)'
  <2> SUFFICES ASSUME NEW r \in Slots, HasSlot(t, r)'
               PROVE  /\ SlotRead(r, ver[t][r[1]], meta'[t][r])
                      /\ start[t].done[r] <= meta'[t][r]
                      /\ Base(t) # 0 => log[Base(t)].meta[r] <= meta'[t][r]
      BY <1>3, <1>8 DEF SlotInv, SlotRead, decoVars
  <2>1. CASE r = s
    <3>1. meta'[t][r] = config[r]
          BY <1>5, <2>1
    <3>2. ver[t][r[1]] <= decoVersion[r[1]]
          BY <1>2, <1>10 DEF ReadInv, VersionInv, Slots
    <3>3. decoDone[r] <= config[r] /\ start[t].done[r] <= decoDone[r]
          BY <1>2 DEF StoreInv, CallInv
    <3>4. decoDone[r] \in Nat /\ config[r] \in Nat /\ start[t].done[r] \in Nat
          BY <1>2 DEF TypeOK, DecoTypeOK, LocalTypeOK, Starts
    <3>5. Base(t) # 0 => log[Base(t)].meta[r] <= config[r]
          BY <1>2, VersionsNow
    <3> QED BY <3>1, <3>2, <3>3, <3>4, <3>5 DEF SlotRead
  <2>2. CASE r # s
    <3>1. meta'[t][r] = meta[t][r] /\ HasSlot(t, r)
          BY <1>1, <1>3, <1>5, <2>2 DEF HasSlot
    <3> QED BY <1>2, <3>1 DEF ReadInv, SlotInv
  <2> QED BY <2>1, <2>2
<1>14. AdvanceInv(t)'
      BY <1>1, <1>2, <1>3, <1>7 DEF AdvanceInv
<1>15. CallInv(t)'
      BY <1>1, <1>2, <1>3, <1>7, CallKept
<1> QED BY <1>9, <1>11, <1>12, <1>13, <1>14, <1>15 DEF Knows, ReadInv

\* Registering changes nothing a thread knows about its reads.
LEMMA KnowsRegister ==
  ASSUME IInv, NEW t \in Threads, Register(t), LogGrows
  PROVE  Knows(t)'
<1>1. pc[t] = "register" /\ path[t] \in {"rebind", "build"}
      BY Facts, StepPath DEF Register
<1>2. /\ TypeOK /\ ReadInv(t) /\ AdvanceInv(t) /\ CallInv(t)
      /\ Base(t) # 0 => Base(t) \in 1..Len(log)
      BY <1>1, Facts
<1>3. /\ UNCHANGED <<cellVars, decoVars, bound, start>>
      /\ UNCHANGED <<path, seen, av, ver, got, meta, unread, binding>>
      /\ pc'[t] = "publish"
      BY <1>2 DEF Register, Goto, TypeOK, LocalTypeOK
<1>4. Base(t)' = Base(t) /\ (Base(t) # 0 => log'[Base(t)] = log[Base(t)])
      BY <1>2, <1>3 DEF Base, LogGrows
<1>5. AdapterVersionInv(t)'
      BY <1>1, <1>2, <1>3, <1>4 DEF ReadInv, AdapterVersionInv, HasAdapterVersion, cellVars
<1>6. VersionInv(t)'
  <2>1. \A d \in Decos : HasVersion(t, d)
        BY <1>1 DEF HasVersion
  <2> QED BY <1>2, <1>3, <1>4, <2>1 DEF ReadInv, VersionInv, decoVars
<1>7. AdapterInv(t)'
      BY <1>1, <1>2, <1>3, <1>4 DEF ReadInv, AdapterInv, HasAdapter, AdapterRead, cellVars
<1>8. SlotInv(t)'
  <2>1. \A s \in Slots : HasSlot(t, s)' => HasSlot(t, s)
        BY <1>1, <1>3 DEF HasSlot
  <2> QED BY <1>2, <1>3, <1>4, <2>1 DEF ReadInv, SlotInv, SlotRead, decoVars
<1>9. AdvanceInv(t)'
      BY <1>3 DEF AdvanceInv
<1>10. CallInv(t)'
      BY <1>1, <1>2, <1>3 DEF CallInv, cellVars, decoVars
<1> QED BY <1>5, <1>6, <1>7, <1>8, <1>9, <1>10 DEF Knows, ReadInv

\* What is published and returned is what was registered.
LEMMA KnowsPublish ==
  ASSUME IInv, NEW t \in Threads, Publish(t), bound'.handle = bound.handle + 1
  PROVE  Knows(t)'
<1>1. pc[t] = "publish" /\ path[t] \in {"rebind", "build"}
      BY Facts, StepPath DEF Publish
<1>2. /\ TypeOK /\ ReadInv(t) /\ CallInv(t) /\ ControlInv /\ LogInv
      /\ bound.handle \in Nat /\ Len(log) \in Nat
      BY Facts
<1>3. UNCHANGED <<cellVars, decoVars, log, start>> /\ Return(t, NewBound(t))
      BY DEF Publish
<1>4. /\ handle[t] = Len(log) /\ Len(log) = bound.handle + 1
      /\ log[Len(log)] = [adapter |-> got[t], av |-> av[t], ver |-> ver[t], meta |-> meta[t]]
      BY <1>1, <1>2 DEF LogInv
<1>5. NewBound(t).handle = Len(log) /\ NewBound(t).adapter = got[t]
      BY <1>4 DEF NewBound
<1>6. start[t].handle <= bound.handle /\ start[t] \in Starts
      BY <1>2 DEF CallInv, TypeOK, LocalTypeOK
<1>7. HasAdapter(t) /\ \A s \in Slots : HasSlot(t, s)
      BY <1>1, <1>2 DEF HasAdapter, HasSlot, ControlInv
<1>8. AtLeast(log[Len(log)], start[t])
  <2>1. start[t].adapter <= got[t] /\ \A s \in Slots : start[t].done[s] <= meta[t][s]
        BY <1>2, <1>7 DEF ReadInv, AdapterInv, SlotInv
  <2>2. /\ start[t].adapter \in Nat /\ got[t] \in Nat
        /\ \A s \in Slots : start[t].done[s] \in Nat /\ meta[t][s] \in Nat
        BY <1>2, <1>6 DEF Starts, TypeOK, LocalTypeOK
  <2> QED BY <1>4, <2>1, <2>2 DEF AtLeast
<1>9. start[t].handle <= Len(log) /\ Len(log) \in 1..Len(log)
      BY <1>2, <1>4, <1>6 DEF Starts
<1>10. bound.handle <= bound'.handle /\ bound'.handle \in Nat
      BY <1>2
<1>11. NewBound(t).handle \in 1..Len(log)
       /\ NewBound(t).adapter = log[NewBound(t).handle].adapter
       /\ start[t].handle <= NewBound(t).handle
       /\ AtLeast(log[NewBound(t).handle], start[t])
      BY <1>4, <1>5, <1>8, <1>9
<1>12. CallInv(t)'
      BY <1>2, <1>3, <1>10, <1>11, CallReturns
<1>13. path'[t] = "none"
      BY <1>2, <1>3 DEF Return, Set, TypeOK, LocalTypeOK
<1> QED BY <1>12, <1>13, Resting DEF Knows

\* After its call a thread relies on nothing.
LEMMA KnowsFinish ==
  ASSUME IInv, NEW t \in Threads, Finish(t)
  PROVE  Knows(t)'
<1>1. pc[t] = "ready" /\ path[t] = "none"
      BY Facts, StepPath DEF Finish
<1>2. TypeOK /\ bound.handle \in Nat
      BY Facts
<1>3. /\ UNCHANGED <<cellVars, decoVars, log, bound, path>>
      /\ pc'[t] = "idle" /\ binding'[t] = NoBinding /\ start'[t] = NoStart
      BY <1>2 DEF Finish, Goto, Set, coreVars, TypeOK, LocalTypeOK
<1>4. cellDone \in Nat /\ decoDone \in [Slots -> Nat]
      BY <1>2, MaxSwapsAssumption DEF TypeOK, CellTypeOK, DecoTypeOK
<1>5. CallInv(t)'
      BY <1>1, <1>2, <1>3, <1>4 DEF CallInv, NoStart, NoMeta, cellVars, decoVars
<1> QED BY <1>1, <1>3, <1>5, Resting DEF Knows

\* When a use begins it relies on what is complete and published now.
LEMMA KnowsUse ==
  ASSUME IInv, NEW t \in Threads, Use(t)
  PROVE  Knows(t)'
<1>1. pc[t] = "idle" /\ made
      BY DEF Use
<1>2. TypeOK /\ CallInv(t) /\ IsBound(bound) /\ bound.handle \in Nat
      BY Facts
<1>3. /\ UNCHANGED <<cellVars, decoVars, log, bound, binding>>
      /\ path'[t] = "bind" /\ start'[t] = Now /\ seen'[t] = bound
      /\ pc'[t] = IF bound = NoBound THEN "lock" ELSE "adapter_version"
      BY <1>2 DEF Use, Goto, Set, coreVars, TypeOK, LocalTypeOK
<1>4. cellDone \in Nat /\ decoDone \in [Slots -> Nat]
      BY <1>2, MaxSwapsAssumption DEF TypeOK, CellTypeOK, DecoTypeOK
<1>5. /\ Now.adapter = cellDone /\ Now.done = decoDone /\ Now.handle = bound.handle
      BY DEF Now
<1>6. binding[t] = NoBinding
      BY <1>1, <1>2 DEF CallInv
<1>7. /\ start'[t].adapter <= cellDone' /\ start'[t].handle <= bound'.handle
      /\ \A s \in Slots : start'[t].done[s] <= decoDone'[s]
      BY <1>2, <1>3, <1>4, <1>5 DEF cellVars, decoVars
<1>8. pc'[t] # "lock" => /\ IsBound(seen[t])' /\ seen'[t].handle # 0
                         /\ start'[t].handle <= seen'[t].handle
                         /\ seen'[t].handle <= bound'.handle
      BY <1>2, <1>3, <1>5 DEF IsBound
<1>9. CallInv(t)'
      BY <1>3, <1>6, <1>7, <1>8 DEF CallInv
<1> QED BY <1>3, <1>9, Resting DEF Knows

\* When build begins nothing has been registered.
LEMMA KnowsBeginBuild ==
  ASSUME IInv, NEW t \in Threads, BeginBuild(t)
  PROVE  Knows(t)'
<1>1. pc[t] = "idle"
      BY DEF BeginBuild
<1>2. TypeOK /\ CallInv(t) /\ bound.handle \in Nat
      BY Facts
<1>3. /\ UNCHANGED <<cellVars, decoVars, log, bound, binding>>
      /\ path'[t] = "build" /\ start'[t] = Now /\ pc'[t] = "self_version"
      BY <1>2 DEF BeginBuild, Goto, Set, coreVars, TypeOK, LocalTypeOK
<1>4. cellDone \in Nat /\ decoDone \in [Slots -> Nat]
      BY <1>2, MaxSwapsAssumption DEF TypeOK, CellTypeOK, DecoTypeOK
<1>5. /\ Now.adapter = cellDone /\ Now.done = decoDone /\ Now.handle = bound.handle
      BY DEF Now
<1>6. /\ start'[t].adapter <= cellDone' /\ start'[t].handle <= bound'.handle
      /\ \A s \in Slots : start'[t].done[s] <= decoDone'[s]
      BY <1>2, <1>3, <1>4, <1>5 DEF cellVars, decoVars
<1>7. CallInv(t)'
      BY <1>1, <1>2, <1>3, <1>6 DEF CallInv
<1>8. ~HasAdapterVersion(t)' /\ ~HasAdapter(t)'
      BY <1>3 DEF HasAdapterVersion, HasAdapter
<1>9. \A d \in Decos : ~HasVersion(t, d)'
      BY <1>3 DEF HasVersion
<1>10. \A s \in Slots : ~HasSlot(t, s)'
      BY <1>3 DEF HasSlot
<1>11. AdvanceInv(t)'
      BY <1>3 DEF AdvanceInv
<1> QED BY <1>7, <1>8, <1>9, <1>10, <1>11
        DEF Knows, ReadInv, AdapterVersionInv, VersionInv, AdapterInv, SlotInv

----------------------------------------------------------------------------
(* Every step keeps the invariant.                                         *)

\* A step of one thread leaves the locals of the others alone.
LEMMA OnlyOwnLocals ==
  ASSUME TypeOK, NEW t \in Threads, BeginBuild(t) \/ Use(t) \/ Continue(t),
         NEW u \in Threads, u # t
  PROVE  LocalsKept(u)
<1> USE DEF TypeOK, LocalTypeOK, LocalsKept, Goto, Set
<1>1. CASE BeginBuild(t)
      BY <1>1 DEF BeginBuild
<1>2. CASE Use(t)
      BY <1>2 DEF Use
<1>3. CASE ReadAdapterVersion(t) \/ ReadSelfVersion(t) \/ ReadParentVersion(t)
      BY <1>3 DEF ReadAdapterVersion, ReadSelfVersion, ReadParentVersion
<1>4. CASE Compare(t)
  <2>1. Forget(t) /\ UNCHANGED start
        BY <1>4 DEF Compare
  <2>2. path'[u] = path[u] /\ pc'[u] = pc[u] /\ binding'[u] = binding[u]
        BY <1>4 DEF Compare, Return
  <2> QED BY <2>1, <2>2 DEF Forget
<1>5. CASE Lock(t)
      BY <1>5 DEF Lock
<1>6. CASE Recheck(t)
  <2>1. path'[u] = path[u] /\ pc'[u] = pc[u] /\ binding'[u] = binding[u] /\ UNCHANGED start
        BY <1>6 DEF Recheck, Return
  <2>2. Forget(t) \/ UNCHANGED <<seen, av, ver, got, meta, unread, handle>>
        BY <1>6 DEF Recheck
  <2> QED BY <2>1, <2>2 DEF Forget
<1>7. CASE ReadAdapter(t)
      BY <1>7 DEF ReadAdapter
<1>8. CASE Decorate(t)
  <2>1. PICK s \in unread[t] :
          /\ meta' = [meta EXCEPT ![t][s] = config[s]]
          /\ unread' = [unread EXCEPT ![t] = @ \ {s}]
        BY <1>8 DEF Decorate
  <2>2. meta'[u] = meta[u] /\ unread'[u] = unread[u]
        BY <2>1
  <2>3. pc'[u] = pc[u]
        BY <1>8 DEF Decorate
  <2> QED BY <1>8, <2>2, <2>3 DEF Decorate
<1>9. CASE Register(t)
      BY <1>9 DEF Register
<1>10. CASE Publish(t)
  <2>1. Forget(t) /\ Return(t, NewBound(t)) /\ UNCHANGED start
        BY <1>10 DEF Publish
  <2> QED BY <2>1 DEF Forget, Return
<1>11. CASE Finish(t)
      BY <1>11 DEF Finish
<1> QED BY <1>1, <1>2, <1>3, <1>4, <1>5, <1>6, <1>7, <1>8, <1>9, <1>10, <1>11 DEF Continue

\* Only Register and Publish touch the log and the published Bound.
LEMMA LogStep ==
  ASSUME IInv, TypeOK', ControlInv', SourcesGrow, NEW t \in Threads,
         BeginBuild(t) \/ Use(t) \/ Continue(t)
  PROVE  /\ LogInv' /\ LogGrows
         /\ bound.handle <= bound'.handle
         /\ bound' = bound \/ (Publish(t) /\ bound'.handle = bound.handle + 1)
<1>1. TypeOK /\ ControlInv /\ LogInv /\ bound.handle \in Nat /\ Len(log) \in Nat
      BY Facts
<1>2. CASE Register(t)
  <2>1. bound' = bound
        BY <1>2 DEF Register
  <2> QED BY <1>1, <1>2, <2>1, LogStepRegister
<1>3. CASE Publish(t)
      BY <1>1, <1>3, LogStepPublish
<1>4. CASE ~Register(t) /\ ~Publish(t)
  <2>1. /\ UNCHANGED <<log, bound, made>> /\ pc[t] # "publish"
        BY <1>4 DEF BeginBuild, Use, Continue, ReadAdapterVersion, ReadSelfVersion,
           ReadParentVersion, Compare, Lock, Recheck, ReadAdapter, Decorate, Finish, coreVars
  <2>2. pc'[t] # "publish"
    <3>1. ASSUME Decorate(t) PROVE pc'[t] # "publish"
      <4>1. pc[t] = "decorate" /\ path[t] \in {"rebind", "build"}
            BY <1>1, <3>1, StepPath DEF Decorate
      <4>2. PICK s \in unread[t] :
              Goto(t, CASE unread[t] # {s} -> "decorate"
                        [] unread[t] = {s} /\ path[t] = "build" -> "adapter_version"
                        [] unread[t] = {s} /\ path[t] # "build" -> "register")
            BY <3>1 DEF Decorate
      <4> QED BY <1>1, <4>1, <4>2 DEF Goto, TypeOK, LocalTypeOK
    <3>2. ASSUME Compare(t) \/ Recheck(t) PROVE pc'[t] # "publish"
          BY <1>1, <3>2 DEF Compare, Recheck, Return, Goto, TypeOK, LocalTypeOK
    <3>3. ASSUME ReadAdapterVersion(t) \/ ReadAdapter(t) \/ Lock(t) \/ Finish(t)
                   \/ BeginBuild(t) \/ Use(t)
          PROVE  pc'[t] # "publish"
          BY <1>1, <3>3 DEF ReadAdapterVersion, ReadAdapter, Lock, Finish, BeginBuild, Use,
             Goto, TypeOK, LocalTypeOK
    <3>4. ASSUME ReadSelfVersion(t) \/ ReadParentVersion(t) PROVE pc'[t] # "publish"
      <4>1. AfterVersion(t) # "publish"
            BY DEF AfterVersion
      <4> QED BY <1>1, <3>4, <4>1 DEF ReadSelfVersion, ReadParentVersion, Goto, TypeOK,
                 LocalTypeOK
    <3> QED BY <1>4, <3>1, <3>2, <3>3, <3>4 DEF Continue
  <2>3. \A u \in Threads : u # t => LocalsKept(u)
        BY <1>1, OnlyOwnLocals
  <2>4. LogInv'
        BY <1>1, <2>1, <2>2, <2>3, LogFrame DEF LocalsKept
  <2>5. LogGrows
        BY <1>1, <2>1 DEF LogGrows
  <2> QED BY <1>1, <2>1, <2>4, <2>5
<1> QED BY <1>2, <1>3, <1>4

\* Every step of a thread keeps that thread's knowledge.
LEMMA KnowsStep ==
  ASSUME IInv, LogGrows, NEW t \in Threads, BeginBuild(t) \/ Use(t) \/ Continue(t),
         Publish(t) => bound'.handle = bound.handle + 1
  PROVE  Knows(t)'
BY KnowsReadAdapterVersion, KnowsReadSelfVersion, KnowsReadParentVersion, KnowsCompare,
   KnowsLock, KnowsRecheck, KnowsReadAdapter, KnowsDecorate, KnowsRegister, KnowsPublish,
   KnowsFinish, KnowsUse, KnowsBeginBuild DEF Continue

\* The inductive invariant holds initially.
LEMMA InvInit == Init => IInv
<1> SUFFICES ASSUME Init PROVE IInv
    OBVIOUS
<1>1. TypeOK
      BY TypeInit
<1>2. ControlInv
      BY KindAssumption DEF Init, ControlInv, Writes
<1>3. StoreInv
      BY DEF Init, CellInit, DecoInit, StoreInv, Slots
<1>4. LogInv
  <2>5. log = <<>> /\ bound = NoBound /\ made = (Kind # "registry")
        BY DEF Init
  <2>6. Len(log) = 0 /\ 1..Len(log) = {}
        BY <2>5
  <2>7. bound.handle = 0
        BY <2>5 DEF NoBound
  <2>8. made <=> Kind # "registry"
        BY <2>5, Zenon
  <2>1. /\ Len(log) = 0 /\ 1..Len(log) = {} /\ bound = NoBound /\ bound.handle = 0
        /\ made <=> Kind # "registry"
        BY <2>5, <2>6, <2>7, <2>8
  <2>2. \A t \in Threads : pc[t] # "publish"
        BY DEF Init
  <2>3. RegistrationsAdvance
        BY <2>1 DEF RegistrationsAdvance
  <2>4. IsBound(bound)
        BY <2>1 DEF IsBound
  <2> QED BY <2>1, <2>2, <2>3, <2>4 DEF LogInv
<1>5. ASSUME NEW t \in Threads PROVE ReadInv(t) /\ AdvanceInv(t) /\ CallInv(t)
  <2>1. pc[t] = "idle" /\ path[t] = "none" /\ start[t] = NoStart /\ binding[t] = NoBinding
        BY DEF Init
  <2>2. ~HasAdapterVersion(t) /\ ~HasAdapter(t)
        BY <2>1 DEF HasAdapterVersion, HasAdapter
  <2>3. (\A d \in Decos : ~HasVersion(t, d)) /\ (\A s \in Slots : ~HasSlot(t, s))
        BY <2>1 DEF HasVersion, HasSlot
  <2>4. AdvanceInv(t)
        BY <2>1 DEF AdvanceInv
  <2>5. CallInv(t)
        BY <2>1 DEF Init, CellInit, DecoInit, NoBound, NoStart, NoMeta, CallInv
  <2> QED BY <2>2, <2>3, <2>4, <2>5
          DEF ReadInv, AdapterVersionInv, VersionInv, AdapterInv, SlotInv
<1> QED BY <1>1, <1>2, <1>3, <1>4, <1>5 DEF IInv

\* Every step keeps the inductive invariant.
LEMMA InvStep == IInv /\ [Next]_vars => IInv'
<1> SUFFICES ASSUME IInv, [Next]_vars PROVE IInv'
    OBVIOUS
<1>1. TypeOK /\ ControlInv /\ StoreInv /\ LogInv /\ IsBound(bound)
      /\ bound.handle \in Nat /\ Len(log) \in Nat
      BY DEF IInv, LogInv, TypeOK, CoreTypeOK, Bounds
<1>2. TypeOK' /\ ControlInv' /\ SourcesGrow /\ StoreInv'
      BY <1>1, TypeStep, ControlStep, SourcesStep
<1>3. CASE UNCHANGED <<coreVars, localVars>>
  <2>1. /\ UNCHANGED <<log, bound, made>> /\ \A u \in Threads : LocalsKept(u)
        BY <1>3 DEF coreVars, localVars, LocalsKept
  <2>2. LogGrows /\ bound.handle <= bound'.handle
        BY <1>1, <2>1 DEF LogGrows
  <2>3. LogInv'
        BY <1>1, <1>2, <2>1, LogFrame DEF LocalsKept
  <2>4. ASSUME NEW u \in Threads PROVE (ReadInv(u) /\ AdvanceInv(u) /\ CallInv(u))'
        BY <1>1, <1>2, <2>1, <2>2, Facts, Frame
  <2> QED BY <1>2, <2>3, <2>4 DEF IInv
<1>4. ASSUME NEW t \in Threads, BeginBuild(t) \/ Use(t) \/ Continue(t) PROVE IInv'
  <2>1. /\ LogInv' /\ LogGrows /\ bound.handle <= bound'.handle
        /\ bound' = bound \/ (Publish(t) /\ bound'.handle = bound.handle + 1)
        BY <1>2, <1>4, LogStep
  <2>2. Publish(t) => bound'.handle = bound.handle + 1
        BY <1>2, LogStepPublish
  <2>3. Knows(t)'
        BY <1>4, <2>1, <2>2, KnowsStep
  <2>4. ASSUME NEW u \in Threads, u # t
        PROVE  (ReadInv(u) /\ AdvanceInv(u) /\ CallInv(u))'
    <3>1. LocalsKept(u)
          BY <1>1, <1>4, <2>4, OnlyOwnLocals
    <3>2. bound' = bound \/ ~Writes(u)
      <4>1. Publish(t) => Writes(t)
            BY <1>1, StepPath DEF Publish, Writes
      <4> QED BY <1>1, <2>1, <2>4, <4>1 DEF ControlInv
    <3>3. ReadInv(u) /\ AdvanceInv(u) /\ CallInv(u)
          BY Facts
    <3> QED BY <1>1, <1>2, <2>1, <3>1, <3>2, <3>3, Frame
  <2> QED BY <1>2, <2>1, <2>3, <2>4 DEF IInv, Knows
<1> QED BY <1>3, <1>4 DEF Next, SetAdapter, Redecorate, vars, coreVars, localVars

----------------------------------------------------------------------------
(* The theorems.                                                           *)

\* Every variable keeps its type.
THEOREM TypeCorrect == Spec => []TypeOK
BY TypeInit, TypeStep, PTL DEF Spec

\* The inductive invariant holds of every reachable state.
THEOREM Invariance == Spec => []IInv
BY InvInit, InvStep, PTL DEF Spec

\* A use that begins after a reconfiguration has returned operates on a
\* registration at least as new, whatever set_adapter, the setters and the
\* other users of the metric do meanwhile.
THEOREM Freshness == Spec => []BindingIsFresh
<1>1. IInv => BindingIsFresh
      BY DEF IInv, CallInv, BindingIsFresh
<1> QED BY <1>1, Invariance, PTL

\* No rebind pairs an adapter with a handle another adapter returned.
THEOREM HandleAndAdapter == Spec => []HandleBelongsToAdapter
<1>1. IInv => HandleBelongsToAdapter
  <2> SUFFICES ASSUME IInv PROVE HandleBelongsToAdapter
      OBVIOUS
  <2>1. bound.handle # 0 => bound.adapter = log[bound.handle].adapter
        BY DEF IInv, LogInv, IsBound
  <2>2. ASSUME NEW t \in Threads, binding[t].handle # 0
        PROVE  binding[t].adapter = log[binding[t].handle].adapter
    <3>1. pc[t] = "ready"
          BY <2>2 DEF IInv, CallInv, NoBinding
    <3> QED BY <3>1 DEF IInv, CallInv
  <2> QED BY <2>1, <2>2 DEF HandleBelongsToAdapter
<1> QED BY <1>1, Invariance, PTL

\* Concurrent users register at most once per version, and registrations
\* never go back to an older adapter or decoration.
THEOREM OncePerVersion == Spec => []RegistrationsAdvance
<1>1. IInv => RegistrationsAdvance
      BY DEF IInv, LogInv
<1> QED BY <1>1, Invariance, PTL

\* A call is never given a registration older than the one published when it
\* began.
THEOREM NeverBack == Spec => []BindingNeverGoesBack
<1>1. IInv => BindingNeverGoesBack
  <2> SUFFICES ASSUME IInv, NEW t \in Threads, pc[t] = "ready"
               PROVE  binding[t].handle >= start[t].handle
      BY DEF BindingNeverGoesBack
  <2>1. start[t].handle <= binding[t].handle
        BY DEF IInv, CallInv
  <2>2. binding[t].handle \in Nat /\ start[t].handle \in Nat
        BY DEF IInv, TypeOK, LocalTypeOK, Bindings, Starts
  <2> QED BY <2>1, <2>2
<1> QED BY <1>1, Invariance, PTL
=============================================================================
