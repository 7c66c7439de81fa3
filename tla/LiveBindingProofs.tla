------------------------- MODULE LiveBindingProofs -------------------------
(***************************************************************************)
(* MetricCore implements LiveBinding: the versions, the locks and the      *)
(* caching keep the promise of live reconfiguration, for all threads,      *)
(* fields, kinds of metric and bounds.                                     *)
(***************************************************************************)
EXTENDS MetricCoreProofs

\* The state of LiveBinding.
Current == View(cellAdapter, config)
Completed == View(cellDone, decoDone)
PublishedView == Registered(bound.handle)
Phases == [t \in Threads |-> Phase(t)]
Floors == [t \in Threads |-> Floor(t)]
Served == [t \in Threads |-> Registered(binding[t].handle)]

----------------------------------------------------------------------------
(* Views.                                                                  *)

\* The cell's adapter is a source of its own.
LEMMA SourceFacts ==
  /\ \A s \in Slots : s # <<"cell", "adapter">>
  /\ \A a, m : View(a, m)[<<"cell", "adapter">>] = a
  /\ \A a, m : \A s \in Slots : View(a, m)[s] = m[s]
<1>1. \A s \in Slots : s # <<"cell", "adapter">>
  BY DEF Slots, Decos
<1> QED BY <1>1 DEF View, Sources

\* A view is no older than another if its values are not.
LEMMA ViewOrder ==
  ASSUME NEW a, NEW m, NEW b, NEW n, a >= b, \A s \in Slots : m[s] >= n[s]
  PROVE  Live!NotOlder(View(a, m), View(b, n))
BY SourceFacts DEF Live!NotOlder, Sources

\* The handles that anybody has are those of registrations, or none.
LEMMA HandleFacts ==
  ASSUME IInv
  PROVE  /\ Len(log) \in Nat
         /\ bound.handle \in 0..Len(log)
         /\ \A t \in Threads : /\ start[t].handle \in 0..Len(log)
                               /\ start[t].handle <= bound.handle
                               /\ binding[t].handle \in 0..Len(log)
<1>1. Len(log) \in Nat /\ bound.handle \in Nat
  BY DEF IInv, TypeOK, CoreTypeOK, Bounds
<1>2. bound.handle \in 0..Len(log)
  BY <1>1 DEF IInv, LogInv, IsBound
<1>3. ASSUME NEW t \in Threads
      PROVE  /\ start[t].handle \in 0..Len(log)
             /\ start[t].handle <= bound.handle
             /\ binding[t].handle \in 0..Len(log)
  <2>1. start[t].handle \in Nat /\ start[t].handle <= bound.handle
    BY DEF IInv, TypeOK, LocalTypeOK, Starts, CallInv
  <2>2. binding[t].handle = 0 \/ binding[t].handle \in 1..Len(log)
    BY DEF IInv, CallInv, NoBinding
  <2> QED BY <1>1, <1>2, <2>1, <2>2
<1> QED BY <1>1, <1>2, <1>3

\* What was registered stays registered.
LEMMA RegisteredKept ==
  ASSUME IInv, LogGrows, NEW h \in 0..Len(log)
  PROVE  /\ h = 0 => View(0, NoMeta) = Registered(h)
         /\ h # 0 => View(log'[h].adapter, log'[h].meta) = Registered(h)
<1>1. h # 0 => h \in 1..Len(log)
  BY DEF LogGrows
<1> QED BY <1>1 DEF LogGrows, Registered

\* A later registration is no older.
LEMMA RegisteredOrder ==
  ASSUME IInv, NEW h \in 0..Len(log), NEW k \in 0..Len(log), h <= k
  PROVE  Live!NotOlder(Registered(k), Registered(h))
<1>1. \A i \in 1..Len(log) : log[i] \in Registrations
  BY DEF IInv, TypeOK, CoreTypeOK
<1>2. \A i \in 1..Len(log) : log[i].adapter \in Nat /\ \A s \in Slots : log[i].meta[s] \in Nat
  BY <1>1 DEF Registrations
<1>3. \A s \in Slots : NoMeta[s] = 0
  BY DEF NoMeta
<1>4. CASE h = k
  <2>1. CASE h = 0
    BY <1>3, <1>4, <2>1, ViewOrder DEF Registered
  <2>2. CASE h # 0
    BY <1>2, <1>4, <2>2, ViewOrder, HandleFacts DEF Registered
  <2> QED BY <2>1, <2>2
<1>5. CASE h # k /\ h = 0
  BY <1>2, <1>3, <1>5, ViewOrder, HandleFacts DEF Registered
<1>6. CASE h # k /\ h # 0
  <2>1. h \in 1..Len(log) /\ k \in 1..Len(log) /\ h < k
    BY <1>6, HandleFacts
  <2>2. Newer(log[k], log[h])
    BY <2>1 DEF IInv, LogInv, RegistrationsAdvance
  <2> QED BY <2>1, <2>2, ViewOrder DEF Newer, Registered
<1> QED BY <1>4, <1>5, <1>6

----------------------------------------------------------------------------
(* What a step does to the views.                                          *)

\* A published handle is one more registration, kept by every later step.
LEMMA PublishedAt ==
  ASSUME IInv, LogGrows, NEW h \in 0..Len(log), bound'.handle = h
  PROVE  PublishedView' = Registered(h)
<1>1. CASE h = 0
  BY <1>1 DEF PublishedView, Registered, View, Sources, Slots, Decos, NoMeta
<1>2. CASE h # 0
  <2>1. PublishedView' = View(log'[h].adapter, log'[h].meta)
    BY <1>2 DEF PublishedView, Registered, View, Sources, Slots, Decos
  <2> QED BY <1>2, <2>1, RegisteredKept
<1> QED BY <1>1, <1>2

\* So is the handle a caller operates on.
LEMMA ServedAt ==
  ASSUME IInv, LogGrows, NEW t \in Threads, NEW h \in 0..Len(log), binding'[t].handle = h
  PROVE  Registered(binding[t].handle)' = Registered(h)
<1>1. CASE h = 0
  BY <1>1 DEF Registered, View, Sources, Slots, Decos, NoMeta
<1>2. CASE h # 0
  <2>1. Registered(binding[t].handle)' = View(log'[h].adapter, log'[h].meta)
    BY <1>2 DEF Registered, View, Sources, Slots, Decos
  <2> QED BY <1>2, <2>1, RegisteredKept
<1> QED BY <1>1, <1>2

\* And the one its call began with.
LEMMA StartedAt ==
  ASSUME IInv, LogGrows, NEW t \in Threads, NEW h \in 0..Len(log), start'[t].handle = h
  PROVE  Registered(start[t].handle)' = Registered(h)
<1>1. CASE h = 0
  BY <1>1 DEF Registered, View, Sources, Slots, Decos, NoMeta
<1>2. CASE h # 0
  <2>1. Registered(start[t].handle)' = View(log'[h].adapter, log'[h].meta)
    BY <1>2 DEF Registered, View, Sources, Slots, Decos
  <2> QED BY <1>2, <2>1, RegisteredKept
<1> QED BY <1>1, <1>2

\* A call under way keeps its floor.
LEMMA FloorKept ==
  ASSUME IInv, LogGrows, NEW t \in Threads, start'[t] = start[t],
         pc'[t] = "idle" <=> pc[t] = "idle"
  PROVE  Floor(t)' = Floor(t)
<1>1. start[t].handle \in 0..Len(log)
  BY HandleFacts
<1>2. Registered(start[t].handle)' = Registered(start[t].handle)
  BY <1>1, StartedAt
<1>3. View(start[t].adapter, start[t].done)' = View(start[t].adapter, start[t].done)
  BY DEF View, Sources, Slots, Decos
<1>4. View(0, NoMeta)' = View(0, NoMeta)
  BY DEF View, Sources, Slots, Decos, NoMeta
<1> QED BY <1>2, <1>3, <1>4 DEF Floor, Newest, Sources, Slots, Decos

\* A thread that does not move is in the same phase, floor and view.
LEMMA OtherThread ==
  ASSUME IInv, LogGrows, NEW u \in Threads, LocalsKept(u)
  PROVE  /\ Phase(u)' = Phase(u)
         /\ Floor(u)' = Floor(u)
         /\ Registered(binding[u].handle)' = Registered(binding[u].handle)
<1>1. binding[u].handle \in 0..Len(log)
  BY HandleFacts
<1>2. Phase(u)' = Phase(u)
  BY DEF Phase, LocalsKept
<1>3. Floor(u)' = Floor(u)
  BY FloorKept DEF LocalsKept
<1>4. Registered(binding[u].handle)' = Registered(binding[u].handle)
  BY <1>1, ServedAt DEF LocalsKept
<1> QED BY <1>2, <1>3, <1>4

\* Steps that store and bump nothing leave the sources alone.
LEMMA SourcesKept ==
  ASSUME UNCHANGED <<cellVars, decoVars>>
  PROVE  Current' = Current /\ Completed' = Completed
BY DEF cellVars, decoVars, Current, Completed, View, Sources, Slots, Decos

----------------------------------------------------------------------------
(* The steps of a call.                                                    *)

\* The steps that hand out a binding.
Answers(t) ==
  \/ Compare(t) /\ Matches(seen[t], t)
  \/ Recheck(t) /\ Published(t)
  \/ Publish(t)

\* Every other step between the first and the last of a call reads, waits or
\* registers: the binding, the floor and the phase of the call stay.
LEMMA InnerStep ==
  ASSUME IInv, NEW t \in Threads, Continue(t), ~Answers(t), ~Finish(t)
  PROVE  /\ pc[t] \notin {"idle", "ready"} /\ pc'[t] \notin {"idle", "ready"}
         /\ UNCHANGED <<cellVars, decoVars, bound, binding, start>>
<1> USE DEF Goto, TypeOK, LocalTypeOK, coreVars
<1>1. TypeOK
  BY DEF IInv
<1>2. CASE ReadAdapterVersion(t) \/ Lock(t) \/ ReadAdapter(t) \/ Register(t)
  BY <1>1, <1>2 DEF ReadAdapterVersion, Lock, ReadAdapter, Register
<1>3. CASE ReadSelfVersion(t) \/ ReadParentVersion(t)
  <2>1. AfterVersion(t) \in {"compare", "recheck", "decorate"}
    BY DEF AfterVersion
  <2> QED BY <1>1, <1>3, <2>1 DEF ReadSelfVersion, ReadParentVersion
<1>4. CASE Compare(t) \/ Recheck(t)
  BY <1>1, <1>4 DEF Compare, Recheck, Answers
<1>5. CASE Decorate(t)
  <2>1. PICK s \in unread[t] :
          Goto(t, CASE unread[t] # {s} -> "decorate"
                    [] unread[t] = {s} /\ path[t] = "build" -> "adapter_version"
                    [] unread[t] = {s} /\ path[t] # "build" -> "register")
    BY <1>5 DEF Decorate
  <2>2. pc'[t] \in {"decorate", "adapter_version", "register"}
    BY <1>1, <2>1
  <2> QED BY <1>5, <2>2 DEF Decorate
<1> QED BY <1>2, <1>3, <1>4, <1>5 DEF Continue, Answers

\* A step that keeps every thread's phase, floor and view, and the sources,
\* is a stutter of LiveBinding.
LEMMA Stutter ==
  ASSUME IInv, LogGrows, bound' = bound, UNCHANGED <<cellVars, decoVars>>,
         \A u \in Threads : /\ Phase(u)' = Phase(u)
                            /\ Floor(u)' = Floor(u)
                            /\ Registered(binding[u].handle)' = Registered(binding[u].handle)
  PROVE  UNCHANGED Live!absVars
<1>1. Current' = Current /\ Completed' = Completed
  BY SourcesKept
<1>2. PublishedView' = PublishedView
  <2>1. bound.handle \in 0..Len(log) /\ bound'.handle = bound.handle
    BY HandleFacts
  <2> QED BY <2>1, PublishedAt DEF PublishedView
<1>3. Phases' = Phases /\ Floors' = Floors /\ Served' = Served
  BY DEF Phases, Floors, Served
<1> QED BY <1>1, <1>2, <1>3
        DEF Live!absVars, Current, Completed, PublishedView, Phases, Floors, Served

\* An inner step is a stutter.
LEMMA InnerIsStutter ==
  ASSUME IInv, LogGrows, NEW t \in Threads, Continue(t), ~Answers(t), ~Finish(t)
  PROVE  UNCHANGED Live!absVars
<1>1. /\ pc[t] \notin {"idle", "ready"} /\ pc'[t] \notin {"idle", "ready"}
      /\ UNCHANGED <<cellVars, decoVars, bound, binding, start>>
  BY InnerStep
<1>2. ASSUME NEW u \in Threads
      PROVE  /\ Phase(u)' = Phase(u)
             /\ Floor(u)' = Floor(u)
             /\ Registered(binding[u].handle)' = Registered(binding[u].handle)
  <2>1. CASE u # t
    BY <2>1, OnlyOwnLocals, OtherThread DEF IInv
  <2>2. CASE u = t
    <3>1. binding[t].handle \in 0..Len(log)
      BY HandleFacts
    <3> QED BY <1>1, <2>2, <3>1, FloorKept, ServedAt DEF Phase
  <2> QED BY <2>1, <2>2
<1> QED BY <1>1, <1>2, Stutter

\* The first step of a call: its floor is what is complete and published now.
LEMMA BeginIsBegin ==
  ASSUME IInv, LogGrows, NEW t \in Threads, BeginBuild(t) \/ Use(t)
  PROVE  Live!Begin(t)
<1>1. TypeOK /\ bound.handle \in 0..Len(log) /\ binding[t].handle \in 0..Len(log)
  BY HandleFacts DEF IInv
<1>2. /\ pc[t] = "idle" /\ pc'[t] \notin {"idle", "ready"} /\ start'[t] = Now
      /\ UNCHANGED <<cellVars, decoVars, bound, binding>>
  BY <1>1 DEF BeginBuild, Use, Goto, Set, coreVars, TypeOK, LocalTypeOK
<1>3. Current' = Current /\ Completed' = Completed
  BY <1>2, SourcesKept
<1>4. PublishedView' = PublishedView
  BY <1>1, <1>2, PublishedAt DEF PublishedView
<1>5. Phase(t) = "idle" /\ Phase(t)' = "running"
  BY <1>2 DEF Phase
<1>6. Floor(t)' = Live!NewestOf(Completed, PublishedView)
  <2>1. Registered(start[t].handle)' = PublishedView
    BY <1>1, <1>2, StartedAt DEF Now, PublishedView
  <2>2. View(start[t].adapter, start[t].done)' = Completed
    BY <1>2 DEF Now, View, Sources, Slots, Decos, Completed
  <2> QED BY <1>2, <2>1, <2>2
          DEF Floor, Newest, Larger, Live!NewestOf, Sources, Slots, Decos
<1>7. Registered(binding[t].handle)' = Registered(binding[t].handle)
  BY <1>1, <1>2, ServedAt
<1>8. ASSUME NEW u \in Threads, u # t
      PROVE  /\ Phase(u)' = Phase(u)
             /\ Floor(u)' = Floor(u)
             /\ Registered(binding[u].handle)' = Registered(binding[u].handle)
  BY <1>1, <1>8, OnlyOwnLocals, OtherThread
<1>9. Phases' = [Phases EXCEPT ![t] = "running"]
  BY <1>5, <1>8 DEF Phases
<1>10. Floors' = [Floors EXCEPT ![t] = Live!NewestOf(Completed, PublishedView)]
  BY <1>6, <1>8 DEF Floors
<1>11. Served' = Served
  BY <1>7, <1>8 DEF Served
<1>12. Phases[t] = "idle"
  BY <1>5 DEF Phases
<1> QED BY <1>3, <1>4, <1>9, <1>10, <1>11, <1>12
        DEF Live!Begin, Current, Completed, PublishedView, Phases, Floors, Served

\* What is no older than two views is no older than the newest of both.
LEMMA NewestOrder ==
  ASSUME NEW v, NEW w, NEW x, Live!NotOlder(x, v), Live!NotOlder(x, w)
  PROVE  Live!NotOlder(x, Newest(v, w))
BY DEF Live!NotOlder, Newest, Larger

\* Nothing registered is newer than the sources.
LEMMA NothingFromTheFuture ==
  ASSUME IInv, NEW h \in 1..Len(log)
  PROVE  Live!NotOlder(Current, Registered(h))
<1>1. /\ log[h] \in Registrations
      /\ AdapterRead(log[h].av, log[h].adapter)
      /\ \A s \in Slots : SlotRead(s, log[h].ver[s[1]], log[h].meta[s])
  BY DEF IInv, TypeOK, CoreTypeOK, LogInv
<1>2. cellAdapter \in Nat /\ config \in [Slots -> Nat]
  BY MaxSwapsAssumption DEF IInv, TypeOK, CellTypeOK, DecoTypeOK
<1>3. log[h].adapter \in Nat /\ log[h].meta \in [Slots -> Nat]
  BY <1>1 DEF Registrations
<1>4. cellAdapter >= log[h].adapter
  BY <1>1, <1>2, <1>3 DEF AdapterRead
<1>5. \A s \in Slots : config[s] >= log[h].meta[s]
  BY <1>1, <1>2, <1>3 DEF SlotRead
<1>6. h # 0
  BY HandleFacts
<1> QED BY <1>4, <1>5, <1>6, ViewOrder DEF Current, Registered

\* A step that answers serves a view at least as new as the call's floor, and
\* publishes that view or nothing.
LEMMA AnswerIsServe ==
  ASSUME IInv, IInv', LogGrows, NEW t \in Threads, Answers(t),
         bound' = bound \/ (Publish(t) /\ bound'.handle = bound.handle + 1)
  PROVE  Live!Serve(t)
<1>1. TypeOK
  BY DEF IInv
<1>2. /\ pc[t] \notin {"idle", "ready"} /\ pc'[t] = "ready" /\ start' = start
      /\ UNCHANGED <<cellVars, decoVars, log>>
  BY <1>1 DEF Answers, Compare, Recheck, Publish, Return, Goto, TypeOK, LocalTypeOK,
     coreVars
<1>3. Continue(t)
  BY DEF Answers, Continue
<1> DEFINE h == binding'[t].handle
<1>4. /\ h \in 1..Len(log) /\ h \in 0..Len(log) /\ start[t].handle <= h
      /\ AtLeast(log[h], start[t])
  <2>1. CallInv(t)'
    BY DEF IInv
  <2> QED BY <1>2, <2>1, HandleFacts DEF CallInv, AtLeast
<1>5. /\ start[t].handle \in 0..Len(log) /\ bound.handle \in 0..Len(log)
      /\ h # 0
  BY <1>4, HandleFacts
<1>6. Current' = Current /\ Completed' = Completed
  BY <1>2, SourcesKept
<1>7. Registered(binding[t].handle)' = Registered(h)
  BY <1>4, ServedAt
<1>8. Phase(t) = "running" /\ Phase(t)' = "served"
  BY <1>2 DEF Phase
<1>9. Floor(t)' = Floor(t)
  BY <1>2, FloorKept
<1>10. ASSUME NEW u \in Threads, u # t
       PROVE  /\ Phase(u)' = Phase(u)
              /\ Floor(u)' = Floor(u)
              /\ Registered(binding[u].handle)' = Registered(binding[u].handle)
  BY <1>1, <1>3, <1>10, OnlyOwnLocals, OtherThread
<1>11. Live!NotOlder(Registered(h), Floor(t))
  <2>1. Live!NotOlder(Registered(h), View(start[t].adapter, start[t].done))
    BY <1>4, <1>5, ViewOrder DEF AtLeast, Registered
  <2>2. Live!NotOlder(Registered(h), Registered(start[t].handle))
    BY <1>4, <1>5, RegisteredOrder
  <2> QED BY <1>2, <2>1, <2>2, NewestOrder DEF Floor
<1>12. Live!NotOlder(Current, Registered(h))
  BY <1>4, NothingFromTheFuture
<1>13. PublishedView' = PublishedView \/
       (PublishedView' = Registered(h) /\ Live!NotOlder(PublishedView', PublishedView))
  <2>1. CASE bound' = bound
    BY <1>5, <2>1, PublishedAt DEF PublishedView
  <2>2. CASE Publish(t) /\ bound'.handle = bound.handle + 1
    <3>1. bound'.handle = h
      BY <1>1, <2>2 DEF Publish, Return, Set, TypeOK, LocalTypeOK
    <3>2. bound.handle <= h
      BY <1>5, <2>2, <3>1, HandleFacts
    <3>3. PublishedView' = Registered(h)
      BY <1>4, <3>1, PublishedAt
    <3> QED BY <1>4, <1>5, <3>2, <3>3, RegisteredOrder DEF PublishedView
  <2> QED BY <2>1, <2>2
<1>14. Phases[t] = "running" /\ Phases' = [Phases EXCEPT ![t] = "served"]
  BY <1>8, <1>10 DEF Phases
<1>15. Floors' = Floors /\ Floors[t] = Floor(t)
  BY <1>9, <1>10 DEF Floors
<1>16. Served'[t] = Registered(h) /\ Served' = [Served EXCEPT ![t] = Served'[t]]
  BY <1>7, <1>10 DEF Served
<1>17. /\ Live!NotOlder(Served'[t], Floors[t]) /\ Live!NotOlder(Current, Served'[t])
       /\ PublishedView' = PublishedView
            \/ (PublishedView' = Served'[t] /\ Live!NotOlder(PublishedView', PublishedView))
  BY <1>11, <1>12, <1>13, <1>15, <1>16
<1> QED BY <1>6, <1>14, <1>15, <1>16, <1>17
        DEF Live!Serve, Current, Completed, PublishedView, Phases, Floors, Served

\* The last step of a call forgets its floor and its view.
LEMMA FinishIsFinish ==
  ASSUME IInv, LogGrows, NEW t \in Threads, Finish(t)
  PROVE  Live!Finish(t)
<1>1. TypeOK /\ bound.handle \in 0..Len(log) /\ 0 \in 0..Len(log)
  BY HandleFacts DEF IInv
<1>2. /\ pc[t] = "ready" /\ pc'[t] = "idle" /\ binding'[t] = NoBinding
      /\ UNCHANGED <<cellVars, decoVars, bound, log>>
  BY <1>1 DEF Finish, Goto, Set, coreVars, TypeOK, LocalTypeOK
<1>3. Current' = Current /\ Completed' = Completed
  BY <1>2, SourcesKept
<1>4. PublishedView' = PublishedView
  BY <1>1, <1>2, PublishedAt DEF PublishedView
<1>5. Phase(t) = "served" /\ Phase(t)' = "idle"
  BY <1>2 DEF Phase
<1>6. View(0, NoMeta) = Live!Nothing
  BY DEF View, Live!Nothing, NoMeta, Sources
<1>7. Floor(t)' = Live!Nothing
  <2>1. View(0, NoMeta)' = View(0, NoMeta)
    BY DEF View, Sources, Slots, Decos, NoMeta
  <2> QED BY <1>2, <1>6, <2>1 DEF Floor
<1>8. Registered(binding[t].handle)' = Live!Nothing
  <2>1. binding'[t].handle = 0
    BY <1>2 DEF NoBinding
  <2>2. Registered(binding[t].handle)' = Registered(0)
    BY <1>1, <2>1, ServedAt
  <2> QED BY <1>6, <2>2 DEF Registered
<1>9. ASSUME NEW u \in Threads, u # t
      PROVE  /\ Phase(u)' = Phase(u)
             /\ Floor(u)' = Floor(u)
             /\ Registered(binding[u].handle)' = Registered(binding[u].handle)
  BY <1>1, <1>9, OnlyOwnLocals, OtherThread DEF Continue
<1>10. Phases[t] = "served" /\ Phases' = [Phases EXCEPT ![t] = "idle"]
  BY <1>5, <1>9 DEF Phases
<1>11. Floors' = [Floors EXCEPT ![t] = Live!Nothing]
  BY <1>7, <1>9 DEF Floors
<1>12. Served' = [Served EXCEPT ![t] = Live!Nothing]
  BY <1>8, <1>9 DEF Served
<1> QED BY <1>3, <1>4, <1>10, <1>11, <1>12
        DEF Live!Finish, Current, Completed, PublishedView, Phases, Floors, Served

----------------------------------------------------------------------------
(* The steps of the threads that reconfigure, and all steps together.      *)

\* Reconfiguration leaves the calls and what is published alone.
LEMMA CallsKept ==
  ASSUME IInv, UNCHANGED <<coreVars, localVars>>
  PROVE  /\ PublishedView' = PublishedView
         /\ Phases' = Phases /\ Floors' = Floors /\ Served' = Served
<1>1. LogGrows /\ bound' = bound /\ \A u \in Threads : LocalsKept(u)
  BY HandleFacts DEF LogGrows, LocalsKept, coreVars, localVars
<1>2. PublishedView' = PublishedView
  BY <1>1, HandleFacts, PublishedAt DEF PublishedView
<1>3. \A u \in Threads : /\ Phase(u)' = Phase(u)
                         /\ Floor(u)' = Floor(u)
                         /\ Registered(binding[u].handle)' = Registered(binding[u].handle)
  BY <1>1, OtherThread
<1> QED BY <1>2, <1>3 DEF Phases, Floors, Served

\* A store changes a source, to something newer.
LEMMA StoreIsChange ==
  ASSUME IInv, UNCHANGED <<coreVars, localVars, cellDone, decoDone>>,
         cellAdapter' >= cellAdapter, \A s \in Slots : config'[s] >= config[s]
  PROVE  Live!Change
<1>1. Current' = View(cellAdapter', config')
  BY DEF Current, View, Sources, Slots, Decos
<1>2. Completed' = Completed
  BY DEF Completed, View, Sources, Slots, Decos
<1>3. Live!NotOlder(Current', Current)
  BY <1>1, ViewOrder DEF Current
<1> QED BY <1>2, <1>3, CallsKept
        DEF Live!Change, Current, Completed, PublishedView, Phases, Floors, Served

\* A bump completes changes that are in place.
LEMMA BumpIsComplete ==
  ASSUME IInv, SourcesGrow, TypeOK', StoreInv',
         UNCHANGED <<coreVars, localVars, cellAdapter, config>>
  PROVE  Live!Complete
<1>1. Completed' = View(cellDone', decoDone')
  BY DEF Completed, View, Sources, Slots, Decos
<1>2. Current' = Current
  BY DEF Current, View, Sources, Slots, Decos
<1>3. /\ cellDone \in Nat /\ cellDone' \in Nat /\ cellAdapter \in Nat
      /\ decoDone \in [Slots -> Nat] /\ decoDone' \in [Slots -> Nat]
      /\ config \in [Slots -> Nat]
  BY MaxSwapsAssumption DEF IInv, TypeOK, CellTypeOK, DecoTypeOK
<1>4. Live!NotOlder(Completed', Completed)
  <2>1. cellDone' >= cellDone /\ \A s \in Slots : decoDone'[s] >= decoDone[s]
    BY <1>3 DEF SourcesGrow
  <2> QED BY <1>1, <2>1, ViewOrder DEF Completed
<1>5. Live!NotOlder(Current, Completed')
  <2>1. cellAdapter >= cellDone' /\ \A s \in Slots : config[s] >= decoDone'[s]
    BY <1>3 DEF StoreInv
  <2> QED BY <1>1, <2>1, ViewOrder DEF Current
<1> QED BY <1>2, <1>4, <1>5, CallsKept
        DEF Live!Complete, Current, Completed, PublishedView, Phases, Floors, Served

\* At first no source has a value and no thread a call.
LEMMA LiveInit == Init => Live!AbsInit
<1> SUFFICES ASSUME Init PROVE Live!AbsInit
    OBVIOUS
<1>1. View(0, NoMeta) = Live!Nothing
  BY DEF View, Live!Nothing, NoMeta, Sources
<1>2. Current = Live!Nothing /\ Completed = Live!Nothing
  BY DEF Init, CellInit, DecoInit, Current, Completed, View, Live!Nothing, Sources
<1>3. PublishedView = Live!Nothing
  BY <1>1 DEF Init, NoBound, PublishedView, Registered
<1>4. \A t \in Threads : /\ Phase(t) = "idle" /\ Floor(t) = Live!Nothing
                         /\ Registered(binding[t].handle) = Live!Nothing
  BY <1>1 DEF Init, NoBinding, Phase, Floor, Registered
<1>5. /\ Phases = [t \in Threads |-> "idle"]
      /\ Floors = [t \in Threads |-> Live!Nothing]
      /\ Served = [t \in Threads |-> Live!Nothing]
  BY <1>4 DEF Phases, Floors, Served
<1> QED BY <1>2, <1>3, <1>5
        DEF Live!AbsInit, Current, Completed, PublishedView, Phases, Floors, Served

\* Every step is one of LiveBinding's, or a stutter of it.
LEMMA LiveStep == IInv /\ [Next]_vars => [Live!AbsNext]_(Live!absVars)
<1> SUFFICES ASSUME IInv, [Next]_vars PROVE [Live!AbsNext]_(Live!absVars)
    OBVIOUS
<1>1. IInv' /\ TypeOK' /\ ControlInv' /\ StoreInv' /\ TypeOK /\ StoreInv
  BY InvStep DEF IInv
<1>2. SourcesGrow
  BY <1>1, SourcesStep
<1>3. CASE UNCHANGED vars
  <2>1. /\ LogGrows /\ bound' = bound /\ UNCHANGED <<cellVars, decoVars>>
        /\ \A u \in Threads : LocalsKept(u)
    BY <1>3, HandleFacts DEF LogGrows, LocalsKept, vars
  <2> QED BY <2>1, OtherThread, Stutter
<1>4. CASE SetAdapter
  <2>1. UNCHANGED <<decoVars, coreVars, localVars>>
    BY <1>4 DEF SetAdapter
  <2>2. CASE StoreAdapter
    <3>1. /\ UNCHANGED <<cellDone, decoDone, config>>
          /\ cellAdapter \in Nat /\ cellAdapter' = cellAdapter + 1
          /\ \A s \in Slots : config[s] \in Nat
      BY <1>1, <2>1, <2>2, MaxSwapsAssumption
         DEF StoreAdapter, decoVars, TypeOK, CellTypeOK, DecoTypeOK
    <3>2. Live!Change
      BY <2>1, <3>1, StoreIsChange
    <3> QED BY <3>2 DEF Live!AbsNext
  <2>3. ASSUME NEW n \in cellPending, BumpCell(n) PROVE Live!Complete
    BY <1>1, <1>2, <2>1, <2>3, BumpIsComplete DEF BumpCell, decoVars
  <2> QED BY <1>4, <2>2, <2>3 DEF SetAdapter, CellNext, Live!AbsNext
<1>5. CASE Redecorate
  <2>1. UNCHANGED <<cellVars, coreVars, localVars>>
    BY <1>5 DEF Redecorate
  <2>2. ASSUME NEW d \in Decos, NEW fields \in SetterFields, StoreConfig(d, fields)
        PROVE  Live!Change
    <3>1. /\ UNCHANGED <<cellDone, decoDone, cellAdapter>> /\ cellAdapter \in Nat
          /\ config' = [s \in Slots |-> IF s \in {d} \X fields THEN writes[d] + 1
                                                               ELSE config[s]]
      BY <1>1, <2>1, <2>2, MaxSwapsAssumption DEF StoreConfig, cellVars, TypeOK, CellTypeOK
    <3>2. /\ \A s \in Slots : config[s] \in Nat /\ config[s] <= writes[s[1]]
          /\ writes[d] \in Nat
      BY <1>1 DEF TypeOK, DecoTypeOK, StoreInv
    <3>3. ASSUME NEW s \in Slots PROVE config'[s] >= config[s]
      <4>1. CASE s \in {d} \X fields
        <5>1. s[1] = d
          BY <4>1
        <5> QED BY <3>1, <3>2, <4>1, <5>1
      <4>2. CASE s \notin {d} \X fields
        BY <3>1, <3>2, <4>2
      <4> QED BY <4>1, <4>2
    <3> QED BY <2>1, <3>1, <3>3, StoreIsChange
  <2>3. ASSUME NEW w \in decoPending, BumpDeco(w) PROVE Live!Complete
    BY <1>1, <1>2, <2>1, <2>3, BumpIsComplete DEF BumpDeco, cellVars
  <2> QED BY <1>5, <2>2, <2>3 DEF Redecorate, DecoNext, Live!AbsNext
<1>6. ASSUME NEW t \in Threads, BeginBuild(t) \/ Use(t) \/ Continue(t)
      PROVE  [Live!AbsNext]_(Live!absVars)
  <2>1. LogGrows /\ (bound' = bound \/ (Publish(t) /\ bound'.handle = bound.handle + 1))
    BY <1>1, <1>2, <1>6, LogStep
  <2>2. CASE BeginBuild(t) \/ Use(t)
    BY <2>1, <2>2, BeginIsBegin DEF Live!AbsNext
  <2>3. CASE Answers(t)
    BY <1>1, <2>1, <2>3, AnswerIsServe DEF Live!AbsNext
  <2>4. CASE Finish(t)
    BY <2>1, <2>4, FinishIsFinish DEF Live!AbsNext
  <2>5. CASE Continue(t) /\ ~Answers(t) /\ ~Finish(t)
    BY <2>1, <2>5, InnerIsStutter
  <2> QED BY <1>6, <2>2, <2>3, <2>4, <2>5
<1> QED BY <1>3, <1>4, <1>5, <1>6 DEF Next

----------------------------------------------------------------------------
(* The theorem.                                                            *)

\* The promise of the class comments: every use is served a view of the
\* adapter and of the decoration that is no older than what set_adapter and
\* the setters had put in place, and than what the metric had published, when
\* the use began; bind, rebind and build keep it with their versions, their
\* second check and their lock, whoever reconfigures meanwhile.
THEOREM Refinement == Spec => ImplementsLiveBinding
BY Invariance, LiveInit, LiveStep, PTL DEF Spec, ImplementsLiveBinding, Live!AbsSpec
=============================================================================
