--------------------------- MODULE UnitLatchProofs ---------------------------
(***************************************************************************)
(* UnitLatch, for all threads, children, units and bounds: kinds of units  *)
(* never mix, the backend is told of a unit at most once, a dropped sample *)
(* decides nothing, and every sample goes to a series of its own adapter.  *)
(***************************************************************************)
EXTENDS UnitLatch, TLAPS

\* A handle is that of a call made to the adapter beside it.
Fits(b) == b.handle \in 1..Len(log) /\ log[b.handle].adapter = b.adapter

\* Only a sample that counts, and carries a unit, comes to reconcile_unit.
CallInv ==
  \A t \in Threads :
    /\ pc[t] \in {"reconcile", "latch", "notify", "record"} =>
         call[t] \in Samples /\ call[t].valid
    /\ pc[t] \in {"reconcile", "latch", "notify"} => call[t].unit # NoUnit

\* unit_mutex is held where the unit is written and told.
MutexInv == \A t \in Threads : t \in unitMutex <=> pc[t] \in {"latch", "notify"}

Agrees(u) ==
  /\ hasUnit \/ u = NoUnit
  /\ unit.kind # "" /\ u.kind # "" => u.kind = unit.kind

\* What was recorded agrees with the family's unit.
RecordedInv == \A r \in recorded : Agrees(r.unit)

\* The notice comes after the unit is latched and before the mutex is given
\* up; what is about to be recorded agrees with the unit.
UnitInv ==
  /\ Declared # NoUnit => hasUnit /\ notified = <<>>
  /\ ~hasUnit => notified = <<>>
  /\ hasUnit => unit # NoUnit
  /\ Len(notified) <= 1
  /\ \A t \in Threads :
       /\ pc[t] = "latch" => ~hasUnit /\ unit = call[t].unit
       /\ pc[t] = "notify" =>
            hasUnit /\ unit = call[t].unit /\ notified = <<>> /\ Declared = NoUnit
       /\ pc[t] = "record" => Agrees(call[t].unit)

\* Whatever binding a thread works on, or a core has published, fits.
SeriesInv ==
  /\ bound # NoBound => Fits(bound)
  /\ \A t \in Threads :
       pc[t] \in {"compare", "publish", "bound", "reconcile", "latch", "notify", "record"}
         => Fits(binding[t])
  /\ \A r \in recorded : Fits(r)
  /\ \A c \in Children : childBound[c] # NoBinding =>
       LET series == log[childBound[c].handle] IN
       /\ Fits(childBound[c])
       /\ series.family \in 1..Len(log)
       /\ log[series.family].adapter = childBound[c].adapter

IInv == /\ TypeOK /\ CallInv /\ MutexInv /\ UnitInv /\ SeriesInv
        /\ RecordedInv /\ DroppedSampleLatchesNothing

----------------------------------------------------------------------------
(* The invariant holds at the start, and each part of it is preserved.     *)

\* At the start nothing is bound, latched, recorded or under way.
LEMMA InvInit == Init => IInv
<1> SUFFICES ASSUME Init PROVE IInv
  OBVIOUS
<1>1. TypeOK
  BY UnitAssumption, MaxSwapsAssumption
     DEF Init, TypeOK, Steps, CellInit, CellTypeOK, NoBound, NoBinding, NoCall, Bounds, Bindings
<1>2. /\ \A t \in Threads : pc[t] = "idle"
      /\ unitMutex = {} /\ notified = <<>> /\ recorded = {}
      /\ hasUnit <=> Declared # NoUnit
      /\ unit = Declared
  BY DEF Init
<1>3. CallInv /\ MutexInv
  BY <1>2 DEF CallInv, MutexInv
<1>4. UnitInv
  BY <1>2 DEF UnitInv
<1>5. SeriesInv
  BY DEF Init, SeriesInv, NoBinding
<1>6. RecordedInv /\ DroppedSampleLatchesNothing
  BY <1>2 DEF RecordedInv, DroppedSampleLatchesNothing
<1> QED BY <1>1, <1>3, <1>4, <1>5, <1>6 DEF IInv

\* The raw value has no kind.
LEMMA NoKind == NoUnit.kind = ""
BY DEF NoUnit

\* The three outcomes of check_finite and of the test for a unit.
LEMMA CheckFacts ==
  ASSUME TypeOK, NEW t \in Threads, CheckValue(t)
  PROVE  /\ pc[t] = "bound" /\ call[t] \in Samples
         /\ \/ Return(t)
            \/ /\ call[t].valid
               /\ \/ call[t].unit = NoUnit /\ Goto(t, "record")
                  \/ call[t].unit # NoUnit /\ Goto(t, "reconcile")
               /\ UNCHANGED <<call, binding, av>>
         /\ UNCHANGED <<cellVars, bindVars, unitVars, recorded>>
<1>1. /\ pc[t] = "bound" /\ call[t].what = "sample"
      /\ UNCHANGED <<cellVars, bindVars, unitVars, recorded>>
  BY DEF CheckValue
<1>2. call[t] \in Samples
  <2>1. \A x \in Labelings \union {NoCall} : x.what # "sample"
    BY DEF Labelings, NoCall
  <2> QED BY <1>1, <2>1 DEF TypeOK
<1>3. /\ pc[t] = "bound" /\ call[t] \in Samples
      /\ UNCHANGED <<cellVars, bindVars, unitVars, recorded>>
  BY <1>1, <1>2
<1>4. CASE ~call[t].valid
  BY <1>3, <1>4 DEF CheckValue, Recordable
<1>5. CASE call[t].valid /\ call[t].unit = NoUnit
  BY <1>3, <1>5 DEF CheckValue, Recordable
<1>6. CASE call[t].valid /\ call[t].unit # NoUnit
  BY <1>3, <1>6 DEF CheckValue, Recordable
<1> QED BY <1>3, <1>4, <1>5, <1>6

\* The step to which a call begins, with the binding of its core.
Begins(t, c, b, l) ==
  /\ pc[t] = "idle" /\ c \in Samples \union Labelings
  /\ call' = Set(call, t, c) /\ binding' = Set(binding, t, b) /\ Goto(t, l)
  /\ \/ l = "rebind" /\ b = Part(bound)
     \/ l = "compare" /\ b = Part(bound) /\ bound # NoBound
     \/ l = "bound" /\ c.core \in Children /\ b = childBound[c.core] /\ b # NoBinding
  /\ \/ av' = av
     \/ av' = Set(av, t, bound.adapter_version)
  /\ UNCHANGED <<cellVars, bindVars, unitVars, recorded>>

\* A call on a child begins with the binding it is pinned to.
LEMMA BeginFacts ==
  ASSUME NEW t \in Threads, BeginSample(t) \/ BeginLabels(t)
  PROVE  \E c, b, l : Begins(t, c, b, l)
<1>1. PICK c \in Samples \union Labelings : Begin(t, c)
  BY DEF BeginSample, BeginLabels
<1>2. CASE c.core \in Children
  <2>1. Begins(t, c, childBound[c.core], "bound")
    BY <1>1, <1>2 DEF Begin, Begins
  <2> QED BY <2>1
<1>3. CASE c.core \notin Children /\ bound = NoBound
  <2>1. Begins(t, c, Part(bound), "rebind")
    BY <1>1, <1>3 DEF Begin, Begins
  <2> QED BY <2>1
<1>4. CASE c.core \notin Children /\ bound # NoBound
  <2>1. Begins(t, c, Part(bound), "compare")
    BY <1>1, <1>4 DEF Begin, Begins
  <2> QED BY <2>1
<1> QED BY <1>2, <1>3, <1>4

\* A thread is at reconcile_unit with the sample check_finite let through.
LEMMA CallStep == TypeOK /\ CallInv /\ [Next]_vars => CallInv'
<1> SUFFICES ASSUME TypeOK, CallInv, [Next]_vars PROVE CallInv'
  OBVIOUS
<1>1. ASSUME NEW t \in Threads, BeginSample(t) PROVE CallInv'
  BY <1>1 DEF BeginSample, Begin, Goto, Set, Part, bindVars, unitVars, cellVars,
     TypeOK, CallInv, Samples, Labelings
<1>2. ASSUME NEW t \in Threads, BeginLabels(t) PROVE CallInv'
  BY <1>2 DEF BeginLabels, Begin, Goto, Set, Part, bindVars, unitVars, cellVars,
     TypeOK, CallInv, Samples, Labelings
<1>3. ASSUME NEW t \in Threads, Compare(t) PROVE CallInv'
  BY <1>3 DEF Compare, Goto, Set, bindVars, unitVars, cellVars, TypeOK, CallInv,
     Samples, Labelings
<1>4. ASSUME NEW t \in Threads, Rebind(t) PROVE CallInv'
  BY <1>4 DEF Rebind, Goto, Set, Part, unitVars, cellVars, TypeOK, CallInv, Samples,
     Labelings
<1>5. ASSUME NEW t \in Threads, ReadAdapter(t) PROVE CallInv'
  BY <1>5 DEF ReadAdapter, Goto, bindVars, unitVars, cellVars, TypeOK, CallInv,
     Samples, Labelings
<1>6. ASSUME NEW t \in Threads, Register(t) PROVE CallInv'
  BY <1>6 DEF Register, Goto, UnitRead, unitVars, cellVars, TypeOK, CallInv, Samples,
     Labelings
<1>7. ASSUME NEW t \in Threads, Publish(t) PROVE CallInv'
  BY <1>7 DEF Publish, Goto, Set, unitVars, cellVars, TypeOK, CallInv, Samples,
     Labelings
<1>8. ASSUME NEW t \in Threads, MakeChild(t) PROVE CallInv'
  BY <1>8 DEF MakeChild, Goto, Set, Return, ChildAdapter, unitVars, cellVars, TypeOK,
     CallInv, Samples, Labelings
<1>9. ASSUME NEW t \in Threads, CheckValue(t) PROVE CallInv'
  BY <1>9, CheckFacts DEF Goto, Set, Return, TypeOK, CallInv
<1>10. ASSUME NEW t \in Threads, Reconcile(t) PROVE CallInv'
  BY <1>10 DEF Reconcile, Goto, Set, Return, Contradicts, UnitMutexFree, bindVars,
     unitVars, cellVars, TypeOK, CallInv, Samples, Labelings
<1>11. ASSUME NEW t \in Threads, WriteUnit(t) PROVE CallInv'
  BY <1>11 DEF WriteUnit, Goto, UnitMutexFree, bindVars, cellVars, TypeOK, CallInv,
     Samples, Labelings
<1>12. ASSUME NEW t \in Threads, Latch(t) PROVE CallInv'
  BY <1>12 DEF Latch, Goto, bindVars, cellVars, TypeOK, CallInv, Samples, Labelings
<1>13. ASSUME NEW t \in Threads, Notify(t) PROVE CallInv'
  BY <1>13 DEF Notify, Goto, bindVars, cellVars, TypeOK, CallInv, Samples, Labelings
<1>14. ASSUME NEW t \in Threads, Record(t) PROVE CallInv'
  BY <1>14 DEF Record, Goto, Set, Return, bindVars, unitVars, cellVars, TypeOK,
     CallInv, Samples, Labelings
<1>15. CASE SetAdapter
  BY <1>15 DEF SetAdapter, bindVars, unitVars, TypeOK, CallInv, Samples, Labelings
<1>16. CASE UNCHANGED vars
  BY <1>16 DEF vars, bindVars, unitVars, cellVars, TypeOK, CallInv, Samples, Labelings
<1> QED BY <1>1, <1>2, <1>3, <1>4, <1>5, <1>6, <1>7, <1>8, <1>9, <1>10, <1>11, <1>12,
   <1>13, <1>14, <1>15, <1>16 DEF Next

\* unit_mutex is taken where the unit is written and given up after the notice.
LEMMA MutexStep == TypeOK /\ MutexInv /\ [Next]_vars => MutexInv'
<1> SUFFICES ASSUME TypeOK, MutexInv, [Next]_vars PROVE MutexInv'
  OBVIOUS
<1>1. ASSUME NEW t \in Threads, BeginSample(t) PROVE MutexInv'
  BY <1>1 DEF BeginSample, Begin, Goto, Set, Part, bindVars, unitVars, cellVars,
     TypeOK, MutexInv
<1>2. ASSUME NEW t \in Threads, BeginLabels(t) PROVE MutexInv'
  BY <1>2 DEF BeginLabels, Begin, Goto, Set, Part, bindVars, unitVars, cellVars,
     TypeOK, MutexInv
<1>3. ASSUME NEW t \in Threads, Compare(t) PROVE MutexInv'
  BY <1>3 DEF Compare, Goto, Set, bindVars, unitVars, cellVars, TypeOK, MutexInv
<1>4. ASSUME NEW t \in Threads, Rebind(t) PROVE MutexInv'
  BY <1>4 DEF Rebind, Goto, Set, Part, unitVars, cellVars, TypeOK, MutexInv
<1>5. ASSUME NEW t \in Threads, ReadAdapter(t) PROVE MutexInv'
  BY <1>5 DEF ReadAdapter, Goto, bindVars, unitVars, cellVars, TypeOK, MutexInv
<1>6. ASSUME NEW t \in Threads, Register(t) PROVE MutexInv'
  BY <1>6 DEF Register, Goto, UnitRead, unitVars, cellVars, TypeOK, MutexInv
<1>7. ASSUME NEW t \in Threads, Publish(t) PROVE MutexInv'
  BY <1>7 DEF Publish, Goto, Set, unitVars, cellVars, TypeOK, MutexInv
<1>8. ASSUME NEW t \in Threads, MakeChild(t) PROVE MutexInv'
  BY <1>8 DEF MakeChild, Goto, Set, Return, ChildAdapter, unitVars, cellVars, TypeOK,
     MutexInv
<1>9. ASSUME NEW t \in Threads, CheckValue(t) PROVE MutexInv'
  BY <1>9, CheckFacts DEF Goto, Set, Return, unitVars, TypeOK, MutexInv
<1>10. ASSUME NEW t \in Threads, Reconcile(t) PROVE MutexInv'
  BY <1>10 DEF Reconcile, Goto, Set, Return, Contradicts, UnitMutexFree, bindVars,
     unitVars, cellVars, TypeOK, MutexInv
<1>11. ASSUME NEW t \in Threads, WriteUnit(t) PROVE MutexInv'
  BY <1>11 DEF WriteUnit, Goto, UnitMutexFree, bindVars, cellVars, TypeOK, MutexInv
<1>12. ASSUME NEW t \in Threads, Latch(t) PROVE MutexInv'
  BY <1>12 DEF Latch, Goto, bindVars, cellVars, TypeOK, MutexInv
<1>13. ASSUME NEW t \in Threads, Notify(t) PROVE MutexInv'
  BY <1>13 DEF Notify, Goto, bindVars, cellVars, TypeOK, MutexInv
<1>14. ASSUME NEW t \in Threads, Record(t) PROVE MutexInv'
  BY <1>14 DEF Record, Goto, Set, Return, bindVars, unitVars, cellVars, TypeOK, MutexInv
<1>15. CASE SetAdapter
  BY <1>15 DEF SetAdapter, bindVars, unitVars, TypeOK, MutexInv
<1>16. CASE UNCHANGED vars
  BY <1>16 DEF vars, bindVars, unitVars, cellVars, TypeOK, MutexInv
<1> QED BY <1>1, <1>2, <1>3, <1>4, <1>5, <1>6, <1>7, <1>8, <1>9, <1>10, <1>11, <1>12,
   <1>13, <1>14, <1>15, <1>16 DEF Next

\* One thread latches the unit, and it tells the backend.
LEMMA UnitStep == TypeOK /\ CallInv /\ MutexInv /\ UnitInv /\ [Next]_vars => UnitInv'
<1> SUFFICES ASSUME TypeOK, CallInv, MutexInv, UnitInv, [Next]_vars PROVE UnitInv'
  OBVIOUS
<1>1. ASSUME NEW t \in Threads, BeginSample(t) PROVE UnitInv'
  <2>1. PICK c, b, l : Begins(t, c, b, l)
    BY <1>1, BeginFacts
  <2> QED BY <2>1 DEF Begins, Goto, Set, unitVars, TypeOK, UnitInv, Agrees
<1>2. ASSUME NEW t \in Threads, BeginLabels(t) PROVE UnitInv'
  <2>1. PICK c, b, l : Begins(t, c, b, l)
    BY <1>2, BeginFacts
  <2> QED BY <2>1 DEF Begins, Goto, Set, unitVars, TypeOK, UnitInv, Agrees
<1>3. ASSUME NEW t \in Threads, Compare(t) PROVE UnitInv'
  BY <1>3 DEF Compare, Goto, Set, bindVars, unitVars, cellVars, TypeOK, UnitInv, Agrees
<1>4. ASSUME NEW t \in Threads, Rebind(t) PROVE UnitInv'
  BY <1>4 DEF Rebind, Goto, Set, Part, unitVars, cellVars, TypeOK, UnitInv, Agrees
<1>5. ASSUME NEW t \in Threads, ReadAdapter(t) PROVE UnitInv'
  BY <1>5 DEF ReadAdapter, Goto, bindVars, unitVars, cellVars, TypeOK, UnitInv, Agrees
<1>6. ASSUME NEW t \in Threads, Register(t) PROVE UnitInv'
  BY <1>6 DEF Register, Goto, UnitRead, unitVars, cellVars, TypeOK, UnitInv, Agrees
<1>7. ASSUME NEW t \in Threads, Publish(t) PROVE UnitInv'
  BY <1>7 DEF Publish, Goto, Set, unitVars, cellVars, TypeOK, UnitInv, Agrees
<1>8. ASSUME NEW t \in Threads, MakeChild(t) PROVE UnitInv'
  BY <1>8 DEF MakeChild, Goto, Set, Return, ChildAdapter, unitVars, cellVars, TypeOK,
     UnitInv, Agrees
<1>9. ASSUME NEW t \in Threads, CheckValue(t) PROVE UnitInv'
  <2>1. /\ UNCHANGED <<unit, hasUnit, notified>>
        /\ \/ Return(t)
           \/ Goto(t, "record") /\ call[t].unit = NoUnit /\ UNCHANGED call
           \/ Goto(t, "reconcile") /\ UNCHANGED call
    BY <1>9, CheckFacts DEF unitVars
  <2>2. \A u \in Threads \ {t} : pc'[u] = pc[u] /\ call'[u] = call[u]
    BY <2>1 DEF Goto, Return, Set, TypeOK
  <2>3. /\ pc'[t] \in {"idle", "record", "reconcile"}
        /\ pc'[t] = "record" => call'[t].unit = NoUnit
    BY <2>1 DEF Goto, Return, TypeOK
  <2>4. hasUnit' <=> hasUnit
    BY <2>1
  <2> QED BY <2>1, <2>2, <2>3, <2>4, NoKind DEF UnitInv, Agrees
<1>10. ASSUME NEW t \in Threads, Reconcile(t) PROVE UnitInv'
  BY <1>10 DEF Reconcile, Goto, Set, Return, Contradicts, UnitMutexFree, bindVars,
     unitVars, cellVars, TypeOK, UnitInv, Agrees
<1>11. ASSUME NEW t \in Threads, WriteUnit(t) PROVE UnitInv'
  <2>1. /\ unitMutex = {} /\ ~hasUnit /\ Declared = NoUnit
        /\ unit' = call[t].unit /\ UNCHANGED <<hasUnit, notified, call>>
        /\ Goto(t, "latch")
    BY <1>11 DEF WriteUnit, UnitMutexFree, UnitInv
  <2>2. \A u \in Threads : pc[u] \notin {"latch", "notify"}
    BY <2>1 DEF MutexInv
  <2>3. \A u \in Threads : pc[u] = "record" => call[u].unit = NoUnit
    BY <2>1 DEF UnitInv, Agrees
  <2>4. /\ \A u \in Threads : pc'[u] = IF u = t THEN "latch" ELSE pc[u]
        /\ ~hasUnit'
    BY <2>1 DEF Goto, TypeOK
  <2> QED BY <2>1, <2>2, <2>3, <2>4, NoKind DEF UnitInv, Agrees
<1>12. ASSUME NEW t \in Threads, Latch(t) PROVE UnitInv'
  <2>1. /\ hasUnit' = TRUE /\ Goto(t, "notify") /\ pc[t] = "latch"
        /\ UNCHANGED <<unit, unitMutex, notified, call>>
    BY <1>12 DEF Latch
  <2>2. ~hasUnit /\ unit = call[t].unit /\ notified = <<>> /\ Declared = NoUnit
    BY <2>1 DEF UnitInv
  <2>3. \A u \in Threads \ {t} : pc[u] \notin {"latch", "notify"}
    BY <2>1 DEF MutexInv, TypeOK
  <2>4. \A u \in Threads : pc[u] = "record" => call[u].unit = NoUnit
    BY <2>2 DEF UnitInv, Agrees
  <2>5. unit # NoUnit
    BY <2>1, <2>2 DEF CallInv
  <2> QED BY <2>1, <2>2, <2>3, <2>4, <2>5, NoKind DEF UnitInv, Agrees, Goto, TypeOK
<1>13. ASSUME NEW t \in Threads, Notify(t) PROVE UnitInv'
  <2>1. /\ Goto(t, "record") /\ pc[t] = "notify" /\ UNCHANGED <<unit, hasUnit, call>>
        /\ \E n : notified' = Append(notified, n)
    BY <1>13 DEF Notify
  <2>2. unit' = unit /\ call' = call /\ hasUnit'
    BY <2>1, UnitInv DEF UnitInv
  <2>3. hasUnit /\ unit = call[t].unit /\ notified = <<>> /\ Declared = NoUnit
    BY <2>1 DEF UnitInv
  <2>4. \A u \in Threads \ {t} : pc[u] \notin {"latch", "notify"}
    BY <2>1 DEF MutexInv, TypeOK
  <2>5. Len(notified') = 1
    BY <2>1, <2>3
  <2>6. \A u \in Threads : pc'[u] = IF u = t THEN "record" ELSE pc[u]
    BY <2>1 DEF Goto, TypeOK
  <2>7. \A u \in Threads : pc'[u] = "record" => Agrees(call[u].unit)'
    BY <2>3, <2>6, <2>2 DEF UnitInv, Agrees
  <2> QED BY <2>3, <2>4, <2>5, <2>6, <2>7, <2>2 DEF UnitInv
<1>14. ASSUME NEW t \in Threads, Record(t) PROVE UnitInv'
  BY <1>14 DEF Record, Goto, Set, Return, bindVars, unitVars, cellVars, TypeOK,
     UnitInv, Agrees
<1>15. CASE SetAdapter
  BY <1>15 DEF SetAdapter, bindVars, unitVars, TypeOK, UnitInv, Agrees
<1>16. CASE UNCHANGED vars
  BY <1>16 DEF vars, bindVars, unitVars, cellVars, TypeOK, UnitInv, Agrees
<1> QED BY <1>1, <1>2, <1>3, <1>4, <1>5, <1>6, <1>7, <1>8, <1>9, <1>10, <1>11, <1>12,
   <1>13, <1>14, <1>15, <1>16 DEF Next

\* What is recorded agrees with the unit that is latched, then or later.
LEMMA KindsStep == TypeOK /\ UnitInv /\ RecordedInv /\ [Next]_vars => RecordedInv'
<1> SUFFICES ASSUME TypeOK, UnitInv, RecordedInv, [Next]_vars PROVE RecordedInv'
  OBVIOUS
<1>1. ASSUME NEW t \in Threads, BeginSample(t) PROVE RecordedInv'
  <2>1. PICK c, b, l : Begins(t, c, b, l)
    BY <1>1, BeginFacts
  <2> QED BY <2>1 DEF Begins, Goto, Set, unitVars, RecordedInv, Agrees
<1>2. ASSUME NEW t \in Threads, BeginLabels(t) PROVE RecordedInv'
  <2>1. PICK c, b, l : Begins(t, c, b, l)
    BY <1>2, BeginFacts
  <2> QED BY <2>1 DEF Begins, Goto, Set, unitVars, RecordedInv, Agrees
<1>3. ASSUME NEW t \in Threads, Compare(t) PROVE RecordedInv'
  BY <1>3 DEF Compare, unitVars, RecordedInv, Agrees
<1>4. ASSUME NEW t \in Threads, Rebind(t) PROVE RecordedInv'
  BY <1>4 DEF Rebind, unitVars, RecordedInv, Agrees
<1>5. ASSUME NEW t \in Threads, ReadAdapter(t) PROVE RecordedInv'
  BY <1>5 DEF ReadAdapter, unitVars, RecordedInv, Agrees
<1>6. ASSUME NEW t \in Threads, Register(t) PROVE RecordedInv'
  BY <1>6 DEF Register, unitVars, RecordedInv, Agrees
<1>7. ASSUME NEW t \in Threads, Publish(t) PROVE RecordedInv'
  BY <1>7 DEF Publish, unitVars, RecordedInv, Agrees
<1>8. ASSUME NEW t \in Threads, MakeChild(t) PROVE RecordedInv'
  BY <1>8 DEF MakeChild, unitVars, RecordedInv, Agrees
<1>9. ASSUME NEW t \in Threads, CheckValue(t) PROVE RecordedInv'
  <2>1. UNCHANGED <<unitVars, recorded>>
    BY <1>9, CheckFacts
  <2> QED BY <2>1 DEF unitVars, RecordedInv, Agrees
<1>10. ASSUME NEW t \in Threads, Reconcile(t) PROVE RecordedInv'
  BY <1>10 DEF Reconcile, Contradicts, UnitMutexFree, unitVars, RecordedInv, Agrees
<1>11. ASSUME NEW t \in Threads, WriteUnit(t) PROVE RecordedInv'
  <2>1. ~hasUnit /\ recorded' = recorded
    BY <1>11 DEF WriteUnit
  <2>2. \A r \in recorded : r.unit = NoUnit
    BY <2>1 DEF RecordedInv, Agrees
  <2> QED BY <2>1, <2>2, NoKind DEF RecordedInv, Agrees
<1>12. ASSUME NEW t \in Threads, Latch(t) PROVE RecordedInv'
  BY <1>12 DEF Latch, RecordedInv, Agrees
<1>13. ASSUME NEW t \in Threads, Notify(t) PROVE RecordedInv'
  BY <1>13 DEF Notify, RecordedInv, Agrees
<1>14. ASSUME NEW t \in Threads, Record(t) PROVE RecordedInv'
  <2> DEFINE r == [adapter |-> binding[t].adapter, handle |-> binding[t].handle,
                   unit |-> call[t].unit]
  <2>1. /\ pc[t] = "record" /\ recorded' = recorded \union {r}
        /\ UNCHANGED <<unit, hasUnit>>
    BY <1>14 DEF Record, unitVars
  <2>2. Agrees(r.unit)
    BY <2>1 DEF UnitInv
  <2> HIDE DEF r
  <2> QED BY <2>1, <2>2 DEF RecordedInv, Agrees
<1>15. CASE SetAdapter
  BY <1>15 DEF SetAdapter, bindVars, unitVars, RecordedInv, Agrees
<1>16. CASE UNCHANGED vars
  BY <1>16 DEF vars, bindVars, unitVars, cellVars, RecordedInv, Agrees
<1> QED BY <1>1, <1>2, <1>3, <1>4, <1>5, <1>6, <1>7, <1>8, <1>9, <1>10, <1>11, <1>12,
   <1>13, <1>14, <1>15, <1>16 DEF Next

\* The sample that latched the unit is recorded in the end.
LEMMA DroppedStep == TypeOK /\ CallInv /\ UnitInv /\ DroppedSampleLatchesNothing /\ [Next]_vars => DroppedSampleLatchesNothing'
<1> SUFFICES ASSUME TypeOK, CallInv, UnitInv, DroppedSampleLatchesNothing, [Next]_vars PROVE DroppedSampleLatchesNothing'
  OBVIOUS
<1>1. ASSUME NEW t \in Threads, BeginSample(t) PROVE DroppedSampleLatchesNothing'
  <2>1. PICK c, b, l : Begins(t, c, b, l)
    BY <1>1, BeginFacts
  <2> QED BY <2>1 DEF Begins, Goto, Set, unitVars, TypeOK, DroppedSampleLatchesNothing
<1>2. ASSUME NEW t \in Threads, BeginLabels(t) PROVE DroppedSampleLatchesNothing'
  <2>1. PICK c, b, l : Begins(t, c, b, l)
    BY <1>2, BeginFacts
  <2> QED BY <2>1 DEF Begins, Goto, Set, unitVars, TypeOK, DroppedSampleLatchesNothing
<1>3. ASSUME NEW t \in Threads, Compare(t) PROVE DroppedSampleLatchesNothing'
  BY <1>3 DEF Compare, Goto, Set, bindVars, unitVars, cellVars, TypeOK,
     DroppedSampleLatchesNothing
<1>4. ASSUME NEW t \in Threads, Rebind(t) PROVE DroppedSampleLatchesNothing'
  BY <1>4 DEF Rebind, Goto, Set, Part, unitVars, cellVars, TypeOK,
     DroppedSampleLatchesNothing
<1>5. ASSUME NEW t \in Threads, ReadAdapter(t) PROVE DroppedSampleLatchesNothing'
  BY <1>5 DEF ReadAdapter, Goto, bindVars, unitVars, cellVars, TypeOK,
     DroppedSampleLatchesNothing
<1>6. ASSUME NEW t \in Threads, Register(t) PROVE DroppedSampleLatchesNothing'
  BY <1>6 DEF Register, Goto, UnitRead, unitVars, cellVars, TypeOK,
     DroppedSampleLatchesNothing
<1>7. ASSUME NEW t \in Threads, Publish(t) PROVE DroppedSampleLatchesNothing'
  BY <1>7 DEF Publish, Goto, Set, unitVars, cellVars, TypeOK,
     DroppedSampleLatchesNothing
<1>8. ASSUME NEW t \in Threads, MakeChild(t) PROVE DroppedSampleLatchesNothing'
  BY <1>8 DEF MakeChild, Goto, Set, Return, ChildAdapter, unitVars, cellVars, TypeOK,
     DroppedSampleLatchesNothing
<1>9. ASSUME NEW t \in Threads, CheckValue(t) PROVE DroppedSampleLatchesNothing'
  BY <1>9, CheckFacts DEF Goto, Set, Return, unitVars, TypeOK, DroppedSampleLatchesNothing
<1>10. ASSUME NEW t \in Threads, Reconcile(t) PROVE DroppedSampleLatchesNothing'
  BY <1>10 DEF Reconcile, Goto, Set, Return, Contradicts, UnitMutexFree, bindVars,
     unitVars, cellVars, TypeOK, DroppedSampleLatchesNothing
<1>11. ASSUME NEW t \in Threads, WriteUnit(t) PROVE DroppedSampleLatchesNothing'
  BY <1>11 DEF WriteUnit, DroppedSampleLatchesNothing
<1>12. ASSUME NEW t \in Threads, Latch(t) PROVE DroppedSampleLatchesNothing'
  <2>1. /\ Goto(t, "notify") /\ pc[t] = "latch" /\ UNCHANGED <<unit, call>>
    BY <1>12 DEF Latch
  <2>2. pc'[t] = "notify"
    BY <2>1 DEF Goto, TypeOK
  <2>3. call'[t].unit = unit' /\ call'[t].valid
    BY <2>1 DEF UnitInv, CallInv
  <2> QED BY <2>2, <2>3 DEF DroppedSampleLatchesNothing
<1>13. ASSUME NEW t \in Threads, Notify(t) PROVE DroppedSampleLatchesNothing'
  BY <1>13 DEF Notify, Goto, bindVars, cellVars, TypeOK, DroppedSampleLatchesNothing
<1>14. ASSUME NEW t \in Threads, Record(t) PROVE DroppedSampleLatchesNothing'
  <2> DEFINE r == [adapter |-> binding[t].adapter, handle |-> binding[t].handle,
                   unit |-> call[t].unit]
  <2>1. /\ pc[t] = "record" /\ recorded' = recorded \union {r}
        /\ UNCHANGED <<unit, hasUnit>>
        /\ \A u \in Threads \ {t} : pc'[u] = pc[u] /\ call'[u] = call[u]
    BY <1>14 DEF Record, Return, Goto, Set, unitVars, TypeOK
  <2>2. r \in recorded' /\ r.unit = call[t].unit
    BY <2>1
  <2> HIDE DEF r
  <2>3. SUFFICES ASSUME hasUnit, Declared = NoUnit
                 PROVE  \/ \E x \in recorded' : x.unit = unit
                        \/ \E u \in Threads : /\ pc'[u] \in {"notify", "record"}
                                            /\ call'[u].unit = unit /\ call'[u].valid
    BY <2>1 DEF DroppedSampleLatchesNothing
  <2>4. CASE \E x \in recorded : x.unit = unit
    BY <2>1, <2>4
  <2>5. ASSUME NEW u \in Threads, pc[u] \in {"notify", "record"}, call[u].unit = unit,
               call[u].valid
        PROVE  \/ \E x \in recorded' : x.unit = unit
               \/ \E w \in Threads : /\ pc'[w] \in {"notify", "record"}
                                   /\ call'[w].unit = unit /\ call'[w].valid
    <3>1. CASE u = t
      BY <2>2, <2>5, <3>1
    <3>2. CASE u # t
      BY <2>1, <2>5, <3>2
    <3> QED BY <3>1, <3>2
  <2> QED BY <2>3, <2>4, <2>5 DEF DroppedSampleLatchesNothing
<1>15. CASE SetAdapter
  BY <1>15 DEF SetAdapter, bindVars, unitVars, TypeOK, DroppedSampleLatchesNothing
<1>16. CASE UNCHANGED vars
  BY <1>16 DEF vars, bindVars, unitVars, cellVars, TypeOK, DroppedSampleLatchesNothing
<1> QED BY <1>1, <1>2, <1>3, <1>4, <1>5, <1>6, <1>7, <1>8, <1>9, <1>10, <1>11, <1>12,
   <1>13, <1>14, <1>15, <1>16 DEF Next

\* A binding that fits is handed on, and still fits when more is registered.
LEMMA SeriesStep == TypeOK /\ SeriesInv /\ [Next]_vars => SeriesInv'
<1> SUFFICES ASSUME TypeOK, SeriesInv, [Next]_vars PROVE SeriesInv'
  OBVIOUS
<1>1. ASSUME NEW t \in Threads, BeginSample(t) PROVE SeriesInv'
  <2>1. PICK c, b, l : Begins(t, c, b, l)
    BY <1>1, BeginFacts
  <2> QED BY <2>1 DEF Begins, Goto, Set, Part, bindVars, TypeOK, SeriesInv, Fits
<1>2. ASSUME NEW t \in Threads, BeginLabels(t) PROVE SeriesInv'
  <2>1. PICK c, b, l : Begins(t, c, b, l)
    BY <1>2, BeginFacts
  <2> QED BY <2>1 DEF Begins, Goto, Set, Part, bindVars, TypeOK, SeriesInv, Fits
<1>3. ASSUME NEW t \in Threads, Compare(t) PROVE SeriesInv'
  BY <1>3 DEF Compare, Goto, Set, bindVars, unitVars, cellVars, TypeOK, SeriesInv, Fits
<1>4. ASSUME NEW t \in Threads, Rebind(t) PROVE SeriesInv'
  <2>1. /\ UNCHANGED <<bound, childBound, log, recorded>>
        /\ \/ binding' = Set(binding, t, Part(bound)) /\ bound # NoBound /\ Goto(t, "bound")
           \/ Goto(t, "adapter") /\ UNCHANGED binding
    BY <1>4 DEF Rebind
  <2>2. \A u \in Threads \ {t} : pc'[u] = pc[u] /\ binding'[u] = binding[u]
    BY <2>1 DEF Goto, Set, TypeOK
  <2>3. \/ pc'[t] = "adapter"
        \/ bound # NoBound /\ binding'[t] = Part(bound)
    BY <2>1 DEF Goto, Set, TypeOK
  <2>4. Fits(bound) => Fits(Part(bound))
    BY DEF Fits, Part
  <2> QED BY <2>1, <2>2, <2>3, <2>4 DEF SeriesInv, Fits
<1>5. ASSUME NEW t \in Threads, ReadAdapter(t) PROVE SeriesInv'
  BY <1>5 DEF ReadAdapter, Goto, bindVars, unitVars, cellVars, TypeOK, SeriesInv, Fits
<1>6. ASSUME NEW t \in Threads, Register(t) PROVE SeriesInv'
  BY <1>6 DEF Register, Goto, UnitRead, unitVars, cellVars, TypeOK, SeriesInv, Fits
<1>7. ASSUME NEW t \in Threads, Publish(t) PROVE SeriesInv'
  BY <1>7 DEF Publish, Goto, Set, unitVars, cellVars, TypeOK, SeriesInv, Fits
<1>8. ASSUME NEW t \in Threads, MakeChild(t) PROVE SeriesInv'
  <2> DEFINE series == [adapter |-> ChildAdapter(t), family |-> binding[t].handle,
                        unit |-> NoUnit]
             b == [adapter |-> ChildAdapter(t), handle |-> Len(log) + 1]
  <2>1. /\ pc[t] = "bound" /\ log' = Append(log, series) /\ Return(t)
        /\ childBound' = Set(childBound, call[t].child, b) /\ UNCHANGED <<bound, recorded>>
    BY <1>8 DEF MakeChild
  <2>2. /\ Len(log') = Len(log) + 1 /\ log'[Len(log) + 1] = series
        /\ \A i \in 1..Len(log) : i \in 1..Len(log') /\ log'[i] = log[i]
        /\ Len(log) \in Nat
    BY <2>1 DEF TypeOK
  <2>3. \A x : Fits(x) => Fits(x)'
    BY <2>2 DEF Fits
  <2>4. Fits(binding[t]) /\ series.family = binding[t].handle
        /\ series.adapter = b.adapter /\ b.adapter = binding[t].adapter
    BY <2>1 DEF SeriesInv, ChildAdapter
  <2>5. b.handle = Len(log) + 1
    OBVIOUS
  <2> HIDE DEF series, b
  <2>6. bound' # NoBound => Fits(bound)'
    BY <2>1, <2>3 DEF SeriesInv
  <2>7. ASSUME NEW u \in Threads,
               pc'[u] \in {"compare", "publish", "bound", "reconcile", "latch", "notify", "record"}
        PROVE  Fits(binding[u])'
    <3>1. u # t /\ pc'[u] = pc[u] /\ binding'[u] = binding[u]
      BY <2>1, <2>7 DEF Return, Goto, Set, TypeOK
    <3> QED BY <3>1, <2>2, <2>7 DEF SeriesInv, Fits
  <2>8. \A r \in recorded' : Fits(r)'
    BY <2>1, <2>3 DEF SeriesInv
  <2>9. ASSUME NEW c \in Children, childBound'[c] # NoBinding
        PROVE  LET s == log'[childBound'[c].handle] IN
               /\ Fits(childBound[c])'
               /\ s.family \in 1..Len(log')
               /\ log'[s.family].adapter = childBound'[c].adapter
    <3>1. CASE childBound'[c] = b
      BY <2>2, <2>4, <2>5, <3>1 DEF Fits
    <3>2. CASE childBound'[c] = childBound[c]
      BY <2>2, <2>9, <3>2 DEF SeriesInv, Fits
    <3> QED BY <2>1, <3>1, <3>2 DEF Set, TypeOK
  <2> QED BY <2>6, <2>7, <2>8, <2>9 DEF SeriesInv
<1>9. ASSUME NEW t \in Threads, CheckValue(t) PROVE SeriesInv'
  <2>1. /\ pc[t] = "bound" /\ UNCHANGED <<bound, childBound, log, recorded>>
        /\ \/ Return(t)
           \/ UNCHANGED binding /\ (Goto(t, "record") \/ Goto(t, "reconcile"))
    BY <1>9, CheckFacts DEF bindVars
  <2>2. \A u \in Threads \ {t} : pc'[u] = pc[u] /\ binding'[u] = binding[u]
    BY <2>1 DEF Goto, Set, Return, TypeOK
  <2>3. pc'[t] = "idle" \/ (pc[t] = "bound" /\ binding'[t] = binding[t])
    BY <2>1 DEF Goto, Return, TypeOK
  <2> QED BY <2>1, <2>2, <2>3 DEF SeriesInv, Fits
<1>10. ASSUME NEW t \in Threads, Reconcile(t) PROVE SeriesInv'
  <2>1. /\ pc[t] = "reconcile" /\ UNCHANGED <<bound, childBound, log, recorded>>
        /\ Return(t) \/ (Goto(t, "record") /\ UNCHANGED binding)
    BY <1>10 DEF Reconcile, bindVars
  <2> QED BY <2>1 DEF Goto, Set, Return, TypeOK, SeriesInv, Fits
<1>11. ASSUME NEW t \in Threads, WriteUnit(t) PROVE SeriesInv'
  BY <1>11 DEF WriteUnit, Goto, UnitMutexFree, bindVars, cellVars, TypeOK, SeriesInv,
     Fits
<1>12. ASSUME NEW t \in Threads, Latch(t) PROVE SeriesInv'
  BY <1>12 DEF Latch, Goto, bindVars, cellVars, TypeOK, SeriesInv, Fits
<1>13. ASSUME NEW t \in Threads, Notify(t) PROVE SeriesInv'
  BY <1>13 DEF Notify, Goto, bindVars, cellVars, TypeOK, SeriesInv, Fits
<1>14. ASSUME NEW t \in Threads, Record(t) PROVE SeriesInv'
  BY <1>14 DEF Record, Goto, Set, Return, bindVars, unitVars, cellVars, TypeOK,
     SeriesInv, Fits
<1>15. CASE SetAdapter
  BY <1>15 DEF SetAdapter, bindVars, unitVars, TypeOK, SeriesInv, Fits
<1>16. CASE UNCHANGED vars
  BY <1>16 DEF vars, bindVars, unitVars, cellVars, TypeOK, SeriesInv, Fits
<1> QED BY <1>1, <1>2, <1>3, <1>4, <1>5, <1>6, <1>7, <1>8, <1>9, <1>10, <1>11, <1>12,
   <1>13, <1>14, <1>15, <1>16 DEF Next

\* The values that are assigned have their types.
LEMMA TypeFacts ==
  /\ Steps = Steps \union {"idle", "compare", "rebind", "adapter", "register", "publish",
                           "bound", "reconcile", "latch", "notify", "record"}
  /\ NoBinding \in Bindings
  /\ \A b \in Bounds : Part(b) \in Bindings /\ b.adapter_version \in Nat
  /\ \A a, h \in Nat : [adapter |-> a, handle |-> h] \in Bindings
  /\ \A a, h, v \in Nat : [adapter |-> a, handle |-> h, adapter_version |-> v] \in Bounds
  /\ \A b \in Bindings :
       /\ b.adapter \in Nat /\ b.handle \in Nat
       /\ \A n \in Nat : /\ [b EXCEPT !.adapter = n] \in Bindings
                         /\ [b EXCEPT !.handle = n] \in Bindings
BY DEF Steps, NoBinding, Bindings, Bounds, Part

\* A call that returns leaves nothing behind.
LEMMA ReturnTypes ==
  ASSUME TypeOK, NEW t \in Threads, Return(t)
  PROVE  /\ pc' \in [Threads -> Steps] /\ binding' \in [Threads -> Bindings]
         /\ call' \in [Threads -> Samples \union Labelings \union {NoCall}]
         /\ av' \in [Threads -> Nat]
BY TypeFacts DEF Return, Goto, Set, TypeOK

\* A thread that moves on keeps its call.
LEMMA GotoTypes ==
  ASSUME TypeOK, NEW t \in Threads, NEW l \in Steps, Goto(t, l), UNCHANGED <<call, binding, av>>
  PROVE  /\ pc' \in [Threads -> Steps] /\ binding' \in [Threads -> Bindings]
         /\ call' \in [Threads -> Samples \union Labelings \union {NoCall}]
         /\ av' \in [Threads -> Nat]
BY DEF Goto, TypeOK

\* Every variable keeps its type.
LEMMA TypeStep == TypeOK /\ CallInv /\ SeriesInv /\ [Next]_vars => TypeOK'
<1> SUFFICES ASSUME TypeOK, CallInv, SeriesInv, [Next]_vars PROVE TypeOK'
  OBVIOUS
<1>1. ASSUME NEW t \in Threads, BeginSample(t) PROVE TypeOK'
  <2>1. PICK c, b, l : Begins(t, c, b, l)
    BY <1>1, BeginFacts
  <2>2. b \in Bindings /\ l \in Steps /\ bound.adapter_version \in Nat
    BY <2>1, TypeFacts DEF Begins, TypeOK
  <2> QED BY <2>1, <2>2 DEF Begins, Goto, Set, cellVars, bindVars, unitVars, TypeOK, CellTypeOK
<1>2. ASSUME NEW t \in Threads, BeginLabels(t) PROVE TypeOK'
  <2>1. PICK c, b, l : Begins(t, c, b, l)
    BY <1>2, BeginFacts
  <2>2. b \in Bindings /\ l \in Steps /\ bound.adapter_version \in Nat
    BY <2>1, TypeFacts DEF Begins, TypeOK
  <2> QED BY <2>1, <2>2 DEF Begins, Goto, Set, cellVars, bindVars, unitVars, TypeOK, CellTypeOK
<1>3. ASSUME NEW t \in Threads, Compare(t) PROVE TypeOK'
  <2>1. \/ Goto(t, "bound") /\ UNCHANGED binding
        \/ Goto(t, "rebind") /\ binding' = Set(binding, t, NoBinding)
    BY <1>3 DEF Compare
  <2>2. /\ av' = Set(av, t, 0)
        /\ UNCHANGED <<cellVars, bindVars, unitVars, recorded, call>>
    BY <1>3 DEF Compare
  <2> QED BY <2>1, <2>2, TypeFacts DEF Goto, Set, cellVars, bindVars, unitVars, TypeOK, CellTypeOK
<1>4. ASSUME NEW t \in Threads, Rebind(t) PROVE TypeOK'
  <2>1. \/ /\ binding' = Set(binding, t, Part(bound)) /\ Goto(t, "bound")
           /\ UNCHANGED <<bindMutex, av>>
        \/ /\ bindMutex' = {t} /\ av' = Set(av, t, cellVersion) /\ Goto(t, "adapter")
           /\ UNCHANGED binding
    BY <1>4 DEF Rebind
  <2>2. UNCHANGED <<cellVars, bound, childBound, log, unitVars, recorded, call>>
    BY <1>4 DEF Rebind
  <2> QED BY <2>1, <2>2, TypeFacts DEF Goto, Set, cellVars, bindVars, unitVars, TypeOK, CellTypeOK
<1>5. ASSUME NEW t \in Threads, ReadAdapter(t) PROVE TypeOK'
  <2>1. cellAdapter \in Nat
    BY MaxSwapsAssumption DEF TypeOK, CellTypeOK
  <2>2. binding' \in [Threads -> Bindings]
    BY <1>5, <2>1, TypeFacts DEF ReadAdapter, TypeOK
  <2> QED BY <1>5, <2>2, TypeFacts DEF ReadAdapter, Goto, cellVars, bindVars, unitVars, TypeOK, CellTypeOK
<1>6. ASSUME NEW t \in Threads, Register(t) PROVE TypeOK'
  <2>1. PICK u \in UnitRead : log' = Append(log, [adapter |-> binding[t].adapter,
                                                  family |-> 0, unit |-> u])
    BY <1>6 DEF Register
  <2>2. u \in Observed \union {Declared, NoUnit, Torn}
    BY <2>1 DEF UnitRead, TypeOK
  <2>3. log' \in Seq(Series)
    <3>1. binding[t].adapter \in Nat
      BY TypeFacts DEF TypeOK
    <3>2. [adapter |-> binding[t].adapter, family |-> 0, unit |-> u] \in Series
      BY <2>2, <3>1 DEF Series
    <3> QED BY <2>1, <3>2 DEF TypeOK
  <2>4. binding' \in [Threads -> Bindings]
    <3>1. Len(log) + 1 \in Nat
      BY DEF TypeOK
    <3>2. binding' = [binding EXCEPT ![t].handle = Len(log) + 1]
      BY <1>6 DEF Register
    <3> QED BY <3>1, <3>2, TypeFacts DEF TypeOK
  <2> QED BY <1>6, <2>3, <2>4, TypeFacts DEF Register, Goto, cellVars, bindVars, unitVars, TypeOK, CellTypeOK
<1>7. ASSUME NEW t \in Threads, Publish(t) PROVE TypeOK'
  <2>1. bound' \in Bounds
    <3>1. binding[t].adapter \in Nat /\ binding[t].handle \in Nat /\ av[t] \in Nat
      BY TypeFacts DEF TypeOK
    <3> QED BY <1>7, <3>1, TypeFacts DEF Publish
  <2> QED BY <1>7, <2>1, TypeFacts DEF Publish, Goto, Set, cellVars, bindVars, unitVars, TypeOK, CellTypeOK
<1>8. ASSUME NEW t \in Threads, MakeChild(t) PROVE TypeOK'
  <2> DEFINE series == [adapter |-> ChildAdapter(t), family |-> binding[t].handle,
                        unit |-> NoUnit]
             b == [adapter |-> ChildAdapter(t), handle |-> Len(log) + 1]
  <2>1. /\ call[t].what = "labels" /\ log' = Append(log, series)
        /\ childBound' = Set(childBound, call[t].child, b)
        /\ Return(t) /\ UNCHANGED <<cellVars, bound, bindMutex, unitVars, recorded>>
    BY <1>8 DEF MakeChild
  <2>2. ChildAdapter(t) \in Nat /\ binding[t].handle \in Nat /\ Len(log) + 1 \in Nat
    BY TypeFacts DEF ChildAdapter, TypeOK
  <2>3. series \in Series /\ b \in Bindings
    BY <2>2, TypeFacts DEF Series
  <2> HIDE DEF series, b
  <2>4. log' \in Seq(Series)
    BY <2>1, <2>3 DEF TypeOK
  <2>5. childBound' \in [Children -> Bindings]
    BY <2>1, <2>3 DEF Set, TypeOK
  <2> QED BY <2>1, <2>4, <2>5, ReturnTypes DEF cellVars, bindVars, unitVars, TypeOK, CellTypeOK
<1>9. ASSUME NEW t \in Threads, CheckValue(t) PROVE TypeOK'
  <2>1. UNCHANGED <<cellVars, bindVars, unitVars, recorded>>
    BY <1>9, CheckFacts
  <2>2. Return(t) \/ (UNCHANGED <<call, binding, av>> /\ \E l \in Steps : Goto(t, l))
    BY <1>9, CheckFacts, TypeFacts
  <2> QED BY <2>1, <2>2, ReturnTypes, GotoTypes DEF cellVars, bindVars, unitVars, TypeOK, CellTypeOK
<1>10. ASSUME NEW t \in Threads, Reconcile(t) PROVE TypeOK'
  <2>1. UNCHANGED <<cellVars, bindVars, unitVars, recorded>>
    BY <1>10 DEF Reconcile
  <2>2. Return(t) \/ (UNCHANGED <<call, binding, av>> /\ \E l \in Steps : Goto(t, l))
    BY <1>10, TypeFacts DEF Reconcile
  <2> QED BY <2>1, <2>2, ReturnTypes, GotoTypes DEF cellVars, bindVars, unitVars, TypeOK, CellTypeOK
<1>11. ASSUME NEW t \in Threads, WriteUnit(t) PROVE TypeOK'
  <2>1. call[t].unit \in Observed
    BY <1>11 DEF WriteUnit, CallInv, Samples
  <2>2. unitMutex' = {t}
    BY <1>11 DEF WriteUnit, UnitMutexFree
  <2> QED BY <1>11, <2>1, <2>2, TypeFacts DEF WriteUnit, Goto, bindVars, cellVars, TypeOK, CellTypeOK
<1>12. ASSUME NEW t \in Threads, Latch(t) PROVE TypeOK'
  BY <1>12, TypeFacts DEF Latch, Goto, cellVars, bindVars, TypeOK, CellTypeOK
<1>13. ASSUME NEW t \in Threads, Notify(t) PROVE TypeOK'
  <2>1. pc[t] = "notify" /\ Fits(binding[t])
    BY <1>13 DEF Notify, SeriesInv
  <2>2. notified' \in Seq([adapter : Nat, handle : Nat])
    <3>1. binding[t] \in Bindings /\ bound.handle \in Nat
      BY DEF TypeOK, Bounds
    <3> QED BY <1>13, <3>1 DEF Notify, TypeOK, Bindings
  <2>3. unitMutex' \in {{}} \union {{u} : u \in Threads}
    BY <1>13 DEF Notify, TypeOK
  <2> QED BY <1>13, <2>2, <2>3, TypeFacts DEF Notify, Goto, cellVars, bindVars, TypeOK, CellTypeOK
<1>14. ASSUME NEW t \in Threads, Record(t) PROVE TypeOK'
  <2>1. pc[t] = "record" /\ Return(t) /\ UNCHANGED <<cellVars, bindVars, unitVars>>
    BY <1>14 DEF Record
  <2>2. recorded' \subseteq [adapter : Nat, handle : Nat, unit : Observed]
    <3>1. call[t].unit \in Observed
      BY <2>1 DEF CallInv, Samples
    <3>2. binding[t].adapter \in Nat /\ binding[t].handle \in Nat
      BY TypeFacts DEF TypeOK
    <3> QED BY <1>14, <3>1, <3>2 DEF Record, TypeOK
  <2> QED BY <2>1, <2>2, ReturnTypes DEF cellVars, bindVars, unitVars, TypeOK, CellTypeOK
<1>15. CASE SetAdapter
  <2>1. ASSUME StoreAdapter PROVE CellTypeOK'
    BY <2>1, MaxSwapsAssumption DEF StoreAdapter, TypeOK, CellTypeOK
  <2>2. ASSUME NEW n \in cellPending, BumpCell(n) PROVE CellTypeOK'
    BY <2>2, MaxSwapsAssumption DEF BumpCell, Larger, TypeOK, CellTypeOK
  <2>3. CellTypeOK'
    BY <1>15, <2>1, <2>2 DEF SetAdapter, CellNext
  <2> QED BY <1>15, <2>3 DEF SetAdapter, bindVars, unitVars, TypeOK
<1>16. CASE UNCHANGED vars
  BY <1>16 DEF vars, bindVars, unitVars, cellVars, TypeOK, CellTypeOK
<1> QED BY <1>1, <1>2, <1>3, <1>4, <1>5, <1>6, <1>7, <1>8, <1>9, <1>10, <1>11, <1>12,
   <1>13, <1>14, <1>15, <1>16 DEF Next

\* Every step keeps the invariant.
LEMMA InvStep == IInv /\ [Next]_vars => IInv'
BY TypeStep, CallStep, MutexStep, UnitStep, KindsStep, DroppedStep, SeriesStep DEF IInv

----------------------------------------------------------------------------
(* The theorems.                                                           *)

\* The inductive invariant: who holds unit_mutex, what is latched and told by
\* when, and which handles fit which adapters.
THEOREM Invariance == Spec => []IInv
BY InvInit, InvStep, PTL DEF Spec

\* Every variable keeps its type.
THEOREM TypeCorrect == Spec => []TypeOK
<1>1. IInv => TypeOK
  BY DEF IInv
<1> QED BY <1>1, Invariance, PTL

\* A kind that two samples, or a sample and the unit, do not share is possible
\* only once the unit has a name and no kind.
LEMMA KindsFact == TypeOK /\ UnitInv /\ RecordedInv => KindsAgree
<1> SUFFICES ASSUME TypeOK, UnitInv, RecordedInv PROVE KindsAgree
  OBVIOUS
<1>1. \A r \in recorded : hasUnit \/ r.unit = NoUnit
  BY DEF RecordedInv, Agrees
<1>2. CASE unit.kind # ""
  <2>1. \A k \in Kinds : k = unit.kind
    BY <1>2 DEF Kinds, RecordedInv, Agrees
  <2> QED BY <1>1, <2>1 DEF KindsAgree
<1>3. CASE hasUnit /\ unit.kind = ""
  BY <1>1, <1>3 DEF KindsAgree, UnitInv
<1>4. CASE ~hasUnit /\ unit.kind = ""
  <2>1. Kinds = {}
    BY <1>1, <1>4, NoKind DEF Kinds
  <2> QED BY <1>1, <2>1 DEF KindsAgree
<1> QED BY <1>2, <1>3, <1>4

\* However the first dimensional samples race, on the family and on children
\* pinned to older bindings, the family's unit and all that is recorded have
\* one kind, unless the unit has a name and no kind.
THEOREM OneKind == Spec => []KindsAgree
<1>1. IInv => KindsAgree
  BY KindsFact DEF IInv
<1> QED BY <1>1, Invariance, PTL

\* In a program whose units all have kinds there is no exception: no two samples
\* of different kinds are recorded.
THEOREM NoExceptions ==
  ASSUME \A u \in Observed \union {Declared} : u # NoUnit => u.kind # ""
  PROVE  Spec => [](\A r, s \in recorded :
                      r.unit.kind # "" /\ s.unit.kind # "" => r.unit.kind = s.unit.kind)
<1>1. IInv => \A r, s \in recorded :
                r.unit.kind # "" /\ s.unit.kind # "" => r.unit.kind = s.unit.kind
  <2> SUFFICES ASSUME TypeOK, UnitInv, RecordedInv, NEW r \in recorded, NEW s \in recorded,
                      r.unit.kind # "", s.unit.kind # ""
               PROVE  r.unit.kind = s.unit.kind
    BY DEF IInv
  <2>1. hasUnit
    BY NoKind DEF RecordedInv, Agrees
  <2>2. unit.kind # ""
    BY <2>1 DEF UnitInv, TypeOK
  <2> QED BY <2>2 DEF RecordedInv, Agrees
<1> QED BY <1>1, Invariance, PTL

\* The unit that is latched is that of a sample that counts.
THEOREM OnlyRecorded == Spec => []DroppedSampleLatchesNothing
<1>1. IInv => DroppedSampleLatchesNothing
  BY DEF IInv
<1> QED BY <1>1, Invariance, PTL

\* The backend is told of an inferred unit at most once, whichever thread
\* comes first and however often the family re-registers.
THEOREM ToldOnce == Spec => []OneNotice
<1>1. IInv => OneNotice
  BY DEF IInv, UnitInv, OneNotice
<1> QED BY <1>1, Invariance, PTL

\* No sample and no child mixes an adapter with the series of another, through
\* any number of adapter swaps.
THEOREM OwnSeries == Spec => []SeriesOfItsAdapter
<1>1. IInv => SeriesOfItsAdapter
  BY DEF IInv, SeriesInv, Fits, SeriesOfItsAdapter
<1> QED BY <1>1, Invariance, PTL
=============================================================================
