-------------------------- MODULE CompositeAdapter --------------------------
(***************************************************************************)
(* CompositeAdapter (composite_adapter.hpp) under several threads.  It     *)
(* takes no lock: a call visits the children one after the other, one      *)
(* action each, and calls of other threads run in between.                 *)
(*                                                                         *)
(* A child is a recording backend, which shows a value for each series, or *)
(* a NullAdapter, which hands out one inert handle and records nothing.  A *)
(* handle of a recording child is the child and the series it stands for;  *)
(* a sample through it reaches that series, whoever it is passed to, for   *)
(* backends of one type cannot tell their handles apart.                   *)
(***************************************************************************)
EXTENDS Integers, SequencesExt

CONSTANTS
  Threads,             \* the threads that call
  Metrics,             \* the metrics that register
  Counters,            \* those that are incremented; the others are set
  DynamicLabels,       \* the labels children are made with
  Entries,             \* the list the composite is constructed from
  Foreign,             \* handles of other adapters the program also has
  Watched,             \* the child whose view is compared with the contract
  MaxCalls             \* bound: the calls made

ASSUME CompositeAssumption ==
  /\ Counters \subseteq Metrics
  /\ Entries \in Seq({"recording", "NullAdapter", "nullptr"})
  /\ IsFiniteSet(Threads)
  /\ MaxCalls \in Nat

VARIABLES
  value,               \* value[i][s]: what child i shows for series s
  known,               \* known[i]: the series child i registered or resolved
  held,                \* the handles the program holds
  call,                \* call[t]: the call t is in, and the child it is at
  calls,               \* how many calls there have been
  ledger               \* history: the increments of each series, when called

vars == <<value, known, held, call, calls, ledger>>

NoLabels == "unlabeled"
Series == Metrics \X ({NoLabels} \union DynamicLabels)

\* The children: the entries that are not null.
Dense(entries) ==
  FlattenSeq([i \in DOMAIN entries |-> IF entries[i] = "nullptr" THEN <<>> ELSE <<entries[i]>>])
Adapters == Dense(Entries)
Children == 1..Len(Adapters)
Recording == {i \in Children : Adapters[i] = "recording"}

\* What children hand back; a bundle is the handle the composite hands back.
Inert == [child |-> 0, series |-> <<>>]
Handle(i, s) == [child |-> i, series |-> s]
NoInertHandle(i, s) == Handle(0, s)                       \* mutant of Answers
Answers(i, s) == IF Adapters[i] = "recording" THEN Handle(i, s) ELSE Inert
Bundle(s, handles) == [composite |-> TRUE, series |-> s, handles |-> handles]
Foreigner(handles) == [composite |-> handles # <<>>, series |-> <<>>, handles |-> handles]

Handles == {Handle(i, s) : i \in Children, s \in Series} \union {Inert}
Bundles == [composite : {TRUE}, series : Series, handles : Seq(Handles)]
NoBundle == Foreigner(<<>>)

\* The sizes are compared and nothing else is, so the handle of a composite of
\* as many adapters is not told apart.  A binding's adapter and handle belong
\* together, so no sample brings one (a notice may: see UnitLatch).
ASSUME ChildrenAssumption ==
  /\ Watched \in Recording
  /\ Foreign \subseteq [composite : BOOLEAN, series : {<<>>}, handles : Seq({Inert})]
  /\ \A f \in Foreign : Len(f.handles) # Len(Adapters)

Idle == [op |-> "none", on |-> NoBundle, series |-> <<>>, next |-> 1, got |-> <<>>]

Busy == [op : {"register", "resolve", "inc", "set"},
         on : Bundles \union Foreign \union {NoBundle}, series : Series \union {<<>>},
         next : 1..Len(Adapters) + 1, got : Seq(Handles)]

TypeOK ==
  /\ value \in [Children -> [Series -> Nat]]
  /\ known \in [Children -> SUBSET Series]
  /\ held \subseteq Bundles \union Foreign
  /\ call \in [Threads -> Busy \union {Idle}]
  /\ calls \in 0..MaxCalls
  /\ ledger \in [Series -> Nat]

Init ==
  /\ value = [i \in Children |-> [s \in Series |-> 0]]
  /\ known = [i \in Children |-> {}]
  /\ held = Foreign
  /\ call = [t \in Threads |-> Idle]
  /\ calls = 0
  /\ ledger = [s \in Series |-> 0]

----------------------------------------------------------------------------

Begin(t, op, on, s) ==
  /\ call[t] = Idle
  /\ calls < MaxCalls /\ calls' = calls + 1
  /\ call' = [call EXCEPT ![t] =
       [op |-> op, on |-> on, series |-> s, next |-> 1, got |-> <<>>]]
  /\ UNCHANGED <<value, known, held>>

Register(t) ==
  /\ \E m \in Metrics : Begin(t, "register", NoBundle, <<m, NoLabels>>)
  /\ UNCHANGED ledger

\* resolve returns a handle that is not one of its own, or of another size.
AnyBundle(b) == b.composite                               \* mutant of Ours
Ours(b) == b.composite /\ Len(b.handles) = Len(Adapters)

Resolve(t) ==
  /\ \E b \in held, d \in DynamicLabels :
       IF Ours(b) THEN Begin(t, "resolve", b, <<b.series[1], d>>)
                  ELSE call[t] = Idle /\ UNCHANGED <<value, known, held, call, calls>>
  /\ UNCHANGED ledger

\* A sample; it does nothing on a handle that is not of a composite.
Sample(t) ==
  \E b \in {h \in held : h.composite} :
    LET op == IF b \in Foreign THEN "set" ELSE IF b.series[1] \in Counters THEN "inc" ELSE "set"
    IN /\ Begin(t, op, b, b.series)
       /\ ledger' = IF op = "inc" THEN [ledger EXCEPT ![b.series] = @ + 1] ELSE ledger

SampleForeign(t) ==
  /\ call[t] = Idle
  /\ \E b \in held : ~b.composite
  /\ UNCHANGED vars

----------------------------------------------------------------------------
(* The loops over the children.                                            *)

Effect(op, v) == IF op = "inc" THEN v + 1 ELSE 3           \* set writes 3

MeetsFirst(handles, i) == handles[1]                      \* mutant of HandleOf
HandleOf(handles, i) == handles[i]

\* Child i registers or resolves; its answer goes at the end of the bundle.
\* The parent's handle says whose series are resolved; of the inert one, which
\* a recording child does not know either, that handle.
Collects(t, i) ==
  LET c == call[t]
      answer == IF c.op = "register" THEN Answers(i, c.series)
                ELSE IF Adapters[i] = "NullAdapter" \/ HandleOf(c.on.handles, i) = Inert THEN Inert
                ELSE Handle(HandleOf(c.on.handles, i).child, c.series)
  IN
  /\ c.op \in {"register", "resolve"}
  /\ call' = [call EXCEPT ![t].next = i + 1, ![t].got = Append(@, answer)]
  /\ known' = IF answer = Inert THEN known
              ELSE [known EXCEPT ![answer.child] = @ \union {c.series}]
  /\ UNCHANGED value

\* What a child makes of a sample; a NullAdapter, and whoever is given the
\* handle of one, nothing.
Recorded(op, h) ==
  IF h = Inert THEN value ELSE [value EXCEPT ![h.child][h.series] = Effect(op, @)]

\* fan_out: child i is given the i-th handle.
FansOut(t, i) ==
  LET c == call[t]
      h == HandleOf(c.on.handles, i)
  IN
  /\ c.op \in {"inc", "set"}
  /\ call' = [call EXCEPT ![t].next = i + 1]
  /\ value' = Recorded(c.op, h)
  /\ UNCHANGED known

StopsEarly(c) == Len(c.on.handles) - 1                    \* mutant of LastChild
LastChild(c) ==
  IF c.op \in {"inc", "set"}
    THEN IF Len(c.on.handles) < Len(Adapters) THEN Len(c.on.handles) ELSE Len(Adapters)
    ELSE Len(Adapters)

Visit(t) ==
  /\ call[t] # Idle
  /\ call[t].next <= LastChild(call[t])
  /\ Collects(t, call[t].next) \/ FansOut(t, call[t].next)
  /\ UNCHANGED <<held, calls, ledger>>

Return(t) ==
  LET c == call[t] IN
  /\ c # Idle
  /\ c.next > LastChild(c)
  /\ held' = IF c.op \in {"register", "resolve"}
               THEN held \union {Bundle(c.series, c.got)} ELSE held
  /\ call' = [call EXCEPT ![t] = Idle]
  /\ UNCHANGED <<value, known, calls, ledger>>

Next ==
  \E t \in Threads :
    Register(t) \/ Resolve(t) \/ Sample(t) \/ SampleForeign(t) \/ Visit(t) \/ Return(t)

Spec == Init /\ [][Next]_vars

----------------------------------------------------------------------------
(* Properties.                                                             *)

OurCall(t) == call[t].series # <<>>                      \* not idle, not on a stranger

\* A bundle, complete or under way, has at each position the handle that the
\* child at that position gave for the bundle's series, and the child knows
\* it, however the calls of other threads ran in between.
HandlesAligned ==
  /\ \A b \in held \ Foreign :
       /\ Len(b.handles) = Len(Adapters)
       /\ \A i \in Children : /\ b.handles[i] = Answers(i, b.series)
                              /\ i \in Recording => b.series \in known[i]
  /\ \A t \in Threads : \A i \in 1..Len(call[t].got) :
       call[t].got[i] = Answers(i, call[t].series)

\* Every increment reaches every child once: a child lags behind the program
\* only by the calls that have not come to it yet.
OnTheWay(i, s) == {t \in Threads : /\ call[t].op = "inc"
                                  /\ call[t].series = s
                                  /\ call[t].next <= i}
CountedSeries == {s \in Series : s[1] \in Counters}
NoSampleLostOrDoubled ==
  \A i \in Recording, s \in CountedSeries :
    value[i][s] + Cardinality(OnTheWay(i, s)) = ledger[s]

\* A child of the composite is served as if it were attached by itself
\* ("forwards every Adapter call to each of them"), while other threads' calls
\* are half way through the children and foreign handles come in.  (The
\* children need not agree with each other: two sets may come to them in
\* different orders.)
Attached ==
  INSTANCE AttachedAdapter WITH
    LabelSets <- {NoLabels} \union DynamicLabels,
    value <- value[Watched],
    known <- known[Watched],
    held <- {b.series : b \in held \ Foreign},
    asked <- [t \in Threads |-> IF OurCall(t) THEN [op |-> call[t].op, series |-> call[t].series]
                                              ELSE [op |-> "none"]],
    heard <- {t \in Threads : OurCall(t) /\ call[t].next > Watched}

AsIfAttached == Attached!AttachedSpec
=============================================================================
