-------------------------- MODULE CompositeProofs --------------------------
(***************************************************************************)
(* CompositeAdapter, for all threads, metrics, labels, lists of adapters   *)
(* and bounds: a bundle is aligned with the children, each child is served *)
(* as if it were attached by itself, and no increment is lost or doubled.  *)
(***************************************************************************)
EXTENDS CompositeAdapter, FiniteSetTheorems, WellFoundedInduction, TLAPS

\* What a call under way has: a bundle of the composite's, or a stranger for a
\* sample; an answer of each child visited, whose series that child then knows.
CallFits(t) ==
  LET c == call[t] IN
  /\ c.on \in held \union {NoBundle}
  /\ c.op \in {"register", "resolve"} =>
       /\ c.series \in Series
       /\ Len(c.got) = c.next - 1
       /\ \A i \in Recording : i < c.next => c.series \in known[i]
  /\ c.op = "resolve" => c.on \in held \ Foreign
  /\ c.op \in {"inc", "set"} => c.on \in held /\ c.series = c.on.series

CallInv == \A t \in Threads : call[t] # Idle => CallFits(t)

IInv == TypeOK /\ HandlesAligned /\ CallInv

----------------------------------------------------------------------------
(* Facts about the constants.                                              *)

\* A set of naturals that is not empty has a least element.
LEMMA LeastElement ==
  ASSUME NEW T \in SUBSET Nat, T # {}
  PROVE  \E x \in T : \A y \in T : ~(y < x)
<1> DEFINE R == OpToRel(<, Nat)
<1>1. IsWellFoundedOn(R, Nat)
  BY NatLessThanWellFounded
<1>2. \A x, y \in Nat : y < x => <<y, x>> \in R
  BY DEF OpToRel
<1> HIDE DEF R
<1>3. \E x \in T : \A y \in T : ~(<<y, x>> \in R)
  BY <1>1, WFMin
<1> QED BY <1>2, <1>3

\* What appending each list to what came before computes, up to the n-th.
Appends(f, ss, n) == f = [i \in 1..n |-> IF i = 1 THEN ss[i] ELSE f[i - 1] \o ss[i]]

\* There is such an f for every number of lists.
LEMMA AppendsExists ==
  ASSUME NEW ss, NEW N \in Nat, N # 0
  PROVE  \E f : Appends(f, ss, N)
<1> DEFINE T == {n \in 1..N : ~\E f : Appends(f, ss, n)}
<1> SUFFICES ASSUME T # {} PROVE FALSE
  <2>1. N \in 1..N
    OBVIOUS
  <2> QED BY <2>1
<1>1. T \in SUBSET Nat
  OBVIOUS
<1>2. PICK n \in T : \A m \in T : ~(m < n)
  BY <1>1, LeastElement
<1>3. n \in 1..N /\ ~\E f : Appends(f, ss, n)
  OBVIOUS
<1>4. CASE n = 1
  <2> DEFINE g == [i \in 1..1 |-> ss[i]]
  <2>1. Appends(g, ss, 1)
    BY DEF Appends
  <2> QED BY <1>3, <1>4, <2>1
<1>5. CASE n # 1
  <2>1. n - 1 \in 1..N /\ n - 1 < n
    BY <1>3, <1>5
  <2>2. n - 1 \notin T
    BY <1>2, <2>1
  <2>3. PICK f : Appends(f, ss, n - 1)
    BY <2>1, <2>2
  <2> DEFINE g == [i \in 1..n |-> IF i = n THEN f[n - 1] \o ss[n] ELSE f[i]]
  <2>4. \A i \in 1..(n - 1) : f[i] = IF i = 1 THEN ss[i] ELSE f[i - 1] \o ss[i]
    BY <2>3 DEF Appends
  <2>5. \A i \in 1..n : g[i] = IF i = 1 THEN ss[i] ELSE g[i - 1] \o ss[i]
    BY <1>3, <1>5, <2>4
  <2>6. g = [i \in 1..n |-> g[i]]
    OBVIOUS
  <2> HIDE DEF g
  <2>7. g = [i \in 1..n |-> IF i = 1 THEN ss[i] ELSE g[i - 1] \o ss[i]]
    BY <2>5, <2>6
  <2>8. Appends(g, ss, n)
    BY ONLY <2>7 DEF Appends
  <2> QED BY <1>3, <2>8
<1> QED BY <1>4, <1>5

\* Lists of kinds, one after another, are a list of kinds.
LEMMA FlattenedKinds ==
  ASSUME NEW Kinds, NEW ss \in Seq(Seq(Kinds))
  PROVE  FlattenSeq(ss) \in Seq(Kinds)
<1> DEFINE N == Len(ss)
<1>1. N \in Nat /\ Len(ss) = N /\ \A i \in 1..N : ss[i] \in Seq(Kinds)
  OBVIOUS
<1>2. CASE N = 0
  <2>1. FlattenSeq(ss) = ss
    BY <1>2 DEF FlattenSeq
  <2>2. ss = <<>>
    BY <1>2
  <2>3. ss \in Seq(Kinds)
    BY ONLY <2>2
  <2> HIDE DEF N
  <2> QED BY ONLY <2>1, <2>3
<1>3. CASE N # 0
  <2> DEFINE F == CHOOSE f : f = [i \in 1..N |-> IF i = 1 THEN ss[i] ELSE f[i - 1] \o ss[i]]
  <2>1. FlattenSeq(ss) = F[N]
    BY <1>3 DEF FlattenSeq
  <2> HIDE DEF N
  <2>2. \E f : Appends(f, ss, N)
    BY <1>1, <1>3, AppendsExists
  <2>3. F = [i \in 1..N |-> IF i = 1 THEN ss[i] ELSE F[i - 1] \o ss[i]]
    BY <2>2 DEF Appends
  <2> HIDE DEF F
  <2>4. \A i \in 1..N : F[i] = IF i = 1 THEN ss[i] ELSE F[i - 1] \o ss[i]
    BY <2>3
  <2> DEFINE T == {i \in 1..N : F[i] \notin Seq(Kinds)}
  <2>5. T = {}
    <3> SUFFICES ASSUME T # {} PROVE FALSE
      OBVIOUS
    <3>1. T \in SUBSET Nat
      BY <1>1
    <3>2. PICK n \in T : \A m \in T : ~(m < n)
      BY <3>1, LeastElement
    <3>3. n \in 1..N /\ F[n] \notin Seq(Kinds)
      OBVIOUS
    <3>4. n # 1
      BY <1>1, <2>4, <3>3
    <3>5. n - 1 \in 1..N /\ n - 1 < n
      BY <1>1, <3>3, <3>4
    <3>6. F[n - 1] \in Seq(Kinds)
      BY <3>2, <3>5
    <3>7. F[n] = F[n - 1] \o ss[n] /\ ss[n] \in Seq(Kinds)
      BY <1>1, <2>4, <3>3, <3>4
    <3> QED BY <3>3, <3>6, <3>7
  <2>6. N \in 1..N
    BY <1>1, <1>3
  <2> QED BY <2>1, <2>5, <2>6
<1> QED BY <1>2, <1>3

\* The children are recording or null adapters: no null entry is left.
LEMMA DenseFacts == Adapters \in Seq({"recording", "NullAdapter"})
<1> DEFINE Kinds == {"recording", "NullAdapter"}
<1> DEFINE ss == [i \in DOMAIN Entries |-> IF Entries[i] = "nullptr" THEN <<>> ELSE <<Entries[i]>>]
<1>1. Adapters = FlattenSeq(ss)
  BY DEF Adapters, Dense
<1>2. \A i \in 1..Len(Entries) : Entries[i] \in {"recording", "NullAdapter", "nullptr"}
  BY CompositeAssumption
<1>3. ss \in Seq(Seq(Kinds))
  <2>1. Len(Entries) \in Nat /\ DOMAIN Entries = 1..Len(Entries)
    BY CompositeAssumption
  <2>2. ASSUME NEW i \in 1..Len(Entries) PROVE ss[i] \in Seq(Kinds)
    <3>1. <<>> \in Seq(Kinds) /\ \A k \in Kinds : <<k>> \in Seq(Kinds)
      OBVIOUS
    <3>2. ss[i] = IF Entries[i] = "nullptr" THEN <<>> ELSE <<Entries[i]>>
      BY <2>1
    <3>3. Entries[i] = "nullptr" \/ Entries[i] \in Kinds
      BY <1>2
    <3> HIDE DEF Kinds, ss
    <3> QED BY <3>1, <3>2, <3>3
  <2>3. ss = [i \in 1..Len(Entries) |-> ss[i]]
    BY <2>1
  <2> HIDE DEF ss, Kinds
  <2> QED BY <2>1, <2>2, <2>3
<1> HIDE DEF ss
<1>4. FlattenSeq(ss) \in Seq(Kinds)
  BY <1>3, FlattenedKinds
<1> QED BY <1>1, <1>4

\* The list of adapters is a finite one, and the watched child records.
LEMMA ChildFacts ==
  /\ Len(Adapters) \in Nat
  /\ Children = 1..Len(Adapters)
  /\ \A i \in Children : Adapters[i] \in {"recording", "NullAdapter"}
  /\ Recording \subseteq Children
  /\ Watched \in Recording
<1>1. Adapters \in Seq({"recording", "NullAdapter"}) /\ Watched \in Recording
  BY DenseFacts, ChildrenAssumption
<1>2. Len(Adapters) \in Nat
  BY <1>1
<1>3. \A i \in 1..Len(Adapters) : Adapters[i] \in {"recording", "NullAdapter"}
  BY <1>1
<1>4. Recording \subseteq Children
  BY DEF Recording
<1> QED BY <1>1, <1>2, <1>3, <1>4 DEF Children

\* A series is a pair, so it is not the empty tuple of strangers and of idle
\* calls.
LEMMA SeriesFacts == \A s \in Series : s # <<>>
BY DEF Series

\* A stranger's handle has no series, no live handle and not the composite's size.
LEMMA ForeignFacts ==
  \A f \in Foreign :
    /\ f.series = <<>> /\ f.composite \in BOOLEAN
    /\ f.handles \in Seq({Inert}) /\ ~Ours(f)
BY ChildrenAssumption DEF Ours

\* A bundle of the composite's is no stranger.
LEMMA BundleFacts ==
  \A b \in Bundles : b \notin Foreign /\ b.composite /\ b.series \in Series
                     /\ b.handles \in Seq(Handles)
<1>1. \A b \in Bundles : b.series \in Series /\ b.composite = TRUE /\ b.handles \in Seq(Handles)
  BY DEF Bundles
<1> QED BY <1>1, ForeignFacts, SeriesFacts

\* A recording child answers its own handle, a NullAdapter the inert one.
LEMMA AnswerFacts ==
  ASSUME NEW i \in Children, NEW s \in Series
  PROVE  /\ Answers(i, s) \in Handles
         /\ i \in Recording => Answers(i, s) = Handle(i, s) /\ Answers(i, s).child = i
                               /\ Answers(i, s).series = s /\ Answers(i, s) # Inert
         /\ i \notin Recording => Answers(i, s) = Inert
<1>1. i = 0 => FALSE
  BY ChildFacts
<1>2. Handle(i, s) \in Handles /\ Inert \in Handles
  BY DEF Handles
<1>3. Handle(i, s).child = i /\ Handle(i, s).series = s
  BY DEF Handle
<1>5. Inert.child = 0
  BY DEF Inert
<1>4. i \in Recording <=> Adapters[i] = "recording"
  BY DEF Recording
<1> QED BY <1>1, <1>2, <1>3, <1>4, <1>5 DEF Answers

\* At the start no call is under way and only strangers are held.
LEMMA InvInit == Init => IInv
<1> SUFFICES ASSUME Init PROVE IInv
  OBVIOUS
<1>1. TypeOK
  BY CompositeAssumption DEF Init, TypeOK
<1>2. HandlesAligned /\ CallInv
  BY DEF Init, HandlesAligned, CallInv, Idle
<1> QED BY <1>1, <1>2 DEF IInv

----------------------------------------------------------------------------
(* The invariant is preserved.                                             *)

\* The parts of a call under way have their types.
LEMMA BusyFacts ==
  ASSUME TypeOK, NEW t \in Threads, call[t] # Idle
  PROVE  /\ call[t] \in Busy
         /\ call[t].op \in {"register", "resolve", "inc", "set"}
         /\ call[t].on \in Bundles \union Foreign \union {NoBundle}
         /\ call[t].series \in Series \union {<<>>}
         /\ call[t].next \in 1..Len(Adapters) + 1
         /\ call[t].got \in Seq(Handles)
<1>1. call[t] \in Busy
  BY DEF TypeOK
<1> QED BY <1>1 DEF Busy

\* A call that begins leaves the children and the other calls alone.
LEMMA BeginInv ==
  ASSUME IInv, NEW t \in Threads, NEW op \in {"register", "resolve", "inc", "set"},
         NEW on \in held \union {NoBundle}, NEW s \in Series \union {<<>>},
         Begin(t, op, on, s), ledger' \in [Series -> Nat],
         op \in {"register", "resolve"} => s \in Series,
         op = "resolve" => on \in held \ Foreign,
         op \in {"inc", "set"} => on \in held /\ s = on.series
  PROVE  IInv'
<1> DEFINE c == [op |-> op, on |-> on, series |-> s, next |-> 1, got |-> <<>>]
<1>1. /\ call' = [call EXCEPT ![t] = c] /\ calls' \in 0..MaxCalls
      /\ UNCHANGED <<value, known, held>>
  BY CompositeAssumption DEF Begin, IInv, TypeOK
<1>2. c \in Busy
  <2>1. on \in Bundles \union Foreign \union {NoBundle}
    BY DEF IInv, TypeOK
  <2>2. 1 \in 1..Len(Adapters) + 1 /\ <<>> \in Seq(Handles)
    BY ChildFacts
  <2> QED BY <2>1, <2>2 DEF Busy
<1>3. TypeOK'
  BY <1>1, <1>2 DEF IInv, TypeOK
<1>4. \A u \in Threads : call'[u] = IF u = t THEN c ELSE call[u]
  BY <1>1 DEF IInv, TypeOK
<1>5. HandlesAligned'
  <2>1. \A u \in Threads : \A i \in 1..Len(call'[u].got) :
          call'[u].got[i] = Answers(i, call'[u].series)
    BY <1>4 DEF IInv, HandlesAligned
  <2> QED BY <2>1, <1>1 DEF IInv, HandlesAligned, Children, Recording
<1>6. CallInv'
  <2> SUFFICES ASSUME NEW u \in Threads, call'[u] # Idle
               PROVE  CallFits(u)'
    BY DEF CallInv
  <2>1. CASE u = t
    <3>1. \A i \in Recording : ~(i < 1)
      BY ChildFacts
    <3> QED BY <2>1, <3>1, <1>1, <1>4 DEF CallFits
  <2>2. CASE u # t
    BY <2>2, <1>1, <1>4 DEF IInv, CallInv, CallFits
  <2> QED BY <2>1, <2>2
<1> QED BY <1>3, <1>5, <1>6 DEF IInv

\* What child i answers is the handle of its own series, as the parent's
\* bundle is aligned.
LEMMA CollectsAnswer ==
  ASSUME IInv, NEW t \in Threads, call[t] # Idle, NEW i \in Children,
         call[t].op \in {"register", "resolve"}
  PROVE  (IF call[t].op = "register" THEN Answers(i, call[t].series)
          ELSE IF Adapters[i] = "NullAdapter" \/ HandleOf(call[t].on.handles, i) = Inert THEN Inert
          ELSE Handle(HandleOf(call[t].on.handles, i).child, call[t].series))
         = Answers(i, call[t].series)
<1> DEFINE c == call[t]
<1>1. CallFits(t) /\ c.series \in Series
  BY DEF IInv, CallInv, CallFits
<1>2. CASE c.op = "register"
  BY <1>2
<1>3. CASE c.op = "resolve"
  <2>1. c.on \in held \ Foreign
    BY <1>1, <1>3 DEF CallFits
  <2>2. c.on.series \in Series
    BY <2>1, BundleFacts DEF IInv, TypeOK
  <2>3. c.on.handles[i] = Answers(i, c.on.series)
    BY <2>1 DEF IInv, HandlesAligned
  <2>4. CASE i \in Recording
    <3>1. c.on.handles[i].child = i /\ c.on.handles[i] # Inert /\ Adapters[i] # "NullAdapter"
      BY <2>4, <2>2, <2>3, AnswerFacts DEF Recording
    <3>2. Answers(i, c.series) = Handle(i, c.series)
      BY <2>4, <1>1, AnswerFacts
    <3> QED BY <3>1, <3>2, <1>3 DEF HandleOf
  <2>5. CASE i \notin Recording
    <3>1. Adapters[i] = "NullAdapter" /\ Answers(i, c.series) = Inert
      BY <2>5, <1>1, AnswerFacts, ChildFacts DEF Recording
    <3> QED BY <3>1, <1>3
  <2> QED BY <2>4, <2>5
<1> QED BY <1>2, <1>3

\* A child that is visited is there, and for a sample so is its handle.
LEMMA VisitFacts ==
  ASSUME IInv, NEW t \in Threads, call[t] # Idle, call[t].next <= LastChild(call[t])
  PROVE  /\ call[t].next \in Children
         /\ call[t].op \in {"inc", "set"} => HandleOf(call[t].on.handles, call[t].next) \in Handles
<1> DEFINE c == call[t]
<1>1. c.next \in 1..Len(Adapters) + 1 /\ Len(Adapters) \in Nat
  BY BusyFacts, ChildFacts DEF IInv
<1>2. CASE c.op \notin {"inc", "set"}
  BY <1>1, <1>2, ChildFacts DEF LastChild
<1>3. CASE c.op \in {"inc", "set"}
  <2>1. c.on \in Bundles \union Foreign
    BY <1>3 DEF IInv, TypeOK, CallInv, CallFits
  <2>2. Inert \in Handles
    BY DEF Handles
  <2>3. c.on.handles \in Seq(Handles)
    BY <2>1, <2>2, BundleFacts, ForeignFacts
  <2>4. c.next \in 1..Len(Adapters) /\ c.next \in 1..Len(c.on.handles)
    BY <1>1, <1>3, <2>3 DEF LastChild
  <2> QED BY <2>3, <2>4, ChildFacts DEF HandleOf
<1> QED BY <1>2, <1>3

\* A child registers or resolves, and its answer goes to its place.
LEMMA CollectsInv ==
  ASSUME IInv, NEW t \in Threads, call[t] # Idle, call[t].next \in Children,
         Collects(t, call[t].next), UNCHANGED <<held, calls, ledger>>
  PROVE  IInv'
<1> DEFINE c == call[t]
           i == c.next
           a == Answers(i, c.series)
           d == [c EXCEPT !.next = i + 1, !.got = Append(@, a)]
<1>1. /\ c \in Busy /\ c.series \in Series /\ c.got \in Seq(Handles)
      /\ c.op \in {"register", "resolve"} /\ Len(c.got) = i - 1
      /\ i \in Nat /\ i # 0
  BY BusyFacts, ChildFacts DEF IInv, CallInv, CallFits, Collects
<1>2. /\ a \in Handles
      /\ i \in Recording => a.child = i /\ a # Inert
      /\ i \notin Recording => a = Inert
  BY <1>1, AnswerFacts
<1>3. /\ call' = [call EXCEPT ![t].next = i + 1, ![t].got = Append(@, a)]
      /\ known' = IF a = Inert THEN known
                  ELSE [known EXCEPT ![a.child] = @ \union {c.series}]
      /\ value' = value
  <2> HIDE DEF a
  <2>1. (IF c.op = "register" THEN Answers(i, c.series)
         ELSE IF Adapters[i] = "NullAdapter" \/ HandleOf(c.on.handles, i) = Inert THEN Inert
         ELSE Handle(HandleOf(c.on.handles, i).child, c.series)) = a
    BY <1>1, CollectsAnswer DEF a
  <2> QED BY <2>1 DEF Collects
<1>4. d \in Busy
  <2>1. i + 1 \in 1..Len(Adapters) + 1
    BY <1>1, ChildFacts
  <2>2. Append(c.got, a) \in Seq(Handles)
    BY <1>1, <1>2
  <2> QED BY <1>1, <2>1, <2>2 DEF Busy
<1>5. /\ call' \in [Threads -> Busy \union {Idle}]
      /\ \A u \in Threads : call'[u] = IF u = t THEN d ELSE call[u]
  BY <1>3, <1>4 DEF IInv, TypeOK
<1>6. /\ known' \in [Children -> SUBSET Series]
      /\ \A j \in Children : known[j] \subseteq known'[j]
      /\ i \in Recording => c.series \in known'[i]
  BY <1>1, <1>2, <1>3 DEF IInv, TypeOK
<1>7. TypeOK'
  BY <1>3, <1>5, <1>6 DEF IInv, TypeOK
<1>8. /\ d.got = Append(c.got, a) /\ d.series = c.series /\ d.next = i + 1
      /\ d.op = c.op /\ d.on = c.on
  BY <1>1 DEF Busy
<1>9. HandlesAligned'
  <2>1. \A j \in 1..Len(d.got) : d.got[j] = Answers(j, d.series)
    <3>1. \A j \in 1..Len(c.got) : c.got[j] = Answers(j, c.series)
      BY DEF IInv, HandlesAligned
    <3>2. Len(Append(c.got, a)) = i
      BY <1>1
    <3>3. \A j \in 1..i : Append(c.got, a)[j] = IF j = i THEN a ELSE c.got[j]
      BY <1>1
    <3> QED BY <1>1, <1>8, <3>1, <3>2, <3>3
  <2>2. \A u \in Threads : \A j \in 1..Len(call'[u].got) :
          call'[u].got[j] = Answers(j, call'[u].series)
    BY <1>5, <2>1 DEF IInv, HandlesAligned
  <2>3. \A b \in held' \ Foreign :
          /\ Len(b.handles) = Len(Adapters)
          /\ \A j \in Children : /\ b.handles[j] = Answers(j, b.series)
                                 /\ j \in Recording => b.series \in known'[j]
    BY <1>6, ChildFacts DEF IInv, HandlesAligned
  <2> QED BY <2>2, <2>3 DEF HandlesAligned, Children, Recording
<1>10. CallInv'
  <2> SUFFICES ASSUME NEW u \in Threads, call'[u] # Idle
               PROVE  CallFits(u)'
    BY DEF CallInv
  <2>1. CASE u = t
    <3>1. CallFits(t)
      BY DEF IInv, CallInv
    <3>2. Len(d.got) = d.next - 1
      BY <1>1, <1>8
    <3>3. \A j \in Recording : j < i + 1 => c.series \in known'[j]
      <4> SUFFICES ASSUME NEW j \in Recording, j < i + 1 PROVE c.series \in known'[j]
        OBVIOUS
      <4>1. j < i \/ j = i
        BY <1>1, ChildFacts
      <4> QED BY <4>1, <3>1, <1>1, <1>6, ChildFacts DEF CallFits
    <3> QED BY <2>1, <1>1, <1>5, <1>8, <3>1, <3>2, <3>3 DEF CallFits
  <2>2. CASE u # t
    <3>1. call[u] # Idle /\ call'[u] = call[u] /\ CallFits(u)
      BY <2>2, <1>5 DEF IInv, CallInv
    <3> QED BY <3>1, <1>6, ChildFacts DEF CallFits
  <2> QED BY <2>1, <2>2
<1> QED BY <1>7, <1>9, <1>10 DEF IInv

\* A child is given its handle of a sample.
LEMMA FansOutInv ==
  ASSUME IInv, NEW t \in Threads, call[t] # Idle, call[t].next <= LastChild(call[t]),
         FansOut(t, call[t].next), UNCHANGED <<held, calls, ledger>>
  PROVE  IInv'
<1> DEFINE c == call[t]
           i == c.next
           h == HandleOf(c.on.handles, i)
           d == [c EXCEPT !.next = i + 1]
<1>1. /\ c \in Busy /\ c.op \in {"inc", "set"} /\ i \in Children /\ h \in Handles
      /\ value' = Recorded(c.op, h) /\ known' = known
      /\ call' = [call EXCEPT ![t].next = i + 1]
  BY BusyFacts, VisitFacts DEF IInv, FansOut
<1>2. value' \in [Children -> [Series -> Nat]]
  <2>1. CASE h = Inert
    BY <2>1, <1>1 DEF Recorded, IInv, TypeOK
  <2>2. CASE h # Inert
    <3>1. h.child \in Children /\ h.series \in Series
      <4>1. PICK j \in Children, s \in Series : h = Handle(j, s)
        BY <2>2, <1>1 DEF Handles
      <4>2. Handle(j, s).child = j /\ Handle(j, s).series = s
        BY DEF Handle
      <4> HIDE DEF h
      <4> QED BY <4>1, <4>2
    <3>2. \A v \in Nat : Effect(c.op, v) \in Nat
      BY DEF Effect
    <3>3. value' = [value EXCEPT ![h.child][h.series] = Effect(c.op, @)]
      BY <2>2, <1>1 DEF Recorded
    <3> HIDE DEF h
    <3> QED BY <3>1, <3>2, <3>3 DEF IInv, TypeOK
  <2> QED BY <2>1, <2>2
<1>3. d \in Busy
  <2>1. i + 1 \in 1..Len(Adapters) + 1
    BY <1>1, ChildFacts
  <2> QED BY <1>1, <2>1 DEF Busy
<1>4. /\ call' \in [Threads -> Busy \union {Idle}]
      /\ \A u \in Threads : call'[u] = IF u = t THEN d ELSE call[u]
  BY <1>1, <1>3 DEF IInv, TypeOK
<1>5. TypeOK'
  BY <1>1, <1>2, <1>4 DEF IInv, TypeOK
<1>6. d.got = c.got /\ d.series = c.series /\ d.op = c.op /\ d.on = c.on
  BY <1>1 DEF Busy
<1>7. HandlesAligned'
  <2>1. \A u \in Threads : call'[u].got = call[u].got /\ call'[u].series = call[u].series
    BY <1>4, <1>6
  <2> QED BY <2>1, <1>1 DEF IInv, HandlesAligned, Children, Recording
<1>8. CallInv'
  <2> SUFFICES ASSUME NEW u \in Threads, call'[u] # Idle
               PROVE  CallFits(u)'
    BY DEF CallInv
  <2>1. CASE u = t
    BY <2>1, <1>1, <1>4, <1>6 DEF IInv, CallInv, CallFits
  <2>2. CASE u # t
    BY <2>2, <1>1, <1>4 DEF IInv, CallInv, CallFits
  <2> QED BY <2>1, <2>2
<1> QED BY <1>5, <1>7, <1>8 DEF IInv

\* The answers of all children are the bundle that is handed back.
LEMMA ReturnInv ==
  ASSUME IInv, NEW t \in Threads, Return(t)
  PROVE  IInv'
<1> DEFINE c == call[t]
           b == Bundle(c.series, c.got)
<1>1. /\ c # Idle /\ c.next > LastChild(c)
      /\ call' = [call EXCEPT ![t] = Idle]
      /\ UNCHANGED <<value, known, calls, ledger>>
  BY DEF Return
<1>2. CallFits(t) /\ c.next \in 1..Len(Adapters) + 1 /\ c.got \in Seq(Handles)
  BY <1>1, BusyFacts DEF IInv, CallInv
<1>3. \/ held' = held
      \/ /\ c.op \in {"register", "resolve"}
         /\ held' = held \union {b}
  BY DEF Return
<1>4. c.op \in {"register", "resolve"} =>
        /\ b \in Bundles /\ Len(b.handles) = Len(Adapters)
        /\ \A i \in Children : /\ b.handles[i] = Answers(i, b.series)
                               /\ i \in Recording => b.series \in known[i]
  <2> SUFFICES ASSUME c.op \in {"register", "resolve"}
               PROVE  /\ b \in Bundles /\ Len(b.handles) = Len(Adapters)
                      /\ \A i \in Children : /\ b.handles[i] = Answers(i, b.series)
                                             /\ i \in Recording => b.series \in known[i]
    OBVIOUS
  <2>1. b.handles = c.got /\ b.series = c.series /\ c.series \in Series
    BY <1>2 DEF Bundle, CallFits
  <2>2. b \in Bundles
    BY <2>1, <1>2 DEF Bundle, Bundles
  <2>3. c.next = Len(Adapters) + 1 /\ Len(c.got) = Len(Adapters)
    BY <1>1, <1>2, ChildFacts DEF LastChild, CallFits
  <2>4. \A i \in Children : i \in 1..Len(c.got) /\ i < c.next
    BY <2>3, ChildFacts
  <2>5. \A i \in 1..Len(c.got) : c.got[i] = Answers(i, c.series)
    BY DEF IInv, HandlesAligned
  <2>6. \A i \in Recording : i < c.next => c.series \in known[i]
    BY <1>2 DEF CallFits
  <2> HIDE DEF b, c
  <2> QED BY <2>1, <2>2, <2>3, <2>4, <2>5, <2>6
<1>5. \A u \in Threads : call'[u] = IF u = t THEN Idle ELSE call[u]
  BY <1>1 DEF IInv, TypeOK
<1>6. held \subseteq held' /\ held' \subseteq Bundles \union Foreign
  BY <1>3, <1>4 DEF IInv, TypeOK
<1>7. TypeOK'
  BY <1>1, <1>6 DEF IInv, TypeOK
<1>8. HandlesAligned'
  <2>1. \A u \in Threads : \A i \in 1..Len(call'[u].got) :
          call'[u].got[i] = Answers(i, call'[u].series)
    BY <1>5 DEF IInv, HandlesAligned, Idle
  <2>2. \A x \in held' \ Foreign :
          /\ Len(x.handles) = Len(Adapters)
          /\ \A i \in Children : /\ x.handles[i] = Answers(i, x.series)
                                 /\ i \in Recording => x.series \in known'[i]
    <3> HIDE DEF b
    <3> QED BY <1>1, <1>3, <1>4 DEF IInv, HandlesAligned
  <2> QED BY <2>1, <2>2 DEF HandlesAligned, Children, Recording
<1>9. CallInv'
  <2> SUFFICES ASSUME NEW u \in Threads, call'[u] # Idle
               PROVE  CallFits(u)'
    BY DEF CallInv
  <2>1. u # t /\ call'[u] = call[u] /\ CallFits(u)
    BY <1>5 DEF IInv, CallInv
  <2> QED BY <2>1, <1>1, <1>6 DEF CallFits
<1> QED BY <1>7, <1>8, <1>9 DEF IInv

\* A call on a stranger that does nothing.
LEMMA StutterInv == IInv /\ UNCHANGED vars => IInv'
<1> SUFFICES ASSUME IInv, UNCHANGED vars PROVE IInv'
  OBVIOUS
<1>1. TypeOK' /\ HandlesAligned'
  BY DEF vars, IInv, TypeOK, HandlesAligned, Children, Recording
<1>2. CallInv'
  BY DEF vars, IInv, CallInv, CallFits
<1> QED BY <1>1, <1>2 DEF IInv

\* Every step keeps the invariant.
LEMMA InvStep == IInv /\ [Next]_vars => IInv'
<1> SUFFICES ASSUME IInv, [Next]_vars PROVE IInv'
  OBVIOUS
<1>1. ASSUME NEW t \in Threads, Register(t) PROVE IInv'
  <2>1. PICK m \in Metrics : Begin(t, "register", NoBundle, <<m, NoLabels>>)
    BY <1>1 DEF Register
  <2>2. <<m, NoLabels>> \in Series /\ ledger' \in [Series -> Nat]
    BY <1>1 DEF Register, Series, IInv, TypeOK
  <2> QED BY <2>1, <2>2, BeginInv
<1>2. ASSUME NEW t \in Threads, Resolve(t) PROVE IInv'
  <2>1. PICK b \in held, d \in DynamicLabels :
          IF Ours(b) THEN Begin(t, "resolve", b, <<b.series[1], d>>)
                     ELSE call[t] = Idle /\ UNCHANGED <<value, known, held, call, calls>>
    BY <1>2 DEF Resolve
  <2>2. ledger' = ledger
    BY <1>2 DEF Resolve
  <2>3. CASE Ours(b)
    <3>1. b \in held \ Foreign /\ b.series \in Series
      BY <2>3, ForeignFacts, BundleFacts DEF IInv, TypeOK
    <3>2. <<b.series[1], d>> \in Series
      BY <3>1 DEF Series
    <3>3. ledger' \in [Series -> Nat]
      BY <2>2 DEF IInv, TypeOK
    <3> QED BY <2>1, <2>3, <3>1, <3>2, <3>3, BeginInv
  <2>4. CASE ~Ours(b)
    BY <2>1, <2>2, <2>4, StutterInv DEF vars
  <2> QED BY <2>3, <2>4
<1>3. ASSUME NEW t \in Threads, Sample(t) PROVE IInv'
  <2>1. PICK b \in held, op \in {"inc", "set"} :
          /\ op = "inc" => b \notin Foreign
          /\ Begin(t, op, b, b.series)
          /\ ledger' = IF op = "inc" THEN [ledger EXCEPT ![b.series] = @ + 1] ELSE ledger
    BY <1>3 DEF Sample
  <2>2. b.series \in Series \union {<<>>} /\ (b \notin Foreign => b.series \in Series)
    BY ForeignFacts, BundleFacts DEF IInv, TypeOK
  <2>3. ledger' \in [Series -> Nat]
    BY <2>1, <2>2 DEF IInv, TypeOK
  <2> QED BY <2>1, <2>2, <2>3, BeginInv
<1>4. ASSUME NEW t \in Threads, SampleForeign(t) PROVE IInv'
  BY <1>4, StutterInv DEF SampleForeign
<1>5. ASSUME NEW t \in Threads, Visit(t) PROVE IInv'
  BY <1>5, VisitFacts, CollectsInv, FansOutInv DEF Visit
<1>6. ASSUME NEW t \in Threads, Return(t) PROVE IInv'
  BY <1>6, ReturnInv
<1>7. CASE UNCHANGED vars
  BY <1>7, StutterInv
<1> QED BY <1>1, <1>2, <1>3, <1>4, <1>5, <1>6, <1>7 DEF Next

----------------------------------------------------------------------------
(* Each child is served as if it were attached by itself.                  *)

\* The contract starts as the composite does: nobody asks, nothing is held.
LEMMA AttachedStart == Init => Attached!AttachedInit
<1> SUFFICES ASSUME Init PROVE Attached!AttachedInit
  OBVIOUS
<1>1. \A t \in Threads : ~OurCall(t)
  BY DEF Init, OurCall, Idle
<1>2. Watched \in Children
  BY ChildFacts
<1>3. Attached!Series = Series
  BY DEF Attached!Series, Series
<1> QED BY <1>1, <1>2, <1>3 DEF Init, Attached!AttachedInit, Attached!NotCalling

\* The state of the contract: the calls that ask, those heard, and the series
\* of the handles held.
Asked == [t \in Threads |->
            IF OurCall(t) THEN [op |-> call[t].op, series |-> call[t].series]
                          ELSE [op |-> "none"]]
Heard == {t \in Threads : OurCall(t) /\ call[t].next > Watched}
Held == {b.series : b \in held \ Foreign}

\* A call that begins asks; one on a stranger does not.
LEMMA BeginAsks ==
  ASSUME IInv, NEW t \in Threads, NEW op \in {"register", "resolve", "inc", "set"},
         NEW on, NEW s \in Series \union {<<>>}, Begin(t, op, on, s),
         s # <<>> => [op |-> op, series |-> s] \in
           [op : {"register"}, series : Metrics \X {NoLabels}]
             \union UNION {Attached!CallsOn(x) : x \in Held}
  PROVE  Attached!Ask(t) \/ UNCHANGED Attached!attachedVars
<1> DEFINE c == [op |-> op, on |-> on, series |-> s, next |-> 1, got |-> <<>>]
<1>1. /\ call[t] = Idle /\ call' = [call EXCEPT ![t] = c]
      /\ UNCHANGED <<value, known, held>>
  BY DEF Begin
<1>2. \A u \in Threads : call'[u] = IF u = t THEN c ELSE call[u]
  BY <1>1 DEF IInv, TypeOK
<1>3. ~OurCall(t) /\ (OurCall(t)' <=> s # <<>>)
  BY <1>1, <1>2 DEF OurCall, Idle
<1>4. \A u \in Threads \ {t} : (OurCall(u)' <=> OurCall(u)) /\ call'[u] = call[u]
  BY <1>2 DEF OurCall
<1>5. Watched \in Children /\ ~(1 > Watched)
  BY ChildFacts
<1>6. Heard' = Heard
  BY <1>2, <1>3, <1>4, <1>5 DEF Heard
<1>7. Held' = Held /\ value'[Watched] = value[Watched] /\ known'[Watched] = known[Watched]
  BY <1>1 DEF Held
<1>8. CASE s = <<>>
  <2>1. Asked' = Asked
    BY <1>3, <1>4, <1>8 DEF Asked
  <2> QED BY <2>1, <1>6, <1>7 DEF Attached!attachedVars, Asked, Heard, Held
<1>9. CASE s # <<>>
  <2> DEFINE a == [op |-> op, series |-> s]
  <2>1. Asked[t] = Attached!NotCalling
    BY <1>3 DEF Asked, Attached!NotCalling
  <2>2. Asked' = [Asked EXCEPT ![t] = a]
    <3>1. \A u \in Threads \ {t} : Asked'[u] = Asked[u]
      BY <1>4 DEF Asked
    <3>2. call'[t].op = op /\ call'[t].series = s /\ OurCall(t)'
      BY <1>2, <1>3, <1>9
    <3>3. Asked'[t] = a
      BY <3>2 DEF Asked
    <3>4. /\ Asked = [u \in Threads |-> Asked[u]]
          /\ Asked' = [u \in Threads |-> Asked'[u]]
      BY DEF Asked
    <3> HIDE DEF a
    <3> QED BY <3>1, <3>3, <3>4
  <2> QED BY <1>9, <2>1, <2>2, <1>6, <1>7 DEF Attached!Ask, Asked, Heard, Held
<1> QED BY <1>8, <1>9

\* A visit is heard by the child it comes to, and by no other.
LEMMA VisitHeard ==
  ASSUME IInv, NEW t \in Threads, call[t] # Idle, call[t].next \in Children,
         NEW d, call' = [call EXCEPT ![t] = d],
         d.op = call[t].op, d.series = call[t].series, d.next = call[t].next + 1
  PROVE  /\ Asked' = Asked
         /\ Heard' = IF OurCall(t) /\ call[t].next = Watched THEN Heard \union {t} ELSE Heard
         /\ call[t].next = Watched => t \notin Heard
<1>1. \A u \in Threads : call'[u] = IF u = t THEN d ELSE call[u]
  BY DEF IInv, TypeOK
<1>2. \A u \in Threads : OurCall(u)' <=> OurCall(u)
  BY <1>1 DEF OurCall
<1>3. Asked' = Asked
  BY <1>1, <1>2 DEF Asked
<1>4. call[t].next \in Nat /\ Watched \in Nat
  BY ChildFacts
<1>5. d.next > Watched <=> call[t].next > Watched \/ call[t].next = Watched
  BY <1>4
<1>6. call[t].next = Watched => t \notin Heard
  BY <1>4 DEF Heard
<1>7. Heard' = {u \in Threads : OurCall(u) /\ IF u = t THEN d.next > Watched
                                                      ELSE call[u].next > Watched}
  BY <1>1, <1>2 DEF Heard
<1>8. Heard' = IF OurCall(t) /\ call[t].next = Watched THEN Heard \union {t} ELSE Heard
  BY <1>5, <1>7 DEF Heard
<1> QED BY <1>3, <1>6, <1>8

\* Registering and resolving are carried out by the child visited.
LEMMA CollectsCarriesOut ==
  ASSUME IInv, NEW t \in Threads, call[t] # Idle, call[t].next \in Children,
         Collects(t, call[t].next), UNCHANGED <<held, calls, ledger>>
  PROVE  Attached!CarryOut(t) \/ UNCHANGED Attached!attachedVars
<1> DEFINE c == call[t]
           i == c.next
           a == Answers(i, c.series)
           d == [c EXCEPT !.next = i + 1, !.got = Append(@, a)]
<1>1. /\ c \in Busy /\ c.series \in Series /\ c.op \in {"register", "resolve"}
      /\ OurCall(t)
  BY BusyFacts, SeriesFacts DEF IInv, CallInv, CallFits, Collects, OurCall
<1>2. /\ i \in Recording => a.child = i /\ a # Inert
      /\ i \notin Recording => a = Inert
  BY <1>1, AnswerFacts
<1>3. /\ call' = [call EXCEPT ![t] = d]
      /\ known' = IF a = Inert THEN known
                  ELSE [known EXCEPT ![a.child] = @ \union {c.series}]
      /\ value' = value
  <2> HIDE DEF a
  <2>1. (IF c.op = "register" THEN Answers(i, c.series)
         ELSE IF Adapters[i] = "NullAdapter" \/ HandleOf(c.on.handles, i) = Inert THEN Inert
         ELSE Handle(HandleOf(c.on.handles, i).child, c.series)) = a
    BY <1>1, CollectsAnswer DEF a
  <2> QED BY <2>1 DEF Collects
<1>4. d.op = c.op /\ d.series = c.series /\ d.next = i + 1
  BY <1>1 DEF Busy
<1>5. /\ Asked' = Asked
      /\ Heard' = IF i = Watched THEN Heard \union {t} ELSE Heard
      /\ i = Watched => t \notin Heard
  <2> HIDE DEF d
  <2> QED BY <1>1, <1>3, <1>4, VisitHeard
<1>6. Held' = Held /\ value'[Watched] = value[Watched]
  BY <1>3 DEF Held
<1>7. Asked[t] = [op |-> c.op, series |-> c.series]
  BY <1>1 DEF Asked
<1>8. Watched \in Recording /\ Watched \in Children
  BY ChildFacts
<1>9. CASE i = Watched
  <2>1. known'[Watched] = known[Watched] \union {c.series}
    BY <1>2, <1>3, <1>8, <1>9 DEF IInv, TypeOK
  <2>2. Asked[t] # Attached!NotCalling
    BY <1>1, <1>7 DEF Attached!NotCalling
  <2>3. Asked[t].op \in {"register", "resolve"} /\ Asked[t].series = c.series
    BY <1>1, <1>7
  <2>4. Attached!CarryOut(t)
    BY <1>5, <1>6, <1>9, <2>1, <2>2, <2>3 DEF Attached!CarryOut, Asked, Heard, Held
  <2> QED BY <2>4
<1>10. CASE i # Watched
  <2>1. known'[Watched] = known[Watched]
    BY <1>2, <1>3, <1>8, <1>10 DEF IInv, TypeOK
  <2> QED BY <2>1, <1>5, <1>6, <1>10 DEF Attached!attachedVars, Asked, Heard, Held
<1> QED BY <1>9, <1>10

\* So is a sample; that of a stranger reaches no child.
LEMMA FansOutCarriesOut ==
  ASSUME IInv, NEW t \in Threads, call[t] # Idle, call[t].next <= LastChild(call[t]),
         FansOut(t, call[t].next), UNCHANGED <<held, calls, ledger>>
  PROVE  Attached!CarryOut(t) \/ UNCHANGED Attached!attachedVars
<1> DEFINE c == call[t]
           i == c.next
           h == HandleOf(c.on.handles, i)
           d == [c EXCEPT !.next = i + 1]
<1>1. /\ c \in Busy /\ c.op \in {"inc", "set"} /\ i \in Children /\ h \in Handles
      /\ value' = Recorded(c.op, h) /\ known' = known
      /\ call' = [call EXCEPT ![t] = d]
  BY BusyFacts, VisitFacts DEF IInv, FansOut
<1>2. c.on \in held /\ c.series = c.on.series
  BY <1>1 DEF IInv, CallInv, CallFits
<1>3. d.op = c.op /\ d.series = c.series /\ d.next = i + 1
  BY <1>1 DEF Busy
<1>4. /\ Asked' = Asked
      /\ Heard' = IF OurCall(t) /\ i = Watched THEN Heard \union {t} ELSE Heard
      /\ i = Watched => t \notin Heard
  <2> HIDE DEF d
  <2> QED BY <1>1, <1>3, VisitHeard
<1>5. Held' = Held /\ known'[Watched] = known[Watched]
  BY <1>1 DEF Held
<1>6. Watched \in Recording /\ Watched \in Children
  BY ChildFacts
<1>7. CASE c.on \in Foreign
  <2>1. ~OurCall(t)
    BY <1>2, <1>7, ForeignFacts DEF OurCall
  <2>2. h = Inert
    <3>1. c.on.handles \in Seq({Inert})
      BY <1>7, ForeignFacts
    <3>2. i \in 1..Len(c.on.handles)
      BY <1>1, <3>1, ChildFacts DEF LastChild
    <3> QED BY <3>1, <3>2 DEF HandleOf
  <2>3. value' = value
    BY <1>1, <2>2 DEF Recorded
  <2> QED BY <2>1, <2>3, <1>4, <1>5 DEF Attached!attachedVars, Asked, Heard, Held
<1>8. CASE c.on \notin Foreign
  <2>1. c.on \in Bundles /\ c.series \in Series
    BY <1>2, <1>8, BundleFacts DEF IInv, TypeOK
  <2>2. OurCall(t)
    BY <2>1, SeriesFacts DEF OurCall
  <2>3. h = Answers(i, c.series)
    BY <1>1, <1>2, <1>8 DEF IInv, HandlesAligned, HandleOf
  <2>4. /\ i \in Recording => h.child = i /\ h.series = c.series /\ h # Inert
        /\ i \notin Recording => h = Inert
    BY <1>1, <2>1, <2>3, AnswerFacts
  <2>5. CASE i = Watched
    <3>1. value' = [value EXCEPT ![Watched][c.series] = Effect(c.op, @)]
      BY <1>1, <1>6, <2>4, <2>5 DEF Recorded
    <3>2. value'[Watched] = [value[Watched] EXCEPT ![c.series] = Effect(c.op, @)]
      BY <3>1, <1>6 DEF IInv, TypeOK
    <3>3. Asked[t] = [op |-> c.op, series |-> c.series]
      BY <2>2 DEF Asked
    <3>4. /\ Asked[t] # Attached!NotCalling /\ Asked[t].series = c.series
          /\ Asked[t].op = c.op
      BY <1>1, <3>3 DEF Attached!NotCalling
    <3>5. \A op, v : Attached!Effect(op, v) = Effect(op, v)
      BY DEF Attached!Effect, Effect
    <3>6. Attached!CarryOut(t)
      BY <1>1, <1>4, <1>5, <2>2, <2>5, <3>2, <3>4, <3>5
         DEF Attached!CarryOut, Asked, Heard, Held
    <3> QED BY <3>6
  <2>6. CASE i # Watched
    <3>1. value'[Watched] = value[Watched]
      BY <1>1, <1>6, <2>4, <2>6 DEF Recorded, IInv, TypeOK
    <3> QED BY <3>1, <1>4, <1>5, <2>6 DEF Attached!attachedVars, Asked, Heard, Held
  <2> QED BY <2>5, <2>6
<1> QED BY <1>7, <1>8

\* A call returns when every child has carried it out.
LEMMA ReturnAnswers ==
  ASSUME IInv, NEW t \in Threads, Return(t)
  PROVE  Attached!Answer(t) \/ UNCHANGED Attached!attachedVars
<1> DEFINE c == call[t]
           b == Bundle(c.series, c.got)
<1>1. /\ c # Idle /\ c.next > LastChild(c)
      /\ call' = [call EXCEPT ![t] = Idle]
      /\ UNCHANGED <<value, known>>
      /\ held' = IF c.op \in {"register", "resolve"} THEN held \union {b} ELSE held
  BY DEF Return
<1>2. /\ CallFits(t) /\ c.next \in 1..Len(Adapters) + 1 /\ c.got \in Seq(Handles)
      /\ c.op \in {"register", "resolve", "inc", "set"}
  BY <1>1, BusyFacts DEF IInv, CallInv
<1>3. \A u \in Threads : call'[u] = IF u = t THEN Idle ELSE call[u]
  BY <1>1 DEF IInv, TypeOK
<1>4. ~OurCall(t)' /\ \A u \in Threads \ {t} : OurCall(u)' <=> OurCall(u)
  BY <1>3 DEF OurCall, Idle
<1>5. Heard' = Heard \ {t}
  BY <1>3, <1>4 DEF Heard
<1>6. Watched \in Children /\ Len(Adapters) \in Nat
  BY ChildFacts
<1>7. CASE OurCall(t)
  <2>1. LastChild(c) = Len(Adapters)
    <3>1. CASE c.op \in {"inc", "set"}
      <4>1. c.on \in held /\ c.on \notin Foreign
        BY <1>2, <1>7, <3>1, ForeignFacts DEF CallFits, OurCall
      <4>2. Len(c.on.handles) = Len(Adapters)
        BY <4>1 DEF IInv, HandlesAligned
      <4> QED BY <1>6, <3>1, <4>2 DEF LastChild
    <3>2. CASE c.op \notin {"inc", "set"}
      BY <3>2 DEF LastChild
    <3> QED BY <3>1, <3>2
  <2>2. t \in Heard
    BY <1>1, <1>2, <1>6, <1>7, <2>1, ChildFacts DEF Heard
  <2>3. Asked[t].op = c.op /\ Asked[t].series = c.series
    BY <1>7 DEF Asked
  <2>4. Asked' = [Asked EXCEPT ![t] = Attached!NotCalling]
    <3>1. \A u \in Threads \ {t} : Asked'[u] = Asked[u]
      BY <1>3, <1>4 DEF Asked
    <3>2. Asked'[t] = Attached!NotCalling
      BY <1>4 DEF Asked, Attached!NotCalling
    <3>3. /\ Asked = [u \in Threads |-> Asked[u]]
          /\ Asked' = [u \in Threads |-> Asked'[u]]
      BY DEF Asked
    <3> QED BY <3>1, <3>2, <3>3
  <2>5. Held' = IF c.op \in {"register", "resolve"} THEN Held \union {c.series} ELSE Held
    <3>1. CASE c.op \in {"register", "resolve"}
      <4>1. b \in Bundles /\ b.series = c.series
        BY <1>2, <3>1 DEF CallFits, Bundle, Bundles
      <4>2. held' \ Foreign = (held \ Foreign) \union {b}
        BY <1>1, <3>1, <4>1, BundleFacts
      <4> HIDE DEF b
      <4> QED BY <3>1, <4>1, <4>2 DEF Held
    <3>2. CASE c.op \notin {"register", "resolve"}
      BY <1>1, <3>2 DEF Held
    <3> QED BY <3>1, <3>2
  <2>6. Attached!Answer(t)
    BY <1>1, <1>5, <2>2, <2>3, <2>4, <2>5 DEF Attached!Answer, Asked, Heard, Held
  <2> QED BY <2>6
<1>8. CASE ~OurCall(t)
  <2>1. c.op \notin {"register", "resolve"}
    BY <1>2, <1>8, SeriesFacts DEF CallFits, OurCall
  <2>2. Heard' = Heard /\ Held' = Held
    BY <1>1, <1>5, <1>8, <2>1 DEF Heard, Held
  <2>3. Asked' = Asked
    BY <1>3, <1>4, <1>8 DEF Asked
  <2> QED BY <1>1, <2>2, <2>3 DEF Attached!attachedVars, Asked, Heard, Held
<1> QED BY <1>7, <1>8

\* Every step is a step of the contract for the watched child, or none.
LEMMA AttachedStep ==
  IInv /\ [Next]_vars => [Attached!AttachedNext]_(Attached!attachedVars)
<1> SUFFICES ASSUME IInv, [Next]_vars
             PROVE  [Attached!AttachedNext]_(Attached!attachedVars)
  OBVIOUS
<1>1. ASSUME NEW t \in Threads, Register(t)
      PROVE  Attached!Ask(t) \/ UNCHANGED Attached!attachedVars
  <2>1. PICK m \in Metrics : Begin(t, "register", NoBundle, <<m, NoLabels>>)
    BY <1>1 DEF Register
  <2>2. <<m, NoLabels>> \in Series
    BY DEF Series
  <2> QED BY <2>1, <2>2, BeginAsks
<1>2. ASSUME NEW t \in Threads, Resolve(t)
      PROVE  Attached!Ask(t) \/ UNCHANGED Attached!attachedVars
  <2>1. PICK b \in held, d \in DynamicLabels :
          IF Ours(b) THEN Begin(t, "resolve", b, <<b.series[1], d>>)
                     ELSE call[t] = Idle /\ UNCHANGED <<value, known, held, call, calls>>
    BY <1>2 DEF Resolve
  <2>2. CASE Ours(b)
    <3>1. b \in held \ Foreign /\ b.series \in Series /\ b.series \in Held
      BY <2>2, ForeignFacts, BundleFacts DEF IInv, TypeOK, Held
    <3>2. <<b.series[1], d>> \in Series
      BY <3>1 DEF Series
    <3>3. [op |-> "resolve", series |-> <<b.series[1], d>>] \in Attached!CallsOn(b.series)
      BY DEF Attached!CallsOn
    <3> QED BY <2>1, <2>2, <3>1, <3>2, <3>3, BeginAsks
  <2>3. CASE ~Ours(b)
    BY <2>1, <2>3 DEF Attached!attachedVars, OurCall
  <2> QED BY <2>2, <2>3
<1>3. ASSUME NEW t \in Threads, Sample(t)
      PROVE  Attached!Ask(t) \/ UNCHANGED Attached!attachedVars
  <2>1. PICK b \in held, op \in {"inc", "set"} : Begin(t, op, b, b.series)
    BY <1>3 DEF Sample
  <2>2. b.series \in Series \union {<<>>} /\ (b.series # <<>> => b.series \in Held)
    BY ForeignFacts, BundleFacts DEF IInv, TypeOK, Held
  <2>3. [op |-> op, series |-> b.series] \in Attached!CallsOn(b.series)
    BY DEF Attached!CallsOn
  <2> QED BY <2>1, <2>2, <2>3, BeginAsks
<1>4. ASSUME NEW t \in Threads, SampleForeign(t)
      PROVE  UNCHANGED Attached!attachedVars
  BY <1>4 DEF SampleForeign, vars, Attached!attachedVars, OurCall
<1>5. ASSUME NEW t \in Threads, Visit(t)
      PROVE  Attached!CarryOut(t) \/ UNCHANGED Attached!attachedVars
  BY <1>5, VisitFacts, CollectsCarriesOut, FansOutCarriesOut DEF Visit
<1>6. ASSUME NEW t \in Threads, Return(t)
      PROVE  Attached!Answer(t) \/ UNCHANGED Attached!attachedVars
  BY <1>6, ReturnAnswers
<1>7. CASE UNCHANGED vars
  BY <1>7 DEF vars, Attached!attachedVars, OurCall
<1> QED
  BY <1>1, <1>2, <1>3, <1>4, <1>5, <1>6, <1>7 DEF Next, Attached!AttachedNext

----------------------------------------------------------------------------
(* No increment is lost or doubled.                                        *)

\* Counters are incremented, the other metrics are set.
SampleInv ==
  \A t \in Threads :
    /\ call[t].op = "inc" => call[t].on \notin Foreign /\ call[t].series \in CountedSeries
    /\ call[t].op = "set" /\ call[t].on \notin Foreign => call[t].series \notin CountedSeries

LossInv == SampleInv /\ NoSampleLostOrDoubled

\* Only threads are on their way, so they can be counted.
LEMMA WayFinite ==
  ASSUME NEW i, NEW s
  PROVE  IsFiniteSet(OnTheWay(i, s)) /\ Cardinality(OnTheWay(i, s)) \in Nat
<1>1. OnTheWay(i, s) \in SUBSET Threads
  BY DEF OnTheWay
<1> QED BY <1>1, CompositeAssumption, FS_Subset, FS_CardinalityType

\* A step of t takes nobody else on its way or off it.
LEMMA WayStep ==
  ASSUME TypeOK, NEW t \in Threads, NEW d, call' = [call EXCEPT ![t] = d],
         NEW i, NEW s
  PROVE  OnTheWay(i, s)' = IF d.op = "inc" /\ d.series = s /\ d.next <= i
                             THEN OnTheWay(i, s) \union {t} ELSE OnTheWay(i, s) \ {t}
<1>1. \A u \in Threads : call'[u] = IF u = t THEN d ELSE call[u]
  BY DEF TypeOK
<1> QED BY <1>1 DEF OnTheWay

\* A step that puts no increment on its way, takes none off and changes no
\* counter.
LEMMA CountsKept ==
  ASSUME IInv, LossInv, NEW t \in Threads, NEW d, call' = [call EXCEPT ![t] = d],
         call[t].op # "inc", d.op # "inc",
         \A i \in Recording, s \in CountedSeries :
           value'[i][s] = value[i][s] /\ ledger'[s] = ledger[s]
  PROVE  NoSampleLostOrDoubled'
<1> SUFFICES ASSUME NEW i \in Recording, NEW s \in CountedSeries
             PROVE  value'[i][s] + Cardinality(OnTheWay(i, s)') = ledger'[s]
  BY DEF NoSampleLostOrDoubled, Recording, Children
<1>1. t \notin OnTheWay(i, s)
  BY DEF OnTheWay
<1>2. OnTheWay(i, s)' = OnTheWay(i, s) \ {t}
  <2>1. TypeOK
    BY DEF IInv
  <2>2. OnTheWay(i, s)' = IF d.op = "inc" /\ d.series = s /\ d.next <= i
                            THEN OnTheWay(i, s) \union {t} ELSE OnTheWay(i, s) \ {t}
    BY ONLY <2>1, call' = [call EXCEPT ![t] = d], t \in Threads, WayStep
  <2> QED BY <2>2
<1>3. OnTheWay(i, s)' = OnTheWay(i, s)
  BY <1>1, <1>2
<1> QED BY <1>3 DEF LossInv, NoSampleLostOrDoubled

\* A call that begins is a sample of its metric, and the ledger counts it.
LEMMA BeginCounts ==
  ASSUME IInv, LossInv, NEW t \in Threads, NEW op, NEW on, NEW s, Begin(t, op, on, s),
         op = "inc" => on \notin Foreign /\ s \in CountedSeries,
         op = "set" /\ on \notin Foreign => s \notin CountedSeries,
         ledger' = IF op = "inc" THEN [ledger EXCEPT ![s] = @ + 1] ELSE ledger
  PROVE  LossInv'
<1> DEFINE d == [op |-> op, on |-> on, series |-> s, next |-> 1, got |-> <<>>]
<1>1. call[t] = Idle /\ call' = [call EXCEPT ![t] = d] /\ value' = value
  BY DEF Begin
<1>2. call[t].op = "none"
  BY <1>1 DEF Idle
<1>3. SampleInv'
  <2>1. \A u \in Threads : call'[u] = IF u = t THEN d ELSE call[u]
    BY <1>1 DEF IInv, TypeOK
  <2> QED BY <2>1 DEF LossInv, SampleInv, CountedSeries
<1>4. CASE op # "inc"
  <2>1. d.op # "inc" /\ ledger' = ledger
    BY <1>4
  <2> HIDE DEF d
  <2>2. NoSampleLostOrDoubled'
    BY <1>1, <1>2, <2>1, CountsKept
  <2> QED BY <1>3, <2>2 DEF LossInv
<1>5. CASE op = "inc"
  <2> SUFFICES ASSUME NEW i \in Recording, NEW x \in CountedSeries
               PROVE  value'[i][x] + Cardinality(OnTheWay(i, x)') = ledger'[x]
    BY <1>3 DEF LossInv, NoSampleLostOrDoubled, Recording, Children
  <2>1. t \notin OnTheWay(i, x) /\ 1 <= i
    BY <1>2, ChildFacts DEF OnTheWay
  <2>2. OnTheWay(i, x)' = IF s = x THEN OnTheWay(i, x) \union {t} ELSE OnTheWay(i, x) \ {t}
    <3>1. d.op = "inc" /\ d.series = s /\ d.next = 1
      BY <1>5
    <3> HIDE DEF d
    <3> QED BY <1>1, <2>1, <3>1, WayStep DEF IInv
  <2>3. IsFiniteSet(OnTheWay(i, x)) /\ Cardinality(OnTheWay(i, x)) \in Nat
    BY WayFinite
  <2>4. value[i][x] + Cardinality(OnTheWay(i, x)) = ledger[x]
    BY DEF LossInv, NoSampleLostOrDoubled
  <2>5. value[i][x] \in Nat /\ ledger[x] \in Nat /\ x \in Series
    BY ChildFacts DEF IInv, TypeOK, CountedSeries
  <2>6. CASE s = x
    <3>1. Cardinality(OnTheWay(i, x)') = Cardinality(OnTheWay(i, x)) + 1
      BY <2>1, <2>2, <2>3, <2>6, FS_AddElement
    <3>2. ledger'[x] = ledger[x] + 1
      BY <1>5, <2>5, <2>6 DEF IInv, TypeOK
    <3> QED BY <1>1, <2>3, <2>4, <2>5, <3>1, <3>2
  <2>7. CASE s # x
    <3>1. OnTheWay(i, x)' = OnTheWay(i, x)
      BY <2>1, <2>2, <2>7
    <3>2. ledger'[x] = ledger[x]
      BY <1>5, <2>5, <2>7 DEF IInv, TypeOK
    <3> QED BY <1>1, <2>4, <3>1, <3>2
  <2> QED BY <2>6, <2>7
<1> QED BY <1>4, <1>5

\* A call that moves on is the sample it was.
LEMMA SamplesKept ==
  ASSUME TypeOK, SampleInv, NEW t \in Threads, NEW d, call' = [call EXCEPT ![t] = d],
         \/ d.op \notin {"inc", "set"}
         \/ d.op = call[t].op /\ d.on = call[t].on /\ d.series = call[t].series
  PROVE  SampleInv'
<1>1. \A u \in Threads : call'[u] = IF u = t THEN d ELSE call[u]
  BY DEF TypeOK
<1>2. CountedSeries' = CountedSeries
  BY DEF CountedSeries
<1> HIDE DEF CountedSeries
<1> QED BY <1>1, <1>2 DEF SampleInv

\* Registering and resolving count nothing.
LEMMA CollectsCounts ==
  ASSUME IInv, LossInv, NEW t \in Threads, call[t] # Idle,
         Collects(t, call[t].next), UNCHANGED <<held, calls, ledger>>
  PROVE  LossInv'
<1>1. PICK a : /\ call[t].op \in {"register", "resolve"} /\ value' = value
               /\ call' = [call EXCEPT ![t].next = call[t].next + 1, ![t].got = Append(@, a)]
  BY DEF Collects
<1> DEFINE d == [call[t] EXCEPT !.next = call[t].next + 1, !.got = Append(@, a)]
<1>2. call[t] \in Busy /\ call' = [call EXCEPT ![t] = d]
  BY <1>1, BusyFacts DEF IInv
<1>3. d.op = call[t].op
  BY <1>2 DEF Busy
<1> HIDE DEF d
<1>4. call[t].op # "inc" /\ d.op # "inc" /\ d.op \notin {"inc", "set"}
  BY <1>1, <1>3
<1>5. SampleInv'
  BY <1>2, <1>4, SamplesKept DEF IInv, LossInv
<1>6. NoSampleLostOrDoubled'
  BY <1>1, <1>2, <1>4, CountsKept
<1> QED BY <1>5, <1>6 DEF LossInv

\* A call that returns has been to every child.
LEMMA ReturnCounts ==
  ASSUME IInv, LossInv, NEW t \in Threads, Return(t)
  PROVE  LossInv'
<1> DEFINE c == call[t]
<1>1. /\ c # Idle /\ c.next > LastChild(c)
      /\ call' = [call EXCEPT ![t] = Idle]
      /\ value' = value /\ ledger' = ledger
  BY DEF Return
<1>2. Idle.op = "none"
  BY DEF Idle
<1>3. SampleInv'
  BY <1>1, <1>2, SamplesKept DEF IInv, LossInv
<1>4. CASE c.op # "inc"
  BY <1>1, <1>2, <1>3, <1>4, CountsKept DEF LossInv
<1>5. CASE c.op = "inc"
  <2>1. c.on \in held /\ c.on \notin Foreign /\ c.next \in 1..Len(Adapters) + 1
    BY <1>1, <1>5, BusyFacts DEF IInv, LossInv, SampleInv, CallInv, CallFits
  <2>2. Len(c.on.handles) = Len(Adapters)
    BY <2>1 DEF IInv, HandlesAligned
  <2>3. c.next > Len(Adapters)
    BY <1>1, <1>5, <2>2, ChildFacts DEF LastChild
  <2> SUFFICES ASSUME NEW i \in Recording, NEW s \in CountedSeries
               PROVE  value'[i][s] + Cardinality(OnTheWay(i, s)') = ledger'[s]
    BY <1>3 DEF LossInv, NoSampleLostOrDoubled, Recording, Children
  <2>4. t \notin OnTheWay(i, s)
    BY <2>1, <2>3, ChildFacts DEF OnTheWay
  <2>5. OnTheWay(i, s)' = OnTheWay(i, s)
    <3>1. TypeOK
      BY DEF IInv
    <3>2. call' = [call EXCEPT ![t] = Idle]
      BY <1>1
    <3>3. OnTheWay(i, s)' = IF Idle.op = "inc" /\ Idle.series = s /\ Idle.next <= i
                              THEN OnTheWay(i, s) \union {t} ELSE OnTheWay(i, s) \ {t}
      BY ONLY <3>1, <3>2, t \in Threads, WayStep
    <3> QED BY <1>2, <2>4, <3>3
  <2> QED BY <1>1, <2>5 DEF LossInv, NoSampleLostOrDoubled
<1> QED BY <1>4, <1>5

\* The child that is given its handle of an increment counts it, and the call
\* is past that child.
LEMMA FansOutCounts ==
  ASSUME IInv, LossInv, NEW t \in Threads, call[t] # Idle, call[t].next <= LastChild(call[t]),
         FansOut(t, call[t].next), UNCHANGED <<held, calls, ledger>>
  PROVE  LossInv'
<1> DEFINE c == call[t]
           k == c.next
           h == HandleOf(c.on.handles, k)
           d == [c EXCEPT !.next = k + 1]
<1>1. /\ c \in Busy /\ c.op \in {"inc", "set"} /\ k \in Children
      /\ value' = Recorded(c.op, h) /\ ledger' = ledger
      /\ call' = [call EXCEPT ![t] = d]
  BY BusyFacts, VisitFacts DEF IInv, FansOut
<1>2. c.on \in held /\ c.series = c.on.series
  BY <1>1 DEF IInv, CallInv, CallFits
<1>3. d.op = c.op /\ d.series = c.series /\ d.on = c.on /\ d.next = k + 1
  BY <1>1 DEF Busy
<1>4. SampleInv'
  <2> HIDE DEF d
  <2> QED BY <1>1, <1>3, SamplesKept DEF IInv, LossInv
<1>5. ASSUME c.on \notin Foreign
      PROVE  /\ c.series \in Series
             /\ \A i \in Recording, s \in Series :
                  value'[i][s] = IF i = k /\ s = c.series THEN Effect(c.op, value[i][s])
                                                          ELSE value[i][s]
  <2>1. c.series \in Series
    BY <1>2, <1>5, BundleFacts DEF IInv, TypeOK
  <2>2. h = Answers(k, c.series)
    BY <1>1, <1>2, <1>5 DEF IInv, HandlesAligned, HandleOf
  <2>3. /\ k \in Recording => h.child = k /\ h.series = c.series /\ h # Inert
        /\ k \notin Recording => h = Inert
    BY <1>1, <2>1, <2>2, AnswerFacts
  <2> HIDE DEF h
  <2>4. CASE k \in Recording
    <3>1. value' = [value EXCEPT ![k][c.series] = Effect(c.op, @)]
      BY <1>1, <2>3, <2>4 DEF Recorded
    <3>2. value \in [Children -> [Series -> Nat]]
      BY DEF IInv, TypeOK
    <3>3. \A i \in Children, s \in Series :
            value'[i][s] = IF i = k /\ s = c.series THEN Effect(c.op, value[i][s])
                                                    ELSE value[i][s]
      <4> HIDE DEF c, k
      <4> QED BY <1>1, <2>1, <3>1, <3>2
    <3> QED BY <2>1, <3>3, ChildFacts
  <2>5. CASE k \notin Recording
    BY <1>1, <2>1, <2>3, <2>5 DEF Recorded
  <2> QED BY <2>4, <2>5
<1>6. CASE c.op # "inc"
  <2>1. \A i \in Recording, s \in CountedSeries : value'[i][s] = value[i][s]
    <3>1. CASE c.on \in Foreign
      <4>1. c.on.handles \in Seq({Inert})
        BY <3>1, ForeignFacts
      <4>2. k \in 1..Len(c.on.handles)
        BY <1>1, <4>1, ChildFacts DEF LastChild
      <4>3. h = Inert
        BY <4>1, <4>2 DEF HandleOf
      <4>4. value' = value
        BY <1>1, <4>3 DEF Recorded
      <4> QED BY <4>4
    <3>2. CASE c.on \notin Foreign
      BY <1>1, <1>5, <1>6, <3>2 DEF LossInv, SampleInv, CountedSeries
    <3> QED BY <3>1, <3>2
  <2> HIDE DEF d
  <2>2. NoSampleLostOrDoubled'
    BY <1>1, <1>3, <1>6, <2>1, CountsKept
  <2> QED BY <1>4, <2>2 DEF LossInv
<1>7. CASE c.op = "inc"
  <2>1. c.on \notin Foreign
    BY <1>7 DEF LossInv, SampleInv
  <2> SUFFICES ASSUME NEW i \in Recording, NEW s \in CountedSeries
               PROVE  value'[i][s] + Cardinality(OnTheWay(i, s)') = ledger'[s]
    BY <1>4 DEF LossInv, NoSampleLostOrDoubled, Recording, Children
  <2>2. OnTheWay(i, s)' = IF c.series = s /\ k + 1 <= i
                            THEN OnTheWay(i, s) \union {t} ELSE OnTheWay(i, s) \ {t}
    <3> HIDE DEF d
    <3>1. TypeOK /\ call' = [call EXCEPT ![t] = d]
      BY <1>1 DEF IInv
    <3>2. OnTheWay(i, s)' = IF d.op = "inc" /\ d.series = s /\ d.next <= i
                              THEN OnTheWay(i, s) \union {t} ELSE OnTheWay(i, s) \ {t}
      BY ONLY <3>1, t \in Threads, WayStep
    <3> QED BY <1>3, <1>7, <3>2
  <2>3. t \in OnTheWay(i, s) <=> c.series = s /\ k <= i
    BY <1>7 DEF OnTheWay
  <2>4. IsFiniteSet(OnTheWay(i, s)) /\ Cardinality(OnTheWay(i, s)) \in Nat
    BY WayFinite
  <2>5. value[i][s] + Cardinality(OnTheWay(i, s)) = ledger[s]
    BY DEF LossInv, NoSampleLostOrDoubled
  <2>6. s \in Series /\ value[i][s] \in Nat /\ i \in Nat /\ k \in Nat
    BY <1>1, ChildFacts DEF IInv, TypeOK, CountedSeries
  <2>7. value'[i][s] = IF i = k /\ s = c.series THEN value[i][s] + 1 ELSE value[i][s]
    BY <1>5, <1>7, <2>1, <2>6 DEF Effect
  <2>8. CASE i = k /\ s = c.series
    <3>1. OnTheWay(i, s)' = OnTheWay(i, s) \ {t} /\ t \in OnTheWay(i, s)
      BY <2>2, <2>3, <2>6, <2>8
    <3>2. Cardinality(OnTheWay(i, s)') = Cardinality(OnTheWay(i, s)) - 1
      BY <2>4, <3>1, FS_RemoveElement
    <3> QED BY <1>1, <2>4, <2>5, <2>6, <2>7, <2>8, <3>2
  <2>9. CASE ~(i = k /\ s = c.series)
    <3>1. OnTheWay(i, s)' = OnTheWay(i, s)
      BY <2>2, <2>3, <2>6, <2>9
    <3> QED BY <1>1, <2>5, <2>7, <2>9, <3>1
  <2> QED BY <2>8, <2>9
<1> QED BY <1>6, <1>7

\* Nothing is sampled at the start.
LEMMA LossInit == Init => LossInv
<1> SUFFICES ASSUME Init PROVE LossInv
  OBVIOUS
<1>1. \A t \in Threads : call[t].op = "none"
  BY DEF Init, Idle
<1>2. SampleInv
  BY <1>1 DEF SampleInv
<1>3. \A i \in Recording, s \in CountedSeries :
        value[i][s] + Cardinality(OnTheWay(i, s)) = ledger[s]
  <2> SUFFICES ASSUME NEW i \in Recording, NEW s \in CountedSeries
               PROVE  value[i][s] + Cardinality(OnTheWay(i, s)) = ledger[s]
    OBVIOUS
  <2>1. OnTheWay(i, s) = {}
    BY <1>1 DEF OnTheWay
  <2>2. value[i][s] = 0 /\ ledger[s] = 0
    BY ChildFacts DEF Init, CountedSeries
  <2> QED BY <2>1, <2>2, FS_EmptySet
<1> QED BY <1>2, <1>3 DEF LossInv, NoSampleLostOrDoubled

\* A step that changes nothing counts nothing.
LEMMA StutterCounts == LossInv /\ UNCHANGED vars => LossInv'
BY DEF vars, LossInv, SampleInv, NoSampleLostOrDoubled, OnTheWay, CountedSeries,
       Recording, Children

\* Every step keeps the count.
LEMMA LossStep == IInv /\ LossInv /\ [Next]_vars => LossInv'
<1> SUFFICES ASSUME IInv, LossInv, [Next]_vars PROVE LossInv'
  OBVIOUS
<1>1. ASSUME NEW t \in Threads, Register(t) PROVE LossInv'
  <2>1. PICK m \in Metrics : Begin(t, "register", NoBundle, <<m, NoLabels>>)
    BY <1>1 DEF Register
  <2>2. ledger' = ledger
    BY <1>1 DEF Register
  <2> QED BY <2>1, <2>2, BeginCounts
<1>2. ASSUME NEW t \in Threads, Resolve(t) PROVE LossInv'
  <2>1. PICK b \in held, d \in DynamicLabels :
          IF Ours(b) THEN Begin(t, "resolve", b, <<b.series[1], d>>)
                     ELSE call[t] = Idle /\ UNCHANGED <<value, known, held, call, calls>>
    BY <1>2 DEF Resolve
  <2>2. ledger' = ledger
    BY <1>2 DEF Resolve
  <2>3. CASE Ours(b)
    BY <2>1, <2>2, <2>3, BeginCounts
  <2>4. CASE ~Ours(b)
    BY <2>1, <2>2, <2>4, StutterCounts DEF vars
  <2> QED BY <2>3, <2>4
<1>3. ASSUME NEW t \in Threads, Sample(t) PROVE LossInv'
  <2>1. PICK b \in held, op \in {"inc", "set"} :
          /\ op = IF b \in Foreign THEN "set"
                  ELSE IF b.series[1] \in Counters THEN "inc" ELSE "set"
          /\ Begin(t, op, b, b.series)
          /\ ledger' = IF op = "inc" THEN [ledger EXCEPT ![b.series] = @ + 1] ELSE ledger
    BY <1>3 DEF Sample
  <2>2. b \notin Foreign => b.series \in Series
    BY BundleFacts DEF IInv, TypeOK
  <2>3. /\ op = "inc" => b \notin Foreign /\ b.series \in CountedSeries
        /\ op = "set" /\ b \notin Foreign => b.series \notin CountedSeries
    BY <2>1, <2>2 DEF CountedSeries
  <2> QED BY <2>1, <2>3, BeginCounts
<1>4. ASSUME NEW t \in Threads, SampleForeign(t) PROVE LossInv'
  BY <1>4, StutterCounts DEF SampleForeign
<1>5. ASSUME NEW t \in Threads, Visit(t) PROVE LossInv'
  BY <1>5, CollectsCounts, FansOutCounts DEF Visit
<1>6. ASSUME NEW t \in Threads, Return(t) PROVE LossInv'
  BY <1>6, ReturnCounts
<1>7. CASE UNCHANGED vars
  BY <1>7, StutterCounts
<1> QED BY <1>1, <1>2, <1>3, <1>4, <1>5, <1>6, <1>7 DEF Next

----------------------------------------------------------------------------
(* The theorems.                                                           *)

\* The inductive invariant: what a call half way through the children has.
THEOREM CallInvariance == Spec => []IInv
BY InvInit, InvStep, PTL DEF Spec

\* Every variable keeps its type, whatever the list of adapters.
THEOREM TypeCorrect == Spec => []TypeOK
<1>1. IInv => TypeOK
  BY DEF IInv
<1> QED BY <1>1, CallInvariance, PTL

\* Bundles, complete or under way, are aligned with the children: handles[i] is
\* what child i answered.
THEOREM Alignment == Spec => []HandlesAligned
<1>1. IInv => HandlesAligned
  BY DEF IInv
<1> QED BY <1>1, CallInvariance, PTL

\* Whatever the other calls are doing, each child is served as the contract of
\* an adapter says.
THEOREM Attachment == Spec => AsIfAttached
BY CallInvariance, AttachedStart, AttachedStep, PTL DEF Spec, AsIfAttached, Attached!AttachedSpec

\* No increment is lost on its way to a child, and none is counted twice.
THEOREM NoneLost == Spec => []NoSampleLostOrDoubled
<1>1. LossInv => NoSampleLostOrDoubled
  BY DEF LossInv
<1> QED BY <1>1, CallInvariance, LossInit, LossStep, PTL DEF Spec
=============================================================================
