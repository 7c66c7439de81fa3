--------------------------- MODULE PromCppProofs ---------------------------
(***************************************************************************)
(* PromCppAdapter, for all metrics, label sets and bounds: the export is   *)
(* what the samples add up to, the payload set last is exported, and a     *)
(* sole info handle leaves no stale one.                                   *)
(***************************************************************************)
EXTENDS PromCppAdapter, FiniteSetTheorems, SequenceTheorems, TLAPS

SeriesOf == [family : Families, labels : LabelSets, value : Int] \union {NoSeries}
Handles ==
  [type : Types, family : Families,
   series : Addresses \union {Null}, info : Addresses \union {Null}] \union {Inert}

\* A family has one series of each label set.
Distinct(s) ==
  \A a, b \in Addresses :
    /\ s[a].family \in Families
    /\ s[b].family = s[a].family /\ s[b].labels = s[a].labels
    => a = b

HandleOf(u) == handles[users[u].handle]

\* What a metric records to is a series of its family; those with samples have
\* one from the beginning, and it is never removed.
Fits(u) ==
  LET m == users[u].metric
      h == HandleOf(u)
  IN
  h # Inert =>
    /\ h.type = m.type /\ h.family = FamilyOf(m)
    /\ m.type \notin Lazy => h.series \in Addresses /\ series[h.series].family = h.family

UserInv == \A u \in 1..Len(users) : Fits(u)

\* Each series of an info family is known to a handle of it, or the family has
\* several.
ReplaceInv ==
  \A f \in InfoFamilies, a \in Addresses : series[a].family = f =>
    \/ \E i \in 1..Len(handles) : handles[i].family = f /\ handles[i].info = a
    \/ \E i, j \in 1..Len(handles) : i # j /\ handles[i].family = f /\ handles[j].family = f

IInv == TypeOK /\ Distinct(series) /\ UserInv /\ ReplaceInv /\ LatestPayloadExported

\* The series of a metric or child has its labels, unless it is misdirected.
Labelled(u) ==
  HandleOf(u) # Inert /\ users[u].metric.type \notin Lazy /\ ~Misdirected(u) =>
    series[HandleOf(u).series].labels = users[u].labels

LabelInv == \A u \in 1..Len(users) : Labelled(u)

LedgerInv == LabelInv /\ BackendMatchesLedger

----------------------------------------------------------------------------
(* Families and series.                                                    *)

\* The family of no series is none.
LEMMA FamilyFacts ==
  /\ NoFamily \notin Families
  /\ \A m \in Metrics : FamilyOf(m) \in Families /\ m.type \in Types
  /\ InfoFamilies \subseteq Families
  /\ NoSeries.family = NoFamily /\ NoSeries.labels = NoLabels /\ NoSeries.value = 0
  /\ Inert.family = NoFamily /\ Inert.type = "none" /\ Inert.info = Null
<1>1. ASSUME NEW m \in Metrics PROVE m.type \in Types
  BY BackendAssumption
<1>2. \A m \in Metrics : FamilyOf(m) # NoFamily
  BY <1>1 DEF FamilyOf, NoFamily, Class, Types
<1>3. InfoFamilies \subseteq Families
  BY DEF InfoFamilies, Families
<1> QED BY <1>1, <1>2, <1>3 DEF Families, NoSeries, Inert

\* Only info metrics have an info family.
LEMMA InfoFacts ==
  ASSUME OnlyInfoInFamily, NEW m \in Metrics
  PROVE  FamilyOf(m) \in InfoFamilies <=> m.type = "Info"
BY DEF OnlyInfoInFamily, InfoFamilies

\* Where a label set may be.
LEMMA LabelFacts ==
  /\ NoLabels \in LabelSets
  /\ DynamicLabels \subseteq LabelSets /\ Payloads \subseteq LabelSets /\ States \subseteq LabelSets
BY DEF LabelSets

\* A series is that of no family or of one that is registered.
LEMMA SeriesFacts ==
  ASSUME NEW x \in SeriesOf
  PROVE  /\ x.family \in Families => /\ x # NoSeries /\ x.labels \in LabelSets
                                      /\ x.value \in Int
         /\ x.family \notin Families => x = NoSeries
BY FamilyFacts DEF SeriesOf

\* What Add does: it puts a new series at a free address, or finds the one it has.
LEMMA AddFacts ==
  ASSUME NEW s \in [Addresses -> SeriesOf], Distinct(s),
         NEW f \in Families, NEW l \in LabelSets, NEW a \in Places(s, f, l)
  PROVE  LET t == Added(s, f, l, a)
         IN /\ a \in Addresses
            /\ t \in [Addresses -> SeriesOf]
            /\ Distinct(t)
            /\ t[a].family = f /\ t[a].labels = l
            /\ \A b \in Addresses : b # a => t[b] = s[b]
            /\ \A b \in Addresses : s[b].family \in Families => t[b] = s[b]
            /\ \/ Has(s, f, l, a) /\ t = s
               \/ t[a].value = 0 /\ \A b \in Addresses : ~Has(s, f, l, b)
<1> DEFINE t == Added(s, f, l, a)
<1> DEFINE new == [family |-> f, labels |-> l, value |-> 0]
<1>1. a \in Addresses
  BY DEF Places
<1>2. CASE Has(s, f, l, a)
  BY <1>1, <1>2 DEF Added, Has
<1>3. CASE ~Has(s, f, l, a)
  <2>1. s[a] = NoSeries /\ \A b \in Addresses : ~Has(s, f, l, b)
    BY <1>3 DEF Places
  <2>2. t = [s EXCEPT ![a] = new] /\ new \in SeriesOf
    BY <1>3 DEF Added, SeriesOf
  <2>3. /\ t \in [Addresses -> SeriesOf]
        /\ t[a] = new
        /\ \A b \in Addresses : b # a => t[b] = s[b]
    BY <1>1, <2>2
  <2>4. \A b \in Addresses : s[b].family \in Families => t[b] = s[b]
    BY <2>1, <2>3, FamilyFacts
  <2>5. ASSUME NEW b \in Addresses, NEW c \in Addresses, t[b].family \in Families,
               t[c].family = t[b].family, t[c].labels = t[b].labels, b # c
        PROVE  FALSE
    <3>1. CASE b = a
      BY <2>1, <2>3, <2>5, <3>1 DEF Has
    <3>2. CASE c = a
      BY <2>1, <2>3, <2>5, <3>2 DEF Has
    <3>3. CASE b # a /\ c # a
      BY <2>3, <2>5, <3>3 DEF Distinct
    <3> QED BY <3>1, <3>2, <3>3
  <2> QED BY <1>1, <2>1, <2>3, <2>4, <2>5 DEF Distinct
<1> QED BY <1>2, <1>3

\* What Remove does: it takes away a series of the family, or nothing.
LEMMA RemoveFacts ==
  ASSUME NEW s \in [Addresses -> SeriesOf], Distinct(s), NEW f, NEW a
  PROVE  LET t == Removed(s, f, a)
         IN /\ t \in [Addresses -> SeriesOf]
            /\ Distinct(t)
            /\ \A b \in Addresses : b # a => t[b] = s[b]
            /\ \A b \in Addresses : s[b].family # f => t[b] = s[b]
            /\ \A b \in Addresses : t[b].family \in Families => t[b] = s[b]
            /\ a \in Addresses /\ f \in Families => t[a].family # f
<1> DEFINE t == Removed(s, f, a)
<1>1. CASE s[a].family # f
  BY <1>1 DEF Removed
<1>2. CASE s[a].family = f
  <2>1. t = [s EXCEPT ![a] = NoSeries]
    BY <1>2 DEF Removed
  <2>2. /\ t \in [Addresses -> SeriesOf]
        /\ a \in Addresses => t[a] = NoSeries
        /\ \A b \in Addresses : b # a => t[b] = s[b]
    BY <2>1 DEF SeriesOf
  <2>3. \A b \in Addresses : t[b].family \in Families => t[b] = s[b]
    BY <2>2, FamilyFacts
  <2>4. Distinct(t)
    BY <2>3 DEF Distinct
  <2> QED BY <1>2, <2>2, <2>3, <2>4, FamilyFacts
<1> QED BY <1>1, <1>2

\* Setting the value of one series.
SetValue(s, a, v) == [s EXCEPT ![a].value = v]

\* What setting a value does.
LEMMA SetFacts ==
  ASSUME NEW s \in [Addresses -> SeriesOf], Distinct(s),
         NEW a \in Addresses, s[a].family \in Families, NEW v \in Int,
         NEW t, t = SetValue(s, a, v)
  PROVE  /\ t \in [Addresses -> SeriesOf]
         /\ Distinct(t)
         /\ t[a].family = s[a].family /\ t[a].labels = s[a].labels /\ t[a].value = v
         /\ \A b \in Addresses : b # a => t[b] = s[b]
         /\ \A b \in Addresses : t[b].family = s[b].family /\ t[b].labels = s[b].labels
<1>1. s[a] \in [family : Families, labels : LabelSets, value : Int]
  BY FamilyFacts DEF SeriesOf
<1>2. t[a] = [s[a] EXCEPT !.value = v] /\ \A b \in Addresses : b # a => t[b] = s[b]
  BY DEF SetValue
<1>3. t[a].family = s[a].family /\ t[a].labels = s[a].labels /\ t[a].value = v
  BY <1>1, <1>2
<1>4. t[a] \in SeriesOf
  BY <1>1, <1>2 DEF SeriesOf
<1>5. t \in [Addresses -> SeriesOf]
  <2>1. \A b \in Addresses : t[b] \in SeriesOf
    BY <1>2, <1>4
  <2>2. t = [b \in Addresses |-> t[b]]
    BY DEF SetValue
  <2> QED BY <2>1, <2>2
<1>6. \A b \in Addresses : t[b].family = s[b].family /\ t[b].labels = s[b].labels
  BY <1>2, <1>3
<1>7. Distinct(t)
  BY <1>6 DEF Distinct
<1> QED BY <1>2, <1>3, <1>5, <1>6, <1>7

----------------------------------------------------------------------------
(* What a step may do to everybody else.                                   *)

UserOf(n) == [metric : Metrics, labels : LabelSets, handle : 1..n]

\* Nobody's handle becomes another but for the payload it remembers, and no
\* series that is sampled goes.
Frame ==
  /\ Len(handles) <= Len(handles') /\ Len(users) <= Len(users')
  /\ \A u \in 1..Len(users) : users'[u] = users[u]
  /\ \A i \in 1..Len(handles) :
       /\ handles'[i] = Inert <=> handles[i] = Inert
       /\ handles'[i].type = handles[i].type /\ handles'[i].family = handles[i].family
       /\ handles'[i].series = handles[i].series
  /\ \A b \in Addresses : series[b].family \in Families \ InfoFamilies =>
       series'[b].family = series[b].family /\ series'[b].labels = series[b].labels

\* What the type invariant says of lengths, handles and metrics.
LEMMA TypeFacts ==
  ASSUME TypeOK
  PROVE  /\ series \in [Addresses -> SeriesOf]
         /\ handles \in Seq(Handles) /\ Len(handles) \in Nat
         /\ users \in Seq(UserOf(Len(handles))) /\ Len(users) \in Nat
         /\ \A u \in 1..Len(users) :
              /\ users[u].metric \in Metrics /\ users[u].labels \in LabelSets
              /\ users[u].handle \in 1..Len(handles)
              /\ HandleOf(u) \in Handles
<1>1. /\ series \in [Addresses -> SeriesOf] /\ handles \in Seq(Handles)
      /\ users \in Seq(UserOf(Len(handles)))
  BY DEF TypeOK, SeriesOf, Handles, UserOf
<1>2. Len(handles) \in Nat /\ Len(users) \in Nat
  BY <1>1
<1>3. ASSUME NEW u \in 1..Len(users)
      PROVE  /\ users[u].metric \in Metrics /\ users[u].labels \in LabelSets
             /\ users[u].handle \in 1..Len(handles)
             /\ HandleOf(u) \in Handles
  <2>1. users[u] \in UserOf(Len(handles))
    BY <1>1
  <2>2. /\ users[u].metric \in Metrics /\ users[u].labels \in LabelSets
        /\ users[u].handle \in 1..Len(handles)
    BY <2>1 DEF UserOf
  <2> QED BY <1>1, <2>2 DEF HandleOf
<1> QED BY <1>1, <1>2, <1>3

\* A function on 1..n is a list of length n.
LEMMA ListFacts ==
  ASSUME NEW S, NEW n \in Nat, NEW f \in [1..n -> S]
  PROVE  f \in Seq(S) /\ Len(f) = n
OBVIOUS

\* What a new handle adds.
LEMMA NewHandleFacts ==
  ASSUME TypeOK, NEW state \in Handles, NewHandle(state)
  PROVE  /\ handles' \in Seq(Handles)
         /\ Len(handles') = Len(handles) + 1
         /\ \A i \in 1..Len(handles) : handles'[i] = handles[i]
         /\ handles'[Len(handles) + 1] = state
BY TypeFacts DEF NewHandle

\* What a new metric or child adds.
LEMMA NewUserFacts ==
  ASSUME TypeOK, NEW m \in Metrics, NEW l \in LabelSets, Len(handles') \in Nat,
         Len(handles) <= Len(handles'), NEW n \in 1..Len(handles'), NewUser(m, l, n)
  PROVE  /\ users' \in Seq(UserOf(Len(handles')))
         /\ Len(users') = Len(users) + 1
         /\ \A u \in 1..Len(users) : users'[u] = users[u]
         /\ users'[Len(users) + 1] = [metric |-> m, labels |-> l, handle |-> n]
<1> DEFINE x == [metric |-> m, labels |-> l, handle |-> n]
<1>1. UserOf(Len(handles)) \subseteq UserOf(Len(handles')) /\ x \in UserOf(Len(handles'))
  BY TypeFacts DEF UserOf
<1>2. users \in Seq(UserOf(Len(handles'))) /\ Len(users) \in Nat
  <2>1. /\ users \in Seq(UserOf(Len(handles))) /\ Len(users) \in Nat
        /\ users = [u \in 1..Len(users) |-> users[u]]
    BY TypeFacts
  <2>2. \A u \in 1..Len(users) : users[u] \in UserOf(Len(handles'))
    BY <1>1, <2>1
  <2> QED BY <2>1, <2>2
<1>3. users' = Append(users, x)
  BY DEF NewUser
<1> HIDE DEF x
<1>4. /\ users' \in Seq(UserOf(Len(handles')))
      /\ Len(users') = Len(users) + 1
      /\ \A u \in 1..Len(users) : users'[u] = users[u]
      /\ users'[Len(users) + 1] = x
  BY <1>1, <1>2, <1>3
<1> QED BY <1>4 DEF x

\* Whoever has a handle that fits keeps one.
LEMMA UsersKept ==
  ASSUME OnlyInfoInFamily, TypeOK, UserInv, Frame, Len(users') \in Nat,
         \A u \in (Len(users) + 1)..Len(users') : Fits(u)'
  PROVE  UserInv'
<1> SUFFICES ASSUME NEW u \in 1..Len(users') PROVE Fits(u)'
  BY DEF UserInv
<1>1. CASE u \in 1..Len(users)
  <2>1. /\ users'[u] = users[u] /\ users[u].metric \in Metrics
        /\ users[u].handle \in 1..Len(handles)
    BY <1>1, TypeFacts DEF Frame
  <2>2. /\ HandleOf(u)' = Inert <=> HandleOf(u) = Inert
        /\ HandleOf(u)'.type = HandleOf(u).type
        /\ HandleOf(u)'.family = HandleOf(u).family
        /\ HandleOf(u)'.series = HandleOf(u).series
    BY <2>1 DEF HandleOf, Frame
  <2>3. Fits(u)
    BY <1>1 DEF UserInv
  <2> DEFINE m == users[u].metric
  <2> DEFINE h == HandleOf(u)
  <2>4. ASSUME h # Inert, m.type \notin Lazy
        PROVE  series'[h.series].family = h.family /\ h.series \in Addresses
    <3>1. /\ h.family = FamilyOf(m) /\ h.series \in Addresses
          /\ series[h.series].family = h.family
      BY <2>3, <2>4 DEF Fits
    <3>2. h.family \in Families \ InfoFamilies
      BY <2>1, <2>4, <3>1, InfoFacts, FamilyFacts DEF Lazy
    <3> QED BY <3>1, <3>2 DEF Frame
  <2> HIDE DEF m, h
  <2>5. h # Inert => h.type = m.type /\ h.family = FamilyOf(m)
    BY <2>3 DEF Fits, h, m
  <2> QED BY <2>1, <2>2, <2>4, <2>5 DEF Fits, h, m
<1>2. CASE u \notin 1..Len(users)
  <2>1. u \in (Len(users) + 1)..Len(users')
    BY <1>2, TypeFacts
  <2> QED BY <2>1
<1> QED BY <1>1, <1>2

\* A payload's series stays known if handles are only added and no info family
\* gets a series.
LEMMA ReplaceKept ==
  ASSUME ReplaceInv, Len(handles) \in Nat, Len(handles') \in Nat,
         Len(handles) <= Len(handles'),
         \A i \in 1..Len(handles) : handles'[i] = handles[i],
         \A a \in Addresses : series'[a].family \in InfoFamilies =>
           series[a].family = series'[a].family
  PROVE  ReplaceInv'
<1> SUFFICES ASSUME NEW f \in InfoFamilies, NEW a \in Addresses, series'[a].family = f
             PROVE  \/ \E i \in 1..Len(handles') :
                         handles'[i].family = f /\ handles'[i].info = a
                    \/ \E i, j \in 1..Len(handles') :
                         i # j /\ handles'[i].family = f /\ handles'[j].family = f
  BY DEF ReplaceInv, InfoFamilies
<1>1. 1..Len(handles) \subseteq 1..Len(handles')
  OBVIOUS
<1>2. series[a].family = f
  OBVIOUS
<1>3. \/ \E i \in 1..Len(handles) : handles[i].family = f /\ handles[i].info = a
      \/ \E i, j \in 1..Len(handles) : i # j /\ handles[i].family = f /\ handles[j].family = f
  BY <1>2 DEF ReplaceInv
<1> QED BY <1>1, <1>3

\* The last payload stays exported if no series of an info family changes.
LEMMA LatestKept ==
  ASSUME LatestPayloadExported, payload' = payload,
         \A a \in Addresses : series[a].family \in InfoFamilies => series'[a] = series[a]
  PROVE  LatestPayloadExported'
<1> SUFFICES ASSUME NEW f \in InfoFamilies, payload[f] # NoLabels
             PROVE  \E a \in At(f, payload[f])' : series'[a].value = 1
  BY DEF LatestPayloadExported, InfoFamilies
<1>1. PICK a \in At(f, payload[f]) : series[a].value = 1
  BY DEF LatestPayloadExported
<1>2. a \in At(f, payload[f])' /\ series'[a] = series[a]
  BY <1>1 DEF At, Has
<1> QED BY <1>1, <1>2

\* The types, with the sets of this module.
LEMMA TypesOf ==
  ASSUME series' \in [Addresses -> SeriesOf], handles' \in Seq(Handles),
         users' \in Seq(UserOf(Len(handles'))), samples' \in 0..MaxSamples,
         ledger' \in [Families \X LabelSets -> Int], payload' \in [Families -> LabelSets]
  PROVE  TypeOK'
BY DEF TypeOK, SeriesOf, Handles, UserOf

\* A step that adds a user, perhaps with a handle, and perhaps a series that is
\* not of an info family.
LEMMA AddsUser ==
  ASSUME OnlyInfoInFamily, IInv, UNCHANGED <<samples, ledger, payload>>,
         NEW m \in Metrics, NEW l \in LabelSets, NEW n \in 1..Len(handles'), NewUser(m, l, n),
         handles' \in Seq(Handles), Len(handles) <= Len(handles'),
         \A i \in 1..Len(handles) : handles'[i] = handles[i],
         series' \in [Addresses -> SeriesOf], Distinct(series'),
         \A a \in Addresses : series[a].family \in Families => series'[a] = series[a],
         handles'[n] # Inert =>
           /\ handles'[n].type = m.type /\ handles'[n].family = FamilyOf(m)
           /\ m.type \notin Lazy => /\ handles'[n].series \in Addresses
                                    /\ series'[handles'[n].series].family = FamilyOf(m)
  PROVE  TypeOK' /\ Distinct(series)' /\ UserInv' /\ LatestPayloadExported' /\ Frame
<1>1. TypeOK /\ Distinct(series) /\ UserInv /\ LatestPayloadExported
  BY DEF IInv
<1>2. Len(handles') \in Nat
  OBVIOUS
<1>3. /\ users' \in Seq(UserOf(Len(handles')))
      /\ Len(users') = Len(users) + 1
      /\ \A u \in 1..Len(users) : users'[u] = users[u]
      /\ users'[Len(users) + 1] = [metric |-> m, labels |-> l, handle |-> n]
  BY <1>1, <1>2, NewUserFacts
<1>4. TypeOK'
  <2>1. /\ samples' \in 0..MaxSamples
        /\ ledger' \in [Families \X LabelSets -> Int] /\ payload' \in [Families -> LabelSets]
    BY <1>1 DEF TypeOK
  <2> QED BY <1>3, <2>1, TypesOf
<1>5. Len(users) \in Nat
  BY <1>1, TypeFacts
<1>6. Frame
  BY <1>3, <1>5 DEF Frame
<1>7. ASSUME NEW u \in (Len(users) + 1)..Len(users')
      PROVE  Fits(u)'
  <2>1. u = Len(users) + 1
    BY <1>3, <1>5
  <2>2. users'[u].metric = m /\ users'[u].handle = n
    BY <1>3, <2>1
  <2> QED BY <2>2 DEF Fits, HandleOf
<1>8. UserInv'
  BY <1>1, <1>3, <1>5, <1>6, <1>7, UsersKept
<1>9. LatestPayloadExported'
  BY <1>1, LatestKept, FamilyFacts
<1> QED BY <1>4, <1>6, <1>8, <1>9

----------------------------------------------------------------------------
(* The steps.                                                              *)

\* register_metric, of a lazy metric.
LEMMA RegisterLazy ==
  ASSUME OnlyInfoInFamily, IInv, NEW m \in Metrics, Register(m), m.type \in Lazy
  PROVE  IInv' /\ Frame
<1> DEFINE state == [type |-> m.type, family |-> FamilyOf(m), series |-> Null, info |-> Null]
<1>1. /\ NewHandle(state) /\ UNCHANGED series
      /\ NewUser(m, NoLabels, Len(handles) + 1)
      /\ UNCHANGED <<samples, ledger, payload>>
  BY DEF Register
<1>2. TypeOK /\ Distinct(series) /\ ReplaceInv
  BY DEF IInv
<1>3. state \in Handles
  BY FamilyFacts DEF Handles
<1> HIDE DEF state
<1>4. /\ handles' \in Seq(Handles)
      /\ Len(handles') = Len(handles) + 1 /\ Len(handles) \in Nat
      /\ \A i \in 1..Len(handles) : handles'[i] = handles[i]
      /\ handles'[Len(handles) + 1] = state
  BY <1>1, <1>2, <1>3, NewHandleFacts, TypeFacts
<1>5. TypeOK' /\ Distinct(series)' /\ UserInv' /\ LatestPayloadExported' /\ Frame
  <2>1. state.type = m.type /\ state.family = FamilyOf(m)
    BY DEF state
  <2>2. Len(handles) + 1 \in 1..Len(handles') /\ Len(handles) <= Len(handles')
    BY <1>4
  <2>3. series' \in [Addresses -> SeriesOf] /\ Distinct(series')
    BY <1>1, <1>2, TypeFacts
  <2> QED BY <1>1, <1>4, <2>1, <2>2, <2>3, AddsUser, LabelFacts
<1>6. ReplaceInv'
  BY <1>1, <1>2, <1>4, ReplaceKept
<1> QED BY <1>5, <1>6 DEF IInv

\* register_metric, of a metric with a series.
LEMMA RegisterSampled ==
  ASSUME OnlyInfoInFamily, IInv, NEW m \in Metrics, Register(m), m.type \notin Lazy
  PROVE  /\ IInv' /\ Frame
         /\ NewUser(m, NoLabels, Len(handles) + 1) /\ UNCHANGED ledger
         /\ Len(handles') = Len(handles) + 1
         /\ handles'[Len(handles) + 1].series \in Places(series, FamilyOf(m), NoLabels)
         /\ series' = Added(series, FamilyOf(m), NoLabels, handles'[Len(handles) + 1].series)
<1> DEFINE f == FamilyOf(m)
<1>1. TypeOK /\ Distinct(series) /\ ReplaceInv /\ f \in Families /\ m.type \in Types
      /\ series \in [Addresses -> SeriesOf]
  BY FamilyFacts, TypeFacts DEF IInv
<1>2. PICK a \in Places(series, f, NoLabels) :
        /\ series' = Added(series, f, NoLabels, a)
        /\ NewHandle([[type |-> m.type, family |-> f, series |-> Null, info |-> Null]
                        EXCEPT !.series = a])
  BY DEF Register
<1>3. /\ NewUser(m, NoLabels, Len(handles) + 1)
      /\ UNCHANGED <<samples, ledger, payload>>
  BY DEF Register
<1> DEFINE state == [type |-> m.type, family |-> f, series |-> a, info |-> Null]
<1>4. /\ a \in Addresses
      /\ series' \in [Addresses -> SeriesOf]
      /\ Distinct(series')
      /\ series'[a].family = f
      /\ \A b \in Addresses : b # a => series'[b] = series[b]
      /\ \A b \in Addresses : series[b].family \in Families => series'[b] = series[b]
  BY <1>1, <1>2, AddFacts, LabelFacts
<1>5. state \in Handles /\ NewHandle(state)
  BY <1>1, <1>2, <1>4 DEF Handles
<1>6. state.type = m.type /\ state.family = f /\ state.series = a
  OBVIOUS
<1> HIDE DEF state
<1>7. /\ handles' \in Seq(Handles)
      /\ Len(handles') = Len(handles) + 1 /\ Len(handles) \in Nat
      /\ \A i \in 1..Len(handles) : handles'[i] = handles[i]
      /\ handles'[Len(handles) + 1] = state
  BY <1>1, <1>5, NewHandleFacts, TypeFacts
<1>8. TypeOK' /\ Distinct(series)' /\ UserInv' /\ LatestPayloadExported' /\ Frame
  <2>1. Len(handles) + 1 \in 1..Len(handles') /\ Len(handles) <= Len(handles')
    BY <1>7
  <2> QED BY <1>3, <1>4, <1>6, <1>7, <2>1, AddsUser, LabelFacts
<1>9. ReplaceInv'
  <2>1. f \notin InfoFamilies
    BY InfoFacts DEF Lazy
  <2> QED BY <1>1, <1>4, <1>7, <2>1, ReplaceKept
<1> QED BY <1>2, <1>3, <1>6, <1>7, <1>8, <1>9 DEF IInv

\* An inert handle fits every metric.
LEMMA RegisterFailsStep ==
  ASSUME OnlyInfoInFamily, IInv, NEW m \in Metrics, RegisterFails(m)
  PROVE  IInv' /\ Frame
<1>1. /\ NewHandle(Inert) /\ UNCHANGED series
      /\ NewUser(m, NoLabels, Len(handles) + 1)
      /\ UNCHANGED <<samples, ledger, payload>>
  BY DEF RegisterFails, FailureHandle
<1>2. TypeOK /\ Distinct(series) /\ ReplaceInv
  BY DEF IInv
<1>3. /\ handles' \in Seq(Handles)
      /\ Len(handles') = Len(handles) + 1 /\ Len(handles) \in Nat
      /\ \A i \in 1..Len(handles) : handles'[i] = handles[i]
      /\ handles'[Len(handles) + 1] = Inert
  BY <1>1, <1>2, NewHandleFacts, TypeFacts DEF Handles
<1>4. TypeOK' /\ Distinct(series)' /\ UserInv' /\ LatestPayloadExported' /\ Frame
  <2>1. Len(handles) + 1 \in 1..Len(handles') /\ Len(handles) <= Len(handles')
    BY <1>3
  <2>2. series' \in [Addresses -> SeriesOf] /\ Distinct(series')
    BY <1>1, <1>2, TypeFacts
  <2> QED BY <1>1, <1>3, <2>1, <2>2, AddsUser, LabelFacts
<1>5. ReplaceInv'
  BY <1>1, <1>2, <1>3, ReplaceKept
<1> QED BY <1>4, <1>5 DEF IInv

\* A child of an inert handle, and one the library throws at, has the handle of
\* its parent.
LEMMA SameHandle ==
  ASSUME OnlyInfoInFamily, IInv, NEW u \in 1..Len(users), NEW d \in DynamicLabels,
         NewUser(users[u].metric, d, users[u].handle),
         UNCHANGED <<series, handles, samples, ledger, payload>>
  PROVE  IInv' /\ Frame
<1>1. TypeOK /\ Distinct(series) /\ ReplaceInv /\ UserInv
  BY DEF IInv
<1> DEFINE m == users[u].metric
<1> DEFINE n == users[u].handle
<1>2. m \in Metrics /\ n \in 1..Len(handles)
      /\ handles \in Seq(Handles) /\ Len(handles) \in Nat
      /\ series \in [Addresses -> SeriesOf]
  BY <1>1, TypeFacts
<1>3. handles'[n] # Inert =>
        /\ handles'[n].type = m.type /\ handles'[n].family = FamilyOf(m)
        /\ m.type \notin Lazy => /\ handles'[n].series \in Addresses
                                 /\ series'[handles'[n].series].family = FamilyOf(m)
  BY <1>1 DEF UserInv, Fits, HandleOf
<1>4. NewUser(m, d, n)
  OBVIOUS
<1> HIDE DEF m, n
<1>5. TypeOK' /\ Distinct(series)' /\ UserInv' /\ LatestPayloadExported' /\ Frame
  <2>1. d \in LabelSets
    BY LabelFacts
  <2>2. /\ n \in 1..Len(handles') /\ handles' \in Seq(Handles) /\ Len(handles) <= Len(handles')
        /\ series' \in [Addresses -> SeriesOf] /\ Distinct(series')
    BY <1>1, <1>2
  <2> QED BY <1>2, <1>3, <1>4, <2>1, <2>2, AddsUser
<1>6. ReplaceInv'
  BY <1>1, <1>2, ReplaceKept
<1> QED BY <1>5, <1>6 DEF IInv

\* A child's handle is its parent's but for the series.
LEMMA ChildHandle ==
  ASSUME NEW p \in Handles, p # Inert, NEW a
  PROVE  [p EXCEPT !.series = a, !.info = Null] =
           [type |-> p.type, family |-> p.family, series |-> a, info |-> Null]
<1> DEFINE q == [p EXCEPT !.series = a]
<1>1. p \in [type : Types, family : Families,
             series : Addresses \union {Null}, info : Addresses \union {Null}]
  BY DEF Handles
<1>2. q = [type |-> p.type, family |-> p.family, series |-> a, info |-> p.info]
  BY <1>1
<1>3. [p EXCEPT !.series = a, !.info = Null] = [q EXCEPT !.info = Null]
  OBVIOUS
<1> HIDE DEF q
<1>4. q \in [type : Types, family : Families, series : {a}, info : Addresses \union {Null}]
  BY <1>1, <1>2
<1>5. [q EXCEPT !.info = Null] =
        [type |-> q.type, family |-> q.family, series |-> q.series, info |-> Null]
  BY <1>4
<1> QED BY <1>2, <1>3, <1>5

\* A child gets a handle of its own, to a series of the parent's family.
LEMMA ResolveStep ==
  ASSUME OnlyInfoInFamily, IInv, NEW u \in 1..Len(users), NEW d \in DynamicLabels,
         Resolve(u, d), HandleOf(u) # Inert
  PROVE  /\ IInv' /\ Frame
         /\ NewUser(users[u].metric, d, Len(handles) + 1) /\ UNCHANGED ledger
         /\ Len(handles') = Len(handles) + 1
         /\ handles'[Len(handles) + 1].series \in Places(series, FamilyOf(users[u].metric), d)
         /\ series' = Added(series, FamilyOf(users[u].metric), d,
                            handles'[Len(handles) + 1].series)
<1> DEFINE m == users[u].metric
<1> DEFINE f == FamilyOf(m)
<1> DEFINE parent == HandleOf(u)
<1>1. TypeOK /\ Distinct(series) /\ ReplaceInv /\ UserInv
  BY DEF IInv
<1>2. m \in Metrics /\ users[u].handle \in 1..Len(handles) /\ parent \in Handles
      /\ series \in [Addresses -> SeriesOf] /\ f \in Families
  BY <1>1, TypeFacts, FamilyFacts
<1>3. parent.type = m.type /\ parent.family = f
  BY <1>1 DEF UserInv, Fits
<1>4. PICK a \in Places(series, f, d) :
        /\ series' = Added(series, f, d, a)
        /\ NewHandle([parent EXCEPT !.series = a, !.info = Null])
  BY <1>3 DEF Resolve, HandleOf, ChildLabels
<1>5. /\ NewUser(m, d, Len(handles) + 1)
      /\ UNCHANGED <<samples, ledger, payload>>
  BY DEF Resolve, HandleOf
<1> DEFINE state == [type |-> m.type, family |-> f, series |-> a, info |-> Null]
<1>6. /\ a \in Addresses
      /\ series' \in [Addresses -> SeriesOf]
      /\ Distinct(series')
      /\ series'[a].family = f
      /\ \A b \in Addresses : b # a => series'[b] = series[b]
      /\ \A b \in Addresses : series[b].family \in Families => series'[b] = series[b]
  BY <1>1, <1>2, <1>4, AddFacts, LabelFacts
<1>7. state \in Handles /\ [parent EXCEPT !.series = a, !.info = Null] = state
  <2>1. m.type \in Types
    BY <1>2, FamilyFacts
  <2> HIDE DEF parent, m, f
  <2>2. [parent EXCEPT !.series = a, !.info = Null] = state
    BY <1>2, <1>3, ChildHandle DEF parent
  <2> QED BY <1>2, <1>6, <2>1, <2>2 DEF Handles
<1>8. state.type = m.type /\ state.family = f /\ state.series = a
  OBVIOUS
<1>9. NewHandle(state)
  BY <1>4, <1>7
<1> HIDE DEF state, parent
<1>10. /\ handles' \in Seq(Handles)
       /\ Len(handles') = Len(handles) + 1 /\ Len(handles) \in Nat
       /\ \A i \in 1..Len(handles) : handles'[i] = handles[i]
       /\ handles'[Len(handles) + 1] = state
  BY <1>1, <1>7, <1>9, NewHandleFacts, TypeFacts
<1>11. TypeOK' /\ Distinct(series)' /\ UserInv' /\ LatestPayloadExported' /\ Frame
  <2>1. Len(handles) + 1 \in 1..Len(handles') /\ Len(handles) <= Len(handles')
    BY <1>10
  <2> QED BY <1>2, <1>5, <1>6, <1>8, <1>10, <2>1, AddsUser, LabelFacts
<1>12. ReplaceInv'
  <2>1. CASE f \notin InfoFamilies
    BY <1>1, <1>6, <1>10, <2>1, ReplaceKept
  <2>2. CASE f \in InfoFamilies
    <3> SUFFICES ASSUME NEW g \in InfoFamilies, NEW b \in Addresses, series'[b].family = g
                 PROVE  \/ \E i \in 1..Len(handles') :
                             handles'[i].family = g /\ handles'[i].info = b
                        \/ \E i, j \in 1..Len(handles') :
                             i # j /\ handles'[i].family = g /\ handles'[j].family = g
      BY DEF ReplaceInv, InfoFamilies
    <3>1. 1..Len(handles) \subseteq 1..Len(handles') /\ Len(handles) + 1 \in 1..Len(handles')
      BY <1>10
    <3>2. CASE g = f
      <4>1. handles'[users[u].handle].family = f
        BY <1>2, <1>3, <1>10 DEF parent, HandleOf
      <4>2. handles'[Len(handles) + 1].family = f /\ users[u].handle # Len(handles) + 1
        BY <1>2, <1>8, <1>10
      <4> QED BY <1>2, <3>1, <3>2, <4>1, <4>2
    <3>3. CASE g # f
      <4>1. series[b].family = g
        BY <1>6, <3>3
      <4>2. \/ \E i \in 1..Len(handles) : handles[i].family = g /\ handles[i].info = b
            \/ \E i, j \in 1..Len(handles) :
                 i # j /\ handles[i].family = g /\ handles[j].family = g
        BY <1>1, <4>1 DEF ReplaceInv
      <4> QED BY <1>10, <3>1, <4>2
    <3> QED BY <3>2, <3>3
  <2> QED BY <2>1, <2>2
<1> QED BY <1>4, <1>5, <1>6, <1>8, <1>10, <1>11, <1>12 DEF IInv

\* What a sample makes of a number.
LEMMA OutcomeType ==
  ASSUME NEW m \in Metrics, NEW op \in Calls(m.type), NEW v \in Int
  PROVE  Outcome(op, v) \in Int /\ m.type \notin Lazy
<1>1. m.type \in Types
  BY FamilyFacts
<1>2. op \in {"inc", "dec", "set", "observe"} /\ m.type \notin Lazy
  BY <1>1 DEF Calls, Types, Lazy
<1> QED BY <1>2 DEF Outcome

\* A step that leaves the handles and the users, and changes only values of
\* series that are not of an info family, or adds one.
LEMMA Samples ==
  ASSUME OnlyInfoInFamily, IInv, UNCHANGED <<handles, users, payload>>,
         samples' \in 0..MaxSamples, ledger' \in [Families \X LabelSets -> Int],
         series' \in [Addresses -> SeriesOf], Distinct(series'),
         \A a \in Addresses : series[a].family \in Families =>
           series'[a].family = series[a].family /\ series'[a].labels = series[a].labels,
         \A a \in Addresses :
           series[a].family \in InfoFamilies \/ series'[a].family \in InfoFamilies =>
             series'[a] = series[a]
  PROVE  IInv' /\ Frame
<1>1. TypeOK /\ UserInv /\ ReplaceInv /\ LatestPayloadExported
      /\ users \in Seq(UserOf(Len(handles))) /\ Len(users) \in Nat
      /\ handles \in Seq(Handles) /\ Len(handles) \in Nat
  BY TypeFacts DEF IInv
<1>2. TypeOK'
  <2>1. payload' \in [Families -> LabelSets]
    BY <1>1 DEF TypeOK
  <2> QED BY <1>1, <2>1, TypesOf
<1>3. Frame
  BY <1>1 DEF Frame
<1>4. UserInv'
  <2>1. \A u \in (Len(users) + 1)..Len(users') : FALSE
    BY <1>1
  <2> QED BY <1>1, <1>3, <2>1, UsersKept
<1>5. ReplaceInv'
  BY <1>1, ReplaceKept
<1>6. LatestPayloadExported'
  BY <1>1, LatestKept
<1> QED BY <1>2, <1>3, <1>4, <1>5, <1>6 DEF IInv

\* A sample, on a handle that it has an effect on.
LEMMA SampleStep ==
  ASSUME OnlyInfoInFamily, IInv, NEW u \in 1..Len(users), Sample(u)
  PROVE  IInv' /\ Frame
<1> DEFINE m == users[u].metric
<1> DEFINE h == HandleOf(u)
<1>1. TypeOK /\ UserInv /\ Distinct(series) /\ m \in Metrics
      /\ series \in [Addresses -> SeriesOf] /\ ledger \in [Families \X LabelSets -> Int]
  BY TypeFacts DEF IInv, TypeOK
<1>2. samples' \in 0..MaxSamples /\ UNCHANGED <<handles, users, payload>>
  BY <1>1, BackendAssumption DEF Sample, CountSample, TypeOK
<1>3. CASE UNCHANGED <<series, ledger>>
  BY <1>1, <1>2, <1>3, Samples
<1>4. CASE ~UNCHANGED <<series, ledger>>
  <2>1. PICK op \in Calls(m.type) :
          /\ h # Inert
          /\ series' = [series EXCEPT ![h.series].value = Outcome(op, @)]
          /\ ledger' = [ledger EXCEPT ![<<FamilyOf(m), users[u].labels>>] = Outcome(op, @)]
    BY <1>4 DEF Sample, HandleOf
  <2> DEFINE v == Outcome(op, series[h.series].value)
  <2>2. m.type \notin Lazy /\ \A x \in Int : Outcome(op, x) \in Int
    BY <1>1, OutcomeType
  <2>3. /\ h.series \in Addresses /\ h.family = FamilyOf(m)
        /\ series[h.series].family = h.family
    BY <1>1, <2>1, <2>2 DEF UserInv, Fits
  <2>4. h.family \in Families /\ h.family \notin InfoFamilies
    BY <1>1, <2>2, <2>3, FamilyFacts, InfoFacts DEF Lazy
  <2>5. v \in Int
    BY <1>1, <2>2, <2>3, <2>4, SeriesFacts
  <2>6. ledger' \in [Families \X LabelSets -> Int]
    BY <1>1, <2>1, <2>2
  <2> DEFINE a == h.series
  <2>7. series' = SetValue(series, a, v)
    BY <2>1 DEF SetValue
  <2>place. a \in Addresses /\ series[a].family \in Families
    BY <2>3, <2>4
  <2> HIDE DEF v, h, a
  <2>8. /\ series' \in [Addresses -> SeriesOf]
        /\ Distinct(series')
        /\ \A b \in Addresses : b # a => series'[b] = series[b]
        /\ \A b \in Addresses :
             series'[b].family = series[b].family /\ series'[b].labels = series[b].labels
    BY <1>1, <2>5, <2>7, <2>place, SetFacts
  <2>9. \A b \in Addresses :
          series[b].family \in InfoFamilies \/ series'[b].family \in InfoFamilies =>
            series'[b] = series[b]
    BY <2>3, <2>4, <2>8 DEF a
  <2> QED BY <1>2, <2>6, <2>8, <2>9, Samples
<1> QED BY <1>3, <1>4

\* A state's series is made when the state is first set.
LEMMA SetStateStep ==
  ASSUME OnlyInfoInFamily, IInv, NEW u \in 1..Len(users), NEW s \in States,
         NEW active \in {0, 1}, SetState(u, s, active)
  PROVE  IInv' /\ Frame
<1> DEFINE m == users[u].metric
<1> DEFINE h == HandleOf(u)
<1>1. TypeOK /\ UserInv /\ Distinct(series) /\ m \in Metrics
      /\ series \in [Addresses -> SeriesOf] /\ ledger \in [Families \X LabelSets -> Int]
  BY TypeFacts DEF IInv, TypeOK
<1>2. /\ samples' \in 0..MaxSamples /\ UNCHANGED <<handles, users, payload>>
      /\ m.type = "StateSet"
  BY <1>1, BackendAssumption DEF SetState, CountSample, TypeOK
<1>3. CASE UNCHANGED <<series, ledger>>
  BY <1>1, <1>2, <1>3, Samples
<1>4. CASE ~UNCHANGED <<series, ledger>>
  <2>1. /\ h # Inert
        /\ ledger' = [ledger EXCEPT ![<<h.family, users[u].labels \union s>>] = active]
    BY <1>4 DEF SetState, HandleOf
  <2>2. PICK a \in Places(series, h.family, s) :
          series' = SetValue(Added(series, h.family, s, a), a, active)
    BY <1>4 DEF SetState, HandleOf, SetValue
  <2>3. h.family = FamilyOf(m)
    BY <1>1, <2>1 DEF UserInv, Fits
  <2>4. h.family \in Families /\ h.family \notin InfoFamilies
    BY <1>1, <1>2, <2>3, FamilyFacts, InfoFacts
  <2>5. ledger' \in [Families \X LabelSets -> Int]
    <3> DEFINE x == <<h.family, users[u].labels \union s>>
    <3>1. ledger' = [ledger EXCEPT ![x] = active] /\ active \in Int
      BY <2>1
    <3> HIDE DEF x
    <3> QED BY <1>1, <3>1
  <2> DEFINE f == h.family
  <2> DEFINE t == Added(series, f, s, a)
  <2> HIDE DEF h
  <2>6. /\ a \in Addresses
        /\ t \in [Addresses -> SeriesOf]
        /\ Distinct(t)
        /\ t[a].family = f
        /\ \A b \in Addresses : b # a => t[b] = series[b]
        /\ \A b \in Addresses : series[b].family \in Families => t[b] = series[b]
    BY <1>1, <2>4, AddFacts, LabelFacts
  <2>7. series' = SetValue(t, a, active) /\ active \in Int
    BY <2>2
  <2> HIDE DEF t
  <2>8. /\ series' \in [Addresses -> SeriesOf]
        /\ Distinct(series')
        /\ \A b \in Addresses : b # a => series'[b] = t[b]
        /\ \A b \in Addresses : series'[b].family = t[b].family /\ series'[b].labels = t[b].labels
    BY <2>4, <2>6, <2>7, SetFacts
  <2>9. \A b \in Addresses : series[b].family \in Families =>
          series'[b].family = series[b].family /\ series'[b].labels = series[b].labels
    BY <2>6, <2>8
  <2>10. \A b \in Addresses :
           series[b].family \in InfoFamilies \/ series'[b].family \in InfoFamilies =>
             series'[b] = series[b]
    <3>1. InfoFamilies \subseteq Families
      BY FamilyFacts
    <3> QED BY <2>4, <2>6, <2>8, <2>9, <3>1
  <2> QED BY <1>2, <2>5, <2>8, <2>9, <2>10, Samples
<1> QED BY <1>3, <1>4

\* What becomes of the series when a payload is replaced: those of the handle's
\* last payload go, the new payload's is 1, and no other family is touched.
LEMMA ReplacedFacts ==
  ASSUME TypeOK, Distinct(series), NEW h \in Handles, h.family \in Families,
         NEW p \in LabelSets, NEW a \in Places(WithoutPrevious(h), h.family, p)
  PROVE  LET s == WithoutPrevious(h)
             t == Replaced(h, p, a)
         IN /\ s \in [Addresses -> SeriesOf] /\ Distinct(s)
            /\ \A b \in Addresses : b # h.info => s[b] = series[b]
            /\ h.info \in Addresses => s[h.info].family # h.family
            /\ \A b \in Addresses : series[b].family # h.family => s[b] = series[b]
            /\ \A b \in Addresses : s[b].family \in Families => s[b] = series[b]
            /\ a \in Addresses
            /\ t \in [Addresses -> SeriesOf] /\ Distinct(t)
            /\ t[a].family = h.family /\ t[a].labels = p /\ t[a].value = 1
            /\ \A b \in Addresses : b # a => t[b] = s[b]
            /\ \A b \in Addresses : s[b].family \in Families \ {h.family} => t[b] = s[b]
<1> DEFINE s == WithoutPrevious(h)
<1> DEFINE r == Added(s, h.family, p, a)
<1> DEFINE t == Replaced(h, p, a)
<1>1. series \in [Addresses -> SeriesOf]
  BY TypeFacts
<1>2. h.info = Null \/ h.info \in Addresses
  BY DEF Handles, Inert
<1>3. /\ s \in [Addresses -> SeriesOf] /\ Distinct(s)
      /\ \A b \in Addresses : b # h.info => s[b] = series[b]
      /\ h.info \in Addresses => s[h.info].family # h.family
      /\ \A b \in Addresses : series[b].family # h.family => s[b] = series[b]
      /\ \A b \in Addresses : s[b].family \in Families => s[b] = series[b]
  <2>1. CASE h.info = Null
    BY <1>1, <2>1, BackendAssumption DEF WithoutPrevious
  <2>2. CASE h.info # Null
    <3>1. s = Removed(series, h.family, h.info)
      BY <2>2 DEF WithoutPrevious
    <3> HIDE DEF s
    <3> QED BY <1>1, <3>1, RemoveFacts
  <2> QED BY <2>1, <2>2
<1> HIDE DEF s
<1>4. /\ a \in Addresses
      /\ r \in [Addresses -> SeriesOf] /\ Distinct(r)
      /\ r[a].family = h.family /\ r[a].labels = p
      /\ \A b \in Addresses : b # a => r[b] = s[b]
      /\ \A b \in Addresses : s[b].family \in Families => r[b] = s[b]
  <2>1. a \in Places(s, h.family, p)
    BY DEF s
  <2> QED BY <1>3, <2>1, AddFacts
<1>5. t = SetValue(r, a, 1)
  BY DEF Replaced, SetValue, s
<1> HIDE DEF r, t
<1>6. /\ t \in [Addresses -> SeriesOf] /\ Distinct(t)
      /\ t[a].family = h.family /\ t[a].labels = p /\ t[a].value = 1
      /\ \A b \in Addresses : b # a => t[b] = r[b]
  BY <1>4, <1>5, SetFacts
<1>7. \A b \in Addresses : s[b].family \in Families \ {h.family} => t[b] = s[b]
  BY <1>4, <1>6
<1> QED BY <1>3, <1>4, <1>6, <1>7 DEF s, t

\* Replacing a payload: the one known before goes, and the handle knows the new.
LEMMA SetInfoStep ==
  ASSUME OnlyInfoInFamily, IInv, NEW u \in 1..Len(users), NEW p \in Payloads, SetInfo(u, p)
  PROVE  /\ IInv' /\ Frame
         /\ \A a \in Addresses :
              (series[a].family \in Families \ InfoFamilies
                 \/ series'[a].family \in Families \ InfoFamilies) =>
                series'[a] = series[a]
<1> DEFINE n == users[u].handle
<1> DEFINE h == HandleOf(u)
<1> DEFINE f == h.family
<1>1. /\ TypeOK /\ UserInv /\ Distinct(series) /\ ReplaceInv /\ LatestPayloadExported
      /\ series \in [Addresses -> SeriesOf] /\ ledger \in [Families \X LabelSets -> Int]
      /\ handles \in Seq(Handles) /\ Len(handles) \in Nat
      /\ users \in Seq(UserOf(Len(handles))) /\ Len(users) \in Nat
      /\ payload \in [Families -> LabelSets]
      /\ users[u].metric \in Metrics /\ n \in 1..Len(handles) /\ h \in Handles
  BY TypeFacts DEF IInv, TypeOK
<1>2. /\ samples' \in 0..MaxSamples /\ UNCHANGED <<users, ledger>>
      /\ users[u].metric.type = "Info"
  BY <1>1, BackendAssumption DEF SetInfo, CountSample, TypeOK
<1>3. CASE h = Inert
  <2>1. UNCHANGED <<series, handles, payload>>
    BY <1>3 DEF SetInfo, HandleOf
  <2> QED BY <1>1, <1>2, <2>1, Samples
<1>4. CASE h # Inert
  <2>1. f \in Families /\ f \in InfoFamilies
    BY <1>1, <1>2, <1>4, FamilyFacts, InfoFacts DEF UserInv, Fits
  <2> DEFINE s == WithoutPrevious(h)
  <2>2. CASE Throws(f, p)
    <3>1. /\ series' = s /\ UNCHANGED handles
          /\ payload' = [payload EXCEPT ![f] = NoLabels]
      BY <1>4, <2>2 DEF SetInfo, HandleOf
    <3>2. /\ s \in [Addresses -> SeriesOf] /\ Distinct(s)
          /\ \A b \in Addresses : series[b].family # f => s[b] = series[b]
          /\ \A b \in Addresses : s[b].family \in Families => s[b] = series[b]
      <4>1. CASE h.info = Null
        <5>1. s = series
          BY <4>1 DEF WithoutPrevious
        <5> QED BY <1>1, <5>1
      <4>2. CASE h.info # Null
        <5>1. s = Removed(series, f, h.info)
          BY <4>2 DEF WithoutPrevious
        <5> HIDE DEF s, f
        <5> QED BY <1>1, <5>1, RemoveFacts
      <4> QED BY <4>1, <4>2
    <3> HIDE DEF s, f, h
    <3>3. TypeOK'
      <4>1. payload' \in [Families -> LabelSets]
        BY <1>1, <3>1, LabelFacts
      <4> QED BY <1>1, <1>2, <3>1, <3>2, <4>1, TypesOf
    <3>frame. Frame
      <4>1. UNCHANGED <<users, handles>>
        BY <1>2, <3>1
      <4>2. \A a \in Addresses :
              series[a].family \in Families /\ series[a].family \notin InfoFamilies =>
                series'[a] = series[a]
        BY <2>1, <3>1, <3>2
      <4> QED BY <1>1, <4>1, <4>2 DEF Frame
    <3>4. UserInv'
      <4>2. \A w \in (Len(users) + 1)..Len(users') : FALSE
        BY <1>1, <1>2
      <4> QED BY <1>1, <1>2, <3>frame, <4>2, UsersKept
    <3>5. ReplaceInv'
      BY <1>1, <3>1, <3>2, ReplaceKept, FamilyFacts
    <3>6. LatestPayloadExported'
      <4> SUFFICES ASSUME NEW g \in InfoFamilies, payload'[g] # NoLabels
                   PROVE  \E a \in At(g, payload[g])' : series'[a].value = 1
        BY DEF LatestPayloadExported, InfoFamilies
      <4>1. g # f /\ payload'[g] = payload[g] /\ g \in Families
        BY <1>1, <2>1, <3>1, FamilyFacts
      <4>2. PICK a \in At(g, payload[g]) : series[a].value = 1
        BY <1>1, <4>1 DEF LatestPayloadExported
      <4>3. a \in Addresses /\ series'[a] = series[a]
        BY <3>1, <3>2, <4>1, <4>2 DEF At, Has
      <4> QED BY <4>1, <4>2, <4>3 DEF At, Has
    <3>7. Distinct(series)'
      BY <3>1, <3>2
    <3>8. \A a \in Addresses :
            (series[a].family \in Families \ InfoFamilies
               \/ series'[a].family \in Families \ InfoFamilies) =>
              series'[a] = series[a]
      BY <2>1, <3>1, <3>2
    <3> QED BY <3>3, <3>frame, <3>4, <3>5, <3>6, <3>7, <3>8 DEF IInv
  <2>3. CASE ~Throws(f, p)
    <3>1. PICK a \in Places(s, f, p) :
            /\ series' = Replaced(h, p, a)
            /\ handles' = [handles EXCEPT ![n].info = a]
            /\ payload' = [payload EXCEPT ![f] = p]
      BY <1>4, <2>3 DEF SetInfo, HandleOf
    <3>2. /\ \A b \in Addresses : b # h.info => s[b] = series[b]
          /\ h.info \in Addresses => s[h.info].family # f
          /\ \A b \in Addresses : series[b].family # f => s[b] = series[b]
          /\ \A b \in Addresses : s[b].family \in Families => s[b] = series[b]
          /\ a \in Addresses
          /\ series' \in [Addresses -> SeriesOf] /\ Distinct(series')
          /\ series'[a].family = f /\ series'[a].labels = p /\ series'[a].value = 1
          /\ \A b \in Addresses : b # a => series'[b] = s[b]
          /\ \A b \in Addresses : s[b].family \in Families \ {f} => series'[b] = s[b]
      <4>1. a \in Places(WithoutPrevious(h), h.family, p) /\ p \in LabelSets
        BY <3>1, LabelFacts
      <4> HIDE DEF h
      <4> QED BY <1>1, <2>1, <3>1, <4>1, ReplacedFacts
    <3>3. /\ handles' \in Seq(Handles) /\ Len(handles') = Len(handles)
          /\ \A i \in 1..Len(handles) : i # n => handles'[i] = handles[i]
          /\ handles'[n] # Inert /\ handles'[n].type = h.type /\ handles'[n].family = f
          /\ handles'[n].series = h.series /\ handles'[n].info = a
      <4>1. handles[n] \in [type : Types, family : Families, series : Addresses \union {Null},
                            info : Addresses \union {Null}]
        BY <1>1, <1>4 DEF Handles, HandleOf
      <4>2. /\ handles'[n] = [handles[n] EXCEPT !.info = a]
            /\ \A i \in 1..Len(handles) : i # n => handles'[i] = handles[i]
        BY <1>1, <3>1
      <4>3. /\ handles'[n].type = h.type /\ handles'[n].family = f
            /\ handles'[n].series = h.series /\ handles'[n].info = a
        BY <4>1, <4>2 DEF HandleOf
      <4>4. handles'[n] \in Handles /\ handles'[n] # Inert
        <5>1. handles'[n] \in [type : Types, family : Families,
                               series : Addresses \union {Null}, info : Addresses \union {Null}]
          BY <3>2, <4>1, <4>2
        <5> QED BY <2>1, <4>3, <5>1, FamilyFacts DEF Handles
      <4>5. handles' = [i \in 1..Len(handles) |-> handles'[i]]
        <5>1. handles' = [i \in DOMAIN handles |-> handles'[i]]
          BY <3>1
        <5>2. DOMAIN handles = 1..Len(handles)
          BY <1>1
        <5> QED BY <5>1, <5>2
      <4>6. \A i \in 1..Len(handles) : handles'[i] \in Handles
        BY <1>1, <4>2, <4>4
      <4>7. handles' \in Seq(Handles) /\ Len(handles') = Len(handles)
        <5>1. handles' \in [1..Len(handles) -> Handles]
          BY <4>5, <4>6
        <5> QED BY <1>1, <5>1, ListFacts
      <4> QED BY <4>2, <4>3, <4>4, <4>7
    <3>4. handles[n] = h
      BY DEF HandleOf
    <3> HIDE DEF s, f, h, n
    <3>5. TypeOK'
      <4>1. payload' \in [Families -> LabelSets]
        BY <1>1, <3>1, LabelFacts
      <4>2. ledger' \in [Families \X LabelSets -> Int]
        BY <1>1, <1>2
      <4>3. users' \in Seq(UserOf(Len(handles')))
        BY <1>1, <1>2, <3>3
      <4> QED BY <1>2, <3>2, <3>3, <4>1, <4>2, <4>3, TypesOf
    <3>6. \A b \in Addresses :
            series[b].family \in Families \ {f} \/ series'[b].family \in Families \ {f} =>
              series'[b] = series[b]
      BY <3>2
    <3>frame. Frame
        <5>1. \A i \in 1..Len(handles) :
                /\ handles'[i] = Inert <=> handles[i] = Inert
                /\ handles'[i].type = handles[i].type /\ handles'[i].family = handles[i].family
                /\ handles'[i].series = handles[i].series
          BY <1>4, <3>3, <3>4 DEF f
        <5>2. \A b \in Addresses : series[b].family \in Families \ InfoFamilies =>
                series'[b].family = series[b].family /\ series'[b].labels = series[b].labels
          BY <2>1, <3>6
        <5> QED BY <1>1, <1>2, <3>3, <5>1, <5>2 DEF Frame
    <3>7. UserInv'
      <4>2. \A w \in (Len(users) + 1)..Len(users') : FALSE
        BY <1>1, <1>2
      <4> QED BY <1>1, <1>2, <3>frame, <4>2, UsersKept
    <3>8. ReplaceInv'
      <4> SUFFICES ASSUME NEW g \in InfoFamilies, NEW b \in Addresses, series'[b].family = g
                   PROVE  \/ \E i \in 1..Len(handles') :
                               handles'[i].family = g /\ handles'[i].info = b
                          \/ \E i, j \in 1..Len(handles') :
                               i # j /\ handles'[i].family = g /\ handles'[j].family = g
        BY DEF ReplaceInv, InfoFamilies
      <4>1. CASE b = a
        BY <1>1, <3>2, <3>3, <4>1
      <4>2. CASE b # a
        <5>1. series[b].family = g /\ (g = f => b # h.info)
          <6>1. series'[b] = s[b] /\ s[b] = series[b]
            BY <3>2, <4>2, FamilyFacts
          <6>2. b = h.info => s[b].family # f
            BY <3>2
          <6> QED BY <6>1, <6>2
        <5>2. \/ \E i \in 1..Len(handles) : handles[i].family = g /\ handles[i].info = b
              \/ \E i, j \in 1..Len(handles) :
                   i # j /\ handles[i].family = g /\ handles[j].family = g
          BY <1>1, <5>1 DEF ReplaceInv
        <5>3. \A i \in 1..Len(handles) : handles'[i].family = handles[i].family
          BY <3>3, <3>4 DEF f
        <5>4. ASSUME NEW i \in 1..Len(handles), handles[i].family = g, handles[i].info = b
              PROVE  \/ \E j \in 1..Len(handles') :
                          handles'[j].family = g /\ handles'[j].info = b
                     \/ \E j, k \in 1..Len(handles') :
                          j # k /\ handles'[j].family = g /\ handles'[k].family = g
          <6>1. CASE i = n
            BY <3>4, <5>1, <5>4, <6>1 DEF f
          <6>2. CASE i # n
            BY <3>3, <5>4, <6>2
          <6> QED BY <6>1, <6>2
        <5> QED BY <3>3, <5>2, <5>3, <5>4
      <4> QED BY <4>1, <4>2
    <3>9. LatestPayloadExported'
      <4> SUFFICES ASSUME NEW g \in InfoFamilies, payload'[g] # NoLabels
                   PROVE  \E b \in At(g, payload[g])' : series'[b].value = 1
        BY DEF LatestPayloadExported, InfoFamilies
      <4>1. CASE g = f
        <5>1. payload'[g] = p
          BY <1>1, <2>1, <3>1, <4>1
        <5>2. a \in At(g, payload[g])'
          BY <3>2, <4>1, <5>1 DEF At, Has
        <5> QED BY <3>2, <5>2
      <4>2. CASE g # f
        <5>1. payload'[g] = payload[g] /\ g \in Families
          BY <1>1, <2>1, <3>1, <4>2, FamilyFacts
        <5>2. PICK b \in At(g, payload[g]) : series[b].value = 1
          BY <1>1, <5>1 DEF LatestPayloadExported
        <5>3. b \in Addresses /\ series'[b] = series[b]
          BY <3>6, <4>2, <5>1, <5>2 DEF At, Has
        <5> QED BY <5>1, <5>2, <5>3 DEF At, Has
      <4> QED BY <4>1, <4>2
    <3>10. Distinct(series)'
      BY <3>2
    <3>11. \A b \in Addresses :
             (series[b].family \in Families \ InfoFamilies
                \/ series'[b].family \in Families \ InfoFamilies) =>
               series'[b] = series[b]
      BY <2>1, <3>6
    <3> QED BY <3>5, <3>frame, <3>7, <3>8, <3>9, <3>10, <3>11 DEF IInv
  <2> QED BY <2>2, <2>3
<1> QED BY <1>3, <1>4

----------------------------------------------------------------------------
(* The inductive invariant.                                                *)

\* It holds when nothing is registered.
LEMMA InvInit == Init => IInv
<1> SUFFICES ASSUME Init PROVE IInv
  OBVIOUS
<1>1. TypeOK
  BY BackendAssumption, LabelFacts DEF Init, TypeOK
<1>2. Distinct(series)
  BY FamilyFacts DEF Init, Distinct
<1>3. UserInv
  BY DEF Init, UserInv
<1>4. ReplaceInv
  BY FamilyFacts DEF Init, ReplaceInv
<1>5. LatestPayloadExported
  BY FamilyFacts DEF Init, LatestPayloadExported
<1> QED BY <1>1, <1>2, <1>3, <1>4, <1>5 DEF IInv

\* A child that has its parent's handle.
LEMMA SharesHandle ==
  ASSUME NEW u \in 1..Len(users), NEW d \in DynamicLabels,
         (Resolve(u, d) /\ HandleOf(u) = Inert) \/ ResolveFails(u, d)
  PROVE  /\ NewUser(users[u].metric, d, users[u].handle)
         /\ UNCHANGED <<series, handles, samples, ledger, payload>>
         /\ users[u].metric \in Labeled
         /\ HandleOf(u) = Inert \/ Throws(HandleOf(u).family, d)
<1>1. CASE Resolve(u, d) /\ HandleOf(u) = Inert
  BY <1>1 DEF Resolve, HandleOf
<1>2. CASE ResolveFails(u, d)
  BY <1>2 DEF ResolveFails, HandleOf
<1> QED BY <1>1, <1>2

\* Every step keeps it.
LEMMA InvStep ==
  ASSUME OnlyInfoInFamily
  PROVE  IInv /\ [Next]_vars => IInv'
<1> SUFFICES ASSUME IInv, [Next]_vars PROVE IInv'
  OBVIOUS
<1>1. ASSUME NEW m \in Metrics, Register(m) PROVE IInv'
  BY <1>1, RegisterLazy, RegisterSampled
<1>2. ASSUME NEW m \in Metrics, RegisterFails(m) PROVE IInv'
  BY <1>2, RegisterFailsStep
<1>3. ASSUME NEW u \in 1..Len(users), NEW d \in DynamicLabels, Resolve(u, d) PROVE IInv'
  <2>1. CASE HandleOf(u) = Inert
    BY <1>3, <2>1, SharesHandle, SameHandle
  <2>2. CASE HandleOf(u) # Inert
    BY <1>3, <2>2, ResolveStep
  <2> QED BY <2>1, <2>2
<1>4. ASSUME NEW u \in 1..Len(users), NEW d \in DynamicLabels, ResolveFails(u, d) PROVE IInv'
  BY <1>4, SharesHandle, SameHandle
<1>5. ASSUME NEW u \in 1..Len(users), Sample(u) PROVE IInv'
  BY <1>5, SampleStep
<1>6. ASSUME NEW u \in 1..Len(users), NEW p \in Payloads, SetInfo(u, p) PROVE IInv'
  BY <1>6, SetInfoStep
<1>7. ASSUME NEW u \in 1..Len(users), NEW s \in States, NEW active \in {0, 1},
             SetState(u, s, active)
      PROVE  IInv'
  BY <1>7, SetStateStep
<1>8. CASE UNCHANGED vars
  BY <1>8 DEF vars, IInv, TypeOK, Distinct, UserInv, Fits, HandleOf, ReplaceInv,
     LatestPayloadExported, At, Has
<1> QED BY <1>1, <1>2, <1>3, <1>4, <1>5, <1>6, <1>7, <1>8 DEF Next

----------------------------------------------------------------------------
(* The ledger.                                                             *)

\* What is exported for a label set is what the ledger says.
Matching(s, led, f, l) ==
  IF {a \in Addresses : Has(s, f, l, a)} = {}
    THEN led[<<f, l>>] = 0
    ELSE \A a \in Addresses : Has(s, f, l, a) => s[a].value = led[<<f, l>>]

\* The property speaks of all label sets but those with a falsified value, in all
\* families but those of info metrics.
LEMMA LedgerFacts ==
  BackendMatchesLedger <=>
    \A f \in Families \ InfoFamilies : \A l \in LabelSets \ Falsified(f) :
      Matching(series, ledger, f, l)
BY DEF BackendMatchesLedger, Matching, At

\* What a misdirected child falsifies.
LEMMA FalsifiedFacts ==
  ASSUME NEW f, NEW u \in 1..Len(users), FamilyOf(users[u].metric) = f, Misdirected(u)
  PROVE  Meant(u) \subseteq Falsified(f) /\ Reached(u) \subseteq Falsified(f)
BY DEF Falsified

\* What is falsified once stays so.
LEMMA FalsifiedKept ==
  ASSUME OnlyInfoInFamily, IInv, Frame, Len(users') \in Nat,
         NEW f \in Families \ InfoFamilies
  PROVE  Falsified(f) \subseteq Falsified(f)'
<1>1. TypeOK /\ UserInv
  BY DEF IInv
<1> SUFFICES ASSUME NEW u \in 1..Len(users), FamilyOf(users[u].metric) = f, Misdirected(u),
                    NEW l \in Meant(u) \union Reached(u)
             PROVE  l \in Falsified(f)'
  BY DEF Falsified
<1> DEFINE m == users[u].metric
<1> DEFINE h == HandleOf(u)
<1>2. /\ users'[u] = users[u] /\ m \in Metrics
      /\ users[u].handle \in 1..Len(handles)
  BY <1>1, TypeFacts DEF Frame
<1>3. h # Inert /\ h' # Inert /\ h'.series = h.series
  BY <1>2 DEF HandleOf, Frame, Misdirected
<1>4. Misdirected(u)'
  BY <1>2, <1>3 DEF Misdirected, HandleOf
<1>5. m.type \notin Lazy => series'[h.series].labels = series[h.series].labels
  <2>1. m.type \notin Lazy => h.series \in Addresses /\ series[h.series].family = f
    BY <1>1, <1>3 DEF UserInv, Fits
  <2> QED BY <2>1 DEF Frame
<1>6. m.type # "Info"
  BY <1>2, InfoFacts
<1>7. Meant(u)' = Meant(u) /\ Reached(u)' = Reached(u)
  <2>1. CASE m.type = "StateSet"
    BY <1>2, <2>1 DEF Meant, Reached
  <2>2. CASE m.type # "StateSet"
    <3>1. m.type \notin Lazy
      BY <1>6, <2>2 DEF Lazy
    <3> QED BY <1>2, <1>3, <1>5, <2>2, <3>1 DEF Meant, Reached, HandleOf
  <2> QED BY <2>1, <2>2
<1>8. u \in 1..Len(users')
  BY <1>1, TypeFacts DEF Frame
<1> QED BY <1>2, <1>4, <1>7, <1>8 DEF Falsified

\* The property is kept if every value that is not falsified is.
LEMMA MatchesKept ==
  ASSUME OnlyInfoInFamily, IInv, LedgerInv, IInv', Frame,
         \A f \in Families \ InfoFamilies : \A l \in LabelSets \ Falsified(f)' :
           Matching(series, ledger, f, l) => Matching(series', ledger', f, l)
  PROVE  BackendMatchesLedger'
<1>1. Len(users') \in Nat
  <2>1. users' \in Seq(UserOf(Len(handles')))
    BY DEF IInv, TypeOK, UserOf
  <2> QED BY <2>1
<1>2. ASSUME NEW f \in Families \ InfoFamilies, NEW l \in LabelSets \ Falsified(f)'
      PROVE  Matching(series', ledger', f, l)
  <2>1. l \notin Falsified(f)
    BY <1>1, FalsifiedKept
  <2> QED BY <2>1, LedgerFacts DEF LedgerInv
<1> QED BY <1>2 DEF BackendMatchesLedger, Matching, At

\* A series that Add makes is at 0, as is the ledger of a label set without one.
LEMMA AddMatches ==
  ASSUME NEW s \in [Addresses -> SeriesOf], Distinct(s),
         NEW f \in Families, NEW l \in LabelSets, NEW a \in Places(s, f, l),
         NEW led, NEW g \in Families, NEW k \in LabelSets, Matching(s, led, g, k)
  PROVE  Matching(Added(s, f, l, a), led, g, k)
<1> DEFINE t == Added(s, f, l, a)
<1>1. /\ a \in Addresses
      /\ t[a].family = f /\ t[a].labels = l
      /\ \A b \in Addresses : b # a => t[b] = s[b]
      /\ \A b \in Addresses : s[b].family \in Families => t[b] = s[b]
      /\ \/ Has(s, f, l, a) /\ t = s
         \/ t[a].value = 0 /\ \A b \in Addresses : ~Has(s, f, l, b)
  BY AddFacts
<1> HIDE DEF t
<1>2. CASE t = s
  BY <1>2 DEF t
<1>3. CASE t # s
  <2>1. t[a].value = 0 /\ (\A b \in Addresses : ~Has(s, f, l, b)) /\ s[a].family \notin Families
    <3>1. CASE s[a].family \in Families
      <4>1. \A b \in Addresses : t[b] = s[b]
        BY <1>1, <3>1
      <4>2. t \in [Addresses -> SeriesOf]
        BY AddFacts DEF t
      <4> QED BY <1>3, <4>1, <4>2
    <3> QED BY <1>1, <1>3, <3>1
  <2>2. CASE g = f /\ k = l
    <3>1. led[<<g, k>>] = 0
      BY <2>1, <2>2 DEF Matching
    <3>2. \A b \in Addresses : Has(t, g, k, b) => b = a
      BY <1>1, <2>1, <2>2 DEF Has
    <3> QED BY <2>1, <3>1, <3>2 DEF Matching, t
  <2>3. CASE ~(g = f /\ k = l)
    <3>1. \A b \in Addresses : Has(t, g, k, b) <=> Has(s, g, k, b)
      BY <1>1, <2>1, <2>3 DEF Has
    <3>2. \A b \in Addresses : Has(s, g, k, b) => t[b] = s[b]
      BY <1>1 DEF Has
    <3> QED BY <3>1, <3>2 DEF Matching, t
  <2> QED BY <2>2, <2>3
<1> QED BY <1>2, <1>3

\* Series and ledger are set to the same.
LEMMA SetMatches ==
  ASSUME NEW s \in [Addresses -> SeriesOf], Distinct(s),
         NEW a \in Addresses, NEW f \in Families, NEW l \in LabelSets, Has(s, f, l, a),
         NEW v \in Int, NEW led \in [Families \X LabelSets -> Int],
         NEW g \in Families, NEW k \in LabelSets, Matching(s, led, g, k)
  PROVE  Matching(SetValue(s, a, v), [led EXCEPT ![<<f, l>>] = v], g, k)
<1> DEFINE t == SetValue(s, a, v)
<1> DEFINE new == [led EXCEPT ![<<f, l>>] = v]
<1>1. /\ t[a].value = v
      /\ \A b \in Addresses : b # a => t[b] = s[b]
      /\ \A b \in Addresses : t[b].family = s[b].family /\ t[b].labels = s[b].labels
  BY SetFacts DEF Has
<1>2. \A b \in Addresses : Has(t, g, k, b) <=> Has(s, g, k, b)
  BY <1>1 DEF Has
<1>3. new[<<g, k>>] = IF g = f /\ k = l THEN v ELSE led[<<g, k>>]
  OBVIOUS
<1> HIDE DEF t, new
<1>4. CASE g = f /\ k = l
  <2>1. \A b \in Addresses : Has(s, g, k, b) => b = a
    BY <1>4 DEF Has, Distinct
  <2> QED BY <1>1, <1>2, <1>3, <1>4, <2>1 DEF Matching, t, new
<1>5. CASE ~(g = f /\ k = l)
  <2>1. \A b \in Addresses : Has(s, g, k, b) => b # a
    BY <1>5 DEF Has
  <2> QED BY <1>1, <1>2, <1>3, <1>5, <2>1 DEF Matching, t, new
<1> QED BY <1>4, <1>5

\* Setting a series and an entry of the ledger leaves the others as they are.
LEMMA SetOthers ==
  ASSUME NEW s \in [Addresses -> SeriesOf], Distinct(s),
         NEW a \in Addresses, NEW f \in Families, s[a].family = f, NEW v \in Int,
         NEW led \in [Families \X LabelSets -> Int], NEW l, NEW w,
         NEW g \in Families, NEW k \in LabelSets, Matching(s, led, g, k),
         g = f => k # l /\ k # s[a].labels
  PROVE  Matching(SetValue(s, a, v), [led EXCEPT ![<<f, l>>] = w], g, k)
<1> DEFINE t == SetValue(s, a, v)
<1> DEFINE new == [led EXCEPT ![<<f, l>>] = w]
<1>1. /\ \A b \in Addresses : b # a => t[b] = s[b]
      /\ \A b \in Addresses : t[b].family = s[b].family /\ t[b].labels = s[b].labels
  BY SetFacts
<1>2. new[<<g, k>>] = led[<<g, k>>]
  OBVIOUS
<1> HIDE DEF t, new
<1>3. \A b \in Addresses : Has(t, g, k, b) <=> Has(s, g, k, b)
  BY <1>1 DEF Has
<1>4. \A b \in Addresses : Has(s, g, k, b) => b # a
  BY DEF Has
<1> QED BY <1>1, <1>2, <1>3, <1>4 DEF Matching, t, new

\* Everybody's series keeps its labels.
LEMMA LabelsKept ==
  ASSUME OnlyInfoInFamily, TypeOK, UserInv, LabelInv, Frame, Len(users') \in Nat,
         \A u \in (Len(users) + 1)..Len(users') : Labelled(u)'
  PROVE  LabelInv'
<1> SUFFICES ASSUME NEW u \in 1..Len(users') PROVE Labelled(u)'
  BY DEF LabelInv
<1>1. CASE u \in 1..Len(users)
  <2> DEFINE m == users[u].metric
  <2> DEFINE h == HandleOf(u)
  <2>1. /\ users'[u] = users[u] /\ m \in Metrics
        /\ users[u].handle \in 1..Len(handles)
    BY <1>1, TypeFacts DEF Frame
  <2>2. (h' = Inert <=> h = Inert) /\ h'.series = h.series
    BY <2>1 DEF HandleOf, Frame
  <2>3. Fits(u) /\ Labelled(u)
    BY <1>1 DEF UserInv, LabelInv
  <2>4. Misdirected(u)' <=> Misdirected(u)
    BY <2>1, <2>2 DEF Misdirected, HandleOf
  <2>5. ASSUME h # Inert, m.type \notin Lazy, ~Misdirected(u)
        PROVE  series'[h.series].labels = users[u].labels
    <3>1. h.family = FamilyOf(m) /\ h.series \in Addresses /\ series[h.series].family = h.family
      BY <2>3, <2>5 DEF Fits
    <3>2. h.family \in Families \ InfoFamilies
      BY <2>1, <2>5, <3>1, InfoFacts, FamilyFacts DEF Lazy
    <3>3. series[h.series].labels = users[u].labels
      BY <2>3, <2>5 DEF Labelled
    <3> QED BY <3>1, <3>2, <3>3 DEF Frame
  <2> HIDE DEF h
  <2> QED BY <2>1, <2>2, <2>4, <2>5 DEF Labelled, h
<1>2. CASE u \notin 1..Len(users)
  <2>1. u \in (Len(users) + 1)..Len(users')
    BY <1>2, TypeFacts
  <2> QED BY <2>1
<1> QED BY <1>1, <1>2

\* The one user a step adds.
LEMMA NewLabelled ==
  ASSUME OnlyInfoInFamily, IInv, LabelInv, TypeOK', Frame,
         NEW m \in Metrics, NEW l \in LabelSets, NEW n \in 1..Len(handles'), NewUser(m, l, n),
         handles'[n] # Inert /\ m.type \notin Lazy /\ ~Throws(FamilyOf(m), l) =>
           series'[handles'[n].series].labels = l
  PROVE  LabelInv'
<1>1. TypeOK /\ UserInv
  BY DEF IInv
<1>2. Len(users) \in Nat /\ Len(handles') \in Nat /\ Len(users') \in Nat
  <2>1. handles' \in Seq(Handles) /\ users' \in Seq(UserOf(Len(handles')))
    BY DEF TypeOK, Handles, UserOf
  <2> QED BY <1>1, <2>1, TypeFacts
<1>3. /\ Len(users') = Len(users) + 1
      /\ users'[Len(users) + 1] = [metric |-> m, labels |-> l, handle |-> n]
  <2>1. Len(handles) <= Len(handles')
    BY DEF Frame
  <2> QED BY <1>1, <1>2, <2>1, NewUserFacts
<1>4. ASSUME NEW u \in (Len(users) + 1)..Len(users')
      PROVE  Labelled(u)'
  <2>1. u = Len(users) + 1
    BY <1>2, <1>3
  <2>2. users'[u].metric = m /\ users'[u].labels = l /\ users'[u].handle = n
    BY <1>3, <2>1
  <2> QED BY <2>2 DEF Labelled, HandleOf, Misdirected
<1> QED BY <1>1, <1>2, <1>4, LabelsKept

\* Steps that leave users and their handles.
LEMMA SameUsersLabelled ==
  ASSUME OnlyInfoInFamily, IInv, LabelInv, Frame, UNCHANGED users
  PROVE  LabelInv'
<1>1. TypeOK /\ UserInv
  BY DEF IInv
<1>2. Len(users) \in Nat
  BY <1>1, TypeFacts
<1>3. \A u \in (Len(users) + 1)..Len(users') : FALSE
  BY <1>2
<1> QED BY <1>1, <1>2, <1>3, LabelsKept

\* Registering keeps the ledger.
LEMMA RegisterLedger ==
  ASSUME OnlyInfoInFamily, IInv, LedgerInv, NEW m \in Metrics, Register(m) \/ RegisterFails(m)
  PROVE  LedgerInv'
<1>1. TypeOK /\ Distinct(series) /\ series \in [Addresses -> SeriesOf] /\ Len(handles) \in Nat
  BY TypeFacts DEF IInv
<1>2. CASE Register(m) /\ m.type \notin Lazy
  <2> DEFINE a == handles'[Len(handles) + 1].series
  <2>1. /\ IInv' /\ Frame
        /\ NewUser(m, NoLabels, Len(handles) + 1) /\ UNCHANGED ledger
        /\ Len(handles') = Len(handles) + 1
        /\ a \in Places(series, FamilyOf(m), NoLabels)
        /\ series' = Added(series, FamilyOf(m), NoLabels, a)
    BY <1>2, RegisterSampled
  <2> HIDE DEF a
  <2>2. FamilyOf(m) \in Families /\ NoLabels \in LabelSets
    BY FamilyFacts, LabelFacts
  <2>3. series'[a].labels = NoLabels
    BY <1>1, <2>1, <2>2, AddFacts
  <2>4. LabelInv'
    <3>1. TypeOK' /\ Len(handles) + 1 \in 1..Len(handles')
      BY <1>1, <2>1 DEF IInv
    <3> QED BY <2>1, <2>2, <2>3, <3>1, NewLabelled DEF a, LedgerInv
  <2>5. BackendMatchesLedger'
    <3>1. ASSUME NEW g \in Families \ InfoFamilies, NEW k \in LabelSets,
                 Matching(series, ledger, g, k)
          PROVE  Matching(series', ledger', g, k)
      BY <1>1, <2>1, <2>2, <3>1, AddMatches
    <3> QED BY <2>1, <3>1, MatchesKept
  <2> QED BY <2>4, <2>5 DEF LedgerInv
<1>3. CASE RegisterFails(m) \/ m.type \in Lazy
  <2>1. /\ IInv' /\ Frame /\ NewUser(m, NoLabels, Len(handles) + 1)
        /\ UNCHANGED <<series, ledger>>
        /\ handles'[Len(handles) + 1] # Inert => m.type \in Lazy
        /\ Len(handles') = Len(handles) + 1
    <3>1. CASE RegisterFails(m)
      <4>1. handles' = Append(handles, Inert) /\ NewUser(m, NoLabels, Len(handles) + 1)
            /\ UNCHANGED <<series, ledger>>
        BY <3>1 DEF RegisterFails, NewHandle, FailureHandle
      <4>2. handles \in Seq(Handles)
        BY <1>1, TypeFacts
      <4>3. handles'[Len(handles) + 1] = Inert /\ Len(handles') = Len(handles) + 1
        BY <4>1, <4>2
      <4> QED BY <3>1, <4>1, <4>3, RegisterFailsStep
    <3>2. CASE Register(m) /\ m.type \in Lazy
      <4>1. NewUser(m, NoLabels, Len(handles) + 1) /\ UNCHANGED <<series, ledger>>
        BY <3>2 DEF Register
      <4>2. PICK state : handles' = Append(handles, state)
        BY <3>2 DEF Register, NewHandle
      <4>3. Len(handles') = Len(handles) + 1
        BY <1>1, <4>2, TypeFacts
      <4> QED BY <3>2, <4>1, <4>3, RegisterLazy
    <3> QED BY <1>3, <3>1, <3>2
  <2>2. LabelInv'
    <3>1. TypeOK' /\ Len(handles) + 1 \in 1..Len(handles')
      BY <1>1, <2>1 DEF IInv
    <3> QED BY <2>1, <3>1, NewLabelled, LabelFacts DEF LedgerInv
  <2>3. BackendMatchesLedger'
    BY <2>1, MatchesKept
  <2> QED BY <2>2, <2>3 DEF LedgerInv
<1> QED BY <1>2, <1>3

\* So does making a child, which has a series of its own or is misdirected.
LEMMA ResolveLedger ==
  ASSUME OnlyInfoInFamily, IInv, LedgerInv,
         NEW u \in 1..Len(users), NEW d \in DynamicLabels, Resolve(u, d) \/ ResolveFails(u, d)
  PROVE  LedgerInv'
<1> DEFINE m == users[u].metric
<1>1. /\ TypeOK /\ UserInv /\ Distinct(series) /\ series \in [Addresses -> SeriesOf]
      /\ Len(handles) \in Nat /\ m \in Metrics /\ users[u].handle \in 1..Len(handles)
  BY TypeFacts DEF IInv
<1>2. d \in LabelSets /\ FamilyOf(m) \in Families
  BY <1>1, LabelFacts, FamilyFacts
<1>3. CASE Resolve(u, d) /\ HandleOf(u) # Inert
  <2> DEFINE a == handles'[Len(handles) + 1].series
  <2>1. /\ IInv' /\ Frame
        /\ NewUser(m, d, Len(handles) + 1) /\ UNCHANGED ledger
        /\ Len(handles') = Len(handles) + 1
        /\ a \in Places(series, FamilyOf(m), d)
        /\ series' = Added(series, FamilyOf(m), d, a)
    BY <1>3, ResolveStep
  <2> HIDE DEF a, m
  <2>2. series'[a].labels = d
    BY <1>1, <1>2, <2>1, AddFacts
  <2>3. LabelInv'
    <3>1. TypeOK' /\ Len(handles) + 1 \in 1..Len(handles')
      BY <1>1, <2>1 DEF IInv
    <3> QED BY <1>1, <1>2, <2>1, <2>2, <3>1, NewLabelled DEF a, LedgerInv
  <2>4. BackendMatchesLedger'
    <3>1. ASSUME NEW g \in Families \ InfoFamilies, NEW k \in LabelSets,
                 Matching(series, ledger, g, k)
          PROVE  Matching(series', ledger', g, k)
      BY <1>1, <1>2, <2>1, <3>1, AddMatches
    <3> QED BY <2>1, <3>1, MatchesKept
  <2> QED BY <2>3, <2>4 DEF LedgerInv
<1>4. CASE (Resolve(u, d) /\ HandleOf(u) = Inert) \/ ResolveFails(u, d)
  <2>1. /\ NewUser(m, d, users[u].handle) /\ UNCHANGED <<series, handles, ledger>>
        /\ HandleOf(u) = Inert \/ Throws(HandleOf(u).family, d)
    BY <1>4, SharesHandle
  <2>2. IInv' /\ Frame
    BY <1>4, SharesHandle, SameHandle
  <2>3. HandleOf(u) # Inert => Throws(FamilyOf(m), d)
    <3>1. HandleOf(u) # Inert => HandleOf(u).family = FamilyOf(m)
      BY <1>1 DEF UserInv, Fits
    <3> QED BY <2>1, <3>1
  <2>4. LabelInv'
    <3>1. TypeOK' /\ users[u].handle \in 1..Len(handles')
      BY <1>1, <2>1, <2>2 DEF IInv
    <3>2. handles'[users[u].handle] # Inert => Throws(FamilyOf(m), d)
      BY <2>1, <2>3 DEF HandleOf
    <3> HIDE DEF m
    <3> QED BY <1>1, <1>2, <2>1, <2>2, <3>1, <3>2, NewLabelled DEF LedgerInv
  <2>5. BackendMatchesLedger'
    BY <2>1, <2>2, MatchesKept
  <2> QED BY <2>4, <2>5 DEF LedgerInv
<1> QED BY <1>3, <1>4

\* A sample adds to the series what it adds to the ledger, or is misdirected.
LEMMA SampleLedger ==
  ASSUME OnlyInfoInFamily, IInv, LedgerInv, NEW u \in 1..Len(users), Sample(u)
  PROVE  LedgerInv'
<1> DEFINE m == users[u].metric
<1> DEFINE h == HandleOf(u)
<1> DEFINE l == users[u].labels
<1>1. /\ TypeOK /\ UserInv /\ Distinct(series) /\ series \in [Addresses -> SeriesOf]
      /\ ledger \in [Families \X LabelSets -> Int] /\ m \in Metrics /\ l \in LabelSets
  BY TypeFacts DEF IInv, TypeOK
<1>2. IInv' /\ Frame /\ LabelInv'
  <2>1. IInv' /\ Frame /\ UNCHANGED users
    BY SampleStep DEF Sample
  <2> QED BY <2>1, SameUsersLabelled DEF LedgerInv
<1>3. Len(users') \in Nat
  BY <1>1, TypeFacts DEF Sample
<1>4. CASE UNCHANGED <<series, ledger>>
  BY <1>2, <1>4, MatchesKept DEF LedgerInv
<1>5. CASE ~UNCHANGED <<series, ledger>>
  <2>1. PICK op \in Calls(m.type) :
          /\ h # Inert
          /\ series' = [series EXCEPT ![h.series].value = Outcome(op, @)]
          /\ ledger' = [ledger EXCEPT ![<<FamilyOf(m), l>>] = Outcome(op, @)]
    BY <1>5 DEF Sample, HandleOf
  <2> DEFINE a == h.series
  <2> DEFINE f == FamilyOf(m)
  <2> DEFINE v == Outcome(op, series[a].value)
  <2>2. m.type \notin Lazy /\ \A x \in Int : Outcome(op, x) \in Int
    <3>1. m \in Metrics /\ op \in Calls(m.type)
      BY <1>1, <2>1
    <3> HIDE DEF m, h
    <3> QED BY <3>1, OutcomeType
  <2>3. a \in Addresses /\ h.family = f /\ series[a].family = f
    BY <1>1, <2>1, <2>2 DEF UserInv, Fits
  <2>4. f \in Families /\ f \notin InfoFamilies
    BY <1>1, <2>2, FamilyFacts, InfoFacts DEF Lazy
  <2>5. v \in Int
    BY <1>1, <2>2, <2>3, <2>4, SeriesFacts
  <2>6. series' = SetValue(series, a, v)
    BY <2>1 DEF SetValue
  <2>7. <<f, l>> \in DOMAIN ledger
    BY <1>1, <2>4
  <2>8. ledger' = [ledger EXCEPT ![<<f, l>>] = Outcome(op, ledger[<<f, l>>])]
    BY <2>1, <2>7
  <2>9. ~Misdirected(u) => series[a].labels = l
    BY <2>1, <2>2 DEF LedgerInv, LabelInv, Labelled
  <2>10. Misdirected(u) => l \in Falsified(f) /\ series[a].labels \in Falsified(f)
    <3>1. Misdirected(u) => Meant(u) \subseteq Falsified(f) /\ Reached(u) \subseteq Falsified(f)
      BY FalsifiedFacts
    <3>2. m.type # "StateSet"
      BY <2>2 DEF Lazy
    <3>3. l \in Meant(u) /\ series[a].labels \in Reached(u)
      BY <3>2 DEF Meant, Reached, HandleOf
    <3> HIDE DEF a, f, l
    <3> QED BY <3>1, <3>3
  <2> HIDE DEF a, f, h, l, m, v
  <2>11. ASSUME NEW g \in Families \ InfoFamilies, NEW k \in LabelSets \ Falsified(g)',
                Matching(series, ledger, g, k)
         PROVE  Matching(series', ledger', g, k)
    <3>1. CASE Misdirected(u)
      <4>1. Falsified(g) \subseteq Falsified(g)'
        BY <1>2, <1>3, FalsifiedKept
      <4>2. g = f => k # l /\ k # series[a].labels
        BY <2>10, <3>1, <4>1
      <4> QED BY <1>1, <2>3, <2>4, <2>5, <2>6, <2>8, <2>11, <4>2, SetOthers
    <3>2. CASE ~Misdirected(u)
      <4>1. Has(series, f, l, a)
        BY <2>3, <2>9, <3>2 DEF Has
      <4>2. g = f /\ k = l => ledger[<<f, l>>] = series[a].value
        BY <2>3, <2>11, <4>1 DEF Matching
      <4>3. CASE g = f /\ k = l
        <5>1. ledger' = [ledger EXCEPT ![<<f, l>>] = v]
          BY <2>8, <4>2, <4>3 DEF v
        <5> QED BY <1>1, <2>3, <2>4, <2>5, <2>6, <2>11, <4>1, <5>1, SetMatches
      <4>4. CASE ~(g = f /\ k = l)
        <5>1. g = f => k # l /\ k # series[a].labels
          BY <2>9, <3>2, <4>4
        <5> QED BY <1>1, <2>3, <2>4, <2>5, <2>6, <2>8, <2>11, <5>1, SetOthers
      <4> QED BY <4>3, <4>4
    <3> QED BY <3>1, <3>2
  <2> QED BY <1>2, <2>11, MatchesKept DEF LedgerInv
<1> QED BY <1>4, <1>5

\* A state is set in the series and in the ledger, or the child is misdirected.
LEMMA SetStateLedger ==
  ASSUME OnlyInfoInFamily, IInv, LedgerInv, NEW u \in 1..Len(users), NEW s \in States,
         NEW active \in {0, 1}, SetState(u, s, active)
  PROVE  LedgerInv'
<1> DEFINE m == users[u].metric
<1> DEFINE h == HandleOf(u)
<1>1. /\ TypeOK /\ UserInv /\ Distinct(series) /\ series \in [Addresses -> SeriesOf]
      /\ ledger \in [Families \X LabelSets -> Int] /\ m \in Metrics
  BY TypeFacts DEF IInv, TypeOK
<1>2. IInv' /\ Frame /\ LabelInv'
  <2>1. IInv' /\ Frame /\ UNCHANGED users
    BY SetStateStep DEF SetState
  <2> QED BY <2>1, SameUsersLabelled DEF LedgerInv
<1>3. Len(users') \in Nat
  BY <1>1, TypeFacts DEF SetState
<1>4. CASE UNCHANGED <<series, ledger>>
  BY <1>2, <1>4, MatchesKept DEF LedgerInv
<1>5. CASE ~UNCHANGED <<series, ledger>>
  <2> DEFINE f == h.family
  <2>1. /\ h # Inert /\ m.type = "StateSet"
        /\ ledger' = [ledger EXCEPT ![<<f, users[u].labels \union s>>] = active]
    BY <1>5 DEF SetState, HandleOf
  <2>2. PICK a \in Places(series, f, s) :
          series' = SetValue(Added(series, f, s, a), a, active)
    BY <1>5 DEF SetState, HandleOf, SetValue
  <2> DEFINE l == users[u].labels \union s
  <2>3. f = FamilyOf(m) /\ f \in Families \ InfoFamilies
    <3>1. f = FamilyOf(m)
      BY <1>1, <2>1 DEF UserInv, Fits
    <3> QED BY <1>1, <2>1, <3>1, FamilyFacts, InfoFacts
  <2>4. active \in Int /\ s \in LabelSets
    BY LabelFacts
  <2>5. ~Misdirected(u) => l = s
    BY <2>1 DEF Misdirected, HandleOf, NoLabels
  <2>6. Misdirected(u) => l \in Falsified(f) /\ s \in Falsified(f)
    <3>1. Misdirected(u) => Meant(u) \subseteq Falsified(f) /\ Reached(u) \subseteq Falsified(f)
      BY <2>3, FalsifiedFacts
    <3>2. l \in Meant(u) /\ s \in Reached(u)
      BY <2>1 DEF Meant, Reached
    <3> HIDE DEF f, l
    <3> QED BY <3>1, <3>2
  <2> DEFINE t == Added(series, f, s, a)
  <2> HIDE DEF f, l
  <2>7. /\ a \in Addresses /\ t \in [Addresses -> SeriesOf] /\ Distinct(t) /\ Has(t, f, s, a)
    BY <1>1, <2>3, <2>4, AddFacts DEF Has
  <2>8. series' = SetValue(t, a, active) /\ ledger' = [ledger EXCEPT ![<<f, l>>] = active]
    BY <2>1, <2>2 DEF l
  <2>9. ASSUME NEW g \in Families \ InfoFamilies, NEW k \in LabelSets \ Falsified(g)',
               Matching(series, ledger, g, k)
        PROVE  Matching(series', ledger', g, k)
    <3>1. Matching(t, ledger, g, k)
      BY <1>1, <2>3, <2>4, <2>9, AddMatches
    <3> HIDE DEF t
    <3>2. CASE Misdirected(u)
      <4>1. t[a].family = f /\ t[a].labels = s
        BY <2>7 DEF Has
      <4>2. Falsified(g) \subseteq Falsified(g)'
        BY <1>2, <1>3, FalsifiedKept
      <4>3. g = f => k # l /\ k # t[a].labels
        BY <2>6, <3>2, <4>1, <4>2
      <4> QED BY <1>1, <2>3, <2>4, <2>7, <2>8, <3>1, <4>1, <4>3, SetOthers
    <3>3. CASE ~Misdirected(u)
      BY <1>1, <2>3, <2>4, <2>5, <2>7, <2>8, <3>1, <3>3, SetMatches
    <3> QED BY <3>2, <3>3
  <2> QED BY <1>2, <2>9, MatchesKept DEF LedgerInv
<1> QED BY <1>4, <1>5

\* A payload is in no ledger.
LEMMA SetInfoLedger ==
  ASSUME OnlyInfoInFamily, IInv, LedgerInv, NEW u \in 1..Len(users), NEW p \in Payloads,
         SetInfo(u, p)
  PROVE  LedgerInv'
<1>1. /\ IInv' /\ Frame
      /\ \A a \in Addresses :
           (series[a].family \in Families \ InfoFamilies
              \/ series'[a].family \in Families \ InfoFamilies) =>
             series'[a] = series[a]
  BY SetInfoStep
<1>2. UNCHANGED <<users, ledger>>
  BY DEF SetInfo
<1>3. LabelInv'
  BY <1>1, <1>2, SameUsersLabelled DEF LedgerInv
<1>4. BackendMatchesLedger'
  <2>1. \A g \in Families \ InfoFamilies, k \in LabelSets, a \in Addresses :
          /\ Has(series', g, k, a) <=> Has(series, g, k, a)
          /\ Has(series, g, k, a) => series'[a] = series[a]
    <3> SUFFICES ASSUME NEW g \in Families, g \notin InfoFamilies, NEW k \in LabelSets,
                        NEW a \in Addresses
                 PROVE  /\ Has(series', g, k, a) <=> Has(series, g, k, a)
                        /\ Has(series, g, k, a) => series'[a] = series[a]
      OBVIOUS
    <3>1. series[a].family = g \/ series'[a].family = g => series'[a] = series[a]
      BY <1>1
    <3>2. CASE series'[a] = series[a]
      BY <3>2 DEF Has
    <3>3. CASE series[a].family # g /\ series'[a].family # g
      BY <3>3 DEF Has
    <3> QED BY <3>1, <3>2, <3>3
  <2>2. ASSUME NEW g \in Families \ InfoFamilies, NEW k \in LabelSets,
               Matching(series, ledger, g, k)
        PROVE  Matching(series', ledger', g, k)
    BY <1>2, <2>1, <2>2 DEF Matching
  <2> QED BY <1>1, <2>2, MatchesKept
<1> QED BY <1>3, <1>4 DEF LedgerInv

\* Nothing is exported at first.
LEMMA LedgerInit == Init => LedgerInv
<1> SUFFICES ASSUME Init PROVE LedgerInv
  OBVIOUS
<1>1. LabelInv
  BY DEF Init, LabelInv
<1>2. ASSUME NEW f \in Families, NEW l \in LabelSets
      PROVE  Matching(series, ledger, f, l)
  <2>1. \A a \in Addresses : ~Has(series, f, l, a)
    BY FamilyFacts DEF Init, Has
  <2> QED BY <2>1 DEF Init, Matching
<1> QED BY <1>1, <1>2, LedgerFacts DEF LedgerInv

\* Every step keeps the ledger.
LEMMA LedgerStep ==
  ASSUME OnlyInfoInFamily
  PROVE  IInv /\ LedgerInv /\ [Next]_vars => LedgerInv'
<1> SUFFICES ASSUME IInv, LedgerInv, [Next]_vars PROVE LedgerInv'
  OBVIOUS
<1>1. ASSUME NEW m \in Metrics, Register(m) \/ RegisterFails(m) PROVE LedgerInv'
  BY <1>1, RegisterLedger
<1>2. ASSUME NEW u \in 1..Len(users), NEW d \in DynamicLabels,
             Resolve(u, d) \/ ResolveFails(u, d)
      PROVE  LedgerInv'
  BY <1>2, ResolveLedger
<1>3. ASSUME NEW u \in 1..Len(users), Sample(u) PROVE LedgerInv'
  BY <1>3, SampleLedger
<1>4. ASSUME NEW u \in 1..Len(users), NEW p \in Payloads, SetInfo(u, p) PROVE LedgerInv'
  BY <1>4, SetInfoLedger
<1>5. ASSUME NEW u \in 1..Len(users), NEW s \in States, NEW active \in {0, 1},
             SetState(u, s, active)
      PROVE  LedgerInv'
  BY <1>5, SetStateLedger
<1>6. CASE UNCHANGED vars
  BY <1>6 DEF vars, LedgerInv, LabelInv, Labelled, HandleOf, BackendMatchesLedger, At, Has,
     Misdirected, Meant, Reached, Falsified
<1> QED BY <1>1, <1>2, <1>3, <1>4, <1>5, <1>6 DEF Next

----------------------------------------------------------------------------
(* The theorems.                                                           *)

\* The inductive invariant holds of every reachable state.
THEOREM Invariance ==
  ASSUME OnlyInfoInFamily
  PROVE  Spec => []IInv
<1>1. IInv /\ [Next]_vars => IInv'
  BY InvStep
<1> QED BY <1>1, InvInit, PTL DEF Spec

\* Every variable keeps its type; above all, no sample is written to a series
\* that was removed.
THEOREM TypeCorrect ==
  ASSUME OnlyInfoInFamily
  PROVE  Spec => []TypeOK
<1>1. IInv => TypeOK
  BY DEF IInv
<1> QED BY <1>1, Invariance, PTL

\* What is exported is what the samples add up to, through any number of
\* registrations, children and failures of the library; a misdirected child
\* falsifies no value but its own and that of the series its samples go to.
THEOREM ExportIsLedger ==
  ASSUME OnlyInfoInFamily
  PROVE  Spec => []BackendMatchesLedger
<1>1. IInv /\ LedgerInv /\ [Next]_vars => LedgerInv'
  BY LedgerStep
<1>2. LedgerInv => BackendMatchesLedger
  BY DEF LedgerInv
<1> QED BY <1>1, <1>2, LedgerInit, Invariance, PTL DEF Spec

\* The payload set last is exported, through whichever handle it was set.
THEOREM LatestExported ==
  ASSUME OnlyInfoInFamily
  PROVE  Spec => []LatestPayloadExported
<1>1. IInv => LatestPayloadExported
  BY DEF IInv
<1> QED BY <1>1, Invariance, PTL

\* A handle that is alone in its info family leaves no stale payload.
THEOREM SoleHandle ==
  ASSUME OnlyInfoInFamily
  PROVE  Spec => []SoleHandleReplaces
<1>1. IInv => SoleHandleReplaces
  <2> SUFFICES ASSUME IInv, NEW f \in InfoFamilies,
                      Cardinality({i \in 1..Len(handles) : handles[i].family = f}) = 1
               PROVE  Cardinality(PayloadSeries(f)) <= 1
    BY DEF SoleHandleReplaces
  <2> DEFINE own == {i \in 1..Len(handles) : handles[i].family = f}
  <2>1. PICK n : own = {n}
    <3>1. Len(handles) \in Nat
      BY TypeFacts DEF IInv
    <3>2. IsFiniteSet(1..Len(handles)) /\ own \subseteq 1..Len(handles)
      BY <3>1, FS_Interval
    <3>3. IsFiniteSet(own)
      BY <3>2, FS_Subset
    <3> QED BY <3>3, FS_Singleton
  <2>2. PayloadSeries(f) \subseteq {handles[n].info}
    <3>1. ASSUME NEW a \in PayloadSeries(f) PROVE a = handles[n].info
      <4>1. a \in Addresses /\ series[a].family = f
        BY <3>1 DEF PayloadSeries, At, Has
      <4>2. \/ \E i \in own : handles[i].info = a
            \/ \E i, j \in own : i # j
        BY <4>1 DEF IInv, ReplaceInv
      <4> QED BY <2>1, <4>2
    <3> QED BY <3>1
  <2>3. IsFiniteSet({handles[n].info}) /\ Cardinality({handles[n].info}) = 1
    BY FS_Singleton
  <2> QED BY <2>2, <2>3, FS_Subset
<1> QED BY <1>1, Invariance, PTL
=============================================================================
