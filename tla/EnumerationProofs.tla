------------------------- MODULE EnumerationProofs -------------------------
(***************************************************************************)
(* Enumeration, for all threads, specs and bounds: what lives is listed, a *)
(* core that is being described lives, and a listing is complete, pruned   *)
(* and live, whoever makes, drops and lists metrics meanwhile.             *)
(***************************************************************************)
EXTENDS Enumeration, SequenceTheorems, WellFoundedInduction, TLAPS

\* What a completed setter has stored is still there, or something newer.
DecoInv ==
  /\ \A s \in Slots : config[s] <= writes[s[1]] /\ decoDone[s] <= config[s]
  /\ \A w \in decoPending : \A f \in w.fields : w.number <= config[<<w.deco, f>>]

\* mutex_ is held by a listing that is going through the list.
MutexInv == \A t \in Threads : t \in mutex <=> pc[t] \in {"collect", "erase"}

\* Each core that is being made is its own, and not in the list yet.
MakingInv ==
  /\ made \in Seq({Filled(spec) : spec \in Specs})
  /\ ToSet(list) \subseteq 1..Len(made)
  /\ \A t \in Threads :
       /\ making[t] \in 0..Len(made)
       /\ making[t] # 0 <=> pc[t] \in {"register", "track"}
       /\ making[t] \notin ToSet(list)
  /\ \A t, u \in Threads : making[t] # 0 /\ making[t] = making[u] => t = u

\* The others are in the list as long as the program or a listing has them.
ListedInv ==
  /\ held \subseteq ToSet(list)
  /\ \A t \in Threads : ToSet(listing[t].live) \subseteq ToSet(list)

\* A core is gone when nobody has it any more, and not before.
AliveInv ==
  /\ destroyed \subseteq 1..Len(made)
  /\ \A m \in 1..Len(made) : m \in destroyed <=> ~Alive(m)

\* How far a call of metrics() has come: in the list, and in what it collected.
Passed(t) == {list[i] : i \in 1..(listing[t].at - 1)}
Ahead(t) == {list[i] : i \in listing[t].at..Len(list)}
Told(t) == {listing[t].live[i] : i \in 1..(listing[t].at - 1)}

\* What it has found so far, and that what it forgets is gone.
CallInv(t) ==
  /\ pc[t] \in {"idle", "register", "track"} => listing[t] = NoListing
  /\ listing[t].gone \subseteq destroyed
  /\ pc[t] \in {"collect", "erase"} =>
       /\ listing[t].at \in 1..(Len(list) + 1)
       /\ listing[t].gone \cap Passed(t) = {}
       /\ listing[t].known \subseteq destroyed \union ToSet(listing[t].live) \union Ahead(t)
  /\ pc[t] = "erase" =>
       /\ listing[t].at \in 1..Len(list)
       /\ list[listing[t].at] \in destroyed
  /\ pc[t] \in {"describe", "listed"} =>
       /\ listing[t].at \in 1..(Len(listing[t].live) + 1)
       /\ listing[t].gone \cap ToSet(list) = {}
       /\ listing[t].known \subseteq destroyed \union ToSet(listing[t].live)
       /\ Told(t) \subseteq {i.metric : i \in listing[t].out}
  /\ pc[t] = "describe" => listing[t].unread # {} /\ listing[t].at <= Len(listing[t].live)
  /\ pc[t] = "listed" => listing[t].at = Len(listing[t].live) + 1

\* What it has read is no older than what was complete when it began.
ViewInv(t) ==
  \A s \in Described :
    /\ listing[t].floor[s] <= decoDone[s]
    /\ pc[t] = "describe" /\ s \notin listing[t].unread =>
         listing[t].floor[s] <= listing[t].view[s]
    /\ \A i \in listing[t].out : listing[t].floor[s] <= i.view[s]

IInv ==
  /\ TypeOK /\ DecoInv
  /\ MutexInv /\ MakingInv /\ ListedInv /\ AliveInv
  /\ \A t \in Threads : CallInv(t) /\ ViewInv(t)

----------------------------------------------------------------------------
(* Sequences.                                                              *)

\* What appending adds.
LEMMA AppendFacts ==
  ASSUME NEW S, NEW s \in Seq(S), NEW x \in S
  PROVE  /\ Append(s, x) \in Seq(S)
         /\ Len(Append(s, x)) = Len(s) + 1
         /\ \A i \in 1..Len(s) : Append(s, x)[i] = s[i]
         /\ Append(s, x)[Len(s) + 1] = x
         /\ ToSet(Append(s, x)) = ToSet(s) \union {x}
<1>1. /\ Append(s, x) \in Seq(S)
      /\ Len(Append(s, x)) = Len(s) + 1 /\ Len(s) \in Nat
      /\ \A i \in 1..Len(s) : Append(s, x)[i] = s[i]
      /\ Append(s, x)[Len(s) + 1] = x
  OBVIOUS
<1>2. DOMAIN s = 1..Len(s) /\ DOMAIN Append(s, x) = 1..(Len(s) + 1)
  BY <1>1
<1>3. ToSet(Append(s, x)) = ToSet(s) \union {x}
  BY <1>1, <1>2 DEF ToSet
<1> QED BY <1>1, <1>3

\* What removing the i-th element leaves.
LEMMA RemoveFacts ==
  ASSUME NEW S, NEW s \in Seq(S), NEW i \in 1..Len(s)
  PROVE  /\ RemoveAt(s, i) \in Seq(S)
         /\ Len(RemoveAt(s, i)) = Len(s) - 1
         /\ \A j \in 1..(Len(s) - 1) : RemoveAt(s, i)[j] = IF j < i THEN s[j] ELSE s[j + 1]
<1> DEFINE a == SubSeq(s, 1, i - 1)
<1> DEFINE b == SubSeq(s, i + 1, Len(s))
<1>1. Len(s) \in Nat /\ i \in Nat
  OBVIOUS
<1>2. a \in Seq(S) /\ Len(a) = i - 1 /\ \A j \in 1..(i - 1) : a[j] = s[j]
  BY <1>1
<1>3. b \in Seq(S) /\ Len(b) = Len(s) - i /\ \A j \in 1..(Len(s) - i) : b[j] = s[j + i]
  BY <1>1
<1>4. RemoveAt(s, i) = a \o b
  BY DEF RemoveAt
<1> HIDE DEF a, b
<1>5. /\ a \o b \in Seq(S) /\ Len(a \o b) = Len(a) + Len(b)
      /\ \A j \in 1..(Len(a) + Len(b)) :
           (a \o b)[j] = IF j <= Len(a) THEN a[j] ELSE b[j - Len(a)]
  BY <1>2, <1>3, ConcatProperties
<1>6. ASSUME NEW j \in 1..(Len(s) - 1)
      PROVE  (a \o b)[j] = IF j < i THEN s[j] ELSE s[j + 1]
  <2>1. CASE j < i
    BY <1>1, <1>2, <1>5, <2>1
  <2>2. CASE ~(j < i)
    <3>1. j \in 1..(Len(a) + Len(b)) /\ ~(j <= Len(a)) /\ j - Len(a) \in 1..(Len(s) - i)
      BY <1>1, <1>2, <1>3, <2>2
    <3>2. (a \o b)[j] = s[j - Len(a) + i]
      BY <1>3, <1>5, <3>1
    <3>3. j - Len(a) + i = j + 1
      BY <1>1, <1>2
    <3> QED BY <2>2, <3>2, <3>3
  <2> QED BY <2>1, <2>2
<1> QED BY <1>1, <1>2, <1>3, <1>4, <1>5, <1>6

\* A list without repetition loses just that element.
LEMMA RemoveOnce ==
  ASSUME NEW S, NEW s \in Seq(S), NEW i \in 1..Len(s), IsInjective(s)
  PROVE  /\ IsInjective(RemoveAt(s, i))
         /\ ToSet(RemoveAt(s, i)) = ToSet(s) \ {s[i]}
<1> DEFINE r == RemoveAt(s, i)
<1>1. /\ r \in Seq(S) /\ Len(r) = Len(s) - 1 /\ Len(s) \in Nat
      /\ \A j \in 1..(Len(s) - 1) : r[j] = IF j < i THEN s[j] ELSE s[j + 1]
  BY RemoveFacts
<1> HIDE DEF r
<1>2. DOMAIN s = 1..Len(s) /\ DOMAIN r = 1..(Len(s) - 1)
  BY <1>1
<1>3. \A j, k \in 1..Len(s) : s[j] = s[k] => j = k
  BY <1>2 DEF IsInjective
<1>4. IsInjective(r)
  BY <1>1, <1>2, <1>3 DEF IsInjective
<1>5. ASSUME NEW j \in 1..(Len(s) - 1) PROVE r[j] \in ToSet(s) \ {s[i]}
  <2>1. PICK k \in 1..Len(s) : r[j] = s[k] /\ k # i
    <3>1. CASE j < i
      BY <1>1, <3>1
    <3>2. CASE ~(j < i)
      <4>1. j + 1 \in 1..Len(s) /\ j + 1 # i
        BY <1>1, <3>2
      <4> QED BY <1>1, <3>2, <4>1
    <3> QED BY <3>1, <3>2
  <2> QED BY <1>2, <1>3, <2>1 DEF ToSet
<1>6. ASSUME NEW j \in 1..Len(s), j # i PROVE s[j] \in ToSet(r)
  <2>1. CASE j < i
    <3>1. j \in 1..(Len(s) - 1) /\ r[j] = s[j]
      BY <1>1, <2>1
    <3> QED BY <1>2, <3>1 DEF ToSet
  <2>2. CASE j > i
    <3>1. j - 1 \in 1..(Len(s) - 1) /\ ~(j - 1 < i) /\ (j - 1) + 1 = j
      BY <1>1, <2>2
    <3>2. r[j - 1] = s[j]
      BY <1>1, <3>1
    <3> QED BY <1>2, <3>1, <3>2 DEF ToSet
  <2> QED BY <1>6, <2>1, <2>2
<1>7. ToSet(r) = ToSet(s) \ {s[i]}
  <2>1. ToSet(r) \subseteq ToSet(s) \ {s[i]}
    BY <1>2, <1>5 DEF ToSet
  <2>2. ToSet(s) \ {s[i]} \subseteq ToSet(r)
    BY <1>2, <1>6 DEF ToSet
  <2> QED BY <2>1, <2>2
<1> QED BY <1>4, <1>7 DEF r

----------------------------------------------------------------------------
(* The decoration.                                                         *)

\* Stores and bumps of the setters only let values grow.
LEMMA DecoStep ==
  ASSUME DecoTypeOK, DecoInv, DecoNext \/ UNCHANGED decoVars
  PROVE  /\ DecoTypeOK' /\ DecoInv'
         /\ \A s \in Slots : decoDone[s] <= decoDone'[s]
<1> USE DecorationAssumption
<1>1. CASE UNCHANGED decoVars
  BY <1>1 DEF decoVars, DecoTypeOK, DecoInv
<1>2. ASSUME NEW d \in Decos, NEW fields \in SetterFields, StoreConfig(d, fields)
      PROVE  /\ DecoTypeOK' /\ DecoInv'
             /\ \A s \in Slots : decoDone[s] <= decoDone'[s]
  <2>1. fields \subseteq Fields /\ writes[d] \in Nat /\ \A s \in Slots : s[1] \in Decos
    BY DEF DecoTypeOK, Slots
  <2>2. DecoTypeOK'
    <3>1. [deco |-> d, fields |-> fields, number |-> writes[d] + 1] \in Stores
      BY <2>1 DEF Stores
    <3>2. config' \in [Slots -> Nat] /\ writes' \in [Decos -> Nat]
      BY <1>2, <2>1 DEF StoreConfig, DecoTypeOK
    <3> QED BY <1>2, <3>1, <3>2 DEF StoreConfig, DecoTypeOK
  <2>3. \A s \in Slots : config'[s] = IF s \in {d} \X fields THEN writes[d] + 1 ELSE config[s]
    BY <1>2 DEF StoreConfig
  <2>4. \A s \in Slots : /\ config[s] \in Nat /\ config[s] <= writes[s[1]]
                         /\ config[s] <= config'[s] /\ config'[s] <= writes'[s[1]]
    <3> SUFFICES ASSUME NEW s \in Slots
                 PROVE  /\ config[s] \in Nat /\ config[s] <= writes[s[1]]
                        /\ config[s] <= config'[s] /\ config'[s] <= writes'[s[1]]
        OBVIOUS
    <3>1. /\ config[s] \in Nat /\ writes[s[1]] \in Nat /\ config[s] <= writes[s[1]]
          /\ writes'[s[1]] = IF s[1] = d THEN writes[d] + 1 ELSE writes[s[1]]
      BY <1>2, <2>1 DEF DecoTypeOK, DecoInv, StoreConfig
    <3>2. s \in {d} \X fields => s[1] = d
      OBVIOUS
    <3> QED BY <2>1, <2>3, <3>1, <3>2
  <2>5. \A s \in Slots : decoDone'[s] = decoDone[s] /\ decoDone[s] \in Nat
                         /\ decoDone[s] <= config[s]
    BY <1>2 DEF StoreConfig, DecoTypeOK, DecoInv
  <2>6. ASSUME NEW w \in decoPending', NEW f \in w.fields
        PROVE  w.number <= config'[<<w.deco, f>>]
    <3>1. CASE w \in decoPending
      <4>1. <<w.deco, f>> \in Slots /\ w.number \in Nat
        BY <3>1 DEF DecoTypeOK, Stores, Slots
      <4> QED BY <2>2, <2>4, <3>1, <4>1 DEF DecoTypeOK, DecoInv
    <3>2. CASE w \notin decoPending
      <4>1. w.deco = d /\ w.fields = fields /\ w.number = writes[d] + 1
        BY <1>2, <3>2 DEF StoreConfig
      <4>2. <<d, f>> \in Slots /\ <<d, f>> \in {d} \X fields
        BY <2>1, <2>6, <4>1 DEF Slots
      <4> QED BY <2>1, <2>3, <4>1, <4>2
    <3> QED BY <3>1, <3>2
  <2>7. \A s \in Slots : config'[s] \in Nat /\ decoDone[s] <= config'[s]
    BY <2>2, <2>4, <2>5 DEF DecoTypeOK
  <2> QED BY <2>2, <2>4, <2>5, <2>6, <2>7 DEF DecoInv
<1>3. ASSUME NEW w \in decoPending, BumpDeco(w)
      PROVE  /\ DecoTypeOK' /\ DecoInv'
             /\ \A s \in Slots : decoDone[s] <= decoDone'[s]
  <2>1. /\ w.deco \in Decos /\ w.number \in Nat /\ w.fields \subseteq Fields
        /\ UNCHANGED <<config, writes>> /\ decoPending' \subseteq decoPending
    BY <1>3 DEF BumpDeco, DecoTypeOK, Stores
  <2>2. DecoTypeOK'
    BY <1>3, <2>1 DEF BumpDeco, DecoTypeOK
  <2>3. ASSUME NEW s \in Slots
        PROVE  decoDone[s] <= decoDone'[s] /\ decoDone'[s] <= config[s]
    <3>1. decoDone[s] \in Nat /\ config[s] \in Nat /\ decoDone[s] <= config[s]
      BY DEF DecoTypeOK, DecoInv
    <3>2. CASE s \in {w.deco} \X w.fields /\ decoDone[s] < w.number
      <4>1. s = <<w.deco, s[2]>> /\ s[2] \in w.fields /\ decoDone'[s] = w.number
        BY <1>3, <3>2 DEF BumpDeco
      <4> QED BY <2>1, <3>1, <3>2, <4>1 DEF DecoInv
    <3>3. CASE ~(s \in {w.deco} \X w.fields /\ decoDone[s] < w.number)
      BY <1>3, <3>1, <3>3 DEF BumpDeco
    <3> QED BY <3>2, <3>3
  <2> QED BY <2>1, <2>2, <2>3 DEF DecoInv
<1> QED BY <1>1, <1>2, <1>3 DEF DecoNext

----------------------------------------------------------------------------
(* A step of one thread.                                                   *)

ThreadStep(t) ==
  \/ Refuse(t) \/ Make(t) \/ Register(t) \/ Track(t)
  \/ BeginListing(t) \/ Collect(t) \/ Erase(t) \/ Collected(t) \/ Describe(t)
  \/ Return(t)

\* What the others have and where they are.
Kept(u) == pc'[u] = pc[u] /\ making'[u] = making[u] /\ listing'[u] = listing[u]

\* A step of one thread leaves what the others have and where they are.
LEMMA OnlyOwnLocals ==
  ASSUME TypeOK, NEW t \in Threads, ThreadStep(t), NEW u \in Threads, u # t
  PROVE  Kept(u)
<1> USE DEF TypeOK, Goto, Kept
<1>1. CASE Refuse(t) \/ Make(t) \/ Register(t) \/ Track(t)
  BY <1>1 DEF Refuse, Make, Register, Track
<1>2. CASE BeginListing(t) \/ Collect(t) \/ Erase(t) \/ Return(t)
  BY <1>2 DEF BeginListing, Collect, Erase, Return
<1>3. CASE Collected(t)
  BY <1>3 DEF Collected, Continue
<1>4. CASE Describe(t)
  BY <1>4 DEF Describe, Continue
<1> QED BY <1>1, <1>2, <1>3, <1>4 DEF ThreadStep

\* describe reads something of each core.
LEMMA DescribedFacts == Described \subseteq Slots /\ Described # {}
<1>1. PICK f \in Fields : f \in {"prefix", "labels"}
  BY EnumerationAssumption
<1>2. "self" \in Decos
  BY DEF Decos
<1>3. <<"self", f>> \in Described
  BY <1>1, <1>2 DEF Described, Slots
<1> QED BY <1>3 DEF Described

\* Turning to a core keeps what the call has but for where it is.
LEMMA DescribingFacts ==
  ASSUME NEW call \in Listings, NEW at \in Nat
  PROVE  /\ Describing(call, at) \in Listings
         /\ Describing(call, at).at = at
         /\ Describing(call, at).unread = IF at <= Len(call.live) THEN Described ELSE {}
         /\ Describing(call, at).live = call.live
         /\ Describing(call, at).out = call.out
         /\ Describing(call, at).known = call.known
         /\ Describing(call, at).gone = call.gone
         /\ Describing(call, at).floor = call.floor
<1>1. Blank \in Views
  BY DEF Blank, Views
<1> QED BY <1>1 DEF Describing, Listings

\* A call goes on to describe while it has something to read.
LEMMA ContinueFacts ==
  ASSUME TypeOK, NEW t \in Threads, NEW call, Continue(t, call)
  PROVE  /\ listing'[t] = call
         /\ pc'[t] = IF call.unread = {} THEN "listed" ELSE "describe"
BY DEF TypeOK, Continue, Goto

----------------------------------------------------------------------------
(* Types.                                                                  *)

\* The record of a listing that begins.
Fresh == [NoListing EXCEPT !.at = 1, !.known = held, !.gone = destroyed,
                           !.floor = [s \in Described |-> decoDone[s]]]

\* The record of a thread that lists nothing.
LEMMA NoListingFacts ==
  /\ NoListing \in Listings
  /\ NoListing.live = <<>> /\ NoListing.out = {} /\ NoListing.gone = {}
  /\ NoListing.known = {} /\ NoListing.unread = {} /\ NoListing.floor = Blank
BY DEF NoListing, Listings, Blank, Views

\* A listing begins at the front, with what is known, gone and complete by then.
LEMMA FreshFacts ==
  ASSUME TypeOK
  PROVE  /\ Fresh \in Listings
         /\ Fresh.at = 1 /\ Fresh.live = <<>> /\ Fresh.out = {} /\ Fresh.unread = {}
         /\ Fresh.known = held /\ Fresh.gone = destroyed
         /\ Fresh.floor = [s \in Described |-> decoDone[s]]
<1>1. [s \in Described |-> decoDone[s]] \in Views
  BY DescribedFacts DEF TypeOK, DecoTypeOK, Views
<1>2. held \in SUBSET Metrics /\ destroyed \in SUBSET Metrics
  BY DEF TypeOK
<1> QED BY <1>1, <1>2, NoListingFacts DEF Fresh, NoListing, Listings

\* The core that a thread at describe reads.
LEMMA CoreFacts ==
  ASSUME TypeOK, NEW t \in Threads, CallInv(t), pc[t] = "describe"
  PROVE  /\ listing[t].at \in 1..Len(listing[t].live)
         /\ listing[t].live[listing[t].at] \in Metrics
<1>1. listing[t].live \in Seq(Metrics) /\ listing[t].at \in Nat
  BY DEF TypeOK, Listings
<1>2. listing[t].at \in 1..Len(listing[t].live)
  BY <1>1 DEF CallInv
<1> QED BY <1>1, <1>2

\* What describe does to the record of its call: it reads one slot of a core,
\* and after the last of them tells of the core and turns to the next.
LEMMA DescribeFacts ==
  ASSUME TypeOK, NEW t \in Threads, CallInv(t), Describe(t)
  PROVE  LET call == listing[t]
             new == listing'[t]
         IN /\ new \in Listings
            /\ pc'[t] = IF new.unread = {} THEN "listed" ELSE "describe"
            /\ new.live = call.live /\ new.known = call.known
            /\ new.gone = call.gone /\ new.floor = call.floor
            /\ \E s \in call.unread, view \in Views :
                 /\ view = [call.view EXCEPT ![s] = config[s]]
                 /\ \/ /\ call.unread # {s} /\ new.unread = call.unread \ {s}
                       /\ new.view = view /\ new.at = call.at /\ new.out = call.out
                    \/ /\ call.unread = {s} /\ new.at = call.at + 1
                       /\ new.unread = IF new.at <= Len(call.live) THEN Described ELSE {}
                       /\ new.out = call.out \union
                            {[metric |-> call.live[call.at], view |-> view]}
<1> DEFINE call == listing[t]
<1>1. call \in Listings
  BY DEF TypeOK
<1>2. PICK s \in call.unread :
        LET view == [call.view EXCEPT ![s] = config[s]]
            read == [call EXCEPT !.view = view, !.unread = @ \ {s}]
        IN Continue(t, IF read.unread # {} THEN read
                       ELSE Describing([read EXCEPT !.out = @ \union
                              {[metric |-> call.live[call.at], view |-> view]}],
                              call.at + 1))
  BY DEF Describe, Effective
<1> DEFINE view == [call.view EXCEPT ![s] = config[s]]
<1> DEFINE read == [call EXCEPT !.view = view, !.unread = @ \ {s}]
<1> DEFINE told == [read EXCEPT !.out = @ \union
                      {[metric |-> call.live[call.at], view |-> view]}]
<1>3. pc[t] = "describe"
  BY DEF Describe
<1>4. view \in Views
  <2>1. call.view \in Views /\ s \in Described /\ config[s] \in Nat
    BY <1>1, DescribedFacts DEF TypeOK, DecoTypeOK, Listings
  <2> QED BY <2>1 DEF Views
<1>5. call.live[call.at] \in Metrics /\ call.at + 1 \in Nat
  BY <1>1, <1>3, CoreFacts DEF Listings
<1> HIDE DEF view
<1>6. /\ read \in Listings /\ read.view = view /\ read.unread = call.unread \ {s}
      /\ read.at = call.at /\ read.live = call.live /\ read.out = call.out
      /\ read.known = call.known /\ read.gone = call.gone /\ read.floor = call.floor
  BY <1>1, <1>4 DEF Listings
<1> HIDE DEF read
<1>7. /\ told \in Listings /\ told.live = call.live
      /\ told.out = call.out \union {[metric |-> call.live[call.at], view |-> view]}
      /\ told.known = call.known /\ told.gone = call.gone /\ told.floor = call.floor
  BY <1>4, <1>5, <1>6 DEF Listings
<1> HIDE DEF told
<1>8. Continue(t, IF read.unread # {} THEN read ELSE Describing(told, call.at + 1))
  BY <1>2 DEF view, read, told
<1>9. CASE read.unread # {}
  <2>1. listing'[t] = read /\ pc'[t] = "describe"
    BY <1>8, <1>9, ContinueFacts
  <2> QED BY <1>4, <1>6, <1>9, <2>1 DEF view
<1>10. CASE read.unread = {}
  <2>1. /\ listing'[t] = Describing(told, call.at + 1)
        /\ pc'[t] = IF listing'[t].unread = {} THEN "listed" ELSE "describe"
    BY <1>8, <1>10, ContinueFacts
  <2>2. /\ Describing(told, call.at + 1) \in Listings
        /\ Describing(told, call.at + 1).at = call.at + 1
        /\ Describing(told, call.at + 1).unread =
             IF call.at + 1 <= Len(call.live) THEN Described ELSE {}
        /\ Describing(told, call.at + 1).live = call.live
        /\ Describing(told, call.at + 1).out = told.out
        /\ Describing(told, call.at + 1).known = call.known
        /\ Describing(told, call.at + 1).gone = call.gone
        /\ Describing(told, call.at + 1).floor = call.floor
    BY <1>5, <1>7, DescribingFacts
  <2>3. call.unread = {s}
    BY <1>6, <1>10
  <2> QED BY <1>4, <1>7, <2>1, <2>2, <2>3 DEF view
<1> QED BY <1>9, <1>10

\* What Collect, Erase and Collected do to the record of their call.
LEMMA CollectFacts ==
  ASSUME TypeOK, NEW t \in Threads, Collect(t), Alive(list[listing[t].at]), CallInv(t)
  PROVE  LET call == listing[t]
             new == listing'[t]
             m == list[call.at]
         IN /\ call.at \in 1..Len(list) /\ m \in Metrics
            /\ pc[t] = "collect" /\ pc' = pc
            /\ new \in Listings /\ new.at = call.at + 1 /\ new.live = Append(call.live, m)
            /\ new.unread = call.unread /\ new.view = call.view /\ new.out = call.out
            /\ new.known = call.known /\ new.gone = call.gone /\ new.floor = call.floor
<1>1. listing[t] \in Listings /\ list \in Seq(Metrics) /\ pc[t] = "collect"
      /\ listing[t].at <= Len(list)
  BY DEF TypeOK, Collect
<1>2. listing[t].at \in 1..Len(list)
  BY <1>1 DEF CallInv
<1>3. list[listing[t].at] \in Metrics
  BY <1>1, <1>2
<1> DEFINE longer == Append(listing[t].live, list[listing[t].at])
<1>4. longer \in Seq(Metrics)
  BY <1>1, <1>3 DEF Listings
<1>5. /\ pc' = pc
      /\ listing' = [listing EXCEPT ![t].at = @ + 1,
                                    ![t].live = Append(@, list[listing[t].at])]
  BY DEF Collect
<1>6. listing'[t] = [listing[t] EXCEPT !.at = @ + 1,
                                       !.live = Append(@, list[listing[t].at])]
  BY <1>5 DEF TypeOK
<1>7. listing'[t] = [listing[t] EXCEPT !.at = listing[t].at + 1, !.live = longer]
  BY <1>6
<1> HIDE DEF longer
<1>8. /\ listing'[t] \in Listings
      /\ listing'[t].at = listing[t].at + 1 /\ listing'[t].live = longer
      /\ listing'[t].unread = listing[t].unread /\ listing'[t].view = listing[t].view
      /\ listing'[t].out = listing[t].out /\ listing'[t].known = listing[t].known
      /\ listing'[t].gone = listing[t].gone /\ listing'[t].floor = listing[t].floor
  <2>1. PICK call, new, at, live : call = listing[t] /\ new = listing'[t]
                                   /\ at = listing[t].at + 1 /\ live = longer
    OBVIOUS
  <2>2. call \in Listings /\ at \in Nat /\ live \in Seq(Metrics)
    BY <1>1, <1>2, <1>4, <2>1
  <2>3. new = [call EXCEPT !.at = at, !.live = live]
    BY <1>7, <2>1
  <2>4. /\ new \in Listings /\ new.at = at /\ new.live = live
        /\ new.unread = call.unread /\ new.view = call.view /\ new.out = call.out
        /\ new.known = call.known /\ new.gone = call.gone /\ new.floor = call.floor
    BY <2>2, <2>3 DEF Listings
  <2> QED BY <2>1, <2>4
<1> QED BY <1>1, <1>2, <1>3, <1>5, <1>8 DEF longer

\* Erase takes one expired reference out and stays where it is.
LEMMA EraseFacts ==
  ASSUME TypeOK, NEW t \in Threads, Erase(t), CallInv(t)
  PROVE  LET call == listing[t]
         IN /\ call.at \in 1..Len(list)
            /\ pc[t] = "erase" /\ pc'[t] = "collect" /\ listing' = listing
            /\ list' = RemoveAt(list, call.at)
            /\ list' \in Seq(Metrics) /\ IsInjective(list')
            /\ Len(list') = Len(list) - 1
            /\ \A j \in 1..(Len(list) - 1) :
                 list'[j] = IF j < call.at THEN list[j] ELSE list[j + 1]
            /\ ToSet(list') = ToSet(list) \ {list[call.at]}
<1>1. /\ listing[t].at \in 1..Len(list) /\ list \in Seq(Metrics) /\ IsInjective(list)
      /\ pc[t] = "erase" /\ pc'[t] = "collect" /\ list' = RemoveAt(list, listing[t].at)
  BY DEF TypeOK, Erase, Goto, CallInv
<1>2. listing'[t] = [listing[t] EXCEPT !.at = @]
  BY DEF TypeOK, Erase, AfterErase
<1>3. listing'[t] = listing[t]
  BY <1>2 DEF TypeOK, Listings
<1>4. listing' = listing
  BY <1>3 DEF TypeOK, Erase
<1> QED BY <1>1, <1>4, RemoveFacts, RemoveOnce

\* Past the end of the list, the call goes on with what it has collected.
LEMMA CollectedFacts ==
  ASSUME TypeOK, NEW t \in Threads, Collected(t)
  PROVE  LET call == listing[t]
             new == listing'[t]
         IN /\ pc[t] = "collect" /\ call.at > Len(list)
            /\ pc'[t] = IF call.live = <<>> THEN "listed" ELSE "describe"
            /\ new \in Listings /\ new.at = 1
            /\ new.unread = IF call.live = <<>> THEN {} ELSE Described
            /\ new.live = call.live /\ new.out = call.out
            /\ new.known = call.known /\ new.gone = call.gone /\ new.floor = call.floor
<1> DEFINE next == Describing(listing[t], 1)
<1>1. listing[t] \in Listings /\ listing[t].live \in Seq(Metrics)
  BY DEF TypeOK, Listings
<1>2. /\ next \in Listings /\ next.at = 1
      /\ next.unread = IF 1 <= Len(listing[t].live) THEN Described ELSE {}
      /\ next.live = listing[t].live /\ next.out = listing[t].out
      /\ next.known = listing[t].known /\ next.gone = listing[t].gone
      /\ next.floor = listing[t].floor
  BY <1>1, DescribingFacts
<1>3. /\ listing'[t] = next
      /\ pc'[t] = IF next.unread = {} THEN "listed" ELSE "describe"
  <2>1. Continue(t, next)
    BY DEF Collected
  <2> HIDE DEF next
  <2> QED BY <2>1, ContinueFacts
<1>4. 1 <= Len(listing[t].live) <=> listing[t].live # <<>>
  BY <1>1
<1> HIDE DEF next
<1> QED BY <1>2, <1>3, <1>4, DescribedFacts DEF Collected

\* The steps keep the types.
LEMMA TypeStep ==
  ASSUME IInv, [Next]_vars
  PROVE  TypeOK'
<1>1. TypeOK /\ DecoInv /\ MakingInv /\ DecoTypeOK /\ Len(made) \in Nat /\ MaxMetrics \in Nat
      /\ \A t \in Threads : CallInv(t)
  BY EnumerationAssumption DEF IInv, TypeOK, MakingInv
<1>2. CASE UNCHANGED vars
  BY <1>1, <1>2 DEF vars, decoVars, metricVars, TypeOK, DecoTypeOK
<1>3. CASE Redecorate
  <2>1. DecoTypeOK' /\ UNCHANGED <<metricVars, list, mutex, pc, making, listing>>
    BY <1>1, <1>3, DecoStep DEF Redecorate
  <2> QED BY <1>1, <2>1 DEF metricVars, TypeOK
<1>4. ASSUME NEW m \in Metrics, Drop(m) PROVE TypeOK'
  BY <1>1, <1>4 DEF Drop, decoVars, TypeOK, DecoTypeOK
<1>5. ASSUME NEW t \in Threads, ThreadStep(t) PROVE TypeOK'
  <2> USE DEF TypeOK
  <2>1. DecoTypeOK'
    <3>1. UNCHANGED decoVars
      BY <1>5 DEF ThreadStep, Refuse, Make, Register, Track, BeginListing, Collect, Erase,
         Collected, Describe, Return
    <3> QED BY <1>1, <3>1 DEF decoVars, DecoTypeOK
  <2>2. CASE Refuse(t)
    BY <1>1, <2>1, <2>2 DEF Refuse
  <2>3. CASE Make(t)
    <3>1. PICK x : x \in {Filled(spec) : spec \in Specs} /\ made' = Append(made, x)
      BY <2>3, EnumerationAssumption DEF Make, Offered
    <3>2. Len(made') = Len(made) + 1
      BY <1>1, <3>1 DEF MakingInv
    <3>3. Len(made) + 1 \in 0..MaxMetrics
      BY <1>1, <2>3 DEF Make
    <3> QED BY <1>1, <2>1, <2>3, <3>2, <3>3 DEF Make, AfterMake, Goto
  <2>4. CASE Register(t) \/ Track(t)
    <3>1. making[t] \in Metrics /\ making[t] \notin ToSet(list)
      BY <1>1, <2>4 DEF Register, Track, MakingInv, Metrics
    <3>2. CASE Register(t)
      BY <1>1, <2>1, <3>1, <3>2 DEF Register, Goto
    <3>3. CASE Track(t)
      <4>1. list' \in Seq(Metrics) /\ IsInjective(list')
        <5>1. /\ list' = Append(list, making[t]) /\ list \in Seq(Metrics)
              /\ Len(list) \in Nat /\ IsInjective(list)
          BY <1>1, <3>3 DEF Track
        <5>2. /\ list' \in Seq(Metrics) /\ Len(list') = Len(list) + 1
              /\ \A i \in 1..Len(list) : list'[i] = list[i]
              /\ list'[Len(list) + 1] = making[t]
          BY <3>1, <5>1, AppendFacts
        <5>3. DOMAIN list = 1..Len(list) /\ DOMAIN list' = 1..(Len(list) + 1)
          BY <5>1, <5>2
        <5>4. \A i \in 1..Len(list) : list[i] # making[t]
          BY <3>1, <5>3 DEF ToSet
        <5> QED BY <5>1, <5>2, <5>3, <5>4 DEF IsInjective
      <4> QED BY <1>1, <2>1, <3>1, <3>3, <4>1 DEF Track, Goto
    <3> QED BY <2>4, <3>2, <3>3
  <2>5. CASE BeginListing(t)
    <3>1. Fresh \in Listings /\ listing' = [listing EXCEPT ![t] = Fresh]
      BY <1>1, <2>5, FreshFacts DEF BeginListing, Fresh
    <3> QED BY <1>1, <2>1, <2>5, <3>1 DEF BeginListing, MutexFree, Goto, metricVars
  <2>6. ASSUME Collect(t) \/ Collected(t) \/ Describe(t), listing'[t] \in Listings
        PROVE  TypeOK'
    <3>1. listing' \in [Threads -> Listings]
      BY <1>1, <1>5, <2>6, OnlyOwnLocals
         DEF Kept, Collect, Collected, Describe, Continue
    <3>2. /\ UNCHANGED <<made, registered, held, destroyed, list, making>>
          /\ mutex' = mutex \/ mutex' = mutex \ {t}
      BY <2>6 DEF Collect, Collected, Describe, metricVars
    <3>3. pc' \in [Threads -> {"idle", "register", "track", "collect", "erase", "describe",
                               "listed"}]
      BY <1>1, <2>6 DEF Collect, Collected, Describe, Continue, Goto
    <3> QED BY <1>1, <2>1, <3>1, <3>2, <3>3
  <2>7. CASE Collect(t)
    <3>1. CASE Alive(list[listing[t].at])
      BY <1>1, <2>6, <2>7, <3>1, CollectFacts
    <3>2. CASE ~Alive(list[listing[t].at])
      BY <1>1, <2>6, <2>7, <3>2 DEF Collect
    <3> QED BY <3>1, <3>2
  <2>8. CASE Collected(t)
    BY <1>1, <2>6, <2>8, CollectedFacts
  <2>9. CASE Describe(t)
    BY <1>1, <2>6, <2>9, DescribeFacts
  <2>10. CASE Erase(t)
    <3>1. list' \in Seq(Metrics) /\ IsInjective(list') /\ listing' = listing
      BY <1>1, <2>10, EraseFacts
    <3> QED BY <1>1, <2>1, <2>10, <3>1 DEF Erase, Goto, metricVars
  <2>11. CASE Return(t)
    <3>1. destroyed' \subseteq Metrics
      <4>1. ToSet(listing[t].live) \subseteq Metrics
        BY <1>1 DEF Listings, ToSet
      <4> QED BY <1>1, <2>11, <4>1 DEF Return
    <3> QED BY <1>1, <2>1, <2>11, <3>1, NoListingFacts DEF Return, Goto
  <2> QED BY <1>5, <2>2, <2>3, <2>4, <2>5, <2>7, <2>8, <2>9, <2>10, <2>11 DEF ThreadStep
<1> QED BY <1>2, <1>3, <1>4, <1>5 DEF Next, ThreadStep

----------------------------------------------------------------------------
(* The mutex and the cores.                                                *)

\* The parts of the inductive invariant, for one thread.
LEMMA Facts ==
  ASSUME IInv, NEW t \in Threads
  PROVE  /\ TypeOK /\ DecoInv /\ MutexInv /\ MakingInv /\ ListedInv /\ AliveInv
         /\ CallInv(t) /\ ViewInv(t)
         /\ Len(made) \in Nat
BY DEF IInv, MakingInv

\* Who takes the mutex finds it free, and who leaves it held it.
LEMMA MutexStep ==
  ASSUME IInv, NEW t \in Threads, ThreadStep(t)
  PROVE  MutexInv'
<1> USE DEF TypeOK, MutexInv, Goto
<1>1. /\ TypeOK /\ MutexInv /\ CallInv(t)
      /\ \A u \in Threads : u # t => pc'[u] = pc[u]
  BY Facts, OnlyOwnLocals DEF Kept
<1>2. CASE Refuse(t) \/ Make(t) \/ Register(t) \/ Track(t) \/ Return(t)
  BY <1>1, <1>2 DEF Refuse, Make, AfterMake, Register, Track, Return
<1>3. CASE BeginListing(t)
  BY <1>1, <1>3 DEF BeginListing, MutexFree
<1>4. CASE Collect(t) \/ Erase(t)
  BY <1>1, <1>4 DEF Collect, Erase
<1>5. CASE Collected(t)
  <2>1. pc[t] = "collect" /\ pc'[t] \notin {"collect", "erase"} /\ mutex' = mutex \ {t}
    BY <1>1, <1>5, CollectedFacts DEF Collected
  <2> QED BY <1>1, <2>1
<1>6. CASE Describe(t)
  <2>1. pc[t] = "describe" /\ pc'[t] \notin {"collect", "erase"} /\ mutex' = mutex
    BY <1>1, <1>6, DescribeFacts DEF Describe
  <2> QED BY <1>1, <2>1
<1> QED BY <1>2, <1>3, <1>4, <1>5, <1>6 DEF ThreadStep

\* Each core is made once and put into the list once.
LEMMA MakingStep ==
  ASSUME IInv, NEW t \in Threads, ThreadStep(t)
  PROVE  MakingInv'
<1> USE DEF TypeOK, MakingInv, Goto
<1>1. /\ TypeOK /\ MakingInv /\ CallInv(t) /\ Len(made) \in Nat
      /\ \A u \in Threads : u # t => pc'[u] = pc[u] /\ making'[u] = making[u]
  BY Facts, OnlyOwnLocals DEF Kept
<1>2. CASE Refuse(t) \/ Register(t) \/ BeginListing(t) \/ Return(t) \/ Collect(t)
  BY <1>1, <1>2 DEF Refuse, Register, BeginListing, Return, Collect, metricVars
<1>3. CASE Make(t)
  <2>1. PICK x : x \in {Filled(spec) : spec \in Specs} /\ made' = Append(made, x)
    BY <1>3, EnumerationAssumption DEF Make, Offered
  <2>2. /\ made' \in Seq({Filled(spec) : spec \in Specs}) /\ Len(made') = Len(made) + 1
        /\ list' = list /\ making'[t] = Len(made) + 1 /\ making[t] = 0
        /\ pc'[t] \in {"register", "track"}
    BY <1>1, <1>3, <2>1 DEF Make, AfterMake
  <2>3. ToSet(list') \subseteq 1..Len(made') /\ making'[t] \notin ToSet(list')
    BY <1>1, <2>2
  <2>4. ASSUME NEW u \in Threads
        PROVE  /\ making'[u] \in 0..Len(made')
               /\ making'[u] # 0 <=> pc'[u] \in {"register", "track"}
               /\ making'[u] \notin ToSet(list')
    BY <1>1, <2>2, <2>3
  <2>5. ASSUME NEW u \in Threads, NEW v \in Threads, making'[u] # 0, making'[u] = making'[v]
        PROVE  u = v
    BY <1>1, <2>2, <2>5
  <2> QED BY <2>2, <2>3, <2>4, <2>5
<1>4. CASE Track(t)
  <2>1. /\ list \in Seq(Metrics) /\ making[t] \in 1..Len(made) /\ making[t] \in Metrics
        /\ list' = Append(list, making[t]) /\ made' = made
        /\ making'[t] = 0 /\ pc'[t] = "idle"
    BY <1>1, <1>4 DEF Track, Metrics
  <2>2. ToSet(list') = ToSet(list) \union {making[t]}
    BY <2>1, AppendFacts
  <2>3. ASSUME NEW u \in Threads
        PROVE  /\ making'[u] \in 0..Len(made')
               /\ making'[u] # 0 <=> pc'[u] \in {"register", "track"}
               /\ making'[u] \notin ToSet(list')
    <3>1. CASE u = t
      <4>1. 0 \notin ToSet(list')
        BY <1>1, <2>1, <2>2
      <4> QED BY <1>1, <2>1, <3>1, <4>1
    <3>2. CASE u # t
      <4>1. making[t] # 0 /\ making'[u] # making[t] /\ made' = made
        BY <1>1, <2>1, <3>2
      <4> QED BY <1>1, <2>2, <3>2, <4>1
    <3> QED BY <3>1, <3>2
  <2>4. ASSUME NEW u \in Threads, NEW v \in Threads, making'[u] # 0, making'[u] = making'[v]
        PROVE  u = v
    BY <1>1, <2>1, <2>4
  <2>5. ToSet(list') \subseteq 1..Len(made')
    BY <1>1, <2>1, <2>2
  <2> QED BY <1>1, <2>1, <2>3, <2>4, <2>5
<1>5. CASE Erase(t)
  <2>1. ToSet(list') \subseteq ToSet(list) /\ pc[t] = "erase" /\ pc'[t] = "collect"
    BY <1>1, <1>5, EraseFacts
  <2>2. made' = made /\ making' = making
    BY <1>5 DEF Erase, metricVars
  <2> QED BY <1>1, <2>1, <2>2
<1>6. CASE Collected(t) \/ Describe(t)
  <2>1. pc[t] \in {"collect", "describe"} /\ pc'[t] \in {"describe", "listed"}
    BY <1>1, <1>6, CollectedFacts, DescribeFacts DEF Collected, Describe
  <2>2. made' = made /\ making' = making /\ list' = list
    BY <1>6 DEF Collected, Describe, metricVars
  <2> QED BY <1>1, <2>1, <2>2
<1> QED BY <1>2, <1>3, <1>4, <1>5, <1>6 DEF ThreadStep

\* What a step does to the sets of cores: who holds them, which are listed.
LEMMA ListedStep ==
  ASSUME IInv, NEW t \in Threads, ThreadStep(t)
  PROVE  ListedInv'
<1> USE DEF ListedInv
<1>1. /\ TypeOK /\ MakingInv /\ ListedInv /\ AliveInv /\ CallInv(t)
      /\ \A u \in Threads : u # t => listing'[u] = listing[u]
  BY Facts, OnlyOwnLocals DEF Kept
<1>2. CASE Refuse(t) \/ Make(t) \/ Register(t)
  BY <1>1, <1>2 DEF Refuse, Make, Register
<1>3. CASE Track(t)
  <2>1. /\ list \in Seq(Metrics) /\ making[t] \in Metrics
        /\ list' = Append(list, making[t])
        /\ held' = held \union {making[t]} /\ listing' = listing
    BY <1>1, <1>3 DEF Track, TypeOK, MakingInv, Metrics
  <2>2. ToSet(list') = ToSet(list) \union {making[t]}
    BY <2>1, AppendFacts
  <2> QED BY <1>1, <2>1, <2>2
<1>4. CASE BeginListing(t) \/ Return(t)
  <2>1. held' = held /\ list' = list /\ listing'[t].live = <<>>
    <3>1. CASE BeginListing(t)
      <4>1. listing'[t] = Fresh
        BY <1>1, <3>1 DEF BeginListing, Fresh, TypeOK
      <4> QED BY <1>1, <3>1, <4>1, FreshFacts DEF BeginListing, metricVars
    <3>2. CASE Return(t)
      BY <1>1, <3>2, NoListingFacts DEF Return, TypeOK
    <3> QED BY <1>4, <3>1, <3>2
  <2>2. ToSet(<<>>) = {}
    BY DEF ToSet
  <2> QED BY <1>1, <2>1, <2>2
<1>5. CASE Collect(t)
  <2>1. held' = held /\ list' = list
    BY <1>5 DEF Collect, metricVars
  <2>2. CASE Alive(list[listing[t].at])
    <3>1. /\ list[listing[t].at] \in ToSet(list) /\ list[listing[t].at] \in Metrics
          /\ listing'[t].live = Append(listing[t].live, list[listing[t].at])
          /\ listing[t].live \in Seq(Metrics)
      BY <1>1, <1>5, <2>2, CollectFacts DEF TypeOK, Listings, ToSet
    <3>2. ToSet(listing'[t].live) = ToSet(listing[t].live) \union {list[listing[t].at]}
      BY <3>1, AppendFacts
    <3> QED BY <1>1, <2>1, <3>1, <3>2
  <2>3. CASE ~Alive(list[listing[t].at])
    BY <1>1, <1>5, <2>1, <2>3 DEF Collect
  <2> QED BY <2>2, <2>3
<1>6. CASE Erase(t)
  <2>1. /\ ToSet(list') = ToSet(list) \ {list[listing[t].at]}
        /\ held' = held /\ listing' = listing
        /\ list[listing[t].at] \in destroyed
    BY <1>1, <1>6, EraseFacts DEF Erase, metricVars, CallInv
  <2>2. ~Alive(list[listing[t].at])
    BY <1>1, <2>1 DEF AliveInv
  <2>3. /\ list[listing[t].at] \notin held
        /\ \A u \in Threads : list[listing[t].at] \notin ToSet(listing[u].live)
    BY <2>2 DEF Alive, HeldByListing
  <2> QED BY <1>1, <2>1, <2>3
<1>7. CASE Collected(t) \/ Describe(t)
  <2>1. listing'[t].live = listing[t].live
    BY <1>1, <1>7, CollectedFacts, DescribeFacts
  <2>2. held' = held /\ list' = list
    BY <1>7 DEF Collected, Describe, metricVars
  <2> QED BY <1>1, <2>1, <2>2
<1> QED BY <1>2, <1>3, <1>4, <1>5, <1>6, <1>7 DEF ThreadStep

\* A core is as alive as it was if everybody has what they had.
LEMMA SameHolders ==
  ASSUME AliveInv, UNCHANGED <<held, making, destroyed>>, Len(made') = Len(made),
         \A u \in Threads : ToSet(listing'[u].live) = ToSet(listing[u].live)
  PROVE  AliveInv'
BY DEF AliveInv, Alive, HeldInMaking, HeldByListing

\* A core is destroyed when the last who had it lets go.
LEMMA AliveStep ==
  ASSUME IInv, NEW t \in Threads, ThreadStep(t)
  PROVE  AliveInv' /\ destroyed \subseteq destroyed'
<1>1. /\ TypeOK /\ MakingInv /\ ListedInv /\ AliveInv /\ CallInv(t)
      /\ \A u \in Threads : u # t => listing'[u] = listing[u] /\ making'[u] = making[u]
      /\ ToSet(<<>>) = {} /\ Len(made) \in Nat
  BY Facts, OnlyOwnLocals DEF Kept, ToSet
<1>2. CASE Refuse(t) \/ Register(t) \/ Erase(t) \/ Collected(t) \/ Describe(t)
           \/ BeginListing(t)
  <2>1. UNCHANGED <<held, making, destroyed, made>>
    BY <1>2 DEF Refuse, Register, Erase, Collected, Describe, BeginListing, metricVars
  <2>2. ToSet(listing'[t].live) = ToSet(listing[t].live)
    <3>1. CASE Refuse(t) \/ Register(t)
      BY <3>1 DEF Refuse, Register
    <3>2. CASE Erase(t) \/ Collected(t) \/ Describe(t)
      BY <1>1, <3>2, EraseFacts, CollectedFacts, DescribeFacts
    <3>3. CASE BeginListing(t)
      <4>1. listing'[t] = Fresh /\ pc[t] = "idle"
        BY <1>1, <3>3 DEF BeginListing, Fresh, TypeOK
      <4>2. listing[t] = NoListing
        BY <1>1, <4>1 DEF CallInv
      <4> QED BY <1>1, <4>1, <4>2, FreshFacts, NoListingFacts
    <3> QED BY <1>2, <3>1, <3>2, <3>3
  <2> QED BY <1>1, <2>1, <2>2, SameHolders
<1>3. CASE Make(t)
  <2>1. /\ UNCHANGED <<held, listing, destroyed>> /\ Len(made') = Len(made) + 1
        /\ making'[t] = Len(made) + 1 /\ making[t] = 0
    <3>1. PICK x : x \in {Filled(spec) : spec \in Specs} /\ made' = Append(made, x)
      BY <1>3, EnumerationAssumption DEF Make, Offered
    <3>2. made \in Seq({Filled(spec) : spec \in Specs})
      BY <1>1 DEF MakingInv
    <3>3. Len(made') = Len(made) + 1
      BY <3>1, <3>2
    <3>4. pc[t] = "idle" /\ making[t] = 0
      BY <1>1, <1>3 DEF Make, MakingInv
    <3>5. making'[t] = Len(made) + 1
      BY <1>1, <1>3 DEF Make, TypeOK
    <3> QED BY <1>3, <3>3, <3>4, <3>5 DEF Make
  <2>2. ASSUME NEW m \in 1..Len(made) PROVE Alive(m)' <=> Alive(m)
    <3>1. m # making[t] /\ m # making'[t]
      BY <1>1, <2>1
    <3>2. (\E u \in Threads : making'[u] = m) <=> (\E u \in Threads : making[u] = m)
      BY <1>1, <3>1
    <3> QED BY <2>1, <3>2 DEF Alive, HeldInMaking, HeldByListing
  <2>3. ASSUME NEW m \in 1..Len(made'), m \notin 1..Len(made) PROVE Alive(m)' /\ m \notin destroyed'
    <3>1. making'[t] = m
      BY <1>1, <2>1, <2>3
    <3> QED BY <1>1, <2>1, <2>3, <3>1 DEF Alive, HeldInMaking, AliveInv
  <2>4. destroyed' \subseteq 1..Len(made')
    BY <1>1, <2>1 DEF AliveInv
  <2>5. ASSUME NEW m \in 1..Len(made') PROVE m \in destroyed' <=> ~Alive(m)'
    BY <1>1, <2>1, <2>2, <2>3 DEF AliveInv
  <2> QED BY <2>1, <2>4, <2>5 DEF AliveInv
<1>4. CASE Track(t)
  <2>1. /\ UNCHANGED <<listing, destroyed, made>> /\ held' = held \union {making[t]}
        /\ making'[t] = 0
    BY <1>1, <1>4 DEF Track, TypeOK
  <2>2. ASSUME NEW m \in 1..Len(made) PROVE Alive(m)' <=> Alive(m)
    <3>1. (m \in held \/ \E u \in Threads : making[u] = m) <=>
          (m \in held' \/ \E u \in Threads : making'[u] = m)
      <4>1. m # 0
        OBVIOUS
      <4> QED BY <1>1, <2>1, <4>1
    <3> QED BY <2>1, <3>1 DEF Alive, HeldInMaking, HeldByListing
  <2> QED BY <1>1, <2>1, <2>2 DEF AliveInv
<1>5. CASE Collect(t)
  <2>1. UNCHANGED <<held, making, destroyed, made>>
    BY <1>5 DEF Collect, metricVars
  <2>2. CASE Alive(list[listing[t].at])
    <3> DEFINE x == list[listing[t].at]
    <3>1. /\ x \in Metrics
          /\ listing'[t].live = Append(listing[t].live, x)
          /\ listing[t].live \in Seq(Metrics)
      BY <1>1, <1>5, <2>2, CollectFacts DEF TypeOK, Listings
    <3>2. ToSet(listing'[t].live) = ToSet(listing[t].live) \union {x}
      BY <3>1, AppendFacts
    <3>3. ASSUME NEW m \in 1..Len(made) PROVE Alive(m)' <=> Alive(m)
      <4>1. CASE m = x
        <5>1. HeldByListing(m, Threads)'
          BY <3>2, <4>1 DEF HeldByListing
        <5> QED BY <2>2, <4>1, <5>1 DEF Alive
      <4>2. CASE m # x
        <5>1. \A u \in Threads : m \in ToSet(listing'[u].live) <=> m \in ToSet(listing[u].live)
          BY <1>1, <3>2, <4>2
        <5> QED BY <2>1, <5>1 DEF Alive, HeldInMaking, HeldByListing
      <4> QED BY <4>1, <4>2
    <3> QED BY <1>1, <2>1, <3>3 DEF AliveInv
  <2>3. CASE ~Alive(list[listing[t].at])
    <3>1. listing' = listing
      BY <1>5, <2>3 DEF Collect
    <3> QED BY <1>1, <2>1, <3>1, SameHolders
  <2> QED BY <2>2, <2>3
<1>6. CASE Return(t)
  <2>1. /\ UNCHANGED <<held, making, made>>
        /\ destroyed' = destroyed \union
             {m \in ToSet(listing[t].live) : m \notin held /\ ~KeptAlive(m, Threads \ {t})}
        /\ ToSet(listing'[t].live) = {}
    BY <1>1, <1>6, NoListingFacts DEF Return, TypeOK
  <2>2. ASSUME NEW m \in ToSet(listing[t].live) PROVE m \in 1..Len(made) /\ ~HeldInMaking(m)
    BY <1>1 DEF ListedInv, MakingInv, HeldInMaking
  <2>3. ASSUME NEW m \in 1..Len(made) PROVE m \in destroyed' <=> ~Alive(m)'
    <3>1. HeldByListing(m, Threads)' <=> HeldByListing(m, Threads \ {t})
      BY <1>1, <2>1 DEF HeldByListing
    <3>2. Alive(m)' <=> m \in held \/ HeldInMaking(m) \/ HeldByListing(m, Threads \ {t})
      BY <2>1, <3>1 DEF Alive, HeldInMaking
    <3>3. HeldByListing(m, Threads) <=>
            HeldByListing(m, Threads \ {t}) \/ m \in ToSet(listing[t].live)
      BY DEF HeldByListing
    <3>4. m \in destroyed <=>
            ~(m \in held \/ HeldInMaking(m) \/ HeldByListing(m, Threads))
      BY <1>1 DEF AliveInv, Alive
    <3> QED BY <2>1, <2>2, <3>2, <3>3, <3>4 DEF KeptAlive
  <2> QED BY <1>1, <2>1, <2>2, <2>3 DEF AliveInv
<1> QED BY <1>2, <1>3, <1>4, <1>5, <1>6 DEF ThreadStep

\* The program lets go of a metric: what it does to everything but the calls.
LEMMA DropStep ==
  ASSUME IInv, NEW x \in Metrics, Drop(x)
  PROVE  /\ MutexInv' /\ MakingInv' /\ ListedInv' /\ AliveInv'
         /\ destroyed \subseteq destroyed'
<1>1. /\ MutexInv /\ MakingInv /\ ListedInv /\ AliveInv
  BY DEF IInv
<1>2. /\ x \in held /\ held' = held \ {x}
      /\ destroyed' = IF HeldByListing(x, Threads) THEN destroyed ELSE destroyed \union {x}
      /\ UNCHANGED <<made, list, mutex, pc, making, listing>>
  BY DEF Drop, KeptAlive
<1>3. MutexInv' /\ MakingInv' /\ ListedInv'
  BY <1>1, <1>2 DEF MutexInv, MakingInv, ListedInv
<1>4. x \in 1..Len(made) /\ ~HeldInMaking(x)
  BY <1>1, <1>2 DEF MakingInv, ListedInv, HeldInMaking
<1>5. ASSUME NEW m \in 1..Len(made) PROVE m \in destroyed' <=> ~Alive(m)'
  <2>1. Alive(m)' <=> m \in held' \/ HeldInMaking(m) \/ HeldByListing(m, Threads)
    BY <1>2 DEF Alive, HeldInMaking, HeldByListing
  <2>2. m \in destroyed <=> ~(m \in held \/ HeldInMaking(m) \/ HeldByListing(m, Threads))
    BY <1>1 DEF AliveInv, Alive
  <2> QED BY <1>2, <1>4, <2>1, <2>2
<1> QED BY <1>1, <1>2, <1>3, <1>4, <1>5 DEF AliveInv

----------------------------------------------------------------------------
(* The calls of metrics().                                                 *)

\* A listing that does not move loses nothing it may rely on: only its own
\* thread changes the list under it, and what is added later lives.
LEMMA CallFrame ==
  ASSUME NEW u \in Threads, CallInv(u), Kept(u), destroyed \subseteq destroyed',
         \/ list' = list
         \/ /\ pc[u] \notin {"collect", "erase"}
            /\ \A m \in ToSet(list') : m \in ToSet(list) \/ m \notin destroyed
  PROVE  CallInv(u)'
<1>1. /\ pc'[u] = pc[u] /\ listing'[u] = listing[u]
  BY DEF Kept
<1>2. pc[u] \in {"collect", "erase"} => list' = list
  OBVIOUS
<1>3. /\ Told(u)' = Told(u)
      /\ pc[u] \in {"collect", "erase"} => Passed(u)' = Passed(u) /\ Ahead(u)' = Ahead(u)
  BY <1>1, <1>2 DEF Told, Passed, Ahead
<1>4. pc[u] \in {"describe", "listed"} => listing[u].gone \cap ToSet(list') = {}
  BY DEF CallInv
<1>5. pc'[u] \in {"collect", "erase"} =>
        /\ listing'[u].at \in 1..(Len(list') + 1)
        /\ listing'[u].gone \cap Passed(u)' = {}
        /\ listing'[u].known \subseteq destroyed' \union ToSet(listing'[u].live) \union Ahead(u)'
  BY <1>1, <1>2, <1>3 DEF CallInv
<1>6. pc'[u] = "erase" =>
        /\ listing'[u].at \in 1..Len(list')
        /\ list'[listing'[u].at] \in destroyed'
  BY <1>1, <1>2 DEF CallInv
<1>7. pc'[u] \in {"describe", "listed"} =>
        /\ listing'[u].at \in 1..(Len(listing'[u].live) + 1)
        /\ listing'[u].gone \cap ToSet(list') = {}
        /\ listing'[u].known \subseteq destroyed' \union ToSet(listing'[u].live)
        /\ Told(u)' \subseteq {i.metric : i \in listing'[u].out}
  BY <1>1, <1>3, <1>4 DEF CallInv
<1>8. /\ pc'[u] \in {"idle", "register", "track"} => listing'[u] = NoListing
      /\ listing'[u].gone \subseteq destroyed'
      /\ pc'[u] = "describe" =>
           listing'[u].unread # {} /\ listing'[u].at <= Len(listing'[u].live)
      /\ pc'[u] = "listed" => listing'[u].at = Len(listing'[u].live) + 1
  BY <1>1 DEF CallInv
<1> QED BY <1>5, <1>6, <1>7, <1>8 DEF CallInv

\* A thread that lists nothing.
LEMMA NoCall ==
  ASSUME NEW t \in Threads, pc'[t] \in {"idle", "register", "track"},
         listing'[t] = NoListing
  PROVE  CallInv(t)'
BY NoListingFacts DEF CallInv

\* Going through the list: what is behind is not gone, and what was known is
\* collected, ahead, or gone.
LEMMA CollectCall ==
  ASSUME IInv, NEW t \in Threads, Collect(t)
  PROVE  CallInv(t)'
<1>1. /\ TypeOK /\ MakingInv /\ ListedInv /\ AliveInv /\ CallInv(t)
      /\ list \in Seq(Metrics) /\ Len(list) \in Nat /\ listing[t] \in Listings
  BY Facts DEF TypeOK
<1>2. /\ pc[t] = "collect" /\ listing[t].at \in 1..Len(list)
      /\ UNCHANGED <<destroyed, list>>
  BY <1>1 DEF Collect, CallInv, metricVars
<1> DEFINE m == list[listing[t].at]
<1>3. m \in ToSet(list) /\ m \in 1..Len(made)
  BY <1>1, <1>2 DEF MakingInv, ToSet
<1>4. CASE Alive(m)
  <2>1. /\ pc'[t] = "collect" /\ listing'[t].at = listing[t].at + 1
        /\ listing'[t].live = Append(listing[t].live, m) /\ m \in Metrics
        /\ listing'[t].known = listing[t].known /\ listing'[t].gone = listing[t].gone
    BY <1>1, <1>4, CollectFacts
  <2>2. ToSet(listing'[t].live) = ToSet(listing[t].live) \union {m}
    BY <1>1, <2>1, AppendFacts DEF Listings
  <2>3. m \notin destroyed
    BY <1>1, <1>3, <1>4 DEF AliveInv
  <2>4. Passed(t)' = Passed(t) \union {m}
    <3>1. Passed(t)' = {list[i] : i \in 1..listing[t].at}
      BY <1>1, <1>2, <2>1 DEF Passed
    <3>2. 1..listing[t].at = (1..(listing[t].at - 1)) \union {listing[t].at}
      BY <1>1, <1>2
    <3> QED BY <3>1, <3>2 DEF Passed
  <2>5. Ahead(t) = Ahead(t)' \union {m}
    BY <1>1, <1>2, <2>1 DEF Ahead
  <2>6. listing[t].gone \subseteq destroyed /\ listing[t].gone \cap Passed(t) = {}
    BY <1>1, <1>2 DEF CallInv
  <2>7. listing[t].known \subseteq destroyed \union ToSet(listing[t].live) \union Ahead(t)
    BY <1>1, <1>2 DEF CallInv
  <2>8. listing'[t].at \in 1..(Len(list') + 1)
    BY <1>1, <1>2, <2>1
  <2>9. listing'[t].gone \cap Passed(t)' = {}
    BY <2>1, <2>3, <2>4, <2>6
  <2>10. listing'[t].known \subseteq destroyed' \union ToSet(listing'[t].live) \union Ahead(t)'
    BY <1>2, <2>1, <2>2, <2>5, <2>7
  <2> HIDE DEF m
  <2> QED BY <1>2, <2>1, <2>6, <2>8, <2>9, <2>10 DEF CallInv
<1>5. CASE ~Alive(m)
  <2>1. pc'[t] = "erase" /\ listing' = listing
    BY <1>1, <1>5 DEF Collect, Goto, TypeOK
  <2>2. m \in destroyed
    BY <1>1, <1>3, <1>5 DEF AliveInv
  <2>3. Passed(t)' = Passed(t) /\ Ahead(t)' = Ahead(t)
    BY <1>2, <2>1 DEF Passed, Ahead
  <2> QED BY <1>1, <1>2, <2>1, <2>2, <2>3 DEF CallInv
<1> QED BY <1>4, <1>5

\* Erasing: the reference taken out was to a core that is gone.
LEMMA EraseCall ==
  ASSUME IInv, NEW t \in Threads, Erase(t)
  PROVE  CallInv(t)'
<1> DEFINE at == listing[t].at
<1>1. /\ TypeOK /\ CallInv(t) /\ list \in Seq(Metrics) /\ Len(list) \in Nat
  BY Facts DEF TypeOK
<1>2. /\ pc[t] = "erase" /\ pc'[t] = "collect" /\ listing' = listing
      /\ at \in 1..Len(list) /\ Len(list') = Len(list) - 1
      /\ \A j \in 1..(Len(list) - 1) :
           list'[j] = IF j < at THEN list[j] ELSE list[j + 1]
      /\ destroyed' = destroyed
  BY <1>1, EraseFacts DEF Erase, metricVars
<1>3. Passed(t)' = Passed(t)
  <2>1. \A j \in 1..(at - 1) : list'[j] = list[j]
    BY <1>1, <1>2
  <2> QED BY <1>2, <2>1 DEF Passed
<1>4. Ahead(t) \subseteq Ahead(t)' \union {list[at]}
  <2>1. ASSUME NEW j \in at..Len(list), j # at
        PROVE  j - 1 \in at..Len(list') /\ list'[j - 1] = list[j]
    <3>1. j - 1 \in 1..(Len(list) - 1) /\ ~(j - 1 < at) /\ (j - 1) + 1 = j
      BY <1>1, <1>2, <2>1
    <3> QED BY <1>1, <1>2, <3>1
  <2> QED BY <1>2, <2>1 DEF Ahead
<1>5. list[at] \in destroyed
  BY <1>1, <1>2 DEF CallInv
<1>6. listing[t].known \subseteq destroyed \union ToSet(listing[t].live) \union Ahead(t)
      /\ listing[t].gone \cap Passed(t) = {} /\ listing[t].gone \subseteq destroyed
  BY <1>1, <1>2 DEF CallInv
<1>7. listing'[t].at \in 1..(Len(list') + 1)
  BY <1>1, <1>2
<1>8. listing'[t].known \subseteq destroyed' \union ToSet(listing'[t].live) \union Ahead(t)'
  BY <1>2, <1>4, <1>5, <1>6
<1>9. listing'[t].gone \cap Passed(t)' = {} /\ listing'[t].gone \subseteq destroyed'
  BY <1>2, <1>3, <1>6
<1> QED BY <1>2, <1>7, <1>8, <1>9 DEF CallInv

\* The list is done: nothing that was gone is in it, and what was known is
\* collected or gone.
LEMMA CollectedCall ==
  ASSUME IInv, NEW t \in Threads, Collected(t)
  PROVE  CallInv(t)'
<1>1. /\ TypeOK /\ CallInv(t) /\ list \in Seq(Metrics) /\ Len(list) \in Nat
      /\ DOMAIN list = 1..Len(list)
      /\ listing[t].live \in Seq(Metrics) /\ Len(listing[t].live) \in Nat
      /\ (listing[t].live = <<>> <=> Len(listing[t].live) = 0)
  BY Facts DEF TypeOK, Listings
<1>2. /\ pc[t] = "collect" /\ listing[t].at > Len(list)
      /\ pc'[t] = (IF listing[t].live = <<>> THEN "listed" ELSE "describe")
      /\ listing'[t].at = 1
      /\ listing'[t].unread = (IF listing[t].live = <<>> THEN {} ELSE Described)
      /\ listing'[t].live = listing[t].live
      /\ listing'[t].known = listing[t].known /\ listing'[t].gone = listing[t].gone
      /\ UNCHANGED <<list, destroyed>>
  BY <1>1, CollectedFacts DEF Collected, metricVars
<1>3. listing[t].at = Len(list) + 1
  BY <1>1, <1>2 DEF CallInv
<1>4. Passed(t) = ToSet(list) /\ Ahead(t) = {}
  BY <1>1, <1>3 DEF Passed, Ahead, ToSet
<1>5. /\ listing'[t].gone \cap ToSet(list') = {} /\ listing'[t].gone \subseteq destroyed'
      /\ listing'[t].known \subseteq destroyed' \union ToSet(listing'[t].live)
  BY <1>1, <1>2, <1>4 DEF CallInv
<1>6. Told(t)' = {}
  BY <1>2 DEF Told
<1>7. listing'[t].at \in 1..(Len(listing'[t].live) + 1)
  BY <1>1, <1>2
<1>8. pc'[t] = "listed" => listing'[t].at = Len(listing'[t].live) + 1
  BY <1>1, <1>2
<1>9. pc'[t] = "describe" =>
        listing'[t].unread # {} /\ listing'[t].at <= Len(listing'[t].live)
  BY <1>1, <1>2, DescribedFacts
<1> QED BY <1>2, <1>5, <1>6, <1>7, <1>8, <1>9 DEF CallInv

\* Describing: what is behind is in the result.
LEMMA DescribeCall ==
  ASSUME IInv, NEW t \in Threads, Describe(t)
  PROVE  CallInv(t)'
<1> DEFINE at == listing[t].at
<1>1. /\ TypeOK /\ CallInv(t) /\ listing[t].live \in Seq(Metrics)
      /\ Len(listing[t].live) \in Nat /\ pc[t] = "describe"
      /\ at \in 1..Len(listing[t].live)
      /\ UNCHANGED <<list, destroyed>>
  <2>1. TypeOK /\ CallInv(t)
    BY Facts
  <2>2. pc[t] = "describe" /\ UNCHANGED <<list, destroyed>>
    BY DEF Describe, metricVars
  <2>3. listing[t].live \in Seq(Metrics) /\ Len(listing[t].live) \in Nat
    BY <2>1 DEF TypeOK, Listings
  <2> QED BY <2>1, <2>2, <2>3, CoreFacts
<1>2. /\ pc'[t] = (IF listing'[t].unread = {} THEN "listed" ELSE "describe")
      /\ listing'[t].live = listing[t].live
      /\ listing'[t].known = listing[t].known /\ listing'[t].gone = listing[t].gone
  BY <1>1, DescribeFacts
<1>3. PICK s \in listing[t].unread, view \in Views :
        \/ /\ listing[t].unread # {s} /\ listing'[t].unread = listing[t].unread \ {s}
           /\ listing'[t].at = at /\ listing'[t].out = listing[t].out
        \/ /\ listing[t].unread = {s} /\ listing'[t].at = at + 1
           /\ listing'[t].unread = IF listing'[t].at <= Len(listing[t].live) THEN Described
                                                                            ELSE {}
           /\ listing'[t].out = listing[t].out \union
                {[metric |-> listing[t].live[at], view |-> view]}
  BY <1>1, DescribeFacts
<1>4. /\ listing'[t].gone \cap ToSet(list') = {} /\ listing'[t].gone \subseteq destroyed'
      /\ listing'[t].known \subseteq destroyed' \union ToSet(listing'[t].live)
      /\ Told(t) \subseteq {i.metric : i \in listing[t].out}
  BY <1>1, <1>2 DEF CallInv
<1>5. CASE /\ listing[t].unread # {s} /\ listing'[t].unread = listing[t].unread \ {s}
           /\ listing'[t].at = at /\ listing'[t].out = listing[t].out
  <2>1. listing'[t].unread # {}
    BY <1>3, <1>5
  <2>2. Told(t)' \subseteq {i.metric : i \in listing'[t].out}
    BY <1>2, <1>4, <1>5 DEF Told
  <2>3. /\ listing'[t].at \in 1..(Len(listing'[t].live) + 1)
        /\ listing'[t].at <= Len(listing'[t].live)
    BY <1>1, <1>2, <1>5
  <2>4. pc'[t] = "describe"
    BY <1>2, <2>1
  <2> QED BY <1>4, <2>1, <2>2, <2>3, <2>4 DEF CallInv
<1>6. CASE /\ listing[t].unread = {s} /\ listing'[t].at = at + 1
           /\ listing'[t].unread = IF listing'[t].at <= Len(listing[t].live) THEN Described
                                                                            ELSE {}
           /\ listing'[t].out = listing[t].out \union
                {[metric |-> listing[t].live[at], view |-> view]}
  <2>1. listing'[t].at \in 1..(Len(listing'[t].live) + 1)
    BY <1>1, <1>2, <1>6
  <2>2. Told(t)' \subseteq {i.metric : i \in listing'[t].out}
    <3>1. Told(t)' = {listing[t].live[i] : i \in 1..at}
      BY <1>1, <1>2, <1>6 DEF Told
    <3>2. 1..at = (1..(at - 1)) \union {at}
      BY <1>1
    <3>3. Told(t)' = Told(t) \union {listing[t].live[at]}
      BY <3>1, <3>2 DEF Told
    <3>4. PICK r : r = [metric |-> listing[t].live[at], view |-> view]
      OBVIOUS
    <3>5. r.metric = listing[t].live[at]
      BY <3>4
    <3>6. listing'[t].out = listing[t].out \union {r}
      BY <1>6, <3>4
    <3> QED BY <1>4, <3>3, <3>5, <3>6
  <2>3. listing'[t].unread = IF listing'[t].at <= Len(listing[t].live) THEN Described ELSE {}
    BY <1>6
  <2>4. pc'[t] = "describe" =>
          listing'[t].unread # {} /\ listing'[t].at <= Len(listing'[t].live)
    BY <1>2, <2>3
  <2>5. pc'[t] = "listed" => listing'[t].at = Len(listing'[t].live) + 1
    BY <1>1, <1>2, <1>6, <2>3, DescribedFacts
  <2> QED BY <1>2, <1>4, <2>1, <2>2, <2>4, <2>5 DEF CallInv
<1> QED BY <1>3, <1>5, <1>6

\* At first everything known is ahead.
LEMMA BeginCall ==
  ASSUME IInv, NEW t \in Threads, BeginListing(t)
  PROVE  CallInv(t)'
<1>1. /\ TypeOK /\ ListedInv /\ list \in Seq(Metrics) /\ Len(list) \in Nat
      /\ DOMAIN list = 1..Len(list)
  BY Facts DEF TypeOK
<1>2. /\ pc'[t] = "collect" /\ listing'[t] = Fresh
      /\ UNCHANGED <<list, destroyed, held>>
  BY <1>1 DEF BeginListing, Fresh, Goto, TypeOK, metricVars
<1>3. /\ listing'[t].at = 1 /\ listing'[t].known = held /\ listing'[t].gone = destroyed
  BY <1>1, <1>2, FreshFacts
<1>4. Passed(t)' = {} /\ Ahead(t)' = ToSet(list)
  BY <1>1, <1>2, <1>3 DEF Passed, Ahead, ToSet
<1> QED BY <1>1, <1>2, <1>3, <1>4 DEF CallInv, ListedInv

\* Every step of a thread keeps what is known of its own call.
LEMMA CallStep ==
  ASSUME IInv, NEW t \in Threads, ThreadStep(t)
  PROVE  CallInv(t)'
<1>1. TypeOK /\ CallInv(t)
  BY Facts
<1>2. CASE Refuse(t) \/ Make(t) \/ Register(t) \/ Track(t)
  <2>1. pc[t] \in {"idle", "register", "track"} /\ listing' = listing
        /\ pc'[t] \in {"idle", "register", "track"}
    BY <1>1, <1>2 DEF Refuse, Make, AfterMake, Register, Track, Goto, TypeOK
  <2> QED BY <1>1, <2>1, NoCall DEF CallInv
<1>3. CASE Return(t)
  <2>1. pc'[t] = "idle" /\ listing'[t] = NoListing
    BY <1>1, <1>3 DEF Return, Goto, TypeOK
  <2> QED BY <2>1, NoCall
<1> QED BY <1>2, <1>3, CollectCall, EraseCall, CollectedCall, DescribeCall, BeginCall
        DEF ThreadStep

\* What a listing has read stays as new as it was.
LEMMA ViewFrame ==
  ASSUME TypeOK, DecoTypeOK', NEW u \in Threads, ViewInv(u), Kept(u),
         \A s \in Slots : decoDone[s] <= decoDone'[s]
  PROVE  ViewInv(u)'
<1>1. pc'[u] = pc[u] /\ listing'[u] = listing[u]
  BY DEF Kept
<1>2. ASSUME NEW s \in Described PROVE listing'[u].floor[s] <= decoDone'[s]
  <2>1. listing[u].floor[s] \in Nat /\ decoDone[s] \in Nat /\ decoDone'[s] \in Nat
        /\ decoDone[s] <= decoDone'[s]
    BY DescribedFacts DEF TypeOK, DecoTypeOK, Listings, Views
  <2> QED BY <1>1, <2>1 DEF ViewInv
<1> QED BY <1>1, <1>2 DEF ViewInv

\* Every slot is read after the call began, when it was complete already.
LEMMA ViewStep ==
  ASSUME IInv, NEW t \in Threads, ThreadStep(t)
  PROVE  ViewInv(t)'
<1>1. /\ TypeOK /\ DecoInv /\ CallInv(t) /\ ViewInv(t) /\ listing[t] \in Listings
      /\ decoDone \in [Slots -> Nat] /\ config \in [Slots -> Nat]
  BY Facts DEF TypeOK, DecoTypeOK
<1>2. UNCHANGED decoDone
  BY DEF ThreadStep, Refuse, Make, Register, Track, BeginListing, Collect, Erase,
     Collected, Describe, Return, decoVars
<1>3. CASE Refuse(t) \/ Make(t) \/ Register(t) \/ Track(t) \/ Erase(t)
  <2>1. listing' = listing /\ pc'[t] # "describe"
    <3>1. CASE Erase(t)
      BY <1>1, <3>1, EraseFacts
    <3>2. CASE ~Erase(t)
      BY <1>1, <1>3, <3>2 DEF Refuse, Make, AfterMake, Register, Track, Goto, TypeOK
    <3> QED BY <3>1, <3>2
  <2> QED BY <1>1, <1>2, <2>1 DEF ViewInv
<1>4. CASE BeginListing(t) \/ Return(t)
  <2>1. /\ pc'[t] # "describe" /\ listing'[t].out = {}
        /\ \A s \in Described : listing'[t].floor[s] <= decoDone[s]
    <3>1. CASE BeginListing(t)
      <4>1. pc'[t] = "collect" /\ listing'[t] = Fresh
        BY <1>1, <3>1 DEF BeginListing, Fresh, Goto, TypeOK
      <4> QED BY <1>1, <4>1, FreshFacts, DescribedFacts
    <3>2. CASE Return(t)
      <4>1. pc'[t] = "idle" /\ listing'[t] = NoListing
        BY <1>1, <3>2 DEF Return, Goto, TypeOK
      <4> QED BY <1>1, <4>1, NoListingFacts, DescribedFacts DEF Blank
    <3> QED BY <1>4, <3>1, <3>2
  <2> QED BY <1>2, <2>1 DEF ViewInv
<1>5. CASE Collect(t)
  <2>1. /\ pc'[t] # "describe" /\ listing'[t].out = listing[t].out
        /\ listing'[t].floor = listing[t].floor
    <3>1. CASE Alive(list[listing[t].at])
      BY <1>1, <1>5, <3>1, CollectFacts
    <3>2. CASE ~Alive(list[listing[t].at])
      BY <1>1, <1>5, <3>2 DEF Collect, Goto, TypeOK
    <3> QED BY <3>1, <3>2
  <2> QED BY <1>1, <1>2, <2>1 DEF ViewInv
<1>6. CASE Collected(t)
  <2>1. /\ pc'[t] = "describe" => listing'[t].unread = Described
        /\ listing'[t].out = listing[t].out /\ listing'[t].floor = listing[t].floor
    BY <1>1, <1>6, CollectedFacts
  <2> QED BY <1>1, <1>2, <2>1 DEF ViewInv
<1>7. CASE Describe(t)
  <2>1. pc[t] = "describe" /\ listing'[t].floor = listing[t].floor
    BY <1>1, <1>7, DescribeFacts DEF Describe
  <2>2. PICK s \in listing[t].unread, view \in Views :
          /\ view = [listing[t].view EXCEPT ![s] = config[s]]
          /\ \/ /\ listing'[t].unread = listing[t].unread \ {s}
                /\ listing'[t].view = view /\ listing'[t].out = listing[t].out
             \/ /\ listing[t].unread = {s}
                /\ listing'[t].unread \in {Described, {}}
                /\ pc'[t] = (IF listing'[t].unread = {} THEN "listed" ELSE "describe")
                /\ listing'[t].out = listing[t].out \union
                     {[metric |-> listing[t].live[listing[t].at], view |-> view]}
    BY <1>1, <1>7, DescribeFacts
  <2>3. ASSUME NEW r \in Described, r \notin listing[t].unread \ {s}
        PROVE  listing[t].floor[r] <= view[r]
    <3>1. /\ listing[t].floor[r] \in Nat /\ listing[t].view \in [Described -> Nat]
          /\ r \in Slots /\ decoDone[r] \in Nat /\ config[r] \in Nat
      BY <1>1, DescribedFacts DEF Listings, Views
    <3>2. CASE r = s
      <4>1. view[r] = config[r]
        BY <2>2, <3>1, <3>2
      <4>2. listing[t].floor[r] <= decoDone[r] /\ decoDone[r] <= config[r]
        BY <1>1, <3>1 DEF ViewInv, DecoInv
      <4> QED BY <3>1, <4>1, <4>2
    <3>3. CASE r # s
      <4>1. view[r] = listing[t].view[r]
        BY <2>2, <3>1, <3>3
      <4>2. r \notin listing[t].unread
        BY <2>3, <3>3
      <4> QED BY <1>1, <2>1, <4>1, <4>2 DEF ViewInv
    <3> QED BY <3>2, <3>3
  <2>4. ASSUME NEW r \in Described
        PROVE  /\ listing'[t].floor[r] <= decoDone'[r]
               /\ pc'[t] = "describe" /\ r \notin listing'[t].unread =>
                    listing'[t].floor[r] <= listing'[t].view[r]
               /\ \A i \in listing'[t].out : listing'[t].floor[r] <= i.view[r]
    <3>1. listing'[t].floor[r] <= decoDone'[r]
      BY <1>1, <1>2, <2>1 DEF ViewInv
    <3>2. \A i \in listing[t].out : listing[t].floor[r] <= i.view[r]
      BY <1>1 DEF ViewInv
    <3>3. CASE /\ listing'[t].unread = listing[t].unread \ {s}
               /\ listing'[t].view = view /\ listing'[t].out = listing[t].out
      BY <2>1, <2>3, <3>1, <3>2, <3>3
    <3>4. CASE /\ listing[t].unread = {s}
               /\ listing'[t].unread \in {Described, {}}
               /\ pc'[t] = (IF listing'[t].unread = {} THEN "listed" ELSE "describe")
               /\ listing'[t].out = listing[t].out \union
                     {[metric |-> listing[t].live[listing[t].at], view |-> view]}
      <4>1. listing[t].floor[r] <= view[r]
        BY <2>3, <3>4
      <4>2. PICK x : x = [metric |-> listing[t].live[listing[t].at], view |-> view]
        OBVIOUS
      <4>3. x.view = view
        BY <4>2
      <4>4. \A i \in listing'[t].out : i \in listing[t].out \/ i = x
        BY <3>4, <4>2
      <4>5. \A i \in listing'[t].out : listing'[t].floor[r] <= i.view[r]
        BY <2>1, <3>2, <4>1, <4>3, <4>4
      <4>6. pc'[t] = "describe" => r \in listing'[t].unread
        BY <3>4
      <4> QED BY <3>1, <4>5, <4>6
    <3> QED BY <2>2, <3>3, <3>4
  <2> QED BY <2>4 DEF ViewInv
<1> QED BY <1>3, <1>4, <1>5, <1>6, <1>7 DEF ThreadStep

----------------------------------------------------------------------------
(* The inductive invariant.                                                *)

\* The inductive invariant holds initially.
LEMMA InvInit == Init => IInv
<1> SUFFICES ASSUME Init PROVE IInv
    OBVIOUS
<1>1. TypeOK
  <2>1. DecoTypeOK
    BY DEF Init, DecoInit, DecoTypeOK
  <2>2. list \in Seq(Metrics) /\ IsInjective(list)
    BY DEF Init, IsInjective
  <2>3. Len(made) <= MaxMetrics
    BY EnumerationAssumption DEF Init
  <2>4. listing \in [Threads -> Listings] /\ making \in [Threads -> 0..MaxMetrics]
    BY NoListingFacts, EnumerationAssumption DEF Init
  <2> QED BY <2>1, <2>2, <2>3, <2>4 DEF Init, TypeOK
<1>2. DecoInv
  BY DEF Init, DecoInit, DecoInv, Slots
<1>3. ToSet(list) = {} /\ Len(made) = 0 /\ 1..Len(made) = {}
      /\ made \in Seq({Filled(spec) : spec \in Specs})
  BY DEF Init, ToSet
<1>4. ToSet(<<>>) = {}
  BY DEF ToSet
<1>5. MutexInv /\ MakingInv /\ ListedInv /\ AliveInv
  BY <1>3, <1>4, NoListingFacts DEF Init, MutexInv, MakingInv, ListedInv, AliveInv
<1>6. \A t \in Threads : CallInv(t)
  BY NoListingFacts DEF Init, CallInv
<1>7. \A t \in Threads : ViewInv(t)
  BY NoListingFacts, DescribedFacts DEF Init, DecoInit, ViewInv, Blank
<1> QED BY <1>1, <1>2, <1>5, <1>6, <1>7 DEF IInv

\* Every step keeps the inductive invariant.
LEMMA InvStep == IInv /\ [Next]_vars => IInv'
<1> SUFFICES ASSUME IInv, [Next]_vars PROVE IInv'
    OBVIOUS
<1>1. TypeOK /\ DecoTypeOK /\ DecoInv /\ TypeOK' /\ DecoTypeOK'
  BY TypeStep DEF IInv, TypeOK
<1>2. \A t \in Threads : CallInv(t) /\ ViewInv(t)
  BY DEF IInv
<1>3. CASE Redecorate \/ UNCHANGED vars
  <2>1. /\ UNCHANGED <<metricVars, list, mutex, pc, making, listing>>
        /\ DecoNext \/ UNCHANGED decoVars
    BY <1>3 DEF Redecorate, vars
  <2>2. DecoInv' /\ \A s \in Slots : decoDone[s] <= decoDone'[s]
    BY <1>1, <2>1, DecoStep
  <2>3. MutexInv' /\ MakingInv' /\ ListedInv'
    BY <2>1 DEF IInv, metricVars, MutexInv, MakingInv, ListedInv
  <2>4. AliveInv'
    BY <2>1, SameHolders DEF IInv, metricVars
  <2>5. \A t \in Threads : Kept(t)
    BY <2>1 DEF Kept
  <2>6. \A t \in Threads : CallInv(t)' /\ ViewInv(t)'
    BY <1>1, <1>2, <2>1, <2>2, <2>5, CallFrame, ViewFrame DEF metricVars
  <2> QED BY <1>1, <2>2, <2>3, <2>4, <2>6 DEF IInv
<1>4. ASSUME NEW m \in Metrics, Drop(m) PROVE IInv'
  <2>1. /\ MutexInv' /\ MakingInv' /\ ListedInv' /\ AliveInv'
        /\ destroyed \subseteq destroyed'
    BY <1>4, DropStep
  <2>2. UNCHANGED <<decoVars, list, pc, making, listing>>
    BY <1>4 DEF Drop
  <2>3. DecoInv' /\ \A s \in Slots : decoDone[s] <= decoDone'[s]
    BY <1>1, <2>2, DecoStep
  <2>4. \A t \in Threads : Kept(t)
    BY <2>2 DEF Kept
  <2>5. \A t \in Threads : CallInv(t)' /\ ViewInv(t)'
    BY <1>1, <1>2, <2>1, <2>2, <2>3, <2>4, CallFrame, ViewFrame
  <2> QED BY <1>1, <2>1, <2>3, <2>5 DEF IInv
<1>5. ASSUME NEW t \in Threads, ThreadStep(t) PROVE IInv'
  <2>1. /\ MutexInv' /\ MakingInv' /\ ListedInv' /\ AliveInv'
        /\ destroyed \subseteq destroyed'
    BY <1>5, MutexStep, MakingStep, ListedStep, AliveStep
  <2>2. UNCHANGED decoVars
    BY <1>5 DEF ThreadStep, Refuse, Make, Register, Track, BeginListing, Collect, Erase,
       Collected, Describe, Return
  <2>3. DecoInv' /\ \A s \in Slots : decoDone[s] <= decoDone'[s]
    BY <1>1, <2>2, DecoStep
  <2>4. ASSUME NEW u \in Threads, u # t PROVE CallInv(u)' /\ ViewInv(u)'
    <3>1. Kept(u)
      BY <1>1, <1>5, <2>4, OnlyOwnLocals
    <3>2. \/ list' = list
          \/ /\ pc[u] \notin {"collect", "erase"}
             /\ \A m \in ToSet(list') : m \in ToSet(list) \/ m \notin destroyed
      <4>1. CASE Track(t)
        <5>1. pc[u] \notin {"collect", "erase"}
          BY <4>1, Facts DEF Track, MutexFree, MutexInv
        <5>2. /\ list \in Seq(Metrics) /\ making[t] \in Metrics /\ making[t] \in 1..Len(made)
              /\ list' = Append(list, making[t])
          <6>1. pc[t] = "track" /\ list' = Append(list, making[t])
            BY <4>1 DEF Track
          <6>2. MakingInv /\ Len(made) \in Nat
            BY Facts
          <6>3. making[t] \in 0..Len(made) /\ making[t] # 0
            BY <6>1, <6>2 DEF MakingInv
          <6>4. making[t] \in 0..MaxMetrics /\ list \in Seq(Metrics)
            BY <1>1 DEF TypeOK
          <6> QED BY <6>1, <6>2, <6>3, <6>4, EnumerationAssumption DEF Metrics
        <5>3. ToSet(list') = ToSet(list) \union {making[t]}
          BY <5>2, AppendFacts
        <5>4. making[t] \notin destroyed
          BY <5>2, Facts DEF AliveInv, Alive, HeldInMaking
        <5> QED BY <5>1, <5>3, <5>4
      <4>2. CASE Erase(t)
        <5>1. t \in mutex /\ u \notin mutex
          BY <1>1, <2>4, <4>2, Facts DEF Erase, MutexInv, TypeOK
        <5>2. ToSet(list') \subseteq ToSet(list)
          BY <1>1, <1>2, <4>2, EraseFacts
        <5> QED BY <5>1, <5>2, Facts DEF MutexInv
      <4>3. CASE ~Track(t) /\ ~Erase(t)
        BY <1>5, <4>3 DEF ThreadStep, Refuse, Make, Register, BeginListing, Collect,
           Collected, Describe, Return
      <4> QED BY <4>1, <4>2, <4>3
    <3> QED BY <1>1, <1>2, <2>1, <2>3, <3>1, <3>2, CallFrame, ViewFrame
  <2>5. CallInv(t)' /\ ViewInv(t)'
    BY <1>5, CallStep, ViewStep
  <2> QED BY <1>1, <2>1, <2>3, <2>4, <2>5 DEF IInv
<1> QED BY <1>3, <1>4, <1>5 DEF Next, ThreadStep

----------------------------------------------------------------------------
(* What the factories refuse.                                              *)

\* A set of naturals that is not empty has a least element: what an induction
\* over a list rests on.
LEMMA LeastElement ==
  ASSUME NEW T \in SUBSET Nat, T # {}
  PROVE  \E x \in T : \A y \in T : ~(y < x)
<1> DEFINE R == OpToRel(<, Nat)
<1>1. IsWellFoundedOn(R, Nat)
  BY NatLessThanWellFounded
<1>2. \A x, y \in Nat : y < x => <<y, x>> \in R
  BY DEF OpToRel
<1> HIDE DEF R
<1>3. \E x \in T : \A y \in T : ~(<<y, x>> \in R)
  BY <1>1, WFMin
<1> QED BY <1>2, <1>3

\* A list in which each bound exceeds the one before it increases: the pairwise
\* check of validate_buckets is enough.
LEMMA PairwiseIncreasing ==
  ASSUME NEW b \in Seq(Int)
  PROVE  (\A i \in 1..Len(b) : ~OutOfOrder(b, i)) <=> StrictlyIncreasing(b)
<1>1. ASSUME \A i \in 1..Len(b) : ~OutOfOrder(b, i)
      PROVE  StrictlyIncreasing(b)
  <2> SUFFICES ASSUME NEW i \in 1..Len(b), NEW j \in 1..Len(b), i < j, ~(b[i] < b[j])
               PROVE  FALSE
    BY DEF StrictlyIncreasing
  <2> DEFINE T == {k \in Nat : k \in 1..Len(b) /\ i < k /\ ~(b[i] < b[k])}
  <2>1. T \in SUBSET Nat /\ j \in T
    OBVIOUS
  <2>2. PICK k \in T : \A l \in T : ~(l < k)
    BY <2>1, LeastElement
  <2>3. k \in 1..Len(b) /\ i < k /\ ~(b[i] < b[k])
    BY <2>2
  <2>4. b[k] \in Int /\ b[k - 1] \in Int /\ b[i] \in Int /\ ~OutOfOrder(b, k)
    BY <1>1, <2>3
  <2>5. b[k - 1] < b[k]
    BY <2>3, <2>4 DEF OutOfOrder
  <2>6. CASE k - 1 = i
    BY <2>3, <2>5, <2>6
  <2>7. CASE k - 1 > i
    <3>1. k - 1 \notin T
      BY <2>2, <2>3
    <3> QED BY <2>3, <2>4, <2>5, <2>7, <3>1
  <2> QED BY <2>3, <2>6, <2>7
<1>2. ASSUME StrictlyIncreasing(b), NEW i \in 1..Len(b)
      PROVE  ~OutOfOrder(b, i)
  <2> SUFFICES ASSUME i > 1 PROVE ~(b[i] <= b[i - 1])
    BY DEF OutOfOrder
  <2>1. b[i] \in Int /\ b[i - 1] \in Int /\ i - 1 \in 1..Len(b) /\ i - 1 < i
    OBVIOUS
  <2>2. b[i - 1] < b[i]
    BY <1>2, <2>1 DEF StrictlyIncreasing
  <2> QED BY <2>1, <2>2
<1> QED BY <1>1, <1>2

\* validate_buckets accepts the finite lists that increase and are not empty.
LEMMA BucketsExact ==
  ASSUME NEW b \in Seq(Int)
  PROVE  ValidateBuckets(b) <=>
           b # <<>> /\ (\A x \in ToSet(b) : Finite(x)) /\ StrictlyIncreasing(b)
<1>1. DOMAIN b = 1..Len(b)
  OBVIOUS
<1>2. (\A i \in 1..Len(b) : Finite(b[i])) <=> \A x \in ToSet(b) : Finite(x)
  BY <1>1 DEF ToSet
<1> QED BY <1>2, PairwiseIncreasing DEF ValidateBuckets

\* validate_quantiles accepts the lists within (0, 1).
LEMMA QuantilesExact ==
  ASSUME NEW q \in Seq(Int)
  PROVE  ValidateQuantiles(q) <=> ToSet(q) \subseteq 1..(One - 1)
<1>1. DOMAIN q = 1..Len(q) /\ \A i \in 1..Len(q) : q[i] \in Int
  OBVIOUS
<1>2. \A x \in Int : Finite(x) /\ 0 < x /\ x < One <=> x \in 1..(One - 1)
  BY DEF Finite, One, NaN, PosInf, NegInf
<1>3. ValidateQuantiles(q) <=> \A i \in 1..Len(q) : q[i] \in 1..(One - 1)
  BY <1>1, <1>2 DEF ValidateQuantiles
<1> QED BY <1>1, <1>3 DEF ToSet

\* is_valid_metric_name accepts [a-zA-Z_][a-zA-Z0-9_]*.
LEMMA NameExact ==
  ASSUME NEW n \in Seq(STRING)
  PROVE  IsValidMetricName(n) <=> Identifier(n)
<1> DEFINE C == Letters \union Digits
<1>1. ASSUME IsValidMetricName(n) PROVE Identifier(n)
  <2>1. Len(n) \in Nat /\ Len(n) >= 1 /\ n[1] \in Letters /\ \A i \in 1..Len(n) : n[i] \in C
    BY <1>1, EmptySeq DEF IsValidMetricName
  <2> DEFINE tail == [i \in 1..(Len(n) - 1) |-> n[i + 1]]
  <2>2. tail \in [1..(Len(n) - 1) -> C]
    BY <2>1
  <2>3. tail \in Seq(C) /\ Len(tail) = Len(n) - 1
    BY <2>1, <2>2
  <2>4. <<n[1]>> \in Seq(C \union {n[1]}) /\ Len(<<n[1]>>) = 1
    OBVIOUS
  <2>5. n = <<n[1]>> \o tail
    <3> DEFINE m == <<n[1]>> \o tail
    <3>1. /\ m \in Seq(C) /\ Len(m) = Len(n)
          /\ \A i \in 1..Len(n) : m[i] = IF i <= 1 THEN n[1] ELSE tail[i - 1]
      BY <2>1, <2>3
    <3>2. \A i \in 1..Len(n) : m[i] = n[i]
      BY <2>1, <3>1
    <3> HIDE DEF m
    <3>3. n \in Seq(C)
      BY <2>1
    <3>4. m = n
      BY <3>1, <3>2, <3>3
    <3> QED BY <3>4 DEF m
  <2> QED BY <2>1, <2>2, <2>5 DEF Identifier
<1>2. ASSUME Identifier(n) PROVE IsValidMetricName(n)
  <2>1. PICK head \in Letters, tail \in [1..(Len(n) - 1) -> C] : n = <<head>> \o tail
    BY <1>2 DEF Identifier
  <2>2. Len(n) \in Nat
    OBVIOUS
  <2>3. tail \in Seq(C) /\ Len(tail) \in Nat
    <3>1. CASE Len(n) = 0
      BY <2>1, <3>1
    <3>2. CASE Len(n) # 0
      BY <2>1, <2>2, <3>2
    <3> QED BY <3>1, <3>2
  <2>4. <<head>> \in Seq(C) /\ Len(<<head>>) = 1 /\ <<head>>[1] = head
    OBVIOUS
  <2>5. n \in Seq(C) /\ Len(n) >= 1 /\ n[1] = head
    BY <2>1, <2>3, <2>4
  <2> QED BY <2>1, <2>5 DEF IsValidMetricName
<1> QED BY <1>1, <1>2

\* is_valid_label_name excludes those that begin with two underscores.
LEMMA LabelExact ==
  ASSUME NEW l \in Seq(STRING)
  PROVE  IsValidLabelName(l) <=> Identifier(l) /\ ~IsPrefix(<<Underscore, Underscore>>, l)
<1> DEFINE two == <<Underscore, Underscore>>
<1>1. Underscore \in {Underscore} \union STRING /\ Len(l) \in Nat
  OBVIOUS
<1>2. two \in Seq({Underscore} \union STRING) /\ Len(two) = 2 /\ two[1] = Underscore /\ two[2] = Underscore
  OBVIOUS
<1> HIDE DEF two
<1>3. ASSUME Len(l) >= 2
      PROVE  SubSeq(two, 1, 2) = SubSeq(l, 1, 2) <=> l[1] = Underscore /\ l[2] = Underscore
  <2> DEFINE a == SubSeq(two, 1, 2)
  <2> DEFINE b == SubSeq(l, 1, 2)
  <2>1. a \in Seq({Underscore} \union STRING) /\ Len(a) = 2 /\ \A i \in 1..2 : a[i] = two[i]
    BY <1>2, SubSeqProperties
  <2>2. b \in Seq(STRING) /\ Len(b) = 2 /\ \A i \in 1..2 : b[i] = l[i]
    <3>1. \A i \in 1..2 : l[i] \in STRING
      BY <1>1, <1>3
    <3> QED BY <3>1, SubSeqProperties
  <2> HIDE DEF a, b
  <2>3. (\A i \in 1..2 : a[i] = b[i]) => a = b
    <3>1. b \in Seq({Underscore} \union STRING)
      BY <2>2
    <3> QED BY <2>1, <2>2, <3>1, SeqEqual
  <2>4. l[1] = Underscore /\ l[2] = Underscore => a = b
    BY <1>2, <2>1, <2>2, <2>3
  <2>5. a = b => l[1] = Underscore /\ l[2] = Underscore
    BY <1>2, <2>1, <2>2
  <2> QED BY <2>4, <2>5 DEF a, b
<1>4. IsPrefix(two, l) <=> Len(l) >= 2 /\ l[1] = Underscore /\ l[2] = Underscore
  BY <1>1, <1>2, <1>3 DEF IsPrefix
<1> QED BY <1>1, <1>4, NameExact DEF IsValidLabelName, two

\* What the factories fill in, and what they leave alone.
LEMMA FilledFacts ==
  ASSUME NEW spec \in AnySpec
  PROVE  /\ Filled(spec) \in AnySpec
         /\ Filled(spec).type = spec.type
<1>1. Defaults(spec.type) \in Seq(Int)
  BY DEF Defaults
<1> QED BY <1>1 DEF Filled, AnySpec

\* The first check that fails names a defect, and if none fails there is none.
LEMMA RefusalExact ==
  ASSUME NEW spec \in AnySpec
  PROVE  IF Refusal(spec) = Accepted THEN Defects(Filled(spec)) = {}
                                     ELSE Refusal(spec) \in Defects(Filled(spec))
<1> DEFINE s == Filled(spec)
<1>1. /\ s.name \in Seq(STRING) /\ s.labels \subseteq Seq(STRING) /\ s.numbers \in Seq(Int)
  BY FilledFacts DEF AnySpec
<1> DEFINE badBuckets == s.type = "Histogram" /\ ~ValidateBuckets(s.numbers)
<1> DEFINE badQuantiles == s.type = "Summary" /\ ~ValidateQuantiles(s.numbers)
<1> DEFINE badStates == s.type = "StateSet" /\ s.states = {}
<1> DEFINE badName == ~IsValidMetricName(s.name)
<1> DEFINE badLabel == \E l \in s.labels : ~IsValidLabelName(l)
<1> DEFINE D == Defects(s)
<1> HIDE DEF s
<1>2. "InvalidMetricName" \in D <=> badName
  BY <1>1, NameExact DEF Defects, ErrorCodes
<1>3. "InvalidLabelName" \in D <=> badLabel
  BY <1>1, LabelExact DEF Defects, ErrorCodes
<1>4. "InvalidBuckets" \in D <=> badBuckets
  <2>1. ValidateBuckets(s.numbers) <=>
          s.numbers # <<>> /\ (\A x \in ToSet(s.numbers) : Finite(x))
          /\ StrictlyIncreasing(s.numbers)
    BY <1>1, BucketsExact
  <2> QED BY <2>1 DEF Defects, ErrorCodes
<1>5. "InvalidQuantiles" \in D <=> badQuantiles
  <2>1. ValidateQuantiles(s.numbers) <=> ToSet(s.numbers) \subseteq 1..(One - 1)
    BY <1>1, QuantilesExact
  <2> QED BY <2>1 DEF Defects, ErrorCodes
<1>6. "EmptyStateSet" \in D <=> badStates
  BY DEF Defects, ErrorCodes
<1>7. D \subseteq ErrorCodes
  BY DEF Defects
<1> HIDE DEF D
<1>8. Refusal(spec) = (IF badBuckets THEN "InvalidBuckets"
                       ELSE IF badQuantiles THEN "InvalidQuantiles"
                       ELSE IF badStates THEN "EmptyStateSet"
                       ELSE IF badName THEN "InvalidMetricName"
                       ELSE IF badLabel THEN "InvalidLabelName"
                       ELSE Accepted)
  BY DEF Refusal, s
<1> HIDE DEF badBuckets, badQuantiles, badStates, badName, badLabel
<1>9. IF Refusal(spec) = Accepted THEN D = {} ELSE Refusal(spec) \in D
  BY <1>2, <1>3, <1>4, <1>5, <1>6, <1>7, <1>8 DEF ErrorCodes, Accepted
<1> QED BY <1>9 DEF D, s

\* A registry decides by the checks.
OutcomeInv == \A call \in outcome : call.spec \in Specs /\ call.code = Decision(call.spec)

\* Only Refuse and Make decide.
LEMMA DecisionStep == OutcomeInv /\ [Next]_vars => OutcomeInv'
<1> SUFFICES ASSUME OutcomeInv, [Next]_vars PROVE OutcomeInv'
  OBVIOUS
<1>1. ASSUME NEW t \in Threads, Refuse(t) \/ Make(t) PROVE OutcomeInv'
  <2>1. PICK spec \in Offered : outcome' = {[spec |-> spec, code |-> Decision(spec)]}
    BY <1>1 DEF Refuse, Make
  <2>2. spec \in Specs
    BY <2>1, EnumerationAssumption DEF Offered
  <2> QED BY <2>1, <2>2 DEF OutcomeInv
<1>2. CASE UNCHANGED outcome
  BY <1>2 DEF OutcomeInv
<1>3. ASSUME NEW t \in Threads, Register(t) \/ Track(t) \/ BeginListing(t) \/ Collect(t)
               \/ Erase(t) \/ Collected(t) \/ Describe(t) \/ Return(t)
      PROVE  UNCHANGED outcome
  BY <1>3 DEF Register, Track, BeginListing, Collect, Erase, Collected, Describe, Return,
              metricVars
<1>4. ASSUME NEW m \in Metrics, Drop(m) PROVE UNCHANGED outcome
  BY <1>4 DEF Drop
<1>5. CASE Redecorate \/ UNCHANGED vars
  BY <1>2, <1>5 DEF Redecorate, vars, metricVars
<1> QED BY <1>1, <1>2, <1>3, <1>4, <1>5 DEF Next

----------------------------------------------------------------------------
(* What is listed is registered.                                           *)

\* A registry's metric is registered before it is tracked, so all that is in the
\* list, and all that a listing has told of, is registered.
RegisteredInv ==
  /\ \A t \in Threads : pc[t] = "track" => making[t] \in registered
  /\ ToSet(list) \subseteq registered
  /\ \A t \in Threads : {i.metric : i \in listing[t].out} \subseteq registered

\* What is registered stays so, and describe tells of what the list has.
LEMMA RegisteredStep ==
  ASSUME Kind = "registry", IInv, RegisteredInv, [Next]_vars
  PROVE  RegisteredInv'
<1> USE DEF RegisteredInv
<1>1. CASE Redecorate \/ UNCHANGED vars
  BY <1>1 DEF Redecorate, vars, metricVars
<1>2. ASSUME NEW m \in Metrics, Drop(m) PROVE RegisteredInv'
  BY <1>2 DEF Drop
<1>3. ASSUME NEW t \in Threads, ThreadStep(t) PROVE RegisteredInv'
  <2>1. /\ TypeOK /\ ListedInv /\ CallInv(t)
        /\ \A u \in Threads : u # t =>
             pc'[u] = pc[u] /\ making'[u] = making[u] /\ listing'[u] = listing[u]
    BY <1>3, Facts, OnlyOwnLocals DEF Kept
  <2>2. CASE Refuse(t)
    BY <2>2 DEF Refuse
  <2>3. CASE Make(t)
    <3>1. /\ pc'[t] = "register" /\ UNCHANGED <<registered, list, listing>>
      BY <2>1, <2>3 DEF Make, AfterMake, Goto, TypeOK
    <3> QED BY <2>1, <3>1
  <2>4. CASE Register(t)
    <3>1. /\ registered' = registered \union {making[t]}
          /\ UNCHANGED <<making, list, listing>>
      BY <2>4 DEF Register
    <3> QED BY <2>1, <3>1
  <2>5. CASE Track(t)
    <3>1. /\ pc[t] = "track" /\ pc'[t] = "idle" /\ list' = Append(list, making[t])
          /\ UNCHANGED <<registered, listing>>
      BY <2>1, <2>5 DEF Track, Goto, TypeOK
    <3>2. making[t] \in registered
      BY <3>1
    <3>3. ToSet(list') = ToSet(list) \union {making[t]}
      <4>1. making[t] \in Nat /\ list \in Seq(Nat)
        BY <2>1, EnumerationAssumption DEF TypeOK, Metrics
      <4> QED BY <3>1, <4>1, AppendFacts
    <3> QED BY <2>1, <3>1, <3>2, <3>3
  <2>6. CASE BeginListing(t) \/ Collect(t) \/ Erase(t) \/ Collected(t) \/ Return(t)
    <3>1. UNCHANGED <<registered, making>>
      BY <2>6 DEF BeginListing, Collect, Erase, Collected, Return, metricVars
    <3>2. ToSet(list') \subseteq ToSet(list)
      <4>1. CASE Erase(t)
        BY <2>1, <4>1, EraseFacts
      <4>2. CASE BeginListing(t) \/ Collect(t) \/ Collected(t) \/ Return(t)
        BY <4>2 DEF BeginListing, Collect, Collected, Return
      <4> QED BY <2>6, <4>1, <4>2
    <3>3. pc'[t] # "track"
      BY <2>1, <2>6, CollectedFacts
         DEF BeginListing, Collect, Erase, Return, Goto, TypeOK
    <3>4. listing'[t].out \subseteq listing[t].out
      <4>1. CASE BeginListing(t)
        <5>1. listing'[t] = Fresh
          BY <2>1, <4>1 DEF BeginListing, Fresh, TypeOK
        <5> QED BY <2>1, <5>1, FreshFacts
      <4>2. CASE Collect(t)
        <5>1. CASE Alive(list[listing[t].at])
          BY <2>1, <4>2, <5>1, CollectFacts
        <5>2. CASE ~Alive(list[listing[t].at])
          BY <4>2, <5>2 DEF Collect
        <5> QED BY <5>1, <5>2
      <4>3. CASE Erase(t)
        BY <2>1, <4>3, EraseFacts
      <4>4. CASE Collected(t)
        BY <2>1, <4>4, CollectedFacts
      <4>5. CASE Return(t)
        BY <2>1, <4>5, NoListingFacts DEF Return, TypeOK
      <4> QED BY <2>6, <4>1, <4>2, <4>3, <4>4, <4>5
    <3> QED BY <2>1, <3>1, <3>2, <3>3, <3>4
  <2>7. CASE Describe(t)
    <3>1. UNCHANGED <<registered, making, list>> /\ pc[t] = "describe"
      BY <2>7 DEF Describe, metricVars
    <3>2. pc'[t] # "track"
      BY <2>1, <2>7, DescribeFacts
    <3>3. listing[t].live[listing[t].at] \in registered
      <4>1. listing[t].at \in 1..Len(listing[t].live) /\ listing[t].live \in Seq(Metrics)
        BY <2>1, <3>1, CoreFacts DEF TypeOK, Listings
      <4>2. listing[t].live[listing[t].at] \in ToSet(listing[t].live)
        BY <4>1 DEF ToSet
      <4> QED BY <2>1, <4>2 DEF ListedInv
    <3>4. \A i \in listing'[t].out :
            i \in listing[t].out \/ i.metric = listing[t].live[listing[t].at]
      BY <2>1, <2>7, DescribeFacts
    <3> QED BY <2>1, <3>1, <3>2, <3>3, <3>4
  <2> QED BY <1>3, <2>2, <2>3, <2>4, <2>5, <2>6, <2>7 DEF ThreadStep
<1> QED BY <1>1, <1>2, <1>3 DEF Next, ThreadStep

----------------------------------------------------------------------------
(* The theorems.                                                           *)

\* The inductive invariant holds of every reachable state.
THEOREM ListInvariance == Spec => []IInv
BY InvInit, InvStep, PTL DEF Spec

\* Every variable keeps its type; above all, no metric is in the list twice.
THEOREM TypeCorrect == Spec => []TypeOK
<1>1. IInv => TypeOK
  BY DEF IInv
<1> QED BY <1>1, ListInvariance, PTL

\* Pruning never loses a metric the program holds, however the listings, the
\* factories and the program's releases interleave.
THEOREM Remembered == Spec => []NoneForgotten
<1>1. IInv => NoneForgotten
  BY DEF IInv, ListedInv, NoneForgotten
<1> QED BY <1>1, ListInvariance, PTL

\* What metrics() returns has every metric that was listed when it began and
\* lives until it ends.
THEOREM Completeness == Spec => []ListingIsComplete
<1>1. IInv => ListingIsComplete
  <2> SUFFICES ASSUME IInv, NEW t \in Threads, pc[t] = "listed"
               PROVE  listing[t].known \ destroyed \subseteq {i.metric : i \in listing[t].out}
      BY DEF ListingIsComplete
  <2>1. /\ CallInv(t) /\ listing[t].live \in Seq(Metrics)
        /\ Len(listing[t].live) \in Nat
        /\ DOMAIN listing[t].live = 1..Len(listing[t].live)
    BY Facts DEF TypeOK, Listings
  <2>2. /\ listing[t].at = Len(listing[t].live) + 1
        /\ Told(t) \subseteq {i.metric : i \in listing[t].out}
        /\ listing[t].known \subseteq destroyed \union ToSet(listing[t].live)
    BY <2>1 DEF CallInv
  <2>3. Told(t) = ToSet(listing[t].live)
    BY <2>1, <2>2 DEF Told, ToSet
  <2> QED BY <2>2, <2>3
<1> QED BY <1>1, ListInvariance, PTL

\* And it has dropped every reference that had expired by then.
THEOREM Pruning == Spec => []ListingPrunes
<1>1. IInv => ListingPrunes
  BY DEF IInv, CallInv, ListingPrunes
<1> QED BY <1>1, ListInvariance, PTL

\* No core is destroyed while a listing describes it.
THEOREM DescribedLive == Spec => []DescribesTheLiving
<1>1. IInv => DescribesTheLiving
  <2> SUFFICES ASSUME IInv, NEW t \in Threads, NEW m \in ToSet(listing[t].live), m \in destroyed
               PROVE  FALSE
      BY DEF DescribesTheLiving
  <2>1. ~Alive(m)
    BY Facts DEF AliveInv
  <2> QED BY <2>1 DEF Alive, HeldByListing
<1> QED BY <1>1, ListInvariance, PTL

\* The names and labels it returns are no older than the changes that had
\* returned when it began.
THEOREM LiveViews == Spec => []ListingIsLive
<1>1. IInv => ListingIsLive
  <2> SUFFICES ASSUME IInv, NEW t \in Threads, NEW i \in listing[t].out, NEW s \in Described
               PROVE  i.view[s] >= listing[t].floor[s]
      BY DEF ListingIsLive
  <2>1. listing[t].floor[s] <= i.view[s]
    BY DEF IInv, ViewInv
  <2> QED BY <2>1
<1> QED BY <1>1, ListInvariance, PTL

\* What a registry's listing tells of, its backend was given first, whatever
\* other factories and listings are under way.
THEOREM RegisteredFirst ==
  ASSUME Kind = "registry"
  PROVE  Spec => []ListedAreRegistered
<1>1. Init => RegisteredInv
  BY NoListingFacts DEF Init, RegisteredInv, ToSet
<1>2. IInv /\ RegisteredInv /\ [Next]_vars => RegisteredInv'
  BY RegisteredStep
<1>3. RegisteredInv => ListedAreRegistered
  BY DEF RegisteredInv, ListedAreRegistered
<1> QED BY <1>1, <1>2, <1>3, ListInvariance, PTL DEF Spec

\* What was decided last was decided by the checks.
LEMMA Decided == Spec => []OutcomeInv
<1>1. Init => OutcomeInv
  BY DEF Init, OutcomeInv
<1> QED BY <1>1, DecisionStep, PTL DEF Spec

\* A registry's factory refuses exactly the specs that have a defect, with the
\* code of one: validate_buckets and the other checks find what error.hpp says,
\* for every name, label set, list of bounds and order of the checks.
THEOREM ExactRefusal ==
  ASSUME Kind = "registry"
  PROVE  Spec => []RefusalIsExact
<1>1. OutcomeInv => RefusalIsExact
  BY RefusalExact, EnumerationAssumption DEF OutcomeInv, RefusalIsExact, Decision
<1> QED BY <1>1, Decided, PTL
=============================================================================
