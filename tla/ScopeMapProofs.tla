--------------------------- MODULE ScopeMapProofs ---------------------------
(***************************************************************************)
(* TLAPS proofs about ScopeMap, for every number of threads, names and     *)
(* configurations: the invariant, and the refinement of the directory.     *)
(***************************************************************************)
EXTENDS ScopeMap, TLAPS

\* Calls of different operations differ, and NoCall differs from all.
LEMMA CallFacts ==
  /\ \A c \in ScopeCalls : c.op = "scope" /\ c.name \in Names /\ c.config \in Configs
  /\ \A c \in FindCalls : c.op = "find" /\ c.name \in Names
  /\ \A c \in ListCalls : c.op = "all"
  /\ \A c \in Calls : c # NoCall /\ (c.op = "scope" => c \in ScopeCalls)
  /\ NoCall.op = "none"
  /\ \A n \in Names, g \in Configs :
       [op |-> "scope", name |-> n, config |-> g] \in ScopeCalls
  /\ \A n \in Names : DefaultConfig(n) \in Configs
  /\ Given \subseteq Configs
BY DEF ScopeCalls, FindCalls, ListCalls, Calls, NoCall, Configs

\* The invariant holds at the start.
LEMMA InvInit == Init => ScopesInv
BY CallFacts DEF Init, ScopesInv, TypeOK, MapInv, CallInv, CallFits, Calls

\* A thread that begins a call leaves the map and the other threads alone.
LEMMA BeginInv ==
  ASSUME ScopesInv, NEW t \in Threads, NEW c \in Calls, NEW label,
         \/ c \in ScopeCalls /\ label \in {"lookup", "create"}
         \/ c \in FindCalls /\ label = "find"
         \/ c \in ListCalls /\ label = "list",
         Begin(t, c, label)
  PROVE  ScopesInv'
<1>1. TypeOK'
      BY DEF ScopesInv, TypeOK, Begin, Goto
<1>2. MapInv'
      BY DEF ScopesInv, MapInv, Begin
<1>3. CallInv'
  <2> SUFFICES ASSUME NEW u \in Threads PROVE CallFits(u)'
      BY DEF CallInv
  <2>1. CASE u = t
        BY <2>1, CallFacts DEF ScopesInv, TypeOK, CallInv, CallFits, Begin, Goto
  <2>2. CASE u # t
        BY <2>2 DEF ScopesInv, TypeOK, CallInv, CallFits, Begin, Goto
  <2> QED BY <2>1, <2>2
<1> QED BY <1>1, <1>2, <1>3 DEF ScopesInv

\* A thread that leaves the map alone and is given the scopes it asked for.
LEMMA DeliverInv ==
  ASSUME ScopesInv, NEW t \in Threads, NEW scopes \in SUBSET (Nat \ {0}),
         pc[t] \notin {"idle", "returned"},
         call[t].op = "scope" =>
           scopeMap[call[t].name] # 0 /\ scopes = {scopeMap[call[t].name]},
         Deliver(t, scopes), UNCHANGED <<scopeMap, made>>
  PROVE  ScopesInv'
<1>1. TypeOK'
      BY DEF ScopesInv, TypeOK, Deliver, Goto
<1>2. MapInv'
      BY DEF ScopesInv, MapInv
<1>3. CallInv'
  <2> SUFFICES ASSUME NEW u \in Threads PROVE CallFits(u)'
      BY DEF CallInv
  <2>1. CASE u = t
        BY <2>1 DEF ScopesInv, TypeOK, CallInv, CallFits, Deliver, Goto
  <2>2. CASE u # t
        BY <2>2 DEF ScopesInv, TypeOK, CallInv, CallFits, Deliver, Goto
  <2> QED BY <2>1, <2>2
<1> QED BY <1>1, <1>2, <1>3 DEF ScopesInv

\* scope(name, config), and the second section of scope(name).
LEMMA CreateInv ==
  ASSUME ScopesInv, NEW t \in Threads, GetOrCreate(t)
  PROVE  ScopesInv'
<1> DEFINE name == call[t].name
           fresh == Len(made) + 1
           scope == [name |-> name, config |-> call[t].config]
<1>1. call[t] \in ScopeCalls /\ name \in Names /\ call[t].config \in Configs
      BY CallFacts DEF ScopesInv, CallInv, CallFits, GetOrCreate
<1>2. CASE Exists(name)
  <2>1. scopeMap[name] \in Nat \ {0}
        BY <1>1, <1>2 DEF ScopesInv, TypeOK, Exists
  <2> QED BY <1>2, <2>1, DeliverInv DEF GetOrCreate, Exists
<1>3. CASE ~Exists(name)
  <2>1. scopeMap[name] = 0 /\ scopeMap' = [scopeMap EXCEPT ![name] = fresh]
        BY <1>3 DEF Exists, GetOrCreate
  <2>2. made' = Append(made, scope) /\ Deliver(t, {fresh})
        BY <1>3 DEF GetOrCreate
  <2>3. /\ made \in Seq([name : Names, config : Configs]) /\ fresh \in Nat \ {0}
        /\ scope \in [name : Names, config : Configs]
        BY <1>1 DEF ScopesInv, TypeOK
  <2>4. /\ Len(made') = fresh /\ made'[fresh] = scope
        /\ \A i \in 1..Len(made) : made'[i] = made[i]
        BY <2>2, <2>3
  <2>5. TypeOK'
    <3>1. made' \in Seq([name : Names, config : Configs])
          BY <2>2, <2>3
    <3>2. scopeMap' \in [Names -> Nat] /\ result' \in [Threads -> SUBSET (Nat \ {0})]
          BY <2>1, <2>2, <2>3 DEF ScopesInv, TypeOK, Deliver
    <3> QED BY <2>2, <3>1, <3>2 DEF ScopesInv, TypeOK, Deliver, Goto
  <2>6. MapInv'
    <3>1. ASSUME NEW n \in Names, scopeMap'[n] # 0
          PROVE  scopeMap'[n] \in 1..Len(made') /\ made'[scopeMap'[n]].name = n
      <4>1. CASE n = name
            BY <1>1, <2>1, <2>3, <2>4, <4>1 DEF ScopesInv, TypeOK
      <4>2. CASE n # name
        <5>1. scopeMap'[n] = scopeMap[n]
              BY <2>1, <4>2 DEF ScopesInv, TypeOK
        <5> QED BY <2>3, <2>4, <3>1, <5>1 DEF ScopesInv, MapInv
      <4> QED BY <4>1, <4>2
    <3>2. ASSUME NEW i \in 1..Len(made')
          PROVE  scopeMap'[made'[i].name] = i
      <4>1. CASE i = fresh
            BY <1>1, <2>1, <2>4, <4>1 DEF ScopesInv, TypeOK
      <4>2. CASE i # fresh
        <5>1. i \in 1..Len(made) /\ made'[i] = made[i]
              BY <2>3, <2>4, <4>2
        <5>2. made[i].name \in Names
          <6>1. \A S : made \in Seq(S) => \A k \in 1..Len(made) : made[k] \in S
                OBVIOUS
          <6>2. made[i] \in [name : Names, config : Configs]
                BY <2>3, <5>1, <6>1
          <6> QED BY <6>2
        <5>3. scopeMap[made[i].name] = i
              BY <5>1 DEF ScopesInv, MapInv
        <5>4. made[i].name # name
              BY <2>1, <5>1, <5>2, <5>3
        <5> QED BY <2>1, <5>1, <5>2, <5>4, <5>3 DEF ScopesInv, TypeOK
      <4> QED BY <4>1, <4>2
    <3> QED BY <3>1, <3>2 DEF MapInv
  <2>7. CallInv'
    <3> SUFFICES ASSUME NEW u \in Threads PROVE CallFits(u)'
        BY DEF CallInv
    <3>1. CASE u = t
          BY <1>1, <2>1, <2>2, <2>3, <3>1, CallFacts
          DEF ScopesInv, TypeOK, CallInv, CallFits, Deliver, Goto
    <3>2. CASE u # t
      <4>1. pc'[u] = pc[u] /\ call'[u] = call[u] /\ result'[u] = result[u]
            BY <2>2, <3>2 DEF ScopesInv, TypeOK, Deliver, Goto
      <4>2. ASSUME pc[u] = "returned", call[u].op = "scope"
            PROVE  scopeMap'[call[u].name] = scopeMap[call[u].name]
        <5>1. call[u].name # name
              BY <2>1, <4>2 DEF ScopesInv, CallInv, CallFits
        <5> QED BY <2>1, <5>1 DEF ScopesInv, TypeOK
      <4> QED BY <4>1, <4>2 DEF ScopesInv, CallInv, CallFits
    <3> QED BY <3>1, <3>2
  <2> QED BY <2>5, <2>6, <2>7 DEF ScopesInv
<1> QED BY <1>2, <1>3

\* Every step keeps the invariant.
LEMMA InvStep == ScopesInv /\ [Next]_vars => ScopesInv'
<1> SUFFICES ASSUME ScopesInv, [Next]_vars PROVE ScopesInv'
    OBVIOUS
<1>1. CASE UNCHANGED vars
      BY <1>1 DEF ScopesInv, TypeOK, MapInv, CallInv, CallFits, vars
<1>2. ASSUME NEW t \in Threads, CallScope(t) PROVE ScopesInv'
      BY <1>2, BeginInv, CallFacts DEF CallScope, Calls
<1>3. ASSUME NEW t \in Threads, CallScopeWith(t) PROVE ScopesInv'
      BY <1>3, BeginInv, CallFacts DEF CallScopeWith, Calls
<1>4. ASSUME NEW t \in Threads, CallFind(t) \/ CallList(t) PROVE ScopesInv'
      BY <1>4, BeginInv DEF CallFind, CallList, Calls
<1>5. ASSUME NEW t \in Threads, Lookup(t) PROVE ScopesInv'
  <2>1. call[t] \in ScopeCalls /\ scopeMap[call[t].name] \in Nat
        BY <1>5, CallFacts DEF Lookup, ScopesInv, TypeOK, CallInv, CallFits
  <2>2. CASE scopeMap[call[t].name] # 0
    <3>1. Deliver(t, {scopeMap[call[t].name]}) /\ UNCHANGED <<scopeMap, made>>
          BY <1>5, <2>2 DEF Lookup
    <3> QED BY <1>5, <2>1, <2>2, <3>1, DeliverInv DEF Lookup
  <2>3. CASE scopeMap[call[t].name] = 0
    <3>1. pc' = [pc EXCEPT ![t] = "create"] /\ UNCHANGED <<scopeMap, made, call, result>>
          BY <1>5, <2>3 DEF Lookup, Goto
    <3>2. TypeOK'
          BY <3>1 DEF ScopesInv, TypeOK
    <3>3. MapInv'
          BY <3>1 DEF ScopesInv, MapInv
    <3>4. CallInv'
          BY <3>1, <2>1, <1>5, CallFacts DEF Lookup, Goto, ScopesInv, TypeOK, CallInv, CallFits, Calls
    <3> QED BY <3>2, <3>3, <3>4 DEF ScopesInv
  <2> QED BY <2>1, <2>2, <2>3
<1>6. ASSUME NEW t \in Threads, GetOrCreate(t) PROVE ScopesInv'
      BY <1>6, CreateInv
<1>7. ASSUME NEW t \in Threads, FindScope(t) \/ ListScopes(t) PROVE ScopesInv'
  <2>1. call[t].op # "scope"
        BY <1>7, CallFacts DEF FindScope, ListScopes, ScopesInv, CallInv, CallFits
  <2>2. /\ {scopeMap[call[t].name]} \ {0} \in SUBSET (Nat \ {0}) \/ ~FindScope(t)
        /\ AllScopes \in SUBSET (Nat \ {0})
        BY CallFacts DEF FindScope, AllScopes, ScopesInv, TypeOK, CallInv, CallFits
  <2> QED BY <1>7, <2>1, <2>2, DeliverInv DEF FindScope, ListScopes
<1>8. ASSUME NEW t \in Threads, Return(t) PROVE ScopesInv'
  <2>1. TypeOK' /\ MapInv'
        BY <1>8 DEF Return, Goto, ScopesInv, TypeOK, MapInv
  <2>2. CallInv'
        BY <1>8, CallFacts DEF Return, Goto, ScopesInv, TypeOK, CallInv, CallFits
  <2> QED BY <2>1, <2>2 DEF ScopesInv
<1> QED BY <1>1, <1>2, <1>3, <1>4, <1>5, <1>6, <1>7, <1>8 DEF Next

\* A step of the map is a step of the directory, or none.
LEMMA DirectoryInit == Init => Directory!DirInit
BY DEF Init, Directory!DirInit, NoCall, Directory!NoRequest

\* A call that begins.
LEMMA BeginAsks ==
  ASSUME ScopesInv, NEW t \in Threads, NEW c \in Calls, NEW label, label # "returned",
         Begin(t, c, label)
  PROVE  Directory!Ask(t)
<1>1. call[t] = Directory!NoRequest /\ c \in Directory!Requests
      BY DEF ScopesInv, CallInv, CallFits, Begin, Calls, ScopeCalls, FindCalls, ListCalls, NoCall,
         Directory!NoRequest, Directory!Requests
<1>2. {u \in Threads : pc'[u] = "returned"} = {u \in Threads : pc[u] = "returned"}
      BY DEF ScopesInv, TypeOK, Begin, Goto
<1> QED BY <1>1, <1>2 DEF Begin, Directory!Ask

\* A critical section that delivers what the directory gives at that moment.
LEMMA DeliverAnswers ==
  ASSUME ScopesInv, NEW t \in Threads, pc[t] # "returned", NEW scopes, Deliver(t, scopes)
  PROVE  /\ t \notin {u \in Threads : pc[u] = "returned"}
         /\ {u \in Threads : pc'[u] = "returned"}
              = {u \in Threads : pc[u] = "returned"} \union {t}
         /\ result' = [result EXCEPT ![t] = scopes]
         /\ UNCHANGED call
BY DEF ScopesInv, TypeOK, Deliver, Goto

\* A step of the map is a step of the directory, or none.
LEMMA DirectoryStep == ScopesInv /\ [Next]_vars => [Directory!DirNext]_(Directory!dirVars)
<1> SUFFICES ASSUME ScopesInv, [Next]_vars PROVE Directory!DirNext \/ UNCHANGED Directory!dirVars
    OBVIOUS
<1> DEFINE Returned == {u \in Threads : pc[u] = "returned"}
<1>1. CASE UNCHANGED vars
      BY <1>1 DEF vars, Directory!dirVars
<1>2. ASSUME NEW t \in Threads, CallScope(t) \/ CallScopeWith(t) \/ CallFind(t) \/ CallList(t)
      PROVE  Directory!Ask(t)
      BY <1>2, BeginAsks, CallFacts DEF CallScope, CallScopeWith, CallFind, CallList, Calls
<1>3. ASSUME NEW t \in Threads, Lookup(t)
      PROVE  Directory!Answer(t) \/ UNCHANGED Directory!dirVars
  <2>1. call[t] \in ScopeCalls /\ call[t].op = "scope" /\ call[t].name \in Names
        BY <1>3, CallFacts DEF Lookup, ScopesInv, CallInv, CallFits
  <2>2. CASE scopeMap[call[t].name] # 0
    <3>1. Deliver(t, {scopeMap[call[t].name]}) /\ UNCHANGED <<scopeMap, made>>
          BY <1>3, <2>2 DEF Lookup
    <3>2. scopeMap[call[t].name] # Len(made) + 1
          BY <2>1, <2>2 DEF ScopesInv, MapInv, TypeOK
    <3>3. Directory!GetOrCreate(t)
      <4>1. scopeMap = [scopeMap EXCEPT ![call[t].name] = scopeMap[call[t].name]]
            BY <2>1 DEF ScopesInv, TypeOK
      <4> QED BY <2>1, <2>2, <3>1, <3>2, <4>1 DEF Deliver, Directory!GetOrCreate
    <3> QED BY <1>3, <3>1, <3>3, DeliverAnswers DEF Lookup, Directory!Answer
  <2>3. CASE scopeMap[call[t].name] = 0
    <3>1. UNCHANGED <<scopeMap, made, call, result>> /\ pc' = [pc EXCEPT ![t] = "create"]
          BY <1>3, <2>3 DEF Lookup, Goto
    <3>2. {u \in Threads : pc'[u] = "returned"} = Returned
          BY <1>3, <3>1 DEF Lookup, ScopesInv, TypeOK
    <3> QED BY <3>1, <3>2 DEF Directory!dirVars
  <2> QED BY <2>2, <2>3
<1>4. ASSUME NEW t \in Threads, GetOrCreate(t)
      PROVE  Directory!Answer(t)
  <2>1. call[t] \in ScopeCalls /\ call[t].op = "scope" /\ call[t].name \in Names
        BY <1>4, CallFacts DEF GetOrCreate, ScopesInv, CallInv, CallFits
  <2>2. CASE Exists(call[t].name)
    <3>1. Deliver(t, {scopeMap[call[t].name]}) /\ UNCHANGED <<scopeMap, made>>
          BY <1>4, <2>2 DEF GetOrCreate
    <3>2. scopeMap[call[t].name] # Len(made) + 1
          BY <2>1, <2>2 DEF ScopesInv, MapInv, TypeOK, Exists
    <3>3. Directory!GetOrCreate(t)
      <4>1. scopeMap = [scopeMap EXCEPT ![call[t].name] = scopeMap[call[t].name]]
            BY <2>1 DEF ScopesInv, TypeOK
      <4> QED BY <2>1, <2>2, <3>1, <3>2, <4>1 DEF Exists, Deliver, Directory!GetOrCreate
    <3> QED BY <1>4, <3>1, <3>3, DeliverAnswers DEF GetOrCreate, Directory!Answer
  <2>3. CASE ~Exists(call[t].name)
    <3>1. Deliver(t, {Len(made) + 1})
          BY <1>4, <2>3 DEF GetOrCreate
    <3>2. Directory!GetOrCreate(t)
          BY <1>4, <2>1, <2>3 DEF GetOrCreate, Exists, Deliver, Directory!GetOrCreate
    <3> QED BY <1>4, <3>1, <3>2, DeliverAnswers DEF GetOrCreate, Directory!Answer
  <2> QED BY <2>2, <2>3
<1>5. ASSUME NEW t \in Threads, FindScope(t)
      PROVE  Directory!Answer(t)
  <2>1. call[t].op = "find" /\ call[t].name \in Names
        BY <1>5, CallFacts DEF FindScope, ScopesInv, CallInv, CallFits
  <2>2. {call[t].name} \in SUBSET Names
        /\ {scopeMap[call[t].name]} = {scopeMap[n] : n \in {call[t].name}}
        BY <2>1
  <2>3. Directory!Look(t)
        BY <1>5, <2>1, <2>2 DEF FindScope, Deliver, Directory!Look
  <2> QED BY <1>5, <2>3, DeliverAnswers DEF FindScope, Directory!Answer
<1>6. ASSUME NEW t \in Threads, ListScopes(t)
      PROVE  Directory!Answer(t)
  <2>1. call[t].op = "all"
        BY <1>6, CallFacts DEF ListScopes, ScopesInv, CallInv, CallFits
  <2>2. Directory!Look(t)
        BY <1>6, <2>1 DEF ListScopes, AllScopes, Deliver, Directory!Look
  <2> QED BY <1>6, <2>2, DeliverAnswers DEF ListScopes, Directory!Answer
<1>7. ASSUME NEW t \in Threads, Return(t)
      PROVE  Directory!Leave(t)
  <2>1. {u \in Threads : pc'[u] = "returned"} = Returned \ {t} /\ t \in Returned
        BY <1>7 DEF Return, Goto, ScopesInv, TypeOK
  <2> QED BY <1>7, <2>1 DEF Return, NoCall, Directory!Leave, Directory!NoRequest
<1> QED BY <1>1, <1>2, <1>3, <1>4, <1>5, <1>6, <1>7 DEF Next, Directory!DirNext

----------------------------------------------------------------------------
(* The theorems.                                                           *)

\* The inductive invariant: the map and the scopes made agree, call by call.
THEOREM MapInvariance == Spec => []ScopesInv
BY InvInit, InvStep, PTL DEF Spec

\* Every variable keeps its type: the map holds only scopes that were made, and
\* a caller is given one of them or none.
THEOREM TypeCorrect == Spec => []TypeOK
<1>1. ScopesInv => TypeOK
  BY DEF ScopesInv
<1> QED BY <1>1, MapInvariance, PTL

\* A name gets one scope, whatever the callers race.
THEOREM OneScope == Spec => []OneScopePerName
<1>1. ScopesInv => OneScopePerName
      BY DEF ScopesInv, MapInv, OneScopePerName
<1> QED BY <1>1, MapInvariance, PTL

\* All who hold the scope of a name at once hold the same one.
THEOREM SharedScope == Spec => []EveryoneSharesTheScope
<1>1. ScopesInv => EveryoneSharesTheScope
      BY DEF ScopesInv, CallInv, CallFits, EveryoneSharesTheScope
<1> QED BY <1>1, MapInvariance, PTL

\* The map with its locks and its two lookups implements the directory in
\* which every call takes effect at one moment.
THEOREM Refinement == Spec => ImplementsDirectory
BY DirectoryInit, DirectoryStep, MapInvariance, PTL
   DEF Spec, ImplementsDirectory, Directory!DirSpec
=============================================================================
