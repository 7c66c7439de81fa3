------------------------------ MODULE ScopeMap ------------------------------
(***************************************************************************)
(* The process-wide map of named scopes (scope.hpp), used by several       *)
(* threads.  Every access to the map is one critical section of            *)
(* scope_map_mutex that touches nothing else shared, so each section is    *)
(* one action; scope(name) has two of them and others run in between.      *)
(***************************************************************************)
EXTENDS Naturals, Sequences

CONSTANTS
  Threads,             \* the threads that call
  Names,               \* the names of scopes
  Given                \* the configurations callers pass to scope(name, config)

\* What scope(name) passes on: the prefix name_, one configuration per name.
DefaultConfig(name) == <<name, "_">>
Configs == Given \union {DefaultConfig(n) : n \in Names}

VARIABLES
  scopeMap,            \* scope_map(): the number of the scope named n, 0 for none
  made,                \* history: the scopes made, with name and configuration
  pc,                  \* pc[t]: t's next critical section, or idle, or returned
  call,                \* call[t]: what t called, with its arguments
  result               \* result[t]: the scopes it returns

vars == <<scopeMap, made, pc, call, result>>

NoCall == [op |-> "none"]
ScopeCalls == [op : {"scope"}, name : Names, config : Configs]
FindCalls == [op : {"find"}, name : Names]
ListCalls == [op : {"all"}]
Calls == ScopeCalls \union FindCalls \union ListCalls

TypeOK ==
  /\ scopeMap \in [Names -> Nat]
  /\ made \in Seq([name : Names, config : Configs])
  /\ pc \in [Threads -> {"idle", "lookup", "create", "find", "list", "returned"}]
  /\ call \in [Threads -> Calls \union {NoCall}]
  /\ result \in [Threads -> SUBSET (Nat \ {0})]

Init ==
  /\ scopeMap = [n \in Names |-> 0]
  /\ made = <<>>
  /\ pc = [t \in Threads |-> "idle"]
  /\ call = [t \in Threads |-> NoCall]
  /\ result = [t \in Threads |-> {}]

Goto(t, label) == pc' = [pc EXCEPT ![t] = label]

Begin(t, c, label) ==
  /\ pc[t] = "idle"
  /\ call' = [call EXCEPT ![t] = c]
  /\ Goto(t, label)
  /\ UNCHANGED <<scopeMap, made, result>>

\* scope(name) looks first; scope(name, config) goes straight to the section
\* that creates.  Registry::scope calls either.
CallScope(t) ==
  \E n \in Names :
    Begin(t, [op |-> "scope", name |-> n, config |-> DefaultConfig(n)], "lookup")
CallScopeWith(t) ==
  \E n \in Names, g \in Given :
    Begin(t, [op |-> "scope", name |-> n, config |-> g], "create")
CallFind(t) == \E c \in FindCalls : Begin(t, c, "find")

\* scopes(), and scope_names(), which returns their names.
CallList(t) == \E c \in ListCalls : Begin(t, c, "list")

Deliver(t, scopes) ==
  /\ result' = [result EXCEPT ![t] = scopes]
  /\ Goto(t, "returned")
  /\ UNCHANGED call

\* The first section of scope(name).
Lookup(t) ==
  /\ pc[t] = "lookup"
  /\ IF scopeMap[call[t].name] # 0
       THEN Deliver(t, {scopeMap[call[t].name]})
       ELSE Goto(t, "create") /\ UNCHANGED <<call, result>>
  /\ UNCHANGED <<scopeMap, made>>

NotLookedUpAgain(name) == FALSE                           \* mutant of Exists
Exists(name) == scopeMap[name] # 0

\* scope(name, config), and the second section of scope(name).
GetOrCreate(t) ==
  LET name == call[t].name
      fresh == Len(made) + 1
  IN
  /\ pc[t] = "create"
  /\ IF Exists(name)
       THEN Deliver(t, {scopeMap[name]}) /\ UNCHANGED <<scopeMap, made>>
       ELSE /\ scopeMap' = [scopeMap EXCEPT ![name] = fresh]
            /\ made' = Append(made, [name |-> name, config |-> call[t].config])
            /\ Deliver(t, {fresh})

FindScope(t) ==
  /\ pc[t] = "find"
  /\ Deliver(t, {scopeMap[call[t].name]} \ {0})
  /\ UNCHANGED <<scopeMap, made>>

SkipsTheFirst == {scopeMap[n] : n \in Names} \ {0, 1}     \* mutant of AllScopes
NullsIncluded == {scopeMap[n] : n \in Names}              \* mutant of AllScopes
AllScopes == {scopeMap[n] : n \in Names} \ {0}

ListScopes(t) ==
  /\ pc[t] = "list"
  /\ Deliver(t, AllScopes)
  /\ UNCHANGED <<scopeMap, made>>

Return(t) ==
  /\ pc[t] = "returned"
  /\ Goto(t, "idle")
  /\ call' = [call EXCEPT ![t] = NoCall]
  /\ result' = [result EXCEPT ![t] = {}]
  /\ UNCHANGED <<scopeMap, made>>

Next ==
  \E t \in Threads :
    \/ CallScope(t) \/ CallScopeWith(t) \/ CallFind(t) \/ CallList(t)
    \/ Lookup(t) \/ GetOrCreate(t) \/ FindScope(t) \/ ListScopes(t) \/ Return(t)

Spec == Init /\ [][Next]_vars

----------------------------------------------------------------------------
(* Properties.                                                             *)

\* However scope(name) and scope(name, config) race between the two lookups,
\* a name gets one scope for the life of the process.
OneScopePerName ==
  \A i, j \in 1..Len(made) : made[i].name = made[j].name => i = j

\* Callers who hold a scope of a name at once hold the same one, and so does
\* the map: metrics made through either are listed and reconfigured together.
EveryoneSharesTheScope ==
  \A t \in Threads :
    pc[t] = "returned" /\ call[t].op = "scope" => result[t] = {scopeMap[call[t].name]}

\* What the proofs of these three rest on.  The map and the scopes made are
\* each other's inverse; a call is in a section of its own operation, and what
\* scope has returned is in the map.
MapInv ==
  /\ \A n \in Names : scopeMap[n] # 0 =>
       scopeMap[n] \in 1..Len(made) /\ made[scopeMap[n]].name = n
  /\ \A i \in 1..Len(made) : scopeMap[made[i].name] = i

CallFits(t) ==
  /\ pc[t] = "idle" <=> call[t] = NoCall
  /\ pc[t] \in {"lookup", "create"} => call[t] \in ScopeCalls
  /\ pc[t] = "find" => call[t] \in FindCalls
  /\ pc[t] = "list" => call[t] \in ListCalls
  /\ pc[t] # "returned" => result[t] = {}
  /\ pc[t] = "returned" /\ call[t].op = "scope" =>
       scopeMap[call[t].name] # 0 /\ result[t] = {scopeMap[call[t].name]}

CallInv == \A t \in Threads : CallFits(t)

ScopesInv == TypeOK /\ MapInv /\ CallInv

\* The directory is what its comments say of it ("a later call returns the
\* existing scope and ignores config"; "or nullptr if none has been created";
\* "every process-wide scope created so far"): each call takes effect at one
\* moment, the two sections of scope(name) included.
Directory ==
  INSTANCE ScopeDirectory WITH
    directory <- scopeMap, created <- made, asked <- call,
    answered <- {t \in Threads : pc[t] = "returned"}, answer <- result

ImplementsDirectory == Directory!DirSpec
=============================================================================
