--------------------------- MODULE ScopeDirectory ---------------------------
(***************************************************************************)
(* What the process-wide directory of named scopes promises (the comments  *)
(* of scope.hpp on scope, find_scope and scopes): every call is answered   *)
(* from the directory as it is at one moment of the call, and a name gets  *)
(* its one scope, with the configuration of the call that creates it.      *)
(* Locks and the two lookups of scope(name) do not exist here.             *)
(***************************************************************************)
EXTENDS Naturals, Sequences

CONSTANTS
  Threads,             \* the threads that call
  Names,               \* the names of scopes
  Configs              \* the configurations callers pass

VARIABLES
  directory,           \* directory[n]: the scope named n, 0 if there is none
  created,             \* created[s]: the name and configuration of scope s
  asked,               \* asked[t]: the call t is in
  answered,            \* the threads whose call has taken effect
  answer               \* answer[t]: the scopes its call is given

dirVars == <<directory, created, asked, answered, answer>>

NoRequest == [op |-> "none"]
Requests ==
  [op : {"scope"}, name : Names, config : Configs]
    \union [op : {"find"}, name : Names] \union [op : {"all"}]

DirInit ==
  /\ directory = [n \in Names |-> 0]
  /\ created = <<>>
  /\ asked = [t \in Threads |-> NoRequest]
  /\ answered = {}
  /\ answer = [t \in Threads |-> {}]

Ask(t) ==
  /\ asked[t] = NoRequest
  /\ \E r \in Requests : asked' = [asked EXCEPT ![t] = r]
  /\ UNCHANGED <<directory, created, answered, answer>>

GetOrCreate(t) ==
  LET name == asked[t].name
      fresh == Len(created) + 1
      given == IF directory[name] = 0 THEN fresh ELSE directory[name]
  IN
  /\ asked[t].op = "scope"
  /\ directory' = [directory EXCEPT ![name] = given]
  /\ created' = IF given = fresh
                  THEN Append(created, [name |-> name, config |-> asked[t].config])
                  ELSE created
  /\ answer' = [answer EXCEPT ![t] = {given}]

Look(t) ==
  /\ \E names \in SUBSET Names :
       /\ \/ asked[t].op = "find" /\ names = {asked[t].name}
          \/ asked[t].op = "all" /\ names = Names
       /\ answer' = [answer EXCEPT ![t] = {directory[n] : n \in names} \ {0}]
  /\ UNCHANGED <<directory, created>>

Answer(t) ==
  /\ t \notin answered
  /\ GetOrCreate(t) \/ Look(t)
  /\ answered' = answered \union {t}
  /\ UNCHANGED asked

Leave(t) ==
  /\ t \in answered
  /\ answered' = answered \ {t}
  /\ asked' = [asked EXCEPT ![t] = NoRequest]
  /\ answer' = [answer EXCEPT ![t] = {}]
  /\ UNCHANGED <<directory, created>>

DirNext == \E t \in Threads : Ask(t) \/ Answer(t) \/ Leave(t)

DirSpec == DirInit /\ [][DirNext]_dirVars
=============================================================================
