-------------------------- MODULE AttachedAdapter --------------------------
(***************************************************************************)
(* The contract of one adapter (adapter.hpp) attached to the program's     *)
(* metrics: threads call it at will, every call takes effect once, at one  *)
(* moment of the call, and register_metric and resolve give a handle of    *)
(* the series that was asked for.                                          *)
(***************************************************************************)
EXTENDS Naturals

CONSTANTS
  Threads,             \* the threads that call
  Metrics,             \* the metrics that register
  LabelSets,           \* the dynamic labels, with NoLabels
  NoLabels

Series == Metrics \X LabelSets
CallsOn(s) == [op : {"inc", "set"}, series : {s}] \union
              [op : {"resolve"}, series : {<<s[1], l>> : l \in LabelSets}]

VARIABLES
  value,               \* value[s]: what the adapter shows for series s
  known,               \* the series it has registered or resolved
  held,                \* the series the program holds a handle of
  asked,               \* asked[t]: the call t is in
  heard                \* the threads whose call the adapter has carried out

attachedVars == <<value, known, held, asked, heard>>

NotCalling == [op |-> "none"]

AttachedInit ==
  /\ value = [s \in Series |-> 0]
  /\ known = {}
  /\ held = {}
  /\ asked = [t \in Threads |-> NotCalling]
  /\ heard = {}

Ask(t) ==
  /\ asked[t] = NotCalling
  /\ \E c \in [op : {"register"}, series : Metrics \X {NoLabels}]
                \union UNION {CallsOn(s) : s \in held} :
       asked' = [asked EXCEPT ![t] = c]
  /\ UNCHANGED <<value, known, held, heard>>

\* Set writes 3.
Effect(op, v) == IF op = "inc" THEN v + 1 ELSE 3

CarryOut(t) ==
  /\ asked[t] # NotCalling
  /\ t \notin heard
  /\ heard' = heard \union {t}
  /\ IF asked[t].op \in {"register", "resolve"}
       THEN known' = known \union {asked[t].series} /\ UNCHANGED value
       ELSE /\ value' = [value EXCEPT ![asked[t].series] = Effect(asked[t].op, @)]
            /\ UNCHANGED known
  /\ UNCHANGED <<held, asked>>

Answer(t) ==
  /\ t \in heard
  /\ held' = IF asked[t].op \in {"register", "resolve"}
               THEN held \union {asked[t].series} ELSE held
  /\ asked' = [asked EXCEPT ![t] = NotCalling]
  /\ heard' = heard \ {t}
  /\ UNCHANGED <<value, known>>

AttachedNext == \E t \in Threads : Ask(t) \/ CarryOut(t) \/ Answer(t)

AttachedSpec == AttachedInit /\ [][AttachedNext]_attachedVars
=============================================================================
