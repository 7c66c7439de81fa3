----------------------------- MODULE LiveBinding -----------------------------
(***************************************************************************)
(* What a metric promises its users about live reconfiguration, without    *)
(* versions, locks or caching (the class comments of global.hpp and        *)
(* registry.hpp: an already-created metric re-registers "on its next use").*)
(*                                                                         *)
(* Each source of configuration (the adapter, a decoration's field) has a  *)
(* current value, a number that grows with every change, and a value that  *)
(* the callers of the changes know to be in place.  A use is served a view *)
(* of the sources: each value in it is one the source had, no older than   *)
(* what was in place when the use began, nor than the view the metric had  *)
(* published by then.  Nothing is promised about values of different       *)
(* sources belonging together.                                             *)
(***************************************************************************)
EXTENDS Naturals

CONSTANTS Threads, Sources

VARIABLES
  current,             \* the value of each source
  completed,           \* the newest value whose change has returned
  published,           \* the view the metric last published
  phase,               \* phase[t]: idle, running or served
  floor,               \* floor[t]: the oldest view t's use may be served
  served               \* served[t]: the view it was served

absVars == <<current, completed, published, phase, floor, served>>

NotOlder(v, w) == \A s \in Sources : v[s] >= w[s]
NewestOf(v, w) == [s \in Sources |-> IF v[s] >= w[s] THEN v[s] ELSE w[s]]
Nothing == [s \in Sources |-> 0]

AbsInit ==
  /\ current = Nothing /\ completed = Nothing /\ published = Nothing
  /\ phase = [t \in Threads |-> "idle"]
  /\ floor = [t \in Threads |-> Nothing]
  /\ served = [t \in Threads |-> Nothing]

Change ==
  /\ NotOlder(current', current)
  /\ UNCHANGED <<completed, published, phase, floor, served>>

Complete ==
  /\ NotOlder(completed', completed)
  /\ NotOlder(current, completed')
  /\ UNCHANGED <<current, published, phase, floor, served>>

Begin(t) ==
  /\ phase[t] = "idle"
  /\ phase' = [phase EXCEPT ![t] = "running"]
  /\ floor' = [floor EXCEPT ![t] = NewestOf(completed, published)]
  /\ UNCHANGED <<current, completed, published, served>>

Serve(t) ==
  /\ phase[t] = "running"
  /\ phase' = [phase EXCEPT ![t] = "served"]
  /\ served' = [served EXCEPT ![t] = served'[t]]
  /\ NotOlder(served'[t], floor[t])
  /\ NotOlder(current, served'[t])
  /\ published' = published \/ (published' = served'[t] /\ NotOlder(published', published))
  /\ UNCHANGED <<current, completed, floor>>

Finish(t) ==
  /\ phase[t] = "served"
  /\ phase' = [phase EXCEPT ![t] = "idle"]
  /\ floor' = [floor EXCEPT ![t] = Nothing]
  /\ served' = [served EXCEPT ![t] = Nothing]
  /\ UNCHANGED <<current, completed, published>>

AbsNext == Change \/ Complete \/ \E t \in Threads : Begin(t) \/ Serve(t) \/ Finish(t)

AbsSpec == AbsInit /\ [][AbsNext]_absVars
=============================================================================
