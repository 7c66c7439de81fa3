---------------------------- MODULE MetricCoreInv ----------------------------
(***************************************************************************)
(* The inductive invariant of MetricCore: what each thread knows at each   *)
(* step of bind, rebind and build about the versions and values it has     *)
(* read, and why the registrations it makes are ordered and fresh.         *)
(***************************************************************************)
EXTENDS MetricCore

Writes(t) == path[t] \in {"rebind", "build"}

\* Which steps belong to which function, and who may be in them.
ControlInv ==
  /\ \A t \in Threads :
       /\ path[t] = "none" => pc[t] \in {"idle", "ready"}
       /\ path[t] = "bind" => pc[t] \in {"adapter_version", "self_version",
                                         "parent_version", "compare", "lock"}
       /\ path[t] = "rebind" => pc[t] \in {"adapter_version", "self_version",
                                           "parent_version", "recheck", "adapter",
                                           "decorate", "register", "publish"}
       /\ path[t] = "build" => pc[t] \in {"self_version", "decorate", "adapter_version",
                                          "adapter", "register", "publish"}
       /\ pc[t] = "parent_version" => HasParent
       /\ pc[t] \in {"register", "publish"} => unread[t] = {}
       /\ path[t] = "build" /\ pc[t] = "self_version" => unread[t] = Slots
       /\ path[t] = "build" /\ pc[t] \in {"adapter_version", "adapter"} => unread[t] = {}
       /\ t \in bindMutex <=> path[t] = "rebind"
       /\ path[t] = "build" => ~made
       /\ ~made => path[t] \in {"none", "build"} /\ pc[t] # "ready"
  /\ \A t, u \in Threads : Writes(t) /\ Writes(u) => t = u
  /\ ~made => Kind = "registry"

\* What a completed call has stored is still there, or something newer.
StoreInv ==
  /\ cellDone <= cellAdapter
  /\ \A n \in cellPending : n <= cellAdapter
  /\ \A s \in Slots : config[s] <= writes[s[1]] /\ decoDone[s] <= config[s]
  /\ \A w \in decoPending : \A f \in w.fields : w.number <= config[<<w.deco, f>>]

\* A value read after its version: no older than what is complete, unless the
\* version has moved since.
AdapterRead(v, a) ==
  /\ v <= cellVersion
  /\ a <= cellAdapter
  /\ v = cellVersion => cellDone <= a
SlotRead(s, v, x) ==
  /\ v <= decoVersion[s[1]]
  /\ x <= config[s]
  /\ v = decoVersion[s[1]] => decoDone[s] <= x

\* b is the Bound published for registration b.handle.
IsBound(b) ==
  /\ b.handle = 0 => b = NoBound
  /\ b.handle # 0 => /\ b.handle \in 1..Len(log)
                     /\ b.adapter = log[b.handle].adapter
                     /\ b.adapter_version = log[b.handle].av
                     /\ b.scope_version = Version(log[b.handle].ver)

LogInv ==
  /\ \A i \in 1..Len(log) :
       /\ AdapterRead(log[i].av, log[i].adapter)
       /\ \A s \in Slots : SlotRead(s, log[i].ver[s[1]], log[i].meta[s])
  /\ RegistrationsAdvance
  /\ IsBound(bound)
  /\ ~made => bound.handle = 0
  /\ made /\ Kind = "registry" => bound.handle # 0
  /\ (\A t \in Threads : pc[t] # "publish") => bound.handle = Len(log)
  /\ \A t \in Threads : pc[t] = "publish" =>
       /\ handle[t] = Len(log)
       /\ Len(log) = bound.handle + 1
       /\ log[Len(log)] = [adapter |-> got[t], av |-> av[t], ver |-> ver[t], meta |-> meta[t]]

\* What t has read so far.
HasAdapterVersion(t) ==
  \/ path[t] = "bind" /\ pc[t] \in {"self_version", "parent_version", "compare"}
  \/ path[t] = "rebind" /\ pc[t] # "adapter_version"
  \/ path[t] = "build" /\ pc[t] \in {"adapter", "register", "publish"}
HasVersion(t, d) ==
  \/ path[t] = "bind" /\ pc[t] \in (IF d = "self" THEN {"parent_version", "compare"}
                                                  ELSE {"compare"})
  \/ path[t] = "rebind" /\ pc[t] \notin {"adapter_version", "self_version"}
                        /\ (d = "parent" => pc[t] # "parent_version")
  \/ path[t] = "build" /\ pc[t] # "self_version"
HasAdapter(t) ==
  \/ path[t] = "rebind" /\ pc[t] \in {"decorate", "register", "publish"}
  \/ path[t] = "build" /\ pc[t] \in {"register", "publish"}
HasSlot(t, s) ==
  /\ s \notin unread[t]
  /\ \/ path[t] = "rebind" /\ pc[t] \in {"decorate", "register", "publish"}
     \/ path[t] = "build" /\ pc[t] # "self_version"

\* The registration whose versions t compares with its own.
Base(t) == IF path[t] = "bind" THEN seen[t].handle ELSE bound.handle

AdapterVersionInv(t) == HasAdapterVersion(t) =>
  /\ av[t] <= cellVersion
  /\ Base(t) # 0 =>
       /\ log[Base(t)].av <= av[t]
       /\ log[Base(t)].av = av[t] => start[t].adapter <= log[Base(t)].adapter
VersionInv(t) == \A d \in Decos : HasVersion(t, d) =>
  /\ ver[t][d] <= decoVersion[d]
  /\ Base(t) # 0 =>
       /\ log[Base(t)].ver[d] <= ver[t][d]
       /\ log[Base(t)].ver[d] = ver[t][d] =>
            \A f \in Fields : start[t].done[<<d, f>>] <= log[Base(t)].meta[<<d, f>>]
AdapterInv(t) == HasAdapter(t) =>
  /\ AdapterRead(av[t], got[t])
  /\ start[t].adapter <= got[t]
  /\ Base(t) # 0 => log[Base(t)].adapter <= got[t]
SlotInv(t) == \A s \in Slots : HasSlot(t, s) =>
  /\ SlotRead(s, ver[t][s[1]], meta[t][s])
  /\ start[t].done[s] <= meta[t][s]
  /\ Base(t) # 0 => log[Base(t)].meta[s] <= meta[t][s]
ReadInv(t) == AdapterVersionInv(t) /\ VersionInv(t) /\ AdapterInv(t) /\ SlotInv(t)

\* Past the second check, t's versions are newer than the published ones.
AdvanceInv(t) ==
  path[t] = "rebind" /\ pc[t] \in {"adapter", "decorate", "register"} /\ bound.handle # 0 =>
    \/ av[t] # log[bound.handle].av
    \/ \E d \in Decos : ver[t][d] # log[bound.handle].ver[d]

\* What t's call could rely on, and what it is given.
CallInv(t) ==
  /\ start[t].adapter <= cellDone
  /\ \A s \in Slots : start[t].done[s] <= decoDone[s]
  /\ start[t].handle <= bound.handle
  /\ path[t] = "bind" /\ pc[t] # "lock" =>
       /\ IsBound(seen[t])
       /\ seen[t].handle # 0
       /\ start[t].handle <= seen[t].handle
       /\ seen[t].handle <= bound.handle
  /\ pc[t] = "ready" =>
       /\ binding[t].handle \in 1..Len(log)
       /\ binding[t].adapter = log[binding[t].handle].adapter
       /\ start[t].handle <= binding[t].handle
       /\ AtLeast(log[binding[t].handle], start[t])
  /\ pc[t] # "ready" => binding[t] = NoBinding

\* The inductive invariant: TypeOK, and every thread's knowledge.
IInv ==
  /\ TypeOK
  /\ ControlInv
  /\ StoreInv
  /\ LogInv
  /\ \A t \in Threads : ReadInv(t) /\ AdvanceInv(t) /\ CallInv(t)
=============================================================================
