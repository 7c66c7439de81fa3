---------------------------- MODULE Enumeration ----------------------------
(***************************************************************************)
(* The factories of a Registry or a Scope, the list of weak references     *)
(* they keep, and metrics(), which lists it (registry.hpp, scope.hpp),     *)
(* while the program drops metrics and reconfigures the decoration.        *)
(*                                                                         *)
(* A metric is the number of its core.  Its core lives while somebody      *)
(* holds a shared_ptr to it: the program, the factory that is making it,   *)
(* or a listing that has locked the weak reference.  The binding that      *)
(* build publishes is MetricCore's; here it matters only that the spec     *)
(* has reached the adapter.                                                *)
(***************************************************************************)
EXTENDS Decoration, Validation

CONSTANTS
  Threads,             \* the threads that make and list metrics
  Kind,                \* whose factories they call: "registry" or "scope"
  Specs,               \* the specs the first of them is called with
  Usual,               \* bound: the specs of the calls after the first metric
  MaxMetrics           \* bound: metrics made in one behaviour

ASSUME EnumerationAssumption ==
  /\ Kind \in {"registry", "scope"}
  /\ Specs \subseteq AnySpec
  /\ Usual \subseteq Specs
  /\ MaxMetrics \in Nat
  /\ Fields \cap {"prefix", "labels"} # {}                \* describe reads one of them

VARIABLES
  made,                \* history: the spec of each core, defaults filled in
  outcome,             \* history: the last factory call that was decided, if any
  registered,          \* the metrics the adapter was given
  list,                \* metrics_: the weak references
  mutex,               \* the thread that holds mutex_
  held,                \* the metrics the program holds
  destroyed,           \* the metrics whose core is gone
  pc,                  \* pc[t]: t's next step
  making,              \* making[t]: the core t's factory call holds, 0 if none
  listing              \* listing[t]: the locals of t's metrics() call

metricVars == <<made, outcome, registered, held, destroyed>>
vars == <<decoVars, metricVars, list, mutex, pc, making, listing>>

Metrics == 1..MaxMetrics
Described == Slots \cap (Decos \X {"prefix", "labels"})
Views == [Described -> Nat]
Blank == [s \in Described |-> 0]

\* at: the iterator into the list, then into live.  live: the cores collected.
\* unread, view: what describe has yet to read and has read for one core.
\* out: the result.  The rest is history: the metrics listed and the metrics
\* gone, and the decoration in place, when the call began.
Listings ==
  [at : Nat, live : Seq(Metrics), unread : SUBSET Described, view : Views,
   out : SUBSET [metric : Metrics, view : Views],
   known : SUBSET Metrics, gone : SUBSET Metrics, floor : Views]
NoListing ==
  [at |-> 0, live |-> <<>>, unread |-> {}, view |-> Blank, out |-> {},
   known |-> {}, gone |-> {}, floor |-> Blank]

TypeOK ==
  /\ DecoTypeOK
  /\ Len(made) <= MaxMetrics
  /\ registered \subseteq Metrics /\ held \subseteq Metrics
  /\ destroyed \subseteq Metrics
  /\ list \in Seq(Metrics) /\ IsInjective(list)
  /\ mutex \in {{}} \union {{t} : t \in Threads}
  /\ pc \in [Threads -> {"idle", "register", "track", "collect", "erase", "describe",
                         "listed"}]
  /\ making \in [Threads -> 0..MaxMetrics]
  /\ listing \in [Threads -> Listings]

Init ==
  /\ DecoInit
  /\ made = <<>> /\ registered = {} /\ held = {} /\ destroyed = {}
  /\ outcome = {}
  /\ list = <<>>
  /\ mutex = {}
  /\ pc = [t \in Threads |-> "idle"]
  /\ making = [t \in Threads |-> 0]
  /\ listing = [t \in Threads |-> NoListing]

Goto(t, label) == pc' = [pc EXCEPT ![t] = label]
MutexIgnored == TRUE                                      \* mutant of MutexFree
MutexFree == mutex = {}

\* lock() on a weak_ptr succeeds while some shared_ptr is left.
HeldInMaking(m) == \E t \in Threads : making[t] = m
HeldByListing(m, threads) == \E t \in threads : m \in ToSet(listing[t].live)
Alive(m) == m \in held \/ HeldInMaking(m) \/ HeldByListing(m, Threads)

----------------------------------------------------------------------------
(* The factories.                                                          *)

\* A registry's factories check the spec; a scope's make<> does not.
Decision(spec) == IF Kind = "registry" THEN Refusal(spec) ELSE Accepted

Offered == IF made = <<>> THEN Specs ELSE Usual

\* counter, gauge, histogram... raise an Exception with the code, their try_
\* mirrors return it, in either case before anything is made.
Refuse(t) ==
  /\ pc[t] = "idle"
  /\ \E spec \in Offered :
       /\ Decision(spec) # Accepted
       /\ outcome' = {[spec |-> spec, code |-> Decision(spec)]}
  /\ UNCHANGED <<decoVars, made, registered, held, destroyed, list, mutex, pc, making,
                 listing>>

RegistersLazily == "track"                                \* mutant of AfterMake

\* A registry registers eagerly; a scope's metric waits for its first use.
AfterMake == IF Kind = "registry" THEN "register" ELSE "track"

\* make_shared<MetricCore> and its fields.
Make(t) ==
  /\ pc[t] = "idle"
  /\ Len(made) < MaxMetrics
  /\ \E spec \in Offered :
       /\ Decision(spec) = Accepted
       /\ outcome' = {[spec |-> spec, code |-> Accepted]}
       /\ made' = Append(made, Filled(spec))
  /\ making' = [making EXCEPT ![t] = Len(made) + 1]
  /\ Goto(t, AfterMake)
  /\ UNCHANGED <<decoVars, registered, held, destroyed, list, mutex, listing>>

\* register_metric.  (What is registered is the spec as the decoration makes it;
\* how that is read is MetricCore's.  Neither the prefix nor the labels of a
\* decoration are checked by anybody.)
Register(t) ==
  /\ pc[t] = "register"
  /\ registered' = registered \union {making[t]}
  /\ Goto(t, "track")
  /\ UNCHANGED <<decoVars, made, outcome, held, destroyed, list, mutex, making, listing>>

\* track(), or the push_back of make<>, and the metric is the program's.
Track(t) ==
  /\ pc[t] = "track"
  /\ MutexFree
  /\ list' = Append(list, making[t])
  /\ held' = held \union {making[t]}
  /\ making' = [making EXCEPT ![t] = 0]
  /\ Goto(t, "idle")
  /\ UNCHANGED <<decoVars, made, outcome, registered, destroyed, mutex, listing>>

RawPointers(m, threads) == FALSE                          \* mutant of KeptAlive
KeptAlive(m, threads) == HeldByListing(m, threads)

\* The program lets go of its last handle and of the metric's children.
Drop(m) ==
  /\ m \in held
  /\ held' = held \ {m}
  /\ destroyed' = IF KeptAlive(m, Threads) THEN destroyed ELSE destroyed \union {m}
  /\ UNCHANGED <<decoVars, made, outcome, registered, list, mutex, pc, making, listing>>

----------------------------------------------------------------------------
(* metrics().                                                              *)

BeginListing(t) ==
  /\ pc[t] = "idle"
  /\ MutexFree
  /\ mutex' = mutex \union {t}
  /\ listing' = [listing EXCEPT ![t] =
       [NoListing EXCEPT !.at = 1, !.known = held, !.gone = destroyed,
                         !.floor = [s \in Described |-> decoDone[s]]]]
  /\ Goto(t, "collect")
  /\ UNCHANGED <<decoVars, metricVars, list, making>>

\* One weak reference: locked and collected, or expired and to be erased.
Collect(t) ==
  LET m == list[listing[t].at] IN
  /\ pc[t] = "collect"
  /\ listing[t].at <= Len(list)
  /\ IF Alive(m)
       THEN /\ listing' = [listing EXCEPT ![t].at = @ + 1, ![t].live = Append(@, m)]
            /\ UNCHANGED pc
       ELSE Goto(t, "erase") /\ UNCHANGED listing
  /\ UNCHANGED <<decoVars, metricVars, list, mutex, making>>

StepsOver(at) == at + 1                                   \* mutant of AfterErase

\* erase() returns the iterator of the element that moves into the gap.
AfterErase(at) == at

Erase(t) ==
  /\ pc[t] = "erase"
  /\ list' = RemoveAt(list, listing[t].at)
  /\ listing' = [listing EXCEPT ![t].at = AfterErase(@)]
  /\ Goto(t, "collect")
  /\ UNCHANGED <<decoVars, metricVars, mutex, making>>

\* The next core to describe, if there is one.
Describing(call, at) ==
  [call EXCEPT !.at = at, !.view = Blank,
               !.unread = IF at <= Len(call.live) THEN Described ELSE {}]
Continue(t, call) ==
  /\ listing' = [listing EXCEPT ![t] = call]
  /\ Goto(t, IF call.unread = {} THEN "listed" ELSE "describe")

\* The end of the list: the mutex is released.
Collected(t) ==
  /\ pc[t] = "collect"
  /\ listing[t].at > Len(list)
  /\ mutex' = mutex \ {t}
  /\ Continue(t, Describing(listing[t], 1))
  /\ UNCHANGED <<decoVars, metricVars, list, making>>

\* describe(): full_name, then effective_labels, each slot under its own lock.
\* (decorates() is read last and decides nothing; unit_view(), which is read
\* without unit_mutex, is UnitLatch's.)
RegisteredValue(s) == 0                                   \* mutant of Effective
Effective(s) == config[s]

Describe(t) ==
  LET call == listing[t] IN
  /\ pc[t] = "describe"
  /\ \E s \in call.unread :
       /\ \A r \in call.unread \ {s} : ReadsBefore(s, r)
       /\ LET view == [call.view EXCEPT ![s] = Effective(s)]
              read == [call EXCEPT !.view = view, !.unread = @ \ {s}]
          IN Continue(t, IF read.unread # {} THEN read
                         ELSE Describing([read EXCEPT !.out = @ \union
                                {[metric |-> call.live[call.at], view |-> view]}],
                                call.at + 1))
  /\ UNCHANGED <<decoVars, metricVars, list, mutex, making>>

\* The result is returned, and the cores collected are let go.
Return(t) ==
  /\ pc[t] = "listed"
  /\ destroyed' = destroyed \union
       {m \in ToSet(listing[t].live) : m \notin held /\ ~KeptAlive(m, Threads \ {t})}
  /\ listing' = [listing EXCEPT ![t] = NoListing]
  /\ Goto(t, "idle")
  /\ UNCHANGED <<decoVars, made, outcome, registered, held, list, mutex, making>>

----------------------------------------------------------------------------
Redecorate == DecoNext /\ UNCHANGED <<metricVars, list, mutex, pc, making, listing>>

Next ==
  \/ \E t \in Threads :
       \/ Refuse(t) \/ Make(t) \/ Register(t) \/ Track(t)
       \/ BeginListing(t) \/ Collect(t) \/ Erase(t) \/ Collected(t) \/ Describe(t)
       \/ Return(t)
  \/ \E m \in Metrics : Drop(m)
  \/ Redecorate

Spec == Init /\ [][Next]_vars

----------------------------------------------------------------------------
(* Properties.                                                             *)

\* A factory refuses exactly the specs that have a defect, and names one of
\* them, whatever the order of the checks.
RefusalIsExact ==
  \A call \in outcome :
    IF call.code = Accepted THEN Defects(Filled(call.spec)) = {}
                            ELSE call.code \in Defects(Filled(call.spec))

\* A metric the program holds is in the list, through every pruning by every
\* listing.
NoneForgotten == held \subseteq ToSet(list)

\* A listing returns each metric that was listed when it began and lives
\* until it ends ("every (still-alive) metric created from this registry").
ListingIsComplete ==
  \A t \in Threads : pc[t] = "listed" =>
    listing[t].known \ destroyed \subseteq {i.metric : i \in listing[t].out}

\* What a registry lists, its backend knows, although a listing of one thread may
\* come between the steps of a factory called by another ("Register eagerly ...
\* so the family exists at creation and metrics() can list it before first
\* use").
ListedAreRegistered ==
  Kind = "registry" =>
    \A t \in Threads : {i.metric : i \in listing[t].out} \subseteq registered

\* A listing leaves no reference that had expired when it began ("Expired
\* entries are pruned"), so between listings the list grows only by what is
\* made.
ListingPrunes ==
  \A t \in Threads : pc[t] \in {"describe", "listed"} =>
    listing[t].gone \cap ToSet(list) = {}

\* No core is destroyed while a listing is describing it, although describe
\* runs after the mutex is released and the program may let go of it.
DescribesTheLiving ==
  \A t \in Threads : ToSet(listing[t].live) \cap destroyed = {}

\* Names and labels in a listing are the live ones: no older than the changes
\* that had returned when it began ("computed live from the current scope
\* config").
ListingIsLive ==
  \A t \in Threads : \A i \in listing[t].out :
    \A s \in Described : i.view[s] >= listing[t].floor[s]
=============================================================================
