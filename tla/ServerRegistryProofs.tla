------------------------- MODULE ServerRegistryProofs -------------------------
(***************************************************************************)
(* Proofs about the setup of a server, for any services, goroutines, calls *)
(* and filters.  They rest on what the holder of the mutex has still to do *)
(* (Committing): the services of its call that it has not committed belong *)
(* to nobody, the others belong to its call.                               *)
(***************************************************************************)
EXTENDS ServerRegistry, TLAPS

Typed ==
    /\ mu \in Thread \cup {NoThread}
    /\ frozen \in BOOLEAN /\ frozenFast \in BOOLEAN
    /\ registered \in [Service -> Group \cup {NoGroup}]
    /\ pc \in [Thread -> {"idle", "connecting", "committing", "freezing", "serving"}]
    /\ group \in [Thread -> Group \cup {NoGroup}]
    /\ todo \in Seq(Service)

\* freeze waits for the mutex, and nothing takes it afterwards.
Frozen ==
    /\ frozen => mu = NoThread
    /\ frozenFast => frozen
    /\ \A t \in Thread : pc[t] = "serving" => frozen

Pending == ToSet(todo)
OffersOf(g) == ToSet(Offers[g])

Committing ==
    mu # NoThread =>
        /\ group[mu] \in Group
        /\ IsInjective(todo)
        /\ \A s \in Pending : s \in OffersOf(group[mu]) /\ registered[s] = NoGroup
        /\ \A s \in OffersOf(group[mu]) : s \notin Pending => registered[s] = group[mu]

\* A call that is not being committed owns all its services or none.
Whole ==
    \A g \in Group : (mu # NoThread => g # group[mu]) =>
        \A s, r \in OffersOf(g) : registered[s] = g => registered[r] = g

Registered == {s \in Service : registered[s] # NoGroup}

Projected ==
    /\ native = Builtin \cup Registered
    /\ tools = UNION {ToolsForService(registered[s], s) : s \in Registered}

Inv == Typed /\ Frozen /\ Committing /\ Whole /\ Projected

\* The steps that neither take nor use the mutex.
Setter == \E t \in Thread :
    \/ \E n \in 0..MaxCap : SetMaxBytes(t, n) \/ \E m \in Configured : ConfigureMethod(t, m, n)
    \/ \E i \in Interceptor : Use(t, i)
Filter == \E t \in Thread, p \in Pattern : Include(t, p) \/ Exclude(t, p)
Serving == \E t \in Thread : Start(t) \/ FreezeFast(t) \/ FreezeSlow(t) \/ Finish(t)

LEMMA InitInv == Init => Inv
<1> SUFFICES ASSUME Init
             PROVE  Inv
  OBVIOUS
<1> USE RegistryAssumption DEF Init
<1>1. Typed
  <2>1. frozen \in BOOLEAN /\ frozenFast \in BOOLEAN
    BY Zenon
  <2>2. mu \in Thread \cup {NoThread} /\ todo \in Seq(Service)
    OBVIOUS
  <2>3. /\ registered \in [Service -> Group \cup {NoGroup}]
        /\ group \in [Thread -> Group \cup {NoGroup}]
        /\ pc \in [Thread -> {"idle", "connecting", "committing", "freezing", "serving"}]
    OBVIOUS
  <2>4. QED
    BY <2>1, <2>2, <2>3, Zenon DEF Typed
<1>0. Frozen /\ Committing
  BY DEF Frozen, Committing
<1>2. Registered = {}
  BY DEF Registered
<1>3. Whole
  <2> SUFFICES ASSUME NEW g \in Group, NEW s \in OffersOf(g), registered[s] = g
               PROVE  FALSE
    BY DEF Whole
  <2>1. s \in Service
    BY DEF OffersOf, ToSet
  <2>2. QED
    BY <2>1
<1>4. Projected
  BY <1>2 DEF Projected
<1>5. QED
  BY <1>0, <1>1, <1>3, <1>4 DEF Inv

\* What a step that leaves the registrations and the filters alone preserves.
LEMMA KeepsProjected ==
  ASSUME Inv, UNCHANGED <<registered, native, tools>>,
         UNCHANGED <<includes, excludes>> \/ Registered = {}
  PROVE  Projected'
<1>1. Registered' = Registered
  BY DEF Registered
<1>2. CASE UNCHANGED <<includes, excludes>>
  <2>1. \A g, s : ToolsForService(g, s)' = ToolsForService(g, s)
    BY <1>2 DEF ToolsForService, ShouldInclude
  <2>2. QED
    BY <1>1, <2>1 DEF Inv, Projected
<1>3. CASE Registered = {}
  BY <1>1, <1>3 DEF Inv, Projected
<1>4. QED
  BY <1>2, <1>3

LEMMA SetterInv == Inv /\ (Setter \/ Filter) => Inv'
<1> SUFFICES ASSUME Inv, Setter \/ Filter
             PROVE  Inv'
  OBVIOUS
<1>1. UNCHANGED <<mu, frozen, frozenFast, pc, group, todo, registered, native, tools>>
  BY DEF Setter, Filter, SetMaxBytes, ConfigureMethod, Use, Include, Exclude
<1>2. UNCHANGED <<includes, excludes>> \/ Registered = {}
  BY DEF Setter, Filter, SetMaxBytes, ConfigureMethod, Use, Include, Exclude,
         UpdateProjectionFilters, Registered
<1>3. Projected'
  BY <1>1, <1>2, KeepsProjected
<1>4. Typed' /\ Frozen'
  BY <1>1 DEF Inv, Typed, Frozen
<1>5. Committing' /\ Whole'
  BY <1>1 DEF Inv, Committing, Whole, Pending, OffersOf
<1>6. QED
  BY <1>3, <1>4, <1>5 DEF Inv

LEMMA ServingInv == Inv /\ Serving => Inv'
<1> SUFFICES ASSUME Inv, Serving
             PROVE  Inv'
  OBVIOUS
<1>1. UNCHANGED <<mu, setup, group, todo>>
  BY DEF Serving, Start, FreezeFast, FreezeSlow, Finish
<1>2. Projected'
  BY <1>1, KeepsProjected DEF setup
<1>3. Typed'
  BY <1>1 DEF Inv, Typed, setup, Serving, Start, FreezeFast, FreezeSlow, Finish
<1>4. Frozen'
  BY <1>1 DEF Inv, Typed, Frozen, Serving, Start, FreezeFast, FreezeSlow, Finish
<1>5. Committing' /\ Whole'
  BY <1>1 DEF Inv, Committing, Whole, Pending, OffersOf, setup
<1>6. QED
  BY <1>2, <1>3, <1>4, <1>5 DEF Inv

LEMMA ConnectInv ==
  ASSUME Inv, NEW t \in Thread, NEW g \in Group, Connect(t, g)
  PROVE  Inv'
<1>1. UNCHANGED <<mu, frozen, frozenFast, setup, todo>> /\ mu = NoThread
  BY DEF Connect
<1>2. Projected'
  BY <1>1, KeepsProjected DEF setup
<1>3. Typed' /\ Frozen'
  BY <1>1 DEF Inv, Typed, Frozen, setup, Connect
<1>4. Committing' /\ Whole'
  BY <1>1 DEF Inv, Committing, Whole, Pending, OffersOf, setup
<1>5. QED
  BY <1>2, <1>3, <1>4 DEF Inv

LEMMA RegisterInv ==
  ASSUME Inv, NEW t \in Thread, NEW g \in Group, Register(t, g)
  PROVE  Inv'
<1> USE RegistryAssumption
<1>1. UNCHANGED <<frozen, frozenFast, setup>> /\ mu = NoThread
  BY DEF Register
<1>2. Projected'
  BY <1>1, KeepsProjected DEF setup
<1>3. CASE Stages(g)
  <2>1. /\ mu' = t /\ todo' = Offers[g] /\ group' = [group EXCEPT ![t] = g]
        /\ pc' = [pc EXCEPT ![t] = "committing"]
    BY <1>3 DEF Register
  <2>2. ~frozen /\ IsInjective(Offers[g]) /\ \A s \in OffersOf(g) : registered[s] = NoGroup
    BY <1>3 DEF Stages, OffersOf
  <2>3. Typed' /\ Frozen'
    BY <1>1, <2>1, <2>2 DEF Inv, Typed, Frozen, setup
  <2>4. group'[t] = g /\ registered' = registered
    BY <1>1, <2>1 DEF Inv, Typed, setup
  <2>5. Pending' = OffersOf(g)
    BY <2>1 DEF Pending, OffersOf
  <2>6. Committing'
    BY <2>1, <2>2, <2>4, <2>5 DEF Committing, OffersOf
  <2>7. Whole'
    BY <1>1, <2>1, <2>4 DEF Inv, Whole, OffersOf
  <2>8. QED
    BY <1>2, <2>3, <2>6, <2>7 DEF Inv
<1>4. CASE ~Stages(g)
  <2>1. /\ UNCHANGED <<mu, todo, registered>> /\ group' = [group EXCEPT ![t] = NoGroup]
        /\ pc' = [pc EXCEPT ![t] = "idle"]
    BY <1>4, <1>1 DEF Register, setup
  <2>2. Typed' /\ Frozen'
    BY <1>1, <2>1 DEF Inv, Typed, Frozen, setup
  <2>3. Committing' /\ Whole'
    BY <1>1, <2>1 DEF Inv, Committing, Whole, OffersOf
  <2>4. QED
    BY <1>2, <2>2, <2>3 DEF Inv
<1>5. QED
  BY <1>3, <1>4

LEMMA CommitInv ==
  ASSUME Inv, NEW t \in Thread, CommitService(t)
  PROVE  Inv'
<1> USE RegistryAssumption
<1> DEFINE s == Head(todo)
           g == group[t]
<1>1. /\ mu = t /\ todo # <<>> /\ todo \in Seq(Service) /\ mu # NoThread
      /\ registered \in [Service -> Group \cup {NoGroup}]
  BY DEF CommitService, Inv, Typed
<1>2. /\ todo' = Tail(todo) /\ registered' = [registered EXCEPT ![s] = g]
      /\ native' = native \cup {s} /\ tools' = tools \cup ToolsForService(g, s)
      /\ UNCHANGED <<mu, frozen, frozenFast, includes, excludes, pc, group>>
  BY <1>1 DEF CommitService
<1>3. g \in Group /\ g # NoGroup /\ IsInjective(todo)
  BY <1>1 DEF Inv, Committing
<1>4. s \in Service /\ s \in Pending
  BY <1>1 DEF Pending, ToSet
<1>5. s \in OffersOf(g) /\ registered[s] = NoGroup
  BY <1>1, <1>4 DEF Inv, Committing
<1>6. IsInjective(todo') /\ Pending' = Pending \ {s}
  <2>1. /\ DOMAIN todo = 1..Len(todo) /\ Len(todo) \in Nat \ {0} /\ todo[1] = s
        /\ DOMAIN Tail(todo) = 1..(Len(todo) - 1)
        /\ \A i \in 1..(Len(todo) - 1) : Tail(todo)[i] = todo[i + 1]
    BY <1>1
  <2>2. IsInjective(todo')
    BY <1>2, <1>3, <2>1 DEF IsInjective
  <2>3. ASSUME NEW r \in Pending'
        PROVE  r \in Pending \ {s}
    <3>1. PICK i \in 1..(Len(todo) - 1) : Tail(todo)[i] = r
      BY <1>2, <2>1 DEF Pending, ToSet
    <3>2. i + 1 \in 1..Len(todo) /\ todo[i + 1] = r
      BY <2>1, <3>1
    <3>3. r # s
      BY <1>3, <2>1, <3>1, <3>2 DEF IsInjective
    <3>4. QED
      BY <2>1, <3>2, <3>3 DEF Pending, ToSet
  <2>4. ASSUME NEW r \in Pending \ {s}
        PROVE  r \in Pending'
    <3>1. PICK i \in 1..Len(todo) : todo[i] = r
      BY <2>1 DEF Pending, ToSet
    <3>2. i # 1 /\ i - 1 \in 1..(Len(todo) - 1)
      BY <2>1, <3>1
    <3>3. Tail(todo)[i - 1] = r
      BY <2>1, <3>1, <3>2
    <3>4. QED
      BY <1>2, <2>1, <3>2, <3>3 DEF Pending, ToSet
  <2>5. QED
    BY <2>2, <2>3, <2>4
<1>7. /\ registered'[s] = g
      /\ \A r \in Service \ {s} : registered'[r] = registered[r]
  BY <1>1, <1>2, <1>4
<1>8. \A h \in Group : OffersOf(h) \subseteq Service /\ OffersOf(h)' = OffersOf(h)
  BY DEF OffersOf, ToSet
<1>9. Typed' /\ Frozen'
  <2>1. todo' \in Seq(Service)
    BY <1>1, <1>2
  <2>2. registered' \in [Service -> Group \cup {NoGroup}]
    BY <1>1, <1>2, <1>3
  <2>3. QED
    BY <1>2, <2>1, <2>2 DEF Inv, Typed, Frozen
<1>10. Committing'
  <2>1. mu' = t /\ group'[mu'] = g /\ OffersOf(g)' = OffersOf(g)
    BY <1>1, <1>2, <1>3, <1>8
  <2>2. ASSUME NEW r \in Pending'
        PROVE  r \in OffersOf(g) /\ registered'[r] = NoGroup
    BY <1>1, <1>3, <1>6, <1>7, <1>8, <2>2 DEF Inv, Committing
  <2>3. ASSUME NEW r \in OffersOf(g), r \notin Pending'
        PROVE  registered'[r] = g
    BY <1>1, <1>3, <1>6, <1>7, <1>8, <2>3 DEF Inv, Committing
  <2>4. QED
    BY <1>3, <1>6, <2>1, <2>2, <2>3 DEF Committing, OffersOf
<1>11. Whole'
  <2> SUFFICES ASSUME NEW h \in Group, h # g,
                      NEW q \in OffersOf(h), NEW r \in OffersOf(h), registered'[q] = h
               PROVE  registered'[r] = h
    BY <1>1, <1>2, <1>8 DEF Whole
  <2>1. q # s /\ registered[q] = h
    BY <1>7, <1>8
  <2>2. registered[r] = h
    BY <1>1, <2>1 DEF Inv, Whole
  <2>3. QED
    BY <1>5, <1>7, <1>8, <2>2
<1>12. Projected'
  <2>1. Registered' = Registered \cup {s}
    BY <1>3, <1>4, <1>7 DEF Registered
  <2>2. \A h, r : ToolsForService(h, r)' = ToolsForService(h, r)
    BY <1>2 DEF ToolsForService, ShouldInclude
  <2>3. native' = Builtin \cup Registered'
    BY <1>2, <2>1 DEF Inv, Projected
  <2>4. s \notin Registered /\ \A r \in Registered : registered'[r] = registered[r]
    BY <1>5, <1>7 DEF Registered
  <2>5. tools' = UNION {ToolsForService(registered'[r], r) : r \in Registered'}
    BY <1>2, <1>7, <2>1, <2>4 DEF Inv, Projected
  <2>6. QED
    BY <2>2, <2>3, <2>5 DEF Projected
<1>13. QED
  BY <1>9, <1>10, <1>11, <1>12 DEF Inv

LEMMA EmptyToSet == ToSet(<<>>) = {}
  BY DEF ToSet

LEMMA UnlockInv ==
  ASSUME Inv, NEW t \in Thread, Unlock(t)
  PROVE  Inv'
<1> USE RegistryAssumption
<1>1. /\ mu = t /\ todo = <<>> /\ mu' = NoThread
      /\ pc' = [pc EXCEPT ![t] = "idle"] /\ group' = [group EXCEPT ![t] = NoGroup]
      /\ UNCHANGED <<frozen, frozenFast, setup, todo, registered>>
  BY DEF Unlock, setup
<1>2. Projected'
  BY <1>1, KeepsProjected DEF setup
<1>3. Typed' /\ Frozen' /\ Committing'
  BY <1>1 DEF Inv, Typed, Frozen, Committing
<1>4. \A s \in OffersOf(group[t]) : registered[s] = group[t]
  <2>1. Committing
    BY DEF Inv
  <2>2. Pending = {}
    BY <1>1, EmptyToSet, Zenon DEF Pending
  <2>3. mu # NoThread
    BY <1>1
  <2>4. QED
    BY <1>1, <2>1, <2>2, <2>3, Zenon DEF Committing
<1>5. Whole'
  BY <1>1, <1>4 DEF Inv, Whole, OffersOf
<1>6. QED
  BY <1>2, <1>3, <1>5 DEF Inv

LEMMA NextInv == Inv /\ [Next]_vars => Inv'
<1> SUFFICES ASSUME Inv, [Next]_vars
             PROVE  Inv'
  OBVIOUS
<1>1. CASE Setter \/ Filter
  BY <1>1, SetterInv
<1>2. CASE Serving
  BY <1>2, ServingInv
<1>3. ASSUME NEW t \in Thread, NEW g \in Group, Connect(t, g) \/ Register(t, g)
      PROVE  Inv'
  BY <1>3, ConnectInv, RegisterInv
<1>4. ASSUME NEW t \in Thread, CommitService(t) \/ Unlock(t)
      PROVE  Inv'
  BY <1>4, CommitInv, UnlockInv
<1>5. CASE UNCHANGED vars
  <2>1. Projected'
    BY <1>5, KeepsProjected DEF vars, setup
  <2>2. Typed' /\ Frozen'
    BY <1>5 DEF Inv, Typed, Frozen, vars, setup
  <2>3. Committing' /\ Whole'
    <3>1. mu' = mu /\ group' = group /\ todo' = todo /\ registered' = registered
      BY <1>5 DEF vars, setup
    <3>2. Committing /\ Whole
      BY DEF Inv
    <3>3. Committing'
      BY <3>1, <3>2, Zenon DEF Committing, Pending, OffersOf
    <3>4. Whole'
      BY <3>1, <3>2, Zenon DEF Whole, OffersOf
    <3>5. QED
      BY <3>3, <3>4
  <2>4. QED
    BY <2>1, <2>2, <2>3 DEF Inv
<1>6. QED
  BY <1>1, <1>2, <1>3, <1>4, <1>5 DEF Next, Setter, Filter, Serving

\* registerServices is all or nothing for any number of services and goroutines.
THEOREM CallsAreWhole == Spec => []CallsWhole
<1>1. Inv => CallsWhole
  BY DEF Inv, Whole, CallsWhole, OffersOf
<1>2. QED
  BY <1>1, InitInv, NextInv, PTL DEF Spec

\* Whatever the order of the setup calls, the tools are the methods that the filters
\* select from the services that gRPC serves.
THEOREM ProjectionIsFiltered == Spec => []ProjectionFollowsFilters
<1>1. Inv => ProjectionFollowsFilters
  BY DEF Inv, Projected, Registered, ProjectionFollowsFilters
<1>2. QED
  BY <1>1, InitInv, NextInv, PTL DEF Spec

\* What is read without the mutex while serving never changes: freeze excludes every
\* registration in progress and every later setter.
THEOREM SetupIsConstantOnceServing == Spec => ConstantOnceServing
<1> DEFINE Late == frozen \/ \E t \in Thread : pc[t] = "serving"
<1>1. ASSUME Inv, Next, Late
      PROVE  frozen' /\ UNCHANGED setup
  <2>1. frozen /\ mu = NoThread
    BY <1>1 DEF Inv, Frozen
  <2>2. CASE Setter \/ Filter
    BY <2>1, <2>2 DEF Setter, Filter, SetMaxBytes, ConfigureMethod, Use, Include, Exclude,
                      UpdateConfiguration, UpdateProjectionFilters
  <2>3. CASE Serving
    BY <2>1, <2>3 DEF Serving, Start, FreezeFast, FreezeSlow, Finish
  <2>4. ASSUME NEW t \in Thread, NEW g \in Group, Connect(t, g) \/ Register(t, g)
        PROVE  frozen' /\ UNCHANGED setup
    BY <2>1, <2>4 DEF Connect, Register
  <2>5. ASSUME NEW t \in Thread, CommitService(t) \/ Unlock(t)
        PROVE  FALSE
    BY <2>1, <2>5, RegistryAssumption DEF CommitService, Unlock
  <2>6. QED
    BY <1>1, <2>2, <2>3, <2>4, <2>5 DEF Next, Setter, Filter, Serving
<1>2. Inv /\ [Next]_vars => [Late => frozen' /\ UNCHANGED setup]_vars
  BY <1>1
<1>3. QED
  BY <1>2, InitInv, NextInv, PTL DEF Spec, ConstantOnceServing
===============================================================================
